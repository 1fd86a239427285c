---------------------------- MODULE MCDeployTail ----------------------------
(* DeployTail on small instances.                                          *)
EXTENDS DeployTail

CONSTANTS cp, f1
=============================================================================
