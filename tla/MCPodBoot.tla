----------------------------- MODULE MCPodBoot -----------------------------
(* RuntimeImage and PodBoot on a small instance.                           *)
EXTENDS PodBoot

CONSTANTS c1, c2

Versions == {c1, c2}
=============================================================================
