---------------------------- MODULE RuntimeImage ----------------------------
(***************************************************************************)
(* The pod image: the Dockerfile's chain of runtime/*.py, from a checkout  *)
(* of the repository to an image that has passed verify_runtime.py         *)
(* --static and is published under its digest.                             *)
(*                                                                         *)
(* A step that refuses ends the build, and a build may be killed between   *)
(* two steps; the next one starts on the base image, as docker does, or on *)
(* what the last one has left, which the patching scripts allow for.       *)
(***************************************************************************)
EXTENDS Naturals, Sequences

CONSTANTS
  Contracts,  \* versions of runtime-contract.json
  MaxBuilds   \* bound: builds

ASSUME ImageAssumption == Contracts # {} /\ MaxBuilds \in Nat

\* The runner-scope script's targets, and the files that are only compared with their hash.
ScopeSources == {"instantiation", "binding", "candidate", "dispatch"}
Patched == ScopeSources \cup {"attention", "core"}
Pinned == {"mxfp4", "stub", "generator"}
Sources == Patched \cup Pinned

Operators == {"fused_moe_90", "sampling", "trtllm_utils"}
Markers == {"kv-scale", "runner-scope", "no-jit"}

VARIABLES
  line,      \* the Dockerfile step the build is at, "idle" between builds
  commit,    \* the checkout: its contract, the contract verify_runtime.py pins, the build argument
  bytes,     \* bytes[f]: published upstream ("pre"), patched ("post"), or neither ("other")
  markers,   \* the marker files present
  graph,     \* build.ninja of fused_moe_90: "none", "full" or "narrow"
  lib,       \* lib[o]: what is compiled for operator o
  aot,       \* aot[o]: what is installed for it
  manifest,  \* what the AOT manifest says is installed, or NoManifest
  images,    \* the published images
  builds

imageVars == <<line, commit, bytes, markers, graph, lib, aot, manifest, images, builds>>

\* "exact": compiled from the narrow graph of sources all of which are patched.
Objects == {"none", "exact", "loose"}
NoObject == [o \in Operators |-> "none"]
NoManifest == [o \in {} |-> "none"]

\* A variant: the operators are compiled before their sources are patched.
CompiledFirst ==
  <<"label", "install", "backport", "narrow", "reemit", "emitted", "compile", "copy", "manifest",
    "scope", "no-jit", "static", "idle">>

\* The RUN lines of the Dockerfile, and the steps of each script.
BuildOrder ==
  <<"label", "install", "backport", "scope", "no-jit", "narrow", "reemit", "emitted", "compile",
    "copy", "manifest", "static", "idle">>

Steps == {BuildOrder[k] : k \in 1 .. Len(BuildOrder)}
After(s) == BuildOrder[1 + CHOOSE k \in 1 .. Len(BuildOrder) : BuildOrder[k] = s]

ImageTypeOK ==
  /\ line \in Steps
  /\ commit \in [contract : Contracts, pins : Contracts, label : Contracts]
  /\ bytes \in [Sources -> {"pre", "post", "other"}]
  /\ markers \subseteq Markers
  /\ graph \in {"none", "full", "narrow"}
  /\ lib \in [Operators -> Objects] /\ aot \in [Operators -> Objects]
  /\ manifest \in {NoManifest} \cup [Operators -> Objects]
  /\ images \subseteq [contract : Contracts, label : Contracts, whole : BOOLEAN]
  /\ builds \in 0 .. MaxBuilds

\* At most one file of the base image and the source distribution is not the pinned one.
ImageInit ==
  /\ line = "idle"
  /\ LET c == CHOOSE c \in Contracts : TRUE IN commit = [contract |-> c, pins |-> c, label |-> c]
  /\ \E drift \in {{}} \cup {{f} : f \in Sources} :
       bytes = [f \in Sources |-> IF f \in drift THEN "other" ELSE "pre"]
  /\ markers = {} /\ graph = "none" /\ lib = NoObject /\ aot = NoObject
  /\ manifest = NoManifest /\ images = {} /\ builds = 0

Done(s) == line = s /\ line' = After(s)

----------------------------------------------------------------------------
\* A commit is checked out; its files may contradict each other.
StartBuild ==
  /\ line = "idle" /\ builds < MaxBuilds
  /\ line' = "label" /\ builds' = builds + 1
  /\ commit' \in [contract : Contracts, pins : Contracts, label : Contracts]
  /\ \/ UNCHANGED <<bytes, markers, graph, lib, aot, manifest>>
     \/ /\ bytes' = [f \in Sources |-> IF bytes[f] = "post" THEN "pre" ELSE bytes[f]]
        /\ markers' = {} /\ graph' = "none" /\ lib' = NoObject /\ aot' = NoObject
        /\ manifest' = NoManifest
  /\ UNCHANGED images

BuildStops ==
  /\ line # "idle" /\ line' = "idle"
  /\ UNCHANGED <<commit, bytes, markers, graph, lib, aot, manifest, images, builds>>

\* sha256sum -c of the contract against the build argument, which becomes the label
CheckLabel ==
  /\ Done("label")
  /\ commit.label = commit.contract
  /\ UNCHANGED <<commit, bytes, markers, graph, lib, aot, manifest, images, builds>>

\* pip --force-reinstall of the hashed source distribution: its files are upstream's again;
\* markers and installed operators are none of its files.
InstallFlashinfer ==
  /\ Done("install")
  /\ bytes' = [f \in Sources |-> IF f \in ScopeSources \cup {"core"} /\ bytes[f] = "post"
                                   THEN "pre" ELSE bytes[f]]
  /\ UNCHANGED <<commit, markers, graph, lib, aot, manifest, images, builds>>

\* Preimage to postimage, or nothing left to do; any other bytes are refused.
Patch(f) == bytes[f] \in {"pre", "post"} /\ bytes' = [bytes EXCEPT ![f] = "post"]

Backport ==
  /\ Done("backport")
  /\ Patch("attention")
  /\ markers' = markers \cup {"kv-scale"}
  /\ UNCHANGED <<commit, graph, lib, aot, manifest, images, builds>>

\* One target is replaced at a time ...
ScopeSource(f) ==
  /\ line = "scope" /\ bytes[f] = "pre"
  /\ Patch(f)
  /\ UNCHANGED <<line, commit, markers, graph, lib, aot, manifest, images, builds>>

\* ... and the marker is written when all are.
MarkScope ==
  /\ Done("scope")
  /\ \A f \in ScopeSources : bytes[f] = "post"
  /\ markers' = markers \cup {"runner-scope"}
  /\ UNCHANGED <<commit, bytes, graph, lib, aot, manifest, images, builds>>

DisableJit ==
  /\ Done("no-jit")
  /\ Patch("core")
  /\ markers' = markers \cup {"no-jit"}
  /\ UNCHANGED <<commit, graph, lib, aot, manifest, images, builds>>

----------------------------------------------------------------------------
(* build_flashinfer_aot.py                                                 *)

\* The generator has the one tactic, with the registered fields.
SelectedTactic == bytes["generator"] = "pre"

\* The pinned caller, link stub and tactic are there; upstream, as it makes the specification,
\* writes the full graph.
NarrowSpec ==
  /\ Done("narrow")
  /\ bytes["mxfp4"] = "pre" /\ bytes["stub"] = "pre" /\ SelectedTactic
  /\ graph' = "full"
  /\ UNCHANGED <<commit, bytes, markers, lib, aot, manifest, images, builds>>

\* The specification is narrowed and its graph written again.
Reemit ==
  /\ Done("reemit")
  /\ graph' = "narrow"
  /\ UNCHANGED <<commit, bytes, markers, lib, aot, manifest, images, builds>>

\* The graph on disk, not the specification in memory.
VerifyEmitted ==
  /\ Done("emitted")
  /\ graph = "narrow"
  /\ UNCHANGED <<commit, bytes, markers, graph, lib, aot, manifest, images, builds>>

Compiled(o) ==
  IF o = "fused_moe_90" /\ ~(graph = "narrow" /\ \A f \in ScopeSources : bytes[f] = "post")
    THEN "loose" ELSE "exact"

\* A variant: the one operator that is narrowed.
CompileFusedOnly ==
  /\ Done("compile")
  /\ lib' = [o \in {"fused_moe_90"} |-> Compiled(o)]
  /\ UNCHANGED <<commit, bytes, markers, graph, aot, manifest, images, builds>>

Compile ==
  /\ Done("compile")
  /\ lib' = [o \in Operators |-> Compiled(o)]
  /\ UNCHANGED <<commit, bytes, markers, graph, aot, manifest, images, builds>>

\* Each operator is copied to its place, and fused_moe_90 loaded from there.
CopyOperators ==
  /\ line = "copy"
  /\ \A o \in Operators : lib[o] # "none"
  /\ \/ line' = After("copy") /\ aot' = lib
     \/ /\ UNCHANGED line
        /\ \E o \in Operators : aot[o] # lib[o] /\ aot' = [aot EXCEPT ![o] = lib[o]]
  /\ UNCHANGED <<commit, bytes, markers, graph, lib, manifest, images, builds>>

WriteManifest ==
  /\ Done("manifest")
  /\ manifest' = aot
  /\ UNCHANGED <<commit, bytes, markers, graph, lib, aot, images, builds>>

----------------------------------------------------------------------------
(* verify_runtime.py --static                                              *)

\* Field by field, the contract is the one the verifier pins, but for what it says of the
\* hardware, which is in no version here.
ContractVerified(c, pins) == c = pins

SourcesVerified ==
  /\ markers = Markers
  /\ \A f \in Patched : bytes[f] = "post"
  /\ bytes["mxfp4"] = "pre"

\* Digest and size of each installed operator, and none that is not listed.
ManifestVerified == manifest = aot /\ \A o \in Operators : aot[o] # "none"

\* What the image is meant to be.
Whole ==
  /\ \A f \in Sources : bytes[f] = IF f \in Patched THEN "post" ELSE "pre"
  /\ \A o \in Operators : aot[o] = "exact"

VerifyStatic ==
  /\ Done("static")
  /\ ContractVerified(commit.contract, commit.pins) /\ SourcesVerified /\ ManifestVerified
  /\ images' = images \cup {[contract |-> commit.contract, label |-> commit.label,
                             whole |-> Whole]}
  /\ UNCHANGED <<commit, bytes, markers, graph, lib, aot, manifest, builds>>

BuildStep ==
  \/ StartBuild \/ CheckLabel \/ InstallFlashinfer \/ Backport
  \/ (\E f \in ScopeSources : ScopeSource(f)) \/ MarkScope \/ DisableJit
  \/ NarrowSpec \/ Reemit \/ VerifyEmitted \/ Compile \/ CopyOperators \/ WriteManifest
  \/ VerifyStatic

ImageNext == BuildStep \/ BuildStops

=============================================================================
