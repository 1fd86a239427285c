------------------------------ MODULE PodBoot ------------------------------
(***************************************************************************)
(* From a published image to a pod that serves: the gate the deploy runs   *)
(* before it spends anything (verify_serving_profile_contract.py and       *)
(* verify_oci_image_contract.py), and entrypoint.sh on the pod with        *)
(* verify_runtime.py and wait_for_engine.py.                               *)
(*                                                                         *)
(* Terms stand for what a profile's contract fixes and the pod's           *)
(* environment carries: model, revisions, context and engine arguments.  A *)
(* contract version has terms of its own for each profile.  The rate and   *)
(* the readiness time are in no term: the gate compares the rate with the  *)
(* catalog, the pod does not see it, and entrypoint.sh has the time as a   *)
(* number of its own.                                                      *)
(***************************************************************************)
EXTENDS RuntimeImage

CONSTANTS
  MaxBoots   \* bound: starts of the pod's container

ASSUME PodAssumption == MaxBoots \in Nat

Profiles == {"gpt-oss-120b-h100-v1", "qwen7b-consumer-v1"}
H100 == "gpt-oss-120b-h100-v1"

VARIABLES
  local,     \* the contract in the deployer's checkout
  order,     \* what is deployed: image, profile, terms rendered, terms sold
  gate,      \* how far the deploy has come
  env,       \* the environment the pod was created with
  pc,        \* the step of entrypoint.sh
  trap,      \* the cleanup trap is set
  term,      \* a TERM waits for the foreground command to end
  engine,    \* vLLM: "none", "starting", "healthy", "dead"
  answered,  \* its health endpoint has answered in this boot
  worker,    \* the pull worker: "none", "running", "ready" (registered), "dead"
  compiled,  \* the FlashInfer workspace has compiler output
  attested,  \* the attestation files on the container's disk
  overdue,   \* ENGINE_READY_TIMEOUT_SECONDS have passed
  boots,
  registered \* handshakes of the pod's workers

deployVars == <<local, order, gate, env>>
disk == <<compiled, attested>>
podVars == <<pc, trap, term, engine, answered, worker, overdue, boots, registered, disk>>
vars == <<imageVars, deployVars, podVars>>

NoImage == [contract |-> "none", label |-> "none", whole |-> FALSE]
NoOrder == [image |-> NoImage, profile |-> H100, terms |-> "none", sold |-> "none"]
NoEnv == [profile |-> "none", terms |-> "none"]

TypeOK ==
  /\ ImageTypeOK
  /\ local \in Contracts
  /\ gate \in {"none", "projected", "created"}
  /\ order.profile \in Profiles /\ order.image \in images \cup {NoImage}
  /\ env.terms \in Contracts \cup {"none", "other"}
  /\ pc \in {"off", "case", "runtime", "fetch", "engine", "wait", "post", "worker", "any", "exit"}
  /\ trap \in BOOLEAN /\ term \in BOOLEAN /\ answered \in BOOLEAN
  /\ engine \in {"none", "starting", "healthy", "dead"}
  /\ worker \in {"none", "running", "ready", "dead"}
  /\ compiled \in BOOLEAN /\ overdue \in BOOLEAN
  /\ attested \subseteq {"pre_engine", "post_engine"}
  /\ boots \in 0 .. MaxBoots /\ registered \in 0 .. boots

Init ==
  /\ ImageInit
  /\ local \in Contracts /\ order = NoOrder /\ gate = "none" /\ env = NoEnv
  /\ pc = "off" /\ trap = FALSE /\ term = FALSE
  /\ engine = "none" /\ answered = FALSE /\ worker = "none" /\ overdue = FALSE
  /\ boots = 0 /\ registered = 0
  /\ compiled = FALSE /\ attested = {}

----------------------------------------------------------------------------
(* The gate.  It runs for the H100 profile; another is deployed without.   *)

\* validate_projection: the terms rendered, and those the catalog sells, are the contract's.
ProjectionAgrees(c, o) == o.terms = c /\ o.sold = c

\* The answer of the registry has the digest it was asked for, and its label is the contract.
ImageAgrees(answer, image, c) == answer = image /\ answer.label = c

\* The deployer takes a published image and renders a profile, well or badly.
Project ==
  /\ gate = "none" /\ line = "idle"
  /\ \E i \in images, p \in Profiles, t, s \in Contracts \cup {"other"} :
       /\ p = H100 => ProjectionAgrees(local, [terms |-> t, sold |-> s])
       /\ order' = [image |-> i, profile |-> p, terms |-> t, sold |-> s]
  /\ gate' = "projected"
  /\ UNCHANGED <<imageVars, local, env, podVars>>

\* The registry may answer with another image, or not at all.
Answers == images \cup {NoImage}

\* The image is looked up; then the gateway creates the pod with what was rendered, or with
\* something else.
Create ==
  /\ gate = "projected"
  /\ order.profile = H100 =>
       \E answer \in Answers : ImageAgrees(answer, order.image, local)
  /\ gate' = "created"
  /\ \E t \in {order.terms, "other"}, p \in {order.profile, "none"} :
       env' = [profile |-> p, terms |-> t]
  /\ UNCHANGED <<imageVars, local, order, podVars>>

----------------------------------------------------------------------------
(* entrypoint.sh.  A foreground command ends; a TERM that came meanwhile   *)
(* then kills what has been started, and the script goes on.               *)

Running == pc \notin {"off", "exit"}

Kills(process) == IF term /\ process # "none" THEN "dead" ELSE process

Goes(from, to) ==
  /\ pc = from /\ pc' = to
  /\ term' = FALSE

\* set -e, or exit: the EXIT trap kills both, and the container ends.
Exit == pc' = "exit" /\ term' = FALSE /\ engine' = "none" /\ worker' = "none"

Refuses(from) ==
  /\ pc = from /\ Exit
  /\ UNCHANGED <<imageVars, deployVars, trap, answered, overdue, boots, registered, disk>>

\* The provider starts the container, or starts it again on the same disk.
Boot ==
  /\ gate = "created" /\ pc \in {"off", "exit"} /\ boots < MaxBoots
  /\ pc' = "case" /\ boots' = boots + 1
  /\ trap' = FALSE /\ term' = FALSE /\ answered' = FALSE /\ overdue' = FALSE
  /\ engine' = "none" /\ worker' = "none"
  /\ UNCHANGED <<imageVars, deployVars, registered, disk>>

KnownProfile ==
  /\ Goes("case", "runtime")
  /\ env.profile \in Profiles
  /\ UNCHANGED <<imageVars, deployVars, trap, engine, answered, worker, overdue, boots,
                 registered, disk>>

\* verify_profile: the model, the revisions, the context and the engine arguments of the
\* environment are the baked contract's.
ProfileVerified == env.terms = order.image.contract

\* verify_h100_runtime: nothing has been compiled in the workspace; what it says of the
\* hardware and the backends it resolves is in Refused.
H100Verified == env.profile = H100 => ~compiled

\* write_attestation creates its file, or fails.
Attest(phase) == phase \notin attested /\ attested' = attested \cup {phase}

VerifyRuntime ==
  /\ Goes("runtime", "fetch")
  /\ ProfileVerified /\ H100Verified
  /\ Attest("pre_engine")
  /\ UNCHANGED <<imageVars, deployVars, trap, engine, answered, worker, overdue, boots,
                 registered, compiled>>

FetchWorker ==
  /\ Goes("fetch", "engine")
  /\ UNCHANGED <<imageVars, deployVars, trap, engine, answered, worker, overdue, boots,
                 registered, disk>>

StartEngine ==
  /\ Goes("engine", "wait")
  /\ trap' = TRUE /\ engine' = "starting"
  /\ UNCHANGED <<imageVars, deployVars, answered, worker, overdue, boots, registered, disk>>

\* A variant: the deadline is not looked at.
WaitForEver ==
  \/ /\ engine = "healthy"
     /\ Goes("wait", "post")
     /\ answered' = TRUE /\ engine' = Kills(engine)
     /\ UNCHANGED <<imageVars, deployVars, trap, worker, overdue, boots, registered, disk>>
  \/ engine = "dead" /\ Refuses("wait")

\* wait_for_engine.py: a health answer in time, and the process alive before it.
WaitForEngine ==
  \/ /\ engine = "healthy"
     /\ Goes("wait", "post")
     /\ answered' = TRUE /\ engine' = Kills(engine)
     /\ UNCHANGED <<imageVars, deployVars, trap, worker, overdue, boots, registered, disk>>
  \/ (engine = "dead" \/ overdue) /\ Refuses("wait")

\* A variant: the workspace is scanned before the engine alone.
VerifyPostUnscanned ==
  /\ Goes("post", "worker")
  /\ ProfileVerified
  /\ Attest("post_engine")
  /\ engine' = Kills(engine)
  /\ UNCHANGED <<imageVars, deployVars, trap, answered, worker, overdue, boots, registered,
                 compiled>>

\* As before the engine; the scan now says what the engine did as it started.
VerifyPostEngine ==
  /\ Goes("post", "worker")
  /\ ProfileVerified /\ H100Verified
  /\ Attest("post_engine")
  /\ engine' = Kills(engine)
  /\ UNCHANGED <<imageVars, deployVars, trap, answered, worker, overdue, boots, registered,
                 compiled>>

StartWorker ==
  /\ Goes("worker", "any")
  /\ worker' = "running"
  /\ engine' = Kills(engine)
  /\ UNCHANGED <<imageVars, deployVars, trap, answered, overdue, boots, registered, disk>>

\* wait -n ends when either process has, or with a TERM.
WaitAny == (engine = "dead" \/ worker = "dead" \/ term) /\ Refuses("any")

\* A verification, the download or the case refuses.
Refused == \E s \in {"case", "runtime", "fetch", "post"} : Refuses(s)

Entrypoint ==
  \/ KnownProfile \/ VerifyRuntime \/ FetchWorker \/ StartEngine \/ WaitForEngine
  \/ VerifyPostEngine \/ StartWorker \/ WaitAny

----------------------------------------------------------------------------
(* The processes, the clock and the provider.                              *)

\* What an engine compiles it compiles as it starts.  That JIT is disabled is not relied on.
EngineCompiles ==
  /\ engine = "starting" /\ ~compiled /\ compiled' = TRUE
  /\ UNCHANGED <<imageVars, deployVars, pc, trap, term, engine, answered, worker, overdue, boots,
                 registered, attested>>

EngineHealthy ==
  /\ engine = "starting" /\ engine' = "healthy"
  /\ UNCHANGED <<imageVars, deployVars, pc, trap, term, answered, worker, overdue, boots,
                 registered, disk>>

EngineDies ==
  /\ engine \in {"starting", "healthy"} /\ engine' = "dead"
  /\ UNCHANGED <<imageVars, deployVars, pc, trap, term, answered, worker, overdue, boots,
                 registered, disk>>

\* The handshake: the manager takes the pod as ready.
Registers ==
  /\ worker = "running" /\ worker' = "ready"
  /\ registered' = registered + 1
  /\ UNCHANGED <<imageVars, deployVars, pc, trap, term, engine, answered, overdue, boots, disk>>

WorkerDies ==
  /\ worker \in {"running", "ready"} /\ worker' = "dead"
  /\ UNCHANGED <<imageVars, deployVars, pc, trap, term, engine, answered, overdue, boots,
                 registered, disk>>

DeadlinePasses ==
  /\ pc = "wait" /\ ~overdue /\ overdue' = TRUE
  /\ UNCHANGED <<imageVars, deployVars, pc, trap, term, engine, answered, worker, boots,
                 registered, disk>>

\* The container's first process ignores a TERM until its trap is set.
Signal ==
  /\ Running /\ trap /\ ~term /\ term' = TRUE
  /\ UNCHANGED <<imageVars, deployVars, pc, trap, engine, answered, worker, overdue, boots,
                 registered, disk>>

KillContainer ==
  /\ Running /\ Exit
  /\ UNCHANGED <<imageVars, deployVars, trap, answered, overdue, boots, registered, disk>>

Around == EngineCompiles \/ EngineHealthy \/ EngineDies \/ Registers \/ WorkerDies
          \/ DeadlinePasses \/ Signal \/ KillContainer \/ Boot

\* What is built after the deploy is nothing to it.
Build == gate = "none" /\ ImageNext /\ UNCHANGED <<deployVars, podVars>>

Next == Build \/ Project \/ Create \/ Entrypoint \/ Refused \/ Around

Spec == Init /\ [][Next]_vars

\* The script runs, and time passes.
FairSpec == Spec /\ WF_vars(Entrypoint \/ Refused) /\ WF_vars(DeadlinePasses)

----------------------------------------------------------------------------
(* What the image and the boot promise.                                    *)

\* An H100 pod is created only for an image with the terms that are sold.  A pod registers at
\* most once, and when it has: its image has the patched sources and the operators compiled
\* from them, both verifications have passed on this pod, the engine has answered in that boot,
\* and for the H100 profile what is served is what was sold.
RegisteredIsSound ==
  /\ gate = "created" /\ order.profile = H100 => order.image.contract = order.sold
  /\ registered <= 1
  /\ worker = "ready" => answered
  /\ registered = 1 =>
       /\ order.image.whole
       /\ attested = {"pre_engine", "post_engine"}
       /\ env.terms = order.image.contract
       /\ env.profile = H100 => env.terms = order.sold /\ ~compiled

\* A started container comes to have a worker or ends, and ends after either process has.
ContainerEnds ==
  /\ Running ~> (worker # "none" \/ ~Running)
  /\ (Running /\ "dead" \in {engine, worker}) ~> ~Running
=============================================================================
