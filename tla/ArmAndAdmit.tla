----------------------------- MODULE ArmAndAdmit -----------------------------
(***************************************************************************)
(* The one-shot admission of a series of batches: the armer                *)
(* (controlplane/ci/arm_stacked_n24_admit_launchd.py), the coordinator     *)
(* that launchd starts for it (controlplane/ci/stacked_n24_admit.py) and   *)
(* the coordinator's canaries.                                             *)
(*                                                                         *)
(* All armers are invocations for one series: one label, one artifact      *)
(* root.  Their run directories may differ.  An armer bootstraps at most   *)
(* once, so that a coordinator is named by the armer that started it.      *)
(*                                                                         *)
(* Armers and coordinators share files, written once, and launchd; nothing *)
(* is timed: a gate, a limit or a wait may run out at any step.            *)
(***************************************************************************)
EXTENDS Integers

CONSTANTS
  Armers,        \* invocations of the armer for the series
  NoArmer,
  Dirs,          \* run directories
  Attempts,      \* PROOF_ATTEMPTS: 50
  Batches,       \* BATCHES: 24
  ReadsBack,     \* the outcomes of reading a receipt back: TRUE, and FALSE where a read may fail
  MaxFaults      \* bound: how often a process is killed or signalled

ASSUME ArmAssumption ==
  /\ NoArmer \notin Armers
  /\ Attempts \in Nat \ {0}
  /\ Batches \in Nat \ {0}
  /\ ReadsBack \subseteq BOOLEAN
  /\ TRUE \in ReadsBack
  /\ MaxFaults \in Nat

Indices == 1 .. Batches

VARIABLES
  armer,     \* armer[a]: its next step, or how it ended
  runDir,    \* runDir[a]: its --run-dir
  tries,     \* tries[a]: proofs attempted
  plist,     \* plist[d]: whose plist and logs are in run directory d
  receipt,   \* receipt[d]: whose arming receipt
  job,       \* whose job is loaded under the label
  coord,     \* coord[a]: the next step of the coordinator a's job started
  lock,      \* one-shot.lock of the artifact root: whose coordinator took it
  procs,     \* procs[a]: processes
  child,     \* child[i]: the canary of batch i
  accepted,  \* batches whose canary has logged ACCEPTED_MARKER
  sampled,   \* batches whose cache sample is taken
  strays,    \* canaries started and not yet in processes when a signal came
  faults

armerVars == <<armer, runDir, tries, plist, receipt>>
seriesVars == <<procs, child, accepted, sampled, strays>>
vars == <<armerVars, job, coord, lock, seriesVars, faults>>

ArmerSteps == {"prepare", "label", "stage", "bootstrap", "prove", "recheck", "publish",
               "published", "cleanup"}
\* How an armer ends: "armed"; "authorised": failed after the receipt was published;
\* "refused"; "stuck": refused, and the bootout failed too.
ArmerEnds == {"armed", "authorised", "refused", "stuck", "dead"}

GateSteps == {"gate", "lock"}
\* "term": terminate() of the processes
SeriesSteps == {"admit", "append", "await", "join", "term"}
\* "killed" stands for a terminate() that was interrupted, too
CoordEnds == {"gone", "failed", "complete", "killed"}

TypeOK ==
  /\ armer \in [Armers -> {"idle"} \cup ArmerSteps \cup ArmerEnds]
  /\ runDir \in [Armers -> Dirs]
  /\ tries \in [Armers -> 0 .. Attempts]
  /\ plist \in [Dirs -> Armers \cup {NoArmer}]
  /\ receipt \in [Dirs -> Armers \cup {NoArmer}]
  /\ job \in Armers \cup {NoArmer}
  /\ coord \in [Armers -> {"none"} \cup GateSteps \cup SeriesSteps \cup CoordEnds]
  /\ lock \in Armers \cup {NoArmer}
  /\ procs \in [Armers -> 0 .. Batches]
  /\ child \in [Indices -> {"none", "running", "ok", "failed"}]
  /\ accepted \subseteq Indices
  /\ sampled \subseteq Indices
  /\ strays \subseteq Indices
  /\ faults \in 0 .. MaxFaults

Init ==
  /\ armer = [a \in Armers |-> "idle"]
  /\ runDir \in [Armers -> Dirs]
  /\ tries = [a \in Armers |-> 0]
  /\ plist = [d \in Dirs |-> NoArmer]
  /\ receipt = [d \in Dirs |-> NoArmer]
  /\ job = NoArmer
  /\ coord = [a \in Armers |-> "none"]
  /\ lock = NoArmer
  /\ procs = [a \in Armers |-> 0]
  /\ child = [i \in Indices |-> "none"]
  /\ accepted = {}
  /\ sampled = {}
  /\ strays = {}
  /\ faults = 0

----------------------------------------------------------------------------
(* The armer.                                                              *)

Arms(a, from, to) ==
  /\ armer[a] = from
  /\ armer' = [armer EXCEPT ![a] = to]

\* config_from_args: an artifact root with a lock is refused.
Start(a) ==
  /\ \/ Arms(a, "idle", "refused")
     \/ lock = NoArmer /\ Arms(a, "idle", "prepare")
  /\ UNCHANGED <<runDir, tries, plist, receipt, job, coord, lock, seriesVars, faults>>

\* prepare_run_dir: a directory with arming state is refused.
Prepare(a) ==
  /\ Arms(a, "prepare", IF plist[runDir[a]] = NoArmer THEN "label" ELSE "refused")
  /\ UNCHANGED <<runDir, tries, plist, receipt, job, coord, lock, seriesVars, faults>>

\* require_free_label: a print that fails passes for a free label.
RequireFreeLabel(a) ==
  /\ \/ Arms(a, "label", "stage")
     \/ job # NoArmer /\ Arms(a, "label", "refused")
  /\ UNCHANGED <<runDir, tries, plist, receipt, job, coord, lock, seriesVars, faults>>

\* The plist and the logs are written once.
Stage(a) ==
  /\ \/ /\ plist[runDir[a]] = NoArmer
        /\ plist' = [plist EXCEPT ![runDir[a]] = a]
        /\ \E to \in {"bootstrap", "refused"} : Arms(a, "stage", to)
     \/ Arms(a, "stage", "refused") /\ UNCHANGED plist
  /\ UNCHANGED <<runDir, tries, receipt, job, coord, lock, seriesVars, faults>>

\* A variant: a refused bootstrap is cleaned up after, too.
BootstrapThenCleanUp(a) ==
  /\ \/ /\ job = NoArmer
        /\ Arms(a, "bootstrap", "prove")
        /\ job' = a
        /\ coord' = [coord EXCEPT ![a] = "gate"]
     \/ Arms(a, "bootstrap", "cleanup") /\ UNCHANGED <<job, coord>>
  /\ UNCHANGED <<runDir, tries, plist, receipt, lock, seriesVars, faults>>

\* launchctl bootstrap: it loads no second job under the label, and starts the one
\* it loads.
Bootstrap(a) ==
  /\ \/ /\ job = NoArmer
        /\ Arms(a, "bootstrap", "prove")
        /\ job' = a
        /\ coord' = [coord EXCEPT ![a] = "gate"]
     \/ Arms(a, "bootstrap", "refused") /\ UNCHANGED <<job, coord>>
  /\ UNCHANGED <<runDir, tries, plist, receipt, lock, seriesVars, faults>>

Running(a) == job = a /\ coord[a] \in GateSteps \cup SeriesSteps

\* A variant: one attempt too many.
ProveOnceMore(a) ==
  /\ \/ Running(a) /\ Arms(a, "prove", "recheck") /\ UNCHANGED tries
     \/ /\ tries' = [tries EXCEPT ![a] = @ + 1]
        /\ Arms(a, "prove", IF tries[a] < Attempts THEN "prove" ELSE "cleanup")
  /\ UNCHANGED <<runDir, plist, receipt, job, coord, lock, seriesVars, faults>>

\* A variant: the attempts are not counted.
ProveForEver(a) ==
  /\ \/ Running(a) /\ Arms(a, "prove", "recheck")
     \/ Arms(a, "prove", "prove")
  /\ UNCHANGED <<runDir, tries, plist, receipt, job, coord, lock, seriesVars, faults>>

\* One attempt of the proof: the job is seen running, or not (yet).
Prove(a) ==
  /\ \/ Running(a) /\ Arms(a, "prove", "recheck") /\ UNCHANGED tries
     \/ /\ tries' = [tries EXCEPT ![a] = @ + 1]
        /\ Arms(a, "prove", IF tries[a] + 1 < Attempts THEN "prove" ELSE "cleanup")
  /\ UNCHANGED <<runDir, plist, receipt, job, coord, lock, seriesVars, faults>>

Recheck(a) ==
  /\ \/ Running(a) /\ Arms(a, "recheck", "publish")
     \/ Arms(a, "recheck", "cleanup")
  /\ UNCHANGED <<runDir, tries, plist, receipt, job, coord, lock, seriesVars, faults>>

\* The receipt is linked, or the step fails before.
Publish(a) ==
  /\ \/ /\ receipt[runDir[a]] = NoArmer
        /\ receipt' = [receipt EXCEPT ![runDir[a]] = a]
        /\ Arms(a, "publish", "published")
     \/ Arms(a, "publish", "cleanup") /\ UNCHANGED receipt
  /\ UNCHANGED <<runDir, tries, plist, job, coord, lock, seriesVars, faults>>

\* The armer returns, or fails after the link.
Return(a) ==
  /\ \E to \in {"armed", "cleanup"} : Arms(a, "published", to)
  /\ UNCHANGED <<runDir, tries, plist, receipt, job, coord, lock, seriesVars, faults>>

\* What SIGTERM makes of a coordinator: from the admission on it is caught.
Signalled(s) ==
  CASE s \in {"admit", "append", "await", "join"} -> "term"
    [] s = "term"      -> "killed"
    [] s \in GateSteps -> "gone"
    [] OTHER           -> s

\* SIGTERM to the coordinator of a; a canary not yet in processes is forgotten.
Signal(a) ==
  /\ coord' = [coord EXCEPT ![a] = Signalled(@)]
  /\ strays' = IF coord[a] = "append" THEN strays \cup {procs[a] + 1} ELSE strays

\* launchctl bootout of the label, whosever job it carries.
BootOut(a) ==
  \/ /\ Arms(a, "cleanup", "refused")
     /\ job # NoArmer /\ job' = NoArmer
     /\ Signal(job)
  \/ Arms(a, "cleanup", "stuck") /\ UNCHANGED <<job, coord, strays>>

\* A variant: what was published is not looked at.
CleanUpBlind(a) ==
  /\ BootOut(a)
  /\ UNCHANGED <<runDir, tries, plist, receipt, lock, procs, child, accepted, sampled, faults>>

\* The handler of a failed arming.  What this attempt has published stays authorised;
\* a receipt that is not there, or cannot be read back, is not published.
CleanUp(a) ==
  /\ \E read \in ReadsBack :
       IF read /\ receipt[runDir[a]] = a
         THEN Arms(a, "cleanup", "authorised") /\ UNCHANGED <<job, coord, strays>>
         ELSE BootOut(a)
  /\ UNCHANGED <<runDir, tries, plist, receipt, lock, procs, child, accepted, sampled, faults>>

\* KeyboardInterrupt; the handler begins where the try block does.
InterruptArmer(a) ==
  /\ faults < MaxFaults
  /\ faults' = faults + 1
  /\ \/ \E from \in {"prove", "recheck", "publish", "published"} : Arms(a, from, "cleanup")
     \/ \E from \in {"prepare", "label", "stage", "bootstrap", "cleanup"} : Arms(a, from, "dead")
  /\ UNCHANGED <<runDir, tries, plist, receipt, job, coord, lock, seriesVars>>

KillArmer(a) ==
  /\ faults < MaxFaults
  /\ faults' = faults + 1
  /\ \E from \in ArmerSteps : Arms(a, from, "dead")
  /\ UNCHANGED <<runDir, tries, plist, receipt, job, coord, lock, seriesVars>>

----------------------------------------------------------------------------
(* The coordinator.                                                        *)

Steps(a, from, to) ==
  /\ coord[a] = from
  /\ coord' = [coord EXCEPT ![a] = to]

\* A variant: the gate opens when its wait is over.
GateWaits(a) ==
  /\ Steps(a, "gate", "lock")
  /\ UNCHANGED <<armerVars, job, lock, seriesVars, faults>>

\* require_launchd_arming_receipt: the receipt its plist names is there.
GateOpens(a) ==
  /\ receipt[runDir[a]] # NoArmer
  /\ Steps(a, "gate", "lock")
  /\ UNCHANGED <<armerVars, job, lock, seriesVars, faults>>

\* The wait is over, the receipt is stale or incoherent, or the pre-spend receipt is.
GateRefuses(a) ==
  /\ Steps(a, "gate", "gone")
  /\ UNCHANGED <<armerVars, job, lock, seriesVars, faults>>

\* A variant: mkdir with exist_ok.
TakeLockAnyway(a) ==
  /\ lock' = a
  /\ \E to \in {"admit", "failed"} : Steps(a, "lock", to)
  /\ UNCHANGED <<armerVars, job, seriesVars, faults>>

\* The lock, and the sealed copies of both receipts, which may fail.
TakeLock(a) ==
  /\ \/ /\ lock = NoArmer
        /\ lock' = a
        /\ \E to \in {"admit", "failed"} : Steps(a, "lock", to)
     \/ Steps(a, "lock", "failed") /\ UNCHANGED lock
  /\ UNCHANGED <<armerVars, job, seriesVars, faults>>

\* The next canary, under a log of its own that must be new.
Spawn(a) ==
  /\ coord[a] = "admit"
  /\ LET i == procs[a] + 1
     IN  \/ /\ child[i] = "none"
            /\ child' = [child EXCEPT ![i] = "running"]
            /\ Steps(a, "admit", "append")
         \/ Steps(a, "admit", "term") /\ UNCHANGED child
  /\ UNCHANGED <<armerVars, job, lock, procs, accepted, sampled, strays, faults>>

AppendProcess(a) ==
  /\ Steps(a, "append", "await")
  /\ procs' = [procs EXCEPT ![a] = @ + 1]
  /\ UNCHANGED <<armerVars, job, lock, child, accepted, sampled, strays, faults>>

\* A variant: the marker is not looked for.
AwaitNothing(a) ==
  /\ coord[a] = "await"
  /\ \/ child[procs[a]] = "running"
        /\ Steps(a, "await", IF procs[a] < Batches THEN "admit" ELSE "join")
     \/ Steps(a, "await", "term")
  /\ UNCHANGED <<armerVars, job, lock, seriesVars, faults>>

\* The marker of the canary just started is seen, or its exit, or the limit is over.  (It
\* is polled before its log is read, so that it may have exited when the marker is seen.)
AwaitAcceptance(a) ==
  /\ \/ procs[a] \in accepted
        /\ Steps(a, "await", IF procs[a] < Batches THEN "admit" ELSE "join")
     \/ Steps(a, "await", "term")
  /\ UNCHANGED <<armerVars, job, lock, seriesVars, faults>>

\* A variant: a failed canary is passed over.
SampleOnlyOk(a) ==
  /\ \E i \in Indices \ sampled :
       /\ child[i] = "ok"
       /\ \/ Steps(a, "join", "join") /\ sampled' = sampled \cup {i}
          \/ Steps(a, "join", "term") /\ UNCHANGED sampled
  /\ UNCHANGED <<armerVars, job, lock, procs, child, accepted, strays, faults>>

\* A variant: any exit is a success.
SampleAny(a) ==
  /\ \E i \in Indices \ sampled :
       /\ child[i] \in {"ok", "failed"}
       /\ \/ Steps(a, "join", "join") /\ sampled' = sampled \cup {i}
          \/ Steps(a, "join", "term") /\ UNCHANGED sampled
  /\ UNCHANGED <<armerVars, job, lock, procs, child, accepted, strays, faults>>

\* A canary has exited: its result and its sample are taken, or are not as they should
\* be.
Sample(a) ==
  /\ \E i \in Indices \ sampled :
       \/ child[i] = "ok" /\ Steps(a, "join", "join") /\ sampled' = sampled \cup {i}
       \/ child[i] \in {"ok", "failed"} /\ Steps(a, "join", "term") /\ UNCHANGED sampled
  /\ UNCHANGED <<armerVars, job, lock, procs, child, accepted, strays, faults>>

\* The checks over all samples and results, and the terminal receipt.
Finish(a) ==
  /\ sampled = Indices
  /\ \E to \in {"complete", "term"} : Steps(a, "join", to)
  /\ UNCHANGED <<armerVars, job, lock, seriesVars, faults>>

Alive(i) == child[i] = "running"

\* A variant: only the last process is terminated.
TerminateLast(a) ==
  /\ Steps(a, "term", "failed")
  /\ child' = [i \in Indices |-> IF i = procs[a] /\ Alive(i) THEN "failed" ELSE child[i]]
  /\ UNCHANGED <<armerVars, job, lock, procs, accepted, sampled, strays, faults>>

\* terminate: every process is killed, one after another, before the coordinator ends.
Terminate(a) ==
  /\ IF \E i \in 1 .. procs[a] : Alive(i)
       THEN \E i \in 1 .. procs[a] :
              /\ Alive(i)
              /\ child' = [child EXCEPT ![i] = "failed"]
              /\ Steps(a, "term", "term")
       ELSE Steps(a, "term", "failed") /\ UNCHANGED child
  /\ UNCHANGED <<armerVars, job, lock, procs, accepted, sampled, strays, faults>>

Active == GateSteps \cup SeriesSteps

SignalCoordinator(a) ==
  /\ coord[a] \in Active
  /\ faults < MaxFaults
  /\ faults' = faults + 1
  /\ Signal(a)
  /\ UNCHANGED <<armerVars, job, lock, procs, child, accepted, sampled>>

KillCoordinator(a) ==
  /\ \E from \in Active : Steps(a, from, "killed")
  /\ faults < MaxFaults
  /\ faults' = faults + 1
  /\ UNCHANGED <<armerVars, job, lock, seriesVars>>

----------------------------------------------------------------------------
(* The canaries, and the operator.                                         *)

\* It logs its marker once its batch is accepted, and succeeds only after that.
Canary(i) ==
  /\ Alive(i)
  /\ \/ i \notin accepted /\ accepted' = accepted \cup {i} /\ UNCHANGED child
     \/ i \in accepted /\ child' = [child EXCEPT ![i] = "ok"] /\ UNCHANGED accepted
     \/ child' = [child EXCEPT ![i] = "failed"] /\ UNCHANGED accepted
  /\ UNCHANGED <<armerVars, job, coord, lock, procs, sampled, strays, faults>>

\* The operator boots out a job whose armer has ended and whose coordinator has.  (To
\* boot it out earlier is to signal the coordinator first.)
Teardown(a) ==
  /\ job = a
  /\ armer[a] \in ArmerEnds
  /\ coord[a] \in CoordEnds
  /\ job' = NoArmer
  /\ UNCHANGED <<armerVars, coord, lock, seriesVars, faults>>

----------------------------------------------------------------------------
ArmerStep(a) ==
  \/ Prepare(a) \/ RequireFreeLabel(a) \/ Stage(a) \/ Bootstrap(a)
  \/ Prove(a) \/ Recheck(a) \/ Publish(a) \/ Return(a) \/ CleanUp(a)

CoordinatorStep(a) ==
  \/ GateOpens(a) \/ GateRefuses(a) \/ TakeLock(a)
  \/ Spawn(a) \/ AppendProcess(a) \/ AwaitAcceptance(a) \/ Sample(a) \/ Finish(a)
  \/ Terminate(a)

Fault(a) == InterruptArmer(a) \/ KillArmer(a) \/ SignalCoordinator(a) \/ KillCoordinator(a)

Next ==
  \/ \E a \in Armers : Start(a) \/ ArmerStep(a) \/ CoordinatorStep(a) \/ Fault(a) \/ Teardown(a)
  \/ \E i \in Indices : Canary(i)

Spec == Init /\ [][Next]_vars

\* No process waits for ever: the proof and the gate are bounded, and so is a canary's
\* polling.
FairSpec ==
  /\ Spec
  /\ \A a \in Armers : WF_vars(ArmerStep(a)) /\ WF_vars(CoordinatorStep(a))
  /\ \A i \in Indices : WF_vars(Canary(i))

----------------------------------------------------------------------------
(* Properties.                                                             *)

\* Demand has an authority: when any canary was ever started, the one coordinator that
\* holds the lock was started by an armer that saw it running, published the receipt
\* and did not refuse, whichever of the two processes is killed or interrupted when.
DemandIsAuthorised ==
  (\E i \in Indices : child[i] # "none") =>
    /\ lock # NoArmer
    /\ receipt[runDir[lock]] = lock
    /\ armer[lock] \in {"published", "cleanup", "armed", "authorised", "dead"}

\* "Refused" is true: the refused armer has left no receipt, its coordinator is not past
\* the gate and never will be, and its job is loaded only if it was said to be stuck.
RefusedArmsNothing ==
  \A a \in Armers : armer[a] \in {"refused", "stuck"} =>
    /\ receipt[runDir[a]] # a
    /\ coord[a] \in {"none", "gate", "gone", "killed"}
    /\ armer[a] = "refused" => job # a

\* One series, whatever is armed again in another run directory: every coordinator that
\* has come past the lock is the one whose lock it is.
OneSeries ==
  \A a \in Armers : coord[a] \in SeriesSteps \cup {"complete"} => lock = a

\* A published receipt is never followed by a recovery bootout, nor does an armer boot
\* out a job it did not create: the job of an authorised coordinator is loaded until the
\* coordinator has ended.
AuthorityIsKept ==
  [][\A a \in Armers : (job = a /\ receipt[runDir[a]] = a /\ job' # a) => coord[a] \in CoordEnds]_vars

\* The series is admitted batch by batch: when a canary was started, every batch before it
\* had been accepted, whatever has become of it since.
AdmittedInOrder ==
  \A i \in Indices : child[i] # "none" => 1 .. i - 1 \subseteq accepted

\* "complete" means that each batch was accepted, that its canary succeeded and that it
\* was sampled.
CompleteMeansAll ==
  \A a \in Armers : coord[a] = "complete" =>
    sampled = Indices /\ \A i \in Indices : child[i] = "ok"

\* A coordinator that ended, and was neither killed nor signalled again while it
\* terminated its canaries, leaves none running but one it was signalled in the middle
\* of starting.
NoStrayCanary ==
  \A a \in Armers : coord[a] \in {"failed", "complete"} /\ lock = a =>
    \A i \in Indices : Alive(i) => i \in strays

\* An armer's invocation ends.
ArmingEnds == \A a \in Armers : armer[a] \in ArmerSteps ~> armer[a] \in ArmerEnds

\* A coordinator ends, though its armer dies before the receipt or a canary fails after
\* its acceptance.
SeriesEnds == \A a \in Armers : coord[a] \in Active ~> coord[a] \in CoordEnds
=============================================================================
