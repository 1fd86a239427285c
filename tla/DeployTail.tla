----------------------------- MODULE DeployTail -----------------------------
(***************************************************************************)
(* The launch of a control-plane pod, from POST /pods to the end of the    *)
(* EXIT trap (controlplane/ci/deploy_controlplane.sh), and the resume an   *)
(* operator runs from the state the trap leaves behind when it cannot      *)
(* finish (controlplane/ci/deploy_cleanup_resume.sh).                      *)
(*                                                                         *)
(* The pod being launched is Control: its name is unique, so that "found   *)
(* by name" is "found by being Control".  Foreign are the account's other  *)
(* pods, which only the zero-live read looks at.  There are no workers.    *)
(*                                                                         *)
(* Every provider call is one step.  The sleeps that space the reads of a  *)
(* count are timed, the others are steps of any length.  A create that     *)
(* commits after its caller gave up is one that is not listed until then.  *)
(***************************************************************************)
EXTENDS Provider

CONSTANTS
  DiscoverSleep,   \* `sleep 5` between the reads of the discovery
  ResumeSleep,     \* `sleep 3` between the confirming reads of the resume
  MaxReads,        \* the discovery's attempts: 30
  MaxSweeps,       \* the resume's attempts: 60
  Garbled,         \* whose listings may be a 2xx answer that is no list of pods
  MaxKills         \* bound: how often a script dies without running its trap

ASSUME DeployAssumption ==
  /\ Workers = {}
  /\ DiscoverSleep \in Nat
  /\ ResumeSleep \in Nat
  /\ MaxReads \in Nat /\ MaxReads >= 6
  /\ MaxSweeps \in Nat
  /\ Garbled \subseteq {"launch", "resume"}
  /\ MaxKills \in Nat

VARIABLES
  step,        \* the running script's next step; "ended": none runs
  podId,       \* POD_ID: none, or known
  emptyReads,  \* EMPTY_READS
  reads,       \* ATTEMPTS of the discovery
  tries,       \* attempts of delete_pod_verified
  wake,        \* end of the current sleep
  outcome,     \* what the launch ended with
  leftover,    \* the unresolved-launch file: names the pod by name or by id
  sweeps,      \* ATTEMPTS of the resume
  clean,       \* CLEAN of the resume
  kills

launchVars == <<podId, emptyReads, reads, tries, outcome>>
resumeVars == <<sweeps, clean>>
vars == <<provVars, step, wake, launchVars, leftover, resumeVars, kills>>

\* A script that ends forgets its variables.
Ends ==
  /\ step' = "ended"
  /\ wake' = 0
  /\ podId' = "none" /\ emptyReads' = 0 /\ reads' = 0 /\ tries' = 1
  /\ sweeps' = 0 /\ clean' = 0

Quiescent == 6
MaxTries == 3
Confirmed == 3

TypeOK ==
  /\ ProvTypeOK
  /\ step \in {"create", "rate", "health", "discover", "pause", "delete", "verify",
               "zero", "sweep", "look", "remove", "confirm", "settle", "ended"}
  /\ podId \in {"none", "known"}
  /\ emptyReads \in 0 .. Quiescent
  /\ reads \in 0 .. MaxReads
  /\ tries \in 1 .. MaxTries
  /\ wake \in Nat
  /\ outcome \in {"none", "live", "clean", "others", "unresolved", "killed"}
  /\ leftover \in {"none", "name", "id"}
  /\ sweeps \in 0 .. MaxSweeps
  /\ clean \in 0 .. Confirmed
  /\ kills \in 0 .. MaxKills

Init ==
  /\ now = 0
  /\ \E old \in [Foreign -> {"RUNNING", "TERMINATED"}] :
       pod = [p \in Pods |-> [st     |-> IF p \in Foreign THEN old[p] ELSE "absent",
                              born   |-> 0, ended |-> 0, rate |-> 0, listed |-> TRUE]]
  /\ step = "create"
  /\ podId = "none" /\ emptyReads = 0 /\ reads = 0 /\ tries = 1
  /\ wake = 0
  /\ outcome = "none"
  /\ leftover = "none"
  /\ sweeps = 0 /\ clean = 0
  /\ kills = 0

----------------------------------------------------------------------------
(* The launch.                                                             *)

\* on_exit: with an id the pod is deleted, without one it is looked for.
OnExit(id) ==
  /\ podId' = id
  /\ step' = IF id = "none" THEN "discover" ELSE "delete"

\* POST /pods commits; its answer may be lost.
CreateCommits ==
  /\ step = "create"
  /\ Born(Control)
  /\ \/ podId' = "known" /\ step' = "rate"
     \/ OnExit("none")
  /\ UNCHANGED <<wake, emptyReads, reads, tries, outcome, leftover, resumeVars, kills>>

\* POST /pods is refused, or never reaches the provider.
CreateFails ==
  /\ step = "create"
  /\ OnExit("none")
  /\ UNCHANGED <<provVars, wake, emptyReads, reads, tries, outcome, leftover, resumeVars,
                 kills>>

\* The rate of the create response is within the ceiling, or the launch refuses it.
RateChecked ==
  /\ step = "rate"
  /\ step' = "health" \/ OnExit("known")
  /\ UNCHANGED <<provVars, wake, launchVars, leftover, resumeVars, kills>>

\* /healthz answers: LAUNCH_OK.
Healthy ==
  /\ step = "health"
  /\ pod[Control].st = "RUNNING"
  /\ Ends
  /\ outcome' = "live"
  /\ UNCHANGED <<provVars, leftover, kills>>

HealthDeadline ==
  /\ step = "health"
  /\ OnExit("known")
  /\ UNCHANGED <<provVars, wake, emptyReads, reads, tries, outcome, leftover, resumeVars,
                 kills>>

----------------------------------------------------------------------------
(* The EXIT trap.                                                          *)

\* persist_unresolved, and the exit that follows it everywhere.
PersistUnresolved ==
  /\ leftover' = IF podId = "none" THEN "name" ELSE "id"
  /\ outcome' = "unresolved"
  /\ Ends

NextRead ==
  /\ reads' = reads + 1
  /\ step' = "pause"
  /\ wake' = now + DiscoverSleep

\* The listing shows the launch's pod, whatever its status.
DiscoverFinds ==
  /\ step = "discover"
  /\ \E omitted \in SUBSET Omittable : Listing(omitted)[Control] # "absent"
  /\ reads' = reads + 1
  /\ OnExit("known")
  /\ UNCHANGED <<provVars, wake, emptyReads, tries, outcome, leftover, resumeVars, kills>>

\* The listing does not show it, or is nothing the parser takes: either way FOUND is
\* empty.
DiscoverEmpty ==
  /\ step = "discover"
  /\ "launch" \in Garbled \/ \E omitted \in SUBSET Omittable : Listing(omitted)[Control] = "absent"
  /\ emptyReads' = emptyReads + 1
  /\ NextRead
  /\ UNCHANGED <<provVars, podId, tries, outcome, leftover, resumeVars, kills>>

\* Two variants: a failed read counts as an empty one; a failed read is no attempt.
DiscoverFailsEmpty ==
  /\ step = "discover"
  /\ emptyReads' = emptyReads + 1
  /\ NextRead
  /\ UNCHANGED <<provVars, podId, tries, outcome, leftover, resumeVars, kills>>
DiscoverFailsFree ==
  /\ step = "discover"
  /\ emptyReads' = 0
  /\ step' = "pause"
  /\ wake' = now + DiscoverSleep
  /\ UNCHANGED <<provVars, podId, reads, tries, outcome, leftover, resumeVars, kills>>

\* The listing fails: the count starts again.
DiscoverFails ==
  /\ step = "discover"
  /\ emptyReads' = 0
  /\ NextRead
  /\ UNCHANGED <<provVars, podId, tries, outcome, leftover, resumeVars, kills>>

\* A sleep ends (at the horizon it ends at once).
SleepEnds == now >= wake \/ now = MaxTime

\* After a read: another one, or nothing was created, or the listing never recovered.
DiscoverGoesOn ==
  /\ step = "pause"
  /\ SleepEnds
  /\ IF emptyReads < Quiescent /\ reads = MaxReads
       THEN PersistUnresolved
       ELSE /\ step' = IF emptyReads < Quiescent THEN "discover" ELSE "zero"
            /\ wake' = 0
            /\ UNCHANGED <<launchVars, leftover, resumeVars>>
  /\ UNCHANGED <<provVars, kills>>

\* delete_pod_verified: the DELETE, answered or not.
DeletePod ==
  /\ step = "delete"
  /\ DeleteLands(Control) \/ UNCHANGED pod
  /\ step' = "verify"
  /\ UNCHANGED <<now, wake, launchVars, leftover, resumeVars, kills>>

\* verify_pod_gone: 404 or TERMINATED.
VerifiedGone == NotFound(Control) \/ pod[Control].st = "TERMINATED"

DeleteVerified ==
  /\ step = "verify"
  /\ VerifiedGone
  /\ step' = "zero"
  /\ UNCHANGED <<provVars, wake, launchVars, leftover, resumeVars, kills>>

\* A variant: one attempt too many.
UnverifiedOnceMore ==
  /\ step = "verify"
  /\ IF tries <= MaxTries
       THEN /\ tries' = tries + 1
            /\ step' = "delete"
            /\ UNCHANGED <<wake, podId, emptyReads, reads, outcome, leftover, resumeVars>>
       ELSE PersistUnresolved
  /\ UNCHANGED <<provVars, kills>>

\* The lookup fails or shows the pod: the next attempt, or an unresolved launch.
DeleteUnverified ==
  /\ step = "verify"
  /\ IF tries < MaxTries
       THEN /\ tries' = tries + 1
            /\ step' = "delete"
            /\ UNCHANGED <<wake, podId, emptyReads, reads, outcome, leftover, resumeVars>>
       ELSE PersistUnresolved
  /\ UNCHANGED <<provVars, kills>>

\* The zero-live read counts every pod of the account.
ZeroLive ==
  /\ step = "zero"
  /\ \E omitted \in SUBSET Omittable :
       outcome' = IF \A p \in Pods : Listing(omitted)[p] \in {"absent", "TERMINATED"}
                    THEN "clean" ELSE "others"
  /\ Ends
  /\ UNCHANGED <<provVars, leftover, kills>>

ZeroLiveUnreadable ==
  /\ step = "zero"
  /\ PersistUnresolved
  /\ UNCHANGED <<provVars, kills>>

\* SIGKILL, or the loss of the machine: no trap runs.
Kill ==
  /\ step # "ended"
  /\ kills < MaxKills
  /\ kills' = kills + 1
  /\ Ends
  /\ outcome' = IF outcome = "none" THEN "killed" ELSE outcome
  /\ UNCHANGED <<provVars, leftover>>

----------------------------------------------------------------------------
(* The resume.                                                             *)

StartResume ==
  /\ step = "ended"
  /\ leftover # "none"
  /\ step' = "sweep"
  /\ sweeps' = 0
  /\ UNCHANGED <<provVars, wake, launchVars, leftover, clean, kills>>

GoTo(s) ==
  /\ step' = s
  /\ UNCHANGED <<provVars, wake, launchVars, leftover, clean, kills>>

\* The resume ends and leaves the state file.
GivesUp ==
  /\ Ends
  /\ UNCHANGED <<provVars, outcome, leftover, kills>>

SweepsExhausted ==
  /\ step = "sweep"
  /\ sweeps = MaxSweeps
  /\ GivesUp

\* A variant: a stopped pod is not seen.
ShownRunning(omitted) == Listing(omitted)[Control] = "RUNNING"

\* Two of the script's reads of the listing look for the launch's pod alive.
ShownLive(omitted) == Listing(omitted)[Control] \notin {"absent", "TERMINATED"}

\* A variant: a stopped pod is not looked for.
SweepFindsRunning ==
  /\ step = "sweep"
  /\ sweeps < MaxSweeps
  /\ sweeps' = sweeps + 1
  /\ leftover = "id" \/ \E omitted \in SUBSET Omittable : Listing(omitted)[Control] = "RUNNING"
  /\ GoTo("look")

\* One sweep begins: the pod's id is known, or found under its name.
SweepFinds ==
  /\ step = "sweep"
  /\ sweeps < MaxSweeps
  /\ sweeps' = sweeps + 1
  /\ leftover = "id" \/ \E omitted \in SUBSET Omittable : ShownLive(omitted)
  /\ GoTo("look")

\* Nothing alive has that name: the confirming reads.
SweepEmpty ==
  /\ step = "sweep"
  /\ sweeps < MaxSweeps
  /\ sweeps' = sweeps + 1
  /\ leftover = "name"
  /\ \E omitted \in SUBSET Omittable : ~ShownLive(omitted)
  /\ step' = "confirm"
  /\ clean' = 0
  /\ UNCHANGED <<provVars, wake, launchVars, leftover, kills>>

\* The listing fails; garbled, it ends the script (errexit).
SweepUnreadable ==
  /\ step = "sweep"
  /\ sweeps < MaxSweeps
  /\ leftover = "name"
  /\ \/ sweeps' = sweeps + 1 /\ GoTo("sweep")
     \/ "resume" \in Garbled /\ GivesUp

\* pod_terminated, or not, or unknown.
LookGone ==
  /\ step = "look"
  /\ VerifiedGone
  /\ step' = "confirm"
  /\ clean' = 0
  /\ UNCHANGED <<provVars, wake, launchVars, leftover, sweeps, kills>>

LookAlive ==
  /\ step = "look"
  /\ GoTo("remove")
  /\ UNCHANGED sweeps

\* The DELETE, answered or not, and the next sweep.
Remove ==
  /\ step = "remove"
  /\ DeleteLands(Control) \/ UNCHANGED pod
  /\ step' = "sweep"
  /\ UNCHANGED <<now, wake, launchVars, leftover, resumeVars, kills>>

Settle(n) ==
  /\ clean' = n
  /\ step' = "settle"
  /\ wake' = now + ResumeSleep

\* A confirming read that is answered: nothing alive counts, and a live pod that
\* reappears begins the sweeps again.
ConfirmRead ==
  /\ step = "confirm"
  /\ \E omitted \in SUBSET Omittable :
       IF ShownLive(omitted) THEN step' = "sweep" /\ UNCHANGED <<wake, clean>>
                             ELSE Settle(clean + 1)
  /\ UNCHANGED <<provVars, launchVars, leftover, sweeps, kills>>

ConfirmFails ==
  /\ step = "confirm"
  /\ Settle(0)
  /\ UNCHANGED <<provVars, launchVars, leftover, sweeps, kills>>

ConfirmGarbled ==
  /\ "resume" \in Garbled
  /\ step = "confirm"
  /\ GivesUp

\* Three clean reads remove the state file.
Settled ==
  /\ step = "settle"
  /\ SleepEnds
  /\ IF clean = Confirmed
       THEN /\ leftover' = "none"
            /\ Ends
       ELSE /\ step' = "confirm"
            /\ wake' = 0
            /\ UNCHANGED <<podId, emptyReads, reads, tries, leftover, resumeVars>>
  /\ UNCHANGED <<provVars, outcome, kills>>

----------------------------------------------------------------------------
Launch ==
  \/ CreateCommits \/ CreateFails \/ RateChecked \/ Healthy \/ HealthDeadline
  \/ DiscoverFinds \/ DiscoverEmpty \/ DiscoverFails \/ DiscoverGoesOn
  \/ DeletePod \/ DeleteVerified \/ DeleteUnverified \/ ZeroLive \/ ZeroLiveUnreadable

Resume ==
  \/ StartResume \/ SweepsExhausted \/ SweepFinds \/ SweepEmpty \/ SweepUnreadable
  \/ LookGone \/ LookAlive \/ Remove
  \/ ConfirmRead \/ ConfirmFails \/ ConfirmGarbled \/ Settled

\* The clock, and what the provider does to the launch's pod.
World ==
  /\ Tick \/ AppearInListing(Control) \/ Reclaim(Control)
  /\ UNCHANGED <<step, wake, launchVars, leftover, resumeVars, kills>>

Next == Launch \/ Resume \/ Kill \/ World

Spec == Init /\ [][Next]_vars

\* The scripts wait for nothing but the clock, and the operator resumes what is left
\* over.  Of the provider: its outages end, so that the resume's reads are answered at
\* last, one after another, and a DELETE lands.
FairSpec ==
  /\ Spec
  /\ WF_vars(Launch)
  /\ WF_vars(Resume)
  /\ WF_vars(World /\ Tick)
  /\ WF_vars(World /\ AppearInListing(Control))
  /\ SF_vars(SweepFinds \/ SweepEmpty)
  /\ SF_vars(LookGone)
  /\ SF_vars(Remove /\ DeleteLands(Control))
  /\ \A n \in 0 .. Confirmed - 1 : SF_vars(clean = n /\ ConfirmRead)

----------------------------------------------------------------------------
(* Properties.                                                             *)

\* A launch that failed, and was not killed, leaves no pod behind that nothing names:
\* when the scripts have ended and the pod is alive, the unresolved-launch file is
\* there.  So "clean" and "RESOLVED" are true whenever they are said, although the
\* answer to the create, DELETEs and listings may be lost and new pods are listed late.
NoOrphan ==
  (step = "ended" /\ outcome \notin {"live", "killed"} /\ Live(Control))
    => leftover # "none"

\* "RESOLVED" is true, whatever failed before: the state file is removed only when the pod
\* is gone, one that a lost DELETE has only stopped included.
ResolvedMeansGone ==
  [][leftover # "none" /\ leftover' = "none" => ~Live(Control)]_vars

\* The launch ends, and ends by itself, whatever the provider answers, never answers
\* or loses: every loop of the trap is bounded.
LaunchEnds == <>(outcome # "none")

\* What a launch leaves over is cleared at last, however often a resume gives up
\* after its sixty sweeps, or is killed.
LeftoverIsCleared == leftover # "none" ~> leftover = "none"
=============================================================================
