---------------------------- MODULE GpuWatchdog ----------------------------
(***************************************************************************)
(* controlplane/ci/gpu_watchdog.sh: the watch with a wall-clock deadline   *)
(* derived from the ceiling and the maximum rate.                          *)
(***************************************************************************)
EXTENDS WatchdogCore

vars == coreVars

\* When one pod at the maximum rate could have spent the ceiling.
Deadline == Epoch + Ceiling \div MaxRate

Init == CoreInit

\* A variant: a stand-down is handled as a breach.
StandDownBreaches ==
  /\ pc = "poll"
  /\ standDown
  /\ StartCloseout("breach")
  /\ UNCHANGED <<provVars, wake, listing, missing, doomed, cleanReads, exitCode,
                 fileVars, crashes>>

\* The head of the loop: the stand-down file first, then the deadline.
StandDownSeen ==
  /\ pc = "poll"
  /\ standDown
  /\ StartCloseout("stand-down")
  /\ UNCHANGED <<provVars, wake, listing, missing, doomed, cleanReads, exitCode,
                 fileVars, crashes>>

DeadlineReached ==
  /\ pc = "poll"
  /\ ~standDown
  /\ now >= Deadline
  /\ StartCloseout("breach")
  /\ UNCHANGED <<provVars, wake, listing, missing, doomed, cleanReads, exitCode,
                 fileVars, crashes>>

BeginPoll ==
  /\ pc = "poll"
  /\ ~standDown
  /\ now < Deadline
  /\ pc' = "list"
  /\ UNCHANGED <<provVars, phase, label, wake, listing, missing, doomed, target,
                 attempt, cleanReads, exitCode, fileVars, crashes>>

\* A failed listing or lookup of the watch: retry after an interval.
WatchReadFails ==
  /\ phase = "watch"
  /\ ReadFails
  /\ SleepInterval
  /\ UNCHANGED <<provVars, phase, label, doomed, target, attempt, cleanReads, exitCode,
                 fileVars, crashes>>

\* A failed survey: a short sleep, then the head of the loop.
WatchSurveyFails ==
  /\ phase = "watch"
  /\ SurveyFails
  /\ pc' = "poll"
  /\ UNCHANGED <<provVars, phase, label, wake, doomed, target, attempt, cleanReads,
                 exitCode, ledger, standDown, crashes>>

\* The survey and the decision on its total.
WatchSurvey ==
  /\ phase = "watch"
  /\ SurveyWrites
  /\ IF LedgerCost(ledger', now) >= Ceiling
       THEN StartCloseout("breach") /\ UNCHANGED wake
       ELSE SleepInterval /\ UNCHANGED <<phase, label, target, attempt>>
  /\ UNCHANGED <<provVars, doomed, cleanReads, exitCode, torn, standDown, crashes>>

Watch ==
  \/ StandDownSeen \/ DeadlineReached \/ BeginPoll
  \/ WatchReadFails \/ WatchSurveyFails \/ WatchSurvey \/ WakeToPoll

Done == pc = "exited" /\ UNCHANGED vars

Next ==
  \/ World /\ UNCHANGED <<memVars, exitCode, fileVars, crashes>>
  \/ Watch \/ Closeout \/ WakeToStop
  \/ ListPods \/ \E p \in Workers : LookUp(p)
  \/ RequestStandDown \/ Crash \/ Arm
  \/ Done

Spec == Init /\ [][Next]_vars

(***************************************************************************)
(* Fairness.  The script never waits for anything but the clock, so its    *)
(* next step, whatever its outcome, is weakly fair, and so are the clock   *)
(* and the provider's listing of a new pod.  The provider's outages end:   *)
(* within the sweep, a listing that is asked for again and again is at last*)
(* answered, so is the n-th lookup from the end, and a survey succeeds;    *)
(* a DELETE of the same pod lands; the control plane's death is read.      *)
(* That is strong fairness of the good outcomes.  Nothing is assumed of    *)
(* the watch's own reads, the gateway, Reclaim or the operator.            *)
(***************************************************************************)
Survey == ListPods \/ \E p \in Workers : LookUp(p)

Script == Watch \/ Survey \/ Closeout \/ WakeToStop

ByWorld(A) == A /\ UNCHANGED <<memVars, exitCode, fileVars, crashes>>

Fairness ==
  /\ WF_vars(ByWorld(Tick))
  /\ \A w \in Workers : WF_vars(ByWorld(AppearInListing(w)))
  /\ WF_vars(Script)
  /\ SF_vars(phase = "sweep" /\ ListPods)
  /\ \A n \in 1 .. Cardinality(Workers) :
       SF_vars(/\ phase = "sweep"
               /\ Cardinality(missing) = n
               /\ \E p \in Workers : LookUp(p))
  /\ SF_vars(SweepSurvey)
  /\ \A p \in Workers \cup {Control} : SF_vars(target = p /\ Delete /\ DeleteLands(p))
  /\ SF_vars(target = Control /\ Verified)

FairSpec == Spec /\ Fairness

----------------------------------------------------------------------------
(* Properties.                                                             *)

\* The exit code is honest: 2 says that the ceiling is booked or the deadline has
\* passed, 0 that an operator asked for the stand-down.
ExitCodeIsHonest ==
  /\ exitCode = 2 => now >= Deadline \/ LedgerCost(ledger, now) >= Ceiling
  /\ exitCode = 0 => standDown

\* Once the deadline has passed or a stand-down is requested, the watch ends with the
\* control plane down and every worker gone ("a wall-clock deadline ... backstops the
\* whole watch even if every survey fails").
ClosesOut ==
  (now >= Deadline \/ standDown)
    ~> (pc = "exited" /\ Dead(Control) /\ \A w \in Workers : ~Live(w))
=============================================================================
