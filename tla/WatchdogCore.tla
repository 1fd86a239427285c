---------------------------- MODULE WatchdogCore ----------------------------
(***************************************************************************)
(* What the two spend watchdogs share, as controlplane/ci/gpu_watchdog.sh  *)
(* has it: the survey of the provider into the ledger (list_pods,          *)
(* reconcile_missing, survey), the verified delete, and the closeout that  *)
(* kills the control plane first, then the workers, then asks for three    *)
(* clean reads.  The polling loops are in GpuWatchdog and CampaignWatchdog.*)
(*                                                                         *)
(* Every provider call and every ledger update is one step; the provider,  *)
(* the gateway and the clock move between any two of them.  A step may     *)
(* take any time.  Of the script's sleeps only `sleep "$INTERVAL"` is a    *)
(* timed one; the short constant sleeps of a retry are steps of any length.*)
(***************************************************************************)
EXTENDS Provider, SpendLedger

CONSTANTS
  Ceiling,      \* dollars, in units of Rates times the clock
  Interval,     \* WEINFER_WATCHDOG_INTERVAL
  Unreadable,   \* workers whose rate and creation time may not parse
  MaxCrashes,   \* bound: how often the watchdog dies and is armed again
  TornWrites,   \* may a ledger write fail half way?
  StandDowns    \* may the operator request the stand-down?

ASSUME CoreAssumption ==
  /\ Ceiling \in Nat
  /\ Interval \in Nat
  /\ Unreadable \subseteq Workers
  /\ MaxCrashes \in Nat
  /\ TornWrites \in BOOLEAN
  /\ StandDowns \in BOOLEAN
  /\ \A r \in Rates : r <= MaxRate

VARIABLES
  pc,          \* the script's next step
  phase,       \* "watch", or within closeout: "stop" (control plane), "sweep"
  label,       \* why closeout runs
  wake,        \* end of the current sleep
  listing,     \* the listing in hand, enriched by the exact lookups
  missing,     \* ledger ids still to be looked up by exact id
  doomed,      \* the survey's live ids still to be deleted
  target,      \* the pod delete_verified works on
  attempt,     \* its attempt
  cleanReads,  \* consecutive zero-live surveys of closeout
  exitCode,
  ledger,      \* the state file
  torn,        \* the state file holds no readable JSON
  standDown,   \* the stand-down file exists
  crashes

memVars == <<pc, phase, label, wake, listing, missing, doomed, target, attempt,
             cleanReads>>
fileVars == <<ledger, torn, standDown>>
coreVars == <<now, pod, pc, phase, label, wake, listing, missing, doomed, target,
              attempt, cleanReads, exitCode, ledger, torn, standDown, crashes>>

Attempts == 3
OneCleanRead == 1   \* a variant
CleanReads == 3
NotExited == -1
NoListing == [p \in Pods |-> "absent"]

CoreTypeOK ==
  /\ ProvTypeOK
  /\ pc \in {"poll", "list", "lookup", "survey", "sleep", "delete", "verify",
             "term", "join", "killed", \* CampaignWatchdog only
             "exited", "crashed"}
  /\ phase \in {"watch", "stop", "sweep"}
  /\ label \in {"none", "breach", "stand-down"}
  /\ wake \in Nat
  /\ listing \in [Pods -> Statuses]
  /\ missing \subseteq Pods
  /\ doomed \subseteq Pods
  /\ target \in Pods
  /\ attempt \in 1 .. Attempts
  /\ cleanReads \in 0 .. CleanReads
  /\ exitCode \in {NotExited, 0, 2}
  /\ ledger \in [Pods -> LedgerEntry]
  /\ torn \in BOOLEAN
  /\ standDown \in BOOLEAN
  /\ crashes \in 0 .. MaxCrashes

MemInit ==
  /\ pc = "poll"
  /\ phase = "watch"
  /\ label = "none"
  /\ wake = 0
  /\ listing = NoListing
  /\ missing = {}
  /\ doomed = {}
  /\ target = Control
  /\ attempt = 1
  /\ cleanReads = 0

CoreInit ==
  /\ ProvInit
  /\ MemInit
  /\ exitCode = NotExited
  /\ ledger = [p \in Pods |-> NoEntry]
  /\ torn = FALSE
  /\ standDown = FALSE
  /\ crashes = 0

----------------------------------------------------------------------------
(* Helpers.                                                                *)

\* survey() skips the control plane, other prefixes and pods before the epoch.
Ours(p) == p # Control /\ p \notin Foreign

\* A variant: a stopped pod, which still costs, closes its entry.
SurveyedAsOver(blank) ==
  [p \in Pods |->
     IF Ours(p) /\ listing[p] # "absent"
       THEN Observed(ledger[p], pod[p].born, pod[p].rate, p \in blank,
                     listing[p] # "RUNNING", now)
       ELSE ledger[p]]

Surveyed(blank) ==
  [p \in Pods |->
     IF Ours(p) /\ listing[p] # "absent"
       THEN Observed(ledger[p], pod[p].born, pod[p].rate, p \in blank,
                     listing[p] = "TERMINATED", now)
       ELSE ledger[p]]

\* Two variants: a stopped pod counts as gone; a terminated one as alive.
RunningIds == {p \in Pods : Ours(p) /\ listing[p] = "RUNNING"}
ListedIds == {p \in Pods : Ours(p) /\ listing[p] # "absent"}

\* Only TERMINATED is gone: an EXITED pod stays in the sweep set.
LiveIds == {p \in Pods : Ours(p) /\ listing[p] \notin {"absent", "TERMINATED"}}

SleepInterval == pc' = "sleep" /\ wake' = now + Interval
DropListing == listing' = NoListing /\ missing' = {}

StartDelete(p) == target' = p /\ attempt' = 1 /\ pc' = "delete"

----------------------------------------------------------------------------
(* list_pods and reconcile_missing, up to the first failure.               *)

\* A listing arrives; the ids it does not show and the ledger holds open are
\* the ones to look up.
ListPods ==
  /\ pc = "list"
  /\ ~torn
  /\ \E omitted \in SUBSET Omittable :
       LET seen == Listing(omitted)
           lost == {p \in Pods : ledger[p].known /\ ledger[p].terminalAt = Open
                                 /\ seen[p] = "absent"}
       IN  /\ listing' = seen
           /\ missing' = lost
           /\ pc' = IF lost = {} THEN "survey" ELSE "lookup"
  /\ UNCHANGED <<provVars, phase, label, wake, doomed, target, attempt, cleanReads,
                 exitCode, fileVars, crashes>>

\* The exact lookup of p is answered: a 404 closes its entry now (nothing checks
\* that write), a pod joins the listing.
LookUp(p) ==
  /\ pc = "lookup"
  /\ p \in missing
  /\ \/ /\ NotFound(p)
        /\ ledger' = [ledger EXCEPT ![p] = Closed(@, now)]
        /\ UNCHANGED <<listing, torn>>
     \/ /\ NotFound(p)
        /\ TornWrites
        /\ torn' = TRUE
        /\ UNCHANGED <<listing, ledger>>
     \/ /\ ~NotFound(p)
        /\ listing' = [listing EXCEPT ![p] = pod[p].st]
        /\ UNCHANGED <<ledger, torn>>
  /\ missing' = missing \ {p}
  /\ pc' = IF missing = {p} THEN "survey" ELSE "lookup"
  /\ UNCHANGED <<provVars, phase, label, wake, doomed, target, attempt, cleanReads,
                 exitCode, standDown, crashes>>

\* The listing fails, the ledger cannot be read, or an exact lookup fails.
ReadFails ==
  /\ pc \in {"list", "lookup"}
  /\ DropListing

\* survey() fails, perhaps half way through rewriting the ledger.
SurveyFails ==
  /\ pc = "survey"
  /\ torn' \in IF TornWrites THEN {torn, TRUE} ELSE {torn}
  /\ DropListing

\* survey() succeeds and rewrites the ledger.
SurveyWrites ==
  /\ pc = "survey"
  /\ ~torn
  /\ \E blank \in SUBSET Unreadable : ledger' = Surveyed(blank)
  /\ DropListing

----------------------------------------------------------------------------
(* closeout.                                                               *)

\* The control plane dies first.
StartCloseout(why) ==
  /\ phase' = "stop"
  /\ label' = why
  /\ StartDelete(Control)

\* delete_verified: the DELETE, answered or not.
Delete ==
  /\ pc = "delete"
  /\ DeleteLands(target) \/ UNCHANGED pod
  /\ pc' = "verify"
  /\ UNCHANGED <<now, phase, label, wake, listing, missing, doomed, target, attempt,
                 cleanReads, exitCode, fileVars, crashes>>

\* After delete_verified returns: the control plane is down and the sweep starts,
\* or the next doomed worker is deleted, or the pods are listed again.
DeleteReturns ==
  IF target \in doomed /\ doomed # {target}
    THEN /\ doomed' = doomed \ {target}
         /\ \E p \in doomed' : StartDelete(p)
         /\ UNCHANGED <<phase, cleanReads>>
    ELSE /\ doomed' = {}
         /\ target' = Control
         /\ attempt' = 1
         /\ pc' = "list"
         /\ phase' = "sweep"
         /\ cleanReads' = IF phase = "stop" THEN 0 ELSE cleanReads

\* The exact lookup says 404 or TERMINATED.
Verified ==
  /\ pc = "verify"
  /\ NotFound(target) \/ pod[target].st = "TERMINATED"
  /\ DeleteReturns
  /\ UNCHANGED <<provVars, label, wake, listing, missing, exitCode, fileVars, crashes>>

\* A variant: one attempt too many.
TryOnceMore ==
  /\ pc = "verify"
  /\ attempt <= Attempts
  /\ attempt' = attempt + 1
  /\ pc' = "delete"
  /\ UNCHANGED <<provVars, phase, label, wake, listing, missing, doomed, target,
                 cleanReads, exitCode, fileVars, crashes>>

\* The lookup fails or says the pod is still there: the next attempt.
TryAgain ==
  /\ pc = "verify"
  /\ attempt < Attempts
  /\ attempt' = attempt + 1
  /\ pc' = "delete"
  /\ UNCHANGED <<provVars, phase, label, wake, listing, missing, doomed, target,
                 cleanReads, exitCode, fileVars, crashes>>

\* A variant: the control plane is given up like a worker.
GiveUpOnAny ==
  /\ pc = "verify"
  /\ attempt = Attempts
  /\ DeleteReturns
  /\ UNCHANGED <<provVars, label, wake, listing, missing, exitCode, fileVars, crashes>>

\* The last attempt failed: the control plane is retried after an interval, a
\* worker is left to the next sweep.
GiveUp ==
  /\ pc = "verify"
  /\ attempt = Attempts
  /\ IF phase = "stop"
       THEN /\ SleepInterval
            /\ UNCHANGED <<phase, doomed, target, attempt, cleanReads>>
       ELSE /\ DeleteReturns
            /\ UNCHANGED wake
  /\ UNCHANGED <<provVars, label, listing, missing, exitCode, fileVars, crashes>>

\* A listing or a lookup fails within the sweep: the clean reads stand.
SweepReadFails ==
  /\ phase = "sweep"
  /\ ReadFails
  /\ SleepInterval
  /\ UNCHANGED <<provVars, phase, label, doomed, target, attempt, cleanReads, exitCode,
                 fileVars, crashes>>

SweepSurveyFails ==
  /\ phase = "sweep"
  /\ SurveyFails
  /\ pc' = "list"
  /\ UNCHANGED <<provVars, phase, label, wake, doomed, target, attempt, cleanReads,
                 exitCode, ledger, standDown, crashes>>

\* A survey of the sweep: one more clean read, or workers to delete.
SweepSurvey ==
  /\ phase = "sweep"
  /\ SurveyWrites
  /\ IF LiveIds = {}
       THEN /\ cleanReads' = cleanReads + 1
            /\ SleepInterval
            /\ UNCHANGED <<doomed, target, attempt>>
       ELSE /\ cleanReads' = 0
            /\ doomed' = LiveIds
            /\ \E p \in LiveIds : StartDelete(p)
            /\ UNCHANGED wake
  /\ UNCHANGED <<provVars, phase, label, exitCode, torn, standDown, crashes>>

\* A sleep ends (at the horizon it ends at once).
SleepEnds ==
  /\ pc = "sleep"
  /\ now >= wake \/ now = MaxTime
  /\ wake' = 0

WakeToPoll ==
  /\ phase = "watch"
  /\ SleepEnds
  /\ pc' = "poll"
  /\ UNCHANGED <<provVars, phase, label, listing, missing, doomed, target, attempt,
                 cleanReads, exitCode, fileVars, crashes>>

\* The control plane is tried again.
WakeToStop ==
  /\ phase = "stop"
  /\ SleepEnds
  /\ StartDelete(Control)
  /\ UNCHANGED <<provVars, phase, label, listing, missing, doomed, cleanReads, exitCode,
                 fileVars, crashes>>

\* Three clean reads end the closeout; the label alone decides the exit code.
WakeToSweep ==
  /\ phase = "sweep"
  /\ SleepEnds
  /\ IF cleanReads < CleanReads
       THEN pc' = "list" /\ UNCHANGED exitCode
       ELSE pc' = "exited" /\ exitCode' = IF label = "breach" THEN 2 ELSE 0
  /\ UNCHANGED <<provVars, phase, label, listing, missing, doomed, target, attempt,
                 cleanReads, fileVars, crashes>>

Closeout ==
  \/ Delete \/ Verified \/ TryAgain \/ GiveUp
  \/ SweepReadFails \/ SweepSurveyFails \/ SweepSurvey \/ WakeToSweep

----------------------------------------------------------------------------
(* The rest of the world, and the watchdog's own death.                    *)

RequestStandDown ==
  /\ StandDowns
  /\ ~standDown
  /\ standDown' = TRUE
  /\ UNCHANGED <<provVars, memVars, exitCode, ledger, torn, crashes>>

\* The launchd job is not kept alive, so only an operator arms it again, with the
\* same state file.
Crash ==
  /\ pc \notin {"exited", "crashed"}
  /\ crashes < MaxCrashes
  /\ crashes' = crashes + 1
  /\ pc' = "crashed"
  /\ phase' = "watch" /\ label' = "none" /\ wake' = 0
  /\ DropListing
  /\ doomed' = {} /\ target' = Control /\ attempt' = 1 /\ cleanReads' = 0
  /\ UNCHANGED <<provVars, exitCode, fileVars>>

Arm ==
  /\ pc = "crashed"
  /\ pc' = "poll"
  /\ UNCHANGED <<provVars, phase, label, wake, listing, missing, doomed, target,
                 attempt, cleanReads, exitCode, fileVars, crashes>>

World ==
  \/ \E w \in Workers : CreatePod(w) \/ AppearInListing(w) \/ Reclaim(w)
  \/ Tick

----------------------------------------------------------------------------
(* Properties.                                                             *)

\* The meter never under-books: what the ledger holds a known worker to have cost
\* is at least what the provider charges for it, whatever was listed, looked up,
\* lost, unreadable or restarted in between ("never under-booking").
NeverUnderBooked ==
  \A w \in Workers : ledger[w].known => EntryCost(ledger[w], now) >= Bill(w, now)

\* Spend booked stays booked: no step, a restart included, forgets an entry, lowers
\* its rate, moves its creation later or reopens it ("churn can never reset the
\* meter").
MeterNeverRunsBack ==
  [][\A p \in Pods : ledger[p].known =>
       /\ ledger'[p].known
       /\ ledger'[p].created <= ledger[p].created
       /\ ledger'[p].rate >= ledger[p].rate
       /\ ledger[p].terminalAt # Open => ledger'[p].terminalAt = ledger[p].terminalAt]_coreVars

\* The resurrection barrier: the watchdog works on deleting a worker only after the
\* control plane is verified down, and only on workers of this run.
ControlPlaneDiesFirst ==
  pc \in {"delete", "verify"} =>
    target = Control \/ (target \in Workers /\ Dead(Control))

\* When the watchdog has exited the control plane is down and no worker of the run
\* is alive, not even one the listing never showed: that is what three spaced clean
\* reads are for.
ExitMeansGone ==
  pc = "exited" => Dead(Control) /\ \A w \in Workers : ~Live(w)

\* The watchdog implements the contract of a closeout: the gateway is up while the
\* control plane runs, the live workers are the ones that are charged.
Stage ==
  CASE pc = "exited"   -> "closed"
    [] phase = "watch" -> "armed"
    [] OTHER           -> "closing"

Contract == INSTANCE CloseoutContract WITH
  Worker <- Workers,
  up     <- pod[Control].st = "RUNNING",
  live   <- {w \in Workers : Live(w)},
  stage  <- Stage

ImplementsContract == Contract!Spec
=============================================================================
