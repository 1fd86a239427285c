-------------------------- MODULE CampaignWatchdog --------------------------
(***************************************************************************)
(* controlplane/ci/gpu_watchdog_campaign.sh: the watch of a long campaign. *)
(* Its wall is given, not derived from the ceiling; instead an unreadable  *)
(* interval has a budget of its own (mark_outage).  The control plane may  *)
(* be a local process, which closeout terminates and joins.                *)
(*                                                                         *)
(* The survey, the verified delete and the sweep are the same code as      *)
(* gpu_watchdog.sh's, so they are WatchdogCore's actions.  With a local    *)
(* control plane, pod[Control] stands for the process: RUNNING or gone.    *)
(***************************************************************************)
EXTENDS WatchdogCore

CONSTANTS
  CampaignTime,  \* WEINFER_WATCHDOG_CAMPAIGN_SECONDS
  ControlModes   \* may WEINFER_WATCHDOG_CONTROL_PID be set? TRUE: a local process

ASSUME CampaignAssumption == CampaignTime \in Nat \ {0} /\ ControlModes \subseteq BOOLEAN

VARIABLES
  local,          \* the control plane is a local process
  polledAt,       \* NOW, read at the head of the loop
  lastAccrued,    \* the total of the last good survey since the watchdog was armed
  outageStarted,  \* when the first failing poll of the outage began, or NoOutage
  surveyedAt,     \* history: when that last good survey was, or the epoch
  blindSince      \* history: the head of the first failing poll since, or NoOutage

outageVars == <<local, polledAt, lastAccrued, outageStarted, surveyedAt, blindSince>>
vars == <<coreVars, outageVars>>

NoOutage == -1
Deadline == Epoch + CampaignTime

TypeOK ==
  /\ CoreTypeOK
  /\ local \in BOOLEAN
  /\ polledAt \in Nat
  /\ lastAccrued \in Nat
  /\ outageStarted \in Nat \cup {NoOutage}
  /\ surveyedAt \in Nat
  /\ blindSince \in Nat \cup {NoOutage}

Init ==
  /\ CoreInit
  /\ local \in ControlModes
  /\ polledAt = 0 /\ lastAccrued = 0 /\ outageStarted = NoOutage
  /\ surveyedAt = Epoch /\ blindSince = NoOutage

----------------------------------------------------------------------------
(* stop_control_plane.                                                     *)

BeginCloseout(why) ==
  IF local
    THEN /\ phase' = "stop" /\ label' = why /\ pc' = "term"
         /\ UNCHANGED <<target, attempt>>
    ELSE StartCloseout(why)

\* TERM goes to a living process; it may go on for a while, or for ever.
SendTerm ==
  /\ pc = "term"
  /\ pc' = "join"
  /\ UNCHANGED <<provVars, phase, label, wake, listing, missing, doomed, target, attempt,
                 cleanReads, exitCode, fileVars, crashes, outageVars>>

\* A variant: after KILL the process is taken for gone.
JoinedUnseen ==
  /\ pc = "killed" \/ (pc = "join" /\ Dead(Control))
  /\ pc' = "list" /\ phase' = "sweep" /\ cleanReads' = 0
  /\ UNCHANGED <<provVars, label, wake, listing, missing, doomed, target, attempt,
                 exitCode, fileVars, crashes, outageVars>>

\* The process is gone, within the TERM bound or the KILL bound.
Joined ==
  /\ pc \in {"join", "killed"}
  /\ Dead(Control)
  /\ pc' = "list" /\ phase' = "sweep" /\ cleanReads' = 0
  /\ UNCHANGED <<provVars, label, wake, listing, missing, doomed, target, attempt,
                 exitCode, fileVars, crashes, outageVars>>

\* The TERM bound is missed: KILL, which a stuck process survives for now.
SendKill ==
  /\ pc = "join"
  /\ ~Dead(Control)
  /\ \/ pod' = [pod EXCEPT ![Control] = Becomes(Control, "gone")]
     \/ UNCHANGED pod
  /\ pc' = "killed"
  /\ UNCHANGED <<now, phase, label, wake, listing, missing, doomed, target, attempt,
                 cleanReads, exitCode, fileVars, crashes, outageVars>>

KillUnverified ==
  /\ pc = "killed"
  /\ ~Dead(Control)
  /\ SleepInterval
  /\ UNCHANGED <<provVars, phase, label, listing, missing, doomed, target, attempt,
                 cleanReads, exitCode, fileVars, crashes, outageVars>>

WakeToTerm ==
  /\ local
  /\ phase = "stop"
  /\ SleepEnds
  /\ pc' = "term"
  /\ UNCHANGED <<provVars, phase, label, listing, missing, doomed, target, attempt,
                 cleanReads, exitCode, fileVars, crashes, outageVars>>

StopLocal == SendTerm \/ Joined \/ SendKill \/ KillUnverified \/ WakeToTerm

\* The local process ends: on TERM, or by itself.
LocalExits ==
  /\ local
  /\ Live(Control)
  /\ pod' = [pod EXCEPT ![Control] = Becomes(Control, "gone")]
  /\ UNCHANGED now

----------------------------------------------------------------------------
(* The polling loop.                                                       *)

\* A variant: a stand-down is handled as a breach.
StandDownBreaches ==
  /\ pc = "poll"
  /\ standDown
  /\ BeginCloseout("breach")
  /\ polledAt' = now
  /\ UNCHANGED <<provVars, wake, listing, missing, doomed, cleanReads, exitCode,
                 fileVars, crashes, local, lastAccrued, outageStarted, surveyedAt,
                 blindSince>>

StandDownSeen ==
  /\ pc = "poll"
  /\ standDown
  /\ BeginCloseout("stand-down")
  /\ polledAt' = now
  /\ UNCHANGED <<provVars, wake, listing, missing, doomed, cleanReads, exitCode,
                 fileVars, crashes, local, lastAccrued, outageStarted, surveyedAt,
                 blindSince>>

DeadlineReached ==
  /\ pc = "poll"
  /\ ~standDown
  /\ now >= Deadline
  /\ BeginCloseout("breach")
  /\ polledAt' = now
  /\ UNCHANGED <<provVars, wake, listing, missing, doomed, cleanReads, exitCode,
                 fileVars, crashes, local, lastAccrued, outageStarted, surveyedAt,
                 blindSince>>

BeginPoll ==
  /\ pc = "poll"
  /\ ~standDown
  /\ now < Deadline
  /\ polledAt' = now
  /\ pc' = "list"
  /\ UNCHANGED <<provVars, phase, label, wake, listing, missing, doomed, target,
                 attempt, cleanReads, exitCode, fileVars, crashes,
                 local, lastAccrued, outageStarted, surveyedAt,
                 blindSince>>

\* mark_outage: the outage runs from the head of its first failing poll.
WorstCase(started) == lastAccrued + MaxRate * Greatest(0, polledAt - started)

\* A variant: every failing poll starts the outage anew.
MarkOutageAfresh ==
  /\ outageStarted' = polledAt
  /\ IF WorstCase(polledAt) >= Ceiling
       THEN BeginCloseout("breach") /\ UNCHANGED wake
       ELSE SleepInterval /\ UNCHANGED <<phase, label, target, attempt>>
  /\ UNCHANGED <<local, polledAt, lastAccrued>>

MarkOutage ==
  LET started == IF outageStarted = NoOutage THEN polledAt ELSE outageStarted
  IN  /\ outageStarted' = started
      /\ IF WorstCase(started) >= Ceiling
           THEN BeginCloseout("breach") /\ UNCHANGED wake
           ELSE SleepInterval /\ UNCHANGED <<phase, label, target, attempt>>
      /\ UNCHANGED <<local, polledAt, lastAccrued>>

StaysBlind ==
  /\ blindSince' = IF blindSince = NoOutage THEN polledAt ELSE blindSince
  /\ UNCHANGED surveyedAt

WatchReadFails ==
  /\ phase = "watch"
  /\ ReadFails
  /\ MarkOutage
  /\ StaysBlind
  /\ UNCHANGED <<provVars, doomed, cleanReads, exitCode, fileVars, crashes>>

WatchSurveyFails ==
  /\ phase = "watch"
  /\ SurveyFails
  /\ MarkOutage
  /\ StaysBlind
  /\ UNCHANGED <<provVars, doomed, cleanReads, exitCode, ledger, standDown, crashes>>

\* survey(), line for line the one of gpu_watchdog.sh.
SurveySucceeds == SurveyWrites

WatchSurvey ==
  /\ phase = "watch"
  /\ SurveySucceeds
  /\ lastAccrued' = LedgerCost(ledger', now)
  /\ outageStarted' = NoOutage
  /\ surveyedAt' = now /\ blindSince' = NoOutage
  /\ IF lastAccrued' >= Ceiling
       THEN BeginCloseout("breach") /\ UNCHANGED wake
       ELSE SleepInterval /\ UNCHANGED <<phase, label, target, attempt>>
  /\ UNCHANGED <<provVars, doomed, cleanReads, exitCode, torn, standDown, crashes,
                 local, polledAt>>

Watch ==
  \/ StandDownSeen \/ DeadlineReached \/ BeginPoll
  \/ WatchReadFails \/ WatchSurveyFails \/ WatchSurvey
  \/ WakeToPoll /\ UNCHANGED outageVars

\* The code shared with gpu_watchdog.sh, untouched by the outage bookkeeping:
\* reconcile_missing, delete_verified and the sweep of closeout.
SharedReads == ListPods \/ \E p \in Workers : LookUp(p)

SharedDeletes == Delete \/ Verified \/ TryAgain \/ GiveUp \/ (~local /\ WakeToStop)

SharedSweep == SweepReadFails \/ SweepSurveyFails \/ SweepSurvey \/ WakeToSweep

Shared == SharedReads \/ SharedDeletes \/ SharedSweep \/ RequestStandDown

CampaignCrash ==
  /\ Crash
  /\ polledAt' = 0 /\ lastAccrued' = 0 /\ outageStarted' = NoOutage
  /\ surveyedAt' = Epoch /\ blindSince' = NoOutage
  /\ UNCHANGED local

\* A local control plane has to be alive when the watchdog is armed.
CampaignArm ==
  /\ local => Live(Control)
  /\ Arm
  /\ UNCHANGED outageVars

\* The watchdog has exited, or refuses to be armed for a dead process.
Done ==
  /\ pc = "exited" \/ (pc = "crashed" /\ local /\ Dead(Control))
  /\ UNCHANGED vars

Next ==
  \/ (World \/ LocalExits) /\ UNCHANGED <<memVars, exitCode, fileVars, crashes, outageVars>>
  \/ Watch \/ StopLocal
  \/ Shared /\ UNCHANGED outageVars
  \/ CampaignCrash \/ CampaignArm
  \/ Done

Spec == Init /\ [][Next]_vars

----------------------------------------------------------------------------
(* Properties.                                                             *)

\* The exit code is honest: 2 says that the campaign's wall has passed, or that the
\* ceiling is booked or could be spent in the unreadable interval; 0 that an operator
\* asked for the stand-down.
ExitCodeIsHonest ==
  /\ exitCode = 2 => \/ now >= Deadline
                     \/ LedgerCost(ledger, now) >= Ceiling
                     \/ outageStarted # NoOutage /\ WorstCase(outageStarted) >= Ceiling
  /\ exitCode = 0 => standDown

\* A poll that could not be read, after which the watch goes on.
BlindDecision == phase = "watch" /\ pc = "sleep" /\ outageStarted # NoOutage

\* The bill, by time t, of the workers the last good survey knew and of those
\* created since.
SpentBy(t) ==
  SumFunctionOnSet([w \in Workers |-> Bill(w, t)],
                   {w \in Workers : ledger[w].known \/ pod[w].born >= surveyedAt})

\* What blindness can cost: the watch goes on blind only while the bill is below the
\* ceiling plus what MaxLive pods can spend since the last good survey, less the
\* outage mark_outage has already charged at one pod's rate.
BlindExposureBounded ==
  BlindDecision =>
    SpentBy(polledAt) < Ceiling + MaxRate * (MaxLive * (polledAt - surveyedAt)
                                             - (polledAt - blindSince))

\* "last known accrued cost plus max-rate x outage duration may never reach the
\* dollar ceiling ... blindness never extends buy authority": the header's claim, for
\* the bill of the workers the ledger knows, at the poll that decides.
BlindnessNeverBuys ==
  BlindDecision =>
    SumFunctionOnSet([w \in Workers |-> Bill(w, polledAt)], {w \in Workers : ledger[w].known})
      < Ceiling
=============================================================================
