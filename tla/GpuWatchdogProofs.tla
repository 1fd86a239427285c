-------------------------- MODULE GpuWatchdogProofs --------------------------
(***************************************************************************)
(* Theorems about GpuWatchdog for every set of pods, ceiling, rate,        *)
(* interval, listing delay and horizon.                                    *)
(***************************************************************************)
EXTENDS GpuWatchdog, WatchdogProofs

----------------------------------------------------------------------------
(* Type correctness.  The inductive invariant adds CountOK.                *)

\* The steps of the watch itself.
LEMMA WatchType ==
  ASSUME CoreTypeOK, CountOK, Watch
  PROVE  CoreTypeOK' /\ CountOK'
<1> USE DEF provVars, fileVars
<1>0. /\ NoListing \in [Pods -> Statuses] /\ now + Interval \in Nat
      /\ now \in Nat
  BY ProviderAssumption, CoreAssumption DEF NoListing, Statuses, CoreTypeOK, ProvTypeOK
<1>1. CASE StandDownSeen
  <2>1. StartCloseout("stand-down")
    BY <1>1 DEF StandDownSeen
  <2> QED
    BY <1>1, <2>1, StartCloseoutType DEF StandDownSeen, CoreTypeOK, ProvTypeOK, CountOK
<1>2. CASE DeadlineReached
  <2>1. StartCloseout("breach")
    BY <1>2 DEF DeadlineReached
  <2> QED
    BY <1>2, <2>1, StartCloseoutType DEF DeadlineReached, CoreTypeOK, ProvTypeOK, CountOK
<1>3. CASE BeginPoll
  BY <1>3 DEF BeginPoll, CoreTypeOK, ProvTypeOK, CountOK
<1>4. CASE WatchReadFails
  BY <1>0, <1>4 DEF WatchReadFails, ReadFails, DropListing, SleepInterval, CoreTypeOK,
                    ProvTypeOK, CountOK
<1>5. CASE WatchSurveyFails
  <2>1. torn' \in BOOLEAN
    BY <1>5 DEF WatchSurveyFails, SurveyFails, CoreTypeOK
  <2> QED
    BY <1>0, <1>5, <2>1 DEF WatchSurveyFails, SurveyFails, DropListing, CoreTypeOK,
                            ProvTypeOK, CountOK
<1>6. CASE WatchSurvey
  <2>1. ledger' \in [Pods -> LedgerEntry]
    BY <1>6, SurveyedType DEF WatchSurvey, SurveyWrites
  <2>2. /\ pc = "survey" /\ listing' = NoListing /\ missing' = {}
        /\ UNCHANGED <<now, pod, doomed, cleanReads, exitCode, torn, standDown, crashes>>
    BY <1>6 DEF WatchSurvey, SurveyWrites, DropListing
  <2>3. CASE StartCloseout("breach") /\ UNCHANGED wake
    BY <1>0, <2>1, <2>2, <2>3, StartCloseoutType DEF CoreTypeOK, ProvTypeOK, CountOK
  <2>4. CASE SleepInterval /\ UNCHANGED <<phase, label, target, attempt>>
    BY <1>0, <2>1, <2>2, <2>4 DEF SleepInterval, CoreTypeOK, ProvTypeOK, CountOK
  <2> QED
    BY <1>6, <2>3, <2>4 DEF WatchSurvey
<1>7. CASE WakeToPoll
  BY <1>7, OthersType, CountKept
<1> QED
  BY <1>1, <1>2, <1>3, <1>4, <1>5, <1>6, <1>7 DEF Watch

\* Every step keeps the types and the bound on the clean reads.
LEMMA NextType ==
  ASSUME CoreTypeOK, CountOK, [Next]_vars
  PROVE  CoreTypeOK' /\ CountOK'
<1>1. CASE World /\ UNCHANGED <<memVars, exitCode, fileVars, crashes>>
  BY <1>1, WorldType, CountKept
<1>2. CASE Watch
  BY <1>2, WatchType
<1>3. CASE Closeout
  BY <1>3, DeletesType, SweepType, CountKept DEF Closeout
<1>4. CASE ListPods \/ \E p \in Workers : LookUp(p)
  BY <1>4, ReadsType, CountKept
<1>5. CASE WakeToStop \/ RequestStandDown \/ Crash \/ Arm
  BY <1>5, OthersType, CountKept
<1>6. CASE Done \/ UNCHANGED vars
  BY <1>6 DEF Done, vars, coreVars, CoreTypeOK, ProvTypeOK, CountOK
<1> QED
  BY <1>1, <1>2, <1>3, <1>4, <1>5, <1>6 DEF Next

\* The watchdog's state, ledger and view of the provider always have their types.
THEOREM TypeCorrect == Spec => []CoreTypeOK
<1>1. Init => CoreTypeOK /\ CountOK
  BY InitType DEF Init
<1>2. (CoreTypeOK /\ CountOK) /\ [Next]_vars => (CoreTypeOK /\ CountOK)'
  BY NextType
<1> QED
  BY <1>1, <1>2, PTL DEF Spec

----------------------------------------------------------------------------
(* The meter.                                                              *)

\* Every step keeps the meter right and lets the ledger only grow.
LEMMA NextMeter ==
  ASSUME CoreTypeOK, MeterInv, [Next]_vars
  PROVE  MeterInv' /\ LedgerGrows
<1>1. CASE \/ World /\ UNCHANGED <<memVars, exitCode, fileVars, crashes>>
           \/ ListPods \/ \E p \in Workers : LookUp(p)
           \/ Closeout
           \/ WakeToPoll \/ WakeToStop \/ RequestStandDown \/ Crash \/ Arm
  BY <1>1, SharedMeter
<1>2. CASE StandDownSeen \/ DeadlineReached \/ BeginPoll
  <2>1. UNCHANGED <<now, pod, ledger, listing, missing>>
    BY <1>2 DEF StandDownSeen, DeadlineReached, BeginPoll, provVars, fileVars
  <2> QED
    BY <2>1, FrameMeter, LedgerKept
<1>3. CASE WatchReadFails \/ WatchSurveyFails
  <2>1. UNCHANGED <<now, pod, ledger>> /\ DropListing
    BY <1>3 DEF WatchReadFails, WatchSurveyFails, ReadFails, SurveyFails, provVars, fileVars
  <2> QED
    BY <2>1, FrameMeter, LedgerKept
<1>4. CASE WatchSurvey
  <2>1. SurveyWrites /\ UNCHANGED <<now, pod>>
    BY <1>4 DEF WatchSurvey, provVars
  <2> QED
    BY <2>1, SurveyMeter
<1>5. CASE Done \/ UNCHANGED vars
  <2>1. UNCHANGED <<now, pod, ledger, listing, missing>>
    BY <1>5 DEF Done, vars, coreVars
  <2> QED
    BY <2>1, FrameMeter, LedgerKept
<1> QED
  BY <1>1, <1>2, <1>3, <1>4, <1>5 DEF Next, Watch

\* Whatever is listed, hidden, lost, unreadable or restarted, no worker the ledger knows
\* is ever booked below what the provider charges for it.
THEOREM MeterCorrect == Spec => []NeverUnderBooked
<1>1. Init => CoreTypeOK /\ CountOK /\ MeterInv
  BY InitType, InitMeter DEF Init
<1>2. (CoreTypeOK /\ CountOK /\ MeterInv) /\ [Next]_vars
        => (CoreTypeOK /\ CountOK /\ MeterInv)'
  BY NextType, NextMeter
<1>3. CoreTypeOK /\ CountOK /\ MeterInv => NeverUnderBooked
  BY MeterSuffices
<1> QED
  BY <1>1, <1>2, <1>3, PTL DEF Spec

\* No step of the system, a restart of the watchdog included, takes back anything the
\* ledger has booked.
THEOREM MeterMonotone == Spec => MeterNeverRunsBack
<1>1. Init => CoreTypeOK /\ CountOK /\ MeterInv
  BY InitType, InitMeter DEF Init
<1>2. (CoreTypeOK /\ CountOK /\ MeterInv) /\ [Next]_vars
        => (CoreTypeOK /\ CountOK /\ MeterInv)'
  BY NextType, NextMeter
<1>3. (CoreTypeOK /\ CountOK /\ MeterInv) /\ [Next]_vars => [NothingForgotten]_coreVars
  BY NextMeter DEF LedgerGrows
<1>4. Spec => [][NothingForgotten]_coreVars
  BY <1>1, <1>2, <1>3, PTL DEF Spec
<1> QED
  BY <1>4 DEF NothingForgotten, MeterNeverRunsBack

----------------------------------------------------------------------------
(* The resurrection barrier.                                               *)

\* A closeout starts with the control plane, and only from the watch.
LEMMA WatchBarrier ==
  ASSUME BarrierInv, phase = "watch",
         StandDownSeen \/ DeadlineReached \/ BeginPoll
           \/ WatchReadFails \/ WatchSurveyFails \/ WatchSurvey
  PROVE  BarrierInv'
<1>1. UNCHANGED <<pod, doomed>>
  BY DEF StandDownSeen, DeadlineReached, BeginPoll, WatchReadFails, WatchSurveyFails,
         WatchSurvey, provVars
<1>2. \/ phase' = "stop" /\ target' = Control
      \/ phase' = "watch" /\ pc' \notin {"delete", "verify"}
  BY DEF StandDownSeen, DeadlineReached, BeginPoll, WatchReadFails, WatchSurveyFails,
         WatchSurvey, ReadFails, SurveyFails, StartCloseout, StartDelete, SleepInterval
<1> QED
  BY <1>1, <1>2 DEF BarrierInv, Dead

\* The watchdog polls, or lies dead, in the watch only: no poll starts a second closeout.
PollsInWatch == pc \in {"poll", "crashed"} => phase = "watch"

\* Only the watch returns to the head of the loop.
LEMMA NextPolls ==
  ASSUME CoreTypeOK, PollsInWatch, [Next]_vars
  PROVE  PollsInWatch'
<1>1. CASE World /\ UNCHANGED <<memVars, exitCode, fileVars, crashes>>
  BY <1>1 DEF memVars, PollsInWatch
<1>2. CASE Watch
  BY <1>2 DEF Watch, StandDownSeen, DeadlineReached, BeginPoll, WatchReadFails,
              WatchSurveyFails, WatchSurvey, WakeToPoll, StartCloseout, StartDelete,
              SleepInterval, PollsInWatch
<1>3. CASE Closeout
  <2>1. pc' \notin {"poll", "crashed"}
    BY <1>3 DEF Closeout, Delete, Verified, TryAgain, GiveUp, DeleteReturns, SweepReadFails,
                SweepSurveyFails, SweepSurvey, WakeToSweep, StartDelete, SleepInterval
  <2> QED
    BY <2>1 DEF PollsInWatch
<1>4. CASE ListPods \/ \E p \in Workers : LookUp(p)
  BY <1>4 DEF ListPods, LookUp, PollsInWatch
<1>5. CASE WakeToStop \/ RequestStandDown \/ Crash
  BY <1>5 DEF WakeToStop, StartDelete, RequestStandDown, Crash, memVars, PollsInWatch
<1>6. CASE Arm
  BY <1>6 DEF Arm, PollsInWatch
<1>7. CASE Done \/ UNCHANGED vars
  BY <1>7 DEF Done, vars, coreVars, PollsInWatch
<1> QED
  BY <1>1, <1>2, <1>3, <1>4, <1>5, <1>6, <1>7 DEF Next

\* Every step keeps the barrier up.
LEMMA NextBarrier ==
  ASSUME CoreTypeOK, BarrierInv, PollsInWatch, [Next]_vars
  PROVE  BarrierInv'
<1>1. CASE Watch
  <2>1. CASE WakeToPoll
    BY <2>1, SharedBarrier
  <2>2. CASE ~WakeToPoll
    <3>1. phase = "watch"
      BY <1>1, <2>2 DEF Watch, StandDownSeen, DeadlineReached, BeginPoll, WatchReadFails,
                        WatchSurveyFails, WatchSurvey, PollsInWatch
    <3> QED
      BY <1>1, <2>2, <3>1, WatchBarrier DEF Watch
  <2> QED
    BY <2>1, <2>2
<1>2. CASE \/ World /\ UNCHANGED <<memVars, exitCode, fileVars, crashes>>
           \/ ListPods \/ \E p \in Workers : LookUp(p)
           \/ Closeout
           \/ WakeToStop \/ RequestStandDown \/ Crash \/ Arm
  BY <1>2, SharedBarrier
<1>3. CASE Done \/ UNCHANGED vars
  BY <1>3 DEF Done, vars, coreVars, BarrierInv, Dead
<1> QED
  BY <1>1, <1>2, <1>3 DEF Next

\* The barrier holds when the watchdog is armed.
LEMMA InitBarrier == Init => BarrierInv /\ PollsInWatch
<1>1. Control \in Pods /\ Control \notin Workers
  BY ProviderAssumption DEF Pods
<1> QED
  BY <1>1 DEF Init, CoreInit, ProvInit, MemInit, BarrierInv, PollsInWatch

\* The watchdog works on deleting a worker only behind a control plane verified dead.
THEOREM BarrierCorrect == Spec => []ControlPlaneDiesFirst
<1> DEFINE IInv == CoreTypeOK /\ CountOK /\ BarrierInv /\ PollsInWatch
<1>1. Init => IInv
  BY InitType, InitBarrier DEF Init
<1>2. IInv /\ [Next]_vars => IInv'
  BY NextType, NextPolls, NextBarrier
<1>3. IInv => ControlPlaneDiesFirst
  BY BarrierSuffices
<1> QED
  BY <1>1, <1>2, <1>3, PTL DEF Spec

----------------------------------------------------------------------------
(* The exit.                                                               *)

\* Every step keeps what the sweep knows of the workers.
LEMMA NextExit ==
  ASSUME CoreTypeOK, CountOK, BarrierInv, PollsInWatch, ExitInv, HideMax <= Interval + Interval,
         [Next]_vars
  PROVE  ExitInv'
<1>1. CASE \/ World /\ UNCHANGED <<memVars, exitCode, fileVars, crashes>>
           \/ ListPods \/ \E p \in Workers : LookUp(p)
           \/ Closeout
           \/ WakeToPoll \/ WakeToStop \/ RequestStandDown \/ Crash \/ Arm
  BY <1>1, SharedExit
<1>2. CASE \/ StandDownSeen \/ DeadlineReached \/ BeginPoll
           \/ WatchReadFails \/ WatchSurveyFails \/ WatchSurvey
  <2>1. phase = "watch" /\ UNCHANGED <<now, pod>>
    BY <1>2 DEF StandDownSeen, DeadlineReached, BeginPoll, WatchReadFails, WatchSurveyFails,
                WatchSurvey, PollsInWatch, provVars
  <2>2. phase' # "sweep" /\ pc' # "exited"
    BY <1>2, <2>1 DEF StandDownSeen, DeadlineReached, BeginPoll, WatchReadFails,
                      WatchSurveyFails, WatchSurvey, StartCloseout, StartDelete, SleepInterval
  <2> QED
    BY <2>1, <2>2 DEF ExitInv, HiddenOK
<1>3. CASE Done \/ UNCHANGED vars
  BY <1>3 DEF Done, vars, coreVars, ExitInv, HiddenOK, SweptOK, Aged, Live
<1> QED
  BY <1>1, <1>2, <1>3 DEF Next, Watch

\* If a new pod stays out of the listing for at most two intervals, then no worker of
\* the run is alive when the watchdog has exited: three clean reads are enough, for any
\* number of workers.
THEOREM ExitCorrect ==
  ASSUME HideMax <= Interval + Interval
  PROVE  Spec => []ExitMeansGone
<1> DEFINE IInv == CoreTypeOK /\ CountOK /\ BarrierInv /\ PollsInWatch /\ ExitInv
<1>1. Init => IInv
  BY InitType, InitBarrier, InitExit DEF Init
<1>2. IInv /\ [Next]_vars => IInv'
  BY NextType, NextPolls, NextBarrier, NextExit
<1>3. IInv => ExitMeansGone
  BY ExitSuffices
<1> QED
  BY <1>1, <1>2, <1>3, PTL DEF Spec
----------------------------------------------------------------------------
(* The exit code.                                                          *)

\* A breach that was declared stays true: the clock does not go back, and the ledger's
\* total does not fall.
BreachInv == label = "breach" => now >= Deadline \/ LedgerCost(ledger, now) >= Ceiling

\* The total after any step is at least the total before it.
LEMMA NextTotal ==
  ASSUME CoreTypeOK, CountOK, MeterInv, [Next]_vars, now <= now'
  PROVE  /\ LedgerCost(ledger, now) \in Nat /\ LedgerCost(ledger, now)' \in Nat
         /\ LedgerCost(ledger, now) <= LedgerCost(ledger, now)'
BY NextType, NextMeter, TotalGrows

\* The deadline is a moment.
LEMMA DeadlineType == Deadline \in Int
BY MaxRateAssumption, CoreAssumption DEF Deadline, Epoch

\* A breach stays one while its label stands.
LEMMA BreachKept ==
  ASSUME CoreTypeOK, CountOK, MeterInv, BreachInv, [Next]_vars, now <= now',
         label' \in {label, "none"}
  PROVE  BreachInv'
<1> DEFINE total == LedgerCost(ledger, now)
<1>1. now \in Int /\ now' \in Int
  BY NextType, ProviderAssumption DEF CoreTypeOK, ProvTypeOK
<1>2. total \in Nat /\ total' \in Nat /\ total <= total'
  BY NextTotal
<1>3. Deadline' = Deadline /\ Deadline \in Int /\ Ceiling \in Int
  BY DeadlineType, CoreAssumption DEF Deadline
<1>4. label' = "breach" => now >= Deadline \/ total >= Ceiling
  BY DEF BreachInv
<1> SUFFICES ASSUME label' = "breach"
             PROVE  now' >= Deadline \/ total' >= Ceiling
  BY <1>3 DEF BreachInv
<1> HIDE DEF total
<1> QED
  BY <1>1, <1>2, <1>3, <1>4

\* The watch labels a closeout with its cause.
LEMMA WatchLabel ==
  ASSUME CoreTypeOK, CountOK, MeterInv, PollsInWatch, LabelInv, BreachInv, [Next]_vars,
         \/ StandDownSeen \/ DeadlineReached \/ BeginPoll
         \/ WatchReadFails \/ WatchSurveyFails \/ WatchSurvey
  PROVE  LabelInv' /\ BreachInv'
<1>1. /\ UNCHANGED <<now, exitCode, standDown>>
      /\ phase = "watch" /\ pc # "exited"
  BY DEF StandDownSeen, DeadlineReached, BeginPoll, WatchReadFails, ReadFails, WatchSurveyFails,
         SurveyFails, WatchSurvey, SurveyWrites, PollsInWatch, provVars, fileVars
<1>2. \/ /\ phase' = "stop" /\ pc' = "delete" /\ label' \in {"breach", "stand-down"}
         /\ label' = "stand-down" => standDown
      \/ UNCHANGED <<phase, label>> /\ pc' \in {"list", "sleep", "poll"}
  BY DEF StandDownSeen, DeadlineReached, BeginPoll, WatchReadFails, WatchSurveyFails, WatchSurvey,
         StartCloseout, StartDelete, SleepInterval
<1>3. LabelInv'
  BY <1>1, <1>2 DEF LabelInv
<1>4. now <= now'
  BY <1>1, ProviderAssumption DEF CoreTypeOK, ProvTypeOK
<1>5. \/ label' \in {label, "stand-down"}
      \/ now >= Deadline /\ UNCHANGED now
      \/ LedgerCost(ledger', now) >= Ceiling /\ UNCHANGED now
  BY <1>1 DEF StandDownSeen, DeadlineReached, BeginPoll, WatchReadFails, WatchSurveyFails,
              WatchSurvey, StartCloseout
<1>6. CASE label' = label
  BY <1>3, <1>4, <1>6, BreachKept
<1>7. CASE label' # label
  BY <1>1, <1>3, <1>5, <1>7 DEF BreachInv, Deadline
<1> QED
  BY <1>3, <1>6, <1>7

\* Every step keeps the label and the exit code honest.
LEMMA NextLabel ==
  ASSUME CoreTypeOK, CountOK, MeterInv, PollsInWatch, LabelInv, BreachInv, [Next]_vars
  PROVE  LabelInv' /\ BreachInv'
<1>1. CASE \/ World /\ UNCHANGED <<memVars, exitCode, fileVars, crashes>>
           \/ ListPods \/ \E p \in Workers : LookUp(p)
           \/ Closeout
           \/ WakeToPoll \/ WakeToStop \/ RequestStandDown \/ Crash \/ Arm
  BY <1>1, SharedLabel, BreachKept
<1>2. CASE \/ StandDownSeen \/ DeadlineReached \/ BeginPoll
           \/ WatchReadFails \/ WatchSurveyFails \/ WatchSurvey
  BY <1>2, WatchLabel
<1>3. CASE Done \/ UNCHANGED vars
  BY <1>3 DEF Done, vars, coreVars, LabelInv, BreachInv, Deadline
<1> QED
  BY <1>1, <1>2, <1>3 DEF Next, Watch

\* Nothing is booked, labelled or exited when the watchdog is armed.
LEMMA InitLabel == Init => LabelInv /\ BreachInv
BY DEF Init, CoreInit, MemInit, LabelInv, BreachInv, NotExited

\* An exit of 2 is earned and stays so, however long ago the breach was declared: the
\* deadline has passed or the ledger's total is at the ceiling.  An exit of 0 was asked
\* for.
THEOREM ExitCodeCorrect == Spec => []ExitCodeIsHonest
<1> DEFINE IInv == CoreTypeOK /\ CountOK /\ MeterInv /\ PollsInWatch /\ LabelInv /\ BreachInv
<1>1. Init => IInv
  BY InitType, InitMeter, InitBarrier, InitLabel DEF Init
<1>2. IInv /\ [Next]_vars => IInv'
  BY NextType, NextMeter, NextPolls, NextLabel
<1>3. IInv => ExitCodeIsHonest
  <2>1. CoreTypeOK /\ LabelInv => /\ exitCode = 2 => label = "breach"
                                  /\ exitCode = 0 => standDown
    BY DEF CoreTypeOK, LabelInv, NotExited
  <2> QED
    BY <2>1 DEF BreachInv, ExitCodeIsHonest
<1> QED
  BY <1>1, <1>2, <1>3, PTL DEF Spec

----------------------------------------------------------------------------
(* The watchdog implements CloseoutContract.                               *)

\* Every step is a step of the contract, or none.
LEMMA StepContract ==
  ASSUME CoreTypeOK, CountOK, BarrierInv, PollsInWatch, ExitInv, [Next]_vars
  PROVE  [Contract!Next]_(Contract!vars)
<1>1. CASE Watch
  <2>1. UNCHANGED pod /\ pc # "exited" /\ pc' # "exited"
    BY <1>1 DEF Watch, StandDownSeen, DeadlineReached, BeginPoll, WatchReadFails, ReadFails,
                WatchSurveyFails, SurveyFails, WatchSurvey, SurveyWrites, WakeToPoll, SleepEnds,
                StartCloseout, StartDelete, SleepInterval, provVars
  <2> QED
    BY <2>1, StageSteps DEF Stage
<1>2. CASE Done \/ UNCHANGED vars
  <2>1. UNCHANGED <<pod, pc, phase>>
    BY <1>2 DEF Done, vars, coreVars, memVars, provVars
  <2> QED
    BY <2>1, Stutters DEF Stage
<1> QED
  BY <1>1, <1>2, SharedContract DEF Next

\* Under the same bound on the listing, every behaviour of the watchdog is one of the
\* contract's: capacity grows only under a running gateway, and a closed watch is over
\* for good.
THEOREM ContractImplemented ==
  ASSUME HideMax <= Interval + Interval
  PROVE  Spec => ImplementsContract
<1> DEFINE IInv == CoreTypeOK /\ CountOK /\ BarrierInv /\ PollsInWatch /\ ExitInv
<1>1. Init => IInv
  BY InitType, InitBarrier, InitExit DEF Init
<1>2. IInv /\ [Next]_vars => IInv'
  BY NextType, NextPolls, NextBarrier, NextExit
<1>3. Init => Contract!Init
  BY InitContract DEF Init
<1>4. IInv /\ [Next]_vars => [Contract!Next]_(Contract!vars)
  BY StepContract
<1> QED
  BY <1>1, <1>2, <1>3, <1>4, PTL DEF Spec, ImplementsContract, Contract!Spec
=============================================================================
