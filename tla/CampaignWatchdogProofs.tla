----------------------- MODULE CampaignWatchdogProofs -----------------------
(***************************************************************************)
(* Theorems about CampaignWatchdog, from the same lemmas as those about    *)
(* GpuWatchdog.                                                            *)
(***************************************************************************)
EXTENDS CampaignWatchdog, WatchdogProofs

\* The watchdog polls, or lies dead, in the watch only, and stops the process before the
\* sweep.
PollsInWatch ==
  /\ pc \in {"poll", "crashed"} => phase = "watch"
  /\ pc \in {"term", "join", "killed"} => phase = "stop"

\* The steps of this watchdog alone.
OwnWatch ==
  \/ StandDownSeen \/ DeadlineReached \/ BeginPoll
  \/ WatchReadFails \/ WatchSurveyFails \/ WatchSurvey

\* A step of either watchdog.
SharedStep ==
  \/ World /\ UNCHANGED <<memVars, exitCode, fileVars, crashes>>
  \/ ListPods \/ \E p \in Workers : LookUp(p)
  \/ Closeout
  \/ WakeToPoll \/ WakeToStop \/ RequestStandDown \/ Crash \/ Arm

LocalEnds == LocalExits /\ UNCHANGED <<memVars, exitCode, fileVars, crashes>>

\* Every step is one of these.
LEMMA StepCases ==
  ASSUME [Next]_vars
  PROVE  SharedStep \/ LocalEnds \/ OwnWatch \/ StopLocal \/ UNCHANGED coreVars
BY DEF Next, vars, Watch, OwnWatch, Shared, SharedReads, SharedDeletes, SharedSweep, Closeout,
       CampaignCrash, CampaignArm, Done, SharedStep, LocalEnds

----------------------------------------------------------------------------
(* The resurrection barrier.                                               *)

\* What a closeout begins with.
LEMMA BeginCloseoutFacts ==
  ASSUME NEW why, BeginCloseout(why)
  PROVE  /\ phase' = "stop"
         /\ label' = why
         /\ \/ pc' = "term" /\ UNCHANGED <<target, attempt>>
            \/ pc' = "delete" /\ target' = Control /\ attempt' = 1
BY DEF BeginCloseout, StartCloseout, StartDelete

\* A step of the watch leaves pods and sweep alone and may begin a closeout.
LEMMA OwnWatchFacts ==
  ASSUME OwnWatch
  PROVE  /\ UNCHANGED <<now, pod, doomed, cleanReads, exitCode, standDown, crashes>>
         /\ \/ /\ phase' = "stop"
               /\ label' \in {"breach", "stand-down"}
               /\ \/ pc' = "term" /\ UNCHANGED <<target, attempt>>
                  \/ pc' = "delete" /\ target' = Control /\ attempt' = 1
            \/ UNCHANGED <<phase, label, target, attempt>> /\ pc' \in {"list", "sleep"}
<1> USE DEF provVars, fileVars
<1>1. CASE StandDownSeen \/ DeadlineReached
  <2>1. BeginCloseout("stand-down") \/ BeginCloseout("breach")
    BY <1>1 DEF StandDownSeen, DeadlineReached
  <2> QED
    BY <1>1, <2>1, BeginCloseoutFacts DEF StandDownSeen, DeadlineReached
<1>2. CASE BeginPoll
  BY <1>2 DEF BeginPoll
<1>3. CASE WatchReadFails \/ WatchSurveyFails
  <2>1. \/ BeginCloseout("breach")
        \/ SleepInterval /\ UNCHANGED <<phase, label, target, attempt>>
    BY <1>3 DEF WatchReadFails, WatchSurveyFails, MarkOutage
  <2>2. UNCHANGED <<now, pod, doomed, cleanReads, exitCode, standDown, crashes>>
    BY <1>3 DEF WatchReadFails, WatchSurveyFails
  <2> QED
    BY <2>1, <2>2, BeginCloseoutFacts DEF SleepInterval
<1>4. CASE WatchSurvey
  <2>1. \/ BeginCloseout("breach")
        \/ SleepInterval /\ UNCHANGED <<phase, label, target, attempt>>
    BY <1>4 DEF WatchSurvey
  <2>2. UNCHANGED <<now, pod, doomed, cleanReads, exitCode, standDown, crashes>>
    BY <1>4 DEF WatchSurvey
  <2> QED
    BY <2>1, <2>2, BeginCloseoutFacts DEF SleepInterval
<1> QED
  BY <1>1, <1>2, <1>3, <1>4 DEF OwnWatch

\* A process that has ended stays ended, and is never unheard of.
LEMMA ProcessStep ==
  ASSUME CoreTypeOK, BarrierInv, UNCHANGED pod \/ pod' = [pod EXCEPT ![Control] = Becomes(Control, "gone")]
  PROVE  pod'[Control].st # "absent" /\ (Dead(Control) => Dead(Control)')
<1>1. Control \in Pods /\ pod \in [Pods -> PodRecord]
  BY DEF CoreTypeOK, ProvTypeOK, Pods
<1>2. Becomes(Control, "gone").st = "gone"
  BY <1>1 DEF Becomes, PodRecord
<1> QED
  BY <1>1, <1>2 DEF BarrierInv, Dead

\* Every step keeps the barrier up.
LEMMA NextBarrier ==
  ASSUME CoreTypeOK, BarrierInv, PollsInWatch, [Next]_vars
  PROVE  BarrierInv'
<1>1. CASE SharedStep
  BY <1>1, SharedBarrier DEF SharedStep
<1>2. CASE LocalEnds
  BY <1>2, ProcessStep DEF LocalEnds, LocalExits, memVars, BarrierInv
<1>3. CASE OwnWatch
  <2>1. phase = "watch"
    BY <1>3 DEF OwnWatch, StandDownSeen, DeadlineReached, BeginPoll, WatchReadFails,
                WatchSurveyFails, WatchSurvey, PollsInWatch
  <2> QED
    BY <1>3, <2>1, OwnWatchFacts DEF BarrierInv, Dead
<1>4. CASE StopLocal
  <2>1. /\ UNCHANGED <<doomed, target>>
        /\ pc' \notin {"delete", "verify"}
        /\ UNCHANGED phase \/ (phase' = "sweep" /\ Dead(Control))
        /\ UNCHANGED pod \/ pod' = [pod EXCEPT ![Control] = Becomes(Control, "gone")]
    BY <1>4 DEF StopLocal, SendTerm, Joined, SendKill, KillUnverified, WakeToTerm, SleepInterval,
                provVars
  <2> QED
    BY <2>1, ProcessStep DEF BarrierInv
<1>5. CASE UNCHANGED coreVars
  BY <1>5 DEF coreVars, BarrierInv, Dead
<1> QED
  BY <1>1, <1>2, <1>3, <1>4, <1>5, StepCases

\* Only the watch returns to the head of the loop; the process is stopped before the
\* sweep.
LEMMA NextPolls ==
  ASSUME CoreTypeOK, PollsInWatch, [Next]_vars
  PROVE  PollsInWatch'
<1>1. CASE SharedStep
  <2>1. CASE World /\ UNCHANGED <<memVars, exitCode, fileVars, crashes>>
    BY <2>1 DEF memVars, PollsInWatch
  <2>2. CASE Closeout
    <3>1. pc' \notin {"poll", "crashed", "term", "join", "killed"}
      BY <2>2 DEF Closeout, Delete, Verified, TryAgain, GiveUp, DeleteReturns, SweepReadFails,
                  SweepSurveyFails, SweepSurvey, WakeToSweep, StartDelete, SleepInterval
    <3> QED
      BY <3>1 DEF PollsInWatch
  <2>3. CASE ListPods \/ \E p \in Workers : LookUp(p)
    BY <2>3 DEF ListPods, LookUp, PollsInWatch
  <2>4. CASE WakeToPoll \/ WakeToStop \/ RequestStandDown \/ Crash \/ Arm
    BY <2>4 DEF WakeToPoll, WakeToStop, StartDelete, RequestStandDown, Crash, Arm, memVars,
                PollsInWatch
  <2> QED
    BY <1>1, <2>1, <2>2, <2>3, <2>4 DEF SharedStep
<1>2. CASE LocalEnds
  BY <1>2 DEF LocalEnds, memVars, PollsInWatch
<1>3. CASE OwnWatch
  BY <1>3, OwnWatchFacts DEF PollsInWatch
<1>4. CASE StopLocal
  BY <1>4 DEF StopLocal, SendTerm, Joined, SendKill, KillUnverified, WakeToTerm, SleepInterval,
              PollsInWatch
<1>5. CASE UNCHANGED coreVars
  BY <1>5 DEF coreVars, PollsInWatch
<1> QED
  BY <1>1, <1>2, <1>3, <1>4, <1>5, StepCases

----------------------------------------------------------------------------
(* Type correctness of what the watchdogs share.                           *)

\* What a step of the watch does to the ledger and the listing in hand.
LEMMA OwnWatchLedger ==
  ASSUME CoreTypeOK, OwnWatch
  PROVE  /\ wake' \in Nat
         /\ \/ UNCHANGED ledger /\ (UNCHANGED <<listing, missing>> \/ DropListing)
            \/ SurveyWrites
         /\ torn' \in BOOLEAN
<1> USE DEF provVars, fileVars
<1>0. wake \in Nat /\ now + Interval \in Nat /\ torn \in BOOLEAN
  BY ProviderAssumption, CoreAssumption DEF CoreTypeOK, ProvTypeOK
<1>1. CASE StandDownSeen \/ DeadlineReached \/ BeginPoll
  BY <1>0, <1>1 DEF StandDownSeen, DeadlineReached, BeginPoll
<1>2. CASE WatchReadFails
  BY <1>0, <1>2 DEF WatchReadFails, ReadFails, MarkOutage, SleepInterval
<1>3. CASE WatchSurveyFails
  <2>1. torn' \in BOOLEAN
    BY <1>0, <1>3 DEF WatchSurveyFails, SurveyFails
  <2> QED
    BY <1>0, <1>3, <2>1 DEF WatchSurveyFails, SurveyFails, MarkOutage, SleepInterval
<1>4. CASE WatchSurvey
  BY <1>0, <1>4 DEF WatchSurvey, SurveySucceeds, SleepInterval
<1> QED
  BY <1>1, <1>2, <1>3, <1>4 DEF OwnWatch

\* The steps of the watch keep the types.
LEMMA OwnWatchType ==
  ASSUME CoreTypeOK, CountOK, OwnWatch
  PROVE  CoreTypeOK' /\ CountOK'
<1>1. ledger' \in [Pods -> LedgerEntry] /\ listing' \in [Pods -> Statuses] /\ missing' \subseteq Pods
  <2>1. NoListing \in [Pods -> Statuses]
    BY DEF NoListing, Statuses
  <2> QED
    BY <2>1, OwnWatchLedger, SurveyedType DEF SurveyWrites, DropListing, CoreTypeOK
<1>2. pc \in {"poll", "list", "lookup", "survey"}
  BY DEF OwnWatch, StandDownSeen, DeadlineReached, BeginPoll, WatchReadFails, ReadFails,
         WatchSurveyFails, SurveyFails, WatchSurvey, SurveySucceeds, SurveyWrites
<1>3. Control \in Pods /\ 1 \in 1 .. Attempts
  BY DEF Pods, Attempts
<1>4. ProvTypeOK'
  BY OwnWatchFacts DEF CoreTypeOK, ProvTypeOK
<1>5. /\ pc' \in {"term", "delete", "list", "sleep"}
      /\ phase' \in {"watch", "stop", "sweep"}
      /\ label' \in {"none", "breach", "stand-down"}
      /\ target' \in Pods
      /\ attempt' \in 1 .. Attempts
  BY <1>3, OwnWatchFacts DEF CoreTypeOK
<1>6. torn' \in BOOLEAN /\ wake' \in Nat
  BY OwnWatchLedger
<1> QED
  BY <1>1, <1>2, <1>4, <1>5, <1>6, OwnWatchFacts DEF CoreTypeOK, CountOK

\* So do the steps that end a local control plane.
LEMMA LocalType ==
  ASSUME CoreTypeOK, CountOK, StopLocal \/ LocalEnds
  PROVE  CoreTypeOK' /\ CountOK'
<1>0. pod' \in [Pods -> PodRecord]
  <2>1. Becomes(Control, "gone") \in PodRecord
    BY BecomesType DEF Pods, Statuses
  <2>2. UNCHANGED pod \/ pod' = [pod EXCEPT ![Control] = Becomes(Control, "gone")]
    BY DEF StopLocal, SendTerm, Joined, SendKill, KillUnverified, WakeToTerm, LocalEnds, LocalExits,
           provVars
  <2> QED
    BY <2>1, <2>2 DEF CoreTypeOK, ProvTypeOK
<1>1. CASE LocalEnds
  BY <1>0, <1>1 DEF LocalEnds, LocalExits, memVars, fileVars, CoreTypeOK, ProvTypeOK, CountOK
<1>2. CASE StopLocal
  <2>1. now + Interval \in Nat
    BY ProviderAssumption, CoreAssumption DEF CoreTypeOK, ProvTypeOK
  <2>2. CASE SendTerm \/ SendKill \/ KillUnverified
    BY <1>0, <2>1, <2>2 DEF SendTerm, SendKill, KillUnverified, SleepInterval, provVars, fileVars,
                            CoreTypeOK, ProvTypeOK, CountOK
  <2>3. CASE Joined
    BY <1>0, <2>3 DEF Joined, provVars, fileVars, CoreTypeOK, ProvTypeOK, CountOK, CleanReads
  <2>4. CASE WakeToTerm
    BY <1>0, <2>4 DEF WakeToTerm, SleepEnds, provVars, fileVars, CoreTypeOK, ProvTypeOK, CountOK
  <2> QED
    BY <1>2, <2>2, <2>3, <2>4 DEF StopLocal
<1> QED
  BY <1>1, <1>2

\* Every step keeps the types and the bound on the clean reads.
LEMMA NextType ==
  ASSUME CoreTypeOK, CountOK, [Next]_vars
  PROVE  CoreTypeOK' /\ CountOK'
<1>1. CASE SharedStep
  <2>1. CountOK'
    BY <1>1, CountKept DEF SharedStep
  <2>2. CoreTypeOK'
    BY <1>1, WorldType, ReadsType, DeletesType, SweepType, OthersType DEF SharedStep, Closeout
  <2> QED
    BY <2>1, <2>2
<1>2. CASE LocalEnds \/ StopLocal
  BY <1>2, LocalType
<1>3. CASE OwnWatch
  BY <1>3, OwnWatchType
<1>4. CASE UNCHANGED coreVars
  BY <1>4 DEF coreVars, CoreTypeOK, ProvTypeOK, CountOK
<1> QED
  BY <1>1, <1>2, <1>3, <1>4, StepCases

\* The barrier holds when the watchdog is armed.
LEMMA InitBarrier == Init => BarrierInv /\ PollsInWatch
<1>1. Control \in Pods /\ Control \notin Workers
  BY ProviderAssumption DEF Pods
<1> QED
  BY <1>1 DEF Init, CoreInit, ProvInit, MemInit, BarrierInv, PollsInWatch

\* As for the deadline watchdog: a worker is deleted only behind a dead control plane,
\* be it a pod or a process.
THEOREM CampaignBarrierCorrect == Spec => []ControlPlaneDiesFirst
<1> DEFINE IInv == CoreTypeOK /\ CountOK /\ BarrierInv /\ PollsInWatch
<1>1. Init => IInv
  BY InitType, InitBarrier DEF Init
<1>2. IInv /\ [Next]_vars => IInv'
  BY NextType, NextBarrier, NextPolls
<1>3. IInv => ControlPlaneDiesFirst
  BY BarrierSuffices
<1> QED
  BY <1>1, <1>2, <1>3, PTL DEF Spec

----------------------------------------------------------------------------
(* The meter.                                                              *)

\* The control plane's death is no worker's.
LEMMA LocalMeter ==
  ASSUME CoreTypeOK, MeterInv, StopLocal \/ LocalEnds
  PROVE  MeterInv' /\ LedgerGrows
<1>1. UNCHANGED <<now, ledger, listing, missing>>
  BY DEF StopLocal, SendTerm, Joined, SendKill, KillUnverified, WakeToTerm, LocalEnds, LocalExits,
         memVars, provVars, fileVars
<1>2. UNCHANGED pod \/ pod' = [pod EXCEPT ![Control] = Becomes(Control, "gone")]
  BY DEF StopLocal, SendTerm, Joined, SendKill, KillUnverified, WakeToTerm, LocalEnds, LocalExits,
         provVars
<1>3. ASSUME NEW w \in Workers PROVE MeterOK(w)'
  <2>1. w \in Pods /\ w # Control /\ MeterOK(w)
    BY ProviderAssumption DEF Pods, MeterInv
  <2>2. pod'[w] = pod[w]
    BY <1>2, <2>1 DEF CoreTypeOK, ProvTypeOK
  <2> QED
    BY <1>1, <2>1, <2>2 DEF MeterOK, Dead
<1> QED
  BY <1>1, <1>3, LedgerKept DEF MeterInv

\* Every step keeps the meter right and lets the ledger only grow.
LEMMA NextMeter ==
  ASSUME CoreTypeOK, MeterInv, [Next]_vars
  PROVE  MeterInv' /\ LedgerGrows
<1>1. CASE SharedStep
  BY <1>1, SharedMeter DEF SharedStep
<1>2. CASE StopLocal \/ LocalEnds
  BY <1>2, LocalMeter
<1>3. CASE OwnWatch
  <2>1. UNCHANGED <<now, pod>>
    BY <1>3, OwnWatchFacts
  <2> QED
    BY <1>3, <2>1, OwnWatchLedger, FrameMeter, SurveyMeter, LedgerKept
<1>4. CASE UNCHANGED coreVars
  <2>1. UNCHANGED <<now, pod, ledger, listing, missing>>
    BY <1>4 DEF coreVars
  <2> QED
    BY <2>1, FrameMeter, LedgerKept
<1> QED
  BY <1>1, <1>2, <1>3, <1>4, StepCases

\* The campaign's meter, too, never books a known worker below its bill, also over a local
\* control plane and through outages.
THEOREM CampaignMeterCorrect == Spec => []NeverUnderBooked
<1>1. Init => CoreTypeOK /\ CountOK /\ MeterInv
  BY InitType, InitMeter DEF Init
<1>2. (CoreTypeOK /\ CountOK /\ MeterInv) /\ [Next]_vars
        => (CoreTypeOK /\ CountOK /\ MeterInv)'
  BY NextType, NextMeter
<1>3. CoreTypeOK /\ CountOK /\ MeterInv => NeverUnderBooked
  BY MeterSuffices
<1> QED
  BY <1>1, <1>2, <1>3, PTL DEF Spec

\* Nor does it take back what the ledger has booked, whichever crash forgets the accrued total.
THEOREM CampaignMeterMonotone == Spec => MeterNeverRunsBack
<1>1. Init => CoreTypeOK /\ CountOK /\ MeterInv
  BY InitType, InitMeter DEF Init
<1>2. (CoreTypeOK /\ CountOK /\ MeterInv) /\ [Next]_vars
        => (CoreTypeOK /\ CountOK /\ MeterInv)'
  BY NextType, NextMeter
<1>3. (CoreTypeOK /\ CountOK /\ MeterInv) /\ [Next]_vars => [NothingForgotten]_coreVars
  BY NextMeter DEF LedgerGrows
<1>4. Spec => [][NothingForgotten]_coreVars
  BY <1>1, <1>2, <1>3, PTL DEF Spec
<1> QED
  BY <1>4 DEF NothingForgotten, MeterNeverRunsBack

----------------------------------------------------------------------------
(* The exit.                                                               *)

\* Every step keeps what the sweep knows of the workers.
LEMMA NextExit ==
  ASSUME CoreTypeOK, CountOK, BarrierInv, PollsInWatch, ExitInv, HideMax <= Interval + Interval,
         [Next]_vars
  PROVE  ExitInv'
<1>1. CASE SharedStep
  BY <1>1, SharedExit DEF SharedStep
<1>2. CASE OwnWatch
  <2>1. phase = "watch"
    BY <1>2 DEF OwnWatch, StandDownSeen, DeadlineReached, BeginPoll, WatchReadFails,
                WatchSurveyFails, WatchSurvey, PollsInWatch
  <2>2. UNCHANGED <<now, pod>> /\ phase' # "sweep" /\ pc' # "exited"
    BY <1>2, <2>1, OwnWatchFacts
  <2> QED
    BY <2>2 DEF ExitInv, HiddenOK
<1>3. CASE StopLocal \/ LocalEnds
  <2>1. now' = now /\ (UNCHANGED pod \/ pod' = [pod EXCEPT ![Control] = Becomes(Control, "gone")])
    BY <1>3 DEF StopLocal, SendTerm, Joined, SendKill, KillUnverified, WakeToTerm, LocalEnds,
                LocalExits, provVars
  <2>2. \A w \in Workers : pod'[w] = pod[w]
    BY <2>1, ProviderAssumption DEF CoreTypeOK, ProvTypeOK, Pods
  <2>3. CASE LocalEnds
    BY <2>1, <2>2, <2>3 DEF LocalEnds, memVars, ExitInv, HiddenOK, SweptOK, Aged, Live
  <2>4. CASE Joined
    <3>1. phase' = "sweep" /\ pc' = "list" /\ cleanReads' = 0
      BY <2>4 DEF Joined
    <3> QED
      BY <2>1, <2>2, <3>1 DEF ExitInv, HiddenOK, SweptOK, Aged, CleanReads
  <2>5. CASE StopLocal /\ ~Joined
    <3>1. phase' = phase /\ pc' # "exited"
      BY <2>5 DEF StopLocal, SendTerm, SendKill, KillUnverified, WakeToTerm, SleepInterval
    <3>2. phase # "sweep"
      BY <2>5 DEF StopLocal, SendTerm, SendKill, KillUnverified, WakeToTerm, PollsInWatch
    <3> QED
      BY <2>1, <2>2, <3>1, <3>2 DEF ExitInv, HiddenOK
  <2> QED
    BY <1>3, <2>3, <2>4, <2>5
<1>4. CASE UNCHANGED coreVars
  BY <1>4 DEF coreVars, ExitInv, HiddenOK, SweptOK, Aged, Live
<1> QED
  BY <1>1, <1>2, <1>3, <1>4, StepCases

\* As for the deadline watchdog: three clean reads are enough if a new pod stays out of
\* the listing for at most two intervals.
THEOREM CampaignExitCorrect ==
  ASSUME HideMax <= Interval + Interval
  PROVE  Spec => []ExitMeansGone
<1> DEFINE IInv == CoreTypeOK /\ CountOK /\ BarrierInv /\ PollsInWatch /\ ExitInv
<1>1. Init => IInv
  BY InitType, InitBarrier, InitExit DEF Init
<1>2. IInv /\ [Next]_vars => IInv'
  BY NextType, NextPolls, NextBarrier, NextExit
<1>3. IInv => ExitMeansGone
  BY ExitSuffices
<1> QED
  BY <1>1, <1>2, <1>3, PTL DEF Spec

----------------------------------------------------------------------------
(* The watchdog implements CloseoutContract.                               *)

\* Every step is a step of the contract, or none.
LEMMA StepContract ==
  ASSUME CoreTypeOK, CountOK, BarrierInv, PollsInWatch, ExitInv, [Next]_vars
  PROVE  [Contract!Next]_(Contract!vars)
<1>0. "gone" \in Statuses /\ "gone" # "RUNNING"
  BY DEF Statuses
<1>1. CASE SharedStep
  <2>1. CASE WakeToPoll
    <3>1. UNCHANGED pod /\ pc # "exited" /\ pc' # "exited"
      BY <2>1 DEF WakeToPoll, SleepEnds, provVars
    <3> QED
      BY <3>1, StageSteps DEF Stage
  <2> QED
    BY <1>1, <2>1, SharedContract DEF SharedStep
<1>2. CASE OwnWatch
  <2>1. pc # "exited"
    BY <1>2 DEF OwnWatch, StandDownSeen, DeadlineReached, BeginPoll, WatchReadFails, ReadFails,
                WatchSurveyFails, SurveyFails, WatchSurvey, SurveySucceeds, SurveyWrites
  <2>2. UNCHANGED pod /\ pc' # "exited"
    BY <1>2, OwnWatchFacts
  <2> QED
    BY <2>1, <2>2, StageSteps DEF Stage
<1>3. CASE LocalEnds
  <2>1. Stage' = Stage /\ pod' = [pod EXCEPT ![Control] = Becomes(Control, "gone")]
    BY <1>3 DEF LocalEnds, LocalExits, memVars, Stage
  <2> QED
    BY <1>0, <2>1, GatewayStops
<1>4. CASE StopLocal
  <2>1. CASE SendKill
    <3>1. Stage' = Stage
      BY <2>1 DEF SendKill, Stage
    <3>2. UNCHANGED pod \/ pod' = [pod EXCEPT ![Control] = Becomes(Control, "gone")]
      BY <2>1 DEF SendKill
    <3> QED
      BY <1>0, <3>1, <3>2, GatewayStops, Stutters
  <2>2. CASE SendTerm \/ Joined \/ KillUnverified \/ WakeToTerm
    <3>1. UNCHANGED pod /\ pc # "exited" /\ pc' # "exited"
      BY <2>2 DEF SendTerm, Joined, KillUnverified, WakeToTerm, SleepEnds, SleepInterval, provVars
    <3> QED
      BY <3>1, StageSteps DEF Stage
  <2> QED
    BY <1>4, <2>1, <2>2 DEF StopLocal
<1>5. CASE UNCHANGED coreVars
  <2>1. UNCHANGED <<pod, pc, phase>>
    BY <1>5 DEF coreVars, memVars, provVars
  <2> QED
    BY <2>1, Stutters DEF Stage
<1> QED
  BY <1>1, <1>2, <1>3, <1>4, <1>5, StepCases

\* The campaign watchdog keeps the same contract, also over a local process that ends by
\* itself, on TERM or only on KILL.
THEOREM CampaignContractImplemented ==
  ASSUME HideMax <= Interval + Interval
  PROVE  Spec => ImplementsContract
<1> DEFINE IInv == CoreTypeOK /\ CountOK /\ BarrierInv /\ PollsInWatch /\ ExitInv
<1>1. Init => IInv
  BY InitType, InitBarrier, InitExit DEF Init
<1>2. IInv /\ [Next]_vars => IInv'
  BY NextType, NextPolls, NextBarrier, NextExit
<1>3. Init => Contract!Init
  BY InitContract DEF Init
<1>4. IInv /\ [Next]_vars => [Contract!Next]_(Contract!vars)
  BY StepContract
<1> QED
  BY <1>1, <1>2, <1>3, <1>4, PTL DEF Spec, ImplementsContract, Contract!Spec

----------------------------------------------------------------------------
(* The types of the outage's variables.                                    *)

\* The total after any step is at least the total before it.
LEMMA NextTotal ==
  ASSUME CoreTypeOK, CountOK, MeterInv, [Next]_vars, now <= now'
  PROVE  /\ LedgerCost(ledger, now) \in Nat /\ LedgerCost(ledger, now)' \in Nat
         /\ LedgerCost(ledger, now) <= LedgerCost(ledger, now)'
BY NextType, NextMeter, TotalGrows

\* A step that is neither the watch's nor the watchdog's death.
QuietStep ==
  \/ World /\ UNCHANGED <<memVars, exitCode, fileVars, crashes>>
  \/ ListPods \/ \E p \in Workers : LookUp(p)
  \/ Closeout
  \/ WakeToPoll \/ WakeToStop \/ RequestStandDown \/ Arm
  \/ LocalEnds \/ StopLocal \/ UNCHANGED coreVars

\* Only the watch and the watchdog's death touch the outage.
LEMMA OutageSteps ==
  ASSUME [Next]_vars
  PROVE  OwnWatch \/ CampaignCrash \/ (UNCHANGED outageVars /\ QuietStep)
<1>1. OwnWatch \/ CampaignCrash \/ UNCHANGED outageVars
  <2>1. StopLocal => UNCHANGED outageVars
    BY DEF StopLocal, SendTerm, Joined, SendKill, KillUnverified, WakeToTerm, outageVars
  <2> QED
    BY <2>1 DEF Next, vars, Watch, OwnWatch, CampaignArm, Done, outageVars
<1>2. OwnWatch \/ CampaignCrash \/ QuietStep
  BY DEF Next, vars, Watch, OwnWatch, Shared, SharedReads, SharedDeletes, SharedSweep, Closeout,
         CampaignArm, Done, LocalEnds, QuietStep
<1> QED
  BY <1>1, <1>2

\* What the watch may set the outage's variables to.
LEMMA OwnWatchOutage ==
  ASSUME OwnWatch
  PROVE  /\ UNCHANGED local
         /\ polledAt' \in {polledAt, now}
         /\ lastAccrued' \in {lastAccrued, LedgerCost(ledger', now)}
         /\ outageStarted' \in {outageStarted, polledAt, NoOutage}
         /\ surveyedAt' \in {surveyedAt, now}
         /\ blindSince' \in {blindSince, polledAt, NoOutage}
<1>1. CASE StandDownSeen \/ DeadlineReached \/ BeginPoll
  BY <1>1 DEF StandDownSeen, DeadlineReached, BeginPoll
<1>2. CASE WatchReadFails \/ WatchSurveyFails
  BY <1>2 DEF WatchReadFails, WatchSurveyFails, MarkOutage, StaysBlind
<1>3. CASE WatchSurvey
  BY <1>3 DEF WatchSurvey
<1> QED
  BY <1>1, <1>2, <1>3 DEF OwnWatch

\* Every step keeps the types of the outage's variables.
LEMMA NextOutageType ==
  ASSUME TypeOK, CountOK, MeterInv, [Next]_vars
  PROVE  TypeOK'
<1>0. CoreTypeOK /\ CoreTypeOK' /\ now \in Nat
  BY NextType, ProviderAssumption DEF TypeOK, CoreTypeOK, ProvTypeOK
<1>1. CASE OwnWatch
  <2>1. now' = now
    BY <1>1, OwnWatchFacts
  <2>2. now <= now'
    BY <1>0, <2>1
  <2>3. LedgerCost(ledger, now)' \in Nat
    BY <1>0, <2>2, NextTotal
  <2>4. LedgerCost(ledger', now) \in Nat
    BY <2>1, <2>3
  <2> QED
    BY <1>0, <1>1, <2>4, OwnWatchOutage DEF TypeOK
<1>2. CASE CampaignCrash
  BY <1>0, <1>2 DEF CampaignCrash, TypeOK, Epoch
<1>3. CASE UNCHANGED outageVars
  BY <1>0, <1>3 DEF outageVars, TypeOK
<1> QED
  BY <1>1, <1>2, <1>3, OutageSteps

\* The outage's variables have their types when the watchdog is armed.
LEMMA InitOutageType == Init => TypeOK /\ CountOK
<1> SUFFICES ASSUME Init PROVE TypeOK /\ CountOK
  OBVIOUS
<1>1. local \in BOOLEAN
  BY CampaignAssumption DEF Init
<1> QED
  BY <1>1, InitType DEF Init, TypeOK, Epoch

\* The campaign watchdog's state always has its type: the total of the last good survey,
\* a sum over the ledger, and the moments of the outage included.
THEOREM CampaignTypeCorrect == Spec => []TypeOK
<1> DEFINE IInv == TypeOK /\ CountOK /\ MeterInv
<1>1. Init => IInv
  BY InitOutageType, InitMeter DEF Init
<1>2. IInv /\ [Next]_vars => IInv'
  BY NextType, NextOutageType, NextMeter DEF TypeOK
<1> QED
  BY <1>1, <1>2, PTL DEF Spec

----------------------------------------------------------------------------
(* The exit code.                                                          *)

\* The outage at hand could by its last poll have spent the ceiling.
OutageBreach == outageStarted # NoOutage /\ WorstCase(outageStarted) >= Ceiling

\* A breach that was declared stays true: the clock does not go back, the ledger's total
\* does not fall, and nothing but the watch touches the outage.
BreachInv ==
  label = "breach" => now >= Deadline \/ LedgerCost(ledger, now) >= Ceiling \/ OutageBreach

\* A breach stays one while its label and its outage stand.
LEMMA BreachKept ==
  ASSUME CoreTypeOK, CountOK, MeterInv, BreachInv, [Next]_vars, now <= now',
         label' = "none" \/ (label' = label /\ UNCHANGED outageVars)
  PROVE  BreachInv'
<1> DEFINE total == LedgerCost(ledger, now)
<1>1. now \in Int /\ now' \in Int
  BY NextType, ProviderAssumption DEF CoreTypeOK, ProvTypeOK
<1>2. total \in Nat /\ total' \in Nat /\ total <= total'
  BY NextTotal
<1>3. Deadline' = Deadline /\ Deadline \in Int /\ Ceiling \in Int
  BY CampaignAssumption, CoreAssumption DEF Deadline, Epoch
<1>4. label = "breach" => now >= Deadline \/ total >= Ceiling \/ OutageBreach
  BY DEF BreachInv
<1>5. OutageBreach /\ label' = "breach" => OutageBreach'
  BY DEF OutageBreach, outageVars, WorstCase
<1> SUFFICES ASSUME label' = "breach"
             PROVE  now' >= Deadline \/ total' >= Ceiling \/ OutageBreach'
  BY <1>3 DEF BreachInv
<1> HIDE DEF total
<1> QED
  BY <1>1, <1>2, <1>3, <1>4, <1>5

\* A closeout says why it begins.
LEMMA OwnWatchLabel ==
  ASSUME TypeOK, OwnWatch
  PROVE  \/ UNCHANGED <<phase, label>>
         \/ /\ phase' = "stop"
            /\ \/ label' = "stand-down" /\ standDown
               \/ /\ label' = "breach"
                  /\ \/ now >= Deadline
                     \/ LedgerCost(ledger', now) >= Ceiling
                     \/ OutageBreach'
<1>1. CASE StandDownSeen \/ DeadlineReached
  BY <1>1, BeginCloseoutFacts DEF StandDownSeen, DeadlineReached
<1>2. CASE BeginPoll
  BY <1>2 DEF BeginPoll
<1>3. CASE WatchReadFails \/ WatchSurveyFails
  <2> DEFINE started == IF outageStarted = NoOutage THEN polledAt ELSE outageStarted
  <2>1. MarkOutage
    BY <1>3 DEF WatchReadFails, WatchSurveyFails
  <2>2. /\ outageStarted' = started /\ UNCHANGED <<polledAt, lastAccrued>>
        /\ \/ WorstCase(started) >= Ceiling /\ BeginCloseout("breach")
           \/ UNCHANGED <<phase, label>>
    BY <2>1 DEF MarkOutage
  <2>3. started # NoOutage
    BY DEF TypeOK, NoOutage
  <2>4. \/ WorstCase(started) >= Ceiling /\ phase' = "stop" /\ label' = "breach"
        \/ UNCHANGED <<phase, label>>
    BY <2>2, BeginCloseoutFacts
  <2> HIDE DEF started
  <2> QED
    BY <2>2, <2>3, <2>4 DEF OutageBreach, WorstCase
<1>4. CASE WatchSurvey
  <2>1. \/ BeginCloseout("breach") /\ LedgerCost(ledger', now) >= Ceiling
        \/ UNCHANGED <<phase, label>>
    BY <1>4 DEF WatchSurvey
  <2> QED
    BY <2>1, BeginCloseoutFacts
<1> QED
  BY <1>1, <1>2, <1>3, <1>4 DEF OwnWatch

\* The steps that end a local control plane are within the closeout.
LEMMA LocalLabel ==
  ASSUME CoreTypeOK, PollsInWatch, LabelInv, StopLocal \/ LocalEnds
  PROVE  LabelInv' /\ label' = label /\ now <= now'
<1>1. now <= now
  BY ProviderAssumption DEF CoreTypeOK, ProvTypeOK
<1>2. CASE StopLocal
  BY <1>1, <1>2 DEF StopLocal, SendTerm, Joined, SendKill, KillUnverified, WakeToTerm, SleepEnds,
                    SleepInterval, provVars, fileVars, LabelInv, PollsInWatch
<1>3. CASE LocalEnds
  BY <1>1, <1>3 DEF LocalEnds, LocalExits, memVars, fileVars, LabelInv
<1> QED
  BY <1>2, <1>3

\* Every step keeps the label and the exit code honest.
LEMMA NextLabel ==
  ASSUME TypeOK, CountOK, MeterInv, PollsInWatch, LabelInv, BreachInv, [Next]_vars
  PROVE  LabelInv' /\ BreachInv'
<1>0. CoreTypeOK /\ now <= now
  BY ProviderAssumption DEF TypeOK, CoreTypeOK, ProvTypeOK
<1>1. CASE OwnWatch
  <2>1. /\ UNCHANGED <<now, exitCode, standDown>>
        /\ phase' \in {"stop", phase} /\ pc' \in {"term", "delete", "list", "sleep"}
        /\ pc' = "delete" => phase' = "stop"
    BY <1>1, OwnWatchFacts
  <2>2. phase = "watch" /\ pc # "exited"
    BY <1>1 DEF OwnWatch, StandDownSeen, DeadlineReached, BeginPoll, WatchReadFails, ReadFails,
                WatchSurveyFails, SurveyFails, WatchSurvey, SurveySucceeds, SurveyWrites,
                PollsInWatch
  <2>3. LabelInv'
    BY <1>1, <2>1, <2>2, OwnWatchLabel DEF LabelInv
  <2>4. label = "none"
    BY <2>2 DEF LabelInv
  <2>5. BreachInv'
    BY <1>1, <2>1, <2>4, OwnWatchLabel DEF BreachInv, Deadline
  <2> QED
    BY <2>3, <2>5
<1>2. CASE CampaignCrash
  <2>1. LabelInv' /\ label' = "none"
    BY <1>0, <1>2, SharedLabel DEF CampaignCrash, Crash
  <2> QED
    BY <2>1 DEF BreachInv
<1>3. CASE UNCHANGED outageVars /\ ~OwnWatch
  <2>1. CASE SharedStep
    BY <1>0, <1>3, <2>1, SharedLabel, BreachKept DEF SharedStep
  <2>2. CASE LocalEnds \/ StopLocal
    BY <1>0, <1>3, <2>2, LocalLabel, BreachKept
  <2>3. CASE UNCHANGED coreVars
    <3>1. LabelInv' /\ label' = label /\ now' = now
      BY <2>3 DEF coreVars, LabelInv
    <3> QED
      BY <1>0, <1>3, <3>1, BreachKept
  <2> QED
    BY <1>3, <2>1, <2>2, <2>3, StepCases
<1> QED
  BY <1>1, <1>2, <1>3, OutageSteps

\* Nothing is booked, labelled or exited when the watchdog is armed.
LEMMA InitLabel == Init => LabelInv /\ BreachInv
BY DEF Init, CoreInit, MemInit, LabelInv, BreachInv, NotExited

\* The campaign's exit of 2 is earned and stays so: by the wall, by the booked total, or
\* by what the unreadable interval could have spent.  An exit of 0 was asked for.
THEOREM CampaignExitCodeCorrect == Spec => []ExitCodeIsHonest
<1> DEFINE IInv == TypeOK /\ CountOK /\ MeterInv /\ PollsInWatch /\ LabelInv /\ BreachInv
<1>1. Init => IInv
  BY InitOutageType, InitMeter, InitBarrier, InitLabel DEF Init
<1>2. IInv /\ [Next]_vars => IInv'
  BY NextType, NextOutageType, NextMeter, NextPolls, NextLabel DEF TypeOK
<1>3. IInv => ExitCodeIsHonest
  <2>1. CoreTypeOK /\ LabelInv => /\ exitCode = 2 => label = "breach"
                                  /\ exitCode = 0 => standDown
    BY DEF CoreTypeOK, LabelInv, NotExited
  <2> QED
    BY <2>1 DEF TypeOK, BreachInv, OutageBreach, ExitCodeIsHonest
<1> QED
  BY <1>1, <1>2, <1>3, PTL DEF Spec

----------------------------------------------------------------------------
(* What blindness can cost.  The bill since a survey grows by at most what *)
(* MaxLive workers at MaxRate cost, at every moment since, the head of the *)
(* poll that decides included.                                             *)

\* The workers SpentBy counts, and the bill of the workers K by time t.
Counted == {w \in Workers : ledger[w].known \/ pod[w].born >= surveyedAt}

Charge(K, t) == [w \in Workers |-> IF w \in K THEN Bill(w, t) ELSE 0]

Charged(K, t) == SumFunctionOnSet(Charge(K, t), Workers)

Burn == MaxRate * MaxLive

\* All the workers together have cost no more than the rate allows,
SpendInv == \A t \in 0 .. now : Charged(Workers, t) <= Burn * t

\* and the counted ones no more than that since the last good survey.
ExposureInv ==
  phase = "watch" =>
    \A t \in 0 .. now :
      surveyedAt <= t => Charged(Counted, t) <= lastAccrued + Burn * (t - surveyedAt)

\* The moments of the outage, in their order.
OutageInv ==
  /\ polledAt <= now
  /\ surveyedAt <= now
  /\ outageStarted = blindSince
  /\ outageStarted # NoOutage => outageStarted <= polledAt
  /\ phase = "watch" /\ pc \in {"list", "lookup", "survey"} => surveyedAt <= polledAt
  /\ BlindDecision => surveyedAt <= polledAt /\ WorstCase(outageStarted) < Ceiling

\* Bills are natural numbers, and so are their sums.
LEMMA BillType ==
  ASSUME CoreTypeOK, NEW w \in Workers, NEW t \in Nat
  PROVE  Bill(w, t) \in Nat /\ BilledTime(w, t) \in Nat
<1>1. pod[w] \in PodRecord
  BY WorkersFinite DEF CoreTypeOK, ProvTypeOK
<1>2. BilledTime(w, t) \in Nat /\ pod[w].rate \in Nat
  BY <1>1 DEF BilledTime, PodRecord
<1> QED
  BY <1>2 DEF Bill

LEMMA ChargedType ==
  ASSUME CoreTypeOK, NEW K, NEW t \in Nat
  PROVE  Charged(K, t) \in Nat /\ \A w \in Workers : Charge(K, t)[w] \in Nat
<1>1. \A w \in Workers : Charge(K, t)[w] \in Nat
  BY BillType DEF Charge
<1> QED
  BY <1>1, WorkersFinite, SumType DEF Charged

\* A worker's bill grows by its rate while it lives.
LEMMA BillTick ==
  ASSUME CoreTypeOK, MeterInv, NEW w \in Workers
  PROVE  Bill(w, now + 1) <= Bill(w, now) + (IF Live(w) THEN MaxRate ELSE 0)
<1>1. /\ pod[w] \in PodRecord /\ now \in Nat /\ MaxRate \in Nat
      /\ pod[w].st \in Statuses /\ pod[w].born \in Nat /\ pod[w].ended \in Nat /\ pod[w].rate \in Nat
  BY WorkersFinite, ProviderAssumption, MaxRateAssumption DEF CoreTypeOK, ProvTypeOK, PodRecord
<1>2. pod[w].born <= now /\ pod[w].ended <= now /\ pod[w].rate <= MaxRate
  BY DEF MeterInv, MeterOK
<1>3. CASE Live(w)
  <2>1. BilledTime(w, now + 1) = BilledTime(w, now) + 1 /\ BilledTime(w, now) \in Nat
    BY <1>1, <1>2, <1>3 DEF BilledTime, Dead, Live
  <2>2. Bill(w, now + 1) = Bill(w, now) + pod[w].rate /\ Bill(w, now) \in Nat
    <3> DEFINE b == BilledTime(w, now)
    <3>1. Bill(w, now + 1) = pod[w].rate * (b + 1) /\ Bill(w, now) = pod[w].rate * b /\ b \in Nat
      BY <2>1 DEF Bill
    <3> HIDE DEF b
    <3> QED
      BY <1>1, <3>1
  <2> QED
    BY <1>1, <1>2, <1>3, <2>2
<1>4. CASE ~Live(w)
  <2>1. BilledTime(w, now + 1) = BilledTime(w, now)
    BY <1>1, <1>2, <1>4 DEF BilledTime, Dead, Live, Statuses
  <2>2. Bill(w, now + 1) = Bill(w, now) /\ Bill(w, now) \in Nat
    BY <1>1, <2>1, BillType DEF Bill
  <2> QED
    BY <1>4, <2>2
<1> QED
  BY <1>3, <1>4

\* A unit of time costs at most Burn, whichever workers are counted.
LEMMA ChargedTick ==
  ASSUME CoreTypeOK, MeterInv, AliveInv, NEW K
  PROVE  Charged(K, now + 1) <= Charged(K, now) + Burn
<1> DEFINE f == Charge(K, now)
           h == Charge(K, now + 1)
<1>1. now \in Nat /\ now + 1 \in Nat /\ MaxRate \in Nat /\ MaxLive \in Nat
  BY ProviderAssumption, MaxRateAssumption DEF CoreTypeOK, ProvTypeOK
<1>2. LiveWorkers \in SUBSET Workers
  BY DEF LiveWorkers
<1>3. \A w \in Workers : /\ f[w] \in Nat /\ h[w] \in Nat
                         /\ h[w] <= f[w] + (IF w \in LiveWorkers THEN MaxRate ELSE 0)
  <2> TAKE w \in Workers
  <2>1. f[w] \in Nat /\ h[w] \in Nat
    BY <1>1, ChargedType
  <2>2. w \in LiveWorkers <=> Live(w)
    BY DEF LiveWorkers
  <2> QED
    BY <1>1, <2>1, <2>2, BillTick DEF Charge
<1>4. SumFunctionOnSet(h, Workers)
        <= SumFunctionOnSet(f, Workers) + MaxRate * Cardinality(LiveWorkers)
  <2> HIDE DEF f, h
  <2> QED
    BY <1>1, <1>2, <1>3, WorkersFinite, SumBump
<1>5. MaxRate * Cardinality(LiveWorkers) <= Burn /\ Cardinality(LiveWorkers) \in Nat
  <2>1. Cardinality(LiveWorkers) \in Nat
    BY <1>2, WorkersFinite, FS_Subset, FS_CardinalityType
  <2> QED
    BY <1>1, <2>1, ProductMono DEF AliveInv, Burn
<1>6. Charged(K, now) \in Nat /\ Charged(K, now + 1) \in Nat
  BY <1>1, ChargedType
<1>7. MaxRate * Cardinality(LiveWorkers) \in Nat /\ Burn \in Nat
  BY <1>1, <1>5 DEF Burn
<1> QED
  BY <1>4, <1>5, <1>6, <1>7 DEF Charged

\* Past charges stand.
LEMMA ChargedKept ==
  ASSUME CoreTypeOK, BillStep, NEW K, NEW L, NEW t \in 0 .. now,
         \A w \in Workers : (w \in L <=> w \in K) \/ Bill(w, t) = 0
  PROVE  SumFunctionOnSet([w \in Workers |-> IF w \in L THEN Bill(w, t)' ELSE 0], Workers)
           = Charged(K, t)
<1> DEFINE h == [w \in Workers |-> IF w \in L THEN Bill(w, t)' ELSE 0]
<1>1. \A w \in Workers : Bill(w, t)' = Bill(w, t)
  BY DEF BillStep, BillKept
<1>2. \A w \in Workers : h[w] = Charge(K, t)[w]
  BY <1>1 DEF Charge
<1> HIDE DEF h
<1>3. SumFunctionOnSet(h, Workers) = SumFunctionOnSet(Charge(K, t), Workers)
  BY <1>2, WorkersFinite, SumSame
<1> QED
  BY <1>3 DEF h, Charged

\* Every step keeps the bound on all the workers' bills.
LEMMA SpendKept ==
  ASSUME CoreTypeOK, CoreTypeOK', MeterInv, AliveInv, SpendInv, BillStep
  PROVE  SpendInv'
<1>0. now \in Nat /\ now' \in Nat /\ Burn \in Nat
  BY ProviderAssumption, MaxRateAssumption DEF CoreTypeOK, ProvTypeOK, Burn
<1> SUFFICES ASSUME NEW t \in 0 .. now'
             PROVE  Charged(Workers, t)' <= Burn * t
  BY DEF SpendInv, Burn
<1>1. CASE t <= now
  <2>1. Charged(Workers, t)' = Charged(Workers, t)
    BY <1>0, <1>1, ChargedKept DEF Charged, Charge
  <2> QED
    BY <1>0, <1>1, <2>1 DEF SpendInv
<1>2. CASE ~(t <= now)
  <2>1. t = now + 1 /\ UNCHANGED pod
    BY <1>0, <1>2 DEF BillStep
  <2>2. Charged(Workers, t)' = Charged(Workers, t)
    BY <2>1 DEF Charged, Charge, Bill, BilledTime, Dead
  <2>3. Charged(Workers, t) <= Charged(Workers, now) + Burn
    BY <2>1, ChargedTick
  <2>4. Charged(Workers, now) <= Burn * now
    BY <1>0 DEF SpendInv
  <2>5. Charged(Workers, now) \in Nat /\ Charged(Workers, t) \in Nat
    BY <1>0, ChargedType
  <2>6. Burn * t = Burn * now + Burn /\ Burn * now \in Nat
    BY <1>0, <2>1
  <2> QED
    BY <1>0, <2>2, <2>3, <2>4, <2>5, <2>6
<1> QED
  BY <1>1, <1>2

\* A step that surveys nothing, and leaves the outage's books alone.
LEMMA ExposureKept ==
  ASSUME TypeOK, TypeOK', MeterInv, AliveInv, ExposureInv, BillStep, surveyedAt <= now,
         UNCHANGED <<lastAccrued, surveyedAt>>,
         phase' = "watch" => phase = "watch",
         phase' = "watch" => \A w \in Workers : ledger'[w].known = ledger[w].known
  PROVE  ExposureInv'
<1>0. now \in Nat /\ now' \in Nat /\ Burn \in Nat /\ surveyedAt \in Nat /\ lastAccrued \in Nat
      /\ CoreTypeOK
  BY ProviderAssumption, MaxRateAssumption DEF TypeOK, CoreTypeOK, ProvTypeOK, Burn
<1> SUFFICES ASSUME phase' = "watch", NEW t \in 0 .. now', surveyedAt <= t
             PROVE  Charged(Counted, t)' <= lastAccrued + Burn * (t - surveyedAt)
  BY DEF ExposureInv, Burn
<1>1. phase = "watch" /\ \A w \in Workers : ledger'[w].known = ledger[w].known
  OBVIOUS
<1>2. CASE t <= now
  <2>1. ASSUME NEW w \in Workers
        PROVE  (w \in Counted' <=> w \in Counted) \/ Bill(w, t) = 0
    <3>1. CASE pod'[w].born = pod[w].born
      BY <1>1, <3>1 DEF Counted
    <3>2. CASE pod[w].st = "absent"
      <4>1. pod[w].rate \in Nat /\ BilledTime(w, t) = 0
        BY <1>0, <3>2, WorkersFinite DEF BilledTime, CoreTypeOK, ProvTypeOK, PodRecord
      <4> QED
        BY <4>1 DEF Bill
    <3> QED
      BY <3>1, <3>2 DEF BillStep, BillKept
  <2>2. SumFunctionOnSet([w \in Workers |-> IF w \in Counted' THEN Bill(w, t)' ELSE 0], Workers)
          = Charged(Counted, t)
    <3> DEFINE K == Counted
               L == Counted'
    <3>1. t \in 0 .. now /\ CoreTypeOK
      BY <1>0, <1>2
    <3>2. \A w \in Workers : (w \in L <=> w \in K) \/ Bill(w, t) = 0
      BY <2>1
    <3> HIDE DEF K, L
    <3>3. SumFunctionOnSet([w \in Workers |-> IF w \in L THEN Bill(w, t)' ELSE 0], Workers)
            = Charged(K, t)
      BY <3>1, <3>2, ChargedKept
    <3> QED
      BY <3>3 DEF K, L
  <2>3. Charged(Counted, t)' = Charged(Counted, t)
    BY <2>2 DEF Charged, Charge
  <2> QED
    BY <1>0, <1>1, <1>2, <2>3 DEF ExposureInv
<1>3. CASE ~(t <= now)
  <2>1. t = now + 1 /\ UNCHANGED pod
    BY <1>0, <1>3 DEF BillStep
  <2>2. Charged(Counted, t)' = Charged(Counted, t)
    <3>1. Counted' = Counted
      BY <1>1, <2>1 DEF Counted
    <3> QED
      BY <2>1, <3>1 DEF Charged, Charge, Bill, BilledTime, Dead
  <2>3. Charged(Counted, t) <= Charged(Counted, now) + Burn
    BY <1>0, <2>1, ChargedTick
  <2>4. Charged(Counted, now) <= lastAccrued + Burn * (now - surveyedAt)
    BY <1>0, <1>1 DEF ExposureInv
  <2>5. Charged(Counted, now) \in Nat /\ Charged(Counted, t) \in Nat
    BY <1>0, ChargedType
  <2>6. Burn * (t - surveyedAt) = Burn * (now - surveyedAt) + Burn
        /\ Burn * (now - surveyedAt) \in Nat
    <3> DEFINE d == now - surveyedAt
    <3>1. d \in Nat /\ t - surveyedAt = d + 1
      BY <1>0, <2>1
    <3> HIDE DEF d
    <3>2. Burn * (d + 1) = Burn * d + Burn /\ Burn * d \in Nat
      BY <1>0, <3>1
    <3> QED
      BY <3>1, <3>2 DEF d
  <2> QED
    BY <1>0, <2>2, <2>3, <2>4, <2>5, <2>6
<1> QED
  BY <1>2, <1>3

\* The total of a survey covers the bill at its time: an unknown worker is not older.
LEMMA SurveyCovers ==
  CoreTypeOK /\ MeterInv /\ surveyedAt = now
    => Charged(Counted, now) <= LedgerCost(ledger, now) /\ Charged(Counted, now) \in Nat
<1> SUFFICES ASSUME CoreTypeOK, MeterInv, surveyedAt = now
             PROVE  /\ Charged(Counted, now) <= LedgerCost(ledger, now)
                    /\ Charged(Counted, now) \in Nat
  OBVIOUS
<1> DEFINE e == [p \in Pods |-> EntryCost(ledger[p], now)]
           f == Charge(Counted, now)
<1>0. now \in Nat /\ Workers \subseteq Pods /\ IsFiniteSet(Pods) /\ IsFiniteSet(Workers)
      /\ ledger \in [Pods -> LedgerEntry] /\ pod \in [Pods -> PodRecord]
  BY ProviderAssumption, WorkersFinite, FS_AddElement DEF Pods, CoreTypeOK, ProvTypeOK
<1>1. \A p \in Pods : e[p] \in Nat
  <2> TAKE p \in Pods
  <2>1. ledger[p] \in LedgerEntry
    BY <1>0
  <2> QED
    BY <1>0, <2>1, EntryCostGrows DEF LedgerEntry
<1>2. \A w \in Workers : f[w] \in Nat /\ f[w] <= e[w]
  <2> TAKE w \in Workers
  <2>1. Bill(w, now) \in Nat /\ e[w] \in Nat /\ w \in Pods
    BY <1>0, <1>1, BillType
  <2>2. CASE ledger[w].known
    BY <2>1, <2>2, MeterSuffices DEF NeverUnderBooked, Charge
  <2>3. CASE ~ledger[w].known
    <3>1. w \in Counted => Bill(w, now) = 0
      <4>1. pod[w].born \in Nat /\ pod[w].rate \in Nat /\ pod[w].ended \in Nat
        BY <1>0, <2>1 DEF PodRecord
      <4>2. w \in Counted => BilledTime(w, now) = 0
        BY <1>0, <2>3, <4>1 DEF Counted, BilledTime
      <4> QED
        BY <4>1, <4>2 DEF Bill
    <3> QED
      BY <2>1, <3>1 DEF Charge
  <2> QED
    BY <2>2, <2>3
<1>3. LedgerCost(ledger, now) = SumFunctionOnSet(e, Pods)
  BY <1>0 DEF LedgerCost, SumFunction
<1> HIDE DEF e, f
<1>4. SumFunctionOnSet(f, Workers) <= SumFunctionOnSet(e, Workers)
  BY <1>0, <1>1, <1>2, SumMono
<1>5. SumFunctionOnSet(e, Workers) <= SumFunctionOnSet(e, Pods)
  BY <1>0, <1>1, SumSubset
<1>6. /\ SumFunctionOnSet(f, Workers) \in Nat /\ SumFunctionOnSet(e, Workers) \in Nat
      /\ SumFunctionOnSet(e, Pods) \in Nat
  BY <1>0, <1>1, <1>2, SumType
<1> QED
  BY <1>3, <1>4, <1>5, <1>6 DEF f, Charged

\* Before the first good survey every worker counts.
LEMMA FreshExposure ==
  TypeOK /\ SpendInv /\ surveyedAt = Epoch /\ lastAccrued = 0 => ExposureInv
<1> SUFFICES ASSUME TypeOK, SpendInv, surveyedAt = Epoch, lastAccrued = 0
             PROVE  ExposureInv
  OBVIOUS
<1>1. Counted = Workers
  <2>1. \A w \in Workers : pod[w].born \in Nat
    BY WorkersFinite DEF TypeOK, CoreTypeOK, ProvTypeOK, PodRecord
  <2> QED
    BY <2>1 DEF Counted, Epoch
<1>2. Burn \in Nat /\ now \in Nat /\ CoreTypeOK
  BY ProviderAssumption, MaxRateAssumption DEF TypeOK, CoreTypeOK, ProvTypeOK, Burn
<1> SUFFICES ASSUME NEW t \in 0 .. now
             PROVE  Charged(Counted, t) <= lastAccrued + Burn * (t - surveyedAt)
  BY DEF ExposureInv
<1>3. Charged(Counted, t) <= Burn * t
  BY <1>1, <1>2 DEF SpendInv
<1>4. t - surveyedAt = t /\ Burn * t \in Nat
  BY <1>2 DEF Epoch
<1> QED
  BY <1>3, <1>4

\* What a quiet step leaves alone while the watch lasts.
LEMMA QuietFrame ==
  ASSUME CoreTypeOK, LabelInv, PollsInWatch, QuietStep, phase' = "watch"
  PROVE  /\ phase = "watch"
         /\ \A w \in Workers : ledger'[w].known = ledger[w].known
         /\ pc' \in {"list", "lookup", "survey"} => pc \in {"list", "lookup", "survey"}
         /\ pc' = "sleep" => pc = "sleep"
<1> USE DEF fileVars
<1>1. CASE World /\ UNCHANGED <<memVars, exitCode, fileVars, crashes>>
  BY <1>1 DEF memVars
<1>2. CASE ListPods
  BY <1>2 DEF ListPods
<1>3. ASSUME NEW p \in Workers, LookUp(p)
      PROVE  /\ phase = "watch" /\ pc = "lookup" /\ pc' \in {"lookup", "survey"}
             /\ \A w \in Workers : ledger'[w].known = ledger[w].known
  <2>1. \/ ledger' = ledger
        \/ ledger' = [ledger EXCEPT ![p] = Closed(@, now)]
    BY <1>3 DEF LookUp
  <2>2. \A w \in Workers : ledger[w] \in LedgerEntry /\ w \in Pods
    BY WorkersFinite DEF CoreTypeOK
  <2>3. Closed(ledger[p], now).known = ledger[p].known
    BY <2>2 DEF Closed, LedgerEntry
  <2>4. \A w \in Workers : ledger'[w].known = ledger[w].known
    BY <2>1, <2>2, <2>3 DEF CoreTypeOK
  <2> QED
    BY <1>3, <2>4 DEF LookUp
<1>4. ~Closeout
  <2>1. ~Delete /\ ~TryAgain
    BY DEF Delete, TryAgain, LabelInv
  <2>2. ~Verified /\ ~GiveUp
    <3>1. DeleteReturns => phase' \in {phase, "sweep"}
      BY DEF DeleteReturns
    <3> QED
      BY <3>1 DEF Verified, GiveUp, LabelInv
  <2>3. ~SweepReadFails /\ ~SweepSurveyFails /\ ~SweepSurvey /\ ~WakeToSweep
    BY DEF SweepReadFails, SweepSurveyFails, SweepSurvey, WakeToSweep
  <2> QED
    BY <2>1, <2>2, <2>3 DEF Closeout
<1>5. CASE WakeToPoll \/ RequestStandDown \/ Arm
  BY <1>5 DEF WakeToPoll, RequestStandDown, Arm, memVars
<1>6. ~WakeToStop
  BY DEF WakeToStop
<1>7. ~StopLocal
  BY DEF StopLocal, SendTerm, Joined, SendKill, KillUnverified, WakeToTerm, PollsInWatch
<1>8. CASE LocalEnds \/ UNCHANGED coreVars
  BY <1>8 DEF LocalEnds, memVars, coreVars
<1> QED
  BY <1>1, <1>2, <1>3, <1>4, <1>5, <1>6, <1>7, <1>8 DEF QuietStep

\* What every step does to the workers and the clock.
LEMMA NextBill ==
  ASSUME CoreTypeOK, CoreTypeOK', MeterInv, AliveInv, [Next]_vars
  PROVE  BillStep
<1>1. CASE SharedStep
  BY <1>1, SharedBills DEF SharedStep
<1>2. CASE OwnWatch \/ UNCHANGED coreVars
  <2>1. UNCHANGED <<now, pod>>
    BY <1>2, OwnWatchFacts DEF coreVars
  <2> QED
    BY <2>1, BillFrame
<1>3. CASE LocalEnds \/ StopLocal
  <2>1. now' = now /\ (UNCHANGED pod \/ pod' = [pod EXCEPT ![Control] = Becomes(Control, "gone")])
    BY <1>3 DEF StopLocal, SendTerm, Joined, SendKill, KillUnverified, WakeToTerm, LocalEnds,
                LocalExits, provVars
  <2>2. \A w \in Workers : pod'[w] = pod[w]
    BY <2>1, ProviderAssumption DEF CoreTypeOK, ProvTypeOK, Pods
  <2> QED
    BY <2>1, <2>2, BillFrame
<1> QED
  BY <1>1, <1>2, <1>3, StepCases

\* The step of the watch and the moments of the outage.
LEMMA OwnWatchOrder ==
  ASSUME TypeOK, PollsInWatch, OutageInv, OwnWatch
  PROVE  OutageInv'
<1>0. /\ now \in Nat /\ polledAt \in Nat /\ surveyedAt \in Nat /\ lastAccrued \in Nat
      /\ outageStarted \in Nat \cup {NoOutage} /\ MaxRate \in Nat /\ Ceiling \in Nat
  BY ProviderAssumption, MaxRateAssumption, CoreAssumption DEF TypeOK, CoreTypeOK, ProvTypeOK
<1>1. now' = now
  BY OwnWatchFacts
<1>2. CASE StandDownSeen \/ DeadlineReached
  <2>1. phase' = "stop"
    BY <1>2, BeginCloseoutFacts DEF StandDownSeen, DeadlineReached
  <2>2. polledAt' = now /\ UNCHANGED <<lastAccrued, outageStarted, surveyedAt, blindSince>>
    BY <1>2 DEF StandDownSeen, DeadlineReached
  <2> QED
    BY <1>0, <1>1, <2>1, <2>2 DEF OutageInv, BlindDecision, NoOutage
<1>3. CASE BeginPoll
  <2>1. /\ polledAt' = now /\ UNCHANGED <<lastAccrued, outageStarted, surveyedAt, blindSince>>
        /\ pc' = "list"
    BY <1>3 DEF BeginPoll
  <2> QED
    BY <1>0, <1>1, <2>1 DEF OutageInv, BlindDecision, NoOutage
<1>4. CASE WatchReadFails \/ WatchSurveyFails
  <2> DEFINE started == IF outageStarted = NoOutage THEN polledAt ELSE outageStarted
  <2>1. MarkOutage /\ StaysBlind /\ phase = "watch" /\ pc \in {"list", "lookup", "survey"}
    BY <1>4 DEF WatchReadFails, ReadFails, WatchSurveyFails, SurveyFails
  <2>2. /\ outageStarted' = started /\ UNCHANGED <<polledAt, lastAccrued>>
        /\ \/ phase' = "stop"
           \/ pc' = "sleep" /\ ~(WorstCase(started) >= Ceiling)
    BY <2>1, BeginCloseoutFacts DEF MarkOutage, SleepInterval
  <2>3. blindSince' = started /\ surveyedAt' = surveyedAt
    BY <2>1 DEF StaysBlind, OutageInv
  <2>4. started <= polledAt /\ started \in Nat /\ surveyedAt <= polledAt
    BY <1>0, <2>1 DEF OutageInv, NoOutage
  <2>5. WorstCase(started) \in Nat
    <3>1. Greatest(0, polledAt - started) \in Nat
      BY <1>0, <2>4 DEF Greatest
    <3>2. MaxRate * Greatest(0, polledAt - started) \in Nat
      BY <1>0, <3>1
    <3> QED
      BY <1>0, <3>2 DEF WorstCase
  <2> HIDE DEF started
  <2>6. WorstCase(outageStarted)' = WorstCase(started)
    BY <2>2 DEF WorstCase
  <2>7. BlindDecision' => WorstCase(started) < Ceiling
    BY <1>0, <2>2, <2>5 DEF BlindDecision
  <2>8. /\ polledAt' <= now' /\ surveyedAt' <= now' /\ outageStarted' = blindSince'
        /\ outageStarted' <= polledAt' /\ surveyedAt' <= polledAt'
    BY <1>0, <1>1, <2>2, <2>3, <2>4 DEF OutageInv
  <2> QED
    BY <2>6, <2>7, <2>8 DEF OutageInv
<1>5. CASE WatchSurvey
  <2>1. /\ outageStarted' = NoOutage /\ blindSince' = NoOutage /\ surveyedAt' = now
        /\ polledAt' = polledAt
    BY <1>5 DEF WatchSurvey
  <2>2. pc' \notin {"list", "lookup", "survey"}
    BY <1>5, BeginCloseoutFacts DEF WatchSurvey, SleepInterval
  <2> QED
    BY <1>0, <1>1, <2>1, <2>2 DEF OutageInv, BlindDecision
<1> QED
  BY <1>2, <1>3, <1>4, <1>5 DEF OwnWatch

\* Every step keeps the order of the moments.
LEMMA NextOrder ==
  ASSUME TypeOK, TypeOK', PollsInWatch, LabelInv, OutageInv, BillStep, [Next]_vars
  PROVE  OutageInv'
<1>0. now \in Nat /\ CoreTypeOK /\ polledAt \in Nat /\ surveyedAt \in Nat
  BY ProviderAssumption DEF TypeOK, CoreTypeOK, ProvTypeOK
<1>1. CASE OwnWatch
  BY <1>1, OwnWatchOrder
<1>2. CASE CampaignCrash
  <2>1. pc' = "crashed" /\ now' = now
    BY <1>2 DEF CampaignCrash, Crash, provVars
  <2> QED
    BY <1>0, <1>2, <2>1 DEF CampaignCrash, OutageInv, BlindDecision, Epoch
<1>3. CASE UNCHANGED outageVars /\ QuietStep
  <2>1. UNCHANGED <<polledAt, lastAccrued, outageStarted, surveyedAt, blindSince>>
    BY <1>3 DEF outageVars
  <2>2. polledAt <= now' /\ surveyedAt <= now'
    BY <1>0 DEF BillStep, OutageInv
  <2>3. WorstCase(outageStarted)' = WorstCase(outageStarted)
    BY <2>1 DEF WorstCase
  <2> QED
    BY <1>0, <1>3, <2>1, <2>2, <2>3, QuietFrame DEF OutageInv, BlindDecision
<1> QED
  BY <1>1, <1>2, <1>3, OutageSteps

\* Every step keeps the bound on the exposure.
LEMMA NextExposure ==
  ASSUME TypeOK, TypeOK', MeterInv, MeterInv', AliveInv, SpendInv, SpendInv', ExposureInv,
         OutageInv, PollsInWatch, LabelInv, BillStep, [Next]_vars
  PROVE  ExposureInv'
<1>0. CoreTypeOK /\ CoreTypeOK' /\ now \in Nat
  BY ProviderAssumption DEF TypeOK, CoreTypeOK, ProvTypeOK
<1>1. CASE OwnWatch /\ ~WatchSurvey
  <2>1. phase = "watch" /\ UNCHANGED <<ledger, lastAccrued, surveyedAt>>
    BY <1>1 DEF OwnWatch, StandDownSeen, DeadlineReached, BeginPoll, WatchReadFails,
                WatchSurveyFails, MarkOutage, StaysBlind, PollsInWatch, fileVars
  <2> QED
    BY <2>1, ExposureKept DEF OutageInv
<1>2. CASE WatchSurvey
  <2>1. /\ lastAccrued' = LedgerCost(ledger', now) /\ surveyedAt' = now /\ now' = now
    BY <1>2 DEF WatchSurvey, provVars
  <2>2. (CoreTypeOK /\ MeterInv /\ surveyedAt = now
           => Charged(Counted, now) <= LedgerCost(ledger, now) /\ Charged(Counted, now) \in Nat)'
    BY SurveyCovers, PTL
  <2>3. Charged(Counted, now)' <= lastAccrued' /\ Charged(Counted, now)' \in Nat
    BY <1>0, <2>1, <2>2
  <2>4. ASSUME NEW t \in 0 .. now', surveyedAt' <= t
        PROVE  Charged(Counted, t)' <= lastAccrued' + Burn * (t - surveyedAt')
    <3>1. t = now'
      BY <1>0, <2>1, <2>4
    <3>2. Burn * (t - surveyedAt') = 0
      <4>1. t - surveyedAt' = 0 /\ Burn \in Nat
        BY <1>0, <2>1, <3>1, ProviderAssumption, MaxRateAssumption DEF Burn
      <4> QED
        BY <4>1
    <3>3. Charged(Counted, t)' = Charged(Counted, now)'
      BY <3>1 DEF Charged, Charge, Bill, BilledTime
    <3>4. lastAccrued' \in Nat
      BY DEF TypeOK
    <3> QED
      BY <2>3, <3>2, <3>3, <3>4
  <2> QED
    BY <2>4 DEF ExposureInv, Burn
<1>3. CASE CampaignCrash
  <2>1. surveyedAt' = Epoch /\ lastAccrued' = 0
    BY <1>3 DEF CampaignCrash
  <2>2. (TypeOK /\ SpendInv /\ surveyedAt = Epoch /\ lastAccrued = 0 => ExposureInv)'
    BY FreshExposure, PTL
  <2> QED
    BY <2>1, <2>2 DEF Epoch
<1>4. CASE UNCHANGED outageVars /\ QuietStep
  <2>1. UNCHANGED <<lastAccrued, surveyedAt>>
    BY <1>4 DEF outageVars
  <2> QED
    BY <1>0, <1>4, <2>1, QuietFrame, ExposureKept DEF OutageInv
<1> QED
  BY <1>1, <1>2, <1>3, <1>4, OutageSteps

\* At a blind decision mark_outage has just bounded the last total and the outage.
LEMMA ExposureSuffices ==
  ASSUME TypeOK, OutageInv, ExposureInv
  PROVE  BlindExposureBounded
<1> SUFFICES ASSUME BlindDecision
             PROVE  SpentBy(polledAt)
                      < Ceiling + MaxRate * (MaxLive * (polledAt - surveyedAt)
                                             - (polledAt - blindSince))
  BY DEF BlindExposureBounded
<1> DEFINE x == polledAt - surveyedAt
           y == polledAt - blindSince
           c == Charged(Counted, polledAt)
<1>0. /\ CoreTypeOK /\ now \in Nat /\ polledAt \in Nat /\ surveyedAt \in Nat /\ lastAccrued \in Nat
      /\ blindSince \in Nat \cup {NoOutage} /\ MaxRate \in Nat /\ MaxLive \in Nat /\ Ceiling \in Nat
  BY ProviderAssumption, MaxRateAssumption, CoreAssumption DEF TypeOK, CoreTypeOK, ProvTypeOK
<1>1. x \in Nat /\ y \in Nat
  BY <1>0 DEF BlindDecision, OutageInv, NoOutage
<1>2. lastAccrued + MaxRate * y < Ceiling
  <2>1. WorstCase(blindSince) < Ceiling /\ Greatest(0, y) = y
    BY <1>1 DEF OutageInv, Greatest
  <2> QED
    BY <2>1 DEF WorstCase
<1>3. c <= lastAccrued + Burn * x
  <2>1. phase = "watch" /\ surveyedAt <= polledAt /\ polledAt \in 0 .. now
    BY <1>0 DEF BlindDecision, OutageInv
  <2> QED
    BY <2>1 DEF ExposureInv
<1>4. SpentBy(polledAt) = c /\ c \in Nat
  <2> DEFINE f == [w \in Workers |-> Bill(w, polledAt)]
             h == Charge(Counted, polledAt)
  <2>1. Counted \in SUBSET Workers
    BY DEF Counted
  <2>2. \A w \in Workers : h[w] \in Nat /\ h[w] = IF w \in Counted THEN f[w] ELSE 0
    <3>1. \A w \in Workers : h[w] \in Nat
      BY <1>0, ChargedType
    <3> QED
      BY <3>1 DEF Charge
  <2>3. c \in Nat
    BY <1>0, ChargedType
  <2> HIDE DEF f, h
  <2>4. SumFunctionOnSet(f, Counted) = SumFunctionOnSet(h, Workers)
    BY <2>1, <2>2, WorkersFinite, SumRestrict
  <2> QED
    BY <2>3, <2>4 DEF SpentBy, Counted, Charged, f, h
<1>5. Burn * x = MaxRate * (MaxLive * x) /\ MaxLive * x \in Nat
  <2> HIDE DEF x
  <2> QED
    BY <1>0, <1>1 DEF Burn
<1>6. MaxRate * (MaxLive * x - y) = MaxRate * (MaxLive * x) - MaxRate * y
      /\ MaxRate * (MaxLive * x) \in Nat /\ MaxRate * y \in Nat
  <2> DEFINE z == MaxLive * x
  <2>1. z \in Nat
    BY <1>5
  <2> HIDE DEF x, y, z
  <2>2. MaxRate * (z - y) = MaxRate * z - MaxRate * y /\ MaxRate * z \in Nat /\ MaxRate * y \in Nat
    BY <1>0, <1>1, <2>1
  <2> QED
    BY <2>2 DEF z
<1>7. c < Ceiling + MaxRate * (MaxLive * x - y)
  <2> HIDE DEF x, y, c
  <2> QED
    BY <1>0, <1>2, <1>3, <1>4, <1>5, <1>6
<1> QED
  BY <1>4, <1>7

\* However many workers, whatever their rates, and however long it cannot read the
\* provider: the watch goes on blind only while the bill is below the ceiling plus what
\* the gateway's limit of workers can burn since the last good survey, less the outage's
\* own charge.
THEOREM CampaignExposureCorrect == Spec => []BlindExposureBounded
<1> DEFINE IInv == /\ TypeOK /\ CountOK /\ MeterInv /\ PollsInWatch /\ LabelInv /\ BreachInv
                   /\ AliveInv /\ SpendInv /\ OutageInv /\ ExposureInv
<1>1. Init => IInv
  <2> SUFFICES ASSUME Init PROVE IInv
    OBVIOUS
  <2>1. TypeOK /\ CountOK /\ MeterInv /\ PollsInWatch /\ LabelInv /\ BreachInv /\ AliveInv
    BY InitOutageType, InitMeter, InitBarrier, InitLabel, InitAlive DEF Init
  <2>2. OutageInv
    BY DEF Init, CoreInit, ProvInit, MemInit, OutageInv, BlindDecision, Epoch
  <2>3. SpendInv
    <3> SUFFICES ASSUME NEW t \in 0 .. now
                 PROVE  Charged(Workers, t) <= Burn * t
      BY DEF SpendInv
    <3>1. t = 0 /\ Burn * t = 0
      <4>1. t = 0 /\ Burn \in Nat
        BY ProviderAssumption, MaxRateAssumption DEF Init, CoreInit, ProvInit, Burn
      <4> QED
        BY <4>1
    <3>2. \A w \in Workers : Charge(Workers, t)[w] = 0
      BY WorkersFinite DEF Charge, Bill, BilledTime, Init, CoreInit, ProvInit
    <3> DEFINE f == Charge(Workers, t)
               none == [w \in Workers |-> 0]
    <3>3. SumFunctionOnSet(none, {}) = SumFunctionOnSet(f, Workers)
      <4>1. \A w \in Workers : f[w] \in Nat /\ f[w] = IF w \in {} THEN none[w] ELSE 0
        BY <3>2
      <4> HIDE DEF f, none
      <4> QED
        BY <4>1, WorkersFinite, SumRestrict
    <3> HIDE DEF none
    <3>4. SumFunctionOnSet(none, {}) = 0
      BY SumEmpty
    <3> QED
      BY <3>1, <3>3, <3>4 DEF Charged
  <2>4. ExposureInv
    BY <2>1, <2>3, FreshExposure DEF Init
  <2> QED
    BY <2>1, <2>2, <2>3, <2>4
<1>2. IInv /\ [Next]_vars => IInv'
  <2> SUFFICES ASSUME IInv, [Next]_vars PROVE IInv'
    OBVIOUS
  <2>1. CoreTypeOK /\ CoreTypeOK' /\ CountOK' /\ TypeOK' /\ MeterInv' /\ PollsInWatch'
    BY NextType, NextOutageType, NextMeter, NextPolls DEF TypeOK
  <2>2. LabelInv' /\ BreachInv'
    BY NextLabel
  <2>3. BillStep
    BY <2>1, NextBill
  <2>4. AliveInv'
    BY <2>3 DEF BillStep
  <2>5. SpendInv'
    BY <2>1, <2>3, SpendKept
  <2>6. OutageInv'
    BY <2>1, <2>3, NextOrder
  <2>7. ExposureInv'
    BY <2>1, <2>3, <2>5, NextExposure
  <2> QED
    BY <2>1, <2>2, <2>4, <2>5, <2>6, <2>7
<1>3. IInv => BlindExposureBounded
  BY ExposureSuffices
<1> QED
  BY <1>1, <1>2, <1>3, PTL DEF Spec
=============================================================================
