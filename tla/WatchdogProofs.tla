--------------------------- MODULE WatchdogProofs ---------------------------
(***************************************************************************)
(* Lemmas about the steps both watchdogs share: each keeps the types, the  *)
(* meter, the barrier and what an exit rests on, lets the ledger's total   *)
(* and the bill only grow, and is a step of CloseoutContract or none.      *)
(***************************************************************************)
EXTENDS WatchdogCore, SumTheorems

\* The third clean read is followed by nothing but the last sleep and the exit:
\* without this the count of clean reads has no bound.
CountOK ==
  cleanReads = CleanReads => pc \in {"sleep", "exited"} /\ phase = "sweep"

\* The operators of the ledger stay within its entries.
LEMMA ClosedType ==
  ASSUME NEW e \in LedgerEntry, NEW t \in Nat
  PROVE  Closed(e, t) \in LedgerEntry
BY DEF LedgerEntry, Closed, Least

\* So does what a survey writes for one pod,
LEMMA ObservedType ==
  ASSUME NEW e \in LedgerEntry, NEW born \in Nat, NEW rate \in Nat, NEW t \in Nat,
         NEW blank, NEW terminal
  PROVE  Observed(e, born, rate, blank, terminal, t) \in LedgerEntry
<1> DEFINE c == ReadCreated(e, born, blank)
           r == ReadRate(rate, blank)
           next == [known      |-> TRUE,
                    created    |-> IF e.known THEN Least(e.created, c) ELSE c,
                    rate       |-> IF e.known THEN Greatest(e.rate, r) ELSE r,
                    terminalAt |-> e.terminalAt]
<1>1. c \in Nat
  BY DEF LedgerEntry, ReadCreated, Epoch
<1>2. r \in Nat
  BY MaxRateAssumption DEF ReadRate
<1>3. next \in LedgerEntry
  BY <1>1, <1>2 DEF LedgerEntry, Least, Greatest
<1>4. Closed(next, t) \in LedgerEntry
  BY <1>3, ClosedType
<1> QED
  BY <1>3, <1>4 DEF Observed

\* and for all of them.
LEMMA SurveyedType ==
  ASSUME CoreTypeOK, NEW blank \in SUBSET Unreadable
  PROVE  Surveyed(blank) \in [Pods -> LedgerEntry]
<1>1. ASSUME NEW p \in Pods
      PROVE  Surveyed(blank)[p] \in LedgerEntry
  <2>1. ledger[p] \in LedgerEntry /\ pod[p].born \in Nat /\ pod[p].rate \in Nat /\ now \in Nat
    BY ProviderAssumption DEF CoreTypeOK, ProvTypeOK, PodRecord
  <2>2. Observed(ledger[p], pod[p].born, pod[p].rate, p \in blank,
                 listing[p] = "TERMINATED", now) \in LedgerEntry
    BY <2>1, ObservedType
  <2> QED
    BY <2>1, <2>2 DEF Surveyed
<1> QED
  BY <1>1 DEF Surveyed

\* A pod that changes its status is still a pod.
LEMMA BecomesType ==
  ASSUME CoreTypeOK, NEW p \in Pods, NEW s \in Statuses
  PROVE  Becomes(p, s) \in PodRecord
<1>1. pod[p] \in PodRecord /\ now \in Nat
  BY ProviderAssumption DEF CoreTypeOK, ProvTypeOK
<1> QED
  BY <1>1 DEF PodRecord, Becomes, Live

\* A DELETE leaves pods.
LEMMA DeleteLandsType ==
  ASSUME CoreTypeOK, NEW p \in Pods, DeleteLands(p)
  PROVE  pod' \in [Pods -> PodRecord]
<1>1. Becomes(p, "EXITED") \in PodRecord /\ Becomes(p, "TERMINATED") \in PodRecord
  BY BecomesType DEF Statuses
<1>2. pod \in [Pods -> PodRecord]
  BY DEF CoreTypeOK, ProvTypeOK
<1> QED
  BY <1>1, <1>2 DEF DeleteLands

\* The provider, the gateway and the clock.
LEMMA WorldType ==
  ASSUME CoreTypeOK, World, UNCHANGED <<memVars, exitCode, fileVars, crashes>>
  PROVE  CoreTypeOK'
<1>1. ProvTypeOK'
  <2>0. pod \in [Pods -> PodRecord] /\ now \in 0 .. MaxTime /\ now \in Nat /\ Workers \subseteq Pods
    BY ProviderAssumption DEF CoreTypeOK, ProvTypeOK, Pods
  <2>1. ASSUME NEW w \in Workers, CreatePod(w)
        PROVE  ProvTypeOK'
    <3>1. PICK r \in Rates, seen \in BOOLEAN :
             pod' = [pod EXCEPT ![w] = [st |-> "RUNNING", born |-> now, ended |-> 0,
                                        rate |-> r, listed |-> seen]]
      BY <2>1 DEF CreatePod, Born
    <3>2. r \in Nat
      BY ProviderAssumption
    <3> QED
      BY <2>0, <2>1, <3>1, <3>2 DEF CreatePod, Born, ProvTypeOK, PodRecord, Statuses
  <2>2. ASSUME NEW w \in Workers, AppearInListing(w)
        PROVE  ProvTypeOK'
    BY <2>0, <2>2 DEF AppearInListing, ProvTypeOK, PodRecord
  <2>3. ASSUME NEW w \in Workers, Reclaim(w)
        PROVE  ProvTypeOK'
    <3>1. PICK s \in Statuses : pod' = [pod EXCEPT ![w] = Becomes(w, s)]
      BY <2>3 DEF Reclaim, Statuses
    <3>2. Becomes(w, s) \in PodRecord
      BY <2>0, BecomesType
    <3> QED
      BY <2>0, <2>3, <3>1, <3>2 DEF Reclaim, ProvTypeOK
  <2>4. CASE Tick
    BY <2>0, <2>4, ProviderAssumption DEF Tick, ProvTypeOK
  <2> QED
    BY <2>1, <2>2, <2>3, <2>4 DEF World
<1> QED
  BY <1>1 DEF CoreTypeOK, memVars, fileVars

\* Reads of the provider.
LEMMA ReadsType ==
  ASSUME CoreTypeOK
  PROVE  /\ ListPods => CoreTypeOK'
         /\ \A p \in Workers : LookUp(p) => CoreTypeOK'
<1> USE DEF provVars, fileVars
<1>1. ASSUME ListPods PROVE CoreTypeOK'
  <2>1. PICK omitted \in SUBSET Omittable :
           /\ listing' = Listing(omitted)
           /\ missing' = {p \in Pods : ledger[p].known /\ ledger[p].terminalAt = Open
                                       /\ Listing(omitted)[p] = "absent"}
    BY <1>1 DEF ListPods
  <2>2. Listing(omitted) \in [Pods -> Statuses]
    BY DEF Listing, CoreTypeOK, ProvTypeOK, PodRecord, Statuses
  <2> QED
    BY <1>1, <2>1, <2>2 DEF ListPods, CoreTypeOK, ProvTypeOK
<1>2. ASSUME NEW p \in Workers, LookUp(p) PROVE CoreTypeOK'
  <2>1. Closed(ledger[p], now) \in LedgerEntry
    BY ClosedType, ProviderAssumption DEF CoreTypeOK, ProvTypeOK, Pods
  <2>2. ledger' \in [Pods -> LedgerEntry] /\ listing' \in [Pods -> Statuses] /\ torn' \in BOOLEAN
    BY <1>2, <2>1 DEF LookUp, CoreTypeOK, ProvTypeOK, PodRecord
  <2> QED
    BY <1>2, <2>2 DEF LookUp, CoreTypeOK, ProvTypeOK
<1> QED
  BY <1>1, <1>2

\* The steps of closeout.
LEMMA DeleteReturnsType ==
  ASSUME CoreTypeOK, DeleteReturns
  PROVE  /\ phase' \in {"watch", "stop", "sweep"}
         /\ doomed' \subseteq Pods
         /\ target' \in Pods
         /\ attempt' \in 1 .. Attempts
         /\ cleanReads' \in 0 .. CleanReads
         /\ pc' \in {"delete", "list"}
<1>1. CASE target \in doomed /\ doomed # {target}
  BY <1>1 DEF DeleteReturns, StartDelete, CoreTypeOK, Attempts
<1>2. CASE ~(target \in doomed /\ doomed # {target})
  BY <1>2 DEF DeleteReturns, CoreTypeOK, Attempts, CleanReads, Pods
<1> QED
  BY <1>1, <1>2

\* The steps of delete_verified keep the types.
LEMMA DeletesType ==
  ASSUME CoreTypeOK
  PROVE  /\ Delete => CoreTypeOK'
         /\ Verified => CoreTypeOK'
         /\ TryAgain => CoreTypeOK'
         /\ GiveUp => CoreTypeOK'
<1> USE DEF provVars, fileVars
<1>1. ASSUME Delete PROVE CoreTypeOK'
  <2>1. pod' \in [Pods -> PodRecord]
    BY <1>1, DeleteLandsType DEF Delete, CoreTypeOK, ProvTypeOK
  <2> QED
    BY <1>1, <2>1 DEF Delete, CoreTypeOK, ProvTypeOK
<1>2. ASSUME Verified PROVE CoreTypeOK'
  BY <1>2, DeleteReturnsType DEF Verified, CoreTypeOK, ProvTypeOK
<1>3. ASSUME TryAgain PROVE CoreTypeOK'
  BY <1>3 DEF TryAgain, CoreTypeOK, ProvTypeOK, Attempts
<1>4. ASSUME GiveUp PROVE CoreTypeOK'
  <2>1. CASE phase = "stop"
    BY <1>4, <2>1, ProviderAssumption, CoreAssumption
    DEF GiveUp, SleepInterval, CoreTypeOK, ProvTypeOK
  <2>2. CASE phase # "stop"
    BY <1>4, <2>2, DeleteReturnsType DEF GiveUp, CoreTypeOK, ProvTypeOK
  <2> QED
    BY <2>1, <2>2
<1> QED
  BY <1>1, <1>2, <1>3, <1>4

\* The steps of the sweep keep the types; the count of clean reads needs CountOK.
LEMMA SweepType ==
  ASSUME CoreTypeOK, CountOK
  PROVE  /\ SweepReadFails => CoreTypeOK'
         /\ SweepSurveyFails => CoreTypeOK'
         /\ SweepSurvey => CoreTypeOK'
         /\ WakeToSweep => CoreTypeOK'
<1> USE DEF provVars, fileVars
<1>0. NoListing \in [Pods -> Statuses] /\ now + Interval \in Nat
  BY ProviderAssumption, CoreAssumption
  DEF NoListing, Statuses, CoreTypeOK, ProvTypeOK
<1>1. ASSUME SweepReadFails PROVE CoreTypeOK'
  BY <1>0, <1>1 DEF SweepReadFails, ReadFails, DropListing, SleepInterval, CoreTypeOK,
                    ProvTypeOK
<1>2. ASSUME SweepSurveyFails PROVE CoreTypeOK'
  BY <1>0, <1>2, CoreAssumption DEF SweepSurveyFails, SurveyFails, DropListing, CoreTypeOK,
                                    ProvTypeOK
<1>3. ASSUME SweepSurvey PROVE CoreTypeOK'
  <2>1. ledger' \in [Pods -> LedgerEntry]
    BY <1>3, SurveyedType DEF SweepSurvey, SurveyWrites
  <2>2. CASE LiveIds = {}
    BY <1>0, <1>3, <2>1, <2>2
    DEF SweepSurvey, SurveyWrites, DropListing, SleepInterval, CoreTypeOK, ProvTypeOK,
        CountOK, CleanReads
  <2>3. CASE LiveIds # {}
    BY <1>0, <1>3, <2>1, <2>3
    DEF SweepSurvey, SurveyWrites, DropListing, StartDelete, LiveIds, CoreTypeOK, ProvTypeOK,
        Attempts, CleanReads
  <2> QED
    BY <2>2, <2>3
<1>4. ASSUME WakeToSweep PROVE CoreTypeOK'
  BY <1>4 DEF WakeToSweep, SleepEnds, CoreTypeOK, ProvTypeOK, NotExited
<1> QED
  BY <1>1, <1>2, <1>3, <1>4

\* Sleeps, the operator, and the watchdog's own death.
LEMMA OthersType ==
  ASSUME CoreTypeOK
  PROVE  /\ WakeToPoll => CoreTypeOK'
         /\ WakeToStop => CoreTypeOK'
         /\ RequestStandDown => CoreTypeOK'
         /\ Crash => CoreTypeOK'
         /\ Arm => CoreTypeOK'
<1> USE DEF provVars, fileVars, CoreTypeOK, ProvTypeOK
<1>1. WakeToPoll => CoreTypeOK'
  BY DEF WakeToPoll, SleepEnds
<1>2. WakeToStop => CoreTypeOK'
  BY DEF WakeToStop, SleepEnds, StartDelete, Pods, Attempts
<1>3. RequestStandDown => CoreTypeOK'
  BY DEF RequestStandDown, memVars
<1>4. Crash => CoreTypeOK'
  BY CoreAssumption DEF Crash, DropListing, NoListing, Statuses, Pods, Attempts, CleanReads
<1>5. Arm => CoreTypeOK'
  BY DEF Arm
<1> QED
  BY <1>1, <1>2, <1>3, <1>4, <1>5

\* A closeout begins with the control plane.
LEMMA StartCloseoutType ==
  ASSUME CoreTypeOK, NEW why \in {"breach", "stand-down"}, StartCloseout(why)
  PROVE  /\ phase' \in {"watch", "stop", "sweep"}
         /\ label' \in {"none", "breach", "stand-down"}
         /\ target' \in Pods
         /\ attempt' \in 1 .. Attempts
         /\ pc' = "delete"
BY DEF StartCloseout, StartDelete, Pods, Attempts

\* The initial state has its types.
LEMMA InitType == CoreInit => CoreTypeOK /\ CountOK
<1> SUFFICES ASSUME CoreInit PROVE CoreTypeOK /\ CountOK
  OBVIOUS
<1>1. ProvTypeOK
  BY ProviderAssumption DEF CoreInit, ProvInit, ProvTypeOK, PodRecord, Statuses
<1>2. NoEntry \in LedgerEntry
  BY DEF NoEntry, LedgerEntry, Open
<1>3. ledger \in [Pods -> LedgerEntry]
  BY <1>2 DEF CoreInit
<1>4. Control \in Pods
  BY DEF Pods
<1>5. listing \in [Pods -> Statuses]
  BY DEF CoreInit, MemInit, NoListing, Statuses
<1>6. crashes \in 0 .. MaxCrashes
  BY CoreAssumption DEF CoreInit
<1>8. torn \in BOOLEAN /\ standDown \in BOOLEAN
  BY Zenon DEF CoreInit
<1>7. attempt \in 1 .. Attempts /\ cleanReads \in 0 .. CleanReads /\ cleanReads # CleanReads
  BY DEF CoreInit, MemInit, Attempts, CleanReads
<1> QED
  BY <1>1, <1>3, <1>4, <1>5, <1>6, <1>7, <1>8
  DEF CoreInit, MemInit, CoreTypeOK, CountOK, NotExited

\* The count of clean reads, through each of the shared steps.
LEMMA CountKept ==
  ASSUME CoreTypeOK, CountOK,
         \/ World /\ UNCHANGED <<memVars, exitCode, fileVars, crashes>>
         \/ ListPods \/ \E p \in Workers : LookUp(p)
         \/ Closeout
         \/ WakeToPoll \/ WakeToStop \/ RequestStandDown \/ Crash \/ Arm
  PROVE  CountOK'
<1> USE DEF CountOK, CleanReads
<1>1. CASE World /\ UNCHANGED <<memVars, exitCode, fileVars, crashes>>
  BY <1>1 DEF memVars
<1>2. CASE ListPods \/ \E p \in Workers : LookUp(p)
  BY <1>2 DEF ListPods, LookUp
<1>3. CASE Delete \/ TryAgain
  BY <1>3 DEF Delete, TryAgain
<1>4. CASE Verified \/ GiveUp
  <2>1. (DeleteReturns => cleanReads' \in {0, cleanReads}) /\ (pc = "verify")
    BY <1>4 DEF DeleteReturns, Verified, GiveUp
  <2> QED
    BY <1>4, <2>1 DEF Verified, GiveUp
<1>5. CASE SweepReadFails \/ SweepSurveyFails
  BY <1>5 DEF SweepReadFails, ReadFails, SweepSurveyFails, SurveyFails
<1>6. CASE SweepSurvey
  BY <1>6 DEF SweepSurvey, SurveyWrites, SleepInterval, CoreTypeOK
<1>7. CASE WakeToSweep
  BY <1>7 DEF WakeToSweep, SleepEnds, CoreTypeOK
<1>8. CASE WakeToPoll \/ WakeToStop \/ RequestStandDown \/ Crash \/ Arm
  BY <1>8 DEF WakeToPoll, WakeToStop, RequestStandDown, Crash, Arm, SleepEnds, StartDelete,
              memVars
<1> QED
  BY <1>1, <1>2, <1>3, <1>4, <1>5, <1>6, <1>7, <1>8 DEF Closeout

----------------------------------------------------------------------------
(* THE METER.  NeverUnderBooked is not inductive by itself: that an entry is *)
(* closed late enough depends on what a listing in hand, read at some      *)
(* earlier time, may still say of a pod.                                   *)

\* What the ledger, the listing in hand and the provider agree on for worker w.
MeterOK(w) ==
  /\ ledger[w].known => /\ pod[w].st # "absent"
                        /\ ledger[w].created <= pod[w].born
                        /\ ledger[w].rate >= pod[w].rate
  /\ ledger[w].terminalAt # Open => /\ Dead(w)
                                    /\ pod[w].ended <= ledger[w].terminalAt
                                    /\ ledger[w].terminalAt <= now
  /\ w \in missing => ledger[w].known
  /\ listing[w] # "absent" => pod[w].st # "absent"
  /\ listing[w] = "TERMINATED" => Dead(w)
  /\ pod[w].born <= now
  /\ pod[w].ended <= now
  /\ pod[w].rate <= MaxRate

MeterInv == \A w \in Workers : MeterOK(w)

----------------------------------------------------------------------------
(* From the invariant to what the meter promises.                          *)

\* A product of natural numbers is monotonic in both factors.
LEMMA ProductMono ==
  ASSUME NEW a \in Nat, NEW b \in Nat, NEW c \in Nat, NEW d \in Nat, a >= b, c >= d
  PROVE  a * c >= b * d
<1>1. PICK x \in Nat : a = b + x
  <2> WITNESS a - b \in Nat
  <2> QED
    OBVIOUS
<1>2. PICK y \in Nat : c = d + y
  <2> WITNESS c - d \in Nat
  <2> QED
    OBVIOUS
<1>3. a * c = b * d + b * y + x * d + x * y
  BY <1>1, <1>2
<1>4. b * y \in Nat /\ x * d \in Nat /\ x * y \in Nat /\ b * d \in Nat
  OBVIOUS
<1> QED
  BY <1>3, <1>4

\* The meter's invariant implies that no known worker is under-booked.
LEMMA MeterSuffices ==
  ASSUME CoreTypeOK, MeterInv
  PROVE  NeverUnderBooked
<1> SUFFICES ASSUME NEW w \in Workers, ledger[w].known
             PROVE  EntryCost(ledger[w], now) >= Bill(w, now)
  BY DEF NeverUnderBooked
<1> DEFINE span == (IF ledger[w].terminalAt = Open THEN now ELSE ledger[w].terminalAt)
                   - ledger[w].created
<1>1. /\ now \in Nat /\ w \in Pods
      /\ ledger[w] \in LedgerEntry /\ pod[w] \in PodRecord
  BY ProviderAssumption DEF CoreTypeOK, ProvTypeOK, Pods
<1>2. MeterOK(w)
  BY DEF MeterInv
<1>3. BilledTime(w, now) \in Nat /\ Greatest(0, span) \in Nat
  BY <1>1 DEF BilledTime, Greatest, LedgerEntry, PodRecord, Open
<1>4. Greatest(0, span) >= BilledTime(w, now)
  BY <1>1, <1>2 DEF MeterOK, BilledTime, Greatest, LedgerEntry, PodRecord, Open
<1>5. ledger[w].rate \in Nat /\ pod[w].rate \in Nat /\ ledger[w].rate >= pod[w].rate
  BY <1>1, <1>2 DEF MeterOK, LedgerEntry, PodRecord
<1>6. ledger[w].rate * Greatest(0, span) >= pod[w].rate * BilledTime(w, now)
  BY <1>3, <1>4, <1>5, ProductMono
<1> QED
  BY <1>6 DEF EntryCost, Bill

----------------------------------------------------------------------------
(* The provider's steps.                                                   *)

\* A pod that ends keeps the meter right: an entry that is closed belongs to a pod
\* that had already ended.
LEMMA BecomesMeter ==
  ASSUME CoreTypeOK, MeterInv, NEW p \in Pods, NEW s \in {"EXITED", "TERMINATED", "gone"},
         Live(p) \/ (pod[p].st = "TERMINATED" /\ s = "gone"),
         pod' = [pod EXCEPT ![p] = Becomes(p, s)],
         UNCHANGED <<now, ledger, listing, missing>>
  PROVE  MeterInv'
<1> SUFFICES ASSUME NEW w \in Workers PROVE MeterOK(w)'
  BY DEF MeterInv
<1>1. MeterOK(w) /\ w \in Pods
  BY DEF MeterInv, Pods
<1>2. CASE w # p
  <2>1. pod'[w] = pod[w]
    BY <1>1, <1>2 DEF CoreTypeOK, ProvTypeOK
  <2> QED
    BY <1>1, <2>1 DEF MeterOK, Dead
<1>3. CASE w = p
  <2>1. pod[w] \in PodRecord /\ now \in Nat
    BY <1>1, ProviderAssumption DEF CoreTypeOK, ProvTypeOK
  <2>2. pod'[w] = Becomes(w, s)
    BY <1>1, <1>3 DEF CoreTypeOK, ProvTypeOK
  <2>3. /\ pod'[w].st = s /\ pod'[w].born = pod[w].born /\ pod'[w].rate = pod[w].rate
    BY <2>1, <2>2 DEF Becomes, PodRecord
  <2>4. pod'[w].ended = IF s \in {"TERMINATED", "gone"} /\ Live(w) THEN now ELSE pod[w].ended
    BY <2>1, <2>2 DEF Becomes, PodRecord
  <2>5. CASE Live(w)
    BY <1>1, <1>3, <2>1, <2>3, <2>4, <2>5 DEF MeterOK, Dead, Live, PodRecord
  <2>6. CASE ~Live(w)
    BY <1>1, <1>3, <2>1, <2>3, <2>4, <2>6 DEF MeterOK, Dead, PodRecord
  <2> QED
    BY <2>5, <2>6
<1> QED
  BY <1>2, <1>3

\* The gateway, the provider and the clock keep the meter right.
LEMMA WorldMeter ==
  ASSUME CoreTypeOK, MeterInv, World, UNCHANGED <<ledger, listing, missing>>
  PROVE  MeterInv'
<1>0. pod \in [Pods -> PodRecord] /\ now \in Nat /\ Workers \subseteq Pods
  BY ProviderAssumption DEF CoreTypeOK, ProvTypeOK, Pods
<1>1. ASSUME NEW v \in Workers, CreatePod(v) PROVE MeterInv'
  <2> SUFFICES ASSUME NEW w \in Workers PROVE MeterOK(w)'
    BY DEF MeterInv
  <2>1. PICK r \in Rates, seen \in BOOLEAN :
           pod' = [pod EXCEPT ![v] = [st |-> "RUNNING", born |-> now, ended |-> 0,
                                      rate |-> r, listed |-> seen]]
    BY <1>1 DEF CreatePod, Born
  <2>2. r \in Nat /\ r <= MaxRate
    BY ProviderAssumption, CoreAssumption
  <2>3. MeterOK(w) /\ now' = now /\ pod[v].st = "absent"
    BY <1>1 DEF MeterInv, CreatePod, Born
  <2>4. CASE w # v
    <3>1. pod'[w] = pod[w]
      BY <1>0, <2>1, <2>4
    <3> QED
      BY <2>3, <3>1 DEF MeterOK, Dead
  <2>5. CASE w = v
    <3>1. /\ pod'[w].born = now /\ pod'[w].ended = 0 /\ pod'[w].rate = r
      BY <1>0, <2>1, <2>5
    <3>2. ~ledger[w].known /\ ledger[w].terminalAt = Open /\ listing[w] = "absent"
          /\ w \notin missing
      BY <2>3, <2>5 DEF MeterOK, Dead
    <3> QED
      BY <1>0, <2>2, <2>3, <3>1, <3>2 DEF MeterOK
  <2> QED
    BY <2>4, <2>5
<1>2. ASSUME NEW v \in Workers, AppearInListing(v) PROVE MeterInv'
  <2> SUFFICES ASSUME NEW w \in Workers PROVE MeterOK(w)'
    BY DEF MeterInv
  <2>1. /\ pod'[w].st = pod[w].st /\ pod'[w].born = pod[w].born
        /\ pod'[w].ended = pod[w].ended /\ pod'[w].rate = pod[w].rate /\ now' = now
    BY <1>0, <1>2 DEF AppearInListing, PodRecord
  <2> QED
    BY <2>1 DEF MeterInv, MeterOK, Dead
<1>3. ASSUME NEW v \in Workers, Reclaim(v) PROVE MeterInv'
  <2>1. CASE Live(v) /\ \E s \in {"EXITED", "TERMINATED", "gone"} :
                           pod' = [pod EXCEPT ![v] = Becomes(v, s)]
    BY <1>0, <1>3, <2>1, BecomesMeter DEF Reclaim
  <2>2. CASE pod[v].st = "TERMINATED" /\ pod' = [pod EXCEPT ![v] = Becomes(v, "gone")]
    BY <1>0, <1>3, <2>2, BecomesMeter DEF Reclaim
  <2> QED
    BY <1>3, <2>1, <2>2 DEF Reclaim
<1>4. CASE Tick
  <2> SUFFICES ASSUME NEW w \in Workers PROVE MeterOK(w)'
    BY DEF MeterInv
  <2>1. ledger[w] \in LedgerEntry /\ pod[w] \in PodRecord
    BY <1>0 DEF CoreTypeOK
  <2> QED
    BY <1>0, <1>4, <2>1 DEF Tick, MeterInv, MeterOK, Dead, LedgerEntry, PodRecord, Open
<1> QED
  BY <1>1, <1>2, <1>3, <1>4 DEF World

\* So does a DELETE: what it ends now was not closed before.
LEMMA DeleteMeter ==
  ASSUME CoreTypeOK, MeterInv, Delete
  PROVE  MeterInv'
<1>1. CASE UNCHANGED pod
  BY <1>1 DEF Delete, fileVars, MeterInv, MeterOK, Dead
<1>2. CASE DeleteLands(target)
  <2>1. UNCHANGED <<now, ledger, listing, missing>> /\ target \in Pods
    BY DEF Delete, fileVars, CoreTypeOK
  <2>2. CASE pod[target].st = "RUNNING"
    <3>1. pod' = [pod EXCEPT ![target] = Becomes(target, "EXITED")]
      BY <1>2, <2>2 DEF DeleteLands
    <3> QED
      BY <2>1, <2>2, <3>1, BecomesMeter DEF Live
  <2>3. CASE pod[target].st = "EXITED"
    <3>1. pod' = [pod EXCEPT ![target] = Becomes(target, "TERMINATED")]
      BY <1>2, <2>3 DEF DeleteLands
    <3> QED
      BY <2>1, <2>3, <3>1, BecomesMeter DEF Live
  <2>4. CASE pod[target].st \notin {"RUNNING", "EXITED"}
    <3>1. pod' = pod
      BY <1>2, <2>1, <2>4 DEF DeleteLands, CoreTypeOK, ProvTypeOK
    <3> QED
      BY <2>1, <3>1 DEF MeterInv, MeterOK, Dead
  <2> QED
    BY <2>2, <2>3, <2>4
<1> QED
  BY <1>1, <1>2 DEF Delete

----------------------------------------------------------------------------
(* The watchdog's own steps.                                               *)

\* What a step may do to the ledger: what is booked stays booked,
NothingForgotten ==
  \A p \in Pods : ledger[p].known =>
    /\ ledger'[p].known
    /\ ledger'[p].created <= ledger[p].created
    /\ ledger'[p].rate >= ledger[p].rate
    /\ ledger[p].terminalAt # Open => ledger'[p].terminalAt = ledger[p].terminalAt

\* and an entry is not closed before now.
LedgerGrows ==
  /\ NothingForgotten
  /\ \A p \in Pods : ledger[p].terminalAt = Open => ledger'[p].terminalAt \in {Open, now}

\* A step that leaves the ledger alone takes nothing back.
LEMMA LedgerKept ==
  ASSUME CoreTypeOK, UNCHANGED ledger
  PROVE  LedgerGrows
BY DEF LedgerGrows, NothingForgotten, CoreTypeOK, LedgerEntry

\* A step that leaves pods, clock and ledger alone, and keeps the listing in hand or
\* drops it.
LEMMA FrameMeter ==
  ASSUME MeterInv, UNCHANGED <<now, pod, ledger>>,
         UNCHANGED <<listing, missing>> \/ DropListing
  PROVE  MeterInv'
<1> SUFFICES ASSUME NEW w \in Workers PROVE MeterOK(w)'
  BY DEF MeterInv
<1>1. CASE UNCHANGED <<listing, missing>>
  BY <1>1 DEF MeterInv, MeterOK, Dead
<1>2. CASE DropListing
  <2>1. listing'[w] = "absent" /\ missing' = {}
    BY <1>2 DEF DropListing, NoListing, Pods
  <2> QED
    BY <2>1 DEF MeterInv, MeterOK, Dead
<1> QED
  BY <1>1, <1>2

\* A listing says nothing of a pod but its status of now, or nothing.
LEMMA ListMeter ==
  ASSUME CoreTypeOK, MeterInv, ListPods
  PROVE  MeterInv' /\ LedgerGrows
<1>1. PICK omitted \in SUBSET Omittable :
         /\ listing' = Listing(omitted)
         /\ missing' = {p \in Pods : ledger[p].known /\ ledger[p].terminalAt = Open
                                     /\ Listing(omitted)[p] = "absent"}
  BY DEF ListPods
<1>2. UNCHANGED <<now, pod, ledger>>
  BY DEF ListPods, provVars, fileVars
<1>3. ASSUME NEW w \in Workers PROVE MeterOK(w)'
  <2>1. listing'[w] \in {"absent", pod[w].st} /\ (w \in missing' => ledger[w].known)
    BY <1>1 DEF Listing, Pods
  <2> QED
    BY <1>2, <2>1 DEF MeterInv, MeterOK, Dead
<1> QED
  BY <1>2, <1>3, LedgerKept DEF MeterInv

\* An entry is closed on a 404, at a time when the pod, known to have existed, is gone.
LEMMA LookUpMeter ==
  ASSUME CoreTypeOK, MeterInv, NEW p \in Workers, LookUp(p)
  PROVE  MeterInv' /\ LedgerGrows
<1>0. /\ p \in Pods /\ now \in Nat /\ pod \in [Pods -> PodRecord]
      /\ ledger \in [Pods -> LedgerEntry] /\ listing \in [Pods -> Statuses]
  BY ProviderAssumption DEF CoreTypeOK, ProvTypeOK, Pods
<1>1. UNCHANGED <<now, pod>> /\ p \in missing /\ missing' = missing \ {p}
  BY DEF LookUp, provVars
<1>2. MeterOK(p)
  BY DEF MeterInv
<1>3. CASE NotFound(p) /\ ledger' = [ledger EXCEPT ![p] = Closed(@, now)]
           /\ UNCHANGED listing
  <2>1. Dead(p) /\ ledger[p].known
    BY <1>0, <1>1, <1>2, <1>3 DEF NotFound, MeterOK, Dead
  <2>2. /\ ledger'[p].known = ledger[p].known
        /\ ledger'[p].created = ledger[p].created
        /\ ledger'[p].rate = ledger[p].rate
        /\ ledger'[p].terminalAt = IF ledger[p].terminalAt = Open THEN now
                                   ELSE Least(ledger[p].terminalAt, now)
    BY <1>0, <1>3 DEF Closed, LedgerEntry
  <2>3. ledger'[p].terminalAt = IF ledger[p].terminalAt = Open THEN now
                                ELSE ledger[p].terminalAt
    BY <1>0, <1>2, <2>2 DEF Least, MeterOK, LedgerEntry, Open
  <2>4. \A q \in Pods : q # p => ledger'[q] = ledger[q]
    BY <1>0, <1>3
  <2>5. LedgerGrows
    <3> SUFFICES ASSUME NEW q \in Pods
                 PROVE  /\ ledger[q].known =>
                             /\ ledger'[q].known
                             /\ ledger'[q].created <= ledger[q].created
                             /\ ledger'[q].rate >= ledger[q].rate
                             /\ ledger[q].terminalAt # Open
                                  => ledger'[q].terminalAt = ledger[q].terminalAt
                        /\ ledger[q].terminalAt = Open => ledger'[q].terminalAt \in {Open, now}
      BY DEF LedgerGrows, NothingForgotten
    <3>1. ledger[q].created \in Nat /\ ledger[q].rate \in Nat
      BY <1>0 DEF LedgerEntry
    <3> QED
      BY <2>2, <2>3, <2>4, <3>1
  <2>6. ASSUME NEW w \in Workers PROVE MeterOK(w)'
    <3>1. w \in Pods /\ MeterOK(w) /\ pod[w].ended \in Nat
      BY <1>0 DEF MeterInv, Pods, PodRecord
    <3>2. CASE w # p
      BY <1>1, <1>3, <2>4, <3>1, <3>2 DEF MeterOK, Dead
    <3>3. CASE w = p
      BY <1>0, <1>1, <1>3, <2>1, <2>2, <2>3, <3>1, <3>3 DEF MeterOK, Dead
    <3> QED
      BY <3>2, <3>3
  <2> QED
    BY <2>5, <2>6 DEF MeterInv
<1>4. CASE UNCHANGED <<ledger, listing>>
  BY <1>1, <1>4, LedgerKept DEF MeterInv, MeterOK, Dead
<1>5. CASE ~NotFound(p) /\ listing' = [listing EXCEPT ![p] = pod[p].st] /\ UNCHANGED ledger
  <2>1. ASSUME NEW w \in Workers PROVE MeterOK(w)'
    <3>1. listing'[w] \in {listing[w], pod[w].st} /\ MeterOK(w)
      BY <1>0, <1>5 DEF MeterInv, Pods
    <3> QED
      BY <1>1, <1>5, <3>1 DEF MeterOK, Dead
  <2> QED
    BY <1>5, <2>1, LedgerKept DEF MeterInv
<1> QED
  BY <1>3, <1>4, <1>5 DEF LookUp

\* What survey() writes for a listed pod of the run: never later, cheaper or reopened,
\* and not above the pod's own creation time or below its rate, readable or not.
LEMMA ObservedFacts ==
  ASSUME CoreTypeOK, MeterInv, NEW p \in Workers, NEW blank, NEW o,
         o = Observed(ledger[p], pod[p].born, pod[p].rate, p \in blank,
                      listing[p] = "TERMINATED", now)
  PROVE  /\ o.known
         /\ o.created <= pod[p].born
         /\ o.rate >= pod[p].rate
         /\ ledger[p].known => o.created <= ledger[p].created /\ o.rate >= ledger[p].rate
         /\ ledger[p].terminalAt # Open => o.terminalAt = ledger[p].terminalAt
         /\ o.terminalAt # Open => \/ ledger[p].terminalAt # Open
                                   \/ listing[p] = "TERMINATED" /\ o.terminalAt = now
<1> DEFINE e == ledger[p]
           born == pod[p].born
           c == ReadCreated(e, born, p \in blank)
           r == ReadRate(pod[p].rate, p \in blank)
           next == [known      |-> TRUE,
                    created    |-> IF e.known THEN Least(e.created, c) ELSE c,
                    rate       |-> IF e.known THEN Greatest(e.rate, r) ELSE r,
                    terminalAt |-> e.terminalAt]
<1>0. /\ p \in Pods /\ e \in LedgerEntry /\ born \in Nat /\ pod[p].rate \in Nat /\ now \in Nat
  BY ProviderAssumption DEF CoreTypeOK, ProvTypeOK, PodRecord, Pods
<1>i. MeterOK(p)
  BY DEF MeterInv
<1>1. c \in Nat /\ c <= born
  BY <1>0, <1>i DEF ReadCreated, Epoch, LedgerEntry, MeterOK
<1>2. r \in Nat /\ r >= pod[p].rate
  BY <1>0, <1>i, MaxRateAssumption DEF ReadRate, MeterOK
<1>3. e.created \in Nat /\ e.rate \in Nat /\ e.terminalAt \in Nat \cup {Open}
  BY <1>0 DEF LedgerEntry
<1>4. /\ next.created <= born /\ next.rate >= pod[p].rate /\ next.terminalAt = e.terminalAt
      /\ e.known => next.created <= e.created /\ next.rate >= e.rate
  BY <1>0, <1>1, <1>2, <1>3, <1>i DEF Least, Greatest, MeterOK
<1>5. next.known
  OBVIOUS
<1>6. next \in LedgerEntry
  BY <1>1, <1>2, <1>3 DEF LedgerEntry, Least, Greatest
<1>7. o = IF listing[p] = "TERMINATED" THEN Closed(next, now) ELSE next
  BY DEF Observed
<1> HIDE DEF next
<1>8. CASE listing[p] # "TERMINATED"
  BY <1>4, <1>5, <1>7, <1>8
<1>9. CASE listing[p] = "TERMINATED"
  <2>1. /\ o.known = next.known /\ o.created = next.created /\ o.rate = next.rate
    BY <1>6, <1>7, <1>9 DEF Closed, LedgerEntry
  <2>2. o.terminalAt = IF next.terminalAt = Open THEN now ELSE Least(next.terminalAt, now)
    BY <1>6, <1>7, <1>9 DEF Closed, LedgerEntry
  <2>3. o.terminalAt = IF e.terminalAt = Open THEN now ELSE e.terminalAt
    BY <1>0, <1>3, <1>4, <1>i, <2>2 DEF Least, Open, MeterOK
  <2> QED
    BY <1>4, <1>5, <1>9, <2>1, <2>3
<1> QED
  BY <1>8, <1>9

\* A survey keeps the meter right, however old its listing.
LEMMA SurveyMeter ==
  ASSUME CoreTypeOK, MeterInv, SurveyWrites, UNCHANGED <<now, pod>>
  PROVE  MeterInv' /\ LedgerGrows
<1>0. PICK blank \in SUBSET Unreadable : ledger' = Surveyed(blank)
  BY DEF SurveyWrites
<1>1. /\ now \in Nat /\ pod \in [Pods -> PodRecord] /\ ledger \in [Pods -> LedgerEntry]
  BY ProviderAssumption DEF CoreTypeOK, ProvTypeOK
<1>2. ASSUME NEW p \in Pods, Ours(p), listing[p] # "absent"
      PROVE  /\ p \in Workers /\ MeterOK(p)
             /\ ledger'[p].known
             /\ ledger'[p].created <= pod[p].born
             /\ ledger'[p].rate >= pod[p].rate
             /\ ledger[p].known => /\ ledger'[p].created <= ledger[p].created
                                   /\ ledger'[p].rate >= ledger[p].rate
             /\ ledger[p].terminalAt # Open => ledger'[p].terminalAt = ledger[p].terminalAt
             /\ ledger'[p].terminalAt # Open =>
                  \/ ledger[p].terminalAt # Open
                  \/ listing[p] = "TERMINATED" /\ ledger'[p].terminalAt = now
  <2>1. p \in Workers
    BY <1>2 DEF Ours, Pods
  <2>2. MeterOK(p)
    BY <2>1 DEF MeterInv
  <2>3. ledger'[p] = Observed(ledger[p], pod[p].born, pod[p].rate, p \in blank,
                              listing[p] = "TERMINATED", now)
    BY <1>0, <1>2 DEF Surveyed
  <2> QED
    BY <2>1, <2>2, <2>3, ObservedFacts
<1>3. ASSUME NEW p \in Pods, ~(Ours(p) /\ listing[p] # "absent")
      PROVE  ledger'[p] = ledger[p]
  BY <1>0, <1>3 DEF Surveyed
<1>4. LedgerGrows
  <2> SUFFICES ASSUME NEW p \in Pods
               PROVE  /\ ledger[p].known =>
                           /\ ledger'[p].known
                           /\ ledger'[p].created <= ledger[p].created
                           /\ ledger'[p].rate >= ledger[p].rate
                           /\ ledger[p].terminalAt # Open
                                => ledger'[p].terminalAt = ledger[p].terminalAt
                      /\ ledger[p].terminalAt = Open => ledger'[p].terminalAt \in {Open, now}
    BY DEF LedgerGrows, NothingForgotten
  <2>1. ledger[p].created \in Nat /\ ledger[p].rate \in Nat
    BY <1>1 DEF LedgerEntry
  <2> QED
    BY <1>2, <1>3, <2>1
<1>5. ASSUME NEW w \in Workers PROVE MeterOK(w)'
  <2>1. w \in Pods /\ MeterOK(w) /\ pod[w].ended \in Nat
    BY <1>1 DEF MeterInv, Pods, PodRecord
  <2>2. listing'[w] = "absent" /\ missing' = {}
    BY <2>1 DEF SurveyWrites, DropListing, NoListing
  <2>3. CASE Ours(w) /\ listing[w] # "absent"
    BY <1>1, <1>2, <2>1, <2>2, <2>3 DEF MeterOK, Dead
  <2>4. CASE ~(Ours(w) /\ listing[w] # "absent")
    BY <1>3, <2>1, <2>2, <2>4 DEF MeterOK, Dead
  <2> QED
    BY <2>3, <2>4
<1> QED
  BY <1>4, <1>5 DEF MeterInv
----------------------------------------------------------------------------
(* Initially, and through every shared step.                               *)

\* An empty ledger is right.
LEMMA InitMeter == CoreInit => MeterInv
<1> SUFFICES ASSUME CoreInit, NEW w \in Workers PROVE MeterOK(w)
  BY DEF MeterInv
<1>1. w \in Pods
  BY DEF Pods
<1>2. /\ ledger[w].known = FALSE /\ ledger[w].terminalAt = Open /\ missing = {}
      /\ listing[w] = "absent"
  BY <1>1 DEF CoreInit, MemInit, NoEntry, NoListing
<1>3. pod[w].born = 0 /\ pod[w].ended = 0 /\ pod[w].rate = 0 /\ now = 0
  BY <1>1 DEF CoreInit, ProvInit
<1> QED
  BY <1>2, <1>3, MaxRateAssumption DEF MeterOK

\* Every shared step keeps the meter's invariant, and lets the ledger only grow.
LEMMA SharedMeter ==
  ASSUME CoreTypeOK, MeterInv,
         \/ World /\ UNCHANGED <<memVars, exitCode, fileVars, crashes>>
         \/ ListPods \/ \E p \in Workers : LookUp(p)
         \/ Closeout
         \/ WakeToPoll \/ WakeToStop \/ RequestStandDown \/ Crash \/ Arm
  PROVE  MeterInv' /\ LedgerGrows
<1>1. CASE World /\ UNCHANGED <<memVars, exitCode, fileVars, crashes>>
  <2>1. UNCHANGED <<ledger, listing, missing>>
    BY <1>1 DEF memVars, fileVars
  <2> QED
    BY <1>1, <2>1, WorldMeter, LedgerKept
<1>2. CASE Verified \/ TryAgain \/ GiveUp \/ WakeToSweep \/ WakeToStop \/ WakeToPoll
  <2>1. UNCHANGED <<now, pod, ledger, listing, missing>>
    BY <1>2 DEF Verified, TryAgain, GiveUp, WakeToSweep, WakeToStop, WakeToPoll, provVars,
                fileVars
  <2> QED
    BY <2>1, FrameMeter, LedgerKept
<1>3. CASE SweepReadFails \/ SweepSurveyFails
  <2>1. UNCHANGED <<now, pod, ledger>> /\ DropListing
    BY <1>3 DEF SweepReadFails, SweepSurveyFails, ReadFails, SurveyFails, provVars, fileVars
  <2> QED
    BY <2>1, FrameMeter, LedgerKept
<1>4. CASE SweepSurvey
  <2>1. SurveyWrites /\ UNCHANGED <<now, pod>>
    BY <1>4 DEF SweepSurvey, provVars
  <2> QED
    BY <2>1, SurveyMeter
<1>5. CASE Delete
  BY <1>5, DeleteMeter, LedgerKept DEF Delete, fileVars
<1>6. CASE ListPods
  BY <1>6, ListMeter
<1>7. CASE \E p \in Workers : LookUp(p)
  BY <1>7, LookUpMeter
<1>8. CASE RequestStandDown \/ Crash \/ Arm
  <2>1. UNCHANGED <<now, pod, ledger>> /\ (UNCHANGED <<listing, missing>> \/ DropListing)
    BY <1>8 DEF RequestStandDown, Crash, Arm, memVars, provVars, fileVars
  <2> QED
    BY <2>1, FrameMeter, LedgerKept
<1> QED
  BY <1>1, <1>2, <1>3, <1>4, <1>5, <1>6, <1>7, <1>8 DEF Closeout

----------------------------------------------------------------------------
(* THE CLOSEOUT.  The inductive invariants of the closeout, and their lemmas for the *)
(* steps both watchdogs share.                                             *)
(*                                                                         *)
(* The resurrection barrier: ControlPlaneDiesFirst speaks of the steps of  *)
(* delete only; what makes it hold is where the sweep's workers come from  *)
(* and how the sweep is entered.                                           *)
(*                                                                         *)
(* The exit: three clean reads are enough because each is an interval afte *)
(* the one before, and no worker is younger than the control plane's death *)

----------------------------------------------------------------------------
(* The resurrection barrier.                                               *)

\* The provider has a record of the control plane until that is dead, the sweep runs
\* behind a dead one, and a delete is the control plane's or the sweep's.
BarrierInv ==
  /\ pod[Control].st # "absent"
  /\ phase = "sweep" => Dead(Control)
  /\ doomed \subseteq Workers
  /\ phase # "sweep" => doomed = {}
  /\ pc \in {"delete", "verify"} =>
       \/ phase = "stop" /\ target = Control
       \/ phase = "sweep" /\ target \in doomed

\* The barrier's invariant implies the property.
LEMMA BarrierSuffices ==
  ASSUME BarrierInv
  PROVE  ControlPlaneDiesFirst
BY DEF BarrierInv, ControlPlaneDiesFirst

\* Nothing but its own deletion changes the control plane.
LEMMA WorldSparesControl ==
  ASSUME CoreTypeOK, World
  PROVE  pod'[Control] = pod[Control]
<1>1. Control \in Pods /\ Control \notin Workers /\ pod \in [Pods -> PodRecord]
  BY ProviderAssumption DEF CoreTypeOK, ProvTypeOK, Pods
<1> QED
  BY <1>1 DEF World, CreatePod, Born, AppearInListing, Reclaim, Tick

\* Once dead the control plane stays so, and it is never unheard of.
LEMMA DeleteSparesControl ==
  ASSUME CoreTypeOK, BarrierInv, Delete
  PROVE  pod'[Control].st # "absent" /\ (Dead(Control) => Dead(Control)')
<1>1. Control \in Pods /\ pod \in [Pods -> PodRecord] /\ target \in Pods
  BY DEF CoreTypeOK, ProvTypeOK, Pods
<1>2. CASE UNCHANGED pod
  BY <1>2 DEF BarrierInv, Dead
<1>3. CASE DeleteLands(target)
  <2>1. pod'[Control] \in {pod[Control], Becomes(Control, "EXITED"),
                           Becomes(Control, "TERMINATED")}
        /\ (Dead(Control) => pod'[Control] = pod[Control])
    BY <1>1, <1>3 DEF DeleteLands, Dead
  <2>2. Becomes(Control, "EXITED").st = "EXITED"
        /\ Becomes(Control, "TERMINATED").st = "TERMINATED"
    BY <1>1 DEF Becomes, PodRecord
  <2> QED
    BY <2>1, <2>2 DEF BarrierInv, Dead
<1> QED
  BY <1>2, <1>3 DEF Delete

\* A verified or abandoned delete leads to the next one, or to the sweep's listing.
LEMMA DeleteReturnsBarrier ==
  ASSUME BarrierInv, pc = "verify", DeleteReturns, UNCHANGED pod,
         phase = "stop" => Dead(Control)
  PROVE  BarrierInv'
<1>1. phase \in {"stop", "sweep"} /\ Dead(Control)
  BY DEF BarrierInv
<1>2. CASE target \in doomed /\ doomed # {target}
  BY <1>1, <1>2 DEF DeleteReturns, StartDelete, BarrierInv, Dead
<1>3. CASE ~(target \in doomed /\ doomed # {target})
  BY <1>1, <1>3 DEF DeleteReturns, BarrierInv, Dead
<1> QED
  BY <1>2, <1>3

\* Every shared step keeps the barrier.
LEMMA SharedBarrier ==
  ASSUME CoreTypeOK, BarrierInv,
         \/ World /\ UNCHANGED <<memVars, exitCode, fileVars, crashes>>
         \/ ListPods \/ \E p \in Workers : LookUp(p)
         \/ Closeout
         \/ WakeToPoll \/ WakeToStop \/ RequestStandDown \/ Crash \/ Arm
  PROVE  BarrierInv'
<1> USE DEF provVars
<1>1. CASE World /\ UNCHANGED <<memVars, exitCode, fileVars, crashes>>
  BY <1>1, WorldSparesControl DEF memVars, BarrierInv, Dead
<1>2. CASE ListPods \/ \E p \in Workers : LookUp(p)
  BY <1>2 DEF ListPods, LookUp, BarrierInv, Dead
<1>3. CASE Delete
  <2>1. UNCHANGED <<phase, target, doomed>> /\ pc = "delete" /\ pc' = "verify"
    BY <1>3 DEF Delete
  <2> QED
    BY <1>3, <2>1, DeleteSparesControl DEF BarrierInv
<1>4. CASE Verified
  <2>1. target = Control => Dead(Control)
    BY <1>4 DEF Verified, NotFound, BarrierInv, Dead, CoreTypeOK, ProvTypeOK, PodRecord
  <2>2. pc = "verify" /\ DeleteReturns /\ UNCHANGED pod
    BY <1>4 DEF Verified
  <2>3. phase = "stop" => target = Control
    BY <2>2 DEF BarrierInv
  <2> QED
    BY <2>1, <2>2, <2>3, DeleteReturnsBarrier
<1>5. CASE TryAgain
  BY <1>5 DEF TryAgain, BarrierInv, Dead
<1>6. CASE GiveUp
  <2>1. CASE phase = "stop"
    BY <1>6, <2>1 DEF GiveUp, SleepInterval, BarrierInv, Dead
  <2>2. CASE phase # "stop"
    BY <1>6, <2>2, DeleteReturnsBarrier DEF GiveUp
  <2> QED
    BY <2>1, <2>2
<1>7. CASE SweepReadFails \/ SweepSurveyFails
  BY <1>7 DEF SweepReadFails, ReadFails, SleepInterval, SweepSurveyFails, SurveyFails,
              BarrierInv, Dead
<1>8. CASE SweepSurvey
  <2>1. LiveIds \subseteq Workers
    BY DEF LiveIds, Ours, Pods
  <2>2. phase = "sweep" /\ UNCHANGED <<pod, phase>>
    BY <1>8 DEF SweepSurvey
  <2>3. \/ pc' = "sleep" /\ UNCHANGED <<doomed, target>>
        \/ doomed' = LiveIds /\ target' \in doomed'
    BY <1>8 DEF SweepSurvey, SleepInterval, StartDelete
  <2> QED
    BY <2>1, <2>2, <2>3 DEF BarrierInv, Dead
<1>9. CASE WakeToSweep
  BY <1>9 DEF WakeToSweep, SleepEnds, BarrierInv, Dead
<1>10. CASE WakeToPoll \/ WakeToStop \/ RequestStandDown \/ Arm
  BY <1>10 DEF WakeToPoll, WakeToStop, RequestStandDown, Arm, SleepEnds, StartDelete, memVars,
               BarrierInv, Dead
<1>11. CASE Crash
  BY <1>11 DEF Crash, BarrierInv, Dead
<1> QED
  BY <1>1, <1>2, <1>3, <1>4, <1>5, <1>6, <1>7, <1>8, <1>9, <1>10, <1>11 DEF Closeout
----------------------------------------------------------------------------
(* The exit.                                                               *)

\* A pod the listing does not show yet is young, and will be shown before the horizon.
HiddenOK(w) ==
  /\ pod[w].born <= now
  /\ pod[w].st # "absent" /\ ~pod[w].listed =>
       now < pod[w].born + HideMax /\ pod[w].born + HideMax <= MaxTime

\* At time t worker w is an interval older for each of the first two clean reads.
Aged(w, t) ==
  /\ cleanReads >= 1 => t >= pod[w].born + Interval
  /\ cleanReads >= 2 => t >= pod[w].born + Interval + Interval

\* What the sweep knows of a worker that was ever created.
SweptOK(w) ==
  /\ pc \in {"list", "lookup", "survey"} => now = MaxTime \/ Aged(w, now)
  /\ pc = "sleep" => now = MaxTime \/ Aged(w, wake)
  /\ cleanReads >= 2 /\ pc \in {"lookup", "survey"} /\ Live(w)
       => listing[w] \in {"RUNNING", "EXITED"}
  /\ cleanReads = CleanReads => ~Live(w)

ExitInv ==
  /\ \A w \in Workers : HiddenOK(w)
  /\ phase = "sweep" => \A w \in Workers : pod[w].st # "absent" => SweptOK(w)
  /\ phase = "sweep" /\ pc \in {"delete", "verify"} => cleanReads = 0
  /\ pc = "exited" => phase = "sweep" /\ cleanReads = CleanReads

\* The exit's invariant, behind the barrier, implies the property.
LEMMA ExitSuffices ==
  ASSUME BarrierInv, ExitInv
  PROVE  ExitMeansGone
BY DEF BarrierInv, ExitInv, SweptOK, ExitMeansGone, Live

\* What a step without creation does to the workers: none is born, none revives.
NoBirth ==
  \A w \in Workers :
    /\ pod'[w].born = pod[w].born
    /\ pod[w].listed => pod'[w].listed
    /\ pod'[w].st = "absent" <=> pod[w].st = "absent"
    /\ Live(w)' => Live(w)

\* A pod that stops or ends neither gives birth nor revives.
LEMMA BecomesNoBirth ==
  ASSUME CoreTypeOK, NEW p \in Pods, NEW s \in {"EXITED", "TERMINATED", "gone"},
         Live(p) \/ s = "gone", pod[p].st # "absent",
         pod' = [pod EXCEPT ![p] = Becomes(p, s)]
  PROVE  NoBirth
<1> SUFFICES ASSUME NEW w \in Workers
             PROVE  /\ pod'[w].born = pod[w].born
                    /\ pod[w].listed => pod'[w].listed
                    /\ pod'[w].st = "absent" <=> pod[w].st = "absent"
                    /\ Live(w)' => Live(w)
  BY DEF NoBirth
<1>1. w \in Pods /\ pod \in [Pods -> PodRecord]
  BY DEF CoreTypeOK, ProvTypeOK, Pods
<1>2. CASE w # p
  BY <1>1, <1>2 DEF Live
<1>3. CASE w = p
  <2>1. pod'[w] = Becomes(w, s) /\ pod[w] \in PodRecord
    BY <1>1, <1>3
  <2>2. pod'[w].st = s /\ pod'[w].born = pod[w].born
    BY <2>1 DEF Becomes, PodRecord
  <2>3. pod'[w].listed = pod[w].listed
    BY <2>1 DEF Becomes, PodRecord
  <2> QED
    BY <1>3, <2>2, <2>3 DEF Live
<1> QED
  BY <1>2, <1>3

\* Nor does a DELETE.
LEMMA DeleteNoBirth ==
  ASSUME CoreTypeOK, Delete
  PROVE  NoBirth
<1>1. CASE UNCHANGED pod
  BY <1>1 DEF NoBirth, Live
<1>2. CASE DeleteLands(target)
  <2>0. target \in Pods /\ pod \in [Pods -> PodRecord]
    BY DEF CoreTypeOK, ProvTypeOK
  <2>1. CASE pod[target].st = "RUNNING"
    <3>1. pod' = [pod EXCEPT ![target] = Becomes(target, "EXITED")]
      BY <1>2, <2>1 DEF DeleteLands
    <3> QED
      BY <2>0, <2>1, <3>1, BecomesNoBirth DEF Live
  <2>2. CASE pod[target].st = "EXITED"
    <3>1. pod' = [pod EXCEPT ![target] = Becomes(target, "TERMINATED")]
      BY <1>2, <2>2 DEF DeleteLands
    <3> QED
      BY <2>0, <2>2, <3>1, BecomesNoBirth DEF Live
  <2>3. CASE pod[target].st \notin {"RUNNING", "EXITED"}
    <3>1. pod' = pod
      BY <1>2, <2>0, <2>3 DEF DeleteLands
    <3> QED
      BY <3>1 DEF NoBirth, Live
  <2> QED
    BY <2>1, <2>2, <2>3
<1> QED
  BY <1>1, <1>2 DEF Delete

\* Workers that are born or not, time that passes: hidden pods stay young.
LEMMA WorldHidden ==
  ASSUME CoreTypeOK, ExitInv, World
  PROVE  /\ \A w \in Workers : HiddenOK(w)'
         /\ \/ NoBirth /\ now' = now
            \/ UNCHANGED pod /\ now' = now + 1 /\ now < MaxTime
            \/ pod[Control].st = "RUNNING"
<1>0. pod \in [Pods -> PodRecord] /\ now \in Nat /\ MaxTime \in Nat /\ HideMax \in Nat
      /\ Workers \subseteq Pods
  BY ProviderAssumption DEF CoreTypeOK, ProvTypeOK, Pods
<1>i. \A w \in Workers : HiddenOK(w)
  BY DEF ExitInv
<1>1. ASSUME NEW v \in Workers, CreatePod(v)
      PROVE  (\A w \in Workers : HiddenOK(w)') /\ pod[Control].st = "RUNNING"
  <2>1. PICK r \in Rates, seen \in BOOLEAN :
           /\ HideMax = 0 => seen
           /\ pod' = [pod EXCEPT ![v] = [st |-> "RUNNING", born |-> now, ended |-> 0,
                                         rate |-> r, listed |-> seen]]
    BY <1>1 DEF CreatePod, Born
  <2>2. now' = now /\ now + HideMax <= MaxTime /\ pod[Control].st = "RUNNING"
    BY <1>1 DEF CreatePod, Born
  <2>3. ASSUME NEW w \in Workers PROVE HiddenOK(w)'
    <3>1. CASE w = v
      BY <1>0, <2>1, <2>2, <3>1 DEF HiddenOK
    <3>2. CASE w # v
      <4>1. pod'[w] = pod[w]
        BY <1>0, <2>1, <3>2
      <4> QED
        BY <1>i, <2>2, <4>1 DEF HiddenOK
    <3> QED
      BY <3>1, <3>2
  <2> QED
    BY <2>2, <2>3
<1>2. ASSUME NEW v \in Workers, AppearInListing(v) \/ Reclaim(v)
      PROVE  NoBirth /\ now' = now
  <2>1. CASE AppearInListing(v)
    <3>1. ASSUME NEW w \in Workers
          PROVE  /\ pod'[w].born = pod[w].born
                 /\ pod[w].listed => pod'[w].listed
                 /\ pod'[w].st = pod[w].st
      <4>1. CASE w # v
        BY <1>0, <2>1, <4>1 DEF AppearInListing
      <4>2. CASE w = v
        BY <1>0, <2>1, <4>2 DEF AppearInListing, PodRecord
      <4> QED
        BY <4>1, <4>2
    <3> QED
      BY <2>1, <3>1 DEF AppearInListing, NoBirth, Live
  <2>2. CASE Reclaim(v)
    <3>1. PICK s \in {"EXITED", "TERMINATED", "gone"} :
             /\ pod' = [pod EXCEPT ![v] = Becomes(v, s)]
             /\ Live(v) \/ (pod[v].st = "TERMINATED" /\ s = "gone")
      BY <2>2 DEF Reclaim
    <3>2. v \in Pods /\ pod[v].st # "absent"
      BY <1>0, <3>1 DEF Live
    <3> QED
      BY <2>2, <3>1, <3>2, BecomesNoBirth DEF Reclaim
  <2> QED
    BY <1>2, <2>1, <2>2
<1>3. ASSUME NoBirth, now' = now, NEW w \in Workers PROVE HiddenOK(w)'
  BY <1>i, <1>3 DEF NoBirth, HiddenOK
<1>4. ASSUME Tick
      PROVE  /\ \A w \in Workers : HiddenOK(w)'
             /\ UNCHANGED pod /\ now' = now + 1 /\ now < MaxTime
  <2>1. ASSUME NEW w \in Workers PROVE HiddenOK(w)'
    <3>1. pod[w].born \in Nat
      BY <1>0 DEF PodRecord
    <3> QED
      BY <1>0, <1>i, <1>4, <3>1 DEF Tick, HiddenOK
  <2> QED
    BY <1>4, <2>1 DEF Tick
<1> QED
  BY <1>1, <1>2, <1>3, <1>4 DEF World

\* The provider, the gateway and the clock.
LEMMA WorldExit ==
  ASSUME CoreTypeOK, BarrierInv, ExitInv, World,
         UNCHANGED <<memVars, exitCode, fileVars, crashes>>
  PROVE  ExitInv'
<1>1. UNCHANGED <<pc, phase, wake, listing, cleanReads>>
  BY DEF memVars
<1>2. ASSUME phase = "sweep", NEW w \in Workers, pod'[w].st # "absent" PROVE SweptOK(w)'
  <2>1. pod[Control].st # "RUNNING"
    BY <1>2 DEF BarrierInv, Dead
  <2>2. /\ pod \in [Pods -> PodRecord] /\ w \in Pods /\ now \in 0 .. MaxTime /\ wake \in Nat
        /\ MaxTime \in Nat /\ Interval \in Nat
    BY ProviderAssumption, CoreAssumption DEF CoreTypeOK, ProvTypeOK, Pods
  <2>3. pod[w].born \in Nat
    BY <2>2 DEF PodRecord
  <2>4. CASE NoBirth /\ now' = now
    <3>1. SweptOK(w) /\ pod'[w].born = pod[w].born /\ (Live(w)' => Live(w))
      BY <1>2, <2>4 DEF NoBirth, ExitInv
    <3> QED
      BY <1>1, <2>4, <3>1 DEF SweptOK, Aged
  <2>5. CASE UNCHANGED pod /\ now' = now + 1 /\ now < MaxTime
    <3>1. SweptOK(w)
      BY <1>2, <2>5 DEF ExitInv
    <3> QED
      BY <1>1, <2>2, <2>3, <2>5, <3>1 DEF SweptOK, Aged, Live
  <2> QED
    BY <2>1, <2>4, <2>5, WorldHidden
<1> QED
  BY <1>1, <1>2, WorldHidden DEF ExitInv
\* The third listing of a sweep, and every later one, shows all that lives.
LEMMA ListExit ==
  ASSUME CoreTypeOK, ExitInv, HideMax <= Interval + Interval, ListPods
  PROVE  ExitInv'
<1>1. UNCHANGED <<now, pod, phase, wake, cleanReads>> /\ pc = "list" /\ pc' \in {"survey", "lookup"}
  BY DEF ListPods, provVars
<1>2. ASSUME phase = "sweep", NEW w \in Workers, pod[w].st # "absent" PROVE SweptOK(w)'
  <2>1. SweptOK(w) /\ HiddenOK(w)
    BY <1>2 DEF ExitInv
  <2>2. ASSUME cleanReads >= 2, Live(w) PROVE listing'[w] \in {"RUNNING", "EXITED"}
    <3>1. w \in Pods /\ now \in Nat /\ pod[w].born \in Nat /\ pod[w].listed \in BOOLEAN
          /\ Interval \in Nat /\ HideMax \in Nat /\ cleanReads \in Nat /\ MaxTime \in Nat
      BY ProviderAssumption, CoreAssumption
      DEF CoreTypeOK, ProvTypeOK, PodRecord, Pods, CleanReads
    <3>2. now = MaxTime \/ now >= pod[w].born + Interval + Interval
      BY <1>1, <2>1, <2>2, <3>1 DEF SweptOK, Aged
    <3>3. pod[w].listed
      BY <1>2, <2>1, <3>1, <3>2 DEF HiddenOK
    <3>4. PICK omitted \in SUBSET Omittable : listing' = Listing(omitted)
      BY DEF ListPods
    <3>5. w \notin omitted
      BY <2>2, <3>4 DEF Omittable, Live
    <3> QED
      BY <2>2, <3>1, <3>3, <3>4, <3>5 DEF Listing, Live
  <2> QED
    BY <1>1, <2>1, <2>2 DEF SweptOK, Aged, Live
<1> QED
  BY <1>1, <1>2 DEF ExitInv, HiddenOK

\* An exact lookup says what is so now: it hides no worker that lives.
LEMMA LookUpExit ==
  ASSUME CoreTypeOK, ExitInv, NEW p \in Workers, LookUp(p)
  PROVE  ExitInv'
<1>1. UNCHANGED <<now, pod, phase, wake, cleanReads>> /\ pc = "lookup" /\ pc' \in {"survey", "lookup"}
  BY DEF LookUp, provVars
<1>2. ASSUME phase = "sweep", NEW w \in Workers, pod[w].st # "absent" PROVE SweptOK(w)'
  <2>1. SweptOK(w) /\ w \in Pods
    BY <1>2 DEF ExitInv, Pods
  <2>2. listing'[w] \in {listing[w], pod[w].st}
    BY <2>1 DEF LookUp, CoreTypeOK
  <2> QED
    BY <1>1, <2>1, <2>2 DEF SweptOK, Aged, Live
<1> QED
  BY <1>1, <1>2 DEF ExitInv, HiddenOK

\* A clean read: no worker that lives was in the listing.
LEMMA SweepExit ==
  ASSUME CoreTypeOK, ExitInv, SweepSurvey
  PROVE  ExitInv'
<1>1. /\ UNCHANGED <<now, pod, phase>> /\ pc = "survey" /\ phase = "sweep"
  BY DEF SweepSurvey, SurveyWrites, provVars
<1>2. /\ now \in 0 .. MaxTime /\ Interval \in Nat /\ cleanReads \in Nat
      /\ pod \in [Pods -> PodRecord] /\ Workers \subseteq Pods /\ MaxTime \in Nat
  BY ProviderAssumption, CoreAssumption DEF CoreTypeOK, ProvTypeOK, Pods, CleanReads
<1>3. CASE LiveIds # {}
  <2>1. cleanReads' = 0 /\ pc' = "delete"
    BY <1>3 DEF SweepSurvey, StartDelete
  <2> QED
    BY <1>1, <2>1 DEF ExitInv, HiddenOK, SweptOK, CleanReads
<1>4. CASE LiveIds = {}
  <2>1. cleanReads' = cleanReads + 1 /\ pc' = "sleep" /\ wake' = now + Interval
    BY <1>4 DEF SweepSurvey, SleepInterval
  <2>2. ASSUME NEW w \in Workers, pod[w].st # "absent" PROVE SweptOK(w)'
    <3>1. SweptOK(w) /\ HiddenOK(w) /\ pod[w].born \in Nat
      BY <1>1, <1>2, <2>2 DEF ExitInv, PodRecord
    <3>2. now = MaxTime \/ Aged(w, now)
      BY <1>1, <3>1 DEF SweptOK
    <3>3. (now = MaxTime \/ Aged(w, wake))'
      BY <1>1, <1>2, <2>1, <3>1, <3>2 DEF Aged, HiddenOK
    <3>4. cleanReads >= 2 => ~Live(w)
      <4>1. Ours(w) /\ w \in Pods
        BY ProviderAssumption DEF Ours, Pods
      <4>2. listing[w] \notin {"RUNNING", "EXITED"}
        BY <1>4, <4>1 DEF LiveIds
      <4> QED
        BY <1>1, <3>1, <4>2 DEF SweptOK
    <3> QED
      BY <1>1, <1>2, <2>1, <3>3, <3>4 DEF SweptOK, CleanReads, Live
  <2> QED
    BY <1>1, <2>1, <2>2 DEF ExitInv, HiddenOK
<1> QED
  BY <1>3, <1>4

\* The other steps of the closeout.
LEMMA DeletesExit ==
  ASSUME CoreTypeOK, BarrierInv, ExitInv, Delete \/ Verified \/ TryAgain \/ GiveUp
  PROVE  ExitInv'
<1>1. /\ phase \in {"stop", "sweep"} /\ (phase = "sweep" => cleanReads = 0) /\ now' = now
      /\ phase = "stop" => target \notin doomed
  BY DEF Delete, Verified, TryAgain, GiveUp, BarrierInv, ExitInv, provVars
<1>2. \A w \in Workers : HiddenOK(w)'
  <2>1. CASE Delete
    BY <1>1, <2>1, DeleteNoBirth DEF NoBirth, ExitInv, HiddenOK
  <2>2. CASE ~Delete
    BY <1>1, <2>2 DEF Verified, TryAgain, GiveUp, provVars, ExitInv, HiddenOK
  <2> QED
    BY <2>1, <2>2
<1>3. pc' # "exited" /\ (phase' = "sweep" => cleanReads' = 0 /\ pc' \in {"delete", "verify", "list"})
  <2>1. CASE Delete \/ TryAgain
    BY <1>1, <2>1 DEF Delete, TryAgain
  <2>2. CASE Verified \/ (GiveUp /\ phase # "stop")
    <3>1. DeleteReturns
      BY <2>2 DEF Verified, GiveUp
    <3>2. CASE target \in doomed /\ doomed # {target}
      BY <1>1, <3>1, <3>2 DEF DeleteReturns, StartDelete
    <3>3. CASE ~(target \in doomed /\ doomed # {target})
      BY <1>1, <3>1, <3>3 DEF DeleteReturns
    <3> QED
      BY <3>2, <3>3
  <2>3. CASE GiveUp /\ phase = "stop"
    BY <2>3 DEF GiveUp, SleepInterval
  <2> QED
    BY <2>1, <2>2, <2>3
<1> QED
  BY <1>2, <1>3 DEF ExitInv, SweptOK, Aged, CleanReads

\* Failed reads and sleeps of the sweep only let the workers grow older.
LEMMA RetriesExit ==
  ASSUME CoreTypeOK, CountOK, ExitInv, SweepReadFails \/ SweepSurveyFails \/ WakeToSweep
  PROVE  ExitInv'
<1>1. UNCHANGED <<now, pod, phase, cleanReads>> /\ phase = "sweep"
  BY DEF SweepReadFails, SweepSurveyFails, WakeToSweep, provVars
<1>2. /\ now \in 0 .. MaxTime /\ Interval \in Nat /\ cleanReads \in 0 .. CleanReads /\ wake \in Nat
      /\ pod \in [Pods -> PodRecord] /\ Workers \subseteq Pods /\ MaxTime \in Nat
  BY ProviderAssumption, CoreAssumption DEF CoreTypeOK, ProvTypeOK, Pods
<1>3. \/ pc \in {"list", "lookup"} /\ pc' = "sleep" /\ wake' = now + Interval
      \/ pc = "survey" /\ pc' = "list"
      \/ pc = "sleep" /\ pc' = "list" /\ (now >= wake \/ now = MaxTime)
      \/ pc = "sleep" /\ pc' = "exited" /\ cleanReads >= CleanReads
  <2>1. CASE SweepReadFails
    BY <2>1 DEF SweepReadFails, ReadFails, SleepInterval
  <2>2. CASE SweepSurveyFails
    BY <2>2 DEF SweepSurveyFails, SurveyFails
  <2>3. CASE WakeToSweep
    BY <1>2, <2>3 DEF WakeToSweep, SleepEnds, CleanReads
  <2> QED
    BY <2>1, <2>2, <2>3
<1>4. ASSUME NEW w \in Workers, pod[w].st # "absent" PROVE SweptOK(w)'
  <2>1. SweptOK(w) /\ pod[w].born \in Nat
    BY <1>1, <1>2, <1>4 DEF ExitInv, PodRecord
  <2> QED
    BY <1>1, <1>2, <1>3, <2>1 DEF SweptOK, Aged, Live
<1>5. pc' = "exited" => cleanReads = CleanReads
  BY <1>2, <1>3 DEF CleanReads
<1> QED
  BY <1>1, <1>3, <1>4, <1>5 DEF ExitInv, HiddenOK

\* Every shared step keeps the exit's invariant.
LEMMA SharedExit ==
  ASSUME CoreTypeOK, CountOK, BarrierInv, ExitInv, HideMax <= Interval + Interval,
         \/ World /\ UNCHANGED <<memVars, exitCode, fileVars, crashes>>
         \/ ListPods \/ \E p \in Workers : LookUp(p)
         \/ Closeout
         \/ WakeToPoll \/ WakeToStop \/ RequestStandDown \/ Crash \/ Arm
  PROVE  ExitInv'
<1>1. CASE World /\ UNCHANGED <<memVars, exitCode, fileVars, crashes>>
  BY <1>1, WorldExit
<1>2. CASE ListPods \/ \E p \in Workers : LookUp(p)
  BY <1>2, ListExit, LookUpExit
<1>3. CASE Closeout
  BY <1>3, DeletesExit, SweepExit, RetriesExit DEF Closeout
<1>4. CASE WakeToPoll \/ WakeToStop \/ Crash
  <2>1. UNCHANGED <<now, pod>> /\ phase' # "sweep" /\ pc' # "exited"
    BY <1>4 DEF WakeToPoll, WakeToStop, Crash, StartDelete, provVars
  <2> QED
    BY <2>1 DEF ExitInv, HiddenOK
<1>5. CASE RequestStandDown
  BY <1>5 DEF RequestStandDown, memVars, provVars, ExitInv, HiddenOK, SweptOK, Aged, Live
<1>6. CASE Arm
  <2>1. UNCHANGED <<now, pod, phase, wake, listing, cleanReads>> /\ pc' = "poll"
    BY <1>6 DEF Arm, provVars
  <2> QED
    BY <2>1 DEF ExitInv, HiddenOK, SweptOK, Live
<1> QED
  BY <1>1, <1>2, <1>3, <1>4, <1>5, <1>6

\* Before the sweep there is nothing to know.
LEMMA InitExit == CoreInit => ExitInv
<1> SUFFICES ASSUME CoreInit PROVE ExitInv
  OBVIOUS
<1>1. phase = "watch" /\ pc = "poll" /\ now = 0
  BY DEF CoreInit, MemInit, ProvInit
<1>2. ASSUME NEW w \in Workers PROVE HiddenOK(w)
  <2>1. w \in Pods
    BY DEF Pods
  <2>2. pod[w].born = 0 /\ pod[w].st = "absent"
    BY <2>1 DEF CoreInit, ProvInit
  <2> QED
    BY <1>1, <2>2 DEF HiddenOK
<1> QED
  BY <1>1, <1>2 DEF ExitInv

----------------------------------------------------------------------------
(* THE TOTAL.  What is booked is a sum over the ledger.                    *)

\* An entry that only grows costs no less later.
LEMMA EntryCostGrows ==
  ASSUME NEW e \in LedgerEntry, NEW f \in LedgerEntry, NEW t \in Nat, NEW u \in Nat, t <= u,
         e.known => /\ f.known
                    /\ f.created <= e.created
                    /\ f.rate >= e.rate
                    /\ e.terminalAt # Open => f.terminalAt = e.terminalAt,
         e.terminalAt = Open => f.terminalAt \in {Open, t}
  PROVE  /\ EntryCost(e, t) \in Nat /\ EntryCost(f, u) \in Nat
         /\ EntryCost(e, t) <= EntryCost(f, u)
<1> DEFINE span(g, v) == Greatest(0, (IF g.terminalAt = Open THEN v ELSE g.terminalAt) - g.created)
<1>1. /\ e.rate \in Nat /\ e.created \in Nat /\ e.terminalAt \in Nat \cup {Open}
      /\ f.rate \in Nat /\ f.created \in Nat /\ f.terminalAt \in Nat \cup {Open}
  BY DEF LedgerEntry
<1>2. span(e, t) \in Nat /\ span(f, u) \in Nat
  BY <1>1 DEF Greatest, Open
<1>3. e.known => span(f, u) >= span(e, t)
  BY <1>1 DEF Greatest, Open
<1>4. /\ EntryCost(e, t) = IF e.known THEN e.rate * span(e, t) ELSE 0
      /\ EntryCost(f, u) = IF f.known THEN f.rate * span(f, u) ELSE 0
  BY DEF EntryCost
<1> HIDE DEF span
<1>5. e.rate * span(e, t) \in Nat /\ f.rate * span(f, u) \in Nat
  BY <1>1, <1>2
<1>6. e.known => f.rate * span(f, u) >= e.rate * span(e, t)
  BY <1>1, <1>2, <1>3, ProductMono
<1> QED
  BY <1>4, <1>5, <1>6

\* So the total never falls.
LEMMA TotalGrows ==
  ASSUME CoreTypeOK, CoreTypeOK', LedgerGrows, now <= now'
  PROVE  /\ LedgerCost(ledger, now) \in Nat /\ LedgerCost(ledger, now)' \in Nat
         /\ LedgerCost(ledger, now) <= LedgerCost(ledger, now)'
<1> DEFINE c == [p \in Pods |-> EntryCost(ledger[p], now)]
           d == [p \in Pods |-> EntryCost(ledger'[p], now')]
<1>1. \A p \in Pods : c[p] \in Nat /\ d[p] \in Nat /\ c[p] <= d[p]
  <2> TAKE p \in Pods
  <2>1. ledger[p] \in LedgerEntry /\ ledger'[p] \in LedgerEntry /\ now \in Nat /\ now' \in Nat
    BY ProviderAssumption DEF CoreTypeOK, ProvTypeOK
  <2> QED
    BY <2>1, EntryCostGrows DEF LedgerGrows, NothingForgotten
<1>2. IsFiniteSet(Pods)
  BY ProviderAssumption, FS_AddElement DEF Pods
<1>3. LedgerCost(ledger, now) = SumFunctionOnSet(c, Pods)
  BY DEF LedgerCost, SumFunction, CoreTypeOK
<1>4. LedgerCost(ledger, now)' = SumFunctionOnSet(d, Pods)
  BY DEF LedgerCost, SumFunction, CoreTypeOK
<1> HIDE DEF c, d
<1> QED
  BY <1>1, <1>2, <1>3, <1>4, SumType, SumMono

----------------------------------------------------------------------------
(* THE EXIT CODE.                                                          *)

\* A closeout has a label, and the exit code is the label's.
LabelInv ==
  /\ phase = "watch" <=> label = "none"
  /\ pc \in {"delete", "verify", "exited"} => phase # "watch"
  /\ label = "stand-down" => standDown
  /\ pc # "exited" => exitCode = NotExited
  /\ exitCode \in {NotExited, IF label = "breach" THEN 2 ELSE 0}

LEMMA SharedLabel ==
  ASSUME CoreTypeOK, LabelInv,
         \/ World /\ UNCHANGED <<memVars, exitCode, fileVars, crashes>>
         \/ ListPods \/ \E p \in Workers : LookUp(p)
         \/ Closeout
         \/ WakeToPoll \/ WakeToStop \/ RequestStandDown \/ Crash \/ Arm
  PROVE  LabelInv' /\ label' \in {label, "none"} /\ now <= now'
<1> USE DEF LabelInv
<1>0. now <= now
  BY ProviderAssumption DEF CoreTypeOK, ProvTypeOK
<1>1. CASE World /\ UNCHANGED <<memVars, exitCode, fileVars, crashes>>
  <2>1. now' \in {now, now + 1}
    BY <1>1 DEF World, CreatePod, Born, AppearInListing, Reclaim, Tick
  <2>2. now \in Int
    BY ProviderAssumption DEF CoreTypeOK, ProvTypeOK
  <2>3. now <= now'
    BY <2>1, <2>2
  <2> QED
    BY <1>1, <2>3 DEF memVars, fileVars
<1> USE <1>0 DEF provVars, fileVars
<1>2. CASE ListPods \/ \E p \in Workers : LookUp(p)
  BY <1>2 DEF ListPods, LookUp
<1>3. CASE Delete \/ TryAgain
  BY <1>3 DEF Delete, TryAgain
<1>4. CASE Verified \/ GiveUp
  <2>1. DeleteReturns => phase' \in {phase, "sweep"} /\ pc' \in {"delete", "list"}
    BY DEF DeleteReturns, StartDelete
  <2> QED
    BY <1>4, <2>1 DEF Verified, GiveUp, SleepInterval
<1>5. CASE SweepReadFails \/ SweepSurveyFails
  BY <1>5 DEF SweepReadFails, ReadFails, SweepSurveyFails, SurveyFails, SleepInterval
<1>6. CASE SweepSurvey
  BY <1>6 DEF SweepSurvey, SurveyWrites, SleepInterval, StartDelete
<1>7. CASE WakeToSweep
  BY <1>7 DEF WakeToSweep, SleepEnds, NotExited
<1>8. CASE WakeToPoll \/ WakeToStop \/ RequestStandDown \/ Crash \/ Arm
  BY <1>8 DEF WakeToPoll, WakeToStop, RequestStandDown, Crash, Arm, SleepEnds, StartDelete,
              memVars
<1> QED
  BY <1>1, <1>2, <1>3, <1>4, <1>5, <1>6, <1>7, <1>8 DEF Closeout

----------------------------------------------------------------------------
(* THE BILL.  What the provider charges for the time that has passed does  *)
(* not change any more, and a unit of time adds at most MaxRate for each   *)
(* of MaxLive workers.                                                     *)

\* The workers that are charged.
LiveWorkers == {w \in Workers : Live(w)}

AliveInv == Cardinality(LiveWorkers) <= MaxLive

\* The past bill of a worker stands, and only the gateway brings one to life.
BillKept(w) ==
  /\ \A t \in 0 .. now : Bill(w, t)' = Bill(w, t)
  /\ pod'[w].born = pod[w].born \/ (pod[w].st = "absent" /\ pod'[w].born = now)

\* What any step does to the workers, the gateway's limit and the clock.
BillStep ==
  /\ \A w \in Workers : BillKept(w)
  /\ AliveInv'
  /\ now' = now \/ (now' = now + 1 /\ UNCHANGED pod)

LEMMA WorkersFinite == IsFiniteSet(Workers) /\ Workers \subseteq Pods
<1>1. IsFiniteSet(Workers)
  BY ProviderAssumption, FS_Subset
<1> QED
  BY <1>1 DEF Pods

\* Fewer or the same workers are alive.
LEMMA NoneAlive ==
  ASSUME AliveInv, \A w \in Workers : Live(w)' => Live(w)
  PROVE  AliveInv'
<1>1. IsFiniteSet(LiveWorkers) /\ LiveWorkers' \in SUBSET LiveWorkers
  BY WorkersFinite, FS_Subset DEF LiveWorkers
<1>2. Cardinality(LiveWorkers') <= Cardinality(LiveWorkers) /\ IsFiniteSet(LiveWorkers')
  BY <1>1, FS_Subset
<1>3. Cardinality(LiveWorkers') \in Nat /\ Cardinality(LiveWorkers) \in Nat /\ MaxLive \in Nat
  BY <1>1, <1>2, FS_CardinalityType, ProviderAssumption
<1> QED
  BY <1>2, <1>3 DEF AliveInv

\* A step that leaves the workers alone.
LEMMA BillFrame ==
  ASSUME CoreTypeOK, AliveInv, \A w \in Workers : pod'[w] = pod[w],
         now' = now \/ (now' = now + 1 /\ UNCHANGED pod)
  PROVE  BillStep
<1>1. \A w \in Workers : BillKept(w)
  BY DEF BillKept, Bill, BilledTime, Dead
<1>2. AliveInv'
  BY NoneAlive DEF Live
<1> QED
  BY <1>1, <1>2 DEF BillStep

\* A pod that stops or ends: its bill ends now, at the earliest.
LEMMA BecomesBill ==
  ASSUME CoreTypeOK, MeterInv, AliveInv, NEW p \in Pods,
         NEW s \in {"EXITED", "TERMINATED", "gone"},
         Live(p) \/ (pod[p].st = "TERMINATED" /\ s = "gone"),
         pod' = [pod EXCEPT ![p] = Becomes(p, s)], now' = now
  PROVE  BillStep
<1>0. pod \in [Pods -> PodRecord] /\ now \in Nat /\ Workers \subseteq Pods
  BY ProviderAssumption, WorkersFinite DEF CoreTypeOK, ProvTypeOK
<1>1. ASSUME NEW w \in Workers, w # p PROVE pod'[w] = pod[w]
  BY <1>0, <1>1
<1>2. ASSUME p \in Workers
      PROVE  BillKept(p) /\ (Live(p)' => Live(p))
  <2>1. pod[p] \in PodRecord /\ pod'[p] = Becomes(p, s) /\ MeterOK(p)
    BY <1>0, <1>2 DEF MeterInv
  <2>2. /\ pod'[p].st = s /\ pod'[p].born = pod[p].born /\ pod'[p].rate = pod[p].rate
    BY <2>1 DEF Becomes, PodRecord
  <2>3. pod'[p].ended = IF s \in {"TERMINATED", "gone"} /\ Live(p) THEN now ELSE pod[p].ended
    BY <2>1 DEF Becomes, PodRecord
  <2>4. pod[p].born \in Nat /\ pod[p].ended \in Nat /\ pod[p].st # "absent"
    BY <2>1 DEF PodRecord, Live
  <2>5. ASSUME NEW t \in 0 .. now PROVE BilledTime(p, t)' = BilledTime(p, t)
    <3>1. CASE Live(p)
      BY <1>0, <2>2, <2>3, <2>4, <3>1 DEF BilledTime, Dead, Live
    <3>2. CASE ~Live(p)
      BY <1>0, <2>2, <2>3, <2>4, <3>2 DEF BilledTime, Dead, Live
    <3> QED
      BY <3>1, <3>2
  <2>6. \A t \in 0 .. now : Bill(p, t)' = Bill(p, t)
    BY <2>2, <2>5 DEF Bill
  <2> QED
    BY <2>2, <2>6 DEF BillKept, Live
<1>3. \A w \in Workers : BillKept(w) /\ (Live(w)' => Live(w))
  <2> TAKE w \in Workers
  <2>1. CASE w # p
    BY <1>1, <2>1 DEF BillKept, Bill, BilledTime, Dead, Live
  <2>2. CASE w = p
    BY <1>2, <2>2
  <2> QED
    BY <2>1, <2>2
<1> QED
  BY <1>3, NoneAlive DEF BillStep

\* A new worker has cost nothing yet, and the gateway keeps its limit.
LEMMA CreateBill ==
  ASSUME CoreTypeOK, CoreTypeOK', AliveInv, NEW v \in Workers, CreatePod(v)
  PROVE  BillStep
<1>0. pod \in [Pods -> PodRecord] /\ pod' \in [Pods -> PodRecord] /\ now \in Nat /\ v \in Pods
  BY ProviderAssumption, WorkersFinite DEF CoreTypeOK, ProvTypeOK
<1>1. /\ now' = now /\ pod[v].st = "absent" /\ Cardinality(LiveWorkers) < MaxLive
      /\ pod'[v].born = now /\ pod'[v].st = "RUNNING"
      /\ \A q \in Pods : q # v => pod'[q] = pod[q]
  BY <1>0 DEF CreatePod, Born, LiveWorkers
<1>2. ASSUME NEW t \in 0 .. now PROVE Bill(v, t)' = Bill(v, t)
  <2>1. BilledTime(v, t) = 0
    BY <1>1 DEF BilledTime
  <2>2. BilledTime(v, t)' = 0
    BY <1>0, <1>1, <1>2 DEF BilledTime, Dead
  <2>3. pod[v].rate \in Nat /\ pod'[v].rate \in Nat
    BY <1>0 DEF PodRecord
  <2> QED
    BY <2>1, <2>2, <2>3 DEF Bill
<1>3. \A w \in Workers : BillKept(w)
  <2> TAKE w \in Workers
  <2>1. CASE w # v
    <3>1. pod'[w] = pod[w]
      BY <1>1, <2>1, WorkersFinite
    <3> QED
      BY <3>1 DEF BillKept, Bill, BilledTime, Dead
  <2>2. CASE w = v
    BY <1>1, <1>2, <2>2 DEF BillKept
  <2> QED
    BY <2>1, <2>2
<1>4. AliveInv'
  <2>1. LiveWorkers' = LiveWorkers \cup {v}
    BY <1>1, WorkersFinite DEF LiveWorkers, Live
  <2>2. IsFiniteSet(LiveWorkers)
    BY WorkersFinite, FS_Subset DEF LiveWorkers
  <2>3. Cardinality(LiveWorkers') \in {Cardinality(LiveWorkers), Cardinality(LiveWorkers) + 1}
    BY <2>1, <2>2, FS_AddElement
  <2>4. Cardinality(LiveWorkers) \in Nat /\ MaxLive \in Nat
    BY <2>2, FS_CardinalityType, ProviderAssumption
  <2> QED
    BY <1>1, <2>3, <2>4 DEF AliveInv
<1> QED
  BY <1>1, <1>3, <1>4 DEF BillStep

\* The provider, the gateway and the clock.
LEMMA WorldBill ==
  ASSUME CoreTypeOK, CoreTypeOK', MeterInv, AliveInv, World
  PROVE  BillStep
<1>0. pod \in [Pods -> PodRecord] /\ Workers \subseteq Pods
  BY WorkersFinite DEF CoreTypeOK, ProvTypeOK
<1>1. ASSUME NEW v \in Workers, AppearInListing(v) PROVE BillStep
  <2>1. now' = now /\ pod' = [pod EXCEPT ![v].listed = TRUE]
    BY <1>1 DEF AppearInListing
  <2>2. ASSUME NEW w \in Workers
        PROVE  /\ pod'[w].st = pod[w].st /\ pod'[w].born = pod[w].born
               /\ pod'[w].ended = pod[w].ended /\ pod'[w].rate = pod[w].rate
    <3>1. CASE w # v
      BY <1>0, <2>1, <3>1
    <3>2. CASE w = v
      BY <1>0, <2>1, <3>2 DEF PodRecord
    <3> QED
      BY <3>1, <3>2
  <2>3. \A w \in Workers : BillKept(w) /\ (Live(w)' => Live(w))
    BY <2>2 DEF BillKept, Bill, BilledTime, Dead, Live
  <2> QED
    BY <2>1, <2>3, NoneAlive DEF BillStep
<1>2. ASSUME NEW v \in Workers, Reclaim(v) PROVE BillStep
  <2>1. PICK s \in {"EXITED", "TERMINATED", "gone"} :
           /\ pod' = [pod EXCEPT ![v] = Becomes(v, s)]
           /\ Live(v) \/ (pod[v].st = "TERMINATED" /\ s = "gone")
    BY <1>2 DEF Reclaim
  <2> QED
    BY <1>0, <1>2, <2>1, BecomesBill DEF Reclaim
<1>3. CASE Tick
  BY <1>3, BillFrame DEF Tick
<1> QED
  BY <1>1, <1>2, <1>3, CreateBill DEF World

\* A DELETE.
LEMMA DeleteBill ==
  ASSUME CoreTypeOK, MeterInv, AliveInv, Delete
  PROVE  BillStep
<1>0. target \in Pods /\ pod \in [Pods -> PodRecord] /\ now' = now
  BY DEF Delete, CoreTypeOK, ProvTypeOK
<1>1. CASE UNCHANGED pod
  BY <1>0, <1>1, BillFrame
<1>2. CASE DeleteLands(target)
  <2>1. CASE pod[target].st = "RUNNING"
    <3>1. pod' = [pod EXCEPT ![target] = Becomes(target, "EXITED")]
      BY <1>2, <2>1 DEF DeleteLands
    <3> QED
      BY <1>0, <2>1, <3>1, BecomesBill DEF Live
  <2>2. CASE pod[target].st = "EXITED"
    <3>1. pod' = [pod EXCEPT ![target] = Becomes(target, "TERMINATED")]
      BY <1>2, <2>2 DEF DeleteLands
    <3> QED
      BY <1>0, <2>2, <3>1, BecomesBill DEF Live
  <2>3. CASE pod[target].st \notin {"RUNNING", "EXITED"}
    <3>1. pod' = pod
      BY <1>0, <1>2, <2>3 DEF DeleteLands
    <3> QED
      BY <1>0, <3>1, BillFrame
  <2> QED
    BY <2>1, <2>2, <2>3
<1> QED
  BY <1>1, <1>2 DEF Delete

\* Every shared step.
LEMMA SharedBills ==
  ASSUME CoreTypeOK, CoreTypeOK', MeterInv, AliveInv,
         \/ World /\ UNCHANGED <<memVars, exitCode, fileVars, crashes>>
         \/ ListPods \/ \E p \in Workers : LookUp(p)
         \/ Closeout
         \/ WakeToPoll \/ WakeToStop \/ RequestStandDown \/ Crash \/ Arm
  PROVE  BillStep
<1>1. CASE World
  BY <1>1, WorldBill
<1>2. CASE Delete
  BY <1>2, DeleteBill
<1>3. CASE ~World /\ ~Delete
  <2>1. UNCHANGED <<now, pod>>
    BY <1>3 DEF ListPods, LookUp, Closeout, Verified, TryAgain, GiveUp, SweepReadFails,
                SweepSurveyFails, SweepSurvey, WakeToSweep, WakeToPoll, WakeToStop,
                RequestStandDown, Crash, Arm, provVars
  <2> QED
    BY <2>1, BillFrame
<1> QED
  BY <1>1, <1>2, <1>3

\* No worker is alive at first.
LEMMA InitAlive == CoreInit => AliveInv
<1> SUFFICES ASSUME CoreInit PROVE AliveInv
  OBVIOUS
<1>1. LiveWorkers = {}
  BY WorkersFinite DEF CoreInit, ProvInit, LiveWorkers, Live
<1> QED
  BY <1>1, FS_EmptySet, ProviderAssumption DEF AliveInv

----------------------------------------------------------------------------
(* THE CONTRACT.  A step that both watchdogs share is one of               *)
(* CloseoutContract, or none.                                              *)

\* The four ways in which a step looks from the contract.
LEMMA Stutters ==
  ASSUME UNCHANGED pod, Stage' = Stage
  PROVE  UNCHANGED Contract!vars
BY DEF Contract!vars, Live

\* A step that leaves the pods alone may begin or abandon the closeout.
LEMMA StageSteps ==
  ASSUME UNCHANGED pod, Stage \in {"armed", "closing"}, Stage' \in {"armed", "closing"}
  PROVE  [Contract!Next]_(Contract!vars)
BY DEF Contract!Next, Contract!BeginCloseout, Contract!Abandon, Contract!vars, Live

\* A worker that is stopped or ends is charged no more, or still.
LEMMA WorkerEnds ==
  ASSUME CoreTypeOK, NEW p \in Workers, NEW s \in Statuses, Live(p) \/ s = "gone",
         pod' = [pod EXCEPT ![p] = Becomes(p, s)], Stage' = Stage
  PROVE  [Contract!Next]_(Contract!vars)
<1>1. p \in Pods /\ Control \in Pods /\ p # Control /\ Workers \subseteq Pods
      /\ pod \in [Pods -> PodRecord]
  BY ProviderAssumption DEF Pods, CoreTypeOK, ProvTypeOK
<1>2. pod'[Control] = pod[Control] /\ \A w \in Workers : w # p => pod'[w] = pod[w]
  BY <1>1
<1>3. Becomes(p, s).st = s
  BY <1>1 DEF Becomes, PodRecord
<1>4. pod'[p].st = s
  BY <1>1, <1>3
<1>5. LiveWorkers' = LiveWorkers \/ LiveWorkers' = LiveWorkers \ {p}
  <2>1. \A w \in Workers : w # p => (Live(w)' <=> Live(w))
    BY <1>2 DEF Live
  <2>2. Live(p)' => Live(p)
    BY <1>4 DEF Live
  <2> QED
    BY <2>1, <2>2 DEF LiveWorkers
<1> QED
  BY <1>2, <1>5 DEF LiveWorkers, Contract!Next, Contract!Shrink, Contract!vars

\* The control plane stops, or was not running any more.
LEMMA GatewayStops ==
  ASSUME CoreTypeOK, NEW s \in Statuses, s # "RUNNING",
         pod' = [pod EXCEPT ![Control] = Becomes(Control, s)], Stage' = Stage
  PROVE  [Contract!Next]_(Contract!vars)
<1>1. Control \in Pods /\ Control \notin Workers /\ Workers \subseteq Pods
      /\ pod \in [Pods -> PodRecord]
  BY ProviderAssumption DEF Pods, CoreTypeOK, ProvTypeOK
<1>2. \A w \in Workers : pod'[w] = pod[w]
  BY <1>1
<1>3. pod'[Control].st = s
  BY <1>1 DEF Becomes, PodRecord
<1>4. LiveWorkers' = LiveWorkers
  BY <1>2 DEF LiveWorkers, Live
<1> QED
  BY <1>3, <1>4 DEF LiveWorkers, Contract!Next, Contract!GatewayDown, Contract!vars

\* The gateway, the provider and the clock keep the contract.
LEMMA WorldContract ==
  ASSUME CoreTypeOK, World, UNCHANGED <<memVars, exitCode, fileVars, crashes>>
  PROVE  [Contract!Next]_(Contract!vars)
<1>0. /\ Control \in Pods /\ Control \notin Workers /\ Workers \subseteq Pods
      /\ pod \in [Pods -> PodRecord]
  BY ProviderAssumption DEF Pods, CoreTypeOK, ProvTypeOK
<1>1. Stage' = Stage
  BY DEF Stage, memVars
<1>2. ASSUME NEW v \in Workers, CreatePod(v) PROVE [Contract!Next]_(Contract!vars)
  <2>1. PICK new : new.st = "RUNNING" /\ pod' = [pod EXCEPT ![v] = new]
    <3>1. PICK r \in Rates, seen \in BOOLEAN :
             pod' = [pod EXCEPT ![v] = [st |-> "RUNNING", born |-> now, ended |-> 0,
                                        rate |-> r, listed |-> seen]]
      BY <1>2 DEF CreatePod, Born
    <3> QED
      BY <3>1
  <2>2. pod'[v].st = "RUNNING" /\ \A q \in Pods : q # v => pod'[q] = pod[q]
    BY <1>0, <2>1
  <2>3. LiveWorkers' = LiveWorkers \cup {v}
    <3>1. \A w \in Workers : w # v => (Live(w)' <=> Live(w))
      BY <1>0, <2>2 DEF Live
    <3>2. Live(v)'
      BY <2>2 DEF Live
    <3> QED
      BY <3>1, <3>2 DEF LiveWorkers
  <2>4. pod[Control].st = "RUNNING" /\ pod'[Control].st = "RUNNING"
    BY <1>0, <1>2, <2>2 DEF CreatePod, Born
  <2> QED
    BY <1>1, <2>3, <2>4 DEF LiveWorkers, Contract!Next, Contract!Grow
<1>3. ASSUME NEW v \in Workers, AppearInListing(v) PROVE [Contract!Next]_(Contract!vars)
  <2>1. \A q \in Pods : pod'[q].st = pod[q].st
    BY <1>0, <1>3 DEF AppearInListing, PodRecord
  <2>2. LiveWorkers' = LiveWorkers
    BY <1>0, <2>1 DEF LiveWorkers, Live
  <2> QED
    BY <1>0, <1>1, <2>1, <2>2 DEF LiveWorkers, Contract!vars
<1>4. ASSUME NEW v \in Workers, Reclaim(v) PROVE [Contract!Next]_(Contract!vars)
  <2>1. PICK s \in Statuses : /\ Live(v) \/ s = "gone"
                              /\ pod' = [pod EXCEPT ![v] = Becomes(v, s)]
    BY <1>4 DEF Reclaim, Statuses
  <2> QED
    BY <1>1, <2>1, WorkerEnds
<1>5. CASE Tick
  BY <1>1, <1>5, Stutters DEF Tick
<1> QED
  BY <1>2, <1>3, <1>4, <1>5 DEF World

\* A DELETE, on the control plane or on a worker, keeps the contract.
LEMMA DeleteContract ==
  ASSUME CoreTypeOK, BarrierInv, Delete
  PROVE  [Contract!Next]_(Contract!vars)
<1>1. Stage' = Stage
  BY DEF Delete, Stage
<1>2. CASE UNCHANGED pod
  BY <1>1, <1>2, Stutters
<1>3. CASE DeleteLands(target)
  <2>1. target \in Workers \cup {Control}
    BY DEF Delete, BarrierInv
  <2>2. \/ pod' = pod
        \/ Live(target) /\ \E s \in {"EXITED", "TERMINATED"} :
                             pod' = [pod EXCEPT ![target] = Becomes(target, s)]
    BY <1>3 DEF DeleteLands, Live, CoreTypeOK, ProvTypeOK
  <2>3. CASE pod' = pod
    BY <1>1, <2>3, Stutters
  <2>4. ASSUME Live(target), NEW s \in {"EXITED", "TERMINATED"},
               pod' = [pod EXCEPT ![target] = Becomes(target, s)]
        PROVE  [Contract!Next]_(Contract!vars)
    <3>1. s \in Statuses /\ s # "RUNNING"
      BY DEF Statuses
    <3> QED
      BY <1>1, <2>1, <2>4, <3>1, WorkerEnds, GatewayStops
  <2> QED
    BY <2>2, <2>3, <2>4
<1> QED
  BY <1>2, <1>3 DEF Delete

\* The closeout's exit is the contract's Close.
LEMMA ExitContract ==
  ASSUME BarrierInv, ExitInv, CountOK, cleanReads \in 0 .. CleanReads, WakeToSweep
  PROVE  [Contract!Next]_(Contract!vars)
<1>1. UNCHANGED pod /\ phase = "sweep" /\ pc = "sleep" /\ phase' = "sweep"
  BY DEF WakeToSweep, SleepEnds, provVars
<1>2. Stage = "closing"
  BY <1>1 DEF Stage
<1>3. CASE pc' = "list"
  BY <1>1, <1>2, <1>3, StageSteps DEF Stage
<1>4. CASE pc' = "exited" /\ cleanReads = CleanReads
  <2>1. \A w \in Workers : ~Live(w)
    BY <1>1, <1>4 DEF ExitInv, SweptOK, Live
  <2>2. pod[Control].st # "RUNNING"
    BY <1>1 DEF BarrierInv, Dead
  <2>3. Stage' = "closed"
    BY <1>1, <1>4 DEF Stage
  <2>4. LiveWorkers = {} /\ LiveWorkers' = {}
    BY <1>1, <2>1 DEF LiveWorkers, Live
  <2> QED
    BY <1>1, <1>2, <2>2, <2>3, <2>4 DEF LiveWorkers, Contract!Next, Contract!Close
<1> QED
  <2>1. pc' = "list" \/ (pc' = "exited" /\ cleanReads = CleanReads)
    BY DEF WakeToSweep, CleanReads
  <2> QED
    BY <1>3, <1>4, <2>1

\* What the watchdogs share is a step of the contract, or none.
LEMMA SharedContract ==
  ASSUME CoreTypeOK, CountOK, BarrierInv, ExitInv,
         \/ World /\ UNCHANGED <<memVars, exitCode, fileVars, crashes>>
         \/ ListPods \/ \E p \in Workers : LookUp(p)
         \/ Closeout \/ WakeToStop \/ RequestStandDown \/ Crash \/ Arm
  PROVE  [Contract!Next]_(Contract!vars)
<1>1. CASE World /\ UNCHANGED <<memVars, exitCode, fileVars, crashes>>
  BY <1>1, WorldContract
<1>2. CASE Delete
  BY <1>2, DeleteContract
<1>3. CASE WakeToSweep
  BY <1>3, ExitContract DEF CoreTypeOK
<1>4. CASE \/ Verified \/ TryAgain \/ GiveUp \/ SweepReadFails \/ SweepSurveyFails \/ SweepSurvey
           \/ WakeToStop
  <2>1. UNCHANGED pod /\ pc # "exited" /\ pc' # "exited"
    BY <1>4 DEF Verified, TryAgain, GiveUp, DeleteReturns, SweepReadFails, ReadFails,
                SweepSurveyFails, SurveyFails, SweepSurvey, SurveyWrites, WakeToStop, SleepEnds,
                StartDelete, SleepInterval, provVars
  <2> QED
    BY <2>1, StageSteps DEF Stage
<1>5. CASE (ListPods \/ \E p \in Workers : LookUp(p)) \/ Crash \/ Arm
  <2>1. UNCHANGED pod /\ pc # "exited" /\ pc' # "exited"
    BY <1>5 DEF ListPods, LookUp, Crash, Arm, provVars
  <2> QED
    BY <2>1, StageSteps DEF Stage
<1>6. CASE RequestStandDown
  <2>1. UNCHANGED <<pod, pc, phase>>
    BY <1>6 DEF RequestStandDown, memVars, provVars
  <2> QED
    BY <2>1, Stutters DEF Stage
<1> QED
  BY <1>1, <1>2, <1>3, <1>4, <1>5, <1>6 DEF Closeout

\* A provider of this run starts where the contract does.
LEMMA InitContract == CoreInit => Contract!Init
<1> SUFFICES ASSUME CoreInit PROVE Contract!Init
  OBVIOUS
<1>1. Control \in Pods /\ Control \notin Workers /\ Workers \subseteq Pods
  BY ProviderAssumption DEF Pods
<1>2. pod[Control].st = "RUNNING" /\ \A w \in Workers : pod[w].st = "absent"
  BY <1>1 DEF CoreInit, ProvInit
<1>3. Stage = "armed"
  BY DEF CoreInit, MemInit, Stage
<1> QED
  BY <1>2, <1>3 DEF Contract!Init, Live
=============================================================================
