---------------------------- MODULE ArmAdmitProofs ----------------------------
(***************************************************************************)
(* Theorems about ArmAndAdmit, for any number of armers, run directories,  *)
(* batches, attempts and faults.                                           *)
(*                                                                         *)
(* The argument is about custody.  Each of the write-once objects names one*)
(* armer for good: the plist of a run directory names who may bootstrap    *)
(* from it, its receipt who was authorised, the lock whose coordinator     *)
(* admits.  The label names one armer too: the one between its bootstrap   *)
(* and its end.                                                            *)
(***************************************************************************)
EXTENDS ArmAndAdmit, TLAPS

\* The armer has not bootstrapped.
Early == {"idle", "prepare", "label", "stage", "bootstrap"}

\* The armer has, and has not ended.
Holding == {"prove", "recheck", "publish", "published", "cleanup"}

\* Where an armer may be that has linked its receipt.
Published == {"published", "cleanup", "armed", "authorised", "dead"}

\* Where a coordinator is not yet past its gate, or its lock.
Outside == {"none", "gate", "lock"}

\* What the loops' guards leave to their bodies.
CountingOK ==
  \A a \in Armers :
    /\ armer[a] = "prove" => tries[a] < Attempts
    /\ armer[a] \in Early => tries[a] = 0 /\ coord[a] = "none"
    /\ coord[a] \in Outside => procs[a] = 0
    /\ coord[a] \in {"admit", "append"} => procs[a] < Batches
    /\ coord[a] = "await" => procs[a] > 0

\* Who holds the label and the run directory.
LabelOK ==
  \A a \in Armers :
    /\ armer[a] \in Early \cup {"refused"} => job # a
    /\ armer[a] \in Holding => job = a
    /\ armer[a] \in Holding \cup {"bootstrap"} => plist[runDir[a]] = a
    /\ coord[a] # "none" => plist[runDir[a]] = a

\* A receipt is of the armer whose plist is beside it.
ReceiptOK ==
  \A d \in Dirs : receipt[d] # NoArmer =>
    plist[d] = receipt[d] /\ runDir[receipt[d]] = d

\* That armer has not refused.
StandingOK ==
  \A d \in Dirs : receipt[d] # NoArmer => armer[receipt[d]] \in Published

\* The gate and the lock.
GateOK ==
  /\ \A a \in Armers : coord[a] \in {"lock", "failed", "complete"} \cup SeriesSteps =>
       receipt[runDir[a]] = a
  /\ lock # NoArmer => receipt[runDir[lock]] = lock /\ coord[lock] \notin Outside
  /\ \A i \in Indices : child[i] # "none" => lock # NoArmer

\* What the coordinator's step says of its canaries.
SeriesOK ==
  /\ \A a \in Armers :
       /\ coord[a] \in {"admit", "append"} => 1 .. procs[a] \subseteq accepted
       /\ coord[a] = "await" => 1 .. procs[a] - 1 \subseteq accepted
       /\ coord[a] = "complete" => sampled = Indices
  /\ \A i \in sampled : child[i] = "ok"

\* A live canary is one of the processes, is just being started, or was forgotten.
OwnedOK ==
  \A a \in Armers : lock = a /\ coord[a] # "killed" =>
    \A i \in Indices : Alive(i) =>
      \/ i \in strays
      \/ i \in 1 .. procs[a] /\ coord[a] \notin {"failed", "complete"}
      \/ coord[a] = "append" /\ i = procs[a] + 1

USE DEF Early, Holding, Published, Outside, ArmerSteps, ArmerEnds, GateSteps, SeriesSteps,
        CoordEnds, Indices

----------------------------------------------------------------------------
(* Types.                                                                  *)

LEMMA InitType == Init => TypeOK /\ CountingOK
BY ArmAssumption DEF Init, TypeOK, CountingOK

\* An armer that only goes on.
LEMMA ArmsType ==
  ASSUME TypeOK, CountingOK, NEW a \in Armers, NEW from, NEW to \in ArmerSteps \cup ArmerEnds,
         Arms(a, from, to), UNCHANGED <<tries, coord, procs>>,
         to \in Early \cup {"prove"} => from \in Early /\ to # "prove"
  PROVE  armer' \in [Armers -> {"idle"} \cup ArmerSteps \cup ArmerEnds] /\ CountingOK'
BY DEF TypeOK, CountingOK, Arms

LEMMA ArmerType ==
  ASSUME TypeOK, CountingOK, NEW a \in Armers,
         Start(a) \/ Prepare(a) \/ RequireFreeLabel(a) \/ Stage(a) \/ Bootstrap(a)
           \/ Prove(a) \/ Recheck(a) \/ Publish(a) \/ Return(a)
           \/ InterruptArmer(a) \/ KillArmer(a)
  PROVE  TypeOK' /\ CountingOK'
<1> USE DEF seriesVars
<1>1. CASE Start(a)
  BY <1>1, ArmsType DEF Start, TypeOK
<1>2. CASE Prepare(a)
  <2>1. PICK to \in {"label", "refused"} : Arms(a, "prepare", to)
    BY <1>2 DEF Prepare
  <2> QED
    BY <1>2, <2>1, ArmsType DEF Prepare, TypeOK
<1>3. CASE RequireFreeLabel(a)
  BY <1>3, ArmsType DEF RequireFreeLabel, TypeOK
<1>4. CASE Stage(a)
  BY <1>4, ArmsType DEF Stage, TypeOK
<1>5. CASE Bootstrap(a) /\ Arms(a, "bootstrap", "refused") /\ UNCHANGED <<job, coord>>
  BY <1>5, ArmsType DEF Bootstrap, TypeOK
<1>6. CASE Bootstrap(a) /\ Arms(a, "bootstrap", "prove") /\ job' = a
             /\ coord' = [coord EXCEPT ![a] = "gate"]
  BY <1>6, ArmAssumption DEF Bootstrap, TypeOK, CountingOK, Arms
<1>7. CASE Prove(a)
  <2>1. CASE Arms(a, "prove", "recheck") /\ UNCHANGED tries
    BY <1>7, <2>1, ArmsType DEF Prove, TypeOK
  <2>2. CASE /\ tries' = [tries EXCEPT ![a] = @ + 1]
             /\ Arms(a, "prove", IF tries[a] + 1 < Attempts THEN "prove" ELSE "cleanup")
    <3>1. PICK to \in {"prove", "cleanup"} :
            /\ armer[a] = "prove" /\ armer' = [armer EXCEPT ![a] = to]
            /\ to = "prove" => tries[a] + 1 < Attempts
      BY <2>2 DEF Arms
    <3>2. tries[a] + 1 \in 0 .. Attempts
      BY <3>1, ArmAssumption DEF TypeOK, CountingOK
    <3>3. /\ armer' \in [Armers -> {"idle"} \cup ArmerSteps \cup ArmerEnds]
          /\ tries' \in [Armers -> 0 .. Attempts]
          /\ UNCHANGED <<runDir, plist, receipt, job, coord, lock, procs, child, accepted,
                         sampled, strays, faults>>
      BY <1>7, <2>2, <3>1, <3>2 DEF Prove, TypeOK
    <3>4. CountingOK'
      BY <2>2, <3>1, <3>3 DEF TypeOK, CountingOK
    <3> QED
      BY <3>3, <3>4 DEF TypeOK
  <2> QED
    BY <1>7, <2>1, <2>2 DEF Prove
<1>8. CASE Recheck(a)
  BY <1>8, ArmsType DEF Recheck, TypeOK
<1>9. CASE Publish(a)
  BY <1>9, ArmsType DEF Publish, TypeOK
<1>10. CASE Return(a)
  BY <1>10, ArmsType DEF Return, TypeOK
<1>11. CASE InterruptArmer(a) \/ KillArmer(a)
  <2>1. PICK from \in ArmerSteps, to \in {"cleanup", "dead"} : Arms(a, from, to)
    BY <1>11 DEF InterruptArmer, KillArmer
  <2>2. /\ UNCHANGED <<runDir, tries, plist, receipt, job, coord, lock, seriesVars>>
        /\ faults' \in 0 .. MaxFaults
    BY <1>11, ArmAssumption DEF InterruptArmer, KillArmer, TypeOK
  <2> QED
    BY <2>1, <2>2, ArmsType DEF TypeOK
<1> QED
  BY <1>1, <1>2, <1>3, <1>4, <1>5, <1>6, <1>7, <1>8, <1>9, <1>10, <1>11
     DEF Bootstrap

\* What a signal makes of a coordinator.
LEMMA SignalType ==
  ASSUME TypeOK, CountingOK, NEW b \in Armers, Signal(b)
  PROVE  /\ coord' \in [Armers -> {"none"} \cup GateSteps \cup SeriesSteps \cup CoordEnds]
         /\ strays' \subseteq Indices
         /\ \A a \in Armers : a # b => coord'[a] = coord[a]
         /\ coord'[b] \in {"term", "killed", "gone", coord[b]}
         /\ coord[b] \notin {"none"} => coord'[b] \notin {"none"}
         /\ coord'[b] \notin GateSteps \cup {"admit", "append", "await", "join"}
         /\ coord'[b] = "none" => coord[b] = "none"
         /\ coord'[b] = "failed" => coord[b] = "failed"
         /\ coord'[b] = "complete" => coord[b] = "complete"
         /\ coord'[b] = "term" => coord[b] \in {"admit", "append", "await", "join"}
         /\ coord'[b] = "killed" => coord[b] \in {"term", "killed"}
         /\ coord'[b] = "gone" => coord[b] \in {"gate", "lock", "gone"}
         /\ strays \subseteq strays'
         /\ coord[b] = "append" => procs[b] + 1 \in strays'
<1>1. /\ coord \in [Armers -> {"none"} \cup GateSteps \cup SeriesSteps \cup CoordEnds]
      /\ coord' = [coord EXCEPT ![b] = Signalled(coord[b])]
      /\ strays' = IF coord[b] = "append" THEN strays \cup {procs[b] + 1} ELSE strays
      /\ strays \subseteq Indices
      /\ coord[b] = "append" => procs[b] + 1 \in Indices
  BY ArmAssumption DEF TypeOK, CountingOK, Signal
<1>2. /\ coord[b] \in {"admit", "append", "await", "join"} => Signalled(coord[b]) = "term"
      /\ coord[b] = "term" => Signalled(coord[b]) = "killed"
      /\ coord[b] \in GateSteps => Signalled(coord[b]) = "gone"
      /\ coord[b] \in {"none"} \cup CoordEnds => Signalled(coord[b]) = coord[b]
  BY DEF Signalled
<1> HIDE DEF Signalled
<1> QED
  BY <1>1, <1>2

LEMMA CoordinatorType ==
  ASSUME TypeOK, CountingOK, NEW a \in Armers,
         CoordinatorStep(a) \/ KillCoordinator(a) \/ Teardown(a)
  PROVE  TypeOK' /\ CountingOK'
<1> USE ArmAssumption DEF TypeOK, CountingOK, Steps, seriesVars, armerVars
<1>1. CASE GateOpens(a) \/ GateRefuses(a)
  BY <1>1 DEF GateOpens, GateRefuses
<1>10. CASE TakeLock(a)
  <2>1. PICK to \in {"admit", "failed"} : Steps(a, "lock", to)
    BY <1>10 DEF TakeLock
  <2>2. procs[a] < Batches
    BY <2>1
  <2> QED
    BY <1>10, <2>1, <2>2 DEF TakeLock
<1>2. CASE Spawn(a)
  BY <1>2 DEF Spawn
<1>3. CASE AppendProcess(a)
  BY <1>3 DEF AppendProcess
<1>4. CASE AwaitAcceptance(a)
  BY <1>4 DEF AwaitAcceptance
<1>5. CASE Sample(a)
  BY <1>5 DEF Sample
<1>6. CASE Finish(a)
  BY <1>6 DEF Finish
<1>7. CASE Terminate(a)
  BY <1>7 DEF Terminate, Alive
<1>8. CASE KillCoordinator(a)
  BY <1>8 DEF KillCoordinator, Active
<1>9. CASE Teardown(a)
  BY <1>9 DEF Teardown
<1> QED
  BY <1>1, <1>2, <1>3, <1>4, <1>5, <1>6, <1>7, <1>8, <1>9, <1>10 DEF CoordinatorStep

\* The two steps that signal a coordinator.
LEMMA SignallingType ==
  ASSUME TypeOK, CountingOK, NEW a \in Armers, CleanUp(a) \/ SignalCoordinator(a)
  PROVE  TypeOK' /\ CountingOK'
<1>0. ASSUME NEW b \in Armers, Signal(b), UNCHANGED <<tries, procs>>,
             \A c \in Armers : armer'[c] \in Early \cup {"prove"} => armer'[c] = armer[c]
      PROVE  CountingOK'
  <2>1. ASSUME NEW c \in Armers
        PROVE  \/ coord'[c] = coord[c]
               \/ coord'[c] \in {"term", "killed", "gone"} /\ coord[c] # "none"
    <3>1. coord'[b] \in {"term", "killed", "gone", coord[b]}
          /\ \A d \in Armers : d # b => coord'[d] = coord[d]
      BY <1>0, SignalType
    <3>2. coord[b] = "none" => coord'[b] = "none"
      BY <1>0 DEF Signal, Signalled, TypeOK
    <3>3. c = b \/ c # b
      OBVIOUS
    <3> QED
      BY <3>1, <3>2, <3>3
  <2> QED
    BY <1>0, <2>1 DEF CountingOK
<1>1. CASE SignalCoordinator(a)
  <2>1. /\ Signal(a) /\ UNCHANGED <<armerVars, job, lock, procs, child, accepted, sampled>>
        /\ faults' \in 0 .. MaxFaults
    BY <1>1, ArmAssumption DEF SignalCoordinator, TypeOK
  <2>2. TypeOK'
    BY <2>1, SignalType DEF TypeOK, armerVars
  <2> QED
    BY <1>0, <2>1, <2>2 DEF armerVars
<1>2. CASE CleanUp(a) /\ UNCHANGED <<job, coord, strays>>
  BY <1>2, ArmAssumption DEF TypeOK, CountingOK, CleanUp, BootOut, Arms
<1>3. CASE CleanUp(a) /\ ~UNCHANGED <<job, coord, strays>>
  <2>1. /\ job \in Armers /\ job' = NoArmer /\ Signal(job) /\ Arms(a, "cleanup", "refused")
        /\ UNCHANGED <<runDir, tries, plist, receipt, lock, procs, child, accepted, sampled, faults>>
    BY <1>3 DEF TypeOK, CleanUp, BootOut
  <2>2. TypeOK'
    BY <2>1, SignalType DEF TypeOK, Arms
  <2>3. \A c \in Armers : armer'[c] \in Early \cup {"prove"} => armer'[c] = armer[c]
    BY <2>1 DEF TypeOK, Arms
  <2>4. CountingOK'
    BY <1>0, <2>1, <2>3
  <2> QED
    BY <2>2, <2>4
<1> QED
  BY <1>1, <1>2, <1>3

LEMMA NextType == TypeOK /\ CountingOK /\ [Next]_vars => TypeOK' /\ CountingOK'
<1> SUFFICES ASSUME TypeOK, CountingOK, [Next]_vars PROVE TypeOK' /\ CountingOK'
  OBVIOUS
<1>1. CASE UNCHANGED vars
  BY <1>1 DEF TypeOK, CountingOK, vars, armerVars, seriesVars
<1>2. CASE \E i \in Indices : Canary(i)
  BY <1>2, ArmAssumption DEF TypeOK, CountingOK, Canary, armerVars
<1> QED
  BY <1>1, <1>2, ArmerType, CoordinatorType, SignallingType DEF Next, ArmerStep, Fault

\* The armers, the coordinators and the canaries keep their types; an armer makes at most
\* PROOF_ATTEMPTS proofs, and a coordinator starts at most BATCHES canaries.
THEOREM ArmingTypeCorrect == Spec => []TypeOK
<1> DEFINE IInv == TypeOK /\ CountingOK
<1>1. Init => IInv
  BY InitType
<1>2. IInv /\ [Next]_vars => IInv'
  BY NextType
<1> QED
  BY <1>1, <1>2, PTL DEF Spec

----------------------------------------------------------------------------
(* Custody.                                                                *)

Custody == LabelOK /\ ReceiptOK /\ GateOK /\ OneSeries

LEMMA InitCustody == Init => Custody
BY ArmAssumption DEF Init, Custody, LabelOK, ReceiptOK, GateOK, OneSeries

\* The steps of an armer up to its proof.
LEMMA ArmingCustody ==
  ASSUME TypeOK, CountingOK, Custody, NEW a \in Armers,
         Start(a) \/ Prepare(a) \/ RequireFreeLabel(a) \/ Stage(a) \/ Bootstrap(a)
  PROVE  Custody'
<1> USE ArmAssumption DEF Custody, TypeOK
<1>1. CASE Start(a) \/ Prepare(a) \/ RequireFreeLabel(a)
  <2>1. PICK to \in {"prepare", "label", "stage", "refused"} :
          armer' = [armer EXCEPT ![a] = to] /\ armer[a] \in {"idle", "prepare", "label"}
    BY <1>1 DEF Start, Prepare, RequireFreeLabel, Arms
  <2>2. UNCHANGED <<runDir, plist, receipt, job, coord, lock, child>>
    BY <1>1 DEF Start, Prepare, RequireFreeLabel, seriesVars
  <2> QED
    BY <2>1, <2>2 DEF LabelOK, ReceiptOK, GateOK, OneSeries
<1>2. CASE Stage(a)
  <2>1. PICK to \in {"bootstrap", "refused"} :
          /\ armer[a] = "stage" /\ armer' = [armer EXCEPT ![a] = to]
          /\ \/ plist[runDir[a]] = NoArmer /\ plist' = [plist EXCEPT ![runDir[a]] = a]
             \/ to = "refused" /\ plist' = plist
    BY <1>2 DEF Stage, Arms
  <2>2. UNCHANGED <<runDir, receipt, job, coord, lock, child>>
    BY <1>2 DEF Stage, seriesVars
  <2>3. LabelOK'
    BY <2>1, <2>2 DEF LabelOK
  <2>4. ReceiptOK'
    BY <2>1, <2>2 DEF ReceiptOK
  <2> QED
    BY <2>2, <2>3, <2>4 DEF GateOK, OneSeries
<1>3. CASE Bootstrap(a)
  <2>1. UNCHANGED <<runDir, plist, receipt, lock, child>>
    BY <1>3 DEF Bootstrap, seriesVars
  <2>2. CASE Arms(a, "bootstrap", "refused") /\ UNCHANGED <<job, coord>>
    BY <2>1, <2>2 DEF Arms, LabelOK, ReceiptOK, GateOK, OneSeries
  <2>3. CASE /\ job = NoArmer /\ job' = a /\ Arms(a, "bootstrap", "prove")
             /\ coord' = [coord EXCEPT ![a] = "gate"]
    <3>1. LabelOK'
      BY <2>1, <2>3 DEF Arms, LabelOK
    <3>2. ReceiptOK'
      BY <2>1, <2>3 DEF Arms, ReceiptOK
    <3>3. coord[a] = "none"
      BY <2>3 DEF Arms, CountingOK
    <3>4. GateOK' /\ OneSeries'
      BY <2>1, <2>3, <3>3 DEF GateOK, OneSeries
    <3> QED
      BY <3>1, <3>2, <3>4
  <2> QED
    BY <1>3, <2>2, <2>3 DEF Bootstrap
<1> QED
  BY <1>1, <1>2, <1>3

\* The steps of an armer from its proof on, and its death.
LEMMA ProvingCustody ==
  ASSUME TypeOK, CountingOK, Custody, NEW a \in Armers,
         Prove(a) \/ Recheck(a) \/ Publish(a) \/ Return(a) \/ InterruptArmer(a) \/ KillArmer(a)
  PROVE  Custody'
<1> USE ArmAssumption DEF Custody, TypeOK
<1>0. UNCHANGED <<runDir, plist, job, coord, lock, child>>
  BY DEF Prove, Recheck, Publish, Return, InterruptArmer, KillArmer, seriesVars
<1>1. CASE /\ Publish(a) /\ Arms(a, "publish", "published")
           /\ receipt[runDir[a]] = NoArmer
           /\ receipt' = [receipt EXCEPT ![runDir[a]] = a]
  <2>1. armer[a] \in Holding /\ armer' = [armer EXCEPT ![a] = "published"]
        /\ receipt[runDir[a]] = NoArmer
    BY <1>1 DEF Arms
  <2>2. LabelOK'
    BY <1>0, <2>1 DEF LabelOK
  <2>3. plist[runDir[a]] = a
    BY <2>1 DEF LabelOK
  <2>4. ReceiptOK'
    BY <1>0, <1>1, <2>1, <2>3 DEF ReceiptOK
  <2>5. GateOK' /\ OneSeries'
    BY <1>0, <1>1, <2>1 DEF GateOK, OneSeries
  <2> QED
    BY <2>2, <2>4, <2>5
<1>2. CASE /\ UNCHANGED receipt
           /\ \/ Prove(a) \/ Recheck(a) \/ Return(a) \/ InterruptArmer(a) \/ KillArmer(a)
              \/ Arms(a, "publish", "cleanup")
  <2>1. UNCHANGED receipt
    BY <1>2
  <2>2. PICK to \in {"prove", "recheck", "publish", "cleanup", "armed", "dead"} :
          /\ armer' = [armer EXCEPT ![a] = to]
          /\ to \in {"prove", "recheck", "publish", "cleanup"} => armer[a] \in Holding
          /\ armer[a] \in Published => to \in Published
    BY <1>2 DEF Prove, Recheck, Return, InterruptArmer, KillArmer, Arms
  <2>3. LabelOK'
    BY <1>0, <2>2 DEF LabelOK
  <2>4. ReceiptOK'
    BY <1>0, <2>1, <2>2 DEF ReceiptOK
  <2> QED
    BY <1>0, <2>1, <2>3, <2>4 DEF GateOK, OneSeries
<1> QED
  BY <1>1, <1>2 DEF Prove, Recheck, Publish, Return, InterruptArmer, KillArmer

LEMMA CoordinatorCustody ==
  ASSUME TypeOK, CountingOK, Custody, NEW a \in Armers,
         CoordinatorStep(a) \/ KillCoordinator(a) \/ Teardown(a)
  PROVE  Custody'
<1> USE ArmAssumption DEF Custody, TypeOK, Steps, armerVars, seriesVars
<1>1. CASE GateOpens(a)
  <2>1. receipt[runDir[a]] = a
    BY <1>1 DEF GateOpens, ReceiptOK, LabelOK
  <2> QED
    BY <1>1, <2>1 DEF GateOpens, LabelOK, ReceiptOK, GateOK, OneSeries
<1>2. CASE GateRefuses(a)
  BY <1>2 DEF GateRefuses, LabelOK, ReceiptOK, GateOK, OneSeries
<1>3. CASE TakeLock(a)
  <2>1. PICK to \in {"admit", "failed"} :
          /\ coord[a] = "lock" /\ coord' = [coord EXCEPT ![a] = to]
          /\ \/ lock = NoArmer /\ lock' = a
             \/ to = "failed" /\ lock' = lock
    BY <1>3 DEF TakeLock
  <2>2. UNCHANGED <<armer, runDir, plist, receipt, job, child>>
    BY <1>3 DEF TakeLock
  <2>3. LabelOK' /\ ReceiptOK'
    BY <2>1, <2>2 DEF LabelOK, ReceiptOK
  <2>4. GateOK' /\ OneSeries'
    BY <2>1, <2>2 DEF GateOK, OneSeries
  <2> QED
    BY <2>3, <2>4
<1>4. CASE Teardown(a)
  BY <1>4 DEF Teardown, LabelOK, ReceiptOK, GateOK, OneSeries
<1>5. CASE \/ Spawn(a) \/ AppendProcess(a) \/ AwaitAcceptance(a) \/ Sample(a) \/ Finish(a)
           \/ Terminate(a) \/ KillCoordinator(a)
  <2>1. PICK to \in SeriesSteps \cup {"complete", "failed", "killed"} :
          /\ coord' = [coord EXCEPT ![a] = to]
          /\ to # "killed" => coord[a] \in SeriesSteps
          /\ coord[a] # "none"
    BY <1>5 DEF Spawn, AppendProcess, AwaitAcceptance, Sample, Finish, Terminate,
       KillCoordinator, Active
  <2>2. UNCHANGED <<armer, runDir, plist, receipt, job, lock>>
    BY <1>5 DEF Spawn, AppendProcess, AwaitAcceptance, Sample, Finish, Terminate,
       KillCoordinator
  <2>3. child' # child => lock # NoArmer
    BY <1>5 DEF Spawn, AppendProcess, AwaitAcceptance, Sample, Finish, Terminate,
       KillCoordinator, OneSeries
  <2>4. LabelOK' /\ ReceiptOK'
    BY <2>1, <2>2 DEF LabelOK, ReceiptOK
  <2>5. GateOK' /\ OneSeries'
    BY <2>1, <2>2, <2>3 DEF GateOK, OneSeries
  <2> QED
    BY <2>4, <2>5
<1> QED
  BY <1>1, <1>2, <1>3, <1>4, <1>5 DEF CoordinatorStep

LEMMA SignallingCustody ==
  ASSUME TypeOK, CountingOK, Custody, NEW a \in Armers, CleanUp(a) \/ SignalCoordinator(a)
  PROVE  Custody'
<1> USE ArmAssumption DEF Custody
<1>0. /\ UNCHANGED <<runDir, plist, receipt, lock, child>>
      /\ UNCHANGED coord \/ \E b \in Armers : Signal(b)
  BY DEF CleanUp, BootOut, SignalCoordinator, armerVars, TypeOK
<1>1. \A b \in Armers :
        /\ coord[b] = "none" <=> coord'[b] = "none"
        /\ coord'[b] \in {"lock", "failed", "complete"} \cup SeriesSteps =>
             /\ coord[b] \in {"lock", "failed", "complete"} \cup SeriesSteps
             /\ coord'[b] \in SeriesSteps \cup {"complete"} =>
                  coord[b] \in SeriesSteps \cup {"complete"}
        /\ coord'[b] \in Outside => coord[b] \in Outside
  <2>1. CASE UNCHANGED coord
    BY <2>1
  <2>2. ASSUME NEW c \in Armers, Signal(c), NEW b \in Armers
        PROVE  /\ coord[b] = "none" <=> coord'[b] = "none"
               /\ coord'[b] \in {"lock", "failed", "complete"} \cup SeriesSteps =>
                    /\ coord[b] \in {"lock", "failed", "complete"} \cup SeriesSteps
                    /\ coord'[b] \in SeriesSteps \cup {"complete"} =>
                         coord[b] \in SeriesSteps \cup {"complete"}
               /\ coord'[b] \in Outside => coord[b] \in Outside
    <3>1. CASE b = c
      <4>1. /\ coord'[c] \in {"term", "killed", "gone", coord[c]}
            /\ coord[c] = "none" <=> coord'[c] = "none"
            /\ coord'[c] \notin GateSteps \cup {"admit", "append", "await", "join"}
            /\ coord'[c] = "failed" => coord[c] = "failed"
            /\ coord'[c] = "complete" => coord[c] = "complete"
            /\ coord'[c] = "term" => coord[c] \in {"admit", "append", "await", "join"}
        BY <2>2, SignalType
      <4> QED
        BY <3>1, <4>1
    <3>2. CASE b # c
      <4>1. coord'[b] = coord[b]
        BY <2>2, <3>2, SignalType
      <4> QED
        BY <4>1
    <3> QED
      BY <3>1, <3>2
  <2> QED
    BY <1>0, <2>1, <2>2
<1>2. GateOK' /\ OneSeries'
  BY <1>0, <1>1 DEF GateOK, OneSeries, TypeOK
<1>3. CASE SignalCoordinator(a)
  BY <1>0, <1>1, <1>2, <1>3 DEF SignalCoordinator, armerVars, LabelOK, ReceiptOK
<1>4. CASE CleanUp(a)
  <2>1. PICK to \in {"authorised", "refused", "stuck"} :
          /\ armer[a] = "cleanup" /\ armer' = [armer EXCEPT ![a] = to]
          /\ to # "refused" => job' = job
          /\ to = "refused" => job' = NoArmer
    BY <1>4 DEF CleanUp, BootOut, Arms
  <2>2. job = a
    BY <2>1 DEF LabelOK
  <2>3. LabelOK'
    BY <1>0, <1>1, <2>1, <2>2 DEF LabelOK, TypeOK
  <2>4. ReceiptOK'
    BY <1>0, <2>1 DEF ReceiptOK, TypeOK
  <2> QED
    BY <1>2, <2>3, <2>4
<1> QED
  BY <1>3, <1>4

LEMMA NextCustody ==
  ASSUME TypeOK, CountingOK, Custody, [Next]_vars
  PROVE  Custody'
<1>1. CASE UNCHANGED vars
  BY <1>1 DEF Custody, LabelOK, ReceiptOK, GateOK, OneSeries, vars, armerVars, seriesVars
<1>2. CASE \E i \in Indices : Canary(i)
  <2>1. UNCHANGED <<armerVars, job, coord, lock>>
    BY <1>2 DEF Canary
  <2>2. child' # child => \E i \in Indices : child[i] # "none"
    BY <1>2 DEF Canary, Alive
  <2> QED
    BY <2>1, <2>2 DEF Custody, LabelOK, ReceiptOK, GateOK, OneSeries, armerVars
<1> QED
  BY <1>1, <1>2, ArmingCustody, ProvingCustody, CoordinatorCustody, SignallingCustody
     DEF Next, ArmerStep, Fault

\* An armer whose receipt can be read back does not refuse after it is linked.
LEMMA NextStanding ==
  ASSUME ReadsBack = {TRUE}, TypeOK, Custody, StandingOK, [Next]_vars
  PROVE  StandingOK'
<1> USE ArmAssumption DEF TypeOK
<1>1. ASSUME NEW a \in Armers, Start(a) \/ ArmerStep(a) \/ Fault(a),
             NEW d \in Dirs, receipt'[d] # NoArmer
      PROVE  armer'[receipt'[d]] \in Published
  <2>1. CASE receipt' # receipt
    <3>1. /\ armer' = [armer EXCEPT ![a] = "published"]
          /\ receipt' = [receipt EXCEPT ![runDir[a]] = a]
      BY <1>1, <2>1 DEF ArmerStep, Fault, Start, Prepare, RequireFreeLabel, Stage, Bootstrap,
         Prove, Recheck, Publish, Return, CleanUp, InterruptArmer, KillArmer,
         SignalCoordinator, KillCoordinator, Arms, armerVars
    <3> QED
      BY <1>1, <3>1 DEF StandingOK
  <2>2. CASE receipt' = receipt /\ receipt[d] = a
    <3>1. runDir[a] = d
      BY <1>1, <2>2 DEF Custody, ReceiptOK
    <3>2. armer[a] \in Published /\ a # NoArmer
      BY <1>1, <2>2 DEF StandingOK
    <3>3. armer'[a] \in Published
      BY <1>1, <2>2, <3>1, <3>2
         DEF ArmerStep, Fault, Start, Prepare, RequireFreeLabel, Stage, Bootstrap, Prove,
         Recheck, Publish, Return, CleanUp, InterruptArmer, KillArmer, SignalCoordinator,
         KillCoordinator, Arms, armerVars
    <3> QED
      BY <2>2, <3>3
  <2>3. CASE receipt' = receipt /\ receipt[d] # a
    <3>1. \A b \in Armers : b # a => armer'[b] = armer[b]
      BY <1>1 DEF ArmerStep, Fault, Start, Prepare, RequireFreeLabel, Stage, Bootstrap, Prove,
         Recheck, Publish, Return, CleanUp, BootOut, InterruptArmer, KillArmer,
         SignalCoordinator, KillCoordinator, Arms, armerVars
    <3> QED
      BY <1>1, <2>3, <3>1 DEF StandingOK
  <2> QED
    BY <2>1, <2>2, <2>3
<1>2. CASE UNCHANGED <<armer, receipt>>
  BY <1>2 DEF StandingOK
<1>3. ASSUME NEW a \in Armers, CoordinatorStep(a) \/ Teardown(a) PROVE UNCHANGED armerVars
  BY <1>3 DEF CoordinatorStep, GateOpens, GateRefuses, TakeLock, Spawn, AppendProcess,
     AwaitAcceptance, Sample, Finish, Terminate, Teardown
<1>4. ASSUME NEW i \in Indices, Canary(i) PROVE UNCHANGED armerVars
  BY <1>4 DEF Canary
<1> QED
  BY <1>1, <1>2, <1>3, <1>4 DEF Next, StandingOK, vars, armerVars

\* What the custody implies.
LEMMA CustodyImplies ==
  ASSUME TypeOK, Custody, StandingOK
  PROVE  DemandIsAuthorised /\ RefusedArmsNothing
<1> USE ArmAssumption DEF Custody, TypeOK
<1>1. DemandIsAuthorised
  BY DEF DemandIsAuthorised, GateOK, StandingOK
<1>2. RefusedArmsNothing
  <2>1. ASSUME NEW a \in Armers, armer[a] \in {"refused", "stuck"}
        PROVE  /\ receipt[runDir[a]] # a
               /\ coord[a] \in {"none", "gate", "gone", "killed"}
               /\ armer[a] = "refused" => job # a
    <3>1. receipt[runDir[a]] # a
      <4>1. runDir[a] \in Dirs /\ a # NoArmer
        OBVIOUS
      <4>2. receipt[runDir[a]] # NoArmer => armer[receipt[runDir[a]]] \in Published
        BY <4>1 DEF StandingOK
      <4> QED
        BY <2>1, <4>1, <4>2
    <3>2. armer[a] = "refused" => job # a
      BY DEF LabelOK
    <3>3. coord[a] \in {"none", "gate", "gone", "killed"}
      BY <3>1 DEF GateOK
    <3> QED
      BY <3>1, <3>2, <3>3
  <2> QED
    BY <2>1 DEF RefusedArmsNothing
<1> QED
  BY <1>1, <1>2

----------------------------------------------------------------------------
(* The series.                                                             *)

SeriesInv == SeriesOK /\ OwnedOK /\ AdmittedInOrder

LEMMA InitSeries == Init => SeriesInv
BY ArmAssumption DEF Init, SeriesInv, SeriesOK, OwnedOK, AdmittedInOrder, Alive

\* The coordinator's steps up to its lock.
LEMMA GateSeries ==
  ASSUME TypeOK, CountingOK, Custody, SeriesInv, NEW a \in Armers,
         GateOpens(a) \/ GateRefuses(a) \/ TakeLock(a)
  PROVE  SeriesInv'
<1> USE ArmAssumption DEF SeriesInv, TypeOK, Steps, seriesVars
<1>1. UNCHANGED <<procs, child, accepted, sampled, strays>>
  BY DEF GateOpens, GateRefuses, TakeLock
<1>2. AdmittedInOrder'
  BY <1>1 DEF AdmittedInOrder
<1>3. CASE GateOpens(a) \/ GateRefuses(a)
  <2>1. PICK to \in {"lock", "gone"} : coord' = [coord EXCEPT ![a] = to] /\ coord[a] = "gate"
    BY <1>3 DEF GateOpens, GateRefuses
  <2>2. UNCHANGED lock
    BY <1>3 DEF GateOpens, GateRefuses
  <2> QED
    BY <1>1, <1>2, <2>1, <2>2 DEF SeriesOK, OwnedOK, Alive
<1>4. CASE TakeLock(a)
  <2>1. PICK to \in {"admit", "failed"} :
          /\ coord[a] = "lock" /\ coord' = [coord EXCEPT ![a] = to]
          /\ \/ lock = NoArmer /\ lock' = a
             \/ to = "failed" /\ lock' = lock
    BY <1>4 DEF TakeLock
  <2>2. procs[a] = 0 /\ lock # a
    BY <2>1 DEF CountingOK, Custody, GateOK
  <2>3. SeriesOK'
    BY <1>1, <2>1, <2>2 DEF SeriesOK
  <2>4. CASE lock = NoArmer /\ lock' = a
    <3>1. \A i \in Indices : child[i] = "none"
      BY <2>4 DEF Custody, GateOK
    <3> QED
      BY <1>1, <1>2, <2>3, <3>1 DEF OwnedOK, Alive
  <2>5. CASE lock' = lock
    BY <1>1, <1>2, <2>1, <2>2, <2>3, <2>5 DEF OwnedOK, Alive
  <2> QED
    BY <2>1, <2>4, <2>5
<1> QED
  BY <1>3, <1>4

\* The steps that start canaries.
LEMMA AdmissionSeries ==
  ASSUME TypeOK, CountingOK, Custody, SeriesInv, NEW a \in Armers,
         Spawn(a) \/ AppendProcess(a) \/ AwaitAcceptance(a)
  PROVE  SeriesInv'
<1> USE ArmAssumption DEF SeriesInv, TypeOK, Steps, seriesVars
<1>0. lock = a /\ lock' = lock
  BY DEF Custody, OneSeries, Spawn, AppendProcess, AwaitAcceptance
<1>1. CASE Spawn(a) /\ coord' = [coord EXCEPT ![a] = "append"] /\ child[procs[a] + 1] = "none"
             /\ child' = [child EXCEPT ![procs[a] + 1] = "running"]
  <2>1. /\ coord[a] = "admit" /\ procs[a] < Batches
        /\ UNCHANGED <<procs, accepted, sampled, strays>>
    BY <1>1 DEF Spawn, CountingOK
  <2>2. SeriesOK'
    BY <1>1, <2>1 DEF SeriesOK
  <2>3. OwnedOK'
    BY <1>0, <1>1, <2>1 DEF OwnedOK, Alive
  <2>4. 1 .. procs[a] \subseteq accepted
    BY <2>1 DEF SeriesOK
  <2>5. ASSUME NEW i \in Indices, child'[i] # "none" PROVE 1 .. i - 1 \subseteq accepted
    <3>1. CASE i = procs[a] + 1
      <4>1. procs[a] \in Nat /\ i - 1 = procs[a]
        BY <3>1
      <4> QED
        BY <2>4, <4>1
    <3>2. CASE i # procs[a] + 1
      BY <1>1, <2>5, <3>2 DEF AdmittedInOrder
    <3> QED
      BY <3>1, <3>2
  <2> QED
    BY <2>1, <2>2, <2>3, <2>5 DEF AdmittedInOrder
<1>2. CASE Spawn(a) /\ coord' = [coord EXCEPT ![a] = "term"] /\ UNCHANGED child
  <2>1. coord[a] = "admit" /\ UNCHANGED <<procs, accepted, sampled, strays>>
    BY <1>2 DEF Spawn
  <2> QED
    BY <1>0, <1>2, <2>1 DEF SeriesOK, OwnedOK, Alive, AdmittedInOrder
<1>3. CASE AppendProcess(a)
  <2>1. /\ coord[a] = "append" /\ coord' = [coord EXCEPT ![a] = "await"]
        /\ procs' = [procs EXCEPT ![a] = @ + 1] /\ procs[a] < Batches
        /\ UNCHANGED <<child, accepted, sampled, strays>>
    BY <1>3 DEF AppendProcess, CountingOK
  <2>2. SeriesOK'
    BY <2>1 DEF SeriesOK
  <2>3. ASSUME NEW i \in Indices, Alive(i) PROVE i \in strays \/ i \in 1 .. procs'[a]
    <3>1. procs[a] \in Nat /\ procs'[a] = procs[a] + 1
      BY <2>1
    <3>2. i \in strays \/ i \in 1 .. procs[a] \/ i = procs[a] + 1
      BY <1>0, <2>1, <2>3 DEF OwnedOK
    <3> QED
      BY <3>1, <3>2
  <2>4. OwnedOK'
    BY <1>0, <2>1, <2>3 DEF OwnedOK, Alive
  <2> QED
    BY <2>1, <2>2, <2>4 DEF AdmittedInOrder
<1>4. CASE AwaitAcceptance(a)
  <2>1. PICK to \in {"admit", "join", "term"} :
          /\ coord[a] = "await" /\ coord' = [coord EXCEPT ![a] = to]
          /\ to = "admit" => procs[a] \in accepted
    BY <1>4 DEF AwaitAcceptance
  <2>2. UNCHANGED <<procs, child, accepted, sampled, strays>>
    BY <1>4 DEF AwaitAcceptance
  <2>3. 1 .. procs[a] - 1 \subseteq accepted
    BY <2>1 DEF SeriesOK
  <2>4. to = "admit" => 1 .. procs[a] \subseteq accepted
    BY <2>1, <2>3
  <2>5. SeriesOK'
    BY <2>1, <2>2, <2>4 DEF SeriesOK
  <2>6. OwnedOK'
    BY <1>0, <2>1, <2>2 DEF OwnedOK, Alive
  <2> QED
    BY <2>2, <2>5, <2>6 DEF AdmittedInOrder
<1> QED
  BY <1>1, <1>2, <1>3, <1>4 DEF Spawn

\* The steps that join and terminate them.
LEMMA JoinSeries ==
  ASSUME TypeOK, CountingOK, Custody, SeriesInv, NEW a \in Armers,
         Sample(a) \/ Finish(a) \/ Terminate(a) \/ KillCoordinator(a)
  PROVE  SeriesInv'
<1> USE ArmAssumption DEF SeriesInv, TypeOK, Steps, seriesVars
<1>0. UNCHANGED <<lock, procs, accepted, strays>>
  BY DEF Sample, Finish, Terminate, KillCoordinator
<1>1. CASE Sample(a)
  <2>1. PICK to \in {"join", "term"} : coord[a] = "join" /\ coord' = [coord EXCEPT ![a] = to]
    BY <1>1 DEF Sample
  <2>2. /\ UNCHANGED child
        /\ \A i \in sampled' : i \in sampled \/ child[i] = "ok"
    BY <1>1 DEF Sample
  <2>3. \A b \in Armers : coord[b] = "complete" => sampled' = Indices
    BY <1>1 DEF Sample, SeriesOK
  <2>4. SeriesOK'
    BY <1>0, <2>1, <2>2, <2>3 DEF SeriesOK
  <2>5. OwnedOK'
    BY <1>0, <2>1, <2>2 DEF OwnedOK, Alive
  <2> QED
    BY <1>0, <2>2, <2>4, <2>5 DEF AdmittedInOrder
<1>2. CASE Finish(a)
  <2>1. PICK to \in {"complete", "term"} : coord[a] = "join" /\ coord' = [coord EXCEPT ![a] = to]
    BY <1>2 DEF Finish
  <2>2. UNCHANGED <<child, sampled>> /\ sampled = Indices
    BY <1>2 DEF Finish
  <2>3. SeriesOK'
    BY <1>0, <2>1, <2>2 DEF SeriesOK
  <2>4. \A i \in Indices : ~Alive(i)
    BY <2>2 DEF SeriesOK, Alive
  <2>5. OwnedOK'
    BY <1>0, <2>2, <2>4 DEF OwnedOK, Alive
  <2> QED
    BY <1>0, <2>2, <2>3, <2>5 DEF AdmittedInOrder
<1>3. CASE Terminate(a) /\ \E i \in 1 .. procs[a] : Alive(i)
  <2>1. PICK i \in 1 .. procs[a] : Alive(i) /\ child' = [child EXCEPT ![i] = "failed"]
    BY <1>3 DEF Terminate
  <2>2. /\ UNCHANGED sampled /\ i \in Indices
        /\ coord[a] = "term" /\ coord' = [coord EXCEPT ![a] = "term"]
    BY <1>3 DEF Terminate
  <2>3. UNCHANGED coord
    BY <2>2
  <2>4. SeriesOK'
    BY <1>0, <2>1, <2>2, <2>3 DEF SeriesOK, Alive
  <2>5. OwnedOK'
    BY <1>0, <2>1, <2>2, <2>3 DEF OwnedOK, Alive
  <2> QED
    BY <1>0, <2>1, <2>2, <2>4, <2>5 DEF AdmittedInOrder, Alive
<1>4. CASE Terminate(a) /\ ~\E i \in 1 .. procs[a] : Alive(i)
  <2>1. /\ UNCHANGED <<child, sampled>>
        /\ coord[a] = "term" /\ coord' = [coord EXCEPT ![a] = "failed"]
    BY <1>4 DEF Terminate
  <2>2. SeriesOK'
    BY <1>0, <2>1 DEF SeriesOK
  <2>3. OwnedOK'
    BY <1>0, <1>4, <2>1 DEF OwnedOK, Alive
  <2> QED
    BY <1>0, <2>1, <2>2, <2>3 DEF AdmittedInOrder
<1>5. CASE KillCoordinator(a)
  <2>1. coord' = [coord EXCEPT ![a] = "killed"] /\ UNCHANGED <<child, sampled>>
    BY <1>5 DEF KillCoordinator
  <2> QED
    BY <1>0, <2>1 DEF SeriesOK, OwnedOK, AdmittedInOrder, Alive
<1> QED
  BY <1>1, <1>2, <1>3, <1>4, <1>5

\* The steps that signal a coordinator.
LEMMA SignallingSeries ==
  ASSUME TypeOK, CountingOK, SeriesInv, NEW b \in Armers, Signal(b),
         UNCHANGED <<lock, procs, child, accepted, sampled>>
  PROVE  SeriesInv'
<1> USE ArmAssumption DEF SeriesInv, TypeOK
<1>1. /\ coord'[b] \in {"term", "killed", "gone", coord[b]}
      /\ coord'[b] \notin {"admit", "append", "await"}
      /\ coord'[b] = "complete" => coord[b] = "complete"
      /\ coord'[b] = "failed" => coord[b] = "failed"
      /\ coord[b] \in {"failed", "complete", "killed"} => coord'[b] = coord[b]
      /\ \A c \in Armers : c # b => coord'[c] = coord[c]
      /\ strays \subseteq strays'
      /\ coord[b] = "append" => procs[b] + 1 \in strays'
  BY SignalType
<1>2. SeriesOK'
  BY <1>1 DEF SeriesOK
<1>3. OwnedOK'
  BY <1>1 DEF OwnedOK, Alive
<1> QED
  BY <1>2, <1>3 DEF AdmittedInOrder

LEMMA NextSeries ==
  ASSUME TypeOK, CountingOK, Custody, SeriesInv, [Next]_vars
  PROVE  SeriesInv'
<1> USE DEF SeriesInv
<1>1. CASE UNCHANGED <<coord, lock, seriesVars>>
  BY <1>1 DEF SeriesOK, OwnedOK, AdmittedInOrder, Alive, seriesVars
<1>2. CASE \E i \in Indices : Canary(i)
  <2>1. PICK i \in Indices : Canary(i)
    BY <1>2
  <2>2. /\ UNCHANGED <<coord, lock, procs, sampled, strays>>
        /\ child[i] = "running" /\ accepted \subseteq accepted'
        /\ child' = child \/ child' = [child EXCEPT ![i] = "ok"]
           \/ child' = [child EXCEPT ![i] = "failed"]
    BY <2>1 DEF Canary, Alive
  <2>3. SeriesOK'
    BY <2>2 DEF SeriesOK, TypeOK
  <2>4. OwnedOK'
    BY <2>2 DEF OwnedOK, Alive, TypeOK
  <2>5. AdmittedInOrder'
    BY <2>2 DEF AdmittedInOrder, TypeOK
  <2> QED
    BY <2>3, <2>4, <2>5
<1>3. ASSUME NEW a \in Armers, Bootstrap(a), ~UNCHANGED coord PROVE SeriesInv'
  <2>1. /\ coord[a] = "none" /\ coord' = [coord EXCEPT ![a] = "gate"]
        /\ UNCHANGED <<lock, procs, child, accepted, sampled, strays>>
    BY <1>3 DEF Bootstrap, Arms, CountingOK, seriesVars
  <2> QED
    BY <2>1 DEF SeriesOK, OwnedOK, AdmittedInOrder, Alive, TypeOK
<1>4. ASSUME NEW b \in Armers, Signal(b), UNCHANGED <<lock, procs, child, accepted, sampled>>
      PROVE  SeriesInv'
  BY <1>4, SignallingSeries
<1>5. ASSUME NEW a \in Armers, CleanUp(a) \/ SignalCoordinator(a) PROVE SeriesInv'
  <2>1. \/ UNCHANGED <<coord, lock, seriesVars>>
        \/ /\ UNCHANGED <<lock, procs, child, accepted, sampled>>
           /\ \E b \in Armers : Signal(b)
    BY <1>5 DEF CleanUp, BootOut, SignalCoordinator, seriesVars, TypeOK
  <2> QED
    BY <1>1, <1>4, <2>1
<1>6. ASSUME NEW a \in Armers,
             \/ Start(a) \/ Prepare(a) \/ RequireFreeLabel(a) \/ Stage(a) \/ Prove(a)
             \/ Recheck(a) \/ Publish(a) \/ Return(a) \/ InterruptArmer(a) \/ KillArmer(a)
             \/ Teardown(a) \/ (Bootstrap(a) /\ UNCHANGED coord)
      PROVE  UNCHANGED <<coord, lock, seriesVars>>
  BY <1>6 DEF Start, Prepare, RequireFreeLabel, Stage, Prove, Recheck, Publish, Return,
     InterruptArmer, KillArmer, Teardown, Bootstrap
<1>7. CASE UNCHANGED vars
  BY <1>1, <1>7 DEF vars
<1>8. ASSUME NEW a \in Armers, CoordinatorStep(a) \/ KillCoordinator(a) PROVE SeriesInv'
  BY <1>8, GateSeries, AdmissionSeries, JoinSeries DEF CoordinatorStep
<1> QED
  BY <1>1, <1>2, <1>3, <1>5, <1>6, <1>7, <1>8 DEF Next, ArmerStep, Fault

\* What the series' invariant says of the end.
LEMMA SeriesImplies ==
  ASSUME TypeOK, SeriesInv
  PROVE  CompleteMeansAll /\ NoStrayCanary
BY ArmAssumption DEF TypeOK, SeriesInv, SeriesOK, OwnedOK, CompleteMeansAll, NoStrayCanary, Alive


----------------------------------------------------------------------------
(* Theorems.                                                               *)

\* The inductive invariant, whether or not a receipt that was linked can be read back.
LEMMA InvCorrect == Spec => [](TypeOK /\ CountingOK /\ Custody /\ SeriesInv)
<1> DEFINE IInv == TypeOK /\ CountingOK /\ Custody /\ SeriesInv
<1>1. Init => IInv
  BY InitType, InitCustody, InitSeries
<1>2. IInv /\ [Next]_vars => IInv'
  BY NextType, NextCustody, NextSeries
<1> QED
  BY <1>1, <1>2, PTL DEF Spec

\* With receipts that can be read back.
LEMMA StandingCorrect ==
  ASSUME ReadsBack = {TRUE}
  PROVE  Spec => []StandingOK
<1>1. Init => StandingOK
  BY ArmAssumption DEF Init, StandingOK
<1>2. TypeOK /\ Custody /\ StandingOK /\ [Next]_vars => StandingOK'
  BY NextStanding
<1> QED
  BY <1>1, <1>2, InvCorrect, PTL DEF Spec

\* Whichever process is killed or interrupted when, a canary is started only by the one
\* coordinator that holds the lock, whose armer has proved it running, has published its
\* receipt and has not refused, as long as a linked receipt can be read back.
THEOREM DemandHasAuthority ==
  ASSUME ReadsBack = {TRUE}
  PROVE  Spec => []DemandIsAuthorised
BY InvCorrect, StandingCorrect, CustodyImplies, PTL

\* A refused armer has left no receipt and no coordinator past the gate, whatever it was
\* doing when it failed or was interrupted, as long as a linked receipt can be read back.
THEOREM RefusalIsTrue ==
  ASSUME ReadsBack = {TRUE}
  PROVE  Spec => []RefusedArmsNothing
BY InvCorrect, StandingCorrect, CustodyImplies, PTL

\* At most one coordinator ever comes past the lock, from however many run directories the
\* series is armed again.
THEOREM SeriesIsOne == Spec => []OneSeries
<1>1. Custody => OneSeries
  BY DEF Custody
<1> QED
  BY <1>1, InvCorrect, PTL

\* No step of an armer boots out an authorised coordinator, its own or another's, as long
\* as a linked receipt can be read back.
THEOREM AuthorityKept ==
  ASSUME ReadsBack = {TRUE}
  PROVE  Spec => AuthorityIsKept
<1> DEFINE Kept == \A a \in Armers :
             (job = a /\ receipt[runDir[a]] = a /\ job' # a) => coord[a] \in CoordEnds
<1>1. ASSUME TypeOK, Custody, Next PROVE Kept
  <2>1. SUFFICES ASSUME NEW a \in Armers, job = a, receipt[runDir[a]] = a, job' # a
                 PROVE  coord[a] \in CoordEnds
    OBVIOUS
  <2>2. CASE \E b \in Armers : CleanUp(b)
    <3>1. PICK b \in Armers : CleanUp(b)
      BY <2>2
    <3>2. armer[b] = "cleanup" /\ receipt[runDir[b]] # b
      BY <2>1, <3>1 DEF CleanUp, BootOut, Arms
    <3>3. b = a
      BY <1>1, <2>1, <3>2 DEF Custody, LabelOK
    <3> QED
      BY <2>1, <3>2, <3>3
  <2>3. CASE \E b \in Armers : Bootstrap(b)
    BY <2>1, <2>3, ArmAssumption DEF Bootstrap
  <2>4. CASE \E b \in Armers : Teardown(b)
    BY <2>1, <2>4 DEF Teardown
  <2>5. CASE ~\E b \in Armers : CleanUp(b) \/ Bootstrap(b) \/ Teardown(b)
    BY <1>1, <2>1, <2>5
       DEF Next, ArmerStep, CoordinatorStep, Fault, Start, Prepare, RequireFreeLabel, Stage,
           Prove, Recheck, Publish, Return, InterruptArmer, KillArmer, GateOpens, GateRefuses,
           TakeLock, Spawn, AppendProcess, AwaitAcceptance, Sample, Finish, Terminate,
           SignalCoordinator, KillCoordinator, Canary
  <2> QED
    BY <2>2, <2>3, <2>4, <2>5
<1>2. TypeOK /\ Custody /\ [Next]_vars => [Kept]_vars
  BY <1>1
<1> QED
  BY <1>2, InvCorrect, PTL DEF Spec, AuthorityIsKept

\* A canary is started only when every canary before it has been accepted, whatever can be
\* read back.
THEOREM AdmissionInOrder == Spec => []AdmittedInOrder
<1>1. SeriesInv => AdmittedInOrder
  BY DEF SeriesInv
<1> QED
  BY <1>1, InvCorrect, PTL

\* "complete" is written only when every canary has succeeded and was sampled.
THEOREM CompletionIsTrue == Spec => []CompleteMeansAll
BY InvCorrect, SeriesImplies, PTL

\* A coordinator that ends by itself leaves no canary running but one it was signalled in
\* the middle of starting.
THEOREM NoCanaryIsLeft == Spec => []NoStrayCanary
BY InvCorrect, SeriesImplies, PTL
===============================================================================
