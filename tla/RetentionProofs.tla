--------------------------- MODULE RetentionProofs ---------------------------
(***************************************************************************)
(* Theorems about the retention pair and the pods its arms run on: the     *)
(* windows (WindowLadder), the evidence (RetentionPair), and what a pod    *)
(* has been built, verified and sold as when it registers (PodBoot), for   *)
(* any number of triggers, jobs, pods, seals, sessions, contract versions, *)
(* builds and boots.                                                       *)
(***************************************************************************)
EXTENDS RetentionPair, WindowLadder, PodBoot, FiniteSetTheorems, TLAPS

USE DEF Windows, Ends, Codes

----------------------------------------------------------------------------
(* The windows.                                                            *)

\* Invocation t is past the lock of its window, or its operator is.
Past(t) == step[t] \in {"locked", "launch", "operator", "write", "point"} \/ op[t] # "none"

\* One invocation of a window gets past the lock.
LockInv ==
  /\ \A w \in Windows : result[w] # "none" => w \in lock
  /\ \A t \in Triggers : Past(t) => window[t] \in lock
  /\ \A t, u \in Triggers : Past(t) /\ Past(u) /\ t # u => window[t] # window[u]

\* Where an invocation is says whether it has an operator, and what it may record.
StepInv ==
  \A t \in Triggers :
    /\ step[t] \in {"idle", "start", "locked", "launch"} => op[t] = "none"
    /\ step[t] = "operator" => op[t] # "none"
    /\ step[t] \in {"write", "point"} /\ op[t] # "none" => rc[t] = Normalized(t)

\* A window's result is its one invocation's, which has nothing left to decide.
ResultInv ==
  \A t \in Triggers : Past(t) /\ result[window[t]] # "none" =>
    /\ step[t] \in {"point", "ended", "dead"}
    /\ op[t] # "none" => result[window[t]] = Normalized(t)

\* An operator is started for window 3 only after a refused or a missed window 2.
GoInv ==
  \A t \in Triggers : (step[t] = "launch" \/ op[t] # "none") /\ window[t] = 3 =>
    result[2] \in {"42", "43"}

LadderInv == LadderTypeOK /\ LockInv /\ StepInv /\ ResultInv /\ GoInv

\* A campaign begins with the invariant.
LEMMA LadderInitInv == LadderInit => LadderInv
<1>1. LadderInit => LadderTypeOK
  BY DEF LadderInit, LadderTypeOK, Shown
<1> QED
  BY <1>1 DEF LadderInit, LadderInv, LockInv, StepInv, ResultInv, GoInv, Past

\* While an operator runs nothing is recorded of it, so that what it does disturbs nothing.
LEMMA OperatorInv ==
  ASSUME LadderInv, NEW t \in Triggers, op[t] = "running", UNCHANGED <<scriptVars, campaignVars>>,
         \/ (\E c \in Ends : op' = [op EXCEPT ![t] = c]) /\ logs' = logs
         \/ op' = op /\ \E a \in Deploys, l \in Shown : logs' = [logs EXCEPT ![t][a] = l]
  PROVE  LadderInv'
<1> USE DEF LadderInv, LadderTypeOK, scriptVars, campaignVars
<1>1. /\ op' \in [Triggers -> Codes \cup {"running"}]
      /\ logs' \in [Triggers -> [Deploys -> Shown]]
      /\ \A u \in Triggers : op'[u] = "none" <=> op[u] = "none"
      /\ \A u \in Triggers : u # t => op'[u] = op[u] /\ logs'[u] = logs[u]
  <2>1. CASE op' = op /\ \E a \in Deploys, l \in Shown : logs' = [logs EXCEPT ![t][a] = l]
    <3>1. PICK a \in Deploys, l \in Shown : logs' = [logs EXCEPT ![t][a] = l]
      BY <2>1
    <3>2. [logs[t] EXCEPT ![a] = l] \in [Deploys -> Shown]
      OBVIOUS
    <3>3. logs' = [logs EXCEPT ![t] = [logs[t] EXCEPT ![a] = l]]
      BY <3>1
    <3> QED
      BY <2>1, <3>2, <3>3
  <2>2. CASE (\E c \in Ends : op' = [op EXCEPT ![t] = c]) /\ logs' = logs
    BY <2>2
  <2> QED
    BY <2>1, <2>2
<1>2. Normalized(t) = "running"
  BY DEF Normalized
<1>3. \A u \in Triggers : u # t => Normalized(u)' = Normalized(u)
  BY <1>1 DEF Normalized
<1>4. ~ (step[t] \in {"write", "point"}) /\ (Past(t) => result[window[t]] = "none")
  BY <1>2 DEF StepInv, ResultInv
<1>5. StepInv'
  BY <1>1, <1>3, <1>4 DEF StepInv
<1>6. \A u \in Triggers : Past(u)' <=> Past(u)
  BY <1>1 DEF Past
<1>7. ResultInv'
  BY <1>1, <1>3, <1>4, <1>6 DEF ResultInv
<1> QED
  BY <1>1, <1>5, <1>6, <1>7 DEF LockInv, GoInv

\* Every step of an invocation keeps the invariant.
LEMMA LadderStepInv ==
  ASSUME LadderInv, NEW t \in Triggers, Script(t) \/ Operator(t) \/ Kill(t)
  PROVE  LadderInv'
<1> USE DEF LadderInv, LadderTypeOK, scriptVars, campaignVars, opVars, Goto
<1>1. CASE Trigger(t)
  <2>1. LadderTypeOK'
    BY <1>1 DEF Trigger
  <2>2. LockInv'
    BY <1>1 DEF Trigger, LockInv, StepInv, Past
  <2>3. StepInv'
    BY <1>1 DEF Trigger, StepInv, Normalized
  <2>4. ResultInv'
    BY <1>1 DEF Trigger, ResultInv, StepInv, LockInv, Past, Normalized
  <2>5. GoInv'
    BY <1>1 DEF Trigger, GoInv, ResultInv, StepInv, LockInv, Past
  <2> QED
    BY <2>1, <2>2, <2>3, <2>4, <2>5
<1>2. CASE RefuseOperator(t) \/ Kill(t)
  <2>1. LadderTypeOK'
    BY <1>2 DEF RefuseOperator, Kill
  <2>2. LockInv'
    BY <1>2 DEF RefuseOperator, Kill, LockInv, StepInv, Past
  <2>3. StepInv'
    BY <1>2 DEF RefuseOperator, Kill, StepInv, Normalized
  <2>4. ResultInv'
    BY <1>2 DEF RefuseOperator, Kill, ResultInv, StepInv, LockInv, Past, Normalized
  <2>5. GoInv'
    BY <1>2 DEF RefuseOperator, Kill, GoInv, ResultInv, StepInv, LockInv, Past
  <2> QED
    BY <2>1, <2>2, <2>3, <2>4, <2>5
<1>3. CASE Acquire(t)
  <2>1. LadderTypeOK'
    <3>1. CASE window[t] \in lock
      BY <1>3, <3>1 DEF Acquire
    <3>2. CASE window[t] \notin lock
      <4>1. lock' = lock \cup {window[t]} /\ window[t] \in Windows
        BY <1>3, <3>2 DEF Acquire
      <4>2. lock' \subseteq Windows
        BY <4>1
      <4> QED
        BY <1>3, <3>2, <4>2 DEF Acquire
    <3> QED
      BY <3>1, <3>2
  <2>2. LockInv'
    BY <1>3 DEF Acquire, LockInv, StepInv, Past
  <2>3. StepInv'
    BY <1>3 DEF Acquire, StepInv, Normalized
  <2>4. ResultInv'
    BY <1>3 DEF Acquire, ResultInv, StepInv, LockInv, Past, Normalized
  <2>5. GoInv'
    BY <1>3 DEF Acquire, GoInv, ResultInv, StepInv, LockInv, Past
  <2> QED
    BY <2>1, <2>2, <2>3, <2>4, <2>5
<1>4. CASE Decide(t)
  <2>1. LadderTypeOK'
    BY <1>4 DEF Decide, Decision
  <2>2. LockInv'
    BY <1>4 DEF Decide, Decision, LockInv, StepInv, Past
  <2>3. StepInv'
    BY <1>4 DEF Decide, Decision, StepInv, Normalized
  <2>4. ResultInv'
    BY <1>4 DEF Decide, Decision, ResultInv, StepInv, LockInv, Past, Normalized
  <2>5. GoInv'
    BY <1>4 DEF Decide, Decision, GoInv, ResultInv, StepInv, LockInv, Past
  <2> QED
    BY <2>1, <2>2, <2>3, <2>4, <2>5
<1>5. CASE Launch(t)
  <2>1. LadderTypeOK'
    BY <1>5 DEF Launch
  <2>2. LockInv'
    BY <1>5 DEF Launch, LockInv, StepInv, Past
  <2>3. StepInv'
    BY <1>5 DEF Launch, StepInv, Normalized
  <2>4. ResultInv'
    BY <1>5 DEF Launch, ResultInv, StepInv, LockInv, Past, Normalized
  <2>5. GoInv'
    BY <1>5 DEF Launch, GoInv, ResultInv, StepInv, LockInv, Past
  <2> QED
    BY <2>1, <2>2, <2>3, <2>4, <2>5
<1>6. CASE OperatorEnds(t)
  <2>1. PICK c \in Ends : op' = [op EXCEPT ![t] = c] /\ op[t] = "running"
    BY <1>6 DEF OperatorEnds
  <2>2. UNCHANGED <<scriptVars, campaignVars, logs>>
    BY <1>6 DEF OperatorEnds
  <2> QED
    BY <2>1, <2>2, OperatorInv
<1>10. ASSUME NEW a \in Deploys, DeployArm(t, a) PROVE LadderInv'
  <2>1. /\ op[t] = "running" /\ UNCHANGED <<scriptVars, campaignVars, op>>
        /\ \E l \in Shown \ {"none"} : logs' = [logs EXCEPT ![t][a] = l]
    BY <1>10 DEF DeployArm
  <2> QED
    BY <2>1, OperatorInv
<1>7. CASE Classify(t)
  BY <1>7 DEF Classify, Normalized, LockInv, StepInv, ResultInv, GoInv, Past
<1>8. CASE WriteResult(t)
  BY <1>8 DEF WriteResult, LockInv, StepInv, ResultInv, GoInv, Past, Normalized
<1>9. CASE Point(t)
  BY <1>9 DEF Point, LockInv, StepInv, ResultInv, GoInv, Past, Normalized
<1> QED
  BY <1>1, <1>2, <1>3, <1>4, <1>5, <1>6, <1>7, <1>8, <1>9, <1>10 DEF Script, Operator

\* So does every step of the ladder.
LEMMA LadderNextInv == LadderInv /\ [LadderNext]_ladderVars => LadderInv'
<1> SUFFICES ASSUME LadderInv, [LadderNext]_ladderVars PROVE LadderInv'
  OBVIOUS
<1>1. CASE LadderNext
  BY <1>1, LadderStepInv DEF LadderNext
<1>2. CASE UNCHANGED ladderVars
  BY <1>2 DEF ladderVars, scriptVars, campaignVars, opVars, LadderInv, LadderTypeOK, LockInv,
     StepInv, ResultInv, GoInv, Past, Normalized
<1> QED
  BY <1>1, <1>2

\* Two operators have two windows; that of the third is behind the result of the second's.
LEMMA LadderInvImplies == LadderInv => OneOperator
<1> SUFFICES ASSUME LadderInv, NEW t \in Triggers, NEW u \in Triggers, t # u,
                    op[t] # "none", op[u] # "none"
             PROVE  \E x \in {t, u} : /\ window[x] = 2 /\ result[2] = Normalized(x)
                                      /\ result[2] \in {"42", "43"}
  BY DEF OneOperator
<1>1. window[t] \in {2, 3} /\ window[u] \in {2, 3} /\ window[t] # window[u]
  BY DEF LadderInv, LadderTypeOK, LockInv, Past
<1>2. result[2] \in {"42", "43"}
  BY <1>1 DEF LadderInv, GoInv
<1>3. \A x \in {t, u} : window[x] = 2 => result[2] = Normalized(x)
  BY <1>2 DEF LadderInv, ResultInv, Past
<1> QED
  BY <1>1, <1>2, <1>3

\* The variables of the ladder have their types.
THEOREM LadderTypeCorrect == LadderSpec => []LadderTypeOK
<1>1. LadderInv => LadderTypeOK
  BY DEF LadderInv
<1> QED
  BY <1>1, LadderInitInv, LadderNextInv, PTL DEF LadderSpec

\* A second operator only behind the recorded end of the first, in a refusal or a miss: however
\* many times the windows are triggered, in whatever order, and wherever the scripts are killed.
THEOREM OperatorIsOne == LadderSpec => []OneOperator
BY LadderInitInv, LadderNextInv, LadderInvImplies, PTL DEF LadderSpec

----------------------------------------------------------------------------
(* The evidence.                                                           *)

Records == [pods : Seq(Pods), acct : Account]
Sealable == [run : Arms, pod : Pods, charge : 0 .. MaxCharge, ended : Nat, began : Nat,
             sources : SUBSET (Arms \cup {"old"}), samples : Nat, chained : BOOLEAN]
Receipts == [snapshot : Nat, policy : Policies, session : Nat, prior : Nat]

PairTypeInv ==
  /\ clock \in Nat
  /\ acct \in [Pods -> Account]
  /\ phase \in [Arms -> {"none", "running", "done"}]
  /\ policy \in [Arms -> Policies]
  /\ launched \in [Arms -> Nat] /\ started \in [Arms -> Nat]
  /\ attempts \in [Arms -> [Jobs -> Seq(Pods)]]
  /\ collecting \in Arms \cup {"none"} /\ observed \in Nat
  /\ got \in [Jobs -> {NoRecord} \cup Records]
  /\ sealed \in Seq(Sealable)
  /\ receipts \in [Arms -> {NoReceipt} \cup Receipts]

\* A pod's accounting has come from a to b: what is settled stays, and can only grow dearer.
Grows(a, b) ==
  a.stage = "settled" => b.stage = "settled" /\ a.charge <= b.charge /\ a.ended = b.ended

\* Batches begin in the past, and a job of one that is done has been served.
WorldInv ==
  \A r \in Arms :
    /\ started[r] <= clock
    /\ phase[r] = "done" => \A j \in Jobs : attempts[r][j] # <<>>

\* A record in hand is of the arm that is collected, and what it says of the pod was so.
RecordInv ==
  /\ collecting # "none" => phase[collecting] = "done" /\ started[collecting] <= observed
  /\ \A j \in Jobs : got[j] # NoRecord =>
       /\ collecting \in Arms
       /\ got[j].pods = attempts[collecting][j]
       /\ Grows(got[j].acct, acct[ServedBy(got[j])])

Sound(c) ==
  /\ phase[c.run] = "done" /\ started[c.run] <= c.began
  /\ acct[c.pod].stage = "settled" /\ acct[c.pod].ended = c.ended
  /\ Floor <= c.charge /\ c.charge <= acct[c.pod].charge
  /\ \A j \in Jobs : attempts[c.run][j] = <<c.pod>>
  /\ IsFiniteSet(c.sources) /\ c.samples = Cardinality(c.sources)

SealInv == \A k \in 1 .. Len(sealed) : Sound(sealed[k])

\* A receipt has the policy of the arm its snapshot is of, and no session that is later.
ReceiptInv ==
  \A a \in Arms : receipts[a] # NoReceipt =>
    /\ receipts[a].snapshot \in 1 .. Len(sealed)
    /\ receipts[a].session <= launched[sealed[receipts[a].snapshot].run]
    /\ receipts[a].policy = policy[sealed[receipts[a].snapshot].run]

VerdictInv ==
  verdict # NoVerdict =>
    /\ verdict.a \in 1 .. Len(sealed) /\ verdict.b \in 1 .. Len(sealed)
    /\ VerdictIsEarned

PairInv == PairTypeInv /\ WorldInv /\ RecordInv /\ SealInv /\ ReceiptInv /\ VerdictInv

\* What no step of the pair takes back.
Lasts ==
  /\ \A r \in Arms : phase[r] = "done" =>
       /\ phase'[r] = "done" /\ policy'[r] = policy[r] /\ launched'[r] = launched[r]
       /\ started'[r] = started[r] /\ attempts'[r] = attempts[r]
  /\ \A p \in Pods : Grows(acct[p], acct'[p])
  /\ Len(sealed) \in Nat /\ Len(sealed') \in Nat /\ Len(sealed) <= Len(sealed')
  /\ \A k \in 1 .. Len(sealed) : sealed'[k] = sealed[k]

\* A fresh attempt has the invariant.
LEMMA PairInitInv == PairInit => PairInv
<1> SUFFICES ASSUME PairInit PROVE PairInv
  OBVIOUS
<1> USE DEF PairInit, NewPods, Unserved, NoRecords
<1>1. PairTypeInv
  BY PairAssumption DEF PairTypeInv, Account, Arms, Stages
<1>2. WorldInv
  BY DEF WorldInv, Arms
<1>3. RecordInv
  BY DEF RecordInv
<1>4. SealInv /\ ReceiptInv /\ VerdictInv
  BY DEF SealInv, ReceiptInv, VerdictInv
<1> QED
  BY <1>1, <1>2, <1>3, <1>4 DEF PairInv

\* One job's history in a batch that ends.
LEMMA BatchEndsFacts ==
  ASSUME PairTypeInv, NEW r \in Arms, BatchEnds(r)
  PROVE  /\ attempts' \in [Arms -> [Jobs -> Seq(Pods)]]
         /\ \A j \in Jobs : attempts'[r][j] # <<>> /\ attempts'[r][j] \in Histories
         /\ \A x \in Arms : x # r => attempts'[x] = attempts[x]
         /\ acct' \in [Pods -> Account]
         /\ \A x \in Pods : \/ acct'[x] = acct[x]
                            \/ acct[x].stage \in {"new", "serving"} /\ acct'[x].stage = "serving"
<1>1. PICK p \in {x \in Pods : acct[x].stage \in {"new", "serving"}},
           q \in {x \in Pods : acct[x].stage \in {"new", "serving"}} :
        \E odd \in {<<p>>, <<q>>, <<q, p>>} :
          /\ attempts' = [attempts EXCEPT ![r] =
                            [j \in Jobs |-> IF j = CHOOSE j_1 \in Jobs : TRUE THEN odd ELSE <<p>>]]
          /\ acct' = [x \in Pods |-> IF x = p \/ x = odd[1]
                                       THEN [acct[x] EXCEPT !.stage = "serving"] ELSE acct[x]]
  BY DEF BatchEnds
<1>2. PICK odd \in {<<p>>, <<q>>, <<q, p>>} :
        /\ attempts' = [attempts EXCEPT ![r] =
                          [j \in Jobs |-> IF j = CHOOSE j_1 \in Jobs : TRUE THEN odd ELSE <<p>>]]
        /\ acct' = [x \in Pods |-> IF x = p \/ x = odd[1]
                                     THEN [acct[x] EXCEPT !.stage = "serving"] ELSE acct[x]]
  BY <1>1
<1>3. odd \in Seq(Pods) /\ odd # <<>> /\ odd[1] \in {p, q} /\ <<p>> \in Seq(Pods) /\ <<p>> # <<>>
  <2>1. p \in Pods /\ q \in Pods
    OBVIOUS
  <2>2. /\ <<p>> \in Seq(Pods) /\ <<p>> # <<>> /\ <<p>>[1] = p
        /\ <<q>> \in Seq(Pods) /\ <<q>> # <<>> /\ <<q>>[1] = q
    BY <2>1
  <2>3. <<q, p>> \in Seq(Pods) /\ <<q, p>> # <<>> /\ <<q, p>>[1] = q
    BY <2>1
  <2> QED
    BY <2>2, <2>3
<1>4. attempts' \in [Arms -> [Jobs -> Seq(Pods)]]
  BY <1>2, <1>3 DEF PairTypeInv
<1>5. attempts'[r] = [j \in Jobs |-> IF j = CHOOSE j_1 \in Jobs : TRUE THEN odd ELSE <<p>>]
  BY <1>2 DEF PairTypeInv
<1>6. \A j \in Jobs : attempts'[r][j] # <<>> /\ attempts'[r][j] \in Histories
  <2>1. odd \in Histories /\ <<p>> \in Histories
    BY DEF Histories
  <2> QED
    BY <1>3, <1>5, <2>1
<1>7. \A x \in Arms : x # r => attempts'[x] = attempts[x]
  BY <1>2 DEF PairTypeInv
<1>8. acct' \in [Pods -> Account]
  BY <1>2 DEF PairTypeInv, Account, Stages
<1>9. \A x \in Pods : \/ acct'[x] = acct[x]
                      \/ acct[x].stage \in {"new", "serving"} /\ acct'[x].stage = "serving"
  BY <1>2, <1>3 DEF PairTypeInv, Account
<1> QED
  BY <1>4, <1>6, <1>7, <1>8, <1>9

\* The accounting of one pod.
LEMMA AccountsFacts ==
  ASSUME PairTypeInv, NEW p \in Pods, Accounts(p)
  PROVE  /\ acct' \in [Pods -> Account] /\ clock' \in Nat /\ clock <= clock'
         /\ \A x \in Pods : Grows(acct[x], acct'[x])
         /\ UNCHANGED <<phase, policy, launched, started, attempts, evidenceVars>>
<1> USE DEF PairTypeInv, Account, Stages, Grows
<1>0. /\ acct[p].stage \in {"serving", "terminated", "charged", "settled"}
      /\ UNCHANGED <<phase, policy, launched, started, attempts, evidenceVars>>
  BY DEF Accounts
<1>2. CASE acct[p].stage = "serving"
  <2>1. acct' = [acct EXCEPT ![p] = [stage |-> "terminated", charge |-> acct[p].charge,
                                     ended |-> clock + 1]] /\ clock' = clock + 1
    BY <1>2 DEF Accounts, NextStage
  <2> QED
    BY <1>0, <1>2, <2>1
<1>3. CASE acct[p].stage = "terminated"
  <2>1. PICK c \in 0 .. MaxCharge :
          acct' = [acct EXCEPT ![p] = [stage |-> "charged", charge |-> c, ended |-> acct[p].ended]]
            /\ clock' = clock
    BY <1>3 DEF Accounts, NextStage
  <2> QED
    BY <1>0, <1>3, <2>1
<1>4. CASE acct[p].stage \in {"charged", "settled"}
  <2>1. \/ acct' = [acct EXCEPT ![p] = [stage |-> "settled", charge |-> acct[p].charge,
                                        ended |-> acct[p].ended]]
             /\ clock' = clock /\ acct[p].stage = "charged"
        \/ acct' = [acct EXCEPT ![p].charge = @ + 1] /\ clock' = clock
             /\ acct[p].charge < MaxCharge
    BY <1>4 DEF Accounts, NextStage
  <2>2. CASE acct' = [acct EXCEPT ![p] = [stage |-> "settled", charge |-> acct[p].charge,
                                          ended |-> acct[p].ended]]
    BY <1>0, <1>4, <2>1, <2>2, PairAssumption
  <2>3. CASE acct' = [acct EXCEPT ![p].charge = @ + 1]
    <3>1. acct[p].charge + 1 \in 0 .. MaxCharge
      BY <2>1, <2>3, PairAssumption
    <3>2. acct'[p].stage = acct[p].stage /\ acct'[p].ended = acct[p].ended
            /\ acct'[p].charge = acct[p].charge + 1
      BY <2>3
    <3>3. acct' \in [Pods -> Account]
      BY <2>3, <3>1
    <3> QED
      BY <1>0, <1>4, <2>1, <2>3, <3>2, <3>3, PairAssumption
  <2> QED
    BY <2>1, <2>2, <2>3
<1> QED
  BY <1>0, <1>2, <1>3, <1>4

\* A record read is of the arm that is collected, and true of the pod.
LEMMA FetchFacts ==
  ASSUME PairTypeInv, WorldInv, RecordInv, NEW r \in Arms, NEW j \in Jobs, Fetch(r, j)
  PROVE  /\ collecting' \in Arms \cup {"none"} /\ observed' \in Nat
         /\ got' \in [Jobs -> {NoRecord} \cup Records]
         /\ RecordInv'
         /\ UNCHANGED <<worldVars, sealed, receipts, verdict>>
<1> DEFINE served == attempts[r][j]
           pod == served[Len(served)]
<1>1. /\ phase[r] = "done" /\ collecting' = r
      /\ got' = [got EXCEPT ![j] = [pods |-> served, acct |-> acct[pod]]]
      /\ collecting = r \/ collecting = "none"
      /\ UNCHANGED <<worldVars, sealed, receipts, verdict>>
  BY DEF Fetch, CollectStarts, RecordInv, Arms
<1>2. served \in Seq(Pods) /\ served # <<>>
  BY <1>1 DEF PairTypeInv, WorldInv
<1>3. pod \in Pods
  BY <1>2
<1>4. [pods |-> served, acct |-> acct[pod]] \in Records
  BY <1>2, <1>3 DEF Records, PairTypeInv
<1>5. got' \in [Jobs -> {NoRecord} \cup Records]
  BY <1>1, <1>4 DEF PairTypeInv
<1>7. observed' \in Nat /\ started'[r] <= observed'
  <2>1. started' = started /\ started[r] \in Nat /\ clock \in Nat /\ observed \in Nat
    BY <1>1 DEF worldVars, PairTypeInv
  <2>2. CASE collecting = "none"
    BY <2>1, <2>2 DEF Fetch, Stated
  <2>3. CASE collecting = r
    BY <2>1, <2>3 DEF Fetch, RecordInv, Arms
  <2> QED
    BY <1>1, <2>2, <2>3
<1>6. RecordInv'
  <2>1. phase'[collecting'] = "done" /\ acct' = acct /\ attempts' = attempts
    BY <1>1 DEF worldVars
  <2> SUFFICES ASSUME NEW i \in Jobs, got'[i] # NoRecord
               PROVE  /\ got'[i].pods = attempts[r][i]
                      /\ Grows(got'[i].acct, acct[ServedBy(got'[i])])
    BY <1>1, <1>7, <2>1 DEF RecordInv, ServedBy
  <2>2. CASE i = j
    <3>1. got'[i] = [pods |-> served, acct |-> acct[pod]]
      BY <1>1, <2>2 DEF PairTypeInv
    <3>2. ServedBy(got'[i]) = pod
      BY <3>1 DEF ServedBy
    <3>3. Grows(acct[pod], acct[pod])
      BY <1>3, PairAssumption DEF Grows, PairTypeInv, Account
    <3> QED
      BY <2>2, <3>1, <3>2, <3>3
  <2>3. CASE i # j
    <3>1. got'[i] = got[i]
      BY <1>1, <2>3 DEF PairTypeInv
    <3> QED
      BY <1>1, <3>1 DEF RecordInv, Arms
  <2> QED
    BY <2>2, <2>3
<1> QED
  BY <1>1, <1>5, <1>6, <1>7

\* A batch that starts touches its own arm only.
LEMMA BatchStartsFacts ==
  ASSUME PairTypeInv, WorldInv, NEW r \in Arms, BatchStarts(r)
  PROVE  /\ phase[r] = "none"
         /\ phase' \in [Arms -> {"none", "running", "done"}] /\ policy' \in [Arms -> Policies]
         /\ launched' \in [Arms -> Nat] /\ started' \in [Arms -> Nat]
         /\ WorldInv'
         /\ UNCHANGED <<clock, acct, attempts, evidenceVars>>
         /\ \A x \in Arms : x # r =>
              /\ phase'[x] = phase[x] /\ policy'[x] = policy[x]
              /\ launched'[x] = launched[x] /\ started'[x] = started[x]
<1> USE DEF PairTypeInv
<1>1. /\ phase[r] = "none" /\ phase' = [phase EXCEPT ![r] = "running"]
      /\ started' = [started EXCEPT ![r] = clock]
      /\ UNCHANGED <<clock, acct, attempts, evidenceVars>>
  BY DEF BatchStarts
<1>2. PICK q \in Policies : policy' = [policy EXCEPT ![r] = q]
  BY DEF BatchStarts
<1>3. PICK e \in (IF r = "A" THEN 1 ELSE launched["A"]) .. MaxEpoch :
        launched' = [launched EXCEPT ![r] = e]
  BY DEF BatchStarts
<1>4. e \in Nat
  BY PairAssumption DEF Arms
<1>5. WorldInv'
  BY <1>1 DEF WorldInv
<1> QED
  BY <1>1, <1>2, <1>3, <1>4, <1>5

\* A candidate is sound when it is sealed.
LEMMA ExamineFacts ==
  ASSUME PairInv, Examine
  PROVE  /\ sealed' \in Seq(Sealable)
         /\ \/ sealed' = sealed
            \/ \E c \in Sealable : sealed' = Append(sealed, c) /\ Sound(c)
         /\ collecting' = "none" /\ observed' = 0 /\ got' = NoRecords
         /\ UNCHANGED <<worldVars, receipts, verdict>>
<1> USE DEF PairInv, PairTypeInv
<1>0. /\ collecting' = "none" /\ observed' = 0 /\ got' = NoRecords
      /\ UNCHANGED <<worldVars, receipts, verdict>>
  BY DEF Examine
<1>1. CASE sealed' = sealed
  BY <1>0, <1>1
<1>2. CASE sealed' # sealed
  <2>1. PICK prior \in Candidates \cup {NoPrior} :
          /\ Accounted /\ Same /\ Complete /\ OneAttempt /\ Accrued /\ Chains(prior)
          /\ Seal(prior)
    BY <1>2 DEF Examine
  <2> DEFINE pod == ServedBy(First)
             c == [run |-> collecting, pod |-> pod, charge |-> First.acct.charge,
                   ended |-> First.acct.ended, began |-> observed,
                   sources |-> {collecting} \cup prior.sources,
                   samples |-> 1 + prior.samples, chained |-> prior # NoPrior]
  <2>2. sealed' = Append(sealed, c)
    BY <2>1 DEF Seal
  <2>3. collecting \in Arms /\ \A j \in Jobs : got[j] # NoRecord /\ got[j] \in Records
    BY DEF Examine, Collected
  <2>4. \A j \in Jobs : attempts[collecting][j] = got[j].pods /\ Len(got[j].pods) = 1
    BY <2>1, <2>3 DEF RecordInv, OneAttempt
  <2>5. \A j \in Jobs : ServedBy(got[j]) = pod /\ got[j].pods[1] = pod
    BY <2>1, <2>4 DEF Same, ServedBy
  <2>6. \A j \in Jobs : attempts[collecting][j] = <<pod>>
    BY <2>3, <2>4, <2>5 DEF Records
  <2>7. PICK j \in Jobs : First = got[j]
    BY PairAssumption DEF First
  <2>8. pod \in Pods
    BY <2>3, <2>4, <2>5, <2>7 DEF Records
  <2>9. /\ First.acct \in Account /\ First.acct.stage = "settled" /\ Floor <= First.acct.charge
        /\ Grows(First.acct, acct[pod])
    BY <2>1, <2>3, <2>7 DEF Records, Complete, Accrued, RecordInv
  <2>10. /\ acct[pod].stage = "settled" /\ acct[pod].ended = First.acct.ended
         /\ First.acct.charge <= acct[pod].charge
    BY <2>9 DEF Grows
  <2>11. /\ prior.sources \subseteq Arms \cup {"old"} /\ prior.samples \in Nat
         /\ IsFiniteSet(prior.sources) /\ prior.samples = Cardinality(prior.sources)
    <3>1. CASE prior = NoPrior
      BY <3>1, FS_EmptySet DEF NoPrior
    <3>2. CASE prior = OldCandidate
      BY <3>2, FS_Singleton DEF OldCandidate
    <3>3. CASE \E k \in 1 .. Len(sealed) : prior = sealed[k]
      <4>1. prior \in Sealable /\ Sound(prior)
        BY <3>3 DEF SealInv
      <4> QED
        BY <4>1 DEF Sound, Sealable
    <3> QED
      BY <3>1, <3>2, <3>3 DEF Candidates
  <2>12. /\ IsFiniteSet({collecting} \cup prior.sources)
         /\ Cardinality({collecting} \cup prior.sources) = 1 + prior.samples
    <3>1. collecting \notin prior.sources
      BY <2>1 DEF Chains
    <3>2. {collecting} \cup prior.sources = prior.sources \cup {collecting}
      OBVIOUS
    <3>3. /\ IsFiniteSet(prior.sources \cup {collecting})
          /\ Cardinality(prior.sources \cup {collecting}) = Cardinality(prior.sources) + 1
      BY <2>11, <3>1, FS_AddElement
    <3>4. Cardinality(prior.sources) + 1 = 1 + prior.samples
      BY <2>11
    <3> QED
      BY <3>2, <3>3, <3>4, Zenon
  <2>13. c \in Sealable
    <3> DEFINE chained == prior # NoPrior
    <3>1. chained \in BOOLEAN
      OBVIOUS
    <3>2. First.acct.charge \in 0 .. MaxCharge /\ First.acct.ended \in Nat /\ observed \in Nat
      BY <2>9 DEF Account
    <3>3. {collecting} \cup prior.sources \subseteq Arms \cup {"old"} /\ 1 + prior.samples \in Nat
      BY <2>3, <2>11
    <3> HIDE DEF chained, pod
    <3> QED
      BY <2>3, <2>8, <3>1, <3>2, <3>3 DEF Sealable
  <2>14. phase[collecting] = "done" /\ started[collecting] <= observed
    BY <2>3 DEF RecordInv, Arms
  <2>15. Sound(c)
    BY <2>6, <2>9, <2>10, <2>12, <2>14 DEF Sound
  <2>16. sealed \in Seq(Sealable)
    OBVIOUS
  <2> HIDE DEF c, pod
  <2> QED
    BY <1>0, <2>2, <2>13, <2>15, <2>16
<1> QED
  BY <1>1, <1>2

\* A receipt names no session later than the control plane of its arm.
LEMMA ReceiptFacts ==
  ASSUME PairInv, NEW a \in Arms, NEW k \in 1 .. Len(sealed), Receipt(a, k)
  PROVE  /\ receipts' \in [Arms -> {NoReceipt} \cup Receipts]
         /\ UNCHANGED <<worldVars, collecting, observed, got, sealed, verdict>>
         /\ ReceiptInv'
<1> USE DEF PairInv, PairTypeInv
<1> DEFINE r == sealed[k].run
<1>1. r \in Arms
  <2>1. sealed[k] \in Sealable
    OBVIOUS
  <2> QED
    BY <2>1 DEF Sealable
<1>2. PICK e \in 1 .. launched[r], c \in 0 .. Len(sealed) :
        receipts' = [receipts EXCEPT ![a] =
                       [snapshot |-> k, policy |-> policy[r], session |-> e, prior |-> c]]
  BY DEF Receipt
<1>3. launched[r] \in Nat /\ e \in Nat /\ e <= launched[r]
  BY <1>1
<1>4. UNCHANGED <<worldVars, collecting, observed, got, sealed, verdict>>
  BY DEF Receipt
<1>5. [snapshot |-> k, policy |-> policy[r], session |-> e, prior |-> c] \in Receipts
  BY <1>1, <1>3 DEF Receipts
<1>6. receipts' \in [Arms -> {NoReceipt} \cup Receipts]
  BY <1>2, <1>5
<1>7. ReceiptInv'
  <2>1. sealed' = sealed /\ launched' = launched /\ policy' = policy
    BY <1>4 DEF worldVars
  <2>2. /\ receipts'[a].snapshot = k /\ receipts'[a].session <= launched[r]
        /\ receipts'[a].policy = policy[r]
    BY <1>2, <1>3
  <2>3. \A x \in Arms : x # a => receipts'[x] = receipts[x]
    BY <1>2
  <2> QED
    BY <2>1, <2>2, <2>3 DEF ReceiptInv
<1> QED
  BY <1>4, <1>6, <1>7

\* What the comparison looks at is enough: pods that differ are of arms that differ.
LEMMA CompareFacts ==
  ASSUME PairInv, NEW a \in 1 .. Len(sealed), NEW b \in 1 .. Len(sealed), Compare(a, b)
  PROVE  /\ VerdictInv'
         /\ UNCHANGED <<worldVars, collecting, observed, got, sealed, receipts>>
<1> USE DEF PairInv, PairTypeInv
<1> DEFINE ra == sealed[a].run
           rb == sealed[b].run
<1>1. /\ UNCHANGED <<worldVars, collecting, observed, got, sealed, receipts>>
      /\ verdict' = [a |-> a, b |-> b, session |-> receipts["A"].session,
                     validated |-> Validated(a, b)]
      /\ \A x \in Arms : receipts[x].policy = Registered(x)
      /\ receipts["A"].session = receipts["B"].session
      /\ receipts["A"] # NoReceipt /\ sealed[receipts["A"].snapshot].run = ra
      /\ receipts["B"] # NoReceipt /\ sealed[receipts["B"].snapshot].run = rb
  BY DEF Compare, ArmComplete
<1>2. sealed[a].pod # sealed[b].pod /\ sealed[a].ended <= sealed[b].began
  BY DEF Compare, Sequential
<1>3. sealed[a] \in Sealable /\ sealed[b] \in Sealable /\ Sound(sealed[a]) /\ Sound(sealed[b])
  BY DEF SealInv
<1>4. ra \in Arms /\ rb \in Arms
  BY <1>3 DEF Sealable
<1>5. \A j \in Jobs : attempts[ra][j] = <<sealed[a].pod>> /\ attempts[rb][j] = <<sealed[b].pod>>
  BY <1>3 DEF Sound
<1>6. ra # rb
  <2>1. PICK j \in Jobs : TRUE
    BY PairAssumption
  <2>2. attempts[ra][j] = <<sealed[a].pod>> /\ attempts[rb][j] = <<sealed[b].pod>>
    BY <1>5
  <2> QED
    BY <1>2, <2>2
<1>7. /\ receipts["A"].session <= launched[ra] /\ receipts["A"].session <= launched[rb]
      /\ policy[ra] = Registered("A") /\ policy[rb] = Registered("B")
  BY <1>1 DEF ReceiptInv, Arms
<1>8. acct[sealed[a].pod].ended <= sealed[b].began /\ started[rb] <= sealed[b].began
  BY <1>2, <1>3 DEF Sound
<1>9. /\ sealed' = sealed /\ policy' = policy /\ launched' = launched /\ acct' = acct
      /\ started' = started /\ attempts' = attempts
  BY <1>1 DEF worldVars
<1>10. verdict'.a = a /\ verdict'.b = b /\ verdict'.session = receipts["A"].session
  BY <1>1
<1>11. VerdictIsEarned'
  BY <1>2, <1>5, <1>6, <1>7, <1>8, <1>9, <1>10 DEF VerdictIsEarned
<1> QED
  BY <1>1, <1>9, <1>10, <1>11 DEF VerdictInv

\* What was sealed stays sound.
LEMMA SealLasts ==
  ASSUME PairInv, PairTypeInv', Lasts, NEW c \in Sealable, Sound(c)
  PROVE  Sound(c)'
<1>1. c.run \in Arms /\ c.pod \in Pods /\ c.charge \in Nat
  BY PairAssumption DEF Sealable
<1>2. /\ phase'[c.run] = "done" /\ attempts'[c.run] = attempts[c.run]
      /\ started'[c.run] = started[c.run]
      /\ Grows(acct[c.pod], acct'[c.pod])
  BY <1>1 DEF Sound, Lasts
<1>3. /\ acct[c.pod].charge \in Nat /\ acct'[c.pod].charge \in Nat
  <2>1. acct[c.pod] \in Account /\ acct'[c.pod] \in Account
    BY <1>1 DEF PairInv, PairTypeInv
  <2> QED
    BY <2>1, PairAssumption DEF Account
<1> QED
  BY <1>1, <1>2, <1>3, PairAssumption DEF Sound, Grows

\* A verdict that stands stays earned.
LEMMA VerdictLasts ==
  ASSUME PairInv, Lasts, verdict' = verdict
  PROVE  VerdictInv'
<1> SUFFICES ASSUME verdict # NoVerdict PROVE VerdictInv'
  BY DEF VerdictInv
<1> DEFINE a == sealed[verdict.a]
           b == sealed[verdict.b]
<1>1. /\ verdict.a \in 1 .. Len(sealed) /\ verdict.b \in 1 .. Len(sealed)
      /\ VerdictIsEarned
  BY DEF PairInv, VerdictInv
<1>2. a \in Sealable /\ b \in Sealable /\ Sound(a) /\ Sound(b)
  BY <1>1 DEF PairInv, PairTypeInv, SealInv
<1>3. sealed'[verdict.a] = a /\ sealed'[verdict.b] = b
  BY <1>1 DEF Lasts
<1>4. verdict'.a \in 1 .. Len(sealed') /\ verdict'.b \in 1 .. Len(sealed')
  BY <1>1 DEF Lasts
<1>5. a.run \in Arms /\ b.run \in Arms
  BY <1>2 DEF Sealable
<1>6. \A r \in {a.run, b.run} : phase[r] = "done"
  BY <1>2 DEF Sound
<1>7. \A r \in {a.run, b.run} :
                      /\ policy'[r] = policy[r] /\ launched'[r] = launched[r]
                      /\ started'[r] = started[r] /\ attempts'[r] = attempts[r]
  BY <1>5, <1>6 DEF Lasts
<1>8. acct'[a.pod].ended = acct[a.pod].ended
  BY <1>2 DEF Sealable, Sound, Lasts, Grows
<1>9. VerdictIsEarned'
  BY <1>1, <1>3, <1>7, <1>8 DEF VerdictIsEarned
<1> QED
  BY <1>4, <1>9 DEF VerdictInv

\* Whatever an action leaves alone stays as it is.
LEMMA Reflexive == PairTypeInv => \A p \in Pods : Grows(acct[p], acct[p])
<1> SUFFICES ASSUME PairTypeInv, NEW p \in Pods PROVE Grows(acct[p], acct[p])
  OBVIOUS
<1>1. acct[p].charge \in Nat
  <2>1. acct[p] \in Account
    BY DEF PairTypeInv
  <2> QED
    BY <2>1, PairAssumption DEF Account
<1> QED
  BY <1>1 DEF Grows

\* Records in hand stay true while the accounting goes on.
LEMMA RecordLasts ==
  ASSUME PairInv, PairTypeInv', Lasts, UNCHANGED <<collecting, observed, got>>
  PROVE  RecordInv'
<1> USE DEF PairInv, PairTypeInv
<1>1. collecting' # "none" =>
        phase'[collecting'] = "done" /\ started'[collecting'] <= observed'
  BY DEF RecordInv, Lasts, Arms
<1>2. SUFFICES ASSUME NEW j \in Jobs, got[j] # NoRecord
               PROVE  /\ got[j].pods = attempts'[collecting][j]
                      /\ Grows(got[j].acct, acct'[ServedBy(got[j])])
  BY <1>1 DEF RecordInv, ServedBy
<1>3. got[j] \in Records /\ collecting \in Arms /\ got[j].pods = attempts[collecting][j]
  BY <1>2 DEF RecordInv
<1>4. phase[collecting] = "done"
  BY <1>3 DEF RecordInv, Arms
<1>5. attempts'[collecting] = attempts[collecting]
  BY <1>3, <1>4 DEF Lasts
<1> DEFINE p == ServedBy(got[j])
<1>6. p \in Pods
  <2>1. got[j].pods \in Seq(Pods) /\ got[j].pods # <<>>
    BY <1>3, <1>4 DEF Records, WorldInv
  <2> QED
    BY <2>1 DEF ServedBy
<1>7. Grows(got[j].acct, acct[p]) /\ Grows(acct[p], acct'[p])
  BY <1>2, <1>6 DEF RecordInv, Lasts
<1>8. acct[p] \in Account /\ acct'[p] \in Account /\ got[j].acct \in Account
  BY <1>3, <1>6 DEF Records
<1>9. acct[p].charge \in Nat /\ acct'[p].charge \in Nat /\ got[j].acct.charge \in Nat
  BY <1>8, PairAssumption DEF Account
<1>10. Grows(got[j].acct, acct'[p])
  BY <1>7, <1>9 DEF Grows
<1> QED
  BY <1>3, <1>5, <1>10

\* What was sealed and said stays true over a step that seals nothing.
LEMMA OldLasts ==
  ASSUME PairInv, PairTypeInv', Lasts, sealed' = sealed
  PROVE  /\ SealInv'
         /\ receipts' = receipts => ReceiptInv'
         /\ verdict' = verdict => VerdictInv'
<1>1. \A k \in 1 .. Len(sealed) : sealed[k] \in Sealable /\ Sound(sealed[k])
  BY DEF PairInv, PairTypeInv, SealInv
<1>2. SealInv'
  <2> SUFFICES ASSUME NEW k \in 1 .. Len(sealed) PROVE Sound(sealed[k])'
    BY DEF SealInv
  <2>1. \A c \in Sealable : Sound(c) => /\ phase'[c.run] = "done"
                                        /\ started'[c.run] <= c.began
                                        /\ acct'[c.pod].stage = "settled"
                                        /\ acct'[c.pod].ended = c.ended
                                        /\ Floor <= c.charge /\ c.charge <= acct'[c.pod].charge
                                        /\ \A j \in Jobs : attempts'[c.run][j] = <<c.pod>>
                                        /\ IsFiniteSet(c.sources)
                                        /\ c.samples = Cardinality(c.sources)
    BY SealLasts DEF Sound
  <2> QED
    BY <1>1, <2>1 DEF Sound
<1>3. ASSUME receipts' = receipts PROVE ReceiptInv'
  <2> SUFFICES ASSUME NEW a \in Arms, receipts[a] # NoReceipt
               PROVE  /\ receipts[a].snapshot \in 1 .. Len(sealed)
                      /\ receipts[a].session <= launched'[sealed[receipts[a].snapshot].run]
                      /\ receipts[a].policy = policy'[sealed[receipts[a].snapshot].run]
    BY <1>3 DEF ReceiptInv
  <2> DEFINE k == receipts[a].snapshot
  <2>1. /\ k \in 1 .. Len(sealed)
        /\ receipts[a].session <= launched[sealed[k].run]
        /\ receipts[a].policy = policy[sealed[k].run]
    BY DEF PairInv, ReceiptInv
  <2>2. sealed[k].run \in Arms /\ phase[sealed[k].run] = "done"
    BY <1>1, <2>1 DEF Sealable, Sound
  <2> QED
    BY <2>1, <2>2 DEF Lasts
<1> QED
  BY <1>2, <1>3, VerdictLasts

\* A batch that starts keeps the invariant.
LEMMA BatchStartsInv ==
  ASSUME PairInv, NEW r \in Arms, BatchStarts(r)
  PROVE  PairInv'
<1>0. PairTypeInv /\ WorldInv
  BY DEF PairInv
<1>1. /\ WorldInv' /\ UNCHANGED <<clock, acct, attempts, evidenceVars>>
      /\ \A x \in Arms : x # r =>
           /\ phase'[x] = phase[x] /\ policy'[x] = policy[x]
           /\ launched'[x] = launched[x] /\ started'[x] = started[x]
      /\ phase[r] = "none"
  BY <1>0, BatchStartsFacts
<1>2. PairTypeInv'
  BY <1>0, BatchStartsFacts DEF PairTypeInv, evidenceVars
<1>3. Lasts
  BY <1>0, <1>1, Reflexive DEF Lasts, PairTypeInv, evidenceVars
<1> QED
  BY <1>1, <1>2, <1>3, RecordLasts, OldLasts DEF PairInv, evidenceVars

\* So does one that ends.
LEMMA BatchEndsInv ==
  ASSUME PairInv, NEW r \in Arms, BatchEnds(r)
  PROVE  PairInv'
<1>0. PairTypeInv /\ WorldInv
  BY DEF PairInv
<1>1. /\ phase[r] = "running" /\ phase' = [phase EXCEPT ![r] = "done"]
      /\ UNCHANGED <<clock, policy, launched, started, evidenceVars>>
  BY DEF BatchEnds
<1>2. PairTypeInv'
  BY <1>0, <1>1, BatchEndsFacts DEF PairTypeInv, evidenceVars
<1>3. WorldInv'
  <2>1. \A x \in Arms : phase'[x] = "done" => \A j \in Jobs : attempts'[x][j] # <<>>
    BY <1>0, <1>1, BatchEndsFacts DEF PairTypeInv, WorldInv
  <2> QED
    BY <1>0, <1>1, <2>1 DEF WorldInv
<1>4. Lasts
  <2>1. \A p \in Pods : Grows(acct[p], acct'[p])
    BY <1>0, BatchEndsFacts, Reflexive DEF Grows
  <2>2. \A x \in Arms : phase[x] = "done" => phase'[x] = "done" /\ attempts'[x] = attempts[x]
    BY <1>0, <1>1, BatchEndsFacts DEF PairTypeInv
  <2> QED
    BY <1>0, <1>1, <2>1, <2>2 DEF Lasts, PairTypeInv, evidenceVars
<1> QED
  BY <1>1, <1>2, <1>3, <1>4, RecordLasts, OldLasts DEF PairInv, evidenceVars

\* So does the accounting.
LEMMA AccountsInv ==
  ASSUME PairInv, NEW p \in Pods, Accounts(p)
  PROVE  PairInv'
<1>0. PairTypeInv /\ WorldInv
  BY DEF PairInv
<1>1. UNCHANGED <<phase, policy, launched, started, attempts, evidenceVars>>
  BY <1>0, AccountsFacts
<1>2. PairTypeInv'
  BY <1>0, AccountsFacts DEF PairTypeInv, evidenceVars
<1>3. WorldInv'
  BY <1>0, <1>1, AccountsFacts DEF PairTypeInv, WorldInv
<1>4. Lasts
  BY <1>0, <1>1, AccountsFacts DEF Lasts, PairTypeInv, evidenceVars
<1> QED
  BY <1>1, <1>2, <1>3, <1>4, RecordLasts, OldLasts DEF PairInv, evidenceVars

\* The collector, the receipt and the comparison change nothing of the world.
LEMMA EvidenceLasts ==
  ASSUME PairInv, UNCHANGED worldVars
  PROVE  /\ WorldInv'
         /\ sealed' = sealed => Lasts
<1> QED
  BY Reflexive DEF PairInv, PairTypeInv, WorldInv, Lasts, worldVars

\* The collector keeps the invariant, whether it seals or not.
LEMMA ExamineInv ==
  ASSUME PairInv, Examine
  PROVE  PairInv'
<1>1. /\ collecting' = "none" /\ observed' = 0 /\ got' = NoRecords
      /\ UNCHANGED <<worldVars, receipts, verdict>>
  BY ExamineFacts
<1>2. PairTypeInv'
  BY <1>1, ExamineFacts DEF PairInv, PairTypeInv, worldVars, NoRecords
<1>3. RecordInv' /\ WorldInv'
  BY <1>1, EvidenceLasts DEF RecordInv, NoRecords
<1>4. CASE sealed' = sealed
  BY <1>1, <1>2, <1>3, <1>4, EvidenceLasts, OldLasts DEF PairInv
<1>5. CASE \E c \in Sealable : sealed' = Append(sealed, c) /\ Sound(c)
  <2>1. PICK c \in Sealable : sealed' = Append(sealed, c) /\ Sound(c)
    BY <1>5
  <2>2. /\ Len(sealed) \in Nat /\ Len(sealed') = Len(sealed) + 1
        /\ \A k \in 1 .. Len(sealed) : sealed'[k] = sealed[k]
        /\ sealed'[Len(sealed) + 1] = c
    BY <2>1 DEF PairInv, PairTypeInv
  <2>3. phase' = phase /\ acct' = acct /\ attempts' = attempts /\ policy' = policy
          /\ launched' = launched /\ started' = started
    BY <1>1 DEF worldVars
  <2>4. SealInv'
    <3> SUFFICES ASSUME NEW k \in 1 .. Len(sealed) + 1 PROVE Sound(sealed'[k])
      BY <2>2, <2>3 DEF SealInv, Sound
    <3>1. CASE k \in 1 .. Len(sealed)
      BY <2>2, <3>1 DEF PairInv, SealInv
    <3>2. CASE k = Len(sealed) + 1
      BY <2>1, <2>2, <3>2
    <3> QED
      BY <2>2, <3>1, <3>2
  <2>5. ReceiptInv'
    BY <1>1, <2>2, <2>3 DEF PairInv, ReceiptInv
  <2>6. Lasts
    BY <2>2, <2>3, Reflexive DEF PairInv, Lasts
  <2>7. VerdictInv'
    BY <1>1, <2>6, VerdictLasts
  <2> QED
    BY <1>2, <1>3, <2>4, <2>5, <2>7 DEF PairInv
<1> QED
  BY <1>4, <1>5, ExamineFacts

\* Every step of the pair keeps the invariant.
LEMMA PairNextInv == PairInv /\ [PairNext]_pairVars => PairInv'
<1> SUFFICES ASSUME PairInv, [PairNext]_pairVars PROVE PairInv'
  OBVIOUS
<1>0. PairTypeInv /\ WorldInv /\ RecordInv
  BY DEF PairInv
<1>1. CASE Batches \/ World
  BY <1>1, BatchStartsInv, BatchEndsInv, AccountsInv DEF Batches, World
<1>2. ASSUME NEW r \in Arms, NEW j \in Jobs, Fetch(r, j) PROVE PairInv'
  <2>1. UNCHANGED <<worldVars, sealed, receipts, verdict>> /\ RecordInv'
    BY <1>0, <1>2, FetchFacts
  <2>2. PairTypeInv'
    BY <1>0, <1>2, <2>1, FetchFacts DEF PairTypeInv, worldVars
  <2> QED
    BY <2>1, <2>2, EvidenceLasts, OldLasts DEF PairInv
<1>3. ASSUME NEW a \in Arms, NEW k \in 1 .. Len(sealed), Receipt(a, k) PROVE PairInv'
  <2>1. UNCHANGED <<worldVars, collecting, observed, got, sealed, verdict>> /\ ReceiptInv'
    BY <1>3, ReceiptFacts
  <2>2. PairTypeInv'
    BY <1>0, <1>3, <2>1, ReceiptFacts DEF PairTypeInv, worldVars
  <2> QED
    BY <2>1, <2>2, EvidenceLasts, RecordLasts, OldLasts DEF PairInv
<1>4. ASSUME NEW a \in 1 .. Len(sealed), NEW b \in 1 .. Len(sealed), Compare(a, b) PROVE PairInv'
  <2>1. UNCHANGED <<worldVars, collecting, observed, got, sealed, receipts>> /\ VerdictInv'
    BY <1>4, CompareFacts
  <2>2. PairTypeInv'
    BY <1>0, <2>1 DEF PairTypeInv, worldVars
  <2> QED
    BY <2>1, <2>2, EvidenceLasts, RecordLasts, OldLasts DEF PairInv
<1>5. CASE UNCHANGED pairVars
  <2>1. UNCHANGED <<worldVars, collecting, observed, got, sealed, receipts, verdict>>
    BY <1>5 DEF pairVars, evidenceVars
  <2>2. PairTypeInv'
    BY <1>0, <2>1 DEF PairTypeInv, worldVars
  <2> QED
    BY <2>1, <2>2, EvidenceLasts, RecordLasts, OldLasts DEF PairInv
<1> QED
  BY <1>1, <1>2, <1>3, <1>4, <1>5, ExamineInv DEF PairNext, Evidence

\* The invariant implies what the evidence promises.
LEMMA PairInvImplies == PairInv => CandidateIsSound /\ VerdictIsEarned
<1> SUFFICES ASSUME PairInv PROVE CandidateIsSound /\ VerdictIsEarned
  OBVIOUS
<1>1. CandidateIsSound
  BY DEF PairInv, SealInv, Sound, CandidateIsSound
<1>2. VerdictIsEarned
  BY DEF PairInv, VerdictInv, VerdictIsEarned
<1> QED
  BY <1>1, <1>2

\* A candidate states what was booked to a pod that is settled and that alone has served, and
\* counts no boot sample twice, although the accounting goes on between any two records.
THEOREM CandidateCorrect == PairSpec => []CandidateIsSound
BY PairInitInv, PairNextInv, PairInvImplies, PTL DEF PairSpec

\* A verdict is of two arms under their policies, each on a pod of its own, counted from an
\* invocation of B's canary that began when A's pod was gone, whatever the operator runs again,
\* collects, binds and compares, and in what order.
THEOREM VerdictCorrect == PairSpec => []VerdictIsEarned
BY PairInitInv, PairNextInv, PairInvImplies, PTL DEF PairSpec

\* The bounds and the shapes that PairTypeInv leaves out: what is being collected can be sealed.
BoundInv ==
  /\ launched \in [Arms -> 1 .. MaxEpoch]
  /\ \A r \in Arms : attempts[r] \in [Jobs -> Histories]
  /\ Len(sealed) <= MaxSeals
  /\ collecting # "none" => Len(sealed) < MaxSeals

\* A fresh attempt is within them.
LEMMA BoundInit == PairInit => BoundInv
BY PairAssumption DEF PairInit, BoundInv, Unserved, Histories

\* A job of a batch that ends was served by one pod, or by one after another.
LEMMA HistoriesEnd ==
  ASSUME PairTypeInv, BoundInv, NEW r \in Arms, BatchEnds(r)
  PROVE  \A x \in Arms : attempts'[x] \in [Jobs -> Histories]
<1>1. ASSUME NEW x \in Arms PROVE attempts'[x] \in [Jobs -> Histories]
  <2>1. attempts'[x] \in [Jobs -> Seq(Pods)]
    BY BatchEndsFacts
  <2> QED
    BY <2>1, BatchEndsFacts DEF BoundInv
<1> QED
  BY <1>1

\* Every step stays within them.
LEMMA BoundNext == PairInv /\ BoundInv /\ [PairNext]_pairVars => BoundInv'
<1> SUFFICES ASSUME PairInv, BoundInv, [PairNext]_pairVars PROVE BoundInv'
  OBVIOUS
<1>0. PairTypeInv /\ Len(sealed) \in Nat /\ MaxSeals \in Nat
  BY PairAssumption DEF PairInv, PairTypeInv
<1>1. ASSUME NEW r \in Arms, BatchStarts(r) PROVE BoundInv'
  <2>1. PICK e \in (IF r = "A" THEN 1 ELSE launched["A"]) .. MaxEpoch :
          launched' = [launched EXCEPT ![r] = e]
    BY <1>1 DEF BatchStarts
  <2>2. e \in 1 .. MaxEpoch
    BY PairAssumption DEF BoundInv, Arms
  <2> QED
    BY <1>1, <2>1, <2>2 DEF BatchStarts, BoundInv, evidenceVars
<1>2. ASSUME NEW r \in Arms, BatchEnds(r) PROVE BoundInv'
  <2>1. UNCHANGED <<launched, sealed, collecting>>
    BY <1>2 DEF BatchEnds, evidenceVars
  <2> QED
    BY <1>0, <1>2, <2>1, HistoriesEnd DEF BoundInv
<1>3. ASSUME NEW r \in Arms, NEW j \in Jobs, Fetch(r, j) PROVE BoundInv'
  BY <1>3 DEF Fetch, CollectStarts, BoundInv, worldVars, Arms
<1>4. CASE Examine
  <2>1. /\ collecting # "none" /\ collecting' = "none"
        /\ UNCHANGED <<launched, attempts>>
    BY <1>4 DEF Examine, Collected, worldVars
  <2>2. Len(sealed') <= Len(sealed) + 1
    BY <1>0, <1>4 DEF Examine, Seal, PairTypeInv
  <2>3. Len(sealed') \in Nat
    BY <1>4, ExamineFacts
  <2> QED
    BY <1>0, <2>1, <2>2, <2>3 DEF BoundInv
<1>5. CASE Evidence /\ ~Examine /\ ~(\E r \in Arms, j \in Jobs : Fetch(r, j))
  BY <1>5 DEF Evidence, Receipt, Compare, BoundInv, worldVars
<1>6. CASE World \/ UNCHANGED pairVars
  BY <1>6 DEF World, Accounts, BoundInv, pairVars, worldVars, evidenceVars
<1> QED
  BY <1>1, <1>2, <1>3, <1>4, <1>5, <1>6 DEF PairNext, Batches, Evidence

\* With the evidence's invariant they are its types.
LEMMA PairTypes == PairInv /\ BoundInv => PairTypeOK
<1> SUFFICES ASSUME PairInv, BoundInv PROVE PairTypeOK
  OBVIOUS
<1>1. \A j \in Jobs : got[j] = NoRecord \/ got[j].acct \in Account
  BY DEF PairInv, PairTypeInv, Records
<1>2. \A k \in 1 .. Len(sealed) : sealed[k].run \in Arms /\ sealed[k].charge \in 1 .. MaxCharge
  <2> SUFFICES ASSUME NEW k \in 1 .. Len(sealed)
               PROVE  sealed[k].run \in Arms /\ sealed[k].charge \in 1 .. MaxCharge
    OBVIOUS
  <2>1. sealed[k] \in Sealable /\ Floor <= sealed[k].charge
    BY DEF PairInv, PairTypeInv, SealInv, Sound
  <2> QED
    BY <2>1, PairAssumption DEF Sealable
<1>3. Len(sealed) \in Nat
  BY DEF PairInv, PairTypeInv
<1>4. \A a \in Arms : receipts[a].snapshot \in 0 .. Len(sealed)
  BY <1>3 DEF PairInv, ReceiptInv, NoReceipt
<1>5. verdict.a \in 0 .. Len(sealed)
  BY <1>3 DEF PairInv, VerdictInv, NoVerdict
<1> QED
  BY <1>1, <1>2, <1>4, <1>5 DEF PairInv, PairTypeInv, BoundInv, PairTypeOK

\* The variables of the pair have their types: no candidate without a charge, and no more of
\* them than the operator may seal.
THEOREM PairTypeCorrect == PairSpec => []PairTypeOK
BY PairInitInv, PairNextInv, BoundInit, BoundNext, PairTypes, PTL DEF PairSpec

----------------------------------------------------------------------------
(* The image of a pod.                                                     *)

\* The build past a line is past what that line has verified or made.
LineInv ==
  /\ line \notin {"idle", "label"} => commit.label = commit.contract
  /\ line \in {"no-jit", "narrow", "reemit", "emitted", "compile", "copy", "manifest", "static"}
       => \A f \in ScopeSources : bytes[f] = "post"
  /\ line \in {"reemit", "emitted", "compile", "copy", "manifest", "static"}
       => \A f \in Pinned : bytes[f] = "pre"
  /\ line \in {"compile", "copy", "manifest", "static"} => graph = "narrow"
  /\ line \in {"copy", "manifest", "static"} => \A o \in Operators : lib[o] = "exact"
  /\ line \in {"manifest", "static"} => \A o \in Operators : aot[o] = "exact"

\* Every published image is what it is meant to be, under the contract that it is labelled with.
ImagesInv == \A i \in images : i.whole /\ i.label = i.contract

\* The types TypeOK leaves out.
OrderInv ==
  /\ order.terms \in Contracts \cup {"none", "other"}
  /\ gate # "none" => order.image \in images

\* What the gate has let through.
GateInv ==
  /\ gate # "none" /\ order.profile = H100 => order.terms = local /\ order.sold = local
  /\ gate = "created" /\ order.profile = H100 => order.image.label = local
  /\ gate = "created" => env.profile \in {order.profile, "none"}
  /\ gate # "created" => pc = "off"

\* The container's disk and its processes at each step of the script.
BootInv ==
  /\ pc = "off" => /\ boots = 0 /\ attested = {} /\ ~compiled /\ engine = "none"
  /\ pc # "off" => boots >= 1
  /\ pc \in {"fetch", "engine", "wait", "post"} => attested = {"pre_engine"}
  /\ pc \in {"worker", "any"} => attested = {"pre_engine", "post_engine"}
  /\ "post_engine" \in attested => "pre_engine" \in attested
  /\ attested # {} => env.terms = order.image.contract
  /\ env.profile = H100 /\ "post_engine" \in attested => ~compiled
  /\ engine = "starting" => pc = "wait"
  /\ pc \in {"post", "worker", "any"} => answered
  /\ worker # "none" => pc = "any"

\* A pod registers once: its second boot does not come past the first attestation.
HandshakeInv ==
  /\ registered \in {0, 1}
  /\ "post_engine" \notin attested => registered = 0
  /\ pc = "worker" \/ worker = "running" => registered = 0

PodInv == TypeOK /\ LineInv /\ ImagesInv /\ OrderInv /\ GateInv /\ BootInv /\ HandshakeInv

\* The lines of the Dockerfile follow each other.
LEMMA AfterLine ==
  /\ After("label") = "install" /\ After("install") = "backport" /\ After("backport") = "scope"
  /\ After("scope") = "no-jit" /\ After("no-jit") = "narrow" /\ After("narrow") = "reemit"
  /\ After("reemit") = "emitted" /\ After("emitted") = "compile" /\ After("compile") = "copy"
  /\ After("copy") = "manifest" /\ After("manifest") = "static" /\ After("static") = "idle"
<1>1. Len(BuildOrder) = 13
  BY DEF BuildOrder
<1>2. ASSUME NEW j \in 1 .. 13, NEW k \in 1 .. 13, BuildOrder[j] = BuildOrder[k]
      PROVE  j = k
  BY <1>2 DEF BuildOrder
<1>3. ASSUME NEW k \in 1 .. 13
      PROVE  After(BuildOrder[k]) = BuildOrder[1 + k]
  <2>1. (CHOOSE j \in 1 .. 13 : BuildOrder[j] = BuildOrder[k]) = k
    BY <1>2
  <2> QED
    BY <1>1, <2>1 DEF After
<1>4. /\ BuildOrder[1] = "label" /\ BuildOrder[2] = "install" /\ BuildOrder[3] = "backport"
      /\ BuildOrder[4] = "scope" /\ BuildOrder[5] = "no-jit" /\ BuildOrder[6] = "narrow"
      /\ BuildOrder[7] = "reemit" /\ BuildOrder[8] = "emitted" /\ BuildOrder[9] = "compile"
      /\ BuildOrder[10] = "copy" /\ BuildOrder[11] = "manifest" /\ BuildOrder[12] = "static"
      /\ BuildOrder[13] = "idle"
  BY DEF BuildOrder
<1> QED
  BY <1>3, <1>4

\* And they are the lines there are.
LEMMA TheLines ==
  Steps = {"label", "install", "backport", "scope", "no-jit", "narrow", "reemit", "emitted",
           "compile", "copy", "manifest", "static", "idle"}
BY DEF Steps, BuildOrder

\* A build starts, or ends, at a line where nothing is claimed of it.
LEMMA StartInv ==
  ASSUME ImageTypeOK, LineInv, ImagesInv, StartBuild \/ BuildStops
  PROVE  ImageTypeOK' /\ LineInv' /\ ImagesInv' /\ images' = images
<1>1. ImageTypeOK'
  BY TheLines, ImageAssumption DEF StartBuild, BuildStops, ImageTypeOK, NoObject, Objects
<1>2. line' \in {"label", "idle"} /\ images' = images
  BY DEF StartBuild, BuildStops
<1> QED
  BY <1>1, <1>2 DEF LineInv, ImagesInv
\* A line that only verifies, or that changes the sources.
LEMMA SourceLinesInv ==
  ASSUME ImageTypeOK, LineInv, ImagesInv,
         \/ CheckLabel \/ InstallFlashinfer \/ Backport \/ MarkScope \/ DisableJit
         \/ (\E f \in ScopeSources : ScopeSource(f))
  PROVE  ImageTypeOK' /\ LineInv' /\ images' = images
<1> USE AfterLine, TheLines DEF ImageTypeOK, Done
<1>1. CASE CheckLabel
  BY <1>1 DEF CheckLabel, LineInv
<1>2. CASE InstallFlashinfer
  BY <1>2 DEF InstallFlashinfer, LineInv
<1>3. CASE Backport
  BY <1>3 DEF Backport, Patch, LineInv, Markers
<1>4. ASSUME NEW f \in ScopeSources, ScopeSource(f) PROVE ImageTypeOK' /\ LineInv' /\ images' = images
  <2>1. line = "scope" /\ line' = line /\ f \in Sources
    BY <1>4 DEF ScopeSource, Sources, Patched
  <2> QED
    BY <1>4, <2>1 DEF ScopeSource, Patch, LineInv
<1>5. CASE MarkScope
  BY <1>5 DEF MarkScope, LineInv, Markers
<1>6. CASE DisableJit
  <2>1. "core" \notin ScopeSources
    BY DEF ScopeSources
  <2> QED
    BY <1>6, <2>1 DEF DisableJit, Patch, LineInv, Markers, ScopeSources, Sources, Patched
<1> QED
  BY <1>1, <1>2, <1>3, <1>4, <1>5, <1>6

\* A line that makes the operators, or installs them.
LEMMA OperatorLinesInv ==
  ASSUME ImageTypeOK, LineInv, ImagesInv,
         NarrowSpec \/ Reemit \/ VerifyEmitted \/ Compile \/ CopyOperators \/ WriteManifest
  PROVE  ImageTypeOK' /\ LineInv' /\ images' = images
<1> USE AfterLine, TheLines DEF ImageTypeOK, Done
<1>1. CASE NarrowSpec
  BY <1>1 DEF NarrowSpec, SelectedTactic, LineInv, Pinned
<1>2. CASE Reemit
  BY <1>2 DEF Reemit, LineInv
<1>3. CASE VerifyEmitted
  BY <1>3 DEF VerifyEmitted, LineInv
<1>4. CASE Compile
  <2>1. \A o \in Operators : Compiled(o) = "exact"
    BY <1>4 DEF Compile, Compiled, LineInv
  <2> QED
    BY <1>4, <2>1 DEF Compile, LineInv, Objects
<1>5. CASE CopyOperators
  BY <1>5 DEF CopyOperators, LineInv
<1>6. CASE WriteManifest
  BY <1>6 DEF WriteManifest, LineInv
<1> QED
  BY <1>1, <1>2, <1>3, <1>4, <1>5, <1>6

\* What is published has the verified sources, the operators compiled from them, and its label.
LEMMA PublishInv ==
  ASSUME ImageTypeOK, LineInv, ImagesInv, VerifyStatic
  PROVE  ImageTypeOK' /\ LineInv' /\ ImagesInv' /\ images \subseteq images'
<1> USE AfterLine DEF Done
<1>1. Whole
  <2>1. \A f \in Sources : bytes[f] = IF f \in Patched THEN "post" ELSE "pre"
    BY DEF VerifyStatic, SourcesVerified, LineInv, Sources, Patched, Pinned, ScopeSources
  <2>2. \A o \in Operators : aot[o] = "exact"
    BY DEF VerifyStatic, LineInv
  <2> QED
    BY <2>1, <2>2 DEF Whole
<1>2. commit.label = commit.contract /\ line' = "idle"
  BY DEF VerifyStatic, LineInv
<1> DEFINE i == [contract |-> commit.contract, label |-> commit.label, whole |-> TRUE]
<1>3. images' = images \cup {i}
  <2>1. Whole = TRUE
    BY <1>1
  <2> QED
    BY <2>1 DEF VerifyStatic
<1>4. ImageTypeOK'
  <2>1. i \in [contract : Contracts, label : Contracts, whole : BOOLEAN]
    BY DEF ImageTypeOK
  <2> HIDE DEF i
  <2> QED
    BY <1>2, <1>3, <2>1, TheLines DEF VerifyStatic, ImageTypeOK
<1>5. ImagesInv' /\ images \subseteq images'
  BY <1>2, <1>3 DEF ImagesInv
<1> QED
  BY <1>2, <1>4, <1>5 DEF LineInv

\* Every step of a build keeps what is claimed of it, and unpublishes nothing.
LEMMA ImageNextInv ==
  ASSUME ImageTypeOK, LineInv, ImagesInv, ImageNext
  PROVE  ImageTypeOK' /\ LineInv' /\ ImagesInv' /\ images \subseteq images'
<1>1. CASE StartBuild \/ BuildStops
  BY <1>1, StartInv
<1>2. CASE \/ CheckLabel \/ InstallFlashinfer \/ Backport \/ MarkScope \/ DisableJit
           \/ (\E f \in ScopeSources : ScopeSource(f))
  BY <1>2, SourceLinesInv DEF ImagesInv
<1>3. CASE NarrowSpec \/ Reemit \/ VerifyEmitted \/ Compile \/ CopyOperators \/ WriteManifest
  BY <1>3, OperatorLinesInv DEF ImagesInv
<1>4. CASE VerifyStatic
  BY <1>4, PublishInv
<1> QED
  BY <1>1, <1>2, <1>3, <1>4 DEF ImageNext, BuildStep

----------------------------------------------------------------------------
(* The pod.                                                                *)

\* The program begins with the invariant.
LEMMA PodInitInv == Init => PodInv
<1> SUFFICES ASSUME Init PROVE PodInv
  OBVIOUS
<1>1. ImageTypeOK
  <2> DEFINE c == CHOOSE c \in Contracts : TRUE
  <2>1. c \in Contracts
    BY ImageAssumption
  <2> HIDE DEF c
  <2>2. commit = [contract |-> c, pins |-> c, label |-> c]
    BY DEF Init, ImageInit, c
  <2> QED
    BY <2>1, <2>2, TheLines, ImageAssumption
       DEF Init, ImageInit, ImageTypeOK, NoObject, Objects
<1>2. TypeOK
  <2>1. /\ order.image \in images \cup {NoImage} /\ order.profile \in Profiles
        /\ env.terms \in Contracts \cup {"none", "other"}
    BY DEF Init, NoOrder, NoEnv, Profiles, H100
  <2>2. boots \in 0 .. MaxBoots /\ registered \in 0 .. boots /\ compiled = FALSE /\ attested = {}
    BY PodAssumption DEF Init
  <2> QED
    BY <1>1, <2>1, <2>2 DEF Init, TypeOK
<1>3. LineInv /\ ImagesInv
  BY DEF Init, ImageInit, LineInv, ImagesInv
<1>4. OrderInv /\ GateInv /\ BootInv /\ HandshakeInv
  BY DEF Init, OrderInv, GateInv, BootInv, HandshakeInv, NoOrder, NoEnv, H100
<1> QED
  BY <1>2, <1>3, <1>4 DEF PodInv

\* What is built before the deploy keeps the invariant.
LEMMA BuildInv == PodInv /\ Build => PodInv'
<1> SUFFICES ASSUME PodInv, Build PROVE PodInv'
  OBVIOUS
<1>1. ImageTypeOK' /\ LineInv' /\ ImagesInv' /\ images \subseteq images'
  BY ImageNextInv DEF PodInv, TypeOK, Build
<1>2. TypeOK'
  BY <1>1 DEF PodInv, TypeOK, Build, deployVars, podVars, disk
<1>3. OrderInv' /\ GateInv' /\ BootInv' /\ HandshakeInv'
  BY <1>1 DEF PodInv, OrderInv, GateInv, BootInv, HandshakeInv, Build, deployVars, podVars, disk
<1> QED
  BY <1>1, <1>2, <1>3 DEF PodInv

\* Nothing is built once the deploy has begun.
LEMMA ImageFrame ==
  ASSUME PodInv, UNCHANGED imageVars
  PROVE  ImageTypeOK' /\ LineInv' /\ ImagesInv'
BY DEF PodInv, TypeOK, ImageTypeOK, LineInv, ImagesInv, imageVars

\* The gate lets an H100 order through only with the terms of its image.
LEMMA DeployInv == PodInv /\ (Project \/ Create) => PodInv'
<1> SUFFICES ASSUME PodInv, Project \/ Create PROVE PodInv'
  OBVIOUS
<1>1. UNCHANGED <<imageVars, local, podVars>>
  BY DEF Project, Create
<1>2. ImageTypeOK' /\ LineInv' /\ ImagesInv'
  BY <1>1, ImageFrame
<1>3. images' = images
  BY <1>1 DEF imageVars
<1>4. CASE Project
  <2>1. PICK i \in images, p \in Profiles, t \in Contracts \cup {"other"},
             s \in Contracts \cup {"other"} :
          /\ p = H100 => t = local /\ s = local
          /\ order' = [image |-> i, profile |-> p, terms |-> t, sold |-> s]
    BY <1>4 DEF Project, ProjectionAgrees
  <2>2. gate = "none" /\ gate' = "projected" /\ env' = env
    BY <1>4 DEF Project
  <2>3. TypeOK'
    BY <1>1, <1>2, <1>3, <2>1, <2>2 DEF PodInv, TypeOK, podVars, disk
  <2>4. OrderInv' /\ GateInv'
    BY <1>1, <1>3, <2>1, <2>2 DEF PodInv, OrderInv, GateInv, podVars
  <2>5. pc = "off" /\ attested = {}
    BY <2>2 DEF PodInv, GateInv, BootInv
  <2>6. BootInv' /\ HandshakeInv'
    BY <1>1, <2>2, <2>5 DEF PodInv, BootInv, HandshakeInv, podVars, disk
  <2> QED
    BY <1>2, <2>3, <2>4, <2>6 DEF PodInv
<1>5. CASE Create
  <2>1. PICK t \in {order.terms, "other"}, p \in {order.profile, "none"} :
          env' = [profile |-> p, terms |-> t]
    BY <1>5 DEF Create
  <2>2. gate = "projected" /\ gate' = "created" /\ order' = order
    BY <1>5 DEF Create
  <2>3. order.profile = H100 => order.image.label = local
    BY <1>5 DEF Create, ImageAgrees
  <2>4. TypeOK'
    BY <1>1, <1>2, <1>3, <2>1, <2>2 DEF PodInv, TypeOK, OrderInv, podVars, disk
  <2>5. OrderInv' /\ GateInv'
    BY <1>1, <1>3, <2>1, <2>2, <2>3 DEF PodInv, OrderInv, GateInv, podVars
  <2>6. pc = "off" /\ attested = {} /\ ~compiled
    BY <2>2 DEF PodInv, GateInv, BootInv
  <2>7. BootInv' /\ HandshakeInv'
    BY <1>1, <2>2, <2>6 DEF PodInv, BootInv, HandshakeInv, podVars, disk
  <2> QED
    BY <1>2, <2>4, <2>5, <2>7 DEF PodInv
<1> QED
  BY <1>4, <1>5

\* The pod that is created stays what was ordered: there is the container's own to show.
LEMMA PodFrame ==
  ASSUME PodInv, gate = "created", UNCHANGED <<imageVars, deployVars>>,
         /\ pc' \in {"off", "case", "runtime", "fetch", "engine", "wait", "post", "worker", "any",
                     "exit"}
         /\ trap' \in BOOLEAN /\ term' \in BOOLEAN /\ answered' \in BOOLEAN
         /\ engine' \in {"none", "starting", "healthy", "dead"}
         /\ worker' \in {"none", "running", "ready", "dead"}
         /\ compiled' \in BOOLEAN /\ overdue' \in BOOLEAN
         /\ attested' \subseteq {"pre_engine", "post_engine"}
         /\ boots' \in 0 .. MaxBoots /\ registered' \in 0 .. boots',
         BootInv', HandshakeInv'
  PROVE  PodInv'
<1>1. ImageTypeOK' /\ LineInv' /\ ImagesInv'
  BY ImageFrame
<1>2. TypeOK' /\ OrderInv' /\ GateInv'
  BY <1>1 DEF PodInv, TypeOK, OrderInv, GateInv, deployVars, imageVars
<1> QED
  BY <1>1, <1>2 DEF PodInv

\* The script runs on a pod that was created.
LEMMA RunsCreated == PodInv /\ pc # "off" => gate = "created"
BY DEF PodInv, GateInv

\* Ending the script, by itself or not, keeps the invariant.
LEMMA EndsInv ==
  ASSUME PodInv, KillContainer \/ Refused \/ WaitAny
                 \/ ((engine = "dead" \/ overdue) /\ Refuses("wait"))
  PROVE  PodInv'
<1>1. /\ Running /\ Exit
      /\ UNCHANGED <<imageVars, deployVars, trap, answered, overdue, boots, registered, disk>>
  BY DEF KillContainer, Refused, Refuses, WaitAny, Running
<1>2. gate = "created" /\ pc # "off"
  BY <1>1, RunsCreated DEF Running
<1>3. BootInv' /\ HandshakeInv'
  BY <1>1, <1>2 DEF PodInv, BootInv, HandshakeInv, Exit, disk, deployVars
<1> QED
  BY <1>1, <1>2, <1>3, PodFrame DEF PodInv, TypeOK, Exit, disk

\* So does each of its steps.
LEMMA EntrypointInv == PodInv /\ Entrypoint => PodInv'
<1> SUFFICES ASSUME PodInv, Entrypoint PROVE PodInv'
  OBVIOUS
<1> USE DEF Goes
<1>0. pc # "off" /\ gate = "created"
  <2>1. pc # "off"
    BY DEF Entrypoint, KnownProfile, VerifyRuntime, FetchWorker, StartEngine, WaitForEngine,
           VerifyPostEngine, StartWorker, WaitAny, Refuses
  <2> QED
    BY <2>1, RunsCreated
<1>1. CASE KnownProfile
  <2>1. BootInv' /\ HandshakeInv'
    BY <1>1 DEF KnownProfile, PodInv, BootInv, HandshakeInv, disk, deployVars
  <2> QED
    BY <1>0, <1>1, <2>1, PodFrame DEF KnownProfile, PodInv, TypeOK, disk
<1>2. CASE VerifyRuntime
  <2>1. attested = {} /\ attested' = {"pre_engine"} /\ env.terms = order.image.contract
    BY <1>2 DEF VerifyRuntime, Attest, ProfileVerified, PodInv, TypeOK, BootInv
  <2>2. BootInv' /\ HandshakeInv'
    BY <1>2, <2>1 DEF VerifyRuntime, PodInv, BootInv, HandshakeInv, deployVars
  <2> QED
    BY <1>0, <1>2, <2>1, <2>2, PodFrame DEF VerifyRuntime, PodInv, TypeOK
<1>3. CASE FetchWorker
  <2>1. BootInv' /\ HandshakeInv'
    BY <1>3 DEF FetchWorker, PodInv, BootInv, HandshakeInv, disk, deployVars
  <2> QED
    BY <1>0, <1>3, <2>1, PodFrame DEF FetchWorker, PodInv, TypeOK, disk
<1>4. CASE StartEngine
  <2>1. BootInv' /\ HandshakeInv'
    BY <1>4 DEF StartEngine, PodInv, BootInv, HandshakeInv, disk, deployVars
  <2> QED
    BY <1>0, <1>4, <2>1, PodFrame DEF StartEngine, PodInv, TypeOK, disk
<1>5. CASE WaitForEngine
  <2>1. CASE (engine = "dead" \/ overdue) /\ Refuses("wait")
    BY <2>1, EndsInv
  <2>2. CASE /\ engine = "healthy" /\ Goes("wait", "post")
             /\ answered' = TRUE /\ engine' = Kills(engine)
             /\ UNCHANGED <<imageVars, deployVars, trap, worker, overdue, boots, registered, disk>>
    <3>0. engine' # "starting"
      BY <2>2 DEF Kills
    <3>1. BootInv' /\ HandshakeInv'
      BY <2>2, <3>0 DEF PodInv, BootInv, HandshakeInv, disk, deployVars
    <3> QED
      BY <1>0, <2>2, <3>1, PodFrame DEF Kills, PodInv, TypeOK, disk
  <2> QED
    BY <1>5, <2>1, <2>2 DEF WaitForEngine
<1>6. CASE VerifyPostEngine
  <2>1. attested = {"pre_engine"} /\ attested' = {"pre_engine", "post_engine"} /\ registered = 0
    BY <1>6 DEF VerifyPostEngine, Attest, PodInv, BootInv, HandshakeInv
  <2>2. (env.profile = H100 => ~compiled) /\ engine' # "starting"
    BY <1>6 DEF VerifyPostEngine, H100Verified, Kills, PodInv, BootInv
  <2>3. BootInv' /\ HandshakeInv'
    BY <1>6, <2>1, <2>2 DEF VerifyPostEngine, PodInv, BootInv, HandshakeInv, deployVars
  <2> QED
    BY <1>0, <1>6, <2>1, <2>3, PodFrame DEF VerifyPostEngine, Kills, PodInv, TypeOK
<1>7. CASE StartWorker
  <2>0. engine' # "starting"
    BY <1>7 DEF StartWorker, Kills, PodInv, BootInv
  <2>1. BootInv' /\ HandshakeInv'
    BY <1>7, <2>0 DEF StartWorker, PodInv, BootInv, HandshakeInv, disk, deployVars
  <2> QED
    BY <1>0, <1>7, <2>1, PodFrame DEF StartWorker, Kills, PodInv, TypeOK, disk
<1>8. CASE WaitAny
  BY <1>8, EndsInv
<1> QED
  BY <1>1, <1>2, <1>3, <1>4, <1>5, <1>6, <1>7, <1>8 DEF Entrypoint

\* And what goes on around it.
LEMMA AroundInv == PodInv /\ Around => PodInv'
<1> SUFFICES ASSUME PodInv, Around PROVE PodInv'
  OBVIOUS
<1>0. CASE EngineCompiles
  <2>1. pc = "wait" /\ gate = "created"
    BY <1>0, RunsCreated DEF EngineCompiles, PodInv, BootInv
  <2>2. "post_engine" \notin attested
    BY <2>1 DEF PodInv, BootInv
  <2>3. BootInv' /\ HandshakeInv'
    BY <1>0, <2>1, <2>2 DEF EngineCompiles, PodInv, BootInv, HandshakeInv, deployVars
  <2> QED
    BY <1>0, <2>1, <2>3, PodFrame DEF EngineCompiles, PodInv, TypeOK
<1>1. CASE EngineHealthy
  <2>1. pc # "off" /\ gate = "created"
    BY <1>1, RunsCreated DEF EngineHealthy, PodInv, BootInv
  <2>2. BootInv' /\ HandshakeInv'
    BY <1>1, <2>1 DEF EngineHealthy, PodInv, BootInv, HandshakeInv, disk, deployVars
  <2> QED
    BY <1>1, <2>1, <2>2, PodFrame DEF EngineHealthy, PodInv, TypeOK, disk
<1>2. CASE EngineDies
  <2>1. pc # "off" /\ gate = "created"
    BY <1>2, RunsCreated DEF EngineDies, PodInv, BootInv
  <2>2. BootInv' /\ HandshakeInv'
    BY <1>2, <2>1 DEF EngineDies, PodInv, BootInv, HandshakeInv, disk, deployVars
  <2> QED
    BY <1>2, <2>1, <2>2, PodFrame DEF EngineDies, PodInv, TypeOK, disk
<1>3. CASE Registers
  <2>1. pc = "any" /\ gate = "created" /\ registered = 0 /\ boots >= 1
    BY <1>3, RunsCreated DEF Registers, PodInv, BootInv, HandshakeInv
  <2>2. attested = {"pre_engine", "post_engine"}
    BY <2>1 DEF PodInv, BootInv
  <2>3. BootInv' /\ HandshakeInv'
    BY <1>3, <2>1, <2>2 DEF Registers, PodInv, BootInv, HandshakeInv, disk, deployVars
  <2> QED
    BY <1>3, <2>1, <2>3, PodFrame DEF Registers, PodInv, TypeOK, disk
<1>4. CASE WorkerDies
  <2>1. pc = "any" /\ gate = "created"
    BY <1>4, RunsCreated DEF WorkerDies, PodInv, BootInv
  <2>2. BootInv' /\ HandshakeInv'
    BY <1>4, <2>1 DEF WorkerDies, PodInv, BootInv, HandshakeInv, disk, deployVars
  <2> QED
    BY <1>4, <2>1, <2>2, PodFrame DEF WorkerDies, PodInv, TypeOK, disk
<1>5. CASE DeadlinePasses \/ Signal
  <2>1. pc # "off" /\ gate = "created"
    BY <1>5, RunsCreated DEF DeadlinePasses, Signal, Running
  <2>2. /\ UNCHANGED <<imageVars, deployVars, pc, trap, engine, answered, worker, boots,
                       registered, disk>>
        /\ overdue' \in BOOLEAN /\ term' \in BOOLEAN
    BY <1>5 DEF DeadlinePasses, Signal, PodInv, TypeOK
  <2>3. BootInv' /\ HandshakeInv'
    BY <2>2 DEF PodInv, BootInv, HandshakeInv, disk, deployVars
  <2> QED
    BY <2>1, <2>2, <2>3, PodFrame DEF PodInv, TypeOK, disk
<1>6. CASE Boot
  <2>1. boots \in Nat /\ boots' = boots + 1
    BY <1>6 DEF Boot, PodInv, TypeOK
  <2>2. BootInv' /\ HandshakeInv'
    BY <1>6, <2>1 DEF Boot, PodInv, BootInv, HandshakeInv, disk, deployVars
  <2>3. boots' \in 0 .. MaxBoots /\ registered' \in 0 .. boots'
    BY <1>6, <2>1, PodAssumption DEF Boot, PodInv, TypeOK
  <2> QED
    BY <1>6, <2>2, <2>3, PodFrame DEF Boot, PodInv, TypeOK, disk
<1> QED
  BY <1>0, <1>1, <1>2, <1>3, <1>4, <1>5, <1>6, EndsInv DEF Around

\* Every step keeps the invariant.
LEMMA PodNextInv == PodInv /\ [Next]_vars => PodInv'
<1> SUFFICES ASSUME PodInv, [Next]_vars PROVE PodInv'
  OBVIOUS
<1>1. CASE UNCHANGED vars
  <2>1. UNCHANGED <<imageVars, deployVars, podVars>>
    BY <1>1 DEF vars
  <2>2. ImageTypeOK' /\ LineInv' /\ ImagesInv'
    BY <2>1, ImageFrame
  <2>3. TypeOK' /\ OrderInv' /\ GateInv'
    BY <2>1, <2>2 DEF PodInv, TypeOK, OrderInv, GateInv, deployVars, podVars, disk, imageVars
  <2>4. BootInv' /\ HandshakeInv'
    BY <2>1 DEF PodInv, BootInv, HandshakeInv, deployVars, podVars, disk
  <2> QED
    BY <2>2, <2>3, <2>4 DEF PodInv
<1> QED
  BY <1>1, BuildInv, DeployInv, EntrypointInv, EndsInv, AroundInv DEF Next

\* The invariant implies what the image and the boot promise.
LEMMA PodInvImplies == PodInv => TypeOK /\ RegisteredIsSound
<1> SUFFICES ASSUME PodInv PROVE TypeOK /\ RegisteredIsSound
  OBVIOUS
<1>1. TypeOK
  BY DEF PodInv
<1>2. gate = "created" /\ order.profile = H100 => order.image.contract = order.sold
  BY DEF PodInv, GateInv, OrderInv, ImagesInv
<1>3. registered <= 1 /\ (worker = "ready" => answered)
  BY DEF PodInv, HandshakeInv, BootInv
<1>4. ASSUME registered = 1
      PROVE  /\ order.image.whole
             /\ attested = {"pre_engine", "post_engine"}
             /\ env.terms = order.image.contract
             /\ env.profile = H100 => env.terms = order.sold /\ ~compiled
  <2>1. attested = {"pre_engine", "post_engine"}
    <3>1. "post_engine" \in attested /\ "pre_engine" \in attested
      BY <1>4 DEF PodInv, HandshakeInv, BootInv
    <3>2. attested \subseteq {"pre_engine", "post_engine"}
      BY DEF PodInv, TypeOK
    <3> QED
      BY <3>1, <3>2
  <2>2. gate = "created"
    BY <2>1, RunsCreated DEF PodInv, BootInv
  <2>3. order.image.whole /\ env.terms = order.image.contract
    BY <2>1, <2>2 DEF PodInv, BootInv, OrderInv, ImagesInv
  <2>4. env.profile = H100 => order.profile = H100 /\ ~compiled
    BY <2>1, <2>2 DEF PodInv, BootInv, GateInv, H100
  <2> QED
    BY <1>2, <2>1, <2>2, <2>3, <2>4
<1> QED
  BY <1>1, <1>2, <1>3, <1>4 DEF RegisteredIsSound

\* Every variable of the build, the gate and the boot keeps to its set, at any number of
\* contract versions, builds and boots.
THEOREM BootTypeCorrect == Spec => []TypeOK
BY PodInitInv, PodNextInv, PodInvImplies, PTL DEF Spec

\* What registers is what was built, verified and sold, however a build stops and is taken up
\* again, however the order was rendered, and whenever the container is killed and started.
THEOREM RegistrationCorrect == Spec => []RegisteredIsSound
BY PodInitInv, PodNextInv, PodInvImplies, PTL DEF Spec
=============================================================================
