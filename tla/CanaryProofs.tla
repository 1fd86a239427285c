---------------------------- MODULE CanaryProofs ----------------------------
(***************************************************************************)
(* Theorems about BatchCanary, for any number of rows, invocations, tries  *)
(* and faults, any prices, and any of the broken promises.                 *)
(*                                                                         *)
(* The gateway's books balance (BooksOK), and what it has once said stays  *)
(* said (Grows).  The client is told of its rows' jobs one by one; that    *)
(* they are its own follows at the end of the submission from their being  *)
(* different (RowsOK), for a gateway breaks a promise once.                *)
(***************************************************************************)
EXTENDS BatchCanary, SumTheorems

----------------------------------------------------------------------------
(* The gateway.                                                            *)

\* Who sends what: a post that is late is one the canary has made.
LateOK == late \subseteq {<<"key", 1>>, <<"grant", 1>>} \cup {<<"job", JobOf(i, 1)>> : i \in Indices}

\* Jobs under a key of the canary, but for a double; one grant.
KnownOK ==
  /\ grants \subseteq {1}
  /\ \A i \in Indices : job[JobOf(i, 2)] # "none" => twist = "double"

\* Each completed job is billed, at its price or one more; the ledger is the sum, or one more.
BooksOK ==
  /\ \A id \in JobIds : job[id] = "completed" =>
       /\ twist # "drift" => length[id] <= MaxCompletion
       /\ bill[id] >= Charge(length[id])
       /\ twist # "surcharge" => bill[id] = Charge(length[id])
  /\ spent = SumFunctionOnSet(bill, InState("completed")) + (IF twist = "skim" THEN 1 ELSE 0)

GatewayInv == GatewayTypeOK /\ LateOK /\ KnownOK /\ BooksOK

\* What a step may do to the gateway, but for the late posts.
GatewayEffect ==
  /\ keys' \in {keys, keys + 1}
  /\ \/ UNCHANGED <<grants, job, length, bill, spent, twist>>
     \/ Grant(1)
     \/ \E i \in Indices, id \in JobIds : Submit(JobOf(i, 1), id)
     \/ \E id \in JobIds : JobCompletes(id) \/ JobFails(id)
     \/ LosesRow

\* What is said stays said.
Grows ==
  /\ grants \subseteq grants'
  /\ \A id \in JobIds :
       /\ job[id] # "none" => job'[id] # "none"
       /\ job[id] \in {"completed", "failed"} => job'[id] = job[id]
       /\ job[id] = "completed" => bill'[id] = bill[id] /\ length'[id] = length[id]
  /\ twist # "none" => twist' = twist

----------------------------------------------------------------------------
(* The client.                                                             *)

Before == {"org", "key", "persist", "before", "grant", "funded"}
Accepted == {"record", "accept", "balance", "replay", "compare", "guard", "poll", "judge",
             "usage", "final", "result", "pointer"}
Judged == {"usage", "final", "result", "pointer"}

Own(i) == {JobOf(i, 1), JobOf(i, 2)}

\* Where the invocation is says what its memory holds.
MemoryOK ==
  /\ pc \in Before => row = AllTodo /\ ids = NoIds
  /\ pc = "submit" => \A i \in Indices : row[i] \in {"ok", "open"} => ids[i] # 0
  /\ pc \in Accepted \ {"poll"} => row = AllTodo
  /\ pc \in Steps \ Judged => cursor = 0 /\ usage = {}
  /\ pc \in {"funded", "submit"} \cup Accepted => grants = {1}

\* At most one row is told of another's job.
RowsOK ==
  /\ pc \in Steps => \A i \in Indices : ids[i] # 0 => job[ids[i]] # "none"
  /\ pc = "submit" =>
       \/ \A i \in Indices : ids[i] \in {0} \cup Own(i)
       \/ /\ twist = "alias"
          /\ \E i, j \in Indices :
               /\ i # j /\ ids[i] = JobOf(j, 1)
               /\ \A k \in Indices \ {i} : ids[k] \in {0} \cup Own(k)
  /\ pc \in Accepted => \A i \in Indices : ids[i] \in Own(i)

\* No job has ended: then nothing has moved since all were accepted.
Untouched == <<Credits, Hold * Rows, 0>>

WaitOK ==
  /\ pc \in {"replay", "compare"} /\ twist = "none" /\ Ended = {} => seen = Untouched
  /\ pc \in {"guard", "poll", "judge"} => \A i \in Indices \ pending : ids[i] \in Ended
  /\ pc = "poll" => \A i \in pending : row[i] = "ok" => ids[i] \in Ended
  /\ pc = "judge" => pending = {}

\* How many jobs of S come before id.
Rank(id, S) == Cardinality({x \in S : x < id})

AuditOK ==
  /\ pc \in Judged => \A id \in Mine : job[id] = "completed" /\ Sound(id)
  /\ pc = "usage" /\ twist = "none" => usage = {id \in Listed : Rank(id, Listed) < cursor}
  /\ pc = "final" => usage = Mine

ClientInv == MemoryOK /\ RowsOK /\ WaitOK /\ AuditOK

IInv == TypeOK /\ GatewayInv /\ ClientInv /\ RefusalIsHonest

----------------------------------------------------------------------------
(* Rows, jobs and prices.                                                  *)

\* A row has two jobs of its own, and every job is a row's.
LEMMA JobIdFacts ==
  /\ \A i \in Indices : JobOf(i, 1) \in JobIds /\ JobOf(i, 2) \in JobIds
  /\ \A i, j \in Indices : JobOf(i, 1) # JobOf(j, 2)
  /\ \A i, j \in Indices : JobOf(i, 1) = JobOf(j, 1) => i = j
  /\ \A i, j \in Indices : JobOf(i, 2) = JobOf(j, 2) => i = j
  /\ \A i \in Indices : JobOf(i, 1) + 1 = JobOf(i, 2)
  /\ 0 \notin JobIds
BY GatewayAssumption DEF Indices, JobIds, JobOf

LEMMA JobHasRow ==
  ASSUME NEW id \in JobIds
  PROVE  \E i \in Indices : id \in Own(i)
<1>1. id \in Nat /\ 1 <= id /\ id <= 2 * Rows /\ Rows \in Nat
  BY GatewayAssumption DEF JobIds
<1> DEFINE i == (id + 1) \div 2
<1>2. i \in Nat /\ 1 <= i /\ i <= Rows /\ id \in {2 * i - 1, 2 * i}
  BY <1>1
<1> QED
  BY <1>2 DEF Indices, Own, JobOf

\* A price is a natural number, and none is zero that is of something.
LEMMA CeilPriceType ==
  ASSUME NEW n \in Nat, NEW r \in Nat
  PROVE  /\ CeilPrice(n, r) \in Nat
         /\ n # 0 /\ r # 0 => CeilPrice(n, r) # 0
<1> DEFINE m == n * r
<1>1. m \in Nat /\ PerMillion \in Nat \ {0}
  BY GatewayAssumption
<1>2. n # 0 /\ r # 0 => m # 0
  OBVIOUS
<1> HIDE DEF m
<1>3. (m + PerMillion - 1) \div PerMillion \in Nat
  BY <1>1
<1>4. m # 0 => (m + PerMillion - 1) \div PerMillion # 0
  BY <1>1
<1> QED
  BY <1>2, <1>3, <1>4 DEF CeilPrice, m

LEMMA Prices ==
  /\ Hold \in Nat \ {0}
  /\ \A c \in Nat : Charge(c) \in Nat \ {0}
<1> USE GatewayAssumption
<1>1. Context # 0
  OBVIOUS
<1>2. CeilPrice(Context, InputPrice) \in Nat \ {0} /\ CeilPrice(PromptTokens, InputPrice) \in Nat \ {0}
  BY <1>1, CeilPriceType
<1>3. CeilPrice(MaxCompletion, OutputPrice) \in Nat
  BY CeilPriceType
<1>4. \A c \in Nat : CeilPrice(c, OutputPrice) \in Nat
  BY CeilPriceType
<1> QED
  BY <1>2, <1>3, <1>4 DEF Hold, Charge

\* Every set of jobs is finite.
LEMMA JobsFinite ==
  /\ \A S \in SUBSET JobIds : IsFiniteSet(S) /\ Cardinality(S) \in Nat
  /\ \A st : InState(st) \in SUBSET JobIds
<1>1. IsFiniteSet(JobIds)
  BY GatewayAssumption, FS_Interval DEF JobIds
<1> QED
  BY <1>1, FS_Subset, FS_CardinalityType DEF InState

----------------------------------------------------------------------------
(* What a step does to the gateway.                                        *)

\* The requests that change it.
LEMMA PostEffect ==
  ASSUME LateOK, TakeKey \/ TakeGrant \/ Replay \/ \E i \in Indices : SubmitRow(i)
  PROVE  GatewayEffect /\ LateOK'
<1>0. 1 \in Indices
  BY GatewayAssumption DEF Indices
<1>1. CASE TakeKey
  BY <1>1 DEF TakeKey, Post, Unanswered, Undelivered, Refused, IssueKey, GatewayEffect, LateOK, gwVars
<1>2. CASE TakeGrant
  BY <1>2 DEF TakeGrant, GrantId, Post, Unanswered, Undelivered, Refused, Grant, GatewayEffect,
              LateOK, gwVars
<1>3. CASE Replay
  <2>1. PICK id \in JobIds :
          Post(<<"job", JobOf(1, 1)>>, Submit(JobOf(1, 1), id), Check(id = ids[1], "compare", "replay") /\ Quiet)
    BY <1>3 DEF Replay, KeyOf
  <2>2. CASE Submit(JobOf(1, 1), id) /\ UNCHANGED late
    BY <1>0, <2>2 DEF GatewayEffect, LateOK, Submit
  <2>3. CASE UNCHANGED gwVars
    BY <2>3 DEF GatewayEffect, LateOK, gwVars
  <2>4. CASE Undelivered({<<"job", JobOf(1, 1)>>})
    BY <1>0, <2>4 DEF GatewayEffect, LateOK, Undelivered
  <2> QED
    BY <2>1, <2>2, <2>3, <2>4 DEF Post, Unanswered, Refused
<1>4. ASSUME NEW i \in Indices, SubmitRow(i)
      PROVE  GatewayEffect /\ LateOK'
  <2>2. CASE (\E id \in JobIds : Submit(JobOf(i, 1), id)) /\ UNCHANGED late
    BY <2>2 DEF GatewayEffect, LateOK, Submit
  <2>3. CASE UNCHANGED gwVars
    BY <2>3 DEF GatewayEffect, LateOK, gwVars
  <2>4. CASE Undelivered({<<"job", JobOf(i, 1)>>})
    BY <2>4 DEF GatewayEffect, LateOK, Undelivered
  <2> QED
    BY <1>4, <2>2, <2>3, <2>4 DEF SubmitRow, KeyOf, Unanswered
<1> QED
  BY <1>1, <1>2, <1>3, <1>4

\* The requests that only read, and the steps between them.
LEMMA QuietEffect ==
  ASSUME LateOK,
         \/ Organize \/ PersistKey \/ BalanceBeforeGrant \/ Funded \/ EndSubmit \/ RecordIds
         \/ AfterAccept \/ BalanceBeforeReplay \/ CompareBalance
         \/ PollGuard \/ (\E i \in Indices : PollRow(i)) \/ EndRound
         \/ Judge \/ WalkUsage \/ FinalBalance \/ WriteResult \/ WritePointer
         \/ DeadlinePasses \/ Crash \/ Rerun \/ UNCHANGED vars
  PROVE  UNCHANGED gwVars
<1> USE DEF gwVars, Get, Undelivered, Refused
<1>1. CASE Organize \/ BalanceBeforeGrant \/ Funded \/ AfterAccept
  BY <1>1 DEF Organize, BalanceBeforeGrant, Funded, AfterAccept
<1>2. CASE BalanceBeforeReplay \/ CompareBalance \/ WalkUsage \/ FinalBalance
  BY <1>2 DEF BalanceBeforeReplay, CompareBalance, WalkUsage, FinalBalance
<1>3. CASE PersistKey \/ EndSubmit \/ RecordIds \/ PollGuard \/ EndRound \/ Judge
  BY <1>3 DEF PersistKey, EndSubmit, RecordIds, PollGuard, EndRound, Judge
<1>4. CASE \E i \in Indices : PollRow(i)
  BY <1>4 DEF PollRow
<1>5. CASE WriteResult \/ WritePointer \/ DeadlinePasses \/ Crash \/ Rerun \/ UNCHANGED vars
  BY <1>5 DEF WriteResult, WritePointer, DeadlinePasses, Crash, Rerun, vars
<1> QED
  BY <1>1, <1>2, <1>3, <1>4, <1>5

LEMMA AtGatewayEffect ==
  ASSUME LateOK, AtGateway
  PROVE  GatewayEffect /\ LateOK'
<1>1. CASE LosesRow \/ \E id \in JobIds : JobCompletes(id) \/ JobFails(id)
  BY <1>1 DEF LosesRow, JobCompletes, JobFails, GatewayEffect, LateOK
<1>2. ASSUME NEW m \in late, late' = late \ {m},
             \/ m[1] = "key" /\ IssueKey
             \/ m[1] = "grant" /\ Grant(m[2])
             \/ m[1] = "job" /\ \E id \in JobIds : Submit(m[2], id)
      PROVE  GatewayEffect /\ LateOK'
  <2>1. \/ m = <<"key", 1>> \/ m = <<"grant", 1>>
        \/ \E i \in Indices : m = <<"job", JobOf(i, 1)>>
    BY <1>2 DEF LateOK
  <2>2. m = <<"key", 1>> => GatewayEffect
    BY <1>2 DEF IssueKey, GatewayEffect
  <2>3. m = <<"grant", 1>> => GatewayEffect
    BY <1>2 DEF Grant, GatewayEffect
  <2>4. ASSUME NEW i \in Indices, m = <<"job", JobOf(i, 1)>>
        PROVE  GatewayEffect
    <3>1. PICK id \in JobIds : Submit(m[2], id)
      BY <1>2, <2>4
    <3>2. Submit(JobOf(i, 1), id)
      BY <2>4, <3>1 DEF Submit
    <3>3. keys' = keys
      BY <3>2 DEF Submit
    <3> QED
      BY <3>2, <3>3 DEF GatewayEffect
  <2>5. LateOK'
    BY <1>2 DEF LateOK
  <2> QED
    BY <2>1, <2>2, <2>3, <2>4, <2>5
<1> QED
  BY <1>1, <1>2 DEF AtGateway, GatewayNext, LateArrives

LEMMA StepEffect ==
  ASSUME LateOK, [Next]_vars
  PROVE  GatewayEffect /\ LateOK'
<1>1. CASE TakeKey \/ TakeGrant \/ Replay \/ \E i \in Indices : SubmitRow(i)
  BY <1>1, PostEffect
<1>2. CASE AtGateway
  BY <1>2, AtGatewayEffect
<1>3. CASE UNCHANGED gwVars
  BY <1>3 DEF GatewayEffect, LateOK, gwVars
<1> QED
  BY <1>1, <1>2, <1>3, QuietEffect DEF Next, ClientNext

----------------------------------------------------------------------------
(* The gateway's invariant.                                                *)

LEMMA EffectType ==
  ASSUME GatewayTypeOK, GatewayEffect
  PROVE  /\ grants' \subseteq 1 .. MaxRuns
         /\ job' \in [JobIds -> {"none", "queued", "completed", "failed"}]
         /\ length' \in [JobIds -> 0 .. Drifted]
         /\ bill' \in [JobIds -> Nat]
         /\ spent' \in Nat
         /\ twist' \in {"none"} \cup Twists
<1> USE DEF GatewayTypeOK
<1>1. CASE UNCHANGED <<grants, job, length, bill, spent, twist>>
  BY <1>1
<1>2. CASE Grant(1)
  BY <1>2, GatewayAssumption DEF Grant
<1>3. ASSUME NEW k, NEW id \in JobIds, Submit(k, id)
      PROVE  /\ job' \in [JobIds -> {"none", "queued", "completed", "failed"}]
             /\ twist' \in {"none"} \cup Twists
             /\ UNCHANGED <<grants, length, bill, spent>>
  BY <1>3 DEF Submit, Twisted
<1>4. ASSUME NEW id \in JobIds, JobCompletes(id)
      PROVE  /\ job' \in [JobIds -> {"none", "queued", "completed", "failed"}]
             /\ length' \in [JobIds -> 0 .. Drifted]
             /\ bill' \in [JobIds -> Nat]
             /\ spent' \in Nat
             /\ twist' \in {"none"} \cup Twists
             /\ UNCHANGED grants
  <2>1. PICK c \in Completions \cup {Drifted} :
          /\ length' = [length EXCEPT ![id] = c]
          /\ \/ /\ bill' = [bill EXCEPT ![id] = Charge(c)]
                /\ spent' = spent + Charge(c)
                /\ IF c = Drifted THEN Twisted("drift") ELSE UNCHANGED twist
             \/ /\ c # Drifted
                /\ bill' = [bill EXCEPT ![id] = Charge(c) + 1]
                /\ spent' = spent + Charge(c) + 1
                /\ Twisted("surcharge")
             \/ /\ c # Drifted
                /\ bill' = [bill EXCEPT ![id] = Charge(c)]
                /\ spent' = spent + Charge(c) + 1
                /\ Twisted("skim")
    BY <1>4 DEF JobCompletes
  <2>2. c \in 0 .. Drifted /\ Charge(c) \in Nat
    <3>1. c \in 0 .. Drifted /\ c \in Nat
      BY GatewayAssumption DEF Drifted
    <3> QED
      BY <3>1, Prices
  <2> QED
    BY <1>4, <2>1, <2>2 DEF JobCompletes, Twisted
<1>5. ASSUME NEW id \in JobIds, JobFails(id)
      PROVE  /\ job' \in [JobIds -> {"none", "queued", "completed", "failed"}]
             /\ UNCHANGED <<grants, length, bill, spent, twist>>
  BY <1>5 DEF JobFails
<1>6. CASE LosesRow
  BY <1>6 DEF LosesRow, Twisted
<1> QED
  BY <1>1, <1>2, <1>3, <1>4, <1>5, <1>6 DEF GatewayEffect

LEMMA EffectGrows ==
  ASSUME GatewayTypeOK, GatewayEffect
  PROVE  Grows
<1> USE DEF GatewayTypeOK, Grows, Twisted
<1>1. CASE UNCHANGED <<grants, job, length, bill, spent, twist>>
  BY <1>1
<1>2. CASE Grant(1)
  BY <1>2 DEF Grant
<1>3. ASSUME NEW k, NEW id \in JobIds, Submit(k, id)
      PROVE  Grows
  BY <1>3 DEF Submit, Known
<1>4. ASSUME NEW id \in JobIds, JobCompletes(id)
      PROVE  Grows
  BY <1>4 DEF JobCompletes
<1>5. ASSUME NEW id \in JobIds, JobFails(id)
      PROVE  Grows
  BY <1>5 DEF JobFails
<1>6. CASE LosesRow
  BY <1>6 DEF LosesRow
<1> QED
  BY <1>1, <1>2, <1>3, <1>4, <1>5, <1>6 DEF GatewayEffect

LEMMA KnownKept ==
  ASSUME GatewayTypeOK, KnownOK, GatewayEffect
  PROVE  KnownOK'
<1> USE DEF GatewayTypeOK, KnownOK, Twisted
<1>1. CASE UNCHANGED <<grants, job, length, bill, spent, twist>>
  BY <1>1
<1>2. CASE Grant(1)
  BY <1>2 DEF Grant
<1>3. ASSUME NEW i \in Indices, NEW id \in JobIds, Submit(JobOf(i, 1), id)
      PROVE  KnownOK'
  BY <1>3, JobIdFacts DEF Submit, Known
<1>4. ASSUME NEW id \in JobIds, JobCompletes(id)
      PROVE  KnownOK'
  BY <1>4, JobIdFacts DEF JobCompletes
<1>5. ASSUME NEW id \in JobIds, JobFails(id)
      PROVE  KnownOK'
  BY <1>5, JobIdFacts DEF JobFails
<1>6. CASE LosesRow
  BY <1>6 DEF LosesRow
<1> QED
  BY <1>1, <1>2, <1>3, <1>4, <1>5, <1>6 DEF GatewayEffect

\* A completed job adds its bill to the sum.
LEMMA BillsAdd ==
  ASSUME GatewayTypeOK, NEW id \in JobIds, JobCompletes(id)
  PROVE  /\ SumFunctionOnSet(bill', InState("completed")')
              = SumFunctionOnSet(bill, InState("completed")) + bill'[id]
         /\ SumFunctionOnSet(bill, InState("completed")) \in Nat
<1> DEFINE S == InState("completed")
           T == InState("completed")'
<1>1. T = S \cup {id} /\ id \notin S /\ S \subseteq JobIds
  BY DEF JobCompletes, GatewayTypeOK, InState
<1>2. bill' \in [JobIds -> Nat] /\ \A x \in S : bill'[x] = bill[x]
  <2>1. GatewayEffect
    <3>1. keys' = keys
      BY DEF JobCompletes
    <3> QED
      BY <3>1 DEF GatewayEffect
  <2>2. bill' \in [JobIds -> Nat]
    BY <2>1, EffectType
  <2>3. \A x \in JobIds : x # id => bill'[x] = bill[x]
    BY DEF JobCompletes, GatewayTypeOK
  <2> QED
    BY <1>1, <2>2, <2>3
<1>3. IsFiniteSet(T) /\ IsFiniteSet(S) /\ T \ {id} = S
  BY <1>1, JobsFinite
<1>4. \A x \in T : bill'[x] \in Nat
  BY <1>1, <1>2
<1>5. \A x \in S : bill[x] \in Nat
  BY <1>1 DEF GatewayTypeOK
<1> HIDE DEF S, T
<1>6. SumFunctionOnSet(bill', T) = bill'[id] + SumFunctionOnSet(bill', S)
  BY <1>1, <1>3, <1>4, SumRemove
<1>7. SumFunctionOnSet(bill', S) = SumFunctionOnSet(bill, S)
  BY <1>2, <1>3, SumSame
<1>8. SumFunctionOnSet(bill, S) \in Nat /\ bill'[id] \in Nat
  BY <1>1, <1>3, <1>4, <1>5, SumType
<1> QED
  BY <1>6, <1>7, <1>8 DEF S, T

LEMMA BooksKept ==
  ASSUME GatewayTypeOK, BooksOK, GatewayEffect
  PROVE  BooksOK'
<1>1. ASSUME UNCHANGED <<bill, length, spent>>, InState("completed")' = InState("completed"),
             twist' = twist \/ (twist = "none" /\ twist' \notin {"surcharge", "skim", "drift"})
      PROVE  BooksOK'
  BY <1>1 DEF BooksOK, InState
<1>2. CASE UNCHANGED <<grants, job, length, bill, spent, twist>>
  BY <1>1, <1>2 DEF InState
<1>3. CASE Grant(1)
  BY <1>1, <1>3 DEF Grant, InState
<1>4. ASSUME NEW k, NEW id \in JobIds, Submit(k, id)
      PROVE  BooksOK'
  BY <1>1, <1>4 DEF Submit, Known, Twisted, InState, GatewayTypeOK
<1>5. ASSUME NEW id \in JobIds, JobCompletes(id)
      PROVE  BooksOK'
  <2>1. PICK c \in Completions \cup {Drifted} :
          /\ length' = [length EXCEPT ![id] = c]
          /\ \/ /\ bill' = [bill EXCEPT ![id] = Charge(c)]
                /\ spent' = spent + Charge(c)
                /\ IF c = Drifted THEN Twisted("drift") ELSE UNCHANGED twist
             \/ /\ c # Drifted
                /\ bill' = [bill EXCEPT ![id] = Charge(c) + 1]
                /\ spent' = spent + Charge(c) + 1
                /\ Twisted("surcharge")
             \/ /\ c # Drifted
                /\ bill' = [bill EXCEPT ![id] = Charge(c)]
                /\ spent' = spent + Charge(c) + 1
                /\ Twisted("skim")
    BY <1>5 DEF JobCompletes
  <2>2. Charge(c) \in Nat /\ (c # Drifted => c <= MaxCompletion)
    <3>1. c \in Nat /\ (c # Drifted => c <= MaxCompletion)
      BY GatewayAssumption DEF Drifted
    <3> QED
      BY <3>1, Prices
  <2>3. bill'[id] = IF twist' = "surcharge" /\ twist = "none" THEN Charge(c) + 1 ELSE Charge(c)
    BY <2>1 DEF Twisted, GatewayTypeOK
  <2>4. length'[id] = c /\ \A x \in JobIds \ {id} : length'[x] = length[x] /\ bill'[x] = bill[x]
    BY <2>1 DEF GatewayTypeOK
  <2>5. \A x \in JobIds : job'[x] = "completed" => x = id \/ job[x] = "completed"
    BY <1>5 DEF JobCompletes, GatewayTypeOK
  <2>6. twist # "none" => twist' = twist
    BY <2>1 DEF Twisted
  <2>7. spent' = spent + bill'[id] + (IF twist' = "skim" /\ twist = "none" THEN 1 ELSE 0)
    BY <2>1, <2>2, <2>3 DEF Twisted, GatewayTypeOK
  <2>8. \A x \in JobIds : job'[x] = "completed" =>
          /\ twist' # "drift" => length'[x] <= MaxCompletion
          /\ bill'[x] >= Charge(length'[x])
          /\ twist' # "surcharge" => bill'[x] = Charge(length'[x])
    <3>1. twist' # "drift" => c # Drifted
      BY <2>1 DEF Twisted
    <3> QED
      BY <2>2, <2>3, <2>4, <2>5, <2>6, <3>1 DEF BooksOK
  <2>9. spent' = SumFunctionOnSet(bill', InState("completed")')
                   + (IF twist' = "skim" THEN 1 ELSE 0)
    <3>1. bill'[id] \in Nat
      BY <2>2, <2>3
    <3> QED
      BY <1>5, <2>6, <2>7, <3>1, BillsAdd DEF BooksOK
  <2> QED
    BY <2>8, <2>9 DEF BooksOK
<1>6. ASSUME NEW id \in JobIds, JobFails(id)
      PROVE  BooksOK'
  BY <1>1, <1>6 DEF JobFails, InState, GatewayTypeOK
<1>7. CASE LosesRow
  BY <1>1, <1>7 DEF LosesRow, Twisted, InState
<1> QED
  BY <1>2, <1>3, <1>4, <1>5, <1>6, <1>7 DEF GatewayEffect

----------------------------------------------------------------------------
(* Type correctness.                                                       *)

LEMMA BalanceType ==
  ASSUME GatewayTypeOK
  PROVE  Balance \in Nat \X Nat \X Nat
<1>1. Cardinality(grants) \in Nat
  <2>1. IsFiniteSet(1 .. MaxRuns)
    BY FS_Interval, GatewayAssumption
  <2> QED
    BY <2>1, FS_Subset, FS_CardinalityType DEF GatewayTypeOK
<1>2. Cardinality(InState("queued")) \in Nat
  BY JobsFinite
<1>3. \A m, n \in Nat : m * n \in Nat
  OBVIOUS
<1>4. Granted \in Nat /\ Reserved \in Nat
  BY <1>1, <1>2, <1>3, Prices, GatewayAssumption DEF Granted, Reserved
<1> QED
  BY <1>4 DEF Balance, GatewayTypeOK

\* The type of what is not the gateway's.
ClientTypeOK ==
  /\ pc \in Steps \cup Ends
  /\ why \in Reasons
  /\ run \in 1 .. MaxRuns
  /\ fresh \in BOOLEAN
  /\ tries \in 0 .. MaxTries - 1
  /\ row \in [Indices -> {"todo", "ok", "open", "err"}]
  /\ rowTries \in [Indices -> 0 .. MaxTries - 1]
  /\ ids \in [Indices -> {0} \cup JobIds]
  /\ pending \subseteq Indices
  /\ overdue \in BOOLEAN
  /\ seen \in Nat \X Nat \X Nat
  /\ cursor \in Nat
  /\ usage \subseteq JobIds
  /\ keyFile \in BOOLEAN
  /\ idsFile \in [Indices -> {0} \cup JobIds]
  /\ result \in [1 .. MaxRuns -> [Indices -> {0} \cup JobIds]]
  /\ pointer \in 0 .. MaxRuns
  /\ faults \in 0 .. MaxFaults

\* An attempt that was not answered, or not taken: it leaves all but the counters alone.
Missed ==
  /\ tries' \in 0 .. MaxTries - 1
  /\ faults' \in 0 .. MaxFaults
  /\ \/ UNCHANGED <<pc, why>>
     \/ pc' = "failed" /\ why' = "http"
  /\ UNCHANGED <<row, rowTries, memory, disk, run, fresh>>

LEMMA Counters ==
  /\ 0 \in 0 .. MaxTries - 1
  /\ \A n \in 0 .. MaxTries - 1 : n + 1 < MaxTries => n + 1 \in 0 .. MaxTries - 1
  /\ \A n \in 0 .. MaxFaults : n < MaxFaults => n + 1 \in 0 .. MaxFaults
BY CanaryAssumption

LEMMA MissedAttempt ==
  ASSUME ClientTypeOK, UNCHANGED <<run, fresh>>,
         \/ faults < MaxFaults /\ faults' = faults + 1 /\ TryAgain
         \/ Refused
  PROVE  Missed
<1>1. tries \in 0 .. MaxTries - 1 /\ faults \in 0 .. MaxFaults
  BY DEF ClientTypeOK
<1>2. faults' \in 0 .. MaxFaults
  BY <1>1, Counters DEF Refused
<1>3. CASE TryAgain
  BY <1>1, <1>2, <1>3, Counters DEF TryAgain, Fail, Missed
<1>4. CASE Refused
  BY <1>1, <1>2, <1>4, Counters DEF Refused, Fail, Missed
<1> QED
  BY <1>3, <1>4

LEMMA MissedType ==
  ASSUME ClientTypeOK, Missed
  PROVE  ClientTypeOK'
BY DEF ClientTypeOK, Missed, memory, disk, Ends, Reasons

\* What an answer to a request of the main thread may change.
LEMMA Requests ==
  ASSUME ClientTypeOK,
         \/ Organize \/ TakeKey \/ BalanceBeforeGrant \/ TakeGrant \/ Funded \/ AfterAccept
         \/ BalanceBeforeReplay \/ Replay \/ CompareBalance \/ WalkUsage \/ FinalBalance
  PROVE  \/ Missed
         \/ tries' = 0 /\ UNCHANGED <<run, fresh, faults, row, rowTries, disk>>
<1> USE MissedAttempt DEF Get, Post, Unanswered, Undelivered, Quiet
<1>1. CASE Organize \/ TakeKey
  BY <1>1 DEF Organize, TakeKey
<1>2. CASE BalanceBeforeGrant \/ TakeGrant \/ Funded
  BY <1>2 DEF BalanceBeforeGrant, TakeGrant, Funded
<1>3. CASE AfterAccept \/ BalanceBeforeReplay \/ CompareBalance
  BY <1>3 DEF AfterAccept, BalanceBeforeReplay, CompareBalance
<1>4. CASE Replay
  BY <1>4 DEF Replay
<1>5. CASE WalkUsage \/ FinalBalance
  BY <1>5 DEF WalkUsage, FinalBalance
<1> QED
  BY <1>1, <1>2, <1>3, <1>4, <1>5

\* Where it goes, and what it keeps in memory.
PlaceType == pc \in Steps \cup Ends /\ why \in Reasons

MemoryType ==
  /\ ids \in [Indices -> {0} \cup JobIds]
  /\ pending \subseteq Indices
  /\ overdue \in BOOLEAN
  /\ seen \in Nat \X Nat \X Nat
  /\ cursor \in Nat
  /\ usage \subseteq JobIds

LEMMA RequestPlace ==
  ASSUME PlaceType,
         \/ Organize \/ TakeKey \/ BalanceBeforeGrant \/ TakeGrant \/ Funded \/ AfterAccept
         \/ BalanceBeforeReplay \/ Replay \/ CompareBalance \/ WalkUsage \/ FinalBalance
  PROVE  PlaceType'
<1> DEFINE Moves == \/ UNCHANGED <<pc, why>>
                    \/ pc' \in Steps /\ why' = why
                    \/ pc' = "failed" /\ why' \in Reasons
<1> SUFFICES Moves
  BY DEF PlaceType, Ends
<1>1. TryAgain \/ Refused => Moves
  BY DEF TryAgain, Refused, Fail, Reasons
<1> USE <1>1 DEF Get, Post, Goto, Check, Fail, Steps, Reasons
<1>2. CASE Organize \/ TakeKey
  BY <1>2 DEF Organize, TakeKey
<1>3. CASE BalanceBeforeGrant
  BY <1>3 DEF BalanceBeforeGrant
<1>4. CASE TakeGrant \/ Funded
  BY <1>4 DEF TakeGrant, Funded
<1>5. CASE AfterAccept \/ BalanceBeforeReplay
  BY <1>5 DEF AfterAccept, BalanceBeforeReplay
<1>6. CASE Replay
  BY <1>6 DEF Replay
<1>7. CASE CompareBalance
  BY <1>7 DEF CompareBalance
<1>8. CASE WalkUsage
  BY <1>8 DEF WalkUsage
<1>9. CASE FinalBalance
  BY <1>9 DEF FinalBalance
<1> QED
  BY <1>2, <1>3, <1>4, <1>5, <1>6, <1>7, <1>8, <1>9

LEMMA RequestMemory ==
  ASSUME MemoryType, GatewayTypeOK,
         \/ Organize \/ TakeKey \/ BalanceBeforeGrant \/ TakeGrant \/ Funded \/ AfterAccept
         \/ BalanceBeforeReplay \/ Replay \/ CompareBalance \/ WalkUsage \/ FinalBalance
  PROVE  MemoryType'
<1>0. UNCHANGED memory => MemoryType'
  BY DEF MemoryType, memory
<1>1. TryAgain \/ Refused => UNCHANGED memory
  BY DEF TryAgain, Refused
<1> USE <1>0, <1>1 DEF Get, Post, Quiet
<1>2. CASE Organize \/ TakeKey \/ BalanceBeforeGrant \/ TakeGrant \/ Funded
  BY <1>2 DEF Organize, TakeKey, BalanceBeforeGrant, TakeGrant, Funded
<1>3. CASE AfterAccept \/ Replay \/ FinalBalance
  BY <1>3 DEF AfterAccept, Replay, FinalBalance
<1>4. CASE BalanceBeforeReplay
  BY <1>4, BalanceType DEF BalanceBeforeReplay, MemoryType
<1>5. CASE CompareBalance
  BY <1>5 DEF CompareBalance, MemoryType
<1>6. CASE WalkUsage
  <2>1. UsagePage(cursor, PageSize) \subseteq JobIds
    BY DEF UsagePage, Listed, InState
  <2>2. cursor + PageSize \in Nat
    BY CanaryAssumption DEF MemoryType
  <2> QED
    BY <1>6, <2>1, <2>2 DEF WalkUsage, MemoryType
<1> QED
  BY <1>2, <1>3, <1>4, <1>5, <1>6

LEMMA RequestType ==
  ASSUME ClientTypeOK, GatewayTypeOK,
         \/ Organize \/ TakeKey \/ BalanceBeforeGrant \/ TakeGrant \/ Funded \/ AfterAccept
         \/ BalanceBeforeReplay \/ Replay \/ CompareBalance \/ WalkUsage \/ FinalBalance
  PROVE  ClientTypeOK'
<1>1. PlaceType' /\ MemoryType'
  BY RequestPlace, RequestMemory DEF ClientTypeOK, PlaceType, MemoryType
<1>2. CASE Missed
  BY <1>2, MissedType
<1>3. CASE tries' = 0 /\ UNCHANGED <<run, fresh, faults, row, rowTries, disk>>
  BY <1>1, <1>3, Counters DEF ClientTypeOK, PlaceType, MemoryType, disk
<1> QED
  BY <1>2, <1>3, Requests

LEMMA RowType ==
  ASSUME ClientTypeOK, NEW i \in Indices, SubmitRow(i) \/ PollRow(i)
  PROVE  ClientTypeOK'
<1> USE DEF ClientTypeOK, memory, disk
<1>1. rowTries[i] \in 0 .. MaxTries - 1 /\ faults \in 0 .. MaxFaults
  OBVIOUS
<1>2. ASSUME faults' \in 0 .. MaxFaults, RowTriesAgain(i) \/ RowFails(i),
             UNCHANGED <<pc, why, run, fresh, tries, disk>>
      PROVE  ClientTypeOK'
  <2>1. CASE RowFails(i)
    BY <1>2, <2>1 DEF RowFails
  <2>2. CASE rowTries[i] + 1 < MaxTries
    <3>1. rowTries[i] + 1 \in 0 .. MaxTries - 1
      BY <1>1, <2>2, Counters
    <3> QED
      BY <1>2, <2>1, <2>2, <3>1 DEF RowTriesAgain
  <2> QED
    BY <1>2, <2>1, <2>2 DEF RowTriesAgain
<1>3. faults < MaxFaults /\ faults' = faults + 1 => faults' \in 0 .. MaxFaults
  BY <1>1, Counters
<1>4. CASE SubmitRow(i)
  <2>1. ASSUME NEW id \in JobIds, ids' = [ids EXCEPT ![i] = id], row' = [row EXCEPT ![i] = "ok"],
               UNCHANGED <<pc, why, run, fresh, tries, disk>>,
               UNCHANGED <<late, faults, rowTries, pending, overdue, seen, cursor, usage>>
        PROVE  ClientTypeOK'
    BY <2>1
  <2> HIDE DEF ClientTypeOK
  <2> QED
    BY <1>2, <1>3, <1>4, <2>1 DEF SubmitRow, Unanswered, Undelivered
<1>5. CASE PollRow(i)
  <2>1. ASSUME row' = [row EXCEPT ![i] = IF ids[i] \in Ended THEN "ok" ELSE "open"],
               UNCHANGED <<pc, why, run, fresh, tries, disk>>,
               UNCHANGED <<gwVars, rowTries, memory, faults>>
        PROVE  ClientTypeOK'
    BY <2>1
  <2> HIDE DEF ClientTypeOK
  <2> QED
    BY <1>2, <1>3, <1>5, <2>1 DEF PollRow, Undelivered
<1> QED
  BY <1>4, <1>5

LEMMA ClientType ==
  ASSUME ClientTypeOK, GatewayTypeOK, [Next]_vars
  PROVE  ClientTypeOK'
<1> USE DEF ClientTypeOK, requests, memory, disk
<1>1. /\ AllTodo \in [Indices -> {"todo", "ok", "open", "err"}]
      /\ NoTries \in [Indices -> 0 .. MaxTries - 1]
      /\ NoIds \in [Indices -> {0} \cup JobIds]
  BY Counters DEF AllTodo, NoTries, NoIds
<1>2. CASE PersistKey \/ RecordIds
  BY <1>2 DEF PersistKey, RecordIds, Goto, Steps
<1>3. CASE EndSubmit
  BY <1>1, <1>3 DEF EndSubmit, Fresh, Check, Goto, Fail, Steps, Ends, Reasons
<1>4. CASE PollGuard
  BY <1>4 DEF PollGuard, Goto, Fail, Steps, Ends, Reasons
<1>5. CASE EndRound
  BY <1>1, <1>5 DEF EndRound, Fresh, Goto, Fail, Steps, Ends, Reasons
<1>6. CASE Judge
  BY <1>6 DEF Judge, Check, Goto, Fail, Steps, Ends, Reasons
<1>7. CASE WriteResult \/ WritePointer
  BY <1>7 DEF WriteResult, WritePointer, Goto, Steps, Ends
<1>8. CASE DeadlinePasses \/ Crash
  BY <1>8 DEF DeadlinePasses, Crash, Ends
<1>9. CASE Rerun
  <2>1. run + 1 \in 1 .. MaxRuns
    BY <1>9, GatewayAssumption DEF Rerun
  <2> QED
    BY <1>1, <1>9, <2>1, Counters DEF Rerun, Steps, Reasons
<1>10. CASE UNCHANGED <<pc, why, run, fresh, requests, memory, disk, faults>>
  BY <1>10
<1> HIDE DEF ClientTypeOK, requests, memory, disk
<1> QED
  BY <1>2, <1>3, <1>4, <1>5, <1>6, <1>7, <1>8, <1>9, <1>10, RequestType, RowType
     DEF Next, ClientNext, AtGateway, vars

LEMMA GatewayKept ==
  ASSUME GatewayInv, [Next]_vars
  PROVE  GatewayInv' /\ Grows
<1> USE DEF GatewayInv
<1>1. GatewayEffect /\ LateOK'
  BY StepEffect
<1>2. Grows /\ KnownOK' /\ BooksOK'
  BY <1>1, EffectGrows, KnownKept, BooksKept
<1>3. late' \subseteq ({"key"} \X {1}) \cup ({"grant"} \X (1 .. MaxRuns)) \cup ({"job"} \X JobIds)
  BY <1>1, JobIdFacts, GatewayAssumption DEF LateOK
<1>4. keys' \in Nat
  BY <1>1 DEF GatewayEffect, GatewayTypeOK
<1>5. GatewayTypeOK'
  BY <1>1, <1>3, <1>4, EffectType DEF GatewayTypeOK
<1> QED
  BY <1>1, <1>2, <1>5

----------------------------------------------------------------------------
(* With a gateway that keeps its promises.                                 *)

\* What is known is the jobs of the rows.
LEMMA HonestKnown ==
  ASSUME KnownOK, twist = "none"
  PROVE  Known \subseteq {JobOf(i, 1) : i \in Indices}
<1> SUFFICES ASSUME NEW id \in JobIds, job[id] # "none"
             PROVE  id \in {JobOf(i, 1) : i \in Indices}
  BY DEF Known
<1>1. PICK i \in Indices : id \in Own(i)
  BY JobHasRow
<1> QED
  BY <1>1 DEF KnownOK, Own

LEMMA HonestMine ==
  ASSUME TypeOK, KnownOK, RowsOK, twist = "none", pc \in Accepted
  PROVE  /\ \A i \in Indices : ids[i] = JobOf(i, 1)
         /\ Mine = Known
         /\ Mine = {JobOf(i, 1) : i \in Indices}
<1>1. ASSUME NEW i \in Indices
      PROVE  ids[i] = JobOf(i, 1) /\ job[ids[i]] # "none"
  <2>1. ids[i] \in Own(i)
    BY DEF RowsOK
  <2>2. ids[i] # 0
    BY <2>1, JobIdFacts DEF Own
  <2>3. job[ids[i]] # "none"
    BY <2>2 DEF RowsOK, Accepted, Steps
  <2> QED
    BY <2>1, <2>3 DEF KnownOK, Own
<1>2. Mine = {JobOf(i, 1) : i \in Indices} /\ Mine \subseteq Known
  BY <1>1, JobIdFacts DEF Mine, Known
<1> QED
  BY <1>1, <1>2, HonestKnown

LEMMA HonestListed ==
  ASSUME TypeOK, KnownOK, RowsOK, AuditOK, twist = "none", pc \in Judged
  PROVE  Listed = Mine /\ InState("completed") = Mine
<1>1. Mine = Known
  BY HonestMine DEF Judged, Accepted
<1>2. \A id \in Mine : id \in JobIds /\ job[id] = "completed"
  BY <1>1 DEF AuditOK, Known
<1> QED
  BY <1>1, <1>2 DEF Listed, InState, Known

\* As many jobs as rows.
LEMMA RowsCounted ==
  /\ IsFiniteSet({JobOf(i, 1) : i \in Indices})
  /\ Cardinality({JobOf(i, 1) : i \in Indices}) = Rows
<1> DEFINE J == {JobOf(i, 1) : i \in Indices}
           f == [i \in Indices |-> JobOf(i, 1)]
<1>1. IsFiniteSet(Indices) /\ Cardinality(Indices) = Rows
  <2>1. 1 \in Int /\ Rows \in Int /\ 1 <= Rows /\ Rows - 1 + 1 = Rows
    BY GatewayAssumption
  <2> QED
    BY <2>1, FS_Interval DEF Indices
<1>2. f \in Bijection(Indices, J)
  BY JobIdFacts DEF Bijection, Injection, Surjection, IsInjective
<1> QED
  BY <1>1, <1>2, FS_Bijection DEF ExistsBijection

\* Before any has ended, all is held and nothing is charged.
LEMMA HonestUntouched ==
  ASSUME TypeOK, KnownOK, BooksOK, RowsOK, grants = {1}, twist = "none", pc \in Accepted,
         Ended = {}
  PROVE  Balance = Untouched
<1>1. InState("queued") = {JobOf(i, 1) : i \in Indices}
  <2>1. \A id \in JobIds : job[id] \in {"none", "queued", "completed", "failed"}
    BY DEF TypeOK, GatewayTypeOK
  <2>2. InState("queued") = Known
    BY <2>1 DEF Ended, InState, Known
  <2> QED
    BY <2>2, HonestMine
<1>2. Reserved = Hold * Rows
  BY <1>1, RowsCounted DEF Reserved
<1>3. Granted = Credits
  <2>1. Cardinality({1}) = 1
    BY FS_Singleton
  <2>2. Credits * 1 = Credits
    BY GatewayAssumption
  <2> QED
    BY <2>1, <2>2 DEF Granted
<1>4. spent = 0
  <2>1. InState("completed") = {}
    BY DEF Ended
  <2> QED
    BY <2>1, SumEmpty DEF BooksOK
<1> QED
  BY <1>2, <1>3, <1>4 DEF Balance, Untouched

----------------------------------------------------------------------------
(* The client's invariant, step by step.                                   *)

\* What is known of a step before its action is looked at.
StepFacts == IInv /\ TypeOK' /\ GatewayInv' /\ Grows

\* Nothing of the client has changed, but that it may have ended.
LEMMA StayKept ==
  ASSUME StepFacts, pc' \in {pc} \cup Ends, UNCHANGED <<row, ids, pending, seen, cursor, usage>>
  PROVE  ClientInv'
<1> USE DEF StepFacts, IInv, ClientInv
<1>0. pc' \in Ends => pc' \notin Steps /\ pc' \notin Before \cup Accepted \cup {"submit"}
  BY DEF Ends, Steps, Before, Accepted
<1>1. MemoryOK'
  BY <1>0 DEF MemoryOK, GatewayInv, KnownOK, Grows, Judged, Accepted, Ends
<1>2. RowsOK'
  <2>1. \A i \in Indices : ids[i] # 0 => ids[i] \in JobIds
    BY DEF TypeOK
  <2>2. twist = "alias" => twist' = "alias"
    BY DEF Grows
  <2> QED
    BY <1>0, <2>1, <2>2 DEF RowsOK, Grows
<1>3. \A id \in JobIds : id \in Ended => id \in Ended'
  BY DEF Ended, InState, Grows
<1>4. Mine' = Mine
  BY DEF Mine
<1>5. WaitOK'
  <2>1. pc \in {"guard", "poll", "judge"} => \A i \in Indices : ids[i] \in JobIds
    BY JobIdFacts DEF RowsOK, Own, Accepted
  <2>2. twist' = "none" => twist = "none"
    BY DEF Grows
  <2>3. Ended' = {} => Ended = {}
    BY <1>3 DEF Ended, InState
  <2>4. pending \subseteq Indices
    BY DEF TypeOK
  <2> QED
    BY <1>3, <2>1, <2>2, <2>3, <2>4 DEF WaitOK, Ends, Untouched
<1>6. AuditOK'
  <2>1. pc \in Judged => Mine \subseteq JobIds
    BY JobIdFacts DEF RowsOK, Own, Accepted, Judged, Mine
  <2>2. pc' \in Judged => \A id \in Mine' : job'[id] = "completed" /\ Sound(id)'
    BY <1>4, <2>1 DEF AuditOK, Grows, Judged, Ends, Sound
  <2>3. ASSUME pc' = "usage", twist' = "none"
        PROVE  Listed' = Listed
    <3>1. pc = "usage" /\ twist = "none"
      BY <2>3 DEF Grows, Ends
    <3>2. Listed = Mine /\ Mine = {JobOf(i, 1) : i \in Indices}
      BY <3>1, HonestListed, HonestMine DEF GatewayInv, Judged, Accepted
    <3>3. \A id \in JobIds : job'[id] # "none" => id \in Mine
      <4>1. (KnownOK /\ twist = "none" => Known \subseteq {JobOf(i, 1) : i \in Indices})'
        BY HonestKnown, PTL
      <4> QED
        BY <2>3, <3>2, <4>1 DEF GatewayInv, Known
    <3>4. \A id \in Mine : id \in JobIds /\ job'[id] = "completed"
      BY <1>4, <2>1, <2>2, <2>3, <3>1 DEF Judged
    <3> QED
      BY <2>3, <3>2, <3>3, <3>4 DEF Listed, InState
  <2>4. pc' = "usage" /\ twist' = "none" => usage' = {id \in Listed : Rank(id, Listed) < cursor}'
    BY <2>3 DEF AuditOK, Grows, Ends, Rank
  <2> QED
    BY <1>4, <2>2, <2>4 DEF AuditOK, Ends
<1> QED
  BY <1>1, <1>2, <1>5, <1>6

\* Up to the submission.
LEMMA BeforeKept ==
  ASSUME StepFacts, pc \in Before, pc' \in Before \cup {"submit"},
         pc' \in {"funded", "submit"} => grants' = {1},
         UNCHANGED <<row, ids, pending, seen, cursor, usage>>
  PROVE  ClientInv'
<1> USE DEF StepFacts, IInv, ClientInv
<1>1. MemoryOK'
  BY DEF MemoryOK, Before, Accepted, Judged, Steps, AllTodo
<1>2. \A i \in Indices : ids'[i] = 0
  BY DEF MemoryOK, NoIds
<1> QED
  BY <1>1, <1>2 DEF RowsOK, WaitOK, AuditOK, Before, Accepted, Judged

LEMMA NotRefused ==
  ASSUME StepFacts, pc' # "failed" \/ why' \in {"http", "timeout"} \/ UNCHANGED <<pc, why>>
  PROVE  RefusalIsHonest'
<1>1. ASSUME NEW st \in {"completed", "failed"}, InState(st) # {}
      PROVE  InState(st)' # {}
  BY <1>1 DEF StepFacts, InState, Grows
<1>2. InState("failed") # {} => InState("failed")' # {}
  BY <1>1
<1>3. InState("completed") # {} => InState("completed")' # {}
  BY <1>1
<1>4. Ended # {} => Ended' # {}
  BY <1>2, <1>3 DEF Ended
<1>5. twist' = "none" => twist = "none"
  BY DEF StepFacts, Grows
<1> QED
  BY <1>2, <1>4, <1>5 DEF StepFacts, IInv, RefusalIsHonest

LEMMA MissedKept ==
  ASSUME StepFacts, Missed
  PROVE  ClientInv' /\ RefusalIsHonest'
<1>1. pc' \in {pc} \cup Ends /\ UNCHANGED <<row, ids, pending, seen, cursor, usage>>
  BY DEF Missed, Ends, memory
<1>2. why' \in {"http", "timeout"} \/ UNCHANGED <<pc, why>>
  BY DEF Missed
<1> QED
  BY <1>1, <1>2, StayKept, NotRefused

\* With at most the one grant.
LEMMA OneGrant ==
  ASSUME KnownOK
  PROVE  Granted \in {0, Credits} /\ (grants = {1} => Granted = Credits)
<1>1. Cardinality({}) = 0 /\ Cardinality({1}) = 1
  BY FS_EmptySet, FS_Singleton
<1>2. Credits * 0 = 0 /\ Credits * 1 = Credits
  BY GatewayAssumption
<1>3. grants = {} \/ grants = {1}
  BY DEF KnownOK
<1> QED
  BY <1>1, <1>2, <1>3 DEF Granted

LEMMA BeforeSteps ==
  ASSUME StepFacts,
         Organize \/ TakeKey \/ PersistKey \/ BalanceBeforeGrant \/ TakeGrant \/ Funded
  PROVE  ClientInv' /\ RefusalIsHonest'
<1>0. ClientTypeOK
  BY DEF StepFacts, IInv, TypeOK, ClientTypeOK
<1>1. KnownOK /\ KnownOK' /\ grants \subseteq grants'
  BY DEF StepFacts, IInv, GatewayInv, Grows
<1>2. pc = "funded" => grants = {1}
  BY DEF StepFacts, IInv, ClientInv, MemoryOK
<1> DEFINE Kept == /\ pc \in Before
                   /\ pc' \in Before \cup {"submit"}
                   /\ pc' \in {"funded", "submit"} => grants' = {1}
                   /\ UNCHANGED <<row, ids, pending, seen, cursor, usage>>
<1>3. Missed => ClientInv' /\ RefusalIsHonest'
  BY MissedKept
<1>4. Kept => ClientInv' /\ RefusalIsHonest'
  <2>1. Kept => pc' # "failed"
    BY DEF Before
  <2> QED
    BY <2>1, BeforeKept, NotRefused
<1> SUFFICES Missed \/ Kept
  BY <1>3, <1>4
<1> USE <1>0, MissedAttempt
    DEF Get, Post, Unanswered, Undelivered, Quiet, Before, Goto, Check, memory, Kept
<1>5. CASE Organize \/ TakeKey
  BY <1>5 DEF Organize, TakeKey
<1>6. CASE PersistKey
  BY <1>6 DEF PersistKey, requests
<1>7. CASE BalanceBeforeGrant
  BY <1>1, <1>7, OneGrant DEF BalanceBeforeGrant
<1>8. CASE TakeGrant
  <2>1. \/ /\ Grant(1) /\ tries' = 0 /\ UNCHANGED <<faults, row, rowTries, run, fresh, memory, disk>>
           /\ pc = "grant" /\ pc' = "funded"
        \/ Missed
    BY <1>8 DEF TakeGrant, GrantId
  <2>2. Grant(1) => grants' = {1}
    BY <1>1 DEF Grant, KnownOK
  <2> QED
    BY <2>1, <2>2
<1>9. CASE Funded
  <2>1. Granted = Credits \/ pc # "funded"
    BY <1>1, <1>2, OneGrant
  <2>2. pc = "funded"
    BY <1>9 DEF Funded
  <2>3. grants' = {1}
    BY <1>1, <1>2, <2>2 DEF KnownOK
  <2> QED
    BY <1>9, <2>1, <2>2, <2>3 DEF Funded
<1> QED
  BY <1>5, <1>6, <1>7, <1>8, <1>9

\* A row that is told of its job.
LEMMA RowAccepted ==
  ASSUME StepFacts, pc = "submit", NEW i \in Indices, NEW id \in JobIds, Submit(JobOf(i, 1), id),
         ids' = [ids EXCEPT ![i] = id], row' = [row EXCEPT ![i] = "ok"],
         UNCHANGED <<pc, pending, seen, cursor, usage>>
  PROVE  ClientInv'
<1> USE DEF StepFacts, IInv, ClientInv
<1>1. ids \in [Indices -> {0} \cup JobIds] /\ row \in [Indices -> {"todo", "ok", "open", "err"}]
  BY DEF TypeOK
<1>2. \A k \in Indices : ids'[k] = IF k = i THEN id ELSE ids[k]
  BY <1>1
<1>3. MemoryOK'
  <2>1. \A k \in Indices : row'[k] \in {"ok", "open"} => ids'[k] # 0
    BY <1>1, JobIdFacts DEF MemoryOK
  <2>2. grants' = {1}
    BY DEF MemoryOK, Grows, GatewayInv, KnownOK
  <2> QED
    BY <2>1, <2>2 DEF MemoryOK, Before, Accepted, Judged, Steps
<1>4. job'[id] # "none"
  BY DEF Submit, Known, GatewayInv, GatewayTypeOK
<1>5. \A k \in Indices : ids'[k] # 0 => job'[ids'[k]] # "none"
  <2>1. \A k \in Indices : ids[k] # 0 => ids[k] \in JobIds /\ job[ids[k]] # "none"
    BY <1>1 DEF RowsOK, Steps
  <2> QED
    BY <1>2, <1>4, <2>1 DEF Grows
<1>6. \/ \A k \in Indices : ids'[k] \in {0} \cup Own(k)
      \/ /\ twist' = "alias"
         /\ \E m, j \in Indices :
              /\ m # j /\ ids'[m] = JobOf(j, 1)
              /\ \A k \in Indices \ {m} : ids'[k] \in {0} \cup Own(k)
  <2>1. CASE id \in Own(i)
    <3>1. CASE \A k \in Indices : ids[k] \in {0} \cup Own(k)
      BY <1>2, <2>1, <3>1
    <3>2. ASSUME twist = "alias", NEW m \in Indices, NEW j \in Indices,
                 m # j, ids[m] = JobOf(j, 1),
                 \A k \in Indices \ {m} : ids[k] \in {0} \cup Own(k)
          PROVE  \/ \A k \in Indices : ids'[k] \in {0} \cup Own(k)
                 \/ \E n, l \in Indices :
                      /\ n # l /\ ids'[n] = JobOf(l, 1)
                      /\ \A k \in Indices \ {n} : ids'[k] \in {0} \cup Own(k)
      <4>1. CASE i = m
        BY <1>2, <2>1, <3>2, <4>1
      <4>2. CASE i # m
        <5>1. ids'[m] = JobOf(j, 1) /\ \A k \in Indices \ {m} : ids'[k] \in {0} \cup Own(k)
          BY <1>2, <2>1, <3>2, <4>2
        <5> QED
          BY <3>2, <5>1
      <4> QED
        BY <4>1, <4>2
    <3>3. twist = "alias" => twist' = "alias"
      BY DEF Grows
    <3> QED
      BY <3>1, <3>2, <3>3 DEF RowsOK
  <2>2. CASE id \in Known /\ Twisted("alias") /\ JobOf(i, 1) \notin Known
    <3>1. twist = "none" /\ twist' = "alias"
      BY <2>2 DEF Twisted
    <3>2. \A k \in Indices : ids[k] \in {0} \cup Own(k)
      BY <3>1 DEF RowsOK
    <3>3. PICK j \in Indices : id = JobOf(j, 1)
      BY <2>2, <3>1, HonestKnown DEF GatewayInv
    <3>4. i # j
      BY <2>2, <3>3
    <3> QED
      BY <1>2, <3>1, <3>2, <3>3, <3>4
  <2> QED
    BY <2>1, <2>2, JobIdFacts DEF Submit, Own
<1>7. RowsOK'
  BY <1>5, <1>6 DEF RowsOK, Accepted
<1> QED
  BY <1>3, <1>7 DEF WaitOK, AuditOK, Judged

\* A row of the submission that is tried again, or is not.
LEMMA RowMissed ==
  ASSUME StepFacts, pc = "submit", NEW i \in Indices,
         row' \in {row, [row EXCEPT ![i] = "err"]},
         UNCHANGED <<pc, ids, pending, seen, cursor, usage>>
  PROVE  ClientInv'
<1> USE DEF StepFacts, IInv, ClientInv
<1>1. MemoryOK'
  <2>1. \A k \in Indices : row'[k] \in {"ok", "open"} => row'[k] = row[k]
    BY DEF TypeOK
  <2>2. grants' = {1}
    BY DEF MemoryOK, Grows, GatewayInv, KnownOK
  <2> QED
    BY <2>1, <2>2 DEF MemoryOK, Before, Accepted, Judged, Steps
<1>2. RowsOK'
  <2>1. \A k \in Indices : ids[k] # 0 => ids[k] \in JobIds /\ job[ids[k]] # "none"
    BY DEF RowsOK, Steps, TypeOK
  <2>2. twist = "alias" => twist' = "alias"
    BY DEF Grows
  <2> QED
    BY <2>1, <2>2 DEF RowsOK, Grows, Accepted
<1> QED
  BY <1>1, <1>2 DEF WaitOK, AuditOK, Judged

LEMMA SubmitStep ==
  ASSUME StepFacts, NEW i \in Indices, SubmitRow(i)
  PROVE  ClientInv' /\ RefusalIsHonest'
<1>1. RefusalIsHonest'
  BY NotRefused DEF SubmitRow
<1> SUFFICES ClientInv'
  BY <1>1
<1>2. pc = "submit" /\ UNCHANGED pc
  BY DEF SubmitRow
<1>3. CASE RowTriesAgain(i) \/ RowFails(i)
  BY <1>2, <1>3, RowMissed DEF RowTriesAgain, RowFails, memory
<1>4. ASSUME NEW id \in JobIds, Submit(JobOf(i, 1), id),
             ids' = [ids EXCEPT ![i] = id], row' = [row EXCEPT ![i] = "ok"],
             UNCHANGED <<pending, seen, cursor, usage>>
      PROVE  ClientInv'
  BY <1>2, <1>4, RowAccepted
<1>5. CASE \E id \in JobIds : /\ Submit(JobOf(i, 1), id)
                            /\ ids' = [ids EXCEPT ![i] = id]
                            /\ row' = [row EXCEPT ![i] = "ok"]
                            /\ UNCHANGED <<pending, seen, cursor, usage>>
  BY <1>4, <1>5
<1> QED
  BY <1>3, <1>5 DEF SubmitRow, KeyOf

\* When all rows are told of a job, and of different ones, each is told of its own.
LEMMA EndSubmitStep ==
  ASSUME StepFacts, EndSubmit
  PROVE  ClientInv' /\ RefusalIsHonest'
<1> USE DEF StepFacts, IInv, ClientInv
<1>0. /\ pc = "submit" /\ \A i \in Indices : row[i] # "todo"
      /\ UNCHANGED <<gwVars, run, fresh, tries, memory, disk, faults>>
      /\ row' = AllTodo
  BY DEF EndSubmit, Fresh
<1>1. /\ ids \in [Indices -> {0} \cup JobIds]
      /\ \A i \in Indices : ids[i] # 0 => job[ids[i]] # "none"
  BY <1>0 DEF TypeOK, RowsOK, Steps
<1>2. CASE \E i \in Indices : row[i] = "err"
  <2>1. pc' = "failed" /\ why' = "http"
    BY <1>2 DEF EndSubmit, Fail
  <2>2. ClientInv'
    BY <2>1, <1>0 DEF MemoryOK, RowsOK, WaitOK, AuditOK, Before, Accepted, Judged, Steps
  <2> QED
    BY <2>1, <2>2, NotRefused
<1>3. CASE \A i \in Indices : row[i] # "err"
  <2>1. \A i \in Indices : ids[i] # 0
    BY <1>0, <1>3 DEF TypeOK, MemoryOK
  <2>2. CASE \A i, j \in Indices : ids[i] = ids[j] => i = j
    <3>1. pc' = "record"
      BY <1>3, <2>2 DEF EndSubmit, Check, Goto
    <3>2. \A i \in Indices : ids[i] \in Own(i)
      <4>1. ASSUME twist = "alias", NEW i \in Indices, NEW j \in Indices,
                   i # j, ids[i] = JobOf(j, 1),
                   \A k \in Indices \ {i} : ids[k] \in {0} \cup Own(k)
            PROVE  FALSE
        <5>1. ids[j] \in Own(j) /\ job[ids[j]] # "none"
          BY <1>1, <2>1, <4>1
        <5>2. ids[j] = JobOf(j, 1)
          BY <4>1, <5>1 DEF GatewayInv, KnownOK, Own
        <5> QED
          BY <2>2, <4>1, <5>2
      <4> QED
        BY <1>0, <2>1, <4>1 DEF RowsOK
    <3>3. MemoryOK'
      BY <1>0, <3>1 DEF MemoryOK, Before, Accepted, Judged, Steps, memory, gwVars
    <3>4. RowsOK'
      BY <1>0, <1>1, <3>1, <3>2 DEF RowsOK, memory, gwVars, Own
    <3>5. ClientInv'
      BY <3>1, <3>3, <3>4 DEF WaitOK, AuditOK, Judged
    <3> QED
      BY <3>1, <3>5, NotRefused
  <2>3. ASSUME NEW i \in Indices, NEW j \in Indices, ids[i] = ids[j], i # j
        PROVE  ClientInv' /\ RefusalIsHonest'
    <3>1. pc' = "failed"
      BY <1>3, <2>3 DEF EndSubmit, Check, Fail
    <3>2. ClientInv'
      BY <3>1, <1>0 DEF MemoryOK, RowsOK, WaitOK, AuditOK, Before, Accepted, Judged, Steps
    <3>3. twist # "none"
      BY <1>0, <2>1, <2>3, JobIdFacts DEF RowsOK, Own
    <3>4. RefusalIsHonest'
      BY <1>0, <3>3 DEF RefusalIsHonest, gwVars
    <3> QED
      BY <3>2, <3>4
  <2> QED
    BY <2>2, <2>3
<1> QED
  BY <1>2, <1>3

\* From the acceptance on, the rows' jobs are known and stay.
LEMMA AcceptedRows ==
  ASSUME StepFacts, pc \in Accepted, pc' \in Accepted, UNCHANGED ids
  PROVE  /\ RowsOK' /\ grants = {1} /\ grants' = {1}
         /\ \A i \in Indices : ids[i] \in JobIds
         /\ Mine \subseteq JobIds /\ Mine' = Mine
<1> USE DEF StepFacts, IInv, ClientInv
<1>1. \A i \in Indices : ids[i] \in JobIds /\ job[ids[i]] # "none"
  BY JobIdFacts DEF RowsOK, Own, Accepted, Steps
<1>2. grants = {1} /\ grants' = {1}
  BY DEF MemoryOK, Grows, GatewayInv, KnownOK
<1>3. RowsOK'
  BY <1>1 DEF RowsOK, Grows, Accepted
<1> QED
  BY <1>1, <1>2, <1>3 DEF Mine

\* A step of the main thread before the audit.
LEMMA MoveKept ==
  ASSUME StepFacts, pc \in Accepted \ Judged, pc' \in Accepted \ Judged, pc \notin {"poll"},
         UNCHANGED <<row, ids, cursor, usage>>, WaitOK'
  PROVE  ClientInv'
<1> USE DEF StepFacts, IInv, ClientInv
<1>1. RowsOK' /\ grants' = {1}
  BY AcceptedRows
<1>2. row = AllTodo /\ cursor = 0 /\ usage = {}
  BY DEF MemoryOK, Accepted, Judged, Steps
<1>3. MemoryOK'
  BY <1>1, <1>2 DEF MemoryOK, Before, Accepted, AllTodo
<1>4. AuditOK'
  BY DEF AuditOK, Judged
<1> QED
  BY <1>1, <1>3, <1>4

\* A refusal ends the invocation.
LEMMA FailKept ==
  ASSUME StepFacts, pc' = "failed"
  PROVE  ClientInv'
BY DEF MemoryOK, RowsOK, WaitOK, AuditOK, ClientInv, Before, Accepted, Judged, Steps

LEMMA RecordStep ==
  ASSUME StepFacts, RecordIds
  PROVE  ClientInv' /\ RefusalIsHonest'
<1>1. /\ pc = "record" /\ pc' = "accept"
      /\ UNCHANGED <<row, ids, cursor, usage>>
  BY DEF RecordIds, Goto, requests, memory
<1>2. ClientInv'
  BY <1>1, MoveKept DEF Accepted, Judged, WaitOK
<1> QED
  BY <1>1, <1>2, NotRefused

LEMMA AfterAcceptStep ==
  ASSUME StepFacts, AfterAccept
  PROVE  ClientInv' /\ RefusalIsHonest'
<1>0. ClientTypeOK
  BY DEF StepFacts, IInv, TypeOK, ClientTypeOK
<1>1. \/ Missed
      \/ /\ UNCHANGED <<gwVars, row, memory>>
         /\ Check(fresh => Balance = Untouched, "balance", "hold")
  BY <1>0, MissedAttempt DEF AfterAccept, Get, Undelivered, Quiet, Untouched
<1>2. pc = "accept"
  BY DEF AfterAccept
<1>3. ASSUME UNCHANGED <<gwVars, row, memory>>, pc' = "balance"
      PROVE  ClientInv' /\ RefusalIsHonest'
  <2>1. ClientInv'
    BY <1>2, <1>3, MoveKept DEF Accepted, Judged, WaitOK, memory
  <2> QED
    BY <1>3, <2>1, NotRefused
<1>4. ASSUME UNCHANGED gwVars, pc' = "failed", why' = "hold", Balance # Untouched
      PROVE  ClientInv' /\ RefusalIsHonest'
  <2>1. grants = {1}
    BY <1>2 DEF StepFacts, IInv, ClientInv, MemoryOK, Accepted
  <2>2. twist = "none" => Ended # {}
    BY <1>2, <1>4, <2>1, HonestUntouched DEF StepFacts, IInv, ClientInv, GatewayInv, Accepted
  <2>3. RefusalIsHonest'
    BY <1>4, <2>2 DEF RefusalIsHonest, gwVars, Ended, InState
  <2> QED
    BY <1>4, <2>3, FailKept
<1> QED
  BY <1>1, <1>3, <1>4, MissedKept DEF Check, Goto, Fail

LEMMA BalanceStep ==
  ASSUME StepFacts, BalanceBeforeReplay
  PROVE  ClientInv' /\ RefusalIsHonest'
<1>0. ClientTypeOK
  BY DEF StepFacts, IInv, TypeOK, ClientTypeOK
<1>1. \/ Missed
      \/ /\ UNCHANGED <<gwVars, row, ids, pending, cursor, usage>>
         /\ pc' = "replay" /\ seen' = Balance
  BY <1>0, MissedAttempt DEF BalanceBeforeReplay, Get, Undelivered, Goto
<1>2. pc = "balance"
  BY DEF BalanceBeforeReplay
<1>3. ASSUME UNCHANGED <<gwVars, row, ids, pending, cursor, usage>>, pc' = "replay",
             seen' = Balance
      PROVE  ClientInv' /\ RefusalIsHonest'
  <2>1. grants = {1}
    BY <1>2 DEF StepFacts, IInv, ClientInv, MemoryOK, Accepted
  <2>2. twist = "none" /\ Ended = {} => seen' = Untouched
    BY <1>2, <1>3, <2>1, HonestUntouched DEF StepFacts, IInv, ClientInv, GatewayInv, Accepted
  <2>3. WaitOK'
    BY <1>3, <2>2 DEF WaitOK, gwVars, Ended, InState, Untouched
  <2>4. ClientInv'
    BY <1>2, <1>3, <2>3, MoveKept DEF Accepted, Judged
  <2> QED
    BY <1>3, <2>4, NotRefused
<1> QED
  BY <1>1, <1>3, MissedKept

\* A gateway that keeps its promises answers a repeated key with its job.
LEMMA ReplayStep ==
  ASSUME StepFacts, Replay
  PROVE  ClientInv' /\ RefusalIsHonest'
<1>0. ClientTypeOK
  BY DEF StepFacts, IInv, TypeOK, ClientTypeOK
<1>1. pc = "replay" /\ 1 \in Indices
  BY GatewayAssumption DEF Replay, Indices
<1>2. PICK id \in JobIds :
        \/ Missed
        \/ /\ Submit(JobOf(1, 1), id) /\ UNCHANGED <<row, memory>>
           /\ Check(id = ids[1], "compare", "replay")
  BY <1>0, MissedAttempt DEF Replay, KeyOf, Post, Unanswered, Undelivered, Quiet
<1>3. ASSUME Submit(JobOf(1, 1), id), UNCHANGED <<row, memory>>, pc' = "compare"
      PROVE  ClientInv' /\ RefusalIsHonest'
  <2>1. twist' = "none" => twist = "none"
    BY DEF StepFacts, Grows
  <2>2. InState("completed")' = InState("completed") /\ InState("failed")' = InState("failed")
    <3>1. job \in [JobIds -> {"none", "queued", "completed", "failed"}]
      BY DEF StepFacts, IInv, TypeOK, GatewayTypeOK
    <3>2. \/ job' = job
          \/ \E x \in JobIds : job[x] = "none" /\ job' = [job EXCEPT ![x] = "queued"]
      BY <1>3, <3>1 DEF Submit, Known
    <3> QED
      BY <3>1, <3>2 DEF InState
  <2>3. WaitOK'
    BY <1>1, <1>3, <2>1, <2>2 DEF WaitOK, StepFacts, IInv, ClientInv, memory, Ended, Untouched
  <2>4. ClientInv'
    BY <1>1, <1>3, <2>3, MoveKept DEF Accepted, Judged, memory
  <2> QED
    BY <1>3, <2>4, NotRefused
<1>4. ASSUME Submit(JobOf(1, 1), id), pc' = "failed", why' = "replay", id # ids[1]
      PROVE  ClientInv' /\ RefusalIsHonest'
  <2>1. twist = "none" => ids[1] = JobOf(1, 1)
    BY <1>1, HonestMine DEF StepFacts, IInv, ClientInv, GatewayInv, Accepted
  <2>2. twist' = "none" => twist = "none"
    BY DEF StepFacts, Grows
  <2>3. twist' # "none"
    BY <1>4, <2>1, <2>2, GatewayAssumption DEF Submit, Twisted
  <2> QED
    BY <1>4, <2>3, FailKept DEF RefusalIsHonest
<1> QED
  BY <1>2, <1>3, <1>4, MissedKept DEF Check, Goto, Fail

LEMMA CompareStep ==
  ASSUME StepFacts, CompareBalance
  PROVE  ClientInv' /\ RefusalIsHonest'
<1>0. ClientTypeOK
  BY DEF StepFacts, IInv, TypeOK, ClientTypeOK
<1>1. \/ Missed
      \/ /\ UNCHANGED <<gwVars, row, ids, seen, cursor, usage>>
         /\ pending' = Indices
         /\ Check(Balance = seen, "guard", "moved")
  BY <1>0, MissedAttempt DEF CompareBalance, Get, Undelivered
<1>2. pc = "compare"
  BY DEF CompareBalance
<1>3. ASSUME UNCHANGED <<gwVars, row, ids, seen, cursor, usage>>, pending' = Indices, pc' = "guard"
      PROVE  ClientInv' /\ RefusalIsHonest'
  <2>1. WaitOK'
    BY <1>3 DEF WaitOK
  <2>2. ClientInv'
    BY <1>2, <1>3, <2>1, MoveKept DEF Accepted, Judged
  <2> QED
    BY <1>3, <2>2, NotRefused
<1>4. ASSUME UNCHANGED gwVars, pc' = "failed", why' = "moved", Balance # seen
      PROVE  ClientInv' /\ RefusalIsHonest'
  <2>1. grants = {1}
    BY <1>2 DEF StepFacts, IInv, ClientInv, MemoryOK, Accepted
  <2>2. twist = "none" => Ended # {}
    BY <1>2, <1>4, <2>1, HonestUntouched
       DEF StepFacts, IInv, ClientInv, GatewayInv, Accepted, WaitOK
  <2>3. RefusalIsHonest'
    BY <1>4, <2>2 DEF RefusalIsHonest, gwVars, Ended, InState
  <2> QED
    BY <1>4, <2>3, FailKept
<1> QED
  BY <1>1, <1>3, <1>4, MissedKept DEF Check, Goto, Fail

LEMMA GuardStep ==
  ASSUME StepFacts, PollGuard
  PROVE  ClientInv' /\ RefusalIsHonest'
<1>1. /\ pc = "guard" /\ UNCHANGED <<gwVars, row, ids, pending, seen, cursor, usage>>
      /\ pc' = "poll" \/ (pc' = "failed" /\ why' = "timeout")
  BY DEF PollGuard, Goto, Fail, requests, memory
<1>2. CASE pc' = "poll"
  <2>1. row = AllTodo
    BY <1>1 DEF StepFacts, IInv, ClientInv, MemoryOK, Accepted
  <2>2. pending \subseteq Indices
    BY DEF StepFacts, IInv, TypeOK
  <2>3. WaitOK'
    BY <1>1, <1>2, <2>1, <2>2
       DEF WaitOK, StepFacts, IInv, ClientInv, AllTodo, gwVars, Ended, InState
  <2>4. ClientInv'
    BY <1>1, <1>2, <2>3, MoveKept DEF Accepted, Judged
  <2> QED
    BY <1>2, <2>4, NotRefused
<1>3. CASE pc' = "failed" /\ why' = "timeout"
  BY <1>3, FailKept, NotRefused
<1> QED
  BY <1>1, <1>2, <1>3

LEMMA PollStep ==
  ASSUME StepFacts, NEW i \in Indices, PollRow(i)
  PROVE  ClientInv' /\ RefusalIsHonest'
<1> USE DEF StepFacts, IInv, ClientInv
<1>1. /\ pc = "poll" /\ UNCHANGED <<pc, ids, pending, seen, cursor, usage>>
      /\ row' \in {row, [row EXCEPT ![i] = "err"],
                   [row EXCEPT ![i] = IF ids[i] \in Ended THEN "ok" ELSE "open"]}
  BY DEF PollRow, RowTriesAgain, RowFails, memory
<1>2. \A k \in Indices : row'[k] = "ok" => row[k] = "ok" \/ ids[k] \in Ended
  BY <1>1 DEF TypeOK
<1>3. \A id \in JobIds : id \in Ended => id \in Ended'
  BY DEF Ended, InState, Grows
<1>4. RowsOK' /\ grants' = {1} /\ \A k \in Indices : ids[k] \in JobIds
  BY <1>1, AcceptedRows DEF Accepted
<1>5. MemoryOK'
  BY <1>1, <1>4 DEF MemoryOK, Before, Accepted, Judged, Steps
<1>6. WaitOK'
  <2>1. pending \subseteq Indices
    BY DEF TypeOK
  <2> QED
    BY <1>1, <1>2, <1>3, <1>4, <2>1 DEF WaitOK
<1>7. AuditOK'
  BY <1>1 DEF AuditOK, Judged
<1> QED
  BY <1>1, <1>4, <1>5, <1>6, <1>7, NotRefused

LEMMA RoundStep ==
  ASSUME StepFacts, EndRound
  PROVE  ClientInv' /\ RefusalIsHonest'
<1> USE DEF StepFacts, IInv, ClientInv
<1>1. /\ pc = "poll" /\ UNCHANGED <<gwVars, ids, seen, cursor, usage>>
      /\ row' = AllTodo /\ \A k \in pending : row[k] # "todo"
      /\ pending' = {k \in pending : row[k] = "open"}
  BY DEF EndRound, Fresh
<1>2. CASE \E k \in pending : row[k] = "err"
  <2>1. pc' = "failed" /\ why' = "http"
    BY <1>2 DEF EndRound, Fail
  <2> QED
    BY <2>1, FailKept, NotRefused
<1>3. CASE \A k \in pending : row[k] # "err"
  <2>1. pc' = IF pending' = {} THEN "judge" ELSE "guard"
    BY <1>3 DEF EndRound, Goto
  <2>2. \A k \in Indices \ pending' : ids[k] \in Ended
    BY <1>1, <1>3 DEF WaitOK, TypeOK
  <2>3. Ended' = Ended
    BY <1>1 DEF gwVars, Ended, InState
  <2>4. RowsOK' /\ grants' = {1}
    BY <1>1, <2>1, AcceptedRows DEF Accepted
  <2>5. MemoryOK'
    BY <1>1, <2>1, <2>4 DEF MemoryOK, Before, Accepted, Judged, Steps
  <2>6. WaitOK'
    BY <1>1, <2>1, <2>2, <2>3 DEF WaitOK
  <2>7. AuditOK'
    BY <2>1 DEF AuditOK, Judged
  <2>8. pc' # "failed"
    BY <2>1
  <2> QED
    BY <2>4, <2>5, <2>6, <2>7, <2>8, NotRefused
<1> QED
  BY <1>2, <1>3

\* A step of the audit.
LEMMA AuditKept ==
  ASSUME StepFacts, pc \in Judged \cup {"judge"}, pc' \in Judged, UNCHANGED <<gwVars, row, ids>>,
         \A id \in Mine : job[id] = "completed" /\ Sound(id),
         pc' = "usage" /\ twist = "none" => usage' = {id \in Listed : Rank(id, Listed) < cursor'},
         pc' = "final" => usage' = Mine
  PROVE  ClientInv'
<1> USE DEF StepFacts, IInv, ClientInv
<1>1. RowsOK' /\ grants' = {1} /\ Mine' = Mine
  BY AcceptedRows DEF Accepted, Judged
<1>2. MemoryOK'
  BY <1>1 DEF MemoryOK, Before, Accepted, Judged, Steps
<1>3. WaitOK'
  BY DEF WaitOK, Judged
<1>4. Listed' = Listed
  BY DEF gwVars, Listed, InState
<1>5. AuditOK'
  BY <1>1, <1>4 DEF AuditOK, gwVars, Rank, Sound
<1> QED
  BY <1>1, <1>2, <1>3, <1>5

LEMMA RankType ==
  ASSUME NEW S \in SUBSET JobIds, NEW id \in S
  PROVE  Rank(id, S) \in Nat /\ Rank(id, S) < Cardinality(S)
<1> DEFINE B == {x \in S : x < id}
<1>1. IsFiniteSet(S) /\ B \subseteq S
  BY JobsFinite
<1>2. id \notin B
  BY DEF JobIds
<1>3. Cardinality(B) < Cardinality(S) /\ Cardinality(B) \in Nat
  BY <1>1, <1>2, FS_Subset, FS_CardinalityType
<1> QED
  BY <1>3 DEF Rank

LEMMA JudgeStep ==
  ASSUME StepFacts, Judge
  PROVE  ClientInv' /\ RefusalIsHonest'
<1> USE DEF StepFacts, IInv, ClientInv
<1>1. pc = "judge" /\ UNCHANGED <<gwVars, row, ids, cursor, usage>>
  BY DEF Judge, requests, memory
<1>2. Mine \subseteq Ended /\ Mine \subseteq JobIds
  <2>1. pending = {} /\ \A i \in Indices : ids[i] \in Ended
    BY <1>1 DEF WaitOK
  <2> QED
    BY <2>1 DEF Mine, Ended, InState
<1>3. cursor = 0 /\ usage = {}
  BY <1>1 DEF MemoryOK, Judged, Steps
<1>4. CASE ~(Mine \subseteq InState("completed"))
  <2>1. pc' = "failed" /\ why' = "notall"
    BY <1>4 DEF Judge, Fail
  <2>2. InState("failed") # {}
    BY <1>2, <1>4 DEF Ended
  <2>3. RefusalIsHonest'
    BY <1>1, <2>1, <2>2 DEF RefusalIsHonest, gwVars, InState
  <2> QED
    BY <2>1, <2>3, FailKept
<1>5. CASE Mine \subseteq InState("completed") /\ \A id \in Mine : Sound(id)
  <2>1. pc' = "usage"
    BY <1>5 DEF Judge, Check, Goto
  <2>2. usage' = {id \in Listed : Rank(id, Listed) < cursor'}
    <3>1. Listed \subseteq JobIds
      BY DEF Listed, InState
    <3>2. \A id \in Listed : ~(Rank(id, Listed) < 0)
      BY <3>1, RankType
    <3> QED
      BY <1>1, <1>3, <3>2
  <2>3. \A id \in Mine : job[id] = "completed" /\ Sound(id)
    BY <1>5 DEF InState
  <2>4. ClientInv'
    BY <1>1, <2>1, <2>2, <2>3, AuditKept DEF Judged
  <2> QED
    BY <2>1, <2>4, NotRefused
<1>6. CASE Mine \subseteq InState("completed") /\ ~\A id \in Mine : Sound(id)
  <2>1. pc' = "failed"
    BY <1>6 DEF Judge, Check, Fail
  <2>2. twist # "none"
    BY <1>6 DEF GatewayInv, BooksOK, InState, Sound
  <2> QED
    BY <1>1, <2>1, <2>2, FailKept DEF RefusalIsHonest, gwVars
<1> QED
  BY <1>4, <1>5, <1>6

\* With an honest gateway the walk meets each job once, and all when it ends.
LEMMA WalkStep ==
  ASSUME StepFacts, WalkUsage
  PROVE  ClientInv' /\ RefusalIsHonest'
<1> USE DEF StepFacts, IInv, ClientInv
<1> DEFINE page == UsagePage(cursor, PageSize)
           last == cursor + PageSize >= Cardinality(Listed)
<1>0. ClientTypeOK
  BY DEF TypeOK, ClientTypeOK
<1>1. \/ Missed
      \/ /\ UNCHANGED <<gwVars, row, ids>>
         /\ IF page \cap usage # {} THEN Fail("twice")
            ELSE IF ~last THEN Goto("usage")
            ELSE Check(usage \cup page = Mine, "final", "walk")
         /\ usage' = usage \cup page
         /\ cursor' = cursor + PageSize
  BY <1>0, MissedAttempt DEF WalkUsage, Get, Undelivered
<1>2. pc = "usage"
  BY DEF WalkUsage
<1>3. /\ \A id \in Mine : job[id] = "completed" /\ Sound(id)
      /\ twist = "none" => usage = {id \in Listed : Rank(id, Listed) < cursor}
  BY <1>2 DEF AuditOK, Judged
<1>4. Listed \in SUBSET JobIds /\ cursor \in Nat /\ PageSize \in Nat \ {0}
  BY CanaryAssumption DEF Listed, InState, TypeOK
<1>5. page = {id \in Listed : Rank(id, Listed) \in cursor .. cursor + PageSize - 1}
  BY DEF UsagePage, Rank
<1>6. \A id \in Listed : Rank(id, Listed) \in Nat /\ Rank(id, Listed) < Cardinality(Listed)
  BY <1>4, RankType
<1> HIDE DEF page
<1>7. twist = "none" => /\ page \cap usage = {}
                        /\ usage \cup page = {id \in Listed : Rank(id, Listed) < cursor + PageSize}
  <2>1. \A r \in Nat : ~(r \in cursor .. cursor + PageSize - 1 /\ r < cursor)
    BY <1>4
  <2>2. \A r \in Nat : r < cursor + PageSize <=> (r < cursor \/ r \in cursor .. cursor + PageSize - 1)
    BY <1>4
  <2> QED
    BY <1>3, <1>5, <1>6, <2>1, <2>2
<1>8. twist = "none" /\ last => usage \cup page = Mine
  <2>1. \A r, c \in Nat : r < c /\ cursor + PageSize >= c => r < cursor + PageSize
    BY <1>4
  <2>2. Cardinality(Listed) \in Nat
    BY <1>4, JobsFinite
  <2>3. twist = "none" => Listed = Mine
    BY <1>2, HonestListed DEF GatewayInv, Judged
  <2> QED
    BY <1>6, <1>7, <2>1, <2>2, <2>3
<1> HIDE DEF last
<1>9. ASSUME UNCHANGED <<gwVars, row, ids>>, usage' = usage \cup page, cursor' = cursor + PageSize,
             pc' = "usage" \/ (pc' = "final" /\ usage \cup page = Mine)
      PROVE  ClientInv' /\ RefusalIsHonest'
  <2>1. ClientInv'
    BY <1>2, <1>3, <1>7, <1>9, AuditKept DEF Judged
  <2> QED
    BY <1>9, <2>1, NotRefused
<1>10. ASSUME UNCHANGED <<gwVars, row, ids>>, pc' = "failed", twist # "none"
       PROVE  ClientInv' /\ RefusalIsHonest'
  BY <1>10, FailKept DEF RefusalIsHonest, gwVars
<1> QED
  BY <1>1, <1>7, <1>8, <1>9, <1>10, MissedKept DEF Check, Goto, Fail

LEMMA MineBilled ==
  ASSUME TypeOK, \A id \in Mine : job[id] = "completed" /\ Sound(id),
         Mine \subseteq JobIds
  PROVE  TotalCharge = SumFunctionOnSet(bill, Mine)
<1> DEFINE c == [id \in JobIds |-> Charge(length[id])]
<1>1. \A id \in Mine : c[id] = bill[id]
  BY DEF Sound
<1>2. IsFiniteSet(Mine)
  BY JobsFinite
<1> HIDE DEF c
<1>3. SumFunctionOnSet(c, Mine) = SumFunctionOnSet(bill, Mine)
  BY <1>1, <1>2, SumSame
<1> QED
  BY <1>3 DEF TotalCharge, c

LEMMA FinalStep ==
  ASSUME StepFacts, FinalBalance
  PROVE  ClientInv' /\ RefusalIsHonest'
<1> USE DEF StepFacts, IInv, ClientInv
<1>0. ClientTypeOK
  BY DEF TypeOK, ClientTypeOK
<1>1. \/ Missed
      \/ /\ UNCHANGED <<gwVars, row, ids>>
         /\ Check(Balance = <<Granted, 0, TotalCharge>> /\ Granted = Credits, "result", "spent")
  BY <1>0, MissedAttempt DEF FinalBalance, Get, Undelivered, Quiet, memory
<1>2. pc = "final"
  BY DEF FinalBalance
<1>3. \A id \in Mine : job[id] = "completed" /\ Sound(id)
  BY <1>2 DEF AuditOK, Judged
<1>4. ASSUME UNCHANGED <<gwVars, row, ids>>, pc' = "result"
      PROVE  ClientInv' /\ RefusalIsHonest'
  <2>1. ClientInv'
    BY <1>2, <1>3, <1>4, AuditKept DEF Judged
  <2> QED
    BY <1>4, <2>1, NotRefused
<1>5. twist = "none" => Balance = <<Granted, 0, TotalCharge>> /\ Granted = Credits
  <2> HAVE twist = "none"
  <2>1. Mine = Known /\ InState("completed") = Mine
    BY <1>2, HonestMine, HonestListed DEF GatewayInv, Accepted, Judged
  <2>2. Reserved = 0
    <3>1. InState("queued") = {}
      BY <2>1 DEF InState, Known
    <3>2. Hold * 0 = 0
      BY Prices
    <3> QED
      BY <3>1, <3>2, FS_EmptySet DEF Reserved
  <2>3. TotalCharge = SumFunctionOnSet(bill, Mine)
    BY <1>3, <2>1, MineBilled DEF Known
  <2>4. spent = TotalCharge
    <3>1. SumFunctionOnSet(bill, Mine) \in Nat
      <4>1. IsFiniteSet(Mine) /\ \A id \in Mine : bill[id] \in Nat
        BY <2>1, JobsFinite DEF Known, TypeOK, GatewayTypeOK
      <4> QED
        BY <4>1, SumType
    <3> QED
      BY <2>1, <2>3, <3>1 DEF GatewayInv, BooksOK
  <2>5. Granted = Credits
    BY <1>2, OneGrant DEF GatewayInv, MemoryOK, Accepted
  <2> QED
    BY <2>2, <2>4, <2>5 DEF Balance
<1>6. ASSUME UNCHANGED gwVars, pc' = "failed", twist # "none"
      PROVE  ClientInv' /\ RefusalIsHonest'
  BY <1>6, FailKept DEF RefusalIsHonest, gwVars
<1> QED
  BY <1>1, <1>4, <1>5, <1>6, MissedKept DEF Check, Goto, Fail

LEMMA OtherSteps ==
  ASSUME StepFacts,
         \/ WriteResult \/ WritePointer \/ DeadlinePasses \/ Crash \/ Rerun \/ AtGateway
         \/ UNCHANGED vars
  PROVE  ClientInv' /\ RefusalIsHonest'
<1>1. CASE WriteResult
  <2>1. /\ pc = "result" /\ pc' = "pointer" /\ UNCHANGED <<gwVars, row, ids>>
    BY <1>1 DEF WriteResult, Goto, requests, memory
  <2>2. \A id \in Mine : job[id] = "completed" /\ Sound(id)
    BY <2>1 DEF StepFacts, IInv, ClientInv, AuditOK, Judged
  <2>3. ClientInv'
    BY <2>1, <2>2, AuditKept DEF Judged
  <2> QED
    BY <2>1, <2>3, NotRefused
<1>2. CASE Rerun
  <2>1. pc' = "org" /\ row' = AllTodo /\ ids' = NoIds /\ cursor' = 0 /\ usage' = {}
    BY <1>2 DEF Rerun
  <2>2. ClientInv'
    BY <2>1 DEF ClientInv, MemoryOK, RowsOK, WaitOK, AuditOK, Before, Accepted, Judged, NoIds, AllTodo
  <2> QED
    BY <2>1, <2>2, NotRefused
<1>3. CASE WritePointer \/ Crash
  <2>1. pc' \in Ends /\ pc' # "failed" /\ UNCHANGED <<row, ids, pending, seen, cursor, usage>>
    BY <1>3 DEF WritePointer, Crash, Goto, Ends, requests, memory
  <2> QED
    BY <2>1, StayKept, NotRefused
<1>4. CASE DeadlinePasses \/ AtGateway \/ UNCHANGED vars
  <2>1. UNCHANGED <<pc, why, row, ids, pending, seen, cursor, usage>>
    BY <1>4 DEF DeadlinePasses, AtGateway, vars, requests, memory
  <2> QED
    BY <2>1, StayKept, NotRefused
<1> QED
  BY <1>1, <1>2, <1>3, <1>4

----------------------------------------------------------------------------
(* The theorems.                                                           *)

LEMMA InitInv ==
  ASSUME Init
  PROVE  IInv
<1> USE DEF Init, GatewayInit
<1>1. MaxRuns >= 1 /\ 0 \in 0 .. MaxTries - 1 /\ 0 \in 0 .. MaxFaults /\ 0 \in 0 .. Drifted
  BY GatewayAssumption, CanaryAssumption DEF Drifted
<1>2. 1 \in 1 .. MaxRuns /\ 0 \in 0 .. MaxRuns
  BY <1>1, GatewayAssumption
<1>3. GatewayTypeOK
  BY <1>1 DEF GatewayTypeOK
<1>4. TypeOK
  BY <1>1, <1>2, <1>3 DEF TypeOK, Steps, Reasons, AllTodo, NoTries, NoIds
<1>5. LateOK /\ KnownOK
  BY JobIdFacts DEF LateOK, KnownOK
<1>6. BooksOK
  <2>1. InState("completed") = {}
    BY DEF InState
  <2>2. SumFunctionOnSet(bill, InState("completed")) = 0
    BY <2>1, SumEmpty
  <2>3. \A id \in JobIds : job[id] # "completed"
    OBVIOUS
  <2> QED
    BY <2>2, <2>3 DEF BooksOK
<1>7. ClientInv
  BY DEF ClientInv, MemoryOK, RowsOK, WaitOK, AuditOK, Before, Accepted, Judged, NoIds
<1> QED
  BY <1>3, <1>4, <1>5, <1>6, <1>7 DEF IInv, GatewayInv, RefusalIsHonest

LEMMA NextInv ==
  ASSUME IInv, [Next]_vars
  PROVE  IInv'
<1>1. GatewayInv' /\ Grows
  BY GatewayKept DEF IInv
<1>2. TypeOK'
  BY <1>1, ClientType DEF IInv, TypeOK, ClientTypeOK, GatewayInv
<1>3. StepFacts
  BY <1>1, <1>2 DEF StepFacts
<1>4. ClientInv' /\ RefusalIsHonest'
  BY <1>3, BeforeSteps, SubmitStep, EndSubmitStep, RecordStep, AfterAcceptStep, BalanceStep,
     ReplayStep, CompareStep, GuardStep, PollStep, RoundStep, JudgeStep, WalkStep, FinalStep,
     OtherSteps DEF Next, ClientNext
<1> QED
  BY <1>1, <1>2, <1>4 DEF IInv

LEMMA SpecInv == Spec => []IInv
BY InitInv, NextInv, PTL DEF Spec

\* The type of the gateway and of the client.
THEOREM CanaryTypeCorrect == Spec => []TypeOK
BY SpecInv, PTL DEF IInv

\* A row has one job and the organization one grant, over all attempts, late deliveries,
\* crashes and invocations, as long as the gateway keeps its promises.
THEOREM ChargeIsOne == Spec => []ChargedOnce
<1>1. IInv => ChargedOnce
  <2> SUFFICES ASSUME IInv, twist = "none"
               PROVE  (\A id \in Known : id % 2 = 1) /\ Cardinality(grants) <= 1
    BY DEF ChargedOnce
  <2>1. Known \subseteq {JobOf(i, 1) : i \in Indices}
    BY HonestKnown DEF IInv, GatewayInv
  <2>2. \A i \in Indices : JobOf(i, 1) % 2 = 1
    BY GatewayAssumption DEF JobOf, Indices
  <2>3. grants = {} \/ grants = {1}
    BY DEF IInv, GatewayInv, KnownOK
  <2>4. Cardinality({}) = 0 /\ Cardinality({1}) = 1
    BY FS_EmptySet, FS_Singleton
  <2> QED
    BY <2>1, <2>2, <2>3, <2>4
<1> QED
  BY <1>1, SpecInv, PTL

\* A gateway that keeps its promises is accused only of what can be seen.
THEOREM RefusalCorrect == Spec => []RefusalIsHonest
BY SpecInv, PTL DEF IInv

\* At the final balance: nothing is held, what was taken is the bills of the invocation's
\* jobs, so there are no others.
LEMMA FinalMeansExact ==
  ASSUME IInv, pc = "final", Balance = <<Granted, 0, TotalCharge>>
  PROVE  LedgerIsExact /\ usage = InState("completed")
<1> USE DEF IInv, ClientInv
<1>1. /\ \A id \in Mine : job[id] = "completed" /\ Sound(id)
      /\ usage = Mine
  BY DEF AuditOK, Judged
<1>2. \A i \in Indices : ids[i] \in Own(i) /\ ids[i] \in JobIds
  BY JobIdFacts DEF RowsOK, Accepted, Own
<1>3. InState("queued") = {}
  <2>1. Cardinality(InState("queued")) \in Nat /\ IsFiniteSet(InState("queued"))
    BY JobsFinite
  <2>2. Hold * Cardinality(InState("queued")) = 0
    BY DEF Balance, Reserved
  <2>3. Cardinality(InState("queued")) = 0
    BY <2>1, <2>2, Prices
  <2> QED
    BY <2>1, <2>3, FS_EmptySet
<1> DEFINE C == InState("completed")
<1>4. Mine \subseteq C /\ C \subseteq JobIds /\ IsFiniteSet(C)
  BY <1>1, <1>2, JobsFinite DEF Mine, InState
<1>5. \A id \in C : bill[id] \in Nat \ {0} /\ bill[id] >= Charge(length[id])
  <2>1. \A id \in C : length[id] \in Nat /\ bill[id] \in Nat
    BY <1>4 DEF TypeOK, GatewayTypeOK
  <2>2. \A id \in C : bill[id] >= Charge(length[id])
    BY DEF GatewayInv, BooksOK, InState
  <2>3. \A id \in C : Charge(length[id]) \in Nat \ {0}
    BY <2>1, Prices
  <2> QED
    BY <2>1, <2>2, <2>3
<1>6. spent = SumFunctionOnSet(bill, Mine)
  <2>1. spent = TotalCharge
    BY DEF Balance
  <2> QED
    BY <1>1, <1>4, <2>1, MineBilled
<1>7. spent = SumFunctionOnSet(bill, C) + (IF twist = "skim" THEN 1 ELSE 0)
  BY DEF GatewayInv, BooksOK
<1> HIDE DEF C
<1>8. SumFunctionOnSet(bill, C) \in Nat /\ SumFunctionOnSet(bill, Mine) \in Nat
  <2>1. IsFiniteSet(Mine)
    BY <1>4, FS_Subset
  <2> QED
    BY <1>4, <1>5, <2>1, SumType
<1>9. spent = SumFunctionOnSet(bill, C)
  <2>1. SumFunctionOnSet(bill, Mine) <= SumFunctionOnSet(bill, C)
    BY <1>4, <1>5, SumSubset
  <2> QED
    BY <1>6, <1>7, <1>8, <2>1
<1>10. C = Mine
  <2>1. ASSUME NEW y \in C \ Mine
        PROVE  FALSE
    <3>1. SumFunctionOnSet(bill, Mine) + bill[y] <= SumFunctionOnSet(bill, C)
      BY <1>4, <1>5, SumStrict
    <3> QED
      BY <1>5, <1>6, <1>8, <1>9, <3>1
  <2> QED
    BY <1>4, <2>1
<1>11. \A i \in Indices : Cardinality({JobOf(i, 1), JobOf(i, 2)} \cap C) = 1
  <2> TAKE i \in Indices
  <2>1. {JobOf(i, 1), JobOf(i, 2)} \cap C = {ids[i]}
    <3>1. \A k \in Indices : ids[k] \in Own(i) => k = i
      BY <1>2, JobIdFacts DEF Own
    <3> QED
      BY <1>2, <1>10, <3>1 DEF Own, Mine
  <2> QED
    BY <2>1, FS_Singleton
<1>12. Cardinality(grants) = 1
  BY FS_Singleton DEF MemoryOK, Accepted
<1>13. \A id \in C : Sound(id)
  BY <1>1, <1>10
<1> QED
  BY <1>1, <1>3, <1>9, <1>10, <1>11, <1>12, <1>13 DEF LedgerIsExact, C

\* An invocation gets past its final balance only when the ledger is exact, whatever promise
\* the gateway broke.
THEOREM PassCorrect == Spec => PassedMeansExact
<1>1. ASSUME IInv, [Next]_vars, pc = "final", pc' = "result"
      PROVE  LedgerIsExact /\ usage = InState("completed")
  <2>1. FinalBalance
    BY <1>1 DEF Next, ClientNext, Organize, TakeKey, PersistKey, BalanceBeforeGrant, TakeGrant,
                Funded, SubmitRow, EndSubmit, RecordIds, AfterAccept, BalanceBeforeReplay, Replay,
                CompareBalance, PollGuard, PollRow, EndRound, Judge, WalkUsage, WriteResult,
                WritePointer, DeadlinePasses, Crash, Rerun, AtGateway, Ends, vars
  <2>2. Balance = <<Granted, 0, TotalCharge>>
    BY <1>1, <2>1 DEF FinalBalance, Get, Check, Goto, Fail, TryAgain, Refused
  <2> QED
    BY <1>1, <2>2, FinalMeansExact
<1>2. IInv /\ [Next]_vars =>
        [pc = "final" /\ pc' = "result" => LedgerIsExact /\ usage = InState("completed")]_vars
  BY <1>1
<1> QED
  BY <1>2, SpecInv, PTL DEF Spec, PassedMeansExact

=============================================================================
