----------------------------- MODULE BatchGateway -----------------------------
(***************************************************************************)
(* The gateway's public API as a customer of one organization meets it.    *)
(* The gateway itself is not in the repository: what it promises is taken  *)
(* from the server the canary's regression runs against                    *)
(* (controlplane/ci/public_batch_canary_regression.py), and how a job ends *)
(* from the statuses the canary tells apart.                               *)
(*                                                                         *)
(* Twists are the ways a gateway may break its promise, once: "double"     *)
(* runs a repeated key as a new job, "alias" answers a new key with        *)
(* another key's job, "surcharge" bills a job too much, "skim" takes money *)
(* no job accounts for, "unlisted" leaves a job out of the usage ledger,   *)
(* "drift" answers what the frozen workload excludes: a completion over the*)
(* bound stands for it and for another prompt count, other prices, no      *)
(* reconciliation and an empty content.                                    *)
(***************************************************************************)
EXTENDS Integers, FiniteSets

CONSTANTS
  Rows,          \* N_JOBS: 300
  Credits,       \* CREDITS: 2000000
  PromptTokens,  \* EXPECTED_PROMPT_TOKENS: 3960
  Context,       \* CONTEXT_TOKENS: 8192
  MaxCompletion, \* MAX_COMPLETION_TOKENS: 64
  InputPrice,    \* 100000 micro-dollars per million tokens
  OutputPrice,   \* 400000
  PerMillion,    \* 1000000
  Completions,   \* the completion lengths a job may have
  Twists,
  MaxRuns        \* bound: invocations of the canary under one BATCH_RUN_ID

ASSUME GatewayAssumption ==
  /\ Rows \in Nat \ {0}
  /\ {Credits, PromptTokens, InputPrice, PerMillion} \subseteq Nat \ {0}
  /\ {Context, MaxCompletion, OutputPrice} \subseteq Nat
  /\ PromptTokens <= Context
  /\ Completions \subseteq 0 .. MaxCompletion
  /\ MaxRuns \in Nat \ {0}

Indices == 1 .. Rows
\* Row i has job 2i-1; 2i is the job a second key of the row, or a double, would make.
JobIds == 1 .. 2 * Rows
JobOf(i, g) == 2 * i - 2 + g

\* The length that stands for an answer the workload excludes.
Drifted == MaxCompletion + 1

CeilPrice(tokens, rate) == (tokens * rate + PerMillion - 1) \div PerMillion

Charge(completion) == CeilPrice(PromptTokens, InputPrice) + CeilPrice(completion, OutputPrice)

\* What a job holds until it ends: EXPECTED_HOLD_PER_JOB, 846.
Hold == CeilPrice(Context, InputPrice) + CeilPrice(MaxCompletion, OutputPrice)

VARIABLES
  keys,    \* customer keys issued
  grants,  \* ids of the credit grants
  job,     \* job[id]: its status
  length,  \* length[id]: completion tokens of a completed job
  bill,    \* bill[id]: the total its charge states
  spent,   \* the ledger's total
  late,    \* posts that were given up by their sender and not yet delivered
  twist    \* the promise the gateway has broken

gwVars == <<keys, grants, job, length, bill, spent, late, twist>>

GatewayTypeOK ==
  /\ keys \in Nat
  /\ grants \subseteq 1 .. MaxRuns
  /\ job \in [JobIds -> {"none", "queued", "completed", "failed"}]
  /\ length \in [JobIds -> 0 .. Drifted]
  /\ bill \in [JobIds -> Nat]
  /\ spent \in Nat
  /\ late \subseteq ({"key"} \X {1}) \cup ({"grant"} \X (1 .. MaxRuns)) \cup ({"job"} \X JobIds)
  /\ twist \in {"none"} \cup Twists

GatewayInit ==
  /\ keys = 0
  /\ grants = {}
  /\ job = [id \in JobIds |-> "none"]
  /\ length = [id \in JobIds |-> 0]
  /\ bill = [id \in JobIds |-> 0]
  /\ spent = 0
  /\ late = {}
  /\ twist = "none"

Known == {id \in JobIds : job[id] # "none"}
InState(s) == {id \in JobIds : job[id] = s}
Ended == InState("completed") \cup InState("failed")

Reserved == Hold * Cardinality(InState("queued"))
Granted == Credits * Cardinality(grants)
Balance == <<Granted, Reserved, spent>>

\* The usage ledger: the completed jobs, in the order of their ids.
Listed == InState("completed") \ (IF twist = "unlisted" THEN {1} ELSE {})
UsagePage(start, size) ==
  {id \in Listed : Cardinality({x \in Listed : x < id}) \in start .. start + size - 1}

Twisted(t) == twist = "none" /\ t \in Twists /\ twist' = t

IssueKey == keys' = keys + 1 /\ UNCHANGED <<grants, job, length, bill, spent, twist>>

\* A grant is known by its id.
Grant(g) == grants' = grants \cup {g} /\ UNCHANGED <<keys, job, length, bill, spent, twist>>

\* A job is known by its key: id is what a post under the key of job k answers.
Submit(k, id) ==
  /\ \/ /\ id = k
        /\ job' = [job EXCEPT ![k] = IF @ = "none" THEN "queued" ELSE @]
        /\ UNCHANGED twist
     \/ /\ k \in Known
        /\ id = k + 1
        /\ id \in JobIds \ Known
        /\ Twisted("double")
        /\ job' = [job EXCEPT ![id] = "queued"]
     \/ /\ k \notin Known
        /\ id \in Known
        /\ Twisted("alias")
        /\ UNCHANGED job
  /\ UNCHANGED <<keys, grants, length, bill, spent>>

\* A worker's attempt at a job ends.
JobCompletes(id) ==
  /\ job[id] = "queued"
  /\ job' = [job EXCEPT ![id] = "completed"]
  /\ \E c \in Completions \cup {Drifted} :
       /\ length' = [length EXCEPT ![id] = c]
       /\ \/ /\ bill' = [bill EXCEPT ![id] = Charge(c)]
             /\ spent' = spent + Charge(c)
             /\ IF c = Drifted THEN Twisted("drift") ELSE UNCHANGED twist
          \/ /\ c # Drifted
             /\ bill' = [bill EXCEPT ![id] = Charge(c) + 1]
             /\ spent' = spent + Charge(c) + 1
             /\ Twisted("surcharge")
          \/ /\ c # Drifted
             /\ bill' = [bill EXCEPT ![id] = Charge(c)]
             /\ spent' = spent + Charge(c) + 1
             /\ Twisted("skim")
  /\ UNCHANGED <<keys, grants, late>>

\* Status "failed" or "expired": the hold is released, nothing is charged.
JobFails(id) ==
  /\ job[id] = "queued"
  /\ job' = [job EXCEPT ![id] = "failed"]
  /\ UNCHANGED <<keys, grants, length, bill, spent, late, twist>>

LosesRow ==
  /\ Twisted("unlisted")
  /\ UNCHANGED <<keys, grants, job, length, bill, spent, late>>

LateArrives ==
  \E m \in late :
    /\ late' = late \ {m}
    /\ \/ m[1] = "key" /\ IssueKey
       \/ m[1] = "grant" /\ Grant(m[2])
       \/ m[1] = "job" /\ \E id \in JobIds : Submit(m[2], id)

GatewayNext ==
  \/ \E id \in JobIds : JobCompletes(id) \/ JobFails(id)
  \/ LosesRow
  \/ LateArrives

=============================================================================
