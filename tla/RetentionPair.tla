---------------------------- MODULE RetentionPair ----------------------------
(***************************************************************************)
(* The evidence of a retention pair: two arms, each a frozen batch on a    *)
(* fresh pod, whose provider charges are compared.                         *)
(*                                                                         *)
(* public_batch_profile_collect.py reads one record per job from the       *)
(* gateway while the accounting of the pod goes on, and seals a candidate  *)
(* or asks to be run again; retention_pair_receipt.py binds it to the      *)
(* session; retention_pair_compare.py gives the verdict.  The operator who *)
(* calls them is not in the repository: here he begins an arm when and     *)
(* with what policy he likes, runs the canary again on a batch that is     *)
(* complete, collects as often as he likes, and chooses the session, the   *)
(* prior and the snapshots well or badly; but he gives a receipt the       *)
(* deploy log of the arm it is for.                                        *)
(***************************************************************************)
EXTENDS Integers, FiniteSets, Sequences

CONSTANTS
  Jobs,        \* EXPECTED_JOBS: 300
  Pods,
  Policies,    \* what the operator may deploy an arm with
  Floor,       \* rate_clock_floor: the pod's lifetime at its create rate
  MaxCharge,   \* bound of what the provider may charge
  MaxSeals,    \* bound: snapshots sealed in one attempt
  MaxEpoch     \* bound: session epochs, and the epochs a control plane is created at

ASSUME PairAssumption ==
  /\ IsFiniteSet(Jobs) /\ Jobs # {}
  /\ IsFiniteSet(Pods)
  /\ "parity" \in Policies /\ Policies \subseteq {"parity", "aware"}
  /\ Floor \in Nat \ {0} /\ MaxCharge \in Nat /\ Floor <= MaxCharge
  /\ MaxSeals \in Nat /\ MaxEpoch \in Nat \ {0}

Arms == {"A", "B"}   \* an arm has one batch_run_id, its own

\* demand_quiet_cycles: 1000000, and 3.
Registered(a) == IF a = "A" THEN "parity" ELSE "aware"

VARIABLES
  clock,      \* moves when a pod is terminated
  acct,       \* acct[p]: the gateway's accounting of pod p
  phase,      \* phase[r]: of the arm's batch
  policy,     \* policy[r]: what the arm's control plane was deployed with
  launched,   \* launched[r]: the epoch its control plane was created at
  started,    \* started[r]: when the batch began
  attempts,   \* attempts[r][j]: the pods that served job j, in order
  collecting, \* the arm whose records are being read, or "none"
  observed,   \* the start that the batch_result it has read states
  got,        \* got[j]: the record read, or NoRecord
  sealed,     \* the profile candidates, in the order of their snapshots
  receipts,   \* receipts[a]: arm_receipt.json of arm a, or NoReceipt
  verdict     \* the verdict, or NoVerdict

worldVars == <<clock, acct, phase, policy, launched, started, attempts>>
evidenceVars == <<collecting, observed, got, sealed, receipts, verdict>>
pairVars == <<worldVars, evidenceVars>>

NoRecord == [pods |-> <<>>, acct |-> <<>>]
NoReceipt == [snapshot |-> 0]
NoVerdict == [a |-> 0]

Stages == {"new", "serving", "terminated", "charged", "settled"}
Account == [stage : Stages, charge : 0 .. MaxCharge, ended : Nat]

\* The prior candidate that was there before the campaign: a chain of one boot sample.
OldCandidate == [run |-> "old", sources |-> {"old"}, samples |-> 1]
Candidates == {OldCandidate} \cup {sealed[k] : k \in 1 .. Len(sealed)}
NoPrior == [run |-> "none", sources |-> {}, samples |-> 0]

\* Who served a job: nobody yet, one pod, or one after another.
Histories == {<<>>} \cup {<<p>> : p \in Pods} \cup {<<p, q>> : p, q \in Pods}

PairTypeOK ==
  /\ clock \in Nat
  /\ acct \in [Pods -> Account]
  /\ phase \in [Arms -> {"none", "running", "done"}]
  /\ policy \in [Arms -> Policies]
  /\ launched \in [Arms -> 1 .. MaxEpoch]
  /\ started \in [Arms -> Nat]
  /\ \A r \in Arms : attempts[r] \in [Jobs -> Histories]
  /\ collecting \in Arms \cup {"none"} /\ observed \in Nat
  /\ \A j \in Jobs : got[j] = NoRecord \/ got[j].acct \in Account
  /\ Len(sealed) <= MaxSeals
  /\ \A k \in 1 .. Len(sealed) : sealed[k].run \in Arms /\ sealed[k].charge \in 1 .. MaxCharge
  /\ \A a \in Arms : receipts[a].snapshot \in 0 .. Len(sealed)
  /\ verdict.a \in 0 .. Len(sealed)

\* A fresh attempt root: neither arm has been deployed, and there is no evidence.
NewPods == [p \in Pods |-> [stage |-> "new", charge |-> 0, ended |-> 0]]
Unserved == [r \in Arms |-> [j \in Jobs |-> <<>>]]
NoRecords == [j \in Jobs |-> NoRecord]

PairInit ==
  /\ clock = 0 /\ acct = NewPods
  /\ phase = [r \in Arms |-> "none"] /\ policy = [r \in Arms |-> "parity"]
  /\ launched = [r \in Arms |-> 1] /\ started = [r \in Arms |-> 0] /\ attempts = Unserved
  /\ collecting = "none" /\ observed = 0 /\ got = NoRecords /\ sealed = <<>>
  /\ receipts = [a \in Arms |-> NoReceipt] /\ verdict = NoVerdict

----------------------------------------------------------------------------
(* The provider, the gateway and the batches.                              *)

\* An arm's control plane is deployed, and its batch begins: B's after A's, as soon as A's
\* batch is complete and however far A's pod has come.
BatchStarts(r) ==
  /\ phase[r] = "none"
  /\ r = "B" => phase["A"] = "done"
  /\ phase' = [phase EXCEPT ![r] = "running"]
  /\ \E q \in Policies : policy' = [policy EXCEPT ![r] = q]
  /\ \E e \in (IF r = "A" THEN 1 ELSE launched["A"]) .. MaxEpoch :
       launched' = [launched EXCEPT ![r] = e]
  /\ started' = [started EXCEPT ![r] = clock]
  /\ UNCHANGED <<clock, acct, attempts, evidenceVars>>

\* The canary has completed: on one pod, or with one job that another pod served or began.
BatchEnds(r) ==
  /\ phase[r] = "running"
  /\ phase' = [phase EXCEPT ![r] = "done"]
  /\ \E p, q \in {x \in Pods : acct[x].stage \in {"new", "serving"}} :
       \E odd \in {<<p>>, <<q>>, <<q, p>>} :
         LET job == CHOOSE j \in Jobs : TRUE
         IN  /\ odd = <<q, p>> => p # q
             /\ attempts' = [attempts EXCEPT ![r] =
                               [j \in Jobs |-> IF j = job THEN odd ELSE <<p>>]]
             /\ acct' = [x \in Pods |-> IF x = p \/ x = odd[1]
                                          THEN [acct[x] EXCEPT !.stage = "serving"]
                                          ELSE acct[x]]
  /\ UNCHANGED <<clock, policy, launched, started, evidenceVars>>

\* timestamps_micros.started of the latest observation: each invocation of the canary states when
\* it began itself.  The one that completed the batch need not be the one that began it, and on
\* a complete batch the canary may be run again, with every submission a replay.
Stated(r) == started[r] .. clock

NextStage(s) ==
  CASE s = "serving" -> "terminated"
    [] s = "terminated" -> "charged"
    [] s = "charged" -> "settled"

\* The accounting of a pod moves on, and its provider bucket may go on accruing.
Accounts(p) ==
  /\ \/ /\ acct[p].stage \in {"serving", "terminated", "charged"}
        /\ LET s == NextStage(acct[p].stage)
           IN  /\ \E c \in IF s = "charged" THEN 0 .. MaxCharge ELSE {acct[p].charge} :
                    acct' = [acct EXCEPT ![p] =
                               [stage |-> s, charge |-> c,
                                ended |-> IF s = "terminated" THEN clock + 1 ELSE @.ended]]
               /\ clock' = IF s = "terminated" THEN clock + 1 ELSE clock
     \/ /\ acct[p].stage \in {"charged", "settled"} /\ acct[p].charge < MaxCharge
        /\ acct' = [acct EXCEPT ![p].charge = @ + 1]
        /\ UNCHANGED clock
  /\ UNCHANGED <<phase, policy, launched, started, attempts, evidenceVars>>

----------------------------------------------------------------------------
(* public_batch_profile_collect.py.                                        *)

ServedBy(record) == record.pods[Len(record.pods)]

\* The collector starts on a run with run.json, job_ids.json and the result.json of the latest
\* observation, which it reads before any record.
CollectStarts(r) == collecting = "none" /\ phase[r] = "done" /\ Len(sealed) < MaxSeals

\* GET /admin/jobs/<id>/profile-evidence, for each job once, in any order.
Fetch(r, j) ==
  /\ collecting = r \/ CollectStarts(r)
  /\ collecting' = r
  /\ observed' \in IF collecting = "none" THEN Stated(r) ELSE {observed}
  /\ got[j] = NoRecord
  /\ LET served == attempts[r][j]
     IN  got' = [got EXCEPT ![j] = [pods |-> served, acct |-> acct[served[Len(served)]]]]
  /\ UNCHANGED <<worldVars, sealed, receipts, verdict>>

Collected == collecting # "none" /\ \A j \in Jobs : got[j] # NoRecord

\* The records, in the order of job_ids; the first speaks for all.
First == got[CHOOSE j \in Jobs : TRUE]

Accounted == \A j \in Jobs : got[j].acct.stage \in {"charged", "settled"}

\* A variant: the records are not compared.
SameUnseen == TRUE

\* same(), for every pod-wide field: pod, lifecycle and charge.
Same == \A j \in Jobs : ServedBy(got[j]) = ServedBy(First) /\ got[j].acct = First.acct

OneAttempt == \A j \in Jobs : Len(got[j].pods) = 1

\* Two reasons to exit 2: facts are missing, or the provider's bucket is still accruing.
Complete == First.acct.stage = "settled"

\* A variant: a bucket that has not begun to accrue is taken for the charge.
AccruedAnyhow == First.acct.charge >= 0
Accrued == First.acct.charge >= Floor

\* A prior of this run, or one whose chain has it, would count a boot sample twice.
Chains(prior) == prior.run # collecting /\ collecting \notin prior.sources

\* The run's own boot sample, then the prior's.
Seal(prior) ==
  /\ sealed' = Append(sealed,
       [run |-> collecting, pod |-> ServedBy(First), charge |-> First.acct.charge,
        ended |-> First.acct.ended, began |-> observed, sources |-> {collecting} \cup prior.sources,
        samples |-> 1 + prior.samples,
        chained |-> prior # NoPrior])

\* Sealed, pending or refused: either way the collector ends, and may be run again.
Examine ==
  /\ Collected
  /\ \E prior \in Candidates \cup {NoPrior} :
       IF Accounted /\ Same /\ Complete /\ OneAttempt /\ Accrued /\ Chains(prior)
         THEN Seal(prior)
         ELSE UNCHANGED sealed
  /\ collecting' = "none" /\ observed' = 0
  /\ got' = NoRecords
  /\ UNCHANGED <<worldVars, receipts, verdict>>

----------------------------------------------------------------------------
(* retention_pair_receipt.py and retention_pair_compare.py.                *)

\* The deploy log has the policy and the creation of the control plane, which must not be
\* older than the session the operator names; B names a prior candidate, A none.
Receipt(a, k) ==
  LET r == sealed[k].run
  IN  /\ \E e \in 1 .. launched[r], c \in 0 .. Len(sealed) :
           /\ a = "A" <=> c = 0
           /\ receipts' = [receipts EXCEPT ![a] =
                [snapshot |-> k, policy |-> policy[r], session |-> e, prior |-> c]]
      /\ UNCHANGED <<worldVars, collecting, observed, got, sealed, verdict>>

\* A receipt beside a snapshot of the run it was given for.
ArmComplete(a, k) == receipts[a] # NoReceipt /\ sealed[receipts[a].snapshot].run = sealed[k].run

\* A variant: the arms may overlap.
SequentialAnyhow(a, b) == sealed[a].pod # sealed[b].pod

\* By its batch_result arm B began after arm A's pod was gone, and on another pod.
Sequential(a, b) ==
  /\ sealed[a].pod # sealed[b].pod
  /\ sealed[a].ended <= sealed[b].began

\* B's candidate has a prior and both runs' boot samples; B's receipt binds A's candidate.
Chained(a, b) ==
  /\ sealed[b].chained
  /\ sealed[receipts["B"].prior] = sealed[a]
  /\ {sealed[a].run, sealed[b].run} \subseteq sealed[b].sources

\* With one workload the ratio of the costs per token is the ratio of the charges.
Validated(a, b) == 10 * sealed[b].charge <= 9 * sealed[a].charge

Compare(a, b) ==
  /\ ArmComplete("A", a) /\ ArmComplete("B", b)
  /\ \A x \in Arms : receipts[x].policy = Registered(x)
  /\ receipts["A"].session = receipts["B"].session
  /\ Sequential(a, b)
  /\ Chained(a, b)
  /\ verdict' = [a |-> a, b |-> b, session |-> receipts["A"].session,
                 validated |-> Validated(a, b)]
  /\ UNCHANGED <<worldVars, collecting, observed, got, sealed, receipts>>

----------------------------------------------------------------------------
\* The three programs are followed up to the first verdict, a bound.
Evidence ==
  /\ verdict = NoVerdict
  /\ \/ \E r \in Arms, j \in Jobs : Fetch(r, j)
     \/ Examine
     \/ \E a \in Arms, k \in 1 .. Len(sealed) : Receipt(a, k)
     \/ \E a, b \in 1 .. Len(sealed) : Compare(a, b)

Batches == \E r \in Arms : BatchStarts(r) \/ BatchEnds(r)

\* What goes on without the operator.
World == \E p \in Pods : Accounts(p)

PairNext == Batches \/ Evidence \/ World

PairSpec == PairInit /\ [][PairNext]_pairVars

----------------------------------------------------------------------------
(* What the evidence promises.                                             *)

\* A sealed candidate states a charge the provider did book to the pod, once the pod was gone
\* and its clock covered, for tokens that pod alone has served; and it counts no boot sample
\* twice, its own included.
CandidateIsSound ==
  \A k \in 1 .. Len(sealed) :
    LET c == sealed[k]
    IN  /\ acct[c.pod].stage = "settled"
        /\ Floor <= c.charge /\ c.charge <= acct[c.pod].charge
        /\ \A j \in Jobs : attempts[c.run][j] = <<c.pod>>
        /\ c.samples = Cardinality(c.sources)

\* A verdict is of two batches under the registered policies, each of which one pod alone has
\* served, and not the same; it counts from an invocation of B's canary that began with or after
\* B's batch, and when A's pod was gone; and neither control plane is older than the session.
VerdictIsEarned ==
  verdict # NoVerdict =>
    LET a == sealed[verdict.a]
        b == sealed[verdict.b]
    IN  /\ a.run # b.run /\ a.pod # b.pod
        /\ policy[a.run] = Registered("A") /\ policy[b.run] = Registered("B")
        /\ \A j \in Jobs : attempts[a.run][j] = <<a.pod>> /\ attempts[b.run][j] = <<b.pod>>
        /\ acct[a.pod].ended <= b.began /\ started[b.run] <= b.began
        /\ verdict.session <= launched[a.run] /\ verdict.session <= launched[b.run]

\* What retention_pair_compare.py says of itself: it reports no ratio of arms that overlap.  In a
\* verdict on the arms as they ran, B's batch began when A's pod was gone.
ArmsAreSequential ==
  verdict # NoVerdict /\ sealed[verdict.a].run = "A" =>
    acct[sealed[verdict.a].pod].ended <= started[sealed[verdict.b].run]
=============================================================================
