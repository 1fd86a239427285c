----------------------------- MODULE BatchCanary -----------------------------
(***************************************************************************)
(* The public batch canary (controlplane/ci/public_batch_canary.py): a     *)
(* customer of the gateway that submits a frozen workload, waits for it    *)
(* and audits the ledger.  Invocations with one BATCH_RUN_ID follow each   *)
(* other: an invocation may die at any step, and the next one finds its    *)
(* files and the gateway as it left them.                                  *)
(*                                                                         *)
(* A request is one step per attempt.  An attempt may be delivered and its *)
(* answer lost, not be delivered, be delivered after the client gave it    *)
(* up, or be refused with a status that is not tried again.                *)
(***************************************************************************)
EXTENDS BatchGateway, Functions

CONSTANTS
  MaxTries,   \* retries of Client.request: 4
  PageSize,   \* limit of a usage page: 200
  MaxFaults   \* bound: attempts that are lost, late or refused

ASSUME CanaryAssumption ==
  /\ MaxTries \in Nat \ {0}
  /\ PageSize \in Nat \ {0}
  /\ MaxFaults \in Nat

VARIABLES
  pc,       \* the next step of the invocation, or how it ended
  why,      \* what an invocation that failed states
  run,      \* which invocation this is
  fresh,    \* no run.json was there when it started
  tries,    \* attempts of the present request
  row,      \* row[i]: of the submit pool or of a poll round
  rowTries,
  ids,      \* ids[i]: the job id accepted for row i, 0 before
  pending,
  overdue,  \* poll_deadline has passed
  seen,     \* balance_before_replay
  cursor,   \* where the next usage page starts
  usage,    \* jobs the usage walk has met
  keyFile,  \* a customer key is persisted
  idsFile,  \* job_ids.json
  result,   \* result[r]: the job ids of result.json of invocation r
  pointer,  \* run.json: the invocation it names, 0 if there is none
  faults

requests == <<tries, row, rowTries>>
memory == <<ids, pending, overdue, seen, cursor, usage>>
disk == <<keyFile, idsFile, result, pointer>>
vars == <<gwVars, pc, why, run, fresh, requests, memory, disk, faults>>

Steps == {"org", "key", "persist", "before", "grant", "funded", "submit", "record", "accept",
          "balance", "replay", "compare", "guard", "poll", "judge", "usage", "final",
          "result", "pointer"}
Ends == {"complete", "failed", "dead"}
Reasons == {"none", "http", "foreign", "funding", "alias", "hold", "replay", "moved",
            "timeout", "notall", "charge", "twice", "walk", "spent"}
NoIds == [i \in Indices |-> 0]

TypeOK ==
  /\ GatewayTypeOK
  /\ pc \in Steps \cup Ends
  /\ why \in Reasons
  /\ run \in 1 .. MaxRuns
  /\ fresh \in BOOLEAN
  /\ tries \in 0 .. MaxTries - 1
  /\ row \in [Indices -> {"todo", "ok", "open", "err"}]
  /\ rowTries \in [Indices -> 0 .. MaxTries - 1]
  /\ ids \in [Indices -> {0} \cup JobIds]
  /\ pending \subseteq Indices
  /\ overdue \in BOOLEAN
  /\ seen \in Nat \X Nat \X Nat
  /\ cursor \in Nat
  /\ usage \subseteq JobIds
  /\ keyFile \in BOOLEAN
  /\ idsFile \in [Indices -> {0} \cup JobIds]
  /\ result \in [1 .. MaxRuns -> [Indices -> {0} \cup JobIds]]
  /\ pointer \in 0 .. MaxRuns
  /\ faults \in 0 .. MaxFaults

AllTodo == [i \in Indices |-> "todo"]
NoTries == [i \in Indices |-> 0]

Init ==
  /\ GatewayInit
  /\ pc = "org" /\ why = "none"
  /\ run = 1 /\ fresh = TRUE
  /\ tries = 0 /\ row = AllTodo /\ rowTries = NoTries
  /\ ids = NoIds /\ pending = {} /\ overdue = FALSE
  /\ seen = <<0, 0, 0>> /\ cursor = 0 /\ usage = {}
  /\ keyFile = FALSE
  /\ idsFile = NoIds
  /\ result = [r \in 1 .. MaxRuns |-> NoIds]
  /\ pointer = 0
  /\ faults = 0

----------------------------------------------------------------------------
(* A request of the main thread.                                           *)

Goto(p) == pc' = p /\ UNCHANGED why
Fail(w) == pc' = "failed" /\ why' = w
Check(test, p, w) == IF test THEN Goto(p) ELSE Fail(w)

Quiet == UNCHANGED <<memory, disk>>

\* A fault; what stays undelivered is message m, or is gone.
Undelivered(m) ==
  /\ faults < MaxFaults
  /\ faults' = faults + 1
  /\ UNCHANGED <<keys, grants, job, length, bill, spent, twist>>
  /\ late' \in {late, late \cup m}

Unanswered(commit) ==
  /\ faults < MaxFaults
  /\ faults' = faults + 1
  /\ commit /\ UNCHANGED late

\* A transport error, 408, 500 to 504, or an untyped 404 of a job route: tried again.
TryAgain ==
  /\ IF tries + 1 < MaxTries
     THEN tries' = tries + 1 /\ UNCHANGED <<pc, why>>
     ELSE tries' = 0 /\ Fail("http")
  /\ UNCHANGED <<row, rowTries, memory, disk>>

\* Any other status is raised at once.
Refused ==
  /\ faults < MaxFaults
  /\ faults' = faults + 1
  /\ tries' = 0
  /\ Fail("http")
  /\ UNCHANGED <<gwVars, row, rowTries, memory, disk>>

Post(m, commit, take) ==
  /\ \/ commit /\ take /\ tries' = 0 /\ UNCHANGED <<late, faults, row, rowTries>>
     \/ Unanswered(commit) /\ TryAgain
     \/ Undelivered({m}) /\ TryAgain
     \/ Refused
  /\ UNCHANGED <<run, fresh>>

Get(take) ==
  /\ \/ take /\ tries' = 0 /\ UNCHANGED <<gwVars, faults, row, rowTries>>
     \/ Undelivered({}) /\ TryAgain
     \/ Refused
  /\ UNCHANGED <<run, fresh>>

----------------------------------------------------------------------------
(* Organization, key and funds.                                            *)

\* 200 or 409; the file decides whether a key is issued.
Organize ==
  /\ pc = "org"
  /\ Get(Goto(IF keyFile THEN "before" ELSE "key") /\ Quiet)

TakeKey ==
  /\ pc = "key"
  /\ Post(<<"key", 1>>, IssueKey, Goto("persist") /\ Quiet)

PersistKey ==
  /\ pc = "persist"
  /\ keyFile' = TRUE
  /\ Goto("before")
  /\ UNCHANGED <<gwVars, run, fresh, requests, memory, idsFile, result, pointer, faults>>

\* A variant: only an organization without funds is accepted.
BalanceUngranted ==
  /\ pc = "before"
  /\ Get(Check(Granted = 0, "grant", "foreign") /\ Quiet)

BalanceBeforeGrant ==
  /\ pc = "before"
  /\ Get(Check(Granted \in {0, Credits}, "grant", "foreign") /\ Quiet)

\* grant_id: batch-grant-<run id>
GrantId(r) == 1

TakeGrant ==
  /\ pc = "grant"
  /\ Post(<<"grant", GrantId(run)>>, Grant(GrantId(run)), Goto("funded") /\ Quiet)

Funded ==
  /\ pc = "funded"
  /\ Get(Check(Granted = Credits, "submit", "funding") /\ Quiet)

----------------------------------------------------------------------------
(* The submission.  A failed request does not stop the others: the pool    *)
(* is left when all have ended.                                            *)

\* Idempotency-Key: batch-<run id>-<index>
KeyPerAttempt(i, attempt) == JobOf(i, IF attempt = 0 THEN 1 ELSE 2)
KeyOf(i, attempt) == JobOf(i, 1)

RowFails(i) ==
  /\ row' = [row EXCEPT ![i] = "err"]
  /\ UNCHANGED <<rowTries, memory>>

\* A variant: one attempt more.
RowTriesOnceMore(i) ==
  IF rowTries[i] + 1 <= MaxTries
  THEN rowTries' = [rowTries EXCEPT ![i] = @ + 1] /\ UNCHANGED <<row, memory>>
  ELSE RowFails(i)

RowTriesAgain(i) ==
  IF rowTries[i] + 1 < MaxTries
  THEN rowTries' = [rowTries EXCEPT ![i] = @ + 1] /\ UNCHANGED <<row, memory>>
  ELSE RowFails(i)

SubmitRow(i) ==
  LET k == KeyOf(i, rowTries[i])
  IN  /\ pc = "submit"
      /\ row[i] = "todo"
      /\ \/ \E id \in JobIds :
              /\ Submit(k, id)
              /\ ids' = [ids EXCEPT ![i] = id]
              /\ row' = [row EXCEPT ![i] = "ok"]
              /\ UNCHANGED <<late, faults, rowTries, pending, overdue, seen, cursor, usage>>
         \/ (\E id \in JobIds : Unanswered(Submit(k, id))) /\ RowTriesAgain(i)
         \/ Undelivered({<<"job", k>>}) /\ RowTriesAgain(i)
         \/ /\ faults < MaxFaults /\ faults' = faults + 1
            /\ RowFails(i) /\ UNCHANGED gwVars
      /\ UNCHANGED <<pc, why, run, fresh, tries, disk>>

Fresh == row' = AllTodo /\ rowTries' = NoTries

EndSubmit ==
  /\ pc = "submit"
  /\ \A i \in Indices : row[i] # "todo"
  /\ Fresh
  /\ IF \E i \in Indices : row[i] = "err" THEN Fail("http")
     ELSE Check(\A i, j \in Indices : ids[i] = ids[j] => i = j, "record", "alias")
  /\ UNCHANGED <<gwVars, run, fresh, tries, memory, disk, faults>>

RecordIds ==
  /\ pc = "record"
  /\ idsFile' = ids
  /\ Goto("accept")
  /\ UNCHANGED <<gwVars, run, fresh, requests, memory, keyFile, result, pointer, faults>>

\* Only the first invocation to come here with no run.json before it looks at the holds.
AfterAccept ==
  /\ pc = "accept"
  /\ Get(/\ Check(fresh => Balance = <<Credits, Hold * Rows, 0>>, "balance", "hold")
         /\ Quiet)

BalanceBeforeReplay ==
  /\ pc = "balance"
  /\ Get(/\ Goto("replay")
         /\ seen' = Balance
         /\ UNCHANGED <<ids, pending, overdue, cursor, usage, disk>>)

\* A retry of the replay bears the key of the first attempt, too.
Replay ==
  /\ pc = "replay"
  /\ \E id \in JobIds :
       Post(<<"job", KeyOf(1, tries)>>, Submit(KeyOf(1, tries), id),
            Check(id = ids[1], "compare", "replay") /\ Quiet)

\* Then "300/300 accepted; row-0 replay identical" is printed.
CompareBalance ==
  /\ pc = "compare"
  /\ Get(/\ Check(Balance = seen, "guard", "moved")
         /\ pending' = Indices
         /\ UNCHANGED <<ids, overdue, seen, cursor, usage, disk>>)

----------------------------------------------------------------------------
(* The wait.  A round polls every pending job, and is not cut short when   *)
(* the deadline passes in it.                                              *)

DeadlinePasses ==
  /\ pc \in {"guard", "poll"}
  /\ ~overdue
  /\ overdue' = TRUE
  /\ UNCHANGED <<gwVars, pc, why, run, fresh, requests, ids, pending, seen, cursor, usage,
                 disk, faults>>

\* A variant: the deadline is not looked at.
PollAnyhow ==
  /\ pc = "guard"
  /\ Goto("poll")
  /\ UNCHANGED <<gwVars, run, fresh, requests, memory, disk, faults>>

PollGuard ==
  /\ pc = "guard"
  /\ IF overdue THEN Fail("timeout") ELSE Goto("poll")
  /\ UNCHANGED <<gwVars, run, fresh, requests, memory, disk, faults>>

PollRow(i) ==
  /\ pc = "poll"
  /\ i \in pending /\ row[i] = "todo"
  /\ \/ /\ row' = [row EXCEPT ![i] = IF ids[i] \in Ended THEN "ok" ELSE "open"]
        /\ UNCHANGED <<gwVars, rowTries, memory, faults>>
     \/ Undelivered({}) /\ RowTriesAgain(i)
     \/ /\ faults < MaxFaults /\ faults' = faults + 1
        /\ RowFails(i) /\ UNCHANGED gwVars
  /\ UNCHANGED <<pc, why, run, fresh, tries, disk>>

EndRound ==
  /\ pc = "poll"
  /\ \A i \in pending : row[i] # "todo"
  /\ Fresh
  /\ pending' = {i \in pending : row[i] = "open"}
  /\ IF \E i \in pending : row[i] = "err" THEN Fail("http")
     ELSE Goto(IF pending' = {} THEN "judge" ELSE "guard")
  /\ UNCHANGED <<gwVars, run, fresh, tries, ids, overdue, seen, cursor, usage, disk, faults>>

----------------------------------------------------------------------------
(* The audit.                                                              *)

Mine == {ids[i] : i \in Indices}

\* An answer of the frozen workload, at the price of its tokens.
Sound(id) == length[id] <= MaxCompletion /\ bill[id] = Charge(length[id])

\* Every job completed, and every answer is sound.
Judge ==
  /\ pc = "judge"
  /\ IF ~(Mine \subseteq InState("completed")) THEN Fail("notall")
     ELSE Check(\A id \in Mine : Sound(id), "usage", "charge")
  /\ UNCHANGED <<gwVars, run, fresh, requests, memory, disk, faults>>

\* A variant: the walk ends at the first page.
WalkOnePage ==
  /\ pc = "usage"
  /\ Get(LET page == UsagePage(cursor, PageSize)
         IN  /\ Check(page \subseteq Mine, "final", "walk")
             /\ usage' = usage \cup page
             /\ cursor' = cursor + PageSize
             /\ UNCHANGED <<ids, pending, overdue, seen, disk>>)

\* A page of the usage ledger; the walk ends at a page with nothing after it.
WalkUsage ==
  /\ pc = "usage"
  /\ Get(LET page == UsagePage(cursor, PageSize)
             last == cursor + PageSize >= Cardinality(Listed)
         IN  /\ IF page \cap usage # {} THEN Fail("twice")
                ELSE IF ~last THEN Goto("usage")
                ELSE Check(usage \cup page = Mine, "final", "walk")
             /\ usage' = usage \cup page
             /\ cursor' = cursor + PageSize
             /\ UNCHANGED <<ids, pending, overdue, seen, disk>>)

TotalCharge == SumFunctionOnSet([id \in JobIds |-> Charge(length[id])], Mine)

FinalBalance ==
  /\ pc = "final"
  /\ Get(Check(Balance = <<Granted, 0, TotalCharge>> /\ Granted = Credits, "result", "spent")
         /\ Quiet)

\* result.json, the terminal results and the balances of this observation
WriteResult ==
  /\ pc = "result"
  /\ result' = [result EXCEPT ![run] = ids]
  /\ Goto("pointer")
  /\ UNCHANGED <<gwVars, run, fresh, requests, memory, keyFile, idsFile, pointer, faults>>

WritePointer ==
  /\ pc = "pointer"
  /\ pointer' = run
  /\ Goto("complete")
  /\ UNCHANGED <<gwVars, run, fresh, requests, memory, keyFile, idsFile, result, faults>>

----------------------------------------------------------------------------
Crash ==
  /\ pc \in Steps
  /\ pc' = "dead"
  /\ UNCHANGED <<gwVars, why, run, fresh, requests, memory, disk, faults>>

Rerun ==
  /\ pc \in Ends /\ run < MaxRuns
  /\ run' = run + 1
  /\ fresh' = (pointer = 0)
  /\ pc' = "org" /\ why' = "none"
  /\ tries' = 0 /\ row' = AllTodo /\ rowTries' = NoTries
  /\ ids' = NoIds /\ pending' = {} /\ overdue' = FALSE
  /\ seen' = <<0, 0, 0>> /\ cursor' = 0 /\ usage' = {}
  /\ UNCHANGED <<gwVars, disk, faults>>

ClientNext ==
  \/ Organize \/ TakeKey \/ PersistKey
  \/ BalanceBeforeGrant \/ TakeGrant \/ Funded
  \/ (\E i \in Indices : SubmitRow(i)) \/ EndSubmit \/ RecordIds
  \/ AfterAccept \/ BalanceBeforeReplay \/ Replay \/ CompareBalance
  \/ PollGuard \/ (\E i \in Indices : PollRow(i)) \/ EndRound
  \/ Judge \/ WalkUsage \/ FinalBalance
  \/ WriteResult \/ WritePointer

AtGateway == GatewayNext /\ UNCHANGED <<pc, why, run, fresh, requests, memory, disk, faults>>

Next == ClientNext \/ DeadlinePasses \/ Crash \/ Rerun \/ AtGateway

Spec == Init /\ [][Next]_vars

\* The process runs, and time passes.
FairSpec == Spec /\ WF_vars(ClientNext) /\ WF_vars(DeadlinePasses)

----------------------------------------------------------------------------
(* What the canary promises.                                               *)

\* A job for each row, completed with an answer of the frozen workload and charged its price;
\* nothing else held or charged.
LedgerIsExact ==
  /\ InState("queued") = {}
  /\ \A i \in Indices : Cardinality({JobOf(i, 1), JobOf(i, 2)} \cap InState("completed")) = 1
  /\ \A id \in InState("completed") : Sound(id)
  /\ spent = SumFunctionOnSet(bill, InState("completed"))
  /\ Cardinality(grants) = 1

\* An invocation gets past its final balance only when the ledger is exact at that moment and
\* the usage it has walked is every job that was charged, whatever promise the gateway broke.
PassedMeansExact ==
  [][pc = "final" /\ pc' = "result" => LedgerIsExact /\ usage = InState("completed")]_vars

\* With a gateway that keeps its promises, a row has one job and the organization one grant,
\* over all attempts, late deliveries, crashes and invocations.
ChargedOnce ==
  twist = "none" =>
    /\ \A id \in Known : id % 2 = 1
    /\ Cardinality(grants) <= 1

\* A gateway that keeps its promises is accused only of what can be seen: a job that did not
\* complete, or a job that ended before the invocation had compared its balances.
RefusalIsHonest ==
  twist = "none" /\ pc = "failed" =>
    \/ why \in {"http", "timeout"}
    \/ why = "notall" /\ InState("failed") # {}
    \/ why \in {"hold", "moved"} /\ Ended # {}

\* An invocation ends, even if no job ever does.
RunEnds == \A r \in 1 .. MaxRuns : run = r ~> (run # r \/ pc \in Ends)
=============================================================================
