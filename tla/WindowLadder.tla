---------------------------- MODULE WindowLadder ----------------------------
(***************************************************************************)
(* controlplane/ci/retention_pair_window.sh: the windows of a retention    *)
(* campaign, each an attempt at the pair.  launchd, or a person, triggers  *)
(* a window, perhaps more than once, at the wrong time, or several at      *)
(* once; the script may be killed at any step, and the operator it has     *)
(* started then goes on without it.  The operator is not in the repository *)
(* (RetentionPair has the evidence he makes): here he deploys the arms,    *)
(* leaves their deploy logs, and ends with whatever code.                  *)
(***************************************************************************)
EXTENDS FiniteSets

CONSTANTS
  Triggers   \* bound: invocations of the script

ASSUME LadderAssumption == IsFiniteSet(Triggers)

Windows == {2, 3}

VARIABLES
  step,     \* step[t]: where invocation t is
  window,   \* window[t]: its WINDOW index
  when,     \* when[t]: NOW against the target and the lateness that is borne
  rc,       \* rc[t]: the code it is about to record
  lock,     \* windows whose lock directory exists
  result,   \* result[w]: operator_exit_code of its result.json, or "none"
  root,     \* windows whose attempt root exists
  pointer,  \* success-root.txt and diagnosis-root.txt
  op,       \* op[t]: the operator that t has started, or its exit code
  logs      \* logs[t][a]: what the deploy log of arm a shows

scriptVars == <<step, window, when, rc>>
campaignVars == <<lock, result, root, pointer>>
opVars == <<op, logs>>
ladderVars == <<scriptVars, campaignVars, opVars>>

\* Exit codes; 1 stands for every one but 0, 42 and 43.
Ends == {"0", "1", "42", "43"}
Codes == Ends \cup {"none"}

\* No log yet; a pod was created; a complete, ordered transcript of a create that was refused
\* for capacity and of a cleanup that left no pod; anything else.
Shown == {"none", "created", "refused", "unclear"}
Deploys == {"arm-a", "arm-b"}

LadderTypeOK ==
  /\ step \in [Triggers -> {"idle", "start", "locked", "launch", "operator", "write", "point",
                            "ended", "dead"}]
  /\ window \in [Triggers -> Windows]
  /\ when \in [Triggers -> {"early", "due", "late"}]
  /\ rc \in [Triggers -> Codes]
  /\ lock \subseteq Windows
  /\ result \in [Windows -> Codes]
  /\ root \subseteq Windows
  /\ pointer \subseteq {"success", "diagnosis"}
  /\ op \in [Triggers -> Codes \cup {"running"}]
  /\ logs \in [Triggers -> [Deploys -> Shown]]

LadderInit ==
  /\ step = [t \in Triggers |-> "idle"]
  /\ window = [t \in Triggers |-> 2]
  /\ when = [t \in Triggers |-> "due"]
  /\ rc = [t \in Triggers |-> "none"]
  /\ lock = {}
  /\ result = [w \in Windows |-> "none"]
  /\ root \in SUBSET Windows
  /\ pointer = {}
  /\ op = [t \in Triggers |-> "none"]
  /\ logs = [t \in Triggers |-> [a \in Deploys |-> "none"]]

Goto(t, s) == step' = [step EXCEPT ![t] = s]

----------------------------------------------------------------------------
\* The calendar fires, or somebody starts the script.
Trigger(t) ==
  /\ step[t] = "idle"
  /\ Goto(t, "start")
  /\ \E w \in Windows : window' = [window EXCEPT ![t] = w]
  /\ \E n \in {"early", "due", "late"} : when' = [when EXCEPT ![t] = n]
  /\ UNCHANGED <<rc, campaignVars, opVars>>

\* The operator's bytes are not the registered ones.
RefuseOperator(t) ==
  /\ step[t] = "start"
  /\ Goto(t, "ended")
  /\ UNCHANGED <<window, when, rc, campaignVars, opVars>>

\* A variant: the lock is not exclusive.
AcquireAnyway(t) ==
  /\ step[t] = "start"
  /\ lock' = lock \cup {window[t]}
  /\ Goto(t, "locked")
  /\ UNCHANGED <<window, when, rc, result, root, pointer, opVars>>

\* mkdir: one invocation of a window gets past it, for ever.
Acquire(t) ==
  /\ step[t] = "start"
  /\ IF window[t] \in lock
       THEN Goto(t, "ended") /\ UNCHANGED lock
       ELSE Goto(t, "locked") /\ lock' = lock \cup {window[t]}
  /\ UNCHANGED <<window, when, rc, result, root, pointer, opVars>>

\* The code it ends with before the operator, or "go".
Decision(t) ==
  CASE when[t] = "early" -> "1"
    [] when[t] = "late" -> "43"
    [] when[t] = "due" /\ window[t] = 3 /\ result[2] \in {"none", "1"} -> "1"
    [] when[t] = "due" /\ window[t] = 3 /\ result[2] = "0" -> "0"
    [] OTHER -> IF window[t] \in root THEN "1" ELSE "go"

Decide(t) ==
  /\ step[t] = "locked"
  /\ IF Decision(t) = "go"
       THEN Goto(t, "launch") /\ UNCHANGED rc
       ELSE Goto(t, "write") /\ rc' = [rc EXCEPT ![t] = Decision(t)]
  /\ UNCHANGED <<window, when, campaignVars, opVars>>

\* The operator begins a pair in a fresh attempt root.
Launch(t) ==
  /\ step[t] = "launch"
  /\ Goto(t, "operator")
  /\ op' = [op EXCEPT ![t] = "running"]
  /\ root' = root \cup {window[t]}
  /\ UNCHANGED <<window, when, rc, lock, result, pointer, logs>>

\* The arms are deployed one after the other.
DeployArm(t, a) ==
  /\ op[t] = "running" /\ logs[t][a] = "none"
  /\ a = "arm-b" => logs[t]["arm-a"] = "created"
  /\ \E l \in Shown \ {"none"} : logs' = [logs EXCEPT ![t][a] = l]
  /\ UNCHANGED <<scriptVars, campaignVars, op>>

\* The operator's exit code is his own: 0 if he holds the pair completed.
OperatorEnds(t) ==
  /\ op[t] = "running"
  /\ \E c \in Ends :
       /\ c = "0" => \A a \in Deploys : logs[t][a] = "created"
       /\ op' = [op EXCEPT ![t] = c]
  /\ UNCHANGED <<scriptVars, campaignVars, logs>>

\* A raw exit 1 becomes 42 if either arm's deploy log is a clean refusal.
Normalized(t) == IF op[t] = "1" /\ \E a \in Deploys : logs[t][a] = "refused" THEN "42" ELSE op[t]

Classify(t) ==
  /\ step[t] = "operator"
  /\ op[t] \notin {"none", "running"}
  /\ rc' = [rc EXCEPT ![t] = Normalized(t)]
  /\ Goto(t, "write")
  /\ UNCHANGED <<window, when, campaignVars, opVars>>

\* write_result replaces the file at once.
WriteResult(t) ==
  /\ step[t] = "write"
  /\ result' = [result EXCEPT ![window[t]] = rc[t]]
  /\ Goto(t, IF op[t] = "none" \/ rc[t] = "42" THEN "ended" ELSE "point")
  /\ UNCHANGED <<window, when, rc, lock, root, pointer, opVars>>

Point(t) ==
  /\ step[t] = "point"
  /\ pointer' = pointer \cup {IF rc[t] = "0" THEN "success" ELSE "diagnosis"}
  /\ Goto(t, "ended")
  /\ UNCHANGED <<window, when, rc, lock, result, root, opVars>>

\* The script is killed; the operator, its child, is not.
Kill(t) ==
  /\ step[t] \notin {"idle", "ended", "dead"}
  /\ Goto(t, "dead")
  /\ UNCHANGED <<window, when, rc, campaignVars, opVars>>

Script(t) ==
  \/ Trigger(t) \/ RefuseOperator(t) \/ Acquire(t) \/ Decide(t) \/ Launch(t)
  \/ Classify(t) \/ WriteResult(t) \/ Point(t)

Operator(t) == (\E a \in Deploys : DeployArm(t, a)) \/ OperatorEnds(t)

LadderNext == \E t \in Triggers : Script(t) \/ Operator(t) \/ Kill(t)

LadderSpec == LadderInit /\ [][LadderNext]_ladderVars

----------------------------------------------------------------------------
\* However often the windows are triggered or killed, there are two operators only if the one of
\* window 2 has ended, with what the ladder takes for a refusal or a miss, and this is recorded.
OneOperator ==
  \A t, u \in Triggers :
    (t # u /\ op[t] # "none" /\ op[u] # "none") =>
      \E x \in {t, u} : window[x] = 2 /\ result[2] = Normalized(x) /\ result[2] \in {"42", "43"}

\* What the script records of an operator whose end it takes for neither a success nor a
\* refusal: "operator failure is terminal for the ladder".
FailureIsTerminal ==
  \A t, u \in Triggers :
    op[t] \in Ends /\ Normalized(t) \notin {"0", "42"} /\ window[t] = 2 /\ window[u] = 3
      => op[u] = "none"

\* What its regression says of the refusal string: any created pod keeps raw exit 1 terminal.
CreatedIsTerminal ==
  \A t \in Triggers :
    op[t] = "1" /\ rc[t] = "42" => \A a \in Deploys : logs[t][a] # "created"
=============================================================================
