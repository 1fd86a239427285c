---------------------------- MODULE SpendLedger ----------------------------
(***************************************************************************)
(* The watchdog's ledger: the state file, keyed by pod id, that survives   *)
(* pod churn and the watchdog's own restarts.  The operators are the Python*)
(* bodies of survey() and reconcile_missing() in                           *)
(* controlplane/ci/gpu_watchdog.sh.                                        *)
(*                                                                         *)
(* An entry that is not `known` is an id the file does not hold; `Open` is *)
(* a missing terminal_at.                                                  *)
(***************************************************************************)
EXTENDS Integers, Functions

CONSTANT MaxRate   \* WEINFER_MAX_GPU_RATE, the highest permitted rate

ASSUME MaxRateAssumption == MaxRate \in Nat \ {0}

Epoch == 0         \* the pre-launch epoch: no worker of the run is older
Open == -1

LedgerEntry == [known : BOOLEAN, created : Nat, rate : Nat, terminalAt : Nat \cup {Open}]
NoEntry == [known |-> FALSE, created |-> 0, rate |-> 0, terminalAt |-> Open]

Least(a, b) == IF a <= b THEN a ELSE b
Greatest(a, b) == IF a >= b THEN a ELSE b

\* A variant: the minimum is dropped, each sighting closes the entry anew.
Reclosed(e, t) == [e EXCEPT !.terminalAt = t]

\* terminal_at = min(old or t, t)
Closed(e, t) ==
  [e EXCEPT !.terminalAt = IF @ = Open THEN t ELSE Least(@, t)]

\* What survey() reads of a pod: a creation time or a rate it cannot parse, or a
\* rate of zero, becomes the ledger's creation time (else the epoch) and MaxRate.
ReadCreated(e, born, blank) ==
  IF ~blank THEN born ELSE IF e.known THEN e.created ELSE Epoch

\* A variant: an unknown rate accrues nothing.
ReadRateOrZero(rate, blank) == IF blank THEN 0 ELSE rate

ReadRate(rate, blank) == IF blank \/ rate = 0 THEN MaxRate ELSE rate

\* The entry survey() writes at time t for a listed pod of ours.
Observed(e, born, rate, blank, terminal, t) ==
  LET c    == ReadCreated(e, born, blank)
      r    == ReadRate(rate, blank)
      next == [known      |-> TRUE,
               created    |-> IF e.known THEN Least(e.created, c) ELSE c,
               rate       |-> IF e.known THEN Greatest(e.rate, r) ELSE r,
               terminalAt |-> e.terminalAt]
  IN  IF terminal THEN Closed(next, t) ELSE next

\* What one entry, and the whole ledger, cost at time t.
EntryCost(e, t) ==
  IF ~e.known THEN 0
  ELSE e.rate * Greatest(0, (IF e.terminalAt = Open THEN t ELSE e.terminalAt) - e.created)

LedgerCost(l, t) == SumFunction([p \in DOMAIN l |-> EntryCost(l[p], t)])
=============================================================================
