---------------------------- MODULE MCRetention ----------------------------
(* RetentionPair and WindowLadder on a small instance.  They meet only in  *)
(* the operator's exit, so a behaviour follows either the evidence of one  *)
(* attempt or the windows of the campaign: the sum of the two state spaces *)
(* is explored and not their product.  Nor are what a candidate is worth   *)
(* and what a verdict is worth explored at once: "records" has arms that   *)
(* cannot be compared, for both have the policy parity; "verdict" has any  *)
(* policies and epochs, but batches that one pod has served, and charges   *)
(* of at most the floor.                                                   *)
EXTENDS RetentionPair, WindowLadder, TLC

CONSTANTS t1, t2, t3, p1, p2, j1, j2

VARIABLE follows

Init ==
  /\ PairInit /\ LadderInit
  /\ follows \in {"records", "verdict", "windows"}
  /\ follows # "windows" => root = {}

Comparable ==
  /\ \A r \in Arms : \E p \in Pods : \A j \in Jobs : attempts'[r][j] \in {<<>>, <<p>>}
  /\ \A p \in Pods : acct'[p].charge <= Floor

Next ==
  \/ follows = "records" /\ PairNext /\ UNCHANGED <<policy, launched, ladderVars, follows>>
  \/ follows = "verdict" /\ PairNext /\ Comparable /\ UNCHANGED <<ladderVars, follows>>
  \/ follows = "windows" /\ LadderNext /\ UNCHANGED <<pairVars, follows>>

Spec == Init /\ [][Next]_<<pairVars, ladderVars, follows>>

Sym == Permutations(Triggers) \cup Permutations(Pods)
=============================================================================
