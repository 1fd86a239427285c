------------------------------ MODULE Provider ------------------------------
(***************************************************************************)
(* The GPU provider as the repository's scripts use it.  The provider is   *)
(* not part of the repository: this module states what the scripts and the *)
(* fakes they are tested against (controlplane/ci/fake_runpod_*.py) take   *)
(* for granted.                                                            *)
(*                                                                         *)
(*   - A DELETE stops a RUNNING pod (EXITED, machine still assigned) and   *)
(*     terminates an EXITED one.  A DELETE may be lost.                    *)
(*   - A terminated pod may disappear from the collection listing before   *)
(*     it disappears from the exact lookup, and later from both.           *)
(*   - A new pod may stay out of the collection listing for a while.       *)
(*   - The provider itself may stop, terminate or drop a pod.              *)
(*                                                                         *)
(* Time is discrete.  HideMax is the longest a live pod stays out of the   *)
(* listing.  MaxTime is the horizon: the clock stops there.                *)
(***************************************************************************)
EXTENDS Integers, FiniteSets

CONSTANTS
  Workers,   \* pods the gateway of this run may create
  Foreign,   \* other pods of the account: another name prefix, or too old
  Control,   \* the control plane, which hosts the gateway
  Rates,     \* what a worker may cost per unit of time
  MaxLive,   \* how many workers the gateway runs at once
  HideMax,   \* a new pod is listed before it is this old
  MaxTime    \* horizon of the clock

ASSUME ProviderAssumption ==
  /\ Control \notin Workers \cup Foreign
  /\ Workers \cap Foreign = {}
  /\ IsFiniteSet(Workers \cup Foreign)
  /\ Rates \subseteq Nat
  /\ MaxLive \in Nat
  /\ HideMax \in Nat
  /\ MaxTime \in Nat

VARIABLES
  now,       \* the clock
  pod        \* pod[p]: what the provider knows of pod p

provVars == <<now, pod>>

Pods == Workers \cup Foreign \cup {Control}
Statuses == {"absent", "RUNNING", "EXITED", "TERMINATED", "gone"}

PodRecord ==
  [st : Statuses, born : Nat, ended : Nat, rate : Nat, listed : BOOLEAN]

ProvTypeOK ==
  /\ now \in 0 .. MaxTime
  /\ pod \in [Pods -> PodRecord]

Live(p) == pod[p].st \in {"RUNNING", "EXITED"}
Dead(p) == pod[p].st \in {"TERMINATED", "gone"}

\* What the provider charges for p until time t: an EXITED pod keeps its machine.
BilledTime(p, t) ==
  LET end == IF Dead(p) /\ pod[p].ended <= t THEN pod[p].ended ELSE t
  IN  IF pod[p].st = "absent" \/ end <= pod[p].born THEN 0 ELSE end - pod[p].born

Bill(p, t) == pod[p].rate * BilledTime(p, t)

----------------------------------------------------------------------------
ProvInit ==
  /\ now = 0
  /\ pod = [p \in Pods |->
              [st     |-> IF p \in Workers THEN "absent" ELSE "RUNNING",
               born   |-> 0, ended |-> 0, rate |-> 0, listed |-> TRUE]]

\* A create commits: pod p exists.  The response, and the pod's first listing, may come
\* later than the pod.  The horizon leaves room for the pod to be listed.
Born(p) ==
  /\ pod[p].st = "absent"
  /\ now + HideMax <= MaxTime
  /\ \E r \in Rates, seen \in BOOLEAN :
       /\ HideMax = 0 => seen
       /\ pod' = [pod EXCEPT ![p] = [st |-> "RUNNING", born |-> now, ended |-> 0,
                                     rate |-> r, listed |-> seen]]
  /\ UNCHANGED now

\* The gateway creates worker w.
CreatePod(w) ==
  /\ pod[Control].st = "RUNNING"
  /\ Cardinality({v \in Workers : Live(v)}) < MaxLive
  /\ Born(w)

AppearInListing(w) ==
  /\ pod[w].st # "absent"
  /\ ~pod[w].listed
  /\ pod' = [pod EXCEPT ![w].listed = TRUE]
  /\ UNCHANGED now

\* The pod after status s was reached now.
Becomes(p, s) ==
  [pod[p] EXCEPT !.st = s,
                 !.ended = IF s \in {"TERMINATED", "gone"} /\ Live(p) THEN now ELSE @]

\* Preemption, a scale-down by the gateway, or the provider dropping the record.
Reclaim(w) ==
  /\ \/ Live(w) /\ \E s \in {"EXITED", "TERMINATED", "gone"} :
                      pod' = [pod EXCEPT ![w] = Becomes(w, s)]
     \/ pod[w].st = "TERMINATED" /\ pod' = [pod EXCEPT ![w] = Becomes(w, "gone")]
  /\ UNCHANGED now

\* Time passes, but not past the moment a pod has to be listed.
Tick ==
  /\ now < MaxTime
  /\ \A p \in Pods :
       (pod[p].st # "absent" /\ ~pod[p].listed) => now + 1 < pod[p].born + HideMax
  /\ now' = now + 1
  /\ UNCHANGED pod

----------------------------------------------------------------------------
\* The collection listing, with "absent" for a pod it does not show: it may
\* already omit terminated pods.
Listing(omitted) ==
  [p \in Pods |->
     IF pod[p].st = "gone" \/ ~pod[p].listed \/ p \in omitted
       THEN "absent" ELSE pod[p].st]

Omittable == {p \in Pods : pod[p].st = "TERMINATED"}

\* The exact lookup: 404, or the pod's current status.
NotFound(p) == pod[p].st \in {"absent", "gone"}

\* A DELETE that reaches the provider.
DeleteLands(p) ==
  pod' = [pod EXCEPT ![p] = CASE pod[p].st = "RUNNING" -> Becomes(p, "EXITED")
                              [] pod[p].st = "EXITED"  -> Becomes(p, "TERMINATED")
                              [] OTHER -> pod[p]]
=============================================================================
