-------------------------- MODULE CloseoutContract --------------------------
(***************************************************************************)
(* What a spend watchdog promises, without its provider calls, its ledger  *)
(* or its clock: capacity grows only while the gateway is up, and the watch*)
(* is closed only over a gateway that is down and capacity that is gone,   *)
(* which then stay so.                                                     *)
(***************************************************************************)
EXTENDS Integers

CONSTANT Worker

VARIABLES
  up,     \* the gateway can create workers
  live,   \* the workers the provider charges for
  stage   \* "armed", "closing" or "closed"

vars == <<up, live, stage>>

TypeOK ==
  /\ up \in BOOLEAN
  /\ live \subseteq Worker
  /\ stage \in {"armed", "closing", "closed"}

Init == up = TRUE /\ live = {} /\ stage = "armed"

Grow(w) == up /\ live' = live \cup {w} /\ UNCHANGED <<up, stage>>

Shrink(w) == live' = live \ {w} /\ UNCHANGED <<up, stage>>

BeginCloseout == stage = "armed" /\ stage' = "closing" /\ UNCHANGED <<up, live>>

\* The watchdog dies during a closeout; armed again, it starts over.
Abandon == stage = "closing" /\ stage' = "armed" /\ UNCHANGED <<up, live>>

GatewayDown == up /\ up' = FALSE /\ UNCHANGED <<live, stage>>

Close ==
  /\ stage = "closing"
  /\ ~up
  /\ live = {}
  /\ stage' = "closed"
  /\ UNCHANGED <<up, live>>

Next ==
  \/ \E w \in Worker : Grow(w) \/ Shrink(w)
  \/ BeginCloseout \/ Abandon \/ GatewayDown \/ Close

Spec == Init /\ [][Next]_vars
=============================================================================
