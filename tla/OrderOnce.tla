------------------------------- MODULE OrderOnce -------------------------------
(* What the order pipeline promises the account: an order is claimed (its row in  *)
(* the orders table) before the broker hears of it, it reaches the broker at most *)
(* once, and a broker order that is over never comes back to life.                *)
CONSTANT Orders

VARIABLE phase    \* the life of each order at the broker

Phases == {"unclaimed", "claimed", "live", "over"}

TypeOK == phase \in [Orders -> Phases]

Init == phase = [o \in Orders |-> "unclaimed"]

Moves(o, from, to) == phase[o] = from /\ phase' = [phase EXCEPT ![o] = to]

Claim(o)  == Moves(o, "unclaimed", "claimed")

\* The broker takes the order; a market order may be over at once.
Submit(o) == Moves(o, "claimed", "live") \/ Moves(o, "claimed", "over")

Finish(o) == Moves(o, "live", "over")

Next == \E o \in Orders : Claim(o) \/ Submit(o) \/ Finish(o)

Spec == Init /\ [][Next]_phase
================================================================================
