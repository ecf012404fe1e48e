---------------------------- MODULE MCOrderManager -----------------------------
(* Values for the constants of OrderManager.                                    *)
EXTENDS OrderManager, TLC

\* Every order alike, for one contract and one quantity.
Same == [o \in Orders |-> [a \in Attributes |-> 1]]

\* One contract each, in the broker's list; locally the first order's is not known.
Ranked    == CHOOSE f \in [Orders -> 1..Cardinality(Orders)] :
               \A a, b \in Orders : a # b => f[a] # f[b]
Contracts == [o \in Orders |-> [Same[o] EXCEPT !["contract"] = Ranked[o]]]
OneUnnamed == [o \in Orders |-> IF Ranked[o] = 1
                                   THEN [Same[o] EXCEPT !["contract"] = Unnamed]
                                   ELSE Contracts[o]]
================================================================================
