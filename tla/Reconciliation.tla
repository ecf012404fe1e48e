---------------------------- MODULE Reconciliation -----------------------------
(* The decision table of OrderReconciler.reconcile (oms/reconciliation.py): what *)
(* is concluded about an order the broker never answered for.  A lookup result is *)
(* a record: answered is FALSE when the broker gave no usable answer, matches is  *)
(* the set of broker orders found, each [id, dead], dead when its status is       *)
(* REJECTED, CANCELLED or EXPIRED.                                                *)
EXTENDS Naturals

CONSTANTS Orders,             \* orders; a broker order is named after the one that made it
          NoBid,              \* broker_order_id = "": no broker order is known
          NotFoundThreshold   \* DEFAULT_NOT_FOUND_OBSERVATIONS (3 in the code)

ASSUME NoBidAssumption == NoBid \notin Orders
ASSUME ThresholdAssumption == NotFoundThreshold \in Nat \ {0}

Matches == [id : Orders, dead : BOOLEAN]
Lookups == [answered : BOOLEAN, matches : SUBSET Matches]
Failed  == [answered |-> FALSE, matches |-> {}]

Verdicts == {"ACCEPTED", "REJECTED", "NOT_FOUND", "AMBIGUOUS", "UNKNOWN"}

\* Mutant of Judge: adopts the broker's record instead of its order id.
JudgeWhole(matches) ==
  IF \E m \in matches : matches = {m}
    THEN [verdict |-> "ACCEPTED", id |-> CHOOSE x \in matches : TRUE]
    ELSE [verdict |-> "AMBIGUOUS", id |-> NoBid]

\* What a non-empty answer means: one broker order decides, several never do.
Judge(matches) ==
  IF \E m \in matches : matches = {m}
    THEN LET m == CHOOSE x \in matches : TRUE
         IN  IF m.dead THEN [verdict |-> "REJECTED", id |-> NoBid]
                       ELSE [verdict |-> "ACCEPTED", id |-> m.id]
    ELSE [verdict |-> "AMBIGUOUS", id |-> NoBid]

\* reconcile(): bid is broker_order_id, absent is not_found_observations, graceOver
\* says that NOT_FOUND_GRACE has elapsed since sent_at.
Reconcile(bid, byCorrelation, byAttributes, absent, graceOver) ==
  CASE bid # NoBid                  -> [verdict |-> "ACCEPTED", id |-> bid]
    [] bid = NoBid /\ ~byCorrelation.answered
                                    -> [verdict |-> "UNKNOWN", id |-> NoBid]
    [] bid = NoBid /\ byCorrelation.answered /\ byCorrelation.matches # {}
                                    -> Judge(byCorrelation.matches)
    [] OTHER ->
         IF ~byAttributes.answered      THEN [verdict |-> "UNKNOWN", id |-> NoBid]
         ELSE IF byAttributes.matches # {} THEN Judge(byAttributes.matches)
         ELSE IF absent + 1 >= NotFoundThreshold /\ graceOver
                THEN [verdict |-> "NOT_FOUND", id |-> NoBid]
                ELSE [verdict |-> "UNKNOWN", id |-> NoBid]
================================================================================
