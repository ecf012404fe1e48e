------------------------- MODULE CircuitBreaker_proofs -------------------------
(* Theorems about the circuit breaker, for every set of concurrent calls, every  *)
(* threshold and every cap of the backoff.                                       *)
EXTENDS CircuitBreaker, TLAPS

\* What OpensInTime rests on: the failures in a row are among those counted, and an
\* open breaker has none since it opened.
Counted ==
  /\ streak <= failures
  /\ state = "open" => streak = 0

Inv == TypeOK /\ Counted /\ OpensInTime

LEMMA InitInv == Init => Inv
<1> SUFFICES ASSUME Init PROVE Inv
  OBVIOUS
<1>1. elapsed \in BOOLEAN /\ healthy \in BOOLEAN
  BY Zenon DEF Init
<1> QED
  BY <1>1, BreakerAssumption DEF Init, Inv, TypeOK, Counted, OpensInTime

LEMMA NextInv == Inv /\ [Next]_vars => Inv'
<1> SUFFICES ASSUME Inv, [Next]_vars PROVE Inv'
  OBVIOUS
<1> USE BreakerAssumption DEF Inv, TypeOK, Counted, OpensInTime
<1>1. ASSUME NEW c \in Calls, Admit(c) PROVE Inv'
  BY <1>1 DEF Admit, Transition
<1>2. ASSUME NEW c \in Calls, Succeed(c) PROVE Inv'
  BY <1>2 DEF Succeed, Transition
<1>3. ASSUME NEW c \in Calls, Fail(c) PROVE Inv'
  <2>1. elapsed' \in BOOLEAN /\ healthy' \in BOOLEAN
    BY <1>3, Zenon DEF Fail
  <2>2. /\ failures' = Capped(failures + 1, Threshold)
        /\ Transition(IF failures + 1 >= Threshold THEN "open" ELSE state)
        /\ streak' = IF state' = "open" THEN 0 ELSE streak + 1
        /\ running' = running \ {c}
    BY <1>3 DEF Fail
  <2>3. CASE failures + 1 >= Threshold
    BY <2>1, <2>2, <2>3 DEF Transition, Capped
  <2>4. CASE ~(failures + 1 >= Threshold)
    BY <2>1, <2>2, <2>4 DEF Transition, Capped
  <2> QED BY <2>3, <2>4
<1>4. ASSUME NEW c \in Calls, Abandon(c) PROVE Inv'
  BY <1>4 DEF Abandon
<1>5. CASE Elapse
  <2>1. elapsed' \in BOOLEAN
    BY <1>5, Zenon DEF Elapse
  <2> QED BY <1>5, <2>1 DEF Elapse
<1>6. CASE Broker
  <2>1. healthy' \in BOOLEAN
    BY <1>6, Zenon DEF Broker
  <2> QED BY <1>6, <2>1 DEF Broker
<1>7. CASE UNCHANGED vars
  BY <1>7 DEF vars
<1> QED BY <1>1, <1>2, <1>3, <1>4, <1>5, <1>6, <1>7 DEF Next

LEMMA Invariant == Spec => []Inv
BY InitInv, NextInv, PTL DEF Spec

\* The breaker's state is well typed: the backoff never exceeds its cap (_transition).
THEOREM BreakerTypeCorrect == Spec => []TypeOK
<1>1. Inv => TypeOK
  BY DEF Inv
<1> QED BY <1>1, Invariant, PTL

\* However concurrent outcomes are accounted, a breaker that is not open has seen fewer
\* failures in a row than its threshold (CircuitBreaker.call).
THEOREM BreakerOpensInTime == Spec => []OpensInTime
<1>1. Inv => OpensInTime
  BY DEF Inv
<1> QED BY <1>1, Invariant, PTL
================================================================================
