--------------------------- MODULE MCCircuitBreaker ---------------------------
(* CircuitBreaker for TLC: three calls at once, as many as the threshold, so
   that a success, a trial and a late failure meet. *)
EXTENDS CircuitBreaker

ThreeCalls == 1..3
=============================================================================
