---------------------------------- MODULE Sums ----------------------------------
(* What a replay adds up: the running value over a sequence, written as recursive   *)
(* functions on 0..n so that they can be reasoned about.                            *)
EXTENDS Integers, Sequences

\* The sum of a sequence of numbers.
Total(s) ==
  LET upTo[n \in 0..Len(s)] == IF n = 0 THEN 0 ELSE upTo[n - 1] + s[n]
  IN  upTo[Len(s)]

\* A sequence of sequences, one after the other.
Joined(ss) ==
  LET upTo[n \in 0..Len(ss)] == IF n = 0 THEN <<>> ELSE upTo[n - 1] \o ss[n]
  IN  upTo[Len(ss)]
================================================================================
