------------------------------- MODULE Sums_proofs ------------------------------
(* Induction over the natural numbers for a set, the existence of a function        *)
(* defined by recursion on 0..L, and what both say about the sums of Sums.tla.      *)
EXTENDS Sums, SequenceTheorems, WellFoundedInduction, TLAPS

NatLess == {p \in Nat \X Nat : p[1] < p[2]}

LEMMA NatLessWellFounded == IsWellFoundedOn(NatLess, Nat)
<1>1. IsWellFoundedOn(OpToRel(<, Nat), Nat)
  BY NatLessThanWellFounded
<1>2. OpToRel(<, Nat) = NatLess
  BY DEF OpToRel, NatLess
<1> QED BY <1>1, <1>2

LEMMA NatLessPair == \A m, n \in Nat : <<m, n>> \in NatLess <=> m < n
BY DEF NatLess

\* Induction: a set with 0 and the successors of its members holds every number.
LEMMA NatInductive ==
  ASSUME NEW S \in SUBSET Nat, 0 \in S, \A n \in S : n + 1 \in S
  PROVE  S = Nat
<1> SUFFICES ASSUME Nat \ S # {} PROVE FALSE
  OBVIOUS
<1>1. PICK x \in Nat \ S : \A y \in Nat \ S : <<y, x>> \notin NatLess
  BY NatLessWellFounded, WFMin
<1>2. x \in Nat /\ x # 0
  OBVIOUS
<1>3. PICK y \in Nat : x = y + 1
  <2>1. x - 1 \in Nat /\ x = (x - 1) + 1
    BY <1>2
  <2> QED BY <2>1
<1>4. <<y, x>> \in NatLess
  BY <1>2, <1>3, NatLessPair
<1>5. y \in S
  BY <1>1, <1>4
<1> QED BY <1>3, <1>5

\* Induction up to a bound.
LEMMA UpTo ==
  ASSUME NEW L \in Nat, NEW S, 0 \in S, \A n \in 1..L : n - 1 \in S => n \in S
  PROVE  0..L \subseteq S
<1> DEFINE T == {k \in Nat : k <= L => k \in S}
<1>1. 0 \in T
  OBVIOUS
<1>2. ASSUME NEW k \in T PROVE k + 1 \in T
  <2>1. CASE k + 1 <= L
    <3>1. k + 1 \in 1..L /\ k \in S /\ (k + 1) - 1 = k
      BY <2>1
    <3> QED BY <3>1
  <2>2. CASE ~(k + 1 <= L)
    BY <2>2
  <2> QED BY <2>1, <2>2
<1>3. T = Nat
  <2>1. T \in SUBSET Nat
    OBVIOUS
  <2> HIDE DEF T
  <2> QED BY <1>1, <1>2, <2>1, NatInductive
<1> QED BY <1>3

\* The functions on 0..L with a given first value and a given step: one exists.
Recursive(A, base, L, F) ==
  {g \in [0..L -> A] : g[0] = base /\ \A n \in 1..L : g[n] = F[g[n - 1]][n]}

LEMMA Recursion ==
  ASSUME NEW A, NEW base \in A, NEW L \in Nat, NEW F \in [A -> [1..L -> A]]
  PROVE  \E g : g \in Recursive(A, base, L, F)
<1> SUFFICES \E g \in [0..L -> A] :
               g[0] = base /\ \A n \in 1..L : g[n] = F[g[n - 1]][n]
  BY DEF Recursive
<1> DEFINE Defined(k, g) == g[0] = base /\ \A n \in 1..k : g[n] = F[g[n - 1]][n]
           S == {k \in 0..L : \E g \in [0..k -> A] : Defined(k, g)}
<1>1. 0 \in S
  <2> DEFINE g == [n \in 0..0 |-> base]
  <2>1. g \in [0..0 -> A] /\ Defined(0, g)
    OBVIOUS
  <2>2. 0 \in 0..L
    OBVIOUS
  <2> HIDE DEF g, Defined
  <2> QED BY <2>1, <2>2
<1>2. ASSUME NEW k \in 1..L, k - 1 \in S PROVE k \in S
  <2>1. PICK g \in [0..(k - 1) -> A] : Defined(k - 1, g)
    BY <1>2
  <2>2. k - 1 \in 0..(k - 1) /\ g[k - 1] \in A
    BY <2>1
  <2>3. F[g[k - 1]][k] \in A
    BY <2>2
  <2> DEFINE h == [n \in 0..k |-> IF n = k THEN F[g[k - 1]][k] ELSE g[n]]
  <2>4. h \in [0..k -> A]
    BY <2>3
  <2>5. h[0] = base
    BY <2>1
  <2>6. ASSUME NEW n \in 1..k PROVE h[n] = F[h[n - 1]][n]
    <3>1. n - 1 \in 0..k /\ n - 1 # k /\ h[n - 1] = g[n - 1]
      OBVIOUS
    <3>2. CASE n = k
      <4>1. h[n] = F[g[k - 1]][k]
        BY <3>2
      <4> QED BY <3>1, <3>2, <4>1
    <3>3. CASE n # k
      <4>1. n \in 1..(k - 1) /\ h[n] = g[n]
        BY <3>3
      <4>2. g[n] = F[g[n - 1]][n]
        BY <2>1, <4>1
      <4> HIDE DEF h
      <4> QED BY <3>1, <4>1, <4>2
    <3> QED BY <3>2, <3>3
  <2>7. Defined(k, h)
    BY <2>5, <2>6
  <2> HIDE DEF Defined, h
  <2> QED BY <2>4, <2>7
<1>3. 0..L \subseteq S
  <2> HIDE DEF S
  <2> QED BY <1>1, <1>2, UpTo
<1>4. L \in S
  BY <1>3
<1> QED BY <1>4

--------------------------------------------------------------------------------
\* The running sums of a sequence, and its total.
Running(s) ==
  LET upTo[n \in 0..Len(s)] == IF n = 0 THEN 0 ELSE upTo[n - 1] + s[n] IN upTo

LEMMA TotalIsRunning == \A s : Total(s) = Running(s)[Len(s)]
BY DEF Total, Running

LEMMA SumsExist ==
  ASSUME NEW L \in Nat, NEW s \in [1..L -> Int]
  PROVE  \E g \in [0..L -> Int] : g[0] = 0 /\ \A n \in 1..L : g[n] = g[n - 1] + s[n]
<1> DEFINE F == [a \in Int |-> [n \in 1..L |-> a + s[n]]]
<1>1. F \in [Int -> [1..L -> Int]]
  OBVIOUS
<1>2. PICK g : g \in Recursive(Int, 0, L, F)
  <2>1. 0 \in Int
    OBVIOUS
  <2> HIDE DEF F
  <2> QED BY <1>1, <2>1, Recursion
<1>3. g \in [0..L -> Int] /\ g[0] = 0 /\ \A n \in 1..L : g[n] = F[g[n - 1]][n]
  <2> HIDE DEF F
  <2> QED BY <1>2 DEF Recursive
<1>4. ASSUME NEW n \in 1..L PROVE g[n] = g[n - 1] + s[n]
  <2>1. g[n - 1] \in Int
    <3>1. n - 1 \in 0..L
      OBVIOUS
    <3> HIDE DEF F
    <3> QED BY <1>3, <3>1
  <2> QED BY <1>3, <2>1
<1> HIDE DEF F
<1> QED BY <1>3, <1>4

LEMMA RunningDef ==
  ASSUME NEW s \in Seq(Int)
  PROVE  /\ Running(s) \in [0..Len(s) -> Int]
         /\ Running(s)[0] = 0
         /\ \A n \in 1..Len(s) : Running(s)[n] = Running(s)[n - 1] + s[n]
<1> DEFINE L == Len(s)
<1>1. L \in Nat /\ s \in [1..L -> Int]
  OBVIOUS
<1>2. PICK g \in [0..L -> Int] : g[0] = 0 /\ \A n \in 1..L : g[n] = g[n - 1] + s[n]
  <2> HIDE DEF L
  <2> QED BY <1>1, SumsExist
<1>4. g = [n \in 0..L |-> IF n = 0 THEN 0 ELSE g[n - 1] + s[n]]
  <2> HIDE DEF L
  <2> QED BY <1>1, <1>2
<1>5. Running(s) = [n \in 0..L |-> IF n = 0 THEN 0 ELSE Running(s)[n - 1] + s[n]]
  BY <1>4 DEF Running
<1> HIDE DEF L
<1>6. 0..L \subseteq {n \in 0..L : Running(s)[n] \in Int}
  <2> DEFINE S == {n \in 0..L : Running(s)[n] \in Int}
  <2>1. 0 \in S
    BY <1>1, <1>5
  <2>2. ASSUME NEW n \in 1..L, n - 1 \in S PROVE n \in S
    <3>1. n \in 0..L /\ n # 0 /\ s[n] \in Int /\ Running(s)[n - 1] \in Int
      BY <1>1, <2>2
    <3>2. Running(s)[n] = Running(s)[n - 1] + s[n]
      BY <1>5, <3>1
    <3> QED BY <3>1, <3>2
  <2> HIDE DEF S
  <2>3. 0..L \subseteq S
    BY <1>1, <2>1, <2>2, UpTo
  <2> QED BY <2>3 DEF S
<1>8. Running(s)[0] = 0 /\ \A n \in 1..L : Running(s)[n] = Running(s)[n - 1] + s[n]
  BY <1>1, <1>5
<1>9. Running(s) \in [0..L -> Int]
  <2>1. Running(s) = [n \in 0..L |-> Running(s)[n]]
    <3>1. \A f : f = [n \in 0..L |-> IF n = 0 THEN 0 ELSE f[n - 1] + s[n]]
                 => f = [n \in 0..L |-> f[n]]
      OBVIOUS
    <3> QED BY <1>5, <3>1
  <2> QED BY <1>6, <2>1
<1> QED BY <1>8, <1>9 DEF L

\* The total of a sequence of integers is an integer ...
LEMMA TotalType == \A s \in Seq(Int) : Total(s) \in Int
BY TotalIsRunning, RunningDef

\* ... and of natural numbers a natural number.
LEMMA TotalNat ==
  ASSUME NEW s \in Seq(Nat) PROVE Total(s) \in Nat
<1> DEFINE S == {n \in 0..Len(s) : Running(s)[n] \in Nat}
<1>1. s \in Seq(Int) /\ Len(s) \in Nat
  OBVIOUS
<1>a. /\ Running(s)[0] = 0
      /\ \A n \in 1..Len(s) : Running(s)[n] = Running(s)[n - 1] + s[n] /\ s[n] \in Nat
  BY <1>1, RunningDef
<1>2. 0 \in S
  BY <1>1, <1>a
<1>3. ASSUME NEW n \in 1..Len(s), n - 1 \in S PROVE n \in S
  <2>1. Running(s)[n] = Running(s)[n - 1] + s[n] /\ s[n] \in Nat
    BY <1>a
  <2> QED BY <1>1, <1>3, <2>1
<1>4. 0..Len(s) \subseteq S
  <2> HIDE DEF S
  <2> QED BY <1>1, <1>2, <1>3, UpTo
<1> QED BY <1>1, <1>4, TotalIsRunning

LEMMA TotalEmpty == Total(<<>>) = 0
<1>1. <<>> \in Seq(Int) /\ Len(<<>>) = 0
  OBVIOUS
<1> QED BY <1>1, TotalIsRunning, RunningDef

\* Sequences that agree up to n have the same running sum there.
LEMMA RunningAgrees ==
  ASSUME NEW s \in Seq(Int), NEW t \in Seq(Int), NEW L \in 0..Len(s), L <= Len(t),
         \A n \in 1..L : s[n] = t[n]
  PROVE  Running(s)[L] = Running(t)[L]
<1> DEFINE S == {n \in 0..L : Running(s)[n] = Running(t)[n]}
<1>1. L \in Nat /\ Len(s) \in Nat /\ Len(t) \in Nat
  OBVIOUS
<1>2. 0 \in S
  BY <1>1, RunningDef
<1>3. ASSUME NEW n \in 1..L, n - 1 \in S PROVE n \in S
  <2>1. n \in 1..Len(s) /\ n \in 1..Len(t) /\ s[n] = t[n]
    BY <1>1
  <2> QED BY <1>3, <2>1, RunningDef
<1>4. 0..L \subseteq S
  <2> HIDE DEF S
  <2> QED BY <1>1, <1>2, <1>3, UpTo
<1> QED BY <1>1, <1>4

\* One more entry adds itself.
LEMMA TotalAppend ==
  ASSUME NEW s \in Seq(Int), NEW x \in Int
  PROVE  Total(Append(s, x)) = Total(s) + x
<1> DEFINE t == Append(s, x)
           L == Len(s)
<1>1. t \in Seq(Int) /\ L \in Nat /\ Len(t) = L + 1 /\ t[L + 1] = x
      /\ \A n \in 1..L : s[n] = t[n]
  OBVIOUS
<1> HIDE DEF t
<1>2. Running(t)[L] = Running(s)[L]
  <2>1. L \in 0..Len(s) /\ L <= Len(t)
    BY <1>1
  <2> QED BY <1>1, <2>1, RunningAgrees
<1>3. L + 1 \in 1..Len(t) /\ (L + 1) - 1 = L
  BY <1>1
<1>4. Running(t)[L + 1] = Running(t)[L] + x
  BY <1>1, <1>3, RunningDef
<1> QED BY <1>1, <1>2, <1>4, TotalIsRunning DEF t

\* The total of two sequences in a row.
LEMMA TotalConcat ==
  ASSUME NEW s \in Seq(Int), NEW t \in Seq(Int)
  PROVE  Total(s \o t) = Total(s) + Total(t)
<1> DEFINE u == s \o t
           L == Len(s)
           M == Len(t)
           S == {n \in 0..M : Running(u)[L + n] = Running(s)[L] + Running(t)[n]}
<1>1. u \in Seq(Int) /\ L \in Nat /\ M \in Nat /\ Len(u) = L + M
      /\ (\A n \in 1..L : u[n] = s[n]) /\ (\A n \in 1..M : u[L + n] = t[n] /\ t[n] \in Int)
  OBVIOUS
<1>s. Running(s) \in [0..L -> Int]
  BY RunningDef
<1>t. /\ Running(t) \in [0..M -> Int] /\ Running(t)[0] = 0
      /\ \A n \in 1..M : Running(t)[n] = Running(t)[n - 1] + t[n]
  BY RunningDef
<1>2. 0 \in S
  <2>1. Running(u)[L] = Running(s)[L]
    <3> HIDE DEF u
    <3>1. L \in 0..Len(u) /\ L <= Len(s)
      BY <1>1
    <3> QED BY <1>1, <3>1, RunningAgrees
  <2> HIDE DEF u, L, M
  <2> QED BY <1>1, <1>s, <1>t, <2>1
<1> HIDE DEF u, L, M
<1>u. \A n \in 1..Len(u) : Running(u)[n] = Running(u)[n - 1] + u[n]
  BY <1>1, RunningDef
<1>3. ASSUME NEW n \in 1..M, n - 1 \in S PROVE n \in S
  <2>1. L + n \in 1..Len(u) /\ (L + n) - 1 = L + (n - 1)
    BY <1>1
  <2>2. Running(u)[L + n] = Running(u)[L + (n - 1)] + t[n]
    BY <1>1, <1>u, <2>1
  <2>3. Running(t)[n] = Running(t)[n - 1] + t[n] /\ Running(t)[n - 1] \in Int /\ t[n] \in Int
    BY <1>1, <1>t
  <2>4. Running(s)[L] \in Int
    BY <1>1, <1>s
  <2> QED BY <1>3, <2>2, <2>3, <2>4
<1>4. 0..M \subseteq S
  <2> HIDE DEF S
  <2> QED BY <1>1, <1>2, <1>3, UpTo
<1>5. Running(u)[L + M] = Running(s)[L] + Running(t)[M]
  BY <1>1, <1>4
<1> QED BY <1>1, <1>5, TotalIsRunning DEF u, L, M

\* A sequence is what is taken off its front and what is left.
LEMMA SplitAt ==
  ASSUME NEW P, NEW s \in Seq(P), NEW k \in 0..Len(s)
  PROVE  /\ SubSeq(s, 1, k) \in Seq(P) /\ Len(SubSeq(s, 1, k)) = k
         /\ SubSeq(s, k + 1, Len(s)) \in Seq(P) /\ Len(SubSeq(s, k + 1, Len(s))) = Len(s) - k
         /\ SubSeq(s, 1, k) \o SubSeq(s, k + 1, Len(s)) = s
<1> DEFINE t == SubSeq(s, 1, k)
           u == SubSeq(s, k + 1, Len(s))
<1>1. k \in Int /\ k + 1 \in Int /\ Len(s) \in Nat /\ \A i \in 1..Len(s) : s[i] \in P
  OBVIOUS
<1>2. SubSeq(s, 1, Len(s)) = s
  BY SubSeqFull
<1>3. t \o u = SubSeq(s, 1, Len(s))
  <2>1. 1 \in 1..(Len(s) + 1) /\ k \in (1 - 1)..Len(s) /\ Len(s) \in k..Len(s)
    BY <1>1
  <2> QED BY <2>1, ConcatAdjacentSubSeq, Zenon
<1>4. t \in Seq(P) /\ Len(t) = IF 1 <= k THEN k - 1 + 1 ELSE 0
  BY <1>1, SubSeqProperties
<1>5. u \in Seq(P) /\ Len(u) = IF k + 1 <= Len(s) THEN Len(s) - (k + 1) + 1 ELSE 0
  BY <1>1, SubSeqProperties
<1> HIDE DEF t, u
<1>6. Len(t) = k /\ Len(u) = Len(s) - k
  BY <1>1, <1>4, <1>5
<1>7. t \o u = s
  BY <1>2, <1>3
<1> QED BY <1>4, <1>5, <1>6, <1>7 DEF t, u

LEMMA TotalSplit ==
  ASSUME NEW s \in Seq(Int), NEW k \in 0..Len(s)
  PROVE  Total(SubSeq(s, 1, k)) + Total(SubSeq(s, k + 1, Len(s))) = Total(s)
<1> DEFINE t == SubSeq(s, 1, k)
           u == SubSeq(s, k + 1, Len(s))
<1>1. t \in Seq(Int) /\ u \in Seq(Int) /\ t \o u = s
  BY SplitAt
<1> HIDE DEF t, u
<1>2. Total(t) + Total(u) = Total(s)
  BY <1>1, TotalConcat
<1> QED BY <1>2 DEF t, u

LEMMA TotalConstant ==
  ASSUME NEW n \in Nat, NEW p \in Int
  PROVE  Total([i \in 1..n |-> p]) = n * p
<1> DEFINE s == [i \in 1..n |-> p]
           S == {k \in 0..n : Running(s)[k] = k * p}
<1>1. s \in Seq(Int) /\ Len(s) = n /\ \A i \in 1..n : s[i] = p
  OBVIOUS
<1> HIDE DEF s
<1>2. Running(s)[0] = 0 /\ \A k \in 1..n : Running(s)[k] = Running(s)[k - 1] + p
  BY <1>1, RunningDef
<1>3. 0 \in S
  BY <1>2
<1>4. ASSUME NEW k \in 1..n, k - 1 \in S PROVE k \in S
  <2>1. (k - 1) * p + p = k * p
    OBVIOUS
  <2> QED BY <1>2, <1>4, <2>1
<1>5. 0..n \subseteq S
  <2> HIDE DEF S
  <2> QED BY <1>3, <1>4, UpTo
<1>6. Running(s)[n] = n * p
  BY <1>5
<1> QED BY <1>1, <1>6, TotalIsRunning DEF s

\* A sequence changed in one place changes its total by as much.
LEMMA TotalExcept ==
  ASSUME NEW s \in Seq(Int), NEW t \in Seq(Int), NEW k \in 1..Len(s), Len(t) = Len(s),
         \A n \in 1..Len(s) : n # k => t[n] = s[n]
  PROVE  Total(t) = Total(s) + t[k] - s[k]
<1> DEFINE L == Len(s)
           S == {n \in 0..L : Running(t)[n] = IF n < k THEN Running(s)[n]
                                               ELSE Running(s)[n] + t[k] - s[k]}
<1>1. L \in Nat /\ k \in 1..L /\ \A n \in 1..L : s[n] \in Int /\ t[n] \in Int
  OBVIOUS
<1>2. /\ Running(s) \in [0..L -> Int] /\ Running(s)[0] = 0
      /\ \A n \in 1..L : Running(s)[n] = Running(s)[n - 1] + s[n]
  BY RunningDef
<1>3. /\ Running(t) \in [0..L -> Int] /\ Running(t)[0] = 0
      /\ \A n \in 1..L : Running(t)[n] = Running(t)[n - 1] + t[n]
  BY RunningDef
<1>a. \A n \in 1..L : n # k => t[n] = s[n]
  OBVIOUS
<1> HIDE DEF L
<1>4. 0 \in S
  BY <1>1, <1>2, <1>3
<1>5. ASSUME NEW n \in 1..L, n - 1 \in S PROVE n \in S
  <2>b. n - 1 \in 0..L
    BY <1>1
  <2>1. Running(s)[n - 1] \in Int /\ Running(t)[n - 1] \in Int
    BY <1>2, <1>3, <2>b
  <2>2. CASE n < k
    <3>b. n - 1 < k
      BY <1>1, <2>2
    <3>1. Running(t)[n - 1] = Running(s)[n - 1]
      BY <1>5, <3>b
    <3>2. t[n] = s[n]
      BY <1>a, <2>2
    <3>a. Running(s)[n] = Running(s)[n - 1] + s[n] /\ Running(t)[n] = Running(t)[n - 1] + t[n]
      BY <1>2, <1>3
    <3>3. Running(t)[n] = Running(s)[n]
      BY <3>a, <3>1, <3>2
    <3> QED BY <1>1, <2>2, <3>3
  <2>a. /\ Running(s)[n] = Running(s)[n - 1] + s[n] /\ Running(t)[n] = Running(t)[n - 1] + t[n]
        /\ s[n] \in Int /\ t[n] \in Int /\ s[k] \in Int /\ t[k] \in Int
    BY <1>1, <1>2, <1>3
  <2>3. CASE n = k
    <3>1. Running(t)[n - 1] = Running(s)[n - 1]
      BY <1>5, <2>3
    <3>2. Running(t)[n] = Running(s)[n] + t[k] - s[k]
      BY <2>1, <2>3, <2>a, <3>1
    <3> QED BY <2>3, <3>2
  <2>4. CASE n > k
    <3>1. Running(t)[n - 1] = Running(s)[n - 1] + t[k] - s[k]
      BY <1>1, <1>5, <2>4
    <3>2. t[n] = s[n]
      BY <1>a, <1>1, <2>4
    <3>3. Running(t)[n] = Running(s)[n] + t[k] - s[k]
      BY <2>1, <2>a, <3>1, <3>2
    <3> QED BY <2>4, <3>3, <1>1
  <2> QED BY <1>1, <2>2, <2>3, <2>4
<1>6. 0..L \subseteq S
  <2> HIDE DEF S
  <2> QED BY <1>1, <1>4, <1>5, UpTo
<1>7. Running(t)[L] = Running(s)[L] + t[k] - s[k]
  BY <1>1, <1>6
<1> QED BY <1>7, TotalIsRunning DEF L

--------------------------------------------------------------------------------
\* Joined, step by step.
Joining(ss) ==
  LET upTo[n \in 0..Len(ss)] == IF n = 0 THEN <<>> ELSE upTo[n - 1] \o ss[n] IN upTo

LEMMA JoinedIsJoining == \A ss : Joined(ss) = Joining(ss)[Len(ss)]
BY DEF Joined, Joining

LEMMA JoiningDef ==
  ASSUME NEW P, NEW ss \in Seq(Seq(P))
  PROVE  /\ Joining(ss) \in [0..Len(ss) -> Seq(P)]
         /\ Joining(ss)[0] = <<>>
         /\ \A n \in 1..Len(ss) : Joining(ss)[n] = Joining(ss)[n - 1] \o ss[n]
<1> DEFINE L == Len(ss)
           A == Seq(P)
           nil == <<>>
           C(a, n) == a \o ss[n]
           F == [a \in A |-> [n \in 1..L |-> C(a, n)]]
<1>1. L \in Nat /\ (\A n \in 1..L : ss[n] \in A) /\ nil \in A
  OBVIOUS
<1>2. \A a \in A : \A n \in 1..L : C(a, n) \in A
  BY <1>1
<1>a. \A n \in 1..L : C(Joining(ss)[n - 1], n) = Joining(ss)[n - 1] \o ss[n]
  OBVIOUS
<1>b. ASSUME NEW f, f = [n \in 0..L |-> IF n = 0 THEN nil ELSE C(f[n - 1], n)]
      PROVE  Joining(ss) = [n \in 0..L |-> IF n = 0 THEN nil ELSE C(Joining(ss)[n - 1], n)]
  BY <1>b DEF Joining
<1> HIDE DEF A, L, C, nil
<1>3. F \in [A -> [1..L -> A]]
  BY <1>2
<1>4. PICK g : g \in Recursive(A, nil, L, F)
  <2> HIDE DEF F
  <2> QED BY <1>1, <1>3, Recursion
<1>5. g \in [0..L -> A] /\ g[0] = nil /\ \A n \in 1..L : g[n] = F[g[n - 1]][n]
  <2> HIDE DEF F
  <2> QED BY <1>4 DEF Recursive
<1>6. ASSUME NEW n \in 1..L PROVE g[n] = C(g[n - 1], n)
  <2>1. g[n - 1] \in A
    <3>1. n - 1 \in 0..L
      BY <1>1
    <3> HIDE DEF F
    <3> QED BY <1>5, <3>1
  <2> QED BY <1>5, <2>1
<1> HIDE DEF F
<1>7. g = [n \in 0..L |-> IF n = 0 THEN nil ELSE C(g[n - 1], n)]
  BY <1>1, <1>5, <1>6
<1>8. Joining(ss) = [n \in 0..L |-> IF n = 0 THEN nil ELSE C(Joining(ss)[n - 1], n)]
  BY <1>7, <1>b
<1>9. Joining(ss)[0] = nil /\ \A n \in 1..L : Joining(ss)[n] = C(Joining(ss)[n - 1], n)
  BY <1>1, <1>8
<1> DEFINE S == {n \in 0..L : Joining(ss)[n] = g[n]}
<1>10. 0 \in S
  BY <1>1, <1>5, <1>9
<1>11. ASSUME NEW n \in 1..L, n - 1 \in S PROVE n \in S
  BY <1>1, <1>6, <1>9, <1>11
<1>12. 0..L \subseteq S
  <2> HIDE DEF S
  <2> QED BY <1>1, <1>10, <1>11, UpTo
<1>13. Joining(ss) = g
  <2>1. \A f : f = [n \in 0..L |-> IF n = 0 THEN nil ELSE C(f[n - 1], n)]
               => f = [n \in 0..L |-> f[n]]
    OBVIOUS
  <2> QED BY <1>5, <1>8, <1>12, <2>1
<1> QED BY <1>5, <1>9, <1>13, <1>a DEF L, A, nil

\* One more sequence comes last.
LEMMA JoinedAppend ==
  ASSUME NEW P, NEW ss \in Seq(Seq(P)), NEW u \in Seq(P)
  PROVE  /\ Joined(ss) \in Seq(P)
         /\ Joined(Append(ss, u)) = Joined(ss) \o u
<1> DEFINE tt == Append(ss, u)
           L == Len(ss)
           S == {n \in 0..L : Joining(tt)[n] = Joining(ss)[n]}
<1>1. tt \in Seq(Seq(P)) /\ L \in Nat /\ Len(tt) = L + 1 /\ tt[L + 1] = u
      /\ \A n \in 1..L : ss[n] = tt[n]
  <2> DEFINE A == Seq(P)
  <2>1. ss \in Seq(A) /\ u \in A
    OBVIOUS
  <2> HIDE DEF A
  <2>2. tt \in Seq(A) /\ L \in Nat /\ Len(tt) = L + 1 /\ tt[L + 1] = u
        /\ \A n \in 1..L : ss[n] = tt[n]
    BY <2>1
  <2> QED BY <2>2 DEF A
<1> HIDE DEF tt
<1>2. /\ Joining(ss) \in [0..L -> Seq(P)] /\ Joining(ss)[0] = <<>>
      /\ \A n \in 1..L : Joining(ss)[n] = Joining(ss)[n - 1] \o ss[n]
  BY JoiningDef
<1>3. /\ Joining(tt)[0] = <<>>
      /\ \A n \in 1..(L + 1) : Joining(tt)[n] = Joining(tt)[n - 1] \o tt[n]
  BY <1>1, JoiningDef
<1>a. Joining(tt)[0] = Joining(ss)[0]
  BY <1>2, <1>3, Zenon
<1> HIDE DEF L
<1>4. 0 \in S
  BY <1>1, <1>a
<1>5. ASSUME NEW n \in 1..L, n - 1 \in S PROVE n \in S
  <2>1. n \in 1..(L + 1) /\ ss[n] = tt[n] /\ n \in 0..L
    BY <1>1
  <2>2. Joining(ss)[n] = Joining(ss)[n - 1] \o ss[n]
    BY <1>2
  <2>3. Joining(tt)[n] = Joining(tt)[n - 1] \o tt[n]
    BY <1>3, <2>1
  <2>4. Joining(tt)[n - 1] = Joining(ss)[n - 1]
    BY <1>5
  <2>5. Joining(tt)[n] = Joining(ss)[n]
    BY <2>1, <2>2, <2>3, <2>4, Zenon
  <2> QED BY <2>1, <2>5
<1>6. 0..L \subseteq S
  <2> HIDE DEF S
  <2> QED BY <1>1, <1>4, <1>5, UpTo
<1>7. Joining(tt)[L + 1] = Joining(ss)[L] \o u
  <2>1. L + 1 \in 1..(L + 1) /\ (L + 1) - 1 = L /\ L \in S
    BY <1>1, <1>6
  <2>2. Joining(tt)[L + 1] = Joining(tt)[(L + 1) - 1] \o tt[L + 1]
    BY <1>3, <2>1
  <2> QED BY <1>1, <2>1, <2>2
<1>8. Joining(ss)[L] \in Seq(P)
  BY <1>1, <1>2
<1> QED BY <1>1, <1>7, <1>8, JoinedIsJoining DEF tt, L

LEMMA JoinedEmpty == Joined(<<>>) = <<>>
<1>1. <<>> \in Seq(Seq({})) /\ Len(<<>>) = 0
  OBVIOUS
<1> QED BY <1>1, JoinedIsJoining, JoiningDef

\* A function applied to every entry of a sequence that grows by one.
LEMMA MapAppend ==
  ASSUME NEW A, NEW B, NEW G \in [A -> B], NEW t \in Seq(A), NEW r \in A
  PROVE  /\ [i \in DOMAIN t |-> G[t[i]]] \in Seq(B)
         /\ [i \in DOMAIN Append(t, r) |-> G[Append(t, r)[i]]]
              = Append([i \in DOMAIN t |-> G[t[i]]], G[r])
<1> DEFINE u == Append(t, r)
           m == [i \in DOMAIN t |-> G[t[i]]]
           n == [i \in DOMAIN u |-> G[u[i]]]
           L == Len(t)
<1>1. /\ u \in Seq(A) /\ Len(u) = L + 1 /\ u[L + 1] = r /\ \A i \in 1..L : u[i] = t[i]
      /\ L \in Nat /\ DOMAIN t = 1..L /\ DOMAIN u = 1..(L + 1)
      /\ \A i \in 1..L : t[i] \in A
  OBVIOUS
<1>2. m \in Seq(B) /\ Len(m) = L /\ \A i \in 1..L : m[i] = G[t[i]]
  <2>1. m \in [1..L -> B] /\ \A i \in 1..L : m[i] = G[t[i]]
    <3> HIDE DEF u, L
    <3> QED BY <1>1
  <2> HIDE DEF m, u
  <2> QED BY <1>1, <2>1, SeqDef
<1>3. n \in Seq(B) /\ Len(n) = L + 1 /\ \A i \in 1..(L + 1) : n[i] = G[u[i]]
  <2>1. n \in [1..(L + 1) -> B] /\ \A i \in 1..(L + 1) : n[i] = G[u[i]]
    <3>1. \A i \in 1..(L + 1) : u[i] \in A
      BY <1>1
    <3> HIDE DEF u, L
    <3> QED BY <1>1, <3>1
  <2> HIDE DEF n, u, L
  <2> QED BY <1>1, <2>1
<1> HIDE DEF u, m, n, L
<1>4. G[r] \in B
  OBVIOUS
<1>5. /\ Append(m, G[r]) \in Seq(B) /\ Len(Append(m, G[r])) = L + 1
      /\ \A i \in 1..L : Append(m, G[r])[i] = m[i]
      /\ Append(m, G[r])[L + 1] = G[r]
  BY <1>2, <1>4, AppendProperties
<1>6. \A i \in 1..(L + 1) : n[i] = Append(m, G[r])[i]
  BY <1>1, <1>2, <1>3, <1>5
<1>7. n = Append(m, G[r])
  BY <1>3, <1>5, <1>6, SeqEqual
<1> QED BY <1>2, <1>7 DEF u, m, n
================================================================================
