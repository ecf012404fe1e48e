--------------------------- MODULE PaperBroker_proofs ---------------------------
(* Theorems about the paper broker, for every sequence of orders, every set of      *)
(* callers of connect(), and every bound.                                          *)
EXTENDS PaperBroker, Sums_proofs

Buys == {o \in Orders : Detail[o].side = "BUY"}

Positions == [bought : Nat, sold : Nat, cost : Nat, proceeds : Nat, realised : Int]

\* The quantities and the money of the orders of S, order by order.
Units(S)  == [o \in Orders |-> IF o \in S THEN Detail[o].qty ELSE 0]
Prices(S) == [o \in Orders |-> IF o \in S THEN Gross(o) ELSE 0]

LEMMA OrdersAre ==
  /\ Len(Detail) \in Nat /\ Orders = 1..Len(Detail)
  /\ \A o \in Orders : /\ Detail[o].side \in {"BUY", "SELL"}
                       /\ Detail[o].qty \in Nat /\ Detail[o].price \in Nat
                       /\ Gross(o) \in Nat
<1> DEFINE Details == [side : {"BUY", "SELL"}, qty : Nat \ {0}, asked : Nat \ {0},
                       price : Nat \ {0}]
<1>1. Len(Detail) \in Nat /\ Orders = 1..Len(Detail)
  BY DetailAssumption DEF Orders
<1>a. \A o \in Orders : Detail[o] \in Details
  <2>1. Detail \in Seq(Details)
    BY DetailAssumption
  <2> HIDE DEF Details
  <2> QED BY <2>1, <1>1
<1>2. ASSUME NEW o \in Orders
      PROVE  /\ Detail[o].side \in {"BUY", "SELL"}
             /\ Detail[o].qty \in Nat /\ Detail[o].price \in Nat
  BY <1>2, <1>a
<1>3. \A o \in Orders : Gross(o) \in Nat
  BY <1>2 DEF Gross
<1> QED BY <1>1, <1>2, <1>3

LEMMA AmountsAre ==
  ASSUME NEW S \in SUBSET Orders
  PROVE  /\ Units(S) \in Seq(Int) /\ Len(Units(S)) = Len(Detail)
         /\ Prices(S) \in Seq(Int) /\ Len(Prices(S)) = Len(Detail)
         /\ \A o \in Orders : Units(S)[o] = IF o \in S THEN Detail[o].qty ELSE 0
         /\ \A o \in Orders : Prices(S)[o] = IF o \in S THEN Gross(o) ELSE 0
BY OrdersAre DEF Units, Prices

LEMMA TotalsAre ==
  ASSUME NEW S \in SUBSET Orders
  PROVE  /\ Quantity[S] = Total(Units(S)) /\ Quantity[S] \in Nat
         /\ Money[S] = Total(Prices(S)) /\ Money[S] \in Nat
<1>1. Quantity[S] = Total(Units(S)) /\ Money[S] = Total(Prices(S))
  BY DEF Quantity, Money, Units, Prices
<1>2. Units(S) \in Seq(Nat) /\ Prices(S) \in Seq(Nat)
  BY OrdersAre DEF Units, Prices
<1> QED BY <1>1, <1>2, TotalNat

LEMMA NothingFilled == Quantity[{}] = 0 /\ Money[{}] = 0
<1>1. Units({}) = [i \in 1..Len(Detail) |-> 0] /\ Prices({}) = [i \in 1..Len(Detail) |-> 0]
  BY OrdersAre DEF Units, Prices
<1>2. Total([i \in 1..Len(Detail) |-> 0]) = Len(Detail) * 0
  <2>1. Len(Detail) \in Nat /\ 0 \in Int
    BY OrdersAre
  <2> QED BY ONLY <2>1, TotalConstant, Zenon
<1>3. Len(Detail) * 0 = 0
  BY OrdersAre
<1>4. Quantity[{}] = Total(Units({})) /\ Money[{}] = Total(Prices({}))
  BY TotalsAre
<1> QED BY <1>1, <1>2, <1>3, <1>4

\* A fill adds its own quantity and its own money.
LEMMA OneMore ==
  ASSUME NEW S \in SUBSET Orders, NEW o \in Orders, o \notin S
  PROVE  /\ Quantity[S \cup {o}] = Quantity[S] + Detail[o].qty
         /\ Money[S \cup {o}] = Money[S] + Gross(o)
<1> DEFINE T == S \cup {o}
<1>1. T \in SUBSET Orders /\ o \in T /\ \A x \in Orders : x # o => (x \in T <=> x \in S)
  OBVIOUS
<1> HIDE DEF T
<1>2. /\ Units(T) \in Seq(Int) /\ Len(Units(T)) = Len(Detail)
      /\ Units(S) \in Seq(Int) /\ Len(Units(S)) = Len(Detail)
      /\ Prices(T) \in Seq(Int) /\ Len(Prices(T)) = Len(Detail)
      /\ Prices(S) \in Seq(Int) /\ Len(Prices(S)) = Len(Detail)
  BY <1>1, AmountsAre
<1>3. /\ Units(T)[o] = Detail[o].qty /\ Units(S)[o] = 0
      /\ Prices(T)[o] = Gross(o) /\ Prices(S)[o] = 0
  BY <1>1, AmountsAre
<1>4. o \in 1..Len(Detail) /\ \A n \in 1..Len(Detail) : n \in Orders
  BY OrdersAre
<1>5. \A n \in 1..Len(Detail) : n # o => Units(T)[n] = Units(S)[n] /\ Prices(T)[n] = Prices(S)[n]
  BY <1>1, <1>4, AmountsAre
<1>6. Total(Units(T)) = Total(Units(S)) + Detail[o].qty - 0
  BY <1>2, <1>3, <1>4, <1>5, TotalExcept
<1>7. Total(Prices(T)) = Total(Prices(S)) + Gross(o) - 0
  BY <1>2, <1>3, <1>4, <1>5, TotalExcept
<1>8. /\ Quantity[T] = Total(Units(T)) /\ Money[T] = Total(Prices(T))
      /\ Quantity[S] = Total(Units(S)) /\ Money[S] = Total(Prices(S))
      /\ Quantity[S] \in Nat /\ Money[S] \in Nat
  BY <1>1, TotalsAre
<1>9. Detail[o].qty \in Nat /\ Gross(o) \in Nat
  BY OrdersAre
<1> QED BY <1>6, <1>7, <1>8, <1>9 DEF T

--------------------------------------------------------------------------------
(* What a replay of a set of orders leaves. *)

\* The margin a replay charges is the money of the purchases.
LEMMA CostsAre == \A S \in SUBSET Orders : Costs[S] = Money[S \cap Buys]
<1> SUFFICES ASSUME NEW S \in SUBSET Orders PROVE Costs[S] = Money[S \cap Buys]
  OBVIOUS
<1> DEFINE L == Len(Detail)
           s == Prices(S \cap Buys)
           Step(a, n) == IF n \in S THEN Charged(a, n) ELSE a
           Replaying == CHOOSE f : f = [n \in 0..L |-> IF n = 0 THEN 0 ELSE Step(f[n - 1], n)]
           r == Running(s)
<1>1. S \cap Buys \in SUBSET Orders
  OBVIOUS
<1>2. L \in Nat /\ s \in Seq(Int) /\ Len(s) = L
  BY <1>1, OrdersAre, AmountsAre
<1>3. \A n \in 1..L : s[n] = IF n \in S /\ n \in Buys THEN Gross(n) ELSE 0
  BY <1>1, OrdersAre, AmountsAre
<1>4. r \in [0..L -> Int] /\ r[0] = 0 /\ \A n \in 1..L : r[n] = r[n - 1] + s[n]
  BY <1>2, RunningDef
<1>5. \A a \in Int, n \in 1..L : Step(a, n) = a + s[n]
  <2> HIDE DEF s
  <2> QED BY <1>3, OrdersAre DEF Charged, Buys
<1>6. Costs[S] = Replaying[L]
  BY DEF Costs
<1> HIDE DEF s, Step, L, r
<1>7. \A n \in 1..L : n - 1 \in 0..L /\ n \in 0..L /\ n # 0
  BY <1>2
<1>8. \A n \in 1..L : r[n] = Step(r[n - 1], n)
  BY <1>4, <1>5, <1>7
<1>9. r = [n \in 0..L |-> IF n = 0 THEN 0 ELSE Step(r[n - 1], n)]
  BY <1>2, <1>4, <1>8
<1>10. Replaying = [n \in 0..L |-> IF n = 0 THEN 0 ELSE Step(Replaying[n - 1], n)]
  BY <1>9
<1> HIDE DEF Replaying
<1> DEFINE Same == {n \in 0..L : Replaying[n] = r[n]}
<1>11. 0 \in Same
  BY <1>2, <1>4, <1>10
<1>12. ASSUME NEW n \in 1..L, n - 1 \in Same PROVE n \in Same
  BY <1>7, <1>8, <1>10, <1>12
<1>13. 0..L \subseteq Same
  <2> HIDE DEF Same
  <2> QED BY <1>2, <1>11, <1>12, UpTo
<1>14. Replaying[L] = r[L]
  BY <1>2, <1>13
<1>15. Money[S \cap Buys] = Total(s)
  BY <1>1, TotalsAre DEF s
<1>16. Total(s) = r[L]
  BY <1>2, TotalIsRunning DEF r
<1> QED BY <1>6, <1>14, <1>15, <1>16

\* A fill booked on a position: what it holds and what it has cost move by the fill.
LEMMA BookedIs ==
  ASSUME NEW p \in Positions, NEW o \in Orders
  PROVE  /\ Booked(p, o) \in Positions
         /\ Booked(p, o).bought - Booked(p, o).sold
              = p.bought - p.sold + IF o \in Buys THEN Detail[o].qty ELSE -Detail[o].qty
         /\ Booked(p, o).realised + Booked(p, o).proceeds - Booked(p, o).cost
              = p.realised + p.proceeds - p.cost
                + IF o \in Buys THEN -Gross(o) ELSE Gross(o)
<1> DEFINE u == Detail[o].qty
           g == Gross(o)
           buy == Detail[o].side = "BUY"
<1>1. u \in Nat /\ g \in Nat /\ (o \in Buys <=> buy)
  BY OrdersAre DEF Buys
<1> DEFINE du == IF buy THEN u ELSE 0
           ds == IF buy THEN 0 ELSE u
           dc == IF buy THEN g ELSE 0
           dp == IF buy THEN 0 ELSE g
           q == [p EXCEPT !.bought = @ + du, !.sold = @ + ds, !.cost = @ + dc, !.proceeds = @ + dp]
           b == IF q.bought = q.sold
                THEN [Flat EXCEPT !.realised = q.realised + q.proceeds - q.cost] ELSE q
<1>2. Booked(p, o) = b
  BY DEF Booked
<1> HIDE DEF u, g, buy
<1>3. /\ q \in Positions /\ q.realised = p.realised
      /\ q.bought - q.sold = p.bought - p.sold + IF buy THEN u ELSE -u
      /\ q.proceeds - q.cost = p.proceeds - p.cost + IF buy THEN -g ELSE g
  <2>1. /\ du \in Nat /\ ds \in Nat /\ dc \in Nat /\ dp \in Nat
        /\ du - ds = IF buy THEN u ELSE -u
        /\ dp - dc = IF buy THEN -g ELSE g
    BY <1>1
  <2>2. /\ q \in Positions /\ q.realised = p.realised
        /\ q.bought = p.bought + du /\ q.sold = p.sold + ds
        /\ q.cost = p.cost + dc /\ q.proceeds = p.proceeds + dp
    <3> HIDE DEF du, ds, dc, dp
    <3>1. /\ p.bought \in Nat /\ p.sold \in Nat /\ p.cost \in Nat /\ p.proceeds \in Nat
          /\ p.realised \in Int
      BY DEF Positions
    <3>2. /\ q.realised = p.realised
          /\ q.bought = p.bought + du /\ q.sold = p.sold + ds
          /\ q.cost = p.cost + dc /\ q.proceeds = p.proceeds + dp
      BY DEF Positions
    <3>3. ASSUME NEW w \in Nat, NEW x \in Nat, NEW y \in Nat, NEW z \in Nat
          PROVE  [p EXCEPT !.bought = w, !.sold = x, !.cost = y, !.proceeds = z] \in Positions
      BY DEF Positions
    <3>4. /\ p.bought + du \in Nat /\ p.sold + ds \in Nat
          /\ p.cost + dc \in Nat /\ p.proceeds + dp \in Nat
      BY <2>1, <3>1
    <3>5. q \in Positions
      BY <3>3, <3>4
    <3> HIDE DEF q
    <3> QED BY <3>2, <3>5
  <2>3. /\ p.bought \in Nat /\ p.sold \in Nat /\ p.cost \in Nat /\ p.proceeds \in Nat
    BY DEF Positions
  <2>4. q.bought - q.sold = p.bought - p.sold + (du - ds)
    <3> HIDE DEF q, du, ds, dc, dp
    <3> QED BY <2>1, <2>2, <2>3
  <2>5. q.proceeds - q.cost = p.proceeds - p.cost + (dp - dc)
    <3> HIDE DEF q, du, ds, dc, dp
    <3> QED BY <2>1, <2>2, <2>3
  <2> HIDE DEF q, du, ds, dc, dp
  <2> QED BY <2>1, <2>2, <2>4, <2>5
<1>4. CASE q.bought = q.sold
  <2>1. b = [Flat EXCEPT !.realised = q.realised + q.proceeds - q.cost]
    BY <1>4
  <2> HIDE DEF q, b
  <2> QED BY <1>1, <1>2, <1>3, <1>4, <2>1 DEF Flat, Positions, u, g
<1>5. CASE q.bought # q.sold
  <2>1. b = q
    BY <1>5
  <2> HIDE DEF q, b
  <2> QED BY <1>1, <1>2, <1>3, <2>1 DEF Positions, u, g
<1> QED BY <1>4, <1>5

\* A position that has booked the orders of S, in whatever order.
Tallies(p, S) ==
  /\ p \in Positions
  /\ p.bought - p.sold = Quantity[S \cap Buys] - Quantity[S \ Buys]
  /\ p.realised + p.proceeds - p.cost = Money[S \ Buys] - Money[S \cap Buys]

\* The position after each order of a replay that starts from nothing.
Replaying(S) ==
  LET after[n \in 0..Len(Detail)] ==
        IF n = 0 THEN Flat ELSE IF n \in S THEN Booked(after[n - 1], n) ELSE after[n - 1]
  IN  after

LEMMA ReplayingDef ==
  ASSUME NEW S \in SUBSET Orders
  PROVE  /\ Replaying(S) \in [0..Len(Detail) -> Positions]
         /\ Replaying(S)[0] = Flat
         /\ \A n \in Orders :
              Replaying(S)[n] = IF n \in S THEN Booked(Replaying(S)[n - 1], n)
                                ELSE Replaying(S)[n - 1]
<1> DEFINE L == Len(Detail)
           A == Positions
           C(a, n) == IF n \in S THEN Booked(a, n) ELSE a
           F == [a \in A |-> [n \in 1..L |-> C(a, n)]]
<1>1. L \in Nat /\ Orders = 1..L /\ Flat \in A
  BY OrdersAre DEF Flat, Positions
<1>2. \A a \in A : \A n \in 1..L : C(a, n) \in A
  BY <1>1, BookedIs
<1>3. ASSUME NEW f, f = [n \in 0..L |-> IF n = 0 THEN Flat ELSE C(f[n - 1], n)]
      PROVE  Replaying(S)
               = [n \in 0..L |-> IF n = 0 THEN Flat ELSE C(Replaying(S)[n - 1], n)]
  BY <1>3 DEF Replaying
<1>4. \A n \in 1..L : C(Replaying(S)[n - 1], n)
                      = IF n \in S THEN Booked(Replaying(S)[n - 1], n) ELSE Replaying(S)[n - 1]
  OBVIOUS
<1> HIDE DEF A, L, C
<1>5. F \in [A -> [1..L -> A]]
  BY <1>2
<1>6. PICK g : g \in Recursive(A, Flat, L, F)
  <2> HIDE DEF F
  <2> QED BY <1>1, <1>5, Recursion
<1>7. g \in [0..L -> A] /\ g[0] = Flat /\ \A n \in 1..L : g[n] = F[g[n - 1]][n]
  <2> HIDE DEF F
  <2> QED BY <1>6 DEF Recursive
<1>8. ASSUME NEW n \in 1..L PROVE g[n] = C(g[n - 1], n)
  <2>1. g[n - 1] \in A
    <3>1. n - 1 \in 0..L
      BY <1>1
    <3> HIDE DEF F
    <3> QED BY <1>7, <3>1
  <2> QED BY <1>7, <2>1
<1> HIDE DEF F
<1>9. g = [n \in 0..L |-> IF n = 0 THEN Flat ELSE C(g[n - 1], n)]
  BY <1>1, <1>7, <1>8
<1>10. Replaying(S) = [n \in 0..L |-> IF n = 0 THEN Flat ELSE C(Replaying(S)[n - 1], n)]
  BY <1>9, <1>3
<1>11. /\ Replaying(S)[0] = Flat
       /\ \A n \in 1..L : Replaying(S)[n] = C(Replaying(S)[n - 1], n)
  BY <1>1, <1>10
<1> DEFINE Typed == {n \in 0..L : Replaying(S)[n] \in A}
<1>12. 0 \in Typed
  BY <1>1, <1>11
<1>13. ASSUME NEW n \in 1..L, n - 1 \in Typed PROVE n \in Typed
  BY <1>1, <1>2, <1>11, <1>13
<1>14. 0..L \subseteq Typed
  <2> HIDE DEF Typed
  <2> QED BY <1>1, <1>12, <1>13, UpTo
<1>15. Replaying(S) \in [0..L -> A]
  <2>1. \A f : f = [n \in 0..L |-> IF n = 0 THEN Flat ELSE C(f[n - 1], n)]
               => f = [n \in 0..L |-> f[n]]
    OBVIOUS
  <2>2. Replaying(S) = [n \in 0..L |-> Replaying(S)[n]]
    BY <1>10, <2>1
  <2> QED BY <1>14, <2>2
<1> QED BY <1>1, <1>4, <1>11, <1>15 DEF A, L

LEMMA RebuiltIs == \A S \in SUBSET Orders : Rebuilt[S] = Replaying(S)[Len(Detail)]
BY DEF Rebuilt, Replayed, Replaying

\* A rebuild from the rows of S has booked S.
LEMMA RebuiltTallies == \A S \in SUBSET Orders : Tallies(Rebuilt[S], S)
<1> SUFFICES ASSUME NEW S \in SUBSET Orders PROVE Tallies(Rebuilt[S], S)
  OBVIOUS
<1> DEFINE L == Len(Detail)
           after == Replaying(S)
           qb == Units(S \cap Buys)
           qs == Units(S \ Buys)
           mb == Prices(S \cap Buys)
           ms == Prices(S \ Buys)
           Net(p) == p.bought - p.sold
           Cash(p) == p.realised + p.proceeds - p.cost
<1>1. L \in Nat /\ Orders = 1..L /\ S \cap Buys \in SUBSET Orders /\ S \ Buys \in SUBSET Orders
  BY OrdersAre
<1>2. /\ qb \in Seq(Int) /\ Len(qb) = L /\ qs \in Seq(Int) /\ Len(qs) = L
      /\ mb \in Seq(Int) /\ Len(mb) = L /\ ms \in Seq(Int) /\ Len(ms) = L
  BY <1>1, AmountsAre
<1>3. \A n \in 1..L :
        /\ qb[n] = IF n \in S /\ n \in Buys THEN Detail[n].qty ELSE 0
        /\ qs[n] = IF n \in S /\ n \notin Buys THEN Detail[n].qty ELSE 0
        /\ mb[n] = IF n \in S /\ n \in Buys THEN Gross(n) ELSE 0
        /\ ms[n] = IF n \in S /\ n \notin Buys THEN Gross(n) ELSE 0
  BY <1>1, AmountsAre
<1>4. /\ after \in [0..L -> Positions] /\ after[0] = Flat
      /\ \A n \in 1..L : after[n] = IF n \in S THEN Booked(after[n - 1], n) ELSE after[n - 1]
  BY <1>1, ReplayingDef
<1>5. \A p \in Positions : Net(p) \in Int /\ Cash(p) \in Int
  BY DEF Positions
<1>6. \A p \in Positions, n \in 1..L :
        /\ Net(Booked(p, n)) = Net(p) + IF n \in Buys THEN Detail[n].qty ELSE -Detail[n].qty
        /\ Cash(Booked(p, n)) = Cash(p) + IF n \in Buys THEN -Gross(n) ELSE Gross(n)
  BY <1>1, BookedIs
<1>7. Net(Flat) = 0 /\ Cash(Flat) = 0
  BY DEF Flat
<1>8. Tallies(Rebuilt[S], S)
        <=> /\ after[L] \in Positions
            /\ Net(after[L]) = Total(qb) - Total(qs)
            /\ Cash(after[L]) = Total(ms) - Total(mb)
  BY <1>1, RebuiltIs, TotalsAre DEF Tallies
<1> HIDE DEF L, after, qb, qs, mb, ms, Net, Cash
<1> DEFINE Even == {n \in 0..L :
                      /\ Net(after[n]) = Running(qb)[n] - Running(qs)[n]
                      /\ Cash(after[n]) = Running(ms)[n] - Running(mb)[n]}
<1>9. /\ Running(qb)[0] = 0 /\ Running(qs)[0] = 0 /\ Running(mb)[0] = 0 /\ Running(ms)[0] = 0
  BY <1>2, RunningDef
<1>10. 0 \in Even
  BY <1>1, <1>4, <1>7, <1>9
<1>11. ASSUME NEW n \in 1..L, n - 1 \in Even PROVE n \in Even
  <2>1. n \in 0..L /\ n - 1 \in 0..L /\ n \in Orders
    BY <1>1
  <2>2. after[n - 1] \in Positions
    BY <1>4, <2>1
  <2>3. /\ Running(qb)[n] = Running(qb)[n - 1] + qb[n] /\ Running(qb)[n - 1] \in Int
        /\ Running(qs)[n] = Running(qs)[n - 1] + qs[n] /\ Running(qs)[n - 1] \in Int
    BY <1>2, <2>1, RunningDef
  <2>4. /\ Running(mb)[n] = Running(mb)[n - 1] + mb[n] /\ Running(mb)[n - 1] \in Int
        /\ Running(ms)[n] = Running(ms)[n - 1] + ms[n] /\ Running(ms)[n - 1] \in Int
    BY <1>2, <2>1, RunningDef
  <2>5. /\ Net(after[n - 1]) = Running(qb)[n - 1] - Running(qs)[n - 1]
        /\ Cash(after[n - 1]) = Running(ms)[n - 1] - Running(mb)[n - 1]
    BY <1>11
  <2>6. Detail[n].qty \in Nat /\ Gross(n) \in Nat
    BY <2>1, OrdersAre
  <2>7. CASE n \in S /\ n \in Buys
    <3>1. /\ Net(after[n]) = Net(after[n - 1]) + Detail[n].qty
          /\ Cash(after[n]) = Cash(after[n - 1]) + (-Gross(n))
      BY <1>4, <1>6, <2>2, <2>7
    <3>2. qb[n] = Detail[n].qty /\ qs[n] = 0 /\ mb[n] = Gross(n) /\ ms[n] = 0
      BY <1>3, <2>7
    <3> QED BY <2>1, <2>3, <2>4, <2>5, <2>6, <3>1, <3>2
  <2>8. CASE n \in S /\ n \notin Buys
    <3>1. /\ Net(after[n]) = Net(after[n - 1]) + (-Detail[n].qty)
          /\ Cash(after[n]) = Cash(after[n - 1]) + Gross(n)
      BY <1>4, <1>6, <2>2, <2>8
    <3>2. qs[n] = Detail[n].qty /\ qb[n] = 0 /\ ms[n] = Gross(n) /\ mb[n] = 0
      BY <1>3, <2>8
    <3> QED BY <2>1, <2>3, <2>4, <2>5, <2>6, <3>1, <3>2
  <2>9. CASE n \notin S
    <3>1. after[n] = after[n - 1]
      BY <1>4, <2>9
    <3>2. qs[n] = 0 /\ qb[n] = 0 /\ ms[n] = 0 /\ mb[n] = 0
      BY <1>3, <2>9
    <3> QED BY <2>1, <2>3, <2>4, <2>5, <3>1, <3>2
  <2> QED BY <2>7, <2>8, <2>9
<1>12. 0..L \subseteq Even
  <2> HIDE DEF Even
  <2> QED BY <1>1, <1>10, <1>11, UpTo
<1>13. L \in Even
  BY <1>1, <1>12
<1>14. /\ Total(qb) = Running(qb)[L] /\ Total(qs) = Running(qs)[L]
       /\ Total(mb) = Running(mb)[L] /\ Total(ms) = Running(ms)[L]
  BY <1>2, TotalIsRunning
<1>15. after[L] \in Positions
  BY <1>1, <1>4
<1> QED BY <1>8, <1>13, <1>14, <1>15

--------------------------------------------------------------------------------
(* The account and the audit trail. *)

\* The rows are the filled orders; a position that was built from the rows, or is built
\* while there are none, has booked them; margin that was reset is charged by a rebuild.
AccountInv ==
  /\ pc \in [Orders -> {"new", "delay", "quote", "lock",
                        "filled", "pending", "rejected", "lost"}]
  /\ rows = {o \in Orders : pc[o] = "filled"}
  /\ position \in Positions /\ used \in Nat
  /\ synced \/ rows = {} => Tallies(position, rows)
  /\ (synced /\ costed) \/ rows = {} => used = Money[rows \cap Buys]

LEMMA AccountInit == Init => AccountInv
<1> SUFFICES ASSUME Init PROVE AccountInv
  OBVIOUS
<1>1. rows = {} /\ rows = {o \in Orders : pc[o] = "filled"} /\ position = Flat /\ used = 0
  BY DEF Init
<1>2. rows \cap Buys = {} /\ rows \ Buys = {}
  BY <1>1
<1>3. Flat \in Positions /\ Flat.bought - Flat.sold = 0
      /\ Flat.realised + Flat.proceeds - Flat.cost = 0
  BY DEF Flat, Positions
<1>4. Tallies(position, rows) /\ used = Money[rows \cap Buys]
  BY <1>1, <1>2, <1>3, NothingFilled DEF Tallies
<1> QED BY <1>1, <1>3, <1>4 DEF Init, AccountInv

\* A fill keeps the tally, and the margin that matches the purchases.
LEMMA FillTallies ==
  ASSUME NEW p, NEW S \in SUBSET Orders, NEW o \in Orders, o \notin S, Tallies(p, S)
  PROVE  Tallies(Booked(p, o), S \cup {o})
<1> DEFINE b == Booked(p, o)
           B == S \cap Buys
           R == S \ Buys
<1>1. p \in Positions /\ p.bought - p.sold = Quantity[B] - Quantity[R]
      /\ p.realised + p.proceeds - p.cost = Money[R] - Money[B]
  BY DEF Tallies
<1>2. /\ b \in Positions
      /\ b.bought - b.sold
           = p.bought - p.sold + IF o \in Buys THEN Detail[o].qty ELSE -Detail[o].qty
      /\ b.realised + b.proceeds - b.cost
           = p.realised + p.proceeds - p.cost + IF o \in Buys THEN -Gross(o) ELSE Gross(o)
  BY <1>1, BookedIs
<1>3. B \in SUBSET Orders /\ R \in SUBSET Orders /\ o \notin B /\ o \notin R
  OBVIOUS
<1>4. /\ Quantity[B] \in Nat /\ Quantity[R] \in Nat /\ Money[B] \in Nat /\ Money[R] \in Nat
      /\ Detail[o].qty \in Nat /\ Gross(o) \in Nat
  BY <1>3, TotalsAre, OrdersAre
<1>5. CASE o \in Buys
  <2>1. (S \cup {o}) \cap Buys = B \cup {o} /\ (S \cup {o}) \ Buys = R
    BY <1>5
  <2>2. Quantity[B \cup {o}] = Quantity[B] + Detail[o].qty
        /\ Money[B \cup {o}] = Money[B] + Gross(o)
    BY <1>3, OneMore
  <2>3. /\ b.bought - b.sold = p.bought - p.sold + Detail[o].qty
        /\ b.realised + b.proceeds - b.cost
             = p.realised + p.proceeds - p.cost + (-Gross(o))
    BY <1>2, <1>5
  <2> HIDE DEF b, B, R
  <2>4. /\ b.bought - b.sold = Quantity[B \cup {o}] - Quantity[R]
        /\ b.realised + b.proceeds - b.cost = Money[R] - Money[B \cup {o}]
    BY <1>1, <1>4, <2>2, <2>3
  <2> QED BY <1>2, <2>1, <2>4, Zenon DEF Tallies, b
<1>6. CASE o \notin Buys
  <2>1. (S \cup {o}) \cap Buys = B /\ (S \cup {o}) \ Buys = R \cup {o}
    BY <1>6
  <2>2. Quantity[R \cup {o}] = Quantity[R] + Detail[o].qty
        /\ Money[R \cup {o}] = Money[R] + Gross(o)
    BY <1>3, OneMore
  <2>3. /\ b.bought - b.sold = p.bought - p.sold + (-Detail[o].qty)
        /\ b.realised + b.proceeds - b.cost = p.realised + p.proceeds - p.cost + Gross(o)
    BY <1>2, <1>6
  <2> HIDE DEF b, B, R
  <2>4. /\ b.bought - b.sold = Quantity[B] - Quantity[R \cup {o}]
        /\ b.realised + b.proceeds - b.cost = Money[R \cup {o}] - Money[B]
    BY <1>1, <1>4, <2>2, <2>3
  <2> QED BY <1>2, <2>1, <2>4, Zenon DEF Tallies, b
<1> QED BY <1>5, <1>6

LEMMA FillCharges ==
  ASSUME NEW S \in SUBSET Orders, NEW o \in Orders, o \notin S
  PROVE  Charged(Money[S \cap Buys], o) = Money[(S \cup {o}) \cap Buys]
<1>1. S \cap Buys \in SUBSET Orders /\ o \notin S \cap Buys
  OBVIOUS
<1>2. CASE o \in Buys
  <2>1. (S \cup {o}) \cap Buys = (S \cap Buys) \cup {o}
    BY <1>2
  <2>2. Money[(S \cap Buys) \cup {o}] = Money[S \cap Buys] + Gross(o)
    BY <1>1, OneMore
  <2> QED BY <1>2, <2>1, <2>2 DEF Charged, Buys
<1>3. CASE o \notin Buys
  <2>1. (S \cup {o}) \cap Buys = S \cap Buys
    BY <1>3
  <2> QED BY <1>3, <2>1 DEF Charged, Buys
<1> QED BY <1>2, <1>3

LEMMA ChargedIs == \A u \in Nat, o \in Orders : Charged(u, o) \in Nat
BY OrdersAre DEF Charged

\* What does not touch the account, the rows or a fill keeps the invariant.
LEMMA AccountKept ==
  ASSUME AccountInv, UNCHANGED <<position, used, rows, synced, costed>>,
         pc' \in [Orders -> {"new", "delay", "quote", "lock",
                             "filled", "pending", "rejected", "lost"}],
         \A o \in Orders : pc'[o] = "filled" <=> pc[o] = "filled"
  PROVE  AccountInv'
<1>1. {o \in Orders : pc'[o] = "filled"} = {o \in Orders : pc[o] = "filled"}
  OBVIOUS
<1>2. position' = position /\ used' = used /\ rows' = rows /\ synced' = synced
      /\ costed' = costed
  OBVIOUS
<1>3. Tallies(position, rows)' <=> Tallies(position, rows)
  BY <1>2 DEF Tallies
<1>4. rows' = {o \in Orders : pc'[o] = "filled"}
  BY <1>1, <1>2 DEF AccountInv
<1>5. position' \in Positions /\ used' \in Nat
  BY <1>2 DEF AccountInv
<1>6. ASSUME synced' \/ rows' = {} PROVE Tallies(position, rows)'
  <2>1. synced \/ rows = {}
    BY <1>2, <1>6
  <2> QED BY <1>3, <2>1, Zenon DEF AccountInv
<1>7. ASSUME (synced' /\ costed') \/ rows' = {} PROVE used' = Money[rows' \cap Buys]
  <2>1. (synced /\ costed) \/ rows = {}
    BY <1>2, <1>7
  <2>2. used = Money[rows \cap Buys]
    BY <2>1, Zenon DEF AccountInv
  <2> QED BY <1>2, <2>2
<1> QED BY <1>4, <1>5, <1>6, <1>7, Zenon DEF AccountInv

LEMMA AccountCommit ==
  ASSUME AccountInv, NEW o \in Orders, Commit(o) PROVE AccountInv'
<1>1. /\ pc[o] = "lock" /\ pc' = [pc EXCEPT ![o] = "filled"] /\ rows' = rows \cup {o}
      /\ position' = Booked(position, o) /\ used' = Charged(used, o)
      /\ synced' = synced /\ costed' = costed
  BY DEF Commit, history
<1>2. rows \in SUBSET Orders /\ o \notin rows
  BY <1>1 DEF AccountInv
<1>3. /\ pc' \in [Orders -> {"new", "delay", "quote", "lock",
                             "filled", "pending", "rejected", "lost"}]
      /\ rows' = {x \in Orders : pc'[x] = "filled"}
  BY <1>1 DEF AccountInv
<1>4. position' \in Positions /\ used' \in Nat
  <2>1. position \in Positions /\ used \in Nat
    BY DEF AccountInv
  <2> QED BY <1>1, <2>1, BookedIs, ChargedIs
<1>5. ASSUME synced' PROVE Tallies(position, rows)'
  <2>1. Tallies(position, rows)
    BY <1>1, <1>5, Zenon DEF AccountInv
  <2>2. Tallies(Booked(position, o), rows \cup {o})
    BY <1>2, <2>1, FillTallies
  <2>3. Tallies(position', rows')
    BY <1>1, <2>2, Zenon
  <2> QED BY <2>3, Zenon DEF Tallies
<1>6. ASSUME synced', costed' PROVE used' = Money[rows' \cap Buys]
  <2>1. used = Money[rows \cap Buys]
    BY <1>1, <1>6, Zenon DEF AccountInv
  <2> QED BY <1>1, <1>2, <2>1, FillCharges
<1>7. rows' # {}
  BY <1>1
<1> QED BY <1>3, <1>4, <1>5, <1>6, <1>7, Zenon DEF AccountInv

LEMMA AccountConnect ==
  ASSUME AccountInv, NEW c \in Connections, Connect(c) PROVE AccountInv'
<1>1. /\ UNCHANGED <<pc, position, rows, synced>> /\ used' = 0 /\ costed' = FALSE
  BY DEF Connect
<1>2. Tallies(position, rows)' <=> Tallies(position, rows)
  BY <1>1 DEF Tallies
<1>3. ASSUME rows' = {} PROVE used' = Money[rows' \cap Buys]
  <2>1. rows' \cap Buys = {}
    BY <1>3
  <2> QED BY <1>1, <2>1, NothingFilled
<1>4. 0 \in Nat
  OBVIOUS
<1> QED BY <1>1, <1>2, <1>3, <1>4, Zenon DEF AccountInv

LEMMA AccountRestore ==
  ASSUME AccountInv, NEW c \in Connections, Restore(c) PROVE AccountInv'
<1>1. UNCHANGED <<pc, rows>>
  BY DEF Restore
<1>2. rows \in SUBSET Orders /\ rows \cap Buys \in SUBSET Orders
  BY DEF AccountInv
<1>3. CASE rows # {} /\ position' = Rebuilt[rows] /\ used' = Costs[rows]
  <2>1. Tallies(position', rows') /\ position' \in Positions
    BY <1>1, <1>2, <1>3, RebuiltTallies DEF Tallies
  <2>2. Tallies(position, rows)'
    BY <2>1, Zenon DEF Tallies
  <2>3. used' = Money[rows' \cap Buys] /\ used' \in Nat
    BY <1>1, <1>2, <1>3, CostsAre, TotalsAre
  <2> QED BY <1>1, <2>1, <2>2, <2>3, Zenon DEF AccountInv
<1>4. CASE rows = {} /\ UNCHANGED book
  <2>1. position' = position /\ used' = used
    BY <1>4 DEF book
  <2>2. Tallies(position, rows)' <=> Tallies(position, rows)
    BY <1>1, <2>1 DEF Tallies
  <2> QED BY <1>1, <1>4, <2>1, <2>2, Zenon DEF AccountInv
<1>5. CASE UNCHANGED <<book, listed, synced, costed>>
  BY <1>1, <1>5, AccountKept DEF AccountInv, book
<1> QED BY <1>3, <1>4, <1>5 DEF Restore

LEMMA AccountCrash == AccountInv /\ Crash => AccountInv'
<1> SUFFICES ASSUME AccountInv, Crash PROVE AccountInv'
  OBVIOUS
<1>1. /\ pc' = [o \in Orders |-> IF pc[o] \in {"delay", "quote", "lock"} THEN "lost" ELSE pc[o]]
      /\ rows' = rows /\ position' = Flat /\ used' = 0 /\ synced' = FALSE
  BY DEF Crash
<1>2. /\ pc' \in [Orders -> {"new", "delay", "quote", "lock",
                             "filled", "pending", "rejected", "lost"}]
      /\ rows' = {x \in Orders : pc'[x] = "filled"}
  BY <1>1 DEF AccountInv
<1>3. Flat \in Positions /\ Flat.bought - Flat.sold = 0
      /\ Flat.realised + Flat.proceeds - Flat.cost = 0
  BY DEF Flat, Positions
<1>4. ASSUME rows' = {} PROVE Tallies(position', rows') /\ used' = Money[rows' \cap Buys]
  <2>1. rows' \cap Buys = {} /\ rows' \ Buys = {}
    BY <1>4
  <2> QED BY <1>1, <1>3, <2>1, NothingFilled DEF Tallies
<1>5. Tallies(position', rows') <=> Tallies(position, rows)'
  BY Zenon DEF Tallies
<1>6. 0 \in Nat
  OBVIOUS
<1> QED BY <1>1, <1>2, <1>3, <1>4, <1>5, <1>6, Zenon DEF AccountInv

LEMMA AccountNext == AccountInv /\ [Next]_vars => AccountInv'
<1> SUFFICES ASSUME AccountInv, [Next]_vars PROVE AccountInv'
  OBVIOUS
<1> USE DEF book, history, vars
<1>1. ASSUME NEW o \in Orders, Place(o) PROVE AccountInv'
  BY <1>1, AccountKept DEF Place, AccountInv
<1>2. ASSUME NEW o \in Orders, Check(o) PROVE AccountInv'
  BY <1>2, AccountKept DEF Check, AccountInv
<1>3. ASSUME NEW o \in Orders, Price(o) PROVE AccountInv'
  BY <1>3, AccountKept DEF Price, AccountInv
<1>4. ASSUME NEW o \in Orders, Cancel(o) PROVE AccountInv'
  BY <1>4, AccountKept DEF Cancel, AccountInv
<1>5. CASE Done \/ UNCHANGED vars
  BY <1>5, AccountKept DEF Done, AccountInv
<1> QED BY <1>1, <1>2, <1>3, <1>4, <1>5, AccountCommit, AccountConnect, AccountRestore,
           AccountCrash DEF Next, Working

LEMMA Accounted == Spec => []AccountInv
BY AccountInit, AccountNext, PTL DEF Spec

LEMMA FilledIs ==
  AccountInv => Filled("BUY") = rows \cap Buys /\ Filled("SELL") = rows \ Buys
<1> SUFFICES ASSUME AccountInv
             PROVE  Filled("BUY") = rows \cap Buys /\ Filled("SELL") = rows \ Buys
  OBVIOUS
<1>1. rows = {o \in Orders : pc[o] = "filled"}
  BY DEF AccountInv
<1>2. \A o \in Orders : Detail[o].side = "SELL" <=> o \notin Buys
  BY OrdersAre DEF Buys
<1> QED BY <1>1, <1>2 DEF Filled, Buys

\* Whatever overtakes what, the holding in memory is what the filled orders bought less
\* what they sold: no rebuild doubles a unit or loses one (place_order,
\* _restore_positions).
THEOREM HoldingIsFilled == Spec => []HoldingsAreFills
<1>1. AccountInv => HoldingsAreFills
  BY FilledIs DEF AccountInv, HoldingsAreFills, Tallies
<1> QED BY <1>1, Accounted, PTL

\* The realised profit and what is open account for the cash of every fill, in whatever
\* order the fills came and the rebuilds replayed them (_update_position).
THEOREM PaperCashBalances == Spec => []PaperCashIsConserved
<1>1. AccountInv => PaperCashIsConserved
  BY FilledIs DEF AccountInv, PaperCashIsConserved, Tallies
<1> QED BY <1>1, Accounted, PTL

\* However often and from wherever connect() ran, the used margin that a rebuild leaves
\* is the money of the purchases in the audit trail (_reset_account).
THEOREM MarginIsCharged == Spec => []MarginIsTheAudit
<1>1. AccountInv => MarginIsTheAudit
  BY FilledIs DEF AccountInv, MarginIsTheAudit
<1> QED BY <1>1, Accounted, PTL

--------------------------------------------------------------------------------
(* The list of the broker and the types. *)

\* Who waits for the lock is in its queue; the account is reset or connected.
TypeInv ==
  /\ queue \in Seq(Orders \cup Connections)
  /\ \A o \in Orders : pc[o] = "lock" => \E i \in DOMAIN queue : queue[i] = o
  /\ total \in {0, Capital}
  /\ DOMAIN listed \subseteq Orders
  /\ \A o \in DOMAIN listed : listed[o] \in {"PENDING", "FILLED", "CANCELLED"}
  /\ synced => rows \subseteq DOMAIN listed
  /\ connects \in [Connections -> 0..MaxConnects]
  /\ ready \in BOOLEAN /\ synced \in BOOLEAN /\ costed \in BOOLEAN
  /\ crashes \in 0..MaxCrashes

\* One more waits for the lock; the head gives it up.
LEMMA QueueGrows ==
  ASSUME queue \in Seq(Orders \cup Connections), NEW a \in Orders \cup Connections
  PROVE  /\ Append(queue, a) \in Seq(Orders \cup Connections)
         /\ \E i \in DOMAIN Append(queue, a) : Append(queue, a)[i] = a
         /\ \A i \in DOMAIN queue : i \in DOMAIN Append(queue, a) /\ Append(queue, a)[i] = queue[i]
<1> DEFINE q == Append(queue, a)
<1>1. q \in Seq(Orders \cup Connections) /\ Len(q) = Len(queue) + 1 /\ Len(queue) \in Nat
  OBVIOUS
<1>2. q[Len(queue) + 1] = a /\ \A i \in 1..Len(queue) : q[i] = queue[i]
  OBVIOUS
<1>3. DOMAIN q = 1..Len(q) /\ DOMAIN queue = 1..Len(queue)
  BY <1>1
<1> HIDE DEF q
<1>4. \A i \in DOMAIN queue : i \in DOMAIN q /\ q[i] = queue[i]
  BY <1>1, <1>2, <1>3
<1>5. Len(queue) + 1 \in DOMAIN q
  BY <1>1, <1>3
<1> QED BY <1>1, <1>2, <1>4, <1>5, Zenon DEF q

LEMMA QueueShrinks ==
  ASSUME queue \in Seq(Orders \cup Connections), queue # <<>>
  PROVE  /\ Tail(queue) \in Seq(Orders \cup Connections)
         /\ \A i \in DOMAIN queue : queue[i] # Head(queue) =>
              i - 1 \in DOMAIN Tail(queue) /\ Tail(queue)[i - 1] = queue[i]
<1>1. Tail(queue) \in Seq(Orders \cup Connections)
  OBVIOUS
<1>2. ASSUME NEW i \in DOMAIN queue, queue[i] # Head(queue)
      PROVE  i - 1 \in DOMAIN Tail(queue) /\ Tail(queue)[i - 1] = queue[i]
  <2>1. i \in 1..Len(queue) /\ i # 1 /\ Len(queue) \in Nat
    BY <1>2
  <2>2. Len(Tail(queue)) = Len(queue) - 1 /\ DOMAIN Tail(queue) = 1..Len(Tail(queue))
    OBVIOUS
  <2>3. i - 1 \in 1..(Len(queue) - 1)
    BY <2>1
  <2> QED BY <2>1, <2>2, <2>3
<1> QED BY <1>1, <1>2

LEMMA TypeInit == Init => TypeInv
<1> SUFFICES ASSUME Init PROVE TypeInv
  OBVIOUS
<1>1. DOMAIN listed = {} /\ rows = {}
  <2>1. listed = <<>> /\ rows = {}
    BY DEF Init
  <2> QED BY <2>1
<1>2. queue \in Seq(Orders \cup Connections)
  BY DEF Init
<1>3. connects \in [Connections -> 0..MaxConnects] /\ crashes \in 0..MaxCrashes
  BY BoundsAssumption DEF Init
<1> QED BY <1>1, <1>2, <1>3 DEF Init, TypeInv

\* What an order does before it is filled keeps the types.
LEMMA TypeSteps ==
  ASSUME AccountInv, TypeInv, NEW o \in Orders, Place(o) \/ Check(o) \/ Price(o) \/ Cancel(o)
  PROVE  TypeInv'
<1> USE DEF book, history
<1>1. CASE Place(o) \/ Check(o)
  <2>1. UNCHANGED <<queue, listed, total, rows, history>>
    BY <1>1 DEF Place, Check
  <2>2. \A x \in Orders : pc'[x] = "lock" => pc[x] = "lock"
    BY <1>1 DEF Place, Check, AccountInv
  <2> QED BY <2>1, <2>2 DEF TypeInv
<1>2. CASE Price(o)
  <2>1. UNCHANGED <<total, rows, history>> /\ pc[o] = "quote"
    BY <1>2 DEF Price
  <2>2. CASE /\ pc' = [pc EXCEPT ![o] = "pending"]
             /\ listed' = [x \in DOMAIN listed \cup {o} |->
                             IF x = o THEN "PENDING" ELSE listed[x]]
             /\ queue' = queue
    <3>1. \A x \in Orders : pc'[x] = "lock" => pc[x] = "lock"
      BY <2>2 DEF AccountInv
    <3> QED BY <2>1, <2>2, <3>1 DEF TypeInv
  <2>3. CASE pc' = [pc EXCEPT ![o] = "lock"] /\ queue' = Append(queue, o) /\ listed' = listed
    <3>1. \A x \in Orders : pc'[x] = "lock" => pc[x] = "lock" \/ x = o
      BY <2>3 DEF AccountInv
    <3>2. queue \in Seq(Orders \cup Connections)
      BY DEF TypeInv
    <3>3. /\ queue' \in Seq(Orders \cup Connections)
          /\ \E i \in DOMAIN queue' : queue'[i] = o
          /\ \A i \in DOMAIN queue : i \in DOMAIN queue' /\ queue'[i] = queue[i]
      BY <2>3, <3>2, QueueGrows
    <3>4. ASSUME NEW x \in Orders, pc'[x] = "lock"
          PROVE  \E i \in DOMAIN queue' : queue'[i] = x
      <4>1. CASE x = o
        BY <3>3, <4>1, Zenon
      <4>2. CASE pc[x] = "lock"
        <5>1. PICK i \in DOMAIN queue : queue[i] = x
          BY <4>2, Zenon DEF TypeInv
        <5> QED BY <3>3, <5>1, Zenon
      <4> QED BY <3>1, <3>4, <4>1, <4>2
    <3> QED BY <2>1, <2>3, <3>3, <3>4 DEF TypeInv
  <2> QED BY <1>2, <2>2, <2>3 DEF Price
<1>3. CASE Cancel(o)
  <2>1. /\ UNCHANGED <<pc, queue, total, rows, history>> /\ o \in DOMAIN listed
        /\ listed' = [listed EXCEPT ![o] = "CANCELLED"]
    BY <1>3 DEF Cancel
  <2>2. DOMAIN listed' = DOMAIN listed
    BY <2>1
  <2>3. \A x \in DOMAIN listed' : listed'[x] \in {"PENDING", "FILLED", "CANCELLED"}
    BY <2>1, <2>2 DEF TypeInv
  <2> QED BY <2>1, <2>2, <2>3 DEF TypeInv
<1> QED BY <1>1, <1>2, <1>3

LEMMA TypeCommit ==
  ASSUME AccountInv, TypeInv, NEW o \in Orders, Commit(o) PROVE TypeInv'
<1> USE DEF book, history
<1>1. /\ pc[o] = "lock" /\ Head(queue) = o /\ queue' = Tail(queue)
      /\ listed' = [x \in DOMAIN listed \cup {o} |-> IF x = o THEN "FILLED" ELSE listed[x]]
      /\ pc' = [pc EXCEPT ![o] = "filled"] /\ rows' = rows \cup {o}
      /\ UNCHANGED <<total, history>>
  BY DEF Commit
<1>2. queue \in Seq(Orders \cup Connections) /\ queue # <<>>
  BY <1>1 DEF TypeInv
<1>3. /\ queue' \in Seq(Orders \cup Connections)
      /\ \A i \in DOMAIN queue : queue[i] # o =>
           i - 1 \in DOMAIN queue' /\ queue'[i - 1] = queue[i]
  BY <1>1, <1>2, QueueShrinks
<1>4. \A x \in Orders : pc'[x] = "lock" => x # o /\ pc[x] = "lock"
  BY <1>1 DEF AccountInv
<1>5. ASSUME NEW x \in Orders, pc'[x] = "lock" PROVE \E i \in DOMAIN queue' : queue'[i] = x
  <2>1. PICK i \in DOMAIN queue : queue[i] = x
    BY <1>4, <1>5, Zenon DEF TypeInv
  <2> QED BY <1>3, <1>4, <1>5, <2>1, Zenon
<1>6. /\ DOMAIN listed' = DOMAIN listed \cup {o}
      /\ \A x \in DOMAIN listed' : listed'[x] = IF x = o THEN "FILLED" ELSE listed[x]
  BY <1>1
<1> QED BY <1>1, <1>3, <1>5, <1>6 DEF TypeInv

LEMMA TypeConnect ==
  ASSUME TypeInv, NEW c \in Connections, Connect(c) PROVE TypeInv'
<1>1. /\ connects[c] < MaxConnects /\ connects' = [connects EXCEPT ![c] = @ + 1]
      /\ total' = Capital /\ queue' = Append(queue, c) /\ costed' = FALSE
      /\ UNCHANGED <<pc, listed, rows, ready, synced, crashes>>
  BY DEF Connect
<1>2. queue \in Seq(Orders \cup Connections)
  BY DEF TypeInv
<1>3. /\ queue' \in Seq(Orders \cup Connections)
      /\ \A i \in DOMAIN queue : i \in DOMAIN queue' /\ queue'[i] = queue[i]
  BY <1>1, <1>2, QueueGrows
<1>4. connects' \in [Connections -> 0..MaxConnects]
  BY <1>1, BoundsAssumption DEF TypeInv
<1>5. \A x \in Orders : pc'[x] = "lock" => \E i \in DOMAIN queue' : queue'[i] = x
  <2> SUFFICES ASSUME NEW x \in Orders, pc'[x] = "lock"
               PROVE  \E i \in DOMAIN queue' : queue'[i] = x
    OBVIOUS
  <2>1. PICK i \in DOMAIN queue : queue[i] = x
    BY <1>1, Zenon DEF TypeInv
  <2> QED BY <1>3, <2>1, Zenon
<1> QED BY <1>1, <1>3, <1>4, <1>5 DEF TypeInv

LEMMA TypeRestore ==
  ASSUME AccountInv, TypeInv, NEW c \in Connections, Restore(c) PROVE TypeInv'
<1> USE DEF book
<1>1. /\ queue # <<>> /\ Head(queue) = c /\ queue' = Tail(queue) /\ ready' = TRUE
      /\ UNCHANGED <<pc, rows, connects, crashes>>
  BY DEF Restore
<1>2. queue \in Seq(Orders \cup Connections)
  BY DEF TypeInv
<1>3. /\ queue' \in Seq(Orders \cup Connections)
      /\ \A i \in DOMAIN queue : queue[i] # c =>
           i - 1 \in DOMAIN queue' /\ queue'[i - 1] = queue[i]
  BY <1>1, <1>2, QueueShrinks
<1>4. \A x \in Orders : x # c
  BY ActorsAssumption
<1>5. ASSUME NEW x \in Orders, pc'[x] = "lock" PROVE \E i \in DOMAIN queue' : queue'[i] = x
  <2>1. PICK i \in DOMAIN queue : queue[i] = x
    BY <1>1, <1>5, Zenon DEF TypeInv
  <2> QED BY <1>3, <1>4, <1>5, <2>1, Zenon
<1>6. rows \in SUBSET Orders
  BY DEF AccountInv
<1>7. CASE /\ total' = Capital /\ listed' = [x \in rows |-> "FILLED"]
           /\ synced' = TRUE /\ costed' = TRUE
  <2>1. DOMAIN listed' = rows /\ \A x \in DOMAIN listed' : listed'[x] = "FILLED"
    BY <1>7
  <2> QED BY <1>1, <1>3, <1>5, <1>6, <1>7, <2>1 DEF TypeInv
<1>8. CASE rows = {} /\ UNCHANGED <<total, listed>> /\ synced' = TRUE /\ costed' = TRUE
  BY <1>1, <1>3, <1>5, <1>8 DEF TypeInv
<1>9. CASE UNCHANGED <<total, listed, synced, costed>>
  BY <1>1, <1>3, <1>5, <1>9 DEF TypeInv
<1> QED BY <1>7, <1>8, <1>9 DEF Restore

LEMMA TypeCrash == AccountInv /\ TypeInv /\ Crash => TypeInv'
<1> SUFFICES ASSUME AccountInv, TypeInv, Crash PROVE TypeInv'
  OBVIOUS
<1>1. /\ crashes < MaxCrashes /\ crashes' = crashes + 1
      /\ pc' = [o \in Orders |-> IF pc[o] \in {"delay", "quote", "lock"} THEN "lost" ELSE pc[o]]
      /\ queue' = <<>> /\ total' = 0
      /\ ready' = FALSE /\ synced' = FALSE /\ costed' = FALSE
      /\ UNCHANGED <<rows, connects>>
  BY DEF Crash
<1>2. DOMAIN listed' = {}
  <2>1. listed' = <<>>
    BY DEF Crash
  <2> QED BY <2>1
<1>3. \A o \in Orders : pc'[o] # "lock"
  BY <1>1
<1>4. queue' \in Seq(Orders \cup Connections)
  BY <1>1
<1>5. crashes' \in 0..MaxCrashes
  BY <1>1, BoundsAssumption DEF TypeInv
<1> QED BY <1>1, <1>2, <1>3, <1>4, <1>5 DEF TypeInv

LEMMA TypeNext == AccountInv /\ TypeInv /\ [Next]_vars => TypeInv'
<1> SUFFICES ASSUME AccountInv, TypeInv, [Next]_vars PROVE TypeInv'
  OBVIOUS
<1>1. CASE Done \/ UNCHANGED vars
  BY <1>1 DEF Done, TypeInv, vars, book, history
<1> QED BY <1>1, TypeSteps, TypeCommit, TypeConnect, TypeRestore, TypeCrash
        DEF Next, Working

\* Every variable keeps its type: the lock is only released by the order or the caller
\* that holds it, and no leg of a position nor the used margin ever goes below zero.
THEOREM PaperTypeCorrect == Spec => []TypeOK
<1>1. AccountInv /\ TypeInv => TypeOK
  BY DEF AccountInv, TypeInv, TypeOK, Positions
<1>2. Spec => []TypeInv
  BY TypeInit, TypeNext, Accounted, PTL DEF Spec
<1> QED BY <1>1, <1>2, Accounted, PTL

\* Whatever a rebuild overtakes and whatever its query answers, an order that was filled
\* is in the list and in the audit trail (place_order, _restore_positions).
THEOREM FillsStayListed == Spec => []FillsAreListed
<1>1. AccountInv /\ TypeInv => FillsAreListed
  BY DEF AccountInv, TypeInv, FillsAreListed
<1>2. Spec => []TypeInv
  BY TypeInit, TypeNext, Accounted, PTL DEF Spec
<1> QED BY <1>1, <1>2, Accounted, PTL
================================================================================
