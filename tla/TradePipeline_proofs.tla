-------------------------- MODULE TradePipeline_proofs --------------------------
(* Theorems about the trade pipeline, for every set of fills and bound on restarts. *)
EXTENDS TradePipeline, Sums_proofs

LEMMA ApplyTyped ==
  ASSUME NEW S, NEW lots \in [longs : Seq(S), shorts : Seq(S)], NEW side \in Sides,
         NEW q \in Nat \ {0}, NEW p \in S
  PROVE  Apply(lots, side, q, p) \in [longs : Seq(S), shorts : Seq(S)]
<1>1. Len(Opposite(lots, side)) \in Nat /\ Opposite(lots, side) \in Seq(S)
  BY DEF Opposite, Sides
<1>2. Used(lots, side, q) \in 0..Len(Opposite(lots, side)) /\ Used(lots, side, q) <= q
  BY <1>1 DEF Used
<1>3. SubSeq(Opposite(lots, side), Used(lots, side, q) + 1, Len(Opposite(lots, side))) \in Seq(S)
  BY <1>1, <1>2
<1>4. Units(q - Used(lots, side, q), p) \in Seq(S)
  <2>1. q - Used(lots, side, q) \in Nat
    BY <1>1, <1>2
  <2>2. Units(q - Used(lots, side, q), p) \in [1..(q - Used(lots, side, q)) -> S]
    BY DEF Units
  <2> QED BY <2>1, <2>2, SeqDef
<1> QED BY <1>3, <1>4 DEF Apply, Sides

LEMMA ApplyOneSided ==
  ASSUME NEW S, NEW lots \in [longs : Seq(S), shorts : Seq(S)], NEW side \in Sides,
         NEW q \in Nat \ {0}, NEW p \in S, OneSided(lots)
  PROVE  OneSided(Apply(lots, side, q, p))
<1>1. Len(Opposite(lots, side)) \in Nat /\ Opposite(lots, side) \in Seq(S)
  BY DEF Opposite, Sides
<1>2. CASE q < Len(Opposite(lots, side))
  <2>1. Units(q - Used(lots, side, q), p) = <<>>
    BY <1>1, <1>2 DEF Units, Used
  <2> QED BY <1>1, <1>2, <2>1 DEF Apply, OneSided, Opposite, Sides
<1>3. CASE ~(q < Len(Opposite(lots, side)))
  <2>1. SubSeq(Opposite(lots, side), Used(lots, side, q) + 1, Len(Opposite(lots, side))) = <<>>
    BY <1>1, <1>3 DEF Used
  <2> QED BY <2>1 DEF Apply, OneSided, Sides
<1> QED BY <1>2, <1>3

--------------------------------------------------------------------------------
(* What one fill does to the lots: quantity, money and order. *)

LEMMA FillTyped ==
  ASSUME NEW r \in Reports
  PROVE  /\ r[1] \in Fills /\ Detail[r[1]].side \in Sides /\ Detail[r[1]].qty \in Nat \ {0}
         /\ Detail[r[1]].price \in Prices
<1>1. r[1] \in Fills
  BY DEF Reports
<1> QED BY <1>1, DetailAssumption DEF Prices

LEMMA PricesAreNumbers == Prices \subseteq Nat
BY DetailAssumption DEF Prices

\* What a fill takes, leaves and opens.
Left(lots, side, q) ==
  SubSeq(Opposite(lots, side), Used(lots, side, q) + 1, Len(Opposite(lots, side)))
Opened(lots, side, q, p) == Units(q - Used(lots, side, q), p)

Parts(S, lots, side, q, p) ==
  /\ Opposite(lots, side) \in Seq(S)
  /\ Used(lots, side, q) \in 0..Len(Opposite(lots, side)) /\ Used(lots, side, q) <= q
  /\ Closed(lots, side, q) \in Seq(S) /\ Len(Closed(lots, side, q)) = Used(lots, side, q)
  /\ Left(lots, side, q) \in Seq(S)
  /\ Len(Left(lots, side, q)) = Len(Opposite(lots, side)) - Used(lots, side, q)
  /\ Closed(lots, side, q) \o Left(lots, side, q) = Opposite(lots, side)
  /\ Opened(lots, side, q, p) \in Seq(S)
  /\ Len(Opened(lots, side, q, p)) = q - Used(lots, side, q)

LEMMA ApplyParts ==
  ASSUME NEW S, NEW lots \in [longs : Seq(S), shorts : Seq(S)], NEW side \in Sides,
         NEW q \in Nat \ {0}, NEW p \in S
  PROVE  Parts(S, lots, side, q, p)
<1> DEFINE other == Opposite(lots, side)
           u     == Used(lots, side, q)
           left  == SubSeq(other, u + 1, Len(other))
           rest  == Units(q - u, p)
<1>1. other \in Seq(S) /\ Len(other) \in Nat
  BY DEF Opposite, Sides
<1>2. u \in 0..Len(other) /\ u <= q
  BY <1>1 DEF Used
<1>3. /\ SubSeq(other, 1, u) \in Seq(S) /\ Len(SubSeq(other, 1, u)) = u
      /\ left \in Seq(S) /\ Len(left) = Len(other) - u
      /\ SubSeq(other, 1, u) \o left = other
  <2> HIDE DEF other, u
  <2> QED BY <1>1, <1>2, SplitAt
<1>4. Closed(lots, side, q) = SubSeq(other, 1, u)
  BY DEF Closed
<1>5. q - u \in Nat
  BY <1>1, <1>2
<1>6. rest \in Seq(S) /\ Len(rest) = q - u
  <2> HIDE DEF u
  <2> QED BY <1>5 DEF Units
<1> HIDE DEF other, u, left, rest
<1> QED BY <1>1, <1>2, <1>3, <1>4, <1>6, Zenon DEF other, u, left, rest, Left, Opened, Parts

\* The net quantity moves by the quantity of the fill.
LEMMA ApplyNet ==
  ASSUME NEW S, NEW lots \in [longs : Seq(S), shorts : Seq(S)], NEW side \in Sides,
         NEW q \in Nat \ {0}, NEW p \in S
  PROVE  NetQuantity(Apply(lots, side, q, p))
           = NetQuantity(lots) + (IF side = "BUY" THEN q ELSE -q)
<1> DEFINE other == Opposite(lots, side)
           u     == Used(lots, side, q)
           left  == Left(lots, side, q)
           rest  == Opened(lots, side, q, p)
<1>1. /\ other \in Seq(S) /\ u \in 0..Len(other) /\ u <= q
      /\ left \in Seq(S) /\ Len(left) = Len(other) - u
      /\ rest \in Seq(S) /\ Len(rest) = q - u
  <2>1. Parts(S, lots, side, q, p)
    BY ApplyParts
  <2> QED BY <2>1, Zenon DEF Parts
<1>2. Apply(lots, side, q, p) = IF side = "BUY" THEN [longs |-> lots.longs \o rest, shorts |-> left]
                                ELSE [longs |-> left, shorts |-> lots.shorts \o rest]
  BY DEF Apply, Left, Opened
<1>3. other = IF side = "BUY" THEN lots.shorts ELSE lots.longs
  BY DEF Opposite
<1> HIDE DEF other, u, left, rest
<1>4. lots.longs \in Seq(S) /\ lots.shorts \in Seq(S)
  OBVIOUS
<1>5. /\ Len(lots.longs) \in Nat /\ Len(lots.shorts) \in Nat
      /\ Len(lots.longs \o rest) = Len(lots.longs) + (q - u)
      /\ Len(lots.shorts \o rest) = Len(lots.shorts) + (q - u)
  <2>1. Len(lots.longs \o rest) = Len(lots.longs) + Len(rest)
    BY <1>1, <1>4, ConcatProperties, ZenonT(60)
  <2>2. Len(lots.shorts \o rest) = Len(lots.shorts) + Len(rest)
    BY <1>1, <1>4, ConcatProperties, ZenonT(60)
  <2>3. Len(lots.longs) \in Nat /\ Len(lots.shorts) \in Nat
    BY <1>4, LenProperties, Zenon
  <2> QED BY <1>1, <2>1, <2>2, <2>3
<1>6. CASE side = "BUY"
  <2>1. /\ Apply(lots, side, q, p).longs = lots.longs \o rest
        /\ Apply(lots, side, q, p).shorts = left /\ other = lots.shorts
    BY <1>2, <1>3, <1>6
  <2>2. NetQuantity(Apply(lots, side, q, p))
          = (Len(lots.longs) + (q - u)) - (Len(lots.shorts) - u)
    BY <1>1, <1>5, <2>1 DEF NetQuantity
  <2>3. u \in Int
    BY <1>1, <1>5, <2>1
  <2>4. NetQuantity(lots) = Len(lots.longs) - Len(lots.shorts)
    BY DEF NetQuantity
  <2>5. (IF side = "BUY" THEN q ELSE -q) = q
    BY <1>6
  <2> QED BY <1>5, <2>2, <2>3, <2>4, <2>5
<1>7. CASE side = "SELL"
  <2>1. /\ Apply(lots, side, q, p).longs = left
        /\ Apply(lots, side, q, p).shorts = lots.shorts \o rest /\ other = lots.longs
    BY <1>2, <1>3, <1>7
  <2>2. NetQuantity(Apply(lots, side, q, p))
          = (Len(lots.longs) - u) - (Len(lots.shorts) + (q - u))
    BY <1>1, <1>5, <2>1 DEF NetQuantity
  <2>3. u \in Int
    BY <1>1, <1>5, <2>1
  <2>4. NetQuantity(lots) = Len(lots.longs) - Len(lots.shorts)
    BY DEF NetQuantity
  <2>5. (IF side = "BUY" THEN q ELSE -q) = -q
    BY <1>7
  <2> QED BY <1>5, <2>2, <2>3, <2>4, <2>5
<1> QED BY <1>6, <1>7 DEF Sides

\* What the lots cost moves by the money of the fill and by what it realises.
LEMMA ApplyWorth ==
  ASSUME NEW lots \in [longs : Seq(Prices), shorts : Seq(Prices)], NEW side \in Sides,
         NEW q \in Nat \ {0}, NEW p \in Prices
  PROVE  /\ Realized(lots, side, q, p) \in Int
         /\ Worth(lots.longs) \in Int /\ Worth(lots.shorts) \in Int
         /\ LET new == Apply(lots, side, q, p)
            IN  Worth(new.longs) - Worth(new.shorts)
                  = Worth(lots.longs) - Worth(lots.shorts) + Realized(lots, side, q, p)
                    + (IF side = "BUY" THEN q * p ELSE -(q * p))
<1> DEFINE other == Opposite(lots, side)
           u     == Used(lots, side, q)
           taken == Closed(lots, side, q)
           left  == Left(lots, side, q)
           rest  == Opened(lots, side, q, p)
<1>0. Prices \subseteq Int
  BY PricesAreNumbers
<1>p. Parts(Prices, lots, side, q, p)
  BY ApplyParts
<1>1. /\ other \in Seq(Prices) /\ u \in 0..Len(other) /\ u <= q
      /\ taken \in Seq(Prices) /\ Len(taken) = u
      /\ left \in Seq(Prices) /\ Len(left) = Len(other) - u
      /\ taken \o left = other
      /\ rest \in Seq(Prices) /\ Len(rest) = q - u
  BY <1>p, Zenon DEF Parts
<1>2. Apply(lots, side, q, p) = IF side = "BUY" THEN [longs |-> lots.longs \o rest, shorts |-> left]
                                ELSE [longs |-> left, shorts |-> lots.shorts \o rest]
  BY DEF Apply, Left, Opened
<1>3. other = IF side = "BUY" THEN lots.shorts ELSE lots.longs
  BY DEF Opposite
<1>4. Realized(lots, side, q, p) = IF side = "BUY" THEN -(Len(taken) * p - Worth(taken))
                                   ELSE Len(taken) * p - Worth(taken)
  BY DEF Realized
<1>5. Worth(rest) = (q - u) * p
  <2>1. q - u \in Nat /\ p \in Int
    BY <1>0, <1>1
  <2> HIDE DEF u
  <2> QED BY <2>1, TotalConstant DEF Worth, Units, Opened, u
<1> HIDE DEF other, u, taken, left, rest
<1>a. /\ lots.longs \in Seq(Int) /\ lots.shorts \in Seq(Int) /\ rest \in Seq(Int)
      /\ taken \in Seq(Int) /\ left \in Seq(Int)
  BY <1>1, <1>0, SeqMonotonic
<1>7. /\ Worth(lots.longs \o rest) = Worth(lots.longs) + Worth(rest)
      /\ Worth(lots.shorts \o rest) = Worth(lots.shorts) + Worth(rest)
      /\ Worth(other) = Worth(taken) + Worth(left)
  BY <1>1, <1>a, TotalConcat DEF Worth
<1>8. /\ Worth(lots.longs) \in Int /\ Worth(lots.shorts) \in Int
      /\ Worth(taken) \in Int /\ Worth(left) \in Int
  BY <1>a, TotalType DEF Worth
<1>9. u \in Int /\ q * p \in Int /\ u * p \in Int /\ (q - u) * p = q * p - u * p
  BY <1>0, <1>1
<1>10. Realized(lots, side, q, p) = IF side = "BUY" THEN -(u * p - Worth(taken))
                                    ELSE u * p - Worth(taken)
  BY <1>1, <1>4
<1>11. Realized(lots, side, q, p) \in Int
  BY <1>8, <1>9, <1>10
<1>12. CASE side = "BUY"
  <2>1. /\ Apply(lots, side, q, p).longs = lots.longs \o rest
        /\ Apply(lots, side, q, p).shorts = left /\ other = lots.shorts
        /\ Realized(lots, side, q, p) = -(u * p - Worth(taken))
    BY <1>2, <1>3, <1>10, <1>12
  <2>2. /\ Worth(lots.longs \o rest) = Worth(lots.longs) + (q * p - u * p)
        /\ Worth(left) = Worth(lots.shorts) - Worth(taken)
    BY <1>5, <1>7, <1>8, <1>9, <2>1
  <2> DEFINE qp == q * p
             up == u * p
  <2> HIDE DEF qp, up
  <2>3. qp \in Int /\ up \in Int
    BY <1>9 DEF qp, up
  <2>4. Worth(lots.longs \o rest) - Worth(left)
          = Worth(lots.longs) - Worth(lots.shorts) + Realized(lots, side, q, p) + qp
    BY <1>8, <2>1, <2>2, <2>3 DEF qp, up
  <2> QED BY <1>8, <1>11, <1>12, <2>1, <2>4 DEF qp
<1>13. CASE side = "SELL"
  <2>1. /\ Apply(lots, side, q, p).longs = left
        /\ Apply(lots, side, q, p).shorts = lots.shorts \o rest /\ other = lots.longs
        /\ Realized(lots, side, q, p) = u * p - Worth(taken)
        /\ side # "BUY"
    BY <1>2, <1>3, <1>10, <1>13
  <2>2. /\ Worth(lots.shorts \o rest) = Worth(lots.shorts) + (q * p - u * p)
        /\ Worth(left) = Worth(lots.longs) - Worth(taken)
    BY <1>5, <1>7, <1>8, <1>9, <2>1
  <2> DEFINE qp == q * p
             up == u * p
  <2> HIDE DEF qp, up
  <2>3. qp \in Int /\ up \in Int
    BY <1>9 DEF qp, up
  <2>4. Worth(left) - Worth(lots.shorts \o rest)
          = Worth(lots.longs) - Worth(lots.shorts) + Realized(lots, side, q, p) + (-qp)
    BY <1>8, <2>1, <2>2, <2>3 DEF qp, up
  <2> QED BY <1>8, <1>11, <2>1, <2>4 DEF qp
<1> QED BY <1>12, <1>13 DEF Sides

LEMMA UnitsSplit ==
  ASSUME NEW S, NEW q \in Nat, NEW u \in 0..q, NEW p \in S
  PROVE  /\ Units(q, p) \in Seq(S) /\ Units(u, p) \in Seq(S) /\ Units(q - u, p) \in Seq(S)
         /\ Units(q, p) = Units(u, p) \o Units(q - u, p)
<1>1. u \in Nat /\ q - u \in Nat
  OBVIOUS
<1>2. \A n \in Nat : /\ Units(n, p) \in Seq(S) /\ Len(Units(n, p)) = n
                     /\ \A i \in 1..n : Units(n, p)[i] = p
  BY DEF Units
<1> DEFINE a == Units(u, p)
           b == Units(q - u, p)
<1>3. /\ a \in Seq(S) /\ Len(a) = u /\ \A i \in 1..u : a[i] = p
      /\ b \in Seq(S) /\ Len(b) = q - u /\ \A i \in 1..(q - u) : b[i] = p
  BY <1>1, <1>2
<1> HIDE DEF a, b
<1>4. /\ a \o b \in Seq(S) /\ Len(a \o b) = Len(a) + Len(b)
      /\ \A i \in 1..Len(a) + Len(b) :
           (a \o b)[i] = IF i <= Len(a) THEN a[i] ELSE b[i - Len(a)]
  BY <1>3, ConcatProperties
<1>5. Len(a \o b) = q /\ \A i \in 1..q : (a \o b)[i] = p
  <2>1. Len(a) + Len(b) = q
    BY <1>1, <1>3
  <2>2. ASSUME NEW i \in 1..q PROVE (a \o b)[i] = p
    <3>1. CASE i <= u
      BY <1>1, <1>3, <1>4, <2>1, <3>1
    <3>2. CASE ~(i <= u)
      <4>1. i - u \in 1..(q - u) /\ Len(a) = u
        BY <1>1, <1>3, <3>2
      <4>2. (a \o b)[i] = b[i - u]
        BY <1>4, <2>1, <3>2, <4>1
      <4> QED BY <1>3, <4>1, <4>2
    <3> QED BY <3>1, <3>2
  <2> QED BY <1>4, <2>1, <2>2
<1>6. Units(q, p) = a \o b
  BY <1>2, <1>4, <1>5, SeqEqual
<1> QED BY <1>2, <1>3, <1>6 DEF a, b

\* One sequence after another, of which only these facts are needed here.
After(a, b) == a \o b

LEMMA AfterTyped == \A S : \A a, b \in Seq(S) : After(a, b) \in Seq(S)
BY DEF After
LEMMA AfterRegroups ==
  \A S : \A a, b, c \in Seq(S) : After(After(a, b), c) = After(a, After(b, c))
BY ConcatAssociative DEF After
LEMMA AfterNothing == \A S : \A a \in Seq(S) : After(a, <<>>) = a /\ After(<<>>, a) = a
BY ConcatEmptySeq DEF After

OwnLots(lots, side) == IF side = "BUY" THEN lots.longs ELSE lots.shorts

\* The lots of the side of the fill end with what the fill opened.
LEMMA ApplyOwn ==
  ASSUME NEW S, NEW lots \in [longs : Seq(S), shorts : Seq(S)], NEW side \in Sides,
         NEW q \in Nat \ {0}, NEW p \in S, OneSided(lots),
         NEW gone \in Seq(S)
  PROVE  \E v \in Seq(S) : After(After(gone, OwnLots(lots, side)), Units(q, p))
                          = After(v, OwnLots(Apply(lots, side, q, p), side))
<1> DEFINE own   == OwnLots(lots, side)
           new   == OwnLots(Apply(lots, side, q, p), side)
           other == Opposite(lots, side)
           u     == Used(lots, side, q)
           rest  == Opened(lots, side, q, p)
<1>1. own \in Seq(S) /\ new = After(own, rest)
  BY DEF OwnLots, Opposite, Apply, Opened, Sides, After
<1>2. other \in Seq(S) /\ u \in 0..Len(other) /\ u <= q /\ rest \in Seq(S)
  <2>1. Parts(S, lots, side, q, p)
    BY ApplyParts
  <2> QED BY <2>1, Zenon DEF Parts
<1>3. own = <<>> \/ other = <<>>
  BY DEF OneSided, OwnLots, Opposite, Sides
<1>4. rest = Units(q - u, p)
  BY DEF Opened
<1> HIDE DEF own, new, other, u, rest
<1>5. q \in Nat /\ u \in 0..q
  BY <1>2
<1>6. /\ Units(q, p) \in Seq(S) /\ Units(u, p) \in Seq(S)
      /\ Units(q, p) = After(Units(u, p), rest)
  <2>1. /\ Units(q, p) \in Seq(S) /\ Units(u, p) \in Seq(S)
        /\ Units(q, p) = Units(u, p) \o Units(q - u, p)
    BY <1>5, UnitsSplit, ZenonT(60)
  <2> QED BY <1>4, <2>1, Zenon DEF After
<1>7. CASE own = <<>>
  <2>1. new = rest /\ After(gone, own) = gone
    BY <1>1, <1>2, <1>7, AfterNothing
  <2>2. After(gone, Units(q, p)) = After(After(gone, Units(u, p)), rest)
    BY <1>2, <1>6, AfterRegroups
  <2>3. After(gone, Units(u, p)) \in Seq(S)
    BY <1>6, AfterTyped
  <2> QED BY <2>1, <2>2, <2>3 DEF own, new
<1>8. CASE other = <<>>
  <2>1. u = 0 /\ Units(u, p) = <<>>
    BY <1>2, <1>8 DEF Units
  <2>2. Units(q, p) = rest
    BY <1>2, <1>6, <2>1, AfterNothing
  <2>3. After(After(gone, own), Units(q, p)) = After(gone, new)
    BY <1>1, <1>2, <2>2, AfterRegroups
  <2> QED BY <2>3 DEF own, new
<1> QED BY <1>3, <1>7, <1>8 DEF own, new

\* The lots of the other side lose their oldest units.
LEMMA ApplyOther ==
  ASSUME NEW S, NEW lots \in [longs : Seq(S), shorts : Seq(S)], NEW side \in Sides,
         NEW q \in Nat \ {0}, NEW p \in S,
         NEW gone \in Seq(S)
  PROVE  \E v \in Seq(S) : After(gone, Opposite(lots, side))
                          = After(v, Opposite(Apply(lots, side, q, p), side))
<1> DEFINE other == Opposite(lots, side)
           new   == Opposite(Apply(lots, side, q, p), side)
           taken == Closed(lots, side, q)
           left  == Left(lots, side, q)
<1>1. new = left
  BY DEF Apply, Left, Opposite, Sides
<1>2. taken \in Seq(S) /\ left \in Seq(S) /\ After(taken, left) = other
  <2>1. Parts(S, lots, side, q, p)
    BY ApplyParts
  <2> QED BY <2>1, Zenon DEF Parts, After
<1> HIDE DEF other, new, taken, left
<1>3. After(gone, other) = After(After(gone, taken), left)
  BY <1>2, AfterRegroups
<1>4. After(gone, taken) \in Seq(S)
  BY <1>2, AfterTyped
<1> QED BY <1>1, <1>3, <1>4 DEF other, new

--------------------------------------------------------------------------------
(* What one trade adds to the sums over the trades. *)

LEMMA QtyAppend ==
  ASSUME NEW t \in Seq(Reports), NEW r \in Reports, NEW side \in Sides
  PROVE  /\ Qty(t, side) \in Int
         /\ Qty(Append(t, r), side)
              = Qty(t, side) + IF Detail[r[1]].side = side THEN Detail[r[1]].qty ELSE 0
<1> DEFINE G == [x \in Reports |-> IF Detail[x[1]].side = side THEN Detail[x[1]].qty ELSE 0]
           m == [i \in DOMAIN t |-> G[t[i]]]
           u == Append(t, r)
           n == [i \in DOMAIN u |-> G[u[i]]]
<1>1. G \in [Reports -> Int]
  BY FillTyped
<1>2. u \in Seq(Reports)
  OBVIOUS
<1>3. /\ \A i \in DOMAIN t : t[i] \in Reports
      /\ \A i \in DOMAIN u : u[i] \in Reports
  BY <1>2
<1>4. Qty(t, side) = Total(m) /\ Qty(u, side) = Total(n)
  <2> HIDE DEF u
  <2> QED BY <1>3 DEF Qty
<1> HIDE DEF G
<1>5. m \in Seq(Int) /\ n = Append(m, G[r]) /\ G[r] \in Int
  BY <1>1, MapAppend
<1> HIDE DEF m, n, u
<1>6. Total(m) \in Int /\ Total(n) = Total(m) + G[r]
  BY <1>5, TotalType, TotalAppend
<1> QED BY <1>4, <1>6 DEF G, u

LEMMA ValueAppend ==
  ASSUME NEW t \in Seq(Reports), NEW r \in Reports, NEW side \in Sides
  PROVE  /\ Value(t, side) \in Int
         /\ Value(Append(t, r), side)
              = Value(t, side) + IF Detail[r[1]].side = side
                                 THEN Detail[r[1]].qty * Detail[r[1]].price ELSE 0
<1> DEFINE G == [x \in Reports |-> IF Detail[x[1]].side = side
                                  THEN Detail[x[1]].qty * Detail[x[1]].price ELSE 0]
           m == [i \in DOMAIN t |-> G[t[i]]]
           u == Append(t, r)
           n == [i \in DOMAIN u |-> G[u[i]]]
<1>1. G \in [Reports -> Int]
  <2>1. ASSUME NEW x \in Reports PROVE Detail[x[1]].qty * Detail[x[1]].price \in Int
    <3>1. Detail[x[1]].qty \in Nat \ {0} /\ Detail[x[1]].price \in Prices
      BY FillTyped
    <3>2. Detail[x[1]].price \in Nat
      BY <3>1, PricesAreNumbers
    <3> QED BY <3>1, <3>2
  <2> QED BY <2>1
<1>2. u \in Seq(Reports)
  OBVIOUS
<1>3. /\ \A i \in DOMAIN t : t[i] \in Reports
      /\ \A i \in DOMAIN u : u[i] \in Reports
  BY <1>2
<1>4. Value(t, side) = Total(m) /\ Value(u, side) = Total(n)
  <2> HIDE DEF u
  <2> QED BY <1>3 DEF Value
<1> HIDE DEF G
<1>5. m \in Seq(Int) /\ n = Append(m, G[r]) /\ G[r] \in Int
  BY <1>1, MapAppend
<1> HIDE DEF m, n, u
<1>6. Total(m) \in Int /\ Total(n) = Total(m) + G[r]
  BY <1>5, TotalType, TotalAppend
<1> QED BY <1>4, <1>6 DEF G, u

LEMMA UnitsAppend ==
  ASSUME NEW t \in Seq(Reports), NEW r \in Reports, NEW side \in Sides
  PROVE  /\ UnitsOf(t, side) \in Seq(Prices)
         /\ UnitsOf(Append(t, r), side)
              = IF Detail[r[1]].side = side
                THEN After(UnitsOf(t, side), Units(Detail[r[1]].qty, Detail[r[1]].price))
                ELSE UnitsOf(t, side)
<1> DEFINE G == [x \in Reports |-> IF Detail[x[1]].side = side
                                  THEN Units(Detail[x[1]].qty, Detail[x[1]].price) ELSE <<>>]
           m == [i \in DOMAIN t |-> G[t[i]]]
           u == Append(t, r)
           n == [i \in DOMAIN u |-> G[u[i]]]
           A == Seq(Prices)
<1>1. G \in [Reports -> A]
  <2>1. ASSUME NEW x \in Reports PROVE Units(Detail[x[1]].qty, Detail[x[1]].price) \in A
    BY FillTyped DEF Units
  <2>2. <<>> \in A
    OBVIOUS
  <2> HIDE DEF A
  <2> QED BY <2>1, <2>2
<1>2. u \in Seq(Reports)
  OBVIOUS
<1>3. /\ \A i \in DOMAIN t : t[i] \in Reports
      /\ \A i \in DOMAIN u : u[i] \in Reports
  BY <1>2
<1>4. UnitsOf(t, side) = Joined(m) /\ UnitsOf(u, side) = Joined(n)
  <2> HIDE DEF u
  <2> QED BY <1>3 DEF UnitsOf
<1>g. G[r] = IF Detail[r[1]].side = side
             THEN Units(Detail[r[1]].qty, Detail[r[1]].price) ELSE <<>>
  OBVIOUS
<1> HIDE DEF G
<1>5. m \in Seq(A) /\ n = Append(m, G[r]) /\ G[r] \in A
  <2> HIDE DEF A
  <2> QED BY <1>1, MapAppend
<1> HIDE DEF m, n, u
<1>6. Joined(m) \in Seq(Prices) /\ Joined(n) = After(Joined(m), G[r])
  BY <1>5, JoinedAppend DEF After
<1>7. After(Joined(m), <<>>) = Joined(m)
  BY <1>6, AfterNothing
<1> HIDE DEF A
<1> QED BY <1>4, <1>6, <1>7, <1>g DEF u

--------------------------------------------------------------------------------
(* One side only, and every unit and every rupee accounted for. *)

\* The lots and the realised profit of a book are those of its trades.
Accounted(b) ==
  /\ b.realised \in Int
  /\ NetQuantity(b.lots) = Qty(b.trades, "BUY") - Qty(b.trades, "SELL")
  /\ b.realised = Value(b.trades, "SELL") - Value(b.trades, "BUY")
                  + Worth(b.lots.longs) - Worth(b.lots.shorts)
  /\ \E gone \in Seq(Prices) : UnitsOf(b.trades, "BUY") = After(gone, b.lots.longs)
  /\ \E gone \in Seq(Prices) : UnitsOf(b.trades, "SELL") = After(gone, b.lots.shorts)

LEMMA AccountedStart == Accounted(NoBook)
<1> DEFINE none == [i \in DOMAIN <<>> |-> 0]
<1>1. /\ NoBook.lots.longs = <<>> /\ NoBook.lots.shorts = <<>> /\ NoBook.trades = <<>>
      /\ NoBook.realised = 0
  BY DEF NoBook, NoLots
<1>2. \A side : Qty(<<>>, side) = 0 /\ Value(<<>>, side) = 0 /\ UnitsOf(<<>>, side) = <<>>
  <2> TAKE side
  <2>1. [i \in DOMAIN <<>> |-> IF Detail[<<>>[i][1]].side = side THEN Detail[<<>>[i][1]].qty
                               ELSE 0] = <<>>
    OBVIOUS
  <2>2. [i \in DOMAIN <<>> |-> IF Detail[<<>>[i][1]].side = side
                               THEN Detail[<<>>[i][1]].qty * Detail[<<>>[i][1]].price
                               ELSE 0] = <<>>
    OBVIOUS
  <2>3. [i \in DOMAIN <<>> |-> IF Detail[<<>>[i][1]].side = side
                               THEN Units(Detail[<<>>[i][1]].qty, Detail[<<>>[i][1]].price)
                               ELSE <<>>] = <<>>
    OBVIOUS
  <2> QED BY <2>1, <2>2, <2>3, TotalEmpty, JoinedEmpty DEF Qty, Value, UnitsOf
<1>3. Worth(<<>>) = 0 /\ Len(<<>>) = 0
  BY TotalEmpty DEF Worth
<1>4. <<>> \in Seq(Prices) /\ After(<<>>, <<>>) = <<>>
  <2>1. <<>> \in Seq(Prices)
    OBVIOUS
  <2> QED BY <2>1, AfterNothing
<1>5. NetQuantity(NoBook.lots) = 0
  BY <1>1, <1>3 DEF NetQuantity
<1>6. NoBook.realised \in Int
  BY <1>1
<1>7. NetQuantity(NoBook.lots) = Qty(NoBook.trades, "BUY") - Qty(NoBook.trades, "SELL")
  BY <1>1, <1>2, <1>5
<1>8. NoBook.realised = Value(NoBook.trades, "SELL") - Value(NoBook.trades, "BUY")
                        + Worth(NoBook.lots.longs) - Worth(NoBook.lots.shorts)
  BY <1>1, <1>2, <1>3
<1>9. /\ \E gone \in Seq(Prices) : UnitsOf(NoBook.trades, "BUY") = After(gone, NoBook.lots.longs)
      /\ \E gone \in Seq(Prices) : UnitsOf(NoBook.trades, "SELL") = After(gone, NoBook.lots.shorts)
  BY <1>1, <1>2, <1>4
<1> QED BY <1>6, <1>7, <1>8, <1>9 DEF Accounted

Good(b) == b \in Books /\ OneSided(b.lots) /\ Accounted(b)

LEMMA GoodParts ==
  ASSUME NEW b, Good(b)
  PROVE  /\ b.lots \in Lots /\ b.realised \in Int /\ b.trades \in Seq(Reports)
         /\ b.lots \in [longs : Seq(Prices), shorts : Seq(Prices)]
         /\ b.lots.longs \in Seq(Prices) /\ b.lots.shorts \in Seq(Prices)
         /\ OneSided(b.lots) /\ Accounted(b)
<1>1. b \in Books /\ OneSided(b.lots) /\ Accounted(b)
  BY DEF Good
<1>2. b.lots \in Lots /\ b.realised \in Int /\ b.trades \in Seq(Reports)
  BY <1>1 DEF Books
<1> QED BY <1>1, <1>2 DEF Lots

LEMMA GoodStart == Good(NoBook)
<1>1. NoBook \in Books /\ OneSided(NoBook.lots)
  BY DEF NoBook, NoLots, Books, Lots, OneSided
<1> QED BY <1>1, AccountedStart DEF Good

\* A trade changes lots and profit by what it adds to the sums over the trades.
LEMMA TradeAccounted ==
  ASSUME NEW b, Good(b), NEW r \in Reports
  PROVE  Accounted(Trade(b, r))
<1> DEFINE side == Detail[r[1]].side
           q    == Detail[r[1]].qty
           p    == Detail[r[1]].price
           new  == Apply(b.lots, side, q, p)
           gain == Realized(b.lots, side, q, p)
           t    == Append(b.trades, r)
<1>1. /\ Trade(b, r).lots = new /\ Trade(b, r).realised = b.realised + gain
      /\ Trade(b, r).trades = t
  BY DEF Trade
<1>2. /\ b.realised \in Int /\ b.trades \in Seq(Reports) /\ OneSided(b.lots)
      /\ b.lots \in [longs : Seq(Prices), shorts : Seq(Prices)] /\ Accounted(b)
  BY GoodParts
<1>3. side \in Sides /\ q \in Nat \ {0} /\ p \in Prices
  BY FillTyped
<1>4. Prices \subseteq Int /\ p \in Int
  <2> HIDE DEF p
  <2> QED BY <1>3, PricesAreNumbers
<1>5. "BUY" \in Sides /\ "SELL" \in Sides /\ (side = "BUY" \/ side = "SELL")
  BY <1>3 DEF Sides
<1>q. \A s \in Sides : Qty(b.trades, s) \in Int
                     /\ Qty(t, s) = Qty(b.trades, s) + IF side = s THEN q ELSE 0
  BY <1>2, QtyAppend
<1>v. \A s \in Sides : Value(b.trades, s) \in Int
                     /\ Value(t, s) = Value(b.trades, s) + IF side = s THEN q * p ELSE 0
  BY <1>2, ValueAppend
<1>u. \A s \in Sides : UnitsOf(b.trades, s) \in Seq(Prices)
                     /\ UnitsOf(t, s) = IF side = s THEN After(UnitsOf(b.trades, s), Units(q, p))
                                        ELSE UnitsOf(b.trades, s)
  BY <1>2, UnitsAppend
<1>n. NetQuantity(new) = NetQuantity(b.lots) + (IF side = "BUY" THEN q ELSE -q)
  <2> HIDE DEF side, q, p
  <2> QED BY <1>2, <1>3, ApplyNet
<1>w. /\ gain \in Int /\ Worth(b.lots.longs) \in Int /\ Worth(b.lots.shorts) \in Int
      /\ Worth(new.longs) - Worth(new.shorts)
           = Worth(b.lots.longs) - Worth(b.lots.shorts) + gain
             + (IF side = "BUY" THEN q * p ELSE -(q * p))
  <2> HIDE DEF side, q, p
  <2> QED BY <1>2, <1>3, ApplyWorth
<1>t. Worth(new.longs) \in Int /\ Worth(new.shorts) \in Int
  <2>1. new \in [longs : Seq(Prices), shorts : Seq(Prices)]
    <3> HIDE DEF side, q, p
    <3> QED BY <1>2, <1>3, ApplyTyped
  <2> HIDE DEF new
  <2>2. new.longs \in Seq(Int) /\ new.shorts \in Seq(Int)
    BY <1>4, <2>1, SeqMonotonic
  <2> QED BY <2>2, TotalType DEF Worth
<1>f. PICK goneB \in Seq(Prices) : UnitsOf(b.trades, "BUY") = After(goneB, b.lots.longs)
  BY <1>2 DEF Accounted
<1>g. PICK goneS \in Seq(Prices) : UnitsOf(b.trades, "SELL") = After(goneS, b.lots.shorts)
  BY <1>2 DEF Accounted
<1>o. \A gone \in Seq(Prices) : \E x \in Seq(Prices) :
        After(After(gone, OwnLots(b.lots, side)), Units(q, p)) = After(x, OwnLots(new, side))
  <2> HIDE DEF side, q, p
  <2> QED BY <1>2, <1>3, ApplyOwn
<1>x. \A gone \in Seq(Prices) : \E x \in Seq(Prices) :
        After(gone, Opposite(b.lots, side)) = After(x, Opposite(new, side))
  <2> HIDE DEF side, q, p
  <2> TAKE gone \in Seq(Prices)
  <2> QED BY <1>2, <1>3, ApplyOther
<1>y. /\ side = "BUY" => /\ OwnLots(b.lots, side) = b.lots.longs /\ OwnLots(new, side) = new.longs
                         /\ Opposite(b.lots, side) = b.lots.shorts /\ Opposite(new, side) = new.shorts
      /\ side = "SELL" => /\ OwnLots(b.lots, side) = b.lots.shorts /\ OwnLots(new, side) = new.shorts
                          /\ Opposite(b.lots, side) = b.lots.longs /\ Opposite(new, side) = new.longs
  BY DEF OwnLots, Opposite
<1>a. /\ NetQuantity(b.lots) = Qty(b.trades, "BUY") - Qty(b.trades, "SELL")
      /\ b.realised = Value(b.trades, "SELL") - Value(b.trades, "BUY")
                      + Worth(b.lots.longs) - Worth(b.lots.shorts)
  BY <1>2 DEF Accounted
<1> DEFINE m == q * p
<1>m. m \in Int
  BY <1>3, <1>4
<1>v2. \A s \in Sides : Value(b.trades, s) \in Int
                      /\ Value(t, s) = Value(b.trades, s) + IF side = s THEN m ELSE 0
  BY <1>v
<1>w2. Worth(new.longs) - Worth(new.shorts)
         = Worth(b.lots.longs) - Worth(b.lots.shorts) + gain + (IF side = "BUY" THEN m ELSE -m)
  BY <1>w
<1> HIDE DEF side, q, p, new, gain, t, m
<1>6. NetQuantity(new) = Qty(t, "BUY") - Qty(t, "SELL")
  <2>1. CASE side = "BUY"
    BY <1>3, <1>5, <1>a, <1>n, <1>q, <2>1
  <2>2. CASE side = "SELL"
    BY <1>3, <1>5, <1>a, <1>n, <1>q, <2>2
  <2> QED BY <1>5, <2>1, <2>2
<1>7. b.realised + gain = Value(t, "SELL") - Value(t, "BUY") + Worth(new.longs) - Worth(new.shorts)
  <2>0. /\ Value(b.trades, "BUY") \in Int /\ Value(b.trades, "SELL") \in Int
        /\ Value(t, "BUY") = Value(b.trades, "BUY") + (IF side = "BUY" THEN m ELSE 0)
        /\ Value(t, "SELL") = Value(b.trades, "SELL") + (IF side = "SELL" THEN m ELSE 0)
    BY <1>5, <1>v2
  <2>w. gain \in Int /\ Worth(b.lots.longs) \in Int /\ Worth(b.lots.shorts) \in Int
    BY <1>w
  <2>1. CASE side = "BUY"
    <3>1. /\ Value(t, "BUY") = Value(b.trades, "BUY") + m /\ Value(t, "SELL") = Value(b.trades, "SELL")
          /\ Worth(new.longs) - Worth(new.shorts)
               = Worth(b.lots.longs) - Worth(b.lots.shorts) + gain + m
      BY <1>w2, <2>0, <2>1
    <3> QED BY <1>a, <1>m, <1>t, <2>0, <2>w, <3>1
  <2>2. CASE side = "SELL"
    <3>1. /\ Value(t, "BUY") = Value(b.trades, "BUY") /\ Value(t, "SELL") = Value(b.trades, "SELL") + m
          /\ Worth(new.longs) - Worth(new.shorts)
               = Worth(b.lots.longs) - Worth(b.lots.shorts) + gain + (-m)
      BY <1>w2, <2>0, <2>2
    <3> QED BY <1>a, <1>m, <1>t, <2>0, <2>w, <3>1
  <2> QED BY <1>5, <2>1, <2>2
<1>8. /\ \E gone \in Seq(Prices) : UnitsOf(t, "BUY") = After(gone, new.longs)
      /\ \E gone \in Seq(Prices) : UnitsOf(t, "SELL") = After(gone, new.shorts)
  <2>1. CASE side = "BUY"
    <3>1. UnitsOf(t, "BUY") = After(After(goneB, b.lots.longs), Units(q, p))
      BY <1>5, <1>f, <1>u, <2>1
    <3>2. UnitsOf(t, "SELL") = After(goneS, b.lots.shorts)
      BY <1>5, <1>g, <1>u, <2>1
    <3>3. PICK x \in Seq(Prices) : UnitsOf(t, "BUY") = After(x, new.longs)
      BY <1>o, <1>y, <2>1, <3>1
    <3>4. PICK y \in Seq(Prices) :
            After(goneS, Opposite(b.lots, side)) = After(y, Opposite(new, side))
      BY <1>x
    <3>5. UnitsOf(t, "SELL") = After(y, new.shorts)
      BY <1>y, <2>1, <3>2, <3>4
    <3> QED BY <3>3, <3>5
  <2>2. CASE side = "SELL"
    <3>1. UnitsOf(t, "SELL") = After(After(goneS, b.lots.shorts), Units(q, p))
      BY <1>5, <1>g, <1>u, <2>2
    <3>2. UnitsOf(t, "BUY") = After(goneB, b.lots.longs)
      BY <1>5, <1>f, <1>u, <2>2
    <3>3. PICK x \in Seq(Prices) : UnitsOf(t, "SELL") = After(x, new.shorts)
      BY <1>o, <1>y, <2>2, <3>1
    <3>4. PICK y \in Seq(Prices) :
            After(goneB, Opposite(b.lots, side)) = After(y, Opposite(new, side))
      BY <1>x
    <3>5. UnitsOf(t, "BUY") = After(y, new.longs)
      BY <1>y, <2>2, <3>2, <3>4
    <3> QED BY <3>3, <3>5
  <2> QED BY <1>5, <2>1, <2>2
<1>9. b.realised + gain \in Int
  BY <1>2, <1>w
<1> QED BY <1>1, <1>6, <1>7, <1>8, <1>9 DEF Accounted

BookInv ==
  /\ reports \subseteq Reports
  /\ \E S : waiting \in Seq(S)
  /\ \A b \in AllBooks : Good(b)

LEMMA TradeGood ==
  ASSUME NEW b, Good(b), NEW r \in Reports
  PROVE  Good(Trade(b, r)) /\ Trade(b, r).trades = Append(b.trades, r)
<1> DEFINE side == Detail[r[1]].side
           q    == Detail[r[1]].qty
           p    == Detail[r[1]].price
           new  == Apply(b.lots, side, q, p)
           gain == Realized(b.lots, side, q, p)
<1>1. Trade(b, r) = [lots |-> new, realised |-> b.realised + gain, trades |-> Append(b.trades, r)]
  BY DEF Trade
<1>2. side \in Sides /\ q \in Nat \ {0} /\ p \in Prices
  BY FillTyped
<1>3. /\ b.realised \in Int /\ b.trades \in Seq(Reports) /\ OneSided(b.lots)
      /\ b.lots \in [longs : Seq(Prices), shorts : Seq(Prices)]
  BY GoodParts
<1> HIDE DEF side, q, p
<1>4. new \in Lots
  BY <1>2, <1>3, ApplyTyped DEF Lots
<1>5. OneSided(new)
  BY <1>2, <1>3, ApplyOneSided
<1>6. gain \in Int
  BY <1>2, <1>3, ApplyWorth
<1>7. Append(b.trades, r) \in Seq(Reports)
  BY <1>3
<1> HIDE DEF new, gain
<1>8. Trade(b, r) \in Books
  BY <1>1, <1>3, <1>4, <1>6, <1>7 DEF Books
<1> QED BY <1>1, <1>5, <1>8, TradeAccounted DEF Good

LEMMA DumpRange ==
  ASSUME NEW S, NEW w \in Seq(S), NEW b
  PROVE  Range(Append(w, b)) \subseteq Range(w) \cup {b} /\ Append(w, b) \in Seq(S \cup {b})
<1>1. w \in Seq(S \cup {b}) /\ b \in S \cup {b}
  BY SeqMonotonic
<1>2. /\ Append(w, b) \in Seq(S \cup {b}) /\ Len(Append(w, b)) = Len(w) + 1 /\ Len(w) \in Nat
      /\ \A i \in 1..Len(w) : Append(w, b)[i] = w[i]
      /\ Append(w, b)[Len(w) + 1] = b
  BY <1>1
<1>3. DOMAIN w = 1..Len(w) /\ DOMAIN Append(w, b) = 1..Len(w) + 1
  BY <1>1, <1>2
<1> QED BY <1>2, <1>3 DEF Range

LEMMA WriteRange ==
  ASSUME NEW S, NEW w \in Seq(S), w # <<>>
  PROVE  /\ Head(w) \in Range(w) /\ Range(Tail(w)) \subseteq Range(w)
         /\ Tail(w) \in Seq(S)
<1>1. /\ Len(w) \in Nat \ {0} /\ Tail(w) \in Seq(S) /\ Len(Tail(w)) = Len(w) - 1
      /\ \A i \in 1..Len(Tail(w)) : Tail(w)[i] = w[i + 1]
      /\ Head(w) = w[1]
  BY HeadTailProperties, EmptySeq
<1>2. DOMAIN w = 1..Len(w) /\ DOMAIN Tail(w) = 1..Len(Tail(w))
  BY <1>1
<1> QED BY <1>1, <1>2 DEF Range

LEMMA EmptyRange == Range(<<>>) = {}
BY DEF Range

LEMMA BookInit == Init => BookInv
<1> SUFFICES ASSUME Init PROVE BookInv
  OBVIOUS
<1>1. waiting \in Seq({}) /\ AllBooks = {NoBook}
  BY EmptyRange DEF Init, AllBooks
<1> QED BY <1>1, GoodStart DEF BookInv, Init

LEMMA BookNext == BookInv /\ [Next]_vars => BookInv'
<1> SUFFICES ASSUME BookInv, [Next]_vars PROVE BookInv'
  OBVIOUS
<1>0. PICK S : waiting \in Seq(S)
  BY DEF BookInv
<1> USE DEF BookInv, AllBooks, memory, boot, vars
<1>1. ASSUME NEW f \in Fills, Fill(f) PROVE BookInv'
  <2>1. Sources[f] \subseteq {"paper", "oms", "facade"}
    BY SourcesAssumption
  <2>2. reports' \subseteq Reports
    BY <1>1, <2>1 DEF Fill, Reports
  <2> QED BY <1>1, <2>2 DEF Fill
<1>2. ASSUME NEW r \in Reports, Take(r) PROVE BookInv'
  <2>1. Good(book') /\ reports' \subseteq Reports
    BY <1>2, TradeGood DEF Take
  <2> QED BY <1>2, <2>1 DEF Take
<1>3. CASE Dump
  <2>1. Range(waiting') \subseteq Range(waiting) \cup {book} /\ waiting' \in Seq(S \cup {book})
    BY <1>0, <1>3, DumpRange DEF Dump
  <2> QED BY <1>3, <2>1 DEF Dump
<1>4. CASE Select
  BY <1>4 DEF Select
<1>5. CASE Write
  <2>1. /\ Head(waiting) \in Range(waiting) /\ Range(waiting') \subseteq Range(waiting)
        /\ waiting' \in Seq(S)
    BY <1>0, <1>5, WriteRange DEF Write
  <2> QED BY <1>5, <2>1 DEF Write
<1>6. CASE Crash
  <2>1. waiting' \in Seq({}) /\ Range(waiting') = {} /\ Good(NoBook)
    BY <1>6, EmptyRange, GoodStart DEF Crash
  <2> QED BY <1>6, <2>1 DEF Crash
<1>7. CASE Load
  BY <1>7, GoodStart DEF Load
<1>8. CASE Restore
  BY <1>8, GoodStart DEF Restore
<1>9. CASE Done \/ UNCHANGED vars
  BY <1>9 DEF Done
<1> QED BY <1>1, <1>2, <1>3, <1>4, <1>5, <1>6, <1>7, <1>8, <1>9 DEF Next

LEMMA BookInvariant == Spec => []BookInv
BY BookInit, BookNext, PTL DEF Spec

\* No book, in memory, dumped, stored or loaded, is ever long and short at once, whatever
\* crosses zero (FifoLots.apply), is overtaken or restored.
THEOREM OneSideOnly == Spec => []BooksAreOneSided
<1>1. BookInv => BooksAreOneSided
  BY DEF BookInv, Good, BooksAreOneSided
<1> QED BY <1>1, BookInvariant, PTL

\* The net quantity of every book is what its trades bought less what they sold, whatever
\* was dumped, lost and restored since (PositionManager._sync_position).
THEOREM NetQuantityIsTraded == Spec => []NetIsTraded
<1>1. BookInv => NetIsTraded
  BY GoodParts DEF BookInv, NetIsTraded, Accounted
<1> QED BY <1>1, BookInvariant, PTL

\* Realised profit, open cost and the cash of the trades balance in every book: no fill,
\* crossing zero or not, makes or loses money (FifoLots.apply).
THEOREM CashBalances == Spec => []CashIsConserved
<1>1. BookInv => CashIsConserved
  BY GoodParts DEF BookInv, CashIsConserved, Accounted
<1> QED BY <1>1, BookInvariant, PTL

LEMMA LastIsSuffix ==
  ASSUME NEW S, NEW u \in Seq(S), NEW v \in Seq(S)
  PROVE  IsSuffix(v, After(u, v))
<1> DEFINE w == After(u, v)
           n == Len(v)
           rv == Reverse(v)
           rw == Reverse(w)
<1>1. /\ w \in Seq(S) /\ Len(w) = Len(u) + n /\ n \in Nat /\ Len(u) \in Nat
      /\ \A i \in 1..n : w[Len(u) + i] = v[i]
  BY DEF After
<1>2. rv \in Seq(S) /\ Len(rv) = n /\ \A i \in 1..n : rv[i] = v[(n - i) + 1]
  BY DEF Reverse
<1> HIDE DEF w
<1>3. rw \in Seq(S) /\ Len(rw) = Len(w) /\ \A i \in 1..Len(w) : rw[i] = w[(Len(w) - i) + 1]
  BY <1>1 DEF Reverse
<1> HIDE DEF n, rv, rw
<1>4. ASSUME NEW i \in 1..n PROVE rv[i] = rw[i] /\ rw[i] \in S
  <2>1. (n - i) + 1 \in 1..n /\ i \in 1..Len(w)
        /\ (Len(w) - i) + 1 = Len(u) + ((n - i) + 1)
    BY <1>1
  <2>2. rw[i] = w[Len(u) + ((n - i) + 1)]
    BY <1>3, <2>1
  <2>3. w[Len(u) + ((n - i) + 1)] = v[(n - i) + 1]
    BY <1>1, <2>1
  <2>4. rw[i] \in S
    BY <1>3, <2>1, ElementOfSeq
  <2> QED BY <1>2, <2>2, <2>3, <2>4
<1>5. SubSeq(rv, 1, n) = rv
  BY <1>2, SubSeqFull
<1>6. /\ SubSeq(rw, 1, n) \in Seq(S) /\ Len(SubSeq(rw, 1, n)) = n
      /\ \A i \in 1..n : SubSeq(rw, 1, n)[i] = rw[i]
  BY <1>1, <1>4, SubSeqProperties
<1>7. SubSeq(rw, 1, n) = rv
  BY <1>2, <1>4, <1>6, SeqEqual
<1>8. n <= Len(rw)
  BY <1>1, <1>3
<1>9. IsPrefix(rv, rw)
  BY <1>2, <1>5, <1>7, <1>8 DEF IsPrefix
<1> QED BY <1>9 DEF IsSuffix, rv, rw, w

\* First in, first out, over any sequence of fills, dumps and restarts: the open units of a
\* side are the last ones its trades opened (FifoLots.apply, to_lots, from_lots).
THEOREM OldestFirst == Spec => []OldestCloseFirst
<1>1. BookInv => OldestCloseFirst
  <2> SUFFICES ASSUME BookInv, NEW b \in AllBooks
               PROVE  /\ IsSuffix(b.lots.longs, UnitsOf(b.trades, "BUY"))
                      /\ IsSuffix(b.lots.shorts, UnitsOf(b.trades, "SELL"))
    BY DEF OldestCloseFirst
  <2>1. /\ b.lots.longs \in Seq(Prices) /\ b.lots.shorts \in Seq(Prices)
        /\ Accounted(b)
    BY GoodParts DEF BookInv
  <2>2. PICK u \in Seq(Prices) : UnitsOf(b.trades, "BUY") = After(u, b.lots.longs)
    BY <2>1 DEF Accounted
  <2>3. PICK v \in Seq(Prices) : UnitsOf(b.trades, "SELL") = After(v, b.lots.shorts)
    BY <2>1 DEF Accounted
  <2> QED BY <2>1, <2>2, <2>3, LastIsSuffix
<1> QED BY <1>1, BookInvariant, PTL

LEMMA RecordTyped ==
  ASSUME NEW l \in Seq(Keys), NEW f \in Fills
  PROVE  Record(l, f) \in Seq(Keys)
<1>1. Key(f) \in Keys
  BY DEF Keys
<1>2. Append(l, Key(f)) \in Seq(Keys) /\ Append(l, Key(f)) # <<>>
  BY <1>1, AppendProperties
<1>3. Tail(Append(l, Key(f))) \in Seq(Keys)
  BY <1>2, HeadTailProperties
<1> QED BY <1>2, <1>3 DEF Record

\* What is left of type correctness once the books are known to be books.
PlainTypes ==
  /\ filled \subseteq Fills /\ ledger \in Seq(Keys) /\ tasks \in Nat
  /\ step \in {"select", "insert", "update"} /\ phase \in {"up", "booting", "loaded"}
  /\ start \in Starts /\ missed \in BOOLEAN /\ crashes \in 0..MaxCrashes

LEMMA PlainInit == Init => PlainTypes
<1> SUFFICES ASSUME Init PROVE PlainTypes
  OBVIOUS
<1>1. missed \in BOOLEAN
  BY Zenon DEF Init
<1>2. 0 \in 0..MaxCrashes
  BY CrashesAssumption
<1>3. ledger \in Seq(Keys) /\ tasks \in Nat /\ filled \subseteq Fills
  BY DEF Init
<1> QED BY <1>1, <1>2, <1>3 DEF Init, PlainTypes, Starts

LEMMA PlainNext == BookInv /\ PlainTypes /\ [Next]_vars => PlainTypes'
<1> SUFFICES ASSUME BookInv, PlainTypes, [Next]_vars PROVE PlainTypes'
  OBVIOUS
<1> USE DEF PlainTypes, Starts, memory, boot, vars
<1>1. ASSUME NEW f \in Fills, Fill(f) PROVE PlainTypes'
  BY <1>1 DEF Fill
<1>2. ASSUME NEW r \in Reports, Take(r) PROVE PlainTypes'
  <2>1. ledger' \in Seq(Keys)
    BY <1>2, FillTyped, RecordTyped DEF Take
  <2> QED BY <1>2, <2>1 DEF Take
<1>3. CASE Dump
  BY <1>3 DEF Dump
<1>4. CASE Select
  BY <1>4 DEF Select
<1>5. CASE Write
  BY <1>5 DEF Write
<1>6. CASE Crash
  <2>1. crashes' \in 0..MaxCrashes
    BY <1>6, CrashesAssumption DEF Crash
  <2>2. missed' \in BOOLEAN
    BY <1>6, Zenon DEF Crash
  <2> QED BY <1>6, <2>1, <2>2 DEF Crash
<1>7. CASE Load
  BY <1>7 DEF Load
<1>8. CASE Restore
  BY <1>8 DEF Restore
<1>9. CASE Done \/ UNCHANGED vars
  BY <1>9 DEF Done
<1> QED BY <1>1, <1>2, <1>3, <1>4, <1>5, <1>6, <1>7, <1>8, <1>9 DEF Next

\* Every book, in memory, dumped, stored or restored, is lots of known prices, an integer
\* profit and the trades it counted; the ledger keeps fingerprints of fills (trades.py).
THEOREM PipelineTypeCorrect == Spec => []TypeOK
<1>1. BookInv /\ PlainTypes => TypeOK
  <2> SUFFICES ASSUME BookInv, PlainTypes PROVE TypeOK
    OBVIOUS
  <2>1. \A b \in AllBooks : b \in Books
    BY DEF BookInv, Good
  <2>2. book \in Books /\ row \in Books /\ found \in Books
        /\ Range(waiting) \subseteq Books
    BY <2>1 DEF AllBooks
  <2>3. PICK S : waiting \in Seq(S)
    BY DEF BookInv
  <2>4. Len(waiting) \in Nat /\ waiting \in [1..Len(waiting) -> Books]
    <3>1. Len(waiting) \in Nat /\ DOMAIN waiting = 1..Len(waiting)
          /\ waiting = [i \in 1..Len(waiting) |-> waiting[i]]
      BY <2>3
    <3>2. \A i \in 1..Len(waiting) : waiting[i] \in Books
      BY <2>2, <3>1 DEF Range
    <3> QED BY <3>1, <3>2
  <2>5. waiting \in Seq(Books)
    BY <2>4, SeqDef
  <2> QED BY <2>2, <2>5 DEF TypeOK, BookInv, PlainTypes
<1> QED BY <1>1, BookInvariant, PlainInit, PlainNext, PTL DEF Spec

--------------------------------------------------------------------------------
(* What is stored grows. *)

\* The trades of a are the first ones of b.
Before(a, b) ==
  /\ Len(a.trades) <= Len(b.trades)
  /\ \A i \in 1..Len(a.trades) : a.trades[i] = b.trades[i]

LEMMA BeforeIsPrefix ==
  ASSUME NEW a, NEW b, a.trades \in Seq(Reports), b.trades \in Seq(Reports), Before(a, b)
  PROVE  IsPrefix(a.trades, b.trades)
<1> DEFINE n == Len(a.trades)
<1>1. n \in Nat /\ Len(b.trades) \in Nat /\ n <= Len(b.trades)
  BY DEF Before
<1>2. /\ \A i \in 1..n : a.trades[i] \in Reports /\ b.trades[i] \in Reports
      /\ \A i \in 1..n : a.trades[i] = b.trades[i]
  BY <1>1 DEF Before
<1>3. /\ SubSeq(a.trades, 1, n) \in Seq(Reports) /\ Len(SubSeq(a.trades, 1, n)) = n
      /\ \A i \in 1..n : SubSeq(a.trades, 1, n)[i] = a.trades[i]
  BY <1>1, <1>2, SubSeqProperties
<1>4. /\ SubSeq(b.trades, 1, n) \in Seq(Reports) /\ Len(SubSeq(b.trades, 1, n)) = n
      /\ \A i \in 1..n : SubSeq(b.trades, 1, n)[i] = b.trades[i]
  BY <1>1, <1>2, SubSeqProperties
<1>5. SubSeq(a.trades, 1, n) = SubSeq(b.trades, 1, n)
  BY <1>2, <1>3, <1>4, SeqEqual
<1> QED BY <1>1, <1>5 DEF IsPrefix

LEMMA BeforeTransitive ==
  ASSUME NEW a, NEW b, NEW c, a.trades \in Seq(Reports), b.trades \in Seq(Reports),
         c.trades \in Seq(Reports), Before(a, b), Before(b, c)
  PROVE  Before(a, c)
BY DEF Before

LEMMA BeforeTrade ==
  ASSUME NEW a, NEW b, a.trades \in Seq(Reports), Good(b), NEW r \in Reports, Before(a, b)
  PROVE  Before(a, Trade(b, r))
<1>1. Trade(b, r).trades = Append(b.trades, r) /\ b.trades \in Seq(Reports)
  BY TradeGood, GoodParts
<1> QED BY <1>1 DEF Before

LEMMA BeforeAll == \A b : Before(NoBook, b) <=> 0 <= Len(b.trades)
BY DEF Before, NoBook

LEMMA BeforeSelf == \A b : Good(b) => Before(b, b) /\ Before(NoBook, b)
<1> TAKE b
<1> SUFFICES ASSUME Good(b) PROVE Before(b, b) /\ Before(NoBook, b)
  OBVIOUS
<1>1. b.trades \in Seq(Reports) /\ Len(b.trades) \in Nat
  BY GoodParts
<1> QED BY <1>1, BeforeAll DEF Before

\* Unless a fill was booked before the restore, the process begins with nothing under way
\* and with the stored book, if that could be read; from then on every dump extends the
\* stored book and the dumps before it.
OrderInv ==
  /\ phase \in {"up", "booting", "loaded"} /\ tasks \in Nat
  /\ start # "raced" =>
       /\ phase # "up" => tasks = 0 /\ waiting = <<>> /\ book = NoBook
       /\ phase = "booting" => start = "clean"
       /\ phase = "loaded" => found = IF start = "clean" THEN row ELSE NoBook
       /\ \A i, j \in 1..Len(waiting) : i <= j => Before(waiting[i], waiting[j])
       /\ \A i \in 1..Len(waiting) : Before(waiting[i], book)
  /\ start = "clean" /\ phase = "up" =>
       /\ Before(row, book)
       /\ \A i \in 1..Len(waiting) : Before(row, waiting[i])

\* Without a task to come, the last dump is the book; without a dump, the row is, unless
\* the write failed.
SavedInv ==
  start # "raced" /\ phase = "up" /\ tasks = 0 =>
    IF waiting = <<>> THEN missed \/ book = NoBook \/ row = book
                      ELSE waiting[Len(waiting)] = book

LEMMA OrderInit == Init => OrderInv /\ SavedInv
BY BeforeSelf, GoodStart DEF Init, OrderInv, SavedInv

LEMMA BooksTyped ==
  ASSUME BookInv
  PROVE  /\ Good(book) /\ Good(row) /\ Good(found)
         /\ \A i \in 1..Len(waiting) : Good(waiting[i])
         /\ Len(waiting) \in Nat /\ (waiting = <<>> <=> Len(waiting) = 0)
<1>1. PICK S : waiting \in Seq(S)
  BY DEF BookInv
<1>2. DOMAIN waiting = 1..Len(waiting) /\ Len(waiting) \in Nat
  BY <1>1
<1>3. \A i \in 1..Len(waiting) : waiting[i] \in Range(waiting)
  BY <1>2 DEF Range
<1>4. waiting = <<>> <=> Len(waiting) = 0
  BY <1>1, EmptySeq
<1> QED BY <1>2, <1>3, <1>4 DEF BookInv, AllBooks

LEMMA OrderNext == BookInv /\ OrderInv /\ SavedInv /\ [Next]_vars => OrderInv' /\ SavedInv'
<1> SUFFICES ASSUME BookInv, OrderInv, SavedInv, [Next]_vars PROVE OrderInv' /\ SavedInv'
  OBVIOUS
<1>0. /\ Good(book) /\ Good(row) /\ Good(found)
      /\ \A i \in 1..Len(waiting) : Good(waiting[i])
      /\ Len(waiting) \in Nat /\ (waiting = <<>> <=> Len(waiting) = 0)
  BY BooksTyped
<1>s. PICK S : waiting \in Seq(S)
  BY DEF BookInv
<1> USE DEF OrderInv, SavedInv, memory, boot, vars
<1>1. ASSUME NEW f \in Fills, Fill(f) PROVE OrderInv' /\ SavedInv'
  BY <1>1 DEF Fill
<1>2. ASSUME NEW r \in Reports, Take(r) PROVE OrderInv' /\ SavedInv'
  <2>1. CASE phase = "up"
    <3>1. book' = Trade(book, r)
      BY <1>2 DEF Take
    <3>2. start # "raced" => \A i \in 1..Len(waiting) : Before(waiting[i], book')
      BY <1>0, <3>1, BeforeTrade, GoodParts
    <3>3. start = "clean" => Before(row, book')
      BY <1>0, <2>1, <3>1, BeforeTrade, GoodParts
    <3> QED BY <1>2, <2>1, <3>2, <3>3 DEF Take
  <2>2. CASE phase # "up"
    BY <1>2, <2>2 DEF Take
  <2> QED BY <2>1, <2>2
<1>3. CASE Dump
  <2>1. /\ Len(waiting') = Len(waiting) + 1
        /\ \A i \in 1..Len(waiting) : waiting'[i] = waiting[i]
        /\ waiting'[Len(waiting) + 1] = book /\ waiting' # <<>>
    <3>1. waiting \in Seq(S \cup {book}) /\ book \in S \cup {book}
      BY <1>s, SeqMonotonic
    <3> QED BY <1>3, <3>1, AppendProperties DEF Dump
  <2>2. /\ UNCHANGED <<book, row, phase, start, found>> /\ tasks' \in Nat
        /\ start # "raced" => phase = "up"
    BY <1>3 DEF Dump
  <2>3. Before(book, book)
    BY <1>0, BeforeSelf
  <2>4. OrderInv'
    BY <1>0, <2>1, <2>2, <2>3
  <2>5. SavedInv'
    BY <1>0, <2>1, <2>2
  <2> QED BY <2>4, <2>5
<1>4. CASE Select
  BY <1>4 DEF Select
<1>5. CASE Write
  <2> DEFINE top == waiting[1]
  <2>1. /\ Len(waiting) \in Nat \ {0} /\ Len(waiting') = Len(waiting) - 1
        /\ \A i \in 1..Len(waiting') : waiting'[i] = waiting[i + 1]
        /\ waiting' = <<>> <=> Len(waiting') = 0
        /\ Head(waiting) = top
    <3>1. waiting # <<>> /\ waiting' = Tail(waiting) /\ Head(waiting) = top
      BY <1>5 DEF Write
    <3>2. /\ Tail(waiting) \in Seq(S) /\ Len(Tail(waiting)) = Len(waiting) - 1
          /\ \A i \in 1..Len(Tail(waiting)) : Tail(waiting)[i] = waiting[i + 1]
      BY <1>s, <3>1, HeadTailProperties
    <3>3. Tail(waiting) = <<>> <=> Len(Tail(waiting)) = 0
      BY <3>2, EmptySeq
    <3> QED BY <1>0, <3>1, <3>2, <3>3
  <2>2. /\ UNCHANGED <<book, phase, start, found, tasks>>
        /\ start # "raced" => phase = "up"
    BY <1>0, <1>5, <2>1 DEF Write
  <2>3. (row' = top /\ ~missed') \/ (row' = row /\ missed')
    BY <1>5, <2>1 DEF Write
  <2>4. start # "raced" => Before(top, book) /\ \A i \in 1..Len(waiting') : Before(top, waiting'[i])
    BY <2>1, <2>2
  <2>5. OrderInv'
    <3>1. start # "raced" =>
            \A i, j \in 1..Len(waiting') : i <= j => Before(waiting'[i], waiting'[j])
      BY <2>1
    <3>2. start # "raced" => \A i \in 1..Len(waiting') : Before(waiting'[i], book')
      BY <2>1, <2>2
    <3>3. start = "clean" => Before(row', book') /\ \A i \in 1..Len(waiting') : Before(row', waiting'[i])
      BY <2>1, <2>2, <2>3, <2>4
    <3> QED BY <2>2, <3>1, <3>2, <3>3
  <2>6. SavedInv'
    <3>1. CASE Len(waiting) = 1
      BY <2>1, <2>2, <2>3, <3>1
    <3>2. CASE Len(waiting) # 1
      BY <2>1, <2>2, <3>2
    <3> QED BY <3>1, <3>2
  <2> QED BY <2>5, <2>6
<1>6. CASE Crash
  BY <1>6 DEF Crash
<1>7. CASE Load
  BY <1>7 DEF Load
<1>8. CASE Restore
  BY <1>0, <1>8, BeforeSelf DEF Restore
<1>9. CASE Done \/ UNCHANGED vars
  BY <1>9 DEF Done
<1> QED BY <1>1, <1>2, <1>3, <1>4, <1>5, <1>6, <1>7, <1>8, <1>9 DEF Next

LEMMA OrderInvariant == Spec => [](BookInv /\ OrderInv /\ SavedInv)
BY BookInit, BookNext, OrderInit, OrderNext, PTL DEF Spec

\* Once the persist tasks have run the row is the book, across failed selects, refused
\* inserts, failed writes and restarts, unless the last write failed or the restore replaced
\* a book that was already in use (persist_engine, upsert, recover_runtime_state).
THEOREM IdleIsSaved == Spec => []IdleMeansSaved
<1>1. SavedInv => IdleMeansSaved
  BY DEF SavedInv, IdleMeansSaved
<1> QED BY <1>1, OrderInvariant, PTL

LEMMA WritesExtend ==
  BookInv /\ OrderInv /\ [Next]_vars /\ start = "clean" => IsPrefix(row.trades, row'.trades)
<1> SUFFICES ASSUME BookInv, OrderInv, [Next]_vars, start = "clean"
             PROVE  IsPrefix(row.trades, row'.trades)
  OBVIOUS
<1>0. /\ Good(row) /\ \A i \in 1..Len(waiting) : Good(waiting[i])
      /\ Len(waiting) \in Nat /\ (waiting = <<>> <=> Len(waiting) = 0)
  BY BooksTyped
<1>1. CASE row' = row
  <2>1. Before(row, row) /\ row.trades \in Seq(Reports)
    BY <1>0, BeforeSelf, GoodParts
  <2> QED BY <1>1, <2>1, BeforeIsPrefix
<1>2. CASE row' # row
  <2>1. Write
    BY <1>2 DEF Next, Fill, Take, Dump, Select, Crash, Load, Restore, Done, vars
  <2>2. waiting # <<>> /\ row' = waiting[1] /\ Len(waiting) \in Nat \ {0}
    BY <1>0, <1>2, <2>1 DEF Write
  <2>3. Before(row, waiting[1])
    BY <2>2 DEF OrderInv
  <2>4. row.trades \in Seq(Reports) /\ row'.trades \in Seq(Reports)
    BY <1>0, <2>2, GoodParts
  <2> QED BY <2>2, <2>3, <2>4, BeforeIsPrefix
<1> QED BY <1>1, <1>2

\* No write of a process that began with the stored book replaces it by one that lacks some
\* of its trades, though the book is dumped long before it is written and any write before
\* it may have failed (persist_engine).
THEOREM CheckpointsExtend == Spec => CheckpointExtends
<1>1. BookInv /\ OrderInv /\ SavedInv /\ [Next]_vars
        => (start = "clean" => IsPrefix(row.trades, row'.trades))
  BY WritesExtend
<1> QED BY <1>1, OrderInvariant, PTL DEF Spec, CheckpointExtends
================================================================================
