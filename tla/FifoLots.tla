------------------------------- MODULE FifoLots --------------------------------
(* FIFO matching of one contract (execution_engine/fifo.py).  A lot [qty, price]   *)
(* is qty units in a row at that price: a book is the prices of its open units,   *)
(* oldest first, on either side.                                                  *)
EXTENDS Sums, SequencesExt

Sides == {"BUY", "SELL"}

NoLots == [longs |-> <<>>, shorts |-> <<>>]

\* The units a fill of q on this side meets first: those of the other side.
Opposite(lots, side) == IF side = "BUY" THEN lots.shorts ELSE lots.longs

Used(lots, side, q) ==
  IF q < Len(Opposite(lots, side)) THEN q ELSE Len(Opposite(lots, side))

Closed(lots, side, q) == SubSeq(Opposite(lots, side), 1, Used(lots, side, q))

Units(n, p) == [i \in 1..n |-> p]

Worth(prices) == Total(prices)

\* What apply returns: the gain on the units it closes.
Realized(lots, side, q, p) ==
  LET taken == Closed(lots, side, q)
      gain  == Len(taken) * p - Worth(taken)
  IN  IF side = "BUY" THEN -gain ELSE gain

\* Mutant: the remainder of a fill that crosses zero is not opened.
ApplyNoCross(lots, side, q, p) ==
  LET left == SubSeq(Opposite(lots, side), Used(lots, side, q) + 1,
                     Len(Opposite(lots, side)))
      rest == IF Opposite(lots, side) = <<>> THEN Units(q, p) ELSE <<>>
  IN  IF side = "BUY" THEN [longs |-> lots.longs \o rest, shorts |-> left]
                      ELSE [longs |-> left, shorts |-> lots.shorts \o rest]

\* Mutant: the remainder is opened at the quantity of the whole fill.
ApplyWhole(lots, side, q, p) ==
  LET left == SubSeq(Opposite(lots, side), Used(lots, side, q) + 1,
                     Len(Opposite(lots, side)))
  IN  IF side = "BUY" THEN [longs |-> lots.longs \o Units(q, p), shorts |-> left]
                      ELSE [longs |-> left, shorts |-> lots.shorts \o Units(q, p)]

\* Mutant: the newest units close first.
ApplyNewest(lots, side, q, p) ==
  LET left == SubSeq(Opposite(lots, side), 1,
                     Len(Opposite(lots, side)) - Used(lots, side, q))
      rest == Units(q - Used(lots, side, q), p)
  IN  IF side = "BUY" THEN [longs |-> lots.longs \o rest, shorts |-> left]
                      ELSE [longs |-> left, shorts |-> lots.shorts \o rest]

\* What is left of the other side, and the remainder opened on this one.
Apply(lots, side, q, p) ==
  LET left == SubSeq(Opposite(lots, side), Used(lots, side, q) + 1,
                     Len(Opposite(lots, side)))
      rest == Units(q - Used(lots, side, q), p)
  IN  IF side = "BUY" THEN [longs |-> lots.longs \o rest, shorts |-> left]
                      ELSE [longs |-> left, shorts |-> lots.shorts \o rest]

NetQuantity(lots) == Len(lots.longs) - Len(lots.shorts)

\* Only one side is ever open.
OneSided(lots) == lots.longs = <<>> \/ lots.shorts = <<>>
================================================================================
