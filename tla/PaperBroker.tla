------------------------------ MODULE PaperBroker ------------------------------
(* The simulated broker (paper/paper_broker.py, paper/fill_engine.py) of one user *)
(* and one symbol: orders are filled in memory, and every connect() rebuilds the  *)
(* memory from the FILLED rows of the orders table.                               *)
(*                                                                                *)
(* Nothing suspends between two awaits, so an order is the stretches between its  *)
(* awaits: the simulated delay, the quote, the positions lock.  A rebuild holds   *)
(* the lock while it waits for its query; its account was reset before the lock.  *)
EXTENDS Integers, Sequences, FiniteSets, Sums

CONSTANTS Detail,      \* the orders placed, in the order of their created_at: side,
                         \* quantity, the price the margin check reckons with, the
                         \* price of the fill
          Connections,   \* callers of connect(): adapters, recovery, reconciliation
          Capital,       \* PaperConfig.initial_capital
          MaxConnects,   \* bound on the connects of each caller
          MaxCrashes,    \* bound on restarts
          Events         \* environment events that may happen

(* crash: the process dies and restarts                                           *)
(* query: the query of a rebuild fails, which reads as no row                     *)
EventKinds == {"crash", "query"}

Orders == DOMAIN Detail

ASSUME DetailAssumption  ==
  Detail \in Seq([side : {"BUY", "SELL"}, qty : Nat \ {0}, asked : Nat \ {0}, price : Nat \ {0}])
ASSUME ActorsAssumption  == Orders \cap Connections = {}
ASSUME CapitalAssumption == Capital \in Nat
ASSUME BoundsAssumption  == MaxConnects \in Nat /\ MaxCrashes \in Nat
ASSUME EventsAssumption  == Events \subseteq EventKinds

VARIABLES
  pc,        \* where place_order stands, for each order
  queue,     \* the positions lock: its holder, then those who wait for it
  position,  \* PaperPosition: open legs, what they cost, realised_pnl
  total,     \* PaperAccount.total_margin (0 until connected) ...
  used,      \* ... and used_margin; available_margin is always the difference
  listed,    \* _orders: status of the orders the broker can find
  rows,      \* FILLED rows of the orders table
  connects,  \* connects made by each caller
  ready,     \* BrokerExecutionAdapter._connected: a connect() has returned
  synced,    \* memory was built from the rows since the process started
  costed,    \* the last reset of the account was followed by a rebuild
  crashes    \* restarts so far

book    == <<position, total, used>>
history == <<connects, ready, synced, costed, crashes>>
vars    == <<pc, queue, book, listed, rows, history>>

--------------------------------------------------------------------------------
Flat == [bought |-> 0, sold |-> 0, cost |-> 0, proceeds |-> 0, realised |-> 0]

Gross(o) == Detail[o].qty * Detail[o].price

\* Mutant: the legs of a flat position are kept, and realised again the next time.
BookedKept(p, o) ==
  LET buy == Detail[o].side = "BUY"
      q == [p EXCEPT !.bought   = @ + IF buy THEN Detail[o].qty ELSE 0,
                     !.sold     = @ + IF buy THEN 0 ELSE Detail[o].qty,
                     !.cost     = @ + IF buy THEN Gross(o) ELSE 0,
                     !.proceeds = @ + IF buy THEN 0 ELSE Gross(o)]
  IN  IF q.bought = q.sold THEN [q EXCEPT !.realised = @ + q.proceeds - q.cost] ELSE q

\* _update_position: an average price times its quantity is the money of the leg.  A
\* position that comes back to zero realises both legs and starts again.
Booked(p, o) ==
  LET buy == Detail[o].side = "BUY"
      q == [p EXCEPT !.bought   = @ + IF buy THEN Detail[o].qty ELSE 0,
                     !.sold     = @ + IF buy THEN 0 ELSE Detail[o].qty,
                     !.cost     = @ + IF buy THEN Gross(o) ELSE 0,
                     !.proceeds = @ + IF buy THEN 0 ELSE Gross(o)]
  IN  IF q.bought = q.sold
      THEN [Flat EXCEPT !.realised = q.realised + q.proceeds - q.cost]
      ELSE q

\* Mutant: a sale gives back margin that no purchase took.
ChargedSale(u, o) == IF Detail[o].side = "BUY" THEN u + Gross(o) ELSE u - Gross(o)

\* _update_account: what a sale adds to available_margin is overwritten at once.
Charged(u, o) == IF Detail[o].side = "BUY" THEN u + Gross(o) ELSE u

\* The rows S replayed on p in the order of their created_at, not of their fills.
Replayed(p, S) ==
  LET after[n \in 0..Len(Detail)] ==
        IF n = 0 THEN p ELSE IF n \in S THEN Booked(after[n - 1], n) ELSE after[n - 1]
  IN  after[Len(Detail)]

Rebuilt == [S \in SUBSET Orders |-> Replayed(Flat, S)]

Costs == [S \in SUBSET Orders |->
  LET after[n \in 0..Len(Detail)] ==
        IF n = 0 THEN 0 ELSE IF n \in S THEN Charged(after[n - 1], n) ELSE after[n - 1]
  IN  after[Len(Detail)]]

--------------------------------------------------------------------------------
Init ==
  /\ pc = [o \in Orders |-> "new"] /\ queue = <<>>
  /\ position = Flat /\ total = 0 /\ used = 0
  /\ listed = <<>> /\ rows = {}
  /\ connects = [c \in Connections |-> 0]
  /\ ready = FALSE /\ synced = TRUE /\ costed = TRUE /\ crashes = 0

\* place_order, which an adapter calls once its connect() has returned: the counter,
\* then the simulated broker delay.
Place(o) ==
  /\ pc[o] = "new" /\ ready
  /\ pc' = [pc EXCEPT ![o] = "delay"]
  /\ UNCHANGED <<queue, book, listed, rows, history>>

\* _check_margin, after the delay.  What it finds free is not reserved.
Check(o) ==
  /\ pc[o] = "delay"
  /\ pc' = [pc EXCEPT ![o] =
              IF Detail[o].qty * Detail[o].asked > total - used THEN "rejected" ELSE "quote"]
  /\ UNCHANGED <<queue, book, listed, rows, history>>

\* _ensure_quote and simulate_fill: if nothing quotes the symbol the order is listed as
\* pending, without taking the lock; else it asks for the lock.
Price(o) ==
  /\ pc[o] = "quote"
  /\ \/ /\ pc' = [pc EXCEPT ![o] = "pending"]
        /\ listed' = [x \in DOMAIN listed \cup {o} |-> IF x = o THEN "PENDING" ELSE listed[x]]
        /\ queue' = queue
     \/ /\ pc' = [pc EXCEPT ![o] = "lock"]
        /\ queue' = Append(queue, o)
        /\ listed' = listed
  /\ UNCHANGED <<book, rows, history>>

\* Mutant: the row is written before the lock is taken and may be missed by a rebuild.
CommitUnsaved(o) ==
  /\ pc[o] = "lock" /\ Head(queue) = o
  /\ queue' = Tail(queue)
  /\ position' = Booked(position, o) /\ used' = Charged(used, o)
  /\ listed' = [x \in DOMAIN listed \cup {o} |-> IF x = o THEN "FILLED" ELSE listed[x]]
  /\ pc' = [pc EXCEPT ![o] = "filled"]
  /\ UNCHANGED <<total, rows, history>>

\* The critical section of a fill: position, account, listing and row.
Commit(o) ==
  /\ pc[o] = "lock" /\ Head(queue) = o
  /\ queue' = Tail(queue)
  /\ position' = Booked(position, o) /\ used' = Charged(used, o)
  /\ listed' = [x \in DOMAIN listed \cup {o} |-> IF x = o THEN "FILLED" ELSE listed[x]]
  /\ rows' = rows \cup {o}
  /\ pc' = [pc EXCEPT ![o] = "filled"]
  /\ UNCHANGED <<total, history>>

\* cancel_order: whatever is listed is marked, a filled order too.
Cancel(o) ==
  /\ o \in DOMAIN listed
  /\ listed' = [listed EXCEPT ![o] = "CANCELLED"]
  /\ UNCHANGED <<pc, queue, book, rows, history>>

\* connect: the account is reset at once, the rebuild waits for the lock.
Connect(c) ==
  /\ connects[c] < MaxConnects
  /\ \A i \in DOMAIN queue : queue[i] # c
  /\ connects' = [connects EXCEPT ![c] = @ + 1]
  /\ total' = Capital /\ used' = 0
  /\ queue' = Append(queue, c)
  /\ costed' = FALSE
  /\ UNCHANGED <<pc, position, listed, rows, ready, synced, crashes>>

\* Mutant: the rebuild adds to the account it finds (no second _reset_account).
RestoreAdds(c) ==
  /\ queue # <<>> /\ Head(queue) = c
  /\ queue' = Tail(queue)
  /\ IF rows = {} THEN UNCHANGED <<position, total, used, listed>>
     ELSE /\ position' = Rebuilt[rows] /\ used' = used + Costs[rows] /\ total' = Capital
          /\ listed' = [o \in rows |-> "FILLED"]
  /\ synced' = TRUE
  /\ ready' = TRUE /\ costed' = TRUE
  /\ UNCHANGED <<pc, rows, connects, crashes>>

\* Mutant: the rebuild replays on top of the positions it finds.
RestoreOnTop(c) ==
  /\ queue # <<>> /\ Head(queue) = c
  /\ queue' = Tail(queue)
  /\ IF rows = {} THEN UNCHANGED <<position, total, used, listed>>
     ELSE /\ position' = Replayed(position, rows)
          /\ used' = Costs[rows] /\ total' = Capital
          /\ listed' = [o \in rows |-> "FILLED"]
  /\ synced' = TRUE
  /\ ready' = TRUE /\ costed' = TRUE
  /\ UNCHANGED <<pc, rows, connects, crashes>>

\* Mutant: the lock is kept when there is nothing to rebuild.
RestoreHolds(c) ==
  /\ queue # <<>> /\ Head(queue) = c
  /\ IF rows = {} THEN UNCHANGED <<queue, position, total, used, listed>>
     ELSE /\ queue' = Tail(queue)
          /\ position' = Rebuilt[rows] /\ used' = Costs[rows] /\ total' = Capital
          /\ listed' = [o \in rows |-> "FILLED"]
  /\ synced' = TRUE
  /\ ready' = TRUE /\ costed' = TRUE
  /\ UNCHANGED <<pc, rows, connects, crashes>>

\* _restore_positions_locked.  Rows change under the lock only, so the moment of the
\* query does not matter.  No row, or a failed query: early return, the account stays
\* reset until another rebuild makes it whole.
Restore(c) ==
  /\ queue # <<>> /\ Head(queue) = c
  /\ queue' = Tail(queue)
  /\ \/ /\ rows # {}
        /\ position' = Rebuilt[rows] /\ used' = Costs[rows] /\ total' = Capital
        /\ listed' = [o \in rows |-> "FILLED"]
        /\ synced' = TRUE /\ costed' = TRUE
     \/ /\ rows = {}
        /\ UNCHANGED <<book, listed>>
        /\ synced' = TRUE /\ costed' = TRUE
     \/ "query" \in Events /\ UNCHANGED <<book, listed, synced, costed>>
  /\ ready' = TRUE
  /\ UNCHANGED <<pc, rows, connects, crashes>>

\* The process dies: orders on their way end, memory is gone until the next connect.
Crash ==
  /\ "crash" \in Events /\ crashes < MaxCrashes
  /\ crashes' = crashes + 1
  /\ pc' = [o \in Orders |-> IF pc[o] \in {"delay", "quote", "lock"} THEN "lost" ELSE pc[o]]
  /\ queue' = <<>> /\ listed' = <<>>
  /\ position' = Flat /\ total' = 0 /\ used' = 0
  /\ ready' = FALSE /\ synced' = FALSE /\ costed' = FALSE
  /\ UNCHANGED <<rows, connects>>

Done ==
  /\ queue = <<>> /\ \A o \in Orders : pc[o] \notin {"delay", "quote", "lock"}
  /\ UNCHANGED vars

Working(o)    == Check(o) \/ Price(o) \/ Commit(o)

Next ==
  \/ \E o \in Orders : Place(o) \/ Working(o) \/ Cancel(o)
  \/ \E c \in Connections : Connect(c) \/ Restore(c)
  \/ Crash
  \/ Done

Spec == Init /\ [][Next]_vars

\* A started coroutine is resumed, and a query returns or times out.
FairSpec ==
  Spec /\ (\A o \in Orders : WF_vars(Working(o))) /\ (\A c \in Connections : WF_vars(Restore(c)))

--------------------------------------------------------------------------------
\* Every variable has its type.
TypeOK ==
  /\ pc \in [Orders -> {"new", "delay", "quote", "lock",
                        "filled", "pending", "rejected", "lost"}]
  /\ queue \in Seq(Orders \cup Connections)
  /\ position \in [bought : Nat, sold : Nat, cost : Nat, proceeds : Nat, realised : Int]
  /\ total \in {0, Capital} /\ used \in Nat
  /\ DOMAIN listed \subseteq Orders
  /\ \A o \in DOMAIN listed : listed[o] \in {"PENDING", "FILLED", "CANCELLED"}
  /\ rows \subseteq Orders
  /\ connects \in [Connections -> 0..MaxConnects]
  /\ ready \in BOOLEAN /\ synced \in BOOLEAN /\ costed \in BOOLEAN /\ crashes \in 0..MaxCrashes

Filled(side) == {o \in Orders : pc[o] = "filled" /\ Detail[o].side = side}
Quantity == [S \in SUBSET Orders |-> Total([o \in Orders |-> IF o \in S THEN Detail[o].qty ELSE 0])]
Money    == [S \in SUBSET Orders |-> Total([o \in Orders |-> IF o \in S THEN Gross(o) ELSE 0])]

\* Fill first or rebuild first: the holding is what was filled, no unit doubled by a
\* rebuild and none lost with the replaced dict (_restore_positions, place_order).
HoldingsAreFills ==
  synced => position.bought - position.sold = Quantity[Filled("BUY")] - Quantity[Filled("SELL")]

\* Realised profit is the cash of all fills plus the cost of what is open, though a
\* rebuild replays them in the order they were created (_update_position).
PaperCashIsConserved ==
  synced => position.realised + position.proceeds - position.cost
            = Money[Filled("SELL")] - Money[Filled("BUY")]

\* "A second pass must produce the same account as the first": used margin is what was
\* bought, however often connect() ran, once its rebuild has run (_reset_account).
MarginIsTheAudit ==
  synced /\ costed => used = Money[Filled("BUY")]

\* Every unit of the holding is an order the user can find in the list and in the
\* audit trail (the comment on the critical section of place_order).
FillsAreListed ==
  synced => \A o \in Orders : pc[o] = "filled" => o \in DOMAIN listed /\ o \in rows

\* A placed order is filled, listed as pending or rejected, or dies with the process:
\* neither another order nor a rebuild keeps the lock (place_order).
OrdersSettle ==
  \A o \in Orders : pc[o] = "delay" ~> pc[o] \in {"filled", "pending", "rejected", "lost"}
================================================================================
