---------------------------- MODULE TradePipeline ------------------------------
(* From reported fills to the position book and its checkpoint                    *)
(* (execution_engine/trades.py, positions.py, fifo.py, pnl.py, portfolio_engine.py, *)
(* persistence.py), for one user, broker and symbol.                               *)
(*                                                                                *)
(* One fill is reported by more than one producer (the paper broker, the OMS, the *)
(* engine facade).  The bus dispatcher suspends only when its queue is empty, so  *)
(* a report runs through ledger, position, P&L and snapshot without interruption: *)
(* that chain is one action.  Writing the checkpoint is a task of its own, with   *)
(* an await for the lock, one for the select and one for the write.               *)
EXTENDS FifoLots, FiniteSets

CONSTANTS Fills,     \* executions that happen
          Detail,      \* what each is: broker order, side, quantity, price
          Sources,     \* producers that report each fill: of a paper order the paper
                       \* broker, and the OMS too when the order went through it
          LedgerCap,   \* TradeLedger max_per_account
          MaxCrashes,  \* bound on restarts
          Events       \* environment events that may happen

(* crash: the process dies and restarts                                           *)
(* read:  the select of an upsert fails and looks like "no row"                   *)
(* write: its update or insert fails; the failure is logged and swallowed         *)
(* load:  the restore cannot read the checkpoints and takes them for none         *)
EventKinds == {"crash", "read", "write", "load"}

ASSUME FillsAssumption == IsFiniteSet(Fills)
ASSUME DetailAssumption ==
  Detail \in [Fills -> [order : Nat, side : Sides, qty : Nat \ {0}, price : Nat \ {0}]]
ASSUME SourcesAssumption == Sources \in [Fills -> SUBSET {"paper", "oms", "facade"}]
ASSUME CapAssumption     == LedgerCap \in Nat \ {0}
ASSUME CrashesAssumption == MaxCrashes \in Nat
ASSUME EventsAssumption  == Events \subseteq EventKinds

VARIABLES
  filled,   \* fills the broker executed
  reports,  \* reports on their way to the bus: <<fill, source>>
  ledger,   \* TradeLedger: fingerprints, oldest first
  book,     \* PositionManager: FIFO lots, realised P&L; history: the trades in it
  tasks,    \* persist_engine tasks that have not run yet
  waiting,  \* dumped states at the persistence lock, its holder first
  step,     \* the holder's upsert: "select", "insert" or "update"
  row,      \* the row of this user in execution_checkpoints; NoBook when there is none
  phase,    \* "up", or where the restore after a restart stands
  found,    \* the row the restore has loaded; NoBook when it found none
  missed,   \* observation: the last upsert wrote nothing
  start,    \* observation: how this process started, see Starts
  crashes   \* restarts so far

memory == <<ledger, book, tasks, waiting, step>>
boot == <<phase, found, start>>
vars   == <<filled, reports, memory, row, missed, boot, crashes>>

--------------------------------------------------------------------------------
Reports == {r \in Fills \X {"paper", "oms", "facade"} : r[2] \in Sources[r[1]]}
NoBook  == [lots |-> NoLots, realised |-> 0, trades |-> <<>>]

\* clean: with what was stored.  blind: the checkpoint could not be read, and the book
\* began empty.  raced: a fill was booked before the restore replaced the book.
Starts == {"clean", "blind", "raced"}

Key(f) == <<Detail[f].order, Detail[f].qty, Detail[f].price>>

\* TradeLedger.add: a known fingerprint is ignored, the oldest entry makes room.
Record(l, f) ==
  LET longer == Append(l, Key(f))
  IN  IF Contains(l, Key(f)) THEN l
      ELSE IF Len(longer) > LedgerCap THEN Tail(longer) ELSE longer

\* Mutant: the P&L of the fill is computed on the lots it has already changed.
TradeLate(b, r) ==
  LET d    == Detail[r[1]]
      lots == Apply(b.lots, d.side, d.qty, d.price)
  IN  [lots     |-> lots,
       realised |-> b.realised + Realized(lots, d.side, d.qty, d.price),
       trades   |-> Append(b.trades, r)]

\* PositionManager._on_trade_event: the lots, then the position from the lots.
Trade(b, r) ==
  LET d == Detail[r[1]]
  IN  [lots     |-> Apply(b.lots, d.side, d.qty, d.price),
       realised |-> b.realised + Realized(b.lots, d.side, d.qty, d.price),
       trades   |-> Append(b.trades, r)]

--------------------------------------------------------------------------------
Init ==
  /\ filled = {} /\ reports = {}
  /\ ledger = <<>> /\ book = NoBook
  /\ tasks = 0 /\ waiting = <<>> /\ step = "select"
  /\ row = NoBook /\ missed = FALSE
  /\ phase = "up" /\ found = NoBook /\ start = "clean"
  /\ crashes = 0

\* A broker executes; each producer publishes from a task of its own.
Fill(f) ==
  /\ f \notin filled
  /\ filled' = filled \cup {f}
  /\ reports' = reports \cup {<<f, s>> : s \in Sources[f]}
  /\ UNCHANGED <<memory, row, missed, boot, crashes>>

\* The ledger drops a repeated fill; the trade is published all the same, and ends
\* in a new snapshot whose handler starts a persist task.  Nothing waits for the restore.
Take(r) ==
  /\ r \in reports
  /\ reports' = reports \ {r}
  /\ ledger' = Record(ledger, r[1])
  /\ book' = Trade(book, r)
  /\ tasks' = tasks + 1
  /\ start' = IF phase = "up" THEN start ELSE "raced"
  /\ UNCHANGED <<filled, waiting, step, row, missed, phase, found, crashes>>

\* Mutant: the lock does not queue, a dump may overtake one that waits.
DumpFirst ==
  /\ tasks > 0
  /\ tasks' = tasks - 1
  /\ waiting' = IF waiting = <<>> THEN <<book>>
                ELSE <<Head(waiting), book>> \o Tail(waiting)
  /\ UNCHANGED <<filled, reports, ledger, book, step, row, missed, boot, crashes>>

\* persist_engine up to the lock: the state is dumped, the task queues (FIFO).  Two dumps
\* are never equal, as each carries the time it was made, so none is skipped as known.
Dump ==
  /\ tasks > 0
  /\ tasks' = tasks - 1
  /\ waiting' = Append(waiting, book)
  /\ UNCHANGED <<filled, reports, ledger, book, step, row, missed, boot, crashes>>

\* upsert: is there a row?  A failed select reads as none.
Select ==
  /\ waiting # <<>> /\ step = "select"
  /\ \/ step' = IF row = NoBook THEN "insert" ELSE "update"
     \/ "read" \in Events /\ step' = "insert"
  /\ UNCHANGED <<filled, reports, ledger, book, tasks, waiting, row, missed, boot, crashes>>

\* Mutant: the step of the finished upsert is not reset for the next one.
WriteStuck ==
  /\ waiting # <<>> /\ step \in {"insert", "update"}
  /\ row' = Head(waiting) /\ missed' = FALSE
  /\ waiting' = Tail(waiting) /\ step' = "written"
  /\ UNCHANGED <<filled, reports, ledger, book, tasks, boot, crashes>>

\* Mutant: an existing row is taken for up to date.
WriteBlind ==
  /\ waiting # <<>> /\ step \in {"insert", "update"}
  /\ row' = IF step = "insert" THEN Head(waiting) ELSE row
  /\ missed' = FALSE
  /\ waiting' = Tail(waiting) /\ step' = "select"
  /\ UNCHANGED <<filled, reports, ledger, book, tasks, boot, crashes>>

\* The update or the insert.  An insert fails when there is a row after all (the primary
\* key is user, kind and key); a write that fails is forgotten, its digest is kept.
Write ==
  /\ waiting # <<>> /\ step \in {"insert", "update"}
  /\ \/ /\ step = "update" \/ row = NoBook
        /\ row' = Head(waiting) /\ missed' = FALSE
     \/ /\ "write" \in Events \/ (step = "insert" /\ row # NoBook)
        /\ row' = row /\ missed' = TRUE
  /\ waiting' = Tail(waiting) /\ step' = "select"
  /\ UNCHANGED <<filled, reports, ledger, book, tasks, boot, crashes>>

\* The process dies with everything it had not written.
Crash ==
  /\ "crash" \in Events /\ crashes < MaxCrashes
  /\ crashes' = crashes + 1
  /\ reports' = {} /\ ledger' = <<>> /\ book' = NoBook
  /\ tasks' = 0 /\ waiting' = <<>> /\ step' = "select"
  /\ phase' = "booting" /\ found' = NoBook /\ start' = "clean" /\ missed' = FALSE
  /\ UNCHANGED <<filled, row>>

\* recover_runtime_state, a background task of the start: the row is read ...
Load ==
  /\ phase = "booting"
  /\ phase' = "loaded"
  /\ \/ found' = row /\ start' = start
     \/ "load" \in Events /\ found' = NoBook /\ start' = IF start = "raced" THEN start ELSE "blind"
  /\ UNCHANGED <<filled, reports, memory, row, missed, crashes>>

\* ... and replaces the book, with what has been booked since the start.
Restore ==
  /\ phase = "loaded"
  /\ phase' = "up" /\ found' = NoBook
  /\ book' = IF found = NoBook THEN book ELSE found
  /\ UNCHANGED <<filled, reports, ledger, tasks, waiting, step, row, missed, start, crashes>>

Done ==
  /\ filled = Fills /\ reports = {} /\ tasks = 0 /\ waiting = <<>> /\ phase = "up"
  /\ UNCHANGED vars

Next ==
  \/ \E f \in Fills : Fill(f)
  \/ \E r \in Reports : Take(r)
  \/ Dump \/ Select \/ Write
  \/ Crash \/ Load \/ Restore
  \/ Done

Spec == Init /\ [][Next]_vars

--------------------------------------------------------------------------------
Prices == {Detail[f].price : f \in Fills}
Lots   == [longs : Seq(Prices), shorts : Seq(Prices)]
Books  == [lots : Lots, realised : Int, trades : Seq(Reports)]
Keys   == {Key(f) : f \in Fills}

\* Every variable has its type.
TypeOK ==
  /\ filled \subseteq Fills /\ reports \subseteq Reports
  /\ ledger \in Seq(Keys) /\ book \in Books
  /\ tasks \in Nat /\ waiting \in Seq(Books)
  /\ step \in {"select", "insert", "update"}
  /\ row \in Books /\ found \in Books
  /\ phase \in {"up", "booting", "loaded"} /\ start \in Starts /\ missed \in BOOLEAN
  /\ crashes \in 0..MaxCrashes

\* The books that exist: in memory, dumped, stored, loaded.
AllBooks == {book, row, found} \cup Range(waiting)

\* What the trades of one side add up to, in units, in money and unit by unit.
Qty(t, side) ==
  Total([i \in DOMAIN t |-> IF Detail[t[i][1]].side = side THEN Detail[t[i][1]].qty ELSE 0])
Value(t, side) ==
  Total([i \in DOMAIN t |-> IF Detail[t[i][1]].side = side
                            THEN Detail[t[i][1]].qty * Detail[t[i][1]].price ELSE 0])
UnitsOf(t, side) ==
  Joined([i \in DOMAIN t |-> IF Detail[t[i][1]].side = side
                             THEN Units(Detail[t[i][1]].qty, Detail[t[i][1]].price) ELSE <<>>])

\* Of the lots of a book only one side is open, whatever crossed zero, was dumped or
\* restored (FifoLots.apply).
BooksAreOneSided == \A b \in AllBooks : OneSided(b.lots)

\* The net quantity of a book is what its trades bought less what they sold, across
\* checkpoints and restarts (PositionManager._sync_position).
NetIsTraded ==
  \A b \in AllBooks : NetQuantity(b.lots) = Qty(b.trades, "BUY") - Qty(b.trades, "SELL")

\* No money appears or vanishes: realised P&L is the cash of all trades plus the cost
\* of what is open, in every book (FifoLots.apply returns the realised gain).
CashIsConserved ==
  \A b \in AllBooks :
    b.realised = Value(b.trades, "SELL") - Value(b.trades, "BUY")
                 + Worth(b.lots.longs) - Worth(b.lots.shorts)

\* First in, first out: the open units of a side are the last ones traded on it
\* (FifoLots.apply, and to_lots / from_lots over a restart).
OldestCloseFirst ==
  \A b \in AllBooks : /\ IsSuffix(b.lots.longs, UnitsOf(b.trades, "BUY"))
                      /\ IsSuffix(b.lots.shorts, UnitsOf(b.trades, "SELL"))

\* Once every persist task has run, the book is stored, not an older one that waited for
\* the lock (persist_engine).  Two exceptions: the last write failed, which nothing makes
\* good before the next fill; and the restore replaced a book that was already in use.
IdleMeansSaved ==
  /\ phase = "up" /\ tasks = 0 /\ waiting = <<>>
  /\ ~missed /\ start # "raced" /\ book # NoBook
  => row = book

\* A write never replaces what is stored by a book that lacks some of its trades, whatever
\* failed to be written before (persist_engine: dumped before the lock, written after it).
\* A process that could not read the checkpoint, or did not wait for it, does just that.
CheckpointExtends ==
  [][start = "clean" => IsPrefix(row.trades, row'.trades)]_vars

\* "Every downstream engine (Position Manager, ...) consumes trades from the bus" of a
\* ledger that keeps one record per fill (trades.py): the position counts a fill once.
FillsCountOnce ==
  \A f \in Fills : Cardinality({i \in DOMAIN book.trades : book.trades[i][1] = f}) <= 1
================================================================================
