-------------------------------- MODULE Brackets --------------------------------
(* Automatic stop-loss and target of filled orders (oms/manager.py): a bracket is *)
(* attached when an order is found FILLED, the monitor loop places the exit when  *)
(* a quote is beyond one of its levels, a restart loads the active ones.          *)
(*                                                                                *)
(* A step ends at an await.  The monitor is one task and handles one bracket      *)
(* after the other; the worker or the reconciler attaches and a cancel            *)
(* deactivates meanwhile.  place_order returns once the exit is queued: what the  *)
(* worker or the broker makes of it is usually known later.                       *)
(*                                                                                *)
(* Not modelled: retry_order of a FILLED order, which nothing in the repository   *)
(* calls.  The order would be answered from its audit row, found FILLED again and *)
(* given a second bracket, whatever became of the first.                          *)
EXTENDS Naturals, FiniteSets

CONSTANTS
  Entries,     \* orders that may fill and are no exits themselves
  MaxCrashes,  \* bound on restarts
  Events       \* environment events that may happen

(* crash: the process dies and restarts    db: a write of a bracket's row fails   *)
(* refuse: an exit is refused, by the worker or by the broker                     *)
(* cancel: cancel_order meets the fill     unpriced: a fill without any price     *)
(* dark: a symbol has no quote                                                    *)
EventKinds == {"crash", "db", "refuse", "cancel", "unpriced", "dark"}

ASSUME EntriesAssumption == IsFiniteSet(Entries)
ASSUME CrashesAssumption == MaxCrashes \in Nat
ASSUME EventsAssumption  == Events \subseteq EventKinds

VARIABLES
  entry,    \* where each order stands
  cancel,   \* a cancel_order under way for it
  bracket,  \* _bracket_orders: none, active or used up
  row,      \* oms_bracket_orders
  price,    \* what the market says of the levels of an active bracket
  mon,      \* the monitor: where it is suspended
  todo,     \* the exits its pass still has to place: <<entry, leg>>
  exit,     \* the exit it is placing
  tries,    \* place_order calls for that exit
  refused,  \* that exit was refused before place_order returned
  working,  \* exits of each entry that were queued and not refused
  exited,   \* history: an exit was placed and noted
  revoked,  \* history: a cancel was acknowledged
  crashes

orders  == <<entry, cancel, revoked>>
monitor == <<mon, todo, exit, tries, refused>>
vars    == <<orders, bracket, row, price, monitor, working, exited, crashes>>

Legs   == {"sl", "target"}
Quotes == {"inside"} \cup Legs \cup (IF "dark" \in Events THEN {"dark"} ELSE {})
Exits == Entries \X Legs
Nobody == <<>>

--------------------------------------------------------------------------------
Init ==
  /\ entry = [e \in Entries |-> "open"] /\ cancel = [e \in Entries |-> "none"]
  /\ bracket = [e \in Entries |-> "none"] /\ row = [e \in Entries |-> "none"]
  /\ price = [e \in Entries |-> "inside"]
  /\ mon = "idle" /\ todo = {} /\ exit = Nobody /\ tries = 0 /\ refused = FALSE
  /\ working = [e \in Entries |-> 0] /\ exited = [e \in Entries |-> FALSE]
  /\ revoked = [e \in Entries |-> FALSE] /\ crashes = 0

\* save_bracket_order: a failed write is logged and swallowed.
Land(e, s) ==
  \/ row' = [row EXCEPT ![e] = s]
  \/ "db" \in Events /\ row' = row

\* A bracket is deactivated; no pass asks for its price any more.
UseUp(e) ==
  /\ bracket' = [bracket EXCEPT ![e] = "used"]
  /\ price' = [price EXCEPT ![e] = "inside"]

(* An order is found FILLED, by the worker or by the reconciler; the worker does  *)
(* not look whether a cancel has closed it.  It is saved and removed ...          *)
Fill(e) ==
  /\ entry[e] \in {"open", "cancelled"}
  /\ entry' = [entry EXCEPT ![e] = "saving"]
  /\ UNCHANGED <<cancel, revoked, bracket, row, price, monitor, working, exited, crashes>>

(* ... and _attach_auto_bracket protects it, unless no price is known.            *)
Attach(e) ==
  /\ entry[e] = "saving"
  /\ \/ /\ entry' = [entry EXCEPT ![e] = "attaching"]
        /\ bracket' = [bracket EXCEPT ![e] = "active"]
     \/ /\ "unpriced" \in Events
        /\ entry' = [entry EXCEPT ![e] = "bare"]
        /\ bracket' = bracket
  /\ UNCHANGED <<cancel, revoked, row, price, monitor, working, exited, crashes>>

AttachSaved(e) ==
  /\ entry[e] = "attaching"
  /\ entry' = [entry EXCEPT ![e] = "done"]
  /\ Land(e, "active")
  /\ UNCHANGED <<cancel, revoked, bracket, price, monitor, working, exited, crashes>>

(* cancel_order of an order the broker has: it is decided while the order is open *)
(* and declared when the broker has acknowledged it.                              *)
Cancel(e) ==
  /\ "cancel" \in Events
  /\ entry[e] = "open" /\ cancel[e] = "none"
  /\ cancel' = [cancel EXCEPT ![e] = "asked"]
  /\ UNCHANGED <<entry, revoked, bracket, row, price, monitor, working, exited, crashes>>

CancelAnswered(e) ==
  /\ cancel[e] = "asked"
  /\ \/ cancel' = [cancel EXCEPT ![e] = "none"] /\ UNCHANGED <<entry, revoked>>
     \/ /\ cancel' = [cancel EXCEPT ![e] = "dropping"]
        /\ entry' = [entry EXCEPT ![e] = IF @ = "open" THEN "cancelled" ELSE @]
        /\ revoked' = [revoked EXCEPT ![e] = TRUE]
  /\ UNCHANGED <<bracket, row, price, monitor, working, exited, crashes>>

\* _deactivate_bracket, after the order was saved, removed and mirrored.
Deactivate(e) ==
  /\ cancel[e] = "dropping"
  /\ IF bracket[e] = "active"
     THEN /\ UseUp(e)
          /\ cancel' = [cancel EXCEPT ![e] = "saving"]
     ELSE cancel' = [cancel EXCEPT ![e] = "none"] /\ UNCHANGED <<bracket, price>>
  /\ UNCHANGED <<entry, revoked, row, monitor, working, exited, crashes>>

CancelSaved(e) ==
  /\ cancel[e] = "saving"
  /\ cancel' = [cancel EXCEPT ![e] = "none"]
  /\ Land(e, "used")
  /\ UNCHANGED <<entry, revoked, bracket, price, monitor, working, exited, crashes>>

--------------------------------------------------------------------------------
(* _evaluate_brackets.  The quotes of all active brackets are awaited at once.    *)
Pass ==
  /\ mon = "idle" /\ \E e \in Entries : bracket[e] = "active"
  /\ mon' = "quoting"
  /\ todo' = {x \in Exits : bracket[x[1]] = "active"}
  /\ UNCHANGED <<orders, bracket, row, price, exit, tries, refused, working, exited, crashes>>

\* A pass that finds none returns.
PassEmpty ==
  /\ mon = "idle" /\ \A e \in Entries : bracket[e] # "active"
  /\ UNCHANGED vars

\* The next exit of the pass, or the end of the pass.
Proceed(rest) ==
  /\ refused' = FALSE
  /\ \/ /\ rest = {}
        /\ mon' = "idle" /\ todo' = {} /\ exit' = Nobody /\ tries' = 0
     \/ \E x \in rest :
          mon' = "placing" /\ todo' = rest \ {x} /\ exit' = x /\ tries' = 1

\* What the quotes of a pass may say: of a bracket deactivated meanwhile, anything.
Answers ==
  {q \in [Entries -> Quotes] : \A e \in Entries : bracket[e] = "active" => q[e] = price[e]}

\* Mutant: one quote that fails fails them all.
QuotedTogether ==
  /\ mon = "quoting"
  /\ \E q \in Answers : Proceed(IF \E x \in todo : q[x[1]] = "dark" THEN {}
                                ELSE {x \in todo : q[x[1]] = x[2]})
  /\ UNCHANGED <<orders, bracket, row, price, working, exited, crashes>>

\* A bracket without a quote is skipped, the others go by the quote they got, active
\* or not by now, however long the exits before theirs take.
Quoted ==
  /\ mon = "quoting"
  /\ \E q \in Answers : Proceed({x \in todo : q[x[1]] = x[2]})
  /\ UNCHANGED <<orders, bracket, row, price, working, exited, crashes>>

(* _place_exit.  From the moment its QUEUED row is saved the exit will be sent.   *)
ExitQueued ==
  /\ mon = "placing"
  /\ mon' = "queued"
  /\ working' = [working EXCEPT ![exit[1]] = @ + 1]
  /\ UNCHANGED <<orders, bracket, row, price, todo, exit, tries, refused, exited, crashes>>

\* The worker or the broker refuses an exit, perhaps the one being placed.
ExitRefused(e) ==
  /\ "refuse" \in Events /\ working[e] > 0
  /\ working' = [working EXCEPT ![e] = @ - 1]
  /\ IF mon = "queued" /\ exit[1] = e /\ ~refused
     THEN refused' \in BOOLEAN /\ (working[e] = 1 => refused') ELSE refused' = refused
  /\ UNCHANGED <<orders, bracket, row, price, mon, todo, exit, tries, exited, crashes>>

\* Mutant: the bracket is not deactivated with its exit.
NotedLoose ==
  /\ mon = "queued" /\ ~refused
  /\ mon' = "saving"
  /\ exited' = [exited EXCEPT ![exit[1]] = TRUE]
  /\ UNCHANGED <<orders, bracket, row, price, todo, exit, tries, refused, working, crashes>>

\* place_order returned an order that was not refused so far: the bracket is used up.
Noted ==
  /\ mon = "queued" /\ ~refused
  /\ mon' = "saving"
  /\ UseUp(exit[1])
  /\ exited' = [exited EXCEPT ![exit[1]] = TRUE]
  /\ UNCHANGED <<orders, row, todo, exit, tries, refused, working, crashes>>

ExitSaved ==
  /\ mon = "saving"
  /\ Land(exit[1], "used")
  /\ Proceed(todo)
  /\ UNCHANGED <<orders, bracket, price, working, exited, crashes>>

\* Mutants: the bracket of a refused exit is given up; the fallback has a fallback.
GivenUp ==
  /\ mon = "queued" /\ refused
  /\ IF exit[2] = "sl" /\ tries = 1
     THEN /\ mon' = "placing" /\ tries' = 2 /\ refused' = FALSE
          /\ UNCHANGED <<todo, exit, bracket, price>>
     ELSE Proceed(todo) /\ UseUp(exit[1])
  /\ UNCHANGED <<orders, row, working, exited, crashes>>

FallbackAgain ==
  /\ mon = "queued" /\ refused
  /\ IF exit[2] = "sl"
     THEN mon' = "placing" /\ tries' = tries + 1 /\ refused' = FALSE /\ UNCHANGED <<todo, exit>>
     ELSE Proceed(todo)
  /\ UNCHANGED <<orders, bracket, row, price, working, exited, crashes>>

\* It was refused meanwhile: a stop is tried once more at the market, any other exit
\* is left to the next pass.
Fallback ==
  /\ mon = "queued" /\ refused
  /\ IF exit[2] = "sl" /\ tries = 1
     THEN mon' = "placing" /\ tries' = 2 /\ refused' = FALSE /\ UNCHANGED <<todo, exit>>
     ELSE Proceed(todo)
  /\ UNCHANGED <<orders, bracket, row, price, working, exited, crashes>>

--------------------------------------------------------------------------------
\* The market moves; a symbol loses or regains its quote.  Nobody asks for the price
\* of a bracket that is not active.
Move(e) ==
  /\ bracket[e] = "active"
  /\ \E p \in Quotes \ {price[e]} : price' = [price EXCEPT ![e] = p]
  /\ UNCHANGED <<orders, bracket, row, monitor, working, exited, crashes>>

(* A restart.  An order whose FILLED row was not saved is recovered as it was and *)
(* found FILLED again; one whose row was is final and gets no bracket any more.   *)
(* Queued exits are recovered; the active brackets are loaded.                    *)
Restart ==
  /\ "crash" \in Events /\ crashes < MaxCrashes
  /\ crashes' = crashes + 1
  /\ \E lost \in SUBSET {e \in Entries : entry[e] = "saving"} :
       entry' = [e \in Entries |->
                   IF e \in lost \/ entry[e] = "attaching" THEN "bare"
                   ELSE IF entry[e] = "saving" THEN "open" ELSE entry[e]]
  /\ bracket' = [e \in Entries |-> IF row[e] = "active" THEN "active" ELSE "none"]
  /\ price' = [e \in Entries |-> "inside"]
  /\ cancel' = [e \in Entries |-> "none"]
  /\ mon' = "idle" /\ todo' = {} /\ exit' = Nobody /\ tries' = 0 /\ refused' = FALSE
  /\ UNCHANGED <<revoked, row, working, exited>>

MonitorStep == Pass \/ Quoted \/ ExitQueued \/ Noted \/ ExitSaved \/ Fallback

Next ==
  \/ \E e \in Entries : \/ Fill(e) \/ Attach(e) \/ AttachSaved(e)
                        \/ Cancel(e) \/ CancelAnswered(e) \/ Deactivate(e) \/ CancelSaved(e)
                        \/ ExitRefused(e) \/ Move(e)
  \/ MonitorStep \/ PassEmpty
  \/ Restart

Spec == Init /\ [][Next]_vars

\* The monitor loop is scheduled, and its quotes and writes return or time out.
FairSpec == Spec /\ WF_vars(MonitorStep)

--------------------------------------------------------------------------------
\* Every variable has its type; an exit is tried at most twice in a pass (_place_exit).
TypeOK ==
  /\ entry \in [Entries -> {"open", "saving", "attaching", "done", "bare", "cancelled"}]
  /\ cancel \in [Entries -> {"none", "asked", "dropping", "saving"}]
  /\ bracket \in [Entries -> {"none", "active", "used"}]
  /\ row \in [Entries -> {"none", "active", "used"}]
  /\ price \in [Entries -> Quotes]
  /\ mon \in {"idle", "quoting", "placing", "queued", "saving"}
  /\ todo \subseteq Exits
  /\ exit \in Exits \cup {Nobody} /\ tries \in 0..2 /\ refused \in BOOLEAN
  /\ working \in [Entries -> Nat]
  /\ exited \in [Entries -> BOOLEAN] /\ revoked \in [Entries -> BOOLEAN]
  /\ crashes \in 0..MaxCrashes

\* A position is closed once: one process never has two exits of a bracket under way,
\* whatever is refused, deactivated or saved late, so every further exit costs a
\* restart (_evaluate_brackets, _place_exit).
OneExitPerLife == \A e \in Entries : working[e] <= 1 + crashes

\* "Attach default SL/target protection to any filled order" (_attach_auto_bracket): the
\* bracket of a filled order stays active until its exit is placed, over refused exits
\* and, once its row is saved, over restarts.
ProtectedFill ==
  \A e \in Entries :
    entry[e] = "done" /\ ~revoked[e] /\ (crashes = 0 \/ row[e] # "none")
      => bracket[e] = "active" \/ exited[e]

\* A bracket whose level stays crossed gets its exit placed, though other symbols have
\* no quote and other exits are refused for ever (_bracket_loop).
BreachIsActedOn ==
  \A e \in Entries :
    bracket[e] = "active" /\ price[e] \in Legs
      ~> bracket[e] # "active" \/ price[e] \notin Legs \/ (mon = "placing" /\ exit[1] = e)
================================================================================
