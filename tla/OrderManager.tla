----------------------------- MODULE OrderManager ------------------------------
(* The OMS order lifecycle with the execution pipeline under it                   *)
(* (oms/manager.py, oms/order_queue.py, oms/persistence.py, execution/manager.py).  *)
(*                                                                                *)
(* One asyncio process runs four kinds of coroutine: place_order and cancel_order *)
(* (one per request), the queue worker and the reconciler.  They interleave only  *)
(* at awaits, so every action below is the code between two awaits, taken together *)
(* with the effect of the awaited call that resumed it.  A save_order in flight    *)
(* carries the snapshot taken when it was called.  Redis (queue), the database    *)
(* (row, audit) and the broker (posts, brk) survive a crash; memory does not.     *)
EXTENDS OrderStates, Reconciliation, Sequences, FiniteSets

CONSTANTS MaxRetries,   \* OmniOrder.max_retries, at most 3
          MaxCrashes,   \* bound on restarts
          Expected,     \* what the local order says of itself: its Attributes
          Listed,       \* what the broker's order list says of the order it makes
          Closings,     \* how the broker may close an order, of filled and the Dead states
          Events        \* environment events that may happen, a subset of EventKinds

(* crash: the process dies and restarts                                          *)
(* cancel, retry, modify: cancel_order, retry_order or modify_order is called    *)
(* lost: the broker's answer to a POST is lost                                   *)
(* dropped: it is lost with an exception that broker_adapter.place_order does    *)
(*          not take for a lost answer                                           *)
(* partial: the broker fills in parts          lookup: a broker lookup fails     *)
(* redis: an enqueue does not reach Redis                                        *)
(* db: a write to oms_orders fails             audit: an access to orders fails  *)
EventKinds == {"crash", "cancel", "retry", "modify", "lost", "dropped", "partial",
               "lookup", "redis", "db", "audit"}

\* IDENTITY_ATTRIBUTES: the contract (securityId, exchangeSegment), the terms (side,
\* type, product, expiry, strike, option type) and the quantity.  Price is not one.
\* Unnamed is an attribute the local side does not know, such as the contract of an
\* order that the instrument resolver cannot name.  Expected and Listed may differ for
\* one order: Dhan is sent INTRADAY for MIS, and lists that.
Attributes == {"contract", "terms", "quantity"}
Unnamed    == 0

ASSUME RetriesAssumption == MaxRetries \in Nat
ASSUME CrashesAssumption == MaxCrashes \in Nat
ASSUME AttributesAssumption == Expected \in [Orders -> [Attributes -> Nat]]
                                 /\ Listed \in [Orders -> [Attributes -> Nat]]
ASSUME ClosingsAssumption == Closings \subseteq {"filled", "cancelled", "rejected", "expired"}
ASSUME OrdersAssumption == IsFiniteSet(Orders)
ASSUME EventsAssumption  == Events \subseteq EventKinds

VARIABLES
  mem,      \* the OmniOrder objects: what the process believes of each order
  known,    \* the orders listed in _orders
  row,      \* oms_orders: the row a restart would read
  queue,    \* the Redis list oms:order_queue
  audit,    \* the orders table, unique on (user_id, client_order_id)
  posts,    \* how many broker orders the broker created for the order
  brk,      \* status of the broker's order
  shown,    \* the broker's lookups already return it
  ppc,      \* place_order: where each request stands
  wpc, word, wsnap, wans,         \* the worker: step, order, snapshot, broker answer
  rpc, rord, rsnap, rtodo, rbook, \* the reconciler: step, order, snapshot, pass, book
  upc, usnap,                     \* the user's request on each order: step, snapshot
  crashes,  \* restarts so far
  absences  \* history: lookups that answered "no such order"

store   == <<row, queue, audit>>
broker  == <<posts, brk, shown>>
worker  == <<wpc, word, wsnap, wans>>
recon   == <<rpc, rord, rsnap, rtodo, rbook>>
request == <<upc, usnap>>
bounds  == <<crashes, absences>>
vars    == <<mem, known, store, broker, ppc, worker, recon, request, bounds>>

--------------------------------------------------------------------------------
Bids       == Orders \cup {NoBid}
Blank      == [state |-> "none", bid |-> NoBid, retries |-> 0, absent |-> 0]
Fresh(s)   == [Blank EXCEPT !.state = s]

Live       == {"open", "partial"}
Dead       == {"cancelled", "rejected", "expired"}
BrkStates  == {"none", "filled"} \cup Live \cup Dead
Visible(o) == posts[o] > 0 /\ shown[o]

\* save_order lands the snapshot; a failed write is logged and swallowed.
Land(o, r) == \/ row' = [row EXCEPT ![o] = r]
              \/ "db" \in Events /\ row' = row

\* order_queue.enqueue: dropped with a warning when Redis cannot be reached.
Push(o, delayed) == \/ queue' = Append(queue, [order |-> o, delayed |-> delayed])
                    \/ "redis" \in Events /\ queue' = queue

WithState(o, s) == [mem EXCEPT ![o].state = s]

\* _mirror_audit_status: every audit row of the user with this broker_order_id.
\* A row whose POST has not been answered has broker_order_id "", like an order
\* that was never sent.
Mirror(b, s) ==
  \/ audit' = [p \in Orders |-> IF audit[p].status # "none" /\ audit[p].bid = b
                                 THEN [audit[p] EXCEPT !.status = s] ELSE audit[p]]
  \/ "audit" \in Events /\ audit' = audit

--------------------------------------------------------------------------------
(* place_order: NEW in memory, saved; QUEUED in memory, saved; enqueued.          *)
Place(o) ==
  /\ ppc[o] = "start"
  /\ ppc' = [ppc EXCEPT ![o] = "saving_new"]
  /\ mem' = [mem EXCEPT ![o] = Fresh("NEW")]
  /\ known' = known \cup {o}
  /\ UNCHANGED <<store, broker, worker, recon, request, bounds>>

PlaceQueued(o) ==
  /\ ppc[o] = "saving_new"
  /\ Land(o, Fresh("NEW"))
  /\ mem' = WithState(o, "QUEUED")
  /\ ppc' = [ppc EXCEPT ![o] = "saving_queued"]
  /\ UNCHANGED <<known, queue, audit, broker, worker, recon, request, bounds>>

PlaceSaved(o) ==
  /\ ppc[o] = "saving_queued"
  /\ Land(o, Fresh("QUEUED"))
  /\ ppc' = [ppc EXCEPT ![o] = "enqueueing"]
  /\ UNCHANGED <<mem, known, queue, audit, broker, worker, recon, request, bounds>>

PlaceEnqueue(o) ==
  /\ ppc[o] = "enqueueing"
  /\ Push(o, FALSE)
  /\ ppc' = [ppc EXCEPT ![o] = "done"]
  /\ UNCHANGED <<mem, known, row, audit, broker, worker, recon, request, bounds>>

--------------------------------------------------------------------------------
\* Mutant of Dequeue: sends whatever is queued, in whatever state it is by now.
DequeueAny(i) ==
  LET o    == queue[i].order
      sent == [IF o \in known THEN mem[o] ELSE row[o] EXCEPT !.state = "SENT"]
  IN  /\ wpc = "idle"
      /\ \A j \in 1..(i - 1) : queue[j].delayed
      /\ queue' = SubSeq(queue, i + 1, Len(queue)) \o SubSeq(queue, 1, i - 1)
      /\ known' = known \cup {o}
      /\ mem' = [mem EXCEPT ![o] = sent]
      /\ wpc' = "saving_sent" /\ word' = o /\ wsnap' = sent
      /\ UNCHANGED <<row, audit, broker, ppc, wans, recon, request, bounds>>

(* The worker, _process_queue.  Items that are not due are pushed back to the     *)
(* tail, so the worker may take the first item behind any number of delayed ones; *)
(* a delay that has elapsed is a delayed item taken first.                        *)
Dequeue(i) ==
  LET o     == queue[i].order
      found == IF o \in known THEN mem[o] ELSE row[o]    \* load_order
      sent  == [found EXCEPT !.state = "SENT"]
  IN  /\ wpc = "idle"
      /\ \A j \in 1..(i - 1) : queue[j].delayed
      /\ queue' = SubSeq(queue, i + 1, Len(queue)) \o SubSeq(queue, 1, i - 1)
      /\ known' = IF found = Blank THEN known ELSE known \cup {o}
      /\ IF CanTransition(found.state, "SENT")
           THEN /\ mem' = [mem EXCEPT ![o] = sent]
                /\ wpc' = "saving_sent" /\ word' = o /\ wsnap' = sent
           ELSE /\ mem' = IF found = Blank THEN mem ELSE [mem EXCEPT ![o] = found]
                /\ UNCHANGED <<wpc, word, wsnap>>
      /\ UNCHANGED <<row, audit, broker, ppc, wans, recon, request, bounds>>

SentSaved ==
  /\ wpc = "saving_sent"
  /\ Land(word, wsnap)
  /\ wpc' = "admitting" /\ wsnap' = Blank
  /\ UNCHANGED <<mem, known, queue, audit, broker, ppc, word, wans, recon, request, bounds>>

(* What _process_queue does with an ExecutionResult, up to its next await.        *)
Settle(s, b, next) ==
  /\ mem'   = [mem EXCEPT ![word].state = s, ![word].bid = b]
  /\ wsnap' = [mem[word] EXCEPT !.state = s, !.bid = b]
  /\ wpc'   = next

\* Mutants: a transient failure is retried once too often, or requeued without leaving SENT.
TransientOnceMore ==
  IF mem[word].retries <= MaxRetries
    THEN mem' = WithState(word, "QUEUED") /\ wpc' = "retrying" /\ UNCHANGED wsnap
    ELSE Settle("REJECTED", mem[word].bid, "saving_final")
TransientSent ==
  IF mem[word].retries < MaxRetries
    THEN wpc' = "retrying" /\ UNCHANGED <<mem, wsnap>>
    ELSE Settle("REJECTED", mem[word].bid, "saving_final")

Refused   == Settle("REJECTED", mem[word].bid, "saving_final")
Unknown   == Settle("UNKNOWN",  mem[word].bid, "saving")
Accepted(b)  == Settle("PENDING", b, "saving")
Filled(b)    == Settle("FILLED",  b, "saving_final")
\* The remainder of a partial fill is queued again.  Nothing of the local quantity
\* remains when the broker calls the whole of it a partial fill, or when modify_order
\* has changed it since the POST.
Partly(b) ==
  \/ /\ wans = "partial" \/ "modify" \in Events
     /\ Settle("QUEUED", b, "saving_remainder")
  \/ /\ wans = "whole" \/ "modify" \in Events
     /\ Settle("FILLED", b, "saving_final")
Transient ==
  IF mem[word].retries < MaxRetries
    THEN mem' = WithState(word, "QUEUED") /\ wpc' = "retrying" /\ UNCHANGED wsnap
    ELSE Refused

(* ExecutionManager.place_order before the POST: validation (which refuses a      *)
(* client_order_id that already has an audit row, unless its query fails), risk,  *)
(* the adapter, and the insert of the audit row.                                  *)
Refuse ==
  /\ wpc = "admitting"
  /\ Refused
  /\ UNCHANGED <<known, store, broker, ppc, word, wans, recon, request, bounds>>

Unavailable ==
  /\ wpc = "admitting"
  /\ audit[word].status = "none" \/ "audit" \in Events
  /\ Transient
  /\ UNCHANGED <<known, store, broker, ppc, word, wans, recon, request, bounds>>

\* Mutants of Admit: a claim may be made twice; nothing is claimed before the POST.
AdmitAgain ==
  /\ wpc = "admitting"
  /\ audit' = [audit EXCEPT ![word].status = "PENDING"]
  /\ wpc' = "posting"
  /\ UNCHANGED <<mem, known, row, queue, broker, ppc, word, wsnap, wans, recon, request, bounds>>
AdmitUnrecorded ==
  /\ wpc = "admitting"
  /\ audit[word].status = "none"
  /\ wpc' = "posting"
  /\ UNCHANGED <<mem, known, store, broker, ppc, word, wsnap, wans, recon, request, bounds>>

Admit ==
  /\ wpc = "admitting"
  /\ audit[word].status = "none"
  /\ audit' = [audit EXCEPT ![word].status = "PENDING"]
  /\ wpc' = "posting"
  /\ UNCHANGED <<mem, known, row, queue, broker, ppc, word, wsnap, wans, recon, request, bounds>>

\* The insert violates the unique index, or it landed and its answer was lost:
\* _check_existing_order finds the row and place_order reports DUPLICATE_REQUEST.
Duplicate ==
  /\ wpc = "admitting"
  /\ "audit" \in Events
  /\ audit' = IF audit[word].status = "none"
                THEN [audit EXCEPT ![word].status = "PENDING"] ELSE audit
  /\ IF audit[word].status = "FILLED" THEN Filled(audit[word].bid)
                                      ELSE Accepted(audit[word].bid)
  /\ UNCHANGED <<known, row, queue, broker, ppc, word, wans, recon, request, bounds>>

\* The insert landed but neither its answer nor the lookup that follows arrived.
InsertFailed ==
  /\ wpc = "admitting"
  /\ "audit" \in Events
  /\ audit[word].status = "none"
  /\ audit' = [audit EXCEPT ![word].status = "PENDING"]
  /\ Refused
  /\ UNCHANGED <<known, row, queue, broker, ppc, word, wans, recon, request, bounds>>

(* adapter.place_order: the broker creates the order, or refuses it; then the     *)
(* answer arrives or is lost.  The answer "whole" calls the whole quantity a      *)
(* partial fill.  A request that never arrives is also a refusal whose answer is  *)
(* lost.                                                                          *)
Post ==
  /\ wpc = "posting"
  /\ wpc' = "answering"
  /\ \/ \E s \in {"open", "filled"} \cup (IF "partial" \in Events THEN {"partial"} ELSE {}) :
          /\ posts' = [posts EXCEPT ![word] = @ + 1]
          /\ brk'   = [brk EXCEPT ![word] = s]
          /\ wans' \in {s} \cup (IF s = "filled" /\ "partial" \in Events
                                   THEN {"whole"} ELSE {})
     \/ wans' = "rejected" /\ UNCHANGED <<posts, brk>>
  /\ UNCHANGED <<mem, known, store, shown, ppc, word, wsnap, recon, request, bounds>>

\* The answer arrives: _update_order_in_db, then the branches of _process_queue.
Answer ==
  /\ wpc = "answering"
  /\ wans' = "none"
  /\ \/ /\ wans # "rejected"
        /\ audit' = [audit EXCEPT ![word] =
                      [status |-> IF wans = "filled" THEN "FILLED" ELSE "PENDING",
                       bid |-> word]]
     \/ /\ wans = "rejected" \/ "audit" \in Events
        /\ audit' = audit
  /\ CASE wans = "rejected" -> Refused
       [] wans = "open"     -> Accepted(word)
       [] wans \in {"partial", "whole"} -> Partly(word)
       [] wans = "filled"   -> Filled(word)
  /\ UNCHANGED <<known, row, queue, broker, ppc, word, recon, request, bounds>>

\* IndeterminateOrderError: no answer, so the order stops at UNKNOWN.
AnswerLost ==
  /\ wpc = "answering"
  /\ "lost" \in Events
  /\ wans' = "none"
  /\ Unknown
  /\ UNCHANGED <<known, store, broker, ppc, word, recon, request, bounds>>

\* Any other exception of the call is reported as a refusal by the broker.
AnswerDropped ==
  /\ wpc = "answering"
  /\ "dropped" \in Events
  /\ wans' = "none"
  /\ Refused
  /\ UNCHANGED <<known, store, broker, ppc, word, recon, request, bounds>>

\* The awaits that end an iteration of _process_queue.
WorkerIdle == wpc' = "idle" /\ word' = NoBid /\ wsnap' = Blank

WorkerSaved ==
  /\ wpc = "saving"
  /\ Land(word, wsnap)
  /\ WorkerIdle
  /\ UNCHANGED <<mem, known, queue, audit, broker, ppc, wans, recon, request, bounds>>

WorkerFinalSaved ==
  /\ wpc = "saving_final"
  /\ Land(word, wsnap)
  /\ wpc' = "dropping" /\ wsnap' = Blank
  /\ UNCHANGED <<mem, known, queue, audit, broker, ppc, word, wans, recon, request, bounds>>

WorkerDropped ==
  /\ wpc = "dropping"
  /\ Land(word, Blank)
  /\ WorkerIdle
  /\ UNCHANGED <<mem, known, queue, audit, broker, ppc, wans, recon, request, bounds>>

RemainderSaved ==
  /\ wpc = "saving_remainder"
  /\ Land(word, wsnap)
  /\ wpc' = "requeueing" /\ wsnap' = Blank
  /\ UNCHANGED <<mem, known, queue, audit, broker, ppc, word, wans, recon, request, bounds>>

RemainderQueued ==
  /\ wpc = "requeueing"
  /\ Push(word, TRUE)
  /\ WorkerIdle
  /\ UNCHANGED <<mem, known, row, audit, broker, ppc, wans, recon, request, bounds>>

RetryQueued ==
  /\ wpc = "retrying"
  /\ Push(word, TRUE)
  /\ mem' = [mem EXCEPT ![word].retries = @ + 1]
  /\ wsnap' = [mem[word] EXCEPT !.retries = @ + 1]
  /\ wpc' = "saving"
  /\ UNCHANGED <<known, row, audit, broker, ppc, word, wans, recon, request, bounds>>

--------------------------------------------------------------------------------
(* cancel_order, modify_order and retry_order; one request on an order at a time.   *)
MarkCancelled(o) ==
  /\ mem'   = WithState(o, "CANCELLED")
  /\ usnap' = [usnap EXCEPT ![o] = [mem[o] EXCEPT !.state = "CANCELLED"]]
  /\ upc'   = [upc EXCEPT ![o] = "saving"]

\* The order is saved as it now stands, with a message.
SaveNote(o) ==
  /\ usnap' = [usnap EXCEPT ![o] = mem[o]]
  /\ upc'   = [upc EXCEPT ![o] = "noting"]
  /\ UNCHANGED mem

\* Past the queue: without a broker id the order is cancelled locally, at once.
CancelBeyondQueue(o) ==
  IF mem[o].bid = NoBid
    THEN MarkCancelled(o)
    ELSE /\ upc'   = [upc EXCEPT ![o] = "asking"]
         /\ usnap' = [usnap EXCEPT ![o] = mem[o]]
         /\ UNCHANGED mem

Cancel(o) ==
  /\ "cancel" \in Events
  /\ upc[o] = "idle"
  /\ o \in known
  /\ CanTransition(mem[o].state, "CANCELLED")
  /\ IF mem[o].state = "QUEUED"
       THEN upc' = [upc EXCEPT ![o] = "unqueueing"] /\ UNCHANGED <<mem, usnap>>
       ELSE CancelBeyondQueue(o)
  /\ UNCHANGED <<known, store, broker, ppc, worker, recon, bounds>>

\* order_queue.remove takes out the first item of the order.  It finds none when the
\* order is not queued, when the worker holds the item to put it back (it is not due),
\* or when Redis fails.
Unqueue(o) ==
  /\ upc[o] = "unqueueing"
  /\ \/ \E i \in 1..Len(queue) :
          /\ queue[i].order = o
          /\ \A j \in 1..(i - 1) : queue[j].order # o
          /\ queue' = SubSeq(queue, 1, i - 1) \o SubSeq(queue, i + 1, Len(queue))
          /\ MarkCancelled(o)
     \/ /\ \/ \A i \in 1..Len(queue) : queue[i].order = o => queue[i].delayed
           \/ "redis" \in Events
        /\ CancelBeyondQueue(o)
        /\ UNCHANGED queue
  /\ UNCHANGED <<known, row, audit, broker, ppc, worker, recon, bounds>>

\* The broker is asked; it cancels a live order, or not, and says so, or not.
CancelReaches(o) ==
  /\ upc[o] = "asking"
  /\ LET b == usnap[o].bid IN
     \/ /\ brk[b] \in Live
        /\ brk' = [brk EXCEPT ![b] = "cancelled"]
        /\ \E s \in {"asked_done", "asked_failed"} : upc' = [upc EXCEPT ![o] = s]
     \/ /\ upc' = [upc EXCEPT ![o] = "asked_failed"]
        /\ brk' = brk
  /\ usnap' = [usnap EXCEPT ![o] = Blank]
  /\ UNCHANGED <<mem, known, store, posts, shown, ppc, worker, recon, bounds>>

\* Mutant of CancelAnswered: a request to cancel is taken for a cancelled order.
CancelAssumed(o) ==
  /\ upc[o] \in {"asked_done", "asked_failed"} /\ MarkCancelled(o)
  /\ UNCHANGED <<known, store, broker, ppc, worker, recon, bounds>>

CancelAnswered(o) ==
  /\ \/ upc[o] = "asked_done" /\ MarkCancelled(o)
     \/ upc[o] = "asked_failed" /\ SaveNote(o)
  /\ UNCHANGED <<known, store, broker, ppc, worker, recon, bounds>>

CancelDropped(o) ==
  /\ upc[o] = "dropping"
  /\ Land(o, Blank)
  /\ Mirror(mem[o].bid, "CANCELLED")
  /\ upc' = [upc EXCEPT ![o] = "idle"]
  /\ UNCHANGED <<mem, known, queue, broker, ppc, worker, recon, usnap, bounds>>

(* modify_order: the broker is asked if it knows the order; the save at the end is   *)
(* modelled, the new quantity is any (Partly, Compared), the new price is left out.  *)
Modify(o) ==
  /\ "modify" \in Events
  /\ upc[o] = "idle"
  /\ o \in known
  /\ mem[o].state \in Active
  /\ IF mem[o].bid = NoBid
       THEN SaveNote(o)
       ELSE upc' = [upc EXCEPT ![o] = "modifying"] /\ UNCHANGED <<mem, usnap>>
  /\ UNCHANGED <<known, store, broker, ppc, worker, recon, bounds>>

ModifyAnswered(o) ==
  /\ upc[o] = "modifying"
  /\ SaveNote(o)
  /\ UNCHANGED <<known, store, broker, ppc, worker, recon, bounds>>

(* retry_order: no check of the order's state.  The item is not due for a second or  *)
(* more, so the worker cannot take it before the order is marked QUEUED.            *)
Retry(o) ==
  /\ "retry" \in Events
  /\ upc[o] = "idle"
  /\ o \in known
  /\ IF mem[o].retries >= MaxRetries
       THEN /\ mem'   = WithState(o, "REJECTED")
            /\ usnap' = [usnap EXCEPT ![o] = [mem[o] EXCEPT !.state = "REJECTED"]]
            /\ upc'   = [upc EXCEPT ![o] = "saving_refused"]
       ELSE upc' = [upc EXCEPT ![o] = "requeueing"] /\ UNCHANGED <<mem, usnap>>
  /\ UNCHANGED <<known, store, broker, ppc, worker, recon, bounds>>

RetryRefused(o) ==
  /\ upc[o] = "dropping_refused"
  /\ Land(o, Blank)
  /\ upc' = [upc EXCEPT ![o] = "idle"]
  /\ UNCHANGED <<mem, known, queue, audit, broker, ppc, worker, recon, usnap, bounds>>

RetryPushed(o) ==
  /\ upc[o] = "requeueing"
  /\ Push(o, TRUE)
  /\ LET r == [mem[o] EXCEPT !.state = "QUEUED", !.retries = @ + 1] IN
       /\ mem'   = [mem EXCEPT ![o] = r]
       /\ usnap' = [usnap EXCEPT ![o] = r]
       /\ upc'   = [upc EXCEPT ![o] = "noting"]
  /\ UNCHANGED <<known, row, audit, broker, ppc, worker, recon, bounds>>

\* The save of a request, and what follows it.
RequestSaved(o) ==
  /\ upc[o] \in {"saving", "saving_refused", "noting"}
  /\ Land(o, usnap[o])
  /\ upc' = [upc EXCEPT ![o] = CASE @ = "saving"         -> "dropping"
                                 [] @ = "saving_refused" -> "dropping_refused"
                                 [] @ = "noting"         -> "idle"]
  /\ usnap' = [usnap EXCEPT ![o] = Blank]
  /\ UNCHANGED <<mem, known, queue, audit, broker, ppc, worker, recon, bounds>>

--------------------------------------------------------------------------------
(* The reconciler: first the orders the broker never answered for, from a list    *)
(* taken once, then the open orders against the broker's book.                    *)
\* Mutant of PassBegin: investigates acknowledged orders too.
PassBeginAll ==
  /\ rpc = "idle"
  /\ rpc' = "unknown"
  /\ rtodo' = {o \in known : mem[o].state \in {"UNKNOWN", "RECONCILING", "PENDING"}}
  /\ UNCHANGED <<mem, known, store, broker, ppc, worker, rord, rsnap, rbook, request, bounds>>

PassBegin ==
  /\ rpc = "idle"
  /\ rpc' = "unknown"
  /\ rtodo' = {o \in known : mem[o].state \in {"UNKNOWN", "RECONCILING"}}
  /\ UNCHANGED <<mem, known, store, broker, ppc, worker, rord, rsnap, rbook, request, bounds>>

\* _reconcile_one_unknown takes the order as it finds it: no check of its state.
Investigate(o) ==
  /\ rpc = "unknown"
  /\ o \in rtodo
  /\ rtodo' = rtodo \ {o}
  /\ mem' = WithState(o, "RECONCILING")
  /\ rord' = o
  /\ rsnap' = [mem[o] EXCEPT !.state = "RECONCILING"]
  /\ rpc' = "marking"
  /\ UNCHANGED <<known, store, broker, ppc, worker, rbook, request, bounds>>

Marked ==
  /\ rpc = "marking"
  /\ Land(rord, rsnap)
  /\ rpc' = "correlating" /\ rsnap' = Blank
  /\ UNCHANGED <<mem, known, queue, audit, broker, ppc, worker, rord, rtodo, rbook, request,
                 bounds>>

Match(o) == [id |-> o, dead |-> brk[o] \in Dead]
Found(S) == [answered |-> TRUE, matches |-> {Match(p) : p \in S}]

\* Mutant of Count: the absence is not carried over to the next pass.
CountForgotten(n) == n

\* A counter that is only compared with the threshold stops there.
Count(n) == IF n < NotFoundThreshold THEN n + 1 ELSE n

\* The branches of _reconcile_one_unknown on a verdict v, up to the next save.
Conclude(v) ==
  LET old  == mem[rord]
      done == CASE v.verdict = "ACCEPTED"  ->
                     [old EXCEPT !.state = "PENDING", !.bid = v.id, !.absent = 0]
                [] v.verdict = "REJECTED"  ->
                     [old EXCEPT !.state = "REJECTED", !.absent = 0]
                [] v.verdict = "AMBIGUOUS" -> [old EXCEPT !.state = "AMBIGUOUS"]
                [] v.verdict = "NOT_FOUND" ->
                     [old EXCEPT !.state = "QUEUED", !.absent = Count(@),
                                 !.retries = @ + 1]
                [] v.verdict = "UNKNOWN"   ->
                     [old EXCEPT !.state = "UNKNOWN", !.absent = Count(@)]
  IN  /\ mem' = [mem EXCEPT ![rord] = done]
      /\ rsnap' = done
      /\ rpc' = CASE v.verdict = "NOT_FOUND" -> "saving_retry"
                  [] v.verdict \in {"REJECTED", "AMBIGUOUS"} -> "saving_final"
                  [] OTHER -> "saving"

\* GET /orders/external/{correlationId}; nothing found leads on to the day's orders.
Correlate ==
  /\ rpc = "correlating"
  /\ \/ /\ mem[rord].bid # NoBid \/ Visible(rord)
        /\ Conclude(Reconcile(mem[rord].bid, Found({rord}), Failed, mem[rord].absent, FALSE))
     \/ /\ mem[rord].bid = NoBid
        /\ "lookup" \in Events
        /\ Conclude(Reconcile(NoBid, Failed, Failed, mem[rord].absent, FALSE))
     \/ /\ mem[rord].bid = NoBid
        /\ ~Visible(rord)
        /\ rpc' = "scanning"
        /\ UNCHANGED <<mem, rsnap>>
  /\ UNCHANGED <<known, store, broker, ppc, worker, rord, rtodo, rbook, request, bounds>>

\* Mutant of Candidates: any visible order of the day is a match.
CandidatesAny(o) == SUBSET {p \in Orders : Visible(p)}

\* attributes_match: every attribute the local side knows agrees.  After modify_order
\* the local quantity may be any, so that it tells nothing.
Compared   == IF "modify" \in Events THEN Attributes \ {"quantity"} ELSE Attributes
Alike(o, p) == \A a \in Compared : Expected[o][a] \in {Unnamed, Listed[p][a]}

\* The attribute scan: the visible broker orders alike that fall in the time window.
\* The order's own does, unless its quantity was modified.
Candidates(o) ==
  LET alike == {p \in Orders : Visible(p) /\ Alike(o, p)}
  IN  {S \in SUBSET alike : o \in alike /\ "modify" \notin Events => o \in S}

Scan ==
  /\ rpc = "scanning"
  /\ \/ \E S \in Candidates(rord), graceOver \in BOOLEAN :
          /\ Conclude(Reconcile(NoBid, Found({}), Found(S), mem[rord].absent, graceOver))
          /\ absences' = IF S = {} THEN [absences EXCEPT ![rord] = Count(@)] ELSE absences
     \/ /\ "lookup" \in Events
        /\ Conclude(Reconcile(NoBid, Found({}), Failed, mem[rord].absent, FALSE))
        /\ UNCHANGED absences
  /\ UNCHANGED <<known, store, broker, ppc, worker, rord, rtodo, rbook, request, crashes>>

\* Mutant of VerdictSaved: a retry verdict is saved and never queued.
VerdictForgotten ==
  /\ rpc \in {"saving", "saving_final", "saving_retry"}
  /\ Land(rord, rsnap)
  /\ rpc' = IF rpc = "saving_final" THEN "dropping" ELSE "unknown"
  /\ rsnap' = Blank
  /\ rord' = IF rpc = "saving_final" THEN rord ELSE NoBid
  /\ UNCHANGED <<mem, known, queue, audit, broker, ppc, worker, rtodo, rbook, request, bounds>>

\* The saves that follow a verdict, and what comes after each.
VerdictSaved ==
  /\ rpc \in {"saving", "saving_final", "saving_retry"}
  /\ Land(rord, rsnap)
  /\ rpc' = CASE rpc = "saving"       -> "unknown"
              [] rpc = "saving_final" -> "dropping"
              [] rpc = "saving_retry" -> "requeueing"
  /\ rsnap' = Blank
  /\ rord' = IF rpc = "saving" THEN NoBid ELSE rord
  /\ UNCHANGED <<mem, known, queue, audit, broker, ppc, worker, rtodo, rbook, request, bounds>>

VerdictDropped ==
  /\ rpc = "dropping"
  /\ Land(rord, Blank)
  /\ rpc' = "unknown" /\ rord' = NoBid
  /\ UNCHANGED <<mem, known, queue, audit, broker, ppc, worker, rsnap, rtodo, rbook, request,
                 bounds>>

VerdictRequeued ==
  /\ rpc = "requeueing"
  /\ Push(rord, TRUE)
  /\ rpc' = "unknown" /\ rord' = NoBid
  /\ UNCHANGED <<mem, known, row, audit, broker, ppc, worker, rsnap, rtodo, rbook, request,
                 bounds>>

\* _reconcile_once, second half: the open orders, and one fetch of the book.
FetchBook ==
  /\ rpc = "unknown"
  /\ rtodo = {}
  /\ LET active == {o \in known : /\ mem[o].bid # NoBid
                                  /\ mem[o].state \in {"PENDING", "PARTIAL"}}
     IN  \/ /\ active # {}
            /\ rpc' = "book" /\ rtodo' = active
            /\ rbook' = [o \in Orders |-> IF Visible(o) THEN brk[o] ELSE "none"]
         \/ /\ active = {} \/ "lookup" \in Events
            /\ rpc' = "idle"
            /\ UNCHANGED <<rtodo, rbook>>
  /\ UNCHANGED <<mem, known, store, broker, ppc, worker, rord, rsnap, request, bounds>>

\* Mutants of Target: a partial fill in the book counts as a fill; orders that die at the broker are taken for open ones.
TargetPartialFilled(s) == CASE s \in {"filled", "partial"} -> "FILLED"
                            [] s = "cancelled" -> "CANCELLED"
                            [] s = "expired" -> "EXPIRED" [] OTHER -> "none"
TargetLiving(s) == CASE s = "filled" -> "FILLED" [] s = "partial" -> "PARTIAL"
                     [] OTHER -> "none"

\* _apply_remote_status: the target state of a book entry, none for an open one.
Target(s) == CASE s = "filled"    -> "FILLED"
               [] s = "partial"   -> "PARTIAL"
               [] s = "cancelled" -> "CANCELLED"
               [] s = "rejected"  -> "REJECTED"
               [] s = "expired"   -> "EXPIRED"
               [] OTHER           -> "none"

ApplyRemote(o) ==
  LET t == IF mem[o].bid = NoBid THEN "none" ELSE Target(rbook[mem[o].bid])
  IN  /\ rpc = "book"
      /\ o \in rtodo
      /\ rtodo' = rtodo \ {o}
      /\ IF t # "none" /\ CanTransition(mem[o].state, t)
           THEN /\ mem' = WithState(o, t)
                /\ rord' = o
                /\ rsnap' = [mem[o] EXCEPT !.state = t]
                /\ rpc' = IF t = "PARTIAL" THEN "saving_partial" ELSE "saving_closed"
           ELSE UNCHANGED <<mem, rord, rsnap, rpc>>
      /\ UNCHANGED <<known, store, broker, ppc, worker, rbook, request, bounds>>

PartialSaved ==
  /\ rpc = "saving_partial"
  /\ Land(rord, rsnap)
  /\ rpc' = "book" /\ rsnap' = Blank /\ rord' = NoBid
  /\ UNCHANGED <<mem, known, queue, audit, broker, ppc, worker, rtodo, rbook, request, bounds>>

ClosedSaved ==
  /\ rpc = "saving_closed"
  /\ Land(rord, rsnap)
  /\ rpc' = "closing"
  /\ UNCHANGED <<mem, known, queue, audit, broker, ppc, worker, rord, rsnap, rtodo, rbook,
                 request, bounds>>

\* remove_order, then the order leaves _orders and its audit row is updated.
Closed ==
  /\ rpc = "closing"
  /\ Land(rord, Blank)
  /\ known' = known \ {rord}
  /\ Mirror(mem[rord].bid, rsnap.state)
  /\ rpc' = "book" /\ rord' = NoBid /\ rsnap' = Blank
  /\ UNCHANGED <<mem, queue, broker, ppc, worker, rtodo, rbook, request, bounds>>

BookDone ==
  /\ rpc = "book"
  /\ rtodo = {}
  /\ rpc' = "idle"
  /\ rbook' = [o \in Orders |-> "none"]
  /\ UNCHANGED <<mem, known, store, broker, ppc, worker, rord, rsnap, rtodo, request, bounds>>

--------------------------------------------------------------------------------
(* The broker and the process.                                                   *)
BrokerShows(o) ==
  /\ posts[o] > 0 /\ ~shown[o]
  /\ shown' = [shown EXCEPT ![o] = TRUE]
  /\ UNCHANGED <<mem, known, store, posts, brk, ppc, worker, recon, request, bounds>>

BrokerMoves(o) ==
  /\ brk[o] \in Live
  /\ \E s \in Closings \cup (IF "partial" \in Events THEN {"partial"} ELSE {}) :
       /\ s # brk[o]
       /\ brk' = [brk EXCEPT ![o] = s]
  /\ UNCHANGED <<mem, known, store, posts, shown, ppc, worker, recon, request, bounds>>

\* The process dies; start() runs _recover_active_orders before any coroutine.
Recovered(o) == IF row[o].state \in Recoverable THEN row[o] ELSE Blank
Requeued     == {o \in Orders : row[o].state \in {"QUEUED", "SENT"}}

Restart ==
  /\ "crash" \in Events
  /\ crashes < MaxCrashes
  /\ crashes' = crashes + 1
  /\ known' = {o \in Orders : row[o].state \in Recoverable}
  /\ mem' = [o \in Orders |-> Recovered(o)]
  /\ \E f \in [1..Cardinality(Requeued) -> Requeued] :
       /\ \A o \in Requeued : \E i \in DOMAIN f : f[i] = o
       /\ queue' = queue \o [i \in 1..Cardinality(Requeued) |->
                                [order |-> f[i], delayed |-> FALSE]]
  /\ ppc' = [o \in Orders |-> IF ppc[o] = "start" THEN "start" ELSE "done"]
  /\ WorkerIdle /\ wans' = "none"
  /\ rpc' = "idle" /\ rord' = NoBid /\ rsnap' = Blank /\ rtodo' = {}
  /\ rbook' = [o \in Orders |-> "none"]
  /\ upc' = [o \in Orders |-> "idle"] /\ usnap' = [o \in Orders |-> Blank]
  /\ UNCHANGED <<row, audit, broker, absences>>

--------------------------------------------------------------------------------
Init ==
  /\ mem = [o \in Orders |-> Blank]
  /\ known = {}
  /\ row = [o \in Orders |-> Blank]
  /\ queue = <<>>
  /\ audit = [o \in Orders |-> [status |-> "none", bid |-> NoBid]]
  /\ posts = [o \in Orders |-> 0]
  /\ brk = [o \in Orders |-> "none"]
  /\ shown = [o \in Orders |-> FALSE]
  /\ ppc = [o \in Orders |-> "start"]
  /\ wpc = "idle" /\ word = NoBid /\ wsnap = Blank /\ wans = "none"
  /\ rpc = "idle" /\ rord = NoBid /\ rsnap = Blank /\ rtodo = {}
  /\ rbook = [o \in Orders |-> "none"]
  /\ upc = [o \in Orders |-> "idle"] /\ usnap = [o \in Orders |-> Blank]
  /\ crashes = 0
  /\ absences = [o \in Orders |-> 0]

PlaceRest(o)   == PlaceQueued(o) \/ PlaceSaved(o) \/ PlaceEnqueue(o)
PlaceStep(o)   == Place(o) \/ PlaceRest(o)
RequestRest(o) == Unqueue(o) \/ CancelReaches(o) \/ CancelAnswered(o) \/ CancelDropped(o)
                  \/ ModifyAnswered(o) \/ RetryRefused(o) \/ RetryPushed(o)
                  \/ RequestSaved(o)
RequestStep(o) == Cancel(o) \/ Modify(o) \/ Retry(o) \/ RequestRest(o)
WorkerStep    == \/ \E i \in 1..Len(queue) : Dequeue(i)
                 \/ SentSaved \/ Refuse \/ Unavailable \/ Admit \/ Duplicate
                 \/ InsertFailed \/ Post \/ Answer \/ AnswerLost \/ AnswerDropped
                 \/ WorkerSaved
                 \/ WorkerFinalSaved \/ WorkerDropped \/ RemainderSaved
                 \/ RemainderQueued \/ RetryQueued
ReconStep     == \/ PassBegin \/ Marked \/ Correlate \/ Scan \/ VerdictSaved
                 \/ VerdictDropped \/ VerdictRequeued \/ FetchBook \/ PartialSaved
                 \/ ClosedSaved \/ Closed \/ BookDone
                 \/ \E o \in Orders : Investigate(o) \/ ApplyRemote(o)
BrokerStep    == \E o \in Orders : BrokerShows(o) \/ BrokerMoves(o)

Next == \/ \E o \in Orders : PlaceStep(o) \/ RequestStep(o)
        \/ WorkerStep \/ ReconStep \/ BrokerStep \/ Restart

Spec == Init /\ [][Next]_vars

--------------------------------------------------------------------------------
OrderRec == [state : States \cup {"none"}, bid : Bids, retries : Nat,
             absent : 0..NotFoundThreshold]
Item     == [order : Orders, delayed : BOOLEAN]
AuditRec == [status : {"none", "PENDING"} \cup States, bid : Bids]

TypeOrders ==
  /\ mem \in [Orders -> OrderRec]
  /\ known \subseteq Orders
  /\ row \in [Orders -> OrderRec]
  /\ queue \in Seq(Item)
  /\ audit \in [Orders -> AuditRec]

TypeBroker ==
  /\ posts \in [Orders -> Nat]
  /\ brk \in [Orders -> BrkStates]
  /\ shown \in [Orders -> BOOLEAN]
  /\ crashes \in Nat /\ crashes <= MaxCrashes
  /\ absences \in [Orders -> 0..NotFoundThreshold]

TypeWorker ==
  /\ wpc \in {"idle", "saving_sent", "admitting", "posting", "answering", "saving",
              "saving_final", "dropping", "saving_remainder", "requeueing", "retrying"}
  /\ word \in Bids
  /\ wpc # "idle" => word \in Orders
  /\ wsnap \in OrderRec
  /\ wans \in {"none", "open", "partial", "whole", "filled", "rejected"}
  /\ wpc = "answering" => wans # "none"

TypeRecon ==
  /\ rpc \in {"idle", "unknown", "marking", "correlating", "scanning", "saving",
              "saving_final", "saving_retry", "dropping", "requeueing", "book",
              "saving_partial", "saving_closed", "closing"}
  /\ rord \in Bids
  /\ rpc \notin {"idle", "unknown", "book"} => rord \in Orders
  /\ rsnap \in OrderRec
  /\ rpc \in {"saving_closed", "closing"} => rsnap.state \in States
  /\ rtodo \subseteq Orders
  /\ rbook \in [Orders -> BrkStates]

TypeRequests ==
  /\ ppc \in [Orders -> {"start", "saving_new", "saving_queued", "enqueueing", "done"}]
  /\ upc \in [Orders -> {"idle", "unqueueing", "asking", "asked_done", "asked_failed",
                         "saving", "saving_refused", "noting", "dropping",
                         "dropping_refused", "modifying", "requeueing"}]
  /\ usnap \in [Orders -> OrderRec]

\* Types of the state; the steps are the awaits a coroutine may be suspended at.
TypeOK == TypeOrders /\ TypeBroker /\ TypeWorker /\ TypeRecon /\ TypeRequests

\* One logical order is one broker order, whatever is retried, requeued by the
\* reconciler, dequeued twice after a restart, or answered late: a duplicate is a
\* second live position (execution/indeterminate.py).
AtMostOnePost == \A o \in Orders : posts[o] <= 1

\* Whatever the broker holds, the orders table knows of it: no crash or lost answer
\* leaves a broker order without an audit row written before the POST.
EveryPostIsAudited == \A o \in Orders : posts[o] > 0 => audit[o].status # "none"

\* The worker sends an order only behind a claim of its own: the audit row is there
\* and no attempt before this one, of this worker or of one that died, reached the
\* broker (execution/manager.py inserts before it POSTs).
PostIsClaimed ==
  wpc = "posting" => posts[word] = 0 /\ audit[word].status # "none"

\* An order reported FILLED carries the id of a broker order that did fill, across
\* the direct answer, the duplicate-request answer and the book.
FilledIsReal ==
  \A o \in Orders : mem[o].state = "FILLED" =>
                       mem[o].bid # NoBid /\ brk[mem[o].bid] = "filled"

\* No attempt beyond max_retries reaches the broker: the requeue that a NOT_FOUND
\* verdict adds on top of the budget is stopped before the POST.
SentWithinBudget == wpc \in {"posting", "answering"} => mem[word].retries <= MaxRetries

--------------------------------------------------------------------------------
(* Refinement.  The row in orders is the claim; the broker order is the rest.     *)
Phase(o) == CASE posts[o] = 0 -> IF audit[o].status = "none" THEN "unclaimed" ELSE "claimed"
              [] posts[o] = 1 -> IF brk[o] \in Live THEN "live" ELSE "over"
              [] OTHER        -> "twice"

Once == INSTANCE OrderOnce WITH phase <- [o \in Orders |-> Phase(o)]

\* The whole lifecycle, with its retries, requeues, restarts and late answers, is an
\* order that is claimed once, sent once and finished once (OrderOnce).
ImplementsOrderOnce == Once!Spec

--------------------------------------------------------------------------------
WorkerOn(o) == wpc # "idle" /\ word = o

\* No lost wake-up: an order in state QUEUED is in the queue, or the coroutine that
\* made it QUEUED is still on its way to the queue (Redis reachable throughout).
QueuedIsQueued ==
  \A o \in known : mem[o].state = "QUEUED" =>
    \/ \E i \in 1..Len(queue) : queue[i].order = o
    \/ ppc[o] \in {"saving_queued", "enqueueing"}
    \/ WorkerOn(o) /\ wpc \in {"saving_remainder", "requeueing", "retrying"}
    \/ rord = o /\ rpc \in {"saving_retry", "requeueing"}

\* An order in state SENT is in the worker's hands: without a restart nothing else
\* would ever move it on (_process_queue accepts only orders that can become SENT).
SentIsWorkedOn == \A o \in known : mem[o].state = "SENT" => WorkerOn(o)

\* A cancel that takes effect while no attempt is in flight keeps the order from the
\* broker for good, whatever is still queued or requeued.
CancelIsFinal ==
  \A o \in Orders :
    []( mem[o].state = "CANCELLED" /\ ~WorkerOn(o) /\ posts[o] = 0
        => [](posts[o] = 0) )

\* Reconciling a lost answer by attributes may give an order the broker order of a
\* neighbour, but only of one that agrees in everything the local side knows of itself:
\* an order whose contract the resolver names never takes over another contract's fill.
AdoptsOnlyAlike == \A o \in Orders : mem[o].bid \in Orders \ {o} => Alike(o, mem[o].bid)

\* The object was built from its row: by a restart, or by the worker for an order that
\* is no longer listed.
Loaded(o) == Restart \/ (o \notin known /\ o \in known')

\* A fill is final: no cancel racing the worker or the book, no verdict and no requeue
\* turns an order reported FILLED into something else, as long as the object lives.
FilledIsFinal ==
  [][ \A o \in Orders : mem[o].state = "FILLED" /\ ~Loaded(o)
                           => mem'[o].state = "FILLED" ]_vars

\* Every change of state is one the table allows, or puts an order back in the queue:
\* the worker's retry and remainder (from SENT) and the reconciler's NOT_FOUND.
StepsFollowTable ==
  [][ \A o \in Orders :
        LET was == mem[o].state  is == mem'[o].state IN
        \/ is = was \/ Loaded(o)
        \/ CanTransition(was, is)
        \/ was \in {"SENT", "RECONCILING"} /\ is = "QUEUED" ]_vars

\* REJECTED means refused: the broker holds no live order of that name.
RejectedIsNotLive == \A o \in Orders : mem[o].state = "REJECTED" => brk[o] \notin Live

--------------------------------------------------------------------------------
(* Fairness.  A coroutine that can run is scheduled, its awaits return or time     *)
(* out (broker and database clients have timeouts), and the broker ends up         *)
(* listing an order it accepted.  Lookups may fail any number of times but not     *)
(* always, and the NOT_FOUND grace period elapses.  No request is ever owed.       *)
Fairness ==
  /\ WF_vars(WorkerStep)
  /\ WF_vars(ReconStep)
  /\ SF_vars(Correlate /\ mem'[rord].state # "UNKNOWN")
  /\ SF_vars(Scan /\ mem'[rord].state # "UNKNOWN")
  /\ SF_vars(FetchBook /\ rpc' = "book")
  /\ \A o \in Orders : /\ WF_vars(PlaceRest(o)) /\ WF_vars(RequestRest(o))
                       /\ WF_vars(BrokerShows(o))

FairSpec == Spec /\ Fairness

\* A placed order is eventually handled: it does not stay on its way to the broker.
OnItsWay(o) == mem[o].state \in {"NEW", "QUEUED", "SENT"}
OrdersAreHandled == \A o \in Orders : OnItsWay(o) ~> ~OnItsWay(o)

\* An order the broker never answered for is eventually resolved by reconciliation.
InDoubt(o) == mem[o].state \in {"UNKNOWN", "RECONCILING"}
DoubtIsResolved == \A o \in Orders : InDoubt(o) ~> ~InDoubt(o)

\* When the broker is done with an order, the OMS eventually reports it as final.
ClosedIsNoticed ==
  \A o \in Orders : brk[o] \in {"filled"} \cup Dead ~> IsTerminal(mem[o].state)
================================================================================
