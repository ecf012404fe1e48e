--------------------------- MODULE OrderMoves_proofs ----------------------------
(* How an order moves through the OMS, for any number of orders, retries, restarts   *)
(* and failures: who may write its state at which step, and what follows for the     *)
(* queue, for the retry budget and for the fills that are reported.                  *)
EXTENDS OrderManager_proofs

--------------------------------------------------------------------------------
(* The queue.  An item is put in, taken out or moved; no other item is lost.        *)

InQueue(o) == \E i \in 1..Len(queue) : queue[i].order = o

LEMMA QueueIs ==
  ASSUME TypeOK
  PROVE  /\ queue \in Seq(Item) /\ Len(queue) \in Nat
         /\ \A i \in 1..Len(queue) : queue[i] \in Item /\ queue[i].order \in Orders
<1>1. queue \in Seq(Item) /\ Len(queue) \in Nat
  BY LenProperties DEF TypeOK, TypeOrders
<1>2. \A i \in 1..Len(queue) : queue[i] \in Item
  BY <1>1, ElementOfSeq
<1> QED BY <1>1, <1>2 DEF Item

\* Without the event "redis" every push reaches the queue.
LEMMA PushQueues ==
  ASSUME TypeOK, "redis" \notin Events, NEW o \in Orders, NEW d \in BOOLEAN, Push(o, d)
  PROVE  \A p \in Orders : InQueue(p)' <=> InQueue(p) \/ p = o
<1> DEFINE x == [order |-> o, delayed |-> d]
<1>1. queue' = Append(queue, x) /\ x \in Item /\ x.order = o
  BY DEF Push, Item
<1>2. queue \in Seq(Item) /\ Len(queue) \in Nat
  BY QueueIs
<1> HIDE DEF x
<1>3. /\ Len(queue') = Len(queue) + 1 /\ queue'[Len(queue) + 1] = x
      /\ \A i \in 1..Len(queue) : queue'[i] = queue[i]
  BY <1>1, <1>2, AppendProperties
<1>4. /\ \A i \in 1..Len(queue') : i \in 1..Len(queue) \/ i = Len(queue) + 1
      /\ \A i \in 1..Len(queue) : i \in 1..Len(queue')
      /\ Len(queue) + 1 \in 1..Len(queue')
  BY <1>2, <1>3
<1> HIDE DEF Item
<1> QED BY <1>1, <1>3, <1>4, Zenon DEF InQueue

\* Two ends of a queue that lost its item i, in either order, hold every other item once.
LEMMA ItemsMove ==
  ASSUME TypeOK, NEW i \in 1..Len(queue),
         \/ queue' = SubSeq(queue, i + 1, Len(queue)) \o SubSeq(queue, 1, i - 1)
         \/ queue' = SubSeq(queue, 1, i - 1) \o SubSeq(queue, i + 1, Len(queue))
  PROVE  \E f \in [1..Len(queue') -> (1..Len(queue)) \ {i}] :
           /\ \A k \in 1..Len(queue') : queue'[k] = queue[f[k]]
           /\ \A k, l \in 1..Len(queue') : f[k] = f[l] => k = l
           /\ \A j \in (1..Len(queue)) \ {i} : \E k \in 1..Len(queue') : f[k] = j
<1> DEFINE n == Len(queue)
           head == SubSeq(queue, 1, i - 1)
           tail == SubSeq(queue, i + 1, n)
<1>1. queue \in Seq(Item) /\ n \in Nat /\ i \in 1..n /\ i \in Nat
      /\ \A j \in 1..n : queue[j] \in Item
  BY QueueIs
<1>2. head \in Seq(Item) /\ Len(head) = i - 1 /\ \A j \in 1..(i - 1) : head[j] = queue[j]
  BY <1>1, SubSeqProperties
<1>3. tail \in Seq(Item) /\ Len(tail) = n - i /\ \A j \in 1..(n - i) : tail[j] = queue[j + i]
  BY <1>1, SubSeqProperties
<1> HIDE DEF head, tail, n
<1>4. CASE queue' = tail \o head
  <2> DEFINE f == [k \in 1..Len(queue') |-> IF k <= n - i THEN k + i ELSE k - (n - i)]
  <2>1. Len(queue') = n - 1
        /\ \A j \in 1..Len(queue') : queue'[j] = IF j <= n - i THEN tail[j] ELSE head[j - (n - i)]
    <3>1. /\ Len(queue') = Len(tail) + Len(head)
          /\ \A j \in 1..(Len(tail) + Len(head)) :
               queue'[j] = IF j <= Len(tail) THEN tail[j] ELSE head[j - Len(tail)]
      BY <1>2, <1>3, <1>4, ConcatProperties
    <3>2. Len(tail) + Len(head) = n - 1 /\ Len(tail) = n - i
      BY <1>1, <1>2, <1>3
    <3> QED BY <3>1, <3>2
  <2>2. ASSUME NEW k \in 1..Len(queue')
        PROVE  f[k] \in (1..n) \ {i} /\ queue'[k] = queue[f[k]]
    <3>1. CASE k <= n - i
      <4>1. k \in 1..(n - i) /\ k + i \in (1..n) \ {i} /\ f[k] = k + i
        BY <1>1, <2>1, <3>1
      <4> QED BY <1>3, <2>1, <3>1, <4>1
    <3>2. CASE ~(k <= n - i)
      <4>1. k - (n - i) \in 1..(i - 1) /\ k - (n - i) \in (1..n) \ {i} /\ f[k] = k - (n - i)
        BY <1>1, <2>1, <3>2
      <4> QED BY <1>2, <2>1, <3>2, <4>1
    <3> QED BY <3>1, <3>2
  <2>3. /\ \A k \in 1..Len(queue') : f[k] = IF k <= n - i THEN k + i ELSE k - (n - i)
        /\ f \in [1..Len(queue') -> (1..n) \ {i}]
    BY <2>2
  <2> HIDE DEF f
  <2>4. ASSUME NEW k \in 1..Len(queue'), NEW l \in 1..Len(queue'), f[k] = f[l]
        PROVE  k = l
    <3>1. /\ f[k] = IF k <= n - i THEN k + i ELSE k - (n - i)
          /\ f[l] = IF l <= n - i THEN l + i ELSE l - (n - i)
      BY <2>3
    <3>2. /\ k \in Int /\ l \in Int /\ n \in Int /\ i \in Int
          /\ 1 <= k /\ 1 <= l /\ k <= n - 1 /\ l <= n - 1
      BY <1>1, <2>1
    <3>3. (IF k <= n - i THEN k + i ELSE k - (n - i))
          = (IF l <= n - i THEN l + i ELSE l - (n - i))
      BY <2>4, <3>1, Zenon
    <3> QED BY <3>2, <3>3
  <2>5. ASSUME NEW j \in (1..n) \ {i} PROVE \E k \in 1..Len(queue') : f[k] = j
    <3>1. CASE j > i
      <4>1. j - i \in 1..Len(queue') /\ f[j - i] = j
        BY <1>1, <2>1, <2>3, <3>1
      <4> QED BY <4>1
    <3>2. CASE j < i
      <4>1. j + (n - i) \in 1..Len(queue') /\ f[j + (n - i)] = j
        BY <1>1, <2>1, <2>3, <3>2
      <4> QED BY <4>1
    <3> QED BY <1>1, <3>1, <3>2
  <2> QED BY <2>2, <2>3, <2>4, <2>5 DEF n
<1>5. CASE queue' = head \o tail
  <2> DEFINE f == [k \in 1..Len(queue') |-> IF k <= i - 1 THEN k ELSE k + 1]
  <2>1. Len(queue') = n - 1
        /\ \A j \in 1..Len(queue') : queue'[j] = IF j <= i - 1 THEN head[j] ELSE tail[j - (i - 1)]
    <3>1. /\ Len(queue') = Len(head) + Len(tail)
          /\ \A j \in 1..(Len(head) + Len(tail)) :
               queue'[j] = IF j <= Len(head) THEN head[j] ELSE tail[j - Len(head)]
      BY <1>2, <1>3, <1>5, ConcatProperties
    <3>2. Len(head) + Len(tail) = n - 1 /\ Len(head) = i - 1
      BY <1>1, <1>2, <1>3
    <3> QED BY <3>1, <3>2
  <2>2. ASSUME NEW k \in 1..Len(queue')
        PROVE  f[k] \in (1..n) \ {i} /\ queue'[k] = queue[f[k]]
    <3>1. CASE k <= i - 1
      <4>1. k \in 1..(i - 1) /\ k \in (1..n) \ {i} /\ f[k] = k
        BY <1>1, <2>1, <3>1
      <4> QED BY <1>2, <2>1, <3>1, <4>1
    <3>2. CASE ~(k <= i - 1)
      <4>1. k - (i - 1) \in 1..(n - i) /\ (k - (i - 1)) + i = k + 1
            /\ k + 1 \in (1..n) \ {i} /\ f[k] = k + 1
        BY <1>1, <2>1, <3>2
      <4> QED BY <1>3, <2>1, <3>2, <4>1
    <3> QED BY <3>1, <3>2
  <2>3. /\ \A k \in 1..Len(queue') : f[k] = IF k <= i - 1 THEN k ELSE k + 1
        /\ f \in [1..Len(queue') -> (1..n) \ {i}]
    BY <2>2
  <2> HIDE DEF f
  <2>4. ASSUME NEW k \in 1..Len(queue'), NEW l \in 1..Len(queue'), f[k] = f[l]
        PROVE  k = l
    <3>1. /\ f[k] = IF k <= i - 1 THEN k ELSE k + 1
          /\ f[l] = IF l <= i - 1 THEN l ELSE l + 1
      BY <2>3
    <3>2. /\ k \in Int /\ l \in Int /\ n \in Int /\ i \in Int
          /\ 1 <= k /\ 1 <= l /\ k <= n - 1 /\ l <= n - 1
      BY <1>1, <2>1
    <3>3. (IF k <= i - 1 THEN k ELSE k + 1)
          = (IF l <= i - 1 THEN l ELSE l + 1)
      BY <2>4, <3>1, Zenon
    <3> QED BY <3>2, <3>3
  <2>5. ASSUME NEW j \in (1..n) \ {i} PROVE \E k \in 1..Len(queue') : f[k] = j
    <3>1. CASE j < i
      <4>1. j \in 1..Len(queue') /\ f[j] = j
        BY <1>1, <2>1, <2>3, <3>1
      <4> QED BY <4>1
    <3>2. CASE j > i
      <4>1. j - 1 \in 1..Len(queue') /\ f[j - 1] = j
        BY <1>1, <2>1, <2>3, <3>2
      <4> QED BY <4>1
    <3> QED BY <1>1, <3>1, <3>2
  <2> QED BY <2>2, <2>3, <2>4, <2>5 DEF n
<1> QED BY <1>4, <1>5 DEF head, tail, n

LEMMA WithoutItem ==
  ASSUME TypeOK, NEW i \in 1..Len(queue),
         \/ queue' = SubSeq(queue, i + 1, Len(queue)) \o SubSeq(queue, 1, i - 1)
         \/ queue' = SubSeq(queue, 1, i - 1) \o SubSeq(queue, i + 1, Len(queue))
  PROVE  /\ \A p \in Orders : InQueue(p) /\ p # queue[i].order => InQueue(p)'
         /\ \A p \in Orders : InQueue(p)' => InQueue(p)
<1>1. PICK f \in [1..Len(queue') -> (1..Len(queue)) \ {i}] :
           /\ \A k \in 1..Len(queue') : queue'[k] = queue[f[k]]
           /\ \A j \in (1..Len(queue)) \ {i} : \E k \in 1..Len(queue') : f[k] = j
  BY ItemsMove, Zenon
<1>2. ASSUME NEW p \in Orders, NEW j \in 1..Len(queue), queue[j].order = p, p # queue[i].order
      PROVE  \E k \in 1..Len(queue') : queue'[k].order = p
  <2>1. j # i
    BY <1>2
  <2>2. PICK k \in 1..Len(queue') : f[k] = j
    BY <1>1, <2>1
  <2>3. queue'[k].order = p
    BY <1>1, <1>2, <2>2
  <2> QED BY <2>3
<1>3. ASSUME NEW p \in Orders, NEW k \in 1..Len(queue'), queue'[k].order = p
      PROVE  InQueue(p)
  <2>1. f[k] \in 1..Len(queue) /\ queue[f[k]].order = p
    BY <1>1, <1>3
  <2> QED BY <2>1 DEF InQueue
<1> QED BY <1>2, <1>3 DEF InQueue
--------------------------------------------------------------------------------
(* No lost wake-up, when every push reaches Redis.                                  *)

\* An order is bound for the queue: it is in it, or a coroutine is on its way to it.
Bound(o) ==
  \/ InQueue(o)
  \/ ppc[o] \in {"saving_queued", "enqueueing"}
  \/ WorkerOn(o) /\ wpc \in {"saving_remainder", "requeueing", "retrying"}
  \/ rord = o /\ rpc \in {"saving_retry", "requeueing"}

LEMMA QueuedIsBound ==
  QueuedIsQueued <=> \A o \in known : mem[o].state = "QUEUED" => Bound(o)
BY DEF QueuedIsQueued, Bound, InQueue

\* What a step has to show: who was bound stays bound, unless the step takes him out of
\* QUEUED, and who becomes QUEUED is bound.
LEMMA BoundSteps ==
  ASSUME TypeOK, QueuedIsQueued,
         \A p \in Orders : p \in known' /\ mem'[p].state = "QUEUED" =>
           Bound(p)' \/ (p \in known /\ mem[p].state = "QUEUED" /\ (Bound(p) => Bound(p)')),
         known' \subseteq Orders
  PROVE  QueuedIsQueued'
<1>1. (\A o \in known : mem[o].state = "QUEUED" => Bound(o))'
  BY QueuedIsBound, Zenon
<1>2. (\A o \in known : mem[o].state = "QUEUED" => Bound(o))' => QueuedIsQueued'
  BY DEF QueuedIsQueued, Bound, InQueue
<1> QED BY <1>1, <1>2

LEMMA PlaceBinds ==
  ASSUME TypeOK, QueuedIsQueued, "redis" \notin Events, NEW o \in Orders, PlaceStep(o)
  PROVE  QueuedIsQueued'
<1> USE DEF store, worker, recon
<1>0. /\ mem \in [Orders -> OrderRec] /\ known \subseteq Orders
      /\ ppc \in [Orders -> {"start", "saving_new", "saving_queued", "enqueueing", "done"}]
  BY DEF TypeOK, TypeOrders, TypeRequests
<1>1. UNCHANGED <<wpc, word, rpc, rord>> /\ known' \subseteq Orders
  BY <1>0 DEF PlaceStep, PlaceRest, Place, PlaceQueued, PlaceSaved, PlaceEnqueue
<1>2. \A p \in Orders : p # o => mem'[p] = mem[p] /\ ppc'[p] = ppc[p] /\ (p \in known' => p \in known)
  BY <1>0 DEF PlaceStep, PlaceRest, Place, PlaceQueued, PlaceSaved, PlaceEnqueue, WithState
<1>3. \A p \in Orders : InQueue(p) => InQueue(p)'
  <2>1. CASE PlaceEnqueue(o)
    BY <2>1, PushQueues DEF PlaceEnqueue
  <2>2. CASE queue' = queue
    BY <2>2 DEF InQueue
  <2> QED BY <2>1, <2>2 DEF PlaceStep, PlaceRest, Place, PlaceQueued, PlaceSaved
<1>4. Bound(o)' \/ mem'[o].state = "NEW"
  <2>1. CASE Place(o)
    BY <1>0, <2>1 DEF Place, Fresh, Blank
  <2>2. CASE PlaceQueued(o) \/ PlaceSaved(o)
    BY <1>0, <2>2 DEF PlaceQueued, PlaceSaved, Bound
  <2>3. CASE PlaceEnqueue(o)
    <3>1. InQueue(o)'
      BY <2>3, PushQueues DEF PlaceEnqueue
    <3> QED BY <3>1 DEF Bound
  <2> QED BY <2>1, <2>2, <2>3 DEF PlaceStep, PlaceRest
<1>5. \A p \in Orders : p # o => (Bound(p) => Bound(p)')
  BY <1>1, <1>2, <1>3 DEF Bound, WorkerOn
<1> QED BY <1>1, <1>2, <1>4, <1>5, BoundSteps

\* The requests: an order that is taken out of the queue is cancelled.
LEMMA RequestBinds ==
  ASSUME TypeOK, QueuedIsQueued, "redis" \notin Events, NEW o \in Orders, RequestStep(o)
  PROVE  QueuedIsQueued'
<1> USE DEF store, worker, recon
<1>0. mem \in [Orders -> OrderRec] /\ known \subseteq Orders
  BY DEF TypeOK, TypeOrders
<1>1. UNCHANGED <<wpc, word, rpc, rord, ppc, known>>
  BY DEF RequestStep, RequestRest, Cancel, Modify, Retry, Unqueue, CancelReaches,
     CancelAnswered, CancelDropped, ModifyAnswered, RetryRefused, RetryPushed, RequestSaved
<1>2. \A p \in Orders : p # o => mem'[p] = mem[p]
  BY <1>0 DEF RequestStep, RequestRest, Cancel, Modify, Retry, Unqueue, CancelReaches,
     CancelAnswered, CancelDropped, ModifyAnswered, RetryRefused, RetryPushed, RequestSaved,
     CancelBeyondQueue, MarkCancelled, SaveNote, WithState
<1>3. CASE RetryPushed(o)
  <2>1. \A p \in Orders : InQueue(p)' <=> InQueue(p) \/ p = o
    BY <1>3, PushQueues DEF RetryPushed
  <2>2. \A p \in Orders : (Bound(p) => Bound(p)') /\ Bound(o)'
    BY <1>1, <2>1 DEF Bound, WorkerOn
  <2> QED BY <1>0, <1>1, <1>2, <2>2, BoundSteps
<1>4. CASE Unqueue(o) /\ queue' # queue
  <2>1. PICK i \in 1..Len(queue) :
          /\ queue[i].order = o
          /\ queue' = SubSeq(queue, 1, i - 1) \o SubSeq(queue, i + 1, Len(queue))
          /\ MarkCancelled(o)
    BY <1>4 DEF Unqueue
  <2>2. \A p \in Orders : InQueue(p) /\ p # o => InQueue(p)'
    BY <2>1, WithoutItem
  <2>3. mem'[o].state = "CANCELLED"
    BY <1>0, <2>1 DEF MarkCancelled, WithState, OrderRec
  <2>4. \A p \in Orders : p # o => (Bound(p) => Bound(p)')
    BY <1>1, <2>2 DEF Bound, WorkerOn
  <2> QED BY <1>0, <1>1, <1>2, <2>3, <2>4, BoundSteps
<1>5. CASE ~RetryPushed(o) /\ ~(Unqueue(o) /\ queue' # queue)
  <2>1. queue' = queue
    BY <1>5 DEF RequestStep, RequestRest, Cancel, Modify, Retry, Unqueue, CancelReaches,
       CancelAnswered, CancelDropped, ModifyAnswered, RetryRefused, RequestSaved
  <2>2. mem'[o] = mem[o] \/ mem'[o].state \in {"CANCELLED", "REJECTED"}
    BY <1>0, <1>5 DEF RequestStep, RequestRest, Cancel, Modify, Retry, Unqueue, CancelReaches,
       CancelAnswered, CancelDropped, ModifyAnswered, RetryRefused, RequestSaved,
       CancelBeyondQueue, MarkCancelled, SaveNote, WithState, OrderRec
  <2>3. \A p \in Orders : Bound(p) => Bound(p)'
    BY <1>1, <2>1 DEF Bound, WorkerOn, InQueue
  <2> QED BY <1>0, <1>1, <1>2, <2>2, <2>3, BoundSteps
<1> QED BY <1>3, <1>4, <1>5
\* The worker: it takes an order out of QUEUED with its item, and puts it back into the
\* queue by way of the remainder or the retry.
LEMMA DequeueBinds ==
  ASSUME TypeOK, QueuedIsQueued, NEW i \in 1..Len(queue), Dequeue(i)
  PROVE  QueuedIsQueued'
<1> DEFINE o     == queue[i].order
           found == IF o \in known THEN mem[o] ELSE row[o]
<1>0. /\ mem \in [Orders -> OrderRec] /\ row \in [Orders -> OrderRec]
      /\ known \subseteq Orders /\ o \in Orders
  BY QueueIs DEF TypeOK, TypeOrders
<1>1. UNCHANGED <<ppc, rpc, rord>> /\ wpc = "idle"
  BY DEF Dequeue, recon
<1>2. \A p \in Orders : InQueue(p) /\ p # o => InQueue(p)'
  <2>1. queue' = SubSeq(queue, i + 1, Len(queue)) \o SubSeq(queue, 1, i - 1)
    BY DEF Dequeue
  <2> QED BY <2>1, WithoutItem
<1>3. /\ known' = (IF found = Blank THEN known ELSE known \cup {o})
      /\ \/ mem' = [mem EXCEPT ![o] = [found EXCEPT !.state = "SENT"]]
         \/ /\ ~CanTransition(found.state, "SENT")
            /\ mem' = IF found = Blank THEN mem ELSE [mem EXCEPT ![o] = found]
  BY DEF Dequeue
<1>4. found \in OrderRec /\ (found = Blank => found.state = "none")
  BY <1>0 DEF Blank
<1>5. CanTransition("QUEUED", "SENT")
  BY DEF CanTransition, Transitions, States
<1> HIDE DEF o
<1>6. /\ known' \subseteq Orders
      /\ \A p \in Orders : p # o => mem'[p] = mem[p] /\ (p \in known' => p \in known)
  BY <1>0, <1>3
<1>7. ~(o \in known' /\ mem'[o].state = "QUEUED")
  <2> HIDE DEF found
  <2>1. CASE mem' = [mem EXCEPT ![o] = [found EXCEPT !.state = "SENT"]]
    BY <1>0, <1>4, <2>1 DEF OrderRec
  <2>2. CASE ~CanTransition(found.state, "SENT") /\ found # Blank /\ mem' = [mem EXCEPT ![o] = found]
    BY <1>0, <1>5, <2>2
  <2>3. CASE ~CanTransition(found.state, "SENT") /\ found = Blank /\ mem' = mem
    BY <1>0, <1>3, <1>4, <2>3 DEF found
  <2> QED BY <1>3, <2>1, <2>2, <2>3
<1>8. \A p \in Orders : p # o => (Bound(p) => Bound(p)')
  BY <1>1, <1>2 DEF Bound, WorkerOn
<1> QED BY <1>6, <1>7, <1>8, BoundSteps

\* The order that the worker settles leaves QUEUED, or is on its way back.
LEMMA SettleBinds ==
  ASSUME TypeOK, word \in Orders, wpc \in {"admitting", "answering"},
         UNCHANGED <<known, queue, ppc, word, rpc, rord>>, QueuedIsQueued,
         \/ Refused \/ Unknown \/ Transient
         \/ \E b : Accepted(b) \/ Filled(b) \/ Partly(b)
  PROVE  QueuedIsQueued'
<1>0. mem \in [Orders -> OrderRec] /\ known \subseteq Orders
  BY DEF TypeOK, TypeOrders
<1>1. \A p \in Orders : p # word => mem'[p] = mem[p]
  BY <1>0 DEF Refused, Unknown, Transient, Accepted, Filled, Partly, Settle, WithState
<1>2. mem'[word].state # "QUEUED" \/ wpc' \in {"retrying", "saving_remainder"}
  BY <1>0 DEF Refused, Unknown, Transient, Accepted, Filled, Partly, Settle, WithState, OrderRec
<1>3. \A p \in Orders : p # word => (Bound(p) => Bound(p)')
  BY DEF Bound, WorkerOn, InQueue
<1>4. wpc' \in {"retrying", "saving_remainder"} => Bound(word)'
  BY DEF Bound, WorkerOn
<1> QED BY <1>0, <1>1, <1>2, <1>3, <1>4, BoundSteps

LEMMA WorkerBinds ==
  ASSUME TypeOK, QueuedIsQueued, "redis" \notin Events, WorkerStep
  PROVE  QueuedIsQueued'
<1> USE DEF store, recon, broker
<1>0. /\ mem \in [Orders -> OrderRec] /\ known \subseteq Orders
      /\ wpc # "idle" => word \in Orders
  BY DEF TypeOK, TypeOrders, TypeWorker
<1>1. CASE \E i \in 1..Len(queue) : Dequeue(i)
  BY <1>1, DequeueBinds
<1>2. CASE Refuse \/ Unavailable \/ Duplicate \/ InsertFailed \/ Answer
           \/ AnswerLost \/ AnswerDropped
  <2>1. /\ word \in Orders /\ wpc \in {"admitting", "answering"}
        /\ UNCHANGED <<known, queue, ppc, word, rpc, rord>>
    BY <1>0, <1>2 DEF Refuse, Unavailable, Duplicate, InsertFailed, Answer, AnswerLost,
       AnswerDropped
  <2>2. \/ Refused \/ Unknown \/ Transient
        \/ \E b : Accepted(b) \/ Filled(b) \/ Partly(b)
    <3>1. CASE Answer
      BY <3>1, <1>0 DEF Answer, TypeOK, TypeWorker
    <3> QED BY <1>2, <3>1 DEF Refuse, Unavailable, Duplicate, InsertFailed, AnswerLost,
               AnswerDropped
  <2> QED BY <2>1, <2>2, SettleBinds
<1>3. CASE Admit \/ Post \/ SentSaved \/ WorkerSaved \/ WorkerFinalSaved \/ WorkerDropped
           \/ RemainderSaved
  <2>1. /\ UNCHANGED <<mem, known, queue, ppc, rpc, rord>>
        /\ \/ wpc \notin {"saving_remainder", "requeueing", "retrying"}
           \/ word' = word /\ wpc' = "requeueing"
    BY <1>3 DEF Admit, Post, SentSaved, WorkerSaved, WorkerFinalSaved, WorkerDropped,
       RemainderSaved
  <2>2. \A p \in Orders : Bound(p) => Bound(p)'
    BY <2>1 DEF Bound, WorkerOn, InQueue
  <2> QED BY <1>0, <2>1, <2>2, BoundSteps
<1>4. CASE RemainderQueued \/ RetryQueued
  <2>1. word \in Orders /\ Push(word, TRUE) /\ UNCHANGED <<known, ppc, rpc, rord>>
    BY <1>0, <1>4 DEF RemainderQueued, RetryQueued
  <2>2. \A p \in Orders : InQueue(p)' <=> InQueue(p) \/ p = word
    BY <2>1, PushQueues
  <2>3. \A p \in Orders : mem'[p].state = mem[p].state
    <3>1. \A p \in Orders : mem[p] \in OrderRec
      BY <1>0
    <3>2. mem' = mem \/ mem' = [mem EXCEPT ![word].retries = @ + 1]
      BY <1>4 DEF RemainderQueued, RetryQueued
    <3> QED BY <1>0, <2>1, <3>1, <3>2 DEF OrderRec
  <2>4. \A p \in Orders : Bound(p) => Bound(p)'
    BY <2>1, <2>2 DEF Bound, WorkerOn
  <2> QED BY <1>0, <2>1, <2>3, <2>4, BoundSteps
<1> QED BY <1>1, <1>2, <1>3, <1>4 DEF WorkerStep

\* The reconciler: the order it puts back in QUEUED is on its way to the queue.
LEMMA ReconBinds ==
  ASSUME TypeOK, QueuedIsQueued, "redis" \notin Events, ReconStep
  PROVE  QueuedIsQueued'
<1> USE DEF store, worker
<1>0. /\ mem \in [Orders -> OrderRec] /\ known \subseteq Orders
      /\ rpc \notin {"idle", "unknown", "book"} => rord \in Orders
  BY DEF TypeOK, TypeOrders, TypeRecon
<1>1. CASE Correlate \/ Scan
  <2>1. UNCHANGED <<known, queue, ppc, wpc, word, rord>> /\ rord \in Orders
        /\ rpc \notin {"saving_retry", "requeueing"}
    BY <1>0, <1>1 DEF Correlate, Scan
  <2>2. ASSUME NEW v, Conclude(v), v.verdict \in Verdicts
        PROVE  /\ \A p \in Orders : p # rord => mem'[p] = mem[p]
               /\ mem'[rord].state # "QUEUED" \/ rpc' = "saving_retry"
    <3>1. \A p \in Orders : p # rord => mem'[p] = mem[p]
      BY <1>0, <2>2 DEF Conclude
    <3>2. CASE v.verdict = "NOT_FOUND"
      BY <2>2, <3>2 DEF Conclude
    <3>3. CASE v.verdict # "NOT_FOUND"
      BY <1>0, <2>1, <2>2, <3>3 DEF Conclude, Verdicts, OrderRec
    <3> QED BY <3>1, <3>2, <3>3
  <2>3. \A b, c, a, n, g : Reconcile(b, c, a, n, g).verdict \in Verdicts
    <3>1. \A m : Judge(m).verdict \in Verdicts
      BY DEF Judge, Verdicts
    <3> QED BY <3>1 DEF Reconcile, Verdicts
  <2>4. \/ UNCHANGED mem
        \/ \E v : Conclude(v) /\ v.verdict \in Verdicts
    BY <1>1, <2>3 DEF Correlate, Scan
  <2>5. /\ \A p \in Orders : p # rord => mem'[p] = mem[p]
        /\ mem'[rord] = mem[rord] \/ mem'[rord].state # "QUEUED" \/ rpc' = "saving_retry"
    BY <2>2, <2>4
  <2>6. \A p \in Orders : (Bound(p) => Bound(p)') /\ (p = rord /\ rpc' = "saving_retry" => Bound(p)')
    BY <2>1 DEF Bound, WorkerOn, InQueue
  <2> QED BY <1>0, <2>1, <2>5, <2>6, BoundSteps
<1>2. ASSUME NEW o \in Orders, Investigate(o) \/ ApplyRemote(o)
      PROVE  QueuedIsQueued'
  <2>1. UNCHANGED <<known, queue, ppc, wpc, word>> /\ rpc \in {"unknown", "book"}
    BY <1>2 DEF Investigate, ApplyRemote
  <2>2. /\ \A p \in Orders : p # o => mem'[p] = mem[p]
        /\ mem'[o] = mem[o] \/ mem'[o].state # "QUEUED"
    BY <1>0, <1>2 DEF Investigate, ApplyRemote, Target, WithState, OrderRec
  <2>3. \A p \in Orders : Bound(p) => Bound(p)'
    BY <2>1 DEF Bound, WorkerOn, InQueue
  <2> QED BY <1>0, <2>1, <2>2, <2>3, BoundSteps
<1>3. CASE VerdictRequeued
  <2>1. rord \in Orders /\ UNCHANGED <<mem, known, ppc, wpc, word>>
    BY <1>0, <1>3 DEF VerdictRequeued
  <2>2. \A p \in Orders : InQueue(p)' <=> InQueue(p) \/ p = rord
    BY <1>3, <2>1, PushQueues DEF VerdictRequeued
  <2>3. \A p \in Orders : Bound(p) => Bound(p)'
    BY <2>1, <2>2 DEF Bound, WorkerOn
  <2> QED BY <1>0, <2>1, <2>3, BoundSteps
<1>4. CASE Marked \/ VerdictSaved \/ VerdictDropped \/ PartialSaved \/ ClosedSaved \/ Closed
           \/ PassBegin \/ FetchBook \/ BookDone
  <2>1. /\ UNCHANGED <<mem, queue, ppc, wpc, word>> /\ known' \subseteq known
        /\ \/ rpc \notin {"saving_retry", "requeueing"}
           \/ rpc = "saving_retry" /\ rpc' = "requeueing" /\ rord' = rord
    BY <1>4 DEF Marked, VerdictSaved, VerdictDropped, PartialSaved, ClosedSaved, Closed,
       PassBegin, FetchBook, BookDone
  <2>2. \A p \in Orders : Bound(p) => Bound(p)'
    BY <2>1 DEF Bound, WorkerOn, InQueue
  <2> QED BY <1>0, <2>1, <2>2, BoundSteps
<1> QED BY <1>1, <1>2, <1>3, <1>4 DEF ReconStep

\* _recover_active_orders pushes every order it loads in QUEUED.
LEMMA RestartBinds ==
  ASSUME TypeOK, Restart
  PROVE  QueuedIsQueued'
<1>1. Cardinality(Requeued) \in Nat /\ queue \in Seq(Item)
  BY OrdersAssumption, FS_Subset, FS_CardinalityType DEF Requeued, TypeOK, TypeOrders
<1>2. PICK f \in [1..Cardinality(Requeued) -> Requeued] :
         /\ \A o \in Requeued : \E i \in DOMAIN f : f[i] = o
         /\ queue' = queue \o [i \in 1..Cardinality(Requeued) |->
                                  [order |-> f[i], delayed |-> FALSE]]
  BY DEF Restart
<1> DEFINE s == [i \in 1..Cardinality(Requeued) |-> [order |-> f[i], delayed |-> FALSE]]
<1>3. s \in Seq(Item) /\ Len(s) = Cardinality(Requeued)
  <2>1. s \in [1..Cardinality(Requeued) -> Item]
    BY DEF Item, Requeued
  <2> QED BY <1>1, <2>1, ArrayIsSeq
<1>4. \A i \in 1..Len(s) : s[i].order = f[i]
  BY <1>3
<1>5. queue' = queue \o s
  BY <1>2
<1> HIDE DEF s
<1>6. \A o \in Requeued : InQueue(o)'
  <2> SUFFICES ASSUME NEW o \in Requeued PROVE InQueue(o)'
    OBVIOUS
  <2>1. PICK i \in 1..Len(s) : s[i].order = o
    BY <1>2, <1>3, <1>4
  <2>2. /\ Len(queue \o s) = Len(queue) + Len(s) /\ Len(queue) \in Nat /\ Len(s) \in Nat
        /\ (queue \o s)[Len(queue) + i] = s[i]
    BY <1>1, <1>3, ConcatProperties, LenProperties
  <2> QED BY <1>5, <2>1, <2>2 DEF InQueue
<1>7. \A o \in known' : mem'[o].state = "QUEUED" => o \in Requeued
  BY DEF Restart, Recovered, Requeued
<1> QED BY <1>6, <1>7 DEF QueuedIsQueued, InQueue

\* No order waits for a worker that will never see it, if Redis can be reached: QUEUED is
\* written by coroutines that go on to push (place_order, _process_queue,
\* _reconcile_one_unknown, retry_order), what a restart loads in QUEUED it pushes
\* (_recover_active_orders), and only a cancelled order loses its item (order_queue.remove).
THEOREM NoLostWakeUp ==
  ASSUME "redis" \notin Events
  PROVE  Spec => []QueuedIsQueued
<1>1. Init => QueuedIsQueued
  BY DEF Init, QueuedIsQueued
<1>2. TypeOK /\ QueuedIsQueued /\ [Next]_vars => QueuedIsQueued'
  <2> SUFFICES ASSUME TypeOK, QueuedIsQueued, [Next]_vars PROVE QueuedIsQueued'
    OBVIOUS
  <2>1. CASE UNCHANGED vars
    BY <2>1 DEF vars, store, worker, recon, QueuedIsQueued, WorkerOn
  <2>2. CASE BrokerStep
    BY <2>2 DEF BrokerStep, BrokerShows, BrokerMoves, store, worker, recon, QueuedIsQueued,
       WorkerOn
  <2>3. CASE Restart
    BY <2>3, RestartBinds
  <2> QED BY <2>1, <2>2, <2>3, PlaceBinds, RequestBinds, WorkerBinds, ReconBinds DEF Next
<1>3. Spec => []TypeOK
  BY TypeCorrect
<1> QED BY <1>1, <1>2, <1>3, PTL DEF Spec
--------------------------------------------------------------------------------
(* Who has an order in hand.  An order the worker drives is in SENT, or in QUEUED while  *)
(* its retry is pushed; the reconciler investigates orders in doubt and closes orders    *)
(* with a broker id, and neither takes an order the other has.  A cancel may mark the    *)
(* order at any of these points.  retry_order, which puts an order in any state back in  *)
(* QUEUED, is left out: it breaks this, and what is proved from it below.                *)

Cancelled == IF "cancel" \in Events THEN {"CANCELLED"} ELSE {}

Sending  == {"saving_sent", "admitting", "posting", "answering"}
Doubting == {"unknown", "marking", "correlating", "scanning", "saving", "saving_final",
             "saving_retry", "dropping", "requeueing"}
Asking   == {"marking", "correlating", "scanning"}
Closing  == {"saving_partial", "saving_closed", "closing"}

Driven(o) == word = o /\ wpc \in Sending \cup {"retrying"}

\* An order that is being placed is nobody's yet.
Placing(o) ==
  /\ ppc[o] = "start" => mem[o] = Blank /\ row[o] = Blank /\ o \notin known /\ upc[o] = "idle"
  /\ ppc[o] = "saving_new" =>
       o \in known /\ mem[o].state = "NEW" /\ upc[o] \in {"idle", "modifying", "noting"}
  /\ ppc[o] \in {"start", "saving_new"} => word # o /\ rord # o

Working(o) ==
  Driven(o) => /\ o \in known
               /\ mem[o].state \in {IF wpc = "retrying" THEN "QUEUED" ELSE "SENT"} \cup Cancelled

Doubted(o) ==
  /\ o \in rtodo /\ rpc \in Doubting =>
       o \in known /\ ~Driven(o) /\ mem[o].state \in {"UNKNOWN", "RECONCILING"} \cup Cancelled
  /\ o = rord /\ rpc \in Asking =>
       o \in known /\ ~Driven(o) /\ mem[o].state \in {"RECONCILING"} \cup Cancelled

Open(o) ==
  /\ o \in rtodo /\ rpc \in Closing \cup {"book"} =>
       /\ o \in known /\ ~Driven(o) /\ mem[o].bid # NoBid
       /\ mem[o].state \in {"PENDING", "PARTIAL"} \cup Cancelled
  /\ o = rord /\ rpc \in Closing =>
       /\ o \in known /\ ~Driven(o) /\ mem[o].bid # NoBid /\ mem[o].bid = rsnap.bid
       /\ mem[o].state \in {"PARTIAL", "FILLED", "REJECTED", "EXPIRED", "CANCELLED"}

Asked(o) ==
  /\ upc[o] \notin {"saving_refused", "dropping_refused", "requeueing"}
  /\ "cancel" \notin Events => upc[o] \in {"idle", "modifying", "noting"}

InHand(o) == Placing(o) /\ Working(o) /\ Doubted(o) /\ Open(o) /\ Asked(o)

Stages ==
  /\ rpc \in Asking \cup Closing => rord \notin rtodo
  /\ \A o \in Orders : InHand(o)

\* The records and steps that the parts above read.
LEMMA StageTypes ==
  ASSUME TypeOK
  PROVE  /\ mem \in [Orders -> OrderRec] /\ row \in [Orders -> OrderRec] /\ known \subseteq Orders
         /\ ppc \in [Orders -> {"start", "saving_new", "saving_queued", "enqueueing", "done"}]
         /\ upc \in [Orders -> {"idle", "unqueueing", "asking", "asked_done", "asked_failed",
                                "saving", "saving_refused", "noting", "dropping",
                                "dropping_refused", "modifying", "requeueing"}]
         /\ usnap \in [Orders -> OrderRec]
         /\ wpc # "idle" => word \in Orders
         /\ rpc \notin {"idle", "unknown", "book"} => rord \in Orders
         /\ rtodo \subseteq Orders
         /\ NoBid \notin Orders
BY NoBidAssumption DEF TypeOK, TypeOrders, TypeWorker, TypeRecon, TypeRequests

\* An order that nothing in the step concerns stays where it is.
LEMMA StageStays ==
  ASSUME NEW o \in Orders, InHand(o),
         mem'[o] = mem[o], row'[o] = row[o], o \in known' <=> o \in known,
         ppc'[o] = ppc[o], upc'[o] = upc[o], UNCHANGED <<wpc, word, recon>>
  PROVE  InHand(o)'
BY DEF InHand, Placing, Working, Doubted, Open, Asked, Driven, recon

LEMMA PlaceStages ==
  ASSUME TypeOK, Stages, NEW o \in Orders, PlaceStep(o)
  PROVE  Stages'
<1> USE DEF store, worker, request
<1>1. UNCHANGED <<wpc, word, recon, upc>>
  BY DEF PlaceStep, PlaceRest, Place, PlaceQueued, PlaceSaved, PlaceEnqueue
<1>2. ASSUME NEW p \in Orders, p # o PROVE InHand(p)'
  <2>1. mem'[p] = mem[p] /\ row'[p] = row[p] /\ (p \in known' <=> p \in known) /\ ppc'[p] = ppc[p]
    BY <1>2, StageTypes DEF PlaceStep, PlaceRest, Place, PlaceQueued, PlaceSaved, PlaceEnqueue,
       WithState, Land
  <2> QED BY <1>1, <2>1, StageStays DEF Stages
<1>3. InHand(o)'
  <2>0. InHand(o)
    BY DEF Stages
  <2>1. CASE Place(o)
    <3>1. mem'[o].state = "NEW" /\ o \in known' /\ ppc'[o] = "saving_new" /\ ppc[o] = "start"
      BY <2>1, StageTypes DEF Place, Fresh, Blank
    <3> QED BY <1>1, <2>0, <3>1
            DEF InHand, Placing, Working, Doubted, Open, Asked, Driven, recon, Asking, Closing
  <2>2. CASE PlaceQueued(o)
    <3>1. mem'[o].bid = mem[o].bid /\ mem'[o].state = "QUEUED" /\ known' = known
          /\ ppc'[o] = "saving_queued" /\ ppc[o] = "saving_new"
      BY <2>2, StageTypes DEF PlaceQueued, WithState, OrderRec
    <3> QED BY <1>1, <2>0, <3>1
            DEF InHand, Placing, Working, Doubted, Open, Asked, Driven, recon, Asking, Closing,
                Cancelled
  <2>3. CASE PlaceSaved(o) \/ PlaceEnqueue(o)
    <3>1. UNCHANGED <<mem, known>> /\ ppc'[o] \in {"enqueueing", "done"}
      BY <2>3, StageTypes DEF PlaceSaved, PlaceEnqueue
    <3> QED BY <1>1, <2>0, <3>1
            DEF InHand, Placing, Working, Doubted, Open, Asked, Driven, recon
  <2> QED BY <2>1, <2>2, <2>3 DEF PlaceStep, PlaceRest
<1> QED BY <1>1, <1>2, <1>3 DEF Stages, recon

\* Of the requests only a cancel marks the order.
LEMMA RequestMarks ==
  ASSUME TypeOK, NEW o \in Orders, InHand(o), "retry" \notin Events, RequestStep(o)
  PROVE  /\ \/ mem' = mem
            \/ /\ "cancel" \in Events /\ mem' = WithState(o, "CANCELLED")
               /\ upc[o] \in {"idle", "modifying", "noting"} =>
                    CanTransition(mem[o].state, "CANCELLED")
         /\ \A p \in Orders : p # o => row'[p] = row[p] /\ upc'[p] = upc[p]
         /\ upc[o] = "idle" => o \in known
         /\ Asked(o)'
         /\ upc[o] \in {"idle", "modifying", "noting"} /\ ~CanTransition(mem[o].state, "CANCELLED")
              => upc'[o] \in {"idle", "modifying", "noting"}
<1> USE DEF InHand, Asked, Cancel, Modify, Retry, Unqueue, CancelReaches,
     CancelAnswered, CancelDropped, ModifyAnswered, RetryRefused, RetryPushed, RequestSaved,
     CancelBeyondQueue, MarkCancelled, SaveNote
<1>1. CASE Cancel(o) \/ Unqueue(o) \/ CancelAnswered(o)
  BY <1>1, StageTypes DEF store
<1>2. CASE CancelReaches(o) \/ CancelDropped(o)
  BY <1>2, StageTypes DEF Land, store
<1>3. CASE Modify(o) \/ ModifyAnswered(o) \/ RequestSaved(o)
  BY <1>3, StageTypes DEF Land, store
<1> QED BY <1>1, <1>2, <1>3 DEF RequestStep, RequestRest
LEMMA RequestStages ==
  ASSUME TypeOK, Stages, "retry" \notin Events, NEW o \in Orders, RequestStep(o)
  PROVE  Stages'
<1>1. UNCHANGED <<known, ppc, wpc, word, recon>>
  BY DEF RequestStep, RequestRest, Cancel, Modify, Retry, Unqueue, CancelReaches,
     CancelAnswered, CancelDropped, ModifyAnswered, RetryRefused, RetryPushed, RequestSaved,
     worker
<1>2. InHand(o) /\ TypeOK
  BY DEF Stages
<1>3. /\ mem' = mem \/ ("cancel" \in Events /\ mem' = WithState(o, "CANCELLED"))
      /\ \A p \in Orders : p # o => row'[p] = row[p] /\ upc'[p] = upc[p]
      /\ Asked(o)'
  BY <1>2, RequestMarks
<1>4. \A p \in Orders : p # o => mem'[p] = mem[p]
  BY <1>3, StageTypes DEF WithState
<1>5. ASSUME NEW p \in Orders, p # o PROVE InHand(p)'
  BY <1>1, <1>3, <1>4, <1>5, StageStays DEF Stages
<1>6. Placing(o)'
  <2>1. ppc[o] # "start"
    <3>1. upc[o] = "idle" => o \in known
      BY <1>2, RequestMarks
    <3> QED BY <1>2, <3>1 DEF InHand, Placing
  <2>2. CASE ppc[o] = "saving_new"
    <3>1. mem[o].state = "NEW" /\ upc[o] \in {"idle", "modifying", "noting"}
      BY <1>2, <2>2 DEF InHand, Placing
    <3>2. ~CanTransition("NEW", "CANCELLED")
      BY DEF CanTransition, Transitions, States
    <3>3. mem' = mem /\ upc'[o] \in {"idle", "modifying", "noting"}
      BY <1>2, <3>1, <3>2, RequestMarks
    <3> QED BY <1>1, <1>2, <2>2, <3>3 DEF InHand, Placing, recon
  <2>3. CASE ppc[o] \notin {"start", "saving_new"}
    BY <1>1, <2>3 DEF Placing
  <2> QED BY <2>1, <2>2, <2>3
<1>7. /\ mem'[o].bid = mem[o].bid
      /\ mem'[o].state = mem[o].state \/ ("cancel" \in Events /\ mem'[o].state = "CANCELLED")
  BY <1>3, StageTypes DEF WithState, OrderRec
<1>8. Working(o)' /\ Doubted(o)' /\ Open(o)'
  BY <1>1, <1>2, <1>7 DEF InHand, Working, Doubted, Open, Driven, Cancelled, recon
<1> QED BY <1>1, <1>3, <1>5, <1>6, <1>8 DEF Stages, InHand, recon

\* The worker keeps to the order it drives; it finds a new one in QUEUED.
LEMMA DequeueStages ==
  ASSUME TypeOK, Stages, NEW i \in 1..Len(queue), Dequeue(i)
  PROVE  Stages'
<1>01. queue[i].order \in Orders
  BY QueueIs
<1>02. PICK o \in Orders : o = queue[i].order
  BY <1>01
<1>03. PICK found \in OrderRec : found = IF o \in known THEN mem[o] ELSE row[o]
  BY StageTypes
<1>0. /\ mem \in [Orders -> OrderRec] /\ row \in [Orders -> OrderRec]
      /\ known \subseteq Orders /\ o \in Orders
  BY DEF TypeOK, TypeOrders
<1>1. UNCHANGED <<row, ppc, upc, recon>> /\ wpc = "idle"
  BY DEF Dequeue, request
<1>2. /\ known' = (IF found = Blank THEN known ELSE known \cup {o})
      /\ \/ /\ CanTransition(found.state, "SENT")
            /\ mem' = [mem EXCEPT ![o] = [found EXCEPT !.state = "SENT"]]
            /\ wpc' = "saving_sent" /\ word' = o
         \/ /\ ~CanTransition(found.state, "SENT")
            /\ mem' = IF found = Blank THEN mem ELSE [mem EXCEPT ![o] = found]
            /\ UNCHANGED <<wpc, word>>
  BY <1>02, <1>03 DEF Dequeue
<1>3. found \in OrderRec /\ Blank.state = "none"
  BY <1>0 DEF Blank
<1>4. \A s : CanTransition(s, "SENT") <=> s = "QUEUED"
  BY DEF CanTransition, Transitions, States
<1>5. InHand(o) /\ ~Driven(o)
  BY <1>0, <1>1 DEF Stages, Driven, Sending
<1>6. o \in known => mem[o] = found
  BY <1>03
<1>7. ppc[o] = "start" => found = Blank /\ o \notin known
  BY <1>03, <1>5 DEF InHand, Placing
<1>8. /\ \A p \in Orders : p # o => mem'[p] = mem[p] /\ (p \in known' <=> p \in known)
      /\ \A p \in Orders : ~Driven(p) /\ (p # o => ~Driven(p)')
  BY <1>0, <1>1, <1>2 DEF Driven, Sending
<1>9. ASSUME NEW p \in Orders, p # o PROVE InHand(p)'
  <2>1. InHand(p)
    BY DEF Stages
  <2>2. Placing(p)'
    BY <1>1, <1>2, <1>8, <1>9, <2>1 DEF InHand, Placing, recon
  <2>3. Working(p)' /\ Doubted(p)' /\ Open(p)' /\ Asked(p)'
    BY <1>1, <1>8, <1>9, <2>1 DEF InHand, Working, Doubted, Open, Asked, recon
  <2> QED BY <2>2, <2>3 DEF InHand
<1>10. CASE CanTransition(found.state, "SENT")
  <2>1. /\ found.state = "QUEUED" /\ found # Blank
        /\ mem'[o].state = "SENT" /\ mem'[o].bid = found.bid /\ o \in known'
        /\ wpc' = "saving_sent" /\ word' = o
    BY <1>0, <1>2, <1>3, <1>4, <1>10 DEF OrderRec
  <2>2. ppc[o] \notin {"start", "saving_new"}
    BY <1>5, <1>6, <1>7, <2>1 DEF InHand, Placing
  <2>3. Working(o)'
    BY <2>1 DEF Working, Sending
  <2>4. o \notin rtodo \/ rpc \notin Doubting \cup Closing \cup {"book"}
    BY <1>5, <1>6, <2>1 DEF InHand, Doubted, Open, Cancelled
  <2>5. o # rord \/ rpc \notin Asking \cup Closing
    BY <1>5, <1>6, <2>1 DEF InHand, Doubted, Open, Cancelled
  <2>6. Doubted(o)' /\ Open(o)' /\ Placing(o)' /\ Asked(o)'
    BY <1>1, <1>5, <2>2, <2>4, <2>5 DEF InHand, Doubted, Open, Placing, Asked, recon
  <2> QED BY <1>1, <1>9, <2>3, <2>6 DEF Stages, InHand, recon
<1>11. CASE ~CanTransition(found.state, "SENT")
  <2>1. UNCHANGED <<wpc, word>>
    BY <1>2, <1>11
  <2>2. o \in known => mem'[o] = mem[o] /\ o \in known'
    BY <1>0, <1>2, <1>6, <1>11
  <2>3. ppc[o] = "start" => mem'[o] = mem[o] /\ o \notin known'
    BY <1>2, <1>7, <1>11
  <2>4. Placing(o)'
    BY <1>1, <1>5, <2>1, <2>2, <2>3 DEF InHand, Placing, recon
  <2>5. Working(o)' /\ Doubted(o)' /\ Open(o)' /\ Asked(o)'
    BY <1>1, <1>5, <2>1, <2>2 DEF InHand, Working, Doubted, Open, Asked, Driven, recon
  <2> QED BY <1>1, <1>9, <2>4, <2>5 DEF Stages, InHand, recon
<1> QED BY <1>10, <1>11

\* The order the worker drives is in nobody else's hands.
LEMMA DrivenAlone ==
  ASSUME Stages, NEW o \in Orders, Driven(o)
  PROVE  /\ o \in known
         /\ o \in rtodo => rpc \notin Doubting \cup Closing \cup {"book"}
         /\ o = rord => rpc \notin Asking \cup Closing
         /\ mem[o].state \in {IF wpc = "retrying" THEN "QUEUED" ELSE "SENT"} \cup Cancelled
         /\ ppc[o] \notin {"start", "saving_new"}
BY DEF Stages, InHand, Working, Doubted, Open, Placing, Driven

\* Whatever the worker does with the order it drives, it leaves the others alone.
LEMMA WorkerKeepsStages ==
  ASSUME TypeOK, Stages, NEW o \in Orders, Driven(o),
         \A p \in Orders : p # o => mem'[p] = mem[p] /\ row'[p] = row[p],
         UNCHANGED <<known, ppc, upc, recon>>, word' \in {o, NoBid},
         Working(o)'
  PROVE  Stages'
<1>1. ASSUME NEW p \in Orders, p # o PROVE InHand(p)'
  <2>1. InHand(p) /\ ~Driven(p) /\ ~Driven(p)' /\ word' # p
    BY <1>1, StageTypes DEF Stages, Driven
  <2> QED BY <1>1, <2>1 DEF InHand, Placing, Working, Doubted, Open, Asked, recon
<1>2. InHand(o)'
  BY DrivenAlone DEF Stages, InHand, Placing, Doubted, Open, Asked, recon
<1> QED BY <1>1, <1>2 DEF Stages, recon

LEMMA ReconcileJudges ==
  \A b, c, a, n, g : Reconcile(b, c, a, n, g).verdict \in Verdicts
<1>1. \A m : Judge(m).verdict \in Verdicts
  BY DEF Judge, Verdicts
<1> QED BY <1>1 DEF Reconcile, Verdicts

LEMMA WorkerStages ==
  ASSUME TypeOK, Stages, WorkerStep
  PROVE  Stages'
<1> USE DEF store, broker, request
<1>0. wpc # "idle" => word \in Orders
  BY StageTypes
<1>1. CASE \E i \in 1..Len(queue) : Dequeue(i)
  BY <1>1, DequeueStages
<1>2. CASE Refuse \/ Unavailable \/ Duplicate \/ InsertFailed \/ Answer
           \/ AnswerLost \/ AnswerDropped
  <2>1. /\ word \in Orders /\ wpc \in {"admitting", "answering"}
        /\ UNCHANGED <<known, row, ppc, word, upc, recon>>
    BY <1>0, <1>2 DEF Refuse, Unavailable, Duplicate, InsertFailed, Answer, AnswerLost,
       AnswerDropped
  <2>2. \/ Refused \/ Unknown \/ Transient
        \/ \E b : Accepted(b) \/ Filled(b) \/ Partly(b)
    <3>1. CASE Answer
      BY <3>1, <1>0 DEF Answer, TypeOK, TypeWorker
    <3> QED BY <1>2, <3>1 DEF Refuse, Unavailable, Duplicate, InsertFailed, AnswerLost,
               AnswerDropped
  <2>3. \A p \in Orders : p # word => mem'[p] = mem[p]
    BY <2>2, StageTypes
       DEF Refused, Unknown, Transient, Accepted, Filled, Partly, Settle, WithState
  <2>4. \/ wpc' \in {"saving", "saving_final", "saving_remainder"}
        \/ wpc' = "retrying" /\ mem'[word].state = "QUEUED"
    <3>1. CASE Transient
      <4>1. WithState(word, "QUEUED")[word].state = "QUEUED"
        BY <2>1, StageTypes DEF WithState, OrderRec
      <4> QED BY <3>1, <4>1 DEF Transient, Refused, Settle
    <3> QED BY <2>2, <3>1 DEF Refused, Unknown, Accepted, Filled, Partly, Settle
  <2>5. Driven(word) /\ word \in known
    BY <2>1, DrivenAlone DEF Driven, Sending
  <2>6. \A o \in Orders : o = word => Working(o)'
    BY <2>1, <2>4, <2>5 DEF Working, Driven, Sending
  <2> QED BY <2>1, <2>3, <2>5, <2>6, WorkerKeepsStages
<1>3. CASE SentSaved \/ Admit \/ Post
  <2>1. /\ word \in Orders /\ wpc \in Sending /\ wpc' \in Sending
        /\ UNCHANGED <<mem, known, ppc, word, upc, recon>>
        /\ Land(word, wsnap) \/ row' = row
    BY <1>0, <1>3 DEF SentSaved, Admit, Post, Sending
  <2>2. Driven(word) /\ Working(word)
    BY <2>1 DEF Stages, InHand, Driven
  <2>3. \A o \in Orders : o = word => Working(o)'
    BY <2>1, <2>2 DEF Working, Driven, Sending
  <2>4. \A p \in Orders : p # word => row'[p] = row[p]
    BY <2>1, StageTypes DEF Land
  <2> QED BY <2>1, <2>2, <2>3, <2>4, WorkerKeepsStages
<1>4. CASE RetryQueued
  <2>1. /\ word \in Orders /\ wpc = "retrying" /\ wpc' = "saving"
        /\ UNCHANGED <<known, row, ppc, word, upc, recon>>
    BY <1>0, <1>4 DEF RetryQueued
  <2>2. \A p \in Orders : p # word => mem'[p] = mem[p]
    BY <1>4, StageTypes DEF RetryQueued
  <2>3. Driven(word) /\ \A o \in Orders : o = word => Working(o)'
    BY <2>1 DEF Driven, Working, Sending
  <2> QED BY <2>1, <2>2, <2>3, WorkerKeepsStages
<1>5. CASE WorkerSaved \/ WorkerFinalSaved \/ WorkerDropped \/ RemainderSaved \/ RemainderQueued
  <2>1. /\ word \in Orders /\ wpc \notin Sending \cup {"retrying"}
        /\ wpc' \notin Sending \cup {"retrying"}
        /\ UNCHANGED <<mem, known, ppc, upc, recon>> /\ word' \in {word, NoBid}
        /\ Land(word, wsnap) \/ Land(word, Blank) \/ row' = row
    BY <1>0, <1>5 DEF WorkerSaved, WorkerFinalSaved, WorkerDropped, RemainderSaved,
       RemainderQueued, WorkerIdle, Sending
  <2>2. \A p \in Orders : p # word => row'[p] = row[p]
    BY <2>1, StageTypes DEF Land
  <2>3. \A p \in Orders : ~Driven(p) /\ ~Driven(p)' /\ (p # word => word' # p)
    BY <2>1, StageTypes DEF Driven
  <2>4. \A p \in Orders : InHand(p)'
    BY <2>1, <2>2, <2>3 DEF Stages, InHand, Placing, Working, Doubted, Open, Asked, recon
  <2> QED BY <2>1, <2>4 DEF Stages, recon
<1> QED BY <1>1, <1>2, <1>3, <1>4, <1>5 DEF WorkerStep
\* What the reconciler concludes about an order it asked for.
LEMMA Concludes ==
  ASSUME TypeOK, Correlate \/ Scan
  PROVE  /\ rord \in Orders /\ rpc \in Asking
         /\ UNCHANGED <<known, store, broker, ppc, worker, rord, rtodo, rbook, request>>
         /\ \/ rpc' = "scanning" /\ UNCHANGED <<mem, rsnap>>
            \/ /\ rpc' \in {"saving", "saving_final", "saving_retry"}
               /\ \E v : v.verdict \in Verdicts /\ Conclude(v)
<1>1. \A b, c, a, n, g : Reconcile(b, c, a, n, g).verdict \in Verdicts
  BY ReconcileJudges
<1>2. \A v : Conclude(v) => rpc' \in {"saving", "saving_final", "saving_retry"}
  BY DEF Conclude
<1> QED BY <1>1, <1>2, StageTypes DEF Correlate, Scan, Asking

LEMMA ConcludeStages ==
  ASSUME TypeOK, Stages, Correlate \/ Scan
  PROVE  Stages'
<1>1. PICK o \in Orders : o = rord
  BY Concludes
<1>2. /\ rpc \in Asking /\ rpc' \in {"scanning", "saving", "saving_final", "saving_retry"}
      /\ UNCHANGED <<known, row, ppc, wpc, word, rord, rtodo, upc>>
      /\ rpc' = "scanning" => mem' = mem
  BY Concludes DEF store, worker, request
<1>3. \A p \in Orders : p # o => mem'[p] = mem[p]
  <2>1. \A v : Conclude(v) => \A p \in Orders : p # o => mem'[p] = mem[p]
    BY <1>1, StageTypes DEF Conclude
  <2> QED BY <2>1, Concludes
<1>4. InHand(o) /\ o \notin rtodo /\ o \in known /\ ~Driven(o)
  BY <1>1, <1>2 DEF Stages, InHand, Doubted
<1>5. ppc[o] \notin {"start", "saving_new"}
  BY <1>1, <1>4 DEF InHand, Placing
<1>6. ASSUME NEW p \in Orders, p # o PROVE InHand(p)'
  <2>1. InHand(p) /\ mem'[p] = mem[p] /\ p # rord
    BY <1>1, <1>3, <1>6 DEF Stages
  <2> QED BY <1>2, <2>1 DEF InHand, Placing, Working, Doubted, Open, Asked, Driven, Asking,
             Closing, Doubting
<1>7. InHand(o)'
  BY <1>1, <1>2, <1>4, <1>5 DEF InHand, Placing, Working, Doubted, Open, Asked, Driven, Asking,
     Closing, Doubting
<1> QED BY <1>1, <1>2, <1>4, <1>6, <1>7 DEF Stages, Asking, Closing

LEMMA InvestigateStages ==
  ASSUME TypeOK, Stages, NEW o \in Orders, Investigate(o)
  PROVE  Stages'
<1> USE DEF store, worker, request
<1>1. /\ rpc = "unknown" /\ rpc' = "marking" /\ o \in rtodo /\ rtodo' = rtodo \ {o}
      /\ rord' = o /\ mem' = WithState(o, "RECONCILING")
      /\ UNCHANGED <<known, row, ppc, wpc, word, upc>>
  BY DEF Investigate
<1>2. mem'[o].state = "RECONCILING" /\ \A p \in Orders : p # o => mem'[p] = mem[p]
  BY <1>1, StageTypes DEF WithState, OrderRec
<1>3. InHand(o) /\ o \in known /\ ~Driven(o) /\ mem[o].state # "NEW"
  BY <1>1 DEF Stages, InHand, Doubted, Doubting, Cancelled
<1>4. ppc[o] \notin {"start", "saving_new"}
  BY <1>3 DEF InHand, Placing
<1>5. ASSUME NEW p \in Orders, p # o PROVE InHand(p)'
  <2>1. InHand(p) /\ mem'[p] = mem[p]
    BY <1>2, <1>5 DEF Stages
  <2> QED BY <1>1, <1>5, <2>1 DEF InHand, Placing, Working, Doubted, Open, Asked, Driven, Asking,
             Closing, Doubting
<1>6. InHand(o)'
  BY <1>1, <1>2, <1>3, <1>4 DEF InHand, Placing, Working, Doubted, Open, Asked, Driven, Asking,
     Closing, Doubting
<1> QED BY <1>1, <1>5, <1>6 DEF Stages

LEMMA ApplyStages ==
  ASSUME TypeOK, Stages, NEW o \in Orders, ApplyRemote(o)
  PROVE  Stages'
<1> USE DEF store, worker, request
<1> DEFINE t == IF mem[o].bid = NoBid THEN "none" ELSE Target(rbook[mem[o].bid])
<1>1. /\ rpc = "book" /\ o \in rtodo /\ rtodo' = rtodo \ {o}
      /\ UNCHANGED <<known, row, ppc, wpc, word, upc>>
  BY DEF ApplyRemote
<1>2. InHand(o) /\ o \in known /\ ~Driven(o) /\ mem[o].bid # NoBid /\ mem[o].state # "NEW"
  BY <1>1 DEF Stages, InHand, Open, Cancelled
<1>3. ppc[o] \notin {"start", "saving_new"}
  BY <1>2 DEF InHand, Placing
<1>4. CASE t # "none" /\ CanTransition(mem[o].state, t)
  <2>1. /\ t \in {"PARTIAL", "FILLED", "REJECTED", "EXPIRED", "CANCELLED"}
        /\ mem' = WithState(o, t) /\ rord' = o /\ rsnap' = [mem[o] EXCEPT !.state = t]
        /\ rpc' \in {"saving_partial", "saving_closed"}
    BY <1>4 DEF ApplyRemote, Target
  <2> HIDE DEF t
  <2>2. /\ mem'[o].state = t /\ mem'[o].bid = mem[o].bid /\ rsnap'.bid = mem[o].bid
        /\ \A p \in Orders : p # o => mem'[p] = mem[p]
    BY <2>1, StageTypes DEF WithState, OrderRec
  <2>3. ASSUME NEW p \in Orders, p # o PROVE InHand(p)'
    <3>1. InHand(p) /\ mem'[p] = mem[p]
      BY <2>2, <2>3 DEF Stages
    <3> QED BY <1>1, <2>1, <2>3, <3>1 DEF InHand, Placing, Working, Doubted, Open, Asked, Driven,
               Asking, Closing, Doubting
  <2>4. InHand(o)'
    BY <1>1, <1>2, <1>3, <2>1, <2>2 DEF InHand, Placing, Working, Doubted, Open, Asked, Driven,
       Asking, Closing, Doubting
  <2> QED BY <1>1, <2>1, <2>3, <2>4 DEF Stages
<1>5. CASE ~(t # "none" /\ CanTransition(mem[o].state, t))
  <2>1. UNCHANGED <<mem, rord, rsnap, rpc>>
    BY <1>5 DEF ApplyRemote
  <2>2. \A p \in Orders : InHand(p)'
    BY <1>1, <2>1 DEF Stages, InHand, Placing, Working, Doubted, Open, Asked, Driven, Asking,
       Closing, Doubting
  <2> QED BY <1>1, <2>1, <2>2 DEF Stages, Asking, Closing
<1> QED BY <1>4, <1>5

LEMMA ReconStages ==
  ASSUME TypeOK, Stages, ReconStep
  PROVE  Stages'
<1> USE DEF store, worker, request
<1>0. rpc \notin {"idle", "unknown", "book"} => rord \in Orders
  BY StageTypes
<1>1. CASE Correlate \/ Scan
  BY <1>1, ConcludeStages
<1>2. CASE \E o \in Orders : Investigate(o) \/ ApplyRemote(o)
  BY <1>2, InvestigateStages, ApplyStages
<1>3. CASE Marked \/ VerdictSaved \/ VerdictDropped \/ VerdictRequeued
  <2>1. /\ UNCHANGED <<mem, known, ppc, wpc, word, upc, rtodo>> /\ rord' \in {rord, NoBid}
        /\ rpc \in Doubting /\ rpc' \in Doubting
        /\ rpc' \in Asking => rpc \in Asking /\ rord' = rord
        /\ rord \in Orders
        /\ Land(rord, rsnap) \/ Land(rord, Blank) \/ row' = row
    BY <1>0, <1>3 DEF Marked, VerdictSaved, VerdictDropped, VerdictRequeued, Doubting, Asking
  <2>2. \A p \in Orders : p # rord => row'[p] = row[p]
    BY <2>1, StageTypes DEF Land
  <2>3. \A p \in Orders : InHand(p)'
    BY <2>1, <2>2, StageTypes DEF Stages, InHand, Placing, Working, Doubted, Open, Asked, Driven,
       Asking, Closing, Doubting
  <2> QED BY <2>1, <2>3 DEF Stages, Asking, Closing, Doubting
<1>4. CASE PartialSaved \/ ClosedSaved \/ Closed
  <2>1. /\ UNCHANGED <<mem, ppc, wpc, word, upc, rtodo>> /\ rord' \in {rord, NoBid}
        /\ rpc \in Closing /\ rpc' \in Closing \cup {"book"}
        /\ rpc' \in Closing => rord' = rord /\ rsnap' = rsnap
        /\ known' \in {known, known \ {rord}}
        /\ rord \in Orders
        /\ Land(rord, rsnap) \/ Land(rord, Blank)
    BY <1>0, <1>4 DEF PartialSaved, ClosedSaved, Closed, Closing
  <2>2. \A p \in Orders : p # rord => row'[p] = row[p]
    BY <2>1, StageTypes DEF Land
  <2>3. CASE known' = known
    <3>1. \A p \in Orders : InHand(p)'
      BY <2>1, <2>2, <2>3, StageTypes DEF Stages, InHand, Placing, Working, Doubted, Open, Asked,
         Driven, Asking, Closing, Doubting
    <3> QED BY <2>1, <3>1 DEF Stages, Asking, Closing
  <2>4. CASE Closed
    <3>1. rpc' = "book" /\ known' = known \ {rord} /\ rord' = NoBid /\ rord \notin rtodo
          /\ ~Driven(rord)
      BY <1>0, <2>1, <2>4 DEF Closed, Stages, InHand, Open
    <3>2. \A p \in Orders : InHand(p)'
      BY <2>1, <2>2, <3>1, StageTypes DEF Stages, InHand, Placing, Working, Doubted, Open, Asked,
         Driven, Asking, Closing, Doubting
    <3> QED BY <3>1, <3>2 DEF Stages, Asking, Closing
  <2> QED BY <1>4, <2>3, <2>4 DEF PartialSaved, ClosedSaved
<1>5. CASE PassBegin \/ FetchBook \/ BookDone
  <2>1. /\ UNCHANGED <<mem, known, row, ppc, wpc, word, upc, rord>>
        /\ \/ rpc' = "unknown" /\ rtodo' = {o \in known : mem[o].state \in {"UNKNOWN", "RECONCILING"}}
           \/ rpc' = "book" /\ rtodo' = {o \in known : /\ mem[o].bid # NoBid
                                                       /\ mem[o].state \in {"PENDING", "PARTIAL"}}
           \/ rpc' = "idle"
    BY <1>5 DEF PassBegin, FetchBook, BookDone
  <2>2. ASSUME NEW p \in Orders PROVE InHand(p)'
    <3>1. InHand(p) /\ (Driven(p) => mem[p].state \in {"SENT", "QUEUED", "CANCELLED"})
      BY DEF Stages, InHand, Working, Cancelled
    <3> QED BY <2>1, <3>1 DEF InHand, Placing, Working, Doubted, Open, Asked, Driven, Asking,
               Closing, Doubting
  <2> QED BY <2>1, <2>2 DEF Stages, Asking, Closing
<1> QED BY <1>1, <1>2, <1>3, <1>4, <1>5 DEF ReconStep

LEMMA RestartStages ==
  ASSUME TypeOK, Stages, Restart
  PROVE  Stages'
<1>1. /\ known' = {o \in Orders : row[o].state \in Recoverable} /\ row' = row
      /\ mem' = [o \in Orders |-> Recovered(o)]
      /\ ppc' = [o \in Orders |-> IF ppc[o] = "start" THEN "start" ELSE "done"]
      /\ upc' = [o \in Orders |-> "idle"]
      /\ wpc' = "idle" /\ word' = NoBid /\ rpc' = "idle" /\ rord' = NoBid
  BY DEF Restart, WorkerIdle
<1>2. ASSUME NEW p \in Orders PROVE InHand(p)'
  <2>1. InHand(p) /\ p # NoBid /\ Blank.state \notin Recoverable
    BY StageTypes DEF Stages, Blank, Recoverable
  <2> QED BY <1>1, <2>1 DEF InHand, Placing, Working, Doubted, Open, Asked, Driven, Asking,
             Closing, Doubting, Sending, Recovered
<1> QED BY <1>1, <1>2 DEF Stages, Asking, Closing

LEMMA InitStages == Init => Stages
<1> SUFFICES ASSUME Init PROVE Stages
  OBVIOUS
<1> QED BY NoBidAssumption
        DEF Init, Stages, InHand, Placing, Working, Doubted, Open, Asked, Driven, Asking, Closing,
            Doubting, Sending

LEMMA NextStages ==
  ASSUME "retry" \notin Events
  PROVE  TypeOK /\ Stages /\ [Next]_vars => Stages'
<1> SUFFICES ASSUME TypeOK, Stages, [Next]_vars PROVE Stages'
  OBVIOUS
<1>1. CASE UNCHANGED vars \/ BrokerStep
  <2>1. UNCHANGED <<mem, known, row, ppc, wpc, word, recon, upc>>
    BY <1>1 DEF vars, store, worker, request, BrokerStep, BrokerShows, BrokerMoves
  <2>2. \A p \in Orders : InHand(p)'
    BY <2>1, StageStays DEF Stages
  <2> QED BY <2>1, <2>2 DEF Stages, recon
<1> QED BY <1>1, PlaceStages, RequestStages, WorkerStages, ReconStages, RestartStages DEF Next
LEMMA AlwaysStages ==
  ASSUME "retry" \notin Events
  PROVE  Spec => [](TypeOK /\ SendInv /\ Stages)
<1>1. Init => TypeOK /\ SendInv /\ Stages
  BY InitTypes, InitSends, InitStages
<1>2. TypeOK /\ SendInv /\ Stages /\ [Next]_vars => (TypeOK /\ SendInv /\ Stages)'
  BY NextTypes, NextSends, NextStages
<1> QED BY <1>1, <1>2, PTL DEF Spec

--------------------------------------------------------------------------------
(* Fills that are reported are real: wherever FILLED is kept, the broker order of that   *)
(* id is filled.                                                                         *)

Real(r) == r.state = "FILLED" => r.bid \in Orders /\ brk[r.bid] = "filled"

FillInv ==
  /\ \A o \in Orders : /\ Real(mem[o]) /\ Real(row[o]) /\ Real(usnap[o])
                       /\ audit[o].status = "FILLED" =>
                            audit[o].bid \in Orders /\ brk[audit[o].bid] = "filled"
                       /\ rbook[o] = "filled" => brk[o] = "filled"
                       /\ posts[o] = 0 => brk[o] = "none"
  /\ Real(wsnap) /\ Real(rsnap)
  /\ wpc = "answering" /\ wans \in {"filled", "whole"} => brk[word] = "filled"
  /\ wans \in {"partial", "whole"} => "partial" \in Events

\* No modify_order changes the quantity of which a partial fill leaves a remainder.
Unmodified == "modify" \notin Events \/ "partial" \notin Events

LEMMA FillTypes ==
  ASSUME TypeOK
  PROVE  /\ mem \in [Orders -> OrderRec] /\ row \in [Orders -> OrderRec]
         /\ usnap \in [Orders -> OrderRec] /\ audit \in [Orders -> AuditRec]
         /\ brk \in [Orders -> BrkStates] /\ posts \in [Orders -> Nat]
         /\ rbook \in [Orders -> BrkStates]
         /\ wsnap \in OrderRec /\ rsnap \in OrderRec
         /\ Blank.state = "none" /\ \A s : Fresh(s).state = s
         /\ wpc # "idle" => word \in Orders
         /\ rpc \notin {"idle", "unknown", "book"} => rord \in Orders
BY DEF TypeOK, TypeOrders, TypeBroker, TypeWorker, TypeRecon, TypeRequests, Blank, Fresh

\* A fill, once there, stays; so do the reports of it.
LEMMA RealStays ==
  ASSUME \A p \in Orders : brk[p] = "filled" => brk'[p] = "filled"
  PROVE  \A r : Real(r) => Real(r)'
BY DEF Real

LEMMA UnfilledIsReal == \A r : r.state # "FILLED" => Real(r) /\ Real(r)'
BY DEF Real

LEMMA LandFills ==
  ASSUME TypeOK, FillInv, brk' = brk, NEW o \in Orders, NEW r, Real(r), Land(o, r)
  PROVE  \A p \in Orders : Real(row[p])'
BY FillTypes DEF Land, FillInv, Real

LEMMA PlaceFills ==
  ASSUME TypeOK, FillInv, NEW o \in Orders, PlaceStep(o)
  PROVE  FillInv'
<1> USE DEF store, broker, worker, recon, request
<1>1. UNCHANGED <<brk, posts, audit, rbook, wsnap, rsnap, wans, word, wpc, usnap>>
  BY DEF PlaceStep, PlaceRest, Place, PlaceQueued, PlaceSaved, PlaceEnqueue
<1>2. \A p \in Orders : Real(mem[p])'
  <2>1. \A p \in Orders : mem'[p] = mem[p] \/ mem'[p].state \in {"NEW", "QUEUED"}
    <3>1. mem' = mem \/ mem' = [mem EXCEPT ![o] = Fresh("NEW")] \/ mem' = WithState(o, "QUEUED")
      BY DEF PlaceStep, PlaceRest, Place, PlaceQueued, PlaceSaved, PlaceEnqueue
    <3> QED BY <3>1, FillTypes DEF WithState, OrderRec
  <2> QED BY <1>1, <2>1 DEF FillInv, Real
<1>3. \A p \in Orders : Real(row[p])'
  <2>1. Real(Fresh("NEW")) /\ Real(Fresh("QUEUED"))
    BY FillTypes, UnfilledIsReal
  <2>2. Land(o, Fresh("NEW")) \/ Land(o, Fresh("QUEUED")) \/ row' = row
    BY DEF PlaceStep, PlaceRest, Place, PlaceQueued, PlaceSaved, PlaceEnqueue
  <2>3. CASE row' = row
    BY <1>1, <2>3 DEF FillInv, Real
  <2> QED BY <1>1, <2>1, <2>2, <2>3, LandFills
<1> QED BY <1>1, <1>2, <1>3 DEF FillInv, Real

LEMMA MirrorFills ==
  ASSUME TypeOK, FillInv, brk' = brk, NEW b, NEW s, Mirror(b, s),
         s = "FILLED" => b \in Orders /\ brk[b] = "filled"
  PROVE  \A p \in Orders : audit'[p].status = "FILLED" =>
                             audit'[p].bid \in Orders /\ brk'[audit'[p].bid] = "filled"
BY FillTypes DEF Mirror, FillInv, AuditRec

LEMMA RequestFills ==
  ASSUME TypeOK, FillInv, NEW o \in Orders, RequestStep(o)
  PROVE  FillInv'
<1> USE DEF store, broker, worker, recon
<1>1. UNCHANGED <<posts, rbook, wsnap, rsnap, wans, word, wpc>>
  BY DEF RequestStep, RequestRest, Cancel, Modify, Retry, Unqueue, CancelReaches,
     CancelAnswered, CancelDropped, ModifyAnswered, RetryRefused, RetryPushed, RequestSaved
<1>2. CASE Cancel(o) \/ Unqueue(o) \/ CancelAnswered(o) \/ Modify(o) \/ ModifyAnswered(o)
  <2>1. UNCHANGED <<brk, row, audit>>
    BY <1>2 DEF Cancel, Unqueue, CancelAnswered, Modify, ModifyAnswered
  <2>2. \A p \in Orders : /\ mem'[p] = mem[p] \/ mem'[p].state = "CANCELLED"
                          /\ \/ usnap'[p] \in {usnap[p], mem[p]}
                             \/ usnap'[p].state = "CANCELLED"
    <3>1. \/ /\ mem' = WithState(o, "CANCELLED")
             /\ usnap' = [usnap EXCEPT ![o] = [mem[o] EXCEPT !.state = "CANCELLED"]]
          \/ mem' = mem /\ usnap' \in {usnap, [usnap EXCEPT ![o] = mem[o]]}
      BY <1>2 DEF Cancel, Unqueue, CancelAnswered, Modify, ModifyAnswered,
         CancelBeyondQueue, MarkCancelled, SaveNote
    <3> QED BY <3>1, FillTypes DEF WithState, OrderRec
  <2> QED BY <1>1, <2>1, <2>2 DEF FillInv, Real
<1>3. CASE CancelReaches(o)
  <2>1. UNCHANGED <<mem, row, audit>>
    BY <1>3 DEF CancelReaches
  <2>2. \A p \in Orders : brk'[p] = brk[p] \/ brk[p] \in Live
    BY <1>3, FillTypes DEF CancelReaches
  <2>3. \A p \in Orders : usnap'[p] = usnap[p] \/ usnap'[p].state = "none"
    BY <1>3, FillTypes DEF CancelReaches
  <2> QED BY <1>1, <2>1, <2>2, <2>3, FillTypes DEF FillInv, Real, Live
<1>4. CASE CancelDropped(o)
  <2>1. UNCHANGED <<mem, usnap, brk>>
    BY <1>4 DEF CancelDropped
  <2>2. \A p \in Orders : Real(row[p])'
    BY <1>4, <2>1, FillTypes, UnfilledIsReal, LandFills DEF CancelDropped
  <2>3. \A p \in Orders : audit'[p].status = "FILLED" =>
                             audit'[p].bid \in Orders /\ brk'[audit'[p].bid] = "filled"
    <3>1. Mirror(mem[o].bid, "CANCELLED")
      BY <1>4 DEF CancelDropped
    <3> QED BY <2>1, <3>1, MirrorFills
  <2> QED BY <1>1, <2>1, <2>2, <2>3 DEF FillInv, Real
<1>5. CASE Retry(o) \/ RetryPushed(o)
  <2>1. UNCHANGED <<brk, row, audit>>
    BY <1>5 DEF Retry, RetryPushed
  <2>2. \A p \in Orders : /\ mem'[p] = mem[p] \/ mem'[p].state \in {"REJECTED", "QUEUED"}
                          /\ usnap'[p] = usnap[p] \/ usnap'[p].state \in {"REJECTED", "QUEUED"}
    <3>1. ASSUME NEW r, r.state \in {"REJECTED", "QUEUED"},
                 mem' = [mem EXCEPT ![o] = r], usnap' = [usnap EXCEPT ![o] = r]
          PROVE  \A p \in Orders : /\ mem'[p] = mem[p] \/ mem'[p].state \in {"REJECTED", "QUEUED"}
                                   /\ usnap'[p] = usnap[p] \/ usnap'[p].state \in {"REJECTED", "QUEUED"}
      BY <3>1, FillTypes
    <3>2. CASE RetryPushed(o)
      <4> DEFINE r == [mem[o] EXCEPT !.state = "QUEUED", !.retries = @ + 1]
      <4>1. r.state = "QUEUED" /\ mem' = [mem EXCEPT ![o] = r] /\ usnap' = [usnap EXCEPT ![o] = r]
        BY <3>2, FillTypes DEF RetryPushed, OrderRec
      <4> HIDE DEF r
      <4> QED BY <3>1, <4>1
    <3>3. CASE Retry(o)
      <4> DEFINE r == [mem[o] EXCEPT !.state = "REJECTED"]
      <4>1. \/ UNCHANGED <<mem, usnap>>
            \/ mem' = [mem EXCEPT ![o] = r] /\ usnap' = [usnap EXCEPT ![o] = r]
        BY <3>3, FillTypes DEF Retry, WithState
      <4>2. r.state = "REJECTED"
        BY FillTypes DEF OrderRec
      <4> HIDE DEF r
      <4> QED BY <3>1, <4>1, <4>2
    <3> QED BY <1>5, <3>2, <3>3
  <2> QED BY <1>1, <2>1, <2>2 DEF FillInv, Real
<1>6. CASE RetryRefused(o) \/ RequestSaved(o)
  <2>1. UNCHANGED <<mem, brk, audit>>
    BY <1>6 DEF RetryRefused, RequestSaved
  <2>2. \A p \in Orders : Real(row[p])'
    <3>1. Real(usnap[o]) /\ Real(Blank)
      BY FillTypes, UnfilledIsReal DEF FillInv
    <3>2. Land(o, usnap[o]) \/ Land(o, Blank)
      BY <1>6 DEF RetryRefused, RequestSaved
    <3> QED BY <2>1, <3>1, <3>2, LandFills
  <2>3. \A p \in Orders : usnap'[p] = usnap[p] \/ usnap'[p].state = "none"
    BY <1>6, FillTypes DEF RetryRefused, RequestSaved
  <2> QED BY <1>1, <2>1, <2>2, <2>3 DEF FillInv, Real
<1> QED BY <1>2, <1>3, <1>4, <1>5, <1>6 DEF RequestStep, RequestRest

\* The worker reports a fill that the broker's answer, or the audit row of an earlier
\* answer, says it has.
LEMMA SettleFills ==
  ASSUME TypeOK, FillInv, brk' = brk, word \in Orders,
         \/ Refused \/ Unknown \/ Transient
         \/ \E b : Accepted(b) \/ Settle("QUEUED", b, "saving_remainder")
         \/ \E b \in Orders : Filled(b) /\ brk[b] = "filled"
  PROVE  (\A p \in Orders : Real(mem[p])') /\ Real(wsnap)'
<1>1. ASSUME NEW s, NEW b, NEW next, Settle(s, b, next),
             s # "FILLED" \/ (b \in Orders /\ brk[b] = "filled")
      PROVE  (\A p \in Orders : Real(mem[p])') /\ Real(wsnap)'
  <2>1. /\ \A p \in Orders : p # word => mem'[p] = mem[p]
        /\ mem'[word].state = s /\ mem'[word].bid = b
        /\ wsnap'.state = s /\ wsnap'.bid = b
    BY <1>1, FillTypes DEF Settle, OrderRec
  <2> QED BY <1>1, <2>1 DEF FillInv, Real
<1>2. CASE mem' = WithState(word, "QUEUED") /\ wsnap' = wsnap
  <2>1. \A p \in Orders : mem'[p] = mem[p] \/ mem'[p].state = "QUEUED"
    BY <1>2, FillTypes DEF WithState, OrderRec
  <2> QED BY <1>2, <2>1 DEF FillInv, Real
<1> QED BY <1>1, <1>2 DEF Refused, Unknown, Transient, Accepted, Filled

LEMMA WorkerFills ==
  ASSUME TypeOK, SendInv, FillInv, Unmodified, WorkerStep
  PROVE  FillInv'
<1> USE DEF store, broker, recon, request
<1>0. wpc # "idle" => word \in Orders
  BY FillTypes
<1>1. ASSUME NEW i \in 1..Len(queue), Dequeue(i)
      PROVE  FillInv'
  <2>1. PICK o \in Orders : o = queue[i].order
    BY QueueIs
  <2>2. PICK found \in OrderRec : found = IF o \in known THEN mem[o] ELSE row[o]
    BY FillTypes
  <2>3. /\ mem' \in {mem, [mem EXCEPT ![o] = found], [mem EXCEPT ![o] = [found EXCEPT !.state = "SENT"]]}
        /\ wsnap' \in {wsnap, [found EXCEPT !.state = "SENT"]}
        /\ UNCHANGED <<row, usnap, audit, brk, posts, rbook, rsnap, wans>>
        /\ word' \in {word, o}
    BY <1>1, <2>1, <2>2 DEF Dequeue
  <2>4. Real(found)
    BY <2>2 DEF FillInv
  <2>a. [found EXCEPT !.state = "SENT"].state = "SENT"
    BY DEF OrderRec
  <2>5. /\ \A p \in Orders : mem'[p] \in {mem[p], found} \/ mem'[p].state = "SENT"
        /\ wsnap' = wsnap \/ wsnap'.state = "SENT"
    <3>1. mem \in [Orders -> OrderRec]
      BY FillTypes
    <3> QED BY <2>a, <2>3, <3>1
  <2>6. wpc' # "answering"
    BY <1>1 DEF Dequeue
  <2> QED BY <2>3, <2>4, <2>5, <2>6 DEF FillInv, Real
<1>2. CASE Refuse \/ Unavailable \/ Duplicate \/ InsertFailed \/ Answer
           \/ AnswerLost \/ AnswerDropped
  <2>1. /\ word \in Orders /\ UNCHANGED <<row, usnap, brk, posts, rbook, rsnap>>
    BY <1>0, <1>2 DEF Refuse, Unavailable, Duplicate, InsertFailed, Answer, AnswerLost,
       AnswerDropped
  <2>2. \/ Refused \/ Unknown \/ Transient
        \/ \E b : Accepted(b) \/ Settle("QUEUED", b, "saving_remainder")
        \/ \E b \in Orders : Filled(b) /\ brk[b] = "filled"
    <3>1. CASE Answer
      <4>1. CASE wans \in {"partial", "whole"}
        <5>1. Partly(word) /\ "modify" \notin Events
          BY <3>1, <4>1 DEF Answer, FillInv, Unmodified
        <5>2. \/ Settle("QUEUED", word, "saving_remainder")
              \/ wans = "whole" /\ Filled(word)
          BY <5>1 DEF Partly, Filled
        <5> QED BY <1>0, <3>1, <5>2 DEF Answer, FillInv
      <4> QED BY <3>1, <4>1, <1>0 DEF Answer, TypeOK, TypeWorker, FillInv
    <3>2. CASE Duplicate
      BY <3>2, <1>0 DEF Duplicate, FillInv
    <3> QED BY <1>2, <3>1, <3>2 DEF Refuse, Unavailable, InsertFailed, AnswerLost, AnswerDropped
  <2>3. (\A p \in Orders : Real(mem[p])') /\ Real(wsnap)'
    BY <2>1, <2>2, SettleFills
  <2>4. wpc' # "answering"
    BY <2>2 DEF Refused, Unknown, Transient, Accepted, Filled, Settle
  <2>a. wans' \in {"none", wans}
    BY <1>2 DEF Refuse, Unavailable, Duplicate, InsertFailed, Answer, AnswerLost, AnswerDropped
  <2>5. \A p \in Orders : audit'[p].status = "FILLED" =>
                             audit'[p].bid \in Orders /\ brk'[audit'[p].bid] = "filled"
    <3>1. CASE Answer
      <4> DEFINE a == [status |-> IF wans = "filled" THEN "FILLED" ELSE "PENDING",
                       bid |-> word]
      <4>1. a.status = "FILLED" => a.bid \in Orders /\ brk[a.bid] = "filled"
        BY <2>1, <3>1 DEF Answer, FillInv
      <4>2. audit' = [audit EXCEPT ![word] = a] \/ audit' = audit
        BY <3>1 DEF Answer
      <4> HIDE DEF a
      <4> QED BY <2>1, <4>1, <4>2, FillTypes DEF FillInv
    <3>2. CASE audit' = [audit EXCEPT ![word].status = "PENDING"]
      <4>1. \A p \in Orders : audit'[p] = audit[p] \/ audit'[p].status = "PENDING"
        BY <2>1, <3>2, FillTypes DEF AuditRec
      <4> QED BY <2>1, <4>1 DEF FillInv
    <3>3. CASE audit' = audit
      BY <2>1, <3>3 DEF FillInv
    <3> QED BY <1>2, <3>1, <3>2, <3>3 DEF Refuse, Unavailable, Duplicate, InsertFailed,
               AnswerLost, AnswerDropped
  <2> QED BY <2>1, <2>3, <2>4, <2>a, <2>5 DEF FillInv, Real
<1>3. CASE Admit
  <2>1. /\ UNCHANGED <<mem, row, usnap, brk, posts, rbook, wsnap, rsnap, wans>> /\ wpc' # "answering"
        /\ audit' = [audit EXCEPT ![word].status = "PENDING"] /\ word \in Orders
    BY <1>0, <1>3 DEF Admit
  <2>2. \A p \in Orders : audit'[p] = audit[p] \/ audit'[p].status = "PENDING"
    BY <2>1, FillTypes DEF AuditRec
  <2> QED BY <2>1, <2>2 DEF FillInv, Real
<1>4. CASE Post
  <2>1. /\ UNCHANGED <<mem, row, usnap, audit, rbook, wsnap, rsnap>> /\ word' = word
        /\ word \in Orders /\ posts[word] = 0
        /\ \/ UNCHANGED <<posts, brk>> /\ wans' = "rejected"
           \/ /\ posts' = [posts EXCEPT ![word] = @ + 1]
              /\ \E s : /\ brk' = [brk EXCEPT ![word] = s]
                        /\ wans' \in {"filled", "whole"} => s = "filled"
                        /\ wans' \in {"partial", "whole"} => "partial" \in Events
    BY <1>0, <1>4 DEF Post, SendInv, PostIsClaimed
  <2>2. brk[word] = "none"
    BY <2>1 DEF FillInv
  <2>3. /\ \A p \in Orders : brk[p] = "filled" => brk'[p] = "filled"
        /\ \A p \in Orders : posts'[p] = 0 => posts[p] = 0 /\ brk'[p] = brk[p]
        /\ wans' \in {"filled", "whole"} => brk'[word] = "filled"
        /\ wans' \in {"partial", "whole"} => "partial" \in Events
    BY <2>1, <2>2, FillTypes
  <2> QED BY <2>1, <2>3 DEF FillInv, Real
<1>5. CASE SentSaved \/ WorkerSaved \/ WorkerFinalSaved \/ WorkerDropped \/ RemainderSaved
  <2>1. /\ UNCHANGED <<mem, usnap, audit, brk, posts, rbook, rsnap, wans>> /\ wpc' # "answering"
        /\ word \in Orders /\ (Land(word, wsnap) \/ Land(word, Blank))
        /\ wsnap' \in {wsnap, Blank}
    BY <1>0, <1>5 DEF SentSaved, WorkerSaved, WorkerFinalSaved, WorkerDropped, RemainderSaved,
       WorkerIdle
  <2>2. Real(Blank) /\ Real(wsnap)
    BY FillTypes, UnfilledIsReal DEF FillInv
  <2>3. \A p \in Orders : Real(row[p])'
    BY <2>1, <2>2, LandFills
  <2> QED BY <2>1, <2>2, <2>3 DEF FillInv, Real
<1>6. CASE RemainderQueued
  <2>1. /\ UNCHANGED <<mem, row, usnap, audit, brk, posts, rbook, rsnap, wans>> /\ wpc' # "answering"
        /\ wsnap' = Blank
    BY <1>6 DEF RemainderQueued, WorkerIdle
  <2> QED BY <2>1, FillTypes DEF FillInv, Real
<1>7. CASE RetryQueued
  <2>1. /\ UNCHANGED <<row, usnap, audit, brk, posts, rbook, rsnap, wans>> /\ wpc' # "answering"
        /\ word \in Orders /\ mem' = [mem EXCEPT ![word].retries = @ + 1]
        /\ wsnap' = [mem[word] EXCEPT !.retries = @ + 1]
    BY <1>0, <1>7 DEF RetryQueued
  <2>2. /\ \A p \in Orders : mem'[p].state = mem[p].state /\ mem'[p].bid = mem[p].bid
        /\ wsnap'.state = mem[word].state /\ wsnap'.bid = mem[word].bid
    <3>1. \A p \in Orders : mem[p] \in OrderRec
      BY FillTypes
    <3> QED BY <2>1, <3>1, FillTypes DEF OrderRec
  <2> QED BY <2>1, <2>2 DEF FillInv, Real
<1> QED BY <1>1, <1>2, <1>3, <1>4, <1>5, <1>6, <1>7 DEF WorkerStep

LEMMA ReconFills ==
  ASSUME TypeOK, Stages, FillInv, ReconStep
  PROVE  FillInv'
<1> USE DEF store, broker, worker, request
<1>0. rpc \notin {"idle", "unknown", "book"} => rord \in Orders
  BY FillTypes
<1>1. CASE Correlate \/ Scan
  <2>1. UNCHANGED <<row, usnap, audit, brk, posts, rbook, wsnap, wans, word, wpc>> /\ rord \in Orders
    BY <1>1, Concludes
  <2>2. ASSUME NEW v, v.verdict \in Verdicts, Conclude(v)
        PROVE  /\ \A p \in Orders : mem'[p] = mem[p] \/ mem'[p].state # "FILLED"
               /\ rsnap'.state # "FILLED"
    <3>1. mem[rord] \in OrderRec
      BY <2>1, FillTypes
    <3>2. rsnap'.state # "FILLED"
      BY <2>2, <3>1 DEF Conclude, Verdicts, OrderRec
    <3>3. mem' = [mem EXCEPT ![rord] = rsnap']
      BY <2>2 DEF Conclude
    <3> QED BY <2>1, <3>2, <3>3, FillTypes
  <2>3. \/ UNCHANGED <<mem, rsnap>>
        \/ /\ \A p \in Orders : mem'[p] = mem[p] \/ mem'[p].state # "FILLED"
           /\ rsnap'.state # "FILLED"
    BY <1>1, <2>2, Concludes
  <2> QED BY <2>1, <2>3 DEF FillInv, Real
<1>2. ASSUME NEW o \in Orders, Investigate(o)
      PROVE  FillInv'
  <2>1. /\ UNCHANGED <<row, usnap, audit, brk, posts, rbook, wsnap, wans, word, wpc>>
        /\ mem' = WithState(o, "RECONCILING") /\ rsnap' = [mem[o] EXCEPT !.state = "RECONCILING"]
    BY <1>2 DEF Investigate
  <2>2. /\ \A p \in Orders : mem'[p] = mem[p] \/ mem'[p].state # "FILLED"
        /\ rsnap'.state # "FILLED"
    BY <2>1, FillTypes DEF WithState, OrderRec
  <2> QED BY <2>1, <2>2 DEF FillInv, Real
<1>3. ASSUME NEW o \in Orders, ApplyRemote(o)
      PROVE  FillInv'
  <2> DEFINE t == IF mem[o].bid = NoBid THEN "none" ELSE Target(rbook[mem[o].bid])
  <2>1. /\ UNCHANGED <<row, usnap, audit, brk, posts, rbook, wsnap, wans, word, wpc>>
        /\ \/ mem' = WithState(o, t) /\ rsnap' = [mem[o] EXCEPT !.state = t]
           \/ UNCHANGED <<mem, rsnap>>
    BY <1>3 DEF ApplyRemote
  <2>2. t = "FILLED" => mem[o].bid \in Orders /\ brk[mem[o].bid] = "filled"
    <3>1. mem[o].bid \in Orders \cup {NoBid}
      BY FillTypes DEF OrderRec, Bids
    <3>2. \A b : Target(b) = "FILLED" => b = "filled"
      BY DEF Target
    <3> QED BY <3>1, <3>2 DEF FillInv
  <2> HIDE DEF t
  <2>3. \/ UNCHANGED <<mem, rsnap>>
        \/ /\ \A p \in Orders : p # o => mem'[p] = mem[p]
           /\ mem'[o].state = t /\ mem'[o].bid = mem[o].bid
           /\ rsnap'.state = t /\ rsnap'.bid = mem[o].bid
    BY <2>1, FillTypes DEF WithState, OrderRec
  <2> QED BY <2>1, <2>2, <2>3 DEF FillInv, Real
<1>4. CASE Marked \/ VerdictSaved \/ VerdictDropped \/ PartialSaved \/ ClosedSaved
  <2>1. /\ UNCHANGED <<mem, usnap, audit, brk, posts, rbook, wsnap, wans, word, wpc>>
        /\ rord \in Orders /\ (Land(rord, rsnap) \/ Land(rord, Blank))
        /\ rsnap' \in {rsnap, Blank}
    BY <1>0, <1>4 DEF Marked, VerdictSaved, VerdictDropped, PartialSaved, ClosedSaved
  <2>2. Real(Blank) /\ Real(rsnap)
    BY FillTypes, UnfilledIsReal DEF FillInv
  <2>3. \A p \in Orders : Real(row[p])'
    BY <2>1, <2>2, LandFills
  <2> QED BY <2>1, <2>2, <2>3 DEF FillInv, Real
<1>5. CASE Closed
  <2>1. /\ UNCHANGED <<mem, usnap, brk, posts, rbook, wsnap, wans, word, wpc>> /\ rsnap' = Blank
        /\ rord \in Orders /\ Land(rord, Blank) /\ Mirror(mem[rord].bid, rsnap.state)
        /\ rpc \in Closing
    BY <1>0, <1>5 DEF Closed, Closing
  <2>2. Real(Blank) /\ Real(rsnap)
    BY FillTypes, UnfilledIsReal DEF FillInv
  <2>3. \A p \in Orders : Real(row[p])'
    BY <2>1, <2>2, LandFills
  <2>4. mem[rord].bid = rsnap.bid
    BY <2>1 DEF Stages, InHand, Open
  <2>5. rsnap.state = "FILLED" => mem[rord].bid \in Orders /\ brk[mem[rord].bid] = "filled"
    BY <2>2, <2>4 DEF Real
  <2>6. \A p \in Orders : audit'[p].status = "FILLED" =>
                             audit'[p].bid \in Orders /\ brk'[audit'[p].bid] = "filled"
    BY <2>1, <2>5, MirrorFills
  <2> QED BY <2>1, <2>2, <2>3, <2>6 DEF FillInv, Real
<1>6. CASE VerdictRequeued \/ PassBegin
  <2>1. UNCHANGED <<mem, row, usnap, audit, brk, posts, rbook, wsnap, rsnap, wans, word, wpc>>
    BY <1>6 DEF VerdictRequeued, PassBegin
  <2> QED BY <2>1 DEF FillInv, Real
<1>7. CASE FetchBook \/ BookDone
  <2>1. UNCHANGED <<mem, row, usnap, audit, brk, posts, wsnap, rsnap, wans, word, wpc>>
    BY <1>7 DEF FetchBook, BookDone
  <2>2. \A p \in Orders : rbook'[p] = "filled" => brk[p] = "filled"
    BY <1>7 DEF FetchBook, BookDone, FillInv
  <2> QED BY <2>1, <2>2 DEF FillInv, Real
<1> QED BY <1>1, <1>2, <1>3, <1>4, <1>5, <1>6, <1>7 DEF ReconStep

LEMMA OtherFills ==
  ASSUME TypeOK, FillInv, BrokerStep \/ Restart \/ UNCHANGED vars
  PROVE  FillInv'
<1> USE DEF store, broker, worker, recon, request
<1>1. CASE BrokerStep
  <2>1. UNCHANGED <<mem, row, usnap, audit, posts, rbook, wsnap, rsnap, wans, word, wpc>>
    BY <1>1 DEF BrokerStep, BrokerShows, BrokerMoves
  <2>2. \A p \in Orders : brk'[p] = brk[p] \/ brk[p] \in Live
    BY <1>1, FillTypes DEF BrokerStep, BrokerShows, BrokerMoves
  <2> QED BY <2>1, <2>2, FillTypes DEF FillInv, Real, Live
<1>2. CASE Restart
  <2>1. /\ UNCHANGED <<row, audit, brk, posts>> /\ wpc' = "idle" /\ wans' = "none"
        /\ mem' = [p \in Orders |-> Recovered(p)] /\ usnap' = [p \in Orders |-> Blank]
        /\ rbook' = [p \in Orders |-> "none"] /\ wsnap' = Blank /\ rsnap' = Blank
    BY <1>2 DEF Restart, WorkerIdle
  <2>2. \A p \in Orders : mem'[p] \in {row[p], Blank}
    BY <2>1 DEF Recovered
  <2> QED BY <2>1, <2>2, FillTypes DEF FillInv, Real
<1>3. CASE UNCHANGED vars
  BY <1>3 DEF vars, FillInv, Real
<1> QED BY <1>1, <1>2, <1>3

LEMMA AlwaysReal ==
  ASSUME "retry" \notin Events, Unmodified
  PROVE  Spec => [](TypeOK /\ SendInv /\ Stages /\ FillInv)
<1>1. Init => FillInv
  BY DEF Init, FillInv, Real, Blank
<1>2. TypeOK /\ SendInv /\ Stages /\ FillInv /\ [Next]_vars => FillInv'
  BY PlaceFills, RequestFills, WorkerFills, ReconFills, OtherFills DEF Next
<1> QED BY <1>1, <1>2, AlwaysStages, PTL DEF Spec

\* An order reported FILLED is filled at the broker, whether the answer, a partial fill that
\* leaves nothing, a duplicate's audit row or the book said so, and across every lost answer,
\* failed save and restart (_process_queue, _check_existing_order, _apply_remote_status), as
\* long as no order is put back in the queue by retry_order and modify_order does not change
\* the quantity a partial fill is compared with: that branch of _process_queue would then
\* report an order FILLED of which a part is open at the broker.
THEOREM FilledOrdersAreFilled ==
  ASSUME "retry" \notin Events, Unmodified
  PROVE  Spec => []FilledIsReal
<1>1. FillInv => FilledIsReal
  BY NoBidAssumption DEF FillInv, FilledIsReal, Real
<1> QED BY <1>1, AlwaysReal, PTL
--------------------------------------------------------------------------------
(* The retry budget.  The worker spends no more than MaxRetries; the one requeue that    *)
(* the reconciler adds is for an order whose claim is in the orders table, so that it is *)
(* never sent, and never in doubt, again.                                                *)

Claimed(o) == mem[o].retries <= MaxRetries /\ audit[o].status # "none"

Within(o, r) ==
  /\ r.retries <= MaxRetries + 1
  /\ r.retries > MaxRetries => audit[o].status # "none"
  /\ r.state \in {"UNKNOWN", "RECONCILING"} => r.retries <= MaxRetries /\ audit[o].status # "none"

BudgetOf(o) ==
  /\ Within(o, mem[o]) /\ Within(o, row[o]) /\ Within(o, usnap[o])
  /\ word = o => Within(o, wsnap)
  /\ rord = o => Within(o, rsnap)
  /\ o \in rtodo /\ rpc \in Doubting => Claimed(o)
  /\ o = rord /\ rpc \in Asking => Claimed(o)
  /\ o = word /\ wpc \in {"posting", "answering"} => Claimed(o)
  /\ o = word /\ wpc = "retrying" => mem[o].retries < MaxRetries

BudgetInv == \A o \in Orders : BudgetOf(o)

LEMMA BudgetTypes ==
  ASSUME TypeOK
  PROVE  /\ MaxRetries \in Nat /\ NoBid \notin Orders
         /\ \A p \in Orders : mem[p].retries \in Nat /\ row[p].retries \in Nat
         /\ Blank.state = "none" /\ Blank.retries = 0
         /\ \A s : Fresh(s).state = s /\ Fresh(s).retries = 0
BY RetriesAssumption, NoBidAssumption DEF TypeOK, TypeOrders, OrderRec, Blank, Fresh

\* A record that keeps within the budget does so as long as no claim is withdrawn; a new
\* state that is not in doubt costs nothing.
LEMMA WithinStays ==
  ASSUME ClaimStays, NEW o \in Orders
  PROVE  /\ \A r : Within(o, r) => Within(o, r)'
         /\ \A r, t : Within(o, r) /\ t.retries = r.retries
                      /\ (t.state = r.state \/ t.state \notin {"UNKNOWN", "RECONCILING"})
                      => Within(o, t) /\ Within(o, t)'
         /\ Claimed(o) /\ mem'[o].retries = mem[o].retries => Claimed(o)'
<1>1. \A r : Within(o, r) => Within(o, r)'
  BY DEF Within, ClaimStays
<1>2. ASSUME NEW r, NEW t, Within(o, r), t.retries = r.retries,
             t.state = r.state \/ t.state \notin {"UNKNOWN", "RECONCILING"}
      PROVE  Within(o, t) /\ Within(o, t)'
  <2>1. Within(o, t)
    BY <1>2 DEF Within
  <2> QED BY <1>1, <2>1, Zenon
<1>3. Claimed(o) /\ mem'[o].retries = mem[o].retries => Claimed(o)'
  BY DEF Claimed, ClaimStays
<1> QED BY <1>1, <1>2, <1>3, Zenon

LEMMA FreshIsWithin ==
  ASSUME TypeOK, NEW o \in Orders
  PROVE  Within(o, Blank)' /\ Within(o, Fresh("NEW"))' /\ Within(o, Fresh("QUEUED"))'
BY BudgetTypes DEF Within

\* The steps that leave the retries of every order alone.
LEMMA SameBudget ==
  ASSUME TypeOK, BudgetInv, ClaimStays, NEW o \in Orders,
         \/ mem'[o] = mem[o]
         \/ mem'[o].retries = mem[o].retries /\ mem'[o].state \notin {"UNKNOWN", "RECONCILING"},
         row'[o] = row[o] \/ Within(o, row[o])',
         usnap'[o] = usnap[o] \/ Within(o, usnap[o])',
         UNCHANGED <<wpc, word, wsnap, rpc, rord, rsnap, rtodo>>
  PROVE  BudgetOf(o)'
<1>1. BudgetOf(o)
  BY DEF BudgetInv
<1>2. Within(o, mem[o])'
  BY <1>1, WithinStays DEF BudgetOf
<1>3. Within(o, row[o])' /\ Within(o, usnap[o])'
  BY <1>1, WithinStays DEF BudgetOf
<1>4. (word = o => Within(o, wsnap)') /\ (rord = o => Within(o, rsnap)')
  BY <1>1, WithinStays DEF BudgetOf
<1>5. mem'[o].retries = mem[o].retries /\ (Claimed(o) => Claimed(o)')
  BY WithinStays
<1> QED BY <1>1, <1>2, <1>3, <1>4, <1>5 DEF BudgetOf

LEMMA PlaceBudget ==
  ASSUME TypeOK, BudgetInv, NEW o \in Orders, PlaceStep(o)
  PROVE  BudgetInv'
<1> USE DEF store, broker, worker, recon, request
<1>1. UNCHANGED <<audit, wpc, word, wsnap, rpc, rord, rsnap, rtodo, usnap>>
  BY DEF PlaceStep, PlaceRest, Place, PlaceQueued, PlaceSaved, PlaceEnqueue
<1>2. ClaimStays
  BY <1>1 DEF ClaimStays
<1>3. \A p \in Orders : row'[p] = row[p] \/ row'[p] \in {Fresh("NEW"), Fresh("QUEUED")}
  <2>1. row' = row \/ Land(o, Fresh("NEW")) \/ Land(o, Fresh("QUEUED"))
    BY DEF PlaceStep, PlaceRest, Place, PlaceQueued, PlaceSaved, PlaceEnqueue
  <2> QED BY <2>1, FillTypes DEF Land
<1>4. \A p \in Orders : row'[p] = row[p] \/ Within(p, row[p])'
  BY <1>3, FreshIsWithin
<1>5. CASE Place(o)
  <2>1. mem' = [mem EXCEPT ![o] = Fresh("NEW")]
    BY <1>5 DEF Place
  <2>2. \A p \in Orders : p # o => mem'[p] = mem[p]
    BY <2>1, FillTypes
  <2>3. mem'[o].retries = 0 /\ mem'[o].state = "NEW" /\ mem[o].retries \in Nat /\ MaxRetries \in Nat
    BY <2>1, FillTypes, BudgetTypes
  <2>4. BudgetOf(o)'
    <3>1. Within(o, row[o])' /\ Within(o, usnap[o])' /\ (word = o => Within(o, wsnap)')
          /\ (rord = o => Within(o, rsnap)')
      BY <1>1, <1>2, <1>4, WithinStays DEF BudgetInv, BudgetOf
    <3>2. Within(o, mem[o])' /\ (Claimed(o) => Claimed(o)')
      BY <1>1, <2>3 DEF Within, Claimed
    <3>3. mem[o].retries < MaxRetries => mem'[o].retries < MaxRetries
      BY <2>3
    <3> QED BY <1>1, <3>1, <3>2, <3>3 DEF BudgetInv, BudgetOf
  <2> QED BY <1>1, <1>2, <1>4, <2>2, <2>4, SameBudget DEF BudgetInv
<1>6. CASE PlaceRest(o)
  <2>1. \A p \in Orders : \/ mem'[p] = mem[p]
                          \/ mem'[p].retries = mem[p].retries /\ mem'[p].state = "QUEUED"
    <3>1. mem' = mem \/ mem' = WithState(o, "QUEUED")
      BY <1>6 DEF PlaceRest, PlaceQueued, PlaceSaved, PlaceEnqueue
    <3> QED BY <3>1, FillTypes DEF WithState, OrderRec
  <2> QED BY <1>1, <1>2, <1>4, <2>1, SameBudget DEF BudgetInv
<1> QED BY <1>5, <1>6 DEF PlaceStep

LEMMA RequestBudget ==
  ASSUME TypeOK, Stages, BudgetInv, "retry" \notin Events, NEW o \in Orders, RequestStep(o)
  PROVE  BudgetInv'
<1> USE DEF store, broker, worker, recon
<1>1. /\ ClaimStays /\ UNCHANGED <<wpc, word, wsnap, rpc, rord, rsnap, rtodo>>
  <2>1. ClaimStays
    BY OtherSteps
  <2> QED BY <2>1 DEF RequestStep, RequestRest, Cancel, Modify, Retry, Unqueue, CancelReaches,
     CancelAnswered, CancelDropped, ModifyAnswered, RetryRefused, RetryPushed, RequestSaved
<1>2. ~Retry(o) /\ ~RetryPushed(o) /\ ~RetryRefused(o)
  BY DEF Stages, InHand, Asked, Retry, RetryPushed, RetryRefused
<1>3. CASE Cancel(o) \/ Unqueue(o) \/ CancelAnswered(o) \/ Modify(o) \/ ModifyAnswered(o)
  <2>1. row' = row
    BY <1>3 DEF Cancel, Unqueue, CancelAnswered, Modify, ModifyAnswered
  <2>2. \A p \in Orders :
          /\ \/ mem'[p] = mem[p]
             \/ mem'[p].retries = mem[p].retries /\ mem'[p].state = "CANCELLED"
          /\ \/ usnap'[p] \in {usnap[p], mem[p]}
             \/ usnap'[p].retries = mem[p].retries /\ usnap'[p].state = "CANCELLED"
    <3>1. \/ /\ mem' = WithState(o, "CANCELLED")
             /\ usnap' = [usnap EXCEPT ![o] = [mem[o] EXCEPT !.state = "CANCELLED"]]
          \/ mem' = mem /\ usnap' \in {usnap, [usnap EXCEPT ![o] = mem[o]]}
      BY <1>3 DEF Cancel, Unqueue, CancelAnswered, Modify, ModifyAnswered,
         CancelBeyondQueue, MarkCancelled, SaveNote
    <3> QED BY <3>1, FillTypes DEF WithState, OrderRec
  <2>3. \A p \in Orders : usnap'[p] = usnap[p] \/ Within(p, usnap[p])'
    BY <1>1, <2>2, WithinStays DEF BudgetInv, BudgetOf
  <2> QED BY <1>1, <2>1, <2>2, <2>3, SameBudget DEF BudgetInv
<1>4. CASE CancelReaches(o) \/ CancelDropped(o) \/ RequestSaved(o)
  <2>1. mem' = mem
    BY <1>4 DEF CancelReaches, CancelDropped, RequestSaved
  <2>2. \A p \in Orders : /\ usnap'[p] \in {usnap[p], Blank}
                          /\ row'[p] \in {row[p], usnap[p], Blank}
    BY <1>4, FillTypes DEF CancelReaches, CancelDropped, RequestSaved, Land
  <2>3. \A p \in Orders : /\ usnap'[p] = usnap[p] \/ Within(p, usnap[p])'
                          /\ row'[p] = row[p] \/ Within(p, row[p])'
    BY <1>1, <2>2, WithinStays, FreshIsWithin DEF BudgetInv, BudgetOf
  <2> QED BY <1>1, <2>1, <2>3, SameBudget DEF BudgetInv
<1> QED BY <1>2, <1>3, <1>4 DEF RequestStep, RequestRest
LEMMA DequeueBudget ==
  ASSUME TypeOK, Stages, BudgetInv, NEW i \in 1..Len(queue), Dequeue(i)
  PROVE  BudgetInv'
<1>1. PICK o \in Orders : o = queue[i].order
  BY QueueIs
<1>2. PICK found \in OrderRec : found = IF o \in known THEN mem[o] ELSE row[o]
  BY FillTypes
<1> DEFINE sent == [found EXCEPT !.state = "SENT"]
<1>3. /\ UNCHANGED <<row, usnap, audit, rpc, rord, rsnap, rtodo>>
      /\ wpc' \notin {"posting", "answering", "retrying"}
      /\ \/ mem' = [mem EXCEPT ![o] = sent] /\ word' = o /\ wsnap' = sent
         \/ mem' \in {mem, [mem EXCEPT ![o] = found]} /\ UNCHANGED <<word, wsnap>>
  BY <1>1, <1>2 DEF Dequeue, recon, request
<1>4. sent.retries = found.retries /\ sent.state = "SENT"
  BY DEF OrderRec
<1> HIDE DEF sent
<1>5. ClaimStays
  BY <1>3 DEF ClaimStays
<1>6. Within(o, found)' /\ Within(o, sent)'
  BY <1>2, <1>4, <1>5, WithinStays DEF BudgetInv, BudgetOf
<1>7. /\ \A p \in Orders : p # o => mem'[p] = mem[p]
      /\ mem'[o] \in {mem[o], found, sent}
  BY <1>3, FillTypes
<1>8. /\ o \in rtodo /\ rpc \in Doubting => found = mem[o]
      /\ o = rord /\ rpc \in Asking => found = mem[o]
  BY <1>2 DEF Stages, InHand, Doubted
<1>9. ASSUME NEW p \in Orders PROVE BudgetOf(p)'
  <2>1. BudgetOf(p)
    BY DEF BudgetInv
  <2>2. Within(p, mem[p])'
    BY <1>5, <1>6, <1>7, <2>1, WithinStays DEF BudgetOf
  <2>3. Within(p, row[p])' /\ Within(p, usnap[p])' /\ (rord' = p => Within(p, rsnap)')
    BY <1>3, <1>5, <2>1, WithinStays DEF BudgetOf
  <2>4. word' = p => Within(p, wsnap)'
    BY <1>3, <1>5, <1>6, <2>1, WithinStays DEF BudgetOf
  <2>5. ASSUME (p \in rtodo /\ rpc \in Doubting) \/ (p = rord /\ rpc \in Asking)
        PROVE  Claimed(p)'
    <3>1. mem'[p].retries = mem[p].retries
      BY <1>4, <1>7, <1>8, <2>5
    <3> QED BY <1>5, <2>1, <2>5, <3>1, WithinStays DEF BudgetOf
  <2> QED BY <1>3, <2>2, <2>3, <2>4, <2>5 DEF BudgetOf
<1> QED BY <1>9 DEF BudgetInv

\* A claim once made stays, the worker's steps included.
LEMMA WorkerKeepsClaims ==
  ASSUME TypeOK, WorkerStep
  PROVE  ClaimStays
<1> USE DEF store
<1>1. CASE Admit \/ Duplicate \/ InsertFailed
  BY <1>1, FillTypes DEF Admit, Duplicate, InsertFailed, ClaimStays, AuditRec
<1>2. CASE Answer
  <2> DEFINE a == [status |-> IF wans = "filled" THEN "FILLED" ELSE "PENDING", bid |-> word]
  <2>1. a.status # "none"
    OBVIOUS
  <2>2. audit' = [audit EXCEPT ![word] = a] \/ audit' = audit
    BY <1>2 DEF Answer
  <2> HIDE DEF a
  <2> QED BY <2>1, <2>2, FillTypes DEF ClaimStays
<1>3. CASE audit' = audit
  BY <1>3 DEF ClaimStays
<1> QED BY <1>1, <1>2, <1>3 DEF WorkerStep, Dequeue, SentSaved, Refuse, Unavailable, Post,
           AnswerLost, AnswerDropped, WorkerSaved, WorkerFinalSaved, WorkerDropped,
           RemainderSaved, RemainderQueued, RetryQueued

\* A step of the worker on the order it drives that keeps its retries.
LEMMA WorkerSpends ==
  ASSUME TypeOK, BudgetInv, ClaimStays, NEW o \in Orders, word = o, word' \in {o, NoBid},
         UNCHANGED <<usnap, rpc, rord, rsnap, rtodo>>,
         \A p \in Orders : p # o => mem'[p] = mem[p],
         \A p \in Orders : row'[p] = row[p] \/ Within(p, row[p])',
         mem'[o].retries = mem[o].retries, Within(o, mem[o])', Within(o, wsnap)',
         wpc' \in {"posting", "answering"} => Claimed(o)',
         wpc' = "retrying" => mem'[o].retries < MaxRetries
  PROVE  BudgetInv'
<1>1. ASSUME NEW p \in Orders PROVE BudgetOf(p)'
  <2>1. BudgetOf(p) /\ word' \in {o, NoBid} /\ NoBid \notin Orders
    BY BudgetTypes DEF BudgetInv
  <2>2. Within(p, mem[p])' /\ mem'[p].retries = mem[p].retries
    BY <2>1, WithinStays DEF BudgetOf
  <2>3. Within(p, row[p])' /\ Within(p, usnap[p])' /\ (rord' = p => Within(p, rsnap)')
    BY <2>1, WithinStays DEF BudgetOf
  <2>4. Claimed(p) => Claimed(p)'
    BY <2>2, WithinStays
  <2> QED BY <2>1, <2>2, <2>3, <2>4 DEF BudgetOf
<1> QED BY <1>1 DEF BudgetInv

LEMMA WorkerBudget ==
  ASSUME TypeOK, Stages, BudgetInv, WorkerStep
  PROVE  BudgetInv'
<1> USE DEF store, broker, recon, request
<1>0. /\ wpc # "idle" => word \in Orders
      /\ ClaimStays
  BY StageTypes, WorkerKeepsClaims
<1>1. CASE \E i \in 1..Len(queue) : Dequeue(i)
  BY <1>1, DequeueBudget
<1>2. CASE Refuse \/ Unavailable \/ Duplicate \/ InsertFailed \/ Answer
           \/ AnswerLost \/ AnswerDropped
  <2>1. /\ word \in Orders /\ UNCHANGED <<row, usnap, word, rpc, rord, rsnap, rtodo>>
    BY <1>0, <1>2 DEF Refuse, Unavailable, Duplicate, InsertFailed, Answer, AnswerLost,
       AnswerDropped
  <2>2. PICK o \in Orders : o = word
    BY <2>1
  <2>3. \/ Refused \/ Transient \/ (Unknown /\ wpc = "answering")
        \/ \E b : Accepted(b) \/ Filled(b) \/ Partly(b)
    <3>1. CASE Answer
      BY <3>1, <1>0 DEF Answer, TypeOK, TypeWorker
    <3> QED BY <1>2, <3>1 DEF Refuse, Unavailable, Duplicate, InsertFailed, AnswerLost,
               AnswerDropped
  <2>4. BudgetOf(o) /\ Within(o, mem[o]) /\ Within(o, wsnap)
    BY <2>2 DEF BudgetInv, BudgetOf
  <2>5. \A p \in Orders : p # o => mem'[p] = mem[p]
    BY <2>2, <2>3, FillTypes
       DEF Refused, Unknown, Transient, Accepted, Filled, Partly, Settle, WithState
  <2>6. ASSUME NEW s, NEW b, NEW next, Settle(s, b, next)
        PROVE  /\ mem'[o].retries = mem[o].retries /\ mem'[o].state = s
               /\ wsnap'.retries = mem[o].retries /\ wsnap'.state = s
               /\ wpc' = next
    BY <2>2, <2>6, FillTypes DEF Settle, OrderRec
  <2>7. CASE wpc' = "retrying" /\ wsnap' = wsnap /\ mem' = WithState(word, "QUEUED")
             /\ mem[word].retries < MaxRetries
    <3>1. mem'[o].retries = mem[o].retries /\ mem'[o].state = "QUEUED"
      BY <2>2, <2>7, FillTypes DEF WithState, OrderRec
    <3>2. Within(o, mem[o])' /\ Within(o, wsnap)'
      BY <1>0, <2>4, <2>7, <3>1, WithinStays
    <3> QED BY <1>0, <2>1, <2>2, <2>5, <2>7, <3>1, <3>2, WorkerSpends
  <2>8. CASE Unknown /\ wpc = "answering"
    <3>1. /\ mem'[o].retries = mem[o].retries /\ wsnap'.retries = mem[o].retries
          /\ wpc' = "saving"
      BY <2>6, <2>8 DEF Unknown
    <3>2. Claimed(o)
      BY <2>2, <2>4, <2>8 DEF BudgetOf
    <3>3. Within(o, mem[o])' /\ Within(o, wsnap)'
      BY <1>0, <3>1, <3>2, BudgetTypes DEF Within, Claimed, ClaimStays
    <3> QED BY <1>0, <2>1, <2>2, <2>5, <3>1, <3>3, WorkerSpends
  <2>9. CASE \/ Refused
             \/ \E b : Accepted(b) \/ Filled(b) \/ Partly(b)
    <3>1. /\ mem'[o].retries = mem[o].retries /\ wsnap'.retries = mem[o].retries
          /\ mem'[o].state \notin {"UNKNOWN", "RECONCILING"}
          /\ wsnap'.state \notin {"UNKNOWN", "RECONCILING"}
          /\ wpc' \notin {"posting", "answering", "retrying"}
      BY <2>6, <2>9 DEF Refused, Accepted, Filled, Partly
    <3>2. Within(o, mem[o])' /\ Within(o, wsnap)'
      BY <1>0, <2>4, <3>1, WithinStays
    <3> QED BY <1>0, <2>1, <2>2, <2>5, <3>1, <3>2, WorkerSpends
  <2> QED BY <2>3, <2>7, <2>8, <2>9 DEF Transient
<1>3. CASE Admit \/ Post
  <2>1. PICK o \in Orders : o = word
    BY <1>0, <1>3 DEF Admit, Post
  <2>2. UNCHANGED <<mem, row, usnap, word, wsnap, rpc, rord, rsnap, rtodo>>
        /\ wpc' \in {"posting", "answering"}
    BY <1>3 DEF Admit, Post
  <2>3. BudgetOf(o) /\ Within(o, mem[o])' /\ Within(o, wsnap)'
    BY <1>0, <2>1, <2>2, WithinStays DEF BudgetInv, BudgetOf
  <2>4. Claimed(o)'
    <3>1. CASE Admit
      <4>1. audit[o].status = "none" /\ audit'[o].status # "none"
        BY <2>1, <3>1, FillTypes DEF Admit, AuditRec
      <4> QED BY <2>2, <2>3, <4>1, BudgetTypes DEF BudgetOf, Within, Claimed
    <3>2. CASE Post
      BY <1>0, <2>1, <2>2, <2>3, <3>2, WithinStays DEF Post, BudgetOf
    <3> QED BY <1>3, <3>1, <3>2
  <2> QED BY <1>0, <2>1, <2>2, <2>3, <2>4, WorkerSpends
<1>4. CASE SentSaved \/ WorkerSaved \/ WorkerFinalSaved \/ WorkerDropped \/ RemainderSaved
           \/ RemainderQueued
  <2>1. PICK o \in Orders : o = word
    BY <1>0, <1>4 DEF SentSaved, WorkerSaved, WorkerFinalSaved, WorkerDropped, RemainderSaved,
       RemainderQueued
  <2>2. /\ UNCHANGED <<mem, usnap, rpc, rord, rsnap, rtodo>> /\ word' \in {o, NoBid}
        /\ wpc' \notin {"posting", "answering", "retrying"} /\ wsnap' = Blank
        /\ Land(word, wsnap) \/ Land(word, Blank) \/ row' = row
    BY <1>4, <2>1 DEF SentSaved, WorkerSaved, WorkerFinalSaved, WorkerDropped, RemainderSaved,
       RemainderQueued, WorkerIdle
  <2>3. Within(o, mem[o])' /\ Within(o, wsnap)'
    <3>1. Within(o, mem[o])'
      BY <1>0, <2>2, WithinStays DEF BudgetInv, BudgetOf
    <3> QED BY <2>2, <3>1, FreshIsWithin
  <2>4. \A p \in Orders : row'[p] = row[p] \/ Within(p, row[p])'
    <3>1. \A p \in Orders : row'[p] = row[p] \/ (p = o /\ row'[p] \in {wsnap, Blank})
      BY <2>1, <2>2, FillTypes DEF Land
    <3>2. \A p \in Orders : p = o => Within(p, wsnap)
      BY <2>1 DEF BudgetInv, BudgetOf
    <3> QED BY <1>0, <3>1, <3>2, WithinStays, FreshIsWithin
  <2> QED BY <1>0, <2>1, <2>2, <2>3, <2>4, WorkerSpends
<1>5. CASE RetryQueued
  <2>1. PICK o \in Orders : o = word
    BY <1>0, <1>5 DEF RetryQueued
  <2>2. /\ UNCHANGED <<row, usnap, word, audit, rpc, rord, rsnap, rtodo>>
        /\ wpc = "retrying" /\ wpc' = "saving"
        /\ mem' = [mem EXCEPT ![o].retries = @ + 1]
        /\ wsnap' = [mem[o] EXCEPT !.retries = @ + 1]
    BY <1>5, <2>1 DEF RetryQueued
  <2>3. /\ \A p \in Orders : p # o => mem'[p] = mem[p]
        /\ mem'[o].retries = mem[o].retries + 1 /\ mem'[o].state = mem[o].state
        /\ wsnap'.retries = mem[o].retries + 1 /\ wsnap'.state = mem[o].state
    <3>1. mem[o] \in OrderRec
      BY FillTypes
    <3> QED BY <2>2, <3>1, FillTypes DEF OrderRec
  <2>4. Driven(o) /\ BudgetOf(o) /\ mem[o].retries < MaxRetries
    BY <2>1, <2>2 DEF BudgetInv, BudgetOf, Driven
  <2>5. /\ mem[o].state \in {"QUEUED", "CANCELLED"}
        /\ ~(o \in rtodo /\ rpc \in Doubting) /\ ~(o = rord /\ rpc \in Asking)
    BY <2>2, <2>4, DrivenAlone DEF Cancelled
  <2>6. Within(o, mem[o])' /\ Within(o, wsnap)'
    BY <2>3, <2>4, <2>5, BudgetTypes DEF Within
  <2>7. ASSUME NEW p \in Orders, p # o PROVE BudgetOf(p)'
    <3>1. BudgetOf(p) /\ word # p
      BY <2>1, <2>7 DEF BudgetInv
    <3>2. Within(p, mem[p])' /\ Within(p, row[p])' /\ Within(p, usnap[p])'
          /\ (rord' = p => Within(p, rsnap)') /\ (Claimed(p) => Claimed(p)')
      BY <1>0, <2>2, <2>3, <2>7, <3>1, WithinStays DEF BudgetOf
    <3> QED BY <2>2, <3>1, <3>2 DEF BudgetOf
  <2>8. BudgetOf(o)'
    <3>1. Within(o, row[o])' /\ Within(o, usnap[o])' /\ (rord' = o => Within(o, rsnap)')
      BY <1>0, <2>2, <2>4, WithinStays DEF BudgetOf
    <3> QED BY <2>2, <2>5, <2>6, <3>1 DEF BudgetOf
  <2> QED BY <2>7, <2>8 DEF BudgetInv
<1> QED BY <1>1, <1>2, <1>3, <1>4, <1>5 DEF WorkerStep
\* What the reconciler makes of an order it asked for: only an order with a claim, and with
\* retries left, is put back in the queue.
LEMMA ConcludeBudget ==
  ASSUME TypeOK, Stages, BudgetInv, Correlate \/ Scan
  PROVE  BudgetInv'
<1>1. PICK o \in Orders : o = rord
  BY Concludes
<1>2. /\ UNCHANGED <<row, usnap, audit, wpc, word, wsnap, rord, rtodo>>
      /\ rpc \in Asking /\ rpc' \in Doubting
      /\ (rpc' = "scanning" /\ UNCHANGED <<mem, rsnap>>) \/ rpc' \notin Asking
  BY Concludes DEF store, worker, request, Asking, Doubting
<1>3. ClaimStays
  BY <1>2 DEF ClaimStays
<1>4. BudgetOf(o) /\ Claimed(o) /\ o \notin rtodo /\ ~Driven(o)
  BY <1>1, <1>2 DEF BudgetInv, BudgetOf, Stages, InHand, Doubted
<1>5. /\ \A p \in Orders : p # o => mem'[p] = mem[p]
      /\ Within(o, mem[o])' /\ Within(o, rsnap)'
  <2>1. CASE UNCHANGED <<mem, rsnap>>
    BY <1>1, <1>3, <1>4, <2>1, WithinStays DEF BudgetOf
  <2>2. ASSUME NEW v, v.verdict \in Verdicts, Conclude(v)
        PROVE  /\ \A p \in Orders : p # o => mem'[p] = mem[p]
               /\ mem'[o] = rsnap'
               /\ \/ rsnap'.retries = mem[o].retries
                  \/ rsnap'.retries = mem[o].retries + 1 /\ rsnap'.state = "QUEUED"
    <3>1. mem[rord] \in OrderRec
      BY <1>1, FillTypes
    <3>2. mem' = [mem EXCEPT ![rord] = rsnap']
      BY <2>2 DEF Conclude
    <3>3. CASE v.verdict = "NOT_FOUND"
      <4>1. rsnap' = [mem[rord] EXCEPT !.state = "QUEUED", !.absent = Count(@), !.retries = @ + 1]
        BY <2>2, <3>3 DEF Conclude
      <4>2. rsnap'.retries = mem[rord].retries + 1 /\ rsnap'.state = "QUEUED"
        BY <3>1, <4>1 DEF OrderRec
      <4> QED BY <1>1, <3>2, <4>2, FillTypes
    <3>4. CASE v.verdict # "NOT_FOUND"
      <4>1. rsnap'.retries = mem[rord].retries
        BY <2>2, <3>1, <3>4 DEF Conclude, Verdicts, OrderRec
      <4> QED BY <1>1, <3>2, <4>1, FillTypes
    <3> QED BY <3>3, <3>4
  <2>3. CASE \E v : v.verdict \in Verdicts /\ Conclude(v)
    <3>1. /\ \A p \in Orders : p # o => mem'[p] = mem[p]
          /\ mem'[o] = rsnap'
          /\ \/ rsnap'.retries = mem[o].retries
             \/ rsnap'.retries = mem[o].retries + 1 /\ rsnap'.state = "QUEUED"
      BY <2>2, <2>3
    <3>2. mem[o].retries \in Nat /\ MaxRetries \in Nat
      BY BudgetTypes
    <3>3. Within(o, rsnap)'
      BY <1>3, <1>4, <3>1, <3>2 DEF Within, Claimed, ClaimStays
    <3> QED BY <3>1, <3>3 DEF Within
  <2> QED BY <1>2, <2>1, <2>3, Concludes
<1>6. ASSUME NEW p \in Orders, p # o PROVE BudgetOf(p)'
  <2>1. BudgetOf(p)
    BY DEF BudgetInv
  <2>2. Within(p, mem[p])' /\ Within(p, row[p])' /\ Within(p, usnap[p])'
        /\ (word' = p => Within(p, wsnap)') /\ (Claimed(p) => Claimed(p)')
    BY <1>2, <1>3, <1>5, <1>6, <2>1, WithinStays DEF BudgetOf
  <2>3. mem'[p] = mem[p] /\ rpc \in Doubting
    BY <1>2, <1>5, <1>6 DEF Asking, Doubting
  <2> QED BY <1>1, <1>2, <1>6, <2>1, <2>2, <2>3 DEF BudgetOf
<1>7. BudgetOf(o)'
  <2>1. Within(o, row[o])' /\ Within(o, usnap[o])' /\ (word' = o => Within(o, wsnap)')
    BY <1>2, <1>3, <1>4, WithinStays DEF BudgetOf
  <2>2. rpc' \in Asking => Claimed(o)'
    BY <1>2, <1>3, <1>4, WithinStays DEF Asking
  <2> QED BY <1>2, <1>4, <1>5, <2>1, <2>2 DEF BudgetOf, Driven, Sending
<1> QED BY <1>6, <1>7 DEF BudgetInv

LEMMA ReconBudget ==
  ASSUME TypeOK, Stages, BudgetInv, ReconStep
  PROVE  BudgetInv'
<1> USE DEF store, broker, worker, request
<1>0. /\ rpc \notin {"idle", "unknown", "book"} => rord \in Orders
      /\ ClaimStays
  BY StageTypes, OtherSteps
<1>1. CASE Correlate \/ Scan
  BY <1>1, ConcludeBudget
<1>2. ASSUME NEW o \in Orders, Investigate(o)
      PROVE  BudgetInv'
  <2>1. /\ UNCHANGED <<row, usnap, audit, wpc, word, wsnap>> /\ rord' = o
        /\ rtodo' = rtodo \ {o} /\ o \in rtodo /\ rpc = "unknown" /\ rpc' = "marking"
        /\ mem' = WithState(o, "RECONCILING") /\ rsnap' = [mem[o] EXCEPT !.state = "RECONCILING"]
    BY <1>2 DEF Investigate
  <2>2. /\ \A p \in Orders : p # o => mem'[p] = mem[p]
        /\ mem'[o].retries = mem[o].retries /\ rsnap'.retries = mem[o].retries
    BY <2>1, FillTypes DEF WithState, OrderRec
  <2>3. Claimed(o)
    BY <2>1 DEF BudgetInv, BudgetOf, Doubting
  <2>4. Within(o, mem[o])' /\ Within(o, rsnap)' /\ Claimed(o)'
    BY <2>1, <2>2, <2>3, BudgetTypes DEF Within, Claimed
  <2>5. ASSUME NEW p \in Orders PROVE BudgetOf(p)'
    <3>1. BudgetOf(p)
      BY DEF BudgetInv
    <3>2. Within(p, row[p])' /\ Within(p, usnap[p])' /\ (word' = p => Within(p, wsnap)')
          /\ (Claimed(p) => Claimed(p)') /\ Within(p, mem[p])'
      BY <1>0, <2>1, <2>2, <2>4, <3>1, WithinStays DEF BudgetOf
    <3>3. mem'[p].retries = mem[p].retries /\ rpc \in Doubting
      BY <2>1, <2>2 DEF Doubting
    <3> QED BY <2>1, <2>4, <3>1, <3>2, <3>3 DEF BudgetOf
  <2> QED BY <2>5 DEF BudgetInv
<1>3. ASSUME NEW o \in Orders, ApplyRemote(o)
      PROVE  BudgetInv'
  <2> DEFINE t == IF mem[o].bid = NoBid THEN "none" ELSE Target(rbook[mem[o].bid])
  <2>1. /\ UNCHANGED <<row, usnap, audit, wpc, word, wsnap>>
        /\ rpc' \notin Doubting /\ rpc' \notin Asking
        /\ \/ mem' = WithState(o, t) /\ rsnap' = [mem[o] EXCEPT !.state = t] /\ rord' = o
           \/ UNCHANGED <<mem, rsnap, rord>>
    BY <1>3 DEF ApplyRemote, Doubting, Asking
  <2>2. t \notin {"UNKNOWN", "RECONCILING"}
    BY DEF Target
  <2> HIDE DEF t
  <2>3. \/ UNCHANGED <<mem, rsnap, rord>>
        \/ /\ \A p \in Orders : p # o => mem'[p] = mem[p]
           /\ mem'[o].state = t /\ mem'[o].retries = mem[o].retries
           /\ rsnap'.state = t /\ rsnap'.retries = mem[o].retries /\ rord' = o
    BY <2>1, FillTypes DEF WithState, OrderRec
  <2>4. ASSUME NEW p \in Orders PROVE BudgetOf(p)'
    <3>1. BudgetOf(p)
      BY DEF BudgetInv
    <3>2. /\ mem'[p].retries = mem[p].retries
          /\ mem'[p].state = mem[p].state \/ mem'[p].state \notin {"UNKNOWN", "RECONCILING"}
      BY <2>2, <2>3
    <3>3. Within(p, mem[p])' /\ (Claimed(p) => Claimed(p)')
      BY <1>0, <3>1, <3>2, WithinStays DEF BudgetOf
    <3>4. Within(p, row[p])' /\ Within(p, usnap[p])' /\ (word' = p => Within(p, wsnap)')
      BY <1>0, <2>1, <3>1, WithinStays DEF BudgetOf
    <3>5. rord' = p => Within(p, rsnap)'
      BY <1>0, <2>2, <2>3, <3>1, WithinStays DEF BudgetOf
    <3> QED BY <2>1, <3>1, <3>2, <3>3, <3>4, <3>5 DEF BudgetOf
  <2> QED BY <2>4 DEF BudgetInv
<1>4. CASE Marked \/ VerdictSaved \/ VerdictDropped \/ VerdictRequeued \/ PartialSaved
           \/ ClosedSaved \/ Closed
  <2>1. /\ UNCHANGED <<mem, usnap, wpc, word, wsnap, rtodo>> /\ rord' \in {rord, NoBid}
        /\ rsnap' \in {rsnap, Blank} /\ rord \in Orders
        /\ rpc' \in Asking => rpc \in Asking
        /\ rpc' \in Doubting => rpc \in Doubting
        /\ Land(rord, rsnap) \/ Land(rord, Blank) \/ row' = row
    BY <1>0, <1>4 DEF Marked, VerdictSaved, VerdictDropped, VerdictRequeued, PartialSaved,
       ClosedSaved, Closed, Asking, Doubting
  <2>2. ASSUME NEW p \in Orders PROVE BudgetOf(p)'
    <3>1. BudgetOf(p) /\ p # NoBid
      BY BudgetTypes DEF BudgetInv
    <3>2. row'[p] = row[p] \/ (p = rord /\ row'[p] \in {rsnap, Blank})
      BY <2>1, FillTypes DEF Land
    <3>3. Within(p, row[p])'
      BY <1>0, <3>1, <3>2, WithinStays, FreshIsWithin DEF BudgetOf
    <3>4. Within(p, mem[p])' /\ Within(p, usnap[p])' /\ (word' = p => Within(p, wsnap)')
          /\ (Claimed(p) => Claimed(p)') /\ (rord' = p => Within(p, rsnap)')
      BY <1>0, <2>1, <3>1, WithinStays, FreshIsWithin DEF BudgetOf
    <3> QED BY <2>1, <3>1, <3>3, <3>4 DEF BudgetOf
  <2> QED BY <2>2 DEF BudgetInv
<1>5. CASE PassBegin \/ FetchBook \/ BookDone
  <2>1. /\ UNCHANGED <<mem, row, usnap, wpc, word, wsnap, rord, rsnap>> /\ rpc' \notin Asking
        /\ rpc' \in Doubting =>
             \A p \in rtodo' : mem[p].state \in {"UNKNOWN", "RECONCILING"}
    BY <1>5 DEF PassBegin, FetchBook, BookDone, Asking, Doubting
  <2>2. ASSUME NEW p \in Orders PROVE BudgetOf(p)'
    <3>1. BudgetOf(p)
      BY DEF BudgetInv
    <3>2. Within(p, mem[p])' /\ Within(p, row[p])' /\ Within(p, usnap[p])'
          /\ (word' = p => Within(p, wsnap)') /\ (Claimed(p) => Claimed(p)')
          /\ (rord' = p => Within(p, rsnap)')
      BY <1>0, <2>1, <3>1, WithinStays DEF BudgetOf
    <3>3. p \in rtodo' /\ rpc' \in Doubting => Claimed(p)'
      BY <2>1, <3>2 DEF Within, Claimed
    <3> QED BY <2>1, <3>1, <3>2, <3>3 DEF BudgetOf
  <2> QED BY <2>2 DEF BudgetInv
<1> QED BY <1>1, <1>2, <1>3, <1>4, <1>5 DEF ReconStep

LEMMA OtherBudget ==
  ASSUME TypeOK, BudgetInv, BrokerStep \/ Restart \/ UNCHANGED vars
  PROVE  BudgetInv'
<1> USE DEF store, broker, worker, recon, request
<1>1. CASE BrokerStep \/ UNCHANGED vars
  <2>1. UNCHANGED <<mem, row, usnap, audit, wpc, word, wsnap, rpc, rord, rsnap, rtodo>>
    BY <1>1 DEF vars, BrokerStep, BrokerShows, BrokerMoves
  <2>2. ClaimStays
    BY <2>1 DEF ClaimStays
  <2> QED BY <2>1, <2>2, SameBudget DEF BudgetInv
<1>2. CASE Restart
  <2>1. /\ UNCHANGED <<row, audit>> /\ wpc' = "idle" /\ word' = NoBid
        /\ rpc' = "idle" /\ rord' = NoBid
        /\ mem' = [p \in Orders |-> Recovered(p)] /\ usnap' = [p \in Orders |-> Blank]
    BY <1>2 DEF Restart, WorkerIdle
  <2>2. ClaimStays
    BY <2>1 DEF ClaimStays
  <2>3. ASSUME NEW p \in Orders PROVE BudgetOf(p)'
    <3>1. mem'[p] \in {row[p], Blank} /\ usnap'[p] = Blank /\ row'[p] = row[p]
      BY <2>1 DEF Recovered
    <3>2. Within(p, mem[p])' /\ Within(p, row[p])' /\ Within(p, usnap[p])'
      BY <2>2, <3>1, WithinStays, FreshIsWithin DEF BudgetInv, BudgetOf
    <3> QED BY <2>1, <3>2, BudgetTypes DEF BudgetOf, Doubting, Asking
  <2> QED BY <2>3 DEF BudgetInv
<1> QED BY <1>1, <1>2

LEMMA AlwaysBudgeted ==
  ASSUME "retry" \notin Events
  PROVE  Spec => [](TypeOK /\ SendInv /\ Stages /\ BudgetInv)
<1>1. Init => BudgetInv
  <2>1. ASSUME Init PROVE BudgetInv
    BY <2>1, RetriesAssumption, NoBidAssumption
       DEF Init, BudgetInv, BudgetOf, Within, Blank, Doubting, Asking
  <2> QED BY <2>1
<1>2. TypeOK /\ SendInv /\ Stages /\ BudgetInv /\ [Next]_vars => BudgetInv'
  BY PlaceBudget, RequestBudget, WorkerBudget, ReconBudget, OtherBudget DEF Next
<1> QED BY <1>1, <1>2, AlwaysStages, PTL DEF Spec

\* No attempt beyond max_retries is posted, across every restart: the requeue a NOT_FOUND
\* verdict adds without looking at the budget (_reconcile_one_unknown) is for an order that
\* the orders table already claims, so it ends before the broker, as long as retry_order adds
\* none.
THEOREM RetriesAreBudgeted ==
  ASSUME "retry" \notin Events
  PROVE  Spec => []SentWithinBudget
<1>1. TypeOK /\ BudgetInv => SentWithinBudget
  <2>1. TypeOK => (wpc # "idle" => word \in Orders)
    BY FillTypes
  <2> QED BY <2>1 DEF BudgetInv, BudgetOf, Claimed, SentWithinBudget
<1> QED BY <1>1, AlwaysBudgeted, PTL

--------------------------------------------------------------------------------
(* The transition table.  Each step that writes the state of an order, except a load     *)
(* from the database, writes one that the table allows, or puts the order back in QUEUED *)
(* from SENT or RECONCILING.                                                             *)

Follows(o) ==
  LET was == mem[o].state  is == mem'[o].state IN
  \/ is = was \/ Loaded(o)
  \/ CanTransition(was, is)
  \/ was \in {"SENT", "RECONCILING"} /\ is = "QUEUED"

LEMMA TableSays ==
  /\ CanTransition("NEW", "QUEUED") /\ CanTransition("QUEUED", "SENT")
  /\ \A s \in {"REJECTED", "UNKNOWN", "PENDING", "FILLED"} : CanTransition("SENT", s)
  /\ CanTransition("UNKNOWN", "RECONCILING")
  /\ \A s \in {"PENDING", "REJECTED", "AMBIGUOUS", "UNKNOWN"} : CanTransition("RECONCILING", s)
  /\ \A s, t : IsTerminal(s) => ~CanTransition(s, t)
BY DEF CanTransition, Transitions, States, IsTerminal

LEMMA StepsFollow ==
  ASSUME TypeOK, Stages, "cancel" \notin Events, "retry" \notin Events, [Next]_vars
  PROVE  \A o \in Orders : Follows(o)
<1> USE DEF store, worker, recon, request
<1>0. /\ wpc # "idle" => word \in Orders
      /\ rpc \notin {"idle", "unknown", "book"} => rord \in Orders
      /\ Cancelled = {}
  BY StageTypes DEF Cancelled
<1>1. ASSUME NEW o \in Orders, PlaceStep(o) PROVE \A p \in Orders : Follows(p)
  <2>1. \A p \in Orders : p # o => mem'[p] = mem[p]
    BY <1>1, FillTypes DEF PlaceStep, PlaceRest, Place, PlaceQueued, PlaceSaved, PlaceEnqueue,
       WithState
  <2>2. Follows(o)
    <3>1. CASE Place(o)
      <4>1. o \notin known /\ o \in known'
        BY <3>1 DEF Place, Stages, InHand, Placing
      <4> QED BY <4>1 DEF Follows, Loaded
    <3>2. CASE PlaceQueued(o)
      <4>1. mem[o].state = "NEW" /\ mem'[o].state = "QUEUED"
        BY <3>2, FillTypes DEF PlaceQueued, WithState, OrderRec, Stages, InHand, Placing
      <4> QED BY <4>1, TableSays DEF Follows
    <3>3. CASE mem' = mem
      BY <3>3 DEF Follows
    <3> QED BY <1>1, <3>1, <3>2, <3>3 DEF PlaceStep, PlaceRest, PlaceSaved, PlaceEnqueue
  <2> QED BY <2>1, <2>2 DEF Follows
<1>2. ASSUME NEW o \in Orders, RequestStep(o) PROVE \A p \in Orders : Follows(p)
  <2>1. mem' = mem
    BY <1>2, RequestMarks DEF Stages
  <2> QED BY <2>1 DEF Follows
<1>3. ASSUME NEW i \in 1..Len(queue), Dequeue(i) PROVE \A p \in Orders : Follows(p)
  <2>1. PICK o \in Orders : o = queue[i].order
    BY QueueIs
  <2>2. PICK found \in OrderRec : found = IF o \in known THEN mem[o] ELSE row[o]
    BY FillTypes
  <2>3. /\ known' = (IF found = Blank THEN known ELSE known \cup {o})
        /\ \/ /\ CanTransition(found.state, "SENT")
              /\ mem' = [mem EXCEPT ![o] = [found EXCEPT !.state = "SENT"]]
           \/ mem' = IF found = Blank THEN mem ELSE [mem EXCEPT ![o] = found]
    BY <1>3, <2>1, <2>2 DEF Dequeue
  <2>4. \A p \in Orders : p # o => mem'[p] = mem[p]
    BY <2>3, FillTypes
  <2>5. Follows(o)
    <3>1. CASE o \notin known /\ found # Blank
      BY <2>3, <3>1 DEF Follows, Loaded
    <3>2. CASE o \in known
      <4>1. mem'[o] = mem[o] \/ (CanTransition(mem[o].state, "SENT") /\ mem'[o].state = "SENT")
        BY <2>2, <2>3, <3>2, FillTypes DEF OrderRec
      <4> QED BY <4>1 DEF Follows
    <3>3. CASE found = Blank
      <4>1. ~CanTransition(Blank.state, "SENT")
        BY DEF CanTransition, Blank, States
      <4>2. mem' = mem
        BY <2>3, <3>3, <4>1
      <4> QED BY <4>2 DEF Follows
    <3> QED BY <3>1, <3>2, <3>3
  <2> QED BY <2>4, <2>5 DEF Follows
<1>4. CASE Refuse \/ Unavailable \/ Duplicate \/ InsertFailed \/ Answer
           \/ AnswerLost \/ AnswerDropped
  <2>1. word \in Orders /\ wpc \in {"admitting", "answering"}
    BY <1>0, <1>4 DEF Refuse, Unavailable, Duplicate, InsertFailed, Answer, AnswerLost,
       AnswerDropped
  <2>2. \/ Refused \/ Unknown \/ Transient
        \/ \E b : Accepted(b) \/ Filled(b) \/ Partly(b)
    <3>1. CASE Answer
      BY <3>1, <1>0 DEF Answer, TypeOK, TypeWorker
    <3> QED BY <1>4, <3>1 DEF Refuse, Unavailable, Duplicate, InsertFailed, AnswerLost,
               AnswerDropped
  <2>3. mem[word].state = "SENT"
    BY <1>0, <2>1, DrivenAlone DEF Driven, Sending
  <2>4. \A p \in Orders : p # word => mem'[p] = mem[p]
    BY <2>2, FillTypes
       DEF Refused, Unknown, Transient, Accepted, Filled, Partly, Settle, WithState
  <2>5. mem'[word].state \in {"REJECTED", "UNKNOWN", "PENDING", "FILLED", "QUEUED"}
    <3>1. CASE Transient
      <4>1. WithState(word, "QUEUED")[word].state = "QUEUED"
        BY <2>1, FillTypes DEF WithState, OrderRec
      <4>2. ASSUME Refused PROVE mem'[word].state = "REJECTED"
        BY <2>1, <4>2, FillTypes DEF Refused, Settle, OrderRec
      <4> QED BY <3>1, <4>1, <4>2 DEF Transient
    <3>2. ASSUME NEW s, NEW b, NEW next, Settle(s, b, next)
          PROVE  mem'[word].state = s
      BY <2>1, <3>2, FillTypes DEF Settle, OrderRec
    <3>3. CASE ~Transient
      BY <2>2, <3>2, <3>3 DEF Refused, Unknown, Accepted, Filled, Partly
    <3> QED BY <3>1, <3>3
  <2> QED BY <2>3, <2>4, <2>5, TableSays DEF Follows
<1>5. CASE RetryQueued
  <2>1. \A p \in Orders : mem'[p].state = mem[p].state
    <3>1. \A p \in Orders : mem[p] \in OrderRec
      BY FillTypes
    <3>2. word \in Orders /\ mem' = [mem EXCEPT ![word].retries = @ + 1]
      BY <1>0, <1>5 DEF RetryQueued
    <3> QED BY <3>1, <3>2, FillTypes DEF OrderRec
  <2> QED BY <2>1 DEF Follows
<1>6. CASE Correlate \/ Scan
  <2>1. rord \in Orders /\ mem[rord].state = "RECONCILING"
    BY <1>0, <1>6, Concludes DEF Stages, InHand, Doubted
  <2>2. ASSUME NEW v, v.verdict \in Verdicts, Conclude(v)
        PROVE  /\ \A p \in Orders : p # rord => mem'[p] = mem[p]
               /\ mem'[rord].state \in {"PENDING", "REJECTED", "AMBIGUOUS", "UNKNOWN", "QUEUED"}
    <3>1. mem[rord] \in OrderRec
      BY <2>1, FillTypes
    <3>2. rsnap'.state \in {"PENDING", "REJECTED", "AMBIGUOUS", "UNKNOWN", "QUEUED"}
      BY <2>2, <3>1 DEF Conclude, Verdicts, OrderRec
    <3>3. mem' = [mem EXCEPT ![rord] = rsnap']
      BY <2>2 DEF Conclude
    <3> QED BY <2>1, <3>2, <3>3, FillTypes
  <2>3. \/ mem' = mem
        \/ /\ \A p \in Orders : p # rord => mem'[p] = mem[p]
           /\ mem'[rord].state \in {"PENDING", "REJECTED", "AMBIGUOUS", "UNKNOWN", "QUEUED"}
    BY <1>6, <2>2, Concludes
  <2> QED BY <2>1, <2>3, TableSays DEF Follows
<1>7. ASSUME NEW o \in Orders, Investigate(o) PROVE \A p \in Orders : Follows(p)
  <2>1. mem[o].state \in {"UNKNOWN", "RECONCILING"}
    BY <1>0, <1>7 DEF Investigate, Stages, InHand, Doubted, Doubting
  <2>2. mem'[o].state = "RECONCILING" /\ \A p \in Orders : p # o => mem'[p] = mem[p]
    BY <1>7, FillTypes DEF Investigate, WithState, OrderRec
  <2> QED BY <2>1, <2>2, TableSays DEF Follows
<1>8. ASSUME NEW o \in Orders, ApplyRemote(o) PROVE \A p \in Orders : Follows(p)
  <2> DEFINE t == IF mem[o].bid = NoBid THEN "none" ELSE Target(rbook[mem[o].bid])
  <2>1. mem' = mem \/ (CanTransition(mem[o].state, t) /\ mem' = WithState(o, t))
    BY <1>8 DEF ApplyRemote
  <2> HIDE DEF t
  <2>2. \/ mem' = mem
        \/ /\ CanTransition(mem[o].state, t) /\ mem'[o].state = t
           /\ \A p \in Orders : p # o => mem'[p] = mem[p]
    BY <2>1, FillTypes DEF WithState, OrderRec
  <2> QED BY <2>2 DEF Follows
<1>9. CASE mem' = mem
  BY <1>9 DEF Follows
<1>10. CASE Restart
  BY <1>10 DEF Follows, Loaded
<1>11. CASE BrokerStep \/ UNCHANGED vars
  <2>1. mem' = mem
    BY <1>11 DEF BrokerStep, BrokerShows, BrokerMoves, vars
  <2> QED BY <2>1, <1>9
<1>12. CASE WorkerStep
  BY <1>3, <1>4, <1>5, <1>9, <1>12 DEF WorkerStep, SentSaved, Admit, Post, WorkerSaved,
     WorkerFinalSaved, WorkerDropped, RemainderSaved, RemainderQueued
<1>13. CASE ReconStep
  BY <1>6, <1>7, <1>8, <1>9, <1>13 DEF ReconStep, PassBegin, Marked, VerdictSaved,
     VerdictDropped, VerdictRequeued, FetchBook, PartialSaved, ClosedSaved, Closed, BookDone
<1> QED BY <1>1, <1>2, <1>10, <1>11, <1>12, <1>13 DEF Next

\* Every change of state is one of OMS_STATE_TRANSITIONS or the requeue of a sent or
\* reconciled order, for every interleaving of the worker, the reconciler, restarts and
\* failures, when nobody cancels or retries by hand: cancel_order asks can_transition before its
\* awaits and writes after them, retry_order does not ask.
THEOREM TableIsFollowed ==
  ASSUME "cancel" \notin Events, "retry" \notin Events
  PROVE  Spec => StepsFollowTable
<1>1. TypeOK /\ SendInv /\ Stages /\ [Next]_vars => \A o \in Orders : Follows(o)
  BY StepsFollow
<1> QED BY <1>1, AlwaysStages, PTL DEF Spec, StepsFollowTable, Follows

--------------------------------------------------------------------------------
(* One holder.  While nothing restarts and no retry_order is called, an order is in one  *)
(* hand at a time: still being placed, in the queue, with the worker on its way to the   *)
(* broker or back to the queue, with the reconciler on its way back to the queue, or     *)
(* among those the reconciler looks at.  So none is queued twice, and only the worker    *)
(* that took an order from the queue has it in SENT.                                     *)

Arriving(o) == ppc[o] \in {"saving_new", "saving_queued", "enqueueing"}
Carried(o)  == word = o /\ wpc \in Sending \cup {"saving_remainder", "requeueing", "retrying"}
Returned(o) == rord = o /\ rpc \in {"saving_retry", "requeueing"}
Looked(o)   == o \in rtodo \/ (rord = o /\ rpc \in Asking \cup Closing)

\* An order that is held to be sent is listed and not yet at the broker.
Sendable(o) == o \in known /\ mem[o].state \in {"NEW", "QUEUED", "SENT", "CANCELLED"}
SentHere(o) == o \in known /\ mem[o].state = "SENT" => word = o /\ wpc \in Sending

OneHolder(o) ==
  /\ ppc[o] = "start" => ~Carried(o) /\ ~Returned(o) /\ ~InQueue(o) /\ ~Looked(o)
  /\ Arriving(o) => ~Carried(o) /\ ~Returned(o) /\ ~InQueue(o) /\ ~Looked(o)
  /\ Carried(o)  => ~Returned(o) /\ ~InQueue(o) /\ ~Looked(o)
  /\ Returned(o) => ~InQueue(o) /\ ~Looked(o)
  /\ InQueue(o)  => ~Looked(o)
  /\ Arriving(o) \/ Carried(o) \/ Returned(o) \/ InQueue(o) => Sendable(o)
  /\ SentHere(o)

QueuedOnce == \A i, j \in 1..Len(queue) : queue[i].order = queue[j].order => i = j

Held == QueuedOnce /\ \A o \in Orders : OneHolder(o)

\* An order whose item is taken out is no longer queued; the others still are at most once.
LEMMA TakenOut ==
  ASSUME TypeOK, QueuedOnce, NEW i \in 1..Len(queue),
         \/ queue' = SubSeq(queue, i + 1, Len(queue)) \o SubSeq(queue, 1, i - 1)
         \/ queue' = SubSeq(queue, 1, i - 1) \o SubSeq(queue, i + 1, Len(queue))
  PROVE  /\ QueuedOnce'
         /\ \A p \in Orders : InQueue(p)' => InQueue(p) /\ p # queue[i].order
<1>1. PICK f \in [1..Len(queue') -> (1..Len(queue)) \ {i}] :
           /\ \A k \in 1..Len(queue') : queue'[k] = queue[f[k]]
           /\ \A k, l \in 1..Len(queue') : f[k] = f[l] => k = l
  BY ItemsMove
<1>2. ASSUME NEW k \in 1..Len(queue')
      PROVE  f[k] \in 1..Len(queue) /\ f[k] # i
  BY <1>1
<1>3. QueuedOnce'
  BY <1>1, <1>2 DEF QueuedOnce
<1>4. ASSUME NEW p \in Orders, NEW k \in 1..Len(queue'), queue'[k].order = p
      PROVE  InQueue(p) /\ p # queue[i].order
  BY <1>1, <1>2, <1>4 DEF QueuedOnce, InQueue
<1> QED BY <1>3, <1>4 DEF InQueue

\* An order that is not queued is queued once by a push, if Redis takes it.
LEMMA PushedOnce ==
  ASSUME TypeOK, QueuedOnce, NEW o \in Orders, ~InQueue(o), NEW d \in BOOLEAN, Push(o, d)
  PROVE  /\ QueuedOnce'
         /\ \A p \in Orders : InQueue(p)' => InQueue(p) \/ p = o
<1> DEFINE x == [order |-> o, delayed |-> d]
<1>1. CASE queue' = queue
  BY <1>1 DEF QueuedOnce, InQueue
<1>2. CASE queue' = Append(queue, x)
  <2>1. x \in Item /\ x.order = o
    BY DEF Item
  <2>2. queue \in Seq(Item) /\ Len(queue) \in Nat
    BY QueueIs
  <2> HIDE DEF x
  <2>3. /\ Len(queue') = Len(queue) + 1 /\ queue'[Len(queue) + 1] = x
        /\ \A i \in 1..Len(queue) : queue'[i] = queue[i]
    BY <1>2, <2>1, <2>2, AppendProperties
  <2>4. \A i \in 1..Len(queue') : i \in 1..Len(queue) \/ i = Len(queue) + 1
    BY <2>2, <2>3
  <2>5. \A i \in 1..Len(queue) : queue[i].order # o
    BY DEF InQueue
  <2> HIDE DEF Item
  <2> QED BY <2>1, <2>3, <2>4, <2>5, Zenon DEF QueuedOnce, InQueue
<1> QED BY <1>1, <1>2 DEF Push

\* An order that nothing in the step concerns, or that is only cancelled, keeps its holder.
LEMMA HolderStays ==
  ASSUME NEW o \in Orders, OneHolder(o), InQueue(o)' => InQueue(o),
         mem'[o] = mem[o] \/ mem'[o].state = "CANCELLED", o \in known' <=> o \in known,
         ppc'[o] = ppc[o], Carried(o)' <=> Carried(o), Returned(o)' <=> Returned(o),
         Looked(o)' => Looked(o), wpc \in Sending /\ word = o => wpc' \in Sending /\ word' = o
  PROVE  OneHolder(o)'
<1>1. (Sendable(o) => Sendable(o)') /\ SentHere(o)'
  BY DEF Sendable, SentHere, OneHolder
<1>2. Arriving(o)' <=> Arriving(o)
  BY DEF Arriving
<1> HIDE DEF InQueue, Carried, Returned, Looked, Sendable, SentHere
<1> QED BY <1>1, <1>2 DEF OneHolder

LEMMA PlaceHolds ==
  ASSUME TypeOK, Stages, Held, NEW o \in Orders, PlaceStep(o)
  PROVE  Held'
<1> USE DEF store, worker, request
<1>1. UNCHANGED <<wpc, word, rpc, rord, rtodo>>
  BY DEF PlaceStep, PlaceRest, Place, PlaceQueued, PlaceSaved, PlaceEnqueue, recon
<1>2. OneHolder(o) /\ InHand(o) /\ QueuedOnce
  BY DEF Held, Stages
<1>3. \/ UNCHANGED queue
      \/ Push(o, FALSE) /\ Arriving(o) /\ ~InQueue(o)
  BY <1>2 DEF PlaceStep, PlaceRest, Place, PlaceQueued, PlaceSaved, PlaceEnqueue, Arriving,
     OneHolder
<1>4. QueuedOnce' /\ \A p \in Orders : InQueue(p)' => InQueue(p) \/ p = o
  BY <1>2, <1>3, PushedOnce DEF QueuedOnce, InQueue
<1>5. ASSUME NEW p \in Orders, p # o PROVE OneHolder(p)'
  <2>1. mem'[p] = mem[p] /\ (p \in known' <=> p \in known) /\ ppc'[p] = ppc[p]
    BY <1>5, StageTypes DEF PlaceStep, PlaceRest, Place, PlaceQueued, PlaceSaved, PlaceEnqueue,
       WithState
  <2>2. /\ (Carried(p)' <=> Carried(p)) /\ (Returned(p)' <=> Returned(p))
        /\ (Looked(p)' <=> Looked(p))
    BY <1>1 DEF Carried, Returned, Looked
  <2>3. OneHolder(p)
    BY DEF Held
  <2> QED BY <1>1, <1>4, <1>5, <2>1, <2>2, <2>3, HolderStays
<1>6. OneHolder(o)'
  <2>1. /\ (Carried(o)' <=> Carried(o)) /\ (Returned(o)' <=> Returned(o))
        /\ (Looked(o)' <=> Looked(o))
    BY <1>1 DEF Carried, Returned, Looked
  <2>2. ~Carried(o) /\ ~Returned(o) /\ ~InQueue(o) /\ ~Looked(o)
    BY <1>2 DEF PlaceStep, PlaceRest, Place, PlaceQueued, PlaceSaved, PlaceEnqueue, OneHolder,
       Arriving
  <2>3. /\ o \in known' /\ mem'[o].state \in {"NEW", "QUEUED", "CANCELLED", "SENT"}
        /\ mem'[o].state = "SENT" => mem[o].state = "SENT" /\ o \in known
    <3>1. CASE Place(o)
      BY <3>1, StageTypes DEF Place, Fresh, Blank
    <3>2. CASE PlaceQueued(o)
      BY <3>2, <1>2, StageTypes DEF PlaceQueued, WithState, OrderRec, InHand, Placing
    <3>3. CASE PlaceSaved(o) \/ PlaceEnqueue(o)
      BY <3>3, <1>2 DEF PlaceSaved, PlaceEnqueue, OneHolder, Arriving, Sendable
    <3> QED BY <3>1, <3>2, <3>3 DEF PlaceStep, PlaceRest
  <2>4. ppc'[o] # "start" /\ (Arriving(o)' => ~InQueue(o)')
    <3>1. CASE PlaceEnqueue(o)
      BY <3>1, StageTypes DEF PlaceEnqueue, Arriving
    <3>2. CASE Place(o) \/ PlaceQueued(o) \/ PlaceSaved(o)
      BY <3>2, <2>2, StageTypes DEF Place, PlaceQueued, PlaceSaved, InQueue
    <3> QED BY <3>1, <3>2 DEF PlaceStep, PlaceRest
  <2>5. SentHere(o)'
    BY <1>1, <1>2, <2>3 DEF SentHere, OneHolder
  <2>6. Sendable(o)'
    BY <2>3 DEF Sendable
  <2> QED BY <2>1, <2>2, <2>4, <2>5, <2>6 DEF OneHolder
<1> QED BY <1>4, <1>5, <1>6 DEF Held

LEMMA RequestHolds ==
  ASSUME TypeOK, Stages, Held, "retry" \notin Events, NEW o \in Orders, RequestStep(o)
  PROVE  Held'
<1>1. UNCHANGED <<known, ppc, wpc, word, rpc, rord, rtodo>>
  BY DEF RequestStep, RequestRest, Cancel, Modify, Retry, Unqueue, CancelReaches,
     CancelAnswered, CancelDropped, ModifyAnswered, RetryRefused, RetryPushed, RequestSaved,
     worker, recon
<1>2. InHand(o) /\ QueuedOnce
  BY DEF Stages, Held
<1>3. mem' = mem \/ mem' = WithState(o, "CANCELLED")
  BY <1>2, RequestMarks
<1>4. \A p \in Orders : mem'[p] = mem[p] \/ mem'[p].state = "CANCELLED"
  BY <1>3, StageTypes DEF WithState, OrderRec
<1>5. \/ queue' = queue
      \/ \E i \in 1..Len(queue) :
           queue' = SubSeq(queue, 1, i - 1) \o SubSeq(queue, i + 1, Len(queue))
  BY <1>2 DEF RequestStep, RequestRest, Cancel, Modify, Retry, Unqueue, CancelReaches,
     CancelAnswered, CancelDropped, ModifyAnswered, RetryRefused, RetryPushed, RequestSaved,
     store, InHand, Asked
<1>6. QueuedOnce' /\ \A p \in Orders : InQueue(p)' => InQueue(p)
  <2>1. CASE queue' = queue
    BY <1>2, <2>1 DEF QueuedOnce, InQueue
  <2>2. ASSUME NEW i \in 1..Len(queue),
               queue' = SubSeq(queue, 1, i - 1) \o SubSeq(queue, i + 1, Len(queue))
        PROVE  QueuedOnce' /\ \A p \in Orders : InQueue(p)' => InQueue(p)
    BY <1>2, <2>2, TakenOut
  <2> QED BY <1>5, <2>1, <2>2
<1>7. ASSUME NEW p \in Orders PROVE OneHolder(p)'
  <2>1. OneHolder(p)
    BY DEF Held
  <2>2. /\ (Carried(p)' <=> Carried(p)) /\ (Returned(p)' <=> Returned(p))
        /\ (Looked(p)' <=> Looked(p))
    BY <1>1 DEF Carried, Returned, Looked
  <2> QED BY <1>1, <1>4, <1>6, <2>1, <2>2, HolderStays
<1> QED BY <1>6, <1>7 DEF Held

LEMMA DequeueHolds ==
  ASSUME TypeOK, Stages, Held, NEW i \in 1..Len(queue), Dequeue(i)
  PROVE  Held'
<1>1. PICK o \in Orders : o = queue[i].order
  BY QueueIs
<1>2. UNCHANGED <<ppc, rpc, rord, rtodo>> /\ wpc = "idle"
  BY DEF Dequeue, recon
<1>3. OneHolder(o) /\ InQueue(o) /\ QueuedOnce
  BY <1>1 DEF Held, InQueue
<1>4. /\ o \in known /\ ppc[o] # "start" /\ ~Arriving(o) /\ ~Carried(o) /\ ~Returned(o)
      /\ ~Looked(o) /\ Sendable(o)
  BY <1>3, Zenon DEF OneHolder, Sendable
<1>5. QueuedOnce' /\ \A p \in Orders : InQueue(p)' => InQueue(p) /\ p # o
  BY <1>1, <1>3, TakenOut DEF Dequeue
<1>6. /\ known' = known
      /\ \/ /\ mem' = [mem EXCEPT ![o] = [mem[o] EXCEPT !.state = "SENT"]]
            /\ wpc' = "saving_sent" /\ word' = o
         \/ mem' = mem /\ UNCHANGED <<wpc, word>>
  <2>1. mem[o] # Blank
    BY <1>4 DEF Sendable, Blank
  <2>2. [mem EXCEPT ![o] = mem[o]] = mem
    BY StageTypes
  <2>3. known \cup {o} = known
    BY <1>4
  <2> QED BY <1>1, <1>4, <2>1, <2>2, <2>3 DEF Dequeue
<1>7. \A p \in Orders : ~Carried(p)
  BY <1>2 DEF Carried, Sending
<1>8. ASSUME NEW p \in Orders, p # o PROVE OneHolder(p)'
  <2>1. mem'[p] = mem[p] /\ OneHolder(p)
    BY <1>6, <1>8, StageTypes DEF Held
  <2>2. ~Carried(p)'
    BY <1>2, <1>6, <1>8 DEF Carried, Sending
  <2>3. (Returned(p)' <=> Returned(p)) /\ (Looked(p)' <=> Looked(p))
    BY <1>2 DEF Returned, Looked
  <2> QED BY <1>2, <1>5, <1>6, <1>7, <2>1, <2>2, <2>3, HolderStays DEF Sending
<1>9. OneHolder(o)'
  <2>1. /\ ~Returned(o)' /\ ~Looked(o)' /\ ~Arriving(o)' /\ ~InQueue(o)' /\ ppc'[o] # "start"
    BY <1>2, <1>4, <1>5 DEF Returned, Looked, Arriving
  <2>2. mem'[o].state = mem[o].state \/ (mem'[o].state = "SENT" /\ wpc' = "saving_sent" /\ word' = o)
    BY <1>6, StageTypes DEF OrderRec
  <2>3. Sendable(o)'
    BY <1>4, <1>6, <2>2 DEF Sendable
  <2>4. SentHere(o)'
    <3>1. mem[o].state # "SENT"
      BY <1>2, <1>3, <1>4 DEF OneHolder, SentHere, Sending
    <3> QED BY <2>2, <3>1 DEF SentHere, Sending
  <2> QED BY <2>1, <2>3, <2>4 DEF OneHolder
<1> QED BY <1>5, <1>8, <1>9 DEF Held

\* The steps of the worker that concern the order w it has taken.
LEMMA WorkerKeepsHolders ==
  ASSUME TypeOK, Held, NEW w \in Orders, w = word, UNCHANGED <<known, ppc, rpc, rord, rtodo>>,
         word' \in {w, NoBid}, \A p \in Orders : p # w => mem'[p] = mem[p],
         QueuedOnce', \A p \in Orders : InQueue(p)' => InQueue(p) \/ p = w,
         OneHolder(w)'
  PROVE  Held'
<1>1. ASSUME NEW p \in Orders, p # w PROVE OneHolder(p)'
  <2>1. ~Carried(p) /\ ~Carried(p)'
    BY <1>1, StageTypes DEF Carried
  <2>2. (Returned(p)' <=> Returned(p)) /\ (Looked(p)' <=> Looked(p)) /\ OneHolder(p)
    BY DEF Returned, Looked, Held
  <2> QED BY <1>1, <2>1, <2>2, HolderStays
<1> QED BY <1>1 DEF Held

LEMMA WorkerHolds ==
  ASSUME TypeOK, Stages, Held, WorkerStep
  PROVE  Held'
<1> USE DEF store, broker, request
<1>0. (wpc # "idle" => word \in Orders) /\ QueuedOnce
  BY StageTypes DEF Held
<1>1. CASE \E i \in 1..Len(queue) : Dequeue(i)
  BY <1>1, DequeueHolds
<1>2. CASE Refuse \/ Unavailable \/ Duplicate \/ InsertFailed \/ Answer
           \/ AnswerLost \/ AnswerDropped
  <2>1. /\ word \in Orders /\ wpc \in {"admitting", "answering"}
        /\ UNCHANGED <<known, queue, ppc, word, rpc, rord, rtodo>>
    BY <1>0, <1>2 DEF Refuse, Unavailable, Duplicate, InsertFailed, Answer, AnswerLost,
       AnswerDropped, recon
  <2>2. PICK w \in Orders : w = word
    BY <2>1
  <2>3. \/ Refused \/ Unknown \/ Transient
        \/ \E b : Accepted(b) \/ Filled(b) \/ Partly(b)
    <3>1. CASE Answer
      BY <3>1, <1>0 DEF Answer, TypeOK, TypeWorker
    <3> QED BY <1>2, <3>1 DEF Refuse, Unavailable, Duplicate, InsertFailed, AnswerLost,
               AnswerDropped
  <2>4. \A p \in Orders : p # w => mem'[p] = mem[p]
    BY <2>2, <2>3, StageTypes
       DEF Refused, Unknown, Transient, Accepted, Filled, Partly, Settle, WithState
  <2>5. ASSUME NEW s, NEW b, NEW next, Settle(s, b, next)
        PROVE  mem'[w].state = s /\ wpc' = next
    BY <2>2, <2>5, StageTypes DEF Settle, OrderRec
  <2>6. /\ mem'[w].state # "SENT" /\ wpc' \notin Sending
        /\ wpc' \in {"saving_remainder", "retrying"} => mem'[w].state = "QUEUED"
        /\ wpc' # "requeueing"
    <3>1. CASE wpc' = "retrying" /\ mem' = WithState(word, "QUEUED")
      BY <2>2, <3>1, StageTypes DEF WithState, OrderRec, Sending
    <3>2. CASE ~(wpc' = "retrying" /\ mem' = WithState(word, "QUEUED"))
      BY <2>3, <2>5, <3>2 DEF Refused, Unknown, Transient, Accepted, Filled, Partly, Sending
    <3> QED BY <3>1, <3>2
  <2>7. QueuedOnce' /\ \A p \in Orders : InQueue(p)' <=> InQueue(p)
    BY <1>0, <2>1 DEF QueuedOnce, InQueue
  <2>8. Carried(w) /\ OneHolder(w)
    BY <2>1, <2>2 DEF Carried, Sending, Held
  <2>9. /\ ~Returned(w)' /\ ~Looked(w)' /\ ~InQueue(w)' /\ ~Arriving(w)' /\ ppc'[w] # "start"
        /\ w \in known'
    BY <2>1, <2>7, <2>8 DEF OneHolder, Returned, Looked, Arriving, Sendable
  <2>10. OneHolder(w)'
    <3>1. SentHere(w)'
      BY <2>6 DEF SentHere
    <3>2. Carried(w)' => Sendable(w)'
      BY <2>6, <2>9 DEF Carried, Sendable
    <3> QED BY <2>9, <3>1, <3>2 DEF OneHolder
  <2> QED BY <2>1, <2>2, <2>4, <2>7, <2>10, WorkerKeepsHolders
<1>3. CASE \/ SentSaved \/ Admit \/ Post \/ WorkerSaved \/ WorkerFinalSaved \/ WorkerDropped
           \/ RemainderSaved
  <2>1. /\ UNCHANGED <<mem, known, queue, ppc, rpc, rord, rtodo>>
        /\ word \in Orders /\ word' \in {word, NoBid}
        /\ wpc \in Sending => wpc' \in Sending /\ word' = word
        /\ \/ /\ wpc \in Sending \cup {"saving_remainder"} /\ word' = word
              /\ wpc' \in Sending \cup {"requeueing"}
           \/ /\ wpc \in {"saving", "saving_final", "dropping"}
              /\ wpc' \in {"idle", "dropping"}
    BY <1>0, <1>3 DEF SentSaved, Admit, Post, WorkerSaved, WorkerFinalSaved, WorkerDropped,
       RemainderSaved, WorkerIdle, recon, Sending
  <2>2. \A p \in Orders : /\ (Carried(p)' <=> Carried(p)) /\ (Returned(p)' <=> Returned(p))
                          /\ (Looked(p)' <=> Looked(p))
    BY <2>1 DEF Carried, Returned, Looked, Sending
  <2>3. QueuedOnce' /\ \A p \in Orders : InQueue(p)' <=> InQueue(p)
    BY <1>0, <2>1 DEF QueuedOnce, InQueue
  <2>4. ASSUME NEW p \in Orders PROVE OneHolder(p)'
    <3>1. OneHolder(p)
      BY DEF Held
    <3> QED BY <2>1, <2>2, <2>3, <3>1, HolderStays
  <2> QED BY <2>3, <2>4 DEF Held
<1>4. CASE RemainderQueued \/ RetryQueued
  <2>1. /\ word \in Orders /\ wpc \in {"requeueing", "retrying"} /\ wpc' \in {"idle", "saving"}
        /\ UNCHANGED <<known, ppc, rpc, rord, rtodo>> /\ word' \in {word, NoBid}
        /\ Push(word, TRUE)
        /\ mem' = mem \/ mem' = [mem EXCEPT ![word].retries = @ + 1]
    BY <1>0, <1>4 DEF RemainderQueued, RetryQueued, WorkerIdle, recon
  <2>2. PICK w \in Orders : w = word
    BY <2>1
  <2>3. Carried(w) /\ OneHolder(w)
    BY <2>1, <2>2 DEF Carried, Held
  <2>4. /\ ~Returned(w) /\ ~Looked(w) /\ ~InQueue(w) /\ ~Arriving(w) /\ ppc[w] # "start"
        /\ Sendable(w) /\ SentHere(w)
    BY <2>3 DEF OneHolder
  <2>5. QueuedOnce' /\ \A p \in Orders : InQueue(p)' => InQueue(p) \/ p = w
    BY <1>0, <2>1, <2>2, <2>4, PushedOnce
  <2>6. /\ mem'[w].state = mem[w].state
        /\ \A p \in Orders : p # w => mem'[p] = mem[p]
    BY <2>1, <2>2, StageTypes DEF OrderRec
  <2>7. /\ ~Returned(w)' /\ ~Looked(w)' /\ ~Arriving(w)' /\ ppc'[w] # "start" /\ ~Carried(w)'
    BY <2>1, <2>4 DEF Returned, Looked, Arriving, Carried, Sending
  <2>8. Sendable(w)' /\ SentHere(w)'
    <3>1. mem[w].state # "SENT"
      BY <2>1, <2>4 DEF Sendable, SentHere, Sending
    <3> QED BY <2>1, <2>4, <2>6, <3>1 DEF Sendable, SentHere
  <2>9. OneHolder(w)'
    BY <2>7, <2>8 DEF OneHolder
  <2> QED BY <2>1, <2>2, <2>5, <2>6, <2>9, WorkerKeepsHolders
<1> QED BY <1>1, <1>2, <1>3, <1>4 DEF WorkerStep

\* The steps of the reconciler leave the others' hands alone.
LEMMA ReconKeepsHolders ==
  ASSUME TypeOK, Held, NEW r \in Orders, UNCHANGED <<ppc, wpc, word>>,
         \A p \in Orders : p # r => mem'[p] = mem[p] /\ (p \in known' <=> p \in known),
         \A p \in Orders : p # r => (Returned(p)' <=> Returned(p)) /\ (Looked(p)' => Looked(p)),
         QueuedOnce', \A p \in Orders : InQueue(p)' => InQueue(p) \/ p = r,
         OneHolder(r)'
  PROVE  Held'
<1>1. ASSUME NEW p \in Orders, p # r PROVE OneHolder(p)'
  <2>1. OneHolder(p) /\ (Carried(p)' <=> Carried(p))
    BY DEF Carried, Held
  <2> QED BY <1>1, <2>1, HolderStays
<1> QED BY <1>1 DEF Held

\* An order that the reconciler looks at is in no other hand.
LEMMA LookedIsFree ==
  ASSUME NEW o \in Orders, OneHolder(o), Looked(o)
  PROVE  /\ ppc[o] # "start" /\ ~Arriving(o) /\ ~Carried(o) /\ ~Returned(o) /\ ~InQueue(o)
         /\ SentHere(o)
BY DEF OneHolder

LEMMA ReconHolds ==
  ASSUME TypeOK, Stages, Held, ReconStep
  PROVE  Held'
<1> USE DEF store, worker, request
<1>0. /\ rpc \notin {"idle", "unknown", "book"} => rord \in Orders
      /\ QueuedOnce /\ NoBid \notin Orders
  BY StageTypes DEF Held
<1>1. CASE Correlate \/ Scan
  <2>1. PICK r \in Orders : r = rord
    BY <1>1, Concludes
  <2>2. /\ UNCHANGED <<known, queue, ppc, wpc, word, rord, rtodo>> /\ rpc \in Asking
        /\ \/ rpc' = "scanning" /\ mem' = mem
           \/ /\ rpc' \in {"saving", "saving_final", "saving_retry"}
              /\ \E v : v.verdict \in Verdicts /\ Conclude(v)
    BY <1>1, Concludes
  <2>3. /\ Looked(r) /\ OneHolder(r) /\ r \in known /\ r \notin rtodo
        /\ mem[r].state \in {"RECONCILING", "CANCELLED"}
    BY <2>1, <2>2 DEF Looked, Held, Stages, InHand, Doubted, Cancelled
  <2>4. ASSUME NEW v, v.verdict \in Verdicts, Conclude(v)
        PROVE  /\ \A p \in Orders : p # r => mem'[p] = mem[p]
               /\ mem'[r].state # "SENT"
               /\ rpc' = "saving_retry" => mem'[r].state = "QUEUED"
    <3>1. mem[r] \in OrderRec
      BY StageTypes
    <3>2. /\ rsnap'.state # "SENT"
          /\ rpc' = "saving_retry" => rsnap'.state = "QUEUED"
      BY <2>1, <2>4, <3>1 DEF Conclude, Verdicts, OrderRec
    <3>3. mem' = [mem EXCEPT ![r] = rsnap']
      BY <2>1, <2>4 DEF Conclude
    <3> QED BY <3>2, <3>3, StageTypes
  <2>5. /\ \A p \in Orders : p # r => mem'[p] = mem[p]
        /\ mem'[r].state # "SENT"
        /\ rpc' = "saving_retry" => mem'[r].state = "QUEUED"
    BY <2>2, <2>3, <2>4
  <2>6. QueuedOnce' /\ \A p \in Orders : InQueue(p)' <=> InQueue(p)
    BY <1>0, <2>2 DEF QueuedOnce, InQueue
  <2>7. \A p \in Orders : p # r => (Returned(p)' <=> Returned(p)) /\ (Looked(p)' <=> Looked(p))
    BY <2>1, <2>2 DEF Returned, Looked
  <2>8. ppc[r] # "start" /\ ~Arriving(r) /\ ~Carried(r) /\ ~InQueue(r)
    BY <2>3, LookedIsFree
  <2>9. ppc'[r] # "start" /\ ~Arriving(r)' /\ ~Carried(r)' /\ ~InQueue(r)'
    BY <2>2, <2>6, <2>8 DEF Arriving, Carried
  <2>10. (Returned(r)' => ~Looked(r)' /\ Sendable(r)') /\ SentHere(r)'
    BY <2>1, <2>2, <2>3, <2>5 DEF Returned, Looked, Asking, Closing, Sendable, SentHere
  <2>11. OneHolder(r)'
    BY <2>9, <2>10 DEF OneHolder
  <2> QED BY <2>2, <2>5, <2>6, <2>7, <2>11, ReconKeepsHolders
<1>2. ASSUME NEW o \in Orders, Investigate(o) \/ ApplyRemote(o) PROVE Held'
  <2>1. /\ UNCHANGED <<known, queue, ppc, wpc, word>> /\ o \in rtodo /\ rtodo' = rtodo \ {o}
        /\ rpc \in {"unknown", "book"}
        /\ \/ UNCHANGED <<mem, rord, rpc>>
           \/ /\ rord' = o /\ rpc' \in {"marking", "saving_partial", "saving_closed"}
              /\ \E s \in {"RECONCILING", "PARTIAL", "FILLED", "REJECTED", "EXPIRED", "CANCELLED"} :
                   mem' = WithState(o, s)
    BY <1>2 DEF Investigate, ApplyRemote, Target
  <2>2. /\ \A p \in Orders : p # o => mem'[p] = mem[p]
        /\ mem' = mem \/ mem'[o].state # "SENT"
    BY <2>1, StageTypes DEF WithState, OrderRec
  <2>3. Looked(o) /\ OneHolder(o)
    BY <2>1 DEF Looked, Held
  <2>4. QueuedOnce' /\ \A p \in Orders : InQueue(p)' <=> InQueue(p)
    BY <1>0, <2>1 DEF QueuedOnce, InQueue
  <2>5. \A p \in Orders : ~Returned(p) /\ ~Returned(p)' /\ (p # o => (Looked(p)' => Looked(p)))
    BY <2>1 DEF Returned, Looked
  <2>6. ppc[o] # "start" /\ ~Arriving(o) /\ ~Carried(o) /\ ~InQueue(o) /\ SentHere(o)
    BY <2>3, LookedIsFree
  <2>7. ppc'[o] # "start" /\ ~Arriving(o)' /\ ~Carried(o)' /\ ~InQueue(o)' /\ SentHere(o)'
    BY <2>1, <2>2, <2>4, <2>6 DEF Arriving, Carried, SentHere
  <2>8. OneHolder(o)'
    BY <2>5, <2>7 DEF OneHolder
  <2> QED BY <2>1, <2>2, <2>4, <2>5, <2>8, ReconKeepsHolders
<1>3. CASE Marked \/ VerdictSaved \/ VerdictDropped \/ PartialSaved \/ ClosedSaved
  <2>1. /\ UNCHANGED <<mem, known, queue, ppc, wpc, word, rtodo>>
        /\ rord \in Orders /\ rord' \in {rord, NoBid}
        /\ rpc' \in {"saving_retry", "requeueing"} <=> rpc \in {"saving_retry", "requeueing"}
        /\ rpc' \in {"saving_retry", "requeueing"} => rord' = rord
        /\ rpc' \in Asking \cup Closing => rpc \in Asking \cup Closing
    BY <1>0, <1>3 DEF Marked, VerdictSaved, VerdictDropped, PartialSaved, ClosedSaved, Asking,
       Closing
  <2>2. QueuedOnce' /\ \A p \in Orders : InQueue(p)' <=> InQueue(p)
    BY <1>0, <2>1 DEF QueuedOnce, InQueue
  <2>3. \A p \in Orders : /\ (Returned(p)' <=> Returned(p)) /\ (Looked(p)' => Looked(p))
                          /\ (Carried(p)' <=> Carried(p))
    BY <1>0, <2>1 DEF Returned, Looked, Carried
  <2>4. ASSUME NEW p \in Orders PROVE OneHolder(p)'
    <3>1. OneHolder(p)
      BY DEF Held
    <3> QED BY <2>1, <2>2, <2>3, <3>1, HolderStays
  <2> QED BY <2>2, <2>4 DEF Held
<1>4. CASE VerdictRequeued
  <2>1. /\ UNCHANGED <<mem, known, ppc, wpc, word, rtodo>> /\ Push(rord, TRUE)
        /\ rord \in Orders /\ rord' = NoBid /\ rpc = "requeueing" /\ rpc' = "unknown"
    BY <1>0, <1>4 DEF VerdictRequeued
  <2>2. PICK r \in Orders : r = rord
    BY <2>1
  <2>3. Returned(r) /\ OneHolder(r)
    BY <2>1, <2>2 DEF Returned, Held
  <2>4. /\ ~Looked(r) /\ ~InQueue(r) /\ ~Arriving(r) /\ ~Carried(r) /\ ppc[r] # "start"
        /\ Sendable(r) /\ SentHere(r)
    BY <2>3 DEF OneHolder
  <2>5. QueuedOnce' /\ \A p \in Orders : InQueue(p)' => InQueue(p) \/ p = r
    BY <1>0, <2>1, <2>2, <2>4, PushedOnce
  <2>6. \A p \in Orders : /\ ~Returned(p)' /\ (p # r => ~Returned(p)) /\ (Looked(p)' => Looked(p))
    BY <1>0, <2>1, <2>2 DEF Returned, Looked, Asking, Closing
  <2>7. /\ ~Arriving(r)' /\ ~Carried(r)' /\ ppc'[r] # "start" /\ Sendable(r)' /\ SentHere(r)'
    BY <2>1, <2>4 DEF Arriving, Carried, Sendable, SentHere
  <2>8. OneHolder(r)'
    BY <2>4, <2>6, <2>7 DEF OneHolder
  <2> QED BY <2>1, <2>2, <2>5, <2>6, <2>8, ReconKeepsHolders
<1>5. CASE Closed
  <2>1. /\ UNCHANGED <<mem, queue, ppc, wpc, word, rtodo>> /\ known' = known \ {rord}
        /\ rord \in Orders /\ rord' = NoBid /\ rpc = "closing" /\ rpc' = "book"
    BY <1>0, <1>5 DEF Closed
  <2>2. PICK r \in Orders : r = rord
    BY <2>1
  <2>3. Looked(r) /\ OneHolder(r)
    BY <2>1, <2>2 DEF Looked, Closing, Held
  <2>4. ppc[r] # "start" /\ ~Arriving(r) /\ ~Carried(r) /\ ~InQueue(r)
    BY <2>3, LookedIsFree
  <2>5. QueuedOnce' /\ \A p \in Orders : InQueue(p)' <=> InQueue(p)
    BY <1>0, <2>1 DEF QueuedOnce, InQueue
  <2>6. \A p \in Orders : ~Returned(p)' /\ ~Returned(p) /\ (Looked(p)' => Looked(p))
    BY <1>0, <2>1 DEF Returned, Looked, Asking, Closing
  <2>7. ~Arriving(r)' /\ ~Carried(r)' /\ ppc'[r] # "start" /\ ~InQueue(r)' /\ SentHere(r)'
    BY <2>1, <2>2, <2>4, <2>5 DEF Arriving, Carried, SentHere
  <2>8. OneHolder(r)'
    BY <2>6, <2>7 DEF OneHolder
  <2> QED BY <2>1, <2>2, <2>5, <2>6, <2>8, ReconKeepsHolders
<1>6. CASE PassBegin \/ FetchBook \/ BookDone
  <2>1. /\ UNCHANGED <<mem, known, queue, ppc, wpc, word, rord>>
        /\ rpc \in {"idle", "unknown", "book"} /\ rpc' \in {"idle", "unknown", "book"}
        /\ \A p \in rtodo' : p \in rtodo
             \/ (p \in known /\ mem[p].state \in {"UNKNOWN", "RECONCILING", "PENDING", "PARTIAL"})
    BY <1>6 DEF PassBegin, FetchBook, BookDone
  <2>2. QueuedOnce' /\ \A p \in Orders : InQueue(p)' <=> InQueue(p)
    BY <1>0, <2>1 DEF QueuedOnce, InQueue
  <2>3. ASSUME NEW p \in Orders PROVE OneHolder(p)'
    <3>1. OneHolder(p)
      BY DEF Held
    <3>2. ~Returned(p) /\ ~Returned(p)' /\ (Carried(p)' <=> Carried(p))
      BY <2>1 DEF Returned, Carried
    <3>3. CASE Looked(p)' => Looked(p)
      BY <2>1, <2>2, <3>1, <3>2, <3>3, HolderStays
    <3>4. CASE Looked(p)' /\ ~Looked(p)
      <4>1. p \in known /\ mem[p].state \in {"UNKNOWN", "RECONCILING", "PENDING", "PARTIAL"}
        BY <2>1, <3>4 DEF Looked, Asking, Closing
      <4>2. ~Sendable(p) /\ ppc[p] # "start"
        BY <4>1 DEF Sendable, Stages, InHand, Placing
      <4>3. ~Arriving(p) /\ ~Carried(p) /\ ~InQueue(p) /\ SentHere(p)
        BY <3>1, <4>2 DEF OneHolder
      <4>4. ~Arriving(p)' /\ ~Carried(p)' /\ ~InQueue(p)' /\ SentHere(p)' /\ ppc'[p] # "start"
        BY <2>1, <2>2, <3>2, <4>2, <4>3 DEF Arriving, SentHere
      <4> QED BY <3>2, <4>4 DEF OneHolder
    <3> QED BY <3>3, <3>4
  <2> QED BY <2>2, <2>3 DEF Held
<1> QED BY <1>1, <1>2, <1>3, <1>4, <1>5, <1>6 DEF ReconStep

LEMMA InitHolds == Init => Held
<1> SUFFICES ASSUME Init PROVE Held
  OBVIOUS
<1>1. queue = <<>> /\ 1..Len(queue) = {}
  BY DEF Init
<1>2. QueuedOnce /\ \A o \in Orders : ~InQueue(o)
  BY <1>1 DEF QueuedOnce, InQueue
<1>3. ASSUME NEW o \in Orders PROVE OneHolder(o)
  BY <1>2 DEF Init, OneHolder, Arriving, Carried, Returned, Looked, Sendable, SentHere, Sending,
     Asking, Closing
<1> QED BY <1>2, <1>3 DEF Held

LEMMA NextHolds ==
  ASSUME "crash" \notin Events, "retry" \notin Events
  PROVE  TypeOK /\ Stages /\ Held /\ [Next]_vars => Held'
<1> SUFFICES ASSUME TypeOK, Stages, Held, [Next]_vars PROVE Held'
  OBVIOUS
<1>1. CASE UNCHANGED vars \/ BrokerStep
  <2>1. UNCHANGED <<mem, known, queue, ppc, wpc, word, rpc, rord, rtodo>>
    BY <1>1 DEF vars, store, worker, recon, BrokerStep, BrokerShows, BrokerMoves
  <2> QED BY <2>1 DEF Held, QueuedOnce, OneHolder, InQueue, Arriving, Carried, Returned, Looked,
             Sendable, SentHere
<1>2. ~Restart
  BY DEF Restart
<1> QED BY <1>1, <1>2, PlaceHolds, RequestHolds, WorkerHolds, ReconHolds DEF Next

LEMMA AlwaysHeld ==
  ASSUME "crash" \notin Events, "retry" \notin Events
  PROVE  Spec => [](TypeOK /\ SendInv /\ Stages /\ Held)
<1>1. Init => Held
  BY InitHolds
<1>2. TypeOK /\ SendInv /\ Stages /\ Held /\ [Next]_vars => Held'
  BY NextHolds
<1> QED BY <1>1, <1>2, AlwaysStages, PTL DEF Spec

\* While nothing restarts and retry_order is not called, an order in SENT is the one the
\* worker has in hand: no order is left in SENT, which only _process_queue moves on.
THEOREM SentIsCarried ==
  ASSUME "crash" \notin Events, "retry" \notin Events
  PROVE  Spec => []SentIsWorkedOn
<1>1. TypeOK /\ Stages /\ Held => SentIsWorkedOn
  BY DEF Held, OneHolder, SentHere, SentIsWorkedOn, WorkerOn, TypeOK, TypeOrders, Sending
<1> QED BY <1>1, AlwaysHeld, PTL

--------------------------------------------------------------------------------
(* A cancel is final.  Once an order is cancelled while the worker does not have it and  *)
(* the broker has no order of its, nothing sends it: either its claim is in the orders   *)
(* table, behind which no second attempt is sent, or it stays CANCELLED, in which        *)
(* _process_queue drops it.                                                              *)

Barred(o) ==
  /\ posts[o] = 0
  /\ ~(word = o /\ wpc = "posting")
  /\ audit[o].status = "none" =>
       mem[o].state = "CANCELLED" /\ ~(word = o /\ wpc \in Sending)

\* Nobody but the worker moves an unclaimed order out of CANCELLED: what the reconciler
\* investigates has been claimed, and the book is only applied to open orders.
LEMMA CancelledStays ==
  ASSUME TypeOK, Stages, BudgetInv, "retry" \notin Events,
         NEW o \in Orders, audit[o].status = "none", mem[o].state = "CANCELLED",
         \/ \E p \in Orders : PlaceStep(p) \/ RequestStep(p)
         \/ ReconStep \/ BrokerStep
  PROVE  mem'[o].state = "CANCELLED"
<1> USE DEF store, worker, request
<1>0. InHand(o) /\ BudgetOf(o) /\ ~Claimed(o)
  BY DEF Stages, BudgetInv, Claimed
<1>1. ASSUME NEW p \in Orders, PlaceStep(p) PROVE mem'[o].state = "CANCELLED"
  <2>1. CASE p = o
    <3>1. ppc[o] \notin {"start", "saving_new"}
      BY <1>0 DEF InHand, Placing, Blank
    <3> QED BY <1>1, <2>1, <3>1 DEF PlaceStep, PlaceRest, Place, PlaceQueued, PlaceSaved,
               PlaceEnqueue
  <2>2. CASE p # o
    BY <1>1, <2>2, StageTypes DEF PlaceStep, PlaceRest, Place, PlaceQueued, PlaceSaved,
       PlaceEnqueue, WithState
  <2> QED BY <2>1, <2>2
<1>2. ASSUME NEW p \in Orders, RequestStep(p) PROVE mem'[o].state = "CANCELLED"
  <2>1. mem' = mem \/ mem' = WithState(p, "CANCELLED")
    BY <1>2, RequestMarks DEF Stages
  <2>2. CASE mem' = mem
    BY <2>2
  <2>3. CASE mem' = WithState(p, "CANCELLED")
    <3>1. WithState(p, "CANCELLED")[o].state = "CANCELLED"
      BY StageTypes DEF WithState, OrderRec
    <3> QED BY <2>3, <3>1
  <2> QED BY <2>1, <2>2, <2>3
<1>3. CASE Correlate \/ Scan
  <2>1. rord # o /\ rord \in Orders
    BY <1>0, <1>3, Concludes DEF BudgetOf
  <2>2. \A v : Conclude(v) => mem'[o] = mem[o]
    BY <2>1, StageTypes DEF Conclude
  <2> QED BY <1>3, <2>2, Concludes
<1>4. ASSUME NEW p \in Orders, Investigate(p) PROVE mem'[o].state = "CANCELLED"
  <2>1. p # o
    BY <1>0, <1>4 DEF Investigate, BudgetOf, Doubting
  <2> QED BY <1>4, <2>1, StageTypes DEF Investigate, WithState
<1>5. ASSUME NEW p \in Orders, ApplyRemote(p) PROVE mem'[o].state = "CANCELLED"
  <2>1. \A t : ~CanTransition("CANCELLED", t)
    BY DEF CanTransition, Transitions, States
  <2>2. mem' = mem \/ (p # o /\ \E t : mem' = WithState(p, t))
    BY <1>5, <2>1 DEF ApplyRemote
  <2> QED BY <2>2, StageTypes DEF WithState
<1>6. CASE BrokerStep
  BY <1>6 DEF BrokerStep, BrokerShows, BrokerMoves
<1>7. CASE ReconStep /\ ~(Correlate \/ Scan) /\ ~(\E p \in Orders : Investigate(p) \/ ApplyRemote(p))
  BY <1>7 DEF ReconStep, PassBegin, Marked, VerdictSaved, VerdictDropped, VerdictRequeued,
     FetchBook, PartialSaved, ClosedSaved, Closed, BookDone
<1> QED BY <1>1, <1>2, <1>3, <1>4, <1>5, <1>6, <1>7

\* The worker sends nothing that is barred.
LEMMA WorkerBarred ==
  ASSUME TypeOK, Held, NEW o \in Orders, Barred(o), WorkerStep
  PROVE  Barred(o)'
<1> USE DEF store, broker, request
<1>0. (wpc # "idle" => word \in Orders) /\ ClaimStays /\ NoBid \notin Orders
  BY StageTypes, WorkerKeepsClaims
<1>1. ASSUME NEW i \in 1..Len(queue), Dequeue(i) PROVE Barred(o)'
  <2>1. UNCHANGED <<posts, audit>> /\ wpc = "idle" /\ wpc' \in {"idle", "saving_sent"}
    BY <1>1 DEF Dequeue
  <2>2. PICK p \in Orders : p = queue[i].order
    BY QueueIs
  <2>3. p \in known
    BY <2>2 DEF Held, OneHolder, Sendable, InQueue
  <2>4. CASE p = o /\ audit[o].status = "none"
    <3>1. mem[o].state = "CANCELLED" /\ ~CanTransition("CANCELLED", "SENT") /\ mem[o] # Blank
      BY <2>4 DEF Barred, CanTransition, Transitions, States, Blank
    <3>2. mem' = [mem EXCEPT ![o] = mem[o]] /\ wpc' = wpc
      BY <1>1, <2>2, <2>3, <2>4, <3>1 DEF Dequeue
    <3> QED BY <2>1, <3>1, <3>2, StageTypes DEF Barred, Sending
  <2>5. CASE p # o
    <3>1. mem'[o] = mem[o] /\ (wpc' = "idle" \/ word' = p)
      BY <1>1, <2>1, <2>2, <2>5, StageTypes DEF Dequeue
    <3> QED BY <2>1, <2>5, <3>1 DEF Barred, Sending
  <2> QED BY <2>1, <2>4, <2>5 DEF Barred
<1>2. CASE word = o
  <2>1. CASE Admit
    BY <1>2, <2>1 DEF Admit, Barred, Sending
  <2>2. CASE Post
    BY <1>2, <2>2 DEF Post, Barred
  <2>3. CASE WorkerStep /\ ~Admit /\ ~Post /\ ~(\E i \in 1..Len(queue) : Dequeue(i))
    <3>a. posts' = posts /\ wpc' # "posting"
      BY <2>3 DEF WorkerStep, SentSaved, Refuse, Unavailable, Duplicate, InsertFailed, Answer,
         AnswerLost, AnswerDropped, WorkerSaved, WorkerFinalSaved, WorkerDropped,
         RemainderSaved, RemainderQueued, RetryQueued, WorkerIdle, Refused, Unknown, Accepted,
         Filled, Partly, Transient, Settle, TypeOK, TypeWorker
    <3>b. CASE wpc \in Sending
      BY <1>0, <1>2, <3>a, <3>b DEF Barred, ClaimStays
    <3>1. CASE wpc \notin Sending
      <4>1. /\ wpc' \notin Sending
            /\ mem' = mem \/ mem' = [mem EXCEPT ![word].retries = @ + 1]
        BY <2>3, <3>1 DEF WorkerStep, SentSaved, Refuse, Unavailable, Duplicate, InsertFailed,
           Answer, AnswerLost, AnswerDropped, WorkerSaved, WorkerFinalSaved, WorkerDropped,
           RemainderSaved, RemainderQueued, RetryQueued, WorkerIdle, Sending
      <4>2. mem'[o].state = mem[o].state
        BY <1>2, <4>1, StageTypes DEF OrderRec
      <4> QED BY <1>0, <3>a, <4>1, <4>2 DEF Barred, ClaimStays
    <3> QED BY <3>b, <3>1
  <2> QED BY <1>1, <2>1, <2>2, <2>3
<1>3. CASE word # o /\ ~(\E i \in 1..Len(queue) : Dequeue(i))
  <2>1. word' # o /\ word \in Orders /\ posts'[o] = posts[o]
    BY <1>0, <1>3 DEF WorkerStep, SentSaved, Refuse, Unavailable, Admit, Post, Duplicate,
       InsertFailed, Answer, AnswerLost, AnswerDropped, WorkerSaved, WorkerFinalSaved,
       WorkerDropped, RemainderSaved, RemainderQueued, RetryQueued, WorkerIdle, TypeOK, TypeBroker
  <2>2. mem'[o] = mem[o]
    <3>1. CASE Refuse \/ Unavailable \/ Duplicate \/ InsertFailed \/ Answer \/ AnswerLost
               \/ AnswerDropped
      <4>1. \/ Refused \/ Unknown \/ Transient
            \/ \E b : Accepted(b) \/ Filled(b) \/ Partly(b)
        <5>1. CASE Answer
          BY <5>1, <1>0 DEF Answer, TypeOK, TypeWorker
        <5> QED BY <3>1, <5>1 DEF Refuse, Unavailable, Duplicate, InsertFailed, AnswerLost,
                   AnswerDropped
      <4> QED BY <1>3, <4>1, StageTypes
              DEF Refused, Unknown, Transient, Accepted, Filled, Partly, Settle, WithState
    <3>2. CASE RetryQueued
      BY <1>3, <3>2, StageTypes DEF RetryQueued
    <3>3. CASE UNCHANGED mem
      BY <3>3
    <3> QED BY <1>3, <3>1, <3>2, <3>3 DEF WorkerStep, SentSaved, Admit, Post, WorkerSaved,
               WorkerFinalSaved, WorkerDropped, RemainderSaved, RemainderQueued
  <2> QED BY <1>0, <2>1, <2>2 DEF Barred, ClaimStays
<1> QED BY <1>1, <1>2, <1>3

LEMMA NextBarred ==
  ASSUME "crash" \notin Events, "retry" \notin Events, NEW o \in Orders
  PROVE  TypeOK /\ Stages /\ BudgetInv /\ Held /\ Barred(o) /\ [Next]_vars => Barred(o)'
<1> SUFFICES ASSUME TypeOK, Stages, BudgetInv, Held, Barred(o), [Next]_vars PROVE Barred(o)'
  OBVIOUS
<1>1. CASE UNCHANGED vars
  BY <1>1 DEF vars, store, broker, worker, Barred
<1>2. CASE (\E p \in Orders : PlaceStep(p) \/ RequestStep(p)) \/ ReconStep \/ BrokerStep
  <2>1. UNCHANGED <<posts, wpc, word>> /\ ClaimStays
    BY <1>2, OtherSteps
  <2>2. audit[o].status = "none" => mem'[o].state = "CANCELLED"
    BY <1>2, CancelledStays DEF Barred
  <2> QED BY <2>1, <2>2 DEF Barred, ClaimStays
<1>3. ~Restart
  BY DEF Restart
<1> QED BY <1>1, <1>2, <1>3, WorkerBarred DEF Next

\* An order cancelled while no attempt is in flight and none has reached the broker never
\* reaches it (cancel_order against _process_queue and _reconcile_one_unknown), as long as
\* nothing restarts and retry_order is not called.
THEOREM CancelledIsNeverSent ==
  ASSUME "crash" \notin Events, "retry" \notin Events
  PROVE  Spec => CancelIsFinal
<1> DEFINE Cut(o) == mem[o].state = "CANCELLED" /\ ~WorkerOn(o) /\ posts[o] = 0
<1>1. ASSUME NEW o \in Orders PROVE Spec => [](Cut(o) => [](posts[o] = 0))
  <2>1. Cut(o) => Barred(o)
    BY NoBidAssumption DEF Barred, WorkerOn, Sending
  <2>2. TypeOK /\ Stages /\ BudgetInv /\ Held /\ Barred(o) /\ [Next]_vars => Barred(o)'
    BY NextBarred
  <2>3. Barred(o) => posts[o] = 0
    BY DEF Barred
  <2> HIDE DEF Cut
  <2> QED BY <2>1, <2>2, <2>3, AlwaysHeld, AlwaysBudgeted, PTL DEF Spec
<1>2. Spec => \A o \in Orders : [](Cut(o) => [](posts[o] = 0))
  BY <1>1
<1> QED BY <1>2 DEF CancelIsFinal

--------------------------------------------------------------------------------
(* A fill is final.  A cancel is asked of the broker about the broker order the object    *)
(* names, and that name is given once: by the answer to the only POST or by the verdict   *)
(* on a lost one.  So when the broker says "cancelled", the order it says so of is the    *)
(* one a fill would have been reported for.                                              *)

Pledged(o) ==
  /\ mem[o].bid # NoBid => audit[o].status # "none"
  /\ word = o /\ wpc \in {"posting", "answering"} => mem[o].bid = NoBid
  /\ rord = o /\ rpc = "scanning" => mem[o].bid = NoBid
  /\ upc[o] = "asking" => mem[o].bid \in Orders /\ usnap[o].bid = mem[o].bid
  /\ upc[o] = "asked_done" => mem[o].bid \in Orders /\ brk[mem[o].bid] = "cancelled"

BidInv == \A o \in Orders : Pledged(o)

\* Who gives an order the name of its broker order.
Named(o) == \/ word = o /\ wpc = "answering" /\ wpc' \notin {"posting", "answering"}
            \/ rord = o /\ rpc \in {"correlating", "scanning"} /\ rpc' = "saving"

KeepsBid(o) == mem'[o].bid = mem[o].bid
NamesOnce(o) == KeepsBid(o) \/ (Named(o) /\ mem[o].bid = NoBid)

\* What a state or a count is written into keeps its name.
LEMMA WritesKeepBids ==
  ASSUME TypeOK, NEW o \in Orders
  PROVE  /\ \A s : \A p \in Orders : WithState(o, s)[p].bid = mem[p].bid
         /\ \A s : [mem[o] EXCEPT !.state = s].bid = mem[o].bid
         /\ \A p \in Orders : [mem EXCEPT ![o].retries = @ + 1][p].bid = mem[p].bid
<1>1. mem \in [Orders -> OrderRec] /\ \A p \in Orders : mem[p] \in OrderRec
  BY FillTypes
<1> QED BY <1>1 DEF WithState, OrderRec

LEMMA CallersName ==
  ASSUME TypeOK, Stages, "retry" \notin Events, NEW p \in Orders, PlaceStep(p) \/ RequestStep(p)
  PROVE  \A o \in Orders : KeepsBid(o)
<1> USE DEF KeepsBid, NamesOnce
<1>1. CASE Place(p)
  <2>1. mem[p].bid = NoBid /\ Fresh("NEW").bid = NoBid
    BY <1>1 DEF Place, Stages, InHand, Placing, Fresh, Blank
  <2> QED BY <1>1, <2>1, FillTypes DEF Place
<1>2. CASE PlaceRest(p)
  <2>1. mem' = mem \/ mem' = WithState(p, "QUEUED")
    BY <1>2 DEF PlaceRest, PlaceQueued, PlaceSaved, PlaceEnqueue
  <2> QED BY <2>1, WritesKeepBids
<1>3. CASE RequestStep(p)
  <2>1. mem' = mem \/ mem' = WithState(p, "CANCELLED")
    BY <1>3, RequestMarks DEF Stages
  <2> QED BY <2>1, WritesKeepBids
<1> HIDE DEF KeepsBid, NamesOnce
<1> QED BY <1>1, <1>2, <1>3 DEF PlaceStep

LEMMA WorkerNames ==
  ASSUME TypeOK, Held, "audit" \notin Events, WorkerStep
  PROVE  \A o \in Orders : KeepsBid(o) \/ Named(o)
<1> USE DEF KeepsBid, NamesOnce
<1>0. wpc # "idle" => word \in Orders
  BY FillTypes
<1>1. ASSUME NEW i \in 1..Len(queue), Dequeue(i) PROVE \A o \in Orders : KeepsBid(o)
  <2>1. PICK p \in Orders : p = queue[i].order
    BY QueueIs
  <2>2. p \in known
    BY <2>1 DEF Held, OneHolder, Sendable, InQueue
  <2>3. mem' \in {mem, [mem EXCEPT ![p] = mem[p]],
                  [mem EXCEPT ![p] = [mem[p] EXCEPT !.state = "SENT"]]}
    BY <1>1, <2>1, <2>2 DEF Dequeue
  <2>4. [mem[p] EXCEPT !.state = "SENT"].bid = mem[p].bid /\ mem \in [Orders -> OrderRec]
    BY WritesKeepBids, FillTypes
  <2>5. ASSUME NEW r, r.bid = mem[p].bid, mem' = [mem EXCEPT ![p] = r]
        PROVE  \A o \in Orders : mem'[o].bid = mem[o].bid
    BY <2>4, <2>5
  <2>6. CASE mem' = mem
    BY <2>6
  <2> QED BY <2>3, <2>4, <2>5, <2>6
<1>2. ASSUME NEW s, NEW next, Settle(s, mem[word].bid, next), word \in Orders
      PROVE  \A o \in Orders : KeepsBid(o)
  <2>1. \A o \in Orders : mem[o] \in OrderRec
    BY FillTypes
  <2> QED BY <1>2, <2>1, FillTypes DEF Settle, OrderRec
<1>3. CASE Refuse \/ Unavailable \/ AnswerLost \/ AnswerDropped
  <2>1. word \in Orders /\ (Refused \/ Transient \/ Unknown)
    BY <1>0, <1>3 DEF Refuse, Unavailable, AnswerLost, AnswerDropped
  <2>2. CASE mem' = WithState(word, "QUEUED")
    BY <2>1, <2>2, WritesKeepBids
  <2> QED BY <1>2, <2>1, <2>2 DEF Refused, Transient, Unknown
<1>4. CASE Answer
  <2>1. word \in Orders /\ wpc = "answering"
        /\ (Refused \/ Accepted(word) \/ Partly(word) \/ Filled(word))
    BY <1>0, <1>4 DEF Answer, TypeOK, TypeWorker
  <2>2. PICK s, b, next : Settle(s, b, next) /\ next \notin {"posting", "answering"}
    BY <2>1 DEF Refused, Accepted, Partly, Filled
  <2>3. wpc' \notin {"posting", "answering"} /\ \A o \in Orders : o # word => mem'[o] = mem[o]
    BY <2>2, FillTypes DEF Settle
  <2> QED BY <2>1, <2>3 DEF Named
<1>5. CASE RetryQueued
  BY <1>0, <1>5, WritesKeepBids DEF RetryQueued
<1>6. ~Duplicate /\ ~InsertFailed
  BY DEF Duplicate, InsertFailed
<1>7. CASE SentSaved \/ Admit \/ Post \/ WorkerSaved \/ WorkerFinalSaved \/ WorkerDropped
           \/ RemainderSaved \/ RemainderQueued
  <2>1. mem' = mem
    BY <1>7 DEF SentSaved, Admit, Post, WorkerSaved, WorkerFinalSaved, WorkerDropped,
       RemainderSaved, RemainderQueued
  <2> QED BY <2>1
<1>8. CASE \E i \in 1..Len(queue) : Dequeue(i)
  BY <1>1, <1>8
<1> HIDE DEF KeepsBid, NamesOnce
<1> QED BY <1>3, <1>4, <1>5, <1>6, <1>7, <1>8 DEF WorkerStep

\* A verdict names a broker order only where there is no name yet.
LEMMA ReconNames ==
  ASSUME TypeOK, BidInv, ReconStep
  PROVE  \A o \in Orders : NamesOnce(o)
<1> USE DEF KeepsBid, NamesOnce
<1>1. CASE Correlate \/ Scan
  <2>1. rord \in Orders /\ rpc \in {"correlating", "scanning"}
    BY <1>1, Concludes DEF Correlate, Scan
  <2>2. mem[rord] \in OrderRec
    BY <2>1, FillTypes
  <2>3. \/ mem' = mem
        \/ \E v : /\ Conclude(v) /\ v.verdict \in Verdicts
                  /\ mem[rord].bid # NoBid /\ v.verdict = "ACCEPTED" => v.id = mem[rord].bid
    <3>1. CASE Scan
      <4>1. mem[rord].bid = NoBid
        BY <2>1, <3>1 DEF Scan, BidInv, Pledged
      <4> QED BY <3>1, <4>1, ReconcileJudges DEF Scan
    <3>2. CASE Correlate
      <4>1. \A b, c, a, n, g : b # NoBid =>
              Reconcile(b, c, a, n, g) = [verdict |-> "ACCEPTED", id |-> b]
        BY DEF Reconcile
      <4>2. CASE mem[rord].bid # NoBid
        <5>1. PICK v : /\ Conclude(v)
                       /\ v = Reconcile(mem[rord].bid, Found({rord}), Failed, mem[rord].absent, FALSE)
          BY <3>2, <4>2 DEF Correlate
        <5>2. v = [verdict |-> "ACCEPTED", id |-> mem[rord].bid]
          BY <4>1, <4>2, <5>1, Zenon
        <5>3. v.verdict \in Verdicts /\ (v.verdict = "ACCEPTED" => v.id = mem[rord].bid)
          BY <5>2 DEF Verdicts
        <5> QED BY <5>1, <5>3, Zenon
      <4>3. CASE mem[rord].bid = NoBid
        BY <3>2, <4>3, ReconcileJudges DEF Correlate
      <4> QED BY <4>2, <4>3
    <3> QED BY <1>1, <3>1, <3>2
  <2>4. ASSUME NEW v, Conclude(v), v.verdict \in Verdicts,
               mem[rord].bid # NoBid /\ v.verdict = "ACCEPTED" => v.id = mem[rord].bid
        PROVE  \A o \in Orders : NamesOnce(o)
    <3>1. \A o \in Orders : o # rord => mem'[o] = mem[o]
      BY <2>1, <2>4, FillTypes DEF Conclude
    <3>2. mem'[rord] = rsnap'
      BY <2>1, <2>4, FillTypes DEF Conclude
    <3>3. CASE v.verdict = "ACCEPTED"
      <4>1. rsnap' = [mem[rord] EXCEPT !.state = "PENDING", !.bid = v.id, !.absent = 0]
            /\ rpc' = "saving"
        BY <2>4, <3>3 DEF Conclude
      <4>2. rsnap'.bid = v.id
        BY <2>2, <4>1 DEF OrderRec
      <4> QED BY <2>1, <2>4, <3>1, <3>2, <3>3, <4>1, <4>2 DEF Named
    <3>4. CASE v.verdict \in Verdicts \ {"ACCEPTED"}
      <4>1. rsnap'.bid = mem[rord].bid
        BY <2>2, <2>4, <3>4 DEF Conclude, OrderRec, Verdicts
      <4> QED BY <3>1, <3>2, <4>1
    <3> QED BY <2>4, <3>3, <3>4
  <2> QED BY <2>3, <2>4
<1>2. ASSUME NEW p \in Orders, Investigate(p) PROVE \A o \in Orders : KeepsBid(o)
  BY <1>2, WritesKeepBids DEF Investigate
<1>3. ASSUME NEW p \in Orders, ApplyRemote(p) PROVE \A o \in Orders : KeepsBid(o)
  BY <1>3, WritesKeepBids DEF ApplyRemote
<1>4. CASE \E p \in Orders : Investigate(p) \/ ApplyRemote(p)
  BY <1>2, <1>3, <1>4
<1>5. CASE PassBegin \/ Marked \/ VerdictSaved \/ VerdictDropped \/ VerdictRequeued \/ FetchBook
           \/ PartialSaved \/ ClosedSaved \/ Closed \/ BookDone
  <2>1. mem' = mem
    BY <1>5 DEF PassBegin, Marked, VerdictSaved, VerdictDropped, VerdictRequeued, FetchBook,
       PartialSaved, ClosedSaved, Closed, BookDone
  <2> QED BY <2>1
<1> HIDE DEF KeepsBid, NamesOnce
<1> QED BY <1>1, <1>4, <1>5 DEF ReconStep

LEMMA BidSteps ==
  ASSUME TypeOK, Stages, Held, BidInv, "crash" \notin Events, "retry" \notin Events,
         "audit" \notin Events, [Next]_vars
  PROVE  \A o \in Orders : NamesOnce(o)
<1> USE DEF KeepsBid, NamesOnce
<1>0. \A o \in Orders : KeepsBid(o) => NamesOnce(o)
  OBVIOUS
<1>1. CASE WorkerStep
  <2>1. ASSUME NEW o \in Orders, Named(o) PROVE NamesOnce(o)
    <3>1. CASE word = o /\ wpc = "answering"
      BY <2>1, <3>1 DEF BidInv, Pledged
    <3>2. CASE rord = o /\ rpc' = "saving" /\ rpc \in {"correlating", "scanning"}
      BY <1>1, <3>2 DEF WorkerStep, Dequeue, SentSaved, Refuse, Unavailable, Admit, Duplicate,
         InsertFailed, Post, Answer, AnswerLost, AnswerDropped, WorkerSaved, WorkerFinalSaved,
         WorkerDropped, RemainderSaved, RemainderQueued, RetryQueued, recon
    <3> QED BY <2>1, <3>1, <3>2 DEF Named
  <2> QED BY <1>1, <2>1, WorkerNames
<1>2. CASE BrokerStep \/ UNCHANGED vars
  <2>1. mem' = mem
    BY <1>2 DEF BrokerStep, BrokerShows, BrokerMoves, vars
  <2> QED BY <2>1
<1>3. ~Restart
  BY DEF Restart
<1> HIDE DEF KeepsBid, NamesOnce
<1>4. CASE \E p \in Orders : PlaceStep(p) \/ RequestStep(p)
  BY <1>4, <1>0, CallersName
<1>5. CASE ReconStep
  BY <1>5, ReconNames
<1> QED BY <1>1, <1>2, <1>3, <1>4, <1>5 DEF Next

\* What has been cancelled at the broker stays so: only an order that the broker does not
\* have yet is sent.
LEMMA CancelledAtBroker ==
  ASSUME TypeOK, SendInv, FillInv, [Next]_vars
  PROVE  \A b \in Orders : brk[b] = "cancelled" => brk'[b] = "cancelled"
<1> USE DEF broker
<1>1. CASE Post
  <2>1. word \in Orders /\ brk[word] = "none"
    BY <1>1, FillTypes DEF Post, SendInv, PostIsClaimed, FillInv
  <2> QED BY <1>1, <2>1, FillTypes DEF Post
<1>2. ASSUME NEW o \in Orders, CancelReaches(o)
      PROVE  \A b \in Orders : brk[b] = "cancelled" => brk'[b] = "cancelled"
  BY <1>2, FillTypes DEF CancelReaches
<1>3. CASE BrokerStep
  BY <1>3, FillTypes DEF BrokerStep, BrokerShows, BrokerMoves, Live
<1>4. CASE brk' = brk
  BY <1>4
<1>5. ASSUME NEW o \in Orders, PlaceStep(o) \/ (RequestStep(o) /\ ~CancelReaches(o))
      PROVE  brk' = brk
  BY <1>5 DEF PlaceStep, PlaceRest, Place, PlaceQueued, PlaceSaved, PlaceEnqueue, RequestStep,
     RequestRest, Cancel, Modify, Retry, Unqueue, CancelAnswered, CancelDropped, ModifyAnswered,
     RetryRefused, RetryPushed, RequestSaved
<1>6. CASE (WorkerStep /\ ~Post) \/ Restart \/ UNCHANGED vars
  <2>1. brk' = brk
    BY <1>6 DEF WorkerStep, Dequeue, SentSaved, Refuse, Unavailable, Admit, Duplicate,
       InsertFailed, Answer, AnswerLost, AnswerDropped, WorkerSaved, WorkerFinalSaved,
       WorkerDropped, RemainderSaved, RemainderQueued, RetryQueued, Restart, vars
  <2> QED BY <2>1
<1>7. CASE ReconStep
  <2>1. brk' = brk
    BY <1>7 DEF ReconStep, PassBegin, Marked, Correlate, Scan, VerdictSaved, VerdictDropped,
       VerdictRequeued, FetchBook, PartialSaved, ClosedSaved, Closed, BookDone, Investigate,
       ApplyRemote
  <2> QED BY <2>1
<1>8. CASE \E o \in Orders : PlaceStep(o) \/ RequestStep(o)
  BY <1>2, <1>4, <1>5, <1>8
<1> QED BY <1>1, <1>3, <1>6, <1>7, <1>8 DEF Next

\* The reconciler and the requests are moved by their own steps only.
LEMMA CalmRecon ==
  ASSUME "crash" \notin Events, [Next]_vars, ~ReconStep
  PROVE  UNCHANGED <<rpc, rord>>
<1> USE DEF recon
<1>1. ASSUME NEW p \in Orders, PlaceStep(p) \/ RequestStep(p) PROVE UNCHANGED <<rpc, rord>>
  BY <1>1 DEF PlaceStep, PlaceRest, Place, PlaceQueued, PlaceSaved, PlaceEnqueue, RequestStep,
     RequestRest, Cancel, Modify, Retry, Unqueue, CancelReaches, CancelAnswered, CancelDropped,
     ModifyAnswered, RetryRefused, RetryPushed, RequestSaved
<1>2. CASE WorkerStep
  BY <1>2 DEF WorkerStep, Dequeue, SentSaved, Refuse, Unavailable, Admit, Duplicate,
     InsertFailed, Post, Answer, AnswerLost, AnswerDropped, WorkerSaved, WorkerFinalSaved,
     WorkerDropped, RemainderSaved, RemainderQueued, RetryQueued
<1>3. CASE BrokerStep \/ UNCHANGED vars
  BY <1>3 DEF BrokerStep, BrokerShows, BrokerMoves, vars
<1>4. ~Restart
  BY DEF Restart
<1> QED BY <1>1, <1>2, <1>3, <1>4 DEF Next

LEMMA CalmRequests ==
  ASSUME "crash" \notin Events, [Next]_vars, ~(\E p \in Orders : RequestStep(p))
  PROVE  UNCHANGED <<upc, usnap>>
<1> USE DEF request
<1>1. ASSUME NEW p \in Orders, PlaceStep(p) PROVE UNCHANGED <<upc, usnap>>
  BY <1>1 DEF PlaceStep, PlaceRest, Place, PlaceQueued, PlaceSaved, PlaceEnqueue
<1>2. CASE WorkerStep
  BY <1>2 DEF WorkerStep, Dequeue, SentSaved, Refuse, Unavailable, Admit, Duplicate,
     InsertFailed, Post, Answer, AnswerLost, AnswerDropped, WorkerSaved, WorkerFinalSaved,
     WorkerDropped, RemainderSaved, RemainderQueued, RetryQueued
<1>3. CASE ReconStep
  BY <1>3 DEF ReconStep, PassBegin, Marked, Correlate, Scan, VerdictSaved, VerdictDropped,
     VerdictRequeued, FetchBook, PartialSaved, ClosedSaved, Closed, BookDone, Investigate,
     ApplyRemote
<1>4. CASE BrokerStep \/ UNCHANGED vars
  BY <1>4 DEF BrokerStep, BrokerShows, BrokerMoves, vars
<1>5. ~Restart
  BY DEF Restart
<1> QED BY <1>1, <1>2, <1>3, <1>4, <1>5 DEF Next

\* What a request on an order leaves: a cancel is asked about the broker order the object
\* names, and an answer "cancelled" is about that one.
LEMMA RequestPledges ==
  ASSUME TypeOK, Stages, BidInv, "retry" \notin Events, NEW p \in Orders, RequestStep(p)
  PROVE  \A o \in Orders :
           /\ upc'[o] = "asking" => mem[o].bid \in Orders /\ usnap'[o].bid = mem[o].bid
           /\ upc'[o] = "asked_done" =>
                mem[o].bid \in Orders /\ (upc[o] = "asked_done" \/ brk'[mem[o].bid] = "cancelled")
<1>1. /\ \A o \in Orders : o # p => upc'[o] = upc[o] /\ usnap'[o] = usnap[o]
      /\ mem[p] \in OrderRec /\ (mem[p].bid # NoBid => mem[p].bid \in Orders)
  <2>1. \A o \in Orders : o # p => upc'[o] = upc[o] /\ usnap'[o] = usnap[o]
    BY StageTypes DEF RequestStep, RequestRest, Cancel, Modify, Retry, Unqueue, CancelReaches,
       CancelAnswered, CancelDropped, ModifyAnswered, RetryRefused, RetryPushed, RequestSaved,
       CancelBeyondQueue, MarkCancelled, SaveNote
  <2> QED BY <2>1, StageTypes DEF OrderRec, Bids
<1>2. CASE CancelReaches(p)
  <2>1. upc[p] = "asking" /\ upc'[p] \in {"asked_done", "asked_failed"}
        /\ (upc'[p] = "asked_done" => brk' = [brk EXCEPT ![usnap[p].bid] = "cancelled"])
    BY <1>2, StageTypes DEF CancelReaches
  <2>2. mem[p].bid \in Orders /\ usnap[p].bid = mem[p].bid
    BY <2>1 DEF BidInv, Pledged
  <2>3. upc'[p] = "asked_done" => brk'[mem[p].bid] = "cancelled"
    BY <2>1, <2>2, FillTypes
  <2> QED BY <1>1, <2>1, <2>2, <2>3 DEF BidInv, Pledged
<1>3. CASE Cancel(p) \/ Unqueue(p)
  <2>1. upc'[p] # "asked_done"
        /\ (upc'[p] = "asking" => mem[p].bid # NoBid /\ usnap'[p] = mem[p])
    BY <1>3, StageTypes DEF Cancel, Unqueue, CancelBeyondQueue, MarkCancelled
  <2> QED BY <1>1, <2>1 DEF BidInv, Pledged
<1>4. CASE Modify(p) \/ Retry(p) \/ CancelAnswered(p) \/ CancelDropped(p) \/ ModifyAnswered(p)
           \/ RetryRefused(p) \/ RetryPushed(p) \/ RequestSaved(p)
  <2>1. upc'[p] \notin {"asking", "asked_done"}
    BY <1>4, StageTypes DEF Modify, Retry, CancelAnswered, CancelDropped, ModifyAnswered,
       RetryRefused, RetryPushed, RequestSaved, MarkCancelled, SaveNote
  <2> QED BY <1>1, <2>1 DEF BidInv, Pledged
<1> QED BY <1>2, <1>3, <1>4 DEF RequestStep, RequestRest

LEMMA NextPledges ==
  ASSUME "crash" \notin Events, "retry" \notin Events, "audit" \notin Events
  PROVE  TypeOK /\ SendInv /\ Stages /\ Held /\ BudgetInv /\ FillInv /\ BidInv /\ [Next]_vars
           => BidInv'
<1> SUFFICES ASSUME TypeOK, SendInv, Stages, Held, BudgetInv, FillInv, BidInv, [Next]_vars,
                    NEW o \in Orders
             PROVE  Pledged(o)'
  BY DEF BidInv
<1>0. /\ Pledged(o) /\ InHand(o) /\ BudgetOf(o) /\ NamesOnce(o)
      /\ mem[o].bid # NoBid => mem'[o].bid = mem[o].bid
  BY BidSteps DEF BidInv, Stages, BudgetInv, NamesOnce, KeepsBid
<1>1. ClaimStays
  <2>1. CASE UNCHANGED vars
    BY <2>1 DEF vars, store, ClaimStays
  <2>2. ~Restart
    BY DEF Restart
  <2> QED BY <2>1, <2>2, WorkerKeepsClaims, OtherSteps DEF Next
<1>2. mem'[o].bid # NoBid => audit'[o].status # "none"
  <2>1. Named(o) => audit[o].status # "none"
    BY <1>0 DEF Named, BudgetOf, Claimed, Asking
  <2>2. audit[o].status # "none" => audit'[o].status # "none"
    BY <1>1 DEF ClaimStays
  <2> QED BY <1>0, <2>1, <2>2 DEF Pledged, NamesOnce, KeepsBid
<1>3. word' = o /\ wpc' \in {"posting", "answering"} => mem'[o].bid = NoBid
  <2> SUFFICES ASSUME word' = o, wpc' \in {"posting", "answering"} PROVE mem'[o].bid = NoBid
    OBVIOUS
  <2>1. CASE WorkerStep
    <3>1. \/ Admit /\ audit[word].status = "none" /\ UNCHANGED <<mem, word>>
          \/ Post /\ wpc = "posting" /\ UNCHANGED <<mem, word>>
      <4>1. CASE \E i \in 1..Len(queue) : Dequeue(i)
        BY <4>1 DEF Dequeue
      <4>2. CASE Refuse \/ Unavailable \/ Duplicate \/ InsertFailed \/ Answer \/ AnswerLost
                 \/ AnswerDropped
        BY <4>2 DEF Refuse, Unavailable, Duplicate, InsertFailed, Answer, AnswerLost,
           AnswerDropped, Refused, Transient, Unknown, Accepted, Filled, Partly, Settle, TypeOK,
           TypeWorker
      <4> QED BY <2>1, <4>1, <4>2 DEF WorkerStep, Admit, Post, SentSaved, WorkerSaved,
                 WorkerFinalSaved, WorkerDropped, RemainderSaved, RemainderQueued, RetryQueued,
                 WorkerIdle
    <3> QED BY <1>0, <3>1 DEF Pledged
  <2>2. CASE ~WorkerStep
    <3>1. UNCHANGED <<wpc, word>>
      <4>1. CASE UNCHANGED vars
        BY <4>1 DEF vars, worker
      <4>2. ~Restart
        BY DEF Restart
      <4> QED BY <2>2, <4>1, <4>2, OtherSteps DEF Next
    <3>2. ~Named(o)
      <4>1. Driven(o)
        BY <3>1 DEF Driven, Sending
      <4>2. ~(rord = o /\ rpc \in Asking)
        BY <4>1, DrivenAlone
      <4> QED BY <3>1, <4>2 DEF Named, Asking
    <3> QED BY <1>0, <3>1, <3>2 DEF Pledged, NamesOnce, KeepsBid
  <2> QED BY <2>1, <2>2
<1>4. rord' = o /\ rpc' = "scanning" => mem'[o].bid = NoBid
  <2> SUFFICES ASSUME rord' = o, rpc' = "scanning" PROVE mem'[o].bid = NoBid
    OBVIOUS
  <2>1. mem[o].bid = NoBid /\ rord = o /\ rpc \in Asking
    <3>1. CASE ReconStep
      <4>1. Correlate /\ mem[rord].bid = NoBid /\ rord' = rord
        <5>1. \A v : Conclude(v) => rpc' # "scanning"
          BY DEF Conclude
        <5>2. CASE Correlate \/ Scan
          BY <5>1, <5>2 DEF Correlate, Scan
        <5> QED BY <3>1, <5>2 DEF ReconStep, PassBegin, Marked, VerdictSaved, VerdictDropped,
                   VerdictRequeued, FetchBook, PartialSaved, ClosedSaved, Closed, BookDone,
                   Investigate, ApplyRemote
      <4> QED BY <4>1 DEF Correlate, Asking
    <3>2. CASE ~ReconStep
      <4>1. UNCHANGED <<rpc, rord>>
        BY <3>2, CalmRecon
      <4> QED BY <1>0, <4>1 DEF Pledged, Asking
    <3> QED BY <3>1, <3>2
  <2>2. ~Named(o)
    <3>1. ~Driven(o)
      BY <1>0, <2>1 DEF InHand, Doubted
    <3> QED BY <3>1 DEF Named, Driven, Sending
  <2> QED BY <1>0, <2>1, <2>2 DEF NamesOnce, KeepsBid
<1>5. /\ upc'[o] = "asking" => mem[o].bid \in Orders /\ usnap'[o].bid = mem[o].bid
      /\ upc'[o] = "asked_done" =>
           mem[o].bid \in Orders /\ (upc[o] = "asked_done" \/ brk'[mem[o].bid] = "cancelled")
  <2>1. CASE \E p \in Orders : RequestStep(p)
    BY <2>1, RequestPledges
  <2>2. CASE ~(\E p \in Orders : RequestStep(p))
    <3>1. UNCHANGED <<upc, usnap>>
      BY <2>2, CalmRequests
    <3> QED BY <1>0, <3>1 DEF Pledged
  <2> QED BY <2>1, <2>2
<1>6. upc'[o] = "asked_done" => brk'[mem[o].bid] = "cancelled"
  BY <1>0, <1>5, CancelledAtBroker DEF Pledged
<1>7. mem[o].bid \in Orders => mem'[o].bid = mem[o].bid
  BY <1>0, NoBidAssumption
<1> QED BY <1>2, <1>3, <1>4, <1>5, <1>6, <1>7 DEF Pledged

\* Nobody writes over a fill: the worker and the reconciler hold only orders that are not
\* filled, what is queued is not, and a cancel the broker confirmed is of another order.
LEMMA FillsStay ==
  ASSUME TypeOK, Stages, Held, FillInv, BidInv, "crash" \notin Events, "retry" \notin Events,
         [Next]_vars, NEW o \in Orders, mem[o].state = "FILLED", ~Loaded(o)
  PROVE  mem'[o].state = "FILLED"
<1> USE DEF store
<1>0. /\ InHand(o) /\ OneHolder(o) /\ Pledged(o) /\ mem[o] # Blank
      /\ mem[o].bid \in Orders /\ brk[mem[o].bid] = "filled" /\ mem[o].bid # NoBid
      /\ "FILLED" \notin Cancelled
      /\ \A t : ~CanTransition("FILLED", t)
  BY NoBidAssumption DEF Stages, Held, BidInv, FillInv, Real, Cancelled, CanTransition,
     Transitions, States, Blank
<1>1. ASSUME NEW p \in Orders, PlaceStep(p) PROVE mem'[o].state = "FILLED"
  <2>1. CASE p = o
    <3>1. ppc[o] \notin {"start", "saving_new"}
      BY <1>0 DEF InHand, Placing
    <3> QED BY <1>1, <2>1, <3>1 DEF PlaceStep, PlaceRest, Place, PlaceQueued, PlaceSaved,
               PlaceEnqueue
  <2>2. CASE p # o
    BY <1>1, <2>2, StageTypes DEF PlaceStep, PlaceRest, Place, PlaceQueued, PlaceSaved,
       PlaceEnqueue, WithState
  <2> QED BY <2>1, <2>2
<1>2. ASSUME NEW p \in Orders, RequestStep(p) PROVE mem'[o].state = "FILLED"
  <2>1. CASE p # o
    <3>1. mem' = mem \/ mem' = WithState(p, "CANCELLED")
      BY <1>2, RequestMarks DEF Stages
    <3> QED BY <2>1, <3>1, StageTypes DEF WithState
  <2>2. CASE p = o
    <3>1. CASE Unqueue(o)
      <4>1. ~InQueue(o)
        BY <1>0 DEF OneHolder, Sendable
      <4> QED BY <1>0, <3>1, <4>1 DEF Unqueue, InQueue, CancelBeyondQueue
    <3>2. CASE CancelAnswered(o)
      BY <1>0, <3>2 DEF CancelAnswered, Pledged, SaveNote
    <3>3. ~Cancel(o) /\ ~Retry(o) /\ ~RetryPushed(o)
      BY <1>0 DEF Cancel, Retry, RetryPushed, InHand, Asked
    <3> QED BY <1>2, <2>2, <3>1, <3>2, <3>3 DEF RequestStep, RequestRest, CancelReaches,
               CancelDropped, Modify, ModifyAnswered, RetryRefused, RequestSaved, SaveNote
  <2> QED BY <2>1, <2>2
<1>3. ASSUME NEW i \in 1..Len(queue), Dequeue(i) PROVE mem'[o].state = "FILLED"
  <2>1. PICK p \in Orders : p = queue[i].order
    BY QueueIs
  <2>2. p # o
    BY <1>0, <2>1 DEF OneHolder, InQueue, Sendable
  <2> QED BY <1>3, <2>1, <2>2, StageTypes DEF Dequeue
<1>4. CASE WorkerStep /\ ~(\E i \in 1..Len(queue) : Dequeue(i))
  <2>1. wpc # "idle" => word \in Orders
    BY StageTypes
  <2>2. CASE Driven(word) /\ word \in Orders
    <3>1. word # o
      BY <1>0, <2>2, DrivenAlone
    <3>2. \A s, b, n : Settle(s, b, n) => mem'[o] = mem[o]
      BY <2>2, <3>1, StageTypes DEF Settle
    <3>3. \A s : WithState(word, s)[o] = mem[o]
      BY <2>2, <3>1, StageTypes DEF WithState
    <3>4. CASE Answer
      <4>1. Refused \/ Accepted(word) \/ Partly(word) \/ Filled(word)
        BY <3>4 DEF Answer, TypeOK, TypeWorker
      <4> QED BY <3>2, <4>1 DEF Refused, Accepted, Partly, Filled
    <3>5. CASE Refuse \/ Unavailable \/ Duplicate \/ InsertFailed \/ AnswerLost \/ AnswerDropped
      <4>1. Refused \/ Transient \/ Unknown \/ \E b : Accepted(b) \/ Filled(b)
        BY <3>5 DEF Refuse, Unavailable, Duplicate, InsertFailed, AnswerLost, AnswerDropped
      <4> QED BY <3>2, <3>3, <4>1 DEF Refused, Transient, Unknown, Accepted, Filled
    <3>6. CASE RetryQueued
      BY <2>2, <3>1, <3>6, StageTypes DEF RetryQueued
    <3> QED BY <1>4, <3>4, <3>5, <3>6 DEF WorkerStep, SentSaved, Admit, Post, WorkerSaved,
               WorkerFinalSaved, WorkerDropped, RemainderSaved, RemainderQueued
  <2>3. CASE ~Driven(word)
    BY <1>4, <2>3 DEF WorkerStep, SentSaved, Refuse, Unavailable, Admit, Duplicate, InsertFailed,
       Post, Answer, AnswerLost, AnswerDropped, WorkerSaved, WorkerFinalSaved, WorkerDropped,
       RemainderSaved, RemainderQueued, RetryQueued, Driven, Sending
  <2> QED BY <2>1, <2>2, <2>3 DEF Driven, Sending
<1>5. CASE Correlate \/ Scan
  <2>1. rord # o /\ rord \in Orders
    BY <1>0, <1>5, Concludes DEF InHand, Doubted
  <2>2. \A v : Conclude(v) => mem'[o] = mem[o]
    BY <2>1, StageTypes DEF Conclude
  <2> QED BY <1>5, <2>2, Concludes
<1>6. ASSUME NEW p \in Orders, Investigate(p) PROVE mem'[o].state = "FILLED"
  <2>1. p # o
    BY <1>0, <1>6 DEF Investigate, InHand, Doubted, Doubting
  <2> QED BY <1>6, <2>1, StageTypes DEF Investigate, WithState
<1>7. ASSUME NEW p \in Orders, ApplyRemote(p) PROVE mem'[o].state = "FILLED"
  <2>1. mem' = mem \/ (p # o /\ \E t : mem' = WithState(p, t))
    BY <1>0, <1>7 DEF ApplyRemote
  <2> QED BY <2>1, StageTypes DEF WithState
<1>8. CASE ReconStep /\ ~(Correlate \/ Scan) /\ ~(\E p \in Orders : Investigate(p) \/ ApplyRemote(p))
  BY <1>8 DEF ReconStep, PassBegin, Marked, VerdictSaved, VerdictDropped, VerdictRequeued,
     FetchBook, PartialSaved, ClosedSaved, Closed, BookDone
<1>9. CASE BrokerStep \/ UNCHANGED vars
  BY <1>9 DEF BrokerStep, BrokerShows, BrokerMoves, vars
<1>10. ~Restart
  BY DEF Restart
<1> QED BY <1>1, <1>2, <1>3, <1>4, <1>5, <1>6, <1>7, <1>8, <1>9, <1>10 DEF Next

\* A reported fill is never written over, cancel_order included: it asks can_transition before
\* its awaits and marks the order CANCELLED after them, but only when the broker confirmed the
\* cancel of the very order a fill would be reported for, or when the item was still queued.
\* As long as nothing restarts, retry_order is not called (it asks nothing), the orders table
\* can be reached, and modify_order does not meet a partial fill.
THEOREM FilledStays ==
  ASSUME "crash" \notin Events, "retry" \notin Events, "audit" \notin Events, Unmodified
  PROVE  Spec => FilledIsFinal
<1>1. Init => BidInv
  BY NoBidAssumption DEF Init, BidInv, Pledged, Blank
<1>2. TypeOK /\ SendInv /\ Stages /\ Held /\ BudgetInv /\ FillInv /\ BidInv /\ [Next]_vars
        => BidInv'
  BY NextPledges
<1>3. TypeOK /\ Stages /\ Held /\ FillInv /\ BidInv /\ [Next]_vars
        => \A o \in Orders : mem[o].state = "FILLED" /\ ~Loaded(o) => mem'[o].state = "FILLED"
  BY FillsStay
<1> QED BY <1>1, <1>2, <1>3, AlwaysHeld, AlwaysBudgeted, AlwaysReal, PTL DEF Spec, FilledIsFinal
================================================================================
