-------------------------- MODULE OrderManager_proofs --------------------------
(* Proofs about OrderManager, for every number of orders, every retry budget,     *)
(* every number of restarts, every set of events and every NOT_FOUND threshold.   *)
EXTENDS OrderManager, FiniteSetTheorems, SequenceTheorems, TLAPS

(* The order records and what a save, a push and a mirrored status leave behind.  *)

LEMMA BlankType == Blank \in OrderRec
  BY ThresholdAssumption DEF Blank, OrderRec, Bids

LEMMA FreshType == ASSUME NEW s \in States PROVE Fresh(s) \in OrderRec
  BY ThresholdAssumption DEF Fresh, Blank, OrderRec, Bids

LEMMA StateType ==
  ASSUME NEW r \in OrderRec, NEW s \in States
  PROVE  [r EXCEPT !.state = s] \in OrderRec
  BY DEF OrderRec

LEMMA WithStateType ==
  ASSUME mem \in [Orders -> OrderRec], NEW o \in Orders, NEW s \in States
  PROVE  WithState(o, s) \in [Orders -> OrderRec]
  BY DEF WithState, OrderRec

LEMMA RetriedType ==
  ASSUME mem \in [Orders -> OrderRec], NEW o \in Orders
  PROVE  /\ [mem[o] EXCEPT !.retries = @ + 1] \in OrderRec
         /\ [mem EXCEPT ![o].retries = @ + 1] \in [Orders -> OrderRec]
  BY DEF OrderRec

LEMMA RequeuedType ==
  ASSUME NEW r \in OrderRec, NEW s \in States
  PROVE  [r EXCEPT !.state = s, !.retries = @ + 1] \in OrderRec
  <1> DEFINE n == r.retries + 1
  <1>1. n \in Nat
    BY DEF OrderRec
  <1>2. [r EXCEPT !.state = s, !.retries = @ + 1] = [r EXCEPT !.state = s, !.retries = n]
    BY DEF OrderRec
  <1> HIDE DEF n
  <1> QED
    BY <1>1, <1>2 DEF OrderRec

LEMMA LandType ==
  ASSUME row \in [Orders -> OrderRec], NEW o \in Orders, NEW r \in OrderRec, Land(o, r)
  PROVE  row' \in [Orders -> OrderRec]
  BY DEF Land

LEMMA PushType ==
  ASSUME queue \in Seq(Item), NEW o \in Orders, NEW d \in BOOLEAN, Push(o, d)
  PROVE  queue' \in Seq(Item)
  <1> [order |-> o, delayed |-> d] \in Item
    BY DEF Item
  <1> QED
    BY AppendProperties DEF Push

LEMMA MirrorType ==
  ASSUME audit \in [Orders -> AuditRec], NEW b, NEW s \in States, Mirror(b, s)
  PROVE  audit' \in [Orders -> AuditRec]
  BY DEF Mirror, AuditRec

LEMMA SettleType ==
  ASSUME TypeOrders, word \in Orders, NEW s \in States, NEW b \in Bids, NEW next,
         Settle(s, b, next)
  PROVE  mem' \in [Orders -> OrderRec] /\ wsnap' \in OrderRec
  BY DEF Settle, OrderRec, TypeOrders

(* The decision table.                                                            *)
LEMMA ReconcileType ==
  ASSUME NEW bid \in Bids, NEW c \in Lookups, NEW a \in Lookups, NEW n \in Nat,
         NEW g \in BOOLEAN
  PROVE  Reconcile(bid, c, a, n, g) \in [verdict : Verdicts, id : Bids]
  <1>1. ASSUME NEW m \in SUBSET Matches
        PROVE  Judge(m) \in [verdict : Verdicts, id : Bids]
    BY DEF Judge, Matches, Verdicts, Bids
  <1>2. c.matches \in SUBSET Matches /\ a.matches \in SUBSET Matches
    BY DEF Lookups
  <1> QED
    BY <1>1, <1>2 DEF Reconcile, Verdicts, Bids

(* Type correctness, one lemma per coroutine.                                     *)

LEMMA PlaceTypes == ASSUME TypeOK, NEW o \in Orders, PlaceStep(o) PROVE TypeOK'
  <1> USE DEF TypeOK, TypeOrders, TypeBroker, TypeWorker, TypeRecon, TypeRequests,
              store, broker, worker, recon, request, bounds
  <1>0. "NEW" \in States /\ "QUEUED" \in States
    BY DEF States
  <1>1. CASE Place(o)
    BY <1>0, <1>1, FreshType DEF Place
  <1>2. CASE PlaceQueued(o)
    <2>1. row' \in [Orders -> OrderRec]
      BY <1>0, <1>2, FreshType, LandType DEF PlaceQueued
    <2>2. mem' \in [Orders -> OrderRec]
      BY <1>0, <1>2, ZenonT(90) DEF PlaceQueued, WithState, OrderRec
    <2> QED
      BY <1>2, <2>1, <2>2, ZenonT(90) DEF PlaceQueued
  <1>3. CASE PlaceSaved(o)
    <2>1. row' \in [Orders -> OrderRec]
      BY <1>0, <1>3, FreshType, LandType DEF PlaceSaved
    <2> QED
      BY <1>3, <2>1, ZenonT(90) DEF PlaceSaved
  <1>4. CASE PlaceEnqueue(o)
    <2>1. queue' \in Seq(Item)
      BY <1>4, PushType DEF PlaceEnqueue
    <2> QED
      BY <1>4, <2>1 DEF PlaceEnqueue
  <1> QED
    BY <1>1, <1>2, <1>3, <1>4 DEF PlaceStep, PlaceRest

LEMMA DequeueTypes ==
  ASSUME TypeOK, NEW i \in 1..Len(queue), Dequeue(i)
  PROVE  TypeOK'
  <1> USE DEF TypeOK, TypeOrders, TypeBroker, TypeWorker, TypeRecon, TypeRequests,
              broker, recon, request, bounds
  <1> DEFINE o     == queue[i].order
             found == IF o \in known THEN mem[o] ELSE row[o]
             sent  == [found EXCEPT !.state = "SENT"]
  <1>1. o \in Orders /\ Len(queue) \in Nat
    <2>1. queue \in Seq(Item)
      OBVIOUS
    <2>2. Len(queue) \in Nat
      BY <2>1, LenProperties
    <2>3. queue[i] \in Item
      BY <2>1, ElementOfSeq
    <2> QED
      BY <2>2, <2>3 DEF Item
  <1>2. found \in OrderRec
    BY <1>1
  <1>3. sent \in OrderRec
    BY <1>2 DEF OrderRec, States
  <1>4. queue' \in Seq(Item)
    <2>1. \A j \in (i + 1)..Len(queue) : queue[j] \in Item
      BY <1>1, ElementOfSeq
    <2>2. \A j \in 1..(i - 1) : queue[j] \in Item
      BY <1>1, ElementOfSeq
    <2>3. /\ SubSeq(queue, i + 1, Len(queue)) \in Seq(Item)
          /\ SubSeq(queue, 1, i - 1) \in Seq(Item)
      BY <1>1, <2>1, <2>2, SubSeqProperties
    <2> QED
      BY <2>3, ConcatProperties DEF Dequeue
  <1>5. mem' \in [Orders -> OrderRec] /\ known' \subseteq Orders
    BY <1>1, <1>2, <1>3 DEF Dequeue
  <1>6. TypeWorker'
    BY <1>1, <1>2, <1>3 DEF Dequeue, Bids
  <1> QED
    BY <1>4, <1>5, <1>6 DEF Dequeue

\* A state written by the worker, and what is left of its iteration.
LEMMA WorkerTypes ==
  ASSUME TypeOK, WorkerStep
  PROVE  TypeOK'
  <1> USE DEF TypeOK, TypeOrders, TypeBroker, TypeWorker, TypeRecon, TypeRequests,
              store, broker, recon, request, bounds
  <1>0. /\ {"REJECTED", "UNKNOWN", "PENDING", "FILLED", "QUEUED"} \subseteq States
        /\ NoBid \in Bids /\ Orders \subseteq Bids
        /\ \A o \in Orders : mem[o].bid \in Bids /\ audit[o].bid \in Bids
    BY DEF States, Bids, OrderRec, AuditRec
  <1>1. ASSUME NEW i \in 1..Len(queue), Dequeue(i) PROVE TypeOK'
    BY <1>1, DequeueTypes
  <1>2. CASE SentSaved
    <2>1. row' \in [Orders -> OrderRec]
      BY <1>2, LandType DEF SentSaved
    <2> QED
      BY <1>2, <2>1, BlankType DEF SentSaved
  <1>3. ASSUME Refused, word \in Orders
        PROVE  mem' \in [Orders -> OrderRec] /\ wsnap' \in OrderRec /\ wpc' = "saving_final"
    BY <1>0, <1>3, SettleType DEF Refused, Settle
  <1>4. ASSUME NEW b \in Bids, Accepted(b), word \in Orders
        PROVE  mem' \in [Orders -> OrderRec] /\ wsnap' \in OrderRec /\ wpc' = "saving"
    BY <1>0, <1>4, SettleType DEF Accepted, Settle
  <1>5. ASSUME NEW b \in Bids, Filled(b), word \in Orders
        PROVE  mem' \in [Orders -> OrderRec] /\ wsnap' \in OrderRec /\ wpc' = "saving_final"
    BY <1>0, <1>5, SettleType DEF Filled, Settle
  <1>6. CASE Refuse
    BY <1>3, <1>6 DEF Refuse
  <1>7. CASE Unavailable
    <2>1. CASE mem[word].retries < MaxRetries
      BY <1>0, <1>7, <2>1, WithStateType DEF Unavailable, Transient
    <2>2. CASE ~(mem[word].retries < MaxRetries)
      BY <1>3, <1>7, <2>2 DEF Unavailable, Transient
    <2> QED
      BY <2>1, <2>2
  <1>8. CASE Admit
    <2>1. audit' \in [Orders -> AuditRec]
      BY <1>8, ZenonT(90) DEF Admit, AuditRec
    <2> QED
      BY <1>8, <2>1 DEF Admit
  <1>9. CASE Duplicate
    <2>1. audit' \in [Orders -> AuditRec]
      <3>1. CASE audit[word].status = "none"
        BY <1>9, <3>1, ZenonT(90) DEF Duplicate, AuditRec
      <3>2. CASE audit[word].status # "none"
        BY <1>9, <3>2 DEF Duplicate
      <3> QED
        BY <3>1, <3>2
    <2>2. /\ mem' \in [Orders -> OrderRec] /\ wsnap' \in OrderRec
          /\ wpc' \in {"saving", "saving_final"}
      BY <1>0, <1>4, <1>5, <1>9 DEF Duplicate
    <2> QED
      BY <1>9, <2>1, <2>2 DEF Duplicate
  <1>10. CASE InsertFailed
    <2>1. audit' \in [Orders -> AuditRec]
      BY <1>10, ZenonT(90) DEF InsertFailed, AuditRec
    <2> QED
      BY <1>3, <1>10, <2>1 DEF InsertFailed
  <1>11. CASE Post
    <2>1. posts' \in [Orders -> Nat] /\ brk' \in [Orders -> BrkStates]
      <3>1. ASSUME NEW s \in {"open", "filled", "partial"},
                   posts' = [posts EXCEPT ![word] = @ + 1], brk' = [brk EXCEPT ![word] = s]
            PROVE  posts' \in [Orders -> Nat] /\ brk' \in [Orders -> BrkStates]
        BY <1>11, <3>1 DEF Post, BrkStates, Live
      <3> QED
        BY <1>11, <3>1 DEF Post
    <2>2. wans' \in {"none", "open", "partial", "whole", "filled", "rejected"} /\ wans' # "none"
      BY <1>11 DEF Post
    <2> QED
      BY <1>11, <2>1, <2>2 DEF Post
  <1>12. CASE Answer
    <2>1. audit' \in [Orders -> AuditRec]
      <3>1. [status |-> IF wans = "filled" THEN "FILLED" ELSE "PENDING", bid |-> word]
              \in AuditRec
        BY <1>0, <1>12 DEF Answer, AuditRec
      <3> QED
        BY <1>12, <3>1 DEF Answer
    <2>2. /\ mem' \in [Orders -> OrderRec] /\ wsnap' \in OrderRec
          /\ wpc' \in {"saving", "saving_final", "saving_remainder"}
      <3>1. CASE wans = "rejected"
        BY <1>3, <1>12, <3>1 DEF Answer
      <3>2. CASE wans = "open"
        BY <1>0, <1>4, <1>12, <3>2 DEF Answer
      <3>3. CASE wans \in {"partial", "whole"}
        BY <1>0, <1>12, <3>3, SettleType DEF Answer, Partly, Settle
      <3>4. CASE wans = "filled"
        BY <1>0, <1>5, <1>12, <3>4 DEF Answer
      <3> QED
        BY <1>12, <3>1, <3>2, <3>3, <3>4 DEF Answer
    <2> QED
      BY <1>12, <2>1, <2>2 DEF Answer
  <1>13. CASE AnswerLost
    <2>1. mem' \in [Orders -> OrderRec] /\ wsnap' \in OrderRec /\ wpc' = "saving"
      BY <1>0, <1>13, SettleType DEF AnswerLost, Unknown, Settle
    <2> QED
      BY <1>13, <2>1 DEF AnswerLost
  <1>14. CASE AnswerDropped
    BY <1>3, <1>14 DEF AnswerDropped
  <1>15. CASE WorkerSaved
    <2>1. row' \in [Orders -> OrderRec]
      BY <1>15, LandType DEF WorkerSaved
    <2> QED
      BY <1>0, <1>15, <2>1, BlankType DEF WorkerSaved, WorkerIdle
  <1>16. CASE WorkerFinalSaved
    <2>1. row' \in [Orders -> OrderRec]
      BY <1>16, LandType DEF WorkerFinalSaved
    <2> QED
      BY <1>16, <2>1, BlankType DEF WorkerFinalSaved
  <1>17. CASE WorkerDropped
    <2>1. row' \in [Orders -> OrderRec]
      BY <1>17, LandType, BlankType DEF WorkerDropped
    <2> QED
      BY <1>0, <1>17, <2>1, BlankType DEF WorkerDropped, WorkerIdle
  <1>18. CASE RemainderSaved
    <2>1. row' \in [Orders -> OrderRec]
      BY <1>18, LandType DEF RemainderSaved
    <2> QED
      BY <1>18, <2>1, BlankType DEF RemainderSaved
  <1>19. CASE RemainderQueued
    <2>1. queue' \in Seq(Item)
      BY <1>19, PushType DEF RemainderQueued
    <2> QED
      BY <1>0, <1>19, <2>1, BlankType DEF RemainderQueued, WorkerIdle
  <1>20. CASE RetryQueued
    <2>1. queue' \in Seq(Item)
      BY <1>20, PushType DEF RetryQueued
    <2>2. mem' \in [Orders -> OrderRec] /\ wsnap' \in OrderRec
      BY <1>20, RetriedType DEF RetryQueued
    <2> QED
      BY <1>20, <2>1, <2>2 DEF RetryQueued
  <1> QED
    BY <1>1, <1>2, <1>6, <1>7, <1>8, <1>9, <1>10, <1>11, <1>12, <1>13, <1>14, <1>15,
       <1>16, <1>17, <1>18, <1>19, <1>20 DEF WorkerStep

\* What a request writes of an order, and the snapshot it saves.
LEMMA NoteTypes ==
  ASSUME mem \in [Orders -> OrderRec], TypeRequests, NEW o \in Orders,
         ppc' = ppc, MarkCancelled(o) \/ SaveNote(o) \/ CancelBeyondQueue(o)
  PROVE  mem' \in [Orders -> OrderRec] /\ TypeRequests'
  <1> USE DEF TypeRequests
  <1>0. "CANCELLED" \in States /\ [mem[o] EXCEPT !.state = "CANCELLED"] \in OrderRec
    BY StateType DEF States
  <1>1. CASE MarkCancelled(o)
    BY <1>0, <1>1, WithStateType DEF MarkCancelled
  <1>2. CASE SaveNote(o)
    BY <1>2 DEF SaveNote
  <1>3. CASE CancelBeyondQueue(o) /\ mem[o].bid # NoBid
    BY <1>3 DEF CancelBeyondQueue
  <1> QED
    BY <1>1, <1>2, <1>3 DEF CancelBeyondQueue

LEMMA UnqueueTypes ==
  ASSUME queue \in Seq(Item), NEW o \in Orders, Unqueue(o)
  PROVE  queue' \in Seq(Item)
  <1>1. ASSUME NEW i \in 1..Len(queue),
               queue' = SubSeq(queue, 1, i - 1) \o SubSeq(queue, i + 1, Len(queue))
        PROVE  queue' \in Seq(Item)
    <2>1. Len(queue) \in Nat /\ \A j \in 1..Len(queue) : queue[j] \in Item
      BY LenProperties, ElementOfSeq
    <2>2. /\ \A j \in 1..(i - 1) : queue[j] \in Item
          /\ \A j \in (i + 1)..Len(queue) : queue[j] \in Item
      BY <2>1
    <2>3. /\ SubSeq(queue, 1, i - 1) \in Seq(Item)
          /\ SubSeq(queue, i + 1, Len(queue)) \in Seq(Item)
      BY <2>1, <2>2, SubSeqProperties
    <2> QED
      BY <1>1, <2>3, ConcatProperties
  <1> QED
    BY <1>1 DEF Unqueue

LEMMA RequestTypes == ASSUME TypeOK, NEW o \in Orders, RequestStep(o) PROVE TypeOK'
  <1> USE DEF TypeOK, TypeOrders, TypeBroker, TypeWorker, TypeRecon,
              store, broker, worker, recon, bounds
  <1>0. {"CANCELLED", "REJECTED", "QUEUED"} \subseteq States
    BY DEF States
  <1>1. CASE Cancel(o)
    <2>1. mem' \in [Orders -> OrderRec] /\ TypeRequests'
      BY <1>1, NoteTypes DEF Cancel, TypeRequests
    <2> QED
      BY <1>1, <2>1 DEF Cancel
  <1>2. CASE Unqueue(o)
    <2>1. mem' \in [Orders -> OrderRec] /\ TypeRequests'
      BY <1>2, NoteTypes DEF Unqueue, TypeRequests
    <2> QED
      BY <1>2, <2>1, UnqueueTypes, ZenonT(90) DEF Unqueue
  <1>3. CASE CancelReaches(o)
    <2>1. brk' \in [Orders -> BrkStates]
      BY <1>3 DEF CancelReaches, BrkStates, Dead
    <2>2. TypeRequests'
      BY <1>3, BlankType DEF CancelReaches, TypeRequests
    <2> QED
      BY <1>3, <2>1, <2>2 DEF CancelReaches
  <1>4. CASE CancelAnswered(o)
    <2>1. mem' \in [Orders -> OrderRec] /\ TypeRequests'
      BY <1>4, NoteTypes DEF CancelAnswered, TypeRequests
    <2> QED
      BY <1>4, <2>1 DEF CancelAnswered
  <1>5. CASE CancelDropped(o)
    <2>1. row' \in [Orders -> OrderRec]
      BY <1>5, LandType, BlankType DEF CancelDropped
    <2>2. audit' \in [Orders -> AuditRec]
      BY <1>0, <1>5, MirrorType DEF CancelDropped
    <2> QED
      BY <1>5, <2>1, <2>2, ZenonT(90) DEF CancelDropped, TypeRequests
  <1>6. CASE Modify(o)
    <2>1. mem' \in [Orders -> OrderRec] /\ TypeRequests'
      BY <1>6, NoteTypes DEF Modify, TypeRequests
    <2> QED
      BY <1>6, <2>1 DEF Modify
  <1>7. CASE ModifyAnswered(o)
    <2>1. mem' \in [Orders -> OrderRec] /\ TypeRequests'
      BY <1>7, NoteTypes DEF ModifyAnswered, TypeRequests
    <2> QED
      BY <1>7, <2>1 DEF ModifyAnswered
  <1>8. CASE Retry(o)
    <2> DEFINE r == [mem[o] EXCEPT !.state = "REJECTED"]
    <2>1. r \in OrderRec
      BY <1>0, StateType
    <2>2. mem' \in [Orders -> OrderRec] /\ TypeRequests'
      <3>1. WithState(o, "REJECTED") \in [Orders -> OrderRec]
        BY <1>0, WithStateType
      <3>2. CASE mem[o].retries >= MaxRetries
        <4>1. /\ mem' = WithState(o, "REJECTED") /\ ppc' = ppc
              /\ usnap' = [usnap EXCEPT ![o] = r]
              /\ upc' = [upc EXCEPT ![o] = "saving_refused"]
          BY <1>8, <3>2 DEF Retry
        <4> HIDE DEF r
        <4> QED
          BY <2>1, <3>1, <4>1 DEF TypeRequests
      <3>3. CASE ~(mem[o].retries >= MaxRetries)
        BY <1>8, <3>3 DEF Retry, TypeRequests
      <3> QED
        BY <3>2, <3>3
    <2> QED
      BY <1>8, <2>2 DEF Retry
  <1>9. CASE RetryRefused(o)
    <2>1. row' \in [Orders -> OrderRec]
      BY <1>9, LandType, BlankType DEF RetryRefused
    <2> QED
      BY <1>9, <2>1, ZenonT(90) DEF RetryRefused, TypeRequests
  <1>10. CASE RetryPushed(o)
    <2>1. [mem[o] EXCEPT !.state = "QUEUED", !.retries = @ + 1] \in OrderRec
      BY <1>0, RequeuedType
    <2>2. queue' \in Seq(Item)
      BY <1>10, PushType DEF RetryPushed
    <2>3. mem' \in [Orders -> OrderRec] /\ TypeRequests'
      BY <1>10, <2>1 DEF RetryPushed, TypeRequests
    <2> QED
      BY <1>10, <2>2, <2>3 DEF RetryPushed
  <1>11. CASE RequestSaved(o)
    <2>1. row' \in [Orders -> OrderRec]
      BY <1>11, LandType DEF RequestSaved, TypeRequests
    <2>2. TypeRequests'
      BY <1>11, BlankType DEF RequestSaved, TypeRequests
    <2> QED
      BY <1>11, <2>1, <2>2 DEF RequestSaved
  <1> QED
    BY <1>1, <1>2, <1>3, <1>4, <1>5, <1>6, <1>7, <1>8, <1>9, <1>10, <1>11
    DEF RequestStep, RequestRest

(* The reconciler.                                                                *)
LEMMA CountType ==
  ASSUME NEW n \in 0..NotFoundThreshold
  PROVE  Count(n) \in 0..NotFoundThreshold
  BY ThresholdAssumption DEF Count

LEMMA LookupTypes ==
  /\ Failed \in Lookups
  /\ \A S \in SUBSET Orders : Found(S) \in Lookups
  <1>1. \A p \in Orders : Match(p) \in Matches
    BY DEF Match, Matches
  <1> QED
    BY <1>1 DEF Failed, Found, Lookups

\* The five branches on a verdict, each on its own.
LEMMA ConcludeTypes ==
  ASSUME mem \in [Orders -> OrderRec], rord \in Orders,
         NEW v \in [verdict : Verdicts, id : Bids], Conclude(v)
  PROVE  /\ mem' \in [Orders -> OrderRec]
         /\ rsnap' \in OrderRec
         /\ rpc' \in {"saving", "saving_final", "saving_retry"}
  <1> DEFINE old == mem[rord]
  <1>0. old \in OrderRec /\ v.id \in Bids /\ v.verdict \in Verdicts
    OBVIOUS
  <1>1. /\ old.absent \in 0..NotFoundThreshold /\ Count(old.absent) \in 0..NotFoundThreshold
        /\ 0 \in 0..NotFoundThreshold
        /\ old.retries \in Nat /\ old.retries + 1 \in Nat
        /\ {"PENDING", "REJECTED", "AMBIGUOUS", "QUEUED", "UNKNOWN"} \subseteq States
    BY <1>0, CountType, ThresholdAssumption DEF OrderRec, States
  <1>2. [old EXCEPT !.state = "PENDING", !.bid = v.id, !.absent = 0] \in OrderRec
    BY <1>0, <1>1 DEF OrderRec
  <1>3. [old EXCEPT !.state = "REJECTED", !.absent = 0] \in OrderRec
    BY <1>0, <1>1 DEF OrderRec
  <1>4. [old EXCEPT !.state = "AMBIGUOUS"] \in OrderRec
    BY <1>0, <1>1, StateType
  <1>5. \A n \in Nat, c \in 0..NotFoundThreshold :
          /\ [old EXCEPT !.state = "QUEUED", !.absent = c, !.retries = n] \in OrderRec
          /\ [old EXCEPT !.state = "UNKNOWN", !.absent = c] \in OrderRec
    BY <1>0, <1>1 DEF OrderRec
  <1>6. /\ [old EXCEPT !.state = "QUEUED", !.absent = Count(@), !.retries = @ + 1] \in OrderRec
        /\ [old EXCEPT !.state = "UNKNOWN", !.absent = Count(@)] \in OrderRec
    BY <1>1, <1>5
  <1> DEFINE done ==
        CASE v.verdict = "ACCEPTED"  ->
                     [old EXCEPT !.state = "PENDING", !.bid = v.id, !.absent = 0]
          [] v.verdict = "REJECTED"  -> [old EXCEPT !.state = "REJECTED", !.absent = 0]
          [] v.verdict = "AMBIGUOUS" -> [old EXCEPT !.state = "AMBIGUOUS"]
          [] v.verdict = "NOT_FOUND" ->
                     [old EXCEPT !.state = "QUEUED", !.absent = Count(@), !.retries = @ + 1]
          [] v.verdict = "UNKNOWN"   -> [old EXCEPT !.state = "UNKNOWN", !.absent = Count(@)]
  <1>7. done \in OrderRec
    <2>1. CASE v.verdict = "ACCEPTED"
      BY <2>1, <1>2
    <2>2. CASE v.verdict = "REJECTED"
      BY <2>2, <1>3
    <2>3. CASE v.verdict = "AMBIGUOUS"
      BY <2>3, <1>4
    <2>4. CASE v.verdict = "NOT_FOUND"
      BY <2>4, <1>6
    <2>5. CASE v.verdict = "UNKNOWN"
      BY <2>5, <1>6
    <2> QED
      BY <1>0, <2>1, <2>2, <2>3, <2>4, <2>5 DEF Verdicts
  <1>8. mem' = [mem EXCEPT ![rord] = done] /\ rsnap' = done
    BY DEF Conclude
  <1>9. rpc' \in {"saving", "saving_final", "saving_retry"}
    BY DEF Conclude
  <1> HIDE DEF done
  <1> QED
    BY <1>7, <1>8, <1>9

LEMMA LookupsConclude ==
  ASSUME TypeOK, Correlate \/ Scan
  PROVE  TypeOK'
  <1> USE DEF TypeOK, TypeOrders, TypeBroker, TypeWorker, TypeRecon, TypeRequests,
              store, broker, worker, request, bounds
  <1>0. /\ rord \in Orders
        /\ mem[rord].bid \in Bids /\ NoBid \in Bids
        /\ mem[rord].absent \in Nat
        /\ absences[rord] \in 0..NotFoundThreshold
        /\ FALSE \in BOOLEAN
    <2>1. rord \in Orders
      BY DEF Correlate, Scan
    <2>2. mem[rord] \in OrderRec /\ absences[rord] \in 0..NotFoundThreshold
      BY <2>1
    <2> QED
      BY <2>1, <2>2, ThresholdAssumption DEF OrderRec, Bids
  <1>1. ASSUME NEW b \in Bids, NEW c \in Lookups, NEW a \in Lookups, NEW g \in BOOLEAN,
               Conclude(Reconcile(b, c, a, mem[rord].absent, g))
        PROVE  /\ mem' \in [Orders -> OrderRec]
               /\ rsnap' \in OrderRec
               /\ rpc' \in {"saving", "saving_final", "saving_retry"}
    <2>1. Reconcile(b, c, a, mem[rord].absent, g) \in [verdict : Verdicts, id : Bids]
      BY <1>0, ReconcileType
    <2> QED
      BY <1>0, <1>1, <2>1, ConcludeTypes
  <1>2. CASE Correlate
    <2>1. {rord} \in SUBSET Orders
      BY <1>0
    <2>2. /\ mem' \in [Orders -> OrderRec]
          /\ rsnap' \in OrderRec
          /\ rpc' \in {"saving", "saving_final", "saving_retry", "scanning"}
      BY <1>0, <1>1, <1>2, <2>1, LookupTypes DEF Correlate
    <2> QED
      BY <1>0, <1>2, <2>2 DEF Correlate
  <1>3. CASE Scan
    <2>1. \A S \in Candidates(rord) : S \in SUBSET Orders
      BY DEF Candidates
    <2>2. /\ mem' \in [Orders -> OrderRec]
          /\ rsnap' \in OrderRec
          /\ rpc' \in {"saving", "saving_final", "saving_retry"}
      BY <1>1, <1>0, <1>3, <2>1, LookupTypes DEF Scan
    <2>3. absences' \in [Orders -> 0..NotFoundThreshold]
      BY <1>0, <1>3, CountType DEF Scan
    <2> QED
      BY <1>0, <1>3, <2>2, <2>3 DEF Scan
  <1> QED
    BY <1>2, <1>3

LEMMA ReconTypes == ASSUME TypeOK, ReconStep PROVE TypeOK'
  <1> USE DEF TypeOK, TypeOrders, TypeBroker, TypeWorker, TypeRecon, TypeRequests,
              store, broker, worker, request, bounds
  <1>0. NoBid \in Bids /\ Orders \subseteq Bids /\ "RECONCILING" \in States
    BY DEF Bids, States
  <1>1. CASE PassBegin
    BY <1>1 DEF PassBegin
  <1>2. CASE Marked
    <2>1. row' \in [Orders -> OrderRec]
      BY <1>2, LandType DEF Marked
    <2> QED
      BY <1>2, <2>1, BlankType DEF Marked
  <1>3. CASE Correlate \/ Scan
    BY <1>3, LookupsConclude
  <1>4. CASE VerdictSaved
    <2>1. row' \in [Orders -> OrderRec]
      BY <1>4, LandType DEF VerdictSaved
    <2> QED
      BY <1>0, <1>4, <2>1, BlankType DEF VerdictSaved
  <1>5. CASE VerdictDropped
    <2>1. row' \in [Orders -> OrderRec]
      BY <1>5, LandType, BlankType DEF VerdictDropped
    <2> QED
      BY <1>0, <1>5, <2>1 DEF VerdictDropped
  <1>6. CASE VerdictRequeued
    <2>1. queue' \in Seq(Item)
      BY <1>6, PushType DEF VerdictRequeued
    <2> QED
      BY <1>0, <1>6, <2>1 DEF VerdictRequeued
  <1>7. CASE FetchBook
    <2>1. rbook' \in [Orders -> BrkStates]
      BY <1>7 DEF FetchBook, BrkStates
    <2>2. rtodo' \subseteq Orders /\ rpc' \in {"book", "idle"}
      BY <1>7 DEF FetchBook
    <2> QED
      BY <1>7, <2>1, <2>2 DEF FetchBook
  <1>8. CASE PartialSaved
    <2>1. row' \in [Orders -> OrderRec]
      BY <1>8, LandType DEF PartialSaved
    <2> QED
      BY <1>0, <1>8, <2>1, BlankType DEF PartialSaved
  <1>9. CASE ClosedSaved
    <2>1. row' \in [Orders -> OrderRec]
      BY <1>9, LandType DEF ClosedSaved
    <2> QED
      BY <1>9, <2>1 DEF ClosedSaved
  <1>10. CASE Closed
    <2>1. row' \in [Orders -> OrderRec]
      BY <1>10, LandType, BlankType DEF Closed
    <2>2. audit' \in [Orders -> AuditRec]
      BY <1>10, MirrorType DEF Closed
    <2> QED
      BY <1>0, <1>10, <2>1, <2>2, BlankType DEF Closed
  <1>11. CASE BookDone
    BY <1>11 DEF BookDone, BrkStates
  <1>12. ASSUME NEW o \in Orders, Investigate(o) PROVE TypeOK'
    <2>1. [mem[o] EXCEPT !.state = "RECONCILING"] \in OrderRec
      BY <1>0, StateType
    <2>2. mem' \in [Orders -> OrderRec]
      BY <1>0, <1>12, WithStateType DEF Investigate
    <2> QED
      BY <1>0, <1>12, <2>1, <2>2 DEF Investigate
  <1>13. ASSUME NEW o \in Orders, ApplyRemote(o) PROVE TypeOK'
    <2> DEFINE t == IF mem[o].bid = NoBid THEN "none" ELSE Target(rbook[mem[o].bid])
               r == [mem[o] EXCEPT !.state = t]
    <2>1. CASE t # "none" /\ CanTransition(mem[o].state, t)
      <3>1. t \in States
        BY <2>1 DEF Target, States
      <3>2. r \in OrderRec
        BY <3>1, StateType
      <3>3. WithState(o, t) \in [Orders -> OrderRec]
        BY <3>1, WithStateType
      <3>4. /\ mem' = WithState(o, t) /\ rord' = o /\ rsnap' = r
            /\ rpc' \in {"saving_partial", "saving_closed"}
        BY <1>13, <2>1 DEF ApplyRemote
      <3>5. rtodo' \subseteq Orders /\ UNCHANGED <<known, store, broker, ppc, worker, rbook,
                                                   request, bounds>>
        BY <1>13 DEF ApplyRemote
      <3>6. rsnap'.state \in States
        BY <3>1, <3>4 DEF OrderRec
      <3> HIDE DEF r
      <3> QED
        BY <1>0, <3>2, <3>3, <3>4, <3>5, <3>6
    <2>2. CASE ~(t # "none" /\ CanTransition(mem[o].state, t))
      <3>1. /\ UNCHANGED <<mem, rord, rsnap, rpc, known, store, broker, ppc, worker, rbook,
                           request, bounds>>
            /\ rtodo' \subseteq Orders
        BY <1>13, <2>2 DEF ApplyRemote
      <3> HIDE DEF r
      <3> QED
        BY <3>1
    <2> QED
      BY <2>1, <2>2
  <1> QED
    BY <1>1, <1>2, <1>3, <1>4, <1>5, <1>6, <1>7, <1>8, <1>9, <1>10, <1>11, <1>12, <1>13
    DEF ReconStep

(* The broker and the restart.                                                    *)
LEMMA BrokerTypes == ASSUME TypeOK, BrokerStep PROVE TypeOK'
  <1> USE DEF TypeOK, TypeOrders, TypeBroker, TypeWorker, TypeRecon, TypeRequests,
              store, worker, recon, request, bounds
  <1>1. PICK o \in Orders : BrokerShows(o) \/ BrokerMoves(o)
    BY DEF BrokerStep
  <1>2. CASE BrokerShows(o)
    BY <1>2 DEF BrokerShows
  <1>3. CASE BrokerMoves(o)
    <2>1. brk' \in [Orders -> BrkStates]
      BY <1>3, ClosingsAssumption DEF BrokerMoves, BrkStates, Live, Dead
    <2> QED
      BY <1>3, <2>1 DEF BrokerMoves
  <1> QED
    BY <1>1, <1>2, <1>3

LEMMA ArrayIsSeq ==
  ASSUME NEW S, NEW n \in Nat, NEW s \in [1..n -> S]
  PROVE  s \in Seq(S)
  BY SeqDef, Zenon

LEMMA RestartTypes == ASSUME TypeOK, Restart PROVE TypeOK'
  <1> USE DEF TypeOK, TypeOrders, TypeBroker, TypeWorker, TypeRecon, TypeRequests,
              broker
  <1>1. Cardinality(Requeued) \in Nat
    BY OrdersAssumption, FS_Subset, FS_CardinalityType DEF Requeued
  <1>2. queue' \in Seq(Item)
    <2>1. PICK f \in [1..Cardinality(Requeued) -> Requeued] :
            queue' = queue \o [i \in 1..Cardinality(Requeued) |->
                                 [order |-> f[i], delayed |-> FALSE]]
      BY DEF Restart
    <2> DEFINE s == [i \in 1..Cardinality(Requeued) |-> [order |-> f[i], delayed |-> FALSE]]
    <2>2. s \in [1..Cardinality(Requeued) -> Item]
      BY DEF Item, Requeued
    <2>3. s \in Seq(Item)
      BY <1>1, <2>2, ArrayIsSeq
    <2>4. queue' = queue \o s
      BY <2>1
    <2> HIDE DEF s
    <2>5. queue \o s \in Seq(Item)
      BY <2>3, ConcatProperties
    <2> QED
      BY <2>4, <2>5
  <1>3. mem' \in [Orders -> OrderRec]
    BY BlankType DEF Restart, Recovered
  <1>4. crashes' \in Nat /\ crashes' <= MaxCrashes
    BY CrashesAssumption DEF Restart
  <1>5. TypeWorker'
    BY BlankType DEF Restart, WorkerIdle, Bids
  <1>6. TypeRecon'
    BY BlankType DEF Restart, Bids, BrkStates
  <1>7. TypeRequests'
    BY BlankType DEF Restart
  <1> QED
    BY <1>2, <1>3, <1>4, <1>5, <1>6, <1>7 DEF Restart

LEMMA InitTypes == Init => TypeOK
  <1> SUFFICES ASSUME Init PROVE TypeOK
    OBVIOUS
  <1> USE DEF Init
  <1>1. TypeOrders
    BY BlankType, EmptySeq DEF TypeOrders, AuditRec, Bids
  <1>2. TypeBroker /\ TypeRequests
    BY BlankType, CrashesAssumption, ThresholdAssumption
    DEF TypeBroker, TypeRequests, BrkStates
  <1>3. TypeWorker /\ TypeRecon
    BY BlankType DEF TypeWorker, TypeRecon, Bids, BrkStates
  <1> QED
    BY <1>1, <1>2, <1>3 DEF TypeOK

LEMMA NextTypes == TypeOK /\ [Next]_vars => TypeOK'
  <1> SUFFICES ASSUME TypeOK, [Next]_vars PROVE TypeOK'
    OBVIOUS
  <1>1. CASE Next
    BY <1>1, PlaceTypes, RequestTypes, WorkerTypes, ReconTypes, BrokerTypes, RestartTypes
    DEF Next
  <1>2. CASE UNCHANGED vars
    BY <1>2 DEF vars, store, broker, worker, recon, request, bounds,
       TypeOK, TypeOrders, TypeBroker, TypeWorker, TypeRecon, TypeRequests
  <1> QED
    BY <1>1, <1>2

(* Type correctness: whatever coroutines interleave, fail or restart, the records, *)
(* the queue and the suspended steps keep their shape (the OmniOrder fields).      *)
THEOREM TypeCorrect == Spec => []TypeOK
  BY InitTypes, NextTypes, PTL DEF Spec

--------------------------------------------------------------------------------
(* One broker order per order.  AtMostOnePost alone is not inductive: a POST must  *)
(* know that none came before it, which the claim in the orders table tells it.    *)
SendInv == AtMostOnePost /\ EveryPostIsAudited /\ PostIsClaimed

\* A claim, once in the orders table, is never withdrawn.
ClaimStays == \A o \in Orders : audit[o].status # "none" => audit'[o].status # "none"

LEMMA MirrorKeepsClaims ==
  ASSUME audit \in [Orders -> AuditRec], NEW b, NEW s \in States, Mirror(b, s)
  PROVE  /\ ClaimStays
         /\ \A o \in Orders : audit[o].status = "none" => audit'[o].status = "none"
  BY DEF Mirror, ClaimStays, States, AuditRec

\* A step that neither sends nor starts to send keeps the invariant.
LEMMA QuietSteps ==
  ASSUME SendInv, TypeOK, posts' = posts, ClaimStays,
         \/ wpc' # "posting"
         \/ wpc' = wpc /\ word' = word
  PROVE  SendInv'
  <1> QED
    BY DEF SendInv, AtMostOnePost, EveryPostIsAudited, PostIsClaimed, ClaimStays,
       TypeOK, TypeWorker

\* The steps of the coroutines that never send.
LEMMA OtherSteps ==
  ASSUME TypeOK,
         \/ \E o \in Orders : PlaceStep(o) \/ RequestStep(o)
         \/ ReconStep \/ BrokerStep
  PROVE  UNCHANGED <<posts, wpc, word, wans>> /\ ClaimStays
  <1> USE DEF TypeOK, TypeOrders, TypeRecon, ClaimStays, store, broker, worker
  <1>1. ASSUME NEW o \in Orders, PlaceStep(o)
        PROVE  UNCHANGED <<posts, wpc, word, wans, audit>>
    BY <1>1 DEF PlaceStep, PlaceRest, Place, PlaceQueued, PlaceSaved, PlaceEnqueue
  <1>2. ASSUME NEW o \in Orders, RequestStep(o)
        PROVE  UNCHANGED <<posts, wpc, word, wans>> /\ ClaimStays
    <2>1. CASE CancelDropped(o)
      BY <2>1, MirrorKeepsClaims DEF CancelDropped, States
    <2>2. CASE ~CancelDropped(o)
      BY <1>2, <2>2 DEF RequestStep, RequestRest, Cancel, Modify, Retry, Unqueue,
         CancelReaches, CancelAnswered, ModifyAnswered, RetryRefused, RetryPushed,
         RequestSaved
    <2> QED
      BY <2>1, <2>2
  <1>3. CASE ReconStep
    <2>1. CASE Closed
      BY <2>1, MirrorKeepsClaims DEF Closed
    <2>2. CASE ~Closed
      BY <1>3, <2>2 DEF ReconStep, PassBegin, Marked, Correlate, Scan, VerdictSaved,
         VerdictDropped, VerdictRequeued, FetchBook, PartialSaved, ClosedSaved, BookDone,
         Investigate, ApplyRemote
    <2> QED
      BY <2>1, <2>2
  <1>4. CASE BrokerStep
    BY <1>4 DEF BrokerStep, BrokerShows, BrokerMoves
  <1> QED
    BY <1>1, <1>2, <1>3, <1>4

\* The worker: Admit makes the claim it sends behind, Post spends it.
LEMMA WorkerSends ==
  ASSUME TypeOK, SendInv, WorkerStep
  PROVE  SendInv'
  <1> USE DEF TypeOK, TypeOrders, TypeBroker, TypeWorker
  <1>1. CASE Admit
    <2>1. word \in Orders /\ posts[word] = 0
      BY <1>1 DEF Admit, SendInv, EveryPostIsAudited
    <2> QED
      BY <1>1, <2>1 DEF Admit, SendInv, AtMostOnePost, EveryPostIsAudited, PostIsClaimed,
         AuditRec, broker
  <1>2. CASE Post
    <2>1. word \in Orders /\ posts[word] = 0 /\ audit[word].status # "none"
      BY <1>2 DEF Post, SendInv, PostIsClaimed
    <2>2. audit' = audit /\ wpc' = "answering"
      BY <1>2 DEF Post, store
    <2>3. posts' = posts \/ posts' = [posts EXCEPT ![word] = @ + 1]
      BY <1>2 DEF Post
    <2>4. ASSUME NEW o \in Orders
          PROVE  posts'[o] <= 1 /\ (posts'[o] > 0 => audit'[o].status # "none")
      <3>1. posts[o] \in Nat /\ posts[o] <= 1 /\ (posts[o] > 0 => audit[o].status # "none")
        BY DEF SendInv, AtMostOnePost, EveryPostIsAudited
      <3>2. CASE o = word
        BY <2>1, <2>2, <2>3, <3>1, <3>2
      <3>3. CASE o # word
        BY <2>2, <2>3, <3>1, <3>3
      <3> QED
        BY <3>2, <3>3
    <2> QED
      BY <2>2, <2>4 DEF SendInv, AtMostOnePost, EveryPostIsAudited, PostIsClaimed
  <1>3. CASE WorkerStep /\ ~Admit /\ ~Post
    <2>1. posts' = posts /\ wpc' # "posting"
      BY <1>3 DEF WorkerStep, Dequeue, SentSaved, Refuse, Unavailable, Duplicate,
         InsertFailed, Answer, AnswerLost, AnswerDropped, WorkerSaved, WorkerFinalSaved,
         WorkerDropped, RemainderSaved, RemainderQueued, RetryQueued, WorkerIdle,
         Refused, Unknown, Accepted, Filled, Partly, Transient, Settle, broker
    <2>2. ClaimStays
      <3>1. CASE Duplicate \/ InsertFailed
        BY <3>1 DEF Duplicate, InsertFailed, ClaimStays, AuditRec
      <3>2. CASE Answer
        <4> DEFINE a == [status |-> IF wans = "filled" THEN "FILLED" ELSE "PENDING",
                         bid |-> word]
        <4>1. a.status # "none"
          OBVIOUS
        <4>2. audit' = [audit EXCEPT ![word] = a] \/ audit' = audit
          BY <3>2 DEF Answer
        <4> HIDE DEF a
        <4> QED
          BY <4>1, <4>2 DEF ClaimStays
      <3>3. CASE audit' = audit
        BY <3>3 DEF ClaimStays
      <3> QED
        BY <1>3, <3>1, <3>2, <3>3 DEF WorkerStep, Dequeue, SentSaved, Refuse, Unavailable,
           AnswerLost, AnswerDropped, WorkerSaved, WorkerFinalSaved, WorkerDropped,
           RemainderSaved, RemainderQueued, RetryQueued, store
    <2> QED
      BY <2>1, <2>2, QuietSteps
  <1> QED
    BY <1>1, <1>2, <1>3

LEMMA NextSends == TypeOK /\ SendInv /\ [Next]_vars => SendInv'
  <1> SUFFICES ASSUME TypeOK, SendInv, [Next]_vars PROVE SendInv'
    OBVIOUS
  <1>1. CASE (\E o \in Orders : PlaceStep(o) \/ RequestStep(o)) \/ ReconStep \/ BrokerStep
    BY <1>1, OtherSteps, QuietSteps
  <1>2. CASE WorkerStep
    BY <1>2, WorkerSends
  <1>3. CASE Restart
    <2>1. UNCHANGED <<posts, audit>> /\ wpc' # "posting"
      BY <1>3 DEF Restart, WorkerIdle, broker
    <2> QED
      BY <2>1, QuietSteps DEF ClaimStays
  <1>4. CASE UNCHANGED vars
    <2>1. UNCHANGED <<posts, audit, wpc, word>>
      BY <1>4 DEF vars, store, broker, worker
    <2> QED
      BY <2>1, QuietSteps DEF ClaimStays
  <1> QED
    BY <1>1, <1>2, <1>3, <1>4 DEF Next

LEMMA InitSends == Init => SendInv
  BY DEF Init, SendInv, AtMostOnePost, EveryPostIsAudited, PostIsClaimed

LEMMA AlwaysSends == Spec => [](TypeOK /\ SendInv)
  <1>1. Init => TypeOK /\ SendInv
    BY InitTypes, InitSends
  <1>2. TypeOK /\ SendInv /\ [Next]_vars => (TypeOK /\ SendInv)'
    BY NextTypes, NextSends
  <1> QED
    BY <1>1, <1>2, PTL DEF Spec

(* One order, one broker order: however often it is retried, requeued or recovered *)
(* (_process_queue, _reconcile_one_unknown, _recover_active_orders).               *)
THEOREM OnePost == Spec => []AtMostOnePost
  <1>1. TypeOK /\ SendInv => AtMostOnePost
    BY DEF SendInv
  <1> QED
    BY <1>1, AlwaysSends, PTL

(* Every broker order has its row in orders, written before the POST               *)
(* (execution/manager.py, place_order).                                            *)
THEOREM PostsAreAudited == Spec => []EveryPostIsAudited
  <1>1. TypeOK /\ SendInv => EveryPostIsAudited
    BY DEF SendInv
  <1> QED
    BY <1>1, AlwaysSends, PTL

(* The worker sends only behind a fresh claim (_insert_order_atomic).              *)
THEOREM PostsAreClaimed == Spec => []PostIsClaimed
  <1>1. TypeOK /\ SendInv => PostIsClaimed
    BY DEF SendInv
  <1> QED
    BY <1>1, AlwaysSends, PTL

--------------------------------------------------------------------------------
(* OrderManager implements OrderOnce.  A step moves the phase of one order at most. *)
PhaseMap == [o \in Orders |-> Phase(o)]

LEMMA OneMoves ==
  ASSUME NEW o \in Orders,
         \A p \in Orders : p # o => Phase(p)' = Phase(p),
         \/ Phase(o)' = Phase(o)
         \/ Phase(o) = "unclaimed" /\ Phase(o)' = "claimed"
         \/ Phase(o) = "claimed" /\ Phase(o)' \in {"live", "over"}
         \/ Phase(o) = "live" /\ Phase(o)' = "over"
  PROVE  [Once!Next]_PhaseMap
  <1>1. ASSUME NEW from, NEW to, Phase(o) = from, Phase(o)' = to
        PROVE  Once!Moves(o, from, to)
    BY <1>1 DEF Once!Moves
  <1>2. CASE Phase(o)' = Phase(o)
    BY <1>2 DEF PhaseMap
  <1>3. CASE Phase(o) = "unclaimed" /\ Phase(o)' = "claimed"
    BY <1>1, <1>3 DEF Once!Next, Once!Claim
  <1>4. CASE Phase(o) = "claimed" /\ Phase(o)' \in {"live", "over"}
    BY <1>1, <1>4 DEF Once!Next, Once!Submit
  <1>5. CASE Phase(o) = "live" /\ Phase(o)' = "over"
    BY <1>1, <1>5 DEF Once!Next, Once!Finish
  <1> QED
    BY <1>2, <1>3, <1>4, <1>5

\* An order whose broker order, claim and liveness stay has the same phase.
LEMMA PhaseStays ==
  ASSUME NEW o \in Orders,
         posts'[o] = posts[o],
         posts[o] = 0 => (audit'[o].status = "none" <=> audit[o].status = "none"),
         posts[o] # 0 => (brk'[o] \in Live <=> brk[o] \in Live)
  PROVE  Phase(o)' = Phase(o)
  BY DEF Phase, Live

LEMMA PhaseOnce ==
  ASSUME NEW o \in Orders, posts'[o] = 1
  PROVE  Phase(o)' \in {"live", "over"}
  BY DEF Phase

LEMMA NoneMoves ==
  ASSUME posts' = posts,
         brk' = brk,
         \A o \in Orders : audit'[o].status = "none" <=> audit[o].status = "none"
  PROVE  [Once!Next]_PhaseMap
  BY PhaseStays DEF PhaseMap

\* The broker closes an order, on its own or because it was asked to.
LEMMA BrokerMovesOne ==
  ASSUME TypeOK, AtMostOnePost, UNCHANGED <<posts, audit>>, NEW o \in Orders,
         brk[o] \in Live, NEW s \in Live \cup Dead \cup {"filled"},
         brk' = [brk EXCEPT ![o] = s]
  PROVE  [Once!Next]_PhaseMap
  <1> USE DEF TypeOK, TypeBroker
  <1>1. posts[o] \in {0, 1}
    BY DEF AtMostOnePost
  <1>2. \A p \in Orders : p # o => Phase(p)' = Phase(p)
    BY DEF Phase
  <1>3. CASE posts[o] = 0
    BY <1>2, <1>3, PhaseStays, OneMoves
  <1>4. CASE posts[o] = 1
    <2>1. Phase(o) = "live" /\ Phase(o)' \in {"live", "over"}
      BY <1>4 DEF Phase, Live
    <2> QED
      BY <1>2, <2>1, OneMoves
  <1> QED
    BY <1>1, <1>3, <1>4

\* The claim, made by an insert, by an insert whose answer is lost, or by an update.
LEMMA ClaimMovesOne ==
  ASSUME SendInv, UNCHANGED <<posts, brk>>, NEW o \in Orders,
         \A p \in Orders : p # o => audit'[p] = audit[p],
         audit'[o].status # "none"
  PROVE  [Once!Next]_PhaseMap
  <1>1. \A p \in Orders : p # o => Phase(p)' = Phase(p)
    BY DEF Phase
  <1>2. CASE audit[o].status = "none" /\ posts[o] = 0
    <2>1. Phase(o) = "unclaimed" /\ Phase(o)' = "claimed"
      BY <1>2 DEF Phase
    <2> QED
      BY <1>1, <2>1, OneMoves
  <1>3. CASE audit[o].status # "none" \/ posts[o] # 0
    BY <1>1, <1>3, PhaseStays, OneMoves
  <1> QED
    BY <1>2, <1>3

LEMMA WorkerImplements ==
  ASSUME TypeOK, SendInv, WorkerStep
  PROVE  [Once!Next]_PhaseMap
  <1> USE DEF TypeOK, TypeOrders, TypeBroker, TypeWorker, broker
  <1>1. CASE Admit \/ Duplicate \/ InsertFailed
    <2>1. /\ word \in Orders /\ UNCHANGED <<posts, brk>>
          /\ \/ audit' = [audit EXCEPT ![word].status = "PENDING"]
             \/ audit[word].status # "none" /\ audit' = audit
      BY <1>1 DEF Admit, Duplicate, InsertFailed
    <2>2. /\ \A p \in Orders : p # word => audit'[p] = audit[p]
          /\ audit'[word].status # "none"
      BY <2>1 DEF AuditRec
    <2> QED
      BY <2>1, <2>2, ClaimMovesOne
  <1>2. CASE Answer
    <2> DEFINE a == [status |-> IF wans = "filled" THEN "FILLED" ELSE "PENDING",
                     bid |-> word]
    <2>1. word \in Orders /\ UNCHANGED <<posts, brk>> /\ a.status # "none"
      BY <1>2 DEF Answer
    <2>2. audit' = [audit EXCEPT ![word] = a] \/ audit' = audit
      BY <1>2 DEF Answer
    <2> HIDE DEF a
    <2>3. CASE audit' = [audit EXCEPT ![word] = a]
      <3>1. /\ \A p \in Orders : p # word => audit'[p] = audit[p]
            /\ audit'[word].status # "none"
        BY <2>1, <2>3
      <3> QED
        BY <2>1, <3>1, ClaimMovesOne
    <2>4. CASE audit' = audit
      BY <2>1, <2>4, NoneMoves
    <2> QED
      BY <2>2, <2>3, <2>4
  <1>3. CASE Post
    <2>1. PICK o \in Orders : o = word
      BY <1>3 DEF Post
    <2>2. posts[o] = 0 /\ audit[o].status # "none" /\ audit' = audit
      BY <1>3, <2>1 DEF Post, SendInv, PostIsClaimed, store
    <2>3. CASE UNCHANGED <<posts, brk>>
      BY <2>2, <2>3, NoneMoves
    <2>4. CASE posts' = [posts EXCEPT ![o] = @ + 1] /\ \E s : brk' = [brk EXCEPT ![o] = s]
      <3>1. \A p \in Orders : p # o => Phase(p)' = Phase(p)
        BY <2>2, <2>4 DEF Phase
      <3>2. Phase(o) = "claimed"
        BY <2>2 DEF Phase
      <3>3. posts'[o] = 1
        BY <2>2, <2>4
      <3>4. Phase(o)' \in {"live", "over"}
        BY <3>3, PhaseOnce
      <3> QED
        BY <3>1, <3>2, <3>4, OneMoves
    <2> QED
      BY <1>3, <2>1, <2>3, <2>4 DEF Post
  <1>4. CASE WorkerStep /\ ~(Admit \/ Duplicate \/ InsertFailed \/ Answer \/ Post)
    <2>1. UNCHANGED <<posts, brk, audit>>
      BY <1>4 DEF WorkerStep, Dequeue, SentSaved, Refuse, Unavailable, AnswerLost,
         AnswerDropped, WorkerSaved, WorkerFinalSaved, WorkerDropped, RemainderSaved,
         RemainderQueued, RetryQueued, store
    <2> QED
      BY <2>1, NoneMoves
  <1> QED
    BY <1>1, <1>2, <1>3, <1>4

\* What the other coroutines do to the broker's order: nothing, or a cancel.
LEMMA OthersImplement ==
  ASSUME TypeOK, SendInv,
         \/ \E o \in Orders : PlaceStep(o) \/ RequestStep(o)
         \/ ReconStep \/ BrokerStep \/ Restart
  PROVE  [Once!Next]_PhaseMap
  <1> USE DEF TypeOK, TypeOrders, TypeBroker, TypeRecon, store, broker, worker
  <1>1. ASSUME NEW o \in Orders, PlaceStep(o)
        PROVE  [Once!Next]_PhaseMap
    <2>1. UNCHANGED <<posts, brk, audit>>
      BY <1>1 DEF PlaceStep, PlaceRest, Place, PlaceQueued, PlaceSaved, PlaceEnqueue
    <2> QED
      BY <2>1, NoneMoves
  <1>2. ASSUME NEW o \in Orders, RequestStep(o)
        PROVE  [Once!Next]_PhaseMap
    <2>1. CASE CancelDropped(o)
      <3>1. UNCHANGED <<posts, brk>>
        BY <2>1 DEF CancelDropped
      <3>2. \A p \in Orders : audit'[p].status = "none" <=> audit[p].status = "none"
        BY <2>1, MirrorKeepsClaims DEF CancelDropped, States, ClaimStays
      <3> QED
        BY <3>1, <3>2, NoneMoves
    <2>2. CASE CancelReaches(o)
      <3>1. UNCHANGED <<posts, audit>>
        BY <2>2 DEF CancelReaches
      <3>2. PICK b : \/ brk' = brk
                     \/ brk[b] \in Live /\ brk' = [brk EXCEPT ![b] = "cancelled"]
        BY <2>2 DEF CancelReaches
      <3>3. CASE b \in Orders /\ brk[b] \in Live /\ brk' = [brk EXCEPT ![b] = "cancelled"]
        BY <3>1, <3>3, BrokerMovesOne DEF SendInv, Dead
      <3>4. CASE brk' = brk
        BY <3>1, <3>4, NoneMoves
      <3>5. CASE b \notin Orders /\ brk' = [brk EXCEPT ![b] = "cancelled"]
        <4>1. brk' = brk
          BY <3>5
        <4> QED
          BY <3>1, <4>1, NoneMoves
      <3> QED
        BY <3>2, <3>3, <3>4, <3>5
    <2>3. CASE ~CancelDropped(o) /\ ~CancelReaches(o)
      <3>1. UNCHANGED <<posts, brk, audit>>
        BY <1>2, <2>3 DEF RequestStep, RequestRest, Cancel, Modify, Retry, Unqueue,
           CancelAnswered, ModifyAnswered, RetryRefused, RetryPushed, RequestSaved
      <3> QED
        BY <3>1, NoneMoves
    <2> QED
      BY <2>1, <2>2, <2>3
  <1>3. CASE ReconStep
    <2>1. UNCHANGED <<posts, brk>>
      BY <1>3 DEF ReconStep, PassBegin, Marked, Correlate, Scan, VerdictSaved,
         VerdictDropped, VerdictRequeued, FetchBook, PartialSaved, ClosedSaved, BookDone,
         Investigate, ApplyRemote, Closed
    <2>2. CASE Closed
      <3>1. \A p \in Orders : audit'[p].status = "none" <=> audit[p].status = "none"
        BY <2>2, MirrorKeepsClaims DEF Closed, ClaimStays
      <3> QED
        BY <2>1, <3>1, NoneMoves
    <2>3. CASE ~Closed
      <3>1. audit' = audit
        BY <1>3, <2>3 DEF ReconStep, PassBegin, Marked, Correlate, Scan, VerdictSaved,
           VerdictDropped, VerdictRequeued, FetchBook, PartialSaved, ClosedSaved, BookDone,
           Investigate, ApplyRemote
      <3> QED
        BY <2>1, <3>1, NoneMoves
    <2> QED
      BY <2>2, <2>3
  <1>4. CASE BrokerStep
    <2>1. PICK o \in Orders : BrokerShows(o) \/ BrokerMoves(o)
      BY <1>4 DEF BrokerStep
    <2>2. CASE BrokerShows(o)
      BY <2>2, NoneMoves DEF BrokerShows
    <2>3. CASE BrokerMoves(o)
      <3>1. PICK s \in Live \cup Dead \cup {"filled"} : brk' = [brk EXCEPT ![o] = s]
        BY <2>3, ClosingsAssumption DEF BrokerMoves, Live, Dead
      <3>2. brk[o] \in Live /\ UNCHANGED <<posts, audit>>
        BY <2>3 DEF BrokerMoves
      <3> QED
        BY <3>1, <3>2, BrokerMovesOne DEF SendInv
    <2> QED
      BY <2>1, <2>2, <2>3
  <1>5. CASE Restart
    <2>1. UNCHANGED <<posts, brk, audit>>
      BY <1>5 DEF Restart
    <2> QED
      BY <2>1, NoneMoves
  <1> QED
    BY <1>1, <1>2, <1>3, <1>4, <1>5

LEMMA NextImplements == TypeOK /\ SendInv /\ [Next]_vars => [Once!Next]_PhaseMap
  <1> SUFFICES ASSUME TypeOK, SendInv, [Next]_vars PROVE [Once!Next]_PhaseMap
    OBVIOUS
  <1>1. CASE Next
    BY <1>1, OthersImplement, WorkerImplements DEF Next
  <1>2. CASE UNCHANGED vars
    BY <1>2, NoneMoves DEF vars, store, broker
  <1> QED
    BY <1>1, <1>2

LEMMA InitImplements == Init => Once!Init
  BY DEF Init, Once!Init, Phase

(* The order pipeline implements the promise of OrderOnce: claimed, then sent once, *)
(* then over, whatever the worker, the reconciler, a canceller and a restart do.    *)
THEOREM OrderOnceImplemented == Spec => ImplementsOrderOnce
  <1>1. TypeOK /\ SendInv /\ [Next]_vars => [Once!Next]_[o \in Orders |-> Phase(o)]
    BY NextImplements DEF PhaseMap
  <1> QED
    BY <1>1, InitImplements, AlwaysSends, PTL DEF Spec, ImplementsOrderOnce, Once!Spec

--------------------------------------------------------------------------------
(* An order carries its own broker order or one that agrees in all it knows of      *)
(* itself, for any number of orders, whatever fails, restarts or is requested.     *)

\* The ids an order may carry.
Allowed(o) == {NoBid, o} \cup {p \in Orders : Alike(o, p)}

LEMMA OwnAllowed == \A o : NoBid \in Allowed(o) /\ o \in Allowed(o)
BY DEF Allowed

\* Every place an id is kept in holds an allowed one: the object, its row, its row in
\* orders, and the snapshots of saves in flight; an order that is dropped or requeued for
\* want of a broker order has none.
BidsOK ==
  /\ \A o \in Orders : /\ mem[o].bid \in Allowed(o) /\ row[o].bid \in Allowed(o)
                       /\ usnap[o].bid \in Allowed(o) /\ audit[o].bid \in {NoBid, o}
  /\ wsnap.bid \in Allowed(word)
  /\ rsnap.bid \in Allowed(rord)
  /\ rpc \in {"dropping", "requeueing"} => rsnap.bid = NoBid

LEMMA BidsOfRecords ==
  ASSUME TypeOK
  PROVE  /\ mem \in [Orders -> OrderRec] /\ row \in [Orders -> OrderRec]
         /\ usnap \in [Orders -> OrderRec] /\ audit \in [Orders -> AuditRec]
         /\ wsnap \in OrderRec /\ rsnap \in OrderRec
         /\ Blank.bid = NoBid /\ \A s : Fresh(s).bid = NoBid
BY DEF TypeOK, TypeOrders, TypeWorker, TypeRecon, TypeRequests, Blank, Fresh

LEMMA LandKeepsBids ==
  ASSUME TypeOK, BidsOK, NEW o \in Orders, NEW r, r.bid \in Allowed(o), Land(o, r)
  PROVE  \A p \in Orders : row'[p].bid \in Allowed(p)
BY BidsOfRecords, OwnAllowed DEF Land, BidsOK

LEMMA MirrorKeepsBids ==
  ASSUME TypeOK, BidsOK, NEW b, NEW s, Mirror(b, s)
  PROVE  \A p \in Orders : audit'[p].bid \in {NoBid, p}
BY BidsOfRecords, OwnAllowed DEF Mirror, BidsOK, AuditRec

LEMMA PlaceBids ==
  ASSUME TypeOK, BidsOK, NEW o \in Orders, PlaceStep(o)
  PROVE  BidsOK'
<1> USE DEF store, worker, recon, request
<1>1. CASE Place(o)
  BY <1>1, BidsOfRecords, OwnAllowed DEF BidsOK, Place
<1>2. CASE PlaceQueued(o)
  <2>1. \A p \in Orders : row'[p].bid \in Allowed(p)
    BY <1>2, BidsOfRecords, OwnAllowed, LandKeepsBids DEF PlaceQueued
  <2>2. \A p \in Orders : mem'[p].bid = mem[p].bid
    BY <1>2, BidsOfRecords, OwnAllowed DEF PlaceQueued, WithState, OrderRec
  <2> QED BY <1>2, <2>1, <2>2 DEF BidsOK, PlaceQueued
<1>3. CASE PlaceSaved(o)
  <2>1. \A p \in Orders : row'[p].bid \in Allowed(p)
    BY <1>3, BidsOfRecords, OwnAllowed, LandKeepsBids DEF PlaceSaved
  <2> QED BY <1>3, <2>1 DEF BidsOK, PlaceSaved
<1>4. CASE PlaceEnqueue(o)
  BY <1>4 DEF BidsOK, PlaceEnqueue
<1> QED BY <1>1, <1>2, <1>3, <1>4 DEF PlaceStep, PlaceRest

--------------------------------------------------------------------------------
(* The requests keep the id of the object and copy it.                            *)
LEMMA RequestBids ==
  ASSUME TypeOK, BidsOK, NEW o \in Orders, RequestStep(o)
  PROVE  BidsOK'
<1> USE DEF store, worker, recon
<1>0. /\ \A s : [mem[o] EXCEPT !.state = s].bid = mem[o].bid
      /\ \A s : \A p \in Orders : WithState(o, s)[p].bid = mem[p].bid
  BY BidsOfRecords DEF WithState, OrderRec
<1> DEFINE Copies == /\ \A p \in Orders : mem'[p].bid = mem[p].bid
                     /\ \A p \in Orders : usnap'[p].bid \in {usnap[p].bid, mem[p].bid}
<1>a. ASSUME NEW s, mem' = WithState(o, s) \/ mem' = mem,
             \/ usnap' = [usnap EXCEPT ![o] = [mem[o] EXCEPT !.state = s]]
             \/ usnap' = [usnap EXCEPT ![o] = mem[o]]
             \/ usnap' = usnap
      PROVE  Copies
  <2>1. \A p \in Orders : mem'[p].bid = mem[p].bid
    BY <1>0, <1>a
  <2>2. \A p \in Orders : usnap'[p].bid \in {usnap[p].bid, mem[p].bid}
    <3>1. ASSUME NEW r, r.bid = mem[o].bid, usnap' = [usnap EXCEPT ![o] = r]
          PROVE  \A p \in Orders : usnap'[p].bid \in {usnap[p].bid, mem[p].bid}
      BY <3>1, BidsOfRecords
    <3>2. [mem[o] EXCEPT !.state = s].bid = mem[o].bid
      BY <1>0
    <3> QED BY <1>a, <3>1, <3>2
  <2> QED BY <2>1, <2>2
<1>1. ASSUME \/ MarkCancelled(o) \/ SaveNote(o) \/ CancelBeyondQueue(o)
             \/ UNCHANGED <<mem, usnap>>
      PROVE  \A p \in Orders : mem'[p].bid \in Allowed(p) /\ usnap'[p].bid \in Allowed(p)
  <2>1. Copies
    <3> HIDE DEF Copies
    <3> QED BY <1>1, <1>a DEF MarkCancelled, SaveNote, CancelBeyondQueue
  <2> QED BY <2>1 DEF BidsOK
<1>2. CASE Cancel(o) \/ Unqueue(o) \/ CancelAnswered(o) \/ Modify(o) \/ ModifyAnswered(o)
  <2>1. UNCHANGED <<row, audit, wsnap, word, rsnap, rord, rpc>>
    BY <1>2 DEF Cancel, Unqueue, CancelAnswered, Modify, ModifyAnswered
  <2>2. \/ MarkCancelled(o) \/ SaveNote(o) \/ CancelBeyondQueue(o) \/ UNCHANGED <<mem, usnap>>
    BY <1>2 DEF Cancel, Unqueue, CancelAnswered, Modify, ModifyAnswered
  <2> QED BY <1>1, <2>1, <2>2 DEF BidsOK
<1>3. CASE CancelReaches(o)
  BY <1>3, BidsOfRecords, OwnAllowed DEF BidsOK, CancelReaches
<1>4. CASE CancelDropped(o)
  <2>1. /\ \A p \in Orders : row'[p].bid \in Allowed(p)
        /\ \A p \in Orders : audit'[p].bid \in {NoBid, p}
    BY <1>4, BidsOfRecords, OwnAllowed, LandKeepsBids, MirrorKeepsBids DEF CancelDropped
  <2> QED BY <1>4, <2>1 DEF BidsOK, CancelDropped
<1>5. CASE Retry(o)
  <2>1. Copies
    <3> HIDE DEF Copies
    <3> QED BY <1>5, <1>a DEF Retry
  <2> QED BY <1>5, <2>1 DEF BidsOK, Retry
<1>6. CASE RetryRefused(o)
  <2>1. \A p \in Orders : row'[p].bid \in Allowed(p)
    BY <1>6, BidsOfRecords, OwnAllowed, LandKeepsBids DEF RetryRefused
  <2> QED BY <1>6, <2>1 DEF BidsOK, RetryRefused
<1>7. CASE RetryPushed(o)
  <2>1. [mem[o] EXCEPT !.state = "QUEUED", !.retries = @ + 1].bid = mem[o].bid
    BY BidsOfRecords, OwnAllowed DEF OrderRec
  <2> QED BY <1>7, <2>1, BidsOfRecords, OwnAllowed DEF BidsOK, RetryPushed
<1>8. CASE RequestSaved(o)
  <2>1. \A p \in Orders : row'[p].bid \in Allowed(p)
    BY <1>8, LandKeepsBids DEF RequestSaved, BidsOK
  <2> QED BY <1>8, <2>1, BidsOfRecords, OwnAllowed DEF BidsOK, RequestSaved
<1> QED BY <1>2, <1>3, <1>4, <1>5, <1>6, <1>7, <1>8 DEF RequestStep, RequestRest

--------------------------------------------------------------------------------
(* The worker learns the id from its own answer or its own row in orders.         *)
LEMMA SettleBids ==
  ASSUME TypeOK, BidsOK, word \in Orders,
         \/ Refused \/ Unknown \/ Transient
         \/ \E b \in {word, audit[word].bid} : Accepted(b) \/ Filled(b) \/ Partly(b)
  PROVE  /\ \A p \in Orders : mem'[p].bid \in Allowed(p)
         /\ wsnap'.bid \in Allowed(word)
<1>1. ASSUME NEW s, NEW b, NEW next, Settle(s, b, next), b \in Allowed(word)
      PROVE  /\ \A p \in Orders : mem'[p].bid \in Allowed(p)
             /\ wsnap'.bid \in Allowed(word)
  BY <1>1, BidsOfRecords, OwnAllowed DEF Settle, BidsOK, OrderRec
<1>2. mem[word].bid \in Allowed(word) /\ audit[word].bid \in {NoBid, word}
  BY DEF BidsOK
<1>3. CASE mem' = WithState(word, "QUEUED") /\ wsnap' = wsnap
  BY <1>3, BidsOfRecords, OwnAllowed DEF WithState, BidsOK, OrderRec
<1>4. /\ mem[word].bid \in Allowed(word) /\ audit[word].bid \in Allowed(word)
      /\ word \in Allowed(word)
  BY <1>2, OwnAllowed
<1> QED BY <1>1, <1>3, <1>4 DEF Refused, Unknown, Transient, Accepted, Filled, Partly

LEMMA DequeueBids ==
  ASSUME TypeOK, BidsOK, NEW i \in 1..Len(queue), Dequeue(i)
  PROVE  BidsOK'
<1> DEFINE o     == queue[i].order
           found == IF o \in known THEN mem[o] ELSE row[o]
           sent  == [found EXCEPT !.state = "SENT"]
<1>1. o \in Orders
  <2>1. queue \in Seq(Item)
    BY DEF TypeOK, TypeOrders
  <2>2. queue[i] \in Item
    BY <2>1, ElementOfSeq
  <2> QED BY <2>2 DEF Item
<1>2. found \in OrderRec /\ found.bid \in Allowed(o)
  BY <1>1, BidsOfRecords, OwnAllowed DEF BidsOK
<1>3. sent.bid \in Allowed(o)
  BY <1>2 DEF OrderRec
<1>4. \/ mem' = [mem EXCEPT ![o] = sent] /\ word' = o /\ wsnap' = sent
      \/ mem' = [mem EXCEPT ![o] = found] /\ UNCHANGED <<word, wsnap>>
      \/ UNCHANGED <<mem, word, wsnap>>
  BY DEF Dequeue
<1>5. UNCHANGED <<row, audit, usnap, rsnap, rord, rpc>>
  BY DEF Dequeue, recon, request
<1> HIDE DEF o, found, sent
<1> QED BY <1>1, <1>2, <1>3, <1>4, <1>5, BidsOfRecords, OwnAllowed DEF BidsOK

LEMMA WorkerBids ==
  ASSUME TypeOK, BidsOK, WorkerStep
  PROVE  BidsOK'
<1> USE DEF store, recon, request, broker
<1>0. wpc # "idle" => word \in Orders
  BY DEF TypeOK, TypeWorker
<1>1. CASE \E i \in 1..Len(queue) : Dequeue(i)
  BY <1>1, DequeueBids
<1>2. CASE Refuse \/ Unavailable \/ Duplicate \/ InsertFailed \/ Answer
           \/ AnswerLost \/ AnswerDropped
  <2>1. word \in Orders /\ UNCHANGED <<row, usnap, word, rsnap, rord, rpc>>
    BY <1>0, <1>2 DEF Refuse, Unavailable, Duplicate, InsertFailed, Answer, AnswerLost,
       AnswerDropped
  <2>2. \/ Refused \/ Unknown \/ Transient
        \/ \E b \in {word, audit[word].bid} : Accepted(b) \/ Filled(b) \/ Partly(b)
    <3>1. CASE Answer
      BY <3>1, <1>0 DEF Answer, TypeOK, TypeWorker
    <3> QED BY <1>2, <3>1 DEF Refuse, Unavailable, Duplicate, InsertFailed, AnswerLost,
               AnswerDropped
  <2>3. /\ \A p \in Orders : mem'[p].bid \in Allowed(p)
        /\ wsnap'.bid \in Allowed(word)
    BY <2>1, <2>2, SettleBids
  <2>4. \A p \in Orders : audit'[p].bid \in {NoBid, p}
    <3>1. CASE Answer
      <4> DEFINE a == [status |-> IF wans = "filled" THEN "FILLED" ELSE "PENDING",
                       bid |-> word]
      <4>1. a.bid = word
        OBVIOUS
      <4>2. audit' = [audit EXCEPT ![word] = a] \/ audit' = audit
        BY <3>1 DEF Answer
      <4> HIDE DEF a
      <4> QED BY <2>1, <4>1, <4>2, BidsOfRecords, OwnAllowed DEF BidsOK
    <3>2. CASE audit' = [audit EXCEPT ![word].status = "PENDING"]
      BY <2>1, <3>2, BidsOfRecords, OwnAllowed DEF BidsOK, AuditRec
    <3>3. CASE audit' = audit
      BY <3>3 DEF BidsOK
    <3> QED BY <1>2, <3>1, <3>2, <3>3 DEF Refuse, Unavailable, Duplicate, InsertFailed,
               AnswerLost, AnswerDropped
  <2> QED BY <2>1, <2>3, <2>4 DEF BidsOK
<1>3. CASE Admit
  BY <1>0, <1>3, BidsOfRecords, OwnAllowed DEF Admit, BidsOK, AuditRec
<1>4. CASE Post
  BY <1>4 DEF Post, BidsOK
<1>5. CASE SentSaved \/ WorkerSaved \/ WorkerFinalSaved \/ WorkerDropped \/ RemainderSaved
  <2>1. word \in Orders /\ (Land(word, wsnap) \/ Land(word, Blank))
    BY <1>0, <1>5 DEF SentSaved, WorkerSaved, WorkerFinalSaved, WorkerDropped, RemainderSaved
  <2>2. \A p \in Orders : row'[p].bid \in Allowed(p)
    BY <2>1, LandKeepsBids, BidsOfRecords, OwnAllowed DEF BidsOK
  <2>3. UNCHANGED <<mem, audit, usnap, rsnap, rord, rpc>>
    BY <1>5 DEF SentSaved, WorkerSaved, WorkerFinalSaved, WorkerDropped, RemainderSaved
  <2>4. wsnap'.bid = NoBid \/ UNCHANGED <<wsnap, word>>
    BY <1>5, BidsOfRecords, OwnAllowed DEF SentSaved, WorkerSaved, WorkerFinalSaved, WorkerDropped,
       RemainderSaved, WorkerIdle
  <2> QED BY <2>2, <2>3, <2>4, OwnAllowed DEF BidsOK
<1>6. CASE RemainderQueued
  BY <1>6, BidsOfRecords, OwnAllowed DEF RemainderQueued, WorkerIdle, BidsOK
<1>7. CASE RetryQueued
  <2>1. word \in Orders /\ UNCHANGED <<row, audit, usnap, word, rsnap, rord, rpc>>
    BY <1>0, <1>7 DEF RetryQueued
  <2>2. /\ \A p \in Orders : mem'[p].bid = mem[p].bid
        /\ wsnap'.bid = mem[word].bid
    BY <1>7, <2>1, BidsOfRecords, OwnAllowed DEF RetryQueued, OrderRec
  <2> QED BY <2>1, <2>2 DEF BidsOK
<1> QED BY <1>1, <1>2, <1>3, <1>4, <1>5, <1>6, <1>7 DEF WorkerStep

--------------------------------------------------------------------------------
(* The reconciler: a lookup by correlation id returns the order's own, a    *)
(* scan the orders alike.                                                        *)
LEMMA AllowedVerdict ==
  ASSUME TypeOK, BidsOK, rord \in Orders,
         NEW S \in SUBSET (Allowed(rord) \cap Orders), NEW T \in SUBSET (Allowed(rord) \cap Orders),
         NEW c \in {Found(S), Failed}, NEW a \in {Found(T), Failed}, NEW n, NEW g,
         NEW b \in {NoBid, mem[rord].bid}
  PROVE  Reconcile(b, c, a, n, g).id \in Allowed(rord)
<1>1. ASSUME NEW U \in SUBSET (Allowed(rord) \cap Orders)
      PROVE  Judge({Match(p) : p \in U}).id \in Allowed(rord)
  BY OwnAllowed DEF Judge, Match
<1>2. /\ \/ c.matches = {Match(p) : p \in S} \/ c.matches = {}
      /\ \/ a.matches = {Match(p) : p \in T} \/ a.matches = {}
  BY DEF Found, Failed
<1>3. b \in Allowed(rord) /\ NoBid \in Allowed(rord)
  BY OwnAllowed DEF BidsOK
<1>4. CASE b # NoBid
  BY <1>3, <1>4 DEF Reconcile
<1>5. CASE b = NoBid
  BY <1>1, <1>2, <1>3, <1>5 DEF Reconcile
<1> QED BY <1>4, <1>5

LEMMA ConcludeBids ==
  ASSUME TypeOK, BidsOK, rord \in Orders, NEW v, v.id \in Allowed(rord),
         v.verdict \in Verdicts, Conclude(v)
  PROVE  /\ \A p \in Orders : mem'[p].bid \in Allowed(p)
         /\ rsnap'.bid \in Allowed(rord)
         /\ rpc' \in {"saving", "saving_final", "saving_retry"}
<1> DEFINE old  == mem[rord]
           done == CASE v.verdict = "ACCEPTED"  ->
                     [old EXCEPT !.state = "PENDING", !.bid = v.id, !.absent = 0]
                [] v.verdict = "REJECTED"  ->
                     [old EXCEPT !.state = "REJECTED", !.absent = 0]
                [] v.verdict = "AMBIGUOUS" -> [old EXCEPT !.state = "AMBIGUOUS"]
                [] v.verdict = "NOT_FOUND" ->
                     [old EXCEPT !.state = "QUEUED", !.absent = Count(@),
                                 !.retries = @ + 1]
                [] v.verdict = "UNKNOWN"   ->
                     [old EXCEPT !.state = "UNKNOWN", !.absent = Count(@)]
<1>1. mem' = [mem EXCEPT ![rord] = done] /\ rsnap' = done
  BY DEF Conclude
<1>2. done.bid \in Allowed(rord)
  <2>1. old \in OrderRec /\ old.bid \in Allowed(rord)
    BY BidsOfRecords, OwnAllowed DEF BidsOK
  <2>2. CASE v.verdict = "ACCEPTED"
    BY <2>1, <2>2 DEF OrderRec
  <2>3. CASE v.verdict = "REJECTED"
    BY <2>1, <2>3 DEF OrderRec
  <2>4. CASE v.verdict = "AMBIGUOUS"
    BY <2>1, <2>4 DEF OrderRec
  <2>5. CASE v.verdict = "NOT_FOUND"
    BY <2>1, <2>5 DEF OrderRec
  <2>6. CASE v.verdict = "UNKNOWN"
    BY <2>1, <2>6 DEF OrderRec
  <2> QED BY <2>2, <2>3, <2>4, <2>5, <2>6 DEF Verdicts
<1>3. rpc' \in {"saving", "saving_final", "saving_retry"}
  BY DEF Conclude
<1> HIDE DEF done
<1> QED BY <1>1, <1>2, <1>3, BidsOfRecords, OwnAllowed DEF BidsOK

LEMMA LookupBids ==
  ASSUME TypeOK, BidsOK, Correlate \/ Scan
  PROVE  BidsOK'
<1> USE DEF store, worker, request
<1>1. rord \in Orders /\ UNCHANGED <<row, audit, usnap, wsnap, word, rord>>
  BY DEF TypeOK, TypeRecon, Correlate, Scan
<1>2. ASSUME NEW b \in {NoBid, mem[rord].bid}, NEW S \in SUBSET (Allowed(rord) \cap Orders),
             NEW T \in SUBSET (Allowed(rord) \cap Orders),
             NEW c \in {Found(S), Failed}, NEW a \in {Found(T), Failed}, NEW g \in BOOLEAN,
             Conclude(Reconcile(b, c, a, mem[rord].absent, g))
      PROVE  BidsOK'
  <2>1. Reconcile(b, c, a, mem[rord].absent, g).id \in Allowed(rord)
    BY <1>1, AllowedVerdict
  <2>2. Reconcile(b, c, a, mem[rord].absent, g).verdict \in Verdicts
    <3>1. \A m : Judge(m).verdict \in Verdicts
      BY DEF Judge, Verdicts
    <3> QED BY <3>1 DEF Reconcile, Verdicts
  <2> QED BY <1>1, <1>2, <2>1, <2>2, ConcludeBids DEF BidsOK
<1>3. CASE Correlate
  <2>1. CASE rpc' = "scanning" /\ UNCHANGED <<mem, rsnap>>
    BY <1>1, <2>1 DEF BidsOK
  <2>2. CASE Conclude(Reconcile(mem[rord].bid, Found({rord}), Failed, mem[rord].absent, FALSE))
    <3>1. {rord} \in SUBSET (Allowed(rord) \cap Orders)
      BY <1>1, OwnAllowed
    <3> QED BY <1>2, <2>2, <3>1
  <2>3. CASE Conclude(Reconcile(NoBid, Failed, Failed, mem[rord].absent, FALSE))
    BY <1>2, <2>3
  <2> QED BY <1>3, <2>1, <2>2, <2>3 DEF Correlate
<1>4. CASE Scan
  <2>1. \A S \in Candidates(rord) : S \in SUBSET (Allowed(rord) \cap Orders)
    BY <1>1 DEF Candidates, Allowed
  <2>2. ASSUME NEW S \in Candidates(rord), NEW g \in BOOLEAN,
               Conclude(Reconcile(NoBid, Found({}), Found(S), mem[rord].absent, g))
        PROVE  BidsOK'
    BY <1>2, <2>1, <2>2
  <2>3. CASE Conclude(Reconcile(NoBid, Found({}), Failed, mem[rord].absent, FALSE))
    BY <1>2, <2>3
  <2> QED BY <1>4, <2>2, <2>3 DEF Scan
<1> QED BY <1>3, <1>4

LEMMA ReconBids ==
  ASSUME TypeOK, BidsOK, ReconStep
  PROVE  BidsOK'
<1> USE DEF store, worker, request
<1>0. rpc \notin {"idle", "unknown", "book"} => rord \in Orders
  BY DEF TypeOK, TypeRecon
<1>1. CASE Correlate \/ Scan
  BY <1>1, LookupBids
<1>2. ASSUME NEW o \in Orders, Investigate(o) \/ ApplyRemote(o)
      PROVE  BidsOK'
  <2>1. UNCHANGED <<row, audit, usnap, wsnap, word>>
    BY <1>2 DEF Investigate, ApplyRemote
  <2>2. \/ \E s : /\ mem' = WithState(o, s) /\ rord' = o
                  /\ rsnap' = [mem[o] EXCEPT !.state = s]
                  /\ rpc' \notin {"dropping", "requeueing"}
        \/ UNCHANGED <<mem, rord, rsnap, rpc>>
    BY <1>2 DEF Investigate, ApplyRemote
  <2>3. \A p \in Orders : mem'[p].bid = mem[p].bid
    BY <2>2, BidsOfRecords DEF WithState, OrderRec
  <2>4. \/ rsnap'.bid = mem[o].bid /\ rord' = o /\ rpc' \notin {"dropping", "requeueing"}
        \/ UNCHANGED <<rord, rsnap, rpc>>
    BY <1>2, <2>2, BidsOfRecords DEF OrderRec
  <2> QED BY <1>2, <2>1, <2>3, <2>4 DEF BidsOK
<1>3. CASE Marked \/ VerdictSaved \/ VerdictDropped \/ PartialSaved \/ ClosedSaved
  <2>1. rord \in Orders /\ (Land(rord, rsnap) \/ Land(rord, Blank))
    BY <1>0, <1>3 DEF Marked, VerdictSaved, VerdictDropped, PartialSaved, ClosedSaved
  <2>2. \A p \in Orders : row'[p].bid \in Allowed(p)
    BY <2>1, LandKeepsBids, BidsOfRecords, OwnAllowed DEF BidsOK
  <2>3. UNCHANGED <<mem, audit, usnap, wsnap, word>>
    BY <1>3 DEF Marked, VerdictSaved, VerdictDropped, PartialSaved, ClosedSaved
  <2>4. /\ rsnap'.bid \in Allowed(rord')
        /\ rpc' \in {"dropping", "requeueing"} => rsnap'.bid = NoBid
    BY <1>3, BidsOfRecords, OwnAllowed DEF Marked, VerdictSaved, VerdictDropped, PartialSaved, ClosedSaved,
       BidsOK
  <2> QED BY <2>2, <2>3, <2>4 DEF BidsOK
<1>4. CASE VerdictRequeued
  BY <1>4, OwnAllowed DEF VerdictRequeued, BidsOK
<1>5. CASE Closed
  <2>1. rord \in Orders
    BY <1>0, <1>5 DEF Closed
  <2>2. /\ \A p \in Orders : row'[p].bid \in Allowed(p)
        /\ \A p \in Orders : audit'[p].bid \in {NoBid, p}
    BY <1>5, <2>1, LandKeepsBids, MirrorKeepsBids, BidsOfRecords, OwnAllowed DEF Closed
  <2> QED BY <1>5, <2>2, BidsOfRecords, OwnAllowed DEF Closed, BidsOK
<1>6. CASE PassBegin \/ FetchBook \/ BookDone
  BY <1>6 DEF PassBegin, FetchBook, BookDone, BidsOK
<1> QED BY <1>1, <1>2, <1>3, <1>4, <1>5, <1>6 DEF ReconStep

--------------------------------------------------------------------------------
LEMMA NextBids ==
  TypeOK /\ BidsOK /\ [Next]_vars => BidsOK'
<1> SUFFICES ASSUME TypeOK, BidsOK, [Next]_vars PROVE BidsOK'
  OBVIOUS
<1>1. CASE \E o \in Orders : PlaceStep(o) \/ RequestStep(o)
  BY <1>1, PlaceBids, RequestBids
<1>2. CASE WorkerStep
  BY <1>2, WorkerBids
<1>3. CASE ReconStep
  BY <1>3, ReconBids
<1>4. CASE BrokerStep
  BY <1>4 DEF BrokerStep, BrokerShows, BrokerMoves, BidsOK, store, worker, recon, request
<1>5. CASE Restart
  BY <1>5, BidsOfRecords, OwnAllowed DEF Restart, Recovered, WorkerIdle, BidsOK
<1>6. CASE UNCHANGED vars
  BY <1>6 DEF vars, store, worker, recon, request, BidsOK
<1> QED BY <1>1, <1>2, <1>3, <1>4, <1>5, <1>6 DEF Next

LEMMA InitBids == Init => BidsOK
BY OwnAllowed DEF Init, BidsOK, Blank

\* However answers are lost, orders recovered and broker orders matched by attributes, an
\* order only ever carries the id of the broker order it made or of one that agrees in
\* every attribute the local side knows (attributes_match, OrderReconciler.reconcile,
\* _reconcile_one_unknown).
THEOREM AdoptsAlike == Spec => []AdoptsOnlyAlike
<1>1. TypeOK /\ BidsOK => AdoptsOnlyAlike
  BY NoBidAssumption DEF BidsOK, AdoptsOnlyAlike, Allowed
<1>2. TypeOK /\ BidsOK /\ [Next]_vars => BidsOK'
  BY NextBids
<1>3. Spec => []TypeOK
  BY TypeCorrect
<1> QED BY <1>1, <1>2, <1>3, InitBids, PTL DEF Spec
================================================================================
