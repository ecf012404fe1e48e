--------------------------- MODULE StrategyRuntime ---------------------------
(***************************************************************************)
(* The lifecycle of one strategy in the strategy runtime                   *)
(* (strategy_runtime/manager.py), the worker task that evaluates it        *)
(* (workers.py), its checkpoint (state_store.py), the recovery that        *)
(* follows a restart of the process (recovery.py) and the user's           *)
(* emergency stop (risk/kill_switch.py).                                   *)
(*                                                                         *)
(* A step ends at an await.  Lifecycle calls come from routes, the         *)
(* scheduler and broker events, each in a task of its own, and nothing     *)
(* makes one wait for another; records of different strategies share       *)
(* nothing.  A tick stands for one that closes a candle.                   *)
(***************************************************************************)
EXTENDS Naturals, FiniteSets

CONSTANTS
    Tasks,       \* tasks that can run a lifecycle call at once
    Workers,     \* StrategyWorker objects alive at once
    QueueMax,    \* bound of a worker's tick queue (QUEUE_MAX)
    MaxCrashes,  \* restarts of the process in a behaviour
    Events,      \* what may happen: "crash", "fail", "load", "emergency", "dryrun",
                 \* "store" (a call of the checkpoint store fails)
    AfterOverlap,\* whether calls still begin, and the store still fails, once two
                 \* have overlapped (a bound)
    None         \* no worker

ASSUME RuntimeAssumption ==
    /\ IsFiniteSet(Tasks) /\ IsFiniteSet(Workers)
    /\ QueueMax \in Nat \ {0} /\ MaxCrashes \in Nat
    /\ AfterOverlap \in BOOLEAN
    /\ None \notin Workers

VARIABLES
    state,       \* record.state, "none" when the registry has no record
    worker,      \* record.worker
    rt,          \* the worker objects
    task,        \* the lifecycle calls under way
    checkpoint,  \* the row of the store: the state it names, or "none"
    emergency,   \* KillSwitch._emergency_stops of the user
    stored,      \* the user's emergency key in Redis
    booted,      \* the recovery of this process has begun
    crashes,
    missed,      \* what the store missed in this process: "write", the last write of
                 \* the row; "read", the one of the recovery (observation)
    overlapped   \* two tasks were at work on the record at once (observation)

vars == <<state, worker, rt, task, checkpoint, emergency, stored, booted,
          crashes, missed, overlapped>>
store == <<checkpoint, missed>>

-----------------------------------------------------------------------------
(* Lifecycle states and the table require_transition consults. *)

States == {"STARTING", "RUNNING", "PAUSED", "STOPPED", "FAILED"}

Transitions ==
    [s \in States \cup {"none"} |->
        CASE s = "none"     -> {"STARTING"}
          [] s = "STARTING" -> {"RUNNING", "FAILED", "STOPPED"}
          [] s = "RUNNING"  -> {"PAUSED", "STOPPED", "FAILED"}
          [] s = "PAUSED"   -> {"RUNNING", "STOPPED", "FAILED"}
          [] s = "STOPPED"  -> {"STARTING", "FAILED"}
          [] s = "FAILED"   -> {"STARTING", "STOPPED"}]

Restorable(s) == s \notin {"none", "STOPPED", "FAILED"}

(* A worker: whether the tick dispatcher feeds it, whether it may evaluate,
   what its task is doing ("off" and "unloaded": it has none, its code did not
   load), its queue, whether a dry run holds the evaluation lock, and how many
   evaluations got an order through while it was not allowed to evaluate
   (observation). *)
Phases == {"off", "unloaded", "idle", "due", "evaluating", "gate", "placing",
           "failing", "ending"}
Gone == [attached |-> FALSE, allowed |-> FALSE, phase |-> "off",
         queue |-> 0, dryrun |-> FALSE, late |-> 0]
Fresh == [Gone EXCEPT !.attached = TRUE]

Places == {"idle", "guard", "loading", "halting", "removing", "saving",
           "engaging", "releasing"}
Calls == {"none", "start", "recover", "stop", "restart", "save", "emergency"}
Idle == [at |-> "idle", call |-> "none", own |-> None, dump |-> "none"]
At(place, call, own, dump) == [at |-> place, call |-> call, own |-> own, dump |-> dump]

Live(w) == rt[w].phase \notin {"off", "unloaded"}
Busy == {t \in Tasks : task[t].at # "idle"}
Failing == {w \in Workers : rt[w].phase = "failing"}
InUse == {w \in Workers : \/ rt[w].attached \/ rt[w].dryrun \/ Live(w) \/ w = worker
                          \/ \E t \in Tasks : task[t].own = w}

TypeOK ==
    /\ state \in States \cup {"none"}
    /\ worker \in Workers \cup {None}
    /\ rt \in [Workers -> [attached : BOOLEAN, allowed : BOOLEAN, phase : Phases,
                           queue : 0..QueueMax, dryrun : BOOLEAN, late : Nat]]
    /\ task \in [Tasks -> [at : Places, call : Calls, own : Workers \cup {None},
                           dump : States \cup {"none"}]]
    /\ checkpoint \in States \cup {"none"}
    /\ emergency \in BOOLEAN /\ stored \in BOOLEAN /\ booted \in BOOLEAN
    /\ crashes \in 0..MaxCrashes /\ overlapped \in BOOLEAN
    /\ missed \subseteq {"write", "read"}

Init ==
    /\ state = "none" /\ worker = None
    /\ rt = [w \in Workers |-> Gone]
    /\ task = [t \in Tasks |-> Idle]
    /\ checkpoint = "none"
    /\ emergency = FALSE /\ stored = FALSE
    /\ booted = TRUE /\ crashes = 0 /\ missed = {} /\ overlapped = FALSE

-----------------------------------------------------------------------------
(* Building blocks of the calls. *)

Go(t, next) == task' = [task EXCEPT ![t] = next]

(* A call begins in a task that has none; it overlaps when another call, or
   the callback of a failed worker, is under way. *)
MarkOverlap == overlapped' = (overlapped \/ Busy # {} \/ Failing # {})

MayBegin(t) == task[t].at = "idle" /\ (overlapped => AfterOverlap)

Call(t, next) == MayBegin(t) /\ Go(t, next) /\ MarkOverlap

Keeps == UNCHANGED <<emergency, stored, booted, crashes>>

(* The row is written, or the call fails, which is logged and forgotten. *)
Store(row) ==
    \/ checkpoint' = row /\ missed' = missed \ {"write"}
    \/ /\ "store" \in Events /\ (overlapped => AfterOverlap)
       /\ missed' = missed \cup {"write"} /\ UNCHANGED checkpoint

(* save() takes the record's state before it awaits the store. *)
SaveOf(s) == At("saving", "save", None, s)

(* _start_running up to the await of worker.start: the record is STARTING
   and owns a new worker that the dispatcher already feeds. *)
StartRunning(t, call, dump) ==
    \E w \in Workers \ InUse :
        /\ state' = "STARTING"
        /\ worker' = w
        /\ rt' = [rt EXCEPT ![w] = Fresh]
        /\ Go(t, At("loading", call, w, dump))

-----------------------------------------------------------------------------
(* start_strategy: the guard's await, then the check of the record. *)

Start(t) ==
    /\ Call(t, At("guard", "start", None, "none"))
    /\ UNCHANGED <<state, worker, rt, store>> /\ Keeps

Guard(t) ==
    /\ task[t].at = "guard"
    /\ IF emergency \/ "STARTING" \notin Transitions[state]
       THEN Go(t, Idle) /\ UNCHANGED <<state, worker, rt>>
       ELSE StartRunning(t, task[t].call, task[t].dump)
    /\ UNCHANGED <<store, overlapped>> /\ Keeps

(* worker.start returns and _start_running goes on to its save.  It looks
   neither at the record nor at the worker again. *)
Loaded(t) ==
    /\ task[t].at = "loading"
    /\ rt' = [rt EXCEPT ![task[t].own].allowed = TRUE, ![task[t].own].phase = "idle"]
    /\ state' = "RUNNING"
    /\ Go(t, At("saving", task[t].call, None, "RUNNING"))
    /\ UNCHANGED <<worker, store, overlapped>> /\ Keeps

(* load_strategy raises out of the call: nobody takes STARTING back. *)
LoadFails(t) ==
    /\ "load" \in Events /\ task[t].at = "loading"
    /\ rt' = [rt EXCEPT ![task[t].own].phase = "unloaded"]
    /\ Go(t, Idle)
    /\ UNCHANGED <<state, worker, store, overlapped>> /\ Keeps

(* The save returns.  A restart saves once more with its new count; the
   recovery of a paused strategy pauses it now. *)
Saved(t) ==
    /\ task[t].at = "saving"
    /\ Store(task[t].dump)
    /\ UNCHANGED <<worker, overlapped>> /\ Keeps
    /\ \/ /\ task[t].call \in {"start", "save"}
          /\ Go(t, Idle) /\ UNCHANGED <<state, rt>>
       \/ /\ task[t].call = "restart"
          /\ Go(t, SaveOf(state)) /\ UNCHANGED <<state, rt>>
       \/ /\ task[t].call = "recover"
          /\ IF "PAUSED" \in Transitions[state]
             THEN /\ state' = "PAUSED"
                  /\ rt' = [w \in Workers |->
                              IF w = worker THEN [rt[w] EXCEPT !.allowed = FALSE] ELSE rt[w]]
                  /\ Go(t, SaveOf("PAUSED"))
             ELSE Go(t, Idle) /\ UNCHANGED <<state, rt>>

-----------------------------------------------------------------------------
(* stop_strategy and restart_strategy share _halt_worker: the record lets go
   of the worker, the dispatcher too, the task is cancelled at its await and
   awaited.  A record without a worker is halted without an await. *)

Halt(t, call) ==
    /\ worker # None
    /\ rt' = [rt EXCEPT ![worker] = [@ EXCEPT
                 !.attached = FALSE, !.allowed = FALSE,
                 !.phase = IF Live(worker) THEN "ending" ELSE "off"]]
    /\ worker' = None
    /\ Call(t, At("halting", call, worker, "none"))
    /\ UNCHANGED <<state, store>> /\ Keeps

Stop(t) ==
    /\ "STOPPED" \in Transitions[state]
    /\ \/ Halt(t, "stop")
       \/ /\ worker = None
          /\ state' = "STOPPED"
          /\ Call(t, At("removing", "stop", None, "none"))
          /\ UNCHANGED <<worker, rt, store>> /\ Keeps

Restart(t) ==
    /\ state \in {"RUNNING", "PAUSED", "FAILED", "STOPPED"}
    /\ \/ Halt(t, "restart")
       \/ /\ worker = None /\ MayBegin(t)
          /\ StartRunning(t, "restart", "none") /\ MarkOverlap
          /\ UNCHANGED store /\ Keeps

(* Mutant: the cancelled task is not awaited. *)
HaltedAtOnce(t) ==
    /\ task[t].at = "halting"
    /\ \/ /\ task[t].call = "stop"
          /\ state' = "STOPPED" /\ worker' = None
          /\ Go(t, At("removing", "stop", None, "none"))
          /\ UNCHANGED rt
       \/ task[t].call = "restart" /\ StartRunning(t, "restart", "none")
    /\ UNCHANGED <<store, overlapped>> /\ Keeps

Halted(t) ==
    /\ task[t].at = "halting" /\ ~Live(task[t].own)
    /\ \/ /\ task[t].call = "stop"
          /\ state' = "STOPPED" /\ worker' = None
          /\ Go(t, At("removing", "stop", None, "none"))
          /\ UNCHANGED rt
       \/ task[t].call = "restart" /\ StartRunning(t, "restart", "none")
    /\ UNCHANGED <<store, overlapped>> /\ Keeps

Removed(t) ==
    /\ task[t].at = "removing"
    /\ Store("none")
    /\ Go(t, Idle)
    /\ UNCHANGED <<state, worker, rt, overlapped>> /\ Keeps

-----------------------------------------------------------------------------
(* pause_strategy and resume_strategy act at once and then save.  The table
   lets a strategy be resumed that is still, or for ever, STARTING. *)

Allow(value) ==
    rt' = [w \in Workers |->
             IF w = worker
             THEN [rt[w] EXCEPT !.allowed = value, !.late = IF value THEN 0 ELSE @]
             ELSE rt[w]]

Pause(t) ==
    /\ "PAUSED" \in Transitions[state]
    /\ state' = "PAUSED" /\ Allow(FALSE)
    /\ Call(t, SaveOf("PAUSED"))
    /\ UNCHANGED <<worker, store>> /\ Keeps

Resume(t) ==
    /\ "RUNNING" \in Transitions[state]
    /\ state' = "RUNNING" /\ Allow(TRUE)
    /\ Call(t, SaveOf("RUNNING"))
    /\ UNCHANGED <<worker, store>> /\ Keeps

(* emergency_stop: the flag in memory at once, then Redis and the audit
   trail, then the pause of a running strategy. *)
Engage(t) ==
    /\ "emergency" \in Events
    /\ emergency' = TRUE
    /\ Call(t, At("engaging", "emergency", None, "none"))
    /\ UNCHANGED <<state, worker, rt, store, stored, booted, crashes>>

Engaged(t) ==
    /\ task[t].at = "engaging"
    /\ stored' = TRUE
    /\ IF state = "RUNNING"
       THEN state' = "PAUSED" /\ Allow(FALSE) /\ Go(t, SaveOf("PAUSED"))
       ELSE UNCHANGED <<state, rt>> /\ Go(t, Idle)
    /\ UNCHANGED <<worker, store, emergency, booted, crashes, overlapped>>

Release(t) ==
    /\ emergency
    /\ emergency' = FALSE
    /\ Call(t, At("releasing", "emergency", None, "none"))
    /\ UNCHANGED <<state, worker, rt, store, stored, booted, crashes>>

Released(t) ==
    /\ task[t].at = "releasing"
    /\ stored' = FALSE
    /\ Go(t, Idle)
    /\ UNCHANGED <<state, worker, rt, store, emergency, booted, crashes, overlapped>>

-----------------------------------------------------------------------------
(* The worker's task. *)

Phase(w, phase) == rt' = [rt EXCEPT ![w].phase = phase]
TaskKeeps == UNCHANGED <<state, worker, task, store, overlapped>> /\ Keeps

(* Mutant: a queue without its bound. *)
ReceivesAny(w) == rt[w].attached /\ rt[w].allowed

Receives(w) == rt[w].attached /\ rt[w].allowed /\ rt[w].queue < QueueMax

(* The dispatcher offers a tick to every attached worker; a full queue and a
   worker that may not evaluate drop it. *)
Tick ==
    /\ \E w \in Workers : Receives(w)
    /\ rt' = [w \in Workers |->
                IF Receives(w) THEN [rt[w] EXCEPT !.queue = @ + 1] ELSE rt[w]]
    /\ TaskKeeps

(* Mutant: a queued candle is evaluated whatever the worker may do by now. *)
TakeAny(w) ==
    /\ rt[w].phase = "idle" /\ rt[w].queue > 0
    /\ rt' = [rt EXCEPT ![w].queue = @ - 1, ![w].phase = "due"]
    /\ TaskKeeps

(* The candle is marked seen; it is evaluated if that is allowed now. *)
Take(w) ==
    /\ rt[w].phase = "idle" /\ rt[w].queue > 0
    /\ rt' = [rt EXCEPT ![w].queue = @ - 1,
                        ![w].phase = IF rt[w].allowed THEN "due" ELSE "idle"]
    /\ TaskKeeps

(* The evaluation lock is granted; nothing is looked at again. *)
Evaluate(w) ==
    /\ rt[w].phase = "due" /\ ~rt[w].dryrun
    /\ Phase(w, "evaluating")
    /\ TaskKeeps

(* on_candle answers with orders or without, or raises below the limit. *)
Evaluated(w) ==
    /\ rt[w].phase = "evaluating"
    /\ \E next \in {"idle", "gate"} : Phase(w, next)
    /\ TaskKeeps

(* assert_orders_allowed right before the order. *)
Gate(w) ==
    /\ rt[w].phase = "gate"
    /\ rt' = [rt EXCEPT ![w].phase = IF emergency THEN "idle" ELSE "placing",
                        ![w].late = IF emergency \/ rt[w].allowed THEN @ ELSE @ + 1]
    /\ TaskKeeps

Placed(w) ==
    /\ rt[w].phase = "placing"
    /\ Phase(w, "idle")
    /\ TaskKeeps

(* The evaluation that reaches the error limit ends the task: the record's
   worker is detached, whichever it is, and the record FAILED. *)
Fail(w) ==
    /\ "fail" \in Events /\ rt[w].phase = "evaluating"
    /\ rt' = [v \in Workers |->
                [rt[v] EXCEPT !.phase = IF v = w THEN "failing" ELSE @,
                              !.attached = @ /\ v # worker]]
    /\ worker' = None
    /\ state' = "FAILED"
    /\ MarkOverlap
    /\ UNCHANGED <<task, store>> /\ Keeps

(* The worker's task is over; nothing holds the object any more but a dry run. *)
Leaves(w) == rt' = [rt EXCEPT ![w] = [Gone EXCEPT !.dryrun = rt[w].dryrun]]

(* Mutant: the failure leaves the checkpoint in place. *)
FailedKept(w) ==
    /\ rt[w].phase = "failing"
    /\ Phase(w, "off")
    /\ UNCHANGED <<state, worker, task, store, overlapped>> /\ Keeps

Failed(w) ==
    /\ rt[w].phase = "failing"
    /\ Store("none")
    /\ Leaves(w)
    /\ UNCHANGED <<state, worker, task, overlapped>> /\ Keeps

(* The cancelled task leaves its loop. *)
Ended(w) ==
    /\ rt[w].phase = "ending"
    /\ Leaves(w)
    /\ TaskKeeps

(* manual_evaluate holds the evaluation lock and places nothing. *)
DryRun(w) ==
    /\ "dryrun" \in Events
    /\ state = "RUNNING" /\ worker = w /\ rt[w].allowed
    /\ rt[w].phase \in {"idle", "due"} /\ ~rt[w].dryrun
    /\ rt' = [rt EXCEPT ![w].dryrun = TRUE]
    /\ TaskKeeps

DryRunEnds(w) ==
    /\ rt[w].dryrun
    /\ rt' = [rt EXCEPT ![w].dryrun = FALSE]
    /\ TaskKeeps

-----------------------------------------------------------------------------
(* A restart of the process loses all but the store and Redis.  Nothing calls
   KillSwitch.recover, so the emergency flag starts as FALSE. *)

Crash ==
    /\ "crash" \in Events /\ crashes < MaxCrashes
    /\ crashes' = crashes + 1
    /\ state' = "none" /\ worker' = None
    /\ rt' = [w \in Workers |-> Gone]
    /\ task' = [t \in Tasks |-> Idle]
    /\ emergency' = FALSE /\ booted' = FALSE /\ missed' = {} /\ overlapped' = FALSE
    /\ UNCHANGED <<checkpoint, stored>>

(* Mutant: every strategy comes back RUNNING. *)
RecoverRunning(t) ==
    /\ ~booted
    /\ booted' = TRUE
    /\ Call(t, IF Restorable(checkpoint) /\ state = "none"
               THEN At("guard", "start", None, "none") ELSE Idle)
    /\ UNCHANGED <<state, worker, rt, store, emergency, stored, crashes>>

(* RuntimeRecovery.recover: the row is read, and a strategy nobody has
   registered meanwhile goes through start_strategy.  A store that cannot be
   read has no rows. *)
Recover(t) ==
    /\ ~booted
    /\ booted' = TRUE
    /\ \/ /\ Call(t, IF Restorable(checkpoint) /\ state = "none"
                     THEN At("guard", IF checkpoint = "PAUSED" THEN "recover" ELSE "start",
                             None, "none")
                     ELSE Idle)
          /\ UNCHANGED missed
       \/ "store" \in Events /\ Call(t, Idle) /\ missed' = missed \cup {"read"}
    /\ UNCHANGED <<state, worker, rt, checkpoint, emergency, stored, crashes>>

Begin(t) ==
    \/ Start(t) \/ Stop(t) \/ Restart(t) \/ Pause(t) \/ Resume(t)
    \/ Engage(t) \/ Release(t)

Continue(t) ==
    \/ Guard(t) \/ Loaded(t) \/ Saved(t) \/ Halted(t) \/ Removed(t)
    \/ Engaged(t) \/ Released(t)

Works(w) ==
    \/ Take(w) \/ Evaluate(w) \/ Evaluated(w) \/ Gate(w) \/ Placed(w)
    \/ Failed(w) \/ Ended(w)

Next ==
    \/ \E t \in Tasks : Begin(t) \/ Continue(t) \/ LoadFails(t) \/ Recover(t)
    \/ \E w \in Workers : Works(w) \/ Fail(w) \/ DryRun(w) \/ DryRunEnds(w)
    \/ Tick
    \/ Crash

Spec == Init /\ [][Next]_vars

(* The calls under way go on, and the recovery runs.  The workers owe nothing. *)
FairSpec ==
    /\ Spec
    /\ WF_vars(\E t \in Tasks : Continue(t))
    /\ WF_vars(\E t \in Tasks : Recover(t))

-----------------------------------------------------------------------------
(* Properties. *)

Settled ==
    /\ Busy = {} /\ Failing = {} /\ ~overlapped

Stranded ==
    state = "STARTING" /\ \A t \in Tasks : task[t].at # "loading"

(* As long as no two tasks worked on the record at once, and none is at work,
   the record tells the truth: only its own worker is fed ticks or alive, a
   STOPPED or FAILED strategy has none, a RUNNING or PAUSED one has one that is
   alive, and it may evaluate exactly while the strategy is RUNNING.  The one
   exception: a strategy whose code did not load stays STARTING with a worker
   that has no task, and resume_strategy makes it RUNNING all the same. *)
RecordIsTrue ==
    Settled =>
        /\ \A w \in Workers :
              /\ rt[w].attached <=> w = worker
              /\ Live(w) => w = worker
        /\ worker # None <=> state \in {"RUNNING", "PAUSED"} \/ Stranded
        /\ worker # None =>
              /\ Live(worker) \/ rt[worker].phase = "unloaded"
              /\ rt[worker].allowed <=> state = "RUNNING"

(* In the same circumstances, and if the last write reached the store, the
   checkpoint says what a restart must bring back: a RUNNING or PAUSED strategy
   as it is, and no stopped or failed one. *)
CheckpointIsRecord ==
    Settled /\ "write" \notin missed =>
        /\ state \in {"RUNNING", "PAUSED"} => checkpoint = state
        /\ state \in {"STOPPED", "FAILED"} => checkpoint = "none"

(* However calls, dry runs and failures interleave, a worker that was told
   not to evaluate any more (paused, or halted by a stop or a restart) gets
   the orders of at most one more evaluation past the gate: the one already
   under way.  What its queue still holds is not traded. *)
OneMoreAtMost ==
    \A w \in Workers : rt[w].late <= 1

(* After a restart a strategy is brought back as its checkpoint says, unless
   somebody starts it before the recovery does, an emergency stop forbids it,
   its code does not load, it fails before it can be paused, the recovery could
   not read the store, or the process is restarted again. *)
RestoredAsSaved ==
    \A n \in 1..MaxCrashes : \A s \in {"RUNNING", "PAUSED"} :
        (~booted /\ crashes = n /\ checkpoint = s) ~>
            \/ state = s \/ (~booted /\ state # "none") \/ emergency
            \/ Stranded \/ state = "FAILED" \/ "read" \in missed \/ overlapped \/ crashes > n

(* While the stop is stored and nobody is at work on it, no order passes the
   gate.  kill_switch.py:10-11 promises that a stop survives restarts. *)
StopSurvivesRestarts ==
    [][\A w \in Workers :
          (rt[w].phase = "gate" /\ rt'[w].phase = "placing") =>
              ~stored \/ \E t \in Tasks : task[t].at = "releasing"]_vars
=============================================================================
