------------------------- MODULE StrategyRuntime_proofs -------------------------
(* Theorems about the strategy runtime, for every set of tasks, workers and events *)
(* and every bound.                                                                *)
EXTENDS StrategyRuntime, TLAPS

\* The row and what it missed are left alone together.
USE DEF store

WorkerType == [attached : BOOLEAN, allowed : BOOLEAN, phase : Phases,
               queue : 0..QueueMax, dryrun : BOOLEAN, late : Nat]
TaskType   == [at : Places, call : Calls, own : Workers \cup {None},
               dump : States \cup {"none"}]

LEMMA GoneType == Gone \in WorkerType
BY RuntimeAssumption DEF Gone, WorkerType, Phases

LEMMA FreshType == Fresh \in WorkerType
BY GoneType DEF Fresh, WorkerType

\* A record of which some fields get new values of their types is still a worker.
LEMMA PhaseType ==
  ASSUME NEW r \in WorkerType, NEW p \in Phases
  PROVE  /\ [r EXCEPT !.phase = p] \in WorkerType
         /\ \A q \in 0..QueueMax : [r EXCEPT !.queue = q, !.phase = p] \in WorkerType
         /\ \A n \in Nat : [r EXCEPT !.phase = p, !.late = n] \in WorkerType
BY DEF WorkerType

LEMMA AtType ==
  ASSUME NEW p \in Places, NEW c \in Calls, NEW o \in Workers \cup {None},
         NEW d \in States \cup {"none"}
  PROVE  At(p, c, o, d) \in TaskType
BY DEF At, TaskType

LEMMA IdleType == Idle \in TaskType
BY DEF Idle, TaskType, Places, Calls

CoreType ==
  /\ state \in States \cup {"none"}
  /\ worker \in Workers \cup {None}
  /\ rt \in [Workers -> WorkerType]
  /\ task \in [Tasks -> TaskType]
  /\ checkpoint \in States \cup {"none"}
  /\ crashes \in 0..MaxCrashes

Flags == /\ emergency \in BOOLEAN /\ stored \in BOOLEAN
         /\ booted \in BOOLEAN /\ overlapped \in BOOLEAN

\* The worker a call is loading is off, has traded nothing, and is nobody else's.
LoadInv ==
  /\ \A t \in Tasks : task[t].at = "loading" =>
       task[t].own \in Workers /\ rt[task[t].own].phase = "off" /\ rt[task[t].own].late = 0
  /\ \A t, u \in Tasks :
       task[t].at = "loading" /\ task[u].at = "loading" /\ task[t].own = task[u].own => t = u

\* Once an order of a worker that may not evaluate has passed, none of its evaluations is
\* under way.
LateInv ==
  \A w \in Workers :
    /\ rt[w].late <= 1
    /\ rt[w].late # 0 => ~rt[w].allowed /\ rt[w].phase \notin {"due", "evaluating", "gate"}

Inv == CoreType /\ LoadInv /\ LateInv

\* A worker leaves nothing behind but the lock of a dry run.
LEMMA LeavesNothing ==
  ASSUME CoreType, NEW w \in Workers, Leaves(w)
  PROVE  /\ rt' \in [Workers -> WorkerType]
         /\ rt'[w].phase = "off" /\ rt'[w].late = 0
         /\ rt'[w].attached = FALSE /\ rt'[w].allowed = FALSE
         /\ \A v \in Workers \ {w} : rt'[v] = rt[v]
<1> DEFINE r == [Gone EXCEPT !.dryrun = rt[w].dryrun]
<1>1. rt[w].dryrun \in BOOLEAN
  BY DEF CoreType, WorkerType
<1>2. /\ r \in WorkerType /\ r.phase = "off" /\ r.late = 0
      /\ r.attached = FALSE /\ r.allowed = FALSE
  BY <1>1, GoneType DEF WorkerType, Gone
<1>3. rt' = [rt EXCEPT ![w] = r]
  BY DEF Leaves
<1> HIDE DEF r
<1> QED BY <1>2, <1>3 DEF CoreType

LEMMA StoreType ==
  ASSUME CoreType, NEW row \in States \cup {"none"}, Store(row)
  PROVE  checkpoint' \in States \cup {"none"} /\ (checkpoint' = row \/ "write" \in missed')
BY DEF CoreType, Store

LEMMA InitInv == Init => Inv
<1> SUFFICES ASSUME Init PROVE Inv
  OBVIOUS
<1>1. CoreType
  BY GoneType, IdleType, RuntimeAssumption DEF Init, CoreType, States
<1>2. LoadInv /\ LateInv
  BY DEF Init, LoadInv, LateInv, Idle, Gone
<1> QED BY <1>1, <1>2 DEF Inv

--------------------------------------------------------------------------------
(* The steps of a worker. *)

LEMMA WorkerSteps ==
  ASSUME Inv, NEW w \in Workers,
         Take(w) \/ Evaluate(w) \/ Evaluated(w) \/ Placed(w) \/ Ended(w)
  PROVE  Inv'
<1> USE DEF Inv, CoreType, LoadInv, LateInv, TaskKeeps, Keeps, WorkerType, Phases
<1>1. CASE Take(w)
  <2>1. rt[w].queue \in 1..QueueMax
    BY <1>1, RuntimeAssumption DEF Take
  <2>2. rt[w].queue - 1 \in 0..QueueMax
    BY <2>1, RuntimeAssumption
  <2>3. CASE rt[w].allowed
    <3>1. rt' = [rt EXCEPT ![w].queue = rt[w].queue - 1, ![w].phase = "due"]
      BY <1>1, <2>3 DEF Take
    <3> QED BY <1>1, <2>2, <2>3, <3>1 DEF Take
  <2>4. CASE ~rt[w].allowed
    <3>1. rt' = [rt EXCEPT ![w].queue = rt[w].queue - 1, ![w].phase = "idle"]
      BY <1>1, <2>4 DEF Take
    <3>2. [rt[w] EXCEPT !.queue = rt[w].queue - 1, !.phase = "idle"] \in WorkerType
      <4> HIDE DEF WorkerType
      <4> QED BY <2>2, PhaseType
    <3>4. rt' \in [Workers -> WorkerType]
      <4> HIDE DEF WorkerType
      <4> QED BY <3>1, <3>2
    <3>5. CoreType'
      BY <1>1, <3>4 DEF Take
    <3>3. LoadInv' /\ LateInv'
      BY <1>1, <2>4, <3>1 DEF Take
    <3> QED BY <3>3, <3>5
  <2> QED BY <2>3, <2>4
<1>2. CASE Evaluate(w)
  BY <1>2 DEF Evaluate, Phase
<1>3. CASE Evaluated(w)
  BY <1>3 DEF Evaluated, Phase
<1>4. CASE Placed(w)
  BY <1>4 DEF Placed, Phase
<1>5. CASE Ended(w)
  <2>1. Leaves(w) /\ rt[w].phase = "ending"
    BY <1>5 DEF Ended
  <2> HIDE DEF WorkerType
  <2>2. CoreType'
    BY <1>5, <2>1, LeavesNothing DEF Ended
  <2>3. LoadInv'
    BY <1>5, <2>1, LeavesNothing DEF Ended
  <2>4. rt'[w].late = 0 /\ \A v \in Workers \ {w} : rt'[v] = rt[v]
    BY <2>1, LeavesNothing
  <2>5. LateInv'
    BY <2>4
  <2> QED BY <2>2, <2>3, <2>5
<1> QED BY <1>1, <1>2, <1>3, <1>4, <1>5

LEMMA GateStep ==
  ASSUME Inv, NEW w \in Workers, Gate(w)
  PROVE  Inv'
<1> USE DEF Inv, CoreType, LoadInv, LateInv, TaskKeeps, Keeps, WorkerType, Phases
<1>1. CASE emergency \/ rt[w].allowed
  <2>1. rt' = [rt EXCEPT ![w].phase = IF emergency THEN "idle" ELSE "placing",
                         ![w].late = rt[w].late]
    BY <1>1 DEF Gate
  <2>2. rt' \in [Workers -> WorkerType]
    <3> HIDE DEF WorkerType
    <3>1. rt[w] \in WorkerType /\ rt[w].late \in Nat
      BY DEF WorkerType
    <3>2. rt'[w] = [rt[w] EXCEPT !.phase = IF emergency THEN "idle" ELSE "placing",
                                 !.late = rt[w].late]
      BY <2>1
    <3>3. rt'[w] \in WorkerType
      <4> DEFINE p == IF emergency THEN "idle" ELSE "placing"
      <4>1. p \in Phases
        OBVIOUS
      <4> HIDE DEF p
      <4>2. [rt[w] EXCEPT !.phase = p, !.late = rt[w].late] \in WorkerType
        BY <3>1, <4>1, PhaseType
      <4> QED BY <3>2, <4>2 DEF p
    <3> QED BY <2>1, <3>3
  <2>3. UNCHANGED <<state, worker, task, checkpoint, crashes>>
    BY DEF Gate
  <2>4. \A v \in Workers : rt'[v].late = rt[v].late /\ rt'[v].allowed = rt[v].allowed
    BY <2>1
  <2>5. \A v \in Workers \ {w} : rt'[v] = rt[v]
    BY <2>1
  <2>6. rt[w].phase = "gate" /\ rt'[w].phase \in {"idle", "placing"}
    BY <2>1 DEF Gate
  <2>7. LoadInv'
    BY <2>3, <2>5, <2>6
  <2>8. LateInv'
    BY <2>2, <2>4, <2>5, <2>6
  <2> QED BY <2>2, <2>3, <2>7, <2>8
<1>2. CASE ~(emergency \/ rt[w].allowed)
  <2>1. rt' = [rt EXCEPT ![w].phase = IF emergency THEN "idle" ELSE "placing",
                         ![w].late = rt[w].late + 1]
    BY <1>2 DEF Gate
  <2>2. rt[w].late = 0
    BY DEF Gate
  <2> QED BY <1>2, <2>1, <2>2 DEF Gate
<1> QED BY <1>1, <1>2

LEMMA OtherWorkerSteps ==
  ASSUME Inv, NEW w \in Workers, Fail(w) \/ Failed(w) \/ DryRun(w) \/ DryRunEnds(w)
  PROVE  Inv'
<1> USE DEF Inv, CoreType, LoadInv, LateInv, TaskKeeps, Keeps, WorkerType, Phases
<1>1. CASE Fail(w)
  <2>1. rt' \in [Workers -> WorkerType]
    BY <1>1, ZenonT(60) DEF Fail
  <2>2. /\ state' \in States /\ worker' = None /\ UNCHANGED <<task, checkpoint, crashes>>
    BY <1>1 DEF Fail, States
  <2>3. \A v \in Workers : /\ rt'[v].late = rt[v].late /\ rt'[v].allowed = rt[v].allowed
                            /\ rt'[v].phase = IF v = w THEN "failing" ELSE rt[v].phase
    <3> TAKE v \in Workers
    <3>1. rt'[v] = [rt[v] EXCEPT !.phase = IF v = w THEN "failing" ELSE @,
                                 !.attached = @ /\ v # worker]
      BY <1>1 DEF Fail
    <3>2. rt[v] \in WorkerType
      OBVIOUS
    <3> QED BY <3>1, <3>2
  <2>4. rt[w].phase = "evaluating"
    BY <1>1 DEF Fail
  <2>5. LoadInv'
    BY <2>2, <2>3, <2>4
  <2>6. LateInv'
    BY <2>1, <2>3, <2>4
  <2> QED BY <2>1, <2>2, <2>5, <2>6
<1>2. CASE Failed(w)
  <2>1. Leaves(w) /\ rt[w].phase = "failing" /\ Store("none")
    BY <1>2 DEF Failed
  <2> HIDE DEF WorkerType
  <2>2. CoreType'
    BY <1>2, <2>1, LeavesNothing, StoreType DEF Failed
  <2>3. LoadInv'
    BY <1>2, <2>1, LeavesNothing DEF Failed
  <2>4. rt'[w].late = 0 /\ \A v \in Workers \ {w} : rt'[v] = rt[v]
    BY <2>1, LeavesNothing
  <2>5. LateInv'
    BY <2>4
  <2> QED BY <2>2, <2>3, <2>5
<1>3. CASE DryRun(w)
  BY <1>3, ZenonT(60) DEF DryRun
<1>4. CASE DryRunEnds(w)
  BY <1>4, ZenonT(60) DEF DryRunEnds
<1> QED BY <1>1, <1>2, <1>3, <1>4

LEMMA TickStep == Inv /\ Tick => Inv'
BY RuntimeAssumption
   DEF Inv, CoreType, LoadInv, LateInv, TaskKeeps, Keeps, WorkerType, Phases, Tick, Receives

--------------------------------------------------------------------------------
(* The steps of the lifecycle calls. *)

\* A call that loads nothing, and changes of the workers only what they may do.
LEMMA QuietCall ==
  ASSUME Inv, NEW t \in Tasks, NEW next \in TaskType, next.at # "loading", Go(t, next),
         rt' = rt
  PROVE  task' \in [Tasks -> TaskType] /\ LoadInv' /\ LateInv'
BY DEF Inv, CoreType, LoadInv, LateInv, Go

LEMMA SaveOfType ==
  ASSUME NEW s \in States \cup {"none"}
  PROVE  SaveOf(s) \in TaskType /\ SaveOf(s).at = "saving"
BY AtType DEF SaveOf, At, Places, Calls

LEMMA AllowStep ==
  ASSUME Inv, NEW value \in BOOLEAN, Allow(value), NEW t \in Tasks,
         NEW next \in TaskType, next.at # "loading", Go(t, next)
  PROVE  /\ rt' \in [Workers -> WorkerType] /\ task' \in [Tasks -> TaskType]
         /\ LoadInv' /\ LateInv'
<1> USE DEF Inv, CoreType
<1>1. /\ task' \in [Tasks -> TaskType] /\ task'[t] = next
      /\ \A u \in Tasks \ {t} : task'[u] = task[u]
  BY DEF Go
<1>2. ASSUME NEW w \in Workers
      PROVE  /\ rt'[w] \in WorkerType /\ rt'[w].phase = rt[w].phase
             /\ rt'[w] = rt[w] \/ (rt'[w].late = 0 /\ value)
                \/ (rt'[w].late = rt[w].late /\ rt'[w].allowed = FALSE)
  <2>1. CASE w # worker
    BY <2>1 DEF Allow
  <2>2. CASE w = worker /\ value
    BY <2>2 DEF Allow, WorkerType
  <2>3. CASE w = worker /\ ~value
    BY <2>3 DEF Allow, WorkerType
  <2> QED BY <2>1, <2>2, <2>3
<1>3. rt' \in [Workers -> WorkerType]
  BY <1>2 DEF Allow
<1>4. \A w \in Workers : rt[w].late = 0 => rt'[w].late = 0
  BY <1>2
<1>5. LoadInv'
  BY <1>1, <1>2, <1>4, ZenonT(60) DEF LoadInv
<1>6. LateInv'
  <2> SUFFICES ASSUME NEW w \in Workers
               PROVE  /\ rt'[w].late <= 1
                      /\ rt'[w].late # 0 => /\ ~rt'[w].allowed
                                           /\ rt'[w].phase \notin {"due", "evaluating", "gate"}
    BY DEF LateInv
  <2>1. CASE rt'[w].late = 0
    BY <2>1
  <2>2. CASE rt'[w] = rt[w]
    BY <2>2 DEF LateInv
  <2>3. CASE rt'[w].late = rt[w].late /\ rt'[w].allowed = FALSE
    BY <1>2, <2>3 DEF LateInv
  <2> QED BY <1>2, <2>1, <2>2, <2>3
<1> QED BY <1>1, <1>3, <1>5, <1>6

LEMMA HaltStep ==
  ASSUME Inv, NEW t \in Tasks, NEW call \in Calls, Halt(t, call)
  PROVE  Inv'
<1> USE DEF Inv, CoreType
<1>1. worker \in Workers
  BY DEF Halt
<1> DEFINE next == At("halting", call, worker, "none")
<1>2. next \in TaskType /\ next.at = "halting"
  BY <1>1, AtType DEF At, Places
<1>3. /\ task' \in [Tasks -> TaskType] /\ task'[t] = next
      /\ \A u \in Tasks \ {t} : task'[u] = task[u]
  BY <1>2 DEF Halt, Call, Go
<1>4. /\ rt' \in [Workers -> WorkerType]
      /\ \A w \in Workers : rt'[w].late = rt[w].late
      /\ \A w \in Workers \ {worker} : rt'[w] = rt[w]
      /\ rt'[worker].phase \in {"ending", "off"}
      /\ rt[worker].phase = "off" => rt'[worker].phase = "off"
      /\ rt'[worker].allowed = FALSE
  <2> DEFINE p == IF Live(worker) THEN "ending" ELSE "off"
  <2>1. p \in {"ending", "off"} /\ (rt[worker].phase = "off" => p = "off")
    BY DEF Live
  <2>2. rt' = [rt EXCEPT ![worker] = [@ EXCEPT !.attached = FALSE, !.allowed = FALSE, !.phase = p]]
    BY DEF Halt
  <2> HIDE DEF p
  <2>3. rt'[worker] = [rt[worker] EXCEPT !.attached = FALSE, !.allowed = FALSE, !.phase = p]
    BY <1>1, <2>2
  <2>4. rt[worker] \in WorkerType
    BY <1>1
  <2>5. /\ rt'[worker] \in WorkerType /\ rt'[worker].late = rt[worker].late
        /\ rt'[worker].phase = p /\ rt'[worker].allowed = FALSE
    BY <2>1, <2>3, <2>4 DEF WorkerType, Phases
  <2> QED BY <1>1, <2>1, <2>2, <2>5
<1>5. LoadInv'
  BY <1>1, <1>2, <1>3, <1>4 DEF LoadInv
<1>6. LateInv'
  BY <1>1, <1>4 DEF LateInv
<1> QED BY <1>3, <1>4, <1>5, <1>6 DEF Halt, Keeps

LEMMA StartStep ==
  ASSUME Inv, NEW t \in Tasks, NEW call \in Calls, NEW dump \in States \cup {"none"},
         StartRunning(t, call, dump), UNCHANGED <<checkpoint, crashes>>
  PROVE  Inv'
<1> USE DEF Inv, CoreType
<1>1. PICK w \in Workers \ InUse :
        /\ state' = "STARTING" /\ worker' = w
        /\ rt' = [rt EXCEPT ![w] = Fresh]
        /\ Go(t, At("loading", call, w, dump))
  BY DEF StartRunning
<1> DEFINE next == At("loading", call, w, dump)
<1>2. next \in TaskType /\ next.at = "loading" /\ next.own = w
  BY AtType DEF At, Places
<1>3. /\ task' \in [Tasks -> TaskType] /\ task'[t] = next
      /\ \A u \in Tasks \ {t} : task'[u] = task[u] /\ task[u].own # w
  BY <1>1, <1>2 DEF Go, InUse
<1>4. /\ rt' \in [Workers -> WorkerType]
      /\ \A v \in Workers \ {w} : rt'[v] = rt[v]
      /\ rt'[w].phase = "off" /\ rt'[w].late = 0
  BY <1>1, FreshType DEF Fresh, Gone
<1>5. LoadInv'
  BY <1>1, <1>2, <1>3, <1>4 DEF LoadInv
<1>6. LateInv'
  BY <1>1, <1>4 DEF LateInv
<1> QED BY <1>1, <1>3, <1>4, <1>5, <1>6 DEF States

LEMMA BeginSteps ==
  ASSUME Inv, NEW t \in Tasks, Begin(t)
  PROVE  Inv'
<1> USE DEF Inv, CoreType, Call, Keeps
<1>1. CASE Start(t)
  <2>1. At("guard", "start", None, "none") \in TaskType
    BY AtType DEF Places, Calls
  <2> QED BY <1>1, <2>1, QuietCall DEF Start, At, LoadInv, LateInv
<1>2. CASE Halt(t, "stop") \/ Halt(t, "restart")
  BY <1>2, HaltStep DEF Calls
<1>3. CASE Stop(t) /\ ~Halt(t, "stop")
  <2>1. At("removing", "stop", None, "none") \in TaskType
    BY AtType DEF Places, Calls
  <2> QED BY <1>3, <2>1, QuietCall DEF Stop, At, States
<1>4. CASE Restart(t) /\ ~Halt(t, "restart")
  BY <1>4, StartStep DEF Restart, Calls
<1>5. CASE Pause(t)
  <2>1. SaveOf("PAUSED") \in TaskType /\ SaveOf("PAUSED").at = "saving"
    BY SaveOfType DEF States
  <2> QED BY <1>5, <2>1, AllowStep DEF Pause, States
<1>6. CASE Resume(t)
  <2>1. SaveOf("RUNNING") \in TaskType /\ SaveOf("RUNNING").at = "saving"
    BY SaveOfType DEF States
  <2> QED BY <1>6, <2>1, AllowStep DEF Resume, States
<1>7. CASE Engage(t)
  <2>1. At("engaging", "emergency", None, "none") \in TaskType
    BY AtType DEF Places, Calls
  <2> QED BY <1>7, <2>1, QuietCall DEF Engage, At
<1>8. CASE Release(t)
  <2>1. At("releasing", "emergency", None, "none") \in TaskType
    BY AtType DEF Places, Calls
  <2> QED BY <1>8, <2>1, QuietCall DEF Release, At
<1> QED BY <1>1, <1>2, <1>3, <1>4, <1>5, <1>6, <1>7, <1>8 DEF Begin, Stop, Restart

LEMMA LoadedStep ==
  ASSUME Inv, NEW t \in Tasks, Loaded(t)
  PROVE  Inv'
<1> USE DEF Inv, CoreType
<1> DEFINE w == task[t].own
           next == At("saving", task[t].call, None, "RUNNING")
<1>1. w \in Workers /\ rt[w].late = 0
  BY DEF Loaded, LoadInv
<1>2. next \in TaskType /\ next.at = "saving"
  <2>1. task[t].call \in Calls
    BY DEF TaskType
  <2> QED BY <2>1, AtType DEF At, Places, States
<1>3. /\ task' \in [Tasks -> TaskType] /\ task'[t] = next
      /\ \A u \in Tasks \ {t} : task'[u] = task[u]
  BY <1>2 DEF Loaded, Go
<1>4. /\ rt' \in [Workers -> WorkerType]
      /\ \A v \in Workers \ {w} : rt'[v] = rt[v]
      /\ rt'[w].late = 0
  <2>1. rt' = [rt EXCEPT ![w] = [rt[w] EXCEPT !.allowed = TRUE, !.phase = "idle"]]
    BY <1>1 DEF Loaded
  <2>2. /\ [rt[w] EXCEPT !.allowed = TRUE, !.phase = "idle"] \in WorkerType
        /\ [rt[w] EXCEPT !.allowed = TRUE, !.phase = "idle"].late = rt[w].late
    BY <1>1, ZenonT(60) DEF WorkerType, Phases
  <2> QED BY <1>1, <2>1, <2>2
<1>5. \A u \in Tasks \ {t} : task[u].at = "loading" => task[u].own # w
  BY DEF LoadInv, Loaded
<1>6. LoadInv'
  BY <1>2, <1>3, <1>4, <1>5 DEF LoadInv
<1>7. LateInv'
  BY <1>1, <1>4 DEF LateInv
<1> QED BY <1>3, <1>4, <1>6, <1>7 DEF Loaded, States, Keeps

LEMMA SavedStep ==
  ASSUME Inv, NEW t \in Tasks, Saved(t)
  PROVE  Inv'
<1> USE DEF Inv, CoreType, Keeps
<1>1. task[t].dump \in States \cup {"none"} /\ checkpoint' \in States \cup {"none"}
  BY StoreType DEF TaskType, Saved
<1>2. CASE Go(t, Idle) /\ UNCHANGED <<state, rt>>
  BY <1>1, <1>2, IdleType, QuietCall DEF Saved, Idle
<1>3. CASE Go(t, SaveOf(state)) /\ UNCHANGED <<state, rt>>
  BY <1>1, <1>3, SaveOfType, QuietCall DEF Saved
<1>4. CASE state' = "PAUSED" /\ Allow(FALSE) /\ Go(t, SaveOf("PAUSED"))
  <2>1. SaveOf("PAUSED") \in TaskType /\ SaveOf("PAUSED").at = "saving"
    BY SaveOfType DEF States
  <2> QED BY <1>1, <1>4, <2>1, AllowStep DEF Saved, States
<1> QED BY <1>2, <1>3, <1>4 DEF Saved, Allow

\* The worker whose code did not load.
LEMMA Unloaded ==
  ASSUME CoreType, NEW t \in Tasks, task[t].own \in Workers, LoadFails(t)
  PROVE  LET w == task[t].own
         IN  /\ rt' \in [Workers -> WorkerType]
             /\ \A v \in Workers \ {w} : rt'[v] = rt[v]
             /\ rt'[w].phase = "unloaded" /\ rt'[w].late = rt[w].late
             /\ rt'[w].attached = rt[w].attached /\ rt'[w].allowed = rt[w].allowed
<1> DEFINE w == task[t].own
           r == [rt[w] EXCEPT !.phase = "unloaded"]
<1>1. rt' = [rt EXCEPT ![w] = r]
  BY DEF LoadFails
<1>2. rt[w] \in WorkerType
  BY DEF CoreType
<1>3. /\ r \in WorkerType /\ r.phase = "unloaded" /\ r.late = rt[w].late
      /\ r.attached = rt[w].attached /\ r.allowed = rt[w].allowed
  BY <1>2 DEF WorkerType, Phases
<1> HIDE DEF r
<1> QED BY <1>1, <1>3 DEF CoreType

LEMMA LoadFailsStep ==
  ASSUME Inv, NEW t \in Tasks, LoadFails(t)
  PROVE  Inv'
<1> USE DEF Inv, CoreType
<1> DEFINE w == task[t].own
<1>1. w \in Workers /\ rt[w].late = 0
  BY DEF LoadFails, LoadInv
<1>2. /\ task' \in [Tasks -> TaskType] /\ task'[t].at = "idle"
      /\ \A u \in Tasks \ {t} : task'[u] = task[u]
  BY IdleType DEF LoadFails, Go, Idle
<1>3. /\ rt' \in [Workers -> WorkerType]
      /\ \A v \in Workers \ {w} : rt'[v] = rt[v]
      /\ rt'[w].late = 0
  BY <1>1, Unloaded
<1>4. \A u \in Tasks \ {t} : task[u].at = "loading" => task[u].own # w
  BY DEF LoadInv, LoadFails
<1>5. LoadInv'
  BY <1>2, <1>3, <1>4 DEF LoadInv
<1>6. LateInv'
  BY <1>1, <1>3 DEF LateInv
<1> QED BY <1>2, <1>3, <1>5, <1>6 DEF LoadFails, Keeps

LEMMA ContinueSteps ==
  ASSUME Inv, NEW t \in Tasks,
         Guard(t) \/ Halted(t) \/ Removed(t) \/ Engaged(t) \/ Released(t) \/ LoadFails(t)
  PROVE  Inv'
<1> USE DEF Inv, CoreType, Keeps
<1>1. task[t].call \in Calls /\ task[t].dump \in States \cup {"none"}
  BY DEF TaskType
<1>2. CASE Go(t, Idle) /\ UNCHANGED <<worker, rt>> /\ state' = state
           /\ checkpoint' \in States \cup {"none"} /\ crashes' = crashes
  BY <1>2, IdleType, QuietCall DEF Idle
<1>3. CASE Guard(t)
  BY <1>1, <1>2, <1>3, StartStep DEF Guard
<1>4. CASE Halted(t) /\ task[t].call = "stop"
  <2>1. At("removing", "stop", None, "none") \in TaskType
    BY AtType DEF Places, Calls
  <2> QED BY <1>4, <2>1, QuietCall DEF Halted, At, States
<1>5. CASE Halted(t) /\ task[t].call # "stop"
  BY <1>5, StartStep DEF Halted, Calls
<1>6. CASE Engaged(t)
  <2>1. SaveOf("PAUSED") \in TaskType /\ SaveOf("PAUSED").at = "saving"
    BY SaveOfType DEF States
  <2>2. CASE state = "RUNNING"
    BY <1>6, <2>1, <2>2, AllowStep DEF Engaged, States
  <2> QED BY <1>2, <1>6, <2>2 DEF Engaged
<1>7. CASE Removed(t)
  BY <1>2, <1>7, StoreType DEF Removed
<1>8. CASE Released(t)
  BY <1>2, <1>8 DEF Released
<1>9. CASE LoadFails(t)
  BY <1>9, LoadFailsStep
<1> QED BY <1>3, <1>4, <1>5, <1>6, <1>7, <1>8, <1>9

\* The recovery begins a start or nothing.
LEMMA RecoverCalls ==
  ASSUME NEW t \in Tasks, Recover(t)
  PROVE  /\ \E next \in TaskType : next.at \in {"idle", "guard"} /\ Call(t, next)
         /\ "write" \in missed' <=> "write" \in missed
<1> DEFINE next == IF Restorable(checkpoint) /\ state = "none"
                   THEN At("guard", IF checkpoint = "PAUSED" THEN "recover" ELSE "start",
                           None, "none")
                   ELSE Idle
<1>1. next \in TaskType /\ next.at \in {"idle", "guard"}
  BY IdleType, AtType DEF Places, Calls, At, Idle
<1>2. Idle \in TaskType /\ Idle.at = "idle"
  BY IdleType DEF Idle
<1>3. Call(t, next) \/ Call(t, Idle)
  BY DEF Recover
<1> HIDE DEF next
<1>4. "write" \in missed' <=> "write" \in missed
  BY DEF Recover
<1> QED BY <1>1, <1>2, <1>3, <1>4

LEMMA ProcessSteps ==
  ASSUME Inv, Crash \/ \E t \in Tasks : Recover(t)
  PROVE  Inv'
<1> USE DEF Inv, CoreType, Keeps
<1>1. CASE Crash
  BY <1>1, GoneType, IdleType, RuntimeAssumption
     DEF Crash, States, LoadInv, LateInv, Gone, Idle
<1>2. ASSUME NEW t \in Tasks, Recover(t) PROVE Inv'
  <2>1. PICK next \in TaskType : next.at \in {"idle", "guard"} /\ Call(t, next)
    BY <1>2, RecoverCalls
  <2> QED BY <1>2, <2>1, QuietCall DEF Recover, Call
<1> QED BY <1>1, <1>2

LEMMA NextInv == Inv /\ [Next]_vars => Inv'
<1> SUFFICES ASSUME Inv, [Next]_vars PROVE Inv'
  OBVIOUS
<1>1. CASE UNCHANGED vars
  BY <1>1 DEF Inv, CoreType, LoadInv, LateInv, vars
<1>2. CASE Next
  BY <1>2, WorkerSteps, GateStep, OtherWorkerSteps, TickStep, BeginSteps, LoadedStep, SavedStep,
     ContinueSteps, ProcessSteps DEF Next, Works, Continue
<1> QED BY <1>1, <1>2

LEMMA Invariant == Spec => []Inv
BY InitInv, NextInv, PTL DEF Spec

\* However calls, dry runs and failures interleave, a worker that was told not to evaluate
\* any more gets at most one more evaluation past the gate (_evaluate, pause_strategy).
THEOREM AtMostOneMore == Spec => []OneMoreAtMost
<1>1. Inv => OneMoreAtMost
  BY DEF Inv, LateInv, OneMoreAtMost
<1> QED BY <1>1, Invariant, PTL

--------------------------------------------------------------------------------
(* Type correctness: the flags besides what the invariant says. *)

LEMMA FlagsNext == Flags /\ [Next]_vars => Flags'
<1> SUFFICES ASSUME Flags, [Next]_vars PROVE Flags'
  OBVIOUS
<1> USE DEF Flags, Keeps, TaskKeeps, Call, MarkOverlap
<1>1. ASSUME NEW t \in Tasks, Begin(t) \/ Recover(t) PROVE Flags'
  BY <1>1, Zenon DEF Begin, Start, Stop, Restart, Pause, Resume, Engage, Release, Recover, Halt
<1>2. ASSUME NEW t \in Tasks, Continue(t) \/ LoadFails(t) PROVE Flags'
  BY <1>2, Zenon DEF Continue, Guard, Loaded, Saved, Halted, Removed, Engaged, Released, LoadFails
<1>3. ASSUME NEW w \in Workers, Works(w) \/ Fail(w) \/ DryRun(w) \/ DryRunEnds(w) PROVE Flags'
  BY <1>3, Zenon DEF Works, Take, Evaluate, Evaluated, Gate, Placed, Failed, Ended, Fail,
                     DryRun, DryRunEnds
<1>4. CASE Tick
  BY <1>4, Zenon DEF Tick
<1>5. CASE Crash
  BY <1>5, Zenon DEF Crash
<1>6. CASE UNCHANGED vars
  BY <1>6, Zenon DEF vars
<1> QED BY <1>1, <1>2, <1>3, <1>4, <1>5, <1>6 DEF Next

LEMMA MissedNext ==
  ASSUME [Next]_vars, missed \subseteq {"write", "read"}
  PROVE  missed' \subseteq {"write", "read"}
<1> USE DEF Keeps, TaskKeeps
<1>1. ASSUME NEW t \in Tasks, Begin(t) PROVE missed' = missed
  BY <1>1 DEF Begin, Start, Stop, Restart, Pause, Resume, Engage, Release, Halt
<1>2. ASSUME NEW t \in Tasks, Continue(t) \/ LoadFails(t) \/ Recover(t)
      PROVE  \/ missed' = missed \/ missed' = missed \cup {"write"}
             \/ missed' = missed \ {"write"} \/ missed' = missed \cup {"read"}
  BY <1>2 DEF Continue, Guard, Loaded, Saved, Halted, Removed, Engaged, Released, LoadFails,
              Recover, Store
<1>3. ASSUME NEW w \in Workers, Works(w) \/ Fail(w) \/ DryRun(w) \/ DryRunEnds(w)
      PROVE  \/ missed' = missed \/ missed' = missed \cup {"write"}
             \/ missed' = missed \ {"write"}
  BY <1>3 DEF Works, Take, Evaluate, Evaluated, Gate, Placed, Failed, Ended, Fail,
              DryRun, DryRunEnds, Store
<1>4. CASE Tick
  BY <1>4 DEF Tick
<1>5. CASE Crash
  BY <1>5 DEF Crash
<1>6. CASE UNCHANGED vars
  BY <1>6 DEF vars
<1> QED BY <1>1, <1>2, <1>3, <1>4, <1>5, <1>6 DEF Next

\* The record, its workers, the calls under way and the checkpoint are well typed: no queue
\* exceeds its bound (StrategyManager, StrategyWorker).
THEOREM RuntimeTypeCorrect == Spec => []TypeOK
<1> DEFINE Misses == missed \subseteq {"write", "read"}
<1>1. Init => Flags
  BY Zenon DEF Init, Flags
<1>2. Inv /\ Flags /\ Misses => TypeOK
  BY Zenon DEF Inv, CoreType, Flags, TypeOK, WorkerType, TaskType
<1>3. Init => Misses
  BY DEF Init
<1>4. Misses /\ [Next]_vars => Misses'
  BY MissedNext
<1> QED BY <1>1, <1>2, <1>3, <1>4, FlagsNext, Invariant, PTL DEF Spec

--------------------------------------------------------------------------------
(* The record of a strategy and its checkpoint tell the truth between calls that    *)
(* do not overlap, for every set of tasks, workers and events and every bound.      *)

(* While calls do not overlap at most one party is at work on the record, and all that is *)
(* not its own part is settled.                                                           *)

OneAtWork ==
  /\ \A t, u \in Busy : t = u
  /\ \A v, w \in Failing : v = w
  /\ Busy = {} \/ Failing = {}

\* Only the record's worker is fed or at work, but for one that is on its way out.
WorkersOK ==
  \A w \in Workers :
    /\ rt[w].attached <=> w = worker
    /\ rt[w].phase = "ending" => \E t \in Tasks : task[t].at = "halting" /\ task[t].own = w
    /\ w = worker => rt[w].phase \notin {"ending", "failing"}
    /\ rt[w].phase = "off" => ~rt[w].allowed
    /\ rt[w].phase \notin {"off", "ending", "failing"} =>
         w = worker /\ (rt[w].allowed <=> state = "RUNNING")

\* What a call under way knows of the record.
CallsOK ==
  \A t \in Tasks :
    /\ task[t].at = "loading" => state = "STARTING" /\ worker = task[t].own
    /\ task[t].at = "halting" => worker = None
    /\ task[t].at = "removing" => worker = None /\ state = "STOPPED"
    /\ task[t].at = "saving" => state \in {"RUNNING", "PAUSED"} /\ task[t].dump = state

Away(places) == \A t \in Tasks : task[t].at \notin places

RecordOK ==
  /\ Failing # {} => worker = None /\ state = "FAILED"
  /\ Away({"halting"}) => (worker # None <=> state \in {"RUNNING", "PAUSED", "STARTING"})
  /\ Away({"halting", "loading"}) => \A w \in Workers : w = worker => rt[w].phase # "off"
  /\ Failing = {} /\ "write" \notin missed
     /\ Away({"loading", "halting", "removing", "saving"}) =>
       /\ state \in {"RUNNING", "PAUSED"} => checkpoint = state
       /\ state \in {"STOPPED", "FAILED"} => checkpoint = "none"

Solo == OneAtWork /\ WorkersOK /\ CallsOK /\ RecordOK
SoloInv == ~overlapped => Solo

--------------------------------------------------------------------------------
\* A step of the only party, a call: the others are idle and stay so.
LEMMA Alone ==
  ASSUME CoreType, OneAtWork, Failing = {}, NEW t \in Tasks, NEW next \in TaskType,
         Busy = {} \/ t \in Busy, Go(t, next)
  PROVE  /\ task'[t] = next /\ \A u \in Tasks \ {t} : task'[u] = task[u] /\ task[u].at = "idle"
         /\ \A u, v \in Busy' : u = v
BY DEF CoreType, OneAtWork, Busy, Go

\* It touches no worker and does not end where something is left to do.
LEMMA CallOnly ==
  ASSUME CoreType, Solo, Failing = {}, NEW t \in Tasks, NEW next \in TaskType,
         Busy = {} \/ t \in Busy, Go(t, next),
         UNCHANGED <<state, worker, rt, checkpoint>>, "write" \in missed' <=> "write" \in missed,
         task[t].at \in {"idle", "guard", "engaging", "releasing"},
         next.at \in {"idle", "guard", "engaging", "releasing"}
  PROVE  Solo'
<1>1. /\ task'[t] = next /\ \A u \in Tasks \ {t} : task'[u] = task[u] /\ task[u].at = "idle"
      /\ \A u, v \in Busy' : u = v
  BY Alone DEF Solo
<1>2. Failing' = {}
  BY DEF Failing
<1>3. OneAtWork'
  BY <1>1, <1>2 DEF OneAtWork
<1>4. WorkersOK'
  BY <1>1 DEF Solo, WorkersOK
<1>5. CallsOK'
  BY <1>1 DEF CallsOK
<1>6. RecordOK'
  BY <1>1, <1>2 DEF Solo, RecordOK, Away
<1> QED BY <1>3, <1>4, <1>5, <1>6 DEF Solo

\* The state moves on a record without a worker, or with a settled one.
LEMMA ToSaving ==
  ASSUME CoreType, Solo, Failing = {}, NEW t \in Tasks, Busy = {} \/ t \in Busy,
         task[t].at \notin {"halting", "loading"},
         NEW s \in {"RUNNING", "PAUSED"}, state \in {"RUNNING", "PAUSED", "STARTING"},
         state' = s,
         Allow(s = "RUNNING"), Go(t, SaveOf(s)), worker' = worker
  PROVE  Solo'
<1>1. SaveOf(s) \in TaskType /\ SaveOf(s).at = "saving" /\ SaveOf(s).dump = s
  BY SaveOfType DEF SaveOf, At, States
<1>2. /\ task'[t] = SaveOf(s) /\ \A u \in Tasks \ {t} : task'[u] = task[u] /\ task[u].at = "idle"
      /\ \A u, v \in Busy' : u = v
  BY <1>1, Alone DEF Solo
<1>3. \A w \in Workers : /\ rt'[w].phase = rt[w].phase /\ rt'[w].attached = rt[w].attached
                         /\ w = worker => rt'[w].allowed = (s = "RUNNING")
                         /\ w # worker => rt'[w] = rt[w]
  BY DEF Allow, CoreType, WorkerType
<1>4. Failing' = {}
  BY <1>3 DEF Failing
<1>5. OneAtWork'
  BY <1>2, <1>4 DEF OneAtWork
<1>6. WorkersOK'
  <2> SUFFICES ASSUME NEW w \in Workers
               PROVE  /\ rt'[w].attached <=> w = worker
                      /\ rt'[w].phase # "ending"
                      /\ w = worker => rt'[w].phase \notin {"ending", "failing"}
                      /\ rt'[w].phase = "off" => ~rt'[w].allowed
                      /\ rt'[w].phase \notin {"off", "ending", "failing"} =>
                           w = worker /\ (rt'[w].allowed <=> s = "RUNNING")
    BY DEF WorkersOK
  <2>1. rt[w].phase # "ending" /\ (w = worker => rt[w].phase # "off")
    BY <1>2 DEF Solo, WorkersOK, RecordOK, Away
  <2> QED BY <1>3, <2>1 DEF Solo, WorkersOK
<1>7. CallsOK'
  BY <1>1, <1>2 DEF CallsOK
<1>8. RecordOK'
  <2>1. Away({"halting"}) /\ Away({"halting", "loading"})
    BY <1>2 DEF Away
  <2> QED BY <1>1, <1>2, <1>3, <1>4, <2>1 DEF Solo, RecordOK, Away
<1> QED BY <1>5, <1>6, <1>7, <1>8 DEF Solo

\* A new worker comes where there is none.
LEMMA ToLoading ==
  ASSUME CoreType, Solo, Failing = {}, NEW t \in Tasks, NEW call \in Calls,
         NEW dump \in States \cup {"none"}, Busy = {} \/ t \in Busy, worker = None,
         \A w \in Workers : rt[w].phase = "off",
         StartRunning(t, call, dump)
  PROVE  Solo'
<1>1. PICK w \in Workers \ InUse :
        /\ state' = "STARTING" /\ worker' = w
        /\ rt' = [rt EXCEPT ![w] = Fresh]
        /\ Go(t, At("loading", call, w, dump))
  BY DEF StartRunning
<1> DEFINE next == At("loading", call, w, dump)
<1>2. next \in TaskType /\ next.at = "loading" /\ next.own = w
  BY AtType DEF At, Places
<1>3. /\ task'[t] = next /\ \A u \in Tasks \ {t} : task'[u] = task[u] /\ task[u].at = "idle"
      /\ \A u, v \in Busy' : u = v
  BY <1>1, <1>2, Alone DEF Solo
<1>4. /\ \A v \in Workers \ {w} : rt'[v] = rt[v]
      /\ rt'[w].phase = "off" /\ rt'[w].attached = TRUE /\ rt'[w].allowed = FALSE
  BY <1>1 DEF Fresh, Gone, CoreType
<1>5. \A v \in Workers : rt'[v].phase = "off"
  BY <1>4
<1>6. Failing' = {}
  BY <1>5 DEF Failing
<1>7. OneAtWork'
  BY <1>3, <1>6 DEF OneAtWork
<1>8. WorkersOK'
  BY <1>1, <1>4, <1>5, RuntimeAssumption DEF Solo, WorkersOK
<1>9. CallsOK'
  BY <1>1, <1>2, <1>3 DEF CallsOK
<1>10. RecordOK'
  BY <1>1, <1>2, <1>3, <1>6, RuntimeAssumption DEF RecordOK, Away
<1> QED BY <1>7, <1>8, <1>9, <1>10 DEF Solo

LEMMA ToHalting ==
  ASSUME CoreType, Solo, Failing = {}, Busy = {}, NEW t \in Tasks, NEW call \in Calls,
         Halt(t, call)
  PROVE  Solo'
<1>1. worker \in Workers /\ worker' = None /\ state' = state
  BY DEF Halt, CoreType
<1> DEFINE next == At("halting", call, worker, "none")
<1>2. next \in TaskType /\ next.at = "halting" /\ next.own = worker
  BY <1>1, AtType DEF At, Places
<1>3. /\ task'[t] = next /\ \A u \in Tasks \ {t} : task'[u] = task[u] /\ task[u].at = "idle"
      /\ \A u, v \in Busy' : u = v
  BY <1>2, Alone DEF Halt, Call, Solo
<1>4. /\ \A w \in Workers \ {worker} : rt'[w] = rt[w]
      /\ rt'[worker].phase \in {"ending", "off"}
      /\ rt'[worker].attached = FALSE /\ rt'[worker].allowed = FALSE
  BY <1>1, ZenonT(60) DEF Halt, CoreType, WorkerType
<1>5. \A w \in Workers \ {worker} : rt[w].phase = "off"
  BY <1>1, <1>3 DEF Solo, WorkersOK, Failing, Busy
<1>6. Failing' = {}
  BY <1>1, <1>4, <1>5 DEF Failing
<1>7. OneAtWork'
  BY <1>3, <1>6 DEF OneAtWork
<1>8. WorkersOK'
  BY <1>1, <1>2, <1>3, <1>4, <1>5, RuntimeAssumption DEF Solo, WorkersOK
<1>9. CallsOK'
  BY <1>1, <1>2, <1>3 DEF CallsOK
<1>10. RecordOK'
  BY <1>2, <1>3, <1>6 DEF RecordOK, Away
<1> QED BY <1>7, <1>8, <1>9, <1>10 DEF Solo

\* A removal begins on a record without a worker.
LEMMA ToRemoving ==
  ASSUME CoreType, Solo, Failing = {}, NEW t \in Tasks, Busy = {} \/ t \in Busy,
         worker = None, \A w \in Workers : rt[w].phase = "off",
         state' = "STOPPED", Go(t, At("removing", "stop", None, "none")),
         UNCHANGED <<worker, rt, checkpoint>>
  PROVE  Solo'
<1> DEFINE next == At("removing", "stop", None, "none")
<1>1. next \in TaskType /\ next.at = "removing"
  BY AtType DEF At, Places, Calls
<1>2. /\ task'[t] = next /\ \A u \in Tasks \ {t} : task'[u] = task[u] /\ task[u].at = "idle"
      /\ \A u, v \in Busy' : u = v
  BY <1>1, Alone DEF Solo
<1>3. Failing' = {}
  BY DEF Failing
<1>4. OneAtWork'
  BY <1>2, <1>3 DEF OneAtWork
<1>5. WorkersOK'
  BY <1>2 DEF Solo, WorkersOK
<1>6. CallsOK'
  BY <1>1, <1>2 DEF CallsOK
<1>7. RecordOK'
  BY <1>1, <1>2, <1>3, RuntimeAssumption DEF RecordOK, Away
<1> QED BY <1>4, <1>5, <1>6, <1>7 DEF Solo

\* A settled record without a worker has no worker alive.
LEMMA AllOff ==
  ASSUME CoreType, Solo, Failing = {}, worker = None,
         \A t \in Tasks : task[t].at = "halting" => rt[task[t].own].phase = "off"
  PROVE  \A w \in Workers : rt[w].phase = "off"
<1> SUFFICES ASSUME NEW w \in Workers, rt[w].phase # "off" PROVE FALSE
  OBVIOUS
<1>1. rt[w].phase # "ending"
  BY DEF Solo, WorkersOK
<1>2. rt[w].phase # "failing"
  BY DEF Failing
<1> QED BY <1>1, <1>2, RuntimeAssumption DEF Solo, WorkersOK

\* A call that begins without an overlap is the only party.
LEMMA BeginsAlone ==
  ASSUME CoreType, SoloInv, MarkOverlap, overlapped' = FALSE
  PROVE  Solo /\ Busy = {} /\ Failing = {} /\ \A t \in Tasks : task[t].at = "idle"
BY DEF MarkOverlap, SoloInv, Busy

LEMMA BeginSolo ==
  ASSUME CoreType, SoloInv, NEW t \in Tasks, Begin(t) \/ Recover(t), overlapped' = FALSE
  PROVE  Solo'
<1>1. /\ Solo /\ Busy = {} /\ Failing = {} /\ \A u \in Tasks : task[u].at = "idle"
  <2>1. MarkOverlap
    BY DEF Begin, Start, Stop, Halt, Restart, Pause, Resume, Engage, Release, Recover, Call
  <2> QED BY <2>1, BeginsAlone
<1>2. worker = None => \A w \in Workers : rt[w].phase = "off"
  BY <1>1, AllOff
<1>3. CASE Start(t)
  <2>1. At("guard", "start", None, "none") \in TaskType
    BY AtType DEF Places, Calls
  <2> QED BY <1>1, <1>3, <2>1, CallOnly DEF Start, Call, At
<1>4. CASE Halt(t, "stop") \/ Halt(t, "restart")
  BY <1>1, <1>4, ToHalting DEF Calls
<1>5. CASE Stop(t) /\ ~Halt(t, "stop")
  BY <1>1, <1>2, <1>5, ToRemoving DEF Stop, Call
<1>6. CASE Restart(t) /\ ~Halt(t, "restart")
  BY <1>1, <1>2, <1>6, ToLoading DEF Restart, Calls
<1>7. CASE Pause(t)
  <2>1. state = "RUNNING"
    BY <1>7 DEF Pause, Transitions, CoreType, States
  <2> QED BY <1>1, <1>7, <2>1, ToSaving DEF Pause, Call
<1>8. CASE Resume(t)
  <2>1. state \in {"PAUSED", "STARTING"}
    BY <1>8 DEF Resume, Transitions, CoreType, States
  <2>2. Allow("RUNNING" = "RUNNING")
    BY <1>8 DEF Resume
  <2> QED BY <1>1, <1>8, <2>1, <2>2, ToSaving DEF Resume, Call
<1>9. CASE Engage(t)
  <2>1. At("engaging", "emergency", None, "none") \in TaskType
    BY AtType DEF Places, Calls
  <2> QED BY <1>1, <1>9, <2>1, CallOnly DEF Engage, Call, At
<1>10. CASE Release(t)
  <2>1. At("releasing", "emergency", None, "none") \in TaskType
    BY AtType DEF Places, Calls
  <2> QED BY <1>1, <1>10, <2>1, CallOnly DEF Release, Call, At
<1>11. CASE Recover(t)
  <2>1. PICK next \in TaskType : next.at \in {"idle", "guard"} /\ Call(t, next)
    BY <1>11, RecoverCalls
  <2>2. "write" \in missed' <=> "write" \in missed
    BY <1>11, RecoverCalls
  <2> QED BY <1>1, <1>11, <2>1, <2>2, CallOnly DEF Recover, Call
<1> QED BY <1>3, <1>4, <1>5, <1>6, <1>7, <1>8, <1>9, <1>10, <1>11 DEF Begin, Stop, Restart

--------------------------------------------------------------------------------
(* The steps of the only call. *)

\* worker.start has returned: the worker runs and so does the record.
LEMMA LoadedSolo ==
  ASSUME Inv, Solo, Failing = {}, NEW t \in Tasks, t \in Busy, Loaded(t)
  PROVE  Solo'
<1> DEFINE w == task[t].own
           next == At("saving", task[t].call, None, "RUNNING")
<1> USE DEF Inv
<1>1. w \in Workers /\ w = worker /\ worker' = worker /\ state' = "RUNNING"
  BY DEF Loaded, LoadInv, Solo, CallsOK
<1>2. next \in TaskType /\ next.at = "saving" /\ next.dump = "RUNNING"
  <2>1. task[t].call \in Calls
    BY DEF CoreType, TaskType
  <2> QED BY <2>1, AtType DEF At, Places, States
<1>3. /\ task'[t] = next /\ \A u \in Tasks \ {t} : task'[u] = task[u] /\ task[u].at = "idle"
      /\ \A u, v \in Busy' : u = v
  BY <1>2, Alone DEF Solo, Loaded
<1>4. /\ \A v \in Workers \ {w} : rt'[v] = rt[v]
      /\ rt'[w].phase = "idle" /\ rt'[w].allowed = TRUE /\ rt'[w].attached = rt[w].attached
  <2>1. rt' = [rt EXCEPT ![w] = [rt[w] EXCEPT !.allowed = TRUE, !.phase = "idle"]]
    BY <1>1 DEF Loaded, CoreType
  <2> QED BY <1>1, <2>1 DEF CoreType, WorkerType
<1>5. Failing' = {}
  BY <1>4 DEF Failing
<1>6. OneAtWork'
  BY <1>3, <1>5 DEF OneAtWork
<1>7. WorkersOK'
  <2>1. \A v \in Workers : rt[v].phase # "ending"
    BY <1>3 DEF Solo, WorkersOK, Loaded
  <2> QED BY <1>1, <1>4, <2>1 DEF Solo, WorkersOK
<1>8. CallsOK'
  BY <1>1, <1>2, <1>3 DEF CallsOK
<1>9. RecordOK'
  BY <1>1, <1>2, <1>3, <1>4, <1>5, RuntimeAssumption DEF RecordOK, Away
<1> QED BY <1>6, <1>7, <1>8, <1>9 DEF Solo

\* The row says what the record says.
LEMMA RowWritten ==
  ASSUME CoreType, Solo, Failing = {}, NEW t \in Tasks, t \in Busy, task[t].at = "saving",
         Store(task[t].dump), NEW next \in TaskType, Go(t, next),
         next.at = "idle" \/ (next.at = "saving" /\ next.dump = state),
         UNCHANGED <<state, worker, rt>>
  PROVE  Solo'
<1>1. /\ task'[t] = next /\ \A u \in Tasks \ {t} : task'[u] = task[u] /\ task[u].at = "idle"
      /\ \A u, v \in Busy' : u = v
  BY Alone DEF Solo
<1>2. state \in {"RUNNING", "PAUSED"} /\ (checkpoint' = state \/ "write" \in missed')
  BY DEF Solo, CallsOK, Store
<1>3. Failing' = {}
  BY DEF Failing
<1>4. OneAtWork'
  BY <1>1, <1>3 DEF OneAtWork
<1>5. WorkersOK'
  BY <1>1 DEF Solo, WorkersOK
<1>6. CallsOK'
  BY <1>1, <1>2 DEF CallsOK
<1>7. RecordOK'
  BY <1>1, <1>2, <1>3 DEF Solo, RecordOK, Away
<1> QED BY <1>4, <1>5, <1>6, <1>7 DEF Solo

\* The row of a stopped strategy is removed.
LEMMA RowRemoved ==
  ASSUME CoreType, Solo, Failing = {}, NEW t \in Tasks, t \in Busy, Removed(t)
  PROVE  Solo'
<1>1. /\ task'[t] = Idle /\ \A u \in Tasks \ {t} : task'[u] = task[u] /\ task[u].at = "idle"
      /\ \A u, v \in Busy' : u = v
  BY IdleType, Alone DEF Solo, Removed
<1>2. state = "STOPPED" /\ (checkpoint' = "none" \/ "write" \in missed')
  BY DEF Solo, CallsOK, Removed, Store
<1>3. Failing' = {} /\ Idle.at = "idle" /\ UNCHANGED <<state, worker, rt>>
  BY DEF Failing, Idle, Removed
<1>4. OneAtWork'
  BY <1>1, <1>3 DEF OneAtWork
<1>5. WorkersOK'
  BY <1>1, <1>3 DEF Solo, WorkersOK, Removed
<1>6. CallsOK'
  BY <1>1, <1>3 DEF CallsOK
<1>7. RecordOK'
  BY <1>1, <1>2, <1>3 DEF Solo, RecordOK, Away, Removed
<1> QED BY <1>4, <1>5, <1>6, <1>7 DEF Solo

\* A call gives up: its strategy stays STARTING, with a worker that has no task.
LEMMA GivesUp ==
  ASSUME Inv, Solo, Failing = {}, NEW t \in Tasks, t \in Busy, LoadFails(t)
  PROVE  Solo'
<1> USE DEF Inv
<1> DEFINE w == task[t].own
<1>1. /\ task'[t] = Idle /\ \A u \in Tasks \ {t} : task'[u] = task[u] /\ task[u].at = "idle"
      /\ \A u, v \in Busy' : u = v
  BY IdleType, Alone DEF Solo, LoadFails
<1>2. /\ w \in Workers /\ w = worker /\ state = "STARTING" /\ rt[w].phase = "off"
      /\ UNCHANGED <<state, worker, checkpoint, missed>>
  BY DEF Solo, CallsOK, LoadFails, LoadInv
<1>3. /\ \A v \in Workers \ {w} : rt'[v] = rt[v]
      /\ rt'[w].phase = "unloaded"
      /\ rt'[w].attached = rt[w].attached /\ rt'[w].allowed = rt[w].allowed
  BY <1>2, Unloaded
<1>4. Failing' = {} /\ Idle.at = "idle"
  BY <1>3 DEF Failing, Idle
<1>5. OneAtWork'
  BY <1>1, <1>4 DEF OneAtWork
<1>6. rt[w].allowed = FALSE
  BY <1>2 DEF Solo, WorkersOK, CoreType, WorkerType
<1>7. WorkersOK'
  BY <1>1, <1>2, <1>3, <1>6 DEF Solo, WorkersOK, LoadFails
<1>8. CallsOK'
  BY <1>1, <1>4 DEF CallsOK
<1>9. RecordOK'
  BY <1>1, <1>2, <1>3, <1>4 DEF Solo, RecordOK, Away, LoadFails
<1> QED BY <1>5, <1>7, <1>8, <1>9 DEF Solo

LEMMA ContinueSolo ==
  ASSUME Inv, SoloInv, NEW t \in Tasks, Continue(t) \/ LoadFails(t), overlapped' = FALSE
  PROVE  Solo'
<1> USE DEF Inv
<1>1. ~overlapped
  BY DEF Continue, Guard, Loaded, Saved, Halted, Removed, Engaged, Released, LoadFails
<1>2. t \in Busy
  BY DEF Busy, Continue, Guard, Loaded, Saved, Halted, Removed, Engaged, Released, LoadFails
<1>3. Solo /\ Failing = {}
  BY <1>1, <1>2 DEF SoloInv, Solo, OneAtWork
<1>4. \A u \in Tasks \ {t} : task[u].at = "idle"
  BY <1>2, <1>3 DEF Solo, OneAtWork, Busy
<1>5. task[t].call \in Calls /\ task[t].dump \in States \cup {"none"}
  BY DEF CoreType, TaskType
<1>6. CASE Guard(t)
  <2>1. CASE emergency \/ "STARTING" \notin Transitions[state]
    BY <1>2, <1>3, <1>6, <2>1, IdleType, CallOnly DEF Guard, Idle
  <2>2. CASE ~(emergency \/ "STARTING" \notin Transitions[state])
    <3>1. state \notin {"RUNNING", "PAUSED", "STARTING"}
      BY <2>2 DEF Transitions, CoreType, States
    <3>2. worker = None
      BY <1>3, <1>4, <1>6, <3>1 DEF Solo, RecordOK, Away, Guard
    <3>3. \A w \in Workers : rt[w].phase = "off"
      BY <1>3, <1>4, <1>6, <3>2, AllOff DEF Guard
    <3> QED BY <1>2, <1>3, <1>5, <1>6, <2>2, <3>2, <3>3, ToLoading DEF Guard
  <2> QED BY <2>1, <2>2
<1>7. CASE Loaded(t)
  BY <1>2, <1>3, <1>7, LoadedSolo
<1>8. CASE LoadFails(t)
  BY <1>2, <1>3, <1>8, GivesUp
<1>9. CASE Removed(t)
  BY <1>2, <1>3, <1>9, RowRemoved
<1>10. CASE Released(t)
  BY <1>2, <1>3, <1>10, IdleType, CallOnly DEF Released, Idle
<1>11. CASE Engaged(t)
  <2>1. CASE state = "RUNNING"
    BY <1>2, <1>3, <1>11, <2>1, ToSaving DEF Engaged
  <2>2. CASE state # "RUNNING"
    BY <1>2, <1>3, <1>11, <2>2, IdleType, CallOnly DEF Engaged, Idle
  <2> QED BY <2>1, <2>2
<1>12. CASE Halted(t)
  <2>1. worker = None
    BY <1>3, <1>12 DEF Halted, Solo, CallsOK
  <2>2. \A w \in Workers : rt[w].phase = "off"
    <3>1. \A w \in Workers : rt[w].phase # "unloaded"
      BY <1>3, <2>1, RuntimeAssumption DEF Solo, WorkersOK
    <3>2. task[t].own \in Workers => rt[task[t].own].phase = "off"
      BY <1>12, <3>1 DEF Halted, Live
    <3>3. ASSUME NEW w \in Workers, rt[w].phase # "off" PROVE FALSE
      <4>1. rt[w].phase = "ending"
        BY <1>3, <2>1, <3>3, RuntimeAssumption DEF Solo, WorkersOK, Failing
      <4>2. PICK u \in Tasks : task[u].at = "halting" /\ task[u].own = w
        BY <1>3, <4>1 DEF Solo, WorkersOK
      <4>3. u = t
        BY <1>4, <4>2
      <4> QED BY <3>2, <3>3, <4>2, <4>3
    <3> QED BY <3>3
  <2>3. CASE task[t].call = "stop"
    BY <1>2, <1>3, <1>12, <2>1, <2>2, <2>3, ToRemoving DEF Halted
  <2>4. CASE task[t].call # "stop"
    BY <1>2, <1>3, <1>12, <2>1, <2>2, <2>4, ToLoading DEF Halted, Calls
  <2> QED BY <2>3, <2>4
<1>13. CASE Saved(t)
  <2>1. state \in {"RUNNING", "PAUSED"} /\ task[t].dump = state
    BY <1>3, <1>13 DEF Saved, Solo, CallsOK
  <2>2. CASE Go(t, Idle) /\ UNCHANGED <<state, rt>>
    BY <1>2, <1>3, <1>13, <2>2, IdleType, RowWritten DEF Saved, Idle
  <2>3. CASE Go(t, SaveOf(state)) /\ UNCHANGED <<state, rt>>
    <3>1. SaveOf(state) \in TaskType /\ SaveOf(state).at = "saving"
          /\ SaveOf(state).dump = state
      BY SaveOfType DEF SaveOf, At, CoreType
    <3> QED BY <1>2, <1>3, <1>13, <2>3, <3>1, RowWritten DEF Saved
  <2>4. CASE state' = "PAUSED" /\ Allow(FALSE) /\ Go(t, SaveOf("PAUSED"))
    <3>1. Allow("PAUSED" = "RUNNING")
      BY <2>4
    <3>2. task[t].at \notin {"halting", "loading"} /\ worker' = worker
      BY <1>13 DEF Saved
    <3> QED BY <1>2, <1>3, <2>1, <2>4, <3>1, <3>2, ToSaving
  <2> QED BY <1>13, <2>2, <2>3, <2>4 DEF Saved, Allow
<1> QED BY <1>6, <1>7, <1>8, <1>9, <1>10, <1>11, <1>12, <1>13 DEF Continue

--------------------------------------------------------------------------------
(* The steps of the workers. *)

Working == {"idle", "due", "evaluating", "gate", "placing"}

\* Workers go about their evaluations.
LEMMA WorkersOnly ==
  ASSUME CoreType, Solo, UNCHANGED <<state, worker, task, checkpoint, missed>>,
         \A w \in Workers :
           /\ rt'[w].attached = rt[w].attached /\ rt'[w].allowed = rt[w].allowed
           /\ rt'[w].phase = rt[w].phase
              \/ (rt[w].phase \in Working /\ rt'[w].phase \in Working)
  PROVE  Solo'
<1>1. Failing' = Failing /\ Busy' = Busy
  BY DEF Failing, Busy, Working
<1>2. OneAtWork'
  BY <1>1 DEF Solo, OneAtWork
<1>3. WorkersOK'
  BY DEF Solo, WorkersOK, Working
<1>4. CallsOK'
  BY DEF Solo, CallsOK
<1>5. RecordOK'
  BY <1>1 DEF Solo, RecordOK, Away, Working
<1> QED BY <1>2, <1>3, <1>4, <1>5 DEF Solo

\* A worker reaches the error limit while no call is under way.
LEMMA FailSolo ==
  ASSUME CoreType, SoloInv, NEW w \in Workers, Fail(w), overlapped' = FALSE
  PROVE  Solo'
<1>1. /\ Solo /\ Busy = {} /\ Failing = {} /\ \A t \in Tasks : task[t].at = "idle"
  BY BeginsAlone DEF Fail
<1>2. w = worker /\ worker' = None /\ state' = "FAILED" /\ task' = task
  BY <1>1 DEF Fail, Solo, WorkersOK
<1>3. \A v \in Workers : /\ rt'[v].phase = IF v = w THEN "failing" ELSE rt[v].phase
                         /\ rt'[v].attached = (rt[v].attached /\ v # worker)
                         /\ rt'[v].allowed = rt[v].allowed
  <2> TAKE v \in Workers
  <2>1. rt'[v] = [rt[v] EXCEPT !.phase = IF v = w THEN "failing" ELSE @,
                               !.attached = @ /\ v # worker]
    BY DEF Fail
  <2> QED BY <2>1 DEF CoreType, WorkerType
<1>4. \A v \in Workers : rt'[v].attached = FALSE
  BY <1>1, <1>3, Zenon DEF Solo, WorkersOK
<1>5. \A v \in Workers \ {w} : rt'[v].phase = "off"
  BY <1>1, <1>2, <1>3 DEF Solo, WorkersOK, Failing
<1>6. OneAtWork'
  BY <1>1, <1>2, <1>3, <1>5 DEF OneAtWork, Busy, Failing
<1>7. WorkersOK'
  <2>1. \A v \in Workers : rt'[v].phase = "off" => ~rt'[v].allowed
    BY <1>1, <1>3 DEF Solo, WorkersOK
  <2> QED BY <1>2, <1>3, <1>4, <1>5, <2>1, RuntimeAssumption DEF WorkersOK
<1>8. CallsOK'
  BY <1>1, <1>2 DEF CallsOK
<1>9. w \in Failing'
  BY <1>3 DEF Failing
<1>10. RecordOK'
  BY <1>1, <1>2, <1>9, RuntimeAssumption DEF RecordOK, Away
<1> QED BY <1>6, <1>7, <1>8, <1>10 DEF Solo

\* A worker leaves its task: the failed one, with its row removed, or the cancelled one.
LEMMA LeavesSolo ==
  ASSUME CoreType, Solo, NEW w \in Workers, Failed(w) \/ Ended(w)
  PROVE  Solo'
<1>1. /\ rt'[w].phase = "off" /\ rt'[w].attached = rt[w].attached
      /\ \A v \in Workers \ {w} : rt'[v] = rt[v]
      /\ UNCHANGED <<state, worker, task>> /\ rt[w].phase \in {"failing", "ending"}
      /\ rt'[w].allowed = FALSE
  <2>1. Leaves(w) /\ rt[w].phase \in {"failing", "ending"} /\ UNCHANGED <<state, worker, task>>
    BY DEF Failed, Ended, TaskKeeps
  <2>2. w # worker
    BY <2>1 DEF Solo, WorkersOK
  <2>3. rt[w].attached = FALSE
    BY <2>2 DEF Solo, WorkersOK, CoreType, WorkerType
  <2> QED BY <2>1, <2>3, LeavesNothing
<1>2. w # worker
  BY <1>1 DEF Solo, WorkersOK
<1>3. Busy' = Busy /\ Failing' = Failing \ {w}
  BY <1>1 DEF Failing, Busy
<1>4. OneAtWork'
  BY <1>3 DEF Solo, OneAtWork
<1>5. WorkersOK'
  BY <1>1 DEF Solo, WorkersOK
<1>6. CallsOK'
  BY <1>1 DEF Solo, CallsOK
<1>7. RecordOK'
  <2>1. CASE Failed(w)
    <3>1. Failing = {w} /\ worker = None /\ state = "FAILED"
          /\ (checkpoint' = "none" \/ "write" \in missed')
      BY <2>1 DEF Failed, Failing, Solo, OneAtWork, RecordOK, Store
    <3> QED BY <1>1, <1>3, <3>1, RuntimeAssumption DEF RecordOK, Away
  <2>2. CASE Ended(w)
    <3>1. PICK t \in Tasks : task[t].at = "halting"
      BY <2>2 DEF Ended, Solo, WorkersOK
    <3>2. Failing' = {}
      BY <1>3, <3>1 DEF Solo, OneAtWork, Busy
    <3> QED BY <1>1, <3>1, <3>2 DEF RecordOK, Away
  <2> QED BY <2>1, <2>2
<1> QED BY <1>4, <1>5, <1>6, <1>7 DEF Solo

LEMMA WorkerSolo ==
  ASSUME Inv, Solo, NEW w \in Workers,
         Works(w) \/ DryRun(w) \/ DryRunEnds(w) \/ Tick
  PROVE  Solo'
<1> USE DEF Inv
<1>1. CASE Failed(w) \/ Ended(w)
  BY <1>1, LeavesSolo
<1>2. CASE Evaluate(w) \/ Evaluated(w) \/ Placed(w)
  <2>1. /\ \A v \in Workers \ {w} : rt'[v] = rt[v]
        /\ rt'[w].attached = rt[w].attached /\ rt'[w].allowed = rt[w].allowed
        /\ rt[w].phase \in Working /\ rt'[w].phase \in Working
        /\ UNCHANGED <<state, worker, task, checkpoint, missed>>
    BY <1>2 DEF Evaluate, Evaluated, Placed, Phase, TaskKeeps, Working, CoreType, WorkerType
  <2> QED BY <2>1, WorkersOnly
<1>3. CASE Take(w)
  <2>1. /\ \A v \in Workers \ {w} : rt'[v] = rt[v]
        /\ rt'[w].attached = rt[w].attached /\ rt'[w].allowed = rt[w].allowed
        /\ rt[w].phase \in Working /\ rt'[w].phase \in Working
        /\ UNCHANGED <<state, worker, task, checkpoint, missed>>
    BY <1>3 DEF Take, TaskKeeps, Working, CoreType, WorkerType
  <2> QED BY <2>1, WorkersOnly
<1>4. CASE Gate(w)
  <2>1. /\ \A v \in Workers \ {w} : rt'[v] = rt[v]
        /\ rt'[w].attached = rt[w].attached /\ rt'[w].allowed = rt[w].allowed
        /\ rt[w].phase \in Working /\ rt'[w].phase \in Working
        /\ UNCHANGED <<state, worker, task, checkpoint, missed>>
    BY <1>4 DEF Gate, TaskKeeps, Working, CoreType, WorkerType
  <2> QED BY <2>1, WorkersOnly
<1>5. CASE DryRun(w) \/ DryRunEnds(w)
  <2>1. /\ \A v \in Workers : /\ rt'[v].attached = rt[v].attached
                              /\ rt'[v].allowed = rt[v].allowed
                              /\ rt'[v].phase = rt[v].phase
        /\ UNCHANGED <<state, worker, task, checkpoint, missed>>
    BY <1>5 DEF DryRun, DryRunEnds, TaskKeeps, CoreType, WorkerType
  <2> QED BY <2>1, WorkersOnly
<1>6. CASE Tick
  <2>1. \A v \in Workers : /\ rt'[v].attached = rt[v].attached
                          /\ rt'[v].allowed = rt[v].allowed
                          /\ rt'[v].phase = rt[v].phase
    <3> TAKE v \in Workers
    <3>1. rt'[v] = IF Receives(v) THEN [rt[v] EXCEPT !.queue = @ + 1] ELSE rt[v]
      BY <1>6 DEF Tick
    <3> QED BY <3>1 DEF CoreType, WorkerType
  <2> QED BY <1>6, <2>1, WorkersOnly DEF Tick, TaskKeeps
<1> QED BY <1>1, <1>2, <1>3, <1>4, <1>5, <1>6 DEF Works

--------------------------------------------------------------------------------
\* A process without a record.
LEMMA Nothing ==
  ASSUME state' = "none", worker' = None,
         \A w \in Workers : rt'[w] = Gone, \A t \in Tasks : task'[t] = Idle
  PROVE  Solo'
<1>1. Gone.phase = "off" /\ Gone.attached = FALSE /\ Gone.allowed = FALSE /\ Idle.at = "idle"
  BY DEF Gone, Idle
<1>2. Busy' = {} /\ Failing' = {}
  BY <1>1 DEF Busy, Failing
<1>3. OneAtWork'
  BY <1>2 DEF OneAtWork
<1>4. WorkersOK'
  BY <1>1, RuntimeAssumption DEF WorkersOK
<1>5. CallsOK' /\ RecordOK'
  BY <1>1, <1>2, RuntimeAssumption DEF CallsOK, RecordOK, Away
<1> QED BY <1>3, <1>4, <1>5 DEF Solo

LEMMA InitSolo == Init => SoloInv
<1> SUFFICES ASSUME Init PROVE Solo
  BY DEF SoloInv
<1>1. Gone.phase = "off" /\ Gone.attached = FALSE /\ Gone.allowed = FALSE /\ Idle.at = "idle"
  BY DEF Gone, Idle
<1>2. Busy = {} /\ Failing = {}
  BY <1>1 DEF Busy, Failing, Init
<1>3. OneAtWork
  BY <1>2 DEF OneAtWork
<1>4. WorkersOK
  BY <1>1, RuntimeAssumption DEF WorkersOK, Init
<1>5. CallsOK /\ RecordOK
  BY <1>1, <1>2, RuntimeAssumption DEF CallsOK, RecordOK, Away, Init
<1> QED BY <1>3, <1>4, <1>5 DEF Solo

LEMMA NextSolo == Inv /\ SoloInv /\ Flags /\ Flags' /\ [Next]_vars => SoloInv'
<1> SUFFICES ASSUME Inv, SoloInv, [Next]_vars, Flags, overlapped' = FALSE PROVE Solo'
  BY DEF SoloInv, Flags
<1> USE DEF Inv
<1>1. ASSUME NEW t \in Tasks, Begin(t) \/ Continue(t) \/ LoadFails(t) \/ Recover(t)
      PROVE  Solo'
  BY <1>1, BeginSolo, ContinueSolo
<1>2. ASSUME NEW w \in Workers, Fail(w) PROVE Solo'
  BY <1>2, FailSolo
<1>3. ASSUME NEW w \in Workers, Works(w) \/ DryRun(w) \/ DryRunEnds(w) \/ Tick PROVE Solo'
  <2>1. ~overlapped
    BY <1>3 DEF Works, Take, Evaluate, Evaluated, Gate, Placed, Failed, Ended, DryRun,
                DryRunEnds, Tick, TaskKeeps
  <2> QED BY <1>3, <2>1, WorkerSolo DEF SoloInv
<1>4. CASE Tick
  <2>1. PICK w \in Workers : Receives(w)
    BY <1>4 DEF Tick
  <2> QED BY <1>3, <1>4
<1>5. CASE Crash
  BY <1>5, Nothing DEF Crash, CoreType
<1>6. CASE UNCHANGED vars
  <2>1. ~overlapped
    BY <1>6 DEF vars
  <2>2. UNCHANGED <<state, worker, rt, task, checkpoint, missed>>
    BY <1>6 DEF vars
  <2> QED BY <2>1, <2>2, WorkersOnly DEF SoloInv
<1> QED BY <1>1, <1>2, <1>3, <1>4, <1>5, <1>6 DEF Next

LEMMA FlagsAlways == Spec => []Flags
<1>1. Init => Flags
  BY Zenon DEF Init, Flags
<1> QED BY <1>1, FlagsNext, PTL DEF Spec

LEMMA SoloAlways == Spec => [](Inv /\ SoloInv)
BY InitSolo, NextSolo, Invariant, FlagsAlways, PTL DEF Spec

LEMMA SettledSolo ==
  ASSUME Inv, SoloInv, Settled
  PROVE  Solo /\ Failing = {} /\ \A t \in Tasks : task[t].at = "idle"
BY DEF Settled, SoloInv, Busy

\* Between calls that never overlapped the record says who is alive, who is fed and who may
\* evaluate (start_strategy, pause_strategy, stop_strategy, restart_strategy and the callback
\* of a failed worker).
THEOREM TruthfulRecord == Spec => []RecordIsTrue
<1>1. ASSUME Inv, SoloInv PROVE RecordIsTrue
  <2> SUFFICES ASSUME Settled
               PROVE  /\ \A w \in Workers :
                            /\ rt[w].attached <=> w = worker
                            /\ Live(w) => w = worker
                      /\ worker # None <=> state \in {"RUNNING", "PAUSED"} \/ Stranded
                      /\ worker # None =>
                            /\ Live(worker) \/ rt[worker].phase = "unloaded"
                            /\ rt[worker].allowed <=> state = "RUNNING"
    BY DEF RecordIsTrue
  <2>1. Solo /\ Failing = {} /\ \A t \in Tasks : task[t].at = "idle"
    BY <1>1, SettledSolo
  <2>2. Away({"halting"}) /\ Away({"halting", "loading"}) /\ (Stranded <=> state = "STARTING")
    BY <2>1 DEF Away, Stranded
  <2>3. \A w \in Workers : rt[w].phase \notin {"ending", "failing"}
    BY <2>1 DEF Solo, WorkersOK, Failing
  <2>4. worker # None <=> state \in {"RUNNING", "PAUSED"} \/ Stranded
    BY <2>1, <2>2 DEF Solo, RecordOK
  <2>5. ASSUME NEW w \in Workers
        PROVE  /\ rt[w].attached <=> w = worker
               /\ Live(w) => w = worker
    BY <2>1, <2>3 DEF Solo, WorkersOK, Live
  <2>6. ASSUME worker # None
        PROVE  /\ Live(worker) \/ rt[worker].phase = "unloaded"
               /\ rt[worker].allowed <=> state = "RUNNING"
    <3>1. worker \in Workers
      BY <1>1, <2>6 DEF Inv, CoreType
    <3>2. rt[worker].phase \notin {"off", "ending", "failing"}
      BY <2>1, <2>2, <2>3, <3>1 DEF Solo, RecordOK
    <3>3. rt[worker].allowed <=> state = "RUNNING"
      BY <2>1, <3>1, <3>2 DEF Solo, WorkersOK
    <3> QED BY <3>2, <3>3 DEF Live
  <2> QED BY <2>4, <2>5, <2>6
<1> QED BY <1>1, SoloAlways, PTL

\* In the same circumstances the checkpoint brings back what runs and nothing else (save,
\* remove).
THEOREM TruthfulCheckpoint == Spec => []CheckpointIsRecord
<1>1. ASSUME Inv, SoloInv PROVE CheckpointIsRecord
  <2>1. Settled => Solo /\ Failing = {} /\ Away({"loading", "halting", "removing", "saving"})
    BY <1>1, SettledSolo DEF Away
  <2> QED BY <2>1 DEF CheckpointIsRecord, Solo, RecordOK
<1> QED BY <1>1, SoloAlways, PTL
================================================================================
