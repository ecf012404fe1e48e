---------------------------- MODULE CircuitBreaker ----------------------------
(***************************************************************************)
(* The circuit breaker around a broker adapter (core/resilience.py), used  *)
(* for every call by brokers/circuit_breaker_broker.py.  Calls run         *)
(* concurrently: each is let in under the lock, awaits the broker without  *)
(* it, and takes it again to account for the outcome.                      *)
(***************************************************************************)
EXTENDS Integers

CONSTANTS
    Calls,      \* calls that may be under way at once
    Threshold,  \* failure_threshold
    MaxLevel    \* openings after which max_recovery_timeout caps the backoff

ASSUME BreakerAssumption == Threshold \in Nat \ {0} /\ MaxLevel \in Nat \ {0}

VARIABLES
    state,     \* "closed", "open" or "half_open"
    failures,  \* failure_count
    opens,     \* _consecutive_open_count, which is the level of the backoff
    elapsed,   \* the recovery timeout has passed since last_failure_time
    running,   \* calls that await the broker
    healthy,   \* the broker answers
    streak     \* failures since the last success or opening (observation)

vars == <<state, failures, opens, elapsed, running, healthy, streak>>

(* The count of failures grows without end while the breaker is open; what is
   above the threshold makes no difference. *)
Capped(n, cap) == IF n > cap THEN cap ELSE n

TypeOK ==
    /\ state \in {"closed", "open", "half_open"}
    /\ failures \in 0..Threshold /\ opens \in 0..MaxLevel
    /\ elapsed \in BOOLEAN /\ healthy \in BOOLEAN
    /\ running \subseteq Calls
    /\ streak \in Nat

Init ==
    /\ state = "closed" /\ failures = 0 /\ opens = 0 /\ elapsed = FALSE
    /\ running = {} /\ healthy = TRUE /\ streak = 0

(* Mutant: a backoff without its maximum. *)
TransitionUncapped(next) ==
    /\ state' = next
    /\ opens' = CASE next = "open" /\ state # "open" -> opens + 1
                  [] next = "closed" /\ state # "closed" -> 0
                  [] OTHER -> opens

(* _transition: opening raises the level of the backoff, closing resets it. *)
Transition(next) ==
    /\ state' = next
    /\ opens' = CASE next = "open" /\ state # "open" -> Capped(opens + 1, MaxLevel)
                  [] next = "closed" /\ state # "closed" -> 0
                  [] OTHER -> opens

(* Mutant: a breaker that lets nobody try once it is open. *)
AdmitClosed(c) ==
    /\ c \notin running /\ state # "open"
    /\ Transition(state)
    /\ running' = running \cup {c}
    /\ UNCHANGED <<failures, elapsed, healthy, streak>>

(* An open breaker refuses (or answers with the fallback) until the recovery
   timeout has passed, then it is half open; every other call is let in, also
   while another one is the trial. *)
Admit(c) ==
    /\ c \notin running /\ (state = "open" => elapsed)
    /\ Transition(IF state = "open" THEN "half_open" ELSE state)
    /\ running' = running \cup {c}
    /\ UNCHANGED <<failures, elapsed, healthy, streak>>

(* Any success forgets the failures, whatever the state is by now; only a
   half-open breaker closes. *)
Succeed(c) ==
    /\ c \in running
    /\ Transition(IF state = "half_open" THEN "closed" ELSE state)
    /\ failures' = 0 /\ streak' = 0
    /\ running' = running \ {c}
    /\ UNCHANGED <<elapsed, healthy>>

(* Mutant: one failure too many. *)
FailOneMore(c) ==
    /\ c \in running /\ ~healthy
    /\ failures' = Capped(failures + 1, Threshold)
    /\ Transition(IF failures >= Threshold THEN "open" ELSE state)
    /\ streak' = IF state' = "open" THEN 0 ELSE streak + 1
    /\ elapsed' = FALSE
    /\ running' = running \ {c}
    /\ UNCHANGED healthy

Fail(c) ==
    /\ c \in running /\ ~healthy
    /\ failures' = Capped(failures + 1, Threshold)
    /\ Transition(IF failures + 1 >= Threshold THEN "open" ELSE state)
    /\ streak' = IF state' = "open" THEN 0 ELSE streak + 1
    /\ elapsed' = FALSE
    /\ running' = running \ {c}
    /\ UNCHANGED healthy

(* A cancelled caller is neither a success nor a failure. *)
Abandon(c) ==
    /\ c \in running
    /\ running' = running \ {c}
    /\ UNCHANGED <<state, failures, opens, elapsed, healthy, streak>>

Elapse ==
    /\ state = "open" /\ ~elapsed
    /\ elapsed' = TRUE
    /\ UNCHANGED <<state, failures, opens, running, healthy, streak>>

(* The broker goes down or comes back. *)
Broker ==
    /\ healthy' = ~healthy
    /\ UNCHANGED <<state, failures, opens, elapsed, running, streak>>

Next ==
    \/ \E c \in Calls : Admit(c) \/ Succeed(c) \/ Fail(c) \/ Abandon(c)
    \/ Elapse
    \/ Broker

Spec == Init /\ [][Next]_vars

(* Time passes, and there is somebody whose calls are made again and again and
   are not cancelled for ever: the position and order pollers. *)
FairSpec ==
    /\ Spec
    /\ WF_vars(Elapse)
    /\ WF_vars(\E c \in Calls : Admit(c))
    /\ \A c \in Calls : SF_vars(Succeed(c))

-----------------------------------------------------------------------------
(* Properties. *)

(* Whatever order concurrent outcomes are accounted in: a closed breaker is
   below its threshold and at the base timeout, one that is not closed has
   opened, and Threshold failures in a row, without a success or an opening
   between them, never go by unnoticed.  The limit holds for trials of a half-
   open breaker too, which a success that started before the opening can leave
   at a count of zero. *)
OpensInTime ==
    /\ state = "closed" => failures < Threshold /\ opens = 0
    /\ state # "closed" => opens > 0
    /\ state # "open" => streak < Threshold

(* A broker that stays healthy gets a closed breaker. *)
Heals == <>[]healthy => <>[](state = "closed")
=============================================================================
