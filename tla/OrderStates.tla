------------------------------ MODULE OrderStates ------------------------------
(* The order states of the OMS and the transition table the code consults      *)
(* (oms/models.py, oms/state_machine.py).  Pure definitions: OrderManager      *)
(* decides with them exactly where manager.py calls can_transition.            *)

States == {"NEW", "VALIDATED", "QUEUED", "SENT", "UNKNOWN", "RECONCILING",
           "AMBIGUOUS", "PENDING", "PARTIAL", "FILLED", "CANCELLED",
           "REJECTED", "EXPIRED"}

\* OMS_STATE_TRANSITIONS; every state the table maps to set() has no successor.
Transitions ==
  [ s \in States |->
      CASE s = "NEW"         -> {"VALIDATED", "QUEUED", "REJECTED"}
        [] s = "VALIDATED"   -> {"QUEUED", "REJECTED"}
        [] s = "QUEUED"      -> {"SENT", "REJECTED", "CANCELLED"}
        [] s = "SENT"        -> {"UNKNOWN", "RECONCILING", "PENDING", "PARTIAL",
                                 "FILLED", "REJECTED"}
        [] s = "UNKNOWN"     -> {"RECONCILING", "PENDING", "PARTIAL", "FILLED",
                                 "REJECTED", "AMBIGUOUS", "CANCELLED", "EXPIRED"}
        [] s = "RECONCILING" -> {"UNKNOWN", "PENDING", "PARTIAL", "FILLED",
                                 "REJECTED", "AMBIGUOUS", "CANCELLED", "EXPIRED"}
        [] s = "PENDING"     -> {"PARTIAL", "FILLED", "CANCELLED", "REJECTED",
                                 "EXPIRED"}
        [] s = "PARTIAL"     -> {"QUEUED", "PENDING", "FILLED", "CANCELLED",
                                 "REJECTED"}
        [] OTHER             -> {} ]

\* state_machine.can_transition; "none" is an order the process does not hold.
CanTransition(from, to) == from \in States /\ to \in Transitions[from]

\* state_machine.is_terminal: AMBIGUOUS has no successors but is not in the set.
IsTerminal(s) == s \in {"FILLED", "CANCELLED", "REJECTED", "EXPIRED"}

\* state_machine.is_active.
Active == {"NEW", "VALIDATED", "QUEUED", "SENT", "PENDING", "PARTIAL"}

\* persistence.load_active_orders selects these states and no others.
Recoverable == {"NEW", "VALIDATED", "QUEUED", "SENT", "PENDING", "PARTIAL"}
================================================================================
