---------------------------- MODULE Brackets_proofs ----------------------------
(* Theorems about automatic brackets, for every set of orders, every bound on     *)
(* restarts and every set of environment events.                                  *)
EXTENDS Brackets, TLAPS

\* The monitor is about this entry, or would be with its next pass.
Owed(e) == \/ bracket[e] = "active"
           \/ mon \in {"placing", "queued", "saving"} /\ exit[1] = e
           \/ \E l \in Legs : <<e, l>> \in todo

\* Its exit has been queued and not been refused.
InFlight(e) == mon \in {"queued", "saving"} /\ ~refused /\ exit[1] = e

\* An entry that is not found FILLED has no bracket and no exit.
FreshOK ==
  \A e \in Entries : entry[e] \in {"open", "saving", "cancelled"} =>
    /\ ~Owed(e) /\ bracket[e] = "none" /\ row[e] = "none" /\ working[e] = 0
    /\ cancel[e] # "saving"

\* In a pass the monitor places at most one exit per entry.
PassOK ==
  /\ mon = "idle" => todo = {}
  /\ mon \in {"placing", "queued", "saving"} =>
       /\ exit \in Exits
       /\ \A x \in todo : x[1] # exit[1]
       /\ \A x, y \in todo : x[1] = y[1] => x = y
  /\ mon = "saving" => ~refused /\ bracket[exit[1]] # "active" /\ exited[exit[1]]
  /\ refused => mon = "queued"

\* Until the exit of this life is queued, the working ones are of earlier lives.
ExitsOK ==
  \A e \in Entries : /\ Owed(e) /\ ~InFlight(e) => working[e] <= crashes
                     /\ working[e] <= 1 + crashes

\* What deactivates a bracket is an exit or a cancel.
ProtectOK ==
  \A e \in Entries :
    /\ cancel[e] \in {"dropping", "saving"} => revoked[e]
    /\ row[e] = "used" => exited[e] \/ revoked[e]
    /\ ~revoked[e] /\ \/ entry[e] = "attaching"
                      \/ entry[e] = "done" /\ (crashes = 0 \/ row[e] # "none")
         => bracket[e] = "active" \/ exited[e]

Inv == TypeOK /\ FreshOK /\ PassOK /\ ExitsOK /\ ProtectOK

LEMMA InitInv == Init => Inv
<1> SUFFICES ASSUME Init PROVE Inv
  OBVIOUS
<1>1. refused \in BOOLEAN /\ exited \in [Entries -> BOOLEAN] /\ revoked \in [Entries -> BOOLEAN]
  BY Zenon DEF Init
<1>2. TypeOK
  BY <1>1, CrashesAssumption DEF Init, TypeOK, Quotes, Exits, Nobody
<1>3. FreshOK /\ PassOK /\ ExitsOK /\ ProtectOK
  BY DEF Init, FreshOK, PassOK, ExitsOK, ProtectOK, Owed, InFlight
<1> QED BY <1>2, <1>3 DEF Inv

--------------------------------------------------------------------------------
\* The quotes leave at most one exit per entry.
LEMMA QuotedSome ==
  ASSUME todo \subseteq Exits, Quoted
  PROVE  \E rest \in SUBSET todo :
           /\ \A x, y \in rest : x[1] = y[1] => x = y
           /\ Proceed(rest)
<1>1. PICK q \in Answers : Proceed({x \in todo : q[x[1]] = x[2]})
  BY DEF Quoted
<1>2. \A x, y \in {z \in todo : q[z[1]] = z[2]} : x[1] = y[1] => x = y
  BY DEF Exits
<1> QED BY <1>1, <1>2

(* Type correctness. *)

LEMMA TypeNext == TypeOK /\ PassOK /\ [Next]_vars => TypeOK'
<1> SUFFICES ASSUME TypeOK, PassOK, [Next]_vars PROVE TypeOK'
  OBVIOUS
<1> USE CrashesAssumption DEF TypeOK, PassOK, vars, orders, monitor, Legs, Nobody, Exits
<1>1. ASSUME NEW e \in Entries, Fill(e) \/ Attach(e) \/ AttachSaved(e) PROVE TypeOK'
  BY <1>1 DEF Fill, Attach, AttachSaved, Land
<1>2. ASSUME NEW e \in Entries,
             Cancel(e) \/ CancelAnswered(e) \/ Deactivate(e) \/ CancelSaved(e)
      PROVE TypeOK'
  <2>1. CASE Cancel(e)
    BY <2>1 DEF Cancel
  <2>2. CASE CancelAnswered(e)
    <3>1. /\ cancel' \in [Entries -> {"none", "asked", "dropping", "saving"}]
          /\ entry' \in [Entries -> {"open", "saving", "attaching", "done", "bare", "cancelled"}]
      BY <2>2, ZenonT(60) DEF CancelAnswered
    <3>2. revoked' \in [Entries -> BOOLEAN]
      BY <2>2 DEF CancelAnswered
    <3> QED BY <2>2, <3>1, <3>2 DEF CancelAnswered
  <2>3. CASE Deactivate(e)
    BY <2>3, ZenonT(60) DEF Deactivate, UseUp, Quotes
  <2>4. CASE CancelSaved(e)
    BY <2>4 DEF CancelSaved, Land
  <2> QED BY <1>2, <2>1, <2>2, <2>3, <2>4
<1>3. ASSUME NEW e \in Entries, ExitRefused(e) PROVE TypeOK'
  <2>1. refused' \in BOOLEAN
    BY <1>3, Zenon DEF ExitRefused
  <2> QED BY <1>3, <2>1 DEF ExitRefused
<1>4. ASSUME NEW e \in Entries, Move(e) PROVE TypeOK'
  BY <1>4 DEF Move
<1>5. CASE Pass
  BY <1>5 DEF Pass
<1>6. CASE Quoted
  <2>1. refused' \in BOOLEAN
    BY <1>6, Zenon DEF Quoted, Proceed
  <2>2. PICK rest \in SUBSET todo : Proceed(rest)
    BY <1>6, QuotedSome
  <2> QED BY <1>6, <2>1, <2>2 DEF Quoted, Proceed
<1>7. CASE ExitQueued
  BY <1>7 DEF ExitQueued
<1>8. CASE Noted
  BY <1>8 DEF Noted, UseUp, Quotes
<1>9. CASE ExitSaved
  <2>1. refused' \in BOOLEAN
    BY <1>9, Zenon DEF ExitSaved, Proceed, Land
  <2>2. row' \in [Entries -> {"none", "active", "used"}]
    BY <1>9 DEF ExitSaved, Land
  <2>3. /\ mon' \in {"idle", "quoting", "placing", "queued", "saving"}
        /\ todo' \subseteq Exits
        /\ exit' \in Exits \cup {Nobody} /\ tries' \in 0..2
    BY <1>9 DEF ExitSaved, Proceed
  <2> QED BY <1>9, <2>1, <2>2, <2>3 DEF ExitSaved
<1>10. CASE Fallback
  <2>1. refused' \in BOOLEAN
    BY <1>10, Zenon DEF Fallback, Proceed
  <2> QED BY <1>10, <2>1 DEF Fallback, Proceed
<1>11. CASE Restart
  <2>1. refused' \in BOOLEAN
    BY <1>11, Zenon DEF Restart, Quotes
  <2> QED BY <1>11, <2>1 DEF Restart, Quotes
<1>12. CASE PassEmpty \/ UNCHANGED vars
  BY <1>12 DEF PassEmpty
<1> QED
  BY <1>1, <1>2, <1>3, <1>4, <1>5, <1>6, <1>7, <1>8, <1>9, <1>10, <1>11, <1>12
     DEF Next, MonitorStep

--------------------------------------------------------------------------------
(* The other parts, one lemma per group of actions. *)

Rest == FreshOK /\ PassOK /\ ExitsOK /\ ProtectOK

LEMMA EntrySteps ==
  ASSUME Inv, NEW e \in Entries, Fill(e) \/ Attach(e) \/ AttachSaved(e)
  PROVE  Rest'
<1> USE DEF Inv, TypeOK, FreshOK, PassOK, ExitsOK, ProtectOK, Owed, InFlight, Rest, monitor
<1>1. CASE Fill(e)
  BY <1>1, SMTT(30) DEF Fill
<1>2. CASE Attach(e)
  <2>1. FreshOK'
    BY <1>2 DEF Attach
  <2>2. PassOK'
    <3>1. mon \in {"placing", "queued", "saving"} => exit[1] \in Entries
      BY DEF Exits
    <3> QED BY <1>2, <3>1 DEF Attach
  <2>3. ExitsOK'
    BY <1>2 DEF Attach
  <2>4. ProtectOK'
    BY <1>2 DEF Attach
  <2> QED BY <2>1, <2>2, <2>3, <2>4
<1>3. CASE AttachSaved(e)
  <2>1. FreshOK'
    BY <1>3 DEF AttachSaved, Land
  <2>2. PassOK'
    BY <1>3 DEF AttachSaved, Land
  <2>3. ExitsOK'
    BY <1>3 DEF AttachSaved, Land
  <2>4. ProtectOK'
    BY <1>3 DEF AttachSaved, Land
  <2> QED BY <2>1, <2>2, <2>3, <2>4
<1> QED BY <1>1, <1>2, <1>3

LEMMA CancelSteps ==
  ASSUME Inv, NEW e \in Entries,
         Cancel(e) \/ CancelAnswered(e) \/ Deactivate(e) \/ CancelSaved(e)
  PROVE  Rest'
<1> USE DEF Inv, TypeOK, FreshOK, PassOK, ExitsOK, ProtectOK, Owed, InFlight, Rest, monitor
<1>1. CASE Cancel(e)
  BY <1>1 DEF Cancel
<1>2. CASE CancelAnswered(e)
  <2>1. FreshOK'
    BY <1>2 DEF CancelAnswered
  <2>2. PassOK'
    BY <1>2 DEF CancelAnswered
  <2>3. ExitsOK'
    BY <1>2 DEF CancelAnswered
  <2>4. ProtectOK'
    BY <1>2 DEF CancelAnswered
  <2> QED BY <2>1, <2>2, <2>3, <2>4
<1>3. CASE Deactivate(e)
  <2>1. FreshOK'
    BY <1>3 DEF Deactivate, UseUp
  <2>2. PassOK'
    <3>1. mon \in {"placing", "queued", "saving"} => exit[1] \in Entries
      BY DEF Exits
    <3> QED BY <1>3, <3>1 DEF Deactivate, UseUp
  <2>3. ExitsOK'
    BY <1>3 DEF Deactivate, UseUp
  <2>4. ProtectOK'
    BY <1>3 DEF Deactivate, UseUp
  <2> QED BY <2>1, <2>2, <2>3, <2>4
<1>4. CASE CancelSaved(e)
  <2>1. FreshOK'
    BY <1>4 DEF CancelSaved, Land
  <2>2. PassOK'
    BY <1>4 DEF CancelSaved, Land
  <2>3. ExitsOK'
    BY <1>4 DEF CancelSaved, Land
  <2>4. ProtectOK'
    BY <1>4 DEF CancelSaved, Land
  <2> QED BY <2>1, <2>2, <2>3, <2>4
<1> QED BY <1>1, <1>2, <1>3, <1>4

LEMMA MarketSteps ==
  ASSUME Inv, NEW e \in Entries, ExitRefused(e) \/ Move(e)
  PROVE  Rest'
<1> USE DEF Inv, TypeOK, FreshOK, PassOK, ExitsOK, ProtectOK, Owed, InFlight, Rest, orders, monitor
<1>1. CASE ExitRefused(e)
  <2>1. FreshOK'
    BY <1>1 DEF ExitRefused
  <2>2. PassOK'
    BY <1>1 DEF ExitRefused
  <2>3. ExitsOK'
    BY <1>1 DEF ExitRefused
  <2>4. ProtectOK'
    BY <1>1 DEF ExitRefused
  <2> QED BY <2>1, <2>2, <2>3, <2>4
<1>2. CASE Move(e)
  BY <1>2 DEF Move
<1> QED BY <1>1, <1>2

LEMMA MonitorSteps ==
  ASSUME Inv, MonitorStep
  PROVE  Rest'
<1> USE DEF Inv, TypeOK, FreshOK, PassOK, ExitsOK, ProtectOK, Owed, InFlight, Rest, orders,
            Exits, Legs
<1>1. CASE Pass
  BY <1>1 DEF Pass
<1>2. CASE Quoted
  <2>1. PICK rest \in SUBSET todo :
           /\ \A x, y \in rest : x[1] = y[1] => x = y
           /\ Proceed(rest)
    BY <1>2, QuotedSome
  <2>2. UNCHANGED <<orders, bracket, row, price, working, exited, crashes>> /\ mon = "quoting"
    BY <1>2 DEF Quoted
  <2> QED BY <2>1, <2>2 DEF Proceed
<1>3. CASE ExitQueued
  BY <1>3 DEF ExitQueued
<1>4. CASE Noted
  BY <1>4 DEF Noted, UseUp
<1>5. CASE ExitSaved
  BY <1>5 DEF ExitSaved, Proceed, Land
<1>6. CASE Fallback
  BY <1>6 DEF Fallback, Proceed
<1> QED BY <1>1, <1>2, <1>3, <1>4, <1>5, <1>6 DEF MonitorStep

LEMMA RestartStep == Inv /\ Restart => Rest'
BY CrashesAssumption
   DEF Inv, TypeOK, FreshOK, PassOK, ExitsOK, ProtectOK, Owed, InFlight, Rest, Restart

LEMMA NextInv == Inv /\ [Next]_vars => Inv'
<1> SUFFICES ASSUME Inv, [Next]_vars PROVE Inv'
  OBVIOUS
<1>1. TypeOK'
  BY TypeNext DEF Inv
<1>2. CASE UNCHANGED vars
  BY <1>2 DEF Inv, TypeOK, FreshOK, PassOK, ExitsOK, ProtectOK, Owed, InFlight, vars, orders,
              monitor
<1>3. CASE PassEmpty
  BY <1>2, <1>3 DEF PassEmpty
<1>4. CASE Next /\ ~PassEmpty
  <2>1. Rest'
    BY <1>4, EntrySteps, CancelSteps, MarketSteps, MonitorSteps, RestartStep DEF Next
  <2> QED BY <1>1, <2>1 DEF Rest, Inv
<1> QED BY <1>2, <1>3, <1>4

LEMMA Invariant == Spec => []Inv
BY InitInv, NextInv, PTL DEF Spec

--------------------------------------------------------------------------------
\* The monitor's state is well typed; an exit is tried at most twice (_place_exit).
THEOREM BracketTypeCorrect == Spec => []TypeOK
<1>1. Inv => TypeOK
  BY DEF Inv
<1> QED BY <1>1, Invariant, PTL

\* A position is closed once per life of the process, however refusals, cancels and
\* late saves fall (_evaluate_brackets, _place_exit).
THEOREM BracketExitsOnce == Spec => []OneExitPerLife
<1>1. Inv => OneExitPerLife
  BY DEF Inv, ExitsOK, OneExitPerLife
<1> QED BY <1>1, Invariant, PTL

\* A filled order stays protected until its exit is placed (_attach_auto_bracket).
THEOREM FillsAreProtected == Spec => []ProtectedFill
<1>1. Inv => ProtectedFill
  BY DEF Inv, ProtectOK, ProtectedFill
<1> QED BY <1>1, Invariant, PTL
================================================================================
