--------------------------- MODULE AlertLifecycle ---------------------------
(***************************************************************************)
(* What the user of conditional alerts is told (the docstring and the      *)
(* route comments of app/routes/conditional_alerts.py): an alert is        *)
(* created once, fires at most once until its threshold is changed, never  *)
(* while it is snoozed, and is gone for good when it is deleted.  Only an  *)
(* alert no request about which was ever answered may be lost, and only by *)
(* a restart.                                                              *)
(***************************************************************************)

CONSTANT Alerts

VARIABLES
  phase,    \* [Alerts -> {"none", "armed", "fired", "gone"}]
  snoozed,  \* [Alerts -> BOOLEAN], of the armed and the fired ones
  answered  \* those whose creation or change was answered

vars == <<phase, snoozed, answered>>

Init ==
  /\ phase = [a \in Alerts |-> "none"]
  /\ snoozed = [a \in Alerts |-> FALSE]
  /\ answered = {}

Live(a) == phase[a] \in {"armed", "fired"}

\* The answer comes with the change or later.
MayAnswer(a) == answered' \in {answered, answered \union {a}}

Create(a) ==
  /\ phase[a] = "none"
  /\ phase' = [phase EXCEPT ![a] = "armed"]
  /\ MayAnswer(a)
  /\ UNCHANGED snoozed

\* Snoozing, and a change of the threshold, which arms the alert again.
Change(a) ==
  /\ Live(a)
  /\ phase' \in {phase, [phase EXCEPT ![a] = "armed"]}
  /\ \E b \in BOOLEAN : snoozed' = [snoozed EXCEPT ![a] = b]
  /\ MayAnswer(a)

Answer(a) ==
  /\ Live(a)
  /\ answered' = answered \union {a}
  /\ UNCHANGED <<phase, snoozed>>

\* One pass may fire several alerts.
Fire(F) ==
  /\ \A a \in F : phase[a] = "armed" /\ ~snoozed[a]
  /\ phase' = [a \in Alerts |-> IF a \in F THEN "fired" ELSE phase[a]]
  /\ UNCHANGED <<snoozed, answered>>

Delete(a) ==
  /\ Live(a)
  /\ phase' = [phase EXCEPT ![a] = "gone"]
  /\ snoozed' = [snoozed EXCEPT ![a] = FALSE]
  /\ UNCHANGED answered

Restart(F) ==
  /\ \A a \in F : Live(a) /\ a \notin answered
  /\ phase' = [a \in Alerts |-> IF a \in F THEN "none" ELSE phase[a]]
  /\ snoozed' = [a \in Alerts |-> a \notin F /\ snoozed[a]]
  /\ UNCHANGED answered

Next ==
  \/ \E a \in Alerts : Create(a) \/ Change(a) \/ Answer(a) \/ Delete(a)
  \/ \E F \in SUBSET Alerts : Fire(F) \/ Restart(F)

Spec == Init /\ [][Next]_vars

=============================================================================
