----------------------------- MODULE DesiredState -----------------------------
(***************************************************************************)
(* What the operator promises about a KieApp as its user sees it, with no   *)
(* caches, passes or versions: the specification belongs to the user.  The  *)
(* operator fills what the user left empty, once, and reports what it did;  *)
(* it never changes or reverts anything a user asked for.                   *)
(***************************************************************************)
CONSTANTS Intents, Passwords, NoPassword, Absent

VARIABLES
    spec,       \* Spec of the stored KieApp, Absent once it is deleted
    told        \* type of its last condition

Specs == [intent : Intents, password : Passwords \cup {NoPassword}]

Init == spec \in Specs /\ told = "none"

\* A user changes the request, and may empty the password to have a new one.
UserEdits ==
    /\ spec # Absent
    /\ \E i \in Intents, p \in {spec.password, NoPassword} :
          spec' = [intent |-> i, password |-> p]
    /\ UNCHANGED told

UserDeletes == spec # Absent /\ spec' = Absent /\ told' = "none"

\* The operator generates a missing password.  It is stored together with the
\* news that there is work to do, or that it failed, never with Deployed.
OperatorFills ==
    /\ spec # Absent
    /\ spec.password = NoPassword
    /\ \E p \in Passwords : spec' = [spec EXCEPT !.password = p]
    /\ told' \in {"Provisioning", "Failed"}

\* The operator reports.  Deployed is only said of a complete specification.
OperatorReports ==
    /\ spec # Absent
    /\ told' \in {"Provisioning", "Failed", "Deployed"}
    /\ told' = "Deployed" => spec.password # NoPassword
    /\ UNCHANGED spec

Next == UserEdits \/ UserDeletes \/ OperatorFills \/ OperatorReports

Spec == Init /\ [][Next]_<<spec, told>>
=============================================================================
