---------------------------- MODULE StatusHistory ----------------------------
(***************************************************************************)
(* What the bounded condition list promises, stated against the unbounded   *)
(* history of the conditions that took effect.  The setters are called in   *)
(* any order, as the branches of Reconcile do.                              *)
(***************************************************************************)
EXTENDS StatusConditions

CONSTANT MaxHistory     \* bound of the model: conditions recorded in a run

VARIABLES
    conditions,     \* Status.Conditions
    history         \* every condition ever set, oldest first (not in the code)

vars == <<conditions, history>>

TypeOK ==
    /\ conditions \in ConditionList
    /\ history \in Seq(Condition)

Init == conditions = <<>> /\ history = <<>>

Record(condition) == history' = Append(history, condition)

CallSetProvisioning ==
    /\ Len(history) < MaxHistory
    /\ conditions' = SetProvisioning(conditions)
    /\ IF SetsProvisioning(conditions)
       THEN Record(Provisioning) ELSE UNCHANGED history

CallSetDeployed ==
    /\ Len(history) < MaxHistory
    /\ conditions' = SetDeployed(conditions)
    /\ IF SetsDeployed(conditions) THEN Record(Deployed) ELSE UNCHANGED history

CallSetFailed ==
    /\ Len(history) < MaxHistory
    /\ \E reason \in Reasons :
          /\ conditions' = SetFailed(conditions, reason)
          /\ Record(Failed(reason))

Next == CallSetProvisioning \/ CallSetDeployed \/ CallSetFailed

Spec == Init /\ [][Next]_vars

-----------------------------------------------------------------------------
\* status.go: the list is exactly the newest MaxBuffer conditions, in the order
\* they were set; an older one is never kept in place of a newer one.
NewestConditionsKept ==
    LET kept == Len(conditions)
        dropped == Len(history) - kept
    IN  /\ kept = IF Len(history) < MaxBuffer THEN Len(history) ELSE MaxBuffer
        /\ \A i \in 1..kept : conditions[i] = history[dropped + i]

\* SetProvisioning and SetDeployed never follow their own type: of two neighbours
\* with the same type, the type is Failed.  It must survive the slicing too.
NoRepeatedTransition ==
    \A i \in 1..(Len(conditions) - 1) :
        conditions[i].type = conditions[i + 1].type
            => conditions[i].type = "Failed"
=============================================================================
