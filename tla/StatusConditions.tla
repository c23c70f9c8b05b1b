-------------------------- MODULE StatusConditions --------------------------
(***************************************************************************)
(* The condition list of a KieApp (pkg/controller/kieapp/status/status.go): *)
(* three setters that append to Status.Conditions, and a buffer that keeps  *)
(* only the most recent entries.  Timestamps and messages are left out: the *)
(* code never reads them back.  A condition is its type and, for a failure, *)
(* its reason.                                                              *)
(***************************************************************************)
EXTENDS Naturals, Sequences

CONSTANT MaxBuffer      \* status.maxBuffer, 30 in the code

ASSUME MaxBufferAssumption == MaxBuffer \in Nat \ {0}

Reasons == {"ConfigurationError", "DeploymentFailed", "Unknown"}

Provisioning == [type |-> "Provisioning", reason |-> "none"]
Deployed == [type |-> "Deployed", reason |-> "none"]
Failed(reason) == [type |-> "Failed", reason |-> reason]

Condition == {Provisioning, Deployed} \cup {Failed(r) : r \in Reasons}

\* What Status.Conditions may hold: at most MaxBuffer conditions.
ConditionList == {s \in Seq(Condition) : Len(s) <= MaxBuffer}

\* The last element's type, or "none" of an empty list.
LastType(conditions) ==
    IF conditions = <<>> THEN "none" ELSE conditions[Len(conditions)].type

\* Deviation: the slice is forgotten.
AddConditionUnsliced(conditions, condition) == Append(conditions, condition)

\* Deviation: the slice keeps the front of the list.
AddConditionKeepingOldest(conditions, condition) ==
    SubSeq(Append(conditions, condition), 1,
           IF Len(conditions) < MaxBuffer THEN Len(conditions) + 1 ELSE MaxBuffer)

\* addCondition: append, then slice off what exceeds the buffer.
AddCondition(conditions, condition) ==
    LET size == Len(conditions) + 1
        first == IF size > MaxBuffer THEN size - MaxBuffer ELSE 0
    IN  SubSeq(Append(conditions, condition), first + 1, size)

(***************************************************************************)
(* SetProvisioning and SetDeployed do nothing, and return false, when the   *)
(* last condition already has their type; SetFailed always appends.         *)
(***************************************************************************)
SetsProvisioningAlways(conditions) == TRUE      \* deviation: no test
SetsDeployedAlways(conditions) == TRUE          \* deviation: no test

SetsProvisioning(conditions) == LastType(conditions) # "Provisioning"

SetProvisioning(conditions) ==
    IF SetsProvisioning(conditions)
    THEN AddCondition(conditions, Provisioning) ELSE conditions

SetsDeployed(conditions) == LastType(conditions) # "Deployed"

SetDeployed(conditions) ==
    IF SetsDeployed(conditions)
    THEN AddCondition(conditions, Deployed) ELSE conditions

SetFailed(conditions, reason) == AddCondition(conditions, Failed(reason))
=============================================================================
