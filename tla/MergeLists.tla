------------------------------ MODULE MergeLists ------------------------------
(***************************************************************************)
(* How two layers of configuration are merged (defaults/merge.go): lists of *)
(* objects, and inside deployment configs, stateful sets, build configs and *)
(* services the lists of variables, ports, mounts, volumes and triggers.    *)
(* All are lists of named items; where the code has one function per type,  *)
(* there is one operator here, with what differs between them as arguments. *)
(*                                                                          *)
(* An item is a name and a value.  The value stands for all other fields    *)
(* together; Unset says that the layer gives none of them.  mergo.Merge with *)
(* WithOverride keeps what the upper layer leaves empty.  An object has a    *)
(* value of its own as well, the mark "delete", the number of containers,   *)
(* and its parts: one list of items for each of PartsOf its kind.           *)
(***************************************************************************)
EXTENDS Naturals, Integers, Sequences, FiniteSets

CONSTANTS
    Unset,      \* a field left out
    Empty,      \* imageChangeParams given as an empty structure
    NoName      \* name of an object that was never written

-----------------------------------------------------------------------------
(* Lists of items *)

Names(list) == {list[i].name : i \in DOMAIN list}
Has(list, name) == name \in Names(list)

\* findOpenShiftObject, findVolume, ...: the first item of that name.
Find(list, name) ==
    list[CHOOSE i \in DOMAIN list :
            /\ list[i].name = name
            /\ \A j \in 1..i - 1 : list[j].name # name]

\* The items of a list at the given positions, in their order.
Pick(list, positions) ==
    [n \in 1..Cardinality(positions) |->
        list[CHOOSE i \in positions : Cardinality({j \in positions : j <= i}) = n]]

\* An image change trigger of a deployment config with empty parameters matches
\* no other.
StandsAlone(kind, part, item) ==
    /\ kind = "deploymentConfigs" /\ part = "triggers"
    /\ item.name = "ImageChange" /\ item.value = Empty

\* A list of items, and what makes it one of a part as the templates write it: an
\* item that can be matched has a name of its own.
IsItems(list) == Len(list) \in Nat /\ list = [n \in 1..Len(list) |-> list[n]]

IsPart(kind, part, list) ==
    /\ IsItems(list)
    /\ \A i, j \in DOMAIN list :
          list[i].name = list[j].name => i = j \/ StandsAlone(kind, part, list[i])
                                             \/ StandsAlone(kind, part, list[j])

\* findDeploymentTriggerPolicy, findVolume, ...: items match by name.
SameItem(kind, part, a, b) ==
    /\ a.name = b.name
    /\ ~StandsAlone(kind, part, a) /\ ~StandsAlone(kind, part, b)

\* mergo.Merge(&lower, upper, mergo.WithOverride) keeps what the upper item leaves
\* out; volumes and the ports of services are replaced.
MergeItem(kind, part, lower, upper) ==
    IF upper.value = Unset /\ part # "volumes" /\ kind # "services" THEN lower ELSE upper

\* The lower list, each item merged with the first upper one that matches.
Overlaid(kind, part, lower, upper) ==
    [i \in DOMAIN lower |->
        LET matches == {j \in DOMAIN upper : SameItem(kind, part, lower[i], upper[j])}
        IN  IF matches = {} THEN lower[i]
            ELSE MergeItem(kind, part, lower[i],
                           upper[CHOOSE j \in matches : \A k \in matches : j <= k])]

\* mergeVolumes, mergeVolumeMounts, mergeTriggers, mergeBuildTriggers: an upper
\* item is looked up in the list as it grows.
MergeItems(kind, part, lower, upper) ==
    LET list[n \in 0..Len(upper)] ==
            IF n = 0 THEN Overlaid(kind, part, lower, upper)
            ELSE IF \E i \in DOMAIN list[n - 1] :
                       SameItem(kind, part, list[n - 1][i], upper[n])
                 THEN list[n - 1]
                 ELSE Append(list[n - 1], upper[n])
    IN  list[Len(upper)]

\* mergePorts, mergeServicePorts: an upper item is looked up in the lower list.
MergePorts(kind, lower, upper) ==
    Overlaid(kind, "ports", lower, upper)
        \o Pick(upper, {n \in DOMAIN upper : ~Has(lower, upper[n].name)})

\* Deviation: a variable is always appended.
EnvOverrideAppending(dst, src) == dst \o src

\* GetEnvVar finds the first variable of a name; it is replaced where it is.
SetVariable(list, variable) ==
    IF Has(list, variable.name)
    THEN [i \in DOMAIN list |->
            IF /\ list[i].name = variable.name
               /\ \A j \in 1..i - 1 : list[j].name # variable.name
            THEN variable ELSE list[i]]
    ELSE Append(list, variable)

\* EnvOverride
EnvOverride(dst, src) ==
    LET list[n \in 0..Len(src)] ==
            IF n = 0 THEN dst ELSE SetVariable(list[n - 1], src[n])
    IN  list[Len(src)]

-----------------------------------------------------------------------------
(* Objects *)

\* "others" stands for the kinds without parts: persistent volume claims,
\* service accounts, secrets, roles, role bindings, image streams and routes.
Kinds == {"deploymentConfigs", "statefulSets", "buildConfigs", "services", "others"}

PartsOf(kind) ==
    CASE kind = "deploymentConfigs" ->
            {"env", "ports", "volumeMounts", "volumes", "triggers"}
      [] kind = "statefulSets" -> {"env", "ports", "volumeMounts", "volumes"}
      [] kind = "buildConfigs" -> {"env", "triggers"}
      [] kind = "services" -> {"ports"}
      [] kind = "others" -> {}

\* A list of objects, and what makes it one that can be merged: its objects have
\* names, each its own, as Kubernetes asks of objects of a kind in a namespace.
IsObject(object) ==
    /\ DOMAIN object = {"name", "delete", "value", "containers", "parts"}
    /\ object.delete \in BOOLEAN
    /\ object.containers \in Nat

IsList(list) ==
    /\ Len(list) \in Nat
    /\ DOMAIN list = 1..Len(list)
    /\ \A i \in DOMAIN list : IsObject(list[i])

UniqueNames(list) ==
    \A i, j \in DOMAIN list : list[i].name = list[j].name => i = j

WellFormed(list) ==
    IsList(list) /\ UniqueNames(list) /\ NoName \notin Names(list)

MergePart(kind, part, lower, upper) ==
    CASE part = "env" -> EnvOverride(lower, upper)
      [] part = "ports" -> MergePorts(kind, lower, upper)
      [] OTHER -> MergeItems(kind, part, lower, upper)

\* mergeDCSpec, mergeStatefulSpec, mergeBuildSpec and the loop of mergeServices:
\* the upper object is filled in from the lower one, the mark "delete" included,
\* and gets the merged parts.
MergeSpec(kind, lower, upper) ==
    [upper EXCEPT
        !.delete = @ \/ lower.delete,
        !.parts = [part \in PartsOf(kind) |->
                      MergePart(kind, part, lower.parts[part], @[part])]]

Prepared(kind, lower, upper) ==
    IF kind = "others" THEN upper
    ELSE [i \in DOMAIN upper |->
            IF Has(lower, upper[i].name)
            THEN MergeSpec(kind, Find(lower, upper[i].name), upper[i])
            ELSE upper[i]]

\* mergeContainers knows one container.
TooManyContainers(kind, lower, upper) ==
    /\ kind \in {"deploymentConfigs", "statefulSets"}
    /\ \E i \in DOMAIN upper :
          /\ Has(lower, upper[i].name)
          /\ LET object == Find(lower, upper[i].name)
             IN  /\ object.containers > 0 /\ upper[i].containers > 0
                 /\ object.containers > 1 \/ upper[i].containers > 1

\* mergo.Merge(object, found, mergo.WithOverride)
MergeObject(lower, upper) ==
    [upper EXCEPT
        !.value = IF @ = Unset THEN lower.value ELSE @,
        !.delete = @ \/ lower.delete,
        !.containers = IF @ = 0 THEN lower.containers ELSE @]

-----------------------------------------------------------------------------
(* Lists of objects.  The merged list is allocated before it is filled. *)

Kept(lower, upper) ==
    {i \in DOMAIN lower :
        Has(upper, lower[i].name) => ~Find(upper, lower[i].name).delete}

Added(lower, upper) ==
    {i \in DOMAIN upper : ~upper[i].delete /\ ~Has(lower, upper[i].name)}

Deleted(lower, upper) ==
    {i \in DOMAIN upper : upper[i].delete /\ Has(lower, upper[i].name)}

\* Deviation: what is deleted is not deducted.
CombinedSizeKeepingDeleted(lower, upper) ==
    Len(lower) + Cardinality(Added(lower, upper))

\* combinedSize
CombinedSize(lower, upper) ==
    Len(lower) + Cardinality(Added(lower, upper))
               - Cardinality(Deleted(lower, upper))

\* How many objects mergeObjects writes: the last value of sliceIndex.
Written(lower, upper) ==
    Cardinality(Kept(lower, upper)) + Cardinality(Added(lower, upper))

\* What stays of the lower list, merged with the upper objects of the same names.
KeptMerged(lower, upper) ==
    LET kept == Pick(lower, Kept(lower, upper))
    IN  [i \in DOMAIN kept |->
            IF Has(upper, kept[i].name)
            THEN MergeObject(kept[i], Find(upper, kept[i].name)) ELSE kept[i]]

\* Deviation: what the upper layer adds comes first.
MergeObjectsUpperFirst(lower, upper) ==
    Pick(upper, Added(lower, upper)) \o KeptMerged(lower, upper)

\* mergeObjects
MergeObjects(lower, upper) ==
    KeptMerged(lower, upper) \o Pick(upper, Added(lower, upper))

Nameless(kind) ==
    [name |-> NoName, delete |-> FALSE, value |-> Unset, containers |-> 0,
     parts |-> [part \in PartsOf(kind) |-> <<>>]]

\* Writing past the end of the allocated list, or allocating one of negative
\* length, is a panic.
Overruns(kind, lower, upper) ==
    LET prepared == Prepared(kind, lower, upper)
    IN  /\ lower # <<>> /\ upper # <<>>
        /\ ~TooManyContainers(kind, lower, upper)
        /\ CombinedSize(lower, prepared) < Written(lower, prepared)

\* Deviation: an empty upper list empties the lower one.
MergeListReplacing(kind, lower, upper) ==
    IF upper = <<>> \/ lower = <<>> THEN upper
    ELSE MergeObjects(lower, Prepared(kind, lower, upper))

\* The list as it is allocated and filled: mergePersistentVolumeClaims, ...,
\* mergeRoutes do no more than this when both lists have objects.
Combined(kind, lower, upper) ==
    LET objects == MergeObjects(lower, upper)
    IN  [i \in 1..CombinedSize(lower, upper) |->
            IF i <= Len(objects) THEN objects[i] ELSE Nameless(kind)]

\* mergeDeploymentConfigs, mergeStatefulSets, ...: an upper list over an empty one
\* is taken as it is, marks included; an error is logged and loses the list.
MergeList(kind, lower, upper) ==
    IF upper = <<>> THEN lower
    ELSE IF lower = <<>> THEN upper
    ELSE IF TooManyContainers(kind, lower, upper) THEN <<>>
    ELSE Combined(kind, lower, Prepared(kind, lower, upper))

-----------------------------------------------------------------------------
(* Custom objects: one list of each kind. *)

IsCustomObject(object) ==
    /\ DOMAIN object = {"omit", "lists"}
    /\ DOMAIN object.lists = Kinds
    /\ \A kind \in Kinds : WellFormed(object.lists[kind])

MergeCustomObject(lower, upper) ==
    [omit |-> upper.omit,
     lists |-> [kind \in Kinds |->
                   MergeList(kind, lower.lists[kind], upper.lists[kind])]]

CustomObjectOverruns(lower, upper) ==
    \E kind \in Kinds : Overruns(kind, lower.lists[kind], upper.lists[kind])

Incompatible(lower, upper) ==
    lower # <<>> /\ upper # <<>> /\ Len(lower) # Len(upper)

\* mergeCustomObjects, without its error.
MergeCustomObjects(lower, upper) ==
    IF upper = <<>> THEN lower
    ELSE IF lower = <<>> THEN upper
    ELSE [i \in DOMAIN lower |-> MergeCustomObject(lower[i], upper[i])]
=============================================================================
