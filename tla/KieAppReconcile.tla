--------------------------- MODULE KieAppReconcile ---------------------------
(***************************************************************************)
(* One KieApp, the objects the operator derives from it, and the operator   *)
(* that reconciles them (kieapp_controller.go).                             *)
(*                                                                          *)
(* The API server keeps the current version of every resource; the operator *)
(* reads only its informer caches, which follow at their own pace, and      *)
(* writes straight to the API server under optimistic concurrency, so that  *)
(* every resource is a log of versions (VersionLogs).                       *)
(*                                                                          *)
(* A pass of Reconcile is one worker thread that is not interrupted by      *)
(* another pass, but every call it makes to the cache or the API server is  *)
(* a step of its own: users, controllers, event delivery, failing calls and *)
(* a crash fall between any two.                                            *)
(***************************************************************************)
EXTENDS StatusConditions, VersionLogs, FiniteSets

CONSTANTS
    Secrets,        \* keystore secrets: created once, never updated
    DCs,            \* deployment configs
    BCs,            \* build configs
    CreateOrder,    \* the objects in the order CreateCustomObjects takes them
    Intents,        \* what a user can ask for (replicas, env, resources, ...)
    BadIntents,     \* those GetEnvironment rejects
    NoIntent,       \* content not derived from an intent: a secret, a hand edit
    Passwords,      \* what GeneratePassword can return
    NoPassword,     \* a password field left empty
    NoHand,         \* no pass is running
    UserMayBlank,   \* whether a user may empty the password of an existing CR
    Disturbances,   \* which of DisturbanceKinds happen at all
    MaxDisturbances,\* bound of the model: disturbances in a run
    MaxLag          \* bound of the model: events in flight when garbage is collected

Objects == Secrets \cup DCs \cup BCs

DisturbanceKinds ==
    {"edit", "delete", "tamper", "readiness", "failure", "crash"}

ASSUME ObjectsAssumption ==
    /\ Secrets \cap DCs = {} /\ Secrets \cap BCs = {} /\ DCs \cap BCs = {}
    /\ CreateOrder \in Seq(Objects)
    /\ \A o \in Objects : \E i \in 1..Len(CreateOrder) : CreateOrder[i] = o

ASSUME ValuesAssumption ==
    /\ BadIntents \subseteq Intents
    /\ NoIntent \notin Intents
    /\ NoPassword \notin Passwords
    /\ UserMayBlank \in BOOLEAN
    /\ Disturbances \subseteq DisturbanceKinds
    /\ MaxDisturbances \in Nat
    /\ MaxLag \in Nat

VARIABLES
    cr,             \* log of the KieApp
    obj,            \* log of every object
    pc,             \* the next call of the running pass
    hand,           \* instance: the KieApp as the running pass has it
    toCreate,       \* objects CreateCustomObjects has still to look at
    updates,        \* dcUpdates or bcUpdates not yet sent
    dirty,          \* the request is in the work queue
    retry,          \* the request waits for AddRateLimited's delay
    budget          \* disturbances left

vars == <<cr, obj, pc, hand, toCreate, updates, dirty, retry, budget>>
queue == <<dirty, retry>>
local == <<pc, hand, toCreate, updates>>

-----------------------------------------------------------------------------
(* Data *)

KieAppSpec ==
    [intent : Intents, password : Passwords \cup {NoPassword}]

\* Status.Deployments: which deployment configs were listed, and were they ready.
Deployments == SUBSET (DCs \X BOOLEAN)

KieApp ==
    [version : Versions, spec : KieAppSpec, conditions : ConditionList,
     deployments : Deployments]

Content ==
    [intent : Intents \cup {NoIntent}, password : Passwords \cup {NoPassword}]

Object == [version : Versions, content : Content, ready : BOOLEAN]

Update == [name : Objects, version : Versions, content : Content]

ASSUME SentinelsAssumption ==
    /\ Absent \notin KieApp \cup Object
    /\ Absent \notin KieAppSpec
    /\ NoHand \notin KieApp

\* What GetEnvironment and newEnv derive for an object: a secret holds a keystore
\* locked with the password, a deployment config depends on the whole
\* specification, a build config carries no password.
Wanted(o, spec) ==
    [intent |-> IF o \in Secrets THEN NoIntent ELSE spec.intent,
     password |-> IF o \in BCs THEN NoPassword ELSE spec.password]

\* The versions in circulation: a new one differs from all of them.
KieAppVersions ==
    VersionsIn(cr) \cup (IF hand = NoHand THEN {} ELSE {hand.version})

ObjectVersions(o) ==
    VersionsIn(obj[o]) \cup {u.version : u \in {w \in updates : w.name = o}}

TypeOK ==
    /\ cr \in Seq(KieApp \cup {Absent}) /\ cr # <<>>
    /\ obj \in [Objects -> Seq(Object \cup {Absent})]
    /\ \A o \in Objects : obj[o] # <<>>
    /\ pc \in {"idle", "create", "updateDCs", "listBCs", "updateBCs",
               "recheck", "save"}
    /\ hand \in KieApp \cup {NoHand}
    /\ (hand = NoHand) <=> (pc = "idle")
    /\ toCreate \in Seq(Objects)
    /\ updates \in SUBSET Update
    /\ dirty \in BOOLEAN
    /\ retry \in BOOLEAN
    /\ budget \in 0..MaxDisturbances

\* A user has just created the KieApp; no cache has heard of it yet.
Init ==
    /\ \E v \in FreshVersions({}), s \in KieAppSpec :
          cr = <<Absent, [version |-> v, spec |-> s, conditions |-> <<>>,
                          deployments |-> {}]>>
    /\ obj = [o \in Objects |-> <<Absent>>]
    /\ pc = "idle"
    /\ hand = NoHand
    /\ toCreate = <<>>
    /\ updates = {}
    /\ dirty = FALSE
    /\ retry = FALSE
    /\ budget = MaxDisturbances

-----------------------------------------------------------------------------
(* Writes to the API server *)

WriteKieApp(instance) ==
    \E v \in FreshVersions(KieAppVersions) :
        cr' = Append(cr, [instance EXCEPT !.version = v])

WriteObject(o, content, ready) ==
    \E v \in FreshVersions(ObjectVersions(o)) :
        obj' = [obj EXCEPT ![o] =
            Append(@, [version |-> v, content |-> content, ready |-> ready])]

RemoveObject(o) == obj' = [obj EXCEPT ![o] = Append(@, Absent)]

\* Something the operator has no say in, or a call of its own going wrong.
Disturb(kind) ==
    /\ kind \in Disturbances
    /\ budget > 0
    /\ budget' = budget - 1

-----------------------------------------------------------------------------
(* The operator: one pass of Reconcile *)

\* Deviation: Requeue and errors are dropped.
ReturnForgetting(requeue) ==
    /\ pc' = "idle"
    /\ hand' = NoHand
    /\ toCreate' = <<>>
    /\ updates' = {}
    /\ UNCHANGED retry

\* Every return of Reconcile.  Requeue: TRUE and a non-nil error both end in
\* AddRateLimited; the instance and everything derived from it is forgotten.
Return(requeue) ==
    /\ pc' = "idle"
    /\ hand' = NoHand
    /\ toCreate' = <<>>
    /\ updates' = {}
    /\ retry' = (retry \/ requeue)

\* setFailedStatus: record the failure, then write the instance as it stands.
Fail(reason) ==
    /\ hand' = [hand EXCEPT !.conditions = SetFailed(@, reason)]
    /\ pc' = "save"
    /\ toCreate' = <<>>
    /\ updates' = {}
    /\ UNCHANGED retry

\* The KieApp was not found, so the request is dropped.
ReadNothing ==
    /\ pc = "idle" /\ dirty
    /\ Cached(cr) = Absent
    /\ dirty' = FALSE
    /\ UNCHANGED <<cr, obj, local, retry, budget>>

\* Get the KieApp and derive its environment.  getEnvTemplate fills the empty
\* passwords of the copy in hand, and only of that copy.
ReadKieApp ==
    /\ pc = "idle" /\ dirty
    /\ Cached(cr) # Absent
    /\ dirty' = FALSE
    /\ LET asked == Cached(cr).spec
           generated == IF asked.password = NoPassword
                        THEN Passwords ELSE {asked.password}
       IN  \E p \in generated :
             LET instance == [Cached(cr) EXCEPT !.spec.password = p]
             IN  IF asked.intent \in BadIntents
                 THEN /\ hand' = [instance EXCEPT !.conditions =
                                     SetFailed(@, "ConfigurationError")]
                      /\ pc' = "save"
                      /\ UNCHANGED toCreate
                 ELSE /\ hand' = instance
                      /\ pc' = "create"
                      /\ toCreate' = CreateOrder
    /\ UNCHANGED <<cr, obj, updates, retry, budget>>

\* createCustomObject finds the object in the cache and leaves it as it is.
SkipExisting ==
    /\ pc = "create" /\ toCreate # <<>>
    /\ Cached(obj[Head(toCreate)]) # Absent
    /\ toCreate' = Tail(toCreate)
    /\ UNCHANGED <<cr, obj, pc, hand, updates, queue, budget>>

\* createObj: the cache does not know the object, so it is created.
CreateObject ==
    /\ pc = "create" /\ toCreate # <<>>
    /\ LET o == Head(toCreate)
       IN  /\ Cached(obj[o]) = Absent
           /\ Api(obj[o]) = Absent
           /\ WriteObject(o, Wanted(o, hand.spec), FALSE)
    /\ toCreate' = Tail(toCreate)
    /\ UNCHANGED <<cr, pc, hand, updates, queue, budget>>

\* createObj: the cache is behind and Create returns AlreadyExists, which is an
\* error like any other.
CreateRefused ==
    /\ pc = "create" /\ toCreate # <<>>
    /\ LET o == Head(toCreate)
       IN  Cached(obj[o]) = Absent /\ Api(obj[o]) # Absent
    /\ Fail("ConfigurationError")
    /\ UNCHANGED <<cr, obj, dirty, budget>>

\* Deviation: the environment variables are not compared.
OutOfDateReplicasOnly(kind) ==
    {o \in kind : /\ Cached(obj[o]) # Absent
                  /\ Cached(obj[o]).content.intent # Wanted(o, hand.spec).intent}

\* updateDeploymentConfigs lists the cached deployment configs, records their
\* status and collects those that differ from what is wanted (dcUpdateCheck).
OutOfDate(kind) ==
    {o \in kind : /\ Cached(obj[o]) # Absent
                  /\ Cached(obj[o]).content # Wanted(o, hand.spec)}

UpdatesOf(kind) ==
    {[name |-> o, version |-> Cached(obj[o]).version,
      content |-> Wanted(o, hand.spec)] : o \in OutOfDate(kind)}

ListedDeployments ==
    {<<o, Cached(obj[o]).ready>> : o \in {d \in DCs : Cached(obj[d]) # Absent}}

ListDCs ==
    /\ pc = "create" /\ toCreate = <<>>
    /\ hand' = [hand EXCEPT !.deployments = ListedDeployments]
    /\ updates' = UpdatesOf(DCs)
    /\ pc' = IF OutOfDate(DCs) = {} THEN "listBCs" ELSE "updateDCs"
    /\ UNCHANGED <<cr, obj, toCreate, queue, budget>>

ListBCs ==
    /\ pc = "listBCs"
    /\ updates' = UpdatesOf(BCs)
    /\ pc' = IF OutOfDate(BCs) = {} THEN "recheck" ELSE "updateBCs"
    /\ UNCHANGED <<cr, obj, hand, toCreate, queue, budget>>

\* When the last update has been sent: `if dcUpdated && SetProvisioning(instance)`
\* saves the KieApp and ends the pass, otherwise the pass goes on.
AfterUpdates ==
    IF SetsProvisioning(hand.conditions)
    THEN /\ hand' = [hand EXCEPT !.conditions = SetProvisioning(@)]
         /\ pc' = "save"
    ELSE /\ pc' = IF pc = "updateDCs" THEN "listBCs" ELSE "recheck"
         /\ UNCHANGED hand

\* Deviation: SetResourceVersion is left out, so the API server does not check.
IsCurrentUnversioned(u) == Api(obj[u.name]) # Absent

\* The API server accepts an update of the version it holds, and no other.
IsCurrent(u) ==
    Api(obj[u.name]) # Absent /\ Api(obj[u.name]).version = u.version

\* UpdateObj with the version that was cached; the API server keeps the status.
UpdateObject(u) ==
    /\ pc \in {"updateDCs", "updateBCs"}
    /\ u \in updates
    /\ IsCurrent(u)
    /\ WriteObject(u.name, u.content, Api(obj[u.name]).ready)
    /\ updates' = updates \ {u}
    /\ IF updates = {u} THEN AfterUpdates ELSE UNCHANGED <<pc, hand>>
    /\ UNCHANGED <<cr, toCreate, queue, budget>>

\* The object changed or went away since it was cached.  Updates already sent
\* stay, the others are not attempted.
UpdateRefused(u) ==
    /\ pc \in {"updateDCs", "updateBCs"}
    /\ u \in updates
    /\ ~IsCurrent(u)
    /\ Fail("DeploymentFailed")
    /\ UNCHANGED <<cr, obj, dirty, budget>>

\* GetCached: the KieApp is gone, nothing is left to do.
RecheckNothing ==
    /\ pc = "recheck"
    /\ Cached(cr) = Absent
    /\ Return(FALSE)
    /\ UNCHANGED <<cr, obj, dirty, budget>>

\* "Update CR if needed": save the instance when it differs from the cached one
\* in its specification, then in its status, and set Deployed when it does not,
\* each time only if both are the same version.
Recheck ==
    /\ pc = "recheck"
    /\ Cached(cr) # Absent
    /\ LET cached == Cached(cr)
           same == hand.version = cached.version
           specChanged == hand.spec # cached.spec
           statusChanged == \/ hand.conditions # cached.conditions
                            \/ hand.deployments # cached.deployments
           Save(conditions) ==
               /\ hand' = [hand EXCEPT !.conditions = conditions]
               /\ pc' = "save"
               /\ UNCHANGED <<toCreate, updates, retry>>
       IN  \/ /\ specChanged
              /\ IF SetsProvisioning(hand.conditions) /\ same
                 THEN Save(SetProvisioning(hand.conditions))
                 ELSE Return(TRUE)
           \/ /\ ~specChanged /\ statusChanged
              /\ IF same THEN Save(hand.conditions) ELSE Return(TRUE)
           \/ /\ ~specChanged /\ ~statusChanged /\ SetsDeployed(hand.conditions)
              /\ IF same THEN Save(SetDeployed(hand.conditions)) ELSE Return(TRUE)
           \/ /\ ~specChanged /\ ~statusChanged /\ ~SetsDeployed(hand.conditions)
              /\ Return(FALSE)
    /\ UNCHANGED <<cr, obj, dirty, budget>>

\* Deviation: the KieApp is written without its version.
IsCurrentKieAppUnversioned == Api(cr) # Absent

\* UpdateObj(instance), from any branch: it takes effect only on the version it
\* was read from, and the request is requeued whatever the outcome.
IsCurrentKieApp == Api(cr) # Absent /\ Api(cr).version = hand.version

SaveKieApp ==
    /\ pc = "save"
    /\ IsCurrentKieApp
    /\ WriteKieApp(hand)
    /\ Return(TRUE)
    /\ UNCHANGED <<obj, dirty, budget>>

SaveRefused ==
    /\ pc = "save"
    /\ ~IsCurrentKieApp
    /\ Return(TRUE)
    /\ UNCHANGED <<cr, obj, dirty, budget>>

-----------------------------------------------------------------------------
(* Calls that fail, and a crash *)

\* Get of the KieApp fails: the empty instance that setFailedStatus then tries to
\* write has no name, so only the requeue remains.
ReadFails ==
    /\ pc = "idle" /\ dirty
    /\ Disturb("failure")
    /\ dirty' = FALSE
    /\ retry' = TRUE
    /\ UNCHANGED <<cr, obj, local>>

\* List, or GetCached, returns an error.
ListFails ==
    /\ \/ pc = "create" /\ toCreate = <<>>
       \/ pc \in {"listBCs", "recheck"}
    /\ Disturb("failure")
    /\ Fail("Unknown")
    /\ UNCHANGED <<cr, obj, dirty>>

\* Create fails, before it took effect or after.
CreateFails ==
    /\ pc = "create" /\ toCreate # <<>>
    /\ Disturb("failure")
    /\ LET o == Head(toCreate)
       IN  /\ Cached(obj[o]) = Absent
           /\ Api(obj[o]) = Absent
           /\ \/ UNCHANGED obj
              \/ WriteObject(o, Wanted(o, hand.spec), FALSE)
    /\ Fail("ConfigurationError")
    /\ UNCHANGED <<cr, dirty>>

\* Update of an object fails, before it took effect or after.
UpdateFails(u) ==
    /\ pc \in {"updateDCs", "updateBCs"}
    /\ u \in updates
    /\ IsCurrent(u)
    /\ Disturb("failure")
    /\ \/ UNCHANGED obj
       \/ WriteObject(u.name, u.content, Api(obj[u.name]).ready)
    /\ Fail("DeploymentFailed")
    /\ UNCHANGED <<cr, dirty>>

\* Update of the KieApp fails before it took effect; failing afterwards looks to
\* the operator's state like SaveKieApp, since both requeue.
SaveFails ==
    /\ pc = "save"
    /\ IsCurrentKieApp
    /\ Disturb("failure")
    /\ Return(TRUE)
    /\ UNCHANGED <<cr, obj, dirty>>

\* The operator process dies and comes back: caches are listed afresh, which
\* queues a request for whatever exists, and everything in memory is lost.
Crash ==
    /\ Disturb("crash")
    /\ cr' = <<Api(cr)>>
    /\ obj' = [o \in Objects |-> <<Api(obj[o])>>]
    /\ dirty' = \/ Api(cr) # Absent
                \/ \E o \in Objects : Api(obj[o]) # Absent
    /\ retry' = FALSE
    /\ pc' = "idle"
    /\ hand' = NoHand
    /\ toCreate' = <<>>
    /\ updates' = {}

-----------------------------------------------------------------------------
(* controller-runtime: event delivery and the work queue *)

\* An event reaches the cache and, through the watches of watch.go, queues the
\* request.
DeliverKieApp ==
    /\ Len(cr) > 1
    /\ cr' = Tail(cr)
    /\ dirty' = TRUE
    /\ UNCHANGED <<obj, local, retry, budget>>

DeliverObject(o) ==
    /\ Len(obj[o]) > 1
    /\ obj' = [obj EXCEPT ![o] = Tail(@)]
    /\ dirty' = TRUE
    /\ UNCHANGED <<cr, local, retry, budget>>

RetryExpires ==
    /\ retry
    /\ retry' = FALSE
    /\ dirty' = TRUE
    /\ UNCHANGED <<cr, obj, local, budget>>

\* The manager's SyncPeriod (main.go) replays what the cache holds.
Resync ==
    /\ ~dirty
    /\ Cached(cr) # Absent
    /\ dirty' = TRUE
    /\ UNCHANGED <<cr, obj, local, retry, budget>>

-----------------------------------------------------------------------------
(* Users and the platform's own controllers *)

UserEdits ==
    /\ Api(cr) # Absent
    /\ Disturb("edit")
    /\ \E i \in Intents,
          p \in {Api(cr).spec.password}
                   \cup (IF UserMayBlank THEN {NoPassword} ELSE {}) :
          /\ [intent |-> i, password |-> p] # Api(cr).spec
          /\ WriteKieApp([Api(cr) EXCEPT
                 !.spec = [intent |-> i, password |-> p]])
    /\ UNCHANGED <<obj, local, queue>>

UserDeletes ==
    /\ Api(cr) # Absent
    /\ Disturb("delete")
    /\ cr' = Append(cr, Absent)
    /\ UNCHANGED <<obj, local, queue>>

UserEditsObject(o) ==
    /\ o \notin Secrets
    /\ Api(obj[o]) # Absent
    /\ Disturb("tamper")
    /\ WriteObject(o, [Api(obj[o]).content EXCEPT !.intent = NoIntent],
                   Api(obj[o]).ready)
    /\ UNCHANGED <<cr, local, queue>>

UserDeletesObject(o) ==
    /\ Api(obj[o]) # Absent
    /\ Disturb("tamper")
    /\ RemoveObject(o)
    /\ UNCHANGED <<cr, local, queue>>

\* The deployment config controller reports that pods became ready, or are not
\* any more.
ReadinessChanges(o) ==
    /\ o \in DCs
    /\ Api(obj[o]) # Absent
    /\ Disturb("readiness")
    /\ WriteObject(o, Api(obj[o]).content, ~Api(obj[o]).ready)
    /\ UNCHANGED <<cr, local, queue>>

\* The owner is gone, so its objects are collected.  While the operator still
\* believes in the owner it may create them again; the bound keeps that exchange
\* from outrunning the delivery of its events.
CollectGarbage(o) ==
    /\ Api(cr) = Absent
    /\ Api(obj[o]) # Absent
    /\ Len(obj[o]) <= MaxLag + 1
    /\ RemoveObject(o)
    /\ UNCHANGED <<cr, local, queue, budget>>

-----------------------------------------------------------------------------

Operator ==
    \/ ReadNothing \/ ReadKieApp
    \/ SkipExisting \/ CreateObject \/ CreateRefused
    \/ ListDCs \/ ListBCs
    \/ \E u \in updates : UpdateObject(u) \/ UpdateRefused(u)
    \/ RecheckNothing \/ Recheck
    \/ SaveKieApp \/ SaveRefused

Failure ==
    \/ ReadFails \/ ListFails \/ CreateFails \/ SaveFails \/ Crash
    \/ \E u \in updates : UpdateFails(u)

Runtime ==
    \/ DeliverKieApp \/ RetryExpires \/ Resync
    \/ \E o \in Objects : DeliverObject(o)

Environment ==
    \/ UserEdits \/ UserDeletes
    \/ \E o \in Objects : \/ UserEditsObject(o) \/ UserDeletesObject(o)
                          \/ ReadinessChanges(o) \/ CollectGarbage(o)

Next == Operator \/ Failure \/ Runtime \/ Environment

Spec == Init /\ [][Next]_vars

(***************************************************************************)
(* The worker thread keeps running, informers deliver what happened, the    *)
(* rate limiter's delays end, and the garbage collector does its work.      *)
(* Nothing is assumed of users, of failures or of the periodic resync.      *)
(***************************************************************************)
Fairness ==
    /\ WF_vars(Operator)
    /\ WF_vars(DeliverKieApp)
    /\ WF_vars(RetryExpires)
    /\ \A o \in Objects : WF_vars(DeliverObject(o))
    /\ \A o \in Objects : WF_vars(CollectGarbage(o))

FairSpec == Spec /\ Fairness

=============================================================================
