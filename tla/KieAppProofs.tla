----------------------------- MODULE KieAppProofs -----------------------------
(***************************************************************************)
(* Proofs about the operator, for any number of objects, intents, passwords *)
(* and versions, any condition buffer and any number of disturbances.       *)
(***************************************************************************)
EXTENDS KieAppProperties, VersionLogsProofs

-----------------------------------------------------------------------------
(* Conditions *)

\* Appending a condition keeps the list within its buffer and makes the new
\* condition the last one (addCondition in status.go).
LEMMA AddConditionType ==
    ASSUME NEW c \in ConditionList, NEW x \in Condition
    PROVE  /\ AddCondition(c, x) \in ConditionList
           /\ AddCondition(c, x) # <<>>
           /\ LastType(AddCondition(c, x)) = x.type
<1> DEFINE size == Len(c) + 1
           first == IF size > MaxBuffer THEN size - MaxBuffer ELSE 0
           longer == Append(c, x)
           kept == SubSeq(longer, first + 1, size)
<1>1. c \in Seq(Condition) /\ Len(c) \in Nat /\ Len(c) <= MaxBuffer
  BY DEF ConditionList
<1>2. longer \in Seq(Condition) /\ Len(longer) = size /\ longer[size] = x
  BY <1>1, AppendProperties
<1>3. MaxBuffer \in Nat \ {0}
  BY MaxBufferAssumption DEF MaxBufferAssumption
<1>4. first \in Nat /\ first < size /\ size - first <= MaxBuffer /\ size \in Nat
  BY <1>1, <1>3
<1>5. /\ kept \in Seq(Condition)
      /\ Len(kept) = size - first
      /\ kept[size - first] = x
  <2> HIDE DEF longer
  <2>1. \A i \in first + 1 .. size : longer[i] \in Condition
    BY <1>2, <1>4, ElementOfSeq
  <2>2. first + 1 \in Int /\ size \in Int
    BY <1>4
  <2> HIDE DEF first, size
  <2>3. /\ kept \in Seq(Condition)
        /\ Len(kept) = IF first + 1 <= size THEN size - (first + 1) + 1 ELSE 0
        /\ \A i \in 1 .. size - (first + 1) + 1 : kept[i] = longer[first + 1 + i - 1]
    BY <2>1, <2>2, SubSeqProperties
  <2>4. size - first \in 1 .. size - (first + 1) + 1
    BY <1>4
  <2>5. first + 1 + (size - first) - 1 = size
    BY <1>4
  <2> QED
    BY <1>2, <1>4, <2>3, <2>4, <2>5
<1>6. AddCondition(c, x) = kept
  BY DEF AddCondition
<1> HIDE DEF kept, size, first
<1>7. kept # <<>> /\ kept[Len(kept)] = x
  BY <1>4, <1>5
<1>8. kept \in ConditionList
  BY <1>3, <1>4, <1>5 DEF ConditionList
<1>9. LastType(kept) = x.type
  BY <1>7 DEF LastType
<1> QED
  BY <1>6, <1>7, <1>8, <1>9

\* What the three setters leave in the list.
LEMMA SettersType ==
    ASSUME NEW c \in ConditionList
    PROVE  /\ SetProvisioning(c) \in ConditionList
           /\ LastType(SetProvisioning(c)) = "Provisioning"
           /\ SetDeployed(c) \in ConditionList
           /\ LastType(SetDeployed(c)) = "Deployed"
           /\ \A r \in Reasons : /\ SetFailed(c, r) \in ConditionList
                                 /\ LastType(SetFailed(c, r)) = "Failed"
<1>1. /\ Provisioning \in Condition /\ Provisioning.type = "Provisioning"
      /\ Deployed \in Condition /\ Deployed.type = "Deployed"
      /\ \A r \in Reasons : Failed(r) \in Condition /\ Failed(r).type = "Failed"
  BY DEF Condition, Provisioning, Deployed, Failed
<1>2. \A x \in Condition : /\ AddCondition(c, x) \in ConditionList
                           /\ LastType(AddCondition(c, x)) = x.type
  BY AddConditionType
<1> QED
  BY <1>1, <1>2 DEF SetProvisioning, SetDeployed, SetFailed,
                    SetsProvisioning, SetsDeployed

-----------------------------------------------------------------------------
(* Type correctness *)

Logs ==
    /\ cr \in Seq(KieApp \cup {Absent}) /\ cr # <<>>
    /\ obj \in [Objects -> Seq(Object \cup {Absent})]
    /\ \A o \in Objects : obj[o] # <<>>

Pass ==
    /\ pc \in {"idle", "create", "updateDCs", "listBCs", "updateBCs",
               "recheck", "save"}
    /\ hand \in KieApp \cup {NoHand}
    /\ (hand = NoHand) <=> (pc = "idle")
    /\ toCreate \in Seq(Objects)
    /\ updates \in SUBSET Update

Queue ==
    /\ dirty \in BOOLEAN
    /\ retry \in BOOLEAN
    /\ budget \in 0..MaxDisturbances

LEMMA TypeParts == TypeOK <=> Logs /\ Pass /\ Queue
BY DEF TypeOK, Logs, Pass, Queue

LEMMA KieAppWritten ==
    ASSUME Logs, NEW x \in KieApp, WriteKieApp(x)
    PROVE  \E e \in KieApp :
              /\ cr' = Append(cr, e)
              /\ e.version \notin KieAppVersions
              /\ e.spec = x.spec
              /\ e.conditions = x.conditions
<1>1. PICK v \in FreshVersions(KieAppVersions) :
          cr' = Append(cr, [x EXCEPT !.version = v])
  BY DEF WriteKieApp
<1>2. v \in Versions /\ v \notin KieAppVersions
  BY FreshIsUnused
<1>3. [x EXCEPT !.version = v] \in KieApp
  BY <1>2 DEF KieApp
<1>4. /\ [x EXCEPT !.version = v].version = v
      /\ [x EXCEPT !.version = v].spec = x.spec
      /\ [x EXCEPT !.version = v].conditions = x.conditions
  BY DEF KieApp
<1> QED
  BY <1>1, <1>2, <1>3, <1>4

LEMMA ObjectWritten ==
    ASSUME Logs, NEW o \in Objects, NEW c \in Content, NEW r \in BOOLEAN,
           WriteObject(o, c, r)
    PROVE  \E e \in Object :
              /\ obj' = [obj EXCEPT ![o] = Append(@, e)]
              /\ e.version \notin ObjectVersions(o)
<1>1. PICK v \in FreshVersions(ObjectVersions(o)) :
          obj' = [obj EXCEPT ![o] =
              Append(@, [version |-> v, content |-> c, ready |-> r])]
  BY DEF WriteObject
<1>2. v \in Versions /\ v \notin ObjectVersions(o)
  BY FreshIsUnused
<1>3. [version |-> v, content |-> c, ready |-> r] \in Object
  BY <1>2 DEF Object
<1> QED
  BY <1>1, <1>2, <1>3

LEMMA WantedType ==
    ASSUME NEW o \in Objects, NEW s \in KieAppSpec
    PROVE  Wanted(o, s) \in Content
BY DEF Wanted, KieAppSpec, Content

LEMMA LogEntry ==
    ASSUME Logs
    PROVE  /\ Cached(cr) # Absent => Cached(cr) \in KieApp
           /\ Api(cr) # Absent => Api(cr) \in KieApp
           /\ \A o \in Objects :
                 /\ Cached(obj[o]) # Absent => Cached(obj[o]) \in Object
                 /\ Api(obj[o]) # Absent => Api(obj[o]) \in Object
<1>1. Cached(cr) \in KieApp \cup {Absent} /\ Api(cr) \in KieApp \cup {Absent}
  BY LogEnds DEF Logs, Cached
<1>2. \A o \in Objects : /\ Cached(obj[o]) \in Object \cup {Absent}
                         /\ Api(obj[o]) \in Object \cup {Absent}
  BY LogEnds DEF Logs, Cached
<1> QED
  BY <1>1, <1>2

LEMMA AppendKieAppLogs ==
    ASSUME Logs, NEW e \in KieApp \cup {Absent}, cr' = Append(cr, e),
           UNCHANGED obj
    PROVE  Logs'
<1>1. cr' \in Seq(KieApp \cup {Absent}) /\ cr' # <<>>
  BY AppendProperties DEF Logs
<1> QED
  BY <1>1 DEF Logs

LEMMA AppendObjectLogs ==
    ASSUME Logs, NEW o \in Objects, NEW e \in Object \cup {Absent},
           obj' = [obj EXCEPT ![o] = Append(@, e)], UNCHANGED cr
    PROVE  Logs'
<1>1. \A x \in Objects :
          obj'[x] = IF x = o THEN Append(obj[o], e) ELSE obj[x]
  BY DEF Logs
<1>2. /\ Append(obj[o], e) \in Seq(Object \cup {Absent})
      /\ Append(obj[o], e) # <<>>
  BY AppendProperties DEF Logs
<1>3. obj' \in [Objects -> Seq(Object \cup {Absent})]
  BY <1>2 DEF Logs
<1> QED
  BY <1>1, <1>2, <1>3 DEF Logs

LEMMA ReturnPass == ASSUME NEW r \in BOOLEAN, Return(r), retry \in BOOLEAN
                    PROVE  Pass' /\ retry' \in BOOLEAN
<1>1. <<>> \in Seq(Objects)
  BY EmptySeq
<1> QED
  BY <1>1 DEF Return, Pass

LEMMA ConditionsChanged ==
    ASSUME NEW h \in KieApp, NEW c \in ConditionList
    PROVE  /\ [h EXCEPT !.conditions = c] \in KieApp
           /\ [h EXCEPT !.conditions = c] # NoHand
           /\ [h EXCEPT !.conditions = c].conditions = c
           /\ [h EXCEPT !.conditions = c].version = h.version
           /\ [h EXCEPT !.conditions = c].spec = h.spec
           /\ h.conditions \in ConditionList
           /\ h.spec \in KieAppSpec
<1>1. [h EXCEPT !.conditions = c] \in KieApp
  BY DEF KieApp
<1> QED
  BY <1>1, SentinelsAssumption DEF KieApp, SentinelsAssumption

LEMMA HandInPass == ASSUME Pass, pc # "idle" PROVE hand \in KieApp
BY DEF Pass

LEMMA FailPass ==
    ASSUME Pass, pc # "idle", NEW reason \in Reasons, Fail(reason)
    PROVE  Pass'
<1>1. hand \in KieApp
  BY HandInPass
<1>2. hand.conditions \in ConditionList
  BY <1>1 DEF KieApp
<1>3. SetFailed(hand.conditions, reason) \in ConditionList
  BY <1>2, SettersType
<1>4. hand' = [hand EXCEPT !.conditions = SetFailed(hand.conditions, reason)]
  BY DEF Fail
<1>5. hand' \in KieApp /\ hand' # NoHand
  BY <1>1, <1>3, <1>4, ConditionsChanged
<1>6. pc' = "save" /\ toCreate' = <<>> /\ updates' = {}
  BY DEF Fail
<1>7. <<>> \in Seq(Objects)
  BY EmptySeq
<1> QED
  BY <1>5, <1>6, <1>7 DEF Pass

\* When all updates are sent the pass saves the KieApp or goes on.
LEMMA AfterUpdatesPass ==
    ASSUME Pass, pc # "idle", AfterUpdates
    PROVE  /\ hand' \in KieApp /\ hand' # NoHand
           /\ pc' \in {"save", "listBCs", "recheck"}
           /\ hand'.version = hand.version /\ hand'.spec = hand.spec
           /\ pc' = "save" => LastType(hand'.conditions) = "Provisioning"
<1>1. hand \in KieApp /\ hand # NoHand
  BY HandInPass DEF Pass
<1>2. hand.conditions \in ConditionList
  BY <1>1 DEF KieApp
<1>3. CASE SetsProvisioning(hand.conditions)
  <2>1. /\ hand' = [hand EXCEPT !.conditions = SetProvisioning(hand.conditions)]
        /\ pc' = "save"
    BY <1>3 DEF AfterUpdates
  <2>2. /\ SetProvisioning(hand.conditions) \in ConditionList
        /\ LastType(SetProvisioning(hand.conditions)) = "Provisioning"
    BY <1>2, SettersType
  <2> QED
    BY <1>1, <2>1, <2>2, ConditionsChanged
<1>4. CASE ~SetsProvisioning(hand.conditions)
  BY <1>1, <1>4 DEF AfterUpdates
<1> QED
  BY <1>3, <1>4

LEMMA UpdatesType ==
    ASSUME Logs, hand \in KieApp, NEW kind \in SUBSET Objects
    PROVE  UpdatesOf(kind) \in SUBSET Update
<1> SUFFICES ASSUME NEW o \in OutOfDate(kind)
             PROVE  [name |-> o, version |-> Cached(obj[o]).version,
                     content |-> Wanted(o, hand.spec)] \in Update
  BY DEF UpdatesOf
<1>1. o \in Objects /\ Cached(obj[o]) \in Object
  BY LogEntry DEF OutOfDate
<1>2. Wanted(o, hand.spec) \in Content
  BY <1>1, WantedType DEF KieApp
<1> QED
  BY <1>1, <1>2 DEF Update, Object

LEMMA DisturbType ==
    ASSUME NEW kind, Disturb(kind), Queue
    PROVE  budget' \in 0..MaxDisturbances
<1>1. MaxDisturbances \in Nat
  BY ValuesAssumption DEF ValuesAssumption
<1> QED
  BY <1>1 DEF Disturb, Queue

\* Every reachable state has the declared type (all of KieAppReconcile).
THEOREM TypeCorrect == Spec => []TypeOK
<1> USE DEF queue, local
<1>1. Init => TypeOK
  <2> SUFFICES ASSUME Init PROVE TypeOK
    OBVIOUS
  <2>1. PICK v \in FreshVersions({}), s \in KieAppSpec :
            cr = <<Absent, [version |-> v, spec |-> s, conditions |-> <<>>,
                            deployments |-> {}]>>
    BY DEF Init
  <2>2. <<>> \in ConditionList
    BY MaxBufferAssumption, EmptySeq DEF ConditionList, MaxBufferAssumption
  <2>3. [version |-> v, spec |-> s, conditions |-> <<>>, deployments |-> {}]
            \in KieApp
    BY <2>2, FreshIsUnused DEF KieApp, Deployments
  <2>4. cr \in Seq(KieApp \cup {Absent}) /\ cr # <<>>
    BY <2>1, <2>3
  <2>5. /\ obj \in [Objects -> Seq(Object \cup {Absent})]
        /\ \A o \in Objects : obj[o] # <<>>
    <3>1. <<Absent>> \in Seq(Object \cup {Absent}) /\ <<Absent>> # <<>>
      OBVIOUS
    <3> QED
      BY <3>1 DEF Init
  <2>6. Pass
    BY EmptySeq DEF Init, Pass
  <2>7. Queue
    <3>1. MaxDisturbances \in Nat
      BY ValuesAssumption DEF ValuesAssumption
    <3>2. MaxDisturbances \in 0..MaxDisturbances
      BY <3>1
    <3> QED
      BY <3>2 DEF Init, Queue
  <2> QED
    BY <2>4, <2>5, <2>6, <2>7, TypeParts DEF Logs
<1>2. TypeOK /\ [Next]_vars => TypeOK'
  <2> SUFFICES ASSUME Logs, Pass, Queue, Next
               PROVE  Logs' /\ Pass' /\ Queue'
    <3>1. ASSUME Logs, Pass, Queue, UNCHANGED vars
          PROVE  Logs' /\ Pass' /\ Queue'
      BY <3>1 DEF vars, Logs, Pass, Queue
    <3> QED
      BY <3>1, TypeParts DEF TypeOK, Logs, Pass, Queue
  <2>1. CASE ReadNothing
    BY <2>1 DEF ReadNothing, Logs, Pass, Queue
  <2>2. CASE ReadKieApp
    <3>1. Cached(cr) \in KieApp
      BY <2>2, LogEntry DEF ReadKieApp
    <3>2. PICK p \in IF Cached(cr).spec.password = NoPassword
                     THEN Passwords ELSE {Cached(cr).spec.password} :
             LET instance == [Cached(cr) EXCEPT !.spec.password = p]
             IN  IF Cached(cr).spec.intent \in BadIntents
                 THEN /\ hand' = [instance EXCEPT !.conditions =
                                     SetFailed(@, "ConfigurationError")]
                      /\ pc' = "save"
                      /\ UNCHANGED toCreate
                 ELSE /\ hand' = instance
                      /\ pc' = "create"
                      /\ toCreate' = CreateOrder
      BY <2>2 DEF ReadKieApp
    <3> DEFINE instance == [Cached(cr) EXCEPT !.spec.password = p]
    <3>3. instance \in KieApp
      BY <3>1, <3>2 DEF KieApp, KieAppSpec
    <3>4. SetFailed(instance.conditions, "ConfigurationError") \in ConditionList
      BY <3>3, SettersType DEF KieApp, Reasons
    <3> HIDE DEF instance
    <3>5. hand' \in KieApp /\ hand' # NoHand
      <4>1. CASE Cached(cr).spec.intent \in BadIntents
        <5>1. hand' = [instance EXCEPT !.conditions =
                          SetFailed(instance.conditions, "ConfigurationError")]
          BY <3>2, <4>1 DEF instance
        <5> QED
          BY <3>3, <3>4, <5>1, ConditionsChanged
      <4>2. CASE Cached(cr).spec.intent \notin BadIntents
        BY <3>2, <3>3, <4>2, SentinelsAssumption DEF SentinelsAssumption, instance
      <4> QED
        BY <4>1, <4>2
    <3>6. toCreate' \in Seq(Objects) /\ pc' \in {"save", "create"}
      BY <3>2, ObjectsAssumption DEF ObjectsAssumption, Pass
    <3> QED
      BY <2>2, <3>5, <3>6 DEF ReadKieApp, Logs, Pass, Queue
  <2>3. CASE SkipExisting
    <3>1. toCreate' \in Seq(Objects)
      BY <2>3, HeadTailProperties DEF SkipExisting, Pass
    <3> QED
      BY <2>3, <3>1 DEF SkipExisting, Logs, Pass, Queue
  <2>4. CASE CreateObject
    <3>1. Head(toCreate) \in Objects /\ Tail(toCreate) \in Seq(Objects)
      BY <2>4, HeadTailProperties DEF CreateObject, Pass
    <3>2. Wanted(Head(toCreate), hand.spec) \in Content
      BY <2>4, <3>1, HandInPass, WantedType DEF CreateObject, KieApp
    <3>3. Logs'
      BY <2>4, <3>1, <3>2, ObjectWritten, AppendObjectLogs DEF CreateObject
    <3> QED
      BY <2>4, <3>1, <3>3 DEF CreateObject, Pass, Queue
  <2>5. CASE CreateRefused
    <3>1. Pass'
      BY <2>5, FailPass DEF CreateRefused, Reasons
    <3> QED
      BY <2>5, <3>1 DEF CreateRefused, Fail, Logs, Queue
  <2>6. CASE ListDCs
    <3>1. hand \in KieApp
      BY <2>6, HandInPass DEF ListDCs
    <3>2. ListedDeployments \in Deployments
      BY LogEntry DEF ListedDeployments, Deployments, Objects, Object
    <3>3. hand' \in KieApp /\ hand' # NoHand
      BY <2>6, <3>1, <3>2, SentinelsAssumption
         DEF ListDCs, KieApp, SentinelsAssumption
    <3>4. updates' \in SUBSET Update
      BY <2>6, <3>1, UpdatesType DEF ListDCs, Objects
    <3> QED
      BY <2>6, <3>3, <3>4 DEF ListDCs, Logs, Pass, Queue
  <2>7. CASE ListBCs
    <3>1. hand \in KieApp
      BY <2>7, HandInPass DEF ListBCs
    <3>2. updates' \in SUBSET Update
      BY <2>7, <3>1, UpdatesType DEF ListBCs, Objects
    <3> QED
      BY <2>7, <3>2 DEF ListBCs, Logs, Pass, Queue
  <2>8. ASSUME NEW u \in updates, UpdateObject(u)
        PROVE  Logs' /\ Pass' /\ Queue'
    <3>1. u.name \in Objects /\ u.content \in Content
      BY DEF Pass, Update
    <3>2. Api(obj[u.name]).ready \in BOOLEAN
      BY <2>8, <3>1, LogEntry DEF UpdateObject, IsCurrent, Object
    <3>3. Logs'
      BY <2>8, <3>1, <3>2, ObjectWritten, AppendObjectLogs DEF UpdateObject
    <3>4. /\ hand' \in KieApp \cup {NoHand}
          /\ (hand' = NoHand) <=> (pc' = "idle")
          /\ pc' \in {"updateDCs", "updateBCs", "save", "listBCs", "recheck"}
      <4>1. CASE updates = {u}
        BY <2>8, <4>1, AfterUpdatesPass DEF UpdateObject
      <4>2. CASE updates # {u}
        BY <2>8, <4>2 DEF UpdateObject, Pass
      <4> QED
        BY <4>1, <4>2
    <3> QED
      BY <2>8, <3>3, <3>4 DEF UpdateObject, Pass, Queue
  <2>9. ASSUME NEW u \in updates, UpdateRefused(u)
        PROVE  Logs' /\ Pass' /\ Queue'
    <3>1. Pass'
      BY <2>9, FailPass DEF UpdateRefused, Reasons
    <3> QED
      BY <2>9, <3>1 DEF UpdateRefused, Fail, Logs, Queue
  <2>10. CASE RecheckNothing
    BY <2>10, ReturnPass DEF RecheckNothing, Logs, Queue
  <2>11. CASE Recheck
    <3>1. hand \in KieApp
      BY <2>11, HandInPass DEF Recheck
    <3>2. hand.conditions \in ConditionList
      BY <3>1 DEF KieApp
    <3>3. \/ \E r \in BOOLEAN : Return(r)
          \/ \E c \in {hand.conditions, SetProvisioning(hand.conditions),
                       SetDeployed(hand.conditions)} :
                /\ hand' = [hand EXCEPT !.conditions = c]
                /\ pc' = "save"
                /\ UNCHANGED <<toCreate, updates, retry>>
      BY <2>11 DEF Recheck
    <3>4. CASE \E r \in BOOLEAN : Return(r)
      BY <2>11, <3>4, ReturnPass DEF Recheck, Logs, Queue
    <3>5. ASSUME NEW c \in {hand.conditions, SetProvisioning(hand.conditions),
                            SetDeployed(hand.conditions)},
                 hand' = [hand EXCEPT !.conditions = c],
                 pc' = "save",
                 UNCHANGED <<toCreate, updates, retry>>
          PROVE  Logs' /\ Pass' /\ Queue'
      <4>1. c \in ConditionList
        BY <3>2, SettersType
      <4>2. hand' \in KieApp /\ hand' # NoHand
        BY <3>1, <3>5, <4>1, ConditionsChanged
      <4> QED
        BY <2>11, <3>5, <4>2 DEF Recheck, Logs, Pass, Queue
    <3> QED
      BY <3>3, <3>4, <3>5
  <2>12. CASE SaveKieApp
    <3>1. hand \in KieApp
      BY <2>12, HandInPass DEF SaveKieApp
    <3>2. Logs'
      BY <2>12, <3>1, KieAppWritten, AppendKieAppLogs DEF SaveKieApp
    <3> QED
      BY <2>12, <3>2, ReturnPass DEF SaveKieApp, Queue
  <2>13. CASE SaveRefused
    BY <2>13, ReturnPass DEF SaveRefused, Logs, Queue
  <2>14. CASE ReadFails
    BY <2>14, DisturbType DEF ReadFails, Logs, Pass, Queue
  <2>15. CASE ListFails
    <3>1. Pass'
      BY <2>15, FailPass DEF ListFails, Reasons
    <3> QED
      BY <2>15, <3>1, DisturbType DEF ListFails, Fail, Logs, Queue
  <2>16. CASE CreateFails
    <3>1. Head(toCreate) \in Objects
      BY <2>16, HeadTailProperties DEF CreateFails, Pass
    <3>2. Wanted(Head(toCreate), hand.spec) \in Content
      BY <2>16, <3>1, HandInPass, WantedType DEF CreateFails, KieApp
    <3>3. ASSUME UNCHANGED obj PROVE Logs'
      BY <2>16, <3>3 DEF CreateFails, Logs
    <3>4. ASSUME WriteObject(Head(toCreate), Wanted(Head(toCreate), hand.spec),
                             FALSE)
          PROVE  Logs'
      BY <2>16, <3>1, <3>2, <3>4, ObjectWritten, AppendObjectLogs DEF CreateFails
    <3>5. Logs'
      BY <2>16, <3>3, <3>4 DEF CreateFails
    <3>6. Pass'
      BY <2>16, FailPass DEF CreateFails, Reasons
    <3> QED
      BY <2>16, <3>5, <3>6, DisturbType DEF CreateFails, Fail, Queue
  <2>17. ASSUME NEW u \in updates, UpdateFails(u)
         PROVE  Logs' /\ Pass' /\ Queue'
    <3>1. u.name \in Objects /\ u.content \in Content
      BY DEF Pass, Update
    <3>2. Api(obj[u.name]).ready \in BOOLEAN
      BY <2>17, <3>1, LogEntry DEF UpdateFails, IsCurrent, Object
    <3>3. ASSUME UNCHANGED obj PROVE Logs'
      BY <2>17, <3>3 DEF UpdateFails, Logs
    <3>4. ASSUME WriteObject(u.name, u.content, Api(obj[u.name]).ready)
          PROVE  Logs'
      BY <2>17, <3>1, <3>2, <3>4, ObjectWritten, AppendObjectLogs DEF UpdateFails
    <3>5. Logs'
      BY <2>17, <3>3, <3>4 DEF UpdateFails
    <3>6. Pass'
      BY <2>17, FailPass DEF UpdateFails, Reasons
    <3> QED
      BY <2>17, <3>5, <3>6, DisturbType DEF UpdateFails, Fail, Queue
  <2>18. CASE SaveFails
    BY <2>18, ReturnPass, DisturbType DEF SaveFails, Logs, Queue
  <2>19. CASE Crash
    <3>1. /\ Api(cr) \in KieApp \cup {Absent}
          /\ \A o \in Objects : Api(obj[o]) \in Object \cup {Absent}
      BY LogEntry
    <3>2. Logs'
      <4>1. cr' = <<Api(cr)>> /\ obj' = [o \in Objects |-> <<Api(obj[o])>>]
        BY <2>19 DEF Crash
      <4>2. cr' \in Seq(KieApp \cup {Absent}) /\ cr' # <<>>
        BY <3>1, <4>1, LogSingle
      <4>3. \A o \in Objects : /\ <<Api(obj[o])>> \in Seq(Object \cup {Absent})
                               /\ <<Api(obj[o])>> # <<>>
        BY <3>1, LogSingle
      <4> QED
        BY <4>1, <4>2, <4>3 DEF Logs
    <3>3. Pass'
      BY <2>19, EmptySeq DEF Crash, Pass
    <3> QED
      BY <2>19, <3>2, <3>3, DisturbType DEF Crash, Queue
  <2>20. CASE DeliverKieApp
    <3>1. Logs'
      BY <2>20, LogTail DEF DeliverKieApp, Logs
    <3> QED
      BY <2>20, <3>1 DEF DeliverKieApp, Pass, Queue
  <2>21. ASSUME NEW o \in Objects, DeliverObject(o)
         PROVE  Logs' /\ Pass' /\ Queue'
    <3>1. Tail(obj[o]) \in Seq(Object \cup {Absent}) /\ Tail(obj[o]) # <<>>
      BY <2>21, LogTail DEF DeliverObject, Logs
    <3>2. Logs'
      BY <2>21, <3>1 DEF DeliverObject, Logs
    <3> QED
      BY <2>21, <3>2 DEF DeliverObject, Pass, Queue
  <2>22. CASE RetryExpires
    BY <2>22 DEF RetryExpires, Logs, Pass, Queue
  <2>23. CASE Resync
    BY <2>23 DEF Resync, Logs, Pass, Queue
  <2>24. CASE UserEdits
    <3>1. Api(cr) \in KieApp
      BY <2>24, LogEntry DEF UserEdits
    <3>2. PICK i \in Intents, p \in {Api(cr).spec.password, NoPassword} :
              WriteKieApp([Api(cr) EXCEPT !.spec =
                  [intent |-> i, password |-> p]])
      BY <2>24 DEF UserEdits
    <3>3. [Api(cr) EXCEPT !.spec = [intent |-> i, password |-> p]] \in KieApp
      BY <3>1, <3>2 DEF KieApp, KieAppSpec
    <3>4. Logs'
      BY <2>24, <3>2, <3>3, KieAppWritten, AppendKieAppLogs DEF UserEdits
    <3> QED
      BY <2>24, <3>4, DisturbType DEF UserEdits, Pass, Queue
  <2>25. CASE UserDeletes
    BY <2>25, AppendKieAppLogs, DisturbType DEF UserDeletes, Pass, Queue
  <2>26. ASSUME NEW o \in Objects, UserEditsObject(o)
         PROVE  Logs' /\ Pass' /\ Queue'
    <3>1. Api(obj[o]) \in Object
      BY <2>26, LogEntry DEF UserEditsObject
    <3>2. /\ [Api(obj[o]).content EXCEPT !.intent = NoIntent] \in Content
          /\ Api(obj[o]).ready \in BOOLEAN
      BY <3>1 DEF Object, Content
    <3>3. Logs'
      BY <2>26, <3>2, ObjectWritten, AppendObjectLogs DEF UserEditsObject
    <3> QED
      BY <2>26, <3>3, DisturbType DEF UserEditsObject, Pass, Queue
  <2>27. ASSUME NEW o \in Objects, UserDeletesObject(o)
         PROVE  Logs' /\ Pass' /\ Queue'
    <3>1. Logs'
      BY <2>27, AppendObjectLogs DEF UserDeletesObject, RemoveObject
    <3> QED
      BY <2>27, <3>1, DisturbType DEF UserDeletesObject, Pass, Queue
  <2>28. ASSUME NEW o \in Objects, ReadinessChanges(o)
         PROVE  Logs' /\ Pass' /\ Queue'
    <3>1. Api(obj[o]) \in Object
      BY <2>28, LogEntry DEF ReadinessChanges
    <3>2. Api(obj[o]).content \in Content /\ (~Api(obj[o]).ready) \in BOOLEAN
      BY <3>1 DEF Object
    <3>3. Logs'
      BY <2>28, <3>2, ObjectWritten, AppendObjectLogs DEF ReadinessChanges
    <3> QED
      BY <2>28, <3>3, DisturbType DEF ReadinessChanges, Pass, Queue
  <2>29. ASSUME NEW o \in Objects, CollectGarbage(o)
         PROVE  Logs' /\ Pass' /\ Queue'
    <3>1. Logs'
      BY <2>29, AppendObjectLogs DEF CollectGarbage, RemoveObject
    <3> QED
      BY <2>29, <3>1 DEF CollectGarbage, Pass, Queue
  <2> QED
    BY <2>1, <2>2, <2>3, <2>4, <2>5, <2>6, <2>7, <2>8, <2>9, <2>10, <2>11,
       <2>12, <2>13, <2>14, <2>15, <2>16, <2>17, <2>18, <2>19, <2>20, <2>21,
       <2>22, <2>23, <2>24, <2>25, <2>26, <2>27, <2>28, <2>29
       DEF Next, Operator, Failure, Runtime, Environment
<1> QED
  BY <1>1, <1>2, PTL DEF Spec

-----------------------------------------------------------------------------
(***************************************************************************)
(* What a step does to the KieApp's log and to the copy in hand.  Every     *)
(* action is one of four kinds; the invariants below follow from the kind.  *)
(***************************************************************************)
AppendsKieApp ==
    \E e \in KieApp \cup {Absent} :
        /\ cr' = Append(cr, e)
        /\ e = Absent \/ e.version \notin KieAppVersions

\* What a pass about to save its instance knows of the entry c it was read from.
SaysWhy(h, c) ==
    \/ LastType(h.conditions) \in {"Provisioning", "Failed"}
    \/ /\ c # Absent
       /\ h.spec = c.spec
       /\ \/ LastType(h.conditions) = "Deployed"
          \/ h.conditions = c.conditions

\* The copy in hand is the entry c, with nothing but the password filled in.
FilledFrom(h, c) ==
    /\ h.spec.intent = c.spec.intent
    /\ c.spec.password # NoPassword => h.spec = c.spec

EndsPass ==
    /\ hand' = NoHand
    /\ \/ UNCHANGED cr
       \/ AppendsKieApp
       \/ cr' = <<Api(cr)>>

LeavesPass ==
    /\ UNCHANGED <<hand, pc>>
    /\ \/ UNCHANGED cr
       \/ AppendsKieApp
       \/ Len(cr) > 1 /\ cr' = Tail(cr)

ContinuesPass ==
    /\ UNCHANGED cr
    /\ hand \in KieApp /\ hand # NoHand
    /\ hand'.version = hand.version
    /\ hand'.spec = hand.spec
    /\ pc # "save"
    /\ IF pc' = "save"
       THEN \/ SaysWhy(hand', Cached(cr))
            \/ /\ Cached(cr) # Absent
               /\ hand'.spec = Cached(cr).spec
               /\ hand'.conditions = hand.conditions
       ELSE hand'.conditions = hand.conditions

StartsPass ==
    /\ UNCHANGED cr
    /\ Cached(cr) # Absent
    /\ hand'.version = Cached(cr).version
    /\ hand'.spec.password # NoPassword
    /\ FilledFrom(hand', Cached(cr))
    /\ IF pc' = "save"
       THEN LastType(hand'.conditions) = "Failed"
       ELSE hand'.conditions = Cached(cr).conditions

LEMMA FailContinues ==
    ASSUME Pass, pc \notin {"idle", "save"}, NEW reason \in Reasons,
           Fail(reason), UNCHANGED cr
    PROVE  ContinuesPass
<1>1. hand \in KieApp /\ hand # NoHand
  BY HandInPass DEF Pass
<1>2. hand.conditions \in ConditionList
  BY <1>1 DEF KieApp
<1>3. /\ SetFailed(hand.conditions, reason) \in ConditionList
      /\ LastType(SetFailed(hand.conditions, reason)) = "Failed"
  BY <1>2, SettersType
<1>4. hand' = [hand EXCEPT !.conditions = SetFailed(hand.conditions, reason)]
  BY DEF Fail
<1> QED
  BY <1>1, <1>3, <1>4, ConditionsChanged DEF ContinuesPass, SaysWhy, Fail

LEMMA ReadStarts ==
    ASSUME Logs, Pass, ReadKieApp
    PROVE  StartsPass
<1>1. Cached(cr) # Absent /\ Cached(cr) \in KieApp /\ UNCHANGED cr
  BY LogEntry DEF ReadKieApp
<1>2. PICK p \in IF Cached(cr).spec.password = NoPassword
                 THEN Passwords ELSE {Cached(cr).spec.password} :
         LET instance == [Cached(cr) EXCEPT !.spec.password = p]
         IN  IF Cached(cr).spec.intent \in BadIntents
             THEN /\ hand' = [instance EXCEPT !.conditions =
                                 SetFailed(@, "ConfigurationError")]
                  /\ pc' = "save"
                  /\ UNCHANGED toCreate
             ELSE /\ hand' = instance
                  /\ pc' = "create"
                  /\ toCreate' = CreateOrder
  BY DEF ReadKieApp
<1> DEFINE instance == [Cached(cr) EXCEPT !.spec.password = p]
<1>3. /\ instance \in KieApp
      /\ instance.version = Cached(cr).version
      /\ instance.spec.password = p
      /\ instance.conditions = Cached(cr).conditions
      /\ FilledFrom(instance, Cached(cr))
  BY <1>1, <1>2 DEF KieApp, KieAppSpec, FilledFrom
<1>4. p # NoPassword
  BY <1>2, ValuesAssumption DEF ValuesAssumption
<1>5. /\ SetFailed(instance.conditions, "ConfigurationError") \in ConditionList
      /\ LastType(SetFailed(instance.conditions, "ConfigurationError")) = "Failed"
  BY <1>3, SettersType DEF KieApp, Reasons
<1> HIDE DEF instance
<1>6. CASE Cached(cr).spec.intent \in BadIntents
  <2>1. hand' = [instance EXCEPT !.conditions =
                    SetFailed(instance.conditions, "ConfigurationError")]
    BY <1>2, <1>6 DEF instance
  <2>2. /\ hand'.version = instance.version /\ hand'.spec = instance.spec
        /\ hand'.conditions = SetFailed(instance.conditions, "ConfigurationError")
    BY <1>3, <1>5, <2>1, ConditionsChanged
  <2>3. pc' = "save" /\ LastType(hand'.conditions) = "Failed"
    BY <1>2, <1>5, <1>6, <2>2
  <2>4. FilledFrom(hand', Cached(cr))
    BY <1>3, <2>2 DEF FilledFrom
  <2>5. hand'.version = Cached(cr).version /\ hand'.spec.password # NoPassword
    BY <1>3, <1>4, <2>2
  <2> QED
    BY <1>1, <2>3, <2>4, <2>5 DEF StartsPass
<1>7. CASE Cached(cr).spec.intent \notin BadIntents
  <2>1. hand' = instance /\ pc' = "create"
    BY <1>2, <1>7 DEF instance
  <2> QED
    BY <1>1, <1>3, <1>4, <2>1 DEF StartsPass
<1> QED
  BY <1>6, <1>7

LEMMA RecheckContinues ==
    ASSUME Logs, Pass, Recheck
    PROVE  ContinuesPass \/ EndsPass
<1>1. hand \in KieApp /\ hand # NoHand /\ Cached(cr) # Absent /\ UNCHANGED cr
  BY HandInPass DEF Recheck, Pass
<1>2. hand.conditions \in ConditionList
  BY <1>1 DEF KieApp
<1>3. /\ SetProvisioning(hand.conditions) \in ConditionList
      /\ LastType(SetProvisioning(hand.conditions)) = "Provisioning"
      /\ SetDeployed(hand.conditions) \in ConditionList
      /\ LastType(SetDeployed(hand.conditions)) = "Deployed"
  BY <1>2, SettersType
<1>4. \/ \E r \in BOOLEAN : Return(r)
      \/ /\ hand' = [hand EXCEPT !.conditions = SetProvisioning(hand.conditions)]
         /\ pc' = "save"
      \/ /\ hand.spec = Cached(cr).spec
         /\ hand' = [hand EXCEPT !.conditions = SetDeployed(hand.conditions)]
         /\ pc' = "save"
      \/ /\ hand.spec = Cached(cr).spec
         /\ hand' = [hand EXCEPT !.conditions = hand.conditions]
         /\ pc' = "save"
  BY DEF Recheck
<1>5. pc # "save"
  BY DEF Recheck
<1>6. CASE \E r \in BOOLEAN : Return(r)
  BY <1>1, <1>6 DEF Return, EndsPass
<1>7. CASE /\ hand' = [hand EXCEPT !.conditions = SetProvisioning(hand.conditions)]
           /\ pc' = "save"
  BY <1>1, <1>3, <1>5, <1>7, ConditionsChanged DEF ContinuesPass, SaysWhy
<1>8. CASE /\ hand.spec = Cached(cr).spec
           /\ hand' = [hand EXCEPT !.conditions = SetDeployed(hand.conditions)]
           /\ pc' = "save"
  BY <1>1, <1>3, <1>5, <1>8, ConditionsChanged DEF ContinuesPass, SaysWhy
<1>9. CASE /\ hand.spec = Cached(cr).spec
           /\ hand' = [hand EXCEPT !.conditions = hand.conditions]
           /\ pc' = "save"
  BY <1>1, <1>2, <1>5, <1>9, ConditionsChanged DEF ContinuesPass
<1> QED
  BY <1>4, <1>6, <1>7, <1>8, <1>9

LEMMA KieAppStep ==
    ASSUME Logs, Pass, Next
    PROVE  EndsPass \/ LeavesPass \/ ContinuesPass \/ StartsPass
<1> USE DEF local
<1>1. CASE ReadNothing
  BY <1>1 DEF ReadNothing, LeavesPass
<1>2. CASE ReadKieApp
  BY <1>2, ReadStarts
<1>3. CASE SkipExisting
  BY <1>3 DEF SkipExisting, LeavesPass
<1>4. CASE CreateObject
  BY <1>4 DEF CreateObject, LeavesPass
<1>5. CASE CreateRefused
  BY <1>5, FailContinues DEF CreateRefused, Reasons
<1>6. CASE ListDCs
  <2>1. hand \in KieApp /\ hand # NoHand /\ pc # "save"
    BY <1>6, HandInPass DEF ListDCs, Pass
  <2>2. /\ hand'.version = hand.version /\ hand'.spec = hand.spec
        /\ hand'.conditions = hand.conditions
    BY <1>6, <2>1 DEF ListDCs, KieApp
  <2> QED
    BY <1>6, <2>1, <2>2 DEF ListDCs, ContinuesPass
<1>7. CASE ListBCs
  <2>1. hand \in KieApp /\ hand # NoHand /\ pc # "save"
    BY <1>7, HandInPass DEF ListBCs, Pass
  <2> QED
    BY <1>7, <2>1 DEF ListBCs, ContinuesPass
<1>8. ASSUME NEW u \in updates, UpdateObject(u)
      PROVE  LeavesPass \/ ContinuesPass
  <2>1. hand \in KieApp /\ hand # NoHand /\ pc \notin {"idle", "save"}
    BY <1>8, HandInPass DEF UpdateObject, Pass
  <2>2. CASE updates = {u}
    <3>1. AfterUpdates
      BY <1>8, <2>2 DEF UpdateObject
    <3>2. /\ hand'.version = hand.version /\ hand'.spec = hand.spec
          /\ pc' = "save" => LastType(hand'.conditions) = "Provisioning"
      BY <2>1, <3>1, AfterUpdatesPass
    <3>3. pc' # "save" => hand' = hand
      BY <3>1 DEF AfterUpdates
    <3> QED
      BY <1>8, <2>1, <3>2, <3>3 DEF UpdateObject, ContinuesPass, SaysWhy
  <2>3. CASE updates # {u}
    BY <1>8, <2>3 DEF UpdateObject, LeavesPass
  <2> QED
    BY <2>2, <2>3
<1>9. ASSUME NEW u \in updates, UpdateRefused(u)
      PROVE  ContinuesPass
  BY <1>9, FailContinues DEF UpdateRefused, Reasons
<1>10. CASE RecheckNothing
  BY <1>10 DEF RecheckNothing, Return, EndsPass
<1>11. CASE Recheck
  BY <1>11, RecheckContinues
<1>12. CASE SaveKieApp
  <2>1. AppendsKieApp
    BY <1>12, HandInPass, KieAppWritten DEF SaveKieApp, AppendsKieApp
  <2> QED
    BY <1>12, <2>1 DEF SaveKieApp, Return, EndsPass
<1>13. CASE SaveRefused
  BY <1>13 DEF SaveRefused, Return, EndsPass
<1>14. CASE ReadFails
  BY <1>14 DEF ReadFails, LeavesPass
<1>15. CASE ListFails
  BY <1>15, FailContinues DEF ListFails, Reasons
<1>16. CASE CreateFails
  BY <1>16, FailContinues DEF CreateFails, Reasons
<1>17. ASSUME NEW u \in updates, UpdateFails(u)
       PROVE  ContinuesPass
  BY <1>17, FailContinues DEF UpdateFails, Reasons
<1>18. CASE SaveFails
  BY <1>18 DEF SaveFails, Return, EndsPass
<1>19. CASE Crash
  BY <1>19 DEF Crash, EndsPass
<1>20. CASE DeliverKieApp
  BY <1>20 DEF DeliverKieApp, LeavesPass
<1>21. ASSUME NEW o \in Objects, DeliverObject(o)
       PROVE  LeavesPass
  BY <1>21 DEF DeliverObject, LeavesPass
<1>22. CASE RetryExpires
  BY <1>22 DEF RetryExpires, LeavesPass
<1>23. CASE Resync
  BY <1>23 DEF Resync, LeavesPass
<1>24. CASE UserEdits
  <2>1. Api(cr) \in KieApp
    BY <1>24, LogEntry DEF UserEdits
  <2>2. PICK i \in Intents, p \in {Api(cr).spec.password, NoPassword} :
            WriteKieApp([Api(cr) EXCEPT !.spec = [intent |-> i, password |-> p]])
    BY <1>24 DEF UserEdits
  <2>3. [Api(cr) EXCEPT !.spec = [intent |-> i, password |-> p]] \in KieApp
    BY <2>1, <2>2 DEF KieApp, KieAppSpec
  <2>4. AppendsKieApp
    BY <2>2, <2>3, KieAppWritten DEF AppendsKieApp
  <2> QED
    BY <1>24, <2>4 DEF UserEdits, LeavesPass
<1>25. CASE UserDeletes
  BY <1>25 DEF UserDeletes, LeavesPass, AppendsKieApp
<1>26. ASSUME NEW o \in Objects,
              \/ UserEditsObject(o) \/ UserDeletesObject(o)
              \/ ReadinessChanges(o) \/ CollectGarbage(o)
       PROVE  LeavesPass
  BY <1>26 DEF UserEditsObject, UserDeletesObject, ReadinessChanges,
               CollectGarbage, LeavesPass
<1> QED
  BY <1>1, <1>2, <1>3, <1>4, <1>5, <1>6, <1>7, <1>8, <1>9, <1>10, <1>11, <1>12,
     <1>13, <1>14, <1>15, <1>16, <1>17, <1>18, <1>19, <1>20, <1>21, <1>22, <1>23,
     <1>24, <1>25, <1>26 DEF Next, Operator, Failure, Runtime, Environment

(***************************************************************************)
(* The copy in hand names a version that is at the head of the log or gone. *)
(***************************************************************************)
KnownKieApp ==
    /\ VersionsDiffer(cr)
    /\ hand # NoHand => OnlyAtHead(cr, hand.version)

\* While that entry is cached, the copy is faithful to it, and a pass that is
\* about to write has a reason to.
FaithfulCopy ==
    hand # NoHand =>
        /\ hand.spec.password # NoPassword
        /\ Cached(cr) # Absent /\ Cached(cr).version = hand.version =>
              /\ FilledFrom(hand, Cached(cr))
              /\ IF pc = "save" THEN SaysWhy(hand, Cached(cr))
                 ELSE hand.conditions = Cached(cr).conditions

LEMMA AppendedKieApp ==
    ASSUME Logs, AppendsKieApp, KnownKieApp
    PROVE  /\ VersionsDiffer(cr')
           /\ Cached(cr') = Cached(cr)
           /\ hand # NoHand => OnlyAtHead(cr', hand.version)
<1>1. PICK e \in KieApp \cup {Absent} :
          /\ cr' = Append(cr, e)
          /\ e = Absent \/ e.version \notin KieAppVersions
  BY DEF AppendsKieApp
<1>2. /\ e = Absent \/ e.version \notin VersionsIn(cr)
      /\ hand # NoHand => e = Absent \/ e.version # hand.version
  BY <1>1 DEF KieAppVersions
<1>3. VersionsDiffer(cr') /\ Cached(cr') = Cached(cr)
  BY <1>1, <1>2, LogAppend DEF Logs, KnownKieApp, Cached
<1>4. hand # NoHand => OnlyAtHead(cr', hand.version)
  BY <1>1, <1>2, AppendKeepsHead DEF Logs, KnownKieApp
<1> QED
  BY <1>3, <1>4

LEMMA KieAppCollapses ==
    ASSUME Logs, cr' = <<Api(cr)>>
    PROVE  VersionsDiffer(cr') /\ Api(cr') = Api(cr)
<1>1. Api(cr) \in KieApp \cup {Absent}
  BY LogEntry
<1> QED
  BY <1>1, LogSingle

LEMMA KieAppKnown ==
    ASSUME Logs, Pass, KnownKieApp, [Next]_vars
    PROVE  KnownKieApp'
<1>1. CASE UNCHANGED vars
  BY <1>1 DEF vars, KnownKieApp
<1>2. CASE EndsPass
  BY <1>2, AppendedKieApp, KieAppCollapses DEF EndsPass, KnownKieApp
<1>3. CASE LeavesPass
  <2>1. CASE UNCHANGED cr
    BY <1>3, <2>1 DEF LeavesPass, KnownKieApp
  <2>2. CASE AppendsKieApp
    BY <1>3, <2>2, AppendedKieApp DEF LeavesPass, KnownKieApp
  <2>3. CASE Len(cr) > 1 /\ cr' = Tail(cr)
    <3>1. VersionsDiffer(cr')
      BY <2>3, LogTail DEF Logs, KnownKieApp
    <3>2. hand # NoHand => OnlyAtHead(cr', hand.version)
      BY <2>3, LogTail DEF Logs, KnownKieApp
    <3> QED
      BY <1>3, <3>1, <3>2 DEF LeavesPass, KnownKieApp
  <2> QED
    BY <1>3, <2>1, <2>2, <2>3 DEF LeavesPass
<1>4. CASE ContinuesPass
  BY <1>4 DEF ContinuesPass, KnownKieApp
<1>5. CASE StartsPass
  <2>1. OnlyAtHead(cr, Cached(cr).version)
    BY <1>5, HeadOnlyAtHead DEF StartsPass, Logs, KnownKieApp, Cached
  <2> QED
    BY <1>5, <2>1 DEF StartsPass, KnownKieApp
<1> QED
  BY <1>1, <1>2, <1>3, <1>4, <1>5, KieAppStep

LEMMA CopyStaysFaithful ==
    ASSUME Logs, Pass, KnownKieApp, FaithfulCopy, [Next]_vars
    PROVE  FaithfulCopy'
<1>1. CASE UNCHANGED vars
  BY <1>1 DEF vars, FaithfulCopy, FilledFrom, SaysWhy, Cached
<1>2. CASE EndsPass
  BY <1>2 DEF EndsPass, FaithfulCopy
<1>3. CASE LeavesPass
  <2>1. CASE Cached(cr') = Cached(cr)
    BY <1>3, <2>1 DEF LeavesPass, FaithfulCopy, FilledFrom, SaysWhy, Cached
  <2>2. CASE Len(cr) > 1 /\ cr' = Tail(cr)
    <3>1. hand # NoHand /\ Cached(cr') # Absent
             => Cached(cr').version # hand.version
      BY <2>2, LogTail DEF Logs, KnownKieApp, Cached
    <3> QED
      BY <1>3, <3>1 DEF LeavesPass, FaithfulCopy, Cached
  <2> QED
    BY <1>3, <2>1, <2>2, AppendedKieApp DEF LeavesPass
<1>4. CASE ContinuesPass
  <2>1. hand # NoHand /\ pc # "save" /\ Cached(cr') = Cached(cr)
    BY <1>4 DEF ContinuesPass
  <2>2. hand'.spec.password # NoPassword
    BY <1>4, <2>1 DEF ContinuesPass, FaithfulCopy
  <2> SUFFICES ASSUME Cached(cr) # Absent, Cached(cr).version = hand'.version
               PROVE  /\ FilledFrom(hand', Cached(cr))
                      /\ IF pc' = "save" THEN SaysWhy(hand', Cached(cr))
                         ELSE hand'.conditions = Cached(cr).conditions
    BY <2>1, <2>2 DEF FaithfulCopy, FilledFrom, SaysWhy, Cached
  <2>3. FilledFrom(hand, Cached(cr)) /\ hand.conditions = Cached(cr).conditions
    BY <1>4, <2>1 DEF ContinuesPass, FaithfulCopy
  <2>4. FilledFrom(hand', Cached(cr))
    BY <1>4, <2>3 DEF ContinuesPass, FilledFrom
  <2>5. CASE pc' = "save"
    BY <1>4, <2>3, <2>4, <2>5 DEF ContinuesPass, SaysWhy
  <2>6. CASE pc' # "save"
    BY <1>4, <2>3, <2>4, <2>6 DEF ContinuesPass
  <2> QED
    BY <2>5, <2>6
<1>5. CASE StartsPass
  <2>1. Cached(cr') = Cached(cr)
    BY <1>5 DEF StartsPass
  <2> QED
    BY <1>5, <2>1 DEF StartsPass, FaithfulCopy, FilledFrom, SaysWhy, Cached
<1> QED
  BY <1>1, <1>2, <1>3, <1>4, <1>5, KieAppStep

LEMMA KnownAtFirst ==
    Init => KnownKieApp /\ FaithfulCopy
<1> SUFFICES ASSUME Init PROVE VersionsDiffer(cr) /\ hand = NoHand
  BY DEF KnownKieApp, FaithfulCopy
<1>1. PICK k : cr = <<Absent, k>>
  BY DEF Init
<1> QED
  BY <1>1 DEF Init, VersionsDiffer

-----------------------------------------------------------------------------
(***************************************************************************)
(* The same for the objects and the updates not yet sent.                   *)
(***************************************************************************)
AppendsObject ==
    \E o \in Objects, e \in Object \cup {Absent} :
        /\ obj' = [obj EXCEPT ![o] = Append(@, e)]
        /\ e = Absent \/ e.version \notin ObjectVersions(o)

ListsUpdates ==
    /\ UNCHANGED obj
    /\ \E kind \in SUBSET Objects : updates' = UpdatesOf(kind)

WritesObject ==
    /\ UNCHANGED obj \/ AppendsObject
    /\ updates' \subseteq updates

DeliversObject ==
    /\ \E o \in Objects :
          Len(obj[o]) > 1 /\ obj' = [obj EXCEPT ![o] = Tail(@)]
    /\ UNCHANGED updates

CollapsesObjects ==
    /\ obj' = [o \in Objects |-> <<Api(obj[o])>>]
    /\ updates' = {}

LEMMA WriteAppends ==
    ASSUME Logs, NEW o \in Objects, NEW c \in Content, NEW r \in BOOLEAN,
           WriteObject(o, c, r)
    PROVE  AppendsObject
BY ObjectWritten DEF AppendsObject

LEMMA RemoveAppends ==
    ASSUME NEW o \in Objects, RemoveObject(o)
    PROVE  AppendsObject
BY DEF RemoveObject, AppendsObject

LEMMA CreationAppends ==
    ASSUME Logs, Pass, pc = "create", toCreate # <<>>,
           WriteObject(Head(toCreate), Wanted(Head(toCreate), hand.spec), FALSE)
    PROVE  AppendsObject
<1>1. Head(toCreate) \in Objects
  BY HeadTailProperties DEF Pass
<1>2. Wanted(Head(toCreate), hand.spec) \in Content
  BY <1>1, HandInPass, WantedType DEF KieApp
<1> QED
  BY <1>1, <1>2, WriteAppends

LEMMA UpdateAppends ==
    ASSUME Logs, Pass, NEW u \in updates, IsCurrent(u),
           WriteObject(u.name, u.content, Api(obj[u.name]).ready)
    PROVE  AppendsObject
<1>1. u.name \in Objects /\ u.content \in Content
  BY DEF Pass, Update
<1>2. Api(obj[u.name]).ready \in BOOLEAN
  BY <1>1, LogEntry DEF IsCurrent, Object
<1> QED
  BY <1>1, <1>2, WriteAppends

LEMMA ObjectStep ==
    ASSUME Logs, Pass, Next
    PROVE  ListsUpdates \/ WritesObject \/ DeliversObject \/ CollapsesObjects
<1> USE DEF local
<1>1. ASSUME \/ ReadNothing \/ ReadKieApp \/ SkipExisting \/ CreateRefused
             \/ RecheckNothing \/ Recheck \/ SaveKieApp \/ SaveRefused
             \/ ReadFails \/ ListFails \/ SaveFails
             \/ DeliverKieApp \/ RetryExpires \/ Resync
             \/ UserEdits \/ UserDeletes
      PROVE  WritesObject
  BY <1>1 DEF ReadNothing, ReadKieApp, SkipExisting, CreateRefused,
              RecheckNothing, Recheck, SaveKieApp, SaveRefused, ReadFails,
              ListFails, SaveFails, DeliverKieApp, RetryExpires, Resync,
              UserEdits, UserDeletes, Return, Fail, WritesObject
<1>2. CASE CreateObject
  BY <1>2, CreationAppends DEF CreateObject, WritesObject
<1>3. CASE ListDCs \/ ListBCs
  BY <1>3 DEF ListDCs, ListBCs, ListsUpdates, Objects
<1>4. ASSUME NEW u \in updates, UpdateObject(u)
      PROVE  WritesObject
  BY <1>4, UpdateAppends DEF UpdateObject, WritesObject
<1>5. ASSUME NEW u \in updates, UpdateRefused(u)
      PROVE  WritesObject
  BY <1>5 DEF UpdateRefused, Fail, WritesObject
<1>6. CASE CreateFails
  BY <1>6, CreationAppends DEF CreateFails, Fail, WritesObject
<1>7. ASSUME NEW u \in updates, UpdateFails(u)
      PROVE  WritesObject
  BY <1>7, UpdateAppends DEF UpdateFails, Fail, WritesObject
<1>8. CASE Crash
  BY <1>8 DEF Crash, CollapsesObjects
<1>9. ASSUME NEW o \in Objects, DeliverObject(o)
      PROVE  DeliversObject
  BY <1>9 DEF DeliverObject, DeliversObject
<1>10. ASSUME NEW o \in Objects, UserEditsObject(o)
       PROVE  WritesObject
  <2>1. Api(obj[o]) \in Object
    BY <1>10, LogEntry DEF UserEditsObject
  <2>2. /\ [Api(obj[o]).content EXCEPT !.intent = NoIntent] \in Content
        /\ Api(obj[o]).ready \in BOOLEAN
    BY <2>1 DEF Object, Content
  <2> QED
    BY <1>10, <2>2, WriteAppends DEF UserEditsObject, WritesObject
<1>11. ASSUME NEW o \in Objects, UserDeletesObject(o) \/ CollectGarbage(o)
       PROVE  WritesObject
  BY <1>11, RemoveAppends DEF UserDeletesObject, CollectGarbage, WritesObject
<1>12. ASSUME NEW o \in Objects, ReadinessChanges(o)
       PROVE  WritesObject
  <2>1. Api(obj[o]) \in Object
    BY <1>12, LogEntry DEF ReadinessChanges
  <2>2. Api(obj[o]).content \in Content /\ (~Api(obj[o]).ready) \in BOOLEAN
    BY <2>1 DEF Object
  <2> QED
    BY <1>12, <2>2, WriteAppends DEF ReadinessChanges, WritesObject
<1> QED
  BY <1>1, <1>2, <1>3, <1>4, <1>5, <1>6, <1>7, <1>8, <1>9, <1>10, <1>11, <1>12
     DEF Next, Operator, Failure, Runtime, Environment

\* Every update names a version that is at the head of its object's log or gone.
KnownObjects ==
    /\ \A o \in Objects : VersionsDiffer(obj[o])
    /\ \A u \in updates : OnlyAtHead(obj[u.name], u.version)

LEMMA ObjectsKnown ==
    ASSUME Logs, Pass, KnownObjects, [Next]_vars
    PROVE  KnownObjects'
<1>0. \A u \in updates : u.name \in Objects
  BY DEF Pass, Update
<1>1. CASE UNCHANGED vars
  BY <1>1 DEF vars, KnownObjects
<1>2. CASE ListsUpdates
  <2>1. PICK kind \in SUBSET Objects : updates' = UpdatesOf(kind)
    BY <1>2 DEF ListsUpdates
  <2>2. \A o \in Objects : Cached(obj[o]) # Absent
            => OnlyAtHead(obj[o], Cached(obj[o]).version)
    BY HeadOnlyAtHead DEF Logs, KnownObjects, Cached
  <2>3. \A u \in updates' : OnlyAtHead(obj[u.name], u.version)
    BY <2>1, <2>2 DEF UpdatesOf, OutOfDate
  <2> QED
    BY <1>2, <2>3 DEF ListsUpdates, KnownObjects
<1>3. CASE WritesObject /\ UNCHANGED obj
  BY <1>3 DEF WritesObject, KnownObjects
<1>4. CASE WritesObject /\ AppendsObject
  <2>1. PICK o \in Objects, e \in Object \cup {Absent} :
            /\ obj' = [obj EXCEPT ![o] = Append(@, e)]
            /\ e = Absent \/ e.version \notin ObjectVersions(o)
    BY <1>4 DEF AppendsObject
  <2>2. \A x \in Objects :
            obj'[x] = IF x = o THEN Append(obj[o], e) ELSE obj[x]
    BY <2>1 DEF Logs
  <2>3. VersionsDiffer(Append(obj[o], e))
    <3>1. e = Absent \/ e.version \notin VersionsIn(obj[o])
      BY <2>1 DEF ObjectVersions
    <3> QED
      BY <3>1, LogAppend DEF Logs, KnownObjects
  <2>4. ASSUME NEW u \in updates, u.name = o
        PROVE  OnlyAtHead(Append(obj[o], e), u.version)
    <3>1. e = Absent \/ e.version # u.version
      BY <2>1, <2>4 DEF ObjectVersions
    <3>2. OnlyAtHead(obj[o], u.version)
      BY <2>4 DEF KnownObjects
    <3> QED
      BY <3>1, <3>2, AppendKeepsHead DEF Logs
  <2> QED
    BY <1>0, <1>4, <2>2, <2>3, <2>4 DEF WritesObject, KnownObjects
<1>5. CASE DeliversObject
  <2>1. PICK o \in Objects :
            Len(obj[o]) > 1 /\ obj' = [obj EXCEPT ![o] = Tail(@)]
    BY <1>5 DEF DeliversObject
  <2>2. \A x \in Objects :
            obj'[x] = IF x = o THEN Tail(obj[o]) ELSE obj[x]
    BY <2>1 DEF Logs
  <2>3. /\ VersionsDiffer(Tail(obj[o]))
        /\ \A v : OnlyAtHead(obj[o], v) => OnlyAtHead(Tail(obj[o]), v)
    BY <2>1, LogTail DEF Logs, KnownObjects
  <2> QED
    BY <1>0, <1>5, <2>2, <2>3 DEF DeliversObject, KnownObjects
<1>6. CASE CollapsesObjects
  <2>1. \A o \in Objects : VersionsDiffer(<<Api(obj[o])>>)
    BY LogEntry, LogSingle
  <2> QED
    BY <1>6, <2>1 DEF CollapsesObjects, KnownObjects
<1> QED
  BY <1>1, <1>2, <1>3, <1>4, <1>5, <1>6, ObjectStep DEF WritesObject

LEMMA ObjectsKnownAtFirst == Init => KnownObjects
BY DEF Init, KnownObjects, VersionsDiffer

-----------------------------------------------------------------------------
(* Optimistic concurrency *)

\* A write the API server accepts replaces the version the cache holds
\* (UpdateObj, kieapp_controller.go): for every interleaving of users, failures,
\* crashes and event delivery, and any number of objects.
THEOREM WritesAreNeverBlind == Spec => []NoBlindWrite
<1>1. Init => KnownKieApp /\ KnownObjects
  BY KnownAtFirst, ObjectsKnownAtFirst
<1>2. TypeOK /\ KnownKieApp /\ KnownObjects /\ [Next]_vars
         => KnownKieApp' /\ KnownObjects'
  BY KieAppKnown, ObjectsKnown, TypeParts
<1>3. TypeOK /\ KnownKieApp /\ KnownObjects => NoBlindWrite
  <2> SUFFICES ASSUME Logs, Pass, KnownKieApp, KnownObjects
               PROVE  NoBlindWrite
    BY TypeParts
  <2>1. ASSUME pc = "save", IsCurrentKieApp
        PROVE  Delivered(cr)
    <3>1. OnlyAtHead(cr, hand.version)
      BY <2>1 DEF Pass, KnownKieApp
    <3> QED
      BY <2>1, <3>1, CurrentIsDelivered DEF IsCurrentKieApp, Logs
  <2>2. ASSUME NEW u \in updates, IsCurrent(u)
        PROVE  Delivered(obj[u.name])
    <3>1. u.name \in Objects /\ OnlyAtHead(obj[u.name], u.version)
      BY DEF Pass, Update, KnownObjects
    <3> QED
      BY <2>2, <3>1, CurrentIsDelivered DEF IsCurrent, Logs
  <2> QED
    BY <2>1, <2>2 DEF NoBlindWrite
<1> QED
  BY <1>1, <1>2, <1>3, TypeCorrect, PTL DEF Spec

-----------------------------------------------------------------------------
(* The stored KieApp implements DesiredState *)

\* Only these three change what the API server holds.
LEMMA OthersKeepStored ==
    ASSUME Logs, Pass, Next, ~SaveKieApp, ~UserEdits, ~UserDeletes
    PROVE  Api(cr)' = Api(cr)
<1> SUFFICES Api(cr') = Api(cr)
  BY DEF Api
<1>1. CASE UNCHANGED cr
  BY <1>1
<1>2. CASE DeliverKieApp
  BY <1>2, LogTail DEF DeliverKieApp, Logs
<1>3. CASE Crash
  BY <1>3, KieAppCollapses DEF Crash
<1>4. UNCHANGED cr \/ DeliverKieApp \/ Crash
  BY DEF Next, Operator, Failure, Runtime, Environment,
         ReadNothing, ReadKieApp, SkipExisting, CreateObject, CreateRefused,
         ListDCs, ListBCs, UpdateObject, UpdateRefused, RecheckNothing, Recheck,
         SaveRefused, ReadFails, ListFails, CreateFails, SaveFails, UpdateFails,
         DeliverObject, RetryExpires, Resync, UserEditsObject,
         UserDeletesObject, ReadinessChanges, CollectGarbage
<1> QED
  BY <1>1, <1>2, <1>3, <1>4

\* After a write the KieApp is what was written, but for its version.
LEMMA StoredAfterWrite ==
    ASSUME Logs, NEW x \in KieApp, WriteKieApp(x)
    PROVE  /\ StoredSpec' = x.spec
           /\ StoredCondition' = LastType(x.conditions)
<1>1. PICK e \in KieApp : /\ cr' = Append(cr, e)
                          /\ e.version \notin KieAppVersions
                          /\ e.spec = x.spec
                          /\ e.conditions = x.conditions
  BY KieAppWritten
<1>2. Api(cr') = e
  <2>1. e.version \notin VersionsIn(cr)
    BY <1>1 DEF KieAppVersions
  <2> QED
    BY <1>1, <2>1, LogAppend DEF Logs
<1>3. e # Absent
  BY <1>1, SentinelsAssumption DEF SentinelsAssumption
<1>4. Api(cr)' = e
  BY <1>2 DEF Api
<1> QED
  BY <1>1, <1>3, <1>4 DEF StoredSpec, StoredCondition

LEMMA StoredNow ==
    ASSUME Logs, Api(cr) # Absent
    PROVE  /\ Api(cr) \in KieApp
           /\ StoredSpec = Api(cr).spec
           /\ StoredSpec \in KieAppSpec /\ StoredSpec # Absent
           /\ StoredCondition = LastType(Api(cr).conditions)
<1>1. Api(cr) \in KieApp
  BY LogEntry
<1>2. Api(cr).spec \in KieAppSpec
  BY <1>1 DEF KieApp
<1> QED
  BY <1>1, <1>2, SentinelsAssumption
     DEF StoredSpec, StoredCondition, SentinelsAssumption

LEMMA SaveImplements ==
    ASSUME Logs, Pass, KnownKieApp, FaithfulCopy, SaveKieApp
    PROVE  \/ Desired!OperatorFills \/ Desired!OperatorReports
           \/ UNCHANGED <<StoredSpec, StoredCondition>>
<1>1. hand \in KieApp /\ hand # NoHand /\ pc = "save"
  BY HandInPass DEF SaveKieApp, Pass
<1>2. Api(cr) # Absent /\ Api(cr).version = hand.version
  BY DEF SaveKieApp, IsCurrentKieApp
<1>3. Cached(cr) = Api(cr)
  <2>1. OnlyAtHead(cr, hand.version)
    BY <1>1 DEF KnownKieApp
  <2> QED
    BY <1>2, <2>1, CurrentIsDelivered DEF Logs, Cached
<1>4. /\ hand.spec.password # NoPassword
      /\ FilledFrom(hand, Api(cr))
      /\ SaysWhy(hand, Api(cr))
  BY <1>1, <1>2, <1>3 DEF FaithfulCopy
<1>5. /\ StoredSpec' = hand.spec
      /\ StoredCondition' = LastType(hand.conditions)
  BY <1>1, StoredAfterWrite DEF SaveKieApp
<1>6. /\ Api(cr) \in KieApp /\ StoredSpec = Api(cr).spec
      /\ StoredSpec \in KieAppSpec /\ StoredSpec # Absent
      /\ StoredCondition = LastType(Api(cr).conditions)
  BY <1>2, StoredNow
<1>7. hand.spec \in KieAppSpec
  BY <1>1 DEF KieApp
<1>8. CASE StoredSpec.password # NoPassword
  <2>1. hand.spec = StoredSpec
    BY <1>4, <1>6, <1>8 DEF FilledFrom
  <2>2. CASE LastType(hand.conditions) \in {"Provisioning", "Failed", "Deployed"}
    BY <1>5, <1>6, <1>8, <2>1, <2>2 DEF Desired!OperatorReports
  <2>3. CASE hand.conditions = Api(cr).conditions
    BY <1>5, <1>6, <2>1, <2>3
  <2> QED
    BY <1>4, <2>2, <2>3 DEF SaysWhy
<1>9. CASE StoredSpec.password = NoPassword
  <2>1. hand.spec # StoredSpec
    BY <1>4, <1>9
  <2>2. LastType(hand.conditions) \in {"Provisioning", "Failed"}
    BY <1>4, <1>6, <2>1 DEF SaysWhy
  <2>3. hand.spec.password \in Passwords
    BY <1>4, <1>7 DEF KieAppSpec
  <2>4. hand.spec = [StoredSpec EXCEPT !.password = hand.spec.password]
    BY <1>4, <1>6, <1>7 DEF KieAppSpec, FilledFrom
  <2> QED
    BY <1>5, <1>6, <1>9, <2>2, <2>3, <2>4 DEF Desired!OperatorFills
<1> QED
  BY <1>8, <1>9

LEMMA EditImplements ==
    ASSUME Logs, UserEdits
    PROVE  Desired!UserEdits
<1>1. Api(cr) # Absent
  BY DEF UserEdits
<1>2. /\ Api(cr) \in KieApp /\ StoredSpec = Api(cr).spec /\ StoredSpec # Absent
      /\ StoredCondition = LastType(Api(cr).conditions)
  BY <1>1, StoredNow
<1>3. PICK i \in Intents, p \in {Api(cr).spec.password, NoPassword} :
          WriteKieApp([Api(cr) EXCEPT !.spec = [intent |-> i, password |-> p]])
  BY DEF UserEdits
<1> DEFINE edited == [Api(cr) EXCEPT !.spec = [intent |-> i, password |-> p]]
<1>4. /\ edited \in KieApp
      /\ edited.spec = [intent |-> i, password |-> p]
      /\ edited.conditions = Api(cr).conditions
  BY <1>2 DEF KieApp, KieAppSpec
<1>5. StoredSpec' = edited.spec /\ StoredCondition' = LastType(edited.conditions)
  <2> HIDE DEF edited
  <2>1. WriteKieApp(edited)
    BY <1>3 DEF edited
  <2> QED
    BY <1>4, <2>1, StoredAfterWrite
<1> HIDE DEF edited
<1> QED
  BY <1>2, <1>4, <1>5 DEF Desired!UserEdits

LEMMA DeleteImplements ==
    ASSUME Logs, UserDeletes
    PROVE  Desired!UserDeletes
<1>1. StoredSpec # Absent
  BY StoredNow DEF UserDeletes
<1>2. Api(cr') = Absent
  BY LogAppend DEF UserDeletes, Logs
<1>3. Api(cr)' = Absent
  BY <1>2 DEF Api
<1> QED
  BY <1>1, <1>3 DEF Desired!UserDeletes, StoredSpec, StoredCondition

LEMMA StepImplements ==
    ASSUME Logs, Pass, KnownKieApp, FaithfulCopy, [Next]_vars
    PROVE  [Desired!Next]_<<StoredSpec, StoredCondition>>
<1>1. CASE UNCHANGED vars
  BY <1>1 DEF vars, StoredSpec, StoredCondition, Api
<1>2. CASE SaveKieApp
  BY <1>2, SaveImplements DEF Desired!Next
<1>3. CASE UserEdits
  BY <1>3, EditImplements DEF Desired!Next
<1>4. CASE UserDeletes
  BY <1>4, DeleteImplements DEF Desired!Next
<1>5. CASE Next /\ ~SaveKieApp /\ ~UserEdits /\ ~UserDeletes
  <2>1. Api(cr)' = Api(cr)
    BY <1>5, OthersKeepStored
  <2> QED
    BY <2>1 DEF StoredSpec, StoredCondition
<1> QED
  BY <1>1, <1>2, <1>3, <1>4, <1>5

\* The operator implements DesiredState (Reconcile, kieapp_controller.go): no
\* write of a KieApp read from a cache that lags behind by any number of events
\* undoes an edit, replaces a stored password or stores one with Deployed.
THEOREM SpecificationIsTheUsers == Spec => UserOwnsSpec
<1>1. Init => KnownKieApp /\ FaithfulCopy
  BY KnownAtFirst
<1>2. TypeOK /\ KnownKieApp /\ FaithfulCopy /\ [Next]_vars
         => KnownKieApp' /\ FaithfulCopy'
  BY KieAppKnown, CopyStaysFaithful, TypeParts
<1>3. Init => Desired!Init
  <2> SUFFICES ASSUME Init PROVE Desired!Init
    OBVIOUS
  <2>1. PICK v \in FreshVersions({}), s \in KieAppSpec :
            cr = <<Absent, [version |-> v, spec |-> s, conditions |-> <<>>,
                            deployments |-> {}]>>
    BY DEF Init
  <2>2. Api(cr) = [version |-> v, spec |-> s, conditions |-> <<>>,
                   deployments |-> {}]
    BY <2>1 DEF Api
  <2>3. Api(cr) \in KieApp
    <3>1. <<>> \in ConditionList
      BY MaxBufferAssumption, EmptySeq DEF ConditionList, MaxBufferAssumption
    <3> QED
      BY <2>2, <3>1, FreshIsUnused DEF KieApp, Deployments
  <2>4. Api(cr) # Absent
    BY <2>3, SentinelsAssumption DEF SentinelsAssumption
  <2> QED
    BY <2>2, <2>4 DEF Desired!Init, Desired!Specs, StoredSpec,
                      StoredCondition, LastType, KieAppSpec
<1>4. TypeOK /\ KnownKieApp /\ FaithfulCopy /\ [Next]_vars
         => [Desired!Next]_<<StoredSpec, StoredCondition>>
  BY StepImplements, TypeParts
<1> QED
  BY <1>1, <1>2, <1>3, <1>4, TypeCorrect, PTL
     DEF Spec, UserOwnsSpec, Desired!Spec

-----------------------------------------------------------------------------
(***************************************************************************)
(* No request is lost.  What a pass has seen so far holds of every resource *)
(* of which no event is on its way, as long as none has queued the request  *)
(* since the pass began; so a pass that returns without requeue has carried *)
(* out the request, or is followed by another one.                          *)
(***************************************************************************)

\* Objects that CreateCustomObjects has created, or found in the cache.
Made(o) ==
    \/ pc = "create" /\ \A i \in 1..Len(toCreate) : toCreate[i] # o
    \/ pc \in {"updateDCs", "listBCs", "updateBCs", "recheck"}

Sent(o) == \A u \in updates : u.name # o

\* Objects that were as wanted when they were listed, or have been updated.
Matched(o) ==
    \/ o \in DCs /\ pc \in {"listBCs", "updateBCs", "recheck"}
    \/ o \in BCs /\ pc = "recheck"
    \/ o \in DCs /\ pc = "updateDCs" /\ Sent(o)
    \/ o \in BCs /\ pc = "updateBCs" /\ Sent(o)

PasswordFilled == pc # "idle" => hand.spec.password # NoPassword

ObjectsSeen ==
    ~dirty =>
        \A o \in Objects : Delivered(obj[o]) =>
            /\ Made(o) => Api(obj[o]) # Absent
            /\ Matched(o) => Api(obj[o]).content = Wanted(o, hand.spec)

StatusSeen ==
    /\ ~dirty
    /\ \A d \in DCs : Delivered(obj[d])
    /\ pc \in {"updateDCs", "listBCs", "updateBCs", "recheck"}
    => hand.deployments = {<<d, Api(obj[d]).ready>> : d \in DCs}

Seen == PasswordFilled /\ ObjectsSeen /\ StatusSeen /\ NoLostWakeup

LEMMA LogGrows ==
    ASSUME NEW S, NEW log \in Seq(S), log # <<>>, NEW e \in S
    PROVE  ~Delivered(Append(log, e))
<1>1. Len(Append(log, e)) = Len(log) + 1 /\ Len(log) \in Nat \ {0}
  OBVIOUS
<1> QED
  BY <1>1 DEF Delivered

LEMMA LogDelivered ==
    ASSUME NEW log, Delivered(log)
    PROVE  Cached(log) = Api(log)
BY DEF Delivered, Cached, Api

\* A log of an object that has changed has an event on its way.
ObjectsGrow ==
    \A o \in Objects : obj'[o] = obj[o] \/ ~Delivered(obj'[o])

LEMMA AppendsGrow ==
    ASSUME Logs, UNCHANGED obj \/ AppendsObject
    PROVE  ObjectsGrow
<1>1. CASE UNCHANGED obj
  BY <1>1 DEF ObjectsGrow
<1>2. CASE AppendsObject
  <2>1. PICK o \in Objects, e \in Object \cup {Absent} :
            obj' = [obj EXCEPT ![o] = Append(@, e)]
    BY <1>2 DEF AppendsObject
  <2>2. \A x \in Objects \ {o} : obj'[x] = obj[x]
    BY <2>1 DEF Logs
  <2>3. obj'[o] = Append(obj[o], e)
    BY <2>1 DEF Logs
  <2>4. ~Delivered(obj'[o])
    BY <2>3, LogGrows DEF Logs
  <2> QED
    BY <2>2, <2>4 DEF ObjectsGrow
<1> QED
  BY <1>1, <1>2

\* A write to one object disturbs what is known of no other.
LEMMA WriteGrows ==
    ASSUME Logs, NEW o \in Objects, NEW c \in Content, NEW r \in BOOLEAN,
           WriteObject(o, c, r)
    PROVE  ~Delivered(obj'[o]) /\ \A x \in Objects \ {o} : obj'[x] = obj[x]
<1>1. PICK e \in Object : obj' = [obj EXCEPT ![o] = Append(@, e)]
  BY ObjectWritten
<1>2. obj'[o] = Append(obj[o], e) /\ \A x \in Objects \ {o} : obj'[x] = obj[x]
  BY <1>1 DEF Logs
<1> QED
  BY <1>2, LogGrows DEF Logs

\* The next pass will look.
LEMMA QueuedIsSeen ==
    ASSUME Seen, dirty', pc' # "idle" => pc # "idle" /\ hand'.spec = hand.spec
    PROVE  Seen'
BY DEF Seen, PasswordFilled, ObjectsSeen, StatusSeen, NoLostWakeup, Awake

LEMMA RetriedIsSeen ==
    ASSUME pc' = "idle", retry'
    PROVE  Seen'
BY DEF Seen, PasswordFilled, ObjectsSeen, StatusSeen, NoLostWakeup, Awake, Made, Matched

\* Whatever becomes of a save, it ends with a requeue.
LEMMA SavedIsSeen ==
    ASSUME Seen, pc # "idle", pc' = "save", hand'.spec = hand.spec
    PROVE  Seen'
BY DEF Seen, PasswordFilled, ObjectsSeen, StatusSeen, NoLostWakeup, Awake, Made, Matched

LEMMA FailIsSeen ==
    ASSUME Seen, Pass, pc # "idle", NEW reason \in Reasons, Fail(reason)
    PROVE  Seen'
<1>1. hand \in KieApp /\ hand.conditions \in ConditionList
  BY HandInPass DEF KieApp
<1>2. SetFailed(hand.conditions, reason) \in ConditionList
  BY <1>1, SettersType
<1>3. hand' = [hand EXCEPT !.conditions = SetFailed(hand.conditions, reason)]
  BY DEF Fail
<1>4. hand'.spec = hand.spec /\ pc' = "save"
  BY <1>1, <1>2, <1>3, ConditionsChanged DEF Fail
<1> QED
  BY <1>4, SavedIsSeen

\* What others do is on its way to the cache.
LEMMA OthersAreSeen ==
    ASSUME Seen, ObjectsGrow, UNCHANGED <<pc, hand, toCreate, updates, dirty, retry>>,
           cr' = cr \/ ~Delivered(cr')
    PROVE  Seen'
<1>1. PasswordFilled'
  BY DEF Seen, PasswordFilled
<1>2. ObjectsSeen'
  <2> SUFFICES ASSUME ~dirty', NEW o \in Objects, Delivered(obj[o])'
               PROVE  /\ Made(o)' => (Api(obj[o]) # Absent)'
                      /\ Matched(o)' => (Api(obj[o]).content = Wanted(o, hand.spec))'
    BY DEF ObjectsSeen
  <2>1. obj'[o] = obj[o]
    BY DEF ObjectsGrow
  <2>2. Made(o)' = Made(o) /\ Matched(o)' = Matched(o)
    BY DEF Made, Matched, Sent
  <2> QED
    BY <2>1, <2>2 DEF Seen, ObjectsSeen
<1>3. StatusSeen'
  <2> SUFFICES ASSUME ~dirty', \A d \in DCs : Delivered(obj'[d]),
                      pc' \in {"updateDCs", "listBCs", "updateBCs", "recheck"}
               PROVE  hand'.deployments = {<<d, Api(obj'[d]).ready>> : d \in DCs}
    BY DEF StatusSeen
  <2>1. \A d \in DCs : obj'[d] = obj[d]
    BY DEF ObjectsGrow, Objects
  <2> QED
    BY <2>1 DEF Seen, StatusSeen
<1>4. NoLostWakeup'
  <2> SUFFICES ASSUME ~Awake', (Api(cr) # Absent)'
               PROVE  CarriedOut'
    BY DEF NoLostWakeup
  <2>1. /\ ~dirty /\ ~retry /\ pc = "idle" /\ Delivered(cr')
        /\ \A o \in Objects : Delivered(obj'[o])
    BY DEF Awake
  <2>2. cr' = cr /\ \A o \in Objects : obj'[o] = obj[o]
    BY <2>1 DEF ObjectsGrow
  <2>3. CarriedOut
    BY <2>1, <2>2 DEF Seen, NoLostWakeup, Awake
  <2>4. \A o \in Objects : InPlace(o)'
    BY <2>2, <2>3 DEF CarriedOut, InPlace
  <2>5. StatusInPlace'
    BY <2>2, <2>3 DEF CarriedOut, StatusInPlace, Objects
  <2> QED
    BY <2>2, <2>3, <2>4, <2>5 DEF CarriedOut
<1> QED
  BY <1>1, <1>2, <1>3, <1>4 DEF Seen

\* While a pass goes on nothing has to be carried out yet.
LEMMA GoingOn == ASSUME pc' # "idle" PROVE NoLostWakeup'
BY DEF NoLostWakeup, Awake

LEMMA ReadIsSeen == ASSUME TypeOK, Seen, ReadNothing \/ ReadKieApp PROVE Seen'
<1>1. CASE ReadNothing
  <2>1. pc' = "idle" /\ UNCHANGED <<cr, obj>> /\ Cached(cr) = Absent
    BY <1>1 DEF ReadNothing, local
  <2>2. NoLostWakeup'
    BY <2>1, LogDelivered DEF NoLostWakeup, Awake
  <2> QED
    BY <2>1, <2>2 DEF Seen, PasswordFilled, ObjectsSeen, StatusSeen, Made, Matched
<1>2. CASE ReadKieApp
  <2>1. hand'.spec.password # NoPassword
    BY <1>2, ReadStarts, TypeParts DEF StartsPass
  <2>2. pc' = "save" \/ (pc' = "create" /\ toCreate' = CreateOrder)
    BY <1>2 DEF ReadKieApp
  <2>3. ObjectsSeen'
    BY <2>2, ObjectsAssumption DEF ObjectsSeen, Made, Matched, ObjectsAssumption
  <2> QED
    BY <2>1, <2>2, <2>3, GoingOn DEF Seen, PasswordFilled, StatusSeen
<1> QED
  BY <1>1, <1>2

\* createCustomObject looks at the objects one by one.
LEMMA TailLooksAtHead ==
    ASSUME toCreate \in Seq(Objects), toCreate # <<>>, NEW o,
           \A i \in 1..Len(Tail(toCreate)) : Tail(toCreate)[i] # o
    PROVE  o = Head(toCreate) \/ \A i \in 1..Len(toCreate) : toCreate[i] # o
<1>1. /\ Len(Tail(toCreate)) = Len(toCreate) - 1 /\ Len(toCreate) \in Nat
      /\ Head(toCreate) = toCreate[1]
      /\ \A i \in 1..Len(Tail(toCreate)) : Tail(toCreate)[i] = toCreate[i + 1]
  BY HeadTailProperties
<1>2. \A i \in 2..Len(toCreate) : toCreate[i] # o
  <2> SUFFICES ASSUME NEW i \in 2..Len(toCreate) PROVE toCreate[i] # o
    OBVIOUS
  <2>1. i - 1 \in 1..Len(Tail(toCreate)) /\ (i - 1) + 1 = i
    BY <1>1
  <2> QED
    BY <1>1, <2>1
<1> QED
  BY <1>1, <1>2

LEMMA CreateIsSeen ==
    ASSUME TypeOK, Seen, SkipExisting \/ CreateObject \/ CreateRefused PROVE Seen'
<1> /\ Logs /\ Pass
  BY TypeParts
<1>1. CASE CreateRefused
  BY <1>1, FailIsSeen DEF CreateRefused, Reasons
<1>2. CASE SkipExisting \/ CreateObject
  <2> DEFINE o == Head(toCreate)
  <2>1. /\ pc = "create" /\ pc' = "create" /\ toCreate # <<>>
        /\ toCreate' = Tail(toCreate) /\ UNCHANGED <<hand, dirty>>
    BY <1>2 DEF SkipExisting, CreateObject, queue
  <2>2. toCreate \in Seq(Objects) /\ o \in Objects
    BY <2>1, HeadTailProperties DEF Pass
  <2>3. /\ \A x \in Objects \ {o} : obj'[x] = obj[x]
        /\ Delivered(obj'[o]) => Api(obj'[o]) # Absent
    <3>1. CASE SkipExisting
      BY <3>1, LogDelivered DEF SkipExisting
    <3>2. CASE CreateObject
      <4>1. Wanted(o, hand.spec) \in Content
        BY <2>1, <2>2, HandInPass, WantedType DEF KieApp
      <4> QED
        BY <2>2, <3>2, <4>1, WriteGrows DEF CreateObject
    <3> QED
      BY <1>2, <3>1, <3>2
  <2> HIDE DEF o
  <2>4. ObjectsSeen'
    <3> SUFFICES ASSUME ~dirty', NEW x \in Objects, Delivered(obj[x])', Made(x)'
                 PROVE  (Api(obj[x]) # Absent)'
      BY <2>1 DEF ObjectsSeen, Matched
    <3>1. x = o \/ Made(x)
      BY <2>1, <2>2, TailLooksAtHead DEF Made, o
    <3> QED
      BY <2>1, <2>3, <3>1 DEF Seen, ObjectsSeen
  <2> QED
    BY <2>1, <2>4, GoingOn DEF Seen, PasswordFilled, StatusSeen
<1> QED
  BY <1>1, <1>2

\* What is not out of date is as wanted.
LEMMA ListedMatches ==
    ASSUME NEW kind \in SUBSET Objects, NEW o \in kind, Delivered(obj[o]),
           Api(obj[o]) # Absent, \A u \in UpdatesOf(kind) : u.name # o
    PROVE  Api(obj[o]).content = Wanted(o, hand.spec)
<1>1. Cached(obj[o]) = Api(obj[o])
  BY LogDelivered
<1>2. o \notin OutOfDate(kind)
  <2>1. ASSUME o \in OutOfDate(kind)
        PROVE  \E u \in UpdatesOf(kind) : u.name = o
    <3> DEFINE w == [name |-> o, version |-> Cached(obj[o]).version,
                     content |-> Wanted(o, hand.spec)]
    <3>1. w \in UpdatesOf(kind)
      BY <2>1 DEF UpdatesOf
    <3>2. w.name = o
      OBVIOUS
    <3> HIDE DEF w
    <3> QED
      BY <3>1, <3>2
  <2> QED
    BY <2>1
<1> QED
  BY <1>1, <1>2 DEF OutOfDate

LEMMA ListIsSeen == ASSUME TypeOK, Seen, ListDCs \/ ListBCs PROVE Seen'
<1> /\ Logs /\ Pass
  BY TypeParts
<1>1. CASE ListDCs
  <2>1. /\ pc = "create" /\ toCreate = <<>> /\ UNCHANGED <<obj, dirty>>
        /\ hand' = [hand EXCEPT !.deployments = ListedDeployments]
        /\ updates' = UpdatesOf(DCs)
        /\ pc' = IF OutOfDate(DCs) = {} THEN "listBCs" ELSE "updateDCs"
    BY <1>1 DEF ListDCs, queue
  <2>2. hand \in KieApp
    BY <2>1, HandInPass
  <2>3. hand'.spec = hand.spec /\ hand'.deployments = ListedDeployments
    BY <2>1, <2>2 DEF KieApp
  <2>4. ASSUME ~dirty, NEW o \in Objects, Delivered(obj[o]) PROVE Api(obj[o]) # Absent
    <3>1. Made(o)
      BY <2>1 DEF Made
    <3> QED
      BY <2>4, <3>1 DEF Seen, ObjectsSeen
  <2>5. ObjectsSeen'
    <3> SUFFICES ASSUME ~dirty', NEW o \in Objects, Delivered(obj[o])', Matched(o)'
                 PROVE  (Api(obj[o]).content = Wanted(o, hand.spec))'
      BY <2>1, <2>4 DEF ObjectsSeen
    <3>1. ~dirty /\ Delivered(obj[o]) /\ Api(obj[o]) # Absent
      BY <2>1, <2>4
    <3>2. o \in DCs
      BY <2>1 DEF Matched
    <3>3. \A u \in UpdatesOf(DCs) : u.name # o
      <4>1. CASE pc' = "listBCs"
        <5>1. UpdatesOf(DCs) = {}
          BY <2>1, <4>1 DEF UpdatesOf
        <5> QED
          BY <5>1
      <4>2. CASE pc' = "updateDCs"
        BY <2>1, <3>2, <4>2, ObjectsAssumption
           DEF Matched, Sent, ObjectsAssumption
      <4> QED
        BY <2>1, <4>1, <4>2
    <3>4. Api(obj[o]).content = Wanted(o, hand.spec)
      BY <3>1, <3>2, <3>3, ListedMatches DEF Objects
    <3> QED
      BY <2>1, <2>3, <3>4
  <2>6. StatusSeen'
    <3> SUFFICES ASSUME ~dirty, \A d \in DCs : Delivered(obj[d])
                 PROVE  ListedDeployments = {<<d, Api(obj[d]).ready>> : d \in DCs}
      BY <2>1, <2>3 DEF StatusSeen
    <3>1. \A d \in DCs : Cached(obj[d]) = Api(obj[d]) /\ Api(obj[d]) # Absent
      BY <2>4, LogDelivered DEF Objects
    <3> QED
      BY <3>1 DEF ListedDeployments
  <2> QED
    BY <2>1, <2>3, <2>5, <2>6, GoingOn DEF Seen, PasswordFilled
<1>2. CASE ListBCs
  <2>1. /\ pc = "listBCs" /\ UNCHANGED <<obj, dirty, hand>>
        /\ updates' = UpdatesOf(BCs)
        /\ pc' = IF OutOfDate(BCs) = {} THEN "recheck" ELSE "updateBCs"
    BY <1>2 DEF ListBCs, queue
  <2>2. \A o \in Objects : Made(o) /\ (o \in DCs => Matched(o))
    BY <2>1 DEF Made, Matched
  <2>3. ObjectsSeen'
    <3> SUFFICES ASSUME ~dirty', NEW o \in Objects, Delivered(obj[o])'
                 PROVE  /\ (Api(obj[o]) # Absent)'
                        /\ Matched(o)' => (Api(obj[o]).content = Wanted(o, hand.spec))'
      BY DEF ObjectsSeen
    <3>1. ~dirty /\ Delivered(obj[o]) /\ Api(obj[o]) # Absent
      BY <2>1, <2>2 DEF Seen, ObjectsSeen
    <3>2. CASE o \in DCs
      BY <2>1, <2>2, <3>1, <3>2 DEF Seen, ObjectsSeen
    <3>3. CASE o \notin DCs /\ Matched(o)'
      <4>1. o \in BCs
        BY <3>3 DEF Matched
      <4>2. \A u \in UpdatesOf(BCs) : u.name # o
        <5>1. CASE pc' = "recheck"
          <6>1. UpdatesOf(BCs) = {}
            BY <2>1, <5>1 DEF UpdatesOf
          <6> QED
            BY <6>1
        <5>2. CASE pc' = "updateBCs"
          BY <2>1, <3>3, <5>2 DEF Matched, Sent
        <5> QED
          BY <2>1, <5>1, <5>2
      <4>3. Api(obj[o]).content = Wanted(o, hand.spec)
        BY <3>1, <4>1, <4>2, ListedMatches DEF Objects
      <4> QED
        BY <2>1, <3>1, <4>3
    <3> QED
      BY <2>1, <3>1, <3>2, <3>3
  <2>4. StatusSeen'
    BY <2>1 DEF Seen, StatusSeen
  <2> QED
    BY <2>1, <2>3, <2>4, GoingOn DEF Seen, PasswordFilled
<1> QED
  BY <1>1, <1>2

LEMMA UpdateIsSeen ==
    ASSUME TypeOK, Seen, NEW u \in updates, UpdateObject(u) PROVE Seen'
<1> /\ Logs /\ Pass
  BY TypeParts
<1>1. /\ pc \in {"updateDCs", "updateBCs"} /\ pc # "idle" /\ UNCHANGED dirty
      /\ updates' = updates \ {u}
      /\ IsCurrent(u) /\ WriteObject(u.name, u.content, Api(obj[u.name]).ready)
  BY DEF UpdateObject, queue
<1>2. u.name \in Objects /\ u.content \in Content
  BY DEF Pass, Update
<1>3. Api(obj[u.name]).ready \in BOOLEAN
  BY <1>1, <1>2, LogEntry DEF IsCurrent, Object
<1>4. ~Delivered(obj'[u.name]) /\ \A x \in Objects \ {u.name} : obj'[x] = obj[x]
  BY <1>1, <1>2, <1>3, WriteGrows
<1>5. CASE pc' = "save"
  <2>1. hand'.spec = hand.spec
    BY <1>1, <1>5, AfterUpdatesPass DEF UpdateObject
  <2> QED
    BY <1>1, <1>5, <2>1, SavedIsSeen
<1>6. CASE pc' # "save"
  <2>1. /\ UNCHANGED hand
        /\ \/ pc' = pc
           \/ updates = {u} /\ pc = "updateDCs" /\ pc' = "listBCs"
           \/ updates = {u} /\ pc = "updateBCs" /\ pc' = "recheck"
    BY <1>1, <1>6 DEF UpdateObject, AfterUpdates
  <2>2. ASSUME NEW o \in Objects \ {u.name} PROVE Made(o) /\ (Matched(o)' => Matched(o))
    BY <1>1, <2>1 DEF Made, Matched, Sent
  <2>3. ObjectsSeen'
    <3> SUFFICES ASSUME ~dirty', NEW o \in Objects, Delivered(obj[o])'
                 PROVE  /\ (Api(obj[o]) # Absent)'
                        /\ Matched(o)' => (Api(obj[o]).content = Wanted(o, hand.spec))'
      BY DEF ObjectsSeen
    <3>1. o # u.name
      BY <1>4
    <3>2. obj'[o] = obj[o] /\ ~dirty
      BY <1>1, <1>4, <3>1
    <3> QED
      BY <2>1, <2>2, <3>1, <3>2 DEF Seen, ObjectsSeen
  <2>4. StatusSeen'
    <3> SUFFICES ASSUME ~dirty', \A d \in DCs : Delivered(obj'[d])
                 PROVE  hand'.deployments = {<<d, Api(obj'[d]).ready>> : d \in DCs}
      BY DEF StatusSeen
    <3>1. \A d \in DCs : obj'[d] = obj[d]
      BY <1>4 DEF Objects
    <3> QED
      BY <1>1, <2>1, <3>1 DEF Seen, StatusSeen
  <2> QED
    BY <1>1, <2>1, <2>3, <2>4, GoingOn DEF Seen, PasswordFilled
<1> QED
  BY <1>5, <1>6

\* The only return without requeue that leaves a KieApp: nothing has changed in it
\* since it was read, and everything has been seen to be in place.
LEMMA RecheckIsSeen == ASSUME TypeOK, Seen, RecheckNothing \/ Recheck PROVE Seen'
<1> /\ Logs /\ Pass
  BY TypeParts
<1>1. pc = "recheck" /\ pc # "idle" /\ UNCHANGED <<cr, obj, dirty>>
  BY DEF RecheckNothing, Recheck
<1>2. hand \in KieApp /\ hand.conditions \in ConditionList
  BY <1>1, HandInPass DEF KieApp
<1>3. CASE RecheckNothing
  <2>1. pc' = "idle" /\ Cached(cr) = Absent
    BY <1>3 DEF RecheckNothing, Return
  <2>2. NoLostWakeup'
    BY <1>1, <2>1, LogDelivered DEF NoLostWakeup, Awake
  <2> QED
    BY <2>1, <2>2 DEF Seen, PasswordFilled, ObjectsSeen, StatusSeen, Made, Matched
<1>4. CASE Recheck
  <2>1. \/ Return(TRUE)
        \/ \E c \in ConditionList :
              hand' = [hand EXCEPT !.conditions = c] /\ pc' = "save"
        \/ /\ Return(FALSE)
           /\ Cached(cr) # Absent /\ hand.spec = Cached(cr).spec
           /\ hand.conditions = Cached(cr).conditions
           /\ hand.deployments = Cached(cr).deployments
           /\ ~SetsDeployed(hand.conditions)
    BY <1>2, <1>4, SettersType DEF Recheck
  <2>2. CASE Return(TRUE)
    BY <2>2, RetriedIsSeen DEF Return
  <2>3. CASE \E c \in ConditionList :
                hand' = [hand EXCEPT !.conditions = c] /\ pc' = "save"
    <3>1. PICK c \in ConditionList :
                hand' = [hand EXCEPT !.conditions = c] /\ pc' = "save"
      BY <2>3
    <3>2. hand'.spec = hand.spec
      BY <1>2, <3>1, ConditionsChanged
    <3> QED
      BY <1>1, <3>1, <3>2, SavedIsSeen
  <2>4. CASE /\ Return(FALSE)
             /\ Cached(cr) # Absent /\ hand.spec = Cached(cr).spec
             /\ hand.conditions = Cached(cr).conditions
             /\ hand.deployments = Cached(cr).deployments
             /\ ~SetsDeployed(hand.conditions)
    <3>1. pc' = "idle"
      BY <2>4 DEF Return
    <3>2. NoLostWakeup'
      <4> SUFFICES ASSUME ~Awake' PROVE CarriedOut'
        BY DEF NoLostWakeup
      <4>1. /\ ~dirty /\ Delivered(cr)
            /\ \A o \in Objects : Delivered(obj[o])
        BY <1>1 DEF Awake
      <4>2. Cached(cr) = Api(cr)
        BY <4>1, LogDelivered
      <4>3. Api(cr).spec.password # NoPassword
        BY <1>1, <2>4, <4>2 DEF Seen, PasswordFilled
      <4>4. LastType(Api(cr).conditions) = "Deployed"
        BY <2>4, <4>2 DEF SetsDeployed
      <4>5. \A o \in Objects : InPlace(o)
        <5> SUFFICES ASSUME NEW o \in Objects PROVE InPlace(o)
          OBVIOUS
        <5>1. Made(o) /\ (o \notin Secrets => Matched(o))
          BY <1>1 DEF Made, Matched, Objects
        <5> QED
          BY <2>4, <4>1, <4>2, <5>1 DEF Seen, ObjectsSeen, InPlace
      <4>6. StatusInPlace
        BY <1>1, <2>4, <4>1, <4>2 DEF Seen, StatusSeen, StatusInPlace, Objects
      <4> QED
        BY <1>1, <4>3, <4>4, <4>5, <4>6 DEF CarriedOut, InPlace, StatusInPlace
    <3> QED
      BY <3>1, <3>2 DEF Seen, PasswordFilled, ObjectsSeen, StatusSeen, Made, Matched
  <2> QED
    BY <2>1, <2>2, <2>3, <2>4
<1> QED
  BY <1>3, <1>4

\* A started process queues the request, unless there is nothing to reconcile.
LEMMA CrashIsSeen == ASSUME Crash PROVE Seen'
<1>1. /\ pc' = "idle" /\ cr' = <<Api(cr)>>
      /\ Api(cr) # Absent => dirty'
  BY DEF Crash
<1>2. Api(cr') = Api(cr)
  BY <1>1 DEF Api
<1> QED
  BY <1>1, <1>2
     DEF Seen, PasswordFilled, ObjectsSeen, StatusSeen, NoLostWakeup, Awake, Made, Matched

LEMMA FailuresAreSeen == ASSUME TypeOK, Seen, Failure PROVE Seen'
<1> /\ Logs /\ Pass
  BY TypeParts
<1>1. CASE ReadFails
  BY <1>1, RetriedIsSeen DEF ReadFails, local
<1>2. CASE ListFails
  BY <1>2, FailIsSeen DEF ListFails, Reasons
<1>3. CASE CreateFails
  BY <1>3, FailIsSeen DEF CreateFails, Reasons
<1>4. CASE SaveFails
  BY <1>4, RetriedIsSeen DEF SaveFails, Return
<1>5. CASE Crash
  BY <1>5, CrashIsSeen
<1>6. CASE \E u \in updates : UpdateFails(u)
  BY <1>6, FailIsSeen DEF UpdateFails, Reasons
<1> QED
  BY <1>1, <1>2, <1>3, <1>4, <1>5, <1>6 DEF Failure

LEMMA EnvironmentIsSeen == ASSUME TypeOK, Seen, Environment PROVE Seen'
<1> USE DEF local, queue
<1> /\ Logs /\ Pass
  BY TypeParts
<1>1. CASE UserEdits \/ UserDeletes
  <2>1. UNCHANGED <<obj, pc, hand, toCreate, updates, dirty, retry>>
    BY <1>1 DEF UserEdits, UserDeletes
  <2>2. \E e \in KieApp \cup {Absent} : cr' = Append(cr, e)
    <3>1. CASE UserDeletes
      BY <3>1 DEF UserDeletes
    <3>2. CASE UserEdits
      <4>1. Api(cr) \in KieApp
        BY <3>2, LogEntry DEF UserEdits
      <4>2. PICK i \in Intents, p \in Passwords \cup {NoPassword} :
               WriteKieApp([Api(cr) EXCEPT !.spec = [intent |-> i, password |-> p]])
        BY <3>2, <4>1 DEF UserEdits, KieApp, KieAppSpec
      <4>3. [Api(cr) EXCEPT !.spec = [intent |-> i, password |-> p]] \in KieApp
        BY <4>1 DEF KieApp, KieAppSpec
      <4> QED
        BY <4>2, <4>3, KieAppWritten
    <3> QED
      BY <1>1, <3>1, <3>2
  <2>3. ~Delivered(cr')
    BY <2>2, LogGrows DEF Logs
  <2>4. ObjectsGrow
    BY <2>1 DEF ObjectsGrow
  <2> QED
    BY <2>1, <2>3, <2>4, OthersAreSeen
<1>2. CASE \E o \in Objects : \/ UserEditsObject(o) \/ UserDeletesObject(o)
                              \/ ReadinessChanges(o) \/ CollectGarbage(o)
  <2>1. UNCHANGED <<cr, pc, hand, toCreate, updates, dirty, retry>>
    BY <1>2 DEF UserEditsObject, UserDeletesObject, ReadinessChanges, CollectGarbage
  <2>2. UNCHANGED obj \/ AppendsObject
    <3>1. PICK o \in Objects : \/ UserEditsObject(o) \/ UserDeletesObject(o)
                               \/ ReadinessChanges(o) \/ CollectGarbage(o)
      BY <1>2
    <3>2. CASE UserDeletesObject(o) \/ CollectGarbage(o)
      BY <3>2, RemoveAppends DEF UserDeletesObject, CollectGarbage
    <3>3. CASE UserEditsObject(o) \/ ReadinessChanges(o)
      <4>1. Api(obj[o]) \in Object
        BY <3>3, LogEntry DEF UserEditsObject, ReadinessChanges
      <4>2. /\ [Api(obj[o]).content EXCEPT !.intent = NoIntent] \in Content
            /\ Api(obj[o]).content \in Content /\ Api(obj[o]).ready \in BOOLEAN
            /\ (~Api(obj[o]).ready) \in BOOLEAN
        BY <4>1 DEF Object, Content
      <4> QED
        BY <3>3, <4>2, WriteAppends DEF UserEditsObject, ReadinessChanges
    <3> QED
      BY <3>1, <3>2, <3>3
  <2> QED
    BY <2>1, <2>2, AppendsGrow, OthersAreSeen
<1> QED
  BY <1>1, <1>2 DEF Environment

\* Reconcile ends passes without requeue, drops errors and RequeueAfter, and reads
\* caches that lag behind: as long as a KieApp's request is not carried out, there
\* is always an event on its way, a queued request, a retry or a pass that will see
\* to it, for any objects, intents, versions and disturbances.
THEOREM NoRequestIsLost == Spec => []NoLostWakeup
<1> USE DEF local, queue
<1>1. Init => Seen
  <2> SUFFICES ASSUME Init PROVE Seen
    OBVIOUS
  <2>1. pc = "idle" /\ ~Delivered(cr)
    BY DEF Init, Delivered
  <2> QED
    BY <2>1 DEF Seen, PasswordFilled, ObjectsSeen, StatusSeen, NoLostWakeup, Awake,
                Made, Matched
<1>2. TypeOK /\ Seen /\ [Next]_vars => Seen'
  <2> SUFFICES ASSUME TypeOK, Seen, [Next]_vars PROVE Seen'
    OBVIOUS
  <2>1. CASE ReadNothing \/ ReadKieApp
    BY <2>1, ReadIsSeen
  <2>2. CASE SkipExisting \/ CreateObject \/ CreateRefused
    BY <2>2, CreateIsSeen
  <2>3. CASE ListDCs \/ ListBCs
    BY <2>3, ListIsSeen
  <2>4. ASSUME NEW u \in updates, UpdateObject(u) PROVE Seen'
    BY <2>4, UpdateIsSeen
  <2>5. ASSUME NEW u \in updates, UpdateRefused(u) PROVE Seen'
    BY <2>5, FailIsSeen, TypeParts DEF UpdateRefused, Reasons
  <2>6. CASE RecheckNothing \/ Recheck
    BY <2>6, RecheckIsSeen
  <2>7. CASE SaveKieApp \/ SaveRefused
    BY <2>7, RetriedIsSeen DEF SaveKieApp, SaveRefused, Return
  <2>8. CASE Failure
    BY <2>8, FailuresAreSeen
  <2>9. CASE Runtime
    BY <2>9, QueuedIsSeen DEF Runtime, DeliverKieApp, RetryExpires, Resync, DeliverObject
  <2>10. CASE Environment
    BY <2>10, EnvironmentIsSeen
  <2>11. CASE UNCHANGED vars
    <3>1. ObjectsGrow
      BY <2>11 DEF vars, ObjectsGrow
    <3> QED
      BY <2>11, <3>1, OthersAreSeen DEF vars
  <2> QED
    BY <2>1, <2>2, <2>3, <2>4, <2>5, <2>6, <2>7, <2>8, <2>9, <2>10, <2>11
       DEF Next, Operator
<1>3. Seen => NoLostWakeup
  BY DEF Seen
<1> QED
  BY <1>1, <1>2, <1>3, TypeCorrect, PTL DEF Spec
=============================================================================
