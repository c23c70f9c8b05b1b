------------------------ MODULE HostsAndImagesProofs ------------------------
(***************************************************************************)
(* Theorems about HostsAndImages, for all hosts, settings and numbers of    *)
(* disturbances: every variable keeps its type, no trigger names the        *)
(* KieApp's own namespace without a tag there, and once everything has come *)
(* to rest the route's host is in place.  The last two are not inductive:   *)
(* one takes the namespace that the running pass has in hand, and every     *)
(* version of the deployment config that the cache has yet to see; the      *)
(* other what a pass that nothing has interfered with knows at each call.   *)
(***************************************************************************)
EXTENDS HostsAndImages, SequenceTheorems, TLAPS

-----------------------------------------------------------------------------
(* Logs *)

\* Delivering an event and recording one keep a log a log, and not empty.
LEMMA LogsStayLogs ==
    ASSUME NEW S, NEW log \in Seq(S), log # <<>>
    PROVE  /\ Cached(log) \in S
           /\ Api(log) \in S
           /\ <<Api(log)>> \in Seq(S) /\ <<Api(log)>> # <<>>
           /\ \A x \in S : Append(log, x) \in Seq(S) /\ Append(log, x) # <<>>
           /\ ~Delivered(log) => Tail(log) \in Seq(S) /\ Tail(log) # <<>>
<1>1. Len(log) \in Nat \ {0}
  OBVIOUS
<1>2. Api(log) \in S
  BY <1>1 DEF Api
<1>3. \A x \in S : Append(log, x) \in Seq(S) /\ Append(log, x) # <<>>
  OBVIOUS
<1>4. ASSUME ~Delivered(log) PROVE Tail(log) \in Seq(S) /\ Tail(log) # <<>>
  <2>1. Len(Tail(log)) = Len(log) - 1 /\ Tail(log) \in Seq(S)
    OBVIOUS
  <2>2. Len(log) # 1
    BY <1>4 DEF Delivered
  <2>3. Len(Tail(log)) # 0
    BY <2>1, <2>2, <1>1
  <2>4. Tail(log) # <<>>
    BY <2>1, <2>3, EmptySeq
  <2>5. QED BY <2>1, <2>4
<1>5. QED BY <1>1, <1>2, <1>3, <1>4 DEF Cached

-----------------------------------------------------------------------------
(* Type correctness *)

Route == Hosts \cup {NoHost, Absent}

Logs ==
    /\ route \in Seq(Route) /\ route # <<>>
    /\ dc \in Seq(Deployment \cup {Absent}) /\ dc # <<>>
    /\ tags \subseteq Namespaces

Pass ==
    /\ pc \in {"idle", "route", "host", "lookup", "lookupLocal", "createTag",
               "createDC", "createRoute", "update", "recheck", "save"}
    /\ pass \in [asked : KieAppSpec \cup {None}, current : BOOLEAN,
                 host : Hosts \cup {ApplicationName, NoHost},
                 namespace : Namespaces \cup {None}]
    /\ pass.asked = None <=> pc = "idle"
    /\ pc \in {"createDC", "createRoute", "update"} => pass.namespace \in Namespaces

Rest ==
    /\ asked \in KieAppSpec
    /\ shown \in Url \cup {None}
    /\ dirty \in BOOLEAN /\ retry \in BOOLEAN
    /\ budget \in 0..MaxDisturbances

LEMMA TypeParts == TypeOK <=> Logs /\ Pass /\ Rest
  BY DEF TypeOK, Logs, Pass, Rest, Route

\* Whatever is wanted of a deployment config is a deployment config.
LEMMA WantedIsADeployment ==
    ASSUME Pass, pc # "idle", pass.namespace \in Namespaces
    PROVE  Wanted \in Deployment
<1>1. pass.asked \in KieAppSpec
  BY DEF Pass
<1>2. ConfigureHostname(pass.asked, pass.host) \in
          Hosts \cup GivenHosts \cup {ApplicationName, NoHost, None}
  BY <1>1 DEF Pass, ConfigureHostname, KieAppSpec
<1>3. QED BY <1>2 DEF Wanted, Deployment

\* Saving the KieApp shows a URL, or what was shown before.
LEMMA WriteShowsUrls ==
    ASSUME Pass, Rest, Write
    PROVE  shown' \in Url \cup {None}
<1>1. CASE pass.current /\ pass.host # NoHost
  <2>1. pass.host \in Hosts \cup {ApplicationName}
    BY <1>1 DEF Pass
  <2>2. ConsoleHost \in Url
    BY <2>1 DEF ConsoleHost, Url
  <2>3. QED BY <1>1, <2>2 DEF Write
<1>2. CASE ~(pass.current /\ pass.host # NoHost)
  BY <1>2 DEF Write, Rest
<1>3. QED BY <1>1, <1>2

\* At the end of a pass nothing is in hand.
LEMMA EndPassTypes ==
    ASSUME Rest, NEW requeue \in BOOLEAN, EndPass(requeue)
    PROVE  Pass' /\ retry' \in BOOLEAN
  BY DEF Rest, EndPass, NoPass, Pass

LEMMA FailTypes ==
    ASSUME Pass, Rest, Fail
    PROVE  Pass' /\ retry' \in BOOLEAN /\ shown' \in Url \cup {None}
  BY WriteShowsUrls, EndPassTypes DEF Fail

\* A pass that has found a host looks for a tag.
LEMMA FoundTypes ==
    ASSUME Pass, pc = "host", NEW host \in Hosts \cup {NoHost}, Found(host)
    PROVE  Pass'
  BY DEF Pass, Found

LEMMA UseTypes ==
    ASSUME Pass, pc # "idle", NEW namespace \in Namespaces, Use(namespace)
    PROVE  Pass'
  BY DEF Pass, Use

LEMMA DisturbTypes ==
    ASSUME Rest, NEW kind, Disturb(kind)
    PROVE  budget' \in 0..MaxDisturbances
  BY HostsAssumption DEF Rest, Disturb, HostsAssumption

LEMMA CreateRouteTypes ==
    ASSUME Logs, CreateRoute
    PROVE  route' \in Seq(Route) /\ route' # <<>>
<1>1. PICK host \in Hosts \cup {NoHost} : route' = Append(route, host)
  BY DEF CreateRoute
<1>2. host \in Route
  BY DEF Route
<1>3. QED BY <1>1, <1>2, LogsStayLogs DEF Logs

LEMMA CreateDCTypes ==
    ASSUME Logs, Pass, pc # "idle", pass.namespace \in Namespaces,
           dc' = Append(dc, Wanted)
    PROVE  dc' \in Seq(Deployment \cup {Absent}) /\ dc' # <<>>
<1>1. Wanted \in Deployment \cup {Absent}
  BY WantedIsADeployment
<1>2. QED BY <1>1, LogsStayLogs DEF Logs

\* Spec, whatever the constants, keeps every variable of its type.
THEOREM TypeCorrect == Spec => []TypeOK
<1> USE DEF cluster, Elsewhere
<1>1. Init => TypeOK
  <2> SUFFICES ASSUME Init PROVE TypeOK
    OBVIOUS
  <2>1. Logs
    BY DEF Init, Logs, Route, Namespaces
  <2>2. Pass
    BY DEF Init, Pass, NoPass
  <2>3. Rest
    <3>1. MaxDisturbances \in Nat
      BY HostsAssumption DEF HostsAssumption
    <3>2. MaxDisturbances \in 0..MaxDisturbances
      BY <3>1
    <3> QED
      BY <3>2 DEF Init, Rest
  <2> QED
    BY <2>1, <2>2, <2>3, TypeParts
<1>2. TypeOK /\ [Next]_vars => TypeOK'
  <2> SUFFICES ASSUME Logs, Pass, Rest, Next
               PROVE  Logs' /\ Pass' /\ Rest'
    <3>1. ASSUME Logs, Pass, Rest, UNCHANGED vars
          PROVE  Logs' /\ Pass' /\ Rest'
      BY <3>1 DEF vars, Logs, Pass, Rest
    <3> QED
      BY <3>1, TypeParts DEF TypeOK, Logs, Pass, Rest, Route
  <2>1. CASE ReadKieApp
    BY <2>1, SentinelAssumption DEF ReadKieApp, Logs, Pass, Rest, NoPass, SentinelAssumption
  <2>2. CASE RejectAuth
    BY <2>2, FailTypes DEF RejectAuth, Logs, Rest
  <2>3. CASE RequestRoute
    BY <2>3, CreateRouteTypes DEF RequestRoute, Logs, Pass, Rest
  <2>4. CASE FindHost
    <3>1. Cached(route) \in Hosts \cup {NoHost}
      BY <2>4, LogsStayLogs DEF FindHost, Logs, Route
    <3> QED
      BY <2>4, <3>1, FoundTypes DEF FindHost, Found, Logs, Rest
  <2>5. CASE GiveUp
    BY <2>5, FoundTypes DEF GiveUp, Found, Logs, Rest
  <2>6. CASE LookUpTag
    <3>1. Pass'
      BY <2>6, UseTypes DEF LookUpTag, Pass, Namespaces
    <3> QED
      BY <2>6, <3>1 DEF LookUpTag, Use, Logs, Rest
  <2>7. CASE LookUpLocalTag
    <3>1. Pass'
      BY <2>7, UseTypes DEF LookUpLocalTag, Pass, Namespaces
    <3> QED
      BY <2>7, <3>1 DEF LookUpLocalTag, Use, Logs, Rest
  <2>8. CASE CreateTag
    <3>1. Pass'
      BY <2>8, UseTypes DEF CreateTag, Namespaces
    <3> QED
      BY <2>8, <3>1 DEF CreateTag, Use, Logs, Rest, Namespaces
  <2>9. CASE CreateDC
    <3>1. Pass' /\ retry' \in BOOLEAN /\ shown' \in Url \cup {None}
      BY <2>9, FailTypes DEF CreateDC, CreateObject, Pass, Rest
    <3>2. dc' \in Seq(Deployment \cup {Absent}) /\ dc' # <<>>
      BY <2>9, CreateDCTypes DEF CreateDC, CreateObject, Pass, Logs
    <3> QED
      BY <2>9, <3>1, <3>2 DEF CreateDC, CreateObject, Logs, Rest
  <2>10. CASE CreateRouteObject
    <3>1. Pass' /\ retry' \in BOOLEAN /\ shown' \in Url \cup {None}
      BY <2>10, FailTypes DEF CreateRouteObject, CreateObject, Pass, Rest
    <3>2. route' \in Seq(Route) /\ route' # <<>>
      BY <2>10, CreateRouteTypes DEF CreateRouteObject, CreateObject, Logs
    <3> QED
      BY <2>10, <3>1, <3>2 DEF CreateRouteObject, CreateObject, Logs, Rest
  <2>11. CASE UpdateDC
    <3>1. CASE UpToDate
      BY <2>11, <3>1 DEF UpdateDC, Logs, Pass, Rest
    <3>2. CASE ~UpToDate /\ Delivered(dc)
      <4>1. /\ dc' = Append(dc, Wanted) /\ pc' \in {"save", "recheck"}
            /\ UNCHANGED <<pass, retry, shown, route, tags, asked, dirty, budget>>
        BY <2>11, <3>2 DEF UpdateDC
      <4>2. pc = "update" /\ pass.namespace \in Namespaces
        BY <2>11 DEF UpdateDC, Pass
      <4>3. dc' \in Seq(Deployment \cup {Absent}) /\ dc' # <<>>
        BY <4>1, <4>2, CreateDCTypes
      <4> QED
        BY <4>1, <4>2, <4>3 DEF Logs, Pass, Rest
    <3>3. CASE ~UpToDate /\ ~Delivered(dc)
      <4>1. Fail /\ UNCHANGED <<dc, route, tags, asked, dirty, budget>>
        BY <2>11, <3>3 DEF UpdateDC
      <4> QED
        BY <4>1, FailTypes DEF Logs, Rest
    <3> QED
      BY <3>1, <3>2, <3>3
  <2>12. CASE Recheck
    <3>1. Pass' /\ retry' \in BOOLEAN
      BY <2>12, EndPassTypes DEF Recheck, Pass, Rest
    <3> QED
      BY <2>12, <3>1 DEF Recheck, Logs, Rest
  <2>13. CASE SaveKieApp
    BY <2>13, EndPassTypes, WriteShowsUrls DEF SaveKieApp, Logs, Rest
  <2>14. CASE LookUpFails
    BY <2>14, DisturbTypes DEF LookUpFails, Logs, Pass, Rest
  <2>15. CASE CreateTagFails
    <3>1. Pass'
      BY <2>15, UseTypes DEF CreateTagFails, Namespaces
    <3>2. tags' \subseteq Namespaces
      BY <2>15 DEF CreateTagFails, Logs, Namespaces
    <3> QED
      BY <2>15, <3>1, <3>2, DisturbTypes DEF CreateTagFails, Logs, Rest
  <2>16. CASE RequestRouteFails
    BY <2>16, DisturbTypes DEF RequestRouteFails, Logs, Pass, Rest
  <2>17. CASE CallFails
    BY <2>17, DisturbTypes, FailTypes DEF CallFails, Logs, Rest
  <2>18. CASE SaveFails
    BY <2>18, DisturbTypes, EndPassTypes DEF SaveFails, Logs, Rest
  <2>19. CASE Crash
    <3>1. Logs'
      BY <2>19, LogsStayLogs DEF Crash, Logs
    <3>2. Pass'
      BY <2>19 DEF Crash, Pass, NoPass
    <3> QED
      BY <2>19, <3>1, <3>2, DisturbTypes DEF Crash, Rest
  <2>20. CASE DeliverRoute
    BY <2>20, LogsStayLogs DEF DeliverRoute, Logs, Pass, Rest
  <2>21. CASE DeliverDC
    BY <2>21, LogsStayLogs DEF DeliverDC, Logs, Pass, Rest
  <2>22. CASE RetryExpires
    BY <2>22 DEF RetryExpires, Logs, Pass, Rest
  <2>23. CASE Resync
    BY <2>23 DEF Resync, Logs, Pass, Rest
  <2>24. CASE RouterAssignsHost
    <3>1. route' \in Seq(Route) /\ route' # <<>>
      BY <2>24, LogsStayLogs DEF RouterAssignsHost, Logs, Route
    <3> QED
      BY <2>24, <3>1 DEF RouterAssignsHost, Logs, Pass, Rest
  <2>25. CASE UserEdits
    <3>1. Pass'
      BY <2>25 DEF UserEdits, Pass
    <3> QED
      BY <2>25, <3>1, DisturbTypes DEF UserEdits, Logs, Rest
  <2>26. CASE UserDeletesRoute
    <3>1. route' \in Seq(Route) /\ route' # <<>>
      BY <2>26, LogsStayLogs DEF UserDeletesRoute, Logs, Route
    <3> QED
      BY <2>26, <3>1, DisturbTypes DEF UserDeletesRoute, Logs, Pass, Rest
  <2>27. CASE UserTampersWithDC
    <3>1. Api(dc) \in Deployment
      BY <2>27, LogsStayLogs DEF UserTampersWithDC, Logs
    <3>2. [Api(dc) EXCEPT !.hostname = NoHost] \in Deployment
      BY <3>1 DEF Deployment
    <3>3. dc' \in Seq(Deployment \cup {Absent}) /\ dc' # <<>>
      BY <2>27, <3>2, LogsStayLogs DEF UserTampersWithDC, Logs
    <3> QED
      BY <2>27, <3>3, DisturbTypes DEF UserTampersWithDC, Logs, Pass, Rest
  <2>28. CASE RegistryChanges
    <3>1. tags' \subseteq Namespaces
      BY <2>28 DEF RegistryChanges, Logs, Namespaces
    <3> QED
      BY <2>28, <3>1, DisturbTypes DEF RegistryChanges, Logs, Pass, Rest
  <2> QED
    BY <2>1, <2>2, <2>3, <2>4, <2>5, <2>6, <2>7, <2>8, <2>9, <2>10, <2>11, <2>12,
       <2>13, <2>14, <2>15, <2>16, <2>17, <2>18, <2>19, <2>20, <2>21, <2>22, <2>23,
       <2>24, <2>25, <2>26, <2>27, <2>28
       DEF Next, Operator, Failure, Runtime, Environment
<1> QED
  BY <1>1, <1>2, PTL DEF Spec

-----------------------------------------------------------------------------
(* Triggers on the KieApp's own namespace *)

\* Deployment configs whose trigger finds a tag, as far as tags can tell.
Backable ==
    {d \in Deployment : d.namespace = "local" => "local" \in tags} \cup {Absent}

\* The inductive strengthening: every version of the deployment config that the
\* cache has yet to see, and the namespace that the pass has in hand.
Backed ==
    /\ dc \in Seq(Backable)
    /\ pass.namespace = "local" => "local" \in tags

\* The KieApp's own tag is never removed.
LEMMA OwnTagsStay ==
    ASSUME Next
    PROVE  "local" \in tags => "local" \in tags'
<1> USE DEF cluster, Elsewhere
<1>1. CASE CreateTag
  BY <1>1 DEF CreateTag
<1>2. CASE CreateTagFails
  BY <1>2 DEF CreateTagFails
<1>3. CASE RegistryChanges
  BY <1>3 DEF RegistryChanges
<1>4. CASE CreateDC
  BY <1>4 DEF CreateDC, CreateObject
<1>5. CASE CreateRouteObject
  BY <1>5 DEF CreateRouteObject, CreateObject
<1>6. CASE LookUpTag \/ LookUpLocalTag \/ FindHost \/ GiveUp
  BY <1>6 DEF LookUpTag, LookUpLocalTag, FindHost, GiveUp, Found
<1>7. CASE \/ ReadKieApp \/ RejectAuth \/ RequestRoute \/ UpdateDC \/ Recheck \/ SaveKieApp
  BY <1>7 DEF ReadKieApp, RejectAuth, RequestRoute, UpdateDC, Recheck, SaveKieApp
<1>8. CASE LookUpFails \/ RequestRouteFails \/ CallFails \/ SaveFails \/ Crash
  BY <1>8 DEF LookUpFails, RequestRouteFails, CallFails, SaveFails, Crash
<1>9. CASE Runtime
  BY <1>9 DEF Runtime, DeliverRoute, DeliverDC, RetryExpires, Resync
<1>10. CASE RouterAssignsHost \/ UserEdits \/ UserDeletesRoute \/ UserTampersWithDC
  BY <1>10 DEF RouterAssignsHost, UserEdits, UserDeletesRoute, UserTampersWithDC
<1> QED
  BY <1>1, <1>2, <1>3, <1>4, <1>5, <1>6, <1>7, <1>8, <1>9, <1>10
     DEF Next, Operator, Failure, Environment

\* What was backed stays backed while the tag stays.
LEMMA StillBackable ==
    ASSUME "local" \in tags => "local" \in tags', NEW log \in Seq(Backable)
    PROVE  log \in Seq(Backable')
<1>1. Backable \subseteq Backable'
  BY DEF Backable
<1> QED
  BY <1>1

\* A pass only wants triggers that are backed.
LEMMA WantedIsBackable ==
    ASSUME Pass, Backed, pc # "idle", pass.namespace \in Namespaces
    PROVE  Wanted \in Backable
<1>1. Wanted \in Deployment
  BY WantedIsADeployment
<1> QED
  BY <1>1 DEF Wanted, Backed, Backable

\* The deployment config after a step, judged by the tags before it.
LEMMA DCStaysBackable ==
    ASSUME TypeOK, Backed, Next
    PROVE  dc' \in Seq(Backable)
<1> USE DEF cluster, Elsewhere
<1> dc \in Seq(Backable) /\ dc # <<>> /\ Absent \in Backable
  BY DEF TypeOK, Backed, Backable
<1>1. CASE CreateDC
  <2>1. dc' = dc \/ (pc = "createDC" /\ dc' = Append(dc, Wanted))
    BY <1>1 DEF CreateDC, CreateObject
  <2>2. CASE dc' = dc
    BY <2>2
  <2>3. CASE pc = "createDC" /\ dc' = Append(dc, Wanted)
    <3>1. Wanted \in Backable
      BY <2>3, TypeParts, WantedIsBackable DEF Pass
    <3> QED
      BY <2>3, <3>1
  <2> QED
    BY <2>1, <2>2, <2>3
<1>2. CASE UpdateDC
  <2>1. dc' = dc \/ dc' = Append(dc, Wanted)
    BY <1>2 DEF UpdateDC
  <2>2. Wanted \in Backable
    BY <1>2, TypeParts, WantedIsBackable DEF UpdateDC, Pass
  <2> QED
    BY <2>1, <2>2
<1>3. CASE UserTampersWithDC
  <2>1. Api(dc) \in Backable /\ Api(dc) # Absent
    BY <1>3, LogsStayLogs DEF UserTampersWithDC
  <2>2. [Api(dc) EXCEPT !.hostname = NoHost] \in Backable
    BY <2>1 DEF Backable, Deployment
  <2> QED
    BY <1>3, <2>2 DEF UserTampersWithDC
<1>4. CASE DeliverDC
  BY <1>4, LogsStayLogs DEF DeliverDC
<1>5. CASE Crash
  BY <1>5, LogsStayLogs DEF Crash
<1>6. CASE CreateRouteObject
  BY <1>6 DEF CreateRouteObject, CreateObject
<1>7. CASE FindHost \/ GiveUp \/ LookUpTag \/ LookUpLocalTag \/ CreateTag
  BY <1>7 DEF FindHost, GiveUp, Found, LookUpTag, LookUpLocalTag, CreateTag
<1>8. CASE ReadKieApp \/ RejectAuth \/ RequestRoute \/ Recheck \/ SaveKieApp
  BY <1>8 DEF ReadKieApp, RejectAuth, RequestRoute, Recheck, SaveKieApp
<1>9. CASE LookUpFails \/ CreateTagFails \/ RequestRouteFails \/ CallFails \/ SaveFails
  BY <1>9 DEF LookUpFails, CreateTagFails, RequestRouteFails, CallFails, SaveFails
<1>10. CASE DeliverRoute \/ RetryExpires \/ Resync
  BY <1>10 DEF DeliverRoute, RetryExpires, Resync
<1>11. CASE RouterAssignsHost \/ UserEdits \/ UserDeletesRoute \/ RegistryChanges
  BY <1>11 DEF RouterAssignsHost, UserEdits, UserDeletesRoute, RegistryChanges
<1> QED
  BY <1>1, <1>2, <1>3, <1>4, <1>5, <1>6, <1>7, <1>8, <1>9, <1>10, <1>11
     DEF Next, Operator, Failure, Runtime, Environment

\* Only a pass that has found or created the tag takes the KieApp's namespace.
LEMMA PassStaysBacked ==
    ASSUME TypeOK, Backed, Next
    PROVE  pass'.namespace = "local" => "local" \in tags'
<1> USE DEF cluster, Elsewhere
<1> DEFINE Kept == pass'.namespace \in {pass.namespace, None, "openshift"}
<1> SUFFICES Kept \/ "local" \in tags'
  <2>1. None # "local"
    BY SentinelAssumption DEF SentinelAssumption, Namespaces
  <2> QED
    BY <2>1, OwnTagsStay DEF Backed
<1> /\ pass \in [asked : KieAppSpec \cup {None}, current : BOOLEAN,
                host : Hosts \cup {ApplicationName, NoHost},
                namespace : Namespaces \cup {None}]
    /\ NoPass.namespace = None
  BY DEF TypeOK, NoPass
<1>1. CASE LookUpTag \/ CreateTagFails
  BY <1>1 DEF LookUpTag, CreateTagFails, Use
<1>2. CASE LookUpLocalTag \/ CreateTag
  BY <1>2 DEF LookUpLocalTag, CreateTag, Use
<1>3. CASE FindHost \/ GiveUp
  BY <1>3 DEF FindHost, GiveUp, Found
<1>4. CASE ReadKieApp
  BY <1>4 DEF ReadKieApp, NoPass
<1>5. CASE RejectAuth \/ SaveKieApp \/ Recheck \/ SaveFails \/ CallFails
  BY <1>5 DEF RejectAuth, SaveKieApp, Recheck, SaveFails, CallFails, Fail, EndPass
<1>6. CASE CreateDC
  BY <1>6 DEF CreateDC, CreateObject, Fail, EndPass
<1>7. CASE CreateRouteObject
  BY <1>7 DEF CreateRouteObject, CreateObject, Fail, EndPass
<1>8. CASE UpdateDC
  BY <1>8 DEF UpdateDC, Fail, EndPass
<1>9. CASE RequestRoute \/ RequestRouteFails \/ LookUpFails
  BY <1>9 DEF RequestRoute, RequestRouteFails, LookUpFails
<1>10. CASE Crash
  BY <1>10 DEF Crash
<1>11. CASE Runtime
  BY <1>11 DEF Runtime, DeliverRoute, DeliverDC, RetryExpires, Resync
<1>12. CASE UserEdits
  BY <1>12 DEF UserEdits
<1>13. CASE RouterAssignsHost \/ UserDeletesRoute \/ UserTampersWithDC \/ RegistryChanges
  BY <1>13 DEF RouterAssignsHost, UserDeletesRoute, UserTampersWithDC, RegistryChanges
<1> QED
  BY <1>1, <1>2, <1>3, <1>4, <1>5, <1>6, <1>7, <1>8, <1>9, <1>10, <1>11, <1>12,
     <1>13
     DEF Next, Operator, Failure, Environment

\* A trigger on the KieApp's own namespace is never left without a tag, although
\* ensureImageStream's error is dropped and its namespace is used.
THEOREM TriggersAreBacked == Spec => []LocalTriggersAreBacked
<1>1. TypeOK /\ Init => Backed
  <2> SUFFICES ASSUME Init PROVE Backed
    OBVIOUS
  <2>1. <<Absent>> \in Seq(Backable)
    BY DEF Backable
  <2>2. pass.namespace # "local"
    BY SentinelAssumption DEF Init, NoPass, SentinelAssumption, Namespaces
  <2> QED
    BY <2>1, <2>2 DEF Init, Backed
<1>2. TypeOK /\ Backed /\ [Next]_vars => Backed'
  <2> SUFFICES ASSUME TypeOK, Backed, [Next]_vars PROVE Backed'
    OBVIOUS
  <2>1. CASE Next
    <3>1. dc' \in Seq(Backable')
      BY <2>1, DCStaysBackable, OwnTagsStay, StillBackable
    <3> QED
      BY <2>1, <3>1, PassStaysBacked DEF Backed
  <2>2. CASE UNCHANGED vars
    BY <2>2 DEF vars, Backed, Backable
  <2> QED
    BY <2>1, <2>2
<1>3. TypeOK /\ Backed => LocalTriggersAreBacked
  <2> SUFFICES ASSUME TypeOK, Backed PROVE LocalTriggersAreBacked
    OBVIOUS
  <2>1. Api(dc) \in Backable
    BY LogsStayLogs DEF TypeOK, Backed
  <2> QED
    BY <2>1 DEF LocalTriggersAreBacked, Backable
<1> QED
  BY <1>1, <1>2, <1>3, TypeCorrect, PTL DEF Spec

-----------------------------------------------------------------------------
(* Hosts in place, without the resync *)

LEMMA LogGrows ==
    ASSUME NEW S, NEW log \in Seq(S), log # <<>>, NEW x \in S
    PROVE  ~Delivered(Append(log, x))
<1>1. Len(Append(log, x)) = Len(log) + 1 /\ Len(log) \in Nat \ {0}
  OBVIOUS
<1> QED
  BY <1>1 DEF Delivered

LEMMA LogDelivered ==
    ASSUME NEW S, NEW log \in Seq(S), log # <<>>, Delivered(log)
    PROVE  Cached(log) = Api(log)
BY DEF Delivered, Cached, Api

HostOf(found) == IF found \in {NoHost, Absent} THEN ApplicationName ELSE found

\* If no request has been queued since the pass began, it is about the
\* specification that is asked for.
SpecKnown == pc # "idle" /\ ~dirty => pass.asked = asked

\* If no event of the route either is on its way or has queued a request, the pass
\* has the route's host in hand, and comes to update deployment configs only with
\* a route.
HostKnown ==
    ~dirty /\ Delivered(route) =>
        /\ pc \in {"lookup", "lookupLocal", "createTag", "createDC", "createRoute",
                   "update", "recheck", "save"} => pass.host = HostOf(Api(route))
        /\ pc \in {"update", "recheck", "save"} => Api(route) # Absent

\* Likewise it comes to update a deployment config only if there is one, and
\* leaves it only with the host name that it wants.
DCKnown ==
    ~dirty /\ Delivered(dc) =>
        /\ pc \in {"createRoute", "update", "recheck", "save"} => Api(dc) # Absent
        /\ pc = "recheck" => Api(dc).hostname = Wanted.hostname

Known == SpecKnown /\ HostKnown /\ DCKnown /\ HostsNeedNoResync

\* A request that is queued will be looked into.
LEMMA QueuedIsKnown == ASSUME dirty' PROVE Known'
BY DEF Known, SpecKnown, HostKnown, DCKnown, HostsNeedNoResync, AtRest

\* So will one that is to be retried.
LEMMA RetriedIsKnown == ASSUME pc' = "idle", retry' PROVE Known'
BY DEF Known, SpecKnown, HostKnown, DCKnown, HostsNeedNoResync, AtRest

LEMMA FailIsKnown == ASSUME Fail PROVE Known'
BY RetriedIsKnown DEF Fail, EndPass

\* An event on its way will be looked into, too.
LEMMA EventIsKnown ==
    ASSUME TypeOK, Known, UNCHANGED <<asked, shown, pc, pass, dirty, retry>>,
           route' = route \/ ~Delivered(route'), dc' = dc \/ ~Delivered(dc')
    PROVE  Known'
<1>1. SpecKnown'
  BY DEF Known, SpecKnown
<1>2. HostKnown'
  BY DEF Known, HostKnown
<1>3. DCKnown'
  BY DEF Known, DCKnown, Wanted
<1>4. HostsNeedNoResync'
  BY DEF Known, HostsNeedNoResync, HostsInPlace, AtRest
<1> QED
  BY <1>1, <1>2, <1>3, <1>4 DEF Known

\* A pass that goes on is not at rest.
LEMMA GoingOn == ASSUME pc' # "idle" PROVE HostsNeedNoResync'
BY DEF HostsNeedNoResync, AtRest

\* What a pass without interference leaves is in place.
LEMMA RecheckedIsInPlace ==
    ASSUME TypeOK, Known, pc = "recheck", shown = ConsoleHost,
           ~dirty, Delivered(route), Delivered(dc), Api(route) # NoHost
    PROVE  HostsInPlace
<1>1. pass.host = HostOf(Api(route)) /\ Api(route) # Absent
  BY DEF Known, HostKnown
<1>2. Api(dc) # Absent /\ Api(dc).hostname = Wanted.hostname
  BY DEF Known, DCKnown
<1>3. pass.asked = asked
  BY DEF Known, SpecKnown
<1>4. Api(route) \in Hosts
  <2>1. Api(route) \in Hosts \cup {NoHost, Absent}
    BY LogsStayLogs DEF TypeOK
  <2> QED
    BY <1>1, <2>1
<1>5. pass.host = Api(route) /\ pass.host # ApplicationName
  BY <1>1, <1>4, HostsAssumption DEF HostOf, HostsAssumption
<1>6. shown = <<"https", Api(route)>>
  BY <1>5 DEF ConsoleHost
<1>7. asked.auth.sso # "none" =>
          Api(dc).hostname = IF asked.hostname = NoHost THEN Api(route) ELSE asked.hostname
  BY <1>2, <1>3, <1>5 DEF Wanted, ConfigureHostname
<1> QED
  BY <1>2, <1>4, <1>6, <1>7 DEF HostsInPlace

LEMMA PassStaysKnown ==
    ASSUME TypeOK, Known, Operator
    PROVE  Known'
<1> USE DEF cluster, Elsewhere
<1> /\ route \in Seq(Route) /\ route # <<>>
    /\ dc \in Seq(Deployment \cup {Absent}) /\ dc # <<>>
  BY DEF TypeOK, Route
<1>1. CASE ReadKieApp
  <2>1. /\ pc' = "route" /\ pass'.asked = asked /\ UNCHANGED <<asked, route, dc>>
    BY <1>1 DEF ReadKieApp, NoPass
  <2> QED
    BY <2>1, GoingOn DEF Known, SpecKnown, HostKnown, DCKnown
<1>2. CASE RejectAuth
  BY <1>2, FailIsKnown DEF RejectAuth
<1>3. CASE RequestRoute
  <2>1. /\ pc = "route" /\ pc' = "host" /\ UNCHANGED <<asked, pass, dirty, dc>>
    BY <1>3 DEF RequestRoute
  <2> QED
    BY <2>1, GoingOn DEF Known, SpecKnown, HostKnown, DCKnown
<1>4. CASE FindHost \/ GiveUp
  <2> DEFINE host == IF Cached(route) = Absent THEN NoHost ELSE Cached(route)
  <2>1. /\ pc = "host" /\ pc' = "lookup" /\ UNCHANGED <<asked, dirty, route, dc>>
        /\ pass' = [pass EXCEPT !.host = IF host = NoHost THEN ApplicationName ELSE host]
    BY <1>4 DEF FindHost, GiveUp, Found
  <2>2. Delivered(route) =>
            (IF host = NoHost THEN ApplicationName ELSE host) = HostOf(Api(route))
    BY LogDelivered DEF HostOf
  <2> HIDE DEF host
  <2>3. /\ pass'.asked = pass.asked
        /\ pass'.host = IF host = NoHost THEN ApplicationName ELSE host
    BY <2>1 DEF TypeOK
  <2>4. HostKnown'
    BY <2>1, <2>2, <2>3 DEF HostKnown
  <2> QED
    BY <2>1, <2>3, <2>4, GoingOn DEF Known, SpecKnown, DCKnown
<1>5. CASE LookUpTag \/ LookUpLocalTag \/ CreateTag
  <2>1. /\ pc \in {"lookup", "lookupLocal", "createTag"}
        /\ pc' \in {"lookupLocal", "createTag", "createDC"}
        /\ pass' = [pass EXCEPT !.namespace = pass'.namespace]
        /\ UNCHANGED <<asked, dirty, route, dc>>
    BY <1>5 DEF LookUpTag, LookUpLocalTag, CreateTag, Use, TypeOK
  <2>2. pass'.asked = pass.asked /\ pass'.host = pass.host
    BY <2>1 DEF TypeOK
  <2> QED
    BY <2>1, <2>2, GoingOn DEF Known, SpecKnown, HostKnown, DCKnown
<1>6. CASE CreateDC
  <2>1. CASE Fail
    BY <2>1, FailIsKnown
  <2>2. CASE ~Fail
    <3>1. /\ pc = "createDC" /\ pc' = "createRoute"
          /\ UNCHANGED <<asked, dirty, pass, route>>
          /\ \/ Cached(dc) # Absent /\ dc' = dc
             \/ dc' = Append(dc, Wanted)
      BY <1>6, <2>2 DEF CreateDC, CreateObject
    <3>2. Delivered(dc') => Api(dc') # Absent
      <4>1. Wanted \in Deployment \cup {Absent}
        BY <3>1, TypeParts, WantedIsADeployment DEF Pass
      <4> QED
        BY <3>1, <4>1, LogGrows, LogDelivered
    <3> QED
      BY <3>1, <3>2, GoingOn DEF Known, SpecKnown, HostKnown, DCKnown
  <2> QED
    BY <2>1, <2>2
<1>7. CASE CreateRouteObject
  <2>1. CASE Fail
    BY <2>1, FailIsKnown
  <2>2. CASE ~Fail
    <3>1. /\ pc = "createRoute" /\ pc' = "update"
          /\ UNCHANGED <<asked, dirty, pass, dc>>
          /\ \/ Cached(route) # Absent /\ route' = route
             \/ CreateRoute
      BY <1>7, <2>2 DEF CreateRouteObject, CreateObject
    <3>2. (route' = route /\ Cached(route) # Absent) \/ ~Delivered(route')
      <4>1. CASE CreateRoute
        <5>1. PICK host \in Hosts \cup {NoHost} : route' = Append(route, host)
          BY <4>1 DEF CreateRoute
        <5> QED
          BY <5>1, LogGrows DEF Route
      <4> QED
        BY <3>1, <4>1
    <3>3. HostKnown'
      BY <3>1, <3>2, LogDelivered DEF Known, HostKnown
    <3> QED
      BY <3>1, <3>3, GoingOn DEF Known, SpecKnown, DCKnown
  <2> QED
    BY <2>1, <2>2
<1>8. CASE UpdateDC
  <2>1. CASE Fail
    BY <2>1, FailIsKnown
  <2>2. CASE ~Fail
    <3>1. /\ pc = "update" /\ pc' \in {"recheck", "save"}
          /\ UNCHANGED <<asked, dirty, pass, route>>
          /\ \/ UpToDate /\ dc' = dc
             \/ dc' = Append(dc, Wanted)
      BY <1>8, <2>2 DEF UpdateDC
    <3>2. (UpToDate /\ dc' = dc) \/ ~Delivered(dc')
      <4>1. Wanted \in Deployment \cup {Absent}
        BY <3>1, TypeParts, WantedIsADeployment DEF Pass
      <4> QED
        BY <3>1, <4>1, LogGrows
    <3>3. Wanted' = Wanted
      BY <3>1 DEF Wanted
    <3>4. DCKnown'
      BY <3>1, <3>2, <3>3, LogDelivered DEF Known, DCKnown, UpToDate
    <3> QED
      BY <3>1, <3>4, GoingOn DEF Known, SpecKnown, HostKnown
  <2> QED
    BY <2>1, <2>2
<1>9. CASE Recheck
  <2>1. CASE shown = ConsoleHost
    <3>1. /\ pc = "recheck" /\ pc' = "idle"
          /\ UNCHANGED <<asked, dirty, shown, route, dc>>
      BY <1>9, <2>1 DEF Recheck, EndPass
    <3>2. HostsNeedNoResync'
      <4> SUFFICES ASSUME AtRest', (Api(route) # NoHost)'
                   PROVE  HostsInPlace'
        BY DEF HostsNeedNoResync
      <4>1. ~dirty /\ Delivered(route) /\ Delivered(dc) /\ Api(route) # NoHost
        BY <3>1 DEF AtRest
      <4>2. HostsInPlace
        BY <2>1, <3>1, <4>1, RecheckedIsInPlace
      <4> QED
        BY <3>1, <4>2 DEF HostsInPlace
    <3> QED
      BY <3>1, <3>2 DEF Known, SpecKnown, HostKnown, DCKnown
  <2>2. CASE shown # ConsoleHost /\ ~pass.current
    BY <1>9, <2>2, RetriedIsKnown DEF Recheck, EndPass
  <2>3. CASE shown # ConsoleHost /\ pass.current
    <3>1. /\ pc = "recheck" /\ pc' = "save"
          /\ UNCHANGED <<asked, dirty, shown, route, dc, pass>>
      BY <1>9, <2>3 DEF Recheck
    <3> QED
      BY <3>1, GoingOn DEF Known, SpecKnown, HostKnown, DCKnown
  <2> QED
    BY <2>1, <2>2, <2>3 DEF TypeOK
<1>10. CASE SaveKieApp
  BY <1>10, RetriedIsKnown DEF SaveKieApp, EndPass
<1> QED
  BY <1>1, <1>2, <1>3, <1>4, <1>5, <1>6, <1>7, <1>8, <1>9, <1>10 DEF Operator

LEMMA FailureStaysKnown ==
    ASSUME TypeOK, Known, Failure
    PROVE  Known'
<1> USE DEF cluster
<1>1. CASE LookUpFails
  <2>1. /\ pc \in {"lookup", "lookupLocal"} /\ pc' \in {"lookupLocal", "createTag"}
        /\ UNCHANGED <<asked, dirty, pass, route, dc>>
    BY <1>1 DEF LookUpFails
  <2> QED
    BY <2>1, GoingOn DEF Known, SpecKnown, HostKnown, DCKnown
<1>2. CASE CreateTagFails
  <2>1. /\ pc = "createTag" /\ pc' = "createDC"
        /\ pass' = [pass EXCEPT !.namespace = "openshift"]
        /\ UNCHANGED <<asked, dirty, route, dc>>
    BY <1>2 DEF CreateTagFails, Use
  <2>2. pass'.asked = pass.asked /\ pass'.host = pass.host
    BY <2>1 DEF TypeOK
  <2> QED
    BY <2>1, <2>2, GoingOn DEF Known, SpecKnown, HostKnown, DCKnown
<1>3. CASE RequestRouteFails
  <2>1. pc = "route" /\ pc' = "host" /\ UNCHANGED <<asked, dirty, pass, route, dc>>
    BY <1>3 DEF RequestRouteFails
  <2> QED
    BY <2>1, GoingOn DEF Known, SpecKnown, HostKnown, DCKnown
<1>4. CASE CallFails \/ SaveFails
  BY <1>4, FailIsKnown, RetriedIsKnown DEF CallFails, SaveFails, EndPass
<1>5. CASE Crash
  BY <1>5, QueuedIsKnown DEF Crash
<1> QED
  BY <1>1, <1>2, <1>3, <1>4, <1>5 DEF Failure

LEMMA EnvironmentStaysKnown ==
    ASSUME TypeOK, Known, Environment
    PROVE  Known'
<1> USE DEF cluster
<1> /\ route \in Seq(Route) /\ route # <<>>
    /\ dc \in Seq(Deployment \cup {Absent}) /\ dc # <<>>
  BY DEF TypeOK, Route
<1>1. CASE RouterAssignsHost
  <2>1. ~Delivered(route')
    BY <1>1, LogGrows DEF RouterAssignsHost, Route
  <2> QED
    BY <1>1, <2>1, EventIsKnown DEF RouterAssignsHost
<1>2. CASE UserDeletesRoute
  <2>1. ~Delivered(route')
    BY <1>2, LogGrows DEF UserDeletesRoute, Route
  <2> QED
    BY <1>2, <2>1, EventIsKnown DEF UserDeletesRoute
<1>3. CASE UserTampersWithDC
  <2>1. Api(dc) \in Deployment
    BY <1>3, LogsStayLogs DEF UserTampersWithDC
  <2>2. [Api(dc) EXCEPT !.hostname = NoHost] \in Deployment
    BY <2>1 DEF Deployment
  <2>3. PICK d \in Deployment \cup {Absent} : dc' = Append(dc, d)
    BY <1>3, <2>2 DEF UserTampersWithDC
  <2>4. ~Delivered(dc')
    BY <2>3, LogGrows
  <2> QED
    BY <1>3, <2>4, EventIsKnown DEF UserTampersWithDC
<1>4. CASE UserEdits
  BY <1>4, QueuedIsKnown DEF UserEdits
<1>5. CASE RegistryChanges
  BY <1>5, EventIsKnown DEF RegistryChanges
<1> QED
  BY <1>1, <1>2, <1>3, <1>4, <1>5 DEF Environment

\* Although GetRouteHost may give up or find a route without host, and neither that
\* nor a refused or failed call is remembered in a condition, every such pass is
\* followed by an event or a retry: once everything is at rest, the route's host is
\* in the deployment config and in the status, without the resync.
THEOREM HostsComeWithoutResync == Spec => []HostsNeedNoResync
<1>1. Init => Known
  BY DEF Init, Known, SpecKnown, HostKnown, DCKnown, HostsNeedNoResync, AtRest
<1>2. TypeOK /\ Known /\ [Next]_vars => Known'
  <2> SUFFICES ASSUME TypeOK, Known, [Next]_vars PROVE Known'
    OBVIOUS
  <2>1. CASE Runtime
    BY <2>1, QueuedIsKnown DEF Runtime, DeliverRoute, DeliverDC, RetryExpires, Resync
  <2>2. CASE UNCHANGED vars
    BY <2>2, EventIsKnown DEF vars
  <2> QED
    BY <2>1, <2>2, PassStaysKnown, FailureStaysKnown, EnvironmentStaysKnown DEF Next
<1>3. Known => HostsNeedNoResync
  BY DEF Known
<1> QED
  BY <1>1, <1>2, <1>3, TypeCorrect, PTL DEF Spec
=============================================================================
