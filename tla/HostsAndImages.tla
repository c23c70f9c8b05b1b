---------------------------- MODULE HostsAndImages ----------------------------
(***************************************************************************)
(* What newEnv asks of the cluster while it prepares one component of a     *)
(* KieApp, here the console: the host of its route (GetRouteHost), under    *)
(* which single sign-on will know it (ConfigureHostname) and the status     *)
(* shows it, and the image stream tag that its deployment config follows    *)
(* (ensureImageStream).  What both leave to chance when a call fails or a   *)
(* cache is slow goes into the deployment config of that pass.              *)
(*                                                                          *)
(* Route and deployment config are logs as in KieAppReconcile: the head is  *)
(* what the informer cache holds, the last entry what the API server holds. *)
(* Image stream tags are read without a cache.  That module also has what   *)
(* is left out here: stale copies of the KieApp, the several conditions,    *)
(* and other objects.  The keystore, which is created once and never        *)
(* updated, is a secret of KieAppReconcile.                                 *)
(***************************************************************************)
EXTENDS Naturals, Sequences

CONSTANTS
    Hosts,              \* what the router assigns
    ApplicationName,    \* what stands in for a host that is not found
    GivenHosts,         \* what users put into hostnameHTTPS
    NoHost, Absent, None,
    Auths,              \* settings users choose from Auth
    Disturbances,       \* which of DisturbanceKinds happen at all
    MaxDisturbances     \* bound of the model: disturbances in a run

DisturbanceKinds == {"edit", "tamper", "registry", "failure", "crash"}

\* Spec.Auth, as far as configureAuth looks at it.
Auth == [sso : {"none", "incomplete", "complete"},
         ldap : {"none", "incomplete", "complete"}, roleMapper : BOOLEAN]

ASSUME HostsAssumption ==
    /\ NoHost \notin Hosts \cup GivenHosts \cup {ApplicationName}
    /\ ApplicationName \notin Hosts \cup GivenHosts
    /\ Auths \subseteq Auth
    /\ Disturbances \subseteq DisturbanceKinds
    /\ MaxDisturbances \in Nat

VARIABLES
    asked,      \* the KieApp's specification
    shown,      \* its Status.ConsoleHost
    route,      \* log of the route: its host
    dc,         \* log of the deployment config
    tags,       \* where the image stream tag exists
    pc,         \* the next call of the running pass
    pass,       \* what the pass has in hand
    dirty,      \* the request is in the work queue
    retry,      \* the request waits for AddRateLimited's delay
    budget      \* disturbances left

vars == <<asked, shown, route, dc, tags, pc, pass, dirty, retry, budget>>
cluster == <<route, dc, tags>>

-----------------------------------------------------------------------------
(* Data *)

\* "openshift" is the namespace the templates name, "local" the KieApp's own.
Namespaces == {"openshift", "local"}

KieAppSpec == [auth : Auths, hostname : GivenHosts \cup {NoHost}, registry : BOOLEAN]

ASSUME SentinelAssumption == None \notin KieAppSpec \cup Namespaces

Url == {<<"https", h>> : h \in Hosts} \cup {<<"http", ApplicationName>>}

\* Of a deployment config: HOSTNAME_HTTPS, which is None without single sign-on,
\* and the namespace of the image change trigger.
Deployment ==
    [hostname : Hosts \cup GivenHosts \cup {ApplicationName, NoHost, None},
     namespace : Namespaces]

Cached(log) == Head(log)
Api(log) == log[Len(log)]
Delivered(log) == Len(log) = 1

NoPass == [asked |-> None, current |-> TRUE, host |-> NoHost, namespace |-> None]

TypeOK ==
    /\ asked \in KieAppSpec
    /\ shown \in Url \cup {None}
    /\ route \in Seq(Hosts \cup {NoHost, Absent}) /\ route # <<>>
    /\ dc \in Seq(Deployment \cup {Absent}) /\ dc # <<>>
    /\ tags \subseteq Namespaces
    /\ pc \in {"idle", "route", "host", "lookup", "lookupLocal", "createTag",
               "createDC", "createRoute", "update", "recheck", "save"}
    /\ pass \in [asked : KieAppSpec \cup {None}, current : BOOLEAN,
                 host : Hosts \cup {ApplicationName, NoHost},
                 namespace : Namespaces \cup {None}]
    /\ pass.asked = None <=> pc = "idle"
    /\ pc \in {"createDC", "createRoute", "update"} => pass.namespace \in Namespaces
    /\ dirty \in BOOLEAN /\ retry \in BOOLEAN
    /\ budget \in 0..MaxDisturbances

\* A user has just created the KieApp; the image stream is in place, or not.
Init ==
    /\ asked \in KieAppSpec
    /\ shown = None
    /\ route = <<Absent>> /\ dc = <<Absent>>
    /\ tags \in SUBSET {"openshift"}
    /\ pc = "idle" /\ pass = NoPass
    /\ dirty = TRUE /\ retry = FALSE
    /\ budget = MaxDisturbances

Disturb(kind) ==
    /\ kind \in Disturbances
    /\ budget > 0
    /\ budget' = budget - 1

-----------------------------------------------------------------------------
(* What a pass derives *)

\* configureAuth: the reasons to reject the settings.
Rejected(auth) ==
    \/ auth.sso # "none" /\ auth.ldap # "none"
    \/ auth.sso = "none" /\ auth.ldap = "none" /\ auth.roleMapper
    \/ auth.sso = "incomplete"
    \/ auth.ldap = "incomplete"

\* ConfigureHostname: for single sign-on, unless the user has given one.
ConfigureHostname(spec, host) ==
    CASE spec.auth.sso = "none" -> None
      [] spec.hostname # NoHost -> spec.hostname
      [] OTHER -> host

Wanted == [hostname |-> ConfigureHostname(pass.asked, pass.host),
           namespace |-> pass.namespace]

\* newEnv, of Status.ConsoleHost.
ConsoleHost ==
    <<IF pass.host = ApplicationName THEN "http" ELSE "https", pass.host>>

-----------------------------------------------------------------------------
(* The pass *)

Elsewhere == UNCHANGED <<asked, dirty, budget>>

EndPass(requeue) ==
    /\ pc' = "idle"
    /\ pass' = NoPass
    /\ retry' = (retry \/ requeue)

\* UpdateObj(instance), refused if a user has changed the KieApp meanwhile.
Write == shown' = IF pass.current /\ pass.host # NoHost THEN ConsoleHost ELSE shown

\* newEnv and what follows it return an error: setFailedStatus writes the KieApp.
Fail == Write /\ EndPass(TRUE)

ReadKieApp ==
    /\ pc = "idle" /\ dirty
    /\ dirty' = FALSE
    /\ pass' = [NoPass EXCEPT !.asked = asked]
    /\ pc' = "route"
    /\ UNCHANGED <<asked, shown, cluster, retry, budget>>

RejectAuth ==
    /\ pc = "route" /\ Rejected(pass.asked.auth)
    /\ Fail
    /\ Elsewhere /\ UNCHANGED cluster

\* The host is there at once, or some time later.
CreateRoute ==
    \E host \in Hosts \cup {NoHost} : route' = Append(route, host)

\* GetRouteHost: a route the cache does not know is created; that it exists
\* already is only logged.
RequestRoute ==
    /\ pc = "route" /\ ~Rejected(pass.asked.auth)
    /\ IF Cached(route) = Absent /\ Api(route) = Absent
       THEN CreateRoute ELSE UNCHANGED route
    /\ pc' = "host"
    /\ Elsewhere /\ UNCHANGED <<shown, dc, tags, pass, retry>>

Found(host) ==
    /\ pass' = [pass EXCEPT !.host = IF host = NoHost THEN ApplicationName ELSE host]
    /\ pc' = "lookup"
    /\ Elsewhere /\ UNCHANGED <<shown, cluster, retry>>

\* The loop ends with the first Get that finds the route, be it without host.
FindHost == pc = "host" /\ Cached(route) # Absent /\ Found(Cached(route))

\* Sixty rounds, and the cache does not know the route.
GiveUp == pc = "host" /\ Cached(route) = Absent /\ Found(NoHost)

Use(namespace) ==
    /\ pass' = [pass EXCEPT !.namespace = namespace]
    /\ pc' = "createDC"

\* ensureImageStream: with a registry only the KieApp's own namespace counts.
LookUpTag ==
    /\ pc = "lookup"
    /\ IF pass.asked.registry THEN pc' = "lookupLocal" /\ UNCHANGED pass
       ELSE IF "openshift" \in tags THEN Use("openshift")
       ELSE pc' = "lookupLocal" /\ UNCHANGED pass
    /\ Elsewhere /\ UNCHANGED <<shown, cluster, retry>>

LookUpLocalTag ==
    /\ pc = "lookupLocal"
    /\ IF "local" \in tags THEN Use("local") ELSE pc' = "createTag" /\ UNCHANGED pass
    /\ Elsewhere /\ UNCHANGED <<shown, cluster, retry>>

\* Deviation: without a registry nothing is created.
CreateTagInRegistry ==
    /\ pc = "createTag"
    /\ IF pass.asked.registry THEN tags' = tags \cup {"local"} /\ Use("local")
       ELSE UNCHANGED tags /\ Use("openshift")
    /\ Elsewhere /\ UNCHANGED <<shown, route, dc, retry>>

\* createLocalImageTag: AlreadyExists will do.
CreateTag ==
    /\ pc = "createTag"
    /\ tags' = tags \cup {"local"}
    /\ Use("local")
    /\ Elsewhere /\ UNCHANGED <<shown, route, dc, retry>>

\* createCustomObject, first for the deployment config, last for the route: what
\* the cache knows is left as it is, what only the API server knows is an error.
CreateObject(at, log, Created, to) ==
    /\ pc = at
    /\ IF Cached(log) # Absent
       THEN pc' = to /\ UNCHANGED <<log, pass, retry, shown>>
       ELSE IF Api(log) # Absent
       THEN Fail /\ UNCHANGED log
       ELSE Created /\ pc' = to /\ UNCHANGED <<pass, retry, shown>>
    /\ Elsewhere /\ UNCHANGED tags

CreateDC ==
    /\ CreateObject("createDC", dc, dc' = Append(dc, Wanted), "createRoute")
    /\ UNCHANGED route

CreateRouteObject ==
    /\ CreateObject("createRoute", route, CreateRoute, "update")
    /\ UNCHANGED dc

\* Deviation: environment variables are not compared.
UpToDateAlways == TRUE

\* Deviation: lists of environment variables always count as different.
UpToDateNever == Cached(dc) = Absent

\* dcUpdateCheck compares environment variables, and no triggers.
UpToDate == Cached(dc) = Absent \/ Cached(dc).hostname = Wanted.hostname

\* List and Update; whatever differs, the whole of the deployment config is sent.
\* With dcUpdated and SetProvisioning the KieApp is saved, else the pass goes on.
UpdateDC ==
    /\ pc = "update"
    /\ CASE UpToDate -> pc' = "recheck" /\ UNCHANGED <<dc, pass, retry, shown>>
         [] ~UpToDate /\ Delivered(dc) ->
               /\ dc' = Append(dc, Wanted)
               /\ pc' \in {"save", "recheck"}
               /\ UNCHANGED <<pass, retry, shown>>
         [] OTHER -> Fail /\ UNCHANGED dc
    /\ Elsewhere /\ UNCHANGED <<route, tags>>

\* hasStatusChanges, and the versions compared.
Recheck ==
    /\ pc = "recheck"
    /\ CASE shown = ConsoleHost -> EndPass(FALSE)
         [] shown # ConsoleHost /\ ~pass.current -> EndPass(TRUE)
         [] OTHER -> pc' = "save" /\ UNCHANGED <<pass, retry>>
    /\ Elsewhere /\ UNCHANGED <<shown, cluster>>

SaveKieApp ==
    /\ pc = "save"
    /\ Write /\ EndPass(TRUE)
    /\ Elsewhere /\ UNCHANGED cluster

-----------------------------------------------------------------------------
(* Calls that fail, and a crash *)

\* checkImageStreamTag takes any error for a tag that does not exist.
LookUpFails ==
    /\ Disturb("failure")
    /\ \/ pc = "lookup" /\ ~pass.asked.registry /\ pc' = "lookupLocal"
       \/ pc = "lookupLocal" /\ pc' = "createTag"
    /\ UNCHANGED <<asked, shown, cluster, pass, dirty, retry>>

\* Deviation: the KieApp's namespace is returned with the error.
CreateTagFailsLocally ==
    /\ Disturb("failure")
    /\ pc = "createTag"
    /\ \/ UNCHANGED tags
       \/ tags' = tags \cup {"local"}
    /\ Use("local")
    /\ UNCHANGED <<asked, shown, route, dc, dirty, retry>>

\* Deviation: no namespace is returned with the error.
CreateTagFailsEmpty ==
    /\ Disturb("failure")
    /\ pc = "createTag"
    /\ UNCHANGED tags
    /\ Use(None)
    /\ UNCHANGED <<asked, shown, route, dc, dirty, retry>>

\* The error is dropped, and the template's namespace is used.
CreateTagFails ==
    /\ Disturb("failure")
    /\ pc = "createTag"
    /\ \/ UNCHANGED tags
       \/ tags' = tags \cup {"local"}
    /\ Use("openshift")
    /\ UNCHANGED <<asked, shown, route, dc, dirty, retry>>

\* Create of the route in GetRouteHost fails, which is only logged.
RequestRouteFails ==
    /\ Disturb("failure")
    /\ pc = "route" /\ ~Rejected(pass.asked.auth)
    /\ pc' = "host"
    /\ UNCHANGED <<asked, shown, cluster, pass, dirty, retry>>

\* Any other call returns an error; having taken effect, it looks like the steps
\* above followed by the failure of the next one.
CallFails ==
    /\ Disturb("failure")
    /\ pc \in {"createDC", "createRoute", "update", "recheck"}
    /\ Fail
    /\ UNCHANGED <<asked, cluster, dirty>>

SaveFails ==
    /\ Disturb("failure")
    /\ pc = "save"
    /\ EndPass(TRUE)
    /\ UNCHANGED <<asked, shown, cluster, dirty>>

\* The process restarts and lists its caches, which queues the request.
Crash ==
    /\ Disturb("crash")
    /\ route' = <<Api(route)>> /\ dc' = <<Api(dc)>>
    /\ pc' = "idle" /\ pass' = NoPass
    /\ dirty' = TRUE /\ retry' = FALSE
    /\ UNCHANGED <<asked, shown, tags>>

-----------------------------------------------------------------------------
(* controller-runtime *)

\* Both objects are owned by the KieApp, and their events queue its request.
DeliverRoute ==
    /\ ~Delivered(route)
    /\ route' = Tail(route)
    /\ dirty' = TRUE
    /\ UNCHANGED <<asked, shown, dc, tags, pc, pass, retry, budget>>

DeliverDC ==
    /\ ~Delivered(dc)
    /\ dc' = Tail(dc)
    /\ dirty' = TRUE
    /\ UNCHANGED <<asked, shown, route, tags, pc, pass, retry, budget>>

RetryExpires ==
    /\ retry
    /\ retry' = FALSE /\ dirty' = TRUE
    /\ UNCHANGED <<asked, shown, cluster, pc, pass, budget>>

AtRest == pc = "idle" /\ ~dirty /\ ~retry /\ Delivered(route) /\ Delivered(dc)

\* SyncPeriod.  Bound of the model: two hours are long, everything is at rest.
Resync ==
    /\ AtRest
    /\ dirty' = TRUE
    /\ UNCHANGED <<asked, shown, cluster, pc, pass, retry, budget>>

-----------------------------------------------------------------------------
(* Users and the platform *)

RouterAssignsHost ==
    /\ Api(route) = NoHost
    /\ \E host \in Hosts : route' = Append(route, host)
    /\ UNCHANGED <<asked, shown, dc, tags, pc, pass, dirty, retry, budget>>

UserEdits ==
    /\ Disturb("edit")
    /\ asked' \in KieAppSpec \ {asked}
    /\ dirty' = TRUE
    /\ pass' = [pass EXCEPT !.current = (pc = "idle")]
    /\ UNCHANGED <<shown, cluster, pc, retry>>

UserDeletesRoute ==
    /\ Disturb("tamper")
    /\ Api(route) # Absent
    /\ route' = Append(route, Absent)
    /\ UNCHANGED <<asked, shown, dc, tags, pc, pass, dirty, retry>>

\* A user deletes the deployment config, or empties the variable.
UserTampersWithDC ==
    /\ Disturb("tamper")
    /\ Api(dc) # Absent
    /\ \/ dc' = Append(dc, Absent)
       \/ dc' = Append(dc, [Api(dc) EXCEPT !.hostname = NoHost])
    /\ UNCHANGED <<asked, shown, route, tags, pc, pass, dirty, retry>>

\* The templates' image stream is installed, or removed.  The KieApp's own ones
\* stay.
RegistryChanges ==
    /\ Disturb("registry")
    /\ tags' = IF "openshift" \in tags THEN tags \ {"openshift"}
               ELSE tags \cup {"openshift"}
    /\ UNCHANGED <<asked, shown, route, dc, pc, pass, dirty, retry>>

-----------------------------------------------------------------------------

Operator ==
    \/ ReadKieApp \/ RejectAuth \/ RequestRoute \/ FindHost \/ GiveUp
    \/ LookUpTag \/ LookUpLocalTag \/ CreateTag
    \/ CreateDC \/ CreateRouteObject \/ UpdateDC \/ Recheck \/ SaveKieApp

Failure ==
    \/ LookUpFails \/ CreateTagFails \/ RequestRouteFails
    \/ CallFails \/ SaveFails \/ Crash

Runtime == DeliverRoute \/ DeliverDC \/ RetryExpires \/ Resync

Environment ==
    \/ RouterAssignsHost \/ UserEdits \/ UserDeletesRoute \/ UserTampersWithDC
    \/ RegistryChanges

Next == Operator \/ Failure \/ Runtime \/ Environment

Spec == Init /\ [][Next]_vars

(***************************************************************************)
(* The worker runs, informers deliver, delays end, the router assigns, and  *)
(* the manager resyncs.  Only TagsProvided relies on the last of these:     *)
(* HostsNeedNoResync is an invariant.                                       *)
(***************************************************************************)
Fairness ==
    /\ WF_vars(Operator)
    /\ WF_vars(DeliverRoute) /\ WF_vars(DeliverDC)
    /\ WF_vars(RetryExpires) /\ WF_vars(Resync)
    /\ WF_vars(RouterAssignsHost)

FairSpec == Spec /\ Fairness

-----------------------------------------------------------------------------
(* Properties *)

HostsInPlace ==
    /\ Api(route) \in Hosts
    /\ shown = <<"https", Api(route)>>
    /\ Api(dc) # Absent
    /\ asked.auth.sso # "none" =>
          Api(dc).hostname =
              IF asked.hostname = NoHost THEN Api(route) ELSE asked.hostname

\* "If the hostnameHTTPS is not provided for some client it will be retrieved from
\* the generated route hostname" (README.md:89).  GetRouteHost may give up, or
\* find a route without host, and the pass goes on with the application's name.
\* Whenever everything has come to rest all the same, the deployment config and
\* the status have the route's host, without waiting for the resync.
HostsNeedNoResync ==
    AtRest /\ ~Rejected(asked.auth) /\ Api(route) # NoHost => HostsInPlace

\* And it does come to rest: an update for the sake of the host, its event, and
\* the save of the status do not lead to another one for ever.
HostsSettle ==
    <>[]~Rejected(asked.auth) =>
        /\ <>[]HostsInPlace
        /\ <>[][UNCHANGED <<shown, route, dc>>]_<<shown, route, dc>>

\* ensureImageStream's error is ignored while its namespace goes into the trigger:
\* a trigger on the KieApp's own namespace is never left without a tag.
LocalTriggersAreBacked ==
    Api(dc) # Absent /\ Api(dc).namespace = "local" => "local" \in tags

\* "If required imagestreams are missing in both the 'openshift' and local
\* namespaces, the operator will create said imagestreams locally" (the CRD, of
\* imageRegistry): in the end there is one, although a failed attempt starts no
\* pass, nor does an image stream that is removed.
TagsProvided == <>[](Rejected(asked.auth) \/ tags # {})
=============================================================================
