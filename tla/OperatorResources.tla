--------------------------- MODULE OperatorResources ---------------------------
(***************************************************************************)
(* What every pass of Reconcile does before it looks at its KieApp: see to  *)
(* the config maps with the templates, keeping a backup of what users made  *)
(* of them (CreateConfigMaps), deploy the console and link it from the      *)
(* ClusterServiceVersion (deploy_ui.go).  The KieApp's own part, module     *)
(* KieAppReconcile, is here the one step that renders the templates.        *)
(*                                                                          *)
(* Resources are logs (VersionLogs).  Almost no failure in this part ends   *)
(* the pass or queues another one: what is not done waits for an event, or  *)
(* for the resync that the manager starts every two hours (main.go).        *)
(***************************************************************************)
EXTENDS VersionLogs, FiniteSets

CONSTANTS
    ConfigMaps,         \* the names ConfigMapsFromFile derives from config/
    ConsoleOrder,       \* the console's objects, in the order they are created
    Route, RouteName,   \* the last of them, and the host that is not one yet
    ServiceVersion,     \* the ClusterServiceVersion
    Hosts, NoHost,      \* what the router assigns
    MaxOperator,        \* bound of the model: versions of the operator
    UserData,           \* what users put into a config map
    ConsoleLink,        \* the name "Installer"
    OtherLinks,         \* names of links that are not the operator's
    None,
    Disturbances,       \* which of DisturbanceKinds happen at all
    MaxDisturbances     \* bound of the model: disturbances in a run

DisturbanceKinds ==
    {"edit", "delete", "republish", "upgrade", "failure", "crash"}

Operators == 1..MaxOperator
Backups == ConfigMaps \X Operators
ConsoleObjects == {ConsoleOrder[i] : i \in 1..Len(ConsoleOrder)}
Resources == ConfigMaps \cup Backups \cup ConsoleObjects \cup {ServiceVersion}

ASSUME ResourcesAssumption ==
    /\ MaxOperator \in Nat \ {0}
    /\ ConsoleOrder \in Seq(ConsoleObjects) /\ ConsoleOrder # <<>>
    /\ ConsoleOrder[Len(ConsoleOrder)] = Route
    /\ ConfigMaps \cap ConsoleObjects = {} /\ Backups \cap ConsoleObjects = {}
    /\ ConfigMaps \cap Backups = {}
    /\ ServiceVersion \notin ConfigMaps \cup Backups \cup ConsoleObjects
    /\ UserData # {}
    /\ NoHost \notin Hosts
    /\ ConsoleLink \notin OtherLinks
    /\ UserData \cap Operators = {}
    /\ Disturbances \subseteq DisturbanceKinds
    /\ MaxDisturbances \in Nat

VARIABLES
    store,      \* log of every resource
    operator,   \* version of the running operator, and its deployment
    requests,   \* work queue: "operator" is any request that names no KieApp
    retry,      \* the KieApp's request waits for the rate limiter
    rendered,   \* the templates the KieApp's objects were last made from
    pc,         \* the next call of the running pass
    pass,       \* what the pass has in hand
    budget      \* disturbances left

vars == <<store, operator, requests, retry, rendered, pc, pass, budget>>

-----------------------------------------------------------------------------
(* Data *)

\* Data of a config map: as a version of the operator ships it, or a user's.
\* BinaryData, which no shipped template has, is left out.
Templates == Operators \cup UserData

Link == [name : OtherLinks \cup {ConsoleLink}, host : Hosts \cup {NoHost}]

\* Links in their order, and how often ConsoleDescription is in the description.
Publication == [links : Seq(Link), described : Nat]

Content(r) ==
    CASE r \in ConfigMaps \cup Backups -> Templates
      [] r = Route -> Hosts \cup {NoHost}
      [] r = ServiceVersion -> Publication
      [] OTHER -> {None}

\* The owner is the operator's deployment; backups and the CSV have none.
Deployments == Operators
Entry(r) == [version : Versions \cup {None}, owner : Deployments \cup {None}, content : Content(r)]

ASSUME SentinelsAssumption ==
    \A r \in Resources : Absent \notin Entry(r)

AllDelivered == \A r \in Resources : Delivered(store[r])

\* Backups and the CSV are updated, so that their versions matter.
NewVersions(r) ==
    IF r \in ConfigMaps \cup ConsoleObjects THEN {None}
    ELSE FreshVersions(VersionsIn(store[r]) \cup {pass.version})

\* What the running operator would create.
Shipped == operator.version

NoPass == [request |-> None, todo |-> {}, existing |-> None, name |-> None,
           version |-> None, content |-> None, next |-> 1]

TypeOK ==
    /\ \A r \in Resources :
          store[r] \in Seq(Entry(r) \cup {Absent}) /\ store[r] # <<>>
    /\ operator \in [version : Operators, deployment : Deployments]
    /\ requests \in Seq({"operator", "kieapp"}) /\ Len(requests) <= 2
    /\ retry \in BOOLEAN
    /\ rendered \in [ConfigMaps -> Templates \cup {None}]
    /\ pc \in {"idle", "configMaps", "backup", "overwrite", "console", "route",
               "csv", "link", "kieapp"}
    /\ pass.request \in {"operator", "kieapp", None}
    /\ pass.todo \subseteq ConfigMaps
    /\ pass.next \in 1..Len(ConsoleOrder) + 1
    /\ pc \in {"backup", "overwrite"} => pass.name \in Backups
    /\ pc \in {"overwrite", "link"} =>
          pass.content \in Content(IF pc = "link" THEN ServiceVersion ELSE pass.name)
    /\ budget \in 0..MaxDisturbances

EveryRequest == <<"operator", "kieapp">>

\* Deviation: a request may be queued twice.
QueueAgain(request) == Append(requests, request)

\* Add: a request that is queued is not queued twice.
Queue(request) ==
    IF \E i \in DOMAIN requests : requests[i] = request THEN requests
    ELSE Append(requests, request)

\* The operator's CSV as the catalog has it.
FirstPublications ==
    {[version |-> v, owner |-> None, content |-> [links |-> <<>>, described |-> 0]] :
        v \in FreshVersions({})}

\* The operator starts beside a KieApp, for the first time, or after a crash in
\* which a user edited the config maps it had created; which of the user's data is
\* in them makes no difference.
Init ==
    /\ LET data == CHOOSE d \in UserData : TRUE
       IN  \E old \in {Absent, [version |-> None, owner |-> 1, content |-> data]},
              csv \in FirstPublications :
              store = [r \in Resources |->
                         IF r \in ConfigMaps THEN <<old>>
                         ELSE IF r = ServiceVersion THEN <<csv>> ELSE <<Absent>>]
    /\ operator = [version |-> 1, deployment |-> 1]
    /\ requests = EveryRequest
    /\ retry = FALSE
    /\ rendered = [c \in ConfigMaps |-> None]
    /\ pc = "idle"
    /\ pass = NoPass
    /\ budget = MaxDisturbances

-----------------------------------------------------------------------------
(* Calls to the API server *)

\* A write that changes nothing leaves the version as it is, and makes no event.
Write(r, owner, content) ==
    IF /\ Api(store[r]) # Absent
       /\ Api(store[r]).owner = owner /\ Api(store[r]).content = content
    THEN UNCHANGED store
    ELSE \E v \in NewVersions(r) :
            store' = [store EXCEPT ![r] =
                        Append(@, [version |-> v, owner |-> owner, content |-> content])]

Remove(r) == store' = [store EXCEPT ![r] = Append(@, Absent)]

\* Create, for all whose error is ignored if the object is there.
Create(r, owner, content) ==
    IF Api(store[r]) = Absent THEN Write(r, owner, content) ELSE UNCHANGED store

\* Deviation: the version is not compared.
AcceptsUnversioned(r) == Api(store[r]) # Absent

\* Update is accepted on the version that was read, and on no other.
Accepts(r) == Api(store[r]) # Absent /\ Api(store[r]).version = pass.version

Disturb(kind) ==
    /\ kind \in Disturbances
    /\ budget > 0
    /\ budget' = budget - 1

\* A step of the running pass, which leaves the rest of the world alone.
Step(at, to) ==
    /\ pc = at
    /\ pc' = to
    /\ UNCHANGED <<operator, requests, retry, rendered, budget>>

-----------------------------------------------------------------------------
(* CreateConfigMaps *)

\* The worker takes a request and gets the operator's deployment.
StartPass ==
    /\ pc = "idle" /\ requests # <<>>
    /\ requests' = Tail(requests)
    /\ pass' = [NoPass EXCEPT !.request = Head(requests), !.todo = ConfigMaps]
    /\ pc' = "configMaps"
    /\ UNCHANGED <<store, operator, retry, rendered, budget>>

\* createConfigMap: the cache does not know the config map.
CreateConfigMap(c) ==
    /\ c \in pass.todo
    /\ Cached(store[c]) = Absent
    /\ Create(c, operator.deployment, Shipped)
    /\ pass' = [pass EXCEPT !.todo = @ \ {c}]
    /\ Step("configMaps", "configMaps")

KeepConfigMap(c) ==
    /\ c \in pass.todo
    /\ Cached(store[c]) # Absent
    /\ Cached(store[c]).content = Shipped
    /\ pass' = [pass EXCEPT !.todo = @ \ {c}]
    /\ UNCHANGED store
    /\ Step("configMaps", "configMaps")

\* Deviation: the two config maps are swapped, and the new one is backed up.
FindDifferencesSwapped(c) ==
    /\ c \in pass.todo
    /\ Cached(store[c]) # Absent
    /\ Cached(store[c]).content # Shipped
    /\ pass' = [pass EXCEPT !.todo = @ \ {c},
                            !.existing = Shipped,
                            !.name = <<c, operator.version>>]
    /\ UNCHANGED store
    /\ Step("configMaps", "backup")

\* "Differences detected": what is there gets a backup, named after the version
\* that would have been created.
FindDifferences(c) ==
    /\ c \in pass.todo
    /\ Cached(store[c]) # Absent
    /\ Cached(store[c]).content # Shipped
    /\ pass' = [pass EXCEPT !.todo = @ \ {c},
                            !.existing = Cached(store[c]).content,
                            !.name = <<c, operator.version>>]
    /\ UNCHANGED store
    /\ Step("configMaps", "backup")

LeaveBackup ==
    pass' = [pass EXCEPT !.existing = None, !.name = None,
                         !.version = None, !.content = None]

CreateBackup ==
    /\ Step("backup", "configMaps")
    /\ Cached(store[pass.name]) = Absent
    /\ Create(pass.name, None, pass.existing)
    /\ LeaveBackup

KeepBackup ==
    /\ Step("backup", "configMaps")
    /\ Cached(store[pass.name]) # Absent
    /\ Cached(store[pass.name]).content = pass.existing
    /\ LeaveBackup
    /\ UNCHANGED store

\* "overwrite w/ new backup"
ReadBackup ==
    /\ Step("backup", "overwrite")
    /\ Cached(store[pass.name]) # Absent
    /\ Cached(store[pass.name]).content # pass.existing
    /\ pass' = [pass EXCEPT !.version = Cached(store[pass.name]).version,
                            !.content = pass.existing]
    /\ UNCHANGED store

OverwriteBackup ==
    /\ Step("overwrite", "configMaps")
    /\ IF Accepts(pass.name) THEN Write(pass.name, None, pass.content)
       ELSE UNCHANGED store
    /\ LeaveBackup

-----------------------------------------------------------------------------
(* deployConsole and updateCSVlinks *)

DeployConsole ==
    /\ Step("configMaps", "console")
    /\ pass.todo = {}
    /\ UNCHANGED <<store, pass>>

\* Deviation: an object that is there is taken for a failure.
CreateNewConsoleObject ==
    LET o == ConsoleOrder[pass.next]
    IN  /\ Step("console", IF Api(store[o]) # Absent THEN "kieapp"
                           ELSE IF pass.next = Len(ConsoleOrder) THEN "route" ELSE "console")
        /\ Create(o, operator.deployment, IF o = Route THEN NoHost ELSE None)
        /\ pass' = [pass EXCEPT !.next = @ + 1]

\* The objects are created whether or not they are there.
CreateConsoleObject ==
    /\ Step("console", IF pass.next = Len(ConsoleOrder) THEN "route" ELSE "console")
    /\ LET o == ConsoleOrder[pass.next]
       IN  Create(o, operator.deployment, IF o = Route THEN NoHost ELSE None)
    /\ pass' = [pass EXCEPT !.next = @ + 1]

HasHost ==
    Cached(store[Route]) # Absent /\ Cached(store[Route]).content \notin {NoHost, RouteName}

\* The loop of updateCSVlinks sees a host.
FindHost ==
    /\ Step("route", "csv")
    /\ HasHost
    /\ pass' = [pass EXCEPT !.content = Cached(store[Route]).content]
    /\ UNCHANGED store

\* Sixty rounds without one: a route without host passes for one with an empty
\* host.
GiveUpWaiting ==
    /\ pc = "route"
    /\ ~HasHost
    /\ IF Cached(store[Route]) # Absent /\ Cached(store[Route]).content = NoHost
       THEN /\ pass' = [pass EXCEPT !.content = NoHost]
            /\ Step("route", "csv")
       ELSE /\ UNCHANGED pass
            /\ Step("route", "kieapp")
    /\ UNCHANGED store

IsConsoleLink(link) == link.name = ConsoleLink

\* getConsoleLink: the first link of that name; without one it is prepended.
Linked(links, host) ==
    LET own == {i \in DOMAIN links : IsConsoleLink(links[i])}
    IN  IF own = {} THEN <<[name |-> ConsoleLink, host |-> host]>> \o links
        ELSE [links EXCEPT ![CHOOSE i \in own : \A j \in own : i <= j].host = host]

\* Deviation: a link to another host is not taken for the console's.
PublishedPrepending(publication, host) ==
    LET link == [name |-> ConsoleLink, host |-> host]
    IN  [links |-> IF \E i \in DOMAIN publication.links : publication.links[i] = link
                   THEN publication.links ELSE <<link>> \o publication.links,
         described |-> 1]

Published(publication, host) ==
    [links |-> Linked(publication.links, host),
     described |-> IF publication.described = 0 THEN 1 ELSE publication.described]

ReadCSV ==
    /\ LET found == Cached(store[ServiceVersion])
           wanted == Published(found.content, pass.content)
       IN  IF wanted = found.content
           THEN /\ Step("csv", "kieapp")
                /\ pass' = [pass EXCEPT !.content = None]
           ELSE /\ Step("csv", "link")
                /\ pass' = [pass EXCEPT !.version = found.version, !.content = wanted]
    /\ UNCHANGED store

\* A refused update is only logged.
UpdateCSV ==
    /\ Step("link", "kieapp")
    /\ IF Accepts(ServiceVersion) THEN Write(ServiceVersion, None, pass.content)
       ELSE UNCHANGED store
    /\ pass' = [pass EXCEPT !.version = None, !.content = None]

-----------------------------------------------------------------------------
(* The rest of the pass *)

EndPass == pc' = "idle" /\ pass' = NoPass

\* No KieApp has the name in the request.
NoKieApp ==
    /\ pc = "kieapp" /\ pass.request = "operator"
    /\ EndPass
    /\ UNCHANGED <<store, operator, requests, retry, rendered, budget>>

\* loadYaml: "ConfigMap not yet accessible" fails the pass, which is tried again;
\* with all templates the KieApp's objects follow them.
RenderTemplates ==
    /\ pc = "kieapp" /\ pass.request = "kieapp"
    /\ EndPass
    /\ IF \E c \in ConfigMaps : Cached(store[c]) = Absent
       THEN retry' = TRUE /\ UNCHANGED rendered
       ELSE /\ rendered' = [c \in ConfigMaps |-> Cached(store[c]).content]
            /\ UNCHANGED retry
    /\ UNCHANGED <<store, operator, requests, budget>>

-----------------------------------------------------------------------------
(* Calls that fail *)

Fails(at, to) ==
    /\ pc = at
    /\ pc' = to
    /\ Disturb("failure")
    /\ UNCHANGED <<operator, requests, retry, rendered>>

\* Get of the deployment: neither config maps nor console.
DeploymentNotFound ==
    /\ Fails("configMaps", "kieapp")
    /\ pass.todo = ConfigMaps
    /\ UNCHANGED <<store, pass>>

\* Get, Create or Update of a config map or a backup; a reply may be lost after
\* the call took effect, which looks like CreateConfigMap and the like.
ConfigMapFails(c) ==
    /\ Fails("configMaps", "configMaps")
    /\ c \in pass.todo
    /\ pass' = [pass EXCEPT !.todo = @ \ {c}]
    /\ UNCHANGED store

BackupFails ==
    /\ pc \in {"backup", "overwrite"}
    /\ Fails(pc, "configMaps")
    /\ LeaveBackup
    /\ UNCHANGED store

\* deployConsole returns at the first error, which took effect or did not.
ConsoleFails ==
    /\ Fails("console", "kieapp")
    /\ LET o == ConsoleOrder[pass.next]
       IN  \/ UNCHANGED store
           \/ Create(o, operator.deployment, IF o = Route THEN NoHost ELSE None)
    /\ UNCHANGED pass

CSVFails ==
    /\ pc \in {"csv", "link"}
    /\ Fails(pc, "kieapp")
    /\ pass' = [pass EXCEPT !.version = None, !.content = None]
    /\ UNCHANGED store

\* The process starts: caches are listed, which queues every request.
Restart(contents) ==
    /\ store' = [r \in Resources |-> <<contents[r]>>]
    /\ requests' = EveryRequest
    /\ retry' = FALSE
    /\ EndPass

ApiContents == [r \in Resources |-> Api(store[r])]

Crash ==
    /\ Disturb("crash")
    /\ Restart(ApiContents)
    /\ UNCHANGED <<operator, rendered>>

-----------------------------------------------------------------------------
(* controller-runtime *)

\* Config maps and console objects are watched for their owner, and the request
\* bears the name of the deployment.  Backups and the CSV are not watched.
Deliver(r) ==
    /\ Len(store[r]) > 1
    /\ store' = [store EXCEPT ![r] = Tail(@)]
    /\ requests' = IF r \in ConfigMaps \cup ConsoleObjects
                   THEN Queue("operator") ELSE requests
    /\ UNCHANGED <<operator, retry, rendered, pc, pass, budget>>

RetryExpires ==
    /\ retry
    /\ retry' = FALSE
    /\ requests' = Queue("kieapp")
    /\ UNCHANGED <<store, operator, rendered, pc, pass, budget>>

\* Deviation: only the operator's own objects are replayed.
ResyncOperator ==
    /\ pc = "idle" /\ requests = <<>> /\ ~retry
    /\ AllDelivered
    /\ requests' = <<"operator">>
    /\ UNCHANGED <<store, operator, retry, rendered, pc, pass, budget>>

\* SyncPeriod: the caches are replayed, deployment and KieApp included.  Bound of
\* the model: two hours are long, by then everything else has come to rest.
Resync ==
    /\ pc = "idle" /\ requests = <<>> /\ ~retry
    /\ AllDelivered
    /\ requests' = EveryRequest
    /\ UNCHANGED <<store, operator, retry, rendered, pc, pass, budget>>

-----------------------------------------------------------------------------
(* Users, the platform, and the operator's installation *)

Elsewhere == UNCHANGED <<operator, requests, retry, rendered, pc, pass>>

RouterAssignsHost ==
    /\ Api(store[Route]) # Absent
    /\ Api(store[Route]).content = NoHost
    /\ \E host \in Hosts : Write(Route, Api(store[Route]).owner, host)
    /\ Elsewhere /\ UNCHANGED budget

\* Everything the running deployment does not own any more.  Bound of the model:
\* the next object is collected when the events of the last have arrived.
CollectGarbage(r) ==
    /\ Api(store[r]) # Absent
    /\ Api(store[r]).owner \notin {None, operator.deployment}
    /\ AllDelivered
    /\ Remove(r)
    /\ Elsewhere /\ UNCHANGED budget

UserEditsTemplates(c) ==
    /\ Disturb("edit")
    /\ Api(store[c]) # Absent
    /\ \E data \in UserData \ {Api(store[c]).content} : Write(c, Api(store[c]).owner, data)
    /\ Elsewhere

UserDeletes(r) ==
    /\ Disturb("delete")
    /\ r # ServiceVersion
    /\ Api(store[r]) # Absent
    /\ Remove(r)
    /\ Elsewhere

\* The catalog publishes the CSV anew, or somebody adds a link to it.
Republish ==
    /\ Disturb("republish")
    /\ \/ Write(ServiceVersion, None, [links |-> <<>>, described |-> 0])
       \/ \E name \in OtherLinks, host \in Hosts :
             Write(ServiceVersion, None,
                   [Api(store[ServiceVersion]).content EXCEPT !.links =
                       Append(@, [name |-> name, host |-> host])])
    /\ Elsewhere

\* A new version of the operator: in its deployment, or in a new one with a CSV
\* of its own, and the old one's objects are left to the garbage collector.
Upgrade ==
    /\ Disturb("upgrade")
    /\ operator.version < MaxOperator
    /\ \E inPlace \in BOOLEAN :
          IF inPlace
          THEN /\ operator' = [operator EXCEPT !.version = @ + 1]
               /\ Restart(ApiContents)
          ELSE /\ operator' = [version |-> operator.version + 1,
                               deployment |-> operator.deployment + 1]
               /\ \E csv \in FirstPublications :
                     Restart([ApiContents EXCEPT ![ServiceVersion] = csv])
    /\ UNCHANGED rendered

-----------------------------------------------------------------------------

Operator ==
    \/ StartPass
    \/ \E c \in pass.todo : CreateConfigMap(c) \/ KeepConfigMap(c) \/ FindDifferences(c)
    \/ CreateBackup \/ KeepBackup \/ ReadBackup \/ OverwriteBackup
    \/ DeployConsole \/ CreateConsoleObject
    \/ FindHost \/ GiveUpWaiting \/ ReadCSV \/ UpdateCSV
    \/ NoKieApp \/ RenderTemplates

Failure ==
    \/ DeploymentNotFound \/ BackupFails \/ ConsoleFails \/ CSVFails \/ Crash
    \/ \E c \in pass.todo : ConfigMapFails(c)

Runtime == RetryExpires \/ Resync \/ \E r \in Resources : Deliver(r)

Environment ==
    \/ RouterAssignsHost \/ Republish \/ Upgrade
    \/ \E c \in ConfigMaps : UserEditsTemplates(c)
    \/ \E r \in Resources : UserDeletes(r) \/ CollectGarbage(r)

Next == Operator \/ Failure \/ Runtime \/ Environment

Spec == Init /\ [][Next]_vars

(***************************************************************************)
(* The worker keeps running and takes requests in turn, informers deliver,  *)
(* delays end, router and garbage collector do their work, and the manager  *)
(* resyncs: without that, whatever failed here would wait for an event that *)
(* need not come.  Nothing is assumed of users, failures and installations. *)
(***************************************************************************)
Fairness ==
    /\ WF_vars(Operator)
    /\ WF_vars(RetryExpires)
    /\ WF_vars(Resync)
    /\ WF_vars(RouterAssignsHost)
    /\ \A r \in Resources : WF_vars(Deliver(r)) /\ WF_vars(CollectGarbage(r))

FairSpec == Spec /\ Fairness

-----------------------------------------------------------------------------
(* Properties *)

CSV == Api(store[ServiceVersion]).content

\* A pass reads the CSV from a cache that may not know the last pass's link, after
\* giving up on the route as well as after finding its host: all the same there is
\* one link to the console, and the description mentions it once.
OneConsoleLink ==
    /\ Cardinality({i \in DOMAIN CSV.links : IsConsoleLink(CSV.links[i])}) <= 1
    /\ CSV.described <= 1

\* The links of others at their places, counted from the end of the list.
OthersAmong(links) ==
    {<<Len(links) - i, links[i]>> : i \in {j \in DOMAIN links : ~IsConsoleLink(links[j])}}

OthersLinks == OthersAmong(CSV.links)

\* updateCSVlinks writes back the whole CSV it has read: a link that somebody
\* else added meanwhile is neither lost nor moved by that.
OthersLinksKept ==
    [][pc = "link" /\ pc' = "kieapp" => OthersLinks' = OthersLinks]_vars

\* Whatever a user makes of the templates, or an upgrade leaves behind, is in the
\* end in the backup, although each failure on the way is only logged.
EditsAreBackedUp ==
    <>[]\A c \in ConfigMaps :
          LET current == Api(store[c])
              backup == Api(store[<<c, operator.version>>])
          IN  current # Absent /\ current.content # Shipped =>
                backup # Absent /\ backup.content = current.content

\* deployConsole stops at the first failure, may give up on the route, and does
\* not retry a refused update of the CSV: in the end the console is complete,
\* belongs to the running deployment, and the link leads to its route.
ConsoleInPlace ==
    <>[](/\ \A o \in ConsoleObjects :
               Api(store[o]) # Absent /\ Api(store[o]).owner = operator.deployment
         /\ Api(store[Route]).content # NoHost
         /\ CSV.described = 1
         /\ [name |-> ConsoleLink, host |-> Api(store[Route]).content]
               \in {CSV.links[i] : i \in DOMAIN CSV.links})

\* An edit of a config map queues no request of a KieApp, and a deleted one makes
\* its passes fail: in the end there is one, and the KieApp follows it.
TemplatesReachKieApp ==
    <>[]\A c \in ConfigMaps :
          Api(store[c]) # Absent /\ rendered[c] = Api(store[c]).content
=============================================================================
