# A TLA+ model of the kie-cloud-operator

The kie-cloud-operator turns a `KieApp` custom resource (Red Hat Process
Automation / Decision Manager environments) into deployment configs, build
configs, secrets, routes and so on, and keeps them as the `KieApp` asks. This
directory holds a TLA+ model of it, TLC configurations that check the model on
small instances, and theorems with machine-checked proofs. Paths are relative to
`src/`; `kieapp_controller.go` and friends are under `pkg/controller/kieapp/`.

`PROJECT.json` lists every part, run, mutant, hazard, finding and theorem, and
maps each definition to the lines it stands for.

    tlc -config MCReconcile.cfg MCKieApp        # model-check one run
    tlapm KieAppProofs.tla                      # check the proofs of one module

## 1. The system: inventory

| part | state it keeps | operations | talks to |
|---|---|---|---|
| **Reconcile loop** `kieapp_controller.go` | nothing between passes; inside one: `instance`, the environment, the pending updates | `Reconcile`, `newEnv`, `CreateCustomObjects`/`createCustomObject`/`createObj`, `updateDeploymentConfigs`/`dcUpdateCheck`, `updateBuildConfigs`/`bcUpdateCheck`, `hasSpecChanges`, `hasStatusChanges`, `setFailedStatus`, `UpdateObj` | platform service, environment defaults, status conditions |
| **Status conditions** `status/status.go` | `Status.Conditions`, at most 30 | `SetProvisioning`, `SetDeployed`, `SetFailed` | called by the loop |
| **Platform service** `kube_service.go` | client, cache, image client | `Get`, `List`, `GetCached` from the informer cache; `Create`, `Update` to the API server | API server |
| **Watches and queue** `watch.go`, controller-runtime | work queue, rate limiter | events of the KieApp and of owned objects queue the request | loop |
| **Environment defaults** `defaults/defaults.go` | `KieApp.Spec` of the copy in hand, which it completes | `GetEnvironment`, `getServersConfig`, `getJmsConfig`, `getDatabaseConfig`, `setReplicas`, `setPasswords`, `GetServerSet` | merge, auth, config maps |
| **Merge** `defaults/merge.go` | none | `merge`, `mergeObjects`, `combinedSize` over the layers common, environment, database, JMS | defaults |
| **Authentication** `defaults/auth.go` | none | validates and completes SSO, LDAP, role mapper | defaults |
| **Operator config maps** `CreateConfigMaps` | config maps with the templates and their backups | create, compare, back up | defaults read them |
| **KIE server config maps** `checkKieServerConfigMap` | the label of a KIE server's config map | relabel as `DETACHED` | KIE servers, business central |
| **Operator console** `deploy_ui.go` | the UI's role, pod, service, route; the CSV's links | create everything, then link | OLM |
| **Routes and keystores** `GetRouteHost`, `generateKeystoreSecret` | route host names, keystore secrets | create a route and wait for its host; lock a keystore | API server |
| **Image streams** `ensureImageStream` | image stream tags | find or create a tag | registry |
| **Process** `cmd/manager/main.go` | leader lock | start, resync every two hours | everything |
| **Web form** `pkg/ui` | none | writes a `KieApp` like any user | API server |

How they interact. A change of the `KieApp`, or of an object it owns, becomes an
event; the event updates the informer cache and queues the request. One worker
takes the request and runs a *pass*: it reads the `KieApp` from the cache, completes
its specification in memory, creates the objects the cache does not know, updates
the deployment configs and build configs that differ, compares its copy of the
`KieApp` with a second cached read, and possibly writes it back. Nothing locks
anything: the only concurrency control is the API server's comparison of resource
versions on update.

What is hard about it, and what correctness means there:

* *Stale reads.* Everything is read from a cache and written to the API server. The
  write-back of a whole `KieApp` must never undo a user's edit or replace a
  generated password that is already stored (`UserOwnsSpec`, `NoBlindWrite`).
* *Partial passes.* Each call can fail or be refused; the process can die between
  any two. Whatever mixture is left, the next passes must reach the request
  (`EventuallyConverged`).
* *Lost wakeups.* `createObj`'s `RequeueAfter` is dropped, `setFailedStatus` swallows
  errors, several returns do not requeue. As long as the request is not carried out,
  something must still be going to start a pass (`NoLostWakeup`).
* *Self-inflicted wakeups.* Every write queues the request again, so a pass that
  always finds something to write never ends (`EventuallyQuiet`).
* *A bounded history* whose last element steers the loop (`NewestConditionsKept`,
  `NoRepeatedTransition`).
* *Rules applied again to their own result.* A pass completes the specification and
  stores it, and the next pass starts from that: naming servers, counting deployments
  and listing queues must be stable (`SecondPassChangesNothing`), and must agree where
  they are computed twice (`ServersAreFound`).
* *Intricate merges.* Lists of objects are merged twice over, once counted to allocate
  the result and once to fill it, and objects of later layers are found by the name of a
  server's first one (`SlicesAreFilled`, `ServerStaysFound`, `ObjectsAsLayered`,
  `LastLayerWins`).
* *Errors that are only logged.* Config maps and their backups, the console and its link,
  relabelling, image tags, a route's host: hardly a failure in these ends the pass or
  starts another. Each relies on an event that may not come, or on the resync
  (`EditsAreBackedUp`, `TemplatesReachKieApp`, `ConsoleInPlace`, `IdleServersDetached`,
  `TagsProvided`), or must not need it (`HostsNeedNoResync`).
* *Whole objects written back* that belong to others as well: the ClusterServiceVersion,
  the config map of a KIE server (`OthersLinksKept`, `OneConsoleLink`,
  `StateIsTheServers`).
* *Guesses that end up in objects:* a host that stands in for the route's, a namespace
  returned together with an error (`HostsNeedNoResync`, `HostsSettle`,
  `LocalTriggersAreBacked`).

The full list, at the lines where each bites, is `hazards` in `PROJECT.json`.

## 2. Modules

| module | role |
|---|---|
| `StatusConditions` | the setters and the buffer as operators |
| `StatusHistory` | those setters called in any order, next to an unbounded history |
| `StatusHistoryProofs` | its theorems; lemmas on the operators |
| `VersionLogs` | a resource as cache and API server hold it, its versions; used by `KieAppReconcile`, `OperatorResources` and `ServerConfigMaps` |
| `VersionLogsProofs` | lemmas on logs that do not repeat a version |
| `KieAppReconcile` | the reconcile loop, caches, API server, queue, users, failures |
| `DesiredState` | abstract specification: a `KieApp` as its user sees it |
| `KieAppProperties` | invariants, liveness, and the refinement `UserOwnsSpec` |
| `MCKieApp`, `MC*.cfg` | instances for TLC |
| `KieAppProofs` | its theorems |
| `JmsConfig` | JMS settings of a server set and how `getJmsConfig` completes them |
| `ServersConfig` | server sets under edits and passes: naming, deployments, errors, brokers |
| `MCServers` | its instances for TLC |
| `ServersConfigProofs` | its theorems |
| `MergeLists` | the functions of `merge.go` as operators on lists |
| `EnvironmentLayers` | the layers of an environment's servers, merged in the order of `GetEnvironment` |
| `MCEnvironment` | its instances: layers in the shape of the templates |
| `EnvironmentLayersProofs` | the theorems of both |
| `OperatorResources` | what a pass does before it looks at its KieApp: config maps and backups, console, link |
| `MCOperator` | its instance |
| `OperatorResourcesProofs` | its theorems |
| `ServerConfigMaps` | passes of several KieApps over the config maps of KIE servers |
| `MCServerConfigMaps` | its instance |
| `ServerConfigMapsProofs` | its theorems |
| `HostsAndImages` | how a pass gets a route's host and an image tag, the authentication rules, and what becomes of both |
| `MCHostsAndImages` | its instance |
| `HostsAndImagesProofs` | its theorems |

How they fit together. `KieAppReconcile` is the loop, over one KieApp and objects whose
contents follow from its specification; it uses `StatusConditions` and implements
`DesiredState`. The other state machines look into one part of a pass each, and reduce the
rest of it to what that part can tell: `OperatorResources` has the KieApp's own part as
one step that renders the templates, `ServerConfigMaps` and `HostsAndImages` take the
specification as read, and `ServersConfig` and `EnvironmentLayers` are what happens inside
`GetEnvironment` between two calls. Logs of resources, the queue, failed calls and the
crash are modelled in the same way in all of them.

### KieAppReconcile and the code

`cr` and `obj[o]` are *logs* (`VersionLogs`): the head is what the informer cache holds, the last
entry what the API server holds, and those between are events on their way.
`Absent` stands for "no such resource". A version is an opaque token compared only
for equality, so the model reuses one as soon as nothing holds it: a write takes a
version that is in no log, in no copy in hand and in no pending update. Without a free
version a write would wait, so that the theorems, which say nothing of how many there are,
hold of every run of the code: they need no write to be possible.

| state | code |
|---|---|
| `hand` | `instance`, from `Reconcile`'s first `Get` on |
| `toCreate` | the objects the loop of `CreateCustomObjects` has still to look at |
| `updates` | `dcUpdates` or `bcUpdates`, with the version read from the cache |
| `pc` | the next call to the cache or API server |
| `dirty`, `retry` | the request in the (de-duplicating) queue; the same request waiting for the rate limiter |

Every call to the API server or cache is one step, so that events, users,
controllers, failures and a crash fall between any two; what the code computes
between two calls belongs to the step before it. Updates are sent in any order
(the code's order is that of a list from the cache, which is arbitrary).

| step | code |
|---|---|
| `ReadNothing`, `ReadKieApp` | `Get`, `GetEnvironment` (fills empty passwords, rejects bad specifications) |
| `SkipExisting`, `CreateObject`, `CreateRefused` | `createCustomObject`, `createObj` |
| `ListDCs`, `ListBCs` | list, record the status, collect what differs |
| `UpdateObject`, `UpdateRefused` | `UpdateObj` in the loops over `dcUpdates`, `bcUpdates`; after the last, `dcUpdated && SetProvisioning` |
| `RecheckNothing`, `Recheck` | second cached read; "Update CR if needed" with all its returns |
| `SaveKieApp`, `SaveRefused` | `UpdateObj(instance)`; its own `Requeue` or error |
| `ReadFails` ... `SaveFails` | the same calls returning an error, having taken effect or not |
| `Crash` | the process restarts: memory is lost, caches are listed afresh |

A specification is an *intent* (all a user can ask for: replicas, environment
variables, resources) and a *password* (everything the operator fills in and stores
back; a generated password is the interesting case because it differs from one pass
to the next). What an object should contain (`Wanted`) follows from both. The trial
environment, whose passwords are a constant, is the case of a single password.

### DesiredState

Two variables, the stored specification and the type of the last condition. Users
edit; the operator may fill an empty password, once, and only together with
Provisioning or Failed; it may report, and reports Deployed only of a complete
specification. `UserOwnsSpec` is that specification under the refinement mapping
"what the API server holds".

### ServersConfig and the code

`stored` is `Spec.Objects.Servers` as the API server holds it, `sets` the copy a pass
works on. `Begin`, one `ConfigureSet` per round of `getServersConfig`'s loop, and
`MergeJms` make up a pass; `Store` writes the completed copy back, after an error too, as
`setFailedStatus` does. Users act between passes only: that a stale pass cannot undo
their edits is the subject of `KieAppReconcile`, and `UserOwnsSpec` the reason why this
module need not repeat it. `last` is a history variable: what the previous pass made of
the same stored sets.

Names are what the rules are about, so they have structure: a stem and the numbers
appended to it. `app-kieserver-2` is the stem `kieserver` with `<<1, 2>>`, whether it is
the second deployment of a set or a name a user chose, and so clashes come out as in the
code. Of a set's other settings the module keeps those that end a pass (a build, an
incomplete external database) and JMS, whose credentials and list of queues are
generated and stored.

### MergeLists, EnvironmentLayers and the code

An item of a list is a name and a value, which stands for all its other fields; `Unset`
says that a layer gives none, and `mergo.Merge(..., WithOverride)` then keeps what the lower
layer has. An object also has its mark `delete`, the number of containers, and its parts
(variables, ports, mounts, volumes, triggers). Where `merge.go` has one function per type
there is one operator here, told apart by `Kinds` and `PartsOf`.

`CombinedSize` and `Written` are the two counts that have to agree: the length of the slice
and the last value of `sliceIndex`. Writing past the end is a panic, and a slot never
written is an object without a name (`NoName`).

The steps of `EnvironmentLayers` are the calls of `GetEnvironment` and `ConsolidateObjects`:
`Merge`, `RemoveRouterVariables` (which takes a first container for granted), a round of `MergeDB` or `MergeJms` for each server,
`Consolidate`. One thing is not visible in the types: `mergeJms` keeps its environment from
one server to the next, and a server merged with it shares the pod template of its
deployment config with it; `shared` holds these servers, and `Decoded` is what
`yaml.Unmarshal` does to a list that is there already.

`LayersOf`, `ObjectsAsLayered` and `LastLayerWins` are the reference definition: what should
come out, said without merging. The layers of a server are those its own entry of the `KieApp`
asks for: common, environment, the database it names, and JMS if it enables it. Two things the
code gets wrong are preconditions there and properties of runs of their own. A server without
JMS behind one with it (`InheritsJms`) is merged with the JMS layer too, so nothing is said of
that one, but of the other servers beside it; `JmsOnlyWhereEnabled` says what should hold, and
`jms_leak` that it does not. And `LastLayerWins` is about at most one server with JMS, for with
more the template is decoded over the first (`KeepsBaseVariables`, `jms_env`). They are about
objects with one container, which is what all
templates have; layers with none and with several are in the instance, for `SlicesAreFilled`.

### OperatorResources and the code

`store` has a log per resource: config maps, their backups (named after the version that
would be created), the console's objects, the ClusterServiceVersion. Every call of
`CreateConfigMaps`, `deployConsole` and `updateCSVlinks` is a step. There are two requests,
the KieApp's and one that bears the name of the operator's deployment, for which no KieApp is
found; the order in which they are queued is kept. An upgrade changes what the operator
ships, in the same deployment or in a new one whose predecessor's objects are collected.

### ServerConfigMaps and the code

`List` is the list by label without the servers that the pass counted (`serverDcList`:
those of its own KieApp only), then there are two reads and an update per config map.
Every KieApp of the namespace has its passes. Servers store their state at any time they
run; the config map may go between the list and the read (`Panic`).

### HostsAndImages and the code

`RequestRoute`, then `FindHost` or `GiveUp`, are `GetRouteHost`; `LookUpTag`, `LookUpLocalTag` and
`CreateTag` are `ensureImageStream`; `Rejected` is `configureAuth`. `UpToDate` compares what
`dcUpdateCheck` compares, environment variables and not triggers. `pass.host` and
`pass.namespace` are what the pass has come to think, by whatever way.

## 3. Runs

| run | question | instance |
|---|---|---|
| `status_history` | bounded list against unbounded history, every order of calls | buffer 3, 5 calls |
| `reconcile` | safety of the loop: `TypeOK`, `NoBlindWrite`, `NoLostWakeup`, `UserOwnsSpec` | a keystore secret and a deployment config, two intents, two passwords that may be emptied, two disturbances out of edit, failure, crash |
| `heals` | does everything settle, for valid, invalid and deleted requests, and then stay quiet? | a deployment config and a build config, one disturbance of any kind |
| `livelock` (violation) | an emptied password while Provisioning | one edit |
| `keystore` (violation) | a keystore and the stored password | one edit |
| `environment` | do merged layers come out as one would list them? | one and two servers, 216 layers of an environment |
| `jms_env` (violation) | several servers with JMS | one plain layer |
| `jms_leak` (violation) | a server without JMS after one with it | one plain layer |
| `servers` | are servers named, found again, and stable under further passes? | up to three sets, two edits |
| `operator` | are edits backed up, do templates reach the KieApp, is the console in place and linked once? | one template, two console objects, two versions, one disturbance of any kind |
| `server_config_maps` | is a server's state its own, and an idle server detached in the end? | two KieApps with a server each, two disturbances |
| `hosts_and_images` | do host and tag get where they belong, and does it come to rest? | two hosts, a given one, three authentication settings, one disturbance of any kind |

A *disturbance* is anything the operator has no say in: an edit or deletion of the
`KieApp`, a hand edit or deletion of an object, a readiness change, a failing call, a
crash, an upgrade. Deadlock is checked in the runs where nothing rightly stops: not in
`heals` (a deleted `KieApp` whose objects are collected), nor in the merges and the
condition list, which end.

### Bounds

Of all modules: a bound on disturbances is none on passes, so that a run goes on until
everything has come to rest, or cycles. Versions are only compared, and a version is reused
when nothing holds it; `Versions` is larger than what these instances ever hold at the same
time, so it never blocks a write.

* *KieAppReconcile.* A stale copy needs one edit; edit meeting a failure or a crash needs
  two. `reconcile` therefore has two disturbances of those kinds; deletion, tampering and
  readiness are in `heals`, one at a time, which also has both update loops. For one of several
  deployment config updates to be refused there must be two of them, which none of the runs
  has: that something is left to start a pass whichever updates were sent is proved, for any
  set of objects (`NoRequestIsLost`); that it all comes right in the end is checked with one of
  each kind. `MaxBuffer = 1`: the loop reads only the last condition, and the list is checked with 3 and proved for every
  size. `MaxLag` (1; 0 in `heals`): only the collection of garbage waits for the events of
  earlier ones, otherwise "operator creates, collector removes" could outrun every cache;
  users and operator are not bounded by it. Two intents and two passwords: they are only
  compared for equality, and `reconcile` treats them as interchangeable (`SYMMETRY`; no other
  run does).
* *ServersConfig.* Three sets are the least in which two clashes, or a clash and an error,
  meet; `NamingSets` holds the sets that make the rules interact: unnamed ones, names equal to
  generated ones or to another set's second deployment, zero and two deployments, a build, an
  incomplete database, JMS. `MaxEdits = 2` lets a set be scaled or renamed after a pass stored
  its generated name, and the result be edited once more.
* *EnvironmentLayers.* The layers of `MCEnvironment` have the shape of the templates, with
  each thing `merge.go` treats in a way of its own: no object, an object without fields,
  fields that are left out, marks on objects that exist or not, on one or all of a list,
  triggers with empty parameters, several containers or none, an object in front of the
  server's own. Two servers are what `mergeJms` needs to load its template again.
* *OperatorResources.* One template and, of the console, the route and one object for the
  others, which the code creates and never looks at again. Init is a first start, or a start
  beside config maps that a user has edited, so that the one disturbance may be a second edit over
  the backup just taken, or an upgrade after which the edited config maps are collected; both in
  one behaviour would take two. The garbage collector takes the next object when the events of the
  last have arrived, and the resync comes when everything is at rest.
* *ServerConfigMaps.* Two KieApps with a server each are what it takes for a pass to look at a
  config map of another KieApp. Two disturbances: a server that is scaled and fails, or
  registers while it is being detached.
* *HostsAndImages.* One component. The KieApp is read without lag (that is
  `KieAppReconcile`'s subject); the list and update of the deployment config are one step.
  The KieApp's own image tags are never removed, only the templates' are.

### Fairness

`FairSpec` assumes that the worker keeps running (weak fairness of the operator's steps),
informers deliver (each log separately), rate-limiter delays end, the router assigns hosts,
and the garbage collector and the deployment config controller do their work.
controller-runtime and Kubernetes promise these. Nothing is assumed of users or failures.

The resync is different. `KieAppReconcile` does not have it: healing there must not take two
hours. `OperatorResources`, `ServerConfigMaps` and, for tags alone, `HostsAndImages` do assume
it (`SyncPeriod` in `main.go`), because much of what fails there is only logged and queues
nothing; `HostsNeedNoResync` says as an invariant that hosts do not wait for it. In
`OperatorResources` the queue is first in, first out, as controller-runtime's is, so that weak
fairness of the worker serves both requests. In a behaviour that cycles, generated passwords
recur; that only adds behaviours.

### Findings

* `livelock`. `SetProvisioning(instance) && sameVersion` (line 123) is false when the
  last condition *is* Provisioning, so a specification that gained defaults then is
  never saved: the pass requeues, generates a new password, rolls the deployment out
  with it, and so on for ever.
* `keystore`. A keystore secret is created before its password is stored, and never
  updated. If the store is refused, the next pass stores another password.
* `jms_env`. Of two servers with JMS the first loses the variables of the common
  configuration: the template is decoded again into the pod template it shares.
* `jms_leak`. The environment `mergeJms` loads stays loaded for the servers after it: a server
  without JMS that comes after one with JMS gets a broker all the same.

### Noticed, not counted as findings

Reconcile loop:

* An invalid request is written back in every pass with one more Failed condition, and
  the event of that write starts the next pass at once: the exception in
  `EventuallyQuiet`. Nothing in the repository promises otherwise.
* `Deployed` means "this pass found nothing to do". It can be stored while no deployment
  config is in the cache yet, the status saying so; it is corrected later
  (`EventuallyConverged` requires Deployed *and* the objects).

Servers and layers:

* A set scaled to zero reserves no name: a later set may be given the same one, and
  scaling the first up is then rejected as a duplicate.
* `amqQueues` is stored once computed, so queues enabled later are not in it.
* "clean empty values" leaves the loop after the first empty name (`defaults.go:561-565`);
  with the default settings, signal and audit off, two are empty, so `amqQueues` ends in
  `", "` (`CleanedQueues` has it so).
* A webhook secret left out of the specification is generated anew in every pass
  (`defaults.go:615`) and reaches the build config with its next update for another reason.
* `GetEnvironment` indexes `Containers[0]` (line 74) of every deployment config of a server
  without a check: a template edited to have one without containers ends the process
  (`crashed`). No template has one.
* An object with several containers is an error that is logged and loses the whole list of
  deployment configs. No template has one.
* The loop over the servers in `newEnv` stops at the first omitted one (line 462).

Operator's own resources:

* After an upgrade in the same deployment the config maps keep the old version's templates,
  now backed up as if a user had edited them, and the console's pod keeps its image.
* A backup that exists gets the new `Data` but not the new `BinaryData`.

Server config maps:

* A pass counts the servers of its own KieApp only, so that one for another KieApp may
  detach a server that is about to start (lines 827-830). The server relabels its config
  map when it has started.
* A config map that goes between the list and the read makes the assignment to its labels
  panic; the process restarts.

Hosts and images:

* `dcUpdateCheck` does not look at triggers: one that names the templates' namespace stays
  when that tag goes, until another difference sends the deployment config again.
* The CRD says of `imageRegistry` that image streams are created locally if they are missing
  in both namespaces; with a registry set, the code asks for the local one only.
* A keystore is created once, and keeps the fallback host if the route was slow then.

## 4. Theorems

All hold for every value of the constants, under the assumptions named in the modules, which
TLC evaluates on every run:

* what makes the constants meaningful: `MaxBufferAssumption`, `ObjectsAssumption`,
  `ValuesAssumption` (loop), `ResourcesAssumption` (operator's resources), `ServersAssumption`
  (server config maps, layers), `HostsAssumption`; and that the sentinels are no entries
  (`SentinelsAssumption`, `SentinelAssumption`, `CredentialsAssumption`);
* `LayersAssumption`: in each list of a layer, names identify the objects. Kubernetes does not
  allow duplicates in a namespace, and `merge.go` does not look; with duplicates
  `combinedSize` and `mergeObjects` do count differently;
* `OwnServerAssumption`: `common.yaml` begins a server with its own deployment config, and
  no other layer marks that one `delete`. The templates in `config/` mark only the console's
  claim and its ping service. Only `LayersFindTheServer`, `ObjectsComeFromLayers` and
  `LastLayersWin` need it;
* `FoundLayersAssumption`: the templates of the databases and of JMS begin a server as
  `common.yaml` does, with the deployment config named `[[.KieName]]`, by which they are
  found; all of `config/dbs/` and `config/jms/` do. Only `ObjectsComeFromLayers` and
  `LastLayersWin` need it: a layer that is not found is a layer left out;
* `PartsAssumption`: in each list of variables, ports, mounts, volumes or triggers of a layer,
  names identify the items, but for image change triggers with empty parameters, which match
  nothing. The templates in `config/` name no item twice. Of the variables a `KieApp` sets
  nothing is assumed. Only `LastLayersWin` needs it;
* `SetsAssumption`: what users write are server sets, and a name they choose is one of the
  model's names: `<application>-kieserver` itself is `kieserver` with the number 1, never
  without one; neither is "no name" a name nor "no number" a number. Deployments are numbers, so not negative; the code treats a negative one as
  it treats zero.

| theorem | statement |
|---|---|
| `ListTypeCorrect`, `ListKeepsNewest`, `ListNeverRepeats` | the condition list: bounded, exactly the newest entries, no repeated transition |
| `KieAppProofs!TypeCorrect` | `Spec => []TypeOK` |
| `WritesAreNeverBlind` | `Spec => []NoBlindWrite` |
| `SpecificationIsTheUsers` | `Spec => UserOwnsSpec`, the refinement of `DesiredState` |
| `NoRequestIsLost` | `Spec => []NoLostWakeup` |
| `SizesAgree`, `MergesNeverOverrun` | `mergeObjects` writes exactly as many objects as `combinedSize` counts, so a merge of lists of any length stays within its slice |
| `EnvironmentLayersProofs!TypeCorrect` | `Spec => []TypeOK` |
| `EveryMergeFits` | `Spec => []SlicesAreFilled` |
| `LayersFindTheServer` | `Spec => []ServerStaysFound` |
| `ObjectsComeFromLayers` | `Spec => []ObjectsAsLayered`: of every server but those that inherit JMS |
| `LastLayersWin` | `Spec => []LastLayerWins`: of the same servers, with at most one that enables JMS |
| `ServersConfigProofs!TypeCorrect` | `Spec => []TypeOK` |
| `AttemptsSuffice` | `Spec => []EverySetIsNamed` |
| `EveryServerIsFound` | `Spec => []ServersAreFound` |
| `StoringKeepsNames` | `Spec => NamesAreKept`, an action property |
| `PassesRepeat` | `Spec => []SecondPassChangesNothing` |
| `OperatorResourcesProofs!TypeCorrect` | `Spec => []TypeOK` |
| `OneLinkToTheConsole` | `Spec => []OneConsoleLink` |
| `OthersLinksAreKept` | `Spec => OthersLinksKept`, an action property |
| `ServerConfigMapsProofs!TypeCorrect` | `Spec => []TypeOK` |
| `ServersStateIsKept` | `Spec => StateIsTheServers`, an action property |
| `HostsAndImagesProofs!TypeCorrect` | `Spec => []TypeOK` |
| `TriggersAreBacked` | `Spec => []LocalTriggersAreBacked` |
| `HostsComeWithoutResync` | `Spec => []HostsNeedNoResync` |

### Read from a cache, written to the API server

`NoBlindWrite` is not inductive: that a version matches says nothing unless equal
versions mean equal entries. The strengthening has three parts.

* *Logs do not repeat a version* (`KnownKieApp`, `KnownObjects`): of the entries of a
  log, none carries the version of another. A version in hand, or in a pending update,
  is found in the log only as its *head* (`OnlyAtHead`): the copy was read from the head,
  later entries got fresh versions, and when the head is dropped the version is gone for
  good. So an accepted write finds its version both first and last, hence the log has one
  entry.
* *The copy is faithful* (`FaithfulCopy`): if the copy in hand has the version of the
  head, it differs from it only as a pass may change it: the intent is the same, a
  password that is stored is the same, one that was empty is filled. With
  `NoBlindWrite` this relates the copy to what the API server holds, which is what a
  step of `DesiredState` needs.
* *Deployed is added only to a stored specification*, also part of `FaithfulCopy`.

`SpecificationIsTheUsers` then goes action by action: only `SaveKieApp`, `UserEdits` and
`UserDeletes` change what the API server holds of the `KieApp`, `Crash` and
`DeliverKieApp` drop entries before the last, and the rest leave `cr` alone.

`ServersStateIsKept` and the theorems about the ClusterServiceVersion rest on the same facts
about logs, which is why these are lemmas of a module of their own. `KnownCopy` says of the
config map being relabelled that it has the state of the head, if it has its version.
`KnownPublication` says so of the links of others in the ClusterServiceVersion, and that the
publication in hand has one link to the console at most; `CSVInOrder` that every entry of the
log has, those on their way to the cache included: a pass that reads an old one and finds no
link adds a second one only if its update is accepted, and then the old one is the current
one. What is compared of others' links is the list without the console's: appending or
replacing the console's leaves that list as it is (`OthersAmong`).

### Always something on its way

`NoLostWakeup` speaks of passes that have ended. To be inductive it needs to know what a pass
in progress has established, and `Seen` says it, each part under the same two conditions: no
request has been queued since the pass began (`~dirty`), and no event of the object in question
is on its way (`Delivered`). Then an object that the pass has created or found exists (`Made`),
one that it has listed as equal or has updated is as wanted (`Matched`), and the status it has
recorded is that of the deployment configs (`StatusSeen`). Everything that could falsify one of
these either appends to a log, and is on its way, or is delivered, and sets `dirty`
(`QueuedIsSeen`, `OthersAreSeen`); a call that fails sets `retry` or ends in a write
(`FailIsSeen`, `SavedIsSeen`). A pass that ends with nothing to do has established all of it,
which is `CarriedOut`.

`HostsNeedNoResync` is proved along the same lines: `SpecKnown`, `HostKnown` and `DCKnown` say
that what the pass has in hand is what the API server holds, unless an event is on its way or
the request is queued again. That a route asked for is one the pass knows of holds because a pass comes
to `update` only when there is one.

### Names of servers

`AttemptsSuffice` is a pigeonhole argument. `getServersConfig` tries as many generated names
as there are sets, from the number reached so far. `UsedBySets` says which names can be taken
among those not yet tried: a generated one belongs to a set only as its first deployment
(`OnlyOwnNameIsGenerated`: later deployments carry a second number), so there are at most as
many of them as sets already configured, which is one less than the attempts
(`OneAttemptIsFree`).

`EveryServerIsFound` compares a list built by appending with a count over the finished sets.
`ServersInPlace` says of every deployment of the sets done so far that its server stands where
the number of deployments before it says, under the name it has; a round of the loop keeps
that, because the deployments of the next set come after all others (`OneSetMore`,
`FirstOfSet`). At the end the places of all deployments are the numbers up to the length of
the list (`CountedPositions`), so that the deployment `GetServerSet` counts up to exists and is
the only one with its number (`OnePosition`).

`StoringKeepsNames` needs the effect of a whole pass: `NamesInHand` follows the named sets from
`stored` through `serverSortBlanks` and the rounds. `Place` gives each set the number of those
sorted before it; sorting is right because that order is total (`PlacesInOrder`), and a named
set comes after the named ones before it only (`NamedSetsPlace`).

`PassesRepeat` compares two passes, and all of the first that is left when the second runs is
the completed list of sets, in `last` and in `stored`. So whether a set is rejected is told from
the list alone: `Refused` computes the names used before it from the sets before it, and a round
leaves a list that refuses just what the round rejected (`RejectedIsRefused`, with
`NamesCounted`). `PassSettles` says what a pass establishes: named sets in front, the sets it is
done with `Settled`, with nothing left to complete, and, if it failed, the first set that has an
error; getJmsConfig contributes that completing twice is completing once (`CompletedJms`).
`Repeating` then follows the second pass along the first: sorting finds the list sorted
(`SortedAlready`), rounds over settled sets leave it alone (`SettledRound`), and the pass fails
where the list says, so neither earlier nor later. Servers and brokers are determined by the
sets (`SameServers`, from `ServersInPlace`).

### Merges

The argument of `SizesAgree` is a bijection: each upper object that is written in
addition has no counterpart below, and each mark takes away exactly one object below, the one
that `findOpenShiftObject` returns (`FindIsUnique`, `DeletedMatchGone`).

For a program of several merges the result of one has to meet the hypotheses of the next.
`MergedShape` describes it: the objects kept of the lower list in their order, then those
added of the upper one, each in its place (`Ranks`: the place of an object is the number of
those written up to it, which enumerates them without a gap). So names stay unique and
`NoName` does not occur, and with `Progress`, which says so of every server after every
step, no merge runs over (`EveryMergeFits`).

`InFront` carries `ServerStaysFound`: a server's list begins with its own deployment config,
unmarked. `FrontStays` is the step: what is first below, and not deleted by the layer, is
first in the result. The property assumes single containers of each server's own layers; the
layers it is merged with, `MergedLayers`, are those and perhaps a JMS layer that is an earlier
server's own, so that they have single containers too (`SingleLayers`); `Rank` and `Pick` are as in
the source, so that nothing is assumed of the order within a layer.

`ObjectsAsLayered` compares the end with all layers; what it says is not true of every list of
layers in between, as a mark without a ground may stay as an object and be merged with later. So
`Layered` says more, of a list and the layers it was merged from: an object that was brought
and never marked is there *unmarked* (a mark inherited from below would take the next layer's
object with it), and the list below a mark is not empty if one of these lies below. One merge
keeps that for one layer more (`OneLayerMore`, from `MergeListMarks`, which says of two lists
what becomes of a name). `Layering` then follows the program: the layers a server has been
merged with so far depend on the loop and on `next` (`LayersSoFar`), and when the loops are
through they are `MergedLayers` (`Stacks`), which are the server's own, `LayersOf`, unless it
inherits JMS (`OwnLayers`). So the invariants hold of every server, and the theorem speaks of
those that the property does. `Layering` needs that no layer is passed over, which is
`InFront` again, and that `jmsLoaded` is set exactly from the first server with JMS on (`Progress`).

`LastLayerWins` is about the items inside objects, which `EnvOverride` and `MergeItems` compute
with functions that recur over a list. The theorems on induction cannot be used, but induction
up to a bound can: the set of the numbers for which a claim holds has no least gap (`UpTo`). That
such a function exists is one of these claims (`RunsExist`), so the one a definition chooses is a
run, step after step (`EnvOverrideRuns`, `MergeItemsRuns`). `VariablesOverridden` and
`PartMerged` then say what a merge of two lists contains, of any length: `IsMerged` gives, for
each name, the upper value if there is one, else the lower one.

`FromLayers` says it of a list and the layers it was merged from: an item is there if one of
them has it and counts (`Source`), with the value of the highest that gives it one
(`Decides`), or none if none does (`LeftOut`). Layers are `hidden` to the variables of the
router once those have been removed. One merge adds one layer (`LayerOnPart`), within an object
that no layer marks (`ListTopped`; where it comes from is `MergedParts`), and `Filled` follows
the program as `Layering` does. With at most one server with JMS the template is rendered once
(`RenderedOnce`), so that nothing is decoded over a merged pod template. `Finished` says what
`ConsolidateObjects` puts on top, and `PartAsLayered` that this is what the property lists:
its `Highest` source is the one that decides.

### Image tags

`LocalTriggersAreBacked` is not inductive either: it says nothing of the pass in progress.
`Backed` adds that a pass with the KieApp's own namespace in hand has seen or created the tag
there, and that every version of the deployment config still on its way to the cache is backed
too, which a restart or a tampering user copies from. A step keeps both because the KieApp's own
tag is never removed (`OwnTagsStay`), and because an error of `createLocalImageTag` comes with
the other namespace, not with this one (`PassStaysBacked`).

### Only model-checked

* All liveness, out of the prover's reach (`EventuallyConverged`, `EventuallyQuiet`,
  `EditsAreBackedUp`, `TemplatesReachKieApp`, `ConsoleInPlace`, `IdleServersDetached`,
  `TagsProvided`, `HostsSettle`), and the findings.

## 5. Not modelled, and why

* The API server, the garbage collector, the deployment config controller and the
  internals of controller-runtime are modelled from how the code uses them, and marked
  external in the map. Leader election makes "one process" an assumption.
* A deleted `KieApp` is not created again under the same name. UIDs would matter then.
* The version annotation of a `KieApp`, and the upgrade of its product version: derived, and
  saved with the rest. `Status.ConsoleHost` is in `HostsAndImages`.
* Contents: what templates say, certificates and the keystore's bytes, and how an accepted
  authentication setting is copied into the template. No step decides by them.
* Defaults that are a constant in place of an empty field (images, sizes, console and smart
  router names): a single value stands for them.
* `BinaryData` of config maps; no shipped template has any.
* The web form applies a `KieApp` as any user does; logging and generated deep copies keep no
  state that anything reads.
* Further parts with status `not_modelled` or `partly` in `PROJECT.json`, each with its reason.

## 6. Plan

In this order; the most important behaviour came first.

1. *(done)* status conditions, alone, with proofs.
2. *(done)* the reconcile loop, its abstract specification, the refinement, the proofs.
3. *(done)* `ServersConfig`: `getServersConfig`, `serverSortBlanks`, `GetServerSet` and
   the naming functions under edits and passes.
4. *(done)* `JmsConfig`: `getJmsConfig`, with the list of queues computed once and stored.
5. *(done)* `MergeLists` and `EnvironmentLayers`: `combinedSize` against what `mergeObjects`
   writes, and the layers against a list of them; the sizes proved.
6. *(done)* `OperatorResources`: config maps with their backups, console and link.
7. *(done)* `ServerConfigMaps`: which config maps are detached.
8. *(done)* `HostsAndImages`: routes, image tags, authentication rules, with proofs.
9. *(done)* `NoLostWakeup` and `HostsNeedNoResync`; `StateIsTheServers`, `OthersLinksKept` and
   `OneConsoleLink`; the invariants of `EnvironmentLayers`; the properties of
   `ServersConfig`.
