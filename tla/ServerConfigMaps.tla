--------------------------- MODULE ServerConfigMaps ---------------------------
(***************************************************************************)
(* checkKieServerConfigMap: each KIE server keeps its state in a config map *)
(* of its own, labelled while it is in use; the operator relabels it as     *)
(* DETACHED when the server is scaled to zero, for the console to forget it. *)
(* A pass for one KieApp looks at the config maps of the whole namespace.   *)
(*                                                                          *)
(* Config maps and deployment configs are logs (VersionLogs), deployment     *)
(* configs without their versions, which no step here looks at.  Server,     *)
(* deployment config and config map have the same name.  That deployment    *)
(* configs follow the KieApp is the subject of KieAppReconcile.             *)
(***************************************************************************)
EXTENDS VersionLogs, FiniteSets

CONSTANTS
    Apps,               \* KieApps of the namespace
    Servers, AppOf,     \* KIE servers, and whose they are
    None,
    States,             \* what a KIE server may store in its config map
    Disturbances,       \* which of DisturbanceKinds happen at all
    MaxDisturbances     \* bound of the model: disturbances in a run

DisturbanceKinds == {"scale", "pod", "register", "delete", "failure", "crash"}

ASSUME ServersAssumption ==
    /\ IsFiniteSet(Apps)
    /\ AppOf \in [Servers -> Apps]
    /\ States # {}
    /\ Disturbances \subseteq DisturbanceKinds
    /\ MaxDisturbances \in Nat

VARIABLES
    wanted,     \* servers whose replicas are not zero, as the KieApps are cached
    dc,         \* log of every deployment config: has it available replicas?
    cm,         \* log of every config map
    requests,   \* KieApps in the work queue
    pc,
    app,        \* KieApp of the running pass
    counted,    \* serverDcList: servers with replicas, in the pass's environment
    todo,       \* listed config maps still to look at
    hand,       \* cmObj, and whose it is
    budget      \* disturbances left

vars == <<wanted, dc, cm, requests, pc, app, counted, todo, hand, budget>>
pass == <<pc, app, counted, todo, hand>>

ConfigMap == [version : Versions, label : {"USED", "DETACHED"}, state : States]

ASSUME SentinelsAssumption ==
    /\ None \notin Apps \cup Servers \cup ConfigMap
    /\ Absent \notin ConfigMap

TypeOK ==
    /\ wanted \subseteq Servers
    /\ dc \in [Servers -> Seq(BOOLEAN)] /\ \A s \in Servers : dc[s] # <<>>
    /\ cm \in [Servers -> Seq(ConfigMap \cup {Absent})]
    /\ \A s \in Servers : cm[s] # <<>>
    /\ requests \in Seq(Apps) /\ Len(requests) <= Cardinality(Apps)
    /\ pc \in {"idle", "list", "dc", "cm", "relabel"}
    /\ app \in Apps \cup {None} /\ (app = None <=> pc = "idle")
    /\ counted \subseteq Servers /\ todo \subseteq Servers
    /\ pc \in {"cm", "relabel"} => hand.server \in Servers
    /\ pc = "relabel" => hand.object \in ConfigMap
    /\ budget \in 0..MaxDisturbances

NoHand == [server |-> None, object |-> None]

\* Every KieApp, in some order.
EveryRequest ==
    {q \in [1..Cardinality(Apps) -> Apps] :
        \A i, j \in DOMAIN q : q[i] = q[j] => i = j}

\* Deviation: a request may be queued twice.
QueueAgain(a) == Append(requests, a)

\* Add: a request that is queued is not queued twice.
Queue(a) ==
    IF \E i \in DOMAIN requests : requests[i] = a THEN requests
    ELSE Append(requests, a)

\* Servers are up and have registered, or are about to start.
Init ==
    /\ \E up \in SUBSET Servers, v \in FreshVersions({}), state \in States :
          /\ dc = [s \in Servers |-> <<s \in up>>]
          /\ cm = [s \in Servers |->
                     <<[version |-> v, label |-> "USED", state |-> state]>>]
    /\ wanted = Servers
    /\ requests \in EveryRequest
    /\ pc = "idle" /\ app = None
    /\ counted = {} /\ todo = {}
    /\ hand = NoHand
    /\ budget = MaxDisturbances

-----------------------------------------------------------------------------

VersionsHeld(s) ==
    VersionsIn(cm[s]) \cup (IF hand.object = None THEN {} ELSE {hand.object.version})

Write(s, label, state) ==
    \E v \in FreshVersions(VersionsHeld(s)) :
        cm' = [cm EXCEPT ![s] =
                 Append(@, [version |-> v, label |-> label, state |-> state])]

Disturb(kind) ==
    /\ kind \in Disturbances
    /\ budget > 0
    /\ budget' = budget - 1

Elsewhere == UNCHANGED <<wanted, dc, requests>>

\* Next config map of the list, or the end of the pass.
Proceed(left) ==
    /\ todo' = left
    /\ hand' = NoHand
    /\ IF left = {} THEN pc' = "idle" /\ app' = None /\ counted' = {}
       ELSE pc' = "dc" /\ UNCHANGED <<app, counted>>

-----------------------------------------------------------------------------
(* A pass *)

\* The pass has an environment, which counts the servers of its own KieApp only.
Start ==
    /\ pc = "idle" /\ requests # <<>>
    /\ requests' = Tail(requests)
    /\ app' = Head(requests)
    /\ counted' = {s \in wanted : AppOf[s] = app'}
    /\ pc' = "list"
    /\ UNCHANGED <<wanted, dc, cm, todo, hand, budget>>

\* serverDcList[name] is zero for a name that is not in it.
Listed ==
    {s \in Servers : /\ s \notin counted
                     /\ Cached(cm[s]) # Absent
                     /\ Cached(cm[s]).label # "DETACHED"}

List ==
    /\ pc = "list"
    /\ Proceed(Listed)
    /\ UNCHANGED <<cm, budget>> /\ Elsewhere

\* "if server DC replicas equal zero"
IsDown(s) == ~Cached(dc[s])

GetDC(s) ==
    /\ pc = "dc" /\ s \in todo
    /\ IF IsDown(s)
       THEN /\ pc' = "cm"
            /\ hand' = [hand EXCEPT !.server = s]
            /\ UNCHANGED <<app, counted, todo>>
       ELSE Proceed(todo \ {s})
    /\ UNCHANGED <<cm, budget>> /\ Elsewhere

\* An error is only logged, and the empty deployment config has no replicas.
GetDCFails(s) ==
    /\ pc = "dc" /\ s \in todo
    /\ Disturb("failure")
    /\ pc' = "cm"
    /\ hand' = [hand EXCEPT !.server = s]
    /\ UNCHANGED <<cm, app, counted, todo>> /\ Elsewhere

GetConfigMap ==
    /\ pc = "cm"
    /\ Cached(cm[hand.server]) # Absent
    /\ hand' = [hand EXCEPT !.object = [Cached(cm[hand.server]) EXCEPT !.label = "DETACHED"]]
    /\ pc' = "relabel"
    /\ UNCHANGED <<cm, app, counted, todo, budget>> /\ Elsewhere

\* Deviation: the version is not sent.
IsCurrentUnversioned == Api(cm[hand.server]) # Absent

IsCurrent ==
    /\ Api(cm[hand.server]) # Absent
    /\ Api(cm[hand.server]).version = hand.object.version

\* UpdateObj; a refusal is only logged.
Relabel ==
    /\ pc = "relabel"
    /\ IF IsCurrent /\ Api(cm[hand.server]) # hand.object
       THEN Write(hand.server, hand.object.label, hand.object.state)
       ELSE UNCHANGED cm
    /\ Proceed(todo \ {hand.server})
    /\ UNCHANGED budget /\ Elsewhere

Fails(at) ==
    /\ pc = at
    /\ Disturb("failure")
    /\ UNCHANGED <<wanted, dc, cm>>

\* The pass has failed, or saved the KieApp, before it came to the check.
ReturnEarly ==
    /\ Fails("list")
    /\ requests' = Queue(app)
    /\ Proceed({})

\* "Failed to list ConfigMaps", or Update returns an error: no requeue.
GiveUp ==
    /\ \/ Fails("list") /\ Proceed({})
       \/ Fails("relabel") /\ Proceed(todo \ {hand.server})
    /\ UNCHANGED requests

\* The process starts: caches are listed, which queues every request.
Restart ==
    /\ dc' = [s \in Servers |-> <<Api(dc[s])>>]
    /\ cm' = [s \in Servers |-> <<Api(cm[s])>>]
    /\ requests' \in EveryRequest
    /\ Proceed({})
    /\ UNCHANGED wanted

\* The config map has gone since it was listed: the labels of the empty object are
\* a nil map, and the assignment panics.
Panic ==
    /\ pc = "cm"
    /\ Cached(cm[hand.server]) = Absent
    /\ Restart
    /\ UNCHANGED budget

Crash == Disturb("crash") /\ Restart

-----------------------------------------------------------------------------
(* controller-runtime *)

\* A deployment config is owned by its KieApp.
DeliverDC(s) ==
    /\ Len(dc[s]) > 1
    /\ dc' = [dc EXCEPT ![s] = Tail(@)]
    /\ requests' = Queue(AppOf[s])
    /\ UNCHANGED <<wanted, cm, pass, budget>>

\* A config map is owned by a deployment config, and the request bears the name of
\* that: no KieApp is found, and the pass does not come to the check.
DeliverConfigMap(s) ==
    /\ Len(cm[s]) > 1
    /\ cm' = [cm EXCEPT ![s] = Tail(@)]
    /\ UNCHANGED <<wanted, dc, requests, pass, budget>>

AllDelivered == \A s \in Servers : Delivered(dc[s]) /\ Delivered(cm[s])

\* Deviation: there is no SyncPeriod.
NoResync == FALSE /\ UNCHANGED vars

\* SyncPeriod.  Bound of the model: two hours are long, by then everything else has
\* come to rest.
Resync ==
    /\ pc = "idle" /\ requests = <<>>
    /\ AllDelivered
    /\ requests' \in EveryRequest
    /\ UNCHANGED <<wanted, dc, cm, pass, budget>>

-----------------------------------------------------------------------------
(* Users, servers, and the platform *)

\* The specification of the server's KieApp has changed, and its event arrives.
UserScales(s) ==
    /\ Disturb("scale")
    /\ wanted' = IF s \in wanted THEN wanted \ {s} ELSE wanted \cup {s}
    /\ requests' = Queue(AppOf[s])
    /\ UNCHANGED <<dc, cm, pass>>

SetAvailable(s, available) ==
    /\ Api(dc[s]) # available
    /\ dc' = [dc EXCEPT ![s] = Append(@, available)]
    /\ UNCHANGED <<wanted, cm, requests, pass>>

\* The deployment config controller.
DCFollows(s) == SetAvailable(s, s \in wanted) /\ UNCHANGED budget

PodFails(s) == SetAvailable(s, FALSE) /\ Disturb("pod")

\* A running server stores its state, and labels its config map as used.
ServerRegisters(s) ==
    /\ Disturb("register")
    /\ Api(dc[s])
    /\ \E state \in States : Write(s, "USED", state)
    /\ UNCHANGED <<wanted, dc, requests, pass>>

ConfigMapDeleted(s) ==
    /\ Disturb("delete")
    /\ Api(cm[s]) # Absent
    /\ cm' = [cm EXCEPT ![s] = Append(@, Absent)]
    /\ UNCHANGED <<wanted, dc, requests, pass>>

-----------------------------------------------------------------------------

Operator ==
    \/ Start \/ List \/ GetConfigMap \/ Relabel \/ Panic
    \/ \E s \in todo : GetDC(s)

Failure ==
    \/ ReturnEarly \/ GiveUp \/ Crash
    \/ \E s \in todo : GetDCFails(s)

Runtime == Resync \/ \E s \in Servers : DeliverDC(s) \/ DeliverConfigMap(s)

Environment ==
    \E s \in Servers :
        \/ UserScales(s) \/ DCFollows(s) \/ PodFails(s)
        \/ ServerRegisters(s) \/ ConfigMapDeleted(s)

Next == Operator \/ Failure \/ Runtime \/ Environment

Spec == Init /\ [][Next]_vars

(***************************************************************************)
(* The worker keeps running, informers deliver, deployments follow their    *)
(* configuration, and the manager resyncs.                                  *)
(***************************************************************************)
Fairness ==
    /\ WF_vars(Operator)
    /\ WF_vars(Resync)
    /\ \A s \in Servers :
          WF_vars(DeliverDC(s)) /\ WF_vars(DeliverConfigMap(s)) /\ WF_vars(DCFollows(s))

FairSpec == Spec /\ Fairness

-----------------------------------------------------------------------------
(* Properties *)

\* The operator writes back a whole config map that it has read from its cache:
\* what the server has stored in it meanwhile is never undone by that, whichever
\* pass, for whichever KieApp, does it.
StateIsTheServers ==
    [][\A s \in Servers :
          pc = "relabel" /\ pc' # pc /\ Api(cm[s]) # Absent /\ Api(cm[s])' # Absent =>
              Api(cm[s])'.state = Api(cm[s]).state]_vars

\* Neither a refused update nor a failed call is tried again, and an event of the
\* config map starts no pass of its KieApp: a server scaled to zero is detached in
\* the end all the same.
IdleServersDetached ==
    <>[]\A s \in Servers :
          s \notin wanted /\ Api(cm[s]) # Absent => Api(cm[s]).label = "DETACHED"
=============================================================================
