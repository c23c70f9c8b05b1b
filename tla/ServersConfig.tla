---------------------------- MODULE ServersConfig ----------------------------
(***************************************************************************)
(* The KIE servers of a KieApp: how getServersConfig names and completes    *)
(* the server sets of the specification and derives one server from each    *)
(* deployment, how GetServerSet finds the set of a server again, and how    *)
(* mergeJms adds a broker (defaults/defaults.go).                           *)
(*                                                                          *)
(* A pass works on a copy of the stored sets and writes it back, completed, *)
(* also when it ends in an error (setFailedStatus).  Users change the       *)
(* stored sets between passes; that a stale pass cannot overwrite them is   *)
(* the subject of module KieAppReconcile.                                   *)
(*                                                                          *)
(* A name is a stem and the numbers appended to it: "alpha-2" is "alpha"    *)
(* with <<2>>, the generated name "app-kieserver" is "kieserver" with <<1>>,  *)
(* and the second deployment of "app-kieserver3" is "kieserver" with <<3, 2>>.*)
(***************************************************************************)
EXTENDS JmsConfig

CONSTANTS
    Stems,          \* of names; "kieserver" stands for "<application>-kieserver"
    NoName,         \* a set left unnamed
    NoNumber,       \* deployments left out
    UserSets,       \* server sets a user can write
    MaxSets,        \* bound of the model: sets in a KieApp
    MaxDeployments, \* bound of the model: deployments of a set
    MaxEdits,       \* bound of the model: edits after the KieApp was created
    NoPass          \* no pass has seen the stored sets yet

ASSUME StemsAssumption == "kieserver" \in Stems

ASSUME BoundsAssumption ==
    MaxSets \in Nat /\ MaxDeployments \in Nat /\ MaxEdits \in Nat

VARIABLES
    stored,         \* Spec.Objects.Servers of the KieApp
    sets,           \* the copy a pass works on
    next,           \* index of the set getServersConfig takes next
    usedNames, unsetNames,
    servers,        \* the server templates derived so far
    brokers,        \* servers that get a broker
    pc,
    last,           \* history: what the previous pass made of the same sets
    edits

vars == <<stored, sets, next, usedNames, unsetNames, servers, brokers, pc,
          last, edits>>
local == <<sets, next, usedNames, unsetNames, servers, brokers>>

-----------------------------------------------------------------------------
(* Names *)

Name == [stem : Stems, suffix : Seq(Nat)]

\* What users write: "<application>-kieserver" itself has its number 1.
IsChosen(name) ==
    name \in Name /\ (name.stem = "kieserver" => name.suffix # <<>>)

Generated(k) == [stem |-> "kieserver", suffix |-> <<k + 1>>]

\* getKieDeploymentName
DeploymentName(setName, arrayIdx, deploymentsIdx) ==
    LET base == IF setName = NoName THEN Generated(arrayIdx) ELSE setName
    IN  IF deploymentsIdx = 0 THEN base
        ELSE [base EXCEPT !.suffix = Append(@, deploymentsIdx + 1)]

Named(set) == set.name # NoName

\* Deviation: sets without a name come first.
PrecedesUnnamed(serverSets, j, i) ==
    IF Named(serverSets[i]) THEN j < i \/ ~Named(serverSets[j])
    ELSE j < i /\ ~Named(serverSets[j])

\* serverSortBlanks: sets with a name come first, otherwise the order stays.
Precedes(serverSets, j, i) ==
    IF Named(serverSets[i]) THEN j < i /\ Named(serverSets[j])
    ELSE j < i \/ Named(serverSets[j])

Place(serverSets, i) ==
    1 + Cardinality({j \in DOMAIN serverSets : Precedes(serverSets, j, i)})

SortBlanks(serverSets) ==
    [n \in DOMAIN serverSets |->
        serverSets[CHOOSE i \in DOMAIN serverSets : Place(serverSets, i) = n]]

\* Deviation: one attempt too few.
AttemptsButOne == unsetNames .. unsetNames + Len(sets) - 2

\* Deviation: the first attempt is one too early.
AttemptsTooEarly == unsetNames - 1 .. unsetNames + Len(sets) - 2

\* getServersConfig tries as many generated names as there are sets.
Attempts == unsetNames .. unsetNames + Len(sets) - 1

FreeAttempts == {k \in Attempts : Generated(k) \notin usedNames}

\* The value of unsetNames after the attempts: the first free one, or none.
UnsetNamesAfter(set) ==
    IF Named(set) THEN unsetNames
    ELSE IF FreeAttempts = {} THEN unsetNames + Len(sets)
    ELSE Min(FreeAttempts)

NameOf(set) ==
    IF Named(set) THEN set.name
    ELSE IF FreeAttempts = {} THEN NoName
    ELSE Generated(UnsetNamesAfter(set))

DeploymentsOf(set) == IF set.deployments = NoNumber THEN 1 ELSE set.deployments

\* Every deployment of every set, and those that come before one of them.
Positions(serverSets) ==
    UNION {{[set |-> i, index |-> d] : d \in 0..serverSets[i].deployments - 1} :
              i \in DOMAIN serverSets}

Before(serverSets, p) ==
    {q \in Positions(serverSets) :
        q.set < p.set \/ (q.set = p.set /\ q.index < p.index)}

\* The position GetServerSet counts up to.
PositionOf(serverSets, requested) ==
    CHOOSE p \in Positions(serverSets) :
        Cardinality(Before(serverSets, p)) = requested - 1

\* Deviation: deployments are counted from one.
GetServerSetFromOne(serverSets, requested) ==
    LET p == PositionOf(serverSets, requested)
    IN  [set |-> p.set,
         name |-> DeploymentName(serverSets[p.set].name, 0, p.index + 1)]

\* GetServerSet: the set a server belongs to, and the server's name, computed
\* anew from the specification.
GetServerSet(serverSets, requested) ==
    LET p == PositionOf(serverSets, requested)
        unnamedSets == {i \in 1..p.set - 1 : ~Named(serverSets[i])}
    IN  [set |-> p.set,
         name |-> DeploymentName(serverSets[p.set].name,
                                 Cardinality(unnamedSets), p.index)]

-----------------------------------------------------------------------------
(* Server sets *)

BlankSet ==
    [name |-> NoName, deployments |-> NoNumber, build |-> FALSE,
     database |-> "complete", jms |-> NoJms]

ServerSet ==
    [name : Name \cup {NoName}, deployments : Nat \cup {NoNumber}, build : BOOLEAN,
     database : {"complete", "incomplete"}, jms : Jms \cup {NoJms}]

ASSUME SetsAssumption ==
    /\ UserSets \subseteq ServerSet
    /\ NoName \notin Name /\ NoNumber \notin Nat
    /\ \A set \in UserSets : set.name = NoName \/ IsChosen(set.name)

Server == [set : Nat, name : Name, jms : Jms \cup {NoJms}]

TypeOK ==
    /\ stored \in Seq(ServerSet)
    /\ sets \in Seq(ServerSet)
    /\ next \in 1..Len(sets) + 1
    /\ usedNames \subseteq Name /\ unsetNames \in Nat
    /\ servers \in Seq(Server)
    /\ brokers \subseteq DOMAIN servers
    /\ pc \in {"idle", "configure", "mergeJms", "done", "failed"}
    /\ edits \in 0..MaxEdits

Init ==
    /\ stored \in BoundedSeq(UserSets, MaxSets)
    /\ sets = <<>> /\ next = 1
    /\ usedNames = {} /\ unsetNames = 0
    /\ servers = <<>> /\ brokers = {}
    /\ pc = "idle"
    /\ last = NoPass
    /\ edits = 0

-----------------------------------------------------------------------------
(* One pass *)

\* A KieApp without servers gets one; unnamed sets go to the end.
Begin ==
    /\ pc = "idle"
    /\ sets' = SortBlanks(IF stored = <<>> THEN <<BlankSet>> ELSE stored)
    /\ next' = 1
    /\ usedNames' = {} /\ unsetNames' = 0
    /\ servers' = <<>> /\ brokers' = {}
    /\ pc' = "configure"
    /\ UNCHANGED <<stored, last, edits>>

ServerNames(set) ==
    [d \in 1..DeploymentsOf(set) |->
        DeploymentName(NameOf(set), UnsetNamesAfter(set), d - 1)]

\* The errors of getServersConfig at a deployment: a name already used, a build
\* with more than one deployment, an external database without its configuration.
Rejected(set, d) ==
    \/ ServerNames(set)[d] \in usedNames
    \/ set.build /\ DeploymentsOf(set) > 1
    \/ set.database = "incomplete"

\* What is completed before an error stays completed.
Completed(set, generated) ==
    [set EXCEPT
        !.name = NameOf(set),
        !.deployments = DeploymentsOf(set),
        !.jms = IF DeploymentsOf(set) = 0 \/ Rejected(set, 1) THEN @
                ELSE CompleteJms(@, generated)]

ServersOf(set, jms) ==
    [d \in 1..DeploymentsOf(set) |->
        [set |-> next, name |-> ServerNames(set)[d],
         jms |-> IF Integrated(jms) THEN jms ELSE NoJms]]

\* One round of getServersConfig's loop.  An error ends the pass.
ConfigureSet ==
    /\ pc = "configure" /\ next <= Len(sets)
    /\ \E generated \in Credentials :
         LET set == sets[next]
             completed == Completed(set, generated)
         IN  /\ sets' = [sets EXCEPT ![next] = completed]
             /\ unsetNames' = UnsetNamesAfter(set)
             /\ IF \E d \in 1..DeploymentsOf(set) : Rejected(set, d)
                THEN /\ pc' = "failed"
                     /\ servers' = <<>>
                     /\ UNCHANGED <<next, usedNames>>
                ELSE /\ usedNames' = usedNames \cup Range(ServerNames(set))
                     /\ servers' = servers \o ServersOf(set, completed.jms)
                     /\ next' = next + 1
                     /\ UNCHANGED pc
    /\ UNCHANGED <<stored, brokers, last, edits>>

Configured ==
    /\ pc = "configure" /\ next > Len(sets)
    /\ pc' = "mergeJms"
    /\ UNCHANGED <<stored, local, last, edits>>

\* mergeJms: the JMS templates are rendered, for all servers at once, when the
\* first server with JMS is met; from then on every server finds its own there.
MergeJms ==
    /\ pc = "mergeJms"
    /\ brokers' = {i \in DOMAIN servers :
                     \E j \in 1..i : Integrated(servers[j].jms)}
    /\ pc' = "done"
    /\ UNCHANGED <<stored, sets, next, usedNames, unsetNames, servers, last, edits>>

Outcome == [sets |-> sets, servers |-> servers, brokers |-> brokers, end |-> pc]

\* The completed sets are stored with the KieApp, after an error too.
Store ==
    /\ pc \in {"done", "failed"}
    /\ stored' = sets
    /\ last' = Outcome
    /\ pc' = "idle"
    /\ UNCHANGED <<local, edits>>

-----------------------------------------------------------------------------
(* Users *)

Edit ==
    /\ pc = "idle"
    /\ edits < MaxEdits
    /\ edits' = edits + 1
    /\ last' = NoPass
    /\ UNCHANGED <<local, pc>>

UserAdds ==
    /\ Edit
    /\ Len(stored) < MaxSets
    /\ \E set \in UserSets : stored' = Append(stored, set)

UserRemoves ==
    /\ Edit
    /\ \E i \in DOMAIN stored : stored' = RemoveAt(stored, i)

UserRescales ==
    /\ Edit
    /\ \E i \in DOMAIN stored, d \in 0..MaxDeployments :
          stored' = [stored EXCEPT ![i].deployments = d]

UserClearsName ==
    /\ Edit
    /\ \E i \in DOMAIN stored : stored' = [stored EXCEPT ![i].name = NoName]

-----------------------------------------------------------------------------

Pass == Begin \/ ConfigureSet \/ Configured \/ MergeJms \/ Store

Next == Pass \/ UserAdds \/ UserRemoves \/ UserRescales \/ UserClearsName

Spec == Init /\ [][Next]_vars

-----------------------------------------------------------------------------
(* Properties *)

\* The attempts at generating a name are bounded by the number of sets.  They
\* suffice, whatever names users chose and however many deployments they asked
\* for: no set that getServersConfig is done with is left unnamed.
EverySetIsNamed ==
    pc \in {"configure", "mergeJms", "done"} =>
        \A i \in 1..next - 1 : Named(sets[i])

\* newEnv and ConsolidateObjects ask GetServerSet for the set and the name of the
\* i-th server, to override its settings and to name its keystore secret, while
\* the deployment config mounts the secret named by getServersConfig.  The two
\* computations agree, for all servers.
ServersAreFound ==
    pc = "done" =>
        /\ Cardinality(Positions(sets)) = Len(servers)
        /\ \A i \in DOMAIN servers :
              GetServerSet(sets, i) =
                  [set |-> servers[i].set, name |-> servers[i].name]

\* A pass over the sets the previous pass stored comes to the same result in
\* every respect, errors included: nothing is generated or renamed twice, so the
\* operator's own write-back does not keep it busy.
SecondPassChangesNothing ==
    pc \in {"done", "failed"} /\ last # NoPass => Outcome = last

\* Storing a pass keeps the sets that had a name, in their order, in front, and
\* adds none but the one set a KieApp without servers gets.
NamedUpto(serverSets, i) == Cardinality({j \in 1..i : Named(serverSets[j])})

KeepsNames ==
    /\ \A i \in DOMAIN stored : Named(stored[i]) =>
          stored'[NamedUpto(stored, i)].name = stored[i].name
    /\ Len(stored') = IF stored = <<>> THEN 1 ELSE Len(stored)

NamesAreKept == [][(pc \in {"done", "failed"}) => KeepsNames]_vars
=============================================================================
