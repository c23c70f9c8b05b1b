--------------------------- MODULE EnvironmentLayers ---------------------------
(***************************************************************************)
(* How the KIE servers of an environment come about: GetEnvironment merges  *)
(* the common configuration with the one of the environment, removes the    *)
(* smart router's variables if there is no router, merges each server with  *)
(* its database and with its JMS configuration; ConsolidateObjects puts the *)
(* variables of the KieApp on top (defaults/defaults.go).                   *)
(*                                                                          *)
(* Every layer is a template rendered from the same list of servers, so that *)
(* the k-th object of a layer belongs to the k-th server.  Only servers are *)
(* modelled: console, smart router and others are merged in the same way.    *)
(* Names are roles, the same for every server, where the templates prefix   *)
(* them with the server's own name.                                         *)
(***************************************************************************)
EXTENDS MergeLists

CONSTANTS
    Databases, NoDatabase,
    CommonLayers,       \* custom objects of a server in common.yaml,
    EnvLayers,          \* in envs/*.yaml,
    DatabaseLayers,     \* functions from Databases: in dbs/*.yaml,
    JmsLayers,          \* and in jms/activemq-jms-config.yaml
    UserVariables,      \* lists of variables of a KieApp's server set
    RouterVariables,    \* names of variables that lead a server to the router
    ServerLists         \* what each server of a KieApp has: database, JMS

ASSUME ServersAssumption ==
    \A list \in ServerLists :
        /\ list # <<>>
        /\ list \in Seq([database : Databases \cup {NoDatabase}, jms : BOOLEAN])

FoundLayers ==
    JmsLayers \cup {layer[database] : layer \in DatabaseLayers, database \in Databases}
UpperLayers == EnvLayers \cup FoundLayers

ASSUME LayersAssumption ==
    \A layer \in CommonLayers \cup UpperLayers : IsCustomObject(layer)

\* common.yaml begins a server with its own deployment config, and no template
\* marks that one as deleted.
ASSUME OwnServerAssumption ==
    \A common \in CommonLayers :
        LET dcs == common.lists["deploymentConfigs"]
        IN  /\ dcs # <<>> /\ ~dcs[1].delete
            /\ \A layer \in UpperLayers :
                  \A k \in DOMAIN layer.lists["deploymentConfigs"] :
                      layer.lists["deploymentConfigs"][k].name = dcs[1].name
                          => ~layer.lists["deploymentConfigs"][k].delete

\* An object has the parts of its kind; each is a list of items as the templates
\* write it.  So are the variables of a KieApp, but for names set twice.
HasParts(kind, object) ==
    /\ DOMAIN object.parts = PartsOf(kind)
    /\ \A part \in PartsOf(kind) : IsPart(kind, part, object.parts[part])

ASSUME PartsAssumption ==
    /\ \A layer \in CommonLayers \cup UpperLayers : \A kind \in Kinds :
          \A k \in DOMAIN layer.lists[kind] : HasParts(kind, layer.lists[kind][k])
    /\ \A variables \in UserVariables : IsItems(variables)

VARIABLES
    cr,         \* the KieApp: its servers, and whether it has a smart router
    layers,     \* the configuration templates as rendered
    servers,    \* the environment's servers as merged so far
    jmsLoaded,  \* mergeJms has rendered the JMS template
    shared,     \* servers whose pod template is also the JMS environment's
    next,       \* the server a loop is at
    pc

vars == <<cr, layers, servers, jmsLoaded, shared, next, pc>>

Init ==
    /\ \E list \in ServerLists, router \in BOOLEAN, variables \in UserVariables :
          cr = [servers |-> list, smartRouter |-> router, env |-> variables]
    /\ \E common \in CommonLayers, env \in EnvLayers, db \in DatabaseLayers,
          jms \in JmsLayers, count \in {0, Len(cr.servers), Len(cr.servers) + 1} :
          layers = [common |-> [i \in DOMAIN cr.servers |-> common],
                    env |-> [i \in 1..count |-> env],
                    databases |-> db, jms |-> jms]
    /\ servers = <<>>
    /\ jmsLoaded = FALSE /\ shared = {}
    /\ next = 1
    /\ pc = "merge"

-----------------------------------------------------------------------------

\* GetEnvironment merges the layer of the environment into the common one.
Merge ==
    /\ pc = "merge"
    /\ IF Incompatible(layers.common, layers.env)
       THEN /\ pc' = "failed"
            /\ UNCHANGED servers
       ELSE /\ servers' = MergeCustomObjects(layers.common, layers.env)
            /\ pc' = IF /\ layers.env # <<>>
                        /\ \E i \in DOMAIN layers.common :
                              CustomObjectOverruns(layers.common[i], layers.env[i])
                     THEN "panicked" ELSE "router"
    /\ UNCHANGED <<cr, layers, jmsLoaded, shared, next>>

WithEnv(object, variables) == [object EXCEPT !.parts["env"] = variables]

WithoutRouter(variables) ==
    Pick(variables, {n \in DOMAIN variables : variables[n].name \notin RouterVariables})

WithoutRouterVariables(server) ==
    [server EXCEPT !.lists["deploymentConfigs"] =
        [k \in DOMAIN @ |-> WithEnv(@[k], WithoutRouter(@[k].parts["env"]))]]

\* The variables are those of a deployment config's first container.
LacksContainer(server) ==
    LET dcs == server.lists["deploymentConfigs"]
    IN  \E k \in DOMAIN dcs : dcs[k].containers = 0

\* "remove router env vars from kieserver DCs"
RemoveRouterVariables ==
    /\ pc = "router"
    /\ IF cr.smartRouter
       THEN pc' = "mergeDB" /\ UNCHANGED servers
       ELSE IF \E i \in DOMAIN servers : LacksContainer(servers[i])
       THEN pc' = "crashed" /\ servers' = <<>>
       ELSE /\ pc' = "mergeDB"
            /\ servers' = [i \in DOMAIN servers |-> WithoutRouterVariables(servers[i])]
    /\ UNCHANGED <<cr, layers, jmsLoaded, shared, next>>

\* findCustomObjectByName compares the first deployment configs and gives up at
\* an object that has none.
IsFound(server, layer) ==
    LET own == server.lists["deploymentConfigs"]
        theirs == layer.lists["deploymentConfigs"]
    IN  /\ own # <<>> /\ theirs # <<>>
        /\ own[1].name = theirs[1].name

\* In the templates of the databases and of JMS a server begins as it does in
\* common.yaml.
ASSUME FoundLayersAssumption ==
    \A common \in CommonLayers, layer \in FoundLayers : IsFound(common, layer)

\* Deviation: the loop does not stop at the last server.
RoundPastTheEnd(list, layer, found, after) ==
    /\ servers' = IF found THEN [list EXCEPT ![next] = MergeCustomObject(@, layer)]
                  ELSE list
    /\ next' = next + 1
    /\ pc' = pc

\* A round of a loop over the servers: merges the one it is at, if it is found.
Round(list, layer, found, after) ==
    LET last == next = Len(list)
    IN  /\ servers' = IF found THEN [list EXCEPT ![next] = MergeCustomObject(@, layer)]
                      ELSE list
        /\ next' = IF last THEN 1 ELSE next + 1
        /\ pc' = IF found /\ CustomObjectOverruns(list[next], layer) THEN "panicked"
                 ELSE IF last THEN after ELSE pc

MergeDB ==
    /\ pc = "mergeDB"
    /\ LET database == cr.servers[next].database
           layer == layers.databases[database]
       IN  Round(servers, layer,
                 database # NoDatabase /\ IsFound(servers[next], layer), "mergeJms")
    /\ UNCHANGED <<cr, layers, jmsLoaded, shared>>

\* The JSON decoder writes into the list that is there: it gets the length of
\* the new one, and an item keeps what the new one leaves out.
Decoded(old, new) ==
    IF new = <<>> THEN old
    ELSE [k \in DOMAIN new |->
            IF new[k].value = Unset /\ k \in DOMAIN old
            THEN [new[k] EXCEPT !.value = old[k].value] ELSE new[k]]

\* Triggers are not in the pod template.
DecodedInto(old, new) ==
    [old EXCEPT !.parts =
        [part \in DOMAIN @ |->
            IF part = "triggers" THEN @[part] ELSE Decoded(@[part], new.parts[part])]]

\* yaml.Unmarshal into the JMS environment that is there already.  When a server
\* is merged with it, its deployment configs there and in the environment come
\* to have one pod template between them.
LoadedAgain(server) ==
    LET jms == layers.jms.lists["deploymentConfigs"]
    IN  [server EXCEPT !.lists["deploymentConfigs"] =
            [k \in DOMAIN @ |->
                IF Has(jms, @[k].name) THEN DecodedInto(@[k], Find(jms, @[k].name))
                ELSE @[k]]]

\* A round of mergeJms: the template is rendered, for all servers, at each
\* server with JMS.
MergeJms ==
    /\ pc = "mergeJms"
    /\ LET load == cr.servers[next].jms
           found == (load \/ jmsLoaded) /\ IsFound(servers[next], layers.jms)
           loaded == [i \in DOMAIN servers |->
                        IF load /\ i \in shared THEN LoadedAgain(servers[i])
                        ELSE servers[i]]
       IN  /\ Round(loaded, layers.jms, found, "consolidate")
           /\ jmsLoaded' = (jmsLoaded \/ load)
           /\ shared' = IF found THEN shared \cup {next} ELSE shared
    /\ UNCHANGED <<cr, layers>>

Overridden(server) ==
    [server EXCEPT !.lists["deploymentConfigs"] =
        [k \in DOMAIN @ |->
            IF @[k].containers = 0 THEN @[k]
            ELSE WithEnv(@[k], EnvOverride(@[k].parts["env"], cr.env))]]

\* ConsolidateObjects: the variables of the KieApp override those of every
\* deployment config of a server.
Consolidate ==
    /\ pc = "consolidate"
    /\ servers' = [i \in DOMAIN servers |-> Overridden(servers[i])]
    /\ pc' = "done"
    /\ UNCHANGED <<cr, layers, jmsLoaded, shared, next>>

\* A template that cannot be read or parsed ends it all.
LoadFails ==
    /\ \/ pc = "merge"
       \/ pc = "mergeDB" /\ cr.servers[next].database # NoDatabase
       \/ pc = "mergeJms" /\ cr.servers[next].jms
    /\ servers' = <<>>
    /\ pc' = "failed"
    /\ UNCHANGED <<cr, layers, jmsLoaded, shared, next>>

Next ==
    Merge \/ RemoveRouterVariables \/ MergeDB \/ MergeJms \/ Consolidate \/ LoadFails

Spec == Init /\ [][Next]_vars

-----------------------------------------------------------------------------
(* Properties.  The layers of a server, lowest first: those that its own     *)
(* entry of the KieApp asks for, whatever the other servers have.            *)

BaseLayers(i) ==
    IF layers.env = <<>> THEN <<layers.common[i]>>
    ELSE <<layers.common[i], layers.env[i]>>

LayersOf(i) ==
    LET database == cr.servers[i].database
    IN  BaseLayers(i)
          \o (IF database = NoDatabase THEN <<>> ELSE <<layers.databases[database]>>)
          \o (IF cr.servers[i].jms THEN <<layers.jms>> ELSE <<>>)

\* A server without JMS behind one with it.  mergeJms merges it with the JMS
\* layer all the same, for jmsEnv outlives the round that loaded it: a defect,
\* see JmsOnlyWhereEnabled.
InheritsJms(i) ==
    ~cr.servers[i].jms /\ \E j \in 1..i - 1 : cr.servers[j].jms

Mentions(i, kind, name) ==
    {k \in DOMAIN LayersOf(i) : Has(LayersOf(i)[k].lists[kind], name)}

ObjectIn(i, k, kind, name) == Find(LayersOf(i)[k].lists[kind], name)

Marks(i, kind, name) ==
    {k \in Mentions(i, kind, name) : ObjectIn(i, k, kind, name).delete}

ObjectNames(i, kind) ==
    UNION {Names(LayersOf(i)[k].lists[kind]) : k \in DOMAIN LayersOf(i)}

Highest(S) == CHOOSE k \in S : \A j \in S : j <= k
Lowest(S) == CHOOSE k \in S : \A j \in S : k <= j

SingleContainers ==
    \A i \in DOMAIN cr.servers : \A kind \in {"deploymentConfigs", "statefulSets"} :
        \A k \in DOMAIN LayersOf(i) : \A n \in DOMAIN LayersOf(i)[k].lists[kind] :
            LayersOf(i)[k].lists[kind][n].containers <= 1

TypeOK ==
    /\ pc \in {"merge", "router", "mergeDB", "mergeJms", "consolidate", "done",
               "failed", "panicked", "crashed"}
    /\ servers # <<>> => DOMAIN servers = DOMAIN cr.servers
    /\ next \in DOMAIN cr.servers
    /\ shared \subseteq DOMAIN cr.servers
    /\ jmsLoaded \in BOOLEAN
    /\ shared # {} => jmsLoaded

\* combinedSize and mergeObjects count in different ways.  They agree for every
\* merge: no list is written past its end, none ends with objects that were
\* never written and that the operator would try to create without a name.
SlicesAreFilled ==
    /\ pc # "panicked"
    /\ \A i \in DOMAIN servers : \A kind \in Kinds :
          NoName \notin Names(servers[i].lists[kind])

\* The database and JMS layers are found by the name of a server's first
\* deployment config.  However a layer orders its objects or marks others, the
\* server's own one stays in front, so no later layer is missed.
ServerStaysFound ==
    SingleContainers /\ pc \in {"mergeDB", "mergeJms", "consolidate", "done"} =>
        \A i \in DOMAIN servers :
            /\ servers[i].lists["deploymentConfigs"] # <<>>
            /\ servers[i].lists["deploymentConfigs"][1].name
                 = layers.common[i].lists["deploymentConfigs"][1].name

\* Some object of that kind lies below the given layer and is never marked.
HasGround(i, kind, layer) ==
    \E name \in ObjectNames(i, kind) :
        /\ Marks(i, kind, name) = {}
        /\ Lowest(Mentions(i, kind, name)) < layer

\* What a server ends up with, over all its layers: every object that a layer
\* brings and none marks, exactly once, and no object whose last mention is a
\* mark.  A mark put on an empty list stays as an object of its own: the merge
\* takes the upper list as it is.  Not of a server that inherits JMS.
ObjectsAsLayered ==
    SingleContainers /\ pc = "done" =>
        \A i \in DOMAIN servers : \A kind \in Kinds :
            ~InheritsJms(i) =>
            LET list == servers[i].lists[kind]
            IN  /\ Cardinality(Names(list)) = Len(list)
                /\ Names(list) \subseteq ObjectNames(i, kind)
                /\ \A name \in ObjectNames(i, kind) :
                      LET last == Highest(Mentions(i, kind, name))
                      IN  /\ Marks(i, kind, name) = {} => name \in Names(list)
                          /\ (last \in Marks(i, kind, name) /\ HasGround(i, kind, last))
                                => name \notin Names(list)

\* The items of a part, but for the triggers that match no other.
Own(kind, part, items) ==
    Pick(items, {n \in DOMAIN items : ~StandsAlone(kind, part, items[n])})

ItemsIn(i, k, kind, object, part) ==
    Own(kind, part, ObjectIn(i, k, kind, object).parts[part])

\* The layers whose item of that name counts: variables of the router do not,
\* without a router, in the layers below the database's.
Sources(i, kind, object, part, name) ==
    {k \in Mentions(i, kind, object) :
        /\ Has(ItemsIn(i, k, kind, object, part), name)
        /\ (kind = "deploymentConfigs" /\ part = "env" /\ ~cr.smartRouter
              /\ name \in RouterVariables) => k > Len(BaseLayers(i))}

ValueIn(i, k, kind, object, part, name) ==
    Find(ItemsIn(i, k, kind, object, part), name).value

IsReplacing(kind, part) == part \in {"env", "volumes"} \/ kind = "services"

\* The last layer wins; a layer that leaves an item's fields out only does where
\* items are replaced as a whole.
LastValue(i, kind, object, part, name) ==
    LET sources == Sources(i, kind, object, part, name)
        given == {k \in sources :
                    \/ IsReplacing(kind, part)
                    \/ ValueIn(i, k, kind, object, part, name) # Unset}
    IN  IF given = {} THEN Unset
        ELSE ValueIn(i, Highest(given), kind, object, part, name)

\* The KieApp's own variables, for an object that has a container for them, and
\* the last of a name among them.
UsersVariables(kind, object, part) ==
    IF kind = "deploymentConfigs" /\ part = "env" /\ object.containers > 0
    THEN cr.env ELSE <<>>

LastOf(items, name) ==
    items[Highest({n \in DOMAIN items : items[n].name = name})].value

ItemsAsLayered(i, kind, object, part) ==
    LET items == Own(kind, part, object.parts[part])
        users == UsersVariables(kind, object, part)
        names == UNION {Names(ItemsIn(i, k, kind, object.name, part)) :
                          k \in Mentions(i, kind, object.name)}
        expected == {name \in names :
                       Sources(i, kind, object.name, part, name) # {}}
    IN  /\ Names(items) = expected \cup Names(users)
        /\ Cardinality(Names(items)) = Len(items)
        /\ \A k \in DOMAIN items :
              items[k].value =
                IF Has(users, items[k].name) THEN LastOf(users, items[k].name)
                ELSE LastValue(i, kind, object.name, part, items[k].name)

\* "GetEnvironment returns an Environment from merging the common config and the
\* config related to the environment": every variable, port, mount, volume and
\* trigger has the value of the last layer that gives it one, the KieApp's own
\* variables last, and there are no others.  With at most one server with JMS
\* (for more see KeepsBaseVariables), and not of one that inherits it.
LastLayerWins ==
    /\ SingleContainers
    /\ Cardinality({i \in DOMAIN cr.servers : cr.servers[i].jms}) <= 1
    /\ pc = "done"
    => \A i \in DOMAIN servers : \A kind \in Kinds :
          ~InheritsJms(i) => \A n \in DOMAIN servers[i].lists[kind] :
            LET object == servers[i].lists[kind][n]
            IN  Marks(i, kind, object.name) = {} =>
                  \A part \in PartsOf(kind) : ItemsAsLayered(i, kind, object, part)

\* "Merged DC should have a higher number of environment variables than the base
\* server" (merge_test.go:178, of a server with JMS): merging with the JMS
\* configuration adds variables to those of the common configuration.
KeepsBaseVariables ==
    pc = "done" =>
        \A i \in DOMAIN servers : cr.servers[i].jms =>
            Names(WithoutRouter(layers.common[i].lists["deploymentConfigs"][1].parts["env"]))
                \subseteq Names(servers[i].lists["deploymentConfigs"][1].parts["env"])

\* "When set to true will configure the KIE Server with JMS integration"
\* (kieapp.crd.yaml:397, of enableIntegration): a server that does not ask for it
\* gets no object that only the JMS layer brings.
JmsOnlyWhereEnabled ==
    pc = "done" =>
        \A i \in DOMAIN servers : ~cr.servers[i].jms =>
            \A kind \in Kinds :
                Names(servers[i].lists[kind]) \cap Names(layers.jms.lists[kind])
                    \subseteq ObjectNames(i, kind)
=============================================================================
