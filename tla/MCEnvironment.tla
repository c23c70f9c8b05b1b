----------------------------- MODULE MCEnvironment -----------------------------
(***************************************************************************)
(* Small instances of EnvironmentLayers for TLC: layers in the shape of the *)
(* templates in config/.  A value names the layer it comes from.            *)
(***************************************************************************)
EXTENDS EnvironmentLayers

It(name, value) == [name |-> name, value |-> value]

\* An object of a kind with the given parts; the others are empty.
Object(kind, name, value, parts) ==
    [name |-> name, delete |-> FALSE, value |-> value, containers |-> 1,
     parts |-> [part \in PartsOf(kind) |->
                   IF part \in DOMAIN parts THEN parts[part] ELSE <<>>]]

None == [part \in {} |-> <<>>]
Marked(object) == [object EXCEPT !.delete = TRUE]
DC(name, value, parts) == Object("deploymentConfigs", name, value, parts)
BC(value, parts) == Object("buildConfigs", "build", value, parts)
Service(name, parts) == Object("services", name, Unset, parts)
Other(name, value) == Object("others", name, value, None)

Custom(lists) ==
    [omit |-> FALSE,
     lists |-> [kind \in Kinds |-> IF kind \in DOMAIN lists THEN lists[kind] ELSE <<>>]]

\* common.yaml: the server's own deployment config with all of its parts, a
\* service, and two plain objects.
Common ==
    Custom([deploymentConfigs |->
              <<DC("kieserver", "common",
                  [env |-> <<It("id", "common"), It("port", "common"),
                             It("host", "common"), It("user", "common")>>,
                   ports |-> <<It("http", "common"), It("jolokia", "common")>>,
                   volumeMounts |-> <<It("keystore", "common")>>,
                   volumes |-> <<It("keystore", "common")>>,
                   triggers |-> <<It("ImageChange", "common"), It("ConfigChange", Unset)>>])>>,
            services |-> <<Service("kieserver", [ports |-> <<It("http", "common")>>]),
                           Service("ping", [ports |-> <<It("ping", "common")>>])>>,
            others |-> <<Other("route", "common"), Other("claim", "common")>>])

MCCommonLayers == {Common}

\* envs/*.yaml: with or without objects of each kind, marks included.
OwnDCs ==
    {<<>>,
     <<DC("kieserver", Unset,
          [env |-> <<It("host", Unset), It("name", "env")>>,
           ports |-> <<It("jolokia", Unset), It("https", "env")>>,
           volumeMounts |-> <<It("keystore", Unset), It("data", "env")>>,
           volumes |-> <<It("keystore", Unset), It("data", "env")>>,
           triggers |-> <<It("ConfigChange", Unset), It("ImageChange", Empty)>>])>>,
     <<DC("controller", "env", [env |-> <<It("id", "env")>>]),
       DC("kieserver", "env",
          [env |-> <<It("port", "env")>>,
           triggers |-> <<It("ImageChange", Unset)>>])>>,
     <<[DC("kieserver", Unset, None) EXCEPT !.containers = 0]>>,
     <<[DC("kieserver", "env", None) EXCEPT !.containers = 2],
       [DC("controller", "env", None) EXCEPT !.containers = 0]>>,
     <<[DC("kieserver", "env", None) EXCEPT !.containers = 2]>>}

OwnServices ==
    {<<>>, <<Marked(Service("ping", None))>>,
     <<Service("kieserver", [ports |-> <<It("http", Unset), It("git", "env")>>])>>}

OwnOthers ==
    {<<>>, <<Marked(Other("claim", Unset))>>,
     <<Other("secret", "env"), Other("claim", Unset), Marked(Other("route", Unset))>>,
     <<Marked(Other("secret", Unset)), Marked(Other("route", Unset)),
       Marked(Other("claim", Unset))>>}

BuildLists ==
    {<<>>, <<BC("env", [env |-> <<It("mirror", "env")>>,
                        triggers |-> <<It("ImageChange", Empty), It("GitHub", "env")>>])>>,
     <<Marked(BC("env", None))>>}

MCEnvLayers ==
    {Custom([deploymentConfigs |-> dcs, services |-> services, others |-> others,
             buildConfigs |-> builds]) :
       dcs \in OwnDCs, services \in OwnServices, others \in OwnOthers,
       builds \in BuildLists}

\* dbs/*.yaml: variables for the server, a deployment config for the database.
Database ==
    Custom([deploymentConfigs |->
              <<DC("kieserver", Unset,
                   [env |-> <<It("driver", "db"), It("id", "db")>>]),
                DC("database", "db", [env |-> <<It("user", "db")>>])>>,
            buildConfigs |-> <<BC(Unset, [env |-> <<It("mirror", "db")>>,
                                          triggers |-> <<It("ImageChange", "db")>>])>>,
            services |-> <<Service("database", None),
                           Service("ping", [ports |-> <<It("ping", "db")>>])>>,
            others |-> <<Other("claim", "db"), Marked(Other("secret", Unset))>>])

MCDatabaseLayers == {[d \in Databases |-> Database]}

\* jms/activemq-jms-config.yaml.
Jms ==
    Custom([deploymentConfigs |->
              <<DC("kieserver", Unset, [env |-> <<It("queue", "jms"), It("port", "jms")>>]),
                DC("broker", "jms", [env |-> <<It("queue", "jms"), It("user", "jms")>>])>>,
            others |-> <<Other("broker", "jms")>>])

MCJmsLayers == {Jms}

\* Of a variable set twice the last counts.
MCUserVariables ==
    {<<>>, <<It("user", "first"), It("queue", "cr"), It("user", "cr")>>}

Settings == [database : Databases \cup {NoDatabase}, jms : BOOLEAN]
MCServerLists == {<<s>> : s \in Settings} \cup {<<s, t>> : s \in Settings, t \in Settings}

\* A plain layer for the run about several servers with JMS.
PlainEnvLayers == {Custom([deploymentConfigs |-> <<DC("kieserver", Unset, [env |-> <<It("name", "env")>>])>>])}
=============================================================================
