SPECIFICATION FairSpec
CONSTANTS
    Hosts = {h1, h2}
    ApplicationName = ApplicationName
    GivenHosts = {g1}
    NoHost = NoHost
    Absent = Absent
    None = None
    Auths <- SomeAuths
    Disturbances = {"edit", "tamper", "registry", "failure", "crash"}
    MaxDisturbances = 1
INVARIANTS
    TypeOK
    HostsNeedNoResync
    LocalTriggersAreBacked
PROPERTIES
    HostsSettle
    TagsProvided
