SPECIFICATION FairSpec
CONSTANTS
    pod = pod
    route = route
    ConfigMaps = {common}
    ConsoleOrder <- PodAndRoute
    Route = route
    RouteName = RouteName
    ServiceVersion = csv
    Hosts = {h1}
    NoHost = NoHost
    MaxOperator = 2
    UserData = {u1, u2}
    ConsoleLink = Installer
    OtherLinks = {Docs}
    Absent = Absent
    None = None
    Versions = {1, 2, 3, 4, 5, 6}
    Disturbances = {"edit", "delete", "republish", "upgrade", "failure", "crash"}
    MaxDisturbances = 1
INVARIANTS
    TypeOK
    OneConsoleLink
PROPERTIES
    OthersLinksKept
    EditsAreBackedUp
    ConsoleInPlace
    TemplatesReachKieApp
