SPECIFICATION FairSpec
CONSTANTS
    a1 = a1
    a2 = a2
    s1 = s1
    s2 = s2
    Apps = {a1, a2}
    Servers = {s1, s2}
    AppOf <- OneEach
    Absent = Absent
    None = None
    Versions = {1, 2, 3, 4, 5}
    States = {x, y}
    Disturbances = {"scale", "pod", "register", "delete", "failure", "crash"}
    MaxDisturbances = 2
INVARIANTS
    TypeOK
PROPERTIES
    StateIsTheServers
    IdleServersDetached
