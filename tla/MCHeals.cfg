SPECIFICATION FairSpec
CONSTANTS
    keystore = keystore
    console = console
    build = build
    NoIntent = NoIntent
    NoPassword = NoPassword
    Absent = Absent
    NoHand = NoHand
    Secrets = {}
    DCs = {console}
    BCs = {build}
    CreateOrder <- ConsoleAndBuild
    Intents = {i1, i2}
    BadIntents = {i2}
    Passwords = {p1, p2}
    Versions = {1, 2, 3, 4, 5}
    UserMayBlank = FALSE
    Disturbances = {"edit", "delete", "tamper", "readiness", "failure", "crash"}
    MaxDisturbances = 1
    MaxLag = 0
    MaxBuffer = 1
INVARIANTS
    NoBlindWrite
PROPERTIES
    EventuallyConverged
    EventuallyQuiet
CHECK_DEADLOCK FALSE
