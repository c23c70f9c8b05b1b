SPECIFICATION Spec
CONSTANTS
    keystore = keystore
    console = console
    build = build
    NoIntent = NoIntent
    NoPassword = NoPassword
    Absent = Absent
    NoHand = NoHand
    Secrets = {keystore}
    DCs = {console}
    BCs = {}
    CreateOrder <- KeystoreAndConsole
    Intents = {i1, i2}
    BadIntents = {}
    Passwords = {p1, p2}
    Versions = {1, 2, 3, 4, 5}
    UserMayBlank = TRUE
    Disturbances = {"edit", "failure", "crash"}
    MaxDisturbances = 2
    MaxLag = 1
    MaxBuffer = 1
SYMMETRY Interchangeable
INVARIANTS
    TypeOK
    NoBlindWrite
    NoLostWakeup
PROPERTIES
    UserOwnsSpec
