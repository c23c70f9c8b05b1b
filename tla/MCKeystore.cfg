SPECIFICATION Spec
CONSTANTS
    keystore = keystore
    console = console
    build = build
    NoIntent = NoIntent
    NoPassword = NoPassword
    Absent = Absent
    NoHand = NoHand
    Secrets = {keystore}
    DCs = {console}
    BCs = {}
    CreateOrder <- KeystoreAndConsole
    Intents = {i1, i2}
    BadIntents = {}
    Passwords = {p1, p2}
    Versions = {1, 2, 3, 4, 5}
    UserMayBlank = FALSE
    Disturbances = {"edit"}
    MaxDisturbances = 1
    MaxLag = 1
    MaxBuffer = 1
INVARIANTS
    SettledKeystoreOpens
