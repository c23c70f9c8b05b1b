SPECIFICATION Spec
CONSTANTS
    Stems = {"kieserver"}
    NoJms = NoJms
    CustomQueues = {}
    Credentials = {c1, c2}
    NoCredentials = NoCredentials
    NoName = NoName
    NoNumber = NoNumber
    UserSets <- NamingSets
    MaxSets = 3
    MaxDeployments = 2
    MaxEdits = 2
    NoPass = NoPass
INVARIANTS
    TypeOK
    EverySetIsNamed
    ServersAreFound
    SecondPassChangesNothing
PROPERTIES
    NamesAreKept
