SPECIFICATION Spec
CONSTANTS
    Unset = Unset
    Empty = Empty
    NoName = NoName
    NoDatabase = NoDatabase
    Databases = {mysql}
    CommonLayers <- MCCommonLayers
    EnvLayers <- MCEnvLayers
    DatabaseLayers <- MCDatabaseLayers
    JmsLayers <- MCJmsLayers
    UserVariables <- MCUserVariables
    RouterVariables = {"port", "host"}
    ServerLists <- MCServerLists
INVARIANTS
    TypeOK
    SlicesAreFilled
    ServerStaysFound
    ObjectsAsLayered
    LastLayerWins
CHECK_DEADLOCK FALSE
