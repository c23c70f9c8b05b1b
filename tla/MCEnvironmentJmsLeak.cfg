SPECIFICATION Spec
CONSTANTS
    Unset = Unset
    Empty = Empty
    NoName = NoName
    NoDatabase = NoDatabase
    Databases = {mysql}
    CommonLayers <- MCCommonLayers
    EnvLayers <- PlainEnvLayers
    DatabaseLayers <- MCDatabaseLayers
    JmsLayers <- MCJmsLayers
    UserVariables <- MCUserVariables
    RouterVariables = {"port", "host"}
    ServerLists <- MCServerLists
INVARIANTS
    JmsOnlyWhereEnabled
CHECK_DEADLOCK FALSE
