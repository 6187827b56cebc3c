SPECIFICATION Spec
CONSTANTS
    Configs <- MCConfigs
    NoConfig = NoConfig
    FileGenesis <- MCFileGenesis
    MaxEnded = 2
    MaxBest = 2
INVARIANTS
    TypeOK
    WorkersCanSend
    WholeNodeOnNetwork
PROPERTIES
    EssentialFailureStops
    StartEnds
