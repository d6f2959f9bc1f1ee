SPECIFICATION FairSpec
CONSTANTS
    Workers = {w1, w2, w3}
    Users = {aki, ren}
    MaxGames = 2
INVARIANTS
    TypeOK
    NoUseAfterDestruction
    ListAgreesWithGames
PROPERTIES
    ImplementsLobby
    ListIsOneMoment
    EveryTaskEnds
    StoppedIsSaved
