\* Three workers, two nicknames, three games, one kill at any moment.
SPECIFICATION FairSpec
CONSTANTS
    w1 = w1
    w2 = w2
    w3 = w3
    aki = aki
    ren = ren
    g1 = g1
    g2 = g2
    g3 = g3
    Workers = {w1, w2, w3}
    Nicknames = {aki, ren}
    Games = {g1, g2, g3}
    Result <- MCResult
    MaxKills = 1
INVARIANTS TypeOK OneIdPerNickname GamesAreStoredWhole
PROPERTIES ImplementsLedger LockReturns
