SPECIFICATION Spec
CONSTANTS
    Users = {u1, u2}
    Admin = u1
    NoUser = NoUser
    Workers = {w1, w2}
    Clients = {k1, k2}
    NoClient = NoClient
    Words <- MCWords
    Dict <- MCDict
    StartKana <- MCStartKana
INVARIANTS
    TypeOK
    ChainUnbroken
    NoWordTwice
    PlayersAlternate
    ScoresCountMoves
    NoUpdateMissed
    SavedIsFinal
PROPERTIES
    ImplementsShiritori
    EndIsAnnounced
SYMMETRY Symmetry
