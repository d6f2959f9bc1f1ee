\* A game that ends while another task writes to the database: three workers, two nicknames, three games, and nobody kills the process.
SPECIFICATION Spec
CONSTANTS
    w1 = w1
    w2 = w2
    w3 = w3
    aki = aki
    ren = ren
    g1 = g1
    g2 = g2
    g3 = g3
    Workers = {w1, w2, w3}
    Nicknames = {aki, ren}
    Games = {g1, g2, g3}
    Result <- MCResult
    MaxKills = 0
INVARIANT EndedGamesAreStored
