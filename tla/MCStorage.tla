------------------------------ MODULE MCStorage ------------------------------
\* The database with two nicknames and three games: one of both players, one that
\* only the second has joined, and one that nobody has.
EXTENDS Storage, TLC

CONSTANTS w1, w2, w3, aki, ren, g1, g2, g3

MCResult ==
    g1 :> <<[user |-> 2, words |-> 3], [user |-> 1, words |-> 2]>>
    @@ g2 :> <<[user |-> 2, words |-> 0]>>
    @@ g3 :> <<>>
=============================================================================
