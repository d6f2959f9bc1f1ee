------------------------------- MODULE Lobby -------------------------------
(***************************************************************************)
(* What GamesController promises of the games together: ids are given in   *)
(* order and once, a game that is closed is never open again, and it is    *)
(* stored once and only then.  No threads, locks or references.            *)
(***************************************************************************)
EXTENDS Naturals, Sequences

VARIABLES opened,  \* how many games there have been; their ids are 0..opened-1
          open,    \* the ids of the games that can be joined
          stored   \* how often each game has been stored, the one with id 0 first

lobby == <<opened, open, stored>>

Init == opened = 0 /\ open = {} /\ stored = <<>>

Open ==
    /\ open' = open \cup {opened} /\ opened' = opened + 1
    /\ stored' = Append(stored, 0)

Close(id) ==
    /\ id \in open /\ open' = open \ {id}
    /\ UNCHANGED <<opened, stored>>

Store(id) ==
    /\ id < opened /\ id \notin open /\ stored[id + 1] = 0
    /\ stored' = [stored EXCEPT ![id + 1] = 1]
    /\ UNCHANGED <<opened, open>>

Next == \/ Open
        \/ \E id \in 0..opened : Close(id) \/ Store(id)

Spec == Init /\ [][Next]_lobby
=============================================================================
