------------------------------ MODULE Shiritori ------------------------------
(***************************************************************************)
(* What a game promises, without tasks, locks, lists or counters: players  *)
(* join, words are added to a chain that obeys the rules of shiritori, the *)
(* game closes, and the standings are written once, from the chain as it   *)
(* then is.  GameSession implements this (see Game!Spec there).            *)
(***************************************************************************)
EXTENDS WordRules, FiniteSets

CONSTANTS Users, Words, Dict, StartKana

VARIABLES members,    \* who has joined
          chain,      \* the words played: by whom, as typed, and how read
          kept,       \* their dictionary entries
          phase,      \* "open", then "closing", then "archived"
          standings   \* the rows stored

vars == <<members, chain, kept, phase, standings>>

Points(u) == Cardinality({n \in DOMAIN chain : chain[n].by = u})

\* The kana the next word must start with.
Wanted == IF chain = <<>> THEN StartKana ELSE toHiragana(getLastKana(chain[Len(chain)].reading))

LastPlayed(u) == chain # <<>> /\ chain[Len(chain)].by = u

Init ==
    /\ members = {} /\ chain = <<>> /\ kept = <<>>
    /\ phase = "open" /\ standings = <<>>

Join(u) ==
    /\ phase # "archived"
    /\ members' = members \cup {u}
    /\ UNCHANGED <<chain, kept, phase, standings>>

\* A noun in one of its spellings, new to the game, read so that it joins and does
\* not end in ん.  While the game is closing, words that were already being looked
\* up are still played.
Play(u, word, e, reading) ==
    /\ phase # "archived"
    /\ u \in members /\ ~LastPlayed(u)
    /\ e.noun /\ word \in Spellings(e) /\ reading \in Readings(e)
    /\ ~isWordDoubled(word, kept)
    /\ toHiragana(getFirstKana(reading)) = Wanted
    /\ toHiragana(getLastKana(reading)) \notin {NN, NoKana}
    /\ chain' = Append(chain, [by |-> u, typed |-> word, reading |-> reading])
    /\ kept' = Append(kept, Stored(e, reading))
    /\ UNCHANGED <<members, phase, standings>>

Close ==
    /\ phase = "open" /\ phase' = "closing"
    /\ UNCHANGED <<members, chain, kept, standings>>

\* One row for each member, with the member's points, best first.
Row(rows, i) == /\ rows[i].user \in members
                /\ rows[i].score = Points(rows[i].user)

IsStanding(rows) ==
    /\ Len(rows) = Cardinality(members)
    /\ \A i \in DOMAIN rows : Row(rows, i)
    /\ \A i, j \in DOMAIN rows : i < j =>
          rows[i].user # rows[j].user /\ rows[i].score >= rows[j].score

Archive ==
    /\ phase # "archived" /\ phase' = "archived"
    /\ IsStanding(standings')
    /\ UNCHANGED <<members, chain, kept>>

Next ==
    \/ \E u \in Users : Join(u)
    \/ \E u \in Users, word \in Words :
          \E i \in DOMAIN Dict[word] :
             \E reading \in Readings(Dict[word][i]) : Play(u, word, Dict[word][i], reading)
    \/ Close
    \/ Archive

Spec == Init /\ [][Next]_vars
=============================================================================
