------------------------------- MODULE Ledger -------------------------------
(***************************************************************************)
(* What the database promises the rest of the server: accounts and results *)
(* that only grow, each nickname with one id for good, each game recorded  *)
(* whole or not at all, and answers that come from them.  No connections,  *)
(* transactions, locks or restarts.                                        *)
(***************************************************************************)
EXTENDS Naturals, Sequences

CONSTANTS Nicknames, Games,
          Result   \* for each game the players and words, by place

VARIABLES accounts,  \* nicknames, in the order of their ids from 1
          results,   \* of the games recorded, the rows of each
          logins,    \* the ids that clients were answered
          told       \* the last answer about a user's games

ledger == <<accounts, results, logins, told>>

Nothing == [to |-> 0, games |-> {}]

Init == accounts = <<>> /\ results = <<>> /\ logins = {} /\ told = Nothing

Account(id) == [nickname |-> accounts[id], id |-> id]

Register(n) ==
    /\ \A id \in DOMAIN accounts : accounts[id] # n
    /\ accounts' = Append(accounts, n)
    /\ logins' = logins \cup {[nickname |-> n, id |-> Len(accounts) + 1]}
    /\ UNCHANGED <<results, told>>

LogIn ==
    /\ \E id \in DOMAIN accounts : logins' = logins \cup {Account(id)}
    /\ UNCHANGED <<accounts, results, told>>

Rows(g) ==
    {[user |-> Result[g][place].user, words |-> Result[g][place].words, place |-> place] :
        place \in DOMAIN Result[g]}

Record ==
    /\ \E g \in Games : results' = Append(results, Rows(g))
    /\ UNCHANGED <<accounts, logins, told>>

\* Of the games recorded first.
GamesOf(user, first) ==
    UNION {{[game |-> i, words |-> r.words, place |-> r.place] :
               r \in {q \in results[i] : q.user = user}} : i \in 1..first}

\* A read may fail on its way: then the later games are not shown.
Tell ==
    /\ \E id \in DOMAIN accounts, first \in 0..Len(results) :
          told' = [to |-> id, games |-> GamesOf(id, first)]
    /\ UNCHANGED <<accounts, results, logins>>

Next == \/ \E n \in Nicknames : Register(n)
        \/ LogIn \/ Record \/ Tell

Spec == Init /\ [][Next]_ledger
=============================================================================
