------------------------------- MODULE Storage -------------------------------
(***************************************************************************)
(* The database: UsersRepo and GamesRepo (repo/), with the tasks of        *)
(* InfoService and the destructors of games that use them from the worker  *)
(* threads.  Each call opens a connection of its own to one SQLite file.   *)
(*                                                                         *)
(* SQLite itself is modelled from how it is used: the file is in WAL mode, *)
(* so a read sees what was committed last and waits for nobody; one        *)
(* connection at a time may write, and since no busy timeout is set, a     *)
(* second one is refused at once; what is not committed is gone when the   *)
(* process ends.  A step is one SQL statement, or its beginning or end.    *)
(***************************************************************************)
EXTENDS Naturals, Sequences, FiniteSets

CONSTANTS Workers,    \* worker threads
          Nicknames,  \* what clients log in as
          Games,      \* the games that are played
          Result,     \* for each game the players and words, by place
          MaxKills    \* bound: how often the process is killed from outside

NoOne == "no one"

ASSUME StorageAssumption ==
    /\ NoOne \notin Workers \cup Nicknames \cup Games
    /\ Result \in [Games -> Seq([user : Nat, words : Nat])]
    /\ \A g \in Games : \A i, j \in DOMAIN Result[g] :
          i # j => Result[g][i].user # Result[g][j].user
    /\ MaxKills \in Nat

VARIABLES
    \* The file: users in the order of their ids, the last id given to a game, and
    \* game_history; the connection that holds the write lock.
    users, lastGame, rows, writer,
    \* Where each worker stands, the nickname or the game it works on, and what
    \* its open transaction has written.
    pc, about, draft,
    \* History: the ids clients were answered, logins that were given up, games
    \* that have ended, kills, and the last answer about a user's games: whose they
    \* are, and each game's number, words and place.
    answered, refused, ended, kills, told

file    == <<users, lastGame, rows>>
tasks   == <<pc, about, draft>>
history == <<answered, refused, ended, kills, told>>
vars    == <<file, writer, tasks, history>>

Elems(s) == {s[i] : i \in DOMAIN s}

NoDraft == [game |-> 0, rows |-> {}]

Init ==
    /\ users = <<>> /\ lastGame = 0 /\ rows = {} /\ writer = NoOne
    /\ pc = [w \in Workers |-> "idle"]
    /\ about = [w \in Workers |-> NoOne]
    /\ draft = [w \in Workers |-> NoDraft]
    /\ answered = {} /\ refused = {} /\ ended = {} /\ kills = 0
    /\ told = [to |-> 0, games |-> {}]

\* A failed statement leaves its connection open.
ReturnLeaving(w) ==
    /\ pc' = [pc EXCEPT ![w] = "idle"] /\ about' = [about EXCEPT ![w] = NoOne]
    /\ draft' = [draft EXCEPT ![w] = NoDraft]
    /\ UNCHANGED writer

\* The task is over, with its connection closed and its lock let go.
Return(w) ==
    /\ pc' = [pc EXCEPT ![w] = "idle"] /\ about' = [about EXCEPT ![w] = NoOne]
    /\ draft' = [draft EXCEPT ![w] = NoDraft]
    /\ writer' = IF writer = w THEN NoOne ELSE writer

\* The process ends, by a signal or by std::terminate, and is started again: the
\* tasks and their transactions are gone, initTables finds its tables.
ProcessEnds ==
    /\ pc' = [w \in Workers |-> "idle"] /\ about' = [w \in Workers |-> NoOne]
    /\ draft' = [w \in Workers |-> NoDraft]
    /\ writer' = NoOne
    /\ UNCHANGED file

-----------------------------------------------------------------------------
(* InfoService::login and addUser *)

\* getUserByNickname finds the user, who is answered the id.
LoginFinds(w) ==
    /\ pc[w] = "idle"
    /\ \E id \in DOMAIN users : answered' = answered \cup {[nickname |-> users[id], id |-> id]}
    /\ UNCHANGED <<file, writer, tasks, refused, ended, kills, told>>

\* It throws, because there is no such user or because the read failed, and the
\* nickname goes to addUser; the command addUser begins here.
LoginMisses(w) ==
    /\ pc[w] = "idle"
    /\ \E n \in Nicknames : about' = [about EXCEPT ![w] = n]
    /\ pc' = [pc EXCEPT ![w] = "add"]
    /\ UNCHANGED <<file, writer, draft, history>>

\* UsersRepo::addUser: INSERT takes the write lock.
InsertUser(w) ==
    /\ pc[w] = "add" /\ writer = NoOne
    /\ writer' = w /\ pc' = [pc EXCEPT ![w] = "adding"]
    /\ UNCHANGED <<file, about, draft, history>>

\* SQLITE_BUSY: addUser throws and the controller's task answers nobody.
InsertUserBusy(w) ==
    /\ pc[w] = "add" /\ writer # NoOne
    /\ refused' = refused \cup {about[w]}
    /\ Return(w)
    /\ UNCHANGED <<file, answered, ended, kills, told>>

\* Inserts the nickname whether or not it is there.
AddTwice(w) ==
    /\ pc[w] = "adding"
    /\ users' = Append(users, about[w])
    /\ answered' = answered \cup {[nickname |-> about[w], id |-> Len(users) + 1]}
    /\ Return(w)
    /\ UNCHANGED <<lastGame, rows, refused, ended, kills, told>>

\* The new user is committed and its id answered.
UserAdded(w) ==
    /\ pc[w] = "adding" /\ about[w] \notin Elems(users)
    /\ users' = Append(users, about[w])
    /\ answered' = answered \cup {[nickname |-> about[w], id |-> Len(users) + 1]}
    /\ Return(w)
    /\ UNCHANGED <<lastGame, rows, refused, ended, kills, told>>

\* nickname is UNIQUE: someone else has inserted it since; addUser throws.
UserExists(w) ==
    /\ pc[w] = "adding" /\ about[w] \in Elems(users)
    /\ refused' = refused \cup {about[w]}
    /\ Return(w)
    /\ UNCHANGED <<file, answered, ended, kills, told>>

-----------------------------------------------------------------------------
(* ~GameSession: saveStats and putGame *)

\* The last holder of a game of registered players lets go of it.
GameEnds(w) ==
    /\ pc[w] = "idle"
    /\ \E g \in Games \ ended :
          /\ \A i \in DOMAIN Result[g] : Result[g][i].user \in DOMAIN users
          /\ ended' = ended \cup {g} /\ about' = [about EXCEPT ![w] = g]
    /\ pc' = [pc EXCEPT ![w] = "save"]
    /\ UNCHANGED <<file, writer, draft, answered, refused, kills, told>>

\* INSERT INTO games takes the write lock and the next id.
InsertGame(w) ==
    /\ pc[w] = "save" /\ writer = NoOne
    /\ writer' = w /\ pc' = [pc EXCEPT ![w] = "saving"]
    /\ draft' = [draft EXCEPT ![w] = [game |-> lastGame + 1, rows |-> {}]]
    /\ UNCHANGED <<file, about, history>>

\* SQLITE_BUSY: putGame throws in a destructor, and the process is terminated.
InsertGameBusy(w) ==
    /\ pc[w] = "save" /\ writer # NoOne
    /\ ProcessEnds
    /\ UNCHANGED history

\* The row of the player in the next place.
Row(w) ==
    LET place == Cardinality(draft[w].rows) + 1
        part  == Result[about[w]][place]
    IN  [game |-> draft[w].game, user |-> part.user, words |-> part.words, place |-> place]

\* Without BEGIN each row is committed on its own.
InsertRowAtOnce(w) ==
    /\ pc[w] = "saving" /\ Cardinality(draft[w].rows) < Len(Result[about[w]])
    /\ draft' = [draft EXCEPT ![w].rows = @ \cup {Row(w)}]
    /\ rows' = rows \cup {Row(w)} /\ lastGame' = draft[w].game
    /\ UNCHANGED <<users, writer, pc, about, history>>

InsertRow(w) ==
    /\ pc[w] = "saving" /\ Cardinality(draft[w].rows) < Len(Result[about[w]])
    /\ draft' = [draft EXCEPT ![w].rows = @ \cup {Row(w)}]
    /\ UNCHANGED <<file, writer, pc, about, history>>

Commit(w) ==
    /\ pc[w] = "saving" /\ Cardinality(draft[w].rows) = Len(Result[about[w]])
    /\ rows' = rows \cup draft[w].rows /\ lastGame' = draft[w].game
    /\ Return(w)
    /\ UNCHANGED <<users, history>>

-----------------------------------------------------------------------------
(* InfoService::getUserInfo and getGamesHistory *)

\* Selects the rows of everybody.
HistoryOfAll(user, upto) ==
    {[game |-> r.game, words |-> r.words, place |-> r.place] : r \in {q \in rows : q.game <= upto}}

\* getGameHistoryByUserId: one SELECT over what is committed.  The rows come in the
\* order in which they were stored, and the loop ends at whatever is not a row: a step
\* that fails cuts the answer short after the game `upto`.
getGameHistoryByUserId(user, upto) ==
    {[game |-> r.game, words |-> r.words, place |-> r.place] :
        r \in {q \in rows : q.user = user /\ q.game <= upto}}

\* A registered user asks for the past games; getUserInfo shows how many they are and
\* the average of their words.
TellGames(w) ==
    /\ pc[w] = "idle"
    /\ \E id \in DOMAIN users, upto \in 0..lastGame :
          told' = [to |-> id, games |-> getGameHistoryByUserId(id, upto)]
    /\ UNCHANGED <<file, writer, tasks, answered, refused, ended, kills>>

-----------------------------------------------------------------------------
\* The server has no shutdown of its own: it is stopped from outside.
Kill ==
    /\ kills < MaxKills /\ kills' = kills + 1
    /\ ProcessEnds
    /\ UNCHANGED <<answered, refused, ended, told>>

\* A task that has begun goes on.
Work(w) ==
    \/ InsertUser(w) \/ InsertUserBusy(w) \/ UserAdded(w) \/ UserExists(w)
    \/ InsertGame(w) \/ InsertGameBusy(w) \/ InsertRow(w) \/ Commit(w)

Next ==
    \/ \E w \in Workers : LoginFinds(w) \/ LoginMisses(w) \/ TellGames(w) \/ GameEnds(w) \/ Work(w)
    \/ Kill

Spec     == Init /\ [][Next]_vars
FairSpec == Spec /\ \A w \in Workers : WF_vars(Work(w))

-----------------------------------------------------------------------------
\* Every variable has its type, and the write lock is held exactly by the worker
\* that is writing.
TypeOK ==
    /\ users \in Seq(Nicknames) /\ lastGame \in Nat
    /\ rows \subseteq [game : Nat, user : Nat, words : Nat, place : Nat]
    /\ writer \in Workers \cup {NoOne}
    /\ pc \in [Workers -> {"idle", "add", "adding", "save", "saving"}]
    /\ about \in [Workers -> Nicknames \cup Games \cup {NoOne}]
    /\ draft \in [Workers ->
          [game : Nat, rows : SUBSET [game : Nat, user : Nat, words : Nat, place : Nat]]]
    /\ \A w \in Workers : writer = w <=> pc[w] \in {"adding", "saving"}
    /\ answered \subseteq [nickname : Nicknames, id : Nat]
    /\ refused \subseteq Nicknames /\ ended \subseteq Games /\ kills \in 0..MaxKills
    /\ told \in [to : Nat, games : SUBSET [game : Nat, words : Nat, place : Nat]]

\* However first logins of one nickname race (info_service.cpp:43-53), and whatever
\* reads fail, a client is only ever answered the id that is its nickname's, and no
\* two nicknames share one.
OneIdPerNickname ==
    /\ \A a \in answered : a.id \in DOMAIN users /\ users[a.id] = a.nickname
    /\ \A a, b \in answered : a.nickname = b.nickname <=> a.id = b.id

Stored(id) == {r \in rows : r.game = id}

\* The rows that a game leaves under an id.
Whole(g, id) ==
    {[game |-> id, user |-> Result[g][i].user, words |-> Result[g][i].words, place |-> i] :
        i \in DOMAIN Result[g]}

\* Whenever the process ends, and across its restarts, game_history holds whole
\* games: under each id the rows of one game that has ended, under no other id a
\* row, and no game under two ids.
GamesAreStoredWhole ==
    /\ \E stored \in [1..lastGame -> ended] :
          /\ \A id \in 1..lastGame : Stored(id) = Whole(stored[id], id)
          /\ \A i, j \in 1..lastGame : i # j => stored[i] # stored[j]
    /\ \A r \in rows : r.game \in 1..lastGame

\* The rows of each game, by its id.
Recorded ==
    [id \in 1..lastGame |->
        {[user |-> r.user, words |-> r.words, place |-> r.place] : r \in Stored(id)}]

TheLedger == INSTANCE Ledger WITH
    accounts <- users, logins <- answered, told <- told, results <- Recorded

\* Connections, transactions, failed statements and restarts are no concern of the
\* rest of the server: what it sees is a ledger in which each step registers one
\* nickname, records one whole game, or answers from what is recorded, a user's games
\* with all of them or, where a read fails on the way, with the earliest.
ImplementsLedger == TheLedger!Spec

\* The write lock is given back on every path, so that others can write.
LockReturns == writer # NoOne ~> writer = NoOne

-----------------------------------------------------------------------------
(* What the documents say and the code does not do. *)

\* "Scores being stored, can start new game." (README.md:20): a game that has ended
\* is stored or being stored, where nobody kills the process.
EndedGamesAreStored ==
    \A g \in ended :
        \/ \E w \in Workers : about[w] = g
        \/ \E id \in 1..lastGame : Stored(id) = Whole(g, id)
=============================================================================
