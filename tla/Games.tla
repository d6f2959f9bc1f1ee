------------------------------- MODULE Games -------------------------------
(***************************************************************************)
(* GamesController (controller/games_controller.cpp): the list of active   *)
(* games under its shared mutex, and the objects on it, which live as long *)
(* as the list or a task owns them.  What a word or a player does to a     *)
(* game is modelled in GameSession; here a word may end its game, and the  *)
(* question is which games there are, for whom, and until when.            *)
(*                                                                         *)
(* A step is one hold of the mutex, or a part of one where another lock is *)
(* taken or the database is written under it.  A game's own mutex is held  *)
(* for a single step each time and never while another is waited for.      *)
(***************************************************************************)
EXTENDS Naturals, Sequences, FiniteSets

CONSTANTS Workers,   \* threads that run the controller's tasks
          Users,     \* user ids
          MaxGames   \* bound: games that are started

ASSUME GamesAssumption == MaxGames \in Nat /\ IsFiniteSet(Workers)

VARIABLES
    \* activeGames_: for each listed id the object it leads to; nextGameId_.
    activeGames, nextGameId,
    \* The GameSession objects in the order they were made: the id and the admin in
    \* their contexts, stop_, and how often saveStats has run for them.
    games,
    \* Where each worker stands, the object it works on, the ids its walk has seen.
    at, game, seen

task == <<at, game, seen>>
list == <<activeGames, nextGameId>>
vars == <<list, games, task>>

NoGame == 0
Ids    == 0..(MaxGames - 1)

Init ==
    /\ activeGames = <<>> /\ nextGameId = 0 /\ games = <<>>
    /\ at = [w \in Workers |-> "idle"] /\ game = [w \in Workers |-> NoGame]
    /\ seen = [w \in Workers |-> {}]

\* The mutex: who holds it shared or exclusively from one step to the next.
Sharing   == {w \in Workers : at[w] \in {"walking", "joining"}}
Excluding == {w \in Workers : at[w] = "storing"}

CanShare   == Excluding = {}
CanExclude == Excluding = {} /\ Sharing = {}

\* The tasks that own the object, besides the list.
Owners(o) == {w \in Workers : game[w] = o /\ at[w] \in {"check", "lookup", "erase", "release"}}

Listed(o) == \E id \in DOMAIN activeGames : activeGames[id] = o

Goes(w, to) == at' = [at EXCEPT ![w] = to]

\* The task is over and its locals are gone.
Ends(w) ==
    /\ Goes(w, "idle")
    /\ game' = [game EXCEPT ![w] = NoGame] /\ seen' = [seen EXCEPT ![w] = {}]

\* The worker takes up a task of the controller, one that needs the mutex exclusively
\* or one that begins by sharing it.
Begin(w) ==
    /\ at[w] = "idle"
    /\ \E kind \in {"start", "stop", "ready"} :
          /\ kind = "start" =>
                nextGameId + Cardinality({v \in Workers : at[v] = "start"}) < MaxGames
          /\ Goes(w, kind)
    /\ UNCHANGED <<list, games, game, seen>>

-----------------------------------------------------------------------------
(* startNewGame and stopGame *)

\* Forgets to count.
StartUncounted(w) ==
    /\ at[w] = "start" /\ CanExclude
    /\ \E u \in Users :
          games' = Append(games, [id |-> nextGameId, adminId |-> u, stop |-> FALSE, saves |-> 0])
    /\ activeGames' = [id \in DOMAIN activeGames \cup {nextGameId} |->
                          IF id = nextGameId THEN Len(games) + 1 ELSE activeGames[id]]
    /\ Ends(w)
    /\ UNCHANGED <<nextGameId>>

startNewGame(w) ==
    /\ at[w] = "start" /\ CanExclude
    /\ \E u \in Users :
          games' = Append(games, [id |-> nextGameId, adminId |-> u, stop |-> FALSE, saves |-> 0])
    /\ activeGames' = [id \in DOMAIN activeGames \cup {nextGameId} |->
                          IF id = nextGameId THEN Len(games) + 1 ELSE activeGames[id]]
    /\ nextGameId' = nextGameId + 1
    /\ Ends(w)

Without(id) == [i \in DOMAIN activeGames \ {id} |-> activeGames[i]]

\* No such game, or not this user's.
StopRefused(w) ==
    /\ at[w] = "stop" /\ CanExclude
    /\ \E id \in Ids, u \in Users :
          id \in DOMAIN activeGames => games[activeGames[id]].adminId # u
    /\ Ends(w)
    /\ UNCHANGED <<list, games>>

\* The game is stopped and erased in one hold; where no word task owns it the erased
\* reference was the last, and the destructor runs under the controller's lock.
stopGame(w) ==
    /\ at[w] = "stop" /\ CanExclude
    /\ \E id \in DOMAIN activeGames, u \in Users :
          LET o == activeGames[id]
          IN  /\ games[o].adminId = u
              /\ games' = [games EXCEPT ![o].stop = TRUE]
              /\ activeGames' = Without(id)
              /\ IF Owners(o) = {}
                 THEN Goes(w, "storing") /\ game' = [game EXCEPT ![w] = o] /\ UNCHANGED seen
                 ELSE Ends(w)
    /\ UNCHANGED <<nextGameId>>

saveStats(o) == games' = [games EXCEPT ![o].saves = @ + 1]

Store(w) ==
    /\ at[w] = "storing"
    /\ saveStats(game[w])
    /\ Ends(w)
    /\ UNCHANGED <<list>>

-----------------------------------------------------------------------------
(* handleWord *)

GameNotFound(w) ==
    /\ at[w] = "ready" /\ CanShare
    /\ \E id \in Ids : id \notin DOMAIN activeGames
    /\ Ends(w)
    /\ UNCHANGED <<list, games>>

FindGame(w) ==
    /\ at[w] = "ready" /\ CanShare
    /\ \E id \in DOMAIN activeGames : game' = [game EXCEPT ![w] = activeGames[id]]
    /\ Goes(w, "check")
    /\ UNCHANGED <<list, games, seen>>

\* The first critical section of the game: its stop_ or another test refuses the
\* word, or the dictionary is asked.
Check(w) ==
    /\ at[w] = "check"
    /\ \/ Goes(w, "release")
       \/ ~games[game[w]].stop /\ Goes(w, "lookup")
    /\ UNCHANGED <<list, games, game, seen>>

\* Tries the word again until it is accepted or the game has stopped.
StartOver(w) ==
    /\ at[w] = "lookup" /\ Goes(w, "check")
    /\ UNCHANGED <<list, games, game, seen>>

\* The dictionary fails, or the second critical section refuses or accepts the word.
GameGoesOn(w) ==
    /\ at[w] = "lookup" /\ Goes(w, "release")
    /\ UNCHANGED <<list, games, game, seen>>

\* The word ends the game.
GameEnds(w) ==
    /\ at[w] = "lookup" /\ Goes(w, "erase")
    /\ games' = [games EXCEPT ![game[w]].stop = TRUE]
    /\ UNCHANGED <<list, game, seen>>

\* Takes the lock as a reader.
EraseSharing(w) ==
    /\ at[w] = "erase" /\ CanShare
    /\ activeGames' = Without(games[game[w]].id)
    /\ Goes(w, "release")
    /\ UNCHANGED <<nextGameId, games, game, seen>>

\* Leaves the ended game on the list.
EraseNothing(w) ==
    /\ at[w] = "erase" /\ CanExclude
    /\ Goes(w, "release")
    /\ UNCHANGED <<list, games, game, seen>>

\* Erases at whatever the look-up gives: past the end of the map that may be any game.
EraseUnchecked(w) ==
    /\ at[w] = "erase" /\ CanExclude
    /\ LET id == games[game[w]].id
       IN  IF id \in DOMAIN activeGames \/ activeGames = <<>> THEN activeGames' = Without(id)
           ELSE \E other \in DOMAIN activeGames : activeGames' = Without(other)
    /\ Goes(w, "release")
    /\ UNCHANGED <<nextGameId, games, game, seen>>

\* The game is looked up again, by its id, and erased if it is still there.
Erase(w) ==
    /\ at[w] = "erase" /\ CanExclude
    /\ activeGames' = Without(games[game[w]].id)
    /\ Goes(w, "release")
    /\ UNCHANGED <<nextGameId, games, game, seen>>

\* Counts on the list alone.
ReleaseUnlisted(w) ==
    /\ at[w] = "release"
    /\ IF ~Listed(game[w]) THEN saveStats(game[w]) ELSE UNCHANGED games
    /\ Ends(w)
    /\ UNCHANGED <<list>>

\* The player is answered and the reference goes; if it was the last, the game is
\* stored, with no lock held.
Release(w) ==
    /\ at[w] = "release"
    /\ IF Owners(game[w]) = {w} /\ ~Listed(game[w]) THEN saveStats(game[w]) ELSE UNCHANGED games
    /\ Ends(w)
    /\ UNCHANGED <<list>>

-----------------------------------------------------------------------------
(* getActiveGames, getGameInfo and addPlayerToGame *)

getActiveGames(w) ==
    /\ at[w] = "ready" /\ CanShare /\ Goes(w, "walking")
    /\ UNCHANGED <<list, games, game, seen>>

\* getInfo takes the mutex of one game after the other, in the order of the map.
WalkOn(w) ==
    /\ at[w] = "walking"
    /\ \E id \in DOMAIN activeGames \ seen[w] : seen' = [seen EXCEPT ![w] = @ \cup {id}]
    /\ UNCHANGED <<list, games, at, game>>

EndWalk(w) ==
    /\ at[w] = "walking" /\ DOMAIN activeGames \subseteq seen[w]
    /\ Ends(w)
    /\ UNCHANGED <<list, games>>

\* Answers with the context of a listed game, or nobody.
getGameInfo(w) ==
    /\ at[w] = "ready" /\ CanShare
    /\ Ends(w)
    /\ UNCHANGED <<list, games>>

JoinMissed(w) ==
    /\ at[w] = "ready" /\ CanShare
    /\ \E id \in Ids : id \notin DOMAIN activeGames
    /\ Ends(w)
    /\ UNCHANGED <<list, games>>

\* Works on the game through the list, without a reference of its own.
addPlayerToGame(w) ==
    /\ at[w] = "ready" /\ CanShare
    /\ \E id \in DOMAIN activeGames : game' = [game EXCEPT ![w] = activeGames[id]]
    /\ Goes(w, "joining")
    /\ UNCHANGED <<list, games, seen>>

OnJoin(w) ==
    /\ at[w] = "joining"
    /\ Ends(w)
    /\ UNCHANGED <<list, games>>

-----------------------------------------------------------------------------
\* What waits until nobody holds the mutex, and the other steps of a task.
Exclusive(w) == startNewGame(w) \/ StopRefused(w) \/ stopGame(w) \/ Erase(w)

Step(w) ==
    \/ Store(w)
    \/ GameNotFound(w) \/ FindGame(w) \/ Check(w) \/ GameGoesOn(w) \/ GameEnds(w) \/ Release(w)
    \/ getActiveGames(w) \/ WalkOn(w) \/ EndWalk(w) \/ getGameInfo(w)
    \/ JoinMissed(w) \/ addPlayerToGame(w) \/ OnJoin(w)

Next == \E w \in Workers : Begin(w) \/ Exclusive(w) \/ Step(w)

\* A task that has begun goes on, the dictionary answers or fails, and whoever waits
\* for the mutex exclusively gets it if it is free again and again.
Fairness == \A w \in Workers : WF_vars(Step(w)) /\ SF_vars(Exclusive(w))

Spec     == Init /\ [][Next]_vars
FairSpec == Spec /\ Fairness

-----------------------------------------------------------------------------
\* Every variable has its type.
TypeOK ==
    /\ nextGameId \in 0..MaxGames /\ DOMAIN activeGames \subseteq 0..(nextGameId - 1)
    /\ games \in Seq([id : Nat, adminId : Users, stop : BOOLEAN, saves : Nat])
    /\ \A id \in DOMAIN activeGames : activeGames[id] \in DOMAIN games
    /\ at \in [Workers -> {"idle", "start", "stop", "ready", "storing", "check", "lookup",
                           "erase", "release", "walking", "joining"}]
    /\ game \in [Workers -> 0..Len(games)]
    /\ \A w \in Workers :
          game[w] # NoGame <=> at[w] \in {"storing", "check", "lookup", "erase", "release", "joining"}
    /\ seen \in [Workers -> SUBSET Ids]

\* No task touches a game after its destructor has run: neither a word task, which
\* owns the game, nor a join, which reaches it through the list alone and has only
\* the shared lock to keep it there (line 138), nor a walk over the list, from
\* which nothing it has seen goes meanwhile.
NoUseAfterDestruction ==
    /\ \A w \in Workers : game[w] # NoGame => games[game[w]].saves = 0
    /\ \A w \in Workers : at[w] = "joining" => Listed(game[w])
    /\ \A w \in Workers : seen[w] \subseteq DOMAIN activeGames
    /\ \A id \in DOMAIN activeGames : games[activeGames[id]].saves = 0

\* The list and the games agree: a game that is off the list has been stopped, so
\* that no task still in it goes on playing unseen, and is stored unless a task
\* owns it or is storing it; a stopped game on the list has the task of an ending
\* word that is about to take it off.
ListAgreesWithGames ==
    \A o \in DOMAIN games :
        /\ ~Listed(o) =>
              /\ games[o].stop
              /\ Owners(o) = {} =>
                    games[o].saves = 1 \/ \E w \in Workers : at[w] = "storing" /\ game[w] = o
        /\ games[o].stop /\ Listed(o) => \E w \in Owners(o) : at[w] = "erase"

\* How often each game was stored; objects are made in the order of their ids.
Saves == [o \in DOMAIN games |-> games[o].saves]

TheLobby == INSTANCE Lobby WITH opened <- nextGameId, open <- DOMAIN activeGames,
                                stored <- Saves

\* Ids, lists and results behave as the lobby's: however tasks, references and the
\* two kinds of locking interleave, no id is given twice, a game that is closed is
\* not open again, and saveStats runs for it at most once, after it has closed.
ImplementsLobby == TheLobby!Spec

\* getActiveGames, which looks at one game after the other, answers with exactly the
\* games that are active when it lets go of the mutex.
ListIsOneMoment ==
    [][\A w \in Workers :
         at[w] = "walking" /\ at'[w] = "idle" => seen[w] = DOMAIN activeGames]_vars

\* The shared holders leave the mutex free now and again.  A reader-preferring
\* shared_mutex gives no more than that: overlapping walks and joins keep a
\* stop or an erasure waiting.
ReadersPause == []<>(Sharing = {})

\* A walk over the list and a join always end, whatever else goes on; and if readers
\* pause, so does every task that a worker has taken up.  The dictionary is taken to
\* answer or to fail (see Fairness).  Not every end is an answer: getGameInfo and a
\* join that find no game end in silence (lines 121 and 142).
EveryTaskEnds ==
    /\ \A w \in Workers : at[w] \in {"walking", "joining"} ~> at[w] = "idle"
    /\ ReadersPause => \A w \in Workers : at[w] # "idle" ~> at[w] = "idle"

\* A game that is stopped, by its admin or by a word, is stored.
StoppedIsSaved ==
    ReadersPause =>
        \A o \in 1..MaxGames :
            (o \in DOMAIN games /\ games[o].stop) ~> (o \in DOMAIN games /\ games[o].saves = 1)
=============================================================================
