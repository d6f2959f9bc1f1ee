----------------------------- MODULE GameSession -----------------------------
(***************************************************************************)
(* One game: the GameSession object (service/game_session.cpp) with the    *)
(* tasks of GamesController (controller/games_controller.cpp) that work on *)
(* it from the threads of the task queue.                                  *)
(*                                                                         *)
(* A step is one critical section of the game's mutex, one hold of the     *)
(* controller's lock, or the unlocked code between two of them.  `Workers` *)
(* are the threads that run word tasks, one after the other for as long as *)
(* there are any; a task that lets a client in is named by the connection  *)
(* it serves, one of `Clients`, because the callback it subscribes writes  *)
(* to that connection, and runs on a thread of its own.                    *)
(***************************************************************************)
EXTENDS WordRules, FiniteSets

CONSTANTS Users,      \* user ids
          Admin,      \* the user who started the game
          NoUser,     \* id 0, which the database gives nobody (GameContext's lastPlayerId)
          Workers,    \* threads that run handleWord tasks
          Clients,    \* connections that ask to join the game
          NoClient,   \* no callback is registered
          Words,      \* what players type
          Dict,       \* what the dictionary answers for each of Words
          StartKana   \* the kana GameFabric draws for the game

ASSUME ConstantsAssumption ==
    /\ Admin \in Users
    /\ NoUser \notin Users
    /\ NoClient \notin Clients
    /\ Words \subseteq Text
    /\ Dict \in [Words -> Seq(Entry)]
    /\ StartKana \in CodePoint /\ StartKana # NN

ASSUME FiniteAssumption == IsFiniteSet(Users)

VARIABLES
    \* The GameSession object: players_ with their scores, words_, stop_, ctx_.
    players, score, words, stop, ctx,
    subs,       \* subscriptions_: the connection a user's updates go to
    \* GamesController::activeGames_ still holds the game.
    listed,
    \* What ~GameSession hands to the repository, and whether it has run.
    archived, saved,
    \* The word task of each worker: where it stands, who typed what, the status.
    pc, by, typed, reply,
    \* The join tasks: where they stand, for whom, words_.size() in the join info.
    join, as, joinInfo,
    \* The lines posted to each connection.
    inbox,
    \* History: the accepted words in order, and whether the unsynchronised
    \* subscriptions_ has ever been written while another thread used it.
    moves, raced

session == <<players, score, words, stop, ctx>>
tasks   == <<pc, by, typed, reply>>
joins   == <<join, as, joinInfo>>
ending  == <<listed, archived, saved>>
vars    == <<session, subs, ending, tasks, joins, inbox, moves, raced>>

Last(s) == s[Len(s)]

Init ==
    /\ players = {} /\ score = [u \in Users |-> 0]
    /\ words = <<>> /\ stop = FALSE
    /\ ctx = [wordsCount |-> 0, playersCount |-> 0,
              lastPlayerId |-> NoUser, lastKana |-> StartKana]
    /\ subs = [u \in Users |-> NoClient]
    /\ listed = TRUE /\ archived = FALSE /\ saved = <<>>
    /\ pc = [c \in Workers |-> "idle"]
    /\ by = [c \in Workers |-> NoUser]
    /\ typed = [c \in Workers |-> <<>>]
    /\ reply = [c \in Workers |-> "none"]
    /\ join = [k \in Clients |-> "out"]
    /\ as = [k \in Clients |-> NoUser]
    /\ joinInfo = [k \in Clients |-> -1]
    /\ inbox = [k \in Clients |-> <<>>]
    /\ moves = <<>> /\ raced = FALSE

-----------------------------------------------------------------------------
(***************************************************************************)
(* Lifetime.  activeGames_ and every word task past its look-up own the    *)
(* object; whoever lets go last runs the destructor and with it saveStats. *)
(***************************************************************************)
Holders == {w \in Workers : pc[w] \in {"check", "lookup", "erase", "release"}}

\* A join task holds the controller's shared lock from its look-up to its end.
SharedHeld == \E k \in Clients : join[k] \in {"subscribing", "informing", "replying"}

\* Sorts the other way round.
WorstFirst ==
    {f \in [1..Cardinality(players) -> players] :
        \A i, j \in 1..Cardinality(players) :
            i < j => f[i] # f[j] /\ score[f[i]] <= score[f[j]]}

\* The orders std::sort by descending score may leave the players in.
Rankings ==
    {f \in [1..Cardinality(players) -> players] :
        \A i, j \in 1..Cardinality(players) :
            i < j => f[i] # f[j] /\ score[f[i]] >= score[f[j]]}

Results == {[i \in DOMAIN f |-> [user |-> f[i], score |-> score[f[i]]]] : f \in Rankings}

saveStats == archived' = TRUE /\ saved' \in Results

\* Stores the game as soon as it is off the list.
DropListed(others) ==
    IF ~archived THEN saveStats ELSE UNCHANGED <<archived, saved>>

\* A reference is gone; `others` are the tasks that still hold one.
DropLast(others) ==
    IF others = {} /\ ~archived THEN saveStats ELSE UNCHANGED <<archived, saved>>

-----------------------------------------------------------------------------
(* throwUpdate and throwUpdateToUser *)

Subscribed(us) == {subs[u] : u \in us} \ {NoClient}

Post(targets, line) ==
    inbox' = [k \in Clients |-> IF k \in targets THEN Append(inbox[k], line) ELSE inbox[k]]

\* subscriptions_ is read without its writer's knowledge (subscribe takes no
\* lock): while a subscribe is under way the reader may miss any callback, or
\* already find the new one.
Publish(us, line) ==
    LET inserting == {k \in Clients : join[k] = "subscribing"}
        intended  == Subscribed(us)
    IN  IF inserting = {}
        THEN Post(intended, line) /\ UNCHANGED raced
        ELSE \E reached \in SUBSET (intended \cup inserting) :
                Post(reached, line) /\ raced' = (raced \/ reached # intended)

-----------------------------------------------------------------------------
(* GamesController::handleWord and GameSession::handleWord *)

\* The task finds the game and takes a reference.  A task that does not find it
\* answers GAME_NOT_FOUND and changes nothing here.
FindGame(w) ==
    /\ pc[w] = "idle" /\ listed
    /\ pc' = [pc EXCEPT ![w] = "check"]
    /\ UNCHANGED <<session, subs, ending, by, typed, reply, joins, inbox, moves, raced>>

\* The tests that both critical sections make (lines 259-279 and 295-315).
Refusal(u, word) ==
    IF u \notin players THEN "NO_FOUND_PLAYER"
    ELSE IF ctx.lastPlayerId = u THEN "WRONG_ORDER"
    ELSE IF ~isJapaneseWord(word) THEN "NOT_JAPANESE_WORD"
    ELSE IF isWordDoubled(word, words) THEN "GOT_DOUBLED_WORD"
    ELSE "none"

\* handleWord returns: its arguments are looked at no more.
Answer(w, status) ==
    /\ pc' = [pc EXCEPT ![w] = "release"]
    /\ reply' = [reply EXCEPT ![w] = status]
    /\ by' = [by EXCEPT ![w] = NoUser] /\ typed' = [typed EXCEPT ![w] = <<>>]

LookUp(w, u, word) ==
    /\ pc' = [pc EXCEPT ![w] = "lookup"]
    /\ by' = [by EXCEPT ![w] = u] /\ typed' = [typed EXCEPT ![w] = word]
    /\ UNCHANGED reply

\* First critical section, where the task's arguments are first used.
Check(w) ==
    /\ pc[w] = "check"
    /\ \E u \in Users, word \in Words :
          IF stop THEN Answer(w, "GAME_STOPPED")
          ELSE IF Refusal(u, word) # "none" THEN Answer(w, Refusal(u, word))
          ELSE LookUp(w, u, word)
    /\ UNCHANGED <<session, subs, ending, joins, inbox, moves, raced>>

\* searchWord, outside the mutex, throws; when it answers, the second critical
\* section follows, in one of the next three actions.
LookupFails(w) ==
    /\ pc[w] = "lookup"
    /\ Answer(w, "NO_FOUND_WORD")
    /\ UNCHANGED <<session, subs, ending, joins, inbox, moves, raced>>

Judged(w)  == Judge(typed[w], Dict[typed[w]], ctx.lastKana)

\* Trusts the tests made before the look-up.
VerdictOfDictionary(w) == Judged(w).status

Verdict(w) ==
    IF Refusal(by[w], typed[w]) # "none" THEN Refusal(by[w], typed[w]) ELSE Judged(w).status

\* Second critical section: stop_ is not looked at again.
Refuse(w) ==
    /\ pc[w] = "lookup" /\ Verdict(w) \notin {"OK", "GOT_END_WORD"}
    /\ Answer(w, Verdict(w))
    /\ UNCHANGED <<session, subs, ending, joins, inbox, moves, raced>>

\* Tells everyone but the player.
AcceptTellingOthers(w) ==
    /\ pc[w] = "lookup" /\ Verdict(w) = "OK"
    /\ Answer(w, "OK")
    /\ score' = [score EXCEPT ![by[w]] = @ + 1]
    /\ words' = Append(words, Judged(w).entry)
    /\ ctx' = [ctx EXCEPT !.wordsCount = @ + 1, !.lastPlayerId = by[w],
                          !.lastKana = Judged(w).next]
    /\ moves' = Append(moves, [by |-> by[w], typed |-> typed[w],
                               reading |-> Judged(w).reading])
    /\ Publish(Users \ {by[w]}, [kind |-> "wordPlayed", n |-> Len(words) + 1])
    /\ UNCHANGED <<players, stop, subs, ending, joins>>

Accept(w) ==
    /\ pc[w] = "lookup" /\ Verdict(w) = "OK"
    /\ Answer(w, "OK")
    /\ score' = [score EXCEPT ![by[w]] = @ + 1]
    /\ words' = Append(words, Judged(w).entry)
    /\ ctx' = [ctx EXCEPT !.wordsCount = @ + 1, !.lastPlayerId = by[w],
                          !.lastKana = Judged(w).next]
    /\ moves' = Append(moves, [by |-> by[w], typed |-> typed[w],
                               reading |-> Judged(w).reading])
    /\ Publish(Users, [kind |-> "wordPlayed", n |-> Len(words) + 1])
    /\ UNCHANGED <<players, stop, subs, ending, joins>>

\* Tells only the player whose word it was.
EndGameTellingOne(w) ==
    /\ pc[w] = "lookup" /\ Verdict(w) = "GOT_END_WORD"
    /\ pc' = [pc EXCEPT ![w] = "erase"]
    /\ reply' = [reply EXCEPT ![w] = "GOT_END_WORD"]
    /\ stop' = TRUE
    /\ Publish({by[w]}, [kind |-> "gameStopped", n |-> 0])
    /\ UNCHANGED <<players, score, words, ctx, subs, ending, by, typed, joins, moves>>

EndGame(w) ==
    /\ pc[w] = "lookup" /\ Verdict(w) = "GOT_END_WORD"
    /\ pc' = [pc EXCEPT ![w] = "erase"]
    /\ reply' = [reply EXCEPT ![w] = "GOT_END_WORD"]
    /\ stop' = TRUE
    /\ Publish(players, [kind |-> "gameStopped", n |-> 0])
    /\ UNCHANGED <<players, score, words, ctx, subs, ending, by, typed, joins, moves>>

\* The controller takes the game off its list, unless someone has already.
Erase(w) ==
    /\ pc[w] = "erase" /\ ~SharedHeld
    /\ pc' = [pc EXCEPT ![w] = "release"]
    /\ listed' = FALSE
    /\ UNCHANGED <<session, subs, archived, saved, by, typed, reply, joins, inbox, moves, raced>>

\* The player is answered; the task's reference goes.
Release(w) ==
    /\ pc[w] = "release"
    /\ pc' = [pc EXCEPT ![w] = "idle"]
    /\ by' = [by EXCEPT ![w] = NoUser] /\ typed' = [typed EXCEPT ![w] = <<>>]
    /\ reply' = [reply EXCEPT ![w] = "none"]
    /\ IF listed THEN UNCHANGED <<archived, saved>> ELSE DropLast(Holders \ {w})
    /\ UNCHANGED <<session, subs, listed, joins, inbox, moves, raced>>

-----------------------------------------------------------------------------
(* GamesController::addPlayerToGame *)

\* Starts a player who joins again from nothing.
AddUserAfresh(k) ==
    /\ join[k] = "out" /\ listed
    /\ \E u \in Users :
          /\ as' = [as EXCEPT ![k] = u]
          /\ players' = players \cup {u}
          /\ score' = [score EXCEPT ![u] = 0]
    /\ ctx' = [ctx EXCEPT !.playersCount = Cardinality(players')]
    /\ join' = [join EXCEPT ![k] = "subscribing"]
    /\ UNCHANGED <<words, stop, subs, ending, tasks, joinInfo, inbox, moves, raced>>

\* The look-up and addUser, which leaves a player who is in already alone.
AddUser(k) ==
    /\ join[k] = "out" /\ listed
    /\ \E u \in Users :
          /\ as' = [as EXCEPT ![k] = u]
          /\ players' = players \cup {u}
          /\ score' = IF u \in players THEN score ELSE [score EXCEPT ![u] = 0]
    /\ ctx' = [ctx EXCEPT !.playersCount = Cardinality(players')]
    /\ join' = [join EXCEPT ![k] = "subscribing"]
    /\ UNCHANGED <<words, stop, subs, ending, tasks, joinInfo, inbox, moves, raced>>

\* Nobody tells the client that the game is gone.
JoinMissed(k) ==
    /\ join[k] = "out" /\ ~listed
    /\ join' = [join EXCEPT ![k] = "missed"]
    /\ UNCHANGED <<session, subs, ending, tasks, as, joinInfo, inbox, moves, raced>>

\* subscribe replaces the user's callback.  With another subscribe under way the
\* insertion may be lost.
Subscribe(k) ==
    /\ join[k] = "subscribing"
    /\ \/ subs' = [subs EXCEPT ![as[k]] = k] /\ UNCHANGED raced
       \/ /\ \E other \in Clients \ {k} : join[other] = "subscribing"
          /\ UNCHANGED subs /\ raced' = TRUE
    /\ join' = [join EXCEPT ![k] = "informing"]
    /\ UNCHANGED <<session, ending, tasks, as, joinInfo, inbox, moves>>

\* Takes the index of the last word for the number of words.
GetLastIndex(k) ==
    /\ join[k] = "informing"
    /\ joinInfo' = [joinInfo EXCEPT ![k] = Len(words) - 1]
    /\ join' = [join EXCEPT ![k] = "replying"]
    /\ UNCHANGED <<session, subs, ending, tasks, as, inbox, moves, raced>>

\* getPlayerJoinInfo copies words_ under the mutex ...
GetJoinInfo(k) ==
    /\ join[k] = "informing"
    /\ joinInfo' = [joinInfo EXCEPT ![k] = Len(words)]
    /\ join' = [join EXCEPT ![k] = "replying"]
    /\ UNCHANGED <<session, subs, ending, tasks, as, inbox, moves, raced>>

\* ... and onJoin posts the copy after it.
OnJoin(k) ==
    /\ join[k] = "replying"
    /\ Post({k}, [kind |-> "playerJoinedGame", n |-> joinInfo[k]])
    /\ join' = [join EXCEPT ![k] = "in"]
    /\ UNCHANGED <<session, subs, ending, tasks, as, joinInfo, moves, raced>>

-----------------------------------------------------------------------------
\* GamesController::stopGame: stop_ and the list change under one exclusive lock,
\* and nobody is told.  A task of any user but the admin changes nothing.
StopGame(u) ==
    /\ listed /\ ~SharedHeld
    /\ u = Admin
    /\ stop' = TRUE /\ listed' = FALSE
    /\ DropLast(Holders)
    /\ UNCHANGED <<players, score, words, ctx, subs, tasks, joins, inbox, moves, raced>>

\* Every task is over and the game is gone; later tasks do not find it.
Over ==
    /\ \A w \in Workers : pc[w] = "idle"
    /\ \A k \in Clients : join[k] \in {"in", "missed"}
    /\ ~listed
    /\ UNCHANGED vars

\* What a task does once a worker has begun it.
WordStep(w) ==
    \/ Check(w) \/ LookupFails(w) \/ Refuse(w) \/ Accept(w)
    \/ EndGame(w) \/ Erase(w) \/ Release(w)

JoinStep(k) == Subscribe(k) \/ GetJoinInfo(k) \/ OnJoin(k)

Next ==
    \/ \E w \in Workers : FindGame(w) \/ WordStep(w)
    \/ \E k \in Clients : AddUser(k) \/ JoinMissed(k) \/ JoinStep(k)
    \/ \E u \in Users : StopGame(u)
    \/ Over

Spec == Init /\ [][Next]_vars

-----------------------------------------------------------------------------
(* What must hold. *)

Status == {"OK", "GOT_ERROR", "WRONG_ORDER", "NOT_JAPANESE_WORD", "NO_SPEACH_PART",
           "NO_FOUND_WORD", "GOT_END_WORD", "GOT_DOUBLED_WORD", "CANT_JOIN_WORDS",
           "GAME_NOT_FOUND", "GAME_STOPPED", "NO_FOUND_PLAYER"}

Line == [kind : {"wordPlayed", "gameStopped", "playerJoinedGame"}, n : Nat]

\* Every variable has its type.
TypeOK ==
    /\ players \subseteq Users /\ score \in [Users -> Nat]
    /\ words \in Seq(Entry) /\ stop \in BOOLEAN
    /\ ctx \in [wordsCount : Nat, playersCount : Nat, lastPlayerId : Users \cup {NoUser},
                lastKana : CodePoint]
    /\ subs \in [Users -> Clients \cup {NoClient}]
    /\ listed \in BOOLEAN /\ archived \in BOOLEAN /\ saved \in Seq([user : Users, score : Nat])
    /\ pc \in [Workers -> {"idle", "check", "lookup", "erase", "release"}]
    /\ by \in [Workers -> Users \cup {NoUser}] /\ typed \in [Workers -> Text]
    /\ reply \in [Workers -> Status \cup {"none"}]
    /\ join \in [Clients -> {"out", "subscribing", "informing", "replying", "in", "missed"}]
    /\ as \in [Clients -> Users \cup {NoUser}] /\ joinInfo \in [Clients -> Nat \cup {-1}]
    /\ inbox \in [Clients -> Seq(Line)]
    /\ moves \in Seq([by : Users, typed : Text, reading : Text]) /\ raced \in BOOLEAN

\* The kana the first n moves leave the chain at.
KanaAfter(n) == IF n = 0 THEN StartKana ELSE toHiragana(getLastKana(moves[n].reading))

\* However the tasks interleave, every accepted word starts with the kana the one
\* before it ended with, the first with the game's own, and none ends in ん;
\* ctx_.lastKana is where the chain stands (lines 343-367).
ChainUnbroken ==
    /\ \A n \in 1..Len(moves) : /\ toHiragana(getFirstKana(moves[n].reading)) = KanaAfter(n - 1)
                                /\ KanaAfter(n) # NN
    /\ ctx.lastKana = KanaAfter(Len(moves))

\* No accepted word is spelled like an earlier one, in kanji or in any of its
\* readings, although the first test of it (line 276) ran before the dictionary
\* was asked and other words were accepted meanwhile.
NoWordTwice ==
    /\ Len(words) = Len(moves)
    /\ \A m, n \in 1..Len(moves) : m < n => moves[n].typed \notin Spellings(words[m])

\* No player has two accepted words in a row (README.md:18), whatever the player
\* has in flight; ctx_.lastPlayerId is the last to play.
PlayersAlternate ==
    /\ \A n \in 2..Len(moves) : moves[n].by # moves[n - 1].by
    /\ ctx.lastPlayerId = IF moves = <<>> THEN NoUser ELSE moves[Len(moves)].by

MovesOf(u) == {n \in 1..Len(moves) : moves[n].by = u}

\* A player's score is the number of the player's accepted words, joining again
\* included, and the counters a client is shown agree with the game.
ScoresCountMoves ==
    /\ \A u \in Users : score[u] = Cardinality(MovesOf(u))
    /\ \A u \in Users \ players : score[u] = 0
    /\ ctx.wordsCount = Len(moves)
    /\ ctx.playersCount = Cardinality(players)

\* The connection that a user's updates go to, once it has the join info.
Following(k) == join[k] = "in" /\ subs[as[k]] = k

\* Where in its inbox a connection has updates about words.
WordsIn(k) == {i \in DOMAIN inbox[k] : inbox[k][i].kind = "wordPlayed"}

\* Join info and updates leave no gap: a following client has been sent, once each
\* and in order, the words accepted since before its join info was taken
\* (subscribe comes before getPlayerJoinInfo).  Where subscriptions_ was raced
\* nothing can be promised.
NoUpdateMissed ==
    \A k \in Clients :
        Following(k) /\ ~raced =>
            /\ \E first \in 1..(joinInfo[k] + 1) :
                  {inbox[k][i].n : i \in WordsIn(k)} = first..Len(words)
            /\ \A i, j \in WordsIn(k) : i < j => inbox[k][i].n < inbox[k][j].n

\* What is stored is the whole game: when the destructor has run no task holds the
\* game, the rows are the players' scores as they stay from then on, in an order
\* of falling score, one row each.
SavedIsFinal ==
    archived =>
        /\ ~listed /\ Holders = {}
        /\ Len(saved) = Cardinality(players)
        /\ {saved[i].user : i \in 1..Len(saved)} = players
        /\ \A i \in 1..Len(saved) : saved[i].score = Cardinality(MovesOf(saved[i].user))
        /\ \A i, j \in 1..Len(saved) : i < j => saved[i].score >= saved[j].score

\* The game as its players see it: the tasks, the locks, the lists and the counters
\* are gone.
Phase == IF archived THEN "archived" ELSE IF stop THEN "closing" ELSE "open"

Game == INSTANCE Shiritori WITH members <- players, chain <- moves, kept <- words,
                                phase <- Phase, standings <- saved

\* Every behaviour of the tasks is a game of shiritori: what is played, kept and
\* stored is what the abstract game allows, step by step.
ImplementsShiritori == Game!Spec

\* The word that ends the game is reported to every player it can be: in a step
\* that raced with no subscribe, each player's connection is sent gameStopped.
EndIsAnnounced ==
    [][\A w \in Workers :
         reply'[w] = "GOT_END_WORD" /\ reply[w] = "none" /\ ~raced' =>
           \A k \in Clients : Following(k) =>
               inbox'[k] = Append(inbox[k], [kind |-> "gameStopped", n |-> 0])]_vars

-----------------------------------------------------------------------------
(* What the documents say and the code does not do. *)

\* "handleWord ... GAME_STOPPED - Game has been stopped" (Protocol.md:218): no word
\* is accepted once the game has been stopped.
NoWordAfterStop == [][stop => UNCHANGED words]_vars

\* "Add the authenticated user to an existing game as a player ... and subscribes to
\* game updates" (Protocol.md:168), on any of the user's devices (Protocol.md:334):
\* a connection that has joined gets the user's updates, also where subscriptions_
\* was never raced.
JoinedIsFollowing == ~raced => \A k \in Clients : join[k] = "in" => Following(k)
=============================================================================
