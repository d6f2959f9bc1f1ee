# Verification of shiritori-server

Shiritori-server is a TCP server for the word game: players add Japanese nouns
to a chain in which each word begins with the kana the one before it ended with;
a word that ends in ん ends the game. This directory holds TLA+ models of the
server, translated from `src/`, TLC runs that check them on small instances, and
proofs checked by TLAPS.

## The system

| Component | State it keeps | Operations | Talks to |
|---|---|---|---|
| Kana and word rules (`service/game_session.cpp` 66-246, 317-362) | none | `toHiragana`, `getLastKana`, `getFirstKana`, `findRelevantWord`, `findRelevantReading`, `isWordDoubled`, the verdict on a word | used by GameSession |
| GameSession (`service/game_session.cpp`) | players with scores, used words, `ctx_`, `stop_` (mutex `mu_`); `subscriptions_` (no lock) | `handleWord`, `addUser`, `subscribe`, `getPlayerJoinInfo`, `stopGame`, destructor with `saveStats` | dictionary (outside the mutex), games repository (in the destructor), callbacks of connections |
| GamesController (`controller/games_controller.cpp`) | `activeGames_`, `nextGameId_` (shared mutex) | `startNewGame`, `stopGame`, `handleWord`, `getActiveGames`, `getGameInfo`, `addPlayerToGame`, each a task | task queue, GameSession |
| TaskQueue (`controller/task_queue.cpp`) | queue, `stop_`, worker threads | `addTask`, the worker loop, the destructor | runs the controllers' tasks |
| SessionManager (`controller/session_manager.cpp`) | session id -> user, creation time (shared mutex) | `createSession`, `sessionExists`, `getUserIdFromSession`, `removeSession`, `cleanupExpiredSessions` | called by Router (one instance for all) |
| Session and Router (`network/session.cpp`, `network/router.cpp`) | socket, read buffer | read a line, parse, answer; posted writes | InfoController, GamesController, SessionManager |
| InfoController, InfoService | none | `getUserInfo`, `addUser`, `login`, `getGamesHistory`, each a task | repositories |
| Repositories (`repo/users_repo.cpp`, `repo/games_repo.cpp`) | SQLite tables | users by id and nickname, `putGame` (a transaction), history | SQLite |
| JishoDict (`repo/dicts/jisho.cpp`) | none | `searchWord` asks jisho.org over HTTP, `jsonToWords` turns the answer into entries | called by GameSession |
| GameFabric, Server, mapper, DTOs | none of interest | draw the first kana and make a game; accept connections; copy records | |

Threads: one io thread reads, parses, checks sessions and writes; the workers of
the task queue run everything else and hand answers back by posting to the io
thread. What is hard in this system:

* a word is judged in **two critical sections** with an unbounded HTTP request
  between them; other words, joins, the end of the game and the admin's
  `stopGame` come in between;
* the **game's lifetime** is a `shared_ptr`: the list of active games and every
  word task own it, and the results are stored by its destructor, on whichever
  thread lets go last;
* **updates and join info** reach a connection by callbacks that are registered
  without the game's mutex and posted after it is released;
* the **list of games** is guarded by a second lock, taken before the game's own
  and shared by most tasks: a join works on a game through the list alone, a walk
  over the list looks at one game after the other, the last reference may go
  under the exclusive lock, and who waits for that lock may be kept out by readers;
* requests may be **left without an answer**, and the next read of a connection
  follows the last write;
* sessions **expire by a clock** between a check and its use; first logins race
  on a UNIQUE column; storing a game may fail in a destructor.

`PROJECT.json` lists the hazards one by one, each at its line with the
properties that cover it.

## Modules

| Module | Models |
|---|---|
| `Kana` | the rules on single kana and on the first and last kana of a reading, over code points. The UTF-8 form the code converts from and to is left out. |
| `WordRules` | which dictionary entry and reading a word means, doubled words, and `Judge`, the verdict the second critical section of `handleWord` reaches once the dictionary has answered. An entry keeps its kanji, its readings and whether it is a noun; meanings are never looked at. |
| `Dictionary` | `jsonToWords`: from the JSON of jisho.org (entries with spellings in kanji, in kana or in both, and senses) to the entries that the word rules judge. |
| `MCWordRules` | a JSON answer that grows by a kana, a spelling or an entry, to check the three above. |
| `Shiritori` | the abstract game: join, play, close, archive. No tasks, locks or counters. |
| `GameSession` | one game under concurrent tasks; implements `Shiritori`. |
| `MCGameSession` | its small instances; their dictionary goes through `jsonToWords`. |
| `Lobby` | the abstract list of games: open, close, store, by id, with how often each was stored. |
| `Games`, `MCGames` | GamesController with all its tasks on several games, the objects behind the list and their destructors; implements `Lobby`. |
| `TaskPool` | the abstract queue: tasks begin in order, each once, and it closes when all are done. |
| `TaskQueue`, `MCTaskQueue` | the worker loop on its condition variable, `addTask`, the destructor; implements `TaskPool`. |
| `Ledger` | the abstract database: register, log in, record a whole game, tell a user's games, all or the earliest. |
| `Storage`, `MCStorage` | logins, results and histories of games on one SQLite file, from the worker threads; implements `Ledger`. |
| `SessionManager` | the sessions under a clock: operators for each operation, no behaviour of its own. |
| `Connection`, `MCConnection` | the connections, the router and the tasks as a client sees them; composes `SessionManager`. |
| `WordRulesProofs` | proofs about the kana rules, the scans, the verdict on a word and the kana that games start with; induction over the turns of a loop. |
| `MCWordRulesProofs` | the properties of `MCWordRules` for answers of any length over any alphabet. |
| `GameSessionProofs`, `GameRulesProofs` | of one game: types and updates, its end among them; then the rules, the stored result and the refinement of `Shiritori`. |
| `GamesProofs` | types, lifetimes, the list, and the refinement of `Lobby`. |
| `TaskQueueProofs` | types, order, no lost wake-up, the end, and the refinement of `TaskPool`. |
| `StorageProofs` | types, ids, whole games, and the refinement of `Ledger`. |
| `ConnectionProofs` | types, the accounts of each connection, and for whom a task is queued. |

### GameSession and the code

A step is one critical section of the game's mutex, one hold of the
controller's lock, or the code between them that no lock covers.

| Variable | In the code |
|---|---|
| `players`, `score` | `players_` (a set of id and score; 0 for those who are not in) |
| `words`, `stop`, `ctx`, `subs` | `words_`, `stop_`, `ctx_`, `subscriptions_` |
| `listed` | the game is in `activeGames_` |
| `archived`, `saved` | `~GameSession` has run; the rows it gave `putGame` |
| `pc`, `by`, `typed`, `reply` | where each worker's `handleWord` task stands, its arguments, its status |
| `join`, `as`, `joinInfo` | where each `addPlayerToGame` task stands, its user, the size of the copied `words_` |
| `inbox` | the lines posted to each connection |
| `moves`, `raced` | history only: the accepted words in order; whether `subscriptions_` has been used while it was written |

| Action | In the code |
|---|---|
| `FindGame` | GamesController::handleWord 55-68 under the shared lock |
| `Check` | first critical section (252-280); leaves for the dictionary or answers |
| `LookupFails` | `searchWord` throws (286-290) |
| `Refuse`, `Accept`, `EndGame` | second critical section (292-390), by its verdict |
| `Erase` | the exclusive hold after an ending word (72-81) |
| `Release` | the answer, and the task's reference goes (83-84) |
| `AddUser`, `JoinMissed`, `Subscribe`, `GetJoinInfo`, `OnJoin` | addPlayerToGame 138-150, one call each, all under one shared hold |
| `StopGame` | stopGame 33-45 under the exclusive lock |

`subscribe` takes no lock, so a publisher that runs while one is under way reads
a container that is being changed. The standard gives that no meaning; the model
lets such a publisher miss any callback or already find the new one, and lets the
insertion be lost to another one. A crash, which the build may also produce, is
left out: after it there is nothing to say. `raced` remembers that it happened,
and the two properties it can break speak of the other behaviours.

### Games and the code

`GameSession` has one game in detail; `Games` has all of them and of each only
what the controller sees: its id and admin, `stop_`, and whether it has been
stored. The two meet in the step that ends a game (`GameEnds` here, `EndGame`
there) and in the references that word tasks hold.

| Variable | In the code |
|---|---|
| `activeGames`, `nextGameId` | `activeGames_` (id to object), `nextGameId_` |
| `games` | the GameSession objects in the order they were made, destroyed ones included; `saves` counts the runs of `saveStats` |
| `at`, `game`, `seen` | where each worker stands, the object it works on (`shared_ptr` or iterator), the ids its walk over the list has passed |

| Action | In the code |
|---|---|
| `startNewGame`, `stopGame`, `StopRefused`, `Erase` | one exclusive hold each (14-21, 33-45, 74-80) |
| `Store` | the rest of `stopGame`'s hold, where the erased reference was the last and the destructor writes to the database |
| `FindGame`, `GameNotFound` | the shared hold of `handleWord` (57-68) |
| `Check`, `GameGoesOn`, `GameEnds`, `Release` | `GameSession::handleWord` with the mutex of the game alone, and the answer; the last owner to let go stores the game |
| `getActiveGames`, `WalkOn`, `EndWalk` | one shared hold (95-103), one `getInfo` per step |
| `getGameInfo`, `JoinMissed`, `addPlayerToGame`, `OnJoin` | the shared holds of 116-125 and 138-150 |

`Sharing` and `Excluding` are the holders of the shared mutex from one step to
the next. `Begin` takes up a task; a task that begins with a shared hold decides
by its first step which it was, which keeps the states few and leaves no
behaviour out.

### TaskQueue, Storage, Connection and the code

*TaskQueue.* A worker (`at`) is about to take or holds the mutex, sleeps in
`cv_.wait`, runs a task without the mutex, or has ended. `Push` and `NotifyOne`
are the two halves of `addTask`, because line 70 is outside the lock. A condition
variable may wake on its own. `SetStop`, `NotifyAll` and `Join` are the
destructor, which begins when no `addTask` is under way: the code calls no method
of a dying object. Tasks in `Hanging` may never return: `searchWord` sets no
timeout.

*Storage.* SQLite is modelled from how the repositories use it, in WAL mode: a
read sees what was committed last and waits for nobody; one connection at a time
may write, from its first INSERT to its commit; no busy timeout is set, so a
second one is refused at once. `login` reads (`LoginFinds`, `LoginMisses`) and
inserts in another connection, so others come between; any failed read counts as
"no such user" (users_repo.cpp:144), therefore `LoginMisses` is always possible.
`GameEnds` is `~GameSession`; `InsertGame`, `InsertRow` and `Commit` are
`putGame`. `ProcessEnds` is std::terminate or a kill: what was not committed is
gone and the server starts again with the file. `draft` is an open transaction.
`TellGames` is a query of the history: one SELECT over what is committed, in the
order of storing. The loop of `getGameHistoryByUserId` takes any result that is
not a row for the end of the rows, so a statement that fails midway leaves an
answer that ends after some game (`upto`), and the client is not told.
A full or broken disk is left out.

*Connection.* The io_context has one thread, so the handlers of all connections
run one at a time; `io` is the one that stands after `sessionExists`, or before a
confirmation, when workers may run and time may pass. Per connection: `reads`
and `writing` are asynchronous operations under way, `posted` the posted calls of
`doWrite`. A request leads to one of

| Action | In the code |
|---|---|
| `AnswerHere` | an error or an unknown command, answered at once |
| `Ask` | getActiveGames, getGameInfo, login, addUser: a task |
| `AskAsUser` | the first look at the session; refused, or `io` goes on with |
| `SessionGone`, `RunAsUser`, `Logout` | the second look throws; it finds the user, and the task is queued; the session is removed |
| `Confirm` | stopGame and addPlayerToGame are answered, whatever their task does and perhaps after it |
| `QueryAnswers`, `LoginAnswers`, `JoinAnswers` | the task calls back |
| `NobodyIsCalled` | the task ends without: no such game, an exception, stopGame |
| `Update` | a game's callback |

`StartWrite`, `WriteDone`, `ReadFails`, `WriteFails` are the completions; only a
completed write starts the next read. Lines that came before the client closed may
stand in `buffer_` already and a socket takes lines for a while after, so
`ReadLine` and `WriteDone` happen on a closed connection too. A connection that has joined a game is sent
lines nobody asked for, so reads overlap on one buffer and writes on one socket;
which bytes they then get has no meaning, and the model lets each read yield any
request and the writes complete in any order. A login's session is created and
its id posted in one step: nobody knows the id before.

## Runs

| Run | Instance | Shows |
|---|---|---|
| `word_rules` | all JSON answers of at most two entries, the second with up to two spellings in kanji, kana or both, with four kana in total, from か カ ゃ ャ ー ん; every word typed, every kana | the scans of `getLastKana` and `getFirstKana` agree with a reference that strips marks; the next word can start; the script does not change the verdict on a word typed in kana or with one reading; an accepted word comes from one entry of the answer, joins and stays blocked in all its spellings; a refusal has a reason |
| `game_session` | two users, two word workers, two connections, four words (かさ, 傘, さか, かん) | the rules of the game, the accounting, the updates, the stored result, and the refinement of `Shiritori`, under every interleaving |
| `games` | three workers, two users, two games, under `FairSpec` | no task touches a destroyed game; the list, the stop marks and the references agree; no game is stored twice or while it is listed and every id is given once (refinement of `Lobby`); `getActiveGames` answers with one moment's list; if readers pause, every task ends and every stopped game is stored |
| `task_queue` | three workers, two callers, four tasks of which two may hang, under `FairSpec` | tasks run once and in order, none is forgotten by a sleeping worker, all that do not hang run, the destructor returns when nothing hangs and only when all have run; refinement of `TaskPool` |
| `storage` | three workers, two nicknames, three games (of two players, one, none), one kill, under `FairSpec` | a nickname has one id and is answered that one, games are stored whole across restarts, the write lock comes back, a history told is all of the games recorded or the earliest of them, each whole (refinement of `Ledger`) |
| `connection` | one connection at a time with two requests, two users, two sessions of a second that the clock sees in halves, one update, under `FairSpec` | what is under way for an open connection is one thing and one more for each join and each update; before a join answers come once and in order; requests are queued for the user of a good session; if the dictionary answers, what is not answered is lost to a task that calls nobody |
| `game_lost` | `storage` without a kill | a game that ends while another task writes takes the process down and is not stored |
| `expired_stays` | `connection` | without another login an expired session is never removed |
| `expired_accepted` | `connection` | a session as old as its lifetime, and up to a second older, is let in |
| `request_unanswered` | `connection` | a request whose task finds no game or throws is never answered, not even with an error |
| `word_after_stop` | the instance of `game_session` | a word whose look-up was under way when the game was stopped still counts |
| `second_device` | the same | a user's second connection takes the updates from the first |

The last six show what the documents say and the code does not do, each with a
behaviour (the findings in `PROJECT.json` quote the lines). Two more disagreements
need no run, as no order of steps decides them: a game its admin stops is announced
to nobody (game_session.cpp:12-18, while Protocol.md:183 lists the update for a game
that ends), and the player whose word ends in ん keeps the score
(game_session.cpp:350-362, while README.md:19 says it is nullified). `GameSession`
has both as the code does them.

Bounds. Two workers, two players and two connections are the least with which
every pair of steps of two tasks meets; a third worker adds no new kind of pair,
because tasks share only what two of them can already change between the two
critical sections. Two kana marks, two scripts and four kana reach every branch of
the scans (mark at the end, small kana at the end, alone, at the front). Three
workers of the queue let one sleep, one run and one be woken for a task another
takes, and a fourth task outlasts them all if tasks could end workers; with two
that hang one worker is left for the rest. In `games` three workers are a task
that owns a game, one that shares the lock, and one that waits for it
exclusively; two games let ids be mixed up and a walk be between two, and each
can outlive or be outlived by the other. Three
workers on the database are a writer, one that it keeps out, and one
that comes after; two nicknames let ids be mixed up. A second of lifetime in
half-second steps has every age from new over rounded to expired; connections
close and come again, so two requests each suffice for long histories of the
sessions, and connections do not touch each other otherwise. Four
words are enough for a game that goes on, comes back, is refused for each reason
and ends; the game is finite because words may not be used twice.

Fairness. `FairSpec` of `Games` is weakly fair for the steps of a task that has
begun: the code runs it on a thread of its own. It assumes that the dictionary
answers or fails; `task_queue` shows what becomes of the others when it does
neither. It is strongly fair for the steps that need the mutex exclusively
(`Exclusive`): a waiting writer gets the mutex if it is free again and again,
because whoever lets go last wakes the waiters. Whether it becomes free is
another matter: `std::shared_mutex` promises no order, and an implementation
that prefers readers (glibc's default) lets them go before a waiting writer; TLC
shows that walks over the list that overlap for ever then starve `stopGame`.
`EveryTaskEnds` and `StoppedIsSaved` therefore assume `ReadersPause`.
Nothing is assumed of tasks that have not begun, of players or of
the admin; `GameSession` states safety and no fairness.
In `TaskQueue` workers and the destructor go on and a caller that has pushed
notifies; nobody has to wake without being notified, to add a task or to begin
the destructor. In `Storage` a task that has begun goes on. In `Connection` the
io thread runs what is ready and the tasks end, all but those of `handleWord`:
the look-up sets no timeout (jisho.cpp:40), so nothing is assumed of them, and
`RequestsAreAnswered` has the premise `DictionaryAnswers` instead. Clients send and
close as they like, and time need not pass. `RequestsAreAnswered` also excepts
requests whose task calls nobody back, which the code has and `request_unanswered`
shows. A task is queued while its session is good and nobody looks at the session
again: `QueuedForItsOwner` says so of the queueing step, and the models let the
task run after a logout.

## Proofs

Every invariant, action property and refinement that a passing run checks is
also a theorem, for every value of the constants that the named assumptions
admit. Each component's proof has the same shape: an inductive invariant
(`IInv`, `TInv`, `UInv`), a lemma for each action that keeps it, and the
theorems that follow.

* `WordRulesProofs!ScriptIndependence`: what `getLastKana` and `getFirstKana`
  pick does not depend on the script a reading is written in.
  `DrawnKanaCanStart`: every kana GameFabric may draw satisfies what
  `ConstantsAssumption` asks of the first kana, and a word can begin with it.
  The lemmas say what a scan, a search and the verdict return. A set of numbers
  has a least one (`LeastNumber`), from which follow induction over the turns of a
  loop (`EveryTurn`) and that a recursive function has values (`LoopExists`).
* `MCWordRulesProofs`: the seven properties of `MCWordRules` for every alphabet of
  code points and every bound on the answer. Their only invariant is `AnswerType`,
  what a JSON answer of the dictionary looks like: a spelling has a word, a reading
  or both, and what it has is not empty. The rest is about operators:
  `ScriptIsIndependent` compares the verdict on a word with the one on the same
  word and entry in hiragana, when the word is one of the readings or there is one
  reading only. A kanji word with several readings is left out, because
  `findRelevantReading` compares as written and there the script does matter;
  `ResponseType` follows the loop of `jsonToWords` over the spellings, and
  `StrippingAgrees` shows that the code's scan from the back finds the kana
  that the recursive reference finds by dropping marks one by one.
* `GameSessionProofs!TypeCorrect`: `TypeOK` is inductive together with
  `LookedUp` (a task that waits for the dictionary has a user and a word) and
  `Informed` (a join task that is to reply has its copy).
* `GameSessionProofs!UpdatesAreComplete`: who follows the game has every word
  since its join info, once and in order. The invariant `UInv` says of each
  connection that nothing is sent before it subscribes, and that from then on what
  it has heard is an interval that begins no later than the words its join info
  will lack and ends with the last word (`UpToDate`). That a word goes to
  each follower needs `Members` (who subscribes is a player, so `throwUpdate`
  looks it up) and `Subscribers` (a callback belongs to one user's join). All
  this holds while `~raced`. `EndReachesFollowers` is a step from the same
  invariant.
* `GameRulesProofs`: `ChainHolds`, `WordsAreNew`, `TurnsAlternate` and
  `ScoresAreRight`. The four invariants are inductive together with the types: the
  second critical section repeats its tests, so what the step appends fits what is
  there, whatever the first section saw. That the score counts moves needs
  finiteness of the set of moves and that `moves` has the length of `words`.
  `ResultIsFinal` and `Refinement` need the invariant `Closed`: what is archived is
  off the list and unheld, so no later step touches scores or moves. `Refinement`
  maps each action to a step of `Shiritori` or a stutter; the two modules have
  their own instance of each word rule, shown equal by lemmas.
* `GamesProofs`: `GamesOutliveTheirTasks`, `NoGameForgotten`, `WalkSeesOneMoment`
  and `LobbyRefinement`. `NoUseAfterDestruction` alone is not inductive: a join
  holds no reference. It is safe because whoever destroys a game under the mutex is
  alone there (`MutexHeld`), and a destroyed game was off the list and nobody's
  (`LastReference`). `Numbered` (the object made n + 1st has id n, so ids do not come
  back) gives the lobby its ids, and `StartsFit` keeps those about to be started
  within `MaxGames`. The lobby sees how often each game was stored, so a second
  run of `saveStats` is no stutter there.
* `StorageProofs`: `IdsAreRight`, `WholeGamesOnly` and `LedgerRefinement`, with any
  number of kills. Between two statements a transaction has the rows of the first
  places under the next id (`Drafts`), and each game that is being stored is one
  task's (`OwnBusiness`); so what a commit adds is whole, and what a kill takes
  away was not there for the others; a history cut short is one of the first games. `StoredOnce` gives each id its game and
  `UsersOnce` is the UNIQUE column with the answers drawn from it.
* `ConnectionProofs`: `OneAnswerEach` and `EveryTaskHasItsOwner`. Nothing of
  `OneThingAtATime` is inductive by itself, as one connection's task, handler, posted
  answer, write and read turn into each other. `Accounts` gives their sum (one, and
  one more for each join and each update), `InOrder` says which number each of
  them carries before a join, and `Numbers`, `Joined` and `Forgotten` say that
  nothing has the number of a request to come and that what a closed connection was
  sent is forgotten. The sum is over a finite set of tasks. `Issued` and
  `SessionTypes` (what the map holds is what login issued) carry the other theorem,
  which is about the step that queues a task.
* `TaskQueueProofs`, for any numbers of workers, callers and tasks. `QueueOrder`
  and `QueueTypes` are inductive. `NoLostWakeUp` is inductive too: a task that is
  pushed brings a caller about to notify; the notification wakes a sleeper or
  finds none, when nothing is claimed; a worker goes to sleep only before an empty
  queue, and one that takes a task takes both from the count. `QueueDrains` adds
  `Ending` (a worker ends only on an empty queue after `stop_`, and then nobody
  calls) and `Running` (what was taken is finished or being run). It assumes
  that there is a worker: with `hardware_concurrency()` 0 there is none.
  `PoolRefinement` maps the steps to those of `TaskPool`: `Once` (each task is
  added once and no two workers have the same) makes the task that is taken new to
  the pool, and the workers' last tests make the end of the destructor its closing.
  It too needs a worker: without one the destructor leaves tasks behind.

Assumptions. Of one game (`ConstantsAssumption`, `FiniteAssumption`): the admin is a
user, the marks for "no user" and "no client" are not, what is typed is text, the
dictionary answers any sequence of entries for each word, the first kana is not
ん, and users are finite in number. Of the list (`GamesAssumption`): finitely many
workers. Of the queue (`FiniteThreads`, `TasksAssumption`): finitely many threads, and
a mark for "no task" that is no task. Of the database (`StorageAssumption`): its mark
for nobody, and that the result of a game names each user once, which
`GameRulesProofs!ResultIsFinal` says of what a game gives to `putGame`. Of
connections (`ConnectionAssumption`, `SessionsAssumption`): marks again, and a lifetime
and a second that are not zero. Of the dictionary's answers
(`AlphabetAssumption`): they are made of code points. The bounds `MaxGames`, `MaxKills`,
`MaxRequests`, `MaxUpdates` and `MaxClock` are any natural numbers.

Only liveness stays with TLC: `EveryTaskEnds`, `StoppedIsSaved`, `EveryTaskRuns`,
`ShutdownEnds`, `LockReturns` and `RequestsAreAnswered` need fairness and ENABLED, which
the prover does not handle.

## What is not modelled, and the plan

1. Done: all components with control of their own are modelled: `Kana`,
   `WordRules`, `Dictionary`, `Shiritori`, `GameSession` with its proofs and
   refinement; `Games` with `Lobby`; `TaskQueue` with its proofs and `TaskPool`;
   `Storage` with `Ledger`; `SessionManager` and `Connection`.
2. Done: all invariants, action properties and refinements of the passing runs are
   proved.
3. Open: the liveness properties for any number of threads. What they rest on is
   proved (`NoLostWakeUp`, `NoGameForgotten`, `StorageTypes` with the holder of the
   write lock, `OneAnswerEach`); the step from there to "eventually" is TLC's.

Left out for good, with the reasons:

* the text of answers, the escaping of URLs, SQL syntax, UTF-8: wording and
  encoding no property is about;
* the average that `getUserInfo` prints, and the mapper and the data transfer
  objects: they copy and format what `Storage` and `GameSession` have;
* `UsersRepo::changeUser`, which nothing calls;
* which kana is drawn: the models start from any;
* what a data race on `subscriptions_` or on a read buffer may do beyond the
  outcomes named above, because the code gives it no meaning;
* a full or broken disk, and an acceptor that fails (it tries again at once);
* the terminal client and the build files.
