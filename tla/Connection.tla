----------------------------- MODULE Connection -----------------------------
(***************************************************************************)
(* The clients' connections: Server, Session and Router (network/), with   *)
(* the sessions of SessionManager and the tasks that the router hands to   *)
(* the workers.                                                            *)
(*                                                                         *)
(* One thread runs the io_context, so one handler runs at a time; `io` is  *)
(* the handler that stands after sessionExists, or before its last line.   *)
(* Workers run tasks and post lines meanwhile.  A task is known by its     *)
(* connection and request; what it does to games and users is modelled in  *)
(* GameSession and Storage.  Two reads that overlap on one buffer (of a    *)
(* connection that has joined a game) may each yield any request.          *)
(***************************************************************************)
EXTENDS SessionManager, Sequences

CONSTANTS Conns,        \* connections that can be open together
          MaxRequests,  \* bound: requests of one connection
          MaxUpdates    \* bound: updates of games sent to one connection

NoConn == "no connection"
NoId   == "no session"

\* Commands by the way they are handled: without a session (getActiveGames,
\* getGameInfo, login and addUser), and with one (getUserInfo, startNewGame and
\* getGamesHistory are `query`); a task of handleWord waits for the dictionary.
OpenCommands == {"lookAtGames", "login"}
Queries      == {"query", "handleWord"}
UserCommands == Queries \cup {"stopGame", "addPlayerToGame", "logout"}

ASSUME ConnectionAssumption ==
    /\ NoConn \notin Conns /\ NoId \notin SessionIds
    /\ MaxRequests \in Nat /\ MaxUpdates \in Nat

VARIABLES
    open,     \* the socket is open
    reads,    \* async_read_until calls that have not completed
    posted,   \* posted calls of doWrite, each with the number of its request
    writing,  \* async_write calls that have not completed
    io,       \* the handler that has looked at a session and is not through
    tasks,    \* tasks of the queue and of the workers
    inGame,   \* a game holds a callback to this connection
    \* History, for each connection: requests read, requests answered in the order
    \* of the answers, tasks that called nobody back while it was open, requests to
    \* join a game that were let through, updates.
    asked, got, silent, joins, updates

net     == <<open, reads, posted, writing>>
work    == <<io, tasks, inGame>>
history == <<asked, got, silent, joins, updates>>
vars    == <<sessionVars, net, work, history>>

Idle == [conn |-> NoConn, n |-> 0, command |-> "none", id |-> NoId]

Init ==
    /\ InitSessions
    /\ open = [k \in Conns |-> FALSE] /\ reads = [k \in Conns |-> 0]
    /\ posted = [k \in Conns |-> <<>>] /\ writing = [k \in Conns |-> <<>>]
    /\ io = Idle /\ tasks = {} /\ inGame = [k \in Conns |-> FALSE]
    /\ asked = [k \in Conns |-> 0] /\ got = [k \in Conns |-> <<>>]
    /\ silent = [k \in Conns |-> 0] /\ joins = [k \in Conns |-> 0]
    /\ updates = [k \in Conns |-> 0]

TasksOf(k) == {t \in tasks : t.conn = k}

-----------------------------------------------------------------------------
(* Server::doAccept, and the end of a connection *)

\* A new Session takes the place of one of which nothing is left; it reads.
Accept(k) ==
    /\ io = Idle /\ ~open[k] /\ reads[k] = 0 /\ posted[k] = <<>> /\ writing[k] = <<>>
    /\ TasksOf(k) = {}
    /\ open' = [open EXCEPT ![k] = TRUE] /\ reads' = [reads EXCEPT ![k] = 1]
    /\ inGame' = [inGame EXCEPT ![k] = FALSE]
    /\ joins' = [joins EXCEPT ![k] = 0] /\ asked' = [asked EXCEPT ![k] = 0]
    /\ UNCHANGED <<sessionVars, posted, writing, io, tasks, got, silent, updates>>

\* The client closes the socket, or it breaks; what it had been sent is forgotten.
Close(k) ==
    /\ open[k] /\ open' = [open EXCEPT ![k] = FALSE]
    /\ got' = [got EXCEPT ![k] = <<>>]
    /\ silent' = [silent EXCEPT ![k] = 0] /\ updates' = [updates EXCEPT ![k] = 0]
    /\ UNCHANGED <<sessionVars, reads, posted, writing, work, asked, joins>>

-----------------------------------------------------------------------------
(* Session::doRead and Router::parseAndAnswer *)

\* writeCb_: a worker or the router posts the answer to request n.  The lines of a
\* connection that has joined a game are not told apart.
Say(k, n) == posted' = [posted EXCEPT ![k] = Append(@, IF joins[k] > 0 THEN 0 ELSE n)]

\* A line has come: it is the connection's next request.  Lines that came before the
\* socket closed may be in buffer_ and are still read.
ReadLine(k) ==
    /\ io = Idle /\ reads[k] > 0 /\ asked[k] < MaxRequests
    /\ reads' = [reads EXCEPT ![k] = @ - 1]
    /\ asked' = [asked EXCEPT ![k] = @ + 1]

\* addTask of the controllers.
Enqueue(k, n, command, user, id) ==
    tasks' = tasks \cup {[conn |-> k, n |-> n, command |-> command, user |-> user, id |-> id]}

\* Reports the error and goes on to the command.
AnswerHereAndGoOn(k) ==
    /\ ReadLine(k)
    /\ Say(k, asked[k] + 1)
    /\ \E command \in OpenCommands : Enqueue(k, asked[k] + 1, command, {}, NoId)
    /\ UNCHANGED <<sessionVars, open, writing, io, inGame, got, silent, joins, updates>>

\* An empty line, bad or missing arguments, an unknown command.
AnswerHere(k) ==
    /\ ReadLine(k)
    /\ Say(k, asked[k] + 1)
    /\ UNCHANGED <<sessionVars, open, writing, work, got, silent, joins, updates>>

\* A command that needs no session.
Ask(k) ==
    /\ ReadLine(k)
    /\ \E command \in OpenCommands : Enqueue(k, asked[k] + 1, command, {}, NoId)
    /\ UNCHANGED <<sessionVars, open, posted, writing, io, inGame, got, silent, joins, updates>>

\* A command that does: sessionExists is its first look at the session.
AskAsUser(k) ==
    /\ ReadLine(k)
    /\ \E command \in UserCommands, id \in SessionIds :
          IF sessionExists(id)
          THEN /\ io' = [conn |-> k, n |-> asked[k] + 1, command |-> command, id |-> id]
               /\ UNCHANGED posted
          ELSE Say(k, asked[k] + 1) /\ UNCHANGED io
    /\ UNCHANGED <<sessionVars, open, writing, tasks, inGame, got, silent, joins, updates>>

Logout ==
    /\ io.command = "logout" /\ io' = Idle
    /\ removeSession(io.id)
    /\ Say(io.conn, io.n)
    /\ UNCHANGED <<open, reads, writing, tasks, inGame, history>>

\* The exception is caught and nothing is answered.
SessionGoneSilently ==
    /\ io.command \in UserCommands \ {"logout"} /\ io' = Idle
    /\ getUserIdFromSession(io.id) = {}
    /\ UNCHANGED <<sessionVars, net, tasks, inGame, history>>

\* getUserIdFromSession throws: the session has expired since, and the answer is
\* "invalid arguments".
SessionGone ==
    /\ io.command \in UserCommands \ {"logout"} /\ io' = Idle
    /\ getUserIdFromSession(io.id) = {}
    /\ Say(io.conn, io.n)
    /\ UNCHANGED <<sessionVars, open, reads, writing, tasks, inGame, history>>

\* The task is queued for the session's user.
RunAsUser ==
    LET user == getUserIdFromSession(io.id)
    IN  /\ io.command \in UserCommands \ {"logout"} /\ user # {}
        /\ Enqueue(io.conn, io.n, io.command, user, io.id)
        /\ io' = IF io.command \in Queries THEN Idle ELSE [io EXCEPT !.command = "confirm"]
        /\ joins' = IF io.command = "addPlayerToGame"
                    THEN [joins EXCEPT ![io.conn] = @ + 1] ELSE joins
        /\ UNCHANGED <<sessionVars, net, inGame, asked, got, silent, updates>>

\* stopGame and addPlayerToGame are answered whatever their task will do, and
\* perhaps after it has called back.
Confirm ==
    /\ io.command = "confirm" /\ io' = Idle
    /\ Say(io.conn, io.n)
    /\ UNCHANGED <<sessionVars, open, reads, writing, tasks, inGame, history>>

-----------------------------------------------------------------------------
(* The tasks, on the workers *)

\* A query calls back, and the line is posted.
QueryAnswers(t) ==
    /\ t \in tasks /\ t.command \in Queries \cup {"lookAtGames"}
    /\ tasks' = tasks \ {t}
    /\ Say(t.conn, t.n)
    /\ UNCHANGED <<sessionVars, open, reads, writing, io, inGame, history>>

\* login creates a session of its user and answers the id.
LoginAnswers(t) ==
    /\ t \in tasks /\ t.command = "login"
    /\ tasks' = tasks \ {t}
    /\ \E user \in Users : createSession(user)
    /\ Say(t.conn, t.n)
    /\ UNCHANGED <<open, reads, writing, io, inGame, history>>

\* The game calls the connection back with the join info, and from then on with
\* updates.
JoinAnswers(t) ==
    /\ t \in tasks /\ t.command = "addPlayerToGame"
    /\ tasks' = tasks \ {t}
    /\ inGame' = [inGame EXCEPT ![t.conn] = TRUE]
    /\ Say(t.conn, t.n)
    /\ UNCHANGED <<sessionVars, open, reads, writing, io, history>>

\* The game is not on the list, or the task has thrown: nobody is called.  stopGame
\* never calls anybody.
NobodyIsCalled(t) ==
    /\ t \in tasks /\ tasks' = tasks \ {t}
    /\ silent' = IF t.command # "stopGame" /\ open[t.conn]
                 THEN [silent EXCEPT ![t.conn] = @ + 1] ELSE silent
    /\ UNCHANGED <<sessionVars, net, io, inGame, asked, got, joins, updates>>

Work(t) == QueryAnswers(t) \/ LoginAnswers(t) \/ JoinAnswers(t) \/ NobodyIsCalled(t)

\* A game tells the connection of a word or of its end (on a closed socket the line
\* comes to nothing).
Update(k) ==
    /\ inGame[k] /\ open[k] /\ updates[k] < MaxUpdates
    /\ updates' = [updates EXCEPT ![k] = @ + 1]
    /\ Say(k, 0)
    /\ UNCHANGED <<sessionVars, open, reads, writing, work, asked, got, silent, joins>>

-----------------------------------------------------------------------------
(* Session::doWrite *)

StartWrite(k) ==
    /\ io = Idle /\ posted[k] # <<>>
    /\ posted' = [posted EXCEPT ![k] = Tail(@)]
    /\ writing' = [writing EXCEPT ![k] = Append(@, Head(posted[k]))]
    /\ UNCHANGED <<sessionVars, open, reads, work, history>>

Without(s, i) == SubSeq(s, 1, i - 1) \o SubSeq(s, i + 1, Len(s))

\* A write completes, any one if several overlap, and the next line is read.  The
\* socket takes a line also when the client has gone and the server not heard of it.
WriteDone(k) ==
    /\ io = Idle
    /\ \E i \in DOMAIN writing[k] :
          /\ writing' = [writing EXCEPT ![k] = Without(@, i)]
          /\ got' = [got EXCEPT ![k] = IF joins[k] > 0 \/ ~open[k] THEN @ ELSE Append(@, writing[k][i])]
    /\ reads' = [reads EXCEPT ![k] = @ + 1]
    /\ UNCHANGED <<sessionVars, open, posted, work, asked, silent, joins, updates>>

\* On a closed socket reads and writes end with an error, sooner or later, and nothing
\* follows them.
ReadFails(k) ==
    /\ io = Idle /\ ~open[k] /\ reads[k] > 0
    /\ reads' = [reads EXCEPT ![k] = @ - 1]
    /\ UNCHANGED <<sessionVars, open, posted, writing, work, history>>

WriteFails(k) ==
    /\ io = Idle /\ ~open[k] /\ writing[k] # <<>>
    /\ writing' = [writing EXCEPT ![k] = Tail(@)]
    /\ UNCHANGED <<sessionVars, open, reads, posted, work, history>>

\* What the io thread does by itself.
IoGoesOn    == Logout \/ SessionGone \/ RunAsUser \/ Confirm
IoWrites(k) == StartWrite(k) \/ WriteDone(k) \/ ReadFails(k) \/ WriteFails(k)

Next ==
    \/ IoGoesOn
    \/ \E k \in Conns : \/ Accept(k) \/ Close(k) \/ Update(k) \/ IoWrites(k)
                        \/ AnswerHere(k) \/ Ask(k) \/ AskAsUser(k)
    \/ \E t \in tasks : Work(t)
    \/ Tick /\ UNCHANGED <<net, work, history>>

\* The tasks of handleWord of connection k that are under way.
WordTasks(k) == {t \in TasksOf(k) : t.command = "handleWord"}

\* The io thread runs what is ready and workers finish the tasks that do not wait for
\* the dictionary, whose look-up has no timeout (jisho.cpp:40); clients need not send
\* anything and time need not pass.
Fairness ==
    /\ WF_vars(IoGoesOn)
    /\ \A k \in Conns :
          /\ WF_vars(IoWrites(k))
          /\ WF_vars(\E t \in TasksOf(k) \ WordTasks(k) : Work(t))

Spec     == Init /\ [][Next]_vars
FairSpec == Spec /\ Fairness

-----------------------------------------------------------------------------
\* Every variable has its type, and what the session manager holds it has issued.
TypeOK ==
    /\ DOMAIN sessions \subseteq DOMAIN issued \ loggedOut
    /\ \A id \in DOMAIN sessions : sessions[id] = issued[id]
    /\ DOMAIN issued \subseteq SessionIds /\ now \in 0..MaxClock
    /\ \A id \in DOMAIN issued : issued[id].userId \in Users /\ issued[id].createdAt \in 0..now
    /\ open \in [Conns -> BOOLEAN] /\ reads \in [Conns -> Nat]
    /\ posted \in [Conns -> Seq(0..MaxRequests)] /\ writing \in [Conns -> Seq(0..MaxRequests)]
    /\ io \in [conn : Conns, n : 1..MaxRequests, command : UserCommands \cup {"confirm"},
           id : SessionIds] \cup {Idle}
    /\ tasks \subseteq [conn : Conns, n : 1..MaxRequests, command : OpenCommands \cup UserCommands,
                        user : SUBSET Users, id : SessionIds \cup {NoId}]
    /\ inGame \in [Conns -> BOOLEAN] /\ joins \in [Conns -> 0..MaxRequests]
    /\ asked \in [Conns -> 0..MaxRequests] /\ got \in [Conns -> Seq(1..MaxRequests)]
    /\ silent \in [Conns -> Nat] /\ updates \in [Conns -> 0..MaxUpdates]

\* What is under way for a connection: it waits for a line, for a handler, for a
\* task, for an answer to be written, or for good.
UnderWay(k) ==
    reads[k] + Cardinality({i \in {io} : i.conn = k}) + Len(posted[k]) + Len(writing[k])
    + Cardinality({t \in TasksOf(k) : t.command # "stopGame"}) + silent[k]

\* Every line written to an open connection starts one read and every read one
\* request: what is under way for it is one thing, and one more for each request
\* to join a game (answered twice) and for each update, none lost and none twice.
\* So, as long as it joins no game, no read overlaps another on its buffer and no
\* write another on its socket, and its requests are answered in their order, each
\* at most once, although workers answer at any time.
OneThingAtATime ==
    \A k \in Conns :
        /\ open[k] => UnderWay(k) = 1 + joins[k] + updates[k]
        /\ joins[k] = 0 => /\ UnderWay(k) <= 1
                           /\ \A i \in DOMAIN got[k] : got[k][i] = i

\* The step that queues a request's task queues it for the user who logged in with its
\* session, never after that session was logged out, and never once its lifetime and
\* the second that its age is cut to are over, although the session is looked up
\* twice and time passes between.  Nobody looks at the session again: the task itself
\* may run later, when the session is gone.
QueuedForItsOwner ==
    [][\A t \in tasks' \ tasks : t.id # NoId =>
         /\ t.id \in DOMAIN issued \ loggedOut
         /\ t.user = {issued[t.id].userId}
         /\ now - issued[t.id].createdAt < (SESSION_TTL + 1) * TicksPerSecond]_vars

\* The dictionary answers or fails in the end: again and again no word of a
\* connection is under way.
DictionaryAnswers == \A k \in Conns : []<>(WordTasks(k) = {})

\* If the dictionary answers, so is every request, unless the client closes the
\* connection, joins a game with it, or a task has called nobody back: getGameInfo of
\* a game that is gone (games_controller.cpp:121), and a task that has thrown
\* (info_controller.cpp:14-57, task_queue.cpp:26).
RequestsAreAnswered ==
    DictionaryAnswers =>
        \A k \in Conns, n \in 1..MaxRequests :
            asked[k] = n ~> Len(got[k]) >= n \/ silent[k] > 0 \/ joins[k] > 0 \/ ~open[k]

-----------------------------------------------------------------------------
(* What the documents say and the code does not do. *)

\* "Automatic background cleanup ensures memory doesn't pile up" (Protocol.md:329):
\* a session that has expired leaves the map.
ExpiredAreRemoved ==
    \A id \in SessionIds :
        (id \in DOMAIN sessions /\ isSessionExpired(sessions[id])) ~> id \notin DOMAIN sessions

\* "Session has not expired (< 24 hours old)" (Protocol.md:340): no task is queued for
\* a session that is as old as its lifetime.
ExpiredIsRefused ==
    [][\A t \in tasks' \ tasks : t.id # NoId =>
         now - issued[t.id].createdAt < SESSION_TTL * TicksPerSecond]_vars

\* "Error: invalid arguments for getGameInfo - Invalid game ID format or exception"
\* (Protocol.md:126, and the same for login, addUser and getUserInfo at lines 24, 56
\* and 80): if the dictionary answers, every request of a connection that stays open
\* and joins no game is answered, be it with an error.
FailuresAreAnswered ==
    DictionaryAnswers =>
        \A k \in Conns, n \in 1..MaxRequests :
            asked[k] = n ~> Len(got[k]) >= n \/ joins[k] > 0 \/ ~open[k]
=============================================================================
