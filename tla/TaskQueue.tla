------------------------------ MODULE TaskQueue ------------------------------
(***************************************************************************)
(* The task queue (controller/task_queue.cpp): every request that the      *)
(* controllers take is a task here, run by one of the worker threads.  A   *)
(* step is one hold of the queue's mutex, one notification, or the task    *)
(* itself, which runs without the mutex.                                   *)
(***************************************************************************)
EXTENDS Naturals, Sequences, FiniteSets

CONSTANTS Workers,   \* worker threads
          Callers,   \* threads that call addTask
          Tasks,     \* the tasks they add, each once
          Hanging    \* those of them that may never return

NoTask == "no task"

ASSUME FiniteThreads == IsFiniteSet(Workers) /\ IsFiniteSet(Callers)
ASSUME TasksAssumption == NoTask \notin Tasks /\ Hanging \subseteq Tasks

VARIABLES tasks,      \* tasks_
          stop,       \* stop_
          at,         \* where each worker stands in startWorkerLoop
          job,        \* the task it runs
          caller,     \* between push and notify_one, or not
          destructor, \* "none", then what ~TaskQueue does next
          \* History: the tasks in the order of addTask, in the order they were
          \* taken, and those that have returned or thrown.
          added, begun, finished

vars == <<tasks, stop, at, job, caller, destructor, added, begun, finished>>

Elems(s) == {s[i] : i \in DOMAIN s}

Asleep == {w \in Workers : at[w] = "asleep"}
Awake  == {w \in Workers : at[w] = "mutex"}
Notifying == {c \in Callers : caller[c] = "notify"}

Init ==
    /\ tasks = <<>> /\ stop = FALSE
    /\ at = [w \in Workers |-> "mutex"]
    /\ job = [w \in Workers |-> NoTask]
    /\ caller = [c \in Callers |-> "idle"]
    /\ destructor = "none"
    /\ added = <<>> /\ begun = <<>> /\ finished = {}

-----------------------------------------------------------------------------
(* addTask *)

\* Notifies only where the queue was empty.
PushNotifyingFirst(c) ==
    /\ caller[c] = "idle" /\ destructor = "none"
    /\ \E t \in Tasks \ Elems(added) : tasks' = Append(tasks, t) /\ added' = Append(added, t)
    /\ caller' = [caller EXCEPT ![c] = IF tasks = <<>> THEN "notify" ELSE "idle"]
    /\ UNCHANGED <<stop, at, job, destructor, begun, finished>>

\* Nobody calls an object whose destructor has begun.
Push(c) ==
    /\ caller[c] = "idle" /\ destructor = "none"
    /\ \E t \in Tasks \ Elems(added) : tasks' = Append(tasks, t) /\ added' = Append(added, t)
    /\ caller' = [caller EXCEPT ![c] = "notify"]
    /\ UNCHANGED <<stop, at, job, destructor, begun, finished>>

\* notify_one, after the mutex has been released: wakes one sleeper, if there is any.
NotifyOne(c) ==
    /\ caller[c] = "notify"
    /\ caller' = [caller EXCEPT ![c] = "idle"]
    /\ \/ Asleep = {} /\ UNCHANGED at
       \/ \E w \in Asleep : at' = [at EXCEPT ![w] = "mutex"]
    /\ UNCHANGED <<tasks, stop, job, destructor, added, begun, finished>>

-----------------------------------------------------------------------------
(* startWorkerLoop *)

\* Takes the newest task.
TakeLast(w) ==
    /\ at[w] = "mutex" /\ tasks # <<>>
    /\ job' = [job EXCEPT ![w] = tasks[Len(tasks)]]
    /\ tasks' = SubSeq(tasks, 1, Len(tasks) - 1) /\ begun' = Append(begun, tasks[Len(tasks)])
    /\ at' = [at EXCEPT ![w] = "running"]
    /\ UNCHANGED <<stop, caller, destructor, added, finished>>

\* Forgets the pop.
TakeLeaving(w) ==
    /\ at[w] = "mutex" /\ tasks # <<>>
    /\ job' = [job EXCEPT ![w] = Head(tasks)]
    /\ begun' = Append(begun, Head(tasks))
    /\ at' = [at EXCEPT ![w] = "running"]
    /\ UNCHANGED <<tasks, stop, caller, destructor, added, finished>>

\* The predicate holds: a worker takes the first task, also after stop_ is set.
Take(w) ==
    /\ at[w] = "mutex" /\ tasks # <<>>
    /\ job' = [job EXCEPT ![w] = Head(tasks)]
    /\ tasks' = Tail(tasks) /\ begun' = Append(begun, Head(tasks))
    /\ at' = [at EXCEPT ![w] = "running"]
    /\ UNCHANGED <<stop, caller, destructor, added, finished>>

\* cv_.wait: the predicate is false, and the mutex is released with the wait.
Sleep(w) ==
    /\ at[w] = "mutex" /\ tasks = <<>> /\ ~stop
    /\ at' = [at EXCEPT ![w] = "asleep"]
    /\ UNCHANGED <<tasks, stop, job, caller, destructor, added, begun, finished>>

\* A condition variable may wake on its own.
WakeSpuriously(w) ==
    /\ at[w] = "asleep"
    /\ at' = [at EXCEPT ![w] = "mutex"]
    /\ UNCHANGED <<tasks, stop, job, caller, destructor, added, begun, finished>>

\* Leaves as soon as it is told to.
EndAtOnce(w) ==
    /\ at[w] = "mutex" /\ stop
    /\ at' = [at EXCEPT ![w] = "ended"]
    /\ UNCHANGED <<tasks, stop, job, caller, destructor, added, begun, finished>>

\* Nothing is left and stop_ is set.
End(w) ==
    /\ at[w] = "mutex" /\ tasks = <<>> /\ stop
    /\ at' = [at EXCEPT ![w] = "ended"]
    /\ UNCHANGED <<tasks, stop, job, caller, destructor, added, begun, finished>>

\* Forgets to let go of the task (the move into the loop's local, line 22).
FinishKeeping(w) ==
    /\ at[w] = "running"
    /\ finished' = finished \cup {job[w]}
    /\ at' = [at EXCEPT ![w] = "mutex"]
    /\ UNCHANGED <<tasks, stop, job, caller, destructor, added, begun>>

\* An exception ends the worker.
FinishOrDie(w) ==
    /\ at[w] = "running"
    /\ finished' = finished \cup {job[w]}
    /\ job' = [job EXCEPT ![w] = NoTask]
    /\ \E next \in {"mutex", "ended"} : at' = [at EXCEPT ![w] = next]
    /\ UNCHANGED <<tasks, stop, caller, destructor, added, begun>>

\* task() returns or throws; what it throws is dropped.
Finish(w) ==
    /\ at[w] = "running"
    /\ finished' = finished \cup {job[w]}
    /\ job' = [job EXCEPT ![w] = NoTask]
    /\ at' = [at EXCEPT ![w] = "mutex"]
    /\ UNCHANGED <<tasks, stop, caller, destructor, added, begun>>

-----------------------------------------------------------------------------
(* ~TaskQueue, when no call of addTask is under way *)

SetStop ==
    /\ destructor = "none" /\ Notifying = {}
    /\ stop' = TRUE /\ destructor' = "notify"
    /\ UNCHANGED <<tasks, at, job, caller, added, begun, finished>>

\* Wakes a single worker.
NotifyJustOne ==
    /\ destructor = "notify" /\ destructor' = "join"
    /\ \/ Asleep = {} /\ UNCHANGED at
       \/ \E w \in Asleep : at' = [at EXCEPT ![w] = "mutex"]
    /\ UNCHANGED <<tasks, stop, job, caller, added, begun, finished>>

NotifyAll ==
    /\ destructor = "notify" /\ destructor' = "join"
    /\ at' = [w \in Workers |-> IF at[w] = "asleep" THEN "mutex" ELSE at[w]]
    /\ UNCHANGED <<tasks, stop, job, caller, added, begun, finished>>

Join ==
    /\ destructor = "join" /\ \A w \in Workers : at[w] = "ended"
    /\ destructor' = "gone"
    /\ UNCHANGED <<tasks, stop, at, job, caller, added, begun, finished>>

Gone == destructor = "gone" /\ UNCHANGED vars

\* What a worker does of its own accord.
Work(w) == Take(w) \/ Sleep(w) \/ End(w) \/ Finish(w)

Next ==
    \/ \E c \in Callers : Push(c) \/ NotifyOne(c)
    \/ \E w \in Workers : Work(w) \/ WakeSpuriously(w)
    \/ SetStop \/ NotifyAll \/ Join \/ Gone

\* Threads are scheduled and tasks end, but for those that ask a dictionary that
\* never answers (searchWord sets no timeout); nobody has to wake of its own accord,
\* to add a task, or to destroy the queue.
Fairness ==
    /\ \A w \in Workers : WF_vars(job[w] \notin Hanging /\ Work(w))
    /\ \A c \in Callers : WF_vars(NotifyOne(c))
    /\ WF_vars(NotifyAll) /\ WF_vars(Join)

Spec     == Init /\ [][Next]_vars
FairSpec == Spec /\ Fairness

-----------------------------------------------------------------------------
\* Every variable has its type, and a worker has a task exactly while it runs one.
TypeOK ==
    /\ tasks \in Seq(Tasks) /\ stop \in BOOLEAN
    /\ at \in [Workers -> {"mutex", "asleep", "running", "ended"}]
    /\ job \in [Workers -> Tasks \cup {NoTask}]
    /\ caller \in [Callers -> {"idle", "notify"}]
    /\ destructor \in {"none", "notify", "join", "gone"}
    /\ \A w \in Workers : job[w] # NoTask <=> at[w] = "running"
    /\ added \in Seq(Tasks) /\ begun \in Seq(Tasks) /\ finished \subseteq Tasks

\* Tasks are taken in the order they were added, none is lost and none is taken
\* twice: what was taken and what waits is what was added.
FirstInFirstOut == added = begun \o tasks

\* No worker sleeps while a task waits that nobody is coming for: for each waiting
\* task a worker is awake or a caller is about to wake one, although notify_one is
\* called after the mutex is released (line 70) and may find no sleeper.
NoTaskForgotten == Asleep # {} => Len(tasks) <= Cardinality(Awake) + Cardinality(Notifying)

\* The destructor returns only when every task ever added has been run.
DrainedAtEnd == destructor = "gone" => finished = Elems(added) /\ tasks = <<>>

\* Every task that is added is run in the end, whether or not the queue is destroyed;
\* tasks that hang keep a worker each and nothing else, as long as they are fewer
\* than the workers.
EveryTaskRuns ==
    Cardinality(Hanging) < Cardinality(Workers) =>
        \A t \in Tasks \ Hanging : t \in Elems(added) ~> t \in finished

\* The destructor returns, with no worker left asleep, unless a task hangs.
ShutdownEnds ==
    []<>(\A w \in Workers : job[w] \notin Hanging) => (stop ~> destructor = "gone")

Phase == CASE destructor = "none" -> "open"
           [] destructor = "gone" -> "closed"
           [] OTHER               -> "closing"

InHand == {job[w] : w \in Workers} \ {NoTask}

Pool == INSTANCE TaskPool WITH waiting <- tasks, running <- InHand, done <- finished,
                               phase <- Phase

\* Threads, the mutex, notifications and spurious wake-ups are no concern of those
\* who add tasks: the queue behaves as a pool that begins tasks in order, each once,
\* and closes when all are done.
ImplementsTaskPool == Pool!Spec
=============================================================================
