-------------------------- MODULE TaskQueueProofs --------------------------
(***************************************************************************)
(* Proofs about the task queue, for any number of workers, callers and     *)
(* tasks.                                                                  *)
(***************************************************************************)
EXTENDS TaskQueue, FiniteSetTheorems, SequenceTheorems, TLAPS

USE TasksAssumption

\* What the destructor has set, and who may still be about.
Ending ==
    /\ stop <=> destructor # "none"
    /\ stop => Notifying = {}
    /\ \A w \in Workers : at[w] = "ended" => stop /\ tasks = <<>>
    /\ destructor = "gone" => \A w \in Workers : at[w] = "ended"

\* A task that was taken has been run or is being run.
Running ==
    /\ Elems(begun) \subseteq finished \cup {job[w] : w \in {v \in Workers : at[v] = "running"}}
    /\ finished \subseteq Elems(begun)
    /\ \A w \in Workers : at[w] = "running" => job[w] \in Elems(begun)

IInv == TypeOK /\ FirstInFirstOut /\ NoTaskForgotten /\ Ending /\ Running

LEMMA ThreadsFinite ==
    ASSUME TypeOK
    PROVE  /\ IsFiniteSet(Asleep) /\ IsFiniteSet(Awake) /\ IsFiniteSet(Notifying)
           /\ Cardinality(Awake) \in Nat /\ Cardinality(Notifying) \in Nat
           /\ Len(tasks) \in Nat
<1>1. Asleep \in SUBSET Workers /\ Awake \in SUBSET Workers /\ Notifying \in SUBSET Callers
  BY DEF Asleep, Awake, Notifying
<1>2. Len(tasks) \in Nat
  BY DEF TypeOK
<1> QED BY <1>1, <1>2, FiniteThreads, FS_Subset, FS_CardinalityType

\* A part of the workers, or of the callers, has a number of members.
LEMMA PartsFinite ==
    /\ \A S \in SUBSET Workers : Cardinality(S) \in Nat
    /\ \A S \in SUBSET Callers : Cardinality(S) \in Nat
BY FiniteThreads, FS_Subset, FS_CardinalityType

LEMMA AppendConcat ==
    ASSUME NEW S, NEW s \in Seq(S), NEW t \in Seq(S), NEW x \in S
    PROVE  s \o Append(t, x) = Append(s \o t, x)
<1>1. /\ Append(t, x) \in Seq(S) /\ s \o t \in Seq(S)
      /\ s \o Append(t, x) \in Seq(S) /\ Append(s \o t, x) \in Seq(S)
  BY ConcatProperties
<1>2. Len(s) \in Nat /\ Len(t) \in Nat /\ Len(Append(t, x)) = Len(t) + 1
  OBVIOUS
<1>3. Len(s \o t) = Len(s) + Len(t)
  BY ConcatProperties
<1>4. Len(s \o Append(t, x)) = Len(s) + Len(t) + 1 /\ Len(Append(s \o t, x)) = Len(s) + Len(t) + 1
  BY <1>1, <1>2, <1>3, ConcatProperties
<1>5. ASSUME NEW i \in 1..(Len(s) + Len(t) + 1)
      PROVE  (s \o Append(t, x))[i] = Append(s \o t, x)[i]
  <2>1. (s \o Append(t, x))[i] = IF i <= Len(s) THEN s[i] ELSE Append(t, x)[i - Len(s)]
    BY <1>1, <1>2, ConcatProperties
  <2>2. CASE i <= Len(s) + Len(t)
    <3>1. Append(s \o t, x)[i] = (s \o t)[i]
      BY <1>1, <1>2, <1>3, <2>2
    <3>2. (s \o t)[i] = IF i <= Len(s) THEN s[i] ELSE t[i - Len(s)]
      BY <1>2, <2>2, ConcatProperties
    <3>3. i > Len(s) => Append(t, x)[i - Len(s)] = t[i - Len(s)]
      BY <1>2, <2>2
    <3> QED BY <2>1, <3>1, <3>2, <3>3
  <2>3. CASE i = Len(s) + Len(t) + 1
    BY <1>1, <1>2, <1>3, <2>1, <2>3
  <2> QED BY <1>2, <2>2, <2>3
<1> QED BY <1>1, <1>2, <1>4, <1>5, SeqEqual

LEMMA ElemsAppend ==
    ASSUME NEW S, NEW s \in Seq(S), NEW x \in S
    PROVE  Elems(Append(s, x)) = Elems(s) \cup {x}
<1>1. /\ DOMAIN Append(s, x) = 1..(Len(s) + 1) /\ Len(s) \in Nat /\ DOMAIN s = 1..Len(s)
      /\ \A i \in 1..Len(s) : Append(s, x)[i] = s[i]
      /\ Append(s, x)[Len(s) + 1] = x
  OBVIOUS
<1>2. \A i \in 1..(Len(s) + 1) : i \in 1..Len(s) \/ i = Len(s) + 1
  BY <1>1
<1> QED BY <1>1, <1>2 DEF Elems

LEMMA InitInv == Init => IInv
<1> SUFFICES ASSUME Init PROVE IInv
  OBVIOUS
<1>1. TypeOK
  <2>1. <<>> \in Seq(Tasks)
    OBVIOUS
  <2>2. \A w \in Workers : job[w] = NoTask /\ at[w] = "mutex"
    BY DEF Init
  <2>3. at \in [Workers -> {"mutex", "asleep", "running", "ended"}]
    BY DEF Init
  <2>4. job \in [Workers -> Tasks \cup {NoTask}]
    BY DEF Init
  <2>5. caller \in [Callers -> {"idle", "notify"}]
    BY DEF Init
  <2>6. \A w \in Workers : job[w] # NoTask <=> at[w] = "running"
    BY <2>2
  <2> QED BY <2>1, <2>3, <2>4, <2>5, <2>6 DEF Init, TypeOK
<1>2. FirstInFirstOut
  BY DEF Init, FirstInFirstOut
<1>3. Asleep = {} /\ Notifying = {}
  BY DEF Init, Asleep, Notifying
<1>4. Elems(begun) = {}
  BY DEF Init, Elems
<1> QED BY <1>1, <1>2, <1>3, <1>4 DEF Init, IInv, NoTaskForgotten, Ending, Running

-----------------------------------------------------------------------------
LEMMA PushInv == ASSUME IInv, NEW c \in Callers, Push(c) PROVE IInv'
<1>1. PICK t \in Tasks : tasks' = Append(tasks, t) /\ added' = Append(added, t)
  BY DEF Push
<1>2. /\ UNCHANGED <<stop, at, job, destructor, begun, finished>>
      /\ caller' = [caller EXCEPT ![c] = "notify"]
      /\ caller[c] = "idle" /\ destructor = "none"
  BY DEF Push
<1>3. TypeOK'
  BY <1>1, <1>2 DEF IInv, TypeOK
<1>4. FirstInFirstOut'
  <2>1. begun \in Seq(Tasks) /\ tasks \in Seq(Tasks)
    BY DEF IInv, TypeOK
  <2>2. begun \o Append(tasks, t) = Append(begun \o tasks, t)
    BY <2>1, AppendConcat
  <2> QED BY <1>1, <1>2, <2>2 DEF IInv, FirstInFirstOut
<1>5. NoTaskForgotten'
  <2>1. Notifying' = Notifying \cup {c} /\ c \notin Notifying
    BY <1>2 DEF Notifying, IInv, TypeOK
  <2>2. Cardinality(Notifying') = Cardinality(Notifying) + 1
    BY <2>1, ThreadsFinite, FS_AddElement DEF IInv
  <2>3. Asleep' = Asleep /\ Awake' = Awake
    BY <1>2 DEF Asleep, Awake
  <2>4. Len(tasks') = Len(tasks) + 1 /\ Len(tasks) \in Nat
    BY <1>1 DEF IInv, TypeOK
  <2> QED BY <2>2, <2>3, <2>4, ThreadsFinite DEF IInv, NoTaskForgotten
<1>6. Ending'
  BY <1>2 DEF IInv, Ending
<1>7. Running'
  BY <1>2 DEF IInv, Running
<1> QED BY <1>3, <1>4, <1>5, <1>6, <1>7 DEF IInv

\* One sleeper wakes.
LEMMA OneWakes ==
    ASSUME TypeOK, NEW w \in Asleep, at' = [at EXCEPT ![w] = "mutex"]
    PROVE  /\ Cardinality(Awake') = Cardinality(Awake) + 1
           /\ Asleep' \subseteq Asleep
           /\ {v \in Workers : at'[v] = "running"} = {v \in Workers : at[v] = "running"}
           /\ \A v \in Workers : at'[v] = "ended" <=> at[v] = "ended"
           /\ \A v \in Workers : at'[v] = "running" <=> at[v] = "running"
<1>1. Awake' = Awake \cup {w} /\ w \notin Awake
  BY DEF Awake, Asleep, TypeOK
<1>2. Cardinality(Awake') = Cardinality(Awake) + 1
  BY <1>1, ThreadsFinite, FS_AddElement
<1>3. /\ \A v \in Workers : at'[v] = "ended" <=> at[v] = "ended"
      /\ \A v \in Workers : at'[v] = "running" <=> at[v] = "running"
  BY DEF Asleep, TypeOK
<1> QED BY <1>2, <1>3 DEF Asleep, TypeOK

LEMMA NotifyOneInv == ASSUME IInv, NEW c \in Callers, NotifyOne(c) PROVE IInv'
<1>1. /\ UNCHANGED <<tasks, stop, job, destructor, added, begun, finished>>
      /\ caller' = [caller EXCEPT ![c] = "idle"] /\ caller[c] = "notify"
  BY DEF NotifyOne
<1>2. Notifying' = Notifying \ {c} /\ c \in Notifying
  BY <1>1 DEF Notifying, IInv, TypeOK
<1>3. Cardinality(Notifying') = Cardinality(Notifying) - 1
  BY <1>2, ThreadsFinite, FS_RemoveElement DEF IInv
<1>4. FirstInFirstOut'
  BY <1>1 DEF IInv, FirstInFirstOut
<1>5. CASE Asleep = {} /\ UNCHANGED at
  <2>1. TypeOK' /\ Ending' /\ Running'
    BY <1>1, <1>2, <1>5 DEF IInv, TypeOK, Ending, Running
  <2>2. NoTaskForgotten'
    BY <1>5 DEF NoTaskForgotten, Asleep
  <2> QED BY <1>4, <2>1, <2>2 DEF IInv
<1>6. ASSUME NEW w \in Asleep, at' = [at EXCEPT ![w] = "mutex"] PROVE IInv'
  <2>1. TypeOK'
    BY <1>1, <1>6 DEF IInv, TypeOK, Asleep
  <2>2. NoTaskForgotten'
    <3>1. Cardinality(Awake') = Cardinality(Awake) + 1 /\ Asleep # {}
      BY <1>6, OneWakes DEF IInv
    <3>2. Len(tasks) <= Cardinality(Awake) + Cardinality(Notifying) /\ tasks' = tasks
      BY <1>1, <3>1 DEF IInv, NoTaskForgotten
    <3> QED BY <1>3, <3>1, <3>2, ThreadsFinite DEF IInv, NoTaskForgotten
  <2>3. Ending' /\ Running'
    BY <1>1, <1>2, <1>6, OneWakes DEF IInv, Ending, Running
  <2> QED BY <1>4, <2>1, <2>2, <2>3 DEF IInv
<1> QED BY <1>5, <1>6 DEF NotifyOne

LEMMA WakeInv == ASSUME IInv, NEW w \in Workers, WakeSpuriously(w) PROVE IInv'
<1>1. /\ UNCHANGED <<tasks, stop, job, caller, destructor, added, begun, finished>>
      /\ w \in Asleep /\ at' = [at EXCEPT ![w] = "mutex"]
  BY DEF WakeSpuriously, Asleep
<1>2. TypeOK' /\ FirstInFirstOut' /\ Notifying' = Notifying
  BY <1>1 DEF IInv, TypeOK, FirstInFirstOut, Asleep, Notifying
<1>3. NoTaskForgotten'
  <2>1. Cardinality(Awake') = Cardinality(Awake) + 1 /\ Asleep # {}
    BY <1>1, OneWakes DEF IInv
  <2>2. Len(tasks) <= Cardinality(Awake) + Cardinality(Notifying) /\ tasks' = tasks
    BY <1>1, <2>1 DEF IInv, NoTaskForgotten
  <2> QED BY <1>2, <2>1, <2>2, ThreadsFinite DEF IInv, NoTaskForgotten
<1>4. Ending' /\ Running'
  BY <1>1, <1>2, OneWakes DEF IInv, Ending, Running
<1> QED BY <1>2, <1>3, <1>4 DEF IInv

-----------------------------------------------------------------------------
LEMMA TakeInv == ASSUME IInv, NEW w \in Workers, Take(w) PROVE IInv'
<1> DEFINE t == Head(tasks)
<1>1. /\ UNCHANGED <<stop, caller, destructor, added, finished>>
      /\ at[w] = "mutex" /\ at' = [at EXCEPT ![w] = "running"]
      /\ job' = [job EXCEPT ![w] = t]
      /\ tasks # <<>> /\ tasks' = Tail(tasks) /\ begun' = Append(begun, t)
  BY DEF Take
<1>2. /\ t \in Tasks /\ Tail(tasks) \in Seq(Tasks)
      /\ Len(tasks) \in Nat /\ Len(Tail(tasks)) = Len(tasks) - 1
      /\ added = Append(begun, t) \o Tail(tasks)
  BY <1>1 DEF IInv, TypeOK, FirstInFirstOut
<1> HIDE DEF t
<1>3. TypeOK'
  BY <1>1, <1>2 DEF IInv, TypeOK
<1>4. FirstInFirstOut'
  BY <1>1, <1>2 DEF FirstInFirstOut
<1>5. NoTaskForgotten'
  <2>1. Awake' = Awake \ {w} /\ w \in Awake /\ Asleep' = Asleep /\ Notifying' = Notifying
    BY <1>1 DEF Awake, Asleep, Notifying, IInv, TypeOK
  <2>2. Cardinality(Awake') = Cardinality(Awake) - 1
    BY <2>1, ThreadsFinite, FS_RemoveElement DEF IInv
  <2> QED BY <1>1, <1>2, <2>1, <2>2, ThreadsFinite DEF IInv, NoTaskForgotten
<1>6. Ending'
  BY <1>1 DEF IInv, Ending, TypeOK, Notifying
<1>7. Running'
  <2>1. Elems(begun') = Elems(begun) \cup {t}
    BY <1>1, <1>2, ElemsAppend DEF IInv, TypeOK
  <2>2. {v \in Workers : at'[v] = "running"} = {v \in Workers : at[v] = "running"} \cup {w}
    BY <1>1 DEF IInv, TypeOK
  <2>3. \A v \in Workers : job'[v] = IF v = w THEN t ELSE job[v]
    BY <1>1 DEF IInv, TypeOK
  <2>4. at[w] # "running"
    BY <1>1
  <2> QED BY <1>1, <2>1, <2>2, <2>3, <2>4 DEF IInv, Running
<1> QED BY <1>3, <1>4, <1>5, <1>6, <1>7 DEF IInv

LEMMA SleepInv == ASSUME IInv, NEW w \in Workers, Sleep(w) PROVE IInv'
<1>1. /\ UNCHANGED <<tasks, stop, job, caller, destructor, added, begun, finished>>
      /\ at[w] = "mutex" /\ at' = [at EXCEPT ![w] = "asleep"] /\ tasks = <<>> /\ ~stop
  BY DEF Sleep
<1>2. TypeOK' /\ FirstInFirstOut'
  BY <1>1 DEF IInv, TypeOK, FirstInFirstOut
<1>3. NoTaskForgotten'
  <2>1. Awake' \in SUBSET Workers /\ Notifying' \in SUBSET Callers
    BY DEF Awake, Notifying
  <2>2. Cardinality(Awake') \in Nat /\ Cardinality(Notifying') \in Nat
    BY <2>1, PartsFinite
  <2>3. tasks' = <<>> /\ Len(<<>>) = 0
    BY <1>1
  <2> QED BY <2>2, <2>3 DEF NoTaskForgotten
<1>4. Ending' /\ Running'
  BY <1>1 DEF IInv, TypeOK, Ending, Running, Notifying
<1> QED BY <1>2, <1>3, <1>4 DEF IInv

LEMMA EndInv == ASSUME IInv, NEW w \in Workers, End(w) PROVE IInv'
<1>1. /\ UNCHANGED <<tasks, stop, job, caller, destructor, added, begun, finished>>
      /\ at[w] = "mutex" /\ at' = [at EXCEPT ![w] = "ended"] /\ tasks = <<>> /\ stop
  BY DEF End
<1>2. TypeOK' /\ FirstInFirstOut'
  BY <1>1 DEF IInv, TypeOK, FirstInFirstOut
<1>3. NoTaskForgotten'
  <2>1. Awake' \in SUBSET Workers /\ Notifying' \in SUBSET Callers
    BY DEF Awake, Notifying
  <2>2. Cardinality(Awake') \in Nat /\ Cardinality(Notifying') \in Nat
    BY <2>1, PartsFinite
  <2>3. tasks' = <<>> /\ Len(<<>>) = 0
    BY <1>1
  <2> QED BY <2>2, <2>3 DEF NoTaskForgotten
<1>4. Ending' /\ Running'
  BY <1>1 DEF IInv, TypeOK, Ending, Running, Notifying
<1> QED BY <1>2, <1>3, <1>4 DEF IInv

LEMMA FinishInv == ASSUME IInv, NEW w \in Workers, Finish(w) PROVE IInv'
<1>1. /\ UNCHANGED <<tasks, stop, caller, destructor, added, begun>>
      /\ at[w] = "running" /\ at' = [at EXCEPT ![w] = "mutex"]
      /\ finished' = finished \cup {job[w]} /\ job' = [job EXCEPT ![w] = NoTask]
  BY DEF Finish
<1>2. TypeOK' /\ FirstInFirstOut'
  BY <1>1 DEF IInv, TypeOK, FirstInFirstOut
<1>3. NoTaskForgotten'
  <2>1. Awake' = Awake \cup {w} /\ w \notin Awake /\ Asleep' = Asleep /\ Notifying' = Notifying
    BY <1>1 DEF Awake, Asleep, Notifying, IInv, TypeOK
  <2>2. Cardinality(Awake') = Cardinality(Awake) + 1
    BY <2>1, ThreadsFinite, FS_AddElement DEF IInv
  <2>3. Len(tasks) \in Nat
    BY DEF IInv, TypeOK
  <2> QED BY <1>1, <2>1, <2>2, <2>3, ThreadsFinite DEF IInv, NoTaskForgotten
<1>4. Ending'
  BY <1>1 DEF IInv, TypeOK, Ending, Notifying
<1>5. Running'
  <2>1. \A v \in Workers : at'[v] = "running" => v # w /\ at[v] = "running" /\ job'[v] = job[v]
    BY <1>1 DEF IInv, TypeOK
  <2>2. \A v \in Workers : at[v] = "running" /\ v # w => at'[v] = "running" /\ job'[v] = job[v]
    BY <1>1 DEF IInv, TypeOK
  <2>3. job[w] \in Elems(begun)
    BY <1>1 DEF IInv, Running
  <2> QED BY <1>1, <2>1, <2>2, <2>3 DEF IInv, Running
<1> QED BY <1>2, <1>3, <1>4, <1>5 DEF IInv

-----------------------------------------------------------------------------
LEMMA DestructorInv == ASSUME IInv, SetStop \/ NotifyAll \/ Join PROVE IInv'
<1>1. UNCHANGED <<tasks, job, caller, added, begun, finished>>
  BY DEF SetStop, NotifyAll, Join
<1>2. FirstInFirstOut' /\ Notifying' = Notifying
  BY <1>1 DEF IInv, FirstInFirstOut, Notifying
<1>3. CASE SetStop \/ Join
  <2>1. UNCHANGED at
    BY <1>3 DEF SetStop, Join
  <2>2. TypeOK'
    BY <1>1, <1>3, <2>1 DEF SetStop, Join, IInv, TypeOK
  <2>3. NoTaskForgotten' /\ Running'
    BY <1>1, <1>2, <2>1 DEF IInv, NoTaskForgotten, Running, Asleep, Awake
  <2>4. Ending'
    BY <1>1, <1>2, <1>3, <2>1 DEF SetStop, Join, IInv, Ending, TypeOK
  <2> QED BY <1>2, <2>2, <2>3, <2>4 DEF IInv
<1>4. CASE NotifyAll
  <2>1. /\ at' = [w \in Workers |-> IF at[w] = "asleep" THEN "mutex" ELSE at[w]]
        /\ UNCHANGED stop /\ destructor = "notify" /\ destructor' = "join"
    BY <1>4 DEF NotifyAll
  <2>2. TypeOK'
    BY <1>1, <2>1 DEF IInv, TypeOK
  <2>3. Asleep' = {}
    BY <2>1 DEF Asleep
  <2>4. \A w \in Workers : /\ at'[w] = "ended" <=> at[w] = "ended"
                           /\ at'[w] = "running" <=> at[w] = "running"
    BY <2>1
  <2>5. Ending' /\ Running'
    BY <1>1, <1>2, <2>1, <2>4 DEF IInv, Ending, Running
  <2> QED BY <1>2, <2>2, <2>3, <2>5 DEF IInv, NoTaskForgotten
<1> QED BY <1>3, <1>4

LEMMA NextInv == IInv /\ [Next]_vars => IInv'
<1> SUFFICES ASSUME IInv, [Next]_vars PROVE IInv'
  OBVIOUS
<1>1. CASE UNCHANGED vars
  BY <1>1 DEF vars, IInv, TypeOK, FirstInFirstOut, NoTaskForgotten, Ending, Running,
     Asleep, Awake, Notifying
<1> QED BY <1>1, PushInv, NotifyOneInv, WakeInv, TakeInv, SleepInv, EndInv, FinishInv,
           DestructorInv DEF Next, Work, Gone

LEMMA Invariant == Spec => []IInv
BY InitInv, NextInv, PTL DEF Spec

\* Every variable of the queue keeps its type, and a worker has a task exactly while
\* it runs one.
THEOREM QueueTypes == Spec => []TypeOK
<1>1. IInv => TypeOK
  BY DEF IInv
<1> QED BY Invariant, <1>1, PTL

\* Tasks are taken in the order in which they were added, each of them once.
THEOREM QueueOrder == Spec => []FirstInFirstOut
<1>1. IInv => FirstInFirstOut
  BY DEF IInv
<1> QED BY Invariant, <1>1, PTL

\* No wake-up is lost: while any worker sleeps, every waiting task has a worker that
\* is awake or a caller that is about to wake one.
THEOREM NoLostWakeUp == Spec => []NoTaskForgotten
<1>1. IInv => NoTaskForgotten
  BY DEF IInv
<1> QED BY Invariant, <1>1, PTL

\* With at least one worker, the destructor returns only when every task has been
\* run (with none, hardware_concurrency() being 0, nothing ever runs).
THEOREM QueueDrains == ASSUME Workers # {} PROVE Spec => []DrainedAtEnd
<1>1. ASSUME IInv PROVE DrainedAtEnd
  <2> SUFFICES ASSUME destructor = "gone" PROVE finished = Elems(added) /\ tasks = <<>>
    BY DEF DrainedAtEnd
  <2>1. \A w \in Workers : at[w] = "ended" /\ tasks = <<>>
    BY <1>1 DEF IInv, Ending
  <2>2. tasks = <<>> /\ added = begun
    BY <1>1, <2>1 DEF IInv, FirstInFirstOut, TypeOK
  <2>3. {v \in Workers : at[v] = "running"} = {}
    BY <2>1
  <2> QED BY <1>1, <2>2, <2>3 DEF IInv, Running
<1> QED BY Invariant, <1>1, PTL

-----------------------------------------------------------------------------
(* The queue implements TaskPool. *)

\* Each task is added once, and no two workers have the same one.
Once ==
    /\ \A i, j \in DOMAIN added : added[i] = added[j] => i = j
    /\ \A v, w \in Workers : job[v] = job[w] /\ job[v] # NoTask => v = w

\* What is known of a task is on the record of those added.
LEMMA AddedParts ==
    ASSUME IInv
    PROVE  /\ Elems(begun) \subseteq Elems(added) /\ Elems(tasks) \subseteq Elems(added)
           /\ InHand \subseteq Elems(added) /\ finished \subseteq Elems(added)
<1>1. /\ begun \in Seq(Tasks) /\ tasks \in Seq(Tasks) /\ added = begun \o tasks
  BY DEF IInv, TypeOK, FirstInFirstOut
<1>2. \A i \in DOMAIN begun : i \in DOMAIN added /\ added[i] = begun[i]
  BY <1>1
<1>3. \A i \in DOMAIN tasks : Len(begun) + i \in DOMAIN added /\ added[Len(begun) + i] = tasks[i]
  BY <1>1
<1>4. Elems(begun) \subseteq Elems(added) /\ Elems(tasks) \subseteq Elems(added)
  BY <1>2, <1>3 DEF Elems
<1>5. \A w \in Workers : job[w] # NoTask => job[w] \in Elems(begun)
  BY DEF IInv, TypeOK, Running
<1>6. InHand \subseteq Elems(begun) /\ finished \subseteq Elems(begun)
  BY <1>5 DEF InHand, IInv, Running
<1> QED BY <1>4, <1>6

\* The first task that waits has not been taken before.
LEMMA HeadIsNew ==
    ASSUME IInv, Once, tasks # <<>>
    PROVE  Head(tasks) \notin InHand
<1>1. /\ begun \in Seq(Tasks) /\ tasks \in Seq(Tasks) /\ added = begun \o tasks
  BY DEF IInv, TypeOK, FirstInFirstOut
<1>2. /\ Len(begun) + 1 \in DOMAIN added /\ added[Len(begun) + 1] = Head(tasks)
  BY <1>1
<1>3. \A i \in DOMAIN begun : i \in DOMAIN added /\ added[i] = begun[i] /\ i # Len(begun) + 1
  BY <1>1
<1>4. Head(tasks) \notin Elems(begun)
  BY <1>2, <1>3 DEF Once, Elems
<1>5. \A w \in Workers : job[w] # NoTask => job[w] \in Elems(begun)
  BY DEF IInv, TypeOK, Running
<1> QED BY <1>4, <1>5 DEF InHand

LEMMA OnceKept == IInv /\ Once /\ [Next]_vars => Once'
<1> SUFFICES ASSUME IInv, Once, [Next]_vars PROVE Once'
  OBVIOUS
<1>1. ASSUME NEW c \in Callers, Push(c) PROVE Once'
  <2>1. PICK t \in Tasks \ Elems(added) : added' = Append(added, t)
    BY <1>1 DEF Push
  <2>2. added \in Seq(Tasks) /\ UNCHANGED job
    BY <1>1 DEF Push, IInv, TypeOK
  <2>3. \A i \in DOMAIN added : added[i] # t
    BY <2>1 DEF Elems
  <2>4. /\ DOMAIN added' = DOMAIN added \cup {Len(added) + 1}
        /\ \A i \in DOMAIN added : added'[i] = added[i]
        /\ added'[Len(added) + 1] = t
    BY <2>1, <2>2
  <2> QED BY <2>2, <2>3, <2>4 DEF Once
<1>2. ASSUME NEW w \in Workers, Take(w) PROVE Once'
  <2>1. /\ UNCHANGED added /\ tasks # <<>>
        /\ job' = [job EXCEPT ![w] = Head(tasks)]
    BY <1>2 DEF Take
  <2>2. \A v \in Workers : job'[v] = IF v = w THEN Head(tasks) ELSE job[v]
    BY <2>1 DEF IInv, TypeOK
  <2>3. \A v \in Workers : job[v] # NoTask => job[v] # Head(tasks)
    BY <2>1, HeadIsNew DEF InHand
  <2> QED BY <2>1, <2>2, <2>3 DEF Once
<1>3. ASSUME NEW w \in Workers, Finish(w) PROVE Once'
  <2>1. UNCHANGED added /\ job' = [job EXCEPT ![w] = NoTask]
    BY <1>3 DEF Finish
  <2>2. \A v \in Workers : job'[v] = IF v = w THEN NoTask ELSE job[v]
    BY <2>1 DEF IInv, TypeOK
  <2> QED BY <2>1, <2>2 DEF Once
<1>4. CASE UNCHANGED <<added, job>>
  BY <1>4 DEF Once
<1>5. \/ UNCHANGED <<added, job>>
      \/ \E c \in Callers : Push(c)
      \/ \E w \in Workers : Take(w) \/ Finish(w)
  BY DEF Next, Work, vars, NotifyOne, Sleep, End, WakeSpuriously, SetStop, NotifyAll, Join, Gone
<1> QED BY <1>1, <1>2, <1>3, <1>4, <1>5

LEMMA PoolStutters ==
    ASSUME UNCHANGED <<tasks, job, finished, destructor>> PROVE UNCHANGED Pool!pool
BY DEF Pool!pool, InHand, Phase

\* Every step of the queue is one of the pool's, or none.  When there are no workers
\* the destructor may leave tasks behind.
LEMMA StepRefines ==
    ASSUME Workers # {}, IInv, Once, [Next]_vars
    PROVE  [Pool!Next]_Pool!pool
<1>1. ASSUME NEW c \in Callers, Push(c) PROVE Pool!Next
  <2>1. PICK t \in Tasks \ Elems(added) : tasks' = Append(tasks, t)
    BY <1>1 DEF Push
  <2>2. UNCHANGED <<job, finished, destructor>> /\ destructor = "none"
    BY <1>1 DEF Push
  <2>3. t \notin Pool!Known
    BY <2>1, AddedParts DEF Pool!Known, Elems
  <2>4. Phase = "open" /\ Phase' = Phase /\ InHand' = InHand
    BY <2>2 DEF Phase, InHand
  <2>5. Pool!Give(t)
    BY <2>1, <2>2, <2>3, <2>4 DEF Pool!Give
  <2> QED BY <2>1, <2>5 DEF Pool!Next
<1>2. ASSUME NEW w \in Workers, Take(w) PROVE Pool!Next
  <2>1. /\ UNCHANGED <<finished, destructor>> /\ at[w] = "mutex"
        /\ tasks # <<>> /\ tasks' = Tail(tasks) /\ job' = [job EXCEPT ![w] = Head(tasks)]
    BY <1>2 DEF Take
  <2>2. job[w] = NoTask /\ Head(tasks) # NoTask
    BY <2>1 DEF IInv, TypeOK
  <2>3. \A v \in Workers : job'[v] = IF v = w THEN Head(tasks) ELSE job[v]
    BY <2>1 DEF IInv, TypeOK
  <2>4. InHand' = InHand \cup {Head(tasks)}
    BY <2>2, <2>3 DEF InHand
  <2>5. Phase' = Phase
    BY <2>1 DEF Phase
  <2>6. Pool!Start
    BY <2>1, <2>4, <2>5 DEF Pool!Start
  <2> QED BY <2>6 DEF Pool!Next
<1>3. ASSUME NEW w \in Workers, Finish(w) PROVE Pool!Next
  <2>1. /\ UNCHANGED <<tasks, destructor>> /\ at[w] = "running"
        /\ finished' = finished \cup {job[w]} /\ job' = [job EXCEPT ![w] = NoTask]
    BY <1>3 DEF Finish
  <2>2. job[w] \in Tasks /\ job[w] # NoTask
    BY <2>1 DEF IInv, TypeOK
  <2>3. \A v \in Workers : job'[v] = IF v = w THEN NoTask ELSE job[v]
    BY <2>1 DEF IInv, TypeOK
  <2>4. InHand' = InHand \ {job[w]} /\ job[w] \in InHand
    BY <2>2, <2>3 DEF InHand, Once
  <2>5. Phase' = Phase
    BY <2>1 DEF Phase
  <2>6. Pool!Complete(job[w])
    BY <2>1, <2>4, <2>5 DEF Pool!Complete
  <2> QED BY <2>2, <2>6 DEF Pool!Next
<1>4. CASE SetStop
  <2>1. UNCHANGED <<tasks, job, finished>> /\ destructor = "none" /\ destructor' = "notify"
    BY <1>4 DEF SetStop
  <2>2. Phase = "open" /\ Phase' = "closing" /\ InHand' = InHand
    BY <2>1 DEF Phase, InHand
  <2> QED BY <2>1, <2>2 DEF Pool!Next, Pool!Close
<1>5. CASE NotifyAll
  <2>1. UNCHANGED <<tasks, job, finished>> /\ destructor = "notify" /\ destructor' = "join"
    BY <1>5 DEF NotifyAll
  <2>2. Phase' = Phase /\ InHand' = InHand
    BY <2>1 DEF Phase, InHand
  <2> QED BY <2>1, <2>2 DEF Pool!pool
<1>6. CASE Join
  <2>1. /\ UNCHANGED <<tasks, job, finished>> /\ destructor = "join" /\ destructor' = "gone"
        /\ \A w \in Workers : at[w] = "ended"
    BY <1>6 DEF Join
  <2>2. tasks = <<>> /\ InHand = {}
    BY <2>1 DEF IInv, TypeOK, Ending, InHand
  <2>3. Phase = "closing" /\ Phase' = "closed" /\ InHand' = InHand
    BY <2>1 DEF Phase, InHand
  <2> QED BY <2>1, <2>2, <2>3 DEF Pool!Next, Pool!Closed
<1>7. CASE UNCHANGED <<tasks, job, finished, destructor>>
  BY <1>7, PoolStutters
<1>8. \/ UNCHANGED <<tasks, job, finished, destructor>>
      \/ \E c \in Callers : Push(c)
      \/ \E w \in Workers : Take(w) \/ Finish(w)
      \/ SetStop \/ NotifyAll \/ Join
  BY DEF Next, Work, vars, NotifyOne, Sleep, End, WakeSpuriously, Gone
<1> QED BY <1>1, <1>2, <1>3, <1>4, <1>5, <1>6, <1>7, <1>8

\* With at least one worker, threads, notifications and spurious wake-ups do not show:
\* the queue behaves as a pool that begins tasks in order, each once, and that is
\* closed only when all are done.
THEOREM PoolRefinement == ASSUME Workers # {} PROVE Spec => ImplementsTaskPool
<1>1. Init => Pool!Init
  <2> SUFFICES ASSUME Init PROVE Pool!Init
    OBVIOUS
  <2>1. InHand = {}
    BY DEF Init, InHand
  <2> QED BY <2>1 DEF Init, Pool!Init, Phase
<1>2. Init => Once
  BY DEF Init, Once
<1>3. IInv /\ Once /\ [Next]_vars => [Pool!Next]_Pool!pool
  BY StepRefines
<1> QED BY Invariant, OnceKept, <1>1, <1>2, <1>3, PTL DEF Spec, ImplementsTaskPool, Pool!Spec
=============================================================================
