--------------------------- MODULE ConnectionProofs ---------------------------
(***************************************************************************)
(* Proofs about the clients' connections and their sessions, for any set   *)
(* of connections, users and session ids and for any lifetime.             *)
(***************************************************************************)
EXTENDS Connection, FiniteSetTheorems, SequenceTheorems, TLAPS

USE ConnectionAssumption, SessionsAssumption

\* The handler that stands at a session of connection k; and the tasks of T that
\* are to call their connection back.
InHand(i, k) == IF i.conn = k THEN 1 ELSE 0
Calling(T)   == {t \in T : t.command # "stopGame"}
Waiting(T)   == Cardinality(Calling(T))

Handled  == [conn : Conns, n : 1..MaxRequests, command : UserCommands \cup {"confirm"},
             id : SessionIds]
TaskType == [conn : Conns, n : 1..MaxRequests, command : OpenCommands \cup UserCommands,
             user : SUBSET Users, id : SessionIds \cup {NoId}]

\* The two halves of the type invariant.
SessionTypes ==
    /\ DOMAIN sessions \subseteq DOMAIN issued \ loggedOut
    /\ \A id \in DOMAIN sessions : sessions[id] = issued[id]
    /\ DOMAIN issued \subseteq SessionIds /\ now \in 0..MaxClock
    /\ \A id \in DOMAIN issued : issued[id].userId \in Users /\ issued[id].createdAt \in 0..now

NetTypes ==
    /\ open \in [Conns -> BOOLEAN] /\ reads \in [Conns -> Nat]
    /\ posted \in [Conns -> Seq(0..MaxRequests)] /\ writing \in [Conns -> Seq(0..MaxRequests)]
    /\ io \in Handled \cup {Idle}
    /\ tasks \subseteq TaskType
    /\ inGame \in [Conns -> BOOLEAN] /\ joins \in [Conns -> 0..MaxRequests]
    /\ asked \in [Conns -> 0..MaxRequests] /\ got \in [Conns -> Seq(1..MaxRequests)]
    /\ silent \in [Conns -> Nat] /\ updates \in [Conns -> 0..MaxUpdates]

\* Only what was issued is logged out, and a handler looks at an id that was issued.
Issued ==
    /\ loggedOut \subseteq DOMAIN issued
    /\ io.command \in UserCommands => io.id \in DOMAIN issued

\* The task a handler is about to queue is a new one, and the newest.
Numbers(k) ==
    /\ \A t \in TasksOf(k) : t.n <= asked[k]
    /\ io.conn = k => io.n <= asked[k]
    /\ io.conn = k /\ io.command \in UserCommands => \A t \in TasksOf(k) : t.n < io.n

\* A game calls back only who has asked to join, and nobody asks more than once a
\* request.
Joined(k) ==
    /\ \A t \in TasksOf(k) : t.command = "addPlayerToGame" => joins[k] > 0
    /\ inGame[k] => joins[k] > 0
    /\ updates[k] > 0 => joins[k] > 0
    /\ joins[k] <= asked[k]
    /\ io.conn = k /\ io.command \in UserCommands => joins[k] < asked[k]

\* What a connection was sent is forgotten when it closes.
Forgotten(k) ==
    ~open[k] => got[k] = <<>> /\ silent[k] = 0 /\ updates[k] = 0

\* OneThingAtATime without the order.
Handling(k) == InHand(io, k)
Posted(k)   == Len(posted[k])
Written(k)  == Len(writing[k])
Working(k)  == Waiting(TasksOf(k))

Sum(k) == reads[k] + Handling(k) + Posted(k) + Written(k) + Working(k) + silent[k]

Accounts(k) ==
    /\ open[k] => Sum(k) = 1 + joins[k] + updates[k]
    /\ joins[k] = 0 => Sum(k) <= 1

\* Of a connection that has joined no game, what is under way is its last request,
\* and all before it are answered.
Answered(k) == Len(got[k])

InOrder(k) ==
    open[k] /\ joins[k] = 0 =>
        /\ Answered(k) + 1 = asked[k] + reads[k]
        /\ \A i \in DOMAIN got[k] : got[k][i] = i
        /\ \A i \in DOMAIN posted[k] : posted[k][i] = asked[k]
        /\ \A i \in DOMAIN writing[k] : writing[k][i] = asked[k]
        /\ \A t \in TasksOf(k) : t.command # "stopGame" => t.n = asked[k]
        /\ io.conn = k => io.n = asked[k]

ConnInv(k) == Numbers(k) /\ Joined(k) /\ Forgotten(k) /\ Accounts(k) /\ InOrder(k)

NetInv == NetTypes /\ IsFiniteSet(tasks) /\ \A k \in Conns : ConnInv(k)
IInv   == SessionTypes /\ Issued /\ NetInv

-----------------------------------------------------------------------------
(* Counting *)

LEMMA InHandIs == \A i, k : Cardinality({h \in {i} : h.conn = k}) = InHand(i, k)
<1> SUFFICES ASSUME NEW i, NEW k PROVE Cardinality({h \in {i} : h.conn = k}) = InHand(i, k)
  OBVIOUS
<1>1. CASE i.conn = k
  <2>1. {h \in {i} : h.conn = k} = {i}
    BY <1>1
  <2> QED BY <1>1, <2>1, FS_Singleton DEF InHand
<1>2. CASE i.conn # k
  <2>1. {h \in {i} : h.conn = k} = {}
    BY <1>2
  <2> QED BY <1>2, <2>1, FS_EmptySet DEF InHand
<1> QED BY <1>1, <1>2

LEMMA WaitingIsNumber ==
    ASSUME NEW T, IsFiniteSet(T)
    PROVE  /\ Waiting(T) \in Nat /\ IsFiniteSet(Calling(T))
           /\ Waiting(T) = 0 <=> Calling(T) = {}
<1>1. Calling(T) \subseteq T
  BY DEF Calling
<1>2. IsFiniteSet(Calling(T))
  BY <1>1, FS_Subset
<1> QED BY <1>2, FS_CardinalityType, FS_EmptySet DEF Waiting

LEMMA WaitingMore ==
    ASSUME NEW T, IsFiniteSet(T), NEW t, t \notin T
    PROVE  Waiting(T \cup {t}) = Waiting(T) + (IF t.command = "stopGame" THEN 0 ELSE 1)
<1>1. CASE t.command = "stopGame"
  <2>1. Calling(T \cup {t}) = Calling(T)
    BY <1>1 DEF Calling
  <2> QED BY <1>1, <2>1, WaitingIsNumber DEF Waiting
<1>2. CASE t.command # "stopGame"
  <2>1. Calling(T \cup {t}) = Calling(T) \cup {t} /\ t \notin Calling(T)
    BY <1>2 DEF Calling
  <2>2. IsFiniteSet(Calling(T))
    BY WaitingIsNumber
  <2> QED BY <1>2, <2>1, <2>2, FS_AddElement DEF Waiting
<1> QED BY <1>1, <1>2

LEMMA WaitingLess ==
    ASSUME NEW T, IsFiniteSet(T), NEW t \in T
    PROVE  Waiting(T) = Waiting(T \ {t}) + (IF t.command = "stopGame" THEN 0 ELSE 1)
<1>1. IsFiniteSet(T \ {t})
  BY FS_Subset
<1>2. (T \ {t}) \cup {t} = T
  OBVIOUS
<1>3. Waiting((T \ {t}) \cup {t}) = Waiting(T \ {t}) + (IF t.command = "stopGame" THEN 0 ELSE 1)
  BY <1>1, WaitingMore
<1> QED BY <1>2, <1>3

LEMMA TasksOfFinite ==
    ASSUME IsFiniteSet(tasks), NEW k
    PROVE  /\ IsFiniteSet(TasksOf(k)) /\ Waiting(TasksOf(k)) \in Nat
           /\ Waiting(TasksOf(k)) = 0 <=> \A t \in TasksOf(k) : t.command = "stopGame"
<1>1. TasksOf(k) \subseteq tasks
  BY DEF TasksOf
<1>2. IsFiniteSet(TasksOf(k))
  BY <1>1, FS_Subset
<1> QED BY <1>2, WaitingIsNumber DEF Calling

\* A write that completes leaves the others in their order.
LEMMA WithoutOne ==
    ASSUME NEW S, NEW s \in Seq(S), NEW i \in DOMAIN s
    PROVE  /\ Without(s, i) \in Seq(S)
           /\ Len(Without(s, i)) = Len(s) - 1
           /\ \A j \in DOMAIN Without(s, i) : \E m \in DOMAIN s : Without(s, i)[j] = s[m]
<1> DEFINE left == SubSeq(s, 1, i - 1)
           right == SubSeq(s, i + 1, Len(s))
<1>1. Len(s) \in Nat /\ i \in 1..Len(s)
  BY LenProperties
<1>2. /\ left \in Seq(S) /\ Len(left) = i - 1
      /\ \A j \in 1..(i - 1) : left[j] = s[j]
  BY <1>1, SubSeqProperties
<1>3. /\ right \in Seq(S) /\ Len(right) = Len(s) - i
      /\ \A j \in 1..(Len(s) - i) : right[j] = s[i + j]
  BY <1>1, SubSeqProperties
<1> HIDE DEF left, right
<1>4. /\ left \o right \in Seq(S) /\ Len(left \o right) = Len(s) - 1
      /\ \A j \in 1..(Len(s) - 1) :
            (left \o right)[j] = IF j <= i - 1 THEN left[j] ELSE right[j - (i - 1)]
  <2>1. /\ left \o right \in Seq(S) /\ Len(left \o right) = Len(left) + Len(right)
        /\ \A j \in 1..(Len(left) + Len(right)) :
              (left \o right)[j] = IF j <= Len(left) THEN left[j] ELSE right[j - Len(left)]
    BY <1>2, <1>3, ConcatProperties
  <2>2. Len(left) + Len(right) = Len(s) - 1
    BY <1>1, <1>2, <1>3
  <2> QED BY <2>1, <2>2, <1>2
<1>5. ASSUME NEW j \in 1..(Len(s) - 1) PROVE \E m \in 1..Len(s) : (left \o right)[j] = s[m]
  <2>1. CASE j <= i - 1
    BY <1>1, <1>2, <1>4, <2>1
  <2>2. CASE ~(j <= i - 1)
    <3>1. j - (i - 1) \in 1..(Len(s) - i) /\ i + (j - (i - 1)) = j + 1 /\ j + 1 \in 1..Len(s)
      BY <1>1, <2>2
    <3> QED BY <1>3, <1>4, <2>2, <3>1
  <2> QED BY <2>1, <2>2
<1>6. Without(s, i) = left \o right
  BY DEF Without, left, right
<1>7. DOMAIN (left \o right) = 1..(Len(s) - 1) /\ DOMAIN s = 1..Len(s)
  BY <1>4, LenProperties
<1> QED BY <1>4, <1>5, <1>6, <1>7

-----------------------------------------------------------------------------
(* What the parts of a step do *)

LEMMA TypeHalves == TypeOK <=> SessionTypes /\ NetTypes
BY DEF TypeOK, SessionTypes, NetTypes, Handled, TaskType

LEMMA IoIs ==
    ASSUME NetTypes
    PROVE  /\ io.conn \in Conns \/ io.command # "none" => io \in Handled
           /\ io = Idle => \A k \in Conns : io.conn # k /\ InHand(io, k) = 0
           /\ Idle.command \notin UserCommands /\ \A k \in Conns : Idle.conn # k
BY DEF NetTypes, Idle, Handled, InHand, UserCommands, Queries

LEMMA TasksMore ==
    ASSUME NetTypes, IsFiniteSet(tasks), NEW t, t \notin tasks, tasks' = tasks \cup {t}
    PROVE  /\ IsFiniteSet(tasks')
           /\ \A j \in Conns : j # t.conn => TasksOf(j)' = TasksOf(j)
           /\ \A j \in Conns : j = t.conn =>
                 /\ TasksOf(j)' = TasksOf(j) \cup {t}
                 /\ Waiting(TasksOf(j)') = Waiting(TasksOf(j))
                       + (IF t.command = "stopGame" THEN 0 ELSE 1)
<1>1. IsFiniteSet(tasks')
  BY FS_AddElement
<1>2. \A j \in Conns : j # t.conn => TasksOf(j)' = TasksOf(j)
  BY DEF TasksOf
<1>3. ASSUME NEW j \in Conns, j = t.conn
      PROVE  /\ TasksOf(j)' = TasksOf(j) \cup {t}
             /\ Waiting(TasksOf(j)') = Waiting(TasksOf(j))
                   + (IF t.command = "stopGame" THEN 0 ELSE 1)
  <2>1. TasksOf(j)' = TasksOf(j) \cup {t} /\ t \notin TasksOf(j)
    BY <1>3 DEF TasksOf
  <2>2. IsFiniteSet(TasksOf(j))
    BY TasksOfFinite
  <2>3. Waiting(TasksOf(j) \cup {t}) = Waiting(TasksOf(j))
           + (IF t.command = "stopGame" THEN 0 ELSE 1)
    BY <2>1, <2>2, WaitingMore
  <2> QED BY <2>1, <2>3
<1> QED BY <1>1, <1>2, <1>3

LEMMA TasksLess ==
    ASSUME NetTypes, IsFiniteSet(tasks), NEW t \in tasks, tasks' = tasks \ {t}
    PROVE  /\ IsFiniteSet(tasks') /\ tasks' \subseteq tasks
           /\ \A j \in Conns : TasksOf(j)' \subseteq TasksOf(j)
           /\ \A j \in Conns : j # t.conn => TasksOf(j)' = TasksOf(j)
           /\ t.conn \in Conns /\ t.n \in 1..MaxRequests /\ t \in TasksOf(t.conn)
           /\ \A j \in Conns : j = t.conn =>
                 Waiting(TasksOf(j)) = Waiting(TasksOf(j)')
                       + (IF t.command = "stopGame" THEN 0 ELSE 1)
<1>1. IsFiniteSet(tasks')
  BY FS_Subset
<1>2. \A j \in Conns : j # t.conn => TasksOf(j)' = TasksOf(j)
  BY DEF TasksOf
<1>3. t \in TaskType
  BY DEF NetTypes
<1>4. t.conn \in Conns /\ t.n \in 1..MaxRequests /\ t \in TasksOf(t.conn)
  BY <1>3 DEF TaskType, TasksOf
<1>5. ASSUME NEW j \in Conns, j = t.conn
      PROVE  Waiting(TasksOf(j)) = Waiting(TasksOf(j)')
                + (IF t.command = "stopGame" THEN 0 ELSE 1)
  <2>1. TasksOf(j)' = TasksOf(j) \ {t} /\ t \in TasksOf(j)
    BY <1>5 DEF TasksOf
  <2>2. IsFiniteSet(TasksOf(j))
    BY TasksOfFinite
  <2>3. Waiting(TasksOf(j)) = Waiting(TasksOf(j) \ {t})
           + (IF t.command = "stopGame" THEN 0 ELSE 1)
    BY <2>1, <2>2, WaitingLess
  <2> QED BY <2>1, <2>3
<1>6. \A j \in Conns : TasksOf(j)' \subseteq TasksOf(j)
  BY DEF TasksOf
<1> QED BY <1>1, <1>2, <1>4, <1>5, <1>6

\* An answer is posted at the end of what is posted.
LEMMA Said ==
    ASSUME NetTypes, NEW k \in Conns, NEW n \in 0..MaxRequests, Say(k, n)
    PROVE  /\ posted' \in [Conns -> Seq(0..MaxRequests)]
           /\ \A j \in Conns : j # k => posted'[j] = posted[j]
           /\ Len(posted[k]) \in Nat /\ Len(posted'[k]) = Len(posted[k]) + 1
           /\ joins[k] = 0 => \A i \in DOMAIN posted'[k] :
                 posted'[k][i] = n \/ (i \in DOMAIN posted[k] /\ posted'[k][i] = posted[k][i])
<1> DEFINE line == IF joins[k] > 0 THEN 0 ELSE n
<1>1. posted[k] \in Seq(0..MaxRequests) /\ line \in 0..MaxRequests
  BY DEF NetTypes
<1>2. posted' = [posted EXCEPT ![k] = Append(posted[k], line)]
  BY DEF Say
<1>3. posted'[k] = Append(posted[k], line) /\ \A j \in Conns : j # k => posted'[j] = posted[j]
  BY <1>2 DEF NetTypes
<1>4. /\ Append(posted[k], line) \in Seq(0..MaxRequests)
      /\ Len(Append(posted[k], line)) = Len(posted[k]) + 1
      /\ \A i \in 1..Len(posted[k]) : Append(posted[k], line)[i] = posted[k][i]
      /\ Append(posted[k], line)[Len(posted[k]) + 1] = line
  BY <1>1, AppendProperties
<1>5. Len(posted[k]) \in Nat /\ DOMAIN posted[k] = 1..Len(posted[k])
  BY <1>1, LenProperties
<1>6. DOMAIN Append(posted[k], line) = 1..(Len(posted[k]) + 1)
  BY <1>4, LenProperties
<1>7. joins[k] = 0 => line = n
  OBVIOUS
<1> HIDE DEF line
<1>8. posted' \in [Conns -> Seq(0..MaxRequests)]
  BY <1>2, <1>4 DEF NetTypes
<1>9. ASSUME joins[k] = 0, NEW i \in 1..(Len(posted[k]) + 1)
      PROVE  Append(posted[k], line)[i] = n
             \/ (i \in 1..Len(posted[k]) /\ Append(posted[k], line)[i] = posted[k][i])
  <2>1. i \in 1..Len(posted[k]) \/ i = Len(posted[k]) + 1
    BY <1>5
  <2> QED BY <1>4, <1>7, <1>9, <2>1
<1> QED BY <1>3, <1>4, <1>5, <1>6, <1>8, <1>9

\* What a step leaves alone of connection j.
Same(j) ==
    /\ open'[j] = open[j] /\ reads'[j] = reads[j] /\ posted'[j] = posted[j]
    /\ writing'[j] = writing[j] /\ inGame'[j] = inGame[j] /\ asked'[j] = asked[j]
    /\ got'[j] = got[j] /\ silent'[j] = silent[j] /\ joins'[j] = joins[j]
    /\ updates'[j] = updates[j] /\ TasksOf(j)' = TasksOf(j)
    /\ io' = io \/ (io.conn # j /\ io'.conn # j)

LEMMA Frame ==
    ASSUME NEW j \in Conns, ConnInv(j), Same(j)
    PROVE  ConnInv(j)'
<1>1. Numbers(j)'
  BY DEF ConnInv, Same, Numbers
<1>2. Joined(j)'
  BY DEF ConnInv, Same, Joined
<1>3. Forgotten(j)'
  BY DEF ConnInv, Same, Forgotten
<1>4. Accounts(j)'
  <2>1. /\ Handling(j)' = Handling(j) /\ Posted(j)' = Posted(j) /\ Written(j)' = Written(j)
        /\ Working(j)' = Working(j)
    BY DEF Same, Handling, InHand, Posted, Written, Working
  <2>2. Sum(j)' = Sum(j)
    BY <2>1 DEF Same, Sum
  <2> QED BY <2>2 DEF ConnInv, Same, Accounts
<1>5. InOrder(j)'
  <2>1. Answered(j)' = Answered(j)
    BY DEF Same, Answered
  <2> QED BY <2>1 DEF ConnInv, Same, InOrder
<1> QED BY <1>1, <1>2, <1>3, <1>4, <1>5 DEF ConnInv

\* The numbers of a connection are numbers.
LEMMA Parts ==
    ASSUME NetInv, NEW k \in Conns
    PROVE  /\ reads[k] \in Nat /\ silent[k] \in Nat /\ joins[k] \in 0..MaxRequests
           /\ asked[k] \in 0..MaxRequests /\ updates[k] \in 0..MaxUpdates
           /\ open[k] \in BOOLEAN /\ inGame[k] \in BOOLEAN
           /\ posted[k] \in Seq(0..MaxRequests) /\ Len(posted[k]) \in Nat
           /\ writing[k] \in Seq(0..MaxRequests) /\ Len(writing[k]) \in Nat
           /\ got[k] \in Seq(1..MaxRequests) /\ Len(got[k]) \in Nat
           /\ Waiting(TasksOf(k)) \in Nat
           /\ InHand(io, k) = (IF io.conn = k THEN 1 ELSE 0)
           /\ DOMAIN posted[k] = 1..Len(posted[k]) /\ DOMAIN writing[k] = 1..Len(writing[k])
           /\ ConnInv(k)
<1>1. Waiting(TasksOf(k)) \in Nat
  BY TasksOfFinite DEF NetInv
<1>2. /\ posted[k] \in Seq(0..MaxRequests) /\ writing[k] \in Seq(0..MaxRequests)
      /\ got[k] \in Seq(1..MaxRequests)
  BY DEF NetInv, NetTypes
<1> QED BY <1>1, <1>2, LenProperties DEF NetInv, NetTypes, InHand

\* The terms of the sum.
LEMMA Terms ==
    ASSUME NetInv, NEW k \in Conns
    PROVE  /\ reads[k] \in Nat /\ Handling(k) \in Nat /\ Posted(k) \in Nat
           /\ Written(k) \in Nat /\ Working(k) \in Nat /\ silent[k] \in Nat
           /\ joins[k] \in Nat /\ updates[k] \in Nat /\ asked[k] \in Nat
           /\ Answered(k) \in Nat /\ Accounts(k) /\ Sum(k) \in Nat
<1>1. /\ reads[k] \in Nat /\ Handling(k) \in Nat /\ Posted(k) \in Nat
      /\ Written(k) \in Nat /\ Working(k) \in Nat /\ silent[k] \in Nat
      /\ joins[k] \in Nat /\ updates[k] \in Nat /\ asked[k] \in Nat
      /\ Answered(k) \in Nat /\ Accounts(k)
  <2>1. ConnInv(k)
    BY DEF NetInv
  <2> QED BY <2>1, Parts DEF Answered, Handling, Posted, Written, Working, ConnInv
<1>2. Sum(k) \in Nat
  BY <1>1 DEF Sum
<1> QED BY <1>1, <1>2

\* While a connection that has joined no game waits for a line, nothing else of it
\* is under way.
LEMMA Alone ==
    ASSUME NetInv, NEW k \in Conns, joins[k] = 0, reads[k] > 0
    PROVE  /\ reads[k] = 1 /\ silent[k] = 0 /\ io.conn # k
           /\ Len(posted[k]) = 0 /\ Len(writing[k]) = 0
           /\ DOMAIN posted[k] = {} /\ DOMAIN writing[k] = {}
           /\ Waiting(TasksOf(k)) = 0
           /\ \A t \in TasksOf(k) : t.command = "stopGame"
<1>1. /\ reads[k] = 1 /\ silent[k] = 0 /\ io.conn # k
      /\ Len(posted[k]) = 0 /\ Len(writing[k]) = 0 /\ Waiting(TasksOf(k)) = 0
  <2>1. Sum(k) <= 1 /\ reads[k] >= 1
    BY Terms DEF Accounts
  <2>2. /\ reads[k] = 1 /\ silent[k] = 0 /\ Handling(k) = 0 /\ Posted(k) = 0
        /\ Written(k) = 0 /\ Working(k) = 0
    <3>1. PICK handled \in Nat, waits \in Nat, writes \in Nat, works \in Nat :
             /\ handled = Handling(k) /\ waits = Posted(k)
             /\ writes = Written(k) /\ works = Working(k)
      BY Terms
    <3>2. PICK read \in Nat, lost \in Nat : read = reads[k] /\ lost = silent[k]
      BY Terms
    <3>3. Sum(k) = read + handled + waits + writes + works + lost
      BY <3>1, <3>2 DEF Sum
    <3>4. /\ read = 1 /\ lost = 0
          /\ handled = 0 /\ waits = 0 /\ writes = 0 /\ works = 0
      BY <2>1, <3>2, <3>3
    <3> QED BY <3>1, <3>2, <3>4
  <2> QED BY <2>2 DEF Handling, Posted, Written, Working, InHand
<1>2. \A t \in TasksOf(k) : t.command = "stopGame"
  BY <1>1, TasksOfFinite DEF NetInv
<1> QED BY <1>1, <1>2, Parts

-----------------------------------------------------------------------------
(* Steps that read a line *)

\* What every request has in common.
LEMMA LineRead ==
    ASSUME NetInv, NEW k \in Conns, ReadLine(k)
    PROVE  /\ asked[k] + 1 \in 1..MaxRequests
           /\ asked' \in [Conns -> 0..MaxRequests] /\ reads' \in [Conns -> Nat]
           /\ asked[k] \in Nat /\ asked'[k] = asked[k] + 1
           /\ reads[k] \in Nat /\ reads'[k] = reads[k] - 1 /\ reads'[k] \in Nat
           /\ \A j \in Conns : j # k => asked'[j] = asked[j] /\ reads'[j] = reads[j]
           /\ io = Idle /\ io.conn # k /\ InHand(io, k) = 0
           /\ \A t \in tasks : t.conn = k => t.n <= asked[k]
           /\ \A t \in tasks : t.n \in Nat
<1>1. /\ asked[k] \in 0..MaxRequests /\ reads[k] \in Nat /\ asked[k] < MaxRequests /\ reads[k] > 0
      /\ asked \in [Conns -> 0..MaxRequests] /\ reads \in [Conns -> Nat]
  BY DEF ReadLine, NetInv, NetTypes
<1>2. asked' = [asked EXCEPT ![k] = asked[k] + 1] /\ reads' = [reads EXCEPT ![k] = reads[k] - 1]
  BY DEF ReadLine
<1>3. io = Idle /\ io.conn # k /\ InHand(io, k) = 0
  BY IoIs DEF ReadLine, NetInv
<1>4. \A t \in tasks : t.conn = k => t.n <= asked[k]
  BY DEF ReadLine, NetInv, ConnInv, Numbers, TasksOf
<1>5. \A t \in tasks : t.n \in Nat
  BY DEF NetInv, NetTypes, TaskType
<1> QED BY <1>1, <1>2, <1>3, <1>4, <1>5 DEF ReadLine

\* The line of a connection that has joined no game is its next request, with all
\* before it answered.
LEMMA LineInOrder ==
    ASSUME NetInv, NEW k \in Conns, ReadLine(k), joins[k] = 0, got' = got
    PROVE  /\ open[k] => /\ Answered(k)' + 1 = asked'[k] + reads'[k]
                         /\ \A i \in DOMAIN got'[k] : got'[k][i] = i
           /\ DOMAIN posted[k] = {} /\ DOMAIN writing[k] = {}
           /\ \A t \in TasksOf(k) : t.command = "stopGame"
<1>1. reads[k] > 0
  BY DEF ReadLine
<1>2. ASSUME open[k]
      PROVE  /\ Answered(k)' + 1 = asked'[k] + reads'[k]
             /\ \A i \in DOMAIN got'[k] : got'[k][i] = i
  <2>1. ConnInv(k)
    BY DEF NetInv
  <2>2. Answered(k) + 1 = asked[k] + reads[k] /\ \A i \in DOMAIN got[k] : got[k][i] = i
    BY <1>2, <2>1 DEF ConnInv, InOrder
  <2>3. Answered(k)' = Answered(k)
    BY DEF Answered
  <2>4. Answered(k)' + 1 = asked'[k] + reads'[k]
    BY <2>2, <2>3, LineRead, Terms
  <2> QED BY <2>2, <2>4
<1> QED BY <1>1, <1>2, Alone

LEMMA AnswerHereKeeps ==
    ASSUME NetInv, NEW k \in Conns, AnswerHere(k)
    PROVE  NetInv'
<1>1. /\ asked[k] + 1 \in 1..MaxRequests /\ asked[k] \in Nat /\ reads[k] \in Nat
      /\ asked' \in [Conns -> 0..MaxRequests] /\ reads' \in [Conns -> Nat]
      /\ asked'[k] = asked[k] + 1 /\ reads'[k] = reads[k] - 1 /\ reads[k] > 0
      /\ \A j \in Conns : j # k => asked'[j] = asked[j] /\ reads'[j] = reads[j]
      /\ io.conn # k /\ InHand(io, k) = 0
  BY LineRead DEF AnswerHere, ReadLine
<1>2. /\ posted' \in [Conns -> Seq(0..MaxRequests)]
      /\ \A j \in Conns : j # k => posted'[j] = posted[j]
      /\ Len(posted[k]) \in Nat /\ Len(posted'[k]) = Len(posted[k]) + 1
      /\ joins[k] = 0 => \A i \in DOMAIN posted'[k] :
            posted'[k][i] = asked[k] + 1 \/ (i \in DOMAIN posted[k] /\ posted'[k][i] = posted[k][i])
  BY <1>1, Said DEF AnswerHere, NetInv
<1>3. UNCHANGED <<open, writing, io, tasks, inGame, got, silent, joins, updates>>
  BY DEF AnswerHere, work
<1>4. NetTypes' /\ IsFiniteSet(tasks)'
  BY <1>1, <1>2, <1>3 DEF NetInv, NetTypes
<1>5. \A j \in Conns : TasksOf(j)' = TasksOf(j)
  BY <1>3 DEF TasksOf
<1>6. ASSUME NEW j \in Conns, j # k PROVE ConnInv(j)'
  <2>1. Same(j)
    BY <1>1, <1>2, <1>3, <1>5, <1>6 DEF Same
  <2> QED BY <2>1, Frame DEF NetInv
<1>7. ConnInv(k)'
  <2>1. Numbers(k)'
    <3>1. \A t \in TasksOf(k)' : t.n \in Nat /\ t.n <= asked[k]
      BY <1>5, LineRead DEF AnswerHere, TasksOf
    <3> QED BY <1>1, <1>3, <3>1 DEF Numbers
  <2>2. Joined(k)'
    BY <1>1, <1>3, <1>5, Parts DEF ConnInv, Joined
  <2>3. Forgotten(k)'
    BY <1>3, Parts DEF ConnInv, Forgotten
  <2>4. Accounts(k)'
    <3>1. Sum(k)' = Sum(k)
      <4>1. /\ reads'[k] = reads[k] - 1 /\ Posted(k)' = Posted(k) + 1
            /\ Handling(k)' = Handling(k) /\ Written(k)' = Written(k)
            /\ Working(k)' = Working(k) /\ silent'[k] = silent[k]
        BY <1>1, <1>2, <1>3, <1>5 DEF Handling, Posted, Written, Working
      <4> QED BY <4>1, Terms DEF Sum
    <3> QED BY <1>3, <3>1, Terms DEF Accounts
  <2>5. InOrder(k)'
    <3> SUFFICES ASSUME joins[k] = 0, open[k] PROVE InOrder(k)'
      BY <1>3 DEF InOrder
    <3>1. /\ Answered(k)' + 1 = asked'[k] + reads'[k]
          /\ \A i \in DOMAIN got'[k] : got'[k][i] = i
          /\ DOMAIN posted[k] = {} /\ DOMAIN writing[k] = {}
          /\ \A t \in TasksOf(k) : t.command = "stopGame"
      BY <1>3, LineInOrder DEF AnswerHere
    <3>4. \A i \in DOMAIN posted'[k] : posted'[k][i] = asked'[k]
      BY <1>1, <1>2, <3>1
    <3> QED BY <1>1, <1>3, <1>5, <3>1, <3>4 DEF InOrder
  <2> QED BY <2>1, <2>2, <2>3, <2>4, <2>5 DEF ConnInv
<1> QED BY <1>4, <1>6, <1>7 DEF NetInv

LEMMA AskKeeps ==
    ASSUME NetInv, NEW k \in Conns, Ask(k)
    PROVE  NetInv'
<1>1. /\ asked[k] + 1 \in 1..MaxRequests /\ asked[k] \in Nat /\ reads[k] \in Nat
      /\ asked' \in [Conns -> 0..MaxRequests] /\ reads' \in [Conns -> Nat]
      /\ asked'[k] = asked[k] + 1 /\ reads'[k] = reads[k] - 1 /\ reads[k] > 0
      /\ \A j \in Conns : j # k => asked'[j] = asked[j] /\ reads'[j] = reads[j]
      /\ io.conn # k /\ InHand(io, k) = 0
  BY LineRead DEF Ask, ReadLine
<1>2. PICK t : /\ t.conn = k /\ t.n = asked[k] + 1 /\ t.command \in OpenCommands
               /\ t \in TaskType /\ tasks' = tasks \cup {t}
  <2>1. PICK command \in OpenCommands : Enqueue(k, asked[k] + 1, command, {}, NoId)
    BY DEF Ask
  <2>2. [conn |-> k, n |-> asked[k] + 1, command |-> command, user |-> {}, id |-> NoId] \in TaskType
    BY <1>1 DEF TaskType
  <2> QED BY <2>1, <2>2 DEF Enqueue
<1>3. UNCHANGED <<open, posted, writing, io, inGame, got, silent, joins, updates>>
  BY DEF Ask
<1>4. t \notin tasks
  BY <1>1, <1>2, LineRead DEF Ask
<1>5. t.command # "stopGame" /\ t.command # "addPlayerToGame"
  BY <1>2 DEF OpenCommands
<1>6. /\ IsFiniteSet(tasks')
      /\ \A j \in Conns : j # k => TasksOf(j)' = TasksOf(j)
      /\ TasksOf(k)' = TasksOf(k) \cup {t}
      /\ Waiting(TasksOf(k)') = Waiting(TasksOf(k)) + 1
  BY <1>2, <1>4, <1>5, TasksMore DEF NetInv
<1>7. NetTypes' /\ IsFiniteSet(tasks)'
  BY <1>1, <1>2, <1>3, <1>6 DEF NetInv, NetTypes
<1>8. ASSUME NEW j \in Conns, j # k PROVE ConnInv(j)'
  <2>1. Same(j)
    BY <1>1, <1>3, <1>6, <1>8 DEF Same
  <2> QED BY <2>1, Frame DEF NetInv
<1>9. ConnInv(k)'
  <2>1. Numbers(k)'
    <3>1. \A s \in TasksOf(k)' : s.n <= asked'[k]
      BY <1>1, <1>2, <1>6, LineRead DEF Ask, TasksOf
    <3> QED BY <1>1, <1>3, <3>1 DEF Numbers
  <2>2. Joined(k)'
    BY <1>1, <1>3, <1>5, <1>6, Parts, SMTT(30) DEF ConnInv, Joined
  <2>3. Forgotten(k)'
    BY <1>3, Parts DEF ConnInv, Forgotten
  <2>4. Accounts(k)'
    <3>1. Sum(k)' = Sum(k)
      <4>1. /\ reads'[k] = reads[k] - 1 /\ Posted(k)' = Posted(k)
            /\ Handling(k)' = Handling(k) /\ Written(k)' = Written(k)
            /\ Working(k)' = Working(k) + 1 /\ silent'[k] = silent[k]
        BY <1>1, <1>3, <1>6 DEF Handling, Posted, Written, Working
      <4> QED BY <4>1, Terms DEF Sum
    <3> QED BY <1>3, <3>1, Terms DEF Accounts
  <2>5. InOrder(k)'
    <3> SUFFICES ASSUME joins[k] = 0, open[k] PROVE InOrder(k)'
      BY <1>3 DEF InOrder
    <3>1. /\ Answered(k)' + 1 = asked'[k] + reads'[k]
          /\ \A i \in DOMAIN got'[k] : got'[k][i] = i
          /\ DOMAIN posted[k] = {} /\ DOMAIN writing[k] = {}
          /\ \A s \in TasksOf(k) : s.command = "stopGame"
      BY <1>3, LineInOrder DEF Ask
    <3> QED BY <1>1, <1>2, <1>3, <1>6, <3>1 DEF InOrder
  <2> QED BY <2>1, <2>2, <2>3, <2>4, <2>5 DEF ConnInv
<1> QED BY <1>7, <1>8, <1>9 DEF NetInv

\* The session is there and the handler goes on, or the request is answered at once.
LEMMA AskAsUserKeeps ==
    ASSUME NetInv, SessionTypes, NEW k \in Conns, AskAsUser(k)
    PROVE  NetInv'
<1>1. /\ asked[k] + 1 \in 1..MaxRequests /\ asked[k] \in Nat /\ reads[k] \in Nat
      /\ asked' \in [Conns -> 0..MaxRequests] /\ reads' \in [Conns -> Nat]
      /\ asked'[k] = asked[k] + 1 /\ reads'[k] = reads[k] - 1 /\ reads[k] > 0
      /\ \A j \in Conns : j # k => asked'[j] = asked[j] /\ reads'[j] = reads[j]
      /\ io = Idle /\ io.conn # k /\ InHand(io, k) = 0
  BY LineRead DEF AskAsUser, ReadLine
<1>2. PICK command \in UserCommands, id \in SessionIds :
          IF sessionExists(id)
          THEN /\ io' = [conn |-> k, n |-> asked[k] + 1, command |-> command, id |-> id]
               /\ UNCHANGED posted
          ELSE Say(k, asked[k] + 1) /\ UNCHANGED io
  BY DEF AskAsUser
<1>3. UNCHANGED <<open, writing, tasks, inGame, got, silent, joins, updates>>
  BY DEF AskAsUser
<1>4. CASE ~sessionExists(id)
  \* As in AnswerHere.
  <2>1. AnswerHere(k)
    BY <1>2, <1>3, <1>4 DEF AskAsUser, AnswerHere, work
  <2> QED BY <2>1, AnswerHereKeeps
<1>5. CASE sessionExists(id)
  <2>1. PICK handler : /\ handler = [conn |-> k, n |-> asked[k] + 1, command |-> command, id |-> id]
                       /\ io' = handler
    BY <1>2, <1>5
  <2>2. /\ handler \in Handled /\ handler.conn = k /\ handler.n = asked[k] + 1
        /\ posted' = posted
    BY <1>1, <1>2, <1>5, <2>1 DEF Handled
  <2>3. \A j \in Conns : TasksOf(j)' = TasksOf(j)
    BY <1>3 DEF TasksOf
  <2>4. NetTypes' /\ IsFiniteSet(tasks)'
    BY <1>1, <1>3, <2>1, <2>2 DEF NetInv, NetTypes
  <2>5. ASSUME NEW j \in Conns, j # k PROVE ConnInv(j)'
    <3>1. io.conn # j
      BY <1>1, IoIs DEF NetInv
    <3>2. Same(j)
      BY <1>1, <1>3, <2>1, <2>2, <2>3, <2>5, <3>1 DEF Same
    <3> QED BY <3>2, Frame DEF NetInv
  <2>6. ConnInv(k)'
    <3>1. Numbers(k)'
      <4>1. \A t \in TasksOf(k)' : t.n <= asked[k] /\ t.n \in Nat
        BY <2>3, LineRead DEF AskAsUser, TasksOf
      <4> QED BY <1>1, <1>3, <2>1, <2>2, <2>3, <4>1, Parts DEF Numbers
    <3>2. Joined(k)'
      BY <1>1, <1>3, <2>3, Parts DEF ConnInv, Joined
    <3>3. Forgotten(k)'
      BY <1>3, Parts DEF ConnInv, Forgotten
    <3>4. Accounts(k)'
      <4>1. InHand(io', k) = 1
        BY <2>1, <2>2 DEF InHand
      <4>2. Sum(k)' = Sum(k)
        <5>1. /\ reads'[k] = reads[k] - 1 /\ Posted(k)' = Posted(k)
              /\ Handling(k)' = Handling(k) + 1 /\ Written(k)' = Written(k)
              /\ Working(k)' = Working(k) /\ silent'[k] = silent[k]
          BY <1>1, <1>3, <2>2, <2>3, <4>1 DEF Handling, Posted, Written, Working
        <5> QED BY <5>1, Terms DEF Sum
      <4> QED BY <1>3, <4>2, Terms DEF Accounts
    <3>5. InOrder(k)'
      <4> SUFFICES ASSUME joins[k] = 0, open[k] PROVE InOrder(k)'
        BY <1>3 DEF InOrder
      <4>1. /\ Answered(k)' + 1 = asked'[k] + reads'[k]
            /\ \A i \in DOMAIN got'[k] : got'[k][i] = i
            /\ DOMAIN posted[k] = {} /\ DOMAIN writing[k] = {}
            /\ \A t \in TasksOf(k) : t.command = "stopGame"
        BY <1>3, LineInOrder DEF AskAsUser
      <4> QED BY <1>1, <1>3, <2>1, <2>2, <2>3, <4>1 DEF InOrder
    <3> QED BY <3>1, <3>2, <3>3, <3>4, <3>5 DEF ConnInv
  <2> QED BY <2>4, <2>5, <2>6 DEF NetInv
<1> QED BY <1>4, <1>5

-----------------------------------------------------------------------------
(* Steps of a handler that stands at a session, and of tasks *)

\* Logout, SessionGone and Confirm, as far as the connection sees them.
LEMMA HandlerAnswers ==
    ASSUME NetInv, io.command # "none", io' = Idle, Say(io.conn, io.n),
           UNCHANGED <<open, reads, writing, tasks, inGame, history>>
    PROVE  NetInv'
<1>1. PICK k : k = io.conn
  OBVIOUS
<1>2. io \in Handled /\ k \in Conns /\ io.n \in 0..MaxRequests
  BY <1>1, IoIs DEF NetInv, Handled
<1>3. /\ posted' \in [Conns -> Seq(0..MaxRequests)]
      /\ \A j \in Conns : j # k => posted'[j] = posted[j]
      /\ Len(posted'[k]) = Len(posted[k]) + 1
      /\ joins[k] = 0 => \A i \in DOMAIN posted'[k] :
            posted'[k][i] = io.n \/ (i \in DOMAIN posted[k] /\ posted'[k][i] = posted[k][i])
  BY <1>1, <1>2, Said DEF NetInv
<1>4. NetTypes' /\ IsFiniteSet(tasks)'
  BY <1>3 DEF NetInv, NetTypes, history
<1>5. \A j \in Conns : TasksOf(j)' = TasksOf(j) /\ io'.conn # j
  BY IoIs DEF TasksOf, NetInv
<1>6. Idle.command \notin UserCommands
  BY IoIs DEF NetInv
<1>7. ASSUME NEW j \in Conns, j # k PROVE ConnInv(j)'
  <2>1. Same(j)
    BY <1>1, <1>3, <1>5, <1>7 DEF Same, history
  <2> QED BY <2>1, Frame DEF NetInv
<1>8. ConnInv(k)'
  <2>1. Numbers(k)'
    BY <1>2, <1>5, Parts DEF ConnInv, Numbers, history
  <2>2. Joined(k)'
    BY <1>2, <1>5, Parts DEF ConnInv, Joined, history
  <2>3. Forgotten(k)'
    BY <1>2, Parts DEF ConnInv, Forgotten, history
  <2>4. Accounts(k)'
    <3>1. Sum(k)' = Sum(k)
      <4>1. Handling(k) = 1 /\ Handling(k)' = 0
        BY <1>1, <1>2, <1>5 DEF Handling, InHand
      <4>2. /\ reads'[k] = reads[k] /\ Posted(k)' = Posted(k) + 1 /\ Written(k)' = Written(k)
            /\ Working(k)' = Working(k) /\ silent'[k] = silent[k]
        BY <1>2, <1>3, <1>5 DEF Posted, Written, Working, history
      <4> QED BY <1>2, <4>1, <4>2, Terms DEF Sum
    <3> QED BY <1>2, <3>1, Terms DEF Accounts, history
  <2>5. InOrder(k)'
    <3> SUFFICES ASSUME joins[k] = 0, open[k] PROVE InOrder(k)'
      BY DEF InOrder, history
    <3>1. InOrder(k) /\ Answered(k)' = Answered(k)
      BY <1>2, Parts DEF ConnInv, Answered, history
    <3>2. io.n = asked[k] /\ \A i \in DOMAIN posted[k] : posted[k][i] = asked[k]
      BY <1>1, <3>1 DEF InOrder
    <3>3. \A i \in DOMAIN posted'[k] : posted'[k][i] = asked[k]
      BY <1>3, <3>2
    <3> QED BY <1>2, <1>5, <3>1, <3>3 DEF InOrder, history
  <2> QED BY <2>1, <2>2, <2>3, <2>4, <2>5 DEF ConnInv
<1> QED BY <1>4, <1>7, <1>8 DEF NetInv

\* A handler that has found its session queues a new task.
LEMMA RunAsUserKeeps ==
    ASSUME NetInv, SessionTypes, RunAsUser
    PROVE  NetInv'
<1>1. PICK k : k = io.conn
  OBVIOUS
<1>2. /\ io \in Handled /\ k \in Conns /\ io.n \in 1..MaxRequests
      /\ io.command \in UserCommands \ {"logout"}
      /\ Handling(k) = 1
  BY <1>1, IoIs DEF NetInv, Handled, RunAsUser, UserCommands, Queries, Handling, InHand
<1>3. getUserIdFromSession(io.id) \subseteq Users
  BY DEF getUserIdFromSession, sessionExists, SessionTypes
<1>4. PICK t : /\ t.conn = k /\ t.n = io.n /\ t.command = io.command
               /\ t \in TaskType /\ tasks' = tasks \cup {t}
  <2>1. PICK user : user = getUserIdFromSession(io.id)
    OBVIOUS
  <2>2. PICK t : t = [conn |-> k, n |-> io.n, command |-> io.command, user |-> user, id |-> io.id]
    OBVIOUS
  <2>3. tasks' = tasks \cup {t}
    BY <1>1, <2>1, <2>2 DEF RunAsUser, Enqueue
  <2>4. t \in TaskType
    BY <1>2, <1>3, <2>1, <2>2 DEF TaskType, Handled
  <2> QED BY <2>2, <2>3, <2>4
<1>5. Numbers(k) /\ Joined(k) /\ Forgotten(k) /\ Accounts(k) /\ InOrder(k)
  BY <1>2 DEF NetInv, ConnInv
<1>6. t \notin tasks /\ \A s \in TasksOf(k) : s.n < io.n
  <2>1. \A s \in TasksOf(k) : s.n < io.n
    BY <1>1, <1>2, <1>5 DEF Numbers
  <2> QED BY <1>2, <1>4, <2>1 DEF TasksOf
<1>7. /\ IsFiniteSet(tasks')
      /\ \A j \in Conns : j # k => TasksOf(j)' = TasksOf(j)
      /\ TasksOf(k)' = TasksOf(k) \cup {t}
      /\ Working(k)' = Working(k) + (IF io.command = "stopGame" THEN 0 ELSE 1)
  BY <1>2, <1>4, <1>6, TasksMore DEF NetInv, Working
<1>8. UNCHANGED <<open, reads, posted, writing, inGame, asked, got, silent, updates>>
  BY DEF RunAsUser, net
<1>9. /\ joins' = IF io.command = "addPlayerToGame"
                  THEN [joins EXCEPT ![k] = joins[k] + 1] ELSE joins
      /\ joins[k] \in Nat /\ joins[k] < MaxRequests
      /\ joins[k] < asked[k]
  BY <1>1, <1>2, <1>5, Parts, SMTT(30) DEF RunAsUser, Joined
<1>10. /\ joins' \in [Conns -> 0..MaxRequests]
       /\ \A j \in Conns : j # k => joins'[j] = joins[j]
       /\ joins'[k] = joins[k] + (IF io.command = "addPlayerToGame" THEN 1 ELSE 0)
  BY <1>2, <1>9 DEF NetInv, NetTypes
<1>11. PICK next : next = io' /\ next = IF io.command \in Queries THEN Idle
                                        ELSE [io EXCEPT !.command = "confirm"]
  BY DEF RunAsUser
<1>12. /\ next \in Handled \cup {Idle} /\ next.command \notin UserCommands
       /\ io.command \in Queries => \A j \in Conns : next.conn # j
       /\ io.command \notin Queries => next.conn = k /\ next.n = io.n
       /\ next.conn = k => next.n = io.n
  BY <1>1, <1>2, <1>11, IoIs DEF Handled, UserCommands, Queries, NetInv
<1>13. NetTypes' /\ IsFiniteSet(tasks)'
  BY <1>4, <1>7, <1>8, <1>10, <1>11, <1>12 DEF NetInv, NetTypes
<1>14. ASSUME NEW j \in Conns, j # k PROVE ConnInv(j)'
  <2>1. io.conn # j /\ io'.conn # j
    BY <1>1, <1>11, <1>12, <1>14
  <2>2. Same(j)
    BY <1>7, <1>8, <1>10, <1>14, <2>1 DEF Same
  <2> QED BY <2>2, Frame DEF NetInv
<1>15. ConnInv(k)'
  <2>1. Numbers(k)'
    <3>1. io.n <= asked[k]
      BY <1>1, <1>5 DEF Numbers
    <3>2. ASSUME NEW s \in TasksOf(k)' PROVE s.n <= asked[k]
      BY <1>4, <1>5, <1>7, <3>1, <3>2 DEF Numbers
    <3>3. io'.conn = k => io'.n = io.n /\ io'.command \notin UserCommands
      BY <1>11, <1>12
    <3> QED BY <1>8, <3>1, <3>2, <3>3 DEF Numbers
  <2>2. Joined(k)'
    <3>1. ASSUME NEW s \in TasksOf(k)', s.command = "addPlayerToGame" PROVE joins'[k] > 0
      <4>1. CASE s \in TasksOf(k)
        BY <1>5, <1>9, <1>10, <3>1, <4>1 DEF Joined
      <4>2. CASE s = t
        BY <1>4, <1>9, <1>10, <3>1, <4>2
      <4> QED BY <1>7, <4>1, <4>2
    <3>2. joins'[k] <= asked[k]
      BY <1>2, <1>9, <1>10, Parts
    <3>3. joins[k] > 0 => joins'[k] > 0
      BY <1>9, <1>10
    <3> QED BY <1>5, <1>8, <1>11, <1>12, <3>1, <3>2, <3>3 DEF Joined
  <2>3. Forgotten(k)'
    BY <1>5, <1>8 DEF Forgotten
  <2>4. Accounts(k)'
    <3>1. Handling(k)' = IF io.command \in Queries THEN 0 ELSE 1
      BY <1>2, <1>11, <1>12 DEF Handling, InHand
    <3>2. /\ reads'[k] = reads[k] /\ Posted(k)' = Posted(k) /\ Written(k)' = Written(k)
          /\ silent'[k] = silent[k] /\ updates'[k] = updates[k] /\ open'[k] = open[k]
      BY <1>8 DEF Posted, Written
    <3>3. Sum(k)' = Sum(k) + (IF io.command = "addPlayerToGame" THEN 1 ELSE 0)
      <4>1. io.command \in Queries \cup {"stopGame", "addPlayerToGame"}
        BY <1>2 DEF UserCommands, Queries
      <4>2. "stopGame" \notin Queries /\ "addPlayerToGame" \notin Queries
        BY DEF Queries
      <4>3. CASE io.command \in Queries
        <5>1. Working(k)' = Working(k) + 1 /\ Handling(k)' = 0
          BY <1>7, <3>1, <4>3, <4>2
        <5>2. Sum(k)' = Sum(k)
          BY <1>2, <3>2, <5>1, Terms DEF Sum
        <5> QED BY <1>2, <4>3, <4>2, <5>2, Terms
      <4>4. CASE io.command = "stopGame"
        BY <1>2, <1>7, <3>1, <3>2, <4>4, <4>2, Terms DEF Sum
      <4>5. CASE io.command = "addPlayerToGame"
        BY <1>2, <1>7, <3>1, <3>2, <4>5, <4>2, Terms DEF Sum
      <4> QED BY <4>1, <4>3, <4>4, <4>5
    <3> QED BY <1>2, <1>10, <3>2, <3>3, Terms DEF Accounts
  <2>5. InOrder(k)'
    <3> SUFFICES ASSUME joins'[k] = 0, open[k] PROVE InOrder(k)'
      BY <1>8 DEF InOrder
    <3>1. joins[k] = 0 /\ Answered(k)' = Answered(k)
      BY <1>8, <1>9, <1>10 DEF Answered
    <3>2. io.n = asked[k]
      BY <1>1, <1>5, <3>1 DEF InOrder
    <3>3. /\ Answered(k) + 1 = asked[k] + reads[k]
          /\ \A i \in DOMAIN got[k] : got[k][i] = i
          /\ \A i \in DOMAIN posted[k] : posted[k][i] = asked[k]
          /\ \A i \in DOMAIN writing[k] : writing[k][i] = asked[k]
          /\ \A s \in TasksOf(k) : s.command # "stopGame" => s.n = asked[k]
      BY <1>5, <3>1 DEF InOrder
    <3>4. \A s \in TasksOf(k)' : s.command # "stopGame" => s.n = asked[k]
      BY <1>4, <1>7, <3>2, <3>3
    <3>5. io'.conn = k => io'.n = asked[k]
      BY <1>11, <1>12, <3>2
    <3> QED BY <1>8, <3>1, <3>3, <3>4, <3>5 DEF InOrder
  <2> QED BY <2>1, <2>2, <2>3, <2>4, <2>5 DEF ConnInv
<1> QED BY <1>13, <1>14, <1>15 DEF NetInv

\* A task calls its connection back.
LEMMA TaskAnswers ==
    ASSUME NetInv, NEW t \in tasks, t.command # "stopGame",
           tasks' = tasks \ {t}, Say(t.conn, t.n),
           inGame' = inGame \/ (/\ t.command = "addPlayerToGame"
                                /\ inGame' = [inGame EXCEPT ![t.conn] = TRUE]),
           UNCHANGED <<open, reads, writing, io, history>>
    PROVE  NetInv'
<1>1. PICK k : k = t.conn
  OBVIOUS
<1>2. /\ IsFiniteSet(tasks') /\ tasks' \subseteq tasks
      /\ \A j \in Conns : TasksOf(j)' \subseteq TasksOf(j)
      /\ \A j \in Conns : j # k => TasksOf(j)' = TasksOf(j)
      /\ k \in Conns /\ t.n \in 0..MaxRequests /\ t \in TasksOf(k)
      /\ Working(k) = Working(k)' + 1 /\ Working(k)' \in Nat
  <2>1. /\ IsFiniteSet(tasks') /\ tasks' \subseteq tasks
        /\ \A j \in Conns : TasksOf(j)' \subseteq TasksOf(j)
        /\ \A j \in Conns : j # k => TasksOf(j)' = TasksOf(j)
        /\ k \in Conns /\ t.n \in 1..MaxRequests /\ t \in TasksOf(k)
        /\ Waiting(TasksOf(k)) = Waiting(TasksOf(k)') + 1
    BY <1>1, TasksLess DEF NetInv
  <2>2. TasksOf(k)' \subseteq TasksOf(k) /\ IsFiniteSet(TasksOf(k))
    BY <2>1, TasksOfFinite DEF NetInv
  <2>3. Waiting(TasksOf(k)') \in Nat
    BY <2>2, FS_Subset, WaitingIsNumber
  <2> QED BY <2>1, <2>3 DEF Working
<1>3. /\ posted' \in [Conns -> Seq(0..MaxRequests)]
      /\ \A j \in Conns : j # k => posted'[j] = posted[j]
      /\ Len(posted'[k]) = Len(posted[k]) + 1
      /\ joins[k] = 0 => \A i \in DOMAIN posted'[k] :
            posted'[k][i] = t.n \/ (i \in DOMAIN posted[k] /\ posted'[k][i] = posted[k][i])
  BY <1>1, <1>2, Said DEF NetInv
<1>4. Numbers(k) /\ Joined(k) /\ Forgotten(k) /\ Accounts(k) /\ InOrder(k)
  BY <1>2 DEF NetInv, ConnInv
<1>5. /\ inGame' \in [Conns -> BOOLEAN] /\ \A j \in Conns : j # k => inGame'[j] = inGame[j]
      /\ inGame'[k] => joins[k] > 0
  <2>1. inGame[k] => joins[k] > 0
    BY <1>4 DEF Joined
  <2>2. t.command = "addPlayerToGame" => joins[k] > 0
    BY <1>2, <1>4 DEF Joined
  <2>3. inGame \in [Conns -> BOOLEAN]
    BY DEF NetInv, NetTypes
  <2> QED BY <1>1, <1>2, <2>1, <2>2, <2>3
<1>6. NetTypes' /\ IsFiniteSet(tasks)'
  BY <1>2, <1>3, <1>5 DEF NetInv, NetTypes, history
<1>7. ASSUME NEW j \in Conns, j # k PROVE ConnInv(j)'
  <2>1. Same(j)
    BY <1>2, <1>3, <1>5, <1>7 DEF Same, history
  <2> QED BY <2>1, Frame DEF NetInv
<1>8. ConnInv(k)'
  <2>1. Numbers(k)'
    BY <1>2, <1>4 DEF Numbers, history
  <2>2. Joined(k)'
    BY <1>2, <1>4, <1>5 DEF Joined, history
  <2>3. Forgotten(k)'
    BY <1>4 DEF Forgotten, history
  <2>4. Accounts(k)'
    <3>1. Sum(k)' = Sum(k)
      <4>1. /\ reads'[k] = reads[k] /\ Posted(k)' = Posted(k) + 1 /\ Written(k)' = Written(k)
            /\ Handling(k)' = Handling(k) /\ silent'[k] = silent[k]
        BY <1>3 DEF Posted, Written, Handling, history
      <4> QED BY <1>2, <4>1, Terms DEF Sum
    <3> QED BY <1>4, <3>1 DEF Accounts, history
  <2>5. InOrder(k)'
    <3> SUFFICES ASSUME joins[k] = 0, open[k] PROVE InOrder(k)'
      BY DEF InOrder, history
    <3>1. Answered(k)' = Answered(k)
      BY DEF Answered, history
    <3>2. t.n = asked[k] /\ \A i \in DOMAIN posted[k] : posted[k][i] = asked[k]
      BY <1>2, <1>4 DEF InOrder
    <3>3. \A i \in DOMAIN posted'[k] : posted'[k][i] = asked[k]
      BY <1>3, <3>2
    <3> QED BY <1>2, <1>4, <3>1, <3>3 DEF InOrder, history
  <2> QED BY <2>1, <2>2, <2>3, <2>4, <2>5 DEF ConnInv
<1> QED BY <1>6, <1>7, <1>8 DEF NetInv

LEMMA NobodyIsCalledKeeps ==
    ASSUME NetInv, NEW t \in tasks, NobodyIsCalled(t)
    PROVE  NetInv'
<1>1. PICK k : k = t.conn
  OBVIOUS
<1>2. UNCHANGED <<open, reads, posted, writing, io, inGame, asked, got, joins, updates>>
  BY DEF NobodyIsCalled, net
<1>3. /\ IsFiniteSet(tasks') /\ tasks' \subseteq tasks
      /\ \A j \in Conns : TasksOf(j)' \subseteq TasksOf(j)
      /\ \A j \in Conns : j # k => TasksOf(j)' = TasksOf(j)
      /\ k \in Conns /\ t \in TasksOf(k)
      /\ Working(k) = Working(k)' + (IF t.command = "stopGame" THEN 0 ELSE 1)
      /\ Working(k)' \in Nat
  <2>1. /\ IsFiniteSet(tasks') /\ tasks' \subseteq tasks
        /\ \A j \in Conns : TasksOf(j)' \subseteq TasksOf(j)
        /\ \A j \in Conns : j # k => TasksOf(j)' = TasksOf(j)
        /\ k \in Conns /\ t \in TasksOf(k)
        /\ Waiting(TasksOf(k)) = Waiting(TasksOf(k)') + (IF t.command = "stopGame" THEN 0 ELSE 1)
    BY <1>1, TasksLess DEF NetInv, NobodyIsCalled
  <2>2. TasksOf(k)' \subseteq TasksOf(k) /\ IsFiniteSet(TasksOf(k))
    BY <2>1, TasksOfFinite DEF NetInv
  <2>3. Waiting(TasksOf(k)') \in Nat
    BY <2>2, FS_Subset, WaitingIsNumber
  <2> QED BY <2>1, <2>3 DEF Working
<1>4. Numbers(k) /\ Joined(k) /\ Forgotten(k) /\ Accounts(k) /\ InOrder(k)
  BY <1>3 DEF NetInv, ConnInv
<1>5. /\ silent' \in [Conns -> Nat] /\ \A j \in Conns : j # k => silent'[j] = silent[j]
      /\ silent'[k] = silent[k] + (IF t.command # "stopGame" /\ open[k] THEN 1 ELSE 0)
  <2>1. silent \in [Conns -> Nat]
    BY DEF NetInv, NetTypes
  <2>2. silent' = IF t.command # "stopGame" /\ open[k]
                  THEN [silent EXCEPT ![k] = silent[k] + 1] ELSE silent
    BY <1>1 DEF NobodyIsCalled
  <2> QED BY <1>3, <2>1, <2>2
<1>6. NetTypes' /\ IsFiniteSet(tasks)'
  BY <1>2, <1>3, <1>5 DEF NetInv, NetTypes
<1>7. ASSUME NEW j \in Conns, j # k PROVE ConnInv(j)'
  <2>1. Same(j)
    BY <1>2, <1>3, <1>5, <1>7 DEF Same
  <2> QED BY <2>1, Frame DEF NetInv
<1>8. ConnInv(k)'
  <2>1. Numbers(k)'
    BY <1>2, <1>3, <1>4 DEF Numbers
  <2>2. Joined(k)'
    BY <1>2, <1>3, <1>4 DEF Joined
  <2>3. Forgotten(k)'
    <3>1. ~open[k] => silent'[k] = silent[k]
      BY <1>3, <1>5, Terms
    <3> QED BY <1>2, <1>4, <3>1 DEF Forgotten
  <2>4. Accounts(k)'
    <3>1. /\ reads'[k] = reads[k] /\ Posted(k)' = Posted(k) /\ Written(k)' = Written(k)
          /\ Handling(k)' = Handling(k)
      BY <1>2 DEF Posted, Written, Handling
    <3>2. /\ open[k] => Sum(k)' = Sum(k)
          /\ Sum(k)' <= Sum(k) /\ Sum(k)' \in Nat
      <4>1. CASE t.command = "stopGame"
        <5>1. Working(k)' = Working(k) /\ silent'[k] = silent[k]
          BY <1>3, <1>5, <4>1, Terms
        <5>2. Sum(k)' = Sum(k)
          BY <3>1, <5>1 DEF Sum
        <5> QED BY <1>3, <5>2, Terms
      <4>2. CASE t.command # "stopGame" /\ open[k]
        <5>1. Working(k) = Working(k)' + 1 /\ silent'[k] = silent[k] + 1
          BY <1>3, <1>5, <4>2
        <5>2. PICK rest \in Nat : rest = reads[k] + Handling(k) + Posted(k) + Written(k)
          BY <1>3, Terms
        <5>3. Sum(k) = rest + Working(k) + silent[k] /\ Sum(k)' = rest + Working(k)' + silent'[k]
          BY <3>1, <5>2 DEF Sum
        <5>4. Sum(k)' = Sum(k)
          BY <1>3, <5>1, <5>2, <5>3, Terms
        <5> QED BY <1>3, <5>4, Terms
      <4>3. CASE t.command # "stopGame" /\ ~open[k]
        <5>1. Working(k) = Working(k)' + 1 /\ silent'[k] = silent[k]
          BY <1>3, <1>5, <4>3, Terms
        <5>2. PICK rest \in Nat : rest = reads[k] + Handling(k) + Posted(k) + Written(k)
          BY <1>3, Terms
        <5>3. Sum(k) = rest + Working(k) + silent[k] /\ Sum(k)' = rest + Working(k)' + silent[k]
          BY <3>1, <5>1, <5>2 DEF Sum
        <5>4. Sum(k) = Sum(k)' + 1 /\ Sum(k)' \in Nat
          BY <1>3, <5>1, <5>2, <5>3, Terms
        <5> QED BY <1>3, <4>3, <5>4, Terms
      <4> QED BY <1>3, <4>1, <4>2, <4>3, Parts
    <3> QED BY <1>2, <1>3, <1>4, <3>2, Terms DEF Accounts
  <2>5. InOrder(k)'
    <3>1. Answered(k)' = Answered(k)
      BY <1>2 DEF Answered
    <3> QED BY <1>2, <1>3, <1>4, <3>1 DEF InOrder
  <2> QED BY <2>1, <2>2, <2>3, <2>4, <2>5 DEF ConnInv
<1> QED BY <1>6, <1>7, <1>8 DEF NetInv

-----------------------------------------------------------------------------
(* Steps of the clients, of the games and of the socket *)

\* Nothing is left of the connection that opens anew.
LEMMA AcceptKeeps ==
    ASSUME NetInv, NEW k \in Conns, Accept(k)
    PROVE  NetInv'
<1>1. /\ ~open[k] /\ reads[k] = 0 /\ posted[k] = <<>> /\ writing[k] = <<>> /\ TasksOf(k) = {}
      /\ open' = [open EXCEPT ![k] = TRUE] /\ reads' = [reads EXCEPT ![k] = 1]
      /\ inGame' = [inGame EXCEPT ![k] = FALSE] /\ joins' = [joins EXCEPT ![k] = 0]
      /\ asked' = [asked EXCEPT ![k] = 0]
      /\ UNCHANGED <<posted, writing, io, tasks, got, silent, updates>>
  BY DEF Accept
<1>2. NetTypes' /\ IsFiniteSet(tasks)'
  BY <1>1 DEF NetInv, NetTypes
<1>3. \A j \in Conns : TasksOf(j)' = TasksOf(j)
  BY <1>1 DEF TasksOf
<1>4. ASSUME NEW j \in Conns, j # k PROVE ConnInv(j)'
  <2>1. Same(j)
    BY <1>1, <1>3, <1>4 DEF Same, NetInv, NetTypes
  <2> QED BY <2>1, Frame DEF NetInv
<1>5. /\ open'[k] /\ reads'[k] = 1 /\ ~inGame'[k] /\ joins'[k] = 0 /\ TasksOf(k)' = {}
      /\ posted'[k] = <<>> /\ writing'[k] = <<>>
      /\ asked'[k] = 0 /\ got'[k] = <<>> /\ silent'[k] = 0 /\ updates'[k] = 0
  <2>1. Forgotten(k)
    BY DEF NetInv, ConnInv
  <2> QED BY <1>1, <1>3, <2>1 DEF NetInv, NetTypes, Forgotten
<1>6. \A j \in Conns : io'.conn # j /\ InHand(io', j) = 0
  BY <1>1, IoIs DEF NetInv, Accept
<1>7. ConnInv(k)'
  <2>1. Numbers(k)'
    BY <1>5, <1>6 DEF Numbers
  <2>2. Joined(k)'
    BY <1>5, <1>6 DEF Joined
  <2>3. Forgotten(k)'
    BY <1>5 DEF Forgotten
  <2>4. Accounts(k)'
    <3>1. /\ Posted(k)' = 0 /\ Written(k)' = 0 /\ Handling(k)' = 0
      BY <1>5, <1>6 DEF Posted, Written, Handling
    <3>2. Working(k)' = 0
      <4>1. Calling({}) = {}
        BY DEF Calling
      <4> QED BY <1>5, <4>1, FS_EmptySet DEF Working, Waiting
    <3>3. Sum(k)' = 1
      BY <1>5, <3>1, <3>2 DEF Sum
    <3> QED BY <1>5, <3>3 DEF Accounts
  <2>5. InOrder(k)'
    <3>1. Answered(k)' = 0
      BY <1>5 DEF Answered
    <3> QED BY <1>5, <1>6, <3>1 DEF InOrder
  <2> QED BY <2>1, <2>2, <2>3, <2>4, <2>5 DEF ConnInv
<1> QED BY <1>2, <1>4, <1>7 DEF NetInv

LEMMA CloseKeeps ==
    ASSUME NetInv, NEW k \in Conns, Close(k)
    PROVE  NetInv'
<1>1. /\ open[k] /\ open' = [open EXCEPT ![k] = FALSE]
      /\ got' = [got EXCEPT ![k] = <<>>]
      /\ silent' = [silent EXCEPT ![k] = 0] /\ updates' = [updates EXCEPT ![k] = 0]
      /\ UNCHANGED <<reads, posted, writing, io, tasks, inGame, asked, joins>>
  BY DEF Close, work
<1>2. /\ ~open'[k] /\ got'[k] = <<>> /\ silent'[k] = 0 /\ updates'[k] = 0
      /\ \A j \in Conns : j # k =>
            /\ open'[j] = open[j] /\ got'[j] = got[j]
            /\ silent'[j] = silent[j] /\ updates'[j] = updates[j]
  BY <1>1 DEF NetInv, NetTypes
<1>3. NetTypes' /\ IsFiniteSet(tasks)'
  BY <1>1 DEF NetInv, NetTypes
<1>4. \A j \in Conns : TasksOf(j)' = TasksOf(j)
  BY <1>1 DEF TasksOf
<1>5. ASSUME NEW j \in Conns, j # k PROVE ConnInv(j)'
  <2>1. Same(j)
    BY <1>1, <1>2, <1>4, <1>5 DEF Same
  <2> QED BY <2>1, Frame DEF NetInv
<1>6. ConnInv(k)'
  <2>1. Numbers(k) /\ Joined(k) /\ Accounts(k)
    BY DEF NetInv, ConnInv
  <2>2. Numbers(k)'
    BY <1>1, <1>2, <1>4, <2>1 DEF Numbers
  <2>3. Joined(k)'
    BY <1>1, <1>2, <1>4, <2>1, Parts DEF Joined
  <2>4. Forgotten(k)'
    BY <1>2 DEF Forgotten
  <2>5. Accounts(k)'
    <3>1. /\ reads'[k] = reads[k] /\ Posted(k)' = Posted(k) /\ Written(k)' = Written(k)
          /\ Handling(k)' = Handling(k) /\ Working(k)' = Working(k)
      BY <1>1, <1>4 DEF Posted, Written, Handling, Working
    <3>2. Sum(k)' <= Sum(k)
      BY <1>2, <3>1, Terms DEF Sum
    <3>3. Sum(k)' \in Nat
      BY <1>2, <3>1, Terms DEF Sum
    <3> QED BY <1>1, <1>2, <2>1, <3>2, <3>3, Terms DEF Accounts
  <2>6. InOrder(k)'
    BY <1>2 DEF InOrder
  <2> QED BY <2>2, <2>3, <2>4, <2>5, <2>6 DEF ConnInv
<1> QED BY <1>3, <1>5, <1>6 DEF NetInv

\* Updates go to those who have joined.
LEMMA UpdateKeeps ==
    ASSUME NetInv, NEW k \in Conns, Update(k)
    PROVE  NetInv'
<1>1. /\ inGame[k] /\ open[k] /\ updates[k] < MaxUpdates
      /\ updates' = [updates EXCEPT ![k] = updates[k] + 1]
      /\ UNCHANGED <<open, reads, writing, io, tasks, inGame, asked, got, silent, joins>>
  BY DEF Update, work
<1>2. /\ posted' \in [Conns -> Seq(0..MaxRequests)]
      /\ \A j \in Conns : j # k => posted'[j] = posted[j]
      /\ Len(posted'[k]) = Len(posted[k]) + 1
  BY Said DEF Update, NetInv
<1>3. /\ updates' \in [Conns -> 0..MaxUpdates] /\ updates'[k] = updates[k] + 1
      /\ \A j \in Conns : j # k => updates'[j] = updates[j]
  BY <1>1 DEF NetInv, NetTypes
<1>4. NetTypes' /\ IsFiniteSet(tasks)'
  BY <1>1, <1>2, <1>3 DEF NetInv, NetTypes
<1>5. \A j \in Conns : TasksOf(j)' = TasksOf(j)
  BY <1>1 DEF TasksOf
<1>6. ASSUME NEW j \in Conns, j # k PROVE ConnInv(j)'
  <2>1. Same(j)
    BY <1>1, <1>2, <1>3, <1>5, <1>6 DEF Same
  <2> QED BY <2>1, Frame DEF NetInv
<1>7. ConnInv(k)'
  <2>1. Numbers(k) /\ Joined(k) /\ Accounts(k)
    BY DEF NetInv, ConnInv
  <2>2. joins[k] > 0
    BY <1>1, <2>1 DEF Joined
  <2>3. Numbers(k)'
    BY <1>1, <1>5, <2>1 DEF Numbers
  <2>4. Joined(k)'
    BY <1>1, <1>5, <2>1, <2>2 DEF Joined
  <2>5. Forgotten(k)'
    BY <1>1 DEF Forgotten
  <2>6. Accounts(k)'
    <3>1. /\ reads'[k] = reads[k] /\ Posted(k)' = Posted(k) + 1 /\ Written(k)' = Written(k)
          /\ Handling(k)' = Handling(k) /\ Working(k)' = Working(k) /\ silent'[k] = silent[k]
      BY <1>1, <1>2, <1>5 DEF Posted, Written, Handling, Working
    <3>2. Sum(k)' = Sum(k) + 1
      BY <3>1, Terms DEF Sum
    <3> QED BY <1>1, <1>3, <2>1, <2>2, <3>2, Terms DEF Accounts
  <2>7. InOrder(k)'
    BY <1>1, <2>2, Terms DEF InOrder
  <2> QED BY <2>3, <2>4, <2>5, <2>6, <2>7 DEF ConnInv
<1> QED BY <1>4, <1>6, <1>7 DEF NetInv

-----------------------------------------------------------------------------
(* Session::doWrite, and what fails on a closed socket *)

LEMMA StartWriteKeeps ==
    ASSUME NetInv, NEW k \in Conns, StartWrite(k)
    PROVE  NetInv'
<1>1. /\ posted[k] # <<>>
      /\ posted' = [posted EXCEPT ![k] = Tail(posted[k])]
      /\ writing' = [writing EXCEPT ![k] = Append(writing[k], Head(posted[k]))]
      /\ UNCHANGED <<open, reads, io, tasks, inGame, asked, got, silent, joins, updates>>
  BY DEF StartWrite, work, history
<1>2. posted[k] \in Seq(0..MaxRequests) /\ writing[k] \in Seq(0..MaxRequests)
  BY DEF NetInv, NetTypes
<1>3. /\ Head(posted[k]) \in 0..MaxRequests /\ Head(posted[k]) = posted[k][1]
      /\ 1 \in DOMAIN posted[k]
      /\ Tail(posted[k]) \in Seq(0..MaxRequests) /\ Len(Tail(posted[k])) = Len(posted[k]) - 1
      /\ \A i \in DOMAIN Tail(posted[k]) :
            i + 1 \in DOMAIN posted[k] /\ Tail(posted[k])[i] = posted[k][i + 1]
  <2>1. Len(posted[k]) \in Nat /\ Len(posted[k]) >= 1 /\ DOMAIN posted[k] = 1..Len(posted[k])
    BY <1>1, <1>2, LenProperties, EmptySeq
  <2>2. /\ Head(posted[k]) \in 0..MaxRequests /\ Head(posted[k]) = posted[k][1]
        /\ Tail(posted[k]) \in Seq(0..MaxRequests) /\ Len(Tail(posted[k])) = Len(posted[k]) - 1
        /\ \A i \in 1..Len(Tail(posted[k])) : Tail(posted[k])[i] = posted[k][i + 1]
    <3>1. Head(posted[k]) = posted[k][1]
      BY <1>1, <1>2
    <3> QED BY <1>1, <1>2, <3>1, HeadTailProperties
  <2>3. DOMAIN Tail(posted[k]) = 1..(Len(posted[k]) - 1)
    BY <2>2, LenProperties
  <2>4. ASSUME NEW i \in 1..(Len(posted[k]) - 1)
        PROVE  i + 1 \in DOMAIN posted[k] /\ Tail(posted[k])[i] = posted[k][i + 1]
    BY <2>1, <2>2
  <2> QED BY <2>1, <2>2, <2>3, <2>4
<1>4. /\ Append(writing[k], Head(posted[k])) \in Seq(0..MaxRequests)
      /\ Len(Append(writing[k], Head(posted[k]))) = Len(writing[k]) + 1
      /\ \A i \in DOMAIN Append(writing[k], Head(posted[k])) :
            \/ i \in DOMAIN writing[k] /\ Append(writing[k], Head(posted[k]))[i] = writing[k][i]
            \/ Append(writing[k], Head(posted[k]))[i] = posted[k][1]
  <2>1. PICK h \in 0..MaxRequests : h = Head(posted[k]) /\ h = posted[k][1]
    BY <1>3
  <2>2. /\ Append(writing[k], h) \in Seq(0..MaxRequests)
        /\ Len(Append(writing[k], h)) = Len(writing[k]) + 1
        /\ \A i \in 1..Len(writing[k]) : Append(writing[k], h)[i] = writing[k][i]
        /\ Append(writing[k], h)[Len(writing[k]) + 1] = h
    BY <1>2, AppendProperties
  <2>3. /\ DOMAIN Append(writing[k], h) = 1..(Len(writing[k]) + 1)
        /\ DOMAIN writing[k] = 1..Len(writing[k]) /\ Len(writing[k]) \in Nat
    BY <1>2, <2>2, LenProperties
  <2>4. \A i \in 1..(Len(writing[k]) + 1) : i \in 1..Len(writing[k]) \/ i = Len(writing[k]) + 1
    BY <2>3
  <2> QED BY <2>1, <2>2, <2>3, <2>4
<1>5. /\ posted' \in [Conns -> Seq(0..MaxRequests)] /\ posted'[k] = Tail(posted[k])
      /\ writing' \in [Conns -> Seq(0..MaxRequests)]
      /\ writing'[k] = Append(writing[k], Head(posted[k]))
      /\ \A j \in Conns : j # k => posted'[j] = posted[j] /\ writing'[j] = writing[j]
  BY <1>1, <1>3, <1>4 DEF NetInv, NetTypes
<1>6. NetTypes' /\ IsFiniteSet(tasks)'
  BY <1>1, <1>5 DEF NetInv, NetTypes
<1>7. \A j \in Conns : TasksOf(j)' = TasksOf(j)
  BY <1>1 DEF TasksOf
<1>8. ASSUME NEW j \in Conns, j # k PROVE ConnInv(j)'
  <2>1. Same(j)
    BY <1>1, <1>5, <1>7, <1>8 DEF Same
  <2> QED BY <2>1, Frame DEF NetInv
<1>9. ConnInv(k)'
  <2>1. Numbers(k) /\ Joined(k) /\ Forgotten(k) /\ Accounts(k) /\ InOrder(k)
    BY DEF NetInv, ConnInv
  <2>2. Numbers(k)'
    BY <1>1, <1>7, <2>1 DEF Numbers
  <2>3. Joined(k)'
    BY <1>1, <1>7, <2>1 DEF Joined
  <2>4. Forgotten(k)'
    BY <1>1, <2>1 DEF Forgotten
  <2>5. Accounts(k)'
    <3>1. /\ reads'[k] = reads[k] /\ Posted(k)' = Posted(k) - 1 /\ Written(k)' = Written(k) + 1
          /\ Handling(k)' = Handling(k) /\ Working(k)' = Working(k) /\ silent'[k] = silent[k]
      BY <1>1, <1>3, <1>4, <1>5, <1>7 DEF Posted, Written, Handling, Working
    <3>2. Sum(k)' = Sum(k)
      BY <3>1, Terms DEF Sum
    <3> QED BY <1>1, <2>1, <3>2 DEF Accounts
  <2>6. InOrder(k)'
    <3> SUFFICES ASSUME joins[k] = 0, open[k] PROVE InOrder(k)'
      BY <1>1 DEF InOrder
    <3>1. Answered(k)' = Answered(k)
      BY <1>1 DEF Answered
    <3>2. /\ \A i \in DOMAIN posted[k] : posted[k][i] = asked[k]
          /\ \A i \in DOMAIN writing[k] : writing[k][i] = asked[k]
      BY <2>1 DEF InOrder
    <3>3. /\ \A i \in DOMAIN posted'[k] : posted'[k][i] = asked[k]
          /\ \A i \in DOMAIN writing'[k] : writing'[k][i] = asked[k]
      <4>1. PICK longer : longer = Append(writing[k], Head(posted[k]))
        OBVIOUS
      <4>2. \A i \in DOMAIN longer :
               (i \in DOMAIN writing[k] /\ longer[i] = writing[k][i]) \/ longer[i] = posted[k][1]
        BY <1>4, <4>1
      <4>3. \A i \in DOMAIN longer : longer[i] = asked[k]
        <5>1. 1 \in DOMAIN posted[k]
          BY <1>3
        <5> QED BY <4>2, <3>2, <5>1
      <4>4. \A i \in DOMAIN posted'[k] : posted'[k][i] = asked[k]
        BY <1>3, <1>5, <3>2
      <4> QED BY <4>1, <4>3, <4>4, <1>5
    <3> QED BY <1>1, <1>7, <2>1, <3>1, <3>3 DEF InOrder
  <2> QED BY <2>2, <2>3, <2>4, <2>5, <2>6 DEF ConnInv
<1> QED BY <1>6, <1>8, <1>9 DEF NetInv

\* The line that is written is the one that is due.
LEMMA WriteDoneKeeps ==
    ASSUME NetInv, NEW k \in Conns, WriteDone(k)
    PROVE  NetInv'
<1>1. PICK i \in DOMAIN writing[k] :
          /\ writing' = [writing EXCEPT ![k] = Without(writing[k], i)]
          /\ got' = [got EXCEPT ![k] =
                        IF joins[k] > 0 \/ ~open[k] THEN got[k] ELSE Append(got[k], writing[k][i])]
  BY DEF WriteDone
<1>2. /\ reads' = [reads EXCEPT ![k] = reads[k] + 1]
      /\ UNCHANGED <<open, posted, io, tasks, inGame, asked, silent, joins, updates>>
  BY DEF WriteDone, work
<1>3. /\ Without(writing[k], i) \in Seq(0..MaxRequests)
      /\ Len(Without(writing[k], i)) = Len(writing[k]) - 1
      /\ \A j \in DOMAIN Without(writing[k], i) :
            \E m \in DOMAIN writing[k] : Without(writing[k], i)[j] = writing[k][m]
  <2>1. writing[k] \in Seq(0..MaxRequests)
    BY DEF NetInv, NetTypes
  <2> QED BY <2>1, WithoutOne
<1>4. Numbers(k) /\ Joined(k) /\ Forgotten(k) /\ Accounts(k) /\ InOrder(k)
  BY DEF NetInv, ConnInv
<1>5. /\ reads' \in [Conns -> Nat] /\ reads'[k] = reads[k] + 1
      /\ writing' \in [Conns -> Seq(0..MaxRequests)] /\ writing'[k] = Without(writing[k], i)
      /\ \A j \in Conns : j # k =>
            reads'[j] = reads[j] /\ writing'[j] = writing[j] /\ got'[j] = got[j]
      /\ got'[k] = IF joins[k] > 0 \/ ~open[k] THEN got[k] ELSE Append(got[k], writing[k][i])
  <2>1. PICK others : others = Without(writing[k], i)
    OBVIOUS
  <2>2. PICK told : told = IF joins[k] > 0 \/ ~open[k] THEN got[k] ELSE Append(got[k], writing[k][i])
    OBVIOUS
  <2>3. /\ others \in Seq(0..MaxRequests)
        /\ writing' = [writing EXCEPT ![k] = others] /\ got' = [got EXCEPT ![k] = told]
    BY <1>1, <1>3, <2>1, <2>2
  <2>4. DOMAIN got = Conns /\ writing \in [Conns -> Seq(0..MaxRequests)] /\ reads \in [Conns -> Nat]
    BY DEF NetInv, NetTypes
  <2> QED BY <1>2, <2>1, <2>2, <2>3, <2>4
\* While it has joined no game, the connection waits for nothing but this write.
<1>6. ASSUME joins[k] = 0, open[k]
      PROVE  /\ reads[k] = 0 /\ writing[k][i] = asked[k] /\ Answered(k) + 1 = asked[k]
             /\ asked[k] \in 1..MaxRequests
             /\ Append(got[k], asked[k]) \in Seq(1..MaxRequests)
             /\ Len(Append(got[k], asked[k])) = asked[k]
             /\ \A m \in DOMAIN Append(got[k], asked[k]) : Append(got[k], asked[k])[m] = m
  <2>1. Sum(k) <= 1 /\ Written(k) >= 1
    <3>1. Len(writing[k]) \in Nat /\ i \in 1..Len(writing[k])
      BY Parts
    <3> QED BY <1>4, <1>6, <3>1 DEF Accounts, Written
  <2>2. reads[k] = 0
    <3>1. PICK rest \in Nat : rest = reads[k] + Handling(k) + Posted(k)
      BY Terms
    <3>2. Sum(k) = rest + Written(k) + Working(k) + silent[k]
      BY <3>1 DEF Sum
    <3>3. rest = 0
      BY <2>1, <3>1, <3>2, Terms
    <3> QED BY <3>1, <3>3, Terms
  <2>3. /\ writing[k][i] = asked[k] /\ Answered(k) + 1 = asked[k] + reads[k]
        /\ \A m \in DOMAIN got[k] : got[k][m] = m
    BY <1>2, <1>4, <1>6 DEF InOrder
  <2>4. Answered(k) \in Nat /\ asked[k] \in 0..MaxRequests /\ got[k] \in Seq(1..MaxRequests)
    BY Terms, Parts
  <2>5. Answered(k) + 1 = asked[k] /\ asked[k] \in 1..MaxRequests
    BY <2>2, <2>3, <2>4
  <2>6. /\ Append(got[k], asked[k]) \in Seq(1..MaxRequests)
        /\ Len(Append(got[k], asked[k])) = Answered(k) + 1
        /\ \A m \in 1..Answered(k) : Append(got[k], asked[k])[m] = got[k][m]
        /\ Append(got[k], asked[k])[Answered(k) + 1] = asked[k]
    BY <2>4, <2>5, AppendProperties DEF Answered
  <2>7. DOMAIN got[k] = 1..Answered(k) /\ DOMAIN Append(got[k], asked[k]) = 1..(Answered(k) + 1)
    BY <2>4, <2>6, LenProperties DEF Answered
  <2>8. \A m \in 1..(Answered(k) + 1) : m \in 1..Answered(k) \/ m = Answered(k) + 1
    BY <2>4
  <2> QED BY <2>2, <2>3, <2>5, <2>6, <2>7, <2>8
<1>7. got' \in [Conns -> Seq(1..MaxRequests)]
  <2>1. CASE joins[k] = 0 /\ open[k]
    BY <1>1, <1>6, <2>1 DEF NetInv, NetTypes
  <2>2. CASE joins[k] > 0 \/ ~open[k]
    BY <1>1, <2>2 DEF NetInv, NetTypes
  <2> QED BY <2>1, <2>2, Terms
<1>8. NetTypes' /\ IsFiniteSet(tasks)'
  BY <1>2, <1>5, <1>7 DEF NetInv, NetTypes
<1>9. \A j \in Conns : TasksOf(j)' = TasksOf(j)
  BY <1>2 DEF TasksOf
<1>10. ASSUME NEW j \in Conns, j # k PROVE ConnInv(j)'
  <2>1. Same(j)
    BY <1>2, <1>5, <1>9, <1>10 DEF Same
  <2> QED BY <2>1, Frame DEF NetInv
<1>11. ConnInv(k)'
  <2>1. Numbers(k)'
    BY <1>2, <1>4, <1>9 DEF Numbers
  <2>2. Joined(k)'
    BY <1>2, <1>4, <1>9 DEF Joined
  <2>3. Forgotten(k)'
    BY <1>2, <1>4, <1>5 DEF Forgotten
  <2>4. Accounts(k)'
    <3>1. /\ reads'[k] = reads[k] + 1 /\ Posted(k)' = Posted(k) /\ Written(k)' = Written(k) - 1
          /\ Handling(k)' = Handling(k) /\ Working(k)' = Working(k) /\ silent'[k] = silent[k]
      BY <1>2, <1>3, <1>5, <1>9 DEF Posted, Written, Handling, Working
    <3>2. Sum(k)' = Sum(k)
      BY <3>1, Terms DEF Sum
    <3> QED BY <1>2, <1>4, <3>2 DEF Accounts
  <2>5. InOrder(k)'
    <3> SUFFICES ASSUME joins[k] = 0, open[k] PROVE InOrder(k)'
      BY <1>2 DEF InOrder
    <3>1. got'[k] = Append(got[k], asked[k])
      BY <1>5, <1>6
    <3>2. Answered(k)' + 1 = asked'[k] + reads'[k]
      <4>1. Answered(k)' = asked[k]
        BY <1>6, <3>1 DEF Answered
      <4> QED BY <1>2, <1>5, <1>6, <4>1, Terms
    <3>3. \A m \in DOMAIN got'[k] : got'[k][m] = m
      BY <1>6, <3>1
    <3>4. \A m \in DOMAIN writing[k] : writing[k][m] = asked[k]
      BY <1>2, <1>4 DEF InOrder
    <3>5. \A j \in DOMAIN writing'[k] : writing'[k][j] = asked[k]
      BY <1>3, <1>5, <3>4
    <3> QED BY <1>2, <1>4, <1>9, <3>2, <3>3, <3>5 DEF InOrder
  <2> QED BY <2>1, <2>2, <2>3, <2>4, <2>5 DEF ConnInv
<1> QED BY <1>8, <1>10, <1>11 DEF NetInv

LEMMA ReadFailsKeeps ==
    ASSUME NetInv, NEW k \in Conns, ReadFails(k)
    PROVE  NetInv'
<1>1. /\ ~open[k] /\ reads[k] > 0 /\ reads' = [reads EXCEPT ![k] = reads[k] - 1]
      /\ UNCHANGED <<open, posted, writing, io, tasks, inGame, asked, got, silent, joins, updates>>
  BY DEF ReadFails, work, history
<1>2. /\ reads' \in [Conns -> Nat] /\ reads'[k] = reads[k] - 1
      /\ \A j \in Conns : j # k => reads'[j] = reads[j]
  BY <1>1 DEF NetInv, NetTypes
<1>3. NetTypes' /\ IsFiniteSet(tasks)'
  BY <1>1, <1>2 DEF NetInv, NetTypes
<1>4. \A j \in Conns : TasksOf(j)' = TasksOf(j)
  BY <1>1 DEF TasksOf
<1>5. ASSUME NEW j \in Conns, j # k PROVE ConnInv(j)'
  <2>1. Same(j)
    BY <1>1, <1>2, <1>4, <1>5 DEF Same
  <2> QED BY <2>1, Frame DEF NetInv
<1>6. ConnInv(k)'
  <2>1. Numbers(k) /\ Joined(k) /\ Forgotten(k) /\ Accounts(k)
    BY DEF NetInv, ConnInv
  <2>2. Numbers(k)' /\ Joined(k)' /\ Forgotten(k)' /\ InOrder(k)'
    BY <1>1, <1>4, <2>1 DEF Numbers, Joined, Forgotten, InOrder
  <2>3. Accounts(k)'
    <3>1. /\ Posted(k)' = Posted(k) /\ Written(k)' = Written(k)
          /\ Handling(k)' = Handling(k) /\ Working(k)' = Working(k) /\ silent'[k] = silent[k]
      BY <1>1, <1>4 DEF Posted, Written, Handling, Working
    <3>2. Sum(k)' = Sum(k) - 1
      BY <1>2, <3>1, Terms DEF Sum
    <3> QED BY <1>1, <2>1, <3>2, Terms DEF Accounts
  <2> QED BY <2>2, <2>3 DEF ConnInv
<1> QED BY <1>3, <1>5, <1>6 DEF NetInv

LEMMA WriteFailsKeeps ==
    ASSUME NetInv, NEW k \in Conns, WriteFails(k)
    PROVE  NetInv'
<1>1. /\ ~open[k] /\ writing[k] # <<>> /\ writing' = [writing EXCEPT ![k] = Tail(writing[k])]
      /\ UNCHANGED <<open, reads, posted, io, tasks, inGame, asked, got, silent, joins, updates>>
  BY DEF WriteFails, work, history
<1>2. writing[k] \in Seq(0..MaxRequests)
  BY DEF NetInv, NetTypes
<1>3. Tail(writing[k]) \in Seq(0..MaxRequests) /\ Len(Tail(writing[k])) = Len(writing[k]) - 1
  BY <1>1, <1>2, HeadTailProperties
<1>4. /\ writing' \in [Conns -> Seq(0..MaxRequests)] /\ writing'[k] = Tail(writing[k])
      /\ \A j \in Conns : j # k => writing'[j] = writing[j]
  BY <1>1, <1>3 DEF NetInv, NetTypes
<1>5. NetTypes' /\ IsFiniteSet(tasks)'
  BY <1>1, <1>4 DEF NetInv, NetTypes
<1>6. \A j \in Conns : TasksOf(j)' = TasksOf(j)
  BY <1>1 DEF TasksOf
<1>7. ASSUME NEW j \in Conns, j # k PROVE ConnInv(j)'
  <2>1. Same(j)
    BY <1>1, <1>4, <1>6, <1>7 DEF Same
  <2> QED BY <2>1, Frame DEF NetInv
<1>8. ConnInv(k)'
  <2>1. Numbers(k) /\ Joined(k) /\ Forgotten(k) /\ Accounts(k)
    BY DEF NetInv, ConnInv
  <2>2. Numbers(k)' /\ Joined(k)' /\ Forgotten(k)' /\ InOrder(k)'
    BY <1>1, <1>6, <2>1 DEF Numbers, Joined, Forgotten, InOrder
  <2>3. Accounts(k)'
    <3>1. /\ reads'[k] = reads[k] /\ Posted(k)' = Posted(k) /\ Written(k)' = Written(k) - 1
          /\ Handling(k)' = Handling(k) /\ Working(k)' = Working(k) /\ silent'[k] = silent[k]
      BY <1>1, <1>3, <1>4, <1>6 DEF Posted, Written, Handling, Working
    <3>2. Sum(k)' = Sum(k) - 1
      BY <3>1, Terms DEF Sum
    <3> QED BY <1>1, <2>1, <3>2, Terms DEF Accounts
  <2> QED BY <2>2, <2>3 DEF ConnInv
<1> QED BY <1>5, <1>7, <1>8 DEF NetInv

\* A step of sessions and time alone.
LEMMA NetUnchanged ==
    ASSUME NetInv, UNCHANGED <<net, work, history>>
    PROVE  NetInv'
<1>1. UNCHANGED <<open, reads, posted, writing, io, tasks, inGame, asked, got, silent, joins, updates>>
  BY DEF net, work, history
<1>2. NetTypes' /\ IsFiniteSet(tasks)'
  BY <1>1 DEF NetInv, NetTypes
<1>3. ASSUME NEW j \in Conns PROVE ConnInv(j)'
  <2>1. Same(j)
    BY <1>1 DEF Same, TasksOf
  <2> QED BY <2>1, Frame DEF NetInv
<1> QED BY <1>2, <1>3 DEF NetInv

-----------------------------------------------------------------------------
(* Sessions *)

LEMMA CreateKeeps ==
    ASSUME SessionTypes, loggedOut \subseteq DOMAIN issued, NEW user \in Users, createSession(user)
    PROVE  /\ SessionTypes' /\ loggedOut' \subseteq DOMAIN issued'
           /\ DOMAIN issued \subseteq DOMAIN issued'
<1>1. PICK new \in SessionIds \ DOMAIN issued :
          /\ sessions' = [id \in cleanupExpiredSessions \cup {new} |->
                            IF id = new THEN [userId |-> user, createdAt |-> now] ELSE sessions[id]]
          /\ issued' = [id \in DOMAIN issued \cup {new} |->
                            IF id = new THEN [userId |-> user, createdAt |-> now] ELSE issued[id]]
          /\ UNCHANGED <<now, loggedOut>>
  BY DEF createSession
<1>2. /\ DOMAIN sessions' = cleanupExpiredSessions \cup {new}
      /\ DOMAIN issued' = DOMAIN issued \cup {new}
      /\ cleanupExpiredSessions \subseteq DOMAIN sessions
  BY <1>1 DEF cleanupExpiredSessions
<1>3. DOMAIN sessions' \subseteq DOMAIN issued' \ loggedOut'
  BY <1>1, <1>2 DEF SessionTypes
<1>4. \A id \in DOMAIN sessions' : sessions'[id] = issued'[id]
  <2>1. ASSUME NEW id \in DOMAIN sessions', id # new PROVE sessions'[id] = issued'[id]
    <3>1. id \in cleanupExpiredSessions /\ id \in DOMAIN sessions /\ id \in DOMAIN issued
      BY <1>2, <2>1 DEF SessionTypes
    <3>2. sessions'[id] = sessions[id] /\ issued'[id] = issued[id]
      BY <1>1, <2>1, <3>1
    <3> QED BY <3>1, <3>2 DEF SessionTypes
  <2>2. new \in DOMAIN sessions' => sessions'[new] = issued'[new]
    BY <1>1
  <2> QED BY <2>1, <2>2
<1>5. DOMAIN issued' \subseteq SessionIds /\ now' \in 0..MaxClock
  BY <1>1, <1>2 DEF SessionTypes
<1>6. \A id \in DOMAIN issued' : issued'[id].userId \in Users /\ issued'[id].createdAt \in 0..now'
  <2>1. ASSUME NEW id \in DOMAIN issued
        PROVE  issued'[id].userId \in Users /\ issued'[id].createdAt \in 0..now'
    <3>1. issued'[id] = issued[id]
      BY <1>1, <2>1
    <3> QED BY <1>1, <2>1, <3>1 DEF SessionTypes
  <2>2. issued'[new].userId \in Users /\ issued'[new].createdAt \in 0..now'
    BY <1>1, <1>5
  <2> QED BY <1>2, <2>1, <2>2
<1> QED BY <1>1, <1>2, <1>3, <1>4, <1>5, <1>6 DEF SessionTypes

LEMMA RemoveKeeps ==
    ASSUME SessionTypes, loggedOut \subseteq DOMAIN issued, NEW gone \in DOMAIN issued,
           removeSession(gone)
    PROVE  SessionTypes' /\ loggedOut' \subseteq DOMAIN issued'
<1>1. /\ DOMAIN sessions' = DOMAIN sessions \ {gone}
      /\ \A i \in DOMAIN sessions \ {gone} : sessions'[i] = sessions[i]
      /\ loggedOut' = loggedOut \cup {gone} /\ now' = now /\ issued' = issued
  BY DEF removeSession
<1> QED BY <1>1 DEF SessionTypes

-----------------------------------------------------------------------------
(* The inductive invariant *)

LEMMA InitInv == Init => IInv
<1> SUFFICES ASSUME Init PROVE IInv
  OBVIOUS
<1>1. /\ sessions = <<>> /\ now = 0 /\ issued = <<>> /\ loggedOut = {}
      /\ open = [k \in Conns |-> FALSE] /\ reads = [k \in Conns |-> 0]
      /\ posted = [k \in Conns |-> <<>>] /\ writing = [k \in Conns |-> <<>>]
      /\ io = Idle /\ tasks = {} /\ inGame = [k \in Conns |-> FALSE]
      /\ asked = [k \in Conns |-> 0] /\ got = [k \in Conns |-> <<>>]
      /\ silent = [k \in Conns |-> 0] /\ joins = [k \in Conns |-> 0]
      /\ updates = [k \in Conns |-> 0]
  BY DEF Init, InitSessions
<1>2. DOMAIN sessions = {} /\ DOMAIN issued = {}
  BY <1>1
<1>3. SessionTypes
  BY <1>1, <1>2 DEF SessionTypes
<1>4. NetTypes /\ IsFiniteSet(tasks)
  BY <1>1, FS_EmptySet DEF NetTypes
<1>5. Issued
  BY <1>1, <1>4, IoIs DEF Issued
<1>6. ASSUME NEW k \in Conns PROVE ConnInv(k)
  <2>1. /\ ~open[k] /\ reads[k] = 0 /\ posted[k] = <<>> /\ writing[k] = <<>> /\ ~inGame[k]
        /\ asked[k] = 0 /\ got[k] = <<>> /\ silent[k] = 0 /\ joins[k] = 0 /\ updates[k] = 0
        /\ TasksOf(k) = {} /\ io.conn # k /\ InHand(io, k) = 0
    BY <1>1, <1>4, IoIs DEF TasksOf
  <2>2. /\ Posted(k) = 0 /\ Written(k) = 0 /\ Handling(k) = 0
    BY <2>1 DEF Posted, Written, Handling
  <2>3. Working(k) = 0
    <3>1. Calling({}) = {}
      BY DEF Calling
    <3> QED BY <2>1, <3>1, FS_EmptySet DEF Working, Waiting
  <2>4. Sum(k) = 0
    BY <2>1, <2>2, <2>3 DEF Sum
  <2>5. Accounts(k)
    BY <2>1, <2>4 DEF Accounts
  <2>6. Numbers(k) /\ Joined(k) /\ Forgotten(k) /\ InOrder(k)
    BY <2>1 DEF Numbers, Joined, Forgotten, InOrder
  <2> QED BY <2>5, <2>6 DEF ConnInv
<1> QED BY <1>3, <1>4, <1>5, <1>6 DEF IInv, NetInv

\* A step of the connections that leaves the sessions alone, and no handler at a
\* session that was never issued.
LEMMA SessionsUnchanged ==
    ASSUME SessionTypes, Issued, UNCHANGED sessionVars,
           io' = io \/ io'.command \notin UserCommands
    PROVE  SessionTypes' /\ Issued'
BY DEF SessionTypes, Issued, sessionVars

LEMMA IoGoesOnKeeps ==
    ASSUME IInv, IoGoesOn
    PROVE  IInv'
<1> USE DEF IInv
<1>1. Idle.command \notin UserCommands /\ "confirm" \notin UserCommands
  BY IoIs DEF NetInv, UserCommands, Queries
<1>2. CASE Logout
  <2>1. NetInv'
    BY <1>2, HandlerAnswers DEF Logout
  <2>2. io.id \in DOMAIN issued /\ removeSession(io.id) /\ io' = Idle
    BY <1>2 DEF Logout, Issued, UserCommands, Queries
  <2>3. SessionTypes' /\ loggedOut' \subseteq DOMAIN issued'
    BY <2>2, RemoveKeeps DEF Issued
  <2> QED BY <1>1, <2>1, <2>2, <2>3 DEF Issued
<1>3. CASE SessionGone
  <2>1. io.command # "none"
    BY <1>3 DEF SessionGone, UserCommands, Queries
  <2>2. NetInv'
    BY <1>3, <2>1, HandlerAnswers DEF SessionGone
  <2> QED BY <1>1, <1>3, <2>2, SessionsUnchanged DEF SessionGone
<1>4. CASE RunAsUser
  <2>1. io'.command \notin UserCommands
    <3>1. io \in Handled
      BY <1>4, IoIs DEF RunAsUser, NetInv, UserCommands, Queries
    <3> QED BY <1>1, <1>4, <3>1 DEF RunAsUser, Handled
  <2> QED BY <1>4, <2>1, RunAsUserKeeps, SessionsUnchanged DEF RunAsUser
<1>5. CASE Confirm
  <2>1. NetInv'
    BY <1>5, HandlerAnswers DEF Confirm
  <2> QED BY <1>1, <1>5, <2>1, SessionsUnchanged DEF Confirm
<1> QED BY <1>2, <1>3, <1>4, <1>5 DEF IoGoesOn

LEMMA ConnectionKeeps ==
    ASSUME IInv, NEW k \in Conns,
           \/ Accept(k) \/ Close(k) \/ Update(k) \/ IoWrites(k)
           \/ AnswerHere(k) \/ Ask(k) \/ AskAsUser(k)
    PROVE  IInv'
<1> USE DEF IInv
<1>1. CASE Accept(k)
  BY <1>1, AcceptKeeps, SessionsUnchanged DEF Accept
<1>2. CASE Close(k)
  BY <1>2, CloseKeeps, SessionsUnchanged DEF Close, work
<1>3. CASE Update(k)
  BY <1>3, UpdateKeeps, SessionsUnchanged DEF Update, work
<1>4. CASE StartWrite(k)
  BY <1>4, StartWriteKeeps, SessionsUnchanged DEF StartWrite, work
<1>5. CASE WriteDone(k)
  BY <1>5, WriteDoneKeeps, SessionsUnchanged DEF WriteDone, work
<1>6. CASE ReadFails(k)
  BY <1>6, ReadFailsKeeps, SessionsUnchanged DEF ReadFails, work
<1>7. CASE WriteFails(k)
  BY <1>7, WriteFailsKeeps, SessionsUnchanged DEF WriteFails, work
<1>8. CASE AnswerHere(k)
  BY <1>8, AnswerHereKeeps, SessionsUnchanged DEF AnswerHere, work
<1>9. CASE Ask(k)
  BY <1>9, AskKeeps, SessionsUnchanged DEF Ask
<1>10. CASE AskAsUser(k)
  <2>1. NetInv' /\ SessionTypes'
    BY <1>10, AskAsUserKeeps DEF AskAsUser, SessionTypes, sessionVars
  <2>2. Issued'
    <3>1. PICK command \in UserCommands, id \in SessionIds :
              IF sessionExists(id)
              THEN io' = [conn |-> k, n |-> asked[k] + 1, command |-> command, id |-> id]
              ELSE io' = io
      BY <1>10 DEF AskAsUser
    <3>2. sessionExists(id) => id \in DOMAIN issued
      BY DEF sessionExists, SessionTypes
    <3>3. UNCHANGED sessionVars
      BY <1>10 DEF AskAsUser
    <3>4. CASE sessionExists(id)
      BY <3>1, <3>2, <3>3, <3>4 DEF Issued, sessionVars
    <3>5. CASE ~sessionExists(id)
      BY <3>1, <3>3, <3>5 DEF Issued, sessionVars
    <3> QED BY <3>4, <3>5
  <2> QED BY <2>1, <2>2
<1> QED BY <1>1, <1>2, <1>3, <1>4, <1>5, <1>6, <1>7, <1>8, <1>9, <1>10 DEF IoWrites

LEMMA WorkKeeps ==
    ASSUME IInv, NEW t \in tasks, Work(t)
    PROVE  IInv'
<1> USE DEF IInv
<1>1. CASE QueryAnswers(t)
  <2>1. NetInv'
    BY <1>1, TaskAnswers DEF QueryAnswers, Queries
  <2> QED BY <1>1, <2>1, SessionsUnchanged DEF QueryAnswers
<1>2. CASE LoginAnswers(t)
  <2>1. NetInv'
    BY <1>2, TaskAnswers DEF LoginAnswers
  <2>2. PICK user \in Users : createSession(user)
    BY <1>2 DEF LoginAnswers
  <2>3. SessionTypes' /\ loggedOut' \subseteq DOMAIN issued' /\ DOMAIN issued \subseteq DOMAIN issued'
    BY <2>2, CreateKeeps DEF Issued
  <2> QED BY <1>2, <2>1, <2>3 DEF Issued, LoginAnswers
<1>3. CASE JoinAnswers(t)
  <2>1. NetInv'
    BY <1>3, TaskAnswers DEF JoinAnswers
  <2> QED BY <1>3, <2>1, SessionsUnchanged DEF JoinAnswers
<1>4. CASE NobodyIsCalled(t)
  BY <1>4, NobodyIsCalledKeeps, SessionsUnchanged DEF NobodyIsCalled
<1> QED BY <1>1, <1>2, <1>3, <1>4 DEF Work

LEMMA StepKeepsInv == IInv /\ [Next]_vars => IInv'
<1> SUFFICES ASSUME IInv, [Next]_vars PROVE IInv'
  OBVIOUS
<1>1. CASE IoGoesOn
  BY <1>1, IoGoesOnKeeps
<1>2. ASSUME NEW k \in Conns, \/ Accept(k) \/ Close(k) \/ Update(k) \/ IoWrites(k)
                              \/ AnswerHere(k) \/ Ask(k) \/ AskAsUser(k)
      PROVE  IInv'
  BY <1>2, ConnectionKeeps
<1>3. ASSUME NEW t \in tasks, Work(t) PROVE IInv'
  BY <1>3, WorkKeeps
<1>4. CASE Tick /\ UNCHANGED <<net, work, history>>
  <2>1. NetInv'
    BY <1>4, NetUnchanged DEF IInv
  <2>2. SessionTypes'
    BY <1>4 DEF IInv, SessionTypes, Tick
  <2>3. Issued'
    BY <1>4 DEF IInv, Issued, Tick, work
  <2> QED BY <2>1, <2>2, <2>3 DEF IInv
<1>5. CASE UNCHANGED vars
  <2>1. UNCHANGED sessionVars /\ UNCHANGED <<net, work, history>> /\ io' = io
    BY <1>5 DEF vars, work
  <2> QED BY <2>1, NetUnchanged, SessionsUnchanged DEF IInv
<1> QED BY <1>1, <1>2, <1>3, <1>4, <1>5 DEF Next

\* The accounts of every connection (IInv) hold throughout, for any number of
\* connections, users, tasks and requests: the invariant that Server, Session and
\* Router keep between two handlers.
THEOREM InductiveInvariant == Spec => []IInv
BY InitInv, StepKeepsInv, PTL DEF Spec

\* Every variable of Connection and SessionManager has its type, and every session
\* in the map is one that login issued and nobody has logged out.
THEOREM ConnectionTypes == Spec => []TypeOK
<1>1. IInv => TypeOK
  BY TypeHalves DEF IInv, NetInv
<1> QED BY <1>1, InductiveInvariant, PTL

\* Server, Session and Router: for each open connection there is one thing under
\* way, one more for each request to join and for each update; as long as it joins
\* no game, its requests are answered in their order and each at most once.
THEOREM OneAnswerEach == Spec => []OneThingAtATime
<1>1. IInv => OneThingAtATime
  <2> SUFFICES ASSUME IInv, NEW k \in Conns
               PROVE  /\ open[k] => UnderWay(k) = 1 + joins[k] + updates[k]
                      /\ joins[k] = 0 => /\ UnderWay(k) <= 1
                                         /\ \A i \in DOMAIN got[k] : got[k][i] = i
    BY DEF OneThingAtATime
  <2>1. Accounts(k) /\ Forgotten(k) /\ InOrder(k)
    BY DEF IInv, NetInv, ConnInv
  <2>2. UnderWay(k) = Sum(k)
    <3>1. Cardinality({i \in {io} : i.conn = k}) = Handling(k)
      BY InHandIs DEF Handling
    <3>2. Cardinality({t \in TasksOf(k) : t.command # "stopGame"}) = Working(k)
      BY DEF Working, Waiting, Calling
    <3>3. UnderWay(k) = reads[k] + Handling(k) + Posted(k) + Written(k) + Working(k) + silent[k]
      BY <3>1, <3>2 DEF UnderWay, Posted, Written
    <3> QED BY <3>3 DEF Sum
  <2>3. joins[k] = 0 => \A i \in DOMAIN got[k] : got[k][i] = i
    <3>1. CASE open[k]
      BY <2>1, <3>1 DEF InOrder
    <3>2. CASE ~open[k]
      <4>1. got[k] = <<>>
        BY <2>1, <3>2 DEF Forgotten
      <4> QED BY <4>1
    <3> QED BY <3>1, <3>2
  <2> QED BY <2>1, <2>2, <2>3 DEF Accounts
<1> QED BY <1>1, InductiveInvariant, PTL

\* isSessionExpired cuts the age to whole seconds: what it calls alive is younger
\* than its lifetime and one second.
LEMMA AliveIsYoung ==
    ASSUME NEW age \in Nat, age \div TicksPerSecond <= SESSION_TTL
    PROVE  age < (SESSION_TTL + 1) * TicksPerSecond
OBVIOUS

\* Router and SessionManager: the step that queues a request's task queues it for the
\* user to whom login issued the session, never after that session was logged out, and
\* never once it is a second past its lifetime, although its id is looked up twice with
\* time between.  What the session is when the task runs is not looked at any more.
THEOREM EveryTaskHasItsOwner == Spec => QueuedForItsOwner
<1> DEFINE OwnerOf(t) ==
        /\ t.id \in DOMAIN issued \ loggedOut
        /\ t.user = {issued[t.id].userId}
        /\ now - issued[t.id].createdAt < (SESSION_TTL + 1) * TicksPerSecond
<1>1. ASSUME IInv, [Next]_vars, NEW t \in tasks' \ tasks, t.id # NoId PROVE OwnerOf(t)
  <2>1. CASE RunAsUser
    <3>1. t = [conn |-> io.conn, n |-> io.n, command |-> io.command,
               user |-> getUserIdFromSession(io.id), id |-> io.id]
          /\ getUserIdFromSession(io.id) # {}
      BY <1>1, <2>1 DEF RunAsUser, Enqueue
    <3>2. PICK id : id = io.id
      OBVIOUS
    <3>3. sessionExists(id) /\ getUserIdFromSession(id) = {sessions[id].userId}
      <4>1. sessionExists(id)
        BY <3>1, <3>2 DEF getUserIdFromSession
      <4> QED BY <4>1 DEF getUserIdFromSession
    <3>4. /\ id \in DOMAIN sessions /\ id \in DOMAIN issued \ loggedOut
          /\ sessions[id] = issued[id]
      BY <1>1, <3>3 DEF sessionExists, IInv, SessionTypes
    <3>5. PICK age \in Nat : age = now - issued[id].createdAt
      BY <1>1, <3>4 DEF IInv, SessionTypes
    <3>6. age \div TicksPerSecond <= SESSION_TTL
      <4>1. ~((now - issued[id].createdAt) \div TicksPerSecond > SESSION_TTL)
        BY <3>3, <3>4 DEF sessionExists, isSessionExpired
      <4>2. age \div TicksPerSecond \in Int
        BY <3>5
      <4> QED BY <3>5, <4>1, <4>2
    <3>7. now - issued[id].createdAt < (SESSION_TTL + 1) * TicksPerSecond
      BY <3>5, <3>6, AliveIsYoung
    <3> QED BY <3>1, <3>2, <3>3, <3>4, <3>7
  <2>2. ASSUME NEW k \in Conns, Ask(k) PROVE FALSE
    BY <1>1, <2>2 DEF Ask, Enqueue
  <2>3. CASE tasks' \subseteq tasks
    BY <1>1, <2>3
  <2>4. ASSUME ~RunAsUser, \A k \in Conns : ~Ask(k) PROVE tasks' \subseteq tasks
    <3>1. CASE Logout \/ SessionGone \/ Confirm
      BY <3>1 DEF Logout, SessionGone, Confirm
    <3>2. ASSUME NEW k \in Conns,
                 Accept(k) \/ Close(k) \/ Update(k) \/ AnswerHere(k) \/ AskAsUser(k)
          PROVE  tasks' \subseteq tasks
      BY <3>2 DEF Accept, Close, Update, AnswerHere, AskAsUser, work
    <3>3. ASSUME NEW k \in Conns, IoWrites(k) PROVE tasks' \subseteq tasks
      BY <3>3 DEF IoWrites, StartWrite, WriteDone, ReadFails, WriteFails, work
    <3>4. ASSUME NEW s \in tasks, Work(s) PROVE tasks' \subseteq tasks
      BY <3>4 DEF Work, QueryAnswers, LoginAnswers, JoinAnswers, NobodyIsCalled
    <3>5. CASE UNCHANGED work
      BY <3>5 DEF work
    <3> QED BY <1>1, <2>4, <3>1, <3>2, <3>3, <3>4, <3>5 DEF Next, IoGoesOn, vars
  <2> QED BY <2>1, <2>2, <2>3, <2>4
<1>2. IInv /\ [Next]_vars =>
         [\A t \in tasks' \ tasks : t.id # NoId => OwnerOf(t)]_vars
  BY <1>1
<1> QED BY <1>2, InductiveInvariant, PTL DEF Spec, QueuedForItsOwner
=============================================================================
