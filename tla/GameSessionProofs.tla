-------------------------- MODULE GameSessionProofs --------------------------
(***************************************************************************)
(* Proofs about one game, for any number of users, workers and clients and *)
(* any dictionary.                                                         *)
(***************************************************************************)
EXTENDS GameSession, WordRulesProofs, FiniteSetTheorems, SequenceTheorems

USE ConstantsAssumption

LEMMA DictType ==
    ASSUME NEW word \in Words
    PROVE  word \in Text /\ Dict[word] \in Seq(Entry)
OBVIOUS

\* Before the look-up the task's word is set, and it stays so until it is judged.
LookedUp ==
    \A w \in Workers : pc[w] = "lookup" => by[w] \in Users /\ typed[w] \in Words

\* What a worker is judging, in the second critical section.
LEMMA Accepted ==
    ASSUME TypeOK, LookedUp, NEW w \in Workers, pc[w] = "lookup", Verdict(w) = "OK"
    PROVE  /\ Judged(w).status = "OK"
           /\ Judged(w).entry \in Entry /\ Judged(w).reading \in Text
           /\ Judged(w).next \in CodePoint /\ Judged(w).next # NN
           /\ toHiragana(getFirstKana(Judged(w).reading)) = ctx.lastKana
           /\ Judged(w).next = toHiragana(getLastKana(Judged(w).reading))
<1>1. typed[w] \in Text /\ Dict[typed[w]] \in Seq(Entry)
  BY DictType DEF LookedUp
<1>2. Judged(w).status = "OK"
  BY DEF Verdict, Refusal
<1> QED BY <1>1, <1>2, JudgedOK DEF Judged

\* A line is posted to some of the connections, or to none.
LEMMA PostType ==
    ASSUME TypeOK, NEW targets, NEW line \in Line, Post(targets, line)
    PROVE  inbox' \in [Clients -> Seq(Line)]
BY DEF TypeOK, Post

LEMMA PublishType ==
    ASSUME TypeOK, NEW us, NEW line \in Line, Publish(us, line)
    PROVE  inbox' \in [Clients -> Seq(Line)] /\ raced' \in BOOLEAN
<1> DEFINE inserting == {k \in Clients : join[k] = "subscribing"}
           intended  == Subscribed(us)
<1>1. CASE inserting = {}
  BY <1>1, PostType DEF Publish, TypeOK
<1>2. CASE inserting # {}
  <2>1. PICK reached \in SUBSET (intended \cup inserting) :
           Post(reached, line) /\ raced' = (raced \/ reached # intended)
    BY <1>2 DEF Publish
  <2> QED BY <2>1, PostType
<1> QED BY <1>1, <1>2

\* What saveStats stores is a row for each place.
LEMMA ResultsType ==
    ASSUME TypeOK, IsFiniteSet(players)
    PROVE  Results \subseteq Seq([user : Users, score : Nat])
<1>1. Cardinality(players) \in Nat
  BY FS_CardinalityType
<1> SUFFICES ASSUME NEW f \in Rankings
             PROVE  [i \in DOMAIN f |-> [user |-> f[i], score |-> score[f[i]]]]
                        \in Seq([user : Users, score : Nat])
  BY DEF Results
<1>2. f \in [1..Cardinality(players) -> Users]
  BY DEF Rankings, TypeOK
<1> DEFINE g == [i \in 1..Cardinality(players) |-> [user |-> f[i], score |-> score[f[i]]]]
<1>3. \A i \in 1..Cardinality(players) :
        [user |-> f[i], score |-> score[f[i]]] \in [user : Users, score : Nat]
  BY <1>2 DEF TypeOK
<1>4. g \in [1..Cardinality(players) -> [user : Users, score : Nat]]
  BY <1>3, Zenon
<1> HIDE DEF g
<1>5. g \in Seq([user : Users, score : Nat])
  <2>1. PICK n \in Nat : n = Cardinality(players)
    BY <1>1
  <2>2. g \in [1..n -> [user : Users, score : Nat]]
    BY <1>4, <2>1
  <2> QED BY <2>2, SeqDef, ZenonT(40)
<1>6. DOMAIN f = 1..Cardinality(players)
  BY <1>2
<1> QED BY <1>5, <1>6 DEF g

-----------------------------------------------------------------------------
(***************************************************************************)
(* Types.  TypeOK is inductive once it is known that a task past its first *)
(* critical section has its arguments and that a join task that is about   *)
(* to reply has its copy of the words.                                     *)
(***************************************************************************)
Context == [wordsCount : Nat, playersCount : Nat, lastPlayerId : Users \cup {NoUser},
            lastKana : CodePoint]

Informed == \A k \in Clients : join[k] = "replying" => joinInfo[k] \in Nat

TInv == TypeOK /\ LookedUp /\ Informed

LEMMA PlayersFinite == ASSUME NEW S \in SUBSET Users PROVE IsFiniteSet(S) /\ Cardinality(S) \in Nat
BY FiniteAssumption, FS_Subset, FS_CardinalityType

LEMMA SaveType ==
    ASSUME TypeOK, NEW others, DropLast(others)
    PROVE  archived' \in BOOLEAN /\ saved' \in Seq([user : Users, score : Nat])
<1>1. CASE others = {} /\ ~archived
  <2>1. archived' = TRUE /\ saved' \in Results
    BY <1>1 DEF DropLast, saveStats
  <2>2. IsFiniteSet(players)
    BY PlayersFinite DEF TypeOK
  <2> QED BY <2>1, <2>2, ResultsType
<1>2. CASE ~(others = {} /\ ~archived)
  BY <1>2 DEF DropLast, TypeOK
<1> QED BY <1>1, <1>2

LEMMA AnswerType ==
    ASSUME TInv, NEW w \in Workers, NEW status \in Status, Answer(w, status)
    PROVE  /\ pc' \in [Workers -> {"idle", "check", "lookup", "erase", "release"}]
           /\ by' \in [Workers -> Users \cup {NoUser}] /\ typed' \in [Workers -> Text]
           /\ reply' \in [Workers -> Status \cup {"none"}]
           /\ LookedUp'
<1>1. <<>> \in Text
  BY DEF Text
<1> QED BY <1>1 DEF TInv, TypeOK, LookedUp, Answer

LEMMA InitType == Init => TInv
<1> SUFFICES ASSUME Init PROVE TInv
  OBVIOUS
<1>1. <<>> \in Text
  BY DEF Text
<1>2. ctx \in [wordsCount : Nat, playersCount : Nat, lastPlayerId : Users \cup {NoUser},
               lastKana : CodePoint]
  BY DEF Init, ConstantsAssumption
<1>3. /\ joinInfo \in [Clients -> Nat \cup {-1}]
      /\ inbox \in [Clients -> Seq(Line)]
  BY DEF Init
<1>4. /\ words \in Seq(Entry) /\ saved \in Seq([user : Users, score : Nat])
      /\ moves \in Seq([by : Users, typed : Text, reading : Text])
  BY DEF Init
<1>5. TypeOK
  BY <1>1, <1>2, <1>3, <1>4 DEF Init, TypeOK
<1> QED BY <1>5 DEF Init, TInv, LookedUp, Informed

LEMMA FindGameType ==
    ASSUME TInv, NEW w \in Workers, FindGame(w) PROVE TInv'
BY DEF TInv, TypeOK, LookedUp, Informed, FindGame, session, ending, joins

LEMMA CheckType ==
    ASSUME TInv, NEW w \in Workers, Check(w) PROVE TInv'
<1>1. PICK u \in Users, word \in Words :
         IF stop THEN Answer(w, "GAME_STOPPED")
         ELSE IF Refusal(u, word) # "none" THEN Answer(w, Refusal(u, word))
         ELSE LookUp(w, u, word)
  BY DEF Check
<1>2. /\ UNCHANGED <<session, subs, ending, joins, inbox, moves, raced>>
      /\ Informed'
  BY DEF Check, TInv, Informed, joins
<1>3. CASE \E status \in Status : Answer(w, status)
  BY <1>2, <1>3, AnswerType DEF TInv, TypeOK, session, ending, joins
<1>4. CASE LookUp(w, u, word)
  BY <1>2, <1>4, DictType DEF LookUp, TInv, TypeOK, LookedUp, session, ending, joins
<1>5. "GAME_STOPPED" \in Status /\ (Refusal(u, word) # "none" => Refusal(u, word) \in Status)
  BY DEF Refusal, Status
<1> QED BY <1>1, <1>3, <1>4, <1>5

LEMMA LookupFailsType ==
    ASSUME TInv, NEW w \in Workers, LookupFails(w) PROVE TInv'
<1>1. Answer(w, "NO_FOUND_WORD") /\ "NO_FOUND_WORD" \in Status
  BY DEF LookupFails, Status
<1> QED BY <1>1, AnswerType DEF LookupFails, TInv, TypeOK, Informed, session, ending, joins

LEMMA VerdictType == ASSUME NEW w \in Workers PROVE Verdict(w) \in Status
BY DEF Verdict, Refusal, Judged, Judge, Status

LEMMA RefuseType ==
    ASSUME TInv, NEW w \in Workers, Refuse(w) PROVE TInv'
<1>1. Answer(w, Verdict(w)) /\ Verdict(w) \in Status
  BY VerdictType DEF Refuse
<1> QED BY <1>1, AnswerType DEF Refuse, TInv, TypeOK, Informed, session, ending, joins

LEMMA ContextUpdate ==
    ASSUME NEW c \in Context, NEW n \in Nat, NEW u \in Users, NEW kana \in CodePoint
    PROVE  [c EXCEPT !.wordsCount = n, !.lastPlayerId = u, !.lastKana = kana] \in Context
BY DEF Context

LEMMA AcceptType ==
    ASSUME TInv, NEW w \in Workers, Accept(w) PROVE TInv'
<1>1. by[w] \in Users /\ typed[w] \in Text
  BY DictType DEF Accept, TInv, LookedUp
<1>2. /\ Judged(w).entry \in Entry /\ Judged(w).reading \in Text
      /\ Judged(w).next \in CodePoint
  BY Accepted DEF Accept, TInv
<1>3. [kind |-> "wordPlayed", n |-> Len(words) + 1] \in Line
  BY DEF Line, TInv, TypeOK
<1>4. inbox' \in [Clients -> Seq(Line)] /\ raced' \in BOOLEAN
  BY <1>3, PublishType DEF Accept, TInv
<1>5. /\ score' \in [Users -> Nat]
      /\ words' \in Seq(Entry)
  BY <1>1, <1>2 DEF Accept, TInv, TypeOK
<1>6. moves' \in Seq([by : Users, typed : Text, reading : Text])
  BY <1>1, <1>2 DEF Accept, TInv, TypeOK
<1>7. ctx' \in Context
  <2>1. ctx \in Context
    BY DEF TInv, TypeOK, Context
  <2>2. ctx' = [ctx EXCEPT !.wordsCount = @ + 1, !.lastPlayerId = by[w],
                           !.lastKana = Judged(w).next]
    BY DEF Accept
  <2>3. ctx.wordsCount + 1 \in Nat /\ Judged(w).next \in CodePoint
    BY <1>2, <2>1 DEF Context
  <2> QED BY <1>1, <2>1, <2>2, <2>3, ContextUpdate
<1>8. Answer(w, "OK") /\ "OK" \in Status
  BY DEF Accept, Status
<1> QED BY <1>4, <1>5, <1>6, <1>7, <1>8, AnswerType DEF Context, Accept, TInv, TypeOK, Informed, ending, joins

LEMMA EndGameType ==
    ASSUME TInv, NEW w \in Workers, EndGame(w) PROVE TInv'
<1>1. [kind |-> "gameStopped", n |-> 0] \in Line
  BY DEF Line
<1>2. inbox' \in [Clients -> Seq(Line)] /\ raced' \in BOOLEAN
  BY <1>1, PublishType DEF EndGame, TInv
<1>3. "GOT_END_WORD" \in Status
  BY DEF Status
<1> QED BY <1>2, <1>3 DEF EndGame, TInv, TypeOK, LookedUp, Informed, ending, joins

LEMMA EraseType ==
    ASSUME TInv, NEW w \in Workers, Erase(w) PROVE TInv'
BY DEF Erase, TInv, TypeOK, LookedUp, Informed, session, joins

LEMMA ReleaseType ==
    ASSUME TInv, NEW w \in Workers, Release(w) PROVE TInv'
<1>1. archived' \in BOOLEAN /\ saved' \in Seq([user : Users, score : Nat])
  BY SaveType DEF Release, TInv, TypeOK
<1>2. <<>> \in Text
  BY DEF Text
<1> QED BY <1>1, <1>2 DEF Release, TInv, TypeOK, LookedUp, Informed, session, joins

LEMMA AddUserType ==
    ASSUME TInv, NEW k \in Clients, AddUser(k) PROVE TInv'
<1>1. PICK u \in Users :
         /\ as' = [as EXCEPT ![k] = u]
         /\ players' = players \cup {u}
         /\ score' = IF u \in players THEN score ELSE [score EXCEPT ![u] = 0]
  BY DEF AddUser
<1>2. players' \subseteq Users /\ Cardinality(players') \in Nat
  BY <1>1, PlayersFinite DEF TInv, TypeOK
<1>3. ctx' \in Context
  <2>1. ctx \in Context
    BY DEF TInv, TypeOK, Context
  <2>2. ctx' = [ctx EXCEPT !.playersCount = Cardinality(players')]
    BY DEF AddUser
  <2> QED BY <1>2, <2>1, <2>2 DEF Context
<1> QED BY <1>1, <1>2, <1>3 DEF Context, AddUser, TInv, TypeOK, LookedUp, Informed, ending, tasks

LEMMA JoinMissedType ==
    ASSUME TInv, NEW k \in Clients, JoinMissed(k) PROVE TInv'
BY DEF JoinMissed, TInv, TypeOK, LookedUp, Informed, session, ending, tasks

LEMMA SubscribeType ==
    ASSUME TInv, NEW k \in Clients, Subscribe(k) PROVE TInv'
<1>1. raced' \in BOOLEAN
  BY DEF Subscribe, TInv, TypeOK
<1>2. subs' = [subs EXCEPT ![as[k]] = k] \/ subs' = subs
  BY DEF Subscribe
<1>3. subs' \in [Users -> Clients \cup {NoClient}]
  BY <1>2 DEF TInv, TypeOK
<1> QED BY <1>1, <1>3 DEF Subscribe, TInv, TypeOK, LookedUp, Informed, session, ending, tasks

LEMMA GetJoinInfoType ==
    ASSUME TInv, NEW k \in Clients, GetJoinInfo(k) PROVE TInv'
<1>1. Len(words) \in Nat
  BY DEF TInv, TypeOK
<1>2. joinInfo' \in [Clients -> Nat \cup {-1}]
  BY <1>1 DEF GetJoinInfo, TInv, TypeOK
<1> QED BY <1>1, <1>2 DEF GetJoinInfo, TInv, TypeOK, LookedUp, Informed, session, ending, tasks

LEMMA OnJoinType ==
    ASSUME TInv, NEW k \in Clients, OnJoin(k) PROVE TInv'
<1>1. [kind |-> "playerJoinedGame", n |-> joinInfo[k]] \in Line
  BY DEF OnJoin, TInv, Informed, Line
<1>2. inbox' \in [Clients -> Seq(Line)]
  BY <1>1, PostType DEF OnJoin, TInv
<1> QED BY <1>2 DEF OnJoin, TInv, TypeOK, LookedUp, Informed, session, ending, tasks

LEMMA StopGameType ==
    ASSUME TInv, NEW u \in Users, StopGame(u) PROVE TInv'
<1>1. archived' \in BOOLEAN /\ saved' \in Seq([user : Users, score : Nat])
  BY SaveType DEF StopGame, TInv
<1> QED BY <1>1 DEF StopGame, TInv, TypeOK, LookedUp, Informed, tasks, joins

LEMMA StutterType == ASSUME TInv, UNCHANGED vars PROVE TInv'
BY DEF TInv, TypeOK, LookedUp, Informed, vars, session, ending, tasks, joins

LEMMA NextType == TInv /\ [Next]_vars => TInv'
<1> SUFFICES ASSUME TInv, [Next]_vars PROVE TInv'
  OBVIOUS
<1>1. ASSUME NEW w \in Workers, FindGame(w) \/ WordStep(w) PROVE TInv'
  BY <1>1, FindGameType, CheckType, LookupFailsType, RefuseType, AcceptType, EndGameType,
     EraseType, ReleaseType DEF WordStep
<1>2. ASSUME NEW k \in Clients, AddUser(k) \/ JoinMissed(k) \/ JoinStep(k) PROVE TInv'
  BY <1>2, AddUserType, JoinMissedType, SubscribeType, GetJoinInfoType, OnJoinType DEF JoinStep
<1>3. ASSUME NEW u \in Users, StopGame(u) PROVE TInv'
  BY <1>3, StopGameType
<1>4. CASE Over \/ UNCHANGED vars
  BY <1>4, StutterType DEF Over
<1> QED BY <1>1, <1>2, <1>3, <1>4 DEF Next

\* Whatever the number of users, workers and clients, and whatever the dictionary
\* answers, every variable keeps its type: in particular ctx_.lastKana is always
\* a code point, never the missing optional of getLastKana.
THEOREM TypeCorrect == Spec => []TypeOK
<1>1. TInv => TypeOK
  BY DEF TInv
<1> QED BY InitType, NextType, <1>1, PTL DEF Spec

-----------------------------------------------------------------------------
(***************************************************************************)
(* Updates.  NoUpdateMissed is inductive once it is known that a callback  *)
(* is registered by its own join task, after which nobody else moves that  *)
(* task back, and what the connection was sent before its join info.       *)
(***************************************************************************)
Heard(k)   == {inbox[k][i].n : i \in WordsIn(k)}
Ordered(k) == \A i, j \in WordsIn(k) : i < j => inbox[k][i].n < inbox[k][j].n

\* Who joins is a player, and stays one.
Members ==
    \A k \in Clients :
        join[k] \in {"subscribing", "informing", "replying", "in"} => as[k] \in players

\* A registered callback writes to a connection that has subscribed, as its user.
Subscribers ==
    \A k \in Clients, u \in Users :
        subs[u] = k => as[k] = u /\ join[k] \in {"informing", "replying", "in"}

\* The words that a subscriber's connection must have been sent begin, at the
\* latest, after those in its join info.
Due(k) == IF join[k] = "informing" THEN Len(words) ELSE joinInfo[k]

UpToDate(k) ==
    /\ join[k] \in {"out", "subscribing"} => WordsIn(k) = {}
    /\ Ordered(k)
    /\ joinInfo[k] <= Len(words)
    /\ (\E u \in Users : subs[u] = k) => \E first \in 1..(Due(k) + 1) : Heard(k) = first..Len(words)

UInv == TInv /\ Members /\ Subscribers /\ (~raced => \A k \in Clients : UpToDate(k))

\* One line more, after all the others.
LEMMA LineAppended ==
    ASSUME TypeOK, NEW k \in Clients, NEW line \in Line, inbox'[k] = Append(inbox[k], line)
    PROVE  /\ line.kind # "wordPlayed" =>
                 /\ WordsIn(k)' = WordsIn(k) /\ Heard(k)' = Heard(k)
                 /\ Ordered(k) => Ordered(k)'
           /\ line.kind = "wordPlayed" =>
                 /\ Heard(k)' = Heard(k) \cup {line.n}
                 /\ Ordered(k) /\ (\A n \in Heard(k) : n < line.n) => Ordered(k)'
<1>1. PICK s : s = inbox[k] /\ s \in Seq(Line)
  BY DEF TypeOK
<1>2. PICK t : t = Append(s, line)
  OBVIOUS
<1>3. /\ Len(s) \in Nat /\ DOMAIN s = 1..Len(s)
      /\ t \in Seq(Line) /\ Len(t) = Len(s) + 1 /\ DOMAIN t = 1..(Len(s) + 1)
      /\ \A i \in 1..Len(s) : t[i] = s[i]
      /\ t[Len(s) + 1] = line
  <2>1. /\ t \in Seq(Line) /\ Len(t) = Len(s) + 1
        /\ \A i \in 1..Len(s) : t[i] = s[i]
        /\ t[Len(s) + 1] = line
    BY <1>1, <1>2, AppendProperties
  <2> QED BY <1>1, <2>1, LenProperties
<1>4. /\ WordsIn(k) = {i \in 1..Len(s) : s[i].kind = "wordPlayed"}
      /\ WordsIn(k)' = {i \in 1..(Len(s) + 1) : t[i].kind = "wordPlayed"}
  BY <1>1, <1>2, <1>3 DEF WordsIn
<1>5. /\ \A i \in WordsIn(k) : i \in WordsIn(k)' /\ t[i] = s[i] /\ i \in 1..Len(s)
      /\ \A i \in WordsIn(k)' : i \in WordsIn(k) \/ (i = Len(s) + 1 /\ line.kind = "wordPlayed")
      /\ line.kind = "wordPlayed" => Len(s) + 1 \in WordsIn(k)'
  <2>1. \A i \in 1..(Len(s) + 1) : i \in 1..Len(s) \/ i = Len(s) + 1
    BY <1>3
  <2> QED BY <1>3, <1>4, <2>1
<1>6. /\ Heard(k) = {s[i].n : i \in WordsIn(k)}
      /\ Heard(k)' = {t[i].n : i \in WordsIn(k)'}
  BY <1>1, <1>2 DEF Heard
<1>7. CASE line.kind # "wordPlayed"
  <2>1. WordsIn(k)' = WordsIn(k)
    BY <1>5, <1>7
  <2>2. Heard(k)' = Heard(k)
    BY <1>5, <1>6, <2>1
  <2>3. Ordered(k) => Ordered(k)'
    BY <1>1, <1>2, <1>5, <2>1 DEF Ordered
  <2> QED BY <1>7, <2>1, <2>2, <2>3
<1>8. CASE line.kind = "wordPlayed"
  <2>1. Heard(k)' = Heard(k) \cup {line.n}
    <3>1. \A n \in Heard(k)' : n \in Heard(k) \/ n = line.n
      BY <1>3, <1>5, <1>6
    <3>2. \A n \in Heard(k) : n \in Heard(k)'
      BY <1>5, <1>6
    <3>3. line.n \in Heard(k)'
      BY <1>3, <1>5, <1>6, <1>8
    <3> QED BY <3>1, <3>2, <3>3
  <2>2. ASSUME Ordered(k), \A n \in Heard(k) : n < line.n PROVE Ordered(k)'
    <3> SUFFICES ASSUME NEW i \in WordsIn(k)', NEW j \in WordsIn(k)', i < j
                 PROVE  t[i].n < t[j].n
      BY <1>1, <1>2 DEF Ordered
    <3>1. CASE j \in WordsIn(k)
      <4>1. i \in WordsIn(k)
        BY <1>3, <1>5, <3>1
      <4> QED BY <1>1, <1>5, <2>2, <3>1, <4>1 DEF Ordered
    <3>2. CASE j = Len(s) + 1
      <4>1. i \in WordsIn(k)
        <5>1. i # Len(s) + 1
          BY <1>3, <3>2
        <5> QED BY <1>5, <5>1
      <4>2. t[i].n \in Heard(k)
        BY <1>5, <1>6, <4>1
      <4> QED BY <1>3, <2>2, <3>2, <4>2
    <3> QED BY <1>5, <3>1, <3>2
  <2> QED BY <1>8, <2>1, <2>2
<1> QED BY <1>7, <1>8

\* Without a race an update reaches exactly those it is meant for.
LEMMA PublishExact ==
    ASSUME TypeOK, NEW us, NEW line, Publish(us, line), ~raced'
    PROVE  ~raced /\ Post(Subscribed(us), line)
<1> DEFINE inserting == {k \in Clients : join[k] = "subscribing"}
           intended  == Subscribed(us)
<1>1. CASE inserting = {}
  BY <1>1 DEF Publish
<1>2. CASE inserting # {}
  <2>1. PICK reached \in SUBSET (intended \cup inserting) :
           Post(reached, line) /\ raced' = (raced \/ reached # intended)
    BY <1>2 DEF Publish
  <2>2. reached = intended /\ ~raced
    BY <2>1
  <2> QED BY <2>1, <2>2
<1> QED BY <1>1, <1>2

LEMMA PostReaches ==
    ASSUME NEW targets, NEW line, Post(targets, line), NEW k \in Clients
    PROVE  inbox'[k] = IF k \in targets THEN Append(inbox[k], line) ELSE inbox[k]
BY DEF Post

LEMMA UpdatesQuiet ==
    ASSUME NEW k \in Clients, UpToDate(k),
           UNCHANGED <<words, subs, join, joinInfo>>, inbox'[k] = inbox[k]
    PROVE  UpToDate(k)'
<1>1. WordsIn(k)' = WordsIn(k)
  BY DEF WordsIn
<1>2. Heard(k)' = Heard(k) /\ Ordered(k)' <=> Ordered(k)
  BY <1>1 DEF Heard, Ordered
<1> QED BY <1>1, <1>2 DEF UpToDate, Due

\* Steps that touch neither connections nor words.
LEMMA UpdatesUnchanged ==
    ASSUME UInv, TInv', players \subseteq players',
           UNCHANGED <<words, subs, join, as, joinInfo, inbox, raced>>
    PROVE  UInv'
<1>1. Members' /\ Subscribers'
  BY DEF UInv, Members, Subscribers
<1>2. ASSUME ~raced', NEW k \in Clients PROVE UpToDate(k)'
  BY <1>2, UpdatesQuiet DEF UInv
<1> QED BY <1>1, <1>2 DEF UInv

LEMMA InitUpdates == Init => UInv
<1> SUFFICES ASSUME Init PROVE UInv
  OBVIOUS
<1>1. /\ \A k \in Clients : join[k] = "out" /\ inbox[k] = <<>>
      /\ \A u \in Users : subs[u] = NoClient
  BY DEF Init
<1>2. Members /\ Subscribers
  BY <1>1, ConstantsAssumption DEF Members, Subscribers
<1>3. ASSUME NEW k \in Clients PROVE UpToDate(k)
  <2>1. WordsIn(k) = {}
    BY <1>1 DEF WordsIn
  <2>2. \A u \in Users : subs[u] # k
    BY <1>1, ConstantsAssumption
  <2>3. joinInfo[k] <= Len(words)
    BY DEF Init
  <2> QED BY <2>1, <2>2, <2>3 DEF UpToDate, Ordered
<1> QED BY InitType, <1>2, <1>3 DEF UInv

\* Everyone who is subscribed hears of the word, after all the words before it.
LEMMA AcceptUpdates ==
    ASSUME UInv, NEW w \in Workers, Accept(w)
    PROVE  UInv'
<1>1. TInv'
  BY AcceptType DEF UInv
<1>2. UNCHANGED <<players, subs, join, as, joinInfo>>
  BY DEF Accept, joins
<1>3. Members' /\ Subscribers'
  BY <1>2 DEF UInv, Members, Subscribers
<1>4. PICK line : line = [kind |-> "wordPlayed", n |-> Len(words) + 1]
  OBVIOUS
<1>5. /\ words \in Seq(Entry) /\ Len(words) \in Nat /\ line \in Line
      /\ line.kind = "wordPlayed" /\ line.n = Len(words) + 1
  BY <1>4 DEF UInv, TInv, TypeOK, Line
<1>6. Len(words') = Len(words) + 1
  <2>1. Judged(w).entry \in Entry
    BY Accepted DEF Accept, UInv, TInv
  <2> QED BY <1>5, <2>1, AppendProperties DEF Accept
<1>7. ASSUME ~raced', NEW k \in Clients PROVE UpToDate(k)'
  <2>1. ~raced /\ Post(Subscribed(Users), line)
    BY <1>4, <1>7, PublishExact DEF Accept, UInv, TInv
  <2>2. UpToDate(k)
    BY <2>1 DEF UInv
  <2>0. joinInfo'[k] <= Len(words')
    <3>1. PICK n \in Nat \cup {-1} : n = joinInfo[k]
      BY DEF UInv, TInv, TypeOK
    <3>2. PICK m \in Nat : m = Len(words)
      BY <1>5
    <3>3. n <= m
      BY <2>2, <3>1, <3>2 DEF UpToDate
    <3>4. n <= m + 1
      BY <3>3
    <3> QED BY <1>2, <1>6, <3>1, <3>2, <3>4
  <2>3. CASE \E u \in Users : subs[u] = k
    <3>1. inbox'[k] = Append(inbox[k], line)
      <4>1. k \in Subscribed(Users)
        BY <2>3, ConstantsAssumption DEF Subscribed
      <4> QED BY <2>1, <4>1, PostReaches
    <3>2. PICK first \in 1..(Due(k) + 1) : Heard(k) = first..Len(words)
      BY <2>2, <2>3 DEF UpToDate
    <3>3. /\ Heard(k)' = Heard(k) \cup {Len(words) + 1}
          /\ Ordered(k)'
      <4>1. \A n \in Heard(k) : n < line.n
        BY <1>5, <3>2
      <4> QED BY <1>5, <2>2, <3>1, <4>1, LineAppended DEF UInv, TInv, UpToDate
    <3>4. join[k] \in {"informing", "replying", "in"}
      BY <2>3 DEF UInv, Subscribers
    <3>5. Due(k) \in Nat \cup {-1}
      BY <1>5 DEF Due, UInv, TInv, TypeOK
    <3>6. Due(k)' = Due(k) \/ Due(k)' = Due(k) + 1
      BY <1>2, <1>6 DEF Due
    <3>7. first <= Len(words) + 1 => Heard(k)' = first..Len(words')
      BY <1>5, <1>6, <3>2, <3>3, <3>5
    <3>8. first <= Len(words) + 1
      <4>1. Due(k) <= Len(words)
        BY <2>1, <2>3, <1>5 DEF UInv, UpToDate, Due
      <4> QED BY <1>5, <3>2, <3>5, <4>1
    <3>9. first \in 1..(Due(k)' + 1)
      BY <3>2, <3>5, <3>6
    <3> QED BY <1>2, <2>0, <3>3, <3>4, <3>7, <3>8, <3>9 DEF UpToDate
  <2>4. CASE ~ \E u \in Users : subs[u] = k
    <3>1. inbox'[k] = inbox[k]
      <4>1. k \notin Subscribed(Users)
        BY <2>4 DEF Subscribed
      <4> QED BY <2>1, <4>1, PostReaches
    <3>2. WordsIn(k)' = WordsIn(k)
      BY <3>1 DEF WordsIn
    <3> QED BY <1>2, <2>0, <2>2, <2>4, <3>1, <3>2 DEF UpToDate, Ordered
  <2> QED BY <2>3, <2>4
<1> QED BY <1>1, <1>3, <1>7 DEF UInv

\* A line that is not a word changes nothing for those who follow the words.
LEMMA OtherLine ==
    ASSUME UInv, NEW k \in Clients, UpToDate(k), NEW line \in Line, line.kind # "wordPlayed",
           inbox'[k] = inbox[k] \/ inbox'[k] = Append(inbox[k], line)
    PROVE  WordsIn(k)' = WordsIn(k) /\ Heard(k)' = Heard(k) /\ Ordered(k)'
<1>1. CASE inbox'[k] = Append(inbox[k], line)
  BY <1>1, LineAppended DEF UInv, TInv, UpToDate
<1>2. CASE inbox'[k] = inbox[k]
  <2>1. WordsIn(k)' = WordsIn(k)
    BY <1>2 DEF WordsIn
  <2>2. Heard(k)' = Heard(k)
    BY <1>2, <2>1 DEF Heard
  <2> QED BY <1>2, <2>1, <2>2 DEF Ordered, UpToDate
<1> QED BY <1>1, <1>2

LEMMA EndGameUpdates ==
    ASSUME UInv, NEW w \in Workers, EndGame(w)
    PROVE  UInv'
<1>1. TInv'
  BY EndGameType DEF UInv
<1>2. UNCHANGED <<players, words, subs, join, as, joinInfo>>
  BY DEF EndGame, joins
<1>3. Members' /\ Subscribers'
  BY <1>2 DEF UInv, Members, Subscribers
<1>4. PICK line \in Line : line = [kind |-> "gameStopped", n |-> 0]
  BY DEF Line
<1>5. ASSUME ~raced', NEW k \in Clients PROVE UpToDate(k)'
  <2>1. ~raced /\ Post(Subscribed(players), line)
    BY <1>4, <1>5, PublishExact DEF EndGame, UInv, TInv
  <2>2. UpToDate(k)
    BY <2>1 DEF UInv
  <2>3. inbox'[k] = inbox[k] \/ inbox'[k] = Append(inbox[k], line)
    BY <2>1, PostReaches
  <2>4. WordsIn(k)' = WordsIn(k) /\ Heard(k)' = Heard(k) /\ Ordered(k)'
    BY <1>4, <2>2, <2>3, OtherLine
  <2> QED BY <1>2, <2>2, <2>4 DEF UpToDate, Due
<1> QED BY <1>1, <1>3, <1>5 DEF UInv

LEMMA AddUserUpdates ==
    ASSUME UInv, NEW k \in Clients, AddUser(k)
    PROVE  UInv'
<1>1. TInv'
  BY AddUserType DEF UInv
<1>2. PICK u \in Users : as' = [as EXCEPT ![k] = u] /\ players' = players \cup {u}
  BY DEF AddUser
<1>3. /\ join[k] = "out" /\ join' = [join EXCEPT ![k] = "subscribing"]
      /\ UNCHANGED <<words, subs, joinInfo, inbox, raced>>
  BY DEF AddUser
<1>4. join'[k] = "subscribing" /\ as'[k] = u
      /\ \A other \in Clients \ {k} : join'[other] = join[other] /\ as'[other] = as[other]
  BY <1>2, <1>3 DEF UInv, TInv, TypeOK
<1>5. \A v \in Users : subs[v] # k
  BY <1>3 DEF UInv, Subscribers
<1>6. Members'
  <2> SUFFICES ASSUME NEW c \in Clients, join'[c] \in {"subscribing", "informing", "replying", "in"}
               PROVE  as'[c] \in players'
    BY DEF Members
  <2>1. players' = players \cup {u}
    BY <1>2
  <2>2. CASE c = k
    BY <1>4, <2>1, <2>2
  <2>3. CASE c # k
    BY <1>4, <2>1, <2>3 DEF UInv, Members
  <2> QED BY <2>2, <2>3
<1>7. Subscribers'
  <2> SUFFICES ASSUME NEW c \in Clients, NEW v \in Users, subs[v] = c
               PROVE  as'[c] = v /\ join'[c] \in {"informing", "replying", "in"}
    BY <1>3 DEF Subscribers
  <2>1. c # k
    BY <1>5
  <2>2. as[c] = v /\ join[c] \in {"informing", "replying", "in"}
    BY DEF UInv, Subscribers
  <2> QED BY <2>1, <2>2, <1>4
<1>8. ASSUME ~raced', NEW c \in Clients PROVE UpToDate(c)'
  <2>1. UpToDate(c)
    BY <1>3, <1>8 DEF UInv
  <2>2. WordsIn(c)' = WordsIn(c) /\ Heard(c)' = Heard(c)
    BY <1>3 DEF WordsIn, Heard
  <2>3. Ordered(c)'
    BY <1>3, <2>1, <2>2 DEF Ordered, UpToDate
  <2> QED BY <1>3, <1>4, <1>5, <2>1, <2>2, <2>3 DEF UpToDate, Due
<1> QED BY <1>1, <1>6, <1>7, <1>8 DEF UInv

LEMMA JoinMissedUpdates ==
    ASSUME UInv, NEW k \in Clients, JoinMissed(k)
    PROVE  UInv'
<1>1. TInv'
  BY JoinMissedType DEF UInv
<1>2. /\ join[k] = "out" /\ join' = [join EXCEPT ![k] = "missed"]
      /\ UNCHANGED <<players, as, words, subs, joinInfo, inbox, raced>>
  BY DEF JoinMissed, session
<1>3. join'[k] = "missed" /\ \A other \in Clients \ {k} : join'[other] = join[other]
  BY <1>2 DEF UInv, TInv, TypeOK
<1>4. \A v \in Users : subs[v] # k
  BY <1>2 DEF UInv, Subscribers
<1>5. Members' /\ Subscribers'
  <2>1. \A c \in Clients : join'[c] = join[c] \/ c = k
    BY <1>3
  <2>2. Members'
    BY <2>1, <1>2, <1>3 DEF UInv, Members
  <2>3. ASSUME NEW c \in Clients, NEW v \in Users, subs[v] = c
        PROVE  as[c] = v /\ join'[c] \in {"informing", "replying", "in"}
    <3>1. as[c] = v /\ join[c] \in {"informing", "replying", "in"} /\ c # k
      BY <2>3, <1>4 DEF UInv, Subscribers
    <3> QED BY <3>1, <2>1
  <2> QED BY <2>2, <2>3, <1>2 DEF Subscribers
<1>6. ASSUME ~raced', NEW c \in Clients PROVE UpToDate(c)'
  <2>1. UpToDate(c)
    BY <1>2, <1>6 DEF UInv
  <2>2. WordsIn(c)' = WordsIn(c) /\ Heard(c)' = Heard(c)
    BY <1>2 DEF WordsIn, Heard
  <2>3. Ordered(c)'
    BY <1>2, <2>1, <2>2 DEF Ordered, UpToDate
  <2> QED BY <1>2, <1>3, <1>4, <2>1, <2>2, <2>3 DEF UpToDate, Due
<1> QED BY <1>1, <1>5, <1>6 DEF UInv

\* The connection has been sent no word when its callback is registered, and the
\* copy of the words has yet to be taken.
LEMMA SubscribeUpdates ==
    ASSUME UInv, NEW k \in Clients, Subscribe(k)
    PROVE  UInv'
<1>1. TInv'
  BY SubscribeType DEF UInv
<1>2. /\ join[k] = "subscribing" /\ join' = [join EXCEPT ![k] = "informing"]
      /\ UNCHANGED <<players, as, words, joinInfo, inbox>>
      /\ \/ subs' = [subs EXCEPT ![as[k]] = k] /\ raced' = raced
         \/ subs' = subs /\ raced'
  BY DEF Subscribe, session
<1>3. as[k] \in players /\ as[k] \in Users
  BY <1>2 DEF UInv, Members, TInv, TypeOK
<1>4. join'[k] = "informing" /\ \A other \in Clients \ {k} : join'[other] = join[other]
  BY <1>2 DEF UInv, TInv, TypeOK
<1>5. Members'
  BY <1>2, <1>3, <1>4 DEF UInv, Members
<1>6. \A u \in Users : subs'[u] = subs[u] \/ (u = as[k] /\ subs'[u] = k)
  <2>1. CASE subs' = [subs EXCEPT ![as[k]] = k]
    BY <1>3, <2>1 DEF UInv, TInv, TypeOK
  <2>2. CASE subs' = subs
    BY <2>2
  <2> QED BY <1>2, <2>1, <2>2
<1>7. Subscribers'
  <2> SUFFICES ASSUME NEW c \in Clients, NEW u \in Users, subs'[u] = c
               PROVE  as'[c] = u /\ join'[c] \in {"informing", "replying", "in"}
    BY DEF Subscribers
  <2>1. as'[c] = as[c]
    BY <1>2
  <2>2. CASE c = k
    <3>1. subs[u] # k
      BY <1>2 DEF UInv, Subscribers
    <3> QED BY <1>4, <1>6, <2>1, <2>2, <3>1
  <2>3. CASE c # k
    <3>1. subs[u] = c
      BY <1>6, <2>3
    <3> QED BY <1>4, <2>1, <2>3, <3>1 DEF UInv, Subscribers
  <2> QED BY <2>2, <2>3
<1>8. ASSUME ~raced', NEW c \in Clients PROVE UpToDate(c)'
  <2>1. UpToDate(c)
    BY <1>2, <1>8 DEF UInv
  <2>2. WordsIn(c)' = WordsIn(c) /\ Heard(c)' = Heard(c)
    BY <1>2 DEF WordsIn, Heard
  <2>3. Ordered(c)' /\ joinInfo'[c] <= Len(words')
    BY <1>2, <2>1, <2>2 DEF Ordered, UpToDate
  <2>4. CASE c = k
    <3>1. Heard(k)' = {} /\ Len(words) \in Nat /\ Due(k)' = Len(words)
      BY <1>2, <1>4, <2>1, <2>2, <2>4 DEF UpToDate, Heard, WordsIn, Due, UInv, TInv, TypeOK
    <3>2. Heard(k)' = (Len(words) + 1)..Len(words)
      BY <3>1
    <3>3. Len(words) + 1 \in 1..(Due(k)' + 1)
      BY <3>1
    <3> QED BY <1>2, <1>4, <2>3, <2>4, <3>2, <3>3 DEF UpToDate
  <2>5. CASE c # k
    <3>1. (\E u \in Users : subs'[u] = c) => \E u \in Users : subs[u] = c
      BY <1>6, <2>5
    <3> QED BY <1>2, <1>4, <2>1, <2>2, <2>3, <2>5, <3>1 DEF UpToDate, Due
  <2> QED BY <2>4, <2>5
<1> QED BY <1>1, <1>5, <1>7, <1>8 DEF UInv

LEMMA GetJoinInfoUpdates ==
    ASSUME UInv, NEW k \in Clients, GetJoinInfo(k)
    PROVE  UInv'
<1>1. TInv'
  BY GetJoinInfoType DEF UInv
<1>2. /\ join[k] = "informing" /\ join' = [join EXCEPT ![k] = "replying"]
      /\ joinInfo' = [joinInfo EXCEPT ![k] = Len(words)]
      /\ UNCHANGED <<players, as, words, subs, inbox, raced>>
  BY DEF GetJoinInfo, session
<1>3. /\ join'[k] = "replying" /\ joinInfo'[k] = Len(words) /\ Len(words) \in Nat
      /\ \A other \in Clients \ {k} : join'[other] = join[other] /\ joinInfo'[other] = joinInfo[other]
  BY <1>2 DEF UInv, TInv, TypeOK
<1>4. Members' /\ Subscribers'
  <2>1. \A c \in Clients : join'[c] = join[c] \/ c = k
    BY <1>3
  <2>2. Members'
    BY <2>1, <1>2 DEF UInv, Members
  <2>3. ASSUME NEW c \in Clients, NEW v \in Users, subs[v] = c
        PROVE  as[c] = v /\ join'[c] \in {"informing", "replying", "in"}
    <3>1. as[c] = v /\ join[c] \in {"informing", "replying", "in"}
      BY <2>3 DEF UInv, Subscribers
    <3> QED BY <3>1, <2>1, <1>3
  <2> QED BY <2>2, <2>3, <1>2 DEF Subscribers
<1>5. ASSUME ~raced', NEW c \in Clients PROVE UpToDate(c)'
  <2>1. UpToDate(c)
    BY <1>2, <1>5 DEF UInv
  <2>2. WordsIn(c)' = WordsIn(c) /\ Heard(c)' = Heard(c)
    BY <1>2 DEF WordsIn, Heard
  <2>3. Ordered(c)'
    BY <1>2, <2>1, <2>2 DEF Ordered, UpToDate
  <2>4. Due(c)' = Due(c) /\ joinInfo'[c] <= Len(words')
    BY <1>2, <1>3, <2>1 DEF Due, UpToDate
  <2> QED BY <1>2, <1>3, <2>1, <2>2, <2>3, <2>4 DEF UpToDate
<1> QED BY <1>1, <1>4, <1>5 DEF UInv

LEMMA OnJoinUpdates ==
    ASSUME UInv, NEW k \in Clients, OnJoin(k)
    PROVE  UInv'
<1>1. TInv'
  BY OnJoinType DEF UInv
<1>2. /\ join[k] = "replying" /\ join' = [join EXCEPT ![k] = "in"]
      /\ UNCHANGED <<players, as, words, subs, joinInfo, raced>>
  BY DEF OnJoin, session
<1>3. PICK line \in Line : line = [kind |-> "playerJoinedGame", n |-> joinInfo[k]]
  BY <1>2 DEF Line, UInv, TInv, Informed
<1>4. join'[k] = "in" /\ \A other \in Clients \ {k} : join'[other] = join[other]
  BY <1>2 DEF UInv, TInv, TypeOK
<1>5. Members' /\ Subscribers'
  <2>1. \A c \in Clients : join'[c] = join[c] \/ c = k
    BY <1>4
  <2>2. Members'
    BY <2>1, <1>2 DEF UInv, Members
  <2>3. ASSUME NEW c \in Clients, NEW v \in Users, subs[v] = c
        PROVE  as[c] = v /\ join'[c] \in {"informing", "replying", "in"}
    <3>1. as[c] = v /\ join[c] \in {"informing", "replying", "in"}
      BY <2>3 DEF UInv, Subscribers
    <3> QED BY <3>1, <2>1, <1>4
  <2> QED BY <2>2, <2>3, <1>2 DEF Subscribers
<1>6. ASSUME ~raced', NEW c \in Clients PROVE UpToDate(c)'
  <2>1. UpToDate(c)
    BY <1>2, <1>6 DEF UInv
  <2>2. inbox'[c] = inbox[c] \/ inbox'[c] = Append(inbox[c], line)
    <3>1. Post({k}, line)
      BY <1>3 DEF OnJoin
    <3> QED BY <3>1, PostReaches
  <2>3. WordsIn(c)' = WordsIn(c) /\ Heard(c)' = Heard(c) /\ Ordered(c)'
    BY <1>3, <2>1, <2>2, OtherLine
  <2>4. Due(c)' = Due(c)
    BY <1>2, <1>4 DEF Due
  <2> QED BY <1>2, <1>4, <2>1, <2>3, <2>4 DEF UpToDate
<1> QED BY <1>1, <1>5, <1>6 DEF UInv

LEMMA NextUpdates == UInv /\ [Next]_vars => UInv'
<1> SUFFICES ASSUME UInv, [Next]_vars PROVE UInv'
  OBVIOUS
<1>1. TInv'
  BY NextType DEF UInv
<1>2. ASSUME NEW w \in Workers,
             FindGame(w) \/ Check(w) \/ LookupFails(w) \/ Refuse(w) \/ Erase(w) \/ Release(w)
      PROVE  UInv'
  BY <1>1, <1>2, UpdatesUnchanged
     DEF FindGame, Check, LookupFails, Refuse, Erase, Release, session, joins
<1>3. ASSUME NEW w \in Workers, Accept(w) \/ EndGame(w) PROVE UInv'
  BY <1>3, AcceptUpdates, EndGameUpdates
<1>4. ASSUME NEW k \in Clients, AddUser(k) \/ JoinMissed(k) \/ JoinStep(k) PROVE UInv'
  BY <1>4, AddUserUpdates, JoinMissedUpdates, SubscribeUpdates, GetJoinInfoUpdates, OnJoinUpdates
     DEF JoinStep
<1>5. ASSUME NEW u \in Users, StopGame(u) PROVE UInv'
  BY <1>1, <1>5, UpdatesUnchanged DEF StopGame, joins
<1>6. CASE Over \/ UNCHANGED vars
  BY <1>1, <1>6, UpdatesUnchanged DEF Over, vars, session, joins
<1> QED BY <1>2, <1>3, <1>4, <1>5, <1>6 DEF Next, WordStep

LEMMA UpdatesHold == Spec => []UInv
BY InitUpdates, NextUpdates, PTL DEF Spec

\* subscribe, getPlayerJoinInfo and throwUpdate: whoever follows the game has been
\* sent every word since its join info, once each and in order, unless
\* subscriptions_ was raced.
THEOREM UpdatesAreComplete == Spec => []NoUpdateMissed
<1>1. UInv => NoUpdateMissed
  <2> SUFFICES ASSUME UInv, NEW k \in Clients, Following(k), ~raced
               PROVE  /\ \E first \in 1..(joinInfo[k] + 1) :
                            {inbox[k][i].n : i \in WordsIn(k)} = first..Len(words)
                      /\ \A i, j \in WordsIn(k) : i < j => inbox[k][i].n < inbox[k][j].n
    BY DEF NoUpdateMissed
  <2>1. UpToDate(k)
    BY DEF UInv
  <2>2. join[k] = "in" /\ subs[as[k]] = k /\ as[k] \in Users
    BY DEF Following, UInv, Members, TInv, TypeOK
  <2> QED BY <2>1, <2>2 DEF UpToDate, Due, Heard, Ordered
<1> QED BY <1>1, UpdatesHold, PTL

\* Only the end of a game is answered with GOT_END_WORD.
LEMMA EndWordEndsGame ==
    ASSUME TInv, [Next]_vars, NEW w \in Workers, reply'[w] = "GOT_END_WORD", reply[w] = "none"
    PROVE  EndGame(w)
<1>1. reply \in [Workers -> Status \cup {"none"}]
  BY DEF TInv, TypeOK
<1>2. ASSUME NEW v \in Workers, NEW status, Answer(v, status), status # "GOT_END_WORD"
      PROVE  FALSE
  BY <1>1, <1>2 DEF Answer
<1>3. CASE UNCHANGED reply
  BY <1>3
<1>4. ASSUME NEW v \in Workers, Check(v) PROVE FALSE
  <2>1. PICK u \in Users, word \in Words :
           IF stop THEN Answer(v, "GAME_STOPPED")
           ELSE IF Refusal(u, word) # "none" THEN Answer(v, Refusal(u, word))
           ELSE LookUp(v, u, word)
    BY <1>4 DEF Check
  <2>2. Refusal(u, word) # "GOT_END_WORD"
    BY DEF Refusal
  <2>3. CASE UNCHANGED reply
    BY <1>3, <2>3
  <2> QED BY <1>2, <2>1, <2>2, <2>3 DEF LookUp
<1>5. ASSUME NEW v \in Workers, LookupFails(v) \/ Refuse(v) \/ Accept(v) PROVE FALSE
  <2>1. PICK status : Answer(v, status) /\ status # "GOT_END_WORD"
    BY <1>5 DEF LookupFails, Refuse, Accept
  <2> QED BY <1>2, <2>1
<1>6. ASSUME NEW v \in Workers, EndGame(v) PROVE v = w
  BY <1>1, <1>6 DEF EndGame
<1>7. ASSUME NEW v \in Workers, Release(v) PROVE FALSE
  BY <1>1, <1>7 DEF Release
<1>8. ASSUME NEW v \in Workers, FindGame(v) \/ Erase(v) PROVE UNCHANGED reply
  BY <1>8 DEF FindGame, Erase
<1>9. ASSUME NEW k \in Clients, AddUser(k) \/ JoinMissed(k) \/ JoinStep(k) PROVE UNCHANGED reply
  BY <1>9 DEF AddUser, JoinMissed, JoinStep, Subscribe, GetJoinInfo, OnJoin, tasks
<1>10. ASSUME NEW u \in Users, StopGame(u) PROVE UNCHANGED reply
  BY <1>10 DEF StopGame, tasks
<1>11. Over \/ UNCHANGED vars => UNCHANGED reply
  BY DEF Over, vars, tasks
<1> QED BY <1>3, <1>4, <1>5, <1>6, <1>7, <1>8, <1>9, <1>10, <1>11 DEF Next, WordStep

\* handleWord's throwUpdate of gameStopped: in a step that raced with no subscribe,
\* every connection that follows the game is told of its end.
THEOREM EndReachesFollowers == Spec => EndIsAnnounced
<1>1. ASSUME UInv, [Next]_vars, NEW w \in Workers,
             reply'[w] = "GOT_END_WORD", reply[w] = "none", ~raced',
             NEW k \in Clients, Following(k)
      PROVE  inbox'[k] = Append(inbox[k], [kind |-> "gameStopped", n |-> 0])
  <2>1. EndGame(w)
    BY <1>1, EndWordEndsGame DEF UInv
  <2>2. Post(Subscribed(players), [kind |-> "gameStopped", n |-> 0])
    BY <1>1, <2>1, PublishExact DEF EndGame, UInv, TInv
  <2>3. as[k] \in players /\ subs[as[k]] = k
    BY <1>1 DEF Following, UInv, Members
  <2>4. k \in Subscribed(players)
    BY <2>3 DEF Subscribed
  <2> QED BY <2>2, <2>4, PostReaches
<1>2. UInv /\ [Next]_vars =>
         [\A w \in Workers :
            reply'[w] = "GOT_END_WORD" /\ reply[w] = "none" /\ ~raced' =>
              \A k \in Clients : Following(k) =>
                  inbox'[k] = Append(inbox[k], [kind |-> "gameStopped", n |-> 0])]_vars
  BY <1>1
<1> QED BY <1>2, UpdatesHold, PTL DEF Spec, EndIsAnnounced
=============================================================================
