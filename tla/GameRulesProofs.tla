--------------------------- MODULE GameRulesProofs ---------------------------
(***************************************************************************)
(* The rules of the game as theorems: whatever interleaves, the chain, the *)
(* turns, the words and the scores stay right; what is stored is final, and *)
(* the concurrent game implements the abstract one.                        *)
(***************************************************************************)
EXTENDS GameSessionProofs

\* The rules, as one invariant.
Rules == ChainUnbroken /\ NoWordTwice /\ PlayersAlternate /\ ScoresCountMoves

\* What every step but an accepted word leaves alone.
Played == <<words, moves, ctx.lastPlayerId, ctx.lastKana, ctx.wordsCount>>

LEMMA MovesQuiet ==
    ASSUME TInv, UNCHANGED <<words, moves>>, ctx'.lastKana = ctx.lastKana,
           ctx'.lastPlayerId = ctx.lastPlayerId,
           ChainUnbroken, NoWordTwice, PlayersAlternate
    PROVE  ChainUnbroken' /\ NoWordTwice' /\ PlayersAlternate'
BY DEF ChainUnbroken, KanaAfter, NoWordTwice, PlayersAlternate

LEMMA ScoresQuiet ==
    ASSUME TInv, UNCHANGED <<players, score, moves, ctx>>, ScoresCountMoves
    PROVE  ScoresCountMoves'
BY DEF ScoresCountMoves, MovesOf

\* The steps that do not touch the players or the words.
LEMMA QuietSteps ==
    ASSUME TInv, Rules, UNCHANGED <<players, score, words, moves, ctx>>
    PROVE  Rules'
BY MovesQuiet, ScoresQuiet DEF Rules

-----------------------------------------------------------------------------
(* A word is accepted. *)

\* What the second critical section has tested again.
LEMMA AcceptedPlayer ==
    ASSUME TInv, NEW w \in Workers, Accept(w)
    PROVE  /\ by[w] \in players /\ by[w] # ctx.lastPlayerId
           /\ ~isWordDoubled(typed[w], words)
<1>1. Verdict(w) = "OK"
  BY DEF Accept
<1>2. Refusal(by[w], typed[w]) = "none"
  BY <1>1 DEF Verdict, Refusal
<1> QED BY <1>2 DEF Refusal

\* The chain grows by one move at its end.
LEMMA Grown ==
    ASSUME TInv, NEW w \in Workers, Accept(w)
    PROVE  /\ Len(moves) \in Nat /\ Len(moves') = Len(moves) + 1
           /\ \A n \in 1..Len(moves) : moves'[n] = moves[n]
           /\ moves'[Len(moves) + 1].by = by[w]
           /\ moves'[Len(moves) + 1].typed = typed[w]
           /\ moves'[Len(moves) + 1].reading = Judged(w).reading
           /\ ctx'.wordsCount = ctx.wordsCount + 1
           /\ ctx'.lastPlayerId = by[w] /\ ctx'.lastKana = Judged(w).next
           /\ ctx'.playersCount = ctx.playersCount
<1>1. by[w] \in Users /\ typed[w] \in Text /\ Judged(w).reading \in Text
  BY Accepted, DictType DEF Accept, TInv, LookedUp
<1>2. moves' = Append(moves, [by |-> by[w], typed |-> typed[w], reading |-> Judged(w).reading])
  BY DEF Accept
<1>3. moves \in Seq([by : Users, typed : Text, reading : Text])
  BY DEF TInv, TypeOK
<1>4. [by |-> by[w], typed |-> typed[w], reading |-> Judged(w).reading]
         \in [by : Users, typed : Text, reading : Text]
  BY <1>1
<1>5. /\ ctx'.wordsCount = ctx.wordsCount + 1
      /\ ctx'.lastPlayerId = by[w] /\ ctx'.lastKana = Judged(w).next
      /\ ctx'.playersCount = ctx.playersCount
  BY DEF Accept, TInv, TypeOK
<1> QED BY <1>2, <1>3, <1>4, <1>5

LEMMA AcceptChain ==
    ASSUME TInv, NEW w \in Workers, Accept(w), ChainUnbroken PROVE ChainUnbroken'
<1>1. PICK N \in Nat : N = Len(moves)
  BY Grown
<1>2. /\ Len(moves') = N + 1
      /\ \A n \in 1..N : moves'[n] = moves[n]
      /\ moves'[N + 1].reading = Judged(w).reading
      /\ ctx'.lastKana = Judged(w).next
  BY <1>1, Grown, Zenon
<1>3. /\ toHiragana(getFirstKana(Judged(w).reading)) = ctx.lastKana
      /\ Judged(w).next = toHiragana(getLastKana(Judged(w).reading))
      /\ Judged(w).next # NN
  BY Accepted DEF Accept, TInv
<1>4. /\ \A n \in 1..N : /\ toHiragana(getFirstKana(moves[n].reading)) = KanaAfter(n - 1)
                         /\ KanaAfter(n) # NN
      /\ ctx.lastKana = KanaAfter(N)
  BY <1>1 DEF ChainUnbroken
<1>5. \A n \in 0..N : KanaAfter(n)' = KanaAfter(n)
  BY <1>2 DEF KanaAfter
<1>6. KanaAfter(N + 1)' = Judged(w).next
  BY <1>2, <1>3 DEF KanaAfter
<1>7. ASSUME NEW n \in 1..(N + 1)
      PROVE  /\ toHiragana(getFirstKana(moves'[n].reading)) = KanaAfter(n - 1)'
             /\ KanaAfter(n)' # NN
  <2>1. CASE n \in 1..N
    <3>1. n - 1 \in 0..N /\ n \in 0..N
      BY <2>1
    <3> QED BY <1>2, <1>4, <1>5, <2>1, <3>1
  <2>2. CASE n = N + 1
    <3>1. n - 1 = N /\ N \in 0..N
      BY <2>2
    <3> QED BY <1>2, <1>3, <1>4, <1>5, <1>6, <2>2, <3>1
  <2> QED BY <2>1, <2>2
<1>8. Len(moves') = N + 1 /\ ctx'.lastKana = KanaAfter(N + 1)'
  BY <1>2, <1>6
<1> QED BY <1>7, <1>8 DEF ChainUnbroken

LEMMA AcceptNew ==
    ASSUME TInv, NEW w \in Workers, Accept(w), NoWordTwice PROVE NoWordTwice'
<1> DEFINE N == Len(moves)
<1>1. /\ words \in Seq(Entry) /\ Judged(w).entry \in Entry
      /\ words' = Append(words, Judged(w).entry) /\ Len(words) = N
  BY Accepted DEF Accept, TInv, TypeOK, NoWordTwice
<1>2. /\ Len(words') = N + 1 /\ N \in Nat
      /\ \A m \in 1..N : words'[m] = words[m]
  BY <1>1
<1>3. \A m \in 1..N : typed[w] \notin Spellings(words[m])
  BY <1>1, AcceptedPlayer DEF isWordDoubled
<1>4. /\ Len(moves') = N + 1 /\ \A n \in 1..N : moves'[n] = moves[n]
      /\ moves'[N + 1].typed = typed[w]
  BY Grown, Zenon
<1> HIDE DEF N
<1>5. ASSUME NEW m \in 1..Len(moves'), NEW n \in 1..Len(moves'), m < n
      PROVE  moves'[n].typed \notin Spellings(words'[m])
  <2>1. m \in 1..N
    BY <1>2, <1>4, <1>5
  <2>2. CASE n \in 1..N
    BY <1>2, <1>4, <1>5, <2>1, <2>2 DEF NoWordTwice, N
  <2>3. CASE n = N + 1
    BY <1>2, <1>3, <1>4, <2>1, <2>3
  <2> QED BY <1>2, <1>4, <2>2, <2>3
<1> QED BY <1>2, <1>4, <1>5 DEF NoWordTwice

LEMMA AcceptAlternates ==
    ASSUME TInv, NEW w \in Workers, Accept(w), PlayersAlternate PROVE PlayersAlternate'
<1> DEFINE N == Len(moves)
<1>1. /\ N \in Nat /\ Len(moves') = N + 1
      /\ \A n \in 1..N : moves'[n] = moves[n]
      /\ moves'[N + 1].by = by[w] /\ ctx'.lastPlayerId = by[w]
  BY Grown, Zenon
<1>2. by[w] # ctx.lastPlayerId
  BY AcceptedPlayer
<1>3. /\ \A n \in 2..N : moves[n].by # moves[n - 1].by
      /\ N > 0 => ctx.lastPlayerId = moves[N].by
  BY DEF PlayersAlternate, TInv, TypeOK
<1> HIDE DEF N
<1>4. ASSUME NEW n \in 2..(N + 1) PROVE moves'[n].by # moves'[n - 1].by
  <2>1. CASE n \in 2..N
    BY <1>1, <1>3, <2>1
  <2>2. CASE n = N + 1
    BY <1>1, <1>2, <1>3, <2>2
  <2> QED BY <1>1, <2>1, <2>2
<1>5. moves' # <<>>
  BY <1>1
<1> QED BY <1>1, <1>4, <1>5 DEF PlayersAlternate

LEMMA AcceptScores ==
    ASSUME TInv, NEW w \in Workers, Accept(w), ScoresCountMoves PROVE ScoresCountMoves'
<1> DEFINE N == Len(moves)
<1>1. /\ N \in Nat /\ Len(moves') = N + 1
      /\ \A n \in 1..N : moves'[n] = moves[n]
      /\ moves'[N + 1].by = by[w]
      /\ ctx'.wordsCount = ctx.wordsCount + 1 /\ ctx'.playersCount = ctx.playersCount
  BY Grown, Zenon
<1>2. by[w] \in Users /\ by[w] \in players
  BY AcceptedPlayer DEF Accept, TInv, LookedUp
<1>3. score' = [score EXCEPT ![by[w]] = @ + 1] /\ players' = players
  BY DEF Accept
<1> HIDE DEF N
<1>4. ASSUME NEW u \in Users PROVE score'[u] = Cardinality(MovesOf(u)')
  <2>1. score[u] = Cardinality(MovesOf(u)) /\ MovesOf(u) \subseteq 1..N
    BY DEF ScoresCountMoves, MovesOf, N
  <2>2. IsFiniteSet(MovesOf(u)) /\ N + 1 \notin MovesOf(u)
    <3>1. N \in Nat
      BY <1>1
    <3>2. IsFiniteSet(1..N) /\ N + 1 \notin 1..N
      BY <3>1, FS_Interval
    <3> QED BY <2>1, <3>2, FS_Subset
  <2>3. CASE u = by[w]
    <3>1. MovesOf(u)' = MovesOf(u) \cup {N + 1}
      BY <1>1, <2>3 DEF MovesOf, N
    <3>2. score'[u] = score[u] + 1
      BY <1>2, <1>3, <2>3 DEF TInv, TypeOK
    <3> QED BY <2>1, <2>2, <3>1, <3>2, FS_AddElement
  <2>4. CASE u # by[w]
    <3>1. MovesOf(u)' = MovesOf(u)
      BY <1>1, <2>4 DEF MovesOf, N
    <3>2. score'[u] = score[u]
      BY <1>2, <1>3, <2>4 DEF TInv, TypeOK
    <3> QED BY <2>1, <3>1, <3>2
  <2> QED BY <2>3, <2>4
<1>5. \A u \in Users \ players' : score'[u] = 0
  BY <1>2, <1>3 DEF ScoresCountMoves, TInv, TypeOK
<1>6. ctx'.wordsCount = Len(moves') /\ ctx'.playersCount = Cardinality(players')
  BY <1>1, <1>3 DEF ScoresCountMoves, N
<1> QED BY <1>4, <1>5, <1>6 DEF ScoresCountMoves

-----------------------------------------------------------------------------
(* A player joins. *)

LEMMA AddUserRules ==
    ASSUME TInv, NEW k \in Clients, AddUser(k), Rules PROVE Rules'
<1>1. PICK u \in Users : /\ players' = players \cup {u}
                         /\ score' = IF u \in players THEN score ELSE [score EXCEPT ![u] = 0]
  BY DEF AddUser
<1>2. /\ ctx'.lastKana = ctx.lastKana /\ ctx'.lastPlayerId = ctx.lastPlayerId
      /\ ctx'.wordsCount = ctx.wordsCount /\ ctx'.playersCount = Cardinality(players')
      /\ UNCHANGED <<words, moves>>
  BY DEF AddUser, TInv, TypeOK
<1>3. score' = score
  BY <1>1 DEF Rules, ScoresCountMoves, TInv, TypeOK
<1>4. ScoresCountMoves'
  BY <1>1, <1>2, <1>3 DEF Rules, ScoresCountMoves, MovesOf
<1> QED BY <1>2, <1>4, MovesQuiet DEF Rules

-----------------------------------------------------------------------------
LEMMA InitRules == Init => Rules
<1> SUFFICES ASSUME Init PROVE Rules
  OBVIOUS
<1>1. /\ Len(moves) = 0 /\ 1..0 = {} /\ Len(words) = 0 /\ moves = <<>>
      /\ ctx.lastKana = StartKana /\ ctx.lastPlayerId = NoUser
      /\ ctx.wordsCount = 0 /\ ctx.playersCount = 0
  BY DEF Init
<1>2. ChainUnbroken
  BY <1>1 DEF ChainUnbroken, KanaAfter
<1>3. NoWordTwice /\ PlayersAlternate
  BY <1>1 DEF NoWordTwice, PlayersAlternate
<1>4. \A u \in Users : MovesOf(u) = {}
  BY <1>1 DEF MovesOf
<1>5. ScoresCountMoves
  BY <1>1, <1>4, FS_EmptySet DEF ScoresCountMoves, Init
<1> QED BY <1>2, <1>3, <1>5 DEF Rules

LEMMA NextRules == TInv /\ Rules /\ [Next]_vars => Rules'
<1> SUFFICES ASSUME TInv, Rules, [Next]_vars PROVE Rules'
  OBVIOUS
<1>1. ASSUME NEW w \in Workers, FindGame(w) \/ WordStep(w) PROVE Rules'
  <2>1. CASE Accept(w)
    BY <2>1, AcceptChain, AcceptNew, AcceptAlternates, AcceptScores DEF Rules
  <2>2. CASE EndGame(w)
    BY <2>2, QuietSteps DEF EndGame
  <2>3. CASE FindGame(w) \/ Check(w) \/ LookupFails(w) \/ Refuse(w) \/ Erase(w) \/ Release(w)
    BY <2>3, QuietSteps DEF FindGame, Check, LookupFails, Refuse, Erase, Release, session
  <2> QED BY <1>1, <2>1, <2>2, <2>3 DEF WordStep
<1>2. ASSUME NEW k \in Clients, AddUser(k) \/ JoinMissed(k) \/ JoinStep(k) PROVE Rules'
  <2>1. CASE AddUser(k)
    BY <2>1, AddUserRules
  <2>2. CASE JoinMissed(k) \/ Subscribe(k) \/ GetJoinInfo(k) \/ OnJoin(k)
    BY <2>2, QuietSteps DEF JoinMissed, Subscribe, GetJoinInfo, OnJoin, session
  <2> QED BY <1>2, <2>1, <2>2 DEF JoinStep
<1>3. ASSUME NEW u \in Users, StopGame(u) PROVE Rules'
  BY <1>3, QuietSteps DEF StopGame
<1>4. CASE Over \/ UNCHANGED vars
  BY <1>4, QuietSteps DEF Over, vars, session
<1> QED BY <1>1, <1>2, <1>3, <1>4 DEF Next

LEMMA RulesAlways == Spec => [](TInv /\ Rules)
<1>1. Init => TInv /\ Rules
  BY InitType, InitRules
<1>2. TInv /\ Rules /\ [Next]_vars => (TInv /\ Rules)'
  BY NextType, NextRules
<1> QED BY <1>1, <1>2, PTL DEF Spec

\* The chain is never broken, whatever was accepted while a word was looked up.
THEOREM ChainHolds == Spec => []ChainUnbroken
<1>1. TInv /\ Rules => ChainUnbroken
  BY DEF Rules
<1> QED BY RulesAlways, <1>1, PTL

\* No word is accepted twice, in any spelling its entry has.
THEOREM WordsAreNew == Spec => []NoWordTwice
<1>1. TInv /\ Rules => NoWordTwice
  BY DEF Rules
<1> QED BY RulesAlways, <1>1, PTL

\* No player has two accepted words in a row.
THEOREM TurnsAlternate == Spec => []PlayersAlternate
<1>1. TInv /\ Rules => PlayersAlternate
  BY DEF Rules
<1> QED BY RulesAlways, <1>1, PTL

\* A score is the number of the player's words, however often the player joins.
THEOREM ScoresAreRight == Spec => []ScoresCountMoves
<1>1. TInv /\ Rules => ScoresCountMoves
  BY DEF Rules
<1> QED BY RulesAlways, <1>1, PTL
-----------------------------------------------------------------------------
(***************************************************************************)
(* The stored result is final, and the concurrent game implements the      *)
(* abstract one, for any number of users, workers and connections.         *)
(***************************************************************************)

\* Once the destructor has run nobody holds the game, and what it stored still
\* ranks the players.
Closed == archived => ~listed /\ Holders = {} /\ saved \in Results

LEMMA ResultsQuiet ==
    ASSUME UNCHANGED <<players, score>> PROVE Results' = Results
BY DEF Results, Rankings

\* A task that works on the game keeps it from being stored.
LEMMA HolderKeeps ==
    ASSUME Closed, NEW w \in Workers, pc[w] \in {"check", "lookup", "erase", "release"}
    PROVE  ~archived
BY DEF Closed, Holders

LEMMA ClosedSteps ==
    ASSUME TInv, Closed, UNCHANGED <<archived, saved, players, score, pc>>, ~listed => ~listed'
    PROVE  Closed'
BY ResultsQuiet DEF Closed, Holders

LEMMA NextClosed == TInv /\ Closed /\ [Next]_vars => Closed'
<1> SUFFICES ASSUME TInv, Closed, [Next]_vars PROVE Closed'
  OBVIOUS
<1>1. ASSUME NEW w \in Workers, FindGame(w) \/ WordStep(w) PROVE Closed'
  <2>1. CASE FindGame(w)
    BY <2>1 DEF FindGame, Closed, ending
  <2>2. CASE Check(w) \/ LookupFails(w) \/ Refuse(w) \/ Accept(w) \/ EndGame(w)
    <3>1. ~archived
      BY <2>2, HolderKeeps DEF Check, LookupFails, Refuse, Accept, EndGame
    <3> QED BY <2>2, <3>1 DEF Closed, Check, LookupFails, Refuse, Accept, EndGame, ending
  <2>3. CASE Erase(w)
    <3>1. ~archived
      BY <2>3, HolderKeeps DEF Erase
    <3> QED BY <2>3, <3>1 DEF Closed, Erase
  <2>4. CASE Release(w)
    <3>1. ~archived
      BY <2>4, HolderKeeps DEF Release
    <3>2. CASE archived'
      <4>1. ~listed /\ Holders \ {w} = {} /\ saved' \in Results
        BY <2>4, <3>1, <3>2 DEF Release, DropLast, saveStats
      <4>2. UNCHANGED <<players, score, listed>> /\ pc' = [pc EXCEPT ![w] = "idle"]
        BY <2>4 DEF Release, session
      <4>3. Holders' = {}
        BY <4>1, <4>2 DEF Holders, TInv, TypeOK
      <4> QED BY <4>1, <4>2, <4>3, ResultsQuiet DEF Closed
    <3> QED BY <3>2 DEF Closed
  <2> QED BY <1>1, <2>1, <2>2, <2>3, <2>4 DEF WordStep
<1>2. ASSUME NEW k \in Clients, AddUser(k) \/ JoinMissed(k) \/ JoinStep(k) PROVE Closed'
  <2>1. CASE AddUser(k)
    BY <2>1 DEF AddUser, Closed, ending
  <2>2. CASE JoinMissed(k) \/ Subscribe(k) \/ GetJoinInfo(k) \/ OnJoin(k)
    <3>1. UNCHANGED <<session, ending, tasks>>
      BY <2>2 DEF JoinMissed, Subscribe, GetJoinInfo, OnJoin
    <3> QED BY <3>1, ClosedSteps DEF session, ending, tasks
  <2> QED BY <1>2, <2>1, <2>2 DEF JoinStep
<1>3. ASSUME NEW u \in Users, StopGame(u) PROVE Closed'
  <2>1. UNCHANGED <<players, score, pc>> /\ ~listed' /\ listed
    BY <1>3 DEF StopGame, tasks
  <2>2. archived' => Holders = {} /\ saved' \in Results
    BY <1>3, <2>1 DEF StopGame, DropLast, saveStats, Closed
  <2>3. Holders' = Holders
    BY <2>1 DEF Holders
  <2> QED BY <2>1, <2>2, <2>3, ResultsQuiet DEF Closed
<1>4. CASE Over \/ UNCHANGED vars
  BY <1>4, ClosedSteps DEF Over, vars, session, ending, tasks
<1> QED BY <1>1, <1>2, <1>3, <1>4 DEF Next

IInv == TInv /\ Rules /\ Closed

LEMMA InvariantAlways == Spec => []IInv
<1>1. Init => IInv
  BY InitType, InitRules DEF IInv, Closed, Init
<1>2. IInv /\ [Next]_vars => IInv'
  BY NextType, NextRules, NextClosed DEF IInv
<1> QED BY <1>1, <1>2, PTL DEF Spec

-----------------------------------------------------------------------------
(* The stored result. *)

\* A ranking of a finite set of players names every one of them.
LEMMA RankingCovers ==
    ASSUME TInv, NEW f \in Rankings
    PROVE  {f[i] : i \in 1..Cardinality(players)} = players
<1> DEFINE n == Cardinality(players)
<1>1. IsFiniteSet(players) /\ n \in Nat
  BY PlayersFinite DEF TInv, TypeOK
<1>2. f \in [1..n -> players]
  BY DEF Rankings
<1>3. \A i, j \in 1..n : f[i] = f[j] => i = j
  <2> SUFFICES ASSUME NEW i \in 1..n, NEW j \in 1..n, i # j PROVE f[i] # f[j]
    OBVIOUS
  <2>1. i < j \/ j < i
    BY <1>1
  <2> QED BY <2>1 DEF Rankings
<1> HIDE DEF n
<1>4. f \in Injection(1..n, players)
  BY <1>2, <1>3, Zenon DEF Injection, IsInjective
<1>5. Cardinality(1..n) = n
  BY <1>1, FS_Interval
<1>6. f \in Surjection(1..n, players)
  BY <1>1, <1>4, <1>5, FS_Injection DEF n
<1> QED BY <1>2, <1>6 DEF Surjection, n

LEMMA SavedRows ==
    ASSUME TInv, ScoresCountMoves, saved \in Results
    PROVE  /\ Len(saved) = Cardinality(players) /\ Cardinality(players) \in Nat
           /\ {saved[i].user : i \in 1..Len(saved)} = players
           /\ \A i \in 1..Len(saved) :
                 /\ saved[i].user \in players
                 /\ saved[i].score = Cardinality(MovesOf(saved[i].user))
           /\ \A i, j \in 1..Len(saved) : i < j =>
                 saved[i].user # saved[j].user /\ saved[i].score >= saved[j].score
<1>1. PICK f \in Rankings : saved = [i \in DOMAIN f |-> [user |-> f[i], score |-> score[f[i]]]]
  BY DEF Results
<1>2. PICK n \in Nat : n = Cardinality(players)
  BY PlayersFinite DEF TInv, TypeOK
<1>3. /\ f \in [1..n -> players]
      /\ \A i, j \in 1..n : i < j => f[i] # f[j] /\ score[f[i]] >= score[f[j]]
  BY <1>2 DEF Rankings
<1>4. DOMAIN saved = 1..n /\ saved \in Seq([user : Users, score : Nat])
  BY <1>1, <1>3 DEF TInv, TypeOK
<1>5. Len(saved) = n
  BY <1>2, <1>4, LenProperties
<1>6. \A i \in 1..n : saved[i].user = f[i] /\ saved[i].score = score[f[i]]
  BY <1>1, <1>3
<1>7. {f[i] : i \in 1..n} = players
  BY <1>2, RankingCovers
<1>8. players \subseteq Users
  BY DEF TInv, TypeOK
<1>9. \A u \in Users : score[u] = Cardinality(MovesOf(u))
  BY DEF ScoresCountMoves
<1>10. \A i \in 1..n : /\ saved[i].user \in players
                       /\ saved[i].score = Cardinality(MovesOf(saved[i].user))
  BY <1>3, <1>6, <1>8, <1>9
<1>11. {saved[i].user : i \in 1..n} = {f[i] : i \in 1..n}
  BY <1>6
<1> QED BY <1>2, <1>3, <1>5, <1>6, <1>7, <1>10, <1>11

\* What is stored is the final result of the whole game: all the players, each
\* with the points of the player's accepted words, best first, and nobody is left
\* who could change it.
THEOREM ResultIsFinal == Spec => []SavedIsFinal
<1>1. ASSUME IInv PROVE SavedIsFinal
  <2> SUFFICES ASSUME archived PROVE SavedIsFinal
    BY DEF SavedIsFinal
  <2>1. ~listed /\ Holders = {} /\ saved \in Results
    BY <1>1 DEF IInv, Closed
  <2>2. TInv /\ ScoresCountMoves
    BY <1>1 DEF IInv, Rules
  <2> QED BY <2>1, <2>2, SavedRows DEF SavedIsFinal
<1> QED BY InvariantAlways, <1>1, PTL

-----------------------------------------------------------------------------
(***************************************************************************)
(* Refinement.  An accepted word plays, an ending word or the admin closes *)
(* the game, whoever lets go of it last archives it; all else stutters.    *)
(***************************************************************************)

\* The abstract game is an instance, with operators of its own that are the same.
LEMMA SameCardinality == ASSUME NEW S PROVE Game!Cardinality(S) = Cardinality(S)
BY DEF Game!Cardinality, Cardinality

LEMMA SameKana ==
    /\ \A c : Game!toHiragana(c) = toHiragana(c)
    /\ \A u : Game!getLastKana(u) = getLastKana(u)
    /\ \A u : Game!getFirstKana(u) = getFirstKana(u)
    /\ Game!NN = NN /\ Game!NoKana = NoKana
<1>1. Game!NN = NN /\ Game!NoKana = NoKana
  BY DEF Game!NN, NN, Game!NoKana, NoKana
<1>2. ASSUME NEW u PROVE Game!getLastKana(u) = getLastKana(u)
  BY <1>1 DEF Game!getLastKana, getLastKana, Game!LastSounded, LastSounded, Game!isLongVowel,
              isLongVowel, Game!isSmallKana, isSmallKana
<1>3. ASSUME NEW u PROVE Game!getFirstKana(u) = getFirstKana(u)
  BY <1>1 DEF Game!getFirstKana, getFirstKana, Game!FirstFull, FirstFull, Game!Skipped, Skipped,
              Game!isLongVowel, isLongVowel, Game!isSmallKana, isSmallKana
<1>4. ASSUME NEW c PROVE Game!toHiragana(c) = toHiragana(c)
  BY SMT DEF Game!toHiragana, toHiragana
<1> QED BY <1>1, <1>2, <1>3, <1>4

LEMMA SameRules ==
    /\ \A e : Game!Readings(e) = Readings(e) /\ Game!Spellings(e) = Spellings(e)
    /\ \A e, reading : Game!Stored(e, reading) = Stored(e, reading)
    /\ \A word, used : Game!isWordDoubled(word, used) <=> isWordDoubled(word, used)
BY DEF Game!Readings, Readings, Game!Spellings, Spellings, Game!Stored, Stored,
       Game!isWordDoubled, isWordDoubled

LEMMA Stutters ==
    ASSUME UNCHANGED <<players, moves, words, stop, archived, saved>>
    PROVE  UNCHANGED Game!vars
BY DEF Game!vars, Phase

\* Storing the game archives it.
LEMMA SaveArchives ==
    ASSUME TInv, ScoresCountMoves, ~archived, archived', saved' \in Results,
           UNCHANGED <<players, score, moves, words>>
    PROVE  Game!Archive
<1>1. TInv /\ ScoresCountMoves
  OBVIOUS
<1>2. PICK f \in Rankings : saved' = [i \in DOMAIN f |-> [user |-> f[i], score |-> score[f[i]]]]
  BY DEF Results
<1>3. PICK n \in Nat : n = Cardinality(players)
  BY PlayersFinite DEF TInv, TypeOK
<1>4. /\ f \in [1..n -> players]
      /\ \A i, j \in 1..n : i < j => f[i] # f[j] /\ score[f[i]] >= score[f[j]]
  BY <1>3 DEF Rankings
<1>5. DOMAIN saved' = 1..n /\ Len(saved') = n
  BY <1>2, <1>4
<1>6. \A i \in 1..n : saved'[i].user = f[i] /\ saved'[i].score = score[f[i]]
  BY <1>2, <1>4
<1>7. ASSUME NEW u \in Users PROVE score[u] = Game!Points(u)
  <2>1. DOMAIN moves = 1..Len(moves)
    BY DEF TInv, TypeOK
  <2>2. Game!Points(u) = Cardinality(MovesOf(u))
    BY <2>1, SameCardinality, Zenon DEF MovesOf, Game!Points
  <2> QED BY <2>2 DEF ScoresCountMoves
<1>8. \A i \in DOMAIN saved' : Game!Row(saved', i)
  BY <1>4, <1>5, <1>6, <1>7 DEF Game!Row, TInv, TypeOK
<1>9. \A i, j \in DOMAIN saved' : i < j =>
         saved'[i].user # saved'[j].user /\ saved'[i].score >= saved'[j].score
  BY <1>4, <1>5, <1>6
<1>10. Game!IsStanding(saved')
  BY <1>3, <1>5, <1>8, <1>9, SameCardinality, Zenon DEF Game!IsStanding
<1> QED BY <1>10 DEF Game!Archive, Phase

LEMMA PlayRefines ==
    ASSUME IInv, NEW w \in Workers, Accept(w) PROVE Game!Next
<1> DEFINE u == by[w]  word == typed[w]  reading == Judged(w).reading
<1>1. /\ u \in Users /\ word \in Words /\ word \in Text /\ Dict[word] \in Seq(Entry)
      /\ pc[w] = "lookup" /\ ~archived
  BY DictType, HolderKeeps DEF Accept, IInv, TInv, LookedUp
<1>2. /\ u \in players /\ u # ctx.lastPlayerId /\ ~isWordDoubled(word, words)
  BY AcceptedPlayer DEF IInv
<1>3. Judge(word, Dict[word], ctx.lastKana).status = "OK"
  BY Accepted DEF Accept, IInv, TInv, Judged
<1>4. /\ toHiragana(getFirstKana(reading)) = ctx.lastKana
      /\ toHiragana(getLastKana(reading)) \in CodePoint
      /\ toHiragana(getLastKana(reading)) # NN
  BY <1>1, <1>3, JudgedOK DEF Judged
<1>5. PICK i \in DOMAIN Dict[word] :
         /\ Dict[word][i].noun /\ word \in Spellings(Dict[word][i])
         /\ reading \in Readings(Dict[word][i])
         /\ Judged(w).entry = Stored(Dict[word][i], reading)
  BY <1>1, <1>3, JudgedOK DEF Judged
<1>6. ctx.lastKana = Game!Wanted
  <2>1. ctx.lastKana = KanaAfter(Len(moves))
    BY DEF IInv, Rules, ChainUnbroken
  <2>2. Len(moves) = 0 <=> moves = <<>>
    BY DEF IInv, TInv, TypeOK
  <2> QED BY <2>1, <2>2, SameKana DEF KanaAfter, Game!Wanted
<1>7. ~Game!LastPlayed(u)
  BY <1>2 DEF IInv, Rules, PlayersAlternate, Game!LastPlayed
<1>8. toHiragana(getLastKana(reading)) \notin {NN, NoKana}
  BY <1>4, MaxCodePointNat, SMT DEF NoKana, CodePoint
<1>9. /\ UNCHANGED <<players, stop, archived, saved>>
      /\ moves' = Append(moves, [by |-> u, typed |-> word, reading |-> reading])
      /\ words' = Append(words, Judged(w).entry)
  BY DEF Accept, ending
<1>10. Phase # "archived" /\ Phase' = Phase
  BY <1>1, <1>9 DEF Phase
<1> HIDE DEF u, word, reading
<1>11. Game!Play(u, word, Dict[word][i], reading)
  BY <1>2, <1>4, <1>5, <1>6, <1>7, <1>8, <1>9, <1>10, SameKana, SameRules, Zenon
  DEF Game!Play
<1> QED BY <1>1, <1>5, <1>11, SameRules, Zenon DEF Game!Next

LEMMA NextRefines == IInv /\ [Next]_vars => [Game!Next]_Game!vars
<1> SUFFICES ASSUME IInv, [Next]_vars PROVE [Game!Next]_Game!vars
  OBVIOUS
<1>0. TInv /\ Closed /\ ScoresCountMoves
  BY DEF IInv, Rules
<1>1. ASSUME NEW w \in Workers, FindGame(w) \/ WordStep(w) PROVE [Game!Next]_Game!vars
  <2>1. CASE Accept(w)
    BY <2>1, PlayRefines
  <2>2. CASE EndGame(w)
    <3>1. ~archived /\ stop' = TRUE /\ UNCHANGED <<players, moves, words, archived, saved>>
      BY <1>0, <2>2, HolderKeeps DEF EndGame, ending
    <3>2. CASE stop
      BY <3>1, <3>2, Stutters DEF TInv, TypeOK
    <3>3. CASE ~stop
      BY <3>1, <3>3 DEF Game!Next, Game!Close, Phase
    <3> QED BY <3>2, <3>3
  <2>3. CASE FindGame(w) \/ Check(w) \/ LookupFails(w) \/ Refuse(w) \/ Erase(w)
    <3>1. UNCHANGED <<players, moves, words, stop, archived, saved>>
      BY <2>3 DEF FindGame, Check, LookupFails, Refuse, Erase, session, ending
    <3> QED BY <3>1, Stutters
  <2>4. CASE Release(w)
    <3>1. UNCHANGED <<players, score, moves, words, stop>> /\ ~archived
      BY <1>0, <2>4, HolderKeeps DEF Release, session
    <3>2. CASE archived' /\ saved' \in Results
      BY <1>0, <3>1, <3>2, SaveArchives DEF Game!Next
    <3>3. CASE UNCHANGED <<archived, saved>>
      BY <3>1, <3>3, Stutters
    <3> QED BY <2>4, <3>2, <3>3 DEF Release, DropLast, saveStats
  <2> QED BY <1>1, <2>1, <2>2, <2>3, <2>4 DEF WordStep
<1>2. ASSUME NEW k \in Clients, AddUser(k) \/ JoinMissed(k) \/ JoinStep(k)
      PROVE  [Game!Next]_Game!vars
  <2>1. CASE AddUser(k)
    <3>1. PICK u \in Users : players' = players \cup {u}
      BY <2>1 DEF AddUser
    <3>2. UNCHANGED <<moves, words, stop, archived, saved>> /\ ~archived
      BY <1>0, <2>1 DEF AddUser, ending, Closed
    <3>3. Game!Join(u)
      BY <3>1, <3>2 DEF Game!Join, Phase
    <3> QED BY <3>3 DEF Game!Next
  <2>2. CASE JoinMissed(k) \/ Subscribe(k) \/ GetJoinInfo(k) \/ OnJoin(k)
    <3>1. UNCHANGED <<session, ending, moves>>
      BY <2>2 DEF JoinMissed, Subscribe, GetJoinInfo, OnJoin
    <3> QED BY <3>1, Stutters DEF session, ending
  <2> QED BY <1>2, <2>1, <2>2 DEF JoinStep
<1>3. ASSUME NEW u \in Users, StopGame(u) PROVE [Game!Next]_Game!vars
  <2>1. stop' = TRUE /\ UNCHANGED <<players, score, moves, words>> /\ ~archived
    BY <1>0, <1>3 DEF StopGame, Closed
  <2>2. CASE archived' /\ saved' \in Results
    BY <1>0, <2>1, <2>2, SaveArchives DEF Game!Next
  <2>3. CASE UNCHANGED <<archived, saved>>
    <3>1. CASE stop
      BY <2>1, <2>3, <3>1, Stutters
    <3>2. CASE ~stop
      BY <2>1, <2>3, <3>2 DEF Game!Next, Game!Close, Phase
    <3> QED BY <3>1, <3>2
  <2> QED BY <1>3, <2>2, <2>3 DEF StopGame, DropLast, saveStats
<1>4. CASE Over \/ UNCHANGED vars
  <2>1. UNCHANGED vars
    BY <1>4 DEF Over
  <2> QED BY <2>1, Stutters DEF vars, session, ending
<1> QED BY <1>1, <1>2, <1>3, <1>4 DEF Next

\* The tasks, their locks and their counters implement the abstract game of
\* shiritori, whatever their number and whatever the dictionary says.
THEOREM Refinement == Spec => ImplementsShiritori
<1>1. Init => Game!Init
  BY DEF Init, Game!Init, Phase
<1> QED BY InvariantAlways, <1>1, NextRefines, PTL DEF Spec, ImplementsShiritori, Game!Spec
=============================================================================
