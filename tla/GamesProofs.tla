----------------------------- MODULE GamesProofs -----------------------------
(***************************************************************************)
(* Proofs about the list of games, for any workers, users and number of    *)
(* games: no task meets a destroyed game, the list agrees with the games,  *)
(* and the controller implements the lobby.                                *)
(***************************************************************************)
EXTENDS Games, TLAPS, FiniteSetTheorems

USE GamesAssumption

\* startNewGame counts: the game with id n is the object made n + 1st.
Numbered ==
    /\ Len(games) = nextGameId
    /\ \A o \in DOMAIN games : games[o].id = o - 1
    /\ \A id \in DOMAIN activeGames : activeGames[id] = id + 1

Starters == {w \in Workers : at[w] = "start"}

\* The bound on the games holds for those about to be started too.
StartsFit == nextGameId + Cardinality(Starters) <= MaxGames

\* The controller's mutex: whoever destroys a game under it is alone.
MutexHeld ==
    \A v, w \in Workers :
        at[v] = "storing" => v = w \/ at[w] \notin {"storing", "walking", "joining"}

\* A game that is destroyed under the mutex is off the list and no task's, and one
\* whose task is about to take it off the list is stopped.
LastReference ==
    \A w \in Workers :
        /\ at[w] = "storing" => ~Listed(game[w]) /\ Owners(game[w]) = {}
        /\ at[w] = "erase" => games[game[w]].stop

\* Only a walk has seen games.
OnlyWalksSee == \A w \in Workers : seen[w] # {} => at[w] = "walking"

\* What ListAgreesWithGames says of one object.
Agrees(o) ==
    /\ ~Listed(o) =>
          /\ games[o].stop
          /\ Owners(o) = {} =>
                games[o].saves = 1 \/ \E w \in Workers : at[w] = "storing" /\ game[w] = o
    /\ games[o].stop /\ Listed(o) => \E w \in Owners(o) : at[w] = "erase"

IInv ==
    /\ TypeOK /\ Numbered /\ StartsFit /\ MutexHeld /\ LastReference
    /\ OnlyWalksSee /\ NoUseAfterDestruction /\ ListAgreesWithGames

-----------------------------------------------------------------------------
(* What the steps have in common. *)

\* A game is listed under its own id or not at all.
LEMMA ListedById ==
    ASSUME TypeOK, Numbered, NEW o \in Nat
    PROVE  Listed(o) <=> o - 1 \in DOMAIN activeGames
<1>1. \A id \in DOMAIN activeGames : id \in Int /\ activeGames[id] = id + 1
  BY DEF TypeOK, Numbered
<1> QED BY <1>1 DEF Listed

LEMMA StartersFinite == IsFiniteSet(Starters) /\ Cardinality(Starters) \in Nat
<1>1. Starters \subseteq Workers
  BY DEF Starters
<1> QED BY <1>1, FS_Subset, FS_CardinalityType

\* No task begins to start a game but in Begin.
LEMMA StartsStillFit ==
    ASSUME IInv, Starters' \subseteq Starters, UNCHANGED nextGameId
    PROVE  StartsFit'
<1>1. Cardinality(Starters') <= Cardinality(Starters) /\ Cardinality(Starters') \in Nat
  BY StartersFinite, FS_Subset, FS_CardinalityType
<1> QED BY <1>1, StartersFinite DEF IInv, StartsFit, TypeOK

GameRecord == [id : Nat, adminId : Users, stop : BOOLEAN, saves : Nat]

\* What a step that stops or stores a game does to it, and leaves of the others.
LEMMA OneGameChanges ==
    ASSUME games \in Seq(GameRecord), NEW o \in DOMAIN games, NEW g \in GameRecord,
           games' = [games EXCEPT ![o] = g]
    PROVE  /\ games' \in Seq(GameRecord)
           /\ Len(games') = Len(games) /\ DOMAIN games' = DOMAIN games
           /\ games'[o] = g /\ \A p \in DOMAIN games : p # o => games'[p] = games[p]
OBVIOUS

LEMMA StopSet ==
    ASSUME games \in Seq(GameRecord), NEW o \in DOMAIN games,
           games' = [games EXCEPT ![o].stop = TRUE]
    PROVE  /\ games' \in Seq(GameRecord)
           /\ Len(games') = Len(games) /\ DOMAIN games' = DOMAIN games
           /\ \A p \in DOMAIN games : /\ games'[p].id = games[p].id
                                      /\ games'[p].saves = games[p].saves
                                      /\ games'[p].stop = (p = o \/ games[p].stop)
<1> DEFINE g == [games[o] EXCEPT !.stop = TRUE]
<1>1. games[o] \in GameRecord
  OBVIOUS
<1>2. g \in GameRecord /\ g.id = games[o].id /\ g.saves = games[o].saves /\ g.stop = TRUE
  BY <1>1 DEF GameRecord
<1>3. games' = [games EXCEPT ![o] = g]
  OBVIOUS
<1>4. \A p \in DOMAIN games : games[p] \in GameRecord
  OBVIOUS
<1>5. \A p \in DOMAIN games : games[p].stop \in BOOLEAN
  BY <1>4 DEF GameRecord
<1> HIDE DEF g
<1> QED BY <1>2, <1>3, <1>5, OneGameChanges

LEMMA Saved ==
    ASSUME games \in Seq(GameRecord), NEW o \in DOMAIN games, saveStats(o)
    PROVE  /\ games' \in Seq(GameRecord)
           /\ Len(games') = Len(games) /\ DOMAIN games' = DOMAIN games
           /\ \A p \in DOMAIN games :
                 /\ games'[p].id = games[p].id /\ games'[p].stop = games[p].stop
                 /\ games'[p].saves = IF p = o THEN games[p].saves + 1 ELSE games[p].saves
<1> DEFINE g == [games[o] EXCEPT !.saves = @ + 1]
<1>1. games[o] \in GameRecord
  OBVIOUS
<1>2. g \in GameRecord /\ g.id = games[o].id /\ g.stop = games[o].stop /\ g.saves = games[o].saves + 1
  BY <1>1 DEF GameRecord
<1>3. games' = [games EXCEPT ![o] = g]
  BY DEF saveStats
<1> HIDE DEF g
<1> QED BY <1>2, <1>3, OneGameChanges

-----------------------------------------------------------------------------
(* The steps. *)

\* The worker takes up a task.
LEMMA BeginKeeps ==
    ASSUME IInv, NEW w \in Workers, Begin(w)
    PROVE  IInv'
<1>1. PICK kind \in {"start", "stop", "ready"} :
         /\ kind = "start" => nextGameId + Cardinality(Starters) < MaxGames
         /\ at' = [at EXCEPT ![w] = kind]
  BY DEF Begin, Goes, Starters
<1>2. at[w] = "idle" /\ UNCHANGED <<activeGames, nextGameId, games, game, seen>>
  BY DEF Begin, list
<1>3. \A v \in Workers : at'[v] = IF v = w THEN kind ELSE at[v]
  BY <1>1 DEF IInv, TypeOK
<1>4. TypeOK'
  BY <1>1, <1>2, <1>3 DEF IInv, TypeOK
<1>5. StartsFit'
  <2>1. CASE kind = "start"
    <3>1. Starters' = Starters \cup {w} /\ w \notin Starters
      BY <2>1, <1>2, <1>3 DEF Starters
    <3>2. Cardinality(Starters') = Cardinality(Starters) + 1
      BY <3>1, StartersFinite, FS_AddElement
    <3> QED BY <3>2, <2>1, <1>1, <1>2, StartersFinite DEF IInv, TypeOK, StartsFit
  <2>2. CASE kind # "start"
    <3>1. Starters' \subseteq Starters
      BY <2>2, <1>3 DEF Starters
    <3> QED BY <3>1, <1>2, StartsStillFit
  <2> QED BY <2>1, <2>2
<1>6. Numbered'
  BY <1>2 DEF IInv, Numbered
<1>7. \A o : Owners(o)' = Owners(o) /\ Listed(o)' = Listed(o)
  BY <1>1, <1>2, <1>3 DEF Owners, Listed
<1>8. MutexHeld' /\ LastReference' /\ NoUseAfterDestruction' /\ OnlyWalksSee'
  BY <1>1, <1>2, <1>3, <1>7 DEF IInv, MutexHeld, LastReference, NoUseAfterDestruction, OnlyWalksSee, Listed
<1>9. ListAgreesWithGames'
  BY <1>1, <1>2, <1>3, <1>7 DEF IInv, ListAgreesWithGames, Owners
<1> QED BY <1>4, <1>5, <1>6, <1>8, <1>9 DEF IInv

\* A task that has neither a reference nor the mutex for itself is over.
LEMMA EndKeeps ==
    ASSUME IInv, NEW w \in Workers, at[w] \in {"stop", "ready", "joining", "walking"},
           Ends(w), UNCHANGED <<list, games>>
    PROVE  IInv'
<1>1. /\ at' = [at EXCEPT ![w] = "idle"] /\ game' = [game EXCEPT ![w] = NoGame]
      /\ seen' = [seen EXCEPT ![w] = {}]
      /\ UNCHANGED <<activeGames, nextGameId, games>>
  BY DEF Ends, Goes, list
<1>2. \A v \in Workers : /\ at'[v] = IF v = w THEN "idle" ELSE at[v]
                         /\ game'[v] = IF v = w THEN NoGame ELSE game[v]
                         /\ seen'[v] = IF v = w THEN {} ELSE seen[v]
  BY <1>1 DEF IInv, TypeOK
<1>3. TypeOK'
  BY <1>1, <1>2 DEF IInv, TypeOK, NoGame
<1>4. Starters' \subseteq Starters
  BY <1>2 DEF Starters
<1>5. Numbered' /\ StartsFit'
  BY <1>1, <1>4, StartsStillFit DEF IInv, Numbered
<1>6. \A o : Owners(o)' = Owners(o) /\ Listed(o)' = Listed(o)
  BY <1>1, <1>2 DEF Owners, Listed
<1>7. MutexHeld' /\ LastReference' /\ NoUseAfterDestruction' /\ OnlyWalksSee'
  BY <1>1, <1>2, <1>6 DEF IInv, MutexHeld, LastReference, NoUseAfterDestruction, OnlyWalksSee, Listed
<1>8. ListAgreesWithGames'
  BY <1>1, <1>2, <1>6 DEF IInv, ListAgreesWithGames, Owners
<1> QED BY <1>3, <1>5, <1>7, <1>8 DEF IInv

\* A word is tested, looked up, refused or accepted, and the game goes on.
LEMMA WordKeeps ==
    ASSUME IInv, NEW w \in Workers, Check(w) \/ GameGoesOn(w)
    PROVE  IInv'
<1>1. PICK to \in {"lookup", "release"} : at' = [at EXCEPT ![w] = to]
  BY DEF Check, GameGoesOn, Goes
<1>2. at[w] \in {"check", "lookup"} /\ UNCHANGED <<activeGames, nextGameId, games, game, seen>>
  BY DEF Check, GameGoesOn, list
<1>3. \A v \in Workers : at'[v] = IF v = w THEN to ELSE at[v]
  BY <1>1 DEF IInv, TypeOK
<1>4. TypeOK'
  BY <1>1, <1>2, <1>3 DEF IInv, TypeOK
<1>5. Starters' \subseteq Starters
  BY <1>3 DEF Starters
<1>6. Numbered' /\ StartsFit'
  BY <1>2, <1>5, StartsStillFit DEF IInv, Numbered
<1>7. \A o : Owners(o)' = Owners(o) /\ Listed(o)' = Listed(o)
  BY <1>1, <1>2, <1>3 DEF Owners, Listed
<1>8. MutexHeld' /\ LastReference' /\ NoUseAfterDestruction' /\ OnlyWalksSee'
  BY <1>1, <1>2, <1>3, <1>7 DEF IInv, MutexHeld, LastReference, NoUseAfterDestruction, OnlyWalksSee, Listed
<1>9. ListAgreesWithGames'
  BY <1>1, <1>2, <1>3, <1>7 DEF IInv, ListAgreesWithGames, Owners
<1> QED BY <1>4, <1>6, <1>8, <1>9 DEF IInv

\* Someone looks at the games: at all of them, one after the other.
LEMMA WalkKeeps ==
    ASSUME IInv, NEW w \in Workers, getActiveGames(w) \/ WalkOn(w)
    PROVE  IInv'
<1>1. CASE getActiveGames(w)
  <2>1. /\ at' = [at EXCEPT ![w] = "walking"] /\ at[w] = "ready" /\ Excluding = {}
        /\ UNCHANGED <<activeGames, nextGameId, games, game, seen>>
    BY <1>1 DEF getActiveGames, Goes, list, CanShare
  <2>2. \A v \in Workers : at'[v] = IF v = w THEN "walking" ELSE at[v]
    BY <2>1 DEF IInv, TypeOK
  <2>3. TypeOK'
    BY <2>1, <2>2 DEF IInv, TypeOK
  <2>4. Starters' \subseteq Starters
    BY <2>2 DEF Starters
  <2>5. Numbered' /\ StartsFit'
    BY <2>1, <2>4, StartsStillFit DEF IInv, Numbered
  <2>6. \A o : Owners(o)' = Owners(o) /\ Listed(o)' = Listed(o)
    BY <2>1, <2>2 DEF Owners, Listed
  <2>7. MutexHeld' /\ LastReference' /\ NoUseAfterDestruction' /\ OnlyWalksSee'
    BY <2>1, <2>2, <2>6
       DEF IInv, MutexHeld, LastReference, NoUseAfterDestruction, OnlyWalksSee, Listed, Excluding
  <2>8. ListAgreesWithGames'
    BY <2>1, <2>2, <2>6 DEF IInv, ListAgreesWithGames, Owners
  <2> QED BY <2>3, <2>5, <2>7, <2>8 DEF IInv
<1>2. CASE WalkOn(w)
  <2>1. PICK id \in DOMAIN activeGames : seen' = [seen EXCEPT ![w] = @ \cup {id}]
    BY <1>2 DEF WalkOn
  <2>2. at[w] = "walking" /\ UNCHANGED <<activeGames, nextGameId, games, at, game>>
    BY <1>2 DEF WalkOn, list
  <2>3. id \in Ids
    <3>1. nextGameId \in 0..MaxGames /\ id \in 0..(nextGameId - 1)
      BY DEF IInv, TypeOK
    <3> QED BY <3>1 DEF Ids
  <2>4. \A v \in Workers : seen'[v] = IF v = w THEN seen[v] \cup {id} ELSE seen[v]
    BY <2>1 DEF IInv, TypeOK
  <2>5. TypeOK'
    BY <2>1, <2>2, <2>3, <2>4 DEF IInv, TypeOK
  <2>6. Numbered' /\ StartsFit' /\ MutexHeld'
    BY <2>2 DEF IInv, Numbered, StartsFit, Starters, MutexHeld
  <2>7. LastReference' /\ ListAgreesWithGames'
    BY <2>2 DEF IInv, LastReference, ListAgreesWithGames, Owners, Listed
  <2>8. NoUseAfterDestruction' /\ OnlyWalksSee'
    BY <2>2, <2>4 DEF IInv, NoUseAfterDestruction, OnlyWalksSee, Listed
  <2> QED BY <2>5, <2>6, <2>7, <2>8 DEF IInv
<1> QED BY <1>1, <1>2

\* A word task or a join finds a game on the list.
LEMMA FoundKeeps ==
    ASSUME IInv, NEW w \in Workers, FindGame(w) \/ addPlayerToGame(w)
    PROVE  IInv'
<1>1. PICK id \in DOMAIN activeGames : game' = [game EXCEPT ![w] = activeGames[id]]
  BY DEF FindGame, addPlayerToGame
<1>2. PICK to \in {"check", "joining"} : at' = [at EXCEPT ![w] = to]
  BY DEF FindGame, addPlayerToGame, Goes
<1>3. /\ at[w] = "ready" /\ Excluding = {}
      /\ UNCHANGED <<activeGames, nextGameId, games, seen>>
  BY DEF FindGame, addPlayerToGame, CanShare, list
<1> DEFINE o == activeGames[id]
<1>4. \A v \in Workers : /\ at'[v] = IF v = w THEN to ELSE at[v]
                         /\ game'[v] = IF v = w THEN o ELSE game[v]
  BY <1>1, <1>2 DEF IInv, TypeOK
<1>5. o \in DOMAIN games /\ o \in 1..Len(games) /\ games[o].saves = 0 /\ Listed(o)
  BY DEF IInv, TypeOK, NoUseAfterDestruction, Listed
<1> HIDE DEF o
<1>6. TypeOK'
  <2>1. game' \in [Workers -> 0..Len(games)]
    BY <1>4, <1>1, <1>5 DEF IInv, TypeOK, o
  <2> QED BY <2>1, <1>2, <1>3, <1>4, <1>5 DEF IInv, TypeOK, NoGame
<1>7. Starters' \subseteq Starters
  BY <1>4 DEF Starters
<1>8. Numbered' /\ StartsFit'
  BY <1>3, <1>7, StartsStillFit DEF IInv, Numbered
<1>9. \A p : Owners(p) \subseteq Owners(p)' /\ Listed(p)' = Listed(p)
  BY <1>3, <1>4 DEF Owners, Listed
<1>10. \A p : p # o => Owners(p)' = Owners(p)
  BY <1>3, <1>4 DEF Owners
<1>11. MutexHeld' /\ NoUseAfterDestruction' /\ OnlyWalksSee'
  BY <1>3, <1>4, <1>5, <1>9 DEF IInv, MutexHeld, NoUseAfterDestruction, OnlyWalksSee, Listed, Excluding
<1>12. LastReference'
  BY <1>3, <1>4, <1>5, <1>9, <1>10 DEF IInv, LastReference
<1>13. ListAgreesWithGames'
  <2> SUFFICES ASSUME NEW p \in DOMAIN games'
               PROVE  Agrees(p)'
    BY DEF ListAgreesWithGames, Agrees
  <2>1. p \in DOMAIN games /\ games'[p] = games[p]
    BY <1>3
  <2>2. \A v \in Workers : at[v] \in {"storing", "erase"} => at'[v] = at[v] /\ game'[v] = game[v]
    BY <1>3, <1>4
  <2>3. ~Listed(p)' => p # o
    BY <1>5, <1>9
  <2> QED BY <2>1, <2>2, <2>3, <1>9, <1>10 DEF IInv, ListAgreesWithGames, Agrees, Owners
<1> QED BY <1>6, <1>8, <1>11, <1>12, <1>13 DEF IInv

\* A new game goes on the list under the next id.
LEMMA StartKeeps ==
    ASSUME IInv, NEW w \in Workers, startNewGame(w)
    PROVE  IInv'
<1> DEFINE n == nextGameId
<1>1. PICK u \in Users :
         games' = Append(games, [id |-> n, adminId |-> u, stop |-> FALSE, saves |-> 0])
  BY DEF startNewGame
<1>2. /\ activeGames' = [id \in DOMAIN activeGames \cup {n} |->
                            IF id = n THEN Len(games) + 1 ELSE activeGames[id]]
      /\ nextGameId' = n + 1 /\ at[w] = "start"
  BY DEF startNewGame
<1>3. /\ at' = [at EXCEPT ![w] = "idle"] /\ game' = [game EXCEPT ![w] = NoGame]
      /\ seen' = [seen EXCEPT ![w] = {}]
  BY DEF startNewGame, Ends, Goes
<1>4. \A v \in Workers : /\ at'[v] = IF v = w THEN "idle" ELSE at[v]
                         /\ game'[v] = IF v = w THEN NoGame ELSE game[v]
                         /\ seen'[v] = IF v = w THEN {} ELSE seen[v]
  BY <1>3 DEF IInv, TypeOK
<1>5. /\ games \in Seq(GameRecord)
      /\ Len(games) = n /\ n \in Nat
      /\ DOMAIN activeGames \subseteq 0..(n - 1)
  BY DEF IInv, TypeOK, Numbered, GameRecord
<1>6. /\ games' \in Seq(GameRecord)
      /\ Len(games') = n + 1 /\ DOMAIN games = 1..n /\ DOMAIN games' = 1..(n + 1)
      /\ \A o \in DOMAIN games : games'[o] = games[o]
      /\ games'[n + 1].id = n /\ ~games'[n + 1].stop /\ games'[n + 1].saves = 0
  BY <1>1, <1>5 DEF GameRecord
<1>7. /\ DOMAIN activeGames' = DOMAIN activeGames \cup {n}
      /\ activeGames'[n] = n + 1
      /\ \A id \in DOMAIN activeGames : id # n /\ activeGames'[id] = activeGames[id]
  BY <1>2, <1>5
<1> HIDE DEF n
<1>8. StartsFit' /\ n < MaxGames
  <2>1. w \in Starters /\ Starters' = Starters \ {w}
    BY <1>2, <1>4 DEF Starters
  <2>2. Cardinality(Starters') = Cardinality(Starters) - 1
    BY <2>1, StartersFinite, FS_RemoveElement
  <2>3. Starters # {} /\ Cardinality(Starters) # 0
    BY <2>1, StartersFinite, FS_EmptySet
  <2> QED BY <2>2, <2>3, <1>2, StartersFinite DEF IInv, TypeOK, StartsFit, n
<1>9. TypeOK'
  <2>1. nextGameId' \in 0..MaxGames /\ DOMAIN activeGames' \subseteq 0..(nextGameId' - 1)
    BY <1>2, <1>5, <1>7, <1>8
  <2>2. \A id \in DOMAIN activeGames' : activeGames'[id] \in DOMAIN games'
    BY <1>5, <1>6, <1>7 DEF IInv, TypeOK
  <2>3. game' \in [Workers -> 0..Len(games')]
    BY <1>3, <1>5, <1>6 DEF IInv, TypeOK, NoGame
  <2> QED BY <2>1, <2>2, <2>3, <1>2, <1>3, <1>4, <1>6 DEF IInv, TypeOK, NoGame, GameRecord
<1>10. Numbered'
  BY <1>2, <1>5, <1>6, <1>7 DEF IInv, Numbered
<1>11. \A o \in 1..n : Owners(o)' = Owners(o) /\ Listed(o)' = Listed(o)
  <2>1. \A o \in 1..n : Owners(o)' = Owners(o)
    BY <1>2, <1>4, <1>5 DEF Owners, NoGame
  <2>2. \A id \in DOMAIN activeGames' : id \in DOMAIN activeGames \/ activeGames'[id] = n + 1
    BY <1>7
  <2>3. \A o \in 1..n : Listed(o)' = Listed(o)
    BY <2>2, <1>5, <1>7 DEF Listed
  <2> QED BY <2>1, <2>3
<1>12. \A v \in Workers : at[v] \in {"storing", "check", "lookup", "erase", "release", "joining"} =>
          game[v] \in 1..n /\ v # w
  BY <1>2, <1>5 DEF IInv, TypeOK, NoGame
<1>13. MutexHeld'
  BY <1>4 DEF IInv, MutexHeld
<1>14. LastReference'
  <2>1. \A v \in Workers : at'[v] \in {"storing", "erase"} =>
          v # w /\ at'[v] = at[v] /\ game'[v] = game[v] /\ game[v] \in 1..n
    BY <1>4, <1>12
  <2>2. ASSUME NEW v \in Workers, at'[v] = "storing"
        PROVE  (~Listed(game[v]) /\ Owners(game[v]) = {})'
    <3>1. at[v] = "storing" /\ game'[v] = game[v] /\ game[v] \in 1..n
      BY <2>1, <2>2
    <3>2. PICK o \in 1..n : o = game[v]
      BY <3>1
    <3>3. ~Listed(o) /\ Owners(o) = {}
      BY <3>1, <3>2 DEF IInv, LastReference
    <3> QED BY <3>1, <3>2, <3>3, <1>11
  <2>3. ASSUME NEW v \in Workers, at'[v] = "erase"
        PROVE  games'[game'[v]].stop
    <3>1. at[v] = "erase" /\ game'[v] = game[v] /\ game[v] \in 1..n
      BY <2>1, <2>3
    <3>2. PICK o \in 1..n : o = game[v]
      BY <3>1
    <3>3. games[o].stop
      BY <3>1, <3>2 DEF IInv, LastReference
    <3> QED BY <3>1, <3>2, <3>3, <1>6
  <2> QED BY <2>2, <2>3 DEF LastReference
<1>15. NoUseAfterDestruction'
  <2>1. \A v \in Workers : game'[v] # NoGame => games'[game'[v]].saves = 0
    BY <1>4, <1>5, <1>6, <1>12 DEF IInv, TypeOK, NoUseAfterDestruction
  <2>2. \A v \in Workers : at'[v] = "joining" => Listed(game[v])'
    BY <1>4, <1>11, <1>12 DEF IInv, NoUseAfterDestruction
  <2>3. \A v \in Workers : seen'[v] \subseteq DOMAIN activeGames'
    BY <1>4, <1>7 DEF IInv, NoUseAfterDestruction
  <2>4. \A id \in DOMAIN activeGames' : games'[activeGames'[id]].saves = 0
    BY <1>6, <1>7 DEF IInv, TypeOK, NoUseAfterDestruction
  <2> QED BY <2>1, <2>2, <2>3, <2>4 DEF NoUseAfterDestruction, Listed
<1>16. OnlyWalksSee'
  BY <1>4 DEF IInv, OnlyWalksSee
<1>17. ListAgreesWithGames'
  <2> SUFFICES ASSUME NEW p \in DOMAIN games'
               PROVE  Agrees(p)'
    BY DEF ListAgreesWithGames, Agrees
  <2>1. CASE p = n + 1
    <3>1. Listed(p)'
      BY <2>1, <1>7 DEF Listed
    <3> QED BY <3>1, <2>1, <1>6 DEF Agrees
  <2>2. CASE p \in 1..n
    <3>1. p \in DOMAIN games /\ games'[p] = games[p]
      BY <2>2, <1>6
    <3>2. \A v \in Workers : at[v] \in {"storing", "erase"} => at'[v] = at[v] /\ game'[v] = game[v]
      BY <1>4, <1>2
    <3> QED BY <3>1, <3>2, <2>2, <1>11 DEF IInv, ListAgreesWithGames, Agrees, Owners
  <2> QED BY <2>1, <2>2, <1>5, <1>6
<1> QED BY <1>8, <1>9, <1>10, <1>13, <1>14, <1>15, <1>16, <1>17 DEF IInv

\* A word has ended its game.
LEMMA GameEndsKeeps ==
    ASSUME IInv, NEW w \in Workers, GameEnds(w)
    PROVE  IInv'
<1> DEFINE o == game[w]
<1>1. /\ at[w] = "lookup" /\ at' = [at EXCEPT ![w] = "erase"]
      /\ games' = [games EXCEPT ![o].stop = TRUE]
      /\ UNCHANGED <<activeGames, nextGameId, game, seen>>
  BY DEF GameEnds, Goes, list
<1>2. o \in DOMAIN games /\ games \in Seq(GameRecord)
  BY <1>1 DEF IInv, TypeOK, NoGame, GameRecord
<1>3. \A v \in Workers : at'[v] = IF v = w THEN "erase" ELSE at[v]
  BY <1>1 DEF IInv, TypeOK
<1>4. /\ games' \in Seq(GameRecord)
      /\ Len(games') = Len(games) /\ DOMAIN games' = DOMAIN games
      /\ \A p \in DOMAIN games : /\ games'[p].id = games[p].id
                                 /\ games'[p].saves = games[p].saves
                                 /\ games'[p].stop = (p = o \/ games[p].stop)
  BY <1>1, <1>2, StopSet
<1> HIDE DEF o
<1>5. TypeOK'
  BY <1>1, <1>3, <1>4 DEF IInv, TypeOK, GameRecord
<1>6. Starters' \subseteq Starters
  BY <1>3 DEF Starters
<1>7. Numbered' /\ StartsFit'
  BY <1>1, <1>4, <1>6, StartsStillFit DEF IInv, Numbered
<1>8. \A p : Owners(p)' = Owners(p) /\ Listed(p)' = Listed(p)
  BY <1>1, <1>3 DEF Owners, Listed
<1>9. \A v \in Workers : game[v] # NoGame => game[v] \in DOMAIN games
  BY DEF IInv, TypeOK, NoGame
<1>10. MutexHeld' /\ NoUseAfterDestruction' /\ OnlyWalksSee'
  <2>1. MutexHeld' /\ OnlyWalksSee'
    BY <1>1, <1>3 DEF IInv, MutexHeld, OnlyWalksSee
  <2>2. \A v \in Workers : at'[v] = "joining" => Listed(game[v])'
    BY <1>1, <1>3 DEF IInv, NoUseAfterDestruction, Listed
  <2>3. \A v \in Workers : game'[v] # NoGame => games'[game'[v]].saves = 0
    BY <1>1, <1>4, <1>9 DEF IInv, NoUseAfterDestruction
  <2>4. \A id \in DOMAIN activeGames' : games'[activeGames'[id]].saves = 0
    BY <1>1, <1>4 DEF IInv, TypeOK, NoUseAfterDestruction
  <2>5. \A v \in Workers : seen'[v] \subseteq DOMAIN activeGames'
    BY <1>1 DEF IInv, NoUseAfterDestruction
  <2> QED BY <2>1, <2>2, <2>3, <2>4, <2>5 DEF NoUseAfterDestruction, Listed
<1>11. LastReference'
  BY <1>1, <1>2, <1>3, <1>4, <1>8, <1>9 DEF IInv, TypeOK, LastReference, NoGame, o
<1>12. ListAgreesWithGames'
  <2> SUFFICES ASSUME NEW p \in DOMAIN games'
               PROVE  Agrees(p)'
    BY DEF ListAgreesWithGames, Agrees
  <2>1. \A v \in Workers : at[v] \in {"storing", "erase"} => at'[v] = at[v] /\ game'[v] = game[v]
    BY <1>1, <1>3
  <2>2. CASE p = o
    <3>1. w \in Owners(p)' /\ at'[w] = "erase"
      BY <2>2, <1>1, <1>3 DEF Owners, o
    <3> QED BY <3>1, <2>2, <1>4 DEF Agrees
  <2>3. CASE p # o
    <3>1. /\ p \in DOMAIN games /\ (games'[p].stop <=> games[p].stop)
          /\ games'[p].saves = games[p].saves
      BY <2>3, <1>4
    <3>2. ~Listed(p)' =>
            /\ games'[p].stop
            /\ Owners(p)' = {} =>
                 games'[p].saves = 1 \/ \E v \in Workers : at'[v] = "storing" /\ game'[v] = p
      BY <3>1, <2>1, <1>8 DEF IInv, ListAgreesWithGames
    <3>3. games'[p].stop /\ Listed(p)' => \E v \in Owners(p)' : at'[v] = "erase"
      BY <3>1, <2>1, <1>8 DEF IInv, ListAgreesWithGames, Owners
    <3> QED BY <3>2, <3>3 DEF Agrees
  <2> QED BY <2>2, <2>3
<1> QED BY <1>5, <1>7, <1>10, <1>11, <1>12 DEF IInv

\* The mutex is taken exclusively: no task walks, joins or stores.
LEMMA Alone ==
    ASSUME CanExclude
    PROVE  \A v \in Workers : at[v] \notin {"storing", "walking", "joining"}
BY DEF CanExclude, Excluding, Sharing

\* A game that is taken off the list is no more on it, and the others stay.
LEMMA WithoutOne ==
    ASSUME IInv, NEW id \in Nat, activeGames' = Without(id)
    PROVE  /\ DOMAIN activeGames' = DOMAIN activeGames \ {id}
           /\ \A i \in DOMAIN activeGames' : activeGames'[i] = activeGames[i]
           /\ \A o \in Nat : Listed(o)' <=> Listed(o) /\ o # id + 1
<1>1. /\ DOMAIN activeGames' = DOMAIN activeGames \ {id}
      /\ \A i \in DOMAIN activeGames' : activeGames'[i] = activeGames[i]
  BY DEF Without
<1>2. \A i \in DOMAIN activeGames : i \in Int /\ activeGames[i] = i + 1
  BY DEF IInv, TypeOK, Numbered
<1>3. ASSUME NEW o \in Nat PROVE Listed(o)' <=> Listed(o) /\ o # id + 1
  BY <1>1, <1>2 DEF Listed
<1> QED BY <1>1, <1>3

\* The admin stops a game, and destroys it if no word task owns it.
LEMMA StopKeeps ==
    ASSUME IInv, NEW w \in Workers, stopGame(w)
    PROVE  IInv'
<1>1. PICK id \in DOMAIN activeGames :
         /\ games' = [games EXCEPT ![activeGames[id]].stop = TRUE]
         /\ activeGames' = Without(id)
         /\ IF Owners(activeGames[id]) = {}
            THEN Goes(w, "storing") /\ game' = [game EXCEPT ![w] = activeGames[id]] /\ UNCHANGED seen
            ELSE Ends(w)
  BY DEF stopGame
<1>2. at[w] = "stop" /\ CanExclude /\ UNCHANGED nextGameId
  BY DEF stopGame
<1>o. PICK o : o = activeGames[id]
  OBVIOUS
<1>3. /\ id \in Nat /\ o = id + 1 /\ o \in DOMAIN games /\ o \in 1..Len(games)
      /\ games \in Seq(GameRecord) /\ Listed(o) /\ games[o].saves = 0
  BY <1>o DEF IInv, TypeOK, Numbered, GameRecord, Listed, NoUseAfterDestruction
<1>4. /\ games' \in Seq(GameRecord)
      /\ Len(games') = Len(games) /\ DOMAIN games' = DOMAIN games
      /\ \A p \in DOMAIN games : /\ games'[p].id = games[p].id
                                 /\ games'[p].saves = games[p].saves
                                 /\ games'[p].stop = (p = o \/ games[p].stop)
  BY <1>1, <1>3, <1>o, StopSet
<1>5. PICK to \in {"idle", "storing"} :
         /\ at' = [at EXCEPT ![w] = to]
         /\ to = "storing" <=> Owners(o) = {}
         /\ game' = [game EXCEPT ![w] = IF to = "storing" THEN o ELSE NoGame]
  BY <1>1, <1>o DEF Goes, Ends
<1>6. seen' = seen \/ seen' = [seen EXCEPT ![w] = {}]
  BY <1>1 DEF Ends
<1>7. \A v \in Workers :
         /\ at'[v] = IF v = w THEN to ELSE at[v]
         /\ game'[v] = IF v # w THEN game[v] ELSE IF to = "storing" THEN o ELSE NoGame
         /\ seen'[v] = seen[v] \/ seen'[v] = {}
  BY <1>5, <1>6 DEF IInv, TypeOK
<1>8. /\ DOMAIN activeGames' = DOMAIN activeGames \ {id}
      /\ \A i \in DOMAIN activeGames' : activeGames'[i] = activeGames[i]
      /\ \A p \in Nat : Listed(p)' <=> Listed(p) /\ p # o
  BY <1>1, <1>3, WithoutOne
<1>9. \A v \in Workers : at[v] \notin {"storing", "walking", "joining"}
  BY <1>2, Alone
<1>10. TypeOK'
  <2>1. game' \in [Workers -> 0..Len(games')]
    BY <1>3, <1>4, <1>5 DEF IInv, TypeOK, NoGame
  <2>2. seen' \in [Workers -> SUBSET Ids]
    BY <1>6 DEF IInv, TypeOK
  <2>3. \A v \in Workers : game'[v] # NoGame <=>
          at'[v] \in {"storing", "check", "lookup", "erase", "release", "joining"}
    BY <1>2, <1>3, <1>7 DEF IInv, TypeOK, NoGame
  <2>4. at' \in [Workers -> {"idle", "start", "stop", "ready", "storing", "check", "lookup",
                           "erase", "release", "walking", "joining"}]
    BY <1>5 DEF IInv, TypeOK
  <2> QED BY <2>1, <2>2, <2>3, <2>4, <1>2, <1>4, <1>8 DEF IInv, TypeOK, GameRecord
<1>11. Starters' \subseteq Starters
  BY <1>7 DEF Starters
<1>12. Numbered' /\ StartsFit'
  BY <1>2, <1>4, <1>8, <1>11, StartsStillFit DEF IInv, Numbered
<1>13. \A p : Owners(p)' = Owners(p)
  BY <1>2, <1>7 DEF Owners
<1>14. MutexHeld'
  BY <1>7, <1>9 DEF MutexHeld
<1>15. LastReference'
  <2>1. \A v \in Workers : at'[v] = "storing" =>
          game'[v] = o /\ ~Listed(o)' /\ Owners(o)' = {}
    BY <1>3, <1>5, <1>7, <1>8, <1>9, <1>13
  <2>2. \A v \in Workers : at'[v] = "erase" => at[v] = "erase" /\ game'[v] = game[v]
    BY <1>7
  <2>3. \A v \in Workers : at[v] = "erase" => game[v] \in DOMAIN games
    BY DEF IInv, TypeOK, NoGame
  <2> QED BY <2>1, <2>2, <2>3, <1>4 DEF IInv, LastReference
<1>16. NoUseAfterDestruction'
  <2>1. \A v \in Workers : game'[v] # NoGame => games'[game'[v]].saves = 0
    <3>1. \A v \in Workers : game[v] # NoGame => game[v] \in DOMAIN games /\ games[game[v]].saves = 0
      <4>1. \A v \in Workers : game[v] \in 0..Len(games) /\ DOMAIN games = 1..Len(games)
        BY <1>3 DEF IInv, TypeOK, NoGame
      <4>2. \A v \in Workers : game[v] # NoGame => games[game[v]].saves = 0
        BY DEF IInv, NoUseAfterDestruction
      <4> QED BY <4>1, <4>2 DEF NoGame
    <3> QED BY <3>1, <1>3, <1>4, <1>7
  <2>2. \A v \in Workers : at'[v] # "joining"
    BY <1>7, <1>9
  <2>3. \A v \in Workers : seen'[v] \subseteq DOMAIN activeGames'
    BY <1>7, <1>9 DEF IInv, OnlyWalksSee
  <2>4. \A i \in DOMAIN activeGames' : games'[activeGames'[i]].saves = 0
    <3>1. \A i \in DOMAIN activeGames : activeGames[i] \in DOMAIN games /\ games[activeGames[i]].saves = 0
      BY DEF IInv, TypeOK, NoUseAfterDestruction
    <3> QED BY <3>1, <1>4, <1>8
  <2> QED BY <2>1, <2>2, <2>3, <2>4 DEF NoUseAfterDestruction
<1>17. OnlyWalksSee'
  BY <1>7, <1>9 DEF IInv, OnlyWalksSee
<1>18. ListAgreesWithGames'
  <2> SUFFICES ASSUME NEW p \in DOMAIN games'
               PROVE  Agrees(p)'
    BY DEF ListAgreesWithGames, Agrees
  <2>1. p \in Nat /\ p \in DOMAIN games
    BY <1>3, <1>4
  <2>2. CASE p = o
    <3>1. ~Listed(o)' /\ games'[o].stop /\ games'[o].saves = 0 /\ Owners(o)' = Owners(o)
      BY <2>1, <2>2, <1>3, <1>4, <1>8, <1>13
    <3>2. Owners(o) = {} => at'[w] = "storing" /\ game'[w] = o
      BY <1>5, <1>7
    <3> QED BY <2>2, <3>1, <3>2 DEF Agrees
  <2>3. CASE p # o
    <3>1. /\ games'[p].stop <=> games[p].stop
          /\ games'[p].saves = games[p].saves /\ (Listed(p)' <=> Listed(p))
      BY <2>1, <2>3, <1>4, <1>8
    <3>2. \A v \in Workers : at[v] = "erase" => at'[v] = at[v]
      BY <1>2, <1>7
    <3> QED BY <3>1, <3>2, <2>1, <1>9, <1>13 DEF IInv, ListAgreesWithGames, Agrees, Owners
  <2> QED BY <2>2, <2>3
<1> QED BY <1>10, <1>12, <1>14, <1>15, <1>16, <1>17, <1>18 DEF IInv

\* The task of an ending word takes its game off the list.
LEMMA EraseKeeps ==
    ASSUME IInv, NEW w \in Workers, Erase(w)
    PROVE  IInv'
<1>o. PICK o : o = game[w]
  OBVIOUS
<1>1. /\ at[w] = "erase" /\ CanExclude /\ at' = [at EXCEPT ![w] = "release"]
      /\ activeGames' = Without(games[o].id)
      /\ UNCHANGED <<nextGameId, games, game, seen>>
  BY <1>o DEF Erase, Goes
<1>2. o \in DOMAIN games /\ o \in Nat /\ games[o].id \in Nat /\ o = games[o].id + 1 /\ games[o].stop
  <2>1. o \in DOMAIN games /\ games[o].stop
    BY <1>o, <1>1 DEF IInv, TypeOK, NoGame, LastReference
  <2>2. games \in Seq(GameRecord)
    BY DEF IInv, TypeOK, GameRecord
  <2>3. games[o].id = o - 1 /\ games[o] \in GameRecord /\ o \in Nat
    BY <2>1, <2>2 DEF IInv, Numbered
  <2> QED BY <2>1, <2>3 DEF GameRecord
<1>3. \A v \in Workers : at'[v] = IF v = w THEN "release" ELSE at[v]
  BY <1>1 DEF IInv, TypeOK
<1>4. /\ DOMAIN activeGames' = DOMAIN activeGames \ {games[o].id}
      /\ \A i \in DOMAIN activeGames' : activeGames'[i] = activeGames[i]
      /\ \A p \in Nat : Listed(p)' <=> Listed(p) /\ p # o
  <2>1. PICK id \in Nat : id = games[o].id
    BY <1>2
  <2>2. activeGames' = Without(id)
    BY <2>1, <1>1
  <2>3. /\ DOMAIN activeGames' = DOMAIN activeGames \ {id}
        /\ \A i \in DOMAIN activeGames' : activeGames'[i] = activeGames[i]
        /\ \A p \in Nat : Listed(p)' <=> Listed(p) /\ p # id + 1
    BY <2>2, WithoutOne
  <2> QED BY <2>1, <2>3, <1>2
<1>5. \A v \in Workers : at[v] \notin {"storing", "walking", "joining"}
  BY <1>1, Alone
<1>6. TypeOK'
  BY <1>1, <1>3, <1>4 DEF IInv, TypeOK
<1>7. Starters' \subseteq Starters
  BY <1>3 DEF Starters
<1>8. Numbered' /\ StartsFit'
  BY <1>1, <1>4, <1>7, StartsStillFit DEF IInv, Numbered
<1>9. \A p : Owners(p)' = Owners(p)
  BY <1>1, <1>3 DEF Owners
<1>10. MutexHeld' /\ LastReference' /\ OnlyWalksSee'
  <2>1. \A v \in Workers : at'[v] # "storing" /\ (at'[v] \in {"erase", "walking"} => at'[v] = at[v])
    BY <1>3, <1>5
  <2>2. \A v \in Workers : seen'[v] # {} => at[v] = "walking"
    BY <1>1 DEF IInv, OnlyWalksSee
  <2>3. \A v \in Workers : at'[v] = "erase" => games'[game'[v]].stop
    BY <2>1, <1>1 DEF IInv, LastReference
  <2> QED BY <2>1, <2>2, <2>3, <1>5 DEF MutexHeld, LastReference, OnlyWalksSee
<1>11. NoUseAfterDestruction'
  <2>1. \A v \in Workers : at'[v] # "joining" /\ seen'[v] = {}
    BY <1>1, <1>3, <1>5 DEF IInv, OnlyWalksSee
  <2> QED BY <2>1, <1>1, <1>4 DEF IInv, NoUseAfterDestruction
<1>12. ListAgreesWithGames'
  <2> SUFFICES ASSUME NEW p \in DOMAIN games'
               PROVE  Agrees(p)'
    BY DEF ListAgreesWithGames, Agrees
  <2>1. p \in DOMAIN games /\ p \in Nat /\ games' = games
    BY <1>1 DEF IInv, TypeOK
  <2>2. CASE p = o
    <3>1. w \in Owners(p)' /\ ~Listed(p)'
      BY <2>1, <2>2, <1>o, <1>1, <1>3, <1>4 DEF Owners
    <3> QED BY <3>1, <2>1, <2>2, <1>2 DEF Agrees
  <2>3. CASE p # o
    <3>1. Listed(p)' <=> Listed(p)
      BY <2>1, <2>3, <1>4
    <3>2. \A v \in Owners(p) : at[v] = "erase" => at'[v] = "erase"
      BY <2>3, <1>o, <1>3 DEF Owners
    <3> QED BY <3>1, <3>2, <2>1, <1>5, <1>9 DEF IInv, ListAgreesWithGames, Agrees
  <2> QED BY <2>2, <2>3
<1> QED BY <1>6, <1>8, <1>10, <1>11, <1>12 DEF IInv

\* The game that is destroyed has no other task.
LEMMA StoreKeeps ==
    ASSUME IInv, NEW w \in Workers, Store(w)
    PROVE  IInv'
<1>o. PICK o : o = game[w]
  OBVIOUS
<1>1. /\ at[w] = "storing" /\ saveStats(o) /\ UNCHANGED <<activeGames, nextGameId>>
      /\ at' = [at EXCEPT ![w] = "idle"] /\ game' = [game EXCEPT ![w] = NoGame]
      /\ seen' = [seen EXCEPT ![w] = {}]
  BY <1>o DEF Store, Ends, Goes, list
<1>2. o \in DOMAIN games /\ o # NoGame /\ games \in Seq(GameRecord) /\ games[o].saves = 0
  BY <1>o, <1>1 DEF IInv, TypeOK, NoGame, NoUseAfterDestruction, GameRecord
<1>3. /\ games' \in Seq(GameRecord)
      /\ Len(games') = Len(games) /\ DOMAIN games' = DOMAIN games
      /\ \A p \in DOMAIN games :
            /\ games'[p].id = games[p].id /\ games'[p].stop = games[p].stop
            /\ games'[p].saves = IF p = o THEN games[p].saves + 1 ELSE games[p].saves
  BY <1>1, <1>2, Saved
<1>4. \A v \in Workers : /\ at'[v] = IF v = w THEN "idle" ELSE at[v]
                         /\ game'[v] = IF v = w THEN NoGame ELSE game[v]
                         /\ seen'[v] = IF v = w THEN {} ELSE seen[v]
  BY <1>1 DEF IInv, TypeOK
<1>5. ~Listed(o) /\ Owners(o) = {}
  BY <1>o, <1>1 DEF IInv, LastReference
<1>6. \A v \in Workers : v # w /\ game[v] # NoGame => game[v] # o /\ game[v] \in DOMAIN games
  <2> SUFFICES ASSUME NEW v \in Workers, v # w, game[v] # NoGame
               PROVE  game[v] # o /\ game[v] \in DOMAIN games
    OBVIOUS
  <2>1. at[v] \in {"check", "lookup", "erase", "release"}
    BY <1>1 DEF IInv, TypeOK, MutexHeld
  <2>2. v \notin Owners(o)
    BY <1>5
  <2> QED BY <2>1, <2>2 DEF Owners, IInv, TypeOK, NoGame
<1>7. \A p : Listed(p)' <=> Listed(p)
  BY <1>1 DEF Listed
<1>8. \A p : Owners(p)' = Owners(p)
  BY <1>1, <1>4 DEF Owners
<1>9. TypeOK'
  BY <1>1, <1>3, <1>4 DEF IInv, TypeOK, GameRecord, NoGame
<1>10. Starters' \subseteq Starters
  BY <1>4 DEF Starters
<1>11. Numbered' /\ StartsFit'
  BY <1>1, <1>3, <1>10, StartsStillFit DEF IInv, Numbered
<1>12. MutexHeld' /\ OnlyWalksSee'
  BY <1>4 DEF IInv, MutexHeld, OnlyWalksSee
<1>13. LastReference'
  <2>1. \A v \in Workers : at'[v] \in {"storing", "erase"} =>
          v # w /\ at'[v] = at[v] /\ game'[v] = game[v] /\ game[v] # NoGame
    BY <1>4 DEF IInv, TypeOK
  <2> QED BY <2>1, <1>3, <1>6, <1>7, <1>8 DEF IInv, LastReference
<1>14. NoUseAfterDestruction'
  <2>1. \A v \in Workers : game'[v] # NoGame => games'[game'[v]].saves = 0
    BY <1>3, <1>4, <1>6 DEF IInv, NoUseAfterDestruction
  <2>2. \A v \in Workers : at'[v] = "joining" => Listed(game[v])'
    BY <1>4, <1>7 DEF IInv, NoUseAfterDestruction, Listed
  <2>3. \A v \in Workers : at'[v] = "joining" => game'[v] = game[v]
    BY <1>4
  <2>4. \A v \in Workers : seen'[v] \subseteq DOMAIN activeGames'
    BY <1>1, <1>4 DEF IInv, NoUseAfterDestruction
  <2>5. \A id \in DOMAIN activeGames' : games'[activeGames'[id]].saves = 0
    BY <1>1, <1>3, <1>5 DEF IInv, TypeOK, NoUseAfterDestruction, Listed
  <2> QED BY <2>1, <2>2, <2>3, <2>4, <2>5 DEF NoUseAfterDestruction, Listed
<1>15. ListAgreesWithGames'
  <2> SUFFICES ASSUME NEW p \in DOMAIN games'
               PROVE  Agrees(p)'
    BY DEF ListAgreesWithGames, Agrees
  <2>1. p \in DOMAIN games /\ (games'[p].stop <=> games[p].stop)
    BY <1>3
  <2>2. CASE p = o
    BY <2>1, <2>2, <1>2, <1>3, <1>5, <1>7 DEF IInv, ListAgreesWithGames, Agrees
  <2>3. CASE p # o
    <3>1. games'[p].saves = games[p].saves
      BY <2>1, <2>3, <1>3
    <3>2. \A v \in Workers : game[v] = p => game'[v] = p /\ at'[v] = at[v]
      BY <2>3, <1>o, <1>4
    <3> QED BY <3>1, <3>2, <2>1, <1>7, <1>8 DEF IInv, ListAgreesWithGames, Agrees, Owners
  <2> QED BY <2>2, <2>3
<1> QED BY <1>9, <1>11, <1>12, <1>13, <1>14, <1>15 DEF IInv

\* A word task lets go of its game, and destroys it if it was the last to own it.
LEMMA ReleaseKeeps ==
    ASSUME IInv, NEW w \in Workers, Release(w)
    PROVE  IInv'
<1>o. PICK o : o = game[w]
  OBVIOUS
<1>1. /\ at[w] = "release" /\ UNCHANGED <<activeGames, nextGameId>>
      /\ at' = [at EXCEPT ![w] = "idle"] /\ game' = [game EXCEPT ![w] = NoGame]
      /\ seen' = [seen EXCEPT ![w] = {}]
      /\ IF Owners(o) = {w} /\ ~Listed(o) THEN saveStats(o) ELSE UNCHANGED games
  BY <1>o DEF Release, Ends, Goes, list
<1>2. /\ o \in DOMAIN games /\ o # NoGame /\ games \in Seq(GameRecord) /\ games[o].saves = 0
      /\ w \in Owners(o)
  BY <1>o, <1>1 DEF IInv, TypeOK, NoGame, NoUseAfterDestruction, GameRecord, Owners
<1>3. PICK n \in {0, 1} :
         /\ n = 1 <=> Owners(o) = {w} /\ ~Listed(o)
         /\ games' \in Seq(GameRecord)
         /\ Len(games') = Len(games) /\ DOMAIN games' = DOMAIN games
         /\ \A p \in DOMAIN games :
               /\ games'[p].id = games[p].id /\ games'[p].stop = games[p].stop
               /\ games'[p].saves = IF p = o THEN n ELSE games[p].saves
  <2>1. CASE Owners(o) = {w} /\ ~Listed(o)
    BY <2>1, <1>1, <1>2, Saved
  <2>2. CASE ~(Owners(o) = {w} /\ ~Listed(o))
    BY <2>2, <1>1, <1>2
  <2> QED BY <2>1, <2>2
<1>4. \A v \in Workers : /\ at'[v] = IF v = w THEN "idle" ELSE at[v]
                         /\ game'[v] = IF v = w THEN NoGame ELSE game[v]
                         /\ seen'[v] = IF v = w THEN {} ELSE seen[v]
  BY <1>1 DEF IInv, TypeOK
<1>5. ASSUME n = 1, NEW v \in Workers, v # w, game[v] # NoGame
      PROVE  game[v] # o
  <2>1. at[v] \in {"storing", "joining", "check", "lookup", "erase", "release"}
    BY <1>5 DEF IInv, TypeOK
  <2>2. CASE at[v] = "storing"
    BY <2>2, <1>2 DEF IInv, LastReference
  <2>3. CASE at[v] = "joining"
    BY <2>3, <1>3, <1>5 DEF IInv, NoUseAfterDestruction
  <2>4. CASE at[v] \in {"check", "lookup", "erase", "release"}
    BY <2>4, <1>3, <1>5 DEF Owners
  <2> QED BY <2>1, <2>2, <2>3, <2>4
<1>6. \A v \in Workers : game[v] # NoGame => game[v] \in DOMAIN games
  BY DEF IInv, TypeOK, NoGame
<1>7. \A p : Listed(p)' <=> Listed(p)
  BY <1>1 DEF Listed
<1>8. /\ \A p \in Nat : p # o => Owners(p)' = Owners(p)
      /\ Owners(o)' = Owners(o) \ {w}
  BY <1>o, <1>1, <1>2, <1>4 DEF Owners, NoGame
<1>9. TypeOK'
  BY <1>1, <1>3, <1>4 DEF IInv, TypeOK, GameRecord, NoGame
<1>10. Starters' \subseteq Starters
  BY <1>4 DEF Starters
<1>11. Numbered' /\ StartsFit'
  BY <1>1, <1>3, <1>10, StartsStillFit DEF IInv, Numbered
<1>12. MutexHeld' /\ OnlyWalksSee'
  BY <1>4 DEF IInv, MutexHeld, OnlyWalksSee
<1>13. LastReference'
  <2>1. \A v \in Workers : at'[v] \in {"storing", "erase"} =>
          v # w /\ at'[v] = at[v] /\ game'[v] = game[v] /\ game[v] # NoGame
    BY <1>4 DEF IInv, TypeOK
  <2>2. \A v \in Workers : at[v] = "storing" => game[v] # o
    BY <1>2 DEF IInv, LastReference
  <2>3. \A v \in Workers : game[v] \in Nat
    BY DEF IInv, TypeOK
  <2> QED BY <2>1, <2>2, <2>3, <1>3, <1>6, <1>7, <1>8 DEF IInv, LastReference
<1>14. NoUseAfterDestruction'
  <2>1. \A v \in Workers : game'[v] # NoGame => games'[game'[v]].saves = 0
    BY <1>3, <1>4, <1>5, <1>6 DEF IInv, NoUseAfterDestruction
  <2>2. \A v \in Workers : at'[v] = "joining" => Listed(game[v])'
    BY <1>4, <1>7 DEF IInv, NoUseAfterDestruction, Listed
  <2>3. \A v \in Workers : at'[v] = "joining" => game'[v] = game[v]
    BY <1>4
  <2>4. \A v \in Workers : seen'[v] \subseteq DOMAIN activeGames'
    BY <1>1, <1>4 DEF IInv, NoUseAfterDestruction
  <2>5. \A id \in DOMAIN activeGames' : games'[activeGames'[id]].saves = 0
    BY <1>1, <1>3 DEF IInv, TypeOK, NoUseAfterDestruction, Listed
  <2> QED BY <2>1, <2>2, <2>3, <2>4, <2>5 DEF NoUseAfterDestruction, Listed
<1>15. ListAgreesWithGames'
  <2> SUFFICES ASSUME NEW p \in DOMAIN games'
               PROVE  Agrees(p)'
    BY DEF ListAgreesWithGames, Agrees
  <2>1. p \in DOMAIN games /\ p \in Nat /\ (games'[p].stop <=> games[p].stop)
    BY <1>3
  <2>2. CASE p = o
    <3>1. \A v \in Owners(o) : at[v] = "erase" => v \in Owners(o)' /\ at'[v] = "erase"
      BY <1>1, <1>4, <1>8 DEF Owners
    <3>2. ~Listed(o) /\ Owners(o)' = {} => games'[o].saves = 1
      BY <2>2, <2>1, <1>2, <1>3, <1>8
    <3> QED BY <3>1, <3>2, <2>1, <2>2, <1>2, <1>7 DEF IInv, ListAgreesWithGames, Agrees
  <2>3. CASE p # o
    <3>1. games'[p].saves = games[p].saves
      BY <2>1, <2>3, <1>3
    <3>2. \A v \in Workers : game[v] = p => game'[v] = p /\ at'[v] = at[v]
      BY <2>3, <1>o, <1>4
    <3> QED BY <3>1, <3>2, <2>1, <2>3, <1>7, <1>8 DEF IInv, ListAgreesWithGames, Agrees, Owners
  <2> QED BY <2>2, <2>3
<1> QED BY <1>9, <1>11, <1>12, <1>13, <1>14, <1>15 DEF IInv

-----------------------------------------------------------------------------
(* The theorems. *)

LEMMA InitHolds == Init => IInv
<1> SUFFICES ASSUME Init PROVE IInv
  OBVIOUS
<1>1. DOMAIN activeGames = {} /\ games = <<>> /\ DOMAIN games = {} /\ Len(games) = 0
  BY DEF Init
<1>2. Starters = {} /\ Cardinality(Starters) = 0
  BY FS_EmptySet DEF Init, Starters
<1>3. TypeOK
  BY <1>1 DEF Init, TypeOK, NoGame
<1>4. Numbered /\ StartsFit
  BY <1>1, <1>2 DEF Init, Numbered, StartsFit
<1>5. MutexHeld /\ LastReference /\ OnlyWalksSee
  BY DEF Init, MutexHeld, LastReference, OnlyWalksSee
<1>6. NoUseAfterDestruction /\ ListAgreesWithGames
  BY <1>1 DEF Init, NoUseAfterDestruction, ListAgreesWithGames
<1> QED BY <1>3, <1>4, <1>5, <1>6 DEF IInv

LEMMA StepKeeps == IInv /\ [Next]_vars => IInv'
<1> SUFFICES ASSUME IInv, [Next]_vars PROVE IInv'
  OBVIOUS
<1>1. ASSUME NEW w \in Workers, Begin(w) PROVE IInv'
  BY <1>1, BeginKeeps
<1>2. ASSUME NEW w \in Workers, Exclusive(w) PROVE IInv'
  <2>1. CASE StopRefused(w)
    BY <2>1, EndKeeps DEF StopRefused
  <2> QED BY <2>1, <1>2, StartKeeps, StopKeeps, EraseKeeps DEF Exclusive
<1>3. ASSUME NEW w \in Workers, Step(w) PROVE IInv'
  <2>1. CASE GameNotFound(w) \/ EndWalk(w) \/ getGameInfo(w) \/ JoinMissed(w) \/ OnJoin(w)
    BY <2>1, EndKeeps DEF GameNotFound, EndWalk, getGameInfo, JoinMissed, OnJoin
  <2> QED BY <2>1, <1>3, StoreKeeps, FoundKeeps, WordKeeps, GameEndsKeeps, ReleaseKeeps, WalkKeeps
       DEF Step
<1>4. CASE UNCHANGED vars
  <2>1. UNCHANGED <<activeGames, nextGameId, games, at, game, seen>>
    BY <1>4 DEF vars, list, task
  <2>2. TypeOK' /\ Numbered' /\ StartsFit' /\ MutexHeld'
    BY <2>1 DEF IInv, TypeOK, Numbered, StartsFit, Starters, MutexHeld
  <2>3. LastReference' /\ OnlyWalksSee' /\ NoUseAfterDestruction' /\ ListAgreesWithGames'
    BY <2>1
       DEF IInv, LastReference, OnlyWalksSee, NoUseAfterDestruction, ListAgreesWithGames, Owners, Listed
  <2> QED BY <2>2, <2>3 DEF IInv
<1> QED BY <1>1, <1>2, <1>3, <1>4 DEF Next

\* A step moves the worker that makes it.
LEMMA OthersStay ==
    ASSUME IInv, NEW v \in Workers, Begin(v) \/ Exclusive(v) \/ Step(v),
           NEW w \in Workers \ {v}
    PROVE  at'[w] = at[w]
<1>1. CASE Begin(v) \/ Exclusive(v)
  BY <1>1 DEF IInv, TypeOK, Begin, Exclusive, startNewGame, StopRefused, stopGame, Erase, Ends, Goes
<1>2. CASE Step(v)
  <2>1. CASE Store(v) \/ GameNotFound(v) \/ Release(v) \/ EndWalk(v) \/ getGameInfo(v)
             \/ JoinMissed(v) \/ OnJoin(v)
    BY <2>1 DEF IInv, TypeOK, Store, GameNotFound, Release, EndWalk, getGameInfo, JoinMissed,
                OnJoin, Ends, Goes
  <2>2. CASE FindGame(v) \/ Check(v) \/ GameGoesOn(v) \/ GameEnds(v) \/ getActiveGames(v)
             \/ WalkOn(v) \/ addPlayerToGame(v)
    BY <2>2 DEF IInv, TypeOK, FindGame, Check, GameGoesOn, GameEnds, getActiveGames, WalkOn,
                addPlayerToGame, Goes
  <2> QED BY <2>1, <2>2, <1>2 DEF Step
<1> QED BY <1>1, <1>2

LEMMA Always == Spec => []IInv
BY InitHolds, StepKeeps, PTL DEF Spec

\* Every variable of the controller keeps its type; an id on the list leads to an
\* object that exists (activeGames_, games_controller.hpp).
THEOREM ControllerTypes == Spec => []TypeOK
<1>1. IInv => TypeOK
  BY DEF IInv
<1> QED BY <1>1, Always, PTL

\* No word task, join or walk touches a game whose destructor has run, however many
\* tasks there are: a join has no reference of its own and relies on the shared lock
\* it holds (games_controller.cpp:138).
THEOREM GamesOutliveTheirTasks == Spec => []NoUseAfterDestruction
<1>1. IInv => NoUseAfterDestruction
  BY DEF IInv
<1> QED BY <1>1, Always, PTL

\* A game off the list is stopped, and stored once its last task is gone; a stopped
\* one on the list has a task that takes it off (stopGame and handleWord).
THEOREM NoGameForgotten == Spec => []ListAgreesWithGames
<1>1. IInv => ListAgreesWithGames
  BY DEF IInv
<1> QED BY <1>1, Always, PTL

\* getActiveGames answers with the games there are when it lets go of the mutex,
\* although it looks at one after the other (games_controller.cpp:96).
THEOREM WalkSeesOneMoment == Spec => ListIsOneMoment
<1>1. ASSUME IInv, [Next]_vars, NEW w \in Workers, at[w] = "walking", at'[w] = "idle"
      PROVE  seen[w] = DOMAIN activeGames
  <2>1. ~UNCHANGED vars
    BY <1>1 DEF vars, task
  <2>2. PICK v \in Workers : Begin(v) \/ Exclusive(v) \/ Step(v)
    BY <1>1, <2>1 DEF Next
  <2>3. v = w
    BY <1>1, <2>2, OthersStay
  <2>4. EndWalk(w) \/ WalkOn(w)
    BY <1>1, <2>2, <2>3
       DEF Begin, Exclusive, startNewGame, StopRefused, stopGame, Erase, Step, Store, GameNotFound,
           FindGame, Check, GameGoesOn, GameEnds, Release, getActiveGames, getGameInfo, JoinMissed,
           addPlayerToGame, OnJoin
  <2>5. EndWalk(w)
    BY <1>1, <2>4 DEF WalkOn
  <2> QED BY <1>1, <2>5 DEF EndWalk, IInv, NoUseAfterDestruction
<1>2. IInv /\ [Next]_vars =>
        [\A w \in Workers :
            at[w] = "walking" /\ at'[w] = "idle" => seen[w] = DOMAIN activeGames]_vars
  BY <1>1
<1> QED BY <1>2, Always, PTL DEF Spec, ListIsOneMoment

-----------------------------------------------------------------------------
(* The controller implements the lobby. *)

\* A step that leaves the list and the saves alone is none of the lobby's.
LEMMA LobbyStutters ==
    ASSUME UNCHANGED <<activeGames, nextGameId>>, DOMAIN games' = DOMAIN games,
           \A o \in DOMAIN games : games'[o].id = games[o].id /\ games'[o].saves = games[o].saves
    PROVE  UNCHANGED TheLobby!lobby
<1>1. Saves' = Saves
  BY DEF Saves
<1> QED BY <1>1 DEF TheLobby!lobby

\* The destructor of a game, wherever it runs, stores it in the lobby.
LEMMA SaveIsStore ==
    ASSUME IInv, NEW o \in DOMAIN games, ~Listed(o), games[o].saves = 0,
           saveStats(o), UNCHANGED <<activeGames, nextGameId>>
    PROVE  TheLobby!Next
<1>1. PICK id : id = games[o].id
  OBVIOUS
<1>2. /\ games \in Seq(GameRecord) /\ o \in 1..nextGameId /\ nextGameId \in Nat
      /\ id = o - 1 /\ id \in 0..nextGameId /\ id < nextGameId
      /\ \A p \in DOMAIN games : games[p].id = p - 1 /\ p \in Nat
      /\ \A p \in DOMAIN games : games[p].saves \in Nat
  <2>1. games \in Seq(GameRecord) /\ nextGameId \in Nat /\ Len(games) = nextGameId
        /\ \A p \in DOMAIN games : games[p].id = p - 1
    BY DEF IInv, TypeOK, Numbered, GameRecord
  <2>2. \A p \in DOMAIN games : games[p] \in GameRecord /\ p \in 1..nextGameId
    BY <2>1
  <2> QED BY <2>1, <2>2, <1>1 DEF GameRecord
<1>3. id \notin DOMAIN activeGames
  BY <1>2, ListedById DEF IInv
<1>4. id + 1 = o /\ Saves[id + 1] = 0
  BY <1>2 DEF Saves
<1>5. Saves' = [Saves EXCEPT ![id + 1] = 1]
  <2>1. /\ DOMAIN games' = DOMAIN games
        /\ \A p \in DOMAIN games :
              games'[p].saves = IF p = o THEN games[p].saves + 1 ELSE games[p].saves
    BY <1>2, Saved
  <2>2. \A p \in DOMAIN games : games'[p].saves = IF p = o THEN 1 ELSE games[p].saves
    BY <2>1
  <2> QED BY <1>4, <2>1, <2>2 DEF Saves
<1>6. TheLobby!Store(id)
  BY <1>2, <1>3, <1>4, <1>5 DEF TheLobby!Store
<1> QED BY <1>2, <1>6 DEF TheLobby!Next

\* A game that is stopped, or has ended and is still listed, closes.
LEMMA WithoutIsClose ==
    ASSUME IInv, NEW id \in Nat, activeGames' = Without(id), UNCHANGED nextGameId,
           DOMAIN games' = DOMAIN games,
           \A o \in DOMAIN games : games'[o].id = games[o].id /\ games'[o].saves = games[o].saves
    PROVE  [TheLobby!Next]_TheLobby!lobby
<1>1. Saves' = Saves
  BY DEF Saves
<1>2. DOMAIN activeGames' = DOMAIN activeGames \ {id}
  BY WithoutOne
<1>3. CASE id \in DOMAIN activeGames
  <2>1. TheLobby!Close(id)
    BY <1>1, <1>2, <1>3 DEF TheLobby!Close
  <2>2. id \in 0..nextGameId
    BY <1>3 DEF IInv, TypeOK
  <2> QED BY <2>1, <2>2 DEF TheLobby!Next
<1>4. CASE id \notin DOMAIN activeGames
  BY <1>1, <1>2, <1>4 DEF TheLobby!lobby
<1> QED BY <1>3, <1>4

LEMMA StartIsOpen ==
    ASSUME IInv, NEW w \in Workers, startNewGame(w)
    PROVE  TheLobby!Next
<1>1. PICK u \in Users :
         games' = Append(games, [id |-> nextGameId, adminId |-> u, stop |-> FALSE, saves |-> 0])
  BY DEF startNewGame
<1>2. DOMAIN activeGames' = DOMAIN activeGames \cup {nextGameId} /\ nextGameId' = nextGameId + 1
  BY DEF startNewGame
<1>3. games \in Seq(GameRecord) /\ \A p \in DOMAIN games : games'[p] = games[p]
  BY <1>1 DEF IInv, TypeOK, GameRecord
<1>4. /\ DOMAIN games' = DOMAIN games \cup {Len(games) + 1}
      /\ games'[Len(games) + 1].saves = 0
  BY <1>1, <1>3
<1>5. \A p \in 1..Len(games) : games[p].saves \in Nat
  <2>1. \A p \in 1..Len(games) : games[p] \in GameRecord
    BY <1>3
  <2> QED BY <2>1 DEF GameRecord
<1>6. PICK n \in Nat : n = Len(games) /\ DOMAIN games = 1..n /\ DOMAIN games' = 1..(n + 1)
  BY <1>3, <1>4
<1>7. PICK before : before = Saves
  OBVIOUS
<1>8. before = [p \in 1..n |-> games[p].saves]
  BY <1>6, <1>7 DEF Saves
<1>9. before \in Seq(Nat) /\ Len(before) = n
  BY <1>5, <1>6, <1>8
<1>10. Append(before, 0) = [p \in 1..(n + 1) |-> IF p = n + 1 THEN 0 ELSE before[p]]
  <2>1. PICK after : after = Append(before, 0)
    OBVIOUS
  <2>2. after \in Seq(Nat) /\ Len(after) = n + 1
    BY <1>9, <2>1
  <2>3. \A p \in 1..(n + 1) : after[p] = IF p = n + 1 THEN 0 ELSE before[p]
    BY <1>9, <2>1
  <2>4. after = [p \in 1..(n + 1) |-> after[p]]
    BY <2>2
  <2> QED BY <2>1, <2>3, <2>4
<1>11. Saves' = [p \in 1..(n + 1) |-> IF p = n + 1 THEN 0 ELSE before[p]]
  <2>1. \A p \in 1..(n + 1) : games'[p].saves = IF p = n + 1 THEN 0 ELSE before[p]
    <3>1. ASSUME NEW p \in 1..(n + 1), p # n + 1
          PROVE  games'[p] = games[p] /\ before[p] = games[p].saves
      <4>1. p \in 1..n
        BY <1>6, <3>1
      <4> QED BY <1>3, <1>6, <1>8, <4>1
    <3> QED BY <1>4, <1>6, <3>1
  <2> QED BY <1>6, <2>1 DEF Saves
<1>12. Saves' = Append(Saves, 0)
  BY <1>7, <1>10, <1>11
<1> QED BY <1>2, <1>12 DEF TheLobby!Next, TheLobby!Open

LEMMA LobbyStep ==
    ASSUME IInv, [Next]_vars
    PROVE  [TheLobby!Next]_TheLobby!lobby
<1>0. games \in Seq(GameRecord)
  BY DEF IInv, TypeOK, GameRecord
<1>1. CASE UNCHANGED <<activeGames, nextGameId, games>>
  BY <1>1, LobbyStutters
<1>2. ASSUME NEW w \in Workers, startNewGame(w) PROVE TheLobby!Next
  BY <1>2, StartIsOpen
<1>3. ASSUME NEW w \in Workers, stopGame(w) PROVE [TheLobby!Next]_TheLobby!lobby
  <2>1. PICK id \in DOMAIN activeGames :
           games' = [games EXCEPT ![activeGames[id]].stop = TRUE] /\ activeGames' = Without(id)
    BY <1>3 DEF stopGame
  <2>2. activeGames[id] \in DOMAIN games /\ id \in Nat
    BY DEF IInv, TypeOK
  <2>3. /\ DOMAIN games' = DOMAIN games
        /\ \A o \in DOMAIN games : games'[o].id = games[o].id /\ games'[o].saves = games[o].saves
    BY <1>0, <2>1, <2>2, StopSet
  <2>4. UNCHANGED nextGameId
    BY <1>3 DEF stopGame
  <2> QED BY <2>1, <2>2, <2>3, <2>4, WithoutIsClose
<1>4. ASSUME NEW w \in Workers, Erase(w) PROVE [TheLobby!Next]_TheLobby!lobby
  <2>1. activeGames' = Without(games[game[w]].id) /\ UNCHANGED <<nextGameId, games>>
    BY <1>4 DEF Erase
  <2>2. game[w] \in DOMAIN games
    BY <1>4 DEF Erase, IInv, TypeOK, NoGame
  <2>3. games[game[w]] \in GameRecord
    BY <1>0, <2>2
  <2>4. games[game[w]].id \in Nat
    BY <2>3 DEF GameRecord
  <2> QED BY <2>1, <2>4, WithoutIsClose
<1>5. ASSUME NEW w \in Workers, GameEnds(w) PROVE UNCHANGED TheLobby!lobby
  <2>1. game[w] \in DOMAIN games
    BY <1>5 DEF GameEnds, IInv, TypeOK, NoGame
  <2>2. games' = [games EXCEPT ![game[w]].stop = TRUE] /\ UNCHANGED <<activeGames, nextGameId>>
    BY <1>5 DEF GameEnds, list
  <2>3. PICK o \in DOMAIN games : o = game[w]
    BY <2>1
  <2> QED BY <1>0, <2>2, <2>3, StopSet, LobbyStutters
<1>6. ASSUME NEW w \in Workers, Store(w) \/ Release(w) PROVE [TheLobby!Next]_TheLobby!lobby
  <2>1. PICK o : o = game[w]
    OBVIOUS
  <2>2. o \in DOMAIN games /\ games[o].saves = 0 /\ UNCHANGED <<activeGames, nextGameId>>
    BY <1>6, <2>1 DEF Store, Release, list, IInv, TypeOK, NoGame, NoUseAfterDestruction
  <2>3. UNCHANGED games \/ (saveStats(o) /\ ~Listed(o))
    BY <1>6, <2>1 DEF Store, Release, IInv, LastReference
  <2> QED BY <2>2, <2>3, SaveIsStore, LobbyStutters
<1>7. \/ UNCHANGED <<activeGames, nextGameId, games>>
      \/ \E w \in Workers : startNewGame(w) \/ stopGame(w) \/ Erase(w) \/ GameEnds(w)
                            \/ Store(w) \/ Release(w)
  BY DEF Next, vars, list, Begin, Exclusive, StopRefused, Step, GameNotFound, FindGame, Check,
         GameGoesOn, getActiveGames, WalkOn, EndWalk, getGameInfo, JoinMissed, addPlayerToGame, OnJoin
<1> QED BY <1>1, <1>2, <1>3, <1>4, <1>5, <1>6, <1>7

\* Tasks, references and the mutex are no concern of the clients: ids come in order
\* and once, no game opens again and none is stored twice, or before it is closed
\* (games_controller.cpp, and ~GameSession).
THEOREM LobbyRefinement == Spec => ImplementsLobby
<1>1. Init => TheLobby!Init
  <2> SUFFICES ASSUME Init PROVE TheLobby!Init
    OBVIOUS
  <2>1. DOMAIN activeGames = {} /\ nextGameId = 0 /\ DOMAIN games = {}
    BY DEF Init
  <2>2. Saves = <<>>
    BY <2>1 DEF Saves, Init
  <2> QED BY <2>1, <2>2 DEF TheLobby!Init
<1>2. IInv /\ [Next]_vars => [TheLobby!Next]_TheLobby!lobby
  BY LobbyStep
<1> QED BY <1>1, <1>2, Always, PTL DEF Spec, ImplementsLobby, TheLobby!Spec
=============================================================================
