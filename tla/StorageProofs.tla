---------------------------- MODULE StorageProofs ----------------------------
(***************************************************************************)
(* Proofs about the database, for any workers, nicknames and games and any *)
(* number of kills: ids are answered rightly, games are stored whole, and  *)
(* the repositories implement the ledger.                                  *)
(***************************************************************************)
EXTENDS Storage, TLAPS, FiniteSetTheorems, SequenceTheorems

USE StorageAssumption

Saving(w) == pc[w] \in {"save", "saving"}

\* A task adds a nickname or stores a game that has ended, and no two the same game.
OwnBusiness ==
    /\ \A w \in Workers : pc[w] \in {"add", "adding"} => about[w] \in Nicknames
    /\ \A w \in Workers : Saving(w) => about[w] \in ended
    /\ \A v, w \in Workers : Saving(v) /\ Saving(w) /\ about[v] = about[w] => v = w

\* nickname is UNIQUE, and an answered id is its user's.
UsersOnce ==
    /\ \A i, j \in DOMAIN users : users[i] = users[j] => i = j
    /\ \A a \in answered : a.id \in DOMAIN users /\ users[a.id] = a.nickname

\* The rows of the first n places of a game.
Part(g, id, n) ==
    {[game |-> id, user |-> Result[g][i].user, words |-> Result[g][i].words, place |-> i] : i \in 1..n}

\* An open transaction has the next id and the rows of the first places.
Drafts ==
    \A w \in Workers : pc[w] = "saving" =>
        /\ draft[w].game = lastGame + 1
        /\ \E n \in 0..Len(Result[about[w]]) :
              /\ draft[w].rows = Part(about[w], lastGame + 1, n)
              /\ IsFiniteSet(draft[w].rows) /\ Cardinality(draft[w].rows) = n

\* Each id is that of one game, and none of those is still being stored.
Assigned(stored) ==
    /\ stored \in [1..lastGame -> ended]
    /\ \A id \in 1..lastGame : Stored(id) = Whole(stored[id], id)
    /\ \A i, j \in 1..lastGame : i # j => stored[i] # stored[j]
    /\ \A w \in Workers, id \in 1..lastGame : Saving(w) => stored[id] # about[w]

StoredOnce ==
    /\ \E stored \in [1..lastGame -> ended] : Assigned(stored)
    /\ \A r \in rows : r.game \in 1..lastGame

IInv == TypeOK /\ OwnBusiness /\ UsersOnce /\ Drafts /\ StoredOnce

-----------------------------------------------------------------------------
(* What the steps have in common. *)

HistoryRow == [game : Nat, user : Nat, words : Nat, place : Nat]
Draft      == [game : Nat, rows : SUBSET HistoryRow]

\* What a game stores in a place is a row.
LEMMA PartType ==
    ASSUME NEW g \in Games, NEW id \in Nat, NEW n \in 0..Len(Result[g])
    PROVE  Part(g, id, n) \subseteq HistoryRow
<1>1. Result[g] \in Seq([user : Nat, words : Nat])
  OBVIOUS
<1>0. PICK result : result = Result[g]
  OBVIOUS
<1>2. \A i \in 1..n : i \in Nat /\ i \in 1..Len(Result[g])
  <2>1. Len(result) \in Nat
    BY <1>0, <1>1
  <2>2. n \in 0..Len(result)
    BY <1>0
  <2>3. \A i \in 1..n : i \in Nat /\ i \in 1..Len(result)
    BY <2>1, <2>2
  <2> QED BY <2>3, <1>0
<1>3. \A i \in 1..Len(Result[g]) : Result[g][i] \in [user : Nat, words : Nat]
  BY <1>1, ElementOfSeq
<1> QED BY <1>2, <1>3 DEF Part, HistoryRow

\* One worker at a time writes.
LEMMA OneWriter ==
    ASSUME TypeOK, NEW v \in Workers, NEW w \in Workers,
           pc[v] \in {"adding", "saving"}, pc[w] \in {"adding", "saving"}
    PROVE  v = w
BY DEF TypeOK

\* Nothing is lost of what is stored, or being stored, when tasks only come to an end.
LEMMA StoredOnceStays ==
    ASSUME StoredOnce, UNCHANGED <<lastGame, rows, ended>>,
           \A w \in Workers : Saving(w)' => Saving(w) /\ about'[w] = about[w]
    PROVE  StoredOnce'
<1>1. PICK stored \in [1..lastGame -> ended] : Assigned(stored)
  BY DEF StoredOnce
<1>2. \A id : Stored(id)' = Stored(id)
  BY DEF Stored
<1>3. Assigned(stored)'
  BY <1>1, <1>2 DEF Assigned, Whole
<1> QED BY <1>1, <1>3 DEF StoredOnce

LEMMA DraftsStay ==
    ASSUME Drafts, UNCHANGED lastGame,
           \A w \in Workers : pc'[w] = "saving" =>
               pc[w] = "saving" /\ about'[w] = about[w] /\ draft'[w] = draft[w]
    PROVE  Drafts'
<1> SUFFICES ASSUME NEW w \in Workers, pc'[w] = "saving"
             PROVE  /\ draft'[w].game = lastGame' + 1
                    /\ \E n \in 0..Len(Result[about'[w]]) :
                          /\ draft'[w].rows = Part(about'[w], lastGame' + 1, n)
                          /\ IsFiniteSet(draft'[w].rows) /\ Cardinality(draft'[w].rows) = n
  BY DEF Drafts
<1>1. pc[w] = "saving" /\ about'[w] = about[w] /\ draft'[w] = draft[w] /\ lastGame' = lastGame
  OBVIOUS
<1> QED BY <1>1 DEF Drafts

\* What it means that a task returns.
LEMMA Returned ==
    ASSUME TypeOK, NEW w \in Workers, Return(w)
    PROVE  /\ \A v \in Workers : /\ pc'[v] = IF v = w THEN "idle" ELSE pc[v]
                                 /\ about'[v] = IF v = w THEN NoOne ELSE about[v]
                                 /\ draft'[v] = IF v = w THEN NoDraft ELSE draft[v]
           /\ pc' \in [Workers -> {"idle", "add", "adding", "save", "saving"}]
           /\ about' \in [Workers -> Nicknames \cup Games \cup {NoOne}]
           /\ draft' \in [Workers -> Draft]
           /\ writer' \in Workers \cup {NoOne}
           /\ \A v \in Workers : writer' = v <=> pc'[v] \in {"adding", "saving"}
<1>1. NoDraft \in Draft
  BY DEF NoDraft, Draft
<1>2. /\ pc' = [pc EXCEPT ![w] = "idle"] /\ about' = [about EXCEPT ![w] = NoOne]
      /\ draft' = [draft EXCEPT ![w] = NoDraft]
      /\ writer' = IF writer = w THEN NoOne ELSE writer
  BY DEF Return
<1>3. draft \in [Workers -> Draft]
  BY DEF TypeOK, Draft, HistoryRow
<1> QED BY <1>1, <1>2, <1>3 DEF TypeOK

LEMMA ReturnKeeps ==
    ASSUME IInv, NEW w \in Workers, Return(w), UNCHANGED <<lastGame, rows, ended>>
    PROVE  OwnBusiness' /\ Drafts' /\ StoredOnce'
<1>1. \A v \in Workers : /\ pc'[v] = IF v = w THEN "idle" ELSE pc[v]
                         /\ about'[v] = IF v = w THEN NoOne ELSE about[v]
                         /\ draft'[v] = IF v = w THEN NoDraft ELSE draft[v]
  BY Returned DEF IInv
<1>2. \A v \in Workers : Saving(v)' => Saving(v) /\ about'[v] = about[v]
  BY <1>1 DEF Saving
<1>3. OwnBusiness'
  BY <1>1 DEF IInv, OwnBusiness, Saving
<1> QED BY <1>1, <1>2, <1>3, DraftsStay, StoredOnceStays DEF IInv

-----------------------------------------------------------------------------
(* The steps. *)

LEMMA LoginFindsKeeps ==
    ASSUME IInv, NEW w \in Workers, LoginFinds(w)
    PROVE  IInv'
<1>1. PICK id \in DOMAIN users : answered' = answered \cup {[nickname |-> users[id], id |-> id]}
  BY DEF LoginFinds
<1>2. UNCHANGED <<users, lastGame, rows, writer, pc, about, draft, refused, ended, kills, told>>
  BY DEF LoginFinds, file, tasks
<1>3. id \in Nat /\ users[id] \in Nicknames
  BY DEF IInv, TypeOK
<1>4. TypeOK'
  BY <1>1, <1>2, <1>3 DEF IInv, TypeOK
<1>5. UsersOnce'
  BY <1>1, <1>2 DEF IInv, UsersOnce
<1>6. OwnBusiness'
  BY <1>2 DEF IInv, OwnBusiness, Saving
<1>7. Drafts' /\ StoredOnce'
  BY <1>2, DraftsStay, StoredOnceStays DEF IInv, Saving
<1> QED BY <1>4, <1>5, <1>6, <1>7 DEF IInv

LEMMA LoginMissesKeeps ==
    ASSUME IInv, NEW w \in Workers, LoginMisses(w)
    PROVE  IInv'
<1>1. PICK n \in Nicknames : about' = [about EXCEPT ![w] = n]
  BY DEF LoginMisses
<1>2. /\ pc[w] = "idle" /\ pc' = [pc EXCEPT ![w] = "add"]
      /\ UNCHANGED <<users, lastGame, rows, writer, draft, answered, refused, ended, kills, told>>
  BY DEF LoginMisses, file, history
<1>3. \A v \in Workers : /\ pc'[v] = IF v = w THEN "add" ELSE pc[v]
                         /\ about'[v] = IF v = w THEN n ELSE about[v]
  BY <1>1, <1>2 DEF IInv, TypeOK
<1>4. TypeOK'
  BY <1>1, <1>2, <1>3 DEF IInv, TypeOK
<1>5. UsersOnce'
  BY <1>2 DEF IInv, UsersOnce
<1>6. OwnBusiness'
  BY <1>2, <1>3 DEF IInv, OwnBusiness, Saving
<1>7. Drafts' /\ StoredOnce'
  BY <1>2, <1>3, DraftsStay, StoredOnceStays DEF IInv, Saving
<1> QED BY <1>4, <1>5, <1>6, <1>7 DEF IInv

LEMMA InsertUserKeeps ==
    ASSUME IInv, NEW w \in Workers, InsertUser(w)
    PROVE  IInv'
<1>1. /\ pc[w] = "add" /\ writer = NoOne /\ writer' = w /\ pc' = [pc EXCEPT ![w] = "adding"]
      /\ UNCHANGED <<users, lastGame, rows, about, draft, answered, refused, ended, kills, told>>
  BY DEF InsertUser, file, history
<1>2. \A v \in Workers : pc'[v] = IF v = w THEN "adding" ELSE pc[v]
  BY <1>1 DEF IInv, TypeOK
<1>3. TypeOK'
  BY <1>1, <1>2 DEF IInv, TypeOK
<1>4. UsersOnce'
  BY <1>1 DEF IInv, UsersOnce
<1>5. OwnBusiness'
  BY <1>1, <1>2 DEF IInv, OwnBusiness, Saving
<1>6. Drafts' /\ StoredOnce'
  BY <1>1, <1>2, DraftsStay, StoredOnceStays DEF IInv, Saving
<1> QED BY <1>3, <1>4, <1>5, <1>6 DEF IInv

\* The insertion of a nickname is refused, because another connection writes or the
\* nickname is there.
LEMMA InsertRefusedKeeps ==
    ASSUME IInv, NEW w \in Workers, InsertUserBusy(w) \/ UserExists(w)
    PROVE  IInv'
<1>1. /\ pc[w] \in {"add", "adding"} /\ refused' = refused \cup {about[w]} /\ Return(w)
      /\ UNCHANGED <<users, lastGame, rows, answered, ended, kills, told>>
  BY DEF InsertUserBusy, UserExists, file
<1>2. about[w] \in Nicknames
  BY <1>1 DEF IInv, OwnBusiness
<1>3. TypeOK'
  BY <1>1, <1>2, Returned DEF IInv, TypeOK, Draft, HistoryRow
<1>4. UsersOnce'
  BY <1>1 DEF IInv, UsersOnce
<1> QED BY <1>1, <1>3, <1>4, ReturnKeeps DEF IInv

LEMMA UserAddedKeeps ==
    ASSUME IInv, NEW w \in Workers, UserAdded(w)
    PROVE  IInv'
<1>1. PICK n : n = about[w]
  OBVIOUS
<1>2. /\ pc[w] = "adding" /\ n \notin Elems(users) /\ users' = Append(users, n)
      /\ answered' = answered \cup {[nickname |-> n, id |-> Len(users) + 1]}
      /\ Return(w)
      /\ UNCHANGED <<lastGame, rows, refused, ended, kills, told>>
  BY <1>1 DEF UserAdded
<1>3. n \in Nicknames /\ users \in Seq(Nicknames)
  BY <1>1, <1>2 DEF IInv, OwnBusiness, TypeOK
<1>4. /\ users' \in Seq(Nicknames) /\ DOMAIN users' = DOMAIN users \cup {Len(users) + 1}
      /\ users'[Len(users) + 1] = n
      /\ \A i \in DOMAIN users : i # Len(users) + 1 /\ users'[i] = users[i] /\ users[i] # n
  BY <1>2, <1>3 DEF Elems
<1>5. TypeOK'
  <2>1. Len(users) + 1 \in Nat
    BY <1>3
  <2> QED BY <2>1, <1>2, <1>3, <1>4, Returned DEF IInv, TypeOK, Draft, HistoryRow
<1>6. UsersOnce'
  BY <1>2, <1>4 DEF IInv, UsersOnce
<1> QED BY <1>2, <1>5, <1>6, ReturnKeeps DEF IInv

LEMMA TellGamesKeeps ==
    ASSUME IInv, NEW w \in Workers, TellGames(w)
    PROVE  IInv'
<1>1. PICK id \in DOMAIN users, upto \in 0..lastGame :
         told' = [to |-> id, games |-> getGameHistoryByUserId(id, upto)]
  BY DEF TellGames
<1>2. UNCHANGED <<users, lastGame, rows, writer, pc, about, draft, answered, refused, ended, kills>>
  BY DEF TellGames, file, tasks
<1>3. id \in Nat /\ getGameHistoryByUserId(id, upto) \subseteq [game : Nat, words : Nat, place : Nat]
  BY DEF IInv, TypeOK, getGameHistoryByUserId
<1>4. TypeOK'
  BY <1>1, <1>2, <1>3 DEF IInv, TypeOK
<1>5. UsersOnce' /\ OwnBusiness'
  BY <1>2 DEF IInv, UsersOnce, OwnBusiness, Saving
<1>6. Drafts' /\ StoredOnce'
  BY <1>2, DraftsStay, StoredOnceStays DEF IInv, Saving
<1> QED BY <1>4, <1>5, <1>6 DEF IInv

\* A crash or a kill loses the tasks and nothing that is stored.
LEMMA EndOfProcessKeeps ==
    ASSUME IInv, ProcessEnds, kills' \in 0..MaxKills,
           UNCHANGED <<answered, refused, ended, told>>
    PROVE  IInv'
<1>1. /\ \A v \in Workers : pc'[v] = "idle"
      /\ pc' \in [Workers -> {"idle"}] /\ about' \in [Workers -> {NoOne}]
      /\ draft' \in [Workers -> {NoDraft}] /\ writer' = NoOne
      /\ UNCHANGED <<users, lastGame, rows>>
  BY DEF ProcessEnds, file
<1>2. TypeOK'
  <2>1. NoDraft \in Draft
    BY DEF NoDraft, Draft
  <2> QED BY <2>1, <1>1 DEF IInv, TypeOK, Draft, HistoryRow
<1>3. UsersOnce' /\ OwnBusiness'
  BY <1>1 DEF IInv, UsersOnce, OwnBusiness, Saving
<1>4. Drafts' /\ StoredOnce'
  BY <1>1, DraftsStay, StoredOnceStays DEF IInv, Saving
<1> QED BY <1>2, <1>3, <1>4 DEF IInv

\* A game ends: nobody stores it yet, and no id is its.
LEMMA GameEndsKeeps ==
    ASSUME IInv, NEW w \in Workers, GameEnds(w)
    PROVE  IInv'
<1>1. PICK g \in Games \ ended : ended' = ended \cup {g} /\ about' = [about EXCEPT ![w] = g]
  BY DEF GameEnds
<1>2. /\ pc[w] = "idle" /\ pc' = [pc EXCEPT ![w] = "save"]
      /\ UNCHANGED <<users, lastGame, rows, writer, draft, answered, refused, kills, told>>
  BY DEF GameEnds, file
<1>3. \A v \in Workers : /\ pc'[v] = IF v = w THEN "save" ELSE pc[v]
                         /\ about'[v] = IF v = w THEN g ELSE about[v]
  BY <1>1, <1>2 DEF IInv, TypeOK
<1>4. TypeOK'
  BY <1>1, <1>2, <1>3 DEF IInv, TypeOK
<1>5. UsersOnce'
  BY <1>2 DEF IInv, UsersOnce
<1>6. OwnBusiness'
  BY <1>1, <1>2, <1>3 DEF IInv, OwnBusiness, Saving
<1>7. Drafts'
  BY <1>2, <1>3, DraftsStay DEF IInv
<1>8. StoredOnce'
  <2>1. PICK stored \in [1..lastGame -> ended] : Assigned(stored)
    BY DEF IInv, StoredOnce
  <2>2. \A id \in 1..lastGame : stored[id] \in ended /\ stored[id] # g
    BY <2>1, <1>1
  <2>3. stored \in [1..lastGame -> ended']
    BY <2>1, <1>1
  <2>4. \A id : Stored(id)' = Stored(id)
    BY <1>2 DEF Stored
  <2>5. \A v \in Workers, id \in 1..lastGame : Saving(v)' => stored[id] # about'[v]
    BY <2>1, <2>2, <1>3 DEF Assigned, Saving
  <2>6. Assigned(stored)'
    BY <2>1, <2>3, <2>4, <2>5, <1>2 DEF Assigned, Whole
  <2> QED BY <2>3, <2>6, <1>2 DEF IInv, StoredOnce
<1> QED BY <1>4, <1>5, <1>6, <1>7, <1>8 DEF IInv

\* The transaction begins with the write lock, the next id and no rows.
LEMMA InsertGameKeeps ==
    ASSUME IInv, NEW w \in Workers, InsertGame(w)
    PROVE  IInv'
<1>1. /\ pc[w] = "save" /\ writer = NoOne /\ writer' = w /\ pc' = [pc EXCEPT ![w] = "saving"]
      /\ draft' = [draft EXCEPT ![w] = [game |-> lastGame + 1, rows |-> {}]]
      /\ UNCHANGED <<users, lastGame, rows, about, answered, refused, ended, kills, told>>
  BY DEF InsertGame, file, history
<1>2. \A v \in Workers :
         /\ pc'[v] = IF v = w THEN "saving" ELSE pc[v]
         /\ draft'[v] = IF v = w THEN [game |-> lastGame + 1, rows |-> {}] ELSE draft[v]
  BY <1>1 DEF IInv, TypeOK
<1>3. TypeOK'
  <2>1. lastGame + 1 \in Nat
    BY DEF IInv, TypeOK
  <2>2. [game |-> lastGame + 1, rows |-> {}] \in Draft
    BY <2>1 DEF Draft
  <2>3. draft \in [Workers -> Draft]
    BY DEF IInv, TypeOK, Draft, HistoryRow
  <2>4. draft' \in [Workers -> Draft]
    BY <2>2, <2>3, <1>1
  <2> QED BY <2>4, <1>1, <1>2 DEF IInv, TypeOK, Draft, HistoryRow
<1>4. UsersOnce'
  BY <1>1 DEF IInv, UsersOnce
<1>5. OwnBusiness'
  BY <1>1, <1>2 DEF IInv, OwnBusiness, Saving
<1>6. Drafts'
  <2>1. \A v \in Workers : pc'[v] = "saving" => v = w
    BY <1>1, <1>2 DEF IInv, TypeOK
  <2>2. about[w] \in Games
    BY <1>1 DEF IInv, OwnBusiness, Saving, TypeOK
  <2>3. 0 \in 0..Len(Result[about[w]])
    <3>1. Result[about[w]] \in Seq([user : Nat, words : Nat])
      BY <2>2
    <3>2. Len(Result[about[w]]) \in Nat
      BY <3>1, LenProperties
    <3> QED BY <3>2
  <2>4. Part(about[w], lastGame + 1, 0) = {}
    BY DEF Part
  <2>5. draft'[w].game = lastGame + 1 /\ draft'[w].rows = {}
    BY <1>2
  <2>6. IsFiniteSet({}) /\ Cardinality({}) = 0
    BY FS_EmptySet
  <2> QED BY <2>1, <2>3, <2>4, <2>5, <2>6, <1>1 DEF Drafts
<1>7. StoredOnce'
  BY <1>1, <1>2, StoredOnceStays DEF IInv, Saving
<1> QED BY <1>3, <1>4, <1>5, <1>6, <1>7 DEF IInv

\* A row more, of the next place.
LEMMA NextRow ==
    ASSUME IInv, NEW w \in Workers, pc[w] = "saving",
           NEW n \in Nat, n < Len(Result[about[w]]),
           draft[w].rows = Part(about[w], lastGame + 1, n), Cardinality(draft[w].rows) = n
    PROVE  /\ draft[w].rows \cup {Row(w)} = Part(about[w], lastGame + 1, n + 1)
           /\ Row(w) \notin draft[w].rows
<1>1. draft[w].game = lastGame + 1
  BY DEF IInv, Drafts
<1>2. Row(w) = [game |-> lastGame + 1, user |-> Result[about[w]][n + 1].user,
                words |-> Result[about[w]][n + 1].words, place |-> n + 1]
  BY <1>1 DEF Row
<1>3. 1..(n + 1) = 1..n \cup {n + 1}
  OBVIOUS
<1>4. draft[w].rows \cup {Row(w)} = Part(about[w], lastGame + 1, n + 1)
  BY <1>2, <1>3, SMTT(30) DEF Part
<1>5. ASSUME NEW r \in draft[w].rows PROVE r.place # n + 1
  <2>1. PICK i \in 1..n : r = [game |-> lastGame + 1, user |-> Result[about[w]][i].user,
                               words |-> Result[about[w]][i].words, place |-> i]
    BY <1>5 DEF Part
  <2> QED BY <2>1
<1>6. Row(w).place = n + 1
  BY <1>2
<1> QED BY <1>4, <1>5, <1>6

LEMMA InsertRowKeeps ==
    ASSUME IInv, NEW w \in Workers, InsertRow(w)
    PROVE  IInv'
<1>1. /\ pc[w] = "saving" /\ Cardinality(draft[w].rows) < Len(Result[about[w]])
      /\ draft' = [draft EXCEPT ![w].rows = @ \cup {Row(w)}]
      /\ UNCHANGED <<users, lastGame, rows, writer, pc, about, answered, refused, ended, kills, told>>
  BY DEF InsertRow, file, history
<1>2. PICK n \in 0..Len(Result[about[w]]) :
         /\ draft[w].rows = Part(about[w], lastGame + 1, n)
         /\ IsFiniteSet(draft[w].rows) /\ Cardinality(draft[w].rows) = n
  BY <1>1 DEF IInv, Drafts
<1>3. about[w] \in Games /\ lastGame + 1 \in Nat /\ draft \in [Workers -> Draft]
  BY <1>1 DEF IInv, OwnBusiness, Saving, TypeOK, Draft, HistoryRow
<1>4. n \in Nat /\ n < Len(Result[about[w]]) /\ n + 1 \in 0..Len(Result[about[w]])
  <2>1. Result[about[w]] \in Seq([user : Nat, words : Nat])
    BY <1>3
  <2>2. Len(Result[about[w]]) \in Nat
    BY <2>1, LenProperties
  <2> QED BY <2>2, <1>1, <1>2
<1> DEFINE more == draft[w].rows \cup {Row(w)}
<1>5. more = Part(about[w], lastGame + 1, n + 1) /\ Row(w) \notin draft[w].rows
  BY <1>1, <1>2, <1>4, NextRow
<1>6. more \subseteq HistoryRow
  BY <1>3, <1>4, <1>5, PartType
<1>7. IsFiniteSet(more) /\ Cardinality(more) = n + 1
  BY <1>2, <1>5, FS_AddElement
<1> HIDE DEF more
<1>8. PICK now \in Draft : now = [draft[w] EXCEPT !.rows = more]
  BY <1>3, <1>6 DEF Draft
<1>9. now.rows = more /\ now.game = draft[w].game /\ draft' = [draft EXCEPT ![w] = now]
  BY <1>1, <1>3, <1>8 DEF Draft, more
<1>10. draft' \in [Workers -> Draft] /\ \A v \in Workers : draft'[v] = IF v = w THEN now ELSE draft[v]
  BY <1>3, <1>9
<1>11. TypeOK'
  BY <1>1, <1>10 DEF IInv, TypeOK, Draft, HistoryRow
<1>12. UsersOnce' /\ OwnBusiness'
  BY <1>1 DEF IInv, UsersOnce, OwnBusiness, Saving
<1>13. Drafts'
  <2>1. \A v \in Workers : pc'[v] = "saving" => v = w
    BY <1>1, OneWriter DEF IInv
  <2>2. draft'[w].game = lastGame + 1 /\ draft'[w].rows = more
    BY <1>1, <1>9, <1>10 DEF IInv, Drafts
  <2> QED BY <2>1, <2>2, <1>1, <1>4, <1>5, <1>7 DEF Drafts
<1>14. StoredOnce'
  BY <1>1, StoredOnceStays DEF IInv, Saving
<1> QED BY <1>11, <1>12, <1>13, <1>14 DEF IInv

\* What the commit writes is the whole game, under an id that no row has yet.
LEMMA CommitIsWhole ==
    ASSUME IInv, NEW w \in Workers, Commit(w)
    PROVE  /\ about[w] \in ended /\ about[w] \in Games
           /\ lastGame \in Nat /\ lastGame' = lastGame + 1
           /\ rows' = rows \cup Whole(about[w], lastGame + 1)
           /\ Whole(about[w], lastGame + 1) \subseteq HistoryRow
           /\ \A id \in 1..lastGame : Stored(id)' = Stored(id)
           /\ \A id : id = lastGame + 1 => Stored(id)' = Whole(about[w], id)
<1>1. /\ pc[w] = "saving" /\ Cardinality(draft[w].rows) = Len(Result[about[w]])
      /\ rows' = rows \cup draft[w].rows /\ lastGame' = draft[w].game
  BY DEF Commit
<1>2. PICK n \in 0..Len(Result[about[w]]) :
         draft[w].rows = Part(about[w], lastGame + 1, n) /\ Cardinality(draft[w].rows) = n
  BY <1>1 DEF IInv, Drafts
<1>3. about[w] \in ended /\ about[w] \in Games /\ lastGame \in Nat /\ draft[w].game = lastGame + 1
  BY <1>1 DEF IInv, OwnBusiness, Saving, TypeOK, Drafts
<1>4. 1..n = DOMAIN Result[about[w]]
  <2>1. Result[about[w]] \in Seq([user : Nat, words : Nat])
    BY <1>3
  <2>2. DOMAIN Result[about[w]] = 1..Len(Result[about[w]])
    BY <2>1, LenProperties
  <2> QED BY <2>2, <1>1, <1>2
<1>5. draft[w].rows = Whole(about[w], lastGame + 1)
  BY <1>2, <1>4 DEF Part, Whole
<1>6. Whole(about[w], lastGame + 1) \subseteq HistoryRow
  <2>1. lastGame + 1 \in Nat
    BY <1>3
  <2> QED BY <2>1, <1>2, <1>3, <1>5, PartType
<1>7. \A r \in rows : r.game \in 1..lastGame
  BY DEF IInv, StoredOnce
<1>8. \A r \in Whole(about[w], lastGame + 1) : r.game = lastGame + 1
  BY DEF Whole
<1>9. \A id \in 1..lastGame : Stored(id)' = Stored(id)
  <2>1. \A id \in 1..lastGame : id # lastGame + 1
    BY <1>3
  <2> QED BY <2>1, <1>1, <1>5, <1>8 DEF Stored
<1>10. \A id : id = lastGame + 1 => Stored(id)' = Whole(about[w], id)
  <2>1. \A r \in rows : r.game # lastGame + 1
    BY <1>3, <1>7
  <2> QED BY <2>1, <1>1, <1>3, <1>5, <1>8 DEF Stored
<1> QED BY <1>1, <1>3, <1>5, <1>6, <1>9, <1>10

LEMMA CommitKeeps ==
    ASSUME IInv, NEW w \in Workers, Commit(w)
    PROVE  IInv'
<1>1. PICK g : g = about[w]
  OBVIOUS
<1>2. /\ pc[w] = "saving" /\ Return(w)
      /\ UNCHANGED <<users, answered, refused, ended, kills, told>>
  BY DEF Commit, history
<1>3. /\ g \in ended /\ g \in Games /\ lastGame \in Nat /\ lastGame' = lastGame + 1
      /\ rows' = rows \cup Whole(g, lastGame + 1) /\ Whole(g, lastGame + 1) \subseteq HistoryRow
      /\ \A id \in 1..lastGame : Stored(id)' = Stored(id)
      /\ \A id : id = lastGame + 1 => Stored(id)' = Whole(g, id)
  BY <1>1, CommitIsWhole
<1>4. \A v \in Workers : /\ pc'[v] = IF v = w THEN "idle" ELSE pc[v]
                         /\ about'[v] = IF v = w THEN NoOne ELSE about[v]
  BY <1>2, Returned DEF IInv
<1>5. TypeOK'
  <2>1. lastGame' \in Nat /\ rows' \subseteq HistoryRow
    BY <1>3 DEF IInv, TypeOK, HistoryRow
  <2> QED BY <2>1, <1>2, Returned DEF IInv, TypeOK, Draft, HistoryRow
<1>6. UsersOnce'
  BY <1>2 DEF IInv, UsersOnce
<1>7. OwnBusiness'
  BY <1>2, <1>4 DEF IInv, OwnBusiness, Saving
<1>8. Drafts'
  <2>1. \A v \in Workers : pc'[v] # "saving"
    BY <1>2, <1>4, OneWriter DEF IInv
  <2> QED BY <2>1 DEF Drafts
<1>9. StoredOnce'
  <2>1. PICK stored \in [1..lastGame -> ended] : Assigned(stored)
    BY DEF IInv, StoredOnce
  <2>now. PICK now :
             now = [id \in 1..(lastGame + 1) |-> IF id = lastGame + 1 THEN g ELSE stored[id]]
    OBVIOUS
  <2>2. \A id \in 1..(lastGame + 1) : id = lastGame + 1 \/ id \in 1..lastGame
    BY <1>3
  <2>3. now \in [1..lastGame' -> ended'] /\ now[lastGame + 1] = g
        /\ \A id \in 1..lastGame : now[id] = stored[id]
    BY <2>now, <2>1, <2>2, <1>2, <1>3
  <2>4. \A id \in 1..lastGame : stored[id] # g
    BY <2>1, <1>1, <1>2 DEF Assigned, Saving
  <2>5. \A id \in 1..lastGame' : Stored(id)' = Whole(now[id], id)
    <3>1. \A id \in 1..lastGame : Stored(id)' = Whole(now[id], id)
      BY <2>1, <2>3, <1>3 DEF Assigned
    <3> QED BY <3>1, <2>2, <2>3, <1>3
  <2>6. \A i, j \in 1..lastGame' : i # j => now[i] # now[j]
    BY <2>1, <2>2, <2>3, <2>4, <1>3, SMTT(30) DEF Assigned
  <2>7. \A v \in Workers, id \in 1..lastGame' : Saving(v)' => now[id] # about'[v]
    <3>1. \A v \in Workers : Saving(v)' => v # w /\ Saving(v) /\ about'[v] = about[v] /\ about[v] # g
      BY <1>1, <1>2, <1>4 DEF Saving, IInv, OwnBusiness
    <3> QED BY <3>1, <2>1, <2>2, <2>3, <1>3 DEF Assigned
  <2>8. Assigned(now)'
    BY <2>3, <2>5, <2>6, <2>7 DEF Assigned, Whole
  <2>9. \A r \in rows' : r.game \in 1..lastGame'
    BY <1>3 DEF IInv, StoredOnce, Whole
  <2> QED BY <2>3, <2>8, <2>9 DEF StoredOnce
<1> QED BY <1>5, <1>6, <1>7, <1>8, <1>9 DEF IInv

-----------------------------------------------------------------------------
(* The theorems. *)

LEMMA InitHolds == Init => IInv
<1> SUFFICES ASSUME Init PROVE IInv
  OBVIOUS
<1>1. NoDraft \in Draft
  BY DEF NoDraft, Draft
<1>2. TypeOK
  BY <1>1 DEF Init, TypeOK, Draft, HistoryRow
<1>3. OwnBusiness /\ UsersOnce /\ Drafts
  BY DEF Init, OwnBusiness, UsersOnce, Drafts, Saving
<1>4. StoredOnce
  <2>1. 1..lastGame = {} /\ rows = {}
    BY DEF Init
  <2>2. [id \in {} |-> NoOne] \in [1..lastGame -> ended]
    BY <2>1
  <2>3. Assigned([id \in {} |-> NoOne])
    BY <2>1, <2>2 DEF Assigned
  <2> QED BY <2>1, <2>2, <2>3 DEF StoredOnce
<1> QED BY <1>2, <1>3, <1>4 DEF IInv

LEMMA StepKeeps == IInv /\ [Next]_vars => IInv'
<1> SUFFICES ASSUME IInv, [Next]_vars PROVE IInv'
  OBVIOUS
<1>1. ASSUME NEW w \in Workers, LoginFinds(w) \/ LoginMisses(w) \/ TellGames(w) \/ GameEnds(w)
      PROVE  IInv'
  BY <1>1, LoginFindsKeeps, LoginMissesKeeps, TellGamesKeeps, GameEndsKeeps
<1>2. ASSUME NEW w \in Workers, Work(w) PROVE IInv'
  <2>1. CASE InsertGameBusy(w)
    <3>1. ProcessEnds /\ kills' \in 0..MaxKills /\ UNCHANGED <<answered, refused, ended, told>>
      BY <2>1 DEF InsertGameBusy, history, IInv, TypeOK
    <3> QED BY <3>1, EndOfProcessKeeps
  <2> QED BY <2>1, <1>2, InsertUserKeeps, InsertRefusedKeeps, UserAddedKeeps, InsertGameKeeps,
             InsertRowKeeps, CommitKeeps DEF Work
<1>3. CASE Kill
  <2>1. ProcessEnds /\ kills' \in 0..MaxKills /\ UNCHANGED <<answered, refused, ended, told>>
    BY <1>3 DEF Kill, IInv, TypeOK
  <2> QED BY <2>1, EndOfProcessKeeps
<1>4. CASE UNCHANGED vars
  <2>1. UNCHANGED <<users, lastGame, rows, writer, pc, about, draft, answered, refused, ended, kills, told>>
    BY <1>4 DEF vars, file, tasks, history
  <2>2. TypeOK' /\ UsersOnce' /\ OwnBusiness'
    BY <2>1 DEF IInv, TypeOK, UsersOnce, OwnBusiness, Saving
  <2> QED BY <2>1, <2>2, DraftsStay, StoredOnceStays DEF IInv, Saving
<1> QED BY <1>1, <1>2, <1>3, <1>4 DEF Next

LEMMA Always == Spec => []IInv
BY InitHolds, StepKeeps, PTL DEF Spec

\* Every variable of the database keeps its type, and the write lock is held by
\* exactly the task that is writing (SQLite's lock, as the repositories use it).
THEOREM StorageTypes == Spec => []TypeOK
<1>1. IInv => TypeOK
  BY DEF IInv
<1> QED BY <1>1, Always, PTL

\* However first logins of a nickname race, only its own id is ever answered, and no
\* two nicknames share one (InfoService::login, info_service.cpp:43).
THEOREM IdsAreRight == Spec => []OneIdPerNickname
<1>1. IInv => OneIdPerNickname
  BY DEF IInv, UsersOnce, OneIdPerNickname
<1> QED BY <1>1, Always, PTL

\* Across crashes and restarts, under each id are the rows of one whole game, and no
\* game is there twice (GamesRepo::putGame).
THEOREM WholeGamesOnly == Spec => []GamesAreStoredWhole
<1>1. IInv => GamesAreStoredWhole
  <2> SUFFICES ASSUME IInv PROVE GamesAreStoredWhole
    OBVIOUS
  <2>1. PICK stored \in [1..lastGame -> ended] : Assigned(stored)
    BY DEF IInv, StoredOnce
  <2>2. /\ \A id \in 1..lastGame : Stored(id) = Whole(stored[id], id)
        /\ \A i, j \in 1..lastGame : i # j => stored[i] # stored[j]
    BY <2>1 DEF Assigned
  <2> QED BY <2>1, <2>2 DEF IInv, StoredOnce, GamesAreStoredWhole
<1> QED BY <1>1, Always, PTL

-----------------------------------------------------------------------------
(* The repositories implement the ledger. *)

LEMMA LedgerStutters ==
    ASSUME UNCHANGED <<users, lastGame, rows, answered, told>>
    PROVE  UNCHANGED TheLedger!ledger
<1>1. Recorded' = Recorded
  BY DEF Recorded, Stored
<1> QED BY <1>1 DEF TheLedger!ledger

Place == [user : Nat, words : Nat, place : Nat]

\* What is recorded is a sequence of sets of places.
LEMMA RecordedIsSeq ==
    ASSUME IInv
    PROVE  /\ Recorded \in Seq(SUBSET Place)
           /\ Len(Recorded) = lastGame /\ DOMAIN Recorded = 1..lastGame
<1>1. lastGame \in Nat /\ \A id : Stored(id) \subseteq HistoryRow
  BY DEF IInv, TypeOK, Stored, HistoryRow
<1>2. \A id : {[user |-> r.user, words |-> r.words, place |-> r.place] : r \in Stored(id)}
                 \in SUBSET Place
  BY <1>1 DEF HistoryRow, Place
<1>3. Recorded \in [1..lastGame -> SUBSET Place]
  BY <1>2 DEF Recorded
<1>4. Recorded \in Seq(SUBSET Place)
  BY <1>1, <1>3, SeqDef
<1> QED BY <1>1, <1>3, <1>4, LenProperties

\* The rows of a user, game by game, are the user's rows, as far as they are read.
LEMMA GamesOfUser ==
    ASSUME IInv, NEW user, NEW upto \in 0..lastGame
    PROVE  TheLedger!GamesOf(user, upto) = getGameHistoryByUserId(user, upto)
<1> DEFINE Of(i) == {[game |-> i, words |-> r.words, place |-> r.place] :
                       r \in {q \in Recorded[i] : q.user = user}}
<1>0. \A x : x \in TheLedger!GamesOf(user, upto) <=> \E i \in 1..upto : x \in Of(i)
  <2>1. TheLedger!GamesOf(user, upto) = UNION {Of(i) : i \in 1..upto}
    BY Zenon DEF TheLedger!GamesOf
  <2> HIDE DEF Of
  <2> QED BY <2>1
<1>1. lastGame \in Nat /\ upto \in Nat /\ 1..upto \subseteq 1..lastGame
  BY DEF IInv, TypeOK
<1>2. \A i \in 1..lastGame :
         Recorded[i] = {[user |-> r.user, words |-> r.words, place |-> r.place] : r \in Stored(i)}
  BY DEF Recorded
<1>3. ASSUME NEW x \in TheLedger!GamesOf(user, upto) PROVE x \in getGameHistoryByUserId(user, upto)
  <2>1. PICK i \in 1..upto : \E q \in Recorded[i] :
           q.user = user /\ x = [game |-> i, words |-> q.words, place |-> q.place]
    <3>1. PICK i \in 1..upto : x \in Of(i)
      BY <1>0, <1>3, Zenon
    <3> QED BY <3>1
  <2>2. PICK q \in Recorded[i] :
           q.user = user /\ x = [game |-> i, words |-> q.words, place |-> q.place]
    BY <2>1
  <2>3. PICK r \in Stored(i) : q = [user |-> r.user, words |-> r.words, place |-> r.place]
    BY <1>1, <1>2, <2>2
  <2>4. r \in rows /\ r.game = i /\ r.user = user
        /\ x = [game |-> r.game, words |-> r.words, place |-> r.place]
    BY <2>2, <2>3 DEF Stored
  <2> QED BY <1>1, <2>4 DEF getGameHistoryByUserId
<1>4. ASSUME NEW x \in getGameHistoryByUserId(user, upto) PROVE x \in TheLedger!GamesOf(user, upto)
  <2>1. PICK r \in rows : r.user = user /\ r.game <= upto
                          /\ x = [game |-> r.game, words |-> r.words, place |-> r.place]
    BY <1>4 DEF getGameHistoryByUserId
  <2>2. r.game \in 1..lastGame /\ r.game \in 1..upto /\ r \in Stored(r.game)
    BY <1>1, <2>1 DEF IInv, StoredOnce, Stored
  <2>3. PICK q \in Recorded[r.game] : q = [user |-> r.user, words |-> r.words, place |-> r.place]
    <3>1. Recorded[r.game] =
             {[user |-> s.user, words |-> s.words, place |-> s.place] : s \in Stored(r.game)}
      BY <1>2, <2>2
    <3> QED BY <3>1, <2>2, Zenon
  <2>4. q.user = user /\ x = [game |-> r.game, words |-> q.words, place |-> q.place]
    BY <2>1, <2>3
  <2>5. x \in Of(r.game)
    BY <2>3, <2>4
  <2> HIDE DEF Of
  <2> QED BY <1>0, <2>2, <2>5, Zenon
<1> QED BY <1>3, <1>4

\* A commit appends one game to what is recorded.
LEMMA CommitIsRecord ==
    ASSUME IInv, NEW w \in Workers, Commit(w)
    PROVE  TheLedger!Record
<1>1. PICK g : g = about[w]
  OBVIOUS
<1>2. /\ g \in Games /\ lastGame \in Nat /\ lastGame' = lastGame + 1
      /\ \A id \in 1..lastGame : Stored(id)' = Stored(id)
      /\ \A id : id = lastGame + 1 => Stored(id)' = Whole(g, id)
  BY <1>1, CommitIsWhole
<1>3. UNCHANGED <<users, answered, told>>
  BY DEF Commit, history
<1>4. \A id : {[user |-> r.user, words |-> r.words, place |-> r.place] : r \in Whole(g, id)}
                 = TheLedger!Rows(g)
  <2> SUFFICES ASSUME NEW id
               PROVE  {[user |-> r.user, words |-> r.words, place |-> r.place] : r \in Whole(g, id)}
                         = TheLedger!Rows(g)
    OBVIOUS
  <2> DEFINE Bare == {[user |-> r.user, words |-> r.words, place |-> r.place] : r \in Whole(g, id)}
  <2>1. ASSUME NEW x \in Bare PROVE x \in TheLedger!Rows(g)
    <3>1. PICK r \in Whole(g, id) : x = [user |-> r.user, words |-> r.words, place |-> r.place]
      BY <2>1
    <3>2. PICK i \in DOMAIN Result[g] :
             r = [game |-> id, user |-> Result[g][i].user, words |-> Result[g][i].words, place |-> i]
      BY <3>1 DEF Whole
    <3>3. x = [user |-> Result[g][i].user, words |-> Result[g][i].words, place |-> i]
      BY <3>1, <3>2
    <3> QED BY <3>3 DEF TheLedger!Rows
  <2>2. ASSUME NEW x \in TheLedger!Rows(g) PROVE x \in Bare
    <3>1. PICK i \in DOMAIN Result[g] :
             x = [user |-> Result[g][i].user, words |-> Result[g][i].words, place |-> i]
      BY <2>2 DEF TheLedger!Rows
    <3>2. [game |-> id, user |-> Result[g][i].user, words |-> Result[g][i].words, place |-> i]
             \in Whole(g, id)
      BY DEF Whole
    <3> QED BY <3>1, <3>2
  <2> QED BY <2>1, <2>2
<1>5. /\ DOMAIN Recorded' = 1..(lastGame + 1)
      /\ \A id \in 1..lastGame : Recorded'[id] = Recorded[id]
      /\ Recorded'[lastGame + 1] = TheLedger!Rows(g)
  <2>1. Recorded' = [id \in 1..lastGame' |->
            {[user |-> r.user, words |-> r.words, place |-> r.place] : r \in Stored(id)'}]
    BY DEF Recorded
  <2>2. \A id \in 1..lastGame : id \in 1..lastGame'
    BY <1>2
  <2>3. \A id \in 1..lastGame : Recorded'[id] = Recorded[id]
    BY <2>1, <2>2, <1>2 DEF Recorded
  <2>4. lastGame + 1 \in 1..lastGame'
    BY <1>2
  <2>5. Recorded'[lastGame + 1] = TheLedger!Rows(g)
    BY <2>1, <2>4, <1>2, <1>4
  <2> QED BY <2>1, <2>3, <2>5, <1>2
<1>6. Recorded' = Append(Recorded, TheLedger!Rows(g))
  <2>1. Recorded \in Seq(SUBSET Place) /\ Len(Recorded) = lastGame
    BY RecordedIsSeq
  <2>2. TheLedger!Rows(g) \in SUBSET Place
    <3>1. PICK id \in Nat : id = lastGame + 1
      BY <1>2
    <3>2. Whole(g, id) \subseteq HistoryRow
      BY <3>1, <1>1, CommitIsWhole
    <3> QED BY <3>2, <1>4 DEF HistoryRow, Place
  <2>3. PICK more : more = Recorded'
    OBVIOUS
  <2>4. PICK longer : longer = Append(Recorded, TheLedger!Rows(g))
    OBVIOUS
  <2>5. /\ longer \in Seq(SUBSET Place) /\ Len(longer) = lastGame + 1
        /\ \A i \in 1..lastGame : longer[i] = Recorded[i]
        /\ longer[lastGame + 1] = TheLedger!Rows(g)
    BY <2>1, <2>2, <2>4, AppendProperties
  <2>6. DOMAIN longer = 1..(lastGame + 1) /\ longer \in [1..(lastGame + 1) -> SUBSET Place]
    BY <2>5, LenProperties
  <2>7. \A i \in 1..(lastGame + 1) : i \in 1..lastGame \/ i = lastGame + 1
    BY <1>2
  <2>8. \A i \in 1..(lastGame + 1) : more[i] = longer[i]
    BY <2>3, <2>5, <2>7, <1>5
  <2>9. more = [i \in DOMAIN more |-> more[i]] /\ longer = [i \in DOMAIN longer |-> longer[i]]
    BY <2>3, <2>6 DEF Recorded
  <2> QED BY <2>3, <2>4, <2>6, <2>8, <2>9, <1>5
<1> QED BY <1>2, <1>3, <1>6 DEF TheLedger!Record

LEMMA LedgerStep ==
    ASSUME IInv, [Next]_vars
    PROVE  [TheLedger!Next]_TheLedger!ledger
<1>1. CASE UNCHANGED <<users, lastGame, rows, answered, told>>
  BY <1>1, LedgerStutters
<1>2. ASSUME NEW w \in Workers, LoginFinds(w) PROVE TheLedger!Next
  <2>1. UNCHANGED <<users, lastGame, rows, told>>
    BY <1>2 DEF LoginFinds, file
  <2>2. Recorded' = Recorded
    BY <2>1 DEF Recorded, Stored
  <2>3. TheLedger!LogIn
    BY <1>2, <2>1, <2>2 DEF LoginFinds, TheLedger!LogIn, TheLedger!Account
  <2> QED BY <2>3 DEF TheLedger!Next
<1>3. ASSUME NEW w \in Workers, UserAdded(w) PROVE TheLedger!Next
  <2>1. UNCHANGED <<lastGame, rows, told>>
    BY <1>3 DEF UserAdded
  <2>2. Recorded' = Recorded
    BY <2>1 DEF Recorded, Stored
  <2>3. about[w] \in Nicknames
    BY <1>3 DEF UserAdded, IInv, OwnBusiness
  <2>4. TheLedger!Register(about[w])
    BY <1>3, <2>1, <2>2 DEF UserAdded, Elems, TheLedger!Register
  <2> QED BY <2>3, <2>4 DEF TheLedger!Next
<1>4. ASSUME NEW w \in Workers, TellGames(w) PROVE TheLedger!Next
  <2>1. UNCHANGED <<users, lastGame, rows, answered>>
    BY <1>4 DEF TellGames, file
  <2>2. Recorded' = Recorded
    BY <2>1 DEF Recorded, Stored
  <2>3. PICK id \in DOMAIN users, upto \in 0..lastGame :
           told' = [to |-> id, games |-> getGameHistoryByUserId(id, upto)]
    BY <1>4 DEF TellGames
  <2>4. getGameHistoryByUserId(id, upto) = TheLedger!GamesOf(id, upto)
    BY GamesOfUser
  <2>5. upto \in 0..Len(Recorded)
    BY RecordedIsSeq
  <2>6. TheLedger!Tell
    BY <2>1, <2>2, <2>3, <2>4, <2>5 DEF TheLedger!Tell
  <2> QED BY <2>6 DEF TheLedger!Next
<1>5. ASSUME NEW w \in Workers, Commit(w) PROVE TheLedger!Next
  BY <1>5, CommitIsRecord DEF TheLedger!Next
<1>6. \/ UNCHANGED <<users, lastGame, rows, answered, told>>
      \/ \E w \in Workers : LoginFinds(w) \/ UserAdded(w) \/ TellGames(w) \/ Commit(w)
  BY DEF Next, vars, file, history, LoginMisses, GameEnds, Work, InsertUser, InsertUserBusy, UserExists,
         InsertGame, InsertGameBusy, InsertRow, ProcessEnds, Kill
<1> QED BY <1>1, <1>2, <1>3, <1>4, <1>5, <1>6

\* Connections, transactions, refused statements and crashes come to a ledger that
\* registers one nickname, records one whole game, or answers from what it holds,
\* the whole of it or the earliest games (repo/users_repo.cpp, repo/games_repo.cpp).
THEOREM LedgerRefinement == Spec => ImplementsLedger
<1>1. Init => TheLedger!Init
  <2> SUFFICES ASSUME Init PROVE TheLedger!Init
    OBVIOUS
  <2>1. Recorded = <<>>
    BY DEF Init, Recorded
  <2> QED BY <2>1 DEF Init, TheLedger!Init, TheLedger!Nothing
<1>2. IInv /\ [Next]_vars => [TheLedger!Next]_TheLedger!ledger
  BY LedgerStep
<1> QED BY <1>1, <1>2, Always, PTL DEF Spec, ImplementsLedger, TheLedger!Spec
=============================================================================
