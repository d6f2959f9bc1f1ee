--------------------------- MODULE WordRulesProofs ---------------------------
(***************************************************************************)
(* Lemmas about the kana rules and the word rules: what they return, for   *)
(* every word and every dictionary answer.  Leaves that see a code point   *)
(* written as a number name the SMT backend.                               *)
(***************************************************************************)
EXTENDS WordRules, TLAPS, WellFoundedInduction

LEMMA MaxCodePointNat == MaxCodePoint \in Nat
BY SMT DEF MaxCodePoint

\* Every loop over a word or a list that returns at its first hit has one, if there
\* is a hit at all; and induction, taken from the least counterexample.
LEMMA LeastNumber ==
    ASSUME NEW T, T \subseteq Nat, T # {}
    PROVE  \E x \in T : \A y \in T : x <= y
<1> DEFINE R == OpToRel(<, Nat)
<1>1. IsWellFoundedOn(R, Nat)
  BY NatLessThanWellFounded
<1>2. PICK x \in T : \A y \in T : ~(<<y, x>> \in R)
  <2> HIDE DEF R
  <2> QED BY <1>1, WFMin
<1>3. ASSUME NEW y \in T PROVE x <= y
  <2>1. x \in Nat /\ y \in Nat
    OBVIOUS
  <2>2. <<y, x>> \in R <=> y < x
    BY <2>1 DEF OpToRel
  <2> HIDE DEF R
  <2>3. ~(y < x)
    BY <1>2, <2>2
  <2> QED BY <2>1, <2>3
<1> QED BY <1>3

LEMMA GreatestNumber ==
    ASSUME NEW n \in Nat, NEW T, T \subseteq 1..n, T # {}
    PROVE  \E x \in T : \A y \in T : y <= x
<1> DEFINE below == {n - y : y \in T}
<1>1. below \subseteq Nat /\ below # {}
  <2>1. \A y \in T : n - y \in Nat
    OBVIOUS
  <2>2. below \subseteq Nat
    BY <2>1
  <2>3. PICK y : y \in T
    OBVIOUS
  <2> QED BY <2>2, <2>3
<1>2. PICK d \in below : \A e \in below : d <= e
  <2> HIDE DEF below
  <2> QED BY <1>1, LeastNumber
<1>3. PICK x \in T : d = n - x
  OBVIOUS
<1>4. ASSUME NEW y \in T PROVE y <= x
  <2>1. n - x <= n - y
    BY <1>2, <1>3
  <2>2. x \in Int /\ y \in Int
    OBVIOUS
  <2> QED BY <2>1, <2>2
<1> QED BY <1>4

\* Induction over the turns of a loop.
LEMMA EveryTurn ==
    ASSUME NEW N \in Nat, NEW S, 0 \in S, \A n \in 1..N : n - 1 \in S => n \in S
    PROVE  \A n \in 0..N : n \in S
<1> DEFINE bad == {n \in 0..N : n \notin S}
<1> SUFFICES ASSUME bad # {} PROVE FALSE
  OBVIOUS
<1>1. PICK n \in bad : \A m \in bad : n <= m
  <2>1. bad \subseteq Nat
    OBVIOUS
  <2> HIDE DEF bad
  <2> QED BY <2>1, LeastNumber
<1>2. n \in 1..N /\ n - 1 \in 0..N
  OBVIOUS
<1>3. n - 1 \notin bad
  <2>1. ~(n <= n - 1)
    BY <1>2
  <2> QED BY <1>1, <2>1
<1> QED BY <1>2, <1>3

\* f is what a loop has computed after each of its m turns.
Loop(f, m, S, base, step) ==
    /\ f \in [0..m -> S] /\ f[0] = base
    /\ \A n \in 1..m : f[n] = step[<<n, f[n - 1]>>]

\* A loop computes something: its recursive function exists.
LEMMA LoopExists ==
    ASSUME NEW N \in Nat, NEW S, NEW base \in S, NEW step \in [(1..N) \X S -> S]
    PROVE  \E f : Loop(f, N, S, base, step)
<1> DEFINE Runs(m, f) == Loop(f, m, S, base, step)
           bad == {m \in 0..N : ~\E f : Runs(m, f)}
<1> USE DEF Loop
<1>1. bad = {}
  <2> SUFFICES ASSUME bad # {} PROVE FALSE
    OBVIOUS
  <2>1. PICK m \in bad : \A k \in bad : m <= k
    <3>1. bad \subseteq Nat
      OBVIOUS
    <3> HIDE DEF bad
    <3> QED BY <3>1, LeastNumber
  <2>2. m # 0
    <3>1. Runs(0, [n \in 0..0 |-> base])
      OBVIOUS
    <3> HIDE DEF Runs
    <3> QED BY <2>1, <3>1
  <2>3. m \in 1..N /\ m - 1 \in 0..N
    BY <2>2
  <2>4. PICK g : Runs(m - 1, g)
    <3>1. ~(m <= m - 1)
      BY <2>3
    <3>2. m - 1 \notin bad
      BY <2>1, <3>1
    <3> HIDE DEF Runs
    <3> QED BY <2>3, <3>2
  <2>5. PICK f : f = [n \in 0..m |-> IF n = m THEN step[<<m, g[m - 1]>>] ELSE g[n]]
    OBVIOUS
  <2>6. g[m - 1] \in S /\ step[<<m, g[m - 1]>>] \in S
    BY <2>3, <2>4
  <2>7. \A n \in 0..(m - 1) : f[n] = g[n] /\ g[n] \in S
    BY <2>3, <2>4, <2>5
  <2>8. f \in [0..m -> S]
    <3>1. ASSUME NEW n \in 0..m PROVE f[n] \in S
      <4>1. n = m \/ n \in 0..(m - 1)
        BY <2>3
      <4> QED BY <2>3, <2>5, <2>6, <2>7, <4>1
    <3> QED BY <2>5, <3>1
  <2>9. f[0] = base
    BY <2>3, <2>4, <2>7
  <2>10. ASSUME NEW n \in 1..m PROVE f[n] = step[<<n, f[n - 1]>>]
    <3>1. CASE n = m
      <4>1. m - 1 \in 0..(m - 1) /\ m \in 0..m
        BY <2>3
      <4>2. f[m] = step[<<m, g[m - 1]>>] /\ f[m - 1] = g[m - 1]
        BY <2>5, <2>7, <4>1
      <4> QED BY <3>1, <4>2
    <3>2. CASE n # m
      <4>1. n \in 1..(m - 1) /\ n \in 0..(m - 1) /\ n - 1 \in 0..(m - 1)
        BY <2>3, <3>2
      <4>2. f[n] = g[n] /\ f[n - 1] = g[n - 1]
        BY <2>7, <4>1
      <4> QED BY <2>4, <4>1, <4>2
    <3> QED BY <3>1, <3>2
  <2>11. Runs(m, f)
    BY <2>8, <2>9, <2>10
  <2> HIDE DEF Runs
  <2> QED BY <2>1, <2>11
<1>2. PICK f : Runs(N, f)
  <2>1. N \in 0..N
    OBVIOUS
  <2> HIDE DEF Runs
  <2> QED BY <1>1, <2>1
<1> QED BY <1>2

\* toHiragana (game_session.cpp:66) maps code points to code points.
LEMMA HiraganaType == ASSUME NEW c \in CodePoint PROVE toHiragana(c) \in CodePoint
BY MaxCodePointNat, SMT DEF toHiragana, CodePoint

\* getLastKana (line 204) returns a code point of the word, or nothing.
LEMMA LastKanaType ==
    ASSUME NEW u \in Text
    PROVE  getLastKana(u) \in CodePoint \cup {NoKana}
<1>1. CASE LastSounded(u) = {}
  BY <1>1 DEF getLastKana
<1>2. CASE LastSounded(u) # {}
  <2> DEFINE i == CHOOSE i \in LastSounded(u) : TRUE
  <2>1. i \in 1..Len(u)
    BY <1>2 DEF LastSounded, Text
  <2>2. u[i] \in CodePoint /\ (i > 1 => u[i - 1] \in CodePoint)
    BY <2>1 DEF Text
  <2>3. getLastKana(u) = IF isSmallKana(u[i]) /\ i > 1 THEN u[i - 1] ELSE u[i]
    BY <1>2 DEF getLastKana
  <2> QED BY <2>2, <2>3
<1> QED BY <1>1, <1>2

\* getFirstKana (line 228) returns a code point of the word, or nothing.
LEMMA FirstKanaType ==
    ASSUME NEW u \in Text
    PROVE  getFirstKana(u) \in CodePoint \cup {NoKana}
<1>1. CASE FirstFull(u) = {}
  BY <1>1 DEF getFirstKana
<1>2. CASE FirstFull(u) # {}
  <2> DEFINE i == CHOOSE i \in FirstFull(u) : TRUE
  <2>1. i \in DOMAIN u
    BY <1>2 DEF FirstFull
  <2>2. getFirstKana(u) = u[i]
    BY <1>2 DEF getFirstKana
  <2> HIDE DEF i
  <2>3. u[i] \in CodePoint
    BY <2>1 DEF Text
  <2> QED BY <2>2, <2>3
<1> QED BY <1>1, <1>2

\* findRelevantWord (line 74) returns an entry of the answer that has the word for
\* a spelling, or none.
LEMMA FoundEntry ==
    ASSUME NEW word \in Text, NEW response \in Seq(Entry)
    PROVE  LET e == findRelevantWord(word, response)
           IN  \/ e = NoEntry
               \/ \E i \in DOMAIN response : e = response[i] /\ word \in Spellings(e)
<1> DEFINE Hit(e) == e.readings # <<>> /\ word \in Spellings(e)
           found  == FirstIn(response, Hit)
<1>1. found \subseteq {i \in DOMAIN response : word \in Spellings(response[i])}
  BY DEF FirstIn
<1>2. CASE found = {}
  BY <1>2 DEF findRelevantWord
<1>3. CASE found # {}
  <2>1. findRelevantWord(word, response) = response[The(found)]
    BY <1>3 DEF findRelevantWord
  <2>2. The(found) \in found
    BY <1>3 DEF The
  <2> QED BY <2>1, <2>2, <1>1
<1> QED BY <1>2, <1>3

LEMMA NoEntryType == NoEntry \in Entry
BY DEF NoEntry, Entry, Text

LEMMA FoundEntryType ==
    ASSUME NEW word \in Text, NEW response \in Seq(Entry)
    PROVE  findRelevantWord(word, response) \in Entry
BY FoundEntry, NoEntryType

LEMMA ReadingsType == ASSUME NEW e \in Entry PROVE Readings(e) \subseteq Text
BY DEF Readings, Entry

LEMMA SpellingsType == ASSUME NEW e \in Entry PROVE Spellings(e) \subseteq Text
BY ReadingsType DEF Spellings, Entry

\* findRelevantReading (line 110) returns one of the entry's readings, or the empty
\* word when there is none.
LEMMA FoundReading ==
    ASSUME NEW word \in Text, NEW e \in Entry, NEW kana
    PROVE  LET r == findRelevantReading(word, kana, e.readings)
           IN  r \in Text /\ (r = <<>> \/ r \in Readings(e))
<1> DEFINE Hit(r)   == StartsWith(r, kana)
           starting == FirstIn(e.readings, Hit)
           r        == findRelevantReading(word, kana, e.readings)
<1>1. e.readings \in Seq(Text)
  BY DEF Entry
<1>2. CASE \E i \in DOMAIN e.readings : e.readings[i] = word
  <2>1. r = word
    BY <1>2 DEF findRelevantReading
  <2> QED BY <2>1, <1>2, <1>1 DEF Readings
<1>3. CASE e.readings = <<>>
  <2>1. ~\E i \in DOMAIN e.readings : e.readings[i] = word
    BY <1>3
  <2>2. starting = {}
    BY <1>3 DEF FirstIn
  <2>3. r = <<>>
    BY <2>1, <2>2, <1>3 DEF findRelevantReading
  <2> QED BY <2>3 DEF Text
<1>4. CASE /\ ~\E i \in DOMAIN e.readings : e.readings[i] = word
           /\ e.readings # <<>>
  <2>1. r = IF starting # {} THEN e.readings[The(starting)] ELSE e.readings[1]
    BY <1>4 DEF findRelevantReading
  <2>2. starting \subseteq DOMAIN e.readings
    BY DEF FirstIn
  <2>3. starting # {} => The(starting) \in DOMAIN e.readings
    BY <2>2 DEF The
  <2>4. 1 \in DOMAIN e.readings
    BY <1>1, <1>4
  <2>5. \E i \in DOMAIN e.readings : r = e.readings[i]
    BY <2>1, <2>3, <2>4
  <2> QED BY <2>5, <1>1 DEF Readings
<1> QED BY <1>2, <1>3, <1>4

LEMMA StoredType ==
    ASSUME NEW e \in Entry, NEW r \in Text
    PROVE  Stored(e, r) \in Entry
BY DEF Stored, Entry

\* What handleWord accepts (lines 317-362): a noun of the answer in one of its
\* spellings, read so that it joins the chain and does not end in ん.
LEMMA JudgedOK ==
    ASSUME NEW word \in Text, NEW response \in Seq(Entry), NEW kana,
           Judge(word, response, kana).status = "OK"
    PROVE  LET j == Judge(word, response, kana)
           IN  /\ j.entry \in Entry /\ j.reading \in Text
               /\ j.next \in CodePoint /\ j.next # NN
               /\ toHiragana(getFirstKana(j.reading)) = kana
               /\ j.next = toHiragana(getLastKana(j.reading))
               /\ getLastKana(j.reading) \in CodePoint
               /\ \E i \in DOMAIN response :
                     /\ response[i].noun /\ word \in Spellings(response[i])
                     /\ j.reading \in Readings(response[i])
                     /\ j.entry = Stored(response[i], j.reading)
<1> DEFINE j       == Judge(word, response, kana)
           e       == findRelevantWord(word, response)
           reading == findRelevantReading(word, kana, e.readings)
           first   == getFirstKana(reading)
           last    == getLastKana(reading)
<1>1. /\ e # NoEntry /\ e.noun /\ reading # <<>> /\ last # NoKana
      /\ first # NoKana /\ toHiragana(first) = kana /\ toHiragana(last) # NN
  BY DEF Judge
<1>2. /\ j.entry = Stored(e, reading) /\ j.reading = reading
      /\ j.next = toHiragana(last)
  BY DEF Judge
<1>3. e \in Entry /\ \E i \in DOMAIN response : e = response[i] /\ word \in Spellings(e)
  BY <1>1, FoundEntry, FoundEntryType
<1>4. reading \in Text /\ reading \in Readings(e)
  BY <1>1, <1>3, FoundReading
<1>5. last \in CodePoint /\ toHiragana(last) \in CodePoint
  BY <1>1, <1>4, LastKanaType, HiraganaType
<1>6. Stored(e, reading) \in Entry
  BY <1>3, <1>4, StoredType
<1> HIDE DEF j, e, reading, first, last
<1>7. PICK i \in DOMAIN response : e = response[i] /\ word \in Spellings(e)
  BY <1>3
<1> QED BY <1>1, <1>2, <1>4, <1>5, <1>6, <1>7 DEF j, first, last

-----------------------------------------------------------------------------
InHiragana(u) == [i \in DOMAIN u |-> toHiragana(u[i])]

LEMMA KindKept ==
    ASSUME NEW c \in CodePoint
    PROVE  /\ isLongVowel(toHiragana(c)) <=> isLongVowel(c)
           /\ isSmallKana(toHiragana(c)) <=> isSmallKana(c)
<1>1. c \in Int
  BY MaxCodePointNat DEF CodePoint
<1>2. isLongVowel(toHiragana(c)) <=> isLongVowel(c)
  BY <1>1, SMT DEF toHiragana, isLongVowel
<1>3. isSmallKana(toHiragana(c)) <=> isSmallKana(c)
  BY <1>1, SMT DEF toHiragana, isSmallKana
<1> QED BY <1>2, <1>3

LEMMA HiraganaTwice ==
    ASSUME NEW c \in CodePoint PROVE toHiragana(toHiragana(c)) = toHiragana(c)
<1>1. c \in Int
  BY MaxCodePointNat DEF CodePoint
<1> QED BY <1>1, SMT DEF toHiragana

LEMMA NoKanaKept == toHiragana(NoKana) = NoKana
BY SMT DEF toHiragana, NoKana

\* The script does not matter: whatever is typed, converting a whole reading to
\* hiragana before getFirstKana and getLastKana (lines 204-246) gives what
\* handleWord gets (lines 337-348) by converting the two kana they pick.
THEOREM ScriptIndependence ==
    ASSUME NEW u \in Text
    PROVE  /\ getLastKana(InHiragana(u)) = toHiragana(getLastKana(u))
           /\ getFirstKana(InHiragana(u)) = toHiragana(getFirstKana(u))
<1> DEFINE h == InHiragana(u)
<1>1. /\ DOMAIN h = DOMAIN u
      /\ \A i \in DOMAIN u : u[i] \in CodePoint /\ h[i] = toHiragana(u[i])
  BY DEF InHiragana, Text
<1>2. \A i \in DOMAIN u : /\ isLongVowel(h[i]) <=> isLongVowel(u[i])
                          /\ isSmallKana(h[i]) <=> isSmallKana(u[i])
                          /\ Skipped(h[i]) <=> Skipped(u[i])
  BY <1>1, KindKept DEF Skipped
<1> HIDE DEF h
<1>3. getLastKana(h) = toHiragana(getLastKana(u))
  <2>1. LastSounded(h) = LastSounded(u)
    <3>1. \A i : i \in LastSounded(h) <=> i \in LastSounded(u)
      BY <1>1, <1>2, Zenon DEF LastSounded
    <3> QED BY <3>1, Zenon
  <2>2. CASE LastSounded(u) = {}
    BY <2>1, <2>2, NoKanaKept DEF getLastKana
  <2>3. CASE LastSounded(u) # {}
    <3> DEFINE i == CHOOSE i \in LastSounded(u) : TRUE
    <3>1. i \in DOMAIN u /\ (i > 1 => i - 1 \in DOMAIN u)
      BY <2>3 DEF LastSounded, Text
    <3>2. getLastKana(u) = IF isSmallKana(u[i]) /\ i > 1 THEN u[i - 1] ELSE u[i]
      BY <2>3 DEF getLastKana
    <3>3. getLastKana(h) = IF isSmallKana(h[i]) /\ i > 1 THEN h[i - 1] ELSE h[i]
      BY <2>1, <2>3 DEF getLastKana
    <3>4. isSmallKana(h[i]) <=> isSmallKana(u[i])
      BY <3>1, <1>2
    <3>5. h[i] = toHiragana(u[i]) /\ (i > 1 => h[i - 1] = toHiragana(u[i - 1]))
      BY <3>1, <1>1
    <3> HIDE DEF i
    <3>6. CASE isSmallKana(u[i]) /\ i > 1
      BY <3>2, <3>3, <3>4, <3>5, <3>6, Zenon
    <3>7. CASE ~(isSmallKana(u[i]) /\ i > 1)
      BY <3>2, <3>3, <3>4, <3>5, <3>7, Zenon
    <3> QED BY <3>6, <3>7
  <2> QED BY <2>2, <2>3
<1>4. getFirstKana(h) = toHiragana(getFirstKana(u))
  <2>1. FirstFull(h) = FirstFull(u)
    <3>1. \A i : i \in FirstFull(h) <=> i \in FirstFull(u)
      BY <1>1, <1>2, Zenon DEF FirstFull
    <3> QED BY <3>1, Zenon
  <2>2. CASE FirstFull(u) = {}
    BY <2>1, <2>2, NoKanaKept DEF getFirstKana
  <2>3. CASE FirstFull(u) # {}
    <3> DEFINE i == CHOOSE i \in FirstFull(u) : TRUE
    <3>1. i \in DOMAIN u
      BY <2>3 DEF FirstFull
    <3>2. getFirstKana(u) = u[i] /\ getFirstKana(h) = h[i]
      BY <2>1, <2>3 DEF getFirstKana
    <3> QED BY <3>1, <3>2, <1>1
  <2> QED BY <2>2, <2>3
<1> QED BY <1>3, <1>4 DEF h

\* Whatever kana GameFabric draws (game_fabric.cpp:6-25), a game can begin with it: it
\* is a Japanese code point as handleWord compares them, in hiragana and neither ん nor
\* one that getFirstKana passes over, so that a word of that kana joins.
THEOREM DrawnKanaCanStart ==
    ASSUME NEW k \in allowedHiragana
    PROVE  /\ k \in CodePoint /\ k # NN /\ isJapaneseChar(k)
           /\ toHiragana(k) = k
           /\ getFirstKana(<<k>>) = k
<1>1. k \in CodePoint /\ k # NN /\ isJapaneseChar(k)
  <2>1. k \in \h3042..\h308F
    BY SMT DEF allowedHiragana
  <2>2. k # NN
    BY <2>1, SMT DEF NN
  <2>3. isJapaneseChar(k)
    BY <2>1, SMT DEF isJapaneseChar
  <2>4. k \in CodePoint
    <3>1. k \in Nat /\ k <= \h308F
      BY <2>1, SMT
    <3>2. \h308F <= MaxCodePoint
      BY SMT DEF MaxCodePoint
    <3> QED BY <3>1, <3>2, MaxCodePointNat, SMT DEF CodePoint
  <2> QED BY <2>2, <2>3, <2>4, Zenon
<1>2. toHiragana(k) = k
  BY SMT DEF allowedHiragana, toHiragana
<1>3. ~Skipped(k)
  BY SMT DEF allowedHiragana, Skipped, isLongVowel, isSmallKana
<1>4. FirstFull(<<k>>) = {1}
  BY <1>3 DEF FirstFull
<1>5. getFirstKana(<<k>>) = k
  BY <1>4 DEF getFirstKana
<1> QED BY <1>1, <1>2, <1>5

-----------------------------------------------------------------------------
(***************************************************************************)
(* What the scans find.                                                    *)
(***************************************************************************)

\* The backward scan of getLastKana (lines 204-226) stops at one index, unless there
\* are only marks.
LEMMA LastSoundedIndex ==
    ASSUME NEW s \in Text, NEW i \in LastSounded(s)
    PROVE  getLastKana(s) = IF isSmallKana(s[i]) /\ i > 1 THEN s[i - 1] ELSE s[i]
<1>1. \A j \in LastSounded(s) : j = i
  <2> SUFFICES ASSUME NEW j \in LastSounded(s) PROVE j = i
    OBVIOUS
  <2>1. i \in 1..Len(s) /\ j \in 1..Len(s)
    BY DEF LastSounded, Text
  <2>2. ~(i < j) /\ ~(j < i)
    BY <2>1 DEF LastSounded, Text
  <2> QED BY <2>1, <2>2
<1>2. (CHOOSE j \in LastSounded(s) : TRUE) = i
  BY <1>1
<1> QED BY <1>2 DEF getLastKana

LEMMA LastSoundedFound ==
    ASSUME NEW s \in Text, NEW j \in DOMAIN s, ~isLongVowel(s[j])
    PROVE  \E i \in LastSounded(s) : j <= i
<1> DEFINE T == {i \in DOMAIN s : ~isLongVowel(s[i])}
<1>1. DOMAIN s = 1..Len(s) /\ Len(s) \in Nat
  BY DEF Text
<1>2. PICK i \in T : \A k \in T : k <= i
  <2>1. T \subseteq 1..Len(s) /\ T # {}
    BY <1>1
  <2> HIDE DEF T
  <2> QED BY <1>1, <2>1, GreatestNumber
<1>3. ASSUME NEW k \in DOMAIN s, k > i PROVE isLongVowel(s[k])
  <2>1. k \in Int /\ i \in Int
    BY <1>1
  <2>2. k \in T => k <= i
    BY <1>2
  <2> QED BY <1>3, <2>1, <2>2
<1>4. i \in LastSounded(s)
  BY <1>3 DEF LastSounded
<1> QED BY <1>2, <1>4

\* The forward scan of getFirstKana (lines 228-246) stops at the first kana, where
\* there is one to stop at.
LEMMA FirstKanaOf ==
    ASSUME NEW s \in Text, s # <<>>, ~Skipped(s[1])
    PROVE  getFirstKana(s) = s[1]
<1>1. DOMAIN s = 1..Len(s) /\ 1 \in DOMAIN s
  BY DEF Text
<1>2. 1 \in FirstFull(s)
  BY <1>1 DEF FirstFull
<1>3. \A i \in FirstFull(s) : i = 1
  BY <1>1 DEF FirstFull
<1> QED BY <1>2, <1>3 DEF getFirstKana

\* findRelevantReading (lines 110-133) finds a reading that starts with the kana, when
\* the word was typed in kanji and there is one.
LEMMA ReadingThatStarts ==
    ASSUME NEW word \in Text, NEW e \in Entry, NEW kana,
           word \notin Readings(e),
           NEW r \in Readings(e), StartsWith(r, kana)
    PROVE  LET found == findRelevantReading(word, kana, e.readings)
           IN  found \in Text /\ StartsWith(found, kana)
<1> DEFINE Hit(s)   == StartsWith(s, kana)
           T        == {i \in DOMAIN e.readings : Hit(e.readings[i])}
           starting == FirstIn(e.readings, Hit)
<1>1. e.readings \in Seq(Text) /\ DOMAIN e.readings \subseteq Nat
  BY DEF Entry
<1>2. PICK i \in T : \A j \in T : i <= j
  <2>1. T \subseteq Nat /\ T # {}
    BY <1>1 DEF Readings
  <2> HIDE DEF T
  <2> QED BY <2>1, LeastNumber
<1>3. i \in starting
  <2>1. ASSUME NEW j \in DOMAIN e.readings, j < i PROVE ~Hit(e.readings[j])
    <3>1. j \in Nat /\ i \in Nat
      BY <1>1
    <3>2. j \in T => i <= j
      BY <1>2
    <3> QED BY <2>1, <3>1, <3>2
  <2> QED BY <2>1 DEF FirstIn
<1>4. The(starting) \in starting
  BY <1>3 DEF The
<1>5. The(starting) \in DOMAIN e.readings /\ StartsWith(e.readings[The(starting)], kana)
  BY <1>4 DEF FirstIn
<1>6. findRelevantReading(word, kana, e.readings) = e.readings[The(starting)]
  <2>1. ~\E j \in DOMAIN e.readings : e.readings[j] = word
    BY DEF Readings
  <2> QED BY <1>3, <2>1 DEF findRelevantReading
<1> QED BY <1>1, <1>5, <1>6

\* Refused as not joining (lines 337-348): no reading of the entry would have joined,
\* when the word was typed in kanji.
LEMMA HonestRefusal ==
    ASSUME NEW word \in Text, NEW response \in Seq(Entry), NEW kana,
           ~Skipped(kana), toHiragana(kana) = kana,
           Judge(word, response, kana).status = "CANT_JOIN_WORDS",
           word \notin Readings(findRelevantWord(word, response)),
           NEW r \in Readings(findRelevantWord(word, response))
    PROVE  ~StartsWith(r, kana)
<1> SUFFICES ASSUME StartsWith(r, kana) PROVE FALSE
  OBVIOUS
<1> DEFINE e       == findRelevantWord(word, response)
           reading == findRelevantReading(word, kana, e.readings)
<1>1. reading = <<>> \/ getFirstKana(reading) = NoKana \/ toHiragana(getFirstKana(reading)) # kana
  BY DEF Judge
<1>2. reading \in Text /\ StartsWith(reading, kana)
  <2>1. e \in Entry
    BY FoundEntryType
  <2> HIDE DEF e
  <2> QED BY <2>1, ReadingThatStarts DEF e
<1>3. reading # <<>> /\ reading[1] = kana /\ kana \in CodePoint
  BY <1>2 DEF StartsWith, Text
<1> HIDE DEF reading
<1>4. getFirstKana(reading) = kana
  BY <1>2, <1>3, FirstKanaOf
<1>5. kana # NoKana
  BY <1>3, MaxCodePointNat DEF CodePoint, NoKana
<1> QED BY <1>1, <1>3, <1>4, <1>5

\* What is kept of an entry has its readings, and every spelling of it.
LEMMA StoredSpellings ==
    ASSUME NEW e \in Entry, NEW reading
    PROVE  /\ Readings(Stored(e, reading)) = Readings(e)
           /\ Spellings(e) \ {<<>>} \subseteq Spellings(Stored(e, reading))
           /\ reading \in Readings(e) =>
                 /\ Spellings(Stored(e, reading)) \subseteq Spellings(e)
                 /\ <<>> \notin Readings(e) => <<>> \notin Spellings(Stored(e, reading))
<1>1. Stored(e, reading).readings = e.readings
  BY DEF Stored, Entry
<1>2. Readings(Stored(e, reading)) = Readings(e)
  BY <1>1 DEF Readings
<1>3. Stored(e, reading).kanji = IF e.kanji = <<>> THEN reading ELSE e.kanji
  BY DEF Stored, Entry
<1> QED BY <1>2, <1>3 DEF Spellings
=============================================================================
