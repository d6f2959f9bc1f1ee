-------------------------- MODULE MCWordRulesProofs --------------------------
(***************************************************************************)
(* The word rules hold for every answer of the dictionary, over any        *)
(* alphabet and however long: proofs about jsonToWords, the scans and the  *)
(* verdict on a word together.                                             *)
(***************************************************************************)
EXTENDS MCWordRules, WordRulesProofs, SequenceTheorems

\* A spelling in kanji, in kana or in both; what is there is not empty.
Written  == Text \ {<<>>}
Spelling == [word : Written] \cup [reading : Written] \cup [word : Written, reading : Written]
JsonEntry == [japanese : Seq(Spelling), senses : Seq(SUBSET {Noun})]

AnswerType == answer \in Seq(JsonEntry)

LEMMA CodePoints ==
    /\ Kanji \in Written /\ Kanji2 \in Written
    /\ <<KU, KA>> \in Written /\ <<KU, NN>> \in Written
    /\ \A c \in Alphabet : <<c>> \in Written
<1>0. \A n \in Nat : n <= MaxCodePoint => n \in CodePoint
  BY MaxCodePointNat DEF CodePoint
<1>1. KU \in CodePoint /\ KA \in CodePoint /\ NN \in CodePoint
  <2>1. /\ KU \in Nat /\ KU <= MaxCodePoint /\ KA \in Nat /\ KA <= MaxCodePoint
        /\ NN \in Nat /\ NN <= MaxCodePoint
    BY SMT DEF KU, KA, NN, MaxCodePoint
  <2> QED BY <1>0, <2>1
<1>2. \h8ECA \in CodePoint /\ \h4FE5 \in CodePoint
  <2>1. /\ \h8ECA \in Nat /\ \h8ECA <= MaxCodePoint
        /\ \h4FE5 \in Nat /\ \h4FE5 <= MaxCodePoint
    BY SMT DEF MaxCodePoint
  <2> QED BY <1>0, <2>1
<1>3. \A c \in CodePoint : <<c>> \in Written
  BY DEF Written, Text
<1>4. \A c, d \in CodePoint : <<c, d>> \in Written
  BY DEF Written, Text
<1> QED BY <1>1, <1>2, <1>3, <1>4, AlphabetAssumption DEF Kanji, Kanji2

LEMMA SpellingFields ==
    ASSUME NEW s \in Spelling
    PROVE  /\ Has(s, "word") => s.word \in Written
           /\ Has(s, "reading") => s.reading \in Written
           /\ Has(s, "word") \/ Has(s, "reading")
BY DEF Spelling, Has

LEMMA EarlierType == Earlier \in JsonEntry
<1>1. [word |-> Kanji, reading |-> <<KU, KA>>] \in Spelling
  BY CodePoints DEF Spelling
<1>2. [reading |-> <<KU, NN>>] \in Spelling
  BY CodePoints DEF Spelling
<1> QED BY <1>1, <1>2 DEF Earlier, JsonEntry

LEMMA InitAnswer == Init => AnswerType
<1>1. <<>> \in Seq(JsonEntry) /\ <<Earlier>> \in Seq(JsonEntry)
  BY EarlierType
<1> QED BY <1>1 DEF Init, AnswerType

LEMMA LastEntry ==
    ASSUME AnswerType, answer # <<>>
    PROVE  Here \in DOMAIN answer /\ answer[Here] \in JsonEntry
BY DEF AnswerType, Here

\* The spellings of the last entry are replaced.
LEMMA LastEntryGrows ==
    ASSUME AnswerType, answer # <<>>, NEW spellings \in Seq(Spelling),
           answer' = [answer EXCEPT ![Here].japanese = spellings]
    PROVE  AnswerType'
<1>1. Here \in DOMAIN answer /\ answer[Here] \in JsonEntry
  BY LastEntry
<1>2. PICK e : e = [answer[Here] EXCEPT !.japanese = spellings]
  OBVIOUS
<1>3. e \in JsonEntry
  BY <1>1, <1>2 DEF JsonEntry
<1>4. answer' = [answer EXCEPT ![Here] = e]
  BY <1>2
<1> QED BY <1>1, <1>3, <1>4, ExceptSeq, SMTT(30) DEF AnswerType, Here

LEMMA NewEntryAnswer == AnswerType /\ NewEntry => AnswerType'
<1> SUFFICES ASSUME AnswerType, NewEntry PROVE AnswerType'
  OBVIOUS
<1>1. PICK senses \in {<<{}>>, <<{}, {Noun}>>} :
         answer' = Append(answer, [japanese |-> <<>>, senses |-> senses])
  BY DEF NewEntry
<1>2. senses \in Seq(SUBSET {Noun})
  <2>1. <<{}>> \in Seq(SUBSET {Noun}) /\ <<{}, {Noun}>> \in Seq(SUBSET {Noun})
    OBVIOUS
  <2> QED BY <2>1
<1>3. [japanese |-> <<>>, senses |-> senses] \in JsonEntry
  BY <1>2 DEF JsonEntry
<1> QED BY <1>1, <1>3, AppendProperties DEF AnswerType

LEMMA NewSpellingAnswer == AnswerType /\ NewSpelling => AnswerType'
<1> SUFFICES ASSUME AnswerType, NewSpelling PROVE AnswerType'
  OBVIOUS
<1>1. answer # <<>> /\ answer[Here].japanese \in Seq(Spelling)
  BY LastEntry DEF NewSpelling, Grown, JsonEntry
<1>2. ASSUME NEW spelling \in Spelling,
             answer' = [answer EXCEPT ![Here].japanese = Append(@, spelling)]
      PROVE  AnswerType'
  <2>1. Append(answer[Here].japanese, spelling) \in Seq(Spelling)
    BY <1>1, AppendProperties
  <2>2. PICK spellings \in Seq(Spelling) : spellings = Append(answer[Here].japanese, spelling)
    BY <2>1
  <2>3. answer' = [answer EXCEPT ![Here].japanese = spellings]
    BY <1>2, <2>2
  <2> QED BY <1>1, <2>3, LastEntryGrows
<1>3. PICK k : k = (IF answer[Here].japanese = <<>> THEN Kanji ELSE Kanji2)
  OBVIOUS
<1>4. k \in Written
  BY <1>3, CodePoints
<1>5. [word |-> k] \in Spelling
  BY <1>4 DEF Spelling
<1>6. \A c \in Alphabet : [reading |-> <<c>>] \in Spelling /\ [word |-> k, reading |-> <<c>>] \in Spelling
  BY <1>4, CodePoints DEF Spelling
<1>7. \E spelling \in Spelling : answer' = [answer EXCEPT ![Here].japanese = Append(@, spelling)]
  BY <1>3, <1>5, <1>6, Zenon DEF NewSpelling
<1> QED BY <1>2, <1>7

LEMMA NewKanaAnswer == AnswerType /\ NewKana => AnswerType'
<1> SUFFICES ASSUME AnswerType, NewKana PROVE AnswerType'
  OBVIOUS
<1>1. PICK js : js = answer[Here].japanese
  OBVIOUS
<1>2. answer # <<>> /\ js \in Seq(Spelling) /\ js # <<>> /\ Has(js[Len(js)], "reading")
  BY <1>1, LastEntry DEF NewKana, Grown, JsonEntry, Last
<1>3. PICK c \in Alphabet :
         answer' = [answer EXCEPT ![Here].japanese = [js EXCEPT ![Len(js)].reading = Append(@, c)]]
  BY <1>1 DEF NewKana
<1>4. PICK s : s = js[Len(js)]
  OBVIOUS
<1>5. Len(js) \in DOMAIN js /\ s \in Spelling /\ s.reading \in Written
  BY <1>2, <1>4, SpellingFields
<1>6. PICK longer : longer = Append(s.reading, c)
  OBVIOUS
<1>7. longer \in Written
  <2>1. c \in CodePoint
    BY AlphabetAssumption
  <2> QED BY <1>5, <1>6, <2>1, AppendProperties DEF Written, Text
<1>8. PICK grown : grown = [s EXCEPT !.reading = longer]
  OBVIOUS
<1>9. grown \in Spelling
  BY <1>2, <1>4, <1>5, <1>7, <1>8 DEF Spelling, Has
<1>10. PICK spellings : spellings = [js EXCEPT ![Len(js)] = grown]
  OBVIOUS
<1>11. spellings \in Seq(Spelling)
  BY <1>2, <1>5, <1>9, <1>10, ExceptSeq
<1>12. answer' = [answer EXCEPT ![Here].japanese = spellings]
  <2>1. spellings = [js EXCEPT ![Len(js)].reading = Append(@, c)]
    BY <1>4, <1>6, <1>8, <1>10
  <2> QED BY <1>3, <2>1
<1> QED BY <1>2, <1>11, <1>12, LastEntryGrows

LEMMA AnswerHolds == Spec => []AnswerType
<1>1. AnswerType /\ [Next]_answer => AnswerType'
  BY NewEntryAnswer, NewSpellingAnswer, NewKanaAnswer DEF Next, AnswerType
<1> QED BY InitAnswer, <1>1, PTL DEF Spec

-----------------------------------------------------------------------------
(* JishoDict::jsonToWords *)

LEMMA OwnSpellings ==
    ASSUME NEW e \in JsonEntry
    PROVE  /\ e.japanese \in Seq(Spelling)
           /\ ReadingsOf(e) \subseteq Written /\ WordsOf(e) \subseteq Written
           /\ \A i \in DOMAIN e.japanese :
                 /\ Has(e.japanese[i], "reading") => e.japanese[i].reading \in ReadingsOf(e)
                 /\ Has(e.japanese[i], "word") => e.japanese[i].word \in WordsOf(e)
<1>1. e.japanese \in Seq(Spelling)
  BY DEF JsonEntry
<1>2. \A t \in Range(e.japanese) : t \in Spelling
  BY <1>1 DEF Range
<1>3. ReadingsOf(e) \subseteq Written /\ WordsOf(e) \subseteq Written
  BY <1>2, SpellingFields DEF ReadingsOf, WordsOf
<1> QED BY <1>1, <1>3 DEF ReadingsOf, WordsOf, Range

\* The loop over the spellings (jisho.cpp:61-72) collects the entry's own readings.
LEMMA ReadingsCollected ==
    ASSUME NEW e \in JsonEntry
    PROVE  toWord(e).readings \in Seq(ReadingsOf(e))
<1> DEFINE js == e.japanese
           S  == Seq(ReadingsOf(e))
           Turn(n, r) == IF Has(js[n], "reading") THEN Append(r, js[n].reading) ELSE r
           loop == CHOOSE read : read = [n \in 0..Len(js) |->
                                           IF n = 0 THEN <<>>
                                           ELSE IF Has(js[n], "reading")
                                                THEN Append(read[n - 1], js[n].reading)
                                           ELSE read[n - 1]]
<1>1. Len(js) \in Nat /\ DOMAIN js = 1..Len(js) /\ <<>> \in S
  BY OwnSpellings
<1>2. \A n \in 1..Len(js), r \in S : Turn(n, r) \in S
  BY <1>1, OwnSpellings, AppendProperties
<1>3. PICK step : step = [p \in (1..Len(js)) \X S |-> Turn(p[1], p[2])]
  OBVIOUS
<1>4. step \in [(1..Len(js)) \X S -> S]
  <2> HIDE DEF js, S, Turn
  <2> QED BY <1>2, <1>3
<1>5. PICK f \in [0..Len(js) -> S] :
         f[0] = <<>> /\ \A n \in 1..Len(js) : f[n] = step[<<n, f[n - 1]>>]
  <2> HIDE DEF js, S, Turn
  <2>1. \E f : Loop(f, Len(js), S, <<>>, step)
    BY <1>1, <1>4, LoopExists
  <2> QED BY <2>1 DEF Loop
<1>6. ASSUME NEW n \in 1..Len(js) PROVE f[n] = Turn(n, f[n - 1])
  <2>1. n - 1 \in 0..Len(js)
    BY <1>1
  <2>2. f[n - 1] \in S /\ <<n, f[n - 1]>> \in (1..Len(js)) \X S
    BY <1>5, <2>1
  <2> HIDE DEF js, S, Turn
  <2> QED BY <1>3, <1>5, <2>2
<1>7. f = [n \in 0..Len(js) |-> IF n = 0 THEN <<>>
                                ELSE IF Has(js[n], "reading")
                                     THEN Append(f[n - 1], js[n].reading)
                                ELSE f[n - 1]]
  <2>1. \A n \in 0..Len(js) : n = 0 \/ n \in 1..Len(js)
    BY <1>1
  <2>2. \A n \in 0..Len(js) :
           f[n] = IF n = 0 THEN <<>>
                  ELSE IF Has(js[n], "reading") THEN Append(f[n - 1], js[n].reading)
                  ELSE f[n - 1]
    BY <1>5, <1>6, <2>1
  <2> QED BY <1>5, <2>2
<1>8. loop = [n \in 0..Len(js) |-> IF n = 0 THEN <<>>
                                   ELSE IF Has(js[n], "reading")
                                        THEN Append(loop[n - 1], js[n].reading)
                                   ELSE loop[n - 1]]
  BY <1>7
<1>9. toWord(e).readings = loop[Len(js)]
  BY Zenon DEF toWord
<1> HIDE DEF loop
<1>10. loop[0] = <<>> /\ \A n \in 1..Len(js) : loop[n] = Turn(n, loop[n - 1])
  <2>1. 0 \in 0..Len(js) /\ \A n \in 1..Len(js) : n \in 0..Len(js) /\ n # 0
    BY <1>1
  <2> HIDE DEF js
  <2> QED BY <1>8, <2>1
<1>11. \A n \in 0..Len(js) : loop[n] \in S
  <2> DEFINE good == {n \in 0..Len(js) : loop[n] \in S}
  <2>1. 0 \in good /\ \A n \in 1..Len(js) : n - 1 \in good => n \in good
    <3>1. 0 \in 0..Len(js) /\ \A n \in 1..Len(js) : n \in 0..Len(js)
      BY <1>1
    <3>2. \A n \in 1..Len(js) : loop[n - 1] \in S => loop[n] \in S
      <4> HIDE DEF js, S, Turn
      <4> QED BY <1>2, <1>10
    <3> HIDE DEF js, S
    <3> QED BY <1>1, <1>10, <3>1, <3>2
  <2>2. \A n \in 0..Len(js) : n \in good
    <3> HIDE DEF js, good
    <3> QED BY <1>1, <2>1, EveryTurn
  <2> QED BY <2>2
<1> QED BY <1>1, <1>9, <1>11

\* One entry of the dictionary becomes one entry of the rules, out of its own
\* spellings and parts of speech.
LEMMA OneEntry ==
    ASSUME NEW e \in JsonEntry
    PROVE  /\ toWord(e) \in Entry
           /\ Readings(toWord(e)) \subseteq ReadingsOf(e)
           /\ Spellings(toWord(e)) \subseteq {<<>>} \cup WordsOf(e) \cup ReadingsOf(e)
           /\ toWord(e).noun => Noun \in PartsOf(e)
<1> DEFINE w  == toWord(e)
           js == e.japanese
           Hit(s)  == Has(s, "word") /\ s.word # <<>>
           written == FirstIn(js, Hit)
<1>1. w.readings \in Seq(ReadingsOf(e)) /\ ReadingsOf(e) \subseteq Text /\ WordsOf(e) \subseteq Text
  BY ReadingsCollected, OwnSpellings DEF Written
<1>2. w.readings \in Seq(Text)
  BY <1>1
<1>3. w.kanji = (IF written = {} THEN <<>> ELSE js[The(written)].word)
  BY DEF toWord
<1>4. w.kanji = <<>> \/ w.kanji \in WordsOf(e)
  <2>1. written # {} => The(written) \in written
    BY DEF The
  <2>2. \A i \in written : i \in DOMAIN js /\ Has(js[i], "word")
    BY DEF FirstIn
  <2> HIDE DEF written
  <2> QED BY <1>3, <2>1, <2>2, OwnSpellings
<1>5. w.noun \in BOOLEAN /\ (w.noun => Noun \in PartsOf(e))
  <2>1. w.noun = (\E i \in DOMAIN e.senses : Noun \in e.senses[i])
    BY DEF toWord
  <2>2. w.noun \in BOOLEAN
    BY <2>1, Zenon
  <2>3. w.noun => \E i \in DOMAIN e.senses : Noun \in e.senses[i]
    BY <2>1, Zenon
  <2> QED BY <2>2, <2>3 DEF PartsOf, Range
<1>6. w = [kanji |-> w.kanji, readings |-> w.readings, noun |-> w.noun]
  BY DEF toWord
<1>7. <<>> \in Text
  BY DEF Text
<1> HIDE DEF w
<1>8. w \in Entry
  BY <1>1, <1>2, <1>4, <1>5, <1>6, <1>7 DEF Entry
<1>9. Readings(w) \subseteq ReadingsOf(e)
  BY <1>1 DEF Readings
<1>10. Spellings(w) \subseteq {<<>>} \cup WordsOf(e) \cup ReadingsOf(e)
  BY <1>4, <1>9 DEF Spellings
<1> QED BY <1>5, <1>8, <1>9, <1>10 DEF w

\* The answer as the rules see it: an entry for each entry.
LEMMA ResponseType ==
    ASSUME AnswerType
    PROVE  /\ response \in Seq(Entry)
           /\ DOMAIN response = DOMAIN answer
           /\ \A i \in DOMAIN answer : answer[i] \in JsonEntry /\ response[i] = toWord(answer[i])
           /\ \A i \in DOMAIN response : Readings(response[i]) \subseteq Written
<1>1. /\ DOMAIN answer = 1..Len(answer) /\ Len(answer) \in Nat
      /\ \A i \in DOMAIN answer : answer[i] \in JsonEntry
  BY DEF AnswerType
<1>2. response = [i \in DOMAIN answer |-> toWord(answer[i])]
  BY DEF response, jsonToWords
<1>3. \A i \in DOMAIN answer : toWord(answer[i]) \in Entry
  BY <1>1, OneEntry
<1>4. response \in Seq(Entry)
  BY <1>1, <1>2, <1>3
<1>5. \A i \in DOMAIN response : Readings(response[i]) \subseteq Written
  <2> SUFFICES ASSUME NEW i \in DOMAIN response PROVE Readings(response[i]) \subseteq Written
    OBVIOUS
  <2>1. answer[i] \in JsonEntry /\ response[i] = toWord(answer[i])
    BY <1>1, <1>2
  <2> QED BY <2>1, OneEntry, OwnSpellings
<1> QED BY <1>1, <1>2, <1>4, <1>5

-----------------------------------------------------------------------------
(* The scans *)

\* The loop that drops the marks leaves the word up to the index where the backward
\* scan stops.
LEMMA MarksDropped ==
    ASSUME NEW s \in Text
    PROVE  \E m \in 0..Len(s) :
              /\ WithoutTrailingMarks(s) = SubSeq(s, 1, m)
              /\ m = 0 \/ ~isLongVowel(s[m])
              /\ \A j \in 1..Len(s) : j > m => isLongVowel(s[j])
<1> DEFINE N == Len(s)
           left == CHOOSE f : f = [n \in 0..N |-> IF n > 0 /\ isLongVowel(s[n]) THEN f[n - 1] ELSE n]
<1>1. N \in Nat /\ DOMAIN s = 1..N
  BY DEF Text
<1>2. PICK step : step = [p \in (1..N) \X (0..N) |-> IF isLongVowel(s[p[1]]) THEN p[2] ELSE p[1]]
  OBVIOUS
<1>3. step \in [(1..N) \X (0..N) -> 0..N]
  <2> HIDE DEF N
  <2> QED BY <1>1, <1>2
<1>4. PICK f : Loop(f, N, 0..N, 0, step)
  <2>1. 0 \in 0..N
    BY <1>1
  <2> HIDE DEF N
  <2> QED BY <1>1, <1>3, <2>1, LoopExists
<1>5. f = [n \in 0..N |-> IF n > 0 /\ isLongVowel(s[n]) THEN f[n - 1] ELSE n]
  <2>1. ASSUME NEW n \in 1..N PROVE f[n] = IF isLongVowel(s[n]) THEN f[n - 1] ELSE n
    <3>1. n - 1 \in 0..N
      BY <1>1
    <3>2. <<n, f[n - 1]>> \in (1..N) \X (0..N) /\ f[n] = step[<<n, f[n - 1]>>]
      BY <1>4, <3>1 DEF Loop
    <3> HIDE DEF N
    <3> QED BY <1>2, <3>2
  <2>2. f[0] = 0 /\ f \in [0..N -> 0..N]
    BY <1>4 DEF Loop
  <2>3. \A n \in 0..N : f[n] = IF n > 0 /\ isLongVowel(s[n]) THEN f[n - 1] ELSE n
    <3>1. \A n \in 0..N : n = 0 \/ (n \in 1..N /\ n > 0)
      BY <1>1
    <3> QED BY <2>1, <2>2, <3>1
  <2> QED BY <2>2, <2>3
<1>6. left = [n \in 0..N |-> IF n > 0 /\ isLongVowel(s[n]) THEN left[n - 1] ELSE n]
  BY <1>5
<1>7. WithoutTrailingMarks(s) = SubSeq(s, 1, left[N])
  BY Zenon DEF WithoutTrailingMarks
<1> HIDE DEF left
<1>8. left[0] = 0 /\ \A n \in 1..N : left[n] = IF isLongVowel(s[n]) THEN left[n - 1] ELSE n
  <2>1. 0 \in 0..N /\ \A n \in 1..N : n \in 0..N /\ n > 0
    BY <1>1
  <2> QED BY <1>6, <2>1
<1> DEFINE Right(n) == /\ left[n] \in 0..n
                       /\ left[n] = 0 \/ ~isLongVowel(s[left[n]])
                       /\ \A j \in 1..n : j > left[n] => isLongVowel(s[j])
           good == {n \in 0..N : Right(n)}
<1>9. 0 \in good
  BY <1>1, <1>8
<1>10. ASSUME NEW n \in 1..N, n - 1 \in good PROVE n \in good
  <2>1. n \in 0..N /\ n \in Nat /\ Right(n - 1)
    BY <1>1, <1>10
  <2>2. PICK m \in 0..(n - 1) : m = left[n - 1]
    BY <2>1
  <2>3. CASE isLongVowel(s[n])
    <3>1. left[n] = m /\ m \in 0..n
      BY <1>8, <2>1, <2>2, <2>3
    <3>2. \A j \in 1..n : j = n \/ j \in 1..(n - 1)
      BY <2>1
    <3> QED BY <2>1, <2>2, <2>3, <3>1, <3>2
  <2>4. CASE ~isLongVowel(s[n])
    <3>1. left[n] = n
      BY <1>8, <2>4
    <3> QED BY <2>1, <2>4, <3>1
  <2> QED BY <2>3, <2>4
<1>11. Right(N)
  <2>1. \A n \in 0..N : n \in good
    <3> HIDE DEF N, good
    <3> QED BY <1>1, <1>9, <1>10, EveryTurn
  <2> QED BY <1>1, <2>1
<1> QED BY <1>7, <1>11

\* Read as text, getLastKana is the last kana once the marks are dropped.
LEMMA StrippingAgrees ==
    ASSUME NEW s \in Text
    PROVE  getLastKana(s) = LastByStripping(s)
<1>1. Len(s) \in Nat /\ DOMAIN s = 1..Len(s)
  BY DEF Text
<1>2. PICK m \in 0..Len(s) :
         /\ WithoutTrailingMarks(s) = SubSeq(s, 1, m)
         /\ m = 0 \/ ~isLongVowel(s[m])
         /\ \A j \in 1..Len(s) : j > m => isLongVowel(s[j])
  BY MarksDropped
<1>3. PICK t : t = WithoutTrailingMarks(s)
  OBVIOUS
<1>4. t \in Seq(CodePoint) /\ Len(t) = m /\ \A i \in 1..m : t[i] = s[i]
  <2>1. m \in Int /\ 1 \in Int /\ \A i \in 1..m : s[i] \in CodePoint
    BY <1>1 DEF Text
  <2>2. s \in Seq(CodePoint) /\ t = SubSeq(s, 1, m)
    BY <1>2, <1>3 DEF Text
  <2>3. t \in Seq(CodePoint)
    BY <2>1, <2>2, SubSeqProperties
  <2>4. Len(t) = m
    BY <1>1, <2>2
  <2>5. \A i \in 1..m : t[i] = s[i]
    BY <1>1, <2>2
  <2> QED BY <2>3, <2>4, <2>5
<1>5. LastByStripping(s) = CASE t = <<>>                           -> NoKana
                             [] Len(t) > 1 /\ isSmallKana(Last(t)) -> t[Len(t) - 1]
                             [] OTHER                              -> Last(t)
  BY <1>3 DEF LastByStripping
<1>6. CASE m = 0
  <2>1. t = <<>>
    BY <1>4, <1>6, EmptySeq
  <2>2. LastSounded(s) = {}
    BY <1>1, <1>2, <1>6 DEF LastSounded
  <2>3. getLastKana(s) = NoKana
    BY <2>2 DEF getLastKana
  <2>4. ~(Len(t) > 1)
    BY <1>4, <1>6
  <2> QED BY <1>5, <2>1, <2>3, <2>4
<1>7. CASE m # 0
  <2>1. m \in 1..Len(s) /\ m \in LastSounded(s)
    BY <1>1, <1>2, <1>7 DEF LastSounded
  <2>2. t # <<>> /\ Last(t) = s[m]
    BY <1>4, <1>7, <2>1 DEF Last
  <2>3. getLastKana(s) = IF isSmallKana(s[m]) /\ m > 1 THEN s[m - 1] ELSE s[m]
    BY <2>1, LastSoundedIndex
  <2>4. CASE m > 1 /\ isSmallKana(s[m])
    <3>1. t[Len(t) - 1] = s[m - 1]
      BY <1>4, <2>1, <2>4
    <3>2. Len(t) > 1 /\ isSmallKana(Last(t))
      BY <1>4, <2>2, <2>4
    <3> QED BY <1>5, <2>2, <2>3, <2>4, <3>1, <3>2
  <2>5. CASE ~(m > 1 /\ isSmallKana(s[m]))
    BY <1>4, <1>5, <2>2, <2>3, <2>5
  <2> QED BY <2>4, <2>5
<1> QED BY <1>6, <1>7

LEMMA GrownReading == ASSUME AnswerType PROVE u \in Text
<1>1. <<>> \in Text
  BY DEF Text
<1>2. CASE answer = <<>> \/ answer[Here].japanese = <<>> \/ ~Has(Last(answer[Here].japanese), "reading")
  BY <1>1, <1>2 DEF u
<1>3. CASE /\ answer # <<>> /\ answer[Here].japanese # <<>>
           /\ Has(Last(answer[Here].japanese), "reading")
  <2>1. answer[Here].japanese \in Seq(Spelling)
    BY <1>3, LastEntry DEF JsonEntry
  <2>2. Last(answer[Here].japanese) \in Spelling
    BY <1>3, <2>1 DEF Last
  <2>3. u = Last(answer[Here].japanese).reading
    BY <1>3 DEF u
  <2> QED BY <1>3, <2>2, <2>3, SpellingFields DEF Written
<1> QED BY <1>2, <1>3

\* getLastKana (lines 204-226), for readings of any length over any alphabet.
THEOREM ScanIsRight == Spec => []LastKanaIsLast
<1>1. AnswerType => LastKanaIsLast
  BY GrownReading, StrippingAgrees DEF LastKanaIsLast
<1> QED BY <1>1, AnswerHolds, PTL

\* What the next word must start with (line 367) is a kana that getFirstKana can
\* return, after any well written reading.
THEOREM GameCanGoOn == Spec => []NextWordCanStart
<1>1. ASSUME AnswerType, u # <<>>, WellWritten(u)
      PROVE  LET k == toHiragana(getLastKana(u)) IN getFirstKana(<<k>>) = k
  <2>1. u \in Text /\ DOMAIN u = 1..Len(u) /\ 1 \in DOMAIN u
    BY <1>1, GrownReading DEF Text
  <2>2. ~Skipped(u[1])
    BY <1>1, <2>1 DEF WellWritten
  <2>3. PICK i : i \in LastSounded(u)
    BY <2>1, <2>2, LastSoundedFound DEF Skipped
  <2>4. i \in 1..Len(u) /\ ~isLongVowel(u[i])
    BY <2>1, <2>3 DEF LastSounded
  <2>5. PICK c : c = getLastKana(u)
    OBVIOUS
  <2>6. c = IF isSmallKana(u[i]) /\ i > 1 THEN u[i - 1] ELSE u[i]
    BY <2>1, <2>3, <2>5, LastSoundedIndex
  <2>7. c \in CodePoint /\ ~Skipped(c)
    <3>1. CASE isSmallKana(u[i])
      <4>1. i > 1 /\ ~Skipped(u[i - 1])
        BY <1>1, <2>1, <2>4, <3>1 DEF WellWritten, Skipped
      <4>2. u[i - 1] \in CodePoint
        BY <2>1, <2>4, <4>1 DEF Text
      <4> QED BY <2>6, <3>1, <4>1, <4>2
    <3>2. CASE ~isSmallKana(u[i])
      BY <2>1, <2>4, <2>6, <3>2 DEF Skipped, Text
    <3> QED BY <3>1, <3>2
  <2>8. PICK k : k = toHiragana(c)
    OBVIOUS
  <2>9. k \in CodePoint /\ ~Skipped(k)
    BY <2>7, <2>8, HiraganaType, KindKept DEF Skipped
  <2>10. <<k>> \in Text /\ <<k>> # <<>> /\ <<k>>[1] = k
    BY <2>9 DEF Text
  <2>11. getFirstKana(<<k>>) = k
    BY <2>9, <2>10, FirstKanaOf
  <2> QED BY <2>5, <2>8, <2>11
<1>2. AnswerType => NextWordCanStart
  BY <1>1 DEF NextWordCanStart
<1> QED BY <1>2, AnswerHolds, PTL

-----------------------------------------------------------------------------
(* The verdict on a word *)

LEMMA WhatIsTyped ==
    ASSUME AnswerType, NEW word \in Typed, NEW k \in Kanas
    PROVE  /\ word \in Text /\ word # <<>>
           /\ k \in CodePoint /\ toHiragana(k) = k
<1>1. word \in Written
  BY ResponseType, CodePoints DEF Typed
<1>2. PICK c \in Alphabet : k = toHiragana(c)
  BY DEF Kanas
<1>3. c \in CodePoint
  BY AlphabetAssumption
<1> QED BY <1>1, <1>2, <1>3, HiraganaType, HiraganaTwice DEF Written

-----------------------------------------------------------------------------
(* The script *)

LEMMA HiraganaText == ASSUME NEW s \in Text PROVE Hiragana(s) \in Text
<1>1. \A i \in DOMAIN s : toHiragana(s[i]) \in CodePoint
  BY HiraganaType DEF Text
<1> QED BY <1>1 DEF Hiragana, Text

\* The entry in hiragana has the same readings, each in hiragana.
LEMMA HiraganaEntry ==
    ASSUME NEW e \in Entry
    PROVE  LET f == AllHiragana(e)
           IN  /\ f \in Entry /\ f.noun = e.noun /\ f.kanji = Hiragana(e.kanji)
               /\ f.readings = [i \in DOMAIN e.readings |-> Hiragana(e.readings[i])]
               /\ Len(f.readings) = Len(e.readings)
               /\ \A s \in Spellings(e) : Hiragana(s) \in Spellings(f)
               /\ \A s \in Readings(e) : Hiragana(s) \in Readings(f)
<1>1. PICK f : f = AllHiragana(e)
  OBVIOUS
<1>2. e.readings \in Seq(Text) /\ e.kanji \in Text /\ e.noun \in BOOLEAN
  BY DEF Entry
<1>3. /\ f = [kanji |-> Hiragana(e.kanji), noun |-> e.noun,
              readings |-> [i \in DOMAIN e.readings |-> Hiragana(e.readings[i])]]
  BY <1>1 DEF AllHiragana, Entry
<1>4. PICK rs : rs = [i \in DOMAIN e.readings |-> Hiragana(e.readings[i])]
  OBVIOUS
<1>5. \A i \in 1..Len(e.readings) : Hiragana(e.readings[i]) \in Text
  BY <1>2, HiraganaText
<1>6. rs \in Seq(Text) /\ Len(rs) = Len(e.readings)
  BY <1>2, <1>4, <1>5
<1>7. f \in Entry /\ f.noun = e.noun /\ f.kanji = Hiragana(e.kanji) /\ f.readings = rs
  BY <1>2, <1>3, <1>4, <1>6, HiraganaText DEF Entry
<1>8. \A s \in Readings(e) : Hiragana(s) \in Readings(f)
  <2> SUFFICES ASSUME NEW i \in DOMAIN e.readings PROVE Hiragana(e.readings[i]) \in Readings(f)
    BY DEF Readings
  <2>1. i \in DOMAIN f.readings /\ f.readings[i] = Hiragana(e.readings[i])
    BY <1>4, <1>7
  <2> QED BY <2>1 DEF Readings
<1> QED BY <1>1, <1>4, <1>6, <1>7, <1>8 DEF Spellings

\* An answer of one entry: it is the entry meant by each of its spellings.
LEMMA OnlyEntryFound ==
    ASSUME NEW word, NEW e \in Entry, e.readings # <<>>, word \in Spellings(e)
    PROVE  findRelevantWord(word, <<e>>) = e
<1> DEFINE Hit(f) == f.readings # <<>> /\ word \in Spellings(f)
           found  == FirstIn(<<e>>, Hit)
<1>1. DOMAIN <<e>> = {1} /\ <<e>>[1] = e
  OBVIOUS
<1>2. found = {1}
  BY <1>1 DEF FirstIn
<1>3. findRelevantWord(word, <<e>>) = IF found = {} THEN NoEntry ELSE <<e>>[The(found)]
  BY DEF findRelevantWord
<1> HIDE DEF found
<1> QED BY <1>1, <1>2, <1>3 DEF The

\* The reading taken for a word typed in kana is that word; of one reading there is
\* no choice.
LEMMA ReadingWithoutChoice ==
    ASSUME NEW word, NEW kana, NEW rs \in Seq(Text),
           (\E i \in DOMAIN rs : rs[i] = word) \/ Len(rs) = 1
    PROVE  findRelevantReading(word, kana, rs)
             = IF \E i \in DOMAIN rs : rs[i] = word THEN word ELSE rs[1]
<1> DEFINE Hit(r)   == StartsWith(r, kana)
           starting == FirstIn(rs, Hit)
<1>1. findRelevantReading(word, kana, rs)
        = IF \E i \in DOMAIN rs : rs[i] = word THEN word
          ELSE IF starting # {} THEN rs[The(starting)]
          ELSE IF rs = <<>> THEN <<>> ELSE rs[1]
  BY DEF findRelevantReading
<1>2. CASE \E i \in DOMAIN rs : rs[i] = word
  <2> HIDE DEF starting
  <2> QED BY <1>1, <1>2, Zenon
<1>3. CASE ~(\E i \in DOMAIN rs : rs[i] = word)
  <2>1. Len(rs) = 1 /\ DOMAIN rs = {1} /\ rs # <<>>
    <3>1. Len(rs) = 1
      BY <1>3, Zenon
    <3>2. DOMAIN rs = 1..Len(rs)
      OBVIOUS
    <3> QED BY <3>1, <3>2
  <2>2. starting \subseteq {1}
    BY <2>1 DEF FirstIn
  <2>3. starting # {} => The(starting) = 1
    BY <2>2 DEF The
  <2> HIDE DEF starting
  <2> QED BY <1>1, <1>3, <2>1, <2>3
<1> QED BY <1>2, <1>3

\* Typed and answered in hiragana, the same reading is taken.
LEMMA SameReading ==
    ASSUME NEW word \in Text, NEW kana, NEW e \in Entry,
           word \in Readings(e) \/ Len(e.readings) = 1
    PROVE  /\ findRelevantReading(word, kana, e.readings) \in Text
           /\ findRelevantReading(Hiragana(word), kana, AllHiragana(e).readings)
                = Hiragana(findRelevantReading(word, kana, e.readings))
<1>1. PICK f \in Entry : /\ f = AllHiragana(e)
                         /\ f.readings = [i \in DOMAIN e.readings |-> Hiragana(e.readings[i])]
                         /\ Len(f.readings) = Len(e.readings)
                         /\ \A s \in Readings(e) : Hiragana(s) \in Readings(f)
  BY HiraganaEntry
<1>2. e.readings \in Seq(Text) /\ f.readings \in Seq(Text)
  BY DEF Entry
<1>3. PICK r : r = findRelevantReading(word, kana, e.readings)
  OBVIOUS
<1>4. PICK h : h = findRelevantReading(Hiragana(word), kana, f.readings)
  OBVIOUS
<1>5. r \in Text
  BY <1>3, FoundReading
<1>6. CASE word \in Readings(e)
  <2>1. r = word
    BY <1>2, <1>3, <1>6, ReadingWithoutChoice DEF Readings
  <2>2. Hiragana(word) \in Readings(f)
    BY <1>1, <1>6
  <2>3. h = Hiragana(word)
    BY <1>2, <1>4, <2>2, ReadingWithoutChoice DEF Readings
  <2> QED BY <1>1, <1>3, <1>4, <1>5, <2>1, <2>3
<1>7. CASE word \notin Readings(e)
  <2>1. Len(e.readings) = 1 /\ Len(f.readings) = 1
    BY <1>1, <1>7
  <2>2. r = e.readings[1]
    BY <1>2, <1>3, <1>7, <2>1, ReadingWithoutChoice DEF Readings
  <2>3. f.readings[1] = Hiragana(r)
    BY <1>1, <1>2, <2>1, <2>2
  <2>4. DOMAIN f.readings = {1}
    BY <1>2, <2>1
  <2>5. h = IF \E i \in DOMAIN f.readings : f.readings[i] = Hiragana(word)
            THEN Hiragana(word) ELSE f.readings[1]
    BY <1>2, <1>4, <2>1, ReadingWithoutChoice
  <2>6. h = f.readings[1]
    BY <2>4, <2>5
  <2> QED BY <1>1, <1>3, <1>4, <1>5, <2>3, <2>6
<1> QED BY <1>6, <1>7

\* A word typed in kana, or with one reading, is judged alike in both scripts: the
\* same verdict, and the same kana for the next word (lines 317-367).
THEOREM ScriptIsIndependent == Spec => []ScriptIndependent
<1>1. ASSUME AnswerType, NEW word \in Typed, NEW k \in Kanas,
             NEW e, e = findRelevantWord(word, response),
             word \in Readings(e) \/ Len(e.readings) = 1
      PROVE  /\ Judge(Hiragana(word), <<AllHiragana(e)>>, k).status = Judge(word, response, k).status
             /\ Judge(Hiragana(word), <<AllHiragana(e)>>, k).next = Judge(word, response, k).next
  <2>1. word \in Text /\ response \in Seq(Entry) /\ toHiragana(k) = k
    BY <1>1, WhatIsTyped, ResponseType
  <2>2. e \in Entry /\ e.readings \in Seq(Text)
    BY <1>1, <2>1, FoundEntryType DEF Entry
  <2>3. e.readings # <<>>
    <3>1. ASSUME e.readings = <<>> PROVE FALSE
      <4>1. DOMAIN e.readings = {} /\ Len(e.readings) = 0
        BY <3>1
      <4>2. Readings(e) = {}
        BY <4>1 DEF Readings
      <4> QED BY <1>1, <4>1, <4>2
    <3> QED BY <3>1
  <2>4. e # NoEntry /\ word \in Spellings(e)
    <3>1. e # NoEntry
      BY <2>3 DEF NoEntry
    <3> QED BY <1>1, <2>1, <3>1, FoundEntry
  <2>5. PICK f \in Entry : /\ f = AllHiragana(e) /\ f.noun = e.noun
                           /\ f.readings # <<>> /\ Hiragana(word) \in Spellings(f)
    <3>1. AllHiragana(e) \in Entry /\ AllHiragana(e).noun = e.noun
          /\ Len(AllHiragana(e).readings) = Len(e.readings)
          /\ Hiragana(word) \in Spellings(AllHiragana(e))
      BY <2>2, <2>4, HiraganaEntry
    <3>2. Len(e.readings) # 0
      BY <2>2, <2>3
    <3>3. AllHiragana(e).readings # <<>>
      BY <3>1, <3>2
    <3> QED BY <3>1, <3>3
  <2>6. findRelevantWord(Hiragana(word), <<f>>) = f /\ f # NoEntry
    BY <2>5, OnlyEntryFound DEF NoEntry
  <2>7. PICK r \in Text : /\ r = findRelevantReading(word, k, e.readings)
                          /\ Hiragana(r) = findRelevantReading(Hiragana(word), k, f.readings)
    BY <1>1, <2>1, <2>2, <2>5, SameReading
  <2>8. r = <<>> <=> Hiragana(r) = <<>>
    BY DEF Hiragana, Text
  <2>9. /\ getLastKana(Hiragana(r)) = toHiragana(getLastKana(r))
        /\ getFirstKana(Hiragana(r)) = toHiragana(getFirstKana(r))
    BY ScriptIndependence DEF Hiragana, InHiragana
  <2>10. PICK first, last : first = getFirstKana(r) /\ last = getLastKana(r)
    OBVIOUS
  <2>11. first \in CodePoint \cup {NoKana} /\ last \in CodePoint \cup {NoKana}
    BY <2>10, LastKanaType, FirstKanaType
  <2>12. /\ first = NoKana <=> toHiragana(first) = NoKana
         /\ last = NoKana <=> toHiragana(last) = NoKana
         /\ toHiragana(toHiragana(first)) = toHiragana(first)
         /\ toHiragana(toHiragana(last)) = toHiragana(last)
    <3>1. \A c \in CodePoint : toHiragana(c) # NoKana
      BY HiraganaType, MaxCodePointNat DEF CodePoint, NoKana
    <3> QED BY <2>11, <3>1, NoKanaKept, HiraganaTwice
  <2>13. Judge(word, response, k).status
           = IF e = NoEntry THEN "NO_FOUND_WORD"
             ELSE IF ~e.noun THEN "NO_SPEACH_PART"
             ELSE IF r = <<>> THEN "CANT_JOIN_WORDS"
             ELSE IF last = NoKana THEN "GOT_ERROR"
             ELSE IF first = NoKana \/ toHiragana(first) # k THEN "CANT_JOIN_WORDS"
             ELSE IF toHiragana(last) = NN THEN "GOT_END_WORD"
             ELSE "OK"
    BY <1>1, <2>7, <2>10, Zenon DEF Judge
  <2>14. Judge(Hiragana(word), <<f>>, k).status
           = IF f = NoEntry THEN "NO_FOUND_WORD"
             ELSE IF ~f.noun THEN "NO_SPEACH_PART"
             ELSE IF Hiragana(r) = <<>> THEN "CANT_JOIN_WORDS"
             ELSE IF toHiragana(last) = NoKana THEN "GOT_ERROR"
             ELSE IF toHiragana(first) = NoKana \/ toHiragana(toHiragana(first)) # k
               THEN "CANT_JOIN_WORDS"
             ELSE IF toHiragana(toHiragana(last)) = NN THEN "GOT_END_WORD"
             ELSE "OK"
    BY <2>6, <2>7, <2>9, <2>10, Zenon DEF Judge
  <2>15. /\ Judge(word, response, k).next = toHiragana(last)
         /\ Judge(Hiragana(word), <<f>>, k).next = toHiragana(toHiragana(last))
    BY <1>1, <2>6, <2>7, <2>9, <2>10, Zenon DEF Judge
  <2>16. Judge(Hiragana(word), <<f>>, k).status = Judge(word, response, k).status
    BY <2>4, <2>5, <2>6, <2>8, <2>12, <2>13, <2>14
  <2> QED BY <2>5, <2>12, <2>15, <2>16
<1>2. AnswerType => ScriptIndependent
  BY <1>1 DEF ScriptIndependent
<1> QED BY <1>2, AnswerHolds, PTL

-----------------------------------------------------------------------------
(* Accepted and refused words *)

\* What an accepted word tells.
LEMMA AcceptedWord ==
    ASSUME AnswerType, NEW word \in Typed, NEW k \in Kanas,
           Judge(word, response, k).status = "OK"
    PROVE  LET j == Judge(word, response, k)
           IN  /\ word \in Spellings(j.entry)
               /\ j.reading \in Readings(j.entry)
               /\ toHiragana(getFirstKana(j.reading)) = k
               /\ j.next = toHiragana(getLastKana(j.reading))
               /\ j.reading \in Text /\ j.next \in CodePoint /\ j.next # NN
               /\ \E i \in DOMAIN answer :
                     /\ toWord(answer[i]).noun
                     /\ j.reading \in Readings(toWord(answer[i]))
                     /\ Spellings(j.entry) \subseteq Spellings(toWord(answer[i])) \ {<<>>}
<1> DEFINE j == Judge(word, response, k)
<1>1. word \in Text /\ word # <<>>
  BY WhatIsTyped
<1>2. response \in Seq(Entry) /\ DOMAIN response = DOMAIN answer
  BY ResponseType
<1>3. /\ j.entry \in Entry /\ j.reading \in Text
      /\ j.next \in CodePoint /\ j.next # NN
      /\ toHiragana(getFirstKana(j.reading)) = k
      /\ j.next = toHiragana(getLastKana(j.reading))
  BY <1>1, <1>2, JudgedOK
<1>4. PICK i \in DOMAIN response :
         /\ response[i].noun /\ word \in Spellings(response[i])
         /\ j.reading \in Readings(response[i])
         /\ j.entry = Stored(response[i], j.reading)
  BY <1>1, <1>2, JudgedOK
<1> HIDE DEF j
<1>5. /\ response[i] \in Entry /\ response[i] = toWord(answer[i])
      /\ <<>> \notin Readings(response[i])
  BY <1>2, ResponseType DEF Written
<1>6. /\ word \in Spellings(j.entry) /\ j.reading \in Readings(j.entry)
      /\ Spellings(j.entry) \subseteq Spellings(response[i]) \ {<<>>}
  BY <1>1, <1>4, <1>5, StoredSpellings
<1> QED BY <1>2, <1>3, <1>4, <1>5, <1>6 DEF j

\* handleWord (lines 332-362) accepts only what joins the chain.
THEOREM AcceptedJoins == Spec => []AcceptedWordJoins
<1>1. ASSUME AnswerType, NEW word \in Typed, NEW k \in Kanas,
             Judge(word, response, k).status = "OK"
      PROVE  LET j == Judge(word, response, k)
             IN  /\ word \in Spellings(j.entry)
                 /\ j.reading \in Readings(j.entry)
                 /\ toHiragana(getFirstKana(j.reading)) = k
                 /\ j.next = toHiragana(LastByStripping(j.reading))
                 /\ j.next \notin {NN, NoKana}
  <2> DEFINE j == Judge(word, response, k)
  <2>1. /\ word \in Spellings(j.entry) /\ j.reading \in Readings(j.entry)
        /\ toHiragana(getFirstKana(j.reading)) = k
        /\ j.next = toHiragana(getLastKana(j.reading))
        /\ j.reading \in Text /\ j.next \in CodePoint /\ j.next # NN
    BY <1>1, AcceptedWord
  <2> HIDE DEF j
  <2>2. j.next # NoKana
    BY <2>1, MaxCodePointNat DEF CodePoint, NoKana
  <2> QED BY <2>1, <2>2, StrippingAgrees DEF j
<1>2. AnswerType => AcceptedWordJoins
  BY <1>1 DEF AcceptedWordJoins
<1> QED BY <1>2, AnswerHolds, PTL

\* What words_ keeps of an entry (lines 374-382) blocks every spelling that
\* isWordDoubled (lines 135-154) may be asked about.
THEOREM ReplayIsBlocked == Spec => []KeptEntryBlocksReplay
<1>1. ASSUME AnswerType, NEW word \in Typed, NEW k \in Kanas, NEW again \in Typed,
             findRelevantWord(again, response) # NoEntry,
             NEW reading, NEW kept, Stored(findRelevantWord(again, response), reading) = kept
      PROVE  isWordDoubled(again, <<kept>>)
  <2> DEFINE f == findRelevantWord(again, response)
  <2>1. again \in Text /\ again # <<>> /\ response \in Seq(Entry)
    BY <1>1, WhatIsTyped, ResponseType
  <2>2. f \in Entry /\ again \in Spellings(f)
    BY <1>1, <2>1, FoundEntry, FoundEntryType
  <2> HIDE DEF f
  <2>3. again \in Spellings(Stored(f, reading))
    BY <2>1, <2>2, StoredSpellings
  <2>4. again \in Spellings(kept)
    BY <1>1, <2>3 DEF f
  <2> QED BY <2>4 DEF isWordDoubled
<1>2. AnswerType => KeptEntryBlocksReplay
  BY <1>1 DEF KeptEntryBlocksReplay
<1> QED BY <1>2, AnswerHolds, PTL

\* findRelevantReading (lines 110-133) misses no reading that would have joined.
THEOREM RefusalsAreHonest == Spec => []RefusalIsHonest
<1>1. ASSUME AnswerType, NEW word \in Typed, NEW k \in Kanas,
             Judge(word, response, k).status = "CANT_JOIN_WORDS",
             word \notin Readings(findRelevantWord(word, response)), ~Skipped(k),
             NEW r \in Readings(findRelevantWord(word, response))
      PROVE  ~StartsWith(r, k)
  <2>1. word \in Text /\ toHiragana(k) = k /\ response \in Seq(Entry)
    BY <1>1, WhatIsTyped, ResponseType
  <2> QED BY <1>1, <2>1, HonestRefusal
<1>2. AnswerType => RefusalIsHonest
  BY <1>1 DEF RefusalIsHonest
<1> QED BY <1>2, AnswerHolds, PTL

\* jsonToWords and handleWord together keep the entries of an answer apart.
THEOREM EntriesStayApart == Spec => []AcceptedFromOneEntry
<1>1. ASSUME AnswerType, NEW word \in Typed, NEW k \in Kanas,
             Judge(word, response, k).status = "OK"
      PROVE  LET j == Judge(word, response, k)
             IN  \E i \in DOMAIN answer :
                    /\ Noun \in PartsOf(answer[i])
                    /\ j.reading \in ReadingsOf(answer[i])
                    /\ word \in Spellings(j.entry)
                    /\ Spellings(j.entry) \subseteq WordsOf(answer[i]) \cup ReadingsOf(answer[i])
  <2> DEFINE j == Judge(word, response, k)
  <2>1. word \in Spellings(j.entry)
    BY <1>1, AcceptedWord
  <2>2. PICK i \in DOMAIN answer :
           /\ toWord(answer[i]).noun
           /\ j.reading \in Readings(toWord(answer[i]))
           /\ Spellings(j.entry) \subseteq Spellings(toWord(answer[i])) \ {<<>>}
    BY <1>1, AcceptedWord
  <2>3. answer[i] \in JsonEntry
    BY <1>1, ResponseType
  <2> HIDE DEF j
  <2> QED BY <2>1, <2>2, <2>3, OneEntry DEF j
<1>2. AnswerType => AcceptedFromOneEntry
  BY <1>1 DEF AcceptedFromOneEntry
<1> QED BY <1>2, AnswerHolds, PTL
=============================================================================
