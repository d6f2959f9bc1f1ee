------------------------------ MODULE WordRules ------------------------------
(***************************************************************************)
(* What GameSession::handleWord decides of a word once the dictionary has  *)
(* answered: which entry and which reading are meant, whether the word was *)
(* used before, and whether it joins the chain.  An entry is the part of   *)
(* the code's Word the rules look at: the kanji spelling (<<>> when the    *)
(* dictionary gives none), the readings, and whether "Noun" is among the   *)
(* parts of speech.                                                        *)
(***************************************************************************)
EXTENDS Kana

Text  == Seq(CodePoint)
Entry == [kanji : Text, readings : Seq(Text), noun : BOOLEAN]

\* Word{}: no entry the code keeps is without readings (line 78), so this is
\* none of them.
NoEntry == [kanji |-> <<>>, readings |-> <<>>, noun |-> FALSE]

Readings(e)  == {e.readings[i] : i \in DOMAIN e.readings}
Spellings(e) == {e.kanji} \cup Readings(e)

\* The index set of the elements of s that a loop with an early return stops at.
FirstIn(s, Hit(_)) ==
    {i \in DOMAIN s : Hit(s[i]) /\ \A j \in DOMAIN s : j < i => ~Hit(s[j])}

The(S) == CHOOSE i \in S : TRUE

\* The first entry with a reading that is spelled `word` in kanji or in kana.
findRelevantWord(word, response) ==
    LET Hit(e) == e.readings # <<>> /\ word \in Spellings(e)
        found  == FirstIn(response, Hit)
    IN  IF found = {} THEN NoEntry ELSE response[The(found)]

StartsWith(r, c) == r # <<>> /\ r[1] = c

\* Takes the first reading whatever the chain needs.
FirstReading(word, firstKana, readings) ==
    IF readings = <<>> THEN <<>> ELSE readings[1]

\* The reading that was typed; else the first that starts with the kana, compared
\* as written; else the first of all.
findRelevantReading(word, firstKana, readings) ==
    LET Hit(r)   == StartsWith(r, firstKana)
        starting == FirstIn(readings, Hit)
    IN  IF \E i \in DOMAIN readings : readings[i] = word THEN word
        ELSE IF starting # {} THEN readings[The(starting)]
        ELSE IF readings = <<>> THEN <<>>
        ELSE readings[1]

\* Compares with the spelling of the used words' kanji alone.
DoubledByKanji(word, usedWords) ==
    \E i \in DOMAIN usedWords : word = usedWords[i].kanji

isWordDoubled(word, usedWords) ==
    \E i \in DOMAIN usedWords : word \in Spellings(usedWords[i])

\* The entry as words_ keeps it: a word without kanji is spelled by its reading.
Stored(e, reading) == IF e.kanji = <<>> THEN [e EXCEPT !.kanji = reading] ELSE e

\* As the code, but without the word's end looked at.
JudgeWithoutEnd(word, response, kana) ==
    LET e       == findRelevantWord(word, response)
        reading == findRelevantReading(word, kana, e.readings)
        first   == getFirstKana(reading)
        verdict == IF e = NoEntry THEN "NO_FOUND_WORD"
                   ELSE IF ~e.noun THEN "NO_SPEACH_PART"
                   ELSE IF first = NoKana \/ toHiragana(first) # kana THEN "CANT_JOIN_WORDS"
                   ELSE "OK"
    IN  [status |-> verdict, entry |-> Stored(e, reading), reading |-> reading,
         next |-> toHiragana(getLastKana(reading))]

\* Lines 317-362 and 374-377 of handleWord: the verdict on `word` when the chain
\* stands at `kana`, with the entry to be kept, its reading and the next kana.
Judge(word, response, kana) ==
    LET e       == findRelevantWord(word, response)
        reading == findRelevantReading(word, kana, e.readings)
        first   == getFirstKana(reading)
        last    == getLastKana(reading)
        verdict == IF e = NoEntry THEN "NO_FOUND_WORD"
                   ELSE IF ~e.noun THEN "NO_SPEACH_PART"
                   ELSE IF reading = <<>> THEN "CANT_JOIN_WORDS"
                   ELSE IF last = NoKana THEN "GOT_ERROR"
                   ELSE IF first = NoKana \/ toHiragana(first) # kana THEN "CANT_JOIN_WORDS"
                   ELSE IF toHiragana(last) = NN THEN "GOT_END_WORD"
                   ELSE "OK"
    IN  [status |-> verdict, entry |-> Stored(e, reading), reading |-> reading,
         next |-> toHiragana(last)]
=============================================================================
