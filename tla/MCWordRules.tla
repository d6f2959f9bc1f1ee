----------------------------- MODULE MCWordRules -----------------------------
(***************************************************************************)
(* Checks the kana rules and the word rules on every dictionary answer     *)
(* over a small alphabet.  The state is an answer of the dictionary that   *)
(* grows by one kana, one spelling or one entry at a time; the invariants  *)
(* quantify over the word typed and the kana the chain stands at.          *)
(***************************************************************************)
EXTENDS Dictionary, SequencesExt

CONSTANTS Alphabet,     \* code points the readings are made of
          MaxKana,      \* bound on the kana of all readings of the grown entry
          MaxSpellings  \* bound on its spellings

ASSUME AlphabetAssumption == Alphabet \subseteq CodePoint

\* Two kanji (車, 俥) and an entry that precedes the grown one in some answers:
\* 車, written so or read くん.
KU     == \h304F
KA     == \h304B
Kanji  == <<\h8ECA>>
Kanji2 == <<\h4FE5>>
Earlier == [japanese |-> <<[word |-> Kanji, reading |-> <<KU, KA>>], [reading |-> <<KU, NN>>]>>,
            senses   |-> <<{Noun}>>]

VARIABLE answer   \* what jisho.org has sent

response == jsonToWords(answer)

Here  == Len(answer)
Grown == answer # <<>> /\ answer[Here] # Earlier

KanaOf(entry) ==
    FoldLeft(LAMBDA n, s : n + (IF Has(s, "reading") THEN Len(s.reading) ELSE 0), 0, entry.japanese)

Init == answer \in {<<>>, <<Earlier>>}

NewEntry ==
    /\ ~Grown
    /\ \E senses \in {<<{}>>, <<{}, {Noun}>>} :
          answer' = Append(answer, [japanese |-> <<>>, senses |-> senses])

\* A spelling in kanji alone, in kana alone, or in both; the second has kanji of its
\* own.
NewSpelling ==
    /\ Grown
    /\ Len(answer[Here].japanese) < MaxSpellings
    /\ LET k == IF answer[Here].japanese = <<>> THEN Kanji ELSE Kanji2
           Add(spelling) == answer' = [answer EXCEPT ![Here].japanese = Append(@, spelling)]
       IN  \/ Add([word |-> k])
           \/ /\ KanaOf(answer[Here]) < MaxKana
              /\ \E c \in Alphabet :
                    Add([reading |-> <<c>>]) \/ Add([word |-> k, reading |-> <<c>>])

NewKana ==
    /\ Grown
    /\ KanaOf(answer[Here]) < MaxKana
    /\ LET spellings == answer[Here].japanese
       IN  /\ spellings # <<>> /\ Has(Last(spellings), "reading")
           /\ \E c \in Alphabet :
                 answer' = [answer EXCEPT ![Here].japanese =
                               [spellings EXCEPT ![Len(spellings)].reading = Append(@, c)]]

Next == NewEntry \/ NewSpelling \/ NewKana
Spec == Init /\ [][Next]_answer

-----------------------------------------------------------------------------
\* The reading in the making.
u == IF answer = <<>> \/ answer[Here].japanese = <<>>
        \/ ~Has(Last(answer[Here].japanese), "reading")
     THEN <<>> ELSE Last(answer[Here].japanese).reading

\* getLastKana read as text: drop the marks at the end one by one, then look
\* at the last kana that is left.
WithoutTrailingMarks(s) ==
    LET left[n \in 0..Len(s)] == IF n > 0 /\ isLongVowel(s[n]) THEN left[n - 1] ELSE n
    IN  SubSeq(s, 1, left[Len(s)])

LastByStripping(s) ==
    LET t == WithoutTrailingMarks(s)
    IN  CASE t = <<>>                           -> NoKana
          [] Len(t) > 1 /\ isSmallKana(Last(t)) -> t[Len(t) - 1]
          [] OTHER                              -> Last(t)

\* getLastKana's backward scan (lines 204-226) finds the kana that is last once
\* trailing marks are dropped, and nothing exactly for strings of marks.
LastKanaIsLast == getLastKana(u) = LastByStripping(u)

\* Written Japanese: a small kana follows a full kana, a long vowel mark
\* follows any kana, and neither begins a word.
WellWritten(s) ==
    \A i \in DOMAIN s :
        Skipped(s[i]) => /\ i > 1
                         /\ isSmallKana(s[i]) => ~Skipped(s[i - 1])

\* The kana the next word must start with is one a word can start with: after a
\* well written reading, handleWord (line 367) never leaves ctx_.lastKana on a
\* mark or a small kana, which getFirstKana would never return.
NextWordCanStart ==
    u # <<>> /\ WellWritten(u) =>
        LET k == toHiragana(getLastKana(u)) IN getFirstKana(<<k>>) = k

-----------------------------------------------------------------------------
\* What may be typed when the dictionary answers `response`.
Typed == {Kanji, Kanji2} \cup UNION {Readings(response[i]) : i \in DOMAIN response}
Kanas == {toHiragana(c) : c \in Alphabet}

\* An accepted word continues the chain: it was typed as a spelling of the entry
\* kept, one of that entry's readings starts with the kana the chain stood at,
\* and the kana it leaves is neither ん nor missing (lines 332-362).
AcceptedWordJoins ==
    \A word \in Typed, k \in Kanas :
        LET j == Judge(word, response, k)
        IN  j.status = "OK" =>
              /\ word \in Spellings(j.entry)
              /\ j.reading \in Readings(j.entry)
              /\ toHiragana(getFirstKana(j.reading)) = k
              /\ j.next = toHiragana(LastByStripping(j.reading))
              /\ j.next \notin {NN, NoKana}

Hiragana(s) == [i \in DOMAIN s |-> toHiragana(s[i])]
AllHiragana(e) ==
    [e EXCEPT !.kanji = Hiragana(@), !.readings = [i \in DOMAIN @ |-> Hiragana(@[i])]]

\* The script does not matter for a word typed in kana, nor for one that can be read
\* in one way only: had the word been typed in hiragana and the dictionary answered
\* in hiragana, the verdict and the next kana would be the same, although handleWord
\* (lines 337-348) converts only the two kana it has picked.  A word typed in kanji
\* that has several readings is not meant: findRelevantReading (line 126) compares
\* their first kana as written, and passes over the one in katakana.
ScriptIndependent ==
    \A word \in Typed, k \in Kanas :
        LET e == findRelevantWord(word, response)
            j == Judge(word, response, k)
            h == Judge(Hiragana(word), <<AllHiragana(e)>>, k)
        IN  word \in Readings(e) \/ Len(e.readings) = 1
              => h.status = j.status /\ h.next = j.next

\* Once a word is accepted, no spelling the dictionary resolves to the same entry
\* is accepted again: the entry kept blocks the kanji and every reading, for
\* whichever of them is typed next (lines 135-154 with 374-382).
KeptEntryBlocksReplay ==
    \A word \in Typed, k \in Kanas :
        LET j == Judge(word, response, k)
        IN  j.status = "OK" =>
              \A again \in Typed :
                  LET f == findRelevantWord(again, response)
                  IN  f # NoEntry /\ Stored(f, j.reading) = j.entry
                        => isWordDoubled(again, <<j.entry>>)

\* A word refused as not joining had no reading to join with: when kanji were
\* typed, no reading of the entry starts, as written, with the kana asked for
\* (findRelevantReading, lines 110-133, looks past the first reading).
RefusalIsHonest ==
    \A word \in Typed, k \in Kanas :
        LET e == findRelevantWord(word, response)
        IN  /\ Judge(word, response, k).status = "CANT_JOIN_WORDS"
            /\ word \notin Readings(e)
            /\ ~Skipped(k)
            => \A r \in Readings(e) : ~StartsWith(r, k)

\* What an entry of the dictionary itself gives.
WordsOf(entry)    == {s.word : s \in {t \in Range(entry.japanese) : Has(t, "word")}}
ReadingsOf(entry) == {s.reading : s \in {t \in Range(entry.japanese) : Has(t, "reading")}}
PartsOf(entry)    == UNION Range(entry.senses)

\* What is accepted and kept comes from one entry of the dictionary: that entry is a
\* noun, and the word as typed, the reading that joins and every spelling kept for
\* later are its own, never those of another entry of the answer
\* (jisho.cpp:57-91 with game_session.cpp:317-382).
AcceptedFromOneEntry ==
    \A word \in Typed, k \in Kanas :
        LET j == Judge(word, response, k)
        IN  j.status = "OK" =>
              \E i \in DOMAIN answer :
                  /\ Noun \in PartsOf(answer[i])
                  /\ j.reading \in ReadingsOf(answer[i])
                  /\ word \in Spellings(j.entry)
                  /\ Spellings(j.entry) \subseteq WordsOf(answer[i]) \cup ReadingsOf(answer[i])
=============================================================================
