----------------------------- MODULE Dictionary -----------------------------
(***************************************************************************)
(* JishoDict (repo/dicts/jisho.cpp): how an answer of jisho.org becomes    *)
(* the entries that the word rules judge.  The answer is the part of its   *)
(* JSON that the code reads: under "data" a sequence of entries, each with *)
(* spellings ("japanese"), which may have a "word", a "reading" or both,   *)
(* and senses, each a set of parts of speech here.  Definitions in English *)
(* are left out.  What cannot be read makes searchWord throw, which is     *)
(* GameSession's LookupFails.                                              *)
(***************************************************************************)
EXTENDS WordRules

Noun == "Noun"

Has(spelling, field) == field \in DOMAIN spelling

\* One turn of the loop: the first "word" that is not empty, every "reading" in
\* order, the parts of speech of all senses together.
toWord(entry) ==
    LET spellings == entry.japanese
        Written(spelling) == Has(spelling, "word") /\ spelling.word # <<>>
        written == FirstIn(spellings, Written)
        read[n \in 0..Len(spellings)] ==
            IF n = 0 THEN <<>>
            ELSE IF Has(spellings[n], "reading") THEN Append(read[n - 1], spellings[n].reading)
            ELSE read[n - 1]
    IN  [kanji    |-> IF written = {} THEN <<>> ELSE spellings[The(written)].word,
         readings |-> read[Len(spellings)],
         noun     |-> \E i \in DOMAIN entry.senses : Noun \in entry.senses[i]]

\* Fills one Word for all entries: the parts of speech of earlier ones stay.
WordsOfOneObject(answer) ==
    [i \in DOMAIN answer |->
        [toWord(answer[i]) EXCEPT !.noun = \E j \in 1..i : toWord(answer[j]).noun]]

jsonToWords(answer) == [i \in DOMAIN answer |-> toWord(answer[i])]
=============================================================================
