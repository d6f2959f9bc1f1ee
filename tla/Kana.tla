-------------------------------- MODULE Kana --------------------------------
(***************************************************************************)
(* The kana rules of service/game_session.cpp.  A word or a reading is a   *)
(* sequence of Unicode code points (the code's std::u32string); the UTF-8  *)
(* form the code converts from and to is the same word and is left out.    *)
(* No operator is recursive, so that the modules above can be proved about.*)
(***************************************************************************)
EXTENDS Integers, Sequences

MaxCodePoint == \h10FFFF
CodePoint    == 0..MaxCodePoint

\* U'ん' and the absent optional<char32_t>.
NN     == \h3093
NoKana == -1

\* Katakana ァ..ヶ are 0x60 above their hiragana.
toHiragana(c) == IF c >= \h30A1 /\ c <= \h30F6 THEN c - \h60 ELSE c

\* What GameFabric draws a game's first kana from (あ to わ and their voiced forms,
\* without を, ゔ, ぢ, づ and ん).
allowedHiragana ==
    {\h3042, \h3044, \h3046, \h3048, \h304A, \h304B, \h304D, \h304F, \h3051,
     \h3053, \h3055, \h3057, \h3059, \h305B, \h305D, \h305F, \h3061,
     \h3064, \h3066, \h3068, \h306A, \h306B, \h306C, \h306D, \h306E,
     \h306F, \h3072, \h3075, \h3078, \h307B, \h307E, \h307F, \h3080,
     \h3081, \h3082, \h3084, \h3086, \h3088, \h3089, \h308A, \h308B,
     \h308C, \h308D, \h308F, \h304C, \h304E, \h3050, \h3052, \h3054,
     \h3056, \h3058, \h305A, \h305C, \h305E, \h3060, \h3067, \h3069,
     \h3070, \h3073, \h3076, \h3079, \h307C, \h3071, \h3074, \h3077,
     \h307A, \h307D}

isJapaneseChar(c) ==
    \/ c >= \h3040 /\ c <= \h309F
    \/ c >= \h30A0 /\ c <= \h30FF
    \/ c >= \h31F0 /\ c <= \h31FF
    \/ c >= \h3400 /\ c <= \h4DBF
    \/ c >= \h4E00 /\ c <= \h9FFF

isJapaneseWord(u) == \A i \in DOMAIN u : isJapaneseChar(u[i])

\* Forgets the katakana.
isSmallHiragana(c) == c \in {\h3083, \h3085, \h3087, \h3041, \h3043, \h3045, \h3047, \h3049}

\* ゃゅょぁぃぅぇぉ and ャュョァィゥェォ; っ, ゎ and their katakana are not listed.
isSmallKana(c) ==
    c \in {\h3083, \h3085, \h3087, \h3041, \h3043, \h3045, \h3047, \h3049,
           \h30E3, \h30E5, \h30E7, \h30A1, \h30A3, \h30A5, \h30A7, \h30A9}

isLongVowel(c) == c = \h30FC

\* Where the backward scan of getLastKana stops: the last index that does not
\* hold a long vowel mark (at most one index, none when all of u is marks).
LastSounded(u) ==
    {i \in DOMAIN u : /\ ~isLongVowel(u[i])
                      /\ \A j \in DOMAIN u : j > i => isLongVowel(u[j])}

\* Looks at the very last code point only.
LastCodePoint(u) ==
    IF u = <<>> \/ isLongVowel(u[Len(u)]) THEN NoKana
    ELSE IF isSmallKana(u[Len(u)]) /\ Len(u) > 1 THEN u[Len(u) - 1] ELSE u[Len(u)]

\* Takes a small kana for the last one.
LastSoundedKana(u) ==
    IF LastSounded(u) = {} THEN NoKana ELSE u[CHOOSE i \in LastSounded(u) : TRUE]

\* A small kana stands for the kana before it, whatever that is.
getLastKana(u) ==
    IF LastSounded(u) = {} THEN NoKana
    ELSE LET i == CHOOSE i \in LastSounded(u) : TRUE
         IN  IF isSmallKana(u[i]) /\ i > 1 THEN u[i - 1] ELSE u[i]

Skipped(c) == isLongVowel(c) \/ isSmallKana(c)

\* Where the forward scan of getFirstKana stops.
FirstFull(u) ==
    {i \in DOMAIN u : /\ ~Skipped(u[i])
                      /\ \A j \in DOMAIN u : j < i => Skipped(u[j])}

getFirstKana(u) ==
    IF FirstFull(u) = {} THEN NoKana
    ELSE u[CHOOSE i \in FirstFull(u) : TRUE]
=============================================================================
