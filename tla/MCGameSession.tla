---------------------------- MODULE MCGameSession ----------------------------
(***************************************************************************)
(* Two players, か as the first kana, and a dictionary in which games of   *)
(* every kind can be played: 傘 [かさ] can be typed in kanji or in kana,   *)
(* さか continues it and leads back, かん ends the game.                   *)
(***************************************************************************)
EXTENDS GameSession, Dictionary, TLC

KA == \h304B
SA == \h3055

kasa   == <<KA, SA>>
saka   == <<SA, KA>>
kan    == <<KA, NN>>
UMBRELLA == <<\h5098>>

MCWords == {kasa, UMBRELLA, saka, kan}

Entry1(spelling) == <<[japanese |-> <<spelling>>, senses |-> <<{Noun}>>]>>

\* What the dictionary has for each word.
MCAnswer(w) ==
    CASE w \in {kasa, UMBRELLA} -> Entry1([word |-> UMBRELLA, reading |-> kasa])
      [] w = saka               -> Entry1([reading |-> saka])
      [] w = kan                -> Entry1([word |-> <<\h7F36>>, reading |-> kan])

MCDict == [w \in MCWords |-> jsonToWords(MCAnswer(w))]

MCStartKana == KA

\* Workers and connections are interchangeable.
Symmetry == Permutations(Workers) \cup Permutations(Clients)
=============================================================================
