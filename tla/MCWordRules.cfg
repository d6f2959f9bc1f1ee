SPECIFICATION Spec
CONSTANTS
    MaxKana = 4
    MaxSpellings = 2
    \* ka KA, small ya and YA, the long vowel mark, n
    Alphabet = {12363, 12459, 12419, 12515, 12540, 12435}
INVARIANTS
    LastKanaIsLast
    NextWordCanStart
    ScriptIndependent
    AcceptedWordJoins
    KeptEntryBlocksReplay
    RefusalIsHonest
    AcceptedFromOneEntry
\* An answer within the bounds cannot grow further.
CHECK_DEADLOCK FALSE
