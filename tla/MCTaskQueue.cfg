SPECIFICATION FairSpec
CONSTANTS
    Workers = {w1, w2, w3}
    Callers = {c1, c2}
    Tasks = {t1, t2, t3, t4}
    Hanging = {t1, t2}
INVARIANTS
    TypeOK
    FirstInFirstOut
    NoTaskForgotten
    DrainedAtEnd
PROPERTIES
    EveryTaskRuns
    ShutdownEnds
    ImplementsTaskPool
