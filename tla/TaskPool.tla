------------------------------ MODULE TaskPool ------------------------------
(***************************************************************************)
(* What a task queue promises those who use it: tasks are begun in the     *)
(* order they were given, each once, any number may run at a time, and it  *)
(* is closed only when all it was given is done.  No threads, no mutex and *)
(* nobody to wake.                                                         *)
(***************************************************************************)
EXTENDS Sequences

CONSTANT Tasks   \* the tasks it may be given, each once

VARIABLES waiting,  \* in the order they came
          running,  \* begun and not done
          done,
          phase     \* "open", then "closing", then "closed"

pool == <<waiting, running, done, phase>>

Known == {waiting[i] : i \in DOMAIN waiting} \cup running \cup done

Init == waiting = <<>> /\ running = {} /\ done = {} /\ phase = "open"

Give(t) ==
    /\ phase = "open" /\ t \notin Known
    /\ waiting' = Append(waiting, t)
    /\ UNCHANGED <<running, done, phase>>

Start ==
    /\ waiting # <<>>
    /\ running' = running \cup {Head(waiting)} /\ waiting' = Tail(waiting)
    /\ UNCHANGED <<done, phase>>

Complete(t) ==
    /\ t \in running
    /\ running' = running \ {t} /\ done' = done \cup {t}
    /\ UNCHANGED <<waiting, phase>>

Close ==
    /\ phase = "open" /\ phase' = "closing"
    /\ UNCHANGED <<waiting, running, done>>

Closed ==
    /\ phase = "closing" /\ waiting = <<>> /\ running = {}
    /\ phase' = "closed"
    /\ UNCHANGED <<waiting, running, done>>

Next == \/ \E t \in Tasks : Give(t) \/ Complete(t)
        \/ Start \/ Close \/ Closed

Spec == Init /\ [][Next]_pool
=============================================================================
