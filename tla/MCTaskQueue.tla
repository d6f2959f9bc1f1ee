----------------------------- MODULE MCTaskQueue -----------------------------
(***************************************************************************)
(* A small instance of the task queue: three workers, and two callers,     *)
(* more than main.cpp has, so that two notifications can be under way.     *)
(***************************************************************************)
EXTENDS TaskQueue
=============================================================================
