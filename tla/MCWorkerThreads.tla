---- MODULE MCWorkerThreads ----
(***************************************************************************)
(* WorkerThreads with two threads that share the list, two posters and two *)
(* blocks in the heap besides their stacks.                                *)
(***************************************************************************)
EXTENDS WorkerThreads

CONSTANTS p1, p2, h1, h2, none

MCPosters == {p1, p2}
MCHeap == {h1, h2}
====
