---- MODULE MCQueueLock ----
(***************************************************************************)
(* QueueLock with four threads on two contexts: room for a holder, two     *)
(* barriers and a waiter in one line, with blocks of the other context in  *)
(* between them in the list.                                               *)
(***************************************************************************)
EXTENDS QueueLock

CONSTANTS p1, p2, p3, p4, c1, c2, none

MCProcs    == {p1, p2, p3, p4}
MCContexts == {c1, c2}
MCContextsOf == [p \in MCProcs |-> IF p \in {p1, p2} THEN {c1} ELSE {c1, c2}]
====
