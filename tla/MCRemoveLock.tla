---- MODULE MCRemoveLock ----
(***************************************************************************)
(* RemoveLock with four callers: two removers, a caller that holds the     *)
(* lock while they come and one that is refused.                           *)
(***************************************************************************)
EXTENDS RemoveLock

CONSTANTS p1, p2, p3, p4

MCCallers  == {p1, p2, p3, p4}
MCRemovers == {p1, p2}
====
