---- MODULE MCHash ----
(***************************************************************************)
(* Hash with three threads, two contexts of one key, so that one hides the *)
(* other, and room for two entries: a search, a removal or purge, and a    *)
(* user that drops its reference meet.                                     *)
(***************************************************************************)
EXTENDS Hash

CONSTANTS t1, t2, t3, c1, c2, key, none

MCThreads == {t1, t2, t3}
MCContexts == {c1, c2}
MCKeys == {key}
MCKeyOf == [c \in MCContexts |-> key]
====
