---- MODULE MCFileContext ----
(***************************************************************************)
(* FileContext with three threads on one file that two create requests     *)
(* open and the cache manager opens once more, so that the last close, a   *)
(* new open and an adoption meet.  For liveness, which symmetry would      *)
(* falsify, two threads.                                                   *)
(***************************************************************************)
EXTENDS FileContext

CONSTANTS t1, t2, t3, user1, user2, stream, key, none

MCThreads == {t1, t2, t3}
MCTwoThreads == {t1, t2}
MCUserFiles == {user1, user2}
MCStreamFiles == {stream}
MCKeys == {key}
MCKeyOf == [f \in MCUserFiles \cup MCStreamFiles |-> key]
Symmetry == Permutations(MCThreads) \cup Permutations(MCUserFiles)
====
