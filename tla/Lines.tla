------------------------------- MODULE Lines -------------------------------
(***************************************************************************)
(* Parts of a sequence, in forms that proofs can unfold.                   *)
(***************************************************************************)
EXTENDS Naturals, Sequences

\* The elements of s that are in S, in their order: what SelectSeq does.
Only(s, S) ==
  LET f[i \in 0..Len(s)] == IF i = 0 THEN <<>>
                            ELSE IF s[i] \in S THEN Append(f[i - 1], s[i]) ELSE f[i - 1]
  IN  f[Len(s)]

\* s without its element e.
Without(s, e) ==
  LET k == CHOOSE k \in DOMAIN s : s[k] = e
  IN  [i \in 1..(Len(s) - 1) |-> s[IF i < k THEN i ELSE i + 1]]
=============================================================================
