---------------------------- MODULE ContextTable ----------------------------
(***************************************************************************)
(* What a hash of the hash manager is to those who keep referenced objects *)
(* in it: a table that owns one reference to each context in it, in which  *)
(* a context is found and referenced in one step, and removed and          *)
(* dereferenced in one step.  A found context therefore is alive, and the  *)
(* last reference is never dropped behind the back of a finder.            *)
(***************************************************************************)
EXTENDS Naturals, Sequences

CONSTANTS Contexts, Keys, KeyOf

VARIABLES table,  \* contexts, latest insertion first
          refs    \* references of each context, zero when it does not exist

\* The latest insertion with a key is the one that counts.
First(k) == {i \in DOMAIN table :
               /\ KeyOf[table[i]] = k
               /\ \A j \in 1..(i - 1) : KeyOf[table[j]] # k}
Without(i) == SubSeq(table, 1, i - 1) \o SubSeq(table, i + 1, Len(table))

Init == table = <<>> /\ refs = [c \in Contexts |-> 0]

Create(c) == refs[c] = 0 /\ refs' = [refs EXCEPT ![c] = 1] /\ UNCHANGED table

Insert(c) == /\ refs[c] > 0
             /\ table' = <<c>> \o table
             /\ refs' = [refs EXCEPT ![c] = @ + 1]

Find(i) == /\ refs' = [refs EXCEPT ![table[i]] = @ + 1]
           /\ UNCHANGED table

Remove(i) == /\ refs[table[i]] > 0
             /\ refs' = [refs EXCEPT ![table[i]] = @ - 1]
             /\ table' = Without(i)

Drop(c) == refs[c] > 0 /\ refs' = [refs EXCEPT ![c] = @ - 1] /\ UNCHANGED table

Next == \/ \E c \in Contexts : Create(c) \/ Insert(c) \/ Drop(c)
        \/ \E k \in Keys : \E i \in First(k) : Find(i) \/ Remove(i)

Spec == Init /\ [][Next]_<<table, refs>>
=============================================================================
