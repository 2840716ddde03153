----------------------------- MODULE BarrierLock ----------------------------
(***************************************************************************)
(* What the queue lock promises for each context: requests stand in one    *)
(* line, the lock belongs to the request at the front of it, and a barrier *)
(* stands in the line without waiting, so that nobody behind it gets the   *)
(* lock until it is taken away, while those before it are not disturbed.   *)
(***************************************************************************)
EXTENDS SequencesExt, Lines

CONSTANTS Procs, Contexts

VARIABLES line,     \* for each context, the processes in the order of arrival
          holders   \* the processes that have the lock of their context

Init == /\ line = [c \in Contexts |-> <<>>]
        /\ holders = {}

Waits(p) == \E c \in Contexts : p \in ToSet(line[c])

\* A request that finds its line empty is granted as it arrives.
Ask(p, c) == /\ ~Waits(p)
             /\ line' = [line EXCEPT ![c] = Append(@, p)]
             /\ holders' = IF line[c] = <<>> THEN holders \cup {p} ELSE holders

PutBarrier(p, c) == /\ ~Waits(p)
                    /\ line' = [line EXCEPT ![c] = Append(@, p)]
                    /\ UNCHANGED holders

Grant(p, c) == /\ p \in ToSet(line[c]) /\ Head(line[c]) = p
               /\ holders' = holders \cup {p}
               /\ UNCHANGED line

Release(p, c) == /\ p \in holders /\ p \in ToSet(line[c])
                 /\ Head(line[c]) = p
                 /\ line' = [line EXCEPT ![c] = Tail(@)]
                 /\ holders' = holders \ {p}

TakeBarrier(p, c) == /\ p \in ToSet(line[c]) /\ p \notin holders
                     /\ line' = [line EXCEPT ![c] = Without(@, p)]
                     /\ UNCHANGED holders

Next == \E p \in Procs, c \in Contexts :
            \/ Ask(p, c) \/ PutBarrier(p, c) \/ Grant(p, c)
            \/ Release(p, c) \/ TakeBarrier(p, c)

Spec == Init /\ [][Next]_<<line, holders>>
=============================================================================
