------------------------------- MODULE Rundown ------------------------------
(***************************************************************************)
(* Rundown protection: users enter and leave until a user closes the door; *)
(* from then on nobody enters, and those who closed it go on to tear down  *)
(* what was protected only after everybody else has left.                  *)
(***************************************************************************)
CONSTANT Procs

VARIABLES inside,     \* who uses the protected resource
          closing,    \* who waits for the others to leave
          drained     \* who was told that the resource is no longer used

vars == <<inside, closing, drained>>

Init == inside = {} /\ closing = {} /\ drained = {}

Closed == closing \cup drained # {}

Enter(p) == /\ ~Closed
            /\ inside' = inside \cup {p}
            /\ UNCHANGED <<closing, drained>>

Leave(p) == /\ p \in inside
            /\ inside' = inside \ {p}
            /\ UNCHANGED <<closing, drained>>

Close(p) == /\ p \in inside
            /\ inside' = inside \ {p}
            /\ closing' = closing \cup {p}
            /\ UNCHANGED drained

Drain(p) == /\ p \in closing
            /\ inside = {}
            /\ closing' = closing \ {p}
            /\ drained' = drained \cup {p}
            /\ UNCHANGED inside

Next == \E p \in Procs : Enter(p) \/ Leave(p) \/ Close(p) \/ Drain(p)

Spec == Init /\ [][Next]_vars
=============================================================================
