------------------------------- MODULE RwLock -------------------------------
(***************************************************************************)
(* What a reader/writer lock promises, whatever its implementation: a      *)
(* thread asks for the lock, and enters as a reader only while no thread   *)
(* writes, as the writer only while no thread is inside at all.            *)
(***************************************************************************)
CONSTANT Threads

VARIABLE mode   \* what each thread is doing with the lock

Modes == {"out", "askRead", "read", "askWrite", "write"}

Init == mode = [t \in Threads |-> "out"]

Ask(t, how) == /\ mode[t] = "out"
               /\ mode' = [mode EXCEPT ![t] = how]

EnterRead(t) == /\ mode[t] = "askRead"
                /\ \A u \in Threads : mode[u] # "write"
                /\ mode' = [mode EXCEPT ![t] = "read"]

EnterWrite(t) == /\ mode[t] = "askWrite"
                 /\ \A u \in Threads : mode[u] \notin {"read", "write"}
                 /\ mode' = [mode EXCEPT ![t] = "write"]

Leave(t) == /\ mode[t] \in {"read", "write"}
            /\ mode' = [mode EXCEPT ![t] = "out"]

Next == \E t \in Threads : \/ Ask(t, "askRead") \/ Ask(t, "askWrite")
                           \/ EnterRead(t) \/ EnterWrite(t) \/ Leave(t)

Spec == Init /\ [][Next]_mode
=============================================================================
