----------------------------- MODULE RwSpinLock -----------------------------
(***************************************************************************)
(* The reader/writer spin lock of include/ocrwspinlock.h: one LONG that    *)
(* starts at a bias, loses one for every reader and the whole bias for the *)
(* writer.  A reader that finds a writer inside has already decremented    *)
(* the counter, so it has to undo that while other threads look at it.     *)
(*                                                                         *)
(* Threads raise their IRQL to DISPATCH_LEVEL before they touch the lock   *)
(* and keep it until they release it: a thread at that level occupies a    *)
(* processor.  A reader that fails lowers its IRQL before it tries again;  *)
(* a writer spins at DISPATCH_LEVEL.                                       *)
(*                                                                         *)
(* Rw is the prefix of this lock's names in the source; here it sets its   *)
(* names apart from those of the other locks, for Locks_proof.             *)
(***************************************************************************)
EXTENDS Integers, FiniteSets

CONSTANTS Threads,       \* the threads that compete for one lock
          MaxProcessors, \* the largest machine
          Bias           \* 0x01000000 in the source

ASSUME ThreadsAssumption    == IsFiniteSet(Threads)
ASSUME ProcessorsAssumption == MaxProcessors \in Nat \ {0}
ASSUME BiasAssumption       == Bias \in Nat \ {0}

VARIABLES rwLock,       \* Lock->RwLock
          running,      \* where each thread stands
          processors    \* the number of processors of this machine

rwVars == <<rwLock, running, processors>>

\* The control points at which a thread runs at DISPATCH_LEVEL.
DispatchPoints == {"tryRead", "undoRead", "reading", "tryWrite", "writing"}
RwPoints == {"out", "raiseRead", "raiseWrite",
             "tryRead", "undoRead", "reading", "tryWrite", "writing"}

RwAt(S) == {t \in Threads : running[t] \in S}

RwGoto(t, from, to) == /\ running[t] = from
                       /\ running' = [running EXCEPT ![t] = to]

\* OcRwInitializeRwLock
RwInit == /\ rwLock = Bias
          /\ running = [t \in Threads |-> "out"]
          /\ processors \in 1..MaxProcessors

-----------------------------------------------------------------------------
\* OcRwAcquireLockForRead and OcRwAcquireLockForWrite, up to KeRaiseIrql.
AskRead(t)  == RwGoto(t, "out", "raiseRead")  /\ UNCHANGED <<rwLock, processors>>
AskWrite(t) == RwGoto(t, "out", "raiseWrite") /\ UNCHANGED <<rwLock, processors>>

RaiseIrql(t) == /\ Cardinality(RwAt(DispatchPoints)) < processors
                /\ \/ RwGoto(t, "raiseRead", "tryRead")
                   \/ RwGoto(t, "raiseWrite", "tryWrite")
                /\ UNCHANGED <<rwLock, processors>>

\* Mutant: the comparison of OcRwRawTryLockForRead is off by one.
TryLockForReadOffByOne(t) ==
    /\ rwLock' = rwLock - 1
    /\ \/ rwLock - 1 >= -1 /\ RwGoto(t, "tryRead", "reading")
       \/ rwLock - 1 < -1  /\ RwGoto(t, "tryRead", "undoRead")
    /\ UNCHANGED processors

\* The InterlockedDecrement of OcRwRawTryLockForRead and its verdict.
TryLockForRead(t) ==
    /\ rwLock' = rwLock - 1
    /\ \/ rwLock - 1 >= 0 /\ RwGoto(t, "tryRead", "reading")
       \/ rwLock - 1 < 0  /\ RwGoto(t, "tryRead", "undoRead")
    /\ UNCHANGED processors

\* A writer is inside: give the decrement back, lower the IRQL, try again.
UndoRead(t) == /\ RwGoto(t, "undoRead", "raiseRead")
               /\ rwLock' = rwLock + 1
               /\ UNCHANGED processors

\* OcRwReleaseReadLock
ReleaseRead(t) == /\ RwGoto(t, "reading", "out")
                  /\ rwLock' = rwLock + 1
                  /\ UNCHANGED processors

\* Mutant: the writer takes whatever the readers have left.
TryLockForWriteIfPositive(t) == /\ rwLock > 0
                                /\ RwGoto(t, "tryWrite", "writing")
                                /\ rwLock' = rwLock - Bias
                                /\ UNCHANGED processors

\* OcRwRawTryLockForWrite: InterlockedCompareExchange(RwLock, 0, Bias).
\* When it fails nothing changes and the thread spins.
TryLockForWrite(t) == /\ rwLock = Bias
                      /\ RwGoto(t, "tryWrite", "writing")
                      /\ rwLock' = 0
                      /\ UNCHANGED processors

\* Mutants: the writer stores the bias; exchanges it once, if no reader is
\* undoing an attempt; or loops on that exchange, as ocrwspinlock.h:189 did.
ReleaseWriteByStore(t) == /\ RwGoto(t, "writing", "out")
                          /\ rwLock' = Bias
                          /\ UNCHANGED processors
ReleaseWriteOnce(t) == /\ RwGoto(t, "writing", "out")
                       /\ rwLock' = IF rwLock = 0 THEN Bias ELSE rwLock
                       /\ UNCHANGED processors
ReleaseWriteInLoop(t) == /\ rwLock = 0
                         /\ RwGoto(t, "writing", "out")
                         /\ rwLock' = Bias
                         /\ UNCHANGED processors

\* OcRwReleaseWriteLock: InterlockedExchangeAdd, not a store, so that the
\* decrements of readers that are about to undo them survive.
ReleaseWrite(t) == /\ RwGoto(t, "writing", "out")
                   /\ rwLock' = rwLock + Bias
                   /\ UNCHANGED processors

RwStep(t) == \/ RaiseIrql(t)
             \/ TryLockForRead(t) \/ UndoRead(t) \/ ReleaseRead(t)
             \/ TryLockForWrite(t) \/ ReleaseWrite(t)

RwNext == \E t \in Threads : AskRead(t) \/ AskWrite(t) \/ RwStep(t)

\* A thread that runs, or may run, is eventually scheduled; nobody is
\* obliged to ask for the lock.
RwSpec == RwInit /\ [][RwNext]_rwVars /\ \A t \in Threads : WF_rwVars(RwStep(t))

-----------------------------------------------------------------------------
Readers == RwAt({"reading"})
Writers == RwAt({"writing"})
Undoing == RwAt({"undoRead"})

(***************************************************************************)
(* The types, and the width of the counter: it never leaves the interval   *)
(* from minus the number of threads to the bias, so a LONG cannot wrap.    *)
(***************************************************************************)
RwTypeOK == /\ rwLock \in -Cardinality(Threads) .. Bias
            /\ running \in [Threads -> RwPoints]
            /\ processors \in 1..MaxProcessors

(***************************************************************************)
(* The counter says exactly who is inside and who is still undoing a       *)
(* failed attempt: no interleaving of decrement, undo and ExchangeAdd      *)
(* loses or duplicates a unit (ocrwspinlock.h:52-61, 129-200).             *)
(***************************************************************************)
CounterIsExact ==
    rwLock = (IF Writers = {} THEN Bias ELSE 0)
                - Cardinality(Readers \cup Undoing)

(***************************************************************************)
(* A writer excludes every other writer and every reader, although both    *)
(* kinds of thread change the same word with different atomic operations.  *)
(***************************************************************************)
MutualExclusion ==
    /\ Writers # {} => Readers = {}
    /\ \A t, u \in Writers : t = u

(***************************************************************************)
(* With a single processor no thread ever meets a lock it cannot take: the *)
(* holder cannot be preempted at DISPATCH_LEVEL, so a writer that spins    *)
(* there (line 168) never spins for a thread that needs its processor.     *)
(***************************************************************************)
UniprocessorNeverSpins ==
    processors = 1 => (RwAt({"tryRead", "tryWrite"}) # {} => rwLock = Bias)

(***************************************************************************)
(* Some thread always gets in: readers that fail and retry cannot keep the *)
(* counter away from the bias, which the writer's compare-exchange waits   *)
(* for, for ever while nobody is inside.                                   *)
(***************************************************************************)
SomeoneEnters ==
    Threads \ RwAt({"out"}) # {} ~> Readers \cup Writers # {}

(***************************************************************************)
(* A writer that releases the lock is never held up by the readers that    *)
(* keep decrementing and restoring the counter (the comment at lines       *)
(* 182-199 gives this as the reason for the ExchangeAdd).                  *)
(***************************************************************************)
WritersLeave == \A t \in Threads : running[t] = "writing" ~> running[t] = "out"

(***************************************************************************)
(* The lock implements the abstract one: a reader that is undoing its      *)
(* decrement is a thread that still asks.                                  *)
(***************************************************************************)
ModeOf(point) ==
    CASE point = "out" -> "out"
      [] point \in {"raiseRead", "tryRead", "undoRead"} -> "askRead"
      [] point = "reading" -> "read"
      [] point \in {"raiseWrite", "tryWrite"} -> "askWrite"
      [] point = "writing" -> "write"

Abstract == INSTANCE RwLock WITH mode <- [t \in Threads |-> ModeOf(running[t])]
ImplementsRwLock == Abstract!Spec
=============================================================================
