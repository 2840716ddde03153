------------------------------ MODULE QueueLock ------------------------------
(***************************************************************************)
(* The queue lock of o_core/queue_lock.c.  One list holds the wait blocks  *)
(* of all contexts in the order of arrival; a block points at the next one *)
(* of its context, and the holder of a context's lock is whoever has no    *)
(* older block of that context.  A barrier is a block whose owner does not *)
(* wait, so it is removed from the list at any time; the block before it   *)
(* carries a flag that says so.                                            *)
(*                                                                         *)
(* The list is changed under its spin lock, so what happens there is one   *)
(* step.  The release reads the flag before it takes the spin lock and, if *)
(* the flag was clear, signals the next block after it has released it.    *)
(* A process uses one wait block at a time, named by the process.          *)
(***************************************************************************)
EXTENDS SequencesExt, Lines

CONSTANTS Procs,      \* threads, and their wait blocks
          Contexts,   \* what is locked
          ContextsOf, \* the contexts each thread works on
          NoBlock     \* a NULL Next pointer, a process that asks for nothing

ASSUME ContextsOfAssumption == ContextsOf \in [Procs -> SUBSET Contexts]
ASSUME NoBlockAssumption == NoBlock \notin Procs \cup Contexts

VARIABLES list,       \* QueueLock->ListHead
          context,    \* WaitBlock->Context
          next,       \* WaitBlock->Next without its flags
          barrierFlag,\* OC_WAIT_BLOCK_BARRIER_FLAG in WaitBlock->Next
          event,      \* WaitBlock->Event is signalled
          target,     \* the block a release is about to signal
          pc

vars == <<list, context, next, barrierFlag, event, target, pc>>

Points == {"out", "waiting", "holding", "releasing", "releasingBarrier",
           "signalling", "barrier"}

Set(f, p, v) == [f EXCEPT ![p] = v]
Queued(p) == p \in ToSet(list)

Init == /\ list = <<>>
        /\ context = [p \in Procs |-> NoBlock]
        /\ next = [p \in Procs |-> NoBlock]
        /\ barrierFlag = [p \in Procs |-> FALSE]
        /\ event = [p \in Procs |-> FALSE]
        /\ target = [p \in Procs |-> NoBlock]
        /\ pc = [p \in Procs |-> "out"]

-----------------------------------------------------------------------------
\* The blocks of the same context, oldest first.
SameContext(c) == Only(list, {q \in Procs : context[q] = c})

\* Mutant: the predecessor is told of the block only if it is no barrier.
InsertBehindLock(p, c, flag) ==
    LET older == Only(SameContext(c), {q \in Procs : pc[q] # "barrier"}) IN
    /\ list' = Append(list, p)
    /\ context' = Set(context, p, c)
    /\ event' = Set(event, p, FALSE)
    /\ IF older = <<>> THEN /\ next' = Set(next, p, NoBlock)
                            /\ barrierFlag' = Set(barrierFlag, p, FALSE)
       ELSE LET last == older[Len(older)] IN
            /\ next' = Set(Set(next, p, NoBlock), last, p)
            /\ barrierFlag' = [barrierFlag EXCEPT ![p] = FALSE,
                                                  ![last] = @ \/ flag]

\* OcQlInitializeWaitBlock and OcInsertWaitBlockInList: the youngest block of
\* the same context, if there is one, points at the new block, and learns if
\* that is a barrier.
Insert(p, c, flag) ==
    LET older == SameContext(c) IN
    /\ list' = Append(list, p)
    /\ context' = Set(context, p, c)
    /\ event' = Set(event, p, FALSE)
    /\ IF older = <<>> THEN /\ next' = Set(next, p, NoBlock)
                            /\ barrierFlag' = Set(barrierFlag, p, FALSE)
       ELSE LET last == older[Len(older)] IN
            /\ next' = Set(Set(next, p, NoBlock), last, p)
            /\ barrierFlag' = [barrierFlag EXCEPT ![p] = FALSE,
                                                  ![last] = @ \/ flag]

\* OcQlAcquireLockWithContext
AcquireLock(p, c) ==
    /\ pc[p] = "out"
    /\ Insert(p, c, FALSE)
    /\ pc' = Set(pc, p, IF SameContext(c) = <<>> THEN "holding" ELSE "waiting")
    /\ UNCHANGED target

\* KeWaitForSingleObject on a synchronization event resets the event.
WakeUp(p) ==
    /\ pc[p] = "waiting" /\ event[p]
    /\ event' = Set(event, p, FALSE)
    /\ pc' = Set(pc, p, "holding")
    /\ UNCHANGED <<list, context, next, barrierFlag, target>>

-----------------------------------------------------------------------------
\* RemoveEntryList.  The block is a local variable of the caller: what is in
\* it means nothing any more and is forgotten, and a process that was about
\* to signal it is left with a dangling pointer.
RemoveBlock(p, newNext, newFlag, newTarget) ==
    /\ list' = Only(list, Procs \ {p})
    /\ context' = Set(context, p, NoBlock)
    /\ next' = Set(newNext, p, NoBlock)
    /\ barrierFlag' = Set(newFlag, p, FALSE)
    /\ target' = [q \in Procs |-> IF newTarget[q] = p THEN NoBlock
                                                     ELSE newTarget[q]]

\* OcQlReleaseLockWithContext looks at the flag outside the spin lock.
ReadFlag(p) ==
    /\ pc[p] = "holding"
    /\ pc' = Set(pc, p, IF barrierFlag[p] THEN "releasingBarrier"
                                          ELSE "releasing")
    /\ UNCHANGED <<list, context, next, barrierFlag, event, target>>

\* The flag was set: the next block is signalled under the spin lock.
ReleaseBeforeBarrier(p) ==
    /\ pc[p] = "releasingBarrier"
    /\ event' = IF next[p] = NoBlock THEN event ELSE Set(event, next[p], TRUE)
    /\ RemoveBlock(p, next, barrierFlag, target)
    /\ pc' = Set(pc, p, "out")

\* The flag was clear: only the pointer is taken under the spin lock.
Release(p) ==
    /\ pc[p] = "releasing"
    /\ RemoveBlock(p, next, barrierFlag, Set(target, p, next[p]))
    /\ pc' = Set(pc, p, IF next[p] = NoBlock THEN "out" ELSE "signalling")
    /\ UNCHANGED event

\* The signal that follows.  A block that has left the list in between is
\* memory that is no wait block any more: target is NoBlock then.
SignalNext(p) ==
    /\ pc[p] = "signalling"
    /\ event' = IF target[p] = NoBlock THEN event
                                       ELSE Set(event, target[p], TRUE)
    /\ target' = Set(target, p, NoBlock)
    /\ pc' = Set(pc, p, "out")
    /\ UNCHANGED <<list, context, next, barrierFlag>>

-----------------------------------------------------------------------------
\* OcQlInsertBarrier
InsertBarrier(p, c) ==
    /\ pc[p] = "out"
    /\ Insert(p, c, TRUE)
    /\ pc' = Set(pc, p, "barrier")
    /\ UNCHANGED target

Before(p) == {q \in ToSet(list) : next[q] = p}
NextWithout(p) == [q \in Procs |-> IF q \in Before(p) THEN next[p] ELSE next[q]]
FlagWithout(p) == [q \in Procs |-> barrierFlag[q]
                                      \/ (q \in Before(p) /\ barrierFlag[p])]

\* Mutants: the block behind the barrier is woken up in any case, or never.
RemoveBarrierAlwaysSignals(p) ==
    /\ pc[p] = "barrier"
    /\ event' = IF next[p] # NoBlock THEN Set(event, next[p], TRUE) ELSE event
    /\ RemoveBlock(p, NextWithout(p), FlagWithout(p), target)
    /\ pc' = Set(pc, p, "out")
RemoveBarrierNeverSignals(p) ==
    /\ pc[p] = "barrier"
    /\ RemoveBlock(p, NextWithout(p), FlagWithout(p), target)
    /\ pc' = Set(pc, p, "out")
    /\ UNCHANGED event

\* OcQlRemoveBarrier: the block before the barrier takes over its pointer and
\* its flag; with no such block the one behind the barrier is woken up.
RemoveBarrier(p) ==
    /\ pc[p] = "barrier"
    /\ event' = IF Before(p) = {} /\ next[p] # NoBlock
                THEN Set(event, next[p], TRUE) ELSE event
    /\ RemoveBlock(p, NextWithout(p), FlagWithout(p), target)
    /\ pc' = Set(pc, p, "out")

\* What a process that has begun an operation does to finish it.
Finish(p) == \/ WakeUp(p) \/ ReadFlag(p) \/ ReleaseBeforeBarrier(p)
             \/ Release(p) \/ SignalNext(p) \/ RemoveBarrier(p)

Next == \E p \in Procs : \/ \E c \in ContextsOf[p] : \/ AcquireLock(p, c)
                                                     \/ InsertBarrier(p, c)
                         \/ Finish(p)

\* The code under the lock ends, a barrier is taken away by the function that
\* put it, and a thread whose event is signalled runs.
Spec == Init /\ [][Next]_vars /\ \A p \in Procs : WF_vars(Finish(p))

-----------------------------------------------------------------------------
Holds(p) == pc[p] \in {"holding", "releasing", "releasingBarrier"}

(***************************************************************************)
(* The types; a block is in the list at most once, and it is there exactly *)
(* while its owner waits, holds the lock or keeps a barrier.               *)
(***************************************************************************)
TypeOK == /\ list \in Seq(Procs) /\ IsInjective(list)
          /\ context \in [Procs -> Contexts \cup {NoBlock}]
          /\ next \in [Procs -> Procs \cup {NoBlock}]
          /\ barrierFlag \in [Procs -> BOOLEAN]
          /\ event \in [Procs -> BOOLEAN]
          /\ target \in [Procs -> Procs \cup {NoBlock}]
          /\ pc \in [Procs -> Points]
          /\ \A p \in Procs : Queued(p) <=> pc[p] \notin {"out", "signalling"}

(***************************************************************************)
(* The blocks of a context in the list form one chain in the order of      *)
(* arrival, whatever barriers were taken out of its middle, so a waiter is *)
(* never cut off from the blocks before it.                                *)
(***************************************************************************)
ChainIsComplete ==
    \A c \in Contexts :
        LET blocks == SameContext(c) IN
        \A i \in DOMAIN blocks :
            next[blocks[i]] = IF i = Len(blocks) THEN NoBlock ELSE blocks[i + 1]

(***************************************************************************)
(* The queue lock keeps the promise of BarrierLock: one holder per         *)
(* context, first come first served, and nobody crosses a barrier          *)
(* (queue_lock.c:361-366).                                                 *)
(***************************************************************************)
Promise == INSTANCE BarrierLock WITH
               line    <- [c \in Contexts |-> SameContext(c)],
               holders <- {p \in Procs : Holds(p)}
ImplementsBarrierLock == Promise!Spec

(***************************************************************************)
(* Nobody waits for ever: the signal for a waiter is not lost, whether it  *)
(* is due from a release, from a barrier behind which the waiter stood, or *)
(* from a release that a barrier overtakes between its steps.              *)
(***************************************************************************)
WaitersGetTheLock == \A p \in Procs : pc[p] = "waiting" ~> Holds(p)

(***************************************************************************)
(* A release that found no barrier flag signals a block that is still in   *)
(* the list (queue_lock.c:337-339: "the block couldn't go out because only *)
(* barrier blocks are removed asynchronously").  False: a barrier may come *)
(* after the flag was read.                                                *)
(***************************************************************************)
SignalsQueuedBlock ==
    \A p \in Procs : pc[p] = "signalling" => Queued(target[p])

(***************************************************************************)
(* The holder of a context's lock is the one whose block is the oldest of  *)
(* that context, so there is one holder at most: no barrier that comes and *)
(* goes between the two steps of a release wakes somebody in the middle of *)
(* the chain.                                                              *)
(***************************************************************************)
HolderIsOldest == \A p \in Procs : Holds(p) => SameContext(context[p])[1] = p

(***************************************************************************)
(* The list of wait blocks is well formed, its chains are complete, and    *)
(* the lock belongs to the head of each.                                   *)
(***************************************************************************)
QueueInvariant == TypeOK /\ ChainIsComplete /\ HolderIsOldest
=============================================================================
