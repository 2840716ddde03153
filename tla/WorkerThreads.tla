---------------------------- MODULE WorkerThreads ----------------------------
(***************************************************************************)
(* A pool of worker threads that share a list of work items:               *)
(* common/wthreads/ocwthread.c with the pool of octhreadpool.c, from the   *)
(* creation of the pool to the end of its last thread.  One thread with a  *)
(* private list is the pool of one with PrivateList.                       *)
(*                                                                         *)
(* A work item is a block of memory: an asynchronous post takes it from    *)
(* the heap and the worker frees it, a synchronous one has it on the       *)
(* poster's stack, where it is gone as soon as the poster is signalled.    *)
(* The events are synchronization events: a wait that ends resets them.    *)
(*                                                                         *)
(* Posts take place while the pool is in use, and DriverUnload waits for   *)
(* the operations that post (init.c:866) before the pool is stopped.       *)
(***************************************************************************)
EXTENDS Integers, Sequences, FiniteSets

CONSTANTS NumberOfThreads,
          Posters,       \* threads that post; the name of its stack's block
          Heap,          \* blocks of the lookaside list
          PrivateList,   \* OC_WORK_ITEM_LIST_OBJECT.PrivateList
          None

Workers == 1..NumberOfThreads
Blocks  == Posters \cup Heap

ASSUME ThreadsAssumption == /\ NumberOfThreads \in Nat \ {0}
                            /\ PrivateList \in BOOLEAN
                            /\ PrivateList => NumberOfThreads = 1
ASSUME BlocksAssumption  == /\ Posters \cap Heap = {} /\ None \notin Blocks
                            /\ IsFiniteSet(Posters)

VARIABLES list,       \* the ListHead of the work item list object
          listEvent,  \* its WakeupEvent
          listRef,    \* references to it
          block,      \* what each block of memory is
          poster,     \* where each poster is, and its block
          worker,     \* where each worker is, its block and what it read of it
          wakeup,     \* the WakeupEvent of each thread object
          terminate,  \* its TerminateThread
          object,     \* the memory of the thread object is there
          owner       \* where the owner of the pool is, with which thread, and
                      \* whether this was started but could not be referenced

vars == <<list, listEvent, listRef, block, poster, worker, wakeup, terminate,
          object, owner>>

Waiting == [at |-> "wait", block |-> None, onStack |-> FALSE]
Absent  == [at |-> "none", block |-> None, onStack |-> FALSE]

At(place, w) == [at |-> place, thread |-> w, lost |-> FALSE]

Init == /\ list = <<>> /\ listEvent = FALSE /\ listRef = 1
        /\ block = [b \in Blocks |-> "none"]
        /\ poster = [p \in Posters |-> [at |-> "idle", block |-> None]]
        /\ worker = [w \in Workers |-> Absent]
        /\ wakeup = [w \in Workers |-> FALSE]
        /\ terminate = [w \in Workers |-> FALSE]
        /\ object = [w \in Workers |-> FALSE]
        /\ owner = At("creating", 1)

Move(p, from, to) == /\ poster[p].at = from
                     /\ poster' = [poster EXCEPT ![p].at = to]
Step(w, from, to) == /\ worker[w].at = from
                     /\ worker' = [worker EXCEPT ![w].at = to]
Pool == <<wakeup, terminate, object, owner>>

-----------------------------------------------------------------------------

\* OcTplCreateThreadPool: threads with a reference to the list, one by one.
\* When one cannot be had those that there are, are stopped.  A thread that runs
\* but cannot be referenced is told to end first; its creator takes a reference
\* to the list for the time until it has.
CreateWorkerThread ==
    LET w == owner.thread IN
    /\ owner.at = "creating"
    /\ \/ /\ listRef' = listRef + 1
          /\ owner' = IF w = NumberOfThreads THEN At("running", None)
                      ELSE At("creating", w + 1)
          /\ worker' = [worker EXCEPT ![w] = Waiting]
          /\ object' = [object EXCEPT ![w] = TRUE]
       \/ /\ owner' = At("stopping", 1)
          /\ UNCHANGED <<worker, listRef, object>>
       \/ /\ listRef' = listRef + 2
          /\ owner' = [owner EXCEPT !.at = "stopping", !.lost = TRUE]
          /\ worker' = [worker EXCEPT ![w] = Waiting]
          /\ object' = [object EXCEPT ![w] = TRUE]
    /\ UNCHANGED <<list, listEvent, block, poster, wakeup, terminate>>

-----------------------------------------------------------------------------
\* OcTplReferenceSharedWorkItemList, by the caller of OcWthPostWorkItemParam*.
ReferenceList(p) == /\ owner.at = "running"
                    /\ Move(p, "idle", "allocate")
                    /\ listRef' = listRef + 1
                    /\ UNCHANGED <<list, listEvent, block, worker, Pool>>

\* OcWthPostWorkItemInternal: the item of a synchronous post is on the stack,
\* that of another from the heap, which may have none.
AllocateWorkItem(p) ==
    /\ poster[p].at = "allocate"
    /\ \/ \E b \in Heap \cup {p} :
             /\ block[b] = "none"
             /\ block' = [block EXCEPT ![b] = "posted"]
             /\ poster' = [poster EXCEPT ![p] = [at |-> "insert", block |-> b]]
       \/ Move(p, "allocate", "dereference") /\ UNCHANGED block
    /\ UNCHANGED <<list, listEvent, listRef, worker, Pool>>

InsertWorkItem(p) == /\ Move(p, "insert", "signal")
                     /\ list' = Append(list, poster[p].block)
                     /\ UNCHANGED <<listEvent, listRef, block, worker, Pool>>

\* Mutant: the event is left alone when the list is thought to be busy.
SignalListIfShort(p) ==
    /\ poster[p].at = "signal"
    /\ listEvent' = (listEvent \/ Len(list) = 1)
    /\ poster' = [poster EXCEPT ![p] =
                    IF @.block = p THEN [@ EXCEPT !.at = "wait"]
                    ELSE [at |-> "dereference", block |-> None]]
    /\ UNCHANGED <<list, listRef, block, worker, Pool>>

SignalList(p) ==
    /\ poster[p].at = "signal"
    /\ listEvent' = TRUE
    /\ poster' = [poster EXCEPT ![p] =
                    IF @.block = p THEN [@ EXCEPT !.at = "wait"]
                    ELSE [at |-> "dereference", block |-> None]]
    /\ UNCHANGED <<list, listRef, block, worker, Pool>>

\* The wait for StaticEvent ends, and with the function the block.
Return(p) == /\ poster[p].at = "wait" /\ block[p] = "signalled"
             /\ poster' = [poster EXCEPT ![p] = [at |-> "dereference",
                                                 block |-> None]]
             /\ block' = [block EXCEPT ![p] = "none"]
             /\ UNCHANGED <<list, listEvent, listRef, worker, Pool>>

DereferenceList(p) == /\ Move(p, "dereference", "idle")
                      /\ listRef' = listRef - 1
                      /\ UNCHANGED <<list, listEvent, block, worker, Pool>>

-----------------------------------------------------------------------------
\* OcWthWorkerThreadRoutine: the wait ends with the first event that is set, or
\* that seems to be when its memory was freed.
WakeUp(w) ==
    /\ worker[w].at = "wait"
    /\ \/ listEvent /\ listEvent' = FALSE /\ UNCHANGED wakeup
       \/ /\ ~listEvent /\ (wakeup[w] \/ ~object[w])
          /\ wakeup' = [wakeup EXCEPT ![w] = FALSE] /\ UNCHANGED listEvent
    /\ Step(w, "wait", "remove")
    /\ UNCHANGED <<list, listRef, block, poster, terminate, object, owner>>

\* OcWthProcessAllWorkItems, until the list is empty.
RemoveHead(w) ==
    /\ IF list = <<>>
       THEN Step(w, "remove", "check") /\ UNCHANGED list
       ELSE /\ worker[w].at = "remove"
            /\ worker' = [worker EXCEPT ![w].at = "wakeNext",
                                        ![w].block = Head(list)]
            /\ list' = Tail(list)
    /\ UNCHANGED <<listEvent, listRef, block, poster, Pool>>

\* Mutant: the other threads are not told of the rest of a shared list.
WakeNobody(w) == /\ Step(w, "wakeNext", "call")
                 /\ UNCHANGED <<list, listEvent, listRef, block, poster, Pool>>

WakeNext(w) == /\ Step(w, "wakeNext", "call")
               /\ listEvent' = (listEvent \/ (~PrivateList /\ list # <<>>))
               /\ UNCHANGED <<list, listRef, block, poster, Pool>>

CallWorkItemFunction(w) ==
    /\ Step(w, "call", "free")
    /\ block' = [block EXCEPT ![worker[w].block] = "called"]
    /\ UNCHANGED <<list, listEvent, listRef, poster, Pool>>

\* Mutant: whose memory it is, is read from the block after the signal.
SignalCallerFirst(w) ==
    LET b == worker[w].block IN
    /\ worker[w].at = "free"
    /\ worker' = [worker EXCEPT ![w].at = "release", ![w].onStack = FALSE]
    /\ block' = [block EXCEPT ![b] = IF b \in Posters THEN "signalled" ELSE @]
    /\ UNCHANGED <<list, listEvent, listRef, poster, Pool>>

\* OcWthFreeWorkItem reads AllocatedOnStack before it sets CallerEvent.
SignalCaller(w) ==
    LET b == worker[w].block IN
    /\ worker[w].at = "free"
    /\ worker' = [worker EXCEPT ![w] = [at |-> "release", block |-> b,
                                        onStack |-> b \in Posters]]
    /\ block' = [block EXCEPT ![b] = IF b \in Posters THEN "signalled" ELSE @]
    /\ UNCHANGED <<list, listEvent, listRef, poster, Pool>>

FreeWorkItem(w) ==
    LET b == worker[w].block IN
    /\ worker[w].at = "release"
    /\ worker' = [worker EXCEPT ![w] = [at |-> "remove", block |-> None,
                                        onStack |-> FALSE]]
    /\ block' = [block EXCEPT ![b] = IF worker[w].onStack THEN @ ELSE "none"]
    /\ UNCHANGED <<list, listEvent, listRef, poster, Pool>>

\* The list was empty: TerminateThread ends the thread, and in freed memory it
\* may be anything.
CheckTerminate(w) ==
    /\ \E ends \in IF object[w] THEN {terminate[w]} ELSE BOOLEAN :
          Step(w, "check", IF ends THEN "exited" ELSE "wait")
    /\ UNCHANGED <<list, listEvent, listRef, block, poster, Pool>>

-----------------------------------------------------------------------------
\* The pool is dereferenced when nobody posts any more: OcTplStopAllThreadPools
\* dereferences its threads, which OcWthStopWorkerThreadAndWait stops.
StopPool == /\ owner.at = "running"
            /\ \A p \in Posters : poster[p].at = "idle"
            /\ owner' = At("stopping", 1)
            /\ UNCHANGED <<list, listEvent, listRef, block, poster, worker,
                           wakeup, terminate, object>>

Terminate == LET w == owner.thread IN
             /\ owner.at = "stopping" /\ w \in Workers /\ worker[w].at # "none"
             /\ terminate' = [terminate EXCEPT ![w] = TRUE]
             /\ owner' = [owner EXCEPT !.at = "wakeup"]
             /\ UNCHANGED <<list, listEvent, listRef, block, poster, worker,
                            wakeup, object>>

\* Mutant: the thread is left to find out on its next item.
SetNoEvent == /\ owner.at = "wakeup"
              /\ owner' = [owner EXCEPT !.at = IF owner.lost THEN "free" ELSE "join"]
              /\ UNCHANGED <<list, listEvent, listRef, block, poster, worker,
                             wakeup, terminate, object>>

SetWakeupEvent == /\ owner.at = "wakeup"
                  /\ wakeup' = [wakeup EXCEPT ![owner.thread] = TRUE]
                  /\ owner' = [owner EXCEPT !.at = IF owner.lost THEN "free" ELSE "join"]
                  /\ UNCHANGED <<list, listEvent, listRef, block, poster, worker,
                                 terminate, object>>

\* The object goes with its last reference, when the wait is over.
WaitForThread == /\ owner.at = "join" /\ worker[owner.thread].at = "exited"
                 /\ listRef' = listRef - 1
                 /\ object' = [object EXCEPT ![owner.thread] = FALSE]
                 /\ owner' = At("stopping", owner.thread + 1)
                 /\ UNCHANGED <<list, listEvent, block, poster, worker, wakeup,
                                terminate>>

\* There is no wait without a Thread: the object goes while its thread runs.
FreeLostThread == /\ owner.at = "free"
                  /\ listRef' = listRef - 1
                  /\ object' = [object EXCEPT ![owner.thread] = FALSE]
                  /\ owner' = [owner EXCEPT !.at = "lost"]
                  /\ UNCHANGED <<list, listEvent, block, poster, worker, wakeup,
                                 terminate>>

\* The creator waits by the handle, and then for the threads it had before.
WaitForLostThread == /\ owner.at = "lost" /\ worker[owner.thread].at = "exited"
                     /\ listRef' = listRef - 1
                     /\ worker' = [worker EXCEPT ![owner.thread] = Absent]
                     /\ owner' = At("stopping", 1)
                     /\ UNCHANGED <<list, listEvent, block, poster, wakeup,
                                    terminate, object>>

\* The list goes with the pool's own reference, the last one.
DropList == /\ owner.at = "stopping"
            /\ owner.thread \in Workers => worker[owner.thread].at = "none"
            /\ listRef' = listRef - 1
            /\ owner' = At("stopped", None)
            /\ UNCHANGED <<list, listEvent, block, poster, worker, wakeup,
                           terminate, object>>

-----------------------------------------------------------------------------
Post(p) == \/ AllocateWorkItem(p) \/ InsertWorkItem(p) \/ SignalList(p)
           \/ Return(p) \/ DereferenceList(p)
Work(w) == \/ WakeUp(w) \/ RemoveHead(w) \/ WakeNext(w)
           \/ CallWorkItemFunction(w) \/ SignalCaller(w) \/ FreeWorkItem(w)
           \/ CheckTerminate(w)
Stop == \/ Terminate \/ SetWakeupEvent \/ WaitForThread
        \/ FreeLostThread \/ WaitForLostThread \/ DropList

Next == \/ CreateWorkerThread \/ StopPool \/ Stop
        \/ \E p \in Posters : ReferenceList(p) \/ Post(p)
        \/ \E w \in Workers : Work(w)

Spec == /\ Init /\ [][Next]_vars
        /\ WF_vars(CreateWorkerThread) /\ WF_vars(Stop)
        /\ \A p \in Posters : WF_vars(Post(p))
        /\ \A w \in Workers : WF_vars(Work(w))
-----------------------------------------------------------------------------
Items == {list[i] : i \in DOMAIN list}
Running(w) == worker[w].at \notin {"none", "exited"}

TypeOK ==
    /\ list \in Seq(Blocks) /\ listEvent \in BOOLEAN /\ listRef \in Nat
    /\ block \in [Blocks -> {"none", "posted", "called", "signalled"}]
    /\ \A p \in Posters :
          /\ poster[p].at \in {"idle", "allocate", "insert", "signal", "wait",
                               "dereference"}
          /\ poster[p].block \in Heap \cup {p, None}
    /\ \A w \in Workers :
          /\ worker[w].at \in {"none", "wait", "remove", "wakeNext", "call",
                               "free", "release", "check", "exited"}
          /\ worker[w].block \in Blocks \cup {None}
    /\ wakeup \in [Workers -> BOOLEAN] /\ terminate \in [Workers -> BOOLEAN]
    /\ object \in [Workers -> BOOLEAN] /\ owner.lost \in BOOLEAN
    /\ owner.at \in {"creating", "running", "stopping", "wakeup", "join", "free",
                    "lost", "stopped"}

(***************************************************************************)
(* The list object is there for whoever uses it: it keeps a reference for  *)
(* every poster and for every thread that has not ended, and the last one  *)
(* is dropped when there are none.                                         *)
(***************************************************************************)
ListOutlivesItsUsers ==
    /\ listRef >= Cardinality({p \in Posters : poster[p].at # "idle"})
                  + Cardinality({w \in Workers : Running(w)})
                  + (IF owner.at = "stopped" THEN 0 ELSE 1)
    /\ owner.at = "stopped" => listRef = 0

(***************************************************************************)
(* A block of memory is used as long as it is one and no longer: an item   *)
(* in the list or on its way into it has not been called, one in a         *)
(* worker's hands is not free and in nobody else's, and what the worker    *)
(* frees is memory of the heap, never the stack of a poster that may have  *)
(* returned since it was signalled.                                        *)
(***************************************************************************)
BlocksAreUsedWhileTheyExist ==
    /\ \A b \in Items : block[b] = "posted"
    /\ \A i, j \in DOMAIN list : list[i] = list[j] => i = j
    /\ \A w \in Workers : \A b \in Blocks : worker[w].block = b =>
          /\ worker[w].at \in {"wakeNext", "call"} => block[b] = "posted"
          /\ worker[w].at = "free" => block[b] = "called"
          /\ worker[w].at = "release" /\ ~worker[w].onStack =>
                b \in Heap /\ block[b] = "called"
          /\ worker[w].at # "release" =>
                /\ b \notin Items
                /\ \A v \in Workers \ {w} : worker[v].block = b =>
                                               worker[v].at = "release"

(***************************************************************************)
(* The object of a thread is there as long as the thread runs, whose       *)
(* events and TerminateThread are in it, and for the owner that writes to  *)
(* it.  The one exception is the thread whose creator could not reference  *)
(* it, from the time it is waited for by its handle: the pool is not in    *)
(* use then.                                                               *)
(***************************************************************************)
ObjectsOutliveThreads ==
    /\ \A w \in Workers : Running(w) =>
          object[w] \/ (owner.at = "lost" /\ owner.thread = w)
    /\ owner.at \in {"wakeup", "join", "free"} => object[owner.thread]

(***************************************************************************)
(* False: without a Thread to wait for, the delete method returns and the  *)
(* object is freed under the thread (lines 631 and 734), although the list *)
(* object is kept for it (lines 617-623).                                  *)
(***************************************************************************)
NoObjectIsFreedTooEarly == \A w \in Workers : Running(w) => object[w]

(***************************************************************************)
(* An item in the list never waits while a thread sleeps, even when every  *)
(* other thread is caught in a function that takes its time: the event is  *)
(* set, or somebody who is not in such a function is about to set it or to *)
(* remove an item (lines 393-399 and 851-856).                             *)
(***************************************************************************)
IdleThreadsAreCalled ==
    list # <<>> /\ (\E w \in Workers : worker[w].at = "wait") =>
        \/ listEvent
        \/ \E p \in Posters : poster[p].at = "signal"
        \/ \E w \in Workers : worker[w].at \in {"remove", "wakeNext"}

(***************************************************************************)
(* TerminateThread: "the thread will be terminated on the next wake up     *)
(* after processing of all entries in the list" (ocwthread.h:83-84).       *)
(* False: an item may come after the list was found empty (line 362).      *)
(***************************************************************************)
NothingIsLeftInTheList == owner.at = "stopped" => list = <<>>

(***************************************************************************)
(* A synchronous poster gets its answer, whatever the other posters do.    *)
(***************************************************************************)
SynchronousPostReturns ==
    \A p \in Posters : poster[p].at = "wait" ~> poster[p].at = "idle"

(***************************************************************************)
(* Stopping the pool ends: a thread that sleeps is woken, one that is at   *)
(* work finds TerminateThread when it is done.  One that lost its object   *)
(* may find anything, so the stop of that one is excepted.                 *)
(***************************************************************************)
PoolStops == owner.at = "stopping" /\ ~owner.lost ~> owner.at = "stopped"

(***************************************************************************)
(* The memory of the list, of the items and, but for the one that could    *)
(* not be referenced, of the objects of the threads is there for whoever   *)
(* uses it.                                                                *)
(***************************************************************************)
PoolInvariant == /\ TypeOK /\ ListOutlivesItsUsers /\ BlocksAreUsedWhileTheyExist
                 /\ ObjectsOutliveThreads
=============================================================================
