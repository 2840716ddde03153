----------------------------- MODULE FileContext -----------------------------
(***************************************************************************)
(* File objects and their contexts, o_core/fileobject.c.  The filter keeps *)
(* an object for every system file object it has seen opened, in one hash, *)
(* and an object for every file (all system file objects with the same     *)
(* FsContext), in another, with a counter of its open file objects.  When  *)
(* the counter drops to zero the context leaves its hash, while openers of *)
(* the same file may be about to use it or to put a new one in its place.  *)
(*                                                                         *)
(* Three operations run concurrently: the completion of a create, with     *)
(* creation information; the adoption of a stream file object that caches  *)
(* a file, without it, by several threads at once; and the close, which    *)
(* the system sends when nothing else is going on for that file object.    *)
(*                                                                         *)
(* The locks are BarrierLock, which QueueLock implements; finding a        *)
(* context and referencing it is one step, as the hash promises.  No hash  *)
(* has two entries with one key (TableInvariant), so each is a set.        *)
(***************************************************************************)
EXTENDS Integers, SequencesExt, FiniteSets

CONSTANTS Threads,
          UserFiles,     \* system file objects opened by a create request
          StreamFiles,   \* system file objects of the cache manager
          Keys,          \* FsContext values
          KeyOf,         \* OcCrGetSysFileObjectContext
          MaxObjects,    \* objects of each type that memory has room for
          FileHashFails, \* may inserting a file object in its hash fail?
          None

Files == UserFiles \cup StreamFiles
Ids   == 1..MaxObjects

ASSUME ThreadsAssumption == IsFiniteSet(Threads)
ASSUME KeyAssumption  == KeyOf \in [Files -> Keys]
ASSUME SizeAssumption == MaxObjects \in Nat \ {0}
ASSUME FailAssumption == FileHashFails \in BOOLEAN
ASSUME NoneAssumption == None \notin Threads \cup Files \cup Keys \cup Ids
ASSUME OpAssumption   == None \notin {"create", "adopt", "close"}

VARIABLES system,      \* what the system has done with each of its files
          fo,          \* file objects: references, file, context, open
          context,     \* contexts: references, key, OpenedFileObjectCounter
          foHash,      \* Global.PtrFoHashObject
          contextHash, \* Global.PtrFoContextHashObject
          line, holders,         \* Global.FoCtxQueueLock
          streamLine, streamHolders,  \* the ContexQueueLocks
          at           \* each thread's operation and local variables

vars == <<system, fo, context, foHash, contextHash, line, holders,
          streamLine, streamHolders, at>>

HashLine == INSTANCE BarrierLock WITH Procs <- Threads, Contexts <- Keys
StreamLock == INSTANCE BarrierLock
                  WITH Procs <- Threads, Contexts <- Ids \X StreamFiles,
                       line <- streamLine, holders <- streamHolders

FreeFo == [ref |-> 0, file |-> None, context |-> None, open |-> FALSE]
FreeContext == [ref |-> 0, key |-> None, counter |-> 0]
Idle == [pc |-> "idle", op |-> None, file |-> None, fo |-> None,
         context |-> None, duplicate |-> None, barrier |-> FALSE,
         failed |-> FALSE]

Init == /\ system = [f \in Files |-> IF f \in UserFiles THEN "new" ELSE "open"]
        /\ fo = [i \in Ids |-> FreeFo]
        /\ context = [i \in Ids |-> FreeContext]
        /\ foHash = {} /\ contextHash = {}
        /\ HashLine!Init /\ StreamLock!Init
        /\ at = [t \in Threads |-> Idle]

-----------------------------------------------------------------------------
\* OcHsFindContextByKeyValue: the entry with the key, or None.
Entry(S) == IF S = {} THEN None ELSE CHOOSE i \in S : TRUE
FindFo(f) == Entry({i \in foHash : fo[i].file = f})
FindContext(k) == Entry({c \in contextHash : context[c].key = k})

FreeFos == {i \in Ids : fo[i].ref = 0}
FreeContexts == {c \in Ids : context[c].ref = 0}

Key(t) == KeyOf[at[t].file]
Lock(t) == <<at[t].context, at[t].file>>

\* OcObDereferenceObject of a context; the last reference frees it, and
\* OcCrDeleteContextObject leaves its counter as it is.
Less(cs, c) == IF cs[c].ref = 1
               THEN [cs EXCEPT ![c] = [@ EXCEPT !.ref = 0, !.key = None]]
               ELSE [cs EXCEPT ![c].ref = @ - 1]

\* OcObDereferenceObject of a file object, with OcCrDeleteFileObject.
DereferenceFo(i) ==
    IF fo[i].ref = 1
    THEN /\ fo' = [fo EXCEPT ![i] = FreeFo]
         /\ context' = IF fo[i].context = None THEN context
                       ELSE Less(context, fo[i].context)
    ELSE /\ fo' = [fo EXCEPT ![i].ref = @ - 1]
         /\ UNCHANGED context

\* A thread's step from one control point to another.
Go(t, from, to) == at[t].pc = from /\ at' = [at EXCEPT ![t].pc = to]
Goes(t, from, record) == at[t].pc = from /\ at' = [at EXCEPT ![t] = record]
Locks == <<line, holders, streamLine, streamHolders>>
Hashes == <<foHash, contextHash>>

-----------------------------------------------------------------------------
\* OcCrProcessFileObjectCreating, up to the creation of the file object, for
\* a create that completes or for a stream file object found by a thread.
Begin(t, op, f) ==
    /\ at[t].pc = "idle"
    /\ \/ op = "create" /\ f \in UserFiles /\ system[f] = "new"
          /\ system' = [system EXCEPT ![f] = "busy"]
       \/ op = "adopt" /\ f \in StreamFiles /\ system[f] = "open"
          /\ UNCHANGED system
    /\ FreeFos # {}
    /\ LET i == CHOOSE i \in FreeFos : TRUE IN
       /\ fo' = [fo EXCEPT ![i] = [ref |-> 1, file |-> f, context |-> None,
                                   open |-> TRUE]]
       /\ at' = [at EXCEPT ![t] = [Idle EXCEPT !.pc = "find", !.op = op,
                                               !.file = f, !.fo = i]]
    /\ UNCHANGED <<context, Hashes, Locks>>

\* OcCrInsertFileObjectInContext looks for the context and references it.
NextWithoutContext(t) == IF at[t].op = "create" THEN "newContext" ELSE "exit"

FindInHash(t) ==
    LET c == FindContext(Key(t)) IN
    /\ at[t].pc = "find"
    /\ \/ /\ c # None
          /\ Goes(t, "find", [at[t] EXCEPT !.pc = "increment", !.context = c])
          /\ context' = [context EXCEPT ![c].ref = @ + 1]
       \/ /\ c = None
          /\ Goes(t, "find", [at[t] EXCEPT !.pc = NextWithoutContext(t),
                                           !.failed = (at[t].op = "adopt")])
          /\ UNCHANGED context
    /\ UNCHANGED <<system, fo, Hashes, Locks>>

\* The context of the file object is known: line 687.
Attach(t, c) ==
    /\ fo' = [fo EXCEPT ![at[t].fo].context = c]
    /\ at' = [at EXCEPT ![t].pc = IF at[t].op = "adopt" THEN "streamLock"
                                                        ELSE "insertFo",
                        ![t].context = c]

\* Mutant: the counter is incremented whatever it is.
IncrementAlways(t) ==
    LET c == at[t].context IN
    /\ at[t].pc = "increment"
    /\ context' = [context EXCEPT ![c].counter = @ + 1]
    /\ Attach(t, c)
    /\ UNCHANGED <<system, Hashes, Locks>>

\* The loop of compare-exchanges: a counter that is zero belongs to a context
\* on its way out of the hash and is left alone.
Increment(t) ==
    LET c == at[t].context IN
    /\ at[t].pc = "increment"
    /\ \/ /\ context[c].counter > 0
          /\ context' = [context EXCEPT ![c].counter = @ + 1]
          /\ Attach(t, c)
       \/ /\ context[c].counter = 0
          /\ Goes(t, "increment", [at[t] EXCEPT !.pc = NextWithoutContext(t),
                                                !.context = None,
                                                !.failed = (at[t].op = "adopt")])
          /\ context' = Less(context, c)
          /\ UNCHANGED fo
    /\ UNCHANGED <<system, Hashes, Locks>>

\* A new context with a counter of one, and the request for the hash line; or
\* no memory for it.
NewContext(t) ==
    /\ at[t].pc = "newContext"
    /\ \/ /\ FreeContexts # {}
          /\ LET c == CHOOSE c \in FreeContexts : TRUE IN
             /\ context' = [context EXCEPT ![c] = [ref |-> 1, key |-> Key(t),
                                                   counter |-> 1]]
             /\ Goes(t, "newContext", [at[t] EXCEPT !.pc = "locking",
                                                    !.context = c])
          /\ HashLine!Ask(t, Key(t))
       \/ /\ Goes(t, "newContext", [at[t] EXCEPT !.pc = "exit", !.failed = TRUE])
          /\ UNCHANGED <<context, line, holders>>
    /\ UNCHANGED <<system, fo, Hashes, streamLine, streamHolders>>

GrantHashLine(t) == /\ at[t].pc = "locking" /\ t \notin holders
                    /\ HashLine!Grant(t, Key(t))
                    /\ UNCHANGED <<system, fo, context, Hashes, streamLine,
                                   streamHolders, at>>

\* Mutant: the new context is inserted beside one that is there.
InsertContextBlindly(t) ==
    LET c == at[t].context IN
    /\ at[t].pc = "locking" /\ t \in holders
    /\ contextHash' = contextHash \cup {c}
    /\ context' = [context EXCEPT ![c].ref = @ + 1]
    /\ Go(t, "locking", "unlockAndUse")
    /\ UNCHANGED <<system, fo, foHash, Locks>>

\* Under the lock of the hash line: if there is a context with this key all is
\* repeated, otherwise the new one is inserted, if there is memory.
InsertContext(t) ==
    LET c == at[t].context IN
    /\ at[t].pc = "locking" /\ t \in holders
    /\ \/ /\ FindContext(Key(t)) # None
          /\ Go(t, "locking", "unlockAndRepeat")
          /\ UNCHANGED <<contextHash, context>>
       \/ /\ FindContext(Key(t)) = None
          /\ contextHash' = contextHash \cup {c}
          /\ context' = [context EXCEPT ![c].ref = @ + 1]
          /\ Go(t, "locking", "unlockAndUse")
       \/ /\ FindContext(Key(t)) = None
          /\ Go(t, "locking", "unlockAndFail")
          /\ UNCHANGED <<contextHash, context>>
    /\ UNCHANGED <<system, fo, foHash, Locks>>

\* OcReleaseFoContextHashLine; a context that is not used goes, its counter
\* reset.
UnlockHashLine(t) ==
    LET c == at[t].context IN
    /\ at[t].pc \in {"unlockAndUse", "unlockAndRepeat", "unlockAndFail"}
    /\ HashLine!Release(t, Key(t))
    /\ \/ /\ at[t].pc = "unlockAndUse"
          /\ Attach(t, c)
          /\ UNCHANGED context
       \/ /\ \/ Goes(t, "unlockAndRepeat", [at[t] EXCEPT !.pc = "find",
                                                         !.context = None])
             \/ Goes(t, "unlockAndFail", [at[t] EXCEPT !.pc = "exit",
                                                       !.context = None,
                                                       !.failed = TRUE])
          /\ context' = Less([context EXCEPT ![c].counter = 0], c)
          /\ UNCHANGED fo
    /\ UNCHANGED <<system, Hashes, streamLine, streamHolders>>

-----------------------------------------------------------------------------
\* A stream file object is created under the lock of its context and file.
AskStreamLock(t) == /\ Go(t, "streamLock", "lookup")
                    /\ StreamLock!Ask(t, Lock(t))
                    /\ UNCHANGED <<system, fo, context, Hashes, line, holders>>

GrantStreamLock(t) == /\ at[t].pc = "lookup" /\ t \notin streamHolders
                      /\ StreamLock!Grant(t, Lock(t))
                      /\ UNCHANGED <<system, fo, context, Hashes, line,
                                     holders, at>>

LookupDuplicate(t) ==
    LET d == FindFo(at[t].file) IN
    /\ at[t].pc = "lookup" /\ t \in streamHolders
    /\ \/ d = None /\ Go(t, "lookup", "insertFo") /\ UNCHANGED fo
       \/ /\ d # None
          /\ Goes(t, "lookup", [at[t] EXCEPT !.pc = "unlockStream",
                                             !.duplicate = d])
          /\ fo' = [fo EXCEPT ![d].ref = @ + 1]
    /\ UNCHANGED <<system, context, Hashes, Locks>>

AfterInsert(t) == IF at[t].op = "adopt" THEN "unlockStream" ELSE "exit"
InsertFo(t) ==
    /\ at[t].pc = "insertFo"
    /\ \/ /\ foHash' = foHash \cup {at[t].fo}
          /\ fo' = [fo EXCEPT ![at[t].fo].ref = @ + 1]
          /\ Go(t, "insertFo", AfterInsert(t))
       \/ /\ FileHashFails
          /\ Goes(t, "insertFo", [at[t] EXCEPT !.pc = AfterInsert(t),
                                               !.failed = TRUE])
          /\ UNCHANGED <<foHash, fo>>
    /\ UNCHANGED <<system, context, contextHash, Locks>>

\* The lock is released, and a file object that is not needed is processed as
\* if it had been removed from the hash.
UnlockStream(t) ==
    /\ Go(t, "unlockStream", IF at[t].duplicate = None THEN "exit" ELSE "close")
    /\ StreamLock!Release(t, Lock(t))
    /\ UNCHANGED <<system, fo, context, Hashes, line, holders>>

\* The end of OcCrProcessFileObjectCreating: an error closes and dereferences
\* the file object; otherwise the caller dereferences what it was given
\* (OcCrProcessFoCreateRequestCompletion, OcCrCheckSharedCacheMapFileObject).
Exit(t) ==
    LET i == at[t].fo IN
    /\ Goes(t, "exit", Idle)
    /\ system' = IF at[t].op = "create" THEN [system EXCEPT ![at[t].file] = "open"]
                                        ELSE system
    /\ DereferenceFo(i)
    /\ UNCHANGED <<Hashes, Locks>>

-----------------------------------------------------------------------------
\* OcCrProcessFileObjectCloseRequest, which the system sends when no thread
\* works on the file any more, removes the file object from its hash.
BeginClose(t, f) ==
    LET i == FindFo(f) IN
    /\ at[t].pc = "idle" /\ system[f] = "open"
    /\ \A u \in Threads : at[u].file # f
    /\ system' = [system EXCEPT ![f] = "closed"]
    /\ IF i = None THEN UNCHANGED <<foHash, at>>
       ELSE /\ foHash' = foHash \ {i}
            /\ at' = [at EXCEPT ![t] = [Idle EXCEPT !.pc = "close", !.op = "close",
                                                    !.file = f, !.fo = i,
                                                    !.context = fo[i].context]]
    /\ UNCHANGED <<fo, context, contextHash, Locks>>

\* OcCrProcessFileObjectRemovedFromHash marks the file object as closed.
MarkClosed(t) == /\ Go(t, "close", "counter")
                 /\ fo' = [fo EXCEPT ![at[t].fo].open = FALSE]
                 /\ UNCHANGED <<system, context, Hashes, Locks>>

\* OcCrDecrementContextOpenedFileObjectsCounter: the probable last one puts
\* a barrier in the hash line before it decrements.
LooksLast(t) ==
    /\ at[t].pc = "counter"
    /\ \/ /\ context[at[t].context].counter = 1
          /\ HashLine!PutBarrier(t, Key(t))
          /\ Goes(t, "counter", [at[t] EXCEPT !.pc = "decrement", !.barrier = TRUE])
       \/ /\ context[at[t].context].counter # 1
          /\ Go(t, "counter", "decrement")
          /\ UNCHANGED <<line, holders>>
    /\ UNCHANGED <<system, fo, context, Hashes, streamLine, streamHolders>>

Decrement(t) ==
    LET c == at[t].context IN
    /\ at[t].pc = "decrement"
    /\ context' = [context EXCEPT ![c].counter = @ - 1]
    /\ Go(t, "decrement", IF context[c].counter # 1 THEN "removeBarrier"
                          ELSE IF at[t].barrier THEN "drop" ELSE "lateBarrier")
    /\ UNCHANGED <<system, fo, Hashes, Locks>>

LateBarrier(t) == /\ Goes(t, "lateBarrier", [at[t] EXCEPT !.pc = "drop",
                                                          !.barrier = TRUE])
                  /\ HashLine!PutBarrier(t, Key(t))
                  /\ UNCHANGED <<system, fo, context, Hashes, streamLine,
                                 streamHolders>>

\* Mutant: the hash's reference is not given back.
DropWithoutDereference(t) ==
    /\ Go(t, "drop", "removeBarrier")
    /\ contextHash' = contextHash \ {FindContext(Key(t))}
    /\ UNCHANGED <<system, fo, context, foHash, Locks>>

\* OcCrDropFoContext removes whatever has the key, and dereferences that.
DropContext(t) ==
    LET c == FindContext(context[at[t].context].key) IN
    /\ Go(t, "drop", "removeBarrier")
    /\ IF c = None THEN UNCHANGED <<contextHash, context>>
       ELSE /\ contextHash' = contextHash \ {c}
            /\ context' = Less(context, c)
    /\ UNCHANGED <<system, fo, foHash, Locks>>

\* Mutant: the barrier stays.
KeepBarrier(t) == /\ Goes(t, "removeBarrier", [at[t] EXCEPT !.pc = "dereference",
                                                            !.barrier = FALSE])
                  /\ UNCHANGED <<system, fo, context, Hashes, Locks>>

RemoveBarrier(t) ==
    /\ at[t].pc = "removeBarrier"
    /\ IF at[t].barrier THEN HashLine!TakeBarrier(t, Key(t))
                        ELSE UNCHANGED <<line, holders>>
    /\ Goes(t, "removeBarrier", [at[t] EXCEPT !.pc = "dereference",
                                              !.barrier = FALSE])
    /\ UNCHANGED <<system, fo, context, Hashes, streamLine, streamHolders>>

\* The reference of the hash, or of the creation of an unneeded file object.
DereferenceClosed(t) ==
    /\ at[t].pc = "dereference"
    /\ DereferenceFo(at[t].fo)
    /\ at' = [at EXCEPT ![t] =
                  IF at[t].op = "close" THEN Idle
                  ELSE [@ EXCEPT !.pc = "exit", !.fo = at[t].duplicate,
                                 !.context = None]]
    /\ UNCHANGED <<system, Hashes, Locks>>

-----------------------------------------------------------------------------
Step(t) == \/ FindInHash(t) \/ Increment(t) \/ NewContext(t)
           \/ GrantHashLine(t) \/ InsertContext(t) \/ UnlockHashLine(t)
           \/ AskStreamLock(t) \/ GrantStreamLock(t) \/ LookupDuplicate(t)
           \/ InsertFo(t) \/ UnlockStream(t) \/ Exit(t)
           \/ MarkClosed(t) \/ LooksLast(t) \/ Decrement(t) \/ LateBarrier(t)
           \/ DropContext(t) \/ RemoveBarrier(t) \/ DereferenceClosed(t)

Next == \E t \in Threads :
            \/ \E f \in Files : \/ \E op \in {"create", "adopt"} : Begin(t, op, f)
                                \/ BeginClose(t, f)
            \/ Step(t)

Spec == Init /\ [][Next]_vars /\ \A t \in Threads : WF_vars(Step(t))
-----------------------------------------------------------------------------
InHash(c) == c \in contextHash
In(S) == {t \in Threads : at[t].pc \in S}

\* New contexts, counted for a file object that they are not attached to yet.
Private(c) == \E t \in In({"locking", "unlockAndUse", "unlockAndRepeat",
                             "unlockAndFail"}) : at[t].context = c
\* File objects whose close has not decremented the counter yet.
Counted(i) == /\ fo[i].ref > 0 /\ fo[i].context # None
              /\ ~\E t \in In({"lateBarrier", "drop", "removeBarrier",
                               "dereference"}) : at[t].fo = i
OpenedIn(c) == {i \in Ids : Counted(i) /\ fo[i].context = c}

(***************************************************************************)
(* The types, and the references of the objects: whoever holds a pointer   *)
(* to a file object or context holds a reference to it, so nothing that    *)
(* is in a hash, in a file object or in a thread's hands is freed memory.  *)
(***************************************************************************)
TypeOK ==
    /\ system \in [Files -> {"new", "busy", "open", "closed"}]
    /\ fo \in [Ids -> [ref : 0..(Cardinality(Threads) + 1),
                      file : Files \cup {None}, context : Ids \cup {None},
                      open : BOOLEAN]]
    /\ context \in [Ids -> [ref : Nat, key : Keys \cup {None}, counter : Nat]]
    /\ foHash \subseteq Ids /\ contextHash \subseteq Ids
    /\ \A i \in foHash : fo[i].ref > 0
    /\ \A c \in contextHash : context[c].ref > 0
    /\ \A i \in Ids : fo[i].ref > 0 /\ fo[i].context # None =>
                        context[fo[i].context].ref > 0
    /\ \A t \in Threads : at[t].fo # None => fo[at[t].fo].ref > 0
    /\ \A t \in In({"increment"}) : context[at[t].context].ref > 0

(***************************************************************************)
(* OpenedFileObjectCounter counts the file objects that are attached to    *)
(* the context and whose close has not been accounted for; in particular   *)
(* it is zero when the context is freed (the assertion of line 975) and    *)
(* every close finds it at one or more (that of line 730).                 *)
(***************************************************************************)
CounterCountsFileObjects ==
    \A c \in Ids : context[c].counter =
                       Cardinality(OpenedIn(c)) + (IF Private(c) THEN 1 ELSE 0)

(***************************************************************************)
(* The second and the fourth of the points at lines 23-34: a context with  *)
(* an opened file object can be found in the hash, and one without leaves  *)
(* it, at the hands of the thread that made its counter zero.  There are   *)
(* never two contexts of one file in the hash.                             *)
(***************************************************************************)
HashMatchesCounters ==
    /\ \A c \in Ids : OpenedIn(c) # {} => InHash(c)
    /\ \A c \in contextHash :
          \/ context[c].counter > 0
          \/ \E t \in In({"lateBarrier", "drop"}) : at[t].context = c
    /\ \A c, d \in contextHash : context[c].key = context[d].key => c = d

(***************************************************************************)
(* OcCrDropFoContext removes by key.  What it finds is the context whose   *)
(* counter has dropped to zero, never one that an opener has put in its    *)
(* place in the meantime.                                                  *)
(***************************************************************************)
DropsItsOwnContext ==
    \A t \in In({"lateBarrier", "drop"}) : FindContext(Key(t)) = at[t].context

(***************************************************************************)
(* However many threads come across a stream file object at once, there is *)
(* one file object for it in the hash (lines 337-370).                     *)
(***************************************************************************)
OneFileObjectPerFile ==
    \A i, j \in foHash : fo[i].file = fo[j].file => i = j

(***************************************************************************)
(* When every file is closed and every thread is done, nothing is left: no *)
(* entry in a hash, no reference, no block in a line.                      *)
(***************************************************************************)
NothingIsLeftBehind ==
    (\A f \in Files : system[f] = "closed") /\ In({"idle"}) = Threads =>
        /\ foHash = {} /\ contextHash = {}
        /\ \A i \in Ids : fo[i].ref = 0 /\ context[i].ref = 0
        /\ \A k \in Keys : line[k] = <<>>

(***************************************************************************)
(* "Something went wrong, undo all" (line 434): when no operation is under *)
(* way a context counts the file objects in the hash that are attached to  *)
(* it, whatever failed before.  False when the insertion of line 385 fails.*)
(***************************************************************************)
FailureIsUndone ==
    In({"idle"}) = Threads =>
        \A c \in contextHash :
            context[c].counter =
                Cardinality({i \in foHash : fo[i].context = c})

(***************************************************************************)
(* Every operation ends: an opener that keeps finding the context that is  *)
(* being dropped does not repeat for ever, and nobody is left behind a     *)
(* barrier.                                                                *)
(***************************************************************************)
OperationsEnd == \A t \in Threads : at[t].pc # "idle" ~> at[t].pc = "idle"

(***************************************************************************)
(* The two hashes, the counters and the references agree: what the locks of*)
(* the context hash line and of the stream files are for.                  *)
(***************************************************************************)
TableInvariant ==
    /\ TypeOK
    /\ CounterCountsFileObjects
    /\ HashMatchesCounters
    /\ OneFileObjectPerFile
=============================================================================
