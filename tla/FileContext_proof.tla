--------------------------- MODULE FileContext_proof ---------------------------
(***************************************************************************)
(* Machine-checked proofs about FileContext, for any threads, files and    *)
(* keys and any amount of memory: when insertions in the hash of the file  *)
(* objects succeed, the two hashes, the references and the counters agree, *)
(* a dropped context is the one that was meant, and nothing is left behind *)
(* when all files are closed.                                              *)
(***************************************************************************)
EXTENDS FileContext, Lines, FiniteSetTheorems, TLAPS

-----------------------------------------------------------------------------
(* The inductive invariant                                                    *)

\* The control points: with a new context that may not be in the hash, before
\* the file object has a context, after its close was accounted for, while it is
\* closed, and while it has the context that the thread knows.
Making     == {"locking", "unlockAndUse", "unlockAndRepeat", "unlockAndFail"}
Unattached == {"find", "increment", "newContext"} \cup Making
Accounted  == {"lateBarrier", "drop", "removeBarrier", "dereference"}
Closing    == {"close", "counter", "decrement"} \cup Accounted
Attached   == {"streamLock", "lookup", "insertFo", "unlockStream"} \cup Closing
Pcs        == {"idle", "exit"} \cup Unattached \cup Attached

AtType == [pc : Pcs, op : {"create", "adopt", "close", None}, file : Files \cup {None},
           fo : Ids \cup {None}, context : Ids \cup {None}, duplicate : Ids \cup {None},
           barrier : BOOLEAN, failed : BOOLEAN]

FoType == [ref : Nat, file : Files \cup {None}, context : Ids \cup {None}, open : BOOLEAN]
ContextType == [ref : Nat, key : Keys \cup {None}, counter : Nat]
Types ==
  /\ system \in [Files -> {"new", "busy", "open", "closed"}]
  /\ fo \in [Ids -> FoType]
  /\ context \in [Ids -> ContextType]
  /\ foHash \in SUBSET Ids /\ contextHash \in SUBSET Ids
  /\ line \in [Keys -> Seq(Threads)]
  /\ streamLine \in [Ids \X StreamFiles -> Seq(Threads)]
  /\ at \in [Threads -> AtType]

\* What a thread has at each control point.
PlaceFits(r) ==
  /\ r.pc = "idle" => r = Idle
  /\ r.pc # "idle" => r.file \in Files /\ r.fo \in Ids /\ r.op # None
  /\ r.pc \in {"newContext"} \cup Making => r.op = "create"
  /\ r.pc \in {"streamLock", "lookup", "unlockStream"} => r.op = "adopt"
  /\ r.pc \in Unattached \cup {"insertFo", "exit"} => r.op \in {"create", "adopt"}
  /\ r.pc \in Closing => r.op \in {"close", "adopt"}
  /\ r.op = "adopt" => r.file \in StreamFiles
  /\ r.pc \in {"find", "newContext"} => r.context = None
  /\ r.pc \in {"increment"} \cup Making \cup Attached => r.context \in Ids
  /\ r.barrier => r.pc \in {"decrement", "drop", "removeBarrier"}
  /\ r.pc = "drop" => r.barrier
  /\ r.duplicate # None => r.op = "adopt" /\ r.pc \in {"unlockStream", "exit"} \cup Closing
  /\ r.pc \in Closing /\ r.op = "adopt" => r.duplicate # None
  /\ r.pc = "exit" /\ r.duplicate # None => r.fo = r.duplicate
PlacesFit == \A t \in Threads : PlaceFits(at[t])

\* The file objects that a thread works with.
FoFits(r) ==
  /\ r.pc # "idle" => fo[r.fo].file = r.file
  /\ r.duplicate # None => fo[r.duplicate].file = r.file /\ r.duplicate \in foHash
  /\ r.pc \in Unattached => fo[r.fo].context = None
  /\ r.pc \in Attached => fo[r.fo].context = r.context
  /\ r.pc = "exit" => r.fo \in foHash \/ fo[r.fo].context = None
  /\ r.pc \in Unattached \cup {"streamLock", "lookup", "insertFo"} \cup Closing => r.fo \notin foHash
  /\ r.pc = "unlockStream" => (r.fo \in foHash <=> r.duplicate = None)
FosFit ==
  /\ \A t \in Threads : FoFits(at[t])
  /\ \A i \in foHash : fo[i].context # None /\ fo[i].file # None
  /\ \A i \in Ids : fo[i].ref = 0 => fo[i].context = None
  /\ \A t, u \in Threads : t # u /\ at[t].fo = at[u].fo /\ at[t].fo # None => at[t].fo \in foHash

\* The references to a file object: those of the threads and that of the hash.
FoThreads(i) == {t \in Threads : at[t].fo = i \/ at[t].duplicate = i}
FoCounts == \A i \in Ids : fo[i].ref = Cardinality(FoThreads(i)) + (IF i \in foHash THEN 1 ELSE 0)

\* The references to a context: those of the file objects, of the threads that
\* have it before it is attached and that of the hash.
AttachedTo(c) == {i \in Ids : fo[i].context = c}
ThreadsAt(c)  == {t \in In({"increment"} \cup Making) : at[t].context = c}
ContextCounts ==
  \A c \in Ids : context[c].ref = Cardinality(AttachedTo(c)) + Cardinality(ThreadsAt(c))
                                    + (IF c \in contextHash THEN 1 ELSE 0)

\* A new context belongs to its maker, who is its only user until it is in the hash.
NewFits ==
  /\ \A t, u \in In(Making) : at[t].context = at[u].context => t = u
  /\ \A t \in In(Making \ {"unlockAndUse"}), c \in Ids :
       at[t].context = c => AttachedTo(c) = {} /\ ThreadsAt(c) = {t} /\ c \notin contextHash
  /\ \A t \in In({"unlockAndUse"}) : at[t].context \in contextHash

\* A context whose counter is zero is in the hash as long as one thread is about
\* to take it out.
DroppersFit ==
  /\ \A c \in Ids : OpenedIn(c) # {} => c \in contextHash
  /\ \A c \in contextHash :
       context[c].counter > 0 \/ \E t \in In({"lateBarrier", "drop"}) : at[t].context = c
  /\ \A t \in In({"lateBarrier", "drop"}) :
       at[t].context \in contextHash /\ context[at[t].context].counter = 0
  /\ \A t, u \in In({"lateBarrier", "drop"}) : at[t].context = at[u].context => t = u
  /\ \A c, d \in contextHash : context[c].key = context[d].key => c = d

\* Contexts have the keys of the files they are used for.
KeysFit ==
  /\ \A c \in Ids : context[c].ref > 0 => context[c].key \in Keys
  /\ \A i \in Ids : fo[i].context # None =>
       fo[i].file \in Files /\ context[fo[i].context].key = KeyOf[fo[i].file]
  /\ \A t \in In({"increment"} \cup Making) : context[at[t].context].key = Key(t)

\* Who stands in the lines.
LinesFit ==
  \A k \in Keys :
    /\ IsInjective(line[k])
    /\ \A t \in ToSet(line[k]) : k = Key(t) /\ (at[t].pc \in Making \/ at[t].barrier)
StreamsFit ==
  /\ \A l \in Ids \X StreamFiles :
       /\ IsInjective(streamLine[l])
       /\ \A t \in ToSet(streamLine[l]) :
            l = Lock(t) /\ at[t].op = "adopt" /\ at[t].pc \in {"lookup", "insertFo", "unlockStream"}
  /\ \A t \in streamHolders :
       t \in Threads /\ \E l \in Ids \X StreamFiles : t \in ToSet(streamLine[l]) /\ streamLine[l][1] = t
  /\ \A t \in In({"insertFo", "unlockStream"}) : at[t].op = "adopt" => t \in streamHolders

\* The files: nobody else works on one that is created or closed, and there is
\* no file object in the hash for one that is not open, or about to be inserted.
FilesFit ==
  /\ \A t \in Threads : at[t].op = "create" => system[at[t].file] = "busy"
  /\ \A t \in Threads : at[t].op = "adopt" => system[at[t].file] = "open"
  /\ \A t \in Threads : at[t].op = "close" => system[at[t].file] = "closed"
  /\ \A t, u \in Threads : at[t].op \in {"create", "close"} /\ at[u].file = at[t].file => t = u
  /\ \A i \in foHash : system[fo[i].file] \in {"busy", "open"}
  /\ \A i, j \in foHash : fo[i].file = fo[j].file => i = j
  /\ \A t \in Threads :
       \/ at[t].op = "create" /\ at[t].pc \in Unattached \cup {"insertFo"}
       \/ at[t].op = "adopt" /\ at[t].pc = "insertFo"
       => \A j \in foHash : fo[j].file # at[t].file

IInv == /\ Types /\ PlacesFit /\ FosFit /\ FoCounts /\ ContextCounts
        /\ CounterCountsFileObjects /\ NewFits /\ DroppersFit /\ KeysFit
        /\ LinesFit /\ StreamsFit /\ FilesFit

-----------------------------------------------------------------------------
(* Finite sets                                                                *)

LEMMA FiniteParts ==
  /\ \A S : S \subseteq Threads => IsFiniteSet(S)
  /\ \A S : S \subseteq Ids => IsFiniteSet(S)
  <1>1. IsFiniteSet(Ids)
    BY SizeAssumption, FS_Interval DEF Ids
  <1> QED
    BY <1>1, ThreadsAssumption, FS_Subset

LEMMA Sizes ==
  ASSUME NEW S, IsFiniteSet(S)
  PROVE  /\ Cardinality(S) \in Nat
         /\ Cardinality(S) = 0 <=> S = {}
         /\ \A x \in S : Cardinality(S) >= 1 /\ (Cardinality(S) = 1 => S = {x})
  <1>1. Cardinality(S) \in Nat /\ (Cardinality(S) = 0 <=> S = {})
    BY FS_CardinalityType, FS_EmptySet
  <1>2. ASSUME NEW x \in S
        PROVE  Cardinality(S) >= 1 /\ (Cardinality(S) = 1 => S = {x})
    <2>1. IsFiniteSet(S \ {x}) /\ Cardinality(S \ {x}) = Cardinality(S) - 1
      BY FS_RemoveElement
    <2>2. Cardinality(S) = 1 => S \ {x} = {}
      BY <2>1, FS_EmptySet
    <2>3. Cardinality(S) # 0
      BY <1>1
    <2> QED
      BY <1>1, <2>2, <2>3
  <1> QED
    BY <1>1, <1>2

LEMMA Adds ==
  ASSUME NEW S, IsFiniteSet(S), NEW x, x \notin S
  PROVE  Cardinality(S \cup {x}) = Cardinality(S) + 1
  BY FS_AddElement

LEMMA Takes ==
  ASSUME NEW S, IsFiniteSet(S), NEW x \in S
  PROVE  Cardinality(S \ {x}) = Cardinality(S) - 1
  BY FS_RemoveElement

-----------------------------------------------------------------------------
(* What the invariant says of single objects                                  *)

\* The file object of a thread that is not in the hash is the thread's own.
LEMMA OwnFo ==
  ASSUME IInv, NEW t \in Threads, NEW i, i = at[t].fo, i # None, i \notin foHash
  PROVE  /\ i \in Ids /\ fo[i].ref = 1 /\ at[t].duplicate # i
         /\ \A u \in Threads : u # t => at[u].fo # i /\ at[u].duplicate # i
  <1>1. i \in Ids /\ at[t].duplicate # i
    BY DEF IInv, Types, AtType, FosFit, FoFits
  <1>2. \A u \in Threads : u # t => at[u].fo # i /\ at[u].duplicate # i
    BY DEF IInv, FosFit, FoFits
  <1>3. FoThreads(i) = {t}
    BY <1>1, <1>2 DEF FoThreads
  <1>4. fo[i].ref = Cardinality({t})
    <2>1. fo[i].ref = Cardinality(FoThreads(i)) + 0 /\ Cardinality({t}) = 1
      BY <1>1, FS_Singleton DEF IInv, FoCounts
    <2> QED
      BY <1>3, <2>1
  <1> QED
    BY <1>1, <1>2, <1>4, FS_Singleton

LEMMA FoLives ==
  ASSUME IInv, NEW i \in Ids,
         i \in foHash \/ \E t \in Threads : at[t].fo = i \/ at[t].duplicate = i
  PROVE  fo[i].ref \in Nat /\ fo[i].ref > 0
  <1>1. FoThreads(i) \subseteq Threads
    BY DEF FoThreads
  <1>2. IsFiniteSet(FoThreads(i))
    BY <1>1, FiniteParts
  <1>3. PICK n : n = Cardinality(FoThreads(i))
    OBVIOUS
  <1>4. n \in Nat /\ (FoThreads(i) # {} => n >= 1)
    BY <1>2, <1>3, Sizes
  <1>5. fo[i].ref = n + (IF i \in foHash THEN 1 ELSE 0)
    BY <1>3 DEF IInv, FoCounts
  <1>6. i \in foHash \/ FoThreads(i) # {}
    BY DEF FoThreads
  <1> QED
    BY <1>4, <1>5, <1>6

\* Whatever points at a context has a reference.
LEMMA ContextLives ==
  ASSUME IInv, NEW c \in Ids, NEW a, NEW b, a = AttachedTo(c), b = ThreadsAt(c)
  PROVE  /\ context[c].ref \in Nat
         /\ context[c].ref = 0 <=> a = {} /\ b = {} /\ c \notin contextHash
         /\ \A i \in a : context[c].ref >= 1 /\ (context[c].ref = 1 => a = {i} /\ b = {} /\ c \notin contextHash)
         /\ \A t \in b : context[c].ref >= 1 /\ (context[c].ref = 1 => a = {} /\ b = {t} /\ c \notin contextHash)
         /\ c \in contextHash => context[c].ref >= 1 /\ (context[c].ref = 1 => a = {} /\ b = {})
  <1>1. a \subseteq Ids /\ b \subseteq Threads
    BY DEF AttachedTo, ThreadsAt, In
  <1>2. IsFiniteSet(a) /\ IsFiniteSet(b)
    BY <1>1, FiniteParts
  <1>3. PICK m, n : m = Cardinality(a) /\ n = Cardinality(b)
    OBVIOUS
  <1>4. /\ m \in Nat /\ (m = 0 <=> a = {}) /\ \A i \in a : m >= 1 /\ (m = 1 => a = {i})
        /\ n \in Nat /\ (n = 0 <=> b = {}) /\ \A t \in b : n >= 1 /\ (n = 1 => b = {t})
    BY <1>2, <1>3, Sizes
  <1>5. context[c].ref = m + n + (IF c \in contextHash THEN 1 ELSE 0)
    BY <1>3 DEF IInv, ContextCounts
  <1> QED
    BY ONLY <1>4, <1>5

\* The counter and the file objects that have the context open.
LEMMA Opened ==
  ASSUME IInv, NEW c \in Ids
  PROVE  /\ OpenedIn(c) = {i \in Ids : fo[i].context = c /\ \A t \in In(Accounted) : at[t].fo # i}
         /\ context[c].counter \in Nat
         /\ context[c].counter > 0 <=> OpenedIn(c) # {} \/ Private(c)
         /\ \A i \in OpenedIn(c) : context[c].counter = 1 => OpenedIn(c) = {i} /\ ~Private(c)
  <1>1. OpenedIn(c) = {i \in Ids : fo[i].context = c /\ \A t \in In(Accounted) : at[t].fo # i}
    BY NoneAssumption DEF IInv, Types, FoType, FosFit, OpenedIn, Counted, Accounted
  <1>2. OpenedIn(c) \subseteq Ids
    BY <1>1
  <1>3. PICK a, p, n : a = OpenedIn(c) /\ p = Private(c) /\ n = Cardinality(a)
    OBVIOUS
  <1>4. n \in Nat /\ (n = 0 <=> a = {}) /\ \A i \in a : n >= 1 /\ (n = 1 => a = {i})
    BY <1>2, <1>3, FiniteParts, Sizes
  <1>5. context[c].counter = n + (IF p THEN 1 ELSE 0) /\ p \in BOOLEAN
    BY <1>3 DEF IInv, CounterCountsFileObjects, Private
  <1>6. /\ context[c].counter \in Nat
        /\ context[c].counter > 0 <=> a # {} \/ p
        /\ \A i \in a : context[c].counter = 1 => a = {i} /\ ~p
    BY ONLY <1>4, <1>5
  <1> QED
    BY <1>1, <1>3, <1>6

-----------------------------------------------------------------------------
(* What a step of a thread leaves as it is                                    *)

Becomes(t, r) == r \in AtType /\ PlaceFits(r) /\ at' = [at EXCEPT ![t] = r]

LEMMA PlacesStay ==
  ASSUME IInv, NEW t \in Threads, NEW r, Becomes(t, r)
  PROVE  /\ PlacesFit' /\ at' \in [Threads -> AtType]
         /\ at'[t] = r /\ \A u \in Threads : u # t => at'[u] = at[u]
  BY DEF IInv, Types, PlacesFit, PlaceFits, Becomes

LEMMA FosNext ==
  ASSUME IInv, NEW t \in Threads, NEW r, Becomes(t, r), FoFits(r)',
         \A u \in Threads, j \in Ids : u # t /\ (at[u].fo = j \/ at[u].duplicate = j) =>
           fo'[j].file = fo[j].file /\ fo'[j].context = fo[j].context /\ (j \in foHash' <=> j \in foHash),
         \A j \in foHash' : fo'[j].context # None /\ fo'[j].file # None,
         \A j \in Ids : fo'[j].ref = 0 => fo'[j].context = None,
         \A u \in Threads : u # t /\ at[u].fo = r.fo /\ r.fo # None => r.fo \in foHash'
  PROVE  FosFit'
  <1>1. at'[t] = r /\ \A u \in Threads : u # t => at'[u] = at[u]
    BY PlacesStay
  <1>2. ASSUME NEW u \in Threads, u # t
        PROVE  FoFits(at[u])'
    <2>1. FoFits(at[u]) /\ at'[u] = at[u] /\ at[u] \in AtType /\ PlaceFits(at[u])
      BY <1>1, <1>2 DEF IInv, FosFit, Types, PlacesFit
    <2>2. /\ at[u].pc # "idle" => /\ at[u].fo \in Ids /\ fo'[at[u].fo].file = fo[at[u].fo].file
                                  /\ fo'[at[u].fo].context = fo[at[u].fo].context
                                  /\ at[u].fo \in foHash' <=> at[u].fo \in foHash
          /\ at[u].duplicate # None => /\ at[u].duplicate \in Ids /\ fo'[at[u].duplicate].file = fo[at[u].duplicate].file
                                       /\ at[u].duplicate \in foHash' <=> at[u].duplicate \in foHash
      BY <1>2, <2>1 DEF PlaceFits, AtType
    <2>3. "idle" \notin Unattached \cup Attached \cup Closing
      BY DEF Unattached, Making, Attached, Closing, Accounted
    <2> QED
      BY <2>1, <2>2, <2>3 DEF FoFits
  <1>3. \A u \in Threads : FoFits(at[u])'
    BY <1>1, <1>2
  <1>4. ASSUME NEW u \in Threads, NEW v \in Threads, u # v, at'[u].fo = at'[v].fo, at'[u].fo # None
        PROVE  at'[u].fo \in foHash'
    <2>1. CASE u = t \/ v = t
      BY <1>1, <1>4, <2>1
    <2>2. CASE u # t /\ v # t
      <3>1. at[u].fo = at[v].fo /\ at[u].fo \in foHash /\ at'[u].fo = at[u].fo
        BY <1>1, <1>4, <2>2 DEF IInv, FosFit
      <3> QED
        BY <2>2, <3>1 DEF IInv, Types
    <2> QED
      BY <2>1, <2>2
  <1> QED
    BY <1>3, <1>4 DEF FosFit

\* The thread goes on with the same file objects.
SameFos ==
  /\ foHash' = foHash
  /\ \A i \in Ids : fo'[i].ref = fo[i].ref /\ fo'[i].file = fo[i].file /\ fo'[i].context = fo[i].context

LEMMA FosStay ==
  ASSUME IInv, NEW t \in Threads, NEW r, Becomes(t, r), r.fo = at[t].fo, FoFits(r), SameFos
  PROVE  FosFit'
  <1>1. at'[t] = r /\ \A u \in Threads : u # t => at'[u] = at[u]
    BY PlacesStay
  <1>2. /\ r.pc # "idle" => r.fo \in Ids
        /\ r.duplicate # None => r.duplicate \in Ids
        /\ \A u \in Threads : /\ at[u].pc # "idle" => at[u].fo \in Ids
                              /\ at[u].duplicate # None => at[u].duplicate \in Ids
    BY DEF Becomes, PlaceFits, AtType, IInv, Types, PlacesFit
  <1>20. "idle" \notin Unattached \cup Attached \cup Closing
    BY DEF Unattached, Making, Attached, Closing, Accounted
  <1>3. FoFits(r)'
    BY <1>2, <1>20 DEF FoFits, SameFos
  <1>4. ASSUME NEW u \in Threads, u # t
        PROVE  FoFits(at[u])'
    BY <1>1, <1>2, <1>20, <1>4 DEF IInv, FosFit, FoFits, SameFos
  <1>5. \A u, v \in Threads : u # v /\ at'[u].fo = at'[v].fo /\ at'[u].fo # None => at'[u].fo \in foHash
    <2>1. \A u \in Threads : at'[u].fo = at[u].fo
      BY <1>1
    <2> QED
      BY <2>1 DEF IInv, FosFit
  <1>6. foHash \subseteq Ids
    BY DEF IInv, Types
  <1>7. \A u \in Threads : FoFits(at[u])'
    BY <1>1, <1>3, <1>4
  <1> QED
    BY <1>5, <1>6, <1>7 DEF IInv, FosFit, SameFos

LEMMA FoCountsStay ==
  ASSUME IInv, NEW t \in Threads, NEW r, Becomes(t, r), r.fo = at[t].fo, r.duplicate = at[t].duplicate,
         foHash' = foHash, \A i \in Ids : fo'[i].ref = fo[i].ref
  PROVE  FoCounts'
  <1>1. at'[t] = r /\ \A u \in Threads : u # t => at'[u] = at[u]
    BY PlacesStay
  <1>2. \A i : FoThreads(i)' = FoThreads(i)
    BY <1>1 DEF FoThreads
  <1> QED
    BY <1>2 DEF IInv, FoCounts

\* The thread keeps the reference that it has to a context, or has none.
SameUse(t, r) ==
  \/ at[t].pc \notin {"increment"} \cup Making /\ r.pc \notin {"increment"} \cup Making
  \/ /\ at[t].pc \in {"increment"} \cup Making /\ r.pc \in {"increment"} \cup Making
     /\ r.context = at[t].context /\ r.file = at[t].file

LEMMA UsesStay ==
  ASSUME IInv, NEW t \in Threads, NEW r, Becomes(t, r), SameUse(t, r),
         \A i \in Ids : fo'[i].context = fo[i].context
  PROVE  \A c : ThreadsAt(c)' = ThreadsAt(c) /\ AttachedTo(c)' = AttachedTo(c)
  <1>1. at'[t] = r /\ \A u \in Threads : u # t => at'[u] = at[u]
    BY PlacesStay
  <1> QED
    BY <1>1 DEF ThreadsAt, AttachedTo, In, SameUse

LEMMA ContextCountsStay ==
  ASSUME IInv, NEW t \in Threads, NEW r, Becomes(t, r), SameUse(t, r),
         \A i \in Ids : fo'[i].context = fo[i].context, contextHash' = contextHash,
         \A c \in Ids : context'[c].ref = context[c].ref
  PROVE  ContextCounts'
  BY UsesStay DEF IInv, ContextCounts

\* The thread has a new context or not, and has accounted for its close or not.
SameCount(t, r) ==
  /\ r.pc \in Accounted <=> at[t].pc \in Accounted
  /\ r.pc \in Accounted => r.fo = at[t].fo
  /\ r.pc \in Making <=> at[t].pc \in Making
  /\ r.pc \in Making => r.context = at[t].context

LEMMA OpenedStays ==
  ASSUME IInv, NEW t \in Threads, NEW r, Becomes(t, r), SameCount(t, r), FosFit',
         \A i \in Ids : fo'[i].context = fo[i].context, Types'
  PROVE  \A c \in Ids : OpenedIn(c)' = OpenedIn(c) /\ Private(c)' = Private(c)
  <1>1. at'[t] = r /\ \A u \in Threads : u # t => at'[u] = at[u]
    BY PlacesStay
  <1>2. \A i \in Ids : fo'[i].context # None => fo'[i].ref > 0 /\ fo[i].ref > 0
    BY DEF IInv, Types, FoType, FosFit
  <1>3. \A i \in Ids : Counted(i)' = Counted(i)
    BY <1>1, <1>2 DEF Counted, In, SameCount, Accounted
  <1>4. \A c \in Ids : Private(c)' = Private(c)
    BY <1>1 DEF Private, In, SameCount, Making
  <1>5. \A c \in Ids : OpenedIn(c)' = OpenedIn(c)
    BY <1>3 DEF OpenedIn
  <1> QED
    BY <1>4, <1>5

LEMMA CountersStay ==
  ASSUME IInv, NEW t \in Threads, NEW r, Becomes(t, r), SameCount(t, r), FosFit', Types',
         \A i \in Ids : fo'[i].context = fo[i].context,
         \A c \in Ids : context'[c].counter = context[c].counter
  PROVE  CounterCountsFileObjects'
  BY OpenedStays DEF IInv, CounterCountsFileObjects

LEMMA NewStays ==
  ASSUME IInv, NEW t \in Threads, NEW r, Becomes(t, r), SameUse(t, r),
         \A i \in Ids : fo'[i].context = fo[i].context, contextHash' = contextHash,
         r.pc \in Making => at[t].pc \in Making /\ (r.pc = "unlockAndUse" <=> at[t].pc = "unlockAndUse"),
         r.pc = "increment" => at[t].pc = "increment"
  PROVE  NewFits'
  <1>1. at'[t] = r /\ \A u \in Threads : u # t => at'[u] = at[u]
    BY PlacesStay
  <1>2. \A c : ThreadsAt(c)' = ThreadsAt(c) /\ AttachedTo(c)' = AttachedTo(c)
    BY UsesStay
  <1>3. \A u \in In(Making)' : u \in In(Making) /\ at'[u].context = at[u].context
    BY <1>1 DEF In, SameUse
  <1>30. \A u \in In(Making)' : at'[u].pc = "unlockAndUse" <=> at[u].pc = "unlockAndUse"
    BY <1>1 DEF In
  <1>4. \A u \in In({"unlockAndUse"})' : at'[u].context \in contextHash'
    BY <1>3, <1>30 DEF IInv, NewFits, In, Making
  <1>5. \A u, v \in In(Making)' : at'[u].context = at'[v].context => u = v
    BY <1>3 DEF IInv, NewFits
  <1>6. ASSUME NEW u \in In(Making \ {"unlockAndUse"})', NEW c \in Ids, at'[u].context = c
        PROVE  AttachedTo(c)' = {} /\ ThreadsAt(c)' = {u} /\ c \notin contextHash'
    <2>1. u \in In(Making \ {"unlockAndUse"}) /\ at[u].context = c
      BY <1>3, <1>30, <1>6 DEF In
    <2> QED
      BY <1>2, <2>1 DEF IInv, NewFits
  <1> QED
    BY <1>4, <1>5, <1>6 DEF NewFits

\* The thread is about to take its context out of the hash, or not.
SameDrop(t, r) ==
  /\ r.pc \in {"lateBarrier", "drop"} <=> at[t].pc \in {"lateBarrier", "drop"}
  /\ r.pc \in {"lateBarrier", "drop"} => r.context = at[t].context

LEMMA DroppersKept ==
  ASSUME IInv, NEW t \in Threads, NEW r, Becomes(t, r), SameDrop(t, r),
         \A c \in Ids : OpenedIn(c)' = OpenedIn(c), contextHash' = contextHash,
         \A c \in contextHash : context'[c].counter = context[c].counter /\ context'[c].key = context[c].key
  PROVE  DroppersFit'
  <1>1. at'[t] = r /\ \A u \in Threads : u # t => at'[u] = at[u]
    BY PlacesStay
  <1>3. \A u \in Threads : /\ u \in In({"lateBarrier", "drop"})' <=> u \in In({"lateBarrier", "drop"})
                           /\ u \in In({"lateBarrier", "drop"}) => at'[u].context = at[u].context
    BY <1>1 DEF In, SameDrop
  <1>4. In({"lateBarrier", "drop"})' = In({"lateBarrier", "drop"})
    BY <1>3 DEF In
  <1>5. PICK D : D = In({"lateBarrier", "drop"})
    OBVIOUS
  <1>6. D \subseteq Threads /\ \A u \in D : at'[u].context = at[u].context
    BY <1>3, <1>5 DEF In
  <1> QED
    BY <1>4, <1>5, <1>6 DEF IInv, DroppersFit

LEMMA DroppersStay ==
  ASSUME IInv, NEW t \in Threads, NEW r, Becomes(t, r), SameCount(t, r), SameDrop(t, r), FosFit', Types',
         \A i \in Ids : fo'[i].context = fo[i].context, contextHash' = contextHash,
         \A c \in contextHash : context'[c].counter = context[c].counter /\ context'[c].key = context[c].key
  PROVE  DroppersFit'
  BY OpenedStays, DroppersKept

LEMMA KeysStay ==
  ASSUME IInv, NEW t \in Threads, NEW r, Becomes(t, r), SameUse(t, r),
         \A i \in Ids : fo'[i].context = fo[i].context /\ (fo[i].context # None => fo'[i].file = fo[i].file),
         \A c \in Ids : context'[c].ref > 0 => context'[c].key \in Keys,
         \A c \in Ids : AttachedTo(c) # {} \/ ThreadsAt(c) # {} => context'[c].key = context[c].key
  PROVE  KeysFit'
  <1>1. at'[t] = r /\ \A u \in Threads : u # t => at'[u] = at[u]
    BY PlacesStay
  <1>2. \A i \in Ids : fo[i].context # None => fo[i].context \in Ids /\ AttachedTo(fo[i].context) # {}
    BY DEF IInv, Types, FoType, AttachedTo
  <1>3. \A u \in In({"increment"} \cup Making)' :
          /\ u \in In({"increment"} \cup Making) /\ at'[u].context = at[u].context
          /\ at'[u].file = at[u].file /\ at[u].context \in Ids
    BY <1>1 DEF In, SameUse, IInv, PlacesFit, PlaceFits
  <1>4. \A u \in In({"increment"} \cup Making) : ThreadsAt(at[u].context) # {}
    BY DEF ThreadsAt
  <1>5. \A i \in Ids : fo'[i].context # None =>
          fo'[i].file \in Files /\ context'[fo'[i].context].key = KeyOf[fo'[i].file]
    BY <1>2 DEF IInv, KeysFit
  <1>6. \A u \in In({"increment"} \cup Making)' : context'[at'[u].context].key = KeyOf[at'[u].file]
    BY <1>3, <1>4 DEF IInv, KeysFit, Key
  <1> QED
    BY <1>5, <1>6 DEF KeysFit, Key

LEMMA LinesStay ==
  ASSUME IInv, NEW t \in Threads, NEW r, Becomes(t, r), line' = line,
         at[t].pc \in Making \/ at[t].barrier => r.file = at[t].file /\ (r.pc \in Making \/ r.barrier)
  PROVE  LinesFit'
  <1>1. at'[t] = r /\ \A u \in Threads : u # t => at'[u] = at[u]
    BY PlacesStay
  <1>2. \A k \in Keys : \A u \in ToSet(line[k]) : u \in Threads
    BY DEF ToSet, IInv, Types
  <1> QED
    BY <1>1, <1>2 DEF IInv, LinesFit, Key

LEMMA StreamsStay ==
  ASSUME IInv, NEW t \in Threads, NEW r, Becomes(t, r), UNCHANGED <<streamLine, streamHolders>>,
         at[t].op = "adopt" /\ at[t].pc \in {"lookup", "insertFo", "unlockStream"} =>
           /\ r.op = "adopt" /\ r.pc \in {"lookup", "insertFo", "unlockStream"}
           /\ r.context = at[t].context /\ r.file = at[t].file,
         r.pc \in {"insertFo", "unlockStream"} /\ r.op = "adopt" => t \in streamHolders
  PROVE  StreamsFit'
  <1>1. at'[t] = r /\ \A u \in Threads : u # t => at'[u] = at[u]
    BY PlacesStay
  <1>2. \A l \in Ids \X StreamFiles : \A u \in ToSet(streamLine[l]) : u \in Threads
    BY DEF ToSet, IInv, Types
  <1> QED
    BY <1>1, <1>2 DEF IInv, StreamsFit, Lock, In

LEMMA FilesStay ==
  ASSUME IInv, NEW t \in Threads, NEW r, Becomes(t, r), UNCHANGED <<system, foHash>>,
         r.op = at[t].op, r.file = at[t].file,
         \A i \in Ids : fo'[i].file = fo[i].file,
         r.pc = "insertFo" /\ r.op = "adopt" => at[t].pc = "insertFo" \/ \A j \in foHash : fo[j].file # r.file,
         r.pc \in Unattached \cup {"insertFo"} /\ r.op = "create" => at[t].pc \in Unattached \cup {"insertFo"}
  PROVE  FilesFit'
  <1>1. at'[t] = r /\ \A u \in Threads : u # t => at'[u] = at[u]
    BY PlacesStay
  <1>2. foHash \subseteq Ids
    BY DEF IInv, Types
  <1> QED
    BY <1>1, <1>2 DEF IInv, FilesFit

-----------------------------------------------------------------------------
(* The lines                                                                  *)

LEMMA Joins ==
  ASSUME NEW s \in Seq(Threads), IsInjective(s), NEW t \in Threads, t \notin ToSet(s)
  PROVE  /\ Append(s, t) \in Seq(Threads) /\ IsInjective(Append(s, t))
         /\ \A u : u \in ToSet(Append(s, t)) <=> u \in ToSet(s) \/ u = t
         /\ Append(s, t)[1] = IF s = <<>> THEN t ELSE s[1]
  <1>1. PICK a, n : a = Append(s, t) /\ n = Len(s)
    OBVIOUS
  <1>2. /\ n \in Nat /\ DOMAIN s = 1..n /\ a \in Seq(Threads) /\ DOMAIN a = 1..(n + 1)
        /\ a[n + 1] = t /\ \A i \in 1..n : a[i] = s[i]
    BY <1>1
  <1>3. \A i, j \in 1..n : s[i] = s[j] => i = j
    BY <1>2 DEF IsInjective
  <1>4. \A i \in 1..n : s[i] # t
    BY <1>2 DEF ToSet
  <1>5. \A i, j \in 1..(n + 1) : a[i] = a[j] => i = j
    BY <1>2, <1>3, <1>4
  <1>6. IsInjective(a)
    BY <1>2, <1>5 DEF IsInjective
  <1>7. \A u : u \in ToSet(a) <=> u \in ToSet(s) \/ u = t
    <2>1. \A u : u \in ToSet(s) => u \in ToSet(a)
      BY <1>2 DEF ToSet
    <2>2. t \in ToSet(a)
      BY <1>2 DEF ToSet
    <2>3. ASSUME NEW u \in ToSet(a), u # t
          PROVE  u \in ToSet(s)
      <3>1. PICK i \in 1..(n + 1) : a[i] = u
        BY <1>2 DEF ToSet
      <3>2. i \in 1..n
        BY <1>2, <2>3, <3>1
      <3> QED
        BY <1>2, <3>1, <3>2 DEF ToSet
    <2> QED
      BY <2>1, <2>2, <2>3
  <1>8. a[1] = IF s = <<>> THEN t ELSE s[1]
    BY <1>1, <1>2
  <1> QED
    BY <1>1, <1>2, <1>6, <1>7, <1>8

LEMMA FirstLeaves ==
  ASSUME NEW s \in Seq(Threads), IsInjective(s), NEW t \in ToSet(s), Head(s) = t
  PROVE  /\ Tail(s) \in Seq(Threads) /\ IsInjective(Tail(s))
         /\ \A u \in ToSet(Tail(s)) : u \in ToSet(s) /\ u # t
  <1>1. PICK a, n : a = Tail(s) /\ n = Len(s)
    OBVIOUS
  <1>2. n \in Nat /\ DOMAIN s = 1..n /\ n # 0
    BY <1>1 DEF ToSet
  <1>3. /\ a \in Seq(Threads) /\ DOMAIN a = 1..(n - 1) /\ s[1] = t
        /\ \A i \in 1..(n - 1) : a[i] = s[i + 1]
    BY <1>1, <1>2
  <1>4. \A i, j \in 1..n : s[i] = s[j] => i = j
    BY <1>2 DEF IsInjective
  <1>5. \A i \in 1..(n - 1) : i + 1 \in 1..n /\ i + 1 # 1
    BY <1>2
  <1>6. IsInjective(a)
    <2>1. \A i, j \in 1..(n - 1) : a[i] = a[j] => i = j
      BY <1>2, <1>3, <1>4, <1>5
    <2> QED
      BY <1>3, <2>1 DEF IsInjective
  <1>7. \A u \in ToSet(a) : u \in ToSet(s) /\ u # t
    <2>1. ASSUME NEW i \in 1..(n - 1)
          PROVE  a[i] \in ToSet(s) /\ a[i] # t
      BY <1>2, <1>3, <1>4, <1>5 DEF ToSet
    <2> QED
      BY <1>3, <2>1 DEF ToSet
  <1> QED
    BY <1>1, <1>3, <1>6, <1>7

LEMMA OneLeaves ==
  ASSUME NEW s \in Seq(Threads), IsInjective(s), NEW t \in ToSet(s)
  PROVE  /\ Without(s, t) \in Seq(Threads) /\ IsInjective(Without(s, t))
         /\ \A u \in ToSet(Without(s, t)) : u \in ToSet(s) /\ u # t
  <1>1. PICK n : n = Len(s)
    OBVIOUS
  <1>2. n \in Nat /\ DOMAIN s = 1..n /\ \A i, j \in 1..n : s[i] = s[j] => i = j
    BY <1>1 DEF IsInjective
  <1>3. PICK k : k = CHOOSE j \in DOMAIN s : s[j] = t
    OBVIOUS
  <1>4. k \in 1..n /\ s[k] = t
    BY <1>2, <1>3 DEF ToSet
  <1>5. PICK a : a = [i \in 1..(n - 1) |-> s[IF i < k THEN i ELSE i + 1]]
    OBVIOUS
  <1>6. Without(s, t) = a
    BY <1>1, <1>3, <1>5 DEF Without
  <1>7. \A i \in 1..(n - 1) : (IF i < k THEN i ELSE i + 1) \in 1..n /\ (IF i < k THEN i ELSE i + 1) # k
    BY <1>2, <1>4
  <1>8. \A i, j \in 1..(n - 1) : (IF i < k THEN i ELSE i + 1) = (IF j < k THEN j ELSE j + 1) => i = j
    BY <1>2, <1>4
  <1>9. DOMAIN a = 1..(n - 1) /\ \A i \in 1..(n - 1) : a[i] \in Threads /\ a[i] = s[IF i < k THEN i ELSE i + 1]
    BY <1>2, <1>5, <1>7
  <1>10. a \in Seq(Threads)
    <2>1. n - 1 \in Nat /\ a \in [1..(n - 1) -> Threads]
      BY <1>2, <1>4, <1>5, <1>9
    <2> QED
      BY <2>1
  <1>11. IsInjective(a)
    <2>1. \A i, j \in 1..(n - 1) : a[i] = a[j] => i = j
      BY <1>2, <1>7, <1>8, <1>9
    <2> QED
      BY <1>9, <2>1 DEF IsInjective
  <1>12. \A u \in ToSet(a) : u \in ToSet(s) /\ u # t
    <2>1. ASSUME NEW i \in 1..(n - 1)
          PROVE  a[i] \in ToSet(s) /\ a[i] # t
      <3>1. PICK j \in 1..n : j = (IF i < k THEN i ELSE i + 1) /\ j # k
        BY <1>7
      <3>2. a[i] = s[j] /\ s[j] # t
        BY <1>2, <1>4, <1>9, <3>1
      <3> QED
        BY <1>2, <3>2 DEF ToSet
    <2> QED
      BY <1>9, <2>1 DEF ToSet
  <1> QED
    BY <1>6, <1>10, <1>11, <1>12

\* The line of the thread's file gets another form.
LEMMA LineChanges ==
  ASSUME IInv, NEW t \in Threads, NEW r, Becomes(t, r), NEW k \in Keys, k = Key(t),
         NEW s \in Seq(Threads), IsInjective(s), line' = [line EXCEPT ![k] = s],
         \A u \in ToSet(s) : u \in ToSet(line[k]) \/ u = t,
         t \in ToSet(s) => k = KeyOf[r.file] /\ (r.pc \in Making \/ r.barrier)
  PROVE  LinesFit' /\ line' \in [Keys -> Seq(Threads)]
  <1>1. at'[t] = r /\ \A u \in Threads : u # t => at'[u] = at[u]
    BY PlacesStay
  <1>2. line \in [Keys -> Seq(Threads)]
    BY DEF IInv, Types
  <1>3. line' \in [Keys -> Seq(Threads)] /\ line'[k] = s /\ \A j \in Keys : j # k => line'[j] = line[j]
    BY <1>2
  <1>4. \A j \in Keys : \A u \in ToSet(line[j]) : u \in Threads
    BY <1>2 DEF ToSet
  <1>5. ASSUME NEW j \in Keys
        PROVE  IsInjective(line'[j])
    BY <1>3 DEF IInv, LinesFit
  <1>6. ASSUME NEW j \in Keys, NEW u \in ToSet(line'[j])
        PROVE  j = KeyOf[at'[u].file] /\ (at'[u].pc \in Making \/ at'[u].barrier)
    <2>1. ASSUME u = t
          PROVE  j = KeyOf[at'[u].file] /\ (at'[u].pc \in Making \/ at'[u].barrier)
      <3>1. ASSUME j # k
            PROVE  FALSE
        BY <1>3, <1>6, <2>1, <3>1 DEF IInv, LinesFit
      <3> QED
        BY <1>1, <1>3, <1>6, <2>1, <3>1
    <2>2. ASSUME u # t
          PROVE  j = KeyOf[at'[u].file] /\ (at'[u].pc \in Making \/ at'[u].barrier)
      <3>1. u \in ToSet(line[j])
        BY <1>3, <1>6, <2>2
      <3>2. u \in Threads /\ at'[u] = at[u]
        BY <1>1, <1>4, <2>2, <3>1
      <3> QED
        BY <3>1, <3>2 DEF IInv, LinesFit, Key
    <2> QED
      BY <2>1, <2>2
  <1> QED
    BY <1>3, <1>5, <1>6 DEF LinesFit, Key

LEMMA KeyIs ==
  ASSUME IInv, NEW t \in Threads, at[t].pc # "idle"
  PROVE  Key(t) \in Keys /\ at[t].file \in Files /\ at[t].fo \in Ids
  BY KeyAssumption DEF IInv, PlacesFit, PlaceFits, Key

\* A thread joins the line of its file.
LEMMA LineJoined ==
  ASSUME IInv, NEW t \in Threads, NEW r, Becomes(t, r), at[t].pc # "idle", r.file = at[t].file,
         HashLine!Ask(t, Key(t)) \/ HashLine!PutBarrier(t, Key(t)), r.pc \in Making \/ r.barrier
  PROVE  LinesFit' /\ line' \in [Keys -> Seq(Threads)]
  <1>1. PICK k : k = Key(t)
    OBVIOUS
  <1>2. k \in Keys /\ k = KeyOf[r.file]
    BY <1>1, KeyIs DEF Key
  <1>3. t \notin ToSet(line[k])
    BY <1>1, <1>2 DEF HashLine!Ask, HashLine!PutBarrier, HashLine!Waits, HashLine!ToSet, ToSet
  <1>4. PICK b, s : b = line[k] /\ s = Append(b, t)
    OBVIOUS
  <1>5. line' = [line EXCEPT ![k] = s]
    BY <1>1, <1>4 DEF HashLine!Ask, HashLine!PutBarrier
  <1>6. b \in Seq(Threads) /\ IsInjective(b)
    BY <1>2, <1>4 DEF IInv, Types, LinesFit
  <1>7. s \in Seq(Threads) /\ IsInjective(s) /\ \A u \in ToSet(s) : u \in ToSet(b) \/ u = t
    BY <1>3, <1>4, <1>6, Joins
  <1> QED
    BY <1>1, <1>2, <1>4, <1>5, <1>7, LineChanges

LEMMA LineLeft ==
  ASSUME IInv, NEW t \in Threads, NEW r, Becomes(t, r), at[t].pc # "idle",
         HashLine!Release(t, Key(t)) \/ HashLine!TakeBarrier(t, Key(t))
  PROVE  LinesFit' /\ line' \in [Keys -> Seq(Threads)]
  <1>1. PICK k : k = Key(t)
    OBVIOUS
  <1>2. k \in Keys
    BY <1>1, KeyIs
  <1>3. PICK b : b = line[k]
    OBVIOUS
  <1>4. b \in Seq(Threads) /\ IsInjective(b)
    BY <1>2, <1>3 DEF IInv, Types, LinesFit
  <1>5. t \in ToSet(b)
    BY <1>1, <1>3 DEF HashLine!Release, HashLine!TakeBarrier, HashLine!ToSet, ToSet
  <1>6. PICK s : /\ line' = [line EXCEPT ![k] = s] /\ s \in Seq(Threads) /\ IsInjective(s)
                 /\ \A u \in ToSet(s) : u \in ToSet(b) /\ u # t
    <2>1. ASSUME HashLine!Release(t, Key(t))
          PROVE  line' = [line EXCEPT ![k] = Tail(b)] /\ Head(b) = t
      BY <1>1, <1>3, <2>1 DEF HashLine!Release
    <2>2. ASSUME HashLine!TakeBarrier(t, Key(t))
          PROVE  line' = [line EXCEPT ![k] = Without(b, t)]
      <3>1. \A q, e : HashLine!Without(q, e) = Without(q, e)
        BY DEF HashLine!Without, Without
      <3> QED
        BY <1>1, <1>3, <2>2, <3>1 DEF HashLine!TakeBarrier
    <2> QED
      BY <1>4, <1>5, <2>1, <2>2, FirstLeaves, OneLeaves
  <1> QED
    BY <1>1, <1>2, <1>3, <1>6, LineChanges

\* The lines of the stream files.
LEMMA StreamIs ==
  ASSUME IInv, NEW t \in Threads, at[t].pc \in {"streamLock", "lookup", "insertFo", "unlockStream"}, at[t].op = "adopt"
  PROVE  Lock(t) \in Ids \X StreamFiles
  BY DEF IInv, PlacesFit, PlaceFits, Lock, Attached

LEMMA HolderIsFirst ==
  ASSUME IInv, NEW t \in streamHolders
  PROVE  /\ t \in Threads /\ Lock(t) \in Ids \X StreamFiles /\ streamLine[Lock(t)][1] = t
         /\ t \in ToSet(streamLine[Lock(t)])
  BY DEF IInv, StreamsFit

LEMMA StreamJoined ==
  ASSUME IInv, NEW t \in Threads, NEW r, Becomes(t, r), at[t].pc = "streamLock", r.pc = "lookup",
         r.op = at[t].op, r.file = at[t].file, r.context = at[t].context, StreamLock!Ask(t, Lock(t))
  PROVE  StreamsFit' /\ streamLine' \in [Ids \X StreamFiles -> Seq(Threads)]
  <1> DEFINE L == Ids \X StreamFiles
  <1>1. at'[t] = r /\ \A u \in Threads : u # t => at'[u] = at[u]
    BY PlacesStay
  <1>2. at[t].op = "adopt"
    BY DEF IInv, PlacesFit, PlaceFits
  <1>3. PICK l : l = Lock(t)
    OBVIOUS
  <1>4. l \in L /\ l = <<r.context, r.file>>
    BY <1>2, <1>3, StreamIs DEF Lock
  <1>5. streamLine \in [L -> Seq(Threads)]
    BY DEF IInv, Types
  <1>6. PICK b, s : b = streamLine[l] /\ s = Append(b, t)
    OBVIOUS
  <1>7. /\ t \notin ToSet(b) /\ streamLine' = [streamLine EXCEPT ![l] = s]
        /\ streamHolders' = IF b = <<>> THEN streamHolders \cup {t} ELSE streamHolders
        /\ \A m \in L : t \notin ToSet(streamLine[m])
    BY <1>3, <1>4, <1>6 DEF StreamLock!Ask, StreamLock!Waits, StreamLock!ToSet, ToSet
  <1>8. b \in Seq(Threads) /\ IsInjective(b)
    BY <1>4, <1>5, <1>6 DEF IInv, StreamsFit
  <1>9. /\ s \in Seq(Threads) /\ IsInjective(s) /\ \A u : u \in ToSet(s) <=> u \in ToSet(b) \/ u = t
        /\ s[1] = IF b = <<>> THEN t ELSE b[1]
    BY <1>6, <1>7, <1>8, Joins
  <1>10. streamLine' \in [L -> Seq(Threads)] /\ streamLine'[l] = s /\ \A m \in L : m # l => streamLine'[m] = streamLine[m]
    BY <1>4, <1>5, <1>7, <1>9
  <1>11. \A m \in L : IsInjective(streamLine'[m])
    BY <1>9, <1>10 DEF IInv, StreamsFit
  <1>12. ASSUME NEW m \in L, NEW u \in ToSet(streamLine'[m])
         PROVE  /\ m = <<at'[u].context, at'[u].file>> /\ at'[u].op = "adopt"
                /\ at'[u].pc \in {"lookup", "insertFo", "unlockStream"}
    <2>1. CASE u = t
      <3>1. m = l
        BY <1>7, <1>10, <1>12, <2>1
      <3> QED
        BY <1>1, <1>2, <1>4, <2>1, <3>1
    <2>2. CASE u # t
      <3>1. u \in ToSet(streamLine[m])
        BY <1>6, <1>9, <1>10, <1>12, <2>2
      <3>2. u \in Threads
        BY <1>5, <3>1 DEF ToSet
      <3> QED
        BY <1>1, <2>2, <3>1, <3>2 DEF IInv, StreamsFit, Lock
    <2> QED
      BY <2>1, <2>2
  <1>13. ASSUME NEW u \in streamHolders'
         PROVE  u \in Threads /\ \E m \in L : u \in ToSet(streamLine'[m]) /\ streamLine'[m][1] = u
    <2>1. ASSUME u \in streamHolders
          PROVE  u \in Threads /\ \E m \in L : u \in ToSet(streamLine'[m]) /\ streamLine'[m][1] = u
      <3>1. PICK m \in L : u \in ToSet(streamLine[m]) /\ streamLine[m][1] = u
        BY <2>1 DEF IInv, StreamsFit
      <3>2. m = l => b # <<>>
        BY <1>6, <3>1 DEF ToSet
      <3>3. u \in ToSet(streamLine'[m]) /\ streamLine'[m][1] = u
        BY <1>6, <1>9, <1>10, <3>1, <3>2
      <3> QED
        BY <2>1, <3>3 DEF IInv, StreamsFit
    <2>2. ASSUME u \notin streamHolders
          PROVE  u \in Threads /\ \E m \in L : u \in ToSet(streamLine'[m]) /\ streamLine'[m][1] = u
      BY <1>4, <1>7, <1>9, <1>10, <1>13, <2>2
    <2> QED
      BY <2>1, <2>2
  <1>14. \A u \in Threads : at'[u].pc \in {"insertFo", "unlockStream"} /\ at'[u].op = "adopt" => u \in streamHolders'
    BY <1>1, <1>7 DEF IInv, StreamsFit, In
  <1> QED
    BY <1>10, <1>11, <1>12, <1>13, <1>14 DEF StreamsFit, Lock, In

LEMMA StreamLeft ==
  ASSUME IInv, NEW t \in Threads, NEW r, Becomes(t, r), at[t].pc = "unlockStream",
         r.pc \notin {"insertFo", "unlockStream"}, StreamLock!Release(t, Lock(t))
  PROVE  StreamsFit' /\ streamLine' \in [Ids \X StreamFiles -> Seq(Threads)]
  <1> DEFINE L == Ids \X StreamFiles
  <1>1. at'[t] = r /\ \A u \in Threads : u # t => at'[u] = at[u]
    BY PlacesStay
  <1>2. at[t].op = "adopt"
    BY DEF IInv, PlacesFit, PlaceFits
  <1>3. PICK l : l = Lock(t)
    OBVIOUS
  <1>4. l \in L
    BY <1>2, <1>3, StreamIs
  <1>5. streamLine \in [L -> Seq(Threads)]
    BY DEF IInv, Types
  <1>6. PICK b, s : b = streamLine[l] /\ s = Tail(b)
    OBVIOUS
  <1>7. /\ t \in ToSet(b) /\ Head(b) = t /\ streamLine' = [streamLine EXCEPT ![l] = s]
        /\ streamHolders' = streamHolders \ {t}
    BY <1>3, <1>6 DEF StreamLock!Release, StreamLock!ToSet, ToSet
  <1>8. b \in Seq(Threads) /\ IsInjective(b)
    BY <1>4, <1>5, <1>6 DEF IInv, StreamsFit
  <1>9. /\ s \in Seq(Threads) /\ IsInjective(s) /\ \A u \in ToSet(s) : u \in ToSet(b) /\ u # t
    BY <1>6, <1>7, <1>8, FirstLeaves
  <1>10. streamLine' \in [L -> Seq(Threads)] /\ streamLine'[l] = s /\ \A m \in L : m # l => streamLine'[m] = streamLine[m]
    BY <1>4, <1>5, <1>7, <1>9
  <1>11. \A m \in L : IsInjective(streamLine'[m])
    BY <1>9, <1>10 DEF IInv, StreamsFit
  <1>12. ASSUME NEW m \in L, NEW u \in ToSet(streamLine'[m])
         PROVE  /\ m = <<at'[u].context, at'[u].file>> /\ at'[u].op = "adopt"
                /\ at'[u].pc \in {"lookup", "insertFo", "unlockStream"}
    <2>1. u \in ToSet(streamLine[m])
      BY <1>6, <1>9, <1>10, <1>12
    <2>2. u # t
      BY <1>3, <1>9, <1>10, <1>12, <2>1 DEF IInv, StreamsFit
    <2>3. u \in Threads
      BY <1>5, <2>1 DEF ToSet
    <2> QED
      BY <1>1, <2>1, <2>2, <2>3 DEF IInv, StreamsFit, Lock
  <1>13. ASSUME NEW u \in streamHolders'
         PROVE  u \in Threads /\ \E m \in L : u \in ToSet(streamLine'[m]) /\ streamLine'[m][1] = u
    <2>1. PICK m \in L : u \in ToSet(streamLine[m]) /\ streamLine[m][1] = u
      BY <1>7, <1>13 DEF IInv, StreamsFit
    <2>2. m # l
      BY <1>6, <1>7, <1>8, <1>13, <2>1
    <2>3. u \in Threads
      BY <1>5, <2>1 DEF ToSet
    <2> QED
      BY <1>10, <2>1, <2>2, <2>3
  <1>14. \A u \in Threads : at'[u].pc \in {"insertFo", "unlockStream"} /\ at'[u].op = "adopt" => u \in streamHolders'
    BY <1>1, <1>7 DEF IInv, StreamsFit, In
  <1> QED
    BY <1>10, <1>11, <1>12, <1>13, <1>14 DEF StreamsFit, Lock, In

\* A step that changes where the thread is, and nothing that is counted.
SameObjects(t, r) ==
  /\ r.op = at[t].op /\ r.file = at[t].file /\ r.fo = at[t].fo
  /\ r.context = at[t].context /\ r.duplicate = at[t].duplicate

LEMMA Moves ==
  ASSUME IInv, NEW t \in Threads, NEW r, Becomes(t, r), SameObjects(t, r), FoFits(r),
         UNCHANGED <<system, context, contextHash>>, SameFos,
         fo' \in [Ids -> FoType], line' \in [Keys -> Seq(Threads)], streamLine' \in [Ids \X StreamFiles -> Seq(Threads)],
         SameUse(t, r), SameCount(t, r), SameDrop(t, r),
         r.pc \in Making => at[t].pc \in Making /\ (r.pc = "unlockAndUse" <=> at[t].pc = "unlockAndUse"), r.pc = "increment" => at[t].pc = "increment",
         r.pc = "insertFo" /\ r.op = "adopt" => at[t].pc = "insertFo" \/ \A j \in foHash : fo[j].file # r.file,
         r.pc \in Unattached \cup {"insertFo"} /\ r.op = "create" => at[t].pc \in Unattached \cup {"insertFo"},
         LinesFit', StreamsFit'
  PROVE  IInv'
  <1>1. PlacesFit' /\ at' \in [Threads -> AtType]
    BY PlacesStay
  <1>2. Types'
    BY <1>1 DEF SameFos, IInv, Types
  <1>3. FosFit'
    BY FosStay DEF SameObjects
  <1>4. FoCounts'
    BY FoCountsStay DEF SameObjects, SameFos
  <1>5. ContextCounts'
    BY ContextCountsStay DEF SameFos
  <1>6. CounterCountsFileObjects'
    BY <1>2, <1>3, CountersStay DEF SameFos
  <1>7. NewFits'
    BY NewStays DEF SameFos
  <1>8. DroppersFit'
    BY <1>2, <1>3, DroppersStay DEF SameFos
  <1>9. KeysFit'
    BY KeysStay DEF SameFos, IInv, KeysFit
  <1>10. FilesFit'
    BY FilesStay DEF SameObjects, SameFos
  <1> QED
    BY <1>1, <1>2, <1>3, <1>4, <1>5, <1>6, <1>7, <1>8, <1>9, <1>10 DEF IInv

-----------------------------------------------------------------------------
(* The steps that only move the thread or change a line                       *)

LEMMA OnlyTheSystem ==
  ASSUME IInv, UNCHANGED <<fo, context, foHash, contextHash, line, streamLine, at>>,
         system' \in [Files -> {"new", "busy", "open", "closed"}], FilesFit', StreamsFit'
  PROVE  IInv'
  <1>1. Types' /\ PlacesFit' /\ FosFit'
    BY DEF IInv, Types, PlacesFit, FosFit, FoFits
  <1>2. FoCounts'
    <2>1. \A i : FoThreads(i)' = FoThreads(i)
      BY DEF FoThreads
    <2> QED
      BY <2>1 DEF IInv, FoCounts
  <1>3. \A S : In(S)' = In(S)
    BY DEF In
  <1>4. \A c : AttachedTo(c)' = AttachedTo(c) /\ ThreadsAt(c)' = ThreadsAt(c)
    BY <1>3 DEF AttachedTo, ThreadsAt
  <1>5. ContextCounts' /\ NewFits'
    BY <1>3, <1>4 DEF IInv, ContextCounts, NewFits
  <1>6. \A c : OpenedIn(c)' = OpenedIn(c) /\ Private(c)' = Private(c)
    BY <1>3 DEF OpenedIn, Counted, Private
  <1>7. CounterCountsFileObjects' /\ DroppersFit'
    BY <1>3, <1>6 DEF IInv, CounterCountsFileObjects, DroppersFit
  <1>8. KeysFit' /\ LinesFit'
    BY <1>3 DEF IInv, KeysFit, Key, LinesFit
  <1> QED
    BY <1>1, <1>2, <1>5, <1>7, <1>8 DEF IInv

LEMMA Untouched ==
  ASSUME IInv, UNCHANGED <<system, fo, context, foHash, contextHash, line, streamLine, at>>, StreamsFit'
  PROVE  IInv'
  <1>1. system' \in [Files -> {"new", "busy", "open", "closed"}] /\ FilesFit'
    BY DEF IInv, Types, FilesFit
  <1> QED
    BY <1>1, OnlyTheSystem

LEMMA GrantHashLineFits ==
  ASSUME IInv, NEW t \in Threads, GrantHashLine(t)
  PROVE  IInv'
  <1>1. UNCHANGED <<system, fo, context, foHash, contextHash, line, streamLine, streamHolders, at>>
    BY DEF GrantHashLine, HashLine!Grant, Hashes
  <1>2. StreamsFit'
    BY <1>1 DEF IInv, StreamsFit, Lock, In
  <1> QED
    BY <1>1, <1>2, Untouched

LEMMA GrantStreamLockFits ==
  ASSUME IInv, NEW t \in Threads, GrantStreamLock(t)
  PROVE  IInv'
  <1>1. /\ UNCHANGED <<system, fo, context, foHash, contextHash, line, streamLine, at>>
        /\ streamHolders' = streamHolders \cup {t}
    BY DEF GrantStreamLock, StreamLock!Grant, Hashes
  <1>2. at[t].op = "adopt"
    BY DEF IInv, PlacesFit, PlaceFits, GrantStreamLock
  <1>3. Lock(t) \in Ids \X StreamFiles
    BY <1>2, StreamIs DEF GrantStreamLock
  <1>4. PICK l, b : l = Lock(t) /\ b = streamLine[l]
    OBVIOUS
  <1>5. t \in ToSet(b) /\ Head(b) = t /\ b \in Seq(Threads)
    BY <1>3, <1>4 DEF GrantStreamLock, StreamLock!Grant, StreamLock!ToSet, ToSet, IInv, Types
  <1>6. t \in ToSet(streamLine[l]) /\ streamLine[l][1] = t
    BY <1>4, <1>5 DEF ToSet
  <1>7. StreamsFit'
    BY <1>1, <1>3, <1>4, <1>6 DEF IInv, StreamsFit, Lock, In
  <1> QED
    BY <1>1, <1>7, Untouched

LEMMA AskStreamLockFits ==
  ASSUME IInv, NEW t \in Threads, AskStreamLock(t)
  PROVE  IInv'
  <1>1. PICK r : r = [at[t] EXCEPT !.pc = "lookup"]
    OBVIOUS
  <1>2. /\ at[t].pc = "streamLock" /\ at' = [at EXCEPT ![t] = r] /\ StreamLock!Ask(t, Lock(t))
        /\ UNCHANGED <<system, fo, context, foHash, contextHash, line, holders>>
    BY <1>1 DEF AskStreamLock, Go, Hashes
  <1>3. at[t] \in AtType /\ PlaceFits(at[t]) /\ FoFits(at[t])
    BY DEF IInv, Types, PlacesFit, FosFit
  <1>4. r.pc = "lookup" /\ SameObjects(t, r) /\ r.barrier = at[t].barrier /\ r \in AtType
    BY <1>1, <1>3 DEF AtType, Pcs, Attached, SameObjects
  <1>5. Becomes(t, r)
    BY <1>2, <1>3, <1>4 DEF Becomes, PlaceFits, SameObjects, Attached, Closing, Accounted, Unattached, Making
  <1>6. FoFits(r)
    BY <1>2, <1>3, <1>4 DEF FoFits, SameObjects, Attached, Closing, Accounted, Unattached, Making
  <1>7. SameUse(t, r) /\ SameCount(t, r) /\ SameDrop(t, r)
    BY <1>2, <1>4 DEF SameUse, SameCount, SameDrop, Accounted, Making
  <1>8. LinesFit'
    BY <1>2, <1>3, <1>4, <1>5, LinesStay DEF PlaceFits, Making
  <1>9. StreamsFit' /\ streamLine' \in [Ids \X StreamFiles -> Seq(Threads)]
    BY <1>2, <1>4, <1>5, StreamJoined DEF SameObjects
  <1>10. r.pc \notin Making \cup Unattached \cup {"insertFo"} /\ line' \in [Keys -> Seq(Threads)]
    BY <1>2, <1>4 DEF Making, Unattached, IInv, Types
  <1> QED
    BY <1>2, <1>4, <1>5, <1>6, <1>7, <1>8, <1>9, <1>10, Moves DEF SameFos, IInv, Types

LEMMA UnlockStreamFits ==
  ASSUME IInv, NEW t \in Threads, UnlockStream(t)
  PROVE  IInv'
  <1>1. PICK r : r = [at[t] EXCEPT !.pc = IF at[t].duplicate = None THEN "exit" ELSE "close"]
    OBVIOUS
  <1>2. /\ at[t].pc = "unlockStream" /\ at' = [at EXCEPT ![t] = r] /\ StreamLock!Release(t, Lock(t))
        /\ UNCHANGED <<system, fo, context, foHash, contextHash, line, holders>>
    BY <1>1 DEF UnlockStream, Go, Hashes
  <1>3. at[t] \in AtType /\ PlaceFits(at[t]) /\ FoFits(at[t])
    BY DEF IInv, Types, PlacesFit, FosFit
  <1>4. /\ r.pc = IF at[t].duplicate = None THEN "exit" ELSE "close"
        /\ SameObjects(t, r) /\ r.barrier = at[t].barrier /\ r \in AtType
    BY <1>1, <1>3 DEF AtType, Pcs, Attached, Closing, SameObjects
  <1>5. Becomes(t, r)
    BY <1>2, <1>3, <1>4 DEF Becomes, PlaceFits, SameObjects, Attached, Closing, Accounted, Unattached, Making
  <1>6. FoFits(r)
    BY <1>2, <1>3, <1>4 DEF FoFits, SameObjects, Attached, Closing, Accounted, Unattached, Making
  <1>7. SameUse(t, r) /\ SameCount(t, r) /\ SameDrop(t, r)
    BY <1>2, <1>4 DEF SameUse, SameCount, SameDrop, Accounted, Making
  <1>8. LinesFit'
    BY <1>2, <1>3, <1>4, <1>5, LinesStay DEF PlaceFits, Making
  <1>9. StreamsFit' /\ streamLine' \in [Ids \X StreamFiles -> Seq(Threads)]
    BY <1>2, <1>4, <1>5, StreamLeft DEF SameObjects
  <1>10. r.pc \notin Making \cup Unattached \cup {"insertFo"} /\ line' \in [Keys -> Seq(Threads)]
    BY <1>2, <1>4 DEF Making, Unattached, IInv, Types
  <1> QED
    BY <1>2, <1>4, <1>5, <1>6, <1>7, <1>8, <1>9, <1>10, Moves DEF SameFos, IInv, Types

\* The barrier is put in the line before the counter is decremented, or after,
\* or not at all.
LEMMA BarrierMoves ==
  ASSUME IInv, NEW t \in Threads, NEW r, at' = [at EXCEPT ![t] = r], SameObjects(t, r), r \in AtType,
         \/ at[t].pc = "counter" /\ r.pc = "decrement"
         \/ at[t].pc = "lateBarrier" /\ r.pc = "drop" /\ r.barrier
         \/ at[t].pc = "removeBarrier" /\ r.pc = "dereference" /\ ~r.barrier,
         UNCHANGED <<system, fo, context, foHash, contextHash, streamLine, streamHolders>>,
         \/ line' = line /\ (at[t].barrier => r.barrier)
         \/ r.barrier /\ HashLine!PutBarrier(t, Key(t))
         \/ HashLine!TakeBarrier(t, Key(t))
  PROVE  IInv'
  <1>1. at[t] \in AtType /\ PlaceFits(at[t]) /\ FoFits(at[t])
    BY DEF IInv, Types, PlacesFit, FosFit
  <1>2. Becomes(t, r)
    BY <1>1 DEF Becomes, PlaceFits, SameObjects, Attached, Closing, Accounted, Unattached, Making
  <1>3. FoFits(r)
    BY <1>1 DEF FoFits, SameObjects, Attached, Closing, Accounted, Unattached, Making
  <1>4. SameUse(t, r) /\ SameCount(t, r) /\ SameDrop(t, r)
    BY DEF SameObjects, SameUse, SameCount, SameDrop, Accounted, Making
  <1>5. at[t].pc # "idle" /\ at[t].pc \notin Making /\ r.pc \notin Making \cup Unattached \cup {"insertFo", "unlockStream"}
    BY DEF Making, Unattached
  <1>6. LinesFit' /\ line' \in [Keys -> Seq(Threads)]
    <2>1. ASSUME line' = line /\ (at[t].barrier => r.barrier)
          PROVE  LinesFit' /\ line' \in [Keys -> Seq(Threads)]
      BY <1>2, <1>5, <2>1, LinesStay DEF SameObjects, IInv, Types
    <2>2. ASSUME r.barrier /\ HashLine!PutBarrier(t, Key(t))
          PROVE  LinesFit' /\ line' \in [Keys -> Seq(Threads)]
      BY <1>2, <1>5, <2>2, LineJoined DEF SameObjects
    <2>3. ASSUME HashLine!TakeBarrier(t, Key(t))
          PROVE  LinesFit' /\ line' \in [Keys -> Seq(Threads)]
      BY <1>2, <1>5, <2>3, LineLeft
    <2> QED
      BY <2>1, <2>2, <2>3
  <1>7. StreamsFit' /\ streamLine' \in [Ids \X StreamFiles -> Seq(Threads)]
    <2>1. at[t].pc \notin {"lookup", "insertFo", "unlockStream"}
      OBVIOUS
    <2> QED
      BY <1>2, <1>5, <2>1, StreamsStay DEF IInv, Types
  <1> QED
    BY <1>2, <1>3, <1>4, <1>5, <1>6, <1>7, Moves DEF SameFos, IInv, Types

LEMMA LooksLastFits ==
  ASSUME IInv, NEW t \in Threads, LooksLast(t)
  PROVE  IInv'
  <1>1. at[t] \in AtType /\ at[t].pc = "counter" /\ ~at[t].barrier
    BY DEF LooksLast, IInv, Types, PlacesFit, PlaceFits, AtType
  <1>2. UNCHANGED <<system, fo, context, foHash, contextHash, streamLine, streamHolders>>
    BY DEF LooksLast, Hashes
  <1>3. ASSUME HashLine!PutBarrier(t, Key(t)), Goes(t, "counter", [at[t] EXCEPT !.pc = "decrement", !.barrier = TRUE])
        PROVE  IInv'
    <2>1. PICK r : r = [at[t] EXCEPT !.pc = "decrement", !.barrier = TRUE]
      OBVIOUS
    <2>2. at' = [at EXCEPT ![t] = r] /\ r.pc = "decrement" /\ r.barrier /\ SameObjects(t, r) /\ r \in AtType
      BY <1>1, <1>3, <2>1 DEF Goes, SameObjects, AtType, Pcs, Attached, Closing
    <2> QED
      BY <1>1, <1>2, <1>3, <2>2, BarrierMoves
  <1>4. ASSUME Go(t, "counter", "decrement"), UNCHANGED <<line, holders>>
        PROVE  IInv'
    <2>1. PICK r : r = [at[t] EXCEPT !.pc = "decrement"]
      OBVIOUS
    <2>2. at' = [at EXCEPT ![t] = r] /\ r.pc = "decrement" /\ SameObjects(t, r) /\ r \in AtType
      BY <1>1, <1>4, <2>1 DEF Go, SameObjects, AtType, Pcs, Attached, Closing
    <2> QED
      BY <1>1, <1>2, <1>4, <2>2, BarrierMoves
  <1> QED
    BY <1>3, <1>4 DEF LooksLast

LEMMA LateBarrierFits ==
  ASSUME IInv, NEW t \in Threads, LateBarrier(t)
  PROVE  IInv'
  <1>1. PICK r : r = [at[t] EXCEPT !.pc = "drop", !.barrier = TRUE]
    OBVIOUS
  <1>2. at[t] \in AtType
    BY DEF IInv, Types
  <1>3. /\ at[t].pc = "lateBarrier" /\ at' = [at EXCEPT ![t] = r] /\ r.pc = "drop" /\ r.barrier
        /\ SameObjects(t, r) /\ r \in AtType
    BY <1>1, <1>2 DEF LateBarrier, Goes, SameObjects, AtType, Pcs, Attached, Closing, Accounted
  <1>4. UNCHANGED <<system, fo, context, foHash, contextHash, streamLine, streamHolders>>
    BY DEF LateBarrier, Hashes
  <1> QED
    BY <1>3, <1>4, BarrierMoves DEF LateBarrier

LEMMA RemoveBarrierFits ==
  ASSUME IInv, NEW t \in Threads, RemoveBarrier(t)
  PROVE  IInv'
  <1>1. PICK r : r = [at[t] EXCEPT !.pc = "dereference", !.barrier = FALSE]
    OBVIOUS
  <1>2. at[t] \in AtType
    BY DEF IInv, Types
  <1>3. /\ at[t].pc = "removeBarrier" /\ at' = [at EXCEPT ![t] = r] /\ r.pc = "dereference" /\ ~r.barrier
        /\ SameObjects(t, r) /\ r \in AtType
    BY <1>1, <1>2 DEF RemoveBarrier, Goes, SameObjects, AtType, Pcs, Attached, Closing, Accounted
  <1>4. /\ UNCHANGED <<system, fo, context, foHash, contextHash, streamLine, streamHolders>>
        /\ HashLine!TakeBarrier(t, Key(t)) \/ (line' = line /\ ~at[t].barrier)
    BY <1>2 DEF RemoveBarrier, Hashes, AtType
  <1> QED
    BY <1>3, <1>4, BarrierMoves

-----------------------------------------------------------------------------
(* The context is looked for, made and given back                             *)

LEMMA EntryIs ==
  ASSUME NEW S \in SUBSET Ids
  PROVE  /\ Entry(S) = None <=> S = {}
         /\ S # {} => Entry(S) \in S
  BY NoneAssumption DEF Entry

LEMMA FoundContext ==
  ASSUME IInv, NEW k
  PROVE  /\ FindContext(k) # None => FindContext(k) \in contextHash /\ context[FindContext(k)].key = k
         /\ FindContext(k) = None => \A c \in contextHash : context[c].key # k
  <1>1. PICK S : S = {c \in contextHash : context[c].key = k}
    OBVIOUS
  <1>2. S \in SUBSET Ids /\ FindContext(k) = Entry(S)
    BY <1>1 DEF IInv, Types, FindContext
  <1> QED
    BY <1>1, <1>2, EntryIs

LEMMA FoundFo ==
  ASSUME IInv, NEW f
  PROVE  /\ FindFo(f) # None => FindFo(f) \in foHash /\ fo[FindFo(f)].file = f
         /\ FindFo(f) = None => \A i \in foHash : fo[i].file # f
  <1>1. PICK S : S = {i \in foHash : fo[i].file = f}
    OBVIOUS
  <1>2. S \in SUBSET Ids /\ FindFo(f) = Entry(S)
    BY <1>1 DEF IInv, Types, FindFo
  <1> QED
    BY <1>1, <1>2, EntryIs

\* A thread begins to use a context: it has a reference more.
LEMMA ThreadUses ==
  ASSUME IInv, NEW t \in Threads, NEW r, Becomes(t, r), NEW c \in Ids, r.context = c,
         at[t].pc \notin {"increment"} \cup Making, r.pc \in {"increment"} \cup Making
  PROVE  /\ t \notin ThreadsAt(c) /\ ThreadsAt(c)' = ThreadsAt(c) \cup {t}
         /\ Cardinality(ThreadsAt(c)') = Cardinality(ThreadsAt(c)) + 1
         /\ \A d : d # c => ThreadsAt(d)' = ThreadsAt(d)
  <1>1. at'[t] = r /\ \A u \in Threads : u # t => at'[u] = at[u]
    BY PlacesStay
  <1>2. t \notin ThreadsAt(c) /\ ThreadsAt(c)' = ThreadsAt(c) \cup {t} /\ \A d : d # c => ThreadsAt(d)' = ThreadsAt(d)
    BY <1>1 DEF ThreadsAt, In
  <1>3. IsFiniteSet(ThreadsAt(c))
    BY FiniteParts DEF ThreadsAt, In
  <1>4. PICK S : S = ThreadsAt(c)
    OBVIOUS
  <1>5. Cardinality(S \cup {t}) = Cardinality(S) + 1
    BY <1>2, <1>3, <1>4, Adds
  <1> QED
    BY <1>2, <1>4, <1>5

LEMMA ThreadLeaves ==
  ASSUME IInv, NEW t \in Threads, NEW r, Becomes(t, r), NEW c \in Ids, at[t].context = c,
         at[t].pc \in {"increment"} \cup Making, r.pc \notin {"increment"} \cup Making
  PROVE  /\ t \in ThreadsAt(c) /\ ThreadsAt(c)' = ThreadsAt(c) \ {t}
         /\ Cardinality(ThreadsAt(c)') = Cardinality(ThreadsAt(c)) - 1
         /\ \A d : d # c => ThreadsAt(d)' = ThreadsAt(d)
  <1>1. at'[t] = r /\ \A u \in Threads : u # t => at'[u] = at[u]
    BY PlacesStay
  <1>2. t \in ThreadsAt(c) /\ ThreadsAt(c)' = ThreadsAt(c) \ {t} /\ \A d : d # c => ThreadsAt(d)' = ThreadsAt(d)
    BY <1>1 DEF ThreadsAt, In
  <1>3. IsFiniteSet(ThreadsAt(c))
    BY FiniteParts DEF ThreadsAt, In
  <1>4. PICK S : S = ThreadsAt(c)
    OBVIOUS
  <1>5. Cardinality(S \ {t}) = Cardinality(S) - 1
    BY <1>2, <1>3, <1>4, Takes
  <1> QED
    BY <1>2, <1>4, <1>5

\* The sizes that the references are counted with.
LEMMA Counted1 ==
  ASSUME IInv, NEW c \in Ids
  PROVE  Cardinality(AttachedTo(c)) \in Nat /\ Cardinality(ThreadsAt(c)) \in Nat
  BY FiniteParts, Sizes DEF AttachedTo, ThreadsAt, In

LEMMA FindInHashFits ==
  ASSUME IInv, NEW t \in Threads, FindInHash(t)
  PROVE  IInv'
  <1>1. PICK c : c = FindContext(Key(t))
    OBVIOUS
  <1>2. at[t] \in AtType /\ PlaceFits(at[t]) /\ FoFits(at[t]) /\ at[t].pc = "find"
    BY DEF IInv, Types, PlacesFit, FosFit, FindInHash
  <1>3. UNCHANGED <<system, fo, foHash, contextHash, line, holders, streamLine, streamHolders>>
    BY DEF FindInHash, Hashes, Locks
  <1>4. at[t].pc \notin {"increment"} \cup Making /\ at[t].op \in {"create", "adopt"} /\ ~at[t].barrier
    BY <1>2 DEF Making, Unattached, PlaceFits
  <1>5. ASSUME c # None, Goes(t, "find", [at[t] EXCEPT !.pc = "increment", !.context = c]),
               context' = [context EXCEPT ![c].ref = @ + 1]
        PROVE  IInv'
    <2>1. PICK r : r = [at[t] EXCEPT !.pc = "increment", !.context = c]
      OBVIOUS
    <2>2. c \in contextHash /\ context[c].key = Key(t) /\ c \in Ids
      BY <1>1, <1>5, FoundContext DEF IInv, Types
    <2>3. /\ r.pc = "increment" /\ r.context = c /\ r.op = at[t].op /\ r.file = at[t].file /\ r.fo = at[t].fo
          /\ r.duplicate = at[t].duplicate /\ r.barrier = at[t].barrier /\ r \in AtType
      BY <1>2, <2>1, <2>2 DEF AtType, Pcs, Unattached
    <2>4. Becomes(t, r)
      BY <1>2, <1>5, <2>1, <2>2, <2>3 DEF Goes, Becomes, PlaceFits, Attached, Closing, Accounted, Unattached, Making
    <2>5. FoFits(r)
      BY <1>2, <2>3 DEF FoFits, Attached, Closing, Accounted, Unattached, Making
    <2>6. at'[t] = r /\ (\A u \in Threads : u # t => at'[u] = at[u]) /\ PlacesFit' /\ at' \in [Threads -> AtType]
      BY <2>4, PlacesStay
    <2>7. /\ context' \in [Ids -> ContextType]
          /\ context'[c].ref = context[c].ref + 1 /\ \A d \in Ids : d # c => context'[d] = context[d]
          /\ \A d \in Ids : context'[d].key = context[d].key /\ context'[d].counter = context[d].counter
      <3>1. PICK e : e = [context[c] EXCEPT !.ref = @ + 1]
        OBVIOUS
      <3>2. context[c] \in ContextType /\ context \in [Ids -> ContextType]
        BY <2>2 DEF IInv, Types
      <3>3. e \in ContextType /\ e.ref = context[c].ref + 1 /\ e.key = context[c].key /\ e.counter = context[c].counter
        BY <3>1, <3>2 DEF ContextType
      <3>4. context' = [context EXCEPT ![c] = e]
        BY <1>5, <3>1
      <3> QED
        BY <2>2, <3>2, <3>3, <3>4
    <2>8. Types'
      BY <1>3, <2>6, <2>7 DEF IInv, Types
    <2>9. FosFit' /\ FoCounts'
      BY <1>3, <2>3, <2>4, <2>5, FosStay, FoCountsStay DEF SameFos
    <2>10. /\ ThreadsAt(c)' = ThreadsAt(c) \cup {t}
           /\ Cardinality(ThreadsAt(c)') = Cardinality(ThreadsAt(c)) + 1
           /\ \A d : d # c => ThreadsAt(d)' = ThreadsAt(d)
      BY <1>4, <2>2, <2>3, <2>4, ThreadUses
    <2>11. \A d : AttachedTo(d)' = AttachedTo(d)
      BY <1>3 DEF AttachedTo
    <2>12. ContextCounts'
      <3>1. ASSUME NEW d \in Ids
            PROVE  context'[d].ref = Cardinality(AttachedTo(d)') + Cardinality(ThreadsAt(d)')
                                     + (IF d \in contextHash' THEN 1 ELSE 0)
        <4>1. Cardinality(AttachedTo(d)) \in Nat /\ Cardinality(ThreadsAt(d)) \in Nat
          BY Counted1
        <4>2. PICK m, n : m = Cardinality(AttachedTo(d)) /\ n = Cardinality(ThreadsAt(d))
          OBVIOUS
        <4>3. Cardinality(AttachedTo(d)') = m /\ Cardinality(ThreadsAt(d)') = IF d = c THEN n + 1 ELSE n
          BY <2>10, <2>11, <4>2
        <4>4. context[d].ref = m + n + (IF d \in contextHash THEN 1 ELSE 0)
          BY <4>2 DEF IInv, ContextCounts
        <4>5. context'[d].ref = IF d = c THEN context[d].ref + 1 ELSE context[d].ref
          BY <2>7
        <4> QED
          BY <1>3, <4>1, <4>2, <4>3, <4>4, <4>5
      <3> QED
        BY <3>1 DEF ContextCounts
    <2>13. SameCount(t, r) /\ SameDrop(t, r)
      BY <1>2, <2>3 DEF SameCount, SameDrop, Making, Accounted
    <2>14. CounterCountsFileObjects' /\ DroppersFit'
      BY <1>3, <2>4, <2>7, <2>8, <2>9, <2>13, CountersStay, DroppersStay DEF IInv, Types
    <2>15. NewFits'
      <3>1. In(Making)' = In(Making) /\ \A S : S \subseteq Making => In(S)' = In(S)
        BY <1>4, <2>3, <2>6 DEF In, Making
      <3>2. \A u \in In(Making) : at'[u].context = at[u].context
        BY <1>4, <2>6 DEF In
      <3>3. \A u \in In(Making \ {"unlockAndUse"}), d \in Ids : at[u].context = d => d # c
        BY <2>2 DEF IInv, NewFits
      <3>4. \A S : S \subseteq Making => In(S) \subseteq In(Making)
        BY DEF In
      <3> QED
        BY <1>3, <2>10, <2>11, <3>1, <3>2, <3>3, <3>4 DEF IInv, NewFits, Making
    <2>16. KeysFit'
      <3>1. \A d \in Ids : context'[d].ref > 0 => context'[d].key \in Keys
        <4>1. Key(t) \in Keys
          BY <1>2, KeyIs
        <4> QED
          BY <2>2, <2>7, <4>1 DEF IInv, KeysFit
      <3>2. \A i \in Ids : fo'[i].context # None =>
              fo'[i].file \in Files /\ context'[fo'[i].context].key = KeyOf[fo'[i].file]
        BY <1>3, <2>7 DEF IInv, KeysFit, Types, FoType
      <3>3. ASSUME NEW u \in In({"increment"} \cup Making)'
            PROVE  context'[at'[u].context].key = KeyOf[at'[u].file]
        <4>1. CASE u = t
          BY <2>2, <2>3, <2>6, <2>7, <4>1 DEF Key
        <4>2. CASE u # t
          BY <2>6, <2>7, <4>2 DEF IInv, KeysFit, Key, In, PlacesFit, PlaceFits
        <4> QED
          BY <4>1, <4>2
      <3> QED
        BY <3>1, <3>2, <3>3 DEF KeysFit, Key
    <2>17. LinesFit' /\ StreamsFit'
      BY <1>2, <1>3, <1>4, <2>3, <2>4, LinesStay, StreamsStay
    <2>18. FilesFit'
      BY <1>2, <1>3, <2>3, <2>4, FilesStay DEF Unattached
    <2> QED
      BY <2>6, <2>8, <2>9, <2>12, <2>14, <2>15, <2>16, <2>17, <2>18 DEF IInv
  <1>6. ASSUME c = None, UNCHANGED context,
               Goes(t, "find", [at[t] EXCEPT !.pc = NextWithoutContext(t), !.failed = (at[t].op = "adopt")])
        PROVE  IInv'
    <2>1. PICK r : r = [at[t] EXCEPT !.pc = NextWithoutContext(t), !.failed = (at[t].op = "adopt")]
      OBVIOUS
    <2>2. r.pc = IF at[t].op = "create" THEN "newContext" ELSE "exit"
      BY <1>2, <2>1 DEF AtType, NextWithoutContext
    <2>3. SameObjects(t, r) /\ r.barrier = at[t].barrier /\ r \in AtType
      BY <1>2, <2>1, <2>2 DEF AtType, Pcs, Unattached, SameObjects
    <2>4. Becomes(t, r)
      BY <1>2, <1>4, <1>6, <2>1, <2>2, <2>3 DEF Goes, Becomes, PlaceFits, SameObjects, Attached, Closing, Accounted, Unattached, Making
    <2>5. FoFits(r)
      BY <1>2, <2>2, <2>3 DEF FoFits, SameObjects, Attached, Closing, Accounted, Unattached, Making
    <2>6. SameUse(t, r) /\ SameCount(t, r) /\ SameDrop(t, r) /\ r.pc \notin Making
      BY <1>2, <2>2, <2>3 DEF SameUse, SameCount, SameDrop, Accounted, Making
    <2>7. LinesFit' /\ StreamsFit'
      BY <1>2, <1>3, <1>4, <2>2, <2>4, LinesStay, StreamsStay
    <2> QED
      BY <1>2, <1>3, <1>6, <2>2, <2>3, <2>4, <2>5, <2>6, <2>7, Moves DEF SameFos, IInv, Types, Unattached
  <1> QED
    BY <1>1, <1>5, <1>6 DEF FindInHash

LEMMA ContextCountsNext ==
  ASSUME IInv, NEW c \in Ids, NEW a \in Int, NEW b \in Int, NEW h \in Int,
         \A d \in Ids : d # c => /\ AttachedTo(d)' = AttachedTo(d) /\ ThreadsAt(d)' = ThreadsAt(d)
                                 /\ context'[d].ref = context[d].ref,
         \A d \in Ids : d # c => (d \in contextHash' <=> d \in contextHash),
         Cardinality(AttachedTo(c)') = Cardinality(AttachedTo(c)) + a,
         Cardinality(ThreadsAt(c)') = Cardinality(ThreadsAt(c)) + b,
         (IF c \in contextHash' THEN 1 ELSE 0) = (IF c \in contextHash THEN 1 ELSE 0) + h,
         context'[c].ref = context[c].ref + (a + b + h)
  PROVE  ContextCounts'
  <1>1. ASSUME NEW d \in Ids
        PROVE  context'[d].ref = Cardinality(AttachedTo(d)') + Cardinality(ThreadsAt(d)')
                                 + (IF d \in contextHash' THEN 1 ELSE 0)
    <2>1. PICK m, n : m = Cardinality(AttachedTo(d)) /\ n = Cardinality(ThreadsAt(d))
      OBVIOUS
    <2>2. m \in Nat /\ n \in Nat
      BY <2>1, Counted1
    <2>3. context[d].ref = m + n + (IF d \in contextHash THEN 1 ELSE 0)
      BY <2>1 DEF IInv, ContextCounts
    <2>4. CASE d # c
      <3>1. Cardinality(AttachedTo(d)') = m /\ Cardinality(ThreadsAt(d)') = n
        BY <2>1, <2>4
      <3> QED
        BY <2>3, <2>4, <3>1
    <2>5. CASE d = c
      <3>1. Cardinality(AttachedTo(d)') = m + a /\ Cardinality(ThreadsAt(d)') = n + b
        BY <2>1, <2>5
      <3> QED
        BY <2>2, <2>3, <2>5, <3>1
    <2> QED
      BY <2>4, <2>5
  <1> QED
    BY <1>1 DEF ContextCounts

LEMMA FoCountsNext ==
  ASSUME IInv, NEW i \in Ids, NEW a \in Int, NEW h \in Int,
         \A j \in Ids : j # i => FoThreads(j)' = FoThreads(j) /\ fo'[j].ref = fo[j].ref,
         \A j \in Ids : j # i => (j \in foHash' <=> j \in foHash),
         Cardinality(FoThreads(i)') = Cardinality(FoThreads(i)) + a,
         (IF i \in foHash' THEN 1 ELSE 0) = (IF i \in foHash THEN 1 ELSE 0) + h,
         fo'[i].ref = fo[i].ref + (a + h)
  PROVE  FoCounts'
  <1>1. ASSUME NEW j \in Ids
        PROVE  fo'[j].ref = Cardinality(FoThreads(j)') + (IF j \in foHash' THEN 1 ELSE 0)
    <2>1. PICK n : n = Cardinality(FoThreads(j))
      OBVIOUS
    <2>2. n \in Nat
      BY <2>1, FiniteParts, Sizes DEF FoThreads
    <2>3. fo[j].ref = n + (IF j \in foHash THEN 1 ELSE 0)
      BY <2>1 DEF IInv, FoCounts
    <2>4. CASE j # i
      <3>1. Cardinality(FoThreads(j)') = n
        BY <2>1, <2>4
      <3> QED
        BY <2>3, <2>4, <3>1
    <2>5. CASE j = i
      <3>1. Cardinality(FoThreads(j)') = n + a
        BY <2>1, <2>5
      <3> QED
        BY <2>2, <2>3, <2>5, <3>1
    <2> QED
      BY <2>4, <2>5
  <1> QED
    BY <1>1 DEF FoCounts

LEMMA LessIs ==
  ASSUME NEW cs \in [Ids -> ContextType], NEW c \in Ids, cs[c].ref >= 1, NEW n, n = Less(cs, c)
  PROVE  /\ n \in [Ids -> ContextType]
         /\ n[c].ref = cs[c].ref - 1 /\ n[c].counter = cs[c].counter
         /\ cs[c].ref # 1 => n[c].key = cs[c].key
         /\ \A d \in Ids : d # c => n[d] = cs[d]
  <1>1. PICK e : e = IF cs[c].ref = 1 THEN [cs[c] EXCEPT !.ref = 0, !.key = None] ELSE [cs[c] EXCEPT !.ref = @ - 1]
    OBVIOUS
  <1>2. cs[c] \in ContextType
    OBVIOUS
  <1>3. /\ e \in ContextType /\ e.ref = cs[c].ref - 1 /\ e.counter = cs[c].counter
        /\ cs[c].ref # 1 => e.key = cs[c].key
    <2>1. CASE cs[c].ref = 1
      <3>1. e = [cs[c] EXCEPT !.ref = 0, !.key = None] /\ 0 = cs[c].ref - 1
        BY <1>1, <2>1
      <3>2. e \in ContextType /\ e.ref = 0 /\ e.counter = cs[c].counter
        BY <1>2, <3>1 DEF ContextType
      <3> QED
        BY <2>1, <3>1, <3>2
    <2>2. CASE cs[c].ref # 1
      <3>1. e = [cs[c] EXCEPT !.ref = @ - 1] /\ cs[c].ref - 1 \in Nat
        BY <1>1, <1>2, <2>2 DEF ContextType
      <3> QED
        BY <1>2, <2>2, <3>1 DEF ContextType
    <2> QED
      BY <2>1, <2>2
  <1>4. n = [cs EXCEPT ![c] = e]
    BY <1>1 DEF Less
  <1> QED
    BY <1>3, <1>4

\* A thread that did not attach its context gives its reference back.
LEMMA GivesBack ==
  ASSUME IInv, NEW t \in Threads, NEW r, Becomes(t, r), NEW c \in Ids, c = at[t].context,
         at[t].pc \in {"increment", "unlockAndRepeat", "unlockAndFail"},
         r.pc \in {"find", "newContext", "exit"}, r.context = None, r.op = at[t].op, r.file = at[t].file,
         r.fo = at[t].fo, r.duplicate = at[t].duplicate,
         UNCHANGED <<system, fo, foHash, contextHash, streamLine, streamHolders>>,
         line' \in [Keys -> Seq(Threads)], LinesFit',
         context' = Less(IF at[t].pc = "increment" THEN context ELSE [context EXCEPT ![c].counter = 0], c)
  PROVE  IInv'
  <1>1. at'[t] = r /\ (\A u \in Threads : u # t => at'[u] = at[u]) /\ PlacesFit' /\ at' \in [Threads -> AtType]
    BY PlacesStay
  <1>2. at[t] \in AtType /\ PlaceFits(at[t]) /\ FoFits(at[t]) /\ at[t].pc \in Unattached /\ at[t].op \in {"create", "adopt"}
    BY DEF IInv, Types, PlacesFit, FosFit, Unattached, Making, PlaceFits
  <1>3. /\ t \in ThreadsAt(c) /\ ThreadsAt(c)' = ThreadsAt(c) \ {t}
        /\ Cardinality(ThreadsAt(c)') = Cardinality(ThreadsAt(c)) - 1
        /\ \A d : d # c => ThreadsAt(d)' = ThreadsAt(d)
    BY ThreadLeaves DEF Making
  <1>4. /\ context[c].ref >= 1 /\ context[c].ref \in Nat
        /\ context[c].ref = 1 => AttachedTo(c) = {} /\ ThreadsAt(c) = {t} /\ c \notin contextHash
    BY <1>3, ContextLives
  <1>5. PICK n : n = IF at[t].pc = "increment" THEN context[c].counter ELSE 0
    OBVIOUS
  <1>6. /\ context' \in [Ids -> ContextType] /\ context'[c].ref = context[c].ref - 1
        /\ context'[c].counter = n
        /\ context[c].ref # 1 => context'[c].key = context[c].key
        /\ \A d \in Ids : d # c => context'[d] = context[d]
    <2>1. PICK cs : cs = IF at[t].pc = "increment" THEN context ELSE [context EXCEPT ![c].counter = 0]
      OBVIOUS
    <2>2. context \in [Ids -> ContextType] /\ context[c] \in ContextType
      BY DEF IInv, Types
    <2>3. PICK e : e = [context[c] EXCEPT !.counter = 0]
      OBVIOUS
    <2>4. e \in ContextType /\ e.ref = context[c].ref /\ e.key = context[c].key /\ e.counter = 0
      BY <2>2, <2>3 DEF ContextType
    <2>5. cs = IF at[t].pc = "increment" THEN context ELSE [context EXCEPT ![c] = e]
      BY <2>1, <2>3
    <2>6. /\ cs \in [Ids -> ContextType] /\ cs[c].ref = context[c].ref /\ cs[c].key = context[c].key
          /\ cs[c].counter = n /\ \A d \in Ids : d # c => cs[d] = context[d]
      BY <1>5, <2>2, <2>4, <2>5
    <2>7. PICK m : m = Less(cs, c) /\ context' = m
      BY <2>1
    <2>8. /\ m \in [Ids -> ContextType] /\ m[c].ref = cs[c].ref - 1 /\ m[c].counter = cs[c].counter
          /\ cs[c].ref # 1 => m[c].key = cs[c].key
          /\ \A d \in Ids : d # c => m[d] = cs[d]
      BY <1>4, <2>6, <2>7, LessIs
    <2> QED
      BY <2>6, <2>7, <2>8
  <1>7. Types'
    BY <1>1, <1>6 DEF IInv, Types
  <1>8. FoFits(r)
    BY <1>2 DEF FoFits, Attached, Closing, Accounted, Unattached, Making
  <1>9. FosFit' /\ FoCounts'
    BY <1>8, FosStay, FoCountsStay DEF SameFos
  <1>10. \A d : AttachedTo(d)' = AttachedTo(d)
    BY DEF AttachedTo
  <1>11. ContextCounts'
    <2>1. Cardinality(AttachedTo(c)) \in Nat /\ Cardinality(ThreadsAt(c)) \in Nat
      BY Counted1
    <2>2. PICK z, b : z = 0 /\ b = 0 - 1
      OBVIOUS
    <2>3. z \in Int /\ b \in Int
      BY <2>2
    <2>4. /\ Cardinality(AttachedTo(c)') = Cardinality(AttachedTo(c)) + z
          /\ Cardinality(ThreadsAt(c)') = Cardinality(ThreadsAt(c)) + b
      BY <1>3, <1>10, <2>1, <2>2
    <2>5. PICK x, y : x = context[c].ref /\ y = context'[c].ref
      OBVIOUS
    <2>6. x \in Nat /\ y = x - 1
      BY <1>4, <1>6, <2>5
    <2>7. y = x + (z + b + z)
      BY <2>2, <2>6
    <2>8. (IF c \in contextHash' THEN 1 ELSE 0) = (IF c \in contextHash THEN 1 ELSE 0) + z
      BY <2>2
    <2>9. context'[c].ref = context[c].ref + (z + b + z)
      BY <2>5, <2>7
    <2>10. \A d \in Ids : d # c => /\ AttachedTo(d)' = AttachedTo(d) /\ ThreadsAt(d)' = ThreadsAt(d)
                                    /\ context'[d].ref = context[d].ref
      BY <1>3, <1>6, <1>10
    <2>11. \A d \in Ids : d # c => (d \in contextHash' <=> d \in contextHash)
      OBVIOUS
    <2> QED
      BY <2>3, <2>4, <2>8, <2>9, <2>10, <2>11, ContextCountsNext
  <1>12. \A u \in Threads : u # t => (u \in In(Making)' <=> u \in In(Making))
    BY <1>1 DEF In
  <1>13. t \notin In(Making)' /\ (t \in In(Making) <=> at[t].pc # "increment")
    BY <1>1, <1>2 DEF In, Making
  <1>14. \A d \in Ids : OpenedIn(d)' = OpenedIn(d)
    <2>1. \A i \in Ids : Counted(i)' = Counted(i)
      BY <1>1 DEF Counted, In, Accounted
    <2> QED
      BY <2>1 DEF OpenedIn
  <1>15. \A d \in Ids : d # c => Private(d)' = Private(d)
    BY <1>1 DEF Private, In
  <1>16. CounterCountsFileObjects'
    <2>1. \A d \in Ids : d # c => context'[d].counter = Cardinality(OpenedIn(d)') + (IF Private(d)' THEN 1 ELSE 0)
      BY <1>6, <1>14, <1>15 DEF IInv, CounterCountsFileObjects
    <2>2. context'[c].counter = Cardinality(OpenedIn(c)') + (IF Private(c)' THEN 1 ELSE 0)
      <3>1. CASE at[t].pc = "increment"
        <4>1. Private(c)' = Private(c)
          BY <1>1, <3>1 DEF Private, In
        <4> QED
          BY <1>5, <1>6, <1>14, <3>1, <4>1 DEF IInv, CounterCountsFileObjects
      <3>2. CASE at[t].pc # "increment"
        <4>1. t \in In(Making \ {"unlockAndUse"}) /\ t \in In(Making)
          BY <3>2 DEF In, Making
        <4>2. AttachedTo(c) = {} /\ \A u \in In(Making) : at[u].context = c => u = t
          BY <4>1 DEF IInv, NewFits
        <4>3. OpenedIn(c) = {}
          BY <4>2 DEF OpenedIn, AttachedTo
        <4>4. ~Private(c)'
          BY <1>1, <1>12, <1>13, <4>2 DEF Private, In, Making
        <4>5. Cardinality(OpenedIn(c)') = 0 /\ context'[c].counter = 0
          BY <1>5, <1>6, <1>14, <3>2, <4>3, FS_EmptySet
        <4> QED
          BY <4>4, <4>5
      <3> QED
        BY <3>1, <3>2
    <2> QED
      BY <2>1, <2>2 DEF CounterCountsFileObjects
  <1>17. \A d \in contextHash : context'[d].counter = context[d].counter /\ context'[d].key = context[d].key
    <2>1. contextHash \subseteq Ids
      BY DEF IInv, Types
    <2>2. c \in contextHash => at[t].pc = "increment"
      BY DEF IInv, NewFits, In, Making
    <2> QED
      BY <1>4, <1>5, <1>6, <2>1, <2>2
  <1>18. DroppersFit'
    <2>1. SameDrop(t, r)
      BY DEF SameDrop
    <2> QED
      BY <1>14, <1>17, <2>1, DroppersKept
  <1>19. NewFits'
    <2>1. \A u \in In(Making)' : u \in In(Making) /\ at'[u] = at[u] /\ u # t
      BY <1>1, <1>12, <1>13 DEF In
    <2>2. \A u \in In({"unlockAndUse"})' : at'[u].context \in contextHash'
      BY <2>1 DEF IInv, NewFits, In, Making
    <2>3. \A u, v \in In(Making)' : at'[u].context = at'[v].context => u = v
      BY <2>1 DEF IInv, NewFits
    <2>4. ASSUME NEW u \in In(Making \ {"unlockAndUse"})', NEW d \in Ids, at'[u].context = d
          PROVE  AttachedTo(d)' = {} /\ ThreadsAt(d)' = {u} /\ d \notin contextHash'
      <3>1. u \in In(Making)' /\ at'[u].pc # "unlockAndUse"
        BY <2>4 DEF In
      <3>2. u \in In(Making \ {"unlockAndUse"}) /\ at[u].context = d /\ u # t
        BY <2>1, <2>4, <3>1 DEF In
      <3>3. AttachedTo(d) = {} /\ ThreadsAt(d) = {u} /\ d \notin contextHash
        BY <3>2 DEF IInv, NewFits
      <3>4. d # c
        BY <1>3, <3>2, <3>3
      <3> QED
        BY <1>3, <1>10, <3>3, <3>4
    <2> QED
      BY <2>2, <2>3, <2>4 DEF NewFits
  <1>20. KeysFit'
    <2>1. \A d \in Ids : context'[d].ref > 0 => context'[d].key \in Keys
      <3>1. context'[c].ref > 0 => context[c].ref # 1 /\ context[c].ref > 0
        BY <1>4, <1>6
      <3> QED
        BY <1>6, <3>1 DEF IInv, KeysFit
    <2>2. \A i \in Ids : fo'[i].context # None =>
            fo'[i].file \in Files /\ context'[fo'[i].context].key = KeyOf[fo'[i].file]
      <3>1. ASSUME NEW i \in Ids, fo[i].context # None
            PROVE  context'[fo[i].context].key = context[fo[i].context].key
        <4>1. fo[i].context \in Ids
          BY <3>1 DEF IInv, Types, FoType
        <4>2. fo[i].context = c => context[c].ref # 1
          BY <1>4, <3>1 DEF AttachedTo
        <4> QED
          BY <1>6, <4>1, <4>2
      <3> QED
        BY <3>1 DEF IInv, KeysFit
    <2>3. ASSUME NEW u \in In({"increment"} \cup Making)'
          PROVE  context'[at'[u].context].key = KeyOf[at'[u].file]
      <3>1. u \in In({"increment"} \cup Making) /\ at'[u] = at[u] /\ u # t
        BY <1>1, <2>3 DEF In, Making
      <3>2. at[u].context \in Ids
        BY <3>1 DEF IInv, PlacesFit, PlaceFits, In
      <3>3. at[u].context = c => context[c].ref # 1
        BY <1>4, <3>1 DEF ThreadsAt
      <3>4. PICK d \in Ids : d = at[u].context
        BY <3>2
      <3>5. context'[d].key = context[d].key
        BY <1>6, <3>3, <3>4
      <3>6. context[d].key = KeyOf[at[u].file]
        BY <3>1, <3>4 DEF IInv, KeysFit, Key
      <3> QED
        BY <3>1, <3>4, <3>5, <3>6
    <2> QED
      BY <2>1, <2>2, <2>3 DEF KeysFit, Key
  <1>21. StreamsFit'
    BY StreamsStay
  <1>22. FilesFit'
    BY <1>2, FilesStay DEF Unattached
  <1> QED
    BY <1>1, <1>7, <1>9, <1>11, <1>16, <1>18, <1>19, <1>20, <1>21, <1>22 DEF IInv

\* A thread attaches the context that it has a reference to.
LEMMA Attaches ==
  ASSUME IInv, NEW t \in Threads, NEW r, Becomes(t, r), NEW c \in Ids, c = at[t].context,
         NEW i \in Ids, i = at[t].fo, fo' = [fo EXCEPT ![i].context = c],
         \/ /\ at[t].pc = "increment" /\ context[c].counter > 0
            /\ context' = [context EXCEPT ![c].counter = @ + 1]
         \/ at[t].pc = "unlockAndUse" /\ context' = context,
         r.pc = IF at[t].op = "adopt" THEN "streamLock" ELSE "insertFo", r.context = c, r.op = at[t].op,
         r.file = at[t].file, r.fo = i, r.duplicate = at[t].duplicate,
         UNCHANGED <<system, foHash, contextHash, streamLine, streamHolders>>,
         line' \in [Keys -> Seq(Threads)], LinesFit'
  PROVE  IInv'
  <1>1. at'[t] = r /\ (\A u \in Threads : u # t => at'[u] = at[u]) /\ PlacesFit' /\ at' \in [Threads -> AtType]
    BY PlacesStay
  <1>2. /\ at[t] \in AtType /\ PlaceFits(at[t]) /\ FoFits(at[t])
        /\ at[t].pc \in {"increment"} \cup Making /\ at[t].pc \in Unattached /\ at[t].pc # "idle"
        /\ r.pc \notin {"increment"} \cup Making \cup Accounted
    BY DEF IInv, Types, PlacesFit, FosFit, Unattached, Making, Accounted
  <1>3. i \notin foHash /\ fo[i].context = None /\ fo[i].file = at[t].file /\ i # None /\ c # None /\ c \in Ids
    BY <1>2, NoneAssumption DEF FoFits
  <1>4. fo[i].ref = 1 /\ at[t].duplicate # i /\ \A u \in Threads : u # t => at[u].fo # i /\ at[u].duplicate # i
    BY <1>3, OwnFo
  <1>5. /\ fo' \in [Ids -> FoType] /\ fo'[i].context = c /\ \A j \in Ids : j # i => fo'[j] = fo[j]
        /\ \A j \in Ids : fo'[j].ref = fo[j].ref /\ fo'[j].file = fo[j].file
    <2>1. PICK e : e = [fo[i] EXCEPT !.context = c]
      OBVIOUS
    <2>2. fo \in [Ids -> FoType] /\ fo[i] \in FoType
      BY DEF IInv, Types
    <2>3. e \in FoType /\ e.ref = fo[i].ref /\ e.file = fo[i].file /\ e.context = c
      BY <2>1, <2>2 DEF FoType
    <2>4. fo' = [fo EXCEPT ![i] = e]
      BY <2>1
    <2> QED
      BY <2>2, <2>3, <2>4
  <1>6. PICK g : g = context[c].counter /\ g \in Nat
    BY DEF IInv, Types, ContextType
  <1>7. /\ context' \in [Ids -> ContextType] /\ \A d \in Ids : d # c => context'[d] = context[d]
        /\ \A d \in Ids : context'[d].ref = context[d].ref /\ context'[d].key = context[d].key
        /\ context'[c].counter = IF at[t].pc = "increment" THEN g + 1 ELSE g
        /\ at[t].pc = "increment" => g > 0
    <2>1. PICK e : e = [context[c] EXCEPT !.counter = @ + 1]
      OBVIOUS
    <2>2. context \in [Ids -> ContextType] /\ context[c] \in ContextType
      BY DEF IInv, Types
    <2>3. e \in ContextType /\ e.ref = context[c].ref /\ e.key = context[c].key /\ e.counter = g + 1
      <3>1. e = [context[c] EXCEPT !.counter = g + 1] /\ g + 1 \in Nat
        BY <1>6, <2>1
      <3> QED
        BY <2>2, <3>1 DEF ContextType
    <2>4. context' = IF at[t].pc = "increment" THEN [context EXCEPT ![c] = e] ELSE context
      BY <2>1
    <2> QED
      BY <1>6, <2>2, <2>3, <2>4
  <1>8. Types'
    BY <1>1, <1>5, <1>7 DEF IInv, Types
  <1>9. FosFit'
    <2>1. FoFits(r)'
      BY <1>2, <1>3, <1>4, <1>5 DEF FoFits, Becomes, PlaceFits, Attached, Closing, Accounted, Unattached, Making
    <2>11. ASSUME NEW u \in Threads, u # t
           PROVE  FoFits(at[u])'
      <3>1. FoFits(at[u]) /\ at'[u] = at[u] /\ at[u] \in AtType /\ PlaceFits(at[u])
        BY <1>1, <2>11 DEF IInv, FosFit, Types, PlacesFit
      <3>2. /\ at[u].pc # "idle" => at[u].fo \in Ids /\ fo'[at[u].fo] = fo[at[u].fo]
            /\ at[u].duplicate # None => at[u].duplicate \in Ids /\ fo'[at[u].duplicate] = fo[at[u].duplicate]
        BY <1>4, <1>5, <2>11, <3>1 DEF PlaceFits, AtType
      <3>3. "idle" \notin Unattached \cup Attached \cup Closing
        BY DEF Unattached, Making, Attached, Closing, Accounted
      <3>4. foHash' = foHash
        OBVIOUS
      <3> QED
        BY <3>1, <3>2, <3>3, <3>4 DEF FoFits
    <2>12. \A u \in Threads : FoFits(at[u])'
      BY <1>1, <2>1, <2>11
    <2>2. \A j \in foHash : fo'[j].context # None /\ fo'[j].file # None
      BY <1>3, <1>5 DEF IInv, FosFit, Types
    <2>3. \A j \in Ids : fo'[j].ref = 0 => fo'[j].context = None
      BY <1>4, <1>5 DEF IInv, FosFit
    <2>4. \A u \in Threads : at'[u].fo = at[u].fo
      BY <1>1
    <2>5. \A u, v \in Threads : u # v /\ at'[u].fo = at'[v].fo /\ at'[u].fo # None => at'[u].fo \in foHash
      BY <2>4 DEF IInv, FosFit
    <2> QED
      BY <2>2, <2>3, <2>5, <2>12 DEF FosFit
  <1>10. FoCounts'
    BY <1>5, FoCountsStay
  <1>11. /\ t \in ThreadsAt(c) /\ ThreadsAt(c)' = ThreadsAt(c) \ {t}
         /\ Cardinality(ThreadsAt(c)') = Cardinality(ThreadsAt(c)) - 1
         /\ \A d : d # c => ThreadsAt(d)' = ThreadsAt(d)
    BY <1>2, ThreadLeaves
  <1>12. /\ i \notin AttachedTo(c) /\ AttachedTo(c)' = AttachedTo(c) \cup {i}
         /\ \A d \in Ids : d # c => AttachedTo(d)' = AttachedTo(d)
    BY <1>3, <1>5, NoneAssumption DEF AttachedTo
  <1>13. Cardinality(AttachedTo(c)') = Cardinality(AttachedTo(c)) + 1
    <2>1. IsFiniteSet(AttachedTo(c))
      BY FiniteParts DEF AttachedTo
    <2>2. PICK S : S = AttachedTo(c)
      OBVIOUS
    <2>3. Cardinality(S \cup {i}) = Cardinality(S) + 1
      BY <1>12, <2>1, <2>2, Adds
    <2> QED
      BY <1>12, <2>2, <2>3
  <1>14. ContextCounts'
    <2>1. PICK x, y, z : x = 1 /\ y = 0 - 1 /\ z = 0
      OBVIOUS
    <2>2. x \in Int /\ y \in Int /\ z \in Int
      BY <2>1
    <2>3. PICK n : n = context[c].ref /\ n \in Nat
      BY DEF IInv, Types, ContextType
    <2>4. context'[c].ref = context[c].ref + (x + y + z)
      BY <1>7, <2>1, <2>3
    <2>5. /\ Cardinality(AttachedTo(c)') = Cardinality(AttachedTo(c)) + x
          /\ Cardinality(ThreadsAt(c)') = Cardinality(ThreadsAt(c)) + y
      BY <1>11, <1>13, <2>1, Counted1
    <2>6. (IF c \in contextHash' THEN 1 ELSE 0) = (IF c \in contextHash THEN 1 ELSE 0) + z
      BY <2>1
    <2>7. \A d \in Ids : d # c => /\ AttachedTo(d)' = AttachedTo(d) /\ ThreadsAt(d)' = ThreadsAt(d)
                                   /\ context'[d].ref = context[d].ref
      BY <1>7, <1>11, <1>12
    <2>8. \A d \in Ids : d # c => (d \in contextHash' <=> d \in contextHash)
      OBVIOUS
    <2> QED
      BY <2>2, <2>4, <2>5, <2>6, <2>7, <2>8, ContextCountsNext
  <1>15. c \in contextHash
    <2>1. ASSUME at[t].pc = "increment"
          PROVE  c \in contextHash
      <3>1. OpenedIn(c) # {} \/ Private(c)
        BY <1>6, <1>7, <2>1, Opened
      <3>2. ASSUME NEW u \in In(Making), at[u].context = c
            PROVE  c \in contextHash
        <4>1. ASSUME at[u].pc # "unlockAndUse"
              PROVE  FALSE
          <5>1. u \in In(Making \ {"unlockAndUse"})
            BY <3>2, <4>1 DEF In
          <5>2. ThreadsAt(c) = {u}
            BY <3>2, <5>1 DEF IInv, NewFits
          <5>3. t = u
            BY <1>11, <5>2
          <5> QED
            BY <2>1, <3>2, <5>3 DEF In, Making
        <4> QED
          BY <3>2, <4>1 DEF IInv, NewFits, In
      <3> QED
        BY <3>1, <3>2 DEF IInv, DroppersFit, Private, Making
    <2>2. ASSUME at[t].pc = "unlockAndUse"
          PROVE  c \in contextHash
      BY <2>2 DEF IInv, NewFits, In
    <2> QED
      BY <2>1, <2>2
  <1>16. i \notin OpenedIn(c) /\ OpenedIn(c)' = OpenedIn(c) \cup {i} /\ \A d \in Ids : d # c => OpenedIn(d)' = OpenedIn(d)
    <2>1. In(Accounted)' = In(Accounted) /\ \A u \in In(Accounted) : at'[u].fo = at[u].fo /\ u # t
      BY <1>1, <1>2 DEF In, Unattached, Making, Accounted
    <2>2. \A j \in Ids : j # i => Counted(j)' = Counted(j)
      BY <1>5, <2>1 DEF Counted, Accounted
    <2>3. \A u \in In(Accounted) : at'[u].fo # i
      BY <1>4, <2>1 DEF In
    <2>4. fo'[i].ref > 0 /\ fo'[i].context # None
      BY <1>3, <1>4, <1>5
    <2>5. Counted(i)'
      BY <2>1, <2>3, <2>4 DEF Counted, Accounted
    <2> QED
      BY <1>3, <1>5, <2>2, <2>5, NoneAssumption DEF OpenedIn
  <1>17. Cardinality(OpenedIn(c)) \in Nat /\ Cardinality(OpenedIn(c)') = Cardinality(OpenedIn(c)) + 1
    <2>1. IsFiniteSet(OpenedIn(c))
      BY FiniteParts DEF OpenedIn
    <2>2. PICK S : S = OpenedIn(c)
      OBVIOUS
    <2>3. Cardinality(S \cup {i}) = Cardinality(S) + 1 /\ Cardinality(S) \in Nat
      BY <1>16, <2>1, <2>2, Adds, Sizes
    <2> QED
      BY <1>16, <2>2, <2>3
  <1>18. /\ \A d \in Ids : d # c => Private(d)' = Private(d)
         /\ at[t].pc = "increment" => Private(c)' = Private(c)
         /\ at[t].pc = "unlockAndUse" => Private(c) /\ ~Private(c)'
    <2>1. /\ \A d \in Ids : d # c => Private(d)' = Private(d)
          /\ at[t].pc = "increment" => Private(c)' = Private(c)
      <3>1. \A u \in Threads : u # t => (u \in In(Making)' <=> u \in In(Making))
        BY <1>1 DEF In
      <3>2. t \notin In(Making)' /\ (t \in In(Making) => at[t].pc # "increment")
        BY <1>1, <1>2 DEF In, Making
      <3>3. In(Making) \subseteq Threads /\ In(Making)' \subseteq Threads
        BY DEF In
      <3>4. \A d : (Private(d)' <=> \E u \in In(Making)' : at'[u].context = d) /\ (Private(d) <=> \E u \in In(Making) : at[u].context = d)
        BY DEF Private, Making
      <3>5. ASSUME NEW d, d # c \/ at[t].pc = "increment"
            PROVE  Private(d)' <=> Private(d)
        BY <1>1, <3>1, <3>2, <3>3, <3>4, <3>5
      <3>6. \A d : Private(d)' \in BOOLEAN /\ Private(d) \in BOOLEAN
        BY DEF Private
      <3> QED
        BY <3>5, <3>6
    <2>2. ASSUME at[t].pc = "unlockAndUse"
          PROVE  Private(c) /\ ~Private(c)'
      <3>1. t \in In(Making)
        BY <2>2 DEF In, Making
      <3>2. \A u \in In(Making) : at[u].context = c => u = t
        BY <3>1 DEF IInv, NewFits
      <3>3. \A u \in Threads : at'[u].pc \in Making => u \in In(Making) /\ at'[u].context = at[u].context /\ u # t
        BY <1>1, <1>2 DEF In
      <3>4. ~Private(c)'
        BY <3>2, <3>3 DEF Private, In, Making
      <3> QED
        BY <3>1, <3>4 DEF Private, Making
    <2> QED
      BY <2>1, <2>2
  <1>19. CounterCountsFileObjects'
    <2>1. \A d \in Ids : d # c => context'[d].counter = Cardinality(OpenedIn(d)') + (IF Private(d)' THEN 1 ELSE 0)
      BY <1>7, <1>16, <1>18 DEF IInv, CounterCountsFileObjects
    <2>2. PICK p, m : p = Private(c) /\ m = Cardinality(OpenedIn(c))
      OBVIOUS
    <2>3. g = m + (IF p THEN 1 ELSE 0) /\ m \in Nat /\ Cardinality(OpenedIn(c)') = m + 1
      BY <1>6, <1>17, <2>2 DEF IInv, CounterCountsFileObjects
    <2>4. context'[c].counter = Cardinality(OpenedIn(c)') + (IF Private(c)' THEN 1 ELSE 0)
      <3>1. CASE at[t].pc = "increment"
        <4>1. Private(c)' = p
          BY <1>18, <2>2, <3>1
        <4> QED
          BY <1>7, <2>3, <3>1, <4>1
      <3>2. CASE at[t].pc = "unlockAndUse"
        <4>1. p /\ ~Private(c)'
          BY <1>18, <2>2, <3>2
        <4> QED
          BY <1>7, <2>3, <3>2, <4>1
      <3> QED
        BY <3>1, <3>2
    <2> QED
      BY <2>1, <2>4 DEF CounterCountsFileObjects
  <1>20. NewFits'
    <2>1. \A u \in In(Making)' : u \in In(Making) /\ at'[u] = at[u] /\ u # t
      BY <1>1, <1>2 DEF In
    <2>2. \A u \in In({"unlockAndUse"})' : at'[u].context \in contextHash'
      BY <2>1 DEF IInv, NewFits, In, Making
    <2>3. \A u, v \in In(Making)' : at'[u].context = at'[v].context => u = v
      BY <2>1 DEF IInv, NewFits
    <2>4. ASSUME NEW u \in In(Making \ {"unlockAndUse"})', NEW d \in Ids, at'[u].context = d
          PROVE  AttachedTo(d)' = {} /\ ThreadsAt(d)' = {u} /\ d \notin contextHash'
      <3>1. u \in In(Making)' /\ at'[u].pc # "unlockAndUse"
        BY <2>4 DEF In
      <3>2. u \in In(Making \ {"unlockAndUse"}) /\ at[u].context = d /\ u # t
        BY <2>1, <2>4, <3>1 DEF In
      <3>3. AttachedTo(d) = {} /\ ThreadsAt(d) = {u} /\ d \notin contextHash
        BY <3>2 DEF IInv, NewFits
      <3>4. d # c
        BY <1>11, <3>2, <3>3
      <3> QED
        BY <1>11, <1>12, <3>3, <3>4
    <2> QED
      BY <2>2, <2>3, <2>4 DEF NewFits
  <1>21. DroppersFit'
    <2>1. PICK D : D = In({"lateBarrier", "drop"})
      OBVIOUS
    <2>2. In({"lateBarrier", "drop"})' = D
      BY <1>1, <1>2, <2>1 DEF In, Unattached, Making
    <2>3. \A u \in D : u \in Threads /\ at'[u].context = at[u].context
      BY <1>1, <1>2, <2>1 DEF In, Unattached, Making
    <2>4. \A u \in D : at[u].context \in contextHash /\ context[at[u].context].counter = 0 /\ at[u].context \in Ids
      BY <2>1 DEF IInv, DroppersFit, Types
    <2>5. \A d \in Ids : OpenedIn(d)' # {} => d \in contextHash'
      BY <1>15, <1>16 DEF IInv, DroppersFit
    <2>6. \A u \in D : at[u].context = c => context' = context
      BY <1>6, <1>7, <2>4
    <2>7. \A u \in D : at'[u].context \in contextHash' /\ context'[at'[u].context].counter = 0
      BY <1>7, <2>3, <2>4, <2>6
    <2>8. ASSUME NEW d \in contextHash
          PROVE  context'[d].counter > 0 \/ \E u \in D : at'[u].context = d
      <3>1. d \in Ids
        BY DEF IInv, Types
      <3>2. context[d].counter > 0 \/ \E u \in D : at[u].context = d
        BY <2>1 DEF IInv, DroppersFit
      <3>3. context[d].counter > 0 => context'[d].counter > 0
        BY <1>6, <1>7, <3>1
      <3> QED
        BY <2>3, <3>2, <3>3
    <2>9. \A u, v \in D : at'[u].context = at'[v].context => u = v
      BY <2>1, <2>3 DEF IInv, DroppersFit
    <2>10. \A d, e \in contextHash : context'[d].key = context'[e].key => d = e
      BY <1>7 DEF IInv, DroppersFit, Types
    <2> QED
      BY <2>2, <2>5, <2>7, <2>8, <2>9, <2>10 DEF DroppersFit
  <1>22. KeysFit'
    <2>1. at[t].file \in Files /\ context[c].key = KeyOf[at[t].file]
      BY <1>2, KeyIs DEF IInv, KeysFit, Key, In
    <2>2. \A d \in Ids : context'[d].ref > 0 => context'[d].key \in Keys
      BY <1>7 DEF IInv, KeysFit
    <2>3. ASSUME NEW j \in Ids, fo'[j].context # None
          PROVE  fo'[j].file \in Files /\ context'[fo'[j].context].key = KeyOf[fo'[j].file]
      <3>1. CASE j = i
        BY <1>3, <1>5, <1>7, <2>1, <3>1
      <3>2. CASE j # i
        <4>1. fo[j].context # None /\ fo'[j] = fo[j] /\ fo[j].context \in Ids
          BY <1>5, <2>3, <3>2 DEF IInv, Types, FoType
        <4>2. PICK d \in Ids : d = fo[j].context
          BY <4>1
        <4>3. fo[j].file \in Files /\ context[d].key = KeyOf[fo[j].file]
          BY <4>1, <4>2 DEF IInv, KeysFit
        <4> QED
          BY <1>7, <4>1, <4>2, <4>3
      <3> QED
        BY <3>1, <3>2
    <2>4. ASSUME NEW u \in In({"increment"} \cup Making)'
          PROVE  context'[at'[u].context].key = KeyOf[at'[u].file]
      <3>1. u \in In({"increment"} \cup Making) /\ at'[u] = at[u]
        BY <1>1, <1>2, <2>4 DEF In, Making
      <3>2. PICK d \in Ids : d = at[u].context
        BY <3>1 DEF IInv, PlacesFit, PlaceFits, In
      <3>3. context[d].key = KeyOf[at[u].file]
        BY <3>1, <3>2 DEF IInv, KeysFit, Key
      <3> QED
        BY <1>7, <3>1, <3>2, <3>3
    <2> QED
      BY <2>2, <2>3, <2>4 DEF KeysFit, Key
  <1>23. StreamsFit'
    BY <1>2, StreamsStay DEF Unattached, Making
  <1>24. FilesFit'
    BY <1>2, <1>5, FilesStay
  <1> QED
    BY <1>1, <1>8, <1>9, <1>10, <1>14, <1>19, <1>20, <1>21, <1>22, <1>23, <1>24 DEF IInv

LEMMA IncrementFits ==
  ASSUME IInv, NEW t \in Threads, Increment(t)
  PROVE  IInv'
  <1>1. PICK c, i : c = at[t].context /\ i = at[t].fo
    OBVIOUS
  <1>2. at[t] \in AtType /\ PlaceFits(at[t]) /\ FoFits(at[t]) /\ at[t].pc = "increment"
    BY DEF IInv, Types, PlacesFit, FosFit, Increment
  <1>3. UNCHANGED <<system, foHash, contextHash, line, holders, streamLine, streamHolders>>
    BY DEF Increment, Hashes, Locks
  <1>4. at[t].op \in {"create", "adopt"} /\ ~at[t].barrier /\ c \in Ids /\ i \in Ids /\ at[t].duplicate = None /\ at[t].pc \in Unattached
    BY <1>1, <1>2 DEF Making, Unattached, Closing, Accounted, PlaceFits
  <1>5. ASSUME context[c].counter > 0, context' = [context EXCEPT ![c].counter = @ + 1], Attach(t, c)
        PROVE  IInv'
    <2>1. PICK r : r = [at[t] EXCEPT !.pc = IF at[t].op = "adopt" THEN "streamLock" ELSE "insertFo", !.context = c]
      OBVIOUS
    <2>2. fo' = [fo EXCEPT ![i].context = c] /\ at' = [at EXCEPT ![t] = r]
      <3>1. at \in [Threads -> AtType]
        BY DEF IInv, Types
      <3> QED
        BY <1>1, <1>5, <2>1, <3>1 DEF Attach
    <2>3. /\ r.pc = IF at[t].op = "adopt" THEN "streamLock" ELSE "insertFo"
          /\ r.context = c /\ r.op = at[t].op /\ r.file = at[t].file /\ r.fo = i
          /\ r.duplicate = at[t].duplicate /\ r.barrier = at[t].barrier /\ r \in AtType
      BY <1>1, <1>2, <1>4, <2>1 DEF AtType, Pcs, Attached
    <2>4. Becomes(t, r)
      BY <1>1, <1>2, <1>4, <2>2, <2>3 DEF Becomes, PlaceFits, Attached, Closing, Accounted, Unattached, Making
    <2>5. LinesFit' /\ line' \in [Keys -> Seq(Threads)]
      BY <1>2, <1>3, <1>4, <2>4, LinesStay DEF Making, IInv, Types
    <2> QED
      BY <1>1, <1>2, <1>3, <1>4, <1>5, <2>2, <2>3, <2>4, <2>5, Attaches
  <1>6. ASSUME context' = Less(context, c), UNCHANGED fo,
               Goes(t, "increment", [at[t] EXCEPT !.pc = NextWithoutContext(t), !.context = None,
                                                  !.failed = (at[t].op = "adopt")])
        PROVE  IInv'
    <2>1. PICK r : r = [at[t] EXCEPT !.pc = NextWithoutContext(t), !.context = None, !.failed = (at[t].op = "adopt")]
      OBVIOUS
    <2>2. r.pc = IF at[t].op = "create" THEN "newContext" ELSE "exit"
      BY <1>2, <2>1 DEF AtType, NextWithoutContext
    <2>3. /\ r.context = None /\ r.op = at[t].op /\ r.file = at[t].file /\ r.fo = at[t].fo
          /\ r.duplicate = at[t].duplicate /\ r.barrier = at[t].barrier /\ r \in AtType
      BY <1>1, <1>2, <1>4, <2>1, <2>2 DEF AtType, Pcs, Unattached
    <2>4. Becomes(t, r)
      BY <1>1, <1>2, <1>4, <1>6, <2>1, <2>2, <2>3 DEF Goes, Becomes, PlaceFits, Attached, Closing, Accounted, Unattached, Making
    <2>5. LinesFit' /\ line' \in [Keys -> Seq(Threads)]
      BY <1>2, <1>3, <1>4, <2>4, LinesStay DEF Making, IInv, Types
    <2> QED
      BY <1>1, <1>2, <1>3, <1>4, <1>6, <2>2, <2>3, <2>4, <2>5, GivesBack
  <1> QED
    BY <1>1, <1>5, <1>6 DEF Increment

LEMMA UnlockHashLineFits ==
  ASSUME IInv, NEW t \in Threads, UnlockHashLine(t)
  PROVE  IInv'
  <1>1. PICK c, i : c = at[t].context /\ i = at[t].fo
    OBVIOUS
  <1>2. /\ at[t] \in AtType /\ PlaceFits(at[t]) /\ FoFits(at[t]) /\ at[t].pc \in Making /\ at[t].pc # "locking"
        /\ at[t].pc # "idle"
    BY DEF IInv, Types, PlacesFit, FosFit, UnlockHashLine, Making
  <1>3. UNCHANGED <<system, foHash, contextHash, streamLine, streamHolders>> /\ HashLine!Release(t, Key(t))
    BY DEF UnlockHashLine, Hashes
  <1>4. at[t].op = "create" /\ ~at[t].barrier /\ c \in Ids /\ i \in Ids /\ at[t].duplicate = None
    BY <1>1, <1>2 DEF Making, Unattached, Closing, Accounted, PlaceFits
  <1>5. ASSUME at[t].pc = "unlockAndUse", context' = context, Attach(t, c)
        PROVE  IInv'
    <2>1. PICK r : r = [at[t] EXCEPT !.pc = IF at[t].op = "adopt" THEN "streamLock" ELSE "insertFo", !.context = c]
      OBVIOUS
    <2>2. fo' = [fo EXCEPT ![i].context = c] /\ at' = [at EXCEPT ![t] = r]
      <3>1. at \in [Threads -> AtType]
        BY DEF IInv, Types
      <3> QED
        BY <1>1, <1>5, <2>1, <3>1 DEF Attach
    <2>3. /\ r.pc = IF at[t].op = "adopt" THEN "streamLock" ELSE "insertFo"
          /\ r.context = c /\ r.op = at[t].op /\ r.file = at[t].file /\ r.fo = i
          /\ r.duplicate = at[t].duplicate /\ r.barrier = at[t].barrier /\ r \in AtType
      BY <1>1, <1>2, <1>4, <2>1 DEF AtType, Pcs, Attached
    <2>4. Becomes(t, r)
      BY <1>1, <1>2, <1>4, <2>2, <2>3 DEF Becomes, PlaceFits, Attached, Closing, Accounted, Unattached, Making
    <2>5. LinesFit' /\ line' \in [Keys -> Seq(Threads)]
      BY <1>2, <1>3, <2>4, LineLeft
    <2> QED
      BY <1>1, <1>2, <1>3, <1>4, <1>5, <2>2, <2>3, <2>4, <2>5, Attaches
  <1>6. ASSUME context' = Less([context EXCEPT ![c].counter = 0], c), UNCHANGED fo, NEW to, NEW failed \in BOOLEAN,
               (at[t].pc = "unlockAndRepeat" /\ to = "find") \/ (at[t].pc = "unlockAndFail" /\ to = "exit"),
               at' = [at EXCEPT ![t] = [at[t] EXCEPT !.pc = to, !.context = None, !.failed = failed]]
        PROVE  IInv'
    <2>1. PICK r : r = [at[t] EXCEPT !.pc = to, !.context = None, !.failed = failed]
      OBVIOUS
    <2>2. r.pc = to
      BY <1>2, <2>1 DEF AtType
    <2>3. /\ r.context = None /\ r.op = at[t].op /\ r.file = at[t].file /\ r.fo = at[t].fo
          /\ r.duplicate = at[t].duplicate /\ r.barrier = at[t].barrier /\ r \in AtType
      BY <1>1, <1>2, <1>4, <1>6, <2>1, <2>2 DEF AtType, Pcs, Unattached
    <2>4. Becomes(t, r)
      BY <1>1, <1>2, <1>4, <1>6, <2>1, <2>2, <2>3 DEF Becomes, PlaceFits, Attached, Closing, Accounted, Unattached, Making
    <2>5. LinesFit' /\ line' \in [Keys -> Seq(Threads)]
      BY <1>2, <1>3, <2>4, LineLeft
    <2>6. at[t].pc \in {"unlockAndRepeat", "unlockAndFail"} /\ at[t].pc # "increment" /\ r.pc \in {"find", "newContext", "exit"}
      BY <1>6, <2>2
    <2> QED
      BY <1>1, <1>2, <1>3, <1>4, <1>6, <2>3, <2>4, <2>5, <2>6, GivesBack
  <1>7. ASSUME context' = Less([context EXCEPT ![c].counter = 0], c), UNCHANGED fo,
               Goes(t, "unlockAndRepeat", [at[t] EXCEPT !.pc = "find", !.context = None])
        PROVE  IInv'
    <2>1. [at[t] EXCEPT !.pc = "find", !.context = None] = [at[t] EXCEPT !.pc = "find", !.context = None, !.failed = at[t].failed]
      BY <1>2 DEF AtType
    <2>2. PICK f \in BOOLEAN : f = at[t].failed
      BY <1>2 DEF AtType
    <2>3. PICK to : to = "find"
      OBVIOUS
    <2>4. at[t].pc = "unlockAndRepeat"
      BY <1>7 DEF Goes
    <2>5. at' = [at EXCEPT ![t] = [at[t] EXCEPT !.pc = to, !.context = None, !.failed = f]]
      BY <1>7, <2>1, <2>2, <2>3 DEF Goes
    <2> QED
      BY <1>6, <1>7, <2>3, <2>4, <2>5
  <1>8. ASSUME context' = Less([context EXCEPT ![c].counter = 0], c), UNCHANGED fo,
               Goes(t, "unlockAndFail", [at[t] EXCEPT !.pc = "exit", !.context = None, !.failed = TRUE])
        PROVE  IInv'
    BY <1>6, <1>8 DEF Goes
  <1> QED
    BY <1>1, <1>5, <1>7, <1>8 DEF UnlockHashLine

LEMMA NewContextFits ==
  ASSUME IInv, NEW t \in Threads, NewContext(t)
  PROVE  IInv'
  <1>1. at[t] \in AtType /\ PlaceFits(at[t]) /\ FoFits(at[t]) /\ at[t].pc = "newContext"
    BY DEF IInv, Types, PlacesFit, FosFit, NewContext
  <1>2. UNCHANGED <<system, fo, foHash, contextHash, streamLine, streamHolders>>
    BY DEF NewContext, Hashes
  <1>3. at[t].op = "create" /\ ~at[t].barrier /\ at[t].duplicate = None /\ at[t].pc \notin {"increment"} \cup Making
    BY <1>1 DEF Making, Unattached, Closing, Accounted, PlaceFits
  <1>4. Key(t) \in Keys /\ at[t].pc # "idle"
    BY <1>1, KeyIs
  <1>5. ASSUME NEW c \in Ids, context[c].ref = 0, HashLine!Ask(t, Key(t)),
               context' = [context EXCEPT ![c] = [ref |-> 1, key |-> Key(t), counter |-> 1]],
               Goes(t, "newContext", [at[t] EXCEPT !.pc = "locking", !.context = c])
        PROVE  IInv'
    <2>1. PICK r : r = [at[t] EXCEPT !.pc = "locking", !.context = c]
      OBVIOUS
    <2>2. /\ r.pc = "locking" /\ r.context = c /\ r.op = at[t].op /\ r.file = at[t].file /\ r.fo = at[t].fo
          /\ r.duplicate = at[t].duplicate /\ r.barrier = at[t].barrier /\ r \in AtType
      BY <1>1, <1>5, <2>1 DEF AtType, Pcs, Unattached, Making
    <2>3. Becomes(t, r)
      BY <1>1, <1>3, <1>5, <2>1, <2>2 DEF Goes, Becomes, PlaceFits, Attached, Closing, Accounted, Unattached, Making
    <2>4. FoFits(r)
      BY <1>1, <2>2 DEF FoFits, Attached, Closing, Accounted, Unattached, Making
    <2>5. at'[t] = r /\ (\A u \in Threads : u # t => at'[u] = at[u]) /\ PlacesFit' /\ at' \in [Threads -> AtType]
      BY <2>3, PlacesStay
    <2>6. /\ context' \in [Ids -> ContextType] /\ \A d \in Ids : d # c => context'[d] = context[d]
          /\ context'[c].ref = 1 /\ context'[c].key = Key(t) /\ context'[c].counter = 1
      <3>1. PICK e : e = [ref |-> 1, key |-> Key(t), counter |-> 1]
        OBVIOUS
      <3>2. e \in ContextType /\ e.ref = 1 /\ e.key = Key(t) /\ e.counter = 1
        BY <1>4, <3>1 DEF ContextType
      <3>3. context' = [context EXCEPT ![c] = e] /\ context \in [Ids -> ContextType]
        BY <1>5, <3>1 DEF IInv, Types
      <3> QED
        BY <3>2, <3>3
    <2>7. LinesFit' /\ line' \in [Keys -> Seq(Threads)]
      BY <1>4, <1>5, <2>2, <2>3, LineJoined DEF Making
    <2>8. Types'
      BY <1>2, <2>5, <2>6, <2>7 DEF IInv, Types
    <2>9. FosFit' /\ FoCounts'
      BY <1>2, <2>2, <2>3, <2>4, FosStay, FoCountsStay DEF SameFos
    <2>10. AttachedTo(c) = {} /\ ThreadsAt(c) = {} /\ c \notin contextHash
      BY <1>5, ContextLives
    <2>11. /\ ThreadsAt(c)' = {t} /\ Cardinality(ThreadsAt(c)') = Cardinality(ThreadsAt(c)) + 1
           /\ \A d : d # c => ThreadsAt(d)' = ThreadsAt(d)
      BY <1>3, <2>2, <2>3, <2>10, ThreadUses DEF Making
    <2>12. \A d : AttachedTo(d)' = AttachedTo(d)
      BY <1>2 DEF AttachedTo
    <2>13. ContextCounts'
      <3>1. PICK x, z : x = 1 /\ z = 0 /\ x \in Int /\ z \in Int
        OBVIOUS
      <3>2. context'[c].ref = context[c].ref + (z + x + z)
        BY <1>5, <2>6, <3>1
      <3>3. /\ Cardinality(AttachedTo(c)') = Cardinality(AttachedTo(c)) + z
            /\ Cardinality(ThreadsAt(c)') = Cardinality(ThreadsAt(c)) + x
        BY <2>11, <2>12, <3>1, Counted1
      <3>4. (IF c \in contextHash' THEN 1 ELSE 0) = (IF c \in contextHash THEN 1 ELSE 0) + z
        BY <1>2, <3>1
      <3>5. \A d \in Ids : d # c => /\ AttachedTo(d)' = AttachedTo(d) /\ ThreadsAt(d)' = ThreadsAt(d)
                                     /\ context'[d].ref = context[d].ref
        BY <2>6, <2>11, <2>12
      <3>6. \A d \in Ids : d # c => (d \in contextHash' <=> d \in contextHash)
        BY <1>2
      <3> QED
        BY <3>1, <3>2, <3>3, <3>4, <3>5, <3>6, ContextCountsNext
    <2>14. \A d \in Ids : OpenedIn(d)' = OpenedIn(d)
      <3>1. In(Accounted)' = In(Accounted) /\ \A u \in In(Accounted) : at'[u].fo = at[u].fo
        BY <1>1, <2>2, <2>5 DEF In, Accounted
      <3>2. \A j \in Ids : Counted(j)' = Counted(j)
        BY <1>2, <3>1 DEF Counted, Accounted
      <3> QED
        BY <1>2, <3>2 DEF OpenedIn
    <2>15. OpenedIn(c) = {} /\ Private(c)' /\ \A d \in Ids : d # c => Private(d)' = Private(d)
      <3>1. OpenedIn(c) = {}
        BY <2>10 DEF OpenedIn, AttachedTo
      <3>2. Private(c)'
        BY <2>2, <2>5 DEF Private, In
      <3>3. \A u \in Threads : u # t => (u \in In(Making)' <=> u \in In(Making))
        BY <2>5 DEF In
      <3>4. In(Making) \subseteq Threads /\ In(Making)' \subseteq Threads /\ t \notin In(Making)
        BY <1>3 DEF In
      <3>5. \A d : (Private(d)' <=> \E u \in In(Making)' : at'[u].context = d) /\ (Private(d) <=> \E u \in In(Making) : at[u].context = d)
        BY DEF Private, Making
      <3>6. ASSUME NEW d \in Ids, d # c
            PROVE  Private(d)' <=> Private(d)
        BY <2>2, <2>5, <3>3, <3>4, <3>5, <3>6
      <3>7. \A d : Private(d)' \in BOOLEAN /\ Private(d) \in BOOLEAN
        BY DEF Private
      <3> QED
        BY <3>1, <3>2, <3>6, <3>7
    <2>16. CounterCountsFileObjects'
      <3>1. \A d \in Ids : d # c => context'[d].counter = Cardinality(OpenedIn(d)') + (IF Private(d)' THEN 1 ELSE 0)
        BY <2>6, <2>14, <2>15 DEF IInv, CounterCountsFileObjects
      <3>2. Cardinality(OpenedIn(c)') = 0
        BY <2>14, <2>15, FS_EmptySet
      <3>3. context'[c].counter = Cardinality(OpenedIn(c)') + (IF Private(c)' THEN 1 ELSE 0)
        BY <2>6, <2>15, <3>2
      <3> QED
        BY <3>1, <3>3 DEF CounterCountsFileObjects
    <2>17. NewFits'
      <3>1. \A u \in In(Making)' : u # t => u \in In(Making) /\ at'[u] = at[u]
        BY <2>5 DEF In
      <3>2. \A u \in In(Making) : at[u].context # c
        BY <2>10 DEF In, ThreadsAt
      <3>3. \A u \in In({"unlockAndUse"})' : at'[u].context \in contextHash'
        BY <1>2, <2>2, <2>5 DEF IInv, NewFits, In
      <3>4. \A u, v \in In(Making)' : at'[u].context = at'[v].context => u = v
        BY <2>2, <2>5, <3>1, <3>2 DEF IInv, NewFits
      <3>5. ASSUME NEW u \in In(Making \ {"unlockAndUse"})', NEW d \in Ids, at'[u].context = d
            PROVE  AttachedTo(d)' = {} /\ ThreadsAt(d)' = {u} /\ d \notin contextHash'
        <4>1. u \in In(Making)' /\ at'[u].pc # "unlockAndUse"
          BY <3>5 DEF In
        <4>2. CASE u = t
          BY <1>2, <2>2, <2>5, <2>10, <2>11, <2>12, <3>5, <4>2
        <4>3. CASE u # t
          <5>1. u \in In(Making \ {"unlockAndUse"}) /\ at[u].context = d /\ d # c
            BY <3>1, <3>2, <3>5, <4>1, <4>3 DEF In
          <5>2. AttachedTo(d) = {} /\ ThreadsAt(d) = {u} /\ d \notin contextHash
            BY <5>1 DEF IInv, NewFits
          <5> QED
            BY <1>2, <2>11, <2>12, <5>1, <5>2
        <4> QED
          BY <4>2, <4>3
      <3> QED
        BY <3>3, <3>4, <3>5 DEF NewFits
    <2>18. DroppersFit'
      <3>1. SameDrop(t, r)
        BY <1>1, <2>2 DEF SameDrop
      <3>2. \A d \in contextHash : d \in Ids /\ d # c
        BY <2>10 DEF IInv, Types
      <3>3. \A d \in contextHash : context'[d].counter = context[d].counter /\ context'[d].key = context[d].key
        BY <2>6, <3>2
      <3> QED
        BY <1>2, <2>3, <2>14, <3>1, <3>3, DroppersKept
    <2>19. KeysFit'
      <3>1. \A d \in Ids : context'[d].ref > 0 => context'[d].key \in Keys
        BY <1>4, <2>6 DEF IInv, KeysFit
      <3>2. ASSUME NEW j \in Ids, fo'[j].context # None
            PROVE  fo'[j].file \in Files /\ context'[fo'[j].context].key = KeyOf[fo'[j].file]
        <4>1. fo[j].context # None /\ fo'[j] = fo[j] /\ fo[j].context \in Ids
          BY <1>2, <3>2 DEF IInv, Types, FoType
        <4>2. PICK d \in Ids : d = fo[j].context
          BY <4>1
        <4>3. d # c
          BY <2>10, <4>2 DEF AttachedTo
        <4>4. fo[j].file \in Files /\ context[d].key = KeyOf[fo[j].file]
          BY <4>1, <4>2 DEF IInv, KeysFit
        <4> QED
          BY <2>6, <4>1, <4>2, <4>3, <4>4
      <3>3. ASSUME NEW u \in In({"increment"} \cup Making)'
            PROVE  context'[at'[u].context].key = KeyOf[at'[u].file]
        <4>1. CASE u = t
          BY <2>2, <2>5, <2>6, <4>1 DEF Key
        <4>2. CASE u # t
          <5>1. u \in In({"increment"} \cup Making) /\ at'[u] = at[u]
            BY <2>5, <3>3, <4>2 DEF In
          <5>2. PICK d \in Ids : d = at[u].context
            BY <5>1 DEF IInv, PlacesFit, PlaceFits, In
          <5>3. context[d].key = KeyOf[at[u].file] /\ d # c
            BY <2>10, <5>1, <5>2 DEF IInv, KeysFit, Key, ThreadsAt
          <5> QED
            BY <2>6, <5>1, <5>2, <5>3
        <4> QED
          BY <4>1, <4>2
      <3> QED
        BY <3>1, <3>2, <3>3 DEF KeysFit, Key
    <2>20. StreamsFit'
      BY <1>1, <1>2, <2>2, <2>3, StreamsStay
    <2>21. FilesFit'
      BY <1>1, <1>2, <2>2, <2>3, FilesStay DEF Unattached
    <2> QED
      BY <2>5, <2>7, <2>8, <2>9, <2>13, <2>16, <2>17, <2>18, <2>19, <2>20, <2>21 DEF IInv
  <1>6. ASSUME Goes(t, "newContext", [at[t] EXCEPT !.pc = "exit", !.failed = TRUE]), UNCHANGED <<context, line, holders>>
        PROVE  IInv'
    <2>1. PICK r : r = [at[t] EXCEPT !.pc = "exit", !.failed = TRUE]
      OBVIOUS
    <2>2. r.pc = "exit" /\ SameObjects(t, r) /\ r.barrier = at[t].barrier /\ r \in AtType
      BY <1>1, <2>1 DEF AtType, Pcs, SameObjects
    <2>3. Becomes(t, r)
      BY <1>1, <1>3, <1>6, <2>1, <2>2 DEF Goes, Becomes, PlaceFits, SameObjects, Attached, Closing, Accounted, Unattached, Making
    <2>4. FoFits(r)
      BY <1>1, <2>2 DEF FoFits, SameObjects, Attached, Closing, Accounted, Unattached, Making
    <2>5. SameUse(t, r) /\ SameCount(t, r) /\ SameDrop(t, r)
      BY <1>1, <2>2 DEF SameUse, SameCount, SameDrop, Accounted, Making
    <2>6. LinesFit' /\ StreamsFit'
      BY <1>1, <1>2, <1>3, <1>6, <2>2, <2>3, LinesStay, StreamsStay
    <2>7. r.pc \notin Making \cup Unattached \cup {"insertFo"}
      BY <2>2 DEF Making, Unattached
    <2> QED
      BY <1>2, <1>6, <2>2, <2>3, <2>4, <2>5, <2>6, <2>7, Moves DEF SameFos, IInv, Types
  <1>7. ASSUME FreeContexts # {}
        PROVE  (CHOOSE c \in FreeContexts : TRUE) \in Ids /\ context[CHOOSE c \in FreeContexts : TRUE].ref = 0
    BY <1>7 DEF FreeContexts
  <1> QED
    BY <1>5, <1>6, <1>7 DEF NewContext

\* The new context is in the hash, the first one with its key.
LEMMA InsertContextFits ==
  ASSUME IInv, NEW t \in Threads, InsertContext(t)
  PROVE  IInv'
  <1>1. PICK c : c = at[t].context
    OBVIOUS
  <1>2. at[t] \in AtType /\ PlaceFits(at[t]) /\ FoFits(at[t]) /\ at[t].pc = "locking"
    BY DEF IInv, Types, PlacesFit, FosFit, InsertContext
  <1>3. UNCHANGED <<system, fo, foHash, line, holders, streamLine, streamHolders>>
    BY DEF InsertContext, Locks
  <1>4. at[t].op = "create" /\ ~at[t].barrier /\ at[t].duplicate = None /\ c \in Ids
    BY <1>1, <1>2 DEF Making, Unattached, Closing, Accounted, PlaceFits
  <1>5. /\ t \in In(Making \ {"unlockAndUse"}) /\ t \in In(Making) /\ AttachedTo(c) = {} /\ ThreadsAt(c) = {t}
        /\ c \notin contextHash /\ \A u \in In(Making) : at[u].context = c => u = t
    <2>1. t \in In(Making \ {"unlockAndUse"}) /\ t \in In(Making)
      BY <1>2 DEF In, Making
    <2> QED
      BY <1>1, <1>4, <2>1 DEF IInv, NewFits
  <1>6. ASSUME NEW to \in {"unlockAndRepeat", "unlockAndFail"}, Go(t, "locking", to), UNCHANGED <<contextHash, context>>
        PROVE  IInv'
    <2>1. PICK r : r = [at[t] EXCEPT !.pc = to]
      OBVIOUS
    <2>2. r.pc = to /\ SameObjects(t, r) /\ r.barrier = at[t].barrier /\ r \in AtType
      BY <1>2, <2>1 DEF AtType, Pcs, Unattached, Making, SameObjects
    <2>3. at' = [at EXCEPT ![t] = r]
      BY <1>6, <2>1 DEF Go
    <2>4. Becomes(t, r)
      BY <1>2, <1>4, <2>2, <2>3 DEF Becomes, PlaceFits, SameObjects, Attached, Closing, Accounted, Unattached, Making
    <2>5. FoFits(r)
      BY <1>2, <2>2 DEF FoFits, SameObjects, Attached, Closing, Accounted, Unattached, Making
    <2>6. SameUse(t, r) /\ SameCount(t, r) /\ SameDrop(t, r)
      BY <1>2, <2>2 DEF SameUse, SameCount, SameDrop, SameObjects, Accounted, Making
    <2>7. LinesFit' /\ StreamsFit'
      BY <1>2, <1>3, <1>4, <2>2, <2>4, LinesStay, StreamsStay DEF Making, SameObjects
    <2> QED
      BY <1>2, <1>3, <1>6, <2>2, <2>4, <2>5, <2>6, <2>7, Moves DEF SameFos, IInv, Types, Unattached, Making
  <1>7. ASSUME FindContext(Key(t)) = None, contextHash' = contextHash \cup {c},
               context' = [context EXCEPT ![c].ref = @ + 1], Go(t, "locking", "unlockAndUse")
        PROVE  IInv'
    <2>1. PICK r : r = [at[t] EXCEPT !.pc = "unlockAndUse"]
      OBVIOUS
    <2>2. r.pc = "unlockAndUse" /\ SameObjects(t, r) /\ r.context = c /\ r.barrier = at[t].barrier /\ r \in AtType
      BY <1>1, <1>2, <2>1 DEF AtType, Pcs, Unattached, Making, SameObjects
    <2>3. at' = [at EXCEPT ![t] = r]
      BY <1>7, <2>1 DEF Go
    <2>4. Becomes(t, r)
      BY <1>2, <1>4, <2>2, <2>3 DEF Becomes, PlaceFits, SameObjects, Attached, Closing, Accounted, Unattached, Making
    <2>5. FoFits(r)
      BY <1>2, <2>2 DEF FoFits, SameObjects, Attached, Closing, Accounted, Unattached, Making
    <2>6. at'[t] = r /\ (\A u \in Threads : u # t => at'[u] = at[u]) /\ PlacesFit' /\ at' \in [Threads -> AtType]
      BY <2>4, PlacesStay
    <2>7. SameUse(t, r) /\ SameCount(t, r) /\ SameDrop(t, r)
      BY <1>2, <2>2 DEF SameUse, SameCount, SameDrop, SameObjects, Accounted, Making
    <2>8. LinesFit' /\ StreamsFit'
      BY <1>2, <1>3, <1>4, <2>2, <2>4, LinesStay, StreamsStay DEF Making, SameObjects
    <2>9. /\ context' \in [Ids -> ContextType] /\ context'[c].ref = context[c].ref + 1 /\ context[c].ref \in Nat
          /\ \A d \in Ids : d # c => context'[d] = context[d]
          /\ \A d \in Ids : context'[d].key = context[d].key /\ context'[d].counter = context[d].counter
      <3>1. PICK e : e = [context[c] EXCEPT !.ref = @ + 1]
        OBVIOUS
      <3>2. context[c] \in ContextType /\ context \in [Ids -> ContextType]
        BY <1>4 DEF IInv, Types
      <3>3. e \in ContextType /\ e.ref = context[c].ref + 1 /\ e.key = context[c].key /\ e.counter = context[c].counter
        BY <3>1, <3>2 DEF ContextType
      <3>4. context' = [context EXCEPT ![c] = e] /\ context[c].ref \in Nat
        BY <1>7, <3>1, <3>2 DEF ContextType
      <3> QED
        BY <1>4, <3>2, <3>3, <3>4
    <2>10. Types'
      BY <1>3, <1>4, <1>7, <2>6, <2>9 DEF IInv, Types
    <2>11. FosFit' /\ FoCounts'
      BY <1>3, <2>2, <2>4, <2>5, FosStay, FoCountsStay DEF SameFos, SameObjects
    <2>12. \A d : ThreadsAt(d)' = ThreadsAt(d) /\ AttachedTo(d)' = AttachedTo(d)
      BY <1>3, <2>4, <2>7, UsesStay
    <2>13. ContextCounts'
      <3>1. PICK x, z : x = 1 /\ z = 0 /\ x \in Int /\ z \in Int
        OBVIOUS
      <3>2. context'[c].ref = context[c].ref + (z + z + x)
        BY <2>9, <3>1
      <3>3. /\ Cardinality(AttachedTo(c)') = Cardinality(AttachedTo(c)) + z
            /\ Cardinality(ThreadsAt(c)') = Cardinality(ThreadsAt(c)) + z
        BY <1>4, <2>12, <3>1, Counted1
      <3>4. (IF c \in contextHash' THEN 1 ELSE 0) = (IF c \in contextHash THEN 1 ELSE 0) + x
        BY <1>5, <1>7, <3>1
      <3>5. \A d \in Ids : d # c => /\ AttachedTo(d)' = AttachedTo(d) /\ ThreadsAt(d)' = ThreadsAt(d)
                                     /\ context'[d].ref = context[d].ref
        BY <2>9, <2>12
      <3>6. \A d \in Ids : d # c => (d \in contextHash' <=> d \in contextHash)
        BY <1>7
      <3> QED
        BY <1>4, <3>1, <3>2, <3>3, <3>4, <3>5, <3>6, ContextCountsNext
    <2>14. CounterCountsFileObjects'
      BY <1>3, <2>4, <2>7, <2>9, <2>10, <2>11, CountersStay
    <2>15. \A d \in Ids : OpenedIn(d)' = OpenedIn(d)
      BY <1>3, <2>4, <2>7, <2>10, <2>11, OpenedStays
    <2>16. NewFits'
      <3>1. \A u \in In(Making)' : u \in In(Making) /\ at'[u].context = at[u].context /\ (u # t => at'[u] = at[u])
        BY <1>1, <1>5, <2>2, <2>6 DEF In
      <3>2. \A u \in In({"unlockAndUse"})' : at'[u].context \in contextHash'
        BY <1>7, <2>2, <2>6 DEF IInv, NewFits, In
      <3>3. \A u, v \in In(Making)' : at'[u].context = at'[v].context => u = v
        BY <3>1 DEF IInv, NewFits
      <3>4. ASSUME NEW u \in In(Making \ {"unlockAndUse"})', NEW d \in Ids, at'[u].context = d
            PROVE  AttachedTo(d)' = {} /\ ThreadsAt(d)' = {u} /\ d \notin contextHash'
        <4>1. u \in In(Making)' /\ at'[u].pc # "unlockAndUse" /\ u # t
          BY <2>2, <2>6, <3>4 DEF In
        <4>2. u \in In(Making \ {"unlockAndUse"}) /\ u \in In(Making) /\ at[u].context = d
          BY <3>1, <3>4, <4>1 DEF In
        <4>3. AttachedTo(d) = {} /\ ThreadsAt(d) = {u} /\ d \notin contextHash /\ d # c
          BY <1>5, <4>1, <4>2 DEF IInv, NewFits
        <4> QED
          BY <1>7, <2>12, <4>3
      <3> QED
        BY <3>2, <3>3, <3>4 DEF NewFits
    <2>17. context[c].counter > 0 /\ context[c].key = Key(t)
      <3>1. Private(c)
        BY <1>1, <1>5 DEF Private, Making
      <3>2. context[c].counter > 0
        BY <1>4, <3>1, Opened
      <3> QED
        BY <1>1, <1>2, <3>2 DEF IInv, KeysFit, In, Making
    <2>18. DroppersFit'
      <3>1. PICK D : D = In({"lateBarrier", "drop"})
        OBVIOUS
      <3>2. In({"lateBarrier", "drop"})' = D
        BY <1>2, <2>2, <2>6, <3>1 DEF In
      <3>3. \A u \in D : u \in Threads /\ at'[u] = at[u]
        BY <1>2, <2>6, <3>1 DEF In
      <3>4. \A d \in Ids : OpenedIn(d)' # {} => d \in contextHash'
        BY <1>7, <2>15 DEF IInv, DroppersFit
      <3>5. \A u \in D : at[u].context \in contextHash /\ context[at[u].context].counter = 0 /\ at[u].context \in Ids
        BY <3>1 DEF IInv, DroppersFit, Types
      <3>6. \A u \in D : at'[u].context \in contextHash' /\ context'[at'[u].context].counter = 0
        BY <1>7, <2>9, <3>3, <3>5
      <3>7. \A d \in contextHash' : context'[d].counter > 0 \/ \E u \in D : at'[u].context = d
        <4>1. \A d \in contextHash : d \in Ids /\ (context[d].counter > 0 \/ \E u \in D : at[u].context = d)
          BY <3>1 DEF IInv, DroppersFit, Types
        <4> QED
          BY <1>4, <1>7, <2>9, <2>17, <3>3, <4>1
      <3>8. \A u, v \in D : at'[u].context = at'[v].context => u = v
        BY <3>1, <3>3 DEF IInv, DroppersFit
      <3>9. ASSUME NEW d \in contextHash', NEW e \in contextHash', context'[d].key = context'[e].key
            PROVE  d = e
        <4>1. d \in Ids /\ e \in Ids
          BY <1>4, <1>7 DEF IInv, Types
        <4>2. context[d].key = context[e].key
          BY <2>9, <3>9, <4>1
        <4>3. \A g \in contextHash : context[g].key # context[c].key
          BY <1>7, <2>17, FoundContext
        <4> QED
          BY <1>7, <4>2, <4>3 DEF IInv, DroppersFit
      <3> QED
        BY <3>2, <3>4, <3>6, <3>7, <3>8, <3>9 DEF DroppersFit
    <2>19. KeysFit'
      <3>1. \A d \in Ids : AttachedTo(d) # {} \/ ThreadsAt(d) # {} => context'[d].key = context[d].key
        BY <2>9
      <3>2. \A d \in Ids : context'[d].ref > 0 => context'[d].key \in Keys
        <4>1. context[c].ref > 0
          BY <1>4, <1>5, ContextLives
        <4> QED
          BY <2>9, <4>1 DEF IInv, KeysFit
      <3> QED
        BY <1>3, <2>4, <2>7, <3>1, <3>2, KeysStay
    <2>20. FilesFit'
      BY <1>2, <1>3, <2>2, <2>4, FilesStay DEF SameObjects, Unattached, Making
    <2> QED
      BY <2>6, <2>8, <2>10, <2>11, <2>13, <2>14, <2>16, <2>18, <2>19, <2>20 DEF IInv
  <1> QED
    BY <1>1, <1>6, <1>7 DEF InsertContext

-----------------------------------------------------------------------------
(* The close accounts for the file object and drops the context               *)

LEMMA MarkClosedFits ==
  ASSUME IInv, NEW t \in Threads, MarkClosed(t)
  PROVE  IInv'
  <1>1. PICK r, i : r = [at[t] EXCEPT !.pc = "counter"] /\ i = at[t].fo
    OBVIOUS
  <1>2. /\ at[t].pc = "close" /\ at' = [at EXCEPT ![t] = r] /\ fo' = [fo EXCEPT ![i].open = FALSE]
        /\ UNCHANGED <<system, context, foHash, contextHash, line, holders, streamLine, streamHolders>>
    BY <1>1 DEF MarkClosed, Go, Hashes, Locks
  <1>3. at[t] \in AtType /\ PlaceFits(at[t]) /\ FoFits(at[t]) /\ i \in Ids /\ ~at[t].barrier
    BY <1>1, <1>2 DEF IInv, Types, PlacesFit, FosFit, PlaceFits, AtType
  <1>4. r.pc = "counter" /\ SameObjects(t, r) /\ r.barrier = at[t].barrier /\ r \in AtType
    BY <1>1, <1>3 DEF AtType, Pcs, Attached, Closing, SameObjects
  <1>5. Becomes(t, r)
    BY <1>2, <1>3, <1>4 DEF Becomes, PlaceFits, SameObjects, Attached, Closing, Accounted, Unattached, Making
  <1>6. FoFits(r)
    BY <1>2, <1>3, <1>4 DEF FoFits, SameObjects, Attached, Closing, Accounted, Unattached, Making
  <1>7. SameUse(t, r) /\ SameCount(t, r) /\ SameDrop(t, r)
    BY <1>2, <1>4 DEF SameUse, SameCount, SameDrop, Accounted, Making
  <1>8. LinesFit' /\ StreamsFit'
    BY <1>2, <1>3, <1>4, <1>5, LinesStay, StreamsStay DEF Making
  <1>9. SameFos /\ fo' \in [Ids -> FoType]
    <2>1. PICK e : e = [fo[i] EXCEPT !.open = FALSE]
      OBVIOUS
    <2>2. fo[i] \in FoType /\ fo \in [Ids -> FoType]
      BY <1>3 DEF IInv, Types
    <2>3. e \in FoType /\ e.ref = fo[i].ref /\ e.file = fo[i].file /\ e.context = fo[i].context
      BY <2>1, <2>2 DEF FoType
    <2>4. fo' = [fo EXCEPT ![i] = e]
      BY <1>2, <2>1
    <2> QED
      BY <1>2, <2>2, <2>3, <2>4 DEF SameFos
  <1>10. r.pc \notin Making \cup Unattached \cup {"insertFo"}
    BY <1>4 DEF Making, Unattached
  <1> QED
    BY <1>2, <1>4, <1>5, <1>6, <1>7, <1>8, <1>9, <1>10, Moves DEF IInv, Types

LEMMA DecrementFits ==
  ASSUME IInv, NEW t \in Threads, Decrement(t)
  PROVE  IInv'
  <1>1. PICK c, i : c = at[t].context /\ i = at[t].fo
    OBVIOUS
  <1>2. PICK r : r = [at[t] EXCEPT !.pc = IF context[c].counter # 1 THEN "removeBarrier"
                                          ELSE IF at[t].barrier THEN "drop" ELSE "lateBarrier"]
    OBVIOUS
  <1>3. /\ at[t].pc = "decrement" /\ at' = [at EXCEPT ![t] = r] /\ context' = [context EXCEPT ![c].counter = @ - 1]
        /\ UNCHANGED <<system, fo, foHash, contextHash, line, holders, streamLine, streamHolders>>
    BY <1>1, <1>2 DEF Decrement, Go, Hashes, Locks
  <1>4. at[t] \in AtType /\ PlaceFits(at[t]) /\ FoFits(at[t]) /\ at[t].pc # "idle"
    BY <1>3 DEF IInv, Types, PlacesFit, FosFit
  <1>5. i \in Ids /\ i # None /\ c \in Ids /\ fo[i].context = c /\ i \notin foHash
    BY <1>1, <1>3, <1>4, NoneAssumption DEF PlaceFits, FoFits, Attached, Closing
  <1>6. /\ r.pc = IF context[c].counter # 1 THEN "removeBarrier" ELSE IF at[t].barrier THEN "drop" ELSE "lateBarrier"
        /\ SameObjects(t, r) /\ r.fo = i /\ r.context = c /\ r.barrier = at[t].barrier /\ r \in AtType
    BY <1>1, <1>2, <1>4 DEF AtType, Pcs, Attached, Closing, Accounted, SameObjects
  <1>7. r.pc \in {"removeBarrier", "drop", "lateBarrier"} /\ (r.pc = "drop" => r.barrier) /\ (r.pc = "lateBarrier" => ~r.barrier)
    BY <1>6
  <1>8. Becomes(t, r)
    BY <1>3, <1>4, <1>6, <1>7 DEF Becomes, PlaceFits, SameObjects, Attached, Closing, Accounted, Unattached, Making
  <1>9. FoFits(r)
    BY <1>3, <1>4, <1>6, <1>7 DEF FoFits, SameObjects, Attached, Closing, Accounted, Unattached, Making
  <1>10. at'[t] = r /\ (\A u \in Threads : u # t => at'[u] = at[u]) /\ PlacesFit' /\ at' \in [Threads -> AtType]
    BY <1>8, PlacesStay
  <1>11. \A u \in Threads : u # t => at[u].fo # i
    BY <1>1, <1>5, OwnFo
  <1>12. i \in OpenedIn(c) /\ c \in contextHash
    <2>1. \A u \in In(Accounted) : at[u].fo # i
      BY <1>3, <1>11 DEF In, Accounted
    <2>2. i \in OpenedIn(c)
      BY <1>5, <2>1, Opened
    <2> QED
      BY <1>5, <2>2 DEF IInv, DroppersFit
  <1>13. PICK g : g = context[c].counter
    OBVIOUS
  <1>14. g \in Nat /\ g > 0 /\ (g = 1 => OpenedIn(c) = {i})
    BY <1>5, <1>12, <1>13, Opened
  <1>15. /\ context' \in [Ids -> ContextType] /\ context'[c].counter = g - 1 /\ \A d \in Ids : d # c => context'[d] = context[d]
         /\ \A d \in Ids : context'[d].ref = context[d].ref /\ context'[d].key = context[d].key
    <2>1. PICK e : e = [context[c] EXCEPT !.counter = g - 1]
      OBVIOUS
    <2>2. context[c] \in ContextType /\ context \in [Ids -> ContextType] /\ g - 1 \in Nat
      BY <1>5, <1>14 DEF IInv, Types
    <2>3. e \in ContextType /\ e.ref = context[c].ref /\ e.key = context[c].key /\ e.counter = g - 1
      BY <2>1, <2>2 DEF ContextType
    <2>4. context' = [context EXCEPT ![c] = e]
      BY <1>3, <1>13, <2>1
    <2> QED
      BY <1>5, <2>2, <2>3, <2>4
  <1>16. Types'
    BY <1>3, <1>10, <1>15 DEF IInv, Types
  <1>17. SameUse(t, r) /\ r.pc \notin {"increment"} \cup Making \cup Unattached \cup {"insertFo", "unlockStream"} /\ r.pc \in Accounted
    BY <1>3, <1>7 DEF SameUse, Accounted, Making, Unattached
  <1>18. FosFit' /\ FoCounts' /\ ContextCounts'
    BY <1>3, <1>6, <1>8, <1>9, <1>15, <1>17, FosStay, FoCountsStay, ContextCountsStay DEF SameFos, SameObjects
  <1>19. NewFits'
    BY <1>3, <1>8, <1>17, NewStays
  <1>20. KeysFit'
    BY <1>3, <1>8, <1>15, <1>17, KeysStay DEF IInv, KeysFit
  <1>21. LinesFit' /\ StreamsFit'
    BY <1>3, <1>6, <1>8, <1>17, LinesStay, StreamsStay DEF Making, SameObjects
  <1>22. FilesFit'
    BY <1>3, <1>6, <1>8, <1>17, FilesStay DEF SameObjects
  <1>23. OpenedIn(c)' = OpenedIn(c) \ {i} /\ \A d \in Ids : d # c => OpenedIn(d)' = OpenedIn(d)
    <2>1. In(Accounted)' = In(Accounted) \cup {t}
      BY <1>10, <1>17 DEF In
    <2>2. t \notin In(Accounted) /\ \A u \in In(Accounted) : at'[u].fo = at[u].fo
      BY <1>3, <1>10 DEF In, Accounted
    <2>3. \A j \in Ids : j # i => Counted(j)' = Counted(j)
      BY <1>3, <1>6, <1>10, <2>1, <2>2 DEF Counted, Accounted
    <2>4. ~Counted(i)'
      BY <1>6, <1>10, <2>1 DEF Counted, Accounted
    <2> QED
      BY <1>3, <1>5, <2>3, <2>4 DEF OpenedIn
  <1>24. \A d : Private(d)' = Private(d)
    <2>1. In(Making)' = In(Making) /\ t \notin In(Making)
      BY <1>3, <1>10, <1>17 DEF In, Making
    <2>2. \A u \in In(Making) : at'[u] = at[u]
      BY <1>10, <2>1 DEF In
    <2> QED
      BY <2>1, <2>2 DEF Private, Making
  <1>25. Cardinality(OpenedIn(c)) \in Nat /\ Cardinality(OpenedIn(c)') = Cardinality(OpenedIn(c)) - 1
    <2>1. PICK S : S = OpenedIn(c)
      OBVIOUS
    <2>2. IsFiniteSet(S)
      BY <2>1, FiniteParts DEF OpenedIn
    <2>3. Cardinality(S) \in Nat /\ Cardinality(S \ {i}) = Cardinality(S) - 1
      BY <1>12, <2>1, <2>2, Sizes, Takes
    <2> QED
      BY <1>23, <2>1, <2>3
  <1>26. CounterCountsFileObjects'
    <2>1. \A d \in Ids : d # c => context'[d].counter = Cardinality(OpenedIn(d)') + (IF Private(d)' THEN 1 ELSE 0)
      BY <1>15, <1>23, <1>24 DEF IInv, CounterCountsFileObjects
    <2>2. PICK p, m : p = Private(c) /\ m = Cardinality(OpenedIn(c))
      OBVIOUS
    <2>3. g = m + (IF p THEN 1 ELSE 0) /\ m \in Nat /\ Cardinality(OpenedIn(c)') = m - 1 /\ Private(c)' = p
      BY <1>5, <1>13, <1>24, <1>25, <2>2 DEF IInv, CounterCountsFileObjects
    <2>4. context'[c].counter = Cardinality(OpenedIn(c)') + (IF Private(c)' THEN 1 ELSE 0)
      BY <1>15, <2>3
    <2> QED
      BY <2>1, <2>4 DEF CounterCountsFileObjects
  <1>27. DroppersFit'
    <2>1. PICK D, E : D = In({"lateBarrier", "drop"}) /\ E = In({"lateBarrier", "drop"})'
      OBVIOUS
    <2>2. E = IF g = 1 THEN D \cup {t} ELSE D
      BY <1>3, <1>6, <1>10, <1>13, <2>1 DEF In
    <2>3. t \notin D /\ \A u \in D : u \in Threads /\ at'[u] = at[u]
      BY <1>3, <1>10, <2>1 DEF In
    <2>4. \A u \in D : at[u].context \in contextHash /\ context[at[u].context].counter = 0 /\ at[u].context \in Ids
      BY <2>1 DEF IInv, DroppersFit, Types
    <2>5. \A u \in D : at[u].context # c
      BY <1>13, <1>14, <2>4
    <2>6. \A d \in Ids : OpenedIn(d)' # {} => d \in contextHash'
      BY <1>3, <1>12, <1>23 DEF IInv, DroppersFit
    <2>7. ASSUME NEW d \in contextHash
          PROVE  context'[d].counter > 0 \/ \E u \in E : at'[u].context = d
      <3>1. d \in Ids /\ (context[d].counter > 0 \/ \E u \in D : at[u].context = d)
        BY <2>1 DEF IInv, DroppersFit, Types
      <3>2. CASE d = c
        <4>1. g # 1 => g - 1 > 0
          BY <1>14
        <4> QED
          BY <1>6, <1>10, <1>15, <2>2, <3>2, <4>1
      <3>3. CASE d # c
        BY <1>15, <2>2, <2>3, <3>1, <3>3
      <3> QED
        BY <3>2, <3>3
    <2>8. \A u \in E : at'[u].context \in contextHash' /\ context'[at'[u].context].counter = 0
      <3>1. \A u \in D : at'[u].context \in contextHash' /\ context'[at'[u].context].counter = 0
        BY <1>3, <1>15, <2>3, <2>4, <2>5
      <3>2. g = 1 => at'[t].context \in contextHash' /\ context'[at'[t].context].counter = 0
        BY <1>3, <1>6, <1>10, <1>12, <1>15
      <3> QED
        BY <2>2, <3>1, <3>2
    <2>9. \A u, v \in E : at'[u].context = at'[v].context => u = v
      <3>1. \A u, v \in D : at[u].context = at[v].context => u = v
        BY <2>1 DEF IInv, DroppersFit
      <3> QED
        BY <1>6, <1>10, <2>2, <2>3, <2>5, <3>1
    <2>10. \A d, e \in contextHash : context'[d].key = context'[e].key => d = e
      BY <1>15 DEF IInv, DroppersFit, Types
    <2> QED
      BY <1>3, <2>1, <2>6, <2>7, <2>8, <2>9, <2>10 DEF DroppersFit
  <1> QED
    BY <1>10, <1>16, <1>18, <1>19, <1>20, <1>21, <1>22, <1>26, <1>27 DEF IInv

\* What is dropped is the context of the thread, as no other has its key.
LEMMA DropsItsOwn ==
  ASSUME IInv, NEW t \in Threads, at[t].pc \in {"lateBarrier", "drop"}
  PROVE  /\ at[t].context \in contextHash /\ at[t].context \in Ids
         /\ context[at[t].context].key = Key(t) /\ FindContext(Key(t)) = at[t].context
  <1>1. PICK c, i : c = at[t].context /\ i = at[t].fo
    OBVIOUS
  <1>2. c \in contextHash /\ c \in Ids
    BY <1>1 DEF IInv, DroppersFit, Types, In
  <1>3. i \in Ids /\ fo[i].context = c /\ fo[i].file = at[t].file /\ c # None
    BY <1>1, <1>2, NoneAssumption DEF IInv, PlacesFit, PlaceFits, FosFit, FoFits, Attached, Closing, Accounted
  <1>4. context[c].key = Key(t)
    BY <1>3 DEF IInv, KeysFit, Key
  <1>5. PICK d : d = FindContext(Key(t))
    OBVIOUS
  <1>6. d \in contextHash /\ context[d].key = Key(t)
    BY <1>2, <1>4, <1>5, FoundContext
  <1> QED
    BY <1>1, <1>2, <1>4, <1>5, <1>6 DEF IInv, DroppersFit

LEMMA DropContextFits ==
  ASSUME IInv, NEW t \in Threads, DropContext(t)
  PROVE  IInv'
  <1>1. PICK c, i, r : c = at[t].context /\ i = at[t].fo /\ r = [at[t] EXCEPT !.pc = "removeBarrier"]
    OBVIOUS
  <1>2. /\ at[t].pc = "drop" /\ at' = [at EXCEPT ![t] = r]
        /\ UNCHANGED <<system, fo, foHash, line, holders, streamLine, streamHolders>>
    BY <1>1 DEF DropContext, Go, Locks
  <1>3. c \in contextHash /\ c \in Ids /\ c # None
    BY <1>1, <1>2, DropsItsOwn, NoneAssumption
  <1>4. contextHash' = contextHash \ {c} /\ context' = Less(context, c)
    <2>1. FindContext(context[at[t].context].key) = c
      BY <1>1, <1>2, DropsItsOwn
    <2> QED
      BY <1>3, <2>1 DEF DropContext
  <1>5. at[t] \in AtType /\ PlaceFits(at[t]) /\ FoFits(at[t]) /\ at[t].pc # "idle" /\ at[t].barrier
    BY <1>2 DEF IInv, Types, PlacesFit, FosFit, PlaceFits
  <1>6. i \in Ids /\ fo[i].context = c
    BY <1>1, <1>2, <1>5 DEF PlaceFits, FoFits, Attached, Closing, Accounted
  <1>7. r.pc = "removeBarrier" /\ SameObjects(t, r) /\ r.context = c /\ r.barrier = at[t].barrier /\ r \in AtType
    BY <1>1, <1>5 DEF AtType, Pcs, Attached, Closing, Accounted, SameObjects
  <1>8. Becomes(t, r)
    BY <1>2, <1>5, <1>7 DEF Becomes, PlaceFits, SameObjects, Attached, Closing, Accounted, Unattached, Making
  <1>9. FoFits(r)
    BY <1>2, <1>5, <1>7 DEF FoFits, SameObjects, Attached, Closing, Accounted, Unattached, Making
  <1>10. at'[t] = r /\ (\A u \in Threads : u # t => at'[u] = at[u]) /\ PlacesFit' /\ at' \in [Threads -> AtType]
    BY <1>8, PlacesStay
  <1>11. SameUse(t, r) /\ SameCount(t, r) /\ r.pc \notin {"increment"} \cup Making \cup Unattached \cup {"insertFo", "unlockStream"}
    BY <1>2, <1>7 DEF SameUse, SameCount, SameObjects, Accounted, Making, Unattached
  <1>12. context[c].ref \in Nat /\ context[c].ref >= 1 /\ context[c].ref # 1
    <2>1. i \in AttachedTo(c)
      BY <1>6 DEF AttachedTo
    <2> QED
      BY <1>3, <2>1, ContextLives
  <1>13. /\ context' \in [Ids -> ContextType] /\ context'[c].ref = context[c].ref - 1
         /\ \A d \in Ids : d # c => context'[d] = context[d]
         /\ \A d \in Ids : context'[d].key = context[d].key /\ context'[d].counter = context[d].counter
    <2>1. PICK n : n = Less(context, c) /\ context' = n
      BY <1>4
    <2>2. context \in [Ids -> ContextType]
      BY DEF IInv, Types
    <2>3. /\ n \in [Ids -> ContextType] /\ n[c].ref = context[c].ref - 1 /\ n[c].counter = context[c].counter
          /\ n[c].key = context[c].key /\ \A d \in Ids : d # c => n[d] = context[d]
      BY <1>3, <1>12, <2>1, <2>2, LessIs
    <2> QED
      BY <1>3, <2>1, <2>3
  <1>14. Types'
    BY <1>2, <1>4, <1>10, <1>13 DEF IInv, Types
  <1>15. FosFit' /\ FoCounts'
    BY <1>2, <1>7, <1>8, <1>9, FosStay, FoCountsStay DEF SameFos, SameObjects
  <1>16. \A d : ThreadsAt(d)' = ThreadsAt(d) /\ AttachedTo(d)' = AttachedTo(d)
    BY <1>2, <1>8, <1>11, UsesStay
  <1>17. ContextCounts'
    <2>1. PICK x, z : x = 0 - 1 /\ z = 0 /\ x \in Int /\ z \in Int
      OBVIOUS
    <2>2. context'[c].ref = context[c].ref + (z + z + x)
      BY <1>12, <1>13, <2>1
    <2>3. /\ Cardinality(AttachedTo(c)') = Cardinality(AttachedTo(c)) + z
          /\ Cardinality(ThreadsAt(c)') = Cardinality(ThreadsAt(c)) + z
      BY <1>3, <1>16, <2>1, Counted1
    <2>4. (IF c \in contextHash' THEN 1 ELSE 0) = (IF c \in contextHash THEN 1 ELSE 0) + x
      BY <1>3, <1>4, <2>1
    <2>5. \A d \in Ids : d # c => /\ AttachedTo(d)' = AttachedTo(d) /\ ThreadsAt(d)' = ThreadsAt(d)
                                   /\ context'[d].ref = context[d].ref
      BY <1>13, <1>16
    <2>6. \A d \in Ids : d # c => (d \in contextHash' <=> d \in contextHash)
      BY <1>4
    <2> QED
      BY <1>3, <2>1, <2>2, <2>3, <2>4, <2>5, <2>6, ContextCountsNext
  <1>18. CounterCountsFileObjects'
    BY <1>2, <1>8, <1>11, <1>13, <1>14, <1>15, CountersStay
  <1>19. \A d \in Ids : OpenedIn(d)' = OpenedIn(d)
    BY <1>2, <1>8, <1>11, <1>14, <1>15, OpenedStays
  <1>20. OpenedIn(c) = {} /\ ~Private(c)
    <2>1. context[c].counter = 0
      BY <1>1, <1>2 DEF IInv, DroppersFit, In
    <2> QED
      BY <1>3, <2>1, Opened
  <1>21. NewFits'
    <2>1. In(Making)' = In(Making) /\ \A u \in In(Making) : at'[u] = at[u] /\ at[u].context # c
      BY <1>2, <1>10, <1>11, <1>20 DEF In, Making, Private
    <2>2. \A u \in In({"unlockAndUse"})' : at'[u].context \in contextHash'
      BY <1>4, <2>1 DEF IInv, NewFits, In, Making
    <2>3. \A u, v \in In(Making)' : at'[u].context = at'[v].context => u = v
      BY <2>1 DEF IInv, NewFits
    <2>4. ASSUME NEW u \in In(Making \ {"unlockAndUse"})', NEW d \in Ids, at'[u].context = d
          PROVE  AttachedTo(d)' = {} /\ ThreadsAt(d)' = {u} /\ d \notin contextHash'
      <3>1. u \in In(Making)' /\ at'[u].pc # "unlockAndUse"
        BY <2>4 DEF In
      <3>2. u \in In(Making \ {"unlockAndUse"}) /\ at[u].context = d
        BY <2>1, <2>4, <3>1 DEF In
      <3>3. AttachedTo(d) = {} /\ ThreadsAt(d) = {u} /\ d \notin contextHash
        BY <3>2 DEF IInv, NewFits
      <3> QED
        BY <1>4, <1>16, <3>3
    <2> QED
      BY <2>2, <2>3, <2>4 DEF NewFits
  <1>22. DroppersFit'
    <2>1. PICK D, E : D = In({"lateBarrier", "drop"}) /\ E = In({"lateBarrier", "drop"})'
      OBVIOUS
    <2>2. E = D \ {t} /\ t \in D
      BY <1>2, <1>7, <1>10, <2>1 DEF In
    <2>3. \A u \in E : u \in Threads /\ at'[u] = at[u]
      BY <1>10, <2>1, <2>2 DEF In
    <2>4. \A u \in D : at[u].context \in contextHash /\ context[at[u].context].counter = 0 /\ at[u].context \in Ids
      BY <2>1 DEF IInv, DroppersFit, Types
    <2>5. \A u, v \in D : at[u].context = at[v].context => u = v
      BY <2>1 DEF IInv, DroppersFit
    <2>6. \A u \in E : at[u].context # c
      BY <1>1, <2>2, <2>5
    <2>7. \A d \in Ids : OpenedIn(d)' # {} => d \in contextHash'
      BY <1>4, <1>19, <1>20 DEF IInv, DroppersFit
    <2>8. ASSUME NEW d \in contextHash'
          PROVE  context'[d].counter > 0 \/ \E u \in E : at'[u].context = d
      <3>1. d \in contextHash /\ d \in Ids /\ d # c
        BY <1>4 DEF IInv, Types
      <3>2. context[d].counter > 0 \/ \E u \in D : at[u].context = d
        BY <2>1, <3>1 DEF IInv, DroppersFit
      <3> QED
        BY <1>1, <1>13, <2>2, <2>3, <3>1, <3>2
    <2>9. \A u \in E : at'[u].context \in contextHash' /\ context'[at'[u].context].counter = 0
      BY <1>4, <1>13, <2>2, <2>3, <2>4, <2>6
    <2>10. \A u, v \in E : at'[u].context = at'[v].context => u = v
      BY <2>2, <2>3, <2>5
    <2>11. \A d, e \in contextHash' : context'[d].key = context'[e].key => d = e
      BY <1>4, <1>13 DEF IInv, DroppersFit, Types
    <2> QED
      BY <2>1, <2>7, <2>8, <2>9, <2>10, <2>11 DEF DroppersFit
  <1>23. KeysFit'
    <2>1. \A d \in Ids : context'[d].ref > 0 => context'[d].key \in Keys
      BY <1>12, <1>13 DEF IInv, KeysFit
    <2> QED
      BY <1>2, <1>8, <1>11, <1>13, <2>1, KeysStay
  <1>24. LinesFit' /\ StreamsFit'
    BY <1>2, <1>5, <1>7, <1>8, <1>11, LinesStay, StreamsStay DEF Making, SameObjects
  <1>25. FilesFit'
    BY <1>2, <1>7, <1>8, <1>11, FilesStay DEF SameObjects
  <1> QED
    BY <1>10, <1>14, <1>15, <1>17, <1>18, <1>21, <1>22, <1>23, <1>24, <1>25 DEF IInv

-----------------------------------------------------------------------------
(* The file object is looked for and inserted                                 *)

\* Two adopters that hold the lock of one file with a context are the same.
LEMMA OneInserter ==
  ASSUME IInv, NEW t \in Threads, NEW u \in Threads, at[t].pc = "insertFo", at[u].pc = "insertFo",
         at[t].op = "adopt", at[u].op = "adopt", at[t].file = at[u].file
  PROVE  t = u
  <1>1. t \in streamHolders /\ u \in streamHolders
    BY DEF IInv, StreamsFit, In
  <1>2. ASSUME NEW v \in {t, u}
        PROVE  at[v].context \in contextHash /\ context[at[v].context].key = KeyOf[at[v].file]
    <2>1. PICK c, i : c = at[v].context /\ i = at[v].fo
      OBVIOUS
    <2>2. /\ c \in Ids /\ i \in Ids /\ i # None /\ c # None /\ fo[i].context = c /\ fo[i].file = at[v].file /\ i \notin foHash
          /\ at[v].pc = "insertFo" /\ v \in Threads
      BY <1>2, <2>1, NoneAssumption DEF IInv, PlacesFit, PlaceFits, FosFit, FoFits, Attached
    <2>3. \A w \in In(Accounted) : at[w].fo # i
      BY <2>1, <2>2, OwnFo DEF In, Accounted
    <2>4. i \in OpenedIn(c)
      BY <2>2, <2>3, Opened
    <2> QED
      BY <2>1, <2>2, <2>4 DEF IInv, DroppersFit, KeysFit
  <1>3. at[t].context = at[u].context
    BY <1>2 DEF IInv, DroppersFit
  <1>4. Lock(t) = Lock(u)
    BY <1>3 DEF Lock
  <1> QED
    BY <1>1, <1>4, HolderIsFirst

LEMMA InsertFoFits ==
  ASSUME IInv, NEW t \in Threads, InsertFo(t), FileHashFails = FALSE
  PROVE  IInv'
  <1>1. PICK c, i, r : c = at[t].context /\ i = at[t].fo /\ r = [at[t] EXCEPT !.pc = AfterInsert(t)]
    OBVIOUS
  <1>2. /\ at[t].pc = "insertFo" /\ at' = [at EXCEPT ![t] = r]
        /\ foHash' = foHash \cup {i} /\ fo' = [fo EXCEPT ![i].ref = @ + 1]
        /\ UNCHANGED <<system, context, contextHash, line, holders, streamLine, streamHolders>>
    BY <1>1 DEF InsertFo, Go, Locks
  <1>3. at[t] \in AtType /\ PlaceFits(at[t]) /\ FoFits(at[t])
    BY DEF IInv, Types, PlacesFit, FosFit
  <1>4. /\ at[t].op \in {"create", "adopt"} /\ ~at[t].barrier /\ at[t].duplicate = None /\ at[t].file \in Files
        /\ c \in Ids /\ i \in Ids /\ c # None /\ i # None /\ i \notin foHash
        /\ fo[i].context = c /\ fo[i].file = at[t].file /\ fo[i].file # None
    BY <1>1, <1>2, <1>3, NoneAssumption DEF PlaceFits, FoFits, Attached, Closing, Accounted
  <1>5. r.pc = (IF at[t].op = "adopt" THEN "unlockStream" ELSE "exit") /\ SameObjects(t, r) /\ r.fo = i /\ r.barrier = at[t].barrier /\ r \in AtType
    BY <1>1, <1>3 DEF AtType, Pcs, Attached, SameObjects, AfterInsert
  <1>6. Becomes(t, r)
    BY <1>2, <1>3, <1>4, <1>5 DEF Becomes, PlaceFits, SameObjects, Attached, Closing, Accounted, Unattached, Making
  <1>7. at'[t] = r /\ (\A u \in Threads : u # t => at'[u] = at[u]) /\ PlacesFit' /\ at' \in [Threads -> AtType]
    BY <1>6, PlacesStay
  <1>8. /\ fo' \in [Ids -> FoType] /\ fo'[i].ref = fo[i].ref + 1 /\ fo[i].ref \in Nat /\ \A j \in Ids : j # i => fo'[j] = fo[j]
        /\ \A j \in Ids : fo'[j].file = fo[j].file /\ fo'[j].context = fo[j].context
    <2>1. PICK e : e = [fo[i] EXCEPT !.ref = @ + 1]
      OBVIOUS
    <2>2. fo[i] \in FoType /\ fo \in [Ids -> FoType] /\ fo[i].ref \in Nat
      BY <1>4 DEF IInv, Types, FoType
    <2>3. e \in FoType /\ e.ref = fo[i].ref + 1 /\ e.file = fo[i].file /\ e.context = fo[i].context
      BY <2>1, <2>2 DEF FoType
    <2>4. fo' = [fo EXCEPT ![i] = e]
      BY <1>2, <2>1
    <2> QED
      BY <1>4, <2>2, <2>3, <2>4
  <1>9. Types'
    BY <1>2, <1>4, <1>7, <1>8 DEF IInv, Types
  <1>10. \A u \in Threads : u # t => at[u].fo # i /\ at[u].duplicate # i
    BY <1>1, <1>4, OwnFo
  <1>11. FosFit'
    <2>1. FoFits(r)'
      BY <1>2, <1>3, <1>4, <1>5, <1>8 DEF FoFits, SameObjects, Attached, Closing, Accounted, Unattached, Making
    <2>2. \A u \in Threads, j \in Ids : u # t /\ (at[u].fo = j \/ at[u].duplicate = j) =>
            fo'[j].file = fo[j].file /\ fo'[j].context = fo[j].context /\ (j \in foHash' <=> j \in foHash)
      BY <1>2, <1>8, <1>10
    <2>3. \A j \in foHash' : fo'[j].context # None /\ fo'[j].file # None
      BY <1>2, <1>4, <1>8 DEF IInv, FosFit, Types
    <2>4. \A j \in Ids : fo'[j].ref = 0 => fo'[j].context = None
      BY <1>8 DEF IInv, FosFit
    <2>5. \A u \in Threads : u # t /\ at[u].fo = r.fo /\ r.fo # None => r.fo \in foHash'
      BY <1>5, <1>10
    <2> QED
      BY <1>6, <2>1, <2>2, <2>3, <2>4, <2>5, FosNext
  <1>12. FoCounts'
    <2>1. \A j : FoThreads(j)' = FoThreads(j)
      BY <1>5, <1>7 DEF FoThreads, SameObjects
    <2>2. PICK x, z : x = 1 /\ z = 0 /\ x \in Int /\ z \in Int
      OBVIOUS
    <2>3. Cardinality(FoThreads(i)') = Cardinality(FoThreads(i)) + z
      <3>1. PICK S : S = FoThreads(i)
        OBVIOUS
      <3>2. Cardinality(S) \in Nat
        BY <3>1, FiniteParts, Sizes DEF FoThreads
      <3>3. Cardinality(S) = Cardinality(S) + z
        BY <2>2, <3>2
      <3> QED
        BY <2>1, <3>1, <3>3
    <2>4. (IF i \in foHash' THEN 1 ELSE 0) = (IF i \in foHash THEN 1 ELSE 0) + x
      BY <1>2, <1>4, <2>2
    <2>5. fo'[i].ref = fo[i].ref + (z + x)
      BY <1>8, <2>2
    <2>6. \A j \in Ids : j # i => FoThreads(j)' = FoThreads(j) /\ fo'[j].ref = fo[j].ref
      BY <1>8, <2>1
    <2>7. \A j \in Ids : j # i => (j \in foHash' <=> j \in foHash)
      BY <1>2
    <2> QED
      BY <1>4, <2>2, <2>3, <2>4, <2>5, <2>6, <2>7, FoCountsNext
  <1>13. SameUse(t, r) /\ SameCount(t, r) /\ SameDrop(t, r) /\ r.pc \notin {"increment"} \cup Making \cup Unattached \cup {"insertFo"}
    BY <1>2, <1>5 DEF SameUse, SameCount, SameDrop, Accounted, Making, Unattached
  <1>14. ContextCounts' /\ NewFits' /\ KeysFit'
    BY <1>2, <1>6, <1>8, <1>13, ContextCountsStay, NewStays, KeysStay DEF IInv, KeysFit
  <1>15. CounterCountsFileObjects' /\ DroppersFit'
    BY <1>2, <1>6, <1>8, <1>9, <1>11, <1>13, CountersStay, DroppersStay
  <1>16. LinesFit'
    BY <1>2, <1>4, <1>6, LinesStay DEF Making
  <1>17. StreamsFit'
    <2>1. at[t].op = "adopt" => t \in streamHolders
      BY <1>2 DEF IInv, StreamsFit, In
    <2> QED
      BY <1>2, <1>5, <1>6, <2>1, StreamsStay DEF SameObjects
  <1>18. FilesFit'
    <2>1. \A u \in Threads : at'[u].op = at[u].op /\ at'[u].file = at[u].file
      BY <1>5, <1>7 DEF SameObjects
    <2>2. \A j \in foHash' : system'[fo'[j].file] \in {"busy", "open"}
      BY <1>2, <1>4, <1>8 DEF IInv, FilesFit, Types
    <2>3. \A j \in foHash : fo[j].file # at[t].file /\ j \in Ids
      BY <1>2, <1>4 DEF IInv, FilesFit, Types
    <2>4. \A j, k \in foHash' : fo'[j].file = fo'[k].file => j = k
      BY <1>2, <1>4, <1>8, <2>3 DEF IInv, FilesFit
    <2>5. ASSUME NEW u \in Threads,
                 \/ at'[u].op = "create" /\ at'[u].pc \in Unattached \cup {"insertFo"}
                 \/ at'[u].op = "adopt" /\ at'[u].pc = "insertFo"
          PROVE  \A j \in foHash' : fo'[j].file # at'[u].file
      <3>1. u # t /\ at'[u] = at[u]
        BY <1>7, <1>13, <2>5
      <3>2. \A j \in foHash : fo[j].file # at[u].file /\ j \in Ids
        BY <2>5, <3>1 DEF IInv, FilesFit, Types
      <3>3. at[t].file # at[u].file
        <4>1. CASE at[u].op = "create" \/ at[t].op = "create"
          BY <3>1, <4>1 DEF IInv, FilesFit
        <4>2. CASE at[u].op # "create" /\ at[t].op # "create"
          BY <1>2, <1>4, <2>5, <3>1, <4>2, OneInserter
        <4> QED
          BY <4>1, <4>2
      <3> QED
        BY <1>2, <1>4, <1>8, <3>1, <3>2, <3>3
    <2> QED
      BY <1>2, <2>1, <2>2, <2>4, <2>5 DEF IInv, FilesFit
  <1> QED
    BY <1>7, <1>9, <1>11, <1>12, <1>14, <1>15, <1>16, <1>17, <1>18 DEF IInv

LEMMA LookupDuplicateFits ==
  ASSUME IInv, NEW t \in Threads, LookupDuplicate(t)
  PROVE  IInv'
  <1>1. PICK d : d = FindFo(at[t].file)
    OBVIOUS
  <1>2. /\ at[t].pc = "lookup" /\ t \in streamHolders
        /\ UNCHANGED <<system, context, foHash, contextHash, line, holders, streamLine, streamHolders>>
    BY DEF LookupDuplicate, Hashes, Locks
  <1>3. at[t] \in AtType /\ PlaceFits(at[t]) /\ FoFits(at[t])
    BY DEF IInv, Types, PlacesFit, FosFit
  <1>4. at[t].op = "adopt" /\ ~at[t].barrier /\ at[t].duplicate = None
    BY <1>2, <1>3 DEF PlaceFits, Closing, Accounted
  <1>5. ASSUME d = None, Go(t, "lookup", "insertFo"), UNCHANGED fo
        PROVE  IInv'
    <2>1. PICK r : r = [at[t] EXCEPT !.pc = "insertFo"]
      OBVIOUS
    <2>2. r.pc = "insertFo" /\ SameObjects(t, r) /\ r.barrier = at[t].barrier /\ r \in AtType
      BY <1>3, <2>1 DEF AtType, Pcs, Attached, SameObjects
    <2>3. at' = [at EXCEPT ![t] = r]
      BY <1>5, <2>1 DEF Go
    <2>4. Becomes(t, r)
      BY <1>2, <1>3, <1>4, <2>2, <2>3 DEF Becomes, PlaceFits, SameObjects, Attached, Closing, Accounted, Unattached, Making
    <2>5. FoFits(r)
      BY <1>2, <1>3, <1>4, <2>2 DEF FoFits, SameObjects, Attached, Closing, Accounted, Unattached, Making
    <2>6. SameUse(t, r) /\ SameCount(t, r) /\ SameDrop(t, r) /\ r.pc \notin Making
      BY <1>2, <2>2 DEF SameUse, SameCount, SameDrop, Accounted, Making
    <2>7. LinesFit' /\ StreamsFit'
      BY <1>2, <1>4, <2>2, <2>4, LinesStay, StreamsStay DEF Making, SameObjects
    <2>8. \A j \in foHash : fo[j].file # r.file
      BY <1>1, <1>5, <2>2, FoundFo DEF SameObjects
    <2>9. r.op # "create" /\ r.pc # "increment"
      BY <1>4, <2>2 DEF SameObjects
    <2> QED
      BY <1>2, <1>5, <2>2, <2>4, <2>5, <2>6, <2>7, <2>8, <2>9, Moves DEF SameFos, IInv, Types
  <1>6. ASSUME d # None, Goes(t, "lookup", [at[t] EXCEPT !.pc = "unlockStream", !.duplicate = d]),
               fo' = [fo EXCEPT ![d].ref = @ + 1]
        PROVE  IInv'
    <2>1. PICK r : r = [at[t] EXCEPT !.pc = "unlockStream", !.duplicate = d]
      OBVIOUS
    <2>2. d \in foHash /\ fo[d].file = at[t].file /\ d \in Ids
      BY <1>1, <1>6, FoundFo DEF IInv, Types
    <2>3. /\ r.pc = "unlockStream" /\ r.op = at[t].op /\ r.file = at[t].file /\ r.fo = at[t].fo /\ r.context = at[t].context
          /\ r.duplicate = d /\ r.barrier = at[t].barrier /\ r \in AtType
      BY <1>3, <2>1, <2>2 DEF AtType, Pcs, Attached
    <2>4. at' = [at EXCEPT ![t] = r]
      BY <1>6, <2>1 DEF Goes
    <2>5. Becomes(t, r)
      BY <1>2, <1>3, <1>4, <2>3, <2>4 DEF Becomes, PlaceFits, Attached, Closing, Accounted, Unattached, Making
    <2>6. at'[t] = r /\ (\A u \in Threads : u # t => at'[u] = at[u]) /\ PlacesFit' /\ at' \in [Threads -> AtType]
      BY <2>5, PlacesStay
    <2>7. /\ fo' \in [Ids -> FoType] /\ fo'[d].ref = fo[d].ref + 1 /\ fo[d].ref \in Nat /\ \A j \in Ids : j # d => fo'[j] = fo[j]
          /\ \A j \in Ids : fo'[j].file = fo[j].file /\ fo'[j].context = fo[j].context
      <3>1. PICK e : e = [fo[d] EXCEPT !.ref = @ + 1]
        OBVIOUS
      <3>2. fo[d] \in FoType /\ fo \in [Ids -> FoType] /\ fo[d].ref \in Nat
        BY <2>2 DEF IInv, Types, FoType
      <3>3. e \in FoType /\ e.ref = fo[d].ref + 1 /\ e.file = fo[d].file /\ e.context = fo[d].context
        BY <3>1, <3>2 DEF FoType
      <3>4. fo' = [fo EXCEPT ![d] = e]
        BY <1>6, <3>1
      <3> QED
        BY <2>2, <3>2, <3>3, <3>4
    <2>8. Types'
      BY <1>2, <2>6, <2>7 DEF IInv, Types
    <2>9. at[t].fo \in Ids /\ at[t].fo \notin foHash /\ fo[at[t].fo].file = at[t].file /\ fo[at[t].fo].context = at[t].context
      BY <1>2, <1>3 DEF PlaceFits, FoFits, Attached
    <2>10. FosFit'
      <3>1. FoFits(r)'
        BY <1>2, <1>6, <2>2, <2>3, <2>7, <2>9 DEF FoFits, Attached, Closing, Accounted, Unattached, Making
      <3>2. \A u \in Threads, j \in Ids : u # t /\ (at[u].fo = j \/ at[u].duplicate = j) =>
              fo'[j].file = fo[j].file /\ fo'[j].context = fo[j].context /\ (j \in foHash' <=> j \in foHash)
        BY <1>2, <2>7
      <3>3. \A j \in foHash' : fo'[j].context # None /\ fo'[j].file # None
        BY <1>2, <2>7 DEF IInv, FosFit, Types
      <3>4. \A j \in Ids : fo'[j].ref = 0 => fo'[j].context = None
        BY <2>7 DEF IInv, FosFit
      <3>5. \A u \in Threads : u # t /\ at[u].fo = r.fo /\ r.fo # None => r.fo \in foHash'
        BY <1>2, <2>3 DEF IInv, FosFit
      <3> QED
        BY <2>5, <3>1, <3>2, <3>3, <3>4, <3>5, FosNext
    <2>11. FoCounts'
      <3>1. \A j \in Ids : j # d => FoThreads(j)' = FoThreads(j)
        BY <1>4, <2>3, <2>6, <2>9, NoneAssumption DEF FoThreads
      <3>2. t \notin FoThreads(d) /\ FoThreads(d)' = FoThreads(d) \cup {t}
        BY <1>4, <1>6, <2>2, <2>3, <2>6, <2>9 DEF FoThreads
      <3>3. PICK x, z : x = 1 /\ z = 0 /\ x \in Int /\ z \in Int
        OBVIOUS
      <3>4. PICK S : S = FoThreads(d)
        OBVIOUS
      <3>5. Cardinality(S \cup {t}) = Cardinality(S) + x
        BY <3>2, <3>3, <3>4, FiniteParts, Adds DEF FoThreads
      <3>6. (IF d \in foHash' THEN 1 ELSE 0) = (IF d \in foHash THEN 1 ELSE 0) + z
        BY <1>2, <3>3
      <3>7. fo'[d].ref = fo[d].ref + (x + z)
        BY <2>7, <3>3
      <3>8. \A j \in Ids : j # d => FoThreads(j)' = FoThreads(j) /\ fo'[j].ref = fo[j].ref
        BY <2>7, <3>1
      <3>9. \A j \in Ids : j # d => (j \in foHash' <=> j \in foHash)
        BY <1>2
      <3>10. Cardinality(FoThreads(d)') = Cardinality(FoThreads(d)) + x
        BY <3>2, <3>4, <3>5
      <3> QED
        BY <2>2, <3>3, <3>6, <3>7, <3>8, <3>9, <3>10, FoCountsNext
    <2>12. SameUse(t, r) /\ SameCount(t, r) /\ SameDrop(t, r) /\ r.pc \notin {"increment"} \cup Making \cup Unattached \cup {"insertFo"}
      BY <1>2, <2>3 DEF SameUse, SameCount, SameDrop, Accounted, Making, Unattached
    <2>13. ContextCounts' /\ NewFits' /\ KeysFit'
      BY <1>2, <2>5, <2>7, <2>12, ContextCountsStay, NewStays, KeysStay DEF IInv, KeysFit
    <2>14. CounterCountsFileObjects' /\ DroppersFit'
      BY <1>2, <2>5, <2>7, <2>8, <2>10, <2>12, CountersStay, DroppersStay
    <2>15. LinesFit' /\ StreamsFit'
      BY <1>2, <1>4, <2>3, <2>5, LinesStay, StreamsStay DEF Making
    <2>16. FilesFit'
      BY <1>2, <2>3, <2>5, <2>7, <2>12, FilesStay
    <2> QED
      BY <2>6, <2>8, <2>10, <2>11, <2>13, <2>14, <2>15, <2>16 DEF IInv
  <1> QED
    BY <1>1, <1>5, <1>6 DEF LookupDuplicate

-----------------------------------------------------------------------------
(* A file object is given back, at the end of an operation or of its close     *)

LEMMA FoThreadLeaves ==
  ASSUME IInv, NEW t \in Threads, NEW r, Becomes(t, r), NEW i \in Ids, at[t].fo = i,
         r.fo # i, r.duplicate # i,
         \A j \in Ids : j # i /\ at[t].duplicate = j => r.fo = j \/ r.duplicate = j,
         \A j \in Ids : j # i /\ (r.fo = j \/ r.duplicate = j) => at[t].duplicate = j
  PROVE  /\ t \in FoThreads(i) /\ FoThreads(i)' = FoThreads(i) \ {t}
         /\ Cardinality(FoThreads(i)') = Cardinality(FoThreads(i)) - 1
         /\ \A j \in Ids : j # i => FoThreads(j)' = FoThreads(j)
  <1>1. at'[t] = r /\ \A u \in Threads : u # t => at'[u] = at[u]
    BY PlacesStay
  <1>2. t \in FoThreads(i) /\ FoThreads(i)' = FoThreads(i) \ {t}
    BY <1>1 DEF FoThreads
  <1>3. ASSUME NEW j \in Ids, j # i
        PROVE  FoThreads(j)' = FoThreads(j)
    BY <1>1, <1>3 DEF FoThreads
  <1>4. PICK S : S = FoThreads(i)
    OBVIOUS
  <1>5. Cardinality(S \ {t}) = Cardinality(S) - 1
    BY <1>2, <1>4, FiniteParts, Takes DEF FoThreads
  <1> QED
    BY <1>2, <1>3, <1>4, <1>5

LEMMA ExitFits ==
  ASSUME IInv, NEW t \in Threads, Exit(t)
  PROVE  IInv'
  <1>1. PICK i, r : i = at[t].fo /\ r = Idle
    OBVIOUS
  <1>2. /\ at[t].pc = "exit" /\ at' = [at EXCEPT ![t] = r] /\ DereferenceFo(i)
        /\ system' = (IF at[t].op = "create" THEN [system EXCEPT ![at[t].file] = "open"] ELSE system)
        /\ UNCHANGED <<foHash, contextHash, line, holders, streamLine, streamHolders>>
    BY <1>1 DEF Exit, Goes, Hashes, Locks
  <1>3. at[t] \in AtType /\ PlaceFits(at[t]) /\ FoFits(at[t])
    BY DEF IInv, Types, PlacesFit, FosFit
  <1>4. /\ at[t].op \in {"create", "adopt"} /\ ~at[t].barrier /\ at[t].file \in Files
        /\ i \in Ids /\ i # None /\ at[t].duplicate \in {i, None} /\ fo[i].file = at[t].file
        /\ i \in foHash \/ fo[i].context = None
    BY <1>1, <1>2, <1>3, NoneAssumption DEF PlaceFits, FoFits
  <1>5. /\ r.pc = "idle" /\ r.op = None /\ r.file = None /\ r.fo = None /\ r.context = None /\ r.duplicate = None
        /\ ~r.barrier /\ r \in AtType
    BY <1>1 DEF Idle, AtType, Pcs
  <1>6. Becomes(t, r)
    BY <1>1, <1>2, <1>5, OpAssumption DEF Becomes, PlaceFits, Attached, Closing, Accounted, Unattached, Making
  <1>7. at'[t] = r /\ (\A u \in Threads : u # t => at'[u] = at[u]) /\ PlacesFit' /\ at' \in [Threads -> AtType]
    BY <1>6, PlacesStay
  <1>8. /\ t \in FoThreads(i) /\ FoThreads(i)' = FoThreads(i) \ {t}
        /\ Cardinality(FoThreads(i)') = Cardinality(FoThreads(i)) - 1
        /\ \A j \in Ids : j # i => FoThreads(j)' = FoThreads(j)
    BY <1>1, <1>4, <1>5, <1>6, NoneAssumption, FoThreadLeaves
  <1>9. fo \in [Ids -> FoType] /\ fo[i] \in FoType /\ fo[i].ref \in Nat /\ fo[i].ref > 0
    BY <1>1, <1>4, FoLives DEF IInv, Types
  <1>10. i \in foHash => fo[i].ref # 1
    <2>1. PICK n : n = Cardinality(FoThreads(i))
      OBVIOUS
    <2>2. n \in Nat /\ n >= 1
      BY <1>8, <2>1, FiniteParts, Sizes DEF FoThreads
    <2>3. fo[i].ref = n + (IF i \in foHash THEN 1 ELSE 0)
      BY <1>4, <2>1 DEF IInv, FoCounts
    <2> QED
      BY <2>2, <2>3
  <1>11. i \notin foHash => /\ fo[i].ref = 1 /\ fo[i].context = None
                            /\ \A u \in Threads : u # t => at[u].fo # i /\ at[u].duplicate # i
    BY <1>1, <1>4, OwnFo
  <1>12. /\ fo' \in [Ids -> FoType] /\ fo'[i].ref = fo[i].ref - 1 /\ UNCHANGED context
         /\ \A j \in Ids : j # i => fo'[j] = fo[j]
         /\ \A j \in Ids : fo'[j].context = fo[j].context
         /\ i \in foHash => fo'[i].file = fo[i].file /\ fo'[i].ref > 0
    <2>1. CASE fo[i].ref = 1
      <3>1. fo' = [fo EXCEPT ![i] = FreeFo] /\ UNCHANGED context /\ fo[i].context = None /\ i \notin foHash
        BY <1>2, <1>4, <1>10, <2>1 DEF DereferenceFo
      <3>2. FreeFo \in FoType /\ FreeFo.ref = 0 /\ FreeFo.context = None
        BY DEF FreeFo, FoType
      <3> QED
        BY <1>4, <1>9, <2>1, <3>1, <3>2
    <2>2. CASE fo[i].ref # 1
      <3>1. PICK e : e = [fo[i] EXCEPT !.ref = fo[i].ref - 1]
        OBVIOUS
      <3>2. fo[i].ref - 1 \in Nat /\ fo[i].ref - 1 > 0
        BY <1>9, <2>2
      <3>3. e \in FoType /\ e.ref = fo[i].ref - 1 /\ e.file = fo[i].file /\ e.context = fo[i].context
        BY <1>9, <3>1, <3>2 DEF FoType
      <3>4. fo' = [fo EXCEPT ![i] = e] /\ UNCHANGED context
        BY <1>2, <2>2, <3>1 DEF DereferenceFo
      <3> QED
        BY <1>4, <1>9, <3>2, <3>3, <3>4
    <2> QED
      BY <2>1, <2>2
  <1>13. Types'
    BY <1>2, <1>7, <1>12 DEF IInv, Types
  <1>14. FosFit'
    <2>1. FoFits(r)'
      BY <1>5 DEF FoFits, Attached, Closing, Accounted, Unattached, Making
    <2>2. \A u \in Threads, j \in Ids : u # t /\ (at[u].fo = j \/ at[u].duplicate = j) =>
            fo'[j].file = fo[j].file /\ fo'[j].context = fo[j].context /\ (j \in foHash' <=> j \in foHash)
      BY <1>2, <1>11, <1>12
    <2>3. \A j \in foHash' : fo'[j].context # None /\ fo'[j].file # None
      BY <1>2, <1>12 DEF IInv, FosFit, Types
    <2>4. \A j \in Ids : fo'[j].ref = 0 => fo'[j].context = None
      BY <1>4, <1>12 DEF IInv, FosFit
    <2>5. \A u \in Threads : u # t /\ at[u].fo = r.fo /\ r.fo # None => r.fo \in foHash'
      BY <1>5
    <2> QED
      BY <1>6, <2>1, <2>2, <2>3, <2>4, <2>5, FosNext
  <1>15. FoCounts'
    <2>1. PICK x, z : x = 0 - 1 /\ z = 0 /\ x \in Int /\ z \in Int
      OBVIOUS
    <2>2. PICK S, T : S = FoThreads(i) /\ T = FoThreads(i)'
      OBVIOUS
    <2>3. Cardinality(S) \in Nat
      BY <2>2, FiniteParts, Sizes DEF FoThreads
    <2>4. Cardinality(T) = Cardinality(S) - 1
      BY <1>8, <2>2
    <2>5. Cardinality(T) = Cardinality(S) + x
      BY <2>1, <2>3, <2>4
    <2>6. Cardinality(FoThreads(i)') = Cardinality(FoThreads(i)) + x
      BY <2>2, <2>5
    <2>7. (IF i \in foHash' THEN 1 ELSE 0) = (IF i \in foHash THEN 1 ELSE 0) + z
      BY <1>2, <2>1
    <2>8. fo'[i].ref = fo[i].ref + (x + z)
      BY <1>9, <1>12, <2>1
    <2>9. \A j \in Ids : j # i => FoThreads(j)' = FoThreads(j) /\ fo'[j].ref = fo[j].ref
      BY <1>8, <1>12
    <2>10. \A j \in Ids : j # i => (j \in foHash' <=> j \in foHash)
      BY <1>2
    <2> QED
      BY <1>4, <2>1, <2>6, <2>7, <2>8, <2>9, <2>10, FoCountsNext
  <1>16. SameUse(t, r) /\ SameCount(t, r) /\ SameDrop(t, r) /\ r.pc \notin {"increment"} \cup Making \cup Unattached \cup {"insertFo"}
    BY <1>2, <1>5 DEF SameUse, SameCount, SameDrop, Accounted, Making, Unattached
  <1>17. ContextCounts' /\ NewFits'
    BY <1>2, <1>6, <1>12, <1>16, ContextCountsStay, NewStays
  <1>18. KeysFit'
    <2>1. \A j \in Ids : fo'[j].context = fo[j].context /\ (fo[j].context # None => fo'[j].file = fo[j].file)
      BY <1>4, <1>12
    <2>2. \A d \in Ids : context'[d].ref > 0 => context'[d].key \in Keys
      BY <1>12 DEF IInv, KeysFit
    <2> QED
      BY <1>6, <1>12, <1>16, <2>1, <2>2, KeysStay
  <1>19. CounterCountsFileObjects' /\ DroppersFit'
    BY <1>2, <1>6, <1>12, <1>13, <1>14, <1>16, CountersStay, DroppersStay
  <1>20. LinesFit' /\ StreamsFit'
    BY <1>2, <1>4, <1>5, <1>6, LinesStay, StreamsStay DEF Making
  <1>21. FilesFit'
    <2>1. \A j \in foHash : fo'[j].file = fo[j].file /\ fo[j].file \in Files
      BY <1>12 DEF IInv, FosFit, Types, FoType
    <2>2. ASSUME NEW u \in Threads, u # t
          PROVE  /\ at'[u].op = "create" => system'[at'[u].file] = "busy"
                 /\ at'[u].op = "adopt" => system'[at'[u].file] = "open"
                 /\ at'[u].op = "close" => system'[at'[u].file] = "closed"
      <3>1. at'[u] = at[u]
        BY <1>7, <2>2
      <3>2. system \in [Files -> {"new", "busy", "open", "closed"}] /\ at[u] \in AtType
        BY DEF IInv, Types
      <3>3. at[u].op # None => at[u].file \in Files
        BY DEF IInv, PlacesFit, PlaceFits, Idle
      <3>4. at[u].file # at[t].file \/ at[t].op # "create"
        BY <2>2 DEF IInv, FilesFit
      <3>5. at[u].op # None => system'[at[u].file] = system[at[u].file]
        BY <1>2, <3>2, <3>3, <3>4
      <3> QED
        BY <3>1, <3>5, OpAssumption DEF IInv, FilesFit
    <2>3. at'[t].op \notin {"create", "adopt", "close"}
      BY <1>5, <1>7, OpAssumption
    <2>4. ASSUME NEW u \in Threads, NEW v \in Threads, at'[u].op \in {"create", "close"}, at'[v].file = at'[u].file
          PROVE  u = v
      <3>1. u # t /\ at'[u] = at[u] /\ at[u].file \in Files
        BY <1>7, <2>3, <2>4, OpAssumption DEF IInv, PlacesFit, PlaceFits, Idle
      <3>2. v # t
        BY <1>5, <1>7, <2>4, <3>1, NoneAssumption
      <3> QED
        BY <1>7, <2>4, <3>1, <3>2 DEF IInv, FilesFit
    <2>5. \A j \in foHash : system'[fo'[j].file] \in {"busy", "open"}
      BY <1>2, <1>4, <2>1 DEF IInv, FilesFit, Types
    <2>6. \A j, k \in foHash : fo'[j].file = fo'[k].file => j = k
      BY <2>1 DEF IInv, FilesFit
    <2>7. ASSUME NEW u \in Threads,
                 \/ at'[u].op = "create" /\ at'[u].pc \in Unattached \cup {"insertFo"}
                 \/ at'[u].op = "adopt" /\ at'[u].pc = "insertFo"
          PROVE  \A j \in foHash : fo'[j].file # at'[u].file
      BY <1>7, <2>1, <2>3, <2>7 DEF IInv, FilesFit
    <2> QED
      BY <1>2, <2>2, <2>3, <2>4, <2>5, <2>6, <2>7 DEF FilesFit
  <1> QED
    BY <1>7, <1>13, <1>14, <1>15, <1>17, <1>18, <1>19, <1>20, <1>21 DEF IInv

\* The file object goes, and its reference to the context with it.
LEMMA DereferenceClosedFits ==
  ASSUME IInv, NEW t \in Threads, DereferenceClosed(t)
  PROVE  IInv'
  <1>1. PICK c, i, d : c = at[t].context /\ i = at[t].fo /\ d = at[t].duplicate
    OBVIOUS
  <1>2. PICK r : r = IF at[t].op = "close" THEN Idle ELSE [at[t] EXCEPT !.pc = "exit", !.fo = d, !.context = None]
    OBVIOUS
  <1>3. at \in [Threads -> AtType]
    BY DEF IInv, Types
  <1>4. /\ at[t].pc = "dereference" /\ at' = [at EXCEPT ![t] = r] /\ DereferenceFo(i)
        /\ UNCHANGED <<system, foHash, contextHash, line, holders, streamLine, streamHolders>>
    BY <1>1, <1>2, <1>3 DEF DereferenceClosed, Hashes, Locks
  <1>5. at[t] \in AtType /\ PlaceFits(at[t]) /\ FoFits(at[t])
    BY DEF IInv, Types, PlacesFit, FosFit
  <1>6. /\ at[t].op \in {"close", "adopt"} /\ ~at[t].barrier /\ at[t].file \in Files
        /\ i \in Ids /\ i # None /\ i \notin foHash /\ c \in Ids /\ c # None /\ fo[i].context = c /\ fo[i].file = at[t].file
        /\ at[t].op = "close" => d = None
        /\ at[t].op = "adopt" => d \in Ids /\ d # None /\ d \in foHash /\ fo[d].file = at[t].file
    BY <1>1, <1>4, <1>5, NoneAssumption DEF PlaceFits, FoFits, AtType, Attached, Closing, Accounted
  <1>7. /\ at[t].op = "close" => r = Idle
        /\ at[t].op = "adopt" => /\ r.pc = "exit" /\ r.op = "adopt" /\ r.file = at[t].file /\ r.fo = d
                                 /\ r.context = None /\ r.duplicate = d /\ ~r.barrier /\ r \in AtType
    BY <1>1, <1>2, <1>5, <1>6 DEF AtType, Pcs
  <1>8. /\ Idle.pc = "idle" /\ Idle.op = None /\ Idle.file = None /\ Idle.fo = None /\ Idle.context = None
        /\ Idle.duplicate = None /\ ~Idle.barrier /\ Idle \in AtType
    BY DEF Idle, AtType, Pcs
  <1>9. r.pc \in {"idle", "exit"} /\ r.context = None /\ r.duplicate = d /\ r.fo = d /\ ~r.barrier /\ r \in AtType
    BY <1>6, <1>7, <1>8
  <1>10. Becomes(t, r)
    <2>1. CASE at[t].op = "close"
      BY <1>4, <1>7, <1>8, <2>1, OpAssumption DEF Becomes, PlaceFits, Attached, Closing, Accounted, Unattached, Making
    <2>2. CASE at[t].op = "adopt"
      BY <1>4, <1>5, <1>6, <1>7, <2>2, OpAssumption DEF Becomes, PlaceFits, Attached, Closing, Accounted, Unattached, Making
    <2> QED
      BY <1>6, <2>1, <2>2
  <1>11. at'[t] = r /\ (\A u \in Threads : u # t => at'[u] = at[u]) /\ PlacesFit' /\ at' \in [Threads -> AtType]
    BY <1>10, PlacesStay
  <1>12. fo[i].ref = 1 /\ d # i /\ \A u \in Threads : u # t => at[u].fo # i /\ at[u].duplicate # i
    BY <1>1, <1>6, OwnFo
  <1>13. /\ fo' = [fo EXCEPT ![i] = FreeFo] /\ context' = Less(context, c)
         /\ fo' \in [Ids -> FoType] /\ fo'[i].ref = 0 /\ fo'[i].context = None /\ \A j \in Ids : j # i => fo'[j] = fo[j]
    <2>1. FreeFo \in FoType /\ FreeFo.ref = 0 /\ FreeFo.context = None
      BY DEF FreeFo, FoType
    <2>2. fo \in [Ids -> FoType]
      BY DEF IInv, Types
    <2>3. fo' = [fo EXCEPT ![i] = FreeFo] /\ context' = Less(context, c)
      BY <1>4, <1>6, <1>12 DEF DereferenceFo
    <2> QED
      BY <1>6, <2>1, <2>2, <2>3
  <1>14. i \in AttachedTo(c) /\ AttachedTo(c)' = AttachedTo(c) \ {i} /\ \A e \in Ids : e # c => AttachedTo(e)' = AttachedTo(e)
    BY <1>6, <1>13, NoneAssumption DEF AttachedTo
  <1>15. /\ context[c].ref \in Nat /\ context[c].ref >= 1
         /\ context[c].ref = 1 => AttachedTo(c) = {i} /\ ThreadsAt(c) = {} /\ c \notin contextHash
    BY <1>6, <1>14, ContextLives
  <1>16. /\ context' \in [Ids -> ContextType] /\ context'[c].ref = context[c].ref - 1
         /\ \A e \in Ids : context'[e].counter = context[e].counter
         /\ context[c].ref # 1 => context'[c].key = context[c].key
         /\ \A e \in Ids : e # c => context'[e] = context[e]
    <2>1. PICK n : n = Less(context, c) /\ context' = n
      BY <1>13
    <2>2. context \in [Ids -> ContextType]
      BY DEF IInv, Types
    <2>3. /\ n \in [Ids -> ContextType] /\ n[c].ref = context[c].ref - 1 /\ n[c].counter = context[c].counter
          /\ context[c].ref # 1 => n[c].key = context[c].key
          /\ \A e \in Ids : e # c => n[e] = context[e]
      BY <1>6, <1>15, <2>1, <2>2, LessIs
    <2> QED
      BY <1>6, <2>1, <2>3
  <1>17. Types'
    BY <1>4, <1>11, <1>13, <1>16 DEF IInv, Types
  <1>18. FosFit'
    <2>1. FoFits(r)'
      <3>1. CASE at[t].op = "close"
        BY <1>7, <1>8, <3>1 DEF FoFits, Attached, Closing, Accounted, Unattached, Making
      <3>2. CASE at[t].op = "adopt"
        <4>1. fo'[d].file = at[t].file /\ d \in foHash'
          BY <1>4, <1>6, <1>12, <1>13, <3>2
        <4> QED
          BY <1>7, <3>2, <4>1 DEF FoFits, Attached, Closing, Accounted, Unattached, Making
      <3> QED
        BY <1>6, <3>1, <3>2
    <2>2. \A u \in Threads, j \in Ids : u # t /\ (at[u].fo = j \/ at[u].duplicate = j) =>
            fo'[j].file = fo[j].file /\ fo'[j].context = fo[j].context /\ (j \in foHash' <=> j \in foHash)
      BY <1>4, <1>12, <1>13
    <2>3. \A j \in foHash' : fo'[j].context # None /\ fo'[j].file # None
      BY <1>4, <1>6, <1>13 DEF IInv, FosFit, Types
    <2>4. \A j \in Ids : fo'[j].ref = 0 => fo'[j].context = None
      BY <1>13 DEF IInv, FosFit
    <2>5. \A u \in Threads : u # t /\ at[u].fo = r.fo /\ r.fo # None => r.fo \in foHash'
      BY <1>4, <1>6, <1>9
    <2> QED
      BY <1>10, <2>1, <2>2, <2>3, <2>4, <2>5, FosNext
  <1>19. FoCounts'
    <2>1. /\ Cardinality(FoThreads(i)') = Cardinality(FoThreads(i)) - 1
          /\ \A j \in Ids : j # i => FoThreads(j)' = FoThreads(j)
      BY <1>1, <1>6, <1>9, <1>10, <1>12, NoneAssumption, FoThreadLeaves
    <2>2. PICK x, z : x = 0 - 1 /\ z = 0 /\ x \in Int /\ z \in Int
      OBVIOUS
    <2>3. PICK S, T : S = FoThreads(i) /\ T = FoThreads(i)'
      OBVIOUS
    <2>4. Cardinality(S) \in Nat
      BY <2>3, FiniteParts, Sizes DEF FoThreads
    <2>5. Cardinality(T) = Cardinality(S) - 1
      BY <2>1, <2>3
    <2>6. Cardinality(T) = Cardinality(S) + x
      BY <2>2, <2>4, <2>5
    <2>7. Cardinality(FoThreads(i)') = Cardinality(FoThreads(i)) + x
      BY <2>3, <2>6
    <2>8. (IF i \in foHash' THEN 1 ELSE 0) = (IF i \in foHash THEN 1 ELSE 0) + z
      BY <1>4, <2>2
    <2>9. fo'[i].ref = fo[i].ref + (x + z)
      BY <1>12, <1>13, <2>2
    <2>10. \A j \in Ids : j # i => FoThreads(j)' = FoThreads(j) /\ fo'[j].ref = fo[j].ref
      BY <1>13, <2>1
    <2>11. \A j \in Ids : j # i => (j \in foHash' <=> j \in foHash)
      BY <1>4
    <2> QED
      BY <1>6, <2>2, <2>7, <2>8, <2>9, <2>10, <2>11, FoCountsNext
  <1>20. \A S : "dereference" \notin S /\ r.pc \notin S => In(S)' = In(S) /\ \A u \in In(S) : at'[u] = at[u]
    BY <1>4, <1>11 DEF In
  <1>21. r.pc \notin {"increment"} \cup Making \cup Unattached \cup {"insertFo"} \cup Accounted
    BY <1>9 DEF Making, Unattached, Accounted
  <1>22. \A e : ThreadsAt(e)' = ThreadsAt(e)
    <2>1. "dereference" \notin {"increment"} \cup Making
      BY DEF Making
    <2> QED
      BY <1>20, <1>21, <2>1 DEF ThreadsAt
  <1>23. ContextCounts'
    <2>1. PICK x, z : x = 0 - 1 /\ z = 0 /\ x \in Int /\ z \in Int
      OBVIOUS
    <2>2. context'[c].ref = context[c].ref + (x + z + z)
      BY <1>15, <1>16, <2>1
    <2>3. PICK S : S = AttachedTo(c)
      OBVIOUS
    <2>4. Cardinality(S) \in Nat /\ Cardinality(S \ {i}) = Cardinality(S) - 1
      BY <1>14, <2>3, FiniteParts, Sizes, Takes DEF AttachedTo
    <2>5. Cardinality(S \ {i}) = Cardinality(S) + x
      BY <2>1, <2>4
    <2>6. Cardinality(AttachedTo(c)') = Cardinality(AttachedTo(c)) + x
      BY <1>14, <2>3, <2>5
    <2>7. Cardinality(ThreadsAt(c)') = Cardinality(ThreadsAt(c)) + z
      BY <1>6, <1>22, <2>1, Counted1
    <2>8. (IF c \in contextHash' THEN 1 ELSE 0) = (IF c \in contextHash THEN 1 ELSE 0) + z
      BY <1>4, <2>1
    <2>9. \A e \in Ids : e # c => /\ AttachedTo(e)' = AttachedTo(e) /\ ThreadsAt(e)' = ThreadsAt(e)
                                   /\ context'[e].ref = context[e].ref
      BY <1>14, <1>16, <1>22
    <2>10. \A e \in Ids : e # c => (e \in contextHash' <=> e \in contextHash)
      BY <1>4
    <2> QED
      BY <1>6, <2>1, <2>2, <2>6, <2>7, <2>8, <2>9, <2>10, ContextCountsNext
  <1>24. \A e \in Ids : OpenedIn(e)' = OpenedIn(e)
    <2>1. In(Accounted)' = In(Accounted) \ {t} /\ t \in In(Accounted)
      BY <1>4, <1>11, <1>21 DEF In, Accounted
    <2>2. \A u \in In(Accounted) : u # t => at'[u].fo = at[u].fo
      BY <1>11 DEF In
    <2>3. \A j \in Ids : j # i => Counted(j)' = Counted(j)
      BY <1>1, <1>13, <2>1, <2>2 DEF Counted, Accounted
    <2>4. ~Counted(i) /\ ~Counted(i)'
      BY <1>1, <1>13, <2>1 DEF Counted, Accounted
    <2> QED
      BY <1>13, <2>3, <2>4 DEF OpenedIn
  <1>25. \A e : Private(e)' = Private(e)
    <2>1. "dereference" \notin Making
      BY DEF Making
    <2>2. In(Making)' = In(Making) /\ \A u \in In(Making) : at'[u] = at[u]
      BY <1>20, <1>21, <2>1
    <2> QED
      BY <2>2 DEF Private, Making
  <1>26. CounterCountsFileObjects'
    BY <1>16, <1>24, <1>25 DEF IInv, CounterCountsFileObjects
  <1>27. DroppersFit'
    <2>1. SameDrop(t, r)
      BY <1>4, <1>9 DEF SameDrop
    <2>2. \A e \in contextHash : context'[e].counter = context[e].counter /\ context'[e].key = context[e].key
      BY <1>15, <1>16 DEF IInv, Types
    <2> QED
      BY <1>4, <1>10, <1>24, <2>1, <2>2, DroppersKept
  <1>28. NewFits'
    <2>1. "dereference" \notin Making
      BY DEF Making
    <2>2. \A S : S \subseteq Making => In(S)' = In(S) /\ In(S) \subseteq In(Making) /\ \A u \in In(S) : at'[u] = at[u]
      BY <1>20, <1>21, <2>1 DEF In
    <2>3. \A u \in In({"unlockAndUse"})' : at'[u].context \in contextHash'
      BY <1>4, <2>2 DEF IInv, NewFits, Making
    <2>4. \A u, v \in In(Making)' : at'[u].context = at'[v].context => u = v
      BY <2>2 DEF IInv, NewFits
    <2>5. ASSUME NEW u \in In(Making \ {"unlockAndUse"})', NEW e \in Ids, at'[u].context = e
          PROVE  AttachedTo(e)' = {} /\ ThreadsAt(e)' = {u} /\ e \notin contextHash'
      <3>1. u \in In(Making \ {"unlockAndUse"}) /\ at[u].context = e
        BY <2>2, <2>5
      <3>2. AttachedTo(e) = {} /\ ThreadsAt(e) = {u} /\ e \notin contextHash
        BY <3>1 DEF IInv, NewFits
      <3> QED
        BY <1>4, <1>14, <1>22, <3>2
    <2> QED
      BY <2>3, <2>4, <2>5 DEF NewFits
  <1>29. KeysFit'
    <2>1. \A e \in Ids : context'[e].ref > 0 => context'[e].key \in Keys
      <3>1. context'[c].ref > 0 => context[c].ref # 1 /\ context[c].ref > 0
        BY <1>15, <1>16
      <3> QED
        BY <1>16, <3>1 DEF IInv, KeysFit
    <2>2. ASSUME NEW j \in Ids, fo'[j].context # None
          PROVE  fo'[j].file \in Files /\ context'[fo'[j].context].key = KeyOf[fo'[j].file]
      <3>1. j # i /\ fo'[j] = fo[j] /\ fo[j].context # None /\ fo[j].context \in Ids
        BY <1>13, <2>2 DEF IInv, Types, FoType
      <3>2. PICK e \in Ids : e = fo[j].context
        BY <3>1
      <3>3. e = c => context[c].ref # 1
        BY <1>15, <3>1, <3>2 DEF AttachedTo
      <3>4. fo[j].file \in Files /\ context[e].key = KeyOf[fo[j].file]
        BY <3>1, <3>2 DEF IInv, KeysFit
      <3> QED
        BY <1>16, <3>1, <3>2, <3>3, <3>4
    <2>3. ASSUME NEW u \in In({"increment"} \cup Making)'
          PROVE  context'[at'[u].context].key = KeyOf[at'[u].file]
      <3>1. u \in In({"increment"} \cup Making) /\ at'[u] = at[u]
        <4>1. "dereference" \notin {"increment"} \cup Making
          BY DEF Making
        <4> QED
          BY <1>20, <1>21, <2>3, <4>1
      <3>2. PICK e \in Ids : e = at[u].context
        BY <3>1 DEF IInv, PlacesFit, PlaceFits, In
      <3>3. e = c => context[c].ref # 1
        BY <1>15, <3>1, <3>2 DEF ThreadsAt
      <3>4. context[e].key = KeyOf[at[u].file]
        BY <3>1, <3>2 DEF IInv, KeysFit, Key
      <3> QED
        BY <1>16, <3>1, <3>2, <3>3, <3>4
    <2> QED
      BY <2>1, <2>2, <2>3 DEF KeysFit, Key
  <1>30. LinesFit' /\ StreamsFit'
    BY <1>4, <1>6, <1>9, <1>10, LinesStay, StreamsStay DEF Making
  <1>31. FilesFit'
    <2>1. /\ \A j \in foHash : j \in Ids /\ j # i /\ fo'[j] = fo[j]
          /\ foHash' = foHash /\ system' = system
      BY <1>4, <1>6, <1>13 DEF IInv, Types
    <2>2. CASE at[t].op = "close"
      <3>1. at'[t].op \notin {"create", "adopt", "close"} /\ at'[t].file = None
        BY <1>7, <1>8, <1>11, <2>2, OpAssumption
      <3>2. ASSUME NEW u \in Threads, NEW v \in Threads, at'[u].op \in {"create", "close"}, at'[v].file = at'[u].file
            PROVE  u = v
        <4>1. u # t /\ at'[u] = at[u] /\ at[u].file \in Files
          BY <1>11, <3>1, <3>2, OpAssumption DEF IInv, PlacesFit, PlaceFits, Idle
        <4>2. v # t
          BY <3>1, <3>2, <4>1, NoneAssumption
        <4> QED
          BY <1>11, <3>2, <4>1, <4>2 DEF IInv, FilesFit
      <3> QED
        BY <1>11, <2>1, <3>1, <3>2 DEF IInv, FilesFit
    <2>3. CASE at[t].op = "adopt"
      <3>1. \A u \in Threads : at'[u].op = at[u].op /\ at'[u].file = at[u].file
        BY <1>7, <1>11, <2>3
      <3>2. ASSUME NEW u \in Threads,
                   \/ at'[u].op = "create" /\ at'[u].pc \in Unattached \cup {"insertFo"}
                   \/ at'[u].op = "adopt" /\ at'[u].pc = "insertFo"
            PROVE  \A j \in foHash : fo[j].file # at[u].file
        <4>1. u # t
          BY <1>11, <1>21, <3>2
        <4> QED
          BY <1>11, <3>2, <4>1 DEF IInv, FilesFit
      <3> QED
        BY <2>1, <3>1, <3>2 DEF IInv, FilesFit
    <2> QED
      BY <1>6, <2>2, <2>3
  <1> QED
    BY <1>11, <1>17, <1>18, <1>19, <1>23, <1>26, <1>27, <1>28, <1>29, <1>30, <1>31 DEF IInv

-----------------------------------------------------------------------------
(* The operations begin                                                       *)

LEMMA BeginFits ==
  ASSUME IInv, NEW t \in Threads, NEW op \in {"create", "adopt"}, NEW f \in Files, Begin(t, op, f)
  PROVE  IInv'
  <1>1. PICK i : i = CHOOSE j \in FreeFos : TRUE
    OBVIOUS
  <1>2. i \in Ids /\ fo[i].ref = 0
    BY <1>1 DEF Begin, FreeFos
  <1>3. PICK r, e : /\ r = [Idle EXCEPT !.pc = "find", !.op = op, !.file = f, !.fo = i]
                    /\ e = [ref |-> 1, file |-> f, context |-> None, open |-> TRUE]
    OBVIOUS
  <1>4. /\ at[t].pc = "idle" /\ at' = [at EXCEPT ![t] = r] /\ fo' = [fo EXCEPT ![i] = e]
        /\ op = "create" => system[f] = "new" /\ system' = [system EXCEPT ![f] = "busy"]
        /\ op = "adopt" => f \in StreamFiles /\ system[f] = "open" /\ UNCHANGED system
        /\ UNCHANGED <<context, foHash, contextHash, line, holders, streamLine, streamHolders>>
    BY <1>1, <1>3 DEF Begin, Hashes, Locks
  <1>5. /\ r.pc = "find" /\ r.op = op /\ r.file = f /\ r.fo = i /\ r.context = None /\ r.duplicate = None
        /\ ~r.barrier /\ r \in AtType
    BY <1>2, <1>3 DEF Idle, AtType, Pcs, Unattached
  <1>6. at[t] = Idle /\ ~at[t].barrier /\ at[t].fo = None /\ at[t].duplicate = None
    <2>1. at[t] = Idle
      BY <1>4 DEF IInv, PlacesFit, PlaceFits
    <2>2. ~Idle.barrier /\ Idle.fo = None /\ Idle.duplicate = None
      BY DEF Idle
    <2> QED
      BY <2>1, <2>2
  <1>7. Becomes(t, r)
    BY <1>2, <1>4, <1>5, OpAssumption DEF Becomes, PlaceFits, Attached, Closing, Accounted, Unattached, Making
  <1>8. at'[t] = r /\ (\A u \in Threads : u # t => at'[u] = at[u]) /\ PlacesFit' /\ at' \in [Threads -> AtType]
    BY <1>7, PlacesStay
  <1>9. i # None /\ f # None /\ i \notin foHash /\ (\A u \in Threads : at[u].fo # i /\ at[u].duplicate # i) /\ fo[i].context = None
    BY <1>2, FoLives, NoneAssumption DEF IInv, FosFit
  <1>10. /\ fo' \in [Ids -> FoType] /\ fo'[i].ref = 1 /\ fo'[i].file = f /\ fo'[i].context = None
         /\ (\A j \in Ids : j # i => fo'[j] = fo[j]) /\ \A j \in Ids : fo'[j].context = fo[j].context
    <2>1. e \in FoType /\ e.ref = 1 /\ e.file = f /\ e.context = None
      BY <1>3 DEF FoType
    <2>2. fo \in [Ids -> FoType]
      BY DEF IInv, Types
    <2> QED
      BY <1>2, <1>4, <1>9, <2>1, <2>2
  <1>11. system \in [Files -> {"new", "busy", "open", "closed"}] /\ system' \in [Files -> {"new", "busy", "open", "closed"}]
    BY <1>4 DEF IInv, Types
  <1>12. Types'
    BY <1>4, <1>8, <1>10, <1>11 DEF IInv, Types
  <1>13. FosFit'
    <2>1. FoFits(r)'
      BY <1>4, <1>5, <1>9, <1>10 DEF FoFits, Attached, Closing, Accounted, Unattached, Making
    <2>2. \A u \in Threads, j \in Ids : u # t /\ (at[u].fo = j \/ at[u].duplicate = j) =>
            fo'[j].file = fo[j].file /\ fo'[j].context = fo[j].context /\ (j \in foHash' <=> j \in foHash)
      BY <1>4, <1>9, <1>10
    <2>3. \A j \in foHash' : fo'[j].context # None /\ fo'[j].file # None
      BY <1>4, <1>9, <1>10 DEF IInv, FosFit, Types
    <2>4. \A j \in Ids : fo'[j].ref = 0 => fo'[j].context = None
      BY <1>10 DEF IInv, FosFit
    <2>5. \A u \in Threads : u # t /\ at[u].fo = r.fo /\ r.fo # None => r.fo \in foHash'
      BY <1>5, <1>9
    <2> QED
      BY <1>7, <2>1, <2>2, <2>3, <2>4, <2>5, FosNext
  <1>14. FoCounts'
    <2>1. FoThreads(i) = {} /\ FoThreads(i)' = {t} /\ \A j \in Ids : j # i => FoThreads(j)' = FoThreads(j)
      BY <1>5, <1>6, <1>8, <1>9, NoneAssumption DEF FoThreads
    <2>2. PICK x, z : x = 1 /\ z = 0 /\ x \in Int /\ z \in Int
      OBVIOUS
    <2>3. Cardinality(FoThreads(i)) = 0 /\ Cardinality(FoThreads(i)') = 1
      BY <2>1, FS_EmptySet, FS_Singleton
    <2>4. Cardinality(FoThreads(i)') = Cardinality(FoThreads(i)) + x
      BY <2>2, <2>3
    <2>5. (IF i \in foHash' THEN 1 ELSE 0) = (IF i \in foHash THEN 1 ELSE 0) + z
      BY <1>4, <2>2
    <2>6. fo'[i].ref = fo[i].ref + (x + z)
      BY <1>2, <1>10, <2>2
    <2>7. \A j \in Ids : j # i => FoThreads(j)' = FoThreads(j) /\ fo'[j].ref = fo[j].ref
      BY <1>10, <2>1
    <2>8. \A j \in Ids : j # i => (j \in foHash' <=> j \in foHash)
      BY <1>4
    <2> QED
      BY <1>2, <2>2, <2>4, <2>5, <2>6, <2>7, <2>8, FoCountsNext
  <1>15. SameUse(t, r) /\ SameCount(t, r) /\ SameDrop(t, r) /\ r.pc \notin {"increment"} \cup Making
    BY <1>4, <1>5 DEF SameUse, SameCount, SameDrop, Accounted, Making
  <1>16. ContextCounts' /\ NewFits'
    BY <1>4, <1>7, <1>10, <1>15, ContextCountsStay, NewStays
  <1>17. KeysFit'
    <2>1. \A j \in Ids : fo'[j].context = fo[j].context /\ (fo[j].context # None => fo'[j].file = fo[j].file)
      BY <1>9, <1>10
    <2> QED
      BY <1>4, <1>7, <1>15, <2>1, KeysStay DEF IInv, KeysFit
  <1>18. CounterCountsFileObjects' /\ DroppersFit'
    BY <1>4, <1>7, <1>10, <1>12, <1>13, <1>15, CountersStay, DroppersStay
  <1>19. LinesFit' /\ StreamsFit'
    BY <1>4, <1>5, <1>6, <1>7, LinesStay, StreamsStay DEF Making
  <1>20. FilesFit'
    <2>1. \A u \in Threads : at[u].op # None => at[u].file \in Files /\ at[u].op \in {"create", "adopt", "close"}
      BY DEF IInv, PlacesFit, PlaceFits, Idle, Types, AtType
    <2>2. \A u \in Threads : /\ at[u].op = "create" => system[at[u].file] = "busy"
                             /\ at[u].op = "adopt" => system[at[u].file] = "open"
                             /\ at[u].op = "close" => system[at[u].file] = "closed"
      BY DEF IInv, FilesFit
    <2>3. \A u \in Threads : at[u].file = f => at[u].op # None
      BY <1>9 DEF IInv, PlacesFit, PlaceFits, Idle
    <2>4. \A u \in Threads : at[u].file = f => at[u].op = "adopt" /\ op = "adopt"
      BY <1>4, <2>1, <2>2, <2>3
    <2>5. op = "create" => \A j \in foHash : fo[j].file # f
      BY <1>4 DEF IInv, FilesFit
    <2>6. \A j \in foHash : j \in Ids /\ fo'[j] = fo[j] /\ fo[j].file \in Files
      BY <1>9, <1>10 DEF IInv, Types, FoType, FosFit
    <2>7. \A g \in Files : g # f => system'[g] = system[g]
      BY <1>4, <1>11
    <2>8. op = "create" => system'[f] = "busy"
      BY <1>4, <1>11
    <2>9. op = "adopt" => system' = system /\ system[f] = "open"
      BY <1>4
    <2>10. ASSUME NEW u \in Threads
           PROVE  /\ at'[u].op = "create" => system'[at'[u].file] = "busy"
                  /\ at'[u].op = "adopt" => system'[at'[u].file] = "open"
                  /\ at'[u].op = "close" => system'[at'[u].file] = "closed"
      <3>1. CASE u = t
        BY <1>5, <1>8, <2>8, <2>9, <3>1
      <3>2. CASE u # t
        <4>1. at'[u] = at[u]
          BY <1>8, <3>2
        <4> QED
          BY <2>1, <2>2, <2>4, <2>7, <2>9, <4>1, OpAssumption
      <3> QED
        BY <3>1, <3>2
    <2>11. ASSUME NEW u \in Threads, NEW v \in Threads, at'[u].op \in {"create", "close"}, at'[v].file = at'[u].file
           PROVE  u = v
      <3>1. CASE u = t
        <4>1. op = "create" /\ at'[v].file = f
          BY <1>5, <1>8, <2>11, <3>1
        <4> QED
          BY <1>8, <2>4, <3>1, <4>1
      <3>2. CASE u # t
        <4>1. at'[u] = at[u] /\ at[u].file # f
          BY <1>8, <2>4, <2>11, <3>2
        <4>2. v # t
          BY <1>5, <1>8, <2>11, <4>1
        <4> QED
          BY <1>8, <2>11, <4>1, <4>2 DEF IInv, FilesFit
      <3> QED
        BY <3>1, <3>2
    <2>12. \A j \in foHash : system'[fo'[j].file] \in {"busy", "open"}
      BY <2>5, <2>6, <2>7, <2>9 DEF IInv, FilesFit
    <2>13. \A j, k \in foHash : fo'[j].file = fo'[k].file => j = k
      BY <2>6 DEF IInv, FilesFit
    <2>14. ASSUME NEW u \in Threads,
                  \/ at'[u].op = "create" /\ at'[u].pc \in Unattached \cup {"insertFo"}
                  \/ at'[u].op = "adopt" /\ at'[u].pc = "insertFo"
           PROVE  \A j \in foHash : fo'[j].file # at'[u].file
      <3>1. CASE u = t
        BY <1>5, <1>8, <2>5, <2>6, <2>14, <3>1
      <3>2. CASE u # t
        BY <1>8, <2>6, <2>14, <3>2 DEF IInv, FilesFit
      <3> QED
        BY <3>1, <3>2
    <2> QED
      BY <1>4, <2>10, <2>11, <2>12, <2>13, <2>14 DEF FilesFit
  <1> QED
    BY <1>8, <1>12, <1>13, <1>14, <1>16, <1>17, <1>18, <1>19, <1>20 DEF IInv

LEMMA BeginCloseFits ==
  ASSUME IInv, NEW t \in Threads, NEW f \in Files, BeginClose(t, f)
  PROVE  IInv'
  <1>1. PICK i : i = FindFo(f)
    OBVIOUS
  <1>2. /\ at[t].pc = "idle" /\ system[f] = "open" /\ (\A u \in Threads : at[u].file # f)
        /\ system' = [system EXCEPT ![f] = "closed"]
        /\ UNCHANGED <<fo, context, contextHash, line, holders, streamLine, streamHolders>>
    BY DEF BeginClose, Locks
  <1>3. /\ system \in [Files -> {"new", "busy", "open", "closed"}] /\ system' \in [Files -> {"new", "busy", "open", "closed"}]
        /\ system'[f] = "closed" /\ \A g \in Files : g # f => system'[g] = system[g]
    BY <1>2 DEF IInv, Types
  <1>4. /\ \A u \in Threads : at[u].op # None => at[u].file \in Files /\ at[u].file # f
        /\ \A j \in foHash : j \in Ids /\ fo[j].file \in Files
    BY <1>2 DEF IInv, PlacesFit, PlaceFits, Idle, Types, FoType, FosFit
  <1>5. \A u \in Threads : /\ at[u].op = "create" => system'[at[u].file] = "busy"
                           /\ at[u].op = "adopt" => system'[at[u].file] = "open"
                           /\ at[u].op = "close" => system'[at[u].file] = "closed"
    BY <1>3, <1>4, OpAssumption DEF IInv, FilesFit
  <1>6. ASSUME i = None, UNCHANGED <<foHash, at>>
        PROVE  IInv'
    <2>1. \A j \in foHash : fo[j].file # f
      BY <1>1, <1>6, FoundFo
    <2>2. \A j \in foHash : system'[fo[j].file] \in {"busy", "open"}
      BY <1>3, <1>4, <2>1 DEF IInv, FilesFit
    <2>3. FilesFit'
      BY <1>2, <1>5, <1>6, <2>2 DEF IInv, FilesFit
    <2>4. StreamsFit'
      BY <1>2, <1>6 DEF IInv, StreamsFit, Lock, In
    <2> QED
      BY <1>2, <1>3, <1>6, <2>3, <2>4, OnlyTheSystem
  <1>7. ASSUME i # None, foHash' = foHash \ {i},
               at' = [at EXCEPT ![t] = [Idle EXCEPT !.pc = "close", !.op = "close", !.file = f, !.fo = i,
                                                    !.context = fo[i].context]]
        PROVE  IInv'
    <2>1. PICK r, c : /\ r = [Idle EXCEPT !.pc = "close", !.op = "close", !.file = f, !.fo = i, !.context = c]
                      /\ c = fo[i].context
      OBVIOUS
    <2>2. i \in foHash /\ i \in Ids /\ fo[i].file = f
      BY <1>1, <1>4, <1>7, FoundFo
    <2>3. c \in Ids /\ fo \in [Ids -> FoType] /\ fo[i] \in FoType
      BY <2>1, <2>2 DEF IInv, Types, FoType, FosFit
    <2>4. /\ r.pc = "close" /\ r.op = "close" /\ r.file = f /\ r.fo = i /\ r.context = c /\ r.duplicate = None
          /\ ~r.barrier /\ r \in AtType
      BY <2>1, <2>2, <2>3 DEF Idle, AtType, Pcs, Attached, Closing
    <2>5. at[t] = Idle /\ ~at[t].barrier /\ at[t].fo = None /\ at[t].duplicate = None
      <3>1. at[t] = Idle
        BY <1>2 DEF IInv, PlacesFit, PlaceFits
      <3>2. ~Idle.barrier /\ Idle.fo = None /\ Idle.duplicate = None
        BY DEF Idle
      <3> QED
        BY <3>1, <3>2
    <2>6. Becomes(t, r)
      BY <1>7, <2>1, <2>2, <2>3, <2>4, OpAssumption DEF Becomes, PlaceFits, Attached, Closing, Accounted, Unattached, Making
    <2>7. at'[t] = r /\ (\A u \in Threads : u # t => at'[u] = at[u]) /\ PlacesFit' /\ at' \in [Threads -> AtType]
      BY <2>6, PlacesStay
    <2>8. Types'
      BY <1>2, <1>3, <1>7, <2>7 DEF IInv, Types
    <2>9. i # None /\ \A u \in Threads : at[u].fo # i /\ at[u].duplicate # i
      <3>1. i # None
        BY <1>7
      <3>2. ASSUME NEW u \in Threads, at[u].fo = i \/ at[u].duplicate = i
            PROVE  FALSE
        <4>1. at[u].pc # "idle"
          BY <3>1, <3>2 DEF IInv, PlacesFit, PlaceFits, Idle
        <4>2. fo[i].file = at[u].file
          BY <3>1, <3>2, <4>1 DEF IInv, FosFit, FoFits
        <4> QED
          BY <1>2, <2>2, <4>2
      <3> QED
        BY <3>1, <3>2
    <2>10. FosFit'
      <3>1. FoFits(r)'
        BY <1>2, <1>7, <2>1, <2>2, <2>4 DEF FoFits, Attached, Closing, Accounted, Unattached, Making
      <3>2. \A u \in Threads, j \in Ids : u # t /\ (at[u].fo = j \/ at[u].duplicate = j) =>
              fo'[j].file = fo[j].file /\ fo'[j].context = fo[j].context /\ (j \in foHash' <=> j \in foHash)
        BY <1>2, <1>7, <2>9
      <3>3. \A j \in foHash' : fo'[j].context # None /\ fo'[j].file # None
        BY <1>2, <1>7 DEF IInv, FosFit
      <3>4. \A j \in Ids : fo'[j].ref = 0 => fo'[j].context = None
        BY <1>2 DEF IInv, FosFit
      <3>5. \A u \in Threads : u # t /\ at[u].fo = r.fo /\ r.fo # None => r.fo \in foHash'
        BY <2>4, <2>9
      <3> QED
        BY <2>6, <3>1, <3>2, <3>3, <3>4, <3>5, FosNext
    <2>11. FoCounts'
      <3>1. FoThreads(i) = {} /\ FoThreads(i)' = {t} /\ \A j \in Ids : j # i => FoThreads(j)' = FoThreads(j)
        BY <2>4, <2>5, <2>7, <2>9, NoneAssumption DEF FoThreads
      <3>2. PICK x, y : x = 1 /\ y = 0 - 1 /\ x \in Int /\ y \in Int
        OBVIOUS
      <3>3. Cardinality(FoThreads(i)) = 0 /\ Cardinality(FoThreads(i)') = 1
        BY <3>1, FS_EmptySet, FS_Singleton
      <3>4. Cardinality(FoThreads(i)') = Cardinality(FoThreads(i)) + x
        BY <3>2, <3>3
      <3>5. (IF i \in foHash' THEN 1 ELSE 0) = (IF i \in foHash THEN 1 ELSE 0) + y
        BY <1>7, <2>2, <3>2
      <3>6. fo'[i].ref = fo[i].ref + (x + y)
        <4>1. PICK n : n = fo[i].ref /\ n \in Nat
          BY <2>3 DEF FoType
        <4>2. n = n + (x + y)
          BY <3>2, <4>1
        <4> QED
          BY <1>2, <4>1, <4>2
      <3>7. \A j \in Ids : j # i => FoThreads(j)' = FoThreads(j) /\ fo'[j].ref = fo[j].ref
        BY <1>2, <3>1
      <3>8. \A j \in Ids : j # i => (j \in foHash' <=> j \in foHash)
        BY <1>7
      <3> QED
        BY <2>2, <3>2, <3>4, <3>5, <3>6, <3>7, <3>8, FoCountsNext
    <2>12. SameUse(t, r) /\ SameCount(t, r) /\ SameDrop(t, r) /\ r.pc \notin {"increment"} \cup Making \cup Unattached \cup {"insertFo", "unlockStream"}
      BY <1>2, <2>4 DEF SameUse, SameCount, SameDrop, Accounted, Making, Unattached
    <2>13. ContextCounts' /\ NewFits' /\ KeysFit'
      BY <1>2, <2>6, <2>12, ContextCountsStay, NewStays, KeysStay DEF IInv, KeysFit
    <2>14. CounterCountsFileObjects' /\ DroppersFit'
      BY <1>2, <2>6, <2>8, <2>10, <2>12, CountersStay, DroppersStay
    <2>15. LinesFit' /\ StreamsFit'
      BY <1>2, <2>4, <2>5, <2>6, LinesStay, StreamsStay DEF Making
    <2>16. FilesFit'
      <3>1. \A j \in foHash' : j \in foHash /\ fo[j].file # f
        BY <1>7, <2>2 DEF IInv, FilesFit
      <3>2. \A j \in foHash' : system'[fo[j].file] \in {"busy", "open"}
        BY <1>3, <1>4, <3>1 DEF IInv, FilesFit
      <3>3. ASSUME NEW u \in Threads
            PROVE  /\ at'[u].op = "create" => system'[at'[u].file] = "busy"
                   /\ at'[u].op = "adopt" => system'[at'[u].file] = "open"
                   /\ at'[u].op = "close" => system'[at'[u].file] = "closed"
        BY <1>3, <1>5, <2>4, <2>7
      <3>4. ASSUME NEW u \in Threads, NEW v \in Threads, at'[u].op \in {"create", "close"}, at'[v].file = at'[u].file
            PROVE  u = v
        <4>1. CASE u = t
          BY <1>2, <2>4, <2>7, <3>4, <4>1
        <4>2. CASE u # t
          <5>1. v # t
            BY <1>2, <2>4, <2>7, <3>4, <4>2
          <5> QED
            BY <2>7, <3>4, <4>2, <5>1 DEF IInv, FilesFit
        <4> QED
          BY <4>1, <4>2
      <3>5. ASSUME NEW u \in Threads,
                   \/ at'[u].op = "create" /\ at'[u].pc \in Unattached \cup {"insertFo"}
                   \/ at'[u].op = "adopt" /\ at'[u].pc = "insertFo"
            PROVE  \A j \in foHash' : fo'[j].file # at'[u].file
        BY <1>2, <2>4, <2>7, <3>1, <3>5 DEF IInv, FilesFit
      <3>6. \A j, k \in foHash' : fo'[j].file = fo'[k].file => j = k
        BY <1>2, <3>1 DEF IInv, FilesFit
      <3> QED
        BY <1>2, <3>2, <3>3, <3>4, <3>5, <3>6 DEF FilesFit
    <2> QED
      BY <2>7, <2>8, <2>10, <2>11, <2>13, <2>14, <2>15, <2>16 DEF IInv
  <1> QED
    BY <1>1, <1>6, <1>7 DEF BeginClose

-----------------------------------------------------------------------------
(* The invariant of the specification                                         *)

LEMMA IInit == Init => IInv
  <1> SUFFICES ASSUME Init PROVE IInv
    OBVIOUS
  <1>1. /\ Idle \in AtType /\ PlaceFits(Idle) /\ FreeFo \in FoType /\ FreeContext \in ContextType
        /\ Idle.pc = "idle" /\ Idle.op = None /\ Idle.fo = None /\ Idle.duplicate = None
        /\ FreeFo.ref = 0 /\ FreeFo.context = None /\ FreeContext.ref = 0 /\ FreeContext.counter = 0
    <2>1. PICK e : e = Idle
      OBVIOUS
    <2>2. /\ e \in AtType /\ e.pc = "idle" /\ e.op = None /\ e.fo = None /\ e.duplicate = None /\ ~e.barrier
      BY <2>1 DEF Idle, AtType, Pcs
    <2>3. PlaceFits(e)
      BY <2>1, <2>2, OpAssumption DEF PlaceFits, Attached, Closing, Accounted, Unattached, Making
    <2>4. /\ FreeFo \in FoType /\ FreeContext \in ContextType
          /\ FreeFo.ref = 0 /\ FreeFo.context = None /\ FreeContext.ref = 0 /\ FreeContext.counter = 0
      BY DEF FreeFo, FoType, FreeContext, ContextType
    <2> QED
      BY <2>1, <2>2, <2>3, <2>4
  <1>2. /\ \A t \in Threads : at[t] = Idle
        /\ \A i \in Ids : fo[i] = FreeFo /\ context[i] = FreeContext
        /\ foHash = {} /\ contextHash = {} /\ streamHolders = {}
        /\ line = [k \in Keys |-> <<>>] /\ streamLine = [l \in Ids \X StreamFiles |-> <<>>]
    BY DEF Init, HashLine!Init, StreamLock!Init
  <1>3. Types
    BY <1>1, <1>2 DEF Init, Types
  <1>4. PlacesFit
    BY <1>1, <1>2 DEF PlacesFit
  <1>5. FosFit
    BY <1>1, <1>2 DEF FosFit, FoFits, Attached, Closing, Accounted, Unattached, Making
  <1>6. \A S : "idle" \notin S => In(S) = {}
    BY <1>1, <1>2 DEF In
  <1>7. FoCounts
    <2>1. \A i \in Ids : FoThreads(i) = {}
      BY <1>1, <1>2, NoneAssumption DEF FoThreads
    <2>2. \A i \in Ids : Cardinality(FoThreads(i)) = 0
      BY <2>1, FS_EmptySet
    <2>3. \A i \in Ids : fo[i].ref = 0 /\ i \notin foHash
      BY <1>1, <1>2
    <2> QED
      BY <2>2, <2>3 DEF FoCounts
  <1>8. \A c \in Ids : AttachedTo(c) = {} /\ ThreadsAt(c) = {} /\ OpenedIn(c) = {} /\ ~Private(c)
    BY <1>1, <1>2, <1>6, NoneAssumption DEF AttachedTo, ThreadsAt, OpenedIn, Private, Making
  <1>9. ContextCounts /\ CounterCountsFileObjects
    <2>1. \A c \in Ids : Cardinality(AttachedTo(c)) = 0 /\ Cardinality(ThreadsAt(c)) = 0 /\ Cardinality(OpenedIn(c)) = 0
      BY <1>8, FS_EmptySet
    <2>2. \A c \in Ids : context[c].ref = 0 /\ context[c].counter = 0 /\ c \notin contextHash /\ ~Private(c)
      BY <1>1, <1>2, <1>8
    <2> QED
      BY <2>1, <2>2 DEF ContextCounts, CounterCountsFileObjects
  <1>10. NewFits /\ DroppersFit
    BY <1>2, <1>6, <1>8 DEF NewFits, DroppersFit, Making
  <1>11. KeysFit
    BY <1>1, <1>2, <1>6 DEF KeysFit, Making
  <1>12. LinesFit /\ StreamsFit
    BY <1>2, <1>6 DEF LinesFit, StreamsFit, IsInjective, ToSet
  <1>13. FilesFit
    BY <1>1, <1>2, OpAssumption DEF FilesFit
  <1> QED
    BY <1>3, <1>4, <1>5, <1>7, <1>9, <1>10, <1>11, <1>12, <1>13 DEF IInv

LEMMA INext == FileHashFails = FALSE /\ IInv /\ [Next]_vars => IInv'
  <1> SUFFICES ASSUME FileHashFails = FALSE, IInv, [Next]_vars PROVE IInv'
    OBVIOUS
  <1>1. ASSUME NEW t \in Threads, Step(t)
        PROVE  IInv'
    BY <1>1, FindInHashFits, IncrementFits, NewContextFits, GrantHashLineFits, InsertContextFits,
       UnlockHashLineFits, AskStreamLockFits, GrantStreamLockFits, LookupDuplicateFits, InsertFoFits,
       UnlockStreamFits, ExitFits, MarkClosedFits, LooksLastFits, DecrementFits, LateBarrierFits,
       DropContextFits, RemoveBarrierFits, DereferenceClosedFits DEF Step
  <1>2. ASSUME NEW t \in Threads, NEW f \in Files, NEW op \in {"create", "adopt"}, Begin(t, op, f)
        PROVE  IInv'
    BY <1>2, BeginFits
  <1>3. ASSUME NEW t \in Threads, NEW f \in Files, BeginClose(t, f)
        PROVE  IInv'
    BY <1>3, BeginCloseFits
  <1>4. CASE UNCHANGED vars
    <2>1. UNCHANGED <<system, fo, context, foHash, contextHash, line, streamLine, streamHolders, at>>
      BY <1>4 DEF vars
    <2>2. StreamsFit'
      BY <2>1 DEF IInv, StreamsFit, Lock, In
    <2> QED
      BY <2>1, <2>2, Untouched
  <1> QED
    BY <1>1, <1>2, <1>3, <1>4 DEF Next

LEMMA Always == ASSUME FileHashFails = FALSE PROVE Spec => []IInv
  <1>1. Init => IInv
    BY IInit
  <1>2. IInv /\ [Next]_vars => IInv'
    BY INext
  <1> QED
    BY <1>1, <1>2, PTL DEF Spec

LEMMA InvariantHolds == IInv => TableInvariant
  <1> SUFFICES ASSUME IInv PROVE TableInvariant
    OBVIOUS
  <1>1. TypeOK
    <2>1. ASSUME NEW i \in Ids
          PROVE  fo[i] \in [ref : 0..(Cardinality(Threads) + 1), file : Files \cup {None},
                            context : Ids \cup {None}, open : BOOLEAN]
      <3>1. PICK n, m : n = Cardinality(FoThreads(i)) /\ m = Cardinality(Threads)
        OBVIOUS
      <3>2. n \in Nat /\ m \in Nat /\ n <= m
        <4>1. FoThreads(i) \in SUBSET Threads
          BY DEF FoThreads
        <4>2. Cardinality(FoThreads(i)) <= Cardinality(Threads)
          BY <4>1, ThreadsAssumption, FS_Subset
        <4>3. Cardinality(FoThreads(i)) \in Nat /\ Cardinality(Threads) \in Nat
          BY <4>1, ThreadsAssumption, FiniteParts, FS_CardinalityType
        <4> QED
          BY <3>1, <4>2, <4>3
      <3>3. fo[i].ref = n + (IF i \in foHash THEN 1 ELSE 0)
        BY <3>1 DEF IInv, FoCounts
      <3>4. fo[i].ref \in 0..(m + 1)
        BY <3>2, <3>3
      <3>5. fo[i] \in FoType
        BY DEF IInv, Types
      <3> QED
        BY <3>1, <3>4, <3>5 DEF FoType
    <2>2. fo \in [Ids -> [ref : 0..(Cardinality(Threads) + 1), file : Files \cup {None},
                          context : Ids \cup {None}, open : BOOLEAN]]
      BY <2>1 DEF IInv, Types
    <2>3. /\ system \in [Files -> {"new", "busy", "open", "closed"}]
          /\ context \in [Ids -> [ref : Nat, key : Keys \cup {None}, counter : Nat]]
          /\ foHash \subseteq Ids /\ contextHash \subseteq Ids
      BY DEF IInv, Types, ContextType
    <2>4. \A i \in foHash : fo[i].ref > 0
      BY <2>3, FoLives
    <2>5. \A c \in contextHash : context[c].ref > 0
      BY <2>3, ContextLives
    <2>6. ASSUME NEW i \in Ids, fo[i].context # None
          PROVE  context[fo[i].context].ref > 0
      <3>1. PICK c \in Ids : c = fo[i].context
        BY <2>6 DEF IInv, Types, FoType
      <3>2. i \in AttachedTo(c)
        BY <3>1 DEF AttachedTo
      <3> QED
        BY <3>1, <3>2, ContextLives
    <2>7. ASSUME NEW t \in Threads, at[t].fo # None
          PROVE  fo[at[t].fo].ref > 0
      <3>1. PICK i \in Ids : i = at[t].fo
        BY <2>7 DEF IInv, Types, AtType
      <3> QED
        BY <3>1, FoLives
    <2>8. ASSUME NEW t \in In({"increment"})
          PROVE  context[at[t].context].ref > 0
      <3>1. PICK c \in Ids : c = at[t].context
        BY <2>8 DEF In, IInv, PlacesFit, PlaceFits
      <3>2. t \in ThreadsAt(c)
        BY <2>8, <3>1 DEF ThreadsAt, In
      <3> QED
        BY <3>1, <3>2, ContextLives
    <2> QED
      BY <2>2, <2>3, <2>4, <2>5, <2>6, <2>7, <2>8 DEF TypeOK
  <1>2. HashMatchesCounters
    BY DEF IInv, DroppersFit, HashMatchesCounters, InHash
  <1>3. OneFileObjectPerFile
    BY DEF IInv, FilesFit, OneFileObjectPerFile
  <1> QED
    BY <1>1, <1>2, <1>3 DEF TableInvariant, IInv

LEMMA DropHolds == IInv => DropsItsOwnContext
  <1> SUFFICES ASSUME IInv, NEW t \in In({"lateBarrier", "drop"})
               PROVE  FindContext(Key(t)) = at[t].context
    BY DEF DropsItsOwnContext
  <1>1. t \in Threads /\ at[t].pc \in {"lateBarrier", "drop"}
    BY DEF In
  <1> QED
    BY <1>1, DropsItsOwn

LEMMA NothingHolds == IInv => NothingIsLeftBehind
  <1> SUFFICES ASSUME IInv, \A f \in Files : system[f] = "closed", In({"idle"}) = Threads
               PROVE  /\ foHash = {} /\ contextHash = {}
                      /\ \A i \in Ids : fo[i].ref = 0 /\ context[i].ref = 0
                      /\ \A k \in Keys : line[k] = <<>>
    BY DEF NothingIsLeftBehind
  <1>1. /\ Idle.fo = None /\ Idle.duplicate = None /\ ~Idle.barrier
    BY DEF Idle
  <1>2. \A t \in Threads : at[t].pc = "idle" /\ at[t] = Idle
    BY DEF In, IInv, PlacesFit, PlaceFits
  <1>3. foHash = {}
    <2>1. \A i \in foHash : i \in Ids /\ fo[i].file \in Files
      BY DEF IInv, Types, FoType, FosFit
    <2> QED
      BY <2>1 DEF IInv, FilesFit
  <1>4. \A i \in Ids : fo[i].ref = 0
    <2>1. \A i \in Ids : FoThreads(i) = {}
      BY <1>1, <1>2, NoneAssumption DEF FoThreads
    <2> QED
      BY <1>3, <2>1, FS_EmptySet DEF IInv, FoCounts
  <1>5. \A i \in Ids : fo[i].context = None
    BY <1>4 DEF IInv, FosFit
  <1>6. \A S : "idle" \notin S => In(S) = {}
    BY <1>2 DEF In
  <1>7. \A c \in Ids : AttachedTo(c) = {} /\ ThreadsAt(c) = {} /\ OpenedIn(c) = {} /\ ~Private(c)
    BY <1>4, <1>5, <1>6, NoneAssumption DEF AttachedTo, ThreadsAt, OpenedIn, Counted, Private, Making
  <1>8. contextHash = {}
    <2>1. ASSUME NEW c \in contextHash
          PROVE  FALSE
      <3>1. c \in Ids
        BY DEF IInv, Types
      <3>2. context[c].counter > 0
        BY <1>6 DEF IInv, DroppersFit
      <3> QED
        BY <1>7, <3>1, <3>2, Opened
    <2> QED
      BY <2>1
  <1>9. \A i \in Ids : context[i].ref = 0
    BY <1>7, <1>8, ContextLives
  <1>10. ASSUME NEW k \in Keys
         PROVE  line[k] = <<>>
    <2>1. line[k] \in Seq(Threads)
      BY DEF IInv, Types
    <2>2. \A t \in ToSet(line[k]) : t \in Threads
      BY <2>1 DEF ToSet
    <2>3. \A t \in ToSet(line[k]) : FALSE
      BY <1>1, <1>2, <2>2 DEF IInv, LinesFit, Making
    <2>4. PICK s : s = line[k]
      OBVIOUS
    <2>5. s \in Seq(Threads) /\ Len(s) \in Nat /\ DOMAIN s = 1..Len(s)
      BY <2>1, <2>4
    <2>6. \A j \in DOMAIN s : FALSE
      BY <2>3, <2>4 DEF ToSet
    <2>7. Len(s) = 0
      BY <2>5, <2>6
    <2> QED
      BY <2>4, <2>5, <2>7
  <1> QED
    BY <1>3, <1>4, <1>8, <1>9, <1>10

(***************************************************************************)
(* Whatever threads open, adopt and close files at once: a file object and *)
(* a context have as many references as there are pointers to them, a      *)
(* context's counter is the number of its open file objects, it is in the  *)
(* hash as long as it has one, and there is one context and one file object*)
(* in the hashes for a file (lines 23-34 and the assertions of lines 730   *)
(* and 975 of fileobject.c).                                               *)
(***************************************************************************)
THEOREM TablesAgree == ASSUME FileHashFails = FALSE PROVE Spec => []TableInvariant
  <1>1. Spec => []IInv
    BY Always
  <1>2. IInv => TableInvariant
    BY InvariantHolds
  <1> QED
    BY <1>1, <1>2, PTL

(***************************************************************************)
(* What OcCrDropFoContext finds by its key and takes out of the hash is    *)
(* the context whose counter the thread has brought to zero.               *)
(***************************************************************************)
THEOREM DropFindsItsContext == ASSUME FileHashFails = FALSE PROVE Spec => []DropsItsOwnContext
  <1>1. Spec => []IInv
    BY Always
  <1>2. IInv => DropsItsOwnContext
    BY DropHolds
  <1> QED
    BY <1>1, <1>2, PTL

(***************************************************************************)
(* When the system has closed every file and no thread works, both hashes  *)
(* are empty, every object is freed and nobody stands in a line.           *)
(***************************************************************************)
THEOREM EverythingIsGivenBack == ASSUME FileHashFails = FALSE PROVE Spec => []NothingIsLeftBehind
  <1>1. Spec => []IInv
    BY Always
  <1>2. IInv => NothingIsLeftBehind
    BY NothingHolds
  <1> QED
    BY <1>1, <1>2, PTL
=============================================================================
