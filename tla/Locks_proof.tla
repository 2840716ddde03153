---------------------------- MODULE Locks_proof -----------------------------
(***************************************************************************)
(* Machine-checked proofs about the three locks of the driver library, for *)
(* any threads and any of their constants: RwSpinLock, RemoveLock and      *)
(* QueueLock, which share no variable.  Of QueueLock: the chains of wait   *)
(* blocks are complete, the holder of a lock is the oldest of its chain.   *)
(* Each lock implements its abstract specification.                        *)
(***************************************************************************)
EXTENDS RwSpinLock, RemoveLock, QueueLock, FiniteSetTheorems, WellFoundedInduction, TLAPS

-----------------------------------------------------------------------------
(* The reader/writer spin lock *)

\* The threads whose decrement is in the counter.
RwCounted == RwAt({"reading", "undoRead"})

RwTypeInv == /\ rwLock \in Int
             /\ running \in [Threads -> RwPoints]
             /\ processors \in 1..MaxProcessors

Counter == rwLock = (IF Writers = {} THEN Bias ELSE 0) - Cardinality(RwCounted)

\* The inductive invariant: exclusion alone is not inductive, because the
\* guards look at the counter and not at the other threads.
RwIInv == RwTypeInv /\ Counter /\ MutualExclusion

LEMMA RwFiniteAt == \A S : IsFiniteSet(RwAt(S)) /\ Cardinality(RwAt(S)) \in Nat
  BY FS_Subset, FS_CardinalityType, ThreadsAssumption DEF RwAt

LEMMA CountedIsReadersUndoing == RwCounted = Readers \cup Undoing
  BY DEF RwCounted, Readers, Undoing, RwAt

\* A writer inside leaves the counter at zero or below.
LEMMA CounterSign ==
  ASSUME RwTypeInv, Counter
  PROVE  /\ Writers # {} => rwLock <= 0
         /\ rwLock = Bias => Writers = {} /\ RwCounted = {}
  <1>1. Cardinality(RwCounted) \in Nat
    BY RwFiniteAt DEF RwCounted
  <1>2. Cardinality(RwCounted) = 0 => RwCounted = {}
    BY RwFiniteAt, FS_EmptySet DEF RwCounted
  <1> QED
    BY <1>1, <1>2, BiasAssumption DEF RwTypeInv, Counter

LEMMA RwInitIInv == RwInit => RwIInv
  <1> SUFFICES ASSUME RwInit PROVE RwIInv
    OBVIOUS
  <1>1. RwCounted = {} /\ Writers = {} /\ Readers = {}
    BY DEF RwInit, RwCounted, Writers, Readers, RwAt
  <1>2. RwTypeInv
    BY BiasAssumption DEF RwInit, RwTypeInv, RwPoints
  <1>3. Counter
    BY <1>1, FS_EmptySet, BiasAssumption DEF RwInit, Counter
  <1> QED
    BY <1>1, <1>2, <1>3 DEF RwIInv, MutualExclusion

LEMMA RwNextIInv == RwIInv /\ [RwNext]_rwVars => RwIInv'
  <1> SUFFICES ASSUME RwIInv, [RwNext]_rwVars PROVE RwIInv'
    OBVIOUS
  <1> USE DEF RwIInv, RwTypeInv
  <1>a. /\ IsFiniteSet(RwCounted) /\ Cardinality(RwCounted) \in Nat
        /\ Bias \in Nat /\ Bias > 0
    BY RwFiniteAt, BiasAssumption DEF RwCounted
  <1>1. ASSUME NEW t \in Threads,
               \/ AskRead(t) \/ AskWrite(t) \/ RaiseIrql(t)
        PROVE  RwIInv'
    <2>1. RwCounted' = RwCounted /\ Writers' = Writers /\ Readers' = Readers
      BY <1>1 DEF AskRead, AskWrite, RaiseIrql, RwGoto, RwCounted, Writers,
                  Readers, RwAt, RwPoints
    <2>2. RwTypeInv' /\ rwLock' = rwLock
      BY <1>1 DEF AskRead, AskWrite, RaiseIrql, RwGoto, RwPoints
    <2> QED
      BY <2>1, <2>2 DEF Counter, MutualExclusion
  <1>2. ASSUME NEW t \in Threads, TryLockForRead(t)
        PROVE  RwIInv'
    <2>1. /\ RwCounted' = RwCounted \cup {t} /\ t \notin RwCounted
          /\ Writers' = Writers
      BY <1>2 DEF TryLockForRead, RwGoto, RwCounted, Writers, RwAt, RwPoints
    <2>2. RwTypeInv'
      BY <1>2 DEF TryLockForRead, RwGoto, RwPoints
    <2>3. Cardinality(RwCounted') = Cardinality(RwCounted) + 1
      BY <1>a, <2>1, FS_AddElement
    <2>4. Counter'
      BY <1>2, <1>a, <2>1, <2>3 DEF TryLockForRead, Counter
    <2>5. CASE rwLock - 1 >= 0
      <3>1. Writers = {}
        BY <2>5, CounterSign
      <3> QED
        BY <3>1, <2>1, <2>2, <2>4 DEF MutualExclusion
    <2>6. CASE rwLock - 1 < 0
      <3>1. Readers' = Readers
        BY <2>6, <1>2 DEF TryLockForRead, RwGoto, Readers, RwAt, RwPoints
      <3> QED
        BY <3>1, <2>1, <2>2, <2>4 DEF MutualExclusion
    <2> QED
      BY <2>5, <2>6
  <1>3. ASSUME NEW t \in Threads, UndoRead(t) \/ ReleaseRead(t)
        PROVE  RwIInv'
    <2>1. /\ RwCounted' = RwCounted \ {t} /\ t \in RwCounted
          /\ Writers' = Writers /\ Readers' \subseteq Readers
      BY <1>3 DEF UndoRead, ReleaseRead, RwGoto, RwCounted, Writers, Readers,
                  RwAt, RwPoints
    <2>2. RwTypeInv' /\ rwLock' = rwLock + 1
      BY <1>3 DEF UndoRead, ReleaseRead, RwGoto, RwPoints
    <2>3. Cardinality(RwCounted') = Cardinality(RwCounted) - 1
      BY <1>a, <2>1, FS_RemoveElement
    <2> QED
      BY <1>a, <2>1, <2>2, <2>3 DEF Counter, MutualExclusion
  <1>4. ASSUME NEW t \in Threads, TryLockForWrite(t)
        PROVE  RwIInv'
    <2>1. Writers = {} /\ RwCounted = {}
      BY <1>4, CounterSign DEF TryLockForWrite
    <2>2. Writers' = {t} /\ RwCounted' = {} /\ Readers' = {}
      BY <1>4, <2>1 DEF TryLockForWrite, RwGoto, RwCounted, Writers, Readers,
                        RwAt, RwPoints
    <2>3. RwTypeInv' /\ rwLock' = 0
      BY <1>4 DEF TryLockForWrite, RwGoto, RwPoints
    <2> QED
      BY <2>2, <2>3, FS_EmptySet DEF Counter, MutualExclusion
  <1>5. ASSUME NEW t \in Threads, ReleaseWrite(t)
        PROVE  RwIInv'
    <2>1. t \in Writers
      BY <1>5 DEF ReleaseWrite, RwGoto, Writers, RwAt
    <2>2. Writers = {t} /\ Readers = {}
      BY <2>1 DEF MutualExclusion
    <2>3. Writers' = {} /\ RwCounted' = RwCounted /\ Readers' = {}
      BY <1>5, <2>2 DEF ReleaseWrite, RwGoto, RwCounted, Writers, Readers, RwAt,
                        RwPoints
    <2>4. RwTypeInv' /\ rwLock' = rwLock + Bias
      BY <1>5, <1>a DEF ReleaseWrite, RwGoto, RwPoints
    <2>5. rwLock = 0 - Cardinality(RwCounted)
      BY <2>1 DEF Counter
    <2>6. Counter'
      BY <1>a, <2>3, <2>4, <2>5 DEF Counter
    <2> QED
      BY <2>3, <2>4, <2>6 DEF MutualExclusion
  <1>6. CASE UNCHANGED rwVars
    BY <1>6 DEF rwVars, Counter, MutualExclusion, RwCounted, Readers, Writers, RwAt
  <1> QED
    BY <1>1, <1>2, <1>3, <1>4, <1>5, <1>6 DEF RwNext, RwStep

LEMMA RwInvariant == RwSpec => []RwIInv
  BY RwInitIInv, RwNextIInv, PTL DEF RwSpec

(***************************************************************************)
(* Nobody reads or writes beside a writer, on every machine and for every  *)
(* set of threads: OcRwRawTryLockForRead and OcRwRawTryLockForWrite admit  *)
(* a thread only as the lock's promise allows.                             *)
(***************************************************************************)
THEOREM Exclusion == RwSpec => []MutualExclusion
  BY RwInvariant, PTL DEF RwIInv

(***************************************************************************)
(* The lock word always equals the bias, or zero under a writer, less the  *)
(* readers inside and the readers undoing an attempt.                      *)
(***************************************************************************)
THEOREM Exactness == RwSpec => []CounterIsExact
  <1>1. RwIInv => CounterIsExact
    BY CountedIsReadersUndoing DEF RwIInv, Counter, CounterIsExact
  <1> QED
    BY <1>1, RwInvariant, PTL

(***************************************************************************)
(* The word stays in an interval of the size of the bias and the number of *)
(* threads, so the LONG of the source cannot wrap.                         *)
(***************************************************************************)
THEOREM RwTyping == RwSpec => []RwTypeOK
  <1>1. RwIInv => RwTypeOK
    <2> SUFFICES ASSUME RwIInv PROVE RwTypeOK
      OBVIOUS
    <2>1. /\ Cardinality(RwCounted) \in Nat /\ Cardinality(Threads) \in Nat
          /\ Cardinality(RwCounted) <= Cardinality(Threads)
      BY RwFiniteAt, FS_Subset, FS_CardinalityType, ThreadsAssumption
         DEF RwCounted, RwAt
    <2>2. rwLock \in -Cardinality(Threads) .. Bias
      BY <2>1, BiasAssumption DEF RwIInv, RwTypeInv, Counter
    <2> QED
      BY <2>2 DEF RwIInv, RwTypeInv, RwTypeOK
  <1> QED
    BY <1>1, RwInvariant, PTL

-----------------------------------------------------------------------------
\* No more threads run at DISPATCH_LEVEL than there are processors.
DispatchBound == Cardinality(RwAt(DispatchPoints)) <= processors

LEMMA DispatchInit == RwInit => DispatchBound
  <1> SUFFICES ASSUME RwInit PROVE DispatchBound
    OBVIOUS
  <1>1. RwAt(DispatchPoints) = {}
    BY DEF RwInit, RwAt, DispatchPoints
  <1> QED
    BY <1>1, FS_EmptySet, ProcessorsAssumption DEF RwInit, DispatchBound

LEMMA DispatchNext == RwTypeInv /\ DispatchBound /\ [RwNext]_rwVars => DispatchBound'
  <1> SUFFICES ASSUME RwTypeInv, DispatchBound, [RwNext]_rwVars PROVE DispatchBound'
    OBVIOUS
  <1> DEFINE D == RwAt(DispatchPoints)
  <1>a. IsFiniteSet(D) /\ Cardinality(D) \in Nat /\ processors \in Nat
    BY RwFiniteAt DEF RwTypeInv
  <1>1. ASSUME NEW t \in Threads, RaiseIrql(t)
        PROVE  DispatchBound'
    <2>1. D' = D \cup {t} /\ t \notin D
      BY <1>1 DEF RaiseIrql, RwGoto, RwAt, DispatchPoints, RwTypeInv
    <2>2. Cardinality(D') = Cardinality(D) + 1
      BY <1>a, <2>1, FS_AddElement
    <2> QED
      BY <1>1, <1>a, <2>2 DEF RaiseIrql, DispatchBound
  <1>2. ASSUME NEW t \in Threads,
               \/ AskRead(t) \/ AskWrite(t) \/ TryLockForRead(t) \/ UndoRead(t)
               \/ ReleaseRead(t) \/ TryLockForWrite(t) \/ ReleaseWrite(t)
        PROVE  DispatchBound'
    <2>1. D' \subseteq D /\ processors' = processors
      BY <1>2 DEF AskRead, AskWrite, TryLockForRead, UndoRead, ReleaseRead,
                  TryLockForWrite, ReleaseWrite, RwGoto, RwAt, DispatchPoints,
                  RwTypeInv
    <2>2. Cardinality(D') <= Cardinality(D) /\ Cardinality(D') \in Nat
      BY <1>a, <2>1, FS_Subset, FS_CardinalityType
    <2> QED
      BY <1>a, <2>1, <2>2 DEF DispatchBound
  <1>3. CASE UNCHANGED rwVars
    BY <1>3 DEF rwVars, DispatchBound, RwAt
  <1> QED
    BY <1>1, <1>2, <1>3 DEF RwNext, RwStep

LEMMA UniprocessorStep == RwIInv /\ DispatchBound => UniprocessorNeverSpins
  <1> SUFFICES ASSUME RwIInv, DispatchBound, processors = 1,
                      NEW t \in RwAt({"tryRead", "tryWrite"})
               PROVE  rwLock = Bias
    BY DEF UniprocessorNeverSpins
  <1> DEFINE D == RwAt(DispatchPoints)
  <1>1. t \in D /\ IsFiniteSet(D)
    BY RwFiniteAt DEF RwAt, DispatchPoints
  <1>2. Cardinality(D \ {t}) = Cardinality(D) - 1 /\ IsFiniteSet(D \ {t})
    BY <1>1, FS_RemoveElement
  <1>3. D \ {t} = {}
    <2>1. Cardinality(D \ {t}) \in Nat /\ Cardinality(D) \in Nat
      BY <1>1, <1>2, FS_CardinalityType
    <2>2. Cardinality(D \ {t}) = 0
      BY <1>2, <2>1 DEF DispatchBound
    <2> QED
      BY <1>2, <2>2, FS_EmptySet
  <1>4. RwCounted = {} /\ Writers = {}
    BY <1>3 DEF RwCounted, Writers, RwAt, DispatchPoints
  <1> QED
    BY <1>4, FS_EmptySet, BiasAssumption DEF RwIInv, Counter

(***************************************************************************)
(* On a uniprocessor the lock is always free when a thread tries to take   *)
(* it, because every holder and every thread that undoes an attempt keeps  *)
(* the processor: spinning there (line 168) cannot hang the machine.       *)
(***************************************************************************)
THEOREM Uniprocessor == RwSpec => []UniprocessorNeverSpins
  <1>1. RwSpec => []DispatchBound
    <2>1. RwIInv => RwTypeInv
      BY DEF RwIInv
    <2> QED
      BY <2>1, DispatchInit, DispatchNext, RwInvariant, PTL DEF RwSpec
  <1> QED
    BY <1>1, UniprocessorStep, RwInvariant, PTL

-----------------------------------------------------------------------------
(***************************************************************************)
(* The refinement.  modeBar is the state of the abstract lock; what a step *)
(* of one thread does to it follows from that thread's two control points. *)
(***************************************************************************)
modeBar == [t \in Threads |-> ModeOf(running[t])]

LEMMA ModeValues ==
  /\ ModeOf("out") = "out"
  /\ \A p \in {"raiseRead", "tryRead", "undoRead"} : ModeOf(p) = "askRead"
  /\ ModeOf("reading") = "read"
  /\ \A p \in {"raiseWrite", "tryWrite"} : ModeOf(p) = "askWrite"
  /\ ModeOf("writing") = "write"
  BY DEF ModeOf

LEMMA ModeStep ==
  ASSUME RwTypeInv, NEW t \in Threads, NEW from, NEW to, RwGoto(t, from, to)
  PROVE  /\ modeBar[t] = ModeOf(from)
         /\ modeBar' = [modeBar EXCEPT ![t] = ModeOf(to)]
  BY DEF RwTypeInv, RwGoto, modeBar

LEMMA ModeStutter ==
  ASSUME RwTypeInv, NEW t \in Threads, NEW from, NEW to, RwGoto(t, from, to),
         ModeOf(from) = ModeOf(to)
  PROVE  modeBar' = modeBar
  <1>1. \A u \in Threads : ModeOf(running'[u]) = ModeOf(running[u])
    BY DEF RwTypeInv, RwGoto
  <1> QED
    BY <1>1 DEF modeBar

\* A mode of "read" or "write" belongs to a reader or a writer only.
LEMMA ModeInside ==
  ASSUME RwTypeInv, NEW t \in Threads
  PROVE  /\ modeBar[t] = "read"  => t \in Readers
         /\ modeBar[t] = "write" => t \in Writers
  BY ModeValues DEF RwTypeInv, RwPoints, modeBar, Readers, Writers, RwAt

LEMMA RwRefinementStep == RwIInv /\ [RwNext]_rwVars => [Abstract!Next]_modeBar
  <1> SUFFICES ASSUME RwIInv, [RwNext]_rwVars
               PROVE  Abstract!Next \/ modeBar' = modeBar
    BY DEF modeBar
  <1> USE DEF RwIInv
  <1>0. \A t \in Threads : modeBar[t] = ModeOf(running[t])
    BY DEF modeBar
  <1>1. ASSUME NEW t \in Threads, AskRead(t)
        PROVE  Abstract!Next
    <2>1. Abstract!Ask(t, "askRead")
      BY <1>1, ModeStep, ModeValues DEF AskRead, Abstract!Ask, modeBar
    <2> QED
      BY <2>1 DEF Abstract!Next
  <1>2. ASSUME NEW t \in Threads, AskWrite(t)
        PROVE  Abstract!Next
    <2>1. Abstract!Ask(t, "askWrite")
      BY <1>2, ModeStep, ModeValues DEF AskWrite, Abstract!Ask, modeBar
    <2> QED
      BY <2>1 DEF Abstract!Next
  <1>3. ASSUME NEW t \in Threads, RaiseIrql(t)
        PROVE  modeBar' = modeBar
    <2>1. CASE RwGoto(t, "raiseRead", "tryRead")
      BY <2>1, ModeStutter, ModeValues
    <2>2. CASE RwGoto(t, "raiseWrite", "tryWrite")
      BY <2>2, ModeStutter, ModeValues
    <2> QED
      BY <1>3, <2>1, <2>2 DEF RaiseIrql
  <1>4. ASSUME NEW t \in Threads, TryLockForRead(t)
        PROVE  Abstract!Next \/ modeBar' = modeBar
    <2>1. CASE rwLock - 1 >= 0 /\ RwGoto(t, "tryRead", "reading")
      <3>1. Writers = {}
        BY <2>1, CounterSign DEF RwTypeInv
      <3>2. \A u \in Threads : modeBar[u] # "write"
        BY <3>1, ModeInside
      <3>3. Abstract!EnterRead(t)
        BY <2>1, <3>2, ModeStep, ModeValues DEF Abstract!EnterRead, modeBar
      <3> QED
        BY <3>3 DEF Abstract!Next
    <2>2. CASE RwGoto(t, "tryRead", "undoRead")
      BY <2>2, ModeStutter, ModeValues
    <2> QED
      BY <1>4, <2>1, <2>2 DEF TryLockForRead
  <1>5. ASSUME NEW t \in Threads, UndoRead(t)
        PROVE  modeBar' = modeBar
    BY <1>5, ModeStutter, ModeValues DEF UndoRead
  <1>6. ASSUME NEW t \in Threads, TryLockForWrite(t)
        PROVE  Abstract!Next
    <2>1. Writers = {} /\ Readers = {}
      BY <1>6, CounterSign, CountedIsReadersUndoing DEF TryLockForWrite
    <2>2. \A u \in Threads : modeBar[u] \notin {"read", "write"}
      BY <2>1, ModeInside
    <2>3. Abstract!EnterWrite(t)
      BY <1>6, <2>2, ModeStep, ModeValues
         DEF TryLockForWrite, Abstract!EnterWrite, modeBar
    <2> QED
      BY <2>3 DEF Abstract!Next
  <1>7. ASSUME NEW t \in Threads, ReleaseRead(t) \/ ReleaseWrite(t)
        PROVE  Abstract!Next
    <2>1. Abstract!Leave(t)
      BY <1>7, ModeStep, ModeValues
         DEF ReleaseRead, ReleaseWrite, Abstract!Leave, modeBar
    <2> QED
      BY <2>1 DEF Abstract!Next
  <1>8. CASE UNCHANGED rwVars
    BY <1>8 DEF rwVars, modeBar
  <1> QED
    BY <1>1, <1>2, <1>3, <1>4, <1>5, <1>6, <1>7, <1>8 DEF RwNext, RwStep

(***************************************************************************)
(* The lock word of the source keeps the promise of a reader/writer lock:  *)
(* every behaviour of RwSpinLock is one of RwLock, the failed and undone   *)
(* attempts of readers being steps that the abstract lock does not see.    *)
(***************************************************************************)
THEOREM RwRefinement == RwSpec => ImplementsRwLock
  <1>1. RwInit => Abstract!Init
    BY ModeValues DEF RwInit, Abstract!Init
  <1>2. RwIInv /\ [RwNext]_rwVars => [Abstract!Next]_([t \in Threads |-> ModeOf(running[t])])
    BY RwRefinementStep DEF modeBar
  <1> QED
    BY <1>1, <1>2, RwInvariant, PTL DEF RwSpec, ImplementsRwLock, Abstract!Spec

-----------------------------------------------------------------------------
(* The remove lock *)

RlTypeInv == /\ referenceCount \in Int
             /\ removed \in BOOLEAN
             /\ removeEvent \in BOOLEAN
             /\ standing \in [Callers -> RlPoints]

\* Only the remover that was elected is about to drop the initial reference,
\* and it is elected once.
OneElected == /\ \A p, q \in RlAt({"dropBase"}) : p = q
              /\ RlAt({"undo", "refused", "signal", "dropBase", "dropOwn",
                       "wait", "gone"}) # {} => removed

\* The inductive invariant: the exact count is what ties the event, which is
\* set when the count is zero, to the set of callers still inside.
RlIInv == RlTypeInv /\ CountIsExact /\ OneElected /\ SignalMeansEmpty

LEMMA RlFiniteAt == \A S : IsFiniteSet(RlAt(S)) /\ Cardinality(RlAt(S)) \in Nat
  BY FS_Subset, FS_CardinalityType, CallersAssumption DEF RlAt

LEMMA CountedType == IsFiniteSet(Counted) /\ Cardinality(Counted) \in Nat
  BY RlFiniteAt DEF Counted

\* When the count is zero the initial reference is gone and nobody counts.
LEMMA ZeroMeansEmpty ==
  ASSUME RlIInv, referenceCount = 0
  PROVE  removed /\ Counted = {}
  <1>1. ~BaseIsHeld /\ Cardinality(Counted) = 0
    BY CountedType DEF RlIInv, CountIsExact
  <1> QED
    BY <1>1, CountedType, FS_EmptySet DEF RlIInv, RlTypeInv, BaseIsHeld

\* Dropping the last reference leaves nobody inside: the caller was the only
\* one still counted.
LEMMA LastOut ==
  ASSUME RlIInv, NEW p \in Counted, p \notin RlAt({"dropBase"}),
         referenceCount - 1 = 0
  PROVE  Counted = {p} /\ removed
  <1>1. /\ IsFiniteSet(Counted \ {p}) /\ Cardinality(Counted \ {p}) \in Nat
        /\ Cardinality(Counted \ {p}) = Cardinality(Counted) - 1
    BY CountedType, FS_RemoveElement, FS_CardinalityType
  <1>2. ~BaseIsHeld /\ Cardinality(Counted \ {p}) = 0
    BY <1>1, CountedType DEF RlIInv, CountIsExact
  <1>3. Counted \ {p} = {}
    BY <1>1, <1>2, FS_EmptySet
  <1> QED
    BY <1>2, <1>3 DEF RlIInv, RlTypeInv, BaseIsHeld

LEMMA RlInitIInv == RlInit => RlIInv
  <1> SUFFICES ASSUME RlInit PROVE RlIInv
    OBVIOUS
  <1>1. \A S : "out" \notin S => RlAt(S) = {}
    BY DEF RlInit, RlAt
  <1>2. Counted = {} /\ Cardinality(Counted) = 0
    BY <1>1, FS_EmptySet DEF Counted
  <1>3. RlTypeInv
    <2>1. standing \in [Callers -> RlPoints]
      BY DEF RlInit, RlPoints
    <2>2. removed \in BOOLEAN /\ removeEvent \in BOOLEAN
      BY Zenon DEF RlInit
    <2> QED
      BY <2>1, <2>2 DEF RlInit, RlTypeInv
  <1>4. CountIsExact
    BY <1>2 DEF RlInit, CountIsExact, BaseIsHeld
  <1> QED
    BY <1>1, <1>3, <1>4 DEF RlInit, RlIInv, OneElected, SignalMeansEmpty

LEMMA RlNextIInv == RlIInv /\ [RlNext]_rlVars => RlIInv'
  <1> SUFFICES ASSUME RlIInv, [RlNext]_rlVars PROVE RlIInv'
    OBVIOUS
  <1> USE CountedType DEF RlIInv, RlTypeInv
  <1>1. ASSUME NEW p \in Callers, Acquire(p)
        PROVE  RlIInv'
    <2>1. RlTypeInv' /\ removed' = removed /\ removeEvent' = removeEvent
      BY <1>1 DEF Acquire, RlGoto, RlPoints
    <2>2. Counted' = Counted \cup {p} /\ p \notin Counted
      BY <1>1 DEF Acquire, RlGoto, Counted, RlAt, RlPoints
    <2>3. Cardinality(Counted') = Cardinality(Counted) + 1
      BY <2>2, FS_AddElement
    <2>4. \A S : {"out", "check"} \cap S = {} => RlAt(S)' = RlAt(S)
      BY <1>1 DEF Acquire, RlGoto, RlAt, RlPoints
    <2>5. BaseIsHeld' <=> BaseIsHeld
      BY <2>1, <2>4 DEF BaseIsHeld
    <2>6. CountIsExact'
      BY <1>1, <2>3, <2>5 DEF Acquire, CountIsExact
    <2> QED
      BY <2>1, <2>4, <2>6 DEF OneElected, SignalMeansEmpty
  <1>2. ASSUME NEW p \in Callers, AcquireCheck(p)
        PROVE  RlIInv'
    <2>1. RlTypeInv' /\ UNCHANGED <<referenceCount, removed, removeEvent>>
      BY <1>2 DEF AcquireCheck, RlGoto, RlPoints
    <2>2. Counted' = Counted
      BY <1>2 DEF AcquireCheck, RlGoto, Counted, RlAt, RlPoints
    <2>3. RlAt({"dropBase"})' = RlAt({"dropBase"}) /\ RlAt({"signal"})' = RlAt({"signal"})
      BY <1>2 DEF AcquireCheck, RlGoto, RlAt, RlPoints
    <2>4. CountIsExact'
      BY <2>1, <2>2, <2>3 DEF CountIsExact, BaseIsHeld
    <2>5. OneElected'
      BY <1>2, <2>1, <2>3 DEF AcquireCheck, RlGoto, OneElected, RlAt, RlPoints
    <2>6. SignalMeansEmpty'
      BY <1>2, <2>1, <2>3 DEF AcquireCheck, RlGoto, SignalMeansEmpty, RlAt, RlPoints
    <2> QED
      BY <2>1, <2>4, <2>5, <2>6
  <1>3. ASSUME NEW p \in Callers, Refuse(p) \/ RlRelease(p)
        PROVE  RlIInv'
    <2>1. RlTypeInv' /\ UNCHANGED <<removed, removeEvent>>
      BY <1>3 DEF Refuse, RlRelease, RlGoto, RlPoints
    <2>2. /\ p \in Counted /\ p \notin RlAt({"dropBase"})
          /\ Counted' = Counted \ {p} /\ referenceCount' = referenceCount - 1
      BY <1>3 DEF Refuse, RlRelease, RlGoto, Counted, RlAt, RlPoints
    <2>3. Cardinality(Counted') = Cardinality(Counted) - 1
      BY <2>2, FS_RemoveElement
    <2>4. \A S : {"undo", "refused", "inside", "out", "signal"} \cap S = {}
                   => RlAt(S)' = RlAt(S)
      BY <1>3 DEF Refuse, RlRelease, RlGoto, RlAt, RlPoints
    <2>5. BaseIsHeld' <=> BaseIsHeld
      BY <2>1, <2>4 DEF BaseIsHeld
    <2>6. CountIsExact'
      BY <2>2, <2>3, <2>5 DEF CountIsExact
    <2>7. RlAt({"inside", "dropBase", "dropOwn"})'
              \subseteq RlAt({"inside", "dropBase", "dropOwn"}) \ {p}
      BY <1>3 DEF Refuse, RlRelease, RlGoto, RlAt, RlPoints
    <2>8. CASE referenceCount - 1 = 0
      <3>1. removed /\ Counted = {p}
        BY <2>2, <2>8, LastOut
      <3>2. RlAt({"inside", "dropBase", "dropOwn"})' = {}
        BY <2>7, <3>1 DEF Counted, RlAt
      <3> QED
        BY <2>1, <2>4, <2>6, <3>1, <3>2 DEF OneElected, SignalMeansEmpty, RlAt
    <2>9. CASE referenceCount - 1 # 0
      <3>1. RlAt({"signal"})' = RlAt({"signal"})
        BY <1>3, <2>9 DEF Refuse, RlRelease, RlGoto, RlAt, RlPoints
      <3>2. SignalMeansEmpty'
        BY <2>1, <2>7, <3>1 DEF SignalMeansEmpty
      <3>3. OneElected'
        BY <1>3, <2>1, <2>4, <2>9
           DEF Refuse, RlRelease, RlGoto, OneElected, RlAt, RlPoints
      <3> QED
        BY <2>1, <2>6, <3>2, <3>3
    <2> QED
      BY <2>8, <2>9
  <1>4. ASSUME NEW p \in Callers, Signal(p)
        PROVE  RlIInv'
    <2>1. RlTypeInv' /\ UNCHANGED <<referenceCount, removed>>
      BY <1>4 DEF Signal, RlGoto, RlPoints
    <2>2. p \in RlAt({"signal"})
      BY <1>4 DEF Signal, RlGoto, RlAt
    <2>3. \A S : {"signal", "out"} \cap S = {} => RlAt(S)' = RlAt(S)
      BY <1>4 DEF Signal, RlGoto, RlAt, RlPoints
    <2>4. CountIsExact'
      BY <2>1, <2>3 DEF CountIsExact, BaseIsHeld, Counted
    <2>5. SignalMeansEmpty'
      BY <2>1, <2>2, <2>3 DEF SignalMeansEmpty
    <2>6. OneElected'
      BY <2>1, <2>2, <2>3, <1>4 DEF Signal, RlGoto, OneElected, RlAt
    <2> QED
      BY <2>1, <2>4, <2>5, <2>6
  <1>5. ASSUME NEW p \in Callers, MarkRemoved(p)
        PROVE  RlIInv'
    <2>1. /\ RlTypeInv' /\ UNCHANGED <<referenceCount, removeEvent>>
          /\ removed'
      BY <1>5 DEF MarkRemoved, RlGoto, RlPoints
    <2>2. Counted' = Counted /\ p \in RlAt({"inside"})
      BY <1>5 DEF MarkRemoved, RlGoto, Counted, RlAt, RlPoints
    <2>3. RlAt({"signal"})' = RlAt({"signal"})
      BY <1>5 DEF MarkRemoved, RlGoto, RlAt, RlPoints
    <2>4. SignalMeansEmpty'
      BY <2>1, <2>2, <2>3 DEF SignalMeansEmpty, RlAt
    <2>5. CASE removed
      <3>1. RlAt({"dropBase"})' = RlAt({"dropBase"})
        BY <1>5, <2>5 DEF MarkRemoved, RlGoto, RlAt, RlPoints
      <3> QED
        BY <2>1, <2>2, <2>4, <2>5, <3>1
           DEF CountIsExact, BaseIsHeld, OneElected
    <2>6. CASE ~removed
      <3>1. RlAt({"dropBase"}) = {}
        BY <2>6 DEF OneElected, RlAt
      <3>2. RlAt({"dropBase"})' = {p}
        BY <1>5, <2>6, <3>1 DEF MarkRemoved, RlGoto, RlAt, RlPoints
      <3> QED
        BY <2>1, <2>2, <2>4, <2>6, <3>2
           DEF CountIsExact, BaseIsHeld, OneElected
    <2> QED
      BY <2>5, <2>6
  <1>6. ASSUME NEW p \in Callers, DropBase(p)
        PROVE  RlIInv'
    <2>1. /\ RlTypeInv' /\ UNCHANGED <<removed, removeEvent>>
          /\ referenceCount' = referenceCount - 1
      BY <1>6 DEF DropBase, RlGoto, RlPoints
    <2>2. /\ p \in RlAt({"dropBase"})
          /\ RlAt({"dropBase"})' = RlAt({"dropBase"}) \ {p}
          /\ Counted' = Counted /\ RlAt({"signal"})' = RlAt({"signal"})
          /\ RlAt({"inside", "dropBase", "dropOwn"})'
                  = RlAt({"inside", "dropBase", "dropOwn"})
      BY <1>6 DEF DropBase, RlGoto, Counted, RlAt, RlPoints
    <2>3. removed /\ RlAt({"dropBase"})' = {}
      BY <2>2 DEF OneElected, RlAt
    <2>4. CountIsExact'
      BY <2>1, <2>2, <2>3 DEF CountIsExact, BaseIsHeld
    <2> QED
      BY <2>1, <2>2, <2>3, <2>4 DEF OneElected, SignalMeansEmpty
  <1>7. ASSUME NEW p \in Callers, DropOwn(p)
        PROVE  RlIInv'
    <2>1. /\ RlTypeInv' /\ UNCHANGED <<removed, removeEvent>>
          /\ referenceCount' = referenceCount - 1
      BY <1>7 DEF DropOwn, RlGoto, RlPoints
    <2>2. /\ p \in Counted /\ p \in RlAt({"dropOwn"})
          /\ Counted' = Counted \ {p}
          /\ RlAt({"dropBase"})' = RlAt({"dropBase"})
          /\ RlAt({"signal"})' = RlAt({"signal"})
          /\ RlAt({"inside", "dropBase", "dropOwn"})'
                  \subseteq RlAt({"inside", "dropBase", "dropOwn"})
      BY <1>7 DEF DropOwn, RlGoto, Counted, RlAt, RlPoints
    <2>3. Cardinality(Counted') = Cardinality(Counted) - 1
      BY <2>2, FS_RemoveElement
    <2>4. CountIsExact'
      BY <2>1, <2>2, <2>3 DEF CountIsExact, BaseIsHeld
    <2>5. removed
      BY <2>2 DEF OneElected, RlAt
    <2> QED
      BY <2>1, <2>2, <2>4, <2>5 DEF OneElected, SignalMeansEmpty
  <1>8. ASSUME NEW p \in Callers, WaitEvent(p)
        PROVE  RlIInv'
    <2>1. RlTypeInv' /\ UNCHANGED <<referenceCount, removed, removeEvent>>
      BY <1>8 DEF WaitEvent, RlGoto, RlPoints
    <2>2. /\ Counted' = Counted
          /\ RlAt({"dropBase"})' = RlAt({"dropBase"})
          /\ RlAt({"signal"})' = RlAt({"signal"})
          /\ RlAt({"inside", "dropBase", "dropOwn"})'
                  = RlAt({"inside", "dropBase", "dropOwn"})
          /\ removed
      BY <1>8 DEF WaitEvent, RlGoto, Counted, RlAt, RlPoints, OneElected
    <2> QED
      BY <2>1, <2>2 DEF CountIsExact, BaseIsHeld, OneElected, SignalMeansEmpty
  <1>9. CASE UNCHANGED rlVars
    BY <1>9 DEF rlVars, CountIsExact, BaseIsHeld, Counted, OneElected,
                SignalMeansEmpty, RlAt
  <1> QED
    BY <1>1, <1>2, <1>3, <1>4, <1>5, <1>6, <1>7, <1>8, <1>9 DEF RlNext, RlStep

LEMMA RlInvariant == RlSpec => []RlIInv
  BY RlInitIInv, RlNextIInv, PTL DEF RlSpec

(***************************************************************************)
(* ReferenceCount is exactly the callers between their increment and their *)
(* decrement plus the initial reference, which only one remover drops.     *)
(***************************************************************************)
THEOREM Count == RlSpec => []CountIsExact
  BY RlInvariant, PTL DEF RlIInv

(***************************************************************************)
(* RemoveEvent is signalled only when nobody has the lock, so a remover    *)
(* that waits for it goes on when the protected resource is unused.        *)
(***************************************************************************)
THEOREM Signalled == RlSpec => []SignalMeansEmpty
  BY RlInvariant, PTL DEF RlIInv

(***************************************************************************)
(* The assertion at remove_lock.c:172 holds for every number of removers.  *)
(***************************************************************************)
THEOREM ElectedFindsTwo == RlSpec => []FirstRemoverHasTwo
  <1>1. RlIInv => FirstRemoverHasTwo
    <2> SUFFICES ASSUME RlIInv, NEW p \in RlAt({"dropBase"})
                 PROVE  referenceCount >= 2
      BY DEF FirstRemoverHasTwo
    <2>1. BaseIsHeld /\ p \in Counted
      BY DEF BaseIsHeld, Counted, RlAt
    <2>2. Cardinality(Counted) # 0
      BY <2>1, CountedType, FS_EmptySet
    <2> QED
      BY <2>1, <2>2, CountedType DEF RlIInv, CountIsExact
  <1> QED
    BY <1>1, RlInvariant, PTL

(***************************************************************************)
(* ReferenceCount stays between zero and one more than the callers there   *)
(* are: no decrement ever takes it below zero.                             *)
(***************************************************************************)
THEOREM RlTyping == RlSpec => []RlTypeOK
  <1>1. RlIInv => RlTypeOK
    <2> SUFFICES ASSUME RlIInv PROVE RlTypeOK
      OBVIOUS
    <2>1. /\ Cardinality(Counted) <= Cardinality(Callers)
          /\ Cardinality(Callers) \in Nat /\ Cardinality(Counted) \in Nat
      BY RlFiniteAt, FS_Subset, FS_CardinalityType, CallersAssumption
         DEF Counted, RlAt
    <2>2. referenceCount \in 0 .. Cardinality(Callers) + 1
      BY <2>1 DEF RlIInv, CountIsExact
    <2> QED
      BY <2>2 DEF RlIInv, RlTypeInv, RlTypeOK
  <1> QED
    BY <1>1, RlInvariant, PTL

-----------------------------------------------------------------------------
\* What rundown protection sees of the callers.
closingBar == RlAt({"dropBase", "dropOwn", "wait"})
drainedBar == RlAt({"gone"})
barVars    == <<Holders, closingBar, drainedBar>>

LEMMA ClosedIsRemoved == RlIInv /\ ~removed => closingBar \cup drainedBar = {}
  BY DEF RlIInv, OneElected, closingBar, drainedBar, RlAt

LEMMA RlRefinementStep == RlIInv /\ [RlNext]_rlVars => [Protocol!Next]_barVars
  <1> SUFFICES ASSUME RlIInv, [RlNext]_rlVars
               PROVE  Protocol!Next \/ UNCHANGED barVars
    BY DEF barVars
  <1> USE DEF RlIInv, RlTypeInv, closingBar, drainedBar, barVars, Holders
  <1>1. ASSUME NEW p \in Callers,
               \/ Acquire(p) \/ Signal(p) \/ DropBase(p) \/ Refuse(p)
        PROVE  UNCHANGED barVars
    BY <1>1 DEF Acquire, Signal, DropBase, Refuse, RlGoto, RlAt, RlPoints
  <1>2. ASSUME NEW p \in Callers, AcquireCheck(p)
        PROVE  Protocol!Next \/ UNCHANGED barVars
    <2>1. closingBar' = closingBar /\ drainedBar' = drainedBar
      BY <1>2 DEF AcquireCheck, RlGoto, RlAt, RlPoints
    <2>2. CASE removed
      BY <1>2, <2>1, <2>2 DEF AcquireCheck, RlGoto, RlAt, RlPoints
    <2>3. CASE ~removed
      <3>1. Holders' = Holders \cup {p}
        BY <1>2, <2>3 DEF AcquireCheck, RlGoto, RlAt, RlPoints
      <3>2. Protocol!Enter(p)
        BY <2>1, <2>3, <3>1, ClosedIsRemoved
           DEF Protocol!Enter, Protocol!Closed
      <3> QED
        BY <3>2 DEF Protocol!Next
    <2> QED
      BY <2>2, <2>3
  <1>3. ASSUME NEW p \in Callers, RlRelease(p)
        PROVE  Protocol!Next
    <2>1. /\ p \in Holders /\ Holders' = Holders \ {p}
          /\ closingBar' = closingBar /\ drainedBar' = drainedBar
      BY <1>3 DEF RlRelease, RlGoto, RlAt, RlPoints
    <2> QED
      BY <2>1 DEF Protocol!Next, Protocol!Leave
  <1>4. ASSUME NEW p \in Callers, MarkRemoved(p)
        PROVE  Protocol!Next
    <2>1. /\ p \in Holders /\ Holders' = Holders \ {p}
          /\ closingBar' = closingBar \cup {p} /\ drainedBar' = drainedBar
      BY <1>4 DEF MarkRemoved, RlGoto, RlAt, RlPoints
    <2> QED
      BY <2>1 DEF Protocol!Next, Protocol!Close
  <1>5. ASSUME NEW p \in Callers, DropOwn(p)
        PROVE  Protocol!Next \/ UNCHANGED barVars
    <2>1. Holders' = Holders /\ p \in closingBar /\ p \in Counted
      BY <1>5 DEF DropOwn, RlGoto, Counted, RlAt, RlPoints
    <2>2. CASE referenceCount - 1 > 0
      BY <1>5, <2>2 DEF DropOwn, RlGoto, RlAt, RlPoints
    <2>3. CASE ~(referenceCount - 1 > 0)
      <3>1. referenceCount - 1 = 0
        <4>1. Cardinality(Counted) # 0
          BY <2>1, CountedType, FS_EmptySet
        <4> QED
          BY <2>3, <4>1, CountedType DEF CountIsExact
      <3>2. Counted = {p}
        BY <1>5, <2>1, <3>1, LastOut DEF DropOwn, RlGoto, RlAt
      <3>3. Holders = {}
        BY <1>5, <3>2 DEF DropOwn, RlGoto, Counted, RlAt
      <3>4. /\ closingBar' = closingBar \ {p}
            /\ drainedBar' = drainedBar \cup {p}
        BY <1>5, <2>3 DEF DropOwn, RlGoto, RlAt, RlPoints
      <3> QED
        BY <2>1, <3>3, <3>4 DEF Protocol!Next, Protocol!Drain
    <2> QED
      BY <2>2, <2>3
  <1>6. ASSUME NEW p \in Callers, WaitEvent(p)
        PROVE  Protocol!Next
    <2>1. /\ p \in closingBar /\ Holders' = Holders
          /\ closingBar' = closingBar \ {p}
          /\ drainedBar' = drainedBar \cup {p}
      BY <1>6 DEF WaitEvent, RlGoto, RlAt, RlPoints
    <2>2. Holders = {}
      BY <1>6 DEF WaitEvent, SignalMeansEmpty, RlAt
    <2> QED
      BY <2>1, <2>2 DEF Protocol!Next, Protocol!Drain
  <1>7. CASE UNCHANGED rlVars
    BY <1>7 DEF rlVars, RlAt
  <1> QED
    BY <1>1, <1>2, <1>3, <1>4, <1>5, <1>6, <1>7 DEF RlNext, RlStep

(***************************************************************************)
(* The remove lock gives rundown protection, with any number of removers:  *)
(* nobody enters once one of them has marked it, and each that returns     *)
(* finds the resource unused (that each returns is another matter).        *)
(***************************************************************************)
THEOREM RlRefinement == RlSpec => ImplementsRundown
  <1>1. RlInit => Protocol!Init
    BY DEF RlInit, Protocol!Init, Holders, RlAt
  <1>2. RlIInv /\ [RlNext]_rlVars
          => [Protocol!Next]_(<<Holders, RlAt({"dropBase", "dropOwn", "wait"}),
                                  RlAt({"gone"})>>)
    BY RlRefinementStep DEF barVars, closingBar, drainedBar
  <1> QED
    BY <1>1, <1>2, RlInvariant, PTL
       DEF RlSpec, ImplementsRundown, Protocol!Spec, Protocol!vars

-----------------------------------------------------------------------------
(* The queue lock *)

-----------------------------------------------------------------------------
(* Induction, over numbers and over sequences.  A property is here the set of *)
(* the values that have it.                                                   *)


LEMMA Numbers ==
  ASSUME NEW S \in SUBSET Nat, 0 \in S, \A n \in S : n + 1 \in S
  PROVE  S = Nat
  <1> SUFFICES ASSUME Nat \ S # {} PROVE FALSE
    OBVIOUS
  <1>1. PICK m \in Nat \ S : \A i \in Nat \ S : <<i, m>> \notin OpToRel(<, Nat)
    BY WFMin, NatLessThanWellFounded
  <1>2. m \in Nat /\ m # 0 /\ m \notin S
    OBVIOUS
  <1>3. m - 1 \in Nat /\ m - 1 < m /\ (m - 1) + 1 = m
    BY <1>2
  <1>4. m - 1 \in S
    <2> SUFFICES ASSUME m - 1 \in Nat \ S PROVE FALSE
      BY <1>3
    <2>1. <<m - 1, m>> \in OpToRel(<, Nat)
      BY <1>2, <1>3, Zenon DEF OpToRel
    <2> QED
      BY <1>1, <2>1
  <1> QED
    BY <1>2, <1>3, <1>4

LEMMA Sequences ==
  ASSUME NEW T, NEW S \in SUBSET Seq(T), <<>> \in S, \A u \in S, e \in T : Append(u, e) \in S
  PROVE  S = Seq(T)
  <1> DEFINE N == {n \in Nat : \A s \in Seq(T) : Len(s) = n => s \in S}
  <1>1. 0 \in N
    OBVIOUS
  <1>2. ASSUME NEW n \in N
        PROVE  n + 1 \in N
    <2> SUFFICES ASSUME NEW s \in Seq(T), Len(s) = n + 1
                 PROVE  s \in S
      OBVIOUS
    <2>1. PICK u : u = SubSeq(s, 1, n)
      OBVIOUS
    <2>2. n \in Nat /\ s \in Seq(T) /\ Len(s) = n + 1
      OBVIOUS
    <2>3. u \in Seq(T) /\ Len(u) = n /\ \A i \in 1..n : u[i] = s[i]
      BY ONLY <2>1, <2>2
    <2>4. s[n + 1] \in T
      BY ONLY <2>2
    <2>5. s = Append(u, s[n + 1])
      BY ONLY <2>2, <2>3, <2>4
    <2>6. u \in S
      BY <2>3
    <2> QED
      BY <2>4, <2>5, <2>6
  <1>3. N = Nat
    <2> HIDE DEF N
    <2> QED
    BY <1>1, <1>2, Numbers DEF N
  <1>4. \A s \in Seq(T) : Len(s) \in Nat
    OBVIOUS
  <1> QED
    BY <1>3, <1>4

\* The recursion in Only, up to n.
Selects(f, n, s, S) ==
  f = [i \in 0..n |-> IF i = 0 THEN <<>>
                      ELSE IF s[i] \in S THEN Append(f[i - 1], s[i]) ELSE f[i - 1]]

LEMMA SelectionExists ==
  ASSUME NEW s, NEW S
  PROVE  \A n \in Nat : \E f : Selects(f, n, s, S)
  <1> DEFINE N == {n \in Nat : \E f : Selects(f, n, s, S)}
  <1>1. 0 \in N
    <2>1. Selects([i \in 0..0 |-> <<>>], 0, s, S)
      BY DEF Selects
    <2> QED
      BY <2>1
  <1>2. ASSUME NEW n \in N
        PROVE  n + 1 \in N
    <2>1. PICK f : Selects(f, n, s, S)
      OBVIOUS
    <2> DEFINE g == [i \in 0..(n + 1) |-> IF i <= n THEN f[i]
                      ELSE IF s[i] \in S THEN Append(f[i - 1], s[i]) ELSE f[i - 1]]
               h == [i \in 0..(n + 1) |-> IF i = 0 THEN <<>>
                      ELSE IF s[i] \in S THEN Append(g[i - 1], s[i]) ELSE g[i - 1]]
    <2>2. ASSUME NEW i \in 0..(n + 1)
          PROVE  g[i] = h[i]
      <3>0. n \in Nat /\ i \in 0..(n + 1)
        OBVIOUS
      <3>1. ASSUME i = 0
            PROVE  g[i] = h[i]
        BY <2>1, <3>1 DEF Selects
      <3>2. ASSUME i \in 1..n
            PROVE  g[i] = h[i]
        <4>1. i \in 0..n /\ i - 1 \in 0..n /\ i # 0 /\ i <= n /\ i - 1 <= n /\ i - 1 \in 0..(n + 1)
          BY <3>0, <3>2
        <4>2. g[i] = f[i] /\ g[i - 1] = f[i - 1]
          BY <3>0, <4>1
        <4>3. f[i] = IF s[i] \in S THEN Append(f[i - 1], s[i]) ELSE f[i - 1]
          BY <2>1, <4>1 DEF Selects
        <4>4. h[i] = IF s[i] \in S THEN Append(g[i - 1], s[i]) ELSE g[i - 1]
          BY <3>0, <4>1
        <4> QED
          BY <4>2, <4>3, <4>4
      <3>3. ASSUME i = n + 1
            PROVE  g[i] = h[i]
        <4>1. i # 0 /\ ~(i <= n) /\ i - 1 <= n /\ i - 1 \in 0..(n + 1)
          BY <3>0, <3>3
        <4>2. g[i - 1] = f[i - 1]
          BY <4>1
        <4> QED
          BY <3>0, <4>1, <4>2
      <3> QED
        BY <3>0, <3>1, <3>2, <3>3
    <2>3. g = h
      BY <2>2
    <2>4. Selects(g, n + 1, s, S)
      BY <2>3 DEF Selects
    <2> QED
      BY <2>4
  <1> HIDE DEF N
  <1>3. N = Nat
    BY <1>1, <1>2, Numbers DEF N
  <1> QED
    BY <1>3 DEF N

LEMMA SelectionAgrees ==
  ASSUME NEW s, NEW t, NEW S, NEW m \in Nat, NEW n \in Nat, m <= n,
         \A i \in 1..m : s[i] = t[i],
         NEW f, NEW g, Selects(f, m, s, S), Selects(g, n, t, S)
  PROVE  f[m] = g[m]
  <1> DEFINE N == {i \in Nat : i <= m => f[i] = g[i]}
  <1>1. 0 \in N
    BY DEF Selects
  <1>2. ASSUME NEW i \in N
        PROVE  i + 1 \in N
    <2> SUFFICES ASSUME i + 1 <= m
                 PROVE  f[i + 1] = g[i + 1]
      OBVIOUS
    <2>1. f[i] = g[i] /\ s[i + 1] = t[i + 1]
      OBVIOUS
    <2>2. i + 1 \in 0..m /\ i + 1 \in 0..n /\ i + 1 # 0 /\ (i + 1) - 1 = i
      OBVIOUS
    <2>3. f[i + 1] = IF s[i + 1] \in S THEN Append(f[i], s[i + 1]) ELSE f[i]
      BY <2>2 DEF Selects
    <2>4. g[i + 1] = IF t[i + 1] \in S THEN Append(g[i], t[i + 1]) ELSE g[i]
      BY <2>2 DEF Selects
    <2> QED
      BY <2>1, <2>3, <2>4
  <1> HIDE DEF N
  <1>3. N = Nat
    BY <1>1, <1>2, Numbers DEF N
  <1> QED
    BY <1>3 DEF N

LEMMA OnlySelects ==
  ASSUME NEW s, NEW S, Len(s) \in Nat
  PROVE  \E f : Selects(f, Len(s), s, S) /\ Only(s, S) = f[Len(s)]
  <1> DEFINE f == CHOOSE f : Selects(f, Len(s), s, S)
  <1>1. Selects(f, Len(s), s, S)
    BY SelectionExists
  <1>2. Only(s, S) = f[Len(s)]
    BY Zenon DEF Only, Selects
  <1> QED
    BY <1>1, <1>2

LEMMA AppendHas ==
  ASSUME NEW T, NEW s \in Seq(T), NEW e \in T
  PROVE  ToSet(Append(s, e)) = ToSet(s) \cup {e}
  <1>1. PICK n : n = Len(s)
    OBVIOUS
  <1>2. PICK u : u = Append(s, e)
    OBVIOUS
  <1>3. /\ n \in Nat /\ DOMAIN s = 1..n /\ DOMAIN u = 1..(n + 1) /\ u[n + 1] = e
        /\ \A i \in 1..n : u[i] = s[i]
    BY <1>1, <1>2
  <1>4. ASSUME NEW x
        PROVE  x \in ToSet(u) <=> x \in ToSet(s) \cup {e}
    <2>1. 1..(n + 1) = 1..n \cup {n + 1}
      BY <1>3
    <2> QED
      BY <1>3, <2>1 DEF ToSet
  <1> QED
    BY <1>2, <1>4

-----------------------------------------------------------------------------
(* What is left of a sequence                                                 *)

LEMMA OnlyEmpty == \A S : Only(<<>>, S) = <<>>
  BY OnlySelects DEF Selects

LEMMA OnlyAppend ==
  ASSUME NEW T, NEW s \in Seq(T), NEW e \in T, NEW S
  PROVE  Only(Append(s, e), S) = IF e \in S THEN Append(Only(s, S), e) ELSE Only(s, S)
  <1>1. PICK u : u = Append(s, e)
    OBVIOUS
  <1>2. PICK n : n = Len(s)
    OBVIOUS
  <1>3. n \in Nat /\ Len(u) = n + 1 /\ u[n + 1] = e /\ \A i \in 1..n : s[i] = u[i]
    BY <1>1, <1>2
  <1>4. PICK f : Selects(f, n, s, S) /\ Only(s, S) = f[n]
    BY <1>2, <1>3, OnlySelects
  <1>5. PICK g : Selects(g, n + 1, u, S) /\ Only(u, S) = g[n + 1]
    BY <1>3, OnlySelects
  <1>6. f[n] = g[n]
    <2>1. n + 1 \in Nat /\ n <= n + 1
      BY <1>3
    <2> QED
      BY <1>3, <1>4, <1>5, <2>1, SelectionAgrees
  <1>7. g[n + 1] = IF u[n + 1] \in S THEN Append(g[n], u[n + 1]) ELSE g[n]
    <2>1. n + 1 \in 0..(n + 1) /\ n + 1 # 0 /\ (n + 1) - 1 = n
      BY <1>3
    <2> QED
      BY <1>5, <2>1 DEF Selects
  <1> QED
    BY <1>1, <1>3, <1>4, <1>5, <1>6, <1>7

\* The elements of a sequence and of its parts.
LEMMA OnlyHas ==
  ASSUME NEW T, NEW S, NEW s \in Seq(T)
  PROVE  Only(s, S) \in Seq(T) /\ ToSet(Only(s, S)) = ToSet(s) \cap S
  <1> DEFINE Good == {u \in Seq(T) : Only(u, S) \in Seq(T) /\ ToSet(Only(u, S)) = ToSet(u) \cap S}
  <1>1. <<>> \in Good
    <2>1. PICK z : z = <<>>
      OBVIOUS
    <2>2. z \in Seq(T) /\ ToSet(z) = {} /\ Only(z, S) = z
      BY <2>1, OnlyEmpty DEF ToSet
    <2>3. Only(z, S) \in Seq(T) /\ ToSet(Only(z, S)) = ToSet(z) \cap S
      BY <2>2
    <2> QED
      BY <2>1, <2>2, <2>3
  <1>2. ASSUME NEW u \in Good, NEW e \in T
        PROVE  Append(u, e) \in Good
    <2>1. u \in Seq(T) /\ Append(u, e) \in Seq(T)
      OBVIOUS
    <2>2. Only(Append(u, e), S) = IF e \in S THEN Append(Only(u, S), e) ELSE Only(u, S)
      BY <2>1, OnlyAppend
    <2>3. Only(Append(u, e), S) \in Seq(T)
      BY <2>2
    <2>4. ToSet(Append(u, e)) = ToSet(u) \cup {e}
      BY <2>1, AppendHas
    <2>5. ToSet(Only(Append(u, e), S)) = ToSet(Append(u, e)) \cap S
      <3>1. Only(u, S) \in Seq(T) /\ ToSet(Only(u, S)) = ToSet(u) \cap S
        OBVIOUS
      <3>2. ToSet(Append(Only(u, S), e)) = ToSet(Only(u, S)) \cup {e}
        BY <3>1, AppendHas
      <3> HIDE DEF Good
      <3> QED
        BY <2>2, <2>4, <3>1, <3>2
    <2> QED
      BY <2>1, <2>3, <2>5
  <1> HIDE DEF Good
  <1>3. Good = Seq(T)
    BY <1>1, <1>2, Sequences DEF Good
  <1> QED
    BY <1>3 DEF Good

\* A part of a part.
Twice(s, S, U) == Only(Only(s, S), U) = Only(s, S \cap U)

LEMMA OnlyTwice ==
  ASSUME NEW T, NEW S, NEW U, NEW s \in Seq(T)
  PROVE  Only(Only(s, S), U) = Only(s, S \cap U)
  <1> DEFINE Good == {u \in Seq(T) : Twice(u, S, U)}
  <1>1. <<>> \in Good
    <2>1. <<>> \in Seq(T) /\ Only(<<>>, S) = <<>> /\ Only(<<>>, U) = <<>> /\ Only(<<>>, S \cap U) = <<>>
      BY OnlyEmpty
    <2>2. Twice(<<>>, S, U)
      BY <2>1 DEF Twice
    <2> QED
      BY <2>1, <2>2
  <1>2. ASSUME NEW u \in Good, NEW e \in T
        PROVE  Append(u, e) \in Good
    <2>1. u \in Seq(T) /\ Append(u, e) \in Seq(T) /\ Only(u, S) \in Seq(T)
      BY OnlyHas
    <2>2. Only(Append(u, e), S) = IF e \in S THEN Append(Only(u, S), e) ELSE Only(u, S)
      BY <2>1, OnlyAppend
    <2>3. Only(Append(u, e), S \cap U) =
             IF e \in S \cap U THEN Append(Only(u, S \cap U), e) ELSE Only(u, S \cap U)
      BY <2>1, OnlyAppend
    <2>4. Only(Append(Only(u, S), e), U) =
             IF e \in U THEN Append(Only(Only(u, S), U), e) ELSE Only(Only(u, S), U)
      BY <2>1, OnlyAppend
    <2>5. Only(Only(u, S), U) = Only(u, S \cap U)
      BY DEF Twice
    <2>6. Only(Only(Append(u, e), S), U) = Only(Append(u, e), S \cap U)
      <3>1. PICK v, w, a, b : /\ v = Only(u, S) /\ w = Only(u, S \cap U) /\ a = Append(v, e) /\ b = Append(w, e)
        OBVIOUS
      <3>2. /\ Only(Append(u, e), S) = (IF e \in S THEN a ELSE v) /\ Only(v, U) = w
            /\ Only(Append(u, e), S \cap U) = (IF e \in S \cap U THEN b ELSE w)
            /\ Only(a, U) = (IF e \in U THEN b ELSE w)
        BY <2>2, <2>3, <2>4, <2>5, <3>1
      <3> QED
        BY ONLY <3>2
    <2> QED
      BY <2>1, <2>6 DEF Twice
  <1> HIDE DEF Good
  <1>3. Good = Seq(T)
    BY <1>1, <1>2, Sequences DEF Good
  <1> QED
    BY <1>3 DEF Good, Twice

\* The same elements give the same part.
Same(s, S, U) == (\A e \in ToSet(s) : e \in S <=> e \in U) => Only(s, S) = Only(s, U)

LEMMA OnlySame ==
  ASSUME NEW T, NEW S, NEW U, NEW s \in Seq(T), \A e \in ToSet(s) : e \in S <=> e \in U
  PROVE  Only(s, S) = Only(s, U)
  <1> DEFINE Good == {u \in Seq(T) : Same(u, S, U)}
  <1>1. <<>> \in Good
    BY OnlyEmpty DEF Same
  <1>2. ASSUME NEW u \in Good, NEW e \in T
        PROVE  Append(u, e) \in Good
    <2>1. u \in Seq(T) /\ Append(u, e) \in Seq(T) /\ ToSet(Append(u, e)) = ToSet(u) \cup {e}
      BY AppendHas
    <2>2. Only(Append(u, e), S) = IF e \in S THEN Append(Only(u, S), e) ELSE Only(u, S)
      BY <2>1, OnlyAppend
    <2>3. Only(Append(u, e), U) = IF e \in U THEN Append(Only(u, U), e) ELSE Only(u, U)
      BY <2>1, OnlyAppend
    <2>4. (\A x \in ToSet(u) : x \in S <=> x \in U) => Only(u, S) = Only(u, U)
      BY DEF Same
    <2>5. ASSUME \A x \in ToSet(Append(u, e)) : x \in S <=> x \in U
          PROVE  Only(Append(u, e), S) = Only(Append(u, e), U)
      <3>1. (e \in S <=> e \in U) /\ Only(u, S) = Only(u, U)
        BY <2>1, <2>4, <2>5
      <3> QED
        BY <2>2, <2>3, <3>1
    <2>6. Same(Append(u, e), S, U)
      BY <2>5 DEF Same
    <2> QED
      BY <2>1, <2>6
  <1> HIDE DEF Good
  <1>3. Good = Seq(T)
    BY <1>1, <1>2, Sequences DEF Good
  <1> QED
    BY <1>3 DEF Good, Same

\* A part of a sequence that is all of it, and one that lacks the element at k.
Whole(s, S) == ToSet(s) \subseteq S => Only(s, S) = s

LEMMA OnlyAll ==
  ASSUME NEW T, NEW S, NEW s \in Seq(T), ToSet(s) \subseteq S
  PROVE  Only(s, S) = s
  <1> DEFINE Good == {u \in Seq(T) : Whole(u, S)}
  <1>1. <<>> \in Good
    BY OnlyEmpty DEF Whole
  <1>2. ASSUME NEW u \in Good, NEW e \in T
        PROVE  Append(u, e) \in Good
    <2>1. u \in Seq(T) /\ Append(u, e) \in Seq(T) /\ ToSet(Append(u, e)) = ToSet(u) \cup {e}
      BY AppendHas
    <2>2. Only(Append(u, e), S) = IF e \in S THEN Append(Only(u, S), e) ELSE Only(u, S)
      BY <2>1, OnlyAppend
    <2>3. Whole(Append(u, e), S)
      BY <2>1, <2>2 DEF Whole
    <2> QED
      BY <2>1, <2>3
  <1> HIDE DEF Good
  <1>3. Good = Seq(T)
    BY <1>1, <1>2, Sequences DEF Good
  <1> QED
    BY <1>3 DEF Good, Whole

Lacks(u, s, k) == /\ Len(u) = Len(s) - 1
                  /\ \A i \in 1..(Len(s) - 1) : u[i] = IF i < k THEN s[i] ELSE s[i + 1]
LacksOne(s, S) == \A k \in 1..Len(s) :
                    (\A i \in 1..Len(s) : s[i] \in S <=> i # k) => Lacks(Only(s, S), s, k)

LEMMA AppendLacks ==
  ASSUME NEW T, NEW S, NEW u \in Seq(T), NEW e \in T, LacksOne(u, S)
  PROVE  LacksOne(Append(u, e), S)
  <1>1. PICK s, n, v : s = Append(u, e) /\ n = Len(u) /\ v = Only(u, S)
    OBVIOUS
  <1>2. /\ s \in Seq(T) /\ n \in Nat /\ Len(s) = n + 1 /\ s[n + 1] = e /\ \A i \in 1..n : s[i] = u[i]
    BY <1>1
  <1>3. Only(s, S) = (IF e \in S THEN Append(v, e) ELSE v) /\ v \in Seq(T)
    BY <1>1, OnlyAppend, OnlyHas
  <1>4. ASSUME NEW k \in 1..(n + 1), \A i \in 1..(n + 1) : s[i] \in S <=> i # k
        PROVE  Lacks(Only(s, S), s, k)
    <2>1. ASSUME k = n + 1
          PROVE  Lacks(Only(s, S), s, k)
      <3>1. ToSet(u) \subseteq S
        BY <1>1, <1>2, <1>4, <2>1 DEF ToSet
      <3>2. v = u /\ e \notin S
        BY <1>1, <1>2, <1>4, <2>1, <3>1, OnlyAll
      <3>3. Only(s, S) = u
        BY <1>3, <3>2
      <3> QED
        BY <1>1, <1>2, <2>1, <3>3 DEF Lacks
    <2>2. ASSUME k # n + 1
          PROVE  Lacks(Only(s, S), s, k)
      <3>1. k \in 1..n /\ n + 1 \in 1..(n + 1) /\ \A i \in 1..n : i \in 1..(n + 1)
        BY <1>2, <2>2
      <3>2. e \in S
        BY <1>2, <1>4, <2>2, <3>1
      <3>3. \A i \in 1..n : u[i] \in S <=> i # k
        BY <1>2, <1>4, <3>1
      <3>4. Lacks(v, u, k)
        BY <1>1, <3>1, <3>3 DEF LacksOne
      <3>5. PICK w : w = Append(v, e)
        OBVIOUS
      <3>6. Len(v) = n - 1 /\ \A i \in 1..(n - 1) : v[i] = IF i < k THEN u[i] ELSE u[i + 1]
        BY <1>1, <3>4 DEF Lacks
      <3>7. n \in Nat /\ n - 1 \in Nat /\ Len(w) = n /\ w[n] = e /\ \A i \in 1..(n - 1) : w[i] = v[i]
        BY <1>2, <1>3, <3>1, <3>5, <3>6
      <3>8. ASSUME NEW i \in 1..n
            PROVE  w[i] = IF i < k THEN s[i] ELSE s[i + 1]
        <4>1. ASSUME i = n
              PROVE  w[i] = IF i < k THEN s[i] ELSE s[i + 1]
          BY <1>2, <3>1, <3>7, <4>1
        <4>2. ASSUME i # n
              PROVE  w[i] = IF i < k THEN s[i] ELSE s[i + 1]
          <5>1. i \in 1..(n - 1) /\ i \in 1..n /\ i + 1 \in 1..n
            BY <3>7, <4>2
          <5>2. s[i] = u[i] /\ s[i + 1] = u[i + 1] /\ w[i] = v[i]
            BY <1>2, <3>7, <5>1
          <5> QED
            BY <3>6, <5>1, <5>2
        <4> QED
          BY <4>1, <4>2
      <3>9. Only(s, S) = w
        BY <1>3, <3>2, <3>5
      <3> QED
        BY <1>2, <3>7, <3>8, <3>9 DEF Lacks
    <2> QED
      BY <2>1, <2>2
  <1>5. LacksOne(s, S)
    BY <1>2, <1>4 DEF LacksOne
  <1> QED
    BY <1>1, <1>5

LEMMA OnlyLacks ==
  ASSUME NEW T, NEW S, NEW s \in Seq(T), NEW k \in 1..Len(s),
         \A i \in 1..Len(s) : s[i] \in S <=> i # k
  PROVE  Lacks(Only(s, S), s, k)
  <1> DEFINE Good == {u \in Seq(T) : LacksOne(u, S)}
  <1>1. <<>> \in Good
    BY DEF LacksOne
  <1>2. ASSUME NEW u \in Good, NEW e \in T
        PROVE  Append(u, e) \in Good
    BY AppendLacks
  <1> HIDE DEF Good
  <1>3. Good = Seq(T)
    BY <1>1, <1>2, Sequences DEF Good
  <1> QED
    BY <1>3 DEF Good, LacksOne

\* No element is in a part twice that is in the sequence once.
LEMMA AppendIs ==
  ASSUME NEW T, NEW s \in Seq(T), NEW e \in T, NEW u, u = Append(s, e), NEW n, n = Len(s)
  PROVE  /\ n \in Nat /\ DOMAIN s = 1..n /\ DOMAIN u = 1..(n + 1) /\ u[n + 1] = e
         /\ \A i \in 1..n : u[i] = s[i] /\ i \in 1..(n + 1) /\ i # n + 1
         /\ n + 1 \in 1..(n + 1) /\ \A i \in 1..(n + 1) : i \in 1..n \/ i = n + 1
  OBVIOUS

LEMMA PrefixInjective ==
  ASSUME NEW T, NEW s \in Seq(T), NEW e \in T, IsInjective(Append(s, e))
  PROVE  IsInjective(s) /\ e \notin ToSet(s)
  <1>1. PICK u, n : u = Append(s, e) /\ n = Len(s)
    OBVIOUS
  <1>2. \A i, j \in DOMAIN u : u[i] = u[j] => i = j
    BY <1>1 DEF IsInjective
  <1> QED
    BY <1>1, <1>2, AppendIs DEF IsInjective, ToSet

LEMMA NewInjective ==
  ASSUME NEW T, NEW s \in Seq(T), NEW e \in T, IsInjective(s), e \notin ToSet(s)
  PROVE  IsInjective(Append(s, e))
  <1>1. PICK u, n : u = Append(s, e) /\ n = Len(s)
    OBVIOUS
  <1>2. /\ \A i, j \in 1..n : s[i] = s[j] => i = j
        /\ \A i \in 1..n : s[i] # e
    BY <1>1, AppendIs DEF IsInjective, ToSet
  <1>3. \A i, j \in DOMAIN u : u[i] = u[j] => i = j
    BY <1>1, <1>2, AppendIs
  <1> QED
    BY <1>1, <1>3 DEF IsInjective

PartInjective(s, S) == IsInjective(s) => IsInjective(Only(s, S))

LEMMA OnlyInjective ==
  ASSUME NEW T, NEW S, NEW s \in Seq(T), IsInjective(s)
  PROVE  IsInjective(Only(s, S))
  <1> DEFINE Good == {u \in Seq(T) : PartInjective(u, S)}
  <1>1. <<>> \in Good
    BY OnlyEmpty DEF PartInjective
  <1>2. ASSUME NEW u \in Good, NEW e \in T
        PROVE  Append(u, e) \in Good
    <2>1. /\ u \in Seq(T) /\ Append(u, e) \in Seq(T) /\ Only(u, S) \in Seq(T)
          /\ ToSet(Only(u, S)) = ToSet(u) \cap S
      BY OnlyHas
    <2>2. Only(Append(u, e), S) = IF e \in S THEN Append(Only(u, S), e) ELSE Only(u, S)
      BY <2>1, OnlyAppend
    <2>3. PICK v : v = Only(u, S) /\ v \in Seq(T) /\ ToSet(v) = ToSet(u) \cap S
      BY <2>1
    <2>4. ASSUME IsInjective(Append(u, e))
          PROVE  IsInjective(Only(Append(u, e), S))
      <3>1. IsInjective(u) /\ e \notin ToSet(u)
        BY <2>1, <2>4, PrefixInjective
      <3>2. IsInjective(v) /\ e \notin ToSet(v)
        BY <2>3, <3>1 DEF PartInjective
      <3>3. IsInjective(Append(v, e))
        BY <2>3, <3>2, NewInjective
      <3>4. Only(Append(u, e), S) = Append(v, e) \/ Only(Append(u, e), S) = v
        BY <2>2, <2>3
      <3> QED
        BY <3>2, <3>3, <3>4
    <2>5. PartInjective(Append(u, e), S)
      BY <2>4 DEF PartInjective
    <2> QED
      BY <2>1, <2>5
  <1> HIDE DEF Good
  <1>3. Good = Seq(T)
    BY <1>1, <1>2, Sequences DEF Good
  <1> QED
    BY <1>3 DEF Good, PartInjective

-----------------------------------------------------------------------------
(* Chains                                                                     *)

Chained(b, nx) == \A i \in 1..Len(b) : nx[b[i]] = IF i = Len(b) THEN NoBlock ELSE b[i + 1]

LEMMA ChainStays ==
  ASSUME NEW b \in Seq(Procs), NEW nx, NEW nx2, Chained(b, nx), \A q \in ToSet(b) : nx2[q] = nx[q]
  PROVE  Chained(b, nx2)
  BY DEF Chained, ToSet

LEMMA ChainGrows ==
  ASSUME NEW b \in Seq(Procs), NEW p \in Procs, NEW nx, NEW nx2, IsInjective(b), p \notin ToSet(b), Chained(b, nx),
         nx2[p] = NoBlock, b # <<>> => nx2[b[Len(b)]] = p,
         \A q \in ToSet(b) : q # b[Len(b)] => nx2[q] = nx[q]
  PROVE  Chained(Append(b, p), nx2)
  <1>1. PICK u, n : u = Append(b, p) /\ n = Len(b)
    OBVIOUS
  <1>2. /\ n \in Nat /\ Len(u) = n + 1 /\ u[n + 1] = p /\ \A i \in 1..n : u[i] = b[i]
        /\ (n # 0 => b # <<>>)
    BY <1>1
  <1>3. ASSUME NEW i \in 1..(n + 1)
        PROVE  nx2[u[i]] = IF i = n + 1 THEN NoBlock ELSE u[i + 1]
    <2>1. ASSUME i = n
          PROVE  nx2[u[i]] = IF i = n + 1 THEN NoBlock ELSE u[i + 1]
      BY <1>1, <1>2, <2>1
    <2>2. ASSUME i \in 1..n, i # n
          PROVE  nx2[u[i]] = IF i = n + 1 THEN NoBlock ELSE u[i + 1]
      <3>1. b[i] \in ToSet(b) /\ n \in DOMAIN b /\ i \in DOMAIN b /\ i + 1 \in 1..n /\ i # n + 1
        BY <1>1, <1>2, <2>2 DEF ToSet
      <3>2. b[i] # b[n]
        BY <2>2, <3>1 DEF IsInjective
      <3>3. nx[b[i]] = b[i + 1]
        BY <1>1, <2>2 DEF Chained
      <3> QED
        BY <1>1, <1>2, <2>2, <3>1, <3>2, <3>3
    <2> QED
      BY <1>2, <2>1, <2>2
  <1> QED
    BY <1>1, <1>2, <1>3 DEF Chained

\* The block before p points at what p points at, and nothing else changes.
Bridged(b, p, nx, nx2) == \A q \in ToSet(b) \ {p} : nx2[q] = IF nx[q] = p THEN nx[p] ELSE nx[q]

LEMMA ChainShrinks ==
  ASSUME NEW b \in Seq(Procs), NEW k \in 1..Len(b), NEW u \in Seq(Procs), Lacks(u, b, k),
         NEW nx, NEW nx2, NEW p, p = b[k], p # NoBlock, IsInjective(b), Chained(b, nx), Bridged(b, p, nx, nx2)
  PROVE  Chained(u, nx2)
  <1>1. PICK n : n = Len(b)
    OBVIOUS
  <1>2. /\ n \in Nat /\ n >= 1 /\ k \in 1..n /\ Len(u) = n - 1
        /\ \A i \in 1..(n - 1) : u[i] = IF i < k THEN b[i] ELSE b[i + 1]
    BY <1>1 DEF Lacks
  <1>3. /\ \A i \in 1..n : nx[b[i]] = IF i = n THEN NoBlock ELSE b[i + 1]
        /\ \A i, j \in 1..n : b[i] = b[j] => i = j
        /\ \A i \in 1..n : i # k => nx2[b[i]] = IF nx[b[i]] = p THEN nx[p] ELSE nx[b[i]]
    <2>1. \A i \in 1..n : b[i] \in ToSet(b) /\ i \in DOMAIN b
      BY <1>1 DEF ToSet
    <2> QED
      BY <1>1, <1>2, <2>1 DEF Chained, IsInjective, Bridged
  <1>4. ASSUME NEW i \in 1..(n - 1)
        PROVE  nx2[u[i]] = IF i = n - 1 THEN NoBlock ELSE u[i + 1]
    <2>1. ASSUME i < k, i + 1 < k
          PROVE  nx2[u[i]] = IF i = n - 1 THEN NoBlock ELSE u[i + 1]
      <3>1. i \in 1..n /\ i # n /\ i # k /\ i + 1 \in 1..(n - 1) /\ i + 1 \in 1..n /\ i + 1 # k /\ i # n - 1
        BY <1>2, <2>1
      <3>2. nx[b[i]] = b[i + 1] /\ b[i + 1] # p
        BY <1>2, <1>3, <3>1
      <3> QED
        BY <1>2, <1>3, <2>1, <3>1, <3>2
    <2>2. ASSUME i < k, i + 1 >= k
          PROVE  nx2[u[i]] = IF i = n - 1 THEN NoBlock ELSE u[i + 1]
      <3>1. i \in 1..n /\ i # n /\ i # k /\ i + 1 = k
        BY <1>2, <2>2
      <3>2. nx2[b[i]] = nx[p] /\ u[i] = b[i]
        BY <1>2, <1>3, <2>2, <3>1
      <3>3. ASSUME i = n - 1
            PROVE  nx2[u[i]] = IF i = n - 1 THEN NoBlock ELSE u[i + 1]
        BY <1>2, <1>3, <3>1, <3>2, <3>3
      <3>4. ASSUME i # n - 1
            PROVE  nx2[u[i]] = IF i = n - 1 THEN NoBlock ELSE u[i + 1]
        <4>1. k # n /\ k \in 1..(n - 1) /\ ~(k < k)
          BY <1>2, <3>1, <3>4
        <4>2. u[i + 1] = b[k + 1] /\ nx[p] = b[k + 1]
          BY <1>2, <1>3, <3>1, <4>1
        <4> QED
          BY <3>2, <3>4, <4>2
      <3> QED
        BY <3>3, <3>4
    <2>3. ASSUME i >= k
          PROVE  nx2[u[i]] = IF i = n - 1 THEN NoBlock ELSE u[i + 1]
      <3>1. i + 1 \in 1..n /\ i + 1 # k /\ ~(i < k) /\ ~(i + 1 < k)
        BY <1>2, <2>3
      <3>2. u[i] = b[i + 1]
        BY <1>2, <3>1
      <3>3. ASSUME i = n - 1
            PROVE  nx2[u[i]] = IF i = n - 1 THEN NoBlock ELSE u[i + 1]
        BY <1>2, <1>3, <3>1, <3>2, <3>3
      <3>4. ASSUME i # n - 1
            PROVE  nx2[u[i]] = IF i = n - 1 THEN NoBlock ELSE u[i + 1]
        <4>1. i + 1 # n /\ i + 1 \in 1..(n - 1) /\ (i + 1) + 1 \in 1..n /\ (i + 1) + 1 # k
          BY <1>2, <2>3, <3>4
        <4>2. u[i + 1] = b[(i + 1) + 1] /\ nx[b[i + 1]] = b[(i + 1) + 1] /\ b[(i + 1) + 1] # p
          BY <1>2, <1>3, <3>1, <4>1
        <4> QED
          BY <1>3, <3>1, <3>2, <3>4, <4>2
      <3> QED
        BY <3>3, <3>4
    <2> QED
      BY <1>2, <2>1, <2>2, <2>3
  <1> QED
    BY <1>2, <1>4 DEF Chained

-----------------------------------------------------------------------------
(* The line of a context                                                      *)

LEMMA LineIs ==
  ASSUME TypeOK, NEW c
  PROVE  /\ SameContext(c) \in Seq(Procs) /\ IsInjective(SameContext(c))
         /\ \A p : p \in ToSet(SameContext(c)) <=> p \in Procs /\ Queued(p) /\ context[p] = c
  <1>1. list \in Seq(Procs) /\ IsInjective(list)
    BY DEF TypeOK
  <1>2. /\ SameContext(c) \in Seq(Procs)
        /\ ToSet(SameContext(c)) = ToSet(list) \cap {q \in Procs : context[q] = c}
    BY <1>1, OnlyHas DEF SameContext
  <1>3. IsInjective(SameContext(c))
    BY <1>1, OnlyInjective DEF SameContext
  <1> QED
    BY <1>2, <1>3 DEF Queued

LEMMA ListHas ==
  ASSUME TypeOK, NEW p, Queued(p)
  PROVE  p \in Procs
  BY DEF TypeOK, Queued, ToSet

LEMMA LineGrows ==
  ASSUME TypeOK, NEW p \in Procs, NEW c, ~Queued(p), list' = Append(list, p), context' = Set(context, p, c)
  PROVE  /\ SameContext(c)' = Append(SameContext(c), p)
         /\ \A d : d # c => SameContext(d)' = SameContext(d)
         /\ list' \in Seq(Procs) /\ IsInjective(list') /\ \A q : Queued(q)' <=> Queued(q) \/ q = p
  <1>1. /\ list \in Seq(Procs) /\ IsInjective(list) /\ context \in [Procs -> Contexts \cup {NoBlock}]
        /\ p \notin ToSet(list)
    BY DEF TypeOK, Queued
  <1>2. context'[p] = c /\ \A q \in Procs : q # p => context'[q] = context[q]
    BY <1>1 DEF Set
  <1>3. ASSUME NEW d
        PROVE  SameContext(d)' = IF d = c THEN Append(SameContext(d), p) ELSE SameContext(d)
    <2>1. PICK S, U : S = {q \in Procs : context[q] = d} /\ U = {q \in Procs : context'[q] = d}
      OBVIOUS
    <2>2. Only(list, S) = Only(list, U)
      <3>1. \A e \in ToSet(list) : e \in S <=> e \in U
        BY <1>1, <1>2, <2>1
      <3> QED
        BY <1>1, <3>1, OnlySame
    <2>3. Only(Append(list, p), U) = IF p \in U THEN Append(Only(list, U), p) ELSE Only(list, U)
      BY <1>1, OnlyAppend
    <2>4. p \in U <=> d = c
      BY <1>2, <2>1
    <2>5. SameContext(d) = Only(list, S) /\ SameContext(d)' = Only(Append(list, p), U)
      BY <2>1 DEF SameContext
    <2> QED
      BY <2>2, <2>3, <2>4, <2>5
  <1>4. list' \in Seq(Procs) /\ ToSet(list') = ToSet(list) \cup {p} /\ IsInjective(list')
    BY <1>1, AppendHas, NewInjective
  <1> QED
    BY <1>3, <1>4 DEF Queued

LEMMA LineShrinks ==
  ASSUME TypeOK, NEW p \in Procs, list' = Only(list, Procs \ {p}), context' = Set(context, p, NoBlock)
  PROVE  /\ \A d \in Contexts : SameContext(d)' = Only(SameContext(d), Procs \ {p})
         /\ list' \in Seq(Procs) /\ IsInjective(list') /\ \A q : Queued(q)' <=> Queued(q) /\ q # p
  <1>1. /\ list \in Seq(Procs) /\ IsInjective(list) /\ context \in [Procs -> Contexts \cup {NoBlock}]
    BY DEF TypeOK
  <1>2. context'[p] = NoBlock /\ \A q \in Procs : q # p => context'[q] = context[q]
    BY <1>1 DEF Set
  <1>3. ASSUME NEW d \in Contexts
        PROVE  SameContext(d)' = Only(SameContext(d), Procs \ {p})
    <2>1. PICK S, U : S = {q \in Procs : context[q] = d} /\ U = {q \in Procs : context'[q] = d}
      OBVIOUS
    <2>2. d # NoBlock
      BY NoBlockAssumption
    <2>3. (Procs \ {p}) \cap U = S \cap (Procs \ {p})
      BY <1>2, <2>1, <2>2
    <2>4. /\ Only(Only(list, Procs \ {p}), U) = Only(list, (Procs \ {p}) \cap U)
          /\ Only(Only(list, S), Procs \ {p}) = Only(list, S \cap (Procs \ {p}))
      BY <1>1, OnlyTwice
    <2>5. SameContext(d) = Only(list, S) /\ SameContext(d)' = Only(Only(list, Procs \ {p}), U)
      BY <2>1 DEF SameContext
    <2> QED
      BY <2>3, <2>4, <2>5
  <1>4. /\ list' \in Seq(Procs) /\ ToSet(list') = ToSet(list) \cap (Procs \ {p}) /\ IsInjective(list')
    BY <1>1, OnlyHas, OnlyInjective
  <1>5. \A q : q \in ToSet(list) => q \in Procs
    BY ListHas DEF Queued
  <1> QED
    BY <1>3, <1>4, <1>5 DEF Queued

\* The line of a context without one of its blocks, and without none.
LEMMA ShorterLine ==
  ASSUME NEW b \in Seq(Procs), IsInjective(b), NEW p \in Procs
  PROVE  /\ p \notin ToSet(b) => Only(b, Procs \ {p}) = b
         /\ \A k \in 1..Len(b) : b[k] = p => Lacks(Only(b, Procs \ {p}), b, k)
  <1>1. ASSUME p \notin ToSet(b)
        PROVE  Only(b, Procs \ {p}) = b
    <2>1. ToSet(b) \subseteq Procs \ {p}
      BY <1>1 DEF ToSet
    <2> QED
      BY <2>1, OnlyAll
  <1>2. ASSUME NEW k \in 1..Len(b), b[k] = p
        PROVE  Lacks(Only(b, Procs \ {p}), b, k)
    <2>1. \A i \in 1..Len(b) : b[i] \in Procs /\ (b[i] = p <=> i = k)
      BY <1>2 DEF IsInjective
    <2>2. \A i \in 1..Len(b) : b[i] \in Procs \ {p} <=> i # k
      BY <2>1
    <2> QED
      BY <2>2, OnlyLacks
  <1> QED
    BY <1>1, <1>2

-----------------------------------------------------------------------------
(* The inductive invariant                                                    *)

\* Somebody has set the event of p, or will.
Called(p) == event[p] \/ \E q \in Procs : target[q] = p
\* The lock belongs to p, or p is about to take it.
Claims(p) == Holds(p) \/ (pc[p] = "waiting" /\ Called(p))

BlocksFit == \A p \in Procs : IF Queued(p) THEN context[p] \in Contexts ELSE context[p] = NoBlock
TargetsFit == \A q \in Procs : target[q] # NoBlock => Queued(target[q])
HeadsFit == \A c \in Contexts, p \in Procs : context[p] = c /\ Claims(p) => SameContext(c)[1] = p

QInv == TypeOK /\ BlocksFit /\ TargetsFit /\ ChainIsComplete /\ HeadsFit

LEMMA Chains ==
  ASSUME QInv, NEW c \in Contexts
  PROVE  Chained(SameContext(c), next)
  <1>1. SameContext(c) \in Seq(Procs)
    BY LineIs DEF QInv
  <1>2. DOMAIN SameContext(c) = 1..Len(SameContext(c))
    BY <1>1
  <1>3. \A i \in DOMAIN SameContext(c) :
          next[SameContext(c)[i]] = IF i = Len(SameContext(c)) THEN NoBlock ELSE SameContext(c)[i + 1]
    BY DEF QInv, ChainIsComplete
  <1> QED
    BY <1>2, <1>3 DEF Chained

LEMMA ChainsNext ==
  ASSUME TypeOK', \A c \in Contexts : Chained(SameContext(c)', next')
  PROVE  ChainIsComplete'
  <1>1. ASSUME NEW c \in Contexts
        PROVE  SameContext(c)' \in Seq(Procs)
    <2>1. TypeOK' => (SameContext(c) \in Seq(Procs))'
      BY LineIs, PTL
    <2> QED
      BY <2>1
  <1>2. ASSUME NEW c \in Contexts, NEW i \in DOMAIN SameContext(c)'
        PROVE  next'[SameContext(c)'[i]] = IF i = Len(SameContext(c)') THEN NoBlock ELSE SameContext(c)'[i + 1]
    <2>1. PICK b : b = SameContext(c)'
      OBVIOUS
    <2>2. b \in Seq(Procs) /\ i \in 1..Len(b) /\ Chained(b, next')
      BY <1>1, <1>2, <2>1
    <2> QED
      BY <2>1, <2>2 DEF Chained
  <1> QED
    BY <1>2 DEF ChainIsComplete

\* A block of a line, its place in it, and the line it is not in.
LEMMA InLine ==
  ASSUME QInv, NEW p \in Procs, Queued(p), NEW c, c = context[p], NEW b, b = SameContext(c)
  PROVE  /\ c \in Contexts /\ b \in Seq(Procs) /\ IsInjective(b) /\ \E k \in 1..Len(b) : b[k] = p
         /\ \A d : d # c => p \notin ToSet(SameContext(d))
  <1>1. c \in Contexts
    BY DEF QInv, BlocksFit
  <1>2. b \in Seq(Procs) /\ IsInjective(b) /\ p \in ToSet(b)
    BY LineIs DEF QInv
  <1>3. \E k \in 1..Len(b) : b[k] = p
    BY <1>2 DEF ToSet
  <1>4. \A d : d # c => p \notin ToSet(SameContext(d))
    BY LineIs DEF QInv
  <1> QED
    BY <1>1, <1>2, <1>3, <1>4

-----------------------------------------------------------------------------
(* A block is inserted                                                        *)

LEMMA InsertFits ==
  ASSUME QInv, NEW p \in Procs, NEW c \in Contexts, pc[p] = "out", NEW flag \in BOOLEAN,
         Insert(p, c, flag), UNCHANGED target, NEW point \in {"holding", "waiting", "barrier"},
         pc' = Set(pc, p, point), point = "holding" => SameContext(c) = <<>>
  PROVE  /\ QInv' /\ SameContext(c)' = Append(SameContext(c), p)
         /\ \A d \in Contexts : d # c => SameContext(d)' = SameContext(d)
  <1>1. TypeOK /\ ~Queued(p)
    BY DEF QInv, TypeOK
  <1>2. list' = Append(list, p) /\ context' = Set(context, p, c) /\ event' = Set(event, p, FALSE)
    BY DEF Insert
  <1>3. /\ SameContext(c)' = Append(SameContext(c), p)
        /\ \A d : d # c => SameContext(d)' = SameContext(d)
        /\ list' \in Seq(Procs) /\ IsInjective(list') /\ \A q : Queued(q)' <=> Queued(q) \/ q = p
    BY <1>1, <1>2, LineGrows
  <1>4. PICK b : b = SameContext(c)
    OBVIOUS
  <1>5. /\ b \in Seq(Procs) /\ IsInjective(b) /\ p \notin ToSet(b)
        /\ b # <<>> => b[Len(b)] \in ToSet(b)
    <2>1. b \in Seq(Procs) /\ IsInjective(b) /\ p \notin ToSet(b)
      BY <1>1, <1>4, LineIs
    <2>2. b # <<>> => Len(b) \in DOMAIN b
      BY <2>1
    <2> QED
      BY <2>1, <2>2 DEF ToSet
  <1>6. /\ next \in [Procs -> Procs \cup {NoBlock}] /\ barrierFlag \in [Procs -> BOOLEAN]
        /\ event \in [Procs -> BOOLEAN] /\ pc \in [Procs -> Points] /\ context \in [Procs -> Contexts \cup {NoBlock}]
        /\ target \in [Procs -> Procs \cup {NoBlock}]
    BY <1>1 DEF TypeOK
  <1>7. /\ next' \in [Procs -> Procs \cup {NoBlock}] /\ barrierFlag' \in [Procs -> BOOLEAN]
        /\ next'[p] = NoBlock
        /\ b # <<>> => next'[b[Len(b)]] = p
        /\ \A q \in Procs : q # p /\ (b = <<>> \/ q # b[Len(b)]) => next'[q] = next[q]
    <2>1. ASSUME b = <<>>
          PROVE  <1>7!:
      <3>1. next' = Set(next, p, NoBlock) /\ barrierFlag' = Set(barrierFlag, p, FALSE)
        BY <1>4, <2>1 DEF Insert
      <3> QED
        BY <1>6, <2>1, <3>1 DEF Set
    <2>2. ASSUME b # <<>>
          PROVE  <1>7!:
      <3>1. PICK last : last = b[Len(b)]
        OBVIOUS
      <3>2. /\ next' = Set(Set(next, p, NoBlock), last, p)
            /\ barrierFlag' = [barrierFlag EXCEPT ![p] = FALSE, ![last] = @ \/ flag]
        BY <1>4, <2>2, <3>1 DEF Insert
      <3>3. last \in Procs /\ last # p
        BY <1>5, <2>2, <3>1 DEF ToSet
      <3> QED
        BY <1>6, <2>2, <3>1, <3>2, <3>3 DEF Set
    <2> QED
      BY <2>1, <2>2
  <1>8. /\ pc' \in [Procs -> Points] /\ event' \in [Procs -> BOOLEAN]
        /\ context' \in [Procs -> Contexts \cup {NoBlock}]
        /\ pc'[p] = point /\ ~event'[p] /\ context'[p] = c
        /\ \A q \in Procs : q # p => pc'[q] = pc[q] /\ event'[q] = event[q] /\ context'[q] = context[q]
    BY <1>2, <1>6 DEF Set, Points
  <1>9. TypeOK'
    <2>1. \A q \in Procs : Queued(q)' <=> pc'[q] \notin {"out", "signalling"}
      BY <1>1, <1>3, <1>8 DEF TypeOK
    <2> QED
      BY <1>3, <1>6, <1>7, <1>8, <2>1 DEF TypeOK
  <1>10. BlocksFit'
    BY <1>3, <1>8 DEF QInv, BlocksFit
  <1>11. TargetsFit'
    BY <1>3 DEF QInv, TargetsFit
  <1>12. ChainIsComplete'
    <2>1. Chained(SameContext(c)', next')
      <3>1. Chained(b, next)
        BY <1>4, Chains
      <3>2. \A q \in ToSet(b) : q \in Procs /\ q # p
        BY <1>5 DEF ToSet
      <3>3. \A q \in ToSet(b) : q # b[Len(b)] => next'[q] = next[q]
        BY <1>7, <3>2
      <3>4. Chained(Append(b, p), next')
        BY <1>5, <1>7, <3>1, <3>3, ChainGrows
      <3> QED
        BY <1>3, <1>4, <3>4
    <2>2. ASSUME NEW d \in Contexts, d # c
          PROVE  Chained(SameContext(d)', next')
      <3>1. PICK e : e = SameContext(d)
        OBVIOUS
      <3>2. e \in Seq(Procs) /\ Chained(e, next) /\ \A q \in ToSet(e) : q \in Procs /\ Queued(q) /\ context[q] = d
        BY <1>1, <2>2, <3>1, LineIs, Chains
      <3>3. \A q \in ToSet(b) : context[q] = c
        BY <1>1, <1>4, LineIs
      <3>4. \A q \in ToSet(e) : next'[q] = next[q]
        BY <1>1, <1>5, <1>7, <2>2, <3>2, <3>3
      <3> QED
        BY <1>3, <2>2, <3>1, <3>2, <3>4, ChainStays
    <2> QED
      BY <1>9, <2>1, <2>2, ChainsNext
  <1>13. HeadsFit'
    <2>1. ASSUME NEW d \in Contexts, NEW q \in Procs, q # p, context'[q] = d, Claims(q)'
          PROVE  SameContext(d)'[1] = q
      <3>1. context[q] = d /\ Claims(q) /\ Queued(q)
        BY <1>1, <1>8, <2>1 DEF Claims, Holds, Called, TypeOK
      <3>2. PICK e : e = SameContext(d)
        OBVIOUS
      <3>3. e \in Seq(Procs) /\ e[1] = q /\ \E k \in 1..Len(e) : e[k] = q
        BY <3>1, <3>2, InLine DEF QInv, HeadsFit
      <3>4. Append(e, p)[1] = q
        BY <3>3
      <3>5. SameContext(d)' = e \/ SameContext(d)' = Append(e, p)
        BY <1>3, <3>2
      <3> QED
        BY <3>3, <3>4, <3>5
    <2>2. ASSUME Claims(p)'
          PROVE  SameContext(c)'[1] = p
      <3>1. \A q \in Procs : target'[q] # p
        BY <1>1, NoBlockAssumption DEF QInv, TargetsFit
      <3>2. b = <<>>
        BY <1>4, <1>8, <2>2, <3>1 DEF Claims, Holds, Called
      <3>3. Append(b, p)[1] = p
        BY <3>2
      <3> QED
        BY <1>3, <1>4, <3>3
    <2> QED
      BY <1>8, <2>1, <2>2 DEF HeadsFit
  <1> QED
    BY <1>3, <1>9, <1>10, <1>11, <1>12, <1>13 DEF QInv
-----------------------------------------------------------------------------
(* A block is removed                                                         *)

\* What a block of a line points at is in the line.
LEMMA Follows ==
  ASSUME QInv, NEW q \in Procs, Queued(q), NEW c, c = context[q], NEW b, b = SameContext(c),
         NEW k \in 1..Len(b), b[k] = q
  PROVE  next[q] = IF k = Len(b) THEN NoBlock ELSE b[k + 1]
  <1>1. c \in Contexts
    BY InLine
  <1> QED
    BY <1>1, Chains DEF Chained

LEMMA PointsInLine ==
  ASSUME QInv, NEW q \in Procs, Queued(q), next[q] # NoBlock
  PROVE  next[q] \in Procs /\ Queued(next[q]) /\ context[next[q]] = context[q]
  <1>1. PICK c, b : c = context[q] /\ b = SameContext(c)
    OBVIOUS
  <1>2. PICK k \in 1..Len(b) : b[k] = q
    BY <1>1, InLine
  <1>3. b \in Seq(Procs)
    BY <1>1, InLine
  <1>4. next[q] = b[k + 1] /\ k + 1 \in 1..Len(b)
    BY <1>1, <1>2, <1>3, Follows
  <1>5. b[k + 1] \in ToSet(b)
    BY <1>3, <1>4 DEF ToSet
  <1> QED
    BY <1>1, <1>4, <1>5, LineIs DEF QInv

\* A block is the first of its line just if no block points at it.
LEMMA BeforeFirst ==
  ASSUME QInv, NEW p \in Procs, Queued(p), NEW c, c = context[p], NEW b, b = SameContext(c)
  PROVE  Before(p) = {} <=> b[1] = p
  <1>1. b \in Seq(Procs) /\ IsInjective(b) /\ p # NoBlock
    BY InLine, NoBlockAssumption
  <1>2. PICK k \in 1..Len(b) : b[k] = p
    BY InLine
  <1>3. \A i \in 1..Len(b) : b[i] \in ToSet(b) /\ b[i] \in Procs
    BY <1>1 DEF ToSet
  <1>4. ASSUME b[1] # p
        PROVE  Before(p) # {}
    <2>1. k - 1 \in 1..Len(b) /\ k - 1 # Len(b) /\ (k - 1) + 1 = k
      BY <1>1, <1>2, <1>4
    <2>2. PICK q : q = b[k - 1]
      OBVIOUS
    <2>3. q \in Procs /\ Queued(q) /\ context[q] = c
      BY <1>3, <2>1, <2>2, LineIs DEF QInv
    <2>4. next[q] = p
      BY <1>2, <2>1, <2>2, <2>3, Follows
    <2> QED
      BY <2>3, <2>4 DEF Before, Queued
  <1>5. ASSUME b[1] = p, NEW q \in Before(p)
        PROVE  FALSE
    <2>1. q \in Procs /\ Queued(q) /\ next[q] = p
      BY <1>5, ListHas DEF QInv, Before, Queued
    <2>2. context[q] = c
      BY <1>1, <2>1, PointsInLine
    <2>3. PICK j \in 1..Len(b) : b[j] = q
      BY <2>1, <2>2, InLine
    <2>4. j # Len(b) /\ b[j + 1] = p
      BY <1>1, <2>1, <2>2, <2>3, Follows
    <2>5. 1 \in DOMAIN b /\ j + 1 \in DOMAIN b /\ j + 1 # 1
      BY <1>1, <2>3, <2>4
    <2> QED
      BY <1>1, <1>5, <2>4, <2>5 DEF IsInjective
  <1> QED
    BY <1>4, <1>5

\* What a removal may change besides the block it removes.
Relinked(p, nn) == \A q \in Procs : q # p /\ Queued(q) => nn[q] = IF next[q] = p THEN next[p] ELSE next[q]
CalledByHead(p, b, tt, ee) ==
  /\ \A q \in Procs : tt[q] = target[q] \/ (tt[q] = next[p] /\ b[1] = p)
  /\ \A q \in Procs : ee[q] => event[q] \/ (q = next[p] /\ b[1] = p)

LEMMA RemoveFits ==
  ASSUME QInv, NEW p \in Procs, Queued(p), NEW c, c = context[p], NEW b, b = SameContext(c),
         NEW nn \in [Procs -> Procs \cup {NoBlock}], NEW ff \in [Procs -> BOOLEAN],
         NEW tt \in [Procs -> Procs \cup {NoBlock}], RemoveBlock(p, nn, ff, tt),
         event' \in [Procs -> BOOLEAN], Relinked(p, nn), CalledByHead(p, b, tt, event'),
         NEW point \in {"out", "signalling"}, pc' = Set(pc, p, point)
  PROVE  /\ QInv' /\ SameContext(c)' = Only(b, Procs \ {p})
         /\ \A d \in Contexts : d # c => SameContext(d)' = SameContext(d)
  <1>1. TypeOK /\ p # NoBlock
    BY NoBlockAssumption DEF QInv
  <1>2. /\ list' = Only(list, Procs \ {p}) /\ context' = Set(context, p, NoBlock)
        /\ next' = Set(nn, p, NoBlock) /\ barrierFlag' = Set(ff, p, FALSE)
        /\ target' = [q \in Procs |-> IF tt[q] = p THEN NoBlock ELSE tt[q]]
    BY DEF RemoveBlock
  <1>3. /\ c \in Contexts /\ b \in Seq(Procs) /\ IsInjective(b) /\ \E k \in 1..Len(b) : b[k] = p
        /\ \A d : d # c => p \notin ToSet(SameContext(d))
    BY InLine
  <1>4. PICK k \in 1..Len(b) : b[k] = p
    BY <1>3
  <1>5. PICK u : u = Only(b, Procs \ {p})
    OBVIOUS
  <1>6. u \in Seq(Procs) /\ Lacks(u, b, k)
    BY <1>3, <1>4, <1>5, ShorterLine, OnlyHas
  <1>7. /\ list' \in Seq(Procs) /\ IsInjective(list') /\ \A q : Queued(q)' <=> Queued(q) /\ q # p
        /\ SameContext(c)' = u
        /\ \A d \in Contexts : d # c => SameContext(d)' = SameContext(d)
    <2>1. /\ \A d \in Contexts : SameContext(d)' = Only(SameContext(d), Procs \ {p})
          /\ list' \in Seq(Procs) /\ IsInjective(list') /\ \A q : Queued(q)' <=> Queued(q) /\ q # p
      BY <1>1, <1>2, LineShrinks
    <2>2. ASSUME NEW d \in Contexts, d # c
          PROVE  Only(SameContext(d), Procs \ {p}) = SameContext(d)
      <3>1. PICK e : e = SameContext(d)
        OBVIOUS
      <3>2. e \in Seq(Procs) /\ IsInjective(e) /\ p \notin ToSet(e)
        BY <1>1, <1>3, <2>2, <3>1, LineIs
      <3> QED
        BY <3>1, <3>2, ShorterLine
    <2> QED
      BY <1>3, <1>5, <2>1, <2>2
  <1>8. /\ pc \in [Procs -> Points] /\ context \in [Procs -> Contexts \cup {NoBlock}]
        /\ event \in [Procs -> BOOLEAN] /\ next \in [Procs -> Procs \cup {NoBlock}]
        /\ target \in [Procs -> Procs \cup {NoBlock}]
    BY <1>1 DEF TypeOK
  <1>9. /\ pc' \in [Procs -> Points] /\ context' \in [Procs -> Contexts \cup {NoBlock}]
        /\ next' \in [Procs -> Procs \cup {NoBlock}] /\ barrierFlag' \in [Procs -> BOOLEAN]
        /\ target' \in [Procs -> Procs \cup {NoBlock}]
        /\ pc'[p] = point /\ context'[p] = NoBlock
        /\ \A q \in Procs : q # p => pc'[q] = pc[q] /\ context'[q] = context[q] /\ next'[q] = nn[q]
        /\ \A q \in Procs : target'[q] # p /\ (target'[q] # NoBlock => target'[q] = tt[q])
    BY <1>1, <1>2, <1>8 DEF Set, Points
  <1>10. TypeOK'
    <2>1. \A q \in Procs : Queued(q)' <=> pc'[q] \notin {"out", "signalling"}
      BY <1>1, <1>7, <1>9 DEF TypeOK
    <2> QED
      BY <1>7, <1>9, <2>1 DEF TypeOK
  <1>11. BlocksFit'
    BY <1>7, <1>9 DEF QInv, BlocksFit
  <1>12. next[p] # NoBlock => next[p] \in Procs /\ Queued(next[p]) /\ context[next[p]] = c
    BY PointsInLine
  <1>13. TargetsFit'
    <2>1. ASSUME NEW q \in Procs, target'[q] # NoBlock
          PROVE  Queued(target'[q]) /\ target'[q] # p
      BY <1>9, <1>12, <2>1 DEF QInv, TargetsFit, CalledByHead
    <2>2. \A r : Queued(r) /\ r # p => Queued(r)'
      BY <1>7
    <2>3. ASSUME NEW q \in Procs, target'[q] # NoBlock
          PROVE  target'[q] \in ToSet(list')
      <3>1. PICK r : r = target'[q]
        OBVIOUS
      <3>2. Queued(r)'
        BY <2>1, <2>2, <2>3, <3>1
      <3> QED
        BY <3>1, <3>2 DEF Queued
    <2> QED
      BY <2>3 DEF TargetsFit, Queued
  <1>14. ChainIsComplete'
    <2>1. Chained(u, next')
      <3>1. Chained(b, next)
        BY <1>3, Chains
      <3>2. \A q \in ToSet(b) : q \in Procs /\ Queued(q)
        BY <1>1, LineIs
      <3>3. \A q \in ToSet(b) \ {p} : next'[q] = IF next[q] = p THEN next[p] ELSE next[q]
        BY <1>9, <3>2 DEF Relinked
      <3>4. Bridged(b, p, next, next')
        BY <3>3 DEF Bridged
      <3> QED
        BY <1>1, <1>3, <1>4, <1>6, <3>1, <3>4, ChainShrinks
    <2>2. ASSUME NEW d \in Contexts, d # c
          PROVE  Chained(SameContext(d)', next')
      <3>1. PICK e : e = SameContext(d)
        OBVIOUS
      <3>2. /\ e \in Seq(Procs) /\ Chained(e, next)
            /\ \A q \in ToSet(e) : q \in Procs /\ Queued(q) /\ context[q] = d
        BY <1>1, <2>2, <3>1, LineIs, Chains
      <3>3. \A q \in ToSet(e) : q # p /\ next[q] # p
        BY <1>1, <2>2, <3>2, PointsInLine
      <3>4. \A q \in ToSet(e) : next'[q] = next[q]
        BY <1>9, <3>2, <3>3 DEF Relinked
      <3> QED
        BY <1>7, <2>2, <3>1, <3>2, <3>4, ChainStays
    <2> QED
      BY <1>7, <1>10, <2>1, <2>2, ChainsNext
  <1>15. HeadsFit'
    <2>1. ASSUME NEW d \in Contexts, NEW q \in Procs, context'[q] = d, Claims(q)'
          PROVE  SameContext(d)'[1] = q
      <3>1. q # p /\ context[q] = d
        BY <1>9, <2>1, NoBlockAssumption
      <3>2. Claims(q) \/ (q = next[p] /\ b[1] = p)
        BY <1>9, <2>1, <3>1, NoBlockAssumption DEF Claims, Holds, Called, CalledByHead
      <3>3. ASSUME d # c
            PROVE  SameContext(d)'[1] = q
        <4>1. Claims(q)
          BY <1>12, <3>1, <3>2, <3>3, NoBlockAssumption
        <4> QED
          BY <1>7, <2>1, <3>1, <3>3, <4>1 DEF QInv, HeadsFit
      <3>4. ASSUME d = c, Claims(q)
            PROVE  SameContext(d)'[1] = q
        <4>1. b[1] = q
          BY <2>1, <3>1, <3>4 DEF QInv, HeadsFit
        <4>2. u[1] = b[1]
          BY <1>3, <1>4, <1>6, <3>1, <4>1 DEF Lacks
        <4> QED
          BY <1>7, <3>4, <4>1, <4>2
      <3>5. ASSUME d = c, q = next[p], b[1] = p
            PROVE  SameContext(d)'[1] = q
        <4>1. k = 1
          BY <1>3, <1>4, <3>5 DEF IsInjective
        <4>2. q = IF k = Len(b) THEN NoBlock ELSE b[k + 1]
          BY <1>4, <3>5, Follows
        <4>3. q # NoBlock
          BY NoBlockAssumption
        <4>4. Len(b) # 1 /\ q = b[2]
          BY <4>1, <4>2, <4>3
        <4>5. /\ Len(b) \in Nat /\ Len(b) >= 1 /\ Len(u) = Len(b) - 1
              /\ \A i \in 1..(Len(b) - 1) : u[i] = IF i < k THEN b[i] ELSE b[i + 1]
          BY <1>3, <1>4, <1>6 DEF Lacks
        <4>6. 1 \in 1..(Len(b) - 1) /\ ~(1 < k)
          BY ONLY <4>1, <4>4, <4>5
        <4>7. u[1] = b[1 + 1]
          BY <4>5, <4>6
        <4> QED
          BY <1>7, <3>5, <4>4, <4>7
      <3> QED
        BY <3>2, <3>3, <3>4, <3>5
    <2> QED
      BY <2>1 DEF HeadsFit
  <1> QED
    BY <1>5, <1>7, <1>10, <1>11, <1>13, <1>14, <1>15 DEF QInv
-----------------------------------------------------------------------------
(* Steps that leave the list alone                                            *)

LEMMA LinesStay ==
  ASSUME QInv, UNCHANGED <<list, context, next>>, TypeOK', TargetsFit', \A q \in Procs : Claims(q)' => Claims(q)
  PROVE  QInv' /\ \A d : SameContext(d)' = SameContext(d)
  <1>1. \A d : SameContext(d)' = SameContext(d)
    BY DEF SameContext
  <1>2. BlocksFit'
    BY DEF QInv, BlocksFit, Queued
  <1>3. ChainIsComplete'
    BY <1>1 DEF QInv, ChainIsComplete
  <1>4. HeadsFit'
    BY <1>1 DEF QInv, HeadsFit
  <1> QED
    BY <1>1, <1>2, <1>3, <1>4 DEF QInv

LEMMA WakeUpFits ==
  ASSUME QInv, NEW p \in Procs, WakeUp(p)
  PROVE  /\ QInv' /\ \A d : SameContext(d)' = SameContext(d)
         /\ Claims(p) /\ Queued(p) /\ Holds(p)' /\ \A q \in Procs : q # p => (Holds(q)' <=> Holds(q))
  <1>1. TypeOK /\ pc[p] = "waiting" /\ event[p]
    BY DEF QInv, WakeUp
  <1>2. /\ event' \in [Procs -> BOOLEAN] /\ pc' \in [Procs -> Points]
        /\ pc'[p] = "holding" /\ ~event'[p]
        /\ \A q \in Procs : q # p => pc'[q] = pc[q] /\ event'[q] = event[q]
    BY <1>1 DEF TypeOK, WakeUp, Set, Points
  <1>3. TypeOK' /\ TargetsFit'
    BY <1>1, <1>2 DEF TypeOK, WakeUp, Queued, QInv, TargetsFit
  <1>4. Claims(p) /\ Queued(p)
    BY <1>1 DEF Claims, Called, TypeOK
  <1>5. \A q \in Procs : Claims(q)' => Claims(q)
    BY <1>2, <1>4 DEF Claims, Called, Holds, WakeUp
  <1>6. UNCHANGED <<list, context, next>>
    BY DEF WakeUp
  <1> QED
    BY <1>2, <1>3, <1>4, <1>5, <1>6, LinesStay DEF Holds

LEMMA ReadFlagFits ==
  ASSUME QInv, NEW p \in Procs, ReadFlag(p)
  PROVE  /\ QInv' /\ \A d : SameContext(d)' = SameContext(d)
         /\ \A q \in Procs : Holds(q)' <=> Holds(q)
  <1>1. TypeOK /\ pc[p] = "holding"
    BY DEF QInv, ReadFlag
  <1>2. /\ pc' \in [Procs -> Points]
        /\ pc'[p] \in {"releasing", "releasingBarrier"}
        /\ \A q \in Procs : q # p => pc'[q] = pc[q]
    BY <1>1 DEF TypeOK, ReadFlag, Set, Points
  <1>3. TypeOK' /\ TargetsFit'
    BY <1>1, <1>2 DEF TypeOK, ReadFlag, Queued, QInv, TargetsFit
  <1>4. \A q \in Procs : Claims(q)' => Claims(q)
    BY <1>1, <1>2 DEF Claims, Called, Holds, ReadFlag
  <1>5. UNCHANGED <<list, context, next>>
    BY DEF ReadFlag
  <1> QED
    BY <1>1, <1>2, <1>3, <1>4, <1>5, LinesStay DEF Holds

LEMMA SignalNextFits ==
  ASSUME QInv, NEW p \in Procs, SignalNext(p)
  PROVE  /\ QInv' /\ \A d : SameContext(d)' = SameContext(d)
         /\ \A q \in Procs : Holds(q)' <=> Holds(q)
  <1>1. TypeOK /\ pc[p] = "signalling" /\ target[p] \in Procs \cup {NoBlock}
    BY DEF QInv, SignalNext, TypeOK
  <1>2. /\ event' \in [Procs -> BOOLEAN] /\ pc' \in [Procs -> Points]
        /\ target' \in [Procs -> Procs \cup {NoBlock}]
        /\ pc'[p] = "out" /\ target'[p] = NoBlock
        /\ \A q \in Procs : q # p => pc'[q] = pc[q] /\ target'[q] = target[q]
        /\ \A q \in Procs : event'[q] => event[q] \/ target[p] = q
    BY <1>1 DEF TypeOK, SignalNext, Set, Points
  <1>3. TypeOK' /\ TargetsFit'
    BY <1>1, <1>2 DEF TypeOK, SignalNext, Queued, QInv, TargetsFit
  <1>4. \A q \in Procs : Called(q)' => Called(q)
    BY <1>2, NoBlockAssumption DEF Called
  <1>5. \A q \in Procs : Claims(q)' => Claims(q)
    BY <1>2, <1>4 DEF Claims, Holds
  <1>6. UNCHANGED <<list, context, next>>
    BY DEF SignalNext
  <1> QED
    BY <1>1, <1>2, <1>3, <1>5, <1>6, LinesStay DEF Holds

-----------------------------------------------------------------------------
(* The three removals                                                         *)

\* What a removal does to the lines and to the holders.
Removed(p, c, b) ==
  /\ QInv' /\ SameContext(c)' = Only(b, Procs \ {p})
  /\ \A d \in Contexts : d # c => SameContext(d)' = SameContext(d)
  /\ ~Holds(p)' /\ \A q \in Procs : q # p => (Holds(q)' <=> Holds(q))

\* Nobody points at the holder of a lock.
LEMMA HolderIsFirst ==
  ASSUME QInv, NEW p \in Procs, Holds(p), NEW c, c = context[p], NEW b, b = SameContext(c)
  PROVE  Queued(p) /\ b[1] = p /\ Relinked(p, next)
  <1>1. Queued(p)
    BY DEF QInv, TypeOK, Holds
  <1>2. c \in Contexts
    BY <1>1, InLine
  <1>3. b[1] = p
    BY <1>2 DEF QInv, HeadsFit, Claims
  <1>4. Before(p) = {}
    BY <1>1, <1>3, BeforeFirst
  <1> QED
    BY <1>1, <1>3, <1>4 DEF Before, Relinked, Queued

LEMMA PcLeaves ==
  ASSUME TypeOK, NEW p \in Procs, NEW point \in {"out", "signalling"}, pc' = Set(pc, p, point)
  PROVE  ~Holds(p)' /\ \A q \in Procs : q # p => (Holds(q)' <=> Holds(q))
  BY DEF TypeOK, Set, Holds

LEMMA ReleaseBeforeBarrierFits ==
  ASSUME QInv, NEW p \in Procs, ReleaseBeforeBarrier(p), NEW c, c = context[p], NEW b, b = SameContext(c)
  PROVE  Removed(p, c, b) /\ Holds(p)
  <1>1. Holds(p)
    BY DEF Holds, ReleaseBeforeBarrier
  <1>2. Queued(p) /\ b[1] = p /\ Relinked(p, next)
    BY <1>1, HolderIsFirst
  <1>3. /\ next \in [Procs -> Procs \cup {NoBlock}] /\ barrierFlag \in [Procs -> BOOLEAN]
        /\ target \in [Procs -> Procs \cup {NoBlock}] /\ event \in [Procs -> BOOLEAN]
    BY DEF QInv, TypeOK
  <1>4. /\ event' = IF next[p] = NoBlock THEN event ELSE Set(event, next[p], TRUE)
        /\ RemoveBlock(p, next, barrierFlag, target) /\ pc' = Set(pc, p, "out")
    BY DEF ReleaseBeforeBarrier
  <1>5. /\ event' \in [Procs -> BOOLEAN]
        /\ \A q \in Procs : event'[q] => event[q] \/ q = next[p]
    BY <1>3, <1>4 DEF Set
  <1>6. CalledByHead(p, b, target, event')
    BY <1>2, <1>5 DEF CalledByHead
  <1>7. /\ QInv' /\ SameContext(c)' = Only(b, Procs \ {p})
        /\ \A d \in Contexts : d # c => SameContext(d)' = SameContext(d)
    BY <1>2, <1>3, <1>4, <1>5, <1>6, RemoveFits
  <1> QED
    BY <1>1, <1>4, <1>7, PcLeaves DEF Removed, QInv

LEMMA ReleaseFits ==
  ASSUME QInv, NEW p \in Procs, Release(p), NEW c, c = context[p], NEW b, b = SameContext(c)
  PROVE  Removed(p, c, b) /\ Holds(p)
  <1>1. Holds(p)
    BY DEF Holds, Release
  <1>2. Queued(p) /\ b[1] = p /\ Relinked(p, next)
    BY <1>1, HolderIsFirst
  <1>3. /\ next \in [Procs -> Procs \cup {NoBlock}] /\ barrierFlag \in [Procs -> BOOLEAN]
        /\ target \in [Procs -> Procs \cup {NoBlock}] /\ event \in [Procs -> BOOLEAN]
    BY DEF QInv, TypeOK
  <1>4. PICK tt : tt = Set(target, p, next[p])
    OBVIOUS
  <1>5. PICK point : point = IF next[p] = NoBlock THEN "out" ELSE "signalling"
    OBVIOUS
  <1>6. /\ event' = event /\ point \in {"out", "signalling"}
        /\ RemoveBlock(p, next, barrierFlag, tt) /\ pc' = Set(pc, p, point)
    BY <1>4, <1>5 DEF Release
  <1>7. /\ event' \in [Procs -> BOOLEAN] /\ tt \in [Procs -> Procs \cup {NoBlock}]
        /\ \A q \in Procs : tt[q] = target[q] \/ tt[q] = next[p]
    BY <1>3, <1>4, <1>6 DEF Set
  <1>8. CalledByHead(p, b, tt, event')
    BY <1>2, <1>6, <1>7 DEF CalledByHead
  <1>9. /\ QInv' /\ SameContext(c)' = Only(b, Procs \ {p})
        /\ \A d \in Contexts : d # c => SameContext(d)' = SameContext(d)
    BY <1>2, <1>3, <1>6, <1>7, <1>8, RemoveFits
  <1> QED
    BY <1>1, <1>6, <1>9, PcLeaves DEF Removed, QInv

LEMMA RemoveBarrierFits ==
  ASSUME QInv, NEW p \in Procs, RemoveBarrier(p), NEW c, c = context[p], NEW b, b = SameContext(c)
  PROVE  Removed(p, c, b) /\ Queued(p) /\ ~Holds(p)
  <1>1. Queued(p) /\ ~Holds(p)
    BY DEF QInv, TypeOK, RemoveBarrier, Holds
  <1>2. Before(p) = {} <=> b[1] = p
    BY <1>1, BeforeFirst
  <1>3. /\ next \in [Procs -> Procs \cup {NoBlock}] /\ barrierFlag \in [Procs -> BOOLEAN]
        /\ target \in [Procs -> Procs \cup {NoBlock}] /\ event \in [Procs -> BOOLEAN]
    BY DEF QInv, TypeOK
  <1>4. PICK nn, ff : nn = NextWithout(p) /\ ff = FlagWithout(p)
    OBVIOUS
  <1>5. /\ event' = IF Before(p) = {} /\ next[p] # NoBlock THEN Set(event, next[p], TRUE) ELSE event
        /\ RemoveBlock(p, nn, ff, target) /\ pc' = Set(pc, p, "out")
    BY <1>4 DEF RemoveBarrier
  <1>6. nn \in [Procs -> Procs \cup {NoBlock}] /\ Relinked(p, nn)
    BY <1>3, <1>4 DEF NextWithout, Before, Relinked, Queued
  <1>7. ff \in [Procs -> BOOLEAN]
    BY <1>3, <1>4 DEF FlagWithout
  <1>8. /\ event' \in [Procs -> BOOLEAN]
        /\ \A q \in Procs : event'[q] => event[q] \/ (q = next[p] /\ Before(p) = {})
    BY <1>3, <1>5 DEF Set
  <1>9. CalledByHead(p, b, target, event')
    BY <1>2, <1>8 DEF CalledByHead
  <1>10. /\ QInv' /\ SameContext(c)' = Only(b, Procs \ {p})
         /\ \A d \in Contexts : d # c => SameContext(d)' = SameContext(d)
    BY <1>1, <1>3, <1>5, <1>6, <1>7, <1>8, <1>9, RemoveFits
  <1> QED
    BY <1>1, <1>5, <1>10, PcLeaves DEF Removed, QInv

-----------------------------------------------------------------------------
(* The two insertions                                                         *)

Joined(p, c) ==
  /\ QInv' /\ SameContext(c)' = Append(SameContext(c), p)
  /\ \A d \in Contexts : d # c => SameContext(d)' = SameContext(d)
  /\ \A q \in Procs : q # p => (Holds(q)' <=> Holds(q))

LEMMA AcquireLockFits ==
  ASSUME QInv, NEW p \in Procs, NEW c \in Contexts, AcquireLock(p, c)
  PROVE  Joined(p, c) /\ ~Queued(p) /\ ~Holds(p) /\ (Holds(p)' <=> SameContext(c) = <<>>)
  <1>1. PICK point : point = IF SameContext(c) = <<>> THEN "holding" ELSE "waiting"
    OBVIOUS
  <1>2. /\ pc[p] = "out" /\ Insert(p, c, FALSE) /\ UNCHANGED target /\ pc' = Set(pc, p, point)
        /\ point \in {"holding", "waiting", "barrier"} /\ (point = "holding" <=> SameContext(c) = <<>>)
    BY <1>1 DEF AcquireLock
  <1>3. /\ QInv' /\ SameContext(c)' = Append(SameContext(c), p)
        /\ \A d \in Contexts : d # c => SameContext(d)' = SameContext(d)
    BY <1>2, InsertFits
  <1>4. /\ \A q \in Procs : q # p => (Holds(q)' <=> Holds(q))
        /\ ~Queued(p) /\ ~Holds(p) /\ (Holds(p)' <=> point = "holding")
    BY <1>2 DEF QInv, TypeOK, Set, Holds
  <1> QED
    BY <1>2, <1>3, <1>4 DEF Joined

LEMMA InsertBarrierFits ==
  ASSUME QInv, NEW p \in Procs, NEW c \in Contexts, InsertBarrier(p, c)
  PROVE  Joined(p, c) /\ ~Queued(p) /\ ~Holds(p) /\ ~Holds(p)'
  <1>1. pc[p] = "out" /\ Insert(p, c, TRUE) /\ UNCHANGED target /\ pc' = Set(pc, p, "barrier")
    BY DEF InsertBarrier
  <1>2. /\ QInv' /\ SameContext(c)' = Append(SameContext(c), p)
        /\ \A d \in Contexts : d # c => SameContext(d)' = SameContext(d)
    <2>1. PICK point : point = "barrier"
      OBVIOUS
    <2>2. pc' = Set(pc, p, point) /\ point \in {"holding", "waiting", "barrier"} /\ point # "holding"
      BY <1>1, <2>1
    <2> QED
      BY <1>1, <2>2, InsertFits
  <1>3. /\ \A q \in Procs : q # p => (Holds(q)' <=> Holds(q))
        /\ ~Queued(p) /\ ~Holds(p) /\ ~Holds(p)'
    BY <1>1 DEF QInv, TypeOK, Set, Holds
  <1> QED
    BY <1>2, <1>3 DEF Joined

-----------------------------------------------------------------------------
(* The invariant                                                              *)

LEMMA QInit == Init => QInv
  <1> SUFFICES ASSUME Init
               PROVE  QInv
    OBVIOUS
  <1>1. list = <<>> /\ \A S : Only(list, S) = <<>>
    BY OnlyEmpty DEF Init
  <1>2. list \in Seq(Procs) /\ IsInjective(list) /\ ToSet(list) = {}
    BY <1>1 DEF IsInjective, ToSet
  <1>3. TypeOK
    BY <1>2 DEF Init, TypeOK, Queued, Points
  <1>4. BlocksFit /\ TargetsFit
    BY <1>2 DEF Init, BlocksFit, TargetsFit, Queued
  <1>5. ChainIsComplete
    BY <1>1 DEF ChainIsComplete, SameContext
  <1>6. HeadsFit
    BY DEF Init, HeadsFit, Claims, Holds
  <1> QED
    BY <1>3, <1>4, <1>5, <1>6 DEF QInv

LEMMA QNext ==
  ASSUME QInv, Next
  PROVE  QInv'
  <1>1. PICK p \in Procs : \/ \E c \in ContextsOf[p] : AcquireLock(p, c) \/ InsertBarrier(p, c)
                           \/ Finish(p)
    BY DEF Next
  <1>2. PICK c, b : c = context[p] /\ b = SameContext(c)
    OBVIOUS
  <1>3. ASSUME NEW d \in ContextsOf[p], AcquireLock(p, d) \/ InsertBarrier(p, d)
        PROVE  QInv'
    <2>1. d \in Contexts
      BY ContextsOfAssumption
    <2> QED
      BY <1>3, <2>1, AcquireLockFits, InsertBarrierFits DEF Joined
  <1>4. ASSUME Finish(p)
        PROVE  QInv'
    <2>1. CASE WakeUp(p)
      BY <2>1, WakeUpFits
    <2>2. CASE ReadFlag(p)
      BY <2>2, ReadFlagFits
    <2>3. CASE ReleaseBeforeBarrier(p)
      BY <1>2, <2>3, ReleaseBeforeBarrierFits DEF Removed
    <2>4. CASE Release(p)
      BY <1>2, <2>4, ReleaseFits DEF Removed
    <2>5. CASE SignalNext(p)
      BY <2>5, SignalNextFits
    <2>6. CASE RemoveBarrier(p)
      BY <1>2, <2>6, RemoveBarrierFits DEF Removed
    <2> QED
      BY <1>4, <2>1, <2>2, <2>3, <2>4, <2>5, <2>6 DEF Finish
  <1> QED
    BY <1>1, <1>3, <1>4

LEMMA QStutters ==
  ASSUME QInv, UNCHANGED vars
  PROVE  QInv' /\ \A d : SameContext(d)' = SameContext(d)
  <1>1. TypeOK' /\ TargetsFit' /\ \A q \in Procs : Claims(q)' => Claims(q)
    BY DEF QInv, vars, TypeOK, TargetsFit, Claims, Called, Holds, Queued
  <1>2. UNCHANGED <<list, context, next>>
    BY DEF vars
  <1> QED
    BY <1>1, <1>2, LinesStay

LEMMA QAlways == Spec => []QInv
  <1>1. QInv /\ [Next]_vars => QInv'
    BY QNext, QStutters
  <1> QED
    BY QInit, <1>1, PTL DEF Spec

\* The list of the wait blocks is well formed, the blocks of every context form
\* a chain in the order of their arrival (queue_lock.c:75-111, 255-292), and a lock
\* belongs to the oldest block of its chain alone (queue_lock.c:293-366).
THEOREM QueueIsSafe == Spec => []QueueInvariant
  <1>1. ASSUME QInv
        PROVE  QueueInvariant
    <2>1. HolderIsOldest
      <3>1. ASSUME NEW p \in Procs, Holds(p)
            PROVE  SameContext(context[p])[1] = p
        <4>1. PICK c, b : c = context[p] /\ b = SameContext(c)
          OBVIOUS
        <4> QED
          BY <1>1, <3>1, <4>1, HolderIsFirst
      <3> QED
        BY <3>1 DEF HolderIsOldest
    <2> QED
      BY <1>1, <2>1 DEF QInv, QueueInvariant
  <1>2. QInv => QueueInvariant
    BY <1>1
  <1> QED
    BY <1>2, QAlways, PTL
-----------------------------------------------------------------------------
(* The queue lock implements BarrierLock                                      *)

Line == [c \in Contexts |-> SameContext(c)]
LineHolders == {p \in Procs : Holds(p)}

LEMMA WaitsIsQueued ==
  ASSUME QInv, NEW p
  PROVE  (\E c \in Contexts : p \in ToSet(Line[c])) <=> Queued(p)
  <1>1. ASSUME NEW c \in Contexts, p \in ToSet(Line[c])
        PROVE  Queued(p)
    BY <1>1, LineIs DEF QInv, Line
  <1>2. ASSUME Queued(p)
        PROVE  \E c \in Contexts : p \in ToSet(Line[c])
    <2>1. p \in Procs /\ context[p] \in Contexts
      BY <1>2, ListHas DEF QInv, BlocksFit
    <2>2. p \in ToSet(SameContext(context[p]))
      BY <1>2, <2>1, LineIs DEF QInv
    <2> QED
      BY <2>1, <2>2 DEF Line
  <1> QED
    BY <1>1, <1>2

LEMMA LineJoins ==
  ASSUME NEW p \in Procs, NEW c \in Contexts, Joined(p, c)
  PROVE  Line' = [Line EXCEPT ![c] = Append(@, p)]
  <1>1. /\ SameContext(c)' = Append(SameContext(c), p)
        /\ \A d \in Contexts : d # c => SameContext(d)' = SameContext(d)
    BY DEF Joined
  <1> QED
    BY <1>1 DEF Line

LEMMA AskStep ==
  ASSUME QInv, NEW p \in Procs, NEW c \in Contexts, AcquireLock(p, c)
  PROVE  Promise!Ask(p, c)
  <1>1. Joined(p, c) /\ ~Queued(p) /\ ~Holds(p) /\ (Holds(p)' <=> SameContext(c) = <<>>)
    BY AcquireLockFits
  <1>2. LineHolders' = IF Line[c] = <<>> THEN LineHolders \cup {p} ELSE LineHolders
    BY <1>1 DEF Joined, LineHolders, Line
  <1>3. ~(\E d \in Contexts : p \in ToSet(Line[d])) /\ Line' = [Line EXCEPT ![c] = Append(@, p)]
    BY <1>1, WaitsIsQueued, LineJoins
  <1> QED
    BY <1>2, <1>3 DEF Promise!Ask, Promise!Waits, Promise!ToSet, ToSet, Line, LineHolders

LEMMA PutBarrierStep ==
  ASSUME QInv, NEW p \in Procs, NEW c \in Contexts, InsertBarrier(p, c)
  PROVE  Promise!PutBarrier(p, c)
  <1>1. Joined(p, c) /\ ~Queued(p) /\ ~Holds(p) /\ ~Holds(p)'
    BY InsertBarrierFits
  <1>2. LineHolders' = LineHolders
    BY <1>1 DEF Joined, LineHolders
  <1>3. ~(\E d \in Contexts : p \in ToSet(Line[d])) /\ Line' = [Line EXCEPT ![c] = Append(@, p)]
    BY <1>1, WaitsIsQueued, LineJoins
  <1> QED
    BY <1>2, <1>3 DEF Promise!PutBarrier, Promise!Waits, Promise!ToSet, ToSet, Line, LineHolders

\* A sequence without its first element is its tail.
LEMMA FirstLeaves ==
  ASSUME NEW b \in Seq(Procs), IsInjective(b), NEW p \in Procs, Len(b) >= 1, b[1] = p
  PROVE  Only(b, Procs \ {p}) = Tail(b) /\ Head(b) = p
  <1>1. PICK u : u = Only(b, Procs \ {p})
    OBVIOUS
  <1>2. 1 \in 1..Len(b) /\ u \in Seq(Procs)
    BY <1>1, OnlyHas
  <1>3. Lacks(u, b, 1)
    BY <1>1, <1>2, ShorterLine
  <1>4. Len(u) = Len(b) - 1 /\ \A i \in 1..(Len(b) - 1) : u[i] = b[i + 1]
    <2>1. Len(u) = Len(b) - 1 /\ \A i \in 1..(Len(b) - 1) : u[i] = (IF i < 1 THEN b[i] ELSE b[i + 1])
      BY <1>3 DEF Lacks
    <2>2. Len(b) \in Nat
      OBVIOUS
    <2>3. ASSUME NEW i \in 1..(Len(b) - 1)
          PROVE  u[i] = b[i + 1]
      <3>1. ~ (i < 1)
        BY <2>2
      <3> QED
        BY <2>1, <3>1
    <2> QED
      BY <2>1, <2>3
  <1>5. b # <<>>
    OBVIOUS
  <1>6. PICK t : t = Tail(b)
    OBVIOUS
  <1>7. t \in Seq(Procs) /\ Len(t) = Len(b) - 1 /\ \A i \in 1..(Len(b) - 1) : t[i] = b[i + 1]
    BY <1>5, <1>6
  <1>8. u = t
    BY <1>2, <1>4, <1>7
  <1>9. Head(b) = b[1]
    BY <1>5
  <1> QED
    BY ONLY <1>1, <1>6, <1>8, <1>9, b[1] = p

LEMMA GrantStep ==
  ASSUME QInv, NEW p \in Procs, WakeUp(p)
  PROVE  \E c \in Contexts : Promise!Grant(p, c)
  <1>1. /\ \A d : SameContext(d)' = SameContext(d)
        /\ Claims(p) /\ Queued(p) /\ Holds(p)' /\ \A q \in Procs : q # p => (Holds(q)' <=> Holds(q))
    BY WakeUpFits
  <1>2. PICK c, b : c = context[p] /\ b = SameContext(c)
    OBVIOUS
  <1>3. c \in Contexts /\ b \in Seq(Procs) /\ \E k \in 1..Len(b) : b[k] = p
    BY <1>1, <1>2, InLine
  <1>4. b[1] = p
    BY <1>1, <1>2, <1>3 DEF QInv, HeadsFit
  <1>5. p \in ToSet(Line[c]) /\ Head(Line[c]) = p
    BY <1>2, <1>3, <1>4 DEF Line, ToSet
  <1>6. Line' = Line /\ LineHolders' = LineHolders \cup {p}
    BY <1>1 DEF Line, LineHolders
  <1>7. Promise!Grant(p, c)
    BY <1>5, <1>6 DEF Promise!Grant, Promise!ToSet, ToSet, Line, LineHolders
  <1> QED
    BY <1>3, <1>7

LEMMA ReleaseStep ==
  ASSUME QInv, NEW p \in Procs, Holds(p), NEW c, c = context[p], NEW b, b = SameContext(c), Removed(p, c, b)
  PROVE  c \in Contexts /\ Promise!Release(p, c)
  <1>1. Queued(p) /\ b[1] = p
    BY HolderIsFirst
  <1>2. c \in Contexts /\ b \in Seq(Procs) /\ IsInjective(b) /\ \E k \in 1..Len(b) : b[k] = p
    BY <1>1, InLine
  <1>3. Len(b) >= 1 /\ p \in ToSet(b)
    BY <1>2 DEF ToSet
  <1>4. Only(b, Procs \ {p}) = Tail(b) /\ Head(b) = p
    BY <1>1, <1>2, <1>3, FirstLeaves
  <1>5. /\ SameContext(c)' = Tail(b)
        /\ \A d \in Contexts : d # c => SameContext(d)' = SameContext(d)
        /\ ~Holds(p)' /\ \A q \in Procs : q # p => (Holds(q)' <=> Holds(q))
    BY <1>4 DEF Removed
  <1>6. Line' = [Line EXCEPT ![c] = Tail(@)] /\ LineHolders' = LineHolders \ {p}
    BY <1>2, <1>5 DEF Line, LineHolders
  <1>7. p \in LineHolders /\ p \in ToSet(Line[c]) /\ Head(Line[c]) = p
    BY <1>2, <1>3, <1>4 DEF Line, LineHolders
  <1> QED
    BY <1>2, <1>6, <1>7 DEF Promise!Release, Promise!ToSet, ToSet, Line, LineHolders

LEMMA OnlyIsWithout ==
  ASSUME NEW b \in Seq(Procs), IsInjective(b), NEW p \in Procs, NEW k \in 1..Len(b), b[k] = p
  PROVE  Only(b, Procs \ {p}) = Without(b, p)
  <1>1. PICK u : u = Only(b, Procs \ {p})
    OBVIOUS
  <1>2. Lacks(u, b, k) /\ u \in Seq(Procs)
    BY <1>1, ShorterLine, OnlyHas
  <1>3. PICK w : w = [i \in 1..(Len(b) - 1) |-> b[IF i < k THEN i ELSE i + 1]]
    OBVIOUS
  <1>4. u = w
    BY <1>2, <1>3 DEF Lacks
  <1>5. \A j \in DOMAIN b : b[j] = p => j = k
    BY DEF IsInjective
  <1>6. (CHOOSE j \in DOMAIN b : b[j] = p) = k
    BY <1>5
  <1>7. Without(b, p) = w
    BY <1>3, <1>6 DEF Without
  <1> QED
    BY <1>1, <1>4, <1>7

LEMMA TakeBarrierStep ==
  ASSUME QInv, NEW p \in Procs, RemoveBarrier(p)
  PROVE  \E c \in Contexts : Promise!TakeBarrier(p, c)
  <1>1. PICK c, b : c = context[p] /\ b = SameContext(c)
    OBVIOUS
  <1>2. Removed(p, c, b) /\ Queued(p) /\ ~Holds(p)
    BY <1>1, RemoveBarrierFits
  <1>3. c \in Contexts /\ b \in Seq(Procs) /\ \E k \in 1..Len(b) : b[k] = p
    BY <1>1, <1>2, InLine
  <1>4. p \in ToSet(Line[c])
    BY <1>1, <1>3 DEF Line, ToSet
  <1>5. /\ SameContext(c)' = Only(b, Procs \ {p})
        /\ \A d \in Contexts : d # c => SameContext(d)' = SameContext(d)
        /\ \A q \in Procs : Holds(q)' <=> Holds(q)
    BY <1>2 DEF Removed
  <1>6. Only(b, Procs \ {p}) = Without(b, p)
    <2>1. TypeOK
      BY DEF QInv
    <2>2. IsInjective(b)
      BY <1>1, <2>1, LineIs
    <2>3. PICK k \in 1..Len(b) : b[k] = p
      BY <1>3
    <2> QED
      BY ONLY <1>3, <2>2, <2>3, OnlyIsWithout, p \in Procs
  <1>7. Line' = [Line EXCEPT ![c] = Without(@, p)] /\ LineHolders' = LineHolders
    BY <1>1, <1>3, <1>5, <1>6 DEF Line, LineHolders
  <1>8. p \notin LineHolders
    BY <1>2 DEF LineHolders
  <1>9. \A s, e : Promise!Without(s, e) = Without(s, e)
    BY DEF Promise!Without, Without
  <1>10. Promise!TakeBarrier(p, c)
    BY <1>4, <1>7, <1>8, <1>9 DEF Promise!TakeBarrier, Promise!ToSet, ToSet, Line, LineHolders
  <1> QED
    BY <1>3, <1>10

LEMMA PromiseInit ==
  ASSUME Init
  PROVE  Promise!Init
  <1>1. \A c : SameContext(c) = <<>>
    BY OnlyEmpty DEF Init, SameContext
  <1>2. \A p \in Procs : ~Holds(p)
    BY DEF Init, Holds
  <1> QED
    BY <1>1, <1>2 DEF Promise!Init

LEMMA PromiseStep ==
  ASSUME QInv, [Next]_vars
  PROVE  [Promise!Next]_<<Line, LineHolders>>
  <1>1. ASSUME UNCHANGED vars
        PROVE  UNCHANGED <<Line, LineHolders>>
    <2>1. \A d : SameContext(d)' = SameContext(d)
      BY <1>1, QStutters
    <2>2. \A q \in Procs : Holds(q)' <=> Holds(q)
      BY <1>1 DEF vars, Holds
    <2> QED
      BY <2>1, <2>2 DEF Line, LineHolders
  <1>2. ASSUME NEW p \in Procs, NEW c \in ContextsOf[p], AcquireLock(p, c) \/ InsertBarrier(p, c)
        PROVE  Promise!Next
    <2>1. c \in Contexts
      BY ContextsOfAssumption
    <2>2. Promise!Ask(p, c) \/ Promise!PutBarrier(p, c)
      BY <1>2, <2>1, AskStep, PutBarrierStep
    <2> QED
      BY <2>1, <2>2 DEF Promise!Next
  <1>3. ASSUME NEW p \in Procs, Finish(p)
        PROVE  Promise!Next \/ UNCHANGED <<Line, LineHolders>>
    <2>1. PICK c, b : c = context[p] /\ b = SameContext(c)
      OBVIOUS
    <2>2. CASE WakeUp(p)
      BY <2>2, GrantStep DEF Promise!Next
    <2>3. CASE ReadFlag(p) \/ SignalNext(p)
      <3>1. (\A d : SameContext(d)' = SameContext(d)) /\ \A q \in Procs : Holds(q)' <=> Holds(q)
        BY <2>3, ReadFlagFits, SignalNextFits
      <3> QED
        BY <3>1 DEF Line, LineHolders
    <2>4. CASE ReleaseBeforeBarrier(p) \/ Release(p)
      <3>1. Removed(p, c, b) /\ Holds(p)
        BY <2>1, <2>4, ReleaseBeforeBarrierFits, ReleaseFits
      <3>2. c \in Contexts /\ Promise!Release(p, c)
        BY <2>1, <3>1, ReleaseStep
      <3> QED
        BY <3>2 DEF Promise!Next
    <2>5. CASE RemoveBarrier(p)
      BY <2>5, TakeBarrierStep DEF Promise!Next
    <2> QED
      BY <1>3, <2>2, <2>3, <2>4, <2>5 DEF Finish
  <1> QED
    BY <1>1, <1>2, <1>3 DEF Next

\* The queue lock implements BarrierLock: one holder per context, first come first
\* served, and nobody crosses a barrier (queue_lock.c:361-366).
THEOREM QueueImplementsBarrierLock == Spec => ImplementsBarrierLock
  <1>1. Init => Promise!Init
    BY PromiseInit
  <1>2. QInv /\ [Next]_vars => [Promise!Next]_<<[c \in Contexts |-> SameContext(c)], {p \in Procs : Holds(p)}>>
    BY PromiseStep DEF Line, LineHolders
  <1> QED
    BY <1>1, <1>2, QAlways, PTL DEF Spec, ImplementsBarrierLock, Promise!Spec

=============================================================================
