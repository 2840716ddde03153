----------------------------- MODULE RemoveLock -----------------------------
(***************************************************************************)
(* The remove lock of o_core/remove_lock.c, which keeps a driver in memory *)
(* while work is in flight: a reference count that starts at one, a flag   *)
(* that says removal has begun, and a notification event that the last     *)
(* release signals.  Every interlocked operation, and the setting of the   *)
(* event, is a step of its own.                                            *)
(*                                                                         *)
(* A process stands for one caller.  It leaves after a release and may     *)
(* come again; after STATUS_DELETE_PENDING it does not.                    *)
(*                                                                         *)
(* Rl is the prefix of this lock's names in the source; here it sets its   *)
(* names apart from those of the other locks, for Locks_proof.             *)
(***************************************************************************)
EXTENDS Integers, FiniteSets

CONSTANTS Callers,   \* the callers
          Removers   \* those that may call OcRlReleaseRemoveLockAndWait

ASSUME CallersAssumption  == IsFiniteSet(Callers)
ASSUME RemoversAssumption == Removers \subseteq Callers

VARIABLES referenceCount,  \* LockHeader->ReferenceCount
          removed,         \* LockHeader->Removed
          removeEvent,     \* LockHeader->RemoveEvent is signalled
          standing

rlVars == <<referenceCount, removed, removeEvent, standing>>

RlPoints == {"out", "check", "undo", "refused", "inside", "signal",
             "dropBase", "dropOwn", "wait", "gone"}

RlAt(S) == {p \in Callers : standing[p] \in S}

RlGoto(p, from, to) == /\ standing[p] = from
                       /\ standing' = [standing EXCEPT ![p] = to]

\* OcRlInitializeRemoveLock
RlInit == /\ referenceCount = 1
          /\ removed = FALSE
          /\ removeEvent = FALSE
          /\ standing = [p \in Callers |-> "out"]

-----------------------------------------------------------------------------
\* OcRlAcquireRemoveLock counts the caller first and looks at Removed next,
\* so that a remover cannot miss it.
Acquire(p) == /\ RlGoto(p, "out", "check")
              /\ referenceCount' = referenceCount + 1
              /\ UNCHANGED <<removed, removeEvent>>

AcquireCheck(p) == /\ \/ ~removed /\ RlGoto(p, "check", "inside")
                      \/ removed  /\ RlGoto(p, "check", "undo")
                   /\ UNCHANGED <<referenceCount, removed, removeEvent>>

\* Mutant: a refused caller takes its reference back and signals nobody.
RefuseSilently(p) == /\ RlGoto(p, "undo", "refused")
                     /\ referenceCount' = referenceCount - 1
                     /\ UNCHANGED <<removed, removeEvent>>

\* STATUS_DELETE_PENDING: the reference is taken back, and whoever brings
\* the count to zero signals the event.
Refuse(p) == /\ referenceCount' = referenceCount - 1
             /\ \/ referenceCount' = 0 /\ RlGoto(p, "undo", "signal")
                \/ referenceCount' # 0 /\ RlGoto(p, "undo", "refused")
             /\ UNCHANGED <<removed, removeEvent>>

\* Mutant: the release that leaves one reference signals.
ReleaseOffByOne(p) == /\ referenceCount' = referenceCount - 1
                      /\ \/ referenceCount' = 1 /\ RlGoto(p, "inside", "signal")
                         \/ referenceCount' # 1 /\ RlGoto(p, "inside", "out")
                      /\ UNCHANGED <<removed, removeEvent>>

\* OcRlReleaseRemoveLock
RlRelease(p) == /\ referenceCount' = referenceCount - 1
                /\ \/ referenceCount' = 0 /\ RlGoto(p, "inside", "signal")
                   \/ referenceCount' # 0 /\ RlGoto(p, "inside", "out")
                /\ UNCHANGED <<removed, removeEvent>>

\* OcRlSetRemoveLockInSignalState
Signal(p) == /\ RlGoto(p, "signal", "out")
             /\ removeEvent' = TRUE
             /\ UNCHANGED <<referenceCount, removed>>

\* Mutant: Removed is set by a plain store, so every remover is the first.
MarkRemovedAlways(p) == /\ p \in Removers
                        /\ RlGoto(p, "inside", "dropBase")
                        /\ removed' = TRUE
                        /\ UNCHANGED <<referenceCount, removeEvent>>

\* OcRlReleaseRemoveLockAndWait: the interlocked exchange of Removed elects
\* the remover that also takes away the reference of the initialization.
MarkRemoved(p) == /\ p \in Removers
                  /\ \/ ~removed /\ RlGoto(p, "inside", "dropBase")
                     \/ removed  /\ RlGoto(p, "inside", "dropOwn")
                  /\ removed' = TRUE
                  /\ UNCHANGED <<referenceCount, removeEvent>>

DropBase(p) == /\ RlGoto(p, "dropBase", "dropOwn")
               /\ referenceCount' = referenceCount - 1
               /\ UNCHANGED <<removed, removeEvent>>

\* Mutant: the remover waits only if more than one reference is left.
DropOwnOffByOne(p) == /\ referenceCount' = referenceCount - 1
                      /\ \/ referenceCount' > 1  /\ RlGoto(p, "dropOwn", "wait")
                         \/ referenceCount' <= 1 /\ RlGoto(p, "dropOwn", "gone")
                      /\ UNCHANGED <<removed, removeEvent>>

\* A remover whose own release is not the last one waits; the one whose
\* release is the last returns at once, and does not signal the event.
DropOwn(p) == /\ referenceCount' = referenceCount - 1
              /\ \/ referenceCount' > 0  /\ RlGoto(p, "dropOwn", "wait")
                 \/ referenceCount' <= 0 /\ RlGoto(p, "dropOwn", "gone")
              /\ UNCHANGED <<removed, removeEvent>>

WaitEvent(p) == /\ removeEvent
                /\ RlGoto(p, "wait", "gone")
                /\ UNCHANGED <<referenceCount, removed, removeEvent>>

\* What a caller does once it is in the lock's code or inside.
RlStep(p) == \/ AcquireCheck(p) \/ Refuse(p) \/ RlRelease(p) \/ Signal(p)
             \/ MarkRemoved(p) \/ DropBase(p) \/ DropOwn(p) \/ WaitEvent(p)

RlNext == \E p \in Callers : Acquire(p) \/ RlStep(p)

\* A caller that is scheduled goes on, and who is inside leaves some time,
\* by a release or as a remover; nobody is obliged to come.
RlSpec == RlInit /\ [][RlNext]_rlVars /\ \A p \in Callers : WF_rlVars(RlStep(p))

-----------------------------------------------------------------------------
\* Callers whose reference is in the count, and callers that were granted
\* the lock and have not given it back.
Counted == RlAt({"check", "undo", "inside", "dropBase", "dropOwn"})
Holders == RlAt({"inside"})
BaseIsHeld == ~removed \/ RlAt({"dropBase"}) # {}

RlTypeOK == /\ referenceCount \in 0 .. Cardinality(Callers) + 1
            /\ removed \in BOOLEAN
            /\ removeEvent \in BOOLEAN
            /\ standing \in [Callers -> RlPoints]

(***************************************************************************)
(* The count is the initial reference, until the first remover takes it    *)
(* away, and one for each caller between its increment and its decrement:  *)
(* it is taken away once however many removers there are (lines 170-182).  *)
(***************************************************************************)
CountIsExact ==
    referenceCount = Cardinality(Counted) + (IF BaseIsHeld THEN 1 ELSE 0)

(***************************************************************************)
(* A signalled event, and a caller about to signal it, mean that nobody    *)
(* has the lock and nobody will get it: transient references of refused    *)
(* callers may come and go after that, but never a holder.                 *)
(***************************************************************************)
SignalMeansEmpty ==
    removeEvent \/ RlAt({"signal"}) # {} =>
        removed /\ RlAt({"inside", "dropBase", "dropOwn"}) = {}

(***************************************************************************)
(* The assertion of remove_lock.c:172: the remover that is elected finds   *)
(* its own reference and the initial one.                                  *)
(***************************************************************************)
FirstRemoverHasTwo == RlAt({"dropBase"}) # {} => referenceCount >= 2

(***************************************************************************)
(* When removal has begun, some remover is told in the end that it may go  *)
(* on: the last reference is never given back unnoticed, although that     *)
(* may happen in a release, in a refused acquire or in a remover.          *)
(***************************************************************************)
SomeRemoverReturns == removed ~> RlAt({"gone"}) # {}

(***************************************************************************)
(* Every remover that waits is told (remove_lock.c:157-160: the routine    *)
(* blocks until all the locks have completed, and "Multiple callers may    *)
(* call this routine, i.e. it is thread safe").  False for two removers:   *)
(* the second may bring the count to zero and signals nobody (line 182).   *)
(***************************************************************************)
EveryRemoverReturns == \A p \in Callers : standing[p] = "wait" ~> standing[p] = "gone"

(***************************************************************************)
(* The lock gives rundown protection: nobody is granted the lock once a    *)
(* remover has marked it, and a remover goes on only when all have left.   *)
(***************************************************************************)
Protocol == INSTANCE Rundown WITH
                Procs   <- Callers,
                inside  <- Holders,
                closing <- RlAt({"dropBase", "dropOwn", "wait"}),
                drained <- RlAt({"gone"})
ImplementsRundown == Protocol!Spec
=============================================================================
