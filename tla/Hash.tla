-------------------------------- MODULE Hash --------------------------------
(***************************************************************************)
(* A hash of the hash manager, common/hash/ochash.c, with the references   *)
(* of the object manager, common/objects/ocobject.c, as the drivers use    *)
(* it: contexts are objects, OcObReferenceObject is the context function   *)
(* of an insertion and a search, OcObDereferenceObject that of a removal   *)
(* and a purge.                                                            *)
(*                                                                         *)
(* A search releases the lock of the hash line before it references the    *)
(* context, with a reference to the entry and PurgeDisabeled set; the      *)
(* function of a removal is called when the entry is deleted, by whoever   *)
(* drops its last reference.                                               *)
(*                                                                         *)
(* What is done under the lock of a line is one step: RwSpinLock shows     *)
(* that writers exclude everybody else.                                    *)
(***************************************************************************)
EXTENDS Integers, SequencesExt

CONSTANTS Threads, Contexts, Keys,
          KeyOf,       \* the KeyValue each context is inserted with
          MaxEntries,  \* entries that memory has room for
          MaxOwned,    \* bound: references a thread keeps
          None

Entries == 1..MaxEntries

ASSUME HashAssumption == /\ IsFiniteSet(Threads)
                         /\ KeyOf \in [Contexts -> Keys]
                         /\ MaxEntries \in Nat \ {0} /\ MaxOwned \in Nat \ {0}
                         /\ None \notin Contexts \cup Entries

VARIABLES chain,    \* the entries that are in a hash line, latest first
          entry,    \* the entry objects
          context,  \* references of each context
          hashRef,  \* references of the hash object
          own,      \* how many of its references each thread keeps
          at        \* the operation of each thread

vars == <<chain, entry, context, hashRef, own, at>>

FreeEntry == [ref |-> 0, context |-> None, purgeDisabled |-> 0, delete |-> FALSE]
Idle == [pc |-> "idle", op |-> None, entry |-> None, context |-> None]

Init == /\ chain = <<>>
        /\ entry = [e \in Entries |-> FreeEntry]
        /\ context = [c \in Contexts |-> 0]
        /\ hashRef = 1
        /\ own = [t \in Threads |-> [c \in Contexts |-> 0]]
        /\ at = [t \in Threads |-> Idle]

Go(t, from, to) == at[t].pc = from /\ at' = [at EXCEPT ![t].pc = to]
\* Where a search with a key ends: the latest entry that has it.
First(k) == {i \in DOMAIN chain :
                /\ KeyOf[entry[chain[i]].context] = k
                /\ \A j \in 1..(i - 1) : KeyOf[entry[chain[j]].context] # k}
MayOwn(t) == FoldFunction(+, 0, own[t]) < MaxOwned
Gain(t, c) == own' = [own EXCEPT ![t][c] = @ + 1]
Free == {e \in Entries : entry[e].context = None}

-----------------------------------------------------------------------------
\* OcObCreateObject of a context, and OcObDereferenceObject by its user.
CreateContext(t, c) ==
    /\ at[t].pc = "idle" /\ MayOwn(t)
    /\ context[c] = 0 /\ \A e \in Entries : entry[e].context # c
    /\ context' = [context EXCEPT ![c] = 1]
    /\ Gain(t, c)
    /\ UNCHANGED <<chain, entry, hashRef, at>>

DropContext(t, c) ==
    /\ at[t].pc = "idle" /\ own[t][c] > 0
    /\ context' = [context EXCEPT ![c] = @ - 1]
    /\ own' = [own EXCEPT ![t][c] = @ - 1]
    /\ UNCHANGED <<chain, entry, hashRef, at>>

\* OcHsInsertContextInHash by a thread that has a reference: the entry is
\* created, the hash and the context are referenced ...
BeginInsert(t, c) ==
    /\ at[t].pc = "idle" /\ own[t][c] > 0
    /\ \E e \in Free :
       /\ \A f \in Free : e <= f
       /\ entry' = [entry EXCEPT ![e] = [FreeEntry EXCEPT !.ref = 1, !.context = c]]
       /\ at' = [at EXCEPT ![t] = [pc |-> "reference", op |-> "insert",
                                   entry |-> e, context |-> c]]
    /\ hashRef' = hashRef + 1
    /\ UNCHANGED <<chain, context, own>>

\* Mutant: the context is not referenced.
InsertUnreferenced(t) == /\ Go(t, "reference", "link")
                         /\ UNCHANGED <<chain, entry, context, hashRef, own>>

ReferenceContext(t) ==
    /\ Go(t, "reference", "link")
    /\ context' = [context EXCEPT ![at[t].context] = @ + 1]
    /\ UNCHANGED <<chain, entry, hashRef, own>>

\* ... before the entry is linked.
Link(t) == /\ at[t].pc = "link"
           /\ chain' = <<at[t].entry>> \o chain
           /\ at' = [at EXCEPT ![t] = Idle]
           /\ UNCHANGED <<entry, context, hashRef, own>>

-----------------------------------------------------------------------------
\* Mutant: the entry is not referenced.
LocateUnreferenced(t, k) ==
    /\ at[t].pc = "idle" /\ MayOwn(t)
    /\ \E e \in {chain[i] : i \in First(k)} :
       /\ entry' = [entry EXCEPT ![e].purgeDisabled = @ + 1]
       /\ at' = [at EXCEPT ![t] = [pc |-> "apply", op |-> "find", entry |-> e,
                                   context |-> entry[e].context]]
    /\ UNCHANGED <<chain, context, hashRef, own>>

\* OcHsFindContextByKeyValue under the read lock; without success nothing
\* happens.
Locate(t, k) ==
    /\ at[t].pc = "idle" /\ MayOwn(t)
    /\ \E e \in {chain[i] : i \in First(k)} :
       /\ entry' = [entry EXCEPT ![e].ref = @ + 1, ![e].purgeDisabled = @ + 1]
       /\ at' = [at EXCEPT ![t] = [pc |-> "apply", op |-> "find", entry |-> e,
                                   context |-> entry[e].context]]
    /\ UNCHANGED <<chain, context, hashRef, own>>

\* The context function, after the lock.
Apply(t) == /\ Go(t, "apply", "enable")
            /\ context' = [context EXCEPT ![at[t].context] = @ + 1]
            /\ UNCHANGED <<chain, entry, hashRef, own>>

\* Mutant: PurgeDisabeled is left as it is.
KeepPurgeDisabled(t) == /\ Go(t, "enable", "dereference")
                        /\ UNCHANGED <<chain, entry, context, hashRef, own>>

EnablePurge(t) ==
    /\ Go(t, "enable", "dereference")
    /\ entry' = [entry EXCEPT ![at[t].entry].purgeDisabled = @ - 1]
    /\ UNCHANGED <<chain, context, hashRef, own>>

-----------------------------------------------------------------------------
\* OcHsRemoveContextByKeyValue under the write lock.
Unlink(t, k) ==
    /\ at[t].pc = "idle"
    /\ \E i \in First(k) :
       /\ chain' = RemoveAt(chain, i)
       /\ at' = [at EXCEPT ![t] = [pc |-> "setFunction", op |-> "remove",
                                   entry |-> chain[i], context |-> None]]
    /\ UNCHANGED <<entry, context, hashRef, own>>

\* OcHsPurgeAllEntriesFromHash, entry by entry; DriverUnload purges a hash once
\* at a time.
BeginPurge(t) == /\ at[t].pc = "idle" /\ \A u \in Threads : at[u].op # "purge"
                 /\ at' = [at EXCEPT ![t] = [Idle EXCEPT !.pc = "purge",
                                                         !.op = "purge"]]
                 /\ UNCHANGED <<chain, entry, context, hashRef, own>>

PurgeNext(t) ==
    /\ at[t].pc = "purge"
    /\ IF chain = <<>>
       THEN at' = [at EXCEPT ![t] = Idle] /\ UNCHANGED chain
       ELSE /\ at' = [at EXCEPT ![t].pc = "waitForFinders", ![t].entry = Head(chain)]
            /\ chain' = Tail(chain)
    /\ UNCHANGED <<entry, context, hashRef, own>>

WaitForFinders(t) == /\ at[t].pc = "waitForFinders"
                     /\ entry[at[t].entry].purgeDisabled = 0
                     /\ Go(t, "waitForFinders", "setFunction")
                     /\ UNCHANGED <<chain, entry, context, hashRef, own>>

\* Mutant: the function is called at once, as the name of the parameter says.
CallFunctionAtOnce(t) ==
    LET c == entry[at[t].entry].context IN
    /\ Go(t, "setFunction", "dereference")
    /\ context' = [context EXCEPT ![c] = @ - 1]
    /\ UNCHANGED <<chain, entry, hashRef, own>>

SetFunction(t) == /\ Go(t, "setFunction", "dereference")
                  /\ entry' = [entry EXCEPT ![at[t].entry].delete = TRUE]
                  /\ UNCHANGED <<chain, context, hashRef, own>>

\* OcObDereferenceObject of the entry.  The last reference deletes it.
AfterDereference(t) == IF at[t].op = "find" THEN "return" ELSE "dereferenceHash"
DereferenceEntry(t) ==
    LET e == at[t].entry IN
    /\ at[t].pc = "dereference"
    /\ at' = [at EXCEPT ![t] =
                 IF entry[e].ref = 1 THEN [@ EXCEPT !.pc = "delete"]
                 ELSE [@ EXCEPT !.pc = AfterDereference(t), !.entry = None]]
    /\ entry' = [entry EXCEPT ![e].ref = @ - 1]
    /\ UNCHANGED <<chain, context, hashRef, own>>

\* OcHsDeleteHashEntryObject calls the function, then the memory is free.
DeleteEntry(t) ==
    LET e == at[t].entry IN
    /\ at[t].pc = "delete"
    /\ at' = [at EXCEPT ![t].pc = AfterDereference(t), ![t].entry = None]
    /\ context' = IF entry[e].delete
                  THEN [context EXCEPT ![entry[e].context] = @ - 1] ELSE context
    /\ entry' = [entry EXCEPT ![e] = FreeEntry]
    /\ UNCHANGED <<chain, hashRef, own>>

Return(t) == /\ at[t].pc = "return"
             /\ Gain(t, at[t].context)
             /\ at' = [at EXCEPT ![t] = Idle]
             /\ UNCHANGED <<chain, entry, context, hashRef>>

\* The reference that the insertion took, at the end of a removal.
DereferenceHash(t) ==
    /\ at[t].pc = "dereferenceHash"
    /\ hashRef' = hashRef - 1
    /\ at' = [at EXCEPT ![t] = IF @.op = "purge"
                               THEN [@ EXCEPT !.pc = "purge"]
                               ELSE Idle]
    /\ UNCHANGED <<chain, entry, context, own>>

-----------------------------------------------------------------------------
Step(t) == \/ ReferenceContext(t) \/ Link(t) \/ Apply(t) \/ EnablePurge(t)
           \/ PurgeNext(t) \/ WaitForFinders(t) \/ SetFunction(t)
           \/ DereferenceEntry(t) \/ DeleteEntry(t) \/ Return(t)
           \/ DereferenceHash(t)

Next == \E t \in Threads :
            \/ \E c \in Contexts : CreateContext(t, c) \/ DropContext(t, c)
                                   \/ BeginInsert(t, c)
            \/ \E k \in Keys : Locate(t, k) \/ Unlink(t, k)
            \/ BeginPurge(t) \/ Step(t)

Spec == Init /\ [][Next]_vars /\ \A t \in Threads : WF_vars(Step(t))
-----------------------------------------------------------------------------
In(pcs) == {t \in Threads : at[t].pc \in pcs}

TypeOK ==
    /\ chain \in Seq(Entries)
    /\ entry \in [Entries -> [ref : 0..(Cardinality(Threads) + 1),
                              context : Contexts \cup {None},
                              purgeDisabled : 0..Cardinality(Threads),
                              delete : BOOLEAN]]
    /\ context \in [Contexts -> Int] /\ hashRef \in Int
    /\ own \in [Threads -> [Contexts -> Nat]]
    /\ at \in [Threads -> [pc : {"idle", "reference", "link", "apply", "enable",
                                 "purge", "waitForFinders", "setFunction",
                                 "dereference", "delete", "return",
                                 "dereferenceHash"},
                           op : {None, "insert", "find", "remove", "purge"},
                           entry : Entries \cup {None},
                           context : Contexts \cup {None}]]

(***************************************************************************)
(* An entry is not freed while a thread will look at it again, and it is   *)
(* freed once: those that hold it are counted in its reference count, the  *)
(* thread that deletes it is the only one left and the entry is in no      *)
(* line (the bug check OC_HASH_DELETED_ENTRY_STILL_IN_HASH).               *)
(***************************************************************************)
EntriesOutliveTheirUsers ==
    /\ \A t \in In({"reference", "link", "apply", "enable", "waitForFinders",
                    "setFunction", "dereference"}) : entry[at[t].entry].ref > 0
    /\ \A t \in In({"delete"}) :
          /\ at[t].entry \notin ToSet(chain)
          /\ \A u \in Threads \ {t} : at[u].entry # at[t].entry
    /\ \A e \in ToSet(chain) : entry[e].ref > 0

(***************************************************************************)
(* "So the Context is valid" (lines 799-817): whoever gets a context from  *)
(* a search gets an object that exists, although a removal has unlinked    *)
(* the entry and the users have dropped their references in the meantime; *)
(* and neither of a context nor of the hash a reference is given back      *)
(* twice.                                                                  *)
(***************************************************************************)
FoundContextIsValid ==
    /\ \A t \in In({"link", "apply", "enable", "dereference", "delete", "return"}) :
          at[t].op \in {"insert", "find"} => context[at[t].context] > 0
    /\ hashRef > 0 /\ \A c \in Contexts : context[c] >= 0
    /\ \A t \in Threads, c \in Contexts : own[t][c] > 0 => context[c] > 0

(***************************************************************************)
(* Every operation ends, and a purge gets past each entry: it does not     *)
(* wait for ever for those that use it.                                    *)
(***************************************************************************)
OperationsEnd == \A t \in Threads : at[t].pc # "idle" ~> at[t].pc \in {"idle", "purge"}

TableOf == [i \in DOMAIN chain |-> entry[chain[i]].context]
Searching(c) == {t \in In({"apply"}) : at[t].context = c}
Linking(c)   == {t \in In({"link"}) : at[t].context = c}
Removed(c)   == {e \in Entries \ ToSet(chain) :
                    /\ entry[e].context = c
                    /\ ~\E t \in In({"reference", "link"}) : at[t].entry = e}
RefsOf == [c \in Contexts |-> context[c] + Cardinality(Searching(c))
                              - Cardinality(Linking(c)) - Cardinality(Removed(c))]

Table == INSTANCE ContextTable WITH table <- TableOf, refs <- RefsOf

(***************************************************************************)
(* What FileContext takes the hash to be: ContextTable.  A search counts   *)
(* from its step under the lock, a removal likewise, an insertion from the *)
(* link.                                                                   *)
(***************************************************************************)
ImplementsContextTable == Table!Spec

(***************************************************************************)
(* The lines are well formed and entries are there for whoever holds them. *)
(***************************************************************************)
HashInvariant == TypeOK /\ EntriesOutliveTheirUsers
=============================================================================
