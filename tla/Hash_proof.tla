----------------------------- MODULE Hash_proof -----------------------------
(***************************************************************************)
(* Machine-checked proofs about Hash, for any finite set of threads and    *)
(* any number of contexts, keys and entries: first the entries and who     *)
(* keeps them, then the references of the contexts and of the hash object, *)
(* and ContextTable, which Hash implements.                                *)
(***************************************************************************)
EXTENDS Hash, FiniteSetTheorems, TLAPS

\* Where a thread has a reference to the entry it is at.
Holding == {"reference", "link", "apply", "enable", "waitForFinders", "setFunction",
            "dereference"}
Holders(e) == {t \in Threads : at[t].pc \in Holding /\ at[t].entry = e}
Finders(e) == {t \in Threads : at[t].pc \in {"apply", "enable"} /\ at[t].entry = e}

\* The reference of the line: it belongs to the thread that inserts the entry,
\* then to the line, then to the thread that took the entry out.
OwnsLine(t) == \/ at[t].pc \in {"reference", "link", "waitForFinders", "setFunction"}
               \/ at[t].pc = "dereference" /\ at[t].op # "find"

Records == [ref : Int, context : Contexts \cup {None}, purgeDisabled : Int, delete : BOOLEAN]
Places == [pc : {"idle", "reference", "link", "apply", "enable", "purge",
                 "waitForFinders", "setFunction", "dereference", "delete", "return",
                 "dereferenceHash"},
           op : {None, "insert", "find", "remove", "purge"},
           entry : Entries \cup {None},
           context : Contexts \cup {None}]
Types == /\ chain \in Seq(Entries)
         /\ entry \in [Entries -> Records]
         /\ context \in [Contexts -> Int] /\ hashRef \in Int
         /\ own \in [Threads -> [Contexts -> Nat]]
         /\ at \in [Threads -> Places]

InLine(e) == \E i \in DOMAIN chain : chain[i] = e
NoEntryTwice == \A i, j \in DOMAIN chain : chain[i] = chain[j] => i = j
RefsAreExact == \A e \in Entries :
  entry[e].ref = Cardinality(Holders(e)) + (IF InLine(e) THEN 1 ELSE 0)
FindersAreCounted == \A e \in Entries : entry[e].purgeDisabled = Cardinality(Finders(e))
LineHasOneOwner == \A t \in Threads : OwnsLine(t) =>
  /\ ~InLine(at[t].entry)
  /\ \A u \in Threads : OwnsLine(u) /\ at[u].entry = at[t].entry => u = t
OneDeleter == \A t \in In({"delete"}) :
  /\ entry[at[t].entry].ref = 0
  /\ \A u \in In({"delete"}) : at[u].entry = at[t].entry => u = t
EntryIsSet == \A t \in Threads : at[t].entry \in Entries <=> at[t].pc \in Holding \cup {"delete"}
FreeIsUnused == \A e \in Entries : entry[e].context = None =>
  entry[e].ref = 0 /\ \A t \in In({"delete"}) : at[t].entry # e

FindersFind == \A t \in In({"apply", "enable"}) : at[t].op = "find"

\* The inductive invariant: the count of an entry is exactly its holders and its
\* line, which is what makes the one that brings it to zero the only one left.
IInv == /\ Types /\ NoEntryTwice /\ RefsAreExact /\ FindersAreCounted
        /\ LineHasOneOwner /\ OneDeleter /\ EntryIsSet /\ FreeIsUnused
        /\ FindersFind

-----------------------------------------------------------------------------
(* The sets of holders *)

LEMMA HoldersFinite ==
  ASSUME NEW e
  PROVE  /\ IsFiniteSet(Holders(e)) /\ Cardinality(Holders(e)) \in Nat
         /\ IsFiniteSet(Finders(e)) /\ Cardinality(Finders(e)) \in Nat
  BY FS_Subset, FS_CardinalityType, HashAssumption DEF Holders, Finders

\* What the holders of an entry are when one thread has moved.
LEMMA Moved ==
  ASSUME Types, NEW t \in Threads, NEW r, at' = [at EXCEPT ![t] = r], NEW e
  PROVE  /\ Holders(e)' = IF r.pc \in Holding /\ r.entry = e
                          THEN Holders(e) \cup {t} ELSE Holders(e) \ {t}
         /\ Finders(e)' = IF r.pc \in {"apply", "enable"} /\ r.entry = e
                          THEN Finders(e) \cup {t} ELSE Finders(e) \ {t}
  BY DEF Types, Holders, Finders

LEMMA Sizes ==
  ASSUME NEW e, NEW t
  PROVE  /\ t \in Holders(e) => Cardinality(Holders(e) \ {t}) = Cardinality(Holders(e)) - 1
         /\ t \notin Holders(e) => Holders(e) \ {t} = Holders(e)
         /\ t \in Holders(e) => Holders(e) \cup {t} = Holders(e)
         /\ t \notin Holders(e) => Cardinality(Holders(e) \cup {t}) = Cardinality(Holders(e)) + 1
         /\ t \in Finders(e) => Cardinality(Finders(e) \ {t}) = Cardinality(Finders(e)) - 1
         /\ t \notin Finders(e) => Finders(e) \ {t} = Finders(e)
         /\ t \in Finders(e) => Finders(e) \cup {t} = Finders(e)
         /\ t \notin Finders(e) => Cardinality(Finders(e) \cup {t}) = Cardinality(Finders(e)) + 1
  <1>1. IsFiniteSet(Holders(e)) /\ IsFiniteSet(Finders(e))
    BY HoldersFinite
  <1>2. /\ t \in Holders(e) => Cardinality(Holders(e) \ {t}) = Cardinality(Holders(e)) - 1
        /\ t \in Finders(e) => Cardinality(Finders(e) \ {t}) = Cardinality(Finders(e)) - 1
    BY <1>1, FS_RemoveElement
  <1>3. /\ t \notin Holders(e) => Cardinality(Holders(e) \cup {t}) = Cardinality(Holders(e)) + 1
        /\ t \notin Finders(e) => Cardinality(Finders(e) \cup {t}) = Cardinality(Finders(e)) + 1
    BY <1>1, FS_AddElement
  <1> QED
    BY <1>2, <1>3

\* Whoever holds an entry, or has it in a line, is counted.
LEMMA HeldIsCounted ==
  ASSUME IInv, NEW e \in Entries
  PROVE  /\ Holders(e) # {} \/ InLine(e) => entry[e].ref > 0
         /\ \A t \in Holders(e) : entry[e].ref = 1 => Holders(e) = {t} /\ ~InLine(e)
         /\ entry[e].ref = 0 => Holders(e) = {} /\ ~InLine(e)
  <1>1. /\ IsFiniteSet(Holders(e)) /\ Cardinality(Holders(e)) \in Nat
        /\ entry[e].ref = Cardinality(Holders(e)) + (IF InLine(e) THEN 1 ELSE 0)
    BY HoldersFinite DEF IInv, RefsAreExact
  <1>2. Cardinality(Holders(e)) = 0 <=> Holders(e) = {}
    BY <1>1, FS_EmptySet
  <1>3. ASSUME NEW t \in Holders(e), entry[e].ref = 1
        PROVE  Holders(e) = {t} /\ ~InLine(e)
    <2>1. Cardinality(Holders(e) \ {t}) = Cardinality(Holders(e)) - 1
      BY Sizes
    <2>2. Cardinality(Holders(e)) = 1 /\ ~InLine(e)
      BY <1>1, <1>2, <1>3
    <2>3. IsFiniteSet(Holders(e) \ {t}) /\ Cardinality(Holders(e) \ {t}) = 0
      BY <1>1, <2>1, <2>2, FS_RemoveElement
    <2>4. Holders(e) \ {t} = {}
      BY <2>3, FS_EmptySet
    <2> QED
      BY <2>2, <2>4
  <1> QED
    BY <1>1, <1>2, <1>3

\* How a set grows or shrinks when one element joins or leaves it.
LEMMA OneJoinsOrLeaves ==
  ASSUME NEW S, IsFiniteSet(S), NEW t, NEW joins \in BOOLEAN, NEW T,
         T = IF joins THEN S \cup {t} ELSE S \ {t}
  PROVE  Cardinality(T) = Cardinality(S) + (IF joins THEN 1 ELSE 0)
                                         - (IF t \in S THEN 1 ELSE 0)
  <1>1. Cardinality(S) \in Nat
    BY FS_CardinalityType
  <1>2. t \in S => Cardinality(S \ {t}) = Cardinality(S) - 1 /\ S \cup {t} = S
    BY FS_RemoveElement
  <1>3. t \notin S => Cardinality(S \cup {t}) = Cardinality(S) + 1 /\ S \ {t} = S
    BY FS_AddElement
  <1>4. CASE joins /\ t \in S
    <2>1. T = S
      BY <1>2, <1>4
    <2> QED
      BY <1>1, <1>4, <2>1
  <1>5. CASE joins /\ t \notin S
    <2>1. T = S \cup {t}
      BY <1>5
    <2> QED
      BY <1>1, <1>3, <1>5, <2>1
  <1>6. CASE ~joins /\ t \in S
    <2>1. T = S \ {t}
      BY <1>6
    <2> QED
      BY <1>1, <1>2, <1>6, <2>1
  <1>7. CASE ~joins /\ t \notin S
    <2>1. T = S
      BY <1>3, <1>7
    <2> QED
      BY <1>1, <1>7, <2>1
  <1> QED
    BY <1>4, <1>5, <1>6, <1>7

\* How far the move of one thread changes the two counts.
LEMMA Counts ==
  ASSUME Types, NEW t \in Threads, NEW r, at' = [at EXCEPT ![t] = r], NEW e
  PROVE  /\ Cardinality(Holders(e)') =
              Cardinality(Holders(e))
                + (IF r.pc \in Holding /\ r.entry = e THEN 1 ELSE 0)
                - (IF at[t].pc \in Holding /\ at[t].entry = e THEN 1 ELSE 0)
         /\ Cardinality(Finders(e)') =
              Cardinality(Finders(e))
                + (IF r.pc \in {"apply", "enable"} /\ r.entry = e THEN 1 ELSE 0)
                - (IF at[t].pc \in {"apply", "enable"} /\ at[t].entry = e THEN 1 ELSE 0)
  <1> DEFINE H == r.pc \in Holding /\ r.entry = e
             F == r.pc \in {"apply", "enable"} /\ r.entry = e
  <1>1. /\ t \in Holders(e) <=> at[t].pc \in Holding /\ at[t].entry = e
        /\ t \in Finders(e) <=> at[t].pc \in {"apply", "enable"} /\ at[t].entry = e
    BY DEF Holders, Finders
  <1>2. /\ Holders(e)' = IF H THEN Holders(e) \cup {t} ELSE Holders(e) \ {t}
        /\ Finders(e)' = IF F THEN Finders(e) \cup {t} ELSE Finders(e) \ {t}
    BY Moved
  <1>3. IsFiniteSet(Holders(e)) /\ IsFiniteSet(Finders(e)) /\ H \in BOOLEAN /\ F \in BOOLEAN
    BY HoldersFinite
  <1> HIDE DEF H, F
  <1>4. Cardinality(Holders(e)') = Cardinality(Holders(e))
          + (IF H THEN 1 ELSE 0) - (IF t \in Holders(e) THEN 1 ELSE 0)
    BY <1>2, <1>3, OneJoinsOrLeaves
  <1>5. Cardinality(Finders(e)') = Cardinality(Finders(e))
          + (IF F THEN 1 ELSE 0) - (IF t \in Finders(e) THEN 1 ELSE 0)
    BY <1>2, <1>3, OneJoinsOrLeaves
  <1> QED
    BY <1>1, <1>4, <1>5 DEF H, F

-----------------------------------------------------------------------------
(* The hash line *)

LEMMA LinkedLine ==
  ASSUME Types, NoEntryTwice, NEW f \in Entries, ~InLine(f), chain' = <<f>> \o chain
  PROVE  /\ chain' \in Seq(Entries) /\ NoEntryTwice'
         /\ \A e : InLine(e)' <=> InLine(e) \/ e = f
  <1>1. chain \in Seq(Entries) /\ <<f>> \in Seq(Entries) /\ Len(<<f>>) = 1
    BY DEF Types
  <1>2. /\ chain' \in Seq(Entries) /\ Len(chain') = Len(chain) + 1
        /\ DOMAIN chain = 1..Len(chain) /\ DOMAIN chain' = 1..Len(chain')
        /\ Len(chain) \in Nat
    BY <1>1
  <1>3. /\ chain'[1] = f
        /\ \A i \in 2..Len(chain') : chain'[i] = chain[i - 1]
        /\ \A i \in 1..Len(chain) : chain'[i + 1] = chain[i]
    BY <1>1, <1>2
  <1>4. ASSUME NEW e PROVE InLine(e)' <=> InLine(e) \/ e = f
    <2>1. InLine(e)' => InLine(e) \/ e = f
      <3> SUFFICES ASSUME NEW i \in 1..Len(chain'), chain'[i] = e, e # f
                   PROVE  InLine(e)
        BY <1>2 DEF InLine
      <3>1. i - 1 \in 1..Len(chain) /\ chain[i - 1] = e
        BY <1>2, <1>3
      <3> QED
        BY <1>2, <3>1 DEF InLine
    <2>2. InLine(e) => InLine(e)'
      BY SMTT(30), <1>2, <1>3 DEF InLine
    <2>3. InLine(f)'
      BY <1>2, <1>3 DEF InLine
    <2> QED
      BY <2>1, <2>2, <2>3
  <1>5. NoEntryTwice'
    <2> SUFFICES ASSUME NEW i \in 1..Len(chain'), NEW j \in 1..Len(chain'),
                        chain'[i] = chain'[j]
                 PROVE  i = j
      BY <1>2 DEF NoEntryTwice
    <2>1. \A m \in 2..Len(chain') : m - 1 \in 1..Len(chain) /\ chain'[m] = chain[m - 1]
      BY <1>2, <1>3
    <2>2. \A m \in 2..Len(chain') : chain'[m] # f
      BY <1>2, <2>1 DEF InLine
    <2>3. CASE i = 1
      BY <1>2, <1>3, <2>2, <2>3
    <2>4. CASE j = 1
      BY <1>2, <1>3, <2>2, <2>4
    <2>5. CASE i # 1 /\ j # 1
      <3>1. /\ i - 1 \in DOMAIN chain /\ j - 1 \in DOMAIN chain
            /\ chain[i - 1] = chain[j - 1]
        BY <1>2, <2>1, <2>5
      <3> QED
        BY SMTT(30), <1>2, <3>1 DEF NoEntryTwice
    <2> QED
      BY <2>3, <2>4, <2>5
  <1> QED
    BY <1>2, <1>4, <1>5

LEMMA UnlinkedLine ==
  ASSUME Types, NoEntryTwice, NEW n \in DOMAIN chain, chain' = RemoveAt(chain, n)
  PROVE  /\ chain' \in Seq(Entries) /\ NoEntryTwice' /\ InLine(chain[n])
         /\ \A e : InLine(e)' <=> InLine(e) /\ e # chain[n]
  <1> DEFINE a == SubSeq(chain, 1, n - 1)
             b == SubSeq(chain, n + 1, Len(chain))
  <1>1. /\ chain \in Seq(Entries) /\ Len(chain) \in Nat /\ n \in 1..Len(chain)
        /\ DOMAIN chain = 1..Len(chain)
    BY DEF Types
  <1>2. /\ a \in Seq(Entries) /\ Len(a) = n - 1 /\ \A i \in 1..(n - 1) : a[i] = chain[i]
        /\ b \in Seq(Entries) /\ Len(b) = Len(chain) - n
        /\ \A i \in 1..(Len(chain) - n) : b[i] = chain[n + i]
    BY SMTT(30), <1>1
  <1>3. chain' = a \o b
    BY DEF RemoveAt
  <1>4. /\ chain' \in Seq(Entries) /\ Len(chain') = Len(chain) - 1
        /\ DOMAIN chain' = 1..Len(chain')
        /\ \A i \in 1..Len(chain') : chain'[i] = IF i < n THEN chain[i] ELSE chain[i + 1]
    <2> HIDE DEF a, b
    <2>1. /\ a \o b \in Seq(Entries) /\ Len(a \o b) = Len(a) + Len(b)
          /\ \A i \in 1..(Len(a) + Len(b)) :
                (a \o b)[i] = IF i <= Len(a) THEN a[i] ELSE b[i - Len(a)]
      BY <1>2
    <2>2. \A i \in n..(Len(chain) - 1) : b[i - (n - 1)] = chain[i + 1]
      <3> SUFFICES ASSUME NEW i \in n..(Len(chain) - 1) PROVE b[i - (n - 1)] = chain[i + 1]
        OBVIOUS
      <3>1. i - (n - 1) \in 1..(Len(chain) - n) /\ n + (i - (n - 1)) = i + 1
        BY <1>1
      <3> QED
        BY <1>2, <3>1
    <2>3. Len(a) = n - 1 /\ Len(b) = Len(chain) - n
      BY <1>2
    <2>4. /\ chain' \in Seq(Entries) /\ Len(chain') = Len(chain) - 1
          /\ DOMAIN chain' = 1..Len(chain')
      BY <1>1, <1>3, <2>1, <2>3
    <2>5. ASSUME NEW i \in 1..Len(chain')
          PROVE  chain'[i] = IF i < n THEN chain[i] ELSE chain[i + 1]
      <3>1. i \in 1..(Len(a) + Len(b)) /\ chain'[i] = IF i <= Len(a) THEN a[i] ELSE b[i - Len(a)]
        BY <1>1, <1>3, <2>1, <2>3, <2>4
      <3>2. CASE i < n
        <4>1. i \in 1..(n - 1) /\ i <= Len(a)
          BY <1>1, <2>3, <3>2
        <4> QED
          BY <1>2, <3>1, <3>2, <4>1
      <3>3. CASE ~(i < n)
        <4>1. i \in n..(Len(chain) - 1) /\ ~(i <= Len(a)) /\ i - Len(a) = i - (n - 1)
          BY <1>1, <2>3, <3>1, <3>3
        <4> QED
          BY <2>2, <3>1, <3>3, <4>1
      <3> QED
        BY <3>2, <3>3
    <2> QED
      BY <2>4, <2>5
  <1>5. ASSUME NEW e PROVE InLine(e)' <=> InLine(e) /\ e # chain[n]
    <2>1. ASSUME NEW i \in 1..Len(chain'), chain'[i] = e
          PROVE  InLine(e) /\ e # chain[n]
      <3>1. CASE i < n
        BY <1>1, <1>4, <2>1, <3>1 DEF InLine, NoEntryTwice
      <3>2. CASE ~(i < n)
        <4>1. i + 1 \in 1..Len(chain) /\ chain[i + 1] = e /\ i + 1 # n
          BY <1>1, <1>4, <2>1, <3>2
        <4> QED
          BY <1>1, <4>1 DEF InLine, NoEntryTwice
      <3> QED
        BY <3>1, <3>2
    <2>2. ASSUME NEW i \in 1..Len(chain), chain[i] = e, e # chain[n]
          PROVE  InLine(e)'
      <3>1. CASE i < n
        <4>1. i \in 1..Len(chain') /\ chain'[i] = e
          BY <1>1, <1>4, <2>2, <3>1
        <4> QED
          BY <1>4, <4>1 DEF InLine
      <3>2. CASE ~(i < n)
        <4>1. i - 1 \in 1..Len(chain') /\ chain'[i - 1] = e
          BY <1>1, <1>4, <2>2, <3>2
        <4> QED
          BY <1>4, <4>1 DEF InLine
      <3> QED
        BY <3>1, <3>2
    <2> QED
      BY <1>1, <1>4, <2>1, <2>2 DEF InLine
  <1>6. NoEntryTwice'
    <2> SUFFICES ASSUME NEW i \in 1..Len(chain'), NEW j \in 1..Len(chain'),
                        chain'[i] = chain'[j]
                 PROVE  i = j
      BY <1>4 DEF NoEntryTwice
    <2> QED
      BY SMTT(30), <1>1, <1>4 DEF NoEntryTwice
  <1> QED
    BY <1>1, <1>4, <1>5, <1>6 DEF InLine

LEMMA PurgedLine ==
  ASSUME Types, NoEntryTwice, chain # <<>>, chain' = Tail(chain)
  PROVE  /\ chain' \in Seq(Entries) /\ NoEntryTwice'
         /\ Head(chain) \in Entries /\ InLine(Head(chain))
         /\ \A e : InLine(e)' <=> InLine(e) /\ e # Head(chain)
  <1>1. /\ chain \in Seq(Entries) /\ Len(chain) \in Nat \ {0}
        /\ DOMAIN chain = 1..Len(chain) /\ Head(chain) = chain[1] /\ 1 \in DOMAIN chain
        /\ chain[1] \in Entries
    BY DEF Types
  <1>2. /\ chain' \in Seq(Entries) /\ Len(chain') = Len(chain) - 1
        /\ DOMAIN chain' = 1..Len(chain')
        /\ \A i \in 1..Len(chain') : chain'[i] = chain[i + 1]
    BY <1>1
  <1>3. ASSUME NEW e PROVE InLine(e)' <=> InLine(e) /\ e # Head(chain)
    <2>1. ASSUME NEW i \in 1..Len(chain'), chain'[i] = e
          PROVE  InLine(e) /\ e # chain[1]
      <3>1. i + 1 \in 1..Len(chain) /\ chain[i + 1] = e /\ i + 1 # 1
        BY <1>1, <1>2, <2>1
      <3> QED
        BY <1>1, <3>1 DEF InLine, NoEntryTwice
    <2>2. ASSUME NEW i \in 1..Len(chain), chain[i] = e, e # chain[1]
          PROVE  InLine(e)'
      <3>1. i - 1 \in 1..Len(chain') /\ chain'[i - 1] = e
        BY <1>1, <1>2, <2>2
      <3> QED
        BY <1>2, <3>1 DEF InLine
    <2> QED
      BY <1>1, <1>2, <2>1, <2>2 DEF InLine
  <1>4. NoEntryTwice'
    <2> SUFFICES ASSUME NEW i \in 1..Len(chain'), NEW j \in 1..Len(chain'),
                        chain'[i] = chain'[j]
                 PROVE  i = j
      BY <1>2 DEF NoEntryTwice
    <2> QED
      BY <1>1, <1>2 DEF NoEntryTwice
  <1> QED
    BY <1>1, <1>2, <1>3, <1>4 DEF InLine

-----------------------------------------------------------------------------
LEMMA InitIInv == Init => IInv
  <1> SUFFICES ASSUME Init PROVE IInv
    OBVIOUS
  <1> USE DEF Init
  <1>1. Types
    BY HashAssumption DEF Types, Records, Places, Idle, FreeEntry
  <1>2. \A e : Holders(e) = {} /\ Finders(e) = {} /\ ~InLine(e)
    BY DEF Holders, Finders, InLine, Holding, Idle
  <1>3. RefsAreExact /\ FindersAreCounted
    <2>1. Cardinality({}) = 0
      BY FS_EmptySet
    <2>2. \A e : Cardinality(Holders(e)) = 0 /\ Cardinality(Finders(e)) = 0
      BY <1>2, <2>1
    <2>3. \A e \in Entries : entry[e].ref = 0 /\ entry[e].purgeDisabled = 0
      BY DEF FreeEntry
    <2> QED
      BY <1>2, <2>2, <2>3 DEF RefsAreExact, FindersAreCounted
  <1>4. /\ LineHasOneOwner /\ OneDeleter /\ EntryIsSet /\ FreeIsUnused /\ NoEntryTwice
        /\ FindersFind
    BY HashAssumption DEF LineHasOneOwner, OwnsLine, OneDeleter, EntryIsSet, FreeIsUnused,
       NoEntryTwice, FindersFind, In, Idle, Holding, FreeEntry
  <1> QED
    BY <1>1, <1>3, <1>4 DEF IInv

-----------------------------------------------------------------------------
(* The steps *)

\* A step that leaves entries and threads alone.
LEMMA Elsewhere ==
  ASSUME IInv, Types', UNCHANGED <<chain, entry, at>>
  PROVE  IInv'
  <1>1. \A e : Holders(e)' = Holders(e) /\ Finders(e)' = Finders(e) /\ InLine(e)' = InLine(e)
    BY DEF Holders, Finders, InLine
  <1>2. RefsAreExact' /\ FindersAreCounted'
    BY <1>1 DEF IInv, RefsAreExact, FindersAreCounted
  <1>3. /\ LineHasOneOwner' /\ OneDeleter' /\ EntryIsSet' /\ FreeIsUnused' /\ NoEntryTwice'
        /\ FindersFind'
    BY DEF IInv, LineHasOneOwner, OwnsLine, OneDeleter, EntryIsSet, FreeIsUnused,
       NoEntryTwice, FindersFind, InLine, In
  <1> QED
    BY <1>2, <1>3 DEF IInv

\* What a place adds to the counts of an entry, and what the line adds.
HoldsAt(r, e) == IF r.pc \in Holding /\ r.entry = e THEN 1 ELSE 0
FindsAt(r, e) == IF r.pc \in {"apply", "enable"} /\ r.entry = e THEN 1 ELSE 0
LineAt(e) == IF InLine(e) THEN 1 ELSE 0

\* Counting up or down keeps a table of counters typed, also when the index is
\* not one of the table's.
LEMMA CountedTypes ==
  ASSUME NEW S, NEW c
  PROVE  /\ \A f \in [S -> Int] : /\ [f EXCEPT ![c] = @ + 1] \in [S -> Int]
                                  /\ [f EXCEPT ![c] = @ - 1] \in [S -> Int]
         /\ \A f \in [S -> Nat] : [f EXCEPT ![c] = @ + 1] \in [S -> Nat]
  <1>1. CASE c \in S
    BY <1>1
  <1>2. CASE c \notin S
    <2>1. ASSUME NEW T, NEW f \in [S -> T], NEW v PROVE [f EXCEPT ![c] = v] = f
      BY <1>2
    <2> QED
      BY <2>1
  <1> QED
    BY <1>1, <1>2

\* The counts stay exact in a step that changes them as its thread moves.
LEMMA CountsFollow ==
  ASSUME IInv, Types', NEW t \in Threads, NEW r, at' = [at EXCEPT ![t] = r],
         \A e \in Entries :
            /\ entry'[e].ref - entry[e].ref = HoldsAt(r, e) - HoldsAt(at[t], e)
                                              + LineAt(e)' - LineAt(e)
            /\ entry'[e].purgeDisabled - entry[e].purgeDisabled
                 = FindsAt(r, e) - FindsAt(at[t], e)
  PROVE  RefsAreExact' /\ FindersAreCounted'
  <1> SUFFICES ASSUME NEW e \in Entries
               PROVE  /\ entry'[e].ref = Cardinality(Holders(e)') + LineAt(e)'
                      /\ entry'[e].purgeDisabled = Cardinality(Finders(e)')
    BY DEF RefsAreExact, FindersAreCounted, LineAt
  <1>1. /\ Cardinality(Holders(e)') = Cardinality(Holders(e)) + HoldsAt(r, e) - HoldsAt(at[t], e)
        /\ Cardinality(Finders(e)') = Cardinality(Finders(e)) + FindsAt(r, e) - FindsAt(at[t], e)
    BY Counts DEF HoldsAt, FindsAt, IInv
  <1>2. /\ entry[e].ref = Cardinality(Holders(e)) + LineAt(e)
        /\ entry[e].purgeDisabled = Cardinality(Finders(e))
    BY DEF IInv, RefsAreExact, FindersAreCounted, LineAt
  <1>3. /\ Cardinality(Holders(e)) \in Int /\ Cardinality(Finders(e)) \in Int
        /\ entry'[e].ref \in Int /\ entry'[e].purgeDisabled \in Int
        /\ HoldsAt(r, e) \in Int /\ HoldsAt(at[t], e) \in Int
        /\ FindsAt(r, e) \in Int /\ FindsAt(at[t], e) \in Int
        /\ LineAt(e) \in Int /\ LineAt(e)' \in Int
    BY HoldersFinite DEF HoldsAt, FindsAt, LineAt, Types, Records
  <1> QED
    BY <1>1, <1>2, <1>3

LEMMA ReferenceContextStep ==
  ASSUME IInv, NEW t \in Threads, ReferenceContext(t)
  PROVE  IInv'
  <1> DEFINE r == [at[t] EXCEPT !.pc = "link"]
  <1>1. Types /\ at[t] \in Places
    BY DEF IInv, Types
  <1>2. at' = [at EXCEPT ![t] = r] /\ r \in Places
    BY <1>1, HashAssumption DEF Types, Places, ReferenceContext, Go, Idle
  <1>3. Types'
    <2>1. at' \in [Threads -> Places]
      BY <1>1, <1>2 DEF Types
    <2>2. entry' \in [Entries -> Records] /\ chain' \in Seq(Entries)
      BY <1>1 DEF IInv, EntryIsSet, Holding, Types, Records, ReferenceContext, Go
    <2>3. context' \in [Contexts -> Int]
      BY <1>1, CountedTypes DEF Types, ReferenceContext, Go
    <2>4. hashRef' \in Int
      BY <1>1 DEF Types, ReferenceContext, Go
    <2>5. own' \in [Threads -> [Contexts -> Nat]]
      BY <1>1, CountedTypes DEF Types, ReferenceContext, Go, Gain
    <2> QED
      BY <2>1, <2>2, <2>3, <2>4, <2>5 DEF Types
  <1>4. UNCHANGED chain /\ \A e : InLine(e)' = InLine(e)
    BY DEF ReferenceContext, Go, InLine
  <1>5. RefsAreExact' /\ FindersAreCounted'
    <2>1. ASSUME NEW e \in Entries
          PROVE  /\ entry'[e].ref - entry[e].ref = HoldsAt(r, e) - HoldsAt(at[t], e)
                                                   + LineAt(e)' - LineAt(e)
                 /\ entry'[e].purgeDisabled - entry[e].purgeDisabled
                      = FindsAt(r, e) - FindsAt(at[t], e)
      BY SMTT(30), <1>1, <1>2, <1>4, HashAssumption DEF ReferenceContext, Go, HoldsAt, FindsAt,
         LineAt,
         Holding, Types, Records, Places, Idle
    <2> QED
      BY <1>2, <1>3, <2>1, CountsFollow
  <1>6. NoEntryTwice' /\ LineHasOneOwner'
    BY <1>1, <1>2, <1>4 DEF IInv, FindersFind, In, NoEntryTwice, LineHasOneOwner, OwnsLine,
       ReferenceContext, Go, Types, Records, Places, Idle
  <1>7. OneDeleter' /\ FindersFind'
    BY <1>1, <1>2 DEF IInv, FindersFind, OneDeleter, In, ReferenceContext, Go, Types, Records,
       Places, Idle
  <1>8. EntryIsSet' /\ FreeIsUnused'
    BY <1>1, <1>2, HashAssumption DEF IInv, EntryIsSet, FreeIsUnused, In, Holding,
       ReferenceContext, Go, Types, Records, Places, Idle
  <1> QED
    BY <1>3, <1>5, <1>6, <1>7, <1>8 DEF IInv

LEMMA ApplyStep ==
  ASSUME IInv, NEW t \in Threads, Apply(t)
  PROVE  IInv'
  <1> DEFINE r == [at[t] EXCEPT !.pc = "enable"]
  <1>1. Types /\ at[t] \in Places
    BY DEF IInv, Types
  <1>2. at' = [at EXCEPT ![t] = r] /\ r \in Places
    BY <1>1, HashAssumption DEF Types, Places, Apply, Go, Idle
  <1>3. Types'
    <2>1. at' \in [Threads -> Places]
      BY <1>1, <1>2 DEF Types
    <2>2. entry' \in [Entries -> Records] /\ chain' \in Seq(Entries)
      BY <1>1 DEF IInv, EntryIsSet, Holding, Types, Records, Apply, Go
    <2>3. context' \in [Contexts -> Int]
      BY <1>1, CountedTypes DEF Types, Apply, Go
    <2>4. hashRef' \in Int
      BY <1>1 DEF Types, Apply, Go
    <2>5. own' \in [Threads -> [Contexts -> Nat]]
      BY <1>1, CountedTypes DEF Types, Apply, Go, Gain
    <2> QED
      BY <2>1, <2>2, <2>3, <2>4, <2>5 DEF Types
  <1>4. UNCHANGED chain /\ \A e : InLine(e)' = InLine(e)
    BY DEF Apply, Go, InLine
  <1>5. RefsAreExact' /\ FindersAreCounted'
    <2>1. ASSUME NEW e \in Entries
          PROVE  /\ entry'[e].ref - entry[e].ref = HoldsAt(r, e) - HoldsAt(at[t], e)
                                                   + LineAt(e)' - LineAt(e)
                 /\ entry'[e].purgeDisabled - entry[e].purgeDisabled
                      = FindsAt(r, e) - FindsAt(at[t], e)
      BY SMTT(30), <1>1, <1>2, <1>4, HashAssumption DEF Apply, Go, HoldsAt, FindsAt, LineAt,
         Holding,
         Types, Records, Places, Idle
    <2> QED
      BY <1>2, <1>3, <2>1, CountsFollow
  <1>6. NoEntryTwice' /\ LineHasOneOwner'
    BY <1>1, <1>2, <1>4 DEF IInv, FindersFind, In, NoEntryTwice, LineHasOneOwner, OwnsLine,
       Apply, Go, Types, Records, Places, Idle
  <1>7. OneDeleter' /\ FindersFind'
    BY <1>1, <1>2 DEF IInv, FindersFind, OneDeleter, In, Apply, Go, Types, Records, Places, Idle
  <1>8. EntryIsSet' /\ FreeIsUnused'
    BY <1>1, <1>2, HashAssumption DEF IInv, EntryIsSet, FreeIsUnused, In, Holding, Apply, Go,
       Types, Records, Places, Idle
  <1> QED
    BY <1>3, <1>5, <1>6, <1>7, <1>8 DEF IInv

LEMMA EnablePurgeStep ==
  ASSUME IInv, NEW t \in Threads, EnablePurge(t)
  PROVE  IInv'
  <1> DEFINE r == [at[t] EXCEPT !.pc = "dereference"]
  <1>1. Types /\ at[t] \in Places
    BY DEF IInv, Types
  <1>2. at' = [at EXCEPT ![t] = r] /\ r \in Places
    BY <1>1, HashAssumption DEF Types, Places, EnablePurge, Go, Idle
  <1>3. Types'
    <2>1. at' \in [Threads -> Places]
      BY <1>1, <1>2 DEF Types
    <2>2. entry' \in [Entries -> Records] /\ chain' \in Seq(Entries)
      <3>1. at[t].entry \in Entries
        BY DEF IInv, EntryIsSet, Holding, EnablePurge, Go
      <3>2. entry[at[t].entry] \in Records
        BY <1>1, <3>1 DEF Types
      <3>3. [entry[at[t].entry] EXCEPT !.purgeDisabled = @ - 1] \in Records
        BY <3>2 DEF Records
      <3> QED
        BY <1>1, <3>1, <3>3 DEF Types, EnablePurge, Go
    <2>3. context' \in [Contexts -> Int]
      BY <1>1, CountedTypes DEF Types, EnablePurge, Go
    <2>4. hashRef' \in Int
      BY <1>1 DEF Types, EnablePurge, Go
    <2>5. own' \in [Threads -> [Contexts -> Nat]]
      BY <1>1, CountedTypes DEF Types, EnablePurge, Go, Gain
    <2> QED
      BY <2>1, <2>2, <2>3, <2>4, <2>5 DEF Types
  <1>4. UNCHANGED chain /\ \A e : InLine(e)' = InLine(e)
    BY DEF EnablePurge, Go, InLine
  <1>5. RefsAreExact' /\ FindersAreCounted'
    <2>1. ASSUME NEW e \in Entries
          PROVE  /\ entry'[e].ref - entry[e].ref = HoldsAt(r, e) - HoldsAt(at[t], e)
                                                   + LineAt(e)' - LineAt(e)
                 /\ entry'[e].purgeDisabled - entry[e].purgeDisabled
                      = FindsAt(r, e) - FindsAt(at[t], e)
      BY SMTT(30), <1>1, <1>2, <1>4, HashAssumption DEF EnablePurge, Go, HoldsAt, FindsAt, LineAt,
         Holding, Types, Records, Places, Idle
    <2> QED
      BY <1>2, <1>3, <2>1, CountsFollow
  <1>6. NoEntryTwice' /\ LineHasOneOwner'
    BY <1>1, <1>2, <1>4 DEF IInv, FindersFind, In, NoEntryTwice, LineHasOneOwner, OwnsLine,
       EnablePurge, Go, Types, Records, Places, Idle
  <1>7. OneDeleter' /\ FindersFind'
    BY SMTT(30), <1>1, <1>2 DEF IInv, FindersFind, OneDeleter, In, EnablePurge, Go, Types, Records,
       Places, Idle
  <1>8. EntryIsSet' /\ FreeIsUnused'
    BY SMTT(30), <1>1, <1>2, HashAssumption DEF IInv, EntryIsSet, FreeIsUnused, In, Holding,
       EnablePurge,
       Go, Types, Records, Places, Idle
  <1> QED
    BY <1>3, <1>5, <1>6, <1>7, <1>8 DEF IInv

LEMMA WaitForFindersStep ==
  ASSUME IInv, NEW t \in Threads, WaitForFinders(t)
  PROVE  IInv'
  <1> DEFINE r == [at[t] EXCEPT !.pc = "setFunction"]
  <1>1. Types /\ at[t] \in Places
    BY DEF IInv, Types
  <1>2. at' = [at EXCEPT ![t] = r] /\ r \in Places
    BY <1>1, HashAssumption DEF Types, Places, WaitForFinders, Go, Idle
  <1>3. Types'
    <2>1. at' \in [Threads -> Places]
      BY <1>1, <1>2 DEF Types
    <2>2. entry' \in [Entries -> Records] /\ chain' \in Seq(Entries)
      BY <1>1 DEF IInv, EntryIsSet, Holding, Types, Records, WaitForFinders, Go
    <2>3. context' \in [Contexts -> Int]
      BY <1>1, CountedTypes DEF Types, WaitForFinders, Go
    <2>4. hashRef' \in Int
      BY <1>1 DEF Types, WaitForFinders, Go
    <2>5. own' \in [Threads -> [Contexts -> Nat]]
      BY <1>1, CountedTypes DEF Types, WaitForFinders, Go, Gain
    <2> QED
      BY <2>1, <2>2, <2>3, <2>4, <2>5 DEF Types
  <1>4. UNCHANGED chain /\ \A e : InLine(e)' = InLine(e)
    BY DEF WaitForFinders, Go, InLine
  <1>5. RefsAreExact' /\ FindersAreCounted'
    <2>1. ASSUME NEW e \in Entries
          PROVE  /\ entry'[e].ref - entry[e].ref = HoldsAt(r, e) - HoldsAt(at[t], e)
                                                   + LineAt(e)' - LineAt(e)
                 /\ entry'[e].purgeDisabled - entry[e].purgeDisabled
                      = FindsAt(r, e) - FindsAt(at[t], e)
      BY SMTT(30), <1>1, <1>2, <1>4, HashAssumption DEF WaitForFinders, Go, HoldsAt, FindsAt,
         LineAt,
         Holding, Types, Records, Places, Idle
    <2> QED
      BY <1>2, <1>3, <2>1, CountsFollow
  <1>6. NoEntryTwice' /\ LineHasOneOwner'
    BY <1>1, <1>2, <1>4 DEF IInv, FindersFind, In, NoEntryTwice, LineHasOneOwner, OwnsLine,
       WaitForFinders, Go, Types, Records, Places, Idle
  <1>7. OneDeleter' /\ FindersFind'
    BY <1>1, <1>2 DEF IInv, FindersFind, OneDeleter, In, WaitForFinders, Go, Types, Records,
       Places, Idle
  <1>8. EntryIsSet' /\ FreeIsUnused'
    BY <1>1, <1>2, HashAssumption DEF IInv, EntryIsSet, FreeIsUnused, In, Holding,
       WaitForFinders, Go, Types, Records, Places, Idle
  <1> QED
    BY <1>3, <1>5, <1>6, <1>7, <1>8 DEF IInv

LEMMA SetFunctionStep ==
  ASSUME IInv, NEW t \in Threads, SetFunction(t)
  PROVE  IInv'
  <1> DEFINE r == [at[t] EXCEPT !.pc = "dereference"]
  <1>1. Types /\ at[t] \in Places
    BY DEF IInv, Types
  <1>2. at' = [at EXCEPT ![t] = r] /\ r \in Places
    BY <1>1, HashAssumption DEF Types, Places, SetFunction, Go, Idle
  <1>3. Types'
    <2>1. at' \in [Threads -> Places]
      BY <1>1, <1>2 DEF Types
    <2>2. entry' \in [Entries -> Records] /\ chain' \in Seq(Entries)
      BY <1>1 DEF IInv, EntryIsSet, Holding, Types, Records, SetFunction, Go
    <2>3. context' \in [Contexts -> Int]
      BY <1>1, CountedTypes DEF Types, SetFunction, Go
    <2>4. hashRef' \in Int
      BY <1>1 DEF Types, SetFunction, Go
    <2>5. own' \in [Threads -> [Contexts -> Nat]]
      BY <1>1, CountedTypes DEF Types, SetFunction, Go, Gain
    <2> QED
      BY <2>1, <2>2, <2>3, <2>4, <2>5 DEF Types
  <1>4. UNCHANGED chain /\ \A e : InLine(e)' = InLine(e)
    BY DEF SetFunction, Go, InLine
  <1>5. RefsAreExact' /\ FindersAreCounted'
    <2>1. ASSUME NEW e \in Entries
          PROVE  /\ entry'[e].ref - entry[e].ref = HoldsAt(r, e) - HoldsAt(at[t], e)
                                                   + LineAt(e)' - LineAt(e)
                 /\ entry'[e].purgeDisabled - entry[e].purgeDisabled
                      = FindsAt(r, e) - FindsAt(at[t], e)
      BY <1>1, <1>2, <1>4, HashAssumption DEF SetFunction, Go, HoldsAt, FindsAt, LineAt,
         Holding, Types, Records, Places, Idle
    <2> QED
      BY <1>2, <1>3, <2>1, CountsFollow
  <1>6. NoEntryTwice' /\ LineHasOneOwner'
    BY <1>1, <1>2, <1>4 DEF IInv, FindersFind, In, NoEntryTwice, LineHasOneOwner, OwnsLine,
       SetFunction, Go, Types, Records, Places, Idle
  <1>7. OneDeleter' /\ FindersFind'
    BY <1>1, <1>2 DEF IInv, FindersFind, OneDeleter, In, SetFunction, Go, Types, Records,
       Places, Idle
  <1>8. EntryIsSet' /\ FreeIsUnused'
    BY SMTT(30), <1>1, <1>2, HashAssumption DEF IInv, EntryIsSet, FreeIsUnused, In, Holding,
       SetFunction,
       Go, Types, Records, Places, Idle
  <1> QED
    BY <1>3, <1>5, <1>6, <1>7, <1>8 DEF IInv

LEMMA BeginPurgeStep ==
  ASSUME IInv, NEW t \in Threads, BeginPurge(t)
  PROVE  IInv'
  <1> DEFINE r == [Idle EXCEPT !.pc = "purge", !.op = "purge"]
  <1>1. Types /\ at[t] \in Places
    BY DEF IInv, Types
  <1>2. at' = [at EXCEPT ![t] = r] /\ r \in Places
    BY <1>1, HashAssumption DEF Types, Places, BeginPurge, Go, Idle
  <1>3. Types'
    <2>1. at' \in [Threads -> Places]
      BY <1>1, <1>2 DEF Types
    <2>2. entry' \in [Entries -> Records] /\ chain' \in Seq(Entries)
      BY <1>1 DEF IInv, EntryIsSet, Holding, Types, Records, BeginPurge, Go
    <2>3. context' \in [Contexts -> Int]
      BY <1>1, CountedTypes DEF Types, BeginPurge, Go
    <2>4. hashRef' \in Int
      BY <1>1 DEF Types, BeginPurge, Go
    <2>5. own' \in [Threads -> [Contexts -> Nat]]
      BY <1>1, CountedTypes DEF Types, BeginPurge, Go, Gain
    <2> QED
      BY <2>1, <2>2, <2>3, <2>4, <2>5 DEF Types
  <1>4. UNCHANGED chain /\ \A e : InLine(e)' = InLine(e)
    BY DEF BeginPurge, Go, InLine
  <1>5. RefsAreExact' /\ FindersAreCounted'
    <2>1. ASSUME NEW e \in Entries
          PROVE  /\ entry'[e].ref - entry[e].ref = HoldsAt(r, e) - HoldsAt(at[t], e)
                                                   + LineAt(e)' - LineAt(e)
                 /\ entry'[e].purgeDisabled - entry[e].purgeDisabled
                      = FindsAt(r, e) - FindsAt(at[t], e)
      <3>1. HoldsAt(r, e) = 0 /\ HoldsAt(at[t], e) = 0 /\ FindsAt(r, e) = 0 /\ FindsAt(at[t], e) = 0
        BY HashAssumption DEF BeginPurge, HoldsAt, FindsAt, Holding, Idle
      <3>2. entry' = entry /\ entry[e] \in Records /\ LineAt(e)' = LineAt(e) /\ LineAt(e) \in Int
        BY <1>1, <1>4 DEF BeginPurge, LineAt, Types
      <3> QED
        BY <3>1, <3>2 DEF Records
    <2> QED
      BY <1>2, <1>3, <2>1, CountsFollow
  <1>6. NoEntryTwice' /\ LineHasOneOwner'
    BY <1>1, <1>2, <1>4 DEF IInv, FindersFind, In, NoEntryTwice, LineHasOneOwner, OwnsLine,
       BeginPurge, Go, Types, Records, Places, Idle
  <1>7. OneDeleter' /\ FindersFind'
    BY <1>1, <1>2 DEF IInv, FindersFind, OneDeleter, In, BeginPurge, Go, Types, Records,
       Places, Idle
  <1>8. EntryIsSet' /\ FreeIsUnused'
    BY <1>1, <1>2, HashAssumption DEF IInv, EntryIsSet, FreeIsUnused, In, Holding, BeginPurge,
       Go, Types, Records, Places, Idle
  <1> QED
    BY <1>3, <1>5, <1>6, <1>7, <1>8 DEF IInv

LEMMA ReturnStep ==
  ASSUME IInv, NEW t \in Threads, Return(t)
  PROVE  IInv'
  <1> DEFINE r == Idle
  <1>1. Types /\ at[t] \in Places
    BY DEF IInv, Types
  <1>2. at' = [at EXCEPT ![t] = r] /\ r \in Places
    BY <1>1, HashAssumption DEF Types, Places, Return, Go, Idle
  <1>3. Types'
    <2>1. at' \in [Threads -> Places]
      BY <1>1, <1>2 DEF Types
    <2>2. entry' \in [Entries -> Records] /\ chain' \in Seq(Entries)
      BY <1>1 DEF IInv, EntryIsSet, Holding, Types, Records, Return, Go
    <2>3. context' \in [Contexts -> Int]
      BY <1>1, CountedTypes DEF Types, Return, Go
    <2>4. hashRef' \in Int
      BY <1>1 DEF Types, Return, Go
    <2>5. own' \in [Threads -> [Contexts -> Nat]]
      BY <1>1, CountedTypes DEF Types, Return, Go, Gain
    <2> QED
      BY <2>1, <2>2, <2>3, <2>4, <2>5 DEF Types
  <1>4. UNCHANGED chain /\ \A e : InLine(e)' = InLine(e)
    BY DEF Return, Go, InLine
  <1>5. RefsAreExact' /\ FindersAreCounted'
    <2>1. ASSUME NEW e \in Entries
          PROVE  /\ entry'[e].ref - entry[e].ref = HoldsAt(r, e) - HoldsAt(at[t], e)
                                                   + LineAt(e)' - LineAt(e)
                 /\ entry'[e].purgeDisabled - entry[e].purgeDisabled
                      = FindsAt(r, e) - FindsAt(at[t], e)
      <3>1. HoldsAt(r, e) = 0 /\ HoldsAt(at[t], e) = 0 /\ FindsAt(r, e) = 0 /\ FindsAt(at[t], e) = 0
        BY HashAssumption DEF Return, HoldsAt, FindsAt, Holding, Idle
      <3>2. entry' = entry /\ entry[e] \in Records /\ LineAt(e)' = LineAt(e) /\ LineAt(e) \in Int
        BY <1>1, <1>4 DEF Return, LineAt, Types
      <3> QED
        BY <3>1, <3>2 DEF Records
    <2> QED
      BY <1>2, <1>3, <2>1, CountsFollow
  <1>6. NoEntryTwice' /\ LineHasOneOwner'
    BY <1>1, <1>2, <1>4 DEF IInv, FindersFind, In, NoEntryTwice, LineHasOneOwner, OwnsLine,
       Return, Go, Types, Records, Places, Idle
  <1>7. OneDeleter' /\ FindersFind'
    BY <1>1, <1>2 DEF IInv, FindersFind, OneDeleter, In, Return, Go, Types, Records, Places, Idle
  <1>8. EntryIsSet' /\ FreeIsUnused'
    BY <1>1, <1>2, HashAssumption DEF IInv, EntryIsSet, FreeIsUnused, In, Holding, Return, Go,
       Types, Records, Places, Idle
  <1> QED
    BY <1>3, <1>5, <1>6, <1>7, <1>8 DEF IInv

LEMMA DereferenceHashStep ==
  ASSUME IInv, NEW t \in Threads, DereferenceHash(t)
  PROVE  IInv'
  <1> DEFINE r == IF at[t].op = "purge" THEN [at[t] EXCEPT !.pc = "purge"] ELSE Idle
  <1>1. Types /\ at[t] \in Places
    BY DEF IInv, Types
  <1>2. at' = [at EXCEPT ![t] = r] /\ r \in Places
    BY <1>1, HashAssumption DEF Types, Places, DereferenceHash, Go, Idle
  <1>3. Types'
    <2>1. at' \in [Threads -> Places]
      BY <1>1, <1>2 DEF Types
    <2>2. entry' \in [Entries -> Records] /\ chain' \in Seq(Entries)
      BY <1>1 DEF IInv, EntryIsSet, Holding, Types, Records, DereferenceHash, Go
    <2>3. context' \in [Contexts -> Int]
      BY <1>1, CountedTypes DEF Types, DereferenceHash, Go
    <2>4. hashRef' \in Int
      BY <1>1 DEF Types, DereferenceHash, Go
    <2>5. own' \in [Threads -> [Contexts -> Nat]]
      BY <1>1, CountedTypes DEF Types, DereferenceHash, Go, Gain
    <2> QED
      BY <2>1, <2>2, <2>3, <2>4, <2>5 DEF Types
  <1>4. UNCHANGED chain /\ \A e : InLine(e)' = InLine(e)
    BY DEF DereferenceHash, Go, InLine
  <1>5. RefsAreExact' /\ FindersAreCounted'
    <2>1. ASSUME NEW e \in Entries
          PROVE  /\ entry'[e].ref - entry[e].ref = HoldsAt(r, e) - HoldsAt(at[t], e)
                                                   + LineAt(e)' - LineAt(e)
                 /\ entry'[e].purgeDisabled - entry[e].purgeDisabled
                      = FindsAt(r, e) - FindsAt(at[t], e)
      BY SMTT(30), <1>1, <1>2, <1>4, HashAssumption DEF DereferenceHash, Go, HoldsAt, FindsAt,
         LineAt,
         Holding, Types, Records, Places, Idle
    <2> QED
      BY <1>2, <1>3, <2>1, CountsFollow
  <1>6. NoEntryTwice' /\ LineHasOneOwner'
    BY <1>1, <1>2, <1>4 DEF IInv, FindersFind, In, NoEntryTwice, LineHasOneOwner, OwnsLine,
       DereferenceHash, Go, Types, Records, Places, Idle
  <1>7. OneDeleter' /\ FindersFind'
    BY <1>1, <1>2 DEF IInv, FindersFind, OneDeleter, In, DereferenceHash, Go, Types, Records,
       Places, Idle
  <1>8. EntryIsSet' /\ FreeIsUnused'
    BY <1>1, <1>2, HashAssumption DEF IInv, EntryIsSet, FreeIsUnused, In, Holding,
       DereferenceHash, Go, Types, Records, Places, Idle
  <1> QED
    BY <1>3, <1>5, <1>6, <1>7, <1>8 DEF IInv

LEMMA LinkStep ==
  ASSUME IInv, NEW t \in Threads, Link(t)
  PROVE  IInv'
  <1> DEFINE f == at[t].entry
  <1>1. Types /\ at[t] \in Places /\ at' = [at EXCEPT ![t] = Idle] /\ Idle \in Places
    BY HashAssumption DEF IInv, Types, Link, Places, Idle
  <1>2. f \in Entries /\ ~InLine(f) /\ chain' = <<f>> \o chain
    BY DEF IInv, EntryIsSet, LineHasOneOwner, OwnsLine, Holding, Link
  <1>3. /\ chain' \in Seq(Entries) /\ NoEntryTwice'
        /\ \A e : InLine(e)' <=> InLine(e) \/ e = f
    BY <1>1, <1>2, LinkedLine DEF IInv
  <1>4. Types'
    BY <1>1, <1>3 DEF Types, Link
  <1>5. RefsAreExact' /\ FindersAreCounted'
    <2>1. ASSUME NEW e \in Entries
          PROVE  /\ entry'[e].ref - entry[e].ref = HoldsAt(Idle, e) - HoldsAt(at[t], e)
                                                   + LineAt(e)' - LineAt(e)
                 /\ entry'[e].purgeDisabled - entry[e].purgeDisabled
                      = FindsAt(Idle, e) - FindsAt(at[t], e)
      <3>1. /\ HoldsAt(Idle, e) = 0 /\ FindsAt(Idle, e) = 0 /\ FindsAt(at[t], e) = 0
            /\ HoldsAt(at[t], e) = IF e = f THEN 1 ELSE 0
        BY DEF Link, HoldsAt, FindsAt, Holding, Idle
      <3>2. LineAt(e)' = LineAt(e) + (IF e = f THEN 1 ELSE 0) /\ LineAt(e) \in Int
        BY <1>2, <1>3 DEF LineAt
      <3>3. entry' = entry /\ entry[e] \in Records
        BY <1>1 DEF Link, Types
      <3> QED
        BY <3>1, <3>2, <3>3 DEF Records
    <2> QED
      BY <1>1, <1>4, <2>1, CountsFollow
  <1>6. LineHasOneOwner'
    BY <1>1, <1>3 DEF IInv, LineHasOneOwner, OwnsLine, Link, Types, Idle
  <1>7. OneDeleter' /\ FindersFind' /\ EntryIsSet' /\ FreeIsUnused'
    BY <1>1, HashAssumption DEF IInv, FindersFind, OneDeleter, EntryIsSet, FreeIsUnused, In,
       Holding, Link, Types, Idle
  <1> QED
    BY <1>3, <1>4, <1>5, <1>6, <1>7 DEF IInv

\* An entry of a line is there: it is counted and no thread deletes it.
LEMMA LinkedEntry ==
  ASSUME IInv, NEW e, InLine(e)
  PROVE  /\ e \in Entries /\ entry[e].ref > 0 /\ entry[e] \in Records
         /\ entry[e].context \in Contexts
         /\ \A t \in Threads : at[t].entry = e => at[t].pc # "delete" /\ ~OwnsLine(t)
  <1>1. e \in Entries
    BY DEF IInv, Types, InLine
  <1>2. entry[e].ref > 0 /\ entry[e] \in Records
    BY <1>1, HeldIsCounted DEF IInv, Types
  <1> QED
    BY <1>1, <1>2 DEF IInv, FreeIsUnused, OneDeleter, LineHasOneOwner, In, Records

LEMMA UnlinkStep ==
  ASSUME IInv, NEW t \in Threads, NEW k \in Keys, Unlink(t, k)
  PROVE  IInv'
  <1>1. PICK i \in First(k) :
          /\ chain' = RemoveAt(chain, i)
          /\ at' = [at EXCEPT ![t] = [pc |-> "setFunction", op |-> "remove",
                                      entry |-> chain[i], context |-> None]]
    BY DEF Unlink
  <1> DEFINE f == chain[i]
             r == [pc |-> "setFunction", op |-> "remove", entry |-> f, context |-> None]
  <1>2. i \in DOMAIN chain /\ Types /\ NoEntryTwice
    BY DEF First, IInv
  <1>3. /\ chain' \in Seq(Entries) /\ NoEntryTwice' /\ InLine(f)
        /\ \A e : InLine(e)' <=> InLine(e) /\ e # f
    BY <1>1, <1>2, UnlinkedLine
  <1>4. /\ f \in Entries
        /\ \A u \in Threads : at[u].entry = f => at[u].pc # "delete" /\ ~OwnsLine(u)
    BY <1>3, LinkedEntry
  <1> HIDE DEF f
  <1>5. at' = [at EXCEPT ![t] = r] /\ r \in Places
    BY <1>1, <1>4 DEF Places, f
  <1>6. Types'
    BY <1>2, <1>3, <1>5 DEF Types, Unlink
  <1>7. RefsAreExact' /\ FindersAreCounted'
    <2>1. ASSUME NEW e \in Entries
          PROVE  /\ entry'[e].ref - entry[e].ref = HoldsAt(r, e) - HoldsAt(at[t], e)
                                                   + LineAt(e)' - LineAt(e)
                 /\ entry'[e].purgeDisabled - entry[e].purgeDisabled
                      = FindsAt(r, e) - FindsAt(at[t], e)
      <3>1. /\ HoldsAt(at[t], e) = 0 /\ FindsAt(r, e) = 0 /\ FindsAt(at[t], e) = 0
            /\ HoldsAt(r, e) = IF e = f THEN 1 ELSE 0
        BY DEF Unlink, HoldsAt, FindsAt, Holding
      <3>2. LineAt(e)' = LineAt(e) - (IF e = f THEN 1 ELSE 0) /\ LineAt(e) \in Int
        BY <1>3 DEF LineAt
      <3>3. entry' = entry /\ entry[e] \in Records
        BY <1>2 DEF Unlink, Types
      <3> QED
        BY <3>1, <3>2, <3>3 DEF Records
    <2> QED
      BY <1>5, <1>6, <2>1, CountsFollow
  <1>8. LineHasOneOwner'
    BY <1>2, <1>3, <1>4, <1>5 DEF IInv, LineHasOneOwner, OwnsLine, Types
  <1>9. OneDeleter' /\ FindersFind' /\ EntryIsSet' /\ FreeIsUnused'
    BY <1>2, <1>4, <1>5, HashAssumption DEF IInv, FindersFind, OneDeleter, EntryIsSet,
       FreeIsUnused,
       In, Holding, Unlink, Types
  <1> QED
    BY <1>3, <1>6, <1>7, <1>8, <1>9 DEF IInv

LEMMA PurgeNextStep ==
  ASSUME IInv, NEW t \in Threads, PurgeNext(t)
  PROVE  IInv'
  <1>1. Types /\ NoEntryTwice /\ at[t] \in Places
    BY DEF IInv, Types
  <1>2. CASE chain = <<>>
    <2>1. at' = [at EXCEPT ![t] = Idle] /\ Idle \in Places /\ UNCHANGED <<chain, entry>>
      BY <1>2, HashAssumption DEF PurgeNext, Places, Idle
    <2>2. Types'
      BY <1>1, <2>1 DEF Types, PurgeNext
    <2>3. RefsAreExact' /\ FindersAreCounted'
      <3>1. ASSUME NEW e \in Entries
            PROVE  /\ entry'[e].ref - entry[e].ref = HoldsAt(Idle, e) - HoldsAt(at[t], e)
                                                     + LineAt(e)' - LineAt(e)
                   /\ entry'[e].purgeDisabled - entry[e].purgeDisabled
                        = FindsAt(Idle, e) - FindsAt(at[t], e)
        <4>1. /\ HoldsAt(Idle, e) = 0 /\ HoldsAt(at[t], e) = 0
              /\ FindsAt(Idle, e) = 0 /\ FindsAt(at[t], e) = 0
          BY DEF PurgeNext, HoldsAt, FindsAt, Holding, Idle
        <4>2. entry' = entry /\ entry[e] \in Records /\ LineAt(e)' = LineAt(e) /\ LineAt(e) \in Int
          BY <1>1, <2>1 DEF LineAt, InLine, Types
        <4> QED
          BY <4>1, <4>2 DEF Records
      <3> QED
        BY <2>1, <2>2, <3>1, CountsFollow
    <2>4. NoEntryTwice' /\ LineHasOneOwner'
      BY <1>1, <2>1 DEF IInv, NoEntryTwice, LineHasOneOwner, OwnsLine, InLine, Types, Idle
    <2>5. OneDeleter' /\ FindersFind' /\ EntryIsSet' /\ FreeIsUnused'
      BY <1>1, <2>1, HashAssumption DEF IInv, FindersFind, OneDeleter, EntryIsSet, FreeIsUnused,
         In, Holding, PurgeNext, Types, Idle
    <2> QED
      BY <2>2, <2>3, <2>4, <2>5 DEF IInv
  <1>3. CASE chain # <<>>
    <2> DEFINE f == Head(chain)
               r == [at[t] EXCEPT !.pc = "waitForFinders", !.entry = f]
    <2>1. chain' = Tail(chain) /\ at' = [at EXCEPT ![t] = r] /\ UNCHANGED entry
      BY <1>1, <1>3 DEF PurgeNext, Types
    <2>2. /\ chain' \in Seq(Entries) /\ NoEntryTwice' /\ f \in Entries /\ InLine(f)
          /\ \A e : InLine(e)' <=> InLine(e) /\ e # f
      BY <1>1, <1>3, <2>1, PurgedLine
    <2>3. \A u \in Threads : at[u].entry = f => at[u].pc # "delete" /\ ~OwnsLine(u)
      BY <2>2, LinkedEntry
    <2> HIDE DEF f
    <2>4. r \in Places
      BY <1>1, <2>2 DEF Places
    <2>5. Types'
      BY <1>1, <2>1, <2>2, <2>4 DEF Types, PurgeNext
    <2>6. RefsAreExact' /\ FindersAreCounted'
      <3>1. ASSUME NEW e \in Entries
            PROVE  /\ entry'[e].ref - entry[e].ref = HoldsAt(r, e) - HoldsAt(at[t], e)
                                                     + LineAt(e)' - LineAt(e)
                   /\ entry'[e].purgeDisabled - entry[e].purgeDisabled
                        = FindsAt(r, e) - FindsAt(at[t], e)
        <4>1. /\ HoldsAt(at[t], e) = 0 /\ FindsAt(r, e) = 0 /\ FindsAt(at[t], e) = 0
              /\ HoldsAt(r, e) = IF e = f THEN 1 ELSE 0
          BY <1>1 DEF PurgeNext, HoldsAt, FindsAt, Holding, Places
        <4>2. LineAt(e)' = LineAt(e) - (IF e = f THEN 1 ELSE 0) /\ LineAt(e) \in Int
          BY <2>2 DEF LineAt
        <4>3. entry' = entry /\ entry[e] \in Records
          BY <1>1, <2>1 DEF Types
        <4> QED
          BY <4>1, <4>2, <4>3 DEF Records
      <3> QED
        BY <2>1, <2>5, <3>1, CountsFollow
    <2>7. LineHasOneOwner'
      BY <1>1, <2>1, <2>2, <2>3 DEF IInv, LineHasOneOwner, OwnsLine, Types, Places
    <2>8. OneDeleter' /\ FindersFind' /\ EntryIsSet' /\ FreeIsUnused'
      BY <1>1, <2>1, <2>2, <2>3, HashAssumption DEF IInv, FindersFind, OneDeleter, EntryIsSet,
         FreeIsUnused, In, Holding, PurgeNext, Types, Places
    <2> QED
      BY <2>2, <2>5, <2>6, <2>7, <2>8 DEF IInv
  <1> QED
    BY <1>2, <1>3

\* An entry without references has no holder and no finder.
LEMMA Unreferenced ==
  ASSUME IInv, NEW e \in Entries, entry[e].ref = 0
  PROVE  /\ Holders(e) = {} /\ ~InLine(e) /\ entry[e].purgeDisabled = 0
         /\ \A t \in Threads : at[t].entry = e => at[t].pc \notin Holding /\ ~OwnsLine(t)
  <1>1. Holders(e) = {} /\ ~InLine(e)
    BY HeldIsCounted
  <1>2. Finders(e) = {}
    BY <1>1 DEF Holders, Finders, Holding
  <1>3. Cardinality(Finders(e)) = 0
    BY <1>2, FS_EmptySet
  <1> QED
    BY <1>1, <1>3 DEF IInv, FindersAreCounted, Holders, Holding, OwnsLine

LEMMA BeginInsertStep ==
  ASSUME IInv, NEW t \in Threads, NEW c \in Contexts, BeginInsert(t, c)
  PROVE  IInv'
  <1>1. PICK f \in Free :
          /\ entry' = [entry EXCEPT ![f] = [FreeEntry EXCEPT !.ref = 1, !.context = c]]
          /\ at' = [at EXCEPT ![t] = [pc |-> "reference", op |-> "insert",
                                      entry |-> f, context |-> c]]
    BY DEF BeginInsert
  <1> DEFINE r == [pc |-> "reference", op |-> "insert", entry |-> f, context |-> c]
             new == [FreeEntry EXCEPT !.ref = 1, !.context = c]
  <1>2. Types /\ f \in Entries /\ entry[f] \in Records /\ r \in Places
    BY DEF IInv, Types, Free, Places
  <1>3. entry[f].ref = 0 /\ \A u \in Threads : at[u].entry = f => at[u].pc # "delete"
    BY DEF IInv, FreeIsUnused, Free, In
  <1>4. /\ ~InLine(f) /\ entry[f].purgeDisabled = 0
        /\ \A u \in Threads : at[u].entry = f => ~OwnsLine(u)
    BY <1>2, <1>3, Unreferenced
  <1>5. new \in Records /\ new.ref = 1 /\ new.purgeDisabled = 0 /\ new.context = c
    <2>1. FreeEntry \in Records /\ FreeEntry.purgeDisabled = 0
      BY DEF FreeEntry, Records
    <2>2. new = [[FreeEntry EXCEPT !.ref = 1] EXCEPT !.context = c]
      OBVIOUS
    <2>3. [FreeEntry EXCEPT !.ref = 1] \in Records
      BY <2>1 DEF Records
    <2> QED
      BY <2>1, <2>2, <2>3 DEF Records
  <1>6. chain' = chain /\ \A e : InLine(e)' = InLine(e)
    BY DEF BeginInsert, InLine
  <1>7. entry' \in [Entries -> Records] /\ \A e \in Entries : entry'[e] = IF e = f THEN new ELSE entry[e]
    BY <1>1, <1>2, <1>5 DEF Types
  <1> HIDE DEF new
  <1>8. Types'
    BY <1>1, <1>2, <1>6, <1>7 DEF Types, BeginInsert
  <1>9. RefsAreExact' /\ FindersAreCounted'
    <2>1. ASSUME NEW e \in Entries
          PROVE  /\ entry'[e].ref - entry[e].ref = HoldsAt(r, e) - HoldsAt(at[t], e)
                                                   + LineAt(e)' - LineAt(e)
                 /\ entry'[e].purgeDisabled - entry[e].purgeDisabled
                      = FindsAt(r, e) - FindsAt(at[t], e)
      <3>1. /\ HoldsAt(at[t], e) = 0 /\ FindsAt(r, e) = 0 /\ FindsAt(at[t], e) = 0
            /\ HoldsAt(r, e) = IF e = f THEN 1 ELSE 0
        BY DEF BeginInsert, HoldsAt, FindsAt, Holding
      <3>2. LineAt(e)' = LineAt(e) /\ LineAt(e) \in Int /\ entry[e] \in Records
        BY <1>2, <1>6 DEF LineAt, Types
      <3> QED
        BY <1>3, <1>4, <1>5, <1>7, <3>1, <3>2 DEF Records
    <2> QED
      BY <1>1, <1>2, <1>8, <2>1, CountsFollow
  <1>10. NoEntryTwice' /\ LineHasOneOwner'
    BY <1>1, <1>2, <1>4, <1>6 DEF IInv, NoEntryTwice, LineHasOneOwner, OwnsLine, Types
  <1>11. OneDeleter' /\ FindersFind'
    BY <1>1, <1>2, <1>3, <1>7 DEF IInv, FindersFind, OneDeleter, In, BeginInsert, Types
  <1>12. EntryIsSet' /\ FreeIsUnused'
    BY <1>1, <1>2, <1>5, <1>7, HashAssumption DEF IInv, EntryIsSet, FreeIsUnused, In, Holding,
       BeginInsert, Types
  <1> QED
    BY <1>8, <1>9, <1>10, <1>11, <1>12 DEF IInv

LEMMA LocateStep ==
  ASSUME IInv, NEW t \in Threads, NEW k \in Keys, Locate(t, k)
  PROVE  IInv'
  <1>1. PICK f \in {chain[i] : i \in First(k)} :
          /\ entry' = [entry EXCEPT ![f].ref = @ + 1, ![f].purgeDisabled = @ + 1]
          /\ at' = [at EXCEPT ![t] = [pc |-> "apply", op |-> "find", entry |-> f,
                                      context |-> entry[f].context]]
    BY DEF Locate
  <1> DEFINE r == [pc |-> "apply", op |-> "find", entry |-> f, context |-> entry[f].context]
             new == [entry[f] EXCEPT !.ref = @ + 1, !.purgeDisabled = @ + 1]
  <1>2. Types /\ InLine(f)
    BY DEF First, IInv, InLine
  <1>3. /\ f \in Entries /\ entry[f].ref > 0 /\ entry[f] \in Records
        /\ entry[f].context \in Contexts
        /\ \A u \in Threads : at[u].entry = f => at[u].pc # "delete" /\ ~OwnsLine(u)
    BY <1>2, LinkedEntry
  <1>4. /\ new \in Records /\ new.ref = entry[f].ref + 1 /\ new.context = entry[f].context
        /\ new.purgeDisabled = entry[f].purgeDisabled + 1
    <2> DEFINE referenced == [entry[f] EXCEPT !.ref = @ + 1]
    <2>1. /\ referenced \in Records /\ referenced.ref = entry[f].ref + 1
          /\ referenced.context = entry[f].context
          /\ referenced.purgeDisabled = entry[f].purgeDisabled
      BY <1>3 DEF Records
    <2>2. new = [referenced EXCEPT !.purgeDisabled = @ + 1]
      BY <1>3 DEF Records
    <2> HIDE DEF referenced, new
    <2> QED
      BY <2>1, <2>2 DEF Records
  <1>5. entry' \in [Entries -> Records] /\ \A e \in Entries : entry'[e] = IF e = f THEN new ELSE entry[e]
    BY <1>1, <1>2, <1>3, <1>4 DEF Types
  <1> HIDE DEF new
  <1>6. at' = [at EXCEPT ![t] = r] /\ r \in Places
    BY <1>1, <1>3 DEF Places
  <1>7. chain' = chain /\ \A e : InLine(e)' = InLine(e)
    BY DEF Locate, InLine
  <1>8. Types'
    BY <1>2, <1>5, <1>6, <1>7 DEF Types, Locate
  <1>9. RefsAreExact' /\ FindersAreCounted'
    <2>1. ASSUME NEW e \in Entries
          PROVE  /\ entry'[e].ref - entry[e].ref = HoldsAt(r, e) - HoldsAt(at[t], e)
                                                   + LineAt(e)' - LineAt(e)
                 /\ entry'[e].purgeDisabled - entry[e].purgeDisabled
                      = FindsAt(r, e) - FindsAt(at[t], e)
      <3>1. /\ HoldsAt(at[t], e) = 0 /\ FindsAt(at[t], e) = 0
            /\ HoldsAt(r, e) = (IF e = f THEN 1 ELSE 0)
            /\ FindsAt(r, e) = (IF e = f THEN 1 ELSE 0)
        BY DEF Locate, HoldsAt, FindsAt, Holding
      <3>2. LineAt(e)' = LineAt(e) /\ LineAt(e) \in Int /\ entry[e] \in Records
        BY <1>2, <1>7 DEF LineAt, Types
      <3> QED
        BY <1>4, <1>5, <3>1, <3>2 DEF Records
    <2> QED
      BY <1>6, <1>8, <2>1, CountsFollow
  <1>10. NoEntryTwice' /\ LineHasOneOwner'
    BY <1>2, <1>6, <1>7 DEF IInv, NoEntryTwice, LineHasOneOwner, OwnsLine, Types
  <1>11. OneDeleter' /\ FindersFind'
    BY <1>2, <1>3, <1>5, <1>6, HashAssumption DEF IInv, FindersFind, OneDeleter, EntryIsSet,
       In, Holding, Locate, Types
  <1>12. EntryIsSet' /\ FreeIsUnused'
    BY <1>2, <1>3, <1>4, <1>5, <1>6, HashAssumption DEF IInv, EntryIsSet, FreeIsUnused, In,
       Holding,
       Locate, Types
  <1> QED
    BY <1>8, <1>9, <1>10, <1>11, <1>12 DEF IInv

LEMMA DereferenceEntryStep ==
  ASSUME IInv, NEW t \in Threads, DereferenceEntry(t)
  PROVE  IInv'
  <1> DEFINE f == at[t].entry
             r == IF entry[f].ref = 1 THEN [at[t] EXCEPT !.pc = "delete"]
                  ELSE [at[t] EXCEPT !.pc = AfterDereference(t), !.entry = None]
             new == [entry[f] EXCEPT !.ref = @ - 1]
  <1>1. Types /\ at[t] \in Places /\ f \in Entries /\ entry[f] \in Records
    BY DEF IInv, Types, EntryIsSet, Holding, DereferenceEntry
  <1>2. /\ entry[f].ref > 0 /\ entry[f].context # None
        /\ entry[f].ref = 1 => Holders(f) = {t} /\ ~InLine(f)
    <2>1. t \in Holders(f)
      BY DEF Holders, Holding, DereferenceEntry
    <2> QED
      BY <1>1, <2>1, HeldIsCounted DEF IInv, FreeIsUnused
  <1>3. at' = [at EXCEPT ![t] = r] /\ r \in Places /\ r.pc \notin Holding
    BY <1>1 DEF DereferenceEntry, AfterDereference, Types, Places, Holding
  <1>4. /\ new \in Records /\ new.ref = entry[f].ref - 1 /\ new.context = entry[f].context
        /\ new.purgeDisabled = entry[f].purgeDisabled
    BY <1>1 DEF Records
  <1>5. entry' \in [Entries -> Records] /\ \A e \in Entries : entry'[e] = IF e = f THEN new ELSE entry[e]
    BY <1>1, <1>4 DEF Types, DereferenceEntry
  <1>6. chain' = chain /\ \A e : InLine(e)' = InLine(e)
    BY DEF DereferenceEntry, InLine
  <1>7. /\ at[t].pc = "dereference" /\ r.pc # "dereference"
        /\ r.pc = "delete" <=> entry[f].ref = 1
        /\ r.pc = "delete" => r.entry = f
        /\ r.pc # "delete" => r.entry = None
        /\ r.pc \in {"delete", "return", "dereferenceHash"}
    BY <1>1 DEF DereferenceEntry, AfterDereference, Places
  <1> HIDE DEF r, new
  <1>8. Types'
    <2>1. UNCHANGED <<chain, context, hashRef, own>>
      BY DEF DereferenceEntry
    <2>2. at' \in [Threads -> Places]
      BY <1>1, <1>3 DEF Types
    <2> QED
      BY <1>1, <1>5, <2>1, <2>2 DEF Types
  <1>9. RefsAreExact' /\ FindersAreCounted'
    <2>1. ASSUME NEW e \in Entries
          PROVE  /\ entry'[e].ref - entry[e].ref = HoldsAt(r, e) - HoldsAt(at[t], e)
                                                   + LineAt(e)' - LineAt(e)
                 /\ entry'[e].purgeDisabled - entry[e].purgeDisabled
                      = FindsAt(r, e) - FindsAt(at[t], e)
      <3>1. /\ HoldsAt(r, e) = 0 /\ FindsAt(r, e) = 0 /\ FindsAt(at[t], e) = 0
            /\ HoldsAt(at[t], e) = (IF e = f THEN 1 ELSE 0)
        BY <1>3, <1>7 DEF HoldsAt, FindsAt, Holding
      <3>2. LineAt(e)' = LineAt(e) /\ LineAt(e) \in Int /\ entry[e] \in Records
        BY <1>1, <1>6 DEF LineAt, Types
      <3> QED
        BY <1>4, <1>5, <3>1, <3>2 DEF Records
    <2> QED
      BY <1>3, <1>8, <2>1, CountsFollow
  <1>10. NoEntryTwice' /\ LineHasOneOwner'
    BY <1>1, <1>3, <1>6, <1>7 DEF IInv, NoEntryTwice, LineHasOneOwner, OwnsLine, Types
  <1>11. OneDeleter' /\ FindersFind'
    <2>1. \A u \in In({"delete"}) : at[u].entry # f /\ at[u].entry \in Entries /\ u # t
      BY <1>2, <1>7 DEF IInv, OneDeleter, EntryIsSet, In
    <2> QED
      BY <1>1, <1>3, <1>4, <1>5, <1>7, <2>1 DEF IInv, FindersFind, OneDeleter, In, Types, Records
  <1>12. EntryIsSet'
    BY <1>1, <1>3, <1>7, HashAssumption DEF IInv, EntryIsSet, Holding, Types
  <1>13. FreeIsUnused'
    BY <1>1, <1>2, <1>3, <1>4, <1>5, <1>7 DEF IInv, FreeIsUnused, In, Types
  <1> QED
    BY <1>8, <1>9, <1>10, <1>11, <1>12, <1>13 DEF IInv

LEMMA DeleteEntryStep ==
  ASSUME IInv, NEW t \in Threads, DeleteEntry(t)
  PROVE  IInv'
  <1> DEFINE f == at[t].entry
             r == [at[t] EXCEPT !.pc = AfterDereference(t), !.entry = None]
  <1>1. Types /\ at[t] \in Places /\ f \in Entries /\ entry[f] \in Records /\ entry[f].ref = 0
    BY DEF IInv, Types, EntryIsSet, OneDeleter, In, DeleteEntry
  <1>2. entry[f].purgeDisabled = 0
    BY <1>1, Unreferenced
  <1>3. at' = [at EXCEPT ![t] = r] /\ r \in Places
    BY <1>1 DEF DeleteEntry, AfterDereference, Types, Places
  <1>4. FreeEntry \in Records /\ FreeEntry.ref = 0 /\ FreeEntry.purgeDisabled = 0
    BY DEF Records, FreeEntry
  <1>5. /\ entry' \in [Entries -> Records]
        /\ \A e \in Entries : entry'[e] = IF e = f THEN FreeEntry ELSE entry[e]
    BY <1>1, <1>4 DEF Types, DeleteEntry
  <1>6. chain' = chain /\ \A e : InLine(e)' = InLine(e)
    BY DEF DeleteEntry, InLine
  <1>7. at[t].pc = "delete" /\ r.entry = None /\ r.pc \in {"return", "dereferenceHash"}
    BY <1>1 DEF DeleteEntry, AfterDereference, Places
  <1>8. context' \in [Contexts -> Int]
    BY <1>1, CountedTypes DEF Types, DeleteEntry
  <1> HIDE DEF r
  <1>9. Types'
    <2>1. UNCHANGED <<hashRef, own>> /\ at' \in [Threads -> Places]
      BY <1>1, <1>3 DEF Types, DeleteEntry
    <2> QED
      BY <1>1, <1>5, <1>6, <1>8, <2>1 DEF Types
  <1>10. RefsAreExact' /\ FindersAreCounted'
    <2>1. ASSUME NEW e \in Entries
          PROVE  /\ entry'[e].ref - entry[e].ref = HoldsAt(r, e) - HoldsAt(at[t], e)
                                                   + LineAt(e)' - LineAt(e)
                 /\ entry'[e].purgeDisabled - entry[e].purgeDisabled
                      = FindsAt(r, e) - FindsAt(at[t], e)
      <3>1. /\ HoldsAt(r, e) = 0 /\ FindsAt(r, e) = 0 /\ FindsAt(at[t], e) = 0
            /\ HoldsAt(at[t], e) = 0
        BY <1>7 DEF HoldsAt, FindsAt, Holding
      <3>2. LineAt(e)' = LineAt(e) /\ LineAt(e) \in Int /\ entry[e] \in Records
        BY <1>1, <1>6 DEF LineAt, Types
      <3>3. /\ entry'[e].ref = entry[e].ref /\ entry'[e].purgeDisabled = entry[e].purgeDisabled
            /\ entry[e].ref \in Int /\ entry[e].purgeDisabled \in Int
        BY <1>1, <1>2, <1>4, <1>5, <3>2 DEF Records
      <3> QED
        BY <3>1, <3>2, <3>3
    <2> QED
      BY <1>3, <1>9, <2>1, CountsFollow
  <1>11. NoEntryTwice' /\ LineHasOneOwner'
    BY <1>1, <1>3, <1>6, <1>7 DEF IInv, NoEntryTwice, LineHasOneOwner, OwnsLine, Types
  <1>12. OneDeleter' /\ FindersFind'
    BY <1>1, <1>3, <1>4, <1>5, <1>7 DEF IInv, FindersFind, OneDeleter, EntryIsSet, In, Types
  <1>13. EntryIsSet'
    BY <1>1, <1>3, <1>7, HashAssumption DEF IInv, EntryIsSet, Holding, Types
  <1>14. FreeIsUnused'
    <2>1. \A u \in In({"delete"})' : u # t /\ u \in In({"delete"}) /\ at'[u] = at[u]
      BY <1>1, <1>3, <1>7 DEF In, Types
    <2>2. \A u \in In({"delete"})' : at'[u].entry # f
      BY <1>7, <2>1 DEF IInv, OneDeleter, In
    <2> SUFFICES ASSUME NEW e \in Entries, entry'[e].context = None
                 PROVE  entry'[e].ref = 0 /\ \A u \in In({"delete"})' : at'[u].entry # e
      BY DEF FreeIsUnused
    <2>3. CASE e = f
      BY <1>1, <1>4, <1>5, <2>2, <2>3
    <2>4. CASE e # f
      BY <1>5, <2>1, <2>4 DEF IInv, FreeIsUnused
    <2> QED
      BY <2>3, <2>4
  <1> QED
    BY <1>9, <1>10, <1>11, <1>12, <1>13, <1>14 DEF IInv

LEMMA NextIInv ==
  ASSUME IInv, [Next]_vars
  PROVE  IInv'
  <1>1. ASSUME NEW t \in Threads, NEW c \in Contexts, CreateContext(t, c) \/ DropContext(t, c)
        PROVE  IInv'
    <2>1. UNCHANGED <<chain, entry, at, hashRef>> /\ Types
      BY <1>1 DEF CreateContext, DropContext, IInv
    <2>2. context' \in [Contexts -> Int]
      BY <1>1, <2>1 DEF CreateContext, DropContext, Types
    <2>3. own[t] \in [Contexts -> Nat] /\ own[t][c] \in Nat
      BY <2>1 DEF Types
    <2>4. \E n \in Nat : own' = [own EXCEPT ![t] = [own[t] EXCEPT ![c] = n]]
      <3>1. CASE CreateContext(t, c)
        <4>1. own[t][c] + 1 \in Nat /\ own' = [own EXCEPT ![t] = [own[t] EXCEPT ![c] = own[t][c] + 1]]
          BY <2>3, <3>1 DEF CreateContext, Gain
        <4> QED
          BY <4>1
      <3>2. CASE DropContext(t, c)
        <4>1. own[t][c] - 1 \in Nat /\ own' = [own EXCEPT ![t] = [own[t] EXCEPT ![c] = own[t][c] - 1]]
          BY <2>3, <3>2 DEF DropContext
        <4> QED
          BY <4>1
      <3> QED
        BY <1>1, <3>1, <3>2
    <2>5. own' \in [Threads -> [Contexts -> Nat]]
      BY <2>1, <2>3, <2>4 DEF Types
    <2> QED
      BY <2>1, <2>2, <2>5, Elsewhere DEF Types
  <1>2. ASSUME NEW t \in Threads, NEW c \in Contexts, BeginInsert(t, c)
        PROVE  IInv'
    BY <1>2, BeginInsertStep
  <1>3. ASSUME NEW t \in Threads, NEW k \in Keys, Locate(t, k) \/ Unlink(t, k)
        PROVE  IInv'
    BY <1>3, LocateStep, UnlinkStep
  <1>4. ASSUME NEW t \in Threads, BeginPurge(t) \/ Step(t)
        PROVE  IInv'
    BY <1>4, BeginPurgeStep, ReferenceContextStep, LinkStep, ApplyStep, EnablePurgeStep,
       PurgeNextStep, WaitForFindersStep, SetFunctionStep, DereferenceEntryStep,
       DeleteEntryStep, ReturnStep, DereferenceHashStep DEF Step
  <1>5. CASE UNCHANGED vars
    BY <1>5, Elsewhere DEF vars, IInv, Types
  <1> QED
    BY <1>1, <1>2, <1>3, <1>4, <1>5 DEF Next

-----------------------------------------------------------------------------
(* What it is for *)

LEMMA IInvImpliesHashInvariant == IInv => HashInvariant
  <1> SUFFICES ASSUME IInv PROVE HashInvariant
    OBVIOUS
  <1>1. TypeOK
    <2>1. ASSUME NEW e \in Entries
          PROVE  /\ entry[e].ref \in 0..(Cardinality(Threads) + 1)
                 /\ entry[e].purgeDisabled \in 0..Cardinality(Threads)
      <3>1. /\ IsFiniteSet(Threads) /\ Cardinality(Threads) \in Nat
            /\ Holders(e) \subseteq Threads /\ Finders(e) \subseteq Threads
        BY HashAssumption, FS_CardinalityType DEF Holders, Finders
      <3>2. Cardinality(Holders(e)) <= Cardinality(Threads)
        BY <3>1, FS_Subset
      <3>3. Cardinality(Finders(e)) <= Cardinality(Threads)
        BY <3>1, FS_Subset
      <3>4. Cardinality(Holders(e)) \in Nat /\ Cardinality(Finders(e)) \in Nat
        BY HoldersFinite
      <3>5. /\ entry[e].ref = Cardinality(Holders(e)) + (IF InLine(e) THEN 1 ELSE 0)
            /\ entry[e].purgeDisabled = Cardinality(Finders(e))
        BY DEF IInv, RefsAreExact, FindersAreCounted
      <3> QED
        BY <3>1, <3>2, <3>3, <3>4, <3>5
    <2>2. \A e \in Entries : entry[e] \in Records
      BY DEF IInv, Types
    <2>3. entry \in [Entries -> [ref : 0..(Cardinality(Threads) + 1),
                                 context : Contexts \cup {None},
                                 purgeDisabled : 0..Cardinality(Threads),
                                 delete : BOOLEAN]]
      BY <2>1, <2>2 DEF IInv, Types, Records
    <2> QED
      BY <2>3 DEF IInv, Types, TypeOK, Places
  <1>2. ASSUME NEW t \in In(Holding)
        PROVE  entry[at[t].entry].ref > 0
    <2>1. at[t].entry \in Entries /\ t \in Holders(at[t].entry)
      BY DEF IInv, EntryIsSet, In, Holders
    <2> QED
      BY <2>1, HeldIsCounted
  <1>3. ASSUME NEW t \in In({"delete"})
        PROVE  /\ at[t].entry \notin ToSet(chain)
               /\ \A u \in Threads \ {t} : at[u].entry # at[t].entry
    <2>1. at[t].entry \in Entries /\ entry[at[t].entry].ref = 0
      BY DEF IInv, EntryIsSet, OneDeleter, In
    <2>2. /\ ~InLine(at[t].entry)
          /\ \A u \in Threads : at[u].entry = at[t].entry => at[u].pc \notin Holding
      BY <2>1, Unreferenced
    <2>3. at[t].entry \notin ToSet(chain)
      BY <2>2 DEF ToSet, InLine
    <2> QED
      BY <2>1, <2>2, <2>3 DEF IInv, EntryIsSet, OneDeleter, In
  <1>4. \A e \in ToSet(chain) : entry[e].ref > 0
    BY LinkedEntry DEF ToSet, InLine
  <1> QED
    BY <1>1, <1>2, <1>3, <1>4 DEF HashInvariant, EntriesOutliveTheirUsers, Holding

\* The references of a hash entry are exactly those that hold it: no thread
\* looks at an entry that has been freed, and an entry is deleted once, however
\* searches, removals and a purge meet.
THEOREM HashIsSafe == Spec => []HashInvariant
  <1>1. Init => IInv
    BY InitIInv
  <1>2. IInv /\ [Next]_vars => IInv'
    BY NextIInv
  <1>3. IInv => HashInvariant
    BY IInvImpliesHashInvariant
  <1> QED
    BY <1>1, <1>2, <1>3, PTL DEF Spec

-----------------------------------------------------------------------------
(***************************************************************************)
(* The references of the contexts and of the hash, and ContextTable.       *)
(***************************************************************************)

Inserting(r) == r.pc \in {"reference", "link"}

\* Those that keep a reference of a context: its users, once for each reference,
\* its entries from the reference of the insertion to the deletion of the entry,
\* and the searches between the function and the return.
Tokens(c) == {p \in Threads \X (Nat \ {0}) : p[2] <= own[p[1]][c]}
Linked(c) == {e \in Entries : InLine(e) /\ entry[e].context = c}
Found(c)  == {t \in In({"enable", "dereference", "delete", "return"}) :
                 at[t].op = "find" /\ at[t].context = c}

\* Where a thread has the reference of the hash that an insertion took.
OwnsHash(r) == \/ r.pc \in {"reference", "link", "waitForFinders", "setFunction",
                            "dereferenceHash"}
               \/ r.pc \in {"dereference", "delete"} /\ r.op # "find"
HashOwners == {t \in Threads : OwnsHash(at[t])}

NeedsContext(r) == \/ r.pc \in {"reference", "link", "apply", "enable"}
                   \/ r.pc \in {"dereference", "delete", "return"} /\ r.op = "find"
PlaceFits(r) ==
  /\ Inserting(r) => r.op = "insert"
  /\ r.pc = "return" => r.op = "find"
  /\ r.pc \in {"purge", "waitForFinders", "setFunction", "dereferenceHash"}
       => r.op \in {"remove", "purge"}
  /\ r.pc \in {"dereference", "delete"} => r.op \in {"find", "remove", "purge"}
  /\ NeedsContext(r) => r.context \in Contexts
PlacesFit == \A t \in Threads :
  /\ PlaceFits(at[t])
  /\ at[t].pc \in {"reference", "link", "apply"} =>
       entry[at[t].entry].context = at[t].context
InserterIsAlone == \A t \in Threads : Inserting(at[t]) =>
  \A u \in Threads : at[u].entry = at[t].entry => u = t
InserterKeepsAReference == \A t \in Threads : Inserting(at[t]) => own[t][at[t].context] > 0
RemovalIsCertain == \A e \in Entries : entry[e].context # None =>
  \/ entry[e].delete = TRUE \/ InLine(e)
  \/ \E t \in Threads : /\ Inserting(at[t]) \/ at[t].pc \in {"waitForFinders", "setFunction"}
                        /\ at[t].entry = e

ContextIsExact == \A c \in Contexts :
  /\ IsFiniteSet(Tokens(c))
  /\ context[c] = Cardinality(Tokens(c)) + Cardinality(Linked(c)) + Cardinality(Linking(c))
                    + Cardinality(Removed(c)) + Cardinality(Found(c))
HashRefIsExact == hashRef = 1 + Len(chain) + Cardinality(HashOwners)

\* The inductive invariant: every reference of a context and of the hash has one
\* owner, and an entry gives its reference back when it is deleted.
CInv == /\ PlacesFit /\ InserterIsAlone /\ InserterKeepsAReference /\ RemovalIsCertain
        /\ ContextIsExact /\ HashRefIsExact

-----------------------------------------------------------------------------
(* The sets that are counted *)

LEMMA CountsAreFinite ==
  ASSUME NEW c
  PROVE  /\ IsFiniteSet(Linked(c)) /\ IsFiniteSet(Linking(c)) /\ IsFiniteSet(Removed(c))
         /\ IsFiniteSet(Found(c)) /\ IsFiniteSet(Searching(c)) /\ IsFiniteSet(HashOwners)
         /\ Cardinality(Linked(c)) \in Nat /\ Cardinality(Linking(c)) \in Nat
         /\ Cardinality(Removed(c)) \in Nat /\ Cardinality(Found(c)) \in Nat
         /\ Cardinality(Searching(c)) \in Nat /\ Cardinality(HashOwners) \in Nat
  <1>1. IsFiniteSet(Entries) /\ IsFiniteSet(Threads)
    BY FS_Interval, HashAssumption DEF Entries
  <1>2. /\ IsFiniteSet(Linked(c)) /\ IsFiniteSet(Removed(c)) /\ IsFiniteSet(Linking(c))
        /\ IsFiniteSet(Found(c)) /\ IsFiniteSet(Searching(c)) /\ IsFiniteSet(HashOwners)
    <2>1. /\ Linked(c) \subseteq Entries /\ Removed(c) \subseteq Entries
          /\ Linking(c) \subseteq Threads /\ Found(c) \subseteq Threads
          /\ Searching(c) \subseteq Threads /\ HashOwners \subseteq Threads
      BY DEF Linked, Removed, Linking, Found, Searching, HashOwners, In
    <2> QED
      BY <1>1, <2>1, FS_Subset
  <1> QED
    BY <1>2, FS_CardinalityType

\* What a place adds to the counts of threads.
LinksAt(r, c) == IF r.pc = "link" /\ r.context = c THEN 1 ELSE 0
SearchesAt(r, c) == IF r.pc = "apply" /\ r.context = c THEN 1 ELSE 0
FoundAt(r, c) == IF /\ r.pc \in {"enable", "dereference", "delete", "return"}
                    /\ r.op = "find" /\ r.context = c THEN 1 ELSE 0
HashAt(r) == IF OwnsHash(r) THEN 1 ELSE 0

LEMMA PlacesCount ==
  ASSUME Types, NEW t \in Threads, NEW r, at' = [at EXCEPT ![t] = r], NEW c
  PROVE  /\ Cardinality(Linking(c)') = Cardinality(Linking(c)) + LinksAt(r, c) - LinksAt(at[t], c)
         /\ Cardinality(Searching(c)') =
              Cardinality(Searching(c)) + SearchesAt(r, c) - SearchesAt(at[t], c)
         /\ Cardinality(Found(c)') = Cardinality(Found(c)) + FoundAt(r, c) - FoundAt(at[t], c)
         /\ Cardinality(HashOwners') = Cardinality(HashOwners) + HashAt(r) - HashAt(at[t])
  <1> DEFINE L == r.pc = "link" /\ r.context = c
             S == r.pc = "apply" /\ r.context = c
             F == /\ r.pc \in {"enable", "dereference", "delete", "return"}
                  /\ r.op = "find" /\ r.context = c
             H == OwnsHash(r)
  <1>1. /\ t \in Linking(c) <=> at[t].pc = "link" /\ at[t].context = c
        /\ t \in Searching(c) <=> at[t].pc = "apply" /\ at[t].context = c
        /\ t \in Found(c) <=> /\ at[t].pc \in {"enable", "dereference", "delete", "return"}
                              /\ at[t].op = "find" /\ at[t].context = c
        /\ t \in HashOwners <=> OwnsHash(at[t])
    BY DEF Linking, Searching, Found, HashOwners, In
  <1>2. \A u \in Threads : at'[u] = IF u = t THEN r ELSE at[u]
    BY DEF Types
  <1>3. Linking(c)' = IF L THEN Linking(c) \cup {t} ELSE Linking(c) \ {t}
    BY <1>2 DEF Linking, In
  <1>4. Searching(c)' = IF S THEN Searching(c) \cup {t} ELSE Searching(c) \ {t}
    BY <1>2 DEF Searching, In
  <1>5. Found(c)' = IF F THEN Found(c) \cup {t} ELSE Found(c) \ {t}
    BY <1>2 DEF Found, In
  <1>6. HashOwners' = IF H THEN HashOwners \cup {t} ELSE HashOwners \ {t}
    BY <1>2 DEF HashOwners, OwnsHash
  <1>7. /\ L \in BOOLEAN /\ S \in BOOLEAN /\ F \in BOOLEAN /\ H \in BOOLEAN
        /\ IsFiniteSet(Linking(c)) /\ IsFiniteSet(Searching(c)) /\ IsFiniteSet(Found(c))
        /\ IsFiniteSet(HashOwners)
    BY CountsAreFinite DEF OwnsHash
  <1> HIDE DEF L, S, F, H
  <1>8. Cardinality(Linking(c)') = Cardinality(Linking(c))
          + (IF L THEN 1 ELSE 0) - (IF t \in Linking(c) THEN 1 ELSE 0)
    BY <1>3, <1>7, OneJoinsOrLeaves
  <1>9. Cardinality(Searching(c)') = Cardinality(Searching(c))
          + (IF S THEN 1 ELSE 0) - (IF t \in Searching(c) THEN 1 ELSE 0)
    BY <1>4, <1>7, OneJoinsOrLeaves
  <1>10. Cardinality(Found(c)') = Cardinality(Found(c))
           + (IF F THEN 1 ELSE 0) - (IF t \in Found(c) THEN 1 ELSE 0)
    BY <1>5, <1>7, OneJoinsOrLeaves
  <1>11. Cardinality(HashOwners') = Cardinality(HashOwners)
           + (IF H THEN 1 ELSE 0) - (IF t \in HashOwners THEN 1 ELSE 0)
    BY <1>6, <1>7, OneJoinsOrLeaves
  <1>12. /\ LinksAt(r, c) = (IF L THEN 1 ELSE 0)
         /\ LinksAt(at[t], c) = (IF t \in Linking(c) THEN 1 ELSE 0)
         /\ SearchesAt(r, c) = (IF S THEN 1 ELSE 0)
         /\ SearchesAt(at[t], c) = (IF t \in Searching(c) THEN 1 ELSE 0)
         /\ FoundAt(r, c) = (IF F THEN 1 ELSE 0)
         /\ FoundAt(at[t], c) = (IF t \in Found(c) THEN 1 ELSE 0)
         /\ HashAt(r) = (IF H THEN 1 ELSE 0)
         /\ HashAt(at[t]) = (IF t \in HashOwners THEN 1 ELSE 0)
    BY <1>1 DEF LinksAt, SearchesAt, FoundAt, HashAt, L, S, F, H
  <1> QED
    BY <1>8, <1>9, <1>10, <1>11, <1>12

\* The line and the removed entries of a step that neither links nor unlinks, nor
\* creates or deletes an entry.
LEMMA EntriesStay ==
  ASSUME Types, NEW t \in Threads, NEW r, at' = [at EXCEPT ![t] = r],
         UNCHANGED chain, \A e \in Entries : entry'[e].context = entry[e].context,
         Inserting(r) <=> Inserting(at[t]), Inserting(r) => r.entry = at[t].entry, NEW c
  PROVE  Linked(c)' = Linked(c) /\ Removed(c)' = Removed(c)
  <1>1. \A u \in Threads : at'[u] = IF u = t THEN r ELSE at[u]
    BY DEF Types
  <1>2. Linked(c)' = Linked(c)
    BY DEF Linked, InLine
  <1>3. \A e : (\E u \in In({"reference", "link"})' : at'[u].entry = e)
                 <=> (\E u \in In({"reference", "link"}) : at[u].entry = e)
    BY <1>1 DEF In, Inserting
  <1>4. ToSet(chain)' = ToSet(chain)
    OBVIOUS
  <1>5. Removed(c)' = {e \in Entries \ ToSet(chain)' : /\ entry'[e].context = c
                  /\ ~\E u \in In({"reference", "link"})' : at'[u].entry = e}
    BY DEF Removed
  <1>6. Removed(c)' = {e \in Entries \ ToSet(chain) : /\ entry[e].context = c
                  /\ ~\E u \in In({"reference", "link"}) : at[u].entry = e}
    BY <1>3, <1>4, <1>5
  <1> QED
    BY <1>2, <1>6 DEF Removed

\* A user gains or gives back a reference.
LEMMA TokensMove ==
  ASSUME Types, NEW t \in Threads, NEW c \in Contexts, NEW n \in Int,
         n = own[t][c] + 1 \/ (n = own[t][c] - 1 /\ own[t][c] > 0),
         own' = [own EXCEPT ![t][c] = n], NEW d \in Contexts, IsFiniteSet(Tokens(d))
  PROVE  /\ IsFiniteSet(Tokens(d)')
         /\ Cardinality(Tokens(d)') = Cardinality(Tokens(d)) + (IF d = c THEN n - own[t][c] ELSE 0)
  <1>1. /\ own[t][c] \in Nat /\ n \in Nat
        /\ \A u \in Threads : own'[u][d] = IF u = t /\ d = c THEN n ELSE own[u][d]
        /\ \A u \in Threads : own[u][d] \in Nat
    BY DEF Types
  <1>2. CASE d # c
    <2>1. Tokens(d)' = Tokens(d)
      BY <1>1, <1>2 DEF Tokens
    <2> QED
      BY <1>2, <2>1, FS_CardinalityType
  <1>3. CASE d = c /\ n = own[t][c] + 1
    <2>1. Tokens(c)' = Tokens(c) \cup {<<t, n>>} /\ <<t, n>> \notin Tokens(c)
      BY <1>1, <1>3 DEF Tokens
    <2>2. IsFiniteSet(Tokens(c)') /\ Cardinality(Tokens(c)') = Cardinality(Tokens(c)) + 1
      BY <1>3, <2>1, FS_AddElement
    <2> QED
      BY <1>1, <1>3, <2>2
  <1>4. CASE d = c /\ n = own[t][c] - 1 /\ own[t][c] > 0
    <2>1. Tokens(c)' = Tokens(c) \ {<<t, own[t][c]>>} /\ <<t, own[t][c]>> \in Tokens(c)
      BY <1>1, <1>4 DEF Tokens
    <2> DEFINE T == Tokens(c)
               x == <<t, own[t][c]>>
    <2>4. IsFiniteSet(T) /\ x \in T
      BY <1>4, <2>1
    <2> HIDE DEF T, x
    <2>5. IsFiniteSet(T \ {x}) /\ Cardinality(T \ {x}) = Cardinality(T) - 1
      BY <2>4, FS_RemoveElement
    <2>2. IsFiniteSet(Tokens(c)') /\ Cardinality(Tokens(c)') = Cardinality(Tokens(c)) - 1
      BY <2>1, <2>5 DEF T, x
    <2>3. Cardinality(Tokens(c)) \in Nat
      BY <1>4, FS_CardinalityType
    <2> QED
      BY <1>1, <1>4, <2>2, <2>3
  <1> QED
    BY <1>2, <1>3, <1>4

-----------------------------------------------------------------------------
(* What the counts say *)

Exact(c) == /\ IsFiniteSet(Tokens(c))
            /\ context[c] = Cardinality(Tokens(c)) + Cardinality(Linked(c))
                              + Cardinality(Linking(c)) + Cardinality(Removed(c))
                              + Cardinality(Found(c))

\* The sizes of the sets of owners before and after a step.
Changes(c, T, K, L, R, F, S) ==
  /\ IsFiniteSet(Tokens(c)')
  /\ Cardinality(Tokens(c)') = Cardinality(Tokens(c)) + T
  /\ Cardinality(Linked(c)') = Cardinality(Linked(c)) + K
  /\ Cardinality(Linking(c)') = Cardinality(Linking(c)) + L
  /\ Cardinality(Removed(c)') = Cardinality(Removed(c)) + R
  /\ Cardinality(Found(c)') = Cardinality(Found(c)) + F
  /\ Cardinality(Searching(c)') = Cardinality(Searching(c)) + S

\* The count stays exact when the context is referenced as owners come and go; the
\* table's count sees neither the insertion before its link nor the removal.
LEMMA OneContext ==
  ASSUME Types, Types', CInv, NEW c \in Contexts, NEW T \in Int, NEW K \in Int, NEW L \in Int,
         NEW R \in Int, NEW F \in Int, NEW S \in Int, Changes(c, T, K, L, R, F, S),
         context'[c] = context[c] + T + K + L + R + F
  PROVE  Exact(c)' /\ RefsOf'[c] = RefsOf[c] + T + K + F + S
  <1>1. Exact(c)
    BY DEF CInv, ContextIsExact, Exact
  <1>2. /\ Cardinality(Tokens(c)) \in Nat /\ Cardinality(Linked(c)) \in Nat
        /\ Cardinality(Linking(c)) \in Nat /\ Cardinality(Removed(c)) \in Nat
        /\ Cardinality(Found(c)) \in Nat /\ Cardinality(Searching(c)) \in Nat
    BY <1>1, CountsAreFinite, FS_CardinalityType DEF Exact
  <1>3. /\ RefsOf[c] = context[c] + Cardinality(Searching(c)) - Cardinality(Linking(c))
                         - Cardinality(Removed(c))
        /\ RefsOf'[c] = context'[c] + Cardinality(Searching(c)') - Cardinality(Linking(c)')
                          - Cardinality(Removed(c)')
    BY DEF RefsOf
  <1>4. context[c] \in Int
    BY DEF Types
  <1>5. Exact(c)'
    BY <1>1, <1>2, <1>4 DEF Exact, Changes
  <1>6. RefsOf'[c] = RefsOf[c] + T + K + F + S
    BY <1>2, <1>3, <1>4 DEF Changes
  <1> QED
    BY <1>5, <1>6

\* What the table counts, and that it counts its entries and users.
LEMMA TableCounts ==
  ASSUME Types, CInv, NEW c \in Contexts
  PROVE  /\ RefsOf[c] = Cardinality(Tokens(c)) + Cardinality(Linked(c)) + Cardinality(Found(c))
                          + Cardinality(Searching(c))
         /\ RefsOf[c] \in Nat /\ context[c] \in Nat
         /\ RefsOf[c] = 0 => Tokens(c) = {} /\ Linked(c) = {} /\ Found(c) = {}
         /\ context[c] = 0 => /\ Tokens(c) = {} /\ Linked(c) = {} /\ Found(c) = {}
                              /\ Linking(c) = {} /\ Removed(c) = {}
  <1>1. Exact(c)
    BY DEF CInv, ContextIsExact, Exact
  <1>2. /\ Cardinality(Tokens(c)) \in Nat /\ Cardinality(Linked(c)) \in Nat
        /\ Cardinality(Linking(c)) \in Nat /\ Cardinality(Removed(c)) \in Nat
        /\ Cardinality(Found(c)) \in Nat /\ Cardinality(Searching(c)) \in Nat
    BY <1>1, CountsAreFinite, FS_CardinalityType DEF Exact
  <1>3. RefsOf[c] = context[c] + Cardinality(Searching(c)) - Cardinality(Linking(c))
                      - Cardinality(Removed(c))
    BY DEF RefsOf
  <1>4. /\ Cardinality(Tokens(c)) = 0 => Tokens(c) = {}
        /\ Cardinality(Linked(c)) = 0 => Linked(c) = {}
        /\ Cardinality(Found(c)) = 0 => Found(c) = {}
        /\ Cardinality(Linking(c)) = 0 => Linking(c) = {}
        /\ Cardinality(Removed(c)) = 0 => Removed(c) = {}
    BY <1>1, CountsAreFinite, FS_EmptySet DEF Exact
  <1>5. context[c] = Cardinality(Tokens(c)) + Cardinality(Linked(c)) + Cardinality(Linking(c))
                       + Cardinality(Removed(c)) + Cardinality(Found(c))
    BY <1>1 DEF Exact
  <1>6. /\ RefsOf[c] = Cardinality(Tokens(c)) + Cardinality(Linked(c)) + Cardinality(Found(c))
                         + Cardinality(Searching(c))
        /\ RefsOf[c] \in Nat /\ context[c] \in Nat
    BY <1>2, <1>3, <1>5
  <1>7. RefsOf[c] = 0 => Tokens(c) = {} /\ Linked(c) = {} /\ Found(c) = {}
    BY <1>2, <1>4, <1>6
  <1>8. context[c] = 0 => /\ Tokens(c) = {} /\ Linked(c) = {} /\ Found(c) = {}
                          /\ Linking(c) = {} /\ Removed(c) = {}
    <2>1. context[c] = 0 => /\ Cardinality(Tokens(c)) = 0 /\ Cardinality(Linked(c)) = 0
                            /\ Cardinality(Found(c)) = 0 /\ Cardinality(Linking(c)) = 0
                            /\ Cardinality(Removed(c)) = 0
      <3> DEFINE a == Cardinality(Tokens(c))
                 b == Cardinality(Linked(c))
                 d == Cardinality(Found(c))
                 e == Cardinality(Linking(c))
                 f == Cardinality(Removed(c))
      <3>1. /\ a \in Nat /\ b \in Nat /\ d \in Nat /\ e \in Nat /\ f \in Nat
            /\ context[c] = a + b + e + f + d
        BY <1>2, <1>5
      <3> HIDE DEF a, b, d, e, f
      <3>2. context[c] = 0 => a = 0 /\ b = 0 /\ d = 0 /\ e = 0 /\ f = 0
        BY ONLY <3>1
      <3> QED
        BY <3>2 DEF a, b, d, e, f
    <2> QED
      BY <1>4, <2>1
  <1> QED
    BY <1>6, <1>7, <1>8

LEMMA SameTable ==
  ASSUME Types, UNCHANGED chain, \A e \in Entries : entry'[e].context = entry[e].context
  PROVE  UNCHANGED TableOf
  <1>1. \A i \in DOMAIN chain : chain[i] \in Entries
    BY DEF Types
  <1> QED
    BY <1>1 DEF TableOf

LEMMA SameRefs ==
  ASSUME \A c \in Contexts : RefsOf'[c] = RefsOf[c]
  PROVE  UNCHANGED RefsOf
  BY DEF RefsOf

LEMMA HashRefFollows ==
  ASSUME Types, Types', CInv, NEW t \in Threads, NEW r, at' = [at EXCEPT ![t] = r],
         hashRef' = hashRef + (Len(chain') - Len(chain) + HashAt(r) - HashAt(at[t]))
  PROVE  HashRefIsExact'
  <1>1. Cardinality(HashOwners') = Cardinality(HashOwners) + HashAt(r) - HashAt(at[t])
    BY PlacesCount
  <1>2. hashRef \in Int /\ hashRef' \in Int /\ Len(chain) \in Nat /\ Len(chain') \in Nat
    BY DEF Types
  <1>3. HashAt(r) \in Int /\ HashAt(at[t]) \in Int /\ Cardinality(HashOwners) \in Nat
    BY CountsAreFinite DEF HashAt
  <1>4. hashRef = 1 + Len(chain) + Cardinality(HashOwners)
    BY DEF CInv, HashRefIsExact
  <1>5. hashRef' = 1 + Len(chain') + Cardinality(HashOwners')
    <2> DEFINE n == Cardinality(HashOwners)
               m == Cardinality(HashOwners')
               l == Len(chain)
               k == Len(chain')
               a == HashAt(r)
               b == HashAt(at[t])
    <2>1. /\ m = n + a - b /\ hashRef = 1 + l + n /\ hashRef' = hashRef + (k - l + a - b)
          /\ hashRef \in Int /\ l \in Nat /\ k \in Nat
          /\ a \in Int /\ b \in Int /\ n \in Nat
      BY <1>1, <1>2, <1>3, <1>4
    <2> HIDE DEF n, m, l, k, a, b
    <2>2. hashRef' = 1 + k + m
      BY ONLY <2>1
    <2> QED
      BY <2>2 DEF k, m
  <1> QED
    BY <1>5 DEF HashRefIsExact

-----------------------------------------------------------------------------
(* What a step does to the places *)

WillRemove(r) == Inserting(r) \/ r.pc \in {"waitForFinders", "setFunction"}

\* The parts of the invariant that are not counts.
Structure == PlacesFit /\ InserterIsAlone /\ InserterKeepsAReference /\ RemovalIsCertain

LEMMA PlacesFollow ==
  ASSUME IInv, IInv', CInv, NEW t \in Threads, NEW r \in Places, at' = [at EXCEPT ![t] = r],
         PlaceFits(r),
         r.pc \in {"reference", "link", "apply"} => entry'[r.entry].context = r.context,
         \A u \in Threads \ {t} : /\ Inserting(at[u]) \/ Inserting(r) => at[u].entry # r.entry
                                  /\ own'[u] = own[u],
         Inserting(r) => own'[t][r.context] > 0,
         \A e \in Entries :
            \/ /\ entry'[e].context = entry[e].context
               /\ entry[e].delete = TRUE => entry'[e].delete = TRUE
            \/ /\ \A u \in Threads \ {t} : at[u].pc \in Holding => at[u].entry # e
               /\ entry'[e].context = None \/ (Inserting(r) /\ r.entry = e),
         \A e \in Entries : InLine(e) \/ (WillRemove(at[t]) /\ at[t].entry = e) =>
            entry'[e].delete = TRUE \/ InLine(e)' \/ (WillRemove(r) /\ r.entry = e)
  PROVE  Structure'
  <1>1. Types /\ Types' /\ \A u \in Threads : at'[u] = IF u = t THEN r ELSE at[u]
    BY DEF IInv, Types
  <1>2. PlacesFit'
    <2> SUFFICES ASSUME NEW u \in Threads
                 PROVE  /\ PlaceFits(at'[u])
                        /\ at'[u].pc \in {"reference", "link", "apply"} =>
                             entry'[at'[u].entry].context = at'[u].context
      BY DEF PlacesFit, PlaceFits, NeedsContext, Inserting
    <2>1. CASE u = t
      BY <1>1, <2>1
    <2>2. CASE u # t
      <3>1. /\ at'[u] = at[u] /\ PlaceFits(at[u])
            /\ at[u].pc \in {"reference", "link", "apply"} =>
                 entry[at[u].entry].context = at[u].context
        BY <1>1, <2>2 DEF CInv, PlacesFit
      <3>2. ASSUME at[u].pc \in {"reference", "link", "apply"}
            PROVE  entry'[at[u].entry].context = entry[at[u].entry].context
        <4>1. at[u].pc \in Holding /\ at[u].entry \in Entries
          BY <3>2 DEF IInv, EntryIsSet, Holding
        <4> QED
          BY <2>2, <4>1
      <3> QED
        BY <3>1, <3>2
    <2> QED
      BY <2>1, <2>2
  <1>3. InserterIsAlone'
    <2> SUFFICES ASSUME NEW u \in Threads, Inserting(at'[u]), NEW v \in Threads,
                        at'[v].entry = at'[u].entry
                 PROVE  v = u
      BY DEF InserterIsAlone, Inserting
    <2>1. CASE u = t
      BY <1>1, <2>1
    <2>2. CASE u # t /\ v = t
      BY <1>1, <2>2
    <2>3. CASE u # t /\ v # t
      BY <1>1, <2>3 DEF CInv, InserterIsAlone
    <2> QED
      BY <2>1, <2>2, <2>3
  <1>4. InserterKeepsAReference'
    <2> SUFFICES ASSUME NEW u \in Threads, Inserting(at'[u])
                 PROVE  own'[u][at'[u].context] > 0
      BY DEF InserterKeepsAReference, Inserting
    <2> QED
      BY <1>1 DEF CInv, InserterKeepsAReference
  <1>5. RemovalIsCertain'
    <2> SUFFICES ASSUME NEW e \in Entries, entry'[e].context # None
                 PROVE  \/ entry'[e].delete = TRUE \/ InLine(e)'
                        \/ \E u \in Threads : WillRemove(at'[u]) /\ at'[u].entry = e
      BY DEF RemovalIsCertain, Inserting, WillRemove
    <2>1. CASE Inserting(r) /\ r.entry = e
      BY <1>1, <2>1 DEF WillRemove
    <2>2. CASE ~(Inserting(r) /\ r.entry = e)
      <3>1. \/ /\ entry'[e].context = entry[e].context
               /\ entry[e].delete = TRUE => entry'[e].delete = TRUE
        BY <2>2
      <3>2. \/ entry[e].delete = TRUE \/ InLine(e)
            \/ \E u \in Threads : WillRemove(at[u]) /\ at[u].entry = e
        BY <3>1 DEF CInv, RemovalIsCertain, WillRemove
      <3>3. ASSUME NEW u \in Threads, u # t, WillRemove(at[u]), at[u].entry = e
            PROVE  WillRemove(at'[u]) /\ at'[u].entry = e
        BY <1>1, <3>3
      <3>4. ASSUME InLine(e) \/ (WillRemove(at[t]) /\ at[t].entry = e)
            PROVE  \/ entry'[e].delete = TRUE \/ InLine(e)'
                   \/ WillRemove(at'[t]) /\ at'[t].entry = e
        BY <1>1, <3>4
      <3> QED
        BY <3>1, <3>2, <3>3, <3>4
    <2> QED
      BY <2>1, <2>2
  <1> QED
    BY <1>2, <1>3, <1>4, <1>5 DEF Structure

\* The counts in a step that neither links nor unlinks.
LEMMA PlacesCountContexts ==
  ASSUME Types, Types', CInv, NEW t \in Threads, NEW r, at' = [at EXCEPT ![t] = r],
         UNCHANGED <<chain, own>>,
         \A e \in Entries : entry'[e].context = entry[e].context,
         Inserting(r) <=> Inserting(at[t]), Inserting(r) => r.entry = at[t].entry,
         \A c \in Contexts :
            context'[c] = context[c] + ((LinksAt(r, c) - LinksAt(at[t], c))
                                        + (FoundAt(r, c) - FoundAt(at[t], c)))
  PROVE  /\ ContextIsExact' /\ UNCHANGED TableOf
         /\ \A c \in Contexts :
               RefsOf'[c] = RefsOf[c] + ((FoundAt(r, c) - FoundAt(at[t], c))
                                         + (SearchesAt(r, c) - SearchesAt(at[t], c)))
  <1>1. ASSUME NEW c \in Contexts
        PROVE  /\ Exact(c)'
               /\ RefsOf'[c] = RefsOf[c] + ((FoundAt(r, c) - FoundAt(at[t], c))
                                            + (SearchesAt(r, c) - SearchesAt(at[t], c)))
    <2> DEFINE l == LinksAt(r, c) - LinksAt(at[t], c)
               f == FoundAt(r, c) - FoundAt(at[t], c)
               s == SearchesAt(r, c) - SearchesAt(at[t], c)
    <2>1. Tokens(c)' = Tokens(c) /\ IsFiniteSet(Tokens(c)) /\ context[c] \in Int
      BY DEF Tokens, CInv, ContextIsExact, Types
    <2>2. Linked(c)' = Linked(c) /\ Removed(c)' = Removed(c)
      BY EntriesStay
    <2>3. /\ Cardinality(Tokens(c)) \in Nat /\ Cardinality(Linked(c)) \in Nat
          /\ Cardinality(Linking(c)) \in Nat /\ Cardinality(Removed(c)) \in Nat
          /\ Cardinality(Found(c)) \in Nat /\ Cardinality(Searching(c)) \in Nat
      BY <2>1, CountsAreFinite, FS_CardinalityType
    <2>4. l \in Int /\ f \in Int /\ s \in Int
      BY DEF LinksAt, SearchesAt, FoundAt
    <2>5. /\ Cardinality(Linking(c)') = Cardinality(Linking(c)) + l
          /\ Cardinality(Searching(c)') = Cardinality(Searching(c)) + s
          /\ Cardinality(Found(c)') = Cardinality(Found(c)) + f
      <3>1. /\ LinksAt(r, c) \in Int /\ LinksAt(at[t], c) \in Int
            /\ SearchesAt(r, c) \in Int /\ SearchesAt(at[t], c) \in Int
            /\ FoundAt(r, c) \in Int /\ FoundAt(at[t], c) \in Int
        BY DEF LinksAt, SearchesAt, FoundAt
      <3>2. /\ Cardinality(Linking(c)') =
                 Cardinality(Linking(c)) + LinksAt(r, c) - LinksAt(at[t], c)
            /\ Cardinality(Searching(c)') =
                 Cardinality(Searching(c)) + SearchesAt(r, c) - SearchesAt(at[t], c)
            /\ Cardinality(Found(c)') =
                 Cardinality(Found(c)) + FoundAt(r, c) - FoundAt(at[t], c)
        <4>1. Types /\ at' = [at EXCEPT ![t] = r]
          OBVIOUS
        <4> QED
          BY ONLY <4>1, t \in Threads, PlacesCount
      <3> QED
        BY <2>3, <3>1, <3>2
    <2>6. context'[c] = context[c] + (l + f)
      OBVIOUS
    <2> HIDE DEF l, f, s
    <2>7. Changes(c, 0, 0, l, 0, f, s) /\ context'[c] = context[c] + 0 + 0 + l + 0 + f
      BY <2>1, <2>2, <2>3, <2>4, <2>5, <2>6 DEF Changes
    <2>8. Exact(c)' /\ RefsOf'[c] = RefsOf[c] + 0 + 0 + f + s
      <3>1. 0 \in Int
        OBVIOUS
      <3> QED
        BY <2>4, <2>7, <3>1, OneContext
    <2>9. RefsOf[c] \in Nat
      BY TableCounts
    <2>10. RefsOf'[c] = RefsOf[c] + (f + s)
      BY <2>4, <2>8, <2>9
    <2> QED
      BY <2>8, <2>10 DEF f, s
  <1>2. ContextIsExact'
    BY <1>1 DEF ContextIsExact, Exact
  <1> QED
    BY <1>1, <1>2, SameTable

-----------------------------------------------------------------------------
(* Steps that only the entries and the hash object notice *)

LEMMA QuietStep ==
  ASSUME IInv, IInv', CInv, NEW t \in Threads, NEW r \in Places, at' = [at EXCEPT ![t] = r],
         UNCHANGED <<chain, context, own>>,
         \A e \in Entries : /\ entry'[e].context = entry[e].context
                            /\ entry[e].delete = TRUE => entry'[e].delete = TRUE,
         r.pc \notin {"reference", "link", "apply"},
         at[t].pc \notin {"reference", "link", "apply"},
         PlaceFits(r), r.entry \in {at[t].entry, None},
         \A c \in Contexts : FoundAt(r, c) = FoundAt(at[t], c),
         at[t].pc \in {"waitForFinders", "setFunction"} =>
            \/ entry'[at[t].entry].delete = TRUE
            \/ r.pc \in {"waitForFinders", "setFunction"} /\ r.entry = at[t].entry,
         hashRef' = hashRef + (HashAt(r) - HashAt(at[t]))
  PROVE  CInv' /\ UNCHANGED <<TableOf, RefsOf>>
  <1>1. Types /\ Types' /\ \A u \in Threads : at'[u] = IF u = t THEN r ELSE at[u]
    BY DEF IInv, Types
  <1>2. ~Inserting(r) /\ ~Inserting(at[t])
    BY DEF Inserting
  <1>3. \A c \in Contexts : /\ LinksAt(r, c) = LinksAt(at[t], c)
                            /\ SearchesAt(r, c) = SearchesAt(at[t], c)
    BY DEF LinksAt, SearchesAt
  <1>4. ContextIsExact' /\ UNCHANGED <<TableOf, RefsOf>>
    <2>1. \A c \in Contexts :
             /\ context[c] \in Int /\ LinksAt(r, c) \in Int /\ FoundAt(r, c) \in Int
             /\ SearchesAt(r, c) \in Int
      BY <1>1 DEF Types, LinksAt, FoundAt, SearchesAt
    <2>2. \A c \in Contexts :
             context'[c] = context[c] + ((LinksAt(r, c) - LinksAt(at[t], c))
                                         + (FoundAt(r, c) - FoundAt(at[t], c)))
      BY <1>3, <2>1
    <2>3. /\ ContextIsExact' /\ UNCHANGED TableOf
          /\ \A c \in Contexts :
                RefsOf'[c] = RefsOf[c] + ((FoundAt(r, c) - FoundAt(at[t], c))
                                          + (SearchesAt(r, c) - SearchesAt(at[t], c)))
      BY <1>1, <1>2, <2>2, PlacesCountContexts
    <2>4. \A c \in Contexts : RefsOf[c] \in Nat
      BY <1>1, TableCounts
    <2>5. \A c \in Contexts : RefsOf'[c] = RefsOf[c]
      BY <1>3, <2>1, <2>3, <2>4
    <2> QED
      BY <2>3, <2>5, SameRefs
  <1>5. HashRefIsExact'
    <2>1. /\ HashAt(r) \in Int /\ HashAt(at[t]) \in Int /\ Len(chain) \in Nat
          /\ Len(chain') = Len(chain) /\ hashRef \in Int
      BY <1>1 DEF HashAt, Types
    <2>2. hashRef' = hashRef + (Len(chain') - Len(chain) + HashAt(r) - HashAt(at[t]))
      BY <2>1
    <2> QED
      BY <1>1, <2>2, HashRefFollows
  <1>6. Structure'
    <2>1. ASSUME NEW u \in Threads \ {t}, Inserting(at[u])
          PROVE  at[u].entry # r.entry
      <3>1. at[u].entry \in Entries
        BY <2>1 DEF IInv, EntryIsSet, Holding, Inserting
      <3> QED
        BY <2>1, <3>1, HashAssumption DEF CInv, InserterIsAlone
    <2>2. \A e \in Entries : InLine(e) => InLine(e)'
      BY DEF InLine
    <2> QED
      BY <1>2, <2>1, <2>2, PlacesFollow DEF WillRemove
  <1> QED
    BY <1>4, <1>5, <1>6 DEF CInv, Structure

LEMMA EnablePurgeContexts ==
  ASSUME IInv, IInv', CInv, NEW t \in Threads, EnablePurge(t)
  PROVE  CInv' /\ UNCHANGED <<TableOf, RefsOf>>
  <1> DEFINE r == [at[t] EXCEPT !.pc = "dereference"]
  <1>1. Types /\ at[t] \in Places /\ PlaceFits(at[t])
    BY DEF IInv, Types, CInv, PlacesFit
  <1>2. at' = [at EXCEPT ![t] = r] /\ r \in Places
    BY <1>1 DEF EnablePurge, Go, Types, Places
  <1>3. \A e \in Entries : /\ entry'[e].context = entry[e].context
                           /\ entry[e].delete = TRUE => entry'[e].delete = TRUE
    <2>1. \A e \in Entries : entry[e] \in Records
      BY <1>1 DEF Types
    <2> QED
      BY <1>1, <2>1 DEF EnablePurge, Go, Types, Records
  <1>4. /\ at[t].pc = "enable" /\ at[t].op = "find" /\ r.pc = "dereference"
        /\ r.entry = at[t].entry /\ r.op = at[t].op /\ r.context = at[t].context
    BY <1>1 DEF EnablePurge, Go, IInv, FindersFind, In, Places
  <1>5. /\ PlaceFits(r)
        /\ \A c \in Contexts : FoundAt(r, c) = FoundAt(at[t], c)
    BY <1>1, <1>4 DEF PlaceFits, NeedsContext, Inserting, FoundAt
  <1>6. hashRef' = hashRef + (HashAt(r) - HashAt(at[t]))
    BY <1>1, <1>4 DEF EnablePurge, Go, HashAt, OwnsHash, PlaceFits, Types
  <1>7. UNCHANGED <<chain, context, own>>
    BY DEF EnablePurge, Go
  <1> HIDE DEF r
  <1> QED
    BY <1>2, <1>3, <1>4, <1>5, <1>6, <1>7, QuietStep

LEMMA WaitForFindersContexts ==
  ASSUME IInv, IInv', CInv, NEW t \in Threads, WaitForFinders(t)
  PROVE  CInv' /\ UNCHANGED <<TableOf, RefsOf>>
  <1> DEFINE r == [at[t] EXCEPT !.pc = "setFunction"]
  <1>1. Types /\ at[t] \in Places /\ PlaceFits(at[t])
    BY DEF IInv, Types, CInv, PlacesFit
  <1>2. at' = [at EXCEPT ![t] = r] /\ r \in Places
    BY <1>1 DEF WaitForFinders, Go, Types, Places
  <1>3. \A e \in Entries : /\ entry'[e].context = entry[e].context
                           /\ entry[e].delete = TRUE => entry'[e].delete = TRUE
    BY DEF WaitForFinders, Go
  <1>4. /\ at[t].pc = "waitForFinders" /\ r.pc = "setFunction"
        /\ r.entry = at[t].entry /\ r.op = at[t].op /\ r.context = at[t].context
    BY <1>1 DEF WaitForFinders, Go, Places
  <1>5. /\ PlaceFits(r)
        /\ \A c \in Contexts : FoundAt(r, c) = FoundAt(at[t], c)
    BY <1>1, <1>4 DEF PlaceFits, NeedsContext, Inserting, FoundAt
  <1>6. hashRef' = hashRef + (HashAt(r) - HashAt(at[t]))
    BY <1>1, <1>4 DEF WaitForFinders, Go, HashAt, OwnsHash, PlaceFits, Types
  <1>7. UNCHANGED <<chain, context, own>>
    BY DEF WaitForFinders, Go
  <1> HIDE DEF r
  <1> QED
    BY <1>2, <1>3, <1>4, <1>5, <1>6, <1>7, QuietStep

LEMMA SetFunctionContexts ==
  ASSUME IInv, IInv', CInv, NEW t \in Threads, SetFunction(t)
  PROVE  CInv' /\ UNCHANGED <<TableOf, RefsOf>>
  <1> DEFINE r == [at[t] EXCEPT !.pc = "dereference"]
  <1>1. Types /\ at[t] \in Places /\ PlaceFits(at[t])
    BY DEF IInv, Types, CInv, PlacesFit
  <1>2. at' = [at EXCEPT ![t] = r] /\ r \in Places
    BY <1>1 DEF SetFunction, Go, Types, Places
  <1>3. /\ \A e \in Entries : /\ entry'[e].context = entry[e].context
                              /\ entry[e].delete = TRUE => entry'[e].delete = TRUE
        /\ entry'[at[t].entry].delete = TRUE
    <2>1. \A e \in Entries : entry[e] \in Records
      BY <1>1 DEF Types
    <2>2. at[t].entry \in Entries
      BY DEF IInv, EntryIsSet, Holding, SetFunction, Go
    <2>3. /\ entry' = [entry EXCEPT ![at[t].entry].delete = TRUE]
          /\ entry \in [Entries -> Records]
      BY <1>1 DEF Types, SetFunction
    <2>4. ASSUME NEW e \in Entries, e # at[t].entry PROVE entry'[e] = entry[e]
      BY <2>3, <2>4
    <2>5. /\ entry'[at[t].entry].context = entry[at[t].entry].context
          /\ entry'[at[t].entry].delete = TRUE
      BY <2>1, <2>2, <2>3 DEF Records
    <2> QED
      BY <2>4, <2>5
  <1>4. /\ at[t].pc = "setFunction" /\ r.pc = "dereference"
        /\ r.entry = at[t].entry /\ r.op = at[t].op /\ r.context = at[t].context
    BY <1>1 DEF SetFunction, Go, Places
  <1>5. /\ PlaceFits(r)
        /\ \A c \in Contexts : FoundAt(r, c) = FoundAt(at[t], c)
    BY <1>1, <1>4 DEF PlaceFits, NeedsContext, Inserting, FoundAt
  <1>6. hashRef' = hashRef + (HashAt(r) - HashAt(at[t]))
    BY <1>1, <1>4 DEF SetFunction, Go, HashAt, OwnsHash, PlaceFits, Types
  <1>7. UNCHANGED <<chain, context, own>>
    BY DEF SetFunction, Go
  <1> HIDE DEF r
  <1> QED
    BY <1>2, <1>3, <1>4, <1>5, <1>6, <1>7, QuietStep

LEMMA BeginPurgeContexts ==
  ASSUME IInv, IInv', CInv, NEW t \in Threads, BeginPurge(t)
  PROVE  CInv' /\ UNCHANGED <<TableOf, RefsOf>>
  <1> DEFINE r == [Idle EXCEPT !.pc = "purge", !.op = "purge"]
  <1>1. Types /\ at[t] \in Places /\ PlaceFits(at[t])
    BY DEF IInv, Types, CInv, PlacesFit
  <1>2. at' = [at EXCEPT ![t] = r] /\ r \in Places
    BY <1>1 DEF BeginPurge, Types, Places, Idle
  <1>3. \A e \in Entries : /\ entry'[e].context = entry[e].context
                           /\ entry[e].delete = TRUE => entry'[e].delete = TRUE
    BY DEF BeginPurge
  <1>4. /\ at[t].pc = "idle" /\ r.pc = "purge" /\ r.op = "purge" /\ r.entry = None
    BY <1>1 DEF BeginPurge, Idle
  <1>5. /\ PlaceFits(r)
        /\ \A c \in Contexts : FoundAt(r, c) = FoundAt(at[t], c)
    BY <1>1, <1>4 DEF PlaceFits, NeedsContext, Inserting, FoundAt, Idle
  <1>6. hashRef' = hashRef + (HashAt(r) - HashAt(at[t]))
    BY <1>1, <1>4 DEF BeginPurge, HashAt, OwnsHash, PlaceFits, Types
  <1>7. UNCHANGED <<chain, context, own>>
    BY DEF BeginPurge
  <1> HIDE DEF r
  <1> QED
    BY <1>2, <1>3, <1>4, <1>5, <1>6, <1>7, QuietStep

LEMMA DereferenceHashContexts ==
  ASSUME IInv, IInv', CInv, NEW t \in Threads, DereferenceHash(t)
  PROVE  CInv' /\ UNCHANGED <<TableOf, RefsOf>>
  <1> DEFINE r == IF at[t].op = "purge" THEN [at[t] EXCEPT !.pc = "purge"] ELSE Idle
  <1>1. Types /\ at[t] \in Places /\ PlaceFits(at[t])
    BY DEF IInv, Types, CInv, PlacesFit
  <1>2. at' = [at EXCEPT ![t] = r] /\ r \in Places
    BY <1>1 DEF DereferenceHash, Types, Places, Idle
  <1>3. \A e \in Entries : /\ entry'[e].context = entry[e].context
                           /\ entry[e].delete = TRUE => entry'[e].delete = TRUE
    BY DEF DereferenceHash
  <1>4. /\ at[t].pc = "dereferenceHash" /\ r.pc \in {"purge", "idle"}
        /\ r.entry \in {at[t].entry, None}
        /\ r.pc = "purge" => r.op = "purge"
    BY <1>1 DEF DereferenceHash, Idle, Places
  <1>5. /\ PlaceFits(r)
        /\ \A c \in Contexts : FoundAt(r, c) = FoundAt(at[t], c)
    BY <1>1, <1>4 DEF PlaceFits, NeedsContext, Inserting, FoundAt, Idle
  <1>6. hashRef' = hashRef + (HashAt(r) - HashAt(at[t]))
    BY <1>1, <1>4 DEF DereferenceHash, HashAt, OwnsHash, PlaceFits, Types
  <1>7. UNCHANGED <<chain, context, own>>
    BY DEF DereferenceHash
  <1> HIDE DEF r
  <1> QED
    BY <1>2, <1>3, <1>4, <1>5, <1>6, <1>7, QuietStep

LEMMA DereferenceEntryContexts ==
  ASSUME IInv, IInv', CInv, NEW t \in Threads, DereferenceEntry(t)
  PROVE  CInv' /\ UNCHANGED <<TableOf, RefsOf>>
  <1> DEFINE r == IF entry[at[t].entry].ref = 1 THEN [at[t] EXCEPT !.pc = "delete"]
              ELSE [at[t] EXCEPT !.pc = AfterDereference(t), !.entry = None]
  <1>1. Types /\ at[t] \in Places /\ PlaceFits(at[t])
    BY DEF IInv, Types, CInv, PlacesFit
  <1>2. at' = [at EXCEPT ![t] = r] /\ r \in Places
    BY <1>1 DEF DereferenceEntry, AfterDereference, Types, Places
  <1>3. \A e \in Entries : /\ entry'[e].context = entry[e].context
                           /\ entry[e].delete = TRUE => entry'[e].delete = TRUE
    <2>1. \A e \in Entries : entry[e] \in Records
      BY <1>1 DEF Types
    <2> QED
      BY <1>1, <2>1 DEF DereferenceEntry, Types, Records
  <1>4. /\ at[t].pc = "dereference" /\ r.pc \in {"delete", "return", "dereferenceHash"}
        /\ r.pc = "return" => at[t].op = "find"
        /\ r.pc = "dereferenceHash" => at[t].op # "find"
        /\ r.entry \in {at[t].entry, None} /\ r.op = at[t].op /\ r.context = at[t].context
    BY <1>1 DEF DereferenceEntry, AfterDereference, Places
  <1>5. /\ PlaceFits(r)
        /\ \A c \in Contexts : FoundAt(r, c) = FoundAt(at[t], c)
    BY <1>1, <1>4 DEF PlaceFits, NeedsContext, Inserting, FoundAt
  <1>6. hashRef' = hashRef + (HashAt(r) - HashAt(at[t]))
    <2>1. HashAt(r) = HashAt(at[t])
      BY <1>1, <1>4 DEF HashAt, OwnsHash, PlaceFits
    <2> QED
      BY <1>1, <2>1 DEF DereferenceEntry, HashAt, Types
  <1>7. UNCHANGED <<chain, context, own>>
    BY DEF DereferenceEntry
  <1> HIDE DEF r
  <1> QED
    BY <1>2, <1>3, <1>4, <1>5, <1>6, <1>7, QuietStep

-----------------------------------------------------------------------------
(* The users of a context *)

LEMMA RefsMove ==
  ASSUME NEW c \in Contexts, NEW k \in Int,
         \A d \in Contexts : RefsOf'[d] = RefsOf[d] + (IF d = c THEN k ELSE 0),
         \A d \in Contexts : RefsOf[d] \in Nat
  PROVE  RefsOf' = [RefsOf EXCEPT ![c] = @ + k]
  <1>1. /\ RefsOf = [d \in Contexts |-> RefsOf[d]] /\ RefsOf' = [d \in Contexts |-> RefsOf'[d]]
    BY DEF RefsOf
  <1> DEFINE f == RefsOf
             g == RefsOf'
  <1>2. /\ f = [d \in Contexts |-> f[d]] /\ g = [d \in Contexts |-> g[d]]
        /\ \A d \in Contexts : f[d] \in Nat /\ g[d] = f[d] + (IF d = c THEN k ELSE 0)
    BY <1>1
  <1> HIDE DEF f, g
  <1>3. \A d \in Contexts : g[d] = [f EXCEPT ![c] = @ + k][d]
    BY <1>2
  <1>4. g = [f EXCEPT ![c] = @ + k]
    BY <1>2, <1>3
  <1> QED
    BY <1>4 DEF f, g

\* A thread that is idle gains or gives back a reference.
LEMMA OwnersChange ==
  ASSUME IInv, IInv', CInv, NEW t \in Threads, NEW c \in Contexts, NEW k \in {-1, 1},
         k = 1 \/ own[t][c] > 0, at[t].pc = "idle", UNCHANGED <<chain, entry, at, hashRef>>,
         own' = [own EXCEPT ![t][c] = own[t][c] + k],
         context' = [context EXCEPT ![c] = context[c] + k]
  PROVE  /\ CInv' /\ UNCHANGED TableOf
         /\ RefsOf' = [RefsOf EXCEPT ![c] = @ + k]
  <1>1. Types /\ Types' /\ own[t][c] \in Nat
    BY DEF IInv, Types
  <1>2. ASSUME NEW d \in Contexts
        PROVE  Exact(d)' /\ RefsOf'[d] = RefsOf[d] + (IF d = c THEN k ELSE 0)
    <2> DEFINE j == IF d = c THEN k ELSE 0
    <2>1. IsFiniteSet(Tokens(d)) /\ context[d] \in Int /\ j \in Int
      BY <1>1 DEF CInv, ContextIsExact, Types
    <2>2. /\ IsFiniteSet(Tokens(d)') /\ Cardinality(Tokens(d)') = Cardinality(Tokens(d)) + j
      <3>1. /\ own[t][c] + k \in Int
            /\ \/ own[t][c] + k = own[t][c] + 1
               \/ own[t][c] + k = own[t][c] - 1 /\ own[t][c] > 0
            /\ (own[t][c] + k) - own[t][c] = k
        BY <1>1
      <3> DEFINE m == own[t][c] + k
      <3>2. own' = [own EXCEPT ![t][c] = m]
        OBVIOUS
      <3>3. m \in Int /\ (m = own[t][c] + 1 \/ (m = own[t][c] - 1 /\ own[t][c] > 0))
        BY <3>1
      <3> HIDE DEF m
      <3>4. /\ IsFiniteSet(Tokens(d)')
            /\ Cardinality(Tokens(d)')
                 = Cardinality(Tokens(d)) + (IF d = c THEN m - own[t][c] ELSE 0)
        <4>1. Types /\ IsFiniteSet(Tokens(d))
          BY <1>1, <2>1
        <4> QED
          BY ONLY <4>1, t \in Threads, c \in Contexts, d \in Contexts, <3>2, <3>3,
             TokensMove
      <3>5. (IF d = c THEN m - own[t][c] ELSE 0) = j
        BY <3>1 DEF m
      <3> QED
        BY <3>4, <3>5
    <2>3. /\ Linked(d)' = Linked(d) /\ Linking(d)' = Linking(d) /\ Removed(d)' = Removed(d)
          /\ Found(d)' = Found(d) /\ Searching(d)' = Searching(d)
      BY DEF Linked, Linking, Removed, Found, Searching, In, InLine
    <2>4. Changes(d, j, 0, 0, 0, 0, 0)
      <3>1. /\ Cardinality(Linked(d)) \in Nat /\ Cardinality(Linking(d)) \in Nat
            /\ Cardinality(Removed(d)) \in Nat /\ Cardinality(Found(d)) \in Nat
            /\ Cardinality(Searching(d)) \in Nat
        BY CountsAreFinite
      <3> QED
        BY <2>2, <2>3, <3>1 DEF Changes
    <2>5. context'[d] = context[d] + j + 0 + 0 + 0 + 0
      BY <1>1, <2>1 DEF Types
    <2>6. Exact(d)' /\ RefsOf'[d] = RefsOf[d] + j + 0 + 0 + 0
      <3>1. 0 \in Int
        OBVIOUS
      <3> HIDE DEF j
      <3> QED
        BY ONLY <1>1, <2>1, <2>4, <2>5, <3>1, OneContext, CInv, d \in Contexts
    <2>7. RefsOf[d] \in Nat
      BY <1>1, TableCounts
    <2> QED
      BY <2>1, <2>6, <2>7
  <1>3. ContextIsExact'
    BY <1>2 DEF ContextIsExact, Exact
  <1>4. RefsOf' = [RefsOf EXCEPT ![c] = @ + k]
    <2>1. \A d \in Contexts : RefsOf[d] \in Nat
      BY <1>1, TableCounts
    <2>2. k \in Int
      OBVIOUS
    <2> QED
      BY <1>2, <2>1, <2>2, RefsMove
  <1>5. PlacesFit' /\ InserterIsAlone'
    BY DEF CInv, PlacesFit, PlaceFits, InserterIsAlone, NeedsContext, Inserting
  <1>6. InserterKeepsAReference'
    BY <1>1 DEF CInv, InserterKeepsAReference, Inserting, Types
  <1>7. RemovalIsCertain'
    BY DEF CInv, RemovalIsCertain, Inserting, InLine
  <1>8. HashRefIsExact'
    BY DEF CInv, HashRefIsExact, HashOwners, OwnsHash
  <1> QED
    BY <1>1, <1>3, <1>4, <1>5, <1>6, <1>7, <1>8, SameTable DEF CInv

LEMMA CreateContextContexts ==
  ASSUME IInv, IInv', CInv, NEW t \in Threads, NEW c \in Contexts, CreateContext(t, c)
  PROVE  CInv' /\ Table!Create(c)
  <1>1. Types /\ own[t] \in [Contexts -> Nat] /\ own[t][c] \in Nat /\ context[c] = 0
    BY DEF IInv, Types, CreateContext
  <1>2. /\ at[t].pc = "idle" /\ UNCHANGED <<chain, entry, at, hashRef>>
        /\ context' = [context EXCEPT ![c] = context[c] + 1]
        /\ own' = [own EXCEPT ![t][c] = own[t][c] + 1]
    BY <1>1 DEF CreateContext, Gain
  <1>3. CInv' /\ UNCHANGED TableOf /\ RefsOf' = [RefsOf EXCEPT ![c] = @ + 1]
    <2>1. 1 \in {-1, 1}
      OBVIOUS
    <2> QED
      BY <1>2, <2>1, OwnersChange
  <1>4. RefsOf[c] = 0
    <2>1. Searching(c) = {}
      <3> SUFFICES ASSUME NEW u \in Searching(c) PROVE FALSE
        OBVIOUS
      <3>1. at[u].pc = "apply" /\ at[u].context = c /\ u \in Threads
        BY DEF Searching, In
      <3>2. at[u].entry \in Entries /\ entry[at[u].entry].context = c
        BY <3>1 DEF IInv, EntryIsSet, Holding, CInv, PlacesFit
      <3> QED
        BY <3>2 DEF CreateContext
    <2>2. Tokens(c) = {} /\ Linked(c) = {} /\ Found(c) = {}
      BY <1>1, TableCounts
    <2>3. Cardinality({}) = 0
      BY FS_EmptySet
    <2>4. RefsOf[c] = Cardinality(Tokens(c)) + Cardinality(Linked(c)) + Cardinality(Found(c))
                        + Cardinality(Searching(c))
      BY <1>1, TableCounts
    <2> QED
      BY <2>1, <2>2, <2>3, <2>4
  <1>5. RefsOf' = [RefsOf EXCEPT ![c] = 1]
    BY <1>3, <1>4
  <1> QED
    BY <1>3, <1>4, <1>5 DEF Table!Create

LEMMA DropContextContexts ==
  ASSUME IInv, IInv', CInv, NEW t \in Threads, NEW c \in Contexts, DropContext(t, c)
  PROVE  CInv' /\ Table!Drop(c)
  <1>1. /\ Types /\ own[t] \in [Contexts -> Nat] /\ own[t][c] \in Nat /\ own[t][c] > 0
        /\ context[c] \in Int
    BY DEF IInv, Types, DropContext
  <1>2. /\ at[t].pc = "idle" /\ UNCHANGED <<chain, entry, at, hashRef>>
        /\ context' = [context EXCEPT ![c] = context[c] - 1]
        /\ own' = [own EXCEPT ![t][c] = own[t][c] - 1]
    BY <1>1 DEF DropContext
  <1>3. CInv' /\ UNCHANGED TableOf /\ RefsOf' = [RefsOf EXCEPT ![c] = @ + (-1)]
    <2>1. /\ -1 \in {-1, 1} /\ context[c] - 1 = context[c] + (-1)
          /\ own[t][c] - 1 = own[t][c] + (-1)
      BY <1>1
    <2>2. /\ context' = [context EXCEPT ![c] = context[c] + (-1)]
          /\ own' = [own EXCEPT ![t][c] = own[t][c] + (-1)]
      BY <1>2, <2>1
    <2> QED
      BY <1>1, <1>2, <2>1, <2>2, OwnersChange
  <1>4. RefsOf[c] > 0 /\ RefsOf[c] + (-1) = RefsOf[c] - 1
    <2>1. <<t, own[t][c]>> \in Tokens(c)
      BY <1>1 DEF Tokens
    <2>2. RefsOf[c] # 0 /\ RefsOf[c] \in Nat
      BY <1>1, <2>1, TableCounts
    <2> QED
      BY <2>2
  <1>5. RefsOf' = [RefsOf EXCEPT ![c] = @ - 1]
    BY <1>3, <1>4
  <1> QED
    BY <1>3, <1>4, <1>5 DEF Table!Drop

-----------------------------------------------------------------------------
(* The reference of an insertion, the search and the line *)

LEMMA ReferenceContextContexts ==
  ASSUME IInv, IInv', CInv, NEW t \in Threads, ReferenceContext(t)
  PROVE  CInv' /\ UNCHANGED <<TableOf, RefsOf>>
  <1> DEFINE r == [at[t] EXCEPT !.pc = "link"]
             c == at[t].context
  <1>1. Types /\ Types' /\ at[t] \in Places /\ PlaceFits(at[t])
    BY DEF IInv, Types, CInv, PlacesFit
  <1>2. at' = [at EXCEPT ![t] = r] /\ r \in Places
    BY <1>1 DEF ReferenceContext, Go, Types, Places
  <1>3. /\ at[t].pc = "reference" /\ r.pc = "link"
        /\ r.entry = at[t].entry /\ r.op = at[t].op /\ r.context = c
        /\ c \in Contexts /\ PlaceFits(r)
    BY <1>1 DEF ReferenceContext, Go, Places, PlaceFits, NeedsContext, Inserting, IInv, FindersFind, In
  <1>4. /\ UNCHANGED <<chain, own, entry, hashRef>>
        /\ context' = [context EXCEPT ![c] = @ + 1]
    BY DEF ReferenceContext, Go
  <1>5. \A d \in Contexts :
        /\ LinksAt(r, d) = (IF d = c THEN 1 ELSE 0) /\ LinksAt(at[t], d) = 0
        /\ FoundAt(r, d) = 0 /\ FoundAt(at[t], d) = 0
        /\ SearchesAt(r, d) = 0 /\ SearchesAt(at[t], d) = 0
    BY <1>3 DEF LinksAt, FoundAt, SearchesAt
  <1>6. HashAt(r) = HashAt(at[t])
    BY <1>3 DEF HashAt, OwnsHash
  <1>7. Structure'
    <2>1. \A u \in Threads \ {t} : Inserting(at[u]) \/ Inserting(r) => at[u].entry # r.entry
      BY <1>3 DEF CInv, InserterIsAlone, Inserting
    <2>2. r.pc \in {"reference", "link", "apply"} => entry'[r.entry].context = r.context
      BY <1>3, <1>4 DEF CInv, PlacesFit
    <2>3. Inserting(r) => own'[t][r.context] > 0
      BY <1>3, <1>4 DEF CInv, InserterKeepsAReference, Inserting
    <2>4. \A e : InLine(e)' = InLine(e)
      BY <1>4 DEF InLine
    <2>5. WillRemove(at[t]) => WillRemove(r)
      BY <1>3 DEF WillRemove, Inserting
    <2> HIDE DEF r
    <2> QED
      BY <1>2, <1>3, <1>4, <2>1, <2>2, <2>3, <2>4, <2>5, PlacesFollow
  <1>8. HashRefIsExact'
    <2>1. HashAt(at[t]) \in Int /\ Len(chain) \in Nat /\ hashRef \in Int /\ Len(chain') = Len(chain)
      BY <1>1, <1>4 DEF HashAt, Types
    <2>2. hashRef' = hashRef + (Len(chain') - Len(chain) + HashAt(r) - HashAt(at[t]))
      BY <1>4, <1>6, <2>1
    <2> HIDE DEF r
    <2> QED
      BY <1>1, <1>2, <2>2, HashRefFollows
  <1>9. ContextIsExact' /\ UNCHANGED <<TableOf, RefsOf>>
    <2>1. \A d \in Contexts : context[d] \in Int /\ RefsOf[d] \in Nat
      BY <1>1, TableCounts DEF Types
    <2>2. \A d \in Contexts : context'[d] = context[d] + (IF d = c THEN 1 ELSE 0)
      BY <1>1, <1>3, <1>4, <2>1 DEF Types
    <2>3. Inserting(r) <=> Inserting(at[t])
      BY <1>3 DEF Inserting
    <2> HIDE DEF r
    <2>4. \A d \in Contexts :
             context'[d] = context[d] + ((LinksAt(r, d) - LinksAt(at[t], d))
                                         + (FoundAt(r, d) - FoundAt(at[t], d)))
      BY <1>5, <2>1, <2>2
    <2>5. /\ ContextIsExact' /\ UNCHANGED TableOf
          /\ \A d \in Contexts :
                RefsOf'[d] = RefsOf[d] + ((FoundAt(r, d) - FoundAt(at[t], d))
                                          + (SearchesAt(r, d) - SearchesAt(at[t], d)))
      BY <1>1, <1>2, <1>3, <1>4, <2>3, <2>4, PlacesCountContexts
    <2>6. \A d \in Contexts : RefsOf'[d] = RefsOf[d]
      BY <1>5, <2>1, <2>5
    <2> QED
      BY <2>5, <2>6, SameRefs
  <1> QED
    BY <1>7, <1>8, <1>9 DEF CInv, Structure

LEMMA ApplyContexts ==
  ASSUME IInv, IInv', CInv, NEW t \in Threads, Apply(t)
  PROVE  CInv' /\ UNCHANGED <<TableOf, RefsOf>>
  <1> DEFINE r == [at[t] EXCEPT !.pc = "enable"]
             c == at[t].context
  <1>1. Types /\ Types' /\ at[t] \in Places /\ PlaceFits(at[t])
    BY DEF IInv, Types, CInv, PlacesFit
  <1>2. at' = [at EXCEPT ![t] = r] /\ r \in Places
    BY <1>1 DEF Apply, Go, Types, Places
  <1>3. /\ at[t].pc = "apply" /\ r.pc = "enable" /\ at[t].op = "find"
        /\ r.entry = at[t].entry /\ r.op = at[t].op /\ r.context = c
        /\ c \in Contexts /\ PlaceFits(r)
    BY <1>1 DEF Apply, Go, Places, PlaceFits, NeedsContext, Inserting, IInv, FindersFind, In
  <1>4. /\ UNCHANGED <<chain, own, entry, hashRef>>
        /\ context' = [context EXCEPT ![c] = @ + 1]
    BY DEF Apply, Go
  <1>5. \A d \in Contexts :
        /\ LinksAt(r, d) = 0 /\ LinksAt(at[t], d) = 0
        /\ FoundAt(r, d) = (IF d = c THEN 1 ELSE 0) /\ FoundAt(at[t], d) = 0
        /\ SearchesAt(r, d) = 0 /\ SearchesAt(at[t], d) = (IF d = c THEN 1 ELSE 0)
    BY <1>3 DEF LinksAt, FoundAt, SearchesAt
  <1>6. HashAt(r) = HashAt(at[t])
    BY <1>3 DEF HashAt, OwnsHash
  <1>7. Structure'
    <2>1. \A u \in Threads \ {t} : Inserting(at[u]) \/ Inserting(r) => at[u].entry # r.entry
      BY <1>3 DEF CInv, InserterIsAlone, Inserting
    <2>2. r.pc \in {"reference", "link", "apply"} => entry'[r.entry].context = r.context
      BY <1>3, <1>4 DEF CInv, PlacesFit
    <2>3. Inserting(r) => own'[t][r.context] > 0
      BY <1>3, <1>4 DEF CInv, InserterKeepsAReference, Inserting
    <2>4. \A e : InLine(e)' = InLine(e)
      BY <1>4 DEF InLine
    <2>5. WillRemove(at[t]) => WillRemove(r)
      BY <1>3 DEF WillRemove, Inserting
    <2> HIDE DEF r
    <2> QED
      BY <1>2, <1>3, <1>4, <2>1, <2>2, <2>3, <2>4, <2>5, PlacesFollow
  <1>8. HashRefIsExact'
    <2>1. HashAt(at[t]) \in Int /\ Len(chain) \in Nat /\ hashRef \in Int /\ Len(chain') = Len(chain)
      BY <1>1, <1>4 DEF HashAt, Types
    <2>2. hashRef' = hashRef + (Len(chain') - Len(chain) + HashAt(r) - HashAt(at[t]))
      BY <1>4, <1>6, <2>1
    <2> HIDE DEF r
    <2> QED
      BY <1>1, <1>2, <2>2, HashRefFollows
  <1>9. ContextIsExact' /\ UNCHANGED <<TableOf, RefsOf>>
    <2>1. \A d \in Contexts : context[d] \in Int /\ RefsOf[d] \in Nat
      BY <1>1, TableCounts DEF Types
    <2>2. \A d \in Contexts : context'[d] = context[d] + (IF d = c THEN 1 ELSE 0)
      BY <1>1, <1>3, <1>4, <2>1 DEF Types
    <2>3. Inserting(r) <=> Inserting(at[t])
      BY <1>3 DEF Inserting
    <2> HIDE DEF r
    <2>4. \A d \in Contexts :
             context'[d] = context[d] + ((LinksAt(r, d) - LinksAt(at[t], d))
                                         + (FoundAt(r, d) - FoundAt(at[t], d)))
      BY <1>5, <2>1, <2>2
    <2>5. /\ ContextIsExact' /\ UNCHANGED TableOf
          /\ \A d \in Contexts :
                RefsOf'[d] = RefsOf[d] + ((FoundAt(r, d) - FoundAt(at[t], d))
                                          + (SearchesAt(r, d) - SearchesAt(at[t], d)))
      BY <1>1, <1>2, <1>3, <1>4, <2>3, <2>4, PlacesCountContexts
    <2>6. \A d \in Contexts : RefsOf'[d] = RefsOf[d]
      BY <1>5, <2>1, <2>5
    <2> QED
      BY <2>5, <2>6, SameRefs
  <1> QED
    BY <1>7, <1>8, <1>9 DEF CInv, Structure

-----------------------------------------------------------------------------
(* The table *)

LEMMA WithoutElement ==
  ASSUME NEW S, NEW s \in Seq(S), NEW n \in 1..Len(s), NEW w,
         w = SubSeq(s, 1, n - 1) \o SubSeq(s, n + 1, Len(s))
  PROVE  /\ w \in Seq(S) /\ Len(w) = Len(s) - 1
         /\ \A i \in 1..Len(w) : w[i] = IF i < n THEN s[i] ELSE s[i + 1]
  <1> DEFINE a == SubSeq(s, 1, n - 1)
             b == SubSeq(s, n + 1, Len(s))
  <1>1. s \in Seq(S) /\ Len(s) \in Nat /\ n \in 1..Len(s)
    OBVIOUS
  <1>2. /\ a \in Seq(S) /\ Len(a) = n - 1 /\ \A i \in 1..(n - 1) : a[i] = s[i]
        /\ b \in Seq(S) /\ Len(b) = Len(s) - n
        /\ \A i \in 1..(Len(s) - n) : b[i] = s[n + i]
    BY ONLY <1>1, SMTT(30)
  <1>3. w = a \o b
    OBVIOUS
  <1> HIDE DEF a, b
  <1>4. /\ w \in Seq(S) /\ Len(w) = Len(a) + Len(b)
        /\ \A i \in 1..(Len(a) + Len(b)) : w[i] = IF i <= Len(a) THEN a[i] ELSE b[i - Len(a)]
    <2>1. a \in Seq(S) /\ b \in Seq(S)
      BY <1>2
    <2>2. /\ a \o b \in Seq(S) /\ Len(a \o b) = Len(a) + Len(b)
          /\ \A i \in 1..(Len(a) + Len(b)) :
                (a \o b)[i] = IF i <= Len(a) THEN a[i] ELSE b[i - Len(a)]
      BY ONLY <2>1
    <2> QED
      BY ONLY <1>3, <2>2
  <1>5. Len(w) = Len(s) - 1 /\ Len(a) = n - 1 /\ n \in Int /\ n >= 1 /\ n <= Len(s)
    <2>1. /\ Len(w) = Len(a) + Len(b) /\ Len(a) = n - 1 /\ Len(b) = Len(s) - n
          /\ Len(s) \in Nat /\ n \in 1..Len(s)
      BY <1>1, <1>2, <1>4
    <2> QED
      BY ONLY <2>1
  <1>6. ASSUME NEW i \in 1..Len(w)
        PROVE  w[i] = IF i < n THEN s[i] ELSE s[i + 1]
    <2>1. i \in 1..(Len(a) + Len(b)) /\ w[i] = IF i <= n - 1 THEN a[i] ELSE b[i - (n - 1)]
      BY <1>4, <1>5
    <2>2. CASE i < n
      <3>1. i \in 1..(n - 1) /\ i <= n - 1
        BY <1>5, <2>2
      <3> QED
        BY <1>2, <2>1, <2>2, <3>1
    <2>3. CASE ~(i < n)
      <3>1. /\ i - (n - 1) \in 1..(Len(s) - n) /\ ~(i <= n - 1)
            /\ n + (i - (n - 1)) = i + 1
        <4>1. i \in 1..(Len(s) - 1)
          BY <1>5
        <4>2. n \in Int /\ Len(s) \in Int /\ ~(i < n) /\ n >= 1
          BY <1>1, <1>5, <2>3
        <4> QED
          BY ONLY <4>1, <4>2
      <3> QED
        BY <1>2, <2>1, <2>3, <3>1
    <2> QED
      BY <2>2, <2>3
  <1> QED
    BY <1>4, <1>5, <1>6

LEMMA SameSequence ==
  ASSUME NEW S, NEW s \in Seq(S), NEW w \in Seq(S), Len(s) = Len(w),
         \A i \in 1..Len(s) : s[i] = w[i]
  PROVE  s = w
  <1>1. /\ s = [i \in 1..Len(s) |-> s[i]] /\ w = [i \in 1..Len(w) |-> w[i]]
    OBVIOUS
  <1> QED
    BY <1>1

\* The table shows the contexts of the line, and a search finds the same.
TableShowsLine ==
  /\ TableOf \in Seq(Contexts) /\ Len(TableOf) = Len(chain) /\ Len(chain) \in Nat
  /\ DOMAIN chain = 1..Len(chain)
  /\ \A i \in 1..Len(chain) : TableOf[i] = entry[chain[i]].context
  /\ \A k : First(k) = Table!First(k)

LEMMA TableShows == IInv => TableShowsLine
  <1> SUFFICES ASSUME IInv PROVE TableShowsLine
    OBVIOUS
  <1>1. /\ chain \in Seq(Entries) /\ Len(chain) \in Nat /\ DOMAIN chain = 1..Len(chain)
    BY DEF IInv, Types
  <1>2. \A i \in 1..Len(chain) : entry[chain[i]].context \in Contexts
    BY <1>1, LinkedEntry DEF InLine
  <1>3. /\ TableOf = [i \in 1..Len(chain) |-> entry[chain[i]].context]
        /\ TableOf \in [1..Len(chain) -> Contexts]
    BY <1>1, <1>2 DEF TableOf
  <1>4. TableOf \in Seq(Contexts) /\ Len(TableOf) = Len(chain) /\ DOMAIN TableOf = DOMAIN chain
    BY <1>1, <1>3
  <1>5. ASSUME NEW k PROVE First(k) = Table!First(k)
    <2>1. ASSUME NEW i \in DOMAIN chain
          PROVE  i \in First(k) <=> i \in Table!First(k)
      <3>1. \A j \in 1..(i - 1) : j \in 1..Len(chain)
        BY <1>1
      <3> QED
        BY <1>1, <1>3, <1>4, <3>1 DEF First, Table!First
    <2>2. First(k) \subseteq DOMAIN chain /\ Table!First(k) \subseteq DOMAIN chain
      BY <1>4 DEF First, Table!First
    <2> QED
      BY <2>1, <2>2
  <1> QED
    BY <1>1, <1>3, <1>4, <1>5 DEF TableShowsLine

LEMMA TableShowsNext == IInv' => TableShowsLine'
  BY TableShows, PTL

LEMMA TableLinks ==
  ASSUME IInv, IInv', NEW f \in Entries, chain' = <<f>> \o chain, UNCHANGED entry
  PROVE  TableOf' = <<entry[f].context>> \o TableOf
  <1> DEFINE w == <<entry[f].context>> \o TableOf
             v == TableOf'
  <1>1. /\ TableOf \in Seq(Contexts) /\ Len(TableOf) = Len(chain) /\ Len(chain) \in Nat
        /\ \A i \in 1..Len(chain) : TableOf[i] = entry[chain[i]].context
    BY TableShows DEF TableShowsLine
  <1>2. /\ v \in Seq(Contexts) /\ Len(v) = Len(chain')
        /\ \A i \in 1..Len(chain') : v[i] = entry[chain'[i]].context
    BY TableShowsNext DEF TableShowsLine
  <1>3. /\ chain \in Seq(Entries) /\ Len(chain') = Len(chain) + 1 /\ chain'[1] = f
        /\ \A i \in 2..Len(chain') : chain'[i] = chain[i - 1]
    BY DEF IInv, Types
  <1>4. entry[f].context \in Contexts
    <2>1. 1 \in 1..Len(chain') /\ v[1] \in Contexts
      BY <1>1, <1>2, <1>3
    <2> QED
      BY <1>2, <1>3, <2>1
  <1>5. /\ w \in Seq(Contexts) /\ Len(w) = Len(chain) + 1 /\ w[1] = entry[f].context
        /\ \A i \in 2..Len(w) : w[i] = TableOf[i - 1]
    BY <1>1, <1>4
  <1> HIDE DEF w, v
  <1>6. \A i \in 1..Len(v) : v[i] = w[i]
    <2> SUFFICES ASSUME NEW i \in 1..Len(v) PROVE v[i] = w[i]
      OBVIOUS
    <2>1. CASE i = 1
      BY <1>2, <1>3, <1>5, <2>1
    <2>2. CASE i # 1
      <3>1. i \in 2..Len(w) /\ i \in 2..Len(chain') /\ i - 1 \in 1..Len(chain)
        BY <1>1, <1>2, <1>3, <1>5, <2>2
      <3> QED
        BY <1>1, <1>2, <1>3, <1>5, <3>1
    <2> QED
      BY <2>1, <2>2
  <1>7. v = w
    BY <1>2, <1>3, <1>5, <1>6, SameSequence
  <1> QED
    BY <1>7 DEF v, w

LEMMA TableUnlinks ==
  ASSUME IInv, IInv', NEW n \in DOMAIN chain, UNCHANGED entry,
         chain' = SubSeq(chain, 1, n - 1) \o SubSeq(chain, n + 1, Len(chain))
  PROVE  TableOf' = Table!Without(n)
  <1> DEFINE v == TableOf'
             w == SubSeq(TableOf, 1, n - 1) \o SubSeq(TableOf, n + 1, Len(TableOf))
             x == chain'
  <1>1. /\ TableOf \in Seq(Contexts) /\ Len(TableOf) = Len(chain) /\ Len(chain) \in Nat
        /\ \A i \in 1..Len(chain) : TableOf[i] = entry[chain[i]].context
        /\ n \in 1..Len(chain)
    BY TableShows DEF TableShowsLine
  <1>2. /\ v \in Seq(Contexts) /\ Len(v) = Len(x)
        /\ \A i \in 1..Len(x) : v[i] = entry[x[i]].context
    BY TableShowsNext DEF TableShowsLine
  <1>3. /\ Len(x) = Len(chain) - 1
        /\ \A i \in 1..Len(x) : x[i] = IF i < n THEN chain[i] ELSE chain[i + 1]
    <2>1. chain \in Seq(Entries) /\ n \in 1..Len(chain)
      BY <1>1 DEF IInv, Types
    <2>2. x = SubSeq(chain, 1, n - 1) \o SubSeq(chain, n + 1, Len(chain))
      OBVIOUS
    <2> HIDE DEF x
    <2> QED
      BY ONLY <2>1, <2>2, WithoutElement, SMTT(30)
  <1>4. /\ w \in Seq(Contexts) /\ Len(w) = Len(TableOf) - 1
        /\ \A i \in 1..Len(w) : w[i] = IF i < n THEN TableOf[i] ELSE TableOf[i + 1]
    <2> DEFINE u == TableOf
    <2>1. u \in Seq(Contexts) /\ n \in 1..Len(u)
      BY <1>1
    <2>2. w = SubSeq(u, 1, n - 1) \o SubSeq(u, n + 1, Len(u))
      OBVIOUS
    <2> HIDE DEF u, w
    <2>3. /\ w \in Seq(Contexts) /\ Len(w) = Len(u) - 1
          /\ \A i \in 1..Len(w) : w[i] = IF i < n THEN u[i] ELSE u[i + 1]
      BY ONLY <2>1, <2>2, WithoutElement, SMTT(30)
    <2> QED
      BY <2>3 DEF u
  <1>5. w = Table!Without(n)
    BY DEF Table!Without
  <1> HIDE DEF v, w, x
  <1>6. \A i \in 1..Len(v) : v[i] = w[i]
    <2> SUFFICES ASSUME NEW i \in 1..Len(v) PROVE v[i] = w[i]
      OBVIOUS
    <2>1. i \in 1..Len(x) /\ i \in 1..Len(w) /\ i \in 1..Len(chain) /\ i + 1 \in 1..Len(chain)
      BY <1>1, <1>2, <1>3, <1>4
    <2> QED
      BY <1>1, <1>2, <1>3, <1>4, <2>1
  <1>7. v = w
    BY <1>1, <1>2, <1>3, <1>4, <1>6, SameSequence
  <1> QED
    BY <1>5, <1>7 DEF v

LEMMA LocateContexts ==
  ASSUME IInv, IInv', CInv, NEW t \in Threads, NEW k \in Keys, Locate(t, k)
  PROVE  CInv' /\ \E i \in Table!First(k) : Table!Find(i)
  <1>0. PICK f \in {chain[i] : i \in First(k)} :
          /\ entry' = [entry EXCEPT ![f].ref = @ + 1, ![f].purgeDisabled = @ + 1]
          /\ at' = [at EXCEPT ![t] = [pc |-> "apply", op |-> "find", entry |-> f,
                                      context |-> entry[f].context]]
    BY DEF Locate
  <1>1. PICK i \in First(k) : f = chain[i]
    BY <1>0
  <1> DEFINE c == entry[f].context
             r == [pc |-> "apply", op |-> "find", entry |-> f, context |-> c]
  <1>2. Types /\ Types' /\ InLine(f) /\ i \in DOMAIN chain
    BY <1>1 DEF First, IInv, InLine
  <1>3. /\ f \in Entries /\ c \in Contexts
        /\ \A u \in Threads : at[u].entry = f => ~OwnsLine(u)
    BY <1>2, LinkedEntry
  <1>4. at[t].pc = "idle" /\ UNCHANGED <<chain, context, hashRef, own>>
    BY DEF Locate
  <1>5. \A e \in Entries : /\ entry'[e].context = entry[e].context
                           /\ entry'[e].delete = entry[e].delete
    <2>1. \A e \in Entries : entry[e] \in Records
      BY <1>2 DEF Types
    <2> QED
      BY <1>0, <1>2, <1>3, <2>1 DEF Types, Records
  <1> HIDE DEF c
  <1>6. at' = [at EXCEPT ![t] = r] /\ r \in Places
    BY <1>0, <1>3 DEF Places, c
  <1>7. \A d \in Contexts :
        /\ LinksAt(r, d) = 0 /\ LinksAt(at[t], d) = 0
        /\ FoundAt(r, d) = 0 /\ FoundAt(at[t], d) = 0
        /\ SearchesAt(r, d) = (IF d = c THEN 1 ELSE 0) /\ SearchesAt(at[t], d) = 0
    BY <1>4 DEF LinksAt, FoundAt, SearchesAt
  <1>8. /\ HashAt(r) = 0 /\ HashAt(at[t]) = 0 /\ PlaceFits(r)
        /\ ~Inserting(r) /\ ~Inserting(at[t])
    BY <1>3, <1>4 DEF HashAt, OwnsHash, PlaceFits, NeedsContext, Inserting
  <1>9. Structure'
    <2>1. \A u \in Threads \ {t} : Inserting(at[u]) \/ Inserting(r) => at[u].entry # r.entry
      BY <1>3, <1>8 DEF Inserting, OwnsLine
    <2>2. r.pc \in {"reference", "link", "apply"} => entry'[r.entry].context = r.context
      BY <1>3, <1>5 DEF c
    <2>3. \A e : InLine(e)' = InLine(e)
      BY <1>4 DEF InLine
    <2>4. ~WillRemove(at[t])
      BY <1>4 DEF WillRemove, Inserting
    <2> HIDE DEF r
    <2> QED
      BY <1>4, <1>5, <1>6, <1>8, <2>1, <2>2, <2>3, <2>4, PlacesFollow
  <1>10. HashRefIsExact'
    <2>1. Len(chain) \in Nat /\ hashRef \in Int /\ Len(chain') = Len(chain) /\ hashRef' = hashRef
      BY <1>2, <1>4 DEF Types
    <2>2. hashRef' = hashRef + (Len(chain') - Len(chain) + HashAt(r) - HashAt(at[t]))
      BY <1>8, <2>1
    <2> HIDE DEF r
    <2> QED
      BY <1>2, <1>6, <2>2, HashRefFollows
  <1>11. /\ ContextIsExact' /\ UNCHANGED TableOf
         /\ RefsOf' = [RefsOf EXCEPT ![c] = @ + 1]
    <2>1. \A d \in Contexts : context[d] \in Int /\ RefsOf[d] \in Nat
      BY <1>2, TableCounts DEF Types
    <2> HIDE DEF r
    <2>2. \A d \in Contexts :
             context'[d] = context[d] + ((LinksAt(r, d) - LinksAt(at[t], d))
                                         + (FoundAt(r, d) - FoundAt(at[t], d)))
      BY <1>4, <1>7, <2>1
    <2>3. /\ ContextIsExact' /\ UNCHANGED TableOf
          /\ \A d \in Contexts :
                RefsOf'[d] = RefsOf[d] + ((FoundAt(r, d) - FoundAt(at[t], d))
                                          + (SearchesAt(r, d) - SearchesAt(at[t], d)))
      BY <1>2, <1>4, <1>5, <1>6, <1>8, <2>2, PlacesCountContexts
    <2>4. \A d \in Contexts : RefsOf'[d] = RefsOf[d] + (IF d = c THEN 1 ELSE 0)
      BY <1>7, <2>1, <2>3
    <2>5. RefsOf' = [RefsOf EXCEPT ![c] = @ + 1]
      <3>1. 1 \in Int /\ \A d \in Contexts : RefsOf[d] \in Nat
        BY <2>1
      <3> QED
        BY ONLY <1>3, <2>4, <3>1, RefsMove
    <2> QED
      BY <2>3, <2>5
  <1>12. TableOf[i] = c /\ i \in Table!First(k)
    BY <1>1, <1>2, TableShows DEF TableShowsLine, c
  <1>13. Table!Find(i)
    BY <1>11, <1>12 DEF Table!Find
  <1> QED
    BY <1>9, <1>10, <1>11, <1>12, <1>13 DEF CInv, Structure

\* The removed entries, in terms of the lines and the inserting threads.
LEMMA RemovedAre ==
  ASSUME NEW c
  PROVE  Removed(c) = {e \in Entries : /\ ~InLine(e) /\ entry[e].context = c
                                       /\ \A u \in Threads : Inserting(at[u]) => at[u].entry # e}
  BY DEF Removed, ToSet, InLine, In, Inserting

LEMMA RemovedNext ==
  \A c : Removed(c)' = {e \in Entries : /\ ~InLine(e)' /\ entry'[e].context = c
                           /\ \A u \in Threads : Inserting(at'[u]) => at'[u].entry # e}
  BY DEF Removed, ToSet, InLine, In, Inserting

\* An entry leaves the line.
LEMMA LineLoses ==
  ASSUME IInv, NEW t \in Threads, NEW r, at' = [at EXCEPT ![t] = r], NEW f, InLine(f),
         \A e : InLine(e)' <=> InLine(e) /\ e # f, UNCHANGED entry,
         ~Inserting(r), ~Inserting(at[t]), NEW c
  PROVE  /\ Cardinality(Linked(c)') =
              Cardinality(Linked(c)) + (IF c = entry[f].context THEN -1 ELSE 0)
         /\ Cardinality(Removed(c)') =
              Cardinality(Removed(c)) + (IF c = entry[f].context THEN 1 ELSE 0)
  <1>1. /\ f \in Entries
        /\ \A u \in Threads : Inserting(at[u]) => at[u].entry # f
    BY LinkedEntry DEF Inserting, OwnsLine
  <1>2. \A u \in Threads : at'[u] = IF u = t THEN r ELSE at[u]
    BY DEF IInv, Types
  <1>3. \A e : (\A u \in Threads : Inserting(at'[u]) => at'[u].entry # e)
                 <=> (\A u \in Threads : Inserting(at[u]) => at[u].entry # e)
    BY <1>2
  <1>4. Removed(c) = {e \in Entries : /\ ~InLine(e) /\ entry[e].context = c
                                      /\ \A u \in Threads : Inserting(at[u]) => at[u].entry # e}
    BY RemovedAre
  <1>5. Removed(c)' = {e \in Entries : /\ ~InLine(e)' /\ entry[e].context = c
                                      /\ \A u \in Threads : Inserting(at[u]) => at[u].entry # e}
    <2>1. Removed(c)' = {e \in Entries : /\ ~InLine(e)' /\ entry'[e].context = c
                            /\ \A u \in Threads : Inserting(at'[u]) => at'[u].entry # e}
      BY RemovedNext
    <2> QED
      BY <1>3, <2>1
  <1>6. Linked(c)' = {e \in Entries : InLine(e)' /\ entry[e].context = c}
    BY DEF Linked
  <1>7. /\ IsFiniteSet(Linked(c)) /\ IsFiniteSet(Removed(c))
        /\ Cardinality(Linked(c)) \in Nat /\ Cardinality(Removed(c)) \in Nat
    BY CountsAreFinite
  <1>8. CASE c = entry[f].context
    <2>1. Linked(c)' = Linked(c) \ {f} /\ f \in Linked(c)
      BY <1>1, <1>6, <1>8 DEF Linked
    <2>2. Removed(c)' = Removed(c) \cup {f} /\ f \notin Removed(c)
      BY <1>1, <1>4, <1>5, <1>8
    <2>3. Cardinality(Linked(c) \ {f}) = Cardinality(Linked(c)) - 1
      BY <1>7, <2>1, FS_RemoveElement
    <2>4. Cardinality(Removed(c) \cup {f}) = Cardinality(Removed(c)) + 1
      BY <1>7, <2>2, FS_AddElement
    <2> QED
      BY <1>7, <1>8, <2>1, <2>2, <2>3, <2>4
  <1>9. CASE c # entry[f].context
    <2>1. Linked(c)' = Linked(c)
      BY <1>6, <1>9 DEF Linked
    <2>2. Removed(c)' = Removed(c)
      BY <1>4, <1>5, <1>9
    <2> QED
      BY <1>7, <1>9, <2>1, <2>2
  <1> QED
    BY <1>8, <1>9

\* Unlink and the purge take an entry out of the line in the same way.
LEMMA LineLosesContexts ==
  ASSUME IInv, IInv', CInv, NEW t \in Threads, NEW r \in Places, at' = [at EXCEPT ![t] = r],
         NEW n \in DOMAIN chain, UNCHANGED <<entry, context, hashRef, own>>,
         chain' = SubSeq(chain, 1, n - 1) \o SubSeq(chain, n + 1, Len(chain)),
         Len(chain') = Len(chain) - 1, \A e : InLine(e)' <=> InLine(e) /\ e # chain[n],
         at[t].pc \in {"idle", "purge"}, r.pc \in {"setFunction", "waitForFinders"},
         r.op \in {"remove", "purge"}, r.entry = chain[n]
  PROVE  CInv' /\ Table!Remove(n)
  <1> DEFINE f == chain[n]
             c == entry[f].context
  <1>1. Types /\ Types' /\ InLine(f)
    BY DEF IInv, Types, InLine
  <1>2. /\ f \in Entries /\ c \in Contexts
        /\ \A u \in Threads : at[u].entry = f => ~OwnsLine(u)
    BY <1>1, LinkedEntry
  <1>3. TableOf' = Table!Without(n) /\ TableOf[n] = c
    <2>1. TableOf' = Table!Without(n)
      BY TableUnlinks
    <2>2. TableOf[n] = c
      BY TableShows DEF TableShowsLine
    <2> QED
      BY <2>1, <2>2
  <1>4. \A e : InLine(e)' <=> InLine(e) /\ e # f
    OBVIOUS
  <1> HIDE DEF f, c
  <1>5. /\ \A d \in Contexts :
              /\ LinksAt(r, d) = 0 /\ LinksAt(at[t], d) = 0
              /\ FoundAt(r, d) = 0 /\ FoundAt(at[t], d) = 0
              /\ SearchesAt(r, d) = 0 /\ SearchesAt(at[t], d) = 0
        /\ HashAt(r) = 1 /\ HashAt(at[t]) = 0 /\ PlaceFits(r)
        /\ ~Inserting(r) /\ ~Inserting(at[t]) /\ WillRemove(r) /\ ~WillRemove(at[t])
    BY DEF LinksAt, FoundAt, SearchesAt, HashAt, OwnsHash, PlaceFits, NeedsContext, Inserting,
       WillRemove
  <1>6. Structure'
    <2>1. \A u \in Threads \ {t} : Inserting(at[u]) \/ Inserting(r) => at[u].entry # r.entry
      BY <1>2, <1>5 DEF Inserting, OwnsLine, f
    <2>2. r.entry = f
      BY DEF f
    <2> QED
      BY <1>4, <1>5, <2>1, <2>2, PlacesFollow
  <1>7. HashRefIsExact'
    <2>1. /\ Len(chain) \in Nat /\ hashRef \in Int /\ hashRef' = hashRef
          /\ Len(chain') = Len(chain) - 1 /\ HashAt(r) = 1 /\ HashAt(at[t]) = 0
      BY <1>1, <1>5 DEF Types
    <2>2. hashRef' = hashRef + (Len(chain') - Len(chain) + HashAt(r) - HashAt(at[t]))
      BY ONLY <2>1
    <2> QED
      BY <1>1, <2>2, HashRefFollows
  <1>8. ASSUME NEW d \in Contexts
        PROVE  Exact(d)' /\ RefsOf'[d] = RefsOf[d] + (IF d = c THEN -1 ELSE 0)
    <2> DEFINE j == IF d = c THEN -1 ELSE 0
               k == IF d = c THEN 1 ELSE 0
    <2>1. /\ Tokens(d)' = Tokens(d) /\ IsFiniteSet(Tokens(d)) /\ context[d] \in Int
          /\ context' = context
      BY <1>1 DEF Tokens, CInv, ContextIsExact, Types
    <2>2. /\ Cardinality(Tokens(d)) \in Nat /\ Cardinality(Linked(d)) \in Nat
          /\ Cardinality(Linking(d)) \in Nat /\ Cardinality(Removed(d)) \in Nat
          /\ Cardinality(Found(d)) \in Nat /\ Cardinality(Searching(d)) \in Nat
      BY <2>1, CountsAreFinite, FS_CardinalityType
    <2>3. /\ Cardinality(Linked(d)') = Cardinality(Linked(d)) + j
          /\ Cardinality(Removed(d)') = Cardinality(Removed(d)) + k
      <3>1. /\ at' = [at EXCEPT ![t] = r] /\ UNCHANGED entry /\ IInv
            /\ ~Inserting(r) /\ ~Inserting(at[t])
        BY <1>5
      <3> QED
        BY ONLY <1>1, <1>4, <3>1, t \in Threads, LineLoses DEF c
    <2>4. /\ Cardinality(Linking(d)') = Cardinality(Linking(d))
          /\ Cardinality(Searching(d)') = Cardinality(Searching(d))
          /\ Cardinality(Found(d)') = Cardinality(Found(d))
      <3>1. /\ Cardinality(Linking(d)') =
                 Cardinality(Linking(d)) + LinksAt(r, d) - LinksAt(at[t], d)
            /\ Cardinality(Searching(d)') =
                 Cardinality(Searching(d)) + SearchesAt(r, d) - SearchesAt(at[t], d)
            /\ Cardinality(Found(d)') =
                 Cardinality(Found(d)) + FoundAt(r, d) - FoundAt(at[t], d)
        <4>1. Types /\ at' = [at EXCEPT ![t] = r]
          BY <1>1
        <4> QED
          BY ONLY <4>1, t \in Threads, PlacesCount
      <3> QED
        BY <1>5, <2>2, <3>1
    <2>5. j \in Int /\ k \in Int /\ j + k = 0
      OBVIOUS
    <2> HIDE DEF j, k
    <2>6. Changes(d, 0, j, 0, k, 0, 0)
      BY ONLY <2>1, <2>2, <2>3, <2>4, <2>5 DEF Changes
    <2>7. context'[d] = context[d] + 0 + j + 0 + k + 0
      BY ONLY <2>1, <2>5
    <2>8. Exact(d)' /\ RefsOf'[d] = RefsOf[d] + 0 + j + 0 + 0
      <3>1. 0 \in Int
        OBVIOUS
      <3> QED
        BY ONLY <1>1, <2>5, <2>6, <2>7, <3>1, OneContext, CInv, d \in Contexts
    <2>9. RefsOf[d] \in Nat
      BY <1>1, TableCounts
    <2>10. RefsOf'[d] = RefsOf[d] + j
      BY <2>5, <2>8, <2>9
    <2> QED
      BY <2>8, <2>10 DEF j
  <1>9. ContextIsExact'
    BY <1>8 DEF ContextIsExact, Exact
  <1>10. RefsOf[c] > 0 /\ \A d \in Contexts : RefsOf[d] \in Nat
    <2>1. f \in Linked(c)
      BY <1>1, <1>2 DEF Linked, c
    <2> QED
      BY <1>1, <1>2, <2>1, TableCounts
  <1>11. RefsOf' = [RefsOf EXCEPT ![c] = @ - 1]
    <2>1. -1 \in Int /\ RefsOf[c] + (-1) = RefsOf[c] - 1
      BY <1>2, <1>10
    <2>2. RefsOf' = [RefsOf EXCEPT ![c] = @ + (-1)]
      BY ONLY <1>2, <1>8, <1>10, <2>1, RefsMove
    <2> QED
      BY <2>1, <2>2
  <1>12. Table!Remove(n)
    BY <1>3, <1>10, <1>11 DEF Table!Remove
  <1> QED
    BY <1>6, <1>7, <1>9, <1>12 DEF CInv, Structure

LEMMA UnlinkContexts ==
  ASSUME IInv, IInv', CInv, NEW t \in Threads, NEW k \in Keys, Unlink(t, k)
  PROVE  CInv' /\ \E i \in Table!First(k) : Table!Remove(i)
  <1>1. PICK n \in First(k) :
          /\ chain' = RemoveAt(chain, n)
          /\ at' = [at EXCEPT ![t] = [pc |-> "setFunction", op |-> "remove",
                                      entry |-> chain[n], context |-> None]]
    BY DEF Unlink
  <1> DEFINE r == [pc |-> "setFunction", op |-> "remove", entry |-> chain[n], context |-> None]
  <1>2. n \in DOMAIN chain /\ Types /\ NoEntryTwice
    BY DEF First, IInv
  <1>3. /\ InLine(chain[n]) /\ chain[n] \in Entries
        /\ \A e : InLine(e)' <=> InLine(e) /\ e # chain[n]
    BY <1>1, <1>2, UnlinkedLine, LinkedEntry
  <1>4. /\ chain' = SubSeq(chain, 1, n - 1) \o SubSeq(chain, n + 1, Len(chain))
        /\ Len(chain') = Len(chain) - 1
    <2>1. chain' = SubSeq(chain, 1, n - 1) \o SubSeq(chain, n + 1, Len(chain))
      BY <1>1 DEF RemoveAt
    <2>2. chain \in Seq(Entries) /\ n \in 1..Len(chain)
      BY <1>2 DEF Types
    <2> QED
      BY <2>1, <2>2, WithoutElement
  <1>5. r \in Places /\ at' = [at EXCEPT ![t] = r]
    BY <1>1, <1>3 DEF Places
  <1>6. at[t].pc = "idle" /\ UNCHANGED <<entry, context, hashRef, own>>
    BY DEF Unlink
  <1>7. CInv' /\ Table!Remove(n)
    <2>1. /\ r.pc \in {"setFunction", "waitForFinders"} /\ r.op \in {"remove", "purge"}
          /\ r.entry = chain[n]
      OBVIOUS
    <2> HIDE DEF r
    <2> QED
      BY <1>2, <1>3, <1>4, <1>5, <1>6, <2>1, LineLosesContexts
  <1>8. n \in Table!First(k)
    BY <1>1, TableShows DEF TableShowsLine
  <1> QED
    BY <1>7, <1>8

LEMMA PurgeNextContexts ==
  ASSUME IInv, IInv', CInv, NEW t \in Threads, PurgeNext(t)
  PROVE  /\ CInv'
         /\ \/ \E k \in Keys : \E i \in Table!First(k) : Table!Remove(i)
            \/ UNCHANGED <<TableOf, RefsOf>>
  <1>1. Types /\ NoEntryTwice /\ at[t] \in Places /\ PlaceFits(at[t])
    BY DEF IInv, Types, CInv, PlacesFit
  <1>2. at[t].pc = "purge" /\ UNCHANGED <<entry, context, hashRef, own>>
    BY DEF PurgeNext
  <1>3. CASE chain = <<>>
    <2>1. at' = [at EXCEPT ![t] = Idle] /\ Idle \in Places /\ UNCHANGED chain
      BY <1>3, HashAssumption DEF PurgeNext, Places, Idle
    <2>2. /\ PlaceFits(Idle) /\ Idle.entry = None /\ Idle.pc = "idle"
          /\ \A c \in Contexts : FoundAt(Idle, c) = FoundAt(at[t], c)
          /\ HashAt(Idle) = 0 /\ HashAt(at[t]) = 0
      BY <1>2 DEF PlaceFits, NeedsContext, Inserting, FoundAt, HashAt, OwnsHash, Idle
    <2>3. hashRef' = hashRef + (HashAt(Idle) - HashAt(at[t]))
      BY <1>1, <1>2, <2>2 DEF Types
    <2> QED
      BY <1>2, <2>1, <2>2, <2>3, QuietStep
  <1>4. CASE chain # <<>>
    <2> DEFINE f == chain[1]
               r == [at[t] EXCEPT !.pc = "waitForFinders", !.entry = f]
               k == KeyOf[entry[f].context]
    <2>1. /\ chain \in Seq(Entries) /\ Len(chain) \in Nat /\ Len(chain) >= 1
          /\ DOMAIN chain = 1..Len(chain) /\ Head(chain) = f
      BY <1>1, <1>4 DEF Types
    <2>2. /\ chain' = Tail(chain) /\ at' = [at EXCEPT ![t] = [[at[t] EXCEPT !.pc = "waitForFinders"]
                                                                    EXCEPT !.entry = f]]
      BY <1>1, <1>4, <2>1 DEF PurgeNext, Types
    <2>3. /\ InLine(f) /\ \A e : InLine(e)' <=> InLine(e) /\ e # f
      BY <1>1, <1>4, <2>1, <2>2, PurgedLine
    <2>4. f \in Entries /\ entry[f].context \in Contexts /\ k \in Keys
      BY <2>3, LinkedEntry, HashAssumption
    <2>5. /\ r \in Places /\ r.pc = "waitForFinders" /\ r.entry = f /\ r.op = at[t].op
          /\ r.op \in {"remove", "purge"} /\ at' = [at EXCEPT ![t] = r]
      BY <1>1, <1>2, <2>2, <2>4 DEF Places, PlaceFits
    <2>6. /\ chain' = SubSeq(chain, 1, 1 - 1) \o SubSeq(chain, 1 + 1, Len(chain))
          /\ Len(chain') = Len(chain) - 1
      <3> DEFINE w == SubSeq(chain, 1, 1 - 1) \o SubSeq(chain, 1 + 1, Len(chain))
                 v == Tail(chain)
      <3>1. /\ v \in Seq(Entries) /\ Len(v) = Len(chain) - 1
            /\ \A i \in 1..Len(v) : v[i] = chain[i + 1]
        BY <2>1
      <3>2. /\ w \in Seq(Entries) /\ Len(w) = Len(chain) - 1
            /\ \A i \in 1..Len(w) : w[i] = IF i < 1 THEN chain[i] ELSE chain[i + 1]
        <4>1. 1 \in 1..Len(chain)
          BY <2>1
        <4> QED
          BY <2>1, <4>1, WithoutElement
      <3> HIDE DEF v, w
      <3>3. \A i \in 1..Len(v) : v[i] = w[i]
        BY <3>1, <3>2
      <3>4. v = w
        BY <3>1, <3>2, <3>3, SameSequence
      <3> QED
        BY <2>2, <3>1, <3>4 DEF v, w
    <2>7. CInv' /\ Table!Remove(1)
      <3>1. 1 \in DOMAIN chain
        BY <2>1
      <3> HIDE DEF r
      <3> QED
        BY ONLY <1>2, <2>3, <2>5, <2>6, <3>1, LineLosesContexts, IInv, IInv', CInv,
           t \in Threads
    <2>8. 1 \in Table!First(k)
      <3>1. 1 \in First(k)
        BY <2>1 DEF First
      <3> QED
        BY <3>1, TableShows DEF TableShowsLine
    <2> QED
      BY <2>4, <2>7, <2>8
  <1> QED
    BY <1>3, <1>4

\* By how much a step changes the counts of a context, and its thread's place.
TokensGain(c) == Cardinality(Tokens(c)') - Cardinality(Tokens(c))
LinkedGain(c) == Cardinality(Linked(c)') - Cardinality(Linked(c))
RemovedGain(c) == Cardinality(Removed(c)') - Cardinality(Removed(c))
LinksGain(r, t, c) == LinksAt(r, c) - LinksAt(at[t], c)
FoundGain(r, t, c) == FoundAt(r, c) - FoundAt(at[t], c)
SearchesGain(r, t, c) == SearchesAt(r, c) - SearchesAt(at[t], c)

LEMMA OneContextAndPlaces ==
  ASSUME Types, Types', CInv, NEW t \in Threads, NEW r, at' = [at EXCEPT ![t] = r],
         NEW c \in Contexts, IsFiniteSet(Tokens(c)'),
         context'[c] = context[c] + (TokensGain(c) + LinkedGain(c) + LinksGain(r, t, c)
                                     + RemovedGain(c) + FoundGain(r, t, c))
  PROVE  /\ Exact(c)'
         /\ RefsOf'[c] = RefsOf[c] + (TokensGain(c) + LinkedGain(c) + FoundGain(r, t, c)
                                      + SearchesGain(r, t, c))
  <1> DEFINE T == TokensGain(c)
             K == LinkedGain(c)
             R == RemovedGain(c)
             L == LinksGain(r, t, c)
             F == FoundGain(r, t, c)
             S == SearchesGain(r, t, c)
  <1>1. /\ Cardinality(Linking(c)') = Cardinality(Linking(c)) + L
        /\ Cardinality(Searching(c)') = Cardinality(Searching(c)) + S
        /\ Cardinality(Found(c)') = Cardinality(Found(c)) + F
        /\ L \in Int /\ F \in Int /\ S \in Int
    <2>1. /\ Cardinality(Linking(c)') =
               Cardinality(Linking(c)) + LinksAt(r, c) - LinksAt(at[t], c)
          /\ Cardinality(Searching(c)') =
               Cardinality(Searching(c)) + SearchesAt(r, c) - SearchesAt(at[t], c)
          /\ Cardinality(Found(c)') =
               Cardinality(Found(c)) + FoundAt(r, c) - FoundAt(at[t], c)
      <3>1. Types /\ at' = [at EXCEPT ![t] = r]
        OBVIOUS
      <3> QED
        BY ONLY <3>1, t \in Threads, PlacesCount
    <2>2. /\ Cardinality(Linking(c)) \in Nat /\ Cardinality(Searching(c)) \in Nat
          /\ Cardinality(Found(c)) \in Nat
          /\ LinksAt(r, c) \in Int /\ LinksAt(at[t], c) \in Int
          /\ SearchesAt(r, c) \in Int /\ SearchesAt(at[t], c) \in Int
          /\ FoundAt(r, c) \in Int /\ FoundAt(at[t], c) \in Int
      BY CountsAreFinite DEF LinksAt, SearchesAt, FoundAt
    <2> QED
      BY ONLY <2>1, <2>2 DEF LinksGain, FoundGain, SearchesGain
  <1>2. /\ Cardinality(Tokens(c)') = Cardinality(Tokens(c)) + T
        /\ Cardinality(Linked(c)') = Cardinality(Linked(c)) + K
        /\ Cardinality(Removed(c)') = Cardinality(Removed(c)) + R
        /\ T \in Int /\ K \in Int /\ R \in Int
    <2>1. /\ IsFiniteSet(Linked(c)') /\ IsFiniteSet(Removed(c)')
      <3>1. /\ Linked(c)' \subseteq Entries /\ Removed(c)' \subseteq Entries
            /\ IsFiniteSet(Entries)
        BY FS_Interval, HashAssumption DEF Linked, Removed, Entries
      <3> QED
        BY <3>1, FS_Subset
    <2>2. IsFiniteSet(Tokens(c)) /\ IsFiniteSet(Tokens(c)')
      BY DEF CInv, ContextIsExact
    <2>3. /\ Cardinality(Tokens(c)) \in Nat /\ Cardinality(Tokens(c)') \in Nat
          /\ Cardinality(Linked(c)) \in Nat /\ Cardinality(Linked(c)') \in Nat
          /\ Cardinality(Removed(c)) \in Nat /\ Cardinality(Removed(c)') \in Nat
      BY <2>1, <2>2, CountsAreFinite, FS_CardinalityType
    <2> QED
      BY ONLY <2>3 DEF TokensGain, LinkedGain, RemovedGain
  <1>3. context[c] \in Int /\ RefsOf[c] \in Nat
    BY TableCounts DEF Types
  <1>4. context'[c] = context[c] + (T + K + L + R + F)
    OBVIOUS
  <1> HIDE DEF T, K, R, L, F, S
  <1>5. context'[c] = context[c] + T + K + L + R + F
    BY ONLY <1>1, <1>2, <1>3, <1>4
  <1>6. Changes(c, T, K, L, R, F, S)
    BY <1>1, <1>2 DEF Changes
  <1>7. Exact(c)' /\ RefsOf'[c] = RefsOf[c] + T + K + F + S
    BY <1>1, <1>2, <1>5, <1>6, OneContext
  <1>8. RefsOf'[c] = RefsOf[c] + (T + K + F + S)
    BY ONLY <1>1, <1>2, <1>3, <1>7
  <1> QED
    BY <1>7, <1>8 DEF T, K, F, S

LEMMA LinkContexts ==
  ASSUME IInv, IInv', CInv, NEW t \in Threads, Link(t)
  PROVE  CInv' /\ \E c \in Contexts : Table!Insert(c)
  <1> DEFINE f == at[t].entry
             c == at[t].context
  <1>1. /\ Types /\ Types' /\ at[t].pc = "link" /\ at' = [at EXCEPT ![t] = Idle]
        /\ Idle \in Places /\ chain' = <<f>> \o chain
        /\ UNCHANGED <<entry, context, hashRef, own>>
    BY HashAssumption DEF Link, IInv, Types, Places, Idle
  <1>2. /\ f \in Entries /\ ~InLine(f) /\ c \in Contexts /\ entry[f].context = c
        /\ own[t][c] > 0 /\ own[t][c] \in Nat
        /\ \A u \in Threads : Inserting(at[u]) /\ at[u].entry = f => u = t
    <2>1. /\ NeedsContext(at[t]) /\ Inserting(at[t]) /\ OwnsLine(t) /\ at[t].pc \in Holding
      BY <1>1 DEF NeedsContext, Inserting, OwnsLine, Holding
    <2> QED
      BY <1>1, <2>1 DEF IInv, EntryIsSet, LineHasOneOwner, CInv, PlacesFit, PlaceFits,
         InserterKeepsAReference, InserterIsAlone, Types
  <1>3. \A e : InLine(e)' <=> InLine(e) \/ e = f
    BY <1>1, <1>2, LinkedLine DEF IInv
  <1>4. TableOf' = <<c>> \o TableOf
    BY <1>1, <1>2, TableLinks
  <1> HIDE DEF f, c
  <1>5. /\ \A d \in Contexts :
              /\ LinksAt(Idle, d) = 0 /\ LinksAt(at[t], d) = (IF d = c THEN 1 ELSE 0)
              /\ FoundAt(Idle, d) = 0 /\ FoundAt(at[t], d) = 0
              /\ SearchesAt(Idle, d) = 0 /\ SearchesAt(at[t], d) = 0
        /\ HashAt(Idle) = 0 /\ HashAt(at[t]) = 1 /\ PlaceFits(Idle)
        /\ ~Inserting(Idle) /\ Idle.pc = "idle" /\ Idle.entry = None
    BY <1>1 DEF LinksAt, FoundAt, SearchesAt, HashAt, OwnsHash, PlaceFits, NeedsContext,
       Inserting, Idle, c
  <1>6. Structure'
    <2>1. \A u \in Threads \ {t} : Inserting(at[u]) => at[u].entry # Idle.entry
      BY <1>5, HashAssumption DEF IInv, EntryIsSet, Holding, Inserting
    <2>2. \A e \in Entries : InLine(e) \/ at[t].entry = e => InLine(e)'
      BY <1>3 DEF f
    <2> QED
      BY <1>1, <1>5, <2>1, <2>2, PlacesFollow
  <1>7. HashRefIsExact'
    <2>1. /\ Len(chain) \in Nat /\ hashRef \in Int /\ hashRef' = hashRef
          /\ Len(chain') = Len(chain) + 1
      BY <1>1, <1>2 DEF Types
    <2>2. hashRef' = hashRef + (Len(chain') - Len(chain) + HashAt(Idle) - HashAt(at[t]))
      BY ONLY <1>5, <2>1
    <2> QED
      BY <1>1, <2>2, HashRefFollows
  <1>8. ASSUME NEW d \in Contexts
        PROVE  Exact(d)' /\ RefsOf'[d] = RefsOf[d] + (IF d = c THEN 1 ELSE 0)
    <2> DEFINE j == IF d = c THEN 1 ELSE 0
    <2>1. /\ Tokens(d)' = Tokens(d) /\ IsFiniteSet(Tokens(d)) /\ context[d] \in Int
          /\ context' = context
      BY <1>1 DEF Tokens, CInv, ContextIsExact, Types
    <2>2. /\ Cardinality(Tokens(d)) \in Nat /\ Cardinality(Linked(d)) \in Nat
          /\ Cardinality(Removed(d)) \in Nat /\ IsFiniteSet(Linked(d))
      BY <2>1, CountsAreFinite, FS_CardinalityType
    <2>3. Cardinality(Linked(d)') = Cardinality(Linked(d)) + j
      <3>1. Linked(d)' = {e \in Entries : (InLine(e) \/ e = f) /\ entry[e].context = d}
        BY <1>1, <1>3 DEF Linked
      <3>2. CASE d = c
        <4>1. Linked(d)' = Linked(d) \cup {f} /\ f \notin Linked(d)
          BY <1>2, <3>1, <3>2 DEF Linked
        <4>2. Cardinality(Linked(d) \cup {f}) = Cardinality(Linked(d)) + 1
          BY <2>2, <4>1, FS_AddElement
        <4> QED
          BY <3>2, <4>1, <4>2
      <3>3. CASE d # c
        <4>1. Linked(d)' = Linked(d)
          BY <1>2, <3>1, <3>3 DEF Linked
        <4> QED
          BY <2>2, <3>3, <4>1
      <3> QED
        BY <3>2, <3>3
    <2>4. Removed(d)' = Removed(d)
      <3>1. \A u \in Threads : at'[u] = IF u = t THEN Idle ELSE at[u]
        BY <1>1 DEF Types
      <3>2. ASSUME NEW e \in Entries, e # f
            PROVE  (\A u \in Threads : Inserting(at'[u]) => at'[u].entry # e)
                     <=> (\A u \in Threads : Inserting(at[u]) => at[u].entry # e)
        BY <1>5, <3>1, <3>2 DEF f
      <3>3. Removed(d)' = {e \in Entries : /\ ~InLine(e)' /\ entry'[e].context = d
                              /\ \A u \in Threads : Inserting(at'[u]) => at'[u].entry # e}
        BY RemovedNext
      <3>4. Removed(d) = {e \in Entries : /\ ~InLine(e) /\ entry[e].context = d
                             /\ \A u \in Threads : Inserting(at[u]) => at[u].entry # e}
        BY RemovedAre
      <3>5. Inserting(at[t]) /\ at[t].entry = f
        BY <1>1 DEF Inserting, f
      <3>6. f \notin Removed(d) /\ f \notin Removed(d)'
        BY <1>3, <3>3, <3>4, <3>5
      <3>7. ASSUME NEW e \in Entries, e # f PROVE e \in Removed(d)' <=> e \in Removed(d)
        BY <1>1, <1>3, <3>2, <3>3, <3>4, <3>7
      <3>8. Removed(d) \subseteq Entries /\ Removed(d)' \subseteq Entries
        BY <3>3, <3>4
      <3> QED
        BY <3>6, <3>7, <3>8
    <2>5. /\ TokensGain(d) = 0 /\ LinkedGain(d) = j /\ RemovedGain(d) = 0
          /\ LinksGain(Idle, t, d) = 0 - j /\ FoundGain(Idle, t, d) = 0
          /\ SearchesGain(Idle, t, d) = 0 /\ j \in Int
      BY <1>5, <2>1, <2>2, <2>3, <2>4 DEF TokensGain, LinkedGain, RemovedGain, LinksGain,
         FoundGain, SearchesGain
    <2> HIDE DEF j
    <2>6. /\ IsFiniteSet(Tokens(d)')
          /\ context'[d] = context[d] + (TokensGain(d) + LinkedGain(d) + LinksGain(Idle, t, d)
                                         + RemovedGain(d) + FoundGain(Idle, t, d))
      BY ONLY <2>1, <2>5
    <2>7. /\ Exact(d)'
          /\ RefsOf'[d] = RefsOf[d] + (TokensGain(d) + LinkedGain(d) + FoundGain(Idle, t, d)
                                       + SearchesGain(Idle, t, d))
      BY ONLY <1>1, <2>6, CInv, t \in Threads, d \in Contexts, OneContextAndPlaces
    <2>8. RefsOf'[d] = RefsOf[d] + j
      BY ONLY <2>5, <2>7
    <2> QED
      BY <2>7, <2>8 DEF j
  <1>9. ContextIsExact'
    BY <1>8 DEF ContextIsExact, Exact
  <1>10. RefsOf[c] > 0 /\ \A d \in Contexts : RefsOf[d] \in Nat
    <2>1. <<t, own[t][c]>> \in Tokens(c)
      BY <1>2 DEF Tokens
    <2>2. RefsOf[c] # 0 /\ \A d \in Contexts : RefsOf[d] \in Nat
      BY <1>1, <1>2, <2>1, TableCounts
    <2> QED
      BY <1>2, <2>2
  <1>11. RefsOf' = [RefsOf EXCEPT ![c] = @ + 1]
    <2>1. 1 \in Int
      OBVIOUS
    <2> QED
      BY ONLY <1>2, <1>8, <1>10, <2>1, RefsMove
  <1>12. Table!Insert(c)
    BY <1>4, <1>10, <1>11 DEF Table!Insert
  <1> QED
    BY <1>2, <1>6, <1>7, <1>9, <1>12 DEF CInv, Structure

\* The table sees only the entries that are in the line.
LEMMA SameLine ==
  ASSUME UNCHANGED chain, \A e : InLine(e) => entry'[e].context = entry[e].context
  PROVE  UNCHANGED TableOf
  <1>1. \A i \in DOMAIN chain : entry'[chain[i]].context = entry[chain[i]].context
    BY DEF InLine
  <1> QED
    BY <1>1 DEF TableOf

LEMMA BeginInsertContexts ==
  ASSUME IInv, IInv', CInv, NEW t \in Threads, NEW c \in Contexts, BeginInsert(t, c)
  PROVE  CInv' /\ UNCHANGED <<TableOf, RefsOf>>
  <1>1. PICK f \in Free :
          /\ entry' = [entry EXCEPT ![f] = [FreeEntry EXCEPT !.ref = 1, !.context = c]]
          /\ at' = [at EXCEPT ![t] = [pc |-> "reference", op |-> "insert",
                                      entry |-> f, context |-> c]]
    BY DEF BeginInsert
  <1> DEFINE r == [pc |-> "reference", op |-> "insert", entry |-> f, context |-> c]
  <1>2. /\ Types /\ Types' /\ f \in Entries /\ entry[f].context = None /\ r \in Places
        /\ at' = [at EXCEPT ![t] = r]
    BY <1>1 DEF IInv, Types, Free, Places
  <1>3. entry[f].ref = 0 /\ \A u \in Threads : at[u].entry = f => at[u].pc # "delete"
    BY <1>2 DEF IInv, FreeIsUnused, In
  <1>4. /\ ~InLine(f)
        /\ \A u \in Threads : at[u].entry = f => at[u].pc \notin Holding
    BY <1>2, <1>3, Unreferenced
  <1>5. \A u \in Threads : at[u].entry # f
    BY <1>2, <1>3, <1>4 DEF IInv, EntryIsSet
  <1>6. /\ entry'[f].context = c
        /\ \A e \in Entries : e # f => entry'[e] = entry[e]
    BY <1>1, <1>2 DEF Types, FreeEntry
  <1>7. /\ at[t].pc = "idle" /\ own[t][c] > 0 /\ hashRef' = hashRef + 1
        /\ UNCHANGED <<chain, context, own>> /\ \A e : InLine(e)' = InLine(e)
    BY DEF BeginInsert, InLine
  <1>8. /\ r.pc = "reference" /\ r.entry = f /\ r.context = c /\ PlaceFits(r)
        /\ Inserting(r) /\ ~Inserting(at[t]) /\ ~WillRemove(at[t])
        /\ HashAt(r) = 1 /\ HashAt(at[t]) = 0
        /\ \A d \in Contexts : /\ LinksAt(r, d) = 0 /\ LinksAt(at[t], d) = 0
                               /\ FoundAt(r, d) = 0 /\ FoundAt(at[t], d) = 0
                               /\ SearchesAt(r, d) = 0 /\ SearchesAt(at[t], d) = 0
    BY <1>7 DEF PlaceFits, NeedsContext, Inserting, WillRemove, HashAt, OwnsHash, LinksAt,
       FoundAt, SearchesAt
  <1> HIDE DEF r
  <1>9. Structure'
    <2>1. \A e \in Entries :
            \/ /\ entry'[e].context = entry[e].context
               /\ entry[e].delete = TRUE => entry'[e].delete = TRUE
            \/ /\ \A u \in Threads \ {t} : at[u].pc \in Holding => at[u].entry # e
               /\ Inserting(r) /\ r.entry = e
      BY <1>5, <1>6, <1>8
    <2>2. \A e \in Entries : InLine(e) \/ (WillRemove(at[t]) /\ at[t].entry = e) => InLine(e)'
      BY <1>7, <1>8
    <2>3. \A u \in Threads \ {t} : at[u].entry # r.entry /\ own'[u] = own[u]
      BY <1>5, <1>7, <1>8
    <2>4. entry'[r.entry].context = r.context /\ own'[t][r.context] > 0
      BY <1>6, <1>7, <1>8
    <2> QED
      BY <1>2, <1>8, <2>1, <2>2, <2>3, <2>4, PlacesFollow
  <1>10. HashRefIsExact'
    <2>1. Len(chain) \in Nat /\ hashRef \in Int /\ Len(chain') = Len(chain)
      BY <1>2, <1>7 DEF Types
    <2>2. hashRef' = hashRef + (Len(chain') - Len(chain) + HashAt(r) - HashAt(at[t]))
      BY <1>7, <1>8, <2>1
    <2> QED
      BY <1>2, <2>2, HashRefFollows
  <1>11. UNCHANGED TableOf
    <2>1. \A e : InLine(e) => entry'[e].context = entry[e].context
      BY <1>2, <1>4, <1>6 DEF InLine, Types
    <2> QED
      BY <1>7, <2>1, SameLine
  <1>12. ASSUME NEW d \in Contexts PROVE Exact(d)' /\ RefsOf'[d] = RefsOf[d]
    <2>1. /\ Tokens(d)' = Tokens(d) /\ IsFiniteSet(Tokens(d)) /\ context[d] \in Int
          /\ context' = context
      BY <1>2, <1>7 DEF Tokens, CInv, ContextIsExact, Types
    <2>2. Linked(d)' = Linked(d)
      BY <1>4, <1>6, <1>7 DEF Linked
    <2>3. Removed(d)' = Removed(d)
      <3>1. \A u \in Threads : at'[u] = IF u = t THEN r ELSE at[u]
        BY <1>2 DEF Types
      <3>2. Removed(d)' = {e \in Entries : /\ ~InLine(e)' /\ entry'[e].context = d
                              /\ \A u \in Threads : Inserting(at'[u]) => at'[u].entry # e}
        BY RemovedNext
      <3>3. Removed(d) = {e \in Entries : /\ ~InLine(e) /\ entry[e].context = d
                             /\ \A u \in Threads : Inserting(at[u]) => at[u].entry # e}
        BY RemovedAre
      <3>4. f \notin Removed(d) /\ f \notin Removed(d)'
        BY <1>2, <1>8, <3>1, <3>2, <3>3, HashAssumption
      <3>5. ASSUME NEW e \in Entries, e # f PROVE e \in Removed(d)' <=> e \in Removed(d)
        <4>1. (\A u \in Threads : Inserting(at'[u]) => at'[u].entry # e)
                <=> (\A u \in Threads : Inserting(at[u]) => at[u].entry # e)
          BY <1>8, <3>1, <3>5
        <4> QED
          BY <1>6, <1>7, <3>2, <3>3, <3>5, <4>1
      <3>6. Removed(d) \subseteq Entries /\ Removed(d)' \subseteq Entries
        BY <3>2, <3>3
      <3> QED
        BY <3>4, <3>5, <3>6
    <2>4. /\ Cardinality(Tokens(d)) \in Nat /\ Cardinality(Linked(d)) \in Nat
          /\ Cardinality(Removed(d)) \in Nat /\ RefsOf[d] \in Nat
      BY <1>2, <2>1, CountsAreFinite, FS_CardinalityType, TableCounts
    <2>5. /\ TokensGain(d) = 0 /\ LinkedGain(d) = 0 /\ RemovedGain(d) = 0
          /\ LinksGain(r, t, d) = 0 /\ FoundGain(r, t, d) = 0 /\ SearchesGain(r, t, d) = 0
      BY <1>8, <2>1, <2>2, <2>3, <2>4 DEF TokensGain, LinkedGain, RemovedGain, LinksGain,
         FoundGain, SearchesGain
    <2>6. /\ IsFiniteSet(Tokens(d)')
          /\ context'[d] = context[d] + (TokensGain(d) + LinkedGain(d) + LinksGain(r, t, d)
                                         + RemovedGain(d) + FoundGain(r, t, d))
      BY ONLY <2>1, <2>5
    <2>7. /\ Exact(d)'
          /\ RefsOf'[d] = RefsOf[d] + (TokensGain(d) + LinkedGain(d) + FoundGain(r, t, d)
                                       + SearchesGain(r, t, d))
      BY ONLY <1>2, <2>6, CInv, t \in Threads, d \in Contexts, OneContextAndPlaces
    <2>8. RefsOf'[d] = RefsOf[d]
      BY ONLY <2>4, <2>5, <2>7
    <2> QED
      BY <2>7, <2>8
  <1>13. ContextIsExact' /\ UNCHANGED RefsOf
    BY <1>12, SameRefs DEF ContextIsExact, Exact
  <1> QED
    BY <1>9, <1>10, <1>11, <1>13 DEF CInv, Structure

LEMMA ReturnContexts ==
  ASSUME IInv, IInv', CInv, NEW t \in Threads, Return(t)
  PROVE  CInv' /\ UNCHANGED <<TableOf, RefsOf>>
  <1> DEFINE c == at[t].context
  <1>1. /\ Types /\ Types' /\ at[t].pc = "return" /\ at' = [at EXCEPT ![t] = Idle]
        /\ Idle \in Places /\ UNCHANGED <<chain, entry, context, hashRef>>
    BY HashAssumption DEF Return, IInv, Types, Places, Idle
  <1>2. PlaceFits(at[t]) /\ at[t].op = "find" /\ c \in Contexts
    BY <1>1 DEF CInv, PlacesFit, PlaceFits, NeedsContext
  <1>3. own' = [own EXCEPT ![t][c] = own[t][c] + 1] /\ own[t][c] \in Nat
    BY <1>1, <1>2 DEF Return, Gain, Types
  <1> HIDE DEF c
  <1>4. /\ \A d \in Contexts :
              /\ LinksAt(Idle, d) = 0 /\ LinksAt(at[t], d) = 0
              /\ FoundAt(Idle, d) = 0 /\ FoundAt(at[t], d) = (IF d = c THEN 1 ELSE 0)
              /\ SearchesAt(Idle, d) = 0 /\ SearchesAt(at[t], d) = 0
        /\ HashAt(Idle) = 0 /\ HashAt(at[t]) = 0 /\ PlaceFits(Idle)
        /\ ~Inserting(Idle) /\ ~Inserting(at[t]) /\ ~WillRemove(at[t])
        /\ Idle.pc = "idle" /\ Idle.entry = None
    BY <1>1, <1>2 DEF LinksAt, FoundAt, SearchesAt, HashAt, OwnsHash, PlaceFits, NeedsContext,
       Inserting, WillRemove, Idle, c
  <1>5. Structure'
    <2>1. \A u \in Threads \ {t} : Inserting(at[u]) => at[u].entry # Idle.entry
      BY <1>4, HashAssumption DEF IInv, EntryIsSet, Holding, Inserting
    <2>2. \A e \in Entries : InLine(e) \/ (WillRemove(at[t]) /\ at[t].entry = e) => InLine(e)'
      BY <1>1, <1>4 DEF InLine
    <2>3. \A u \in Threads \ {t} : own'[u] = own[u]
      BY <1>1, <1>3 DEF Types
    <2> QED
      BY <1>1, <1>4, <2>1, <2>2, <2>3, PlacesFollow
  <1>6. HashRefIsExact'
    <2>1. /\ Len(chain) \in Nat /\ hashRef \in Int /\ hashRef' = hashRef
          /\ Len(chain') = Len(chain)
      BY <1>1 DEF Types
    <2>2. hashRef' = hashRef + (Len(chain') - Len(chain) + HashAt(Idle) - HashAt(at[t]))
      BY ONLY <1>4, <2>1
    <2> QED
      BY <1>1, <2>2, HashRefFollows
  <1>7. ASSUME NEW d \in Contexts PROVE Exact(d)' /\ RefsOf'[d] = RefsOf[d]
    <2> DEFINE j == IF d = c THEN 1 ELSE 0
    <2>1. /\ IsFiniteSet(Tokens(d)) /\ context[d] \in Int /\ context' = context
          /\ RefsOf[d] \in Nat
      BY <1>1, TableCounts DEF CInv, ContextIsExact, Types
    <2>2. IsFiniteSet(Tokens(d)') /\ Cardinality(Tokens(d)') = Cardinality(Tokens(d)) + j
      <3> DEFINE m == own[t][c] + 1
      <3>1. /\ own' = [own EXCEPT ![t][c] = m] /\ m \in Int
            /\ m = own[t][c] + 1 \/ (m = own[t][c] - 1 /\ own[t][c] > 0)
            /\ (IF d = c THEN m - own[t][c] ELSE 0) = j
        BY <1>3
      <3> HIDE DEF m
      <3>2. Types /\ c \in Contexts
        BY <1>1, <1>2 DEF c
      <3>3. /\ IsFiniteSet(Tokens(d)')
            /\ Cardinality(Tokens(d)')
                 = Cardinality(Tokens(d)) + (IF d = c THEN m - own[t][c] ELSE 0)
        BY ONLY <2>1, <3>1, <3>2, t \in Threads, d \in Contexts, TokensMove
      <3> QED
        BY <3>1, <3>3
    <2>3. Linked(d)' = Linked(d) /\ Removed(d)' = Removed(d)
      <3>1. \A e \in Entries : entry'[e].context = entry[e].context
        BY <1>1
      <3> QED
        BY <1>1, <1>4, <3>1, EntriesStay
    <2>4. /\ Cardinality(Tokens(d)) \in Nat /\ Cardinality(Linked(d)) \in Nat
          /\ Cardinality(Removed(d)) \in Nat /\ j \in Int
      BY <2>1, CountsAreFinite, FS_CardinalityType
    <2> HIDE DEF j
    <2>5. /\ TokensGain(d) = j /\ LinkedGain(d) = 0 /\ RemovedGain(d) = 0
          /\ LinksGain(Idle, t, d) = 0 /\ FoundGain(Idle, t, d) = 0 - j
          /\ SearchesGain(Idle, t, d) = 0
      BY <1>4, <2>2, <2>3, <2>4 DEF TokensGain, LinkedGain, RemovedGain, LinksGain,
         FoundGain, SearchesGain, j
    <2>6. /\ IsFiniteSet(Tokens(d)')
          /\ context'[d] = context[d] + (TokensGain(d) + LinkedGain(d) + LinksGain(Idle, t, d)
                                         + RemovedGain(d) + FoundGain(Idle, t, d))
      BY ONLY <2>1, <2>2, <2>4, <2>5
    <2>7. /\ Exact(d)'
          /\ RefsOf'[d] = RefsOf[d] + (TokensGain(d) + LinkedGain(d) + FoundGain(Idle, t, d)
                                       + SearchesGain(Idle, t, d))
      BY ONLY <1>1, <2>6, CInv, t \in Threads, d \in Contexts, OneContextAndPlaces
    <2>8. RefsOf'[d] = RefsOf[d]
      BY ONLY <2>1, <2>4, <2>5, <2>7
    <2> QED
      BY <2>7, <2>8
  <1>8. ContextIsExact' /\ UNCHANGED RefsOf
    BY <1>7, SameRefs DEF ContextIsExact, Exact
  <1>9. UNCHANGED TableOf
    BY <1>1, SameTable
  <1> QED
    BY <1>5, <1>6, <1>8, <1>9 DEF CInv, Structure

LEMMA DeleteEntryContexts ==
  ASSUME IInv, IInv', CInv, NEW t \in Threads, DeleteEntry(t)
  PROVE  CInv' /\ UNCHANGED <<TableOf, RefsOf>>
  <1> DEFINE f == at[t].entry
             c == entry[f].context
             r == [at[t] EXCEPT !.pc = AfterDereference(t), !.entry = None]
  <1>1. /\ Types /\ Types' /\ at[t] \in Places /\ PlaceFits(at[t])
        /\ f \in Entries /\ entry[f] \in Records /\ entry[f].ref = 0
    BY DEF IInv, Types, EntryIsSet, OneDeleter, In, DeleteEntry, CInv, PlacesFit
  <1>2. at' = [at EXCEPT ![t] = r] /\ r \in Places
    BY <1>1 DEF DeleteEntry, AfterDereference, Types, Places
  <1>3. /\ at[t].pc = "delete" /\ r.entry = None /\ r.pc \in {"return", "dereferenceHash"}
        /\ r.pc = "return" <=> at[t].op = "find"
        /\ r.op = at[t].op /\ r.context = at[t].context
        /\ UNCHANGED <<chain, hashRef, own>> /\ \A e : InLine(e)' = InLine(e)
    BY <1>1 DEF DeleteEntry, AfterDereference, Places, InLine
  <1>4. /\ ~InLine(f)
        /\ \A u \in Threads : at[u].entry = f => at[u].pc \notin Holding
    BY <1>1, Unreferenced
  <1>5. c \in Contexts /\ entry[f].delete = TRUE
    <2>1. c # None
      BY <1>1, <1>3 DEF IInv, FreeIsUnused, In
    <2>2. \A u \in Threads : ~((Inserting(at[u]) \/ at[u].pc \in {"waitForFinders", "setFunction"})
                               /\ at[u].entry = f)
      BY <1>4 DEF Inserting, Holding
    <2> QED
      BY <1>1, <1>4, <2>1, <2>2 DEF CInv, RemovalIsCertain, Records
  <1>6. /\ context' = [context EXCEPT ![c] = @ - 1]
        /\ entry'[f] = FreeEntry /\ \A e \in Entries : e # f => entry'[e] = entry[e]
    BY <1>1, <1>5 DEF DeleteEntry, Types
  <1>7. /\ PlaceFits(r) /\ ~Inserting(r) /\ ~Inserting(at[t]) /\ ~WillRemove(at[t])
        /\ HashAt(r) = HashAt(at[t])
        /\ \A d \in Contexts : /\ LinksAt(r, d) = 0 /\ LinksAt(at[t], d) = 0
                               /\ FoundAt(r, d) = FoundAt(at[t], d)
                               /\ SearchesAt(r, d) = 0 /\ SearchesAt(at[t], d) = 0
    BY <1>1, <1>3 DEF PlaceFits, NeedsContext, Inserting, WillRemove, HashAt, OwnsHash, LinksAt,
       FoundAt, SearchesAt
  <1> HIDE DEF r, f, c
  <1>8. Structure'
    <2>1. \A e \in Entries :
            \/ /\ entry'[e].context = entry[e].context
               /\ entry[e].delete = TRUE => entry'[e].delete = TRUE
            \/ /\ \A u \in Threads \ {t} : at[u].pc \in Holding => at[u].entry # e
               /\ entry'[e].context = None
      BY <1>4, <1>6 DEF FreeEntry
    <2>2. \A e \in Entries : InLine(e) \/ (WillRemove(at[t]) /\ at[t].entry = e) => InLine(e)'
      BY <1>3, <1>7
    <2>3. \A u \in Threads \ {t} : Inserting(at[u]) => at[u].entry # r.entry
      BY <1>3, HashAssumption DEF IInv, EntryIsSet, Holding, Inserting
    <2> QED
      BY <1>2, <1>3, <1>7, <2>1, <2>2, <2>3, PlacesFollow
  <1>9. HashRefIsExact'
    <2>1. /\ Len(chain) \in Nat /\ hashRef \in Int /\ Len(chain') = Len(chain)
          /\ HashAt(at[t]) \in Int
      BY <1>1, <1>3 DEF Types, HashAt
    <2>2. hashRef' = hashRef + (Len(chain') - Len(chain) + HashAt(r) - HashAt(at[t]))
      BY <1>3, <1>7, <2>1
    <2> QED
      BY <1>1, <1>2, <2>2, HashRefFollows
  <1>10. UNCHANGED TableOf
    <2>1. \A e : InLine(e) => entry'[e].context = entry[e].context
      BY <1>1, <1>4, <1>6 DEF InLine, Types
    <2> QED
      BY <1>3, <2>1, SameLine
  <1>11. ASSUME NEW d \in Contexts PROVE Exact(d)' /\ RefsOf'[d] = RefsOf[d]
    <2> DEFINE j == IF d = c THEN 1 ELSE 0
    <2>1. /\ Tokens(d)' = Tokens(d) /\ IsFiniteSet(Tokens(d)) /\ context[d] \in Int
          /\ context'[d] = context[d] - j /\ RefsOf[d] \in Nat
      <3>1. Tokens(d)' = Tokens(d) /\ IsFiniteSet(Tokens(d)) /\ RefsOf[d] \in Nat
        BY <1>1, <1>3, TableCounts DEF Tokens, CInv, ContextIsExact
      <3>2. context[d] \in Int /\ context'[d] = context[d] - j
        BY <1>1, <1>5, <1>6 DEF Types
      <3> QED
        BY <3>1, <3>2
    <2>2. Linked(d)' = Linked(d)
      BY <1>4, <1>3, <1>6 DEF Linked
    <2>3. Cardinality(Removed(d)') = Cardinality(Removed(d)) - j
      <3>1. \A u \in Threads : at'[u] = IF u = t THEN r ELSE at[u]
        BY <1>1, <1>2 DEF Types
      <3>2. \A e : (\A u \in Threads : Inserting(at'[u]) => at'[u].entry # e)
                     <=> (\A u \in Threads : Inserting(at[u]) => at[u].entry # e)
        BY <1>7, <3>1
      <3>3. Removed(d)' = {e \in Entries : /\ ~InLine(e)' /\ entry'[e].context = d
                              /\ \A u \in Threads : Inserting(at'[u]) => at'[u].entry # e}
        BY RemovedNext
      <3>4. Removed(d) = {e \in Entries : /\ ~InLine(e) /\ entry[e].context = d
                             /\ \A u \in Threads : Inserting(at[u]) => at[u].entry # e}
        BY RemovedAre
      <3>5. f \in Removed(d) <=> d = c
        BY <1>1, <1>4, <3>4 DEF Inserting, Holding, c, f
      <3>6. f \notin Removed(d)'
        BY <1>6, <3>3, HashAssumption DEF FreeEntry
      <3>7. ASSUME NEW e \in Entries, e # f PROVE e \in Removed(d)' <=> e \in Removed(d)
        BY <1>3, <1>6, <3>2, <3>3, <3>4, <3>7
      <3>8. Removed(d) \subseteq Entries /\ Removed(d)' \subseteq Entries
        BY <3>3, <3>4
      <3>9. Removed(d)' = Removed(d) \ {f}
        BY <3>6, <3>7, <3>8
      <3>10. IsFiniteSet(Removed(d)) /\ Cardinality(Removed(d)) \in Nat
        BY CountsAreFinite
      <3>11. CASE d = c
        <4>1. Cardinality(Removed(d) \ {f}) = Cardinality(Removed(d)) - 1
          BY <3>5, <3>10, <3>11, FS_RemoveElement
        <4> QED
          BY <3>9, <3>11, <4>1
      <3>12. CASE d # c
        <4>1. Removed(d) \ {f} = Removed(d)
          BY <3>5, <3>12
        <4> QED
          BY <3>9, <3>10, <3>12, <4>1
      <3> QED
        BY <3>11, <3>12
    <2>4. /\ Cardinality(Tokens(d)) \in Nat /\ Cardinality(Linked(d)) \in Nat
          /\ Cardinality(Removed(d)) \in Nat /\ j \in Int /\ FoundAt(at[t], d) \in Int
      BY <2>1, CountsAreFinite, FS_CardinalityType DEF FoundAt
    <2> HIDE DEF j
    <2>5. /\ TokensGain(d) = 0 /\ LinkedGain(d) = 0 /\ RemovedGain(d) = 0 - j
          /\ LinksGain(r, t, d) = 0 /\ FoundGain(r, t, d) = 0 /\ SearchesGain(r, t, d) = 0
      BY <1>7, <2>1, <2>2, <2>3, <2>4 DEF TokensGain, LinkedGain, RemovedGain, LinksGain,
         FoundGain, SearchesGain
    <2>6. /\ IsFiniteSet(Tokens(d)')
          /\ context'[d] = context[d] + (TokensGain(d) + LinkedGain(d) + LinksGain(r, t, d)
                                         + RemovedGain(d) + FoundGain(r, t, d))
      BY ONLY <2>1, <2>4, <2>5
    <2>7. /\ Exact(d)'
          /\ RefsOf'[d] = RefsOf[d] + (TokensGain(d) + LinkedGain(d) + FoundGain(r, t, d)
                                       + SearchesGain(r, t, d))
      BY ONLY <1>1, <1>2, <2>6, CInv, t \in Threads, d \in Contexts, OneContextAndPlaces
    <2>8. RefsOf'[d] = RefsOf[d]
      BY ONLY <2>1, <2>5, <2>7
    <2> QED
      BY <2>7, <2>8
  <1>12. ContextIsExact' /\ UNCHANGED RefsOf
    BY <1>11, SameRefs DEF ContextIsExact, Exact
  <1> QED
    BY <1>8, <1>9, <1>10, <1>12 DEF CInv, Structure

-----------------------------------------------------------------------------
(* The invariant and the refinement *)

LEMMA InitCInv == Init => CInv /\ Table!Init
  <1> SUFFICES ASSUME Init PROVE CInv /\ Table!Init
    OBVIOUS
  <1>1. /\ chain = <<>> /\ hashRef = 1 /\ at = [t \in Threads |-> Idle]
        /\ entry = [e \in Entries |-> FreeEntry]
        /\ context = [c \in Contexts |-> 0]
        /\ own = [t \in Threads |-> [c \in Contexts |-> 0]]
    BY DEF Init
  <1>2. /\ \A t \in Threads : at[t].pc = "idle"
        /\ \A e \in Entries : entry[e].context = None
        /\ None \notin Contexts
    BY <1>1, HashAssumption DEF Idle, FreeEntry
  <1>3. Structure
    BY <1>2 DEF Structure, PlacesFit, PlaceFits, NeedsContext, InserterIsAlone, Inserting,
       InserterKeepsAReference, RemovalIsCertain
  <1>4. ASSUME NEW c \in Contexts
        PROVE  /\ Tokens(c) = {} /\ Linked(c) = {} /\ Linking(c) = {} /\ Removed(c) = {}
               /\ Found(c) = {} /\ Searching(c) = {}
    <2>1. Linked(c) = {} /\ Removed(c) = {}
      BY <1>2 DEF Linked, Removed
    <2>2. Linking(c) = {} /\ Found(c) = {} /\ Searching(c) = {}
      BY <1>2 DEF Linking, Found, Searching, In
    <2>3. \A t \in Threads : own[t][c] = 0
      BY <1>1
    <2>4. Tokens(c) = {}
      BY <2>3 DEF Tokens
    <2> QED
      BY <2>1, <2>2, <2>4
  <1>5. HashOwners = {}
    BY <1>2 DEF HashOwners, OwnsHash
  <1>6. IsFiniteSet({}) /\ Cardinality({}) = 0
    BY FS_EmptySet
  <1>7. ContextIsExact
    <2> SUFFICES ASSUME NEW c \in Contexts PROVE Exact(c)
      BY DEF ContextIsExact, Exact
    <2>1. context[c] = 0
      BY <1>1
    <2> QED
      BY <1>4, <1>6, <2>1 DEF Exact
  <1>8. HashRefIsExact
    <2>1. Len(chain) = 0
      BY <1>1
    <2> QED
      BY <1>1, <1>5, <1>6, <2>1 DEF HashRefIsExact
  <1>9. Table!Init
    <2>1. \A c \in Contexts : context[c] = 0
      BY <1>1
    <2>2. \A c \in Contexts : context[c] + Cardinality(Searching(c)) - Cardinality(Linking(c))
                                - Cardinality(Removed(c)) = 0
      BY <1>4, <1>6, <2>1
    <2>3. TableOf = <<>>
      BY <1>1 DEF TableOf
    <2> QED
      BY <2>2, <2>3 DEF Table!Init, RefsOf
  <1> QED
    BY <1>3, <1>7, <1>8, <1>9 DEF CInv, Structure

LEMMA StepContexts ==
  ASSUME IInv, IInv', CInv, NEW t \in Threads, Step(t)
  PROVE  CInv' /\ [Table!Next]_<<TableOf, RefsOf>>
  <1>1. CASE ReferenceContext(t)
    BY <1>1, ReferenceContextContexts
  <1>2. CASE Link(t)
    BY <1>2, LinkContexts DEF Table!Next
  <1>3. CASE Apply(t)
    BY <1>3, ApplyContexts
  <1>4. CASE EnablePurge(t)
    BY <1>4, EnablePurgeContexts
  <1>5. CASE PurgeNext(t)
    BY <1>5, PurgeNextContexts DEF Table!Next
  <1>6. CASE WaitForFinders(t)
    BY <1>6, WaitForFindersContexts
  <1>7. CASE SetFunction(t)
    BY <1>7, SetFunctionContexts
  <1>8. CASE DereferenceEntry(t)
    BY <1>8, DereferenceEntryContexts
  <1>9. CASE DeleteEntry(t)
    BY <1>9, DeleteEntryContexts
  <1>10. CASE Return(t)
    BY <1>10, ReturnContexts
  <1>11. CASE DereferenceHash(t)
    BY <1>11, DereferenceHashContexts
  <1> QED
    BY <1>1, <1>2, <1>3, <1>4, <1>5, <1>6, <1>7, <1>8, <1>9, <1>10, <1>11 DEF Step

LEMMA NextCInv ==
  IInv /\ IInv' /\ CInv /\ [Next]_vars => CInv' /\ [Table!Next]_<<TableOf, RefsOf>>
  <1> SUFFICES ASSUME IInv, IInv', CInv, [Next]_vars
               PROVE  CInv' /\ [Table!Next]_<<TableOf, RefsOf>>
    OBVIOUS
  <1>1. ASSUME NEW t \in Threads, NEW c \in Contexts, CreateContext(t, c)
        PROVE  CInv' /\ [Table!Next]_<<TableOf, RefsOf>>
    BY <1>1, CreateContextContexts DEF Table!Next
  <1>2. ASSUME NEW t \in Threads, NEW c \in Contexts, DropContext(t, c)
        PROVE  CInv' /\ [Table!Next]_<<TableOf, RefsOf>>
    BY <1>2, DropContextContexts DEF Table!Next
  <1>3. ASSUME NEW t \in Threads, NEW c \in Contexts, BeginInsert(t, c)
        PROVE  CInv' /\ [Table!Next]_<<TableOf, RefsOf>>
    BY <1>3, BeginInsertContexts
  <1>4. ASSUME NEW t \in Threads, NEW k \in Keys, Locate(t, k)
        PROVE  CInv' /\ [Table!Next]_<<TableOf, RefsOf>>
    BY <1>4, LocateContexts DEF Table!Next
  <1>5. ASSUME NEW t \in Threads, NEW k \in Keys, Unlink(t, k)
        PROVE  CInv' /\ [Table!Next]_<<TableOf, RefsOf>>
    BY <1>5, UnlinkContexts DEF Table!Next
  <1>6. ASSUME NEW t \in Threads, BeginPurge(t)
        PROVE  CInv' /\ [Table!Next]_<<TableOf, RefsOf>>
    BY <1>6, BeginPurgeContexts
  <1>7. ASSUME NEW t \in Threads, Step(t)
        PROVE  CInv' /\ [Table!Next]_<<TableOf, RefsOf>>
    BY <1>7, StepContexts
  <1>8. ASSUME UNCHANGED vars
        PROVE  CInv' /\ [Table!Next]_<<TableOf, RefsOf>>
    <2>1. /\ chain' = chain /\ entry' = entry /\ context' = context /\ hashRef' = hashRef
          /\ own' = own /\ at' = at
      BY <1>8 DEF vars
    <2>2. Structure'
      BY <2>1 DEF CInv, Structure, PlacesFit, PlaceFits, NeedsContext, InserterIsAlone,
         Inserting, InserterKeepsAReference, RemovalIsCertain, InLine
    <2>3. ContextIsExact'
      <3> SUFFICES ASSUME NEW c \in Contexts PROVE Exact(c)'
        BY DEF ContextIsExact, Exact
      <3>1. Exact(c)
        BY DEF CInv, ContextIsExact, Exact
      <3>2. /\ Tokens(c)' = Tokens(c) /\ Linked(c)' = Linked(c) /\ Linking(c)' = Linking(c)
            /\ Removed(c)' = Removed(c) /\ Found(c)' = Found(c)
        BY <2>1 DEF Tokens, Linked, Linking, Removed, Found, In, InLine
      <3> QED
        BY <2>1, <3>1, <3>2 DEF Exact
    <2>4. HashRefIsExact'
      BY <2>1 DEF CInv, HashRefIsExact, HashOwners, OwnsHash
    <2>5. UNCHANGED <<TableOf, RefsOf>>
      BY <2>1 DEF TableOf, RefsOf, Searching, Linking, Removed, In
    <2> QED
      BY <2>2, <2>3, <2>4, <2>5 DEF CInv, Structure
  <1> QED
    BY <1>1, <1>2, <1>3, <1>4, <1>5, <1>6, <1>7, <1>8 DEF Next

LEMMA CInvImpliesValid == IInv /\ CInv => FoundContextIsValid
  <1> SUFFICES ASSUME IInv, CInv PROVE FoundContextIsValid
    OBVIOUS
  <1>1. Types
    BY DEF IInv
  <1>2. ASSUME NEW t \in In({"link", "apply", "enable", "dereference", "delete", "return"}),
               at[t].op \in {"insert", "find"}
        PROVE  context[at[t].context] > 0
    <2> DEFINE c == at[t].context
    <2>1. t \in Threads /\ PlaceFits(at[t])
      BY DEF In, CInv, PlacesFit
    <2>2. NeedsContext(at[t]) /\ c \in Contexts
      BY <1>2, <2>1 DEF In, PlaceFits, NeedsContext
    <2>3. CASE at[t].pc = "link"
      <3>1. t \in Linking(c)
        BY <2>1, <2>3 DEF Linking, In
      <3> QED
        BY <1>1, <2>2, <3>1, TableCounts
    <2>4. CASE at[t].pc = "apply"
      <3> DEFINE e == at[t].entry
      <3>1. at[t].pc \in Holding /\ e \in Entries /\ entry[e].context = c
        BY <2>1, <2>4 DEF Holding, IInv, EntryIsSet, CInv, PlacesFit
      <3>2. CASE InLine(e)
        <4>1. e \in Linked(c)
          BY <3>1, <3>2 DEF Linked
        <4> QED
          BY <1>1, <2>2, <4>1, TableCounts
      <3>3. CASE ~InLine(e)
        <4>1. \A u \in Threads : Inserting(at[u]) => at[u].entry # e
          BY <2>1, <2>4 DEF CInv, InserterIsAlone, Inserting
        <4>2. e \in Removed(c)
          BY <3>1, <3>3, <4>1, RemovedAre
        <4> QED
          BY <1>1, <2>2, <4>2, TableCounts
      <3> QED
        BY <3>2, <3>3
    <2>5. CASE at[t].pc \in {"enable", "dereference", "delete", "return"}
      <3>1. t \in Found(c)
        BY <1>2, <2>1, <2>5 DEF Found, In, PlaceFits, IInv, FindersFind
      <3> QED
        BY <1>1, <2>2, <3>1, TableCounts
    <2> QED
      BY <2>3, <2>4, <2>5 DEF In
  <1>3. hashRef > 0
    <2>1. Len(chain) \in Nat
      BY <1>1 DEF Types
    <2>2. HashOwners \subseteq Threads /\ IsFiniteSet(Threads)
      BY HashAssumption DEF HashOwners
    <2>3. Cardinality(HashOwners) \in Nat
      BY <2>2, FS_Subset, FS_CardinalityType
    <2> QED
      BY <2>1, <2>3 DEF CInv, HashRefIsExact
  <1>4. \A c \in Contexts : context[c] >= 0
    BY <1>1, TableCounts
  <1>5. ASSUME NEW t \in Threads, NEW c \in Contexts, own[t][c] > 0
        PROVE  context[c] > 0
    <2>1. <<t, own[t][c]>> \in Tokens(c)
      BY <1>1, <1>5 DEF Tokens, Types
    <2> QED
      BY <1>1, <2>1, TableCounts
  <1> QED
    BY <1>2, <1>3, <1>4, <1>5 DEF FoundContextIsValid

\* Whoever gets a context from a search gets one that exists, whatever removals,
\* purges and users did between the lock of the line and the context function,
\* and no reference of a context or of the hash object is given back twice.
THEOREM ContextsAreAlive == Spec => []FoundContextIsValid
  <1>1. Init => IInv /\ CInv
    BY InitIInv, InitCInv
  <1>2. IInv /\ CInv /\ [Next]_vars => IInv' /\ CInv'
    BY NextIInv, NextCInv
  <1>3. IInv /\ CInv => FoundContextIsValid
    BY CInvImpliesValid
  <1> QED
    BY <1>1, <1>2, <1>3, PTL DEF Spec

\* The hash, with its search in five steps and its deferred removal, is the table
\* ContextTable in which a search and a removal are one step each: every step
\* is one of the table's or leaves the table as it is.
THEOREM HashIsContextTable == Spec => ImplementsContextTable
  <1>1. Init => IInv /\ CInv /\ Table!Init
    BY InitIInv, InitCInv
  <1>2. IInv /\ CInv /\ [Next]_vars => IInv' /\ CInv'
    BY NextIInv, NextCInv
  <1>3. IInv /\ IInv' /\ CInv /\ [Next]_vars => [Table!Next]_<<TableOf, RefsOf>>
    BY NextCInv
  <1> QED
    BY <1>1, <1>2, <1>3, PTL DEF Spec, ImplementsContextTable, Table!Spec

=============================================================================
