----------------------- MODULE PnPFilterTypes_proof ------------------------
(***************************************************************************)
(* Machine-checked proofs about PnPFilter, for any devices, any scripts    *)
(* and any number of threads.  The first half of the invariant: types,     *)
(* positions of the threads, kinds of what is pointed to; and what every   *)
(* action does, field by field, which PnPFilter_proof builds on.           *)
(***************************************************************************)
EXTENDS PnPFilter, FiniteSetTheorems, FunctionTheorems, WellFoundedInduction, TLAPS


Call == [do : Serial \cup {"query", "pass", "report", "unload"}, dev : Devices, rels : SUBSET Seq(Devices)]
Does(t, do) == Op(t).do \in do

\* The positions of a thread in its operation.
Pcs == {"next", "done", "sent", "process", "record", "release", "releasing", "spin", "crash", "unlock",
        "hook", "hookstate", "hooked", "started", "closing", "free", "cleared", "delete", "drop", "deref",
        "find", "virtual", "create", "report", "insert", "added", "walk", "tell", "read", "state"}
Rets == {"done", "unlock", "hook", "hookstate", "started", "cleared"}

Reported == SUBSET Seq(Devices)
Shadows  == SUBSET Seq(Exts)
ThreadTypes ==
  [pc : Pcs, x : 0..MaxExts, h : 0..MaxExts, f : 0..MaxExts, n : 0..MaxExts, del : 0..MaxExts,
   phase : {"", "render", "close", "wait"}, created : BOOLEAN, ret : Rets,
   old : Reported, shadow : Shadows, new : Shadows, todo : Seq(Exts),
   state : States, request : 0..MaxExts, ops : Seq(Call)]
ExtTypes ==
  [life : {"none", "live", "freed"}, kind : {"pdo", "lower", "filter"}, dev : Devices \cup {NoExt.dev},
   refs : Int, rel : Int, marked : BOOLEAN, state : States, holders : Int, closing : BOOLEAN,
   vpdo : 0..MaxExts, attached : BOOLEAN, rels : Reported, shadow : Shadows,
   flink : 0..MaxExts]

Types == 
  /\ ext \in [Exts -> ExtTypes]
  /\ th \in [Threads -> ThreadTypes]
  /\ list \in Seq(Exts)
  /\ hooked \subseteq Devices
  /\ known \in [Devices \cup Exts -> States \cup {"none"}]
  /\ owner \in Threads \cup {Nobody}
  /\ spinning \in BOOLEAN

Single(ptr) == \A s, r \in ptr : s = r

Calling(q, do)  == Head(q.ops).do \in do
FindsIn(q)      == \/ Calling(q, {"add", "attach", "fti"}) /\ q.ret = "done"
                   \/ Calling(q, {"start"}) /\ q.ret = "hookstate"
ExchangesIn(q)  == \/ Calling(q, {"query"}) /\ q.ret = "unlock"
                   \/ Calling(q, {"remove"}) /\ q.ret = "hook"
                   \/ Calling(q, {"detach"}) /\ q.ret = "cleared"
GoesIn(q)       == Calling(q, {"remove", "detach"}) /\ q.ret = "done"

\* Where a thread can be with what in its operation, and what it has there.
Standing(t, q) ==
  LET pc == q.pc
      ret == q.ret
  IN
  /\ pc # "next" => q.ops # <<>>
  /\ pc = "next" => ret = "done" /\ q.request = 0
  /\ pc = "sent" => Calling(q, {"query", "pass"}) /\ ret = "done"
  /\ pc \in {"process", "record"} => Calling(q, {"query"}) /\ ret = "unlock" /\ Head(q.ops).rels # Null
  /\ pc \in {"release", "releasing", "spin"} => ExchangesIn(q)
  /\ pc = "crash" => ExchangesIn(q) \/ (Calling(q, {"report"}) /\ ret = "done")
  /\ pc = "unlock" => Calling(q, {"query"}) /\ ret = "unlock"
  /\ pc \in {"closing", "free"} => ExchangesIn(q) /\ ~Calling(q, {"query"})
  /\ pc = "hook" => (Calling(q, {"start"}) /\ ret = "started") \/ (Calling(q, {"remove"}) /\ ret = "hook")
  /\ pc \in {"find", "virtual", "create", "report", "insert", "added"} => FindsIn(q)
  /\ pc \in {"hookstate", "hooked"} => Calling(q, {"start", "remove"}) /\ ret = "hookstate"
  /\ pc = "started" => Calling(q, {"start"}) /\ ret = "started"
  /\ pc = "cleared" => \/ Calling(q, {"remove"}) /\ ret \in {"hook", "cleared"}
                       \/ Calling(q, {"detach"}) /\ ret = "cleared"
  /\ pc \in {"delete", "drop"} => FindsIn(q) \/ GoesIn(q)
  /\ pc = "deref" => \/ FindsIn(q) \/ GoesIn(q)
                     \/ Calling(q, {"start"}) /\ ret = "started"
                     \/ Calling(q, {"remove"}) /\ ret = "cleared"
  /\ pc \in {"walk", "tell", "read", "state"} => Calling(q, {"report"}) /\ ret = "done"
  /\ pc = "done" => ret # "hookstate"
  /\ \A i \in DOMAIN q.ops : q.ops[i] \in Calls(t)
  /\ q.del # 0 => q.phase # ""
  /\ q.new # Null => pc = "record"
  /\ q.todo # <<>> => pc = "releasing"
  /\ ret = "hookstate" => q.h # 0
  /\ pc \in {"report", "insert", "added"} => q.n # 0
  /\ pc \in {"tell", "read", "state"} => q.request # 0
  /\ pc \notin {"next", "done"} /\ Calling(q, {"query", "pass", "remove", "detach"}) => q.f # 0
Control(t) == Standing(t, th[t])

Typed == Types /\ \A t \in Threads : Control(t)

Made(x)     == ext[x].life # "none"
Physical(x) == Made(x) /\ Virtual(x)
Filter(x)   == Made(x) /\ ~Virtual(x)
Pdos(seq)   == \A i \in DOMAIN seq : Made(seq[i]) /\ ext[seq[i]].kind = "pdo"
Related(ptr) == Single(ptr) /\ \A seq \in ptr : Pdos(seq)

\* Every pointer is to an extension of its kind.
Pointers(t) ==
  /\ th[t].x # 0 => Physical(th[t].x)
  /\ th[t].h # 0 => Physical(th[t].h)
  /\ th[t].del # 0 => Physical(th[t].del)
  /\ th[t].f # 0 => Filter(th[t].f)
  /\ th[t].n # 0 => Filter(th[t].n)
  /\ th[t].request # 0 => Made(th[t].request)
  /\ Owns(t) => th[t].x # 0
  /\ Adds(t) => ext[th[t].x].dev = Op(t).dev
  /\ Related(th[t].shadow) /\ Related(th[t].new) /\ Pdos(th[t].todo)
Extension(x) ==
  /\ Related(ext[x].shadow)
  /\ Made(x) => ext[x].dev \in Devices
  /\ Virtual(x) => ext[x].shadow = Null
  /\ Filter(x) => /\ ext[x].vpdo # 0 /\ Physical(ext[x].vpdo)
                  /\ ext[ext[x].vpdo].dev = ext[x].dev
                  /\ ~ext[x].marked
  /\ Listed(x) => Made(x)

Formed == (\A t \in Threads : Pointers(t)) /\ \A x \in Exts : Extension(x)

\* Nothing is in the list twice.
Order == \A i, j \in DOMAIN list : list[i] = list[j] => i = j

-----------------------------------------------------------------------------
(* Numbers and sets *)

\* Induction: a set of numbers with 0 and every successor has them all.
LEMMA Numbers ==
  ASSUME NEW S \in SUBSET Nat, 0 \in S, \A n \in S : n + 1 \in S
  PROVE  S = Nat
  <1> SUFFICES ASSUME Nat \ S # {} PROVE FALSE
    OBVIOUS
  <1>1. PICK m \in Nat \ S : \A i \in Nat \ S : <<i, m>> \notin OpToRel(<, Nat)
    BY WFMin, NatLessThanWellFounded
  <1>2. m \in Nat /\ m # 0 /\ m \notin S
    OBVIOUS
  <1>3. m - 1 \in Nat /\ m - 1 < m /\ (m - 1) + 1 = m
    BY <1>2
  <1>4. m - 1 \in S
    <2> SUFFICES ASSUME m - 1 \in Nat \ S PROVE FALSE
      BY <1>3
    <2>1. <<m - 1, m>> \in OpToRel(<, Nat)
      BY <1>2, <1>3, Zenon DEF OpToRel
    <2> QED
      BY <1>1, <2>1
  <1> QED
    BY <1>2, <1>3, <1>4

\* Every set of positions has a first one.
LEMMA FirstPlace ==
  ASSUME NEW n \in Nat, NEW P \in SUBSET (1..n), P # {}
  PROVE  LET i == CHOOSE i \in P : \A j \in P : i <= j
         IN  i \in P /\ \A j \in P : i <= j
  <1>1. P \in SUBSET Nat
    OBVIOUS
  <1>2. PICK m \in P : \A i \in P : <<i, m>> \notin OpToRel(<, Nat)
    BY <1>1, WFMin, NatLessThanWellFounded
  <1>3. \A j \in P : m <= j
    <2> SUFFICES ASSUME NEW j \in P, ~(m <= j) PROVE FALSE
      OBVIOUS
    <2>1. j \in Nat /\ m \in Nat /\ j < m
      BY <1>1
    <2>2. <<j, m>> \in OpToRel(<, Nat)
      BY <2>1, Zenon DEF OpToRel
    <2> QED
      BY <1>2, <2>2
  <1> QED
    BY <1>2, <1>3

LEMMA OneMore ==
  ASSUME NEW S, IsFiniteSet(S), NEW e, e \notin S, NEW T, T = S \cup {e}
  PROVE  IsFiniteSet(T) /\ Cardinality(T) = Cardinality(S) + 1
  BY FS_AddElement

LEMMA OneLess ==
  ASSUME NEW S, IsFiniteSet(S), NEW e, e \in S, NEW T, T = S \ {e}
  PROVE  IsFiniteSet(T) /\ Cardinality(T) = Cardinality(S) - 1
  BY FS_RemoveElement

LEMMA Disjoint ==
  ASSUME NEW S, NEW T, IsFiniteSet(S), IsFiniteSet(T), S \cap T = {}
  PROVE  IsFiniteSet(S \cup T) /\ Cardinality(S \cup T) = Cardinality(S) + Cardinality(T)
  <1>1. Cardinality(S) \in Nat /\ Cardinality(T) \in Nat /\ Cardinality(S \cap T) = 0
    BY FS_CardinalityType, FS_EmptySet
  <1>2. /\ IsFiniteSet(S \cup T)
        /\ Cardinality(S \cup T) = Cardinality(S) + Cardinality(T) - Cardinality(S \cap T)
    BY FS_Union
  <1> QED
    BY <1>1, <1>2

\* A pointer that is not NULL.
LEMMA OnlyIs ==
  ASSUME NEW s
  PROVE  Only({s}) = s
  BY DEF Only

LEMMA SinglePointer ==
  ASSUME NEW ptr, Single(ptr)
  PROVE  /\ \A s \in ptr : ptr = {s} /\ Only(ptr) = s
         /\ ptr # Null => Only(ptr) \in ptr /\ ptr = {Only(ptr)}
  BY DEF Single, Only, Null

-----------------------------------------------------------------------------
(* The loop over a list of extensions *)

Begun(l, devs) == [at |-> IF l = <<>> THEN 0 ELSE 1, devs |-> devs, found |-> <<>>]
Runs(g, n, e, l, devs) ==
  g = [i \in 0..n |-> IF i = 0 THEN Begun(l, devs) ELSE Only({Visited(e, l, s) : s \in {g[i - 1]}})]

LEMMA RunSteps ==
  ASSUME NEW n \in Nat, NEW e, NEW l, NEW devs, NEW g, Runs(g, n, e, l, devs)
  PROVE  /\ g[0] = Begun(l, devs)
         /\ \A i \in 0..n : i # n => g[i + 1] = Visited(e, l, g[i])
  <1>1. g[0] = Begun(l, devs)
    BY DEF Runs
  <1>2. ASSUME NEW i \in 0..n, i # n
        PROVE  g[i + 1] = Visited(e, l, g[i])
    <2>1. i + 1 \in 0..n /\ i + 1 # 0 /\ (i + 1) - 1 = i
      BY <1>2
    <2>2. g[i + 1] = Only({Visited(e, l, s) : s \in {g[i]}})
      BY <2>1 DEF Runs
    <2>3. {Visited(e, l, s) : s \in {g[i]}} = {Visited(e, l, g[i])}
      OBVIOUS
    <2> QED
      BY <2>2, <2>3, OnlyIs
  <1> QED
    BY <1>1, <1>2

LEMMA RunExists ==
  ASSUME NEW e, NEW l, NEW devs
  PROVE  \A n \in Nat : \E g : Runs(g, n, e, l, devs)
  <1> DEFINE N == {n \in Nat : \E g : Runs(g, n, e, l, devs)}
  <1>1. 0 \in N
    <2>1. Runs([i \in 0..0 |-> Begun(l, devs)], 0, e, l, devs)
      BY DEF Runs
    <2> QED
      BY <2>1
  <1>2. ASSUME NEW n \in N
        PROVE  n + 1 \in N
    <2>1. PICK f : Runs(f, n, e, l, devs)
      OBVIOUS
    <2> DEFINE g == [i \in 0..(n + 1) |-> IF i <= n THEN f[i] ELSE Only({Visited(e, l, s) : s \in {f[i - 1]}})]
               h == [i \in 0..(n + 1) |-> IF i = 0 THEN Begun(l, devs)
                                         ELSE Only({Visited(e, l, s) : s \in {g[i - 1]}})]
    <2>2. ASSUME NEW i \in 0..(n + 1)
          PROVE  g[i] = h[i]
      <3>0. n \in Nat /\ i \in 0..(n + 1)
        OBVIOUS
      <3>1. CASE i = 0
        BY <2>1, <3>1 DEF Runs
      <3>2. CASE i \in 1..n
        <4>1. i \in 0..n /\ i # 0 /\ i <= n /\ i - 1 <= n /\ i - 1 \in 0..(n + 1)
          BY <3>0, <3>2
        <4>2. g[i] = f[i] /\ g[i - 1] = f[i - 1]
          BY <3>0, <4>1
        <4>3. f[i] = Only({Visited(e, l, s) : s \in {f[i - 1]}})
          BY <2>1, <4>1 DEF Runs
        <4>4. h[i] = Only({Visited(e, l, s) : s \in {g[i - 1]}})
          BY <3>0, <4>1
        <4> QED
          BY <4>2, <4>3, <4>4
      <3>3. CASE i = n + 1
        <4>1. i # 0 /\ ~(i <= n) /\ i - 1 <= n /\ i - 1 \in 0..(n + 1)
          BY <3>0, <3>3
        <4>2. g[i - 1] = f[i - 1]
          BY <4>1
        <4> QED
          BY <3>0, <4>1, <4>2
      <3> QED
        BY <3>0, <3>1, <3>2, <3>3
    <2>3. g = h
      BY <2>2
    <2>4. Runs(g, n + 1, e, l, devs)
      BY <2>3 DEF Runs
    <2> QED
      BY <2>4
  <1> HIDE DEF N
  <1>3. N = Nat
    BY <1>1, <1>2, Numbers DEF N
  <1> QED
    BY <1>3 DEF N

LEMMA Rounds ==
  ASSUME NEW a \in Nat, NEW b \in Nat
  PROVE  2 * (a + 1) * (b + 1) \in Nat /\ a <= 2 * (a + 1) * (b + 1)
  <1>1. PICK c \in Nat : c = a * b
    OBVIOUS
  <1>2. 2 * (a + 1) * (b + 1) = 2 * c + 2 * a + 2 * b + 2
    BY <1>1
  <1> QED
    BY <1>2

Turns(l, devs) == 2 * (Len(l) + 1) * (Len(devs) + 1)

LEMMA VisitTurns ==
  ASSUME NEW e, NEW l, NEW devs, Len(l) \in Nat, Len(devs) \in Nat
  PROVE  /\ Turns(l, devs) \in Nat /\ Len(l) <= Turns(l, devs)
         /\ \E g : /\ Runs(g, Turns(l, devs), e, l, devs)
                  /\ Visit(e, l, devs).found = g[Turns(l, devs)].found
                  /\ Visit(e, l, devs).ends = (g[Turns(l, devs)].at = 0)
  <1> DEFINE n == Turns(l, devs)
             g == CHOOSE g : Runs(g, n, e, l, devs)
  <1>1. n \in Nat /\ Len(l) <= n
    BY Rounds DEF Turns
  <1>2. Runs(g, n, e, l, devs)
    BY <1>1, RunExists
  <1>3. Visit(e, l, devs) = [ends |-> g[n].at = 0, found |-> g[n].found]
    BY Zenon DEF Visit, Runs, Begun, Turns
  <1> HIDE DEF n, g
  <1> QED
    BY <1>1, <1>2, <1>3 DEF n

LEMMA VisitRuns ==
  ASSUME NEW e, NEW l, NEW devs, Len(l) \in Nat, Len(devs) \in Nat
  PROVE  \E n \in Nat : \E g : /\ Len(l) <= n
                                 /\ Runs(g, n, e, l, devs)
                                 /\ Visit(e, l, devs).found = g[n].found
                                 /\ Visit(e, l, devs).ends = (g[n].at = 0)
  BY VisitTurns

\* One step of the loop, in parts.
Matches(e, x, devs) == {i \in DOMAIN devs : e[x].kind = "pdo" /\ devs[i] = e[x].dev}
FirstOf(S) == CHOOSE i \in S : \A j \in S : i <= j
Rest(e, x, devs) == IF Matches(e, x, devs) = {} THEN devs
                    ELSE Removed(devs, FirstOf(Matches(e, x, devs)))
Onward(e, l, s) ==
  [found |-> IF Matches(e, l[s.at], s.devs) = {} THEN s.found ELSE Append(s.found, l[s.at]),
   devs  |-> Rest(e, l[s.at], s.devs),
   at    |-> IF e[l[s.at]].kind # "pdo" THEN IF After(l, s.at) = 0 THEN 1 ELSE After(l, After(l, s.at))
             ELSE IF Rest(e, l[s.at], s.devs) = <<>> THEN 0 ELSE After(l, s.at)]
LEMMA VisitedOnward ==
  ASSUME NEW e, NEW l, NEW s
  PROVE  /\ s.at = 0 => Visited(e, l, s) = s
         /\ s.at # 0 => Visited(e, l, s) = Onward(e, l, s)
  BY Zenon DEF Visited, Onward, Rest, Matches, FirstOf

\* The loop finds virtual PDOs of PnP that are in the list.
FoundIn(e, l, v) == /\ v \in Seq(Exts)
                    /\ \A i \in DOMAIN v : e[v[i]].kind = "pdo" /\ \E j \in DOMAIN l : l[j] = v[i]
LEMMA VisitFinds ==
  ASSUME NEW e, NEW l \in Seq(Exts), NEW devs, Len(devs) \in Nat
  PROVE  FoundIn(e, l, Visit(e, l, devs).found)
  <1>1. PICK n \in Nat : \E g : /\ Runs(g, n, e, l, devs)
                                /\ Visit(e, l, devs).found = g[n].found
    BY VisitRuns
  <1>2. PICK g : Runs(g, n, e, l, devs) /\ Visit(e, l, devs).found = g[n].found
    BY <1>1
  <1> DEFINE Good(s) == /\ s.at \in 0..Len(l)
                        /\ s.found \in Seq(Exts)
                        /\ \A i \in DOMAIN s.found : /\ e[s.found[i]].kind = "pdo"
                                                     /\ \E j \in DOMAIN l : l[j] = s.found[i]
             N == {i \in Nat : i <= n => Good(g[i])}
  <1>3. 0 \in N
    <2>1. g[0] = Begun(l, devs)
      BY <1>2, RunSteps
    <2>2. IF l = <<>> THEN TRUE ELSE 1 \in 0..Len(l)
      OBVIOUS
    <2>3. g[0].at \in 0..Len(l) /\ g[0].found = <<>>
      BY <2>1, <2>2 DEF Begun
    <2>4. \A i : i \notin DOMAIN g[0].found
      BY <2>3
    <2>5. Good(g[0])
      BY <2>3, <2>4
    <2> QED
      BY <2>5
  <1>4. ASSUME NEW i \in N
        PROVE  i + 1 \in N
    <2> SUFFICES ASSUME i + 1 <= n
                 PROVE  Good(g[i + 1])
      OBVIOUS
    <2>1. i \in 0..n /\ i # n /\ Good(g[i])
      OBVIOUS
    <2>2. g[i + 1] = Visited(e, l, g[i])
      BY <1>2, <2>1, RunSteps
    <2> HIDE DEF N
    <2>3. CASE g[i].at = 0
      BY <2>1, <2>2, <2>3 DEF Visited
    <2>4. CASE g[i].at # 0
      <3> DEFINE s == g[i]
                 x == l[s.at]
                 matches == {k \in DOMAIN s.devs : e[x].kind = "pdo" /\ s.devs[k] = e[x].dev}
                 rest == IF matches = {} THEN s.devs
                         ELSE Removed(s.devs, CHOOSE k \in matches : \A j \in matches : k <= j)
      <3>1. s.at \in DOMAIN l /\ x \in Exts
        BY <2>1, <2>4
      <3>0. g[i + 1] = Onward(e, l, s)
        BY <2>2, <2>4, VisitedOnward
      <3>2. g[i + 1].found = IF matches = {} THEN s.found ELSE Append(s.found, x)
        BY <3>0 DEF Onward, Matches
      <3>3. g[i + 1].at = IF e[x].kind # "pdo" THEN IF After(l, s.at) = 0 THEN 1 ELSE After(l, After(l, s.at))
                          ELSE IF Rest(e, x, s.devs) = <<>> THEN 0 ELSE After(l, s.at)
        BY <3>0 DEF Onward
      <3>4. matches # {} => e[x].kind = "pdo"
        OBVIOUS
      <3>5. g[i + 1].at \in 0..Len(l)
        <4>1. \A k \in 1..Len(l) : After(l, k) \in 0..Len(l)
          BY DEF After
        <4>2. s.at \in 1..Len(l) /\ 1 \in 0..Len(l) /\ 0 \in 0..Len(l)
          BY <3>1
        <4> QED
          BY <3>3, <4>1, <4>2
      <3> HIDE DEF matches, rest
      <3>6. CASE matches = {}
        BY <2>1, <3>2, <3>5, <3>6
      <3>7. CASE matches # {}
        <4>1. PICK f \in Seq(Exts) : f = s.found
          BY <2>1
        <4>2. PICK y \in Exts : y = x
          BY <3>1
        <4>3. g[i + 1].found = Append(f, y)
          BY <3>2, <3>7, <4>1, <4>2
        <4>4. /\ e[y].kind = "pdo"
              /\ \E j \in DOMAIN l : l[j] = y
          BY <3>1, <3>4, <3>7, <4>2
        <4>5. \A k \in DOMAIN f : e[f[k]].kind = "pdo" /\ \E j \in DOMAIN l : l[j] = f[k]
          BY <2>1, <4>1
        <4>6. \A k \in DOMAIN Append(f, y) : Append(f, y)[k] = y \/ (k \in DOMAIN f /\ Append(f, y)[k] = f[k])
          OBVIOUS
        <4>7. Append(f, y) \in Seq(Exts)
          OBVIOUS
        <4> HIDE DEF s, x
        <4>8. /\ Append(f, y) \in Seq(Exts)
              /\ \A k \in DOMAIN Append(f, y) : /\ e[Append(f, y)[k]].kind = "pdo"
                                               /\ \E j \in DOMAIN l : l[j] = Append(f, y)[k]
          BY <4>4, <4>5, <4>6, <4>7
        <4> QED
          BY <3>5, <4>3, <4>8
      <3> QED
        BY <3>6, <3>7
    <2> QED
      BY <2>3, <2>4
  <1>5. N = Nat
    <2> HIDE DEF N
    <2> QED
      BY <1>3, <1>4, Numbers DEF N
  <1>6. Good(g[n])
    BY <1>5
  <1> QED
    BY <1>2, <1>6 DEF FoundIn

-----------------------------------------------------------------------------
(* Numbers of extensions and threads *)

LEMMA Numerals ==
  /\ MaxExts \in Nat /\ IsFiniteSet(Exts) /\ IsFiniteSet(Threads)
  /\ Exts \subseteq Nat /\ 0 \notin Exts /\ 0..MaxExts = Exts \cup {0}
  /\ \A x \in Exts : x \notin Devices
  <1>1. MaxExts \in Nat
    BY PnPFilterAssumption
  <1>2. IsFiniteSet(1..MaxExts)
    BY <1>1, FS_Interval
  <1> QED
    BY <1>1, <1>2, NamesAssumption DEF Exts

LEMMA PlacesFinite ==
  ASSUME NEW S, NEW seq \in Seq(S), NEW x
  PROVE  /\ IsFiniteSet(Places(seq, x)) /\ Times(seq, x) \in Nat
         /\ Times(seq, x) = 0 <=> \A i \in DOMAIN seq : seq[i] # x
  <1>1. Places(seq, x) \subseteq 1..Len(seq) /\ Len(seq) \in Nat
    BY DEF Places
  <1>2. IsFiniteSet(1..Len(seq))
    BY <1>1, FS_Interval
  <1>3. IsFiniteSet(Places(seq, x))
    BY <1>1, <1>2, FS_Subset
  <1>4. Times(seq, x) \in Nat /\ (Times(seq, x) = 0 <=> Places(seq, x) = {})
    BY <1>3, FS_CardinalityType, FS_EmptySet DEF Times
  <1> QED
    BY <1>3, <1>4 DEF Places

\* A step is of one thread.
OthersRest(t) == \A u \in Threads \ {t} : th'[u] = th[u]


-----------------------------------------------------------------------------
(* What the operators return *)

LEMMA FoundIs ==
  ASSUME list \in Seq(Exts), NEW d
  PROVE  /\ Found(d) \in 0..MaxExts
         /\ Found(d) # 0 => Found(d) \in Exts /\ Listed(Found(d)) /\ Virtual(Found(d)) /\ ext[Found(d)].dev = d
  <1> DEFINE is == {i \in DOMAIN list : Virtual(list[i]) /\ ext[list[i]].dev = d}
  <1>1. Found(d) = IF is = {} THEN 0 ELSE list[FirstOf(is)]
    BY DEF Found, FirstOf
  <1>2. is \in SUBSET (1..Len(list)) /\ Len(list) \in Nat
    OBVIOUS
  <1>3. is # {} => FirstOf(is) \in is
    BY <1>2, FirstPlace DEF FirstOf
  <1>4. CASE is = {}
    BY <1>1, <1>4, Numerals
  <1>5. CASE is # {}
    <2>1. FirstOf(is) \in DOMAIN list /\ list[FirstOf(is)] \in Exts
      BY <1>3, <1>5
    <2>2. Virtual(list[FirstOf(is)]) /\ ext[list[FirstOf(is)]].dev = d
      BY <1>3, <1>5
    <2> QED
      BY <1>1, <1>5, <2>1, <2>2, Numerals DEF Listed
  <1> QED
    BY <1>4, <1>5

LEMMA FreshIs ==
  Unused # {} => Fresh \in Exts /\ ext[Fresh].life = "none"
  <1>1. MaxExts \in Nat /\ Unused \in SUBSET (1..MaxExts)
    BY Numerals DEF Unused, Exts
  <1>2. Unused # {} => Fresh \in Unused
    BY <1>1, FirstPlace DEF Fresh
  <1> QED
    BY <1>2 DEF Unused

LEMMA PlaceIs ==
  ASSUME list \in Seq(Exts), NEW x, Listed(x)
  PROVE  Place(x) \in 1..Len(list) /\ list[Place(x)] = x
  BY DEF Place, Listed

LEMMA WithoutIs ==
  ASSUME list \in Seq(Exts), NEW x
  PROVE  /\ Without(x) \in Seq(Exts)
         /\ \A i \in DOMAIN Without(x) : \E j \in DOMAIN list : Without(x)[i] = list[j]
         /\ Order => /\ \A i, j \in DOMAIN Without(x) : Without(x)[i] = Without(x)[j] => i = j
                     /\ \A i \in DOMAIN Without(x) : Without(x)[i] # x
  <1>1. CASE ~Listed(x)
    BY <1>1 DEF Without, Listed, Order
  <1>2. CASE Listed(x)
    <2>1. Place(x) \in 1..Len(list) /\ list[Place(x)] = x
      BY <1>2, PlaceIs
    <2> DEFINE p == Place(x)
               w == Without(x)
               k(i) == IF i < p THEN i ELSE i + 1
    <2>2. w = [i \in 1..Len(list) - 1 |-> list[k(i)]]
      BY <1>2 DEF Without
    <2>3. Len(list) - 1 \in Nat /\ \A i \in 1..Len(list) - 1 : k(i) \in 1..Len(list) /\ k(i) # p
      BY <2>1
    <2>4. \A i, j \in 1..Len(list) - 1 : k(i) = k(j) => i = j
      BY <2>1
    <2>5. w \in Seq(Exts) /\ DOMAIN w = 1..Len(list) - 1
      BY <2>2, <2>3
    <2> HIDE DEF k, p, w
    <2>6. \A i \in DOMAIN w : k(i) \in DOMAIN list /\ w[i] = list[k(i)] /\ k(i) # p
      BY <2>2, <2>3, <2>5
    <2>7. Order => \A i, j \in DOMAIN w : w[i] = w[j] => i = j
      BY <2>4, <2>5, <2>6 DEF Order
    <2>8. Order => \A i \in DOMAIN w : w[i] # x
      BY <2>1, <2>6 DEF Order, p
    <2> QED
      BY <2>5, <2>6, <2>7, <2>8 DEF w
  <1> QED
    BY <1>1, <1>2

\* What the loop finds in the list, and in relations that were found before.
LEMMA FilterOfIs ==
  ASSUME NEW d
  PROVE  /\ FilterOf(d) \subseteq Exts
         /\ FilterOf(d) # {} => (CHOOSE f \in FilterOf(d) : TRUE) \in FilterOf(d)
         /\ (\E f \in FilterOf(d) : ~ext[f].closing)
              => LET f == CHOOSE f \in FilterOf(d) : ~ext[f].closing IN f \in FilterOf(d) /\ ~ext[f].closing
  BY DEF FilterOf

-----------------------------------------------------------------------------
(* The types, the positions of a thread and its pointers that are not NULL *)

\* What it takes to move one thread.
LEMMA TypedMoves ==
  ASSUME Typed, NEW t \in Threads, NEW r \in ThreadTypes, th' = [th EXCEPT ![t] = r], Standing(t, r),
         ext' \in [Exts -> ExtTypes], list' \in Seq(Exts),
         hooked' \subseteq Devices, known' \in [Devices \cup Exts -> States \cup {"none"}],
         owner' \in Threads \cup {Nobody}, spinning' \in BOOLEAN
  PROVE  Typed' /\ OthersRest(t)
  <1>1. th \in [Threads -> ThreadTypes]
    BY DEF Typed, Types
  <1>2. th' \in [Threads -> ThreadTypes] /\ OthersRest(t) /\ th'[t] = r
    BY <1>1 DEF OthersRest
  <1>3. ASSUME NEW u \in Threads
        PROVE  Standing(u, th'[u])
    BY <1>2 DEF Typed, OthersRest, Control
  <1> QED
    BY <1>2, <1>3 DEF Typed, Types, Control

LEMMA TypedKnown ==
  ASSUME Typed, NEW x, NEW state \in States
  PROVE  /\ ReportNewDevice(x) => known' \in [Devices \cup Exts -> States \cup {"none"}]
         /\ ReportNewDeviceState(x, state) => known' \in [Devices \cup Exts -> States \cup {"none"}]
  BY DEF Typed, Types, ReportNewDevice, ReportNewDeviceState, New, States

LEMMA FlinkIs ==
  ASSUME Types, NEW x, Listed(x)
  PROVE  FlinkOf(x) \in 0..MaxExts
  BY PlaceIs, Numerals DEF Types, FlinkOf

LEMMA Positions ==
  /\ {"next", "done", "sent", "process", "record", "release", "releasing", "spin", "crash", "unlock",
      "hook", "hookstate", "hooked", "started", "closing", "free", "cleared", "delete", "drop", "deref",
      "find", "virtual", "create", "report", "insert", "added", "walk", "tell", "read", "state"} \subseteq Pcs
  /\ \A ret \in Rets : ret \in Pcs
  /\ {"done", "unlock", "hook", "hookstate", "started", "cleared"} \subseteq Rets
  /\ {"NotStarted", "Started", "Deleted"} \subseteq States
  /\ Null \in Reported /\ Null \in Shadows
  BY DEF Pcs, Rets, States, Null, Reported, Shadows

\* A field of an extension at a time.
LEMMA ExtFields ==
  ASSUME NEW p \in ExtTypes
  PROVE  /\ p.refs \in Int /\ p.rel \in Int /\ p.holders \in Int
         /\ \A v \in Int : /\ [p EXCEPT !.refs = v] \in ExtTypes
                           /\ [p EXCEPT !.rel = v] \in ExtTypes
                           /\ [p EXCEPT !.holders = v] \in ExtTypes
         /\ \A v \in States : [p EXCEPT !.state = v] \in ExtTypes
         /\ \A v \in Reported : [p EXCEPT !.rels = v] \in ExtTypes
         /\ \A v \in Shadows : [p EXCEPT !.shadow = v] \in ExtTypes
         /\ \A v \in 0..MaxExts : /\ [p EXCEPT !.flink = v] \in ExtTypes
                                  /\ [p EXCEPT !.vpdo = v] \in ExtTypes
         /\ [p EXCEPT !.life = "freed"] \in ExtTypes
         /\ \A v \in BOOLEAN : /\ [p EXCEPT !.marked = v] \in ExtTypes
                               /\ [p EXCEPT !.closing = v] \in ExtTypes
                               /\ [p EXCEPT !.attached = v] \in ExtTypes
  <1>1. p.refs \in Int /\ p.rel \in Int /\ p.holders \in Int
    BY DEF ExtTypes
  <1>2. \A v \in Int : /\ [p EXCEPT !.refs = v] \in ExtTypes
                      /\ [p EXCEPT !.rel = v] \in ExtTypes
                      /\ [p EXCEPT !.holders = v] \in ExtTypes
    BY DEF ExtTypes
  <1>3. \A v \in States : [p EXCEPT !.state = v] \in ExtTypes
    BY DEF ExtTypes
  <1>4. \A v \in Reported : [p EXCEPT !.rels = v] \in ExtTypes
    BY DEF ExtTypes
  <1>5. \A v \in Shadows : [p EXCEPT !.shadow = v] \in ExtTypes
    BY DEF ExtTypes
  <1>6. \A v \in 0..MaxExts : /\ [p EXCEPT !.flink = v] \in ExtTypes
                             /\ [p EXCEPT !.vpdo = v] \in ExtTypes
    BY DEF ExtTypes
  <1>7. [p EXCEPT !.life = "freed"] \in ExtTypes
    BY DEF ExtTypes
  <1>8. \A v \in BOOLEAN : /\ [p EXCEPT !.marked = v] \in ExtTypes
                          /\ [p EXCEPT !.closing = v] \in ExtTypes
                          /\ [p EXCEPT !.attached = v] \in ExtTypes
    BY DEF ExtTypes
  <1> QED
    BY <1>1, <1>2, <1>3, <1>4, <1>5, <1>6, <1>7, <1>8

LEMMA ExtNumbers ==
  ASSUME NEW p \in ExtTypes
  PROVE  p.refs \in Int /\ p.rel \in Int /\ p.holders \in Int
  BY DEF ExtTypes

LEMMA ExtUpdates ==
  ASSUME NEW e \in [Exts -> ExtTypes], NEW x
  PROVE  /\ [e EXCEPT ![x].holders = @ + 1] \in [Exts -> ExtTypes]
         /\ [e EXCEPT ![x].holders = @ - 1] \in [Exts -> ExtTypes]
         /\ [e EXCEPT ![x].refs = @ + 1] \in [Exts -> ExtTypes]
         /\ [e EXCEPT ![x].refs = @ - 1] \in [Exts -> ExtTypes]
         /\ [e EXCEPT ![x].rel = @ + 1] \in [Exts -> ExtTypes]
         /\ [e EXCEPT ![x].rel = @ - 1] \in [Exts -> ExtTypes]
         /\ [e EXCEPT ![x].closing = TRUE] \in [Exts -> ExtTypes]
         /\ [e EXCEPT ![x].marked = TRUE] \in [Exts -> ExtTypes]
         /\ [e EXCEPT ![x].attached = TRUE] \in [Exts -> ExtTypes]
         /\ [e EXCEPT ![x].life = "freed"] \in [Exts -> ExtTypes]
         /\ \A v \in States : [e EXCEPT ![x].state = v] \in [Exts -> ExtTypes]
         /\ \A v \in Reported : [e EXCEPT ![x].rels = v] \in [Exts -> ExtTypes]
         /\ \A v \in Shadows : [e EXCEPT ![x].shadow = v] \in [Exts -> ExtTypes]
         /\ \A v \in 0..MaxExts : [e EXCEPT ![x].flink = v] \in [Exts -> ExtTypes]
         /\ \A r \in ExtTypes : [e EXCEPT ![x] = r] \in [Exts -> ExtTypes]
  <1>1. CASE x \in Exts
    <2>1. PICK p \in ExtTypes : p = e[x]
      BY <1>1
    <2>2. /\ p.refs + 1 \in Int /\ p.refs - 1 \in Int /\ p.rel + 1 \in Int /\ p.rel - 1 \in Int
          /\ p.holders + 1 \in Int /\ p.holders - 1 \in Int
      BY ExtNumbers
    <2>3. \A r \in ExtTypes : [e EXCEPT ![x] = r] \in [Exts -> ExtTypes]
      OBVIOUS
    <2>4. /\ [p EXCEPT !.refs = p.refs + 1] \in ExtTypes
          /\ [p EXCEPT !.refs = p.refs - 1] \in ExtTypes
          /\ [p EXCEPT !.rel = p.rel + 1] \in ExtTypes
          /\ [p EXCEPT !.rel = p.rel - 1] \in ExtTypes
          /\ [p EXCEPT !.holders = p.holders + 1] \in ExtTypes
          /\ [p EXCEPT !.holders = p.holders - 1] \in ExtTypes
      BY <2>2, ExtFields
    <2>5. /\ [p EXCEPT !.closing = TRUE] \in ExtTypes /\ [p EXCEPT !.marked = TRUE] \in ExtTypes
          /\ [p EXCEPT !.attached = TRUE] \in ExtTypes /\ [p EXCEPT !.life = "freed"] \in ExtTypes
      BY ExtFields
    <2>6. /\ \A v \in States : [p EXCEPT !.state = v] \in ExtTypes
          /\ \A v \in Reported : [p EXCEPT !.rels = v] \in ExtTypes
          /\ \A v \in Shadows : [p EXCEPT !.shadow = v] \in ExtTypes
          /\ \A v \in 0..MaxExts : [p EXCEPT !.flink = v] \in ExtTypes
      BY ExtFields
    <2> QED
      BY <2>1, <2>3, <2>4, <2>5, <2>6, Zenon
  <1>2. CASE x \notin Exts
    BY <1>2
  <1> QED
    BY <1>1, <1>2

\* Several fields at once.
LEMMA ExtPuts ==
  ASSUME NEW e \in [Exts -> ExtTypes], NEW x, NEW v, x \in Exts => v \in Int
  PROVE  /\ [e EXCEPT ![x].refs = v] \in [Exts -> ExtTypes]
         /\ [e EXCEPT ![x].rel = v] \in [Exts -> ExtTypes]
         /\ [e EXCEPT ![x].holders = v] \in [Exts -> ExtTypes]
  <1>1. CASE x \in Exts
    <2>1. PICK p \in ExtTypes : p = e[x]
      BY <1>1
    <2>2. /\ [p EXCEPT !.refs = v] \in ExtTypes /\ [p EXCEPT !.rel = v] \in ExtTypes
          /\ [p EXCEPT !.holders = v] \in ExtTypes
      BY <1>1, ExtFields
    <2>3. \A r \in ExtTypes : [e EXCEPT ![x] = r] \in [Exts -> ExtTypes]
      OBVIOUS
    <2> QED
      BY <2>1, <2>2, <2>3, Zenon
  <1>2. CASE x \notin Exts
    BY <1>2
  <1> QED
    BY <1>1, <1>2

LEMMA ExtUpdates2 ==
  ASSUME NEW e \in [Exts -> ExtTypes], NEW x
  PROVE  /\ [e EXCEPT ![x].refs = @ - 1, ![x].rel = @ - 1] \in [Exts -> ExtTypes]
         /\ \A p \in Reported : [e EXCEPT ![x].rels = p, ![x].shadow = Null] \in [Exts -> ExtTypes]
         /\ \A y : \A v \in States : /\ [e EXCEPT ![x].state = v, ![y].holders = @ - 1] \in [Exts -> ExtTypes]
                                   /\ [e EXCEPT ![y].holders = @ - 1, ![x].state = v] \in [Exts -> ExtTypes]
         /\ \A y : [e EXCEPT ![x].life = "freed", ![x].state = "Deleted", ![y].rel = @ - 1] \in [Exts -> ExtTypes]
         /\ \A y : \A r \in ExtTypes : [e EXCEPT ![x].attached = TRUE, ![x].refs = @ + 1, ![x].rel = @ + 1, ![y] = r]
                                     \in [Exts -> ExtTypes]
  <1>1. \A y \in Exts : e[y].refs \in Int /\ e[y].rel \in Int /\ e[y].holders \in Int
    BY ExtNumbers
  <1>2. \A y : y \in Exts => /\ e[y].refs - 1 \in Int /\ e[y].refs + 1 \in Int /\ e[y].rel - 1 \in Int
                             /\ e[y].rel + 1 \in Int /\ e[y].holders - 1 \in Int
    BY <1>1
  <1>3. [e EXCEPT ![x].refs = @ - 1, ![x].rel = @ - 1] \in [Exts -> ExtTypes]
    <2>1. PICK d \in [Exts -> ExtTypes] : d = [e EXCEPT ![x].refs = e[x].refs - 1]
      BY <1>2, ExtPuts, Zenon
    <2>2. [d EXCEPT ![x].rel = e[x].rel - 1] \in [Exts -> ExtTypes]
      BY <1>2, ExtPuts, Zenon
    <2> QED
      BY <2>1, <2>2, Zenon
  <1>4. \A p \in Reported : [e EXCEPT ![x].rels = p, ![x].shadow = Null] \in [Exts -> ExtTypes]
    <2> TAKE p \in Reported
    <2>1. PICK d \in [Exts -> ExtTypes] : d = [e EXCEPT ![x].rels = p]
      BY ExtUpdates, Zenon
    <2>2. [d EXCEPT ![x].shadow = Null] \in [Exts -> ExtTypes]
      BY Positions, ExtUpdates, Zenon
    <2> QED
      BY <2>1, <2>2, Zenon
  <1>5. ASSUME NEW y, NEW v \in States
        PROVE  /\ [e EXCEPT ![x].state = v, ![y].holders = @ - 1] \in [Exts -> ExtTypes]
               /\ [e EXCEPT ![y].holders = @ - 1, ![x].state = v] \in [Exts -> ExtTypes]
    <2>1. PICK d \in [Exts -> ExtTypes] : d = [e EXCEPT ![x].state = v]
      BY ExtUpdates, Zenon
    <2>2. PICK g \in [Exts -> ExtTypes] : g = [e EXCEPT ![y].holders = e[y].holders - 1]
      BY <1>2, ExtPuts, Zenon
    <2>3. [d EXCEPT ![y].holders = e[y].holders - 1] \in [Exts -> ExtTypes]
      BY <1>2, ExtPuts, Zenon
    <2>4. [g EXCEPT ![x].state = v] \in [Exts -> ExtTypes]
      BY ExtUpdates, Zenon
    <2> QED
      BY <2>1, <2>2, <2>3, <2>4, Zenon
  <1>6. ASSUME NEW y
        PROVE  [e EXCEPT ![x].life = "freed", ![x].state = "Deleted", ![y].rel = @ - 1] \in [Exts -> ExtTypes]
    <2>1. PICK d \in [Exts -> ExtTypes] : d = [e EXCEPT ![x].life = "freed"]
      BY ExtUpdates, Zenon
    <2>2. "Deleted" \in States
      BY Positions
    <2>3. PICK g \in [Exts -> ExtTypes] : g = [d EXCEPT ![x].state = "Deleted"]
      BY <2>2, ExtUpdates, Zenon
    <2>4. [g EXCEPT ![y].rel = e[y].rel - 1] \in [Exts -> ExtTypes]
      BY <1>2, ExtPuts, Zenon
    <2> QED
      BY <2>1, <2>3, <2>4, Zenon
  <1>7. ASSUME NEW y, NEW r \in ExtTypes
        PROVE  [e EXCEPT ![x].attached = TRUE, ![x].refs = @ + 1, ![x].rel = @ + 1, ![y] = r] \in [Exts -> ExtTypes]
    <2>1. PICK d \in [Exts -> ExtTypes] : d = [e EXCEPT ![x].attached = TRUE]
      BY ExtUpdates, Zenon
    <2>2. PICK g \in [Exts -> ExtTypes] : g = [d EXCEPT ![x].refs = e[x].refs + 1]
      BY <1>2, ExtPuts, Zenon
    <2>3. PICK h \in [Exts -> ExtTypes] : h = [g EXCEPT ![x].rel = e[x].rel + 1]
      BY <1>2, ExtPuts, Zenon
    <2>4. [h EXCEPT ![y] = r] \in [Exts -> ExtTypes]
      BY ExtUpdates, Zenon
    <2> QED
      BY <2>1, <2>2, <2>3, <2>4, Zenon
  <1> QED
    BY <1>3, <1>4, <1>5, <1>6, <1>7, Zenon

LEMMA UnlistedTyped ==
  ASSUME Types, NEW x
  PROVE  Unlisted(ext, x) \in [Exts -> ExtTypes]
  BY FlinkIs, ExtUpdates, Zenon DEF Types, Unlisted

LEMMA ReferencedTyped ==
  ASSUME Types, NEW x
  PROVE  Referenced(x) \in [Exts -> ExtTypes]
  <1> DEFINE r(y) == [ext[y] EXCEPT !.refs = ext[y].refs + 1, !.holders = ext[y].holders + 1]
  <1>1. \A y \in Exts : Referenced(x)[y] = IF y = x THEN r(y) ELSE ext[y]
    BY DEF Types, Referenced
  <1>2. ASSUME NEW y \in Exts
        PROVE  r(y) \in ExtTypes
    <2>1. PICK p \in ExtTypes : p = ext[y]
      BY DEF Types
    <2>2. p.refs + 1 \in Int /\ p.holders + 1 \in Int
      BY ExtNumbers
    <2>3. PICK a, b \in Int : a = p.refs + 1 /\ b = p.holders + 1
      BY <2>2
    <2>4. [p EXCEPT !.refs = a, !.holders = b] \in ExtTypes
      BY DEF ExtTypes
    <2> QED
      BY <2>1, <2>3, <2>4
  <1> HIDE DEF r
  <1>3. Referenced(x) = [y \in Exts |-> IF y = x THEN r(y) ELSE ext[y]]
    BY DEF Types, Referenced, r
  <1> QED
    BY <1>2, <1>3 DEF Types

LEMMA CountedTyped ==
  ASSUME Types, NEW found \in Seq(Exts), NEW by \in Int
  PROVE  Counted(found, by) \in [Exts -> ExtTypes]
  <1>1. ASSUME NEW x \in Exts
        PROVE  [ext[x] EXCEPT !.refs = @ + by * Times(found, x), !.rel = @ + by * Times(found, x)] \in ExtTypes
    <2>1. PICK p \in ExtTypes : p = ext[x]
      BY DEF Types
    <2>2. PICK n \in Int : n = by * Times(found, x)
      BY PlacesFinite
    <2>3. p.refs + n \in Int /\ p.rel + n \in Int
      BY ExtNumbers
    <2>4. PICK a, b \in Int : a = p.refs + n /\ b = p.rel + n
      BY <2>3
    <2>5. [p EXCEPT !.refs = a, !.rel = b] \in ExtTypes
      BY DEF ExtTypes
    <2> QED
      BY <2>1, <2>2, <2>4, <2>5
  <1> QED
    BY <1>1 DEF Counted

LEMMA NewTyped ==
  ASSUME NEW d \in Devices
  PROVE  /\ NewVirtual(d) \in ExtTypes
         /\ \A x \in 0..MaxExts : [Added(d, "filter") EXCEPT !.vpdo = x] \in ExtTypes
  <1>1. NoExt \in ExtTypes
    BY Numerals DEF NoExt, ExtTypes, Reported, Shadows, Null, States
  <1>2. \A k \in {"pdo", "lower", "filter"} : Added(d, k) \in ExtTypes
    <2> TAKE k \in {"pdo", "lower", "filter"}
    <2>1. \A p \in ExtTypes : [p EXCEPT !.life = "live"] \in ExtTypes
      BY DEF ExtTypes
    <2>2. \A p \in ExtTypes : [p EXCEPT !.dev = d] \in ExtTypes
      BY DEF ExtTypes
    <2>3. \A p \in ExtTypes : [p EXCEPT !.kind = k] \in ExtTypes
      BY DEF ExtTypes
    <2> QED
      BY <1>1, <2>1, <2>2, <2>3, Zenon DEF Added
  <1>3. \A p \in ExtTypes : [p EXCEPT !.refs = 1] \in ExtTypes /\ [p EXCEPT !.rel = 1] \in ExtTypes
    <2>1. 1 \in Int
      OBVIOUS
    <2> QED
      BY <2>1, ExtFields, Zenon
  <1>4. NewVirtual(d) \in ExtTypes
    BY <1>2, <1>3, Zenon DEF NewVirtual
  <1> QED
    BY <1>2, <1>4, ExtFields

LEMMA ThreadFields ==
  ASSUME NEW q \in ThreadTypes
  PROVE  /\ q.ops \in Seq(Call) /\ (q.ops # <<>> => Head(q.ops) \in Call /\ Tail(q.ops) \in Seq(Call))
         /\ q.todo \in Seq(Exts) /\ (q.todo # <<>> => Head(q.todo) \in Exts /\ Tail(q.todo) \in Seq(Exts))
  <1>1. q.ops \in Seq(Call) /\ q.todo \in Seq(Exts)
    BY DEF ThreadTypes
  <1> QED
    BY <1>1

LEMMA IdleTyped ==
  ASSUME NEW s \in Seq(Call)
  PROVE  [Idle EXCEPT !.ops = s] \in ThreadTypes
  <1>1. "next" \in Pcs /\ "done" \in Rets /\ 0 \in 0..MaxExts /\ "NotStarted" \in States
        /\ Null \in Reported /\ Null \in Shadows /\ <<>> \in Seq(Exts)
    BY Positions, Numerals
  <1> QED
    BY <1>1 DEF Idle, ThreadTypes

LEMMA OpTyped ==
  ASSUME NEW q \in ThreadTypes, NEW t \in Threads, q = th[t], th[t].ops # <<>>
  PROVE  Op(t) \in Call
  <1>1. q.ops \in Seq(Call)
    BY DEF ThreadTypes
  <1> QED
    BY <1>1 DEF Op

\* The loops over what was reported before find extensions.
LEMMA OldFound ==
  ASSUME Types, NEW q \in ThreadTypes, NEW t \in Threads, q = th[t]
  PROVE  th[t].old # Null =>
           /\ Visit(ext, list, Only(th[t].old)).found \in Seq(Exts)
           /\ th[t].shadow # Null => Visit(ext, Only(th[t].shadow), Only(th[t].old)).found \in Seq(Exts)
  <1>1. q.old \in SUBSET Seq(Devices) /\ q.shadow \in SUBSET Seq(Exts)
    BY DEF ThreadTypes, Reported, Shadows
  <1>2. q.old # Null => Only(q.old) \in Seq(Devices)
    BY <1>1 DEF Only, Null
  <1>3. q.shadow # Null => Only(q.shadow) \in Seq(Exts)
    BY <1>1 DEF Only, Null
  <1> QED
    BY <1>2, <1>3, VisitFinds DEF Types, FoundIn

LEMMA TypedRender ==
  ASSUME Typed, NEW t \in Threads, Render(t)
  PROVE  Typed' /\ OthersRest(t)
  <1>1. Types /\ Standing(t, th[t])
    BY DEF Typed, Control
  <1>2. PICK q \in ThreadTypes : q = th[t]
    BY <1>1 DEF Types
  <1>3. PICK r : r = [q EXCEPT !.phase = "close"]
    OBVIOUS
  <1>4. r \in ThreadTypes
    BY <1>3, Positions, Numerals DEF ThreadTypes
  <1>5. th' = [th EXCEPT ![t] = r]
    BY <1>2, <1>3 DEF Render, Deletes, RenderVirtualPdoAsDeleted
  <1>6. Standing(t, r)
    BY <1>1, <1>2, <1>3 DEF Standing, ThreadTypes, ExchangesIn, GoesIn, FindsIn, Calling, Render, Deletes, RenderVirtualPdoAsDeleted
  <1>7. ext' \in [Exts -> ExtTypes]
    BY <1>1, UnlistedTyped, ExtUpdates, Zenon DEF Types, Render, Deletes, RenderVirtualPdoAsDeleted
  <1>8. list' \in Seq(Exts)
    BY <1>1, WithoutIs DEF Types, Render, Deletes, RenderVirtualPdoAsDeleted
  <1> QED
    BY <1>1, <1>4, <1>5, <1>6, <1>7, <1>8, TypedMoves DEF Types, Render, Deletes, RenderVirtualPdoAsDeleted

LEMMA TypedCloseVirtualPdo ==
  ASSUME Typed, NEW t \in Threads, CloseVirtualPdo(t)
  PROVE  Typed' /\ OthersRest(t)
  <1>1. Types /\ Standing(t, th[t])
    BY DEF Typed, Control
  <1>2. PICK q \in ThreadTypes : q = th[t]
    BY <1>1 DEF Types
  <1>3. PICK r : r = [q EXCEPT !.phase = "wait"]
    OBVIOUS
  <1>4. r \in ThreadTypes
    BY <1>3, Positions, Numerals DEF ThreadTypes
  <1>5. th' = [th EXCEPT ![t] = r]
    BY <1>2, <1>3 DEF CloseVirtualPdo, Deletes
  <1>6. Standing(t, r)
    BY <1>1, <1>2, <1>3 DEF Standing, ThreadTypes, ExchangesIn, GoesIn, FindsIn, Calling, CloseVirtualPdo, Deletes
  <1>7. ext' \in [Exts -> ExtTypes]
    BY <1>1, ExtUpdates, Zenon DEF Types, CloseVirtualPdo, Deletes
  <1> QED
    BY <1>1, <1>4, <1>5, <1>6, <1>7, TypedMoves DEF Types, CloseVirtualPdo, Deletes

LEMMA TypedDeleteVirtualPdoByExtensionInternal ==
  ASSUME Typed, NEW t \in Threads, DeleteVirtualPdoByExtensionInternal(t)
  PROVE  Typed' /\ OthersRest(t)
  <1>1. Types /\ Standing(t, th[t])
    BY DEF Typed, Control
  <1>2. PICK q \in ThreadTypes : q = th[t]
    BY <1>1 DEF Types
  <1>3. PICK r : r = [q EXCEPT !.del = 0]
    OBVIOUS
  <1>4. r \in ThreadTypes
    BY <1>3, Positions, Numerals DEF ThreadTypes
  <1>5. th' = [th EXCEPT ![t] = r]
    BY <1>2, <1>3 DEF DeleteVirtualPdoByExtensionInternal, Deletes
  <1>6. Standing(t, r)
    BY <1>1, <1>2, <1>3 DEF Standing, ThreadTypes, ExchangesIn, GoesIn, FindsIn, Calling, DeleteVirtualPdoByExtensionInternal, Deletes
  <1>7. ext' \in [Exts -> ExtTypes]
    BY <1>1, ExtUpdates, Zenon DEF Types, DeleteVirtualPdoByExtensionInternal, Deletes
  <1>8. known' \in [Devices \cup Exts -> States \cup {"none"}]
    BY <1>1, TypedKnown DEF Types, DeleteVirtualPdoByExtensionInternal, Deletes, States
  <1> QED
    BY <1>1, <1>4, <1>5, <1>6, <1>7, <1>8, TypedMoves DEF Types, DeleteVirtualPdoByExtensionInternal, Deletes

LEMMA TypedDeleteVirtualPdoByExtension ==
  ASSUME Typed, NEW t \in Threads, DeleteVirtualPdoByExtension(t)
  PROVE  Typed' /\ OthersRest(t)
  <1>1. Types /\ Standing(t, th[t])
    BY DEF Typed, Control
  <1>2. PICK q \in ThreadTypes : q = th[t]
    BY <1>1 DEF Types
  <1>3. PICK v \in Pcs : v = IF ext[th[t].x].marked THEN "deref" ELSE "drop"
    BY Positions
  <1>4. PICK r : r = [q EXCEPT !.pc = v]
    OBVIOUS
  <1>5. r \in ThreadTypes
    BY <1>4, Positions, Numerals DEF ThreadTypes
  <1>6. th' = [th EXCEPT ![t] = r]
    BY <1>2, <1>4, <1>3 DEF DeleteVirtualPdoByExtension, At, Goto, RenderVirtualPdoAsDeleted
  <1>7. Standing(t, r)
    BY <1>1, <1>2, <1>4, <1>3 DEF Standing, ThreadTypes, ExchangesIn, GoesIn, FindsIn, Calling, DeleteVirtualPdoByExtension, At, Goto, RenderVirtualPdoAsDeleted
  <1>8. ext' \in [Exts -> ExtTypes]
    BY <1>1, UnlistedTyped, ExtUpdates, Zenon DEF Types, DeleteVirtualPdoByExtension, At, Goto, RenderVirtualPdoAsDeleted
  <1>9. list' \in Seq(Exts)
    BY <1>1, WithoutIs DEF Types, DeleteVirtualPdoByExtension, At, Goto, RenderVirtualPdoAsDeleted
  <1> QED
    BY <1>1, <1>5, <1>6, <1>7, <1>8, <1>9, TypedMoves DEF Types, DeleteVirtualPdoByExtension, At, Goto, RenderVirtualPdoAsDeleted

LEMMA TypedDropInitialReference ==
  ASSUME Typed, NEW t \in Threads, DropInitialReference(t)
  PROVE  Typed' /\ OthersRest(t)
  <1>1. Types /\ Standing(t, th[t])
    BY DEF Typed, Control
  <1>2. PICK q \in ThreadTypes : q = th[t]
    BY <1>1 DEF Types
  <1>3. PICK v \in 0..MaxExts : v = IF ext[th[t].x].refs = 1 THEN th[t].x ELSE 0
    BY <1>2, Numerals DEF ThreadTypes
  <1>4. PICK r : r = [q EXCEPT !.pc = "deref", !.phase = "render", !.del = v]
    OBVIOUS
  <1>5. r \in ThreadTypes
    BY <1>4, Positions, Numerals DEF ThreadTypes
  <1>6. th' = [th EXCEPT ![t] = r]
    BY <1>2, <1>4, <1>3 DEF DropInitialReference, At, Dereference
  <1>7. Standing(t, r)
    BY <1>1, <1>2, <1>4, <1>3, Numerals DEF Standing, ThreadTypes, ExchangesIn, GoesIn, FindsIn, Calling, DropInitialReference, At, Dereference
  <1>8. ext' \in [Exts -> ExtTypes]
    BY <1>1, ExtUpdates, Zenon DEF Types, DropInitialReference, At, Dereference
  <1> QED
    BY <1>1, <1>5, <1>6, <1>7, <1>8, TypedMoves DEF Types, DropInitialReference, At, Dereference

LEMMA TypedDereferenceVirtualPdo ==
  ASSUME Typed, NEW t \in Threads, DereferenceVirtualPdo(t)
  PROVE  Typed' /\ OthersRest(t)
  <1>1. Types /\ Standing(t, th[t])
    BY DEF Typed, Control
  <1>2. PICK q \in ThreadTypes : q = th[t]
    BY <1>1 DEF Types
  <1>3. PICK v \in 0..MaxExts : v = IF ext[th[t].x].refs = 1 THEN th[t].x ELSE 0
    BY <1>2, Numerals DEF ThreadTypes
  <1>4. PICK r : r = [q EXCEPT !.pc = q.ret, !.phase = "render", !.del = v]
    OBVIOUS
  <1>5. r \in ThreadTypes
    BY <1>4, Positions, Numerals DEF ThreadTypes
  <1>6. th' = [th EXCEPT ![t] = r]
    BY <1>2, <1>4, <1>3 DEF DereferenceVirtualPdo, At, Dereference
  <1>7. Standing(t, r)
    BY <1>1, <1>2, <1>4, <1>3, Numerals DEF Standing, ThreadTypes, ExchangesIn, GoesIn, FindsIn, Calling, DereferenceVirtualPdo, At, Dereference
  <1>8. ext' \in [Exts -> ExtTypes]
    BY <1>1, ExtUpdates, Zenon DEF Types, DereferenceVirtualPdo, At, Dereference
  <1> QED
    BY <1>1, <1>5, <1>6, <1>7, <1>8, TypedMoves DEF Types, DereferenceVirtualPdo, At, Dereference

LEMMA TypedDone ==
  ASSUME Typed, NEW t \in Threads, Done(t)
  PROVE  Typed' /\ OthersRest(t)
  <1>1. Types /\ Standing(t, th[t])
    BY DEF Typed, Control
  <1>2. PICK q \in ThreadTypes : q = th[t]
    BY <1>1 DEF Types
  <1>3. PICK s \in Seq(Call) : s = Tail(th[t].ops)
    BY <1>1, <1>2, ThreadFields DEF Standing, Done, At
  <1>4. PICK r : r = [Idle EXCEPT !.ops = s]
    OBVIOUS
  <1>5. r \in ThreadTypes
    BY <1>4, Positions, Numerals, IdleTyped DEF ThreadTypes
  <1>6. th' = [th EXCEPT ![t] = r]
    BY <1>2, <1>4, IdleTyped, <1>3 DEF Done, At, Finish
  <1>7. Standing(t, r)
    <2>1. /\ r.pc = "next" /\ r.ret = "done" /\ r.ops = s /\ r.del = 0 /\ r.new = Null /\ r.todo = <<>>
          /\ r.request = 0
      BY <1>4 DEF Idle
    <2>2. \A i \in DOMAIN s : s[i] \in Calls(t)
      <3>1. q.ops \in Seq(Call) /\ q.ops # <<>> /\ \A i \in DOMAIN q.ops : q.ops[i] \in Calls(t)
        BY <1>1, <1>2 DEF Standing, ThreadTypes, Done, At
      <3>2. s = Tail(q.ops)
        BY <1>2, <1>3
      <3> QED
        BY <3>1, <3>2
    <2> QED
      BY <2>1, <2>2 DEF Standing
  <1> QED
    BY <1>1, <1>5, <1>6, <1>7, TypedMoves DEF Types, Done, At, Finish

LEMMA TypedProcessNewRelations ==
  ASSUME Typed, NEW t \in Threads, ProcessNewRelations(t)
  PROVE  Typed' /\ OthersRest(t)
  <1>1. Types /\ Standing(t, th[t])
    BY DEF Typed, Control
  <1>2. PICK q \in ThreadTypes : q = th[t]
    BY <1>1 DEF Types
  <1>3. Op(t).rels \in SUBSET Seq(Devices) /\ Op(t).rels # Null
    BY <1>1, <1>2, OpTyped DEF Standing, ProcessNewRelations, At, Op, Call
  <1>4. Only(Op(t).rels) \in Seq(Devices)
    BY <1>3 DEF Only, Null
  <1>5. PICK v : v = Visit(ext, list, Only(Op(t).rels))
    OBVIOUS
  <1>6. v.found \in Seq(Exts)
    BY <1>1, <1>4, <1>5, VisitFinds DEF Types, FoundIn
  <1>7. CASE th' = [th EXCEPT ![t].pc = "release"] /\ UNCHANGED <<ext, spinning>>
    <2>1. PICK r : r = [q EXCEPT !.pc = "release"]
      OBVIOUS
    <2>2. r \in ThreadTypes
      BY <2>1, Positions, Numerals DEF ThreadTypes
    <2>3. th' = [th EXCEPT ![t] = r]
      BY <1>2, <2>1, <1>7 DEF ProcessNewRelations, At, Goto, Spin
    <2>4. Standing(t, r)
      BY <1>1, <1>2, <2>1, <1>7 DEF Standing, ThreadTypes, ExchangesIn, GoesIn, FindsIn, Calling, ProcessNewRelations, At, Goto, Spin
    <2> QED
      BY <1>1, <1>7, <2>2, <2>3, <2>4, TypedMoves DEF Types, ProcessNewRelations, At, Goto, Spin
  <1>8. CASE ext' = Counted(v.found, 1) /\ th' = [th EXCEPT ![t].new = {v.found}, ![t].pc = "record"] /\ UNCHANGED spinning
    <2>1. PICK s \in Shadows : s = {v.found}
      BY <1>6 DEF Shadows
    <2>2. PICK r : r = [q EXCEPT !.new = s, !.pc = "record"]
      OBVIOUS
    <2>3. r \in ThreadTypes
      BY <2>2, Positions, Numerals, <1>6 DEF ThreadTypes
    <2>4. th' = [th EXCEPT ![t] = r]
      BY <1>2, <2>2, <1>8, <2>1 DEF ProcessNewRelations, At, Goto, Spin
    <2>5. Standing(t, r)
      BY <1>1, <1>2, <2>2, <1>8, <2>1 DEF Standing, ThreadTypes, ExchangesIn, GoesIn, FindsIn, Calling, ProcessNewRelations, At, Goto, Spin
    <2>6. ext' \in [Exts -> ExtTypes]
      BY <1>1, <1>6, <1>8, CountedTyped
    <2> QED
      BY <1>1, <1>8, <2>3, <2>4, <2>5, <2>6, TypedMoves DEF Types, ProcessNewRelations, At, Goto, Spin
  <1>9. CASE th' = [th EXCEPT ![t].pc = "spin"] /\ spinning' = TRUE /\ UNCHANGED ext
    <2>1. PICK r : r = [q EXCEPT !.pc = "spin"]
      OBVIOUS
    <2>2. r \in ThreadTypes
      BY <2>1, Positions, Numerals DEF ThreadTypes
    <2>3. th' = [th EXCEPT ![t] = r]
      BY <1>2, <2>1, <1>9 DEF ProcessNewRelations, At, Goto, Spin
    <2>4. Standing(t, r)
      BY <1>1, <1>2, <2>1, <1>9 DEF Standing, ThreadTypes, ExchangesIn, GoesIn, FindsIn, Calling, ProcessNewRelations, At, Goto, Spin
    <2> QED
      BY <1>1, <1>9, <2>2, <2>3, <2>4, TypedMoves DEF Types, ProcessNewRelations, At, Goto, Spin
  <1>10. CASE th' = [th EXCEPT ![t].pc = "crash"] /\ UNCHANGED <<ext, spinning>>
    <2>1. PICK r : r = [q EXCEPT !.pc = "crash"]
      OBVIOUS
    <2>2. r \in ThreadTypes
      BY <2>1, Positions, Numerals DEF ThreadTypes
    <2>3. th' = [th EXCEPT ![t] = r]
      BY <1>2, <2>1, <1>10 DEF ProcessNewRelations, At, Goto, Spin
    <2>4. Standing(t, r)
      BY <1>1, <1>2, <2>1, <1>10 DEF Standing, ThreadTypes, ExchangesIn, GoesIn, FindsIn, Calling, ProcessNewRelations, At, Goto, Spin
    <2> QED
      BY <1>1, <1>10, <2>2, <2>3, <2>4, TypedMoves DEF Types, ProcessNewRelations, At, Goto, Spin
  <1> QED
    BY <1>7, <1>8, <1>9, <1>10, <1>5 DEF ProcessNewRelations, At, Goto, Spin

LEMMA TypedRecordShadow ==
  ASSUME Typed, NEW t \in Threads, RecordShadow(t)
  PROVE  Typed' /\ OthersRest(t)
  <1>1. Types /\ Standing(t, th[t])
    BY DEF Typed, Control
  <1>2. PICK q \in ThreadTypes : q = th[t]
    BY <1>1 DEF Types
  <1>3. PICK r : r = [q EXCEPT !.new = Null, !.pc = "release"]
    OBVIOUS
  <1>4. r \in ThreadTypes
    BY <1>3, Positions, Numerals DEF ThreadTypes
  <1>5. th' = [th EXCEPT ![t] = r]
    BY <1>2, <1>3 DEF RecordShadow, At
  <1>6. Standing(t, r)
    BY <1>1, <1>2, <1>3 DEF Standing, ThreadTypes, ExchangesIn, GoesIn, FindsIn, Calling, RecordShadow, At, Null
  <1>7. ext' \in [Exts -> ExtTypes]
    BY <1>1, <1>2, ExtUpdates, Zenon DEF Types, RecordShadow, ThreadTypes
  <1> QED
    BY <1>1, <1>4, <1>5, <1>6, <1>7, TypedMoves DEF Types, RecordShadow, At

LEMMA TypedReleaseOldRelations ==
  ASSUME Typed, NEW t \in Threads, ReleaseOldRelations(t)
  PROVE  Typed' /\ OthersRest(t)
  <1>1. Types /\ Standing(t, th[t])
    BY DEF Typed, Control
  <1>2. PICK q \in ThreadTypes : q = th[t]
    BY <1>1 DEF Types
  <1>3. th[t].shadow # Null /\ th[t].old # Null => Visit(ext, Only(th[t].shadow), Only(th[t].old)).found \in Seq(Exts)
    BY <1>1, <1>2, OldFound
  <1>4. th[t].old # Null => Visit(ext, list, Only(th[t].old)).found \in Seq(Exts)
    BY <1>1, <1>2, OldFound
  <1>5. CASE th' = [th EXCEPT ![t].pc = th[t].ret] /\ UNCHANGED <<ext, owner, spinning>>
    <2>1. PICK r : r = [q EXCEPT !.pc = q.ret]
      OBVIOUS
    <2>2. r \in ThreadTypes
      BY <2>1, Positions, Numerals DEF ThreadTypes
    <2>3. th' = [th EXCEPT ![t] = r]
      BY <1>2, <2>1, <1>5 DEF ReleaseOldRelations, At, Goto, Spin
    <2>4. Standing(t, r)
      BY <1>1, <1>2, <2>1, <1>5 DEF Standing, ThreadTypes, ExchangesIn, GoesIn, FindsIn, Calling, ReleaseOldRelations, At, Goto, Spin
    <2> QED
      BY <1>1, <1>5, <2>2, <2>3, <2>4, TypedMoves DEF Types, ReleaseOldRelations, At, Goto, Spin
  <1>6. CASE /\ th[t].shadow # Null /\ th[t].old # Null /\ owner' = t /\ UNCHANGED <<ext, spinning>>
             /\ th' = [th EXCEPT ![t].pc = "releasing", ![t].todo = Visit(ext, Only(th[t].shadow), Only(th[t].old)).found]
    <2>1. PICK s \in Seq(Exts) : s = Visit(ext, Only(th[t].shadow), Only(th[t].old)).found
      BY <1>3, <1>6
    <2>2. PICK r : r = [q EXCEPT !.pc = "releasing", !.todo = s]
      OBVIOUS
    <2>3. r \in ThreadTypes
      BY <2>2, Positions, Numerals DEF ThreadTypes
    <2>4. th' = [th EXCEPT ![t] = r]
      BY <1>2, <2>2, <1>6, <2>1 DEF ReleaseOldRelations, At, Goto, Spin
    <2>5. Standing(t, r)
      BY <1>1, <1>2, <2>2, <1>6, <2>1 DEF Standing, ThreadTypes, ExchangesIn, GoesIn, FindsIn, Calling, ReleaseOldRelations, At, Goto, Spin
    <2> QED
      BY <1>1, <1>6, <2>3, <2>4, <2>5, TypedMoves DEF Types, ReleaseOldRelations, At, Goto, Spin
  <1>7. CASE th' = [th EXCEPT ![t].pc = "crash"] /\ UNCHANGED <<ext, owner, spinning>>
    <2>1. PICK r : r = [q EXCEPT !.pc = "crash"]
      OBVIOUS
    <2>2. r \in ThreadTypes
      BY <2>1, Positions, Numerals DEF ThreadTypes
    <2>3. th' = [th EXCEPT ![t] = r]
      BY <1>2, <2>1, <1>7 DEF ReleaseOldRelations, At, Goto, Spin
    <2>4. Standing(t, r)
      BY <1>1, <1>2, <2>1, <1>7 DEF Standing, ThreadTypes, ExchangesIn, GoesIn, FindsIn, Calling, ReleaseOldRelations, At, Goto, Spin
    <2> QED
      BY <1>1, <1>7, <2>2, <2>3, <2>4, TypedMoves DEF Types, ReleaseOldRelations, At, Goto, Spin
  <1>8. CASE th' = [th EXCEPT ![t].pc = "spin"] /\ spinning' = TRUE /\ UNCHANGED <<ext, owner>>
    <2>1. PICK r : r = [q EXCEPT !.pc = "spin"]
      OBVIOUS
    <2>2. r \in ThreadTypes
      BY <2>1, Positions, Numerals DEF ThreadTypes
    <2>3. th' = [th EXCEPT ![t] = r]
      BY <1>2, <2>1, <1>8 DEF ReleaseOldRelations, At, Goto, Spin
    <2>4. Standing(t, r)
      BY <1>1, <1>2, <2>1, <1>8 DEF Standing, ThreadTypes, ExchangesIn, GoesIn, FindsIn, Calling, ReleaseOldRelations, At, Goto, Spin
    <2> QED
      BY <1>1, <1>8, <2>2, <2>3, <2>4, TypedMoves DEF Types, ReleaseOldRelations, At, Goto, Spin
  <1>9. CASE /\ th[t].old # Null /\ ext' = Counted(Visit(ext, list, Only(th[t].old)).found, 0 - 1)
             /\ th' = [th EXCEPT ![t].pc = th[t].ret] /\ UNCHANGED <<owner, spinning>>
    <2>1. PICK r : r = [q EXCEPT !.pc = q.ret]
      OBVIOUS
    <2>2. r \in ThreadTypes
      BY <2>1, Positions, Numerals DEF ThreadTypes
    <2>3. th' = [th EXCEPT ![t] = r]
      BY <1>2, <2>1, <1>9 DEF ReleaseOldRelations, At, Goto, Spin
    <2>4. Standing(t, r)
      BY <1>1, <1>2, <2>1, <1>9 DEF Standing, ThreadTypes, ExchangesIn, GoesIn, FindsIn, Calling, ReleaseOldRelations, At, Goto, Spin
    <2>5. ext' \in [Exts -> ExtTypes]
      BY <1>1, <1>4, <1>9, CountedTyped
    <2> QED
      BY <1>1, <1>9, <2>2, <2>3, <2>4, <2>5, TypedMoves DEF Types, ReleaseOldRelations, At, Goto, Spin
  <1> QED
    BY <1>5, <1>6, <1>7, <1>8, <1>9 DEF ReleaseOldRelations, At, Goto, Spin

LEMMA TypedReleaseOne ==
  ASSUME Typed, NEW t \in Threads, ReleaseOne(t)
  PROVE  Typed' /\ OthersRest(t)
  <1>1. Types /\ Standing(t, th[t])
    BY DEF Typed, Control
  <1>2. PICK q \in ThreadTypes : q = th[t]
    BY <1>1 DEF Types
  <1>3. PICK s \in Seq(Exts) : s = Tail(th[t].todo)
    BY <1>2, ThreadFields DEF ReleaseOne
  <1>4. PICK v \in 0..MaxExts : v = IF ext[Head(th[t].todo)].refs = 1 THEN Head(th[t].todo) ELSE 0
    BY <1>2, ThreadFields, Numerals DEF ReleaseOne
  <1>5. PICK r : r = [q EXCEPT !.todo = s, !.phase = "render", !.del = v]
    OBVIOUS
  <1>6. r \in ThreadTypes
    BY <1>5, Positions, Numerals DEF ThreadTypes
  <1>7. th' = [th EXCEPT ![t] = r]
    BY <1>2, <1>5, <1>3, <1>4 DEF ReleaseOne, At
  <1>8. Standing(t, r)
    BY <1>1, <1>2, <1>5, <1>3, <1>4, Numerals DEF Standing, ThreadTypes, ExchangesIn, GoesIn, FindsIn, Calling, ReleaseOne, At
  <1>9. ext' \in [Exts -> ExtTypes]
    BY <1>1, ExtUpdates2, Zenon DEF Types, ReleaseOne
  <1> QED
    BY <1>1, <1>6, <1>7, <1>8, <1>9, TypedMoves DEF Types, ReleaseOne, At

LEMMA TypedReleasedAll ==
  ASSUME Typed, NEW t \in Threads, ReleasedAll(t)
  PROVE  Typed' /\ OthersRest(t)
  <1>1. Types /\ Standing(t, th[t])
    BY DEF Typed, Control
  <1>2. PICK q \in ThreadTypes : q = th[t]
    BY <1>1 DEF Types
  <1>3. PICK r : r = [q EXCEPT !.pc = q.ret]
    OBVIOUS
  <1>4. r \in ThreadTypes
    BY <1>3, Positions, Numerals DEF ThreadTypes
  <1>5. th' = [th EXCEPT ![t] = r]
    BY <1>2, <1>3 DEF ReleasedAll, At, Goto
  <1>6. Standing(t, r)
    BY <1>1, <1>2, <1>3 DEF Standing, ThreadTypes, ExchangesIn, GoesIn, FindsIn, Calling, ReleasedAll, At, Goto
  <1> QED
    BY <1>1, <1>4, <1>5, <1>6, TypedMoves DEF Types, ReleasedAll, At, Goto

LEMMA TypedDispatchRequest ==
  ASSUME Typed, NEW t \in Threads, DispatchRequest(t)
  PROVE  Typed' /\ OthersRest(t)
  <1>1. Types /\ Standing(t, th[t])
    BY DEF Typed, Control
  <1>2. PICK q \in ThreadTypes : q = th[t]
    BY <1>1 DEF Types
  <1>3. CASE \E f \in FilterOf(Op(t).dev) : ~ext[f].closing
    <2>1. PICK c \in Exts : c = CHOOSE f \in FilterOf(Op(t).dev) : ~ext[f].closing
      BY <1>3, FilterOfIs
    <2>2. PICK r : r = [q EXCEPT !.f = c, !.pc = "sent"]
      OBVIOUS
    <2>3. r \in ThreadTypes
      BY <2>2, Positions, Numerals DEF ThreadTypes
    <2>4. th' = [th EXCEPT ![t] = r]
      BY <1>2, <2>2, <1>3, <2>1 DEF DispatchRequest, At, Begins, Op, Goto, Acquire
    <2>5. Standing(t, r)
      BY <1>1, <1>2, <2>2, <1>3, <2>1, Numerals DEF Standing, ThreadTypes, ExchangesIn, GoesIn, FindsIn, Calling, DispatchRequest, At, Begins, Op, Goto, Acquire
    <2>6. ext' \in [Exts -> ExtTypes]
      <3>1. CASE ext' = ext
        BY <1>1, <3>1 DEF Types
      <3>2. ASSUME NEW x, ext' = [ext EXCEPT ![x].holders = @ + 1]
            PROVE  ext' \in [Exts -> ExtTypes]
        BY <1>1, <3>2, Positions, ExtUpdates, Zenon DEF Types
      <3> QED
        BY <3>1, <3>2, <1>3, Zenon DEF DispatchRequest, Acquire
    <2> QED
      BY <1>1, <1>3, <2>3, <2>4, <2>5, <2>6, TypedMoves DEF Types, DispatchRequest, At, Begins, Op, Goto, Acquire
  <1>4. CASE ~\E f \in FilterOf(Op(t).dev) : ~ext[f].closing
    <2>1. PICK r : r = [q EXCEPT !.pc = "done"]
      OBVIOUS
    <2>2. r \in ThreadTypes
      BY <2>1, Positions, Numerals DEF ThreadTypes
    <2>3. th' = [th EXCEPT ![t] = r]
      BY <1>2, <2>1, <1>4 DEF DispatchRequest, At, Begins, Op, Goto, Acquire
    <2>4. Standing(t, r)
      BY <1>1, <1>2, <2>1, <1>4 DEF Standing, ThreadTypes, ExchangesIn, GoesIn, FindsIn, Calling, DispatchRequest, At, Begins, Op, Goto, Acquire
    <2> QED
      BY <1>1, <1>4, <2>2, <2>3, <2>4, TypedMoves DEF Types, DispatchRequest, At, Begins, Op, Goto, Acquire
  <1> QED
    BY <1>3, <1>4 DEF DispatchRequest, At, Begins, Op, Goto, Acquire

LEMMA TypedFilterPass ==
  ASSUME Typed, NEW t \in Threads, FilterPass(t)
  PROVE  Typed' /\ OthersRest(t)
  <1>1. Types /\ Standing(t, th[t])
    BY DEF Typed, Control
  <1>2. PICK q \in ThreadTypes : q = th[t]
    BY <1>1 DEF Types
  <1>3. PICK r : r = [q EXCEPT !.pc = "done"]
    OBVIOUS
  <1>4. r \in ThreadTypes
    BY <1>3, Positions, Numerals DEF ThreadTypes
  <1>5. th' = [th EXCEPT ![t] = r]
    BY <1>2, <1>3 DEF FilterPass, At, Goto, Release
  <1>6. Standing(t, r)
    BY <1>1, <1>2, <1>3 DEF Standing, ThreadTypes, ExchangesIn, GoesIn, FindsIn, Calling, FilterPass, At, Goto, Release
  <1>7. ext' \in [Exts -> ExtTypes]
    BY <1>1, ExtUpdates, Zenon DEF Types, FilterPass, At, Goto, Release
  <1> QED
    BY <1>1, <1>4, <1>5, <1>6, <1>7, TypedMoves DEF Types, FilterPass, At, Goto, Release

LEMMA TypedQueryDeviceRelations ==
  ASSUME Typed, NEW t \in Threads, QueryDeviceRelations(t)
  PROVE  Typed' /\ OthersRest(t)
  <1>1. Types /\ Standing(t, th[t])
    BY DEF Typed, Control
  <1>2. PICK q \in ThreadTypes : q = th[t]
    BY <1>1 DEF Types
  <1>3. ext[q.f] \in ExtTypes
    BY <1>1, <1>2, Numerals DEF Types, QueryDeviceRelations, At, Op, Standing, Calling, ThreadTypes
  <1>4. Op(t).rels \in Reported
    BY <1>1, <1>2, OpTyped DEF Standing, QueryDeviceRelations, At, Op, Call, Reported
  <1>5. PICK o \in Reported : o = ext[th[t].f].rels
    BY <1>2, <1>3 DEF ExtTypes
  <1>6. PICK s \in Shadows : s = ext[th[t].f].shadow
    BY <1>2, <1>3 DEF ExtTypes
  <1>7. PICK v \in Pcs : v = IF Op(t).rels = Null THEN "release" ELSE "process"
    BY Positions
  <1>8. PICK r : r = [q EXCEPT !.old = o, !.shadow = s, !.ret = "unlock", !.pc = v]
    OBVIOUS
  <1>9. r \in ThreadTypes
    BY <1>8, Positions, Numerals DEF ThreadTypes
  <1>10. th' = [th EXCEPT ![t] = r]
    BY <1>2, <1>8, <1>5, <1>6, <1>7 DEF QueryDeviceRelations, At, Op, SetNewDeviceRelations
  <1>11. Standing(t, r)
    BY <1>1, <1>2, <1>8, <1>5, <1>6, <1>7 DEF Standing, ThreadTypes, ExchangesIn, GoesIn, FindsIn, Calling, QueryDeviceRelations, At, Op, SetNewDeviceRelations, Null
  <1>12. ext' \in [Exts -> ExtTypes]
    BY <1>1, <1>4, ExtUpdates2, Zenon DEF Types, QueryDeviceRelations, SetNewDeviceRelations
  <1> QED
    BY <1>1, <1>9, <1>10, <1>11, <1>12, TypedMoves DEF Types, QueryDeviceRelations, At, Op, SetNewDeviceRelations

LEMMA TypedQueryCompleted ==
  ASSUME Typed, NEW t \in Threads, QueryCompleted(t)
  PROVE  Typed' /\ OthersRest(t)
  <1>1. Types /\ Standing(t, th[t])
    BY DEF Typed, Control
  <1>2. PICK q \in ThreadTypes : q = th[t]
    BY <1>1 DEF Types
  <1>3. PICK r : r = [q EXCEPT !.pc = "done"]
    OBVIOUS
  <1>4. r \in ThreadTypes
    BY <1>3, Positions, Numerals DEF ThreadTypes
  <1>5. th' = [th EXCEPT ![t] = r]
    BY <1>2, <1>3 DEF QueryCompleted, At, Goto, Release
  <1>6. Standing(t, r)
    BY <1>1, <1>2, <1>3 DEF Standing, ThreadTypes, ExchangesIn, GoesIn, FindsIn, Calling, QueryCompleted, At, Goto, Release
  <1>7. ext' \in [Exts -> ExtTypes]
    BY <1>1, ExtUpdates, Zenon DEF Types, QueryCompleted, At, Goto, Release
  <1> QED
    BY <1>1, <1>4, <1>5, <1>6, <1>7, TypedMoves DEF Types, QueryCompleted, At, Goto, Release

LEMMA TypedStartDevice ==
  ASSUME Typed, NEW t \in Threads, StartDevice(t)
  PROVE  Typed' /\ OthersRest(t)
  <1>1. Types /\ Standing(t, th[t])
    BY DEF Typed, Control
  <1>2. PICK q \in ThreadTypes : q = th[t]
    BY <1>1 DEF Types
  <1>3. PICK c \in 0..MaxExts : c = IF FilterOf(Op(t).dev) = {} THEN 0 ELSE CHOOSE f \in FilterOf(Op(t).dev) : TRUE
    BY Numerals, FilterOfIs
  <1>4. PICK r : r = [q EXCEPT !.f = c, !.pc = "hook", !.ret = "started"]
    OBVIOUS
  <1>5. r \in ThreadTypes
    BY <1>4, Positions, Numerals DEF ThreadTypes
  <1>6. th' = [th EXCEPT ![t] = r]
    BY <1>2, <1>4, <1>3 DEF StartDevice, At, Begins, Op, Goto, Acquire
  <1>7. Standing(t, r)
    BY <1>1, <1>2, <1>4, <1>3, Numerals DEF Standing, ThreadTypes, ExchangesIn, GoesIn, FindsIn, Calling, StartDevice, At, Begins, Op, Goto, Acquire
  <1>8. ext' \in [Exts -> ExtTypes]
    <2>1. CASE ext' = ext
      BY <1>1, <2>1 DEF Types
    <2>2. ASSUME NEW x, ext' = [ext EXCEPT ![x].holders = @ + 1]
          PROVE  ext' \in [Exts -> ExtTypes]
      BY <1>1, <2>2, Positions, ExtUpdates, Zenon DEF Types
    <2> QED
      BY <2>1, <2>2, Zenon DEF StartDevice, Acquire
  <1> QED
    BY <1>1, <1>5, <1>6, <1>7, <1>8, TypedMoves DEF Types, StartDevice, At, Begins, Op, Goto, Acquire

LEMMA TypedStarted ==
  ASSUME Typed, NEW t \in Threads, Started(t)
  PROVE  Typed' /\ OthersRest(t)
  <1>1. Types /\ Standing(t, th[t])
    BY DEF Typed, Control
  <1>2. PICK q \in ThreadTypes : q = th[t]
    BY <1>1 DEF Types
  <1>3. PICK r : r = [q EXCEPT !.pc = "done"]
    OBVIOUS
  <1>4. r \in ThreadTypes
    BY <1>3, Positions, Numerals DEF ThreadTypes
  <1>5. th' = [th EXCEPT ![t] = r]
    BY <1>2, <1>3 DEF Started, At, Goto
  <1>6. Standing(t, r)
    BY <1>1, <1>2, <1>3 DEF Standing, ThreadTypes, ExchangesIn, GoesIn, FindsIn, Calling, Started, At, Goto
  <1>7. ext' \in [Exts -> ExtTypes]
    <2>1. CASE ext' = ext
      BY <1>1, <2>1 DEF Types
    <2>2. ASSUME NEW x, ext' = [ext EXCEPT ![x].state = "Started", ![x].holders = @ - 1]
          PROVE  ext' \in [Exts -> ExtTypes]
      BY <1>1, <2>2, Positions, ExtUpdates2, Zenon DEF Types
    <2> QED
      BY <2>1, <2>2, Zenon DEF Started
  <1>8. known' \in [Devices \cup Exts -> States \cup {"none"}]
    BY <1>1, TypedKnown DEF Types, Started, At, Goto, States
  <1> QED
    BY <1>1, <1>4, <1>5, <1>6, <1>7, <1>8, TypedMoves DEF Types, Started, At, Goto

LEMMA TypedRemoveDevice ==
  ASSUME Typed, NEW t \in Threads, RemoveDevice(t)
  PROVE  Typed' /\ OthersRest(t)
  <1>1. Types /\ Standing(t, th[t])
    BY DEF Typed, Control
  <1>2. PICK q \in ThreadTypes : q = th[t]
    BY <1>1 DEF Types
  <1>3. CASE FilterOf(Op(t).dev) # {}
    <2>1. PICK c \in Exts : c = CHOOSE f \in FilterOf(Op(t).dev) : TRUE
      BY <1>3, FilterOfIs
    <2>2. PICK r : r = [q EXCEPT !.f = c, !.ret = "hook", !.pc = "closing"]
      OBVIOUS
    <2>3. r \in ThreadTypes
      BY <2>2, Positions, Numerals DEF ThreadTypes
    <2>4. th' = [th EXCEPT ![t] = r]
      BY <1>2, <2>2, <1>3, <2>1 DEF RemoveDevice, At, Begins, Op, Goto
    <2>5. Standing(t, r)
      BY <1>1, <1>2, <2>2, <1>3, <2>1, Numerals DEF Standing, ThreadTypes, ExchangesIn, GoesIn, FindsIn, Calling, RemoveDevice, At, Begins, Op, Goto
    <2>6. ext' \in [Exts -> ExtTypes]
      <3>1. CASE ext' = ext
        BY <1>1, <3>1 DEF Types
      <3>2. ASSUME NEW x, ext' = [ext EXCEPT ![x].closing = TRUE]
            PROVE  ext' \in [Exts -> ExtTypes]
        BY <1>1, <3>2, Positions, ExtUpdates, Zenon DEF Types
      <3> QED
        BY <3>1, <3>2, <1>3, Zenon DEF RemoveDevice
    <2> QED
      BY <1>1, <1>3, <2>3, <2>4, <2>5, <2>6, TypedMoves DEF Types, RemoveDevice, At, Begins, Op, Goto
  <1>4. CASE FilterOf(Op(t).dev) = {}
    <2>1. PICK r : r = [q EXCEPT !.pc = "done"]
      OBVIOUS
    <2>2. r \in ThreadTypes
      BY <2>1, Positions, Numerals DEF ThreadTypes
    <2>3. th' = [th EXCEPT ![t] = r]
      BY <1>2, <2>1, <1>4 DEF RemoveDevice, At, Begins, Op, Goto
    <2>4. Standing(t, r)
      BY <1>1, <1>2, <2>1, <1>4 DEF Standing, ThreadTypes, ExchangesIn, GoesIn, FindsIn, Calling, RemoveDevice, At, Begins, Op, Goto
    <2> QED
      BY <1>1, <1>4, <2>2, <2>3, <2>4, TypedMoves DEF Types, RemoveDevice, At, Begins, Op, Goto
  <1> QED
    BY <1>3, <1>4 DEF RemoveDevice, At, Begins, Op, Goto

LEMMA TypedFastIoDetachDevice ==
  ASSUME Typed, NEW t \in Threads, FastIoDetachDevice(t)
  PROVE  Typed' /\ OthersRest(t)
  <1>1. Types /\ Standing(t, th[t])
    BY DEF Typed, Control
  <1>2. PICK q \in ThreadTypes : q = th[t]
    BY <1>1 DEF Types
  <1>3. CASE \E f \in FilterOf(Op(t).dev) : Listed(f) /\ ~ext[f].closing
    <2>1. PICK c \in Exts : c = CHOOSE f \in FilterOf(Op(t).dev) : TRUE
      BY <1>3, FilterOfIs
    <2>2. PICK r : r = [q EXCEPT !.f = c, !.ret = "cleared", !.pc = "closing"]
      OBVIOUS
    <2>3. r \in ThreadTypes
      BY <2>2, Positions, Numerals DEF ThreadTypes
    <2>4. th' = [th EXCEPT ![t] = r]
      BY <1>2, <2>2, <1>3, <2>1 DEF FastIoDetachDevice, At, Begins, Op, Goto
    <2>5. Standing(t, r)
      BY <1>1, <1>2, <2>2, <1>3, <2>1, Numerals DEF Standing, ThreadTypes, ExchangesIn, GoesIn, FindsIn, Calling, FastIoDetachDevice, At, Begins, Op, Goto
    <2>6. ext' \in [Exts -> ExtTypes]
      <3>1. CASE ext' = ext
        BY <1>1, <3>1 DEF Types
      <3>2. ASSUME NEW x, ext' = [ext EXCEPT ![x].closing = TRUE]
            PROVE  ext' \in [Exts -> ExtTypes]
        BY <1>1, <3>2, Positions, ExtUpdates, Zenon DEF Types
      <3> QED
        BY <3>1, <3>2, <1>3, Zenon DEF FastIoDetachDevice
    <2> QED
      BY <1>1, <1>3, <2>3, <2>4, <2>5, <2>6, TypedMoves DEF Types, FastIoDetachDevice, At, Begins, Op, Goto
  <1>4. CASE ~\E f \in FilterOf(Op(t).dev) : Listed(f) /\ ~ext[f].closing
    <2>1. PICK r : r = [q EXCEPT !.pc = "done"]
      OBVIOUS
    <2>2. r \in ThreadTypes
      BY <2>1, Positions, Numerals DEF ThreadTypes
    <2>3. th' = [th EXCEPT ![t] = r]
      BY <1>2, <2>1, <1>4 DEF FastIoDetachDevice, At, Begins, Op, Goto
    <2>4. Standing(t, r)
      BY <1>1, <1>2, <2>1, <1>4 DEF Standing, ThreadTypes, ExchangesIn, GoesIn, FindsIn, Calling, FastIoDetachDevice, At, Begins, Op, Goto
    <2> QED
      BY <1>1, <1>4, <2>2, <2>3, <2>4, TypedMoves DEF Types, FastIoDetachDevice, At, Begins, Op, Goto
  <1> QED
    BY <1>3, <1>4 DEF FastIoDetachDevice, At, Begins, Op, Goto

LEMMA TypedRemoveDeviceFromTheList ==
  ASSUME Typed, NEW t \in Threads, RemoveDeviceFromTheList(t)
  PROVE  Typed' /\ OthersRest(t)
  <1>1. Types /\ Standing(t, th[t])
    BY DEF Typed, Control
  <1>2. PICK q \in ThreadTypes : q = th[t]
    BY <1>1 DEF Types
  <1>3. PICK r : r = [q EXCEPT !.pc = "free"]
    OBVIOUS
  <1>4. r \in ThreadTypes
    BY <1>3, Positions, Numerals DEF ThreadTypes
  <1>5. th' = [th EXCEPT ![t] = r]
    BY <1>2, <1>3 DEF RemoveDeviceFromTheList, At, Goto
  <1>6. Standing(t, r)
    BY <1>1, <1>2, <1>3 DEF Standing, ThreadTypes, ExchangesIn, GoesIn, FindsIn, Calling, RemoveDeviceFromTheList, At, Goto
  <1>7. ext' \in [Exts -> ExtTypes]
    BY <1>1, UnlistedTyped DEF Types, RemoveDeviceFromTheList
  <1>8. list' \in Seq(Exts)
    BY <1>1, WithoutIs DEF Types, RemoveDeviceFromTheList, At, Goto
  <1> QED
    BY <1>1, <1>4, <1>5, <1>6, <1>7, <1>8, TypedMoves DEF Types, RemoveDeviceFromTheList, At, Goto

LEMMA TypedFreeAllDeviceRelations ==
  ASSUME Typed, NEW t \in Threads, FreeAllDeviceRelations(t)
  PROVE  Typed' /\ OthersRest(t)
  <1>1. Types /\ Standing(t, th[t])
    BY DEF Typed, Control
  <1>2. PICK q \in ThreadTypes : q = th[t]
    BY <1>1 DEF Types
  <1>3. ext[q.f] \in ExtTypes
    BY <1>1, <1>2, Numerals DEF Types, FreeAllDeviceRelations, At, Standing, Calling, ExchangesIn, ThreadTypes
  <1>4. PICK o \in Reported : o = ext[th[t].f].rels
    BY <1>2, <1>3 DEF ExtTypes
  <1>5. PICK s \in Shadows : s = ext[th[t].f].shadow
    BY <1>2, <1>3 DEF ExtTypes
  <1>6. PICK r : r = [q EXCEPT !.old = o, !.shadow = s, !.ret = q.ret, !.pc = "release"]
    OBVIOUS
  <1>7. r \in ThreadTypes
    BY <1>6, Positions, Numerals DEF ThreadTypes
  <1>8. th' = [th EXCEPT ![t] = r]
    BY <1>2, <1>6, <1>4, <1>5 DEF FreeAllDeviceRelations, At, Op, SetNewDeviceRelations
  <1>9. Standing(t, r)
    BY <1>1, <1>2, <1>6, <1>4, <1>5 DEF Standing, ThreadTypes, ExchangesIn, GoesIn, FindsIn, Calling, FreeAllDeviceRelations, At, Op, SetNewDeviceRelations
  <1>10. ext' \in [Exts -> ExtTypes]
    BY <1>1, Positions, ExtUpdates2, Zenon DEF Types, FreeAllDeviceRelations, SetNewDeviceRelations
  <1> QED
    BY <1>1, <1>7, <1>8, <1>9, <1>10, TypedMoves DEF Types, FreeAllDeviceRelations, At, Op, SetNewDeviceRelations

LEMMA TypedClearFilterDeviceExtension ==
  ASSUME Typed, NEW t \in Threads, ClearFilterDeviceExtension(t)
  PROVE  Typed' /\ OthersRest(t)
  <1>1. Types /\ Standing(t, th[t])
    BY DEF Typed, Control
  <1>2. PICK q \in ThreadTypes : q = th[t]
    BY <1>1 DEF Types
  <1>3. ext[q.f] \in ExtTypes
    BY <1>1, <1>2, Numerals DEF Types, ClearFilterDeviceExtension, At, Standing, Calling, ExchangesIn, ThreadTypes
  <1>4. PICK v \in 0..MaxExts : v = ext[th[t].f].vpdo
    BY <1>2, <1>3 DEF ExtTypes
  <1>5. PICK r : r = [q EXCEPT !.x = v, !.pc = "delete", !.ret = "done"]
    OBVIOUS
  <1>6. r \in ThreadTypes
    BY <1>5, Positions, Numerals DEF ThreadTypes
  <1>7. th' = [th EXCEPT ![t] = r]
    BY <1>2, <1>5, <1>4 DEF ClearFilterDeviceExtension, At
  <1>8. Standing(t, r)
    BY <1>1, <1>2, <1>5, <1>4, Numerals DEF Standing, ThreadTypes, ExchangesIn, GoesIn, FindsIn, Calling, ClearFilterDeviceExtension, At
  <1>9. ext' \in [Exts -> ExtTypes]
    <2>1. PICK x, y : ext' = [ext EXCEPT ![x].life = "freed", ![x].state = "Deleted", ![y].rel = @ - 1]
      BY Zenon DEF ClearFilterDeviceExtension
    <2>2. ext \in [Exts -> ExtTypes]
      BY <1>1 DEF Types
    <2>3. [ext EXCEPT ![x].life = "freed", ![x].state = "Deleted", ![y].rel = @ - 1] \in [Exts -> ExtTypes]
      BY <2>2, ExtUpdates2, Zenon
    <2> QED
      BY <2>1, <2>3, Zenon
  <1>10. known' \in [Devices \cup Exts -> States \cup {"none"}]
    BY <1>1, TypedKnown DEF Types, ClearFilterDeviceExtension, At, States
  <1> QED
    BY <1>1, <1>6, <1>7, <1>8, <1>9, <1>10, TypedMoves DEF Types, ClearFilterDeviceExtension, At

LEMMA TypedPnPMajorHookDispatch ==
  ASSUME Typed, NEW t \in Threads, PnPMajorHookDispatch(t)
  PROVE  Typed' /\ OthersRest(t)
  <1>1. Types /\ Standing(t, th[t])
    BY DEF Typed, Control
  <1>2. PICK q \in ThreadTypes : q = th[t]
    BY <1>1 DEF Types
  <1>3. Found(Op(t).dev) \in 0..MaxExts
    BY <1>1, FoundIs DEF Types
  <1>4. CASE Op(t).dev \notin hooked \/ ~Lockable(Found(Op(t).dev))
    <2>1. PICK v \in Pcs : v = IF Op(t).do = "start" THEN "started" ELSE "cleared"
      BY Positions
    <2>2. PICK r : r = [q EXCEPT !.pc = v]
      OBVIOUS
    <2>3. r \in ThreadTypes
      BY <2>2, Positions, Numerals DEF ThreadTypes
    <2>4. th' = [th EXCEPT ![t] = r]
      BY <1>2, <2>2, <1>4, <2>1 DEF PnPMajorHookDispatch, At, Goto, Beyond, Starts, Op
    <2>5. Standing(t, r)
      BY <1>1, <1>2, <2>2, <1>4, <2>1 DEF Standing, ThreadTypes, ExchangesIn, GoesIn, FindsIn, Calling, PnPMajorHookDispatch, At, Goto, Beyond, Starts, Op
    <2> QED
      BY <1>1, <1>4, <2>3, <2>4, <2>5, TypedMoves DEF Types, PnPMajorHookDispatch, At, Goto, Beyond, Starts, Op
  <1>5. CASE Op(t).dev \in hooked /\ Lockable(Found(Op(t).dev))
    <2>1. PICK x \in 0..MaxExts : x = Found(Op(t).dev)
      BY <1>3
    <2>2. PICK v \in Pcs : v = IF Op(t).do = "start" /\ ~ext[Found(Op(t).dev)].attached THEN "find" ELSE "hookstate"
      BY Positions
    <2>3. PICK r : r = [q EXCEPT !.h = x, !.created = FALSE, !.ret = "hookstate", !.pc = v]
      OBVIOUS
    <2>4. r \in ThreadTypes
      BY <2>3, Positions, Numerals DEF ThreadTypes
    <2>5. th' = [th EXCEPT ![t] = r]
      BY <1>2, <2>3, <1>5, <2>1, <2>2 DEF PnPMajorHookDispatch, At, Goto, Beyond, Starts, Op
    <2>6. Standing(t, r)
      BY <1>1, <1>2, <2>3, <1>5, <2>1, <2>2, Numerals DEF Standing, ThreadTypes, ExchangesIn, GoesIn, FindsIn, Calling, PnPMajorHookDispatch, At, Goto, Beyond, Starts, Op, Lockable
    <2>7. ext' \in [Exts -> ExtTypes]
      BY <1>1, <1>5, ReferencedTyped, Zenon DEF PnPMajorHookDispatch
    <2> QED
      BY <1>1, <1>5, <2>4, <2>5, <2>6, <2>7, TypedMoves DEF Types, PnPMajorHookDispatch, At, Goto, Beyond, Starts, Op
  <1> QED
    BY <1>4, <1>5 DEF PnPMajorHookDispatch, At, Goto, Beyond, Starts, Op

LEMMA TypedSetPdoState ==
  ASSUME Typed, NEW t \in Threads, SetPdoState(t)
  PROVE  Typed' /\ OthersRest(t)
  <1>1. Types /\ Standing(t, th[t])
    BY DEF Typed, Control
  <1>2. PICK q \in ThreadTypes : q = th[t]
    BY <1>1 DEF Types
  <1>3. PICK r : r = [q EXCEPT !.pc = "hooked"]
    OBVIOUS
  <1>4. r \in ThreadTypes
    BY <1>3, Positions, Numerals DEF ThreadTypes
  <1>5. th' = [th EXCEPT ![t] = r]
    BY <1>2, <1>3 DEF SetPdoState, At, Goto
  <1>6. Standing(t, r)
    BY <1>1, <1>2, <1>3 DEF Standing, ThreadTypes, ExchangesIn, GoesIn, FindsIn, Calling, SetPdoState, At, Goto
  <1>7. ext' \in [Exts -> ExtTypes]
    BY <1>1, Positions, ExtUpdates, Zenon DEF Types, SetPdoState
  <1>8. known' \in [Devices \cup Exts -> States \cup {"none"}]
    BY <1>1, TypedKnown DEF Types, SetPdoState, At, Goto, States
  <1> QED
    BY <1>1, <1>4, <1>5, <1>6, <1>7, <1>8, TypedMoves DEF Types, SetPdoState, At, Goto

LEMMA TypedCallOriginal ==
  ASSUME Typed, NEW t \in Threads, CallOriginal(t)
  PROVE  Typed' /\ OthersRest(t)
  <1>1. Types /\ Standing(t, th[t])
    BY DEF Typed, Control
  <1>2. PICK q \in ThreadTypes : q = th[t]
    BY <1>1 DEF Types
  <1>3. PICK v \in Rets : v = IF Op(t).do = "start" THEN "started" ELSE "cleared"
    BY Positions
  <1>4. PICK r : r = [q EXCEPT !.x = q.h, !.pc = "deref", !.ret = v]
    OBVIOUS
  <1>5. r \in ThreadTypes
    BY <1>4, Positions, Numerals DEF ThreadTypes
  <1>6. th' = [th EXCEPT ![t] = r]
    BY <1>2, <1>4, <1>3 DEF CallOriginal, At, Beyond, Starts, Op, Release
  <1>7. Standing(t, r)
    BY <1>1, <1>2, <1>4, <1>3 DEF Standing, ThreadTypes, ExchangesIn, GoesIn, FindsIn, Calling, CallOriginal, At, Beyond, Starts, Op, Release
  <1>8. ext' \in [Exts -> ExtTypes]
    BY <1>1, ExtUpdates, Zenon DEF Types, CallOriginal, At, Beyond, Starts, Op, Release
  <1> QED
    BY <1>1, <1>5, <1>6, <1>7, <1>8, TypedMoves DEF Types, CallOriginal, At, Beyond, Starts, Op, Release

LEMMA TypedDriverUnloadHook ==
  ASSUME Typed, NEW t \in Threads, DriverUnloadHook(t)
  PROVE  Typed' /\ OthersRest(t)
  <1>1. Types /\ Standing(t, th[t])
    BY DEF Typed, Control
  <1>2. PICK q \in ThreadTypes : q = th[t]
    BY <1>1 DEF Types
  <1>3. PICK r : r = [q EXCEPT !.pc = "done"]
    OBVIOUS
  <1>4. r \in ThreadTypes
    BY <1>3, Positions, Numerals DEF ThreadTypes
  <1>5. th' = [th EXCEPT ![t] = r]
    BY <1>2, <1>3 DEF DriverUnloadHook, At, Begins, Op, Goto
  <1>6. Standing(t, r)
    BY <1>1, <1>2, <1>3 DEF Standing, ThreadTypes, ExchangesIn, GoesIn, FindsIn, Calling, DriverUnloadHook, At, Begins, Op, Goto
  <1> QED
    BY <1>1, <1>4, <1>5, <1>6, TypedMoves DEF Types, DriverUnloadHook, At, Begins, Op, Goto

LEMMA TypedAddDevice ==
  ASSUME Typed, NEW t \in Threads, AddDevice(t)
  PROVE  Typed' /\ OthersRest(t)
  <1>1. Types /\ Standing(t, th[t])
    BY DEF Typed, Control
  <1>2. PICK q \in ThreadTypes : q = th[t]
    BY <1>1 DEF Types
  <1>3. PICK v \in Pcs : v = IF FilterOf(Op(t).dev) = {} THEN "find" ELSE "done"
    BY Positions
  <1>4. PICK r : r = [q EXCEPT !.pc = v]
    OBVIOUS
  <1>5. r \in ThreadTypes
    BY <1>4, Positions, Numerals DEF ThreadTypes
  <1>6. th' = [th EXCEPT ![t] = r]
    BY <1>2, <1>4, <1>3 DEF AddDevice, At, Begins, Op, Goto
  <1>7. Standing(t, r)
    BY <1>1, <1>2, <1>4, <1>3 DEF Standing, ThreadTypes, ExchangesIn, GoesIn, FindsIn, Calling, AddDevice, At, Begins, Op, Goto
  <1> QED
    BY <1>1, <1>5, <1>6, <1>7, TypedMoves DEF Types, AddDevice, At, Begins, Op, Goto

LEMMA TypedAddDeviceFTI ==
  ASSUME Typed, NEW t \in Threads, AddDeviceFTI(t)
  PROVE  Typed' /\ OthersRest(t)
  <1>1. Types /\ Standing(t, th[t])
    BY DEF Typed, Control
  <1>2. PICK q \in ThreadTypes : q = th[t]
    BY <1>1 DEF Types
  <1>3. Op(t).dev \in Devices
    BY <1>1, <1>2, OpTyped DEF Standing, AddDeviceFTI, At, Begins, Op, Call
  <1>4. CASE FilterOf(Op(t).dev) = {} /\ Unused # {}
    <2>1. PICK r : r = [q EXCEPT !.pc = "find"]
      OBVIOUS
    <2>2. r \in ThreadTypes
      BY <2>1, Positions, Numerals DEF ThreadTypes
    <2>3. th' = [th EXCEPT ![t] = r]
      BY <1>2, <2>1, <1>4 DEF AddDeviceFTI, At, Begins, Op, Goto
    <2>4. Standing(t, r)
      BY <1>1, <1>2, <2>1, <1>4 DEF Standing, ThreadTypes, ExchangesIn, GoesIn, FindsIn, Calling, AddDeviceFTI, At, Begins, Op, Goto
    <2>5. ext' \in [Exts -> ExtTypes]
      <3>1. NewVirtual(Op(t).dev) \in ExtTypes
        BY <1>3, NewTyped
      <3>2. ext' = [ext EXCEPT ![Fresh] = NewVirtual(Op(t).dev)]
        BY <1>4, Zenon DEF AddDeviceFTI, At, Begins, Op, Goto
      <3> QED
        BY <1>1, <3>1, <3>2, ExtUpdates, Zenon DEF Types
    <2>6. list' \in Seq(Exts)
      BY <1>1, <1>4, FreshIs DEF Types, AddDeviceFTI, At, Begins, Op, Goto
    <2> QED
      BY <1>1, <1>4, <2>2, <2>3, <2>4, <2>5, <2>6, TypedMoves DEF Types, AddDeviceFTI, At, Begins, Op, Goto
  <1>5. CASE ~(FilterOf(Op(t).dev) = {} /\ Unused # {})
    <2>1. PICK r : r = [q EXCEPT !.pc = "done"]
      OBVIOUS
    <2>2. r \in ThreadTypes
      BY <2>1, Positions, Numerals DEF ThreadTypes
    <2>3. th' = [th EXCEPT ![t] = r]
      BY <1>2, <2>1, <1>5 DEF AddDeviceFTI, At, Begins, Op, Goto
    <2>4. Standing(t, r)
      BY <1>1, <1>2, <2>1, <1>5 DEF Standing, ThreadTypes, ExchangesIn, GoesIn, FindsIn, Calling, AddDeviceFTI, At, Begins, Op, Goto
    <2> QED
      BY <1>1, <1>5, <2>2, <2>3, <2>4, TypedMoves DEF Types, AddDeviceFTI, At, Begins, Op, Goto
  <1> QED
    BY <1>4, <1>5 DEF AddDeviceFTI, At, Begins, Op, Goto

LEMMA TypedFindVirtualPdo ==
  ASSUME Typed, NEW t \in Threads, FindVirtualPdo(t)
  PROVE  Typed' /\ OthersRest(t)
  <1>1. Types /\ Standing(t, th[t])
    BY DEF Typed, Control
  <1>2. PICK q \in ThreadTypes : q = th[t]
    BY <1>1 DEF Types
  <1>3. Found(Op(t).dev) \in 0..MaxExts
    BY <1>1, FoundIs DEF Types
  <1>4. CASE Lockable(Found(Op(t).dev))
    <2>1. PICK x \in 0..MaxExts : x = Found(Op(t).dev)
      BY <1>3
    <2>2. PICK r : r = [q EXCEPT !.x = x, !.pc = "create"]
      OBVIOUS
    <2>3. r \in ThreadTypes
      BY <2>2, Positions, Numerals DEF ThreadTypes
    <2>4. th' = [th EXCEPT ![t] = r]
      BY <1>2, <2>2, <1>4, <2>1 DEF FindVirtualPdo, At, Goto
    <2>5. Standing(t, r)
      BY <1>1, <1>2, <2>2, <1>4, <2>1, Numerals DEF Standing, ThreadTypes, ExchangesIn, GoesIn, FindsIn, Calling, FindVirtualPdo, At, Goto
    <2>6. ext' \in [Exts -> ExtTypes]
      BY <1>1, <1>4, ReferencedTyped, Zenon DEF FindVirtualPdo
    <2> QED
      BY <1>1, <1>4, <2>3, <2>4, <2>5, <2>6, TypedMoves DEF Types, FindVirtualPdo, At, Goto
  <1>5. CASE ~Lockable(Found(Op(t).dev)) /\ th[t].created
    <2>1. PICK r : r = [q EXCEPT !.pc = q.ret]
      OBVIOUS
    <2>2. r \in ThreadTypes
      BY <2>1, Positions, Numerals DEF ThreadTypes
    <2>3. th' = [th EXCEPT ![t] = r]
      BY <1>2, <2>1, <1>5 DEF FindVirtualPdo, At, Goto
    <2>4. Standing(t, r)
      BY <1>1, <1>2, <2>1, <1>5 DEF Standing, ThreadTypes, ExchangesIn, GoesIn, FindsIn, Calling, FindVirtualPdo, At, Goto
    <2> QED
      BY <1>1, <1>5, <2>2, <2>3, <2>4, TypedMoves DEF Types, FindVirtualPdo, At, Goto
  <1>6. CASE ~Lockable(Found(Op(t).dev)) /\ ~th[t].created
    <2>1. PICK r : r = [q EXCEPT !.pc = "virtual"]
      OBVIOUS
    <2>2. r \in ThreadTypes
      BY <2>1, Positions, Numerals DEF ThreadTypes
    <2>3. th' = [th EXCEPT ![t] = r]
      BY <1>2, <2>1, <1>6 DEF FindVirtualPdo, At, Goto
    <2>4. Standing(t, r)
      BY <1>1, <1>2, <2>1, <1>6 DEF Standing, ThreadTypes, ExchangesIn, GoesIn, FindsIn, Calling, FindVirtualPdo, At, Goto
    <2> QED
      BY <1>1, <1>6, <2>2, <2>3, <2>4, TypedMoves DEF Types, FindVirtualPdo, At, Goto
  <1> QED
    BY <1>4, <1>5, <1>6 DEF FindVirtualPdo, At, Goto

LEMMA TypedAddVirtualDeviceForPdo ==
  ASSUME Typed, NEW t \in Threads, AddVirtualDeviceForPdo(t)
  PROVE  Typed' /\ OthersRest(t)
  <1>1. Types /\ Standing(t, th[t])
    BY DEF Typed, Control
  <1>2. PICK q \in ThreadTypes : q = th[t]
    BY <1>1 DEF Types
  <1>3. Op(t).dev \in Devices
    BY <1>1, <1>2, OpTyped DEF Standing, AddVirtualDeviceForPdo, At, Begins, Op, Call
  <1>4. CASE th' = [th EXCEPT ![t].pc = th[t].ret] /\ UNCHANGED <<ext, list, hooked>>
    <2>1. PICK r : r = [q EXCEPT !.pc = q.ret]
      OBVIOUS
    <2>2. r \in ThreadTypes
      BY <2>1, Positions, Numerals DEF ThreadTypes
    <2>3. th' = [th EXCEPT ![t] = r]
      BY <1>2, <2>1, <1>4 DEF AddVirtualDeviceForPdo, At, Goto, HookDriver
    <2>4. Standing(t, r)
      BY <1>1, <1>2, <2>1, <1>4 DEF Standing, ThreadTypes, ExchangesIn, GoesIn, FindsIn, Calling, AddVirtualDeviceForPdo, At, Goto, HookDriver
    <2> QED
      BY <1>1, <1>4, <2>2, <2>3, <2>4, TypedMoves DEF Types, AddVirtualDeviceForPdo, At, Goto, HookDriver
  <1>5. CASE /\ Unused # {} /\ hooked' = hooked \cup {Op(t).dev} /\ ext' = [ext EXCEPT ![Fresh] = NewVirtual(Op(t).dev)]
             /\ list' = Append(list, Fresh) /\ th' = [th EXCEPT ![t].created = TRUE, ![t].pc = "find"]
    <2>1. PICK r : r = [q EXCEPT !.created = TRUE, !.pc = "find"]
      OBVIOUS
    <2>2. r \in ThreadTypes
      BY <2>1, Positions, Numerals DEF ThreadTypes
    <2>3. th' = [th EXCEPT ![t] = r]
      BY <1>2, <2>1, <1>5 DEF AddVirtualDeviceForPdo, At, Goto, HookDriver
    <2>4. Standing(t, r)
      BY <1>1, <1>2, <2>1, <1>5 DEF Standing, ThreadTypes, ExchangesIn, GoesIn, FindsIn, Calling, AddVirtualDeviceForPdo, At, Goto, HookDriver
    <2>5. ext' \in [Exts -> ExtTypes]
      <3>1. NewVirtual(Op(t).dev) \in ExtTypes
        BY <1>3, NewTyped
      <3>2. ext' = [ext EXCEPT ![Fresh] = NewVirtual(Op(t).dev)]
        BY <1>5, Zenon DEF AddVirtualDeviceForPdo, At, Goto, HookDriver
      <3> QED
        BY <1>1, <3>1, <3>2, ExtUpdates, Zenon DEF Types
    <2>6. list' \in Seq(Exts)
      BY <1>1, <1>5, FreshIs DEF Types, AddVirtualDeviceForPdo, At, Goto, HookDriver
    <2> QED
      BY <1>1, <1>3, <1>5, <2>2, <2>3, <2>4, <2>5, <2>6, TypedMoves DEF Types, AddVirtualDeviceForPdo, At, Goto, HookDriver
  <1> QED
    BY <1>4, <1>5 DEF AddVirtualDeviceForPdo, At, Goto, HookDriver

LEMMA TypedAddFails ==
  ASSUME Typed, NEW t \in Threads, AddFails(t)
  PROVE  Typed' /\ OthersRest(t)
  <1>1. Types /\ Standing(t, th[t])
    BY DEF Typed, Control
  <1>2. PICK q \in ThreadTypes : q = th[t]
    BY <1>1 DEF Types
  <1>3. PICK v \in Pcs : v = IF th[t].created THEN "delete" ELSE "deref"
    BY Positions
  <1>4. PICK r : r = [q EXCEPT !.pc = v]
    OBVIOUS
  <1>5. r \in ThreadTypes
    BY <1>4, Positions, Numerals DEF ThreadTypes
  <1>6. th' = [th EXCEPT ![t] = r]
    BY <1>2, <1>4, <1>3 DEF AddFails, At, Goto, Release
  <1>7. Standing(t, r)
    BY <1>1, <1>2, <1>4, <1>3 DEF Standing, ThreadTypes, ExchangesIn, GoesIn, FindsIn, Calling, AddFails, At, Goto, Release
  <1>8. ext' \in [Exts -> ExtTypes]
    BY <1>1, ExtUpdates, Zenon DEF Types, AddFails, At, Goto, Release
  <1> QED
    BY <1>1, <1>5, <1>6, <1>7, <1>8, TypedMoves DEF Types, AddFails, At, Goto, Release

LEMMA TypedAttachFilterDevice ==
  ASSUME Typed, NEW t \in Threads, AttachFilterDevice(t)
  PROVE  Typed' /\ OthersRest(t)
  <1>1. Types /\ Standing(t, th[t])
    BY DEF Typed, Control
  <1>2. PICK q \in ThreadTypes : q = th[t]
    BY <1>1 DEF Types
  <1>3. Op(t).dev \in Devices
    BY <1>1, <1>2, OpTyped DEF Standing, AttachFilterDevice, At, Begins, Op, Call
  <1>4. [Added(Op(t).dev, "filter") EXCEPT !.vpdo = th[t].x] \in ExtTypes
    <2>1. q.x \in 0..MaxExts
      BY DEF ThreadTypes
    <2> QED
      BY <1>2, <1>3, <2>1, NewTyped
  <1>5. PICK n \in Exts : n = Fresh
    BY FreshIs DEF AttachFilterDevice
  <1>6. PICK r : r = [q EXCEPT !.n = n, !.pc = "report"]
    OBVIOUS
  <1>7. r \in ThreadTypes
    BY <1>6, Positions, Numerals DEF ThreadTypes
  <1>8. th' = [th EXCEPT ![t] = r]
    BY <1>2, <1>6, <1>5 DEF AttachFilterDevice, At
  <1>9. Standing(t, r)
    BY <1>1, <1>2, <1>6, <1>5, Numerals DEF Standing, ThreadTypes, ExchangesIn, GoesIn, FindsIn, Calling, AttachFilterDevice, At
  <1>10. ext' \in [Exts -> ExtTypes]
    <2>1. PICK x, y, w : /\ w = [Added(Op(t).dev, "filter") EXCEPT !.vpdo = th[t].x]
                       /\ ext' = [ext EXCEPT ![x].attached = TRUE, ![x].refs = @ + 1, ![x].rel = @ + 1, ![y] = w]
      BY Zenon DEF AttachFilterDevice
    <2>2. w \in ExtTypes /\ ext \in [Exts -> ExtTypes]
      BY <1>1, <1>4, <2>1 DEF Types
    <2>3. [ext EXCEPT ![x].attached = TRUE, ![x].refs = @ + 1, ![x].rel = @ + 1, ![y] = w] \in [Exts -> ExtTypes]
      BY <2>2, ExtUpdates2, Zenon
    <2> QED
      BY <2>1, <2>3, Zenon
  <1> QED
    BY <1>1, <1>7, <1>8, <1>9, <1>10, TypedMoves DEF Types, AttachFilterDevice, At

LEMMA TypedReportAddedDevice ==
  ASSUME Typed, NEW t \in Threads, ReportAddedDevice(t)
  PROVE  Typed' /\ OthersRest(t)
  <1>1. Types /\ Standing(t, th[t])
    BY DEF Typed, Control
  <1>2. PICK q \in ThreadTypes : q = th[t]
    BY <1>1 DEF Types
  <1>3. PICK r : r = [q EXCEPT !.pc = "insert"]
    OBVIOUS
  <1>4. r \in ThreadTypes
    BY <1>3, Positions, Numerals DEF ThreadTypes
  <1>5. th' = [th EXCEPT ![t] = r]
    BY <1>2, <1>3 DEF ReportAddedDevice, At, Goto
  <1>6. Standing(t, r)
    BY <1>1, <1>2, <1>3 DEF Standing, ThreadTypes, ExchangesIn, GoesIn, FindsIn, Calling, ReportAddedDevice, At, Goto
  <1>7. known' \in [Devices \cup Exts -> States \cup {"none"}]
    BY <1>1, TypedKnown DEF Types, ReportAddedDevice, At, Goto, States
  <1> QED
    BY <1>1, <1>4, <1>5, <1>6, <1>7, TypedMoves DEF Types, ReportAddedDevice, At, Goto

LEMMA TypedInsertInList ==
  ASSUME Typed, NEW t \in Threads, InsertInList(t)
  PROVE  Typed' /\ OthersRest(t)
  <1>1. Types /\ Standing(t, th[t])
    BY DEF Typed, Control
  <1>2. PICK q \in ThreadTypes : q = th[t]
    BY <1>1 DEF Types
  <1>3. PICK r : r = [q EXCEPT !.pc = "added"]
    OBVIOUS
  <1>4. r \in ThreadTypes
    BY <1>3, Positions, Numerals DEF ThreadTypes
  <1>5. th' = [th EXCEPT ![t] = r]
    BY <1>2, <1>3 DEF InsertInList, At, Goto
  <1>6. Standing(t, r)
    BY <1>1, <1>2, <1>3 DEF Standing, ThreadTypes, ExchangesIn, GoesIn, FindsIn, Calling, InsertInList, At, Goto
  <1>7. list' \in Seq(Exts)
    <2>1. q.n \in 0..MaxExts /\ q.n # 0
      BY <1>1, <1>2 DEF InsertInList, At, Standing, ThreadTypes
    <2>2. th[t].n \in Exts /\ list \in Seq(Exts)
      BY <1>1, <1>2, <2>1, Numerals DEF Types
    <2> QED
      BY <2>2 DEF InsertInList
  <1> QED
    BY <1>1, <1>4, <1>5, <1>6, <1>7, TypedMoves DEF Types, InsertInList, At, Goto

LEMMA TypedAddedDevice ==
  ASSUME Typed, NEW t \in Threads, AddedDevice(t)
  PROVE  Typed' /\ OthersRest(t)
  <1>1. Types /\ Standing(t, th[t])
    BY DEF Typed, Control
  <1>2. PICK q \in ThreadTypes : q = th[t]
    BY <1>1 DEF Types
  <1>3. PICK r : r = [q EXCEPT !.pc = "deref"]
    OBVIOUS
  <1>4. r \in ThreadTypes
    BY <1>3, Positions, Numerals DEF ThreadTypes
  <1>5. th' = [th EXCEPT ![t] = r]
    BY <1>2, <1>3 DEF AddedDevice, At, Goto, Release
  <1>6. Standing(t, r)
    BY <1>1, <1>2, <1>3 DEF Standing, ThreadTypes, ExchangesIn, GoesIn, FindsIn, Calling, AddedDevice, At, Goto, Release
  <1>7. ext' \in [Exts -> ExtTypes]
    <2>1. CASE ext' = ext
      BY <1>1, <2>1 DEF Types
    <2>2. ASSUME NEW x, NEW y, ext' = [ext EXCEPT ![y].holders = @ - 1, ![x].state = "Started"]
          PROVE  ext' \in [Exts -> ExtTypes]
      BY <1>1, <2>2, Positions, ExtUpdates, ExtUpdates2, Zenon DEF Types
    <2>3. ASSUME NEW x, ext' = [ext EXCEPT ![x].holders = @ - 1]
          PROVE  ext' \in [Exts -> ExtTypes]
      BY <1>1, <2>3, Positions, ExtUpdates, ExtUpdates2, Zenon DEF Types
    <2> QED
      BY <2>1, <2>2, <2>3, Zenon DEF AddedDevice, Release
  <1>8. known' \in [Devices \cup Exts -> States \cup {"none"}]
    BY <1>1, TypedKnown DEF Types, AddedDevice, At, Goto, Release, States
  <1> QED
    BY <1>1, <1>4, <1>5, <1>6, <1>7, <1>8, TypedMoves DEF Types, AddedDevice, At, Goto, Release

LEMMA TypedReportExisitingDevices ==
  ASSUME Typed, NEW t \in Threads, ReportExisitingDevices(t)
  PROVE  Typed' /\ OthersRest(t)
  <1>1. Types /\ Standing(t, th[t])
    BY DEF Typed, Control
  <1>2. PICK q \in ThreadTypes : q = th[t]
    BY <1>1 DEF Types
  <1>3. PICK r : r = [q EXCEPT !.pc = "walk"]
    OBVIOUS
  <1>4. r \in ThreadTypes
    BY <1>3, Positions, Numerals DEF ThreadTypes
  <1>5. th' = [th EXCEPT ![t] = r]
    BY <1>2, <1>3 DEF ReportExisitingDevices, At, Begins, Op, Goto
  <1>6. Standing(t, r)
    BY <1>1, <1>2, <1>3 DEF Standing, ThreadTypes, ExchangesIn, GoesIn, FindsIn, Calling, ReportExisitingDevices, At, Begins, Op, Goto
  <1> QED
    BY <1>1, <1>4, <1>5, <1>6, TypedMoves DEF Types, ReportExisitingDevices, At, Begins, Op, Goto

LEMMA TypedNextReportedDevice ==
  ASSUME Typed, NEW t \in Threads, NextReportedDevice(t)
  PROVE  Typed' /\ OthersRest(t)
  <1>1. Types /\ Standing(t, th[t])
    BY DEF Typed, Control
  <1>2. PICK q \in ThreadTypes : q = th[t]
    BY <1>1 DEF Types
  <1>3. PICK free \in [Exts -> ExtTypes] : free = IF th[t].request = 0 THEN ext ELSE [ext EXCEPT ![th[t].request].holders = @ - 1]
    BY <1>1, ExtUpdates, Zenon DEF Types
  <1>4. CASE ext' = free /\ th' = [th EXCEPT ![t].pc = "crash"]
    <2>1. PICK r : r = [q EXCEPT !.pc = "crash"]
      OBVIOUS
    <2>2. r \in ThreadTypes
      BY <2>1, Positions, Numerals DEF ThreadTypes
    <2>3. th' = [th EXCEPT ![t] = r]
      BY <1>2, <2>1, <1>4 DEF NextReportedDevice, At, Goto
    <2>4. Standing(t, r)
      BY <1>1, <1>2, <2>1, <1>4 DEF Standing, ThreadTypes, ExchangesIn, GoesIn, FindsIn, Calling, NextReportedDevice, At, Goto
    <2>5. ext' \in [Exts -> ExtTypes]
      BY <1>3, <1>4
    <2> QED
      BY <1>1, <1>4, <2>2, <2>3, <2>4, <2>5, TypedMoves DEF Types, NextReportedDevice, At, Goto
  <1>5. CASE ext' = free /\ th' = [th EXCEPT ![t].pc = "done"]
    <2>1. PICK r : r = [q EXCEPT !.pc = "done"]
      OBVIOUS
    <2>2. r \in ThreadTypes
      BY <2>1, Positions, Numerals DEF ThreadTypes
    <2>3. th' = [th EXCEPT ![t] = r]
      BY <1>2, <2>1, <1>5 DEF NextReportedDevice, At, Goto
    <2>4. Standing(t, r)
      BY <1>1, <1>2, <2>1, <1>5 DEF Standing, ThreadTypes, ExchangesIn, GoesIn, FindsIn, Calling, NextReportedDevice, At, Goto
    <2>5. ext' \in [Exts -> ExtTypes]
      BY <1>3, <1>5
    <2> QED
      BY <1>1, <1>5, <2>2, <2>3, <2>4, <2>5, TypedMoves DEF Types, NextReportedDevice, At, Goto
  <1>6. ASSUME NEW next \in Exts, ext' = [free EXCEPT ![next].holders = @ + 1],
               th' = [th EXCEPT ![t].request = next, ![t].pc = "tell"]
        PROVE  Typed' /\ OthersRest(t)
    <2>1. PICK r : r = [q EXCEPT !.request = next, !.pc = "tell"]
      OBVIOUS
    <2>2. r \in ThreadTypes
      BY <2>1, Positions, Numerals DEF ThreadTypes
    <2>3. th' = [th EXCEPT ![t] = r]
      BY <1>2, <2>1, <1>6 DEF NextReportedDevice, At, Goto
    <2>4. Standing(t, r)
      BY <1>1, <1>2, <2>1, <1>6, Numerals DEF Standing, ThreadTypes, ExchangesIn, GoesIn, FindsIn, Calling, NextReportedDevice, At, Goto
    <2>5. ext' \in [Exts -> ExtTypes]
      BY <1>3, <1>6, ExtUpdates, Zenon
    <2> QED
      BY <1>1, <1>6, <2>2, <2>3, <2>4, <2>5, TypedMoves DEF Types, NextReportedDevice, At, Goto
  <1>7. CASE ~(ext' = free /\ th' = [th EXCEPT ![t].pc = "crash"]) /\ ~(ext' = free /\ th' = [th EXCEPT ![t].pc = "done"])
    <2> DEFINE places == {i \in DOMAIN list : i >= Behind(th[t].request) /\ Lockable(list[i])}
    <2>1. /\ places # {}
          /\ ext' = [free EXCEPT ![list[FirstOf(places)]].holders = @ + 1]
          /\ th' = [th EXCEPT ![t].request = list[FirstOf(places)], ![t].pc = "tell"]
      BY <1>3, <1>7, Zenon DEF NextReportedDevice, Goto, FirstOf
    <2>2. places \in SUBSET (1..Len(list)) /\ Len(list) \in Nat /\ list \in Seq(Exts)
      BY <1>1 DEF Types
    <2>3. FirstOf(places) \in places
      BY <2>1, <2>2, FirstPlace DEF FirstOf
    <2>4. list[FirstOf(places)] \in Exts
      BY <2>2, <2>3
    <2> QED
      BY <1>6, <2>1, <2>4, Zenon
  <1> QED
    BY <1>4, <1>5, <1>7, Zenon

LEMMA TypedReportExistingDevice ==
  ASSUME Typed, NEW t \in Threads, ReportExistingDevice(t)
  PROVE  Typed' /\ OthersRest(t)
  <1>1. Types /\ Standing(t, th[t])
    BY DEF Typed, Control
  <1>2. PICK q \in ThreadTypes : q = th[t]
    BY <1>1 DEF Types
  <1>3. PICK r : r = [q EXCEPT !.pc = "read"]
    OBVIOUS
  <1>4. r \in ThreadTypes
    BY <1>3, Positions, Numerals DEF ThreadTypes
  <1>5. th' = [th EXCEPT ![t] = r]
    BY <1>2, <1>3 DEF ReportExistingDevice, At, Goto
  <1>6. Standing(t, r)
    BY <1>1, <1>2, <1>3 DEF Standing, ThreadTypes, ExchangesIn, GoesIn, FindsIn, Calling, ReportExistingDevice, At, Goto
  <1>7. known' \in [Devices \cup Exts -> States \cup {"none"}]
    BY <1>1, TypedKnown DEF Types, ReportExistingDevice, At, Goto, States
  <1> QED
    BY <1>1, <1>4, <1>5, <1>6, <1>7, TypedMoves DEF Types, ReportExistingDevice, At, Goto

LEMMA TypedReadState ==
  ASSUME Typed, NEW t \in Threads, ReadState(t)
  PROVE  Typed' /\ OthersRest(t)
  <1>1. Types /\ Standing(t, th[t])
    BY DEF Typed, Control
  <1>2. PICK q \in ThreadTypes : q = th[t]
    BY <1>1 DEF Types
  <1>3. ext[q.request] \in ExtTypes
    BY <1>1, <1>2, Numerals DEF Types, ReadState, At, Standing, ThreadTypes
  <1>4. PICK v \in States : v = ext[th[t].request].state
    BY <1>2, <1>3 DEF ExtTypes
  <1>5. PICK r : r = [q EXCEPT !.state = v, !.pc = "state"]
    OBVIOUS
  <1>6. r \in ThreadTypes
    BY <1>5, Positions, Numerals DEF ThreadTypes
  <1>7. th' = [th EXCEPT ![t] = r]
    BY <1>2, <1>5, <1>4 DEF ReadState, At
  <1>8. Standing(t, r)
    BY <1>1, <1>2, <1>5, <1>4 DEF Standing, ThreadTypes, ExchangesIn, GoesIn, FindsIn, Calling, ReadState, At
  <1> QED
    BY <1>1, <1>6, <1>7, <1>8, TypedMoves DEF Types, ReadState, At

LEMMA TypedReportExistingState ==
  ASSUME Typed, NEW t \in Threads, ReportExistingState(t)
  PROVE  Typed' /\ OthersRest(t)
  <1>1. Types /\ Standing(t, th[t])
    BY DEF Typed, Control
  <1>2. PICK q \in ThreadTypes : q = th[t]
    BY <1>1 DEF Types
  <1>3. PICK r : r = [q EXCEPT !.pc = "walk"]
    OBVIOUS
  <1>4. r \in ThreadTypes
    BY <1>3, Positions, Numerals DEF ThreadTypes
  <1>5. th' = [th EXCEPT ![t] = r]
    BY <1>2, <1>3 DEF ReportExistingState, At, Goto
  <1>6. Standing(t, r)
    BY <1>1, <1>2, <1>3 DEF Standing, ThreadTypes, ExchangesIn, GoesIn, FindsIn, Calling, ReportExistingState, At, Goto
  <1>7. known' \in [Devices \cup Exts -> States \cup {"none"}]
    BY <1>1, <1>2, TypedKnown DEF Types, ReportExistingState, At, Goto, ThreadTypes
  <1> QED
    BY <1>1, <1>4, <1>5, <1>6, <1>7, TypedMoves DEF Types, ReportExistingState, At, Goto

-----------------------------------------------------------------------------
(* What the actions do, field by field *)

KeepsMake(x)      == ext'[x].kind = ext[x].kind /\ ext'[x].dev = ext[x].dev /\ ext'[x].vpdo = ext[x].vpdo
KeepsLife(x)      == ext'[x].life = ext[x].life
KeepsMark(x)      == ext'[x].marked = ext[x].marked
KeepsRelations(x) == ext'[x].rels = ext[x].rels /\ ext'[x].shadow = ext[x].shadow
KeepsCounts(x)    == ext'[x].refs = ext[x].refs /\ ext'[x].rel = ext[x].rel
KeepsHolders(x)   == ext'[x].holders = ext[x].holders
KeepsClosing(x)   == ext'[x].closing = ext[x].closing

KeepsUse(t)       == /\ th'[t].x = th[t].x /\ th'[t].h = th[t].h /\ th'[t].f = th[t].f
                     /\ th'[t].n = th[t].n /\ th'[t].request = th[t].request
KeepsDel(t)       == th'[t].del = th[t].del /\ th'[t].phase = th[t].phase
KeepsFound(t)     == /\ th'[t].old = th[t].old /\ th'[t].shadow = th[t].shadow
                     /\ th'[t].new = th[t].new /\ th'[t].todo = th[t].todo
KeepsOp(t)        == th'[t].ops = th[t].ops

LEMMA EffectRender ==
  ASSUME Typed, NEW t \in Threads, Render(t)
  PROVE  /\ th[t].del # 0 /\ th[t].phase = "render" /\ th'[t].pc = th[t].pc
         /\ th'[t].ret = th[t].ret /\ KeepsUse(t) /\ th'[t].del = th[t].del
         /\ th'[t].phase = "close" /\ KeepsFound(t) /\ KeepsOp(t)
         /\ \A x \in Exts :
              /\ KeepsMake(x) /\ KeepsLife(x)
              /\ ext'[x].marked = (IF x = th[t].del THEN TRUE ELSE ext[x].marked)
              /\ KeepsRelations(x) /\ KeepsCounts(x) /\ KeepsHolders(x) /\ KeepsClosing(x)
         /\ list' = Without(th[t].del) /\ known' = known /\ broken \subseteq broken'
  <1>1. Types /\ Standing(t, th[t])
    BY DEF Typed, Control
  <1>2. PICK q \in ThreadTypes : q = th[t]
    BY <1>1 DEF Types
  <1>3. /\ th[t].del # 0 /\ th[t].phase = "render" /\ th'[t].pc = th[t].pc /\ th'[t].ret = th[t].ret
        /\ KeepsUse(t) /\ th'[t].del = th[t].del /\ th'[t].phase = "close" /\ KeepsFound(t)
        /\ KeepsOp(t)
    BY <1>1, <1>2 DEF Types, ThreadTypes, KeepsUse, KeepsDel, KeepsFound, KeepsOp, Render, Deletes, RenderVirtualPdoAsDeleted, Unlisted
  <1>4. ASSUME NEW x \in Exts
        PROVE  /\ KeepsMake(x) /\ KeepsLife(x)
               /\ ext'[x].marked = (IF x = th[t].del THEN TRUE ELSE ext[x].marked)
               /\ KeepsRelations(x) /\ KeepsCounts(x) /\ KeepsHolders(x) /\ KeepsClosing(x)
    <2>1. PICK p \in ExtTypes : p = ext[x]
      BY <1>1 DEF Types
    <2> QED
      BY <1>1, <2>1 DEF Types, ExtTypes, KeepsMake, KeepsLife, KeepsMark, KeepsRelations, KeepsCounts, KeepsHolders, KeepsClosing, Render, Deletes, RenderVirtualPdoAsDeleted, Unlisted
  <1>5. /\ list' = Without(th[t].del) /\ known' = known /\ broken \subseteq broken'
    BY <1>1, <1>2 DEF Types, Render, Deletes, RenderVirtualPdoAsDeleted, Unlisted
  <1> QED
    BY <1>3, <1>4, <1>5

LEMMA EffectCloseVirtualPdo ==
  ASSUME Typed, NEW t \in Threads, CloseVirtualPdo(t)
  PROVE  /\ th[t].del # 0 /\ th[t].phase = "close" /\ th'[t].pc = th[t].pc /\ th'[t].ret = th[t].ret
         /\ KeepsUse(t) /\ th'[t].del = th[t].del /\ th'[t].phase = "wait" /\ KeepsFound(t)
         /\ KeepsOp(t)
         /\ \A x \in Exts :
              /\ KeepsMake(x) /\ KeepsLife(x) /\ KeepsMark(x) /\ KeepsRelations(x) /\ KeepsCounts(x)
              /\ KeepsHolders(x)
              /\ ext'[x].closing = (IF x = th[t].del THEN TRUE ELSE ext[x].closing)
         /\ list' = list /\ known' = known /\ broken \subseteq broken'
  <1>1. Types /\ Standing(t, th[t])
    BY DEF Typed, Control
  <1>2. PICK q \in ThreadTypes : q = th[t]
    BY <1>1 DEF Types
  <1>3. /\ th[t].del # 0 /\ th[t].phase = "close" /\ th'[t].pc = th[t].pc /\ th'[t].ret = th[t].ret
        /\ KeepsUse(t) /\ th'[t].del = th[t].del /\ th'[t].phase = "wait" /\ KeepsFound(t)
        /\ KeepsOp(t)
    BY <1>1, <1>2 DEF Types, ThreadTypes, KeepsUse, KeepsDel, KeepsFound, KeepsOp, CloseVirtualPdo, Deletes
  <1>4. ASSUME NEW x \in Exts
        PROVE  /\ KeepsMake(x) /\ KeepsLife(x) /\ KeepsMark(x) /\ KeepsRelations(x)
               /\ KeepsCounts(x) /\ KeepsHolders(x)
               /\ ext'[x].closing = (IF x = th[t].del THEN TRUE ELSE ext[x].closing)
    <2>1. PICK p \in ExtTypes : p = ext[x]
      BY <1>1 DEF Types
    <2> QED
      BY <1>1, <2>1 DEF Types, ExtTypes, KeepsMake, KeepsLife, KeepsMark, KeepsRelations, KeepsCounts, KeepsHolders, KeepsClosing, CloseVirtualPdo, Deletes
  <1>5. /\ list' = list /\ known' = known /\ broken \subseteq broken'
    BY <1>1, <1>2 DEF Types, CloseVirtualPdo, Deletes
  <1> QED
    BY <1>3, <1>4, <1>5

LEMMA EffectDeleteVirtualPdoByExtensionInternal ==
  ASSUME Typed, NEW t \in Threads, DeleteVirtualPdoByExtensionInternal(t)
  PROVE  /\ th[t].del # 0 /\ th[t].phase = "wait" /\ ext[th[t].del].holders = 0
         /\ th'[t].pc = th[t].pc /\ th'[t].ret = th[t].ret /\ KeepsUse(t) /\ th'[t].del = 0
         /\ th'[t].phase = th[t].phase /\ KeepsFound(t) /\ KeepsOp(t)
         /\ \A x \in Exts :
              /\ KeepsMake(x) /\ ext'[x].life = (IF x = th[t].del THEN "freed" ELSE ext[x].life)
              /\ KeepsMark(x) /\ KeepsRelations(x) /\ KeepsCounts(x) /\ KeepsHolders(x)
              /\ KeepsClosing(x)
         /\ list' = list /\ known' = [known EXCEPT ![Key(th[t].del)] = "Deleted"]
         /\ broken \subseteq broken'
  <1>1. Types /\ Standing(t, th[t])
    BY DEF Typed, Control
  <1>2. PICK q \in ThreadTypes : q = th[t]
    BY <1>1 DEF Types
  <1>3. /\ th[t].del # 0 /\ th[t].phase = "wait" /\ ext[th[t].del].holders = 0
        /\ th'[t].pc = th[t].pc /\ th'[t].ret = th[t].ret /\ KeepsUse(t) /\ th'[t].del = 0
        /\ th'[t].phase = th[t].phase /\ KeepsFound(t) /\ KeepsOp(t)
    BY <1>1, <1>2 DEF Types, ThreadTypes, KeepsUse, KeepsDel, KeepsFound, KeepsOp, DeleteVirtualPdoByExtensionInternal, Deletes, ReportNewDeviceState
  <1>4. ASSUME NEW x \in Exts
        PROVE  /\ KeepsMake(x) /\ ext'[x].life = (IF x = th[t].del THEN "freed" ELSE ext[x].life)
               /\ KeepsMark(x) /\ KeepsRelations(x) /\ KeepsCounts(x) /\ KeepsHolders(x)
               /\ KeepsClosing(x)
    <2>1. PICK p \in ExtTypes : p = ext[x]
      BY <1>1 DEF Types
    <2> QED
      BY <1>1, <2>1 DEF Types, ExtTypes, KeepsMake, KeepsLife, KeepsMark, KeepsRelations, KeepsCounts, KeepsHolders, KeepsClosing, DeleteVirtualPdoByExtensionInternal, Deletes, ReportNewDeviceState
  <1>5. /\ list' = list /\ known' = [known EXCEPT ![Key(th[t].del)] = "Deleted"]
        /\ broken \subseteq broken'
    BY <1>1, <1>2 DEF Types, DeleteVirtualPdoByExtensionInternal, Deletes, ReportNewDeviceState
  <1> QED
    BY <1>3, <1>4, <1>5

LEMMA EffectDeleteVirtualPdoByExtension ==
  ASSUME Typed, NEW t \in Threads, DeleteVirtualPdoByExtension(t)
  PROVE  /\ th[t].pc = "delete" /\ th[t].del = 0
         /\ th'[t].pc = (IF ext[th[t].x].marked THEN "deref" ELSE "drop") /\ th'[t].ret = th[t].ret
         /\ KeepsUse(t) /\ KeepsDel(t) /\ KeepsFound(t) /\ KeepsOp(t)
         /\ \A x \in Exts :
              /\ KeepsMake(x) /\ KeepsLife(x)
              /\ ext'[x].marked = (IF x = th[t].x THEN TRUE ELSE ext[x].marked) /\ KeepsRelations(x)
              /\ KeepsCounts(x) /\ KeepsHolders(x) /\ KeepsClosing(x)
         /\ list' = Without(th[t].x) /\ known' = known /\ broken \subseteq broken'
  <1>1. Types /\ Standing(t, th[t])
    BY DEF Typed, Control
  <1>2. PICK q \in ThreadTypes : q = th[t]
    BY <1>1 DEF Types
  <1>3. /\ th[t].pc = "delete" /\ th[t].del = 0
        /\ th'[t].pc = (IF ext[th[t].x].marked THEN "deref" ELSE "drop") /\ th'[t].ret = th[t].ret
        /\ KeepsUse(t) /\ KeepsDel(t) /\ KeepsFound(t) /\ KeepsOp(t)
    BY <1>1, <1>2 DEF Types, ThreadTypes, KeepsUse, KeepsDel, KeepsFound, KeepsOp, DeleteVirtualPdoByExtension, At, Goto, RenderVirtualPdoAsDeleted, Unlisted
  <1>4. ASSUME NEW x \in Exts
        PROVE  /\ KeepsMake(x) /\ KeepsLife(x)
               /\ ext'[x].marked = (IF x = th[t].x THEN TRUE ELSE ext[x].marked)
               /\ KeepsRelations(x) /\ KeepsCounts(x) /\ KeepsHolders(x) /\ KeepsClosing(x)
    <2>1. PICK p \in ExtTypes : p = ext[x]
      BY <1>1 DEF Types
    <2> QED
      BY <1>1, <2>1 DEF Types, ExtTypes, KeepsMake, KeepsLife, KeepsMark, KeepsRelations, KeepsCounts, KeepsHolders, KeepsClosing, DeleteVirtualPdoByExtension, At, Goto, RenderVirtualPdoAsDeleted, Unlisted
  <1>5. /\ list' = Without(th[t].x) /\ known' = known /\ broken \subseteq broken'
    BY <1>1, <1>2 DEF Types, DeleteVirtualPdoByExtension, At, Goto, RenderVirtualPdoAsDeleted, Unlisted
  <1> QED
    BY <1>3, <1>4, <1>5

LEMMA EffectDropInitialReference ==
  ASSUME Typed, NEW t \in Threads, DropInitialReference(t)
  PROVE  /\ th[t].pc = "drop" /\ th[t].del = 0 /\ th'[t].pc = "deref" /\ th'[t].ret = th[t].ret
         /\ KeepsUse(t) /\ th'[t].del = (IF ext[th[t].x].refs = 1 THEN th[t].x ELSE 0)
         /\ th'[t].phase = "render" /\ KeepsFound(t) /\ KeepsOp(t)
         /\ \A x \in Exts :
              /\ KeepsMake(x) /\ KeepsLife(x) /\ KeepsMark(x) /\ KeepsRelations(x)
              /\ ext'[x].refs = (IF x = th[t].x THEN ext[x].refs - 1 ELSE ext[x].refs)
              /\ ext'[x].rel = ext[x].rel /\ KeepsHolders(x) /\ KeepsClosing(x)
         /\ list' = list /\ known' = known /\ broken \subseteq broken'
  <1>1. Types /\ Standing(t, th[t])
    BY DEF Typed, Control
  <1>2. PICK q \in ThreadTypes : q = th[t]
    BY <1>1 DEF Types
  <1>3. /\ th[t].pc = "drop" /\ th[t].del = 0 /\ th'[t].pc = "deref" /\ th'[t].ret = th[t].ret
        /\ KeepsUse(t) /\ th'[t].del = (IF ext[th[t].x].refs = 1 THEN th[t].x ELSE 0)
        /\ th'[t].phase = "render" /\ KeepsFound(t) /\ KeepsOp(t)
    BY <1>1, <1>2 DEF Types, ThreadTypes, KeepsUse, KeepsDel, KeepsFound, KeepsOp, DropInitialReference, At, Dereference
  <1>4. ASSUME NEW x \in Exts
        PROVE  /\ KeepsMake(x) /\ KeepsLife(x) /\ KeepsMark(x) /\ KeepsRelations(x)
               /\ ext'[x].refs = (IF x = th[t].x THEN ext[x].refs - 1 ELSE ext[x].refs)
               /\ ext'[x].rel = ext[x].rel /\ KeepsHolders(x) /\ KeepsClosing(x)
    <2>1. PICK p \in ExtTypes : p = ext[x]
      BY <1>1 DEF Types
    <2> QED
      BY <1>1, <2>1 DEF Types, ExtTypes, KeepsMake, KeepsLife, KeepsMark, KeepsRelations, KeepsCounts, KeepsHolders, KeepsClosing, DropInitialReference, At, Dereference
  <1>5. /\ list' = list /\ known' = known /\ broken \subseteq broken'
    BY <1>1, <1>2 DEF Types, DropInitialReference, At, Dereference
  <1> QED
    BY <1>3, <1>4, <1>5

LEMMA EffectDereferenceVirtualPdo ==
  ASSUME Typed, NEW t \in Threads, DereferenceVirtualPdo(t)
  PROVE  /\ th[t].pc = "deref" /\ th[t].del = 0 /\ th'[t].pc = th[t].ret /\ th'[t].ret = th[t].ret
         /\ KeepsUse(t) /\ th'[t].del = (IF ext[th[t].x].refs = 1 THEN th[t].x ELSE 0)
         /\ th'[t].phase = "render" /\ KeepsFound(t) /\ KeepsOp(t)
         /\ \A x \in Exts :
              /\ KeepsMake(x) /\ KeepsLife(x) /\ KeepsMark(x) /\ KeepsRelations(x)
              /\ ext'[x].refs = (IF x = th[t].x THEN ext[x].refs - 1 ELSE ext[x].refs)
              /\ ext'[x].rel = ext[x].rel /\ KeepsHolders(x) /\ KeepsClosing(x)
         /\ list' = list /\ known' = known /\ broken \subseteq broken'
  <1>1. Types /\ Standing(t, th[t])
    BY DEF Typed, Control
  <1>2. PICK q \in ThreadTypes : q = th[t]
    BY <1>1 DEF Types
  <1>3. /\ th[t].pc = "deref" /\ th[t].del = 0 /\ th'[t].pc = th[t].ret /\ th'[t].ret = th[t].ret
        /\ KeepsUse(t) /\ th'[t].del = (IF ext[th[t].x].refs = 1 THEN th[t].x ELSE 0)
        /\ th'[t].phase = "render" /\ KeepsFound(t) /\ KeepsOp(t)
    BY <1>1, <1>2 DEF Types, ThreadTypes, KeepsUse, KeepsDel, KeepsFound, KeepsOp, DereferenceVirtualPdo, At, Dereference
  <1>4. ASSUME NEW x \in Exts
        PROVE  /\ KeepsMake(x) /\ KeepsLife(x) /\ KeepsMark(x) /\ KeepsRelations(x)
               /\ ext'[x].refs = (IF x = th[t].x THEN ext[x].refs - 1 ELSE ext[x].refs)
               /\ ext'[x].rel = ext[x].rel /\ KeepsHolders(x) /\ KeepsClosing(x)
    <2>1. PICK p \in ExtTypes : p = ext[x]
      BY <1>1 DEF Types
    <2> QED
      BY <1>1, <2>1 DEF Types, ExtTypes, KeepsMake, KeepsLife, KeepsMark, KeepsRelations, KeepsCounts, KeepsHolders, KeepsClosing, DereferenceVirtualPdo, At, Dereference
  <1>5. /\ list' = list /\ known' = known /\ broken \subseteq broken'
    BY <1>1, <1>2 DEF Types, DereferenceVirtualPdo, At, Dereference
  <1> QED
    BY <1>3, <1>4, <1>5

LEMMA EffectDone ==
  ASSUME Typed, NEW t \in Threads, Done(t)
  PROVE  /\ th[t].pc = "done" /\ th[t].del = 0 /\ th'[t].pc = "next" /\ th'[t].ret = "done"
         /\ th'[t].x = 0 /\ th'[t].h = 0 /\ th'[t].f = 0 /\ th'[t].n = 0 /\ th'[t].request = 0
         /\ th'[t].del = 0 /\ th'[t].phase = "" /\ th'[t].old = Null /\ th'[t].shadow = Null
         /\ th'[t].new = Null /\ th'[t].todo = <<>> /\ th'[t].ops = Tail(th[t].ops) /\ ext' = ext
         /\ list' = list /\ known' = known /\ broken \subseteq broken'
  <1>1. Types /\ Standing(t, th[t])
    BY DEF Typed, Control
  <1>2. PICK q \in ThreadTypes : q = th[t]
    BY <1>1 DEF Types
  <1>3. /\ th[t].pc = "done" /\ th[t].del = 0 /\ th'[t].pc = "next" /\ th'[t].ret = "done"
        /\ th'[t].x = 0 /\ th'[t].h = 0 /\ th'[t].f = 0 /\ th'[t].n = 0 /\ th'[t].request = 0
        /\ th'[t].del = 0 /\ th'[t].phase = "" /\ th'[t].old = Null /\ th'[t].shadow = Null
        /\ th'[t].new = Null /\ th'[t].todo = <<>> /\ th'[t].ops = Tail(th[t].ops)
    BY <1>1, <1>2 DEF Types, ThreadTypes, KeepsUse, KeepsDel, KeepsFound, KeepsOp, Done, At, Finish, Idle
  <1>4. ext' = ext
    BY <1>1, <1>2 DEF Done, At, Finish, Idle
  <1>5. /\ list' = list /\ known' = known /\ broken \subseteq broken'
    BY <1>1, <1>2 DEF Types, Done, At, Finish, Idle
  <1> QED
    BY <1>3, <1>4, <1>5

LEMMA EffectProcessNewRelations ==
  ASSUME Typed, NEW t \in Threads, ProcessNewRelations(t)
  PROVE  /\ th[t].pc = "process" /\ th[t].del = 0
         /\ \/ /\ th'[t].pc = "release" /\ th'[t].ret = th[t].ret /\ KeepsUse(t) /\ KeepsDel(t)
               /\ KeepsFound(t) /\ KeepsOp(t) /\ ext' = ext /\ list' = list /\ known' = known
               /\ broken \subseteq broken'
            \/ /\ th'[t].pc = "record" /\ th'[t].ret = th[t].ret /\ KeepsUse(t) /\ KeepsDel(t)
               /\ th'[t].old = th[t].old /\ th'[t].shadow = th[t].shadow
               /\ th'[t].new = {Visit(ext, list, Only(Op(t).rels)).found}
               /\ th'[t].todo = th[t].todo /\ KeepsOp(t)
               /\ \A x \in Exts :
                    /\ KeepsMake(x) /\ KeepsLife(x) /\ KeepsMark(x) /\ KeepsRelations(x)
                    /\ ext'[x].refs = (ext[x].refs + 1 * Times(Visit(ext, list, Only(Op(t).rels)).found, x))
                    /\ ext'[x].rel = (ext[x].rel + 1 * Times(Visit(ext, list, Only(Op(t).rels)).found, x))
                    /\ KeepsHolders(x) /\ KeepsClosing(x)
               /\ list' = list /\ known' = known /\ broken \subseteq broken'
            \/ /\ th'[t].pc = "spin" /\ th'[t].ret = th[t].ret /\ KeepsUse(t) /\ KeepsDel(t)
               /\ KeepsFound(t) /\ KeepsOp(t) /\ ext' = ext /\ list' = list /\ known' = known
               /\ broken \subseteq broken'
            \/ /\ th'[t].pc = "crash" /\ "shadow" \in broken' /\ th'[t].ret = th[t].ret /\ KeepsUse(t)
               /\ KeepsDel(t) /\ KeepsFound(t) /\ KeepsOp(t) /\ ext' = ext /\ list' = list
               /\ known' = known /\ broken \subseteq broken'
  <1>1. Types /\ Standing(t, th[t])
    BY DEF Typed, Control
  <1>2. PICK q \in ThreadTypes : q = th[t]
    BY <1>1 DEF Types
  <1>3. /\ th[t].pc = "process" /\ th[t].del = 0
    BY <1>1, <1>2 DEF ProcessNewRelations, At, Goto, Spin
  <1>4. CASE th' = [th EXCEPT ![t].pc = "release"] /\ UNCHANGED ext
    <2>1. /\ th'[t].pc = "release" /\ th'[t].ret = th[t].ret /\ KeepsUse(t) /\ KeepsDel(t)
          /\ KeepsFound(t) /\ KeepsOp(t)
      BY <1>1, <1>2, <1>4 DEF Types, ThreadTypes, KeepsUse, KeepsDel, KeepsFound, KeepsOp, ProcessNewRelations, At, Goto, Spin
    <2>2. ext' = ext
      BY <1>1, <1>2, <1>4 DEF ProcessNewRelations, At, Goto, Spin
    <2>3. /\ list' = list /\ known' = known /\ broken \subseteq broken'
      BY <1>1, <1>2, <1>4 DEF Types, ProcessNewRelations, At, Goto, Spin
    <2> QED
      BY <1>3, <2>1, <2>2, <2>3
  <1>5. CASE /\ ext' = Counted(Visit(ext, list, Only(Op(t).rels)).found, 1)
             /\ th' = [th EXCEPT ![t].new = {Visit(ext, list, Only(Op(t).rels)).found}, ![t].pc = "record"]
    <2>1. /\ th'[t].pc = "record" /\ th'[t].ret = th[t].ret /\ KeepsUse(t) /\ KeepsDel(t)
          /\ th'[t].old = th[t].old /\ th'[t].shadow = th[t].shadow
          /\ th'[t].new = {Visit(ext, list, Only(Op(t).rels)).found} /\ th'[t].todo = th[t].todo
          /\ KeepsOp(t)
      BY <1>1, <1>2, <1>5 DEF Types, ThreadTypes, KeepsUse, KeepsDel, KeepsFound, KeepsOp, ProcessNewRelations, At, Goto, Spin
    <2>2. ASSUME NEW x \in Exts
          PROVE  /\ KeepsMake(x) /\ KeepsLife(x) /\ KeepsMark(x) /\ KeepsRelations(x)
                 /\ ext'[x].refs = (ext[x].refs + 1 * Times(Visit(ext, list, Only(Op(t).rels)).found, x))
                 /\ ext'[x].rel = (ext[x].rel + 1 * Times(Visit(ext, list, Only(Op(t).rels)).found, x))
                 /\ KeepsHolders(x) /\ KeepsClosing(x)
      <3>1. PICK p \in ExtTypes : p = ext[x]
        BY <1>1 DEF Types
      <3> QED
        BY <1>1, <1>5, <3>1 DEF Types, ExtTypes, KeepsMake, KeepsLife, KeepsMark, KeepsRelations, KeepsCounts, KeepsHolders, KeepsClosing, ProcessNewRelations, At, Goto, Spin, Counted
    <2>3. /\ list' = list /\ known' = known /\ broken \subseteq broken'
      BY <1>1, <1>2, <1>5 DEF Types, ProcessNewRelations, At, Goto, Spin
    <2> QED
      BY <1>3, <2>1, <2>2, <2>3
  <1>6. CASE th' = [th EXCEPT ![t].pc = "spin"] /\ UNCHANGED ext
    <2>1. /\ th'[t].pc = "spin" /\ th'[t].ret = th[t].ret /\ KeepsUse(t) /\ KeepsDel(t)
          /\ KeepsFound(t) /\ KeepsOp(t)
      BY <1>1, <1>2, <1>6 DEF Types, ThreadTypes, KeepsUse, KeepsDel, KeepsFound, KeepsOp, ProcessNewRelations, At, Goto, Spin
    <2>2. ext' = ext
      BY <1>1, <1>2, <1>6 DEF ProcessNewRelations, At, Goto, Spin
    <2>3. /\ list' = list /\ known' = known /\ broken \subseteq broken'
      BY <1>1, <1>2, <1>6 DEF Types, ProcessNewRelations, At, Goto, Spin
    <2> QED
      BY <1>3, <2>1, <2>2, <2>3
  <1>7. CASE th' = [th EXCEPT ![t].pc = "crash"] /\ broken' = broken \cup {"shadow"} /\ UNCHANGED ext
    <2>1. /\ th'[t].pc = "crash" /\ "shadow" \in broken' /\ th'[t].ret = th[t].ret /\ KeepsUse(t)
          /\ KeepsDel(t) /\ KeepsFound(t) /\ KeepsOp(t)
      BY <1>1, <1>2, <1>7 DEF Types, ThreadTypes, KeepsUse, KeepsDel, KeepsFound, KeepsOp, ProcessNewRelations, At, Goto, Spin
    <2>2. ext' = ext
      BY <1>1, <1>2, <1>7 DEF ProcessNewRelations, At, Goto, Spin
    <2>3. /\ list' = list /\ known' = known /\ broken \subseteq broken'
      BY <1>1, <1>2, <1>7 DEF Types, ProcessNewRelations, At, Goto, Spin
    <2> QED
      BY <1>3, <2>1, <2>2, <2>3
  <1> QED
    BY <1>4, <1>5, <1>6, <1>7 DEF ProcessNewRelations, At, Goto, Spin

LEMMA EffectRecordShadow ==
  ASSUME Typed, NEW t \in Threads, RecordShadow(t)
  PROVE  /\ th[t].pc = "record" /\ th[t].del = 0 /\ th'[t].pc = "release" /\ th'[t].ret = th[t].ret
         /\ KeepsUse(t) /\ KeepsDel(t) /\ th'[t].old = th[t].old /\ th'[t].shadow = th[t].shadow
         /\ th'[t].new = Null /\ th'[t].todo = th[t].todo /\ KeepsOp(t)
         /\ \A x \in Exts :
              /\ KeepsMake(x) /\ KeepsLife(x) /\ KeepsMark(x) /\ ext'[x].rels = ext[x].rels
              /\ ext'[x].shadow = (IF x = th[t].f THEN th[t].new ELSE ext[x].shadow)
              /\ KeepsCounts(x) /\ KeepsHolders(x) /\ KeepsClosing(x)
         /\ list' = list /\ known' = known /\ broken \subseteq broken'
         /\ ("shadow" \notin broken' => ext[th[t].f].shadow = Null /\ ext[th[t].f].rels = Op(t).rels)
  <1>1. Types /\ Standing(t, th[t])
    BY DEF Typed, Control
  <1>2. PICK q \in ThreadTypes : q = th[t]
    BY <1>1 DEF Types
  <1>3. /\ th[t].pc = "record" /\ th[t].del = 0 /\ th'[t].pc = "release" /\ th'[t].ret = th[t].ret
        /\ KeepsUse(t) /\ KeepsDel(t) /\ th'[t].old = th[t].old /\ th'[t].shadow = th[t].shadow
        /\ th'[t].new = Null /\ th'[t].todo = th[t].todo /\ KeepsOp(t)
    BY <1>1, <1>2 DEF Types, ThreadTypes, KeepsUse, KeepsDel, KeepsFound, KeepsOp, RecordShadow, At
  <1>4. ASSUME NEW x \in Exts
        PROVE  /\ KeepsMake(x) /\ KeepsLife(x) /\ KeepsMark(x) /\ ext'[x].rels = ext[x].rels
               /\ ext'[x].shadow = (IF x = th[t].f THEN th[t].new ELSE ext[x].shadow)
               /\ KeepsCounts(x) /\ KeepsHolders(x) /\ KeepsClosing(x)
    <2>1. PICK p \in ExtTypes : p = ext[x]
      BY <1>1 DEF Types
    <2> QED
      BY <1>1, <2>1 DEF Types, ExtTypes, KeepsMake, KeepsLife, KeepsMark, KeepsRelations, KeepsCounts, KeepsHolders, KeepsClosing, RecordShadow, At
  <1>5. /\ list' = list /\ known' = known /\ broken \subseteq broken'
        /\ ("shadow" \notin broken' => ext[th[t].f].shadow = Null /\ ext[th[t].f].rels = Op(t).rels)
    BY <1>1, <1>2 DEF Types, RecordShadow, At
  <1> QED
    BY <1>3, <1>4, <1>5

LEMMA EffectReleaseOldRelations ==
  ASSUME Typed, NEW t \in Threads, ReleaseOldRelations(t)
  PROVE  /\ th[t].pc = "release" /\ th[t].del = 0
         /\ \/ /\ th[t].old = Null /\ th[t].shadow = Null /\ th'[t].pc = th[t].ret
               /\ th'[t].ret = th[t].ret /\ KeepsUse(t) /\ KeepsDel(t) /\ KeepsFound(t)
               /\ KeepsOp(t) /\ ext' = ext /\ list' = list /\ known' = known
               /\ broken \subseteq broken'
            \/ /\ th[t].old # Null /\ th[t].shadow # Null /\ th'[t].pc = "releasing"
               /\ th'[t].ret = th[t].ret /\ KeepsUse(t) /\ KeepsDel(t) /\ th'[t].old = th[t].old
               /\ th'[t].shadow = th[t].shadow /\ th'[t].new = th[t].new
               /\ th'[t].todo = Visit(ext, Only(th[t].shadow), Only(th[t].old)).found /\ KeepsOp(t)
               /\ ext' = ext /\ list' = list /\ known' = known /\ broken \subseteq broken'
            \/ /\ th[t].old = Null /\ th[t].shadow # Null /\ "shadow" \in broken'
               /\ th'[t].pc = "crash" /\ th'[t].ret = th[t].ret /\ KeepsUse(t) /\ KeepsDel(t)
               /\ KeepsFound(t) /\ KeepsOp(t) /\ ext' = ext /\ list' = list /\ known' = known
               /\ broken \subseteq broken'
            \/ /\ th[t].old # Null /\ th[t].shadow = Null /\ th'[t].pc = "spin"
               /\ th'[t].ret = th[t].ret /\ KeepsUse(t) /\ KeepsDel(t) /\ KeepsFound(t)
               /\ KeepsOp(t) /\ ext' = ext /\ list' = list /\ known' = known
               /\ broken \subseteq broken'
            \/ /\ th[t].old # Null /\ th[t].shadow = Null
               /\ (("shadow" \in broken' \/ Visit(ext, list, Only(th[t].old)).found = <<>>))
               /\ th'[t].pc = th[t].ret /\ th'[t].ret = th[t].ret /\ KeepsUse(t) /\ KeepsDel(t)
               /\ KeepsFound(t) /\ KeepsOp(t)
               /\ \A x \in Exts :
                    /\ KeepsMake(x) /\ KeepsLife(x) /\ KeepsMark(x) /\ KeepsRelations(x)
                    /\ ext'[x].refs = (ext[x].refs + (0 - 1) * Times(Visit(ext, list, Only(th[t].old)).found, x))
                    /\ ext'[x].rel = (ext[x].rel + (0 - 1) * Times(Visit(ext, list, Only(th[t].old)).found, x))
                    /\ KeepsHolders(x) /\ KeepsClosing(x)
               /\ list' = list /\ known' = known /\ broken \subseteq broken'
            \/ /\ th[t].old # Null /\ ("shadow" \in broken' \/ th[t].shadow = Null)
               /\ th'[t].pc = th[t].ret /\ th'[t].ret = th[t].ret /\ KeepsUse(t) /\ KeepsDel(t)
               /\ KeepsFound(t) /\ KeepsOp(t) /\ ext' = ext /\ list' = list /\ known' = known
               /\ broken \subseteq broken'
  <1>1. Types /\ Standing(t, th[t])
    BY DEF Typed, Control
  <1>2. PICK q \in ThreadTypes : q = th[t]
    BY <1>1 DEF Types
  <1>3. /\ th[t].pc = "release" /\ th[t].del = 0
    BY <1>1, <1>2 DEF ReleaseOldRelations, At, Goto, Spin
  <1>4. CASE /\ th[t].old = Null /\ th[t].shadow = Null
             /\ th' = [th EXCEPT ![t].pc = th[t].ret] /\ UNCHANGED ext
    <2>1. /\ th[t].old = Null /\ th[t].shadow = Null /\ th'[t].pc = th[t].ret
          /\ th'[t].ret = th[t].ret /\ KeepsUse(t) /\ KeepsDel(t) /\ KeepsFound(t) /\ KeepsOp(t)
      BY <1>1, <1>2, <1>4 DEF Types, ThreadTypes, KeepsUse, KeepsDel, KeepsFound, KeepsOp, ReleaseOldRelations, At, Goto, Spin
    <2>2. ext' = ext
      BY <1>1, <1>2, <1>4 DEF ReleaseOldRelations, At, Goto, Spin
    <2>3. /\ list' = list /\ known' = known /\ broken \subseteq broken'
      BY <1>1, <1>2, <1>4 DEF Types, ReleaseOldRelations, At, Goto, Spin
    <2> QED
      BY <1>3, <2>1, <2>2, <2>3
  <1>5. CASE /\ th[t].old # Null /\ th[t].shadow # Null /\ UNCHANGED ext
             /\ th' = [th EXCEPT ![t].pc = "releasing", ![t].todo = Visit(ext, Only(th[t].shadow), Only(th[t].old)).found]
    <2>1. /\ th[t].old # Null /\ th[t].shadow # Null /\ th'[t].pc = "releasing"
          /\ th'[t].ret = th[t].ret /\ KeepsUse(t) /\ KeepsDel(t) /\ th'[t].old = th[t].old
          /\ th'[t].shadow = th[t].shadow /\ th'[t].new = th[t].new
          /\ th'[t].todo = Visit(ext, Only(th[t].shadow), Only(th[t].old)).found /\ KeepsOp(t)
      BY <1>1, <1>2, <1>5 DEF Types, ThreadTypes, KeepsUse, KeepsDel, KeepsFound, KeepsOp, ReleaseOldRelations, At, Goto, Spin
    <2>2. ext' = ext
      BY <1>1, <1>2, <1>5 DEF ReleaseOldRelations, At, Goto, Spin
    <2>3. /\ list' = list /\ known' = known /\ broken \subseteq broken'
      BY <1>1, <1>2, <1>5 DEF Types, ReleaseOldRelations, At, Goto, Spin
    <2> QED
      BY <1>3, <2>1, <2>2, <2>3
  <1>6. CASE /\ th[t].old = Null /\ th[t].shadow # Null /\ broken' = broken \cup {"shadow"}
             /\ th' = [th EXCEPT ![t].pc = "crash"] /\ UNCHANGED ext
    <2>1. /\ th[t].old = Null /\ th[t].shadow # Null /\ "shadow" \in broken' /\ th'[t].pc = "crash"
          /\ th'[t].ret = th[t].ret /\ KeepsUse(t) /\ KeepsDel(t) /\ KeepsFound(t) /\ KeepsOp(t)
      BY <1>1, <1>2, <1>6 DEF Types, ThreadTypes, KeepsUse, KeepsDel, KeepsFound, KeepsOp, ReleaseOldRelations, At, Goto, Spin
    <2>2. ext' = ext
      BY <1>1, <1>2, <1>6 DEF ReleaseOldRelations, At, Goto, Spin
    <2>3. /\ list' = list /\ known' = known /\ broken \subseteq broken'
      BY <1>1, <1>2, <1>6 DEF Types, ReleaseOldRelations, At, Goto, Spin
    <2> QED
      BY <1>3, <2>1, <2>2, <2>3
  <1>7. CASE /\ th[t].old # Null /\ th[t].shadow = Null
             /\ th' = [th EXCEPT ![t].pc = "spin"] /\ UNCHANGED ext
    <2>1. /\ th[t].old # Null /\ th[t].shadow = Null /\ th'[t].pc = "spin" /\ th'[t].ret = th[t].ret
          /\ KeepsUse(t) /\ KeepsDel(t) /\ KeepsFound(t) /\ KeepsOp(t)
      BY <1>1, <1>2, <1>7 DEF Types, ThreadTypes, KeepsUse, KeepsDel, KeepsFound, KeepsOp, ReleaseOldRelations, At, Goto, Spin
    <2>2. ext' = ext
      BY <1>1, <1>2, <1>7 DEF ReleaseOldRelations, At, Goto, Spin
    <2>3. /\ list' = list /\ known' = known /\ broken \subseteq broken'
      BY <1>1, <1>2, <1>7 DEF Types, ReleaseOldRelations, At, Goto, Spin
    <2> QED
      BY <1>3, <2>1, <2>2, <2>3
  <1>8. CASE /\ th[t].old # Null /\ th[t].shadow = Null
             /\ ext' = Counted(Visit(ext, list, Only(th[t].old)).found, 0 - 1) /\ th' = [th EXCEPT ![t].pc = th[t].ret]
             /\ broken' = IF Visit(ext, list, Only(th[t].old)).found = <<>> THEN broken ELSE broken \cup {"shadow"}
    <2>1. /\ th[t].old # Null /\ th[t].shadow = Null
          /\ (("shadow" \in broken' \/ Visit(ext, list, Only(th[t].old)).found = <<>>))
          /\ th'[t].pc = th[t].ret /\ th'[t].ret = th[t].ret /\ KeepsUse(t) /\ KeepsDel(t)
          /\ KeepsFound(t) /\ KeepsOp(t)
      BY <1>1, <1>2, <1>8 DEF Types, ThreadTypes, KeepsUse, KeepsDel, KeepsFound, KeepsOp, ReleaseOldRelations, At, Goto, Spin
    <2>2. ASSUME NEW x \in Exts
          PROVE  /\ KeepsMake(x) /\ KeepsLife(x) /\ KeepsMark(x) /\ KeepsRelations(x)
                 /\ ext'[x].refs = (ext[x].refs + (0 - 1) * Times(Visit(ext, list, Only(th[t].old)).found, x))
                 /\ ext'[x].rel = (ext[x].rel + (0 - 1) * Times(Visit(ext, list, Only(th[t].old)).found, x))
                 /\ KeepsHolders(x) /\ KeepsClosing(x)
      <3>1. PICK p \in ExtTypes : p = ext[x]
        BY <1>1 DEF Types
      <3> QED
        BY <1>1, <1>8, <3>1 DEF Types, ExtTypes, KeepsMake, KeepsLife, KeepsMark, KeepsRelations, KeepsCounts, KeepsHolders, KeepsClosing, ReleaseOldRelations, At, Goto, Spin, Counted
    <2>3. /\ list' = list /\ known' = known /\ broken \subseteq broken'
      BY <1>1, <1>2, <1>8 DEF Types, ReleaseOldRelations, At, Goto, Spin
    <2> QED
      BY <1>3, <2>1, <2>2, <2>3
  <1>9. CASE /\ th[t].old # Null /\ th' = [th EXCEPT ![t].pc = th[t].ret] /\ UNCHANGED ext
             /\ broken' = IF th[t].shadow = Null THEN broken ELSE broken \cup {"shadow"}
    <2>1. /\ th[t].old # Null /\ ("shadow" \in broken' \/ th[t].shadow = Null)
          /\ th'[t].pc = th[t].ret /\ th'[t].ret = th[t].ret /\ KeepsUse(t) /\ KeepsDel(t)
          /\ KeepsFound(t) /\ KeepsOp(t)
      BY <1>1, <1>2, <1>9 DEF Types, ThreadTypes, KeepsUse, KeepsDel, KeepsFound, KeepsOp, ReleaseOldRelations, At, Goto, Spin
    <2>2. ext' = ext
      BY <1>1, <1>2, <1>9 DEF ReleaseOldRelations, At, Goto, Spin
    <2>3. /\ list' = list /\ known' = known /\ broken \subseteq broken'
      BY <1>1, <1>2, <1>9 DEF Types, ReleaseOldRelations, At, Goto, Spin
    <2> QED
      BY <1>3, <2>1, <2>2, <2>3
  <1> QED
    BY <1>4, <1>5, <1>6, <1>7, <1>8, <1>9 DEF ReleaseOldRelations, At, Goto, Spin

LEMMA EffectReleaseOne ==
  ASSUME Typed, NEW t \in Threads, ReleaseOne(t)
  PROVE  /\ th[t].pc = "releasing" /\ th[t].del = 0 /\ th[t].todo # <<>> /\ th'[t].pc = th[t].pc
         /\ th'[t].ret = th[t].ret /\ KeepsUse(t)
         /\ th'[t].del = (IF ext[Head(th[t].todo)].refs = 1 THEN Head(th[t].todo) ELSE 0)
         /\ th'[t].phase = "render" /\ th'[t].old = th[t].old /\ th'[t].shadow = th[t].shadow
         /\ th'[t].new = th[t].new /\ th'[t].todo = Tail(th[t].todo) /\ KeepsOp(t)
         /\ \A x \in Exts :
              /\ KeepsMake(x) /\ KeepsLife(x) /\ KeepsMark(x) /\ KeepsRelations(x)
              /\ ext'[x].refs = (IF x = Head(th[t].todo) THEN ext[x].refs - 1 ELSE ext[x].refs)
              /\ ext'[x].rel = (IF x = Head(th[t].todo) THEN ext[x].rel - 1 ELSE ext[x].rel)
              /\ KeepsHolders(x) /\ KeepsClosing(x)
         /\ list' = list /\ known' = known /\ broken \subseteq broken'
  <1>1. Types /\ Standing(t, th[t])
    BY DEF Typed, Control
  <1>2. PICK q \in ThreadTypes : q = th[t]
    BY <1>1 DEF Types
  <1>3. /\ th[t].pc = "releasing" /\ th[t].del = 0 /\ th[t].todo # <<>> /\ th'[t].pc = th[t].pc
        /\ th'[t].ret = th[t].ret /\ KeepsUse(t)
        /\ th'[t].del = (IF ext[Head(th[t].todo)].refs = 1 THEN Head(th[t].todo) ELSE 0)
        /\ th'[t].phase = "render" /\ th'[t].old = th[t].old /\ th'[t].shadow = th[t].shadow
        /\ th'[t].new = th[t].new /\ th'[t].todo = Tail(th[t].todo) /\ KeepsOp(t)
    BY <1>1, <1>2 DEF Types, ThreadTypes, KeepsUse, KeepsDel, KeepsFound, KeepsOp, ReleaseOne, At
  <1>4. ASSUME NEW x \in Exts
        PROVE  /\ KeepsMake(x) /\ KeepsLife(x) /\ KeepsMark(x) /\ KeepsRelations(x)
               /\ ext'[x].refs = (IF x = Head(th[t].todo) THEN ext[x].refs - 1 ELSE ext[x].refs)
               /\ ext'[x].rel = (IF x = Head(th[t].todo) THEN ext[x].rel - 1 ELSE ext[x].rel)
               /\ KeepsHolders(x) /\ KeepsClosing(x)
    <2>1. PICK p \in ExtTypes : p = ext[x]
      BY <1>1 DEF Types
    <2> QED
      BY <1>1, <2>1 DEF Types, ExtTypes, KeepsMake, KeepsLife, KeepsMark, KeepsRelations, KeepsCounts, KeepsHolders, KeepsClosing, ReleaseOne, At
  <1>5. /\ list' = list /\ known' = known /\ broken \subseteq broken'
    BY <1>1, <1>2 DEF Types, ReleaseOne, At
  <1> QED
    BY <1>3, <1>4, <1>5

LEMMA EffectReleasedAll ==
  ASSUME Typed, NEW t \in Threads, ReleasedAll(t)
  PROVE  /\ th[t].pc = "releasing" /\ th[t].del = 0 /\ th[t].todo = <<>> /\ th'[t].pc = th[t].ret
         /\ th'[t].ret = th[t].ret /\ KeepsUse(t) /\ KeepsDel(t) /\ KeepsFound(t) /\ KeepsOp(t)
         /\ ext' = ext /\ list' = list /\ known' = known /\ broken \subseteq broken'
  <1>1. Types /\ Standing(t, th[t])
    BY DEF Typed, Control
  <1>2. PICK q \in ThreadTypes : q = th[t]
    BY <1>1 DEF Types
  <1>3. /\ th[t].pc = "releasing" /\ th[t].del = 0 /\ th[t].todo = <<>> /\ th'[t].pc = th[t].ret
        /\ th'[t].ret = th[t].ret /\ KeepsUse(t) /\ KeepsDel(t) /\ KeepsFound(t) /\ KeepsOp(t)
    BY <1>1, <1>2 DEF Types, ThreadTypes, KeepsUse, KeepsDel, KeepsFound, KeepsOp, ReleasedAll, At, Goto
  <1>4. ext' = ext
    BY <1>1, <1>2 DEF ReleasedAll, At, Goto
  <1>5. /\ list' = list /\ known' = known /\ broken \subseteq broken'
    BY <1>1, <1>2 DEF Types, ReleasedAll, At, Goto
  <1> QED
    BY <1>3, <1>4, <1>5

LEMMA EffectDispatchRequest ==
  ASSUME Typed, NEW t \in Threads, DispatchRequest(t)
  PROVE  /\ th[t].pc = "next" /\ th[t].del = 0 /\ th[t].ops # <<>> /\ Op(t).do \in {"query", "pass"}
         /\ \/ \E g \in FilterOf(Op(t).dev) :
                  /\ ~ext[g].closing /\ th'[t].pc = "sent" /\ th'[t].ret = th[t].ret
                  /\ th'[t].x = th[t].x /\ th'[t].h = th[t].h /\ th'[t].f = g /\ th'[t].n = th[t].n
                  /\ th'[t].request = th[t].request /\ KeepsDel(t) /\ KeepsFound(t) /\ KeepsOp(t)
                  /\ \A x \in Exts :
                       /\ KeepsMake(x) /\ KeepsLife(x) /\ KeepsMark(x) /\ KeepsRelations(x)
                       /\ KeepsCounts(x)
                       /\ ext'[x].holders = (IF x = g THEN ext[x].holders + 1 ELSE ext[x].holders)
                       /\ KeepsClosing(x)
                  /\ list' = list /\ known' = known /\ broken \subseteq broken'
            \/ /\ th'[t].pc = "done" /\ th'[t].ret = th[t].ret /\ KeepsUse(t) /\ KeepsDel(t)
               /\ KeepsFound(t) /\ KeepsOp(t) /\ ext' = ext /\ list' = list /\ known' = known
               /\ broken \subseteq broken'
  <1>1. Types /\ Standing(t, th[t])
    BY DEF Typed, Control
  <1>2. PICK q \in ThreadTypes : q = th[t]
    BY <1>1 DEF Types
  <1>3. /\ th[t].pc = "next" /\ th[t].del = 0 /\ th[t].ops # <<>> /\ Op(t).do \in {"query", "pass"}
    BY <1>1, <1>2 DEF DispatchRequest, At, Begins, Op, Goto, Acquire
  <1>4. CASE \E f \in FilterOf(Op(t).dev) : ~ext[f].closing
    <2>1. PICK g : g = (CHOOSE f \in FilterOf(Op(t).dev) : ~ext[f].closing)
      OBVIOUS
    <2>2. g \in FilterOf(Op(t).dev) /\ ~ext[g].closing
      BY <1>4, <2>1, FilterOfIs, Zenon
    <2>3. /\ th' = [th EXCEPT ![t].f = g, ![t].pc = "sent"]
          /\ ext' = [ext EXCEPT ![g].holders = @ + 1]
      BY <1>3, <1>4, <2>1, Zenon DEF DispatchRequest, At, Begins, Op, Goto, Acquire
    <2>4. /\ th'[t].pc = "sent" /\ th'[t].ret = th[t].ret /\ th'[t].x = th[t].x
          /\ th'[t].h = th[t].h /\ th'[t].f = g /\ th'[t].n = th[t].n
          /\ th'[t].request = th[t].request /\ KeepsDel(t) /\ KeepsFound(t) /\ KeepsOp(t)
      BY <1>1, <1>2, <2>3 DEF Types, ThreadTypes, KeepsUse, KeepsDel, KeepsFound, KeepsOp
    <2>5. ASSUME NEW x \in Exts
          PROVE  /\ KeepsMake(x) /\ KeepsLife(x) /\ KeepsMark(x) /\ KeepsRelations(x)
                 /\ KeepsCounts(x)
                 /\ ext'[x].holders = (IF x = g THEN ext[x].holders + 1 ELSE ext[x].holders)
                 /\ KeepsClosing(x)
      <3>1. PICK p \in ExtTypes : p = ext[x]
        BY <1>1 DEF Types
      <3> QED
        BY <1>1, <2>3, <3>1 DEF Types, ExtTypes, KeepsMake, KeepsLife, KeepsMark, KeepsRelations, KeepsCounts, KeepsHolders, KeepsClosing
    <2>6. /\ list' = list /\ known' = known /\ broken \subseteq broken'
      BY <1>1, <1>2, <1>4, <2>1 DEF Types, DispatchRequest, At, Begins, Op, Goto, Acquire
    <2> QED
      BY <1>3, <2>2, <2>1, <2>3, <2>4, <2>5, <2>6
  <1>5. CASE ~\E f \in FilterOf(Op(t).dev) : ~ext[f].closing
    <2>1. /\ th' = [th EXCEPT ![t].pc = "done"] /\ ext' = ext
      BY <1>3, <1>5, Zenon DEF DispatchRequest, At, Begins, Op, Goto, Acquire
    <2>2. /\ th'[t].pc = "done" /\ th'[t].ret = th[t].ret /\ KeepsUse(t) /\ KeepsDel(t)
          /\ KeepsFound(t) /\ KeepsOp(t)
      BY <1>1, <1>2, <2>1 DEF Types, ThreadTypes, KeepsUse, KeepsDel, KeepsFound, KeepsOp
    <2>3. ext' = ext
      BY <2>1
    <2>4. /\ list' = list /\ known' = known /\ broken \subseteq broken'
      BY <1>1, <1>2, <1>5 DEF Types, DispatchRequest, At, Begins, Op, Goto, Acquire
    <2> QED
      BY <1>3, <2>1, <2>2, <2>3, <2>4
  <1> QED
    BY <1>4, <1>5 DEF DispatchRequest, At, Begins, Op, Goto, Acquire

LEMMA EffectFilterPass ==
  ASSUME Typed, NEW t \in Threads, FilterPass(t)
  PROVE  /\ th[t].pc = "sent" /\ th[t].del = 0 /\ Op(t).do = "pass" /\ th'[t].pc = "done"
         /\ th'[t].ret = th[t].ret /\ KeepsUse(t) /\ KeepsDel(t) /\ KeepsFound(t) /\ KeepsOp(t)
         /\ \A x \in Exts :
              /\ KeepsMake(x) /\ KeepsLife(x) /\ KeepsMark(x) /\ KeepsRelations(x) /\ KeepsCounts(x)
              /\ ext'[x].holders = (IF x = th[t].f THEN ext[x].holders - 1 ELSE ext[x].holders)
              /\ KeepsClosing(x)
         /\ list' = list /\ known' = known /\ broken \subseteq broken'
  <1>1. Types /\ Standing(t, th[t])
    BY DEF Typed, Control
  <1>2. PICK q \in ThreadTypes : q = th[t]
    BY <1>1 DEF Types
  <1>3. /\ th[t].pc = "sent" /\ th[t].del = 0 /\ Op(t).do = "pass" /\ th'[t].pc = "done"
        /\ th'[t].ret = th[t].ret /\ KeepsUse(t) /\ KeepsDel(t) /\ KeepsFound(t) /\ KeepsOp(t)
    BY <1>1, <1>2 DEF Types, ThreadTypes, KeepsUse, KeepsDel, KeepsFound, KeepsOp, FilterPass, At, Goto, Release
  <1>4. ASSUME NEW x \in Exts
        PROVE  /\ KeepsMake(x) /\ KeepsLife(x) /\ KeepsMark(x) /\ KeepsRelations(x)
               /\ KeepsCounts(x)
               /\ ext'[x].holders = (IF x = th[t].f THEN ext[x].holders - 1 ELSE ext[x].holders)
               /\ KeepsClosing(x)
    <2>1. PICK p \in ExtTypes : p = ext[x]
      BY <1>1 DEF Types
    <2> QED
      BY <1>1, <2>1 DEF Types, ExtTypes, KeepsMake, KeepsLife, KeepsMark, KeepsRelations, KeepsCounts, KeepsHolders, KeepsClosing, FilterPass, At, Goto, Release
  <1>5. /\ list' = list /\ known' = known /\ broken \subseteq broken'
    BY <1>1, <1>2 DEF Types, FilterPass, At, Goto, Release
  <1> QED
    BY <1>3, <1>4, <1>5

LEMMA EffectQueryDeviceRelations ==
  ASSUME Typed, NEW t \in Threads, QueryDeviceRelations(t)
  PROVE  /\ th[t].pc = "sent" /\ th[t].del = 0 /\ Op(t).do = "query"
         /\ th'[t].pc = (IF Op(t).rels = Null THEN "release" ELSE "process")
         /\ th'[t].ret = "unlock" /\ KeepsUse(t) /\ KeepsDel(t) /\ th'[t].old = ext[th[t].f].rels
         /\ th'[t].shadow = ext[th[t].f].shadow /\ th'[t].new = th[t].new
         /\ th'[t].todo = th[t].todo /\ KeepsOp(t)
         /\ \A x \in Exts :
              /\ KeepsMake(x) /\ KeepsLife(x) /\ KeepsMark(x)
              /\ ext'[x].rels = (IF x = th[t].f THEN Op(t).rels ELSE ext[x].rels)
              /\ ext'[x].shadow = (IF x = th[t].f THEN Null ELSE ext[x].shadow) /\ KeepsCounts(x)
              /\ KeepsHolders(x) /\ KeepsClosing(x)
         /\ list' = list /\ known' = known /\ broken \subseteq broken'
  <1>1. Types /\ Standing(t, th[t])
    BY DEF Typed, Control
  <1>2. PICK q \in ThreadTypes : q = th[t]
    BY <1>1 DEF Types
  <1>3. /\ th[t].pc = "sent" /\ th[t].del = 0 /\ Op(t).do = "query"
        /\ th'[t].pc = (IF Op(t).rels = Null THEN "release" ELSE "process") /\ th'[t].ret = "unlock"
        /\ KeepsUse(t) /\ KeepsDel(t) /\ th'[t].old = ext[th[t].f].rels
        /\ th'[t].shadow = ext[th[t].f].shadow /\ th'[t].new = th[t].new /\ th'[t].todo = th[t].todo
        /\ KeepsOp(t)
    BY <1>1, <1>2 DEF Types, ThreadTypes, KeepsUse, KeepsDel, KeepsFound, KeepsOp, QueryDeviceRelations, At, SetNewDeviceRelations
  <1>4. ASSUME NEW x \in Exts
        PROVE  /\ KeepsMake(x) /\ KeepsLife(x) /\ KeepsMark(x)
               /\ ext'[x].rels = (IF x = th[t].f THEN Op(t).rels ELSE ext[x].rels)
               /\ ext'[x].shadow = (IF x = th[t].f THEN Null ELSE ext[x].shadow) /\ KeepsCounts(x)
               /\ KeepsHolders(x) /\ KeepsClosing(x)
    <2>1. PICK p \in ExtTypes : p = ext[x]
      BY <1>1 DEF Types
    <2> QED
      BY <1>1, <2>1 DEF Types, ExtTypes, KeepsMake, KeepsLife, KeepsMark, KeepsRelations, KeepsCounts, KeepsHolders, KeepsClosing, QueryDeviceRelations, At, SetNewDeviceRelations
  <1>5. /\ list' = list /\ known' = known /\ broken \subseteq broken'
    BY <1>1, <1>2 DEF Types, QueryDeviceRelations, At, SetNewDeviceRelations
  <1> QED
    BY <1>3, <1>4, <1>5

LEMMA EffectQueryCompleted ==
  ASSUME Typed, NEW t \in Threads, QueryCompleted(t)
  PROVE  /\ th[t].pc = "unlock" /\ th[t].del = 0 /\ th'[t].pc = "done" /\ th'[t].ret = th[t].ret
         /\ KeepsUse(t) /\ KeepsDel(t) /\ KeepsFound(t) /\ KeepsOp(t)
         /\ \A x \in Exts :
              /\ KeepsMake(x) /\ KeepsLife(x) /\ KeepsMark(x) /\ KeepsRelations(x) /\ KeepsCounts(x)
              /\ ext'[x].holders = (IF x = th[t].f THEN ext[x].holders - 1 ELSE ext[x].holders)
              /\ KeepsClosing(x)
         /\ list' = list /\ known' = known /\ broken \subseteq broken'
  <1>1. Types /\ Standing(t, th[t])
    BY DEF Typed, Control
  <1>2. PICK q \in ThreadTypes : q = th[t]
    BY <1>1 DEF Types
  <1>3. /\ th[t].pc = "unlock" /\ th[t].del = 0 /\ th'[t].pc = "done" /\ th'[t].ret = th[t].ret
        /\ KeepsUse(t) /\ KeepsDel(t) /\ KeepsFound(t) /\ KeepsOp(t)
    BY <1>1, <1>2 DEF Types, ThreadTypes, KeepsUse, KeepsDel, KeepsFound, KeepsOp, QueryCompleted, At, Goto, Release
  <1>4. ASSUME NEW x \in Exts
        PROVE  /\ KeepsMake(x) /\ KeepsLife(x) /\ KeepsMark(x) /\ KeepsRelations(x)
               /\ KeepsCounts(x)
               /\ ext'[x].holders = (IF x = th[t].f THEN ext[x].holders - 1 ELSE ext[x].holders)
               /\ KeepsClosing(x)
    <2>1. PICK p \in ExtTypes : p = ext[x]
      BY <1>1 DEF Types
    <2> QED
      BY <1>1, <2>1 DEF Types, ExtTypes, KeepsMake, KeepsLife, KeepsMark, KeepsRelations, KeepsCounts, KeepsHolders, KeepsClosing, QueryCompleted, At, Goto, Release
  <1>5. /\ list' = list /\ known' = known /\ broken \subseteq broken'
    BY <1>1, <1>2 DEF Types, QueryCompleted, At, Goto, Release
  <1> QED
    BY <1>3, <1>4, <1>5

LEMMA EffectStartDevice ==
  ASSUME Typed, NEW t \in Threads, StartDevice(t)
  PROVE  /\ th[t].pc = "next" /\ th[t].del = 0 /\ th[t].ops # <<>> /\ Op(t).do \in {"start"}
         /\ \/ /\ th'[t].pc = "hook" /\ th'[t].ret = "started" /\ th'[t].x = th[t].x
               /\ th'[t].h = th[t].h /\ th'[t].f = 0 /\ th'[t].n = th[t].n
               /\ th'[t].request = th[t].request /\ KeepsDel(t) /\ KeepsFound(t) /\ KeepsOp(t)
               /\ ext' = ext /\ list' = list /\ known' = known /\ broken \subseteq broken'
            \/ \E g \in FilterOf(Op(t).dev) :
                  /\ th'[t].pc = "hook" /\ th'[t].ret = "started" /\ th'[t].x = th[t].x
                  /\ th'[t].h = th[t].h /\ th'[t].f = g /\ th'[t].n = th[t].n
                  /\ th'[t].request = th[t].request /\ KeepsDel(t) /\ KeepsFound(t) /\ KeepsOp(t)
                  /\ \A x \in Exts :
                       /\ KeepsMake(x) /\ KeepsLife(x) /\ KeepsMark(x) /\ KeepsRelations(x)
                       /\ KeepsCounts(x)
                       /\ ext'[x].holders = (IF x = g THEN ext[x].holders + 1 ELSE ext[x].holders)
                       /\ KeepsClosing(x)
                  /\ list' = list /\ known' = known /\ broken \subseteq broken'
  <1>1. Types /\ Standing(t, th[t])
    BY DEF Typed, Control
  <1>2. PICK q \in ThreadTypes : q = th[t]
    BY <1>1 DEF Types
  <1>3. /\ th[t].pc = "next" /\ th[t].del = 0 /\ th[t].ops # <<>> /\ Op(t).do \in {"start"}
    BY <1>1, <1>2 DEF StartDevice, At, Begins, Op, Goto, Acquire
  <1>4. CASE FilterOf(Op(t).dev) = {}
    <2>1. /\ th' = [th EXCEPT ![t].f = 0, ![t].pc = "hook", ![t].ret = "started"] /\ ext' = ext
      BY <1>3, <1>4, Zenon DEF StartDevice, At, Begins, Op, Goto, Acquire
    <2>2. /\ th'[t].pc = "hook" /\ th'[t].ret = "started" /\ th'[t].x = th[t].x
          /\ th'[t].h = th[t].h /\ th'[t].f = 0 /\ th'[t].n = th[t].n
          /\ th'[t].request = th[t].request /\ KeepsDel(t) /\ KeepsFound(t) /\ KeepsOp(t)
      BY <1>1, <1>2, <2>1 DEF Types, ThreadTypes, KeepsUse, KeepsDel, KeepsFound, KeepsOp
    <2>3. ext' = ext
      BY <2>1
    <2>4. /\ list' = list /\ known' = known /\ broken \subseteq broken'
      BY <1>1, <1>2, <1>4 DEF Types, StartDevice, At, Begins, Op, Goto, Acquire
    <2> QED
      BY <1>3, <2>1, <2>2, <2>3, <2>4
  <1>5. CASE FilterOf(Op(t).dev) # {}
    <2>1. PICK g : g = (CHOOSE f \in FilterOf(Op(t).dev) : TRUE)
      OBVIOUS
    <2>2. g \in FilterOf(Op(t).dev)
      BY <1>5, <2>1, FilterOfIs, Zenon
    <2>3. g # 0
      BY <2>2, Numerals, FilterOfIs
    <2>4. /\ th' = [th EXCEPT ![t].f = g, ![t].pc = "hook", ![t].ret = "started"]
          /\ ext' = [ext EXCEPT ![g].holders = @ + 1]
      BY <1>3, <1>5, <2>1, <2>3, Zenon DEF StartDevice, At, Begins, Op, Goto, Acquire
    <2>5. /\ th'[t].pc = "hook" /\ th'[t].ret = "started" /\ th'[t].x = th[t].x
          /\ th'[t].h = th[t].h /\ th'[t].f = g /\ th'[t].n = th[t].n
          /\ th'[t].request = th[t].request /\ KeepsDel(t) /\ KeepsFound(t) /\ KeepsOp(t)
      BY <1>1, <1>2, <2>4 DEF Types, ThreadTypes, KeepsUse, KeepsDel, KeepsFound, KeepsOp
    <2>6. ASSUME NEW x \in Exts
          PROVE  /\ KeepsMake(x) /\ KeepsLife(x) /\ KeepsMark(x) /\ KeepsRelations(x)
                 /\ KeepsCounts(x)
                 /\ ext'[x].holders = (IF x = g THEN ext[x].holders + 1 ELSE ext[x].holders)
                 /\ KeepsClosing(x)
      <3>1. PICK p \in ExtTypes : p = ext[x]
        BY <1>1 DEF Types
      <3> QED
        BY <1>1, <2>4, <3>1 DEF Types, ExtTypes, KeepsMake, KeepsLife, KeepsMark, KeepsRelations, KeepsCounts, KeepsHolders, KeepsClosing
    <2>7. /\ list' = list /\ known' = known /\ broken \subseteq broken'
      BY <1>1, <1>2, <1>5, <2>1 DEF Types, StartDevice, At, Begins, Op, Goto, Acquire
    <2> QED
      BY <1>3, <2>2, <2>1, <2>3, <2>4, <2>5, <2>6, <2>7
  <1> QED
    BY <1>4, <1>5 DEF StartDevice, At, Begins, Op, Goto, Acquire

LEMMA EffectStarted ==
  ASSUME Typed, NEW t \in Threads, Started(t)
  PROVE  /\ th[t].pc = "started" /\ th[t].del = 0
         /\ \/ /\ th[t].f = 0 /\ th'[t].pc = "done" /\ th'[t].ret = th[t].ret /\ KeepsUse(t)
               /\ KeepsDel(t) /\ KeepsFound(t) /\ KeepsOp(t) /\ ext' = ext /\ list' = list
               /\ known' = known /\ broken \subseteq broken'
            \/ /\ th[t].f # 0 /\ th'[t].pc = "done" /\ th'[t].ret = th[t].ret /\ KeepsUse(t)
               /\ KeepsDel(t) /\ KeepsFound(t) /\ KeepsOp(t)
               /\ \A x \in Exts :
                    /\ KeepsMake(x) /\ KeepsLife(x) /\ KeepsMark(x) /\ KeepsRelations(x)
                    /\ KeepsCounts(x)
                    /\ ext'[x].holders = (IF x = th[t].f THEN ext[x].holders - 1 ELSE ext[x].holders)
                    /\ KeepsClosing(x)
               /\ list' = list /\ known' = [known EXCEPT ![Key(th[t].f)] = "Started"]
               /\ broken \subseteq broken'
  <1>1. Types /\ Standing(t, th[t])
    BY DEF Typed, Control
  <1>2. PICK q \in ThreadTypes : q = th[t]
    BY <1>1 DEF Types
  <1>3. /\ th[t].pc = "started" /\ th[t].del = 0
    BY <1>1, <1>2 DEF Started, At, Goto, ReportNewDeviceState
  <1>4. CASE th[t].f = 0
    <2>1. /\ th[t].f = 0 /\ th'[t].pc = "done" /\ th'[t].ret = th[t].ret /\ KeepsUse(t)
          /\ KeepsDel(t) /\ KeepsFound(t) /\ KeepsOp(t)
      BY <1>1, <1>2, <1>4 DEF Types, ThreadTypes, KeepsUse, KeepsDel, KeepsFound, KeepsOp, Started, At, Goto, ReportNewDeviceState
    <2>2. ext' = ext
      BY <1>1, <1>2, <1>4 DEF Started, At, Goto, ReportNewDeviceState
    <2>3. /\ list' = list /\ known' = known /\ broken \subseteq broken'
      BY <1>1, <1>2, <1>4 DEF Types, Started, At, Goto, ReportNewDeviceState
    <2> QED
      BY <1>3, <2>1, <2>2, <2>3
  <1>5. CASE th[t].f # 0
    <2>1. /\ th[t].f # 0 /\ th'[t].pc = "done" /\ th'[t].ret = th[t].ret /\ KeepsUse(t)
          /\ KeepsDel(t) /\ KeepsFound(t) /\ KeepsOp(t)
      BY <1>1, <1>2, <1>5 DEF Types, ThreadTypes, KeepsUse, KeepsDel, KeepsFound, KeepsOp, Started, At, Goto, ReportNewDeviceState
    <2>2. ASSUME NEW x \in Exts
          PROVE  /\ KeepsMake(x) /\ KeepsLife(x) /\ KeepsMark(x) /\ KeepsRelations(x)
                 /\ KeepsCounts(x)
                 /\ ext'[x].holders = (IF x = th[t].f THEN ext[x].holders - 1 ELSE ext[x].holders)
                 /\ KeepsClosing(x)
      <3>1. PICK p \in ExtTypes : p = ext[x]
        BY <1>1 DEF Types
      <3> QED
        BY <1>1, <1>5, <3>1 DEF Types, ExtTypes, KeepsMake, KeepsLife, KeepsMark, KeepsRelations, KeepsCounts, KeepsHolders, KeepsClosing, Started, At, Goto, ReportNewDeviceState
    <2>3. /\ list' = list /\ known' = [known EXCEPT ![Key(th[t].f)] = "Started"]
          /\ broken \subseteq broken'
      BY <1>1, <1>2, <1>5 DEF Types, Started, At, Goto, ReportNewDeviceState
    <2> QED
      BY <1>3, <2>1, <2>2, <2>3
  <1> QED
    BY <1>4, <1>5 DEF Started, At, Goto, ReportNewDeviceState

LEMMA EffectRemoveDevice ==
  ASSUME Typed, NEW t \in Threads, RemoveDevice(t)
  PROVE  /\ th[t].pc = "next" /\ th[t].del = 0 /\ th[t].ops # <<>> /\ Op(t).do \in {"remove"}
         /\ \/ /\ th'[t].pc = "done" /\ th'[t].ret = th[t].ret /\ KeepsUse(t) /\ KeepsDel(t)
               /\ KeepsFound(t) /\ KeepsOp(t) /\ ext' = ext /\ list' = list /\ known' = known
               /\ broken \subseteq broken'
            \/ \E g \in FilterOf(Op(t).dev) :
                  /\ th'[t].pc = "closing" /\ th'[t].ret = "hook" /\ th'[t].x = th[t].x
                  /\ th'[t].h = th[t].h /\ th'[t].f = g /\ th'[t].n = th[t].n
                  /\ th'[t].request = th[t].request /\ KeepsDel(t) /\ KeepsFound(t) /\ KeepsOp(t)
                  /\ \A x \in Exts :
                       /\ KeepsMake(x) /\ KeepsLife(x) /\ KeepsMark(x) /\ KeepsRelations(x)
                       /\ KeepsCounts(x) /\ KeepsHolders(x)
                       /\ ext'[x].closing = (IF x = g THEN TRUE ELSE ext[x].closing)
                  /\ list' = list /\ known' = known /\ broken \subseteq broken'
  <1>1. Types /\ Standing(t, th[t])
    BY DEF Typed, Control
  <1>2. PICK q \in ThreadTypes : q = th[t]
    BY <1>1 DEF Types
  <1>3. /\ th[t].pc = "next" /\ th[t].del = 0 /\ th[t].ops # <<>> /\ Op(t).do \in {"remove"}
    BY <1>1, <1>2 DEF RemoveDevice, At, Begins, Op, Goto
  <1>4. CASE FilterOf(Op(t).dev) = {}
    <2>1. /\ th' = [th EXCEPT ![t].pc = "done"] /\ ext' = ext
      BY <1>3, <1>4, Zenon DEF RemoveDevice, At, Begins, Op, Goto
    <2>2. /\ th'[t].pc = "done" /\ th'[t].ret = th[t].ret /\ KeepsUse(t) /\ KeepsDel(t)
          /\ KeepsFound(t) /\ KeepsOp(t)
      BY <1>1, <1>2, <2>1 DEF Types, ThreadTypes, KeepsUse, KeepsDel, KeepsFound, KeepsOp
    <2>3. ext' = ext
      BY <2>1
    <2>4. /\ list' = list /\ known' = known /\ broken \subseteq broken'
      BY <1>1, <1>2, <1>4 DEF Types, RemoveDevice, At, Begins, Op, Goto
    <2> QED
      BY <1>3, <2>1, <2>2, <2>3, <2>4
  <1>5. CASE FilterOf(Op(t).dev) # {}
    <2>1. PICK g : g = (CHOOSE f \in FilterOf(Op(t).dev) : TRUE)
      OBVIOUS
    <2>2. g \in FilterOf(Op(t).dev)
      BY <1>5, <2>1, FilterOfIs, Zenon
    <2>3. /\ th' = [th EXCEPT ![t].f = g, ![t].ret = "hook", ![t].pc = "closing"]
          /\ ext' = [ext EXCEPT ![g].closing = TRUE]
      BY <1>3, <1>5, <2>1, Zenon DEF RemoveDevice, At, Begins, Op, Goto
    <2>4. /\ th'[t].pc = "closing" /\ th'[t].ret = "hook" /\ th'[t].x = th[t].x
          /\ th'[t].h = th[t].h /\ th'[t].f = g /\ th'[t].n = th[t].n
          /\ th'[t].request = th[t].request /\ KeepsDel(t) /\ KeepsFound(t) /\ KeepsOp(t)
      BY <1>1, <1>2, <2>3 DEF Types, ThreadTypes, KeepsUse, KeepsDel, KeepsFound, KeepsOp
    <2>5. ASSUME NEW x \in Exts
          PROVE  /\ KeepsMake(x) /\ KeepsLife(x) /\ KeepsMark(x) /\ KeepsRelations(x)
                 /\ KeepsCounts(x) /\ KeepsHolders(x)
                 /\ ext'[x].closing = (IF x = g THEN TRUE ELSE ext[x].closing)
      <3>1. PICK p \in ExtTypes : p = ext[x]
        BY <1>1 DEF Types
      <3> QED
        BY <1>1, <2>3, <3>1 DEF Types, ExtTypes, KeepsMake, KeepsLife, KeepsMark, KeepsRelations, KeepsCounts, KeepsHolders, KeepsClosing
    <2>6. /\ list' = list /\ known' = known /\ broken \subseteq broken'
      BY <1>1, <1>2, <1>5, <2>1 DEF Types, RemoveDevice, At, Begins, Op, Goto
    <2> QED
      BY <1>3, <2>2, <2>1, <2>3, <2>4, <2>5, <2>6
  <1> QED
    BY <1>4, <1>5 DEF RemoveDevice, At, Begins, Op, Goto

LEMMA EffectFastIoDetachDevice ==
  ASSUME Typed, NEW t \in Threads, FastIoDetachDevice(t)
  PROVE  /\ th[t].pc = "next" /\ th[t].del = 0 /\ th[t].ops # <<>> /\ Op(t).do \in {"detach"}
         /\ \/ /\ th'[t].pc = "done" /\ th'[t].ret = th[t].ret /\ KeepsUse(t) /\ KeepsDel(t)
               /\ KeepsFound(t) /\ KeepsOp(t) /\ ext' = ext /\ list' = list /\ known' = known
               /\ broken \subseteq broken'
            \/ \E g \in FilterOf(Op(t).dev) :
                  /\ th'[t].pc = "closing" /\ th'[t].ret = "cleared" /\ th'[t].x = th[t].x
                  /\ th'[t].h = th[t].h /\ th'[t].f = g /\ th'[t].n = th[t].n
                  /\ th'[t].request = th[t].request /\ KeepsDel(t) /\ KeepsFound(t) /\ KeepsOp(t)
                  /\ \A x \in Exts :
                       /\ KeepsMake(x) /\ KeepsLife(x) /\ KeepsMark(x) /\ KeepsRelations(x)
                       /\ KeepsCounts(x) /\ KeepsHolders(x)
                       /\ ext'[x].closing = (IF x = g THEN TRUE ELSE ext[x].closing)
                  /\ list' = list /\ known' = known /\ broken \subseteq broken'
  <1>1. Types /\ Standing(t, th[t])
    BY DEF Typed, Control
  <1>2. PICK q \in ThreadTypes : q = th[t]
    BY <1>1 DEF Types
  <1>3. /\ th[t].pc = "next" /\ th[t].del = 0 /\ th[t].ops # <<>> /\ Op(t).do \in {"detach"}
    BY <1>1, <1>2 DEF FastIoDetachDevice, At, Begins, Op, Goto
  <1>4. CASE ~\E f \in FilterOf(Op(t).dev) : Listed(f) /\ ~ext[f].closing
    <2>1. /\ th' = [th EXCEPT ![t].pc = "done"] /\ ext' = ext
      BY <1>3, <1>4, Zenon DEF FastIoDetachDevice, At, Begins, Op, Goto
    <2>2. /\ th'[t].pc = "done" /\ th'[t].ret = th[t].ret /\ KeepsUse(t) /\ KeepsDel(t)
          /\ KeepsFound(t) /\ KeepsOp(t)
      BY <1>1, <1>2, <2>1 DEF Types, ThreadTypes, KeepsUse, KeepsDel, KeepsFound, KeepsOp
    <2>3. ext' = ext
      BY <2>1
    <2>4. /\ list' = list /\ known' = known /\ broken \subseteq broken'
      BY <1>1, <1>2, <1>4 DEF Types, FastIoDetachDevice, At, Begins, Op, Goto
    <2> QED
      BY <1>3, <2>1, <2>2, <2>3, <2>4
  <1>5. CASE \E f \in FilterOf(Op(t).dev) : Listed(f) /\ ~ext[f].closing
    <2>1. PICK g : g = (CHOOSE f \in FilterOf(Op(t).dev) : TRUE)
      OBVIOUS
    <2>2. g \in FilterOf(Op(t).dev)
      BY <1>5, <2>1, FilterOfIs, Zenon
    <2>3. /\ th' = [th EXCEPT ![t].f = g, ![t].ret = "cleared", ![t].pc = "closing"]
          /\ ext' = [ext EXCEPT ![g].closing = TRUE]
      BY <1>3, <1>5, <2>1, Zenon DEF FastIoDetachDevice, At, Begins, Op, Goto
    <2>4. /\ th'[t].pc = "closing" /\ th'[t].ret = "cleared" /\ th'[t].x = th[t].x
          /\ th'[t].h = th[t].h /\ th'[t].f = g /\ th'[t].n = th[t].n
          /\ th'[t].request = th[t].request /\ KeepsDel(t) /\ KeepsFound(t) /\ KeepsOp(t)
      BY <1>1, <1>2, <2>3 DEF Types, ThreadTypes, KeepsUse, KeepsDel, KeepsFound, KeepsOp
    <2>5. ASSUME NEW x \in Exts
          PROVE  /\ KeepsMake(x) /\ KeepsLife(x) /\ KeepsMark(x) /\ KeepsRelations(x)
                 /\ KeepsCounts(x) /\ KeepsHolders(x)
                 /\ ext'[x].closing = (IF x = g THEN TRUE ELSE ext[x].closing)
      <3>1. PICK p \in ExtTypes : p = ext[x]
        BY <1>1 DEF Types
      <3> QED
        BY <1>1, <2>3, <3>1 DEF Types, ExtTypes, KeepsMake, KeepsLife, KeepsMark, KeepsRelations, KeepsCounts, KeepsHolders, KeepsClosing
    <2>6. /\ list' = list /\ known' = known /\ broken \subseteq broken'
      BY <1>1, <1>2, <1>5, <2>1 DEF Types, FastIoDetachDevice, At, Begins, Op, Goto
    <2> QED
      BY <1>3, <2>2, <2>1, <2>3, <2>4, <2>5, <2>6
  <1> QED
    BY <1>4, <1>5 DEF FastIoDetachDevice, At, Begins, Op, Goto

LEMMA EffectRemoveDeviceFromTheList ==
  ASSUME Typed, NEW t \in Threads, RemoveDeviceFromTheList(t)
  PROVE  /\ th[t].pc = "closing" /\ th[t].del = 0 /\ ext[th[t].f].holders = 0 /\ th'[t].pc = "free"
         /\ th'[t].ret = th[t].ret /\ KeepsUse(t) /\ KeepsDel(t) /\ KeepsFound(t) /\ KeepsOp(t)
         /\ \A x \in Exts :
              /\ KeepsMake(x) /\ KeepsLife(x) /\ KeepsMark(x) /\ KeepsRelations(x) /\ KeepsCounts(x)
              /\ KeepsHolders(x) /\ KeepsClosing(x)
         /\ list' = Without(th[t].f) /\ known' = known /\ broken \subseteq broken'
  <1>1. Types /\ Standing(t, th[t])
    BY DEF Typed, Control
  <1>2. PICK q \in ThreadTypes : q = th[t]
    BY <1>1 DEF Types
  <1>3. /\ th[t].pc = "closing" /\ th[t].del = 0 /\ ext[th[t].f].holders = 0 /\ th'[t].pc = "free"
        /\ th'[t].ret = th[t].ret /\ KeepsUse(t) /\ KeepsDel(t) /\ KeepsFound(t) /\ KeepsOp(t)
    BY <1>1, <1>2 DEF Types, ThreadTypes, KeepsUse, KeepsDel, KeepsFound, KeepsOp, RemoveDeviceFromTheList, At, Goto, Unlisted
  <1>4. ASSUME NEW x \in Exts
        PROVE  /\ KeepsMake(x) /\ KeepsLife(x) /\ KeepsMark(x) /\ KeepsRelations(x)
               /\ KeepsCounts(x) /\ KeepsHolders(x) /\ KeepsClosing(x)
    <2>1. PICK p \in ExtTypes : p = ext[x]
      BY <1>1 DEF Types
    <2> QED
      BY <1>1, <2>1 DEF Types, ExtTypes, KeepsMake, KeepsLife, KeepsMark, KeepsRelations, KeepsCounts, KeepsHolders, KeepsClosing, RemoveDeviceFromTheList, At, Goto, Unlisted
  <1>5. /\ list' = Without(th[t].f) /\ known' = known /\ broken \subseteq broken'
    BY <1>1, <1>2 DEF Types, RemoveDeviceFromTheList, At, Goto, Unlisted
  <1> QED
    BY <1>3, <1>4, <1>5

LEMMA EffectFreeAllDeviceRelations ==
  ASSUME Typed, NEW t \in Threads, FreeAllDeviceRelations(t)
  PROVE  /\ th[t].pc = "free" /\ th[t].del = 0 /\ th'[t].pc = "release" /\ th'[t].ret = th[t].ret
         /\ KeepsUse(t) /\ KeepsDel(t) /\ th'[t].old = ext[th[t].f].rels
         /\ th'[t].shadow = ext[th[t].f].shadow /\ th'[t].new = th[t].new
         /\ th'[t].todo = th[t].todo /\ KeepsOp(t)
         /\ \A x \in Exts :
              /\ KeepsMake(x) /\ KeepsLife(x) /\ KeepsMark(x)
              /\ ext'[x].rels = (IF x = th[t].f THEN Null ELSE ext[x].rels)
              /\ ext'[x].shadow = (IF x = th[t].f THEN Null ELSE ext[x].shadow) /\ KeepsCounts(x)
              /\ KeepsHolders(x) /\ KeepsClosing(x)
         /\ list' = list /\ known' = known /\ broken \subseteq broken'
  <1>1. Types /\ Standing(t, th[t])
    BY DEF Typed, Control
  <1>2. PICK q \in ThreadTypes : q = th[t]
    BY <1>1 DEF Types
  <1>3. /\ th[t].pc = "free" /\ th[t].del = 0 /\ th'[t].pc = "release" /\ th'[t].ret = th[t].ret
        /\ KeepsUse(t) /\ KeepsDel(t) /\ th'[t].old = ext[th[t].f].rels
        /\ th'[t].shadow = ext[th[t].f].shadow /\ th'[t].new = th[t].new /\ th'[t].todo = th[t].todo
        /\ KeepsOp(t)
    BY <1>1, <1>2 DEF Types, ThreadTypes, KeepsUse, KeepsDel, KeepsFound, KeepsOp, FreeAllDeviceRelations, At, SetNewDeviceRelations
  <1>4. ASSUME NEW x \in Exts
        PROVE  /\ KeepsMake(x) /\ KeepsLife(x) /\ KeepsMark(x)
               /\ ext'[x].rels = (IF x = th[t].f THEN Null ELSE ext[x].rels)
               /\ ext'[x].shadow = (IF x = th[t].f THEN Null ELSE ext[x].shadow) /\ KeepsCounts(x)
               /\ KeepsHolders(x) /\ KeepsClosing(x)
    <2>1. PICK p \in ExtTypes : p = ext[x]
      BY <1>1 DEF Types
    <2> QED
      BY <1>1, <2>1 DEF Types, ExtTypes, KeepsMake, KeepsLife, KeepsMark, KeepsRelations, KeepsCounts, KeepsHolders, KeepsClosing, FreeAllDeviceRelations, At, SetNewDeviceRelations
  <1>5. /\ list' = list /\ known' = known /\ broken \subseteq broken'
    BY <1>1, <1>2 DEF Types, FreeAllDeviceRelations, At, SetNewDeviceRelations
  <1> QED
    BY <1>3, <1>4, <1>5

LEMMA EffectClearFilterDeviceExtension ==
  ASSUME Typed, NEW t \in Threads, ClearFilterDeviceExtension(t)
  PROVE  /\ th[t].pc = "cleared" /\ th[t].del = 0 /\ th'[t].pc = "delete" /\ th'[t].ret = "done"
         /\ th'[t].x = ext[th[t].f].vpdo /\ th'[t].h = th[t].h /\ th'[t].f = th[t].f
         /\ th'[t].n = th[t].n /\ th'[t].request = th[t].request /\ KeepsDel(t) /\ KeepsFound(t)
         /\ KeepsOp(t)
         /\ \A x \in Exts :
              /\ KeepsMake(x) /\ ext'[x].life = (IF x = th[t].f THEN "freed" ELSE ext[x].life)
              /\ KeepsMark(x) /\ KeepsRelations(x) /\ ext'[x].refs = ext[x].refs
              /\ ext'[x].rel = (IF x = ext[th[t].f].vpdo THEN ext[x].rel - 1 ELSE ext[x].rel)
              /\ KeepsHolders(x) /\ KeepsClosing(x)
         /\ list' = list /\ known' = [known EXCEPT ![Key(th[t].f)] = "Deleted"]
         /\ broken \subseteq broken'
  <1>1. Types /\ Standing(t, th[t])
    BY DEF Typed, Control
  <1>2. PICK q \in ThreadTypes : q = th[t]
    BY <1>1 DEF Types
  <1>3. /\ th[t].pc = "cleared" /\ th[t].del = 0 /\ th'[t].pc = "delete" /\ th'[t].ret = "done"
        /\ th'[t].x = ext[th[t].f].vpdo /\ th'[t].h = th[t].h /\ th'[t].f = th[t].f
        /\ th'[t].n = th[t].n /\ th'[t].request = th[t].request /\ KeepsDel(t) /\ KeepsFound(t)
        /\ KeepsOp(t)
    BY <1>1, <1>2 DEF Types, ThreadTypes, KeepsUse, KeepsDel, KeepsFound, KeepsOp, ClearFilterDeviceExtension, At, ReportNewDeviceState
  <1>4. ASSUME NEW x \in Exts
        PROVE  /\ KeepsMake(x) /\ ext'[x].life = (IF x = th[t].f THEN "freed" ELSE ext[x].life)
               /\ KeepsMark(x) /\ KeepsRelations(x) /\ ext'[x].refs = ext[x].refs
               /\ ext'[x].rel = (IF x = ext[th[t].f].vpdo THEN ext[x].rel - 1 ELSE ext[x].rel)
               /\ KeepsHolders(x) /\ KeepsClosing(x)
    <2>1. PICK p \in ExtTypes : p = ext[x]
      BY <1>1 DEF Types
    <2> QED
      BY <1>1, <2>1 DEF Types, ExtTypes, KeepsMake, KeepsLife, KeepsMark, KeepsRelations, KeepsCounts, KeepsHolders, KeepsClosing, ClearFilterDeviceExtension, At, ReportNewDeviceState
  <1>5. /\ list' = list /\ known' = [known EXCEPT ![Key(th[t].f)] = "Deleted"]
        /\ broken \subseteq broken'
    BY <1>1, <1>2 DEF Types, ClearFilterDeviceExtension, At, ReportNewDeviceState
  <1> QED
    BY <1>3, <1>4, <1>5

LEMMA EffectPnPMajorHookDispatch ==
  ASSUME Typed, NEW t \in Threads, PnPMajorHookDispatch(t)
  PROVE  /\ th[t].pc = "hook" /\ th[t].del = 0
         /\ \/ /\ th'[t].pc = (IF Op(t).do = "start" THEN "started" ELSE "cleared")
               /\ th'[t].ret = th[t].ret /\ KeepsUse(t) /\ KeepsDel(t) /\ KeepsFound(t)
               /\ KeepsOp(t) /\ ext' = ext /\ list' = list /\ known' = known
               /\ broken \subseteq broken'
            \/ /\ Lockable(Found(Op(t).dev))
               /\ th'[t].pc = (IF Op(t).do = "start" /\ ~ext[Found(Op(t).dev)].attached THEN "find" ELSE "hookstate")
               /\ th'[t].ret = "hookstate" /\ th'[t].x = th[t].x /\ th'[t].h = Found(Op(t).dev)
               /\ th'[t].f = th[t].f /\ th'[t].n = th[t].n /\ th'[t].request = th[t].request
               /\ KeepsDel(t) /\ KeepsFound(t) /\ KeepsOp(t)
               /\ \A x \in Exts :
                    /\ KeepsMake(x) /\ KeepsLife(x) /\ KeepsMark(x) /\ KeepsRelations(x)
                    /\ ext'[x].refs = (IF x = Found(Op(t).dev) THEN ext[x].refs + 1 ELSE ext[x].refs)
                    /\ ext'[x].rel = ext[x].rel
                    /\ ext'[x].holders = (IF x = Found(Op(t).dev) THEN ext[x].holders + 1 ELSE ext[x].holders)
                    /\ KeepsClosing(x)
               /\ list' = list /\ known' = known /\ broken \subseteq broken'
  <1>1. Types /\ Standing(t, th[t])
    BY DEF Typed, Control
  <1>2. PICK q \in ThreadTypes : q = th[t]
    BY <1>1 DEF Types
  <1>3. /\ th[t].pc = "hook" /\ th[t].del = 0
    BY <1>1, <1>2 DEF PnPMajorHookDispatch, At, Goto, Beyond, Starts, Referenced
  <1>4. CASE Op(t).dev \notin hooked \/ ~Lockable(Found(Op(t).dev))
    <2>1. /\ th' = [th EXCEPT ![t].pc = IF Op(t).do = "start" THEN "started" ELSE "cleared"]
          /\ ext' = ext
      BY <1>3, <1>4, Zenon DEF PnPMajorHookDispatch, At, Goto, Beyond, Starts, Referenced
    <2>2. /\ th'[t].pc = (IF Op(t).do = "start" THEN "started" ELSE "cleared")
          /\ th'[t].ret = th[t].ret /\ KeepsUse(t) /\ KeepsDel(t) /\ KeepsFound(t) /\ KeepsOp(t)
      BY <1>1, <1>2, <2>1 DEF Types, ThreadTypes, KeepsUse, KeepsDel, KeepsFound, KeepsOp
    <2>3. ext' = ext
      BY <2>1
    <2>4. /\ list' = list /\ known' = known /\ broken \subseteq broken'
      BY <1>1, <1>2, <1>4 DEF Types, PnPMajorHookDispatch, At, Goto, Beyond, Starts, Referenced
    <2> QED
      BY <1>3, <2>1, <2>2, <2>3, <2>4
  <1>5. CASE Op(t).dev \in hooked /\ Lockable(Found(Op(t).dev))
    <2>1. /\ th' = [th EXCEPT ![t].h = Found(Op(t).dev), ![t].created = FALSE, ![t].ret = "hookstate",
                            ![t].pc = IF Op(t).do = "start" /\ ~ext[Found(Op(t).dev)].attached THEN "find" ELSE "hookstate"]
          /\ ext' = [ext EXCEPT ![Found(Op(t).dev)].refs = @ + 1, ![Found(Op(t).dev)].holders = @ + 1]
      BY <1>3, <1>5, Zenon DEF PnPMajorHookDispatch, At, Goto, Beyond, Starts, Referenced
    <2>2. /\ th'[t].pc = (IF Op(t).do = "start" /\ ~ext[Found(Op(t).dev)].attached THEN "find" ELSE "hookstate")
          /\ th'[t].ret = "hookstate" /\ th'[t].x = th[t].x /\ th'[t].h = Found(Op(t).dev)
          /\ th'[t].f = th[t].f /\ th'[t].n = th[t].n /\ th'[t].request = th[t].request
          /\ KeepsDel(t) /\ KeepsFound(t) /\ KeepsOp(t)
      BY <1>1, <1>2, <2>1 DEF Types, ThreadTypes, KeepsUse, KeepsDel, KeepsFound, KeepsOp
    <2>3. /\ Lockable(Found(Op(t).dev))
      BY <1>5, <2>1
    <2>4. ASSUME NEW x \in Exts
          PROVE  /\ KeepsMake(x) /\ KeepsLife(x) /\ KeepsMark(x) /\ KeepsRelations(x)
                 /\ ext'[x].refs = (IF x = Found(Op(t).dev) THEN ext[x].refs + 1 ELSE ext[x].refs)
                 /\ ext'[x].rel = ext[x].rel
                 /\ ext'[x].holders = (IF x = Found(Op(t).dev) THEN ext[x].holders + 1 ELSE ext[x].holders)
                 /\ KeepsClosing(x)
      <3>1. PICK p \in ExtTypes : p = ext[x]
        BY <1>1 DEF Types
      <3> QED
        BY <1>1, <2>1, <3>1 DEF Types, ExtTypes, KeepsMake, KeepsLife, KeepsMark, KeepsRelations, KeepsCounts, KeepsHolders, KeepsClosing
    <2>5. /\ list' = list /\ known' = known /\ broken \subseteq broken'
      BY <1>1, <1>2, <1>5 DEF Types, PnPMajorHookDispatch, At, Goto, Beyond, Starts, Referenced
    <2> QED
      BY <1>3, <2>1, <2>2, <2>3, <2>4, <2>5
  <1> QED
    BY <1>4, <1>5 DEF PnPMajorHookDispatch, At, Goto, Beyond, Starts, Referenced

LEMMA EffectSetPdoState ==
  ASSUME Typed, NEW t \in Threads, SetPdoState(t)
  PROVE  /\ th[t].pc = "hookstate" /\ th[t].del = 0 /\ th'[t].pc = "hooked"
         /\ th'[t].ret = th[t].ret /\ KeepsUse(t) /\ KeepsDel(t) /\ KeepsFound(t) /\ KeepsOp(t)
         /\ \A x \in Exts :
              /\ KeepsMake(x) /\ KeepsLife(x) /\ KeepsMark(x) /\ KeepsRelations(x) /\ KeepsCounts(x)
              /\ KeepsHolders(x) /\ KeepsClosing(x)
         /\ list' = list
         /\ \A k \in Devices \cup Exts : k # Key(th[t].h) => known'[k] = known[k]
         /\ broken \subseteq broken'
  <1>1. Types /\ Standing(t, th[t])
    BY DEF Typed, Control
  <1>2. PICK q \in ThreadTypes : q = th[t]
    BY <1>1 DEF Types
  <1>3. /\ th[t].pc = "hookstate" /\ th[t].del = 0 /\ th'[t].pc = "hooked" /\ th'[t].ret = th[t].ret
        /\ KeepsUse(t) /\ KeepsDel(t) /\ KeepsFound(t) /\ KeepsOp(t)
    BY <1>1, <1>2 DEF Types, ThreadTypes, KeepsUse, KeepsDel, KeepsFound, KeepsOp, SetPdoState, At, Goto, ReportNewDeviceState
  <1>4. ASSUME NEW x \in Exts
        PROVE  /\ KeepsMake(x) /\ KeepsLife(x) /\ KeepsMark(x) /\ KeepsRelations(x)
               /\ KeepsCounts(x) /\ KeepsHolders(x) /\ KeepsClosing(x)
    <2>1. PICK p \in ExtTypes : p = ext[x]
      BY <1>1 DEF Types
    <2> QED
      BY <1>1, <2>1 DEF Types, ExtTypes, KeepsMake, KeepsLife, KeepsMark, KeepsRelations, KeepsCounts, KeepsHolders, KeepsClosing, SetPdoState, At, Goto, ReportNewDeviceState
  <1>5. /\ list' = list
        /\ \A k \in Devices \cup Exts : k # Key(th[t].h) => known'[k] = known[k]
        /\ broken \subseteq broken'
    BY <1>1, <1>2 DEF Types, SetPdoState, At, Goto, ReportNewDeviceState
  <1> QED
    BY <1>3, <1>4, <1>5

LEMMA EffectCallOriginal ==
  ASSUME Typed, NEW t \in Threads, CallOriginal(t)
  PROVE  /\ th[t].pc = "hooked" /\ th[t].del = 0 /\ th'[t].pc = "deref"
         /\ th'[t].ret = (IF Op(t).do = "start" THEN "started" ELSE "cleared") /\ th'[t].x = th[t].h
         /\ th'[t].h = th[t].h /\ th'[t].f = th[t].f /\ th'[t].n = th[t].n
         /\ th'[t].request = th[t].request /\ KeepsDel(t) /\ KeepsFound(t) /\ KeepsOp(t)
         /\ \A x \in Exts :
              /\ KeepsMake(x) /\ KeepsLife(x) /\ KeepsMark(x) /\ KeepsRelations(x) /\ KeepsCounts(x)
              /\ ext'[x].holders = (IF x = th[t].h THEN ext[x].holders - 1 ELSE ext[x].holders)
              /\ KeepsClosing(x)
         /\ list' = list /\ known' = known /\ broken \subseteq broken'
  <1>1. Types /\ Standing(t, th[t])
    BY DEF Typed, Control
  <1>2. PICK q \in ThreadTypes : q = th[t]
    BY <1>1 DEF Types
  <1>3. /\ th[t].pc = "hooked" /\ th[t].del = 0 /\ th'[t].pc = "deref"
        /\ th'[t].ret = (IF Op(t).do = "start" THEN "started" ELSE "cleared") /\ th'[t].x = th[t].h
        /\ th'[t].h = th[t].h /\ th'[t].f = th[t].f /\ th'[t].n = th[t].n
        /\ th'[t].request = th[t].request /\ KeepsDel(t) /\ KeepsFound(t) /\ KeepsOp(t)
    BY <1>1, <1>2 DEF Types, ThreadTypes, KeepsUse, KeepsDel, KeepsFound, KeepsOp, CallOriginal, At, Beyond, Starts, Release
  <1>4. ASSUME NEW x \in Exts
        PROVE  /\ KeepsMake(x) /\ KeepsLife(x) /\ KeepsMark(x) /\ KeepsRelations(x)
               /\ KeepsCounts(x)
               /\ ext'[x].holders = (IF x = th[t].h THEN ext[x].holders - 1 ELSE ext[x].holders)
               /\ KeepsClosing(x)
    <2>1. PICK p \in ExtTypes : p = ext[x]
      BY <1>1 DEF Types
    <2> QED
      BY <1>1, <2>1 DEF Types, ExtTypes, KeepsMake, KeepsLife, KeepsMark, KeepsRelations, KeepsCounts, KeepsHolders, KeepsClosing, CallOriginal, At, Beyond, Starts, Release
  <1>5. /\ list' = list /\ known' = known /\ broken \subseteq broken'
    BY <1>1, <1>2 DEF Types, CallOriginal, At, Beyond, Starts, Release
  <1> QED
    BY <1>3, <1>4, <1>5

LEMMA EffectDriverUnloadHook ==
  ASSUME Typed, NEW t \in Threads, DriverUnloadHook(t)
  PROVE  /\ th[t].pc = "next" /\ th[t].del = 0 /\ th[t].ops # <<>> /\ Op(t).do \in {"unload"}
         /\ th'[t].pc = "done" /\ th'[t].ret = th[t].ret /\ KeepsUse(t) /\ KeepsDel(t)
         /\ KeepsFound(t) /\ KeepsOp(t) /\ ext' = ext /\ list' = list /\ known' = known
         /\ broken \subseteq broken'
  <1>1. Types /\ Standing(t, th[t])
    BY DEF Typed, Control
  <1>2. PICK q \in ThreadTypes : q = th[t]
    BY <1>1 DEF Types
  <1>3. /\ th[t].pc = "next" /\ th[t].del = 0 /\ th[t].ops # <<>> /\ Op(t).do \in {"unload"}
        /\ th'[t].pc = "done" /\ th'[t].ret = th[t].ret /\ KeepsUse(t) /\ KeepsDel(t)
        /\ KeepsFound(t) /\ KeepsOp(t)
    BY <1>1, <1>2 DEF Types, ThreadTypes, KeepsUse, KeepsDel, KeepsFound, KeepsOp, DriverUnloadHook, At, Begins, Op, Goto
  <1>4. ext' = ext
    BY <1>1, <1>2 DEF DriverUnloadHook, At, Begins, Op, Goto
  <1>5. /\ list' = list /\ known' = known /\ broken \subseteq broken'
    BY <1>1, <1>2 DEF Types, DriverUnloadHook, At, Begins, Op, Goto
  <1> QED
    BY <1>3, <1>4, <1>5

LEMMA EffectAddDevice ==
  ASSUME Typed, NEW t \in Threads, AddDevice(t)
  PROVE  /\ th[t].pc = "next" /\ th[t].del = 0 /\ th[t].ops # <<>> /\ Op(t).do \in {"add", "attach"}
         /\ th'[t].pc = (IF FilterOf(Op(t).dev) = {} THEN "find" ELSE "done")
         /\ th'[t].ret = th[t].ret /\ KeepsUse(t) /\ KeepsDel(t) /\ KeepsFound(t) /\ KeepsOp(t)
         /\ ext' = ext /\ list' = list /\ known' = known /\ broken \subseteq broken'
  <1>1. Types /\ Standing(t, th[t])
    BY DEF Typed, Control
  <1>2. PICK q \in ThreadTypes : q = th[t]
    BY <1>1 DEF Types
  <1>3. /\ th[t].pc = "next" /\ th[t].del = 0 /\ th[t].ops # <<>> /\ Op(t).do \in {"add", "attach"}
        /\ th'[t].pc = (IF FilterOf(Op(t).dev) = {} THEN "find" ELSE "done")
        /\ th'[t].ret = th[t].ret /\ KeepsUse(t) /\ KeepsDel(t) /\ KeepsFound(t) /\ KeepsOp(t)
    BY <1>1, <1>2 DEF Types, ThreadTypes, KeepsUse, KeepsDel, KeepsFound, KeepsOp, AddDevice, At, Begins, Op, Goto
  <1>4. ext' = ext
    BY <1>1, <1>2 DEF AddDevice, At, Begins, Op, Goto
  <1>5. /\ list' = list /\ known' = known /\ broken \subseteq broken'
    BY <1>1, <1>2 DEF Types, AddDevice, At, Begins, Op, Goto
  <1> QED
    BY <1>3, <1>4, <1>5

LEMMA EffectAddDeviceFTI ==
  ASSUME Typed, NEW t \in Threads, AddDeviceFTI(t)
  PROVE  /\ th[t].pc = "next" /\ th[t].del = 0 /\ th[t].ops # <<>> /\ Op(t).do \in {"fti"}
         /\ \/ /\ Unused # {} /\ th'[t].pc = "find" /\ th'[t].ret = th[t].ret /\ KeepsUse(t)
               /\ KeepsDel(t) /\ KeepsFound(t) /\ KeepsOp(t) /\ Fresh \in Exts
               /\ ext[Fresh].life = "none"
               /\ \A x \in Exts : x # Fresh => ext'[x] = ext[x]
               /\ ext'[Fresh] = NewVirtual(Op(t).dev) /\ list' = Append(list, Fresh)
               /\ known' = known /\ broken \subseteq broken'
            \/ /\ th'[t].pc = "done" /\ th'[t].ret = th[t].ret /\ KeepsUse(t) /\ KeepsDel(t)
               /\ KeepsFound(t) /\ KeepsOp(t) /\ ext' = ext /\ list' = list /\ known' = known
               /\ broken \subseteq broken'
  <1>1. Types /\ Standing(t, th[t])
    BY DEF Typed, Control
  <1>2. PICK q \in ThreadTypes : q = th[t]
    BY <1>1 DEF Types
  <1>3. /\ th[t].pc = "next" /\ th[t].del = 0 /\ th[t].ops # <<>> /\ Op(t).do \in {"fti"}
    BY <1>1, <1>2 DEF AddDeviceFTI, At, Begins, Op, Goto
  <1>4. CASE FilterOf(Op(t).dev) = {} /\ Unused # {}
    <2>1. /\ th' = [th EXCEPT ![t].pc = "find"]
          /\ ext' = [ext EXCEPT ![Fresh] = NewVirtual(Op(t).dev)]
      BY <1>3, <1>4, Zenon DEF AddDeviceFTI, At, Begins, Op, Goto
    <2>2. /\ th'[t].pc = "find" /\ th'[t].ret = th[t].ret /\ KeepsUse(t) /\ KeepsDel(t)
          /\ KeepsFound(t) /\ KeepsOp(t)
      BY <1>1, <1>2, <2>1 DEF Types, ThreadTypes, KeepsUse, KeepsDel, KeepsFound, KeepsOp
    <2>3. /\ Unused # {}
      BY <1>4, <2>1
    <2>4. Fresh \in Exts /\ ext[Fresh].life = "none"
      BY <1>1, <1>4, FreshIs DEF AddDeviceFTI, At, Begins, Op, Goto
    <2>5. ext' = [ext EXCEPT ![Fresh] = NewVirtual(Op(t).dev)]
      BY <1>4, Zenon DEF AddDeviceFTI, At, Begins, Op, Goto
    <2>6. (\A x \in Exts : x # Fresh => ext'[x] = ext[x]) /\ ext'[Fresh] = NewVirtual(Op(t).dev)
      BY <1>1, <2>4, <2>5 DEF Types
    <2>7. /\ list' = Append(list, Fresh) /\ known' = known /\ broken \subseteq broken'
      BY <1>1, <1>2, <1>4 DEF Types, AddDeviceFTI, At, Begins, Op, Goto
    <2> QED
      BY <1>3, <2>1, <2>2, <2>3, <2>4, <2>5, <2>6, <2>7
  <1>5. CASE ~(FilterOf(Op(t).dev) = {} /\ Unused # {})
    <2>1. /\ th' = [th EXCEPT ![t].pc = "done"] /\ ext' = ext
      BY <1>3, <1>5, Zenon DEF AddDeviceFTI, At, Begins, Op, Goto
    <2>2. /\ th'[t].pc = "done" /\ th'[t].ret = th[t].ret /\ KeepsUse(t) /\ KeepsDel(t)
          /\ KeepsFound(t) /\ KeepsOp(t)
      BY <1>1, <1>2, <2>1 DEF Types, ThreadTypes, KeepsUse, KeepsDel, KeepsFound, KeepsOp
    <2>3. ext' = ext
      BY <2>1
    <2>4. /\ list' = list /\ known' = known /\ broken \subseteq broken'
      BY <1>1, <1>2, <1>5 DEF Types, AddDeviceFTI, At, Begins, Op, Goto
    <2> QED
      BY <1>3, <2>1, <2>2, <2>3, <2>4
  <1> QED
    BY <1>4, <1>5 DEF AddDeviceFTI, At, Begins, Op, Goto

LEMMA EffectFindVirtualPdo ==
  ASSUME Typed, NEW t \in Threads, FindVirtualPdo(t)
  PROVE  /\ th[t].pc = "find" /\ th[t].del = 0
         /\ \/ /\ Lockable(Found(Op(t).dev)) /\ th'[t].pc = "create" /\ th'[t].ret = th[t].ret
               /\ th'[t].x = Found(Op(t).dev) /\ th'[t].h = th[t].h /\ th'[t].f = th[t].f
               /\ th'[t].n = th[t].n /\ th'[t].request = th[t].request /\ KeepsDel(t)
               /\ KeepsFound(t) /\ KeepsOp(t)
               /\ \A x \in Exts :
                    /\ KeepsMake(x) /\ KeepsLife(x) /\ KeepsMark(x) /\ KeepsRelations(x)
                    /\ ext'[x].refs = (IF x = Found(Op(t).dev) THEN ext[x].refs + 1 ELSE ext[x].refs)
                    /\ ext'[x].rel = ext[x].rel
                    /\ ext'[x].holders = (IF x = Found(Op(t).dev) THEN ext[x].holders + 1 ELSE ext[x].holders)
                    /\ KeepsClosing(x)
               /\ list' = list /\ known' = known /\ broken \subseteq broken'
            \/ /\ th'[t].pc = th[t].ret /\ th'[t].ret = th[t].ret /\ KeepsUse(t) /\ KeepsDel(t)
               /\ KeepsFound(t) /\ KeepsOp(t) /\ ext' = ext /\ list' = list /\ known' = known
               /\ broken \subseteq broken'
            \/ /\ th'[t].pc = "virtual" /\ th'[t].ret = th[t].ret /\ KeepsUse(t) /\ KeepsDel(t)
               /\ KeepsFound(t) /\ KeepsOp(t) /\ ext' = ext /\ list' = list /\ known' = known
               /\ broken \subseteq broken'
  <1>1. Types /\ Standing(t, th[t])
    BY DEF Typed, Control
  <1>2. PICK q \in ThreadTypes : q = th[t]
    BY <1>1 DEF Types
  <1>3. /\ th[t].pc = "find" /\ th[t].del = 0
    BY <1>1, <1>2 DEF FindVirtualPdo, At, Goto, Referenced
  <1>4. CASE Lockable(Found(Op(t).dev))
    <2>1. /\ th' = [th EXCEPT ![t].x = Found(Op(t).dev), ![t].pc = "create"]
          /\ ext' = [ext EXCEPT ![Found(Op(t).dev)].refs = @ + 1, ![Found(Op(t).dev)].holders = @ + 1]
      BY <1>3, <1>4, Zenon DEF FindVirtualPdo, At, Goto, Referenced
    <2>2. /\ th'[t].pc = "create" /\ th'[t].ret = th[t].ret /\ th'[t].x = Found(Op(t).dev)
          /\ th'[t].h = th[t].h /\ th'[t].f = th[t].f /\ th'[t].n = th[t].n
          /\ th'[t].request = th[t].request /\ KeepsDel(t) /\ KeepsFound(t) /\ KeepsOp(t)
      BY <1>1, <1>2, <2>1 DEF Types, ThreadTypes, KeepsUse, KeepsDel, KeepsFound, KeepsOp
    <2>3. /\ Lockable(Found(Op(t).dev))
      BY <1>4, <2>1
    <2>4. ASSUME NEW x \in Exts
          PROVE  /\ KeepsMake(x) /\ KeepsLife(x) /\ KeepsMark(x) /\ KeepsRelations(x)
                 /\ ext'[x].refs = (IF x = Found(Op(t).dev) THEN ext[x].refs + 1 ELSE ext[x].refs)
                 /\ ext'[x].rel = ext[x].rel
                 /\ ext'[x].holders = (IF x = Found(Op(t).dev) THEN ext[x].holders + 1 ELSE ext[x].holders)
                 /\ KeepsClosing(x)
      <3>1. PICK p \in ExtTypes : p = ext[x]
        BY <1>1 DEF Types
      <3> QED
        BY <1>1, <2>1, <3>1 DEF Types, ExtTypes, KeepsMake, KeepsLife, KeepsMark, KeepsRelations, KeepsCounts, KeepsHolders, KeepsClosing
    <2>5. /\ list' = list /\ known' = known /\ broken \subseteq broken'
      BY <1>1, <1>2, <1>4 DEF Types, FindVirtualPdo, At, Goto, Referenced
    <2> QED
      BY <1>3, <2>1, <2>2, <2>3, <2>4, <2>5
  <1>5. CASE ~Lockable(Found(Op(t).dev)) /\ th[t].created
    <2>1. /\ th' = [th EXCEPT ![t].pc = th[t].ret] /\ ext' = ext
      BY <1>3, <1>5, Zenon DEF FindVirtualPdo, At, Goto, Referenced
    <2>2. /\ th'[t].pc = th[t].ret /\ th'[t].ret = th[t].ret /\ KeepsUse(t) /\ KeepsDel(t)
          /\ KeepsFound(t) /\ KeepsOp(t)
      BY <1>1, <1>2, <2>1 DEF Types, ThreadTypes, KeepsUse, KeepsDel, KeepsFound, KeepsOp
    <2>3. ext' = ext
      BY <2>1
    <2>4. /\ list' = list /\ known' = known /\ broken \subseteq broken'
      BY <1>1, <1>2, <1>5 DEF Types, FindVirtualPdo, At, Goto, Referenced
    <2> QED
      BY <1>3, <2>1, <2>2, <2>3, <2>4
  <1>6. CASE ~Lockable(Found(Op(t).dev)) /\ ~th[t].created
    <2>1. /\ th' = [th EXCEPT ![t].pc = "virtual"] /\ ext' = ext
      BY <1>3, <1>6, Zenon DEF FindVirtualPdo, At, Goto, Referenced
    <2>2. /\ th'[t].pc = "virtual" /\ th'[t].ret = th[t].ret /\ KeepsUse(t) /\ KeepsDel(t)
          /\ KeepsFound(t) /\ KeepsOp(t)
      BY <1>1, <1>2, <2>1 DEF Types, ThreadTypes, KeepsUse, KeepsDel, KeepsFound, KeepsOp
    <2>3. ext' = ext
      BY <2>1
    <2>4. /\ list' = list /\ known' = known /\ broken \subseteq broken'
      BY <1>1, <1>2, <1>6 DEF Types, FindVirtualPdo, At, Goto, Referenced
    <2> QED
      BY <1>3, <2>1, <2>2, <2>3, <2>4
  <1> QED
    BY <1>4, <1>5, <1>6 DEF FindVirtualPdo, At, Goto, Referenced

LEMMA EffectAddVirtualDeviceForPdo ==
  ASSUME Typed, NEW t \in Threads, AddVirtualDeviceForPdo(t)
  PROVE  /\ th[t].pc = "virtual" /\ th[t].del = 0
         /\ \/ /\ th'[t].pc = th[t].ret /\ th'[t].ret = th[t].ret /\ KeepsUse(t) /\ KeepsDel(t)
               /\ KeepsFound(t) /\ KeepsOp(t) /\ ext' = ext /\ list' = list /\ known' = known
               /\ broken \subseteq broken'
            \/ /\ Unused # {} /\ th'[t].pc = "find" /\ th'[t].ret = th[t].ret /\ KeepsUse(t)
               /\ KeepsDel(t) /\ KeepsFound(t) /\ KeepsOp(t) /\ Fresh \in Exts
               /\ ext[Fresh].life = "none"
               /\ \A x \in Exts : x # Fresh => ext'[x] = ext[x]
               /\ ext'[Fresh] = NewVirtual(Op(t).dev) /\ list' = Append(list, Fresh)
               /\ known' = known /\ broken \subseteq broken'
  <1>1. Types /\ Standing(t, th[t])
    BY DEF Typed, Control
  <1>2. PICK q \in ThreadTypes : q = th[t]
    BY <1>1 DEF Types
  <1>3. /\ th[t].pc = "virtual" /\ th[t].del = 0
    BY <1>1, <1>2 DEF AddVirtualDeviceForPdo, At, Goto
  <1>4. CASE th' = [th EXCEPT ![t].pc = th[t].ret] /\ UNCHANGED <<ext, list>>
    <2>1. /\ th'[t].pc = th[t].ret /\ th'[t].ret = th[t].ret /\ KeepsUse(t) /\ KeepsDel(t)
          /\ KeepsFound(t) /\ KeepsOp(t)
      BY <1>1, <1>2, <1>4 DEF Types, ThreadTypes, KeepsUse, KeepsDel, KeepsFound, KeepsOp, AddVirtualDeviceForPdo, At, Goto
    <2>2. ext' = ext
      BY <1>1, <1>2, <1>4 DEF AddVirtualDeviceForPdo, At, Goto
    <2>3. /\ list' = list /\ known' = known /\ broken \subseteq broken'
      BY <1>1, <1>2, <1>4 DEF Types, AddVirtualDeviceForPdo, At, Goto
    <2> QED
      BY <1>3, <2>1, <2>2, <2>3
  <1>5. CASE /\ Unused # {} /\ ext' = [ext EXCEPT ![Fresh] = NewVirtual(Op(t).dev)] /\ list' = Append(list, Fresh)
             /\ th' = [th EXCEPT ![t].created = TRUE, ![t].pc = "find"]
    <2>1. /\ Unused # {} /\ th'[t].pc = "find" /\ th'[t].ret = th[t].ret /\ KeepsUse(t)
          /\ KeepsDel(t) /\ KeepsFound(t) /\ KeepsOp(t)
      BY <1>1, <1>2, <1>5 DEF Types, ThreadTypes, KeepsUse, KeepsDel, KeepsFound, KeepsOp, AddVirtualDeviceForPdo, At, Goto
    <2>2. Fresh \in Exts /\ ext[Fresh].life = "none"
      BY <1>1, <1>5, FreshIs DEF AddVirtualDeviceForPdo, At, Goto
    <2>3. ext' = [ext EXCEPT ![Fresh] = NewVirtual(Op(t).dev)]
      BY <1>5, Zenon DEF AddVirtualDeviceForPdo, At, Goto
    <2>4. (\A x \in Exts : x # Fresh => ext'[x] = ext[x]) /\ ext'[Fresh] = NewVirtual(Op(t).dev)
      BY <1>1, <2>2, <2>3 DEF Types
    <2>5. /\ list' = Append(list, Fresh) /\ known' = known /\ broken \subseteq broken'
      BY <1>1, <1>2, <1>5 DEF Types, AddVirtualDeviceForPdo, At, Goto
    <2> QED
      BY <1>3, <2>1, <2>2, <2>3, <2>4, <2>5
  <1> QED
    BY <1>4, <1>5 DEF AddVirtualDeviceForPdo, At, Goto

LEMMA EffectAddFails ==
  ASSUME Typed, NEW t \in Threads, AddFails(t)
  PROVE  /\ th[t].pc = "create" /\ th[t].del = 0
         /\ th'[t].pc = (IF th[t].created THEN "delete" ELSE "deref") /\ th'[t].ret = th[t].ret
         /\ KeepsUse(t) /\ KeepsDel(t) /\ KeepsFound(t) /\ KeepsOp(t)
         /\ \A x \in Exts :
              /\ KeepsMake(x) /\ KeepsLife(x) /\ KeepsMark(x) /\ KeepsRelations(x) /\ KeepsCounts(x)
              /\ ext'[x].holders = (IF x = th[t].x THEN ext[x].holders - 1 ELSE ext[x].holders)
              /\ KeepsClosing(x)
         /\ list' = list /\ known' = known /\ broken \subseteq broken'
  <1>1. Types /\ Standing(t, th[t])
    BY DEF Typed, Control
  <1>2. PICK q \in ThreadTypes : q = th[t]
    BY <1>1 DEF Types
  <1>3. /\ th[t].pc = "create" /\ th[t].del = 0
        /\ th'[t].pc = (IF th[t].created THEN "delete" ELSE "deref") /\ th'[t].ret = th[t].ret
        /\ KeepsUse(t) /\ KeepsDel(t) /\ KeepsFound(t) /\ KeepsOp(t)
    BY <1>1, <1>2 DEF Types, ThreadTypes, KeepsUse, KeepsDel, KeepsFound, KeepsOp, AddFails, At, Goto, Release
  <1>4. ASSUME NEW x \in Exts
        PROVE  /\ KeepsMake(x) /\ KeepsLife(x) /\ KeepsMark(x) /\ KeepsRelations(x)
               /\ KeepsCounts(x)
               /\ ext'[x].holders = (IF x = th[t].x THEN ext[x].holders - 1 ELSE ext[x].holders)
               /\ KeepsClosing(x)
    <2>1. PICK p \in ExtTypes : p = ext[x]
      BY <1>1 DEF Types
    <2> QED
      BY <1>1, <2>1 DEF Types, ExtTypes, KeepsMake, KeepsLife, KeepsMark, KeepsRelations, KeepsCounts, KeepsHolders, KeepsClosing, AddFails, At, Goto, Release
  <1>5. /\ list' = list /\ known' = known /\ broken \subseteq broken'
    BY <1>1, <1>2 DEF Types, AddFails, At, Goto, Release
  <1> QED
    BY <1>3, <1>4, <1>5

LEMMA EffectAttachFilterDevice ==
  ASSUME Typed, NEW t \in Threads, AttachFilterDevice(t)
  PROVE  /\ th[t].pc = "create" /\ th[t].del = 0 /\ Unused # {} /\ th'[t].pc = "report"
         /\ th'[t].ret = th[t].ret /\ th'[t].x = th[t].x /\ th'[t].h = th[t].h /\ th'[t].f = th[t].f
         /\ th'[t].n = Fresh /\ th'[t].request = th[t].request /\ KeepsDel(t) /\ KeepsFound(t)
         /\ KeepsOp(t) /\ Fresh \in Exts /\ ext[Fresh].life = "none"
         /\ \A x \in Exts : x # Fresh =>
             /\ KeepsMake(x) /\ KeepsLife(x) /\ KeepsMark(x) /\ KeepsRelations(x) /\ KeepsHolders(x) /\ KeepsClosing(x)
             /\ ext'[x].refs = (IF x = th[t].x THEN ext[x].refs + 1 ELSE ext[x].refs) /\ ext'[x].rel = (IF x = th[t].x THEN ext[x].rel + 1 ELSE ext[x].rel)
         /\ ext'[Fresh] = [Added(Op(t).dev, "filter") EXCEPT !.vpdo = th[t].x] /\ list' = list
         /\ known' = known /\ broken \subseteq broken'
  <1>1. Types /\ Standing(t, th[t])
    BY DEF Typed, Control
  <1>2. PICK q \in ThreadTypes : q = th[t]
    BY <1>1 DEF Types
  <1>3. /\ th[t].pc = "create" /\ th[t].del = 0 /\ Unused # {} /\ th'[t].pc = "report"
        /\ th'[t].ret = th[t].ret /\ th'[t].x = th[t].x /\ th'[t].h = th[t].h /\ th'[t].f = th[t].f
        /\ th'[t].n = Fresh /\ th'[t].request = th[t].request /\ KeepsDel(t) /\ KeepsFound(t)
        /\ KeepsOp(t)
    BY <1>1, <1>2 DEF Types, ThreadTypes, KeepsUse, KeepsDel, KeepsFound, KeepsOp, AttachFilterDevice, At
  <1>4. Fresh \in Exts /\ ext[Fresh].life = "none"
    BY <1>1, FreshIs DEF AttachFilterDevice, At
  <1>5. ext'[Fresh] = [Added(Op(t).dev, "filter") EXCEPT !.vpdo = th[t].x]
    BY <1>1, <1>4 DEF Types, AttachFilterDevice
  <1>6. ASSUME NEW x \in Exts, x # Fresh
        PROVE  /\ KeepsMake(x) /\ KeepsLife(x) /\ KeepsMark(x) /\ KeepsRelations(x)
               /\ ext'[x].refs = (IF x = th[t].x THEN ext[x].refs + 1 ELSE ext[x].refs)
               /\ ext'[x].rel = (IF x = th[t].x THEN ext[x].rel + 1 ELSE ext[x].rel)
               /\ KeepsHolders(x) /\ KeepsClosing(x)
    <2>1. PICK p \in ExtTypes : p = ext[x]
      BY <1>1 DEF Types
    <2> QED
      BY <1>1, <1>4, <1>6, <2>1 DEF Types, ExtTypes, KeepsMake, KeepsLife, KeepsMark, KeepsRelations, KeepsCounts, KeepsHolders, KeepsClosing, AttachFilterDevice
  <1>7. /\ list' = list /\ known' = known /\ broken \subseteq broken'
    BY <1>1, <1>2 DEF Types, AttachFilterDevice, At
  <1> QED
    BY <1>3, <1>4, <1>5, <1>6, <1>7

LEMMA EffectReportAddedDevice ==
  ASSUME Typed, NEW t \in Threads, ReportAddedDevice(t)
  PROVE  /\ th[t].pc = "report" /\ th[t].del = 0 /\ th'[t].pc = "insert" /\ th'[t].ret = th[t].ret
         /\ KeepsUse(t) /\ KeepsDel(t) /\ KeepsFound(t) /\ KeepsOp(t) /\ ext' = ext /\ list' = list
         /\ known' = [k \in DOMAIN known |-> IF k \in {Key(th[t].n), ext[th[t].n].dev} THEN New(k) ELSE known[k]]
         /\ broken \subseteq broken'
  <1>1. Types /\ Standing(t, th[t])
    BY DEF Typed, Control
  <1>2. PICK q \in ThreadTypes : q = th[t]
    BY <1>1 DEF Types
  <1>3. /\ th[t].pc = "report" /\ th[t].del = 0 /\ th'[t].pc = "insert" /\ th'[t].ret = th[t].ret
        /\ KeepsUse(t) /\ KeepsDel(t) /\ KeepsFound(t) /\ KeepsOp(t)
    BY <1>1, <1>2 DEF Types, ThreadTypes, KeepsUse, KeepsDel, KeepsFound, KeepsOp, ReportAddedDevice, At, Goto, ReportNewDevice
  <1>4. ext' = ext
    BY <1>1, <1>2 DEF ReportAddedDevice, At, Goto, ReportNewDevice
  <1>5. /\ list' = list
        /\ known' = [k \in DOMAIN known |-> IF k \in {Key(th[t].n), ext[th[t].n].dev} THEN New(k) ELSE known[k]]
        /\ broken \subseteq broken'
    BY <1>1, <1>2 DEF Types, ReportAddedDevice, At, Goto, ReportNewDevice
  <1> QED
    BY <1>3, <1>4, <1>5

LEMMA EffectInsertInList ==
  ASSUME Typed, NEW t \in Threads, InsertInList(t)
  PROVE  /\ th[t].pc = "insert" /\ th[t].del = 0 /\ th'[t].pc = "added" /\ th'[t].ret = th[t].ret
         /\ KeepsUse(t) /\ KeepsDel(t) /\ KeepsFound(t) /\ KeepsOp(t) /\ ext' = ext
         /\ list' = Append(list, th[t].n) /\ known' = known /\ broken \subseteq broken'
  <1>1. Types /\ Standing(t, th[t])
    BY DEF Typed, Control
  <1>2. PICK q \in ThreadTypes : q = th[t]
    BY <1>1 DEF Types
  <1>3. /\ th[t].pc = "insert" /\ th[t].del = 0 /\ th'[t].pc = "added" /\ th'[t].ret = th[t].ret
        /\ KeepsUse(t) /\ KeepsDel(t) /\ KeepsFound(t) /\ KeepsOp(t)
    BY <1>1, <1>2 DEF Types, ThreadTypes, KeepsUse, KeepsDel, KeepsFound, KeepsOp, InsertInList, At, Goto
  <1>4. ext' = ext
    BY <1>1, <1>2 DEF InsertInList, At, Goto
  <1>5. /\ list' = Append(list, th[t].n) /\ known' = known /\ broken \subseteq broken'
    BY <1>1, <1>2 DEF Types, InsertInList, At, Goto
  <1> QED
    BY <1>3, <1>4, <1>5

LEMMA EffectAddedDevice ==
  ASSUME Typed, NEW t \in Threads, AddedDevice(t)
  PROVE  /\ th[t].pc = "added" /\ th[t].del = 0 /\ th'[t].pc = "deref" /\ th'[t].ret = th[t].ret
         /\ KeepsUse(t) /\ KeepsDel(t) /\ KeepsFound(t) /\ KeepsOp(t)
         /\ \A x \in Exts :
              /\ KeepsMake(x) /\ KeepsLife(x) /\ KeepsMark(x) /\ KeepsRelations(x) /\ KeepsCounts(x)
              /\ ext'[x].holders = (IF x = th[t].x THEN ext[x].holders - 1 ELSE ext[x].holders)
              /\ KeepsClosing(x)
         /\ list' = list
         /\ \A k \in Devices \cup Exts : k # Key(th[t].n) => known'[k] = known[k]
         /\ broken \subseteq broken'
  <1>1. Types /\ Standing(t, th[t])
    BY DEF Typed, Control
  <1>2. PICK q \in ThreadTypes : q = th[t]
    BY <1>1 DEF Types
  <1>3. /\ th[t].pc = "added" /\ th[t].del = 0 /\ th'[t].pc = "deref" /\ th'[t].ret = th[t].ret
        /\ KeepsUse(t) /\ KeepsDel(t) /\ KeepsFound(t) /\ KeepsOp(t)
    BY <1>1, <1>2 DEF Types, ThreadTypes, KeepsUse, KeepsDel, KeepsFound, KeepsOp, AddedDevice, At, Goto, Release, ReportNewDeviceState
  <1>4. ASSUME NEW x \in Exts
        PROVE  /\ KeepsMake(x) /\ KeepsLife(x) /\ KeepsMark(x) /\ KeepsRelations(x)
               /\ KeepsCounts(x)
               /\ ext'[x].holders = (IF x = th[t].x THEN ext[x].holders - 1 ELSE ext[x].holders)
               /\ KeepsClosing(x)
    <2>1. PICK p \in ExtTypes : p = ext[x]
      BY <1>1 DEF Types
    <2>2. CASE ext' = [ext EXCEPT ![th[t].x].holders = @ - 1, ![th[t].n].state = "Started"]
      BY <1>1, <2>1, <2>2 DEF Types, ExtTypes, KeepsMake, KeepsLife, KeepsMark, KeepsRelations, KeepsCounts, KeepsHolders, KeepsClosing
    <2>3. CASE ext' = [ext EXCEPT ![th[t].x].holders = @ - 1]
      BY <1>1, <2>1, <2>3 DEF Types, ExtTypes, KeepsMake, KeepsLife, KeepsMark, KeepsRelations, KeepsCounts, KeepsHolders, KeepsClosing
    <2> QED
      BY <2>2, <2>3, Zenon DEF AddedDevice, Release
  <1>5. /\ list' = list
        /\ \A k \in Devices \cup Exts : k # Key(th[t].n) => known'[k] = known[k]
        /\ broken \subseteq broken'
    <2>1. list' = list /\ broken' = broken
      BY DEF AddedDevice
    <2>2. known' = [known EXCEPT ![Key(th[t].n)] = "Started"] \/ known' = known
      BY Zenon DEF AddedDevice, ReportNewDeviceState
    <2>3. \A k \in Devices \cup Exts : k # Key(th[t].n) => known'[k] = known[k]
      BY <1>1, <2>2 DEF Types
    <2> QED
      BY <2>1, <2>3
  <1> QED
    BY <1>3, <1>4, <1>5

LEMMA EffectReportExisitingDevices ==
  ASSUME Typed, NEW t \in Threads, ReportExisitingDevices(t)
  PROVE  /\ th[t].pc = "next" /\ th[t].del = 0 /\ th[t].ops # <<>> /\ Op(t).do \in {"report"}
         /\ th'[t].pc = "walk" /\ th'[t].ret = th[t].ret /\ KeepsUse(t) /\ KeepsDel(t)
         /\ KeepsFound(t) /\ KeepsOp(t) /\ ext' = ext /\ list' = list /\ known' = known
         /\ broken \subseteq broken'
  <1>1. Types /\ Standing(t, th[t])
    BY DEF Typed, Control
  <1>2. PICK q \in ThreadTypes : q = th[t]
    BY <1>1 DEF Types
  <1>3. /\ th[t].pc = "next" /\ th[t].del = 0 /\ th[t].ops # <<>> /\ Op(t).do \in {"report"}
        /\ th'[t].pc = "walk" /\ th'[t].ret = th[t].ret /\ KeepsUse(t) /\ KeepsDel(t)
        /\ KeepsFound(t) /\ KeepsOp(t)
    BY <1>1, <1>2 DEF Types, ThreadTypes, KeepsUse, KeepsDel, KeepsFound, KeepsOp, ReportExisitingDevices, At, Begins, Op, Goto
  <1>4. ext' = ext
    BY <1>1, <1>2 DEF ReportExisitingDevices, At, Begins, Op, Goto
  <1>5. /\ list' = list /\ known' = known /\ broken \subseteq broken'
    BY <1>1, <1>2 DEF Types, ReportExisitingDevices, At, Begins, Op, Goto
  <1> QED
    BY <1>3, <1>4, <1>5

LEMMA EffectNextReportedDevice ==
  ASSUME Typed, NEW t \in Threads, NextReportedDevice(t)
  PROVE  /\ th[t].pc = "walk" /\ th[t].del = 0 /\ th'[t].ret = th[t].ret
         /\ th'[t].x = th[t].x /\ th'[t].h = th[t].h /\ th'[t].f = th[t].f /\ th'[t].n = th[t].n
         /\ KeepsDel(t) /\ KeepsFound(t) /\ KeepsOp(t)
         /\ list' = list /\ known' = known /\ broken \subseteq broken'
         /\ \A x \in Exts : /\ KeepsMake(x) /\ KeepsLife(x) /\ KeepsMark(x) /\ KeepsRelations(x)
                            /\ KeepsCounts(x) /\ KeepsClosing(x)
         /\ \/ /\ th'[t].pc \in {"crash", "done"} /\ th'[t].request = th[t].request
               /\ \A x \in Exts : ext'[x].holders = (IF x = th[t].request THEN ext[x].holders - 1 ELSE ext[x].holders)
            \/ \E next \in Exts :
                 /\ Listed(next) /\ ~ext[next].closing
                 /\ th'[t].pc = "tell" /\ th'[t].request = next
                 /\ \A x \in Exts : ext'[x].holders = ext[x].holders - (IF x = th[t].request THEN 1 ELSE 0)
                                                      + (IF x = next THEN 1 ELSE 0)
  <1>1. Types /\ Standing(t, th[t])
    BY DEF Typed, Control
  <1>2. PICK q \in ThreadTypes : q = th[t]
    BY <1>1 DEF Types
  <1>3. PICK free \in [Exts -> ExtTypes] : free = IF th[t].request = 0 THEN ext ELSE [ext EXCEPT ![th[t].request].holders = @ - 1]
    BY <1>1, ExtUpdates, Zenon DEF Types
  <1>4. th[t].pc = "walk" /\ th[t].del = 0
    BY DEF NextReportedDevice, At
  <1>5. list' = list /\ known' = known /\ broken \subseteq broken'
    BY DEF NextReportedDevice
  <1>6. ASSUME NEW x \in Exts
        PROVE  /\ free[x].kind = ext[x].kind /\ free[x].dev = ext[x].dev /\ free[x].vpdo = ext[x].vpdo
               /\ free[x].life = ext[x].life /\ free[x].marked = ext[x].marked
               /\ free[x].rels = ext[x].rels /\ free[x].shadow = ext[x].shadow
               /\ free[x].refs = ext[x].refs /\ free[x].rel = ext[x].rel /\ free[x].closing = ext[x].closing
               /\ free[x].holders = (IF x = th[t].request THEN ext[x].holders - 1 ELSE ext[x].holders)
    <2>1. PICK p \in ExtTypes : p = ext[x]
      BY <1>1 DEF Types
    <2>2. x # 0
      BY Numerals
    <2> QED
      BY <1>1, <1>3, <2>1, <2>2 DEF Types, ExtTypes
  <1>7. CASE ext' = free /\ (th' = [th EXCEPT ![t].pc = "crash"] \/ th' = [th EXCEPT ![t].pc = "done"])
    <2>1. /\ th'[t].pc \in {"crash", "done"} /\ th'[t].ret = th[t].ret
          /\ KeepsUse(t) /\ KeepsDel(t) /\ KeepsFound(t) /\ KeepsOp(t)
      <3>1. ASSUME NEW pc, th' = [th EXCEPT ![t].pc = pc]
            PROVE  /\ th'[t].pc = pc /\ th'[t].ret = th[t].ret
                   /\ KeepsUse(t) /\ KeepsDel(t) /\ KeepsFound(t) /\ KeepsOp(t)
        BY <1>1, <1>2, <3>1 DEF Types, ThreadTypes, KeepsUse, KeepsDel, KeepsFound, KeepsOp
      <3> QED
        BY <1>7, <3>1
    <2>2. \A x \in Exts : /\ KeepsMake(x) /\ KeepsLife(x) /\ KeepsMark(x) /\ KeepsRelations(x)
                          /\ KeepsCounts(x) /\ KeepsClosing(x)
      BY <1>6, <1>7 DEF KeepsMake, KeepsLife, KeepsMark, KeepsRelations, KeepsCounts, KeepsClosing
    <2>3. \A x \in Exts : ext'[x].holders = (IF x = th[t].request THEN ext[x].holders - 1 ELSE ext[x].holders)
      BY <1>6, <1>7
    <2> QED
      BY <1>4, <1>5, <2>1, <2>2, <2>3 DEF KeepsUse
  <1>8. CASE ~(ext' = free /\ (th' = [th EXCEPT ![t].pc = "crash"] \/ th' = [th EXCEPT ![t].pc = "done"]))
    <2> DEFINE places == {i \in DOMAIN list : i >= Behind(th[t].request) /\ Lockable(list[i])}
               next == list[FirstOf(places)]
    <2>1. /\ places # {}
          /\ ext' = [free EXCEPT ![next].holders = @ + 1]
          /\ th' = [th EXCEPT ![t].request = next, ![t].pc = "tell"]
      BY <1>3, <1>8, Zenon DEF NextReportedDevice, Goto, FirstOf
    <2>2. places \in SUBSET (1..Len(list)) /\ Len(list) \in Nat /\ list \in Seq(Exts)
      BY <1>1 DEF Types
    <2>3. FirstOf(places) \in places
      BY <2>1, <2>2, FirstPlace DEF FirstOf
    <2>4. next \in Exts /\ Listed(next) /\ ~ext[next].closing
      <3>1. PICK i : i = FirstOf(places) /\ i \in DOMAIN list /\ Lockable(list[i])
        BY <2>3
      <3>2. next = list[i]
        BY <3>1
      <3> HIDE DEF next, places
      <3>3. next \in Exts /\ Listed(next)
        BY <2>2, <3>1, <3>2 DEF Listed
      <3> QED
        BY <3>1, <3>2, <3>3 DEF Lockable
    <2> HIDE DEF next, places
    <2>5. /\ th'[t].pc = "tell" /\ th'[t].ret = th[t].ret /\ th'[t].request = next
          /\ th'[t].x = th[t].x /\ th'[t].h = th[t].h /\ th'[t].f = th[t].f /\ th'[t].n = th[t].n
          /\ KeepsDel(t) /\ KeepsFound(t) /\ KeepsOp(t)
      BY <1>1, <1>2, <2>1 DEF Types, ThreadTypes, KeepsUse, KeepsDel, KeepsFound, KeepsOp
    <2>6. ASSUME NEW x \in Exts
          PROVE  /\ KeepsMake(x) /\ KeepsLife(x) /\ KeepsMark(x) /\ KeepsRelations(x)
                 /\ KeepsCounts(x) /\ KeepsClosing(x)
                 /\ ext'[x].holders = (IF x = next THEN free[x].holders + 1 ELSE free[x].holders)
      <3>1. PICK p \in ExtTypes : p = free[x]
        OBVIOUS
      <3> QED
        BY <1>6, <2>1, <3>1 DEF ExtTypes, KeepsMake, KeepsLife, KeepsMark, KeepsRelations, KeepsCounts, KeepsClosing
    <2>7. ASSUME NEW x \in Exts
          PROVE  ext'[x].holders = ext[x].holders - (IF x = th[t].request THEN 1 ELSE 0) + (IF x = next THEN 1 ELSE 0)
      <3>1. ext[x].holders \in Int
        BY <1>1, ExtNumbers DEF Types
      <3> QED
        BY <1>6, <2>6, <3>1
    <2> QED
      BY <1>4, <1>5, <2>4, <2>5, <2>6, <2>7
  <1> QED
    BY <1>7, <1>8

LEMMA EffectReportExistingDevice ==
  ASSUME Typed, NEW t \in Threads, ReportExistingDevice(t)
  PROVE  /\ th[t].pc = "tell" /\ th[t].del = 0 /\ th'[t].pc = "read" /\ th'[t].ret = th[t].ret
         /\ KeepsUse(t) /\ KeepsDel(t) /\ KeepsFound(t) /\ KeepsOp(t) /\ ext' = ext /\ list' = list
         /\ known' = [k \in DOMAIN known |-> IF k \in {Key(th[t].request), ext[th[t].request].dev} THEN New(k) ELSE known[k]]
         /\ broken \subseteq broken'
  <1>1. Types /\ Standing(t, th[t])
    BY DEF Typed, Control
  <1>2. PICK q \in ThreadTypes : q = th[t]
    BY <1>1 DEF Types
  <1>3. /\ th[t].pc = "tell" /\ th[t].del = 0 /\ th'[t].pc = "read" /\ th'[t].ret = th[t].ret
        /\ KeepsUse(t) /\ KeepsDel(t) /\ KeepsFound(t) /\ KeepsOp(t)
    BY <1>1, <1>2 DEF Types, ThreadTypes, KeepsUse, KeepsDel, KeepsFound, KeepsOp, ReportExistingDevice, At, Goto, ReportNewDevice
  <1>4. ext' = ext
    BY <1>1, <1>2 DEF ReportExistingDevice, At, Goto, ReportNewDevice
  <1>5. /\ list' = list
        /\ known' = [k \in DOMAIN known |-> IF k \in {Key(th[t].request), ext[th[t].request].dev} THEN New(k) ELSE known[k]]
        /\ broken \subseteq broken'
    BY <1>1, <1>2 DEF Types, ReportExistingDevice, At, Goto, ReportNewDevice
  <1> QED
    BY <1>3, <1>4, <1>5

LEMMA EffectReadState ==
  ASSUME Typed, NEW t \in Threads, ReadState(t)
  PROVE  /\ th[t].pc = "read" /\ th[t].del = 0 /\ th'[t].pc = "state" /\ th'[t].ret = th[t].ret
         /\ KeepsUse(t) /\ KeepsDel(t) /\ KeepsFound(t) /\ KeepsOp(t) /\ ext' = ext /\ list' = list
         /\ known' = known /\ broken \subseteq broken'
  <1>1. Types /\ Standing(t, th[t])
    BY DEF Typed, Control
  <1>2. PICK q \in ThreadTypes : q = th[t]
    BY <1>1 DEF Types
  <1>3. /\ th[t].pc = "read" /\ th[t].del = 0 /\ th'[t].pc = "state" /\ th'[t].ret = th[t].ret
        /\ KeepsUse(t) /\ KeepsDel(t) /\ KeepsFound(t) /\ KeepsOp(t)
    BY <1>1, <1>2 DEF Types, ThreadTypes, KeepsUse, KeepsDel, KeepsFound, KeepsOp, ReadState, At
  <1>4. ext' = ext
    BY <1>1, <1>2 DEF ReadState, At
  <1>5. /\ list' = list /\ known' = known /\ broken \subseteq broken'
    BY <1>1, <1>2 DEF Types, ReadState, At
  <1> QED
    BY <1>3, <1>4, <1>5

LEMMA EffectReportExistingState ==
  ASSUME Typed, NEW t \in Threads, ReportExistingState(t)
  PROVE  /\ th[t].pc = "state" /\ th[t].del = 0 /\ th'[t].pc = "walk" /\ th'[t].ret = th[t].ret
         /\ KeepsUse(t) /\ KeepsDel(t) /\ KeepsFound(t) /\ KeepsOp(t) /\ ext' = ext /\ list' = list
         /\ \A k \in Devices \cup Exts : k # Key(th[t].request) => known'[k] = known[k]
         /\ broken \subseteq broken'
  <1>1. Types /\ Standing(t, th[t])
    BY DEF Typed, Control
  <1>2. PICK q \in ThreadTypes : q = th[t]
    BY <1>1 DEF Types
  <1>3. /\ th[t].pc = "state" /\ th[t].del = 0 /\ th'[t].pc = "walk" /\ th'[t].ret = th[t].ret
        /\ KeepsUse(t) /\ KeepsDel(t) /\ KeepsFound(t) /\ KeepsOp(t)
    BY <1>1, <1>2 DEF Types, ThreadTypes, KeepsUse, KeepsDel, KeepsFound, KeepsOp, ReportExistingState, At, Goto, ReportNewDeviceState
  <1>4. ext' = ext
    BY <1>1, <1>2 DEF ReportExistingState, At, Goto, ReportNewDeviceState
  <1>5. /\ list' = list
        /\ \A k \in Devices \cup Exts : k # Key(th[t].request) => known'[k] = known[k]
        /\ broken \subseteq broken'
    BY <1>1, <1>2 DEF Types, ReportExistingState, At, Goto, ReportNewDeviceState
  <1> QED
    BY <1>3, <1>4, <1>5


-----------------------------------------------------------------------------
(* What is pointed to *)

LEMMA Still ==
  ASSUME ext' = ext
  PROVE  \A x \in Exts : /\ KeepsMake(x) /\ KeepsLife(x) /\ KeepsMark(x) /\ KeepsRelations(x)
                         /\ KeepsCounts(x) /\ KeepsHolders(x) /\ KeepsClosing(x)
  BY DEF KeepsMake, KeepsLife, KeepsMark, KeepsRelations, KeepsCounts, KeepsHolders, KeepsClosing

LEMMA ListedMoves ==
  ASSUME Typed, NEW x
  PROVE  /\ list' = list => (Listed(x)' <=> Listed(x))
         /\ \A y : list' = Without(y) => (Listed(x)' => Listed(x)) /\ (Order /\ x = y => ~Listed(x)')
         /\ \A y \in Exts : list' = Append(list, y) => (Listed(x)' <=> Listed(x) \/ x = y)
  <1>1. list \in Seq(Exts)
    BY DEF Typed, Types
  <1>2. list' = list => (Listed(x)' <=> Listed(x))
    BY DEF Listed
  <1>3. ASSUME NEW y, list' = Without(y)
        PROVE  (Listed(x)' => Listed(x)) /\ (Order /\ x = y => ~Listed(x)')
    BY <1>1, <1>3, WithoutIs DEF Listed
  <1>4. ASSUME NEW y \in Exts, list' = Append(list, y)
        PROVE  Listed(x)' <=> Listed(x) \/ x = y
    <2>1. /\ Len(list) \in Nat /\ DOMAIN list = 1..Len(list) /\ DOMAIN list' = 1..Len(list) + 1
          /\ list'[Len(list) + 1] = y /\ \A i \in 1..Len(list) : list'[i] = list[i]
      BY <1>1, <1>4
    <2>2. \A i \in 1..Len(list) + 1 : i = Len(list) + 1 \/ i \in 1..Len(list)
      BY <2>1
    <2>3. Len(list) + 1 \in 1..Len(list) + 1 /\ \A i \in 1..Len(list) : i \in 1..Len(list) + 1
      BY <2>1
    <2> QED
      BY <2>1, <2>2, <2>3 DEF Listed
  <1> QED
    BY <1>2, <1>3, <1>4

\* What has been made is not unmade.
Settled == \A x \in Exts : Made(x) => KeepsMake(x) /\ ext'[x].life # "none"

LEMMA KindsStay ==
  ASSUME Settled
  PROVE  /\ \A x \in Exts : /\ Made(x) => Made(x)'
                            /\ Physical(x) => Physical(x)'
                            /\ Filter(x) => Filter(x)'
         /\ \A seq \in Seq(Exts) : Pdos(seq) => Pdos(seq)'
         /\ \A ptr \in Shadows : Related(ptr) => Related(ptr)'
  <1>1. \A x \in Exts : Made(x) => Made(x)' /\ (Virtual(x)' <=> Virtual(x)) /\ ext'[x].kind = ext[x].kind
    BY DEF Settled, Made, Virtual, KeepsMake
  <1>2. \A seq \in Seq(Exts) : Pdos(seq) => Pdos(seq)'
    <2> TAKE seq \in Seq(Exts)
    <2>1. \A i \in DOMAIN seq : seq[i] \in Exts
      OBVIOUS
    <2> QED
      BY <1>1, <2>1 DEF Pdos
  <1>3. \A ptr \in Shadows : Related(ptr) => Related(ptr)'
    BY <1>2 DEF Related, Shadows
  <1> QED
    BY <1>1, <1>2, <1>3 DEF Physical, Filter

\* What a thread points to, before and after a step.
Numbers6(q) == {q.x, q.h, q.del, q.f, q.n, q.request}
LEMMA PointersTyped ==
  ASSUME NEW q \in ThreadTypes
  PROVE  /\ \A x \in Numbers6(q) : x # 0 => x \in Exts
         /\ q.shadow \in Shadows /\ q.new \in Shadows /\ q.todo \in Seq(Exts)
  <1>1. \A x \in Numbers6(q) : x \in 0..MaxExts
    BY DEF ThreadTypes, Numbers6
  <1>2. q.shadow \in Shadows /\ q.new \in Shadows /\ q.todo \in Seq(Exts)
    BY DEF ThreadTypes
  <1> QED
    BY <1>1, <1>2, Numerals

\* The same thread, or one that points to what is of the kind already.
Leads(t) ==
  /\ th'[t].x = th[t].x \/ th'[t].x = 0 \/ Physical(th'[t].x)
  /\ th'[t].h = th[t].h \/ th'[t].h = 0 \/ Physical(th'[t].h)
  /\ th'[t].del = th[t].del \/ th'[t].del = 0 \/ Physical(th'[t].del)
  /\ th'[t].f = th[t].f \/ th'[t].f = 0 \/ Filter(th'[t].f)
  /\ th'[t].n = th[t].n \/ th'[t].n = 0 \/ Filter(th'[t].n) \/ Filter(th[t].n)'
  /\ th'[t].request = th[t].request \/ th'[t].request = 0 \/ Made(th'[t].request)
  /\ Owns(t)' => th'[t].x # 0
  /\ Adds(t)' => \/ Adds(t) /\ th'[t].x = th[t].x /\ Op(t)' = Op(t)
                 \/ th'[t].x # 0 /\ ext[th'[t].x].dev = Op(t)'.dev
  /\ th'[t].shadow = th[t].shadow \/ Related(th'[t].shadow)
  /\ th'[t].new = th[t].new \/ Related(th'[t].new)
  /\ th'[t].todo = th[t].todo \/ Pdos(th'[t].todo)

LEMMA PointersMove ==
  ASSUME Typed, Typed', Settled, NEW t \in Threads, Pointers(t), Leads(t)
  PROVE  Pointers(t)'
  <1>1. th[t] \in ThreadTypes /\ th'[t] \in ThreadTypes
    BY DEF Typed, Types
  <1>2. PICK q, r \in ThreadTypes : q = th[t] /\ r = th'[t]
    BY <1>1
  <1>3. /\ r.x # 0 => r.x \in Exts
        /\ r.h # 0 => r.h \in Exts
        /\ r.del # 0 => r.del \in Exts
        /\ r.f # 0 => r.f \in Exts
        /\ r.n # 0 => r.n \in Exts
        /\ r.request # 0 => r.request \in Exts
        /\ r.shadow \in Shadows /\ r.new \in Shadows /\ r.todo \in Seq(Exts)
    BY PointersTyped DEF Numbers6
  <1>4. /\ r.x # 0 => Physical(r.x)
        /\ r.h # 0 => Physical(r.h)
        /\ r.del # 0 => Physical(r.del)
        /\ r.f # 0 => Filter(r.f)
        /\ r.n # 0 => Filter(r.n) \/ Filter(th[t].n)'
        /\ r.request # 0 => Made(r.request)
        /\ Related(r.shadow) /\ Related(r.new) /\ Pdos(r.todo)
    BY <1>2 DEF Pointers, Leads
  <1>5. /\ r.x # 0 => Physical(th[t].x)'
        /\ r.h # 0 => Physical(th[t].h)'
        /\ r.del # 0 => Physical(th[t].del)'
    BY <1>2, <1>3, <1>4, KindsStay
  <1>6. /\ r.f # 0 => Filter(th[t].f)'
        /\ r.n # 0 => Filter(th[t].n)'
        /\ r.request # 0 => Made(th[t].request)'
    BY <1>2, <1>3, <1>4, KindsStay
  <1>7. Related(th[t].shadow)' /\ Related(th[t].new)' /\ Pdos(th[t].todo)'
    <2>1. Related(r.shadow)' /\ Related(r.new)' /\ Pdos(r.todo)'
      BY <1>3, <1>4, KindsStay
    <2> QED
      BY <1>2, <2>1
  <1>8. Owns(t)' => r.x # 0
    BY <1>2 DEF Leads
  <1>9. Adds(t)' => ext'[th'[t].x].dev = Op(t)'.dev
    <2>1. Adds(t) => Owns(t)
      BY DEF Owns
    <2>2. Adds(t)' => th'[t].x # 0 /\ ext[th'[t].x].dev = Op(t)'.dev
      BY <2>1 DEF Leads, Pointers
    <2>3. Adds(t)' => r.x \in Exts /\ Made(r.x)
      BY <1>2, <1>3, <1>4, <2>2 DEF Physical
    <2>4. Adds(t)' => ext'[r.x].dev = ext[r.x].dev
      BY <2>3 DEF Settled, KeepsMake
    <2> QED
      BY <1>2, <2>2, <2>4
  <1> QED
    BY <1>2, <1>5, <1>6, <1>7, <1>8, <1>9 DEF Pointers

LEMMA FormedMoves ==
  ASSUME Typed, Typed', Formed, NEW t \in Threads, OthersRest(t), Leads(t), Settled, \A x \in Exts : Extension(x)'
  PROVE  Formed'
  <1>1. ASSUME NEW u \in Threads, u # t
        PROVE  Pointers(u)'
    <2>1. th'[u] = th[u] /\ Pointers(u)
      BY <1>1 DEF OthersRest, Formed
    <2>2. Leads(u)
      BY <2>1 DEF Leads, Pointers, Owns, Adds, Op
    <2> QED
      BY <2>1, <2>2, PointersMove
  <1>2. Pointers(t)'
    BY PointersMove DEF Formed
  <1> QED
    BY <1>1, <1>2 DEF Formed

\* Nothing is made.
Makes(x) == /\ KeepsMake(x)
            /\ ext'[x].life = ext[x].life \/ (Made(x) /\ ext'[x].life = "freed")
            /\ \/ ext'[x].shadow = ext[x].shadow \/ ext'[x].shadow = Null
               \/ Filter(x) /\ Related(ext'[x].shadow)
            /\ Filter(x) => KeepsMark(x)
            /\ Listed(x)' => Made(x)

LEMMA ExtensionMoves ==
  ASSUME Typed, Typed', Settled, NEW x \in Exts, Extension(x), Makes(x)
  PROVE  Extension(x)'
  <1>1. ext[x].vpdo \in 0..MaxExts /\ ext'[x].shadow \in Shadows /\ ext[x].shadow \in Shadows
    <2>1. PICK p, r \in ExtTypes : p = ext[x] /\ r = ext'[x]
      BY DEF Typed, Types
    <2>2. p.vpdo \in 0..MaxExts /\ r.shadow \in Shadows /\ p.shadow \in Shadows
      BY DEF ExtTypes
    <2> QED
      BY <2>1, <2>2
  <1>2. Made(x)' <=> Made(x)
    BY DEF Makes, Made
  <1>3. (Virtual(x)' <=> Virtual(x)) /\ (Filter(x)' <=> Filter(x))
    BY <1>2 DEF Makes, KeepsMake, Virtual, Filter
  <1>4. Related(ext[x].shadow)'
    <2>1. PICK s \in Shadows : s = ext'[x].shadow
      BY <1>1
    <2>2. Related(Null)
      BY DEF Related, Single, Null
    <2>3. Related(s)
      BY <2>1, <2>2 DEF Makes, Extension
    <2>4. Related(s)'
      BY <2>3, KindsStay
    <2> QED
      BY <2>1, <2>4
  <1>5. Made(x)' => ext'[x].dev \in Devices
    BY <1>2 DEF Extension, Makes, KeepsMake
  <1>6. Virtual(x)' => ext'[x].shadow = Null
    BY <1>3 DEF Extension, Makes, Filter
  <1>7. Filter(x)' => /\ ext'[x].vpdo # 0 /\ Physical(ext[x].vpdo)'
                      /\ ext'[ext'[x].vpdo].dev = ext'[x].dev /\ ~ext'[x].marked
    <2>1. SUFFICES ASSUME Filter(x)
                   PROVE  /\ ext'[x].vpdo # 0 /\ Physical(ext[x].vpdo)'
                          /\ ext'[ext'[x].vpdo].dev = ext'[x].dev /\ ~ext'[x].marked
      BY <1>3
    <2>2. PICK v : v = ext[x].vpdo
      OBVIOUS
    <2>3. v \in Exts /\ Physical(v) /\ ext[v].dev = ext[x].dev /\ ~ext[x].marked
      BY <1>1, <2>1, <2>2, Numerals DEF Extension
    <2>4. Physical(v)' /\ ext'[v].dev = ext[v].dev
      BY <2>3, KindsStay DEF Settled, KeepsMake, Physical
    <2>5. ext'[x].vpdo = v /\ ext'[x].dev = ext[x].dev /\ ext'[x].marked = ext[x].marked
      BY <2>1, <2>2 DEF Makes, KeepsMake, KeepsMark
    <2>6. v # 0
      BY <2>3, Numerals
    <2> QED
      BY <2>3, <2>4, <2>5, <2>6
  <1>8. Listed(x)' => Made(x)'
    BY <1>2 DEF Makes
  <1> QED
    BY <1>4, <1>5, <1>6, <1>7, <1>8 DEF Extension

LEMMA FormedStays ==
  ASSUME Typed, Typed', Formed, NEW t \in Threads, OthersRest(t), Leads(t), \A x \in Exts : Makes(x)
  PROVE  Formed'
  <1>1. Settled
    BY DEF Settled, Makes, Made
  <1>2. \A x \in Exts : Extension(x)'
    BY <1>1, ExtensionMoves DEF Formed
  <1> QED
    BY <1>1, <1>2, FormedMoves

LEMMA MakesSame ==
  ASSUME NEW x, KeepsMake(x), KeepsLife(x), KeepsMark(x), KeepsRelations(x), Listed(x)' => Made(x)
  PROVE  Makes(x)
  BY DEF Makes, KeepsLife, KeepsMark, KeepsRelations

\* The list has what was there and what is put there.
LEMMA ListsMade ==
  ASSUME Typed, Formed, NEW x \in Exts,
         \/ list' = list \/ \E y : list' = Without(y)
         \/ \E y \in Exts : Made(y) /\ list' = Append(list, y)
  PROVE  Listed(x)' => Made(x)
  BY ListedMoves DEF Formed, Extension

-----------------------------------------------------------------------------
(* The second part of the invariant: the pointers *)

LEMMA FormedRender ==
  ASSUME Typed, Typed', Formed, NEW t \in Threads, OthersRest(t), Render(t)
  PROVE  Formed'
  <1>1. Pointers(t) /\ \A x \in Exts : Extension(x)
    BY DEF Formed
  <1>2. th[t].ret \in Rets /\ (Owns(t) => th[t].x # 0)
    <2>1. th[t].ret \in Rets
      BY DEF Typed, Types, ThreadTypes
    <2> QED
      BY <1>1, <2>1 DEF Pointers
  <1>3. \A x \in Exts : Listed(x)' => Made(x)
    BY EffectRender, ListsMade
  <1>4. ASSUME NEW x \in Exts
        PROVE  Makes(x)
    <2>1. x # th[t].del => KeepsMake(x) /\ KeepsLife(x) /\ KeepsMark(x) /\ KeepsRelations(x)
      BY EffectRender DEF KeepsLife, KeepsMark, KeepsRelations
    <2>2. x = th[t].del => Makes(x)
      BY <1>1, <1>3, EffectRender, <1>1 DEF Makes, KeepsLife, KeepsMark, KeepsRelations, Pointers, Physical, Filter
    <2> QED
      BY <1>3, <2>1, <2>2, MakesSame
  <1>5. Leads(t)
    BY <1>2, EffectRender DEF Leads, KeepsUse, KeepsDel, KeepsFound, KeepsOp, Op, Owns, Adds, Rets
  <1> QED
    BY <1>4, <1>5, FormedStays

LEMMA FormedCloseVirtualPdo ==
  ASSUME Typed, Typed', Formed, NEW t \in Threads, OthersRest(t), CloseVirtualPdo(t)
  PROVE  Formed'
  <1>1. Pointers(t) /\ \A x \in Exts : Extension(x)
    BY DEF Formed
  <1>2. th[t].ret \in Rets /\ (Owns(t) => th[t].x # 0)
    <2>1. th[t].ret \in Rets
      BY DEF Typed, Types, ThreadTypes
    <2> QED
      BY <1>1, <2>1 DEF Pointers
  <1>3. \A x \in Exts : Listed(x)' => Made(x)
    BY EffectCloseVirtualPdo, ListsMade
  <1>4. \A x \in Exts : KeepsMake(x) /\ KeepsLife(x) /\ KeepsMark(x) /\ KeepsRelations(x)
    BY EffectCloseVirtualPdo, Still
  <1>5. Leads(t)
    BY <1>2, EffectCloseVirtualPdo DEF Leads, KeepsUse, KeepsDel, KeepsFound, KeepsOp, Op, Owns, Adds, Rets
  <1> QED
    BY <1>3, <1>4, <1>5, MakesSame, FormedStays

LEMMA FormedDeleteVirtualPdoByExtensionInternal ==
  ASSUME Typed, Typed', Formed, NEW t \in Threads, OthersRest(t), DeleteVirtualPdoByExtensionInternal(t)
  PROVE  Formed'
  <1>1. Pointers(t) /\ \A x \in Exts : Extension(x)
    BY DEF Formed
  <1>2. th[t].ret \in Rets /\ (Owns(t) => th[t].x # 0)
    <2>1. th[t].ret \in Rets
      BY DEF Typed, Types, ThreadTypes
    <2> QED
      BY <1>1, <2>1 DEF Pointers
  <1>3. \A x \in Exts : Listed(x)' => Made(x)
    BY EffectDeleteVirtualPdoByExtensionInternal, ListsMade
  <1>4. ASSUME NEW x \in Exts
        PROVE  Makes(x)
    <2>1. x # th[t].del => KeepsMake(x) /\ KeepsLife(x) /\ KeepsMark(x) /\ KeepsRelations(x)
      BY EffectDeleteVirtualPdoByExtensionInternal DEF KeepsLife, KeepsMark, KeepsRelations
    <2>2. x = th[t].del => Makes(x)
      BY <1>1, <1>3, EffectDeleteVirtualPdoByExtensionInternal, <1>1 DEF Makes, KeepsLife, KeepsMark, KeepsRelations, Pointers, Physical, Filter
    <2> QED
      BY <1>3, <2>1, <2>2, MakesSame
  <1>5. Leads(t)
    BY <1>2, EffectDeleteVirtualPdoByExtensionInternal DEF Leads, KeepsUse, KeepsDel, KeepsFound, KeepsOp, Op, Owns, Adds, Rets
  <1> QED
    BY <1>4, <1>5, FormedStays

LEMMA FormedDeleteVirtualPdoByExtension ==
  ASSUME Typed, Typed', Formed, NEW t \in Threads, OthersRest(t), DeleteVirtualPdoByExtension(t)
  PROVE  Formed'
  <1>1. Pointers(t) /\ \A x \in Exts : Extension(x)
    BY DEF Formed
  <1>2. th[t].ret \in Rets /\ (Owns(t) => th[t].x # 0)
    <2>1. th[t].ret \in Rets
      BY DEF Typed, Types, ThreadTypes
    <2> QED
      BY <1>1, <2>1 DEF Pointers
  <1>3. \A x \in Exts : Listed(x)' => Made(x)
    BY EffectDeleteVirtualPdoByExtension, ListsMade
  <1>4. ASSUME NEW x \in Exts
        PROVE  Makes(x)
    <2>1. x # th[t].x => KeepsMake(x) /\ KeepsLife(x) /\ KeepsMark(x) /\ KeepsRelations(x)
      BY EffectDeleteVirtualPdoByExtension DEF KeepsLife, KeepsMark, KeepsRelations
    <2>2. x = th[t].x => Makes(x)
      BY <1>1, <1>3, EffectDeleteVirtualPdoByExtension, <1>1 DEF Makes, KeepsLife, KeepsMark, KeepsRelations, Pointers, Physical, Filter, Owns
    <2> QED
      BY <1>3, <2>1, <2>2, MakesSame
  <1>5. Leads(t)
    BY <1>2, EffectDeleteVirtualPdoByExtension DEF Leads, KeepsUse, KeepsDel, KeepsFound, KeepsOp, Op, Owns, Adds, Rets
  <1> QED
    BY <1>4, <1>5, FormedStays

LEMMA FormedDropInitialReference ==
  ASSUME Typed, Typed', Formed, NEW t \in Threads, OthersRest(t), DropInitialReference(t)
  PROVE  Formed'
  <1>1. Pointers(t) /\ \A x \in Exts : Extension(x)
    BY DEF Formed
  <1>2. th[t].ret \in Rets /\ (Owns(t) => th[t].x # 0)
    <2>1. th[t].ret \in Rets
      BY DEF Typed, Types, ThreadTypes
    <2> QED
      BY <1>1, <2>1 DEF Pointers
  <1>3. \A x \in Exts : Listed(x)' => Made(x)
    BY EffectDropInitialReference, ListsMade
  <1>4. \A x \in Exts : KeepsMake(x) /\ KeepsLife(x) /\ KeepsMark(x) /\ KeepsRelations(x)
    BY EffectDropInitialReference, Still
  <1>5. Leads(t)
    BY <1>2, EffectDropInitialReference, <1>1 DEF Leads, KeepsUse, KeepsDel, KeepsFound, KeepsOp, Op, Owns, Adds, Rets, Pointers
  <1> QED
    BY <1>3, <1>4, <1>5, MakesSame, FormedStays

LEMMA FormedDereferenceVirtualPdo ==
  ASSUME Typed, Typed', Formed, NEW t \in Threads, OthersRest(t), DereferenceVirtualPdo(t)
  PROVE  Formed'
  <1>1. Pointers(t) /\ \A x \in Exts : Extension(x)
    BY DEF Formed
  <1>2. th[t].ret \in Rets /\ (Owns(t) => th[t].x # 0)
    <2>1. th[t].ret \in Rets
      BY DEF Typed, Types, ThreadTypes
    <2> QED
      BY <1>1, <2>1 DEF Pointers
  <1>3. \A x \in Exts : Listed(x)' => Made(x)
    BY EffectDereferenceVirtualPdo, ListsMade
  <1>4. \A x \in Exts : KeepsMake(x) /\ KeepsLife(x) /\ KeepsMark(x) /\ KeepsRelations(x)
    BY EffectDereferenceVirtualPdo, Still
  <1>5. Leads(t)
    BY <1>2, EffectDereferenceVirtualPdo, <1>1 DEF Leads, KeepsUse, KeepsDel, KeepsFound, KeepsOp, Op, Owns, Adds, Rets, Pointers
  <1> QED
    BY <1>3, <1>4, <1>5, MakesSame, FormedStays

LEMMA FormedDone ==
  ASSUME Typed, Typed', Formed, NEW t \in Threads, OthersRest(t), Done(t)
  PROVE  Formed'
  <1>1. Pointers(t) /\ \A x \in Exts : Extension(x)
    BY DEF Formed
  <1>2. th[t].ret \in Rets /\ (Owns(t) => th[t].x # 0)
    <2>1. th[t].ret \in Rets
      BY DEF Typed, Types, ThreadTypes
    <2> QED
      BY <1>1, <2>1 DEF Pointers
  <1>3. Related(Null) /\ Pdos(<<>>)
    BY DEF Null, Related, Single, Pdos
  <1>4. \A x \in Exts : Listed(x)' => Made(x)
    BY EffectDone, ListsMade
  <1>5. \A x \in Exts : KeepsMake(x) /\ KeepsLife(x) /\ KeepsMark(x) /\ KeepsRelations(x)
    BY EffectDone, Still
  <1>6. Leads(t)
    BY <1>2, EffectDone, <1>3 DEF Leads, KeepsUse, KeepsDel, KeepsFound, KeepsOp, Op, Owns, Adds, Rets
  <1> QED
    BY <1>4, <1>5, <1>6, MakesSame, FormedStays

LEMMA FormedProcessNewRelations ==
  ASSUME Typed, Typed', Formed, NEW t \in Threads, OthersRest(t), ProcessNewRelations(t)
  PROVE  Formed'
  <1>1. Pointers(t) /\ \A x \in Exts : Extension(x)
    BY DEF Formed
  <1>2. th[t].ret \in Rets /\ (Owns(t) => th[t].x # 0)
    <2>1. th[t].ret \in Rets
      BY DEF Typed, Types, ThreadTypes
    <2> QED
      BY <1>1, <2>1 DEF Pointers
  <1>3. PICK v : v = Visit(ext, list, Only(Op(t).rels)).found
    OBVIOUS
  <1>4. th[t].pc = "process" => Related({v})
    <2>1. SUFFICES ASSUME th[t].pc = "process"
                   PROVE  Related({v})
      OBVIOUS
    <2>2. PICK q \in ThreadTypes : q = th[t]
      BY DEF Typed, Types
    <2>3. Op(t).rels \in SUBSET Seq(Devices) /\ Op(t).rels # Null
      BY <2>1, <2>2, OpTyped DEF Typed, Control, Standing, Op, Call
    <2>4. Len(Only(Op(t).rels)) \in Nat /\ list \in Seq(Exts)
      BY <2>3 DEF Only, Null, Typed, Types
    <2>5. v \in Seq(Exts) /\ \A i \in DOMAIN v : ext[v[i]].kind = "pdo" /\ \E j \in DOMAIN list : list[j] = v[i]
      <3>1. PICK devs : devs = Only(Op(t).rels) /\ Len(devs) \in Nat
        BY <2>4
      <3> QED
        <4>1. FoundIn(ext, list, Visit(ext, list, devs).found)
          BY <2>4, <3>1, VisitFinds
        <4> QED
          BY <1>3, <3>1, <4>1 DEF FoundIn
    <2>6. \A i \in DOMAIN v : v[i] \in Exts /\ Listed(v[i])
      BY <2>5 DEF Listed
    <2> QED
      BY <1>1, <2>5, <2>6 DEF Related, Single, Pdos, Extension
  <1>5. \A x \in Exts : Listed(x)' => Made(x)
    BY EffectProcessNewRelations, ListsMade
  <1>6. \A x \in Exts : KeepsMake(x) /\ KeepsLife(x) /\ KeepsMark(x) /\ KeepsRelations(x)
    BY EffectProcessNewRelations, Still
  <1>7. Leads(t)
    BY <1>2, EffectProcessNewRelations, <1>3, <1>4 DEF Leads, KeepsUse, KeepsDel, KeepsFound, KeepsOp, Op, Owns, Adds, Rets
  <1> QED
    BY <1>5, <1>6, <1>7, MakesSame, FormedStays

LEMMA FormedRecordShadow ==
  ASSUME Typed, Typed', Formed, NEW t \in Threads, OthersRest(t), RecordShadow(t)
  PROVE  Formed'
  <1>1. Pointers(t) /\ \A x \in Exts : Extension(x)
    BY DEF Formed
  <1>2. th[t].ret \in Rets /\ (Owns(t) => th[t].x # 0)
    <2>1. th[t].ret \in Rets
      BY DEF Typed, Types, ThreadTypes
    <2> QED
      BY <1>1, <2>1 DEF Pointers
  <1>3. th[t].pc = "record" => th[t].f # 0
    BY DEF Typed, Control, Standing, Calling
  <1>4. \A x \in Exts : Listed(x)' => Made(x)
    BY EffectRecordShadow, ListsMade
  <1>5. ASSUME NEW x \in Exts
        PROVE  Makes(x)
    <2>1. x # th[t].f => KeepsMake(x) /\ KeepsLife(x) /\ KeepsMark(x) /\ KeepsRelations(x)
      BY EffectRecordShadow DEF KeepsLife, KeepsMark, KeepsRelations
    <2>2. x = th[t].f => Makes(x)
      BY <1>1, <1>4, EffectRecordShadow, <1>1, <1>3 DEF Makes, KeepsLife, KeepsMark, KeepsRelations, Pointers
    <2> QED
      BY <1>4, <2>1, <2>2, MakesSame
  <1>6. Leads(t)
    BY <1>2, EffectRecordShadow, <1>3 DEF Leads, KeepsUse, KeepsDel, KeepsFound, KeepsOp, Op, Owns, Adds, Rets, Related, Single, Null
  <1> QED
    BY <1>5, <1>6, FormedStays

LEMMA FormedReleaseOldRelations ==
  ASSUME Typed, Typed', Formed, NEW t \in Threads, OthersRest(t), ReleaseOldRelations(t)
  PROVE  Formed'
  <1>1. Pointers(t) /\ \A x \in Exts : Extension(x)
    BY DEF Formed
  <1>2. th[t].ret \in Rets /\ (Owns(t) => th[t].x # 0)
    <2>1. th[t].ret \in Rets
      BY DEF Typed, Types, ThreadTypes
    <2> QED
      BY <1>1, <2>1 DEF Pointers
  <1>3. PICK v : v = Visit(ext, Only(th[t].shadow), Only(th[t].old)).found
    OBVIOUS
  <1>4. th[t].old # Null /\ th[t].shadow # Null => Pdos(v)
    <2>1. SUFFICES ASSUME th[t].old # Null, th[t].shadow # Null
                   PROVE  Pdos(v)
      OBVIOUS
    <2>2. PICK q \in ThreadTypes : q = th[t]
      BY DEF Typed, Types
    <2>3. q.old \in SUBSET Seq(Devices) /\ q.shadow \in SUBSET Seq(Exts)
      BY DEF ThreadTypes, Reported, Shadows
    <2>4. Len(Only(q.old)) \in Nat /\ Only(q.shadow) \in q.shadow /\ Only(q.shadow) \in Seq(Exts)
      BY <2>1, <2>2, <2>3 DEF Only, Null
    <2>5. v \in Seq(Exts) /\ \A i \in DOMAIN v : \E j \in DOMAIN Only(q.shadow) : Only(q.shadow)[j] = v[i]
      <3>1. PICK devs, l : devs = Only(q.old) /\ Len(devs) \in Nat /\ l = Only(q.shadow) /\ l \in Seq(Exts)
        BY <2>4
      <3>2. v = Visit(ext, l, devs).found
        BY <1>3, <2>2, <3>1
      <3> QED
        <4>1. FoundIn(ext, l, v)
          BY <3>1, <3>2, VisitFinds
        <4> QED
          BY <3>1, <4>1 DEF FoundIn
    <2>6. Pdos(Only(q.shadow))
      BY <1>1, <2>2, <2>4 DEF Pointers, Related
    <2> QED
      BY <2>5, <2>6 DEF Pdos
  <1>5. \A x \in Exts : Listed(x)' => Made(x)
    BY EffectReleaseOldRelations, ListsMade
  <1>6. \A x \in Exts : KeepsMake(x) /\ KeepsLife(x) /\ KeepsMark(x) /\ KeepsRelations(x)
    BY EffectReleaseOldRelations, Still
  <1>7. Leads(t)
    BY <1>2, EffectReleaseOldRelations, <1>3, <1>4 DEF Leads, KeepsUse, KeepsDel, KeepsFound, KeepsOp, Op, Owns, Adds, Rets
  <1> QED
    BY <1>5, <1>6, <1>7, MakesSame, FormedStays

LEMMA FormedReleaseOne ==
  ASSUME Typed, Typed', Formed, NEW t \in Threads, OthersRest(t), ReleaseOne(t)
  PROVE  Formed'
  <1>1. Pointers(t) /\ \A x \in Exts : Extension(x)
    BY DEF Formed
  <1>2. th[t].ret \in Rets /\ (Owns(t) => th[t].x # 0)
    <2>1. th[t].ret \in Rets
      BY DEF Typed, Types, ThreadTypes
    <2> QED
      BY <1>1, <2>1 DEF Pointers
  <1>3. th[t].todo # <<>> => Physical(Head(th[t].todo)) /\ Pdos(Tail(th[t].todo))
    <2>1. PICK q \in ThreadTypes : q = th[t]
      BY DEF Typed, Types
    <2>2. q.todo \in Seq(Exts)
      BY DEF ThreadTypes
    <2>3. Pdos(q.todo)
      BY <1>1, <2>1 DEF Pointers
    <2>4. ASSUME q.todo # <<>>
          PROVE  Physical(Head(q.todo)) /\ Pdos(Tail(q.todo))
      <3>1. 1 \in DOMAIN q.todo /\ Head(q.todo) = q.todo[1] /\ \A i \in DOMAIN Tail(q.todo) : i + 1 \in DOMAIN q.todo /\ Tail(q.todo)[i] = q.todo[i + 1]
        BY <2>2, <2>4
      <3>2. Pdos(Tail(q.todo))
        BY <2>3, <3>1 DEF Pdos
      <3>3. Physical(q.todo[1])
        BY <2>3, <3>1 DEF Pdos, Physical, Virtual
      <3> QED
        BY <3>1, <3>2, <3>3
    <2> QED
      BY <2>1, <2>4
  <1>4. \A x \in Exts : Listed(x)' => Made(x)
    BY EffectReleaseOne, ListsMade
  <1>5. \A x \in Exts : KeepsMake(x) /\ KeepsLife(x) /\ KeepsMark(x) /\ KeepsRelations(x)
    BY EffectReleaseOne, Still
  <1>6. Leads(t)
    BY <1>2, EffectReleaseOne, <1>3 DEF Leads, KeepsUse, KeepsDel, KeepsFound, KeepsOp, Op, Owns, Adds, Rets
  <1> QED
    BY <1>4, <1>5, <1>6, MakesSame, FormedStays

LEMMA FormedReleasedAll ==
  ASSUME Typed, Typed', Formed, NEW t \in Threads, OthersRest(t), ReleasedAll(t)
  PROVE  Formed'
  <1>1. Pointers(t) /\ \A x \in Exts : Extension(x)
    BY DEF Formed
  <1>2. th[t].ret \in Rets /\ (Owns(t) => th[t].x # 0)
    <2>1. th[t].ret \in Rets
      BY DEF Typed, Types, ThreadTypes
    <2> QED
      BY <1>1, <2>1 DEF Pointers
  <1>3. \A x \in Exts : Listed(x)' => Made(x)
    BY EffectReleasedAll, ListsMade
  <1>4. \A x \in Exts : KeepsMake(x) /\ KeepsLife(x) /\ KeepsMark(x) /\ KeepsRelations(x)
    BY EffectReleasedAll, Still
  <1>5. Leads(t)
    BY <1>2, EffectReleasedAll DEF Leads, KeepsUse, KeepsDel, KeepsFound, KeepsOp, Op, Owns, Adds, Rets
  <1> QED
    BY <1>3, <1>4, <1>5, MakesSame, FormedStays

LEMMA FormedDispatchRequest ==
  ASSUME Typed, Typed', Formed, NEW t \in Threads, OthersRest(t), DispatchRequest(t)
  PROVE  Formed'
  <1>1. Pointers(t) /\ \A x \in Exts : Extension(x)
    BY DEF Formed
  <1>2. th[t].ret \in Rets /\ (Owns(t) => th[t].x # 0)
    <2>1. th[t].ret \in Rets
      BY DEF Typed, Types, ThreadTypes
    <2> QED
      BY <1>1, <2>1 DEF Pointers
  <1>3. \A f \in FilterOf(Op(t).dev) : Filter(f)
    BY DEF FilterOf, Filter, Made, Virtual
  <1>4. \A x \in Exts : Listed(x)' => Made(x)
    BY EffectDispatchRequest, ListsMade
  <1>5. \A x \in Exts : KeepsMake(x) /\ KeepsLife(x) /\ KeepsMark(x) /\ KeepsRelations(x)
    BY EffectDispatchRequest, Still
  <1>6. Leads(t)
    BY <1>2, EffectDispatchRequest, <1>3 DEF Leads, KeepsUse, KeepsDel, KeepsFound, KeepsOp, Op, Owns, Adds, Rets
  <1> QED
    BY <1>4, <1>5, <1>6, MakesSame, FormedStays

LEMMA FormedFilterPass ==
  ASSUME Typed, Typed', Formed, NEW t \in Threads, OthersRest(t), FilterPass(t)
  PROVE  Formed'
  <1>1. Pointers(t) /\ \A x \in Exts : Extension(x)
    BY DEF Formed
  <1>2. th[t].ret \in Rets /\ (Owns(t) => th[t].x # 0)
    <2>1. th[t].ret \in Rets
      BY DEF Typed, Types, ThreadTypes
    <2> QED
      BY <1>1, <2>1 DEF Pointers
  <1>3. \A x \in Exts : Listed(x)' => Made(x)
    BY EffectFilterPass, ListsMade
  <1>4. \A x \in Exts : KeepsMake(x) /\ KeepsLife(x) /\ KeepsMark(x) /\ KeepsRelations(x)
    BY EffectFilterPass, Still
  <1>5. Leads(t)
    BY <1>2, EffectFilterPass DEF Leads, KeepsUse, KeepsDel, KeepsFound, KeepsOp, Op, Owns, Adds, Rets
  <1> QED
    BY <1>3, <1>4, <1>5, MakesSame, FormedStays

LEMMA FormedQueryDeviceRelations ==
  ASSUME Typed, Typed', Formed, NEW t \in Threads, OthersRest(t), QueryDeviceRelations(t)
  PROVE  Formed'
  <1>1. Pointers(t) /\ \A x \in Exts : Extension(x)
    BY DEF Formed
  <1>2. th[t].ret \in Rets /\ (Owns(t) => th[t].x # 0)
    <2>1. th[t].ret \in Rets
      BY DEF Typed, Types, ThreadTypes
    <2> QED
      BY <1>1, <2>1 DEF Pointers
  <1>3. th[t].pc \in {"sent", "free"} => Related(ext[th[t].f].shadow)
    <2>1. PICK q \in ThreadTypes : q = th[t]
      BY DEF Typed, Types
    <2>2. q.f \in 0..MaxExts
      BY DEF ThreadTypes
    <2>3. th[t].pc \in {"sent", "free"} => th[t].f # 0
      BY DEF Typed, Control, Standing, Calling, ExchangesIn
    <2> QED
      BY <1>1, <2>1, <2>2, <2>3, Numerals DEF Extension
  <1>4. \A x \in Exts : Listed(x)' => Made(x)
    BY EffectQueryDeviceRelations, ListsMade
  <1>5. ASSUME NEW x \in Exts
        PROVE  Makes(x)
    <2>1. x # th[t].f => KeepsMake(x) /\ KeepsLife(x) /\ KeepsMark(x) /\ KeepsRelations(x)
      BY EffectQueryDeviceRelations DEF KeepsLife, KeepsMark, KeepsRelations
    <2>2. x = th[t].f => Makes(x)
      BY <1>1, <1>4, EffectQueryDeviceRelations DEF Makes, KeepsLife, KeepsMark, KeepsRelations
    <2> QED
      BY <1>4, <2>1, <2>2, MakesSame
  <1>6. Leads(t)
    BY <1>2, EffectQueryDeviceRelations, <1>3 DEF Leads, KeepsUse, KeepsDel, KeepsFound, KeepsOp, Op, Owns, Adds, Rets
  <1> QED
    BY <1>5, <1>6, FormedStays

LEMMA FormedQueryCompleted ==
  ASSUME Typed, Typed', Formed, NEW t \in Threads, OthersRest(t), QueryCompleted(t)
  PROVE  Formed'
  <1>1. Pointers(t) /\ \A x \in Exts : Extension(x)
    BY DEF Formed
  <1>2. th[t].ret \in Rets /\ (Owns(t) => th[t].x # 0)
    <2>1. th[t].ret \in Rets
      BY DEF Typed, Types, ThreadTypes
    <2> QED
      BY <1>1, <2>1 DEF Pointers
  <1>3. \A x \in Exts : Listed(x)' => Made(x)
    BY EffectQueryCompleted, ListsMade
  <1>4. \A x \in Exts : KeepsMake(x) /\ KeepsLife(x) /\ KeepsMark(x) /\ KeepsRelations(x)
    BY EffectQueryCompleted, Still
  <1>5. Leads(t)
    BY <1>2, EffectQueryCompleted DEF Leads, KeepsUse, KeepsDel, KeepsFound, KeepsOp, Op, Owns, Adds, Rets
  <1> QED
    BY <1>3, <1>4, <1>5, MakesSame, FormedStays

LEMMA FormedStartDevice ==
  ASSUME Typed, Typed', Formed, NEW t \in Threads, OthersRest(t), StartDevice(t)
  PROVE  Formed'
  <1>1. Pointers(t) /\ \A x \in Exts : Extension(x)
    BY DEF Formed
  <1>2. th[t].ret \in Rets /\ (Owns(t) => th[t].x # 0)
    <2>1. th[t].ret \in Rets
      BY DEF Typed, Types, ThreadTypes
    <2> QED
      BY <1>1, <2>1 DEF Pointers
  <1>3. \A f \in FilterOf(Op(t).dev) : Filter(f)
    BY DEF FilterOf, Filter, Made, Virtual
  <1>4. \A x \in Exts : Listed(x)' => Made(x)
    BY EffectStartDevice, ListsMade
  <1>5. \A x \in Exts : KeepsMake(x) /\ KeepsLife(x) /\ KeepsMark(x) /\ KeepsRelations(x)
    BY EffectStartDevice, Still
  <1>6. Leads(t)
    BY <1>2, EffectStartDevice, <1>3 DEF Leads, KeepsUse, KeepsDel, KeepsFound, KeepsOp, Op, Owns, Adds, Rets
  <1> QED
    BY <1>4, <1>5, <1>6, MakesSame, FormedStays

LEMMA FormedStarted ==
  ASSUME Typed, Typed', Formed, NEW t \in Threads, OthersRest(t), Started(t)
  PROVE  Formed'
  <1>1. Pointers(t) /\ \A x \in Exts : Extension(x)
    BY DEF Formed
  <1>2. th[t].ret \in Rets /\ (Owns(t) => th[t].x # 0)
    <2>1. th[t].ret \in Rets
      BY DEF Typed, Types, ThreadTypes
    <2> QED
      BY <1>1, <2>1 DEF Pointers
  <1>3. \A x \in Exts : Listed(x)' => Made(x)
    BY EffectStarted, ListsMade
  <1>4. \A x \in Exts : KeepsMake(x) /\ KeepsLife(x) /\ KeepsMark(x) /\ KeepsRelations(x)
    BY EffectStarted, Still
  <1>5. Leads(t)
    BY <1>2, EffectStarted DEF Leads, KeepsUse, KeepsDel, KeepsFound, KeepsOp, Op, Owns, Adds, Rets
  <1> QED
    BY <1>3, <1>4, <1>5, MakesSame, FormedStays

LEMMA FormedRemoveDevice ==
  ASSUME Typed, Typed', Formed, NEW t \in Threads, OthersRest(t), RemoveDevice(t)
  PROVE  Formed'
  <1>1. Pointers(t) /\ \A x \in Exts : Extension(x)
    BY DEF Formed
  <1>2. th[t].ret \in Rets /\ (Owns(t) => th[t].x # 0)
    <2>1. th[t].ret \in Rets
      BY DEF Typed, Types, ThreadTypes
    <2> QED
      BY <1>1, <2>1 DEF Pointers
  <1>3. \A f \in FilterOf(Op(t).dev) : Filter(f)
    BY DEF FilterOf, Filter, Made, Virtual
  <1>4. \A x \in Exts : Listed(x)' => Made(x)
    BY EffectRemoveDevice, ListsMade
  <1>5. \A x \in Exts : KeepsMake(x) /\ KeepsLife(x) /\ KeepsMark(x) /\ KeepsRelations(x)
    BY EffectRemoveDevice, Still
  <1>6. Leads(t)
    BY <1>2, EffectRemoveDevice, <1>3 DEF Leads, KeepsUse, KeepsDel, KeepsFound, KeepsOp, Op, Owns, Adds, Rets
  <1> QED
    BY <1>4, <1>5, <1>6, MakesSame, FormedStays

LEMMA FormedFastIoDetachDevice ==
  ASSUME Typed, Typed', Formed, NEW t \in Threads, OthersRest(t), FastIoDetachDevice(t)
  PROVE  Formed'
  <1>1. Pointers(t) /\ \A x \in Exts : Extension(x)
    BY DEF Formed
  <1>2. th[t].ret \in Rets /\ (Owns(t) => th[t].x # 0)
    <2>1. th[t].ret \in Rets
      BY DEF Typed, Types, ThreadTypes
    <2> QED
      BY <1>1, <2>1 DEF Pointers
  <1>3. \A f \in FilterOf(Op(t).dev) : Filter(f)
    BY DEF FilterOf, Filter, Made, Virtual
  <1>4. \A x \in Exts : Listed(x)' => Made(x)
    BY EffectFastIoDetachDevice, ListsMade
  <1>5. \A x \in Exts : KeepsMake(x) /\ KeepsLife(x) /\ KeepsMark(x) /\ KeepsRelations(x)
    BY EffectFastIoDetachDevice, Still
  <1>6. Leads(t)
    BY <1>2, EffectFastIoDetachDevice, <1>3 DEF Leads, KeepsUse, KeepsDel, KeepsFound, KeepsOp, Op, Owns, Adds, Rets
  <1> QED
    BY <1>4, <1>5, <1>6, MakesSame, FormedStays

LEMMA FormedRemoveDeviceFromTheList ==
  ASSUME Typed, Typed', Formed, NEW t \in Threads, OthersRest(t), RemoveDeviceFromTheList(t)
  PROVE  Formed'
  <1>1. Pointers(t) /\ \A x \in Exts : Extension(x)
    BY DEF Formed
  <1>2. th[t].ret \in Rets /\ (Owns(t) => th[t].x # 0)
    <2>1. th[t].ret \in Rets
      BY DEF Typed, Types, ThreadTypes
    <2> QED
      BY <1>1, <2>1 DEF Pointers
  <1>3. \A x \in Exts : Listed(x)' => Made(x)
    BY EffectRemoveDeviceFromTheList, ListsMade
  <1>4. \A x \in Exts : KeepsMake(x) /\ KeepsLife(x) /\ KeepsMark(x) /\ KeepsRelations(x)
    BY EffectRemoveDeviceFromTheList, Still
  <1>5. Leads(t)
    BY <1>2, EffectRemoveDeviceFromTheList DEF Leads, KeepsUse, KeepsDel, KeepsFound, KeepsOp, Op, Owns, Adds, Rets
  <1> QED
    BY <1>3, <1>4, <1>5, MakesSame, FormedStays

LEMMA FormedFreeAllDeviceRelations ==
  ASSUME Typed, Typed', Formed, NEW t \in Threads, OthersRest(t), FreeAllDeviceRelations(t)
  PROVE  Formed'
  <1>1. Pointers(t) /\ \A x \in Exts : Extension(x)
    BY DEF Formed
  <1>2. th[t].ret \in Rets /\ (Owns(t) => th[t].x # 0)
    <2>1. th[t].ret \in Rets
      BY DEF Typed, Types, ThreadTypes
    <2> QED
      BY <1>1, <2>1 DEF Pointers
  <1>3. th[t].pc \in {"sent", "free"} => Related(ext[th[t].f].shadow)
    <2>1. PICK q \in ThreadTypes : q = th[t]
      BY DEF Typed, Types
    <2>2. q.f \in 0..MaxExts
      BY DEF ThreadTypes
    <2>3. th[t].pc \in {"sent", "free"} => th[t].f # 0
      BY DEF Typed, Control, Standing, Calling, ExchangesIn
    <2> QED
      BY <1>1, <2>1, <2>2, <2>3, Numerals DEF Extension
  <1>4. \A x \in Exts : Listed(x)' => Made(x)
    BY EffectFreeAllDeviceRelations, ListsMade
  <1>5. ASSUME NEW x \in Exts
        PROVE  Makes(x)
    <2>1. x # th[t].f => KeepsMake(x) /\ KeepsLife(x) /\ KeepsMark(x) /\ KeepsRelations(x)
      BY EffectFreeAllDeviceRelations DEF KeepsLife, KeepsMark, KeepsRelations
    <2>2. x = th[t].f => Makes(x)
      BY <1>1, <1>4, EffectFreeAllDeviceRelations DEF Makes, KeepsLife, KeepsMark, KeepsRelations
    <2> QED
      BY <1>4, <2>1, <2>2, MakesSame
  <1>6. Leads(t)
    BY <1>2, EffectFreeAllDeviceRelations, <1>3 DEF Leads, KeepsUse, KeepsDel, KeepsFound, KeepsOp, Op, Owns, Adds, Rets
  <1> QED
    BY <1>5, <1>6, FormedStays

LEMMA FormedClearFilterDeviceExtension ==
  ASSUME Typed, Typed', Formed, NEW t \in Threads, OthersRest(t), ClearFilterDeviceExtension(t)
  PROVE  Formed'
  <1>1. Pointers(t) /\ \A x \in Exts : Extension(x)
    BY DEF Formed
  <1>2. th[t].ret \in Rets /\ (Owns(t) => th[t].x # 0)
    <2>1. th[t].ret \in Rets
      BY DEF Typed, Types, ThreadTypes
    <2> QED
      BY <1>1, <2>1 DEF Pointers
  <1>3. th[t].pc = "cleared" => Filter(th[t].f) /\ Physical(ext[th[t].f].vpdo) /\ ext[th[t].f].vpdo # 0
    <2>1. PICK q \in ThreadTypes : q = th[t]
      BY DEF Typed, Types
    <2>2. q.f \in 0..MaxExts
      BY DEF ThreadTypes
    <2>3. th[t].pc = "cleared" => th[t].f # 0
      BY DEF Typed, Control, Standing, Calling
    <2> QED
      BY <1>1, <2>1, <2>2, <2>3, Numerals DEF Extension, Pointers
  <1>4. \A x \in Exts : Listed(x)' => Made(x)
    BY EffectClearFilterDeviceExtension, ListsMade
  <1>5. ASSUME NEW x \in Exts
        PROVE  Makes(x)
    <2>1. x # th[t].f => KeepsMake(x) /\ KeepsLife(x) /\ KeepsMark(x) /\ KeepsRelations(x)
      BY EffectClearFilterDeviceExtension DEF KeepsLife, KeepsMark, KeepsRelations
    <2>2. x = th[t].f => Makes(x)
      BY <1>1, <1>4, EffectClearFilterDeviceExtension, <1>3 DEF Makes, KeepsLife, KeepsMark, KeepsRelations, Filter
    <2> QED
      BY <1>4, <2>1, <2>2, MakesSame
  <1>6. Leads(t)
    BY <1>2, EffectClearFilterDeviceExtension, <1>3 DEF Leads, KeepsUse, KeepsDel, KeepsFound, KeepsOp, Op, Owns, Adds, Rets
  <1> QED
    BY <1>5, <1>6, FormedStays

LEMMA FormedPnPMajorHookDispatch ==
  ASSUME Typed, Typed', Formed, NEW t \in Threads, OthersRest(t), PnPMajorHookDispatch(t)
  PROVE  Formed'
  <1>1. Pointers(t) /\ \A x \in Exts : Extension(x)
    BY DEF Formed
  <1>2. th[t].ret \in Rets /\ (Owns(t) => th[t].x # 0)
    <2>1. th[t].ret \in Rets
      BY DEF Typed, Types, ThreadTypes
    <2> QED
      BY <1>1, <2>1 DEF Pointers
  <1>3. Found(Op(t).dev) # 0 => Physical(Found(Op(t).dev)) /\ ext[Found(Op(t).dev)].dev = Op(t).dev
    BY <1>1, FoundIs DEF Typed, Types, Extension, Physical
  <1>4. \A x \in Exts : Listed(x)' => Made(x)
    BY EffectPnPMajorHookDispatch, ListsMade
  <1>5. \A x \in Exts : KeepsMake(x) /\ KeepsLife(x) /\ KeepsMark(x) /\ KeepsRelations(x)
    BY EffectPnPMajorHookDispatch, Still
  <1>6. Leads(t)
    BY <1>2, EffectPnPMajorHookDispatch, <1>3 DEF Leads, KeepsUse, KeepsDel, KeepsFound, KeepsOp, Op, Owns, Adds, Rets, Lockable
  <1> QED
    BY <1>4, <1>5, <1>6, MakesSame, FormedStays

LEMMA FormedSetPdoState ==
  ASSUME Typed, Typed', Formed, NEW t \in Threads, OthersRest(t), SetPdoState(t)
  PROVE  Formed'
  <1>1. Pointers(t) /\ \A x \in Exts : Extension(x)
    BY DEF Formed
  <1>2. th[t].ret \in Rets /\ (Owns(t) => th[t].x # 0)
    <2>1. th[t].ret \in Rets
      BY DEF Typed, Types, ThreadTypes
    <2> QED
      BY <1>1, <2>1 DEF Pointers
  <1>3. \A x \in Exts : Listed(x)' => Made(x)
    BY EffectSetPdoState, ListsMade
  <1>4. \A x \in Exts : KeepsMake(x) /\ KeepsLife(x) /\ KeepsMark(x) /\ KeepsRelations(x)
    BY EffectSetPdoState, Still
  <1>5. Leads(t)
    BY <1>2, EffectSetPdoState DEF Leads, KeepsUse, KeepsDel, KeepsFound, KeepsOp, Op, Owns, Adds, Rets
  <1> QED
    BY <1>3, <1>4, <1>5, MakesSame, FormedStays

LEMMA FormedCallOriginal ==
  ASSUME Typed, Typed', Formed, NEW t \in Threads, OthersRest(t), CallOriginal(t)
  PROVE  Formed'
  <1>1. Pointers(t) /\ \A x \in Exts : Extension(x)
    BY DEF Formed
  <1>2. th[t].ret \in Rets /\ (Owns(t) => th[t].x # 0)
    <2>1. th[t].ret \in Rets
      BY DEF Typed, Types, ThreadTypes
    <2> QED
      BY <1>1, <2>1 DEF Pointers
  <1>3. th[t].pc = "hooked" => th[t].h # 0
    BY DEF Typed, Control, Standing
  <1>4. \A x \in Exts : Listed(x)' => Made(x)
    BY EffectCallOriginal, ListsMade
  <1>5. \A x \in Exts : KeepsMake(x) /\ KeepsLife(x) /\ KeepsMark(x) /\ KeepsRelations(x)
    BY EffectCallOriginal, Still
  <1>6. Leads(t)
    BY <1>2, EffectCallOriginal, <1>1, <1>3 DEF Leads, KeepsUse, KeepsDel, KeepsFound, KeepsOp, Op, Owns, Adds, Rets, Pointers
  <1> QED
    BY <1>4, <1>5, <1>6, MakesSame, FormedStays

LEMMA FormedDriverUnloadHook ==
  ASSUME Typed, Typed', Formed, NEW t \in Threads, OthersRest(t), DriverUnloadHook(t)
  PROVE  Formed'
  <1>1. Pointers(t) /\ \A x \in Exts : Extension(x)
    BY DEF Formed
  <1>2. th[t].ret \in Rets /\ (Owns(t) => th[t].x # 0)
    <2>1. th[t].ret \in Rets
      BY DEF Typed, Types, ThreadTypes
    <2> QED
      BY <1>1, <2>1 DEF Pointers
  <1>3. \A x \in Exts : Listed(x)' => Made(x)
    BY EffectDriverUnloadHook, ListsMade
  <1>4. \A x \in Exts : KeepsMake(x) /\ KeepsLife(x) /\ KeepsMark(x) /\ KeepsRelations(x)
    BY EffectDriverUnloadHook, Still
  <1>5. Leads(t)
    BY <1>2, EffectDriverUnloadHook DEF Leads, KeepsUse, KeepsDel, KeepsFound, KeepsOp, Op, Owns, Adds, Rets
  <1> QED
    BY <1>3, <1>4, <1>5, MakesSame, FormedStays

LEMMA FormedAddDevice ==
  ASSUME Typed, Typed', Formed, NEW t \in Threads, OthersRest(t), AddDevice(t)
  PROVE  Formed'
  <1>1. Pointers(t) /\ \A x \in Exts : Extension(x)
    BY DEF Formed
  <1>2. th[t].ret \in Rets /\ (Owns(t) => th[t].x # 0)
    <2>1. th[t].ret \in Rets
      BY DEF Typed, Types, ThreadTypes
    <2> QED
      BY <1>1, <2>1 DEF Pointers
  <1>3. \A x \in Exts : Listed(x)' => Made(x)
    BY EffectAddDevice, ListsMade
  <1>4. \A x \in Exts : KeepsMake(x) /\ KeepsLife(x) /\ KeepsMark(x) /\ KeepsRelations(x)
    BY EffectAddDevice, Still
  <1>5. Leads(t)
    BY <1>2, EffectAddDevice DEF Leads, KeepsUse, KeepsDel, KeepsFound, KeepsOp, Op, Owns, Adds, Rets
  <1> QED
    BY <1>3, <1>4, <1>5, MakesSame, FormedStays

LEMMA FormedFindVirtualPdo ==
  ASSUME Typed, Typed', Formed, NEW t \in Threads, OthersRest(t), FindVirtualPdo(t)
  PROVE  Formed'
  <1>1. Pointers(t) /\ \A x \in Exts : Extension(x)
    BY DEF Formed
  <1>2. th[t].ret \in Rets /\ (Owns(t) => th[t].x # 0)
    <2>1. th[t].ret \in Rets
      BY DEF Typed, Types, ThreadTypes
    <2> QED
      BY <1>1, <2>1 DEF Pointers
  <1>3. Found(Op(t).dev) # 0 => Physical(Found(Op(t).dev)) /\ ext[Found(Op(t).dev)].dev = Op(t).dev
    BY <1>1, FoundIs DEF Typed, Types, Extension, Physical
  <1>4. \A x \in Exts : Listed(x)' => Made(x)
    BY EffectFindVirtualPdo, ListsMade
  <1>5. \A x \in Exts : KeepsMake(x) /\ KeepsLife(x) /\ KeepsMark(x) /\ KeepsRelations(x)
    BY EffectFindVirtualPdo, Still
  <1>6. Leads(t)
    BY <1>2, EffectFindVirtualPdo, <1>3 DEF Leads, KeepsUse, KeepsDel, KeepsFound, KeepsOp, Op, Owns, Adds, Rets, Lockable
  <1> QED
    BY <1>4, <1>5, <1>6, MakesSame, FormedStays

LEMMA FormedAddFails ==
  ASSUME Typed, Typed', Formed, NEW t \in Threads, OthersRest(t), AddFails(t)
  PROVE  Formed'
  <1>1. Pointers(t) /\ \A x \in Exts : Extension(x)
    BY DEF Formed
  <1>2. th[t].ret \in Rets /\ (Owns(t) => th[t].x # 0)
    <2>1. th[t].ret \in Rets
      BY DEF Typed, Types, ThreadTypes
    <2> QED
      BY <1>1, <2>1 DEF Pointers
  <1>3. \A x \in Exts : Listed(x)' => Made(x)
    BY EffectAddFails, ListsMade
  <1>4. \A x \in Exts : KeepsMake(x) /\ KeepsLife(x) /\ KeepsMark(x) /\ KeepsRelations(x)
    BY EffectAddFails, Still
  <1>5. Leads(t)
    BY <1>2, EffectAddFails, <1>1 DEF Leads, KeepsUse, KeepsDel, KeepsFound, KeepsOp, Op, Owns, Adds, Rets, Pointers
  <1> QED
    BY <1>3, <1>4, <1>5, MakesSame, FormedStays

LEMMA FormedReportAddedDevice ==
  ASSUME Typed, Typed', Formed, NEW t \in Threads, OthersRest(t), ReportAddedDevice(t)
  PROVE  Formed'
  <1>1. Pointers(t) /\ \A x \in Exts : Extension(x)
    BY DEF Formed
  <1>2. th[t].ret \in Rets /\ (Owns(t) => th[t].x # 0)
    <2>1. th[t].ret \in Rets
      BY DEF Typed, Types, ThreadTypes
    <2> QED
      BY <1>1, <2>1 DEF Pointers
  <1>3. \A x \in Exts : Listed(x)' => Made(x)
    BY EffectReportAddedDevice, ListsMade
  <1>4. \A x \in Exts : KeepsMake(x) /\ KeepsLife(x) /\ KeepsMark(x) /\ KeepsRelations(x)
    BY EffectReportAddedDevice, Still
  <1>5. Leads(t)
    BY <1>2, EffectReportAddedDevice DEF Leads, KeepsUse, KeepsDel, KeepsFound, KeepsOp, Op, Owns, Adds, Rets
  <1> QED
    BY <1>3, <1>4, <1>5, MakesSame, FormedStays

LEMMA FormedInsertInList ==
  ASSUME Typed, Typed', Formed, NEW t \in Threads, OthersRest(t), InsertInList(t)
  PROVE  Formed'
  <1>1. Pointers(t) /\ \A x \in Exts : Extension(x)
    BY DEF Formed
  <1>2. th[t].ret \in Rets /\ (Owns(t) => th[t].x # 0)
    <2>1. th[t].ret \in Rets
      BY DEF Typed, Types, ThreadTypes
    <2> QED
      BY <1>1, <2>1 DEF Pointers
  <1>3. th[t].pc = "insert" => th[t].n \in Exts /\ th[t].n # 0
    <2>1. PICK q \in ThreadTypes : q = th[t]
      BY DEF Typed, Types
    <2>2. q.n \in 0..MaxExts
      BY DEF ThreadTypes
    <2> QED
      BY <2>1, <2>2, Numerals DEF Typed, Control, Standing
  <1>4. \A x \in Exts : Listed(x)' => Made(x)
    BY EffectInsertInList, ListsMade, <1>1, <1>3 DEF Pointers, Filter
  <1>5. \A x \in Exts : KeepsMake(x) /\ KeepsLife(x) /\ KeepsMark(x) /\ KeepsRelations(x)
    BY EffectInsertInList, Still
  <1>6. Leads(t)
    BY <1>2, EffectInsertInList DEF Leads, KeepsUse, KeepsDel, KeepsFound, KeepsOp, Op, Owns, Adds, Rets
  <1> QED
    BY <1>4, <1>5, <1>6, MakesSame, FormedStays

LEMMA FormedAddedDevice ==
  ASSUME Typed, Typed', Formed, NEW t \in Threads, OthersRest(t), AddedDevice(t)
  PROVE  Formed'
  <1>1. Pointers(t) /\ \A x \in Exts : Extension(x)
    BY DEF Formed
  <1>2. th[t].ret \in Rets /\ (Owns(t) => th[t].x # 0)
    <2>1. th[t].ret \in Rets
      BY DEF Typed, Types, ThreadTypes
    <2> QED
      BY <1>1, <2>1 DEF Pointers
  <1>3. \A x \in Exts : Listed(x)' => Made(x)
    BY EffectAddedDevice, ListsMade
  <1>4. \A x \in Exts : KeepsMake(x) /\ KeepsLife(x) /\ KeepsMark(x) /\ KeepsRelations(x)
    BY EffectAddedDevice, Still
  <1>5. Leads(t)
    BY <1>2, EffectAddedDevice, <1>1 DEF Leads, KeepsUse, KeepsDel, KeepsFound, KeepsOp, Op, Owns, Adds, Rets, Pointers
  <1> QED
    BY <1>3, <1>4, <1>5, MakesSame, FormedStays

LEMMA FormedReportExisitingDevices ==
  ASSUME Typed, Typed', Formed, NEW t \in Threads, OthersRest(t), ReportExisitingDevices(t)
  PROVE  Formed'
  <1>1. Pointers(t) /\ \A x \in Exts : Extension(x)
    BY DEF Formed
  <1>2. th[t].ret \in Rets /\ (Owns(t) => th[t].x # 0)
    <2>1. th[t].ret \in Rets
      BY DEF Typed, Types, ThreadTypes
    <2> QED
      BY <1>1, <2>1 DEF Pointers
  <1>3. \A x \in Exts : Listed(x)' => Made(x)
    BY EffectReportExisitingDevices, ListsMade
  <1>4. \A x \in Exts : KeepsMake(x) /\ KeepsLife(x) /\ KeepsMark(x) /\ KeepsRelations(x)
    BY EffectReportExisitingDevices, Still
  <1>5. Leads(t)
    BY <1>2, EffectReportExisitingDevices DEF Leads, KeepsUse, KeepsDel, KeepsFound, KeepsOp, Op, Owns, Adds, Rets
  <1> QED
    BY <1>3, <1>4, <1>5, MakesSame, FormedStays

LEMMA FormedNextReportedDevice ==
  ASSUME Typed, Typed', Formed, NEW t \in Threads, OthersRest(t), NextReportedDevice(t)
  PROVE  Formed'
  <1>1. Pointers(t) /\ \A x \in Exts : Extension(x)
    BY DEF Formed
  <1>2. th[t].ret \in Rets /\ (Owns(t) => th[t].x # 0)
    <2>1. th[t].ret \in Rets
      BY DEF Typed, Types, ThreadTypes
    <2> QED
      BY <1>1, <2>1 DEF Pointers
  <1>3. \A x \in Exts : Listed(x)' => Made(x)
    BY EffectNextReportedDevice, ListsMade
  <1>4. \A x \in Exts : KeepsMake(x) /\ KeepsLife(x) /\ KeepsMark(x) /\ KeepsRelations(x)
    BY EffectNextReportedDevice, Still
  <1>5. Leads(t)
    BY <1>2, EffectNextReportedDevice, <1>1 DEF Leads, KeepsUse, KeepsDel, KeepsFound, KeepsOp, Op, Owns, Adds, Rets, Extension
  <1> QED
    BY <1>3, <1>4, <1>5, MakesSame, FormedStays

LEMMA FormedReportExistingDevice ==
  ASSUME Typed, Typed', Formed, NEW t \in Threads, OthersRest(t), ReportExistingDevice(t)
  PROVE  Formed'
  <1>1. Pointers(t) /\ \A x \in Exts : Extension(x)
    BY DEF Formed
  <1>2. th[t].ret \in Rets /\ (Owns(t) => th[t].x # 0)
    <2>1. th[t].ret \in Rets
      BY DEF Typed, Types, ThreadTypes
    <2> QED
      BY <1>1, <2>1 DEF Pointers
  <1>3. \A x \in Exts : Listed(x)' => Made(x)
    BY EffectReportExistingDevice, ListsMade
  <1>4. \A x \in Exts : KeepsMake(x) /\ KeepsLife(x) /\ KeepsMark(x) /\ KeepsRelations(x)
    BY EffectReportExistingDevice, Still
  <1>5. Leads(t)
    BY <1>2, EffectReportExistingDevice DEF Leads, KeepsUse, KeepsDel, KeepsFound, KeepsOp, Op, Owns, Adds, Rets
  <1> QED
    BY <1>3, <1>4, <1>5, MakesSame, FormedStays

LEMMA FormedReadState ==
  ASSUME Typed, Typed', Formed, NEW t \in Threads, OthersRest(t), ReadState(t)
  PROVE  Formed'
  <1>1. Pointers(t) /\ \A x \in Exts : Extension(x)
    BY DEF Formed
  <1>2. th[t].ret \in Rets /\ (Owns(t) => th[t].x # 0)
    <2>1. th[t].ret \in Rets
      BY DEF Typed, Types, ThreadTypes
    <2> QED
      BY <1>1, <2>1 DEF Pointers
  <1>3. \A x \in Exts : Listed(x)' => Made(x)
    BY EffectReadState, ListsMade
  <1>4. \A x \in Exts : KeepsMake(x) /\ KeepsLife(x) /\ KeepsMark(x) /\ KeepsRelations(x)
    BY EffectReadState, Still
  <1>5. Leads(t)
    BY <1>2, EffectReadState DEF Leads, KeepsUse, KeepsDel, KeepsFound, KeepsOp, Op, Owns, Adds, Rets
  <1> QED
    BY <1>3, <1>4, <1>5, MakesSame, FormedStays

LEMMA FormedReportExistingState ==
  ASSUME Typed, Typed', Formed, NEW t \in Threads, OthersRest(t), ReportExistingState(t)
  PROVE  Formed'
  <1>1. Pointers(t) /\ \A x \in Exts : Extension(x)
    BY DEF Formed
  <1>2. th[t].ret \in Rets /\ (Owns(t) => th[t].x # 0)
    <2>1. th[t].ret \in Rets
      BY DEF Typed, Types, ThreadTypes
    <2> QED
      BY <1>1, <2>1 DEF Pointers
  <1>3. \A x \in Exts : Listed(x)' => Made(x)
    BY EffectReportExistingState, ListsMade
  <1>4. \A x \in Exts : KeepsMake(x) /\ KeepsLife(x) /\ KeepsMark(x) /\ KeepsRelations(x)
    BY EffectReportExistingState, Still
  <1>5. Leads(t)
    BY <1>2, EffectReportExistingState DEF Leads, KeepsUse, KeepsDel, KeepsFound, KeepsOp, Op, Owns, Adds, Rets
  <1> QED
    BY <1>3, <1>4, <1>5, MakesSame, FormedStays


\* An extension is made.
LEMMA FormedGrows ==
  ASSUME Typed, Typed', Formed, NEW t \in Threads, OthersRest(t), Leads(t),
         NEW n \in Exts, ext[n].life = "none",
         \A x \in Exts : x # n => KeepsMake(x) /\ KeepsLife(x) /\ KeepsMark(x) /\ KeepsRelations(x),
         Made(n)', ext'[n].shadow = Null, ext'[n].dev \in Devices, ~ext'[n].marked,
         Filter(n)' => \E v \in Exts : ext'[n].vpdo = v /\ Physical(v) /\ ext[v].dev = ext'[n].dev,
         \A x \in Exts : Listed(x)' => Listed(x) \/ x = n
  PROVE  Formed'
  <1>1. Settled
    BY DEF Settled, Made, KeepsLife
  <1>2. ASSUME NEW x \in Exts, x # n
        PROVE  Extension(x)'
    <2>1. Extension(x) /\ (Listed(x)' => Made(x))
      BY <1>2 DEF Formed, Extension
    <2>2. Makes(x)
      BY <1>2, <2>1, MakesSame
    <2> QED
      BY <1>1, <2>1, <2>2, ExtensionMoves
  <1>3. Extension(n)'
    <2>1. Related(ext[n].shadow)'
      BY DEF Related, Single, Null
    <2>2. ASSUME Filter(n)'
          PROVE  /\ ext'[n].vpdo # 0 /\ Physical(ext[n].vpdo)'
                 /\ ext'[ext'[n].vpdo].dev = ext'[n].dev
      <3>1. PICK v \in Exts : ext'[n].vpdo = v /\ Physical(v) /\ ext[v].dev = ext'[n].dev
        BY <2>2
      <3>2. v # 0 /\ Physical(v)'
        BY <1>1, <3>1, KindsStay, Numerals
      <3>3. ext'[v].dev = ext[v].dev
        BY <1>1, <3>1 DEF Settled, Physical, KeepsMake
      <3> QED
        BY <3>1, <3>2, <3>3
    <2> QED
      BY <2>1, <2>2 DEF Extension
  <1>4. \A x \in Exts : Extension(x)'
    BY <1>2, <1>3
  <1> QED
    BY <1>1, <1>4, FormedMoves

LEMMA NewVirtualIs ==
  ASSUME NEW d
  PROVE  LET p == NewVirtual(d) IN
         /\ p.life = "live" /\ p.kind \in {"pdo", "lower"} /\ p.dev = d /\ ~p.marked /\ ~p.closing
         /\ p.rels = Null /\ p.shadow = Null /\ p.holders = 0 /\ p.refs = 1
         /\ p.rel = (IF p.kind = "pdo" THEN 1 ELSE 0)
  BY DEF NewVirtual, Added, NoExt

LEMMA NewFilterIs ==
  ASSUME NEW d, NEW x
  PROVE  LET p == [Added(d, "filter") EXCEPT !.vpdo = x] IN
         /\ p.life = "live" /\ p.kind = "filter" /\ p.dev = d /\ p.vpdo = x /\ ~p.marked /\ ~p.closing
         /\ p.rels = Null /\ p.shadow = Null /\ p.holders = 0 /\ p.refs = 0 /\ p.rel = 0
  BY DEF Added, NoExt

LEMMA FormedAddDeviceFTI ==
  ASSUME Typed, Typed', Formed, NEW t \in Threads, OthersRest(t), AddDeviceFTI(t)
  PROVE  Formed'
  <1>1. Pointers(t)
    BY DEF Formed
  <1>2. Leads(t)
    BY <1>1, EffectAddDeviceFTI DEF Leads, KeepsUse, KeepsDel, KeepsFound, KeepsOp, Op, Owns, Adds, Pointers
  <1>3. CASE ext' = ext /\ list' = list
    <2>1. \A x \in Exts : Listed(x)' => Made(x)
      BY <1>3, ListsMade
    <2>2. \A x \in Exts : Makes(x)
      BY <1>3, <2>1, Still, MakesSame
    <2> QED
      BY <1>2, <2>2, FormedStays
  <1>4. CASE ~(ext' = ext /\ list' = list)
    <2>1. PICK n \in Exts : n = Fresh
      BY <1>4, EffectAddDeviceFTI
    <2>2. /\ ext[n].life = "none" /\ th[t].pc = "next" /\ th[t].ops # <<>>
          /\ \A x \in Exts : x # n => ext'[x] = ext[x]
          /\ ext'[n] = NewVirtual(Op(t).dev) /\ list' = Append(list, n)
      BY <1>4, <2>1, EffectAddDeviceFTI
    <2>3. Op(t).dev \in Devices
      <3>1. PICK q \in ThreadTypes : q = th[t]
        BY DEF Typed, Types
      <3> QED
        BY <2>2, <3>1, OpTyped DEF Op, Call
    <2>4. /\ Made(n)' /\ ext'[n].shadow = Null /\ ext'[n].dev \in Devices
          /\ ~ext'[n].marked /\ ext'[n].kind # "filter"
      BY <2>2, <2>3, NewVirtualIs DEF Made
    <2>5. \A x \in Exts : Listed(x)' => Listed(x) \/ x = n
      BY <2>2, ListedMoves
    <2>6. \A x \in Exts : x # n => KeepsMake(x) /\ KeepsLife(x) /\ KeepsMark(x) /\ KeepsRelations(x)
      BY <2>2 DEF KeepsMake, KeepsLife, KeepsMark, KeepsRelations
    <2>7. ~Filter(n)'
      BY <2>4, <2>1 DEF Filter, Virtual
    <2> QED
      BY <1>2, <2>2, <2>4, <2>5, <2>6, <2>1, <2>7, FormedGrows
  <1> QED
    BY <1>3, <1>4

LEMMA FormedAddVirtualDeviceForPdo ==
  ASSUME Typed, Typed', Formed, NEW t \in Threads, OthersRest(t), AddVirtualDeviceForPdo(t)
  PROVE  Formed'
  <1>1. Pointers(t) /\ th[t].ret \in Rets
    BY DEF Formed, Typed, Types, ThreadTypes
  <1>2. Leads(t)
    BY <1>1, EffectAddVirtualDeviceForPdo DEF Leads, KeepsUse, KeepsDel, KeepsFound, KeepsOp, Op, Owns, Adds, Pointers, Rets
  <1>3. CASE ext' = ext /\ list' = list
    <2>1. \A x \in Exts : Listed(x)' => Made(x)
      BY <1>3, ListsMade
    <2>2. \A x \in Exts : Makes(x)
      BY <1>3, <2>1, Still, MakesSame
    <2> QED
      BY <1>2, <2>2, FormedStays
  <1>4. CASE ~(ext' = ext /\ list' = list)
    <2>1. PICK n \in Exts : n = Fresh
      BY <1>4, EffectAddVirtualDeviceForPdo
    <2>2. /\ ext[n].life = "none" /\ th[t].pc = "virtual"
          /\ \A x \in Exts : x # n => ext'[x] = ext[x]
          /\ ext'[n] = NewVirtual(Op(t).dev) /\ list' = Append(list, n)
      BY <1>4, <2>1, EffectAddVirtualDeviceForPdo
    <2>3. Op(t).dev \in Devices
      <3>1. PICK q \in ThreadTypes : q = th[t]
        BY DEF Typed, Types
      <3>2. q.ops # <<>>
        BY <2>2, <3>1 DEF Typed, Control, Standing
      <3> QED
        BY <3>1, <3>2, OpTyped DEF Op, Call
    <2>4. /\ Made(n)' /\ ext'[n].shadow = Null /\ ext'[n].dev \in Devices
          /\ ~ext'[n].marked /\ ext'[n].kind # "filter"
      BY <2>2, <2>3, NewVirtualIs DEF Made
    <2>5. \A x \in Exts : Listed(x)' => Listed(x) \/ x = n
      BY <2>2, ListedMoves
    <2>6. \A x \in Exts : x # n => KeepsMake(x) /\ KeepsLife(x) /\ KeepsMark(x) /\ KeepsRelations(x)
      BY <2>2 DEF KeepsMake, KeepsLife, KeepsMark, KeepsRelations
    <2>7. ~Filter(n)'
      BY <2>4, <2>1 DEF Filter, Virtual
    <2> QED
      BY <1>2, <2>2, <2>4, <2>5, <2>6, <2>1, <2>7, FormedGrows
  <1> QED
    BY <1>3, <1>4

LEMMA FormedAttachFilterDevice ==
  ASSUME Typed, Typed', Formed, NEW t \in Threads, OthersRest(t), AttachFilterDevice(t)
  PROVE  Formed'
  <1>1. Pointers(t)
    BY DEF Formed
  <1>2. PICK n \in Exts : n = Fresh
    BY EffectAttachFilterDevice
  <1>3. /\ th[t].pc = "create" /\ th'[t].pc = "report" /\ th'[t].n = n /\ ext[n].life = "none"
        /\ \A x \in Exts : x # n => KeepsMake(x) /\ KeepsLife(x) /\ KeepsMark(x) /\ KeepsRelations(x)
        /\ ext'[n] = [Added(Op(t).dev, "filter") EXCEPT !.vpdo = th[t].x] /\ list' = list
    BY <1>2, EffectAttachFilterDevice
  <1>4. Op(t).dev \in Devices
    <2>1. PICK q \in ThreadTypes : q = th[t]
      BY DEF Typed, Types
    <2>2. q.ops # <<>>
      BY <1>3, <2>1 DEF Typed, Control, Standing
    <2> QED
      BY <2>1, <2>2, OpTyped DEF Op, Call
  <1>5. /\ Made(n)' /\ Filter(n)' /\ ext'[n].shadow = Null /\ ext'[n].dev = Op(t).dev
        /\ ~ext'[n].marked /\ ext'[n].vpdo = th[t].x
    BY <1>3, NewFilterIs DEF Made, Filter, Virtual
  <1>6. PICK v \in Exts : v = th[t].x /\ Physical(v) /\ ext[v].dev = Op(t).dev
    <2>1. th[t].x \in 0..MaxExts
      <3>1. PICK q \in ThreadTypes : q = th[t]
        BY DEF Typed, Types
      <3> QED
        BY <3>1 DEF ThreadTypes
    <2>2. Owns(t) /\ Adds(t)
      BY <1>3 DEF Owns, Adds
    <2> QED
      BY <1>1, <2>1, <2>2, Numerals DEF Pointers
  <1>7. Leads(t)
    <2>1. th[t].n' = n
      BY <1>3
    <2>2. Filter(th[t].n)'
      BY <1>5, <2>1
    <2> QED
      BY <1>1, <1>3, <2>2, EffectAttachFilterDevice DEF Leads, KeepsUse, KeepsDel, KeepsFound, KeepsOp, Op, Owns, Adds, Pointers
  <1>8. \A x \in Exts : Listed(x)' => Listed(x) \/ x = n
    BY <1>3, ListedMoves
  <1> QED
    BY <1>3, <1>4, <1>5, <1>6, <1>7, <1>8, FormedGrows

-----------------------------------------------------------------------------
(* The first two parts hold in every state *)

\* The extensions of the stacks that exist at first: an odd one is the virtual
\* PDO of a device, the even one behind it the filter device.
Half(x) == (x + 1) \div 2
LEMMA Halves ==
  ASSUME NEW n \in Nat, NEW x \in Nat, x # 0, x <= 2 * n
  PROVE  /\ Half(x) \in 1..n
         /\ x % 2 # 1 => /\ x - 1 \in Nat \ {0} /\ x - 1 <= 2 * n /\ x - 1 # x /\ (x - 1) % 2 = 1
                         /\ Half(x - 1) = Half(x)
  BY DEF Half

LEMMA BootIs ==
  ASSUME Init, NEW x \in Exts
  PROVE  /\ x > 2 * Len(Boot) => ext[x] = NoExt
         /\ x <= 2 * Len(Boot) =>
              /\ ext[x] = BootExt(x) /\ Half(x) \in 1..Len(Boot) /\ Boot[Half(x)] \in PnpDevices
              /\ x % 2 # 1 => /\ x - 1 \in Exts /\ x - 1 <= 2 * Len(Boot) /\ (x - 1) % 2 = 1
                              /\ Half(x - 1) = Half(x)
  <1>1. Len(Boot) \in Nat /\ x \in Nat /\ x # 0 /\ Boot \in Seq(PnpDevices) /\ x <= MaxExts /\ MaxExts \in Nat
    BY PnPFilterAssumption DEF Exts
  <1>2. ext[x] = IF x <= 2 * Len(Boot) THEN BootExt(x) ELSE NoExt
    BY DEF Init
  <1>3. x <= 2 * Len(Boot) => /\ Half(x) \in 1..Len(Boot)
                              /\ x % 2 # 1 => /\ x - 1 \in Nat \ {0} /\ x - 1 <= 2 * Len(Boot) /\ (x - 1) % 2 = 1
                                              /\ Half(x - 1) = Half(x)
    BY <1>1, Halves
  <1>4. x <= 2 * Len(Boot) => Boot[Half(x)] \in PnpDevices
    BY <1>1, <1>3
  <1>5. x - 1 \in Nat \ {0} => x - 1 \in Exts
    BY <1>1 DEF Exts
  <1>6. x > 2 * Len(Boot) => ~(x <= 2 * Len(Boot))
    BY <1>1
  <1> QED
    BY <1>2, <1>3, <1>4, <1>5, <1>6

LEMMA BootFields ==
  ASSUME NEW x
  PROVE  LET p == BootExt(x) IN
         /\ p.life = "live" /\ p.dev = Boot[Half(x)] /\ ~p.marked /\ ~p.closing /\ p.holders = 0
         /\ p.rels = Null /\ p.shadow = Null /\ p.flink = 0 /\ p.state = "Started"
         /\ x % 2 = 1 => p.kind = "pdo" /\ p.refs = 2 /\ p.rel = 2 /\ p.vpdo = 0 /\ p.attached
         /\ x % 2 # 1 => p.kind = "filter" /\ p.refs = 0 /\ p.rel = 0 /\ p.vpdo = x - 1 /\ ~p.attached
  BY DEF BootExt, NoExt, Half

LEMMA NoFields ==
  /\ NoExt.life = "none" /\ NoExt.kind = "pdo" /\ ~NoExt.marked /\ ~NoExt.closing /\ NoExt.holders = 0
  /\ NoExt.rels = Null /\ NoExt.shadow = Null /\ NoExt.flink = 0 /\ NoExt.state = "NotStarted"
  /\ NoExt.refs = 0 /\ NoExt.rel = 0 /\ NoExt.vpdo = 0 /\ ~NoExt.attached
  BY DEF NoExt

LEMMA NoTyped ==
  NoExt \in ExtTypes
  BY Positions, Numerals DEF NoExt, ExtTypes

LEMMA BootTyped ==
  ASSUME NEW x \in Exts, Boot[Half(x)] \in Devices, x % 2 # 1 => x - 1 \in Exts
  PROVE  BootExt(x) \in ExtTypes
  <1> DEFINE d == Boot[Half(x)]
  <1>1. CASE x % 2 = 1
    <2>1. BootExt(x) = [life |-> "live", kind |-> "pdo", dev |-> d, refs |-> 2,
                        rel |-> 2, marked |-> FALSE, state |-> "Started", holders |-> 0, closing |-> FALSE,
                        vpdo |-> 0, attached |-> TRUE, rels |-> Null, shadow |-> Null, flink |-> 0]
      BY <1>1 DEF BootExt, NoExt, Half
    <2> HIDE DEF d
    <2> QED
      BY <2>1, Positions, Numerals DEF ExtTypes, d
  <1>2. CASE x % 2 # 1
    <2>1. BootExt(x) = [life |-> "live", kind |-> "filter", dev |-> d, refs |-> 0,
                        rel |-> 0, marked |-> FALSE, state |-> "Started", holders |-> 0, closing |-> FALSE,
                        vpdo |-> x - 1, attached |-> FALSE, rels |-> Null, shadow |-> Null, flink |-> 0]
      BY <1>2 DEF BootExt, NoExt, Half
    <2>2. x - 1 \in 0..MaxExts
      BY <1>2, Numerals
    <2> HIDE DEF d
    <2> QED
      BY <2>1, <2>2, Positions, Numerals DEF ExtTypes, d
  <1> QED
    BY <1>1, <1>2

LEMMA BeginsTyped ==
  Init => Typed
  <1> SUFFICES ASSUME Init
               PROVE  Typed
    OBVIOUS
  <1>1. PnpDevices \subseteq Devices /\ Len(Boot) \in Nat /\ 2 * Len(Boot) <= MaxExts
    BY PnPFilterAssumption
  <1>2. ext \in [Exts -> ExtTypes]
    <2>1. ASSUME NEW x \in Exts
          PROVE  ext[x] \in ExtTypes
      <3>1. x \in Nat
        BY Numerals
      <3>2. CASE x <= 2 * Len(Boot)
        BY <1>1, <3>2, BootIs, BootTyped
      <3>3. CASE x > 2 * Len(Boot)
        BY <3>3, BootIs, NoTyped
      <3> QED
        BY <1>1, <3>1, <3>2, <3>3
    <2>2. ext = [x \in Exts |-> ext[x]]
      BY DEF Init
    <2> QED
      BY <2>1, <2>2
  <1>3. PICK script \in [Threads -> UNION {Scripts[t] : t \in Threads}] :
          /\ \A t \in Threads : script[t] \in Scripts[t]
          /\ th = [t \in Threads |-> [Idle EXCEPT !.ops = script[t]]]
    BY DEF Init
  <1>4. ASSUME NEW t \in Threads
        PROVE  script[t] \in Seq(Call) /\ \A i \in DOMAIN script[t] : script[t][i] \in Calls(t)
    <2>1. script[t] \in Scripts[t]
      BY <1>3
    <2>2. Scripts[t] \in SUBSET Seq(Call)
      BY PnPFilterAssumption DEF Call, Serial
    <2>3. \A i \in DOMAIN script[t] : script[t][i] \in Calls(t)
      BY <2>1 DEF Calls
    <2> QED
      BY <2>1, <2>2, <2>3
  <1>5. ASSUME NEW t \in Threads
        PROVE  th[t] \in ThreadTypes /\ Standing(t, th[t])
    <2>1. th[t] = [Idle EXCEPT !.ops = script[t]]
      BY <1>3
    <2>2. PICK r \in ThreadTypes : r = [Idle EXCEPT !.ops = script[t]]
      BY <1>4, IdleTyped
    <2>3. Standing(t, r)
      BY <1>4, <2>2 DEF Standing, Idle, Null
    <2> QED
      BY <2>1, <2>2, <2>3
  <1>6. th \in [Threads -> ThreadTypes]
    BY <1>3, <1>5
  <1>7. list \in Seq(Exts)
    <2>1. PICK n \in Nat : n = 2 * Len(Boot)
      BY <1>1
    <2>2. \A i \in 1..n : i \in Exts
      BY <1>1, <2>1, PnPFilterAssumption DEF Exts
    <2>3. list = [i \in 1..n |-> i]
      BY <2>1 DEF Init
    <2> QED
      BY <2>2, <2>3
  <1>8. /\ hooked \subseteq Devices /\ known \in [Devices \cup Exts -> States \cup {"none"}]
        /\ owner \in Threads \cup {Nobody} /\ spinning \in BOOLEAN
    <2>1. hooked \subseteq Devices
      BY <1>1, PnPFilterAssumption DEF Init
    <2> QED
      BY <2>1 DEF Init
  <1> QED
    BY <1>2, <1>5, <1>6, <1>7, <1>8 DEF Typed, Types, Control

LEMMA InitThread ==
  ASSUME Init, NEW t \in Threads
  PROVE  /\ th[t].pc = "next" /\ th[t].x = 0 /\ th[t].h = 0 /\ th[t].f = 0 /\ th[t].n = 0 /\ th[t].del = 0
         /\ th[t].phase = "" /\ th[t].ret = "done" /\ th[t].request = 0
         /\ th[t].old = Null /\ th[t].shadow = Null /\ th[t].new = Null /\ th[t].todo = <<>>
  <1>1. PICK ops : th[t] = [Idle EXCEPT !.ops = ops]
    BY DEF Init
  <1> QED
    BY <1>1 DEF Idle

LEMMA BeginsFormed ==
  Init => Formed
  <1> SUFFICES ASSUME Init
               PROVE  Formed
    OBVIOUS
  <1>0. Related(Null) /\ Pdos(<<>>)
    BY DEF Related, Single, Null, Pdos
  <1>1. ASSUME NEW t \in Threads
        PROVE  Pointers(t)
    BY <1>0, InitThread DEF Pointers, Owns, Adds
  <1>2. ASSUME NEW x \in Exts
        PROVE  Extension(x)
    <2>0. Len(Boot) \in Nat /\ x \in Nat /\ PnpDevices \subseteq Devices
      BY PnPFilterAssumption, Numerals
    <2>1. Listed(x) => x <= 2 * Len(Boot)
      <3>1. DOMAIN list = 1..2 * Len(Boot) /\ \A i \in 1..2 * Len(Boot) : list[i] = i
        BY <2>0 DEF Init
      <3> QED
        BY <2>0, <3>1 DEF Listed
    <2>2. CASE x <= 2 * Len(Boot)
      <3>1. /\ ext[x].life = "live" /\ ext[x].dev = Boot[Half(x)] /\ ext[x].dev \in Devices /\ ~ext[x].marked
            /\ ext[x].shadow = Null
        BY <2>0, <2>2, BootIs, BootFields
      <3>2. ASSUME ext[x].kind = "filter"
            PROVE  /\ ext[x].vpdo # 0 /\ Physical(ext[x].vpdo)
                   /\ ext[ext[x].vpdo].dev = ext[x].dev
        <4>1. x % 2 # 1 /\ ext[x].vpdo = x - 1
          BY <2>2, <3>2, BootIs, BootFields
        <4>2. /\ x - 1 \in Exts /\ x - 1 <= 2 * Len(Boot) /\ (x - 1) % 2 = 1 /\ Half(x - 1) = Half(x)
          BY <2>2, <4>1, BootIs
        <4>3. ext[x - 1].life = "live" /\ ext[x - 1].dev = Boot[Half(x)] /\ ext[x - 1].kind = "pdo"
          BY <4>2, BootIs, BootFields
        <4> QED
          BY <3>1, <4>1, <4>2, <4>3, Numerals DEF Physical, Made, Virtual
      <3> QED
        BY <1>0, <3>1, <3>2 DEF Extension, Made, Filter, Virtual
    <2>3. CASE x > 2 * Len(Boot)
      <3>1. ~Listed(x) /\ ext[x].life = "none" /\ ext[x].shadow = Null
        BY <2>0, <2>1, <2>3, BootIs, NoFields
      <3> QED
        BY <1>0, <3>1 DEF Extension, Made, Filter
    <2> QED
      BY <2>0, <2>2, <2>3
  <1> QED
    BY <1>1, <1>2 DEF Formed

Step(t) == \/ Deletion(t) \/ Relations(t) \/ Requests(t) \/ Hook(t)
           \/ Adding(t) \/ Reporting(t) \/ Done(t)

LEMMA TypedStep ==
  ASSUME Typed, NEW t \in Threads, Step(t)
  PROVE  Typed' /\ OthersRest(t)
  <1>1. CASE Deletion(t)
    BY <1>1, TypedRender, TypedCloseVirtualPdo, TypedDeleteVirtualPdoByExtensionInternal, TypedDeleteVirtualPdoByExtension, TypedDropInitialReference, TypedDereferenceVirtualPdo, Zenon DEF Deletion
  <1>2. CASE Relations(t)
    BY <1>2, TypedProcessNewRelations, TypedRecordShadow, TypedReleaseOldRelations, TypedReleaseOne, TypedReleasedAll, Zenon DEF Relations
  <1>3. CASE Requests(t)
    BY <1>3, TypedDispatchRequest, TypedFilterPass, TypedQueryDeviceRelations, TypedQueryCompleted, TypedStartDevice, TypedStarted, TypedRemoveDevice, TypedFastIoDetachDevice, TypedRemoveDeviceFromTheList, TypedFreeAllDeviceRelations, TypedClearFilterDeviceExtension, Zenon DEF Requests
  <1>4. CASE Hook(t)
    BY <1>4, TypedPnPMajorHookDispatch, TypedSetPdoState, TypedCallOriginal, TypedDriverUnloadHook, Zenon DEF Hook
  <1>5. CASE Adding(t)
    BY <1>5, TypedAddDevice, TypedAddDeviceFTI, TypedFindVirtualPdo, TypedAddVirtualDeviceForPdo, TypedAddFails, TypedAttachFilterDevice, TypedReportAddedDevice, TypedInsertInList, TypedAddedDevice, Zenon DEF Adding
  <1>6. CASE Reporting(t)
    BY <1>6, TypedReportExisitingDevices, TypedNextReportedDevice, TypedReportExistingDevice, TypedReadState, TypedReportExistingState, Zenon DEF Reporting
  <1>7. CASE Done(t)
    BY <1>7, TypedDone, Zenon
  <1> QED
    BY <1>1, <1>2, <1>3, <1>4, <1>5, <1>6, <1>7 DEF Step

LEMMA TypedSteps ==
  Typed /\ [Next]_vars => Typed'
  <1> SUFFICES ASSUME Typed, [Next]_vars
               PROVE  Typed'
    OBVIOUS
  <1>1. CASE UNCHANGED vars
    BY <1>1 DEF vars, Typed, Types, Control
  <1>2. CASE Next
    <2>1. PICK t \in Threads : Step(t)
      BY <1>2 DEF Next, Step
    <2> QED
      BY <2>1, TypedStep
  <1> QED
    BY <1>1, <1>2

LEMMA FormedStep ==
  ASSUME Typed, Typed', Formed, NEW t \in Threads, OthersRest(t), Step(t)
  PROVE  Formed'
  <1>1. CASE Deletion(t)
    BY <1>1, FormedRender, FormedCloseVirtualPdo, FormedDeleteVirtualPdoByExtensionInternal, FormedDeleteVirtualPdoByExtension, FormedDropInitialReference, FormedDereferenceVirtualPdo, Zenon DEF Deletion
  <1>2. CASE Relations(t)
    BY <1>2, FormedProcessNewRelations, FormedRecordShadow, FormedReleaseOldRelations, FormedReleaseOne, FormedReleasedAll, Zenon DEF Relations
  <1>3. CASE Requests(t)
    BY <1>3, FormedDispatchRequest, FormedFilterPass, FormedQueryDeviceRelations, FormedQueryCompleted, FormedStartDevice, FormedStarted, FormedRemoveDevice, FormedFastIoDetachDevice, FormedRemoveDeviceFromTheList, FormedFreeAllDeviceRelations, FormedClearFilterDeviceExtension, Zenon DEF Requests
  <1>4. CASE Hook(t)
    BY <1>4, FormedPnPMajorHookDispatch, FormedSetPdoState, FormedCallOriginal, FormedDriverUnloadHook, Zenon DEF Hook
  <1>5. CASE Adding(t)
    BY <1>5, FormedAddDevice, FormedAddDeviceFTI, FormedFindVirtualPdo, FormedAddVirtualDeviceForPdo, FormedAddFails, FormedAttachFilterDevice, FormedReportAddedDevice, FormedInsertInList, FormedAddedDevice, Zenon DEF Adding
  <1>6. CASE Reporting(t)
    BY <1>6, FormedReportExisitingDevices, FormedNextReportedDevice, FormedReportExistingDevice, FormedReadState, FormedReportExistingState, Zenon DEF Reporting
  <1>7. CASE Done(t)
    BY <1>7, FormedDone, Zenon
  <1> QED
    BY <1>1, <1>2, <1>3, <1>4, <1>5, <1>6, <1>7 DEF Step

LEMMA FormedSteps ==
  Typed /\ Typed' /\ Formed /\ [Next]_vars => Formed'
  <1> SUFFICES ASSUME Typed, Typed', Formed, [Next]_vars
               PROVE  Formed'
    OBVIOUS
  <1>1. CASE UNCHANGED vars
    BY <1>1 DEF vars, Formed, Pointers, Extension, Physical, Filter, Made, Virtual, Related, Pdos, Owns, Adds, Op, Listed
  <1>2. CASE Next
    <2>1. PICK t \in Threads : Step(t)
      BY <1>2 DEF Next, Step
    <2>2. OthersRest(t)
      BY <2>1, TypedStep
    <2> QED
      BY <2>1, <2>2, FormedStep
  <1> QED
    BY <1>1, <1>2

\* The types are kept, every thread stands where its operation can have led it.
THEOREM AlwaysTyped == Spec => []Typed
  BY BeginsTyped, TypedSteps, PTL DEF Spec

\* Every pointer of a thread, of a filter device and of kept relations is to an
\* extension of its kind: OcFilterReferenceVirtualPdoExtension is called for
\* virtual PDOs only.
THEOREM AlwaysFormed == Spec => []Formed
  BY BeginsFormed, FormedSteps, AlwaysTyped, PTL DEF Spec
=============================================================================
