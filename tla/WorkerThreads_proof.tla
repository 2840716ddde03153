------------------------- MODULE WorkerThreads_proof -------------------------
(***************************************************************************)
(* Machine-checked proofs about WorkerThreads, for any number of threads,  *)
(* any finite set of posters and any heap.                                 *)
(***************************************************************************)
EXTENDS WorkerThreads, FiniteSetTheorems, TLAPS

Places == [at : {"none", "wait", "remove", "wakeNext", "call", "free", "release", "check",
                 "exited"},
           block : Blocks \cup {None}, onStack : BOOLEAN]
Posts  == [at : {"idle", "allocate", "insert", "signal", "wait", "dereference"},
           block : Blocks \cup {None}]
Owners == [at : {"creating", "running", "stopping", "wakeup", "join", "free", "lost", "stopped"},
           thread : Nat \cup {None}, lost : BOOLEAN]

Types == /\ list \in Seq(Blocks) /\ listEvent \in BOOLEAN /\ listRef \in Int
         /\ block \in [Blocks -> {"none", "posted", "called", "signalled"}]
         /\ poster \in [Posters -> Posts]
         /\ \A p \in Posters : poster[p].block \in Heap \cup {p, None}
         /\ worker \in [Workers -> Places]
         /\ wakeup \in [Workers -> BOOLEAN] /\ terminate \in [Workers -> BOOLEAN]
         /\ object \in [Workers -> BOOLEAN]
         /\ owner \in Owners
         /\ owner.at \in {"creating", "wakeup", "join", "free", "lost"} => owner.thread \in Workers
         /\ owner.lost => owner.at \in {"stopping", "wakeup", "free", "lost"}
         /\ owner.at \in {"free", "lost"} => owner.lost
         /\ owner.at = "stopping" => owner.thread \in Nat \ {0}

-----------------------------------------------------------------------------
(* Who has a block *)

InList(b) == \E i \in DOMAIN list : list[i] = b
Inserts(p, b) == poster[p].at = "insert" /\ poster[p].block = b
Has(w, b) == worker[w].block = b /\ ~(worker[w].at = "release" /\ worker[w].onStack)

NoItemTwice == \A i, j \in DOMAIN list : list[i] = list[j] => i = j
ItemsArePosted == \A b \in Blocks : InList(b) =>
  block[b] = "posted" /\ \A p \in Posters : ~Inserts(p, b)
InsertersHaveBlocks == \A p \in Posters : poster[p].at = "insert" =>
  /\ poster[p].block \in Blocks /\ block[poster[p].block] = "posted"
  /\ \A q \in Posters : Inserts(q, poster[p].block) => q = p
WorkersHaveBlocks == \A w \in Workers :
  worker[w].block \in Blocks <=> worker[w].at \in {"wakeNext", "call", "free", "release"}
HadIsUsed == \A w \in Workers, b \in Blocks : Has(w, b) =>
  /\ worker[w].at \in {"wakeNext", "call"} => block[b] = "posted"
  /\ worker[w].at = "free" => block[b] = "called"
  /\ worker[w].at = "release" => block[b] = "called" /\ b \in Heap
  /\ ~InList(b) /\ \A p \in Posters : ~Inserts(p, b)
  /\ \A v \in Workers : Has(v, b) => v = w

\* A block is in one place: in the list, on its way there, or in the hands of
\* one thread.  What a thread has read of a block on a stack is not the block.
BlocksInv == /\ NoItemTwice /\ ItemsArePosted /\ InsertersHaveBlocks
             /\ WorkersHaveBlocks /\ HadIsUsed

-----------------------------------------------------------------------------
(* Who has a reference to the list *)

Users     == {p \in Posters : poster[p].at # "idle"}
Joined(w) == /\ owner.at \in {"stopping", "wakeup", "join", "stopped"} /\ ~owner.lost
             /\ owner.at = "stopped" \/ w < owner.thread
Counted   == {w \in Workers : worker[w].at # "none" /\ ~Joined(w)}

CreatedSoFar == owner.at = "creating" =>
  \A w \in Workers : worker[w].at = "none" <=> w >= owner.thread
CreatedInOrder == \A v, w \in Workers : v < w /\ worker[w].at # "none" => worker[v].at # "none"
JoinedHaveExited == \A w \in Workers : Joined(w) => worker[w].at \in {"none", "exited"}
AwaitedIsThere == owner.at \in {"wakeup", "join"} => worker[owner.thread].at # "none"
LostIsLast == owner.lost =>
  /\ owner.thread \in Workers /\ worker[owner.thread].at # "none"
  /\ \A w \in Workers : w > owner.thread => worker[w].at = "none"
UsedWhileRunning == owner.at # "running" => Users = {}

\* The threads that have been created and not yet waited for, of which there
\* are none after the first that could not be had.
ThreadsInv == /\ CreatedSoFar /\ CreatedInOrder /\ JoinedHaveExited /\ AwaitedIsThere
              /\ LostIsLast /\ UsedWhileRunning

\* The list object has a reference for each of them, one for each poster and
\* that of the pool, and one more for a thread that could not be referenced.
RefsAreExact == listRef = Cardinality(Users) + Cardinality(Counted)
                          + (IF owner.at = "stopped" THEN 0 ELSE 1)
                          + (IF owner.lost /\ owner.at # "lost" THEN 1 ELSE 0)

\* Each of them has its object, until the lost one is waited for.
ObjectsInv == \A w \in Counted : object[w] \/ (owner.at = "lost" /\ owner.thread = w)

-----------------------------------------------------------------------------
(* The list of items *)

LEMMA AppendedList ==
  ASSUME list \in Seq(Blocks), NoItemTwice, NEW f \in Blocks, ~InList(f), list' = Append(list, f)
  PROVE  /\ list' \in Seq(Blocks) /\ NoItemTwice'
         /\ \A b : InList(b)' <=> InList(b) \/ b = f
  <1>1. /\ list' \in Seq(Blocks) /\ Len(list') = Len(list) + 1 /\ Len(list) \in Nat
        /\ DOMAIN list = 1..Len(list) /\ DOMAIN list' = 1..Len(list')
        /\ \A i \in 1..Len(list) : list'[i] = list[i]
        /\ list'[Len(list) + 1] = f
    OBVIOUS
  <1>2. ASSUME NEW b PROVE InList(b)' <=> InList(b) \/ b = f
    BY <1>1 DEF InList
  <1>3. NoItemTwice'
    <2> SUFFICES ASSUME NEW i \in 1..Len(list'), NEW j \in 1..Len(list'), list'[i] = list'[j]
                 PROVE  i = j
      BY <1>1 DEF NoItemTwice
    <2>1. \A m \in 1..Len(list) : list'[m] # f
      BY <1>1 DEF InList
    <2>2. CASE i = Len(list) + 1 \/ j = Len(list) + 1
      BY <1>1, <2>1, <2>2
    <2>3. CASE i # Len(list) + 1 /\ j # Len(list) + 1
      BY <1>1, <2>3 DEF NoItemTwice
    <2> QED
      BY <2>2, <2>3
  <1> QED
    BY <1>1, <1>2, <1>3

LEMMA ShortenedList ==
  ASSUME list \in Seq(Blocks), NoItemTwice, list # <<>>, list' = Tail(list)
  PROVE  /\ list' \in Seq(Blocks) /\ NoItemTwice' /\ Head(list) \in Blocks /\ InList(Head(list))
         /\ \A b : InList(b)' <=> InList(b) /\ b # Head(list)
  <1>1. /\ Len(list) \in Nat \ {0} /\ DOMAIN list = 1..Len(list) /\ Head(list) = list[1]
        /\ 1 \in DOMAIN list /\ list[1] \in Blocks
    OBVIOUS
  <1>2. /\ list' \in Seq(Blocks) /\ Len(list') = Len(list) - 1 /\ DOMAIN list' = 1..Len(list')
        /\ \A i \in 1..Len(list') : list'[i] = list[i + 1]
    BY <1>1
  <1>3. ASSUME NEW b PROVE InList(b)' <=> InList(b) /\ b # Head(list)
    <2>1. ASSUME NEW i \in 1..Len(list'), list'[i] = b
          PROVE  InList(b) /\ b # list[1]
      <3>1. i + 1 \in 1..Len(list) /\ list[i + 1] = b /\ i + 1 # 1
        BY <1>1, <1>2, <2>1
      <3> QED
        BY <1>1, <3>1 DEF InList, NoItemTwice
    <2>2. ASSUME NEW i \in 1..Len(list), list[i] = b, b # list[1]
          PROVE  InList(b)'
      <3>1. i - 1 \in 1..Len(list') /\ list'[i - 1] = b
        BY <1>1, <1>2, <2>2
      <3> QED
        BY <1>2, <3>1 DEF InList
    <2> QED
      BY <1>1, <1>2, <2>1, <2>2 DEF InList
  <1>4. NoItemTwice'
    <2> SUFFICES ASSUME NEW i \in 1..Len(list'), NEW j \in 1..Len(list'), list'[i] = list'[j]
                 PROVE  i = j
      BY <1>2 DEF NoItemTwice
    <2> QED
      BY <1>1, <1>2 DEF NoItemTwice
  <1> QED
    BY <1>1, <1>2, <1>3, <1>4 DEF InList

-----------------------------------------------------------------------------
(* Types *)

LEMMA InitTypes == Init => Types
  <1> SUFFICES ASSUME Init PROVE Types
    OBVIOUS
  <1> USE DEF Init
  <1>1. list \in Seq(Blocks) /\ listEvent \in BOOLEAN /\ listRef \in Int
    <2>1. list \in Seq(Blocks)
      OBVIOUS
    <2>2. listEvent \in BOOLEAN
      OBVIOUS
    <2> QED
      BY <2>1, <2>2
  <1>2. /\ block \in [Blocks -> {"none", "posted", "called", "signalled"}]
        /\ wakeup \in [Workers -> BOOLEAN] /\ terminate \in [Workers -> BOOLEAN]
    OBVIOUS
  <1>3. poster \in [Posters -> Posts] /\ worker \in [Workers -> Places]
    BY DEF Posts, Places, Absent
  <1>4. owner \in Owners /\ owner.thread \in Workers /\ owner.at = "creating"
    BY ThreadsAssumption DEF Owners, Workers, At
  <1>5. object \in [Workers -> BOOLEAN] /\ owner.lost = FALSE
    BY DEF At
  <1> QED
    BY <1>1, <1>2, <1>3, <1>4, <1>5 DEF Types

LEMMA NextTypes ==
  ASSUME Types, BlocksInv, [Next]_vars
  PROVE  Types'
  <1> USE DEF Types, Pool
  <1>1. CASE CreateWorkerThread
    <2>1. worker' \in [Workers -> Places]
      <3>1. Waiting \in Places
        BY DEF Waiting, Places
      <3>2. worker' = worker \/ worker' = [worker EXCEPT ![owner.thread] = Waiting]
        BY <1>1 DEF CreateWorkerThread
      <3> QED
        BY <3>1, <3>2
    <2>2. owner.thread \in 1..NumberOfThreads /\ NumberOfThreads \in Nat
      BY <1>1, ThreadsAssumption DEF CreateWorkerThread, Workers
    <2>3. listRef' \in Int /\ object' \in [Workers -> BOOLEAN]
      <3>1. object' = object \/ object' = [object EXCEPT ![owner.thread] = TRUE]
        BY <1>1 DEF CreateWorkerThread
      <3>2. listRef' = listRef \/ listRef' = listRef + 1 \/ listRef' = listRef + 2
        BY <1>1 DEF CreateWorkerThread
      <3>3. listRef' \in Int
        BY <3>2
      <3>4. object' \in [Workers -> BOOLEAN]
        BY <3>1
      <3> QED
        BY <3>3, <3>4
    <2>4. \/ owner' = At("running", None)
          \/ owner' = At("creating", owner.thread + 1) /\ owner.thread + 1 \in Workers
          \/ owner' = At("stopping", 1)
          \/ owner' = [owner EXCEPT !.at = "stopping", !.lost = TRUE] /\ owner.thread \in Nat \ {0}
      BY <1>1, <2>2 DEF CreateWorkerThread, Workers
    <2>5. /\ owner' \in Owners /\ owner'.at \in {"creating", "running", "stopping"}
          /\ owner'.at = "creating" => owner'.thread \in Workers
          /\ owner'.at = "stopping" => owner'.thread \in Nat \ {0}
          /\ owner'.lost => owner'.at = "stopping"
      <3>1. CASE owner' = At("running", None)
        BY <3>1 DEF At, Owners
      <3>2. CASE owner' = At("creating", owner.thread + 1) /\ owner.thread + 1 \in Workers
        BY <3>2 DEF At, Owners, Workers
      <3>3. CASE owner' = At("stopping", 1)
        BY <3>3 DEF At, Owners
      <3>4. CASE owner' = [owner EXCEPT !.at = "stopping", !.lost = TRUE] /\ owner.thread \in Nat \ {0}
        BY <3>4 DEF Owners
      <3> QED
        BY <2>4, <3>1, <3>2, <3>3, <3>4
    <2>6. UNCHANGED <<list, listEvent, block, poster, wakeup, terminate>>
      BY <1>1 DEF CreateWorkerThread
    <2> QED
      BY <2>1, <2>3, <2>5, <2>6
  <1>2. CASE StopPool
    BY <1>2 DEF StopPool, At, Owners
  <1>3. CASE Stop
    <2>1. CASE Terminate
      BY <2>1 DEF Terminate, Owners
    <2>2. CASE SetWakeupEvent
      <3> DEFINE to == IF owner.lost THEN "free" ELSE "join"
      <3>1. /\ owner' = [owner EXCEPT !.at = to] /\ owner.at = "wakeup"
            /\ wakeup' \in [Workers -> BOOLEAN]
            /\ UNCHANGED <<list, listEvent, listRef, block, poster, worker, terminate, object>>
        BY <2>2 DEF SetWakeupEvent
      <3>2. to \in {"free", "join"} /\ (to = "free" <=> owner.lost)
        OBVIOUS
      <3> HIDE DEF to
      <3>3. owner' \in Owners /\ owner'.at = to /\ owner'.lost = owner.lost /\ owner'.thread = owner.thread
        BY <3>1, <3>2 DEF Owners
      <3> QED
        BY <3>1, <3>2, <3>3
    <2>3. CASE WaitForThread
      <3>1. owner.thread + 1 \in Nat \ {0}
        BY <2>3 DEF WaitForThread, Workers
      <3> QED
        BY <2>3, <3>1 DEF WaitForThread, At, Owners
    <2>4. CASE FreeLostThread
      BY <2>4 DEF FreeLostThread, Owners
    <2>5. CASE WaitForLostThread
      <3>1. Absent \in Places
        BY DEF Absent, Places
      <3> QED
        BY <2>5, <3>1 DEF WaitForLostThread, At, Owners
    <2>6. CASE DropList
      BY <2>6 DEF DropList, At, Owners
    <2> QED
      BY <1>3, <2>1, <2>2, <2>3, <2>4, <2>5, <2>6 DEF Stop
  <1>4. ASSUME NEW p \in Posters, ReferenceList(p) \/ Post(p)
        PROVE  Types'
    <2>1. CASE ReferenceList(p)
      BY <2>1 DEF ReferenceList, Move, Posts
    <2>2. CASE AllocateWorkItem(p)
      <3>1. CASE Move(p, "allocate", "dereference") /\ UNCHANGED block
        BY <2>2, <3>1 DEF AllocateWorkItem, Move, Posts
      <3>2. ASSUME NEW b \in Heap \cup {p}, block' = [block EXCEPT ![b] = "posted"],
                   poster' = [poster EXCEPT ![p] = [at |-> "insert", block |-> b]]
            PROVE  Types'
        <4>1. b \in Blocks
          BY DEF Blocks
        <4>2. poster' \in [Posters -> Posts]
          BY <3>2, <4>1 DEF Posts
        <4>3. block' \in [Blocks -> {"none", "posted", "called", "signalled"}]
          BY <3>2, <4>1
        <4>4. \A q \in Posters : poster'[q].block \in Heap \cup {q, None}
          BY <3>2
        <4> QED
          BY <2>2, <4>2, <4>3, <4>4 DEF AllocateWorkItem
      <3> QED
        BY <2>2, <3>1, <3>2 DEF AllocateWorkItem
    <2>3. CASE InsertWorkItem(p)
      <3>1. list' \in Seq(Blocks)
        BY <2>3 DEF InsertWorkItem, Move, BlocksInv, InsertersHaveBlocks
      <3> QED
        BY <2>3, <3>1 DEF InsertWorkItem, Move, Posts
    <2>4. CASE SignalList(p)
      BY <2>4 DEF SignalList, Posts
    <2>5. CASE Return(p)
      BY <2>5 DEF Return, Posts, Blocks
    <2>6. CASE DereferenceList(p)
      BY <2>6 DEF DereferenceList, Move, Posts
    <2> QED
      BY <1>4, <2>1, <2>2, <2>3, <2>4, <2>5, <2>6 DEF Post
  <1>5. ASSUME NEW w \in Workers, Work(w)
        PROVE  Types'
    <2>1. CASE WakeUp(w)
      <3>1. worker' = [worker EXCEPT ![w].at = "remove"]
        BY <2>1 DEF WakeUp, Step
      <3>2. worker' \in [Workers -> Places]
        BY <3>1 DEF Places
      <3>3. listEvent' \in BOOLEAN /\ wakeup' \in [Workers -> BOOLEAN]
        <4>1. CASE listEvent /\ listEvent' = FALSE /\ UNCHANGED wakeup
          BY <4>1
        <4>2. CASE wakeup' = [wakeup EXCEPT ![w] = FALSE] /\ UNCHANGED listEvent
          BY <4>2
        <4> QED
          BY <2>1, <4>1, <4>2 DEF WakeUp
      <3>4. UNCHANGED <<list, listRef, block, poster, terminate, object, owner>>
        BY <2>1 DEF WakeUp
      <3> QED
        BY <3>2, <3>3, <3>4
    <2>2. CASE RemoveHead(w)
      <3>1. CASE list = <<>>
        <4>1. worker' = [worker EXCEPT ![w].at = "check"] /\ list' = list
          BY <2>2, <3>1 DEF RemoveHead, Step
        <4>2. worker' \in [Workers -> Places]
          BY <4>1 DEF Places
        <4>3. UNCHANGED <<listEvent, listRef, block, poster, wakeup, terminate, object, owner>>
          BY <2>2 DEF RemoveHead
        <4> QED
          BY <4>1, <4>2, <4>3
      <3>2. CASE list # <<>>
        <4>1. /\ list' = Tail(list)
              /\ worker' = [worker EXCEPT ![w].at = "wakeNext", ![w].block = Head(list)]
          BY <2>2, <3>2 DEF RemoveHead
        <4>2. Head(list) \in Blocks /\ list' \in Seq(Blocks)
          BY <3>2, <4>1
        <4>3. worker' \in [Workers -> Places]
          <5> DEFINE r == [worker[w] EXCEPT !.at = "wakeNext", !.block = Head(list)]
          <5>1. worker[w] \in Places /\ worker' = [worker EXCEPT ![w] = r]
            BY <4>1
          <5>2. r \in Places
            BY <4>2, <5>1 DEF Places
          <5> HIDE DEF r
          <5> QED
            BY <5>1, <5>2
        <4> QED
          BY <2>2, <4>2, <4>3 DEF RemoveHead
      <3> QED
        BY <3>1, <3>2
    <2>3. CASE WakeNext(w)
      BY <2>3 DEF WakeNext, Step, Places
    <2>4. CASE CallWorkItemFunction(w)
      BY <2>4 DEF CallWorkItemFunction, Step, Places
    <2>5. CASE SignalCaller(w)
      <3>1. worker[w].block \in Blocks
        BY <2>5 DEF SignalCaller, BlocksInv, WorkersHaveBlocks
      <3>2. worker' \in [Workers -> Places]
        <4> DEFINE b == worker[w].block
                   released == [at |-> "release", block |-> b, onStack |-> b \in Posters]
        <4>1. worker' = [worker EXCEPT ![w] = released]
          BY <2>5 DEF SignalCaller
        <4>2. released \in Places
          BY <3>1 DEF Places
        <4> QED
          BY <4>1, <4>2
      <3>3. block' \in [Blocks -> {"none", "posted", "called", "signalled"}]
        BY <2>5, <3>1 DEF SignalCaller
      <3> QED
        BY <2>5, <3>2, <3>3 DEF SignalCaller
    <2>6. CASE FreeWorkItem(w)
      <3>1. worker[w].block \in Blocks
        BY <2>6 DEF FreeWorkItem, BlocksInv, WorkersHaveBlocks
      <3>2. worker' \in [Workers -> Places]
        BY <2>6 DEF FreeWorkItem, Places
      <3>3. block' \in [Blocks -> {"none", "posted", "called", "signalled"}]
        BY <2>6, <3>1 DEF FreeWorkItem
      <3> QED
        BY <2>6, <3>2, <3>3 DEF FreeWorkItem
    <2>7. CASE CheckTerminate(w)
      <3>1. PICK to \in {"exited", "wait"} : worker' = [worker EXCEPT ![w].at = to]
        BY <2>7 DEF CheckTerminate, Step
      <3> DEFINE r == [worker[w] EXCEPT !.at = to]
      <3>3. r \in Places
        BY DEF Places
      <3>2. worker' = [worker EXCEPT ![w] = r]
        BY <3>1
      <3> HIDE DEF r
      <3>4. worker' \in [Workers -> Places]
        BY <3>2, <3>3
      <3> QED
        BY <2>7, <3>4 DEF CheckTerminate
    <2> QED
      BY <1>5, <2>1, <2>2, <2>3, <2>4, <2>5, <2>6, <2>7 DEF Work
  <1>6. CASE UNCHANGED vars
    BY <1>6 DEF vars
  <1> QED
    BY <1>1, <1>2, <1>3, <1>4, <1>5, <1>6 DEF Next

-----------------------------------------------------------------------------
(* Blocks *)

LEMMA InitBlocks == Init => BlocksInv
  BY BlocksAssumption DEF Init, BlocksInv, NoItemTwice, ItemsArePosted, InsertersHaveBlocks,
     WorkersHaveBlocks, HadIsUsed, InList, Inserts, Has, Absent

\* Steps that touch neither blocks nor what says who has them.
LEMMA BlocksElsewhere ==
  ASSUME Types, BlocksInv, UNCHANGED <<list, block>>,
         \A p \in Posters : /\ poster'[p].at = "insert" <=> poster[p].at = "insert"
                            /\ poster[p].at = "insert" => poster'[p].block = poster[p].block,
         \A w \in Workers :
            \/ worker'[w] = worker[w]
            \/ /\ worker[w].block \notin Blocks /\ worker'[w].block \notin Blocks
               /\ {worker[w].at, worker'[w].at} \subseteq {"none", "wait", "remove", "check", "exited"}
  PROVE  BlocksInv'
  <1>1. /\ \A b : InList(b)' = InList(b)
        /\ \A p \in Posters : \A b : Inserts(p, b)' = Inserts(p, b)
        /\ \A w \in Workers, b \in Blocks : Has(w, b)' = Has(w, b)
    BY DEF InList, Inserts, Has
  <1>2. NoItemTwice' /\ ItemsArePosted'
    BY <1>1 DEF BlocksInv, NoItemTwice, ItemsArePosted
  <1>3. InsertersHaveBlocks'
    BY <1>1 DEF BlocksInv, InsertersHaveBlocks
  <1>4. WorkersHaveBlocks'
    BY DEF BlocksInv, WorkersHaveBlocks
  <1>5. HadIsUsed'
    BY <1>1 DEF BlocksInv, HadIsUsed, Has
  <1> QED
    BY <1>2, <1>3, <1>4, <1>5 DEF BlocksInv

LEMMA AllocateKeepsBlocks ==
  ASSUME Types, BlocksInv, NEW p \in Posters, AllocateWorkItem(p)
  PROVE  BlocksInv'
  <1>1. CASE Move(p, "allocate", "dereference") /\ UNCHANGED block
    BY <1>1, BlocksElsewhere DEF AllocateWorkItem, Move, Types, Pool
  <1>2. ASSUME NEW b \in Heap \cup {p}, block[b] = "none",
               block' = [block EXCEPT ![b] = "posted"],
               poster' = [poster EXCEPT ![p] = [at |-> "insert", block |-> b]]
        PROVE  BlocksInv'
    <2>1. /\ b \in Blocks /\ ~InList(b) /\ \A q \in Posters : ~Inserts(q, b)
          /\ \A w \in Workers : ~Has(w, b)
      <3>1. b \in Blocks /\ ~InList(b) /\ \A q \in Posters : ~Inserts(q, b)
        BY <1>2 DEF Blocks, BlocksInv, ItemsArePosted, InsertersHaveBlocks, Inserts
      <3>2. ASSUME NEW w \in Workers, Has(w, b) PROVE FALSE
        BY <1>2, <3>1, <3>2 DEF BlocksInv, HadIsUsed, WorkersHaveBlocks, Has
      <3> QED
        BY <3>1, <3>2
    <2>2. /\ UNCHANGED <<list, worker>> /\ poster[p].at = "allocate"
          /\ \A c : InList(c)' = InList(c)
          /\ \A w, c : Has(w, c)' = Has(w, c)
      BY DEF AllocateWorkItem, InList, Has
    <2>3. \A q \in Posters : \A c : Inserts(q, c)' <=> Inserts(q, c) \/ (q = p /\ c = b)
      BY <1>2, <2>2 DEF Types, Inserts
    <2>4. \A c \in Blocks : block'[c] = IF c = b THEN "posted" ELSE block[c]
      BY <1>2, <2>1 DEF Types
    <2>5. NoItemTwice' /\ ItemsArePosted'
      BY <2>1, <2>2, <2>3, <2>4 DEF BlocksInv, NoItemTwice, ItemsArePosted
    <2>6. InsertersHaveBlocks'
      <3> SUFFICES ASSUME NEW q \in Posters, poster'[q].at = "insert"
                   PROVE  /\ poster'[q].block \in Blocks /\ block'[poster'[q].block] = "posted"
                          /\ \A u \in Posters : poster'[u].at = "insert"
                               /\ poster'[u].block = poster'[q].block => u = q
        BY DEF InsertersHaveBlocks, Inserts
      <3>1. CASE q = p
        BY <1>2, <2>1, <2>4, <3>1 DEF Types, Inserts
      <3>2. CASE q # p
        <4>1. poster'[q] = poster[q]
          BY <1>2, <3>2 DEF Types
        <4>2. poster[q].block # b
          BY <2>1, <4>1 DEF Inserts
        <4>3. ASSUME NEW u \in Posters, poster'[u].at = "insert",
                     poster'[u].block = poster'[q].block
              PROVE  u = q
          <5>1. u # p /\ poster'[u] = poster[u]
            BY <1>2, <4>1, <4>2, <4>3 DEF Types
          <5> QED
            BY <4>1, <4>3, <5>1 DEF BlocksInv, InsertersHaveBlocks, Inserts
        <4> QED
          BY <2>4, <4>1, <4>2, <4>3 DEF BlocksInv, InsertersHaveBlocks
      <3> QED
        BY <3>1, <3>2
    <2>7. WorkersHaveBlocks'
      BY <2>2 DEF BlocksInv, WorkersHaveBlocks
    <2>8. HadIsUsed'
      BY <2>1, <2>2, <2>3, <2>4 DEF BlocksInv, HadIsUsed
    <2> QED
      BY <2>5, <2>6, <2>7, <2>8 DEF BlocksInv
  <1> QED
    BY <1>1, <1>2 DEF AllocateWorkItem

LEMMA InsertKeepsBlocks ==
  ASSUME Types, BlocksInv, NEW p \in Posters, InsertWorkItem(p)
  PROVE  BlocksInv'
  <1> DEFINE b == poster[p].block
  <1>1. b \in Blocks /\ block[b] = "posted" /\ Inserts(p, b) /\ \A q \in Posters : Inserts(q, b) => q = p
    BY DEF BlocksInv, InsertersHaveBlocks, InsertWorkItem, Move, Inserts
  <1>2. ~InList(b) /\ \A w \in Workers : ~Has(w, b)
    BY <1>1 DEF BlocksInv, ItemsArePosted, HadIsUsed
  <1>3. NoItemTwice' /\ \A c : InList(c)' <=> InList(c) \/ c = b
    BY <1>1, <1>2, AppendedList DEF Types, BlocksInv, InsertWorkItem
  <1>4. /\ UNCHANGED <<block, worker>> /\ \A w, c : Has(w, c)' = Has(w, c)
        /\ \A q \in Posters : \A c : Inserts(q, c)' <=> Inserts(q, c) /\ q # p
        /\ \A q \in Posters : poster'[q].at = "insert" => q # p /\ poster'[q] = poster[q]
    BY DEF InsertWorkItem, Move, Has, Inserts, Types
  <1>5. ItemsArePosted' /\ WorkersHaveBlocks'
    BY <1>1, <1>3, <1>4 DEF BlocksInv, ItemsArePosted, WorkersHaveBlocks
  <1>6. InsertersHaveBlocks'
    BY <1>4 DEF BlocksInv, InsertersHaveBlocks
  <1>7. HadIsUsed'
    BY <1>2, <1>3, <1>4 DEF BlocksInv, HadIsUsed
  <1> QED
    BY <1>3, <1>5, <1>6, <1>7 DEF BlocksInv

LEMMA ReturnKeepsBlocks ==
  ASSUME Types, BlocksInv, NEW p \in Posters, Return(p)
  PROVE  BlocksInv'
  <1>1. /\ p \in Blocks /\ block[p] = "signalled"
        /\ \A c \in Blocks : block'[c] = IF c = p THEN "none" ELSE block[c]
    BY DEF Types, Blocks, Return
  <1>2. /\ UNCHANGED <<list, worker>> /\ \A w, c : Has(w, c)' = Has(w, c)
        /\ \A c : InList(c)' = InList(c)
        /\ \A q \in Posters : \A c : Inserts(q, c)' = Inserts(q, c)
        /\ \A q \in Posters : poster'[q].at = "insert" => poster'[q] = poster[q]
    BY DEF Return, Has, InList, Inserts, Types
  <1>3. ~InList(p) /\ \A q \in Posters : ~Inserts(q, p)
    BY <1>1 DEF BlocksInv, ItemsArePosted, InsertersHaveBlocks, Inserts
  <1>4. \A w \in Workers : ~Has(w, p)
    BY <1>1 DEF BlocksInv, HadIsUsed, WorkersHaveBlocks, Has
  <1>5. NoItemTwice' /\ ItemsArePosted' /\ WorkersHaveBlocks'
    BY <1>1, <1>2, <1>3 DEF BlocksInv, NoItemTwice, ItemsArePosted, WorkersHaveBlocks
  <1>6. InsertersHaveBlocks'
    BY <1>1, <1>2, <1>3 DEF BlocksInv, InsertersHaveBlocks, Inserts
  <1>7. HadIsUsed'
    BY <1>1, <1>2, <1>4 DEF BlocksInv, HadIsUsed
  <1> QED
    BY <1>5, <1>6, <1>7 DEF BlocksInv

LEMMA RemoveHeadKeepsBlocks ==
  ASSUME Types, BlocksInv, NEW w \in Workers, RemoveHead(w)
  PROVE  BlocksInv'
  <1>1. CASE list = <<>>
    <2>1. UNCHANGED <<list, block, poster>> /\ worker' = [worker EXCEPT ![w].at = "check"]
      BY <1>1 DEF RemoveHead, Step
    <2>2. worker[w].at = "remove" /\ worker[w].block \notin Blocks
      BY <1>1 DEF RemoveHead, Step, BlocksInv, WorkersHaveBlocks
    <2> QED
      BY <2>1, <2>2, BlocksElsewhere DEF Types, Places
  <1>2. CASE list # <<>>
    <2> DEFINE b == Head(list)
               r == [worker[w] EXCEPT !.at = "wakeNext", !.block = b]
    <2>1. /\ list' = Tail(list) /\ UNCHANGED <<block, poster>>
          /\ worker[w].at = "remove" /\ worker' = [worker EXCEPT ![w] = r]
      BY <1>2 DEF RemoveHead, Types
    <2>2. /\ NoItemTwice' /\ b \in Blocks /\ InList(b)
          /\ \A c : InList(c)' <=> InList(c) /\ c # b
      BY <1>2, <2>1, ShortenedList DEF Types, BlocksInv
    <2> HIDE DEF b
    <2>3. r.at = "wakeNext" /\ r.block = b
      BY DEF Types, Places
    <2>4. /\ \A v \in Workers : \A c : Has(v, c)' <=> IF v = w THEN c = b ELSE Has(v, c)
          /\ \A p, c : Inserts(p, c)' = Inserts(p, c)
          /\ \A v \in Workers : worker'[v] = IF v = w THEN r ELSE worker[v]
      BY <2>1, <2>3 DEF Types, Has, Inserts
    <2>5. /\ block[b] = "posted" /\ (\A p \in Posters : ~Inserts(p, b))
          /\ \A v \in Workers : ~Has(v, b)
      BY <2>2 DEF BlocksInv, ItemsArePosted, HadIsUsed
    <2> HIDE DEF r
    <2>6. ItemsArePosted' /\ InsertersHaveBlocks'
      BY <2>1, <2>2, <2>4 DEF BlocksInv, ItemsArePosted, InsertersHaveBlocks
    <2>7. WorkersHaveBlocks'
      BY <2>2, <2>3, <2>4 DEF BlocksInv, WorkersHaveBlocks
    <2>8. HadIsUsed'
      <3> SUFFICES ASSUME NEW v \in Workers, NEW c \in Blocks, Has(v, c)'
                   PROVE  /\ worker'[v].at \in {"wakeNext", "call"} => block'[c] = "posted"
                          /\ worker'[v].at = "free" => block'[c] = "called"
                          /\ worker'[v].at = "release" => block'[c] = "called" /\ c \in Heap
                          /\ ~InList(c)' /\ \A p \in Posters : ~Inserts(p, c)'
                          /\ \A u \in Workers : Has(u, c)' => u = v
        BY DEF HadIsUsed
      <3>1. CASE v = w
        BY <2>1, <2>2, <2>3, <2>4, <2>5, <3>1
      <3>2. CASE v # w
        BY <2>1, <2>2, <2>4, <2>5, <3>2 DEF BlocksInv, HadIsUsed
      <3> QED
        BY <3>1, <3>2
    <2> QED
      BY <2>2, <2>6, <2>7, <2>8 DEF BlocksInv
  <1> QED
    BY <1>1, <1>2

\* A thread goes on with its block b, and with it as r, to the state s of the
\* block: the last step of this kind no longer has the block.
LEMMA GoesOn ==
  ASSUME Types, BlocksInv, NEW w \in Workers, NEW b \in Blocks, Has(w, b),
         worker[w].at \in {"wakeNext", "call", "free"}, NEW r, NEW s,
         UNCHANGED <<list, poster>>, worker' = [worker EXCEPT ![w] = r],
         block' = [block EXCEPT ![b] = s],
         r.block = b, r.at \in {"call", "free", "release"},
         r.at = "call" => s = block[b],
         r.at = "free" => s = "called",
         r.at = "release" => r.onStack \in BOOLEAN /\ (~r.onStack => s = "called" /\ b \in Heap),
         r.at = "call" => worker[w].at = "wakeNext"
  PROVE  BlocksInv'
  <1>1. /\ \A v \in Workers : worker'[v] = IF v = w THEN r ELSE worker[v]
        /\ \A c \in Blocks : block'[c] = IF c = b THEN s ELSE block[c]
        /\ \A c : InList(c)' = InList(c)
        /\ \A p, c : Inserts(p, c)' = Inserts(p, c)
    BY DEF Types, InList, Inserts
  <1>2. /\ \A v \in Workers, c \in Blocks : Has(v, c)' => Has(v, c)
        /\ \A v \in Workers, c \in Blocks : Has(v, c) /\ v # w => c # b
    BY <1>1 DEF Has, BlocksInv, HadIsUsed
  <1>3. ~InList(b) /\ \A p \in Posters : ~Inserts(p, b)
    BY DEF BlocksInv, HadIsUsed
  <1>4. NoItemTwice' /\ ItemsArePosted' /\ InsertersHaveBlocks'
    BY <1>1, <1>3 DEF BlocksInv, NoItemTwice, ItemsArePosted, InsertersHaveBlocks, Inserts
  <1>5. WorkersHaveBlocks'
    BY <1>1 DEF BlocksInv, WorkersHaveBlocks
  <1>6. HadIsUsed'
    <2> SUFFICES ASSUME NEW v \in Workers, NEW c \in Blocks, Has(v, c)'
                 PROVE  /\ worker'[v].at \in {"wakeNext", "call"} => block'[c] = "posted"
                        /\ worker'[v].at = "free" => block'[c] = "called"
                        /\ worker'[v].at = "release" => block'[c] = "called" /\ c \in Heap
                        /\ ~InList(c)' /\ \A p \in Posters : ~Inserts(p, c)'
                        /\ \A u \in Workers : Has(u, c)' => u = v
      BY DEF HadIsUsed
    <2>1. Has(v, c) /\ ~InList(c)' /\ (\A p \in Posters : ~Inserts(p, c)')
          /\ \A u \in Workers : Has(u, c)' => u = v
      BY <1>1, <1>2 DEF BlocksInv, HadIsUsed
    <2>2. CASE v = w
      <3>1. c = b /\ worker'[v] = r /\ block'[c] = s
        BY <1>1, <2>1, <2>2 DEF Has
      <3>2. r.at = "call" => block[b] = "posted"
        BY DEF BlocksInv, HadIsUsed
      <3>3. r.at = "release" => ~r.onStack
        BY <1>1, <2>2 DEF Has
      <3> QED
        BY <2>1, <3>1, <3>2, <3>3
    <2>3. CASE v # w
      BY <1>1, <1>2, <2>1, <2>3 DEF BlocksInv, HadIsUsed
    <2> QED
      BY <2>2, <2>3
  <1> QED
    BY <1>4, <1>5, <1>6 DEF BlocksInv

LEMMA WorkKeepsBlocks ==
  ASSUME Types, BlocksInv, NEW w \in Workers,
         WakeNext(w) \/ CallWorkItemFunction(w) \/ SignalCaller(w)
  PROVE  BlocksInv'
  <1> DEFINE b == worker[w].block
  <1>1. /\ worker[w].at \in {"wakeNext", "call", "free"} /\ b \in Blocks /\ Has(w, b)
        /\ UNCHANGED <<list, poster>>
    BY DEF WakeNext, CallWorkItemFunction, SignalCaller, Step, BlocksInv, WorkersHaveBlocks, Has
  <1>2. CASE WakeNext(w)
    <2> DEFINE r == [worker[w] EXCEPT !.at = "call"]
    <2>1. worker' = [worker EXCEPT ![w] = r] /\ worker[w].at = "wakeNext"
      BY <1>2 DEF WakeNext, Step, Types
    <2>2. r.at = "call" /\ r.block = b
      BY DEF Types, Places
    <2>3. block' = [block EXCEPT ![b] = block[b]]
      BY <1>2, <1>1 DEF WakeNext, Types
    <2> HIDE DEF r, b
    <2> QED
      BY <1>1, <2>1, <2>2, <2>3, GoesOn
  <1>3. CASE CallWorkItemFunction(w)
    <2> DEFINE r == [worker[w] EXCEPT !.at = "free"]
    <2>1. worker' = [worker EXCEPT ![w] = r] /\ worker[w].at = "call"
      BY <1>3 DEF CallWorkItemFunction, Step, Types
    <2>2. r.at = "free" /\ r.block = b
      BY DEF Types, Places
    <2>3. block' = [block EXCEPT ![b] = "called"]
      BY <1>3 DEF CallWorkItemFunction
    <2> HIDE DEF r, b
    <2> QED
      BY <1>1, <2>1, <2>2, <2>3, GoesOn
  <1>4. CASE SignalCaller(w)
    <2> DEFINE r == [at |-> "release", block |-> b, onStack |-> b \in Posters]
               s == IF b \in Posters THEN "signalled" ELSE block[b]
    <2>1. worker' = [worker EXCEPT ![w] = r] /\ worker[w].at = "free"
      BY <1>4 DEF SignalCaller
    <2>2. r.at = "release" /\ r.block = b /\ r.onStack = (b \in Posters)
      OBVIOUS
    <2>3. block' = [block EXCEPT ![b] = s]
      BY <1>4, <1>1 DEF SignalCaller, Types
    <2>4. ~r.onStack => s = "called" /\ b \in Heap
      <3>1. block[b] = "called"
        BY <1>1, <2>1 DEF BlocksInv, HadIsUsed
      <3> QED
        BY <1>1, <2>2, <3>1 DEF Blocks
    <2>5. r.onStack \in BOOLEAN
      BY <2>2
    <2> HIDE DEF r, b, s
    <2> QED
      BY <1>1, <2>1, <2>2, <2>3, <2>4, <2>5, GoesOn
  <1> QED
    BY <1>2, <1>3, <1>4

LEMMA FreeKeepsBlocks ==
  ASSUME Types, BlocksInv, NEW w \in Workers, FreeWorkItem(w)
  PROVE  BlocksInv'
  <1> DEFINE b == worker[w].block
             r == [at |-> "remove", block |-> None, onStack |-> FALSE]
             s == IF worker[w].onStack THEN block[b] ELSE "none"
  <1>1. /\ worker[w].at = "release" /\ b \in Blocks /\ UNCHANGED <<list, poster>>
        /\ worker' = [worker EXCEPT ![w] = r]
    BY DEF FreeWorkItem, BlocksInv, WorkersHaveBlocks
  <1>2. \A c \in Blocks : block'[c] = IF c = b THEN s ELSE block[c]
    BY <1>1 DEF FreeWorkItem, Types
  <1>3. /\ \A v \in Workers : worker'[v] = IF v = w THEN r ELSE worker[v]
        /\ \A c : InList(c)' = InList(c)
        /\ \A p, c : Inserts(p, c)' = Inserts(p, c)
    BY <1>1 DEF Types, InList, Inserts
  <1>4. r.at = "remove" /\ r.block \notin Blocks
    BY BlocksAssumption
  <1> HIDE DEF r
  <1>5. \A v \in Workers, c \in Blocks : Has(v, c)' => Has(v, c) /\ v # w
    BY <1>3, <1>4 DEF Has
  <1>6. \A c \in Blocks : block'[c] # block[c] => c = b /\ Has(w, b)
    BY <1>1, <1>2 DEF Has
  <1>7. NoItemTwice' /\ ItemsArePosted' /\ InsertersHaveBlocks'
    <2>1. \A c \in Blocks : InList(c) => block'[c] = block[c]
      BY <1>1, <1>6 DEF BlocksInv, HadIsUsed
    <2>2. \A p \in Posters, c \in Blocks : Inserts(p, c) => block'[c] = block[c]
      BY <1>1, <1>6 DEF BlocksInv, HadIsUsed
    <2> QED
      BY <1>1, <1>3, <2>1, <2>2 DEF BlocksInv, NoItemTwice, ItemsArePosted, InsertersHaveBlocks,
         Inserts
  <1>8. WorkersHaveBlocks'
    BY <1>3, <1>4 DEF BlocksInv, WorkersHaveBlocks
  <1>9. HadIsUsed'
    <2> SUFFICES ASSUME NEW v \in Workers, NEW c \in Blocks, Has(v, c)'
                 PROVE  /\ worker'[v].at \in {"wakeNext", "call"} => block'[c] = "posted"
                        /\ worker'[v].at = "free" => block'[c] = "called"
                        /\ worker'[v].at = "release" => block'[c] = "called" /\ c \in Heap
                        /\ ~InList(c)' /\ \A p \in Posters : ~Inserts(p, c)'
                        /\ \A u \in Workers : Has(u, c)' => u = v
      BY DEF HadIsUsed
    <2>1. Has(v, c) /\ v # w /\ worker'[v] = worker[v]
      BY <1>3, <1>5
    <2>2. block'[c] = block[c]
      BY <1>1, <1>6, <2>1 DEF BlocksInv, HadIsUsed
    <2> QED
      BY <1>3, <1>5, <2>1, <2>2 DEF BlocksInv, HadIsUsed
  <1> QED
    BY <1>7, <1>8, <1>9 DEF BlocksInv

LEMMA NextBlocks ==
  ASSUME Types, BlocksInv, CreatedSoFar, LostIsLast, [Next]_vars
  PROVE  BlocksInv'
  <1> USE DEF Pool
  <1>1. CASE CreateWorkerThread \/ StopPool \/ Stop \/ UNCHANGED vars
    <2>1. CASE UNCHANGED worker
      <3>1. UNCHANGED <<list, block, poster, worker>>
        BY <1>1, <2>1 DEF CreateWorkerThread, StopPool, Stop, Terminate, SetWakeupEvent,
           WaitForThread, FreeLostThread, WaitForLostThread, DropList, vars
      <3> QED
        BY <3>1, BlocksElsewhere
    <2>2. CASE WaitForLostThread
      <3>1. /\ UNCHANGED <<list, block, poster>> /\ owner.thread \in Workers
            /\ worker[owner.thread].at = "exited"
            /\ worker' = [worker EXCEPT ![owner.thread] = Absent]
        BY <2>2 DEF WaitForLostThread, Types
      <3>2. worker[owner.thread].block \notin Blocks /\ Absent.block \notin Blocks
        BY <3>1, BlocksAssumption DEF BlocksInv, WorkersHaveBlocks, Absent
      <3>3. \A w \in Workers : worker'[w] = IF w = owner.thread THEN Absent ELSE worker[w]
        BY <3>1 DEF Types
      <3> QED
        BY <3>1, <3>2, <3>3, BlocksElsewhere DEF Absent
    <2>3. CASE ~UNCHANGED worker /\ ~WaitForLostThread
      <3>1. /\ UNCHANGED <<list, block, poster>> /\ owner.at = "creating"
            /\ worker' = [worker EXCEPT ![owner.thread] = Waiting]
        BY <1>1, <2>3 DEF CreateWorkerThread, StopPool, Stop, Terminate, SetWakeupEvent,
           WaitForThread, FreeLostThread, DropList, vars
      <3>2. owner.thread \in Workers /\ worker[owner.thread].at = "none"
        <4>1. owner.thread \in Workers /\ owner.thread >= owner.thread
          BY <3>1 DEF Types, Workers
        <4> QED
          BY <3>1, <4>1 DEF CreatedSoFar
      <3>3. worker[owner.thread].block \notin Blocks /\ Waiting.block \notin Blocks
        BY <3>2, BlocksAssumption DEF BlocksInv, WorkersHaveBlocks, Waiting
      <3>4. \A w \in Workers : worker'[w] = IF w = owner.thread THEN Waiting ELSE worker[w]
        BY <3>1 DEF Types
      <3> QED
        BY <3>1, <3>2, <3>3, <3>4, BlocksElsewhere DEF Waiting
    <2> QED
      BY <2>1, <2>2, <2>3
  <1>2. ASSUME NEW p \in Posters, ReferenceList(p) \/ Post(p)
        PROVE  BlocksInv'
    <2>1. CASE ReferenceList(p) \/ DereferenceList(p)
      <3>1. /\ UNCHANGED <<list, block, worker>> /\ poster[p].at # "insert"
            /\ \E a \in {"allocate", "idle"} : poster' = [poster EXCEPT ![p].at = a]
        BY <2>1 DEF ReferenceList, DereferenceList, Move
      <3>2. poster'[p].at # "insert" /\ \A q \in Posters \ {p} : poster'[q] = poster[q]
        BY <3>1 DEF Types, Posts
      <3> QED
        BY <3>1, <3>2, BlocksElsewhere
    <2>2. CASE SignalList(p)
      <3>1. UNCHANGED <<list, block, worker>> /\ poster[p].at = "signal"
        BY <2>2 DEF SignalList
      <3>2. poster'[p].at # "insert" /\ \A q \in Posters \ {p} : poster'[q] = poster[q]
        BY <2>2 DEF SignalList, Types, Posts
      <3> QED
        BY <3>1, <3>2, BlocksElsewhere
    <2> QED
      BY <1>2, <2>1, <2>2, AllocateKeepsBlocks, InsertKeepsBlocks, ReturnKeepsBlocks DEF Post
  <1>3. ASSUME NEW w \in Workers, Work(w)
        PROVE  BlocksInv'
    <2>1. CASE WakeUp(w) \/ CheckTerminate(w)
      <3>1. /\ UNCHANGED <<list, block, poster>> /\ worker[w].at \in {"wait", "check"}
            /\ \E a \in {"remove", "exited", "wait"} : worker' = [worker EXCEPT ![w].at = a]
        BY <2>1 DEF WakeUp, CheckTerminate, Step
      <3>2. worker[w].block \notin Blocks
        BY <3>1 DEF BlocksInv, WorkersHaveBlocks
      <3>3. \A v \in Workers \ {w} : worker'[v] = worker[v]
        BY <3>1 DEF Types
      <3>4. worker'[w].block = worker[w].block /\ worker'[w].at \in {"remove", "exited", "wait"}
        BY <3>1 DEF Types, Places
      <3> QED
        BY <3>1, <3>2, <3>3, <3>4, BlocksElsewhere
    <2> QED
      BY <1>3, <2>1, RemoveHeadKeepsBlocks, WorkKeepsBlocks, FreeKeepsBlocks DEF Work
  <1> QED
    BY <1>1, <1>2, <1>3 DEF Next

-----------------------------------------------------------------------------
(* Threads and references *)

LEMMA InitThreads == Init => ThreadsInv /\ RefsAreExact
  <1> SUFFICES ASSUME Init PROVE ThreadsInv /\ RefsAreExact
    OBVIOUS
  <1>1. /\ listRef = 1 /\ owner.at = "creating" /\ owner.thread = 1 /\ owner.lost = FALSE
        /\ \A p \in Posters : poster[p].at = "idle"
        /\ \A w \in Workers : worker[w].at = "none"
    BY DEF Init, Absent, At
  <1>2. Users = {} /\ Counted = {} /\ \A w \in Workers : w >= owner.thread
    BY <1>1 DEF Users, Counted, Workers
  <1>3. ThreadsInv
    BY <1>1, <1>2 DEF ThreadsInv, CreatedSoFar, CreatedInOrder, JoinedHaveExited, AwaitedIsThere,
       LostIsLast, UsedWhileRunning, Joined
  <1> QED
    BY <1>1, <1>2, <1>3, FS_EmptySet DEF RefsAreExact

LEMMA FiniteCounts ==
  /\ IsFiniteSet(Users) /\ Cardinality(Users) \in Nat
  /\ IsFiniteSet(Counted) /\ Cardinality(Counted) \in Nat
  <1>1. IsFiniteSet(Workers)
    BY ThreadsAssumption, FS_Interval DEF Workers
  <1>2. Users \subseteq Posters /\ Counted \subseteq Workers
    BY DEF Users, Counted
  <1>3. IsFiniteSet(Users) /\ IsFiniteSet(Counted)
    BY <1>1, <1>2, BlocksAssumption, FS_Subset
  <1> QED
    BY <1>3, FS_CardinalityType

\* What the owner of the pool does, from its creation to its end.
LEMMA OwnerMoves ==
  ASSUME Types, CreateWorkerThread \/ StopPool \/ Stop
  PROVE  /\ Users' = Users
         /\ \/ owner'.at = "running" \/ (owner'.at # "running" /\ owner.at # "running")
            \/ StopPool /\ Users = {}
         /\ \A w \in Workers : owner'.at = "stopping" /\ owner'.thread = 1 => ~Joined(w)'
  <1>1. Users' = Users
    BY DEF CreateWorkerThread, StopPool, Stop, Terminate, SetWakeupEvent, WaitForThread,
       FreeLostThread, WaitForLostThread, DropList, Users
  <1>2. \/ owner'.at = "running" \/ (owner'.at # "running" /\ owner.at # "running")
        \/ StopPool /\ Users = {}
    <2>1. CASE StopPool
      BY <2>1 DEF StopPool, Users
    <2>2. CASE CreateWorkerThread
      BY <2>2 DEF CreateWorkerThread
    <2>3. CASE Stop
      <3>1. owner.at # "running"
        BY <2>3 DEF Stop, Terminate, SetWakeupEvent, WaitForThread, FreeLostThread,
           WaitForLostThread, DropList
      <3> QED
        BY <3>1
    <2> QED
      BY <2>1, <2>2, <2>3
  <1>3. \A w \in Workers : owner'.at = "stopping" /\ owner'.thread = 1 => ~Joined(w)'
    BY DEF Joined, Workers
  <1> QED
    BY <1>1, <1>2, <1>3

LEMMA CreateKeepsThreads ==
  ASSUME Types, ThreadsInv, RefsAreExact, CreateWorkerThread
  PROVE  ThreadsInv' /\ RefsAreExact'
  <1> USE DEF ThreadsInv, CreatedSoFar, CreatedInOrder, JoinedHaveExited, AwaitedIsThere, LostIsLast
  <1> DEFINE w == owner.thread
  <1>1. owner.at = "creating" /\ ~owner.lost /\ w \in Workers /\ w \in Int
    BY DEF CreateWorkerThread, Types, Workers
  <1>2. worker[w].at = "none" /\ Users' = Users /\ Users = {}
    BY <1>1, OwnerMoves DEF UsedWhileRunning
  <1>3. UsedWhileRunning'
    BY <1>2 DEF UsedWhileRunning
  <1>4. \A v \in Workers : ~Joined(v) /\ v \in 1..NumberOfThreads
    BY <1>1 DEF Joined, Workers
  <1>5. CASE UNCHANGED <<worker, listRef>> /\ owner' = At("stopping", 1)
    <2>1. owner'.at = "stopping" /\ owner'.thread = 1 /\ owner'.lost = FALSE
      BY <1>5 DEF At
    <2>2. \A v \in Workers : ~Joined(v)'
      BY <2>1, OwnerMoves
    <2>3. Counted' = Counted
      BY <1>4, <1>5, <2>2 DEF Counted
    <2>4. RefsAreExact'
      BY <1>1, <1>2, <1>5, <2>1, <2>3 DEF RefsAreExact
    <2>5. CreatedInOrder'
      BY <1>5
    <2> QED
      BY <1>3, <1>5, <2>1, <2>2, <2>4, <2>5
  <1>6. CASE worker' = [worker EXCEPT ![w] = Waiting]
    <2>1. \A v \in Workers : worker'[v].at = IF v = w THEN "wait" ELSE worker[v].at
      BY <1>1, <1>6 DEF Types, Waiting
    <2>2. CreatedInOrder'
      BY <1>1, <1>4, <2>1
    <2>3. ASSUME \A v \in Workers : ~Joined(v)'
          PROVE  Cardinality(Counted') = Cardinality(Counted) + 1
      <3>1. Counted' = Counted \cup {w} /\ w \notin Counted
        BY <1>1, <1>2, <1>4, <2>1, <2>3 DEF Counted
      <3> QED
        BY <3>1, FiniteCounts, FS_AddElement
    <2>4. CASE /\ listRef' = listRef + 1
               /\ owner' = IF w = NumberOfThreads THEN At("running", None) ELSE At("creating", w + 1)
      <3>1. /\ owner'.lost = FALSE
            /\ IF w = NumberOfThreads THEN owner'.at = "running"
               ELSE owner'.at = "creating" /\ owner'.thread = w + 1
        BY <2>4 DEF At
      <3>2. \A v \in Workers : ~Joined(v)'
        BY <3>1 DEF Joined
      <3>3. RefsAreExact'
        <4>1. Cardinality(Counted') = Cardinality(Counted) + 1 /\ listRef' = listRef + 1
          BY <2>3, <2>4, <3>2
        <4>2. Cardinality(Users') = Cardinality(Users) /\ owner'.at # "stopped" /\ owner'.at # "lost"
          BY <1>2, <3>1
        <4> QED
          BY <1>1, <3>1, <4>1, <4>2, FiniteCounts DEF RefsAreExact, Types
      <3>4. CreatedSoFar'
        BY <1>1, <1>4, <2>1, <3>1
      <3> QED
        BY <1>3, <2>2, <3>1, <3>2, <3>3, <3>4
    <2>5. CASE /\ listRef' = listRef + 2
               /\ owner' = [owner EXCEPT !.at = "stopping", !.lost = TRUE]
      <3>1. owner'.at = "stopping" /\ owner'.lost = TRUE /\ owner'.thread = w
        BY <2>5 DEF Types, Owners
      <3>2. \A v \in Workers : ~Joined(v)'
        BY <3>1 DEF Joined
      <3>3. RefsAreExact'
        <4>1. Cardinality(Counted') = Cardinality(Counted) + 1 /\ listRef' = listRef + 2
          BY <2>3, <2>5, <3>2
        <4>2. Cardinality(Users') = Cardinality(Users) /\ owner'.at # "stopped" /\ owner'.at # "lost"
          BY <1>2, <3>1
        <4> QED
          BY <1>1, <3>1, <4>1, <4>2, FiniteCounts DEF RefsAreExact, Types
      <3>4. LostIsLast'
        BY <1>1, <1>4, <2>1, <3>1
      <3> QED
        BY <1>3, <2>2, <3>1, <3>2, <3>3, <3>4
    <2> QED
      BY <1>2, <1>6, <2>1, <2>4, <2>5, <1>1 DEF CreateWorkerThread
  <1> QED
    BY <1>5, <1>6 DEF CreateWorkerThread

LEMMA OwnerKeepsThreads ==
  ASSUME Types, ThreadsInv, RefsAreExact, CreateWorkerThread \/ StopPool \/ Stop
  PROVE  ThreadsInv' /\ RefsAreExact'
  <1> USE DEF ThreadsInv, CreatedSoFar, CreatedInOrder, JoinedHaveExited, AwaitedIsThere, LostIsLast
  <1>1. Users' = Users
    BY OwnerMoves
  <1>2. UsedWhileRunning'
    BY OwnerMoves DEF UsedWhileRunning
  <1>3. CASE StopPool
    <2>1. /\ owner'.at = "stopping" /\ owner'.thread = 1 /\ owner'.lost = FALSE
          /\ owner.at = "running" /\ ~owner.lost /\ UNCHANGED <<worker, listRef>>
      BY <1>3 DEF StopPool, At, Types
    <2>2. \A w \in Workers : ~Joined(w) /\ ~Joined(w)'
      BY <2>1 DEF Joined, Workers
    <2>3. Counted' = Counted
      BY <2>1, <2>2 DEF Counted
    <2> QED
      BY <1>1, <1>2, <2>1, <2>2, <2>3 DEF RefsAreExact
  <1>4. CASE Terminate \/ SetWakeupEvent
    <2>1. /\ owner.at \in {"stopping", "wakeup"} /\ owner'.at \in {"wakeup", "join", "free"}
          /\ owner'.thread = owner.thread /\ worker[owner.thread].at # "none"
          /\ owner'.lost = owner.lost /\ (owner'.at = "free" => owner.lost)
          /\ UNCHANGED <<worker, listRef>>
      BY <1>4 DEF Terminate, SetWakeupEvent, Types, Owners
    <2>2. \A w \in Workers : Joined(w)' = Joined(w)
      BY <2>1 DEF Joined
    <2>3. Counted' = Counted
      BY <2>1, <2>2 DEF Counted
    <2> QED
      BY <1>1, <1>2, <2>1, <2>2, <2>3 DEF RefsAreExact
  <1>5. CASE WaitForThread
    <2> DEFINE t == owner.thread
    <2>1. /\ owner.at = "join" /\ owner'.at = "stopping" /\ owner'.thread = t + 1
          /\ ~owner.lost /\ owner'.lost = FALSE
          /\ t \in Workers /\ t \in Int /\ worker[t].at = "exited"
          /\ UNCHANGED worker /\ listRef' = listRef - 1
      BY <1>5 DEF WaitForThread, At, Types, Workers
    <2>2. \A w \in Workers : Joined(w)' <=> Joined(w) \/ w = t
      BY <2>1 DEF Joined, Workers
    <2>3. ~Joined(t)
      BY <2>1 DEF Joined
    <2>4. Counted' = Counted \ {t} /\ t \in Counted
      BY <2>1, <2>2, <2>3 DEF Counted
    <2>5. RefsAreExact'
      <3>1. Cardinality(Counted') = Cardinality(Counted) - 1
        BY <2>4, FiniteCounts, FS_RemoveElement
      <3>2. Cardinality(Users') = Cardinality(Users) /\ owner.at # "stopped" /\ owner'.at # "stopped"
        BY <1>1, <2>1
      <3> QED
        BY <2>1, <3>1, <3>2, FiniteCounts DEF RefsAreExact, Types
    <2> QED
      BY <1>2, <2>1, <2>2, <2>5
  <1>6. CASE FreeLostThread
    <2>1. /\ owner.at = "free" /\ owner'.at = "lost" /\ owner.lost /\ owner'.lost
          /\ owner'.thread = owner.thread /\ UNCHANGED worker /\ listRef' = listRef - 1
      BY <1>6 DEF FreeLostThread, Types, Owners
    <2>2. \A w \in Workers : ~Joined(w) /\ ~Joined(w)'
      BY <2>1 DEF Joined
    <2>3. Counted' = Counted
      BY <2>1, <2>2 DEF Counted
    <2>4. RefsAreExact'
      BY <1>1, <2>1, <2>3, FiniteCounts DEF RefsAreExact, Types
    <2> QED
      BY <1>2, <2>1, <2>2, <2>4
  <1>7. CASE WaitForLostThread
    <2> DEFINE t == owner.thread
    <2>1. /\ owner.at = "lost" /\ owner.lost /\ owner'.at = "stopping" /\ owner'.thread = 1
          /\ owner'.lost = FALSE /\ t \in Workers /\ t \in Int /\ listRef' = listRef - 1
          /\ worker[t].at = "exited" /\ worker' = [worker EXCEPT ![t] = Absent]
      BY <1>7 DEF WaitForLostThread, At, Types, Workers
    <2>2. \A w \in Workers : worker'[w].at = IF w = t THEN "none" ELSE worker[w].at
      BY <2>1 DEF Types, Absent
    <2>3. \A w \in Workers : ~Joined(w) /\ ~Joined(w)' /\ w \in Int
      BY <2>1, OwnerMoves DEF Joined, Workers
    <2>4. Counted' = Counted \ {t} /\ t \in Counted
      BY <2>1, <2>2, <2>3 DEF Counted
    <2>5. RefsAreExact'
      <3>1. Cardinality(Counted') = Cardinality(Counted) - 1
        BY <2>4, FiniteCounts, FS_RemoveElement
      <3> QED
        BY <1>1, <2>1, <3>1, FiniteCounts DEF RefsAreExact, Types
    <2>6. CreatedInOrder'
      BY <2>1, <2>2, <2>3
    <2> QED
      BY <1>2, <2>1, <2>3, <2>5, <2>6
  <1>8. CASE DropList
    <2> DEFINE t == owner.thread
    <2>1. /\ owner.at = "stopping" /\ owner'.at = "stopped" /\ t \in Nat \ {0}
          /\ ~owner.lost /\ owner'.lost = FALSE
          /\ t \in Workers => worker[t].at = "none"
          /\ UNCHANGED worker /\ listRef' = listRef - 1
      BY <1>8 DEF DropList, At, Types
    <2>2. ASSUME NEW w \in Workers, ~Joined(w) PROVE worker[w].at = "none"
      <3>1. w \in Nat /\ t <= w /\ t \in Workers
        BY <2>1, <2>2, ThreadsAssumption DEF Joined, Workers
      <3> QED
        BY <2>1, <3>1
    <2>3. Counted = {} /\ Counted' = {} /\ \A w \in Workers : worker[w].at \in {"none", "exited"}
      BY <2>1, <2>2 DEF Counted, Joined
    <2>4. RefsAreExact'
      BY <1>1, <2>1, <2>3, FiniteCounts DEF RefsAreExact, Types
    <2> QED
      BY <1>2, <2>1, <2>3, <2>4
  <1> QED
    BY <1>3, <1>4, <1>5, <1>6, <1>7, <1>8, CreateKeepsThreads DEF Stop

LEMMA PostKeepsThreads ==
  ASSUME Types, ThreadsInv, RefsAreExact, NEW p \in Posters, ReferenceList(p) \/ Post(p)
  PROVE  ThreadsInv' /\ RefsAreExact'
  <1> USE DEF Pool
  <1>1. UNCHANGED <<owner, worker>>
    BY DEF ReferenceList, Post, AllocateWorkItem, InsertWorkItem, SignalList, Return,
       DereferenceList
  <1>2. Counted' = Counted /\ \A w \in Workers : Joined(w)' = Joined(w)
    BY <1>1 DEF Counted, Joined
  <1>3. owner.at = "running"
    BY DEF ThreadsInv, UsedWhileRunning, Users, ReferenceList, Post, AllocateWorkItem,
       InsertWorkItem, SignalList, Return, DereferenceList, Move
  <1>4. ThreadsInv'
    BY <1>1, <1>2, <1>3 DEF ThreadsInv, CreatedSoFar, CreatedInOrder, JoinedHaveExited,
       AwaitedIsThere, LostIsLast, UsedWhileRunning
  <1>5. CASE ReferenceList(p)
    <2>1. Users' = Users \cup {p} /\ p \notin Users /\ listRef' = listRef + 1
      BY <1>5 DEF ReferenceList, Move, Users, Types, Posts
    <2>2. Cardinality(Users') = Cardinality(Users) + 1
      BY <2>1, FiniteCounts, FS_AddElement
    <2>3. Cardinality(Counted') = Cardinality(Counted) /\ UNCHANGED owner
      BY <1>1, <1>2
    <2>4. RefsAreExact'
      BY <2>1, <2>2, <2>3, FiniteCounts DEF RefsAreExact, Types
    <2> QED
      BY <1>4, <2>4
  <1>6. CASE DereferenceList(p)
    <2>1. Users' = Users \ {p} /\ p \in Users /\ listRef' = listRef - 1
      BY <1>6 DEF DereferenceList, Move, Users, Types, Posts
    <2>2. Cardinality(Users') = Cardinality(Users) - 1
      BY <2>1, FiniteCounts, FS_RemoveElement
    <2>3. Cardinality(Counted') = Cardinality(Counted) /\ UNCHANGED owner
      BY <1>1, <1>2
    <2>4. RefsAreExact'
      BY <2>1, <2>2, <2>3, FiniteCounts DEF RefsAreExact, Types
    <2> QED
      BY <1>4, <2>4
  <1>7. CASE AllocateWorkItem(p) \/ InsertWorkItem(p) \/ SignalList(p) \/ Return(p)
    <2>1. /\ poster[p].at # "idle" /\ poster'[p].at # "idle" /\ UNCHANGED listRef
          /\ \A q \in Posters \ {p} : poster'[q] = poster[q]
      <3>1. CASE AllocateWorkItem(p)
        BY <3>1 DEF AllocateWorkItem, Move, Types, Posts
      <3>2. CASE InsertWorkItem(p)
        BY <3>2 DEF InsertWorkItem, Move, Types, Posts
      <3>3. CASE SignalList(p)
        BY <3>3 DEF SignalList, Types, Posts
      <3>4. CASE Return(p)
        BY <3>4 DEF Return, Types, Posts
      <3> QED
        BY <1>7, <3>1, <3>2, <3>3, <3>4
    <2>2. Users' = Users
      BY <2>1 DEF Users
    <2> QED
      BY <1>1, <1>2, <1>4, <2>1, <2>2 DEF RefsAreExact
  <1> QED
    BY <1>5, <1>6, <1>7 DEF Post

LEMMA WorkMoves ==
  ASSUME Types, NEW w \in Workers, Work(w)
  PROVE  /\ worker[w].at \notin {"none", "exited"} /\ worker'[w].at # "none"
         /\ \A v \in Workers \ {w} : worker'[v] = worker[v]
         /\ UNCHANGED <<owner, listRef, poster>>
  <1> USE DEF Pool, Types, Places
  <1>1. CASE WakeUp(w)
    BY <1>1 DEF WakeUp, Step
  <1>2. CASE RemoveHead(w)
    BY <1>2 DEF RemoveHead, Step
  <1>3. CASE WakeNext(w)
    BY <1>3 DEF WakeNext, Step
  <1>4. CASE CallWorkItemFunction(w)
    BY <1>4 DEF CallWorkItemFunction, Step
  <1>5. CASE SignalCaller(w)
    BY <1>5 DEF SignalCaller
  <1>6. CASE FreeWorkItem(w)
    BY <1>6 DEF FreeWorkItem
  <1>7. CASE CheckTerminate(w)
    BY <1>7 DEF CheckTerminate, Step
  <1> QED
    BY <1>1, <1>2, <1>3, <1>4, <1>5, <1>6, <1>7 DEF Work

LEMMA WorkKeepsThreads ==
  ASSUME Types, ThreadsInv, RefsAreExact, NEW w \in Workers, Work(w)
  PROVE  ThreadsInv' /\ RefsAreExact'
  <1>1. \A v \in Workers : /\ worker'[v].at = "none" <=> worker[v].at = "none"
                           /\ v # w => worker'[v] = worker[v]
    BY WorkMoves
  <1>2. /\ Users' = Users /\ Counted' = Counted /\ UNCHANGED <<owner, listRef>>
        /\ \A v \in Workers : Joined(v)' = Joined(v)
    BY <1>1, WorkMoves DEF Users, Counted, Joined
  <1>3. ~Joined(w)
    BY WorkMoves DEF ThreadsInv, JoinedHaveExited
  <1>4. owner.at \in {"wakeup", "join"} => owner.thread \in Workers
    BY DEF Types
  <1> QED
    BY <1>1, <1>2, <1>3, <1>4 DEF ThreadsInv, CreatedSoFar, CreatedInOrder, JoinedHaveExited,
       AwaitedIsThere, LostIsLast, UsedWhileRunning, RefsAreExact

LEMMA NextThreads ==
  ASSUME Types, ThreadsInv, RefsAreExact, [Next]_vars
  PROVE  ThreadsInv' /\ RefsAreExact'
  <1>1. CASE UNCHANGED vars
    BY <1>1 DEF vars, ThreadsInv, CreatedSoFar, CreatedInOrder, JoinedHaveExited, AwaitedIsThere,
       LostIsLast, UsedWhileRunning, RefsAreExact, Users, Counted, Joined
  <1> QED
    BY <1>1, OwnerKeepsThreads, PostKeepsThreads, WorkKeepsThreads DEF Next

-----------------------------------------------------------------------------
(* The objects of the threads *)

LEMMA NextObjects ==
  ASSUME Types, ThreadsInv, ObjectsInv, [Next]_vars
  PROVE  ObjectsInv'
  <1> USE DEF Types
  <1>1. ASSUME UNCHANGED <<object, owner>>, \A w \in Workers : worker'[w].at = "none" <=> worker[w].at = "none"
        PROVE  ObjectsInv'
    BY <1>1 DEF ObjectsInv, Counted, Joined
  <1>2. CASE CreateWorkerThread
    <2>1. owner.at = "creating" /\ owner.thread \in Workers /\ \A w \in Workers : ~Joined(w)
      BY <1>2 DEF CreateWorkerThread, Joined
    <2>2. /\ \A w \in Workers : object[w] => object'[w]
          /\ \/ UNCHANGED worker
             \/ worker' = [worker EXCEPT ![owner.thread] = Waiting] /\ object'[owner.thread]
      BY <1>2, <2>1 DEF CreateWorkerThread
    <2>3. \A w \in Workers : worker'[w].at # "none" => worker[w].at # "none" \/ object'[w]
      BY <2>1, <2>2
    <2> QED
      BY <2>1, <2>2, <2>3 DEF ObjectsInv, Counted
  <1>3. CASE StopPool \/ Terminate \/ SetWakeupEvent
    <2>1. UNCHANGED <<worker, object>> /\ owner.at \notin {"free", "lost"}
      BY <1>3 DEF StopPool, Terminate, SetWakeupEvent
    <2>2. \A w \in Workers : Joined(w) => Joined(w)'
      BY <1>3 DEF StopPool, Terminate, SetWakeupEvent, At, Owners, Joined
    <2> QED
      BY <2>1, <2>2 DEF ObjectsInv, Counted
  <1>4. CASE WaitForThread
    <2>1. /\ owner.at = "join" /\ ~owner.lost /\ owner'.at = "stopping" /\ owner'.lost = FALSE
          /\ owner'.thread = owner.thread + 1 /\ UNCHANGED worker /\ owner.thread \in Workers
          /\ object' = [object EXCEPT ![owner.thread] = FALSE]
      BY <1>4 DEF WaitForThread, At
    <2>2. \A w \in Workers : Joined(w)' <=> Joined(w) \/ w = owner.thread
      BY <2>1 DEF Joined, Workers
    <2> QED
      BY <2>1, <2>2 DEF ObjectsInv, Counted
  <1>5. CASE FreeLostThread
    <2>1. /\ owner.at = "free" /\ owner'.at = "lost" /\ owner'.thread = owner.thread
          /\ UNCHANGED worker /\ owner.thread \in Workers
          /\ object' = [object EXCEPT ![owner.thread] = FALSE]
          /\ \A w \in Workers : ~Joined(w)
      BY <1>5 DEF FreeLostThread, Owners, Joined
    <2> QED
      BY <2>1 DEF ObjectsInv, Counted
  <1>6. CASE WaitForLostThread
    <2>1. /\ owner.at = "lost" /\ owner.thread \in Workers /\ UNCHANGED object
          /\ worker' = [worker EXCEPT ![owner.thread] = Absent]
          /\ \A w \in Workers : ~Joined(w)
      BY <1>6 DEF WaitForLostThread, Joined
    <2>2. \A w \in Workers : worker'[w].at # "none" => worker[w].at # "none" /\ w # owner.thread
      BY <2>1 DEF Absent
    <2> QED
      BY <2>1, <2>2 DEF ObjectsInv, Counted
  <1>7. CASE DropList
    <2>1. UNCHANGED <<worker, object>> /\ owner.at = "stopping" /\ \A w \in Workers : Joined(w)'
      BY <1>7 DEF DropList, At, Joined
    <2> QED
      BY <2>1 DEF ObjectsInv, Counted
  <1>8. ASSUME NEW p \in Posters, ReferenceList(p) \/ Post(p) PROVE ObjectsInv'
    <2>1. UNCHANGED <<object, owner, worker>>
      BY <1>8 DEF Pool, ReferenceList, Post, AllocateWorkItem, InsertWorkItem, SignalList, Return,
         DereferenceList
    <2> QED
      BY <1>1, <2>1
  <1>9. ASSUME NEW w \in Workers, Work(w) PROVE ObjectsInv'
    <2>1. UNCHANGED object
      BY <1>9 DEF Pool, Work, WakeUp, RemoveHead, WakeNext, CallWorkItemFunction, SignalCaller,
         FreeWorkItem, CheckTerminate
    <2>2. UNCHANGED owner /\ \A v \in Workers : worker'[v].at = "none" <=> worker[v].at = "none"
      BY <1>9, WorkMoves
    <2> QED
      BY <1>1, <2>1, <2>2
  <1>10. CASE UNCHANGED vars
    BY <1>1, <1>10 DEF vars
  <1> QED
    BY <1>2, <1>3, <1>4, <1>5, <1>6, <1>7, <1>8, <1>9, <1>10 DEF Next, Stop

-----------------------------------------------------------------------------
(* Sleepers *)

\* As IdleThreadsAreCalled, for the threads too that are about to sleep.
CallsInv == /\ owner.at = "creating" => list = <<>>
            /\ list # <<>> /\ (\E w \in Workers : worker[w].at \in {"wait", "check"}) =>
                  \/ listEvent
                  \/ \E p \in Posters : poster[p].at = "signal"
                  \/ \E w \in Workers : worker[w].at \in {"remove", "wakeNext"}

LEMMA PostKeepsCalls ==
  ASSUME Types, CallsInv, UsedWhileRunning, NEW p \in Posters, ReferenceList(p) \/ Post(p)
  PROVE  CallsInv'
  <1> USE DEF Pool
  <1>1. UNCHANGED <<owner, worker>> /\ owner.at = "running"
    BY DEF UsedWhileRunning, Users, ReferenceList, Post, AllocateWorkItem, InsertWorkItem,
       SignalList, Return, DereferenceList, Move
  <1>2. CASE InsertWorkItem(p)
    <2>1. poster'[p].at = "signal"
      BY <1>2 DEF InsertWorkItem, Move, Types, Posts
    <2> QED
      BY <1>1, <2>1 DEF CallsInv
  <1>3. CASE SignalList(p)
    BY <1>1, <1>3 DEF CallsInv, SignalList
  <1>4. CASE ReferenceList(p) \/ AllocateWorkItem(p) \/ Return(p) \/ DereferenceList(p)
    <2>1. UNCHANGED <<list, listEvent>> /\ poster[p].at # "signal"
      BY <1>4 DEF ReferenceList, AllocateWorkItem, Return, DereferenceList, Move
    <2>2. \A q \in Posters \ {p} : poster'[q] = poster[q]
      <3>1. \E x : poster' = [poster EXCEPT ![p] = x]
        BY <1>4 DEF ReferenceList, AllocateWorkItem, Return, DereferenceList, Move
      <3> QED
        BY <3>1 DEF Types
    <2> QED
      BY <1>1, <2>1, <2>2 DEF CallsInv
  <1> QED
    BY <1>2, <1>3, <1>4 DEF Post

LEMMA WorkKeepsCalls ==
  ASSUME Types, CallsInv, NEW w \in Workers, Work(w)
  PROVE  CallsInv'
  <1> USE DEF Pool
  <1>1. UNCHANGED <<owner, poster>> /\ \A v \in Workers \ {w} : worker'[v] = worker[v]
    BY WorkMoves
  <1>2. CASE WakeUp(w)
    <2>1. worker'[w].at = "remove" /\ UNCHANGED list
      BY <1>2 DEF WakeUp, Step, Types, Places
    <2> QED
      BY <1>1, <2>1 DEF CallsInv
  <1>3. CASE RemoveHead(w)
    <2>1. CASE list = <<>>
      BY <1>1, <1>3, <2>1 DEF RemoveHead, CallsInv
    <2>2. CASE list # <<>>
      <3>1. worker'[w].at = "wakeNext"
        BY <1>3, <2>2 DEF RemoveHead, Types, Places
      <3> QED
        BY <1>1, <2>2, <3>1 DEF CallsInv
    <2> QED
      BY <2>1, <2>2
  <1>4. CASE WakeNext(w)
    <2>1. /\ worker'[w].at = "call" /\ UNCHANGED list
          /\ listEvent' = (listEvent \/ (~PrivateList /\ list # <<>>))
      BY <1>4 DEF WakeNext, Step, Types, Places
    <2>2. CASE PrivateList
      <3>1. \A v \in Workers : v = w
        BY <2>2, ThreadsAssumption DEF Workers
      <3> QED
        BY <1>1, <2>1, <3>1 DEF CallsInv
    <2>3. CASE ~PrivateList
      BY <1>1, <2>1, <2>3 DEF CallsInv
    <2> QED
      BY <2>2, <2>3
  <1>5. CASE CallWorkItemFunction(w) \/ SignalCaller(w)
    <2>1. /\ worker[w].at \in {"call", "free"} /\ worker'[w].at \in {"free", "release"}
          /\ UNCHANGED <<list, listEvent>>
      <3>1. CASE CallWorkItemFunction(w)
        BY <3>1 DEF CallWorkItemFunction, Step, Types, Places
      <3>2. CASE SignalCaller(w)
        BY <3>2 DEF SignalCaller, Types
      <3> QED
        BY <1>5, <3>1, <3>2
    <2> QED
      BY <1>1, <2>1 DEF CallsInv
  <1>6. CASE FreeWorkItem(w)
    <2>1. worker'[w].at = "remove" /\ UNCHANGED list
      BY <1>6 DEF FreeWorkItem, Types
    <2> QED
      BY <1>1, <2>1 DEF CallsInv
  <1>7. CASE CheckTerminate(w)
    <2>1. worker[w].at = "check" /\ UNCHANGED <<list, listEvent>>
      BY <1>7 DEF CheckTerminate, Step
    <2> QED
      BY <1>1, <2>1 DEF CallsInv
  <1> QED
    BY <1>2, <1>3, <1>4, <1>5, <1>6, <1>7 DEF Work

LEMMA NextCalls ==
  ASSUME Types, ThreadsInv, CallsInv, [Next]_vars
  PROVE  CallsInv'
  <1>1. CASE CreateWorkerThread
    BY <1>1 DEF CreateWorkerThread, CallsInv
  <1>2. CASE StopPool \/ Stop \/ UNCHANGED vars
    <2>1. /\ UNCHANGED <<list, listEvent, poster>> /\ (owner'.at = "creating" => owner.at = "creating")
          /\ UNCHANGED worker \/ (WaitForLostThread /\ owner.thread \in Workers)
      BY <1>2 DEF StopPool, Stop, Terminate, SetWakeupEvent, WaitForThread, FreeLostThread,
         WaitForLostThread, DropList, vars, At, Types, Owners
    <2>2. \A w \in Workers : worker'[w] = worker[w] \/ (worker[w].at = "exited" /\ worker'[w].at = "none")
      BY <2>1 DEF WaitForLostThread, Absent, Types
    <2> QED
      BY <2>1, <2>2 DEF CallsInv
  <1> QED
    BY <1>1, <1>2, PostKeepsCalls, WorkKeepsCalls DEF Next, ThreadsInv

-----------------------------------------------------------------------------
(* The theorems *)

\* The inductive invariant.
IInv == Types /\ BlocksInv /\ ThreadsInv /\ RefsAreExact /\ ObjectsInv /\ CallsInv

LEMMA InitIInv == Init => IInv
  <1>1. Init => CallsInv
    BY DEF Init, CallsInv
  <1>2. Init => ObjectsInv
    BY DEF Init, ObjectsInv, Counted, Absent
  <1> QED
    BY <1>1, <1>2, InitTypes, InitBlocks, InitThreads DEF IInv

LEMMA NextIInv == IInv /\ [Next]_vars => IInv'
  BY NextTypes, NextBlocks, NextThreads, NextObjects, NextCalls DEF IInv, ThreadsInv

LEMMA InvariantIsSafe == IInv => PoolInvariant
  <1> SUFFICES ASSUME IInv PROVE PoolInvariant
    OBVIOUS
  <1> USE DEF IInv
  <1>1. TypeOK
    <2>1. listRef \in Nat
      BY FiniteCounts DEF RefsAreExact
    <2>2. \A p \in Posters : poster[p] \in Posts
      BY DEF Types
    <2>3. \A w \in Workers : worker[w] \in Places
      BY DEF Types
    <2> QED
      BY <2>1, <2>2, <2>3 DEF TypeOK, Types, Posts, Places, Owners
  <1>2. ListOutlivesItsUsers
    <2> DEFINE R == {w \in Workers : Running(w)}
    <2>1. R \subseteq Counted
      BY DEF Running, Counted, ThreadsInv, JoinedHaveExited
    <2>2. IsFiniteSet(R) /\ Cardinality(R) \in Nat /\ Cardinality(R) <= Cardinality(Counted)
      BY <2>1, FiniteCounts, FS_Subset, FS_CardinalityType
    <2>3. owner.at = "stopped" => Counted = {} /\ Users = {} /\ ~owner.lost
      BY DEF Counted, Joined, ThreadsInv, UsedWhileRunning, Types
    <2>4. owner.at = "stopped" => listRef = 0
      BY <2>3, FS_EmptySet DEF RefsAreExact
    <2> QED
      BY <2>2, <2>4, FiniteCounts DEF ListOutlivesItsUsers, RefsAreExact, Users, Types
  <1>3. BlocksAreUsedWhileTheyExist
    <2>1. list \in Seq(Blocks) /\ \A b \in Items : b \in Blocks /\ InList(b)
      BY DEF Types, Items, InList
    <2>2. (\A b \in Items : block[b] = "posted") /\ NoItemTwice
      BY <2>1 DEF BlocksInv, ItemsArePosted
    <2>3. ASSUME NEW w \in Workers, NEW b \in Blocks, worker[w].block = b
          PROVE  /\ worker[w].at \in {"wakeNext", "call"} => block[b] = "posted"
                 /\ worker[w].at = "free" => block[b] = "called"
                 /\ worker[w].at = "release" /\ ~worker[w].onStack =>
                       b \in Heap /\ block[b] = "called"
                 /\ worker[w].at # "release" =>
                       /\ b \notin Items
                       /\ \A v \in Workers \ {w} : worker[v].block = b =>
                                                      worker[v].at = "release"
      BY <2>1, <2>3 DEF BlocksInv, HadIsUsed, Has
    <2> QED
      BY <2>2, <2>3 DEF BlocksAreUsedWhileTheyExist, NoItemTwice
  <1>4. ObjectsOutliveThreads
    <2>1. \A w \in Workers : Running(w) => w \in Counted
      BY DEF Running, Counted, ThreadsInv, JoinedHaveExited
    <2>2. ASSUME owner.at \in {"wakeup", "join", "free"} PROVE owner.thread \in Counted
      <3>1. owner.thread \in Workers /\ owner.thread \in Int /\ worker[owner.thread].at # "none"
        BY <2>2 DEF Types, Workers, ThreadsInv, AwaitedIsThere, LostIsLast
      <3>2. ~Joined(owner.thread)
        BY <2>2, <3>1 DEF Joined
      <3> QED
        BY <3>1, <3>2 DEF Counted
    <2> QED
      BY <2>1, <2>2 DEF ObjectsInv, ObjectsOutliveThreads
  <1> QED
    BY <1>1, <1>2, <1>3, <1>4 DEF PoolInvariant

(***************************************************************************)
(* Whatever the number of threads and posters, the list object is there    *)
(* for whoever uses it and a block of memory is used as long as it is a    *)
(* work item: ocwthread.c counts the references of the list exactly, and   *)
(* hands a block from one to the next without two of them having it.       *)
(***************************************************************************)
THEOREM PoolIsSafe == Spec => []PoolInvariant
  <1>1. Init => IInv
    BY InitIInv
  <1>2. IInv /\ [Next]_vars => IInv'
    BY NextIInv
  <1>3. IInv => PoolInvariant
    BY InvariantIsSafe
  <1> QED
    BY <1>1, <1>2, <1>3, PTL DEF Spec

(***************************************************************************)
(* Whatever the number of threads and posters, no item is left in the list *)
(* while a thread sleeps and all others are caught in a function: every    *)
(* thread that takes an item sets the event again when it leaves others    *)
(* (ocwthread.c:393-399), and a private list has no other thread.          *)
(***************************************************************************)
THEOREM SleepersAreCalled == Spec => []IdleThreadsAreCalled
  <1>1. Init => IInv
    BY InitIInv
  <1>2. IInv /\ [Next]_vars => IInv'
    BY NextIInv
  <1>3. IInv => IdleThreadsAreCalled
    BY DEF IInv, CallsInv, IdleThreadsAreCalled
  <1> QED
    BY <1>1, <1>2, <1>3, PTL DEF Spec
=============================================================================
