-------------------------- MODULE Operations_proof --------------------------
(***************************************************************************)
(* Machine-checked proofs about Operations, for any requests, any number   *)
(* of filtered devices in a stack and whatever is refused to them: who of  *)
(* the completing thread and the shadow thread copies the data of a        *)
(* request, and who goes on with its completion.                           *)
(***************************************************************************)
EXTENDS Operations, WellFoundedInduction, TLAPS

Down   == {"down", "mark", "created"}
Going  == {"new", "lower"} \cup Down
Owning == {"start", "mark", "test", "lock", "copying", "copied", "body", "unlock", "deref"}
Active == Owning \cup {"finish"}

\* A create that only the file system's drivers see gets no operation object.
NoObject(q)   == q.path = "fsd" /\ q.major = "create"
Copyable(q)   == q.major \in {"write", "read"} /\ q.len = 1

\* Where the shadow thread has the operation.
Place(o) == IF sh.pc # "idle" /\ sh.op = o THEN sh.pc
            ELSE IF \E i \in 1..Len(queue) : queue[i] = o THEN "queued" ELSE "none"

\* The request's own reference, from the creation of the object to the end of
\* the completion routine.
Owned(k, q, a, h, c) ==
  /\ ~NoObject(q)
  /\ c \in Owning \/ (c = "idle" /\ (h = "set" \/ (a.pc = "created" /\ a.k = k)))

Passed(k, a)    == a.pc = "done" \/ (a.pc = "up" /\ k < a.k)
Completes(k, a) == a.pc = "up" /\ a.k = k

\* One level of a request: q is the request, a its place, p the object, h the
\* hook, c the completion routine, w the postponement, n the continuations and
\* t the shadow thread's place.  First, how the routine fits with the request ...
RoutineFits(k, q, a, h, c, w, n) ==
  /\ a.pc \in Going \/ (a.pc = "up" /\ a.k < k) => c = "idle"
  /\ a.pc = "new" \/ (a.pc \in Down /\ k <= a.k) => h = "none"
  /\ (c = "idle" => h \in {"none", "set"}) /\ (c # "idle" => h # "none")
  /\ Passed(k, a) \/ Completes(k, a) => h # "set" \/ c # "idle"
  /\ c \in Active /\ w = "no" => Completes(k, a)
  /\ w # "no" => /\ c \in {"body", "unlock", "deref", "finish", "end"}
                 /\ q.path = "device" /\ q.major # "read"
  /\ n > 0 => n = 1 /\ Passed(k, a)
  /\ NoObject(q) => c \in {"idle", "start", "finish", "end"}
  /\ c = "mark" => q.path # "device" /\ q.major # "create"
  /\ c = "test" => q.path # "device"
  /\ c = "body" => q.path = "device"
  /\ q.path = "device" /\ q.major = "read" => c \notin {"lock", "copying", "copied"}

\* ... then who has a reference to the object ...
ObjectFits(k, q, a, p, h, c, t) ==
  /\ p.refs = (IF Owned(k, q, a, h, c) THEN 1 ELSE 0) + (IF t # "none" THEN 1 ELSE 0)
  /\ p.refs = 0 => p = NoOp
  /\ t # "none" => /\ h # "none" \/ (q.path # "device" /\ a.pc = "created" /\ a.k = k)
                   /\ q.major # "create"
  /\ p.mdl = "locked" => q.major = "read" /\ c \notin {"deref", "finish", "end"}

\* ... what the flags say to the two threads ...
FlagsFit(k, q, a, p, c, w, t) ==
  /\ q.major = "read" /\ c \in {"idle", "start", "mark"} => p.flags \subseteq {"OnStack"} /\ t = "none"
  /\ q.major = "read" /\ t # "none" =>
       "Sent" \in p.flags /\ (q.path = "device" => c \in {"unlock", "deref", "finish", "end"})
  /\ q.major = "write" /\ q.len = 1 /\ p.refs > 0 => "Data" \in p.flags
  /\ q.major = "read" /\ "Wait" \in p.flags => c \notin {"test", "lock"}
  /\ "InThread" \in p.flags => w # "no"
  /\ "InThread" \in p.flags /\ t \in {"queued", "taken"} => Completes(k, a)
  /\ t = "continue" => w # "no" /\ Completes(k, a)
  /\ t = "completing" => w # "no"

\* ... and who copies the data that has not been copied yet.
DataFits(q, p, c, t) ==
  /\ t # "none" /\ Copyable(q) /\ "Data" \notin p.flags =>
       c \in {"test", "lock"} \/ (c = "copying" /\ "Wait" \in p.flags)
  /\ q.major = "read" /\ Copyable(q) /\ "Shadowing" \in p.flags /\ "Data" \notin p.flags =>
       t = "copying" \/ c = "copying"
  /\ t = "copying" /\ Copyable(q) => c \in {"test", "lock"} /\ "Data" \notin p.flags

LevelFits(k, q, a, p, h, c, w, n, t) ==
  /\ RoutineFits(k, q, a, h, c, w, n) /\ ObjectFits(k, q, a, p, h, c, t)
  /\ FlagsFit(k, q, a, p, c, w, t) /\ DataFits(q, p, c, t)

Fits(o) == LevelFits(o[2], req[o[1]], at[o[1]], op[o], hook[o], cr[o], post[o], cont[o], Place(o))

\* What the scan of the queue has read of the object it is going to mark.
Seen(r, q, f) ==
  /\ f[1] \in Levels /\ f[2] \in SUBSET Flags
  /\ f[1] > at[r].k /\ hook[<<r, f[1]>>] = "set" /\ ~NoObject(q)
  /\ f[2] \subseteq op[<<r, f[1]>>].flags
  /\ q.major = "write" /\ q.len = 1 => "Data" \in f[2]
MarkFits(r) == at[r].pc = "mark" => Seen(r, req[r], seen[r])

QueueFits ==
  /\ \A i, j \in 1..Len(queue) : queue[i] = queue[j] => i = j
  /\ sh.pc # "idle" => \A i \in 1..Len(queue) : queue[i] # sh.op

Stages   == {"new", "down", "mark", "created", "lower", "up", "done"}
Hooks    == {"none", "set", "pended", "freed"}
Routines == {"idle", "end"} \cup Active
Shadows  == {"taken", "copying", "await", "continue", "completing", "deref"}
Mdls     == {"none", "caller", "locked"}
ReqRecords == [path : {"none", "device", "fsd"}, io : {"none", "buffered", "direct", "neither"},
               major : {"none", "create", "write", "read", "control"}, len : {0, 1},
               shadowed : BOOLEAN]
OpRecords  == [refs : Int, flags : SUBSET Flags, mdl : Mdls]

RequestTypes ==
  /\ req \in [Irps -> ReqRecords] /\ \A r \in Irps : req[r] \in Requests[r] \cup {NoReq}
  /\ at \in [Irps -> [pc : Stages, k : 0..Depth]]
  /\ \A r \in Irps : /\ at[r].pc = "new" => req[r] = NoReq
                     /\ at[r].pc \in Down \cup {"up"} => at[r].k \in Levels
  /\ pend \in [Irps -> BOOLEAN] /\ irql \in [Irps -> {"passive", "dispatch"}]
  /\ seen \in [Irps -> {<<>>} \cup (Levels \X SUBSET Flags)]
  /\ ends \in [Irps -> Nat] /\ torn \in [Irps -> BOOLEAN]
LevelTypes ==
  /\ op \in [Ops -> OpRecords] /\ hook \in [Ops -> Hooks] /\ cr \in [Ops -> Routines]
  /\ post \in [Ops -> {"no", "nowait", "wait"}] /\ cont \in [Ops -> Nat]
  /\ event \in [Ops -> {"none", "waiting", "set"}]
ShadowTypes == queue \in Seq(Ops) /\ (sh = Idle \/ sh \in [pc : Shadows, op : Ops])
Types == RequestTypes /\ LevelTypes /\ ShadowTypes

\* The inductive invariant.
OInv == /\ Types /\ QueueFits
        /\ (\A o \in Ops : Fits(o)) /\ (\A r \in Irps : MarkFits(r))

-----------------------------------------------------------------------------
(* Levels, records and the place of an operation *)

LEMMA Pairs ==
  /\ \A o \in Ops : o[1] \in Irps /\ o[2] \in Levels /\ o = <<o[1], o[2]>>
  /\ \A r \in Irps, k \in Levels : <<r, k>> \in Ops /\ <<r, k>>[1] = r /\ <<r, k>>[2] = k
  BY DEF Ops

LEMMA LevelsAre ==
  /\ Depth \in Nat /\ Depth >= 2 /\ 1 \in Levels /\ 2 \in Levels /\ Depth \in Levels
  /\ \A k \in Levels : k \in Nat /\ k >= 1 /\ k <= Depth /\ k \in 0..Depth /\ k - 1 \in 0..Depth
  /\ \A k \in 0..Depth : k \in Nat /\ (k = 0 \/ k \in Levels)
  /\ \A k \in Levels : k - 1 = 0 \/ k - 1 \in Levels
  BY OperationsAssumption DEF Levels

LEMMA Lowest ==
  ASSUME NEW S \in SUBSET Levels, S # {}
  PROVE  LET m == CHOOSE j \in S : \A i \in S : j <= i
         IN  m \in S /\ \A i \in S : m <= i
  <1>1. S \subseteq Nat
    BY LevelsAre
  <1>2. PICK m \in S : \A i \in S : <<i, m>> \notin OpToRel(<, Nat)
    BY <1>1, WFMin, NatLessThanWellFounded
  <1>3. ASSUME NEW i \in S
        PROVE  m <= i
    <2>1. m \in Nat /\ i \in Nat
      BY <1>1
    <2>2. ~(i < m)
      BY <1>2, <2>1, Zenon DEF OpToRel
    <2> QED
      BY <2>1, <2>2
  <1> QED
    BY <1>3

LEMMA WithFlagsIs ==
  ASSUME NEW p \in OpRecords, NEW set \in SUBSET Flags
  PROVE  /\ WithFlags(p, set) \in OpRecords /\ WithFlags(p, set).flags = p.flags \cup set
         /\ WithFlags(p, set).refs = p.refs /\ WithFlags(p, set).mdl = p.mdl
  BY DEF OpRecords, WithFlags

LEMMA DereferencedIs ==
  ASSUME NEW p \in OpRecords
  PROVE  /\ p.refs = 1 => Dereferenced(p) = NoOp
         /\ p.refs # 1 => /\ Dereferenced(p).refs = p.refs - 1
                          /\ Dereferenced(p).flags = p.flags /\ Dereferenced(p).mdl = p.mdl
         /\ Dereferenced(p) \in OpRecords
         /\ NoOp.refs = 0 /\ NoOp.flags = {} /\ NoOp.mdl = "none" /\ NoOp \in OpRecords
  BY DEF OpRecords, Dereferenced, NoOp, Mdls

\* The object with one more reference, for the shadow thread.
SentTo(p) == [WithFlags(p, {"Sent"}) EXCEPT !.refs = @ + 1]
LEMMA SentToIs ==
  ASSUME NEW p \in OpRecords
  PROVE  /\ SentTo(p) \in OpRecords /\ SentTo(p).flags = p.flags \cup {"Sent"}
         /\ SentTo(p).refs = p.refs + 1 /\ SentTo(p).mdl = p.mdl
  <1> DEFINE b == WithFlags(p, {"Sent"})
  <1>1. b \in OpRecords /\ b.flags = p.flags \cup {"Sent"} /\ b.refs = p.refs /\ b.mdl = p.mdl
    BY WithFlagsIs DEF Flags
  <1>2. SentTo(p) = [b EXCEPT !.refs = b.refs + 1]
    BY DEF SentTo
  <1> HIDE DEF b
  <1> QED
    BY <1>1, <1>2 DEF OpRecords

LEMMA Copies ==
  ASSUME NEW o, NEW copy
  PROVE  /\ HasData(o) <=> Copyable(req[o[1]])
         /\ copy = TRUE /\ Copyable(req[o[1]]) =>
              ProcessOperationObjectPrivateBuffers(o, copy) = {"Data"}
         /\ copy = FALSE \/ ~Copyable(req[o[1]]) =>
              ProcessOperationObjectPrivateBuffers(o, copy) = {}
  BY DEF HasData, Copyable, ProcessOperationObjectPrivateBuffers

LEMMA PlaceStays ==
  ASSUME UNCHANGED <<queue, sh>>
  PROVE  (\A o : Place(o)' = Place(o)) /\ (QueueFits => QueueFits') /\ (ShadowTypes => ShadowTypes')
  BY DEF Place, QueueFits, ShadowTypes

LEMMA PlaceAppends ==
  ASSUME ShadowTypes, QueueFits, NEW o \in Ops, Place(o) = "none",
         queue' = Append(queue, o), UNCHANGED sh
  PROVE  /\ Place(o)' = "queued" /\ \A x : x # o => Place(x)' = Place(x)
         /\ QueueFits' /\ ShadowTypes'
  <1>1. /\ queue \in Seq(Ops) /\ Len(queue) \in Nat /\ queue' \in Seq(Ops)
        /\ Len(queue') = Len(queue) + 1 /\ queue'[Len(queue) + 1] = o
        /\ \A i \in 1..Len(queue) : queue'[i] = queue[i]
    BY DEF ShadowTypes
  <1>2. ~(sh.pc # "idle" /\ sh.op = o) /\ \A i \in 1..Len(queue) : queue[i] # o
    <2>1. sh.pc # "idle" => sh \in [pc : Shadows, op : Ops]
      BY DEF ShadowTypes, Idle
    <2> QED
      BY <2>1 DEF Place, Shadows
  <1>3. QueueFits' /\ ShadowTypes'
    BY <1>1, <1>2 DEF QueueFits, ShadowTypes
  <1>4. \A x : (\E i \in 1..Len(queue') : queue'[i] = x)
                 <=> x = o \/ \E i \in 1..Len(queue) : queue[i] = x
    BY <1>1
  <1>5. Place(o)' = "queued" /\ \A x : x # o => Place(x)' = Place(x)
    BY <1>2, <1>4 DEF Place
  <1> QED
    BY <1>3, <1>5

LEMMA PlaceTaken ==
  ASSUME ShadowTypes, QueueFits, sh = Idle, queue # <<>>, NEW pc \in Shadows, NEW o,
         o = Head(queue), sh' = [pc |-> pc, op |-> o], queue' = Tail(queue)
  PROVE  /\ o \in Ops /\ Place(o) = "queued" /\ Place(o)' = pc
         /\ \A x : x # o => Place(x)' = Place(x)
         /\ QueueFits' /\ ShadowTypes'
  <1>1. /\ queue \in Seq(Ops) /\ Len(queue) \in Nat /\ Len(queue) >= 1 /\ o = queue[1] /\ o \in Ops
        /\ queue' \in Seq(Ops) /\ Len(queue') = Len(queue) - 1
        /\ \A i \in 1..Len(queue') : queue'[i] = queue[i + 1]
    BY DEF ShadowTypes
  <1>2. sh'.pc = pc /\ sh'.op = o /\ sh'.pc # "idle" /\ sh.pc = "idle"
    BY DEF Shadows, Idle
  <1>3. \A i \in 1..Len(queue') : i + 1 \in 1..Len(queue) /\ queue'[i] # o
    BY <1>1 DEF QueueFits
  <1>4. QueueFits'
    <2>1. \A i, j \in 1..Len(queue') : queue'[i] = queue'[j] => i = j
      BY <1>1, <1>3 DEF QueueFits
    <2> QED
      BY <1>2, <1>3, <2>1 DEF QueueFits
  <1>5. ShadowTypes'
    BY <1>1 DEF ShadowTypes
  <1>6. \A x : x # o => ((\E i \in 1..Len(queue') : queue'[i] = x)
                            <=> \E i \in 1..Len(queue) : queue[i] = x)
    <2> SUFFICES ASSUME NEW x, x # o
                 PROVE  (\E i \in 1..Len(queue') : queue'[i] = x)
                            <=> \E i \in 1..Len(queue) : queue[i] = x
      OBVIOUS
    <2>1. ASSUME NEW i \in 1..Len(queue), queue[i] = x
          PROVE  i - 1 \in 1..Len(queue') /\ queue'[i - 1] = x
      BY <1>1, <2>1
    <2> QED
      BY <1>1, <1>3, <2>1
  <1>7. Place(o) = "queued" /\ Place(o)' = pc
    BY <1>1, <1>2 DEF Place
  <1>8. ASSUME NEW x, x # o
        PROVE  Place(x)' = Place(x)
    <2>1. ~(sh.pc # "idle" /\ sh.op = x) /\ ~(sh'.pc # "idle" /\ sh'.op = x)
      BY <1>2, <1>8
    <2> QED
      BY <1>6, <1>8, <2>1, Zenon DEF Place
  <1> QED
    BY <1>1, <1>4, <1>5, <1>7, <1>8

LEMMA ShadowAdvances ==
  ASSUME ShadowTypes, QueueFits, sh.pc # "idle", NEW o, o = sh.op,
         NEW pc \in Shadows, Shadow(pc), UNCHANGED queue
  PROVE  /\ o \in Ops /\ sh'.op = o /\ Place(o) = sh.pc /\ Place(o)' = pc
         /\ \A x : x # o => Place(x)' = Place(x)
         /\ QueueFits' /\ ShadowTypes'
  <1>1. sh \in [pc : Shadows, op : Ops]
    BY DEF ShadowTypes, Idle
  <1>2. sh'.pc = pc /\ sh'.op = sh.op /\ sh' \in [pc : Shadows, op : Ops] /\ pc # "idle"
    BY <1>1 DEF Shadow, Shadows
  <1> QED
    BY <1>1, <1>2 DEF Place, QueueFits, ShadowTypes

LEMMA ShadowEnds ==
  ASSUME ShadowTypes, QueueFits, sh.pc # "idle", NEW o, o = sh.op, sh' = Idle, UNCHANGED queue
  PROVE  /\ o \in Ops /\ Place(o) = sh.pc /\ Place(o)' = "none"
         /\ \A x : x # o => Place(x)' = Place(x)
         /\ QueueFits' /\ ShadowTypes'
  <1>1. sh \in [pc : Shadows, op : Ops] /\ sh'.pc = "idle" /\ sh.op \in Ops
    BY DEF ShadowTypes, Idle
  <1>2. QueueFits' /\ ShadowTypes'
    BY <1>1 DEF QueueFits, ShadowTypes
  <1>3. Place(o) = sh.pc /\ Place(o)' = "none"
    BY <1>1 DEF Place, QueueFits
  <1>4. ASSUME NEW x, x # o
        PROVE  Place(x)' = Place(x)
    BY <1>1, <1>4 DEF Place
  <1> QED
    BY <1>1, <1>2, <1>3, <1>4


-----------------------------------------------------------------------------
(* What each step does to the level of the request at which it is taken: k is *)
(* the level, q the request, a its place, p the object, h the hook, c the     *)
(* routine, w the postponement, n the continuations, t the shadow thread.     *)

Places == [pc : Stages, k : 0..Depth]
Waits  == {"no", "nowait", "wait"}
Level(k, q, a, p, h, c, w, n, t) ==
  /\ k \in Levels /\ q \in ReqRecords /\ a \in Places /\ p \in OpRecords /\ h \in Hooks
  /\ c \in Routines /\ w \in Waits /\ n \in Nat /\ t \in Shadows \cup {"none", "queued"}
  /\ LevelFits(k, q, a, p, h, c, w, n, t)

\* The object p with some flags added.
Marked(p, s, set) == /\ s \in OpRecords /\ s.flags = p.flags \cup set
                     /\ s.refs = p.refs /\ s.mdl = p.mdl
\* ... and with a reference for the shadow thread.
Sent(p, s, set) == /\ s \in OpRecords /\ s.flags = p.flags \cup set \cup {"Sent"}
                   /\ s.refs = p.refs + 1 /\ s.mdl = p.mdl
\* The flags that copying the data adds.
Copying(q) == IF Copyable(q) THEN {"Data"} ELSE {}

USE DEF Level, LevelFits, RoutineFits, ObjectFits, FlagsFit, DataFits, Owned, Passed, Completes,
        Going, Down, Owning, Active, NoObject, Copyable, Routines, Shadows, Places, OpRecords, Hooks, Waits, Flags, Stages

\* The completion routine of a device operation.
LEMMA StartFits ==
  ASSUME NEW k, NEW q, NEW a, NEW p, NEW h, NEW w, NEW n, NEW t,
         Level(k, q, a, p, h, "start", w, n, t),
         q.path = "device"
  PROVE  /\ "Error" \in p.flags => Level(k, q, a, p, h, "deref", w, n, t)
         /\ "Sent" \notin p.flags \/ "Data" \in p.flags \/ "Shadowing" \in p.flags =>
              "Error" \in p.flags \/ Level(k, q, a, p, h, "body", w, n, t)
         /\ "Sent" \in p.flags => "Error" \in p.flags \/ Level(k, q, a, p, h, "lock", w, n, t)
  OBVIOUS

\* Under the lock the data is found copied, or being copied by the shadow thread.
LEMMA NothingToCopyFits ==
  ASSUME NEW k, NEW q, NEW a, NEW p, NEW h, NEW w, NEW n, NEW t,
         Level(k, q, a, p, h, "lock", w, n, t),
         t # "copying", "Data" \in p.flags \/ "Shadowing" \in p.flags
  PROVE  /\ q.path = "device" => Level(k, q, a, p, h, "body", w, n, t)
         /\ q.path # "device" => Level(k, q, a, p, h, "unlock", w, n, t)
  OBVIOUS

\* The completion is postponed and left to the shadow thread.
LEMMA PostponedFits ==
  ASSUME NEW k, NEW q, NEW a, NEW p, NEW h, NEW w, NEW n, NEW t, NEW s, NEW v,
         Level(k, q, a, p, h, "lock", w, n, t),
         q.path = "device", "Data" \notin p.flags, Marked(p, s, {"InThread"}), v \in {"nowait", "wait"}
  PROVE  Level(k, q, a, s, "pended", "body", v, n, t)
  BY DEF Marked

\* The shadow thread is told to wait while the completing thread copies.
LEMMA WaitFits ==
  ASSUME NEW k, NEW q, NEW a, NEW p, NEW h, NEW w, NEW n, NEW t, NEW s,
         Level(k, q, a, p, h, "lock", w, n, t),
         "Data" \notin p.flags, t # "copying", Marked(p, s, {"Wait"})
  PROVE  Level(k, q, a, s, h, "copying", w, n, t)
  BY DEF Marked

\* The data has been copied outside the lock.
LEMMA CopiedFits ==
  ASSUME NEW k, NEW q, NEW a, NEW p, NEW h, NEW w, NEW n, NEW t, NEW s,
         Level(k, q, a, p, h, "copying", w, n, t),
         Marked(p, s, Copying(q))
  PROVE  Level(k, q, a, s, h, "copied", w, n, t)
  BY DEF Marked, Copying

\* The thread that waits is woken, or the flag cleared.
LEMMA WokenFits ==
  ASSUME NEW k, NEW q, NEW a, NEW p, NEW h, NEW w, NEW n, NEW t, NEW s,
         Level(k, q, a, p, h, "copied", w, n, t),
         p = s \/ (s \in OpRecords /\ s.flags = p.flags \ {"Wait"} /\ s.refs = p.refs /\ s.mdl = p.mdl)
  PROVE  /\ q.path = "device" => Level(k, q, a, s, h, "body", w, n, t)
         /\ q.path # "device" => Level(k, q, a, s, h, "unlock", w, n, t)
  OBVIOUS

\* A read is copied and sent to the shadow thread, or only copied.
LEMMA ReadFits ==
  ASSUME NEW k, NEW q, NEW a, NEW p, NEW h, NEW w, NEW n, NEW t, NEW s,
         Level(k, q, a, p, h, "body", w, n, t),
         q.major = "read"
  PROVE  /\ t = "none"
         /\ Sent(p, s, Copying(q)) => Level(k, q, a, s, h, "unlock", w, n, "queued")
         /\ Marked(p, s, Copying(q)) => Level(k, q, a, s, h, "unlock", w, n, t)
  BY DEF Marked, Sent, Copying

\* There is no data to copy for other requests.
LEMMA NoReadFits ==
  ASSUME NEW k, NEW q, NEW a, NEW p, NEW h, NEW w, NEW n, NEW t,
         Level(k, q, a, p, h, "body", w, n, t),
         q.major # "read"
  PROVE  Level(k, q, a, p, h, "unlock", w, n, t)
  OBVIOUS

\* The post operation of a create has no object.
LEMMA CreateFits ==
  ASSUME NEW k, NEW q, NEW a, NEW p, NEW h, NEW w, NEW n, NEW t,
         Level(k, q, a, p, h, "start", w, n, t),
         q.path = "fsd", q.major = "create"
  PROVE  Level(k, q, a, p, h, "finish", w, n, t)
  OBVIOUS

\* The post operation of a read or a write reads the flags ...
LEMMA ReadFlagsFits ==
  ASSUME NEW k, NEW q, NEW a, NEW p, NEW h, NEW w, NEW n, NEW t,
         Level(k, q, a, p, h, "start", w, n, t),
         q.path # "device", q.major # "create"
  PROVE  Level(k, q, a, p, h, "mark", w, n, t)
  OBVIOUS

\* ... and writes them back with the mark.
LEMMA PostOperationFits ==
  ASSUME NEW k, NEW q, NEW a, NEW p, NEW h, NEW w, NEW n, NEW t, NEW s, NEW f,
         Level(k, q, a, p, h, "mark", w, n, t),
         f \subseteq p.flags, q.major = "write" /\ q.len = 1 => "Data" \in f,
         s \in OpRecords, s.flags = f \cup {"OnStack"}, s.refs = p.refs, s.mdl = p.mdl
  PROVE  Level(k, q, a, s, h, "test", w, n, t)
  OBVIOUS

\* The post operation of a read sends the object before its data is copied.
LEMMA PostReadFits ==
  ASSUME NEW k, NEW q, NEW a, NEW p, NEW h, NEW w, NEW n, NEW t, NEW s, NEW f,
         Level(k, q, a, p, h, "mark", w, n, t),
         f \subseteq p.flags, q.major = "read",
         s \in OpRecords, s.flags = f \cup {"OnStack", "Sent"}, s.refs = p.refs + 1, s.mdl = p.mdl
  PROVE  t = "none" /\ Level(k, q, a, s, h, "test", w, n, "queued")
  OBVIOUS

\* The one who is about to write the flags back is the only one of the request,
\* and its object is there.
LEMMA MarkingIs ==
  ASSUME NEW k, NEW q, NEW a, NEW p, NEW h, NEW w, NEW n, NEW t,
         Level(k, q, a, p, h, "mark", w, n, t)
  PROVE  /\ a.pc = "up" /\ a.k = k /\ q.path # "device" /\ q.major # "create"
         /\ p.refs = 1 + (IF t # "none" THEN 1 ELSE 0)
         /\ q.major = "write" /\ q.len = 1 => "Data" \in p.flags
  OBVIOUS

LEMMA StartingIs ==
  ASSUME NEW k, NEW q, NEW a, NEW p, NEW h, NEW c, NEW w, NEW n, NEW t,
         Level(k, q, a, p, h, c, w, n, t), c \in {"start", "mark"}
  PROVE  a.pc = "up" /\ a.k = k
  OBVIOUS


\* The test before the lock.
LEMMA TestFits ==
  ASSUME NEW k, NEW q, NEW a, NEW p, NEW h, NEW w, NEW n, NEW t,
         Level(k, q, a, p, h, "test", w, n, t)
  PROVE  /\ "Sent" \notin p.flags \/ "Data" \in p.flags => Level(k, q, a, p, h, "unlock", w, n, t)
         /\ Level(k, q, a, p, h, "lock", w, n, t)
  OBVIOUS

\* The MDL goes, and data not copied yet is copied.
LEMMA UnlockFits ==
  ASSUME NEW k, NEW q, NEW a, NEW p, NEW h, NEW w, NEW n, NEW t, NEW s,
         Level(k, q, a, p, h, "unlock", w, n, t),
         s.refs = p.refs, s.mdl # "locked", s \in OpRecords,
         s.flags = p.flags \/ s.flags = p.flags \cup Copying(q)
  PROVE  Level(k, q, a, s, h, "deref", w, n, t)
  BY DEF Copying

\* The routine's reference is dropped.
LEMMA DerefFits ==
  ASSUME NEW k, NEW q, NEW a, NEW p, NEW h, NEW w, NEW n, NEW t, NEW s,
         Level(k, q, a, p, h, "deref", w, n, t),
         s \in OpRecords, p.refs = 1 => s = NoOp,
         p.refs # 1 => s.refs = p.refs - 1 /\ s.flags = p.flags /\ s.mdl = p.mdl
  PROVE  Level(k, q, a, s, h, "finish", w, n, t)
  BY DEF NoOp

\* The routine of a postponed completion is over.
LEMMA EndFits ==
  ASSUME NEW k, NEW q, NEW a, NEW p, NEW h, NEW w, NEW n, NEW t,
         Level(k, q, a, p, h, "finish", w, n, t),
         w # "no"
  PROVE  Level(k, q, a, p, h, "end", w, n, t)
  OBVIOUS

\* The shadow thread takes the work item.
LEMMA TakenFits ==
  ASSUME NEW k, NEW q, NEW a, NEW p, NEW h, NEW c, NEW w, NEW n,
         Level(k, q, a, p, h, c, w, n, "queued")
  PROVE  /\ "Data" \in p.flags => Level(k, q, a, p, h, c, w, n, "deref")
         /\ "Data" \notin p.flags => Level(k, q, a, p, h, c, w, n, "taken")
  OBVIOUS

\* The shadow thread announces itself and finds what is left to do.
LEMMA ShadowingFits ==
  ASSUME NEW k, NEW q, NEW a, NEW p, NEW h, NEW c, NEW w, NEW n, NEW s,
         Level(k, q, a, p, h, c, w, n, "taken"),
         Marked(p, s, {"Shadowing"})
  PROVE  /\ "Data" \in p.flags => Level(k, q, a, s, h, c, w, n, "deref")
         /\ "Data" \notin p.flags /\ "Wait" \in p.flags => Level(k, q, a, s, h, c, w, n, "await")
         /\ "Data" \notin p.flags /\ "Wait" \notin p.flags /\ "InThread" \in p.flags =>
              Level(k, q, a, s, h, c, w, n, "continue")
         /\ "Data" \notin p.flags /\ "Wait" \notin p.flags /\ "InThread" \notin p.flags =>
              Level(k, q, a, s, h, c, w, n, "copying")
  BY DEF Marked

\* The shadow thread has copied the data.
LEMMA ShadowCopiesFits ==
  ASSUME NEW k, NEW q, NEW a, NEW p, NEW h, NEW c, NEW w, NEW n, NEW s,
         Level(k, q, a, p, h, c, w, n, "copying"),
         Marked(p, s, Copying(q))
  PROVE  Level(k, q, a, s, h, c, w, n, "deref")
  BY DEF Marked, Copying

\* The copy of the completing thread is over.
LEMMA AwaitFits ==
  ASSUME NEW k, NEW q, NEW a, NEW p, NEW h, NEW c, NEW w, NEW n,
         Level(k, q, a, p, h, c, w, n, "await")
  PROVE  Level(k, q, a, p, h, c, w, n, "deref")
  OBVIOUS

\* The context of a postponed completion is freed.
LEMMA FreedFits ==
  ASSUME NEW k, NEW q, NEW a, NEW p, NEW h, NEW c, NEW w, NEW n,
         Level(k, q, a, p, h, c, w, n, "completing")
  PROVE  c # "idle" /\ Level(k, q, a, p, "freed", c, w, n, "deref")
  OBVIOUS

\* The shadow thread drops its reference.
LEMMA ShadowDerefFits ==
  ASSUME NEW k, NEW q, NEW a, NEW p, NEW h, NEW c, NEW w, NEW n, NEW s,
         Level(k, q, a, p, h, c, w, n, "deref"),
         s \in OpRecords, p.refs = 1 => s = NoOp,
         p.refs # 1 => s.refs = p.refs - 1 /\ s.flags = p.flags /\ s.mdl = p.mdl
  PROVE  /\ c # "idle" \/ (s.flags = p.flags)
         /\ Level(k, q, a, s, h, c, w, n, "none")
  BY DEF NoOp

-----------------------------------------------------------------------------
(* What the steps that move a request from a to b do to its levels            *)

\* A level the request does not leave with an object.
LEMMA DescendsFits ==
  ASSUME NEW k, NEW q, NEW a, NEW p, NEW h, NEW c, NEW w, NEW n, NEW t, NEW b,
         Level(k, q, a, p, h, c, w, n, t),
         a.pc \in Down, b \in Places, b.pc \in Down \cup {"lower"}, b.k <= a.k,
         a.pc = "created" => a.k # k, b.pc = "created" => b.k # k
  PROVE  Level(k, q, b, p, h, c, w, n, t)
  BY LevelsAre

\* The level at which the request is on its way down.
LEMMA HereIs ==
  ASSUME NEW k, NEW q, NEW a, NEW p, NEW h, NEW c, NEW w, NEW n, NEW t,
         Level(k, q, a, p, h, c, w, n, t),
         a.pc \in Down, a.k = k
  PROVE  /\ h = "none" /\ c = "idle" /\ w = "no" /\ n = 0
         /\ a.pc # "created" => p = NoOp /\ t = "none"
         /\ q.path = "device" => t = "none"
  OBVIOUS

\* A request that has not arrived.
LEMMA NewIs ==
  ASSUME NEW k, NEW q, NEW a, NEW p, NEW h, NEW c, NEW w, NEW n, NEW t,
         Level(k, q, a, p, h, c, w, n, t),
         a.pc = "new"
  PROVE  h = "none" /\ c = "idle" /\ w = "no" /\ n = 0 /\ p = NoOp /\ t = "none"
  OBVIOUS

\* The request arrives.
LEMMA ArrivesFits ==
  ASSUME NEW k, NEW q, NEW a, NEW p, NEW h, NEW c, NEW w, NEW n, NEW t, NEW b, NEW r,
         Level(k, q, a, p, h, c, w, n, t),
         a.pc = "new", b \in Places, b.pc = "down", r \in ReqRecords
  PROVE  Level(k, r, b, p, h, c, w, n, t)
  BY NewIs DEF NoOp

\* An object made for the request q: the data of a write is copied at once.
NewObject(q, s) ==
  /\ s \in OpRecords /\ s.refs = 1 /\ s.flags \subseteq {"Data"}
  /\ q.major = "read" => s.flags = {}
  /\ q.major = "write" /\ q.len = 1 => "Data" \in s.flags
  /\ s.mdl = "locked" => q.major = "read"

\* An object is created at the level.
LEMMA CreatedFits ==
  ASSUME NEW k, NEW q, NEW a, NEW p, NEW h, NEW c, NEW w, NEW n, NEW t, NEW b, NEW s,
         Level(k, q, a, p, h, c, w, n, t),
         a.pc = "down", a.k = k, b \in Places, b.pc = "created", b.k = k,
         ~NoObject(q), NewObject(q, s)
  PROVE  Level(k, q, b, s, h, c, w, n, t)
  BY HereIs DEF NewObject

\* The object is dropped because the hook is refused.
LEMMA DroppedFits ==
  ASSUME NEW k, NEW q, NEW a, NEW p, NEW h, NEW c, NEW w, NEW n, NEW t, NEW b,
         Level(k, q, a, p, h, c, w, n, t),
         q.path = "device", a.pc = "created", a.k = k, b \in Places, b.pc = "down", b.k = k
  PROVE  p.refs = 1 /\ Level(k, q, b, NoOp, h, c, w, n, t)
  BY HereIs DEF NoOp, Mdls

\* The hook is set at the level and the request goes down.
LEMMA HookedFits ==
  ASSUME NEW k, NEW q, NEW a, NEW p, NEW h, NEW c, NEW w, NEW n, NEW t, NEW b,
         Level(k, q, a, p, h, c, w, n, t),
         a.pc = "created", a.k = k, b \in Places, b.pc \in Down \cup {"lower"}, b.k < k, b.pc # "created"
  PROVE  Level(k, q, b, p, "set", c, w, n, t)
  BY HereIs

\* The hook is set and the object marked with an error.
LEMMA ErrorFits ==
  ASSUME NEW k, NEW q, NEW a, NEW p, NEW h, NEW c, NEW w, NEW n, NEW t, NEW b, NEW s,
         Level(k, q, a, p, h, c, w, n, t),
         a.pc = "created", a.k = k, b \in Places, b.pc \in Down \cup {"lower"}, b.k < k, b.pc # "created",
         q.path = "device", q.major # "read", Marked(p, s, {"Error"})
  PROVE  Level(k, q, b, s, "set", c, w, n, t)
  BY HereIs DEF Marked

\* The hook is set and the object sent to the shadow thread.
LEMMA HookedSentFits ==
  ASSUME NEW k, NEW q, NEW a, NEW p, NEW h, NEW c, NEW w, NEW n, NEW t, NEW b, NEW s,
         Level(k, q, a, p, h, c, w, n, t),
         a.pc = "created", a.k = k, b \in Places, b.pc \in Down \cup {"lower"}, b.k < k, b.pc # "created",
         q.path = "device", q.major \notin {"read", "create"}, Sent(p, s, {})
  PROVE  Level(k, q, b, s, "set", c, w, n, "queued")
  BY HereIs DEF Sent

\* The minifilter's callback: the object is created and the hook set.
LEMMA CallbackFits ==
  ASSUME NEW k, NEW q, NEW a, NEW p, NEW h, NEW c, NEW w, NEW n, NEW t, NEW b, NEW s,
         Level(k, q, a, p, h, c, w, n, t),
         a.pc = "down", a.k = k, b \in Places, b.pc \in Down \cup {"lower"}, b.k < k, b.pc # "created",
         (NoObject(q) /\ s = p) \/ (~NoObject(q) /\ NewObject(q, s))
  PROVE  Level(k, q, b, s, "set", c, w, n, t)
  BY HereIs DEF NewObject, NoOp

\* The hooked driver's callback: the object is created, the hook is yet to be set.
LEMMA StoredFits ==
  ASSUME NEW k, NEW q, NEW a, NEW p, NEW h, NEW c, NEW w, NEW n, NEW t, NEW b, NEW s,
         Level(k, q, a, p, h, c, w, n, t),
         a.pc = "down", a.k = k, b \in Places, b.pc = "created", b.k = k,
         (NoObject(q) /\ s = p) \/ (~NoObject(q) /\ NewObject(q, s))
  PROVE  Level(k, q, b, s, h, c, w, n, t)
  BY HereIs DEF NewObject, NoOp

\* The same for a write, which is sent to the shadow thread.
LEMMA CallbackSentFits ==
  ASSUME NEW k, NEW q, NEW a, NEW p, NEW h, NEW c, NEW w, NEW n, NEW t, NEW b, NEW s, NEW u,
         Level(k, q, a, p, h, c, w, n, t),
         a.pc = "down", a.k = k, b \in Places, q.path # "device", q.major = "write",
         NewObject(q, s), Sent(s, u, {})
  PROVE  /\ b.pc \in Down \cup {"lower"} /\ b.k < k /\ b.pc # "created" => Level(k, q, b, u, "set", c, w, n, "queued")
         /\ b.pc = "created" /\ b.k = k => Level(k, q, b, u, h, c, w, n, "queued")
  BY HereIs DEF NewObject, Sent

\* The object found by the scan gets back the flags that were read, with the mark.
LEMMA SeenFits ==
  ASSUME NEW k, NEW q, NEW a, NEW p, NEW c, NEW w, NEW n, NEW t, NEW b, NEW f, NEW s,
         Level(k, q, a, p, "set", c, w, n, t),
         a.pc \in Going, b \in Places, b.pc \in Down \cup {"lower"}, b.k <= a.k, b.pc # "created", a.k < k, b.k < k,
         ~NoObject(q), f \subseteq p.flags, q.major = "write" /\ q.len = 1 => "Data" \in f,
         s \in OpRecords, s.refs = p.refs, s.mdl = p.mdl, s.flags = f \cup {"OnStack"}
  PROVE  Level(k, q, b, s, "set", c, w, n, t)
  BY LevelsAre

\* The completion goes on above the level.
LEMMA PassedFits ==
  ASSUME NEW k, NEW q, NEW a, NEW p, NEW h, NEW c, NEW w, NEW n, NEW t, NEW b,
         Level(k, q, a, p, h, c, w, n, t),
         b \in Places, Passed(k, b), h # "set" \/ c # "idle", ~Completes(k, a), a.pc = "created" => a.k # k
  PROVE  Level(k, q, b, p, h, c, w, n, t)
  BY LevelsAre

\* The completion reaches the level.
LEMMA ReachedFits ==
  ASSUME NEW k, NEW q, NEW a, NEW p, NEW c, NEW w, NEW n, NEW t, NEW b,
         Level(k, q, a, p, "set", c, w, n, t),
         b \in Places, Completes(k, b), a.pc \in Going \/ (a.pc = "up" /\ a.k < k), a.pc = "created" => a.k # k
  PROVE  Level(k, q, b, p, "set", "start", w, n, t)
  OBVIOUS

\* The completion stays below the level.
LEMMA AboveFits ==
  ASSUME NEW k, NEW q, NEW a, NEW p, NEW h, NEW c, NEW w, NEW n, NEW t, NEW b,
         Level(k, q, a, p, h, c, w, n, t),
         b \in Places, b.pc = "up", b.k < k, a.pc \in Going \/ (a.pc = "up" /\ a.k < k), a.pc = "created" => a.k # k
  PROVE  Level(k, q, b, p, h, c, w, n, t)
  BY LevelsAre

\* The completing thread continues the completion.
LEMMA ContinuedFits ==
  ASSUME NEW k, NEW q, NEW a, NEW p, NEW h, NEW n, NEW t, NEW b,
         Level(k, q, a, p, h, "finish", "no", n, t),
         b \in Places, Passed(k, b)
  PROVE  Level(k, q, b, p, "freed", "end", "no", n + 1, t)
  OBVIOUS

\* The shadow thread continues a postponed completion.
LEMMA PendedFits ==
  ASSUME NEW k, NEW q, NEW a, NEW p, NEW h, NEW c, NEW w, NEW n, NEW b,
         Level(k, q, a, p, h, c, w, n, "continue"),
         b \in Places, Passed(k, b)
  PROVE  Completes(k, a) /\ Level(k, q, b, p, h, c, w, n + 1, "completing")
  OBVIOUS

\* An object the scan of the queue finds above the request.
LEMMA FoundIs ==
  ASSUME NEW k, NEW q, NEW a, NEW p, NEW h, NEW c, NEW w, NEW n, NEW t,
         Level(k, q, a, p, h, c, w, n, t), a.pc = "down", p.refs > 0
  PROVE  h = "set" /\ ~NoObject(q) /\ (q.major = "write" /\ q.len = 1 => "Data" \in p.flags)
  OBVIOUS

HIDE DEF Level, LevelFits, RoutineFits, ObjectFits, FlagsFit, DataFits, Owned, Passed, Completes,
        Going, Down, Owning, Active, NoObject, Copyable, Routines, Shadows, Places, OpRecords, Hooks, Waits, Flags, Stages

-----------------------------------------------------------------------------
(* From the levels to the invariant                                           *)

\* Everything that is not part of a level.
RestTypes == /\ event \in [Ops -> {"none", "waiting", "set"}]
             /\ pend \in [Irps -> BOOLEAN] /\ irql \in [Irps -> {"passive", "dispatch"}]
             /\ ends \in [Irps -> Nat] /\ torn \in [Irps -> BOOLEAN]

ThisLevel(o) == Level(o[2], req[o[1]], at[o[1]], op[o], hook[o], cr[o], post[o], cont[o], Place(o))

LEMMA PlaceIs ==
  ASSUME ShadowTypes, NEW o
  PROVE  Place(o) \in Shadows \cup {"none", "queued"}
  <1>1. sh.pc # "idle" => sh.pc \in Shadows
    BY DEF ShadowTypes, Idle
  <1> QED
    BY <1>1 DEF Place

LEMMA LevelIs ==
  ASSUME OInv, NEW o \in Ops
  PROVE  ThisLevel(o)
  <1>1. o[1] \in Irps /\ o[2] \in Levels
    BY Pairs
  <1>2. /\ req[o[1]] \in ReqRecords /\ at[o[1]] \in Places /\ op[o] \in OpRecords /\ hook[o] \in Hooks
        /\ cr[o] \in Routines /\ post[o] \in Waits /\ cont[o] \in Nat
    BY <1>1 DEF OInv, Types, RequestTypes, LevelTypes, Places, Waits
  <1>3. Place(o) \in Shadows \cup {"none", "queued"}
    BY PlaceIs DEF OInv, Types
  <1>4. Fits(o)
    BY DEF OInv
  <1> QED
    BY <1>1, <1>2, <1>3, <1>4 DEF ThisLevel, Level, Fits

\* The level o[2] of the request o[1], and no other, gets new values.
Becomes(o, p, h, c, w, n, t) ==
  /\ op' = [op EXCEPT ![o] = p] /\ hook' = [hook EXCEPT ![o] = h] /\ cr' = [cr EXCEPT ![o] = c]
  /\ post' = [post EXCEPT ![o] = w] /\ cont' = [cont EXCEPT ![o] = n]
  /\ Place(o)' = t /\ \A x : x # o => Place(x)' = Place(x)

LEMMA Same ==
  ASSUME OInv, NEW o \in Ops
  PROVE  /\ op = [op EXCEPT ![o] = op[o]] /\ hook = [hook EXCEPT ![o] = hook[o]]
         /\ cr = [cr EXCEPT ![o] = cr[o]] /\ post = [post EXCEPT ![o] = post[o]]
         /\ cont = [cont EXCEPT ![o] = cont[o]]
  BY DEF OInv, Types, LevelTypes

LEMMA RestIs ==
  ASSUME OInv
  PROVE  RestTypes
  BY DEF OInv, Types, RequestTypes, LevelTypes, RestTypes

\* What the scan of the queue has read is left alone.
ScanKept == /\ seen' \in [Irps -> {<<>>} \cup (Levels \X SUBSET Flags)]
            /\ \A r \in Irps : at[r].pc = "mark" => seen'[r] = seen[r]

LEMMA SeenIs ==
  ASSUME OInv
  PROVE  /\ seen \in [Irps -> {<<>>} \cup (Levels \X SUBSET Flags)]
         /\ UNCHANGED seen => ScanKept
         /\ \A r \in Irps : \A v \in {<<>>} \cup (Levels \X SUBSET Flags) :
              at[r].pc # "mark" /\ seen' = [seen EXCEPT ![r] = v] => ScanKept
  BY DEF OInv, Types, RequestTypes, ScanKept

\* A step of one level: the completion routine's or the shadow thread's.
LEMMA OneLevelMoves ==
  ASSUME OInv, NEW o \in Ops, UNCHANGED <<req, at>>, ScanKept, RestTypes', ShadowTypes', QueueFits',
         NEW p, NEW h, NEW c, NEW w, NEW n, NEW t, Becomes(o, p, h, c, w, n, t),
         Level(o[2], req[o[1]], at[o[1]], p, h, c, w, n, t),
         (op[o].flags \subseteq p.flags /\ h = hook[o]) \/ cr[o] # "idle"
  PROVE  OInv'
  <1>1. /\ p \in OpRecords /\ h \in Hooks /\ c \in Routines /\ w \in Waits /\ n \in Nat
        /\ LevelFits(o[2], req[o[1]], at[o[1]], p, h, c, w, n, t)
    BY DEF Level
  <1>2. LevelTypes /\ RequestTypes
    BY DEF OInv, Types
  <1>3. /\ op'[o] = p /\ hook'[o] = h /\ cr'[o] = c /\ post'[o] = w /\ cont'[o] = n /\ Place(o)' = t
        /\ \A x \in Ops : x # o => /\ op'[x] = op[x] /\ hook'[x] = hook[x] /\ cr'[x] = cr[x]
                                   /\ post'[x] = post[x] /\ cont'[x] = cont[x] /\ Place(x)' = Place(x)
    BY <1>2 DEF LevelTypes, Becomes
  <1>4. LevelTypes'
    BY <1>1, <1>2 DEF LevelTypes, Becomes, RestTypes, Waits
  <1>5. RequestTypes'
    BY <1>2 DEF RequestTypes, RestTypes, ScanKept
  <1>6. ASSUME NEW x \in Ops
        PROVE  Fits(x)'
    <2>1. ASSUME x = o PROVE Fits(x)'
      BY <1>1, <1>3, <2>1 DEF Fits
    <2>2. ASSUME x # o PROVE Fits(x)'
      BY <1>3, <2>2 DEF Fits, OInv
    <2> QED
      BY <2>1, <2>2
  <1>7. ASSUME NEW r \in Irps
        PROVE  MarkFits(r)'
    <2> DEFINE x == <<r, seen[r][1]>>
    <2> SUFFICES ASSUME at[r].pc = "mark"
                 PROVE  Seen(r, req[r], seen[r])'
      BY DEF MarkFits
    <2>1. Seen(r, req[r], seen[r])
      BY DEF OInv, MarkFits
    <2>2. x \in Ops /\ x[1] = r /\ x[2] = seen[r][1]
      BY <2>1, Pairs DEF Seen
    <2>3. cr[x] = "idle"
      <3>1. Fits(x)
        BY <2>2 DEF OInv
      <3> QED
        BY <2>2, <3>1, Zenon DEF Fits, LevelFits, RoutineFits, Going, Down
    <2>4. hook'[x] = hook[x] /\ op[x].flags \subseteq op'[x].flags
      BY <1>3, <2>2, <2>3
    <2>5. seen'[r] = seen[r]
      BY DEF ScanKept
    <2> QED
      BY <2>1, <2>4, <2>5 DEF Seen
  <1> QED
    BY <1>4, <1>5, <1>6, <1>7 DEF OInv, Types

\* A step that moves a request: its levels are looked at one by one.
LEMMA RequestMoves ==
  ASSUME OInv, NEW r \in Irps, NEW q, NEW b, LevelTypes', RestTypes', ShadowTypes', QueueFits',
         req' = [req EXCEPT ![r] = q], q \in ReqRecords /\ q \in Requests[r] \cup {NoReq},
         at' = [at EXCEPT ![r] = b], b \in Places,
         b.pc # "new", b.pc \in Down \cup {"up"} => b.k \in Levels,
         seen' \in [Irps -> {<<>>} \cup (Levels \X SUBSET Flags)],
         \A x \in Irps : x # r => seen'[x] = seen[x],
         \A x \in Ops : x[1] # r => /\ op'[x] = op[x] /\ hook'[x] = hook[x] /\ cr'[x] = cr[x]
                                    /\ post'[x] = post[x] /\ cont'[x] = cont[x] /\ Place(x)' = Place(x),
         \A x \in Ops : x[1] = r =>
            Level(x[2], q, b, op'[x], hook'[x], cr'[x], post'[x], cont'[x], Place(x)'),
         MarkFits(r)'
  PROVE  OInv'
  <1>1. RequestTypes
    BY DEF OInv, Types
  <1>2. req'[r] = q /\ at'[r] = b /\ \A x \in Irps : x # r => req'[x] = req[x] /\ at'[x] = at[x]
    BY <1>1 DEF RequestTypes
  <1>3. RequestTypes'
    BY <1>1, <1>2 DEF RequestTypes, RestTypes, Places
  <1>4. ASSUME NEW x \in Ops
        PROVE  Fits(x)'
    <2>1. x[1] \in Irps
      BY Pairs
    <2>2. ASSUME x[1] = r PROVE Fits(x)'
      BY <1>2, <2>2 DEF Fits, Level
    <2>3. ASSUME x[1] # r PROVE Fits(x)'
      BY <1>2, <2>1, <2>3 DEF Fits, OInv
    <2> QED
      BY <2>2, <2>3
  <1>5. ASSUME NEW x \in Irps
        PROVE  MarkFits(x)'
    <2> SUFFICES ASSUME x # r, at[x].pc = "mark"
                 PROVE  Seen(x, req[x], seen[x])'
      BY <1>2 DEF MarkFits
    <2>1. Seen(x, req[x], seen[x])
      BY DEF OInv, MarkFits
    <2>2. <<x, seen[x][1]>> \in Ops /\ <<x, seen[x][1]>>[1] # r
      BY <2>1, Pairs DEF Seen
    <2> QED
      BY <1>2, <2>1, <2>2 DEF Seen
  <1> QED
    BY <1>3, <1>4, <1>5 DEF OInv, Types


-----------------------------------------------------------------------------
(* The completion routine                                                     *)

LEMMA RoutineMoves ==
  ASSUME OInv, NEW o \in Ops, cr[o] # "idle", UNCHANGED <<req, at, queue, sh, cont, irql, ends, torn>>,
         seen' = seen \/ ScanKept,
         event' \in [Ops -> {"none", "waiting", "set"}], pend' \in [Irps -> BOOLEAN],
         NEW p, NEW h, NEW c, NEW w,
         op' = [op EXCEPT ![o] = p], hook' = [hook EXCEPT ![o] = h],
         cr' = [cr EXCEPT ![o] = c], post' = [post EXCEPT ![o] = w],
         Level(o[2], req[o[1]], at[o[1]], p, h, c, w, cont[o], Place(o))
  PROVE  OInv'
  <1>1. (\A x : Place(x)' = Place(x)) /\ QueueFits' /\ ShadowTypes'
    BY PlaceStays DEF OInv, Types
  <1>2. cont' = [cont EXCEPT ![o] = cont[o]]
    BY Same
  <1>3. Becomes(o, p, h, c, w, cont[o], Place(o))
    BY <1>1, <1>2 DEF Becomes
  <1>4. RestTypes' /\ ScanKept
    BY RestIs, SeenIs DEF RestTypes
  <1> QED
    BY <1>1, <1>3, <1>4, OneLevelMoves

LEMMA EventsStay ==
  ASSUME OInv
  PROVE  event \in [Ops -> {"none", "waiting", "set"}] /\ pend \in [Irps -> BOOLEAN]
  BY RestIs DEF RestTypes

\* The routine that only changes the object, and the one that changes nothing.
LEMMA RoutineChanges ==
  ASSUME OInv, NEW o \in Ops, cr[o] # "idle",
         UNCHANGED <<req, at, hook, post, event, pend, irql, queue, sh, ends, cont, torn>>,
         seen' = seen \/ ScanKept,
         NEW p, NEW c, op' = [op EXCEPT ![o] = p], cr' = [cr EXCEPT ![o] = c],
         Level(o[2], req[o[1]], at[o[1]], p, hook[o], c, post[o], cont[o], Place(o))
  PROVE  OInv'
  <1>1. hook' = [hook EXCEPT ![o] = hook[o]] /\ post' = [post EXCEPT ![o] = post[o]]
    BY Same
  <1>2. event' \in [Ops -> {"none", "waiting", "set"}] /\ pend' \in [Irps -> BOOLEAN]
    BY EventsStay
  <1> QED
    BY <1>1, <1>2, RoutineMoves

LEMMA RoutineAdvances ==
  ASSUME OInv, NEW o \in Ops, cr[o] # "idle",
         UNCHANGED <<req, at, op, hook, post, event, pend, irql, seen, queue, sh, ends, cont, torn>>,
         NEW c, cr' = [cr EXCEPT ![o] = c],
         Level(o[2], req[o[1]], at[o[1]], op[o], hook[o], c, post[o], cont[o], Place(o))
  PROVE  OInv'
  <1>1. op' = [op EXCEPT ![o] = op[o]]
    BY Same
  <1> QED
    BY <1>1, RoutineChanges

LEMMA FlagsAre ==
  ASSUME OInv, NEW o \in Ops, NEW set \in SUBSET Flags
  PROVE  /\ op[o] \in OpRecords /\ Marked(op[o], WithFlags(op[o], set), set)
         /\ \A f : Is(o, f) <=> f \in op[o].flags
  <1>1. op[o] \in OpRecords
    BY DEF OInv, Types, LevelTypes
  <1> QED
    BY <1>1, WithFlagsIs DEF Marked, Is

LEMMA CopyingIs ==
  ASSUME NEW o
  PROVE  /\ ProcessOperationObjectPrivateBuffers(o, TRUE) = Copying(req[o[1]])
         /\ Copying(req[o[1]]) \in SUBSET Flags
  BY Copies DEF Copying, Flags

LEMMA IrpCompletionRoutineStep ==
  ASSUME OInv, NEW o \in Ops, IrpCompletionRoutine(o)
  PROVE  OInv'
  <1> DEFINE d == IF Is(o, "Error") THEN "deref"
                  ELSE IF ~Is(o, "Sent") \/ Is(o, "Data") \/ Is(o, "Shadowing") THEN "body"
                  ELSE "lock"
  <1>1. /\ cr[o] = "start" /\ req[o[1]].path = "device" /\ cr' = [cr EXCEPT ![o] = d]
        /\ UNCHANGED <<req, at, op, hook, post, event, pend, irql, seen, queue, sh, ends, cont, torn>>
    BY DEF IrpCompletionRoutine, IsDevice, Go
  <1>2. Level(o[2], req[o[1]], at[o[1]], op[o], hook[o], d, post[o], cont[o], Place(o))
    BY <1>1, LevelIs, StartFits DEF ThisLevel, Is
  <1> HIDE DEF d
  <1> QED
    BY <1>1, <1>2, RoutineAdvances

LEMMA ShadowProcessOperationBuffersForDeviceStep ==
  ASSUME OInv, NEW o \in Ops, ShadowProcessOperationBuffersForDevice(o)
  PROVE  OInv'
  <1>1. /\ cr[o] = "lock" /\ req[o[1]].path = "device" /\ Place(o) # "copying"
        /\ UNCHANGED <<req, at, event, irql, seen, queue, sh, ends, cont, torn>>
    <2>1. ~(sh.pc = "copying" /\ sh.op = o)
      BY DEF ShadowProcessOperationBuffersForDevice, ShadowThreadHoldsLock
    <2> QED
      BY <2>1 DEF ShadowProcessOperationBuffersForDevice, IsDevice, Place
  <1>2. Level(o[2], req[o[1]], at[o[1]], op[o], hook[o], "lock", post[o], cont[o], Place(o))
    BY <1>1, LevelIs DEF ThisLevel
  <1>3. ASSUME Is(o, "Data") \/ Is(o, "Shadowing")
        PROVE  OInv'
    <2>1. cr' = [cr EXCEPT ![o] = "body"] /\ UNCHANGED <<op, hook, post, pend>>
      BY <1>3 DEF ShadowProcessOperationBuffersForDevice, Go
    <2>2. Level(o[2], req[o[1]], at[o[1]], op[o], hook[o], "body", post[o], cont[o], Place(o))
      BY <1>1, <1>2, <1>3, NothingToCopyFits DEF Is
    <2> QED
      BY <1>1, <2>1, <2>2, RoutineAdvances
  <1>4. ASSUME ~Is(o, "Data"), ~Is(o, "Shadowing"), CanCompletionBePostponed(o[1])
        PROVE  OInv'
    <2> DEFINE s == WithFlags(op[o], {"InThread"})
               v == IF pend[o[1]] THEN "nowait" ELSE "wait"
    <2>1. /\ op' = [op EXCEPT ![o] = s] /\ hook' = [hook EXCEPT ![o] = "pended"]
          /\ post' = [post EXCEPT ![o] = v] /\ pend' = [pend EXCEPT ![o[1]] = TRUE]
          /\ cr' = [cr EXCEPT ![o] = "body"]
      BY <1>4 DEF ShadowProcessOperationBuffersForDevice, PrepareCompletionContextForPostponing, Go
    <2>2. Marked(op[o], s, {"InThread"}) /\ "Data" \notin op[o].flags
      BY <1>4, FlagsAre DEF Flags
    <2>3. v \in {"nowait", "wait"} /\ pend' \in [Irps -> BOOLEAN]
      BY <2>1, EventsStay
    <2> HIDE DEF s, v
    <2>4. Level(o[2], req[o[1]], at[o[1]], s, "pended", "body", v, cont[o], Place(o))
      BY <1>1, <1>2, <2>2, <2>3, PostponedFits
    <2> QED
      BY <1>1, <2>1, <2>3, <2>4, RoutineMoves, EventsStay
  <1>5. ASSUME ~Is(o, "Data"), ~Is(o, "Shadowing"), ~CanCompletionBePostponed(o[1])
        PROVE  OInv'
    <2> DEFINE s == WithFlags(op[o], {"Wait"})
    <2>1. /\ op' = [op EXCEPT ![o] = s] /\ UNCHANGED <<hook, post, pend>>
          /\ cr' = [cr EXCEPT ![o] = "copying"]
      BY <1>5 DEF ShadowProcessOperationBuffersForDevice, Go
    <2>2. Marked(op[o], s, {"Wait"}) /\ "Data" \notin op[o].flags
      BY <1>5, FlagsAre DEF Flags
    <2> HIDE DEF s
    <2>3. Level(o[2], req[o[1]], at[o[1]], s, hook[o], "copying", post[o], cont[o], Place(o))
      BY <1>1, <1>2, <2>2, WaitFits
    <2> QED
      BY <1>1, <2>1, <2>3, RoutineChanges
  <1> QED
    BY <1>3, <1>4, <1>5

LEMMA BuffersCopiedStep ==
  ASSUME OInv, NEW o \in Ops, BuffersCopied(o)
  PROVE  OInv'
  <1> DEFINE s == WithFlags(op[o], Copying(req[o[1]]))
  <1>1. /\ cr[o] = "copying" /\ op' = [op EXCEPT ![o] = s] /\ cr' = [cr EXCEPT ![o] = "copied"]
        /\ UNCHANGED <<req, at, hook, post, event, pend, irql, seen, queue, sh, ends, cont, torn>>
    BY CopyingIs DEF BuffersCopied, Go
  <1>2. Marked(op[o], s, Copying(req[o[1]]))
    BY FlagsAre, CopyingIs
  <1> HIDE DEF s
  <1>3. Level(o[2], req[o[1]], at[o[1]], s, hook[o], "copied", post[o], cont[o], Place(o))
    BY <1>1, <1>2, LevelIs, CopiedFits DEF ThisLevel
  <1> QED
    BY <1>1, <1>3, RoutineChanges

LEMMA ShadowCopingInPrivateBuffersCompletedStep ==
  ASSUME OInv, NEW o \in Ops, ShadowCopingInPrivateBuffersCompleted(o)
  PROVE  OInv'
  <1> DEFINE d == IF IsDevice(o[1]) THEN "body" ELSE "unlock"
             s == IF event[o] = "waiting" THEN op[o] ELSE [op[o] EXCEPT !.flags = @ \ {"Wait"}]
  <1>1. /\ cr[o] = "copied" /\ cr' = [cr EXCEPT ![o] = d]
        /\ UNCHANGED <<req, at, hook, post, pend, irql, seen, queue, sh, ends, cont, torn>>
    BY DEF ShadowCopingInPrivateBuffersCompleted, Go
  <1>2. /\ op' = [op EXCEPT ![o] = s]
        /\ event' \in [Ops -> {"none", "waiting", "set"}]
    <2>1. ASSUME event[o] = "waiting" PROVE op' = [op EXCEPT ![o] = s] /\ event' = [event EXCEPT ![o] = "set"]
      BY <2>1, Same DEF ShadowCopingInPrivateBuffersCompleted
    <2>2. ASSUME event[o] # "waiting" PROVE op' = [op EXCEPT ![o] = s] /\ UNCHANGED event
      BY <2>2 DEF ShadowCopingInPrivateBuffersCompleted
    <2> QED
      BY <2>1, <2>2, EventsStay
  <1>3. op[o] = s \/ (s \in OpRecords /\ s.flags = op[o].flags \ {"Wait"} /\ s.refs = op[o].refs
                        /\ s.mdl = op[o].mdl)
    BY FlagsAre DEF OpRecords
  <1>4. d = IF req[o[1]].path = "device" THEN "body" ELSE "unlock"
    BY DEF IsDevice
  <1> HIDE DEF s, d
  <1>5. Level(o[2], req[o[1]], at[o[1]], s, hook[o], d, post[o], cont[o], Place(o))
    BY <1>1, <1>3, <1>4, LevelIs, WokenFits DEF ThisLevel
  <1> QED
    <2>1. hook' = [hook EXCEPT ![o] = hook[o]] /\ post' = [post EXCEPT ![o] = post[o]]
      BY <1>1, Same
    <2>2. pend' \in [Irps -> BOOLEAN]
      BY <1>1, EventsStay
    <2> QED
      BY <1>1, <1>2, <1>5, <2>1, <2>2, RoutineMoves

LEMMA BuffersForFsdTestStep ==
  ASSUME OInv, NEW o \in Ops, BuffersForFsdTest(o)
  PROVE  OInv'
  <1> DEFINE d == IF ~Is(o, "Sent") \/ Is(o, "Data") THEN "unlock" ELSE "lock"
  <1>1. /\ cr[o] = "test" /\ cr' = [cr EXCEPT ![o] = d]
        /\ UNCHANGED <<req, at, op, hook, post, event, pend, irql, seen, queue, sh, ends, cont, torn>>
    BY DEF BuffersForFsdTest, Go
  <1>2. Level(o[2], req[o[1]], at[o[1]], op[o], hook[o], d, post[o], cont[o], Place(o))
    BY <1>1, LevelIs, TestFits DEF ThisLevel, Is
  <1> HIDE DEF d
  <1> QED
    BY <1>1, <1>2, RoutineAdvances

LEMMA ShadowProcessOperationBuffersForFsdStep ==
  ASSUME OInv, NEW o \in Ops, ShadowProcessOperationBuffersForFsd(o)
  PROVE  OInv'
  <1>1. /\ cr[o] = "lock" /\ req[o[1]].path # "device" /\ Place(o) # "copying"
        /\ UNCHANGED <<req, at, hook, post, event, pend, irql, seen, queue, sh, ends, cont, torn>>
    <2>1. ~(sh.pc = "copying" /\ sh.op = o)
      BY DEF ShadowProcessOperationBuffersForFsd, ShadowThreadHoldsLock
    <2> QED
      BY <2>1 DEF ShadowProcessOperationBuffersForFsd, IsDevice, Place
  <1>2. Level(o[2], req[o[1]], at[o[1]], op[o], hook[o], "lock", post[o], cont[o], Place(o))
    BY <1>1, LevelIs DEF ThisLevel
  <1>3. ASSUME Is(o, "Data") \/ Is(o, "Shadowing")
        PROVE  OInv'
    <2>1. cr' = [cr EXCEPT ![o] = "unlock"] /\ UNCHANGED op
      BY <1>3 DEF ShadowProcessOperationBuffersForFsd, Go
    <2>2. Level(o[2], req[o[1]], at[o[1]], op[o], hook[o], "unlock", post[o], cont[o], Place(o))
      BY <1>1, <1>2, <1>3, NothingToCopyFits DEF Is
    <2> QED
      BY <1>1, <2>1, <2>2, RoutineAdvances
  <1>4. ASSUME ~Is(o, "Data"), ~Is(o, "Shadowing")
        PROVE  OInv'
    <2> DEFINE s == WithFlags(op[o], {"Wait"})
    <2>1. op' = [op EXCEPT ![o] = s] /\ cr' = [cr EXCEPT ![o] = "copying"]
      BY <1>4 DEF ShadowProcessOperationBuffersForFsd, Go
    <2>2. Marked(op[o], s, {"Wait"}) /\ "Data" \notin op[o].flags
      BY <1>4, FlagsAre DEF Flags
    <2> HIDE DEF s
    <2>3. Level(o[2], req[o[1]], at[o[1]], s, hook[o], "copying", post[o], cont[o], Place(o))
      BY <1>1, <1>2, <2>2, WaitFits
    <2> QED
      BY <1>1, <2>1, <2>3, RoutineChanges
  <1> QED
    BY <1>3, <1>4

LEMMA UnlockAndFreeMdlForOperationStep ==
  ASSUME OInv, NEW o \in Ops, UnlockAndFreeMdlForOperation(o)
  PROVE  OInv'
  <1> DEFINE copies == ~Is(o, "Data") /\ req[o[1]].shadowed
             f == ProcessOperationObjectPrivateBuffers(o, copies)
             m == WithFlags(op[o], f)
             u == [m EXCEPT !.mdl = "none"]
  <1>1. /\ cr[o] = "unlock" /\ cr' = [cr EXCEPT ![o] = "deref"]
        /\ UNCHANGED <<req, at, hook, post, event, pend, irql, seen, queue, sh, ends, cont, torn>>
    BY DEF UnlockAndFreeMdlForOperation, Go
  <1>2. \/ op[o].mdl # "locked" /\ op' = [op EXCEPT ![o] = op[o]]
        \/ op' = [op EXCEPT ![o] = u]
    BY Same DEF UnlockAndFreeMdlForOperation
  <1>3. f = {} \/ f = Copying(req[o[1]])
    BY DEF ProcessOperationObjectPrivateBuffers, HasData, Copyable, Copying
  <1>4. op[o] \in OpRecords /\ Marked(op[o], m, f)
    BY <1>3, FlagsAre, CopyingIs
  <1> HIDE DEF f, m
  <1>5. /\ u \in OpRecords /\ u.mdl = "none" /\ u.refs = op[o].refs
        /\ u.flags = op[o].flags \/ u.flags = op[o].flags \cup Copying(req[o[1]])
    BY <1>3, <1>4 DEF Marked, OpRecords, Mdls
  <1> HIDE DEF u
  <1>6. Level(o[2], req[o[1]], at[o[1]], op[o], hook[o], "unlock", post[o], cont[o], Place(o))
    BY <1>1, LevelIs DEF ThisLevel
  <1>7. ASSUME NEW s, op' = [op EXCEPT ![o] = s],
               Level(o[2], req[o[1]], at[o[1]], s, hook[o], "deref", post[o], cont[o], Place(o))
        PROVE  OInv'
    BY <1>1, <1>7, RoutineChanges
  <1>8. ASSUME op[o].mdl # "locked"
        PROVE  Level(o[2], req[o[1]], at[o[1]], op[o], hook[o], "deref", post[o], cont[o], Place(o))
    BY <1>4, <1>6, <1>8, UnlockFits
  <1>9. Level(o[2], req[o[1]], at[o[1]], u, hook[o], "deref", post[o], cont[o], Place(o))
    BY <1>5, <1>6, UnlockFits
  <1> QED
    BY <1>2, <1>7, <1>8, <1>9

LEMMA DeleteOperationObjectStep ==
  ASSUME OInv, NEW o \in Ops, DeleteOperationObject(o)
  PROVE  OInv'
  <1> DEFINE s == Dereferenced(op[o])
  <1>1. /\ cr[o] = "deref" /\ op' = [op EXCEPT ![o] = s] /\ cr' = [cr EXCEPT ![o] = "finish"]
        /\ UNCHANGED <<req, at, hook, post, event, pend, irql, seen, queue, sh, ends, cont, torn>>
    BY DEF DeleteOperationObject, Go
  <1>2. /\ s \in OpRecords /\ (op[o].refs = 1 => s = NoOp)
        /\ op[o].refs # 1 => s.refs = op[o].refs - 1 /\ s.flags = op[o].flags /\ s.mdl = op[o].mdl
    BY FlagsAre, DereferencedIs
  <1> HIDE DEF s
  <1>3. Level(o[2], req[o[1]], at[o[1]], s, hook[o], "finish", post[o], cont[o], Place(o))
    BY <1>1, <1>2, LevelIs, DerefFits DEF ThisLevel
  <1> QED
    BY <1>1, <1>3, RoutineChanges

LEMMA ShadowCompleteDeviceRequestStep ==
  ASSUME OInv, NEW o \in Ops, ShadowCompleteDeviceRequest(o)
  PROVE  OInv'
  <1>1. /\ cr[o] = "finish" /\ post[o] # "no" /\ cr' = [cr EXCEPT ![o] = "end"]
        /\ UNCHANGED <<req, at, op, hook, post, event, pend, irql, seen, queue, sh, ends, cont, torn>>
    BY DEF ShadowCompleteDeviceRequest, Go
  <1>2. Level(o[2], req[o[1]], at[o[1]], op[o], hook[o], "end", post[o], cont[o], Place(o))
    BY <1>1, LevelIs, EndFits DEF ThisLevel
  <1> QED
    BY <1>1, <1>2, RoutineAdvances


LEMMA SentIs ==
  ASSUME NEW p \in OpRecords, NEW set \in SUBSET Flags
  PROVE  Sent(p, SentTo(WithFlags(p, set)), set)
  <1>1. Marked(p, WithFlags(p, set), set)
    BY WithFlagsIs DEF Marked
  <1> QED
    BY <1>1, SentToIs DEF Marked, Sent

\* The routine sends the object to the shadow thread.
LEMMA RoutineSends ==
  ASSUME OInv, NEW o \in Ops, cr[o] # "idle", Place(o) = "none",
         UNCHANGED <<req, at, hook, post, event, pend, irql, sh, ends, cont, torn>>,
         seen' = seen \/ ScanKept,
         NEW p, NEW c, op' = [op EXCEPT ![o] = p], cr' = [cr EXCEPT ![o] = c], queue' = Append(queue, o),
         Level(o[2], req[o[1]], at[o[1]], p, hook[o], c, post[o], cont[o], "queued")
  PROVE  OInv'
  <1>1. /\ Place(o)' = "queued" /\ \A x : x # o => Place(x)' = Place(x)
        /\ QueueFits' /\ ShadowTypes'
    BY PlaceAppends DEF OInv, Types
  <1>2. /\ hook' = [hook EXCEPT ![o] = hook[o]] /\ post' = [post EXCEPT ![o] = post[o]]
        /\ cont' = [cont EXCEPT ![o] = cont[o]]
    BY Same
  <1>3. Becomes(o, p, hook[o], c, post[o], cont[o], "queued")
    BY <1>1, <1>2 DEF Becomes
  <1>4. RestTypes' /\ ScanKept
    BY RestIs, SeenIs DEF RestTypes
  <1> QED
    BY <1>1, <1>3, <1>4, OneLevelMoves

LEMMA ReadIsShadowedStep ==
  ASSUME OInv, NEW o \in Ops, ReadIsShadowed(o)
  PROVE  OInv'
  <1> DEFINE f == Copying(req[o[1]])
             m == WithFlags(op[o], f)
  <1>1. /\ cr[o] = "body" /\ cr' = [cr EXCEPT ![o] = "unlock"]
        /\ UNCHANGED <<req, at, hook, post, event, pend, irql, seen, sh, ends, cont, torn>>
    BY DEF ReadIsShadowed, Go
  <1>2. Level(o[2], req[o[1]], at[o[1]], op[o], hook[o], "body", post[o], cont[o], Place(o))
    BY <1>1, LevelIs DEF ThisLevel
  <1>3. Marked(op[o], m, f) /\ Sent(op[o], SentTo(m), f)
    BY FlagsAre, CopyingIs, SentIs
  <1>4. ASSUME req[o[1]].major # "read"
        PROVE  OInv'
    <2>1. UNCHANGED <<op, queue>>
      BY <1>4 DEF ReadIsShadowed
    <2>2. Level(o[2], req[o[1]], at[o[1]], op[o], hook[o], "unlock", post[o], cont[o], Place(o))
      BY <1>2, <1>4, NoReadFits
    <2> QED
      BY <1>1, <2>1, <2>2, RoutineAdvances
  <1>5. ASSUME req[o[1]].major = "read"
        PROVE  OInv'
    <2>1. \/ op' = [op EXCEPT ![o] = SentTo(m)] /\ queue' = Append(queue, o)
          \/ op' = [op EXCEPT ![o] = m] /\ UNCHANGED queue
      BY <1>5, CopyingIs DEF ReadIsShadowed, ShadowRequest, SentTo
    <2> HIDE DEF f, m
    <2>2. /\ Place(o) = "none"
          /\ Level(o[2], req[o[1]], at[o[1]], SentTo(m), hook[o], "unlock", post[o], cont[o], "queued")
      BY <1>2, <1>3, <1>5, ReadFits DEF f
    <2>3. Level(o[2], req[o[1]], at[o[1]], m, hook[o], "unlock", post[o], cont[o], Place(o))
      BY <1>2, <1>3, <1>5, ReadFits DEF f
    <2>4. ASSUME op' = [op EXCEPT ![o] = SentTo(m)], queue' = Append(queue, o)
          PROVE  OInv'
      <3> DEFINE s == SentTo(m)
      <3>1. op' = [op EXCEPT ![o] = s]
        BY <2>4
      <3>2. Level(o[2], req[o[1]], at[o[1]], s, hook[o], "unlock", post[o], cont[o], "queued")
        BY <2>2
      <3> HIDE DEF s
      <3> QED
        BY <1>1, <2>2, <2>4, <3>1, <3>2, RoutineSends
    <2>5. ASSUME op' = [op EXCEPT ![o] = m], UNCHANGED queue
          PROVE  OInv'
      BY <1>1, <2>3, <2>5, RoutineChanges
    <2> QED
      BY <2>1, <2>4, <2>5
  <1> QED
    BY <1>4, <1>5

LEMMA RequestIs ==
  ASSUME OInv, NEW r \in Irps, req[r].path # "device", req[r].major # "none"
  PROVE  req[r].path = "fsd" /\ req[r] \in Requests[r]
  <1>1. req[r] \in Requests[r]
    BY DEF OInv, Types, RequestTypes, NoReq
  <1> QED
    BY <1>1, OperationsAssumption

LEMMA FsmfPostOperationStep ==
  ASSUME OInv, NEW o \in Ops, FsmfPostOperation(o)
  PROVE  OInv'
  <1>1. /\ cr[o] = "start" /\ req[o[1]].path # "device"
        /\ UNCHANGED <<req, at, op, hook, post, event, pend, irql, queue, sh, ends, cont, torn>>
    BY DEF FsmfPostOperation, IsDevice
  <1>2. Level(o[2], req[o[1]], at[o[1]], op[o], hook[o], "start", post[o], cont[o], Place(o))
    BY <1>1, LevelIs DEF ThisLevel
  <1>3. ASSUME req[o[1]].major = "create"
        PROVE  OInv'
    <2>1. UNCHANGED seen /\ cr' = [cr EXCEPT ![o] = "finish"]
      BY <1>3 DEF FsmfPostOperation, Go
    <2>2. req[o[1]].path = "fsd"
      BY <1>1, <1>3, RequestIs, Pairs
    <2>3. Level(o[2], req[o[1]], at[o[1]], op[o], hook[o], "finish", post[o], cont[o], Place(o))
      BY <1>2, <1>3, <2>2, CreateFits
    <2> QED
      BY <1>1, <2>1, <2>3, RoutineAdvances
  <1>4. ASSUME req[o[1]].major # "create"
        PROVE  OInv'
    <2> DEFINE v == <<o[2], op[o].flags>>
    <2>1. seen' = [seen EXCEPT ![o[1]] = v] /\ cr' = [cr EXCEPT ![o] = "mark"]
      BY <1>4 DEF FsmfPostOperation, Go
    <2>2. Level(o[2], req[o[1]], at[o[1]], op[o], hook[o], "mark", post[o], cont[o], Place(o))
      BY <1>1, <1>2, <1>4, ReadFlagsFits
    <2>3. at[o[1]].pc # "mark"
      BY <2>2, MarkingIs
    <2>4. v \in {<<>>} \cup (Levels \X SUBSET Flags)
      BY Pairs, FlagsAre DEF OpRecords
    <2> HIDE DEF v
    <2>5. ScanKept
      BY <2>1, <2>3, <2>4, SeenIs, Pairs
    <2>6. op' = [op EXCEPT ![o] = op[o]]
      BY <1>1, Same
    <2> QED
      BY <1>1, <2>1, <2>2, <2>5, <2>6, RoutineChanges
  <1> QED
    BY <1>3, <1>4

\* The flags read by a post operation: the word of the object has them still when
\* it is written back, with others that are lost.
Reread(o) ==
  LET f == seen[o[1]][2]
  IN  /\ f \in SUBSET Flags /\ f \subseteq op[o].flags
      /\ req[o[1]].major = "write" /\ req[o[1]].len = 1 => "Data" \in f
RereadsFit == \A o \in Ops : cr[o] = "mark" => Reread(o)

LEMMA FsmfPostOperationMarksStep ==
  ASSUME OInv, RereadsFit, NEW o \in Ops, FsmfPostOperationMarks(o)
  PROVE  OInv'
  <1> DEFINE f == seen[o[1]][2]
             m == [op[o] EXCEPT !.flags = f \union {"OnStack"}]
  <1>1. /\ cr[o] = "mark" /\ cr' = [cr EXCEPT ![o] = "test"]
        /\ seen' = [seen EXCEPT ![o[1]] = <<>>]
        /\ UNCHANGED <<req, at, hook, post, event, pend, irql, sh, ends, cont, torn>>
    BY DEF FsmfPostOperationMarks, Go
  <1>2. Level(o[2], req[o[1]], at[o[1]], op[o], hook[o], "mark", post[o], cont[o], Place(o))
    BY <1>1, LevelIs DEF ThisLevel
  <1>3. /\ f \in SUBSET Flags /\ f \subseteq op[o].flags
        /\ req[o[1]].major = "write" /\ req[o[1]].len = 1 => "Data" \in f
    BY <1>1 DEF RereadsFit, Reread
  <1>4. ScanKept
    <2>1. at[o[1]].pc # "mark"
      BY <1>2, MarkingIs
    <2> QED
      BY <1>1, <2>1, SeenIs, Pairs
  <1>5. \/ op' = [op EXCEPT ![o] = SentTo(m)] /\ queue' = Append(queue, o) /\ req[o[1]].major = "read"
        \/ op' = [op EXCEPT ![o] = m] /\ UNCHANGED queue
    BY DEF FsmfPostOperationMarks, ShadowRequest, SentTo
  <1> HIDE DEF f
  <1>6. m \in OpRecords /\ m.flags = f \cup {"OnStack"} /\ m.refs = op[o].refs /\ m.mdl = op[o].mdl
    BY <1>3, FlagsAre DEF OpRecords, Flags
  <1> HIDE DEF m
  <1>7. ASSUME op' = [op EXCEPT ![o] = SentTo(m)], queue' = Append(queue, o), req[o[1]].major = "read"
        PROVE  OInv'
    <2> DEFINE s == SentTo(m)
    <2>1. op' = [op EXCEPT ![o] = s]
      BY <1>7
    <2>2. s \in OpRecords /\ s.flags = f \cup {"OnStack", "Sent"} /\ s.refs = op[o].refs + 1
          /\ s.mdl = op[o].mdl
      BY <1>6, SentToIs
    <2> HIDE DEF s
    <2>3. req[o[1]].major = "read" /\ f \subseteq op[o].flags
      BY <1>3, <1>7
    <2>4. /\ Place(o) = "none"
          /\ Level(o[2], req[o[1]], at[o[1]], s, hook[o], "test", post[o], cont[o], "queued")
      BY <1>2, <2>2, <2>3, PostReadFits
    <2> QED
      BY <1>1, <1>4, <1>7, <2>1, <2>4, RoutineSends
  <1>8. ASSUME op' = [op EXCEPT ![o] = m], UNCHANGED queue
        PROVE  OInv'
    <2>1. Level(o[2], req[o[1]], at[o[1]], m, hook[o], "test", post[o], cont[o], Place(o))
      BY <1>2, <1>3, <1>6, PostOperationFits
    <2> QED
      BY <1>1, <1>4, <1>8, <2>1, RoutineChanges
  <1> QED
    BY <1>5, <1>7, <1>8

-----------------------------------------------------------------------------
(* The shadow thread                                                          *)

\* A step of the shadow thread that leaves the routine alone.
LEMMA ShadowMoves ==
  ASSUME OInv, NEW o \in Ops, UNCHANGED <<req, at, cr, post, pend, irql, seen, ends, cont, torn>>,
         event' \in [Ops -> {"none", "waiting", "set"}], ShadowTypes', QueueFits',
         NEW p, NEW h, NEW t, op' = [op EXCEPT ![o] = p], hook' = [hook EXCEPT ![o] = h],
         Place(o)' = t, \A x : x # o => Place(x)' = Place(x),
         Level(o[2], req[o[1]], at[o[1]], p, h, cr[o], post[o], cont[o], t),
         (op[o].flags \subseteq p.flags /\ h = hook[o]) \/ cr[o] # "idle"
  PROVE  OInv'
  <1>1. /\ cr' = [cr EXCEPT ![o] = cr[o]] /\ post' = [post EXCEPT ![o] = post[o]]
        /\ cont' = [cont EXCEPT ![o] = cont[o]]
    BY Same
  <1>2. Becomes(o, p, h, cr[o], post[o], cont[o], t)
    BY <1>1 DEF Becomes
  <1>3. RestTypes' /\ ScanKept
    BY RestIs, SeenIs DEF RestTypes
  <1> QED
    BY <1>2, <1>3, OneLevelMoves

\* ... and one that changes at most the object.
LEMMA ShadowChanges ==
  ASSUME OInv, NEW o \in Ops, UNCHANGED <<req, at, hook, cr, post, pend, irql, seen, ends, cont, torn>>,
         event' \in [Ops -> {"none", "waiting", "set"}], ShadowTypes', QueueFits',
         NEW p, NEW t, op' = [op EXCEPT ![o] = p],
         Place(o)' = t, \A x : x # o => Place(x)' = Place(x),
         Level(o[2], req[o[1]], at[o[1]], p, hook[o], cr[o], post[o], cont[o], t),
         op[o].flags \subseteq p.flags \/ cr[o] # "idle"
  PROVE  OInv'
  <1>1. hook' = [hook EXCEPT ![o] = hook[o]]
    BY Same
  <1> DEFINE h == hook[o]
  <1>2. hook' = [hook EXCEPT ![o] = h] /\ h = hook[o]
    BY <1>1
  <1>3. Level(o[2], req[o[1]], at[o[1]], p, h, cr[o], post[o], cont[o], t)
    OBVIOUS
  <1> HIDE DEF h
  <1> QED
    BY <1>2, <1>3, ShadowMoves

LEMMA ShadowIs ==
  ASSUME OInv, sh.pc # "idle", NEW o, o = sh.op
  PROVE  /\ o \in Ops /\ Place(o) = sh.pc
         /\ Level(o[2], req[o[1]], at[o[1]], op[o], hook[o], cr[o], post[o], cont[o], sh.pc)
  <1>1. sh \in [pc : Shadows, op : Ops]
    BY DEF OInv, Types, ShadowTypes, Idle
  <1>2. o \in Ops /\ Place(o) = sh.pc
    BY <1>1 DEF Place
  <1> QED
    BY <1>2, LevelIs DEF ThisLevel

LEMMA ShadowWriterWRStep ==
  ASSUME OInv, ShadowWriterWR
  PROVE  OInv'
  <1> DEFINE o == Head(queue)
             t == IF Is(o, "Data") THEN "deref" ELSE "taken"
  <1>1. /\ sh = Idle /\ queue # <<>> /\ sh' = [pc |-> t, op |-> o] /\ queue' = Tail(queue)
        /\ UNCHANGED <<req, at, op, hook, cr, post, event, pend, irql, seen, ends, cont, torn>>
    BY DEF ShadowWriterWR
  <1>2. t \in Shadows
    BY DEF Shadows
  <1>3. t = IF "Data" \in op[o].flags THEN "deref" ELSE "taken"
    BY DEF Is
  <1> HIDE DEF t
  <1>4. PICK x : x = o
    OBVIOUS
  <1>5. /\ x \in Ops /\ Place(x) = "queued" /\ Place(x)' = t /\ \A y : y # x => Place(y)' = Place(y)
        /\ QueueFits' /\ ShadowTypes'
    BY <1>1, <1>2, <1>4, PlaceTaken DEF OInv, Types
  <1>6. Level(x[2], req[x[1]], at[x[1]], op[x], hook[x], cr[x], post[x], cont[x], t)
    BY <1>3, <1>4, <1>5, LevelIs, TakenFits DEF ThisLevel
  <1>7. op' = [op EXCEPT ![x] = op[x]] /\ op[x].flags \subseteq op[x].flags
    BY <1>1, <1>5, Same
  <1>8. event' \in [Ops -> {"none", "waiting", "set"}]
    BY <1>1, EventsStay
  <1> QED
    BY <1>1, <1>5, <1>6, <1>7, <1>8, ShadowChanges

LEMMA ShadowingInProgressStep ==
  ASSUME OInv, ShadowingInProgress
  PROVE  OInv'
  <1>1. PICK o : o = sh.op
    OBVIOUS
  <1> DEFINE s == WithFlags(op[o], {"Shadowing"})
             t == IF "Data" \in op[o].flags THEN "deref"
                  ELSE IF "Wait" \in op[o].flags THEN "await"
                  ELSE IF "InThread" \in op[o].flags THEN "continue" ELSE "copying"
  <1>2. /\ sh.pc = "taken" /\ op' = [op EXCEPT ![o] = s]
        /\ UNCHANGED <<req, at, hook, cr, post, pend, irql, seen, queue, ends, cont, torn>>
    BY <1>1 DEF ShadowingInProgress
  <1>3. /\ o \in Ops
        /\ Level(o[2], req[o[1]], at[o[1]], op[o], hook[o], cr[o], post[o], cont[o], "taken")
    BY <1>1, <1>2, ShadowIs
  <1>4. Shadow(t) /\ (UNCHANGED event \/ event' = [event EXCEPT ![o] = "waiting"])
    BY <1>1 DEF ShadowingInProgress, Is
  <1>5. t \in Shadows /\ event' \in [Ops -> {"none", "waiting", "set"}]
    BY <1>4, EventsStay DEF Shadows
  <1>6. /\ Place(o)' = t /\ \A x : x # o => Place(x)' = Place(x)
        /\ QueueFits' /\ ShadowTypes'
    BY <1>1, <1>2, <1>4, <1>5, ShadowAdvances DEF OInv, Types
  <1>7. Marked(op[o], s, {"Shadowing"}) /\ op[o].flags \subseteq s.flags
    BY <1>3, FlagsAre DEF Marked, Flags
  <1> HIDE DEF s
  <1>8. Level(o[2], req[o[1]], at[o[1]], s, hook[o], cr[o], post[o], cont[o], t)
    BY <1>3, <1>7, ShadowingFits
  <1> HIDE DEF t
  <1> QED
    BY <1>2, <1>3, <1>5, <1>6, <1>7, <1>8, ShadowChanges

LEMMA ShadowThreadCopiesStep ==
  ASSUME OInv, ShadowThreadCopies
  PROVE  OInv'
  <1>1. PICK o : o = sh.op
    OBVIOUS
  <1> DEFINE f == Copying(req[o[1]])
             s == WithFlags(op[o], f)
  <1>2. /\ sh.pc = "copying" /\ op' = [op EXCEPT ![o] = s] /\ Shadow("deref")
        /\ UNCHANGED <<req, at, hook, cr, post, event, pend, irql, seen, queue, ends, cont, torn>>
    BY <1>1, CopyingIs DEF ShadowThreadCopies
  <1>3. /\ o \in Ops
        /\ Level(o[2], req[o[1]], at[o[1]], op[o], hook[o], cr[o], post[o], cont[o], "copying")
    BY <1>1, <1>2, ShadowIs
  <1>4. /\ Place(o)' = "deref" /\ \A x : x # o => Place(x)' = Place(x)
        /\ QueueFits' /\ ShadowTypes'
    BY <1>1, <1>2, ShadowAdvances DEF OInv, Types, Shadows
  <1>5. Marked(op[o], s, f) /\ op[o].flags \subseteq s.flags
    BY <1>3, FlagsAre, CopyingIs DEF Marked
  <1> HIDE DEF s
  <1>6. Level(o[2], req[o[1]], at[o[1]], s, hook[o], cr[o], post[o], cont[o], "deref")
    BY <1>3, <1>5, ShadowCopiesFits
  <1>7. event' \in [Ops -> {"none", "waiting", "set"}]
    BY <1>2, EventsStay
  <1> QED
    BY <1>2, <1>3, <1>4, <1>5, <1>6, <1>7, ShadowChanges

LEMMA ShadowThreadAwaitsCopyStep ==
  ASSUME OInv, ShadowThreadAwaitsCopy
  PROVE  OInv'
  <1>1. PICK o : o = sh.op
    OBVIOUS
  <1>2. /\ sh.pc = "await" /\ Shadow("deref")
        /\ UNCHANGED <<req, at, op, hook, cr, post, event, pend, irql, seen, queue, ends, cont, torn>>
    BY <1>1 DEF ShadowThreadAwaitsCopy
  <1>3. /\ o \in Ops
        /\ Level(o[2], req[o[1]], at[o[1]], op[o], hook[o], cr[o], post[o], cont[o], "await")
    BY <1>1, <1>2, ShadowIs
  <1>4. /\ Place(o)' = "deref" /\ \A x : x # o => Place(x)' = Place(x)
        /\ QueueFits' /\ ShadowTypes'
    BY <1>1, <1>2, ShadowAdvances DEF OInv, Types, Shadows
  <1>5. Level(o[2], req[o[1]], at[o[1]], op[o], hook[o], cr[o], post[o], cont[o], "deref")
    BY <1>3, AwaitFits
  <1>6. op' = [op EXCEPT ![o] = op[o]] /\ op[o].flags \subseteq op[o].flags
    BY <1>2, <1>3, Same
  <1>7. event' \in [Ops -> {"none", "waiting", "set"}]
    BY <1>2, EventsStay
  <1> QED
    BY <1>2, <1>3, <1>4, <1>5, <1>6, <1>7, ShadowChanges

LEMMA FreeCompletionContextStep ==
  ASSUME OInv, FreeCompletionContext
  PROVE  OInv'
  <1>1. PICK o : o = sh.op
    OBVIOUS
  <1>2. /\ sh.pc = "completing" /\ Shadow("deref") /\ hook' = [hook EXCEPT ![o] = "freed"]
        /\ UNCHANGED <<req, at, op, cr, post, event, pend, irql, seen, queue, ends, cont, torn>>
    BY <1>1 DEF FreeCompletionContext
  <1>3. /\ o \in Ops
        /\ Level(o[2], req[o[1]], at[o[1]], op[o], hook[o], cr[o], post[o], cont[o], "completing")
    BY <1>1, <1>2, ShadowIs
  <1>4. /\ Place(o)' = "deref" /\ \A x : x # o => Place(x)' = Place(x)
        /\ QueueFits' /\ ShadowTypes'
    BY <1>1, <1>2, ShadowAdvances DEF OInv, Types, Shadows
  <1>5. /\ cr[o] # "idle"
        /\ Level(o[2], req[o[1]], at[o[1]], op[o], "freed", cr[o], post[o], cont[o], "deref")
    BY <1>3, FreedFits
  <1>6. op' = [op EXCEPT ![o] = op[o]]
    BY <1>2, <1>3, Same
  <1>7. event' \in [Ops -> {"none", "waiting", "set"}]
    BY <1>2, EventsStay
  <1> QED
    BY <1>2, <1>3, <1>4, <1>5, <1>6, <1>7, ShadowMoves

LEMMA ShadowThreadDereferencesStep ==
  ASSUME OInv, ShadowThreadDereferences
  PROVE  OInv'
  <1>1. PICK o : o = sh.op
    OBVIOUS
  <1> DEFINE s == Dereferenced(op[o])
  <1>2. /\ sh.pc = "deref" /\ sh' = Idle /\ op' = [op EXCEPT ![o] = s]
        /\ UNCHANGED <<req, at, hook, cr, post, event, pend, irql, seen, queue, ends, cont, torn>>
    BY <1>1 DEF ShadowThreadDereferences
  <1>3. /\ o \in Ops
        /\ Level(o[2], req[o[1]], at[o[1]], op[o], hook[o], cr[o], post[o], cont[o], "deref")
    BY <1>1, <1>2, ShadowIs
  <1>4. /\ Place(o)' = "none" /\ \A x : x # o => Place(x)' = Place(x)
        /\ QueueFits' /\ ShadowTypes'
    BY <1>1, <1>2, ShadowEnds DEF OInv, Types
  <1>5. /\ s \in OpRecords /\ (op[o].refs = 1 => s = NoOp)
        /\ op[o].refs # 1 => s.refs = op[o].refs - 1 /\ s.flags = op[o].flags /\ s.mdl = op[o].mdl
    BY <1>3, FlagsAre, DereferencedIs
  <1> HIDE DEF s
  <1>6. /\ cr[o] # "idle" \/ (s.flags = op[o].flags)
        /\ Level(o[2], req[o[1]], at[o[1]], s, hook[o], cr[o], post[o], cont[o], "none")
    BY <1>3, <1>5, ShadowDerefFits
  <1>7. op[o].flags \subseteq s.flags \/ cr[o] # "idle"
    BY <1>6
  <1>8. event' \in [Ops -> {"none", "waiting", "set"}]
    BY <1>2, EventsStay
  <1> QED
    BY <1>2, <1>3, <1>4, <1>6, <1>7, <1>8, ShadowChanges


-----------------------------------------------------------------------------
(* The completion goes up                                                     *)

\* Where the completion of r gets from level k: the next hooked level or the end.
Reaches(r, k, b, hooks) ==
  /\ b \in Places
  /\ \/ b.pc = "done" /\ \A j \in Levels : j > k => hooks[<<r, j>>] # "set"
     \/ /\ b.pc = "up" /\ b.k \in Levels /\ b.k > k /\ hooks[<<r, b.k>>] = "set"
        /\ \A j \in Levels : j > k /\ j < b.k => hooks[<<r, j>>] # "set"

LEMMA EndIsNext ==
  ASSUME NEW r \in Irps, NEW k \in 0..Depth, NEW hooks, \A j \in Levels : ~(j > k /\ hooks[<<r, j>>] = "set")
  PROVE  Reaches(r, k, [pc |-> "done", k |-> Depth], hooks)
  BY LevelsAre DEF Reaches, Places, Stages

LEMMA LowestIsNext ==
  ASSUME NEW r \in Irps, NEW k \in 0..Depth, NEW hooks, NEW next \in Levels,
         next > k, hooks[<<r, next>>] = "set",
         \A j \in Levels : j > k /\ hooks[<<r, j>>] = "set" => next <= j
  PROVE  Reaches(r, k, [pc |-> "up", k |-> next], hooks)
  <1> DEFINE b == [pc |-> "up", k |-> next]
  <1>1. b \in Places /\ b.pc = "up" /\ b.k = next
    BY LevelsAre DEF Places, Stages
  <1>2. ASSUME NEW j \in Levels, j > k, j < next
        PROVE  hooks[<<r, j>>] # "set"
    <2>1. j \in Nat /\ next \in Nat
      BY LevelsAre
    <2>2. ~(next <= j)
      BY <1>2, <2>1
    <2> QED
      BY <1>2, <2>2
  <1> HIDE DEF b
  <1>3. Reaches(r, k, b, hooks)
    BY <1>1, <1>2 DEF Reaches
  <1> QED
    BY <1>3 DEF b

Started(r, b, x) == b.pc = "up" /\ x = <<r, b.k>>

LEMMA GoUpRises ==
  ASSUME OInv, NEW r \in Irps, NEW k \in 0..Depth, NEW hooks, GoUp(r, k, hooks)
  PROVE  \E b \in Places : /\ Reaches(r, k, b, hooks) /\ at' = [at EXCEPT ![r] = b]
                           /\ cr' \in [Ops -> Routines]
                           /\ \A x \in Ops : cr'[x] = IF Started(r, b, x) THEN "start" ELSE cr[x]
  <1> DEFINE above == {j \in Levels : j > k /\ hooks[<<r, j>>] = "set"}
             next  == CHOOSE j \in above : \A i \in above : j <= i
  <1>1. cr \in [Ops -> Routines] /\ "start" \in Routines
    BY DEF OInv, Types, LevelTypes, Routines, Active, Owning
  <1>2. /\ above = {} => Reaches(r, k, [pc |-> "done", k |-> Depth], hooks)
        /\ above # {} => next \in Levels /\ Reaches(r, k, [pc |-> "up", k |-> next], hooks)
    <2>1. ASSUME above = {}
          PROVE  Reaches(r, k, [pc |-> "done", k |-> Depth], hooks)
      <3>1. \A j \in Levels : ~(j > k /\ hooks[<<r, j>>] = "set")
        BY <2>1
      <3> QED
        BY <3>1, EndIsNext
    <2>2. ASSUME above # {}
          PROVE  next \in Levels /\ Reaches(r, k, [pc |-> "up", k |-> next], hooks)
      <3>1. above \subseteq Levels
        OBVIOUS
      <3>2. next \in above /\ \A i \in above : next <= i
        BY <2>2, <3>1, Lowest
      <3>3. next \in Levels /\ next > k /\ hooks[<<r, next>>] = "set"
        BY <3>2
      <3>4. \A j \in Levels : j > k /\ hooks[<<r, j>>] = "set" => next <= j
        BY <3>2
      <3> HIDE DEF next, above
      <3> QED
        BY <3>3, <3>4, LowestIsNext
    <2> QED
      BY <2>1, <2>2
  <1>3. /\ above = {} => at' = [at EXCEPT ![r] = [pc |-> "done", k |-> Depth]] /\ UNCHANGED cr
        /\ above # {} => /\ at' = [at EXCEPT ![r] = [pc |-> "up", k |-> next]]
                         /\ cr' = [cr EXCEPT ![<<r, next>>] = "start"]
    BY DEF GoUp
  <1> HIDE DEF above, next
  <1> DEFINE Goal(b) == /\ Reaches(r, k, b, hooks) /\ at' = [at EXCEPT ![r] = b]
                        /\ cr' \in [Ops -> Routines]
                        /\ \A x \in Ops : cr'[x] = IF Started(r, b, x) THEN "start" ELSE cr[x]
  <1> SUFFICES \E b \in Places : Goal(b)
    OBVIOUS
  <1>4. ASSUME above = {}
        PROVE  \E b \in Places : Goal(b)
    <2> DEFINE b == [pc |-> "done", k |-> Depth]
    <2>1. b.pc # "up" /\ Reaches(r, k, b, hooks) /\ at' = [at EXCEPT ![r] = b] /\ UNCHANGED cr
      BY <1>2, <1>3, <1>4
    <2> HIDE DEF b
    <2>2. b \in Places /\ \A x \in Ops : cr'[x] = IF Started(r, b, x) THEN "start" ELSE cr[x]
      BY <2>1 DEF Reaches, Started
    <2> QED
      BY <1>1, <2>1, <2>2
  <1>5. ASSUME above # {}
        PROVE  \E b \in Places : Goal(b)
    <2> DEFINE b == [pc |-> "up", k |-> next]
    <2>1. /\ b.pc = "up" /\ b.k = next /\ Reaches(r, k, b, hooks) /\ at' = [at EXCEPT ![r] = b]
          /\ cr' = [cr EXCEPT ![<<r, next>>] = "start"] /\ next \in Levels
      BY <1>2, <1>3, <1>5
    <2> HIDE DEF b
    <2>2. b \in Places
      BY <2>1 DEF Reaches
    <2>3. cr' \in [Ops -> Routines]
      BY <1>1, <2>1
    <2>4. \A x \in Ops : cr'[x] = IF Started(r, b, x) THEN "start" ELSE cr[x]
      BY <1>1, <2>1, Pairs DEF Started
    <2> QED
      BY <2>1, <2>2, <2>3, <2>4
  <1> QED
    BY <1>4, <1>5

\* A level of a request whose completion gets from a at level k0 to b.
LEMMA LevelRises ==
  ASSUME NEW r, NEW k0 \in 0..Depth, NEW b, NEW hooks, Reaches(r, k0, b, hooks),
         NEW a \in Places, NEW k \in Levels, NEW q, NEW p, NEW h, NEW c, NEW w, NEW n, NEW t,
         h = hooks[<<r, k>>], Level(k, q, a, p, h, c, w, n, t),
         \/ a.pc = "down" /\ a.k = k0
         \/ a.pc = "lower" /\ k0 = 0
         \/ a.pc = "up" /\ a.k = k0 /\ k # k0,
         NEW d, d = IF b.pc = "up" /\ k = b.k THEN "start" ELSE c
  PROVE  Level(k, q, b, p, h, d, w, n, t)
  <1>1. /\ k \in Nat /\ k >= 1 /\ k0 \in Nat /\ b \in Places /\ a.k \in Nat /\ b.k \in Nat
        /\ a.pc \in Going \/ a.pc = "up"
    BY LevelsAre DEF Reaches, Places, Going, Down
  <1>2. LevelFits(k, q, a, p, h, c, w, n, t)
    BY DEF Level
  <1>3. ASSUME k < k0 \/ (k = k0 /\ a.pc = "down")
        PROVE  Passed(k, b) /\ (h # "set" \/ c # "idle") /\ ~Completes(k, a)
    BY <1>1, <1>2, <1>3 DEF Reaches, LevelFits, RoutineFits, Passed, Completes, Down
  <1>4. ASSUME k > k0, b.pc = "done" \/ (b.pc = "up" /\ k < b.k)
        PROVE  Passed(k, b) /\ h # "set" /\ ~Completes(k, a)
    BY <1>1, <1>4 DEF Reaches, Passed, Completes
  <1>5. ASSUME k > k0, b.pc = "up", k = b.k
        PROVE  h = "set" /\ Completes(k, b) /\ (a.pc \in Going \/ (a.pc = "up" /\ a.k < k))
    BY <1>1, <1>5 DEF Reaches, Completes
  <1>6. ASSUME k > k0, b.pc = "up", b.k < k
        PROVE  a.pc \in Going \/ (a.pc = "up" /\ a.k < k)
    BY <1>1, <1>6
  <1>7. ASSUME ~(b.pc = "up" /\ k = b.k), Passed(k, b), h # "set" \/ c # "idle", ~Completes(k, a)
        PROVE  Level(k, q, b, p, h, d, w, n, t)
    BY <1>1, <1>7, PassedFits
  <1>8. ASSUME b.pc = "up", k = b.k, k > k0
        PROVE  Level(k, q, b, p, h, d, w, n, t)
    <2>1. Level(k, q, a, p, "set", c, w, n, t)
      BY <1>5, <1>8
    <2> QED
      BY <1>1, <1>5, <1>8, <2>1, ReachedFits
  <1>9. ASSUME b.pc = "up", b.k < k, k > k0
        PROVE  Level(k, q, b, p, h, d, w, n, t)
    BY <1>1, <1>6, <1>9, AboveFits
  <1>10. \/ k < k0 \/ (k = k0 /\ a.pc = "down") \/ k > k0
    BY <1>1
  <1>11. b.pc = "done" \/ (b.pc = "up" /\ b.k > k0)
    BY DEF Reaches
  <1> QED
    BY <1>1, <1>3, <1>4, <1>7, <1>8, <1>9, <1>10, <1>11

LEMMA RequestCompletes ==
  ASSUME OInv, NEW r \in Irps, NEW k0 \in 0..Depth, NEW a \in Places,
         (a.pc = "down" /\ a.k = k0) \/ (a.pc = "lower" /\ k0 = 0),
         UNCHANGED <<req, post, event, seen, queue, sh, cont, torn>>,
         pend' \in [Irps -> BOOLEAN], irql' \in [Irps -> {"passive", "dispatch"}],
         op' \in [Ops -> OpRecords], hook' \in [Ops -> Hooks],
         \A x \in Ops : x[1] # r => op'[x] = op[x] /\ hook'[x] = hook[x],
         \A x \in Ops : x[1] = r =>
            Level(x[2], req[r], a, op'[x], hook'[x], cr[x], post[x], cont[x], Place(x)),
         Complete(r, k0, hook')
  PROVE  OInv'
  <1>1. /\ GoUp(r, k0, hook') /\ ends' = [ends EXCEPT ![r] = @ + 1]
    BY DEF Complete
  <1>2. PICK b \in Places : /\ Reaches(r, k0, b, hook') /\ at' = [at EXCEPT ![r] = b]
                            /\ cr' \in [Ops -> Routines]
                            /\ \A x \in Ops : cr'[x] = IF Started(r, b, x) THEN "start" ELSE cr[x]
    BY <1>1, GoUpRises
  <1>3. b.pc \notin {"new", "mark"} /\ (b.pc \in Down \cup {"up"} => b.k \in Levels)
    BY <1>2 DEF Reaches, Down
  <1>4. (\A x : Place(x)' = Place(x)) /\ QueueFits' /\ ShadowTypes'
    BY PlaceStays DEF OInv, Types
  <1>5. LevelTypes' /\ RestTypes'
    BY <1>1, <1>2, RestIs DEF OInv, Types, LevelTypes, RestTypes
  <1>6. ASSUME NEW x \in Ops, x[1] = r
        PROVE  Level(x[2], req[r], b, op'[x], hook'[x], cr'[x], post'[x], cont'[x], Place(x)')
    <2>1. x[2] \in Levels /\ x = <<r, x[2]>> /\ hook'[x] = hook'[<<r, x[2]>>]
      BY <1>6, Pairs
    <2>2. cr'[x] = IF b.pc = "up" /\ x[2] = b.k THEN "start" ELSE cr[x]
      BY <1>2, <2>1 DEF Started
    <2>3. Level(x[2], req[r], a, op'[x], hook'[x], cr[x], post[x], cont[x], Place(x))
      BY <1>6
    <2> DEFINE k == x[2]
               h == hook'[x]
               hooks == hook'
               q == req[r]
               p == op'[x]
               c == cr[x]
               d == cr'[x]
               w == post[x]
               n == cont[x]
               t == Place(x)
    <2>4. /\ k \in Levels /\ h = hooks[<<r, k>>] /\ Reaches(r, k0, b, hooks)
          /\ Level(k, q, a, p, h, c, w, n, t) /\ d = IF b.pc = "up" /\ k = b.k THEN "start" ELSE c
          /\ (a.pc = "down" /\ a.k = k0) \/ (a.pc = "lower" /\ k0 = 0)
      BY <1>2, <2>1, <2>2, <2>3
    <2> HIDE DEF k, h, hooks, q, p, c, d, w, n, t
    <2>5. Level(k, q, b, p, h, d, w, n, t)
      BY <2>4, LevelRises, ZenonT(40)
    <2> QED
      BY <1>4, <2>5 DEF k, h, q, p, d, w, n, t
  <1>7. ASSUME NEW x \in Ops, x[1] # r
        PROVE  /\ op'[x] = op[x] /\ hook'[x] = hook[x] /\ cr'[x] = cr[x]
               /\ post'[x] = post[x] /\ cont'[x] = cont[x] /\ Place(x)' = Place(x)
    <2>1. ~Started(r, b, x)
      BY <1>7, Pairs DEF Started
    <2> QED
      BY <1>2, <1>4, <1>7, <2>1
  <1>8. /\ req' = [req EXCEPT ![r] = req[r]] /\ req[r] \in ReqRecords
        /\ req[r] \in Requests[r] \cup {NoReq}
        /\ seen' \in [Irps -> {<<>>} \cup (Levels \X SUBSET Flags)]
    BY DEF OInv, Types, RequestTypes
  <1>9. MarkFits(r)'
    <2>1. at'[r] = b
      BY <1>2 DEF OInv, Types, RequestTypes
    <2> QED
      BY <1>3, <2>1 DEF MarkFits
  <1> DEFINE q == req[r]
  <1>10. /\ req' = [req EXCEPT ![r] = q] /\ q \in ReqRecords /\ q \in Requests[r] \cup {NoReq}
         /\ \A x \in Ops : x[1] = r =>
               Level(x[2], q, b, op'[x], hook'[x], cr'[x], post'[x], cont'[x], Place(x)')
    BY <1>6, <1>8
  <1> HIDE DEF q
  <1> QED
    BY <1>2, <1>3, <1>4, <1>5, <1>7, <1>8, <1>9, <1>10, RequestMoves


-----------------------------------------------------------------------------
(* The request goes down                                                      *)

LEMMA RequestAt ==
  ASSUME OInv, NEW r \in Irps
  PROVE  /\ at[r] \in Places /\ req[r] \in ReqRecords /\ req[r] \in Requests[r] \cup {NoReq}
         /\ at[r].pc \in Down => at[r].k \in Levels /\ Here(r) \in Ops /\ Here(r)[1] = r /\ Here(r)[2] = at[r].k
         /\ req' = req => req' = [req EXCEPT ![r] = req[r]]
         /\ \A b : at' = [at EXCEPT ![r] = b] => at'[r] = b
  <1>1. /\ at[r] \in Places /\ req[r] \in ReqRecords /\ req[r] \in Requests[r] \cup {NoReq}
        /\ at[r].pc \in Down => at[r].k \in Levels
        /\ req' = req => req' = [req EXCEPT ![r] = req[r]]
        /\ \A b : at' = [at EXCEPT ![r] = b] => at'[r] = b
    BY DEF OInv, Types, RequestTypes, Places
  <1> QED
    BY <1>1, Pairs DEF Here

\* The other levels of a request that goes from its place to b.
LEMMA OtherLevels ==
  ASSUME OInv, NEW r \in Irps, at[r].pc \in Down, NEW b \in Places, b.pc \in Down \cup {"lower"},
         b.k <= at[r].k, b.pc = "created" => b.k = at[r].k,
         NEW x \in Ops, x[1] = r, x # Here(r) \/ (at[r].pc # "created" /\ b.pc # "created")
  PROVE  Level(x[2], req[r], b, op[x], hook[x], cr[x], post[x], cont[x], Place(x))
  <1>1. Level(x[2], req[r], at[r], op[x], hook[x], cr[x], post[x], cont[x], Place(x))
    BY LevelIs DEF ThisLevel
  <1>2. x = <<r, x[2]>>
    BY Pairs
  <1>3. (at[r].pc = "created" => at[r].k # x[2]) /\ (b.pc = "created" => b.k # x[2])
    BY <1>2 DEF Here
  <1> DEFINE k == x[2]
             a == at[r]
  <1>4. /\ Level(k, req[r], a, op[x], hook[x], cr[x], post[x], cont[x], Place(x))
        /\ (a.pc = "created" => a.k # k) /\ (b.pc = "created" => b.k # k)
        /\ a.pc \in Down /\ b.k <= a.k
    BY <1>1, <1>3
  <1> HIDE DEF k, a
  <1>5. Level(k, req[r], b, op[x], hook[x], cr[x], post[x], cont[x], Place(x))
    BY <1>4, DescendsFits
  <1> QED
    BY <1>5 DEF k

\* A request that goes down and leaves the level x where it was with an object.
LEMMA RequestDescends ==
  ASSUME OInv, NEW r \in Irps, at[r].pc \in Down, NEW x, x = Here(r),
         NEW b \in Places, b.pc \in Down \cup {"lower"}, b.pc # "mark", b.pc \in Down => b.k \in Levels,
         b.k <= at[r].k, b.pc = "created" => b.k = at[r].k,
         at' = [at EXCEPT ![r] = b], UNCHANGED <<req, cr, post, event, pend, irql, seen, cont, torn>>,
         ends' \in [Irps -> Nat], ShadowTypes', QueueFits',
         op' \in [Ops -> OpRecords], hook' \in [Ops -> Hooks],
         \A y \in Ops : y # x => op'[y] = op[y] /\ hook'[y] = hook[y] /\ Place(y)' = Place(y),
         Level(x[2], req[r], b, op'[x], hook'[x], cr[x], post[x], cont[x], Place(x)')
  PROVE  OInv'
  <1>1. /\ x \in Ops /\ x[1] = r /\ req' = [req EXCEPT ![r] = req[r]] /\ at'[r] = b
        /\ req[r] \in ReqRecords /\ req[r] \in Requests[r] \cup {NoReq}
    BY RequestAt
  <1>3. LevelTypes /\ RestTypes
    BY RestIs DEF OInv, Types
  <1>4. LevelTypes' /\ RestTypes'
    BY <1>3 DEF LevelTypes, RestTypes
  <1>6. ASSUME NEW y \in Ops, y[1] # r
        PROVE  /\ op'[y] = op[y] /\ hook'[y] = hook[y] /\ cr'[y] = cr[y]
               /\ post'[y] = post[y] /\ cont'[y] = cont[y] /\ Place(y)' = Place(y)
    BY <1>1, <1>6
  <1>7. ASSUME NEW y \in Ops, y[1] = r
        PROVE  Level(y[2], req[r], b, op'[y], hook'[y], cr'[y], post'[y], cont'[y], Place(y)')
    <2>1. ASSUME y = x
          PROVE  Level(y[2], req[r], b, op'[y], hook'[y], cr'[y], post'[y], cont'[y], Place(y)')
      BY <2>1
    <2>2. ASSUME y # x
          PROVE  Level(y[2], req[r], b, op'[y], hook'[y], cr'[y], post'[y], cont'[y], Place(y)')
      <3>1. Level(y[2], req[r], b, op[y], hook[y], cr[y], post[y], cont[y], Place(y))
        BY <1>7, <2>2, OtherLevels
      <3> QED
        BY <2>2, <3>1
    <2> QED
      BY <2>1, <2>2
  <1>8. MarkFits(r)'
    BY <1>1 DEF MarkFits
  <1>9. seen' \in [Irps -> {<<>>} \cup (Levels \X SUBSET Flags)] /\ b.pc \notin {"new", "up"}
    BY DEF OInv, Types, RequestTypes, Down
  <1> DEFINE q == req[r]
  <1>10. /\ req' = [req EXCEPT ![r] = q] /\ q \in ReqRecords /\ q \in Requests[r] \cup {NoReq}
         /\ \A y \in Ops : y[1] = r =>
               Level(y[2], q, b, op'[y], hook'[y], cr'[y], post'[y], cont'[y], Place(y)')
    BY <1>1, <1>7
  <1> HIDE DEF q
  <1> QED
    BY <1>4, <1>6, <1>8, <1>9, <1>10, RequestMoves

\* The next level down.
Below(k) == IF k = 1 THEN [pc |-> "lower", k |-> 0] ELSE [pc |-> "down", k |-> k - 1]
LEMMA PassDownIs ==
  ASSUME OInv, NEW r \in Irps, at[r].pc \in Down, PassDown(r)
  PROVE  \E b \in Places :
           /\ at' = [at EXCEPT ![r] = b] /\ b.pc \in {"down", "lower"} /\ b.k < at[r].k
           /\ b.k = at[r].k - 1 /\ (b.pc = "down" => b.k \in Levels) /\ (b.pc = "lower" => b.k = 0)
           /\ b = Below(at[r].k)
  <1> DEFINE k == at[r].k
             b == Below(k)
  <1>1. k \in Levels
    BY RequestAt
  <1>2. at' = [at EXCEPT ![r] = b]
    BY DEF PassDown, Below, OInv, Types, RequestTypes
  <1>3. k \in Nat /\ k >= 1 /\ k <= Depth /\ Depth \in Nat
    BY <1>1, LevelsAre
  <1> HIDE DEF k
  <1>4. /\ b \in Places /\ b.pc \in {"down", "lower"} /\ b.k < k /\ b.k = k - 1
        /\ (b.pc = "down" => b.k \in Levels) /\ (b.pc = "lower" => b.k = 0)
    BY <1>1, <1>3 DEF Below, Places, Stages, Levels
  <1> QED
    BY <1>2, <1>4 DEF k

LEMMA StayIs ==
  ASSUME OInv, NEW r \in Irps, at[r].pc \in Down, NEW pc \in Down, Stay(r, pc)
  PROVE  \E b \in Places : at' = [at EXCEPT ![r] = b] /\ b.pc = pc /\ b.k = at[r].k /\ b.k \in Levels
  <1> DEFINE b == [at[r] EXCEPT !.pc = pc]
  <1>1. at[r] \in Places /\ at[r].k \in Levels
    BY RequestAt
  <1>2. at' = [at EXCEPT ![r] = b]
    BY DEF Stay
  <1>3. b \in Places /\ b.pc = pc /\ b.k = at[r].k
    BY <1>1 DEF Places, Stages, Down
  <1> HIDE DEF b
  <1> QED
    BY <1>1, <1>2, <1>3

\* A request that is not looked at goes down.
LEMMA PassesBy ==
  ASSUME OInv, NEW r \in Irps, At(r, "down"), PassDown(r), ends' \in [Irps -> Nat],
         UNCHANGED <<req, op, hook, cr, post, event, pend, irql, seen, queue, sh, cont, torn>>
  PROVE  OInv'
  <1>1. at[r].pc \in Down /\ at[r].pc = "down"
    BY DEF At, Down
  <1>2. PICK b \in Places : /\ at' = [at EXCEPT ![r] = b] /\ b.pc \in {"down", "lower"} /\ b.k < at[r].k
                            /\ (b.pc = "down" => b.k \in Levels)
    BY <1>1, PassDownIs
  <1>3. PICK x : x = Here(r)
    OBVIOUS
  <1>4. x \in Ops /\ x[1] = r /\ at[r].k \in Int /\ b.k \in Int
    BY <1>1, <1>3, RequestAt DEF Places
  <1>5. Level(x[2], req[r], b, op[x], hook[x], cr[x], post[x], cont[x], Place(x))
    BY <1>1, <1>2, <1>4, OtherLevels DEF Down
  <1>6. op' \in [Ops -> OpRecords] /\ hook' \in [Ops -> Hooks]
    BY DEF OInv, Types, LevelTypes
  <1>7. (\A y : Place(y)' = Place(y)) /\ ShadowTypes' /\ QueueFits'
    BY PlaceStays DEF OInv, Types
  <1>8. /\ b.pc \in Down \cup {"lower"} /\ b.pc # "mark" /\ b.k <= at[r].k
        /\ (b.pc = "created" => b.k = at[r].k) /\ (b.pc \in Down => b.k \in Levels)
    BY <1>2, <1>4 DEF Down
  <1>9. Level(x[2], req[r], b, op'[x], hook'[x], cr[x], post[x], cont[x], Place(x)')
    BY <1>5, <1>7
  <1> QED
    BY <1>1, <1>2, <1>3, <1>6, <1>7, <1>8, <1>9, RequestDescends

LEMMA EndsStay ==
  ASSUME OInv, NEW r \in Irps, UNCHANGED ends \/ ends' = [ends EXCEPT ![r] = @ + 1]
  PROVE  ends' \in [Irps -> Nat]
  BY DEF OInv, Types, RequestTypes

LEMMA NotTrackedStep ==
  ASSUME OInv, NEW r \in Irps, NotTracked(r)
  PROVE  OInv'
  BY PassesBy, EndsStay DEF NotTracked

LEMMA FsmfPreOperationNoCallbackStep ==
  ASSUME OInv, NEW r \in Irps, FsmfPreOperationNoCallback(r)
  PROVE  OInv'
  BY PassesBy, EndsStay DEF FsmfPreOperationNoCallback

LEMMA ArriveStep ==
  ASSUME OInv, NEW r \in Irps, Arrive(r)
  PROVE  OInv'
  <1>1. PICK q \in Requests[r] : /\ req' = [req EXCEPT ![r] = q]
                                 /\ at' = [at EXCEPT ![r] = [pc |-> "down", k |-> Upper(q)]]
    BY DEF Arrive
  <1> DEFINE b == [pc |-> "down", k |-> Upper(q)]
  <1>2. q \in ReqRecords /\ b \in Places /\ b.pc = "down" /\ b.k \in Levels
    <2>1. q \in ReqRecords
      BY OperationsAssumption DEF ReqRecords
    <2>2. Upper(q) \in Levels /\ Upper(q) \in 0..Depth
      BY LevelsAre DEF Upper
    <2> QED
      BY <2>1, <2>2 DEF Places, Stages
  <1>3. /\ at[r].pc = "new" /\ at' = [at EXCEPT ![r] = b]
        /\ UNCHANGED <<op, hook, cr, post, event, pend, irql, seen, queue, sh, ends, cont, torn>>
    BY <1>1 DEF Arrive, At
  <1> HIDE DEF b
  <1>4. (\A x : Place(x)' = Place(x)) /\ QueueFits' /\ ShadowTypes'
    BY <1>3, PlaceStays DEF OInv, Types
  <1>5. LevelTypes' /\ RestTypes' /\ seen' \in [Irps -> {<<>>} \cup (Levels \X SUBSET Flags)]
    BY <1>3, RestIs DEF OInv, Types, LevelTypes, RestTypes, RequestTypes
  <1>6. ASSUME NEW x \in Ops, x[1] = r
        PROVE  Level(x[2], q, b, op'[x], hook'[x], cr'[x], post'[x], cont'[x], Place(x)')
    <2>1. Level(x[2], req[r], at[r], op[x], hook[x], cr[x], post[x], cont[x], Place(x))
      BY <1>6, LevelIs DEF ThisLevel
    <2>2. Level(x[2], q, b, op[x], hook[x], cr[x], post[x], cont[x], Place(x))
      BY <1>2, <1>3, <2>1, ArrivesFits
    <2> QED
      BY <1>3, <1>4, <2>2
  <1>7. MarkFits(r)'
    BY <1>2, <1>3, RequestAt DEF MarkFits
  <1>8. /\ req' = [req EXCEPT ![r] = q] /\ at' = [at EXCEPT ![r] = b] /\ b \in Places
        /\ q \in ReqRecords /\ q \in Requests[r] \cup {NoReq} /\ b.pc # "new"
        /\ b.pc \in Down \cup {"up"} => b.k \in Levels
        /\ \A x \in Irps : x # r => seen'[x] = seen[x]
    BY <1>1, <1>2, <1>3
  <1>9. \A x \in Ops : x[1] # r => /\ op'[x] = op[x] /\ hook'[x] = hook[x] /\ cr'[x] = cr[x]
                                   /\ post'[x] = post[x] /\ cont'[x] = cont[x] /\ Place(x)' = Place(x)
    BY <1>3, <1>4
  <1> QED
    BY <1>4, <1>5, <1>6, <1>7, <1>8, <1>9, RequestMoves


LEMMA NewOperationIs ==
  ASSUME OInv, NEW r \in Irps, Tracked(r)
  PROVE  /\ NewObject(req[r], NewOperation(r)) /\ req[r] \in Requests[r]
         /\ req[r].path \in {"device", "fsd"} /\ req[r].major # "none"
  <1> DEFINE q == req[r]
             o == <<r, at[r].k>>
  <1>1. q.major \in {"create", "write", "read"} \/ q.shadowed
    BY DEF Tracked
  <1>2. q \in Requests[r]
    BY <1>1 DEF OInv, Types, RequestTypes, NoReq
  <1>3. /\ q.path \in {"device", "fsd"} /\ q.major \in {"create", "write", "read", "control"}
        /\ q.io \in {"buffered", "direct", "neither"} /\ q.shadowed \in BOOLEAN
    BY <1>2, OperationsAssumption
  <1>4. Mdl(q) \in Mdls /\ (Mdl(q) = "locked" => q.major = "read")
    BY <1>3 DEF Mdl, Mdls, FillInDeviceWriteParameters, FillInDeviceReadParameters,
                FillInFsdWriteParameters, FillInFsdReadParameters, MinifilterDataForIrp
  <1> DEFINE f == IF q.shadowed THEN ProcessOperationObjectPrivateBuffers(o, q.major = "write") ELSE {}
  <1>5. HasData(o) <=> Copyable(q)
    <2>1. o[1] = r
      OBVIOUS
    <2> QED
      BY <2>1 DEF HasData, Copyable
  <1>6. f \subseteq {"Data"} /\ (q.major = "read" => f = {})
    BY DEF ProcessOperationObjectPrivateBuffers
  <1>7. ASSUME q.major = "write", q.len = 1
        PROVE  f = {"Data"}
    <2>1. q.shadowed
      BY <1>7 DEF Tracked
    <2> QED
      BY <1>5, <1>7, <2>1 DEF ProcessOperationObjectPrivateBuffers, Copyable
  <1>8. NewOperation(r) = [refs |-> 1, mdl |-> Mdl(q), flags |-> f]
    BY DEF NewOperation
  <1> HIDE DEF f, q
  <1>9. NewObject(q, NewOperation(r))
    BY <1>4, <1>6, <1>7, <1>8 DEF NewObject, OpRecords, Flags
  <1> QED
    BY <1>2, <1>3, <1>9 DEF q

\* The level at which the request is.
LEMMA HereFits ==
  ASSUME OInv, NEW r \in Irps, at[r].pc \in Down, NEW x, x = Here(r)
  PROVE  /\ x \in Ops /\ x[1] = r /\ x[2] = at[r].k /\ at[r] \in Places /\ req[r] \in ReqRecords
         /\ at[r].k \in Int /\ at[r].k \in Levels
         /\ Level(x[2], req[r], at[r], op[x], hook[x], cr[x], post[x], cont[x], Place(x))
  <1>1. /\ x \in Ops /\ x[1] = r /\ x[2] = at[r].k /\ at[r] \in Places /\ req[r] \in ReqRecords
        /\ at[r].k \in Levels
    BY RequestAt
  <1>2. at[r].k \in Int
    BY <1>1 DEF Places
  <1> QED
    BY <1>1, <1>2, LevelIs DEF ThisLevel

\* Nobody has hooked the level or sent its object to the shadow thread yet.
LEMMA HereIsQuiet ==
  ASSUME OInv, NEW r \in Irps, at[r].pc \in Down, NEW x, x = Here(r)
  PROVE  /\ hook[x] = "none"
         /\ at[r].pc # "created" \/ req[r].path = "device" => Place(x) = "none"
  <1>1. PICK k, q, a, p, h, c, w, n, t : /\ k = x[2] /\ q = req[r] /\ a = at[r] /\ p = op[x] /\ h = hook[x]
                                         /\ c = cr[x] /\ w = post[x] /\ n = cont[x] /\ t = Place(x)
    OBVIOUS
  <1>2. Level(k, q, a, p, h, c, w, n, t) /\ a.pc \in Down /\ a.k = k
    BY <1>1, HereFits
  <1>3. h = "none" /\ (a.pc # "created" \/ q.path = "device" => t = "none")
    BY <1>2, HereIs
  <1> QED
    BY <1>1, <1>3

\* What a change of one object or hook leaves.
LEMMA Others ==
  ASSUME OInv, NEW x \in Ops
  PROVE  /\ \A p : op' = [op EXCEPT ![x] = p] =>
               op'[x] = p /\ (p \in OpRecords => op' \in [Ops -> OpRecords]) /\ \A y \in Ops : y # x => op'[y] = op[y]
         /\ \A h : hook' = [hook EXCEPT ![x] = h] =>
               hook'[x] = h /\ (h \in Hooks => hook' \in [Ops -> Hooks]) /\ \A y \in Ops : y # x => hook'[y] = hook[y]
         /\ op \in [Ops -> OpRecords] /\ hook \in [Ops -> Hooks] /\ op[x] \in OpRecords
  BY DEF OInv, Types, LevelTypes

LEMMA CreateOperationObjectForDeviceStep ==
  ASSUME OInv, NEW r \in Irps, CreateOperationObjectForDevice(r)
  PROVE  OInv'
  <1>1. PICK x : x = Here(r)
    OBVIOUS
  <1> DEFINE s == NewOperation(r)
  <1>2. /\ at[r].pc = "down" /\ at[r].pc \in Down /\ req[r].path = "device" /\ Tracked(r)
        /\ op' = [op EXCEPT ![x] = s] /\ Stay(r, "created")
        /\ UNCHANGED <<req, hook, cr, post, event, pend, irql, seen, queue, sh, ends, cont, torn>>
    BY <1>1 DEF CreateOperationObjectForDevice, At, IsDevice, Down
  <1>3. /\ x \in Ops /\ x[2] = at[r].k /\ at[r].k \in Int
        /\ Level(x[2], req[r], at[r], op[x], hook[x], cr[x], post[x], cont[x], Place(x))
    BY <1>1, <1>2, HereFits
  <1>4. PICK b \in Places : at' = [at EXCEPT ![r] = b] /\ b.pc = "created" /\ b.k = at[r].k /\ b.k \in Levels
    BY <1>2, StayIs DEF Down
  <1>5. NewObject(req[r], s) /\ ~NoObject(req[r])
    BY <1>2, NewOperationIs DEF NoObject
  <1> HIDE DEF s
  <1>6. Level(x[2], req[r], b, s, hook[x], cr[x], post[x], cont[x], Place(x))
    BY <1>2, <1>3, <1>4, <1>5, CreatedFits
  <1>7. /\ op'[x] = s /\ op' \in [Ops -> OpRecords] /\ hook' \in [Ops -> Hooks]
        /\ \A y \in Ops : y # x => op'[y] = op[y]
    BY <1>2, <1>3, <1>5, Others DEF NewObject
  <1>8. (\A y : Place(y)' = Place(y)) /\ ShadowTypes' /\ QueueFits'
    BY <1>2, PlaceStays DEF OInv, Types
  <1>9. /\ Level(x[2], req[r], b, op'[x], hook'[x], cr[x], post[x], cont[x], Place(x)')
        /\ \A y \in Ops : y # x => op'[y] = op[y] /\ hook'[y] = hook[y] /\ Place(y)' = Place(y)
    BY <1>2, <1>6, <1>7, <1>8
  <1>10. /\ b.pc \in Down \cup {"lower"} /\ b.pc # "mark" /\ b.k <= at[r].k
         /\ (b.pc = "created" => b.k = at[r].k) /\ (b.pc \in Down => b.k \in Levels)
    BY <1>3, <1>4 DEF Down
  <1>11. ends' \in [Irps -> Nat]
    BY <1>2, EndsStay
  <1> QED
    BY <1>1, <1>2, <1>4, <1>7, <1>8, <1>9, <1>10, <1>11, RequestDescends

\* The levels of a request that is completed at once, from its place.
LEMMA CompletesHere ==
  ASSUME OInv, NEW r \in Irps, at[r].pc = "down",
         UNCHANGED <<req, op, hook, post, event, pend, irql, seen, queue, sh, cont, torn>>,
         Complete(r, at[r].k, hook)
  PROVE  OInv'
  <1>1. /\ at[r] \in Places /\ at[r].k \in 0..Depth
    BY RequestAt DEF Places
  <1>2. ASSUME NEW x \in Ops, x[1] = r
        PROVE  Level(x[2], req[r], at[r], op'[x], hook'[x], cr[x], post[x], cont[x], Place(x))
    BY <1>2, LevelIs DEF ThisLevel
  <1>3. /\ pend' \in [Irps -> BOOLEAN] /\ irql' \in [Irps -> {"passive", "dispatch"}]
        /\ op' \in [Ops -> OpRecords] /\ hook' \in [Ops -> Hooks]
    BY RestIs DEF RestTypes, OInv, Types, LevelTypes
  <1> DEFINE k0 == at[r].k
             a == at[r]
  <1>4. /\ k0 \in 0..Depth /\ a \in Places /\ (a.pc = "down" /\ a.k = k0) /\ Complete(r, k0, hook')
        /\ \A x \in Ops : x[1] = r =>
              Level(x[2], req[r], a, op'[x], hook'[x], cr[x], post[x], cont[x], Place(x))
    BY <1>1, <1>2
  <1> HIDE DEF k0, a
  <1> QED
    BY <1>3, <1>4, RequestCompletes

LEMMA OperationRefusedStep ==
  ASSUME OInv, NEW r \in Irps, OperationRefused(r)
  PROVE  OInv'
  BY CompletesHere DEF OperationRefused, At

LEMMA FsmfPreOperationCompleteStep ==
  ASSUME OInv, NEW r \in Irps, FsmfPreOperationComplete(r)
  PROVE  OInv'
  <1>1. /\ At(r, "down") /\ at[r].pc = "down"
        /\ UNCHANGED <<req, op, hook, post, event, pend, irql, seen, queue, sh, cont, torn>>
    BY DEF FsmfPreOperationComplete, At
  <1>2. ASSUME at[r].k = 2, Complete(r, 2, hook)
        PROVE  OInv'
    <2>1. Complete(r, at[r].k, hook)
      BY <1>2
    <2> QED
      BY <1>1, <2>1, CompletesHere
  <1>3. ASSUME ends' = [ends EXCEPT ![r] = @ + 1], PassDown(r), UNCHANGED cr
        PROVE  OInv'
    BY <1>1, <1>3, EndsStay, PassesBy
  <1> QED
    BY <1>2, <1>3 DEF FsmfPreOperationComplete

LEMMA LowerDriverCompletesStep ==
  ASSUME OInv, NEW r \in Irps, LowerDriverCompletes(r)
  PROVE  OInv'
  <1>1. /\ at[r].pc = "lower" /\ UNCHANGED <<req, op, hook, post, event, seen, queue, sh, cont, torn>>
        /\ Complete(r, 0, hook')
    BY DEF LowerDriverCompletes, At
  <1>2. pend' \in [Irps -> BOOLEAN] /\ irql' \in [Irps -> {"passive", "dispatch"}]
    BY RestIs DEF LowerDriverCompletes, RestTypes
  <1>3. at[r] \in Places /\ 0 \in 0..Depth
    BY RequestAt, LevelsAre
  <1>4. ASSUME NEW x \in Ops, x[1] = r
        PROVE  Level(x[2], req[r], at[r], op'[x], hook'[x], cr[x], post[x], cont[x], Place(x))
    BY <1>1, <1>4, LevelIs DEF ThisLevel
  <1>5. op' \in [Ops -> OpRecords] /\ hook' \in [Ops -> Hooks]
    BY <1>1 DEF OInv, Types, LevelTypes
  <1> DEFINE a == at[r]
  <1>6. /\ a \in Places /\ a.pc = "lower"
        /\ \A x \in Ops : x[1] = r =>
              Level(x[2], req[r], a, op'[x], hook'[x], cr[x], post[x], cont[x], Place(x))
    BY <1>1, <1>3, <1>4
  <1> HIDE DEF a
  <1> QED
    BY <1>1, <1>2, <1>3, <1>5, <1>6, RequestCompletes


\* A request is completed from the level below the one where its hook was set.
LEMMA CompletesBelow ==
  ASSUME OInv, NEW r \in Irps, at[r].pc = "created", NEW x, x = Here(r),
         UNCHANGED <<req, post, event, pend, irql, seen, queue, sh, cont, torn>>,
         op' \in [Ops -> OpRecords], hook' \in [Ops -> Hooks],
         \A y \in Ops : y # x => op'[y] = op[y] /\ hook'[y] = hook[y],
         NEW k0 \in 0..Depth, NEW b \in Places, b.k = k0, b.k <= at[r].k,
         b.pc = "down" \/ (b.pc = "lower" /\ k0 = 0),
         Level(x[2], req[r], b, op'[x], hook'[x], cr[x], post[x], cont[x], Place(x)),
         Complete(r, k0, hook')
  PROVE  OInv'
  <1>1. at[r].pc \in Down /\ b.pc \in Down \cup {"lower"} /\ b.pc # "created"
    BY DEF Down
  <1>2. x \in Ops /\ x[1] = r
    BY <1>1, RequestAt
  <1>3. ASSUME NEW y \in Ops, y[1] = r
        PROVE  Level(y[2], req[r], b, op'[y], hook'[y], cr[y], post[y], cont[y], Place(y))
    <2>1. ASSUME y # x
          PROVE  Level(y[2], req[r], b, op'[y], hook'[y], cr[y], post[y], cont[y], Place(y))
      <3>1. Level(y[2], req[r], b, op[y], hook[y], cr[y], post[y], cont[y], Place(y))
        BY <1>1, <1>3, <2>1, OtherLevels
      <3> QED
        BY <2>1, <3>1
    <2> QED
      BY <2>1
  <1>4. \A y \in Ops : y[1] # r => op'[y] = op[y] /\ hook'[y] = hook[y]
    BY <1>2
  <1>5. pend' \in [Irps -> BOOLEAN] /\ irql' \in [Irps -> {"passive", "dispatch"}]
    BY RestIs DEF RestTypes
  <1> QED
    BY <1>3, <1>4, <1>5, RequestCompletes

LEMMA HookRefusedStep ==
  ASSUME OInv, NEW r \in Irps, HookRefused(r)
  PROVE  OInv'
  <1>1. PICK x : x = Here(r)
    OBVIOUS
  <1> DEFINE s == Dereferenced(op[x])
             d == [pc |-> "down", k |-> at[r].k]
  <1>2. /\ at[r].pc = "created" /\ at[r].pc \in Down /\ req[r].path = "device" /\ op' = [op EXCEPT ![x] = s]
        /\ UNCHANGED <<req, hook, post, event, pend, irql, seen, queue, sh, cont, torn>>
        /\ \/ PassDown(r) /\ UNCHANGED <<cr, ends>>
           \/ Complete(r, at[r].k, hook)
    BY <1>1 DEF HookRefused, At, IsDevice, Down
  <1>3. /\ x \in Ops /\ x[2] = at[r].k /\ at[r] \in Places /\ at[r].k \in Int /\ at[r].k \in Levels
        /\ Level(x[2], req[r], at[r], op[x], hook[x], cr[x], post[x], cont[x], Place(x))
    BY <1>1, <1>2, HereFits
  <1>4. d \in Places /\ d.pc = "down" /\ d.k = at[r].k
    BY <1>3 DEF Places, Stages
  <1>5. op[x].refs = 1 /\ Level(x[2], req[r], d, NoOp, hook[x], cr[x], post[x], cont[x], Place(x))
    BY <1>2, <1>3, <1>4, DroppedFits
  <1>6. s = NoOp
    BY <1>3, <1>5, DereferencedIs, Others
  <1>7. /\ op'[x] = NoOp /\ op' \in [Ops -> OpRecords] /\ hook' \in [Ops -> Hooks]
        /\ \A y \in Ops : y # x => op'[y] = op[y] /\ hook'[y] = hook[y]
    BY <1>2, <1>3, <1>6, Others, DereferencedIs
  <1>8. (\A y : Place(y)' = Place(y)) /\ ShadowTypes' /\ QueueFits'
    BY <1>2, PlaceStays DEF OInv, Types
  <1> HIDE DEF s, d
  <1>9. ASSUME PassDown(r), UNCHANGED <<cr, ends>>
        PROVE  OInv'
    <2>1. PICK b \in Places : /\ at' = [at EXCEPT ![r] = b] /\ b.pc \in {"down", "lower"} /\ b.k < at[r].k
                              /\ (b.pc = "down" => b.k \in Levels)
      BY <1>2, <1>9, PassDownIs
    <2>2. b.k \in Int /\ b.pc \in Down \cup {"lower"} /\ b.pc \notin {"mark", "created"}
      BY <2>1 DEF Down, Places
    <2>3. Level(x[2], req[r], b, NoOp, hook[x], cr[x], post[x], cont[x], Place(x))
      <3>1. d.pc \in Down /\ b.k <= d.k
        BY <1>3, <1>4, <2>1, <2>2 DEF Down
      <3>2. d.pc # "created"
        BY <1>4
      <3> QED
        BY <1>5, <2>2, <3>1, <3>2, DescendsFits
    <2>4. /\ Level(x[2], req[r], b, op'[x], hook'[x], cr[x], post[x], cont[x], Place(x)')
          /\ \A y \in Ops : y # x => op'[y] = op[y] /\ hook'[y] = hook[y] /\ Place(y)' = Place(y)
      BY <1>2, <1>7, <1>8, <2>3
    <2>5. /\ b.pc \in Down \cup {"lower"} /\ b.pc # "mark" /\ b.k <= at[r].k
          /\ (b.pc = "created" => b.k = at[r].k) /\ (b.pc \in Down => b.k \in Levels)
      BY <1>3, <2>1, <2>2 DEF Down
    <2>6. ends' \in [Irps -> Nat]
      BY <1>9, EndsStay
    <2> QED
      BY <1>1, <1>2, <1>7, <1>8, <1>9, <2>1, <2>4, <2>5, <2>6, RequestDescends
  <1>10. ASSUME Complete(r, at[r].k, hook)
         PROVE  OInv'
    <2> DEFINE k0 == at[r].k
    <2>1. k0 \in 0..Depth /\ Complete(r, k0, hook')
      BY <1>2, <1>3, <1>10 DEF Places
    <2>2. /\ Level(x[2], req[r], d, op'[x], hook'[x], cr[x], post[x], cont[x], Place(x))
          /\ d \in Places /\ d.k = k0 /\ d.pc = "down" /\ d.k <= at[r].k
      BY <1>2, <1>3, <1>4, <1>5, <1>7
    <2> HIDE DEF k0
    <2> QED
      BY <1>1, <1>2, <1>7, <2>1, <2>2, CompletesBelow
  <1> QED
    BY <1>2, <1>9, <1>10

LEMMA RequestProcessingErrorStep ==
  ASSUME OInv, NEW r \in Irps, RequestProcessingError(r)
  PROVE  OInv'
  <1>1. PICK x : x = Here(r)
    OBVIOUS
  <1> DEFINE s == WithFlags(op[x], {"Error"})
             k == at[r].k
             b == Below(k)
             k0 == k - 1
  <1>2. /\ at[r].pc = "created" /\ at[r].pc \in Down /\ req[r].path = "device" /\ req[r].major # "read"
        /\ op' = [op EXCEPT ![x] = s] /\ hook' = [hook EXCEPT ![x] = "set"]
        /\ UNCHANGED <<req, post, event, pend, irql, seen, queue, sh, cont, torn>>
        /\ Complete(r, k0, hook')
    BY <1>1 DEF RequestProcessingError, At, IsDevice, Down, HookCompletionRoutineInCurrentStack
  <1>3. /\ x \in Ops /\ x[2] = k /\ k \in Levels
        /\ Level(x[2], req[r], at[r], op[x], hook[x], cr[x], post[x], cont[x], Place(x))
    BY <1>1, <1>2, HereFits
  <1>4. /\ b \in Places /\ (b.pc = "down" \/ (b.pc = "lower" /\ k0 = 0)) /\ b.k = k0 /\ b.k < k
        /\ k0 \in 0..Depth /\ b.k <= k
    <2>1. k \in Nat /\ k >= 1 /\ k <= Depth /\ Depth \in Nat
      BY <1>3, LevelsAre
    <2> HIDE DEF k
    <2> QED
      BY <2>1 DEF Below, Places, Stages
  <1> HIDE DEF b, s
  <1>5. b.pc \in Down \cup {"lower"} /\ b.pc # "created"
    BY <1>4 DEF Down
  <1>6. Marked(op[x], s, {"Error"})
    BY <1>3, FlagsAre DEF s, Flags
  <1>7. Level(x[2], req[r], b, s, "set", cr[x], post[x], cont[x], Place(x))
    BY <1>2, <1>3, <1>4, <1>5, <1>6, ErrorFits
  <1>8. "set" \in Hooks /\ s \in OpRecords
    BY <1>6 DEF Hooks, Marked
  <1>9. /\ op'[x] = s /\ op' \in [Ops -> OpRecords] /\ hook' \in [Ops -> Hooks] /\ hook'[x] = "set"
        /\ \A y \in Ops : y # x => op'[y] = op[y] /\ hook'[y] = hook[y]
    BY <1>2, <1>3, <1>8, Others
  <1>10. Level(x[2], req[r], b, op'[x], hook'[x], cr[x], post[x], cont[x], Place(x)) /\ b.k <= at[r].k
    BY <1>4, <1>7, <1>9
  <1> HIDE DEF k0
  <1> QED
    BY <1>1, <1>2, <1>4, <1>9, <1>10, CompletesBelow

LEMMA FsdHookRefusedStep ==
  ASSUME OInv, NEW r \in Irps, FsdHookRefused(r)
  PROVE  OInv'
  <1>1. PICK x : x = Here(r)
    OBVIOUS
  <1> DEFINE k == at[r].k
             b == Below(k)
             k0 == k - 1
  <1>2. /\ at[r].pc = "created" /\ at[r].pc \in Down /\ hook' = [hook EXCEPT ![x] = "set"]
        /\ UNCHANGED <<req, op, post, event, pend, irql, seen, queue, sh, cont, torn>>
        /\ Complete(r, k0, hook')
    BY <1>1 DEF FsdHookRefused, At, Down, HookCompletionRoutineInCurrentStack
  <1>3. /\ x \in Ops /\ x[2] = k /\ k \in Levels
        /\ Level(x[2], req[r], at[r], op[x], hook[x], cr[x], post[x], cont[x], Place(x))
    BY <1>1, <1>2, HereFits
  <1>4. /\ b \in Places /\ (b.pc = "down" \/ (b.pc = "lower" /\ k0 = 0)) /\ b.k = k0 /\ b.k < k
        /\ k0 \in 0..Depth /\ b.k <= k
    <2>1. k \in Nat /\ k >= 1 /\ k <= Depth /\ Depth \in Nat
      BY <1>3, LevelsAre
    <2> HIDE DEF k
    <2> QED
      BY <2>1 DEF Below, Places, Stages
  <1> HIDE DEF b
  <1>5. b.pc \in Down \cup {"lower"} /\ b.pc # "created"
    BY <1>4 DEF Down
  <1>6. Level(x[2], req[r], b, op[x], "set", cr[x], post[x], cont[x], Place(x))
    BY <1>2, <1>3, <1>4, <1>5, HookedFits
  <1>7. "set" \in Hooks
    BY DEF Hooks
  <1>8. /\ op' \in [Ops -> OpRecords] /\ hook' \in [Ops -> Hooks] /\ hook'[x] = "set"
        /\ \A y \in Ops : y # x => op'[y] = op[y] /\ hook'[y] = hook[y]
    BY <1>2, <1>3, <1>7, Others
  <1>9. Level(x[2], req[r], b, op'[x], hook'[x], cr[x], post[x], cont[x], Place(x)) /\ b.k <= at[r].k
    BY <1>2, <1>4, <1>6, <1>8
  <1> HIDE DEF k0
  <1> QED
    BY <1>1, <1>2, <1>4, <1>8, <1>9, CompletesBelow


\* A request that is not completed gets to level b with a new place for x.
LEMMA HookAndDescend ==
  ASSUME OInv, NEW r \in Irps, at[r].pc \in Down, NEW x, x = Here(r), PassDown(r),
         UNCHANGED <<req, cr, post, event, pend, irql, seen, ends, cont, torn>>, ShadowTypes', QueueFits',
         hook' = [hook EXCEPT ![x] = "set"], NEW s \in OpRecords, op' = [op EXCEPT ![x] = s],
         \A y : y # x => Place(y)' = Place(y),
         \A b \in Places : b.pc \in Down \cup {"lower"} /\ b.k < at[r].k /\ b.pc # "created" =>
           Level(x[2], req[r], b, s, "set", cr[x], post[x], cont[x], Place(x)')
  PROVE  OInv'
  <1>1. PICK b \in Places : /\ at' = [at EXCEPT ![r] = b] /\ b.pc \in {"down", "lower"} /\ b.k < at[r].k
                            /\ (b.pc = "down" => b.k \in Levels)
    BY PassDownIs
  <1>2. x \in Ops /\ at[r].k \in Int /\ b.k \in Int
    BY HereFits DEF Places
  <1>3. /\ b.pc \in Down \cup {"lower"} /\ b.pc # "mark" /\ b.pc # "created" /\ b.k <= at[r].k
        /\ (b.pc = "created" => b.k = at[r].k) /\ (b.pc \in Down => b.k \in Levels)
    BY <1>1, <1>2 DEF Down
  <1>4. "set" \in Hooks
    BY DEF Hooks
  <1>5. /\ op'[x] = s /\ op' \in [Ops -> OpRecords] /\ hook' \in [Ops -> Hooks] /\ hook'[x] = "set"
        /\ \A y \in Ops : y # x => op'[y] = op[y] /\ hook'[y] = hook[y] /\ Place(y)' = Place(y)
    BY <1>2, <1>4, Others
  <1>6. Level(x[2], req[r], b, op'[x], hook'[x], cr[x], post[x], cont[x], Place(x)')
    BY <1>1, <1>3, <1>5
  <1>7. ends' \in [Irps -> Nat]
    BY EndsStay
  <1> QED
    BY <1>1, <1>3, <1>5, <1>6, <1>7, RequestDescends

LEMMA ProcessRequestWoResultStep ==
  ASSUME OInv, NEW r \in Irps, ProcessRequestWoResult(r)
  PROVE  OInv'
  <1>1. PICK x : x = Here(r)
    OBVIOUS
  <1>2. /\ at[r].pc = "created" /\ at[r].pc \in Down /\ req[r].path = "device" /\ PassDown(r)
        /\ hook' = [hook EXCEPT ![x] = "set"]
        /\ UNCHANGED <<req, cr, post, event, pend, irql, seen, sh, ends, cont, torn>>
    BY <1>1 DEF ProcessRequestWoResult, At, IsDevice, Down, HookCompletionRoutineInCurrentStack
  <1>3. /\ x \in Ops /\ x[2] = at[r].k
        /\ Level(x[2], req[r], at[r], op[x], hook[x], cr[x], post[x], cont[x], Place(x))
    BY <1>1, <1>2, HereFits
  <1>4. op[x] \in OpRecords
    BY <1>3, Others
  <1>5. ASSUME req[r].major \in {"write", "control"}
        PROVE  OInv'
    <2> DEFINE s == [WithFlags(op[x], {"Sent"}) EXCEPT !.refs = @ + 1]
    <2>1. op' = [op EXCEPT ![x] = s] /\ queue' = Append(queue, x)
      BY <1>1, <1>5 DEF ProcessRequestWoResult, ShadowRequest
    <2>2. Sent(op[x], s, {})
      <3>1. s = SentTo(op[x])
        BY DEF SentTo
      <3> HIDE DEF s
      <3> QED
        BY <1>4, <3>1, SentToIs DEF Sent
    <2> HIDE DEF s
    <2>3. s \in OpRecords
      BY <2>2 DEF Sent
    <2>4. Place(x) = "none"
      BY <1>1, <1>2, HereIsQuiet
    <2>5. Place(x)' = "queued" /\ (\A y : y # x => Place(y)' = Place(y)) /\ ShadowTypes' /\ QueueFits'
      BY <1>2, <1>3, <2>1, <2>4, PlaceAppends DEF OInv, Types
    <2>6. ASSUME NEW b \in Places, b.pc \in Down \cup {"lower"}, b.k < at[r].k, b.pc # "created"
          PROVE  Level(x[2], req[r], b, s, "set", cr[x], post[x], cont[x], Place(x)')
      <3>1. Level(x[2], req[r], b, s, "set", cr[x], post[x], cont[x], "queued")
        BY <1>2, <1>3, <1>5, <2>2, <2>6, HookedSentFits
      <3> QED
        BY <2>5, <3>1
    <2> QED
      BY <1>1, <1>2, <2>1, <2>3, <2>5, <2>6, HookAndDescend
  <1>6. ASSUME req[r].major \notin {"write", "control"}
        PROVE  OInv'
    <2> DEFINE s == op[x]
    <2>1. op' = [op EXCEPT ![x] = s] /\ UNCHANGED queue
      BY <1>3, <1>6, Same DEF ProcessRequestWoResult
    <2>2. (\A y : Place(y)' = Place(y)) /\ ShadowTypes' /\ QueueFits'
      BY <1>2, <2>1, PlaceStays DEF OInv, Types
    <2>3. ASSUME NEW b \in Places, b.pc \in Down \cup {"lower"}, b.k < at[r].k, b.pc # "created"
          PROVE  Level(x[2], req[r], b, s, "set", cr[x], post[x], cont[x], Place(x)')
      <3>1. Level(x[2], req[r], b, op[x], "set", cr[x], post[x], cont[x], Place(x))
        BY <1>2, <1>3, <2>3, HookedFits
      <3> QED
        BY <2>2, <3>1
    <2>4. s \in OpRecords
      BY <1>4
    <2> HIDE DEF s
    <2> QED
      BY <1>1, <1>2, <2>1, <2>2, <2>3, <2>4, HookAndDescend
  <1> QED
    BY <1>5, <1>6

LEMMA ProcessFsdIrpRequestToHookedDriverStep ==
  ASSUME OInv, NEW r \in Irps, ProcessFsdIrpRequestToHookedDriver(r)
  PROVE  OInv'
  <1>1. PICK x : x = Here(r)
    OBVIOUS
  <1> DEFINE s == op[x]
  <1>2. /\ at[r].pc = "created" /\ at[r].pc \in Down /\ PassDown(r)
        /\ hook' = [hook EXCEPT ![x] = "set"]
        /\ UNCHANGED <<req, cr, post, event, pend, irql, seen, queue, sh, ends, cont, torn>>
    BY <1>1 DEF ProcessFsdIrpRequestToHookedDriver, At, Down, HookCompletionRoutineInCurrentStack
  <1>3. /\ x \in Ops /\ x[2] = at[r].k
        /\ Level(x[2], req[r], at[r], op[x], hook[x], cr[x], post[x], cont[x], Place(x))
    BY <1>1, <1>2, HereFits
  <1>4. op' = [op EXCEPT ![x] = s] /\ s \in OpRecords
    BY <1>3, Same, Others DEF ProcessFsdIrpRequestToHookedDriver
  <1>5. (\A y : Place(y)' = Place(y)) /\ ShadowTypes' /\ QueueFits'
    BY <1>2, PlaceStays DEF OInv, Types
  <1>6. ASSUME NEW b \in Places, b.pc \in Down \cup {"lower"}, b.k < at[r].k, b.pc # "created"
        PROVE  Level(x[2], req[r], b, s, "set", cr[x], post[x], cont[x], Place(x)')
    <2>1. Level(x[2], req[r], b, op[x], "set", cr[x], post[x], cont[x], Place(x))
      BY <1>2, <1>3, <1>6, HookedFits
    <2> QED
      BY <1>5, <2>1
  <1> HIDE DEF s
  <1> QED
    BY <1>1, <1>2, <1>4, <1>5, <1>6, HookAndDescend

\* The same when the hook is yet to be set.
LEMMA StoreAndStay ==
  ASSUME OInv, NEW r \in Irps, at[r].pc \in Down, NEW x, x = Here(r), Stay(r, "created"),
         UNCHANGED <<req, hook, cr, post, event, pend, irql, seen, ends, cont, torn>>, ShadowTypes', QueueFits',
         NEW s \in OpRecords, op' = [op EXCEPT ![x] = s],
         \A y : y # x => Place(y)' = Place(y),
         \A b \in Places : b.pc = "created" /\ b.k = at[r].k =>
           Level(x[2], req[r], b, s, hook[x], cr[x], post[x], cont[x], Place(x)')
  PROVE  OInv'
  <1>1. PICK b \in Places : at' = [at EXCEPT ![r] = b] /\ b.pc = "created" /\ b.k = at[r].k /\ b.k \in Levels
    BY StayIs DEF Down
  <1>2. x \in Ops /\ at[r].k \in Int
    BY HereFits
  <1>3. /\ b.pc \in Down \cup {"lower"} /\ b.pc # "mark" /\ b.k <= at[r].k
        /\ (b.pc = "created" => b.k = at[r].k) /\ (b.pc \in Down => b.k \in Levels)
    BY <1>1, <1>2 DEF Down
  <1>4. /\ op'[x] = s /\ op' \in [Ops -> OpRecords] /\ hook' \in [Ops -> Hooks]
        /\ \A y \in Ops : y # x => op'[y] = op[y] /\ hook'[y] = hook[y] /\ Place(y)' = Place(y)
    BY <1>2, Others
  <1>5. Level(x[2], req[r], b, op'[x], hook'[x], cr[x], post[x], cont[x], Place(x)')
    BY <1>1, <1>4
  <1>6. ends' \in [Irps -> Nat]
    BY EndsStay
  <1> QED
    BY <1>1, <1>3, <1>4, <1>5, <1>6, RequestDescends

LEMMA FsmfPreOperationStep ==
  ASSUME OInv, NEW r \in Irps, FsmfPreOperation(r)
  PROVE  OInv'
  <1>1. PICK x : x = Here(r)
    OBVIOUS
  <1>0. PICK q : q = req[r]
    OBVIOUS
  <1> DEFINE m == NewOperation(r)
             u == [WithFlags(m, {"Sent"}) EXCEPT !.refs = @ + 1]
  <1>2. /\ at[r].pc = "down" /\ at[r].pc \in Down /\ q.path # "device" /\ Tracked(r)
        /\ WithCallback(r)
        /\ UNCHANGED <<req, cr, post, event, pend, irql, seen, sh, ends, cont, torn>>
    BY <1>0, <1>1 DEF FsmfPreOperation, At, IsDevice, Down
  <1>3. \/ hook' = [hook EXCEPT ![x] = "set"] /\ PassDown(r)
        \/ UNCHANGED hook /\ Stay(r, "created")
    BY <1>1, <1>2 DEF WithCallback, HookCompletionRoutineInCurrentStack
  <1>4. /\ x \in Ops /\ x[2] = at[r].k
        /\ Level(x[2], q, at[r], op[x], hook[x], cr[x], post[x], cont[x], Place(x))
    BY <1>0, <1>1, <1>2, HereFits
  <1>5. /\ NewObject(q, m) /\ q.path = "fsd" /\ q.major \in {"create", "write", "read"}
        /\ op[x] \in OpRecords
    BY <1>0, <1>2, <1>4, NewOperationIs, Others DEF Tracked, IsDevice
  <1>6. m \in OpRecords /\ (NoObject(q) <=> q.major = "create")
    BY <1>5 DEF NewObject, NoObject
  <1>7. Place(x) = "none" /\ hook[x] = "none"
    BY <1>1, <1>2, HereIsQuiet
  \* Whatever is stored and however the shadow thread hears of it.
  <1>8. ASSUME NEW s \in OpRecords, op' = [op EXCEPT ![x] = s], ShadowTypes', QueueFits',
               \A y : y # x => Place(y)' = Place(y),
               \A b \in Places : b.pc \in Down \cup {"lower"} /\ b.k < at[r].k /\ b.pc # "created" =>
                 Level(x[2], q, b, s, "set", cr[x], post[x], cont[x], Place(x)'),
               \A b \in Places : b.pc = "created" /\ b.k = at[r].k =>
                 Level(x[2], q, b, s, hook[x], cr[x], post[x], cont[x], Place(x)')
        PROVE  OInv'
    <2>1. ASSUME hook' = [hook EXCEPT ![x] = "set"], PassDown(r)
          PROVE  OInv'
      BY <1>0, <1>1, <1>2, <1>8, <2>1, HookAndDescend
    <2>2. ASSUME UNCHANGED hook, Stay(r, "created")
          PROVE  OInv'
      BY <1>0, <1>1, <1>2, <1>8, <2>2, StoreAndStay
    <2> QED
      BY <1>3, <2>1, <2>2
  <1>9. ASSUME UNCHANGED queue, NEW s \in OpRecords, op' = [op EXCEPT ![x] = s],
               (NoObject(q) /\ s = op[x]) \/ (~NoObject(q) /\ NewObject(q, s))
        PROVE  OInv'
    <2>1. (\A y : Place(y)' = Place(y)) /\ ShadowTypes' /\ QueueFits'
      BY <1>2, <1>9, PlaceStays DEF OInv, Types
    <2>2. ASSUME NEW b \in Places, b.pc \in Down \cup {"lower"}, b.k < at[r].k, b.pc # "created"
          PROVE  Level(x[2], q, b, s, "set", cr[x], post[x], cont[x], Place(x)')
      <3>1. Level(x[2], q, b, s, "set", cr[x], post[x], cont[x], Place(x))
        BY <1>2, <1>4, <1>9, <2>2, CallbackFits
      <3> QED
        BY <2>1, <3>1
    <2>3. ASSUME NEW b \in Places, b.pc = "created", b.k = at[r].k
          PROVE  Level(x[2], q, b, s, hook[x], cr[x], post[x], cont[x], Place(x)')
      <3>1. Level(x[2], q, b, s, hook[x], cr[x], post[x], cont[x], Place(x))
        BY <1>2, <1>4, <1>9, <2>3, StoredFits
      <3> QED
        BY <2>1, <3>1
    <2> QED
      BY <1>8, <1>9, <2>1, <2>2, <2>3
  <1>10. ASSUME q.major = "write"
         PROVE  OInv'
    <2>1. op' = [op EXCEPT ![x] = u] /\ queue' = Append(queue, x)
      BY <1>0, <1>1, <1>10 DEF FsmfPreOperation, ShadowRequest
    <2>2. Sent(m, u, {})
      <3>1. u = SentTo(m)
        BY DEF SentTo
      <3> HIDE DEF u, m
      <3> QED
        BY <1>6, <3>1, SentToIs DEF Sent
    <2> HIDE DEF u, m
    <2>3. u \in OpRecords
      BY <2>2 DEF Sent
    <2>4. Place(x)' = "queued" /\ (\A y : y # x => Place(y)' = Place(y)) /\ ShadowTypes' /\ QueueFits'
      BY <1>2, <1>4, <1>7, <2>1, PlaceAppends DEF OInv, Types
    <2>5. ASSUME NEW b \in Places, b.pc \in Down \cup {"lower"}, b.k < at[r].k, b.pc # "created"
          PROVE  Level(x[2], q, b, u, "set", cr[x], post[x], cont[x], Place(x)')
      <3>1. Level(x[2], q, b, u, "set", cr[x], post[x], cont[x], "queued")
        BY <1>2, <1>4, <1>5, <1>10, <2>2, <2>5, CallbackSentFits
      <3> QED
        BY <2>4, <3>1
    <2>6. ASSUME NEW b \in Places, b.pc = "created", b.k = at[r].k
          PROVE  Level(x[2], q, b, u, hook[x], cr[x], post[x], cont[x], Place(x)')
      <3>1. Level(x[2], q, b, u, hook[x], cr[x], post[x], cont[x], "queued")
        BY <1>2, <1>4, <1>5, <1>10, <2>2, <2>6, CallbackSentFits
      <3> QED
        BY <2>4, <3>1
    <2> QED
      BY <1>8, <2>1, <2>3, <2>4, <2>5, <2>6
  <1>11. ASSUME q.major = "read"
         PROVE  OInv'
    <2>1. op' = [op EXCEPT ![x] = m] /\ UNCHANGED queue
      BY <1>0, <1>1, <1>11 DEF FsmfPreOperation
    <2> HIDE DEF m
    <2> QED
      BY <1>5, <1>6, <1>9, <1>11, <2>1
  <1>12. ASSUME q.major = "create"
         PROVE  OInv'
    <2> DEFINE s == op[x]
    <2>1. op' = [op EXCEPT ![x] = s] /\ UNCHANGED queue
      BY <1>0, <1>4, <1>12, Same DEF FsmfPreOperation
    <2>2. s \in OpRecords /\ s = op[x]
      BY <1>5
    <2> HIDE DEF s
    <2> QED
      BY <1>6, <1>9, <1>12, <2>1, <2>2
  <1> QED
    BY <1>5, <1>10, <1>11, <1>12


LEMMA IsRequestInDeviceQueueStep ==
  ASSUME OInv, NEW r \in Irps, IsRequestInDeviceQueue(r)
  PROVE  OInv'
  <1>1. PICK j : j = CHOOSE i \in Found(r) : \A l \in Found(r) : i <= l
    OBVIOUS
  <1>2. PICK x : x = <<r, j>>
    OBVIOUS
  <1>3. /\ at[r].pc = "down" /\ at[r].pc \in Down /\ Stay(r, "mark") /\ Found(r) # {}
        /\ seen' = [seen EXCEPT ![r] = <<j, op[x].flags>>]
        /\ UNCHANGED <<req, op, hook, cr, post, event, pend, irql, queue, sh, ends, cont, torn>>
    BY <1>1, <1>2 DEF IsRequestInDeviceQueue, RequestInQueue, At, Down
  <1>4. j \in Levels /\ j > at[r].k /\ op[x].refs > 0
    <2>1. Found(r) \subseteq Levels
      BY DEF Found
    <2>2. j \in Found(r)
      BY <1>1, <1>3, <2>1, Lowest
    <2> QED
      BY <1>2, <2>2 DEF Found
  <1>5. x \in Ops /\ x[1] = r /\ x[2] = j
    BY <1>2, <1>4, Pairs
  <1>6. Level(x[2], req[r], at[r], op[x], hook[x], cr[x], post[x], cont[x], Place(x))
    BY <1>5, LevelIs DEF ThisLevel
  <1>7. /\ hook[x] = "set" /\ ~NoObject(req[r])
        /\ req[r].major = "write" /\ req[r].len = 1 => "Data" \in op[x].flags
    BY <1>3, <1>4, <1>6, FoundIs
  <1>8. PICK b \in Places : at' = [at EXCEPT ![r] = b] /\ b.pc = "mark" /\ b.k = at[r].k /\ b.k \in Levels
    BY <1>3, StayIs DEF Down
  <1>9. ASSUME NEW y \in Ops, y[1] = r
        PROVE  Level(y[2], req[r], b, op'[y], hook'[y], cr'[y], post'[y], cont'[y], Place(y)')
    <2>1. at[r].k \in Int
      BY <1>3, HereFits
    <2>2. /\ at[r].pc # "created" /\ b.pc # "created" /\ b.pc \in Down \cup {"lower"} /\ b.k <= at[r].k
      BY <1>3, <1>8, <2>1 DEF Down
    <2>3. Level(y[2], req[r], b, op[y], hook[y], cr[y], post[y], cont[y], Place(y))
      BY <1>3, <1>9, <2>2, OtherLevels
    <2>4. Place(y)' = Place(y)
      BY <1>3, PlaceStays
    <2> QED
      BY <1>3, <2>3, <2>4
  <1>10. /\ at'[r] = b /\ req[r] \in ReqRecords /\ req[r] \in Requests[r] \cup {NoReq}
         /\ req' = [req EXCEPT ![r] = req[r]] /\ op[x].flags \in SUBSET Flags
    BY <1>3, <1>5, <1>8, RequestAt, Others DEF OpRecords
  <1>11. /\ seen'[r] = <<j, op[x].flags>> /\ \A y \in Irps : y # r => seen'[y] = seen[y]
         /\ seen' \in [Irps -> {<<>>} \cup (Levels \X SUBSET Flags)]
    BY <1>3, <1>4, <1>10 DEF OInv, Types, RequestTypes
  <1>12. MarkFits(r)'
    <2>1. Seen(r, req[r], seen[r])'
      BY <1>2, <1>3, <1>4, <1>7, <1>8, <1>10, <1>11 DEF Seen
    <2> QED
      BY <2>1 DEF MarkFits
  <1>13. LevelTypes' /\ RestTypes' /\ ShadowTypes' /\ QueueFits'
    BY <1>3, RestIs DEF OInv, Types, LevelTypes, RestTypes, ShadowTypes, QueueFits
  <1>14. \A y \in Ops : y[1] # r =>
           /\ op'[y] = op[y] /\ hook'[y] = hook[y] /\ cr'[y] = cr[y]
           /\ post'[y] = post[y] /\ cont'[y] = cont[y] /\ Place(y)' = Place(y)
    BY <1>3, PlaceStays
  <1> DEFINE q == req[r]
  <1>15. /\ req' = [req EXCEPT ![r] = q] /\ q \in ReqRecords /\ q \in Requests[r] \cup {NoReq}
         /\ b.pc # "new" /\ (b.pc \in Down \cup {"up"} => b.k \in Levels)
         /\ \A y \in Ops : y[1] = r =>
               Level(y[2], q, b, op'[y], hook'[y], cr'[y], post'[y], cont'[y], Place(y)')
    BY <1>8, <1>9, <1>10
  <1> HIDE DEF q
  <1> QED
    BY <1>8, <1>11, <1>12, <1>13, <1>14, <1>15, RequestMoves

LEMMA HadHisTimeOnStackStep ==
  ASSUME OInv, NEW r \in Irps, HadHisTimeOnStack(r)
  PROVE  OInv'
  <1>1. PICK f : f = seen[r]
    OBVIOUS
  <1>2. PICK x : x = <<r, f[1]>>
    OBVIOUS
  <1> DEFINE s == [op[x] EXCEPT !.flags = f[2] \union {"OnStack"}]
  <1>3. /\ at[r].pc = "mark" /\ at[r].pc \in Down /\ PassDown(r)
        /\ op' = [op EXCEPT ![x] = s]
        /\ torn' = [torn EXCEPT ![r] = @ \/ op[x].flags # f[2]]
        /\ seen' = [seen EXCEPT ![r] = <<>>]
        /\ UNCHANGED <<req, hook, cr, post, event, pend, irql, queue, sh, ends, cont>>
    BY <1>1, <1>2 DEF HadHisTimeOnStack, At, Down
  <1>4. /\ f[1] \in Levels /\ f[2] \in SUBSET Flags /\ f[1] > at[r].k /\ hook[x] = "set" /\ ~NoObject(req[r])
        /\ f[2] \subseteq op[x].flags /\ (req[r].major = "write" /\ req[r].len = 1 => "Data" \in f[2])
    BY <1>1, <1>2, <1>3 DEF OInv, MarkFits, Seen
  <1>5. x \in Ops /\ x[1] = r /\ x[2] = f[1]
    BY <1>2, <1>4, Pairs
  <1>6. Level(x[2], req[r], at[r], op[x], hook[x], cr[x], post[x], cont[x], Place(x))
    BY <1>5, LevelIs DEF ThisLevel
  <1>7. /\ s \in OpRecords /\ s.refs = op[x].refs /\ s.mdl = op[x].mdl /\ s.flags = f[2] \cup {"OnStack"}
    <2>1. op[x] \in OpRecords
      BY <1>5, Others
    <2> QED
      BY <1>4, <2>1 DEF OpRecords, Flags
  <1> HIDE DEF s
  <1>8. PICK b \in Places : /\ at' = [at EXCEPT ![r] = b] /\ b.pc \in {"down", "lower"} /\ b.k < at[r].k
                            /\ (b.pc = "down" => b.k \in Levels)
    BY <1>3, PassDownIs
  <1>9. at[r].k \in Int /\ b.k \in Int /\ f[1] \in Int
    <2>1. at[r] \in Places
      BY RequestAt
    <2>2. at[r].k \in 0..Depth /\ b.k \in 0..Depth
      BY <2>1 DEF Places
    <2>3. f[1] \in Nat
      BY <1>4, LevelsAre
    <2> QED
      BY <2>2, <2>3
  <1>10. /\ at[r].pc # "created" /\ b.pc # "created" /\ b.pc \in Down \cup {"lower"} /\ b.k <= at[r].k
         /\ at[r].pc \in Going /\ at[r].k < x[2] /\ b.k < x[2]
    BY <1>3, <1>4, <1>5, <1>8, <1>9 DEF Down, Going
  <1>11. Level(x[2], req[r], b, s, hook[x], cr[x], post[x], cont[x], Place(x))
    <2>1. Level(x[2], req[r], at[r], op[x], "set", cr[x], post[x], cont[x], Place(x))
      BY <1>4, <1>6
    <2>2. Level(x[2], req[r], b, s, "set", cr[x], post[x], cont[x], Place(x))
      BY <1>4, <1>7, <1>10, <2>1, SeenFits
    <2> QED
      BY <1>4, <2>2
  <1>12. (\A y : Place(y)' = Place(y)) /\ ShadowTypes' /\ QueueFits'
    BY <1>3, PlaceStays DEF OInv, Types
  <1>13. op'[x] = s /\ op' \in [Ops -> OpRecords] /\ \A y \in Ops : y # x => op'[y] = op[y]
    BY <1>3, <1>5, <1>7, Others
  <1>14. ASSUME NEW y \in Ops, y[1] = r
         PROVE  Level(y[2], req[r], b, op'[y], hook'[y], cr'[y], post'[y], cont'[y], Place(y)')
    <2>1. ASSUME y = x
          PROVE  Level(y[2], req[r], b, op'[y], hook'[y], cr'[y], post'[y], cont'[y], Place(y)')
      BY <1>3, <1>11, <1>12, <1>13, <2>1
    <2>2. ASSUME y # x
          PROVE  Level(y[2], req[r], b, op'[y], hook'[y], cr'[y], post'[y], cont'[y], Place(y)')
      <3>1. Level(y[2], req[r], b, op[y], hook[y], cr[y], post[y], cont[y], Place(y))
        BY <1>3, <1>10, <1>14, OtherLevels
      <3> QED
        BY <1>3, <1>12, <1>13, <2>2, <3>1
    <2> QED
      BY <2>1, <2>2
  <1>15. /\ at'[r] = b /\ req[r] \in ReqRecords /\ req[r] \in Requests[r] \cup {NoReq}
         /\ req' = [req EXCEPT ![r] = req[r]]
    BY <1>3, <1>8, RequestAt
  <1>16. /\ \A y \in Irps : y # r => seen'[y] = seen[y]
         /\ seen' \in [Irps -> {<<>>} \cup (Levels \X SUBSET Flags)]
    BY <1>3 DEF OInv, Types, RequestTypes
  <1>17. MarkFits(r)'
    BY <1>8, <1>15 DEF MarkFits
  <1>18. LevelTypes' /\ RestTypes'
    <2>1. torn' \in [Irps -> BOOLEAN]
      BY <1>3, RestIs DEF RestTypes
    <2> QED
      BY <1>3, <1>13, <2>1, RestIs DEF OInv, Types, LevelTypes, RestTypes
  <1>19. \A y \in Ops : y[1] # r =>
           /\ op'[y] = op[y] /\ hook'[y] = hook[y] /\ cr'[y] = cr[y]
           /\ post'[y] = post[y] /\ cont'[y] = cont[y] /\ Place(y)' = Place(y)
    BY <1>3, <1>5, <1>12, <1>13
  <1> DEFINE q == req[r]
  <1>20. /\ req' = [req EXCEPT ![r] = q] /\ q \in ReqRecords /\ q \in Requests[r] \cup {NoReq}
         /\ b.pc # "new" /\ (b.pc \in Down \cup {"up"} => b.k \in Levels)
         /\ \A y \in Ops : y[1] = r =>
               Level(y[2], q, b, op'[y], hook'[y], cr'[y], post'[y], cont'[y], Place(y)')
    BY <1>8, <1>14, <1>15 DEF Down
  <1> HIDE DEF q
  <1> QED
    BY <1>8, <1>12, <1>16, <1>17, <1>18, <1>19, <1>20, RequestMoves

-----------------------------------------------------------------------------
(* The completion is continued                                                *)

\* The completion of a request goes on from the level of x to b: what changes is
\* the routine of the next level, and the level of x itself.
LEMMA GoesOn ==
  ASSUME OInv, NEW x \in Ops, NEW r \in Irps, r = x[1], Completes(x[2], at[r]),
         NEW b, Reaches(r, x[2], b, hook), at' = [at EXCEPT ![r] = b],
         UNCHANGED <<req, op, post, event, pend, seen, queue, ends, torn>>,
         irql' \in [Irps -> {"passive", "dispatch"}], ShadowTypes', QueueFits',
         hook' \in [Ops -> Hooks], cr' \in [Ops -> Routines], cont' \in [Ops -> Nat],
         \A y \in Ops : y # x => /\ hook'[y] = hook[y] /\ cont'[y] = cont[y] /\ Place(y)' = Place(y)
                                 /\ cr'[y] = IF Started(r, b, y) THEN "start" ELSE cr[y],
         Level(x[2], req[r], b, op[x], hook'[x], cr'[x], post[x], cont'[x], Place(x)')
  PROVE  OInv'
  <1>1. /\ b \in Places /\ b.pc \notin {"new", "mark"} /\ (b.pc \in Down \cup {"up"} => b.k \in Levels)
        /\ at[r] \in Places /\ at[r].pc = "up" /\ at[r].k = x[2]
    BY RequestAt DEF Reaches, Down, Completes
  <1>2. x = <<r, x[2]>> /\ x[2] \in Levels /\ x[2] \in 0..Depth
    BY Pairs, LevelsAre
  <1>3. ASSUME NEW y \in Ops, y[1] = r
        PROVE  Level(y[2], req[r], b, op'[y], hook'[y], cr'[y], post'[y], cont'[y], Place(y)')
    <2>1. ASSUME y = x
          PROVE  Level(y[2], req[r], b, op'[y], hook'[y], cr'[y], post'[y], cont'[y], Place(y)')
      BY <2>1
    <2>2. ASSUME y # x
          PROVE  Level(y[2], req[r], b, op'[y], hook'[y], cr'[y], post'[y], cont'[y], Place(y)')
      <3>1. y = <<r, y[2]>> /\ y[2] \in Levels /\ y[2] # x[2]
        BY <1>2, <1>3, <2>2, Pairs
      <3>2. Level(y[2], req[r], at[r], op[y], hook[y], cr[y], post[y], cont[y], Place(y))
        BY <1>3, LevelIs DEF ThisLevel
      <3>3. cr'[y] = IF b.pc = "up" /\ y[2] = b.k THEN "start" ELSE cr[y]
        BY <2>2, <3>1 DEF Started
      <3> DEFINE k == y[2]
                 k0 == x[2]
                 a == at[r]
                 h == hook[y]
                 q == req[r]
                 p == op[y]
                 c == cr[y]
                 d == cr'[y]
                 w == post[y]
                 n == cont[y]
                 t == Place(y)
                 hooks == hook
      <3>4. /\ k \in Levels /\ h = hooks[<<r, k>>] /\ Reaches(r, k0, b, hooks)
            /\ Level(k, q, a, p, h, c, w, n, t) /\ d = IF b.pc = "up" /\ k = b.k THEN "start" ELSE c
            /\ a.pc = "up" /\ a.k = k0 /\ k # k0 /\ a \in Places /\ k0 \in 0..Depth
        BY <1>1, <1>2, <3>1, <3>2, <3>3
      <3> HIDE DEF k, k0, a, h, hooks, q, p, c, d, w, n, t
      <3>5. Level(k, q, b, p, h, d, w, n, t)
        BY <3>4, LevelRises
      <3> QED
        BY <2>2, <3>5 DEF k, h, q, p, d, w, n, t
    <2> QED
      BY <2>1, <2>2
  <1>4. /\ at'[r] = b /\ req[r] \in ReqRecords /\ req[r] \in Requests[r] \cup {NoReq}
        /\ req' = [req EXCEPT ![r] = req[r]]
    BY RequestAt
  <1>5. seen' \in [Irps -> {<<>>} \cup (Levels \X SUBSET Flags)]
    BY DEF OInv, Types, RequestTypes
  <1>6. MarkFits(r)'
    BY <1>1, <1>4 DEF MarkFits
  <1>7. LevelTypes' /\ RestTypes'
    BY RestIs DEF OInv, Types, LevelTypes, RestTypes
  <1>8. ASSUME NEW y \in Ops, y[1] # r
        PROVE  /\ op'[y] = op[y] /\ hook'[y] = hook[y] /\ cr'[y] = cr[y]
               /\ post'[y] = post[y] /\ cont'[y] = cont[y] /\ Place(y)' = Place(y)
    <2>1. y # x /\ ~Started(r, b, y)
      BY <1>1, <1>8, Pairs DEF Started
    <2> QED
      BY <2>1
  <1> DEFINE q == req[r]
  <1>9. /\ req' = [req EXCEPT ![r] = q] /\ q \in ReqRecords /\ q \in Requests[r] \cup {NoReq}
        /\ b.pc # "new" /\ b \in Places /\ (b.pc \in Down \cup {"up"} => b.k \in Levels)
        /\ \A y \in Irps : y # r => seen'[y] = seen[y]
        /\ \A y \in Ops : y[1] = r =>
              Level(y[2], q, b, op'[y], hook'[y], cr'[y], post'[y], cont'[y], Place(y)')
    BY <1>1, <1>3, <1>4
  <1> HIDE DEF q
  <1> QED
    BY <1>5, <1>6, <1>7, <1>8, <1>9, RequestMoves


LEMMA ContinueCompletionStep ==
  ASSUME OInv, NEW o \in Ops, ContinueCompletion(o)
  PROVE  OInv'
  <1>1. PICK r : r = o[1]
    OBVIOUS
  <1> DEFINE above == {j \in Levels : j > o[2] /\ hook[<<o[1], j>>] = "set"}
             next  == CHOOSE j \in above : \A i \in above : j <= i
  <1>2. /\ r \in Irps /\ o[2] \in Levels /\ o[2] \in 0..Depth /\ o = <<r, o[2]>>
    BY <1>1, Pairs, LevelsAre
  <1>3. /\ cr[o] = "finish" /\ post[o] = "no"
        /\ hook' = [hook EXCEPT ![o] = "freed"] /\ cont' = [cont EXCEPT ![o] = @ + 1]
        /\ UNCHANGED <<req, op, post, event, pend, irql, seen, queue, sh, ends, torn>>
        /\ above = {} => /\ at' = [at EXCEPT ![r] = [pc |-> "done", k |-> Depth]]
                         /\ cr' = [cr EXCEPT ![o] = "end"]
        /\ above # {} => /\ at' = [at EXCEPT ![r] = [pc |-> "up", k |-> next]]
                         /\ cr' = [cr EXCEPT ![o] = "end", ![<<r, next>>] = "start"]
    BY <1>1 DEF ContinueCompletion, Go
  <1>4. /\ above = {} => Reaches(r, o[2], [pc |-> "done", k |-> Depth], hook)
        /\ above # {} => next \in Levels /\ Reaches(r, o[2], [pc |-> "up", k |-> next], hook)
    <2>1. ASSUME above = {}
          PROVE  Reaches(r, o[2], [pc |-> "done", k |-> Depth], hook)
      <3>1. \A j \in Levels : ~(j > o[2] /\ hook[<<r, j>>] = "set")
        BY <1>1, <2>1
      <3> QED
        BY <1>2, <3>1, EndIsNext
    <2>2. ASSUME above # {}
          PROVE  next \in Levels /\ Reaches(r, o[2], [pc |-> "up", k |-> next], hook)
      <3>1. above \subseteq Levels
        OBVIOUS
      <3>2. next \in above /\ \A i \in above : next <= i
        BY <2>2, <3>1, Lowest
      <3>3. next \in Levels /\ next > o[2] /\ hook[<<r, next>>] = "set"
        BY <1>1, <3>2
      <3>4. \A j \in Levels : j > o[2] /\ hook[<<r, j>>] = "set" => next <= j
        BY <1>1, <3>2
      <3> HIDE DEF next, above
      <3> QED
        BY <1>2, <3>3, <3>4, LowestIsNext
    <2> QED
      BY <2>1, <2>2
  <1> HIDE DEF above, next
  <1>5. cr \in [Ops -> Routines] /\ hook \in [Ops -> Hooks] /\ cont \in [Ops -> Nat]
    BY DEF OInv, Types, LevelTypes
  <1>6. {"end", "start"} \subseteq Routines /\ "freed" \in Hooks
    BY DEF Routines, Active, Owning, Hooks
  <1>7. /\ hook' \in [Ops -> Hooks] /\ cont' \in [Ops -> Nat] /\ hook'[o] = "freed" /\ cont'[o] = cont[o] + 1
        /\ \A y \in Ops : y # o => hook'[y] = hook[y] /\ cont'[y] = cont[y]
    BY <1>3, <1>5, <1>6
  <1>8. \E b \in Places :
           /\ Reaches(r, o[2], b, hook) /\ at' = [at EXCEPT ![r] = b]
           /\ cr' \in [Ops -> Routines] /\ cr'[o] = "end"
           /\ \A y \in Ops : y # o => cr'[y] = IF Started(r, b, y) THEN "start" ELSE cr[y]
    <2>1. ASSUME above = {}
          PROVE  \E b \in Places :
                   /\ Reaches(r, o[2], b, hook) /\ at' = [at EXCEPT ![r] = b]
                   /\ cr' \in [Ops -> Routines] /\ cr'[o] = "end"
                   /\ \A y \in Ops : y # o => cr'[y] = IF Started(r, b, y) THEN "start" ELSE cr[y]
      <3> DEFINE b == [pc |-> "done", k |-> Depth]
      <3>1. b.pc # "up" /\ Reaches(r, o[2], b, hook) /\ at' = [at EXCEPT ![r] = b]
        BY <1>3, <1>4, <2>1
      <3> HIDE DEF b
      <3>2. b \in Places /\ \A y : ~Started(r, b, y)
        BY <3>1 DEF Reaches, Started
      <3>3. cr' \in [Ops -> Routines] /\ cr'[o] = "end" /\ \A y \in Ops : y # o => cr'[y] = cr[y]
        BY <1>3, <1>5, <1>6, <2>1
      <3> QED
        BY <3>1, <3>2, <3>3
    <2>2. ASSUME above # {}
          PROVE  \E b \in Places :
                   /\ Reaches(r, o[2], b, hook) /\ at' = [at EXCEPT ![r] = b]
                   /\ cr' \in [Ops -> Routines] /\ cr'[o] = "end"
                   /\ \A y \in Ops : y # o => cr'[y] = IF Started(r, b, y) THEN "start" ELSE cr[y]
      <3> DEFINE b == [pc |-> "up", k |-> next]
      <3>1. b.pc = "up" /\ b.k = next /\ Reaches(r, o[2], b, hook) /\ at' = [at EXCEPT ![r] = b]
        BY <1>3, <1>4, <2>2
      <3> HIDE DEF b
      <3>2. b \in Places /\ next > o[2] /\ next \in Levels
        BY <1>4, <2>2, <3>1 DEF Reaches
      <3>3. PICK z : z = <<r, next>>
        OBVIOUS
      <3>4. z \in Ops /\ z # o
        BY <1>2, <3>2, <3>3, LevelsAre, Pairs
      <3>5. cr' = [cr EXCEPT ![o] = "end", ![z] = "start"]
        BY <1>3, <2>2, <3>3
      <3>6. /\ cr' \in [Ops -> Routines] /\ cr'[o] = "end"
            /\ \A y \in Ops : y # o => cr'[y] = IF y = z THEN "start" ELSE cr[y]
        BY <1>5, <1>6, <3>4, <3>5
      <3>7. \A y : Started(r, b, y) <=> y = z
        BY <3>1, <3>3 DEF Started
      <3> QED
        BY <3>1, <3>2, <3>6, <3>7
    <2> QED
      BY <2>1, <2>2
  <1>9. PICK b \in Places :
           /\ Reaches(r, o[2], b, hook) /\ at' = [at EXCEPT ![r] = b]
           /\ cr' \in [Ops -> Routines] /\ cr'[o] = "end"
           /\ \A y \in Ops : y # o => cr'[y] = IF Started(r, b, y) THEN "start" ELSE cr[y]
    BY <1>8
  <1>10. Level(o[2], req[r], at[r], op[o], hook[o], "finish", "no", cont[o], Place(o))
    BY <1>1, <1>3, LevelIs DEF ThisLevel
  <1>11. Completes(o[2], at[r])
    BY <1>10 DEF Level, LevelFits, RoutineFits, Active
  <1>12. Passed(o[2], b)
    BY <1>9 DEF Reaches, Passed
  <1>13. Level(o[2], req[r], b, op[o], "freed", "end", "no", cont[o] + 1, Place(o))
    BY <1>9, <1>10, <1>12, ContinuedFits
  <1>14. (\A y : Place(y)' = Place(y)) /\ ShadowTypes' /\ QueueFits'
    BY <1>3, PlaceStays DEF OInv, Types
  <1>15. Level(o[2], req[r], b, op[o], hook'[o], cr'[o], post[o], cont'[o], Place(o)')
    BY <1>3, <1>7, <1>9, <1>13, <1>14
  <1>16. irql' \in [Irps -> {"passive", "dispatch"}]
    BY <1>3, RestIs DEF RestTypes
  <1>17. \A y \in Ops : y # o => /\ hook'[y] = hook[y] /\ cont'[y] = cont[y] /\ Place(y)' = Place(y)
                                /\ cr'[y] = IF Started(r, b, y) THEN "start" ELSE cr[y]
    BY <1>7, <1>9, <1>14
  <1> QED
    BY <1>1, <1>2, <1>3, <1>7, <1>9, <1>11, <1>14, <1>15, <1>16, <1>17, GoesOn

LEMMA ContinuePendedCompletionStep ==
  ASSUME OInv, ContinuePendedCompletion
  PROVE  OInv'
  <1>1. PICK o : o = sh.op
    OBVIOUS
  <1>2. PICK r : r = o[1]
    OBVIOUS
  <1>3. /\ sh.pc = "continue" /\ cont' = [cont EXCEPT ![o] = @ + 1] /\ irql' = [irql EXCEPT ![r] = "passive"]
        /\ GoUp(r, o[2], hook) /\ Shadow("completing")
        /\ UNCHANGED <<req, op, hook, post, event, pend, seen, queue, ends, torn>>
    BY <1>1, <1>2 DEF ContinuePendedCompletion
  <1>4. /\ o \in Ops
        /\ Level(o[2], req[r], at[r], op[o], hook[o], cr[o], post[o], cont[o], "continue")
    BY <1>1, <1>2, <1>3, ShadowIs
  <1>5. r \in Irps /\ o[2] \in Levels /\ o[2] \in 0..Depth /\ o = <<r, o[2]>>
    BY <1>2, <1>4, Pairs, LevelsAre
  <1>6. PICK b \in Places : /\ Reaches(r, o[2], b, hook) /\ at' = [at EXCEPT ![r] = b]
                            /\ cr' \in [Ops -> Routines]
                            /\ \A y \in Ops : cr'[y] = IF Started(r, b, y) THEN "start" ELSE cr[y]
    BY <1>3, <1>5, GoUpRises
  <1>7. Passed(o[2], b)
    BY <1>6 DEF Reaches, Passed
  <1>8. /\ Completes(o[2], at[r])
        /\ Level(o[2], req[r], b, op[o], hook[o], cr[o], post[o], cont[o] + 1, "completing")
    BY <1>4, <1>7, PendedFits
  <1>9. ~Started(r, b, o)
    <2>1. b.pc = "up" => b.k > o[2]
      BY <1>6 DEF Reaches
    <2>2. o[2] \in Nat
      BY <1>5, LevelsAre
    <2>3. b.pc = "up" => b.k # o[2]
      BY <2>1, <2>2
    <2> QED
      BY <1>5, <2>3 DEF Started
  <1>10. /\ Place(o)' = "completing" /\ (\A x : x # o => Place(x)' = Place(x))
         /\ QueueFits' /\ ShadowTypes'
    BY <1>1, <1>3, ShadowAdvances DEF OInv, Types, Shadows
  <1>11. /\ cont' \in [Ops -> Nat] /\ cont'[o] = cont[o] + 1 /\ \A y \in Ops : y # o => cont'[y] = cont[y]
         /\ hook' \in [Ops -> Hooks] /\ hook' = hook
    BY <1>3, <1>4 DEF OInv, Types, LevelTypes
  <1>12. cr'[o] = cr[o]
    BY <1>4, <1>6, <1>9
  <1>13. Level(o[2], req[r], b, op[o], hook'[o], cr'[o], post[o], cont'[o], Place(o)')
    BY <1>8, <1>10, <1>11, <1>12
  <1>14. irql' \in [Irps -> {"passive", "dispatch"}]
    BY <1>3, RestIs DEF RestTypes
  <1>15. \A y \in Ops : y # o => /\ hook'[y] = hook[y] /\ cont'[y] = cont[y] /\ Place(y)' = Place(y)
                                /\ cr'[y] = IF Started(r, b, y) THEN "start" ELSE cr[y]
    BY <1>6, <1>10, <1>11
  <1> QED
    BY <1>2, <1>3, <1>4, <1>5, <1>6, <1>8, <1>10, <1>11, <1>13, <1>14, <1>15, GoesOn

-----------------------------------------------------------------------------
(* The invariant and what follows from it                                     *)

LEMMA OInvInit == Init => OInv
  <1> SUFFICES ASSUME Init PROVE OInv
    OBVIOUS
  <1>1. RequestTypes
    BY OperationsAssumption DEF Init, RequestTypes, NoReq, ReqRecords, Stages, Down
  <1>2. LevelTypes /\ ShadowTypes
    BY DereferencedIs DEF Init, LevelTypes, ShadowTypes, NoOp, OpRecords, Mdls, Hooks, Routines
  <1>3. Len(queue) = 0 /\ sh.pc = "idle"
    BY DEF Init, Idle
  <1>4. QueueFits
    BY <1>3 DEF QueueFits
  <1>5. ASSUME NEW o \in Ops
        PROVE  Fits(o)
    <2>1. Place(o) = "none"
      BY <1>3 DEF Place
    <2>2. o[1] \in Irps
      BY Pairs
    <2>3. /\ at[o[1]].pc = "new" /\ op[o] = NoOp /\ hook[o] = "none" /\ cr[o] = "idle" /\ post[o] = "no"
          /\ cont[o] = 0
      BY <2>2 DEF Init
    <2> QED
      BY <2>1, <2>3 DEF Fits, LevelFits, RoutineFits, ObjectFits, FlagsFit, DataFits, Owned, NoOp,
                        Passed, Completes, Going, Down, Active, Owning, NoObject, Copyable
  <1>6. ASSUME NEW r \in Irps
        PROVE  MarkFits(r)
    BY DEF Init, MarkFits
  <1> QED
    BY <1>1, <1>2, <1>4, <1>5, <1>6 DEF OInv, Types

LEMMA OInvNext == OInv /\ RereadsFit /\ [Next]_vars => OInv'
  <1> SUFFICES ASSUME OInv, RereadsFit, [Next]_vars
               PROVE  OInv'
    OBVIOUS
  <1>1. ASSUME NEW r \in Irps, Arrive(r) \/ Descend(r)
        PROVE  OInv'
    BY <1>1, ArriveStep, IsRequestInDeviceQueueStep, HadHisTimeOnStackStep, NotTrackedStep,
       CreateOperationObjectForDeviceStep, OperationRefusedStep, HookRefusedStep, ProcessRequestWoResultStep,
       RequestProcessingErrorStep, FsmfPreOperationStep, FsmfPreOperationNoCallbackStep,
       FsmfPreOperationCompleteStep, ProcessFsdIrpRequestToHookedDriverStep, FsdHookRefusedStep,
       LowerDriverCompletesStep DEF Descend
  <1>2. ASSUME NEW o \in Ops, Ascend(o)
        PROVE  OInv'
    BY <1>2, IrpCompletionRoutineStep, ShadowProcessOperationBuffersForDeviceStep, BuffersCopiedStep,
       ShadowCopingInPrivateBuffersCompletedStep, ReadIsShadowedStep, FsmfPostOperationStep,
       FsmfPostOperationMarksStep, BuffersForFsdTestStep, ShadowProcessOperationBuffersForFsdStep, UnlockAndFreeMdlForOperationStep,
       DeleteOperationObjectStep, ContinueCompletionStep, ShadowCompleteDeviceRequestStep DEF Ascend
  <1>3. ASSUME ShadowThread
        PROVE  OInv'
    BY <1>3, ShadowWriterWRStep, ShadowingInProgressStep, ShadowThreadCopiesStep, ShadowThreadAwaitsCopyStep,
       ContinuePendedCompletionStep, FreeCompletionContextStep, ShadowThreadDereferencesStep DEF ShadowThread
  <1>4. ASSUME UNCHANGED vars
        PROVE  OInv'
    <2>1. /\ UNCHANGED <<req, at, op, hook, cr, post, event, pend, irql, seen, queue, sh, ends, cont, torn>>
      BY <1>4 DEF vars
    <2>2. \A x : Place(x)' = Place(x)
      BY <2>1, PlaceStays
    <2> QED
      BY <2>1, <2>2 DEF OInv, Types, RequestTypes, LevelTypes, ShadowTypes, QueueFits, Fits, MarkFits, Seen
  <1> QED
    BY <1>1, <1>2, <1>3, <1>4 DEF Next

\* A post operation that has read the flags is left alone until it writes them
\* back: flags are added to the word in between, and none is taken away.
RereadStays(o) ==
  cr'[o] = "mark" => /\ cr[o] = "mark" /\ seen'[o[1]] = seen[o[1]] /\ req'[o[1]] = req[o[1]]
                     /\ op[o].flags \subseteq op'[o].flags

LEMMA RereadsStay ==
  ASSUME RereadsFit, \A o \in Ops : RereadStays(o)
  PROVE  RereadsFit'
  <1> SUFFICES ASSUME NEW o \in Ops, cr'[o] = "mark"
               PROVE  Reread(o)'
    BY DEF RereadsFit
  <1>1. /\ seen'[o[1]] = seen[o[1]] /\ req'[o[1]] = req[o[1]] /\ op[o].flags \subseteq op'[o].flags
        /\ Reread(o)
    BY DEF RereadStays, RereadsFit
  <1> QED
    BY <1>1 DEF Reread

\* It is at the level at which its request is completed.
LEMMA RereadIs ==
  ASSUME OInv, NEW o \in Ops, cr[o] = "mark"
  PROVE  /\ at[o[1]].pc = "up" /\ at[o[1]].k = o[2]
         /\ req[o[1]].path # "device" /\ req[o[1]].major # "create"
         /\ op[o].refs = 1 + (IF Place(o) # "none" THEN 1 ELSE 0)
  <1>1. Level(o[2], req[o[1]], at[o[1]], op[o], hook[o], "mark", post[o], cont[o], Place(o))
    BY LevelIs DEF ThisLevel
  <1> QED
    BY <1>1, MarkingIs

\* The other requests' objects are left alone by a step on the way down.
LEMMA OthersKept ==
  ASSUME OInv, NEW r \in Irps, Arrive(r) \/ Descend(r), NEW o \in Ops, o[1] # r
  PROVE  op'[o] = op[o] /\ seen'[o[1]] = seen[o[1]] /\ req'[o[1]] = req[o[1]]
  <1> USE DEF Arrive, Descend, IsRequestInDeviceQueue, HadHisTimeOnStack, NotTracked,
       CreateOperationObjectForDevice, OperationRefused, HookRefused, ProcessRequestWoResult,
       RequestProcessingError, FsmfPreOperation, FsmfPreOperationNoCallback, FsmfPreOperationComplete,
       ProcessFsdIrpRequestToHookedDriver, FsdHookRefused, LowerDriverCompletes
  <1>1. req' = req \/ \E q : req' = [req EXCEPT ![r] = q]
    OBVIOUS
  <1>2. seen' = seen \/ \E v : seen' = [seen EXCEPT ![r] = v]
    OBVIOUS
  <1>3. op' = op \/ \E k, p : op' = [op EXCEPT ![<<r, k>>] = p]
    <2>1. CASE HadHisTimeOnStack(r)
      BY <2>1
    <2>2. CASE ProcessRequestWoResult(r) \/ FsmfPreOperation(r)
      <3>1. \A p : ShadowRequest(Here(r), p) => op' = [op EXCEPT ![<<r, at[r].k>>] = SentTo(p)]
        BY ONLY DEF ShadowRequest, Here, SentTo
      <3>2. CASE ProcessRequestWoResult(r)
        BY <3>1, <3>2
      <3>3. CASE FsmfPreOperation(r)
        <4>1. \/ op' = op \/ \E p : ShadowRequest(Here(r), p)
              \/ op' = [op EXCEPT ![<<r, at[r].k>>] = NewOperation(r)]
          BY <3>3 DEF Here, Tracked
        <4> QED
          BY <3>1, <4>1
      <3> QED
        BY <2>2, <3>2, <3>3
    <2>3. CASE CreateOperationObjectForDevice(r) \/ HookRefused(r) \/ RequestProcessingError(r)
      BY <2>3 DEF Here
    <2> QED
      BY <2>1, <2>2, <2>3
  <1>4. /\ op \in [Ops -> OpRecords] /\ req \in [Irps -> ReqRecords] /\ o[1] \in Irps
        /\ seen \in [Irps -> {<<>>} \cup (Levels \X SUBSET Flags)]
    BY Pairs DEF OInv, Types, RequestTypes, LevelTypes
  <1>5. \A k : o # <<r, k>>
    OBVIOUS
  <1> QED
    BY ONLY <1>1, <1>2, <1>3, <1>4, <1>5, o \in Ops, o[1] # r, r \in Irps

LEMMA NobodyMarks ==
  ASSUME OInv, NEW r \in Irps, NEW k \in 0..Depth, NEW hooks, GoUp(r, k, hooks), NEW o \in Ops,
         cr'[o] = "mark"
  PROVE  cr[o] = "mark"
  <1>1. PICK b \in Places : \A x \in Ops : cr'[x] = IF Started(r, b, x) THEN "start" ELSE cr[x]
    BY GoUpRises
  <1> QED
    BY <1>1

\* A step on the way down: no post operation of the request is there yet.
LEMMA RereadDescends ==
  ASSUME OInv, NEW r \in Irps, Arrive(r) \/ Descend(r), NEW o \in Ops
  PROVE  RereadStays(o)
  <1> SUFFICES ASSUME cr'[o] = "mark"
               PROVE  /\ cr[o] = "mark" /\ seen'[o[1]] = seen[o[1]] /\ req'[o[1]] = req[o[1]]
                      /\ op[o].flags \subseteq op'[o].flags
    BY DEF RereadStays
  <1>1. at[r].pc # "up" /\ (at[r].pc \in Down \/ at[r].pc \in {"new", "lower"})
    BY DEF Arrive, Descend, At, IsRequestInDeviceQueue, HadHisTimeOnStack, NotTracked,
       CreateOperationObjectForDevice, OperationRefused, HookRefused, ProcessRequestWoResult,
       RequestProcessingError, FsmfPreOperation, FsmfPreOperationNoCallback, FsmfPreOperationComplete,
       ProcessFsdIrpRequestToHookedDriver, FsdHookRefused, LowerDriverCompletes, Down
  <1>2. cr[o] = "mark"
    <2>1. ASSUME NEW k \in 0..Depth, Complete(r, k, hook) \/ Complete(r, k, hook')
          PROVE  cr[o] = "mark"
      BY <2>1, NobodyMarks DEF Complete
    <2>2. /\ at[r].k \in 0..Depth /\ 0 \in 0..Depth /\ 2 \in 0..Depth
          /\ At(r, "created") => at[r].k - 1 \in 0..Depth
      BY RequestAt, LevelsAre DEF Places, At, Down
    <2>3. ASSUME OperationRefused(r) \/ LowerDriverCompletes(r)
          PROVE  cr[o] = "mark"
      BY <2>1, <2>2, <2>3 DEF OperationRefused, LowerDriverCompletes
    <2>4. ASSUME HookRefused(r) \/ FsmfPreOperationComplete(r)
          PROVE  cr[o] = "mark"
      BY <2>1, <2>2, <2>4 DEF HookRefused, FsmfPreOperationComplete
    <2>5. ASSUME RequestProcessingError(r) \/ FsdHookRefused(r)
          PROVE  cr[o] = "mark"
      BY <2>1, <2>2, <2>5 DEF RequestProcessingError, FsdHookRefused
    <2>6. ASSUME UNCHANGED cr
          PROVE  cr[o] = "mark"
      BY <2>6
    <2>7. \/ UNCHANGED cr \/ OperationRefused(r) \/ LowerDriverCompletes(r) \/ HookRefused(r)
          \/ FsmfPreOperationComplete(r) \/ RequestProcessingError(r) \/ FsdHookRefused(r)
      BY DEF Arrive, Descend, IsRequestInDeviceQueue, HadHisTimeOnStack, NotTracked,
         CreateOperationObjectForDevice, ProcessRequestWoResult, FsmfPreOperation,
         FsmfPreOperationNoCallback, ProcessFsdIrpRequestToHookedDriver
    <2> QED
      BY <2>3, <2>4, <2>5, <2>6, <2>7
  <1>3. o[1] # r
    BY <1>1, <1>2, RereadIs
  <1> QED
    BY <1>2, <1>3, OthersKept

LEMMA RereadAscends ==
  ASSUME OInv, RereadsFit, NEW o \in Ops, Ascend(o)
  PROVE  RereadsFit'
  <1>1. /\ op \in [Ops -> OpRecords] /\ cr \in [Ops -> Routines] /\ o[1] \in Irps /\ o[2] \in Levels
        /\ seen \in [Irps -> {<<>>} \cup (Levels \X SUBSET Flags)]
    BY Pairs DEF OInv, Types, RequestTypes, LevelTypes
  <1>2. /\ UNCHANGED req /\ (op' = op \/ \E p : op' = [op EXCEPT ![o] = p])
        /\ seen' = seen \/ \E v : seen' = [seen EXCEPT ![o[1]] = v]
        /\ \E c : cr' = [cr EXCEPT ![o] = c] \/ \E k : cr' = [cr EXCEPT ![o] = c, ![<<o[1], k>>] = "start"]
    BY DEF Ascend, IrpCompletionRoutine, ShadowProcessOperationBuffersForDevice, BuffersCopied,
       ShadowCopingInPrivateBuffersCompleted, ReadIsShadowed, FsmfPostOperation, FsmfPostOperationMarks,
       BuffersForFsdTest, ShadowProcessOperationBuffersForFsd, UnlockAndFreeMdlForOperation,
       DeleteOperationObject, ContinueCompletion, ShadowCompleteDeviceRequest, ShadowRequest, Go
  <1>3. ASSUME NEW x \in Ops, x # o, cr'[x] = "mark"
        PROVE  Reread(x)'
    <2>1. cr[x] = "mark" /\ op'[x] = op[x] /\ x[1] \in Irps
      BY <1>1, <1>2, <1>3, Pairs
    <2>2. ASSUME seen' # seen, x[1] = o[1]
          PROVE  FALSE
      <3>1. cr[o] \in {"start", "mark"}
        BY <2>2 DEF Ascend, IrpCompletionRoutine, ShadowProcessOperationBuffersForDevice, BuffersCopied,
           ShadowCopingInPrivateBuffersCompleted, ReadIsShadowed, FsmfPostOperation, FsmfPostOperationMarks,
           BuffersForFsdTest, ShadowProcessOperationBuffersForFsd, UnlockAndFreeMdlForOperation,
           DeleteOperationObject, ContinueCompletion, ShadowCompleteDeviceRequest
      <3>2. Level(o[2], req[o[1]], at[o[1]], op[o], hook[o], cr[o], post[o], cont[o], Place(o))
        BY LevelIs DEF ThisLevel
      <3>3. at[o[1]].k = o[2] /\ at[x[1]].k = x[2]
        BY <2>1, <3>1, <3>2, StartingIs, RereadIs
      <3> QED
        BY <1>3, <2>2, <3>3, Pairs
    <2>3. Reread(x) /\ seen'[x[1]] = seen[x[1]]
      BY <1>1, <1>2, <2>1, <2>2 DEF RereadsFit
    <2> QED
      BY <1>2, <2>1, <2>3 DEF Reread
  <1>4. ASSUME cr'[o] = "mark"
        PROVE  Reread(o)'
    <2>1. FsmfPostOperation(o)
      BY <1>1, <1>4 DEF Ascend, IrpCompletionRoutine, ShadowProcessOperationBuffersForDevice, BuffersCopied,
         ShadowCopingInPrivateBuffersCompleted, ReadIsShadowed, FsmfPostOperationMarks,
         BuffersForFsdTest, ShadowProcessOperationBuffersForFsd, UnlockAndFreeMdlForOperation,
         DeleteOperationObject, ContinueCompletion, ShadowCompleteDeviceRequest, Go
    <2>2. /\ req[o[1]].major # "create" /\ op' = op /\ UNCHANGED <<req, at, hook, post, cont, queue, sh>>
          /\ seen' = [seen EXCEPT ![o[1]] = <<o[2], op[o].flags>>]
      BY <1>1, <1>4, <2>1 DEF FsmfPostOperation, Go
    <2>3. seen'[o[1]][2] = op[o].flags /\ op[o].flags \in SUBSET Flags
      BY <1>1, <2>2 DEF OpRecords
    <2>4. Level(o[2], req[o[1]], at[o[1]], op[o], hook[o], "mark", post[o], cont[o], Place(o))
      BY <2>1, <2>2, LevelIs, ReadFlagsFits DEF ThisLevel, FsmfPostOperation, IsDevice
    <2>5. req[o[1]].major = "write" /\ req[o[1]].len = 1 => "Data" \in op[o].flags
      BY <2>4, MarkingIs
    <2> QED
      BY <2>2, <2>3, <2>5 DEF Reread
  <1> QED
    BY <1>3, <1>4 DEF RereadsFit

\* The shadow thread adds flags, and keeps the object when it drops its reference.
LEMMA RereadShadows ==
  ASSUME OInv, ShadowThread, NEW o \in Ops
  PROVE  RereadStays(o)
  <1> SUFFICES ASSUME cr'[o] = "mark"
               PROVE  /\ cr[o] = "mark" /\ seen'[o[1]] = seen[o[1]] /\ req'[o[1]] = req[o[1]]
                      /\ op[o].flags \subseteq op'[o].flags
    BY DEF RereadStays
  <1>1. UNCHANGED <<req, seen>>
    BY DEF ShadowThread, ShadowWriterWR, ShadowingInProgress, ShadowThreadCopies, ShadowThreadAwaitsCopy,
       ContinuePendedCompletion, FreeCompletionContext, ShadowThreadDereferences
  <1>2. cr[o] = "mark"
    <2>1. ASSUME ContinuePendedCompletion
          PROVE  cr[o] = "mark"
      <3>1. PICK x : x = sh.op
        OBVIOUS
      <3>2. x \in Ops
        BY <2>1, <3>1, ShadowIs DEF ContinuePendedCompletion
      <3>3. x[1] \in Irps /\ x[2] \in 0..Depth
        BY <3>2, Pairs, LevelsAre
      <3>4. GoUp(x[1], x[2], hook)
        BY <2>1, <3>1 DEF ContinuePendedCompletion
      <3> QED
        BY <3>3, <3>4, NobodyMarks
    <2>2. ASSUME ~ContinuePendedCompletion
          PROVE  UNCHANGED cr
      BY <2>2 DEF ShadowThread, ShadowWriterWR, ShadowingInProgress, ShadowThreadCopies,
         ShadowThreadAwaitsCopy, FreeCompletionContext, ShadowThreadDereferences
    <2> QED
      BY <2>1, <2>2
  <1>3. op[o] \in OpRecords /\ op \in [Ops -> OpRecords]
    BY DEF OInv, Types, LevelTypes
  <1>4. ASSUME NEW x, NEW set, op' = [op EXCEPT ![x] = WithFlags(@, set)]
        PROVE  op[o].flags \subseteq op'[o].flags
    BY <1>3, <1>4 DEF WithFlags, OpRecords
  <1>5. ASSUME ShadowThreadDereferences
        PROVE  op[o].flags \subseteq op'[o].flags
    <2>1. PICK x : x = sh.op
      OBVIOUS
    <2>2. x \in Ops /\ Place(x) = "deref" /\ op' = [op EXCEPT ![x] = Dereferenced(op[x])]
      BY <1>5, <2>1, ShadowIs DEF ShadowThreadDereferences
    <2>3. o = x => op[o].refs = 2
      BY <1>2, <2>2, RereadIs
    <2> QED
      BY <1>3, <2>2, <2>3, DereferencedIs
  <1>6. op' = op \/ ShadowThreadDereferences \/ \E x, set : op' = [op EXCEPT ![x] = WithFlags(@, set)]
    BY DEF ShadowThread, ShadowWriterWR, ShadowingInProgress, ShadowThreadCopies, ShadowThreadAwaitsCopy,
       ContinuePendedCompletion, FreeCompletionContext
  <1> QED
    BY <1>1, <1>2, <1>4, <1>5, <1>6

LEMMA RereadsFitNext == OInv /\ RereadsFit /\ [Next]_vars => RereadsFit'
  <1> SUFFICES ASSUME OInv, RereadsFit, [Next]_vars
               PROVE  RereadsFit'
    OBVIOUS
  <1>1. ASSUME NEW r \in Irps, Arrive(r) \/ Descend(r)
        PROVE  RereadsFit'
    BY <1>1, RereadDescends, RereadsStay
  <1>2. ASSUME ShadowThread
        PROVE  RereadsFit'
    BY <1>2, RereadShadows, RereadsStay
  <1>3. ASSUME UNCHANGED vars
        PROVE  RereadsFit'
    BY <1>3, RereadsStay DEF vars, RereadStays
  <1> QED
    BY <1>1, <1>2, <1>3, RereadAscends DEF Next

LEMMA RereadsFitInit == Init => RereadsFit
  BY DEF Init, RereadsFit


\* The inductive invariant holds in every reachable state.
THEOREM Inductive == Spec => [](OInv /\ RereadsFit)
  <1>1. Init => OInv /\ RereadsFit
    BY OInvInit, RereadsFitInit
  <1>2. (OInv /\ RereadsFit) /\ [Next]_vars => (OInv /\ RereadsFit)'
    BY OInvNext, RereadsFitNext
  <1> QED
    BY <1>1, <1>2, PTL DEF Spec

\* A level that the completion has passed: nobody copies its data, and its pages
\* are unlocked.
LEMMA PassedIs ==
  ASSUME NEW k, NEW q, NEW a, NEW p, NEW h, NEW c, NEW w, NEW n, NEW t,
         Level(k, q, a, p, h, c, w, n, t)
  PROVE  /\ p.refs \in 0..2 /\ n <= 1
         /\ Passed(k, a) => c # "copying" /\ ~(t = "copying" /\ Copyable(q)) /\ p.mdl # "locked"
  BY LevelsAre DEF Level, LevelFits, RoutineFits, ObjectFits, FlagsFit, DataFits, Owned, Passed, Completes,
     Going, Down, Owning, Active, NoObject, Copyable, Routines, Hooks, Waits, OpRecords, Places, NoOp, Shadows

LEMMA InvariantHolds ==
  ASSUME OInv
  PROVE  OperationInvariant /\ PagesUnlockedAtCompletion /\ \A o \in Ops : cont[o] <= 1
  <1>1. ASSUME NEW o \in Ops
        PROVE  /\ op[o].refs \in 0..2 /\ cont[o] <= 1
               /\ Continued(o) => /\ cr[o] # "copying" /\ op[o].mdl # "locked"
                                  /\ ~(Place(o) = "copying" /\ Copyable(req[o[1]]))
    <2>1. Level(o[2], req[o[1]], at[o[1]], op[o], hook[o], cr[o], post[o], cont[o], Place(o))
      BY LevelIs DEF ThisLevel
    <2>2. Continued(o) => Passed(o[2], at[o[1]])
      <3>1. o[2] \in Nat /\ at[o[1]].k \in Nat
        BY Pairs, LevelsAre, RequestAt DEF Places
      <3> QED
        BY <3>1 DEF Continued, At, Passed
    <2> QED
      BY <2>1, <2>2, PassedIs
  <1>2. TypeOK
    <2>1. op \in [Ops -> [refs : 0..2, flags : SUBSET Flags, mdl : {"none", "caller", "locked"}]]
      <3>1. op \in [Ops -> OpRecords]
        BY DEF OInv, Types, LevelTypes
      <3>2. \A o \in Ops : op[o] \in [refs : 0..2, flags : SUBSET Flags, mdl : {"none", "caller", "locked"}]
        BY <1>1, <3>1 DEF OpRecords, Mdls
      <3> QED
        BY <3>1, <3>2
    <2>2. /\ \A r \in Irps : req[r] \in Requests[r] \union {NoReq}
          /\ \A r \in Irps : /\ at[r].pc \in {"new", "down", "mark", "created", "lower", "up", "done"}
                             /\ at[r].k \in 0..Depth
      BY RequestAt DEF Places, Stages
    <2>3. /\ hook \in [Ops -> {"none", "set", "pended", "freed"}]
          /\ cr \in [Ops -> {"idle", "start", "mark", "test", "lock", "copying", "copied", "body",
                             "unlock", "deref", "finish", "end"}]
      <3>1. Routines = {"idle", "start", "mark", "test", "lock", "copying", "copied", "body",
                        "unlock", "deref", "finish", "end"}
        BY DEF Routines, Active, Owning
      <3> QED
        BY <3>1 DEF OInv, Types, LevelTypes, Hooks
    <2>4. post \in [Ops -> {"no", "nowait", "wait"}] /\ event \in [Ops -> {"none", "waiting", "set"}]
      BY DEF OInv, Types, LevelTypes
    <2>5. /\ pend \in [Irps -> BOOLEAN] /\ irql \in [Irps -> {"passive", "dispatch"}] /\ torn \in [Irps -> BOOLEAN]
      BY DEF OInv, Types, RequestTypes
    <2>6. queue \in Seq(Ops) /\ sh.pc \in {"idle", "taken", "copying", "await", "continue", "completing", "deref"}
      BY DEF OInv, Types, ShadowTypes, Idle, Shadows
    <2> QED
      BY <2>1, <2>2, <2>3, <2>4, <2>5, <2>6 DEF TypeOK
  <1>3. BuffersOutliveCopies
    <2>1. ASSUME sh.pc = "copying", HasData(sh.op)
          PROVE  ~Continued(sh.op)
      <3>1. PICK o : o = sh.op
        OBVIOUS
      <3>2. o \in Ops /\ Place(o) = "copying"
        BY <2>1, <3>1, ShadowIs
      <3>3. Copyable(req[o[1]])
        BY <2>1, <3>1, Copies
      <3> QED
        BY <1>1, <3>1, <3>2, <3>3
    <2> QED
      BY <1>1, <2>1 DEF BuffersOutliveCopies
  <1>4. PagesUnlockedAtCompletion
    BY <1>1 DEF PagesUnlockedAtCompletion
  <1> QED
    BY <1>1, <1>2, <1>3, <1>4 DEF OperationInvariant

\* Whoever copies the data of a request, the shadow thread under the spin lock or
\* the completing thread outside it, does so before the completion of the request
\* is continued, and the references and flags of the operation objects stay well
\* formed (shadow.c:170-677, iomngr.c:1015-1160, fsminifilter.c:695-826).
THEOREM OperationsAreSafe == Spec => []OperationInvariant
  <1> QED
    BY Inductive, InvariantHolds, PTL

\* The pages the driver has locked for a read are unlocked before the completion
\* of the read is continued, on every path of the completion routine (operation.c).
THEOREM PagesAreUnlocked == Spec => []PagesUnlockedAtCompletion
  <1> QED
    BY Inductive, InvariantHolds, PTL

\* The completion of a request that has not been begun, or has been begun once.
EndsFit == \A r \in Irps : ends[r] <= 1 /\ (at[r].pc \in Going => ends[r] = 0)

\* What a step does to the number of times the completion was begun.
Counts(r) ==
  \/ ends'[r] = ends[r] /\ (at'[r].pc \in Going => at[r].pc \in Going)
  \/ ends'[r] = ends[r] + 1 /\ at[r].pc \in Going /\ at'[r].pc \notin Going

LEMMA EndsCount ==
  ASSUME OInv, EndsFit, \A r \in Irps : Counts(r)
  PROVE  EndsFit'
  <1>1. \A r \in Irps : ends[r] \in Nat
    BY DEF OInv, Types, RequestTypes
  <1> QED
    BY <1>1 DEF EndsFit, Counts

\* Nothing is begun by a step that leaves the request where it is, or moves it on.
LEMMA GoingUp ==
  ASSUME OInv, NEW r \in Irps, NEW k \in 0..Depth, NEW hooks, GoUp(r, k, hooks)
  PROVE  /\ at'[r].pc \notin Going /\ \A x \in Irps : x # r => at'[x] = at[x]
  <1>1. PICK b \in Places : Reaches(r, k, b, hooks) /\ at' = [at EXCEPT ![r] = b]
    BY GoUpRises
  <1> QED
    BY <1>1 DEF Reaches, Going, Down, OInv, Types, RequestTypes

LEMMA BegunOnce ==
  ASSUME OInv, NEW r \in Irps, NEW k \in 0..Depth, at[r].pc \in Going, Complete(r, k, hook) \/ Complete(r, k, hook')
  PROVE  \A x \in Irps : Counts(x)
  <1>1. ends' = [ends EXCEPT ![r] = @ + 1] /\ (GoUp(r, k, hook) \/ GoUp(r, k, hook'))
    BY DEF Complete
  <1>2. /\ at'[r].pc \notin Going /\ \A x \in Irps : x # r => at'[x] = at[x]
    BY <1>1, GoingUp
  <1>3. ends'[r] = ends[r] + 1 /\ \A x \in Irps : x # r => ends'[x] = ends[x]
    BY <1>1 DEF OInv, Types, RequestTypes
  <1> QED
    BY <1>2, <1>3 DEF Counts

LEMMA NotBegun ==
  ASSUME OInv, NEW r \in Irps, UNCHANGED ends, NEW b, at' = [at EXCEPT ![r] = b],
         b.pc \notin Going \/ at[r].pc \in Going
  PROVE  \A x \in Irps : Counts(x)
  <1>1. at'[r] = b /\ \A x \in Irps : x # r => at'[x] = at[x]
    BY DEF OInv, Types, RequestTypes
  <1> QED
    BY <1>1 DEF Counts

LEMMA GoesDown ==
  ASSUME OInv, NEW r \in Irps, At(r, "down") \/ At(r, "mark") \/ At(r, "created"), UNCHANGED ends,
         PassDown(r) \/ \E pc : Stay(r, pc)
  PROVE  \A x \in Irps : Counts(x)
  <1>1. at[r].pc \in Going
    BY DEF At, Going, Down
  <1>2. \E b : at' = [at EXCEPT ![r] = b]
    BY DEF PassDown, Stay
  <1> QED
    BY <1>1, <1>2, NotBegun

NoHookedCreateRefused == \A r \in Irps : "hookedcreate" \notin Faults[r]

LEMMA EndsFitNext ==
  ASSUME NoHookedCreateRefused, OInv, EndsFit, [Next]_vars
  PROVE  EndsFit'
  <1> SUFFICES \A x \in Irps : Counts(x)
    BY EndsCount
  <1>1. ASSUME NEW r \in Irps, Arrive(r)
        PROVE  \A x \in Irps : Counts(x)
    <2>1. \E b : at' = [at EXCEPT ![r] = b]
      BY <1>1 DEF Arrive
    <2>2. at[r].pc \in Going /\ UNCHANGED ends
      BY <1>1 DEF Arrive, At, Going
    <2> QED
      BY <2>1, <2>2, NotBegun
  <1>2. ASSUME NEW r \in Irps, Descend(r)
        PROVE  \A x \in Irps : Counts(x)
    <2>1. at[r].k \in 0..Depth /\ 0 \in 0..Depth /\ (at[r].pc \in Down => at[r].k - 1 \in 0..Depth)
      BY RequestAt, LevelsAre DEF Places
    <2>2. ASSUME IsRequestInDeviceQueue(r) \/ HadHisTimeOnStack(r) \/ NotTracked(r)
                 \/ CreateOperationObjectForDevice(r) \/ ProcessRequestWoResult(r)
                 \/ FsmfPreOperationNoCallback(r) \/ ProcessFsdIrpRequestToHookedDriver(r)
          PROVE  \A x \in Irps : Counts(x)
      BY <2>2, GoesDown DEF IsRequestInDeviceQueue, HadHisTimeOnStack, NotTracked, CreateOperationObjectForDevice,
         ProcessRequestWoResult, FsmfPreOperationNoCallback, ProcessFsdIrpRequestToHookedDriver
    <2>3. ASSUME FsmfPreOperation(r)
          PROVE  \A x \in Irps : Counts(x)
      BY <2>3, GoesDown DEF FsmfPreOperation, WithCallback
    <2>4. ASSUME OperationRefused(r)
          PROVE  \A x \in Irps : Counts(x)
      BY <2>1, <2>4, BegunOnce DEF OperationRefused, At, Going, Down
    <2>5. ASSUME HookRefused(r)
          PROVE  \A x \in Irps : Counts(x)
      <3>1. at[r].pc \in Going /\ At(r, "created")
        BY <2>5 DEF HookRefused, At, Going, Down
      <3>2. ASSUME PassDown(r), UNCHANGED ends
            PROVE  \A x \in Irps : Counts(x)
        BY <3>1, <3>2, GoesDown
      <3>3. ASSUME Complete(r, at[r].k, hook)
            PROVE  \A x \in Irps : Counts(x)
        BY <2>1, <3>1, <3>3, BegunOnce
      <3> QED
        BY <2>5, <3>2, <3>3 DEF HookRefused
    <2>6. ASSUME RequestProcessingError(r) \/ FsdHookRefused(r)
          PROVE  \A x \in Irps : Counts(x)
      <3>1. at[r].pc \in Going /\ at[r].pc \in Down /\ Complete(r, at[r].k - 1, hook')
        BY <2>6 DEF RequestProcessingError, FsdHookRefused, At, Going, Down
      <3> QED
        BY <2>1, <3>1, BegunOnce
    <2>7. ASSUME FsmfPreOperationComplete(r)
          PROVE  \A x \in Irps : Counts(x)
      <3>1. at[r].pc \in Going /\ Complete(r, 2, hook)
        BY <2>7 DEF FsmfPreOperationComplete, NoHookedCreateRefused, At, Going, Down
      <3>2. 2 \in 0..Depth
        BY LevelsAre
      <3> QED
        BY <3>1, <3>2, BegunOnce
    <2>8. ASSUME LowerDriverCompletes(r)
          PROVE  \A x \in Irps : Counts(x)
      BY <2>1, <2>8, BegunOnce DEF LowerDriverCompletes, At, Going
    <2> QED
      BY <1>2, <2>2, <2>3, <2>4, <2>5, <2>6, <2>7, <2>8 DEF Descend
  <1>3. ASSUME UNCHANGED <<at, ends>>
        PROVE  \A x \in Irps : Counts(x)
    BY <1>3 DEF Counts
  <1>4. ASSUME NEW o \in Ops, Ascend(o)
        PROVE  \A x \in Irps : Counts(x)
    <2>1. ASSUME ContinueCompletion(o)
          PROVE  \A x \in Irps : Counts(x)
      <3>1. UNCHANGED ends /\ \E b : at' = [at EXCEPT ![o[1]] = b] /\ b.pc \notin Going
        BY <2>1 DEF ContinueCompletion, Going, Down
      <3> QED
        BY <3>1, NotBegun, Pairs
    <2>2. ASSUME ~ContinueCompletion(o)
          PROVE  UNCHANGED <<at, ends>>
      BY <1>4, <2>2 DEF Ascend, IrpCompletionRoutine, ShadowProcessOperationBuffersForDevice, BuffersCopied,
         ShadowCopingInPrivateBuffersCompleted, ReadIsShadowed, FsmfPostOperation, FsmfPostOperationMarks,
         BuffersForFsdTest, ShadowProcessOperationBuffersForFsd, UnlockAndFreeMdlForOperation, DeleteOperationObject,
         ShadowCompleteDeviceRequest
    <2> QED
      BY <1>3, <2>1, <2>2
  <1>5. ASSUME ShadowThread
        PROVE  \A x \in Irps : Counts(x)
    <2>1. ASSUME ContinuePendedCompletion
          PROVE  \A x \in Irps : Counts(x)
      <3>1. PICK o : o = sh.op
        OBVIOUS
      <3>2. o \in Ops
        BY <2>1, <3>1, ShadowIs DEF ContinuePendedCompletion
      <3>3. o[1] \in Irps /\ o[2] \in 0..Depth
        BY <3>2, Pairs, LevelsAre
      <3>4. UNCHANGED ends /\ GoUp(o[1], o[2], hook)
        BY <2>1, <3>1 DEF ContinuePendedCompletion
      <3>5. /\ at'[o[1]].pc \notin Going /\ \A x \in Irps : x # o[1] => at'[x] = at[x]
        BY <3>3, <3>4, GoingUp
      <3> QED
        BY <3>4, <3>5 DEF Counts
    <2>2. ASSUME ~ContinuePendedCompletion
          PROVE  UNCHANGED <<at, ends>>
      BY <1>5, <2>2 DEF ShadowThread, ShadowWriterWR, ShadowingInProgress, ShadowThreadCopies,
         ShadowThreadAwaitsCopy, FreeCompletionContext, ShadowThreadDereferences
    <2> QED
      BY <1>3, <2>1, <2>2
  <1> QED
    BY <1>1, <1>2, <1>3, <1>4, <1>5 DEF Next, vars

LEMMA EndsFitInit == Init => EndsFit
  BY DEF Init, EndsFit

\* A request is completed once, and each of its hooks continues the completion
\* once: never by the completing thread and the shadow thread both.  The one
\* exception is excluded by the hypothesis: the hooked file system driver that
\* has completed a create of its own accord still passes it to the original
\* dispatch function (filesystems.c:457-508), which completes it again.
THEOREM CompletionIsContinuedOnce ==
  ASSUME NoHookedCreateRefused
  PROVE  Spec => []CompletedOnce
  <1>1. Init => OInv /\ RereadsFit /\ EndsFit
    BY OInvInit, RereadsFitInit, EndsFitInit
  <1>2. (OInv /\ RereadsFit /\ EndsFit) /\ [Next]_vars => (OInv /\ RereadsFit /\ EndsFit)'
    BY OInvNext, RereadsFitNext, EndsFitNext
  <1>3. OInv /\ RereadsFit /\ EndsFit => CompletedOnce
    BY InvariantHolds DEF EndsFit, CompletedOnce
  <1> QED
    BY <1>1, <1>2, <1>3, PTL DEF Spec

=============================================================================
