-------------------------- MODULE CoreDriver_proof --------------------------
(***************************************************************************)
(* Machine-checked proofs about CoreDriver, for any finite sets of         *)
(* requests and devices, whatever the requests are and whatever fails:     *)
(* first what is true of each request and of the references of each        *)
(* device, then what DriverUnload waits for, so that nothing is taken away *)
(* from the threads that use it.                                           *)
(***************************************************************************)
EXTENDS CoreDriver, FiniteSetTheorems, TLAPS

Late == {"types", "mark type", "await type", "delete pools", "delete lists", "down"}
Starting == {"lists", "pools", "hashes", "connect pnp", "connect hook", "report", "filter"}
BootPoints == Starting \cup {"running", "disconnect pnp", "disconnect hook", "wait pnp",
                             "wait hook", "close", "drain", "purge", "cleaned"} \cup Late
Modes == {"entry", "query", "unload"}
Locks == [count : Int, removed : BOOLEAN, signalled : BOOLEAN]
Deleters == {<<>>, <<"boot">>} \cup (Requests \X {"disp", "item"})
DevRecords == [obj : {"none", "live", "dying", "counted", "gone"}, hashed : BOOLEAN,
               refs : Int, lock : Locks, by : Deleters]
ReqRecords == [kind : {"none", "hook", "pnp", "report", "remove"}, high : BOOLEAN,
               logged : BOOLEAN, dev : Devices]

BootTypes == /\ boot \in [pc : BootPoints, mode : Modes, queried : BOOLEAN,
                          dev : Devices \cup {"none"}]
             /\ up \subseteq Parts
LinkTypes == /\ conn \in [Drivers -> [current : BOOLEAN, refs : Int]]
             /\ event \in [Drivers -> BOOLEAN]
             /\ global \in Locks
DevTypes  == /\ dev \in [Devices -> DevRecords]
             /\ type \in [count : Int, marked : BOOLEAN, deleted : BOOLEAN]
ReqTypes  == /\ req \in [Requests -> ReqRecords]
             /\ at \in [Requests -> [Roles -> Points]]
             /\ ret \in [Requests -> SUBSET {"disp", "item"}]
             /\ sent \in [Requests -> Nat]
Types == BootTypes /\ LinkTypes /\ DevTypes /\ ReqTypes

Hooks  == {"hook", "context", "cookie", "unhook"}
Early  == {"in", "node", "copy", "lock", "post"} \cup Hooks
Served == {"deref", "decide", "leave", "out"}

\* Where the threads of control of a request of kind k can be at the same time.
PlacesFit(k, a) ==
  /\ a["disp"] \in {"new", "insert", "remove", "wait"} \cup Early \cup Served
  /\ a["item"] \in {"none", "queued", "send", "unlock", "drop", "free", "freed", "out"} \cup Hooks
  /\ a["comp"] \in {"none", "hooked", "callback", "free", "release", "finish", "out"}
  /\ a["citem"] \in {"none", "queued", "free", "release", "end", "out"}
  /\ a["disp"] = "insert" => k = "report"
  /\ a["disp"] \in {"remove", "wait"} => k = "remove"
  /\ a["disp"] \in Early \cup {"deref", "decide"} => k \in Drivers
  /\ a["disp"] # "new" => k # "none"
  /\ a["item"] # "none" => k \in Drivers /\ a["disp"] \in Served
  /\ a["comp"] # "none" => /\ k \in Drivers /\ a["disp"] \in Served
                           /\ a["item"] \notin {"queued"} \cup Hooks
  /\ a["citem"] # "none" => a["comp"] \in {"finish", "out"}

\* Who of them has sent the request n times, when x is what the contexts say.
SendsFit(k, a, x, n) ==
  /\ a["disp"] \in {"new"} \cup Early \/ k \notin Drivers => x = {} /\ n = 0
  /\ k \in Drivers /\ "disp" \notin x =>
       /\ a["item"] = "none"
       /\ n = IF a["disp"] = "out" \/ (a["disp"] = "leave" /\ k = "hook") THEN 1 ELSE 0
  /\ k \in Drivers /\ "disp" \in x /\ a["item"] = "none" => n = 1
  /\ a["item"] \in {"queued"} \cup Hooks => "item" \notin x /\ n = 0
  /\ a["item"] = "send" => n = IF "item" \in x THEN 1 ELSE 0
  /\ a["item"] \in {"unlock", "drop", "free", "freed", "out"} => n = 1

RequestsFit == \A r \in Requests : /\ PlacesFit(req[r].kind, at[r])
                                   /\ SendsFit(req[r].kind, at[r], ret[r], sent[r])

\* The reference of the hash belongs to it, then to the one thread that took the
\* device out.
OneOwner == \A d \in Devices :
  /\ dev[d].hashed => CleanersOf(d) = {} /\ boot.dev # d
  /\ boot.dev = d => CleanersOf(d) = {}
  /\ \A r, q \in CleanersOf(d) : r = q
Alive == /\ \A d \in Devices : dev[d].refs > 0 <=> dev[d].obj = "live"
         /\ boot.dev # "none" <=> boot.pc = "cleaned"

\* The inductive invariant.
RInv == Types /\ RequestsFit /\ OneOwner /\ Alive /\ DeviceReferencesAreExact

-----------------------------------------------------------------------------
(* Types *)

\* What a thread of control does to the places of its request.
Moves(a, r, role, to) ==
  /\ a \in [Roles -> Points] /\ a[role] = to
  /\ \A o \in Roles : o # role => a[o] = at[r][o]
  /\ \A u \in Requests : at'[u] = IF u = r THEN a ELSE at[u]
ForkMoves(a, r, role, to, other, point) ==
  /\ a \in [Roles -> Points] /\ a[role] = to /\ a[other] = point
  /\ \A o \in Roles : o # role /\ o # other => a[o] = at[r][o]
  /\ \A u \in Requests : at'[u] = IF u = r THEN a ELSE at[u]

LEMMA GotoMoves ==
  ASSUME ReqTypes, NEW r \in Requests, NEW role \in Roles, NEW from, NEW to \in Points,
         Goto(r, role, from, to)
  PROVE  /\ at[r][role] = from /\ at' \in [Requests -> [Roles -> Points]]
         /\ \E a : Moves(a, r, role, to)
  <1> DEFINE a == [at[r] EXCEPT ![role] = to]
  <1>1. at[r][role] = from /\ at' = [at EXCEPT ![r] = a]
    BY DEF Goto, ReqTypes
  <1>2. a \in [Roles -> Points] /\ a[role] = to /\ \A o \in Roles : o # role => a[o] = at[r][o]
    BY DEF ReqTypes
  <1> HIDE DEF a
  <1>3. Moves(a, r, role, to) /\ at' \in [Requests -> [Roles -> Points]]
    BY <1>1, <1>2 DEF Moves, ReqTypes
  <1> QED
    BY <1>1, <1>3

LEMMA ForkMovesBoth ==
  ASSUME ReqTypes, NEW r \in Requests, NEW role \in Roles, NEW from, NEW to \in Points,
         NEW other \in Roles, other # role, NEW point \in Points,
         Fork(r, role, from, to, other, point)
  PROVE  /\ at[r][role] = from /\ at' \in [Requests -> [Roles -> Points]]
         /\ \E a : ForkMoves(a, r, role, to, other, point)
  <1> DEFINE b == [at[r] EXCEPT ![role] = to]
             a == [b EXCEPT ![other] = point]
  <1>1. at[r][role] = from /\ at' = [[at EXCEPT ![r][role] = to] EXCEPT ![r][other] = point]
    BY DEF Fork
  <1>2. at' = [at EXCEPT ![r] = a]
    BY <1>1 DEF ReqTypes
  <1>3. b \in [Roles -> Points] /\ b[role] = to /\ \A o \in Roles : o # role => b[o] = at[r][o]
    BY DEF ReqTypes
  <1> HIDE DEF b
  <1>4. /\ a \in [Roles -> Points] /\ a[role] = to /\ a[other] = point
        /\ \A o \in Roles : o # role /\ o # other => a[o] = at[r][o]
    BY <1>3
  <1> HIDE DEF a
  <1>5. ForkMoves(a, r, role, to, other, point) /\ at' \in [Requests -> [Roles -> Points]]
    BY <1>2, <1>4 DEF ForkMoves, ReqTypes
  <1> QED
    BY <1>1, <1>5

LEMMA LockTypes ==
  ASSUME NEW l \in Locks
  PROVE  /\ Released(l) \in Locks /\ Closed(l) \in Locks
         /\ [l EXCEPT !.count = @ + 1] \in Locks
         /\ \A n \in Int : [l EXCEPT !.count = n] \in Locks
  <1>1. \A n \in Int : [l EXCEPT !.count = n] \in Locks
    BY DEF Locks
  <1>2. l.count \in Int /\ l.signalled \in BOOLEAN
    BY DEF Locks
  <1>3. \A b \in BOOLEAN : \A m \in Locks : [m EXCEPT !.signalled = b] \in Locks
    BY DEF Locks
  <1>4. \A m \in Locks : [m EXCEPT !.removed = TRUE] \in Locks
    BY DEF Locks
  <1>5. [l EXCEPT !.count = @ + 1] \in Locks
    BY <1>1, <1>2
  <1>6. Released(l) \in Locks
    <2>1. Released(l) = [[l EXCEPT !.count = l.count - 1]
                            EXCEPT !.signalled = l.signalled \/ l.count = 1]
      BY DEF Released, Locks
    <2>2. l.count - 1 \in Int /\ (l.signalled \/ l.count = 1) \in BOOLEAN
      BY <1>2
    <2> QED
      BY <1>1, <1>3, <2>1, <2>2
  <1>7. Closed(l) \in Locks
    <2>1. Closed(l) = [[l EXCEPT !.count = l.count - 2] EXCEPT !.removed = TRUE]
      BY DEF Closed, Locks
    <2>2. l.count - 2 \in Int
      BY <1>2
    <2> QED
      BY <1>1, <1>4, <2>1, <2>2
  <1> QED
    BY <1>1, <1>5, <1>6, <1>7

LEMMA FieldTypes ==
  ASSUME NEW p \in DevRecords
  PROVE  /\ p.lock \in Locks /\ p.refs \in Int /\ p.hashed \in BOOLEAN
         /\ p.obj \in {"none", "live", "dying", "counted", "gone"}
  BY DEF DevRecords

LEMMA RefsSet ==
  ASSUME NEW p \in DevRecords, NEW n \in Int, NEW q, q = [p EXCEPT !.refs = n]
  PROVE  /\ q \in DevRecords
         /\ q.obj = p.obj /\ q.hashed = p.hashed /\ q.refs = n /\ q.lock = p.lock /\ q.by = p.by
  BY DEF DevRecords

LEMMA LockSet ==
  ASSUME NEW p \in DevRecords, NEW n \in Locks, NEW q, q = [p EXCEPT !.lock = n]
  PROVE  /\ q \in DevRecords
         /\ q.obj = p.obj /\ q.hashed = p.hashed /\ q.refs = p.refs /\ q.lock = n /\ q.by = p.by
  BY DEF DevRecords

LEMMA ObjSet ==
  ASSUME NEW p \in DevRecords, NEW n \in {"live", "dying", "counted", "gone"}, NEW q, q = [p EXCEPT !.obj = n]
  PROVE  /\ q \in DevRecords
         /\ q.obj = n /\ q.hashed = p.hashed /\ q.refs = p.refs /\ q.lock = p.lock /\ q.by = p.by
  BY DEF DevRecords

LEMMA HashedSet ==
  ASSUME NEW p \in DevRecords, NEW n \in BOOLEAN, NEW q, q = [p EXCEPT !.hashed = n]
  PROVE  /\ q \in DevRecords
         /\ q.obj = p.obj /\ (q.hashed <=> n) /\ q.refs = p.refs /\ q.lock = p.lock /\ q.by = p.by
  BY DEF DevRecords

LEMMA BySet ==
  ASSUME NEW p \in DevRecords, NEW n \in Deleters, NEW q, q = [p EXCEPT !.by = n]
  PROVE  /\ q \in DevRecords
         /\ q.obj = p.obj /\ q.hashed = p.hashed /\ q.refs = p.refs /\ q.lock = p.lock /\ q.by = n
  BY DEF DevRecords

-----------------------------------------------------------------------------
(* The references of the devices *)

InUse == {"node", "copy", "lock", "post", "hook", "context", "cookie", "unhook", "deref"}
InItem == {"queued", "hook", "context", "cookie", "unhook", "send", "unlock", "drop"}
InContext == {"queued", "hook", "context", "cookie", "unhook", "send", "unlock", "drop", "free"}

\* The references to its device of a request whose threads of control are at a.
Weight(a) == (IF a["disp"] \in InUse THEN 1 ELSE 0)
             + (IF a["disp"] \in {"lock", "post"} THEN 1 ELSE 0)
             + (IF a["item"] \in InItem THEN 1 ELSE 0)
             + (IF a["item"] \in InContext THEN 1 ELSE 0)
Owner(d) == IF dev[d].hashed \/ CleanersOf(d) # {} \/ boot.dev = d THEN 1 ELSE 0

LEMMA ReferencesOf ==
  DeviceReferencesAreExact <=>
    \A d \in Devices :
      dev[d].refs = Owner(d) + Cardinality(UsersOf(d, "disp", InUse))
                      + Cardinality(UsersOf(d, "disp", {"lock", "post"}))
                      + Cardinality(UsersOf(d, "item", InItem))
                      + Cardinality(UsersOf(d, "item", InContext))
  BY DEF DeviceReferencesAreExact, Owner, InUse, InItem, InContext

LEMMA ReferencesOfNext ==
  DeviceReferencesAreExact' <=>
    \A d \in Devices :
      dev'[d].refs = Owner(d)' + Cardinality(UsersOf(d, "disp", InUse)')
                      + Cardinality(UsersOf(d, "disp", {"lock", "post"})')
                      + Cardinality(UsersOf(d, "item", InItem)')
                      + Cardinality(UsersOf(d, "item", InContext)')
  BY DEF DeviceReferencesAreExact, Owner, InUse, InItem, InContext

LEMMA UsersAreFinite ==
  ASSUME NEW d, NEW role, NEW points
  PROVE  /\ IsFiniteSet(UsersOf(d, role, points))
         /\ Cardinality(UsersOf(d, role, points)) \in Nat
         /\ Cardinality(UsersOf(d, role, points)) = 0 => UsersOf(d, role, points) = {}
  <1>1. UsersOf(d, role, points) \subseteq Requests
    BY DEF UsersOf
  <1>2. IsFiniteSet(UsersOf(d, role, points))
    BY <1>1, FS_Subset, CoreDriverAssumption
  <1> QED
    BY <1>2, FS_CardinalityType, FS_EmptySet

LEMMA OneJoinsOrLeaves ==
  ASSUME NEW S, IsFiniteSet(S), NEW t, NEW joins \in BOOLEAN, NEW T,
         T = IF joins THEN S \cup {t} ELSE S \ {t}
  PROVE  Cardinality(T) = Cardinality(S) + (IF joins THEN 1 ELSE 0)
                                         - (IF t \in S THEN 1 ELSE 0)
  <1>1. Cardinality(S) \in Nat
    BY FS_CardinalityType
  <1>2. t \in S => Cardinality(S \ {t}) = Cardinality(S) - 1 /\ S \cup {t} = S
    BY FS_RemoveElement
  <1>3. t \notin S => Cardinality(S \cup {t}) = Cardinality(S) + 1 /\ S \ {t} = S
    BY FS_AddElement
  <1>4. CASE joins /\ t \in S
    <2>1. T = S
      BY <1>2, <1>4
    <2> QED
      BY <1>1, <1>4, <2>1
  <1>5. CASE joins /\ t \notin S
    <2>1. T = S \cup {t}
      BY <1>5
    <2> QED
      BY <1>1, <1>3, <1>5, <2>1
  <1>6. CASE ~joins /\ t \in S
    <2>1. T = S \ {t}
      BY <1>6
    <2> QED
      BY <1>1, <1>2, <1>6, <2>1
  <1>7. CASE ~joins /\ t \notin S
    <2>1. T = S
      BY <1>3, <1>7
    <2> QED
      BY <1>1, <1>7, <2>1
  <1> QED
    BY <1>4, <1>5, <1>6, <1>7

\* How far the users of a device change when the threads of control of r are at a.
LEMMA UsersMove ==
  ASSUME NEW r \in Requests, NEW a, UNCHANGED req,
         \A u \in Requests : at'[u] = IF u = r THEN a ELSE at[u],
         NEW d, NEW role, NEW points
  PROVE  Cardinality(UsersOf(d, role, points)') =
           Cardinality(UsersOf(d, role, points))
             + (IF IsIo(r) /\ Dev(r) = d /\ a[role] \in points THEN 1 ELSE 0)
             - (IF IsIo(r) /\ Dev(r) = d /\ at[r][role] \in points THEN 1 ELSE 0)
  <1> DEFINE S == UsersOf(d, role, points)
             T == UsersOf(d, role, points)'
             joins == IsIo(r) /\ Dev(r) = d /\ a[role] \in points
  <1>1. T = IF joins THEN S \cup {r} ELSE S \ {r}
    BY DEF UsersOf, IsIo, Dev
  <1>2. r \in S <=> IsIo(r) /\ Dev(r) = d /\ at[r][role] \in points
    BY DEF UsersOf
  <1>3. joins \in BOOLEAN /\ IsFiniteSet(S)
    BY UsersAreFinite
  <1> HIDE DEF S, T, joins
  <1>4. Cardinality(T) = Cardinality(S) + (IF joins THEN 1 ELSE 0) - (IF r \in S THEN 1 ELSE 0)
    BY <1>1, <1>3, OneJoinsOrLeaves
  <1> QED
    BY <1>2, <1>4 DEF S, T, joins

\* A device that is referred to is alive.
LEMMA UsedDevicesLive ==
  ASSUME RInv, NEW d \in Devices
  PROVE  /\ dev[d].refs \in Nat
         /\ dev[d].hashed \/ CleanersOf(d) # {} \/ boot.dev = d => dev[d].refs > 0
         /\ \A r \in Requests : IsIo(r) /\ Dev(r) = d /\ Weight(at[r]) > 0 => dev[d].refs > 0
  <1> DEFINE c1 == Cardinality(UsersOf(d, "disp", InUse))
             c2 == Cardinality(UsersOf(d, "disp", {"lock", "post"}))
             c3 == Cardinality(UsersOf(d, "item", InItem))
             c4 == Cardinality(UsersOf(d, "item", InContext))
  <1>1. dev[d].refs = Owner(d) + c1 + c2 + c3 + c4
    BY ReferencesOf DEF RInv
  <1>2. c1 \in Nat /\ c2 \in Nat /\ c3 \in Nat /\ c4 \in Nat
    BY UsersAreFinite
  <1>3. /\ c1 = 0 => UsersOf(d, "disp", InUse) = {}
        /\ c3 = 0 => UsersOf(d, "item", InItem) = {}
        /\ c4 = 0 => UsersOf(d, "item", InContext) = {}
    BY UsersAreFinite
  <1>4. \A r \in Requests : IsIo(r) /\ Dev(r) = d /\ Weight(at[r]) > 0 =>
          \/ UsersOf(d, "disp", InUse) # {}
          \/ UsersOf(d, "item", InContext) # {}
    BY DEF UsersOf, Weight, InUse, InItem, InContext
  <1>5. Owner(d) \in {0, 1} /\ (dev[d].hashed \/ CleanersOf(d) # {} \/ boot.dev = d => Owner(d) = 1)
    BY DEF Owner
  <1> HIDE DEF c1, c2, c3, c4
  <1> QED
    BY <1>1, <1>2, <1>3, <1>4, <1>5

-----------------------------------------------------------------------------
(* What an action does to the devices *)

\* Device d gets n more references; with the last one it is dying, by somebody.
References(d, n, by) ==
  /\ dev' \in [Devices -> DevRecords]
  /\ \A e \in Devices : e # d => dev'[e] = dev[e]
  /\ dev'[d].refs = dev[d].refs + n /\ dev'[d].hashed = dev[d].hashed
  /\ \/ dev'[d].obj = dev[d].obj /\ dev'[d].by = dev[d].by /\ (dev'[d].refs > 0 <=> dev[d].refs > 0)
     \/ dev[d].obj = "live" /\ dev'[d].obj = "dying" /\ dev'[d].by = by /\ dev'[d].refs = 0

LEMMA DevTypesFields ==
  ASSUME DevTypes, NEW d \in Devices
  PROVE  dev[d] \in DevRecords /\ dev \in [Devices -> DevRecords] /\ dev[d].refs \in Int
  <1>1. dev[d] \in DevRecords /\ dev \in [Devices -> DevRecords]
    BY DEF DevTypes
  <1> QED
    BY <1>1, FieldTypes

LEMMA ReferenceAdds ==
  ASSUME DevTypes, NEW d \in Devices, dev[d].refs > 0, Reference(d), NEW t
  PROVE  References(d, 1, t)
  <1> DEFINE p == [dev[d] EXCEPT !.refs = dev[d].refs + 1]
  <1>1. dev[d] \in DevRecords /\ dev \in [Devices -> DevRecords]
    BY DEF DevTypes
  <1>2. dev[d].refs \in Int
    BY <1>1, FieldTypes
  <1>3. dev[d].refs + 1 \in Int /\ dev[d].refs + 1 > 0
    BY <1>2
  <1>4. /\ p \in DevRecords /\ p.refs = dev[d].refs + 1 /\ p.hashed = dev[d].hashed
        /\ p.obj = dev[d].obj /\ p.by = dev[d].by
    BY <1>1, <1>3, RefsSet
  <1>5. dev' = [dev EXCEPT ![d] = p]
    BY DEF Reference
  <1> HIDE DEF p
  <1> QED
    BY <1>1, <1>3, <1>4, <1>5 DEF References

LEMMA DereferencedIs ==
  ASSUME NEW p \in DevRecords, p.refs > 0, p.obj = "live", NEW t \in Deleters, NEW q,
         q = Dereferenced(p, t)
  PROVE  /\ q \in DevRecords /\ q.refs = p.refs - 1 /\ q.hashed = p.hashed /\ q.lock = p.lock
         /\ \/ q.obj = p.obj /\ q.by = p.by /\ q.refs > 0
            \/ q.obj = "dying" /\ q.by = t /\ q.refs = 0
  <1>0. p.refs \in Int
    BY FieldTypes
  <1>1. CASE p.refs > 1
    <2>1. q = [p EXCEPT !.refs = p.refs - 1]
      BY <1>1 DEF Dereferenced
    <2>2. p.refs - 1 > 0 /\ p.refs - 1 \in Int
      BY <1>0, <1>1
    <2>3. q \in DevRecords /\ q.refs = p.refs - 1 /\ q.hashed = p.hashed /\ q.lock = p.lock
          /\ q.obj = p.obj /\ q.by = p.by
      BY <2>1, <2>2, RefsSet
    <2> QED
      BY <2>2, <2>3
  <1>2. CASE ~(p.refs > 1)
    <2> DEFINE q0 == [p EXCEPT !.refs = 0]
               q1 == [q0 EXCEPT !.obj = "dying"]
               q2 == [q1 EXCEPT !.by = t]
    <2>1. q = q2
      BY <1>2 DEF Dereferenced, DevRecords
    <2>2. q0 \in DevRecords /\ q0.refs = 0 /\ q0.hashed = p.hashed /\ q0.lock = p.lock
      <3>1. 0 \in Int
        OBVIOUS
      <3> QED
        BY <3>1, RefsSet
    <2> HIDE DEF q0
    <2>3. q1 \in DevRecords /\ q1.refs = 0 /\ q1.hashed = p.hashed /\ q1.obj = "dying"
          /\ q1.lock = p.lock
      BY <2>2, ObjSet
    <2> HIDE DEF q1
    <2>4. /\ q2 \in DevRecords /\ q2.refs = 0 /\ q2.hashed = p.hashed /\ q2.obj = "dying"
          /\ q2.by = t /\ q2.lock = p.lock
      BY <2>3, BySet
    <2> HIDE DEF q2
    <2>5. p.refs = 1
      BY <1>0, <1>2
    <2> QED
      BY <2>1, <2>4, <2>5
  <1> QED
    BY <1>1, <1>2

LEMMA DereferenceTakes ==
  ASSUME DevTypes, NEW d \in Devices, dev[d].refs > 0, dev[d].obj = "live", NEW t \in Deleters,
         Dereference(d, t)
  PROVE  References(d, -1, t)
  <1> DEFINE q == Dereferenced(dev[d], t)
  <1>1. dev[d] \in DevRecords /\ dev \in [Devices -> DevRecords] /\ dev[d].refs \in Int
    BY DevTypesFields
  <1>2. /\ q \in DevRecords /\ q.refs = dev[d].refs - 1 /\ q.hashed = dev[d].hashed
        /\ \/ q.obj = dev[d].obj /\ q.by = dev[d].by /\ q.refs > 0
           \/ q.obj = "dying" /\ q.by = t /\ q.refs = 0
    BY <1>1, DereferencedIs
  <1>3. dev' = [dev EXCEPT ![d] = q]
    BY DEF Dereference
  <1> HIDE DEF q
  <1>4. dev'[d] = q /\ dev' \in [Devices -> DevRecords]
        /\ \A e \in Devices : e # d => dev'[e] = dev[e]
    BY <1>1, <1>2, <1>3
  <1>5. dev'[d].refs = dev[d].refs + (-1)
    BY <1>1, <1>2, <1>4
  <1> QED
    BY <1>2, <1>4, <1>5 DEF References

\* The remove lock and the reference of the node context copy are given back at once.
LEMMA DereferenceAndReleaseTakes ==
  ASSUME DevTypes, NEW d \in Devices, dev[d].refs > 0, dev[d].obj = "live", NEW t \in Deleters,
         dev' = [dev EXCEPT ![d] = [Dereferenced(dev[d], t) EXCEPT !.lock = Released(dev[d].lock)]]
  PROVE  References(d, -1, t)
  <1> DEFINE q == Dereferenced(dev[d], t)
             q1 == [q EXCEPT !.lock = Released(dev[d].lock)]
  <1>1. dev[d] \in DevRecords /\ dev \in [Devices -> DevRecords] /\ dev[d].refs \in Int
    BY DevTypesFields
  <1>2. /\ q \in DevRecords /\ q.refs = dev[d].refs - 1 /\ q.hashed = dev[d].hashed
        /\ \/ q.obj = dev[d].obj /\ q.by = dev[d].by /\ q.refs > 0
           \/ q.obj = "dying" /\ q.by = t /\ q.refs = 0
    BY <1>1, DereferencedIs
  <1>3. dev' = [dev EXCEPT ![d] = q1]
    BY <1>1
  <1> HIDE DEF q
  <1>4. Released(dev[d].lock) \in Locks
    BY <1>1, FieldTypes, LockTypes
  <1>5. q1 \in DevRecords /\ q1.refs = q.refs /\ q1.hashed = q.hashed /\ q1.obj = q.obj /\ q1.by = q.by
    BY <1>2, <1>4, LockSet
  <1> HIDE DEF q1
  <1>6. dev'[d] = q1 /\ dev' \in [Devices -> DevRecords]
        /\ \A e \in Devices : e # d => dev'[e] = dev[e]
    BY <1>1, <1>3, <1>5
  <1>7. dev'[d].refs = dev[d].refs + (-1)
    BY <1>1, <1>2, <1>5, <1>6
  <1> QED
    BY <1>2, <1>5, <1>6, <1>7 DEF References

\* Only the remove lock of the device changes, or nothing.
LEMMA LockKeepsReferences ==
  ASSUME DevTypes, NEW d \in Devices, NEW t, NEW l \in Locks,
         dev' = [dev EXCEPT ![d].lock = l] \/ UNCHANGED dev
  PROVE  References(d, 0, t)
  <1>1. dev[d] \in DevRecords /\ dev \in [Devices -> DevRecords] /\ dev[d].refs \in Int
    BY DevTypesFields
  <1>2. CASE UNCHANGED dev
    BY <1>1, <1>2 DEF References
  <1>3. CASE dev' = [dev EXCEPT ![d].lock = l]
    <2> DEFINE p == [dev[d] EXCEPT !.lock = l]
    <2>1. /\ p \in DevRecords /\ p.refs = dev[d].refs /\ p.hashed = dev[d].hashed
          /\ p.obj = dev[d].obj /\ p.by = dev[d].by
      BY <1>1, LockSet
    <2>2. dev' = [dev EXCEPT ![d] = p]
      BY <1>3
    <2> HIDE DEF p
    <2> QED
      BY <1>1, <2>1, <2>2 DEF References
  <1> QED
    BY <1>2, <1>3

-----------------------------------------------------------------------------
(* One request moves *)

\* Request r is the only one that moves: to a...
Only(r, a) ==
  /\ a \in [Roles -> Points]
  /\ \A u \in Requests : at'[u] = IF u = r THEN a ELSE at[u]
  /\ \A u \in Requests : u # r => ret'[u] = ret[u] /\ sent'[u] = sent[u]
  /\ UNCHANGED req
\* ...and the device of the hash is not its business.
Alone(r, a) == /\ Only(r, a) /\ UNCHANGED boot
               /\ a["disp"] = "wait" <=> at[r]["disp"] = "wait"

LEMMA RequestsStayFit ==
  ASSUME RequestsFit, NEW r \in Requests, NEW a, Only(r, a),
         PlacesFit(req[r].kind, a), SendsFit(req[r].kind, a, ret'[r], sent'[r])
  PROVE  RequestsFit'
  <1> SUFFICES ASSUME NEW u \in Requests
               PROVE  /\ PlacesFit(req'[u].kind, at'[u])
                      /\ SendsFit(req'[u].kind, at'[u], ret'[u], sent'[u])
    BY DEF RequestsFit
  <1>1. CASE u = r
    BY <1>1 DEF Alone, Only
  <1>2. CASE u # r
    <2>1. at'[u] = at[u] /\ ret'[u] = ret[u] /\ sent'[u] = sent[u] /\ req'[u] = req[u]
      BY <1>2 DEF Alone, Only
    <2>2. PlacesFit(req[u].kind, at[u]) /\ SendsFit(req[u].kind, at[u], ret[u], sent[u])
      BY DEF RequestsFit
    <2> QED
      BY <2>1, <2>2
  <1> QED
    BY <1>1, <1>2

\* The references to the device of a request that moves follow it.
LEMMA ReferencesFollow ==
  ASSUME RInv, NEW r \in Requests, NEW a, Alone(r, a), NEW t,
         IsIo(r) => References(Dev(r), Weight(a) - Weight(at[r]), t),
         ~IsIo(r) => UNCHANGED dev
  PROVE  OneOwner' /\ Alive' /\ DeviceReferencesAreExact'
  <1>1. \A d \in Devices : CleanersOf(d)' = CleanersOf(d)
    BY DEF CleanersOf, Alone, Only, Dev
  <1>2. \A d \in Devices :
          /\ dev'[d].hashed = dev[d].hashed
          /\ dev'[d].refs > 0 <=> dev'[d].obj = "live"
    <2> SUFFICES ASSUME NEW d \in Devices
                 PROVE  /\ dev'[d].hashed = dev[d].hashed
                        /\ dev'[d].refs > 0 <=> dev'[d].obj = "live"
      OBVIOUS
    <2>1. dev[d].refs > 0 <=> dev[d].obj = "live"
      BY DEF RInv, Alive
    <2>2. CASE dev'[d] = dev[d]
      BY <2>1, <2>2
    <2>3. CASE dev'[d] # dev[d]
      <3>1. References(d, Weight(a) - Weight(at[r]), t)
        BY <2>3 DEF References
      <3> QED
        BY <2>1, <3>1 DEF References
    <2> QED
      BY <2>2, <2>3
  <1>3. \A d \in Devices : Owner(d)' = Owner(d)
    BY <1>1, <1>2 DEF Owner, Alone, Only
  <1>4. OneOwner'
    BY <1>1, <1>2 DEF OneOwner, Alone, Only, RInv
  <1>5. Alive'
    BY <1>2 DEF Alive, Alone, Only, RInv
  <1>6. ASSUME NEW d \in Devices
        PROVE  dev'[d].refs = Owner(d)' + Cardinality(UsersOf(d, "disp", InUse)')
                      + Cardinality(UsersOf(d, "disp", {"lock", "post"})')
                      + Cardinality(UsersOf(d, "item", InItem)')
                      + Cardinality(UsersOf(d, "item", InContext)')
    <2> DEFINE mine == IsIo(r) /\ Dev(r) = d
               c1 == Cardinality(UsersOf(d, "disp", InUse))
               c2 == Cardinality(UsersOf(d, "disp", {"lock", "post"}))
               c3 == Cardinality(UsersOf(d, "item", InItem))
               c4 == Cardinality(UsersOf(d, "item", InContext))
               e1 == Cardinality(UsersOf(d, "disp", InUse)')
               e2 == Cardinality(UsersOf(d, "disp", {"lock", "post"})')
               e3 == Cardinality(UsersOf(d, "item", InItem)')
               e4 == Cardinality(UsersOf(d, "item", InContext)')
    <2>1. UNCHANGED req /\ \A u \in Requests : at'[u] = IF u = r THEN a ELSE at[u]
      BY DEF Alone, Only
    <2>2. e1 = c1 + (IF mine /\ a["disp"] \in InUse THEN 1 ELSE 0)
                  - (IF mine /\ at[r]["disp"] \in InUse THEN 1 ELSE 0)
      BY <2>1, UsersMove
    <2>3. e2 = c2 + (IF mine /\ a["disp"] \in {"lock", "post"} THEN 1 ELSE 0)
                  - (IF mine /\ at[r]["disp"] \in {"lock", "post"} THEN 1 ELSE 0)
      BY <2>1, UsersMove
    <2>4. e3 = c3 + (IF mine /\ a["item"] \in InItem THEN 1 ELSE 0)
                  - (IF mine /\ at[r]["item"] \in InItem THEN 1 ELSE 0)
      BY <2>1, UsersMove
    <2>5. e4 = c4 + (IF mine /\ a["item"] \in InContext THEN 1 ELSE 0)
                  - (IF mine /\ at[r]["item"] \in InContext THEN 1 ELSE 0)
      BY <2>1, UsersMove
    <2>6. dev[d].refs = Owner(d) + c1 + c2 + c3 + c4
      BY ReferencesOf DEF RInv
    <2>7. c1 \in Nat /\ c2 \in Nat /\ c3 \in Nat /\ c4 \in Nat
      BY UsersAreFinite
    <2>8. Owner(d)' = Owner(d) /\ Owner(d) \in {0, 1}
      BY <1>3 DEF Owner
    <2>9. Weight(a) \in Int /\ Weight(at[r]) \in Int
      BY DEF Weight
    <2>10. CASE mine
      <3> DEFINE i1 == IF a["disp"] \in InUse THEN 1 ELSE 0
                 i2 == IF a["disp"] \in {"lock", "post"} THEN 1 ELSE 0
                 i3 == IF a["item"] \in InItem THEN 1 ELSE 0
                 i4 == IF a["item"] \in InContext THEN 1 ELSE 0
                 j1 == IF at[r]["disp"] \in InUse THEN 1 ELSE 0
                 j2 == IF at[r]["disp"] \in {"lock", "post"} THEN 1 ELSE 0
                 j3 == IF at[r]["item"] \in InItem THEN 1 ELSE 0
                 j4 == IF at[r]["item"] \in InContext THEN 1 ELSE 0
                 x  == dev'[d].refs
                 y  == dev[d].refs
                 o  == Owner(d)
                 p  == Owner(d)'
      <3>1. x = y + (Weight(a) - Weight(at[r]))
        BY <2>10 DEF References
      <3>2. Weight(a) = i1 + i2 + i3 + i4 /\ Weight(at[r]) = j1 + j2 + j3 + j4
        BY DEF Weight
      <3>3. e1 = c1 + i1 - j1 /\ e2 = c2 + i2 - j2 /\ e3 = c3 + i3 - j3 /\ e4 = c4 + i4 - j4
        BY <2>2, <2>3, <2>4, <2>5, <2>10
      <3>4. /\ i1 \in Int /\ i2 \in Int /\ i3 \in Int /\ i4 \in Int
            /\ j1 \in Int /\ j2 \in Int /\ j3 \in Int /\ j4 \in Int
        OBVIOUS
      <3>5. y = o + c1 + c2 + c3 + c4 /\ p = o /\ o \in Int
        BY <2>6, <2>8
      <3>6. c1 \in Int /\ c2 \in Int /\ c3 \in Int /\ c4 \in Int
        BY <2>7
      <3> HIDE DEF c1, c2, c3, c4, e1, e2, e3, e4, i1, i2, i3, i4, j1, j2, j3, j4, x, y, o, p
      <3>7. x = p + e1 + e2 + e3 + e4
        BY ONLY <3>1, <3>2, <3>3, <3>4, <3>5, <3>6
      <3> QED
        BY <3>7 DEF x, p, e1, e2, e3, e4
    <2>11. CASE ~mine
      <3>1. dev'[d] = dev[d]
        BY <2>11 DEF References
      <3>2. e1 = c1 /\ e2 = c2 /\ e3 = c3 /\ e4 = c4
        BY <2>2, <2>3, <2>4, <2>5, <2>7, <2>11
      <3> QED
        BY <2>6, <2>8, <3>1, <3>2
    <2> QED
      BY <2>10, <2>11
  <1> QED
    BY <1>4, <1>5, <1>6, ReferencesOfNext

-----------------------------------------------------------------------------
(* The steps of the threads of control of a request *)

Fits(r, a) == /\ PlacesFit(req[r].kind, a)
              /\ SendsFit(req[r].kind, a, ret'[r], sent'[r])

\* A step that changes the references to the device of the request...
LEMMA ServiceStep ==
  ASSUME RInv, NEW r \in Requests, IsIo(r), NEW a, Alone(r, a), Fits(r, a), NEW t,
         References(Dev(r), Weight(a) - Weight(at[r]), t),
         UNCHANGED <<up, type>>, LinkTypes', ReqTypes'
  PROVE  RInv'
  <1>1. OneOwner' /\ Alive' /\ DeviceReferencesAreExact'
    BY ReferencesFollow
  <1>2. RequestsFit'
    BY RequestsStayFit DEF RInv, Fits, Alone
  <1>3. BootTypes' /\ DevTypes'
    BY DEF BootTypes, DevTypes, RInv, Types, Alone, Only, References
  <1> QED
    BY <1>1, <1>2, <1>3 DEF RInv, Types

\* ...and one that does not.
LEMMA QuietStep ==
  ASSUME RInv, NEW r \in Requests, NEW a, Alone(r, a), Fits(r, a),
         IsIo(r) => Weight(a) = Weight(at[r]),
         UNCHANGED <<up, type, dev>>, LinkTypes', ReqTypes'
  PROVE  RInv'
  <1>1. IsIo(r) => References(Dev(r), Weight(a) - Weight(at[r]), <<>>)
    <2>1. DevTypes /\ Weight(at[r]) \in Int /\ Dev(r) \in Devices
      BY DEF RInv, Types, Weight, Dev, ReqTypes, ReqRecords
    <2>2. dev[Dev(r)].refs \in Int
      BY <2>1, DevTypesFields
    <2>3. IsIo(r) => Weight(a) - Weight(at[r]) = 0
      BY <2>1
    <2>4. References(Dev(r), 0, <<>>)
      BY <2>1, <2>2 DEF References, DevTypes
    <2> QED
      BY <2>3, <2>4
  <1>2. OneOwner' /\ Alive' /\ DeviceReferencesAreExact'
    BY <1>1, ReferencesFollow
  <1>3. RequestsFit'
    BY RequestsStayFit DEF RInv, Fits, Alone
  <1>4. BootTypes' /\ DevTypes'
    BY DEF BootTypes, DevTypes, RInv, Types, Alone, Only
  <1> QED
    BY <1>2, <1>3, <1>4 DEF RInv, Types

LEMMA FitsNow ==
  ASSUME RInv, NEW r \in Requests
  PROVE  /\ PlacesFit(req[r].kind, at[r]) /\ SendsFit(req[r].kind, at[r], ret[r], sent[r])
         /\ Dev(r) \in Devices /\ ret[r] \in SUBSET {"disp", "item"} /\ sent[r] \in Nat
         /\ ReqTypes /\ DevTypes /\ LinkTypes /\ at[r] \in [Roles -> Points]
         /\ IsIo(r) <=> req[r].kind \in Drivers
  BY DEF RInv, Types, RequestsFit, ReqTypes, ReqRecords, Dev, IsIo, Drivers

LEMMA ThreadMoves ==
  ASSUME RInv, NEW r \in Requests, NEW role \in Roles, NEW from, NEW to \in Points,
         Goto(r, role, from, to), role = "disp" => from # "wait" /\ to # "wait",
         UNCHANGED <<boot, req>>,
         \A u \in Requests : u # r => ret'[u] = ret[u] /\ sent'[u] = sent[u],
         ret' \in [Requests -> SUBSET {"disp", "item"}], sent' \in [Requests -> Nat]
  PROVE  at[r][role] = from /\ ReqTypes' /\ \E a : Moves(a, r, role, to) /\ Alone(r, a)
  <1>1. ReqTypes
    BY DEF RInv, Types
  <1>2. at[r][role] = from /\ at' \in [Requests -> [Roles -> Points]]
    BY <1>1, GotoMoves
  <1>3. PICK a : Moves(a, r, role, to)
    BY <1>1, GotoMoves
  <1>4. a["disp"] = "wait" <=> at[r]["disp"] = "wait"
    BY <1>2, <1>3 DEF Moves, Roles
  <1>5. Alone(r, a)
    BY <1>3, <1>4 DEF Moves, Alone, Only
  <1>6. ReqTypes'
    BY <1>1, <1>2 DEF ReqTypes
  <1> QED
    BY <1>2, <1>3, <1>5, <1>6

LEMMA QuietMoves ==
  ASSUME RInv, NEW r \in Requests, NEW role \in Roles, NEW from, NEW to \in Points,
         Goto(r, role, from, to), role = "disp" => from # "wait" /\ to # "wait",
         UNCHANGED <<boot, req, ret, sent>>
  PROVE  at[r][role] = from /\ ReqTypes' /\ \E a : Moves(a, r, role, to) /\ Alone(r, a)
  <1>1. ret' \in [Requests -> SUBSET {"disp", "item"}] /\ sent' \in [Requests -> Nat]
    BY DEF RInv, Types, ReqTypes
  <1> QED
    BY <1>1, ThreadMoves

LEMMA ForksAlone ==
  ASSUME RInv, NEW r \in Requests, NEW role \in Roles, NEW from, NEW to \in Points,
         NEW other \in Roles, other # role, NEW point \in Points,
         Fork(r, role, from, to, other, point),
         role = "disp" => from # "wait" /\ to # "wait", other # "disp",
         UNCHANGED <<boot, req, sent>>,
         \A u \in Requests : u # r => ret'[u] = ret[u],
         ret' \in [Requests -> SUBSET {"disp", "item"}]
  PROVE  /\ at[r][role] = from /\ ReqTypes'
         /\ \E a : ForkMoves(a, r, role, to, other, point) /\ Alone(r, a)
  <1>1. ReqTypes
    BY DEF RInv, Types
  <1>2. at[r][role] = from /\ at' \in [Requests -> [Roles -> Points]]
    BY <1>1, ForkMovesBoth
  <1>3. PICK a : ForkMoves(a, r, role, to, other, point)
    BY <1>1, ForkMovesBoth
  <1>4. a["disp"] = "wait" <=> at[r]["disp"] = "wait"
    BY <1>2, <1>3 DEF ForkMoves, Roles
  <1>5. Alone(r, a)
    BY <1>3, <1>4 DEF ForkMoves, Alone, Only
  <1>6. ReqTypes'
    BY <1>1, <1>2 DEF ReqTypes
  <1> QED
    BY <1>2, <1>3, <1>5, <1>6

LEMMA SendCounts ==
  ASSUME RInv, NEW r \in Requests, Send(r)
  PROVE  /\ sent' \in [Requests -> Nat] /\ sent'[r] = sent[r] + 1
         /\ \A u \in Requests : u # r => sent'[u] = sent[u]
  BY DEF RInv, Types, ReqTypes, Send

-----------------------------------------------------------------------------
(* The dispatch *)

LEMMA ProcessingStays ==
  ASSUME RInv, NEW r \in Requests, ProcessIrpBasedDeviceRequest(r)
  PROVE  RInv'
  <1>1. \/ Goto(r, "disp", "node", "copy") \/ Goto(r, "disp", "node", "hook")
        \/ Goto(r, "disp", "node", "deref")
    BY DEF ProcessIrpBasedDeviceRequest, Visited, After
  <1>2. UNCHANGED <<boot, up, conn, event, global, dev, type, req, ret, sent>>
    BY DEF ProcessIrpBasedDeviceRequest
  <1>3. ASSUME NEW to \in {"copy", "hook", "deref"}, Goto(r, "disp", "node", to)
        PROVE  RInv'
    <2>1. PICK a : Moves(a, r, "disp", to) /\ Alone(r, a)
      BY <1>2, <1>3, QuietMoves DEF Roles, Points
    <2>2. at[r]["disp"] = "node" /\ ReqTypes'
      BY <1>2, <1>3, QuietMoves DEF Roles, Points
    <2>3. Fits(r, a)
      BY <1>2, <2>1, <2>2, FitsNow
         DEF Fits, Moves, PlacesFit, SendsFit, Early, Hooks, Served, Drivers, Roles
    <2>4. Weight(a) = Weight(at[r])
      BY <2>1, <2>2, FitsNow DEF Weight, InUse, Moves, Roles
    <2> QED
      BY <1>2, <2>1, <2>2, <2>3, <2>4, QuietStep, FitsNow DEF LinkTypes
  <1> QED
    BY <1>1, <1>3

LEMMA LinkTypesKept ==
  ASSUME LinkTypes, NEW s \in Drivers
  PROVE  /\ conn[s].refs \in Int /\ conn[s].current \in BOOLEAN
         /\ conn' = [conn EXCEPT ![s].refs = @ - 1] => conn' \in [Drivers -> [current : BOOLEAN, refs : Int]]
         /\ conn' = [conn EXCEPT ![s].refs = @ + 1] => conn' \in [Drivers -> [current : BOOLEAN, refs : Int]]
         /\ DeleteConnectObject(s) => event' \in [Drivers -> BOOLEAN]
         /\ Released(global) \in Locks /\ [global EXCEPT !.count = @ + 1] \in Locks
  <1>1. conn[s].refs \in Int /\ conn[s].current \in BOOLEAN
    BY DEF LinkTypes
  <1>2. \A n \in Int : [conn EXCEPT ![s].refs = n] \in [Drivers -> [current : BOOLEAN, refs : Int]]
    BY DEF LinkTypes
  <1>3. conn' = [conn EXCEPT ![s].refs = @ - 1] => conn' \in [Drivers -> [current : BOOLEAN, refs : Int]]
    BY <1>1, <1>2
  <1>4. conn' = [conn EXCEPT ![s].refs = @ + 1] => conn' \in [Drivers -> [current : BOOLEAN, refs : Int]]
    BY <1>1, <1>2
  <1>5. DeleteConnectObject(s) => event' \in [Drivers -> BOOLEAN]
    BY DEF LinkTypes, DeleteConnectObject
  <1>6. Released(global) \in Locks /\ [global EXCEPT !.count = @ + 1] \in Locks
    BY LockTypes DEF LinkTypes
  <1> QED
    BY <1>1, <1>3, <1>4, <1>5, <1>6

LEMMA DereferencedConnectionTypes ==
  ASSUME LinkTypes, NEW s \in Drivers, DereferenceConnection(s), UNCHANGED global
  PROVE  LinkTypes'
  BY LinkTypesKept DEF LinkTypes, DereferenceConnection

LEMMA DecidingStays ==
  ASSUME RInv, NEW r \in Requests, Decide(r)
  PROVE  RInv'
  <1>1. Goto(r, "disp", "decide", "leave")
        /\ UNCHANGED <<boot, up, conn, event, global, dev, type, req, ret>>
    BY DEF Decide
  <1>2. IF req[r].kind = "hook" /\ "disp" \notin ret[r] THEN Send(r) ELSE UNCHANGED sent
    BY DEF Decide, RequestCompletedOrPending
  <1>3. /\ sent' \in [Requests -> Nat] /\ \A u \in Requests : u # r => sent'[u] = sent[u]
        /\ sent'[r] = IF req[r].kind = "hook" /\ "disp" \notin ret[r] THEN sent[r] + 1 ELSE sent[r]
    BY <1>2, SendCounts DEF RInv, Types, ReqTypes
  <1>4. ret' \in [Requests -> SUBSET {"disp", "item"}] /\ ret'[r] = ret[r]
    BY <1>1 DEF RInv, Types, ReqTypes
  <1>5. PICK a : Moves(a, r, "disp", "leave") /\ Alone(r, a)
    BY <1>1, <1>3, <1>4, ThreadMoves DEF Roles, Points
  <1>6. at[r]["disp"] = "decide" /\ ReqTypes'
    BY <1>1, <1>3, <1>4, ThreadMoves DEF Roles, Points
  <1>7. Fits(r, a)
    BY <1>3, <1>4, <1>5, <1>6, FitsNow
       DEF Fits, Moves, PlacesFit, SendsFit, Early, Hooks, Served, Drivers, Roles
  <1>8. Weight(a) = Weight(at[r])
    BY <1>5, <1>6, FitsNow DEF Weight, InUse, Moves, Roles
  <1> QED
    BY <1>1, <1>5, <1>6, <1>7, <1>8, QuietStep, FitsNow DEF LinkTypes

LEMMA LeavingStays ==
  ASSUME RInv, NEW r \in Requests, Leave(r)
  PROVE  RInv'
  <1>1. Goto(r, "disp", "leave", "out") /\ DereferenceConnection(Source(r))
        /\ UNCHANGED <<boot, up, global, dev, type, req, ret>>
    BY DEF Leave
  <1>2. IF req[r].kind = "pnp" /\ "disp" \notin ret[r] THEN Send(r) ELSE UNCHANGED sent
    BY DEF Leave, RequestCompletedOrPending
  <1>3. /\ sent' \in [Requests -> Nat] /\ \A u \in Requests : u # r => sent'[u] = sent[u]
        /\ sent'[r] = IF req[r].kind = "pnp" /\ "disp" \notin ret[r] THEN sent[r] + 1 ELSE sent[r]
    BY <1>2, SendCounts DEF RInv, Types, ReqTypes
  <1>4. ret' \in [Requests -> SUBSET {"disp", "item"}] /\ ret'[r] = ret[r]
    BY <1>1 DEF RInv, Types, ReqTypes
  <1>5. PICK a : Moves(a, r, "disp", "out") /\ Alone(r, a)
    BY <1>1, <1>3, <1>4, ThreadMoves DEF Roles, Points
  <1>6. at[r]["disp"] = "leave" /\ ReqTypes'
    BY <1>1, <1>3, <1>4, ThreadMoves DEF Roles, Points
  <1>7. Fits(r, a)
    BY <1>3, <1>4, <1>5, <1>6, FitsNow
       DEF Fits, Moves, PlacesFit, SendsFit, Early, Hooks, Served, Drivers, Roles
  <1>8. Weight(a) = Weight(at[r])
    BY <1>5, <1>6, FitsNow DEF Weight, InUse, Moves, Roles
  <1>9. LinkTypes'
    BY <1>1, FitsNow, DereferencedConnectionTypes DEF Source, Drivers
  <1> QED
    BY <1>1, <1>5, <1>6, <1>7, <1>8, <1>9, QuietStep

LEMMA FindingStays ==
  ASSUME RInv, NEW r \in Requests, FindDevice(r)
  PROVE  RInv'
  <1>1. UNCHANGED <<boot, up, conn, event, global, type, req, ret, sent>>
    BY DEF FindDevice
  <1>2. CASE UNCHANGED dev /\ Goto(r, "disp", "in", "decide")
    <2>1. PICK a : Moves(a, r, "disp", "decide") /\ Alone(r, a)
      BY <1>1, <1>2, QuietMoves DEF Roles, Points
    <2>2. at[r]["disp"] = "in" /\ ReqTypes'
      BY <1>1, <1>2, QuietMoves DEF Roles, Points
    <2>3. Fits(r, a)
      BY <1>1, <2>1, <2>2, FitsNow
         DEF Fits, Moves, PlacesFit, SendsFit, Early, Hooks, Served, Drivers, Roles
    <2>4. Weight(a) = Weight(at[r])
      BY <2>1, <2>2, FitsNow DEF Weight, InUse, Moves, Roles
    <2> QED
      BY <1>1, <1>2, <2>1, <2>2, <2>3, <2>4, QuietStep, FitsNow DEF LinkTypes
  <1>3. CASE dev[Dev(r)].hashed /\ Reference(Dev(r)) /\ Goto(r, "disp", "in", "node")
    <2>1. PICK a : Moves(a, r, "disp", "node") /\ Alone(r, a)
      BY <1>1, <1>3, QuietMoves DEF Roles, Points
    <2>2. at[r]["disp"] = "in" /\ ReqTypes'
      BY <1>1, <1>3, QuietMoves DEF Roles, Points
    <2>3. Fits(r, a) /\ IsIo(r)
      BY <1>1, <2>1, <2>2, FitsNow
         DEF Fits, Moves, PlacesFit, SendsFit, Early, Hooks, Served, Drivers, Roles
    <2>4. Weight(a) - Weight(at[r]) = 1
      BY <2>1, <2>2, FitsNow DEF Weight, InUse, Moves, Roles
    <2>5. dev[Dev(r)].refs > 0
      BY <1>3, UsedDevicesLive, FitsNow
    <2>6. References(Dev(r), Weight(a) - Weight(at[r]), <<>>)
      BY <1>3, <2>4, <2>5, ReferenceAdds, FitsNow
    <2> QED
      BY <1>1, <1>3, <2>1, <2>2, <2>3, <2>6, ServiceStep, FitsNow DEF LinkTypes
  <1> QED
    BY <1>2, <1>3 DEF FindDevice

LEMMA CopyingStays ==
  ASSUME RInv, NEW r \in Requests, CreateNodeCtxCopy(r)
  PROVE  RInv'
  <1>1. UNCHANGED <<boot, up, conn, event, global, type, req, ret, sent>>
    BY DEF CreateNodeCtxCopy
  <1>2. ASSUME NEW to \in {"hook", "deref"}, UNCHANGED dev, Goto(r, "disp", "copy", to)
        PROVE  RInv'
    <2>1. PICK a : Moves(a, r, "disp", to) /\ Alone(r, a)
      BY <1>1, <1>2, QuietMoves DEF Roles, Points
    <2>2. at[r]["disp"] = "copy" /\ ReqTypes'
      BY <1>1, <1>2, QuietMoves DEF Roles, Points
    <2>3. Fits(r, a)
      BY <1>1, <2>1, <2>2, FitsNow
         DEF Fits, Moves, PlacesFit, SendsFit, Early, Hooks, Served, Drivers, Roles
    <2>4. Weight(a) = Weight(at[r])
      BY <2>1, <2>2, FitsNow DEF Weight, InUse, Moves, Roles
    <2> QED
      BY <1>1, <1>2, <2>1, <2>2, <2>3, <2>4, QuietStep, FitsNow DEF LinkTypes
  <1>3. CASE Reference(Dev(r)) /\ Goto(r, "disp", "copy", "lock")
    <2>1. PICK a : Moves(a, r, "disp", "lock") /\ Alone(r, a)
      BY <1>1, <1>3, QuietMoves DEF Roles, Points
    <2>2. at[r]["disp"] = "copy" /\ ReqTypes'
      BY <1>1, <1>3, QuietMoves DEF Roles, Points
    <2>3. Fits(r, a) /\ IsIo(r)
      BY <1>1, <2>1, <2>2, FitsNow
         DEF Fits, Moves, PlacesFit, SendsFit, Early, Hooks, Served, Drivers, Roles
    <2>4. Weight(a) - Weight(at[r]) = 1 /\ Weight(at[r]) > 0
      BY <2>1, <2>2, FitsNow DEF Weight, InUse, Moves, Roles
    <2>5. dev[Dev(r)].refs > 0
      BY <2>3, <2>4, UsedDevicesLive, FitsNow
    <2>6. References(Dev(r), Weight(a) - Weight(at[r]), <<>>)
      BY <1>3, <2>4, <2>5, ReferenceAdds, FitsNow
    <2> QED
      BY <1>1, <1>3, <2>1, <2>2, <2>3, <2>6, ServiceStep, FitsNow DEF LinkTypes
  <1> QED
    BY <1>2, <1>3 DEF CreateNodeCtxCopy, Visited, After

LEMMA UndoingTakes ==
  ASSUME RInv, NEW r \in Requests, UndoPostponing(r), dev[Dev(r)].refs > 0
  PROVE  References(Dev(r), -1, <<r, "disp">>)
  BY DereferenceAndReleaseTakes, FitsNow DEF UndoPostponing, RInv, Alive, Deleters

LEMMA LockingStays ==
  ASSUME RInv, NEW r \in Requests, AcquireDeviceLock(r)
  PROVE  RInv'
  <1>1. UNCHANGED <<boot, up, conn, event, global, type, req, ret, sent>>
        /\ at[r]["disp"] = "lock"
    BY DEF AcquireDeviceLock
  <1>2. CASE dev' = [dev EXCEPT ![Dev(r)].lock.count = @ + 1] /\ Goto(r, "disp", "lock", "post")
    <2>1. PICK a : Moves(a, r, "disp", "post") /\ Alone(r, a)
      BY <1>1, <1>2, QuietMoves DEF Roles, Points
    <2>2. ReqTypes'
      BY <1>1, <1>2, QuietMoves DEF Roles, Points
    <2>3. Fits(r, a) /\ IsIo(r)
      BY <1>1, <2>1, FitsNow
         DEF Fits, Moves, PlacesFit, SendsFit, Early, Hooks, Served, Drivers, Roles
    <2>4. Weight(a) - Weight(at[r]) = 0
      BY <1>1, <2>1, FitsNow DEF Weight, InUse, Moves, Roles
    <2>5. DevTypes /\ Dev(r) \in Devices
      BY FitsNow
    <2> DEFINE l == [dev[Dev(r)].lock EXCEPT !.count = @ + 1]
    <2>6. l \in Locks
      BY <2>5, DevTypesFields, FieldTypes, LockTypes
    <2>7. dev' = [dev EXCEPT ![Dev(r)].lock = l]
      BY <1>2, <2>5 DEF DevTypes
    <2> HIDE DEF l
    <2>8. References(Dev(r), Weight(a) - Weight(at[r]), <<>>)
      BY <2>4, <2>5, <2>6, <2>7, LockKeepsReferences
    <2> QED
      BY <1>1, <2>1, <2>2, <2>3, <2>8, ServiceStep, FitsNow DEF LinkTypes
  <1>3. ASSUME NEW to \in {"hook", "deref"}, UndoPostponing(r), Goto(r, "disp", "lock", to)
        PROVE  RInv'
    <2>1. PICK a : Moves(a, r, "disp", to) /\ Alone(r, a)
      BY <1>1, <1>3, QuietMoves DEF Roles, Points
    <2>2. ReqTypes'
      BY <1>1, <1>3, QuietMoves DEF Roles, Points
    <2>3. Fits(r, a) /\ IsIo(r)
      BY <1>1, <2>1, <2>2, FitsNow
         DEF Fits, Moves, PlacesFit, SendsFit, Early, Hooks, Served, Drivers, Roles
    <2>4. Weight(a) - Weight(at[r]) = -1 /\ Weight(at[r]) > 0
      BY <1>1, <2>1, <2>2, FitsNow DEF Weight, InUse, Moves, Roles
    <2>5. dev[Dev(r)].refs > 0
      BY <2>3, <2>4, UsedDevicesLive, FitsNow
    <2>6. References(Dev(r), Weight(a) - Weight(at[r]), <<r, "disp">>)
      BY <1>3, <2>4, <2>5, UndoingTakes
    <2> QED
      BY <1>1, <2>1, <2>2, <2>3, <2>6, ServiceStep, FitsNow DEF LinkTypes
  <1> QED
    BY <1>2, <1>3 DEF AcquireDeviceLock, Visited, After

LEMMA PostponingStays ==
  ASSUME RInv, NEW r \in Requests, IoPostponeNodeFunctionInWorkerThread(r)
  PROVE  RInv'
  <1>1. UNCHANGED <<boot, up, conn, event, global, type, req, sent>>
    BY DEF IoPostponeNodeFunctionInWorkerThread
  <1>2. CASE /\ Reference(Dev(r)) /\ ret' = [ret EXCEPT ![r] = @ \union {"disp"}]
             /\ Fork(r, "disp", "post", "deref", "item", "queued")
    <2>1. /\ ret' \in [Requests -> SUBSET {"disp", "item"}] /\ ret'[r] = ret[r] \cup {"disp"}
          /\ \A u \in Requests : u # r => ret'[u] = ret[u]
      BY <1>2 DEF RInv, Types, ReqTypes
    <2>a. "disp" \in Roles /\ "item" \in Roles /\ "deref" \in Points /\ "queued" \in Points
      BY DEF Roles, Points
    <2>b. /\ Fork(r, "disp", "post", "deref", "item", "queued")
          /\ UNCHANGED <<boot, req, sent>>
      BY <1>1, <1>2
    <2>2. PICK a : ForkMoves(a, r, "disp", "deref", "item", "queued") /\ Alone(r, a)
      BY <2>a, <2>b, <2>1, ForksAlone
    <2>3. at[r]["disp"] = "post" /\ ReqTypes'
      BY <2>a, <2>b, <2>1, ForksAlone
    <2>4. Fits(r, a) /\ IsIo(r)
      BY <1>1, <2>1, <2>2, <2>3, FitsNow
         DEF Fits, ForkMoves, PlacesFit, SendsFit, Early, Hooks, Served, Drivers, Roles
    <2>5. Weight(a) - Weight(at[r]) = 1 /\ Weight(at[r]) > 0
      BY <2>2, <2>3, FitsNow
         DEF Weight, InUse, InItem, InContext, ForkMoves, Roles, PlacesFit, Served
    <2>6. dev[Dev(r)].refs > 0
      BY <2>4, <2>5, UsedDevicesLive, FitsNow
    <2>7. References(Dev(r), Weight(a) - Weight(at[r]), <<>>)
      BY <1>2, <2>5, <2>6, ReferenceAdds, FitsNow
    <2> QED
      BY <1>1, <2>2, <2>3, <2>4, <2>7, ServiceStep, FitsNow DEF LinkTypes
  <1>3. ASSUME NEW to \in {"hook", "deref"}, UndoPostponing(r), Goto(r, "disp", "post", to),
               UNCHANGED ret
        PROVE  RInv'
    <2>1. PICK a : Moves(a, r, "disp", to) /\ Alone(r, a)
      BY <1>1, <1>3, QuietMoves DEF Roles, Points
    <2>2. at[r]["disp"] = "post" /\ ReqTypes'
      BY <1>1, <1>3, QuietMoves DEF Roles, Points
    <2>3. Fits(r, a) /\ IsIo(r)
      BY <1>1, <1>3, <2>1, <2>2, FitsNow
         DEF Fits, Moves, PlacesFit, SendsFit, Early, Hooks, Served, Drivers, Roles
    <2>4. Weight(a) - Weight(at[r]) = -1 /\ Weight(at[r]) > 0
      BY <2>1, <2>2, FitsNow DEF Weight, InUse, Moves, Roles
    <2>5. dev[Dev(r)].refs > 0
      BY <2>3, <2>4, UsedDevicesLive, FitsNow
    <2>6. References(Dev(r), Weight(a) - Weight(at[r]), <<r, "disp">>)
      BY <1>3, <2>4, <2>5, UndoingTakes
    <2> QED
      BY <1>1, <2>1, <2>2, <2>3, <2>6, ServiceStep, FitsNow DEF LinkTypes
  <1> QED
    BY <1>2, <1>3 DEF IoPostponeNodeFunctionInWorkerThread, Visited, After

\* The three steps that drop a reference to the device.
LEMMA DroppingStays ==
  ASSUME RInv, NEW r \in Requests, NEW role \in {"disp", "item"}, NEW from, NEW to \in Points,
         \/ role = "disp" /\ from = "deref" /\ to = "decide"
         \/ role = "item" /\ from = "drop" /\ to = "free"
         \/ role = "item" /\ from = "free" /\ to = "freed",
         Goto(r, role, from, to), Dereference(Dev(r), <<r, role>>),
         UNCHANGED <<boot, up, conn, event, global, type, req, ret, sent>>
  PROVE  RInv'
  <1>1. role \in Roles /\ (role = "disp" => from # "wait" /\ to # "wait")
    BY DEF Roles
  <1>2. PICK a : Moves(a, r, role, to) /\ Alone(r, a)
    BY <1>1, QuietMoves
  <1>3. at[r][role] = from /\ ReqTypes'
    BY <1>1, QuietMoves
  <1>4. Fits(r, a) /\ IsIo(r)
    BY <1>2, <1>3, FitsNow
       DEF Fits, Moves, PlacesFit, SendsFit, Early, Hooks, Served, Drivers, Roles
  <1>5. Weight(a) - Weight(at[r]) = -1 /\ Weight(at[r]) > 0
    BY <1>2, <1>3, FitsNow DEF Weight, InUse, InItem, InContext, Moves, Roles
  <1>6. dev[Dev(r)].refs > 0 /\ dev[Dev(r)].obj = "live"
    BY <1>4, <1>5, UsedDevicesLive, FitsNow DEF RInv, Alive
  <1>7. References(Dev(r), Weight(a) - Weight(at[r]), <<r, role>>)
    BY <1>5, <1>6, DereferenceTakes, FitsNow DEF Deleters
  <1> QED
    BY <1>2, <1>3, <1>4, <1>7, ServiceStep, FitsNow DEF LinkTypes

-----------------------------------------------------------------------------
(* Hooking the completion *)

\* A step to hook the completion of the request, that the device does not see.
LEMMA HookingMoves ==
  ASSUME RInv, NEW r \in Requests, NEW role \in {"disp", "item"}, NEW from \in Hooks, NEW to,
         to \in Hooks \/ to = After(role), Goto(r, role, from, to),
         UNCHANGED <<boot, up, type, dev, req, ret, sent>>, LinkTypes'
  PROVE  RInv'
  <1>1. /\ role \in Roles /\ (role = "disp" => from # "wait" /\ to # "wait")
        /\ from \in Points /\ to \in Points
    BY DEF Roles, After, Hooks, Points
  <1>2. PICK a : Moves(a, r, role, to) /\ Alone(r, a)
    BY <1>1, QuietMoves
  <1>3. at[r][role] = from /\ ReqTypes'
    BY <1>1, QuietMoves
  <1>4. CASE role = "disp"
    <2>1. Fits(r, a)
      BY <1>2, <1>3, <1>4, FitsNow
         DEF Fits, Moves, PlacesFit, SendsFit, Early, Hooks, Served, Drivers, Roles, After
    <2>2. Weight(a) = Weight(at[r])
      BY <1>2, <1>3, <1>4, FitsNow DEF Weight, InUse, Moves, Roles, Hooks, After
    <2> QED
      BY <1>2, <1>3, <2>1, <2>2, QuietStep
  <1>5. CASE role = "item"
    <2>1. Fits(r, a)
      BY <1>2, <1>3, <1>5, FitsNow
         DEF Fits, Moves, PlacesFit, SendsFit, Early, Hooks, Served, Drivers, Roles, After
    <2>2. Weight(a) = Weight(at[r])
      BY <1>2, <1>3, <1>5, FitsNow DEF Weight, InItem, InContext, Moves, Roles, Hooks, After
    <2> QED
      BY <1>2, <1>3, <2>1, <2>2, QuietStep
  <1> QED
    BY <1>4, <1>5

LEMMA AllocatingStays ==
  ASSUME RInv, NEW r \in Requests, NEW role \in {"disp", "item"},
         Goto(r, role, "context", After(role)), global' = Released(global),
         ret' = [ret EXCEPT ![r] = @ \union {role}], Send(r),
         UNCHANGED <<boot, up, conn, event, dev, type, req>>
  PROVE  RInv'
  <1>1. /\ role \in Roles /\ (role = "disp" => "context" # "wait" /\ After(role) # "wait")
        /\ "context" \in Points /\ After(role) \in Points
    BY DEF Roles, After, Points
  <1>2. /\ sent' \in [Requests -> Nat] /\ \A u \in Requests : u # r => sent'[u] = sent[u]
        /\ sent'[r] = sent[r] + 1
    BY SendCounts
  <1>3. /\ ret' \in [Requests -> SUBSET {"disp", "item"}] /\ ret'[r] = ret[r] \cup {role}
        /\ \A u \in Requests : u # r => ret'[u] = ret[u]
    BY DEF RInv, Types, ReqTypes
  <1>4. PICK a : Moves(a, r, role, After(role)) /\ Alone(r, a)
    BY <1>1, <1>2, <1>3, ThreadMoves
  <1>5. at[r][role] = "context" /\ ReqTypes'
    BY <1>1, <1>2, <1>3, ThreadMoves
  <1>6. LinkTypes'
    BY FitsNow, LockTypes DEF LinkTypes
  <1>7. CASE role = "disp"
    <2>1. Fits(r, a)
      BY <1>2, <1>3, <1>4, <1>5, <1>7, FitsNow
         DEF Fits, Moves, PlacesFit, SendsFit, Early, Hooks, Served, Drivers, Roles, After
    <2>2. Weight(a) = Weight(at[r])
      BY <1>4, <1>5, <1>7, FitsNow DEF Weight, InUse, Moves, Roles, After
    <2> QED
      BY <1>4, <1>5, <1>6, <2>1, <2>2, QuietStep
  <1>8. CASE role = "item"
    <2>1. Fits(r, a)
      BY <1>2, <1>3, <1>4, <1>5, <1>8, FitsNow
         DEF Fits, Moves, PlacesFit, SendsFit, Early, Hooks, Served, Drivers, Roles, After
    <2>2. Weight(a) = Weight(at[r])
      BY <1>4, <1>5, <1>8, FitsNow DEF Weight, InItem, InContext, Moves, Roles, After
    <2> QED
      BY <1>4, <1>5, <1>6, <2>1, <2>2, QuietStep
  <1> QED
    BY <1>7, <1>8

LEMMA CookieStays ==
  ASSUME RInv, NEW r \in Requests, NEW role \in {"disp", "item"},
         conn' = [conn EXCEPT !["hook"].refs = @ + 1],
         Fork(r, role, "cookie", After(role), "comp", "hooked"),
         UNCHANGED <<boot, up, event, global, dev, type, req, ret, sent>>
  PROVE  RInv'
  <1>1. /\ role \in Roles /\ (role = "disp" => "cookie" # "wait" /\ After(role) # "wait")
        /\ "cookie" \in Points /\ After(role) \in Points
        /\ "comp" \in Roles /\ "comp" # role /\ "comp" # "disp" /\ "hooked" \in Points
    BY DEF Roles, After, Points
  <1>2. ret' \in [Requests -> SUBSET {"disp", "item"}] /\ UNCHANGED <<boot, req, sent>>
        /\ \A u \in Requests : u # r => ret'[u] = ret[u]
    BY DEF RInv, Types, ReqTypes
  <1>3. PICK a : ForkMoves(a, r, role, After(role), "comp", "hooked") /\ Alone(r, a)
    BY <1>1, <1>2, ForksAlone
  <1>4. at[r][role] = "cookie" /\ ReqTypes'
    BY <1>1, <1>2, ForksAlone
  <1>5. LinkTypes'
    <2>1. conn' \in [Drivers -> [current : BOOLEAN, refs : Int]]
      BY FitsNow, LinkTypesKept DEF Drivers
    <2> QED
      BY <2>1, FitsNow DEF LinkTypes
  <1>6. CASE role = "disp"
    <2>1. Fits(r, a)
      BY <1>3, <1>4, <1>6, FitsNow
         DEF Fits, ForkMoves, PlacesFit, SendsFit, Early, Hooks, Served, Drivers, Roles, After
    <2>2. Weight(a) = Weight(at[r])
      BY <1>3, <1>4, <1>6, FitsNow DEF Weight, InUse, ForkMoves, Roles, After
    <2> QED
      BY <1>3, <1>4, <1>5, <2>1, <2>2, QuietStep
  <1>7. CASE role = "item"
    <2>1. Fits(r, a)
      BY <1>3, <1>4, <1>7, FitsNow
         DEF Fits, ForkMoves, PlacesFit, SendsFit, Early, Hooks, Served, Drivers, Roles, After
    <2>2. Weight(a) = Weight(at[r])
      BY <1>3, <1>4, <1>7, FitsNow DEF Weight, InItem, InContext, ForkMoves, Roles, After
    <2> QED
      BY <1>3, <1>4, <1>5, <2>1, <2>2, QuietStep
  <1> QED
    BY <1>6, <1>7

LEMMA HookingStays ==
  ASSUME RInv, NEW r \in Requests, NEW role \in {"disp", "item"}, HookCompletion(r, role)
  PROVE  RInv'
  <1>0. {"hook", "context", "cookie", "unhook"} = Hooks
    BY DEF Hooks
  <1>1. CASE AcquireGlobalLock(r, role)
    <2>1. LinkTypes'
      BY <1>1, FitsNow, LockTypes DEF LinkTypes, AcquireGlobalLock
    <2>2. Goto(r, role, "hook", After(role)) \/ Goto(r, role, "hook", "context")
      BY <1>1 DEF AcquireGlobalLock
    <2> QED
      BY <1>0, <1>1, <2>1, <2>2, HookingMoves DEF AcquireGlobalLock
  <1>2. CASE AllocateCompletionHookContext(r, role)
    <2>1. CASE Goto(r, role, "context", "cookie") /\ UNCHANGED <<global, ret, sent>>
      <3>1. UNCHANGED <<boot, up, conn, event, dev, type, req>>
        BY <1>2 DEF AllocateCompletionHookContext
      <3>2. LinkTypes'
        BY <2>1, <3>1, FitsNow DEF LinkTypes
      <3> QED
        BY <1>0, <2>1, <3>1, <3>2, HookingMoves
    <2> QED
      BY <1>2, <2>1, AllocatingStays DEF AllocateCompletionHookContext
  <1>3. CASE AcquireCookieForCompletion(r, role)
    <2>1. CASE conn["hook"].current
      BY <1>3, <2>1, CookieStays DEF AcquireCookieForCompletion
    <2>2. CASE ~conn["hook"].current
      <3>1. /\ Goto(r, role, "cookie", "unhook") /\ global' = Released(global) /\ UNCHANGED conn
            /\ UNCHANGED <<boot, up, event, dev, type, req, ret, sent>>
        BY <1>3, <2>2 DEF AcquireCookieForCompletion
      <3>2. LinkTypes'
        BY <3>1, FitsNow, LockTypes DEF LinkTypes
      <3> QED
        BY <1>0, <3>1, <3>2, HookingMoves
    <2> QED
      BY <2>1, <2>2
  <1>4. CASE HookRefused(r, role)
    <2>1. Goto(r, role, "unhook", After(role))
          /\ UNCHANGED <<boot, up, conn, event, global, dev, type, req, ret, sent>>
      BY <1>4 DEF HookRefused
    <2>2. LinkTypes'
      BY <2>1, FitsNow DEF LinkTypes
    <2> QED
      BY <1>0, <2>1, <2>2, HookingMoves
  <1> QED
    BY <1>1, <1>2, <1>3, <1>4 DEF HookCompletion

-----------------------------------------------------------------------------
(* The work item and the completion *)

LEMMA ItemStays ==
  ASSUME RInv, NEW r \in Requests, IoNodeFunctionWR(r) \/ NodeContextFreed(r)
  PROVE  RInv'
  <1>1. UNCHANGED <<boot, up, conn, event, global, dev, type, req, ret, sent>>
    BY DEF IoNodeFunctionWR, NodeContextFreed
  <1>2. PICK from \in {"queued", "freed"}, to \in {"hook", "send", "out"} :
          /\ Goto(r, "item", from, to)
          /\ from = "queued" <=> to # "out"
    BY DEF IoNodeFunctionWR, NodeContextFreed, Visited, After
  <1>3. PICK a : Moves(a, r, "item", to) /\ Alone(r, a)
    BY <1>1, <1>2, QuietMoves DEF Roles, Points
  <1>4. at[r]["item"] = from /\ ReqTypes'
    BY <1>1, <1>2, QuietMoves DEF Roles, Points
  <1>5. Fits(r, a)
    BY <1>1, <1>2, <1>3, <1>4, FitsNow
       DEF Fits, Moves, PlacesFit, SendsFit, Early, Hooks, Served, Drivers, Roles
  <1>6. Weight(a) = Weight(at[r])
    BY <1>2, <1>3, <1>4, FitsNow DEF Weight, InItem, InContext, Moves, Roles
  <1> QED
    BY <1>1, <1>3, <1>4, <1>5, <1>6, QuietStep, FitsNow DEF LinkTypes

LEMMA SendingStays ==
  ASSUME RInv, NEW r \in Requests, SendFromItem(r)
  PROVE  RInv'
  <1>1. Goto(r, "item", "send", "unlock")
        /\ UNCHANGED <<boot, up, conn, event, global, dev, type, req, ret>>
    BY DEF SendFromItem
  <1>2. IF "item" \in ret[r] THEN UNCHANGED sent ELSE Send(r)
    BY DEF SendFromItem, RequestCompletedOrPending
  <1>3. /\ sent' \in [Requests -> Nat] /\ \A u \in Requests : u # r => sent'[u] = sent[u]
        /\ sent'[r] = IF "item" \in ret[r] THEN sent[r] ELSE sent[r] + 1
    BY <1>2, SendCounts DEF RInv, Types, ReqTypes
  <1>4. ret' \in [Requests -> SUBSET {"disp", "item"}] /\ ret'[r] = ret[r]
    BY <1>1 DEF RInv, Types, ReqTypes
  <1>5. PICK a : Moves(a, r, "item", "unlock") /\ Alone(r, a)
    BY <1>1, <1>3, <1>4, ThreadMoves DEF Roles, Points
  <1>6. at[r]["item"] = "send" /\ ReqTypes'
    BY <1>1, <1>3, <1>4, ThreadMoves DEF Roles, Points
  <1>7. Fits(r, a)
    BY <1>3, <1>4, <1>5, <1>6, FitsNow
       DEF Fits, Moves, PlacesFit, SendsFit, Early, Hooks, Served, Drivers, Roles
  <1>8. Weight(a) = Weight(at[r])
    BY <1>5, <1>6, FitsNow DEF Weight, InItem, InContext, Moves, Roles
  <1> QED
    BY <1>1, <1>5, <1>6, <1>7, <1>8, QuietStep, FitsNow DEF LinkTypes

LEMMA UnlockingStays ==
  ASSUME RInv, NEW r \in Requests, ReleaseDeviceLock(r)
  PROVE  RInv'
  <1>1. /\ Goto(r, "item", "unlock", "drop") /\ dev' = [dev EXCEPT ![Dev(r)].lock = Released(@)]
        /\ UNCHANGED <<boot, up, conn, event, global, type, req, ret, sent>>
    BY DEF ReleaseDeviceLock
  <1>2. PICK a : Moves(a, r, "item", "drop") /\ Alone(r, a)
    BY <1>1, QuietMoves DEF Roles, Points
  <1>3. at[r]["item"] = "unlock" /\ ReqTypes'
    BY <1>1, QuietMoves DEF Roles, Points
  <1>4. Fits(r, a) /\ IsIo(r)
    BY <1>1, <1>2, <1>3, FitsNow
       DEF Fits, Moves, PlacesFit, SendsFit, Early, Hooks, Served, Drivers, Roles
  <1>5. Weight(a) - Weight(at[r]) = 0
    BY <1>2, <1>3, FitsNow DEF Weight, InItem, InContext, Moves, Roles
  <1>6. DevTypes /\ Dev(r) \in Devices
    BY FitsNow
  <1> DEFINE l == Released(dev[Dev(r)].lock)
  <1>7. l \in Locks
    BY <1>6, DevTypesFields, FieldTypes, LockTypes
  <1>8. dev' = [dev EXCEPT ![Dev(r)].lock = l]
    BY <1>1, <1>6 DEF DevTypes
  <1> HIDE DEF l
  <1>9. References(Dev(r), Weight(a) - Weight(at[r]), <<>>)
    BY <1>5, <1>6, <1>7, <1>8, LockKeepsReferences
  <1> QED
    BY <1>1, <1>2, <1>3, <1>4, <1>9, ServiceStep, FitsNow DEF LinkTypes

\* The steps of the completion concern neither the device nor the sending.
LEMMA CompletionMoves ==
  ASSUME RInv, NEW r \in Requests, NEW role \in {"comp", "citem"}, NEW from, NEW to,
         \/ role = "comp" /\ from = "hooked" /\ to = "callback"
         \/ role = "comp" /\ from = "callback" /\ to = "free"
         \/ role = "comp" /\ from = "free" /\ to = "release"
         \/ role = "comp" /\ from = "release" /\ to = "finish"
         \/ role = "comp" /\ from = "finish" /\ to = "out"
         \/ role = "citem" /\ from = "queued" /\ to = "free"
         \/ role = "citem" /\ from = "free" /\ to = "release"
         \/ role = "citem" /\ from = "release" /\ to = "end"
         \/ role = "citem" /\ from = "end" /\ to = "out",
         Goto(r, role, from, to), LinkTypes', UNCHANGED <<boot, up, dev, type, req, ret, sent>>
  PROVE  RInv'
  <1>1. role \in Roles /\ role # "disp" /\ to \in Points
    BY DEF Roles, Points
  <1>2. PICK a : Moves(a, r, role, to) /\ Alone(r, a)
    BY <1>1, QuietMoves
  <1>3. at[r][role] = from /\ ReqTypes'
    BY <1>1, QuietMoves
  <1>4. a["disp"] = at[r]["disp"] /\ a["item"] = at[r]["item"]
    BY <1>2 DEF Moves, Roles
  <1>5. a[role] = to /\ (role = "comp" => a["citem"] = at[r]["citem"])
        /\ (role = "citem" => a["comp"] = at[r]["comp"])
    BY <1>2 DEF Moves, Roles
  <1>6. PlacesFit(req[r].kind, a)
    BY <1>3, <1>4, <1>5, FitsNow DEF PlacesFit
  <1>7. Fits(r, a)
    BY <1>4, <1>6, FitsNow DEF Fits, SendsFit
  <1>8. Weight(a) = Weight(at[r])
    BY <1>4 DEF Weight
  <1> QED
    BY <1>2, <1>3, <1>7, <1>8, QuietStep

LEMMA CompletionForkStays ==
  ASSUME RInv, NEW r \in Requests, Fork(r, "comp", "callback", "finish", "citem", "queued"),
         UNCHANGED <<boot, up, conn, event, global, dev, type, req, ret, sent>>
  PROVE  RInv'
  <1>1. /\ "comp" \in Roles /\ "citem" \in Roles /\ "comp" # "citem" /\ "citem" # "disp"
        /\ "comp" # "disp" /\ "finish" \in Points /\ "queued" \in Points
    BY DEF Roles, Points
  <1>2. ret' \in [Requests -> SUBSET {"disp", "item"}] /\ UNCHANGED <<boot, req, sent>>
        /\ \A u \in Requests : u # r => ret'[u] = ret[u]
    BY DEF RInv, Types, ReqTypes
  <1>3. PICK a : ForkMoves(a, r, "comp", "finish", "citem", "queued") /\ Alone(r, a)
    BY <1>1, <1>2, ForksAlone
  <1>4. at[r]["comp"] = "callback" /\ ReqTypes'
    BY <1>1, <1>2, ForksAlone
  <1>5. a["disp"] = at[r]["disp"] /\ a["item"] = at[r]["item"]
        /\ a["comp"] = "finish" /\ a["citem"] = "queued"
    BY <1>3 DEF ForkMoves, Roles
  <1>6. Fits(r, a)
    BY <1>4, <1>5, FitsNow DEF Fits, PlacesFit, SendsFit
  <1>7. Weight(a) = Weight(at[r])
    BY <1>5 DEF Weight
  <1>8. LinkTypes'
    BY FitsNow DEF LinkTypes
  <1> QED
    BY <1>3, <1>4, <1>6, <1>7, <1>8, QuietStep

LEMMA CompletionStays ==
  ASSUME RInv, NEW r \in Requests, CompletionStep(r) \/ CompletionItemStep(r)
  PROVE  RInv'
  <1> USE FitsNow
  <1>1. CASE LowerDriverCompletes(r)
    BY <1>1, CompletionMoves DEF LowerDriverCompletes, LinkTypes
  <1>2. CASE CompletionCallback(r)
    BY <1>2, CompletionMoves, CompletionForkStays DEF CompletionCallback, LinkTypes
  <1>3. CASE CallCompletionCallbackWR(r)
    BY <1>3, CompletionMoves DEF CallCompletionCallbackWR, LinkTypes
  <1>4. ASSUME NEW role \in {"comp", "citem"}, ContinueCompletion(r, role)
        PROVE  RInv'
    BY <1>4, CompletionMoves DEF ContinueCompletion, LinkTypes
  <1>5. ASSUME NEW role \in {"comp", "citem"}, ReleaseGlobalLock(r, role)
        PROVE  RInv'
    <2>1. LinkTypes'
      BY <1>5, LockTypes DEF ReleaseGlobalLock, LinkTypes
    <2> QED
      BY <1>5, <2>1, CompletionMoves DEF ReleaseGlobalLock
  <1>6. CASE CompletionItemEnds(r)
    BY <1>6, CompletionMoves DEF CompletionItemEnds, LinkTypes
  <1>7. CASE HookerCompletionRoutine(r)
    <2>1. LinkTypes'
      BY <1>7, DereferencedConnectionTypes DEF HookerCompletionRoutine, Drivers
    <2> QED
      BY <1>7, <2>1, CompletionMoves DEF HookerCompletionRoutine
  <1> QED
    BY <1>1, <1>2, <1>3, <1>4, <1>5, <1>6, <1>7 DEF CompletionStep, CompletionItemStep

-----------------------------------------------------------------------------
(* The drivers call the core driver *)

LEMMA CallingStays ==
  ASSUME RInv, NEW r \in Requests, ReferenceCurrentConnectObject(r)
  PROVE  RInv'
  <1>1. PICK q \in Kinds[r] :
          /\ req' = [req EXCEPT ![r] = q]
          /\ LET s == IF q.kind = "hook" THEN "hook" ELSE "pnp"
                 first == CASE q.kind = "report" -> "insert"
                            [] q.kind = "remove" -> "remove"
                            [] OTHER -> "in"
             IN  IF conn[s].current
                 THEN /\ conn' = [conn EXCEPT ![s].refs = @ + 1]
                      /\ Goto(r, "disp", "new", first)
                      /\ UNCHANGED sent
                 ELSE /\ Goto(r, "disp", "new", "out")
                      /\ IF q.kind \in Drivers THEN Send(r) ELSE UNCHANGED sent
                      /\ UNCHANGED conn
          /\ UNCHANGED <<boot, up, event, global, dev, type, ret>>
    BY DEF ReferenceCurrentConnectObject
  <1>2. /\ q.kind \in {"hook", "pnp", "report", "remove"} /\ q \in ReqRecords
    BY CoreDriverAssumption DEF ReqRecords
  <1>3. PICK to \in {"insert", "remove", "in", "out"} :
          /\ Goto(r, "disp", "new", to)
          /\ to = "insert" => q.kind = "report"
          /\ to = "remove" => q.kind = "remove"
          /\ to = "in" => q.kind \in Drivers
          /\ IF to = "out" /\ q.kind \in Drivers THEN Send(r) ELSE UNCHANGED sent
    BY <1>1, <1>2 DEF Drivers
  <1>4. /\ sent' \in [Requests -> Nat] /\ \A u \in Requests : u # r => sent'[u] = sent[u]
        /\ sent'[r] = IF to = "out" /\ q.kind \in Drivers THEN sent[r] + 1 ELSE sent[r]
    BY <1>3, SendCounts DEF RInv, Types, ReqTypes
  <1>5. /\ ReqTypes /\ LinkTypes /\ at[r]["disp"] = "new"
        /\ at' \in [Requests -> [Roles -> Points]]
    <2>1. "disp" \in Roles /\ to \in Points
      BY DEF Roles, Points
    <2>2. ReqTypes /\ LinkTypes
      BY FitsNow
    <2>3. Goto(r, "disp", "new", to)
      BY <1>3
    <2> QED
      BY <2>1, <2>2, <2>3, GotoMoves
  <1>6. PICK a : Moves(a, r, "disp", to)
    <2>1. "disp" \in Roles /\ to \in Points
      BY DEF Roles, Points
    <2>2. Goto(r, "disp", "new", to)
      BY <1>3
    <2> QED
      BY <1>5, <2>1, <2>2, GotoMoves
  <1>7. /\ req' \in [Requests -> ReqRecords] /\ req'[r] = q
        /\ \A u \in Requests : u # r => req'[u] = req[u]
    BY <1>1, <1>2, <1>5 DEF ReqTypes
  <1>8. ReqTypes'
    BY <1>1, <1>4, <1>5, <1>7 DEF ReqTypes
  <1>9. LinkTypes'
    <2>1. conn' \in [Drivers -> [current : BOOLEAN, refs : Int]]
      <3>1. PICK s \in Drivers : conn' = [conn EXCEPT ![s].refs = @ + 1] \/ UNCHANGED conn
        BY <1>1 DEF Drivers
      <3> QED
        BY <1>5, <3>1, LinkTypesKept DEF LinkTypes
    <2> QED
      BY <1>1, <1>5, <2>1 DEF LinkTypes
  <1>10. BootTypes' /\ DevTypes'
    BY <1>1 DEF RInv, Types, BootTypes, DevTypes
  <1>11. PlacesFit(q.kind, a) /\ SendsFit(q.kind, a, ret'[r], sent'[r])
    <2>1. ret'[r] = ret[r]
      BY <1>1
    <2> QED
      BY <2>1, <1>2, <1>3, <1>4, <1>5, <1>6, FitsNow
         DEF Moves, PlacesFit, SendsFit, Early, Hooks, Served, Drivers, Roles
  <1>12. RequestsFit'
    <2> SUFFICES ASSUME NEW u \in Requests
                 PROVE  /\ PlacesFit(req'[u].kind, at'[u])
                        /\ SendsFit(req'[u].kind, at'[u], ret'[u], sent'[u])
      BY DEF RequestsFit
    <2>1. CASE u = r
      BY <1>6, <1>7, <1>11, <2>1 DEF Moves
    <2>2. CASE u # r
      BY <1>1, <1>4, <1>6, <1>7, <2>2 DEF Moves, RInv, RequestsFit
    <2> QED
      BY <2>1, <2>2
  <1>13. \A u \in Requests : u # r => at'[u] = at[u]
    BY <1>6 DEF Moves
  <1>14. at'[r]["disp"] = to /\ at'[r]["item"] = "none"
    BY <1>5, <1>6, FitsNow DEF Moves, Roles, PlacesFit, Served
  <1>15. at[r]["item"] = "none"
    BY <1>5, FitsNow DEF PlacesFit, Served
  <1>16. \A d \in Devices : CleanersOf(d)' = CleanersOf(d)
    <2> SUFFICES ASSUME NEW d \in Devices, NEW u \in Requests
                 PROVE  u \in CleanersOf(d)' <=> u \in CleanersOf(d)
      BY DEF CleanersOf
    <2>1. CASE u = r
      BY <1>5, <1>14, <2>1 DEF CleanersOf
    <2>2. CASE u # r
      BY <1>7, <1>13, <2>2 DEF CleanersOf, Dev
    <2> QED
      BY <2>1, <2>2
  <1>17. ASSUME NEW d \in Devices, NEW role \in {"disp", "item"},
                NEW points \in {InUse, {"lock", "post"}, InItem, InContext},
                role = "disp" => points \in {InUse, {"lock", "post"}},
                role = "item" => points \in {InItem, InContext}
         PROVE  UsersOf(d, role, points)' = UsersOf(d, role, points)
    <2> SUFFICES ASSUME NEW u \in Requests
                 PROVE  u \in UsersOf(d, role, points)' <=> u \in UsersOf(d, role, points)
      BY DEF UsersOf
    <2>1. CASE u = r
      BY <1>5, <1>14, <1>15, <1>17, <2>1 DEF UsersOf, InUse, InItem, InContext
    <2>2. CASE u # r
      BY <1>7, <1>13, <2>2 DEF UsersOf, Dev, IsIo
    <2> QED
      BY <2>1, <2>2
  <1>18. OneOwner' /\ Alive'
    BY <1>1, <1>16 DEF RInv, OneOwner, Alive
  <1>19. DeviceReferencesAreExact'
    <2> SUFFICES ASSUME NEW d \in Devices
                 PROVE  dev'[d].refs = Owner(d)' + Cardinality(UsersOf(d, "disp", InUse)')
                      + Cardinality(UsersOf(d, "disp", {"lock", "post"})')
                      + Cardinality(UsersOf(d, "item", InItem)')
                      + Cardinality(UsersOf(d, "item", InContext)')
      BY ReferencesOfNext
    <2>1. /\ UsersOf(d, "disp", InUse)' = UsersOf(d, "disp", InUse)
          /\ UsersOf(d, "disp", {"lock", "post"})' = UsersOf(d, "disp", {"lock", "post"})
          /\ UsersOf(d, "item", InItem)' = UsersOf(d, "item", InItem)
          /\ UsersOf(d, "item", InContext)' = UsersOf(d, "item", InContext)
      BY <1>17
    <2>2. Owner(d)' = Owner(d) /\ dev'[d] = dev[d]
      BY <1>1, <1>16 DEF Owner
    <2> QED
      BY <2>1, <2>2, ReferencesOf DEF RInv
  <1> QED
    BY <1>8, <1>9, <1>10, <1>12, <1>18, <1>19 DEF RInv, Types

-----------------------------------------------------------------------------
(* The reference of the hash changes hands *)

\* What becomes of device d: a record of its type; the others stay.
Becomes(d, p) == /\ p \in DevRecords /\ dev'[d] = p /\ dev' \in [Devices -> DevRecords]
                 /\ \A e \in Devices : e # d => dev'[e] = dev[e]

LEMMA DeviceBecomes ==
  ASSUME DevTypes, NEW d \in Devices, NEW p \in DevRecords, dev' = [dev EXCEPT ![d] = p]
  PROVE  Becomes(d, p)
  BY DEF DevTypes, Becomes

LEMMA CreationIs ==
  ASSUME DevTypes, NEW d \in Devices, CreateDevice(d)
  PROVE  /\ Becomes(d, NewDevice) /\ DevTypes'
         /\ NewDevice.refs = 1 /\ NewDevice.hashed /\ NewDevice.obj = "live"
         /\ type'.count = type.count + 1 /\ type'.marked = type.marked
         /\ type'.deleted = type.deleted
  <1>1. NewLock \in Locks /\ <<>> \in Deleters
    BY DEF NewLock, Locks, Deleters
  <1> DEFINE p == [NoDev EXCEPT !.obj = "live"]
             q == [p EXCEPT !.hashed = TRUE]
  <1>a. NoDev \in DevRecords
    BY <1>1 DEF DevRecords, NoDev
  <1>b. p \in DevRecords /\ p.obj = "live"
    BY <1>a, ObjSet
  <1>c. NewDevice = [q EXCEPT !.refs = 1]
    BY DEF NewDevice, NoDev
  <1> HIDE DEF p
  <1>d. q \in DevRecords /\ q.obj = "live" /\ q.hashed
    <2>1. TRUE \in BOOLEAN
      OBVIOUS
    <2>2. [p EXCEPT !.hashed = TRUE] \in DevRecords
      BY <1>b, <2>1, HashedSet
    <2>3. q.obj = p.obj /\ q.hashed
      BY <1>b DEF DevRecords
    <2> QED
      BY <1>b, <2>2, <2>3
  <1> HIDE DEF q
  <1>e. 1 \in Int
    OBVIOUS
  <1>2. NewDevice.refs = 1 /\ NewDevice.hashed /\ NewDevice.obj = "live"
    BY <1>c, <1>d, <1>e, RefsSet
  <1>3. NewDevice \in DevRecords
    BY <1>c, <1>d, <1>e, RefsSet
  <1>4. Becomes(d, NewDevice)
    BY <1>3, DeviceBecomes DEF CreateDevice
  <1>5. type' \in [count : Int, marked : BOOLEAN, deleted : BOOLEAN] /\ type'.count = type.count + 1
        /\ type'.marked = type.marked /\ type'.deleted = type.deleted
    BY DEF CreateDevice, DevTypes
  <1> QED
    BY <1>2, <1>4, <1>5 DEF Becomes, DevTypes

LEMMA RemovalIs ==
  ASSUME DevTypes, NEW d \in Devices, RemoveFromHash(d)
  PROVE  \E p : /\ Becomes(d, p) /\ ~p.hashed /\ p.refs = dev[d].refs
                /\ p.obj = dev[d].obj /\ p.by = dev[d].by
  <1> DEFINE l == [dev[d].lock EXCEPT !.count = @ + 1]
             q == [dev[d] EXCEPT !.hashed = FALSE]
             p == [q EXCEPT !.lock = Closed(l)]
  <1>1. dev[d] \in DevRecords /\ dev \in [Devices -> DevRecords] /\ dev[d].lock \in Locks
    BY DevTypesFields, FieldTypes
  <1>2. l \in Locks
    BY <1>1, LockTypes
  <1>3. dev' = [dev EXCEPT ![d] = [[dev[d] EXCEPT !.hashed = FALSE] EXCEPT !.lock = Closed(l)]]
    BY <1>1 DEF RemoveFromHash
  <1> HIDE DEF l
  <1>4. Closed(l) \in Locks
    BY <1>2, LockTypes
  <1>5. q \in DevRecords /\ ~q.hashed /\ q.refs = dev[d].refs
        /\ q.obj = dev[d].obj /\ q.by = dev[d].by
    <2>1. FALSE \in BOOLEAN
      OBVIOUS
    <2>2. [dev[d] EXCEPT !.hashed = FALSE] \in DevRecords
      BY <1>1, <2>1, HashedSet
    <2>3. ~q.hashed /\ q.refs = dev[d].refs /\ q.obj = dev[d].obj /\ q.by = dev[d].by
      BY <1>1 DEF DevRecords
    <2> QED
      BY <2>2, <2>3
  <1>6. dev' = [dev EXCEPT ![d] = p]
    BY <1>3
  <1> HIDE DEF q
  <1>7. p \in DevRecords /\ p.hashed = q.hashed /\ p.refs = q.refs /\ p.obj = q.obj /\ p.by = q.by
    BY <1>4, <1>5, LockSet
  <1> HIDE DEF p
  <1>8. Becomes(d, p)
    BY <1>6, <1>7, DeviceBecomes
  <1> QED
    BY <1>5, <1>7, <1>8

\* The users of the devices stay; the owner brings or takes its reference.
LEMMA OwnerCounts ==
  ASSUME RInv,
         \A r \in Requests : IsIo(r) => at'[r] = at[r], UNCHANGED req,
         \A d \in Devices : dev'[d].refs = dev[d].refs + (Owner(d)' - Owner(d))
  PROVE  DeviceReferencesAreExact'
  <1>1. ASSUME NEW d, NEW role, NEW points
        PROVE  UsersOf(d, role, points)' = UsersOf(d, role, points)
    BY DEF UsersOf, IsIo, Dev
  <1> SUFFICES ASSUME NEW d \in Devices
               PROVE  dev'[d].refs = Owner(d)' + Cardinality(UsersOf(d, "disp", InUse)')
                      + Cardinality(UsersOf(d, "disp", {"lock", "post"})')
                      + Cardinality(UsersOf(d, "item", InItem)')
                      + Cardinality(UsersOf(d, "item", InContext)')
    BY ReferencesOfNext
  <1> DEFINE c1 == Cardinality(UsersOf(d, "disp", InUse))
             c2 == Cardinality(UsersOf(d, "disp", {"lock", "post"}))
             c3 == Cardinality(UsersOf(d, "item", InItem))
             c4 == Cardinality(UsersOf(d, "item", InContext))
             x == dev'[d].refs
             y == dev[d].refs
             o == Owner(d)
             p == Owner(d)'
  <1>2. x = y + (p - o)
    OBVIOUS
  <1>3. y = o + c1 + c2 + c3 + c4
    BY ReferencesOf DEF RInv
  <1>4. c1 \in Nat /\ c2 \in Nat /\ c3 \in Nat /\ c4 \in Nat
    BY UsersAreFinite
  <1>5. o \in {0, 1} /\ p \in {0, 1}
    BY DEF Owner
  <1> HIDE DEF c1, c2, c3, c4, x, y, o, p
  <1>6. x = p + c1 + c2 + c3 + c4
    BY ONLY <1>2, <1>3, <1>4, <1>5
  <1> QED
    BY <1>1, <1>6 DEF c1, c2, c3, c4, x, p

\* A device nobody knows yet.
LEMMA NewDevicesHaveNoOwner ==
  ASSUME RInv, NEW d \in Devices, dev[d].obj = "none"
  PROVE  dev[d].refs = 0 /\ ~dev[d].hashed /\ CleanersOf(d) = {} /\ boot.dev # d /\ Owner(d) = 0
  <1>1. dev[d].refs \in Nat /\ ~(dev[d].refs > 0)
    BY UsedDevicesLive DEF RInv, Alive
  <1> QED
    BY <1>1, UsedDevicesLive DEF Owner

\* A request that is not for a device's driver moves.
LEMMA ReporterMoves ==
  ASSUME RInv, NEW r \in Requests, NEW from, NEW to \in Points, Goto(r, "disp", from, to),
         \/ from = "insert" /\ to = "leave"
         \/ from = "remove" /\ to \in {"wait", "leave"}
         \/ from = "wait" /\ to = "leave",
         UNCHANGED <<boot, req, ret, sent>>
  PROVE  /\ ~IsIo(r) /\ at[r]["disp"] = from /\ ReqTypes' /\ RequestsFit'
         /\ from \in {"remove", "wait"} => req[r].kind = "remove"
         /\ at'[r]["disp"] = to /\ \A u \in Requests : u # r => at'[u] = at[u]
  <1>1. ReqTypes /\ "disp" \in Roles
    BY FitsNow DEF Roles
  <1>2. PICK a : Moves(a, r, "disp", to)
    BY <1>1, GotoMoves
  <1>3. at[r]["disp"] = from /\ at' \in [Requests -> [Roles -> Points]]
    BY <1>1, GotoMoves
  <1>4. req[r].kind \notin Drivers
    BY <1>3, FitsNow DEF PlacesFit, Drivers
  <1>5. Only(r, a)
    BY <1>2 DEF Only, Moves
  <1>6. Fits(r, a)
    BY <1>2, <1>3, <1>4, FitsNow
       DEF Fits, Moves, PlacesFit, SendsFit, Early, Hooks, Served, Drivers, Roles
  <1>7. RequestsFit'
    BY <1>5, <1>6, RequestsStayFit DEF RInv, Fits
  <1>8. ReqTypes'
    BY <1>1, <1>3 DEF ReqTypes
  <1> QED
    BY <1>2, <1>3, <1>4, <1>7, <1>8, FitsNow DEF Moves, PlacesFit

\* The invariant, put together from what an action of an owner does.
LEMMA OwnerStep ==
  ASSUME RInv, BootTypes', LinkTypes', DevTypes', ReqTypes', RequestsFit', UNCHANGED req,
         OneOwner', boot'.dev # "none" <=> boot'.pc = "cleaned",
         \A r \in Requests : IsIo(r) => at'[r] = at[r],
         \A d \in Devices : dev'[d].refs = dev[d].refs + (Owner(d)' - Owner(d)),
         \A d \in Devices : dev'[d].refs > 0 <=> dev'[d].obj = "live"
  PROVE  RInv'
  BY OwnerCounts DEF RInv, Types, Alive

\* A device enters the hash.
LEMMA InsertionCounts ==
  ASSUME RInv, NEW d \in Devices, dev[d].obj = "none", CreateDevice(d), UNCHANGED boot,
         \A e \in Devices : CleanersOf(e)' = CleanersOf(e)
  PROVE  /\ DevTypes' /\ OneOwner'
         /\ \A e \in Devices : dev'[e].refs = dev[e].refs + (Owner(e)' - Owner(e))
         /\ \A e \in Devices : dev'[e].refs > 0 <=> dev'[e].obj = "live"
  <1>1. /\ Becomes(d, NewDevice) /\ DevTypes'
        /\ NewDevice.refs = 1 /\ NewDevice.hashed /\ NewDevice.obj = "live"
    BY CreationIs DEF RInv, Types
  <1>2. dev[d].refs = 0 /\ CleanersOf(d) = {} /\ boot.dev # d /\ Owner(d) = 0
    BY NewDevicesHaveNoOwner
  <1>3. OneOwner'
    BY <1>1, <1>2 DEF RInv, OneOwner, Becomes
  <1>4. Owner(d)' = 1 /\ \A e \in Devices : e # d => Owner(e)' = Owner(e)
    BY <1>1 DEF Owner, Becomes
  <1>5. \A e \in Devices : dev[e].refs \in Nat /\ Owner(e) \in {0, 1}
    BY UsedDevicesLive DEF Owner
  <1>6. \A e \in Devices : dev'[e].refs = dev[e].refs + (Owner(e)' - Owner(e))
    <2> SUFFICES ASSUME NEW e \in Devices
                 PROVE  dev'[e].refs = dev[e].refs + (Owner(e)' - Owner(e))
      OBVIOUS
    <2>1. CASE e = d
      <3>1. dev'[e].refs = 1
        BY <1>1, <2>1 DEF Becomes
      <3> QED
        BY <1>2, <1>4, <2>1, <3>1
    <2>2. CASE e # d
      <3>1. dev'[e] = dev[e]
        BY <1>1, <2>2 DEF Becomes
      <3> QED
        BY <1>4, <1>5, <2>2, <3>1
    <2> QED
      BY <2>1, <2>2
  <1>7. \A e \in Devices : dev'[e].refs > 0 <=> dev'[e].obj = "live"
    BY <1>1 DEF RInv, Alive, Becomes
  <1> QED
    BY <1>1, <1>3, <1>6, <1>7

LEMMA ReportingStays ==
  ASSUME RInv, NEW r \in Requests, ReportNewDevice(r)
  PROVE  RInv'
  <1>1. Goto(r, "disp", "insert", "leave") /\ UNCHANGED <<boot, up, conn, event, global, req, ret, sent>>
        /\ IF dev[Dev(r)].obj = "none" THEN CreateDevice(Dev(r)) ELSE UNCHANGED <<dev, type>>
    BY DEF ReportNewDevice
  <1>2. /\ ~IsIo(r) /\ at[r]["disp"] = "insert" /\ ReqTypes' /\ RequestsFit'
        /\ at'[r]["disp"] = "leave" /\ \A u \in Requests : u # r => at'[u] = at[u]
    BY <1>1, ReporterMoves DEF Points
  <1>3. BootTypes' /\ LinkTypes'
    BY <1>1 DEF RInv, Types, BootTypes, LinkTypes
  <1>4. \A e \in Devices : CleanersOf(e)' = CleanersOf(e)
    BY <1>1, <1>2 DEF CleanersOf, Dev
  <1>5. \A u \in Requests : IsIo(u) => at'[u] = at[u]
    BY <1>2
  <1>6. boot'.dev # "none" <=> boot'.pc = "cleaned"
    BY <1>1 DEF RInv, Alive
  <1>7. CASE CreateDevice(Dev(r)) /\ dev[Dev(r)].obj = "none"
    <2>1. /\ DevTypes' /\ OneOwner'
          /\ \A e \in Devices : dev'[e].refs = dev[e].refs + (Owner(e)' - Owner(e))
          /\ \A e \in Devices : dev'[e].refs > 0 <=> dev'[e].obj = "live"
      BY <1>1, <1>4, <1>7, InsertionCounts, FitsNow
    <2> QED
      BY <1>1, <1>2, <1>3, <1>5, <1>6, <2>1, OwnerStep
  <1>8. CASE UNCHANGED <<dev, type>>
    <2>1. DevTypes' /\ OneOwner' /\ \A e \in Devices : dev'[e].refs > 0 <=> dev'[e].obj = "live"
      BY <1>1, <1>4, <1>8 DEF RInv, Types, DevTypes, OneOwner, Alive
    <2>2. \A e \in Devices : dev[e].refs \in Nat /\ Owner(e) \in {0, 1} /\ Owner(e)' = Owner(e)
      BY <1>1, <1>4, <1>8, UsedDevicesLive DEF Owner
    <2>3. \A e \in Devices : dev'[e].refs = dev[e].refs + (Owner(e)' - Owner(e))
      BY <1>8, <2>2
    <2> QED
      BY <1>1, <1>2, <1>3, <1>5, <1>6, <2>1, <2>3, OwnerStep
  <1> QED
    BY <1>1, <1>7, <1>8

LEMMA RemovingStays ==
  ASSUME RInv, NEW r \in Requests, RemoveDevice(r)
  PROVE  RInv'
  <1>1. UNCHANGED <<boot, up, conn, event, global, type, req, ret, sent>>
    BY DEF RemoveDevice
  <1>2. BootTypes' /\ LinkTypes'
    BY <1>1 DEF RInv, Types, BootTypes, LinkTypes
  <1>3. boot'.dev # "none" <=> boot'.pc = "cleaned"
    BY <1>1 DEF RInv, Alive
  <1>4. CASE ~dev[Dev(r)].hashed
    <2>1. Goto(r, "disp", "remove", "leave") /\ UNCHANGED dev
      BY <1>4 DEF RemoveDevice
    <2>2. /\ ~IsIo(r) /\ at[r]["disp"] = "remove" /\ ReqTypes' /\ RequestsFit'
          /\ at'[r]["disp"] = "leave" /\ \A u \in Requests : u # r => at'[u] = at[u]
      BY <1>1, <2>1, ReporterMoves DEF Points
    <2>3. \A e \in Devices : CleanersOf(e)' = CleanersOf(e)
      BY <1>1, <2>2 DEF CleanersOf, Dev
    <2>4. DevTypes' /\ OneOwner' /\ \A e \in Devices : dev'[e].refs > 0 <=> dev'[e].obj = "live"
      BY <1>1, <2>1, <2>3 DEF RInv, Types, DevTypes, OneOwner, Alive
    <2>5. \A e \in Devices : dev[e].refs \in Nat /\ Owner(e) \in {0, 1} /\ Owner(e)' = Owner(e)
      BY <1>1, <2>1, <2>3, UsedDevicesLive DEF Owner
    <2>6. \A e \in Devices : dev'[e].refs = dev[e].refs + (Owner(e)' - Owner(e))
      BY <2>1, <2>5
    <2> QED
      BY <1>1, <1>2, <1>3, <2>2, <2>4, <2>6, OwnerStep
  <1>5. CASE dev[Dev(r)].hashed
    <2>0. PICK d \in Devices : d = Dev(r)
      BY FitsNow
    <2>1. Goto(r, "disp", "remove", "wait") /\ RemoveFromHash(d) /\ dev[d].hashed
      BY <1>5, <2>0 DEF RemoveDevice
    <2>2. /\ ~IsIo(r) /\ at[r]["disp"] = "remove" /\ ReqTypes' /\ RequestsFit'
          /\ req[r].kind = "remove"
          /\ at'[r]["disp"] = "wait" /\ \A u \in Requests : u # r => at'[u] = at[u]
      BY <1>1, <2>1, ReporterMoves DEF Points
    <2>3. CleanersOf(d) = {} /\ boot.dev # d
      BY <2>1 DEF RInv, OneOwner
    <2>4. CleanersOf(d)' = {r} /\ \A e \in Devices : e # d => CleanersOf(e)' = CleanersOf(e)
      BY <1>1, <2>0, <2>2, <2>3 DEF CleanersOf, Dev
    <2>5. PICK p : Becomes(d, p) /\ ~p.hashed /\ p.refs = dev[d].refs /\ p.obj = dev[d].obj
      BY <2>1, FitsNow, RemovalIs
    <2>6. \A e \in Devices : dev'[e].refs = dev[e].refs /\ dev'[e].obj = dev[e].obj
          /\ (e # d => dev'[e] = dev[e])
      BY <2>5 DEF Becomes
    <2>7. DevTypes'
      BY <1>1, <2>5, FitsNow DEF DevTypes, Becomes
    <2>8. OneOwner'
      <3>1. ~dev'[d].hashed /\ boot' = boot
        BY <1>1, <2>5 DEF Becomes
      <3>2. ASSUME NEW e \in Devices
            PROVE  /\ dev'[e].hashed => CleanersOf(e)' = {} /\ boot'.dev # e
                   /\ boot'.dev = e => CleanersOf(e)' = {}
                   /\ \A u, q \in CleanersOf(e)' : u = q
        <4>1. CASE e = d
          BY <2>3, <2>4, <3>1, <4>1
        <4>2. CASE e # d
          <5>1. CleanersOf(e)' = CleanersOf(e) /\ dev'[e] = dev[e]
            BY <2>4, <2>6, <4>2
          <5> QED
            BY <3>1, <5>1 DEF RInv, OneOwner
        <4> QED
          BY <4>1, <4>2
      <3> QED
        BY <3>2 DEF OneOwner
    <2>9. Owner(d) = 1 /\ Owner(d)' = 1
      BY <2>1, <2>4 DEF Owner
    <2>10. \A e \in Devices : Owner(e) \in {0, 1} /\ Owner(e)' = Owner(e) /\ dev[e].refs \in Nat
      <3>1. \A e \in Devices : e # d => Owner(e)' = Owner(e)
        BY <1>1, <2>4, <2>6 DEF Owner
      <3>2. \A e \in Devices : Owner(e) \in {0, 1}
        BY DEF Owner
      <3>3. \A e \in Devices : dev[e].refs \in Nat
        BY UsedDevicesLive
      <3>4. \A e \in Devices : Owner(e)' = Owner(e)
        BY <2>9, <3>1
      <3> QED
        BY <3>2, <3>3, <3>4
    <2>11. \A e \in Devices : dev'[e].refs = dev[e].refs + (Owner(e)' - Owner(e))
      BY <2>6, <2>10
    <2>12. \A e \in Devices : dev'[e].refs > 0 <=> dev'[e].obj = "live"
      BY <2>6 DEF RInv, Alive
    <2> QED
      BY <1>1, <1>2, <1>3, <2>2, <2>7, <2>8, <2>11, <2>12, OwnerStep
  <1> QED
    BY <1>4, <1>5

\* The device of a cleaner, which gives the reference of the hash back.
LEMMA OwnerGoes ==
  ASSUME RInv, NEW d \in Devices, NEW t \in Deleters, Dereference(d, t), UNCHANGED type,
         Owner(d) = 1, ~dev[d].hashed, CleanersOf(d)' = {}, boot'.dev # d,
         \A e \in Devices : e # d => CleanersOf(e)' = CleanersOf(e),
         \A e \in Devices : e # d => (boot'.dev = e <=> boot.dev = e)
  PROVE  /\ References(d, -1, t) /\ DevTypes' /\ OneOwner'
         /\ \A e \in Devices : dev'[e].refs = dev[e].refs + (Owner(e)' - Owner(e))
         /\ \A e \in Devices : dev'[e].refs > 0 <=> dev'[e].obj = "live"
  <1>1. dev[d].refs > 0 /\ dev[d].obj = "live" /\ DevTypes
    BY UsedDevicesLive DEF Owner, RInv, Alive, Types
  <1>2. References(d, -1, t)
    BY <1>1, DereferenceTakes
  <1>3. DevTypes'
    BY <1>1, <1>2 DEF References, DevTypes
  <1>4. OneOwner'
    BY <1>2 DEF RInv, OneOwner, References
  <1>5. Owner(d)' = 0 /\ \A e \in Devices : e # d => Owner(e)' = Owner(e)
    BY <1>2 DEF References, Owner
  <1>6. \A e \in Devices : dev[e].refs \in Nat /\ Owner(e) \in {0, 1}
    BY UsedDevicesLive DEF Owner
  <1>7. \A e \in Devices : dev'[e].refs = dev[e].refs + (Owner(e)' - Owner(e))
    <2> SUFFICES ASSUME NEW e \in Devices
                 PROVE  dev'[e].refs = dev[e].refs + (Owner(e)' - Owner(e))
      OBVIOUS
    <2>1. CASE e = d
      <3>1. dev'[e].refs = dev[e].refs + (-1)
        BY <1>2, <2>1 DEF References
      <3> QED
        BY <1>5, <1>6, <2>1, <3>1
    <2>2. CASE e # d
      <3>1. dev'[e] = dev[e]
        BY <1>2, <2>2 DEF References
      <3> QED
        BY <1>5, <1>6, <2>2, <3>1
    <2> QED
      BY <2>1, <2>2
  <1>8. \A e \in Devices : dev'[e].refs > 0 <=> dev'[e].obj = "live"
    <2> SUFFICES ASSUME NEW e \in Devices
                 PROVE  dev'[e].refs > 0 <=> dev'[e].obj = "live"
      OBVIOUS
    <2>1. dev[e].refs > 0 <=> dev[e].obj = "live"
      BY DEF RInv, Alive
    <2>2. CASE e = d
      BY <1>2, <2>1, <2>2 DEF References
    <2>3. CASE e # d
      BY <1>2, <2>1, <2>3 DEF References
    <2> QED
      BY <2>2, <2>3
  <1> QED
    BY <1>2, <1>3, <1>4, <1>7, <1>8

LEMMA CleaningStays ==
  ASSUME RInv, NEW r \in Requests, CleanupAfterRemovingFromHash(r)
  PROVE  RInv'
  <1>1. /\ Goto(r, "disp", "wait", "leave") /\ Dereference(Dev(r), <<r, "disp">>)
        /\ UNCHANGED <<boot, up, conn, event, global, type, req, ret, sent>>
    BY DEF CleanupAfterRemovingFromHash
  <1>2. /\ ~IsIo(r) /\ at[r]["disp"] = "wait" /\ ReqTypes' /\ RequestsFit' /\ req[r].kind = "remove"
        /\ at'[r]["disp"] = "leave" /\ \A u \in Requests : u # r => at'[u] = at[u]
    BY <1>1, ReporterMoves DEF Points
  <1>d. PICK d \in Devices : d = Dev(r)
    BY FitsNow
  <1>3. r \in CleanersOf(d) /\ <<r, "disp">> \in Deleters
    BY <1>2, <1>d DEF CleanersOf, Deleters
  <1>4. ~dev[d].hashed /\ boot.dev # d /\ CleanersOf(d) = {r} /\ Owner(d) = 1
    BY <1>3 DEF RInv, OneOwner, Owner
  <1>5. CleanersOf(d)' = {} /\ \A e \in Devices : e # d => CleanersOf(e)' = CleanersOf(e)
    BY <1>1, <1>2, <1>4, <1>d DEF CleanersOf, Dev
  <1>a. Dereference(d, <<r, "disp">>) /\ UNCHANGED type /\ boot' = boot
    BY <1>1, <1>d
  <1>6. /\ DevTypes' /\ OneOwner'
        /\ \A e \in Devices : dev'[e].refs = dev[e].refs + (Owner(e)' - Owner(e))
        /\ \A e \in Devices : dev'[e].refs > 0 <=> dev'[e].obj = "live"
    BY <1>3, <1>4, <1>5, <1>a, OwnerGoes
  <1>7. BootTypes' /\ LinkTypes' /\ (boot'.dev # "none" <=> boot'.pc = "cleaned")
    BY <1>1 DEF RInv, Types, BootTypes, LinkTypes, Alive
  <1> QED
    BY <1>1, <1>2, <1>6, <1>7, OwnerStep

-----------------------------------------------------------------------------
(* DriverEntry and DriverUnload *)

BootRecords == [pc : BootPoints, mode : Modes, queried : BOOLEAN, dev : Devices \cup {"none"}]

LEMMA BootMoves ==
  ASSUME BootTypes, NEW from, NEW to \in BootPoints, BootTo(from, to)
  PROVE  /\ boot.pc = from /\ boot'.pc = to /\ boot' \in BootRecords
         /\ boot'.mode = boot.mode /\ boot'.dev = boot.dev /\ boot'.queried = boot.queried
  BY DEF BootTypes, BootTo, BootRecords

LEMMA FailureMoves ==
  ASSUME BootTypes, NEW from, NEW fault, Fails(from, fault)
  PROVE  /\ boot.pc = from /\ boot.mode = "entry" /\ boot' \in BootRecords
         /\ boot'.pc = "disconnect pnp" /\ boot'.mode = "unload"
         /\ boot'.dev = boot.dev /\ boot'.queried = boot.queried
  <1> DEFINE b == [boot EXCEPT !.mode = "unload"]
  <1>1. boot.pc = from /\ boot.mode = "entry" /\ boot' = [b EXCEPT !.pc = "disconnect pnp"]
    BY DEF Fails, BootTypes
  <1>2. b \in BootRecords /\ b.mode = "unload" /\ b.dev = boot.dev /\ b.queried = boot.queried
    BY DEF BootTypes, BootRecords, Modes
  <1> HIDE DEF b
  <1>3. "disconnect pnp" \in BootPoints
    BY DEF BootPoints
  <1>4. /\ boot' \in BootRecords /\ boot'.pc = "disconnect pnp"
        /\ boot'.mode = b.mode /\ boot'.dev = b.dev /\ boot'.queried = b.queried
    BY <1>1, <1>2, <1>3 DEF BootRecords
  <1> QED
    BY <1>1, <1>2, <1>4

\* A step that leaves the devices and the requests alone.
LEMMA BootQuiet ==
  ASSUME RInv, boot' \in BootRecords, up' \subseteq Parts, LinkTypes', DevTypes',
         boot'.dev = boot.dev, boot.pc # "cleaned", boot'.pc # "cleaned",
         UNCHANGED <<dev, req, at, ret, sent>>
  PROVE  RInv'
  <1>1. BootTypes' /\ ReqTypes'
    BY DEF RInv, Types, BootTypes, BootRecords, ReqTypes
  <1>2. RequestsFit'
    BY DEF RInv, RequestsFit
  <1>3. \A d \in Devices : CleanersOf(d)' = CleanersOf(d)
    BY DEF CleanersOf, Dev
  <1>4. OneOwner' /\ (boot'.dev # "none" <=> boot'.pc = "cleaned")
    BY <1>3 DEF RInv, OneOwner, Alive
  <1>5. \A d \in Devices : Owner(d)' = Owner(d) /\ Owner(d) \in {0, 1} /\ dev[d].refs \in Nat
    BY <1>3, UsedDevicesLive DEF Owner
  <1>6. \A d \in Devices : dev'[d].refs = dev[d].refs + (Owner(d)' - Owner(d))
    BY <1>5
  <1>7. \A d \in Devices : dev'[d].refs > 0 <=> dev'[d].obj = "live"
    BY DEF RInv, Alive
  <1> QED
    BY <1>1, <1>2, <1>4, <1>6, <1>7, OwnerStep

LEMMA BootGoes ==
  ASSUME RInv, NEW from, NEW to, BootTo(from, to), from # "cleaned", to # "cleaned",
         to \in BootPoints, up' \subseteq Parts, LinkTypes', DevTypes',
         UNCHANGED <<dev, req, at, ret, sent>>
  PROVE  RInv'
  <1>1. BootTypes
    BY DEF RInv, Types
  <1>2. boot.pc = from /\ boot'.pc = to /\ boot' \in BootRecords /\ boot'.dev = boot.dev
    BY <1>1, BootMoves
  <1> QED
    BY <1>2, BootQuiet

LEMMA FailureGoes ==
  ASSUME RInv, NEW from, NEW fault, Fails(from, fault), from # "cleaned",
         up' \subseteq Parts, LinkTypes', DevTypes', UNCHANGED <<dev, req, at, ret, sent>>
  PROVE  RInv'
  <1>1. BootTypes
    BY DEF RInv, Types
  <1>2. boot.pc = from /\ boot'.pc = "disconnect pnp" /\ boot' \in BootRecords
        /\ boot'.dev = boot.dev
    BY <1>1, FailureMoves
  <1> QED
    BY <1>2, BootQuiet

LEMMA StartingStays ==
  ASSUME RInv, DriverEntry
  PROVE  RInv'
  <1>0. BootTypes /\ LinkTypes /\ DevTypes /\ up \subseteq Parts /\ boot \in BootRecords
    BY DEF RInv, Types, BootTypes, BootRecords
  <1>p. \A p \in {"pools", "hashes", "connect pnp", "connect hook", "report", "filter", "running"} :
          p \in BootPoints /\ p # "cleaned"
    BY DEF BootPoints, Starting
  <1>1. CASE InitializeSubsystems
    <2>1. BootTo("lists", "pools") /\ UNCHANGED <<conn, event, global, dev, type, req, at, ret, sent>>
          /\ up' = up \union {"lists"}
      BY <1>1 DEF InitializeSubsystems
    <2>2. LinkTypes' /\ DevTypes' /\ up' \subseteq Parts
      BY <1>0, <2>1 DEF LinkTypes, DevTypes, Parts
    <2> QED
      BY <2>1, <2>2, <1>p, BootGoes
  <1>2. CASE CreateThreadPools
    <2>1. BootTo("pools", "hashes") \/ Fails("pools", "pools")
      BY <1>2 DEF CreateThreadPools
    <2>2. LinkTypes' /\ DevTypes' /\ up' \subseteq Parts
          /\ UNCHANGED <<dev, req, at, ret, sent>>
      BY <1>0, <1>2 DEF LinkTypes, DevTypes, Parts, CreateThreadPools
    <2> QED
      BY <2>1, <2>2, <1>p, BootGoes, FailureGoes
  <1>3. CASE CreateHashes
    <2>1. BootTo("hashes", "connect pnp") \/ Fails("hashes", "hashes")
      BY <1>3 DEF CreateHashes
    <2>2. LinkTypes' /\ DevTypes' /\ up' \subseteq Parts
          /\ UNCHANGED <<dev, req, at, ret, sent>>
      BY <1>0, <1>3 DEF LinkTypes, DevTypes, Parts, CreateHashes
    <2> QED
      BY <2>1, <2>2, <1>p, BootGoes, FailureGoes
  <1>4. \A s \in Drivers : ConnectionRequired(s) =>
           /\ conn' \in [Drivers -> [current : BOOLEAN, refs : Int]]
           /\ event' \in [Drivers -> BOOLEAN]
    BY <1>0 DEF ConnectionRequired, LinkTypes
  <1>5. CASE ConnectToPnpFilter
    <2>1. BootTo("connect pnp", "connect hook") \/ Fails("connect pnp", "pnp")
      BY <1>5 DEF ConnectToPnpFilter
    <2>2. LinkTypes' /\ DevTypes' /\ up' \subseteq Parts
          /\ UNCHANGED <<dev, req, at, ret, sent>>
      BY <1>0, <1>4, <1>5
         DEF LinkTypes, DevTypes, ConnectToPnpFilter, FilterConnectionRequired, Drivers
    <2> QED
      BY <2>1, <2>2, <1>p, BootGoes, FailureGoes
  <1>6. CASE ConnectToHooker
    <2>1. BootTo("connect hook", "report") \/ Fails("connect hook", "hooker")
      BY <1>6 DEF ConnectToHooker
    <2>2. LinkTypes' /\ DevTypes' /\ up' \subseteq Parts
          /\ UNCHANGED <<dev, req, at, ret, sent>>
      BY <1>0, <1>4, <1>6 DEF LinkTypes, DevTypes, ConnectToHooker, Drivers, Parts
    <2> QED
      BY <2>1, <2>2, <1>p, BootGoes, FailureGoes
  <1>7. ASSUME NEW d \in BootDevices, ReportExistingDevice(d)
        PROVE  RInv'
    <2>1. /\ dev[d].obj = "none" /\ CreateDevice(d)
          /\ UNCHANGED <<boot, up, conn, event, global, req, at, ret, sent>>
      BY <1>7 DEF ReportExistingDevice
    <2>2. \A e \in Devices : CleanersOf(e)' = CleanersOf(e)
      BY <2>1 DEF CleanersOf, Dev
    <2>3. d \in Devices
      BY CoreDriverAssumption
    <2>4. /\ DevTypes' /\ OneOwner'
          /\ \A e \in Devices : dev'[e].refs = dev[e].refs + (Owner(e)' - Owner(e))
          /\ \A e \in Devices : dev'[e].refs > 0 <=> dev'[e].obj = "live"
      BY <2>1, <2>2, <2>3, InsertionCounts
    <2>5. BootTypes' /\ LinkTypes' /\ ReqTypes' /\ RequestsFit'
          /\ (boot'.dev # "none" <=> boot'.pc = "cleaned")
      BY <2>1 DEF RInv, Types, BootTypes, LinkTypes, ReqTypes, RequestsFit, Alive
    <2> QED
      BY <2>1, <2>4, <2>5, OwnerStep
  <1>8. CASE DeviceInformationCollected
    <2>1. BootTo("report", "filter") /\ UNCHANGED <<conn, event, global, dev, type, req, at, ret, sent>>
          /\ up' = up \union {"collected"}
      BY <1>8 DEF DeviceInformationCollected
    <2>2. LinkTypes' /\ DevTypes' /\ up' \subseteq Parts
      BY <1>0, <2>1 DEF LinkTypes, DevTypes, Parts
    <2> QED
      BY <2>1, <2>2, <1>p, BootGoes
  <1>9. CASE StartFsdFiltering
    <2>1. BootTo("filter", "running") \/ Fails("filter", "filter")
      BY <1>9 DEF StartFsdFiltering
    <2>2. LinkTypes' /\ DevTypes' /\ up' \subseteq Parts
          /\ UNCHANGED <<dev, req, at, ret, sent>>
      BY <1>0, <1>9 DEF LinkTypes, DevTypes, StartFsdFiltering
    <2> QED
      BY <2>1, <2>2, <1>p, BootGoes, FailureGoes
  <1> QED
    BY <1>1, <1>2, <1>3, <1>5, <1>6, <1>7, <1>8, <1>9 DEF DriverEntry

LEMMA DisconnectionTypes ==
  ASSUME LinkTypes, NEW s \in Drivers, Disconnect(s), UNCHANGED global
  PROVE  LinkTypes'
  <1>1. conn[s].refs \in Int
    BY DEF LinkTypes
  <1>2. \A n \in Int : [conn EXCEPT ![s] = [current |-> FALSE, refs |-> n]]
                         \in [Drivers -> [current : BOOLEAN, refs : Int]]
    BY DEF LinkTypes
  <1>3. conn' = [conn EXCEPT ![s] = [current |-> FALSE, refs |-> conn[s].refs - 1]]
        \/ UNCHANGED conn
    BY DEF Disconnect
  <1>4. conn' \in [Drivers -> [current : BOOLEAN, refs : Int]]
    <2>1. conn[s].refs - 1 \in Int /\ conn \in [Drivers -> [current : BOOLEAN, refs : Int]]
      BY <1>1 DEF LinkTypes
    <2>2. [conn EXCEPT ![s] = [current |-> FALSE, refs |-> conn[s].refs - 1]]
            \in [Drivers -> [current : BOOLEAN, refs : Int]]
      BY <1>2, <2>1
    <2> QED
      BY <1>3, <2>1, <2>2
  <1>5. event' \in [Drivers -> BOOLEAN]
    BY LinkTypesKept DEF Disconnect, LinkTypes
  <1> QED
    BY <1>4, <1>5 DEF LinkTypes

LEMMA PurgingStays ==
  ASSUME RInv, NEW d \in Devices, PurgeDevice(d)
  PROVE  RInv'
  <1>1. /\ boot.pc = "purge" /\ dev[d].hashed /\ RemoveFromHash(d)
        /\ boot' = [boot EXCEPT !.pc = "cleaned", !.dev = d]
        /\ UNCHANGED <<up, conn, event, global, type, req, at, ret, sent>>
    BY DEF PurgeDevice
  <1>2. BootTypes' /\ boot'.dev = d /\ boot'.pc = "cleaned"
    <2> DEFINE b == [boot EXCEPT !.pc = "cleaned"]
    <2>1. boot' = [b EXCEPT !.dev = d] /\ boot \in BootRecords /\ up' \subseteq Parts
      BY <1>1 DEF RInv, Types, BootTypes, BootRecords
    <2>2. b \in BootRecords /\ b.pc = "cleaned"
      BY <2>1 DEF BootRecords, BootPoints
    <2> HIDE DEF b
    <2>3. boot' \in BootRecords /\ boot'.dev = d /\ boot'.pc = "cleaned"
      BY <2>1, <2>2 DEF BootRecords
    <2> QED
      BY <2>1, <2>3 DEF BootTypes, BootRecords
  <1>3. LinkTypes' /\ ReqTypes' /\ RequestsFit'
    BY <1>1 DEF RInv, Types, LinkTypes, ReqTypes, RequestsFit
  <1>4. boot.dev = "none" /\ d # "none"
    BY <1>1, CoreDriverAssumption DEF RInv, Alive
  <1>5. CleanersOf(d) = {} /\ \A e \in Devices : CleanersOf(e)' = CleanersOf(e)
    BY <1>1 DEF RInv, OneOwner, CleanersOf, Dev
  <1>6. PICK p : Becomes(d, p) /\ ~p.hashed /\ p.refs = dev[d].refs /\ p.obj = dev[d].obj
    BY <1>1, RemovalIs DEF RInv, Types
  <1>7. \A e \in Devices : dev'[e].refs = dev[e].refs /\ dev'[e].obj = dev[e].obj
        /\ (e # d => dev'[e] = dev[e])
    BY <1>6 DEF Becomes
  <1>8. DevTypes'
    BY <1>1, <1>6 DEF DevTypes, Becomes, RInv, Types
  <1>9. OneOwner'
    <2>1. ~dev'[d].hashed
      BY <1>6 DEF Becomes
    <2> QED
      BY <1>2, <1>4, <1>5, <1>7, <2>1 DEF RInv, OneOwner
  <1>10. \A e \in Devices : Owner(e)' = Owner(e)
    <2>1. Owner(d) = 1 /\ Owner(d)' = 1
      BY <1>1, <1>2 DEF Owner
    <2>2. \A e \in Devices : e # d => Owner(e)' = Owner(e)
      BY <1>2, <1>4, <1>5, <1>7, CoreDriverAssumption DEF Owner
    <2> QED
      BY <2>1, <2>2
  <1>11. \A e \in Devices : Owner(e) \in {0, 1} /\ dev[e].refs \in Nat
    BY UsedDevicesLive DEF Owner
  <1>12. \A e \in Devices : dev'[e].refs = dev[e].refs + (Owner(e)' - Owner(e))
    BY <1>7, <1>10, <1>11
  <1>13. \A e \in Devices : dev'[e].refs > 0 <=> dev'[e].obj = "live"
    BY <1>7 DEF RInv, Alive
  <1>14. boot'.dev # "none" <=> boot'.pc = "cleaned"
    BY <1>2, <1>4
  <1> QED
    BY <1>1, <1>2, <1>3, <1>8, <1>9, <1>12, <1>13, <1>14, OwnerStep

LEMMA PurgedDeviceStays ==
  ASSUME RInv, PurgedDeviceIsCleanedUp
  PROVE  RInv'
  <1>1. /\ boot.pc = "cleaned" /\ Dereference(boot.dev, <<"boot">>)
        /\ boot' = [boot EXCEPT !.pc = "purge", !.dev = "none"]
        /\ UNCHANGED <<up, conn, event, global, type, req, at, ret, sent>>
    BY DEF PurgedDeviceIsCleanedUp
  <1>2. PICK d \in Devices : d = boot.dev
    BY <1>1 DEF RInv, Types, BootTypes, Alive
  <1>3. BootTypes' /\ boot'.dev = "none" /\ boot'.pc = "purge"
    <2> DEFINE b == [boot EXCEPT !.pc = "purge"]
    <2>1. boot' = [b EXCEPT !.dev = "none"] /\ boot \in BootRecords /\ up' \subseteq Parts
      BY <1>1 DEF RInv, Types, BootTypes, BootRecords
    <2>2. b \in BootRecords /\ b.pc = "purge"
      BY <2>1 DEF BootRecords, BootPoints
    <2> HIDE DEF b
    <2>3. boot' \in BootRecords /\ boot'.dev = "none" /\ boot'.pc = "purge"
      BY <2>1, <2>2 DEF BootRecords
    <2> QED
      BY <2>1, <2>3 DEF BootTypes, BootRecords
  <1>4. LinkTypes' /\ ReqTypes' /\ RequestsFit'
    BY <1>1 DEF RInv, Types, LinkTypes, ReqTypes, RequestsFit
  <1>5. \A e \in Devices : CleanersOf(e)' = CleanersOf(e)
    BY <1>1 DEF CleanersOf, Dev
  <1>6. CleanersOf(d) = {} /\ ~dev[d].hashed /\ Owner(d) = 1
    BY <1>2 DEF RInv, OneOwner, Owner
  <1>7. /\ Dereference(d, <<"boot">>) /\ UNCHANGED type /\ <<"boot">> \in Deleters
        /\ CleanersOf(d)' = {} /\ boot'.dev # d
        /\ \A e \in Devices : e # d => (boot'.dev = e <=> boot.dev = e)
    BY <1>1, <1>2, <1>3, <1>5, <1>6, CoreDriverAssumption DEF Deleters
  <1>8. /\ DevTypes' /\ OneOwner'
        /\ \A e \in Devices : dev'[e].refs = dev[e].refs + (Owner(e)' - Owner(e))
        /\ \A e \in Devices : dev'[e].refs > 0 <=> dev'[e].obj = "live"
    BY <1>5, <1>6, <1>7, OwnerGoes
  <1> QED
    BY <1>1, <1>3, <1>4, <1>8, OwnerStep

LEMMA UnloadingStays ==
  ASSUME RInv, Unload
  PROVE  RInv'
  <1>0. LinkTypes /\ DevTypes /\ up \subseteq Parts
    BY DEF RInv, Types, BootTypes
  <1>p. \A p \in {"disconnect hook", "wait pnp", "wait hook", "close", "drain", "purge", "types",
                  "running", "mark type", "await type", "delete pools", "delete lists", "down"} :
          p \in BootPoints /\ p # "cleaned"
    BY DEF BootPoints, Late
  <1>1. CASE DisconnectFromPnPFilter
    <2>1. /\ BootTo("disconnect pnp", "disconnect hook") /\ Disconnect("pnp")
          /\ UNCHANGED <<up, global, dev, type, req, at, ret, sent>>
      BY <1>1 DEF DisconnectFromPnPFilter
    <2>2. LinkTypes'
      BY <1>0, <2>1, DisconnectionTypes DEF Drivers
    <2> QED
      BY <1>0, <1>p, <2>1, <2>2, BootGoes DEF DevTypes
  <1>2. CASE DisconnectFromHooker
    <2>1. /\ \/ BootTo("disconnect hook", "wait pnp") \/ BootTo("disconnect hook", "purge")
          /\ Disconnect("hook")
          /\ UNCHANGED <<up, global, dev, type, req, at, ret, sent>>
      BY <1>2 DEF DisconnectFromHooker
    <2>2. LinkTypes'
      BY <1>0, <2>1, DisconnectionTypes DEF Drivers
    <2> QED
      BY <1>0, <1>p, <2>1, <2>2, BootGoes DEF DevTypes
  <1>3. CASE WaitForDisconnection
    <2>1. /\ BootTo("wait pnp", "wait hook") \/ BootTo("wait hook", "close")
          /\ UNCHANGED <<up, conn, event, global, dev, type, req, at, ret, sent>>
      BY <1>3 DEF WaitForDisconnection
    <2> QED
      BY <1>0, <1>p, <2>1, BootGoes DEF DevTypes, LinkTypes
  <1>4. CASE ReleaseRemoveLock
    <2>1. /\ BootTo("close", "drain") /\ global' = Closed(global)
          /\ UNCHANGED <<up, conn, event, dev, type, req, at, ret, sent>>
      BY <1>4 DEF ReleaseRemoveLock
    <2>2. LinkTypes'
      BY <1>0, <2>1, LockTypes DEF LinkTypes
    <2> QED
      BY <1>0, <1>p, <2>1, <2>2, BootGoes DEF DevTypes
  <1>5. CASE WaitForRemoveLock
    <2>1. /\ BootTo("drain", "purge")
          /\ UNCHANGED <<up, conn, event, global, dev, type, req, at, ret, sent>>
      BY <1>5 DEF WaitForRemoveLock
    <2> QED
      BY <1>0, <1>p, <2>1, BootGoes DEF DevTypes, LinkTypes
  <1>6. CASE Purged
    <2>1. /\ BootTo("purge", "types") \/ BootTo("purge", "running")
          /\ up' \subseteq Parts
          /\ UNCHANGED <<conn, event, global, dev, type, req, at, ret, sent>>
      BY <1>0, <1>6 DEF Purged
    <2> QED
      BY <1>0, <1>p, <2>1, BootGoes DEF DevTypes, LinkTypes
  <1>7. CASE DeleteObjectType
    <2>1. /\ BootTo("types", "await type") \/ BootTo("types", "mark type")
          /\ type' = [type EXCEPT !.deleted = TRUE] \/ UNCHANGED type
          /\ UNCHANGED <<up, conn, event, global, dev, req, at, ret, sent>>
      BY <1>7 DEF DeleteObjectType, DeleteDeviceObjectType
    <2>2. DevTypes'
      BY <1>0, <2>1 DEF DevTypes
    <2> QED
      BY <1>0, <1>p, <2>1, <2>2, BootGoes DEF LinkTypes
  <1>8. CASE MarkForDeletion
    <2>1. /\ BootTo("mark type", "await type") /\ type' = [type EXCEPT !.marked = TRUE]
          /\ UNCHANGED <<up, conn, event, global, dev, req, at, ret, sent>>
      BY <1>8 DEF MarkForDeletion
    <2>2. DevTypes'
      BY <1>0, <2>1 DEF DevTypes
    <2> QED
      BY <1>0, <1>p, <2>1, <2>2, BootGoes DEF LinkTypes
  <1>9. CASE WaitForDeviceType
    <2>1. /\ BootTo("await type", "delete pools")
          /\ UNCHANGED <<up, conn, event, global, dev, type, req, at, ret, sent>>
      BY <1>9 DEF WaitForDeviceType
    <2> QED
      BY <1>0, <1>p, <2>1, BootGoes DEF DevTypes, LinkTypes
  <1>10. CASE DeleteThreadPools \/ UnInitializeSubsystems
    <2>1. /\ BootTo("delete pools", "delete lists") \/ BootTo("delete lists", "down")
          /\ up' \subseteq Parts
          /\ UNCHANGED <<conn, event, global, dev, type, req, at, ret, sent>>
      BY <1>0, <1>10 DEF DeleteThreadPools, UnInitializeSubsystems
    <2> QED
      BY <1>0, <1>p, <2>1, BootGoes DEF DevTypes, LinkTypes
  <1> QED
    BY <1>1, <1>2, <1>3, <1>4, <1>5, <1>6, <1>7, <1>8, <1>9, <1>10,
       PurgingStays, PurgedDeviceStays DEF Unload

LEMMA UnloadBegins ==
  ASSUME RInv, QueryUnload \/ DriverUnload
  PROVE  /\ boot.pc = "running" /\ boot' \in BootRecords /\ boot'.pc = "disconnect pnp"
         /\ boot'.dev = boot.dev /\ boot'.mode \in {"query", "unload"}
         /\ UNCHANGED <<up, conn, event, global, dev, type, req, at, ret, sent>>
  <1> DEFINE b == [boot EXCEPT !.pc = "disconnect pnp"]
  <1>1. boot \in BootRecords
    BY DEF RInv, Types, BootTypes, BootRecords
  <1>2. b \in BootRecords /\ b.pc = "disconnect pnp" /\ b.dev = boot.dev
    BY <1>1 DEF BootRecords, BootPoints
  <1>3. /\ boot.pc = "running"
        /\ UNCHANGED <<up, conn, event, global, dev, type, req, at, ret, sent>>
        /\ \/ boot' = [[b EXCEPT !.mode = "query"] EXCEPT !.queried = TRUE]
           \/ boot' = [b EXCEPT !.mode = "unload"]
    BY DEF QueryUnload, DriverUnload
  <1> HIDE DEF b
  <1>4. \A m \in {"query", "unload"} :
          /\ [b EXCEPT !.mode = m] \in BootRecords /\ [b EXCEPT !.mode = m].pc = b.pc
          /\ [b EXCEPT !.mode = m].dev = b.dev /\ [b EXCEPT !.mode = m].mode = m
    BY <1>2 DEF BootRecords, Modes
  <1>5. \A c \in BootRecords :
          /\ [c EXCEPT !.queried = TRUE] \in BootRecords /\ [c EXCEPT !.queried = TRUE].pc = c.pc
          /\ [c EXCEPT !.queried = TRUE].dev = c.dev /\ [c EXCEPT !.queried = TRUE].mode = c.mode
    BY DEF BootRecords
  <1>6. CASE boot' = [b EXCEPT !.mode = "unload"]
    BY <1>2, <1>3, <1>4, <1>6
  <1>7. CASE boot' = [[b EXCEPT !.mode = "query"] EXCEPT !.queried = TRUE]
    <2> DEFINE c == [b EXCEPT !.mode = "query"]
    <2>1. c \in BootRecords /\ c.pc = b.pc /\ c.dev = b.dev /\ c.mode = "query"
      BY <1>4
    <2>2. boot' = [c EXCEPT !.queried = TRUE]
      BY <1>7
    <2> HIDE DEF c
    <2> QED
      BY <1>2, <1>3, <1>5, <2>1, <2>2
  <1> QED
    BY <1>3, <1>6, <1>7

LEMMA DeletionIs ==
  ASSUME DevTypes, NEW d \in Devices, DeleteDeviceObject(d) \/ DeleteMarkedType(d)
  PROVE  /\ DevTypes'
         /\ \E o \in {"counted", "gone"} : \E p :
              /\ Becomes(d, p) /\ p.obj = o /\ p.refs = dev[d].refs /\ p.hashed = dev[d].hashed
              /\ p.by = dev[d].by
              /\ DeleteDeviceObject(d) => (o = "counted" <=> type.count = 1)
              /\ DeleteMarkedType(d) => o = "gone"
         /\ UNCHANGED <<boot, up, conn, event, global, req, at, ret, sent>>
  <1>1. PICK o \in {"counted", "gone"} :
          /\ dev' = [dev EXCEPT ![d].obj = o]
          /\ DeleteDeviceObject(d) => (o = "counted" <=> type.count = 1)
          /\ DeleteMarkedType(d) => o = "gone"
    <2>1. CASE DeleteDeviceObject(d)
      <3>1. ~DeleteMarkedType(d)
        BY <2>1 DEF DeleteDeviceObject, DeleteMarkedType
      <3>2. CASE type.count = 1
        BY <2>1, <3>1, <3>2 DEF DeleteDeviceObject
      <3>3. CASE type.count # 1
        BY <2>1, <3>1, <3>3 DEF DeleteDeviceObject
      <3> QED
        BY <3>2, <3>3
    <2>2. CASE DeleteMarkedType(d)
      <3>1. ~DeleteDeviceObject(d)
        BY <2>2 DEF DeleteDeviceObject, DeleteMarkedType
      <3> QED
        BY <2>2, <3>1 DEF DeleteMarkedType
    <2> QED
      BY <2>1, <2>2
  <1> DEFINE p == [dev[d] EXCEPT !.obj = o]
  <1>2. dev[d] \in DevRecords
    BY DevTypesFields
  <1>3. p \in DevRecords /\ p.obj = o /\ p.refs = dev[d].refs /\ p.hashed = dev[d].hashed
        /\ p.by = dev[d].by
    BY <1>2, ObjSet
  <1>4. dev' = [dev EXCEPT ![d] = p]
    BY <1>1
  <1> HIDE DEF p
  <1>5. Becomes(d, p)
    BY <1>3, <1>4, DeviceBecomes
  <1>6. type' \in [count : Int, marked : BOOLEAN, deleted : BOOLEAN]
    <2>1. \/ type' = [type EXCEPT !.count = @ - 1] \/ type' = [type EXCEPT !.deleted = TRUE]
          \/ UNCHANGED type
      BY DEF DeleteDeviceObject, DeleteMarkedType, DeleteDeviceObjectType
    <2>2. type \in [count : Int, marked : BOOLEAN, deleted : BOOLEAN]
      BY DEF DevTypes
    <2>3. CASE type' = [type EXCEPT !.count = @ - 1]
      BY <2>2, <2>3
    <2>4. CASE type' = [type EXCEPT !.deleted = TRUE]
      BY <2>2, <2>4
    <2> QED
      BY <2>1, <2>2, <2>3, <2>4
  <1>7. UNCHANGED <<boot, up, conn, event, global, req, at, ret, sent>>
    BY DEF DeleteDeviceObject, DeleteMarkedType
  <1>8. DevTypes'
    BY <1>5, <1>6 DEF DevTypes, Becomes
  <1> QED
    BY <1>1, <1>3, <1>5, <1>7, <1>8

LEMMA DeletionStays ==
  ASSUME RInv, Deletion
  PROVE  RInv'
  <1>1. PICK d \in Devices : DeleteDeviceObject(d) \/ DeleteMarkedType(d)
    BY DEF Deletion
  <1>2. DevTypes
    BY DEF RInv, Types
  <1>3. PICK o \in {"counted", "gone"} : \E p :
              Becomes(d, p) /\ p.obj = o /\ p.refs = dev[d].refs /\ p.hashed = dev[d].hashed
    BY <1>1, <1>2, DeletionIs
  <1>4. PICK p : Becomes(d, p) /\ p.obj = o /\ p.refs = dev[d].refs /\ p.hashed = dev[d].hashed
    BY <1>3
  <1>5. DevTypes' /\ UNCHANGED <<boot, up, conn, event, global, req, at, ret, sent>>
    BY <1>1, <1>2, DeletionIs
  <1>6. dev[d].obj # "live"
    BY <1>1 DEF DeleteDeviceObject, DeleteMarkedType
  <1>7. \A e \in Devices : dev'[e].refs = dev[e].refs /\ dev'[e].hashed = dev[e].hashed
                           /\ (e # d => dev'[e] = dev[e])
    BY <1>4 DEF Becomes
  <1>8. BootTypes' /\ LinkTypes' /\ ReqTypes' /\ RequestsFit'
        /\ (boot'.dev # "none" <=> boot'.pc = "cleaned")
    BY <1>5 DEF RInv, Types, BootTypes, LinkTypes, ReqTypes, RequestsFit, Alive
  <1>9. \A e \in Devices : CleanersOf(e)' = CleanersOf(e)
    BY <1>5 DEF CleanersOf, Dev
  <1>10. OneOwner'
    BY <1>5, <1>7, <1>9 DEF RInv, OneOwner
  <1>11. \A e \in Devices : Owner(e)' = Owner(e) /\ Owner(e) \in {0, 1} /\ dev[e].refs \in Nat
    BY <1>5, <1>7, <1>9, UsedDevicesLive DEF Owner
  <1>12. \A e \in Devices : dev'[e].refs = dev[e].refs + (Owner(e)' - Owner(e))
    BY <1>7, <1>11
  <1>13. \A e \in Devices : dev'[e].refs > 0 <=> dev'[e].obj = "live"
    BY <1>4, <1>6, <1>7 DEF RInv, Alive, Becomes
  <1> QED
    BY <1>5, <1>8, <1>10, <1>12, <1>13, OwnerStep

-----------------------------------------------------------------------------
(* The invariant *)

LEMMA RInvInit ==
  Init => RInv
  <1> SUFFICES ASSUME Init
               PROVE  RInv
    OBVIOUS
  <1>1. BootTypes
    BY DEF Init, BootTypes, BootPoints, Starting, Modes, Parts
  <1>2. NewLock \in Locks /\ NewLock.count = 1
    BY DEF NewLock, Locks
  <1>3. LinkTypes
    <2>1. global \in Locks
      <3>1. 2 \in Int
        OBVIOUS
      <3> QED
        BY <1>2, <3>1, LockTypes DEF Init
    <2> QED
      BY <2>1 DEF Init, LinkTypes
  <1>4. DevTypes
    <2>1. NoDev \in DevRecords
      BY <1>2 DEF NoDev, DevRecords, Deleters
    <2> QED
      BY <2>1 DEF Init, DevTypes, NewType
  <1>5. NoReq \in ReqRecords
    BY CoreDriverAssumption DEF NoReq, ReqRecords
  <1>6. ReqTypes
    BY <1>5 DEF Init, ReqTypes, Roles, Points
  <1>7. \A r \in Requests : /\ req[r].kind = "none"
                            /\ at[r]["disp"] = "new" /\ at[r]["item"] = "none"
                            /\ at[r]["comp"] = "none" /\ at[r]["citem"] = "none"
                            /\ ret[r] = {} /\ sent[r] = 0
    BY DEF Init, NoReq, Roles
  <1>8. RequestsFit
    BY <1>7 DEF RequestsFit, PlacesFit, SendsFit, Drivers, Early, Served, Hooks
  <1>9. \A d \in Devices : /\ CleanersOf(d) = {}
                           /\ \A role, points : UsersOf(d, role, points) = {}
    BY <1>7 DEF CleanersOf, UsersOf, IsIo
  <1>10. \A d \in Devices : ~dev[d].hashed /\ dev[d].refs = 0 /\ dev[d].obj = "none"
    BY DEF Init, NoDev
  <1>11. boot.dev = "none" /\ boot.pc = "lists"
    BY DEF Init
  <1>12. OneOwner /\ Alive
    BY <1>9, <1>10, <1>11, CoreDriverAssumption DEF OneOwner, Alive
  <1>13. DeviceReferencesAreExact
    <2> SUFFICES ASSUME NEW d \in Devices
                 PROVE  dev[d].refs = Owner(d) + Cardinality(UsersOf(d, "disp", InUse))
                          + Cardinality(UsersOf(d, "disp", {"lock", "post"}))
                          + Cardinality(UsersOf(d, "item", InItem))
                          + Cardinality(UsersOf(d, "item", InContext))
      BY ReferencesOf
    <2>1. Owner(d) = 0
      BY <1>9, <1>10, <1>11, CoreDriverAssumption DEF Owner
    <2>2. \A role, points : Cardinality(UsersOf(d, role, points)) = 0
      BY <1>9, FS_EmptySet
    <2>3. dev[d].refs = 0
      BY <1>10
    <2> QED
      BY <2>1, <2>2, <2>3
  <1> QED
    BY <1>1, <1>3, <1>4, <1>6, <1>8, <1>12, <1>13 DEF RInv, Types

LEMMA RInvStep ==
  RInv /\ [Next]_vars => RInv'
  <1> SUFFICES ASSUME RInv, [Next]_vars
               PROVE  RInv'
    OBVIOUS
  <1>1. CASE UNCHANGED vars
    <2>1. Types'
      BY <1>1 DEF vars, RInv, Types, BootTypes, LinkTypes, DevTypes, ReqTypes
    <2>2. RequestsFit' /\ (boot'.dev # "none" <=> boot'.pc = "cleaned")
      BY <1>1 DEF vars, RInv, RequestsFit, Alive
    <2>3. \A d \in Devices : CleanersOf(d)' = CleanersOf(d)
      BY <1>1 DEF vars, CleanersOf, Dev
    <2>4. OneOwner' /\ \A d \in Devices : dev'[d].refs > 0 <=> dev'[d].obj = "live"
      BY <1>1, <2>3 DEF vars, RInv, OneOwner, Alive
    <2>5. \A d \in Devices : Owner(d)' = Owner(d) /\ Owner(d) \in {0, 1} /\ dev[d].refs \in Nat
      BY <1>1, <2>3, UsedDevicesLive DEF vars, Owner
    <2>6. \A d \in Devices : dev'[d].refs = dev[d].refs + (Owner(d)' - Owner(d))
      BY <1>1, <2>5 DEF vars
    <2> QED
      BY <1>1, <2>1, <2>2, <2>4, <2>6, OwnerStep DEF vars, Types
  <1>2. ASSUME NEW r \in Requests, DispatchStep(r)
        PROVE  RInv'
    <2>1. CASE DereferenceDevice(r)
      BY <2>1, DroppingStays DEF DereferenceDevice, Points
    <2> QED
      BY <1>2, <2>1, DecidingStays, LeavingStays, FindingStays, ProcessingStays, CopyingStays,
         LockingStays, PostponingStays, HookingStays, ReportingStays, RemovingStays,
         CleaningStays DEF DispatchStep
  <1>3. ASSUME NEW r \in Requests, ItemStep(r)
        PROVE  RInv'
    <2>1. CASE DropDevice(r)
      BY <2>1, DroppingStays DEF DropDevice, Points
    <2>2. CASE FreeNodeContextCopy(r)
      BY <2>2, DroppingStays DEF FreeNodeContextCopy, Points
    <2> QED
      BY <1>3, <2>1, <2>2, ItemStays, SendingStays, UnlockingStays, HookingStays DEF ItemStep
  <1>4. ASSUME NEW r \in Requests, Step(r)
        PROVE  RInv'
    BY <1>2, <1>3, <1>4, CompletionStays DEF Step
  <1>5. CASE QueryUnload \/ DriverUnload
    <2>1. /\ boot.pc = "running" /\ boot' \in BootRecords /\ boot'.pc = "disconnect pnp"
          /\ boot'.dev = boot.dev
          /\ UNCHANGED <<up, conn, event, global, dev, type, req, at, ret, sent>>
      BY <1>5, UnloadBegins
    <2>2. LinkTypes' /\ DevTypes' /\ up' \subseteq Parts
      BY <2>1 DEF RInv, Types, BootTypes, LinkTypes, DevTypes
    <2> QED
      BY <2>1, <2>2, BootQuiet
  <1> QED
    BY <1>1, <1>4, <1>5, CallingStays, DeletionStays, StartingStays, UnloadingStays
       DEF Next, BootStep

LEMMA RInvariant ==
  Spec => []RInv
  BY RInvInit, RInvStep, PTL DEF Spec

(***************************************************************************)
(* A request is sent to the driver below, or completed, once, whoever of   *)
(* its dispatch and of its work item comes to do it, whatever fails on the *)
(* way (iomngr.c:684-705, ioworkerthread.c:175-240).                       *)
(***************************************************************************)
THEOREM RequestsPassOnce ==
  Spec => []PassedOnce
  <1>1. ASSUME RInv, NEW r \in Requests
        PROVE  /\ sent[r] <= 1
               /\ at[r]["disp"] = "out" /\ at[r]["item"] \in {"none", "out"} /\ IsIo(r)
                    => sent[r] = 1
    BY <1>1, FitsNow DEF PlacesFit, SendsFit, Early, Hooks, Served, Drivers
  <1>2. RInv => PassedOnce
    BY <1>1 DEF PassedOnce
  <1> QED
    BY <1>2, RInvariant, PTL

-----------------------------------------------------------------------------
(***************************************************************************)
(* What DriverUnload waits for.                                            *)
(***************************************************************************)

Purging == boot.mode = "unload" /\ boot.pc \in {"purge", "cleaned"} \cup Late
Ending  == {"await type", "delete pools", "delete lists", "down"}

\* Inside the callbacks of the core driver, with a cookie for the completion,
\* with the remove lock of the driver, at work at all.
Inside(a)    == a["disp"] \notin {"new", "out"}
HasCookie(a) == a["comp"] \notin {"none", "out"}
Holds(a)     == \/ a["disp"] \in {"context", "cookie"} \/ a["item"] \in {"context", "cookie"}
                \/ a["comp"] \in {"hooked", "callback", "free", "release"}
                \/ a["citem"] \in {"queued", "free", "release"}
Working(a)   == \E role \in Roles : a[role] \notin {"new", "none", "out"}
\* Past the point where the functions of the hooker may be called.
Filtered(k, a) == \/ a["disp"] \in Early /\ (a["disp"] = "in" => k = "hook")
                  \/ a["item"] # "none"

Callers(s) == {r \in Requests : Source(r) = s /\ Inside(at[r])}
Cookies    == {r \in Requests : HasCookie(at[r])}
Holders    == {r \in Requests : Holds(at[r])}
Existing   == {d \in Devices : dev[d].obj \in {"live", "dying"}}

ConnectionsAreExact ==
  \A s \in Drivers :
    /\ conn[s].refs = (IF conn[s].current THEN 1 ELSE 0) + Cardinality(Callers(s))
                        + (IF s = "hook" THEN Cardinality(Cookies) ELSE 0)
    /\ event[s] <=> conn[s].refs = 0

GlobalIsExact ==
  /\ global.count = (IF global.removed THEN 0 ELSE 2) + Cardinality(Holders)
  /\ global.signalled => global.removed /\ Cardinality(Holders) = 0

\* The places of DriverEntry and DriverUnload where a connection is not the
\* current one, and those where nobody refers to it.
Before(s) == IF s = "pnp" THEN {"lists", "pools", "hashes", "connect pnp"}
             ELSE {"lists", "pools", "hashes", "connect pnp", "connect hook"}
Disconnected(s) ==
  \/ boot.pc \in Before(s) \cup Late
  \/ boot.pc \in {"wait pnp", "wait hook", "close", "drain", "purge", "cleaned"}
  \/ s = "pnp" /\ boot.pc = "disconnect hook"
Waited(s) == \/ boot.pc \in Before(s) \cup {"close", "drain"} \/ Purging
             \/ s = "pnp" /\ boot.pc = "wait hook"

ModesFit ==
  /\ boot.pc \in Starting => boot.mode = "entry"
  /\ boot.pc = "running" => boot.mode # "unload"
  /\ boot.pc \in {"disconnect pnp", "disconnect hook", "purge", "cleaned"} => boot.mode # "entry"
  /\ boot.pc \in {"wait pnp", "wait hook", "close", "drain"} \cup Late => boot.mode = "unload"
LinksFit == \A s \in Drivers : /\ Disconnected(s) => ~conn[s].current
                               /\ Waited(s) => conn[s].refs = 0
LockFits == /\ global.removed <=> boot.pc = "drain" \/ Purging
            /\ Purging => Cardinality(Holders) = 0

AllParts == {"lists", "pools", "hashes"}
StartFits ==
  /\ boot.pc \in {"connect pnp", "connect hook", "report", "filter"} => AllParts \subseteq up
  /\ boot.pc = "hashes" => {"lists", "pools"} \subseteq up
  /\ boot.pc = "pools" => "lists" \in up
  /\ boot.pc = "report" => "exports" \in up
PartsStay ==
  /\ \A s \in Drivers : conn[s].refs > 0 => AllParts \subseteq up
  /\ conn["hook"].current \/ "collected" \in up => "exports" \in up
  /\ \A r \in Requests : /\ Working(at[r]) => {"lists", "pools"} \subseteq up
                         /\ Filtered(req[r].kind, at[r]) => "exports" \in up

TypeIsExact ==
  /\ type.count = Cardinality(Existing)
  /\ type.marked => boot.pc \in Ending
  /\ type.deleted => boot.pc \in Ending /\ type.count = 0
  /\ boot.pc \in {"delete pools", "delete lists", "down"} => type.deleted

\* Who deletes a device is still there.
Deleter(t) == \/ t = <<"boot">> /\ boot.pc = "purge"
              \/ \E r \in Requests : \/ t = <<r, "disp">> /\ Inside(at[r])
                                     \/ t = <<r, "item">> /\ at[r]["item"] \in {"free", "freed"}
DeletersStay == \A d \in Devices : dev[d].obj \in {"dying", "counted"} => Deleter(dev[d].by)

ItemsEnd == boot.pc \in {"delete lists", "down"} =>
  \A r \in Requests : at[r]["item"] \in {"none", "out"} /\ at[r]["citem"] \in {"none", "out"}

\* The inductive invariant, with that of CoreDriver_proof.
UInv == /\ ModesFit /\ LinksFit /\ LockFits /\ StartFits
        /\ ConnectionsAreExact /\ GlobalIsExact /\ PartsStay /\ TypeIsExact
        /\ DeletersStay /\ ItemsEnd

-----------------------------------------------------------------------------
(* Who is counted *)

LEMMA CountedSetsAreFinite ==
  /\ \A s : /\ IsFiniteSet(Callers(s)) /\ Cardinality(Callers(s)) \in Nat
            /\ Cardinality(Callers(s)) = 0 <=> Callers(s) = {}
  /\ IsFiniteSet(Cookies) /\ Cardinality(Cookies) \in Nat
  /\ Cardinality(Cookies) = 0 <=> Cookies = {}
  /\ IsFiniteSet(Holders) /\ Cardinality(Holders) \in Nat
  /\ Cardinality(Holders) = 0 <=> Holders = {}
  /\ IsFiniteSet(Existing) /\ Cardinality(Existing) \in Nat
  /\ Cardinality(Existing) = 0 <=> Existing = {}
  <1>1. /\ \A s : Callers(s) \subseteq Requests
        /\ Cookies \subseteq Requests /\ Holders \subseteq Requests /\ Existing \subseteq Devices
    BY DEF Callers, Cookies, Holders, Existing
  <1>2. /\ \A s : IsFiniteSet(Callers(s))
        /\ IsFiniteSet(Cookies) /\ IsFiniteSet(Holders) /\ IsFiniteSet(Existing)
    BY <1>1, FS_Subset, CoreDriverAssumption
  <1> QED
    BY <1>2, FS_CardinalityType, FS_EmptySet

\* How far the counts change when one request moves.
LEMMA CountsMove ==
  ASSUME NEW r \in Requests, UNCHANGED req,
         \A u \in Requests : u # r => at'[u] = at[u]
  PROVE  /\ \A s : Cardinality(Callers(s)') = Cardinality(Callers(s))
                     + (IF Source(r) = s /\ Inside(at'[r]) THEN 1 ELSE 0)
                     - (IF Source(r) = s /\ Inside(at[r]) THEN 1 ELSE 0)
         /\ Cardinality(Cookies') = Cardinality(Cookies)
                     + (IF HasCookie(at'[r]) THEN 1 ELSE 0) - (IF HasCookie(at[r]) THEN 1 ELSE 0)
         /\ Cardinality(Holders') = Cardinality(Holders)
                     + (IF Holds(at'[r]) THEN 1 ELSE 0) - (IF Holds(at[r]) THEN 1 ELSE 0)
  <1>1. ASSUME NEW s
        PROVE  Cardinality(Callers(s)') = Cardinality(Callers(s))
                     + (IF Source(r) = s /\ Inside(at'[r]) THEN 1 ELSE 0)
                     - (IF Source(r) = s /\ Inside(at[r]) THEN 1 ELSE 0)
    <2> DEFINE S == Callers(s)
               T == Callers(s)'
               joins == Source(r) = s /\ Inside(at'[r])
    <2>1. T = IF joins THEN S \cup {r} ELSE S \ {r}
      BY DEF Callers, Source, Inside
    <2>2. r \in S <=> Source(r) = s /\ Inside(at[r])
      BY DEF Callers
    <2>3. joins \in BOOLEAN /\ IsFiniteSet(S)
      BY CountedSetsAreFinite
    <2> HIDE DEF S, T, joins
    <2>4. Cardinality(T) = Cardinality(S) + (IF joins THEN 1 ELSE 0) - (IF r \in S THEN 1 ELSE 0)
      BY <2>1, <2>3, OneJoinsOrLeaves
    <2> QED
      BY <2>2, <2>4 DEF S, T, joins
  <1>2. Cardinality(Cookies') = Cardinality(Cookies)
                     + (IF HasCookie(at'[r]) THEN 1 ELSE 0) - (IF HasCookie(at[r]) THEN 1 ELSE 0)
    <2> DEFINE S == Cookies
               T == Cookies'
               joins == HasCookie(at'[r])
    <2>1. T = IF joins THEN S \cup {r} ELSE S \ {r}
      BY DEF Cookies, HasCookie
    <2>2. r \in S <=> HasCookie(at[r])
      BY DEF Cookies
    <2>3. joins \in BOOLEAN /\ IsFiniteSet(S)
      BY CountedSetsAreFinite DEF HasCookie
    <2> HIDE DEF S, T, joins
    <2>4. Cardinality(T) = Cardinality(S) + (IF joins THEN 1 ELSE 0) - (IF r \in S THEN 1 ELSE 0)
      BY <2>1, <2>3, OneJoinsOrLeaves
    <2> QED
      BY <2>2, <2>4 DEF S, T, joins
  <1>3. Cardinality(Holders') = Cardinality(Holders)
                     + (IF Holds(at'[r]) THEN 1 ELSE 0) - (IF Holds(at[r]) THEN 1 ELSE 0)
    <2> DEFINE S == Holders
               T == Holders'
               joins == Holds(at'[r])
    <2>1. T = IF joins THEN S \cup {r} ELSE S \ {r}
      BY DEF Holders, Holds
    <2>2. r \in S <=> Holds(at[r])
      BY DEF Holders
    <2>3. joins \in BOOLEAN /\ IsFiniteSet(S)
      BY CountedSetsAreFinite DEF Holds
    <2> HIDE DEF S, T, joins
    <2>4. Cardinality(T) = Cardinality(S) + (IF joins THEN 1 ELSE 0) - (IF r \in S THEN 1 ELSE 0)
      BY <2>1, <2>3, OneJoinsOrLeaves
    <2> QED
      BY <2>2, <2>4 DEF S, T, joins
  <1> QED
    BY <1>1, <1>2, <1>3

LEMMA CountedSetsAreFiniteNext ==
  /\ \A s : Cardinality(Callers(s)') \in Nat
  /\ Cardinality(Cookies') \in Nat /\ Cardinality(Holders') \in Nat
  /\ IsFiniteSet(Existing')
  <1>1. /\ \A s : Callers(s)' \subseteq Requests
        /\ Cookies' \subseteq Requests /\ Holders' \subseteq Requests /\ Existing' \subseteq Devices
    BY DEF Callers, Cookies, Holders, Existing
  <1>2. /\ \A s : IsFiniteSet(Callers(s)')
        /\ IsFiniteSet(Cookies') /\ IsFiniteSet(Holders') /\ IsFiniteSet(Existing')
    BY <1>1, FS_Subset, CoreDriverAssumption
  <1> QED
    BY <1>2, FS_CardinalityType

\* After the wait for a driver it has no caller, and after that for the hooker
\* there is no cookie; what is counted is there.
LEMMA NobodyCalls ==
  ASSUME RInv, UInv
  PROVE  /\ \A s \in Drivers : conn[s].refs = 0 => Callers(s) = {} /\ ~conn[s].current
         /\ conn["hook"].refs = 0 => Cookies = {}
         /\ \A s \in Drivers : conn[s].refs \in Nat
         /\ \A r \in Requests : Inside(at[r]) => conn[Source(r)].refs > 0
         /\ \A r \in Requests : HasCookie(at[r]) => conn["hook"].refs > 0
  <1>1. ASSUME NEW s \in Drivers
        PROVE  /\ conn[s].refs \in Nat /\ (conn[s].refs = 0 => Callers(s) = {} /\ ~conn[s].current)
               /\ s = "hook" /\ conn[s].refs = 0 => Cookies = {}
    BY CountedSetsAreFinite DEF UInv, ConnectionsAreExact
  <1>2. "hook" \in Drivers /\ \A r \in Requests : Source(r) \in Drivers
    BY DEF Drivers, Source
  <1>3. \A r \in Requests : Inside(at[r]) => r \in Callers(Source(r))
    BY DEF Callers
  <1>4. \A r \in Requests : HasCookie(at[r]) => r \in Cookies
    BY DEF Cookies
  <1>5. \A s \in Drivers : conn[s].refs # 0 => conn[s].refs > 0
    BY <1>1
  <1> QED
    BY <1>1, <1>2, <1>3, <1>4, <1>5

-----------------------------------------------------------------------------
(* What a step of the threads of control of a request does to all the rest *)

\* It enters no callback; it leaves the connection of its driver, or takes a
\* cookie or gives it back.
LinkEffect(r) ==
  \/ /\ UNCHANGED <<conn, event>>
     /\ Inside(at'[r]) <=> Inside(at[r])
     /\ HasCookie(at'[r]) <=> HasCookie(at[r])
  \/ /\ DereferenceConnection(Source(r))
     /\ Inside(at[r]) /\ ~Inside(at'[r]) /\ ~Busy(<<r, "disp">>)
     /\ HasCookie(at'[r]) <=> HasCookie(at[r])
  \/ /\ conn["hook"].current /\ conn' = [conn EXCEPT !["hook"].refs = @ + 1] /\ UNCHANGED event
     /\ Inside(at'[r]) <=> Inside(at[r])
     /\ ~HasCookie(at[r]) /\ HasCookie(at'[r])
  \/ /\ DereferenceConnection("hook")
     /\ Inside(at'[r]) <=> Inside(at[r])
     /\ HasCookie(at[r]) /\ ~HasCookie(at'[r])

LockEffect(r) ==
  \/ UNCHANGED global /\ (Holds(at'[r]) <=> Holds(at[r]))
  \/ /\ ~global.removed /\ global' = [global EXCEPT !.count = @ + 1]
     /\ ~Holds(at[r]) /\ Holds(at'[r])
  \/ global' = Released(global) /\ Holds(at[r]) /\ ~Holds(at'[r])

DeviceEffect(r) ==
  \/ /\ UNCHANGED type
     /\ \A d \in Devices :
          \/ dev'[d].obj = dev[d].obj /\ dev'[d].by = dev[d].by
          \/ /\ dev[d].obj = "live" /\ dev'[d].obj = "dying"
             /\ \/ dev'[d].by = <<r, "disp">> /\ Inside(at'[r])
                \/ dev'[d].by = <<r, "item">> /\ at'[r]["item"] \in {"free", "freed"}
  \/ \E d \in Devices : dev[d].obj = "none" /\ CreateDevice(d) /\ Inside(at[r])

PlaceEffect(r) ==
  /\ UNCHANGED <<boot, up, req>> /\ \A u \in Requests : u # r => at'[u] = at[u]
  /\ Working(at[r])
  /\ Filtered(req[r].kind, at'[r]) => Filtered(req[r].kind, at[r]) \/ "collected" \in up
  /\ at[r]["item"] \in {"free", "freed"} /\ at'[r]["item"] \notin {"free", "freed"}
       => ~Busy(<<r, "item">>)

Effects(r) == LinkEffect(r) /\ LockEffect(r) /\ DeviceEffect(r) /\ PlaceEffect(r)

\* One thread of control moves.
Went(r, role, from, to) ==
  /\ at[r][role] = from /\ at'[r][role] = to
  /\ \A o \in Roles : o # role => at'[r][o] = at[r][o]
  /\ \A u \in Requests : u # r => at'[u] = at[u]

LEMMA GotoWent ==
  ASSUME RInv, NEW r \in Requests, NEW role \in Roles, NEW from, NEW to, Goto(r, role, from, to)
  PROVE  Went(r, role, from, to)
  <1> DEFINE a == [at[r] EXCEPT ![role] = to]
  <1>1. at \in [Requests -> [Roles -> Points]]
    BY DEF RInv, Types, ReqTypes
  <1>2. at[r][role] = from /\ at' = [at EXCEPT ![r] = a]
    BY <1>1 DEF Goto
  <1>3. a[role] = to /\ \A o \in Roles : o # role => a[o] = at[r][o]
    BY <1>1
  <1> HIDE DEF a
  <1> QED
    BY <1>1, <1>2, <1>3 DEF Went

LEMMA DispatchEffects ==
  ASSUME RInv, NEW r \in Requests, NEW from, NEW to, Went(r, "disp", from, to),
         from \notin {"new", "none", "out"}, to \notin {"new", "out"},
         UNCHANGED <<boot, up, req, conn, event>>, LockEffect(r), DeviceEffect(r),
         to # "in", to \in Early => from \in Early,
         to \in Early /\ from = "in" => "collected" \in up \/ req[r].kind = "hook"
  PROVE  Effects(r)
  <1>1. "disp" \in Roles /\ \A o \in Roles \ {"disp"} : o # "disp"
    BY DEF Roles
  <1>2. LinkEffect(r)
    BY <1>1 DEF LinkEffect, Went, Inside, HasCookie, Roles
  <1>3. PlaceEffect(r)
    BY <1>1 DEF PlaceEffect, Went, Working, Filtered, Roles
  <1> QED
    BY <1>2, <1>3 DEF Effects

LEMMA ItemEffects ==
  ASSUME RInv, NEW r \in Requests, NEW from, NEW to, Went(r, "item", from, to),
         from \notin {"new", "none", "out"}, to # "none",
         UNCHANGED <<boot, up, req, conn, event>>, LockEffect(r), DeviceEffect(r),
         from \in {"free", "freed"} /\ to \notin {"free", "freed"} => ~Busy(<<r, "item">>)
  PROVE  Effects(r)
  <1>2. LinkEffect(r)
    BY DEF LinkEffect, Went, Inside, HasCookie, Roles
  <1>3. PlaceEffect(r)
    BY DEF PlaceEffect, Went, Working, Filtered, Roles
  <1> QED
    BY <1>2, <1>3 DEF Effects

LEMMA CompletionEffects ==
  ASSUME RInv, NEW r \in Requests, NEW role \in {"comp", "citem"}, NEW from, NEW to,
         Went(r, role, from, to),
         from \notin {"new", "none", "out"}, role = "comp" => to \notin {"none", "out"},
         UNCHANGED <<boot, up, req, conn, event, dev, type>>, LockEffect(r)
  PROVE  Effects(r)
  <1>1. LinkEffect(r)
    BY DEF LinkEffect, Went, Inside, HasCookie, Roles
  <1>2. PlaceEffect(r)
    BY DEF PlaceEffect, Went, Working, Filtered, Roles
  <1>3. DeviceEffect(r)
    BY DEF DeviceEffect
  <1> QED
    BY <1>1, <1>2, <1>3 DEF Effects

\* No thread of a request comes to hold the remove lock of the driver or gives
\* it back.
LEMMA LockIsLeft ==
  ASSUME NEW r \in Requests, NEW role \in Roles, NEW from, NEW to, Went(r, role, from, to),
         UNCHANGED global,
         role \in {"disp", "item"} => (from \in {"context", "cookie"} <=> to \in {"context", "cookie"}),
         role = "comp" => (from \in {"hooked", "callback", "free", "release"}
                             <=> to \in {"hooked", "callback", "free", "release"}),
         role = "citem" => (from \in {"queued", "free", "release"}
                             <=> to \in {"queued", "free", "release"})
  PROVE  LockEffect(r)
  BY DEF LockEffect, Went, Holds, Roles

LEMMA DeviceIsLeft ==
  ASSUME NEW r \in Requests, UNCHANGED <<dev, type>>
  PROVE  DeviceEffect(r)
  BY DEF DeviceEffect

LEMMA DeviceIsUsed ==
  ASSUME NEW r \in Requests, NEW d \in Devices, NEW n, NEW t, References(d, n, t),
         UNCHANGED type,
         \/ t = <<r, "disp">> /\ Inside(at'[r])
         \/ t = <<r, "item">> /\ at'[r]["item"] \in {"free", "freed"}
  PROVE  DeviceEffect(r)
  BY DEF DeviceEffect, References

LEMMA PlacesOf ==
  ASSUME RInv, NEW r \in Requests
  PROVE  PlacesFit(req[r].kind, at[r]) /\ Dev(r) \in Devices /\ DevTypes
  BY FitsNow

LEMMA DecidingEffects ==
  ASSUME RInv, NEW r \in Requests, Decide(r) \/ ProcessIrpBasedDeviceRequest(r)
  PROVE  Effects(r)
  <1>1. UNCHANGED <<boot, up, req, conn, event, global, dev, type>>
    BY DEF Decide, ProcessIrpBasedDeviceRequest
  <1>2. \E from \in {"decide", "node"} : \E to \in {"leave", "copy", "hook", "deref"} :
          Goto(r, "disp", from, to) /\ (from = "decide" => to = "leave")
    BY DEF Decide, ProcessIrpBasedDeviceRequest, Visited, After
  <1>3. PICK from \in {"decide", "node"}, to \in {"leave", "copy", "hook", "deref"} :
          Goto(r, "disp", from, to) /\ (from = "decide" => to = "leave")
    BY <1>2
  <1>4. Went(r, "disp", from, to)
    BY <1>3, GotoWent DEF Roles
  <1>5. LockEffect(r) /\ DeviceEffect(r)
    BY <1>1, <1>3, <1>4, LockIsLeft, DeviceIsLeft DEF Roles
  <1> QED
    BY <1>1, <1>3, <1>4, <1>5, DispatchEffects DEF Early, Hooks

LEMMA LeavingEffects ==
  ASSUME RInv, NEW r \in Requests, Leave(r), ~Busy(<<r, "disp">>)
  PROVE  Effects(r)
  <1>1. /\ UNCHANGED <<boot, up, req, global, dev, type>> /\ DereferenceConnection(Source(r))
        /\ Goto(r, "disp", "leave", "out")
    BY DEF Leave
  <1>2. Went(r, "disp", "leave", "out")
    BY <1>1, GotoWent DEF Roles
  <1>3. LockEffect(r) /\ DeviceEffect(r)
    BY <1>1, <1>2, LockIsLeft, DeviceIsLeft DEF Roles
  <1>4. LinkEffect(r)
    BY <1>1, <1>2 DEF LinkEffect, Went, Inside, HasCookie, Roles
  <1>5. PlaceEffect(r)
    BY <1>1, <1>2 DEF PlaceEffect, Went, Working, Filtered, Roles, Early, Hooks
  <1> QED
    BY <1>3, <1>4, <1>5 DEF Effects

LEMMA FindingEffects ==
  ASSUME RInv, NEW r \in Requests, FindDevice(r)
  PROVE  Effects(r)
  <1>1. UNCHANGED <<boot, up, req, conn, event, global, type>>
    BY DEF FindDevice
  <1>2. CASE UNCHANGED dev /\ Goto(r, "disp", "in", "decide")
    <2>1. Went(r, "disp", "in", "decide")
      BY <1>2, GotoWent DEF Roles
    <2>2. LockEffect(r) /\ DeviceEffect(r)
      BY <1>1, <1>2, <2>1, LockIsLeft, DeviceIsLeft DEF Roles
    <2> QED
      BY <1>1, <2>1, <2>2, DispatchEffects DEF Early, Hooks
  <1>3. CASE /\ dev[Dev(r)].hashed /\ Reference(Dev(r)) /\ Goto(r, "disp", "in", "node")
             /\ req[r].kind = "pnp" => "collected" \in up
    <2>1. Went(r, "disp", "in", "node")
      BY <1>3, GotoWent DEF Roles
    <2>2. req[r].kind \in {"hook", "pnp"}
      BY <2>1, PlacesOf DEF Went, PlacesFit, Early, Drivers
    <2>3. References(Dev(r), 1, <<r, "disp">>)
      BY <1>3, PlacesOf, UsedDevicesLive, ReferenceAdds
    <2>4. Inside(at'[r])
      BY <2>1 DEF Inside, Went
    <2>5. LockEffect(r) /\ DeviceEffect(r)
      BY <1>1, <2>1, <2>3, <2>4, PlacesOf, LockIsLeft, DeviceIsUsed DEF Roles
    <2> QED
      BY <1>1, <1>3, <2>1, <2>2, <2>5, DispatchEffects DEF Early, Hooks
  <1> QED
    BY <1>2, <1>3 DEF FindDevice

\* The device that a dispatch uses.
LEMMA DispatchUses ==
  ASSUME RInv, NEW r \in Requests, at[r]["disp"] \in InUse
  PROVE  dev[Dev(r)].refs > 0 /\ dev[Dev(r)].obj = "live"
  <1>1. IsIo(r)
    BY PlacesOf, FitsNow DEF PlacesFit, InUse, Early, Hooks
  <1>2. Weight(at[r]) > 0
    BY DEF Weight, InUse
  <1> QED
    BY <1>1, <1>2, PlacesOf, UsedDevicesLive DEF RInv, Alive

LEMMA CopyingEffects ==
  ASSUME RInv, NEW r \in Requests, CreateNodeCtxCopy(r)
  PROVE  Effects(r)
  <1>1. UNCHANGED <<boot, up, req, conn, event, global, type>>
    BY DEF CreateNodeCtxCopy
  <1>2. ASSUME NEW to \in {"hook", "deref"}, UNCHANGED dev, Goto(r, "disp", "copy", to)
        PROVE  Effects(r)
    <2>1. Went(r, "disp", "copy", to)
      BY <1>2, GotoWent DEF Roles
    <2>2. LockEffect(r) /\ DeviceEffect(r)
      BY <1>1, <1>2, <2>1, LockIsLeft, DeviceIsLeft DEF Roles
    <2> QED
      BY <1>1, <2>1, <2>2, DispatchEffects DEF Early, Hooks
  <1>3. CASE Reference(Dev(r)) /\ Goto(r, "disp", "copy", "lock")
    <2>1. Went(r, "disp", "copy", "lock")
      BY <1>3, GotoWent DEF Roles
    <2>2. dev[Dev(r)].refs > 0
      BY <2>1, DispatchUses DEF Went, InUse
    <2>3. References(Dev(r), 1, <<r, "disp">>) /\ Inside(at'[r])
      BY <1>3, <2>1, <2>2, PlacesOf, ReferenceAdds DEF Inside, Went
    <2>4. LockEffect(r) /\ DeviceEffect(r)
      BY <1>1, <2>1, <2>3, PlacesOf, LockIsLeft, DeviceIsUsed DEF Roles
    <2> QED
      BY <1>1, <2>1, <2>4, DispatchEffects DEF Early, Hooks
  <1> QED
    BY <1>2, <1>3 DEF CreateNodeCtxCopy, Visited, After

LEMMA LockingEffects ==
  ASSUME RInv, NEW r \in Requests, AcquireDeviceLock(r)
  PROVE  Effects(r)
  <1>1. UNCHANGED <<boot, up, req, conn, event, global, type>> /\ at[r]["disp"] = "lock"
    BY DEF AcquireDeviceLock
  <1>2. dev[Dev(r)].refs > 0
    BY <1>1, DispatchUses DEF InUse
  <1>3. ASSUME NEW to \in {"post", "hook", "deref"}, NEW n, Goto(r, "disp", "lock", to),
               References(Dev(r), n, <<r, "disp">>)
        PROVE  Effects(r)
    <2>1. Went(r, "disp", "lock", to)
      BY <1>3, GotoWent DEF Roles
    <2>2. Inside(at'[r])
      BY <2>1 DEF Inside, Went
    <2>3. LockEffect(r) /\ DeviceEffect(r)
      BY <1>1, <1>3, <2>1, <2>2, PlacesOf, LockIsLeft, DeviceIsUsed DEF Roles
    <2> QED
      BY <1>1, <2>1, <2>3, DispatchEffects DEF Early, Hooks
  <1>4. CASE dev' = [dev EXCEPT ![Dev(r)].lock.count = @ + 1] /\ Goto(r, "disp", "lock", "post")
    <2> DEFINE l == [dev[Dev(r)].lock EXCEPT !.count = @ + 1]
    <2>1. l \in Locks
      BY PlacesOf, DevTypesFields, FieldTypes, LockTypes
    <2>2. dev' = [dev EXCEPT ![Dev(r)].lock = l]
      BY <1>4, PlacesOf DEF DevTypes
    <2> HIDE DEF l
    <2>3. References(Dev(r), 0, <<r, "disp">>)
      BY <2>1, <2>2, PlacesOf, LockKeepsReferences
    <2> QED
      BY <1>3, <1>4, <2>3
  <1>5. ASSUME NEW to \in {"hook", "deref"}, UndoPostponing(r), Goto(r, "disp", "lock", to)
        PROVE  Effects(r)
    BY <1>2, <1>3, <1>5, UndoingTakes
  <1> QED
    BY <1>4, <1>5 DEF AcquireDeviceLock, Visited, After

LEMMA PostponingEffects ==
  ASSUME RInv, NEW r \in Requests, IoPostponeNodeFunctionInWorkerThread(r)
  PROVE  Effects(r)
  <1>1. UNCHANGED <<boot, up, req, conn, event, global, type>>
    BY DEF IoPostponeNodeFunctionInWorkerThread
  <1>2. CASE Reference(Dev(r)) /\ Fork(r, "disp", "post", "deref", "item", "queued")
    <2>1. /\ at[r]["disp"] = "post" /\ at'[r]["disp"] = "deref" /\ at'[r]["item"] = "queued"
          /\ at'[r]["comp"] = at[r]["comp"] /\ at'[r]["citem"] = at[r]["citem"]
          /\ \A u \in Requests : u # r => at'[u] = at[u]
      BY <1>2 DEF Fork, RInv, Types, ReqTypes, Roles
    <2>2. dev[Dev(r)].refs > 0
      BY <2>1, DispatchUses DEF InUse
    <2>3. References(Dev(r), 1, <<r, "disp">>) /\ Inside(at'[r])
      BY <1>2, <2>1, <2>2, PlacesOf, ReferenceAdds DEF Inside
    <2>4. DeviceEffect(r)
      BY <1>1, <2>3, PlacesOf, DeviceIsUsed
    <2>5. PlacesFit(req[r].kind, at[r])
      BY PlacesOf
    <2>6. LockEffect(r)
      BY <1>1, <2>1, <2>5 DEF LockEffect, Holds, PlacesFit, Served, Early
    <2>7. LinkEffect(r)
      BY <1>1, <2>1 DEF LinkEffect, Inside, HasCookie
    <2>8. PlaceEffect(r)
      BY <1>1, <2>1, <2>5 DEF PlaceEffect, Working, Filtered, PlacesFit, Served, Early, Roles
    <2> QED
      BY <2>4, <2>6, <2>7, <2>8 DEF Effects
  <1>3. ASSUME NEW to \in {"hook", "deref"}, UndoPostponing(r), Goto(r, "disp", "post", to)
        PROVE  Effects(r)
    <2>1. Went(r, "disp", "post", to)
      BY <1>3, GotoWent DEF Roles
    <2>2. dev[Dev(r)].refs > 0
      BY <2>1, DispatchUses DEF InUse, Went
    <2>3. References(Dev(r), -1, <<r, "disp">>) /\ Inside(at'[r])
      BY <1>3, <2>1, <2>2, UndoingTakes DEF Inside, Went
    <2>4. LockEffect(r) /\ DeviceEffect(r)
      BY <1>1, <2>1, <2>3, PlacesOf, LockIsLeft, DeviceIsUsed DEF Roles
    <2> QED
      BY <1>1, <2>1, <2>4, DispatchEffects DEF Early, Hooks
  <1> QED
    BY <1>2, <1>3 DEF IoPostponeNodeFunctionInWorkerThread, Visited, After

LEMMA ItemUses ==
  ASSUME RInv, NEW r \in Requests, at[r]["item"] \in InContext
  PROVE  dev[Dev(r)].refs > 0 /\ dev[Dev(r)].obj = "live"
  <1>1. IsIo(r)
    BY PlacesOf, FitsNow DEF PlacesFit, InContext
  <1>2. Weight(at[r]) > 0
    BY DEF Weight, InContext
  <1> QED
    BY <1>1, <1>2, PlacesOf, UsedDevicesLive DEF RInv, Alive

\* A dispatch or a work item drops a reference to the device of its request.
LEMMA DroppingEffects ==
  ASSUME RInv, NEW r \in Requests, NEW role \in {"disp", "item"}, NEW from, NEW to,
         \/ role = "disp" /\ from = "deref" /\ to = "decide"
         \/ role = "item" /\ from = "drop" /\ to = "free"
         \/ role = "item" /\ from = "free" /\ to = "freed",
         Goto(r, role, from, to), Dereference(Dev(r), <<r, role>>),
         UNCHANGED <<boot, up, conn, event, global, type, req>>
  PROVE  Effects(r)
  <1>1. Went(r, role, from, to)
    BY GotoWent DEF Roles
  <1>2. dev[Dev(r)].refs > 0 /\ dev[Dev(r)].obj = "live"
    BY <1>1, DispatchUses, ItemUses DEF Went, InUse, InContext
  <1>3. References(Dev(r), -1, <<r, role>>)
    BY <1>2, PlacesOf, DereferenceTakes DEF Deleters
  <1>4. \/ <<r, role>> = <<r, "disp">> /\ Inside(at'[r])
        \/ <<r, role>> = <<r, "item">> /\ at'[r]["item"] \in {"free", "freed"}
    BY <1>1 DEF Inside, Went
  <1>5. LockEffect(r) /\ DeviceEffect(r)
    BY <1>1, <1>3, <1>4, PlacesOf, LockIsLeft, DeviceIsUsed DEF Roles
  <1> QED
    BY <1>1, <1>5, DispatchEffects, ItemEffects DEF Early, Hooks

\* What else runs when a thread of the request hooks its completion: nothing.
LEMMA OnlyOneHooks ==
  ASSUME RInv, NEW r \in Requests, NEW role \in {"disp", "item"}, at[r][role] \in Hooks
  PROVE  /\ at[r]["comp"] = "none" /\ at[r]["citem"] = "none"
         /\ role = "disp" => at[r]["item"] = "none"
         /\ role = "item" => at[r]["disp"] \in Served
  BY PlacesOf DEF PlacesFit, Hooks, Served, Early

LEMMA HookingEffects ==
  ASSUME RInv, NEW r \in Requests, NEW role \in {"disp", "item"}, HookCompletion(r, role)
  PROVE  Effects(r)
  <1>1. ASSUME NEW from \in Hooks, NEW to \in Hooks \cup {After(role)}, Went(r, role, from, to),
               UNCHANGED <<boot, up, req, conn, event, dev, type>>, LockEffect(r)
        PROVE  Effects(r)
    BY <1>1, DeviceIsLeft, DispatchEffects, ItemEffects DEF Hooks, Early, After
  <1>2. CASE AcquireGlobalLock(r, role)
    <2>1. UNCHANGED <<boot, up, req, conn, event, dev, type>>
      BY <1>2 DEF AcquireGlobalLock
    <2>2. CASE Goto(r, role, "hook", After(role)) /\ UNCHANGED global
      <3>1. Went(r, role, "hook", After(role))
        BY <2>2, GotoWent DEF Roles
      <3>2. LockEffect(r)
        BY <2>2, <3>1, LockIsLeft DEF Roles, After
      <3> QED
        BY <1>1, <2>1, <3>1, <3>2 DEF Hooks
    <2>3. CASE /\ ~global.removed /\ Goto(r, role, "hook", "context")
               /\ global' = [global EXCEPT !.count = @ + 1]
      <3>1. Went(r, role, "hook", "context")
        BY <2>3, GotoWent DEF Roles
      <3>2. LockEffect(r)
        BY <2>3, <3>1, OnlyOneHooks DEF LockEffect, Went, Holds, Roles, Hooks, Served
      <3> QED
        BY <1>1, <2>1, <3>1, <3>2 DEF Hooks
    <2> QED
      BY <1>2, <2>2, <2>3 DEF AcquireGlobalLock
  <1>3. CASE AllocateCompletionHookContext(r, role)
    <2>1. UNCHANGED <<boot, up, req, conn, event, dev, type>>
      BY <1>3 DEF AllocateCompletionHookContext
    <2>2. CASE Goto(r, role, "context", "cookie") /\ UNCHANGED global
      <3>1. Went(r, role, "context", "cookie")
        BY <2>2, GotoWent DEF Roles
      <3>2. LockEffect(r)
        BY <2>2, <3>1, LockIsLeft DEF Roles
      <3> QED
        BY <1>1, <2>1, <3>1, <3>2 DEF Hooks
    <2>3. CASE Goto(r, role, "context", After(role)) /\ global' = Released(global)
      <3>1. Went(r, role, "context", After(role))
        BY <2>3, GotoWent DEF Roles
      <3>2. LockEffect(r)
        BY <2>3, <3>1, OnlyOneHooks DEF LockEffect, Went, Holds, Roles, Hooks, Served, After
      <3> QED
        BY <1>1, <2>1, <3>1, <3>2 DEF Hooks
    <2> QED
      BY <1>3, <2>2, <2>3 DEF AllocateCompletionHookContext
  <1>4. CASE AcquireCookieForCompletion(r, role)
    <2>1. UNCHANGED <<boot, up, req, event, dev, type>>
      BY <1>4 DEF AcquireCookieForCompletion
    <2>2. CASE Goto(r, role, "cookie", "unhook") /\ global' = Released(global) /\ UNCHANGED conn
      <3>1. Went(r, role, "cookie", "unhook")
        BY <2>2, GotoWent DEF Roles
      <3>2. LockEffect(r)
        BY <2>2, <3>1, OnlyOneHooks DEF LockEffect, Went, Holds, Roles, Hooks, Served
      <3> QED
        BY <1>1, <2>1, <2>2, <3>1, <3>2 DEF Hooks
    <2>3. CASE /\ conn["hook"].current /\ conn' = [conn EXCEPT !["hook"].refs = @ + 1]
               /\ Fork(r, role, "cookie", After(role), "comp", "hooked") /\ UNCHANGED global
      <3>1. at \in [Requests -> [Roles -> Points]]
        BY DEF RInv, Types, ReqTypes
      <3>2. /\ at[r][role] = "cookie" /\ at'[r][role] = After(role)
            /\ at'[r]["comp"] = "hooked" /\ at'[r]["citem"] = at[r]["citem"]
            /\ \A u \in Requests : u # r => at'[u] = at[u]
        BY <2>3, <3>1 DEF Fork, Roles
      <3>3. \A o \in {"disp", "item"} : o # role => at'[r][o] = at[r][o]
        BY <2>3, <3>1 DEF Fork, Roles
      <3>4. /\ at[r]["comp"] = "none" /\ at[r]["citem"] = "none"
            /\ role = "disp" => at[r]["item"] = "none"
            /\ role = "item" => at[r]["disp"] \in Served
        BY <3>2, OnlyOneHooks DEF Hooks
      <3>5. After(role) = IF role = "disp" THEN "deref" ELSE "send"
        BY DEF After
      <3>6. LockEffect(r)
        BY <2>3, <3>2, <3>3, <3>4, <3>5 DEF LockEffect, Holds, Served
      <3>7. LinkEffect(r)
        BY <2>1, <2>3, <3>2, <3>3, <3>4, <3>5 DEF LinkEffect, Inside, HasCookie
      <3>8. PlaceEffect(r)
        BY <2>1, <3>2, <3>3, <3>4, <3>5
           DEF PlaceEffect, Working, Filtered, Served, Early, Hooks, Roles
      <3> QED
        BY <2>1, <3>6, <3>7, <3>8, DeviceIsLeft DEF Effects
    <2> QED
      BY <1>4, <2>2, <2>3 DEF AcquireCookieForCompletion
  <1>5. CASE HookRefused(r, role)
    <2>1. /\ UNCHANGED <<boot, up, req, conn, event, global, dev, type>>
          /\ Goto(r, role, "unhook", After(role))
      BY <1>5 DEF HookRefused
    <2>2. Went(r, role, "unhook", After(role))
      BY <2>1, GotoWent DEF Roles
    <2>3. LockEffect(r)
      BY <2>1, <2>2, LockIsLeft DEF Roles, After
    <2> QED
      BY <1>1, <2>1, <2>2, <2>3 DEF Hooks
  <1> QED
    BY <1>2, <1>3, <1>4, <1>5 DEF HookCompletion

LEMMA ReportingEffects ==
  ASSUME RInv, NEW r \in Requests, ReportNewDevice(r)
  PROVE  Effects(r)
  <1>1. UNCHANGED <<boot, up, req, conn, event, global>> /\ Goto(r, "disp", "insert", "leave")
    BY DEF ReportNewDevice
  <1>2. Went(r, "disp", "insert", "leave")
    BY <1>1, GotoWent DEF Roles
  <1>3. DeviceEffect(r)
    <2>1. CASE dev[Dev(r)].obj = "none" /\ CreateDevice(Dev(r))
      BY <1>2, <2>1, PlacesOf DEF DeviceEffect, Inside, Went
    <2> QED
      BY <2>1, DeviceIsLeft DEF ReportNewDevice
  <1>4. LockEffect(r)
    BY <1>1, <1>2, LockIsLeft DEF Roles
  <1> QED
    BY <1>1, <1>2, <1>3, <1>4, DispatchEffects DEF Early, Hooks

LEMMA RemovingEffects ==
  ASSUME RInv, NEW r \in Requests, RemoveDevice(r)
  PROVE  Effects(r)
  <1>1. UNCHANGED <<boot, up, req, conn, event, global, type>>
    BY DEF RemoveDevice
  <1>2. PICK d \in Devices : d = Dev(r)
    BY PlacesOf
  <1>3. PICK to \in {"wait", "leave"} : /\ Goto(r, "disp", "remove", to)
                                        /\ RemoveFromHash(d) \/ UNCHANGED dev
    BY <1>2 DEF RemoveDevice
  <1>4. Went(r, "disp", "remove", to)
    BY <1>3, GotoWent DEF Roles
  <1>5. \A e \in Devices : dev'[e].obj = dev[e].obj /\ dev'[e].by = dev[e].by
    <2>1. CASE RemoveFromHash(d)
      BY <2>1, PlacesOf, RemovalIs DEF Becomes
    <2> QED
      BY <1>3, <2>1
  <1>6. DeviceEffect(r)
    BY <1>1, <1>5 DEF DeviceEffect
  <1>7. LockEffect(r)
    BY <1>1, <1>4, LockIsLeft DEF Roles
  <1> QED
    BY <1>1, <1>4, <1>6, <1>7, DispatchEffects DEF Early, Hooks

LEMMA CleaningEffects ==
  ASSUME RInv, NEW r \in Requests, CleanupAfterRemovingFromHash(r)
  PROVE  Effects(r)
  <1>1. /\ UNCHANGED <<boot, up, req, conn, event, global, type>>
        /\ Goto(r, "disp", "wait", "leave") /\ Dereference(Dev(r), <<r, "disp">>)
    BY DEF CleanupAfterRemovingFromHash
  <1>2. Went(r, "disp", "wait", "leave")
    BY <1>1, GotoWent DEF Roles
  <1>3. r \in CleanersOf(Dev(r))
    BY <1>2, PlacesOf DEF CleanersOf, Went, PlacesFit
  <1>4. dev[Dev(r)].refs > 0 /\ dev[Dev(r)].obj = "live"
    BY <1>3, PlacesOf, UsedDevicesLive DEF RInv, Alive
  <1>5. References(Dev(r), -1, <<r, "disp">>) /\ Inside(at'[r])
    BY <1>1, <1>2, <1>4, PlacesOf, DereferenceTakes DEF Deleters, Inside, Went
  <1>6. LockEffect(r) /\ DeviceEffect(r)
    BY <1>1, <1>2, <1>5, PlacesOf, LockIsLeft, DeviceIsUsed DEF Roles
  <1> QED
    BY <1>1, <1>2, <1>6, DispatchEffects DEF Early, Hooks

LEMMA WorkingEffects ==
  ASSUME RInv, NEW r \in Requests,
         \/ IoNodeFunctionWR(r) \/ SendFromItem(r) \/ ReleaseDeviceLock(r)
         \/ NodeContextFreed(r) /\ ~Busy(<<r, "item">>)
  PROVE  Effects(r)
  <1>1. UNCHANGED <<boot, up, req, conn, event, global, type>>
    BY DEF IoNodeFunctionWR, SendFromItem, ReleaseDeviceLock, NodeContextFreed
  <1>2. CASE ReleaseDeviceLock(r)
    <2>1. Went(r, "item", "unlock", "drop")
      BY <1>2, GotoWent DEF ReleaseDeviceLock, Roles
    <2> DEFINE l == Released(dev[Dev(r)].lock)
    <2>2. l \in Locks
      BY PlacesOf, DevTypesFields, FieldTypes, LockTypes
    <2>3. dev' = [dev EXCEPT ![Dev(r)].lock = l]
      BY <1>2 DEF ReleaseDeviceLock
    <2> HIDE DEF l
    <2>4. References(Dev(r), 0, <<r, "disp">>)
      BY <2>2, <2>3, PlacesOf, LockKeepsReferences
    <2>5. at[r]["disp"] \in Served /\ at'[r]["disp"] = at[r]["disp"]
      BY <2>1, PlacesOf DEF PlacesFit, Went, Roles
    <2>6. LockEffect(r)
      BY <1>1, <2>1, LockIsLeft DEF Roles
    <2>7. \A e \in Devices : dev'[e].obj = dev[e].obj /\ dev'[e].by = dev[e].by
      <3>1. dev[Dev(r)].refs > 0
        BY <2>1, ItemUses DEF Went, InContext
      <3>2. dev'[Dev(r)].refs # 0
        BY <2>4, <3>1, PlacesOf, DevTypesFields DEF References
      <3> QED
        BY <2>4, <3>2 DEF References
    <2> QED
      BY <1>1, <2>1, <2>6, <2>7, ItemEffects DEF DeviceEffect
  <1>3. CASE \E from \in {"queued", "send", "freed"} : \E to \in {"hook", "send", "unlock", "out"} :
               /\ Goto(r, "item", from, to) /\ (from = "freed" => ~Busy(<<r, "item">>))
               /\ UNCHANGED dev
    <2>1. PICK from \in {"queued", "send", "freed"}, to \in {"hook", "send", "unlock", "out"} :
               /\ Goto(r, "item", from, to) /\ (from = "freed" => ~Busy(<<r, "item">>))
               /\ UNCHANGED dev
      BY <1>3
    <2>2. Went(r, "item", from, to)
      BY <2>1, GotoWent DEF Roles
    <2>3. LockEffect(r) /\ DeviceEffect(r)
      BY <1>1, <2>1, <2>2, LockIsLeft, DeviceIsLeft DEF Roles
    <2> QED
      BY <1>1, <2>1, <2>2, <2>3, ItemEffects
  <1>4. IoNodeFunctionWR(r) => /\ UNCHANGED dev
                               /\ \E to \in {"hook", "send"} : Goto(r, "item", "queued", to)
    BY DEF IoNodeFunctionWR, Visited, After
  <1>5. /\ SendFromItem(r) => UNCHANGED dev /\ Goto(r, "item", "send", "unlock")
        /\ NodeContextFreed(r) => UNCHANGED dev /\ Goto(r, "item", "freed", "out")
    BY DEF SendFromItem, NodeContextFreed
  <1> QED
    BY <1>2, <1>3, <1>4, <1>5

LEMMA CompletingEffects ==
  ASSUME RInv, NEW r \in Requests, CompletionStep(r) \/ CompletionItemStep(r)
  PROVE  Effects(r)
  <1>1. ASSUME NEW role \in {"comp", "citem"}, NEW from, NEW to,
               \/ role = "comp" /\ from = "hooked" /\ to = "callback"
               \/ role = "comp" /\ from = "callback" /\ to = "free"
               \/ role = "comp" /\ from = "free" /\ to = "release"
               \/ role = "citem" /\ from = "queued" /\ to = "free"
               \/ role = "citem" /\ from = "free" /\ to = "release"
               \/ role = "citem" /\ from = "end" /\ to = "out",
               Goto(r, role, from, to),
               UNCHANGED <<boot, up, req, conn, event, global, dev, type>>
        PROVE  Effects(r)
    <2>1. Went(r, role, from, to)
      BY <1>1, GotoWent DEF Roles
    <2>2. LockEffect(r)
      BY <1>1, <2>1, LockIsLeft DEF Roles
    <2> QED
      BY <1>1, <2>1, <2>2, CompletionEffects
  <1>2. /\ LowerDriverCompletes(r) \/ ContinueCompletion(r, "comp") => Effects(r)
        /\ CallCompletionCallbackWR(r) \/ ContinueCompletion(r, "citem") => Effects(r)
        /\ CompletionItemEnds(r) => Effects(r)
        /\ CompletionCallback(r) /\ Goto(r, "comp", "callback", "free") => Effects(r)
    BY <1>1 DEF LowerDriverCompletes, CompletionCallback, ContinueCompletion,
                CallCompletionCallbackWR, CompletionItemEnds
  <1>3. CASE CompletionCallback(r) /\ Fork(r, "comp", "callback", "finish", "citem", "queued")
    <2>1. UNCHANGED <<boot, up, req, conn, event, global, dev, type>>
      BY <1>3 DEF CompletionCallback
    <2>2. /\ at[r]["comp"] = "callback" /\ at'[r]["comp"] = "finish" /\ at'[r]["citem"] = "queued"
          /\ at'[r]["disp"] = at[r]["disp"] /\ at'[r]["item"] = at[r]["item"]
          /\ \A u \in Requests : u # r => at'[u] = at[u]
      BY <1>3 DEF Fork, RInv, Types, ReqTypes, Roles
    <2>3. LockEffect(r)
      BY <2>1, <2>2 DEF LockEffect, Holds
    <2>4. LinkEffect(r)
      BY <2>1, <2>2 DEF LinkEffect, Inside, HasCookie
    <2>5. PlaceEffect(r)
      BY <2>1, <2>2 DEF PlaceEffect, Working, Filtered, Roles
    <2> QED
      BY <2>1, <2>3, <2>4, <2>5, DeviceIsLeft DEF Effects
  <1>4. ASSUME NEW role \in {"comp", "citem"}, ReleaseGlobalLock(r, role)
        PROVE  Effects(r)
    <2>1. /\ UNCHANGED <<boot, up, req, conn, event, dev, type>> /\ global' = Released(global)
          /\ Goto(r, role, "release", IF role = "comp" THEN "finish" ELSE "end")
      BY <1>4 DEF ReleaseGlobalLock
    <2>2. Went(r, role, "release", IF role = "comp" THEN "finish" ELSE "end")
      BY <2>1, GotoWent DEF Roles
    <2>3. PlacesFit(req[r].kind, at[r])
      BY PlacesOf
    <2>4. LockEffect(r)
      BY <2>1, <2>2, <2>3 DEF LockEffect, Went, Holds, Roles, PlacesFit, Served, Hooks
    <2> QED
      BY <2>1, <2>2, <2>4, CompletionEffects
  <1>5. CASE HookerCompletionRoutine(r)
    <2>1. /\ UNCHANGED <<boot, up, req, global, dev, type>> /\ DereferenceConnection("hook")
          /\ Goto(r, "comp", "finish", "out")
      BY <1>5 DEF HookerCompletionRoutine
    <2>2. Went(r, "comp", "finish", "out")
      BY <2>1, GotoWent DEF Roles
    <2>3. LockEffect(r)
      BY <2>1, <2>2, LockIsLeft DEF Roles
    <2>4. LinkEffect(r)
      BY <2>1, <2>2 DEF LinkEffect, Went, Inside, HasCookie, Roles
    <2>5. PlaceEffect(r)
      BY <2>1, <2>2 DEF PlaceEffect, Went, Working, Filtered, Roles
    <2> QED
      BY <2>1, <2>3, <2>4, <2>5, DeviceIsLeft DEF Effects
  <1>6. CompletionCallback(r) => \/ Goto(r, "comp", "callback", "free")
                                 \/ Fork(r, "comp", "callback", "finish", "citem", "queued")
    BY DEF CompletionCallback
  <1>7. CompletionCallback(r) => Effects(r)
    BY <1>2, <1>3, <1>6
  <1>8. ReleaseGlobalLock(r, "comp") \/ ReleaseGlobalLock(r, "citem") => Effects(r)
    BY <1>4
  <1> QED
    BY <1>2, <1>5, <1>7, <1>8 DEF CompletionStep, CompletionItemStep

LEMMA StepEffects ==
  ASSUME RInv, NEW r \in Requests, Step(r)
  PROVE  Effects(r)
  <1>1. CASE ~Busy(<<r, "disp">>) /\ DispatchStep(r)
    <2>1. DereferenceDevice(r) => Effects(r)
      BY DroppingEffects DEF DereferenceDevice
    <2> QED
      BY <1>1, <2>1, DecidingEffects, LeavingEffects, FindingEffects, CopyingEffects,
         LockingEffects, PostponingEffects, HookingEffects, ReportingEffects, RemovingEffects,
         CleaningEffects DEF DispatchStep
  <1>2. CASE ~Busy(<<r, "item">>) /\ ItemStep(r)
    <2>1. DropDevice(r) \/ FreeNodeContextCopy(r) => Effects(r)
      BY DroppingEffects DEF DropDevice, FreeNodeContextCopy
    <2> QED
      BY <1>2, <2>1, HookingEffects, WorkingEffects DEF ItemStep
  <1> QED
    BY <1>1, <1>2, CompletingEffects DEF Step

-----------------------------------------------------------------------------
(* The connections *)

LEMMA ConnectionDropped ==
  ASSUME RInv, NEW s \in Drivers, DereferenceConnection(s)
  PROVE  /\ conn'[s].refs = conn[s].refs - 1 /\ conn'[s].current = conn[s].current
         /\ \A o \in Drivers : o # s => conn'[o] = conn[o] /\ event'[o] = event[o]
         /\ event'[s] = IF conn[s].refs = 1 THEN TRUE ELSE event[s]
  BY DEF RInv, Types, LinkTypes, DereferenceConnection, DeleteConnectObject

LEMMA ConnectionTaken ==
  ASSUME RInv, NEW s \in Drivers, conn' = [conn EXCEPT ![s].refs = @ + 1]
  PROVE  /\ conn'[s].refs = conn[s].refs + 1 /\ conn'[s].current = conn[s].current
         /\ \A o \in Drivers : o # s => conn'[o] = conn[o]
  BY DEF RInv, Types, LinkTypes

LEMMA SourceIsDriver ==
  ASSUME NEW r \in Requests
  PROVE  Source(r) \in Drivers /\ "hook" \in Drivers
  BY DEF Source, Drivers

\* Who leaves, or gives a cookie back, is counted; who takes a cookie finds the
\* connection.
LEMMA LinkEffectCounts ==
  ASSUME RInv, UInv, NEW r \in Requests, LinkEffect(r)
  PROVE  /\ \A s \in Drivers : conn[s].refs = 0 => conn'[s].refs = 0
         /\ \A s \in Drivers : conn'[s].current = conn[s].current
         /\ Inside(at'[r]) => Inside(at[r])
  <1>1. Source(r) \in Drivers /\ "hook" \in Drivers
    BY SourceIsDriver
  <1>2. CASE UNCHANGED <<conn, event>> /\ (Inside(at'[r]) <=> Inside(at[r]))
    BY <1>2
  <1>3. CASE DereferenceConnection(Source(r)) /\ Inside(at[r]) /\ ~Inside(at'[r])
    <2>1. conn[Source(r)].refs > 0
      BY <1>3, NobodyCalls
    <2>2. /\ conn'[Source(r)].refs = conn[Source(r)].refs - 1
          /\ conn'[Source(r)].current = conn[Source(r)].current
          /\ \A o \in Drivers : o # Source(r) => conn'[o] = conn[o]
      BY <1>1, <1>3, ConnectionDropped
    <2> QED
      BY <1>1, <1>3, <2>1, <2>2
  <1>4. CASE /\ conn["hook"].current /\ conn' = [conn EXCEPT !["hook"].refs = @ + 1]
             /\ Inside(at'[r]) <=> Inside(at[r])
    <2>1. conn["hook"].refs # 0
      BY <1>1, <1>4, NobodyCalls
    <2>2. /\ conn'["hook"].refs = conn["hook"].refs + 1
          /\ conn'["hook"].current = conn["hook"].current
          /\ \A o \in Drivers : o # "hook" => conn'[o] = conn[o]
      BY <1>1, <1>4, ConnectionTaken
    <2> QED
      BY <1>1, <1>4, <2>1, <2>2
  <1>5. CASE /\ DereferenceConnection("hook") /\ HasCookie(at[r])
             /\ Inside(at'[r]) <=> Inside(at[r])
    <2>1. conn["hook"].refs > 0
      BY <1>5, NobodyCalls
    <2>2. /\ conn'["hook"].refs = conn["hook"].refs - 1
          /\ conn'["hook"].current = conn["hook"].current
          /\ \A o \in Drivers : o # "hook" => conn'[o] = conn[o]
      BY <1>1, <1>5, ConnectionDropped
    <2> QED
      BY <1>1, <1>5, <2>1, <2>2
  <1> QED
    BY <1>2, <1>3, <1>4, <1>5 DEF LinkEffect

LEMMA LinksStayExact ==
  ASSUME RInv, UInv, NEW r \in Requests, Effects(r)
  PROVE  ConnectionsAreExact'
  <1>1. UNCHANGED req /\ \A u \in Requests : u # r => at'[u] = at[u]
    BY DEF Effects, PlaceEffect
  <1>2. Source(r) \in Drivers /\ "hook" \in Drivers
    BY SourceIsDriver
  <1> SUFFICES ASSUME NEW s \in Drivers
               PROVE  /\ conn'[s].refs = (IF conn'[s].current THEN 1 ELSE 0)
                            + Cardinality(Callers(s)')
                            + (IF s = "hook" THEN Cardinality(Cookies') ELSE 0)
                      /\ event'[s] <=> conn'[s].refs = 0
    BY DEF ConnectionsAreExact
  <1> DEFINE c == Cardinality(Callers(s))
             k == Cardinality(Cookies)
             x == Cardinality(Callers(s)')
             y == Cardinality(Cookies')
             n == conn[s].refs
             m == conn'[s].refs
             b == IF conn[s].current THEN 1 ELSE 0
             h == IF s = "hook" THEN 1 ELSE 0
  <1>3. /\ x = c + (IF Source(r) = s /\ Inside(at'[r]) THEN 1 ELSE 0)
                 - (IF Source(r) = s /\ Inside(at[r]) THEN 1 ELSE 0)
        /\ y = k + (IF HasCookie(at'[r]) THEN 1 ELSE 0) - (IF HasCookie(at[r]) THEN 1 ELSE 0)
    BY <1>1, CountsMove
  <1>4. c \in Nat /\ k \in Nat /\ n \in Nat /\ b \in {0, 1} /\ (conn[s].current => b = 1)
    BY CountedSetsAreFinite, NobodyCalls
  <1>5. n = b + c + (IF s = "hook" THEN k ELSE 0) /\ (event[s] <=> n = 0)
    BY DEF UInv, ConnectionsAreExact
  <1>6. /\ Source(r) = s /\ Inside(at[r]) => n > 0
        /\ s = "hook" /\ HasCookie(at[r]) => n > 0
        /\ conn[s].current => n > 0
    <2>1. /\ Source(r) = s /\ Inside(at[r]) => n > 0
          /\ s = "hook" /\ HasCookie(at[r]) => n > 0
      BY NobodyCalls
    <2>2. conn[s].current => n > 0
      BY <1>4, <1>5
    <2> QED
      BY <2>1, <2>2
  <1>7. conn'[s].current = conn[s].current
    BY LinkEffectCounts DEF Effects
  <1>8. m = b + x + (IF s = "hook" THEN y ELSE 0) /\ (event'[s] <=> m = 0)
    <2>1. CASE /\ UNCHANGED <<conn, event>> /\ (Inside(at'[r]) <=> Inside(at[r]))
               /\ HasCookie(at'[r]) <=> HasCookie(at[r])
      <3>1. m = n /\ event'[s] = event[s] /\ x = c /\ y = k
        BY <1>3, <1>4, <2>1
      <3> HIDE DEF c, k, x, y, n, m, b
      <3> QED
        BY <1>4, <1>5, <3>1
    <2>2. CASE /\ DereferenceConnection(Source(r)) /\ Inside(at[r]) /\ ~Inside(at'[r])
               /\ HasCookie(at'[r]) <=> HasCookie(at[r])
      <3>1. y = k /\ x = IF Source(r) = s THEN c - 1 ELSE c
        BY <1>3, <1>4, <2>2
      <3>2. CASE Source(r) = s
        <4>1. m = n - 1 /\ event'[s] = IF n = 1 THEN TRUE ELSE event[s]
          BY <2>2, <3>2, ConnectionDropped
        <4>2. n > 0
          BY <1>6, <2>2, <3>2
        <4> HIDE DEF c, k, x, y, n, m, b
        <4> QED
          BY <1>4, <1>5, <3>1, <3>2, <4>1, <4>2
      <3>3. CASE Source(r) # s
        <4>1. m = n /\ event'[s] = event[s]
          BY <1>2, <2>2, <3>3, ConnectionDropped
        <4> HIDE DEF c, k, x, y, n, m, b
        <4> QED
          BY <1>4, <1>5, <3>1, <3>3, <4>1
      <3> QED
        BY <3>2, <3>3
    <2>3. CASE /\ conn["hook"].current /\ conn' = [conn EXCEPT !["hook"].refs = @ + 1]
               /\ UNCHANGED event /\ (Inside(at'[r]) <=> Inside(at[r]))
               /\ ~HasCookie(at[r]) /\ HasCookie(at'[r])
      <3>1. y = k + 1 /\ x = c
        BY <1>3, <1>4, <2>3
      <3>2. CASE s = "hook"
        <4>1. m = n + 1 /\ n > 0 /\ event'[s] = event[s]
          BY <1>6, <2>3, <3>2, ConnectionTaken
        <4> HIDE DEF c, k, x, y, n, m, b
        <4> QED
          BY <1>4, <1>5, <3>1, <3>2, <4>1
      <3>3. CASE s # "hook"
        <4>1. m = n /\ event'[s] = event[s]
          BY <1>2, <2>3, <3>3, ConnectionTaken
        <4> HIDE DEF c, k, x, y, n, m, b
        <4> QED
          BY <1>4, <1>5, <3>1, <3>3, <4>1
      <3> QED
        BY <3>2, <3>3
    <2>4. CASE /\ DereferenceConnection("hook") /\ (Inside(at'[r]) <=> Inside(at[r]))
               /\ HasCookie(at[r]) /\ ~HasCookie(at'[r])
      <3>1. y = k - 1 /\ x = c
        BY <1>3, <1>4, <2>4
      <3>2. CASE s = "hook"
        <4>1. m = n - 1 /\ event'[s] = IF n = 1 THEN TRUE ELSE event[s]
          BY <2>4, <3>2, ConnectionDropped
        <4>2. n > 0
          BY <1>6, <2>4, <3>2
        <4> HIDE DEF c, k, x, y, n, m, b
        <4> QED
          BY <1>4, <1>5, <3>1, <3>2, <4>1, <4>2
      <3>3. CASE s # "hook"
        <4>1. m = n /\ event'[s] = event[s]
          BY <1>2, <2>4, <3>3, ConnectionDropped
        <4> HIDE DEF c, k, x, y, n, m, b
        <4> QED
          BY <1>4, <1>5, <3>1, <3>3, <4>1
      <3> QED
        BY <3>2, <3>3
    <2> QED
      BY <2>1, <2>2, <2>3, <2>4 DEF Effects, LinkEffect
  <1>9. b = IF conn'[s].current THEN 1 ELSE 0
    BY <1>7
  <1> QED
    BY <1>8, <1>9

\* The places of DriverEntry and DriverUnload have not changed.
LEMMA LinksStayFit ==
  ASSUME RInv, UInv, NEW r \in Requests, Effects(r)
  PROVE  LinksFit'
  <1>1. /\ \A s \in Drivers : conn[s].refs = 0 => conn'[s].refs = 0
        /\ \A s \in Drivers : conn'[s].current = conn[s].current
    BY LinkEffectCounts DEF Effects
  <1>2. boot' = boot
    BY DEF Effects, PlaceEffect
  <1>3. LinksFit
    BY DEF UInv
  <1> QED
    BY <1>1, <1>2, <1>3 DEF LinksFit, Disconnected, Waited, Purging

-----------------------------------------------------------------------------
(* The remove lock of the driver *)

LEMMA LockBecomes ==
  ASSUME NEW l \in Locks
  PROVE  /\ Released(l).count = l.count - 1 /\ Released(l).removed = l.removed
         /\ Released(l).signalled <=> l.signalled \/ l.count = 1
         /\ \A n \in Int : /\ [l EXCEPT !.count = n].count = n
                           /\ [l EXCEPT !.count = n].removed = l.removed
                           /\ [l EXCEPT !.count = n].signalled = l.signalled
         /\ Closed(l).count = l.count - 2 /\ Closed(l).removed
         /\ Closed(l).signalled = l.signalled
         /\ l.count \in Int /\ l.removed \in BOOLEAN /\ l.signalled \in BOOLEAN
  <1>1. l.count \in Int /\ l.removed \in BOOLEAN /\ l.signalled \in BOOLEAN
    BY DEF Locks
  <1>2. \A n \in Int : /\ [l EXCEPT !.count = n] \in Locks
                       /\ [l EXCEPT !.count = n].count = n
                       /\ [l EXCEPT !.count = n].removed = l.removed
                       /\ [l EXCEPT !.count = n].signalled = l.signalled
    BY DEF Locks
  <1>3. \A m \in Locks : \A b \in BOOLEAN :
          /\ [m EXCEPT !.signalled = b].count = m.count
          /\ [m EXCEPT !.signalled = b].removed = m.removed
          /\ [m EXCEPT !.signalled = b].signalled = b
    BY DEF Locks
  <1>4. \A m \in Locks : /\ [m EXCEPT !.removed = TRUE].count = m.count
                         /\ [m EXCEPT !.removed = TRUE].removed
                         /\ [m EXCEPT !.removed = TRUE].signalled = m.signalled
    BY DEF Locks
  <1>5. /\ Released(l).count = l.count - 1 /\ Released(l).removed = l.removed
        /\ Released(l).signalled <=> l.signalled \/ l.count = 1
    <2> DEFINE m == [l EXCEPT !.count = l.count - 1]
               b == l.signalled \/ l.count = 1
    <2>1. Released(l) = [m EXCEPT !.signalled = b]
      BY DEF Released, Locks
    <2>2. l.count - 1 \in Int /\ b \in BOOLEAN
      BY <1>1
    <2>3. m \in Locks /\ m.count = l.count - 1 /\ m.removed = l.removed
      BY <1>2, <2>2
    <2> HIDE DEF m, b
    <2>4. /\ Released(l).count = l.count - 1 /\ Released(l).removed = l.removed
          /\ Released(l).signalled = b
      BY <1>3, <2>1, <2>2, <2>3
    <2> QED
      BY <2>4 DEF b
  <1>6. Closed(l).count = l.count - 2 /\ Closed(l).removed /\ Closed(l).signalled = l.signalled
    <2> DEFINE m == [l EXCEPT !.count = l.count - 2]
    <2>1. Closed(l) = [m EXCEPT !.removed = TRUE]
      BY DEF Closed, Locks
    <2>2. l.count - 2 \in Int
      BY <1>1
    <2>3. m \in Locks /\ m.count = l.count - 2 /\ m.signalled = l.signalled
      BY <1>2, <2>2
    <2> HIDE DEF m
    <2> QED
      BY <1>4, <2>1, <2>3
  <1> QED
    BY <1>1, <1>2, <1>5, <1>6

LEMMA HoldersAre ==
  ASSUME NEW r \in Requests
  PROVE  Holds(at[r]) => Cardinality(Holders) > 0
  BY CountedSetsAreFinite DEF Holders

LEMMA LockStaysExact ==
  ASSUME RInv, UInv, NEW r \in Requests, Effects(r)
  PROVE  GlobalIsExact' /\ LockFits'
  <1> DEFINE c == Cardinality(Holders)
             x == Cardinality(Holders')
             n == global.count
             m == global'.count
  <1>1. UNCHANGED <<req, boot>> /\ \A u \in Requests : u # r => at'[u] = at[u]
    BY DEF Effects, PlaceEffect
  <1>2. x = c + (IF Holds(at'[r]) THEN 1 ELSE 0) - (IF Holds(at[r]) THEN 1 ELSE 0)
    BY <1>1, CountsMove
  <1>3. c \in Nat /\ global \in Locks
    BY CountedSetsAreFinite DEF RInv, Types, LinkTypes
  <1>4. /\ n \in Int /\ n = (IF global.removed THEN 0 ELSE 2) + c
        /\ global.removed \in BOOLEAN
        /\ global.signalled => global.removed /\ c = 0
    BY <1>3, LockBecomes DEF UInv, GlobalIsExact
  <1>5. Holds(at[r]) => c > 0
    BY HoldersAre
  <1>6. LockFits
    BY DEF UInv
  <1>7. /\ m = (IF global'.removed THEN 0 ELSE 2) + x
        /\ global'.signalled => global'.removed /\ x = 0
        /\ global'.removed = global.removed
        /\ global.removed /\ c = 0 => x = 0
    <2>1. CASE UNCHANGED global /\ (Holds(at'[r]) <=> Holds(at[r]))
      <3>1. m = n /\ x = c
        BY <1>2, <1>3, <2>1
      <3> HIDE DEF c, x, n, m
      <3> QED
        BY <1>4, <2>1, <3>1
    <2>2. CASE /\ ~global.removed /\ global' = [global EXCEPT !.count = @ + 1]
               /\ ~Holds(at[r]) /\ Holds(at'[r])
      <3>1. n + 1 \in Int /\ global' = [global EXCEPT !.count = n + 1]
        BY <1>4, <2>2
      <3>2. m = n + 1 /\ global'.removed = global.removed /\ global'.signalled = global.signalled
        BY <1>3, <3>1, LockBecomes
      <3>3. x = c + 1
        BY <1>2, <1>3, <2>2
      <3> HIDE DEF c, x, n, m
      <3> QED
        BY <1>3, <1>4, <2>2, <3>2, <3>3
    <2>3. CASE global' = Released(global) /\ Holds(at[r]) /\ ~Holds(at'[r])
      <3>1. /\ m = n - 1 /\ global'.removed = global.removed
            /\ global'.signalled <=> global.signalled \/ n = 1
        BY <1>3, <2>3, LockBecomes
      <3>2. x = c - 1 /\ c > 0
        BY <1>2, <1>3, <1>5, <2>3
      <3> HIDE DEF c, x, n, m
      <3> QED
        BY <1>3, <1>4, <3>1, <3>2
    <2> QED
      BY <2>1, <2>2, <2>3 DEF Effects, LockEffect
  <1>8. GlobalIsExact'
    BY <1>7 DEF GlobalIsExact
  <1>9. Purging' <=> Purging
    BY <1>1 DEF Purging
  <1>10. Purging => global.removed /\ c = 0
    BY <1>6 DEF LockFits
  <1>11. LockFits'
    BY <1>1, <1>6, <1>7, <1>9, <1>10 DEF LockFits
  <1> QED
    BY <1>8, <1>11

-----------------------------------------------------------------------------
(* The parts, the type of the devices and who deletes them *)

\* While somebody is inside, or has a cookie, the unload has not come far.
LEMMA NobodyIsLate ==
  ASSUME RInv, UInv, boot.pc \in Late
  PROVE  /\ \A s \in Drivers : conn[s].refs = 0
         /\ \A r \in Requests : ~Inside(at[r]) /\ ~HasCookie(at[r]) /\ ~Holds(at[r])
  <1>1. boot.mode = "unload"
    BY DEF UInv, ModesFit, Late
  <1>2. \A s \in Drivers : conn[s].refs = 0
    BY <1>1 DEF UInv, LinksFit, Waited, Purging
  <1>3. ASSUME NEW r \in Requests
        PROVE  ~Inside(at[r]) /\ ~HasCookie(at[r]) /\ ~Holds(at[r])
    <2>1. Source(r) \in Drivers /\ "hook" \in Drivers
      BY SourceIsDriver
    <2>2. conn[Source(r)].refs = 0 /\ conn["hook"].refs = 0
      BY <1>2, <2>1
    <2>3. ~Inside(at[r])
      BY <2>2, NobodyCalls
    <2>4. ~HasCookie(at[r])
      BY <2>2, NobodyCalls
    <2>5. Cardinality(Holders) = 0
      BY <1>1 DEF UInv, LockFits, Purging
    <2>6. ~Holds(at[r])
      BY <2>5, HoldersAre
    <2> QED
      BY <2>3, <2>4, <2>6
  <1> QED
    BY <1>2, <1>3

LEMMA NobodyWorksAtTheEnd ==
  ASSUME RInv, UInv, boot.pc \in {"delete lists", "down"}, NEW r \in Requests
  PROVE  ~Working(at[r])
  <1>1. ~Inside(at[r]) /\ ~HasCookie(at[r])
    BY NobodyIsLate DEF Late
  <1>2. at[r]["item"] \in {"none", "out"} /\ at[r]["citem"] \in {"none", "out"}
    BY DEF UInv, ItemsEnd
  <1> QED
    BY <1>1, <1>2 DEF Working, Inside, HasCookie, Roles

LEMMA PartsStayThere ==
  ASSUME RInv, UInv, NEW r \in Requests, Effects(r)
  PROVE  PartsStay' /\ ItemsEnd' /\ ModesFit' /\ StartFits'
  <1>1. /\ UNCHANGED <<boot, up, req>> /\ \A u \in Requests : u # r => at'[u] = at[u]
        /\ Working(at[r])
        /\ Filtered(req[r].kind, at'[r]) => Filtered(req[r].kind, at[r]) \/ "collected" \in up
    BY DEF Effects, PlaceEffect
  <1>2. /\ \A s \in Drivers : conn[s].refs = 0 => conn'[s].refs = 0
        /\ \A s \in Drivers : conn'[s].current = conn[s].current
    BY LinkEffectCounts DEF Effects
  <1>3. ASSUME NEW s \in Drivers, conn'[s].refs > 0
        PROVE  AllParts \subseteq up'
    <2>1. conn[s].refs \in Nat /\ conn[s].refs # 0
      BY <1>2, <1>3, NobodyCalls
    <2>2. conn[s].refs > 0
      BY <2>1
    <2> QED
      BY <1>1, <2>2 DEF UInv, PartsStay
  <1>4. conn'["hook"].current \/ "collected" \in up' => "exports" \in up'
    BY <1>1, <1>2, SourceIsDriver DEF UInv, PartsStay
  <1>5. ASSUME NEW u \in Requests
        PROVE  /\ Working(at'[u]) => {"lists", "pools"} \subseteq up'
               /\ Filtered(req'[u].kind, at'[u]) => "exports" \in up'
    <2>1. CASE u = r
      BY <1>1, <2>1 DEF UInv, PartsStay
    <2>2. CASE u # r
      BY <1>1, <2>2 DEF UInv, PartsStay
    <2> QED
      BY <2>1, <2>2
  <1>6. PartsStay'
    BY <1>3, <1>4, <1>5 DEF PartsStay
  <1>7. ItemsEnd'
    BY <1>1, NobodyWorksAtTheEnd DEF ItemsEnd
  <1>8. ModesFit' /\ StartFits'
    BY <1>1 DEF UInv, ModesFit, StartFits
  <1> QED
    BY <1>6, <1>7, <1>8

\* A new device joins those that exist.
LEMMA CreationCounts ==
  ASSUME RInv, UInv, NEW d \in Devices, dev[d].obj = "none", CreateDevice(d), UNCHANGED boot,
         boot.pc \notin Ending
  PROVE  TypeIsExact'
  <1>1. /\ Becomes(d, NewDevice) /\ NewDevice.obj = "live" /\ type'.count = type.count + 1
        /\ type'.marked = type.marked /\ type'.deleted = type.deleted
    BY CreationIs DEF RInv, Types
  <1>2. Existing' = Existing \cup {d} /\ d \notin Existing
    BY <1>1 DEF Existing, Becomes
  <1>3. Cardinality(Existing') = Cardinality(Existing) + 1
    BY <1>2, CountedSetsAreFinite, FS_AddElement
  <1>4. type'.count = Cardinality(Existing')
    BY <1>1, <1>3 DEF UInv, TypeIsExact
  <1> QED
    BY <1>1, <1>4 DEF UInv, TypeIsExact, Ending

LEMMA TypeStaysExact ==
  ASSUME RInv, UInv, NEW r \in Requests, Effects(r)
  PROVE  TypeIsExact'
  <1>1. UNCHANGED boot
    BY DEF Effects, PlaceEffect
  <1>2. CASE /\ UNCHANGED type
             /\ \A d \in Devices : \/ dev'[d].obj = dev[d].obj
                                   \/ dev[d].obj = "live" /\ dev'[d].obj = "dying"
    <2>1. Existing' = Existing
      BY <1>2 DEF Existing
    <2> QED
      BY <1>1, <1>2, <2>1 DEF UInv, TypeIsExact
  <1>3. CASE \E d \in Devices : dev[d].obj = "none" /\ CreateDevice(d) /\ Inside(at[r])
    <2>1. boot.pc \notin Ending
      BY <1>3, NobodyIsLate DEF Ending, Late
    <2> QED
      BY <1>1, <1>3, <2>1, CreationCounts
  <1> QED
    BY <1>2, <1>3 DEF Effects, DeviceEffect

LEMMA DeletersGoOn ==
  ASSUME RInv, UInv, NEW r \in Requests, Effects(r)
  PROVE  DeletersStay'
  <1>1. /\ UNCHANGED boot /\ \A u \in Requests : u # r => at'[u] = at[u]
        /\ at[r]["item"] \in {"free", "freed"} /\ at'[r]["item"] \notin {"free", "freed"}
             => ~Busy(<<r, "item">>)
    BY DEF Effects, PlaceEffect
  <1>2. Inside(at[r]) /\ ~Inside(at'[r]) => ~Busy(<<r, "disp">>)
    BY DEF Effects, LinkEffect
  <1> SUFFICES ASSUME NEW d \in Devices, dev'[d].obj \in {"dying", "counted"}
               PROVE  Deleter(dev[d].by)'
    BY DEF DeletersStay
  <1>3. CASE dev'[d].obj = dev[d].obj /\ dev'[d].by = dev[d].by
    <2>1. Deleter(dev[d].by)
      BY <1>3 DEF UInv, DeletersStay
    <2>2. CASE dev[d].by = <<"boot">> /\ boot.pc = "purge"
      BY <1>1, <1>3, <2>2 DEF Deleter
    <2>3. ASSUME NEW u \in Requests, dev[d].by = <<u, "disp">>, Inside(at[u])
          PROVE  Deleter(dev[d].by)'
      <3>1. CASE u # r
        BY <1>1, <1>3, <2>3, <3>1 DEF Deleter
      <3>2. CASE u = r
        <4>1. Busy(<<r, "disp">>)
          BY <1>3, <2>3, <3>2 DEF Busy
        <4> QED
          BY <1>2, <1>3, <2>3, <3>2, <4>1 DEF Deleter
      <3> QED
        BY <3>1, <3>2
    <2>4. ASSUME NEW u \in Requests, dev[d].by = <<u, "item">>, at[u]["item"] \in {"free", "freed"}
          PROVE  Deleter(dev[d].by)'
      <3>1. CASE u # r
        BY <1>1, <1>3, <2>4, <3>1 DEF Deleter
      <3>2. CASE u = r
        <4>1. Busy(<<r, "item">>)
          BY <1>3, <2>4, <3>2 DEF Busy
        <4> QED
          BY <1>1, <1>3, <2>4, <3>2, <4>1 DEF Deleter
      <3> QED
        BY <3>1, <3>2
    <2> QED
      BY <2>1, <2>2, <2>3, <2>4 DEF Deleter
  <1>4. CASE \/ dev'[d].by = <<r, "disp">> /\ Inside(at'[r])
             \/ dev'[d].by = <<r, "item">> /\ at'[r]["item"] \in {"free", "freed"}
    BY <1>4 DEF Deleter
  <1>5. CASE \E e \in Devices : dev[e].obj = "none" /\ CreateDevice(e)
    <2>1. PICK e \in Devices : dev[e].obj = "none" /\ CreateDevice(e)
      BY <1>5
    <2>2. Becomes(e, NewDevice) /\ NewDevice.obj = "live"
      BY <2>1, CreationIs DEF RInv, Types
    <2>3. d # e
      BY <2>2 DEF Becomes
    <2>4. dev'[d] = dev[d]
      BY <2>2, <2>3 DEF Becomes
    <2> QED
      BY <1>3, <2>4
  <1> QED
    BY <1>3, <1>4, <1>5 DEF Effects, DeviceEffect

LEMMA StepKeepsAll ==
  ASSUME RInv, UInv, NEW r \in Requests, Step(r)
  PROVE  UInv'
  <1>1. Effects(r)
    BY StepEffects
  <1> QED
    BY <1>1, LinksStayExact, LinksStayFit, LockStaysExact, PartsStayThere, TypeStaysExact,
       DeletersGoOn DEF UInv

-----------------------------------------------------------------------------
(* A driver calls *)

LEMMA CallIs ==
  ASSUME RInv, NEW r \in Requests, ReferenceCurrentConnectObject(r)
  PROVE  /\ at[r]["disp"] = "new"
         /\ \A role \in {"item", "comp", "citem"} : at[r][role] = "none" /\ at'[r][role] = "none"
         /\ \A u \in Requests : u # r => at'[u] = at[u] /\ req'[u] = req[u]
         /\ UNCHANGED <<boot, up, event, global, dev, type>>
         /\ \/ at'[r]["disp"] = "out" /\ UNCHANGED conn
            \/ \E s \in Drivers :
                 /\ conn[s].current /\ conn' = [conn EXCEPT ![s].refs = @ + 1]
                 /\ (IF req'[r].kind = "hook" THEN "hook" ELSE "pnp") = s
                 /\ at'[r]["disp"] \in {"insert", "remove", "in"}
  <1>1. PICK q \in Kinds[r] :
          /\ req' = [req EXCEPT ![r] = q]
          /\ LET s == IF q.kind = "hook" THEN "hook" ELSE "pnp"
                 first == CASE q.kind = "report" -> "insert"
                            [] q.kind = "remove" -> "remove"
                            [] OTHER -> "in"
             IN  IF conn[s].current
                 THEN /\ conn' = [conn EXCEPT ![s].refs = @ + 1]
                      /\ Goto(r, "disp", "new", first)
                 ELSE Goto(r, "disp", "new", "out") /\ UNCHANGED conn
    BY DEF ReferenceCurrentConnectObject
  <1>2. UNCHANGED <<boot, up, event, global, dev, type>>
    BY DEF ReferenceCurrentConnectObject
  <1>3. req'[r] = q /\ \A u \in Requests : u # r => req'[u] = req[u]
    BY <1>1 DEF RInv, Types, ReqTypes
  <1>4. at[r]["disp"] = "new"
    BY <1>1 DEF Goto
  <1>5. \A role \in {"item", "comp", "citem"} : at[r][role] = "none"
    BY <1>4, PlacesOf DEF PlacesFit, Served
  <1>6. ASSUME NEW to, Goto(r, "disp", "new", to)
        PROVE  /\ at'[r]["disp"] = to /\ \A u \in Requests : u # r => at'[u] = at[u]
               /\ \A role \in {"item", "comp", "citem"} : at'[r][role] = "none"
    BY <1>5, <1>6, GotoWent DEF Went, Roles
  <1>7. CASE conn[IF q.kind = "hook" THEN "hook" ELSE "pnp"].current
    <2> DEFINE s == IF q.kind = "hook" THEN "hook" ELSE "pnp"
               first == CASE q.kind = "report" -> "insert"
                          [] q.kind = "remove" -> "remove"
                          [] OTHER -> "in"
    <2>1. /\ conn' = [conn EXCEPT ![s].refs = @ + 1] /\ Goto(r, "disp", "new", first)
          /\ conn[s].current
      BY <1>1, <1>7
    <2>2. s \in Drivers /\ first \in {"insert", "remove", "in"}
      BY DEF Drivers
    <2>3. (IF req'[r].kind = "hook" THEN "hook" ELSE "pnp") = s
      BY <1>3
    <2> HIDE DEF s, first
    <2>4. at'[r]["disp"] \in {"insert", "remove", "in"}
      BY <1>6, <2>1, <2>2
    <2> QED
      BY <1>2, <1>3, <1>4, <1>5, <1>6, <2>1, <2>2, <2>3, <2>4
  <1>8. CASE ~conn[IF q.kind = "hook" THEN "hook" ELSE "pnp"].current
    <2>1. Goto(r, "disp", "new", "out") /\ UNCHANGED conn
      BY <1>1, <1>8
    <2> QED
      BY <1>2, <1>3, <1>4, <1>5, <1>6, <2>1
  <1> QED
    BY <1>7, <1>8

LEMMA CallKeepsAll ==
  ASSUME RInv, UInv, NEW r \in Requests, ReferenceCurrentConnectObject(r)
  PROVE  UInv'
  <1>1. /\ at[r]["disp"] = "new"
        /\ \A role \in {"item", "comp", "citem"} : at[r][role] = "none" /\ at'[r][role] = "none"
        /\ \A u \in Requests : u # r => at'[u] = at[u] /\ req'[u] = req[u]
        /\ UNCHANGED <<boot, up, event, global, dev, type>>
    BY CallIs
  <1>2. ~Inside(at[r]) /\ ~HasCookie(at[r]) /\ ~HasCookie(at'[r])
        /\ ~Holds(at[r]) /\ (at'[r]["disp"] \in {"out", "insert", "remove", "in"} => ~Holds(at'[r]))
    BY <1>1 DEF Inside, HasCookie, Holds
  <1>3. at'[r]["disp"] \in {"out", "insert", "remove", "in"}
    BY CallIs
  <1>4. Cookies' = Cookies /\ Holders' = Holders /\ Existing' = Existing
    BY <1>1, <1>2, <1>3 DEF Cookies, Holders, Existing
  <1>5. ModesFit' /\ StartFits' /\ GlobalIsExact' /\ LockFits' /\ TypeIsExact'
    BY <1>1, <1>4 DEF UInv, ModesFit, StartFits, GlobalIsExact, LockFits, Purging, TypeIsExact
  <1>6. ItemsEnd'
    BY <1>1 DEF UInv, ItemsEnd
  <1>7. DeletersStay'
    <2> SUFFICES ASSUME NEW d \in Devices, dev[d].obj \in {"dying", "counted"}
                 PROVE  Deleter(dev[d].by)'
      BY <1>1 DEF DeletersStay
    <2>1. Deleter(dev[d].by)
      BY DEF UInv, DeletersStay
    <2>2. dev' = dev /\ boot' = boot
      BY <1>1
    <2>3. \A u \in Requests : Inside(at[u]) => at'[u] = at[u]
      BY <1>1, <1>2
    <2>4. \A u \in Requests : at[u]["item"] \in {"free", "freed"} => at'[u] = at[u]
      BY <1>1
    <2> QED
      BY <2>1, <2>2, <2>3, <2>4 DEF Deleter
  <1>8. CASE at'[r]["disp"] = "out" /\ UNCHANGED conn
    <2>1. \A s : Callers(s)' = Callers(s)
      BY <1>1, <1>2, <1>8 DEF Callers, Source, Inside
    <2>2. ConnectionsAreExact' /\ LinksFit'
      BY <1>1, <1>4, <1>8, <2>1
         DEF UInv, ConnectionsAreExact, LinksFit, Disconnected, Waited, Purging
    <2>3. ~Working(at'[r]) /\ ~Filtered(req'[r].kind, at'[r])
      BY <1>1, <1>8 DEF Working, Filtered, Roles, Early, Hooks
    <2>4. PartsStay'
      BY <1>1, <1>8, <2>3 DEF UInv, PartsStay
    <2> QED
      BY <1>5, <1>6, <1>7, <2>2, <2>4 DEF UInv
  <1>9. ASSUME NEW s \in Drivers, conn[s].current, conn' = [conn EXCEPT ![s].refs = @ + 1],
               (IF req'[r].kind = "hook" THEN "hook" ELSE "pnp") = s,
               at'[r]["disp"] \in {"insert", "remove", "in"}
        PROVE  UInv'
    <2>1. /\ conn'[s].refs = conn[s].refs + 1 /\ conn'[s].current = conn[s].current
          /\ \A o \in Drivers : o # s => conn'[o] = conn[o]
      BY <1>9, ConnectionTaken
    <2>2. conn[s].refs \in Nat /\ conn[s].refs # 0
      BY <1>9, NobodyCalls
    <2>3. Callers(s)' = Callers(s) \cup {r} /\ r \notin Callers(s)
      BY <1>1, <1>2, <1>9 DEF Callers, Source, Inside
    <2>4. \A o : o # s => Callers(o)' = Callers(o)
      BY <1>1, <1>2, <1>9 DEF Callers, Source, Inside
    <2>5. Cardinality(Callers(s)') = Cardinality(Callers(s)) + 1
      BY <2>3, CountedSetsAreFinite, FS_AddElement
    <2>6. ConnectionsAreExact'
      <3>1. ASSUME NEW o \in Drivers, o # s
            PROVE  /\ conn'[o].refs = (IF conn'[o].current THEN 1 ELSE 0)
                         + Cardinality(Callers(o)')
                         + (IF o = "hook" THEN Cardinality(Cookies') ELSE 0)
                   /\ event'[o] <=> conn'[o].refs = 0
        BY <1>1, <1>4, <2>1, <2>4, <3>1 DEF UInv, ConnectionsAreExact
      <3>2. /\ conn'[s].refs = (IF conn'[s].current THEN 1 ELSE 0)
                   + Cardinality(Callers(s)')
                   + (IF s = "hook" THEN Cardinality(Cookies') ELSE 0)
            /\ event'[s] <=> conn'[s].refs = 0
        <4> DEFINE c == Cardinality(Callers(s))
                   k == IF s = "hook" THEN Cardinality(Cookies) ELSE 0
                   n == conn[s].refs
                   b == IF conn[s].current THEN 1 ELSE 0
        <4>1. n = b + c + k /\ (event[s] <=> n = 0)
          BY DEF UInv, ConnectionsAreExact
        <4>2. c \in Nat /\ k \in Nat /\ b \in Nat /\ n \in Nat
          BY <2>2, CountedSetsAreFinite
        <4>3. n + 1 = b + (c + 1) + k /\ (event[s] <=> n + 1 = 0)
          <5> HIDE DEF c, k, n, b
          <5> QED
            BY <2>2, <4>1, <4>2 DEF n
        <4> QED
          BY <1>1, <1>4, <2>1, <2>5, <4>3
      <3> QED
        BY <3>1, <3>2 DEF ConnectionsAreExact
    <2>7. LinksFit'
      <3>1. \A o \in Drivers : conn[o].refs = 0 => conn'[o].refs = 0
        BY <2>1, <2>2
      <3>2. \A o \in Drivers : conn'[o].current = conn[o].current
        BY <2>1
      <3>3. LinksFit /\ boot' = boot
        BY <1>1 DEF UInv
      <3> QED
        BY <3>1, <3>2, <3>3 DEF LinksFit, Disconnected, Waited, Purging
    <2>8. PartsStay'
      <3>1. conn[s].refs > 0
        BY <2>2
      <3>2. AllParts \subseteq up
        BY <3>1 DEF UInv, PartsStay
      <3>3. \A o \in Drivers : conn'[o].refs > 0 => AllParts \subseteq up'
        BY <1>1, <3>2
      <3>4. conn'["hook"].current \/ "collected" \in up' => "exports" \in up'
        BY <1>1, <2>1, SourceIsDriver DEF UInv, PartsStay
      <3>5. Filtered(req'[r].kind, at'[r]) => s = "hook"
        BY <1>1, <1>9 DEF Filtered, Early, Hooks
      <3>6. Filtered(req'[r].kind, at'[r]) => "exports" \in up'
        BY <1>1, <1>9, <3>5 DEF UInv, PartsStay
      <3>7. \A u \in Requests : /\ Working(at'[u]) => {"lists", "pools"} \subseteq up'
                                /\ Filtered(req'[u].kind, at'[u]) => "exports" \in up'
        BY <1>1, <3>2, <3>6 DEF UInv, PartsStay, AllParts
      <3> QED
        BY <3>3, <3>4, <3>7 DEF PartsStay
    <2> QED
      BY <1>5, <1>6, <1>7, <2>6, <2>7, <2>8 DEF UInv
  <1>10. \/ at'[r]["disp"] = "out" /\ UNCHANGED conn
         \/ \E s \in Drivers :
              /\ conn[s].current /\ conn' = [conn EXCEPT ![s].refs = @ + 1]
              /\ (IF req'[r].kind = "hook" THEN "hook" ELSE "pnp") = s
              /\ at'[r]["disp"] \in {"insert", "remove", "in"}
    BY CallIs
  <1> QED
    BY <1>8, <1>9, <1>10

-----------------------------------------------------------------------------
(* A device is deleted *)

\* What has nothing to do with the devices stays when they alone change.
LEMMA TheRestStays ==
  ASSUME UInv, UNCHANGED <<boot, up, conn, event, global, req, at>>
  PROVE  /\ ModesFit' /\ StartFits' /\ GlobalIsExact' /\ LockFits'
         /\ ConnectionsAreExact' /\ LinksFit' /\ PartsStay' /\ ItemsEnd'
  <1>1. /\ \A s : Callers(s)' = Callers(s)
        /\ Cookies' = Cookies /\ Holders' = Holders
    BY DEF Callers, Cookies, Holders, Source
  <1>2. ModesFit' /\ StartFits' /\ GlobalIsExact' /\ LockFits'
    BY <1>1 DEF UInv, ModesFit, StartFits, GlobalIsExact, LockFits, Purging
  <1>3. ConnectionsAreExact' /\ LinksFit' /\ PartsStay' /\ ItemsEnd'
    BY <1>1 DEF UInv, ConnectionsAreExact, LinksFit, Disconnected, Waited, Purging, PartsStay,
                ItemsEnd
  <1> QED
    BY <1>2, <1>3

LEMMA DeletionKeepsAll ==
  ASSUME RInv, UInv, Deletion
  PROVE  UInv'
  <1>1. PICK d \in Devices : DeleteDeviceObject(d) \/ DeleteMarkedType(d)
    BY DEF Deletion
  <1>2. /\ UNCHANGED <<boot, up, conn, event, global, req, at>>
        /\ \E p : /\ Becomes(d, p) /\ p.by = dev[d].by
                  /\ p.obj \in {"counted", "gone"} /\ (DeleteMarkedType(d) => p.obj = "gone")
    BY <1>1, DeletionIs DEF RInv, Types
  <1>3. PICK p : /\ Becomes(d, p) /\ p.by = dev[d].by
                 /\ p.obj \in {"counted", "gone"} /\ (DeleteMarkedType(d) => p.obj = "gone")
    BY <1>2
  <1>4. dev'[d].obj \in {"counted", "gone"} /\ dev'[d].by = dev[d].by
        /\ \A e \in Devices : e # d => dev'[e] = dev[e]
    BY <1>3 DEF Becomes
  <1>5. DeletersStay'
    <2>1. \A e \in Devices : /\ dev'[e].by = dev[e].by
                             /\ dev'[e].obj \in {"dying", "counted"}
                                  => dev[e].obj \in {"dying", "counted"}
      BY <1>1, <1>4 DEF DeleteDeviceObject, DeleteMarkedType
    <2>2. \A t : Deleter(t) => Deleter(t)'
      BY <1>2 DEF Deleter
    <2> QED
      BY <2>1, <2>2 DEF UInv, DeletersStay
  <1>6. CASE DeleteDeviceObject(d)
    <2>1. type \in [count : Int, marked : BOOLEAN, deleted : BOOLEAN]
      BY DEF RInv, Types, DevTypes
    <2>2. /\ type'.count = type.count - 1 /\ type'.marked = type.marked
          /\ type'.deleted = type.deleted /\ dev[d].obj = "dying"
      BY <1>6, <2>1 DEF DeleteDeviceObject
    <2>3. Existing' = Existing \ {d} /\ d \in Existing
      BY <1>4, <2>2 DEF Existing
    <2>4. Cardinality(Existing') = Cardinality(Existing) - 1 /\ Cardinality(Existing) # 0
      BY <2>3, CountedSetsAreFinite, FS_RemoveElement
    <2>5. TypeIsExact'
      BY <1>2, <2>2, <2>4 DEF UInv, TypeIsExact
    <2> QED
      BY <1>2, <1>5, <2>5, TheRestStays DEF UInv
  <1>7. CASE DeleteMarkedType(d)
    <2>1. type \in [count : Int, marked : BOOLEAN, deleted : BOOLEAN]
      BY DEF RInv, Types, DevTypes
    <2>2. Existing' = Existing
      BY <1>3, <1>4, <1>7 DEF Existing, DeleteMarkedType, Becomes
    <2>3. ASSUME UNCHANGED type
          PROVE  TypeIsExact'
      BY <1>2, <2>2, <2>3 DEF UInv, TypeIsExact
    <2>4. ASSUME type.marked, type.count = 0, DeleteDeviceObjectType
          PROVE  TypeIsExact'
      <3>1. type'.count = type.count /\ type'.marked = type.marked /\ type'.deleted
        BY <2>1, <2>4 DEF DeleteDeviceObjectType
      <3> QED
        BY <1>2, <2>2, <2>4, <3>1 DEF UInv, TypeIsExact
    <2>5. TypeIsExact'
      BY <1>7, <2>3, <2>4 DEF DeleteMarkedType
    <2> QED
      BY <1>2, <1>5, <2>5, TheRestStays DEF UInv
  <1> QED
    BY <1>1, <1>6, <1>7

-----------------------------------------------------------------------------
(* DriverEntry and DriverUnload go on *)

LEMMA NobodyMoves ==
  ASSUME UNCHANGED <<req, at>>
  PROVE  (\A s : Callers(s)' = Callers(s)) /\ Cookies' = Cookies /\ Holders' = Holders
  BY DEF Callers, Cookies, Holders, Source

LEMMA LinksAreLeft ==
  ASSUME UInv, UNCHANGED <<conn, event, req, at>>
  PROVE  ConnectionsAreExact'
  BY NobodyMoves DEF UInv, ConnectionsAreExact

LEMMA LockIsKept ==
  ASSUME UInv, UNCHANGED <<global, req, at>>
  PROVE  GlobalIsExact'
  BY NobodyMoves DEF UInv, GlobalIsExact

LEMMA TypeIsKept ==
  ASSUME UInv, UNCHANGED type, boot.pc \in Ending => boot'.pc \in Ending,
         boot'.pc \in {"delete pools", "delete lists", "down"} => type.deleted,
         \A d \in Devices : \/ dev'[d].obj = dev[d].obj
                            \/ dev[d].obj = "live" /\ dev'[d].obj = "dying"
  PROVE  TypeIsExact'
  <1>1. Existing' = Existing
    BY DEF Existing
  <1> QED
    BY <1>1 DEF UInv, TypeIsExact

\* The thread of DriverUnload stays until it has deleted what it drops.
LEMMA DeletersAreLeft ==
  ASSUME UInv, UNCHANGED at, boot.pc = "purge" => ~Busy(<<"boot">>),
         \A d \in Devices : \/ dev'[d].obj = dev[d].obj /\ dev'[d].by = dev[d].by
                            \/ dev'[d].by = <<"boot">> /\ boot'.pc = "purge"
                            \/ dev'[d].obj = "live"
  PROVE  DeletersStay'
  <1> SUFFICES ASSUME NEW d \in Devices, dev'[d].obj \in {"dying", "counted"}
               PROVE  Deleter(dev[d].by)'
    BY DEF DeletersStay
  <1>1. CASE dev'[d].by = <<"boot">> /\ boot'.pc = "purge"
    BY <1>1 DEF Deleter
  <1>2. CASE dev'[d].obj = dev[d].obj /\ dev'[d].by = dev[d].by
    <2>1. Deleter(dev[d].by)
      BY <1>2 DEF UInv, DeletersStay
    <2>2. ~(dev[d].by = <<"boot">> /\ boot.pc = "purge")
      BY <1>2 DEF Busy
    <2> QED
      BY <1>2, <2>1, <2>2 DEF Deleter
  <1> QED
    BY <1>1, <1>2

\* A step that moves the thread of the driver only.
LEMMA QuietBoot ==
  ASSUME UInv, UNCHANGED <<conn, event, global, dev, type, req, at>>,
         ModesFit', LinksFit', LockFits', StartFits', PartsStay', ItemsEnd',
         boot.pc \in Ending => boot'.pc \in Ending,
         boot'.pc \in {"delete pools", "delete lists", "down"} => type.deleted,
         boot.pc = "purge" => ~Busy(<<"boot">>)
  PROVE  UInv'
  BY LinksAreLeft, LockIsKept, TypeIsKept, DeletersAreLeft DEF UInv

\* The parts stay when none is taken away.
LEMMA PartsAreLeft ==
  ASSUME UInv, UNCHANGED <<conn, req, at>>, up \subseteq up',
         "collected" \in up' => "exports" \in up'
  PROVE  PartsStay'
  BY DEF UInv, PartsStay

\* On its way DriverEntry gives way to DriverUnload.
LEMMA FailureKeepsAll ==
  ASSUME RInv, UInv, NEW from \in Starting, NEW fault, Fails(from, fault),
         UNCHANGED <<up, conn, event, global, dev, type, req, at>>
  PROVE  UInv'
  <1>1. boot.pc = from /\ boot'.pc = "disconnect pnp" /\ boot'.mode = "unload"
    BY FailureMoves DEF RInv, Types
  <1>2. ModesFit' /\ StartFits' /\ ItemsEnd'
    BY <1>1 DEF ModesFit, StartFits, ItemsEnd, Starting, Late
  <1>3. LinksFit'
    BY <1>1 DEF LinksFit, Disconnected, Waited, Before, Purging, Late
  <1>4. LockFits'
    BY <1>1 DEF UInv, LockFits, Purging, Late, Starting
  <1>5. PartsStay'
    BY PartsAreLeft DEF UInv, PartsStay
  <1> QED
    BY <1>1, <1>2, <1>3, <1>4, <1>5, QuietBoot DEF Starting, Ending

LEMMA BootPlaces ==
  \A p \in Starting \cup {"running", "disconnect pnp", "disconnect hook", "wait pnp",
                          "wait hook", "close", "drain", "purge", "cleaned"} \cup Late :
    p \in BootPoints
  BY DEF BootPoints

LEMMA StartKeepsAll ==
  ASSUME RInv, UInv, InitializeSubsystems \/ CreateThreadPools \/ CreateHashes
  PROVE  UInv'
  <1>1. UNCHANGED <<conn, event, global, dev, type, req, at>>
    BY DEF InitializeSubsystems, CreateThreadPools, CreateHashes
  <1>2. ASSUME NEW from, NEW to, NEW part, BootTo(from, to), up' = up \cup {part},
               \/ from = "lists" /\ to = "pools" /\ part = "lists"
               \/ from = "pools" /\ to = "hashes" /\ part = "pools"
               \/ from = "hashes" /\ to = "connect pnp" /\ part = "hashes"
        PROVE  UInv'
    <2>1. to \in BootPoints
      BY <1>2, BootPlaces DEF Starting
    <2>2. boot.pc = from /\ boot'.pc = to /\ boot'.mode = boot.mode
      BY <1>2, <2>1, BootMoves DEF RInv, Types
    <2>3. ModesFit' /\ ItemsEnd'
      BY <1>2, <2>2 DEF UInv, ModesFit, ItemsEnd, Starting, Late
    <2>4. LinksFit'
      BY <1>1, <1>2, <2>2 DEF UInv, LinksFit, Disconnected, Waited, Before, Purging, Late
    <2>5. LockFits'
      BY <1>1, <1>2, <2>2 DEF UInv, LockFits, Purging, Late
    <2>6. StartFits'
      BY <1>2, <2>2 DEF UInv, StartFits, AllParts
    <2>7. "collected" \in up' => "exports" \in up'
      BY <1>2 DEF UInv, PartsStay
    <2>8. PartsStay'
      BY <1>1, <1>2, <2>7, PartsAreLeft
    <2>9. from \notin Ending /\ to \notin {"delete pools", "delete lists", "down"} /\ from # "purge"
      BY <1>2 DEF Ending
    <2> QED
      BY <1>1, <2>2, <2>3, <2>4, <2>5, <2>6, <2>8, <2>9, QuietBoot
  <1>3. ASSUME NEW from \in Starting, NEW fault, Fails(from, fault), UNCHANGED up
        PROVE  UInv'
    BY <1>1, <1>3, FailureKeepsAll
  <1>4. InitializeSubsystems => UInv'
    BY <1>2 DEF InitializeSubsystems
  <1>5. CreateThreadPools => UInv'
    BY <1>2, <1>3 DEF CreateThreadPools, Starting
  <1>6. CreateHashes => UInv'
    BY <1>2, <1>3 DEF CreateHashes, Starting
  <1> QED
    BY <1>4, <1>5, <1>6

\* A driver connects: nobody has referred to its connection object before.
LEMMA ConnectingCounts ==
  ASSUME RInv, UInv, NEW s \in Drivers, ConnectionRequired(s), Waited(s), UNCHANGED <<req, at>>
  PROVE  /\ ConnectionsAreExact'
         /\ conn'[s].current /\ \A o \in Drivers : o # s => conn'[o] = conn[o]
  <1>1. /\ conn'[s].current /\ conn'[s].refs = 1 /\ ~event'[s]
        /\ \A o \in Drivers : o # s => conn'[o] = conn[o] /\ event'[o] = event[o]
    BY DEF ConnectionRequired, RInv, Types, LinkTypes
  <1>2. conn[s].refs = 0
    BY DEF UInv, LinksFit
  <1>3. Callers(s) = {} /\ (s = "hook" => Cookies = {})
    BY <1>2, NobodyCalls
  <1>4. Cardinality(Callers(s)') = 0 /\ (s = "hook" => Cardinality(Cookies') = 0)
    BY <1>3, NobodyMoves, CountedSetsAreFinite
  <1>5. ASSUME NEW o \in Drivers
        PROVE  /\ conn'[o].refs = (IF conn'[o].current THEN 1 ELSE 0)
                     + Cardinality(Callers(o)')
                     + (IF o = "hook" THEN Cardinality(Cookies') ELSE 0)
               /\ event'[o] <=> conn'[o].refs = 0
    <2>1. CASE o = s
      BY <1>1, <1>4, <2>1
    <2>2. CASE o # s
      BY <1>1, <2>2, NobodyMoves DEF UInv, ConnectionsAreExact
    <2> QED
      BY <2>1, <2>2
  <1> QED
    BY <1>1, <1>5 DEF ConnectionsAreExact

LEMMA ConnectKeepsAll ==
  ASSUME RInv, UInv, ConnectToPnpFilter \/ ConnectToHooker
  PROVE  UInv'
  <1>1. UNCHANGED <<global, dev, type, req, at>>
    BY DEF ConnectToPnpFilter, ConnectToHooker
  <1>2. ASSUME NEW s \in Drivers, NEW from, NEW to, BootTo(from, to), ConnectionRequired(s),
               \/ s = "pnp" /\ from = "connect pnp" /\ to = "connect hook" /\ UNCHANGED up
               \/ s = "hook" /\ from = "connect hook" /\ to = "report" /\ up' = up \cup {"exports"}
        PROVE  UInv'
    <2>1. to \in BootPoints
      BY <1>2, BootPlaces DEF Starting
    <2>2. boot.pc = from /\ boot'.pc = to /\ boot'.mode = boot.mode
      BY <1>2, <2>1, BootMoves DEF RInv, Types
    <2>3. ModesFit' /\ ItemsEnd'
      BY <1>2, <2>2 DEF UInv, ModesFit, ItemsEnd, Starting, Late
    <2>4. Waited(s)
      BY <1>2, <2>2 DEF Waited, Before
    <2>5. ConnectionsAreExact' /\ conn'[s].current
          /\ \A o \in Drivers : o # s => conn'[o] = conn[o]
      BY <1>1, <1>2, <2>4, ConnectingCounts
    <2>6. LinksFit'
      BY <1>2, <2>2, <2>5 DEF UInv, LinksFit, Disconnected, Waited, Before, Purging, Late, Drivers
    <2>7. LockFits' /\ GlobalIsExact'
      BY <1>1, <1>2, <2>2, LockIsKept, NobodyMoves DEF UInv, LockFits, Purging, Late
    <2>8. StartFits'
      BY <1>2, <2>2 DEF UInv, StartFits, AllParts
    <2>9. AllParts \subseteq up' /\ up \subseteq up' /\ (s = "hook" => "exports" \in up')
      BY <1>2, <2>2 DEF UInv, StartFits, AllParts
    <2>10. conn'["hook"].current \/ "collected" \in up' => "exports" \in up'
      <3>1. CASE s = "hook"
        BY <2>9, <3>1
      <3>2. CASE s = "pnp"
        BY <1>2, <2>5, <3>2, SourceIsDriver DEF UInv, PartsStay, Drivers
      <3> QED
        BY <1>2, <3>1, <3>2
    <2>11. PartsStay'
      BY <1>1, <2>9, <2>10 DEF UInv, PartsStay
    <2>12. TypeIsExact' /\ DeletersStay'
      BY <1>1, <1>2, <2>2, TypeIsKept, DeletersAreLeft DEF Ending
    <2> QED
      BY <2>3, <2>5, <2>6, <2>7, <2>8, <2>11, <2>12 DEF UInv
  <1>3. ASSUME NEW from \in Starting, NEW fault, Fails(from, fault), UNCHANGED <<up, conn, event>>
        PROVE  UInv'
    BY <1>1, <1>3, FailureKeepsAll
  <1>4. ConnectToPnpFilter => UInv'
    BY <1>2, <1>3 DEF ConnectToPnpFilter, FilterConnectionRequired, Drivers, Starting
  <1>5. ConnectToHooker => UInv'
    BY <1>2, <1>3 DEF ConnectToHooker, Drivers, Starting
  <1> QED
    BY <1>4, <1>5

LEMMA ReportKeepsAll ==
  ASSUME RInv, UInv, NEW d \in Devices, ReportExistingDevice(d)
  PROVE  UInv'
  <1>1. /\ UNCHANGED <<boot, up, conn, event, global, req, at>>
        /\ boot.pc = "report" /\ dev[d].obj = "none" /\ CreateDevice(d)
    BY DEF ReportExistingDevice
  <1>2. TypeIsExact'
    BY <1>1, CreationCounts DEF Ending
  <1>3. \A e \in Devices : dev'[e] = dev[e] \/ dev'[e].obj = "live"
    BY <1>1, CreationIs DEF RInv, Types, Becomes
  <1>4. DeletersStay'
    BY <1>1, <1>3, DeletersAreLeft
  <1> QED
    BY <1>1, <1>2, <1>4, TheRestStays DEF UInv

LEMMA RunningKeepsAll ==
  ASSUME RInv, UInv, DeviceInformationCollected \/ StartFsdFiltering
  PROVE  UInv'
  <1>1. UNCHANGED <<conn, event, global, dev, type, req, at>>
    BY DEF DeviceInformationCollected, StartFsdFiltering
  <1>2. ASSUME NEW from, NEW to, BootTo(from, to),
               \/ from = "report" /\ to = "filter" /\ up' = up \cup {"collected"}
               \/ from = "filter" /\ to = "running" /\ UNCHANGED up
        PROVE  UInv'
    <2>1. to \in BootPoints
      BY <1>2, BootPlaces DEF Starting
    <2>2. boot.pc = from /\ boot'.pc = to /\ boot'.mode = boot.mode
      BY <1>2, <2>1, BootMoves DEF RInv, Types
    <2>3. ModesFit' /\ ItemsEnd'
      BY <1>2, <2>2 DEF UInv, ModesFit, ItemsEnd, Starting, Late
    <2>4. LinksFit'
      BY <1>1, <1>2, <2>2 DEF UInv, LinksFit, Disconnected, Waited, Before, Purging, Late
    <2>5. LockFits'
      BY <1>1, <1>2, <2>2 DEF UInv, LockFits, Purging, Late
    <2>6. StartFits'
      BY <1>2, <2>2 DEF UInv, StartFits, AllParts
    <2>7. "collected" \in up' => "exports" \in up'
      BY <1>2, <2>2 DEF UInv, PartsStay, StartFits
    <2>8. PartsStay'
      BY <1>1, <1>2, <2>7, PartsAreLeft
    <2>9. from \notin Ending /\ to \notin {"delete pools", "delete lists", "down"} /\ from # "purge"
      BY <1>2 DEF Ending
    <2> QED
      BY <1>1, <2>2, <2>3, <2>4, <2>5, <2>6, <2>8, <2>9, QuietBoot
  <1>3. ASSUME NEW from \in Starting, NEW fault, Fails(from, fault), UNCHANGED up
        PROVE  UInv'
    BY <1>1, <1>3, FailureKeepsAll
  <1>4. DeviceInformationCollected => UInv'
    BY <1>2 DEF DeviceInformationCollected
  <1>5. StartFsdFiltering => UInv'
    BY <1>2, <1>3 DEF StartFsdFiltering, Starting
  <1> QED
    BY <1>4, <1>5

LEMMA EntryKeepsAll ==
  ASSUME RInv, UInv, DriverEntry
  PROVE  UInv'
  BY StartKeepsAll, ConnectKeepsAll, ReportKeepsAll, RunningKeepsAll, CoreDriverAssumption
     DEF DriverEntry

LEMMA BeginningKeepsAll ==
  ASSUME RInv, UInv, QueryUnload \/ DriverUnload
  PROVE  UInv'
  <1>1. /\ boot.pc = "running" /\ boot'.pc = "disconnect pnp" /\ boot'.mode \in {"query", "unload"}
        /\ UNCHANGED <<up, conn, event, global, dev, type, req, at>>
    BY UnloadBegins
  <1>2. ModesFit' /\ StartFits' /\ ItemsEnd'
    BY <1>1 DEF ModesFit, StartFits, ItemsEnd, Starting, Late
  <1>3. LinksFit'
    BY <1>1 DEF LinksFit, Disconnected, Waited, Before, Purging, Late
  <1>4. LockFits'
    BY <1>1 DEF UInv, LockFits, Purging, Late
  <1>5. PartsStay'
    BY <1>1, PartsAreLeft DEF UInv, PartsStay
  <1> QED
    BY <1>1, <1>2, <1>3, <1>4, <1>5, QuietBoot DEF Ending

-----------------------------------------------------------------------------
(* DriverUnload *)

\* The connection object is no longer the current one.
LEMMA DisconnectingCounts ==
  ASSUME RInv, UInv, NEW s \in Drivers, Disconnect(s), UNCHANGED <<req, at>>
  PROVE  /\ ConnectionsAreExact' /\ ~conn'[s].current
         /\ \A o \in Drivers : o # s => conn'[o] = conn[o]
         /\ \A o \in Drivers : conn[o].refs = 0 => conn'[o].refs = 0
         /\ \A o \in Drivers : conn'[o].current => conn[o].current
  <1>1. CASE conn[s].current
    <2>1. /\ ~conn'[s].current /\ conn'[s].refs = conn[s].refs - 1
          /\ event'[s] = IF conn[s].refs = 1 THEN TRUE ELSE event[s]
          /\ \A o \in Drivers : o # s => conn'[o] = conn[o] /\ event'[o] = event[o]
      <3> DEFINE p == [current |-> FALSE, refs |-> conn[s].refs - 1]
      <3>1. conn \in [Drivers -> [current : BOOLEAN, refs : Int]] /\ event \in [Drivers -> BOOLEAN]
        BY DEF RInv, Types, LinkTypes
      <3>2. conn' = [conn EXCEPT ![s] = p]
        BY <1>1 DEF Disconnect
      <3>3. IF conn[s].refs = 1 THEN event' = [event EXCEPT ![s] = TRUE] ELSE UNCHANGED event
        BY <1>1 DEF Disconnect, DeleteConnectObject
      <3>4. ~p.current /\ p.refs = conn[s].refs - 1
        OBVIOUS
      <3> HIDE DEF p
      <3> QED
        BY <3>1, <3>2, <3>3, <3>4
    <2> DEFINE c == Cardinality(Callers(s))
               k == IF s = "hook" THEN Cardinality(Cookies) ELSE 0
               n == conn[s].refs
    <2>2. c \in Nat /\ k \in Nat /\ n \in Nat
      BY CountedSetsAreFinite, NobodyCalls
    <2>3. n = 1 + c + k /\ (event[s] <=> n = 0)
      BY <1>1 DEF UInv, ConnectionsAreExact
    <2>4. conn'[s].refs = c + k /\ (event'[s] <=> conn'[s].refs = 0) /\ n # 0
      <3>1. n - 1 = c + k /\ n # 0 /\ (n = 1 <=> c + k = 0) /\ ~event[s]
        <4> HIDE DEF c, k, n
        <4> QED
          BY <2>2, <2>3
      <3> QED
        BY <2>1, <3>1
    <2>5. ASSUME NEW o \in Drivers
          PROVE  /\ conn'[o].refs = (IF conn'[o].current THEN 1 ELSE 0)
                       + Cardinality(Callers(o)')
                       + (IF o = "hook" THEN Cardinality(Cookies') ELSE 0)
                 /\ event'[o] <=> conn'[o].refs = 0
      <3>1. CASE o = s
        <4>1. /\ conn'[s].refs = 0 + c + k /\ ~conn'[s].current
              /\ event'[s] <=> conn'[s].refs = 0
          BY <2>1, <2>2, <2>4
        <4> QED
          BY <3>1, <4>1, NobodyMoves
      <3>2. CASE o # s
        BY <2>1, <3>2, NobodyMoves DEF UInv, ConnectionsAreExact
      <3> QED
        BY <3>1, <3>2
    <2> QED
      BY <2>1, <2>4, <2>5 DEF ConnectionsAreExact
  <1>2. CASE ~conn[s].current
    BY <1>2, LinksAreLeft DEF Disconnect
  <1> QED
    BY <1>1, <1>2

LEMMA DisconnectKeepsAll ==
  ASSUME RInv, UInv, DisconnectFromPnPFilter \/ DisconnectFromHooker
  PROVE  UInv'
  <1>1. UNCHANGED <<up, global, dev, type, req, at>>
    BY DEF DisconnectFromPnPFilter, DisconnectFromHooker
  <1>2. ASSUME NEW s \in Drivers, NEW from, NEW to, BootTo(from, to), Disconnect(s),
               \/ s = "pnp" /\ from = "disconnect pnp" /\ to = "disconnect hook"
               \/ /\ s = "hook" /\ from = "disconnect hook"
                  /\ to = IF boot.mode = "unload" THEN "wait pnp" ELSE "purge"
        PROVE  UInv'
    <2>1. to \in BootPoints
      BY <1>2, BootPlaces
    <2>2. boot.pc = from /\ boot'.pc = to /\ boot'.mode = boot.mode
      BY <1>2, <2>1, BootMoves DEF RInv, Types
    <2>3. ModesFit' /\ ItemsEnd' /\ StartFits'
      BY <1>2, <2>2 DEF UInv, ModesFit, ItemsEnd, StartFits, Starting, Late
    <2>4. /\ ConnectionsAreExact' /\ ~conn'[s].current
          /\ \A o \in Drivers : o # s => conn'[o] = conn[o]
          /\ \A o \in Drivers : conn[o].refs = 0 => conn'[o].refs = 0
          /\ \A o \in Drivers : conn'[o].current => conn[o].current
      BY <1>1, <1>2, DisconnectingCounts
    <2>5. LinksFit'
      <3>1. CASE s = "pnp"
        BY <1>2, <2>2, <2>4, <3>1
           DEF UInv, LinksFit, Disconnected, Waited, Before, Purging, Late, Drivers
      <3>2. CASE s = "hook"
        <4>1. ~conn["pnp"].current
          BY <1>2, <2>2, <3>2 DEF UInv, LinksFit, Disconnected, Drivers
        <4>2. \A o \in Drivers : ~conn'[o].current
          BY <2>4, <3>2, <4>1 DEF Drivers
        <4>3. \A o \in Drivers : ~Waited(o)'
          BY <1>2, <2>2, <3>2 DEF Waited, Before, Purging, Late
        <4> QED
          BY <4>2, <4>3 DEF LinksFit
      <3> QED
        BY <1>2, <3>1, <3>2
    <2>6. LockFits' /\ GlobalIsExact'
      BY <1>1, <1>2, <2>2, LockIsKept, NobodyMoves DEF UInv, LockFits, Purging, Late
    <2>7. PartsStay'
      <3>1. \A o \in Drivers : conn'[o].refs > 0 => AllParts \subseteq up'
        <4> SUFFICES ASSUME NEW o \in Drivers, conn'[o].refs > 0
                     PROVE  AllParts \subseteq up
          BY <1>1
        <4>1. conn[o].refs \in Nat /\ conn[o].refs # 0
          BY <2>4, NobodyCalls
        <4>2. conn[o].refs > 0
          BY <4>1
        <4> QED
          BY <4>2 DEF UInv, PartsStay
      <3>2. conn'["hook"].current \/ "collected" \in up' => "exports" \in up'
        <4>1. conn["hook"].current \/ "collected" \in up => "exports" \in up
          BY DEF UInv, PartsStay
        <4>2. conn'["hook"].current => conn["hook"].current
          BY <2>4 DEF Drivers
        <4> QED
          BY <1>1, <4>1, <4>2
      <3> QED
        BY <1>1, <3>1, <3>2 DEF UInv, PartsStay
    <2>8. TypeIsExact' /\ DeletersStay'
      BY <1>1, <1>2, <2>2, TypeIsKept, DeletersAreLeft DEF Ending
    <2> QED
      BY <2>3, <2>4, <2>5, <2>6, <2>7, <2>8 DEF UInv
  <1>3. DisconnectFromPnPFilter => UInv'
    BY <1>2 DEF DisconnectFromPnPFilter, Drivers
  <1>4. DisconnectFromHooker => UInv'
    BY <1>2 DEF DisconnectFromHooker, Drivers
  <1> QED
    BY <1>3, <1>4

\* A step of the unload after the drivers have been disconnected.
Leaving  == {"wait pnp", "wait hook", "close", "drain", "purge"} \cup Late
Reaching == {"wait hook", "close", "drain", "purge", "cleaned", "running"} \cup Late

LEMMA UnloadPlaces ==
  /\ \A p \in {"wait pnp", "wait hook", "close", "drain", "purge", "types", "mark type",
              "await type", "delete pools", "delete lists"} : p \in Leaving
  /\ \A p \in {"wait hook", "close", "drain", "purge", "cleaned", "running", "types", "mark type",
              "await type", "delete pools", "delete lists", "down"} : p \in Reaching
  BY DEF Leaving, Reaching, Late

LEMMA UnloadMoves ==
  ASSUME RInv, UInv, NEW from \in Leaving, NEW to \in Reaching, BootTo(from, to)
  PROVE  /\ boot.pc = from /\ boot'.pc = to /\ boot'.mode = boot.mode /\ StartFits'
         /\ \A s \in Drivers : ~conn[s].current
         /\ from # "purge" => boot.mode = "unload"
         /\ boot.mode = "unload" /\ to # "running" => ModesFit'
  <1>1. to \in BootPoints
    BY BootPlaces DEF Reaching
  <1>2. boot.pc = from /\ boot'.pc = to /\ boot'.mode = boot.mode
    BY <1>1, BootMoves DEF RInv, Types
  <1>3. StartFits'
    BY <1>2 DEF StartFits, Reaching, Late
  <1>4. \A s \in Drivers : ~conn[s].current
    BY <1>2 DEF UInv, LinksFit, Disconnected, Leaving
  <1>5. from # "purge" => boot.mode = "unload"
    BY <1>2 DEF UInv, ModesFit, Leaving
  <1>6. boot.mode = "unload" /\ to # "running" => ModesFit'
    BY <1>2 DEF ModesFit, Starting, Late, Reaching
  <1> QED
    BY <1>2, <1>3, <1>4, <1>5, <1>6

LEMMA WaitKeepsAll ==
  ASSUME RInv, UInv, WaitForDisconnection
  PROVE  UInv'
  <1>1. UNCHANGED <<up, conn, event, global, dev, type, req, at>>
    BY DEF WaitForDisconnection
  <1>2. ASSUME NEW s \in Drivers, event[s], NEW from, NEW to, BootTo(from, to),
               \/ s = "pnp" /\ from = "wait pnp" /\ to = "wait hook"
               \/ s = "hook" /\ from = "wait hook" /\ to = "close"
        PROVE  UInv'
    <2>1. /\ boot.pc = from /\ boot'.pc = to /\ boot'.mode = boot.mode /\ StartFits'
          /\ \A o \in Drivers : ~conn[o].current
          /\ boot.mode = "unload" /\ ModesFit'
      BY <1>2, UnloadMoves, UnloadPlaces
    <2>2. conn[s].refs = 0
      BY <1>2 DEF UInv, ConnectionsAreExact
    <2>3. \A o \in Drivers : Waited(o)' => o = s \/ Waited(o)
      BY <1>2, <2>1 DEF Waited, Before, Purging, Late, Drivers
    <2>4. LinksFit'
      BY <1>1, <2>1, <2>2, <2>3 DEF UInv, LinksFit
    <2>5. LockFits'
      BY <1>1, <1>2, <2>1 DEF UInv, LockFits, Purging, Late
    <2>6. PartsStay'
      BY <1>1, PartsAreLeft DEF UInv, PartsStay
    <2>7. ItemsEnd'
      BY <1>2, <2>1 DEF ItemsEnd
    <2> QED
      BY <1>1, <1>2, <2>1, <2>4, <2>5, <2>6, <2>7, QuietBoot DEF Ending
  <1> QED
    BY <1>2 DEF WaitForDisconnection, Drivers

LEMMA ClosingKeepsAll ==
  ASSUME RInv, UInv, ReleaseRemoveLock
  PROVE  UInv'
  <1>1. /\ UNCHANGED <<up, conn, event, dev, type, req, at>> /\ global' = Closed(global)
        /\ BootTo("close", "drain")
    BY DEF ReleaseRemoveLock
  <1>2. /\ boot.pc = "close" /\ boot'.pc = "drain" /\ boot'.mode = boot.mode /\ StartFits'
        /\ boot.mode = "unload" /\ ModesFit'
    BY <1>1, UnloadMoves, UnloadPlaces
  <1>3. LinksFit'
    BY <1>1, <1>2 DEF UInv, LinksFit, Disconnected, Waited, Purging, Late
  <1>4. global \in Locks
    BY DEF RInv, Types, LinkTypes
  <1>5. /\ global'.count = global.count - 2 /\ global'.removed
        /\ global'.signalled = global.signalled
    BY <1>1, <1>4, LockBecomes
  <1>6. ~global.removed
    BY <1>2 DEF UInv, LockFits, Purging, Late
  <1>7. GlobalIsExact'
    <2> DEFINE c == Cardinality(Holders)
    <2>1. c \in Nat /\ global.count = 2 + c /\ ~global.signalled /\ Cardinality(Holders') = c
      BY <1>1, <1>6, CountedSetsAreFinite, NobodyMoves DEF UInv, GlobalIsExact
    <2>2. global'.count = 0 + Cardinality(Holders') /\ ~global'.signalled
      <3> HIDE DEF c
      <3> QED
        BY <1>5, <2>1
    <2> QED
      BY <1>5, <2>2 DEF GlobalIsExact
  <1>8. LockFits'
    BY <1>2, <1>5 DEF LockFits, Purging, Late
  <1>9. PartsStay' /\ ItemsEnd'
    BY <1>1, <1>2, PartsAreLeft DEF UInv, PartsStay, ItemsEnd
  <1>10. ConnectionsAreExact' /\ TypeIsExact' /\ DeletersStay'
    BY <1>1, <1>2, LinksAreLeft, TypeIsKept, DeletersAreLeft DEF Ending
  <1> QED
    BY <1>2, <1>3, <1>7, <1>8, <1>9, <1>10 DEF UInv

LEMMA DrainingKeepsAll ==
  ASSUME RInv, UInv, WaitForRemoveLock
  PROVE  UInv'
  <1>1. /\ UNCHANGED <<up, conn, event, global, dev, type, req, at>> /\ Drained(global)
        /\ BootTo("drain", "purge")
    BY DEF WaitForRemoveLock
  <1>2. /\ boot.pc = "drain" /\ boot'.pc = "purge" /\ boot'.mode = boot.mode /\ StartFits'
        /\ boot.mode = "unload" /\ ModesFit'
    BY <1>1, UnloadMoves, UnloadPlaces
  <1>3. LinksFit'
    BY <1>1, <1>2 DEF UInv, LinksFit, Disconnected, Waited, Purging, Late
  <1>4. global.removed
    BY <1>2 DEF UInv, LockFits
  <1>5. Cardinality(Holders') = 0
    <2> DEFINE c == Cardinality(Holders)
    <2>1. c \in Nat /\ global.count = 0 + c /\ Cardinality(Holders') = c
          /\ (global.signalled => c = 0)
      BY <1>1, <1>4, CountedSetsAreFinite, NobodyMoves DEF UInv, GlobalIsExact
    <2>2. global.count <= 0 \/ global.signalled
      BY <1>1 DEF Drained
    <2> HIDE DEF c
    <2> QED
      BY <2>1, <2>2
  <1>6. LockFits'
    BY <1>1, <1>2, <1>4, <1>5 DEF LockFits, Purging
  <1>7. PartsStay' /\ ItemsEnd'
    BY <1>1, <1>2, PartsAreLeft DEF UInv, PartsStay, ItemsEnd
  <1> QED
    BY <1>1, <1>2, <1>3, <1>6, <1>7, QuietBoot DEF Ending

LEMMA CleanersKeepAll ==
  ASSUME RInv, UInv, (\E d \in Devices : PurgeDevice(d)) \/ PurgedDeviceIsCleanedUp,
         ~Busy(<<"boot">>)
  PROVE  UInv'
  <1>1. /\ UNCHANGED <<up, conn, event, global, type, req, at>>
        /\ boot \in BootRecords /\ boot'.mode = boot.mode
        /\ \/ boot.pc = "purge" /\ boot'.pc = "cleaned"
           \/ boot.pc = "cleaned" /\ boot'.pc = "purge"
    <2>1. boot \in BootRecords
      BY DEF RInv, Types, BootTypes, BootRecords
    <2> QED
      BY <2>1 DEF PurgeDevice, PurgedDeviceIsCleanedUp, BootRecords
  <1>2. \A d \in Devices :
          \/ dev'[d].obj = dev[d].obj /\ dev'[d].by = dev[d].by
          \/ /\ dev[d].obj = "live" /\ dev'[d].obj = "dying"
             /\ dev'[d].by = <<"boot">> /\ boot'.pc = "purge"
    <2>1. ASSUME NEW e \in Devices, PurgeDevice(e)
          PROVE  \A d \in Devices : dev'[d].obj = dev[d].obj /\ dev'[d].by = dev[d].by
      BY <2>1, RemovalIs DEF PurgeDevice, Becomes, RInv, Types
    <2>2. ASSUME PurgedDeviceIsCleanedUp
          PROVE  \A d \in Devices :
                   \/ dev'[d].obj = dev[d].obj /\ dev'[d].by = dev[d].by
                   \/ /\ dev[d].obj = "live" /\ dev'[d].obj = "dying"
                      /\ dev'[d].by = <<"boot">> /\ boot'.pc = "purge"
      <3>1. boot.pc = "cleaned" /\ Dereference(boot.dev, <<"boot">>)
        BY <2>2 DEF PurgedDeviceIsCleanedUp
      <3>2. boot.dev \in Devices
        BY <3>1 DEF RInv, Types, BootTypes, Alive
      <3>3. PICK e \in Devices : e = boot.dev
        BY <3>2
      <3>4. dev[e].refs > 0 /\ dev[e].obj = "live"
        BY <3>3, UsedDevicesLive DEF RInv, Alive
      <3>5. References(e, -1, <<"boot">>)
        BY <3>1, <3>3, <3>4, DereferenceTakes DEF RInv, Types, Deleters
      <3>6. boot'.pc = "purge"
        BY <1>1, <3>1
      <3> QED
        BY <3>5, <3>6 DEF References
    <2> QED
      BY <2>1, <2>2
  <1>3. ModesFit' /\ StartFits' /\ ItemsEnd'
    BY <1>1 DEF UInv, ModesFit, StartFits, ItemsEnd, Starting, Late
  <1>4. LinksFit'
    BY <1>1 DEF UInv, LinksFit, Disconnected, Waited, Before, Purging, Late
  <1>5. LockFits' /\ GlobalIsExact'
    BY <1>1, LockIsKept, NobodyMoves DEF UInv, LockFits, Purging, Late
  <1>6. PartsStay'
    BY <1>1, PartsAreLeft DEF UInv, PartsStay
  <1>7. ConnectionsAreExact' /\ TypeIsExact'
    BY <1>1, <1>2, LinksAreLeft, TypeIsKept DEF Ending
  <1>8. DeletersStay'
    BY <1>1, <1>2, DeletersAreLeft
  <1> QED
    BY <1>3, <1>4, <1>5, <1>6, <1>7, <1>8 DEF UInv

\* The steps of the unload after the devices have been cleaned up.
LEMMA EndingKeepsAll ==
  ASSUME RInv, UInv, NEW from \in Leaving, NEW to \in Late, BootTo(from, to),
         from \in Late \/ (from = "purge" /\ boot.mode = "unload"),
         UNCHANGED <<conn, event, global, dev, req, at>>
  PROVE  /\ boot.pc = from /\ boot'.pc = to
         /\ ModesFit' /\ StartFits' /\ LinksFit' /\ LockFits'
         /\ ConnectionsAreExact' /\ GlobalIsExact'
         /\ \A s \in Drivers : conn[s].refs = 0 /\ ~conn[s].current
  <1>1. to \in Reaching /\ to # "running" /\ (from # "purge" <=> from \in Late)
    BY DEF Reaching, Late
  <1>2. /\ boot.pc = from /\ boot'.pc = to /\ boot'.mode = boot.mode /\ StartFits'
        /\ \A s \in Drivers : ~conn[s].current
        /\ boot.mode = "unload" /\ ModesFit'
    BY <1>1, UnloadMoves
  <1>3. Purging /\ Purging'
    BY <1>2 DEF Purging
  <1>4. \A s \in Drivers : conn[s].refs = 0
    BY <1>3 DEF UInv, LinksFit, Waited
  <1>5. LinksFit'
    BY <1>2, <1>4 DEF LinksFit
  <1>6. LockFits'
    BY <1>3, NobodyMoves DEF UInv, LockFits
  <1> QED
    BY <1>2, <1>4, <1>5, <1>6, LinksAreLeft, LockIsKept

LEMMA LatePlaces ==
  \A p \in {"types", "mark type", "await type", "delete pools", "delete lists", "down"} : p \in Late
  BY DEF Late

LEMMA PurgedKeepsAll ==
  ASSUME RInv, UInv, Purged, ~Busy(<<"boot">>)
  PROVE  UInv'
  <1>1. /\ UNCHANGED <<conn, event, global, dev, type, req, at>>
        /\ BootTo("purge", IF boot.mode = "unload" THEN "types" ELSE "running")
        /\ up' = IF boot.mode = "unload" THEN up \ {"hashes"} ELSE up
    BY DEF Purged
  <1>2. CASE boot.mode = "unload"
    <2>1. BootTo("purge", "types") /\ up' = up \ {"hashes"}
      BY <1>1, <1>2
    <2>2. /\ boot.pc = "purge" /\ boot'.pc = "types"
          /\ ModesFit' /\ StartFits' /\ LinksFit' /\ LockFits'
          /\ \A s \in Drivers : conn[s].refs = 0 /\ ~conn[s].current
      BY <1>1, <1>2, <2>1, UnloadPlaces, LatePlaces, EndingKeepsAll
    <2>3. PartsStay'
      BY <1>1, <2>1, <2>2 DEF UInv, PartsStay
    <2>4. ItemsEnd'
      BY <2>2 DEF ItemsEnd
    <2> QED
      BY <1>1, <2>2, <2>3, <2>4, QuietBoot DEF Ending
  <1>3. CASE boot.mode # "unload"
    <2>1. BootTo("purge", "running") /\ up' = up
      BY <1>1, <1>3
    <2>2. /\ boot.pc = "purge" /\ boot'.pc = "running" /\ boot'.mode = boot.mode /\ StartFits'
      BY <2>1, UnloadPlaces, UnloadMoves
    <2>3. ModesFit' /\ ItemsEnd'
      BY <1>3, <2>2 DEF UInv, ModesFit, ItemsEnd, Starting, Late
    <2>4. LinksFit'
      BY <2>2 DEF LinksFit, Disconnected, Waited, Before, Purging, Late
    <2>5. LockFits'
      BY <1>1, <1>3, <2>2 DEF UInv, LockFits, Purging, Late
    <2>6. PartsStay'
      BY <1>1, <2>1, PartsAreLeft DEF UInv, PartsStay
    <2> QED
      BY <1>1, <2>2, <2>3, <2>4, <2>5, <2>6, QuietBoot DEF Ending
  <1> QED
    BY <1>2, <1>3

LEMMA TypeKeepsAll ==
  ASSUME RInv, UInv, DeleteObjectType \/ MarkForDeletion \/ WaitForDeviceType
  PROVE  UInv'
  <1>1. UNCHANGED <<up, conn, event, global, dev, req, at>>
    BY DEF DeleteObjectType, MarkForDeletion, WaitForDeviceType
  <1>2. type \in [count : Int, marked : BOOLEAN, deleted : BOOLEAN]
    BY DEF RInv, Types, DevTypes
  <1>3. ASSUME NEW from \in Leaving, NEW to \in Late, BootTo(from, to), from \in Late,
               to \notin {"delete lists", "down"}, TypeIsExact'
        PROVE  UInv'
    <2>1. /\ boot.pc = from /\ boot'.pc = to
          /\ ModesFit' /\ StartFits' /\ LinksFit' /\ LockFits'
          /\ ConnectionsAreExact' /\ GlobalIsExact'
      BY <1>1, <1>3, EndingKeepsAll
    <2>2. PartsStay' /\ ItemsEnd'
      BY <1>1, <1>3, <2>1, PartsAreLeft DEF UInv, PartsStay, ItemsEnd
    <2>3. DeletersStay'
      BY <1>1, <1>3, <2>1, DeletersAreLeft DEF Late
    <2> QED
      BY <1>3, <2>1, <2>2, <2>3 DEF UInv
  <1>4. Existing' = Existing
    BY <1>1 DEF Existing
  <1>5. ASSUME NEW from, NEW to \in BootPoints, BootTo(from, to)
        PROVE  boot.pc = from /\ boot'.pc = to
    BY <1>5, BootMoves DEF RInv, Types
  <1>6. CASE type.count = 0 /\ BootTo("types", "await type") /\ DeleteDeviceObjectType
    <2>1. boot'.pc = "await type"
      BY <1>5, <1>6, BootPlaces, LatePlaces
    <2>2. type'.deleted /\ type'.count = 0
      BY <1>2, <1>6 DEF DeleteDeviceObjectType
    <2>3. TypeIsExact'
      BY <1>4, <1>6, <2>1, <2>2 DEF UInv, TypeIsExact, Ending
    <2> QED
      BY <1>3, <1>6, <2>3, UnloadPlaces, LatePlaces
  <1>7. CASE BootTo("types", "mark type") /\ UNCHANGED type
    <2>1. boot.pc = "types" /\ boot'.pc = "mark type"
      BY <1>5, <1>7, BootPlaces, LatePlaces
    <2>2. TypeIsExact'
      BY <1>4, <1>7, <2>1 DEF UInv, TypeIsExact, Ending
    <2> QED
      BY <1>3, <1>7, <2>2, UnloadPlaces, LatePlaces
  <1>8. CASE BootTo("mark type", "await type") /\ type' = [type EXCEPT !.marked = TRUE]
    <2>1. boot.pc = "mark type" /\ boot'.pc = "await type"
      BY <1>5, <1>8, BootPlaces, LatePlaces
    <2>2. type'.deleted = type.deleted /\ type'.count = type.count
      BY <1>2, <1>8
    <2>3. TypeIsExact'
      BY <1>4, <2>1, <2>2 DEF UInv, TypeIsExact, Ending
    <2> QED
      BY <1>3, <1>8, <2>3, UnloadPlaces, LatePlaces
  <1>9. CASE type.deleted /\ BootTo("await type", "delete pools") /\ UNCHANGED type
    <2>1. boot.pc = "await type" /\ boot'.pc = "delete pools"
      BY <1>5, <1>9, BootPlaces, LatePlaces
    <2>2. TypeIsExact'
      BY <1>4, <1>9, <2>1 DEF UInv, TypeIsExact, Ending
    <2> QED
      BY <1>3, <1>9, <2>2, UnloadPlaces, LatePlaces
  <1> QED
    BY <1>6, <1>7, <1>8, <1>9 DEF DeleteObjectType, MarkForDeletion, WaitForDeviceType

\* A device whose type is deleted is in nobody's use.
LEMMA NoItemIsQueued ==
  ASSUME RInv, UInv, type.deleted, NEW r \in Requests
  PROVE  at[r]["item"] # "queued"
  <1> SUFFICES ASSUME at[r]["item"] = "queued"
               PROVE  FALSE
    OBVIOUS
  <1>1. dev[Dev(r)].obj = "live" /\ Dev(r) \in Devices
    BY ItemUses, PlacesOf DEF InContext
  <1>2. Existing # {}
    BY <1>1 DEF Existing
  <1>3. Cardinality(Existing) = 0
    BY DEF UInv, TypeIsExact
  <1> QED
    BY <1>2, <1>3, CountedSetsAreFinite

LEMMA PoolsKeepAll ==
  ASSUME RInv, UInv, DeleteThreadPools \/ UnInitializeSubsystems
  PROVE  UInv'
  <1>1. UNCHANGED <<conn, event, global, dev, type, req, at>>
    BY DEF DeleteThreadPools, UnInitializeSubsystems
  <1>2. ASSUME NEW from \in Leaving, NEW to \in Late, BootTo(from, to),
               from \in {"delete pools", "delete lists"}, to \in {"delete lists", "down"},
               \A r \in Requests : ~Working(at[r]), NEW part \in {"pools", "lists"}, up' = up \ {part}
        PROVE  UInv'
    <2>1. /\ boot.pc = from /\ boot'.pc = to
          /\ ModesFit' /\ StartFits' /\ LinksFit' /\ LockFits'
          /\ \A s \in Drivers : conn[s].refs = 0 /\ ~conn[s].current
      <3>1. from \in Late
        BY <1>2, LatePlaces
      <3> QED
        BY <1>1, <1>2, <3>1, EndingKeepsAll
    <2>2. PartsStay'
      <3>1. "exports" \in up => "exports" \in up'
        BY <1>2
      <3>2. \A s : ~(s \in Drivers /\ conn'[s].refs > 0)
        BY <1>1, <2>1
      <3>3. "collected" \in up' => "exports" \in up'
        <4>1. "collected" \in up => "exports" \in up
          BY DEF UInv, PartsStay
        <4> QED
          BY <1>2, <3>1, <4>1
      <3>4. ~conn'["hook"].current
        BY <1>1, <2>1 DEF Drivers
      <3>5. ASSUME NEW r \in Requests
            PROVE  /\ ~Working(at'[r])
                   /\ Filtered(req'[r].kind, at'[r]) => "exports" \in up'
        <4>1. Filtered(req[r].kind, at[r]) => "exports" \in up
          BY DEF UInv, PartsStay
        <4> QED
          BY <1>1, <1>2, <3>1, <4>1
      <3> QED
        BY <3>2, <3>3, <3>4, <3>5 DEF PartsStay
    <2>3. ItemsEnd'
      <3> SUFFICES ASSUME NEW r \in Requests
                   PROVE  at[r]["item"] \in {"none", "out"} /\ at[r]["citem"] \in {"none", "out"}
        BY <1>1 DEF ItemsEnd
      <3> QED
        BY <1>2, PlacesOf DEF Working, PlacesFit, Roles, Hooks
    <2>4. type.deleted
      BY <1>2, <2>1 DEF UInv, TypeIsExact
    <2>5. from # "purge" /\ to \in Ending
      BY <1>2 DEF Ending
    <2> QED
      BY <1>1, <2>1, <2>2, <2>3, <2>4, <2>5, QuietBoot
  <1>3. CASE DeleteThreadPools
    <2>1. /\ BootTo("delete pools", "delete lists") /\ up' = up \ {"pools"}
          /\ \A r \in Requests, role \in {"item", "citem"} :
               at[r][role] \in {"none", "queued", "out"}
      BY <1>3 DEF DeleteThreadPools
    <2>2. boot.pc = "delete pools"
      BY <2>1, BootPlaces, LatePlaces, BootMoves DEF RInv, Types
    <2>3. type.deleted
      BY <2>2 DEF UInv, TypeIsExact
    <2>4. ASSUME NEW r \in Requests
          PROVE  ~Working(at[r])
      <3>1. ~Inside(at[r]) /\ ~HasCookie(at[r]) /\ ~Holds(at[r])
        BY <2>2, NobodyIsLate, LatePlaces
      <3>2. at[r]["item"] \in {"none", "out"}
        BY <2>1, <2>3, NoItemIsQueued
      <3>3. at[r]["citem"] \in {"none", "out"}
        BY <2>1, <3>1 DEF Holds
      <3> QED
        BY <3>1, <3>2, <3>3 DEF Inside, HasCookie, Working, Roles
    <2> QED
      BY <1>2, <2>1, <2>4, UnloadPlaces, LatePlaces
  <1>4. CASE UnInitializeSubsystems
    <2>1. BootTo("delete lists", "down") /\ up' = up \ {"lists"}
      BY <1>4 DEF UnInitializeSubsystems
    <2>2. boot.pc = "delete lists"
      BY <2>1, BootPlaces, LatePlaces, BootMoves DEF RInv, Types
    <2>3. \A r \in Requests : ~Working(at[r])
      BY <2>2, NobodyWorksAtTheEnd
    <2> QED
      BY <1>2, <2>1, <2>3, UnloadPlaces, LatePlaces
  <1> QED
    BY <1>3, <1>4

LEMMA UnloadKeepsAll ==
  ASSUME RInv, UInv, Unload, ~Busy(<<"boot">>)
  PROVE  UInv'
  BY DisconnectKeepsAll, WaitKeepsAll, ClosingKeepsAll, DrainingKeepsAll, CleanersKeepAll,
     PurgedKeepsAll, TypeKeepsAll, PoolsKeepAll DEF Unload

-----------------------------------------------------------------------------
(* The inductive invariant *)

LEMMA UInvInit ==
  ASSUME Init
  PROVE  UInv
  <1>1. /\ boot.pc = "lists" /\ boot.mode = "entry"
        /\ up = {} /\ global.count = 2 /\ ~global.removed /\ ~global.signalled
        /\ type = NewType
    BY DEF Init, NewLock
  <1>2. /\ \A s \in Drivers : ~conn[s].current /\ conn[s].refs = 0 /\ event[s]
        /\ \A d \in Devices : dev[d].obj = "none"
    BY DEF Init, NoDev
  <1>3. \A r \in Requests : at[r]["disp"] = "new" /\ \A o \in Roles \ {"disp"} : at[r][o] = "none"
    BY DEF Init, Roles
  <1>4. \A r \in Requests :
          /\ ~Inside(at[r]) /\ ~HasCookie(at[r]) /\ ~Holds(at[r]) /\ ~Working(at[r])
          /\ ~Filtered(req[r].kind, at[r])
    BY <1>3 DEF Inside, HasCookie, Holds, Working, Filtered, Roles, Early, Hooks
  <1>5. (\A s : Callers(s) = {}) /\ Cookies = {} /\ Holders = {} /\ Existing = {}
    BY <1>2, <1>4 DEF Callers, Cookies, Holders, Existing
  <1>6. /\ \A s : Cardinality(Callers(s)) = 0
        /\ Cardinality(Cookies) = 0 /\ Cardinality(Holders) = 0 /\ Cardinality(Existing) = 0
    BY <1>5, CountedSetsAreFinite
  <1>7. ModesFit /\ LinksFit /\ StartFits /\ ItemsEnd
    BY <1>1, <1>2 DEF ModesFit, LinksFit, StartFits, ItemsEnd, Starting, Late
  <1>8. LockFits /\ GlobalIsExact
    BY <1>1, <1>6 DEF LockFits, GlobalIsExact, Purging, Late
  <1>9. ConnectionsAreExact
    BY <1>2, <1>6 DEF ConnectionsAreExact
  <1>10. PartsStay
    BY <1>1, <1>2, <1>4 DEF PartsStay, Drivers
  <1>11. TypeIsExact
    BY <1>1, <1>6 DEF TypeIsExact, NewType, Ending
  <1>12. DeletersStay
    BY <1>2 DEF DeletersStay
  <1> QED
    BY <1>7, <1>8, <1>9, <1>10, <1>11, <1>12 DEF UInv

LEMMA UInvStep ==
  ASSUME RInv, UInv, [Next]_vars
  PROVE  UInv'
  <1>1. CASE UNCHANGED vars
    <2>1. UNCHANGED <<boot, up, conn, event, global, dev, type, req, at>>
      BY <1>1 DEF vars
    <2>2. ModesFit' /\ StartFits' /\ ItemsEnd' /\ LinksFit'
      BY <2>1 DEF UInv, ModesFit, StartFits, ItemsEnd, LinksFit, Disconnected, Waited, Purging
    <2>3. ConnectionsAreExact' /\ GlobalIsExact'
      BY <2>1, LinksAreLeft, LockIsKept
    <2>4. LockFits'
      BY <2>1, NobodyMoves DEF UInv, LockFits, Purging
    <2>5. PartsStay'
      BY <2>1, PartsAreLeft DEF UInv, PartsStay
    <2>6. Existing' = Existing
      BY <2>1 DEF Existing
    <2>7. TypeIsExact'
      BY <2>1, <2>6 DEF UInv, TypeIsExact
    <2>8. DeletersStay'
      <3>1. \A t : Deleter(t) => Deleter(t)'
        BY <2>1 DEF Deleter
      <3> SUFFICES ASSUME NEW d \in Devices, dev[d].obj \in {"dying", "counted"}
                   PROVE  Deleter(dev[d].by)'
        BY <2>1 DEF DeletersStay
      <3>2. Deleter(dev[d].by)
        BY DEF UInv, DeletersStay
      <3> QED
        BY <2>1, <3>2 DEF Deleter
    <2> QED
      BY <2>2, <2>3, <2>4, <2>5, <2>7, <2>8 DEF UInv
  <1>2. ASSUME NEW r \in Requests, Step(r)
        PROVE  UInv'
    BY <1>2, StepKeepsAll
  <1>3. ASSUME NEW r \in Requests, ReferenceCurrentConnectObject(r)
        PROVE  UInv'
    BY <1>3, CallKeepsAll
  <1>4. Deletion => UInv'
    BY DeletionKeepsAll
  <1>5. BootStep => UInv'
    BY EntryKeepsAll, UnloadKeepsAll DEF BootStep
  <1>6. QueryUnload \/ DriverUnload => UInv'
    BY BeginningKeepsAll
  <1> QED
    BY <1>1, <1>2, <1>3, <1>4, <1>5, <1>6 DEF Next

LEMMA UInvariant == Spec => [](RInv /\ UInv)
  <1>1. Init => UInv
    BY UInvInit
  <1>2. RInv /\ UInv /\ [Next]_vars => UInv'
    BY UInvStep
  <1> QED
    BY <1>1, <1>2, RInvariant, PTL DEF Spec

-----------------------------------------------------------------------------
(* What it says *)

LEMMA TypesHold ==
  ASSUME RInv, UInv
  PROVE  TypeOK
  <1>1. /\ boot.mode \in {"entry", "query", "unload"} /\ up \subseteq Parts
        /\ event \in [Drivers -> BOOLEAN] /\ at \in [Requests -> [Roles -> Points]]
        /\ ret \in [Requests -> SUBSET {"disp", "item"}] /\ sent \in [Requests -> Nat]
    BY DEF RInv, Types, BootTypes, LinkTypes, ReqTypes, Modes
  <1>2. \A s \in Drivers : conn[s].current \in BOOLEAN /\ conn[s].refs \in Nat
    BY NobodyCalls DEF RInv, Types, LinkTypes
  <1>3. global.count \in Nat
    BY CountedSetsAreFinite DEF UInv, GlobalIsExact
  <1>4. type.count \in Nat
    BY CountedSetsAreFinite DEF UInv, TypeIsExact
  <1>5. ASSUME NEW d \in Devices
        PROVE  /\ dev[d].obj \in {"none", "live", "dying", "counted", "gone"}
               /\ dev[d].refs \in Nat
               /\ dev[d].refs > 0 <=> dev[d].obj = "live"
               /\ dev[d].hashed => dev[d].obj = "live"
    BY UsedDevicesLive DEF RInv, Types, DevTypes, DevRecords, Alive
  <1> QED
    BY <1>1, <1>2, <1>3, <1>4, <1>5 DEF TypeOK

\* A request is at work only when something that is counted says so.
LEMMA NeedsAreMet ==
  ASSUME RInv, UInv
  PROVE  UsersHaveWhatTheyNeed
  <1> SUFFICES ASSUME NEW r \in Requests, NEW role \in Roles
               PROVE  Needs(role, at[r][role]) \subseteq up
    BY DEF UsersHaveWhatTheyNeed
  <1>1. PlacesFit(req[r].kind, at[r])
    BY PlacesOf
  <1>2. Inside(at[r]) => AllParts \subseteq up
    BY NobodyCalls, SourceIsDriver DEF UInv, PartsStay
  <1>3. Working(at[r]) => {"lists", "pools"} \subseteq up
    BY DEF UInv, PartsStay
  <1>4. Filtered(req[r].kind, at[r]) => "exports" \in up
    BY DEF UInv, PartsStay
  <1>5. at[r][role] \in {"context", "cookie", "unhook"} => "exports" \in up
    BY <1>1, <1>4 DEF PlacesFit, Filtered, Early, Hooks, Roles
  <1>6. CASE role = "disp" /\ at[r]["disp"] \in {"in", "insert", "remove"} \cup Early
    <2>1. AllParts \subseteq up
      BY <1>2, <1>6 DEF Inside, Early, Hooks
    <2> QED
      BY <1>5, <1>6, <2>1 DEF Needs, AllParts
  <1>7. CASE role = "disp" /\ at[r]["disp"] \notin {"in", "insert", "remove"} \cup Early
    BY <1>7 DEF Needs, Early, Hooks
  <1>8. CASE role # "disp"
    <2>1. at[r][role] \notin {"none", "out"} => {"lists", "pools"} \subseteq up
      BY <1>1, <1>3, <1>8 DEF Working, PlacesFit, Roles, Hooks
    <2> QED
      BY <1>5, <1>8, <2>1 DEF Needs
  <1> QED
    BY <1>6, <1>7, <1>8

(***************************************************************************)
(* Whatever the requests do and whatever fails: the hash of devices, the   *)
(* thread pools and the lookaside lists are there for every thread that    *)
(* comes to use them, from the first callback after DriverEntry has        *)
(* connected the driver (init.c:777) until DriverUnload deletes them       *)
(* (init.c:932, 988-1063); no completion is hooked before the functions of *)
(* the hooker are known (iomngr.c:766); and the references of a device are *)
(* exactly those of its users.                                             *)
(***************************************************************************)
THEOREM DriverIsSafe ==
  Spec => []DriverInvariant
  <1>1. RInv /\ UInv => DriverInvariant
    BY TypesHold, NeedsAreMet DEF RInv, DriverInvariant
  <1> QED
    BY <1>1, UInvariant, PTL

(***************************************************************************)
(* When DriverUnload has come to its end no callback, no work item and no  *)
(* completion of any request is in the code of the driver, and every       *)
(* device object it had is gone (init.c:1133-1147, 866, 977-1063).         *)
(***************************************************************************)
THEOREM CodeIsLeft ==
  Spec => []CodeOutlivesItsCallers
  <1>1. ASSUME RInv, UInv, boot.pc = "down", NEW r \in Requests
        PROVE  /\ at[r]["disp"] \in {"new", "out"}
               /\ \A role \in Roles \ {"disp"} : at[r][role] \in {"none", "out"}
    <2>1. ~Working(at[r])
      BY <1>1, NobodyWorksAtTheEnd
    <2>2. PlacesFit(req[r].kind, at[r])
      BY <1>1, PlacesOf
    <2> QED
      BY <2>1, <2>2 DEF Working, PlacesFit, Early, Hooks, Served, Roles
  <1>2. ASSUME RInv, UInv, boot.pc = "down", NEW d \in Devices
        PROVE  dev[d].obj \in {"none", "gone"}
    <2>1. Cardinality(Existing) = 0
      BY <1>2 DEF UInv, TypeIsExact
    <2>2. dev[d].obj \notin {"live", "dying"}
      BY <2>1, CountedSetsAreFinite DEF Existing
    <2>3. ~Deleter(dev[d].by)
      BY <1>1, <1>2 DEF Deleter, Inside, Roles
    <2>4. dev[d].obj # "counted"
      BY <1>2, <2>3 DEF UInv, DeletersStay
    <2>5. dev[d].obj \in {"none", "live", "dying", "counted", "gone"}
      BY <1>2 DEF RInv, Types, DevTypes, DevRecords
    <2> QED
      BY <2>2, <2>4, <2>5
  <1>3. RInv /\ UInv => CodeOutlivesItsCallers
    BY <1>1, <1>2 DEF CodeOutlivesItsCallers
  <1> QED
    BY <1>3, UInvariant, PTL

=============================================================================
