--------------------------- MODULE DeviceDatabase ---------------------------
(***************************************************************************)
(* The device database of the core driver: an object for every device that *)
(* the PnP filter reported, that was found in relations of another device  *)
(* or that lies in the middle of a known stack.  The hash finds an object  *)
(* by its kernel device and has a reference to it, an object of an upper   *)
(* device points to that of its PDO, which lists some of the upper ones,   *)
(* the objects of a parent and of its children point to each other, and    *)
(* all objects are in Global.DevObjListHead, which a work item walks to    *)
(* find the parent of a new device.                                        *)
(*                                                                         *)
(* Devices are of PnP, one type of relations is kept, the objects for      *)
(* properties, types and names are left out, as is the search for the FDO. *)
(***************************************************************************)
EXTENDS Integers, Sequences, FiniteSets

CONSTANTS
  Threads,
  Workers,   \* the threads of the pool that look for parents
  Devices,   \* the kernel's device objects
  Pdos,      \* those that are the lowest of their stacks
  Filters,   \* those the PnP filter attached
  Boot,      \* a sequence of pairs of a PDO and the filter device above it that are known at first
  Eligible,  \* the PDOs whose enumerator ends the search for a parent
  Removal,   \* the removal relations that the drivers report for a PDO
  Scripts,   \* what each thread may do: sequences of operations
  MaxObjs,   \* the objects that are ever made
  Faults     \* what may fail

ASSUME DeviceDatabaseAssumption ==
  /\ Workers \subseteq Threads
  /\ Pdos \subseteq Devices /\ Filters \subseteq Devices \ Pdos /\ Eligible \subseteq Pdos
  /\ Boot \in Seq(Pdos \X Filters)
  /\ Removal \in [Pdos -> Seq(Pdos)]
  /\ MaxObjs \in Nat /\ 2 * Len(Boot) <= MaxObjs
  /\ Scripts \in [Threads -> SUBSET Seq([do : {"new", "state", "relations", "middle", "purge"},
                                        low : Devices, up : SUBSET Devices, init : BOOLEAN,
                                        state : {"NotStarted", "Started", "Deleted"},
                                        rels : Seq(Pdos)])]
  /\ Faults \subseteq {"create", "insert", "property", "post", "pool"}

VARIABLES
  obj,      \* the device objects of the core driver
  hash,     \* Global.PtrDeviceHashObject
  list,     \* Global.DevObjListHead
  owner,    \* Global.DeviceHashResource
  items,    \* the work items for OcCrFindParentDeviceWR
  present,  \* the kernel's devices that exist
  th,       \* the threads
  broken    \* which defects of the code the behaviour ran into

vars == <<obj, hash, list, owner, items, present, th, broken>>

Objs == 1..MaxObjs
Nobody == 0

\* A pointer that may be NULL is the set of what it points to; among objects, 0.
Null      == {}
Only(ptr) == CHOOSE s \in ptr : TRUE

NoObj == [life |-> "none", dev |-> CHOOSE d \in Devices : TRUE, refs |-> 0, pdo |-> 0,
          ups |-> <<>>, linked |-> FALSE, from |-> 0, rels |-> <<>>, state |-> "NotStarted",
          prop |-> FALSE, crippled |-> FALSE, checked |-> FALSE, holders |-> 0, removed |-> FALSE]
Idle  == [pc |-> "next", x |-> 0, y |-> 0, s |-> 0, r |-> 0, p |-> 0, np |-> 0, nu |-> 0, old |-> 0, lock |-> 0,
          low |-> NoObj.dev, up |-> Null, init |-> FALSE, prop |-> FALSE, dev |-> NoObj.dev,
          state |-> "NotStarted", rdev |-> NoObj.dev, todo |-> <<>>, kids |-> <<>>, found |-> FALSE,
          left |-> {}, ret |-> [new |-> "", state |-> "", rel |-> ""],
          stack |-> <<>>, drop |-> <<>>, ops |-> <<>>]

IsPdo(x) == obj[x].dev \in Pdos

TypeOK ==
  /\ \A x \in Objs : /\ obj[x].life \in {"none", "live", "freed"}
                     /\ obj[x].refs \in Int /\ obj[x].holders \in Nat
                     /\ obj[x].pdo \in Objs \cup {0} /\ obj[x].from \in Objs \cup {0}
                     /\ obj[x].ups # <<>> => IsPdo(x)
  /\ \A d \in Devices : hash[d] # 0 => obj[hash[d]].dev = d
  /\ \A i, j \in DOMAIN list : list[i] = list[j] => i = j
  /\ owner \in Threads \cup {Nobody}

BootObj(x) ==
  LET b == Boot[(x + 1) \div 2] IN
  IF x % 2 = 1 THEN [NoObj EXCEPT !.life = "live", !.dev = b[1], !.refs = 2, !.state = "Started",
                                  !.prop = TRUE, !.checked = TRUE]
               ELSE [NoObj EXCEPT !.life = "live", !.dev = b[2], !.refs = 1, !.state = "Started",
                                  !.pdo = x - 1]
BootObjs == 1..2 * Len(Boot)

Init ==
  /\ obj = [x \in Objs |-> IF x \in BootObjs THEN BootObj(x) ELSE NoObj]
  /\ hash = [d \in Devices |-> IF \E x \in BootObjs : BootObj(x).dev = d
                               THEN CHOOSE x \in BootObjs : BootObj(x).dev = d ELSE 0]
  /\ list = [i \in BootObjs |-> i]
  /\ owner = Nobody
  /\ items = <<>>
  /\ present = {BootObj(x).dev : x \in BootObjs}
  /\ broken = {}
  /\ \E script \in [Threads -> UNION {Scripts[t] : t \in Threads}] :
       /\ \A t \in Threads : script[t] \in Scripts[t]
       /\ th = [t \in Threads |-> [Idle EXCEPT !.ops = script[t]]]

-----------------------------------------------------------------------------
(* Threads and references *)

\* A thread that deletes objects or cleans them up does nothing else meanwhile.
At(t, pc)     == th[t].drop = <<>> /\ th[t].stack = <<>> /\ th[t].pc = pc
Op(t)         == Head(th[t].ops)
Begins(t, do) == At(t, "next") /\ th[t].ops # <<>> /\ Op(t).do = do
Goto(t, pc)   == th' = [th EXCEPT ![t].pc = pc]
Done(rec)     == [Idle EXCEPT !.ops = IF rec.ops = <<>> THEN <<>> ELSE Tail(rec.ops)]
Breaks(defect, when) == broken' = IF when THEN broken \cup {defect} ELSE broken

One(x) == IF x = 0 THEN <<>> ELSE <<x>>
Without(s, x) == SelectSeq(s, LAMBDA y : y # x)
Listed(x) == \E i \in DOMAIN list : list[i] = x
Referenced(o, x) == [o EXCEPT ![x].refs = @ + 1]

\* OcCrReturnPDO: no reference is made.
ReturnPDO(x) == IF ~IsPdo(x) /\ obj[x].pdo # 0 THEN obj[x].pdo ELSE x

\* OcObDereferenceObject and, with the last reference, OcCrDeleteDeviceObject:
\* the parent and the relations are given back.  The pointer to the PDO is not.
Dereference(t) ==
  /\ th[t].drop # <<>>
  /\ LET x == Head(th[t].drop)
         last == obj[x].refs = 1
     IN  /\ obj' = [obj EXCEPT ![x].refs = @ - 1, ![x].life = IF last THEN "freed" ELSE @,
                               ![x].from = IF last THEN 0 ELSE @,
                               ![x].rels = IF last THEN <<>> ELSE @]
         /\ th' = [th EXCEPT ![t].drop = Tail(@) \o IF last THEN One(obj[x].from) \o obj[x].rels
                                                    ELSE <<>>]
  /\ UNCHANGED <<hash, list, owner, items, present, broken>>

-----------------------------------------------------------------------------
(* The cleanup of an object that was taken out of the hash *)

Frame(x) == [x |-> x, at |-> "close", u |-> 0]
Top(t)   == th[t].stack[Len(th[t].stack)]
Cleans(t, at) == th[t].drop = <<>> /\ th[t].stack # <<>> /\ Top(t).at = at
Advance(t, at) == th' = [th EXCEPT ![t].stack[Len(th[t].stack)].at = at]
\* OcHsRemoveContextByKeyValue: whoever takes the object out calls the cleanup,
\* before it goes on.
RemoveFromHash(t, rec, d) ==
  /\ hash' = [hash EXCEPT ![d] = 0]
  /\ th' = [th EXCEPT ![t] = IF hash[d] = 0 THEN rec
                             ELSE [rec EXCEPT !.stack = Append(@, Frame(hash[d]))]]

CleanedUp(t, drop) ==
  th' = [th EXCEPT ![t].stack = SubSeq(@, 1, Len(@) - 1), ![t].drop = drop]

CleanupDevice(t) ==
  /\ Cleans(t, "close")
  /\ LET x == Top(t).x IN
     /\ obj' = [obj EXCEPT ![x].removed = TRUE]
     /\ Advance(t, IF obj[x].removed THEN "unlist" ELSE "wait")
  /\ UNCHANGED <<hash, list, owner, items, present, broken>>

\* Mutant: the holders of the remove lock are not waited for.
DoNotWait(t) ==
  /\ Cleans(t, "wait")
  /\ Advance(t, "unlist")
  /\ UNCHANGED <<obj, hash, list, owner, items, present, broken>>

ReleaseRemoveLockAndWait(t) ==
  /\ Cleans(t, "wait")
  /\ obj[Top(t).x].holders = 0
  /\ Advance(t, "unlist")
  /\ UNCHANGED <<obj, hash, list, owner, items, present, broken>>

RemoveFromList(t) ==
  /\ Cleans(t, "unlist")
  /\ list' = Without(list, Top(t).x)
  /\ Advance(t, "relations")
  /\ UNCHANGED <<obj, hash, owner, items, present, broken>>

\* A thread that climbs to the parent of an object has the object's RwSpinLock
\* between the read of the pointer and the reference.  The report of relations
\* exchanges the pointer with the lock of the new parent instead.
Climbing(x) == \E t \in Threads : th[t].pc = "hopped" /\ th[t].y = x
Swapping(x) == \E t \in Threads : th[t].pc = "swapped" /\ th[t].np = x
WriteLocked(x) == \E t \in Threads : th[t].pc = "swapped" /\ th[t].r = x

\* Mutant: the parent is forgotten and its reference with it.
ForgetParent(t) ==
  /\ Cleans(t, "relations")
  /\ ~Climbing(Top(t).x) /\ ~WriteLocked(Top(t).x)
  /\ LET x == Top(t).x
     IN  /\ obj' = [obj EXCEPT ![x].from = 0, ![x].rels = <<>>]
         /\ th' = [th EXCEPT ![t].stack[Len(th[t].stack)].at = "uppers", ![t].drop = obj[x].rels]
         /\ Breaks("swap", Swapping(x))
  /\ UNCHANGED <<hash, list, owner, items, present>>

RemoveDeviceRelations(t) ==
  /\ Cleans(t, "relations")
  /\ ~Climbing(Top(t).x) /\ ~WriteLocked(Top(t).x)
  /\ LET x == Top(t).x
     IN  /\ obj' = [obj EXCEPT ![x].from = 0, ![x].rels = <<>>]
         /\ th' = [th EXCEPT ![t].stack[Len(th[t].stack)].at = "uppers",
                             ![t].drop = One(obj[x].from) \o obj[x].rels]
         /\ Breaks("swap", Swapping(x))
  /\ UNCHANGED <<hash, list, owner, items, present>>

\* A PDO takes the upper objects out of its list, one by one and with no
\* reference to them, and an upper object takes itself out of the list.
PopUpperDevice(t) ==
  /\ Cleans(t, "uppers")
  /\ IsPdo(Top(t).x)
  /\ LET x == Top(t).x IN
     IF obj[x].ups = <<>> THEN /\ CleanedUp(t, <<x>>)
                               /\ UNCHANGED obj
     ELSE /\ obj' = [obj EXCEPT ![x].ups = Tail(@)]
          /\ th' = [th EXCEPT ![t].stack[Len(th[t].stack)].at = "popped",
                              ![t].stack[Len(th[t].stack)].u = Head(obj[x].ups)]
  /\ UNCHANGED <<hash, list, owner, items, present, broken>>

RemoveUpperDevice(t) ==
  /\ Cleans(t, "popped")
  /\ LET u == Top(t).u
         rec == [th[t] EXCEPT !.stack[Len(th[t].stack)].at = "uppers",
                              !.stack[Len(th[t].stack)].u = 0]
     IN  /\ obj' = [obj EXCEPT ![u].linked = FALSE]
         /\ RemoveFromHash(t, rec, obj[u].dev)
  /\ UNCHANGED <<list, owner, items, present, broken>>

\* The look whether it is in a list is before the lock of the list.
LookForLink(t) ==
  /\ Cleans(t, "uppers")
  /\ ~IsPdo(Top(t).x)
  /\ Advance(t, IF obj[Top(t).x].linked THEN "linked" ELSE "parent")
  /\ UNCHANGED <<obj, hash, list, owner, items, present, broken>>

\* An object that was taken from the list, and is not marked yet, would be
\* unlinked by pointers to what were its neighbours.
UnlinkFromPdo(t) ==
  /\ Cleans(t, "linked")
  /\ LET x == Top(t).x
         p == obj[x].pdo
     IN  /\ obj' = [obj EXCEPT ![x].linked = FALSE, ![p].ups = Without(@, x)]
         /\ Breaks("unlink", obj[x].linked /\ \A i \in DOMAIN obj[p].ups : obj[p].ups[i] # x)
  /\ Advance(t, "parent")
  /\ UNCHANGED <<hash, list, owner, items, present>>

\* With one of its upper objects the PDO goes out of the hash, too: a thread that
\* has the PDO locked waits for itself then.
RemovePdo(t) ==
  /\ Cleans(t, "parent")
  /\ LET x == Top(t).x
         p == obj[x].pdo
         rec == [th[t] EXCEPT !.stack[Len(th[t].stack)].at = "pdo"]
     IN  /\ RemoveFromHash(t, rec, obj[p].dev)
         /\ Breaks("self", hash[obj[p].dev] # 0 /\ hash[obj[p].dev] = th[t].lock)
  /\ UNCHANGED <<obj, list, owner, items, present>>

ForgetPdo(t) ==
  /\ Cleans(t, "pdo")
  /\ LET x == Top(t).x IN
     /\ obj' = [obj EXCEPT ![x].pdo = 0]
     /\ CleanedUp(t, <<obj[x].pdo, x>>)
  /\ UNCHANGED <<hash, list, owner, items, present, broken>>

-----------------------------------------------------------------------------
(* OcCrProcessNewPnPDevice: entries for a PDO and a device above it *)

\* np and nu have a reference each; the object for the device above, if there
\* is one, is what is returned in np.
CallProcessNew(rec, low, up, init, ret) ==
  [rec EXCEPT !.pc = "new", !.low = low, !.up = up, !.init = init, !.ret.new = ret]
ReturnNew(rec) ==
  [rec EXCEPT !.pc = rec.ret.new, !.np = IF rec.nu # 0 THEN rec.nu ELSE @, !.nu = 0,
              !.drop = @ \o IF rec.nu # 0 THEN <<rec.np>> ELSE <<>>]

Fresh == {x \in Objs : obj[x].life = "none" /\ \A y \in 1..(x - 1) : obj[y].life # "none"}
LowerDone(rec) == [rec EXCEPT !.pc = IF rec.up = Null THEN "entered" ELSE "upper"]

\* A device whose object has been taken out of the hash before.
Known(d) == \E x \in Objs : obj[x].dev = d /\ obj[x].removed

\* The properties of the PDO are queried before the lock is taken.  The driver of
\* a device is hooked before the device is looked for, the PnP filter's is not.
Queried(t) == IF ~th[t].init THEN {FALSE} ELSE {TRUE} \cup {f # "property" : f \in Faults \cap {"property"}}

ProcessNewPnPDevice(t) ==
  /\ At(t, "new")
  /\ owner = Nobody /\ owner' = t
  /\ LET d == th[t].low
         x == hash[d]
     IN \E prop \in Queried(t) :
     \/ /\ x # 0
        /\ obj' = Referenced(obj, x)
        /\ th' = [th EXCEPT ![t] = LowerDone([@ EXCEPT !.np = x, !.prop = prop])]
        /\ UNCHANGED <<hash, broken>>
     \/ \E new \in Fresh :
        /\ x = 0
        /\ obj' = [obj EXCEPT ![new] = [NoObj EXCEPT !.life = "live", !.dev = d, !.refs = 2, !.crippled = TRUE]]
        /\ hash' = [hash EXCEPT ![d] = new]
        /\ th' = [th EXCEPT ![t].np = new, ![t].prop = prop, ![t].pc = "enlist"]
        /\ Breaks("ghost", Known(d) /\ th[t].ret.new # "reported")
     \/ /\ "create" \in Faults
        /\ Goto(t, "failed")
        /\ UNCHANGED <<obj, hash, broken>>
  /\ UNCHANGED <<list, items, present>>

\* The new object of an upper device points to the PDO and all but the filter
\* devices are put into the PDO's list, before the hash finds them.
CreateUpperEntry(t) ==
  /\ At(t, "upper")
  /\ LET d == Only(th[t].up)
         x == hash[d]
         p == th[t].np
         links == d \notin Filters
     IN
     \/ /\ x # 0
        /\ obj' = Referenced(obj, x)
        /\ th' = [th EXCEPT ![t].nu = x, ![t].pc = "entered"]
     \/ \E new \in Fresh :
        /\ x = 0
        /\ obj' = [Referenced(obj, p) EXCEPT
                     ![new] = [NoObj EXCEPT !.life = "live", !.dev = d, !.refs = 1, !.pdo = p,
                                            !.linked = links],
                     ![p].ups = IF links THEN Append(@, new) ELSE @]
        /\ th' = [th EXCEPT ![t].nu = new, ![t].pc = "insert"]
     \/ /\ "create" \in Faults /\ (x = 0 \/ d \notin Filters)
        /\ Goto(t, "failed")
        /\ UNCHANGED obj
  /\ UNCHANGED <<hash, list, owner, items, present, broken>>

\* Mutant: the hash has no reference of its own.
InsertUnreferenced(t) ==
  /\ At(t, "insert")
  /\ hash' = [hash EXCEPT ![obj[th[t].nu].dev] = th[t].nu]
  /\ Goto(t, "enlist")
  /\ UNCHANGED <<obj, list, owner, items, present, broken>>

InsertInHash(t) ==
  /\ At(t, "insert")
  /\ LET x == th[t].nu IN
     \/ /\ hash' = [hash EXCEPT ![obj[x].dev] = x]
        /\ obj' = Referenced(obj, x)
        /\ Goto(t, "enlist")
        /\ UNCHANGED broken
     \/ \* only the new object itself is given up, the PDO keeps it in its list
        /\ "insert" \in Faults
        /\ th' = [th EXCEPT ![t].pc = "failed", ![t].drop = <<x>>, ![t].nu = 0]
        /\ Breaks("insert", TRUE)
        /\ UNCHANGED <<hash, obj>>
  /\ UNCHANGED <<list, owner, items, present>>

InsertInList(t) ==
  /\ At(t, "enlist")
  /\ LET x == IF th[t].nu # 0 THEN th[t].nu ELSE th[t].np IN
     /\ list' = Append(list, x)
     /\ Breaks("enlist", obj[x].removed)
  /\ th' = [th EXCEPT ![t] = IF @.nu = 0 THEN LowerDone(@) ELSE [@ EXCEPT !.pc = "entered"]]
  /\ UNCHANGED <<obj, hash, owner, items, present>>

CreationFails(t) ==
  /\ At(t, "failed")
  /\ owner' = Nobody
  /\ th' = [th EXCEPT ![t].pc = th[t].ret.new, ![t].drop = One(th[t].np), ![t].np = 0]
  /\ UNCHANGED <<obj, hash, list, items, present, broken>>

\* The first properties make the PDO complete and its parent is looked for.
SetDeviceProperty(t) ==
  /\ At(t, "entered")
  /\ owner' = Nobody
  /\ LET p == th[t].np
         first == th[t].prop /\ ~obj[p].prop
     IN  /\ obj' = [obj EXCEPT ![p].prop = @ \/ first, ![p].crippled = @ /\ ~first]
         /\ th' = [th EXCEPT ![t] = IF first THEN [@ EXCEPT !.pc = "check"] ELSE ReturnNew(@)]
  /\ UNCHANGED <<hash, list, items, present, broken>>

-----------------------------------------------------------------------------
(* OcCrCheckParentDevice: an eligible parent, or a work item that looks for it *)

CheckParentDevice(t) ==
  /\ At(t, "check")
  /\ LET x == th[t].np IN
     IF obj[x].from = 0 THEN Goto(t, "post") /\ UNCHANGED obj
     ELSE /\ ~WriteLocked(x)
          /\ obj' = Referenced(obj, x)
          /\ th' = [th EXCEPT ![t].y = x, ![t].p = obj[x].from, ![t].pc = "hopped"]
  /\ UNCHANGED <<hash, list, owner, items, present, broken>>

ReadParent(t) ==
  /\ At(t, "hop")
  /\ LET y == th[t].y IN
     /\ obj[y].from = 0 \/ ~WriteLocked(y)
     /\ th' = [th EXCEPT ![t] = IF obj[y].from = 0
                                THEN [@ EXCEPT !.pc = "post", !.y = 0, !.drop = <<y>>]
                                ELSE [@ EXCEPT !.pc = "hopped", !.p = obj[y].from]]
  /\ UNCHANGED <<obj, hash, list, owner, items, present, broken>>

\* OcCrGetLowerPdoDevice goes on with the parent until an eligible one is found.
GetLowerPdoDevice(t) ==
  /\ At(t, "hopped")
  /\ LET p == th[t].p
         y == th[t].y
     IN  /\ obj' = Referenced(obj, p)
         /\ th' = [th EXCEPT ![t] =
                     IF obj[p].dev \in Eligible
                     THEN ReturnNew([@ EXCEPT !.p = 0, !.y = 0, !.drop = <<y, p>>])
                     ELSE [@ EXCEPT !.p = 0, !.y = p, !.drop = <<y>>, !.pc = "hop"]]
  /\ UNCHANGED <<hash, list, owner, items, present, broken>>

PostWorkItem(t) ==
  /\ At(t, "post")
  /\ \/ /\ items' = Append(items, th[t].np)
        /\ obj' = Referenced(obj, th[t].np)
     \/ /\ "post" \in Faults
        /\ UNCHANGED <<items, obj>>
  /\ th' = [th EXCEPT ![t] = ReturnNew(@)]
  /\ UNCHANGED <<hash, list, owner, present, broken>>

-----------------------------------------------------------------------------
(* OcCrPnPFilterRepotNewDeviceState *)

CallNewState(rec, dev, state, ret) ==
  [rec EXCEPT !.pc = "state", !.dev = dev, !.state = state, !.ret.state = ret]

NewDeviceState(t) ==
  /\ At(t, "state")
  /\ LET x == hash[th[t].dev] IN
     IF x = 0 THEN Goto(t, th[t].ret.state) /\ UNCHANGED obj
     ELSE /\ obj' = Referenced(obj, x)
          /\ th' = [th EXCEPT ![t].s = x, ![t].pc = IF th[t].state = "Started" THEN "build" ELSE "set"]
  /\ UNCHANGED <<hash, list, owner, items, present, broken>>

\* The wait for the stack to be built ends after nine seconds at the latest; what
\* it waits for, and the types that are computed then, are in the PDO, to which
\* the thread has no reference.
WaitUntilDeviceStackIsBuilt(t) ==
  /\ At(t, "build")
  /\ th' = [th EXCEPT ![t].p = ReturnPDO(th[t].s), ![t].pc = "built"]
  /\ UNCHANGED <<obj, hash, list, owner, items, present, broken>>

SetFullDeviceType(t) ==
  /\ At(t, "built")
  /\ th' = [th EXCEPT ![t].p = 0, ![t].pc = "set"]
  /\ UNCHANGED <<obj, hash, list, owner, items, present, broken>>

SetState(t) ==
  /\ At(t, "set")
  /\ LET s == th[t].s
         both == {s} \cup IF obj[s].pdo = 0 THEN {} ELSE {obj[s].pdo}
     IN  obj' = [x \in Objs |-> IF x \in both THEN [obj[x] EXCEPT !.state = th[t].state] ELSE obj[x]]
  /\ Goto(t, IF th[t].state = "Deleted" THEN "unhash" ELSE "told")
  /\ UNCHANGED <<hash, list, owner, items, present, broken>>

RemoveDeletedFromHash(t) ==
  /\ At(t, "unhash")
  /\ RemoveFromHash(t, [th[t] EXCEPT !.pc = "verify"], th[t].dev)
  /\ UNCHANGED <<obj, list, owner, items, present, broken>>

StateDone(rec) == [rec EXCEPT !.s = 0, !.drop = <<rec.s>>, !.pc = rec.ret.state]

StateReported(t) ==
  /\ At(t, "told")
  /\ th' = [th EXCEPT ![t] = StateDone(@)]
  /\ UNCHANGED <<obj, hash, list, owner, items, present, broken>>

\* A checked build stops the system when it finds the entry again.
VerifyDeletion(t) ==
  /\ At(t, "verify")
  /\ Breaks("found", hash[th[t].dev] # 0)
  /\ th' = [th EXCEPT ![t] = StateDone(@)]
  /\ UNCHANGED <<obj, hash, list, owner, items, present>>

-----------------------------------------------------------------------------
(* OcCrPnPFilterRepotNewDeviceRelations *)

CallNewRelations(rec, dev, rels, ret) ==
  [rec EXCEPT !.pc = "relations", !.rdev = dev, !.todo = rels, !.kids = <<>>, !.ret.rel = ret]

NewDeviceRelations(t) ==
  /\ At(t, "relations")
  /\ LET x == hash[th[t].rdev] IN
     IF x = 0 THEN Goto(t, th[t].ret.rel) /\ UNCHANGED obj
     ELSE /\ obj' = Referenced(obj, x)
          /\ th' = [th EXCEPT ![t].r = x, ![t].p = ReturnPDO(x), ![t].pc = "topdo"]
  /\ UNCHANGED <<hash, list, owner, items, present, broken>>

\* Without memory for the array the new relations are empty.
UpperDeviceToPdo(t) ==
  /\ At(t, "topdo")
  /\ \E todo \in {th[t].todo} \cup {<<>> : f \in Faults \cap {"pool"}} :
       LET p   == th[t].p
           rec == [th[t] EXCEPT !.p = 0, !.pc = "kids", !.todo = todo]
       IN  IF p = th[t].r THEN /\ th' = [th EXCEPT ![t] = rec]
                               /\ UNCHANGED obj
           ELSE /\ obj' = Referenced(obj, p)
                /\ th' = [th EXCEPT ![t] = [rec EXCEPT !.r = p, !.drop = <<th[t].r>>]]
  /\ UNCHANGED <<hash, list, owner, items, present, broken>>

NextRelation(t) ==
  /\ At(t, "kids")
  /\ \/ /\ th[t].todo = <<>>
        /\ Goto(t, "exchange")
     \/ /\ th[t].todo # <<>>
        /\ th' = [th EXCEPT ![t] = CallProcessNew([@ EXCEPT !.todo = Tail(@)], Head(@.todo), Null, FALSE, "kid")]
  /\ UNCHANGED <<obj, hash, list, owner, items, present, broken>>

\* The parent is referenced for the child, whose pointer is then exchanged.
ReadOldParent(t) ==
  /\ At(t, "kid")
  /\ IF th[t].np = 0 THEN Goto(t, "kids") /\ UNCHANGED obj
     ELSE /\ ~WriteLocked(th[t].r) /\ ~Climbing(th[t].r)
          /\ obj' = Referenced(obj, th[t].r)
          /\ th' = [th EXCEPT ![t].old = obj[th[t].np].from, ![t].pc = "swapped"]
  /\ UNCHANGED <<hash, list, owner, items, present, broken>>

SetNewParent(t) ==
  /\ At(t, "swapped")
  /\ LET c == th[t].np IN
     /\ obj' = [obj EXCEPT ![c].from = th[t].r]
     /\ th' = [th EXCEPT ![t].pc = "kids", ![t].np = 0, ![t].old = 0,
                         ![t].kids = Append(@, c), ![t].drop = One(th[t].old)]
     /\ Breaks("swap", obj[c].from # th[t].old \/ (Climbing(c) /\ th[t].old # 0))
  /\ UNCHANGED <<hash, list, owner, items, present>>

ExchangeRelations(t) ==
  /\ At(t, "exchange")
  /\ ~WriteLocked(th[t].r) /\ ~Climbing(th[t].r)
  /\ LET r == th[t].r IN
     /\ obj' = [obj EXCEPT ![r].rels = th[t].kids]
     /\ th' = [th EXCEPT ![t].drop = Append(obj[r].rels, r), ![t].r = 0, ![t].kids = <<>>,
                         ![t].todo = <<>>, ![t].pc = th[t].ret.rel]
  /\ UNCHANGED <<hash, list, owner, items, present, broken>>

-----------------------------------------------------------------------------
(* OcCrFindParentDeviceWR *)

\* The walk goes from the end of the list to its head, past the objects that
\* are being removed or incomplete, and has a reference to the object it is at
\* and its remove lock while the list is unlocked.
Usable(i)  == ~obj[list[i]].removed /\ ~obj[list[i]].crippled
Before(is) == IF is = {} THEN 0 ELSE list[CHOOSE i \in is : \A j \in is : j <= i]
Place(x)   == CHOOSE i \in DOMAIN list : list[i] = x
WalkTo(o, rec, y) ==
  /\ obj' = IF y = 0 THEN o ELSE [Referenced(o, y) EXCEPT ![y].holders = @ + 1]
  /\ th' = [th EXCEPT ![rec.t] = [rec.of EXCEPT !.y = y, !.lock = y, !.pc = IF y = 0 THEN "found" ELSE "query"]]

TakeWorkItem(t) ==
  /\ t \in Workers
  /\ At(t, "next") /\ th[t].ops = <<>> /\ items # <<>>
  /\ items' = Tail(items)
  /\ th' = [th EXCEPT ![t].x = Head(items), ![t].pc = "find"]
  /\ UNCHANGED <<obj, hash, list, owner, present, broken>>

\* Each PDO is searched for once.  An object that is in no list is its own
\* predecessor: the walk never ends.
FindParentDevice(t) ==
  /\ At(t, "find")
  /\ LET x == th[t].x IN
     IF obj[x].checked \/ ~Listed(x)
     THEN /\ Goto(t, IF obj[x].checked THEN "found" ELSE "crash")
          /\ Breaks("walk", ~obj[x].checked)
          /\ UNCHANGED obj
     ELSE /\ WalkTo([obj EXCEPT ![x].checked = TRUE], [t |-> t, of |-> th[t]],
                    Before({i \in 1..(Place(x) - 1) : Usable(i)}))
          /\ UNCHANGED broken
  /\ UNCHANGED <<hash, list, owner, items, present>>

\* The relations of a device are queried from its drivers; the report goes on
\* only if the child is among them.
QueryRelations(t) ==
  /\ At(t, "query")
  /\ LET y == th[t].y
         found == /\ obj[y].state = "Started" /\ IsPdo(y)
                  /\ \E i \in DOMAIN Removal[obj[y].dev] : Removal[obj[y].dev][i] = obj[th[t].x].dev
     IN  th' = [th EXCEPT ![t] = IF found THEN CallNewRelations([@ EXCEPT !.found = TRUE], obj[y].dev,
                                                               Removal[obj[y].dev], "queried")
                                 ELSE [@ EXCEPT !.pc = "leave", !.y = 0, !.drop = <<y>>]]
  /\ UNCHANGED <<obj, hash, list, owner, items, present, broken>>

LeaveDevice(t) ==
  /\ At(t, "queried")
  /\ th' = [th EXCEPT ![t].pc = "leave", ![t].y = 0, ![t].drop = <<th[t].y>>]
  /\ UNCHANGED <<obj, hash, list, owner, items, present, broken>>

\* Mutant: the device stays locked.
WalkOnLocked(t) ==
  /\ At(t, "leave")
  /\ LET y == th[t].lock IN
     WalkTo(obj, [t |-> t, of |-> th[t]],
            IF th[t].found \/ ~Listed(y) THEN 0 ELSE Before({i \in 1..(Place(y) - 1) : Usable(i)}))
  /\ UNCHANGED <<hash, list, owner, items, present, broken>>

WalkOn(t) ==
  /\ At(t, "leave")
  /\ LET y == th[t].lock IN
     WalkTo([obj EXCEPT ![y].holders = @ - 1], [t |-> t, of |-> th[t]],
            IF th[t].found \/ ~Listed(y) THEN 0 ELSE Before({i \in 1..(Place(y) - 1) : Usable(i)}))
  /\ UNCHANGED <<hash, list, owner, items, present, broken>>

ParentFound(t) ==
  /\ At(t, "found")
  /\ th' = [th EXCEPT ![t] = [Done(@) EXCEPT !.drop = <<th[t].x>>]]
  /\ UNCHANGED <<obj, hash, list, owner, items, present, broken>>

-----------------------------------------------------------------------------
(* Operations *)

\* The PnP filter reports a device it attached to, a new state (of a device that
\* is deleted before the report returns) or relations.
ReportNewDevice(t) ==
  /\ Begins(t, "new")
  /\ present' = present \cup {Op(t).low} \cup Op(t).up
  /\ th' = [th EXCEPT ![t] = CallProcessNew(@, Op(t).low, Op(t).up, Op(t).up # Null \/ Op(t).init, "reported")]
  /\ UNCHANGED <<obj, hash, list, owner, items, broken>>

ReportState(t) ==
  /\ Begins(t, "state")
  /\ th' = [th EXCEPT ![t] = CallNewState(@, Op(t).low, Op(t).state, "reported")]
  /\ UNCHANGED <<obj, hash, list, owner, items, present, broken>>

ReportRelations(t) ==
  /\ Begins(t, "relations")
  /\ th' = [th EXCEPT ![t] = CallNewRelations(@, Op(t).low, Op(t).rels, "reported")]
  /\ UNCHANGED <<obj, hash, list, owner, items, present, broken>>

Reported(t) ==
  /\ At(t, "reported")
  /\ present' = IF Op(t).do = "state" /\ Op(t).state = "Deleted" THEN present \ {Op(t).low} ELSE present
  /\ th' = [th EXCEPT ![t] = [Done(@) EXCEPT !.drop = One(th[t].np)]]
  /\ UNCHANGED <<obj, hash, list, owner, items, broken>>

\* OcCrAddInDatabaseDeviceInMiddleOfStack: a request was sent to a device above
\* a known PDO, which is locked until the device is entered and has the PDO's
\* state.  When the PDO is not known and the PnP filter cannot attach to it, the
\* pointer to its object is NULL and used.  What follows an attachment is left out:
\* it enters the PDO as a device that is not of PnP.
FindBase(t) ==
  /\ Begins(t, "middle")
  /\ LET x == hash[Op(t).low] IN
     \/ /\ x # 0 /\ Op(t).low \in present
        /\ obj' = Referenced(obj, x)
        /\ th' = [th EXCEPT ![t].x = x, ![t].pc = "base"]
        /\ UNCHANGED broken
     \/ /\ x = 0 /\ Op(t).low \in present
        /\ Goto(t, "crash")
        /\ Breaks("null", TRUE)
        /\ UNCHANGED obj
     \/ \* no such device, no request to it
        /\ Op(t).low \notin present
        /\ th' = [th EXCEPT ![t] = Done(@)]
        /\ UNCHANGED <<obj, broken>>
  /\ UNCHANGED <<hash, list, owner, items, present>>

AddDeviceInMiddleOfStack(t) ==
  /\ At(t, "base")
  /\ LET x == th[t].x IN
     IF obj[x].removed THEN Goto(t, "unlock") /\ UNCHANGED obj
     ELSE /\ obj' = [obj EXCEPT ![x].holders = @ + 1]
          /\ th' = [th EXCEPT ![t] = CallProcessNew([@ EXCEPT !.lock = x], obj[x].dev, Op(t).up,
                                                   ~obj[x].crippled, "middled")]
  /\ UNCHANGED <<hash, list, owner, items, present, broken>>

TakeStateOfPdo(t) ==
  /\ At(t, "middled")
  /\ th' = [th EXCEPT ![t] = IF @.np = 0 THEN [@ EXCEPT !.pc = "unlock"]
                             ELSE CallNewState(@, Only(Op(t).up), obj[@.x].state, "unlock")]
  /\ UNCHANGED <<obj, hash, list, owner, items, present, broken>>

MiddleAdded(t) ==
  /\ At(t, "unlock")
  /\ obj' = IF th[t].lock = 0 THEN obj ELSE [obj EXCEPT ![th[t].lock].holders = @ - 1]
  /\ th' = [th EXCEPT ![t] = [Done(@) EXCEPT !.drop = One(th[t].np) \o <<th[t].x>>]]
  /\ UNCHANGED <<hash, list, owner, items, present, broken>>

\* The unload of the driver, after the PnP filter was disconnected and the last
\* request has left: one line of the hash after another is emptied.
Disconnected(t) == \A u \in Threads \ (Workers \cup {t}) : th[u].ops = <<>> /\ At(u, "next")

BeginPurge(t) ==
  /\ Begins(t, "purge")
  /\ Disconnected(t)
  /\ th' = [th EXCEPT ![t].left = Devices, ![t].pc = "purge"]
  /\ UNCHANGED <<obj, hash, list, owner, items, present, broken>>

PurgeAllEntriesFromHash(t) ==
  /\ At(t, "purge")
  /\ IF th[t].left = {} THEN th' = [th EXCEPT ![t] = Done(@)] /\ UNCHANGED hash
     ELSE LET d == CHOOSE d \in th[t].left : TRUE
          IN  RemoveFromHash(t, [th[t] EXCEPT !.left = IF hash[d] = 0 THEN @ \ {d} ELSE @], d)
  /\ UNCHANGED <<obj, list, owner, items, present, broken>>

-----------------------------------------------------------------------------
(* The specification *)

Cleanup(t) == \/ Dereference(t) \/ CleanupDevice(t) \/ ReleaseRemoveLockAndWait(t) \/ RemoveFromList(t)
              \/ RemoveDeviceRelations(t) \/ PopUpperDevice(t) \/ RemoveUpperDevice(t)
              \/ LookForLink(t) \/ UnlinkFromPdo(t)
              \/ RemovePdo(t) \/ ForgetPdo(t)
Creation(t) == \/ ProcessNewPnPDevice(t) \/ CreateUpperEntry(t) \/ InsertInHash(t)
               \/ InsertInList(t) \/ CreationFails(t) \/ SetDeviceProperty(t)
Parents(t) == \/ CheckParentDevice(t) \/ ReadParent(t) \/ GetLowerPdoDevice(t) \/ PostWorkItem(t)
              \/ TakeWorkItem(t) \/ FindParentDevice(t) \/ QueryRelations(t) \/ LeaveDevice(t)
              \/ WalkOn(t) \/ ParentFound(t)
States(t) == \/ NewDeviceState(t) \/ WaitUntilDeviceStackIsBuilt(t) \/ SetFullDeviceType(t) \/ SetState(t)
             \/ RemoveDeletedFromHash(t) \/ VerifyDeletion(t) \/ StateReported(t)
Relations(t) == \/ NewDeviceRelations(t) \/ UpperDeviceToPdo(t) \/ NextRelation(t) \/ ReadOldParent(t)
                \/ SetNewParent(t) \/ ExchangeRelations(t)
Operations(t) == \/ ReportNewDevice(t) \/ ReportState(t) \/ ReportRelations(t) \/ Reported(t)
                 \/ FindBase(t) \/ AddDeviceInMiddleOfStack(t) \/ TakeStateOfPdo(t) \/ MiddleAdded(t)
                 \/ BeginPurge(t) \/ PurgeAllEntriesFromHash(t)

\* Behaviours end with the first defect that corrupts the memory or hangs or
\* stops the system.
Sound == broken \subseteq {"ghost"}

Next == \E t \in Threads : /\ Sound
                           /\ \/ Cleanup(t) \/ Creation(t) \/ Parents(t)
                              \/ States(t) \/ Relations(t) \/ Operations(t)

Spec == Init /\ [][Next]_vars
FairSpec == Spec /\ WF_vars(Next)

-----------------------------------------------------------------------------
(* Properties *)

Live == {x \in Objs : obj[x].life = "live"}

\* The pointers to an object that go with a reference.
Pointers(x) ==
  UNION {{<<y, "pdo">> : p \in {obj[y].pdo} \cap {x}} \cup
         {<<y, "from">> : p \in {obj[y].from} \cap {x}} \cup
         {<<y, "rel", i>> : i \in {j \in DOMAIN obj[y].rels : obj[y].rels[j] = x}} : y \in Live}
Held == {"x", "y", "s", "r", "np", "nu"}
PointersOfThreads(x) ==
  UNION {{<<t, f>> : f \in {g \in Held : th[t][g] = x}} \cup
         {<<t, "drop", i>> : i \in {j \in DOMAIN th[t].drop : th[t].drop[j] = x}} \cup
         {<<t, "kid", i>> : i \in {j \in DOMAIN th[t].kids : th[t].kids[j] = x}} \cup
         {<<t, "frame", i>> : i \in {j \in DOMAIN th[t].stack : th[t].stack[j].x = x}} \cup
         {<<t, "parent">> : p \in {th[t].r} \cap IF th[t].pc = "swapped" THEN {x} ELSE {}}
           : t \in Threads}

\* The count of every object is the number of the references that the hash, the
\* work items, the other objects and the threads have: none is lost or given back
\* twice on any path of the reports, of the search for parents and of the cleanup.
ReferencesAreExact ==
  Sound =>
    \A x \in Live :
      obj[x].refs = Cardinality(Pointers(x)) + Cardinality(PointersOfThreads(x))
                    + Cardinality({d \in Devices : hash[d] = x})
                    + Cardinality({i \in DOMAIN items : items[i] = x})

Uses(t) == ({th[t][f] : f \in Held \cup {"p", "old", "lock"}} \ {0})
           \cup {th[t].drop[i] : i \in DOMAIN th[t].drop}
           \cup UNION {{th[t].stack[i].x, th[t].stack[i].u} \ {0} : i \in DOMAIN th[t].stack}

\* No object is freed while a thread works with it, with a reference or (the PDO
\* of an upper device, an upper device taken from its PDO) without one, while it
\* is in the list that the search for a parent walks or in the list of its PDO; and
\* none is unlinked from its PDO by links that were left when it was taken out.
ObjectsOutliveTheirUsers ==
  /\ "unlink" \notin broken
  /\ Sound =>
       /\ \A t \in Threads : \A x \in Uses(t) : obj[x].life = "live"
       /\ \A i \in DOMAIN list : obj[list[i]].life = "live"
       /\ \A x \in Live : \A i \in DOMAIN obj[x].ups : obj[obj[x].ups[i]].life = "live"

\* The report that a device is deleted does not return, and the device does not
\* go, while a thread that has the remove lock of its object sends requests to the
\* device.  A device whose entry was made again by an old report is not covered.
DevicesOutliveTheirQueries ==
  broken = {} => \A t \in Threads : th[t].lock # 0 => obj[th[t].lock].dev \in present

\* The lock makes the exchange of a child's parent atomic (the comment at DependFrom,
\* devdatabase.h:331-335).  False: it is the lock of the parent that is taken, and
\* the cleanup of the child takes that of the child.
SwapIsAtomic == \A t \in Threads : th[t].pc = "swapped" => obj[th[t].np].from = th[t].old

Ended == /\ items = <<>>
         /\ \A t \in Threads : th[t].ops = <<>> /\ At(t, "next")

\* All reports, searches and the purge end: no thread waits for ever for a remove
\* lock or for the resource.
ReportsEnd == <>(Ended \/ ~Sound)

\* Objects that point to each other are not kept by that: after the purge and the
\* last work item none is left.
NothingIsLeftBehind == Ended /\ Sound => Live = {}

\* The objects are well formed, their counts exact at each step, and none is
\* left in the end.
DatabaseInvariant ==
  /\ TypeOK
  /\ ReferencesAreExact
  /\ NothingIsLeftBehind
=============================================================================
