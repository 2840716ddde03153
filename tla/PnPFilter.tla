----------------------------- MODULE PnPFilter ------------------------------
(***************************************************************************)
(* The PnP filter driver: every device of a device stack has an extension, *)
(* a real one for the filter devices the driver attached (FIDO) and a      *)
(* "virtual" one for the physical device below them (virtual PDO).  All    *)
(* are in PnpFilterGlobal.ListHead under one spin lock; a virtual PDO is   *)
(* counted (references, and references by device relations), every         *)
(* extension has a remove lock of the I/O manager.  PnP and other requests *)
(* for the filter devices, the hooked PnP dispatch of the bus drivers, the *)
(* report of all devices to the core driver and the attachment to devices  *)
(* that are not of PnP run concurrently.                                   *)
(*                                                                         *)
(* One type of device relations is kept per device, the core driver stays  *)
(* connected (CoreDriver has the connection), a PnP request that is        *)
(* completed at a raised IRQL is handled as if it had been postponed.      *)
(***************************************************************************)
EXTENDS Integers, Sequences, FiniteSets

CONSTANTS
  Threads,
  Devices,   \* the physical devices
  PnpDevices,\* those that take part in PnP
  Boot,      \* a sequence of those whose stacks exist at first
  Scripts,   \* what each thread may do: sequences of operations
  MaxExts,   \* the extensions that are ever made
  Faults     \* what may fail

ASSUME PnPFilterAssumption ==
  /\ PnpDevices \subseteq Devices
  /\ Boot \in Seq(PnpDevices)
  /\ MaxExts \in Nat /\ 2 * Len(Boot) <= MaxExts
  /\ Scripts \in [Threads -> SUBSET Seq([do : {"query", "pass", "remove", "start", "add", "fti",
                                              "report", "attach", "detach", "unload"},
                                        dev : Devices, rels : SUBSET Seq(Devices)])]
  /\ Faults \subseteq {"create", "attach", "hook", "pool"}

\* Threads can be counted, a device is no number of an extension.
ASSUME NamesAssumption == /\ IsFiniteSet(Threads)
                          /\ \A d \in Devices : d \notin 1..MaxExts

\* What the PnP manager, and for other devices the core driver, does with a
\* device it does one at a time.
Calls(t) == UNION {{s[i] : i \in DOMAIN s} : s \in Scripts[t]}
Serial   == {"start", "remove", "add", "fti", "attach", "detach"}
ASSUME SerialAssumption ==
  \A t, u \in Threads : \A c \in Calls(t), d \in Calls(u) :
    c.do \in Serial /\ d.do \in Serial /\ c.dev = d.dev => t = u

VARIABLES
  ext,      \* the extensions
  list,     \* PnpFilterGlobal.ListHead
  hooked,   \* the devices whose driver has its PnP dispatch hooked
  known,    \* what the core driver was last told of a device
  owner,    \* PnpFilterGlobal.VirtualDevicesListResource
  spinning, \* a thread holds PnpFilterGlobal.SpinLock for ever
  th,       \* the threads
  broken    \* which defects of the code the behaviour ran into

vars == <<ext, list, hooked, known, owner, spinning, th, broken>>

Exts == 1..MaxExts
Nobody == 0
States == {"NotStarted", "Started", "Deleted"}

\* A pointer that may be NULL is the set of what it points to.
Null      == {}
Only(ptr) == CHOOSE s \in ptr : TRUE

NoExt == [life |-> "none", kind |-> "pdo", dev |-> CHOOSE d \in Devices : TRUE, refs |-> 0,
          rel |-> 0, marked |-> FALSE, state |-> "NotStarted", holders |-> 0, closing |-> FALSE,
          vpdo |-> 0, attached |-> FALSE, rels |-> Null, shadow |-> Null, flink |-> 0]
Idle  == [pc |-> "next", x |-> 0, h |-> 0, f |-> 0, n |-> 0, del |-> 0, phase |-> "", created |-> FALSE,
          ret |-> "done", old |-> Null, shadow |-> Null, new |-> Null, todo |-> <<>>,
          state |-> "NotStarted", request |-> 0, ops |-> <<>>]

Virtual(x) == ext[x].kind # "filter"
FilterOf(d) == {f \in Exts : ext[f].life = "live" /\ ~Virtual(f) /\ ext[f].dev = d}

TypeOK ==
  /\ list \in Seq(Exts)
  /\ \A x \in Exts : /\ ext[x].life \in {"none", "live", "freed"}
                     /\ ext[x].kind \in {"pdo", "lower", "filter"}
                     /\ ext[x].refs \in Int /\ ext[x].holders \in Nat
  /\ \A i, j \in DOMAIN list : list[i] = list[j] => i = j
  /\ \A i \in DOMAIN list : ext[list[i]].life = "live"
  /\ hooked \subseteq Devices
  /\ owner \in Threads \cup {Nobody}

BootExt(x) ==
  LET d == Boot[(x + 1) \div 2] IN
  IF x % 2 = 1 THEN [NoExt EXCEPT !.life = "live", !.dev = d, !.refs = 2, !.rel = 2,
                                  !.state = "Started", !.attached = TRUE]
               ELSE [NoExt EXCEPT !.life = "live", !.dev = d, !.kind = "filter", !.vpdo = x - 1,
                                  !.state = "Started"]

Init ==
  /\ ext = [x \in Exts |-> IF x <= 2 * Len(Boot) THEN BootExt(x) ELSE NoExt]
  /\ list = [i \in 1..2 * Len(Boot) |-> i]
  /\ hooked = {Boot[i] : i \in DOMAIN Boot}
  /\ known = [k \in Devices \cup Exts |-> "none"]
  /\ owner = Nobody
  /\ spinning = FALSE
  /\ broken = {}
  /\ \E script \in [Threads -> UNION {Scripts[t] : t \in Threads}] :
       /\ \A t \in Threads : script[t] \in Scripts[t]
       /\ th = [t \in Threads |-> [Idle EXCEPT !.ops = script[t]]]

-----------------------------------------------------------------------------
(* The list and the reports *)

Listed(x) == \E i \in DOMAIN list : list[i] = x
Place(x)  == CHOOSE i \in DOMAIN list : list[i] = x
Without(x) == IF Listed(x) THEN [i \in 1..Len(list) - 1 |-> list[IF i < Place(x) THEN i ELSE i + 1]]
              ELSE list

\* The entry that follows, 0 for the list head.
After(l, i) == IF i = Len(l) THEN 0 ELSE i + 1
FlinkOf(x)  == IF Place(x) = Len(list) THEN 0 ELSE list[Place(x) + 1]

\* RemoveEntryList: the pointers of the entry itself stay as they are.
Unlisted(e, x) == IF Listed(x) THEN [e EXCEPT ![x].flink = FlinkOf(x)] ELSE e

\* The virtual PDO of a device that is in the list, with its remove lock when
\* it is wanted: the search ends at the first one.
Found(d) == LET is == {i \in DOMAIN list : Virtual(list[i]) /\ ext[list[i]].dev = d}
            IN  IF is = {} THEN 0 ELSE list[CHOOSE i \in is : \A j \in is : i <= j]
Lockable(x) == x # 0 /\ ~ext[x].closing

\* What the core driver knows a device by, and what it makes of a report.
Key(x) == IF Virtual(x) THEN ext[x].dev ELSE x
New(k) == IF known[k] \in {"none", "Deleted"} THEN "NotStarted" ELSE known[k]
ReportNewDevice(x) ==
  known' = [k \in DOMAIN known |-> IF k \in {Key(x), ext[x].dev} THEN New(k) ELSE known[k]]
ReportNewDeviceState(x, state) == known' = [known EXCEPT ![Key(x)] = state]

-----------------------------------------------------------------------------
(* Threads, references and remove locks *)

\* A thread that deletes a virtual PDO does nothing else meanwhile.
At(t, pc)  == th[t].del = 0 /\ th[t].pc = pc
Op(t)      == Head(th[t].ops)
Begins(t, do) == At(t, "next") /\ th[t].ops # <<>> /\ Op(t).do \in do
Goto(t, pc) == th' = [th EXCEPT ![t].pc = pc]
Finish(t)  == th' = [th EXCEPT ![t] = [Idle EXCEPT !.ops = Tail(th[t].ops)]]

Acquire(x) == ext' = [ext EXCEPT ![x].holders = @ + 1]
Release(x) == ext' = [ext EXCEPT ![x].holders = @ - 1]
Referenced(x) == [ext EXCEPT ![x].refs = @ + 1, ![x].holders = @ + 1]

\* OcFilterDereferenceVirtualPdoExtension: whoever drops the last reference
\* goes on to delete the extension.
Dereference(t, e, x, pc) ==
  /\ ext' = [e EXCEPT ![x].refs = @ - 1]
  /\ th' = [th EXCEPT ![t].pc = pc, ![t].phase = "render",
                      ![t].del = IF e[x].refs = 1 THEN x ELSE 0]

RenderVirtualPdoAsDeleted(x) ==
  /\ ~spinning
  /\ ext' = [Unlisted(ext, x) EXCEPT ![x].marked = TRUE]
  /\ list' = Without(x)

Deletes(t, phase) == th[t].del # 0 /\ th[t].phase = phase

Render(t) ==
  /\ Deletes(t, "render")
  /\ RenderVirtualPdoAsDeleted(th[t].del)
  /\ th' = [th EXCEPT ![t].phase = "close"]
  /\ UNCHANGED <<hooked, known, owner, spinning, broken>>

CloseVirtualPdo(t) ==
  /\ Deletes(t, "close")
  /\ ~ext[th[t].del].closing
  /\ ext' = [ext EXCEPT ![th[t].del].closing = TRUE]
  /\ th' = [th EXCEPT ![t].phase = "wait"]
  /\ UNCHANGED <<list, hooked, known, owner, spinning, broken>>

\* Mutant: the lock is not waited for.
DeleteAtOnce(t) ==
  /\ Deletes(t, "wait")
  /\ ReportNewDeviceState(th[t].del, "Deleted")
  /\ ext' = [ext EXCEPT ![th[t].del].life = "freed"]
  /\ th' = [th EXCEPT ![t].del = 0]
  /\ UNCHANGED <<list, hooked, owner, spinning, broken>>

\* Mutant: the final report is left to the hook of the bus driver.
DeleteInSilence(t) ==
  /\ Deletes(t, "wait")
  /\ ext[th[t].del].holders = 0
  /\ ext' = [ext EXCEPT ![th[t].del].life = "freed"]
  /\ th' = [th EXCEPT ![t].del = 0]
  /\ UNCHANGED <<list, hooked, known, owner, spinning, broken>>

\* The last report is made when no lock holder can make one of its own.
DeleteVirtualPdoByExtensionInternal(t) ==
  /\ Deletes(t, "wait")
  /\ ext[th[t].del].holders = 0
  /\ ReportNewDeviceState(th[t].del, "Deleted")
  /\ ext' = [ext EXCEPT ![th[t].del].life = "freed"]
  /\ th' = [th EXCEPT ![t].del = 0]
  /\ UNCHANGED <<list, hooked, owner, spinning, broken>>

\* OcFilterDeleteVirtualPdoByExtension: the first caller gives the initial
\* reference back...
DeleteVirtualPdoByExtension(t) ==
  /\ At(t, "delete")
  /\ RenderVirtualPdoAsDeleted(th[t].x)
  /\ Goto(t, IF ext[th[t].x].marked THEN "deref" ELSE "drop")
  /\ UNCHANGED <<hooked, known, owner, spinning, broken>>

DropInitialReference(t) ==
  /\ At(t, "drop")
  /\ Dereference(t, ext, th[t].x, "deref")
  /\ UNCHANGED <<list, hooked, known, owner, spinning, broken>>

\* ...and every caller the one it has.
DereferenceVirtualPdo(t) ==
  /\ At(t, "deref")
  /\ Dereference(t, ext, th[t].x, th[t].ret)
  /\ UNCHANGED <<list, hooked, known, owner, spinning, broken>>

Done(t) == /\ At(t, "done")
           /\ Finish(t)
           /\ UNCHANGED <<ext, list, hooked, known, owner, spinning, broken>>

-----------------------------------------------------------------------------
(* Device relations *)

\* The array of devices closes the gap with the next element only.
Removed(arr, i) == SubSeq(IF i < Len(arr) THEN [arr EXCEPT ![i] = arr[i + 1]] ELSE arr,
                          1, Len(arr) - 1)

\* The loop of FilterProcessPdoInformationForRelation over a list of
\* extensions: an entry that is no virtual PDO of PnP moves the pointer on, and
\* so does the loop itself.
Visited(e, l, s) ==
  LET x == l[s.at]
      matches == {i \in DOMAIN s.devs : e[x].kind = "pdo" /\ s.devs[i] = e[x].dev}
      rest == IF matches = {} THEN s.devs
              ELSE Removed(s.devs, CHOOSE i \in matches : \A j \in matches : i <= j)
      next == After(l, s.at)
  IN  IF s.at = 0 THEN s
      ELSE [found |-> IF matches = {} THEN s.found ELSE Append(s.found, x),
            devs  |-> rest,
            at    |-> IF e[x].kind # "pdo" THEN IF next = 0 THEN 1 ELSE After(l, next)
                      ELSE IF rest = <<>> THEN 0 ELSE next]

\* It never ends when the pointer is moved past the list head without an end to
\* the devices that are looked for: it is in no state twice otherwise.  (A
\* singleton binds the state of the loop to its value.)
Visit(e, l, devs) ==
  LET rounds == 2 * (Len(l) + 1) * (Len(devs) + 1)
      run[n \in 0..rounds] ==
        IF n = 0 THEN [at |-> IF l = <<>> THEN 0 ELSE 1, devs |-> devs, found |-> <<>>]
        ELSE Only({Visited(e, l, s) : s \in {run[n - 1]}})
  IN  [ends |-> run[rounds].at = 0, found |-> run[rounds].found]

Places(seq, x) == {i \in DOMAIN seq : seq[i] = x}
Times(seq, x)  == Cardinality(Places(seq, x))

Counted(found, by) ==
  [x \in Exts |-> [ext[x] EXCEPT !.refs = @ + by * Times(found, x), !.rel = @ + by * Times(found, x)]]

Spin(t, defect) == /\ spinning' = TRUE
                   /\ broken' = broken \cup {defect}
                   /\ Goto(t, "spin")

\* OcFilterSetNewDeviceRelations: the relations are exchanged under the lock,
\* the extensions they refer to are found afterwards.
SetNewDeviceRelations(t, f, rels, ret) ==
  /\ ext' = [ext EXCEPT ![f].rels = rels, ![f].shadow = Null]
  /\ th' = [th EXCEPT ![t].old = ext[f].rels, ![t].shadow = ext[f].shadow, ![t].ret = ret,
                      ![t].pc = IF rels = Null THEN "release" ELSE "process"]

ProcessNewRelations(t) ==
  /\ At(t, "process")
  /\ owner = Nobody
  /\ ~spinning
  /\ LET v == Visit(ext, list, Only(Op(t).rels)) IN
     \/ /\ "pool" \in Faults
        /\ Goto(t, "release")
        /\ UNCHANGED <<ext, spinning, broken>>
     \/ \* The copy is freed twice, or the record that is returned was never
        \* filled in: what follows is undefined.
        /\ "pool" \in Faults
        /\ broken' = broken \cup {"shadow"}
        /\ Goto(t, "crash")
        /\ UNCHANGED <<ext, spinning>>
     \/ /\ v.ends
        /\ ext' = Counted(v.found, 1)
        /\ th' = [th EXCEPT ![t].new = {v.found}, ![t].pc = "record"]
        /\ UNCHANGED <<spinning, broken>>
     \/ /\ ~v.ends
        /\ Spin(t, "loop")
        /\ UNCHANGED ext
  /\ UNCHANGED <<list, hooked, known, owner>>

RecordShadow(t) ==
  /\ At(t, "record")
  /\ LET f == th[t].f IN
     /\ ext' = [ext EXCEPT ![f].shadow = th[t].new]
     /\ broken' = IF ext[f].shadow = Null /\ ext[f].rels = Op(t).rels THEN broken
                  ELSE broken \cup {"shadow"}
  /\ th' = [th EXCEPT ![t].new = Null, ![t].pc = "release"]
  /\ UNCHANGED <<list, hooked, known, owner, spinning>>

ReleaseOldRelations(t) ==
  /\ At(t, "release")
  /\ \/ /\ th[t].old = Null /\ th[t].shadow = Null
        /\ Goto(t, th[t].ret)
        /\ UNCHANGED <<ext, owner, spinning, broken>>
     \/ /\ th[t].shadow # Null /\ th[t].old # Null
        /\ owner = Nobody /\ owner' = t
        /\ th' = [th EXCEPT ![t].pc = "releasing",
                            ![t].todo = Visit(ext, Only(th[t].shadow), Only(th[t].old)).found]
        /\ UNCHANGED <<ext, spinning, broken>>
     \/ \* no memory for the copy: what was found stays referenced
        /\ "pool" \in Faults
        /\ th[t].old # Null
        /\ owner = Nobody
        /\ broken' = IF th[t].shadow = Null THEN broken ELSE broken \cup {"shadow"}
        /\ Goto(t, th[t].ret)
        /\ UNCHANGED <<ext, owner, spinning>>
     \/ \* the copy is made of relations that are not there
        /\ th[t].shadow # Null /\ th[t].old = Null
        /\ broken' = broken \cup {"shadow"}
        /\ Goto(t, "crash")
        /\ UNCHANGED <<ext, owner, spinning>>
     \/ \* what is in the list is released, counted or not, under the spin lock
        /\ th[t].shadow = Null /\ th[t].old # Null
        /\ owner = Nobody
        /\ ~spinning
        /\ LET v == Visit(ext, list, Only(th[t].old))
               last == \E x \in Exts : ext[x].refs \in 1..Times(v.found, x)
           IN  \/ ~v.ends /\ Spin(t, "loop") /\ UNCHANGED ext
               \/ v.ends /\ last /\ Spin(t, "shadow") /\ UNCHANGED ext
               \/ /\ v.ends /\ ~last
                  /\ ext' = Counted(v.found, 0 - 1)
                  /\ broken' = IF v.found = <<>> THEN broken ELSE broken \cup {"shadow"}
                  /\ Goto(t, th[t].ret)
                  /\ UNCHANGED spinning
        /\ UNCHANGED owner
  /\ UNCHANGED <<list, hooked, known>>

ReleaseOne(t) ==
  /\ At(t, "releasing")
  /\ th[t].todo # <<>>
  /\ LET x == Head(th[t].todo) IN
     /\ ext' = [ext EXCEPT ![x].refs = @ - 1, ![x].rel = @ - 1]
     /\ th' = [th EXCEPT ![t].todo = Tail(@), ![t].phase = "render",
                         ![t].del = IF ext[x].refs = 1 THEN x ELSE 0]
  /\ UNCHANGED <<list, hooked, known, owner, spinning, broken>>

ReleasedAll(t) ==
  /\ At(t, "releasing")
  /\ th[t].todo = <<>>
  /\ owner' = Nobody
  /\ Goto(t, th[t].ret)
  /\ UNCHANGED <<ext, list, hooked, known, spinning, broken>>

-----------------------------------------------------------------------------
(* Requests to a filter device *)

\* FilterPass, FilterDispatchPower and most of FilterDispatchPnp hold the
\* remove lock of the device while the request is with the drivers below.
DispatchRequest(t) ==
  /\ Begins(t, {"query", "pass"})
  /\ IF \E f \in FilterOf(Op(t).dev) : ~ext[f].closing
     THEN LET f == CHOOSE f \in FilterOf(Op(t).dev) : ~ext[f].closing
          IN  Acquire(f) /\ th' = [th EXCEPT ![t].f = f, ![t].pc = "sent"]
     ELSE Goto(t, "done") /\ UNCHANGED ext
  /\ UNCHANGED <<list, hooked, known, owner, spinning, broken>>

\* Mutant: the request goes down without the lock's release.
PassAndKeep(t) ==
  /\ At(t, "sent") /\ Op(t).do = "pass"
  /\ Goto(t, "done")
  /\ UNCHANGED <<ext, list, hooked, known, owner, spinning, broken>>

FilterPass(t) ==
  /\ At(t, "sent") /\ Op(t).do = "pass"
  /\ Release(th[t].f)
  /\ Goto(t, "done")
  /\ UNCHANGED <<list, hooked, known, owner, spinning, broken>>

QueryDeviceRelations(t) ==
  /\ At(t, "sent") /\ Op(t).do = "query"
  /\ SetNewDeviceRelations(t, th[t].f, Op(t).rels, "unlock")
  /\ UNCHANGED <<list, hooked, known, owner, spinning, broken>>

QueryCompleted(t) ==
  /\ At(t, "unlock")
  /\ Release(th[t].f)
  /\ Goto(t, "done")
  /\ UNCHANGED <<list, hooked, known, owner, spinning, broken>>

\* IRP_MN_START_DEVICE: the filter device, if there is one, is locked until
\* the request is completed.
StartDevice(t) ==
  /\ Begins(t, {"start"})
  /\ LET F == FilterOf(Op(t).dev)
         f == IF F = {} THEN 0 ELSE CHOOSE f \in F : TRUE
     IN  /\ IF f = 0 THEN UNCHANGED ext ELSE Acquire(f)
         /\ th' = [th EXCEPT ![t].f = f, ![t].pc = "hook", ![t].ret = "started"]
  /\ UNCHANGED <<list, hooked, known, owner, spinning, broken>>

Started(t) ==
  /\ At(t, "started")
  /\ LET f == th[t].f IN
     IF f = 0 THEN UNCHANGED <<ext, known>>
     ELSE /\ ext' = [ext EXCEPT ![f].state = "Started", ![f].holders = @ - 1]
          /\ ReportNewDeviceState(f, "Started")
  /\ Goto(t, "done")
  /\ UNCHANGED <<list, hooked, owner, spinning, broken>>

\* IRP_MN_REMOVE_DEVICE and, for a device that is not of PnP, the fast I/O
\* call with which the system detaches from it: no more requests...
RemoveDevice(t) ==
  /\ Begins(t, {"remove"})
  /\ IF FilterOf(Op(t).dev) = {} THEN Goto(t, "done") /\ UNCHANGED ext
     ELSE LET f == CHOOSE f \in FilterOf(Op(t).dev) : TRUE IN
          /\ ext' = [ext EXCEPT ![f].closing = TRUE]
          /\ th' = [th EXCEPT ![t].f = f, ![t].ret = "hook", ![t].pc = "closing"]
  /\ UNCHANGED <<list, hooked, known, owner, spinning, broken>>

FastIoDetachDevice(t) ==
  /\ Begins(t, {"detach"})
  /\ ~spinning
  /\ IF \E f \in FilterOf(Op(t).dev) : Listed(f) /\ ~ext[f].closing
     THEN LET f == CHOOSE f \in FilterOf(Op(t).dev) : TRUE IN
          /\ ext' = [ext EXCEPT ![f].closing = TRUE]
          /\ th' = [th EXCEPT ![t].f = f, ![t].ret = "cleared", ![t].pc = "closing"]
     ELSE Goto(t, "done") /\ UNCHANGED ext
  /\ UNCHANGED <<list, hooked, known, owner, spinning, broken>>

\* ...and when there are none left it leaves the list,
RemoveDeviceFromTheList(t) ==
  /\ At(t, "closing")
  /\ ext[th[t].f].holders = 0
  /\ ~spinning
  /\ ext' = Unlisted(ext, th[t].f)
  /\ list' = Without(th[t].f)
  /\ Goto(t, "free")
  /\ UNCHANGED <<hooked, known, owner, spinning, broken>>

FreeAllDeviceRelations(t) ==
  /\ At(t, "free")
  /\ SetNewDeviceRelations(t, th[t].f, Null, th[t].ret)
  /\ UNCHANGED <<list, hooked, known, owner, spinning, broken>>

\* Mutant: the virtual PDO remains counted.
ClearWithoutRelation(t) ==
  /\ At(t, "cleared")
  /\ LET f == th[t].f IN
     /\ ReportNewDeviceState(f, "Deleted")
     /\ ext' = [ext EXCEPT ![f].life = "freed", ![f].state = "Deleted"]
     /\ th' = [th EXCEPT ![t].x = ext[f].vpdo, ![t].pc = "delete", ![t].ret = "done"]
  /\ UNCHANGED <<list, hooked, owner, spinning, broken>>

\* ...its extension is cleared and deleted: the reference it has to the virtual
\* PDO goes over to the thread, which has the virtual PDO deleted too.
ClearFilterDeviceExtension(t) ==
  /\ At(t, "cleared")
  /\ LET f == th[t].f IN
     /\ ReportNewDeviceState(f, "Deleted")
     /\ ext' = [ext EXCEPT ![f].life = "freed", ![f].state = "Deleted", ![ext[f].vpdo].rel = @ - 1]
     /\ th' = [th EXCEPT ![t].x = ext[f].vpdo, ![t].pc = "delete", ![t].ret = "done"]
  /\ UNCHANGED <<list, hooked, owner, spinning, broken>>

-----------------------------------------------------------------------------
(* The hooked dispatch of the driver that has the physical device *)

Starts(t) == Op(t).do = "start"
Beyond(t) == IF Starts(t) THEN "started" ELSE "cleared"

\* A device that is started and has no filter yet gets one.
PnPMajorHookDispatch(t) ==
  /\ At(t, "hook")
  /\ ~spinning
  /\ LET x == Found(Op(t).dev) IN
     IF Op(t).dev \notin hooked \/ ~Lockable(x)
     THEN Goto(t, Beyond(t)) /\ UNCHANGED ext
     ELSE /\ ext' = Referenced(x)
          /\ th' = [th EXCEPT ![t].h = x, ![t].created = FALSE, ![t].ret = "hookstate",
                        ![t].pc = IF Starts(t) /\ ~ext[x].attached THEN "find" ELSE "hookstate"]
  /\ UNCHANGED <<list, hooked, known, owner, spinning, broken>>

SetPdoState(t) ==
  /\ At(t, "hookstate")
  /\ LET state == IF Starts(t) THEN "Started" ELSE "Deleted" IN
     /\ ext' = [ext EXCEPT ![th[t].h].state = state]
     /\ ReportNewDeviceState(th[t].h, state)
  /\ Goto(t, "hooked")
  /\ UNCHANGED <<list, hooked, owner, spinning, broken>>

CallOriginal(t) ==
  /\ At(t, "hooked")
  /\ Release(th[t].h)
  /\ th' = [th EXCEPT ![t].x = th[t].h, ![t].pc = "deref", ![t].ret = Beyond(t)]
  /\ UNCHANGED <<list, hooked, known, owner, spinning, broken>>

\* The bus driver unloads when its devices are gone.
DriverUnloadHook(t) ==
  /\ Begins(t, {"unload"})
  /\ hooked' = IF FilterOf(Op(t).dev) = {} THEN hooked \ {Op(t).dev} ELSE hooked
  /\ Goto(t, "done")
  /\ UNCHANGED <<ext, list, known, owner, spinning, broken>>

-----------------------------------------------------------------------------
(* A device is added *)

Unused == {x \in Exts : ext[x].life = "none"}
Fresh  == CHOOSE x \in Unused : \A y \in Unused : x <= y

Added(d, kind) == [NoExt EXCEPT !.life = "live", !.dev = d, !.kind = kind]
NewVirtual(d)  == IF d \in PnpDevices THEN [Added(d, "pdo") EXCEPT !.refs = 1, !.rel = 1]
                  ELSE [Added(d, "lower") EXCEPT !.refs = 1]

\* FilterAddDevice and OcFilterAttachToDevice.
AddDevice(t) ==
  /\ Begins(t, {"add", "attach"})
  /\ Goto(t, IF FilterOf(Op(t).dev) = {} THEN "find" ELSE "done")
  /\ UNCHANGED <<ext, list, hooked, known, owner, spinning, broken>>

\* OcFilterAddDeviceFTI, for a stack that was built before the driver was
\* loaded: the virtual PDO first, without a hook.
AddDeviceFTI(t) ==
  /\ Begins(t, {"fti"})
  /\ ~spinning
  /\ IF FilterOf(Op(t).dev) = {} /\ Unused # {}
     THEN /\ ext' = [ext EXCEPT ![Fresh] = NewVirtual(Op(t).dev)]
          /\ list' = Append(list, Fresh)
          /\ Goto(t, "find")
     ELSE Goto(t, "done") /\ UNCHANGED <<ext, list>>
  /\ UNCHANGED <<hooked, known, owner, spinning, broken>>

FindVirtualPdo(t) ==
  /\ At(t, "find")
  /\ ~spinning
  /\ LET x == Found(Op(t).dev) IN
     IF Lockable(x) THEN ext' = Referenced(x) /\ th' = [th EXCEPT ![t].x = x, ![t].pc = "create"]
     ELSE IF th[t].created THEN Goto(t, th[t].ret) /\ UNCHANGED ext
     ELSE Goto(t, "virtual") /\ UNCHANGED ext
  /\ UNCHANGED <<list, hooked, known, owner, spinning, broken>>

\* The PnP dispatch and the unload routine of the bus driver are exchanged, once.
HookDriver(d) == hooked' = hooked \cup {d}

AddVirtualDeviceForPdo(t) ==
  /\ At(t, "virtual")
  /\ ~spinning
  /\ \/ /\ "hook" \in Faults
        /\ Goto(t, th[t].ret)
        /\ UNCHANGED <<ext, list, hooked>>
     \/ /\ Unused # {}
        /\ HookDriver(Op(t).dev)
        /\ ext' = [ext EXCEPT ![Fresh] = NewVirtual(Op(t).dev)]
        /\ list' = Append(list, Fresh)
        /\ th' = [th EXCEPT ![t].created = TRUE, ![t].pc = "find"]
  /\ UNCHANGED <<known, owner, spinning, broken>>

\* The filter device cannot be created or attached: a virtual PDO that was
\* made for it goes.
AddFails(t) ==
  /\ At(t, "create")
  /\ Faults \cap {"create", "attach"} # {}
  /\ Release(th[t].x)
  /\ Goto(t, IF th[t].created THEN "delete" ELSE "deref")
  /\ UNCHANGED <<list, hooked, known, owner, spinning, broken>>

AttachFilterDevice(t) ==
  /\ At(t, "create")
  /\ Unused # {}
  /\ LET x == th[t].x IN
     ext' = [ext EXCEPT ![x].attached = TRUE, ![x].refs = @ + 1, ![x].rel = @ + 1,
                        ![Fresh] = [Added(Op(t).dev, "filter") EXCEPT !.vpdo = x]]
  /\ th' = [th EXCEPT ![t].n = Fresh, ![t].pc = "report"]
  /\ UNCHANGED <<list, hooked, known, owner, spinning, broken>>

ReportAddedDevice(t) ==
  /\ At(t, "report")
  /\ ReportNewDevice(th[t].n)
  /\ Goto(t, "insert")
  /\ UNCHANGED <<ext, list, hooked, owner, spinning, broken>>

InsertInList(t) ==
  /\ At(t, "insert")
  /\ ~spinning
  /\ list' = Append(list, th[t].n)
  /\ Goto(t, "added")
  /\ UNCHANGED <<ext, hooked, known, owner, spinning, broken>>

\* A device that is not of PnP is started from the beginning.
AddedDevice(t) ==
  /\ At(t, "added")
  /\ LET n == th[t].n IN
     IF Op(t).do = "attach"
     THEN /\ ext' = [ext EXCEPT ![th[t].x].holders = @ - 1, ![n].state = "Started"]
          /\ ReportNewDeviceState(n, "Started")
     ELSE Release(th[t].x) /\ UNCHANGED known
  /\ Goto(t, "deref")
  /\ UNCHANGED <<list, hooked, owner, spinning, broken>>

-----------------------------------------------------------------------------
(* OcFilterReportExisitingDevices: the extension that is reported is locked, *)
(* not referenced, and its entry leads to the next one.                      *)

\* The place behind an entry, as its pointer has it.
Behind(x) == IF x = 0 THEN 1
             ELSE IF Listed(x) THEN Place(x) + 1
             ELSE IF ext[x].flink = 0 THEN Len(list) + 1 ELSE Place(ext[x].flink)

Astray(x) == x # 0 /\ ~Listed(x) /\ ext[x].flink # 0 /\ ~Listed(ext[x].flink)

ReportExisitingDevices(t) ==
  /\ Begins(t, {"report"})
  /\ Goto(t, "walk")
  /\ UNCHANGED <<ext, list, hooked, known, owner, spinning, broken>>

\* The lock on the previous one goes first; once it has gone an extension that
\* left the list may be freed before its pointer is read.
NextReportedDevice(t) ==
  /\ At(t, "walk")
  /\ ~spinning
  /\ LET cur == th[t].request
         free == IF cur = 0 THEN ext ELSE [ext EXCEPT ![cur].holders = @ - 1]
         places == {i \in DOMAIN list : i >= Behind(cur) /\ Lockable(list[i])}
         next == list[CHOOSE i \in places : \A j \in places : i <= j]
     IN  \/ /\ cur # 0 /\ (Astray(cur) \/ (~Listed(cur) /\ free[cur].closing /\ free[cur].holders = 0))
           /\ ext' = free
           /\ broken' = broken \cup {"follow"}
           /\ Goto(t, "crash")
        \/ /\ ~Astray(cur)
           /\ places = {}
           /\ ext' = free
           /\ Goto(t, "done")
           /\ UNCHANGED broken
        \/ /\ ~Astray(cur)
           /\ places # {}
           /\ ext' = [free EXCEPT ![next].holders = @ + 1]
           /\ th' = [th EXCEPT ![t].request = next, ![t].pc = "tell"]
           /\ UNCHANGED broken
  /\ UNCHANGED <<list, hooked, known, owner, spinning>>

ReportExistingDevice(t) ==
  /\ At(t, "tell")
  /\ ReportNewDevice(th[t].request)
  /\ Goto(t, "read")
  /\ UNCHANGED <<ext, list, hooked, owner, spinning, broken>>

ReadState(t) ==
  /\ At(t, "read")
  /\ th' = [th EXCEPT ![t].state = ext[th[t].request].state, ![t].pc = "state"]
  /\ UNCHANGED <<ext, list, hooked, known, owner, spinning, broken>>

ReportExistingState(t) ==
  /\ At(t, "state")
  /\ ReportNewDeviceState(th[t].request, th[t].state)
  /\ Goto(t, "walk")
  /\ UNCHANGED <<ext, list, hooked, owner, spinning, broken>>

-----------------------------------------------------------------------------
Deletion(t) == \/ Render(t) \/ CloseVirtualPdo(t) \/ DeleteVirtualPdoByExtensionInternal(t)
               \/ DeleteVirtualPdoByExtension(t) \/ DropInitialReference(t) \/ DereferenceVirtualPdo(t)
Relations(t) == \/ ProcessNewRelations(t) \/ RecordShadow(t) \/ ReleaseOldRelations(t)
                \/ ReleaseOne(t) \/ ReleasedAll(t)
Requests(t) == \/ DispatchRequest(t) \/ FilterPass(t) \/ QueryDeviceRelations(t) \/ QueryCompleted(t)
               \/ StartDevice(t) \/ Started(t) \/ RemoveDevice(t) \/ FastIoDetachDevice(t)
               \/ RemoveDeviceFromTheList(t) \/ FreeAllDeviceRelations(t) \/ ClearFilterDeviceExtension(t)
Hook(t) == PnPMajorHookDispatch(t) \/ SetPdoState(t) \/ CallOriginal(t) \/ DriverUnloadHook(t)
Adding(t) == \/ AddDevice(t) \/ AddDeviceFTI(t) \/ FindVirtualPdo(t) \/ AddVirtualDeviceForPdo(t)
             \/ AddFails(t) \/ AttachFilterDevice(t) \/ ReportAddedDevice(t) \/ InsertInList(t) \/ AddedDevice(t)
Reporting(t) == \/ ReportExisitingDevices(t) \/ NextReportedDevice(t) \/ ReportExistingDevice(t)
                \/ ReadState(t) \/ ReportExistingState(t)

Next == \E t \in Threads : \/ Deletion(t) \/ Relations(t) \/ Requests(t) \/ Hook(t)
                           \/ Adding(t) \/ Reporting(t) \/ Done(t)

Spec == Init /\ [][Next]_vars
FairSpec == Spec /\ WF_vars(Next)

-----------------------------------------------------------------------------
(* Properties *)

\* Who has a reference to a virtual PDO: the filter devices, the relations it
\* was found for, wherever a thread has them at the moment, and the threads
\* that work with it.
Filters(x) == {f \in Exts : ext[f].life = "live" /\ ~Virtual(f) /\ ext[f].vpdo = x}

PlacesIn(ptr, x) == UNION {Places(seq, x) : seq \in ptr}
Kept(f)      == IF ext[f].life = "live" THEN ext[f].shadow ELSE Null
Exchanged(t) == IF th[t].pc \in {"process", "record", "release", "spin"} THEN th[t].shadow ELSE Null
ByRelations(x) ==
  (UNION {{<<"kept", f, i>> : i \in PlacesIn(Kept(f), x)} : f \in Exts})
  \cup (UNION {{<<"old", t, i>> : i \in PlacesIn(Exchanged(t), x)} : t \in Threads})
  \cup (UNION {{<<"new", t, i>> : i \in PlacesIn(th[t].new, x)} : t \in Threads})
  \cup (UNION {{<<"todo", t, i>> : i \in Places(th[t].todo, x)} : t \in Threads})

Adds(t)  == th[t].pc \in {"create", "report", "insert", "added"}
Hooks(t) == th[t].ret = "hookstate"
Owns(t)  == Adds(t) \/ th[t].pc \in {"delete", "drop", "deref"}
Users(x) == {<<"own", t>> : t \in {u \in Threads : Owns(u) /\ th[u].x = x}}
            \cup {<<"hook", t>> : t \in {u \in Threads : Hooks(u) /\ th[u].h = x}}
Initial(x) == IF ext[x].marked /\ ~\E t \in Threads : th[t].x = x /\ th[t].pc = "drop" THEN 0 ELSE 1

\* The reference count of a virtual PDO is the initial reference, the filter
\* devices that point to it, the relations it was found for and the threads
\* that work with it, its count of relations is the filter devices and the
\* relations: OcFilterReferenceVirtualPdoExtension and the InterlockedDecrement
\* of every path are balanced in every interleaving.  Known not to hold once two
\* queries met between the exchange of the relations and the record of what was
\* found for them (pnpfilter.c:934-957), or the memory for it was refused.
CountsAreExact ==
  "shadow" \notin broken =>
    \A x \in Exts : ext[x].life = "live" /\ Virtual(x) =>
      /\ ext[x].refs = Initial(x) + Cardinality(Filters(x)) + Cardinality(ByRelations(x))
                        + Cardinality(Users(x))
      /\ ext[x].rel = (IF ext[x].kind = "pdo" THEN 1 ELSE 0)
                       + Cardinality(Filters(x)) + Cardinality(ByRelations(x))

\* No extension is freed while a thread uses it, a filter device points to it,
\* relations have it or the reporter has it locked, and only one that is
\* out of the list (the order of OcFilterRenderVirtualPdoAsDeleted, the wait of
\* IoReleaseRemoveLockAndWait and the last dereference).
Uses(t) == (IF Owns(t) THEN {th[t].x} ELSE {})
           \cup (IF Hooks(t) THEN {th[t].h} ELSE {})
           \cup (IF th[t].pc \in {"tell", "read", "state"} THEN {th[t].request} ELSE {})
           \cup (IF th[t].pc \in {"sent", "process", "record", "unlock", "closing", "free", "cleared"}
                 THEN {th[t].f} ELSE {})
ExtensionsOutliveTheirUsers ==
  broken = {} =>
    /\ \A t \in Threads : \A x \in Uses(t) : ext[x].life = "live"
    /\ \A x \in Exts : ext[x].life = "freed" =>
         /\ ~Listed(x)
         /\ ByRelations(x) = {} /\ Filters(x) = {}

\* Whoever reports an extension meanwhile, the core driver is told last that the
\* device is deleted: "I make the second and the final call here" of
\* OcFilterDeleteVirtualPdoByExtensionInternal (pnpfilter_hook.c:285-296).
DeletionIsTheLastWord ==
  "follow" \notin broken =>
    \A x \in Exts :
      /\ ext[x].life = "freed"
      /\ Virtual(x) => ~\E y \in Exts : Virtual(y) /\ ext[y].life = "live" /\ ext[y].dev = ext[x].dev
      => known[Key(x)] \in {"none", "Deleted"}

\* Every request, report and removal comes to its end.  Known to be false once
\* the loop over the list has no end or a thread ran into one of the defects.
Ended == \A t \in Threads : th[t].ops = <<>> /\ th[t].del = 0
RequestsEnd == <>(Ended \/ broken # {})

\* "the list is traversed simply by moving pointer to the next list entry"
\* (filter.c:1141-1149): the loop comes to the end of the list.  False: it moves
\* the pointer twice behind an entry that is not a PDO, past the list head.
TraversalEnds == "loop" \notin broken

\* "it presumes that if device's remove lock is acquire then the device will not
\* be removed from the list" (pnpfilter.c:1034-1037).  False for virtual PDOs.
LockedDeviceStaysInList ==
  \A t \in Threads : th[t].pc \in {"tell", "read", "state"} => Listed(th[t].request)

\* The extensions are well formed and their counts are exact.
FilterInvariant == TypeOK /\ CountsAreExact
=============================================================================
