----------------------------- MODULE CoreDriver -----------------------------
(***************************************************************************)
(* The life of the core driver: DriverEntry connects it to the PnP filter  *)
(* and to the driver hooker, which then call it for every request;         *)
(* requests are postponed to worker threads and their completions are      *)
(* hooked, devices come and go, and DriverUnload has to take everything    *)
(* away while all this goes on (init.c, iomngr.c, ioworkerthread.c,        *)
(* complhooker.c, the connection objects of the two other drivers).        *)
(*                                                                         *)
(* A request is served by up to four threads of control: the one that      *)
(* dispatches it, a work item that goes on with it, the one that completes *)
(* it and a work item that goes on with the completion.  Remove locks have *)
(* the steps RemoveLock proves to be rundown protection, taken at once.    *)
(***************************************************************************)
EXTENDS Integers, FiniteSets

CONSTANTS
  Requests,     \* what the two drivers call the core driver for
  Kinds,        \* what each of them may be: [kind, high, logged, dev]
  Devices,      \* the device objects of the core driver
  BootDevices,  \* those the PnP filter reports to DriverEntry
  Faults        \* what may fail

ASSUME CoreDriverAssumption ==
  /\ IsFiniteSet(Requests) /\ IsFiniteSet(Devices) /\ Devices # {} /\ "none" \notin Devices
  /\ BootDevices \subseteq Devices
  /\ Kinds \in [Requests -> SUBSET [kind : {"hook", "pnp", "report", "remove"},
                                    high : BOOLEAN, logged : BOOLEAN, dev : Devices]]
  /\ Faults \subseteq {"pools", "hashes", "pnp", "hooker", "filter", "copy", "post", "context"}

VARIABLES
  boot,      \* the thread of DriverEntry, of the unload query and of DriverUnload
  up,        \* what is initialized, and DeviceInformationCollected
  conn,      \* the connection objects: are they current, their references
  event,     \* the disconnection events of the core driver
  global,    \* Global.RemoveLock
  dev,       \* the device objects: in the hash, references, remove lock
  type,      \* the object type of the devices
  req,       \* what each request is
  at,        \* where its threads of control are
  ret,       \* whose node context says that the request must not be sent
  sent       \* how many times the request was sent to the driver below or completed

vars == <<boot, up, conn, event, global, dev, type, req, at, ret, sent>>

Drivers == {"hook", "pnp"}
Roles   == {"disp", "item", "comp", "citem"}
Parts   == {"lists", "pools", "hashes", "exports", "collected"}

Points == {"new", "none", "in", "node", "copy", "lock", "post", "hook", "context", "cookie",
           "unhook", "deref", "decide", "leave", "send", "insert", "remove", "wait",
           "queued", "unlock", "drop", "free", "freed", "hooked", "callback", "release",
           "finish", "end", "out"}

NoReq   == [kind |-> "none", high |-> FALSE, logged |-> FALSE,
            dev |-> CHOOSE d \in Devices : TRUE]
NewLock == [count |-> 1, removed |-> FALSE, signalled |-> FALSE]
NewType == [count |-> 0, marked |-> FALSE, deleted |-> FALSE]
NoDev   == [obj |-> "none", hashed |-> FALSE, refs |-> 0, lock |-> NewLock, by |-> <<>>]

TypeOK ==
  /\ boot.mode \in {"entry", "query", "unload"}
  /\ up \subseteq Parts
  /\ \A s \in Drivers : conn[s].current \in BOOLEAN /\ conn[s].refs \in Nat
  /\ event \in [Drivers -> BOOLEAN]
  /\ global.count \in Nat
  /\ \A d \in Devices : /\ dev[d].obj \in {"none", "live", "dying", "counted", "gone"}
                        /\ dev[d].refs \in Nat
                        /\ dev[d].refs > 0 <=> dev[d].obj = "live"
                        /\ dev[d].hashed => dev[d].obj = "live"
  /\ type.count \in Nat
  /\ at \in [Requests -> [Roles -> Points]]
  /\ ret \in [Requests -> SUBSET {"disp", "item"}]
  /\ sent \in [Requests -> Nat]

Init ==
  /\ boot = [pc |-> "lists", mode |-> "entry", queried |-> FALSE, dev |-> "none"]
  /\ up = {}
  /\ conn = [s \in Drivers |-> [current |-> FALSE, refs |-> 0]]
  /\ event = [s \in Drivers |-> TRUE]
  /\ global = [NewLock EXCEPT !.count = 2]
  /\ dev = [d \in Devices |-> NoDev]
  /\ type = NewType
  /\ req = [r \in Requests |-> NoReq]
  /\ at = [r \in Requests |-> [role \in Roles |-> IF role = "disp" THEN "new" ELSE "none"]]
  /\ ret = [r \in Requests |-> {}]
  /\ sent = [r \in Requests |-> 0]

-----------------------------------------------------------------------------
(* Remove locks, references and the threads of control *)

Released(l) == [l EXCEPT !.count = @ - 1, !.signalled = @ \/ l.count = 1]

\* OcRlReleaseRemoveLockAndWait up to its wait: the reference of the caller
\* and the one of the initialization are given back.
Closed(l)  == [l EXCEPT !.count = @ - 2, !.removed = TRUE]
Drained(l) == l.count <= 0 \/ l.signalled

Source(r) == IF req[r].kind = "hook" THEN "hook" ELSE "pnp"
IsIo(r)   == req[r].kind \in {"hook", "pnp"}
Dev(r)    == req[r].dev

Goto(r, role, from, to) == /\ at[r][role] = from
                           /\ at' = [at EXCEPT ![r][role] = to]

\* Both move: one thread of control starts, or moves, another.
Fork(r, role, from, to, other, point) ==
  /\ at[r][role] = from
  /\ at' = [at EXCEPT ![r][role] = to, ![r][other] = point]

Reference(d)      == dev' = [dev EXCEPT ![d].refs = @ + 1]

\* OcObDereferenceObject by a thread, which goes on to delete the object when
\* its reference was the last one.
Dereferenced(p, by) == IF p.refs > 1 THEN [p EXCEPT !.refs = @ - 1]
                       ELSE [p EXCEPT !.refs = 0, !.obj = "dying", !.by = by]
Dereference(d, by) == dev' = [dev EXCEPT ![d] = Dereferenced(@, by)]

\* The last reference to a connection object sets the disconnection event.
DeleteConnectObject(s) == event' = [event EXCEPT ![s] = TRUE]
DereferenceConnection(s) ==
  /\ conn' = [conn EXCEPT ![s].refs = @ - 1]
  /\ IF conn[s].refs = 1 THEN DeleteConnectObject(s) ELSE UNCHANGED event

-----------------------------------------------------------------------------
(* The deletion of a device object, by the thread that dropped it *)

\* What a thread is busy with before it can go on.
Busy(who) == \E d \in Devices : dev[d].obj \in {"dying", "counted"} /\ dev[d].by = who

DeleteDeviceObjectType == type' = [type EXCEPT !.deleted = TRUE]

\* OcObDeleteObject: the object is freed and leaves the count of its type...
DeleteDeviceObject(d) ==
  /\ dev[d].obj = "dying"
  /\ type' = [type EXCEPT !.count = @ - 1]
  /\ dev' = [dev EXCEPT ![d].obj = IF type.count = 1 THEN "counted" ELSE "gone"]
  /\ UNCHANGED <<boot, up, conn, event, global, req, at, ret, sent>>

\* ...and the last one of a marked type deletes the type, too, unless an object
\* was created in between.
DeleteMarkedType(d) ==
  /\ dev[d].obj = "counted"
  /\ IF type.marked /\ type.count = 0 THEN DeleteDeviceObjectType ELSE UNCHANGED type
  /\ dev' = [dev EXCEPT ![d].obj = "gone"]
  /\ UNCHANGED <<boot, up, conn, event, global, req, at, ret, sent>>

-----------------------------------------------------------------------------
(* The dispatch functions of the two drivers *)

\* The request goes to the original function of the hooked driver, or to the
\* device below the filter.
Send(r) == sent' = [sent EXCEPT ![r] = @ + 1]

\* The driver calls the core driver through its current connection object, or
\* passes the request on when there is none.
ReferenceCurrentConnectObject(r) ==
  \E q \in Kinds[r] :
    /\ req' = [req EXCEPT ![r] = q]
    /\ LET s == IF q.kind = "hook" THEN "hook" ELSE "pnp"
           first == CASE q.kind = "report" -> "insert"
                      [] q.kind = "remove" -> "remove"
                      [] OTHER -> "in"
       IN  IF conn[s].current
           THEN /\ conn' = [conn EXCEPT ![s].refs = @ + 1]
                /\ Goto(r, "disp", "new", first)
                /\ UNCHANGED sent
           ELSE /\ Goto(r, "disp", "new", "out")
                /\ IF q.kind \in Drivers THEN Send(r) ELSE UNCHANGED sent
                /\ UNCHANGED conn
    /\ UNCHANGED <<boot, up, event, global, dev, type, ret>>


\* The context of the thread says whether the request is still to be sent.
RequestCompletedOrPending(r, role) == role \in ret[r]

\* Mutant: the request is sent whatever the context of the dispatch says.
DecideToSend(r) ==
  /\ Goto(r, "disp", "decide", "leave")
  /\ IF req[r].kind = "hook" THEN Send(r) ELSE UNCHANGED sent
  /\ UNCHANGED <<boot, up, conn, event, global, dev, type, req, ret>>

\* The hooked driver is called from the callback; the PnP filter passes the
\* request on after the callback has returned.
Decide(r) ==
  /\ Goto(r, "disp", "decide", "leave")
  /\ IF req[r].kind = "hook" /\ ~RequestCompletedOrPending(r, "disp")
     THEN Send(r) ELSE UNCHANGED sent
  /\ UNCHANGED <<boot, up, conn, event, global, dev, type, req, ret>>

Leave(r) ==
  /\ LET send == req[r].kind = "pnp" /\ ~RequestCompletedOrPending(r, "disp")
     IN  IF send THEN Send(r) ELSE UNCHANGED sent
  /\ Goto(r, "disp", "leave", "out")
  /\ DereferenceConnection(Source(r))
  /\ UNCHANGED <<boot, up, global, dev, type, req, ret>>

\* The drivers below complete the request, whose completion may be hooked.
LowerDriverCompletes(r) ==
  /\ sent[r] > 0
  /\ Goto(r, "comp", "hooked", "callback")
  /\ UNCHANGED <<boot, up, conn, event, global, dev, type, req, ret, sent>>

-----------------------------------------------------------------------------
(* The core driver's callbacks for a request *)

\* The device is looked for in the hash, unless the request is of no interest
\* or, for the PnP filter, the information about devices is not complete.
FindDevice(r) ==
  /\ \/ /\ dev[Dev(r)].hashed
        /\ req[r].kind = "pnp" => "collected" \in up
        /\ Reference(Dev(r))
        /\ Goto(r, "disp", "in", "node")
     \/ UNCHANGED dev /\ Goto(r, "disp", "in", "decide")
  /\ UNCHANGED <<boot, up, conn, event, global, type, req, ret, sent>>

\* What follows the processing of a request by its device, and what follows the
\* visit to the nodes of its stack: a request to be logged or shadowed has its
\* completion hooked.
\* The callback of the PnP filter marks a request for the log at the upper device.
IsLogged(r)      == req[r].logged
After(role)      == IF role = "disp" THEN "deref" ELSE "send"
Visited(r, role) == IF IsLogged(r) THEN "hook" ELSE After(role)

\* The nodes of the device's stack are visited, unless the device has not been
\* started or the request is of no interest; at a high level the visit is
\* postponed.
ProcessIrpBasedDeviceRequest(r) ==
  /\ \/ Goto(r, "disp", "node", IF req[r].high THEN "copy" ELSE Visited(r, "disp"))
     \/ Goto(r, "disp", "node", "deref")
  /\ UNCHANGED <<boot, up, conn, event, global, dev, type, req, ret, sent>>

\* A context of the request that outlives the dispatch: it refers to the
\* device.  Without memory the request is processed here and now.
CreateNodeCtxCopy(r) ==
  /\ \/ Reference(Dev(r)) /\ Goto(r, "disp", "copy", "lock")
     \/ "copy" \in Faults /\ UNCHANGED dev /\ Goto(r, "disp", "copy", Visited(r, "disp"))
  /\ UNCHANGED <<boot, up, conn, event, global, type, req, ret, sent>>

\* The exit path of a failure gives back the remove lock and the reference of
\* the copy.
UndoPostponing(r) ==
  LET p == dev[Dev(r)] IN
  dev' = [dev EXCEPT ![Dev(r)] =
            [Dereferenced(p, <<r, "disp">>) EXCEPT !.lock = Released(p.lock)]]

\* The remove lock of the device is acquired.  When it refuses, the exit path
\* releases it all the same, and frees the copy; the request goes on.
AcquireDeviceLock(r) ==
  LET d == Dev(r) IN
  /\ at[r]["disp"] = "lock"
  /\ IF ~dev[d].lock.removed
     THEN /\ dev' = [dev EXCEPT ![d].lock.count = @ + 1]
          /\ Goto(r, "disp", "lock", "post")
     ELSE /\ UndoPostponing(r)
          /\ Goto(r, "disp", "lock", Visited(r, "disp"))
  /\ UNCHANGED <<boot, up, conn, event, global, type, req, ret, sent>>

\* The work item refers to the device, too, and the context says that the
\* request is pending.  When the post fails, all of this is undone.
IoPostponeNodeFunctionInWorkerThread(r) ==
  LET d == Dev(r) IN
  /\ \/ /\ Reference(d)
        /\ ret' = [ret EXCEPT ![r] = @ \union {"disp"}]
        /\ Fork(r, "disp", "post", "deref", "item", "queued")
     \/ /\ "post" \in Faults
        /\ UndoPostponing(r)
        /\ Goto(r, "disp", "post", Visited(r, "disp"))
        /\ UNCHANGED ret
  /\ UNCHANGED <<boot, up, conn, event, global, type, req, sent>>

DereferenceDevice(r) ==
  /\ Goto(r, "disp", "deref", "decide")
  /\ Dereference(Dev(r), <<r, "disp">>)
  /\ UNCHANGED <<boot, up, conn, event, global, type, req, ret, sent>>

-----------------------------------------------------------------------------
(* The work item of a postponed request *)

\* It processes the request as its dispatch would have done at a low level.
IoNodeFunctionWR(r) ==
  /\ "pools" \in up
  /\ Goto(r, "item", "queued", Visited(r, "item")) \/ Goto(r, "item", "queued", "send")
  /\ UNCHANGED <<boot, up, conn, event, global, dev, type, req, ret, sent>>

SendFromItem(r) ==
  /\ Goto(r, "item", "send", "unlock")
  /\ IF RequestCompletedOrPending(r, "item") THEN UNCHANGED sent ELSE Send(r)
  /\ UNCHANGED <<boot, up, conn, event, global, dev, type, req, ret>>

ReleaseDeviceLock(r) ==
  /\ Goto(r, "item", "unlock", "drop")
  /\ dev' = [dev EXCEPT ![Dev(r)].lock = Released(@)]
  /\ UNCHANGED <<boot, up, conn, event, global, type, req, ret, sent>>

DropDevice(r) ==
  /\ Goto(r, "item", "drop", "free")
  /\ Dereference(Dev(r), <<r, "item">>)
  /\ UNCHANGED <<boot, up, conn, event, global, type, req, ret, sent>>

\* OcCrFreeNodeContextCopy: the reference of the context to the device is
\* dropped before the block goes back to the lookaside list.
FreeNodeContextCopy(r) ==
  /\ Goto(r, "item", "free", "freed")
  /\ Dereference(Dev(r), <<r, "item">>)
  /\ UNCHANGED <<boot, up, conn, event, global, type, req, ret, sent>>

NodeContextFreed(r) ==
  /\ Goto(r, "item", "freed", "out")
  /\ UNCHANGED <<boot, up, conn, event, global, dev, type, req, ret, sent>>

-----------------------------------------------------------------------------
(* Hooking the completion of a request, and the hooked completion *)

\* The remove lock of the driver is acquired first; a driver that unloads
\* leaves the request alone.
AcquireGlobalLock(r, role) ==
  /\ IF global.removed
     THEN Goto(r, role, "hook", After(role)) /\ UNCHANGED global
     ELSE /\ Goto(r, role, "hook", "context")
          /\ global' = [global EXCEPT !.count = @ + 1]
  /\ UNCHANGED <<boot, up, conn, event, dev, type, req, ret, sent>>

\* Without memory for the context the core driver completes the request.
AllocateCompletionHookContext(r, role) ==
  /\ \/ Goto(r, role, "context", "cookie") /\ UNCHANGED <<global, ret, sent>>
     \/ /\ "context" \in Faults
        /\ Goto(r, role, "context", After(role))
        /\ global' = Released(global)
        /\ ret' = [ret EXCEPT ![r] = @ \union {role}]
        /\ Send(r)
  /\ UNCHANGED <<boot, up, conn, event, dev, type, req>>

\* OcHoookerAcquireCookieForCompletionRoutine: the context refers to the
\* connection object of the hooker while it is the current one, and from then
\* on the completion routine of the hooker is called for the request.  A
\* refusal gives the lock back before the context.
AcquireCookieForCompletion(r, role) ==
  /\ IF conn["hook"].current
     THEN /\ conn' = [conn EXCEPT !["hook"].refs = @ + 1]
          /\ Fork(r, role, "cookie", After(role), "comp", "hooked")
          /\ UNCHANGED global
     ELSE /\ Goto(r, role, "cookie", "unhook")
          /\ global' = Released(global)
          /\ UNCHANGED conn
  /\ UNCHANGED <<boot, up, event, dev, type, req, ret, sent>>

HookRefused(r, role) ==
  /\ Goto(r, role, "unhook", After(role))
  /\ UNCHANGED <<boot, up, conn, event, global, dev, type, req, ret, sent>>

HookCompletion(r, role) ==
  \/ AcquireGlobalLock(r, role) \/ AllocateCompletionHookContext(r, role)
  \/ AcquireCookieForCompletion(r, role) \/ HookRefused(r, role)

\* The callback goes on with the completion, or leaves that to a work item.
CompletionCallback(r) ==
  /\ \/ Goto(r, "comp", "callback", "free")
     \/ Fork(r, "comp", "callback", "finish", "citem", "queued")
  /\ UNCHANGED <<boot, up, conn, event, global, dev, type, req, ret, sent>>

CallCompletionCallbackWR(r) ==
  /\ "pools" \in up
  /\ Goto(r, "citem", "queued", "free")
  /\ UNCHANGED <<boot, up, conn, event, global, dev, type, req, ret, sent>>

\* OcCmHkContinueCompletion: the request goes on to its original completion
\* routine, the context is freed, then the remove lock is released.
ContinueCompletion(r, role) ==
  /\ role \in {"comp", "citem"}
  /\ Goto(r, role, "free", "release")
  /\ UNCHANGED <<boot, up, conn, event, global, dev, type, req, ret, sent>>

ReleaseGlobalLock(r, role) ==
  /\ Goto(r, role, "release", IF role = "comp" THEN "finish" ELSE "end")
  /\ global' = Released(global)
  /\ UNCHANGED <<boot, up, conn, event, dev, type, req, ret, sent>>

CompletionItemEnds(r) ==
  /\ Goto(r, "citem", "end", "out")
  /\ UNCHANGED <<boot, up, conn, event, global, dev, type, req, ret, sent>>

\* Mutant: the cookie is kept.
CookieIsKept(r) ==
  /\ Goto(r, "comp", "finish", "out")
  /\ UNCHANGED <<boot, up, conn, event, global, dev, type, req, ret, sent>>

\* The hooker drops its reference to the connection object, the cookie.
HookerCompletionRoutine(r) ==
  /\ Goto(r, "comp", "finish", "out")
  /\ DereferenceConnection("hook")
  /\ UNCHANGED <<boot, up, global, dev, type, req, ret, sent>>

-----------------------------------------------------------------------------
(* Devices are reported and removed *)

NewDevice == [NoDev EXCEPT !.obj = "live", !.hashed = TRUE, !.refs = 1]

\* A device is created and inserted in the hash, which keeps its reference.
CreateDevice(d) ==
  /\ dev' = [dev EXCEPT ![d] = NewDevice]
  /\ type' = [type EXCEPT !.count = @ + 1]

ReportNewDevice(r) ==
  /\ Goto(r, "disp", "insert", "leave")
  /\ IF dev[Dev(r)].obj = "none" THEN CreateDevice(Dev(r)) ELSE UNCHANGED <<dev, type>>
  /\ UNCHANGED <<boot, up, conn, event, global, req, ret, sent>>

\* Whoever takes the device out of the hash cleans it up: the remove lock is
\* acquired and released for good (who looks for the device and who acquires its
\* lock cannot tell the two steps apart), those who have it are waited for, and
\* the reference of the hash is dropped.
RemoveFromHash(d) ==
  dev' = [dev EXCEPT ![d].hashed = FALSE, 
                     ![d].lock = Closed([dev[d].lock EXCEPT !.count = @ + 1])]

RemoveDevice(r) ==
  /\ IF dev[Dev(r)].hashed
     THEN Goto(r, "disp", "remove", "wait") /\ RemoveFromHash(Dev(r))
     ELSE Goto(r, "disp", "remove", "leave") /\ UNCHANGED dev
  /\ UNCHANGED <<boot, up, conn, event, global, type, req, ret, sent>>

CleanupAfterRemovingFromHash(r) ==
  /\ Drained(dev[Dev(r)].lock)
  /\ Goto(r, "disp", "wait", "leave")
  /\ Dereference(Dev(r), <<r, "disp">>)
  /\ UNCHANGED <<boot, up, conn, event, global, type, req, ret, sent>>

-----------------------------------------------------------------------------
(* DriverEntry *)

BootTo(from, to) == boot.pc = from /\ boot' = [boot EXCEPT !.pc = to]

\* A failure runs DriverUnload in the same thread.
Fails(from, fault) ==
  /\ fault \in Faults
  /\ boot.mode = "entry" /\ boot.pc = from
  /\ boot' = [boot EXCEPT !.mode = "unload", !.pc = "disconnect pnp"]

InitializeSubsystems ==
  /\ BootTo("lists", "pools")
  /\ up' = up \union {"lists"}
  /\ UNCHANGED <<conn, event, global, dev, type, req, at, ret, sent>>

CreateThreadPools ==
  /\ \/ boot.mode = "entry" /\ BootTo("pools", "hashes") /\ up' = up \union {"pools"}
     \/ Fails("pools", "pools") /\ UNCHANGED up
  /\ UNCHANGED <<conn, event, global, dev, type, req, at, ret, sent>>

CreateHashes ==
  /\ \/ boot.mode = "entry" /\ BootTo("hashes", "connect pnp") /\ up' = up \union {"hashes"}
     \/ Fails("hashes", "hashes") /\ UNCHANGED up
  /\ UNCHANGED <<conn, event, global, dev, type, req, at, ret, sent>>

\* The other driver makes a connection object the current one; the event that
\* tells of its deletion is reset.
ConnectionRequired(s) ==
  /\ conn' = [conn EXCEPT ![s] = [current |-> TRUE, refs |-> 1]]
  /\ event' = [event EXCEPT ![s] = FALSE]

\* The connection with the PnP filter; that with the hooker gives its functions, too.
FilterConnectionRequired == ConnectionRequired("pnp")

ConnectToPnpFilter ==
  /\ \/ BootTo("connect pnp", "connect hook") /\ FilterConnectionRequired
     \/ Fails("connect pnp", "pnp") /\ UNCHANGED <<conn, event>>
  /\ UNCHANGED <<up, global, dev, type, req, at, ret, sent>>

ConnectToHooker ==
  /\ \/ /\ BootTo("connect hook", "report")
        /\ ConnectionRequired("hook")
        /\ up' = up \union {"exports"}
     \/ Fails("connect hook", "hooker") /\ UNCHANGED <<conn, event, up>>
  /\ UNCHANGED <<global, dev, type, req, at, ret, sent>>

\* OcFilterReportExisitingDevices calls ReportNewDevice for every device.
ReportExistingDevice(d) ==
  /\ boot.pc = "report" /\ dev[d].obj = "none"
  /\ CreateDevice(d)
  /\ UNCHANGED <<boot, up, conn, event, global, req, at, ret, sent>>

DeviceInformationCollected ==
  /\ \A d \in BootDevices : dev[d].obj # "none"
  /\ BootTo("report", "filter")
  /\ up' = up \union {"collected"}
  /\ UNCHANGED <<conn, event, global, dev, type, req, at, ret, sent>>

StartFsdFiltering ==
  /\ BootTo("filter", "running") \/ Fails("filter", "filter")
  /\ UNCHANGED <<up, conn, event, global, dev, type, req, at, ret, sent>>

DriverEntry ==
  \/ InitializeSubsystems \/ CreateThreadPools \/ CreateHashes \/ ConnectToPnpFilter
  \/ ConnectToHooker \/ (\E d \in BootDevices : ReportExistingDevice(d))
  \/ DeviceInformationCollected \/ StartFsdFiltering

-----------------------------------------------------------------------------
(* DriverUnload, and the unload query that runs a part of it beforehand *)

\* IOCTL_QUERY_UNLOAD, which does not wait for the other drivers.
QueryUnload ==
  /\ boot.pc = "running" /\ ~boot.queried
  /\ boot' = [boot EXCEPT !.pc = "disconnect pnp", !.mode = "query", !.queried = TRUE]
  /\ UNCHANGED <<up, conn, event, global, dev, type, req, at, ret, sent>>

DriverUnload ==
  /\ boot.pc = "running"
  /\ boot' = [boot EXCEPT !.pc = "disconnect pnp", !.mode = "unload"]
  /\ UNCHANGED <<up, conn, event, global, dev, type, req, at, ret, sent>>

\* The connection object is no longer the current one, and loses the
\* reference of its creation.
Disconnect(s) ==
  IF conn[s].current
  THEN /\ conn' = [conn EXCEPT ![s] = [current |-> FALSE, refs |-> @.refs - 1]]
       /\ IF conn[s].refs = 1 THEN DeleteConnectObject(s) ELSE UNCHANGED event
  ELSE UNCHANGED <<conn, event>>

DisconnectFromPnPFilter ==
  /\ BootTo("disconnect pnp", "disconnect hook")
  /\ Disconnect("pnp")
  /\ UNCHANGED <<up, global, dev, type, req, at, ret, sent>>

DisconnectFromHooker ==
  /\ BootTo("disconnect hook", IF boot.mode = "unload" THEN "wait pnp" ELSE "purge")
  /\ Disconnect("hook")
  /\ UNCHANGED <<up, global, dev, type, req, at, ret, sent>>

\* Mutant: only the PnP filter is waited for.
WaitForPnPFilterOnly ==
  /\ \/ event["pnp"] /\ BootTo("wait pnp", "wait hook")
     \/ BootTo("wait hook", "close")
  /\ UNCHANGED <<up, conn, event, global, dev, type, req, at, ret, sent>>

\* The unload waits until there is no instruction pointer in any callback.
WaitForDisconnection ==
  /\ \/ event["pnp"] /\ BootTo("wait pnp", "wait hook")
     \/ event["hook"] /\ BootTo("wait hook", "close")
  /\ UNCHANGED <<up, conn, event, global, dev, type, req, at, ret, sent>>

ReleaseRemoveLock ==
  /\ BootTo("close", "drain")
  /\ global' = Closed(global)
  /\ UNCHANGED <<up, conn, event, dev, type, req, at, ret, sent>>

WaitForRemoveLock ==
  /\ Drained(global)
  /\ BootTo("drain", "purge")
  /\ UNCHANGED <<up, conn, event, global, dev, type, req, at, ret, sent>>

\* The devices are taken out of the hash and cleaned up one after the other.
PurgeDevice(d) ==
  /\ boot.pc = "purge" /\ dev[d].hashed
  /\ boot' = [boot EXCEPT !.pc = "cleaned", !.dev = d]
  /\ RemoveFromHash(d)
  /\ UNCHANGED <<up, conn, event, global, type, req, at, ret, sent>>

PurgedDeviceIsCleanedUp ==
  /\ boot.pc = "cleaned" /\ Drained(dev[boot.dev].lock)
  /\ boot' = [boot EXCEPT !.pc = "purge", !.dev = "none"]
  /\ Dereference(boot.dev, <<"boot">>)
  /\ UNCHANGED <<up, conn, event, global, type, req, at, ret, sent>>

\* The unload deletes the emptied hashes, too.
Purged ==
  /\ \A d \in Devices : ~dev[d].hashed
  /\ BootTo("purge", IF boot.mode = "unload" THEN "types" ELSE "running")
  /\ up' = IF boot.mode = "unload" THEN up \ {"hashes"} ELSE up
  /\ UNCHANGED <<conn, event, global, dev, type, req, at, ret, sent>>

\* OcObDeleteObjectType: the count of objects is read, and a type that has
\* objects is marked by the next step.
DeleteObjectType ==
  /\ IF type.count = 0
     THEN BootTo("types", "await type") /\ DeleteDeviceObjectType
     ELSE BootTo("types", "mark type") /\ UNCHANGED type
  /\ UNCHANGED <<up, conn, event, global, dev, req, at, ret, sent>>

MarkForDeletion ==
  /\ BootTo("mark type", "await type")
  /\ type' = [type EXCEPT !.marked = TRUE]
  /\ UNCHANGED <<up, conn, event, global, dev, req, at, ret, sent>>

WaitForDeviceType ==
  /\ type.deleted
  /\ BootTo("await type", "delete pools")
  /\ UNCHANGED <<up, conn, event, global, dev, type, req, at, ret, sent>>

\* Mutant: the items under way are not waited for.
DeletePoolsAtOnce ==
  /\ BootTo("delete pools", "delete lists")
  /\ up' = up \ {"pools"}
  /\ UNCHANGED <<conn, event, global, dev, type, req, at, ret, sent>>

\* The deletion of a pool waits for its threads, which finish what they have
\* begun; an item nobody has begun would stay in the list.
DeleteThreadPools ==
  /\ \A r \in Requests, role \in {"item", "citem"} : at[r][role] \in {"none", "queued", "out"}
  /\ BootTo("delete pools", "delete lists")
  /\ up' = up \ {"pools"}
  /\ UNCHANGED <<conn, event, global, dev, type, req, at, ret, sent>>

UnInitializeSubsystems ==
  /\ BootTo("delete lists", "down")
  /\ up' = up \ {"lists"}
  /\ UNCHANGED <<conn, event, global, dev, type, req, at, ret, sent>>

Unload ==
  \/ DisconnectFromPnPFilter \/ DisconnectFromHooker \/ WaitForDisconnection
  \/ ReleaseRemoveLock \/ WaitForRemoveLock \/ (\E d \in Devices : PurgeDevice(d))
  \/ PurgedDeviceIsCleanedUp \/ Purged \/ DeleteObjectType
  \/ MarkForDeletion \/ WaitForDeviceType \/ DeleteThreadPools \/ UnInitializeSubsystems

-----------------------------------------------------------------------------
DispatchStep(r) ==
  \/ Decide(r) \/ Leave(r) \/ FindDevice(r)
  \/ ProcessIrpBasedDeviceRequest(r) \/ CreateNodeCtxCopy(r)
  \/ AcquireDeviceLock(r) \/ IoPostponeNodeFunctionInWorkerThread(r)
  \/ HookCompletion(r, "disp") \/ DereferenceDevice(r) \/ ReportNewDevice(r)
  \/ RemoveDevice(r) \/ CleanupAfterRemovingFromHash(r)

ItemStep(r) ==
  \/ IoNodeFunctionWR(r) \/ HookCompletion(r, "item")
  \/ SendFromItem(r) \/ ReleaseDeviceLock(r) \/ DropDevice(r)
  \/ FreeNodeContextCopy(r) \/ NodeContextFreed(r)

CompletionStep(r) ==
  \/ LowerDriverCompletes(r) \/ CompletionCallback(r) \/ ContinueCompletion(r, "comp")
  \/ ReleaseGlobalLock(r, "comp") \/ HookerCompletionRoutine(r)

CompletionItemStep(r) ==
  \/ CallCompletionCallbackWR(r)
  \/ ContinueCompletion(r, "citem") \/ ReleaseGlobalLock(r, "citem") \/ CompletionItemEnds(r)

Step(r) == \/ ~Busy(<<r, "disp">>) /\ DispatchStep(r)
           \/ ~Busy(<<r, "item">>) /\ ItemStep(r)
           \/ CompletionStep(r) \/ CompletionItemStep(r)

Deletion == \E d \in Devices : DeleteDeviceObject(d) \/ DeleteMarkedType(d)
BootStep == ~Busy(<<"boot">>) /\ (DriverEntry \/ Unload)

Next == \/ \E r \in Requests : Step(r) \/ ReferenceCurrentConnectObject(r)
        \/ Deletion \/ BootStep \/ QueryUnload \/ DriverUnload

Spec == Init /\ [][Next]_vars

\* While a thread has work some thread goes on, and the drivers below complete
\* what they are sent; nobody is obliged to send a request or to unload.  Every
\* thread has a bounded number of steps, so this is all the fairness it takes.
FairSpec == Spec /\ WF_vars((\E r \in Requests : Step(r)) \/ Deletion \/ BootStep)

-----------------------------------------------------------------------------
(* What each point of a thread of control relies on *)
Needs(role, point) ==
  (CASE role = "disp" /\ point \in {"in", "insert", "remove"} -> {"hashes"}
     [] role = "disp" /\ point \in {"copy", "lock", "context", "cookie", "unhook"} -> {"lists"}
     [] role = "disp" /\ point = "post" -> {"lists", "pools"}
     [] role # "disp" /\ point \notin {"none", "out"} -> {"lists", "pools"}
     [] OTHER -> {})
  \cup (IF point \in {"context", "cookie", "unhook"} THEN {"exports"} ELSE {})

(***************************************************************************)
(* Nothing is taken away from, and nothing is missing for, a thread that   *)
(* uses it: DriverUnload deletes the hash after the callbacks have gone    *)
(* (init.c:932), the thread pools and lookaside lists after the last work  *)
(* item and completion context (init.c:988-1063), whether DriverEntry had  *)
(* finished or not; and no completion is hooked before the hooker's        *)
(* functions are known (init.c:777, iomngr.c:766).                         *)
(***************************************************************************)
UsersHaveWhatTheyNeed ==
  \A r \in Requests, role \in Roles : Needs(role, at[r][role]) \subseteq up

(***************************************************************************)
(* When DriverUnload returns no thread is in the code of the driver, and   *)
(* no device object is left (the comment at init.c:1133: no instruction    *)
(* pointer in any callback).                                               *)
(***************************************************************************)
CodeOutlivesItsCallers ==
  boot.pc = "down" =>
    /\ \A r \in Requests : /\ at[r]["disp"] \in {"new", "out"}
                           /\ \A role \in Roles \ {"disp"} : at[r][role] \in {"none", "out"}
    /\ \A d \in Devices : dev[d].obj \in {"none", "gone"}

(***************************************************************************)
(* A request is sent to the driver below, or completed, once, although     *)
(* the thread that dispatched it and a work item may both come to that     *)
(* point, and it has been when nobody works for it any more                *)
(* (iomngr.c:684-705, ioworkerthread.c:175-240).                           *)
(***************************************************************************)
PassedOnce ==
  \A r \in Requests :
    /\ sent[r] <= 1
    /\ at[r]["disp"] = "out" /\ at[r]["item"] \in {"none", "out"} /\ IsIo(r) => sent[r] = 1

(***************************************************************************)
(* The references of a device are exactly those of the hash or of its      *)
(* cleanup, of the dispatches and work items that use it and of the        *)
(* contexts of postponed requests (ioworkerthread.c:69, 342).              *)
(***************************************************************************)
UsersOf(d, role, points) == {r \in Requests : IsIo(r) /\ Dev(r) = d /\ at[r][role] \in points}
CleanersOf(d) == {r \in Requests : req[r].kind = "remove" /\ Dev(r) = d
                                   /\ at[r]["disp"] = "wait"}
DeviceReferencesAreExact ==
  \A d \in Devices :
    dev[d].refs =
      (IF dev[d].hashed \/ CleanersOf(d) # {} \/ boot.dev = d THEN 1 ELSE 0)
      + Cardinality(UsersOf(d, "disp", {"node", "copy", "lock", "post", "hook", "context",
                                        "cookie", "unhook", "deref"}))
      + Cardinality(UsersOf(d, "disp", {"lock", "post"}))
      + Cardinality(UsersOf(d, "item", {"queued", "hook", "context", "cookie",
                                        "unhook", "send", "unlock", "drop"}))
      + Cardinality(UsersOf(d, "item", {"queued", "hook", "context", "cookie",
                                        "unhook", "send", "unlock", "drop", "free"}))

\* The last device went away between the two steps that read the count of the
\* type and mark it: nobody will delete the type.
TypeIsMissed == /\ type.marked /\ ~type.deleted /\ type.count = 0
                /\ \A d \in Devices : dev[d].obj # "counted"

(***************************************************************************)
(* DriverUnload comes to its end, unless the type of the devices has been  *)
(* missed: every wait in it is for something that happens (init.c:1137,    *)
(* 1147, 866, 932, 977).                                                   *)
(***************************************************************************)
UnloadEnds == boot.mode = "unload" ~> boot.pc = "down" \/ TypeIsMissed

(***************************************************************************)
(* The comment at ocobject.c:152-157: a type that has objects is deleted   *)
(* when the count of its objects drops to zero.  False: the last object    *)
(* may go between the look at the count and the mark (lines 165, 167).     *)
(***************************************************************************)
MarkedTypeIsDeleted == type.marked ~> type.deleted

(***************************************************************************)
(* What the threads use is there: the parts of the driver and the objects of*)
(* the devices, whose references are exact.                                *)
(***************************************************************************)
DriverInvariant ==
  /\ TypeOK
  /\ UsersHaveWhatTheyNeed
  /\ DeviceReferencesAreExact
=============================================================================
