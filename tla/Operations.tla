----------------------------- MODULE Operations -----------------------------
(***************************************************************************)
(* The operation objects of the core driver: a tracked request gets one    *)
(* when it meets a filtered device (operation.c, iomngr.c, fsminifilter.c),*)
(* its completion is hooked (complhooker.c, filesystems.c) and its data is *)
(* handed to the one shadow worker thread (shadow.c).  The thread that     *)
(* completes the request and the shadow thread then decide, through the    *)
(* flags of the object, who copies the data and who continues the          *)
(* completion.                                                             *)
(*                                                                         *)
(* A device stack has Depth filtered devices; level Depth is the upper     *)
(* one.  A file system request meets the minifilter at level 2 and the     *)
(* hooked file system driver at level 1.  An operation object is named by  *)
(* its request and the level at which it was created.                      *)
(***************************************************************************)
EXTENDS Naturals, Sequences, FiniteSets

CONSTANTS
  Irps,      \* the requests
  Depth,     \* filtered devices in a stack
  Requests,  \* what each request may be: [path, major, len, io, shadowed]
  Faults     \* which resources may be refused to each request

ASSUME OperationsAssumption ==
  /\ Depth \in Nat /\ Depth >= 2
  /\ Requests \in [Irps -> SUBSET [path : {"device", "fsd"},
                                  major : {"create", "write", "read", "control"},
                                  len : {0, 1}, io : {"buffered", "direct", "neither"},
                                  shadowed : BOOLEAN]]
  /\ Faults \in [Irps -> SUBSET {"buffer", "hook", "unload", "post", "create", "hookedcreate"}]

VARIABLES
  req,    \* what the request is
  at,     \* where the request is: going down, at the driver below, going up
  op,     \* the operation objects: references, flags, the MDL they own
  hook,   \* the completion hook contexts
  cr,     \* the completion routine (post operation callback) of an operation
  post,   \* has the routine postponed the completion, and must it wait
  event,  \* CopingInPrivateBuffersCompleteEvent
  pend,   \* Irp->PendingReturned
  irql,   \* the level at which the request is being completed
  seen,   \* the flags read by who is about to write the word back with the mark
  queue,  \* the work items of the shadow thread
  sh,     \* the shadow thread
  ends,   \* how many times the completion of the request was begun
  cont,   \* how many times the completion was continued after a hook
  torn    \* the scan of the queue lost a flag: it wrote back a stale copy of the word

vars == <<req, at, op, hook, cr, post, event, pend, irql, seen, queue, sh,
          ends, cont, torn>>

Levels == 1..Depth
Ops    == Irps \X Levels
NoOp   == [refs |-> 0, flags |-> {}, mdl |-> "none"]
NoReq  == [path |-> "none", major |-> "none", len |-> 0, io |-> "none", shadowed |-> FALSE]
Idle   == [pc |-> "idle"]

Flags == {"Sent", "InThread", "Wait", "Shadowing", "Data", "OnStack", "Error"}

TypeOK ==
  /\ \A r \in Irps : req[r] \in Requests[r] \union {NoReq}
  /\ \A r \in Irps :
       /\ at[r].pc \in {"new", "down", "mark", "created", "lower", "up", "done"}
       /\ at[r].k \in 0..Depth
  /\ op \in [Ops -> [refs : 0..2, flags : SUBSET Flags, mdl : {"none", "caller", "locked"}]]
  /\ hook \in [Ops -> {"none", "set", "pended", "freed"}]
  /\ cr \in [Ops -> {"idle", "start", "mark", "test", "lock", "copying", "copied", "body",
                     "unlock", "deref", "finish", "end"}]
  /\ post \in [Ops -> {"no", "nowait", "wait"}]
  /\ event \in [Ops -> {"none", "waiting", "set"}]
  /\ pend \in [Irps -> BOOLEAN]
  /\ irql \in [Irps -> {"passive", "dispatch"}]
  /\ queue \in Seq(Ops)
  /\ sh.pc \in {"idle", "taken", "copying", "await", "continue", "completing", "deref"}
  /\ torn \in [Irps -> BOOLEAN]

Init ==
  /\ req = [r \in Irps |-> NoReq]
  /\ at = [r \in Irps |-> [pc |-> "new", k |-> 0]]
  /\ op = [o \in Ops |-> NoOp]
  /\ hook = [o \in Ops |-> "none"]
  /\ cr = [o \in Ops |-> "idle"]
  /\ post = [o \in Ops |-> "no"]
  /\ event = [o \in Ops |-> "none"]
  /\ pend = [r \in Irps |-> FALSE]
  /\ irql = [r \in Irps |-> "passive"]
  /\ seen = [r \in Irps |-> <<>>]
  /\ queue = <<>>
  /\ sh = Idle
  /\ ends = [r \in Irps |-> 0]
  /\ cont = [o \in Ops |-> 0]
  /\ torn = [r \in Irps |-> FALSE]

-----------------------------------------------------------------------------
(* Helpers *)

IsDevice(r) == req[r].path = "device"
Upper(q)    == IF q.path = "fsd" THEN 2 ELSE Depth
At(r, pc)   == at[r].pc = pc
Here(r)     == <<r, at[r].k>>

\* Only reads and writes of some length have data to copy.
HasData(o) == req[o[1]].major \in {"write", "read"} /\ req[o[1]].len = 1

\* What copying into the private buffer adds to the flags: the private buffers
\* are allocated when the object is created, a request without data is left alone.
ProcessOperationObjectPrivateBuffers(o, copy) ==
  IF copy /\ HasData(o) THEN {"Data"} ELSE {}

\* The MDL an operation object keeps for a write to a device.
FillInDeviceWriteParameters(q) == IF q.io = "direct" THEN "caller" ELSE "none"

\* The MDL an operation object keeps for a read: a caller's buffer that is
\* neither buffered nor described by an MDL is locked by the driver itself.
FillInDeviceReadParameters(q) ==
  CASE q.io = "direct"   -> "caller"
    [] q.io = "buffered" -> "none"
    [] q.io = "neither"  -> "locked"

\* The buffers a minifilter callback sees for a hooked file system request.
MinifilterDataForIrp(q) ==
  [mdl |-> q.io = "direct", user |-> q.io = "neither"]

FillInFsdWriteParameters(q) == IF MinifilterDataForIrp(q).mdl THEN "caller" ELSE "none"

FillInFsdReadParameters(q) ==
  LET data == MinifilterDataForIrp(q)
  IN  IF data.mdl THEN "caller" ELSE IF data.user THEN "locked" ELSE "none"

Mdl(q) ==
  CASE q.major = "write" /\ q.path = "device" -> FillInDeviceWriteParameters(q)
    [] q.major = "read" /\ q.path = "device"  -> FillInDeviceReadParameters(q)
    [] q.major = "write" /\ q.path = "fsd"    -> FillInFsdWriteParameters(q)
    [] q.major = "read" /\ q.path = "fsd"     -> FillInFsdReadParameters(q)
    [] OTHER -> "none"

\* OcObDereferenceObject: the last reference deletes the object, which leaves
\* the device's queue and gives back its MDL.
Dereferenced(p) == IF p.refs = 1 THEN NoOp ELSE [p EXCEPT !.refs = @ - 1]

WithFlags(p, set) == [p EXCEPT !.flags = @ \union set]

\* The completion of the request reaches the next hooked level above k.
GoUp(r, k, hooks) ==
  LET above == {j \in Levels : j > k /\ hooks[<<r, j>>] = "set"}
      next  == CHOOSE j \in above : \A i \in above : j <= i
  IN  IF above = {}
      THEN at' = [at EXCEPT ![r] = [pc |-> "done", k |-> Depth]] /\ UNCHANGED cr
      ELSE /\ at' = [at EXCEPT ![r] = [pc |-> "up", k |-> next]]
           /\ cr' = [cr EXCEPT ![<<r, next>>] = "start"]

\* IoCompleteRequest at level k, from the way down.
Complete(r, k, hooks) ==
  /\ ends' = [ends EXCEPT ![r] = @ + 1]
  /\ GoUp(r, k, hooks)

PassDown(r) ==
  at' = [at EXCEPT ![r] = IF @.k = 1 THEN [pc |-> "lower", k |-> 0]
                                     ELSE [pc |-> "down", k |-> @.k - 1]]

Stay(r, pc) == at' = [at EXCEPT ![r].pc = pc]

-----------------------------------------------------------------------------
(* The way down *)

Arrive(r) ==
  /\ At(r, "new")
  /\ \E q \in Requests[r] :
       /\ req' = [req EXCEPT ![r] = q]
       /\ at' = [at EXCEPT ![r] = [pc |-> "down", k |-> Upper(q)]]
  /\ UNCHANGED <<op, hook, cr, post, event, pend, irql, seen, queue, sh, ends, cont, torn>>

\* The operation objects of the same request that the scan of the queue finds:
\* those not yet marked as seen by the whole stack.
Found(r) == {j \in Levels : /\ j > at[r].k
                            /\ op[<<r, j>>].refs > 0
                            /\ "OnStack" \notin op[<<r, j>>].flags}

\* A hooked file system driver looks for the writes the minifilter has seen.
RequestInQueue(r) == Found(r) # {} /\ (IsDevice(r) \/ req[r].major = "write")

\* OcCrIsRequestInDeviceQueue, OcCrIsRequestInFsdDeviceQueue: the most recent
\* object is found and marked.  The mark shares a word with the flags that the
\* spin lock of the object protects, and the word is read here ...
IsRequestInDeviceQueue(r) ==
  /\ At(r, "down") /\ RequestInQueue(r)
  /\ LET j == CHOOSE i \in Found(r) : \A l \in Found(r) : i <= l
     IN  seen' = [seen EXCEPT ![r] = <<j, op[<<r, j>>].flags>>]
  /\ Stay(r, "mark")
  /\ UNCHANGED <<req, op, hook, cr, post, event, pend, irql, queue, sh, ends, cont, torn>>

\* ... and written back here, under the lock of the queue.  The request is left
\* to the object found and goes down.
HadHisTimeOnStack(r) ==
  /\ At(r, "mark")
  /\ LET o == <<r, seen[r][1]>>
     IN  /\ op' = [op EXCEPT ![o].flags = seen[r][2] \union {"OnStack"}]
         /\ torn' = [torn EXCEPT ![r] = @ \/ op[o].flags # seen[r][2]]
  /\ seen' = [seen EXCEPT ![r] = <<>>]
  /\ PassDown(r)
  /\ UNCHANGED <<req, hook, cr, post, event, pend, irql, queue, sh, ends, cont>>

\* Which requests get an operation object: creates are always logged, the
\* others are tracked when they are to be shadowed.
Tracked(r) ==
  \/ req[r].major = "create"
  \/ req[r].shadowed /\ (IsDevice(r) \/ req[r].major \in {"write", "read"})

NotTracked(r) ==
  /\ At(r, "down") /\ ~RequestInQueue(r) /\ ~Tracked(r)
  /\ PassDown(r)
  /\ UNCHANGED <<req, op, hook, cr, post, event, pend, irql, seen, queue, sh, ends, cont, torn>>

\* A new object: the data of a write is copied at once, a private buffer for the
\* data of a read is only allocated.
NewOperation(r) ==
  [refs |-> 1, mdl |-> Mdl(req[r]),
   flags |-> IF req[r].shadowed
             THEN ProcessOperationObjectPrivateBuffers(<<r, at[r].k>>, req[r].major = "write")
             ELSE {}]

CreateOperationObjectForDevice(r) ==
  /\ At(r, "down") /\ IsDevice(r) /\ ~RequestInQueue(r) /\ Tracked(r)
  /\ op' = [op EXCEPT ![Here(r)] = NewOperation(r)]
  /\ Stay(r, "created")
  /\ UNCHANGED <<req, hook, cr, post, event, pend, irql, seen, queue, sh, ends, cont, torn>>

\* OcCrProcessRequestWithResult completes a request for which no object or no
\* private buffer could be allocated.
OperationRefused(r) ==
  /\ At(r, "down") /\ IsDevice(r) /\ ~RequestInQueue(r) /\ Tracked(r)
  /\ "buffer" \in Faults[r]
  /\ Complete(r, at[r].k, hook)
  /\ UNCHANGED <<req, op, hook, post, event, pend, irql, seen, queue, sh, cont, torn>>

\* The completion of the request is to come back to the current level.
HookCompletionRoutineInCurrentStack(r) == hook' = [hook EXCEPT ![Here(r)] = "set"]

\* The hook is refused: the object is dropped; while the driver unloads the
\* request goes on without it, for want of memory it is completed.
HookRefused(r) ==
  /\ At(r, "created") /\ IsDevice(r)
  /\ op' = [op EXCEPT ![Here(r)] = Dereferenced(@)]
  /\ \/ "unload" \in Faults[r] /\ PassDown(r) /\ UNCHANGED <<cr, ends>>
     \/ "hook" \in Faults[r] /\ Complete(r, at[r].k, hook)
  /\ UNCHANGED <<req, hook, post, event, pend, irql, seen, queue, sh, cont, torn>>

\* OcCrShadowRequest: the object is marked as sent and referenced for the thread.
ShadowRequest(o, p) ==
  /\ op' = [op EXCEPT ![o] = [WithFlags(p, {"Sent"}) EXCEPT !.refs = @ + 1]]
  /\ queue' = Append(queue, o)

ProcessRequestWoResult(r) ==
  /\ At(r, "created") /\ IsDevice(r)
  /\ HookCompletionRoutineInCurrentStack(r)
  /\ IF req[r].major \in {"write", "control"}
     THEN ShadowRequest(Here(r), op[Here(r)])
     ELSE UNCHANGED <<op, queue>>
  /\ PassDown(r)
  /\ UNCHANGED <<req, cr, post, event, pend, irql, seen, sh, ends, cont, torn>>

\* The file object or the work item of the request is refused: the object is
\* marked and the request completed through the hook that is already set.
RequestProcessingError(r) ==
  /\ At(r, "created") /\ IsDevice(r)
  /\ HookCompletionRoutineInCurrentStack(r)
  /\ \/ "post" \in Faults[r] /\ req[r].major \in {"write", "control"}
     \/ "create" \in Faults[r] /\ req[r].major = "create"
  /\ op' = [op EXCEPT ![Here(r)] = WithFlags(@, {"Error"})]
  /\ Complete(r, at[r].k - 1, hook')
  /\ UNCHANGED <<req, post, event, pend, irql, seen, queue, sh, cont, torn>>

-----------------------------------------------------------------------------
(* The way down through the minifilter and the hooked file system driver *)

\* The callback is to be called on completion: the filter manager does it for
\* the minifilter, the hooked driver has still to set its own hook.
WithCallback(r) ==
  IF at[r].k = 2
  THEN HookCompletionRoutineInCurrentStack(r) /\ PassDown(r)
  ELSE Stay(r, "created") /\ UNCHANGED hook

FsmfPreOperation(r) ==
  /\ At(r, "down") /\ ~IsDevice(r) /\ ~RequestInQueue(r) /\ Tracked(r)
  /\ CASE req[r].major = "create" -> UNCHANGED <<op, queue>>
       [] req[r].major = "write"  -> ShadowRequest(Here(r), NewOperation(r))
       [] req[r].major = "read"   -> op' = [op EXCEPT ![Here(r)] = NewOperation(r)] /\ UNCHANGED queue
  /\ WithCallback(r)
  /\ UNCHANGED <<req, cr, post, event, pend, irql, seen, sh, ends, cont, torn>>

\* No object or no work item for a read or a write: it goes on unseen.
FsmfPreOperationNoCallback(r) ==
  /\ At(r, "down") /\ ~IsDevice(r) /\ ~RequestInQueue(r) /\ Tracked(r)
  /\ req[r].major # "create" /\ Faults[r] \intersect {"buffer", "post"} # {}
  /\ PassDown(r)
  /\ UNCHANGED <<req, op, hook, cr, post, event, pend, irql, seen, queue, sh, ends, cont, torn>>

\* No file object for a create: the callback asks to complete the request.  The
\* filter manager does.  The hooked driver does too, but leaves the decision to
\* call the original dispatch function as it is.
FsmfPreOperationComplete(r) ==
  /\ At(r, "down") /\ ~IsDevice(r) /\ req[r].major = "create"
  /\ \/ at[r].k = 2 /\ "create" \in Faults[r] /\ Complete(r, 2, hook)
     \/ /\ at[r].k = 1 /\ "hookedcreate" \in Faults[r]
        /\ ends' = [ends EXCEPT ![r] = @ + 1]
        /\ PassDown(r) /\ UNCHANGED cr
  /\ UNCHANGED <<req, op, hook, post, event, pend, irql, seen, queue, sh, cont, torn>>

\* OcCrProcessFsdIrpRequestToHookedDriver: the hook for the post operation.
ProcessFsdIrpRequestToHookedDriver(r) ==
  /\ At(r, "created") /\ ~IsDevice(r)
  /\ HookCompletionRoutineInCurrentStack(r)
  /\ PassDown(r)
  /\ UNCHANGED <<req, op, cr, post, event, pend, irql, seen, queue, sh, ends, cont, torn>>

\* No store or no hook: the post operation is called at once and the request
\* completed with an error.
FsdHookRefused(r) ==
  /\ At(r, "created") /\ ~IsDevice(r) /\ Faults[r] \intersect {"hook", "unload"} # {}
  /\ HookCompletionRoutineInCurrentStack(r)
  /\ Complete(r, at[r].k - 1, hook')
  /\ UNCHANGED <<req, op, post, event, pend, irql, seen, queue, sh, cont, torn>>

\* The driver below completes the request.  The level of the completing thread
\* is only asked for when the request was not returned as pending.
LowerDriverCompletes(r) ==
  /\ At(r, "lower")
  /\ \/ pend' = [pend EXCEPT ![r] = TRUE] /\ UNCHANGED irql
     \/ irql' \in {[irql EXCEPT ![r] = l] : l \in {"passive", "dispatch"}} /\ UNCHANGED pend
  /\ Complete(r, 0, hook)
  /\ UNCHANGED <<req, op, hook, post, event, seen, queue, sh, cont, torn>>

-----------------------------------------------------------------------------
(* The completion routine of operation o *)

Is(o, flag) == flag \in op[o].flags
ShadowThreadHoldsLock(o) == sh.pc = "copying" /\ sh.op = o
Go(o, pc) == cr' = [cr EXCEPT ![o] = pc]

\* OcCmHkIrpCompletionRoutine and the test, without the spin lock, at the start
\* of OcCrShadowProcessOperationBuffersForDevice.
IrpCompletionRoutine(o) ==
  /\ cr[o] = "start" /\ IsDevice(o[1])
  /\ Go(o, IF Is(o, "Error") THEN "deref"
           ELSE IF ~Is(o, "Sent") \/ Is(o, "Data") \/ Is(o, "Shadowing") THEN "body"
           ELSE "lock")
  /\ UNCHANGED <<req, at, op, hook, post, event, pend, irql, seen, queue, sh, ends, cont, torn>>

CanCompletionBePostponed(r) == ~(irql[r] = "dispatch" /\ ~pend[r])

\* OcChHkPrepareCompletionContextForPostponing: a request that was not returned
\* as pending makes the completing thread wait, and is pending from now on.
PrepareCompletionContextForPostponing(o) ==
  /\ hook' = [hook EXCEPT ![o] = "pended"]
  /\ post' = [post EXCEPT ![o] = IF pend[o[1]] THEN "nowait" ELSE "wait"]
  /\ pend' = [pend EXCEPT ![o[1]] = TRUE]

\* Mutant: the completion is left to the shadow thread but not postponed.
LeftButNotPostponed(o) ==
  /\ cr[o] = "lock" /\ IsDevice(o[1]) /\ ~ShadowThreadHoldsLock(o)
  /\ op' = [op EXCEPT ![o] = WithFlags(@, {"InThread"})]
  /\ Go(o, "body")
  /\ UNCHANGED <<req, at, hook, post, event, pend, irql, seen, queue, sh, ends, cont, torn>>

ShadowProcessOperationBuffersForDevice(o) ==
  /\ cr[o] = "lock" /\ IsDevice(o[1]) /\ ~ShadowThreadHoldsLock(o)
  /\ IF Is(o, "Data") \/ Is(o, "Shadowing")
     THEN Go(o, "body") /\ UNCHANGED <<op, hook, post, pend>>
     ELSE IF CanCompletionBePostponed(o[1])
     THEN /\ op' = [op EXCEPT ![o] = WithFlags(@, {"InThread"})]
          /\ PrepareCompletionContextForPostponing(o)
          /\ Go(o, "body")
     ELSE /\ op' = [op EXCEPT ![o] = WithFlags(@, {"Wait"})]
          /\ Go(o, "copying")
          /\ UNCHANGED <<hook, post, pend>>
  /\ UNCHANGED <<req, at, event, irql, seen, queue, sh, ends, cont, torn>>

\* The private buffers are filled outside the lock.
BuffersCopied(o) ==
  /\ cr[o] = "copying"
  /\ op' = [op EXCEPT ![o] = WithFlags(@, ProcessOperationObjectPrivateBuffers(o, TRUE))]
  /\ Go(o, "copied")
  /\ UNCHANGED <<req, at, hook, post, event, pend, irql, seen, queue, sh, ends, cont, torn>>

\* Mutant: the thread that copied only clears its flag.
NobodyIsWoken(o) ==
  /\ cr[o] = "copied" /\ ~ShadowThreadHoldsLock(o)
  /\ op' = [op EXCEPT ![o].flags = @ \ {"Wait"}]
  /\ Go(o, IF IsDevice(o[1]) THEN "body" ELSE "unlock")
  /\ UNCHANGED <<req, at, hook, post, event, pend, irql, seen, queue, sh, ends, cont, torn>>

\* A shadow thread that registered its event is woken, one that comes later
\* finds the flag cleared.
ShadowCopingInPrivateBuffersCompleted(o) ==
  /\ cr[o] = "copied" /\ ~ShadowThreadHoldsLock(o)
  /\ IF event[o] = "waiting"
     THEN event' = [event EXCEPT ![o] = "set"] /\ UNCHANGED op
     ELSE op' = [op EXCEPT ![o].flags = @ \ {"Wait"}] /\ UNCHANGED event
  /\ Go(o, IF IsDevice(o[1]) THEN "body" ELSE "unlock")
  /\ UNCHANGED <<req, at, hook, post, pend, irql, seen, queue, sh, ends, cont, torn>>

\* The rest of OcCmHkIrpCompletionRoutine: the data of a read is copied and sent.
ReadIsShadowed(o) ==
  /\ cr[o] = "body"
  /\ IF req[o[1]].major = "read"
     THEN LET copied == WithFlags(op[o], ProcessOperationObjectPrivateBuffers(o, TRUE))
          IN  \/ ShadowRequest(o, copied)
              \/ "post" \in Faults[o[1]] /\ op' = [op EXCEPT ![o] = copied] /\ UNCHANGED queue
     ELSE UNCHANGED <<op, queue>>
  /\ Go(o, "unlock")
  /\ UNCHANGED <<req, at, hook, post, event, pend, irql, seen, sh, ends, cont, torn>>

\* OcCrFsmfPostOperation: a create has no operation object; the word of another
\* request, in which the mark is, is read here without a lock ...
FsmfPostOperation(o) ==
  /\ cr[o] = "start" /\ ~IsDevice(o[1])
  /\ IF req[o[1]].major = "create"
     THEN Go(o, "finish") /\ UNCHANGED seen
     ELSE Go(o, "mark") /\ seen' = [seen EXCEPT ![o[1]] = <<o[2], op[o].flags>>]
  /\ UNCHANGED <<req, at, op, hook, post, event, pend, irql, queue, sh, ends, cont, torn>>

\* ... and written back with the mark here.  A read is sent to the shadow thread
\* before its data is copied.
FsmfPostOperationMarks(o) ==
  /\ cr[o] = "mark"
  /\ LET read   == seen[o[1]][2]
         marked == [op[o] EXCEPT !.flags = read \union {"OnStack"}]
     IN  \/ req[o[1]].major = "read" /\ ShadowRequest(o, marked)
         \/ /\ req[o[1]].major = "read" => "post" \in Faults[o[1]]
            /\ op' = [op EXCEPT ![o] = marked] /\ UNCHANGED queue
  /\ seen' = [seen EXCEPT ![o[1]] = <<>>]
  /\ Go(o, "test")
  /\ UNCHANGED <<req, at, hook, post, event, pend, irql, sh, ends, cont, torn>>

\* The test before the lock in OcCrShadowProcessOperationBuffersForFsd, which
\* does not look at ShadowingInProgress.
BuffersForFsdTest(o) ==
  /\ cr[o] = "test"
  /\ Go(o, IF ~Is(o, "Sent") \/ Is(o, "Data") THEN "unlock" ELSE "lock")
  /\ UNCHANGED <<req, at, op, hook, post, event, pend, irql, seen, queue, sh, ends, cont, torn>>

ShadowProcessOperationBuffersForFsd(o) ==
  /\ cr[o] = "lock" /\ ~IsDevice(o[1]) /\ ~ShadowThreadHoldsLock(o)
  /\ IF Is(o, "Data") \/ Is(o, "Shadowing")
     THEN Go(o, "unlock") /\ UNCHANGED op
     ELSE op' = [op EXCEPT ![o] = WithFlags(@, {"Wait"})] /\ Go(o, "copying")
  /\ UNCHANGED <<req, at, hook, post, event, pend, irql, seen, queue, sh, ends, cont, torn>>

\* Mutant: the MDL is left to the deletion of the object.
LeftToDeletion(o) ==
  /\ cr[o] = "unlock"
  /\ Go(o, "deref")
  /\ UNCHANGED <<req, at, op, hook, post, event, pend, irql, seen, queue, sh, ends, cont, torn>>

\* OcCrUnlockAndFreeMdlForOperation: data that was not copied yet is copied
\* under the lock before the MDL goes.  A free build leaves the caller's MDL alone.
UnlockAndFreeMdlForOperation(o) ==
  /\ cr[o] = "unlock"
  /\ \/ op[o].mdl # "locked" /\ UNCHANGED op
     \/ /\ op[o].mdl # "none"
        /\ LET copies == ~Is(o, "Data") /\ req[o[1]].shadowed
           IN  /\ copies => ~ShadowThreadHoldsLock(o)
               /\ op' = [op EXCEPT ![o] = [WithFlags(@, ProcessOperationObjectPrivateBuffers(o, copies))
                                             EXCEPT !.mdl = "none"]]
  /\ Go(o, "deref")
  /\ UNCHANGED <<req, at, hook, post, event, pend, irql, seen, queue, sh, ends, cont, torn>>

\* The routine drops its reference, the last one deletes the object.
DeleteOperationObject(o) ==
  /\ cr[o] = "deref"
  /\ op' = [op EXCEPT ![o] = Dereferenced(@)]
  /\ Go(o, "finish")
  /\ UNCHANGED <<req, at, hook, post, event, pend, irql, seen, queue, sh, ends, cont, torn>>

\* OcCmHkContinueCompletion in the completing thread: the context is freed and
\* the request goes up.
ContinueCompletion(o) ==
  /\ cr[o] = "finish" /\ post[o] = "no"
  /\ hook' = [hook EXCEPT ![o] = "freed"]
  /\ cont' = [cont EXCEPT ![o] = @ + 1]
  /\ LET above == {j \in Levels : j > o[2] /\ hook[<<o[1], j>>] = "set"}
         next  == CHOOSE j \in above : \A i \in above : j <= i
     IN  IF above = {}
         THEN at' = [at EXCEPT ![o[1]] = [pc |-> "done", k |-> Depth]] /\ Go(o, "end")
         ELSE /\ at' = [at EXCEPT ![o[1]] = [pc |-> "up", k |-> next]]
              /\ cr' = [cr EXCEPT ![o] = "end", ![<<o[1], next>>] = "start"]
  /\ UNCHANGED <<req, op, post, event, pend, irql, seen, queue, sh, ends, torn>>

\* OcCrShadowCompleteDeviceRequest when the shadow thread completes: the routine
\* waits for it if the request was not pending.
ShadowCompleteDeviceRequest(o) ==
  /\ cr[o] = "finish" /\ post[o] # "no"
  /\ post[o] = "wait" => hook[o] = "freed"
  /\ Go(o, "end")
  /\ UNCHANGED <<req, at, op, hook, post, event, pend, irql, seen, queue, sh, ends, cont, torn>>

-----------------------------------------------------------------------------
(* The shadow thread: OcCrShadowWriterWR *)

Shadow(pc) == sh' = [sh EXCEPT !.pc = pc]

\* A work item is taken and the flags are looked at without the lock.
ShadowWriterWR ==
  /\ sh = Idle /\ queue # <<>>
  /\ sh' = [pc |-> IF Is(Head(queue), "Data") THEN "deref" ELSE "taken", op |-> Head(queue)]
  /\ queue' = Tail(queue)
  /\ UNCHANGED <<req, at, op, hook, cr, post, event, pend, irql, seen, ends, cont, torn>>

\* Mutant: the flags read before the lock was taken are believed.
ShadowingWithoutSecondLook ==
  /\ sh.pc = "taken"
  /\ op' = [op EXCEPT ![sh.op] = WithFlags(@, {"Shadowing"})]
  /\ IF Is(sh.op, "InThread") THEN Shadow("continue") ELSE Shadow("copying")
  /\ UNCHANGED <<req, at, hook, cr, post, event, pend, irql, seen, queue, ends, cont, torn>>

\* Under the spin lock the thread announces itself and finds out what is left to
\* do: wait for the copy, copy itself, or complete the request.
ShadowingInProgress ==
  /\ sh.pc = "taken"
  /\ LET o == sh.op
     IN  /\ op' = [op EXCEPT ![o] = WithFlags(@, {"Shadowing"})]
         /\ CASE Is(o, "Data") -> Shadow("deref") /\ UNCHANGED event
              [] ~Is(o, "Data") /\ Is(o, "Wait") ->
                   event' = [event EXCEPT ![o] = "waiting"] /\ Shadow("await")
              [] ~Is(o, "Data") /\ ~Is(o, "Wait") /\ Is(o, "InThread") ->
                   Shadow("continue") /\ UNCHANGED event
              [] OTHER -> Shadow("copying") /\ UNCHANGED event
  /\ UNCHANGED <<req, at, hook, cr, post, pend, irql, seen, queue, ends, cont, torn>>

ShadowThreadCopies ==
  /\ sh.pc = "copying"
  /\ op' = [op EXCEPT ![sh.op] = WithFlags(@, ProcessOperationObjectPrivateBuffers(sh.op, TRUE))]
  /\ Shadow("deref")
  /\ UNCHANGED <<req, at, hook, cr, post, event, pend, irql, seen, queue, ends, cont, torn>>

ShadowThreadAwaitsCopy ==
  /\ sh.pc = "await" /\ event[sh.op] = "set"
  /\ Shadow("deref")
  /\ UNCHANGED <<req, at, op, hook, cr, post, event, pend, irql, seen, queue, ends, cont, torn>>

\* OcCmHkContinueCompletion of a postponed completion: the shadow thread calls
\* IoCompleteRequest, and the routines above run in this thread.
ContinuePendedCompletion ==
  /\ sh.pc = "continue"
  /\ cont' = [cont EXCEPT ![sh.op] = @ + 1]
  /\ irql' = [irql EXCEPT ![sh.op[1]] = "passive"]
  /\ GoUp(sh.op[1], sh.op[2], hook)
  /\ Shadow("completing")
  /\ UNCHANGED <<req, op, hook, post, event, pend, seen, queue, ends, torn>>

\* When they have returned the context is freed, which sets the event of the
\* thread that waits.
FreeCompletionContext ==
  /\ sh.pc = "completing"
  /\ \A j \in Levels : j > sh.op[2] => cr[<<sh.op[1], j>>] \in {"idle", "end"}
  /\ hook' = [hook EXCEPT ![sh.op] = "freed"]
  /\ Shadow("deref")
  /\ UNCHANGED <<req, at, op, cr, post, event, pend, irql, seen, queue, ends, cont, torn>>

ShadowThreadDereferences ==
  /\ sh.pc = "deref"
  /\ op' = [op EXCEPT ![sh.op] = Dereferenced(@)]
  /\ sh' = Idle
  /\ UNCHANGED <<req, at, hook, cr, post, event, pend, irql, seen, queue, ends, cont, torn>>

-----------------------------------------------------------------------------
Descend(r) ==
  \/ IsRequestInDeviceQueue(r) \/ HadHisTimeOnStack(r) \/ NotTracked(r)
  \/ CreateOperationObjectForDevice(r) \/ OperationRefused(r)
  \/ HookRefused(r)
  \/ ProcessRequestWoResult(r) \/ RequestProcessingError(r)
  \/ FsmfPreOperation(r) \/ FsmfPreOperationNoCallback(r) \/ FsmfPreOperationComplete(r)
  \/ ProcessFsdIrpRequestToHookedDriver(r) \/ FsdHookRefused(r)
  \/ LowerDriverCompletes(r)

Ascend(o) ==
  \/ IrpCompletionRoutine(o) \/ ShadowProcessOperationBuffersForDevice(o)
  \/ BuffersCopied(o) \/ ShadowCopingInPrivateBuffersCompleted(o) \/ ReadIsShadowed(o)
  \/ FsmfPostOperation(o) \/ FsmfPostOperationMarks(o)
  \/ BuffersForFsdTest(o) \/ ShadowProcessOperationBuffersForFsd(o)
  \/ UnlockAndFreeMdlForOperation(o) \/ DeleteOperationObject(o)
  \/ ContinueCompletion(o) \/ ShadowCompleteDeviceRequest(o)

ShadowThread ==
  \/ ShadowWriterWR \/ ShadowingInProgress \/ ShadowThreadCopies \/ ShadowThreadAwaitsCopy
  \/ ContinuePendedCompletion \/ FreeCompletionContext \/ ShadowThreadDereferences

Next ==
  \/ \E r \in Irps : Arrive(r) \/ Descend(r)
  \/ \E o \in Ops : Ascend(o)
  \/ ShadowThread

Spec == Init /\ [][Next]_vars

\* Threads run and drivers complete what they were given.
FairSpec ==
  /\ Spec
  /\ \A r \in Irps : WF_vars(Descend(r))
  /\ \A o \in Ops : WF_vars(Ascend(o))
  /\ WF_vars(ShadowThread)

-----------------------------------------------------------------------------
(* Properties *)

\* The completion of the request has gone on above level o[2].
Continued(o) == At(o[1], "done") \/ (At(o[1], "up") /\ at[o[1]].k > o[2])

\* Whoever copies the data of a request (the shadow thread under the spin lock,
\* the completing thread outside it) does so while the request still owns its
\* buffer: its completion has not been continued.
BuffersOutliveCopies ==
  /\ \A o \in Ops : cr[o] = "copying" => ~Continued(o)
  /\ (sh.pc = "copying" /\ HasData(sh.op)) => ~Continued(sh.op)

\* Pages that the driver has locked for an operation are unlocked before the
\* process that made the request can go on, although the shadow thread may
\* still hold the object.
PagesUnlockedAtCompletion ==
  \A o \in Ops : op[o].mdl = "locked" => ~Continued(o)

\* A request is completed once, and each hook continues its completion once:
\* never by the completing thread and the shadow thread both.
CompletedOnce ==
  /\ \A r \in Irps : ends[r] <= 1
  /\ \A o \in Ops : cont[o] <= 1

\* A request that reached the filter is completed, and its operation objects are
\* freed, unless a flag was lost because the queue scan wrote the word back.
RequestsEnd ==
  \A r \in Irps :
    ~At(r, "new") ~> \/ At(r, "done") /\ \A k \in Levels : op[<<r, k>>] = NoOp
                     \/ torn[r]

(***************************************************************************)
(* The operations and requests are well formed and the buffers that are    *)
(* copied from or to exist.                                                *)
(***************************************************************************)
OperationInvariant == TypeOK /\ BuffersOutliveCopies
=============================================================================
