------------------------------ MODULE PipePool ------------------------------
(***************************************************************************)
(* The pipe pool of usb_backend.c: the tasks that call submit_pipe_request *)
(* (URB workers), the shared pool of pipe slots with its counting          *)
(* semaphore, and the one backend task that submits every active slot to   *)
(* the DWC controller, polls the transfers in flight and wakes the caller. *)
(*                                                                         *)
(* A step is what one task does without another task being able to see it  *)
(* half done: a critical section of state_mutex, a semaphore operation, or *)
(* one pass of the backend over one slot.  Completion callbacks run only   *)
(* inside usb_host_client_handle_events, in the backend task.              *)
(*                                                                         *)
(* The volatile flags of the slots are sets of slot numbers.               *)
(***************************************************************************)
EXTENDS Integers, FiniteSets

CONSTANTS
    Callers,         \* tasks that may be inside submit_pipe_request
    NumPipes,        \* USB_BACKEND_NUM_PIPES
    Transfers,       \* the usb_transfer_t objects the heap can hold
    Devices,         \* busids
    Endpoints,       \* non-control endpoints a device's descriptors list
    Requested,       \* endpoint addresses callers ask for
    EP0,             \* endpoint address 0
    HwStatuses,      \* statuses the controller reports on its own
    SubmitFailures,  \* errors of a submission to a device that is known
    FlushMayFail,    \* may halt + flush leave the transfer in flight?
    NoTransfer, NoCaller

PipeIds == 0 .. NumPipes - 1
NoPipe  == -1

TransferStatuses == {"COMPLETED", "TIMED_OUT", "CANCELED", "STALL", "NO_DEVICE", "ERROR"}
Results == {"none", "OK", "EPIPE", "ENODEV", "EIO", "ECONNRESET", "ETIMEDOUT", "ENOMEM", "EBUSY"}

ASSUME PoolAssumption ==
    /\ NumPipes \in Nat \ {0}
    /\ Devices # {} /\ Requested # {}
    /\ IsFiniteSet(Callers)
    /\ NoCaller \notin Callers
    /\ NoTransfer \notin Transfers
    /\ HwStatuses \subseteq TransferStatuses
    /\ SubmitFailures \subseteq {"EIO", "ENODEV", "ENOMEM"}
    /\ FlushMayFail \in BOOLEAN

VARIABLES
    (* callers *)
    pc,         \* where each caller is inside submit_pipe_request
    req,        \* the busid and endpoint it asked for
    slot,       \* its pipe_idx
    result,     \* its local variable status, which status_out points at
    cancel,     \* callers whose cancel flag is set
    (* the pool *)
    availSem,   \* pipe_avail_sem
    doneSem,    \* slots whose done_sem has been given
    assigned, active, submitted, completed, aborted,
    expired,    \* submitted slots whose deadline has passed
    owner,      \* the caller whose frame status_out, in_data and cancel point into
    xfer,       \* pipe->xfer
    (* USB host library and controller *)
    tstate,     \* free, inflight, done (callback pending), called
    tctx,       \* transfer->context
    tkey,       \* the busid and endpoint the transfer was submitted to
    tstatus,    \* transfer->status
    known,      \* busids in the device table
    (* backend task *)
    bpc,        \* which part of its loop it is in
    bi          \* loop index over the slots

callerVars == <<pc, req, slot, result, cancel>>
flagVars   == <<active, submitted, completed, aborted, expired>>
xferVars   == <<tstate, tctx, tkey, tstatus>>
vars == <<pc, req, slot, result, cancel, availSem, doneSem, assigned, active,
          submitted, completed, aborted, expired, owner, xfer, tstate, tctx,
          tkey, tstatus, known, bpc, bi>>

-----------------------------------------------------------------------------

CallerStates == {"idle", "waitAvail", "lookup", "fill", "waitDone", "release", "givePermit"}
BackendStates == {"pump", "events", "submit", "check", "abort", "finish"}
Requests == [dev : Devices, ep : Requested]
AnyRequest == CHOOSE r \in Requests : TRUE  \* before the first request

Init ==
    /\ pc = [c \in Callers |-> "idle"]
    /\ req = [c \in Callers |-> AnyRequest]
    /\ slot = [c \in Callers |-> NoPipe]
    /\ result = [c \in Callers |-> "none"]
    /\ cancel = {}
    /\ availSem = NumPipes
    /\ doneSem = {}
    /\ assigned = {} /\ active = {} /\ submitted = {}
    /\ completed = {} /\ aborted = {} /\ expired = {}
    /\ owner = [p \in PipeIds |-> NoCaller]
    /\ xfer = [p \in PipeIds |-> NoTransfer]
    /\ tstate = [t \in Transfers |-> "free"]
    /\ tctx = [t \in Transfers |-> 0]
    /\ tkey = [t \in Transfers |-> AnyRequest]
    /\ tstatus = [t \in Transfers |-> "COMPLETED"]
    /\ known = {}
    /\ bpc = "pump" /\ bi = 0

-----------------------------------------------------------------------------
(* Callers: submit_pipe_request.                                           *)

\* A worker starts a request.
Call(c) ==
    /\ pc[c] = "idle"
    /\ \E r \in Requests : req' = [req EXCEPT ![c] = r]
    /\ pc' = [pc EXCEPT ![c] = "waitAvail"]
    /\ UNCHANGED <<slot, result, cancel, availSem, doneSem, assigned, flagVars,
                   owner, xfer, xferVars, known, bpc, bi>>

\* The stream that owns the request asks for it to be cancelled.
Cancel(c) ==
    /\ pc[c] # "idle"
    /\ c \notin cancel
    /\ cancel' = cancel \cup {c}
    /\ UNCHANGED <<pc, req, slot, result, availSem, doneSem, assigned, flagVars,
                   owner, xfer, xferVars, known, bpc, bi>>

\* xSemaphoreTake(pipe_avail_sem, portMAX_DELAY)
TakeAvail(c) ==
    /\ pc[c] = "waitAvail"
    /\ availSem > 0
    /\ availSem' = availSem - 1
    /\ pc' = [pc EXCEPT ![c] = "lookup"]
    /\ UNCHANGED <<req, slot, result, cancel, doneSem, assigned, flagVars, owner,
                   xfer, xferVars, known, bpc, bi>>

\* The device is in the table and, for other endpoints than 0, its
\* descriptors list the endpoint.
Addressable(r) == r.dev \in known /\ (r.ep = EP0 \/ r.ep \in Endpoints)

\* Mutant: the early return forgets the semaphore.
RefuseAndLeave(c) ==
    /\ pc[c] = "lookup"
    /\ ~ Addressable(req[c])
    /\ pc' = [pc EXCEPT ![c] = "idle"]
    /\ UNCHANGED <<req, slot, result, cancel, availSem, doneSem, assigned, flagVars,
                   owner, xfer, xferVars, known, bpc, bi>>

\* Critical section, early return: busid or endpoint unknown.
RefuseUnknown(c) ==
    /\ pc[c] = "lookup"
    /\ ~ Addressable(req[c])
    /\ result' = [result EXCEPT ![c] = "ENODEV"]
    /\ pc' = [pc EXCEPT ![c] = "givePermit"]
    /\ UNCHANGED <<req, slot, cancel, availSem, doneSem, assigned, flagVars,
                   owner, xfer, xferVars, known, bpc, bi>>

\* alloc_pipe_locked: the first slot not assigned, -1 when there is none.
FreePipe ==
    LET free == PipeIds \ assigned
    IN  IF free = {} THEN NoPipe ELSE CHOOSE p \in free : \A q \in free : p <= q

\* Critical section: a slot is assigned; without one the caller gives up
\* with the "semaphore accounting error".
ClaimSlot(c) ==
    /\ pc[c] = "lookup"
    /\ Addressable(req[c])
    /\ slot' = [slot EXCEPT ![c] = FreePipe]
    /\ IF FreePipe = NoPipe
         THEN /\ pc' = [pc EXCEPT ![c] = "givePermit"]
              /\ result' = [result EXCEPT ![c] = "EBUSY"]
              /\ UNCHANGED <<assigned, active>>
         ELSE /\ pc' = [pc EXCEPT ![c] = "fill"]
              /\ assigned' = assigned \cup {FreePipe}
              /\ active' = active \ {FreePipe}
              /\ UNCHANGED result
    /\ UNCHANGED <<req, cancel, availSem, doneSem, submitted, completed, aborted,
                   expired, owner, xfer, xferVars, known, bpc, bi>>

\* Fill the slot with the request, set active, notify the backend task.
Activate(c) ==
    /\ pc[c] = "fill"
    /\ owner' = [owner EXCEPT ![slot[c]] = c]
    /\ active' = active \cup {slot[c]}
    /\ pc' = [pc EXCEPT ![c] = "waitDone"]
    /\ UNCHANGED <<req, slot, result, cancel, availSem, doneSem, assigned,
                   submitted, completed, aborted, expired, xfer, xferVars,
                   known, bpc, bi>>

\* xSemaphoreTake(pipe->done_sem, portMAX_DELAY)
TakeDone(c) ==
    /\ pc[c] = "waitDone"
    /\ slot[c] \in doneSem
    /\ doneSem' = doneSem \ {slot[c]}
    /\ pc' = [pc EXCEPT ![c] = "release"]
    /\ UNCHANGED <<req, slot, result, cancel, availSem, assigned, flagVars, owner,
                   xfer, xferVars, known, bpc, bi>>

\* Critical section: the slot returns to the pool.
ReleaseSlot(c) ==
    /\ pc[c] = "release"
    /\ assigned' = assigned \ {slot[c]}
    /\ slot' = [slot EXCEPT ![c] = NoPipe]
    /\ pc' = [pc EXCEPT ![c] = "givePermit"]
    /\ UNCHANGED <<req, result, cancel, availSem, doneSem, flagVars, owner, xfer,
                   xferVars, known, bpc, bi>>

\* xSemaphoreGive(pipe_avail_sem), which saturates at NumPipes; return.
\* The caller's frame and its cancel flag are gone.
GivePermit(c) ==
    /\ pc[c] = "givePermit"
    /\ availSem' = IF availSem < NumPipes THEN availSem + 1 ELSE availSem
    /\ pc' = [pc EXCEPT ![c] = "idle"]
    /\ req' = [req EXCEPT ![c] = AnyRequest]
    /\ result' = [result EXCEPT ![c] = "none"]
    /\ cancel' = cancel \ {c}
    /\ UNCHANGED <<slot, doneSem, assigned, flagVars, owner, xfer, xferVars,
                   known, bpc, bi>>

-----------------------------------------------------------------------------
(* The controller and time.                                                *)

\* The controller ends a transfer; its callback waits to be delivered.
HwComplete(t) ==
    /\ tstate[t] = "inflight"
    /\ tstate' = [tstate EXCEPT ![t] = "done"]
    /\ \E s \in HwStatuses : tstatus' = [tstatus EXCEPT ![t] = s]
    /\ UNCHANGED <<callerVars, availSem, doneSem, assigned, flagVars, owner, xfer,
                   tctx, tkey, known, bpc, bi>>

\* The deadline of a submitted slot passes.  The backend reads the clock
\* once per pass, before its two scans, so it can only see this there.
Expire(p) ==
    /\ bpc = "pump"
    /\ p \in submitted \ expired
    /\ expired' = expired \cup {p}
    /\ UNCHANGED <<callerVars, availSem, doneSem, assigned, active, submitted,
                   completed, aborted, owner, xfer, xferVars, known, bpc, bi>>

-----------------------------------------------------------------------------
(* The backend task.                                                       *)

\* The callbacks (pipe_transfer_done_cb) of the transfers in ts run.
Deliver(ts) ==
    /\ tstate' = [t \in Transfers |-> IF t \in ts THEN "called" ELSE tstate[t]]
    /\ completed' = completed \cup {tctx[t] : t \in ts}

Pending == {t \in Transfers : tstate[t] = "done"}

\* usb_host_client_handle_events at the top of the loop.
Pump ==
    /\ bpc = "pump"
    /\ Deliver(Pending)
    /\ bpc' = "events"
    /\ UNCHANGED <<callerVars, availSem, doneSem, assigned, active, submitted,
                   aborted, expired, owner, xfer, tctx, tkey, tstatus, known, bi>>

\* process_backend_events.  Which devices came and went, and which events
\* were dropped because the queue was full, is left open here.
ProcessEvents ==
    /\ bpc = "events"
    /\ known' \in SUBSET Devices
    /\ bpc' = "submit" /\ bi' = 0
    /\ UNCHANGED <<callerVars, availSem, doneSem, assigned, flagVars, owner, xfer,
                   xferVars>>

\* Go on to the next slot of this scan, or to the next part of the loop.
Advance(scan, next) ==
    IF bi + 1 < NumPipes THEN bpc' = scan /\ bi' = bi + 1
                         ELSE bpc' = next /\ bi' = 0

\* Mutant: done_sem is not given.
AnswerSilently(p, status) ==
    result' = [result EXCEPT ![owner[p]] = status] /\ UNCHANGED doneSem

\* Write the caller's status and give its done_sem.
Answer(p, status) ==
    /\ result' = [result EXCEPT ![owner[p]] = status]
    /\ doneSem' = doneSem \cup {p}

SubmitSkip ==
    /\ bpc = "submit"
    /\ bi \notin active \/ bi \in submitted
    /\ Advance("submit", "check")
    /\ UNCHANGED <<callerVars, availSem, doneSem, assigned, flagVars, owner, xfer,
                   xferVars, known>>

\* Mutants: a flag of the slot's previous request survives.
ResetFlagsNotCompleted(p) ==
    UNCHANGED completed /\ aborted' = aborted \ {p} /\ expired' = expired \ {p}
ResetFlagsNotAborted(p) ==
    completed' = completed \ {p} /\ UNCHANGED aborted /\ expired' = expired \ {p}

\* A submitted slot starts neither completed nor aborted, its deadline ahead.
ResetFlags(p) ==
    completed' = completed \ {p} /\ aborted' = aborted \ {p} /\ expired' = expired \ {p}

\* prepare_and_submit_transfer succeeds.  A new transfer object is zeroed,
\* and status 0 is COMPLETED.
Submit ==
    /\ bpc = "submit"
    /\ bi \in active \ submitted
    /\ req[owner[bi]].dev \in known
    /\ \E t \in Transfers :
         /\ tstate[t] = "free"
         /\ tstate' = [tstate EXCEPT ![t] = "inflight"]
         /\ tctx' = [tctx EXCEPT ![t] = bi]
         /\ tkey' = [tkey EXCEPT ![t] = req[owner[bi]]]
         /\ tstatus' = [tstatus EXCEPT ![t] = "COMPLETED"]
         /\ xfer' = [xfer EXCEPT ![bi] = t]
    /\ submitted' = submitted \cup {bi}
    /\ ResetFlags(bi)
    /\ Advance("submit", "check")
    /\ UNCHANGED <<callerVars, availSem, doneSem, assigned, active, owner, known>>

\* What prepare_and_submit_transfer can fail with: the device left the
\* table; no transfer object; claiming an interface or submitting failed.
SubmitErrors(p) ==
    IF req[owner[p]].dev \notin known THEN {"ENODEV"}
    ELSE SubmitFailures \cup
         (IF \A t \in Transfers : tstate[t] # "free" THEN {"ENOMEM"} ELSE {})

SubmitFails ==
    /\ bpc = "submit"
    /\ bi \in active \ submitted
    /\ \E e \in SubmitErrors(bi) : Answer(bi, e)
    /\ active' = active \ {bi}
    /\ Advance("submit", "check")
    /\ UNCHANGED <<pc, req, slot, cancel, availSem, assigned, submitted, completed,
                   aborted, expired, owner, xfer, xferVars, known>>

CheckSkip ==
    /\ bpc = "check"
    /\ bi \notin submitted
    /\ Advance("check", "pump")
    /\ UNCHANGED <<callerVars, availSem, doneSem, assigned, flagVars, owner, xfer,
                   xferVars, known>>

\* Mutant: no software timeout.
CancelledOnly(p) == owner[p] \in cancel

AbortRequested(p) == owner[p] \in cancel \/ p \in expired

\* Detect a cancel request or a software timeout; then abort, finish or
\* leave the slot in flight.
Check ==
    /\ bpc = "check"
    /\ bi \in submitted
    /\ aborted' = IF AbortRequested(bi) THEN aborted \cup {bi} ELSE aborted
    /\ IF bi \in aborted' /\ bi \notin completed /\ req[owner[bi]].ep # EP0
         THEN bpc' = "abort" /\ bi' = bi
       ELSE IF bi \in completed \cup aborted'
         THEN bpc' = "finish" /\ bi' = bi
       ELSE Advance("check", "pump")
    /\ UNCHANGED <<callerVars, availSem, doneSem, assigned, active, submitted,
                   completed, expired, owner, xfer, xferVars, known>>

\* usb_host_endpoint_halt and usb_host_endpoint_flush end every transfer
\* of the endpoint as CANCELED, and the events pumped while waiting run the
\* callbacks; then usb_host_endpoint_clear.  The wait gives up after 50
\* rounds if the callback does not come.
Abort ==
    LET flushed == {t \in Transfers : tstate[t] = "inflight" /\ tkey[t] = req[owner[bi]]}
    IN  /\ bpc = "abort"
        /\ \/ /\ tstatus' = [t \in Transfers |->
                               IF t \in flushed THEN "CANCELED" ELSE tstatus[t]]
              /\ Deliver(Pending \cup flushed)
           \/ /\ FlushMayFail
              /\ Deliver(Pending)
              /\ UNCHANGED tstatus
        /\ bpc' = "finish"
        /\ UNCHANGED <<callerVars, availSem, doneSem, assigned, active, submitted,
                       aborted, expired, owner, xfer, tctx, tkey, known, bi>>

\* Mutant: an unhandled status counts as success.
MapStatusDefaultOk(s) ==
    CASE s = "CANCELED"  -> "ECONNRESET"
      [] s = "NO_DEVICE" -> "ENODEV"
      [] OTHER           -> "OK"

\* map_transfer_status_to_errno
MapStatus(s) ==
    CASE s = "COMPLETED" -> "OK"
      [] s = "TIMED_OUT" -> "ETIMEDOUT"
      [] s = "CANCELED"  -> "ECONNRESET"
      [] s = "STALL"     -> "EPIPE"
      [] s = "NO_DEVICE" -> "ENODEV"
      [] OTHER           -> "EIO"

\* The status complete_transfer returns, overridden when we forced the abort.
FinalStatus(p) ==
    IF p \in aborted
      THEN IF owner[p] \in cancel THEN "ECONNRESET" ELSE "ETIMEDOUT"
      ELSE MapStatus(tstatus[xfer[p]])

\* Mutant: the transfer is not freed.
FreeNothing(t) == UNCHANGED xferVars

\* usb_host_transfer_free refuses an object whose callback has not run.
\* What a freed object held is gone.
FreeTransfer(t) ==
    IF tstate[t] = "called"
      THEN /\ tstate' = [tstate EXCEPT ![t] = "free"]
           /\ tctx' = [tctx EXCEPT ![t] = 0]
           /\ tkey' = [tkey EXCEPT ![t] = AnyRequest]
           /\ tstatus' = [tstatus EXCEPT ![t] = "COMPLETED"]
      ELSE UNCHANGED xferVars

\* Mutant: submitted is not cleared.
RetireStillSubmitted(p) ==
    active' = active \ {p} /\ UNCHANGED submitted /\ expired' = expired \ {p}

Retire(p) ==
    active' = active \ {p} /\ submitted' = submitted \ {p} /\ expired' = expired \ {p}

\* complete_transfer, and the caller is signalled.
Finish ==
    /\ bpc = "finish"
    /\ Answer(bi, FinalStatus(bi))
    /\ FreeTransfer(xfer[bi])
    /\ xfer' = [xfer EXCEPT ![bi] = NoTransfer]
    /\ Retire(bi)
    /\ Advance("check", "pump")
    /\ UNCHANGED <<pc, req, slot, cancel, availSem, assigned, completed, aborted,
                   owner, known>>

-----------------------------------------------------------------------------

\* What a caller does once it has asked for a slot, but for the wait.
CallerProceeds(c) ==
    \/ RefuseUnknown(c) \/ ClaimSlot(c) \/ Activate(c)
    \/ TakeDone(c) \/ ReleaseSlot(c) \/ GivePermit(c)

CallerStep(c) == Call(c) \/ Cancel(c) \/ TakeAvail(c) \/ CallerProceeds(c)

BackendStep ==
    \/ Pump \/ ProcessEvents
    \/ SubmitSkip \/ Submit \/ SubmitFails
    \/ CheckSkip \/ Check \/ Abort \/ Finish

Next ==
    \/ \E c \in Callers : CallerStep(c)
    \/ BackendStep
    \/ \E t \in Transfers : HwComplete(t)
    \/ \E p \in PipeIds : Expire(p)

Spec == Init /\ [][Next]_vars

(* Fairness.  The backend task wakes at least every 10 ms; a task that can *)
(* run runs; FreeRTOS hands a semaphore to the task that waited longest,   *)
(* so a waiting caller cannot be overtaken for ever; the tick count passes *)
(* every deadline.  Nothing is assumed of the controller, and nobody has   *)
(* to call or to cancel.                                                   *)
Fairness ==
    /\ WF_vars(BackendStep)
    /\ \A c \in Callers : WF_vars(CallerProceeds(c)) /\ SF_vars(TakeAvail(c))
    /\ \A p \in PipeIds : SF_vars(Expire(p))

FairSpec == Spec /\ Fairness

-----------------------------------------------------------------------------

\* Type invariant.
TypeOK ==
    /\ pc \in [Callers -> CallerStates]
    /\ req \in [Callers -> Requests]
    /\ slot \in [Callers -> PipeIds \cup {NoPipe}]
    /\ result \in [Callers -> Results]
    /\ cancel \subseteq Callers
    /\ availSem \in 0 .. NumPipes
    /\ doneSem \subseteq PipeIds
    /\ assigned \subseteq PipeIds
    /\ active \subseteq PipeIds
    /\ submitted \subseteq PipeIds
    /\ completed \subseteq PipeIds
    /\ aborted \subseteq PipeIds
    /\ expired \subseteq PipeIds
    /\ owner \in [PipeIds -> Callers \cup {NoCaller}]
    /\ xfer \in [PipeIds -> Transfers \cup {NoTransfer}]
    /\ tstate \in [Transfers -> {"free", "inflight", "done", "called"}]
    /\ tctx \in [Transfers -> PipeIds]
    /\ tkey \in [Transfers -> Requests]
    /\ tstatus \in [Transfers -> TransferStatuses]
    /\ known \subseteq Devices
    /\ bpc \in BackendStates
    /\ bi \in PipeIds

\* Callers that hold a permit of pipe_avail_sem, and those that hold a slot.
PermitHolders == {c \in Callers : pc[c] \notin {"idle", "waitAvail"}}
SlotHolders   == {c \in Callers : pc[c] \in {"fill", "waitDone", "release"}}

\* The counting semaphore counts: every permit is either available or held
\* by one caller, on every path out of submit_pipe_request.
PermitsExact == availSem + Cardinality(PermitHolders) = NumPipes

\* The assigned slots are exactly the slots the callers hold, and no slot
\* is shared by two callers.
SlotsExact ==
    /\ assigned = {slot[c] : c \in SlotHolders}
    /\ \A c \in Callers : c \in SlotHolders <=> slot[c] # NoPipe
    /\ \A c, d \in SlotHolders : slot[c] = slot[d] => c = d

\* "Should never happen if the counting semaphore is correct": no caller is
\* turned away with EBUSY.
NoAccountingError == \A c \in Callers : result[c] # "EBUSY"

\* So the semaphore and the flags, which are never changed together, agree.
AccountingExact == PermitsExact /\ SlotsExact /\ NoAccountingError

\* The backend dereferences status_out, in_data and cancel, which point into
\* the caller's frame, only while that caller is still blocked in the call
\* that filled this slot.
OwnerWaits ==
    \A p \in active \cup submitted \cup doneSem :
        /\ owner[p] \in Callers
        /\ pc[owner[p]] = "waitDone"
        /\ slot[owner[p]] = p

\* No lost and no spurious wake-up: a caller that waits on done_sem has
\* either a request the backend still works on or an answer, never both.
WaiterServed ==
    \A c \in Callers : pc[c] = "waitDone" =>
        /\ slot[c] \in active <=> slot[c] \notin doneSem
        /\ slot[c] \in doneSem <=> result[c] # "none"

\* The phases of the backend's loop agree with the slots: what it aborts or
\* finishes is submitted, and only active slots are submitted.
BackendAgrees ==
    /\ submitted \subseteq active
    /\ bpc \in {"abort", "finish"} => bi \in submitted

\* No request carries a result before the backend or an early return gave
\* it one: an answer belongs to the call it is read in.
ResultUnset ==
    \A c \in Callers :
        pc[c] \in {"idle", "waitAvail", "lookup", "fill"} => result[c] = "none"

\* The inductive invariant: permits and slots agree with where each caller
\* is, and the handshake between a caller and the backend is sound.
IInv ==
    /\ TypeOK
    /\ PermitsExact
    /\ SlotsExact
    /\ OwnerWaits
    /\ WaiterServed
    /\ BackendAgrees
    /\ ResultUnset
    /\ NoAccountingError

\* "completed: true = DWC callback has fired", for the transfer this slot
\* has in flight and not for another one.
CompletedMeansFired ==
    \A p \in submitted \cap completed : tstate[xfer[p]] = "called"

\* A slot is aborted only because this request was cancelled or timed out,
\* never because the previous request of the slot was.
AbortJustified ==
    \A p \in submitted \cap aborted : owner[p] \in cancel \/ p \in expired

\* Every transfer object that is not free belongs to a submitted slot: when
\* a request ends its transfer is given back.
NoTransferLeak ==
    \A t \in Transfers : tstate[t] # "free" =>
        \E p \in submitted : xfer[p] = t /\ tctx[t] = p

\* Transfers that an earlier request of slot p gave up, now called back.
Strays(p) ==
    {t \in Transfers : tctx[t] = p /\ tstate[t] = "called" /\ \A q \in submitted : xfer[q] # t}

\* The callback of slot p's transfer has run, or that of one it gave up.
Explained(p) == tstate[xfer[p]] = "called" \/ Strays(p) # {}

\* A request that is taken for completed although its own callback has not run
\* was taken for so by a transfer that its slot gave up earlier; and one is
\* finished so early only for that reason, or because it was aborted and the
\* abort did not reach its transfer.
LateExplained ==
    /\ \A p \in submitted \cap completed : Explained(p)
    /\ bpc = "finish" =>
         Explained(bi) \/ (bi \in aborted /\ (req[owner[bi]].ep = EP0 \/ FlushMayFail))

\* "Concurrent URBs on the same endpoint no longer collide": a request is reset
\* only if someone unlinked that request.
ResetOnlyIfUnlinked ==
    \A c \in Callers : result[c] = "ECONNRESET" => c \in cancel

\* A caller is told OK only after the controller finished, without error,
\* the transfer submitted for this very request.
OkOnlyFromHardware ==
    [][\A c \in Callers : result'[c] = "OK" /\ result[c] # "OK" =>
          /\ tstate[xfer[slot[c]]] = "called"
          /\ tstatus[xfer[slot[c]]] = "COMPLETED"
          /\ tkey[xfer[slot[c]]] = req[c]]_vars

\* Every request comes back to its caller, whatever the device does.
EveryCallReturns == \A c \in Callers : pc[c] = "waitAvail" ~> pc[c] = "idle"

=============================================================================
