------------------------ MODULE PipeTransferProofs ------------------------
(***************************************************************************)
(* Proofs about the transfer objects of PipePool, on top of IInv: which    *)
(* transfer a submitted slot holds, when a completion that the backend     *)
(* believes is true, on whose account a request is aborted, and where a    *)
(* completion that is not true comes from.                                 *)
(*                                                                         *)
(* A completion is true as long as no callback is late.  A control         *)
(* transfer, or one that the flush leaves behind, may outlive its request. *)
(***************************************************************************)
EXTENDS PipePoolProofs

(***************************************************************************)
(* What the steps of the callers, of the controller and of time leave      *)
(* alone.                                                                  *)
(***************************************************************************)

\* What the backend reads of a submitted slot: whose it is, and for what.
SubmittedKept ==
  \A p \in submitted :
     /\ owner'[p] = owner[p]
     /\ req'[owner[p]] = req[owner[p]]
     /\ owner[p] \in cancel => owner[p] \in cancel'

\* No step of a caller touches a transfer, a flag of the backend's or the
\* request of a slot in flight: that request's caller waits.
LEMMA CallerFrame ==
  ASSUME IInv, NEW c \in Callers, CallerStep(c)
  PROVE  /\ UNCHANGED <<submitted, completed, aborted, expired, xfer, bpc, bi>>
         /\ UNCHANGED <<tstate, tctx, tkey, tstatus>>
         /\ SubmittedKept
<1> USE DEF IInv, TypeOK, flagVars, xferVars, SubmittedKept
<1>1. \A p \in submitted : owner[p] \in Callers /\ pc[owner[p]] = "waitDone" /\ slot[owner[p]] = p
  BY DEF OwnerWaits
<1>2. CASE Call(c)           BY <1>1, <1>2 DEF Call
<1>3. CASE Cancel(c)         BY <1>1, <1>3 DEF Cancel
<1>4. CASE TakeAvail(c)      BY <1>1, <1>4 DEF TakeAvail
<1>5. CASE RefuseUnknown(c)  BY <1>1, <1>5 DEF RefuseUnknown
<1>6. CASE ClaimSlot(c)      BY <1>1, <1>6 DEF ClaimSlot
<1>7. CASE Activate(c)
  <2>1. c \in SlotHolders /\ pc[c] # "waitDone"  BY <1>7 DEF Activate, SlotHolders
  <2>2. slot[c] \notin submitted  BY <2>1, OwnSlotIdle
  <2> QED  BY <1>1, <1>7, <2>2 DEF Activate
<1>8. CASE TakeDone(c)       BY <1>1, <1>8 DEF TakeDone
<1>9. CASE ReleaseSlot(c)    BY <1>1, <1>9 DEF ReleaseSlot
<1>10. CASE GivePermit(c)    BY <1>1, <1>10 DEF GivePermit
<1> QED  BY <1>2, <1>3, <1>4, <1>5, <1>6, <1>7, <1>8, <1>9, <1>10
         DEF CallerStep, CallerProceeds

\* No step of the backend, of the controller or of time touches a request,
\* a cancel flag or the owner of a slot.
LEMMA BackendFrame ==
  ASSUME \/ BackendStep
         \/ \E t \in Transfers : HwComplete(t)
         \/ \E p \in PipeIds : Expire(p)
  PROVE  UNCHANGED <<pc, req, slot, cancel, owner>>
  BY DEF BackendStep, Pump, ProcessEvents, SubmitSkip, Submit, SubmitFails, CheckSkip,
         Check, Abort, Finish, HwComplete, Expire, callerVars

\* Going on to the next slot never enters the abort or the finish phase.
LEMMA AdvancePhase ==
  ASSUME NEW scan, NEW next, Advance(scan, next)
  PROVE  bpc' \in {scan, next}
  BY DEF Advance

(***************************************************************************)
(* Every submitted slot has a transfer of its own.                         *)
(***************************************************************************)

\* The transfer of a submitted slot exists, is not freed, calls back this
\* slot, and was submitted to what this slot's request asked for.
SubmittedOwns ==
  \A p \in submitted :
     /\ xfer[p] \in Transfers
     /\ tstate[xfer[p]] # "free"
     /\ tctx[xfer[p]] = p
     /\ tkey[xfer[p]] = req[owner[p]]

\* Running callbacks frees no transfer and brings none back.
LEMMA DeliverStates ==
  ASSUME TypeOK, NEW ts, ts \subseteq Transfers, Deliver(ts), \A t \in ts : tstate[t] # "free"
  PROVE  /\ \A t \in Transfers : tstate'[t] = "free" <=> tstate[t] = "free"
         /\ \A t \in Transfers : tstate[t] = "called" => tstate'[t] = "called"
         /\ \A t \in ts : tstate'[t] = "called"
  BY DEF TypeOK, Deliver

\* The callbacks that the abort of slot bi runs.
Flushed == {t \in Transfers : tstate[t] = "inflight" /\ tkey[t] = req[owner[bi]]}

LEMMA AbortDelivers ==
  ASSUME Abort
  PROVE  \/ Deliver(Pending \cup Flushed)
         \/ FlushMayFail /\ Deliver(Pending)
  BY DEF Abort, Flushed

LEMMA OwnsStep ==
  ASSUME IInv, SubmittedOwns, [Next]_vars
  PROVE  SubmittedOwns'
<1> USE DEF IInv
<1>0. \A p \in submitted : owner[p] \in Callers  BY DEF OwnerWaits
<1>1. ASSUME NEW c \in Callers, CallerStep(c)  PROVE SubmittedOwns'
  <2>1. /\ UNCHANGED <<submitted, xfer, tstate, tctx, tkey>>
        /\ SubmittedKept
    BY <1>1, CallerFrame
  <2> QED  BY <1>0, <2>1 DEF SubmittedOwns, SubmittedKept
<1>2. ASSUME UNCHANGED <<submitted, xfer, tctx, tkey, owner, req>>,
             \A t \in Transfers : tstate[t] # "free" => tstate'[t] # "free"
      PROVE  SubmittedOwns'
  BY <1>2 DEF SubmittedOwns
<1>3. CASE \/ ProcessEvents \/ SubmitSkip \/ SubmitFails \/ CheckSkip \/ Check
           \/ \E p \in PipeIds : Expire(p)
           \/ UNCHANGED vars
  <2>1. UNCHANGED <<submitted, xfer, tstate, tctx, tkey, owner, req>>
    BY <1>3 DEF ProcessEvents, SubmitSkip, SubmitFails, CheckSkip, Check, Expire, vars,
                callerVars, flagVars, xferVars
  <2> QED  BY <1>2, <2>1
<1>4. ASSUME NEW t \in Transfers, HwComplete(t)  PROVE SubmittedOwns'
  <2>1. UNCHANGED <<submitted, xfer, tctx, tkey, owner, req>>
    BY <1>4 DEF HwComplete, callerVars, flagVars
  <2>2. \A u \in Transfers : tstate[u] # "free" => tstate'[u] # "free"
    BY <1>4 DEF HwComplete, TypeOK
  <2> QED  BY <1>2, <2>1, <2>2
<1>5. CASE Pump \/ Abort
  <2>1. UNCHANGED <<submitted, xfer, tctx, tkey, owner, req>>
    BY <1>5 DEF Pump, Abort, callerVars
  <2>2. PICK ts \in SUBSET Transfers : Deliver(ts) /\ \A t \in ts : tstate[t] # "free"
    <3>1. Pending \in SUBSET Transfers /\ Pending \cup Flushed \in SUBSET Transfers
      BY DEF Pending, Flushed
    <3>2. \A t \in Pending \cup Flushed : tstate[t] # "free"  BY DEF Pending, Flushed
    <3>3. Deliver(Pending) \/ Deliver(Pending \cup Flushed)
      BY <1>5, AbortDelivers DEF Pump
    <3> QED  BY <3>1, <3>2, <3>3
  <2>3. \A t \in Transfers : tstate'[t] = "free" <=> tstate[t] = "free"
    BY <2>2, DeliverStates
  <2> QED  BY <1>2, <2>1, <2>3
<1>6. CASE Submit
  <2>1. PICK t \in Transfers :
          /\ tstate[t] = "free"
          /\ tstate' = [tstate EXCEPT ![t] = "inflight"]
          /\ tctx' = [tctx EXCEPT ![t] = bi]
          /\ tkey' = [tkey EXCEPT ![t] = req[owner[bi]]]
          /\ xfer' = [xfer EXCEPT ![bi] = t]
    BY <1>6 DEF Submit
  <2>2. /\ submitted' = submitted \cup {bi} /\ bi \notin submitted /\ bi \in PipeIds
        /\ UNCHANGED <<owner, req>>
    BY <1>6 DEF Submit, ResetFlags, callerVars, TypeOK
  <2>3. ASSUME NEW p \in submitted'
        PROVE  /\ xfer'[p] \in Transfers
               /\ tstate'[xfer'[p]] # "free"
               /\ tctx'[xfer'[p]] = p
               /\ tkey'[xfer'[p]] = req'[owner'[p]]
    <3>1. CASE p = bi  BY <2>1, <2>2, <3>1 DEF TypeOK
    <3>2. CASE p # bi
      <4>1. p \in submitted /\ xfer'[p] = xfer[p]  BY <2>1, <2>2, <3>2 DEF TypeOK
      <4>2. xfer[p] \in Transfers /\ xfer[p] # t  BY <2>1, <4>1 DEF SubmittedOwns
      <4> QED  BY <2>1, <2>2, <4>1, <4>2 DEF TypeOK, SubmittedOwns
    <3> QED  BY <3>1, <3>2
  <2> QED  BY <2>3 DEF SubmittedOwns
<1>7. CASE Finish
  <2>1. /\ submitted' = submitted \ {bi}
        /\ xfer' = [xfer EXCEPT ![bi] = NoTransfer]
        /\ FreeTransfer(xfer[bi])
        /\ bi \in submitted
        /\ UNCHANGED <<owner, req>>
    BY <1>7 DEF Finish, Retire, BackendAgrees
  <2>2. \A u \in Transfers : u # xfer[bi] =>
           tstate'[u] = tstate[u] /\ tctx'[u] = tctx[u] /\ tkey'[u] = tkey[u]
    BY <2>1 DEF FreeTransfer, xferVars, TypeOK
  <2>3. ASSUME NEW p \in submitted'
        PROVE  /\ xfer'[p] \in Transfers
               /\ tstate'[xfer'[p]] # "free"
               /\ tctx'[xfer'[p]] = p
               /\ tkey'[xfer'[p]] = req'[owner'[p]]
    <3>1. p \in submitted /\ p # bi /\ xfer'[p] = xfer[p]  BY <2>1 DEF TypeOK
    <3>2. xfer[p] \in Transfers /\ xfer[p] # xfer[bi]
      BY <2>1, <3>1 DEF SubmittedOwns
    <3> QED  BY <2>1, <2>2, <3>1, <3>2 DEF SubmittedOwns
  <2> QED  BY <2>3 DEF SubmittedOwns
<1> QED  BY <1>1, <1>3, <1>4, <1>5, <1>6, <1>7 DEF Next, BackendStep

LEMMA OwnsInit == Init => SubmittedOwns
  BY DEF Init, SubmittedOwns

\* In every pool, with control transfers and failing flushes too, the
\* transfer that the backend polls, flushes or frees for a slot is the one
\* submitted for the slot's present request, and no other slot's.
THEOREM TransferOwned == Spec => []SubmittedOwns
  BY InitInvariant, NextInvariant, OwnsInit, OwnsStep, PTL DEF Spec

(***************************************************************************)
(* A completion that the backend believes is true.                         *)
(***************************************************************************)

\* complete_transfer runs only after the callback of the slot's transfer.
\* Where it fails, a transfer outlives its request: see stale_callback.
FinishFired == bpc = "finish" => tstate[xfer[bi]] = "called"

\* The completion invariant: while FinishFired holds every transfer goes back
\* to the heap, hence nothing is left in flight that could complete a later
\* request of the slot, hence what is marked completed is.
FiredInv == SubmittedOwns /\ CompletedMeansFired /\ NoTransferLeak

\* A step that keeps slots and transfers, but for transfers that get closer
\* to their callback, keeps all of it.
LEMMA FiredKept ==
  ASSUME FiredInv, UNCHANGED <<submitted, completed, xfer, tctx>>,
         \A t \in Transfers : /\ tstate'[t] # "free" => tstate[t] # "free"
                              /\ tstate[t] = "called" => tstate'[t] = "called"
  PROVE  CompletedMeansFired' /\ NoTransferLeak'
<1> USE DEF FiredInv
<1>1. CompletedMeansFired'  BY DEF CompletedMeansFired, SubmittedOwns
<1>2. NoTransferLeak'  BY DEF NoTransferLeak
<1> QED  BY <1>1, <1>2

\* Callbacks that run mark only slots whose transfer they belong to.
LEMMA DeliverFired ==
  ASSUME IInv, FiredInv, NEW ts \in SUBSET Transfers, Deliver(ts),
         \A t \in ts : tstate[t] # "free", UNCHANGED <<submitted, xfer, tctx>>
  PROVE  CompletedMeansFired' /\ NoTransferLeak'
<1> USE DEF IInv, FiredInv
<1>1. /\ \A t \in Transfers : tstate'[t] = "free" <=> tstate[t] = "free"
      /\ \A t \in Transfers : tstate[t] = "called" => tstate'[t] = "called"
      /\ \A t \in ts : tstate'[t] = "called"
  BY DeliverStates
<1>2. ASSUME NEW p \in submitted, p \in completed'
      PROVE  tstate'[xfer[p]] = "called"
  <2>1. CASE p \in completed  BY <1>1, <2>1 DEF CompletedMeansFired, SubmittedOwns
  <2>2. CASE p \notin completed
    <3>1. PICK t \in ts : tctx[t] = p  BY <1>2, <2>2 DEF Deliver
    <3>2. xfer[p] = t  BY <3>1 DEF NoTransferLeak
    <3> QED  BY <1>1, <3>1, <3>2
  <2> QED  BY <2>1, <2>2
<1>3. CompletedMeansFired'  BY <1>2 DEF CompletedMeansFired
<1>4. NoTransferLeak'  BY <1>1 DEF NoTransferLeak
<1> QED  BY <1>3, <1>4

LEMMA FiredStep ==
  ASSUME IInv, FiredInv, FinishFired, [Next]_vars
  PROVE  FiredInv'
<1> USE DEF IInv, FiredInv
<1>0. SubmittedOwns'  BY OwnsStep
<1>1. ASSUME NEW c \in Callers, CallerStep(c)  PROVE FiredInv'
  <2>1. UNCHANGED <<submitted, completed, xfer, tstate, tctx>>
    BY <1>1, CallerFrame
  <2> QED  BY <1>0, <2>1, FiredKept
<1>2. CASE \/ ProcessEvents \/ SubmitSkip \/ SubmitFails \/ CheckSkip \/ Check
           \/ \E p \in PipeIds : Expire(p)
           \/ UNCHANGED vars
  <2>1. UNCHANGED <<submitted, completed, xfer, tstate, tctx>>
    BY <1>2 DEF ProcessEvents, SubmitSkip, SubmitFails, CheckSkip, Check, Expire, vars,
                callerVars, flagVars, xferVars
  <2> QED  BY <1>0, <2>1, FiredKept
<1>3. ASSUME NEW t \in Transfers, HwComplete(t)  PROVE FiredInv'
  <2>1. UNCHANGED <<submitted, completed, xfer, tctx>>
    BY <1>3 DEF HwComplete, flagVars
  <2>2. \A u \in Transfers : /\ tstate'[u] # "free" => tstate[u] # "free"
                             /\ tstate[u] = "called" => tstate'[u] = "called"
    BY <1>3 DEF HwComplete, TypeOK
  <2> QED  BY <1>0, <2>1, <2>2, FiredKept
<1>4. CASE Pump
  <2>1. Pending \in SUBSET Transfers /\ \A t \in Pending : tstate[t] # "free"
    BY DEF Pending
  <2>2. Deliver(Pending) /\ UNCHANGED <<submitted, xfer, tctx>>
    BY <1>4 DEF Pump
  <2> QED  BY <1>0, <2>1, <2>2, DeliverFired
<1>5. CASE Abort
  <2>1. PICK ts \in {Pending, Pending \cup Flushed} : Deliver(ts)
    BY <1>5, AbortDelivers
  <2>2. ts \in SUBSET Transfers /\ \A t \in ts : tstate[t] # "free"
    BY <2>1 DEF Pending, Flushed
  <2>3. UNCHANGED <<submitted, xfer, tctx>>  BY <1>5 DEF Abort
  <2> QED  BY <1>0, <2>1, <2>2, <2>3, DeliverFired
<1>6. CASE Submit
  <2>1. PICK t \in Transfers :
          /\ tstate[t] = "free"
          /\ tstate' = [tstate EXCEPT ![t] = "inflight"]
          /\ tctx' = [tctx EXCEPT ![t] = bi]
          /\ xfer' = [xfer EXCEPT ![bi] = t]
    BY <1>6 DEF Submit
  <2>2. /\ submitted' = submitted \cup {bi} /\ bi \notin submitted /\ bi \in PipeIds
        /\ completed' = completed \ {bi}
    BY <1>6 DEF Submit, ResetFlags, TypeOK
  <2>3. \A p \in submitted : xfer'[p] = xfer[p] /\ xfer[p] \in Transfers /\ xfer[p] # t
    BY <2>1, <2>2 DEF SubmittedOwns, TypeOK
  <2>4. CompletedMeansFired'
    BY <2>1, <2>2, <2>3 DEF CompletedMeansFired, TypeOK
  <2>5. NoTransferLeak'
    <3> SUFFICES ASSUME NEW u \in Transfers, tstate'[u] # "free"
                 PROVE  \E p \in submitted' : xfer'[p] = u /\ tctx'[u] = p
      BY DEF NoTransferLeak
    <3>1. CASE u = t
      <4>1. xfer'[bi] = u /\ tctx'[u] = bi  BY <2>1, <2>2, <3>1 DEF TypeOK
      <4> QED  BY <2>2, <4>1
    <3>2. CASE u # t
      <4>1. tstate[u] # "free" /\ tctx'[u] = tctx[u]  BY <2>1, <3>2 DEF TypeOK
      <4>2. PICK p \in submitted : xfer[p] = u /\ tctx[u] = p
        BY <4>1 DEF NoTransferLeak
      <4> QED  BY <2>2, <2>3, <4>1, <4>2
    <3> QED  BY <3>1, <3>2
  <2> QED  BY <1>0, <2>4, <2>5
<1>7. CASE Finish
  <2>1. /\ submitted' = submitted \ {bi} /\ bi \in submitted
        /\ xfer' = [xfer EXCEPT ![bi] = NoTransfer]
        /\ FreeTransfer(xfer[bi])
        /\ completed' = completed
        /\ tstate[xfer[bi]] = "called"
    BY <1>7 DEF Finish, Retire, BackendAgrees, FinishFired
  <2>2. xfer[bi] \in Transfers  BY <2>1 DEF SubmittedOwns
  <2>3. /\ tstate'[xfer[bi]] = "free"
        /\ \A u \in Transfers : u # xfer[bi] => tstate'[u] = tstate[u] /\ tctx'[u] = tctx[u]
    BY <2>1, <2>2 DEF FreeTransfer, TypeOK
  <2>4. \A p \in submitted' : p \in submitted /\ xfer'[p] = xfer[p] /\ xfer[p] # xfer[bi]
    BY <2>1 DEF SubmittedOwns, TypeOK
  <2>5. CompletedMeansFired'
    BY <2>1, <2>3, <2>4 DEF CompletedMeansFired, SubmittedOwns
  <2>6. NoTransferLeak'
    <3> SUFFICES ASSUME NEW u \in Transfers, tstate'[u] # "free"
                 PROVE  \E p \in submitted' : xfer'[p] = u /\ tctx'[u] = p
      BY DEF NoTransferLeak
    <3>1. u # xfer[bi]  BY <2>3
    <3>2. tstate[u] # "free" /\ tctx'[u] = tctx[u]  BY <2>3, <3>1
    <3>3. PICK p \in submitted : xfer[p] = u /\ tctx[u] = p
      BY <3>2 DEF NoTransferLeak
    <3>4. p \in submitted'  BY <2>1, <3>1, <3>3
    <3> QED  BY <2>4, <3>2, <3>3, <3>4
  <2> QED  BY <1>0, <2>5, <2>6
<1> QED  BY <1>1, <1>2, <1>3, <1>4, <1>5, <1>6, <1>7 DEF Next, BackendStep

LEMMA FiredInit == Init => FiredInv /\ FinishFired
<1> SUFFICES ASSUME Init PROVE FiredInv /\ FinishFired  OBVIOUS
<1>1. SubmittedOwns  BY OwnsInit
<1>2. FinishFired /\ CompletedMeansFired /\ NoTransferLeak
  BY DEF Init, FinishFired, CompletedMeansFired, NoTransferLeak
<1> QED  BY <1>1, <1>2 DEF FiredInv

\* In every pool, control transfers and failing flushes included: as long as
\* complete_transfer finds the callback of its transfer done, pipe->completed
\* is true of what the slot has in flight, and every transfer that is not
\* free belongs to a submitted slot.  A callback that is late is the only way
\* to a wrong completion and to a lost transfer.
THEOREM LateCallbackOnly ==
  Spec /\ []FinishFired => [](CompletedMeansFired /\ NoTransferLeak)
<1>1. FinishFired /\ IInv /\ FiredInv /\ [Next]_vars => (IInv /\ FiredInv)'
  BY FiredStep, NextInvariant
<1>2. FiredInv => CompletedMeansFired /\ NoTransferLeak  BY DEF FiredInv
<1> QED  BY <1>1, <1>2, InitInvariant, FiredInit, PTL DEF Spec

(***************************************************************************)
(* What a caller is told.                                                  *)
(***************************************************************************)

\* A step gives a caller a result only in one of five places, and an answer
\* of the backend goes to the caller that owns the slot.
LEMMA ResultStep ==
  ASSUME IInv, [Next]_vars, NEW c \in Callers, result'[c] # result[c]
  PROVE  \/ result'[c] \in {"ENODEV", "EBUSY", "none"}
         \/ /\ SubmitFails
            /\ result'[c] \in {"ENODEV", "EIO", "ENOMEM"}
         \/ /\ Finish
            /\ c = owner[bi]
            /\ slot[c] = bi
            /\ result'[c] = FinalStatus(bi)
<1> USE DEF IInv
<1>1. ASSUME NEW d \in Callers, CallerStep(d)
      PROVE  result'[c] \in {"ENODEV", "EBUSY", "none"}
  BY <1>1 DEF CallerStep, CallerProceeds, Call, Cancel, TakeAvail, RefuseUnknown,
     ClaimSlot, Activate, TakeDone, ReleaseSlot, GivePermit, TypeOK
<1>2. CASE \/ Pump \/ ProcessEvents \/ SubmitSkip \/ Submit \/ CheckSkip \/ Check \/ Abort
           \/ \E t \in Transfers : HwComplete(t)
           \/ \E p \in PipeIds : Expire(p)
           \/ UNCHANGED vars
  BY <1>2 DEF Pump, ProcessEvents, SubmitSkip, Submit, CheckSkip, Check, Abort, HwComplete,
     Expire, vars, callerVars
<1>3. CASE SubmitFails
  <2>1. PICK e \in SubmitErrors(bi) : Answer(bi, e)  BY <1>3 DEF SubmitFails
  <2>2. e \in {"ENODEV", "EIO", "ENOMEM"}  BY <2>1, PoolAssumption DEF SubmitErrors
  <2>3. result'[c] = e  BY <2>1 DEF Answer, TypeOK
  <2> QED  BY <1>3, <2>2, <2>3
<1>4. CASE Finish
  <2>1. result' = [result EXCEPT ![owner[bi]] = FinalStatus(bi)]  BY <1>4 DEF Finish, Answer
  <2>2. c = owner[bi] /\ result'[c] = FinalStatus(bi)  BY <2>1 DEF TypeOK
  <2>3. slot[c] = bi  BY <1>4, <2>2 DEF Finish, BackendAgrees, OwnerWaits
  <2> QED  BY <1>4, <2>2, <2>3
<1> QED  BY <1>1, <1>2, <1>3, <1>4 DEF Next, BackendStep

\* map_transfer_status_to_errno says OK of COMPLETED only.
LEMMA MappedStatus ==
  ASSUME NEW s \in TransferStatuses, MapStatus(s) = "OK"
  PROVE  s = "COMPLETED"
  BY DEF MapStatus, TransferStatuses

LEMMA OkStep ==
  ASSUME IInv, SubmittedOwns, FinishFired, [Next]_vars,
         NEW c \in Callers, result'[c] = "OK", result[c] # "OK"
  PROVE  /\ tstate[xfer[slot[c]]] = "called"
         /\ tstatus[xfer[slot[c]]] = "COMPLETED"
         /\ tkey[xfer[slot[c]]] = req[c]
<1>1. /\ Finish
      /\ c = owner[bi]
      /\ slot[c] = bi
      /\ FinalStatus(bi) = "OK"
  BY ResultStep
<1>2. bpc = "finish" /\ bi \in submitted  BY <1>1 DEF Finish, IInv, BackendAgrees
<1>3. /\ xfer[bi] \in Transfers
      /\ tkey[xfer[bi]] = req[owner[bi]]
      /\ tstate[xfer[bi]] = "called"
  BY <1>2 DEF SubmittedOwns, FinishFired
<1>4. MapStatus(tstatus[xfer[bi]]) = "OK"  BY <1>1 DEF FinalStatus
<1>5. tstatus[xfer[bi]] \in TransferStatuses  BY <1>3 DEF IInv, TypeOK
<1>6. tstatus[xfer[bi]] = "COMPLETED"  BY ONLY <1>4, <1>5, MappedStatus
<1> QED  BY <1>1, <1>3, <1>6

\* A caller is told OK only when the controller has ended, as COMPLETED, the
\* transfer that was submitted for this very request: in every pool, as long
\* as no callback is late.
THEOREM OkIsEarned == Spec /\ []FinishFired => OkOnlyFromHardware
<1>1. IInv /\ SubmittedOwns /\ FinishFired /\ [Next]_vars
        => [\A c \in Callers : result'[c] = "OK" /\ result[c] # "OK" =>
              /\ tstate[xfer[slot[c]]] = "called"
              /\ tstatus[xfer[slot[c]]] = "COMPLETED"
              /\ tkey[xfer[slot[c]]] = req[c]]_vars
  BY OkStep
<1>2. Spec => [][Next]_vars  BY DEF Spec
<1> QED  BY <1>1, <1>2, Invariance, TransferOwned, PTL DEF OkOnlyFromHardware

(***************************************************************************)
(* On whose account a request is aborted.                                  *)
(***************************************************************************)

\* The abort phase works on a slot that is marked aborted.
AbortPhase == bpc = "abort" => bi \in aborted

LEMMA AccountStep ==
  ASSUME IInv, AbortJustified, AbortPhase, [Next]_vars
  PROVE  AbortJustified' /\ AbortPhase'
<1> USE DEF IInv
<1>1. ASSUME NEW c \in Callers, CallerStep(c)  PROVE AbortJustified' /\ AbortPhase'
  <2>1. UNCHANGED <<submitted, aborted, expired, bpc, bi>> /\ SubmittedKept
    BY <1>1, CallerFrame
  <2> QED  BY <2>1 DEF SubmittedKept, AbortJustified, AbortPhase
<1>2. CASE \/ Pump \/ ProcessEvents \/ SubmitSkip \/ SubmitFails \/ CheckSkip \/ Abort
           \/ \E t \in Transfers : HwComplete(t)
           \/ UNCHANGED vars
  <2>1. /\ UNCHANGED <<submitted, aborted, expired, owner, cancel>>
        /\ bpc' = "abort" => bpc = "abort" /\ bi' = bi
    BY <1>2, AdvancePhase
       DEF Pump, ProcessEvents, SubmitSkip, SubmitFails, CheckSkip, Abort, HwComplete, vars,
           callerVars, flagVars
  <2> QED  BY <2>1 DEF AbortJustified, AbortPhase
<1>3. CASE Submit
  <2>1. /\ submitted' = submitted \cup {bi} /\ bi \notin submitted
        /\ aborted' = aborted \ {bi} /\ expired' = expired \ {bi}
        /\ UNCHANGED <<owner, cancel>>
        /\ bpc' \in {"submit", "check"}
    BY <1>3, AdvancePhase DEF Submit, ResetFlags, callerVars
  <2> QED  BY <2>1 DEF AbortJustified, AbortPhase
<1>4. CASE Check
  <2>1. /\ aborted' = IF AbortRequested(bi) THEN aborted \cup {bi} ELSE aborted
        /\ UNCHANGED <<submitted, expired, owner, cancel>>
        /\ bpc' = "abort" => bi' = bi /\ bi \in aborted'
    BY <1>4, AdvancePhase DEF Check, callerVars
  <2> QED  BY <2>1 DEF AbortJustified, AbortRequested, AbortPhase
<1>5. CASE Finish
  <2>1. /\ submitted' = submitted \ {bi} /\ expired' = expired \ {bi}
        /\ UNCHANGED <<aborted, owner, cancel>>
        /\ bpc' \in {"check", "pump"}
    BY <1>5, AdvancePhase DEF Finish, Retire
  <2> QED  BY <2>1 DEF AbortJustified, AbortPhase
<1>6. ASSUME NEW p \in PipeIds, Expire(p)  PROVE AbortJustified' /\ AbortPhase'
  BY <1>6 DEF Expire, callerVars, AbortJustified, AbortPhase
<1> QED  BY <1>1, <1>2, <1>3, <1>4, <1>5, <1>6 DEF Next, BackendStep

LEMMA AccountInit == Init => AbortJustified /\ AbortPhase
  BY DEF Init, AbortJustified, AbortPhase

\* In every pool, a slot in flight is marked aborted only because the
\* present request was cancelled or timed out: no mark of the slot's
\* previous request survives.
THEOREM AbortsJustified == Spec => []AbortJustified
  BY InitInvariant, NextInvariant, AccountInit, AccountStep, PTL DEF Spec

(***************************************************************************)
(* Why a completion comes too early.                                       *)
(***************************************************************************)

\* A slot that is submitted after a step was so before, with its transfer, or
\* it has just been submitted.
LEMMA SlotKept ==
  ASSUME IInv, [Next]_vars, NEW p \in submitted'
  PROVE  (p \in submitted /\ xfer'[p] = xfer[p]) \/ (Submit /\ p = bi)
<1> USE DEF IInv
<1>1. ASSUME NEW c \in Callers, CallerStep(c)  PROVE p \in submitted /\ xfer'[p] = xfer[p]
  BY <1>1, CallerFrame
<1>2. CASE \/ Pump \/ ProcessEvents \/ SubmitSkip \/ SubmitFails \/ CheckSkip \/ Check \/ Abort
           \/ \E t \in Transfers : HwComplete(t)
           \/ \E q \in PipeIds : Expire(q)
           \/ UNCHANGED vars
  BY <1>2 DEF Pump, ProcessEvents, SubmitSkip, SubmitFails, CheckSkip, Check, Abort, HwComplete,
     Expire, vars, flagVars
<1>3. CASE Submit
  <2>1. \A q \in PipeIds : q # bi => xfer'[q] = xfer[q]  BY <1>3 DEF Submit, TypeOK
  <2> QED  BY <1>3, <2>1 DEF Submit, TypeOK
<1>4. CASE Finish
  <2>1. p \in submitted /\ p # bi  BY <1>4 DEF Finish, Retire
  <2> QED  BY <1>4, <2>1 DEF Finish, TypeOK
<1> QED  BY <1>1, <1>2, <1>3, <1>4 DEF Next, BackendStep

\* A transfer whose callback has run stays what it is until its slot frees it.
LEMMA CalledKept ==
  ASSUME IInv, [Next]_vars, NEW t \in Transfers, tstate[t] = "called", Finish => t # xfer[bi]
  PROVE  tstate'[t] = "called" /\ tctx'[t] = tctx[t]
<1> USE DEF IInv
<1>1. ASSUME NEW c \in Callers, CallerStep(c)  PROVE UNCHANGED <<tstate, tctx>>
  BY <1>1, CallerFrame
<1>2. CASE \/ ProcessEvents \/ SubmitSkip \/ SubmitFails \/ CheckSkip \/ Check
           \/ \E p \in PipeIds : Expire(p)
           \/ UNCHANGED vars
  BY <1>2 DEF ProcessEvents, SubmitSkip, SubmitFails, CheckSkip, Check, Expire, vars, xferVars
<1>3. ASSUME NEW u \in Transfers, HwComplete(u)  PROVE tstate'[t] = "called" /\ tctx'[t] = tctx[t]
  BY <1>3 DEF HwComplete, TypeOK
<1>4. CASE Pump \/ Abort
  <2>1. \A ts : Deliver(ts) => tstate'[t] = "called"  BY DEF Deliver
  <2>2. tstate'[t] = "called"  BY <1>4, <2>1, AbortDelivers DEF Pump
  <2>3. tctx' = tctx  BY <1>4 DEF Pump, Abort
  <2> QED  BY <2>2, <2>3
<1>5. CASE Submit  BY <1>5 DEF Submit, TypeOK
<1>6. CASE Finish
  <2>1. FreeTransfer(xfer[bi]) /\ t # xfer[bi]  BY <1>6 DEF Finish
  <2> QED  BY <2>1 DEF FreeTransfer, xferVars, TypeOK
<1> QED  BY <1>1, <1>2, <1>3, <1>4, <1>5, <1>6 DEF Next, BackendStep

\* A transfer given up stays given up.
LEMMA StraysStay ==
  ASSUME IInv, [Next]_vars, NEW p \in PipeIds
  PROVE  Strays(p) \subseteq Strays(p)'
<1> SUFFICES ASSUME NEW t \in Strays(p)  PROVE t \in Strays(p)'
  OBVIOUS
<1>1. t \in Transfers /\ tctx[t] = p /\ tstate[t] = "called" /\ \A q \in submitted : xfer[q] # t
  BY DEF Strays
<1>2. Finish => t # xfer[bi]  BY <1>1 DEF Finish, IInv, BackendAgrees
<1>3. tctx'[t] = p /\ tstate'[t] = "called"  BY <1>1, <1>2, CalledKept
<1>4. ASSUME NEW q \in submitted'  PROVE xfer'[q] # t
  <2>1. CASE q \in submitted /\ xfer'[q] = xfer[q]  BY <1>1, <2>1
  <2>2. CASE Submit /\ q = bi
    <3>1. PICK u \in Transfers : tstate[u] = "free" /\ xfer' = [xfer EXCEPT ![bi] = u]
      BY <2>2 DEF Submit
    <3>2. xfer'[q] = u  BY <2>2, <3>1 DEF IInv, TypeOK
    <3> QED  BY <1>1, <3>1, <3>2
  <2> QED  BY <2>1, <2>2, SlotKept
<1> QED  BY <1>1, <1>3, <1>4 DEF Strays

\* So what explains a slot's completion explains it until the slot is finished.
LEMMA ExplainedStays ==
  ASSUME IInv, SubmittedOwns, [Next]_vars, NEW p \in submitted, Explained(p),
         p \in submitted', xfer'[p] = xfer[p]
  PROVE  Explained(p)'
<1>1. p \in PipeIds /\ xfer[p] \in Transfers  BY DEF IInv, TypeOK, SubmittedOwns
<1>2. CASE tstate[xfer[p]] = "called"
  <2>1. ASSUME Finish  PROVE xfer[p] # xfer[bi]
    <3>1. bi \in submitted /\ p # bi  BY <2>1 DEF Finish, Retire, IInv, BackendAgrees
    <3> QED  BY <3>1 DEF SubmittedOwns
  <2>2. tstate'[xfer[p]] = "called"  BY <1>1, <1>2, <2>1, CalledKept
  <2> QED  BY <2>2 DEF Explained
<1>3. CASE Strays(p) # {}
  <2>1. Strays(p)' # {}  BY <1>1, <1>3, StraysStay
  <2> QED  BY <2>1 DEF Explained
<1> QED  BY <1>2, <1>3 DEF Explained

\* A slot that a callback marks completed is explained by that callback.
LEMMA DeliverExplains ==
  ASSUME IInv, SubmittedOwns, NEW ts \in SUBSET Transfers, Deliver(ts),
         UNCHANGED <<submitted, xfer, tctx>>, NEW p \in submitted, NEW t \in ts, tctx[t] = p
  PROVE  Explained(p)'
<1>1. t \in Transfers /\ tstate'[t] = "called" /\ tctx'[t] = p  BY DEF Deliver
<1>2. CASE t = xfer[p]  BY <1>1, <1>2 DEF Explained
<1>3. CASE t # xfer[p]
  <2>1. \A q \in submitted' : xfer'[q] # t  BY <1>3 DEF SubmittedOwns
  <2>2. t \in Strays(p)'  BY <1>1, <2>1 DEF Strays
  <2> QED  BY <2>2 DEF Explained
<1> QED  BY <1>2, <1>3

\* Each slot that is submitted and completed after a step.
LEMMA CompletedExplained ==
  ASSUME IInv, SubmittedOwns, LateExplained, [Next]_vars, NEW p \in submitted', p \in completed'
  PROVE  Explained(p)'
<1> USE DEF IInv
<1>1. ~ (Submit /\ p = bi)  BY DEF Submit, ResetFlags
<1>2. p \in submitted /\ xfer'[p] = xfer[p]  BY <1>1, SlotKept
<1>3. CASE p \in completed
  <2>1. Explained(p)  BY <1>2, <1>3 DEF LateExplained
  <2> QED  BY <1>2, <2>1, ExplainedStays
<1>4. CASE p \notin completed
  <2>1. ASSUME NEW c \in Callers, CallerStep(c)  PROVE FALSE
    <3>1. completed' = completed  BY <2>1, CallerFrame
    <3> QED  BY <1>4, <3>1
  <2>2. CASE Pump \/ Abort
    <3>1. PICK ts \in SUBSET Transfers : Deliver(ts)
      <4>1. Pending \in SUBSET Transfers /\ Pending \cup Flushed \in SUBSET Transfers
        BY DEF Pending, Flushed
      <4> QED  BY <2>2, <4>1, AbortDelivers DEF Pump
    <3>2. UNCHANGED <<submitted, xfer, tctx>>  BY <2>2 DEF Pump, Abort
    <3>3. PICK t \in ts : tctx[t] = p  BY <1>4, <3>1 DEF Deliver
    <3> QED  BY <1>2, <3>1, <3>2, <3>3, DeliverExplains
  <2>3. CASE \/ ProcessEvents \/ SubmitSkip \/ Submit \/ SubmitFails \/ CheckSkip \/ Check \/ Finish
             \/ \E t \in Transfers : HwComplete(t)
             \/ \E q \in PipeIds : Expire(q)
             \/ UNCHANGED vars
    BY <1>4, <2>3 DEF ProcessEvents, SubmitSkip, Submit, ResetFlags, SubmitFails, CheckSkip, Check,
       Finish, HwComplete, Expire, vars, flagVars
  <2> QED  BY <2>1, <2>2, <2>3 DEF Next, BackendStep
<1> QED  BY <1>3, <1>4

\* What the backend is about to finish after a step.
LEMMA FinishExplained ==
  ASSUME IInv, SubmittedOwns, AbortPhase, LateExplained, [Next]_vars, bpc' = "finish"
  PROVE  \/ Explained(bi)'
         \/ bi' \in aborted' /\ (req'[owner'[bi']].ep = EP0 \/ FlushMayFail)
<1> USE DEF IInv
<1>1. ASSUME bpc = "finish", UNCHANGED <<submitted, xfer, aborted, bi>>, SubmittedKept
      PROVE  \/ Explained(bi)'
             \/ bi' \in aborted' /\ (req'[owner'[bi']].ep = EP0 \/ FlushMayFail)
  <2>1. bi \in submitted  BY <1>1 DEF BackendAgrees
  <2>2. CASE Explained(bi)
    <3>1. ASSUME NEW p \in PipeIds, p = bi  PROVE Explained(p)'
      BY <1>1, <2>1, <2>2, <3>1, ExplainedStays
    <3> QED  BY <1>1, <2>1, <3>1 DEF TypeOK, Explained, Strays
  <2>3. CASE bi \in aborted /\ (req[owner[bi]].ep = EP0 \/ FlushMayFail)
    BY <1>1, <2>1, <2>3 DEF SubmittedKept
  <2> QED  BY <1>1, <2>2, <2>3 DEF LateExplained
<1>2. ASSUME NEW c \in Callers, CallerStep(c)
      PROVE  bpc = "finish" /\ UNCHANGED <<submitted, xfer, aborted, bi>> /\ SubmittedKept
  BY <1>2, CallerFrame
<1>3. CASE (\E t \in Transfers : HwComplete(t)) \/ UNCHANGED vars
  BY <1>1, <1>3 DEF HwComplete, vars, callerVars, flagVars, SubmittedKept
<1>4. CASE \/ Pump \/ ProcessEvents \/ SubmitSkip \/ Submit \/ SubmitFails \/ CheckSkip \/ Finish
           \/ \E p \in PipeIds : Expire(p)
  BY <1>4, AdvancePhase DEF Pump, ProcessEvents, SubmitSkip, Submit, SubmitFails, CheckSkip, Finish,
     Expire
<1>5. CASE Check
  <2>1. /\ UNCHANGED <<submitted, completed, xfer, req, owner>> /\ bi \in submitted /\ bi' = bi
        /\ UNCHANGED <<tstate, tctx>>
    BY <1>5, AdvancePhase DEF Check, callerVars, xferVars
  <2>2. bi \in completed \/ (bi \in aborted' /\ req[owner[bi]].ep = EP0)
    BY <1>5, AdvancePhase DEF Check
  <2>3. CASE bi \in completed
    <3>1. Explained(bi)  BY <2>1, <2>3 DEF LateExplained
    <3>2. Explained(bi)'  BY <2>1, <3>1 DEF Explained, Strays
    <3> QED  BY <3>2
  <2> QED  BY <2>1, <2>2, <2>3
<1>6. CASE Abort
  <2>1. /\ UNCHANGED <<aborted, bi, xfer>> /\ bi \in submitted /\ bi \in aborted
    BY <1>6 DEF Abort, BackendAgrees, AbortPhase
  <2>2. CASE FlushMayFail  BY <2>1, <2>2
  <2>3. CASE ~ FlushMayFail
    <3> DEFINE ts == Pending \cup Flushed
    <3>1. ts \in SUBSET Transfers /\ \A t \in ts : tstate[t] # "free"  BY DEF Pending, Flushed
    <3>2. Deliver(ts)  BY <1>6, <2>3, AbortDelivers
    <3>3. xfer[bi] \in Transfers /\ tstate[xfer[bi]] # "free" /\ tkey[xfer[bi]] = req[owner[bi]]
      BY <2>1 DEF SubmittedOwns
    <3>4. tstate[xfer[bi]] \in {"free", "inflight", "done", "called"}  BY <3>3 DEF TypeOK
    <3>5. xfer[bi] \in ts \/ tstate[xfer[bi]] = "called"  BY <3>3, <3>4 DEF Pending, Flushed
    <3>6. tstate'[xfer[bi]] = "called"
      <4> HIDE DEF ts
      <4> QED  BY <3>1, <3>2, <3>3, <3>5, DeliverStates
    <3> QED  BY <2>1, <3>6 DEF Explained
  <2> QED  BY <2>2, <2>3
<1> QED  BY <1>1, <1>2, <1>3, <1>4, <1>5, <1>6 DEF Next, BackendStep

\* In every pool, with control transfers and failing flushes: a request is
\* taken for completed, or finished, before its callback only by a transfer
\* that its slot gave up earlier, or because it was aborted itself and the
\* abort did not reach its transfer.
THEOREM EarlyIsExplained == Spec => []LateExplained
<1> DEFINE Inv == IInv /\ SubmittedOwns /\ AbortJustified /\ AbortPhase /\ LateExplained
<1>1. Init => Inv
  <2>1. Init => LateExplained  BY DEF Init, LateExplained
  <2> QED  BY <2>1, InitInvariant, OwnsInit, AccountInit
<1>2. Inv /\ [Next]_vars => Inv'
  <2> SUFFICES ASSUME Inv, [Next]_vars  PROVE Inv'  OBVIOUS
  <2>1. IInv'  BY NextInvariant
  <2>2. SubmittedOwns' /\ AbortJustified' /\ AbortPhase'  BY OwnsStep, AccountStep
  <2>3. \A p \in submitted' \cap completed' : Explained(p)'  BY CompletedExplained
  <2>4. LateExplained'  BY <2>3, FinishExplained DEF LateExplained
  <2> QED  BY <2>1, <2>2, <2>4
<1>3. Inv => LateExplained  OBVIOUS
<1> HIDE DEF Inv
<1> QED  BY <1>1, <1>2, <1>3, PTL DEF Spec
=============================================================================
