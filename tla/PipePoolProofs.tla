-------------------------- MODULE PipePoolProofs --------------------------
(***************************************************************************)
(* Proofs about PipePool, for every number of callers, pipes, transfers    *)
(* and devices: IInv is an inductive invariant, so the counting semaphore  *)
(* counts, no slot is shared, no caller is ever turned away for want of a  *)
(* slot, and the backend touches a caller's frame only while the caller    *)
(* waits.                                                                  *)
(***************************************************************************)
EXTENDS PipePool, FiniteSetTheorems, TLAPS

USE PoolAssumption DEF PipeIds, NoPipe

(***************************************************************************)
(* alloc_pipe_locked.                                                      *)
(***************************************************************************)

\* Every non-empty set of naturals has a least element: the smallest of the
\* intervals 0 .. n, by strict inclusion, ends at it.
LEMMA LeastElement ==
  ASSUME NEW S, S \subseteq Nat, S # {}
  PROVE  \E p \in S : \A q \in S : p <= q
<1> DEFINE T == {0 .. n : n \in S}
<1>1. T \subseteq FiniteSubsetsOf(Nat)
  <2>1. ASSUME NEW n \in S  PROVE 0 .. n \in FiniteSubsetsOf(Nat)
    <3>1. n \in Int /\ 0 \in Int  OBVIOUS
    <3>2. IsFiniteSet(0 .. n)  BY ONLY <3>1, FS_Interval
    <3> QED  BY <3>2 DEF FiniteSubsetsOf
  <2> QED  BY <2>1
<1>2. T # {}  OBVIOUS
<1>3. PICK x \in T : \A y \in T : ~ (<<y, x>> \in StrictSubsetOrdering(Nat))
  <2> HIDE DEF T
  <2> QED  BY ONLY <1>1, <1>2, FS_StrictSubsetOrderingWellFounded, WFMin
<1>4. PICK p \in S : x = 0 .. p  OBVIOUS
<1>5. ASSUME NEW q \in S, q < p  PROVE FALSE
  <2>1. 0 .. q \in T  OBVIOUS
  <2>2. 0 .. q \subseteq 0 .. p /\ 0 .. q # 0 .. p  BY <1>5
  <2>3. 0 .. q \in SUBSET Nat /\ 0 .. p \in SUBSET Nat  OBVIOUS
  <2>4. <<0 .. q, 0 .. p>> \in StrictSubsetOrdering(Nat)
    BY <2>2, <2>3 DEF StrictSubsetOrdering
  <2> QED  BY <1>3, <1>4, <2>1, <2>4
<1>6. \A q \in S : p <= q
  <2> TAKE q \in S
  <2>1. p \in Int /\ q \in Int  OBVIOUS
  <2> QED  BY <1>5, <2>1
<1> QED  BY <1>6

\* alloc_pipe_locked answers a slot that is not assigned, or -1 when every
\* slot is.
LEMMA FreePipeType ==
  /\ FreePipe \in PipeIds \cup {NoPipe}
  /\ FreePipe # NoPipe => FreePipe \in PipeIds \ assigned
  /\ FreePipe = NoPipe => PipeIds \subseteq assigned
<1> DEFINE free == PipeIds \ assigned
<1>1. CASE free = {}  BY <1>1 DEF FreePipe
<1>2. CASE free # {}
  <2>1. free \subseteq Nat  OBVIOUS
  <2>2. \E p \in free : \A q \in free : p <= q
    <3> HIDE DEF free
    <3> QED  BY ONLY <1>2, <2>1, LeastElement
  <2>3. FreePipe \in free  BY <1>2, <2>2 DEF FreePipe
  <2> QED  BY <2>3
<1> QED  BY <1>1, <1>2

(***************************************************************************)
(* Types.                                                                  *)
(***************************************************************************)

LEMMA AnyRequestType == AnyRequest \in Requests
<1>1. PICK d \in Devices, e \in Requested : TRUE  OBVIOUS
<1>2. [dev |-> d, ep |-> e] \in Requests  BY DEF Requests
<1> QED  BY <1>2 DEF AnyRequest

LEMMA InitType == Init => TypeOK
  BY AnyRequestType
  DEF Init, TypeOK, CallerStates, BackendStates, Results, TransferStatuses

LEMMA CallerType ==
  ASSUME TypeOK, SlotsExact, NEW c \in Callers, CallerStep(c)
  PROVE  TypeOK'
<1> USE DEF TypeOK, CallerStates, Results, flagVars, xferVars
<1>1. CASE Call(c)           BY <1>1 DEF Call
<1>2. CASE Cancel(c)         BY <1>2 DEF Cancel
<1>3. CASE TakeAvail(c)      BY <1>3 DEF TakeAvail
<1>4. CASE RefuseUnknown(c)  BY <1>4 DEF RefuseUnknown
<1>5. CASE ClaimSlot(c)      BY <1>5, FreePipeType DEF ClaimSlot
<1>6. CASE Activate(c)
  <2>1. slot[c] \in PipeIds  BY <1>6 DEF Activate, SlotsExact, SlotHolders
  <2> QED  BY <1>6, <2>1 DEF Activate
<1>7. CASE TakeDone(c)       BY <1>7 DEF TakeDone
<1>8. CASE ReleaseSlot(c)    BY <1>8 DEF ReleaseSlot
<1>9. CASE GivePermit(c)     BY <1>9, AnyRequestType DEF GivePermit
<1> QED  BY <1>1, <1>2, <1>3, <1>4, <1>5, <1>6, <1>7, <1>8, <1>9
         DEF CallerStep, CallerProceeds

\* Delivering callbacks keeps the types of the flags and of the transfers.
LEMMA DeliverType ==
  ASSUME TypeOK, NEW ts, ts \subseteq Transfers, Deliver(ts)
  PROVE  /\ completed' \subseteq PipeIds
         /\ tstate' \in [Transfers -> {"free", "inflight", "done", "called"}]
<1>1. \A t \in ts : tctx[t] \in PipeIds  BY DEF TypeOK
<1>2. completed \subseteq PipeIds        BY DEF TypeOK
<1>3. completed' \subseteq PipeIds       BY <1>1, <1>2 DEF Deliver
<1>4. tstate' \in [Transfers -> {"free", "inflight", "done", "called"}]
  BY DEF Deliver, TypeOK
<1> QED  BY <1>3, <1>4

LEMMA AdvanceType ==
  ASSUME bi \in PipeIds, NEW scan, NEW next, scan \in BackendStates, next \in BackendStates,
         Advance(scan, next)
  PROVE  bi' \in PipeIds /\ bpc' \in BackendStates
  BY DEF Advance

LEMMA BackendType ==
  ASSUME TypeOK, OwnerWaits, BackendStep
  PROVE  TypeOK'
<1> USE DEF TypeOK, callerVars, flagVars, xferVars
<1>1. CASE Pump
  <2>1. Pending \subseteq Transfers  BY DEF Pending
  <2>2. Deliver(Pending)  BY <1>1 DEF Pump
  <2> QED  BY <1>1, <2>1, <2>2, DeliverType DEF Pump, BackendStates
<1>2. CASE ProcessEvents  BY <1>2 DEF ProcessEvents, BackendStates
<1>3. CASE SubmitSkip     BY <1>3, AdvanceType DEF SubmitSkip, BackendStates
<1>4. CASE Submit
  <2>1. req[owner[bi]] \in Requests  BY <1>4 DEF Submit, OwnerWaits
  <2>2. bi' \in PipeIds /\ bpc' \in BackendStates
    BY <1>4, AdvanceType DEF Submit, BackendStates
  <2> QED  BY <1>4, <2>1, <2>2 DEF Submit, ResetFlags, TransferStatuses
<1>5. CASE SubmitFails
  <2>1. bi' \in PipeIds /\ bpc' \in BackendStates
    BY <1>5, AdvanceType DEF SubmitFails, BackendStates
  <2>2. SubmitErrors(bi) \subseteq Results  BY DEF SubmitErrors, Results
  <2> QED  BY <1>5, <2>1, <2>2 DEF SubmitFails, Answer
<1>6. CASE CheckSkip      BY <1>6, AdvanceType DEF CheckSkip, BackendStates
<1>7. CASE Check
  <2>1. bi' \in PipeIds /\ bpc' \in BackendStates
    BY <1>7, AdvanceType DEF Check, BackendStates
  <2> QED  BY <1>7, <2>1 DEF Check
<1>8. CASE Abort
  <2> DEFINE flushed == {t \in Transfers : tstate[t] = "inflight" /\ tkey[t] = req[owner[bi]]}
  <2>1. Pending \subseteq Transfers /\ flushed \subseteq Transfers  BY DEF Pending
  <2>2. Deliver(Pending) \/ Deliver(Pending \cup flushed)  BY <1>8 DEF Abort
  <2>3. /\ completed' \subseteq PipeIds
        /\ tstate' \in [Transfers -> {"free", "inflight", "done", "called"}]
    BY <2>1, <2>2, DeliverType
  <2>4. tstatus' \in [Transfers -> TransferStatuses]
    BY <1>8 DEF Abort, TransferStatuses
  <2> QED  BY <1>8, <2>3, <2>4 DEF Abort, BackendStates
<1>9. CASE Finish
  <2>1. bi' \in PipeIds /\ bpc' \in BackendStates
    BY <1>9, AdvanceType DEF Finish, BackendStates
  <2>2. FinalStatus(bi) \in Results  BY DEF FinalStatus, MapStatus, Results
  <2>3. /\ tstate' \in [Transfers -> {"free", "inflight", "done", "called"}]
        /\ tctx' \in [Transfers -> PipeIds]
        /\ tkey' \in [Transfers -> Requests]
        /\ tstatus' \in [Transfers -> TransferStatuses]
    <3>1. FreeTransfer(xfer[bi])  BY <1>9 DEF Finish
    <3>2. CASE tstate[xfer[bi]] = "called"
      <4>1. /\ tstate' = [tstate EXCEPT ![xfer[bi]] = "free"]
            /\ tctx' = [tctx EXCEPT ![xfer[bi]] = 0]
            /\ tkey' = [tkey EXCEPT ![xfer[bi]] = AnyRequest]
            /\ tstatus' = [tstatus EXCEPT ![xfer[bi]] = "COMPLETED"]
        BY ONLY <3>1, <3>2 DEF FreeTransfer
      <4>2. 0 \in PipeIds  BY DEF PoolAssumption
      <4>3. tctx' \in [Transfers -> PipeIds]  BY ONLY <4>1, <4>2, TypeOK DEF TypeOK
      <4>4. tkey' \in [Transfers -> Requests]  BY <4>1, AnyRequestType
      <4>5. tstatus' \in [Transfers -> TransferStatuses]  BY <4>1 DEF TransferStatuses
      <4>6. tstate' \in [Transfers -> {"free", "inflight", "done", "called"}]  BY <4>1
      <4> QED  BY <4>3, <4>4, <4>5, <4>6
    <3>3. CASE tstate[xfer[bi]] # "called"
      <4>1. UNCHANGED <<tstate, tctx, tkey, tstatus>>
        BY ONLY <3>1, <3>3 DEF FreeTransfer, xferVars
      <4> QED  BY <4>1
    <3> QED  BY <3>2, <3>3
  <2> QED  BY <1>9, <2>1, <2>2, <2>3 DEF Finish, Retire, Answer
<1> QED  BY <1>1, <1>2, <1>3, <1>4, <1>5, <1>6, <1>7, <1>8, <1>9 DEF BackendStep

(***************************************************************************)
(* The permits of pipe_avail_sem.                                          *)
(***************************************************************************)

\* At the start nobody holds a permit.
LEMMA InitPermits == Init => PermitsExact
<1> SUFFICES ASSUME Init PROVE PermitsExact  OBVIOUS
<1>1. PermitHolders = {}  BY DEF Init, PermitHolders
<1> QED  BY <1>1, FS_EmptySet DEF Init, PermitsExact

LEMMA HoldersFinite ==
  IsFiniteSet(PermitHolders) /\ Cardinality(PermitHolders) \in Nat
<1>1. PermitHolders \in SUBSET Callers  BY DEF PermitHolders
<1>2. IsFiniteSet(Callers)  BY DEF PoolAssumption
<1>3. IsFiniteSet(PermitHolders)  BY ONLY <1>1, <1>2, FS_Subset
<1> QED  BY ONLY <1>3, FS_CardinalityType

\* A caller takes a permit and enters; it gives the permit back and leaves;
\* in between neither the semaphore nor its being inside changes.
LEMMA CallerPermits ==
  ASSUME TypeOK, PermitsExact, NEW c \in Callers, CallerStep(c)
  PROVE  PermitsExact'
<1>1. CASE TakeAvail(c)
  <2>1. c \notin PermitHolders  BY <1>1 DEF TakeAvail, PermitHolders
  <2>2. PermitHolders' = PermitHolders \cup {c}
    BY <1>1 DEF TakeAvail, PermitHolders, TypeOK
  <2>3. Cardinality(PermitHolders') = Cardinality(PermitHolders) + 1
    BY ONLY <2>1, <2>2, HoldersFinite, FS_AddElement
  <2>4. availSem' = availSem - 1 /\ availSem \in Nat  BY <1>1 DEF TakeAvail, TypeOK
  <2> QED  BY <2>3, <2>4, HoldersFinite DEF PermitsExact
<1>2. CASE GivePermit(c)
  <2>1. c \in PermitHolders  BY <1>2 DEF GivePermit, PermitHolders
  <2>2. PermitHolders' = PermitHolders \ {c}
    BY <1>2 DEF GivePermit, PermitHolders, TypeOK
  <2>3. Cardinality(PermitHolders') = Cardinality(PermitHolders) - 1
    BY ONLY <2>1, <2>2, HoldersFinite, FS_RemoveElement
  <2>4. Cardinality(PermitHolders) # 0
    BY ONLY <2>1, HoldersFinite, FS_EmptySet
  <2>5. availSem < NumPipes  BY <2>4, HoldersFinite DEF PermitsExact, TypeOK
  <2>6. availSem' = availSem + 1 /\ availSem \in Nat
    BY <1>2, <2>5 DEF GivePermit, TypeOK
  <2> QED  BY <2>3, <2>6, HoldersFinite DEF PermitsExact
<1>3. CASE Call(c) \/ Cancel(c) \/ RefuseUnknown(c) \/ ClaimSlot(c) \/ Activate(c)
           \/ TakeDone(c) \/ ReleaseSlot(c)
  <2>1. PermitHolders' = PermitHolders /\ availSem' = availSem
    BY <1>3 DEF PermitHolders, TypeOK, Call, Cancel, RefuseUnknown, ClaimSlot,
                Activate, TakeDone, ReleaseSlot
  <2> QED  BY <2>1 DEF PermitsExact
<1> QED  BY <1>1, <1>2, <1>3 DEF CallerStep, CallerProceeds

(***************************************************************************)
(* Slots.                                                                  *)
(***************************************************************************)

\* The heart of the accounting: a caller that holds a permit and no slot yet
\* always finds one, because fewer slots than permits are taken.
LEMMA FreePipeExists ==
  ASSUME TypeOK, PermitsExact, SlotsExact, NEW c \in Callers, pc[c] = "lookup"
  PROVE  FreePipe # NoPipe
<1> SUFFICES ASSUME PipeIds \subseteq assigned PROVE FALSE  BY FreePipeType
<1> DEFINE f == [p \in PipeIds |-> CHOOSE d \in SlotHolders : slot[d] = p]
<1>1. \A p \in PipeIds : f[p] \in SlotHolders /\ slot[f[p]] = p  BY DEF SlotsExact
<1>2. f \in [PipeIds -> SlotHolders]  BY <1>1
<1>3. SlotHolders \subseteq PermitHolders \ {c}
  BY DEF SlotHolders, PermitHolders
<1>4. c \in PermitHolders  BY DEF PermitHolders
<1>5. /\ IsFiniteSet(PermitHolders \ {c})
      /\ Cardinality(PermitHolders \ {c}) = Cardinality(PermitHolders) - 1
  BY ONLY <1>4, HoldersFinite, FS_RemoveElement
<1>6. /\ IsFiniteSet(SlotHolders)
      /\ Cardinality(SlotHolders) <= Cardinality(PermitHolders \ {c})
  <2>1. SlotHolders \in SUBSET (PermitHolders \ {c})  BY <1>3
  <2> QED  BY ONLY <1>5, <2>1, FS_Subset
<1>7. Cardinality(SlotHolders) \in Nat  BY ONLY <1>6, FS_CardinalityType
<1>8. Cardinality(PermitHolders) <= NumPipes
  BY HoldersFinite DEF PermitsExact, TypeOK
<1>9. IsFiniteSet(PipeIds) /\ Cardinality(PipeIds) = NumPipes
  <2>1. 0 \in Int /\ NumPipes - 1 \in Int  BY DEF PoolAssumption
  <2>2. /\ IsFiniteSet(0 .. NumPipes - 1)
        /\ Cardinality(0 .. NumPipes - 1)
             = IF 0 > NumPipes - 1 THEN 0 ELSE (NumPipes - 1) - 0 + 1
    BY ONLY <2>1, FS_Interval
  <2> QED  BY <2>2 DEF PoolAssumption
<1>10. Cardinality(SlotHolders) < Cardinality(PipeIds)
  BY <1>5, <1>6, <1>7, <1>8, <1>9, HoldersFinite DEF PoolAssumption
<1>11. \E p, q \in PipeIds : p # q /\ f[p] = f[q]
  <2> HIDE DEF f
  <2> QED  BY ONLY <1>2, <1>6, <1>9, <1>10, FS_PigeonHole
<1> QED  BY <1>1, <1>11

LEMMA CallerSlots ==
  ASSUME TypeOK, PermitsExact, SlotsExact, NEW c \in Callers, CallerStep(c)
  PROVE  SlotsExact'
<1>1. CASE ClaimSlot(c)
  <2>1. FreePipe # NoPipe  BY <1>1, FreePipeExists DEF ClaimSlot
  <2>2. FreePipe \in PipeIds \ assigned  BY <2>1, FreePipeType
  <2>3. /\ slot' = [slot EXCEPT ![c] = FreePipe]
        /\ pc' = [pc EXCEPT ![c] = "fill"]
        /\ assigned' = assigned \cup {FreePipe}
    BY <1>1, <2>1 DEF ClaimSlot
  <2>4. SlotHolders' = SlotHolders \cup {c} /\ c \notin SlotHolders
    BY <1>1, <2>3 DEF SlotHolders, TypeOK, ClaimSlot
  <2>5. \A d \in SlotHolders : slot'[d] = slot[d] /\ slot'[d] # FreePipe
    BY <2>2, <2>3, <2>4 DEF SlotsExact, SlotHolders, TypeOK
  <2>6. slot'[c] = FreePipe  BY <2>3 DEF TypeOK
  <2>7. assigned' = {slot'[d] : d \in SlotHolders'}
    BY <2>3, <2>4, <2>5, <2>6 DEF SlotsExact
  <2>8. \A d \in Callers : d \in SlotHolders' <=> slot'[d] # NoPipe
    BY <2>1, <2>3, <2>4, <2>6 DEF SlotsExact, TypeOK
  <2>9. \A d, e \in SlotHolders' : slot'[d] = slot'[e] => d = e
    BY <2>4, <2>5, <2>6 DEF SlotsExact
  <2> QED  BY <2>7, <2>8, <2>9 DEF SlotsExact
<1>2. CASE ReleaseSlot(c)
  <2>1. SlotHolders' = SlotHolders \ {c} /\ c \in SlotHolders
    BY <1>2 DEF ReleaseSlot, SlotHolders, TypeOK
  <2>2. \A d \in SlotHolders' : slot'[d] = slot[d] /\ slot[d] # slot[c]
    BY <1>2, <2>1 DEF ReleaseSlot, SlotsExact, SlotHolders, TypeOK
  <2>3. assigned' = {slot'[d] : d \in SlotHolders'}
    BY <1>2, <2>1, <2>2 DEF ReleaseSlot, SlotsExact
  <2>4. \A d \in Callers : d \in SlotHolders' <=> slot'[d] # NoPipe
    BY <1>2, <2>1 DEF ReleaseSlot, SlotsExact, TypeOK
  <2>5. \A d, e \in SlotHolders' : slot'[d] = slot'[e] => d = e
    BY <2>1, <2>2 DEF SlotsExact
  <2> QED  BY <2>3, <2>4, <2>5 DEF SlotsExact
<1>3. CASE Call(c) \/ Cancel(c) \/ TakeAvail(c) \/ RefuseUnknown(c) \/ Activate(c)
           \/ TakeDone(c) \/ GivePermit(c)
  <2>1. SlotHolders' = SlotHolders /\ slot' = slot /\ assigned' = assigned
    BY <1>3 DEF SlotHolders, TypeOK, Call, Cancel, TakeAvail, RefuseUnknown,
                Activate, TakeDone, GivePermit
  <2> QED  BY <2>1 DEF SlotsExact
<1> QED  BY <1>1, <1>2, <1>3 DEF CallerStep, CallerProceeds

(***************************************************************************)
(* The handshake between a caller and the backend task.                    *)
(***************************************************************************)

\* An unassigned slot is idle: no request, no answer, nothing submitted.
LEMMA FreeSlotsIdle ==
  ASSUME TypeOK, SlotsExact, OwnerWaits
  PROVE  active \cup submitted \cup doneSem \subseteq assigned
  BY DEF TypeOK, SlotsExact, SlotHolders, OwnerWaits

\* The slot a caller has been given but not activated is idle too.
LEMMA OwnSlotIdle ==
  ASSUME TypeOK, SlotsExact, OwnerWaits, NEW c \in SlotHolders, pc[c] # "waitDone"
  PROVE  slot[c] \notin active \cup submitted \cup doneSem
  BY DEF TypeOK, SlotsExact, SlotHolders, OwnerWaits

LEMMA CallerHandshake ==
  ASSUME IInv, NEW c \in Callers, CallerStep(c)
  PROVE  /\ OwnerWaits'
         /\ WaiterServed'
         /\ BackendAgrees'
         /\ ResultUnset'
         /\ NoAccountingError'
<1> USE DEF IInv, flagVars, xferVars
<1>1. CASE Call(c)
  BY <1>1 DEF Call, TypeOK, OwnerWaits, WaiterServed, BackendAgrees, ResultUnset, NoAccountingError
<1>2. CASE Cancel(c)
  BY <1>2 DEF Cancel, TypeOK, OwnerWaits, WaiterServed, BackendAgrees, ResultUnset, NoAccountingError
<1>3. CASE TakeAvail(c)
  BY <1>3 DEF TakeAvail, TypeOK, OwnerWaits, WaiterServed, BackendAgrees, ResultUnset, NoAccountingError
<1>4. CASE RefuseUnknown(c)
  BY <1>4 DEF RefuseUnknown, TypeOK, OwnerWaits, WaiterServed, BackendAgrees, ResultUnset, NoAccountingError
<1>5. CASE ClaimSlot(c)
  <2>1. FreePipe # NoPipe  BY <1>5, FreePipeExists DEF ClaimSlot
  <2>2. FreePipe \notin active \cup submitted \cup doneSem
    BY <2>1, FreePipeType, FreeSlotsIdle
  <2>3. /\ pc[c] = "lookup"
        /\ slot' = [slot EXCEPT ![c] = FreePipe]
        /\ pc' = [pc EXCEPT ![c] = "fill"]
        /\ active' = active
        /\ UNCHANGED <<result, submitted, doneSem, owner, bpc, bi>>
    BY <1>5, <2>1, <2>2 DEF ClaimSlot
  <2> QED
    BY <2>3 DEF TypeOK, OwnerWaits, WaiterServed, BackendAgrees, ResultUnset, NoAccountingError
<1>6. CASE Activate(c)
  <2>1. c \in SlotHolders /\ pc[c] # "waitDone"  BY <1>6 DEF Activate, SlotHolders
  <2>2. slot[c] \notin active \cup submitted \cup doneSem  BY <2>1, OwnSlotIdle
  <2>3. slot[c] \in PipeIds  BY <2>1 DEF SlotsExact, TypeOK
  <2>4. /\ pc[c] = "fill"
        /\ owner' = [owner EXCEPT ![slot[c]] = c]
        /\ active' = active \cup {slot[c]}
        /\ pc' = [pc EXCEPT ![c] = "waitDone"]
        /\ UNCHANGED <<slot, result, submitted, doneSem, bpc, bi>>
    BY <1>6 DEF Activate
  <2>5. OwnerWaits'  BY <2>2, <2>3, <2>4 DEF TypeOK, OwnerWaits
  <2>6. WaiterServed'
    <3> SUFFICES ASSUME NEW d \in Callers, pc'[d] = "waitDone"
                 PROVE  /\ slot[d] \in active' <=> slot[d] \notin doneSem
                        /\ slot[d] \in doneSem <=> result[d] # "none"
      BY <2>4 DEF WaiterServed
    <3>1. CASE d = c  BY <2>2, <2>4, <3>1 DEF ResultUnset
    <3>2. CASE d # c
      <4>1. pc[d] = "waitDone"  BY <2>4, <3>2 DEF TypeOK
      <4>2. slot[d] # slot[c]   BY <2>1, <3>2, <4>1 DEF SlotsExact, SlotHolders
      <4> QED  BY <2>4, <4>1, <4>2 DEF WaiterServed
    <3> QED  BY <3>1, <3>2
  <2>7. BackendAgrees' /\ ResultUnset' /\ NoAccountingError'
    BY <2>4 DEF TypeOK, BackendAgrees, ResultUnset, NoAccountingError
  <2> QED  BY <2>5, <2>6, <2>7
<1>7. CASE TakeDone(c)
  <2>1. /\ pc[c] = "waitDone" /\ slot[c] \in doneSem
        /\ doneSem' = doneSem \ {slot[c]}
        /\ pc' = [pc EXCEPT ![c] = "release"]
        /\ UNCHANGED <<slot, result, active, submitted, owner, bpc, bi>>
    BY <1>7 DEF TakeDone
  <2>2. slot[c] \notin active /\ slot[c] \notin submitted
    BY <2>1 DEF WaiterServed, BackendAgrees
  <2>3. OwnerWaits'  BY <2>1, <2>2 DEF TypeOK, OwnerWaits
  <2>4. WaiterServed'
    BY <2>1 DEF TypeOK, WaiterServed, SlotsExact, SlotHolders
  <2>5. BackendAgrees' /\ ResultUnset' /\ NoAccountingError'
    BY <2>1 DEF TypeOK, BackendAgrees, ResultUnset, NoAccountingError
  <2> QED  BY <2>3, <2>4, <2>5
<1>8. CASE ReleaseSlot(c)
  BY <1>8 DEF ReleaseSlot, TypeOK, OwnerWaits, WaiterServed, BackendAgrees, ResultUnset, NoAccountingError
<1>9. CASE GivePermit(c)
  BY <1>9 DEF GivePermit, TypeOK, OwnerWaits, WaiterServed, BackendAgrees, ResultUnset, NoAccountingError
<1> QED  BY <1>1, <1>2, <1>3, <1>4, <1>5, <1>6, <1>7, <1>8, <1>9
         DEF CallerStep, CallerProceeds

\* Answering an active slot that is no longer in flight afterwards keeps the
\* handshake: its owner waits, and now finds its done_sem given.
LEMMA AnswerHandshake ==
  ASSUME IInv, NEW e \in Results \ {"none", "EBUSY"}, bi \in active,
         Answer(bi, e), active' = active \ {bi}, submitted' = submitted \ {bi},
         UNCHANGED <<pc, slot, owner>>
  PROVE  /\ OwnerWaits'
         /\ WaiterServed'
         /\ ResultUnset'
         /\ NoAccountingError'
<1> USE DEF IInv
<1>1. /\ owner[bi] \in Callers
      /\ pc[owner[bi]] = "waitDone"
      /\ slot[owner[bi]] = bi
  BY DEF OwnerWaits
<1>2. /\ result' = [result EXCEPT ![owner[bi]] = e]
      /\ doneSem' = doneSem \cup {bi}
  BY DEF Answer
<1>3. OwnerWaits'  BY <1>1, <1>2 DEF OwnerWaits
<1>4. WaiterServed'
  <2> SUFFICES ASSUME NEW d \in Callers, pc[d] = "waitDone"
               PROVE  /\ slot[d] \in active' <=> slot[d] \notin doneSem'
                      /\ slot[d] \in doneSem' <=> result'[d] # "none"
    BY DEF WaiterServed
  <2>1. CASE d = owner[bi]  BY <1>1, <1>2, <2>1 DEF TypeOK
  <2>2. CASE d # owner[bi]
    <3>1. slot[d] # bi  BY <1>1, <2>2 DEF SlotsExact, SlotHolders
    <3> QED  BY <1>2, <2>2, <3>1 DEF WaiterServed, TypeOK
  <2> QED  BY <2>1, <2>2
<1>5. ResultUnset'  BY <1>1, <1>2 DEF ResultUnset, TypeOK
<1>6. NoAccountingError'  BY <1>1, <1>2 DEF NoAccountingError, TypeOK
<1> QED  BY <1>3, <1>4, <1>5, <1>6

LEMMA BackendHandshake ==
  ASSUME IInv, BackendStep
  PROVE  /\ OwnerWaits'
         /\ WaiterServed'
         /\ BackendAgrees'
         /\ ResultUnset'
         /\ NoAccountingError'
<1> USE DEF IInv, callerVars, flagVars
<1>1. CASE Pump \/ ProcessEvents \/ SubmitSkip \/ CheckSkip \/ Check \/ Abort
  <2>1. UNCHANGED <<pc, slot, result, doneSem, active, submitted, owner>>
    BY <1>1 DEF Pump, ProcessEvents, SubmitSkip, CheckSkip, Check, Abort
  <2>2. bpc' \in {"abort", "finish"} => bi' \in submitted
    BY <1>1 DEF Pump, ProcessEvents, SubmitSkip, CheckSkip, Check, Abort, Advance, BackendAgrees
  <2> QED
    BY <2>1, <2>2 DEF OwnerWaits, WaiterServed, BackendAgrees, ResultUnset, NoAccountingError
<1>2. CASE Submit
  <2>1. /\ UNCHANGED <<pc, slot, result, doneSem, active, owner>>
        /\ submitted' = submitted \cup {bi} /\ bi \in active
        /\ bpc' \notin {"abort", "finish"}
    BY <1>2 DEF Submit, ResetFlags, Advance
  <2> QED
    BY <2>1 DEF OwnerWaits, WaiterServed, BackendAgrees, ResultUnset, NoAccountingError
<1>3. CASE SubmitFails
  <2>1. PICK e \in SubmitErrors(bi) : Answer(bi, e)  BY <1>3 DEF SubmitFails
  <2>2. e \in Results \ {"none", "EBUSY"}
    BY DEF SubmitErrors, Results, PoolAssumption
  <2>3. /\ bi \in active /\ active' = active \ {bi}
        /\ submitted' = submitted \ {bi}
        /\ UNCHANGED <<pc, slot, owner>>
        /\ bpc' \notin {"abort", "finish"}
    BY <1>3 DEF SubmitFails, Advance
  <2>4. OwnerWaits' /\ WaiterServed' /\ ResultUnset' /\ NoAccountingError'
    BY <2>1, <2>2, <2>3, AnswerHandshake
  <2>5. BackendAgrees'  BY <2>3 DEF BackendAgrees
  <2> QED  BY <2>4, <2>5
<1>4. CASE Finish
  <2>1. bi \in submitted /\ bi \in active  BY <1>4 DEF Finish, BackendAgrees
  <2>2. FinalStatus(bi) \in Results \ {"none", "EBUSY"}
    BY DEF FinalStatus, MapStatus, Results
  <2>3. /\ Answer(bi, FinalStatus(bi))
        /\ active' = active \ {bi}
        /\ submitted' = submitted \ {bi}
        /\ UNCHANGED <<pc, slot, owner>>
        /\ bpc' \notin {"abort", "finish"}
    BY <1>4 DEF Finish, Retire, Advance
  <2>4. OwnerWaits' /\ WaiterServed' /\ ResultUnset' /\ NoAccountingError'
    BY <2>1, <2>2, <2>3, AnswerHandshake
  <2>5. BackendAgrees'  BY <2>3 DEF BackendAgrees
  <2> QED  BY <2>4, <2>5
<1> QED  BY <1>1, <1>2, <1>3, <1>4 DEF BackendStep

(***************************************************************************)
(* The invariant.                                                          *)
(***************************************************************************)

LEMMA InitInvariant == Init => IInv
<1> SUFFICES ASSUME Init PROVE IInv  OBVIOUS
<1>1. TypeOK /\ PermitsExact  BY InitType, InitPermits
<1>2. SlotsExact  BY DEF Init, SlotsExact, SlotHolders
<1>3. OwnerWaits /\ WaiterServed /\ BackendAgrees /\ ResultUnset /\ NoAccountingError
  BY DEF Init, OwnerWaits, WaiterServed, BackendAgrees, ResultUnset, NoAccountingError
<1> QED  BY <1>1, <1>2, <1>3 DEF IInv

\* A step that leaves callers and pool alone keeps the accounting.
LEMMA PoolUntouched ==
  ASSUME PermitsExact, SlotsExact, UNCHANGED <<pc, slot, availSem, assigned>>
  PROVE  PermitsExact' /\ SlotsExact'
<1>1. PermitHolders' = PermitHolders /\ SlotHolders' = SlotHolders
  BY DEF PermitHolders, SlotHolders
<1> QED  BY <1>1 DEF PermitsExact, SlotsExact

LEMMA NextInvariant == IInv /\ [Next]_vars => IInv'
<1> SUFFICES ASSUME IInv, [Next]_vars PROVE IInv'  OBVIOUS
<1>1. ASSUME NEW c \in Callers, CallerStep(c)  PROVE IInv'
  <2>1. TypeOK'  BY <1>1, CallerType DEF IInv
  <2>2. PermitsExact' /\ SlotsExact'  BY <1>1, CallerPermits, CallerSlots DEF IInv
  <2> QED  BY <1>1, <2>1, <2>2, CallerHandshake DEF IInv
<1>2. CASE BackendStep
  <2>1. TypeOK'  BY <1>2, BackendType DEF IInv
  <2>2. UNCHANGED <<pc, slot, availSem, assigned>>
    BY <1>2 DEF BackendStep, Pump, ProcessEvents, SubmitSkip, Submit, SubmitFails,
                CheckSkip, Check, Abort, Finish, callerVars
  <2>3. PermitsExact' /\ SlotsExact'  BY <2>2, PoolUntouched DEF IInv
  <2> QED  BY <1>2, <2>1, <2>3, BackendHandshake DEF IInv
<1>3. ASSUME NEW t \in Transfers, HwComplete(t)  PROVE IInv'
  <2>1. TypeOK'  BY <1>3 DEF HwComplete, IInv, TypeOK, callerVars, flagVars, PoolAssumption
  <2>2. UNCHANGED <<pc, slot, result, availSem, assigned, doneSem, active, submitted,
                    owner, bpc, bi>>
    BY <1>3 DEF HwComplete, callerVars, flagVars
  <2>3. PermitsExact' /\ SlotsExact'  BY <2>2, PoolUntouched DEF IInv
  <2>4. OwnerWaits' /\ WaiterServed' /\ BackendAgrees' /\ ResultUnset' /\ NoAccountingError'
    BY <2>2 DEF IInv, OwnerWaits, WaiterServed, BackendAgrees, ResultUnset, NoAccountingError
  <2> QED  BY <2>1, <2>3, <2>4 DEF IInv
<1>4. ASSUME NEW p \in PipeIds, Expire(p)  PROVE IInv'
  <2>1. TypeOK'  BY <1>4 DEF Expire, IInv, TypeOK, callerVars, xferVars
  <2>2. UNCHANGED <<pc, slot, result, availSem, assigned, doneSem, active, submitted,
                    owner, bpc, bi>>
    BY <1>4 DEF Expire, callerVars
  <2>3. PermitsExact' /\ SlotsExact'  BY <2>2, PoolUntouched DEF IInv
  <2>4. OwnerWaits' /\ WaiterServed' /\ BackendAgrees' /\ ResultUnset' /\ NoAccountingError'
    BY <2>2 DEF IInv, OwnerWaits, WaiterServed, BackendAgrees, ResultUnset, NoAccountingError
  <2> QED  BY <2>1, <2>3, <2>4 DEF IInv
<1>5. CASE UNCHANGED vars
  <2>1. TypeOK'  BY <1>5 DEF IInv, TypeOK, vars
  <2>2. UNCHANGED <<pc, slot, result, availSem, assigned, doneSem, active, submitted,
                    owner, bpc, bi>>
    BY <1>5 DEF vars
  <2>3. PermitsExact' /\ SlotsExact'  BY <2>2, PoolUntouched DEF IInv
  <2>4. OwnerWaits' /\ WaiterServed' /\ BackendAgrees' /\ ResultUnset' /\ NoAccountingError'
    BY <2>2 DEF IInv, OwnerWaits, WaiterServed, BackendAgrees, ResultUnset, NoAccountingError
  <2> QED  BY <2>1, <2>3, <2>4 DEF IInv
<1> QED  BY <1>1, <1>2, <1>3, <1>4, <1>5 DEF Next

\* IInv holds in every state of the pool.
THEOREM Invariance == Spec => []IInv
  BY InitInvariant, NextInvariant, PTL DEF Spec

\* Type correctness, for every value of the constants.
THEOREM TypeCorrect == Spec => []TypeOK
<1>1. IInv => TypeOK  BY DEF IInv
<1> QED  BY <1>1, Invariance, PTL

\* pipe_avail_sem counts exactly and no slot is held twice, so the caller
\* that passed the semaphore never meets the "semaphore accounting error" of
\* submit_pipe_request.
THEOREM AccountingCorrect == Spec => []AccountingExact
<1>1. IInv => AccountingExact  BY DEF IInv, AccountingExact
<1> QED  BY <1>1, Invariance, PTL

\* The backend uses status_out, in_data and cancel only while the caller
\* whose frame they point into is blocked in the call that set them.
THEOREM FrameSafety == Spec => []OwnerWaits
<1>1. IInv => OwnerWaits  BY DEF IInv
<1> QED  BY <1>1, Invariance, PTL

\* A waiting caller has a request in hand or an answer, never both or none.
THEOREM NoLostWakeup == Spec => []WaiterServed
<1>1. IInv => WaiterServed  BY DEF IInv
<1> QED  BY <1>1, Invariance, PTL

=============================================================================
