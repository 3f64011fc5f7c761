----------------------------- MODULE UrbStream -----------------------------
(***************************************************************************)
(* One imported device's connection in usbip_server.c: the reader          *)
(* (handle_urb_stream, in the client's task), a worker task per URB        *)
(* (urb_worker_task), the array in_flight[] through which the reader finds *)
(* the cancel flag of a worker's item, and the teardown that frees the     *)
(* stream context.                                                         *)
(*                                                                         *)
(* The array is shared without a lock, so every store to it is a step.     *)
(* A worker is named by the sequence number of its URB.  The blocking      *)
(* backend call is one step that may come at any time: PipePool models it. *)
(* A worker left behind goes on with its steps after the context is freed; *)
(* what it reads and writes there nobody uses again in this model.         *)
(***************************************************************************)
EXTENDS Integers, FiniteSets

CONSTANTS
    NumUrbs,        \* bound: URBs the client submits, numbered in order
    MaxInflight,    \* URB_STREAM_MAX_INFLIGHT
    Verdicts,       \* how validation may end for this client's CMD_SUBMITs
    Virtual         \* is the imported device virtual?

Seqs  == 1 .. NumUrbs
NoSeq == 0                      \* NULL pointer, free mutex
Slots == 0 .. MaxInflight - 1

ASSUME StreamAssumption ==
    /\ NumUrbs \in Nat \ {0}
    /\ MaxInflight \in Nat \ {0}
    /\ Virtual \in BOOLEAN

VARIABLES
    rpc,        \* where the reader is
    rcmd,       \* submit or unlink: the command it answers
    rseq,       \* the URB that command is about
    rslot,      \* the slot it works on
    rptr,       \* the cancel_ptr it has loaded
    junk,       \* is the next byte to read in the middle of a payload?
    next,       \* the client's next sequence number
    cancelPtr,  \* in_flight[i].cancel_ptr, as the URB whose item it points into
    slotSeq,    \* in_flight[i].seqnum
    count,      \* inflight_count
    mutex,      \* holder of write_mutex
    wpc,        \* where each URB's worker is
    wslot,      \* item->slot
    cancel,     \* URBs whose item->cancel is set, while their transfer reads it
    replies     \* number of RET_SUBMITs sent for each URB

readerVars == <<rpc, rcmd, rseq, rslot, rptr, junk, next>>
slotVars   == <<cancelPtr, slotSeq, count>>
workerVars == <<mutex, wpc, wslot, cancel, replies>>
vars == <<rpc, rcmd, rseq, rslot, rptr, junk, next, cancelPtr, slotSeq, count,
          mutex, wpc, wslot, cancel, replies>>

Init ==
    /\ rpc = "read" /\ rcmd = "submit" /\ rseq = NoSeq /\ rslot = 0 /\ rptr = NoSeq
    /\ junk = FALSE /\ next = 1
    /\ cancelPtr = [i \in Slots |-> NoSeq]
    /\ slotSeq = [i \in Slots |-> 0]
    /\ count = 0
    /\ mutex = NoSeq
    /\ wpc = [s \in Seqs |-> "none"]
    /\ wslot = [s \in Seqs |-> 0]
    /\ cancel = {}
    /\ replies = [s \in Seqs |-> 0]

-----------------------------------------------------------------------------
(* The reader: CMD_SUBMIT.                                                 *)

\* The next turn of the loop, whose variables start afresh.
NextCommand == rpc' = "read" /\ rcmd' = "submit" /\ rseq' = NoSeq /\ rslot' = 0

\* Verdicts after which the payload of an OUT request is not read.
Unread == {"iso", "ep0dir"}

LeavesPayload(v) == v \in Unread

\* The fields of a CMD_SUBMIT are valid, its data is read and an item made.
Accept(s) ==
    /\ rpc = "read" /\ ~ junk /\ s = next
    /\ "ok" \in Verdicts
    /\ wpc' = [wpc EXCEPT ![s] = "queued"]
    /\ next' = next + 1 /\ rseq' = s /\ rcmd' = "submit"
    /\ rpc' = "alloc"
    /\ UNCHANGED <<rslot, rptr, junk, slotVars, mutex, wslot, cancel, replies>>

\* A CMD_SUBMIT the reader answers itself.
Refuse(s, v) ==
    /\ rpc = "read" /\ ~ junk /\ s = next
    /\ v \in Verdicts \ {"ok"}
    /\ \E payload \in BOOLEAN : junk' = (payload /\ LeavesPayload(v))
    /\ wpc' = [wpc EXCEPT ![s] = "refused"]
    /\ next' = next + 1 /\ rseq' = s /\ rcmd' = "submit"
    /\ rpc' = "sending"
    /\ UNCHANGED <<rslot, rptr, slotVars, mutex, wslot, cancel, replies>>

\* Mutant: the search runs to the last slot and takes it when none is free.
FreeSlotsOrLast == {i \in Slots : cancelPtr[i] = NoSeq \/ i + 1 \notin Slots}
FreeSlots == {i \in Slots : cancelPtr[i] = NoSeq}

\* urb_stream_alloc_slot: the first free slot gets the pointer ...; while
\* there is none the reader polls every 50 ms.
AllocPtr ==
    /\ rpc = "alloc"
    /\ \E i \in FreeSlots :
         /\ \A j \in FreeSlots : i <= j
         /\ rslot' = i
         /\ cancelPtr' = [cancelPtr EXCEPT ![i] = rseq]
    /\ rpc' = "allocSeq"
    /\ UNCHANGED <<rcmd, rseq, rptr, junk, next, slotSeq, count, workerVars>>

\* ... then the sequence number, and the worker is counted.
AllocSeq ==
    /\ rpc = "allocSeq"
    /\ slotSeq' = [slotSeq EXCEPT ![rslot] = rseq]
    /\ count' = count + 1
    /\ wslot' = [wslot EXCEPT ![rseq] = rslot]
    /\ rpc' = "spawn"
    /\ UNCHANGED <<rcmd, rseq, rslot, rptr, junk, next, cancelPtr, mutex, wpc,
                   cancel, replies>>

\* xTaskCreate succeeds; for a virtual device the reader runs the worker's
\* code itself.
Spawn ==
    /\ rpc = "spawn"
    /\ wpc' = [wpc EXCEPT ![rseq] = "transfer"]
    /\ IF Virtual THEN rpc' = "inline" /\ UNCHANGED <<rcmd, rseq, rslot>> ELSE NextCommand
    /\ UNCHANGED <<rptr, junk, next, slotVars, mutex, wslot, cancel, replies>>

\* Mutant: the worker runs although the reader answers.
SpawnFailsAnyway ==
    /\ rpc = "spawn" /\ ~ Virtual
    /\ wpc' = [wpc EXCEPT ![rseq] = "transfer"]
    /\ rpc' = "sending"
    /\ UNCHANGED <<rcmd, rseq, rslot, rptr, junk, next, slotVars, mutex, wslot, cancel, replies>>

\* xTaskCreate fails: slot and item are freed, the reader answers ENOMEM.
SpawnFails ==
    /\ rpc = "spawn" /\ ~ Virtual
    /\ cancelPtr' = [cancelPtr EXCEPT ![rslot] = NoSeq]
    /\ slotSeq' = [slotSeq EXCEPT ![rslot] = 0]
    /\ count' = count - 1
    /\ wpc' = [wpc EXCEPT ![rseq] = "refused"]
    /\ rpc' = "sending"
    /\ rslot' = 0
    /\ UNCHANGED <<rcmd, rseq, rptr, junk, next, mutex, wslot, cancel, replies>>

\* The reader's write ends; it does not take write_mutex.
SendDone ==
    /\ rpc = "sending"
    /\ NextCommand
    /\ replies' = IF rcmd = "submit" THEN [replies EXCEPT ![rseq] = @ + 1] ELSE replies
    /\ UNCHANGED <<rptr, junk, next, slotVars, mutex, wpc, wslot, cancel>>

\* The reader starts to tear the stream down.
BeginCleanup ==
    /\ rpc' = "cancelAll" /\ rcmd' = "submit" /\ rseq' = NoSeq /\ rslot' = 0
    /\ UNCHANGED <<rptr, junk, next, slotVars, workerVars>>

SendFails == rpc = "sending" /\ BeginCleanup

-----------------------------------------------------------------------------
(* The reader: CMD_UNLINK.                                                 *)

\* urb_stream_find_by_seqnum; no match: only the reply is left to send.
Unlink(u) ==
    LET matches == {i \in Slots : cancelPtr[i] # NoSeq /\ slotSeq[i] = u}
    IN  /\ rpc = "read" /\ ~ junk
        /\ u < next
        /\ rcmd' = "unlink" /\ rseq' = u
        /\ IF matches = {} THEN rpc' = "sending" /\ UNCHANGED rslot
           ELSE rpc' = "load" /\ rslot' \in {i \in matches : \A j \in matches : i <= j}
        /\ UNCHANGED <<rptr, junk, next, slotVars, workerVars>>

\* Mutant: the pointer is not tested.
UnlinkLoadUntested ==
    /\ rpc = "load"
    /\ rptr' = cancelPtr[rslot]
    /\ rpc' = "store"
    /\ rslot' = 0
    /\ UNCHANGED <<rcmd, rseq, junk, next, slotVars, workerVars>>

\* The pointer is tested and loaded ...
UnlinkLoad ==
    /\ rpc = "load"
    /\ rptr' = cancelPtr[rslot]
    /\ rpc' = IF cancelPtr[rslot] = NoSeq THEN "sending" ELSE "store"
    /\ rslot' = 0
    /\ UNCHANGED <<rcmd, rseq, junk, next, slotVars, workerVars>>

\* Items whose cancel nobody reads.
Deaf == {s \in Seqs : wpc[s] # "transfer"}

\* ... and the flag it points at is set.
UnlinkStore ==
    /\ rpc = "store"
    /\ cancel' = cancel \cup ({rptr} \ Deaf)
    /\ rptr' = NoSeq
    /\ rpc' = "sending"
    /\ UNCHANGED <<rcmd, rseq, rslot, junk, next, slotVars, mutex, wpc, wslot, replies>>

-----------------------------------------------------------------------------
(* The reader: teardown.                                                   *)

\* Read error, disconnection, unknown command or direction; payload bytes
\* taken for a header end here too.
EndOfStream == rpc = "read" /\ BeginCleanup

\* Mutant: the scan stops one slot short.
NextCancelShort ==
    IF rslot + 2 < MaxInflight THEN rpc' = "cancelAll" /\ rslot' = rslot + 1
                               ELSE rpc' = "drain" /\ rslot' = 0
NextCancel ==
    IF rslot + 1 < MaxInflight THEN rpc' = "cancelAll" /\ rslot' = rslot + 1
                               ELSE rpc' = "drain" /\ rslot' = 0

CancelSkip ==
    /\ rpc = "cancelAll"
    /\ cancelPtr[rslot] = NoSeq
    /\ NextCancel
    /\ UNCHANGED <<rcmd, rseq, rptr, junk, next, slotVars, workerVars>>

CancelLoad ==
    /\ rpc = "cancelAll"
    /\ cancelPtr[rslot] # NoSeq
    /\ rptr' = cancelPtr[rslot]
    /\ rpc' = "cancelStore"
    /\ UNCHANGED <<rcmd, rseq, rslot, junk, next, slotVars, workerVars>>

CancelStore ==
    /\ rpc = "cancelStore"
    /\ cancel' = cancel \cup ({rptr} \ Deaf)
    /\ rptr' = NoSeq
    /\ NextCancel
    /\ UNCHANGED <<rcmd, rseq, junk, next, slotVars, mutex, wpc, wslot, replies>>

\* The wait for the workers ends, at count 0 or after 5 s, whoever is left;
\* the context is freed, the task closes the connection.
FreeContext ==
    /\ rpc = "drain"
    /\ rpc' = "closed"
    /\ UNCHANGED <<rcmd, rseq, rslot, rptr, junk, next, slotVars, workerVars>>

-----------------------------------------------------------------------------
(* Workers: urb_worker_task.                                               *)

Goto(s, place) == wpc' = [wpc EXCEPT ![s] = place]

\* The backend's or the virtual device's transfer returns.
EndTransfer(s) ==
    /\ wpc[s] = "transfer"
    /\ Goto(s, "wantMutex")
    /\ cancel' = cancel \ {s}
    /\ UNCHANGED <<readerVars, slotVars, mutex, wslot, replies>>

\* A freed mutex may read as free.
TakeMutex(s) ==
    /\ wpc[s] = "wantMutex"
    /\ mutex = NoSeq \/ rpc = "closed"
    /\ mutex' = s
    /\ Goto(s, "sending")
    /\ UNCHANGED <<readerVars, slotVars, wslot, cancel, replies>>

\* The write ends and the mutex is given.  Without memory for the reply, or on
\* a broken connection, nothing goes out, and nobody looks at the result.
SendReply(s) ==
    /\ wpc[s] = "sending"
    /\ \E sent \in {0, 1} : replies' = [replies EXCEPT ![s] = @ + sent]
    /\ mutex' = NoSeq
    /\ Goto(s, "freePtr")
    /\ UNCHANGED <<readerVars, slotVars, wslot, cancel>>

\* Mutant: the pointer is not cleared.
FreePtrNot(s) ==
    /\ wpc[s] = "freePtr"
    /\ Goto(s, "freeSeq")
    /\ UNCHANGED <<readerVars, slotVars, mutex, wslot, cancel, replies>>

\* urb_stream_free_slot: pointer, sequence number, count.
FreePtr(s) ==
    /\ wpc[s] = "freePtr"
    /\ cancelPtr' = [cancelPtr EXCEPT ![wslot[s]] = NoSeq]
    /\ Goto(s, "freeSeq")
    /\ UNCHANGED <<readerVars, slotSeq, count, mutex, wslot, cancel, replies>>

FreeSeq(s) ==
    /\ wpc[s] = "freeSeq"
    /\ slotSeq' = [slotSeq EXCEPT ![wslot[s]] = 0]
    /\ Goto(s, "freeCount")
    /\ UNCHANGED <<readerVars, cancelPtr, count, mutex, wslot, cancel, replies>>

FreeCount(s) ==
    /\ wpc[s] = "freeCount"
    /\ count' = count - 1
    /\ Goto(s, "freeItem")
    /\ UNCHANGED <<readerVars, cancelPtr, slotSeq, mutex, wslot, cancel, replies>>

\* The item is freed, and the task deletes itself: run inline, that is the
\* reader's own task.
FreeItem(s) ==
    /\ wpc[s] = "freeItem"
    /\ Goto(s, "gone")
    /\ wslot' = [wslot EXCEPT ![s] = 0]
    /\ rpc' = IF rpc = "inline" THEN "deleted" ELSE rpc
    /\ UNCHANGED <<rcmd, rseq, rslot, rptr, junk, next, slotVars, mutex, cancel, replies>>

-----------------------------------------------------------------------------

ReaderProceeds ==
    \/ AllocPtr \/ AllocSeq \/ Spawn \/ SpawnFails
    \/ SendDone \/ SendFails
    \/ UnlinkLoad \/ UnlinkStore
    \/ CancelSkip \/ CancelLoad \/ CancelStore \/ FreeContext

ClientSends ==
    \/ \E s \in Seqs : Accept(s) \/ Unlink(s)
    \/ \E s \in Seqs, v \in Verdicts : Refuse(s, v)
    \/ EndOfStream

WorkerStep(s) ==
    \/ EndTransfer(s) \/ TakeMutex(s) \/ SendReply(s)
    \/ FreePtr(s) \/ FreeSeq(s) \/ FreeCount(s) \/ FreeItem(s)

\* The connection is over and its tasks are gone.
Terminated ==
    /\ rpc \in {"closed", "deleted"}
    /\ \A s \in Seqs : wpc[s] \in {"none", "refused", "gone"}
    /\ UNCHANGED vars

Next ==
    \/ ReaderProceeds \/ ClientSends
    \/ \E s \in Seqs : WorkerStep(s)
    \/ Terminated

Spec == Init /\ [][Next]_vars

(* Fairness.  Tasks that can run do; every backend call returns (PipePool, *)
(* EveryCallReturns); the mutex goes to the task that waited longest.  The *)
(* client need not send anything.                                          *)
Fairness ==
    /\ WF_vars(ReaderProceeds)
    /\ \A s \in Seqs : WF_vars(WorkerStep(s)) /\ SF_vars(TakeMutex(s))

FairSpec == Spec /\ Fairness

-----------------------------------------------------------------------------

ReaderStates == {"read", "alloc", "allocSeq", "spawn", "inline", "sending", "load",
                 "store", "cancelAll", "cancelStore", "drain", "closed", "deleted"}

\* A worker that has yet to touch the stream context.
UsesContext == {"transfer", "wantMutex", "sending", "freePtr", "freeSeq", "freeCount"}
WorkerStates == UsesContext \cup {"none", "queued", "refused", "freeItem", "gone"}

\* Type invariant.
TypeOK ==
    /\ rpc \in ReaderStates
    /\ rcmd \in {"submit", "unlink"}
    /\ rseq \in Seqs \cup {NoSeq}
    /\ rslot \in Slots
    /\ rptr \in Seqs \cup {NoSeq}
    /\ junk \in BOOLEAN
    /\ next \in Nat
    /\ cancelPtr \in [Slots -> Seqs \cup {NoSeq}]
    /\ slotSeq \in [Slots -> Seqs \cup {0}]
    /\ count \in Nat
    /\ mutex \in Seqs \cup {NoSeq}
    /\ wpc \in [Seqs -> WorkerStates]
    /\ wslot \in [Seqs -> Slots]
    /\ cancel \subseteq Seqs
    /\ replies \in [Seqs -> Nat]

\* Workers whose slot still points at their item.
Linked == {s \in Seqs : wpc[s] \in {"transfer", "wantMutex", "sending", "freePtr"}}

\* Although in_flight[] has no lock, every running worker's item stays
\* reachable through its own slot until that worker frees it: the reader
\* never gives the slot to another URB before.
SlotsAgree == \A s \in Linked : cancelPtr[wslot[s]] = s

\* inflight_count counts the workers that still need the context.
CountExact ==
    count = Cardinality({s \in Seqs : wpc[s] \in UsesContext})
            + (IF rpc = "spawn" THEN 1 ELSE 0)

\* Three unlocked stores to take a slot and three to give it back leave the
\* array, the count and the workers in agreement, as long as there is an array.
InFlightAgrees == rpc # "closed" => SlotsAgree /\ CountExact

\* The teardown reaches every transfer in progress: when the reader waits
\* for the workers, each one still in its transfer has been cancelled.
TeardownCancelsAll ==
    rpc \in {"drain", "closed"} => \A s \in Seqs : wpc[s] = "transfer" => s \in cancel

\* "Cancel the matching in-flight URB": when RET_UNLINK goes out, the URB it
\* is about is cancelled unless its transfer has ended.
UnlinkCancels ==
    rpc = "sending" /\ rcmd = "unlink" /\ wpc[rseq] = "transfer" => rseq \in cancel

\* The reader comes back for the next command, or closes the connection.
ReaderReturns == rpc # "read" ~> rpc \in {"read", "closed"}

\* Workers past their write, with or without an answer sent.
Finished == {"freePtr", "freeSeq", "freeCount", "freeItem", "gone"}

\* What the client has of a URB that got n answers and whose worker is at w.
See(n, w) ==
    IF n > 1 THEN "answered again" ELSE IF n = 1 THEN "answered"
    ELSE IF w \in Finished THEN "lost" ELSE IF w = "none" THEN "unsent" ELSE "pending"

\* The contract seen by the client, which knows of no second answer.
Contract == INSTANCE UrbContract WITH
    urb <- [s \in Seqs |-> See(replies[s], wpc[s])],
    open <- rpc \notin {"cancelAll", "cancelStore", "drain", "closed", "deleted"}

\* The stream implements the contract.
ContractSpec == Contract!Spec

=============================================================================
