-------------------------- MODULE UrbStreamProofs --------------------------
(***************************************************************************)
(* Invariants of UrbStream, for any number of URBs and slots: types, the   *)
(* shared array, the life of the context, the teardown; and that every     *)
(* step is one that UrbContract allows.                                    *)
(***************************************************************************)
EXTENDS UrbStream, FiniteSetTheorems, TLAPS

\* The reader's command, and what it has done for it.
ReaderInv ==
    /\ rpc \in {"alloc", "allocSeq", "spawn"} =>
           rcmd = "submit" /\ rseq \in Seqs /\ wpc[rseq] = "queued"
    /\ rpc \in {"allocSeq", "spawn"} => cancelPtr[rslot] = rseq
    /\ rpc = "spawn" => wslot[rseq] = rslot
    /\ rpc \in {"load", "store"} => rcmd = "unlink"
    /\ rpc \in {"store", "cancelStore"} => rptr \in Seqs
    /\ rpc \in {"sending", "load", "store"} => rseq \in Seqs

\* URBs that the client has not sent yet are nowhere.
Unsent == \A s \in Seqs : s >= next => wpc[s] = "none"

\* While the teardown goes through the slots, the workers in those behind it are
\* cancelled, and the pointer it has loaded is that of the worker in its slot.
TeardownInv ==
    /\ rpc \in {"cancelAll", "cancelStore"} =>
           \A s \in Seqs : wpc[s] = "transfer" /\ wslot[s] < rslot => s \in cancel
    /\ rpc = "cancelStore" =>
           \A s \in Seqs : wpc[s] = "transfer" /\ wslot[s] = rslot => s = rptr
    /\ TeardownCancelsAll

\* A URB has its answer when its worker has sent it, or the reader; the worker's
\* may be lost.
ReplyInv ==
    /\ \A s \in Seqs :
           /\ wpc[s] \in Finished \cup {"refused"} => replies[s] \in {0, 1}
           /\ wpc[s] \notin Finished \cup {"refused"} => replies[s] = 0
    /\ rpc = "sending" /\ rcmd = "submit" => wpc[rseq] = "refused" /\ replies[rseq] = 0

\* The inductive invariant.
IInv ==
    /\ TypeOK /\ ReaderInv /\ Unsent /\ SlotsAgree /\ CountExact /\ TeardownInv
    /\ ReplyInv

Users == {s \in Seqs : wpc[s] \in UsesContext}

-----------------------------------------------------------------------------
(* Counting.                                                               *)

\* Sets of workers can be counted.
LEMMA Counted ==
    ASSUME NEW S \in SUBSET Seqs
    PROVE  /\ IsFiniteSet(S) /\ Cardinality(S) \in Nat
           /\ \A s \in Seqs \ S : Cardinality(S \cup {s}) = Cardinality(S) + 1
           /\ \A s \in S : Cardinality(S \ {s}) = Cardinality(S) - 1
<1>1. IsFiniteSet(Seqs)
  BY StreamAssumption, FS_Interval DEF StreamAssumption, Seqs
<1>2. IsFiniteSet(S)  BY <1>1, FS_Subset
<1>3. Cardinality(S) \in Nat  BY <1>2, FS_CardinalityType
<1>4. \A s \in Seqs \ S : Cardinality(S \cup {s}) = Cardinality(S) + 1
  BY <1>2, FS_AddElement
<1>5. \A s \in S : Cardinality(S \ {s}) = Cardinality(S) - 1
  BY <1>2, FS_RemoveElement
<1> QED  BY <1>2, <1>3, <1>4, <1>5

\* What inflight_count is, before and after a step.
LEMMA CountOf ==
    /\ CountExact <=> count = Cardinality(Users) + (IF rpc = "spawn" THEN 1 ELSE 0)
    /\ CountExact' <=> count' = Cardinality(Users') + (IF rpc' = "spawn" THEN 1 ELSE 0)
BY DEF CountExact, Users

\* Most steps change neither the count nor what it counts.
LEMMA CountSame ==
    ASSUME CountExact, Users' = Users, count' = count, rpc' = "spawn" <=> rpc = "spawn"
    PROVE  CountExact'
BY DEF CountExact, Users

-----------------------------------------------------------------------------
(* The steps, one invariant after another.                                 *)

\* inflight_count is the number of the workers that need the context, and one more
\* between the allocation of a slot and the start of its worker.
LEMMA CountStep ==
    ASSUME TypeOK, ReaderInv, Unsent, CountExact, Next
    PROVE  CountExact'
<1> USE DEF readerVars, slotVars, workerVars, TypeOK, ReaderInv, Unsent, UsesContext
<1>0. Users \in SUBSET Seqs /\ Cardinality(Users) \in Nat  BY Counted DEF Users
<1>1. CASE AllocPtr
  <2>1. Users' = Users /\ count' = count /\ (rpc' = "spawn" <=> rpc = "spawn")
    BY <1>1 DEF AllocPtr, FreeSlots, Users
  <2> QED  BY <2>1, CountSame
<1>2. CASE AllocSeq
  <2>1. Users' = Users /\ count' = count + 1 /\ rpc = "allocSeq" /\ rpc' = "spawn"
    BY <1>2 DEF AllocSeq, Users
  <2> QED  BY <1>0, <2>1, CountOf
<1>3. CASE Spawn
  <2>1. /\ rseq \in Seqs \ Users /\ Users' = Users \cup {rseq}
        /\ count' = count /\ rpc = "spawn" /\ rpc' # "spawn"
    BY <1>3 DEF Spawn, NextCommand, Users
  <2>2. Cardinality(Users') = Cardinality(Users) + 1  BY <1>0, <2>1, Counted
  <2> QED  BY <1>0, <2>1, <2>2, CountOf
<1>4. CASE SpawnFails
  <2>1. Users' = Users /\ count' = count - 1 /\ rpc = "spawn" /\ rpc' # "spawn"
    BY <1>4 DEF SpawnFails, Users
  <2> QED  BY <1>0, <2>1, CountOf
<1>5. CASE SendDone
  <2>1. Users' = Users /\ count' = count /\ (rpc' = "spawn" <=> rpc = "spawn")
    BY <1>5 DEF SendDone, NextCommand, Users
  <2> QED  BY <2>1, CountSame
<1>6. CASE SendFails
  <2>1. Users' = Users /\ count' = count /\ (rpc' = "spawn" <=> rpc = "spawn")
    BY <1>6 DEF SendFails, BeginCleanup, Users
  <2> QED  BY <2>1, CountSame
<1>7. CASE UnlinkLoad
  <2>1. Users' = Users /\ count' = count /\ (rpc' = "spawn" <=> rpc = "spawn")
    BY <1>7 DEF UnlinkLoad, Users
  <2> QED  BY <2>1, CountSame
<1>8. CASE UnlinkStore
  <2>1. Users' = Users /\ count' = count /\ (rpc' = "spawn" <=> rpc = "spawn")
    BY <1>8 DEF UnlinkStore, Users
  <2> QED  BY <2>1, CountSame
<1>9. CASE CancelSkip
  <2>1. Users' = Users /\ count' = count /\ (rpc' = "spawn" <=> rpc = "spawn")
    BY <1>9 DEF CancelSkip, NextCancel, Users
  <2> QED  BY <2>1, CountSame
<1>10. CASE CancelLoad
  <2>1. Users' = Users /\ count' = count /\ (rpc' = "spawn" <=> rpc = "spawn")
    BY <1>10 DEF CancelLoad, Users
  <2> QED  BY <2>1, CountSame
<1>11. CASE CancelStore
  <2>1. Users' = Users /\ count' = count /\ (rpc' = "spawn" <=> rpc = "spawn")
    BY <1>11 DEF CancelStore, NextCancel, Users
  <2> QED  BY <2>1, CountSame
<1>12. CASE FreeContext
  <2>1. Users' = Users /\ count' = count /\ (rpc' = "spawn" <=> rpc = "spawn")
    BY <1>12 DEF FreeContext, Users
  <2> QED  BY <2>1, CountSame
<1>13. CASE EndOfStream
  <2>1. Users' = Users /\ count' = count /\ (rpc' = "spawn" <=> rpc = "spawn")
    BY <1>13 DEF EndOfStream, BeginCleanup, Users
  <2> QED  BY <2>1, CountSame
<1>14. ASSUME NEW s \in Seqs, Accept(s) PROVE CountExact'
  <2>1. Users' = Users /\ count' = count /\ (rpc' = "spawn" <=> rpc = "spawn")
    BY <1>14 DEF Accept, Users
  <2> QED  BY <2>1, CountSame
<1>15. ASSUME NEW s \in Seqs, Unlink(s) PROVE CountExact'
  <2>1. Users' = Users /\ count' = count /\ (rpc' = "spawn" <=> rpc = "spawn")
    BY <1>15 DEF Unlink, Users
  <2> QED  BY <2>1, CountSame
<1>16. ASSUME NEW s \in Seqs, NEW v \in Verdicts, Refuse(s, v) PROVE CountExact'
  <2>1. Users' = Users /\ count' = count /\ (rpc' = "spawn" <=> rpc = "spawn")
    BY <1>16 DEF Refuse, LeavesPayload, Users
  <2> QED  BY <2>1, CountSame
<1>17. ASSUME NEW s \in Seqs, EndTransfer(s) PROVE CountExact'
  <2>1. Users' = Users /\ count' = count /\ (rpc' = "spawn" <=> rpc = "spawn")
    BY <1>17 DEF EndTransfer, Goto, Users
  <2> QED  BY <2>1, CountSame
<1>18. ASSUME NEW s \in Seqs, TakeMutex(s) PROVE CountExact'
  <2>1. Users' = Users /\ count' = count /\ (rpc' = "spawn" <=> rpc = "spawn")
    BY <1>18 DEF TakeMutex, Goto, Users
  <2> QED  BY <2>1, CountSame
<1>19. ASSUME NEW s \in Seqs, SendReply(s) PROVE CountExact'
  <2>1. Users' = Users /\ count' = count /\ (rpc' = "spawn" <=> rpc = "spawn")
    BY <1>19 DEF SendReply, Goto, Users
  <2> QED  BY <2>1, CountSame
<1>20. ASSUME NEW s \in Seqs, FreePtr(s) PROVE CountExact'
  <2>1. Users' = Users /\ count' = count /\ (rpc' = "spawn" <=> rpc = "spawn")
    BY <1>20 DEF FreePtr, Goto, Users
  <2> QED  BY <2>1, CountSame
<1>21. ASSUME NEW s \in Seqs, FreeSeq(s) PROVE CountExact'
  <2>1. Users' = Users /\ count' = count /\ (rpc' = "spawn" <=> rpc = "spawn")
    BY <1>21 DEF FreeSeq, Goto, Users
  <2> QED  BY <2>1, CountSame
<1>22. ASSUME NEW s \in Seqs, FreeCount(s) PROVE CountExact'
  <2>1. s \in Users /\ Users' = Users \ {s} /\ count' = count - 1 /\ rpc' = rpc
    BY <1>22 DEF FreeCount, Goto, Users
  <2>2. Cardinality(Users') = Cardinality(Users) - 1  BY <1>0, <2>1, Counted
  <2> QED  BY <1>0, <2>1, <2>2, CountOf
<1>23. ASSUME NEW s \in Seqs, FreeItem(s) PROVE CountExact'
  <2>1. Users' = Users /\ count' = count /\ (rpc' = "spawn" <=> rpc = "spawn")
    BY <1>23 DEF FreeItem, Goto, Users
  <2> QED  BY <2>1, CountSame
<1>24. CASE Terminated  BY <1>24 DEF Terminated, vars, CountExact
<1> QED
  BY <1>1, <1>2, <1>3, <1>4, <1>5, <1>6, <1>7, <1>8, <1>9, <1>10, <1>11, <1>12, <1>13,
     <1>14, <1>15, <1>16, <1>17, <1>18, <1>19, <1>20, <1>21, <1>22, <1>23, <1>24
  DEF Next, ReaderProceeds, ClientSends, WorkerStep

\* Types.
LEMMA TypeStep ==
    ASSUME TypeOK, ReaderInv, count' \in Nat, Next
    PROVE  TypeOK'
<1> USE DEF NoSeq
<1> USE DEF readerVars, slotVars, workerVars, TypeOK, ReaderInv, ReaderStates,
            WorkerStates, UsesContext
<1>0. 0 \in Slots /\ \A i \in Slots : i + 1 < MaxInflight => i + 1 \in Slots
  BY StreamAssumption DEF StreamAssumption, Slots
<1> USE <1>0
<1>1. CASE AllocPtr  BY <1>1 DEF AllocPtr, FreeSlots
<1>2. CASE AllocSeq  BY <1>2 DEF AllocSeq
<1>3. CASE Spawn
  <2>1. wpc' \in [Seqs -> WorkerStates]  BY <1>3 DEF Spawn, NextCommand
  <2>2. /\ rpc' \in ReaderStates /\ rcmd' \in {"submit", "unlink"}
        /\ rseq' \in Seqs \cup {NoSeq} /\ rslot' \in Slots
    BY <1>3 DEF Spawn, NextCommand
  <2> QED  BY <1>3, <2>1, <2>2 DEF Spawn, NextCommand
<1>4. CASE SpawnFails
  <2>1. wpc' \in [Seqs -> WorkerStates]  BY <1>4 DEF SpawnFails
  <2>2. cancelPtr' \in [Slots -> Seqs \cup {NoSeq}] /\ slotSeq' \in [Slots -> Seqs \cup {0}]
    BY <1>4 DEF SpawnFails
  <2> QED  BY <1>4, <2>1, <2>2 DEF SpawnFails
<1>5. CASE SendDone  BY <1>5 DEF SendDone, NextCommand
<1>6. CASE SendFails  BY <1>6 DEF SendFails, BeginCleanup
<1>7. CASE UnlinkLoad  BY <1>7 DEF UnlinkLoad
<1>8. CASE UnlinkStore  BY <1>8 DEF UnlinkStore
<1>9. CASE CancelSkip  BY <1>9 DEF CancelSkip, NextCancel
<1>10. CASE CancelLoad  BY <1>10 DEF CancelLoad
<1>11. CASE CancelStore  BY <1>11 DEF CancelStore, NextCancel
<1>12. CASE FreeContext  BY <1>12 DEF FreeContext
<1>13. CASE EndOfStream  BY <1>13 DEF EndOfStream, BeginCleanup
<1>14. ASSUME NEW s \in Seqs, Accept(s) PROVE TypeOK'  BY <1>14 DEF Accept
<1>15. ASSUME NEW s \in Seqs, Unlink(s) PROVE TypeOK'  BY <1>15 DEF Unlink
<1>16. ASSUME NEW s \in Seqs, NEW v \in Verdicts, Refuse(s, v) PROVE TypeOK'
  BY <1>16 DEF Refuse, LeavesPayload
<1>17. ASSUME NEW s \in Seqs, EndTransfer(s) PROVE TypeOK'  BY <1>17 DEF EndTransfer, Goto
<1>18. ASSUME NEW s \in Seqs, TakeMutex(s) PROVE TypeOK'  BY <1>18 DEF TakeMutex, Goto
<1>19. ASSUME NEW s \in Seqs, SendReply(s) PROVE TypeOK'
  <2>1. replies' \in [Seqs -> Nat]  BY <1>19 DEF SendReply, Goto
  <2>2. wpc' \in [Seqs -> WorkerStates]  BY <1>19 DEF SendReply, Goto
  <2> QED  BY <1>19, <2>1, <2>2 DEF SendReply, Goto
<1>20. ASSUME NEW s \in Seqs, FreePtr(s) PROVE TypeOK'  BY <1>20 DEF FreePtr, Goto
<1>21. ASSUME NEW s \in Seqs, FreeSeq(s) PROVE TypeOK'  BY <1>21 DEF FreeSeq, Goto
<1>22. ASSUME NEW s \in Seqs, FreeCount(s) PROVE TypeOK'  BY <1>22 DEF FreeCount, Goto
<1>23. ASSUME NEW s \in Seqs, FreeItem(s) PROVE TypeOK'
  <2>1. wpc' \in [Seqs -> WorkerStates]  BY <1>23 DEF FreeItem, Goto
  <2>2. wslot' \in [Seqs -> Slots] /\ rpc' \in ReaderStates  BY <1>23 DEF FreeItem, Goto
  <2> QED  BY <1>23, <2>1, <2>2 DEF FreeItem, Goto
<1>24. CASE Terminated  BY <1>24 DEF Terminated, vars
<1> QED
  BY <1>1, <1>2, <1>3, <1>4, <1>5, <1>6, <1>7, <1>8, <1>9, <1>10, <1>11, <1>12, <1>13,
     <1>14, <1>15, <1>16, <1>17, <1>18, <1>19, <1>20, <1>21, <1>22, <1>23, <1>24
  DEF Next, ReaderProceeds, ClientSends, WorkerStep

\* The slot that the reader has filled is nobody else's.
LEMMA ReaderStep ==
    ASSUME TypeOK, ReaderInv, Unsent, SlotsAgree, Next
    PROVE  ReaderInv'
<1> USE StreamAssumption DEF StreamAssumption, Seqs, Slots, NoSeq
<1> USE DEF readerVars, slotVars, workerVars, TypeOK, ReaderInv, SlotsAgree, Linked,
            Unsent
<1>1. CASE AllocPtr  BY <1>1 DEF AllocPtr, FreeSlots
<1>2. CASE AllocSeq  BY <1>2 DEF AllocSeq
<1>3. CASE Spawn  BY <1>3 DEF Spawn, NextCommand
<1>4. CASE SpawnFails  BY <1>4 DEF SpawnFails
<1>5. CASE SendDone  BY <1>5 DEF SendDone, NextCommand
<1>6. CASE SendFails  BY <1>6 DEF SendFails, BeginCleanup
<1>7. CASE UnlinkLoad  BY <1>7 DEF UnlinkLoad
<1>8. CASE UnlinkStore  BY <1>8 DEF UnlinkStore
<1>9. CASE CancelSkip  BY <1>9 DEF CancelSkip, NextCancel
<1>10. CASE CancelLoad  BY <1>10 DEF CancelLoad
<1>11. CASE CancelStore  BY <1>11 DEF CancelStore, NextCancel
<1>12. CASE FreeContext  BY <1>12 DEF FreeContext
<1>13. CASE EndOfStream  BY <1>13 DEF EndOfStream, BeginCleanup
<1>14. ASSUME NEW s \in Seqs, Accept(s) PROVE ReaderInv'  BY <1>14 DEF Accept
<1>15. ASSUME NEW s \in Seqs, Unlink(s) PROVE ReaderInv'  BY <1>15 DEF Unlink
<1>16. ASSUME NEW s \in Seqs, NEW v \in Verdicts, Refuse(s, v) PROVE ReaderInv'
  BY <1>16 DEF Refuse, LeavesPayload
<1>17. ASSUME NEW s \in Seqs, EndTransfer(s) PROVE ReaderInv'  BY <1>17 DEF EndTransfer, Goto
<1>18. ASSUME NEW s \in Seqs, TakeMutex(s) PROVE ReaderInv'  BY <1>18 DEF TakeMutex, Goto
<1>19. ASSUME NEW s \in Seqs, SendReply(s) PROVE ReaderInv'  BY <1>19 DEF SendReply, Goto
<1>20. ASSUME NEW s \in Seqs, FreePtr(s) PROVE ReaderInv'  BY <1>20 DEF FreePtr, Goto
<1>21. ASSUME NEW s \in Seqs, FreeSeq(s) PROVE ReaderInv'  BY <1>21 DEF FreeSeq, Goto
<1>22. ASSUME NEW s \in Seqs, FreeCount(s) PROVE ReaderInv'  BY <1>22 DEF FreeCount, Goto
<1>23. ASSUME NEW s \in Seqs, FreeItem(s) PROVE ReaderInv'  BY <1>23 DEF FreeItem, Goto
<1>24. CASE Terminated  BY <1>24 DEF Terminated, vars
<1> QED
  BY <1>1, <1>2, <1>3, <1>4, <1>5, <1>6, <1>7, <1>8, <1>9, <1>10, <1>11, <1>12, <1>13,
     <1>14, <1>15, <1>16, <1>17, <1>18, <1>19, <1>20, <1>21, <1>22, <1>23, <1>24
  DEF Next, ReaderProceeds, ClientSends, WorkerStep

\* A URB starts when its turn has come.
LEMMA UnsentStep ==
    ASSUME TypeOK, ReaderInv, Unsent, Next
    PROVE  Unsent'
<1> USE StreamAssumption DEF StreamAssumption, Seqs, Slots, NoSeq
<1> USE DEF readerVars, slotVars, workerVars, TypeOK, ReaderInv, Unsent
<1>1. CASE AllocPtr  BY <1>1 DEF AllocPtr, FreeSlots
<1>2. CASE AllocSeq  BY <1>2 DEF AllocSeq
<1>3. CASE Spawn  BY <1>3 DEF Spawn, NextCommand
<1>4. CASE SpawnFails  BY <1>4 DEF SpawnFails
<1>5. CASE SendDone  BY <1>5 DEF SendDone, NextCommand
<1>6. CASE SendFails  BY <1>6 DEF SendFails, BeginCleanup
<1>7. CASE UnlinkLoad  BY <1>7 DEF UnlinkLoad
<1>8. CASE UnlinkStore  BY <1>8 DEF UnlinkStore
<1>9. CASE CancelSkip  BY <1>9 DEF CancelSkip, NextCancel
<1>10. CASE CancelLoad  BY <1>10 DEF CancelLoad
<1>11. CASE CancelStore  BY <1>11 DEF CancelStore, NextCancel
<1>12. CASE FreeContext  BY <1>12 DEF FreeContext
<1>13. CASE EndOfStream  BY <1>13 DEF EndOfStream, BeginCleanup
<1>14. ASSUME NEW s \in Seqs, Accept(s) PROVE Unsent'  BY <1>14 DEF Accept
<1>15. ASSUME NEW s \in Seqs, Unlink(s) PROVE Unsent'  BY <1>15 DEF Unlink
<1>16. ASSUME NEW s \in Seqs, NEW v \in Verdicts, Refuse(s, v) PROVE Unsent'
  BY <1>16 DEF Refuse, LeavesPayload
<1>17. ASSUME NEW s \in Seqs, EndTransfer(s) PROVE Unsent'  BY <1>17 DEF EndTransfer, Goto
<1>18. ASSUME NEW s \in Seqs, TakeMutex(s) PROVE Unsent'  BY <1>18 DEF TakeMutex, Goto
<1>19. ASSUME NEW s \in Seqs, SendReply(s) PROVE Unsent'  BY <1>19 DEF SendReply, Goto
<1>20. ASSUME NEW s \in Seqs, FreePtr(s) PROVE Unsent'  BY <1>20 DEF FreePtr, Goto
<1>21. ASSUME NEW s \in Seqs, FreeSeq(s) PROVE Unsent'  BY <1>21 DEF FreeSeq, Goto
<1>22. ASSUME NEW s \in Seqs, FreeCount(s) PROVE Unsent'  BY <1>22 DEF FreeCount, Goto
<1>23. ASSUME NEW s \in Seqs, FreeItem(s) PROVE Unsent'  BY <1>23 DEF FreeItem, Goto
<1>24. CASE Terminated  BY <1>24 DEF Terminated, vars
<1> QED
  BY <1>1, <1>2, <1>3, <1>4, <1>5, <1>6, <1>7, <1>8, <1>9, <1>10, <1>11, <1>12, <1>13,
     <1>14, <1>15, <1>16, <1>17, <1>18, <1>19, <1>20, <1>21, <1>22, <1>23, <1>24
  DEF Next, ReaderProceeds, ClientSends, WorkerStep

\* A free slot belongs to no running worker, and two workers never share one.
LEMMA SlotsStep ==
    ASSUME TypeOK, ReaderInv, Unsent, SlotsAgree, Next
    PROVE  SlotsAgree'
<1> USE StreamAssumption DEF StreamAssumption, Seqs, Slots, NoSeq
<1> USE DEF readerVars, slotVars, workerVars, TypeOK, ReaderInv, SlotsAgree, Linked,
            Unsent
<1>1. CASE AllocPtr  BY <1>1 DEF AllocPtr, FreeSlots
<1>2. CASE AllocSeq  BY <1>2 DEF AllocSeq
<1>3. CASE Spawn  BY <1>3 DEF Spawn, NextCommand
<1>4. CASE SpawnFails  BY <1>4 DEF SpawnFails
<1>5. CASE SendDone  BY <1>5 DEF SendDone, NextCommand
<1>6. CASE SendFails  BY <1>6 DEF SendFails, BeginCleanup
<1>7. CASE UnlinkLoad  BY <1>7 DEF UnlinkLoad
<1>8. CASE UnlinkStore  BY <1>8 DEF UnlinkStore
<1>9. CASE CancelSkip  BY <1>9 DEF CancelSkip, NextCancel
<1>10. CASE CancelLoad  BY <1>10 DEF CancelLoad
<1>11. CASE CancelStore  BY <1>11 DEF CancelStore, NextCancel
<1>12. CASE FreeContext  BY <1>12 DEF FreeContext
<1>13. CASE EndOfStream  BY <1>13 DEF EndOfStream, BeginCleanup
<1>14. ASSUME NEW s \in Seqs, Accept(s) PROVE SlotsAgree'  BY <1>14 DEF Accept
<1>15. ASSUME NEW s \in Seqs, Unlink(s) PROVE SlotsAgree'  BY <1>15 DEF Unlink
<1>16. ASSUME NEW s \in Seqs, NEW v \in Verdicts, Refuse(s, v) PROVE SlotsAgree'
  BY <1>16 DEF Refuse, LeavesPayload
<1>17. ASSUME NEW s \in Seqs, EndTransfer(s) PROVE SlotsAgree'  BY <1>17 DEF EndTransfer, Goto
<1>18. ASSUME NEW s \in Seqs, TakeMutex(s) PROVE SlotsAgree'  BY <1>18 DEF TakeMutex, Goto
<1>19. ASSUME NEW s \in Seqs, SendReply(s) PROVE SlotsAgree'  BY <1>19 DEF SendReply, Goto
<1>20. ASSUME NEW s \in Seqs, FreePtr(s) PROVE SlotsAgree'  BY <1>20 DEF FreePtr, Goto
<1>21. ASSUME NEW s \in Seqs, FreeSeq(s) PROVE SlotsAgree'  BY <1>21 DEF FreeSeq, Goto
<1>22. ASSUME NEW s \in Seqs, FreeCount(s) PROVE SlotsAgree'  BY <1>22 DEF FreeCount, Goto
<1>23. ASSUME NEW s \in Seqs, FreeItem(s) PROVE SlotsAgree'  BY <1>23 DEF FreeItem, Goto
<1>24. CASE Terminated  BY <1>24 DEF Terminated, vars
<1> QED
  BY <1>1, <1>2, <1>3, <1>4, <1>5, <1>6, <1>7, <1>8, <1>9, <1>10, <1>11, <1>12, <1>13,
     <1>14, <1>15, <1>16, <1>17, <1>18, <1>19, <1>20, <1>21, <1>22, <1>23, <1>24
  DEF Next, ReaderProceeds, ClientSends, WorkerStep

\* During the teardown no worker starts, and one that is in its transfer keeps its
\* slot.
LEMMA TeardownStep ==
    ASSUME TypeOK, ReaderInv, SlotsAgree, TeardownInv, Next
    PROVE  TeardownInv'
<1> USE StreamAssumption DEF StreamAssumption, Seqs, Slots, NoSeq
<1> USE DEF readerVars, slotVars, workerVars, TypeOK, ReaderInv, SlotsAgree, Linked,
            TeardownInv, TeardownCancelsAll
<1>1. CASE AllocPtr  BY <1>1 DEF AllocPtr, FreeSlots
<1>2. CASE AllocSeq  BY <1>2 DEF AllocSeq
<1>3. CASE Spawn  BY <1>3 DEF Spawn, NextCommand
<1>4. CASE SpawnFails  BY <1>4 DEF SpawnFails
<1>5. CASE SendDone  BY <1>5 DEF SendDone, NextCommand
<1>6. CASE SendFails  BY <1>6 DEF SendFails, BeginCleanup
<1>7. CASE UnlinkLoad  BY <1>7 DEF UnlinkLoad
<1>8. CASE UnlinkStore  BY <1>8 DEF UnlinkStore, Deaf
<1>9. CASE CancelSkip  BY <1>9 DEF CancelSkip, NextCancel
<1>10. CASE CancelLoad  BY <1>10 DEF CancelLoad
<1>11. CASE CancelStore  BY <1>11 DEF CancelStore, Deaf, NextCancel
<1>12. CASE FreeContext  BY <1>12 DEF FreeContext
<1>13. CASE EndOfStream  BY <1>13 DEF EndOfStream, BeginCleanup
<1>14. ASSUME NEW s \in Seqs, Accept(s) PROVE TeardownInv'  BY <1>14 DEF Accept
<1>15. ASSUME NEW s \in Seqs, Unlink(s) PROVE TeardownInv'  BY <1>15 DEF Unlink
<1>16. ASSUME NEW s \in Seqs, NEW v \in Verdicts, Refuse(s, v) PROVE TeardownInv'
  BY <1>16 DEF Refuse, LeavesPayload
<1>17. ASSUME NEW s \in Seqs, EndTransfer(s) PROVE TeardownInv'  BY <1>17 DEF EndTransfer, Goto
<1>18. ASSUME NEW s \in Seqs, TakeMutex(s) PROVE TeardownInv'  BY <1>18 DEF TakeMutex, Goto
<1>19. ASSUME NEW s \in Seqs, SendReply(s) PROVE TeardownInv'  BY <1>19 DEF SendReply, Goto
<1>20. ASSUME NEW s \in Seqs, FreePtr(s) PROVE TeardownInv'  BY <1>20 DEF FreePtr, Goto
<1>21. ASSUME NEW s \in Seqs, FreeSeq(s) PROVE TeardownInv'  BY <1>21 DEF FreeSeq, Goto
<1>22. ASSUME NEW s \in Seqs, FreeCount(s) PROVE TeardownInv'  BY <1>22 DEF FreeCount, Goto
<1>23. ASSUME NEW s \in Seqs, FreeItem(s) PROVE TeardownInv'  BY <1>23 DEF FreeItem, Goto
<1>24. CASE Terminated  BY <1>24 DEF Terminated, vars
<1> QED
  BY <1>1, <1>2, <1>3, <1>4, <1>5, <1>6, <1>7, <1>8, <1>9, <1>10, <1>11, <1>12, <1>13,
     <1>14, <1>15, <1>16, <1>17, <1>18, <1>19, <1>20, <1>21, <1>22, <1>23, <1>24
  DEF Next, ReaderProceeds, ClientSends, WorkerStep

\* The worker answers once, or the reader.
LEMMA ReplyStep ==
    ASSUME TypeOK, ReaderInv, Unsent, ReplyInv, Next
    PROVE  ReplyInv'
<1> USE StreamAssumption DEF StreamAssumption, Seqs, Slots, NoSeq
<1> USE DEF readerVars, slotVars, workerVars, TypeOK, ReaderInv, Unsent, ReplyInv,
            Finished
<1>1. CASE AllocPtr  BY <1>1 DEF AllocPtr, FreeSlots
<1>2. CASE AllocSeq  BY <1>2 DEF AllocSeq
<1>3. CASE Spawn  BY <1>3 DEF Spawn, NextCommand
<1>4. CASE SpawnFails  BY <1>4 DEF SpawnFails
<1>5. CASE SendDone  BY <1>5 DEF SendDone, NextCommand
<1>6. CASE SendFails  BY <1>6 DEF SendFails, BeginCleanup
<1>7. CASE UnlinkLoad  BY <1>7 DEF UnlinkLoad
<1>8. CASE UnlinkStore  BY <1>8 DEF UnlinkStore
<1>9. CASE CancelSkip  BY <1>9 DEF CancelSkip, NextCancel
<1>10. CASE CancelLoad  BY <1>10 DEF CancelLoad
<1>11. CASE CancelStore  BY <1>11 DEF CancelStore, NextCancel
<1>12. CASE FreeContext  BY <1>12 DEF FreeContext
<1>13. CASE EndOfStream  BY <1>13 DEF EndOfStream, BeginCleanup
<1>14. ASSUME NEW s \in Seqs, Accept(s) PROVE ReplyInv'
  <2>1. wpc[s] = "none" /\ replies' = replies  BY <1>14 DEF Accept
  <2>2. wpc' = [wpc EXCEPT ![s] = "queued"] /\ rpc' = "alloc"  BY <1>14 DEF Accept
  <2> QED  BY <2>1, <2>2
<1>15. ASSUME NEW s \in Seqs, Unlink(s) PROVE ReplyInv'  BY <1>15 DEF Unlink
<1>16. ASSUME NEW s \in Seqs, NEW v \in Verdicts, Refuse(s, v) PROVE ReplyInv'
  <2>1. wpc[s] = "none" /\ replies' = replies  BY <1>16 DEF Refuse, LeavesPayload
  <2>2. wpc' = [wpc EXCEPT ![s] = "refused"] /\ rseq' = s  BY <1>16 DEF Refuse, LeavesPayload
  <2> QED  BY <2>1, <2>2
<1>17. ASSUME NEW s \in Seqs, EndTransfer(s) PROVE ReplyInv'  BY <1>17 DEF EndTransfer, Goto
<1>18. ASSUME NEW s \in Seqs, TakeMutex(s) PROVE ReplyInv'  BY <1>18 DEF TakeMutex, Goto
<1>19. ASSUME NEW s \in Seqs, SendReply(s) PROVE ReplyInv'
  <2>1. wpc[s] = "sending" /\ replies[s] = 0  BY <1>19 DEF SendReply
  <2>2. wpc'[s] = "freePtr" /\ replies'[s] \in {0, 1}  BY <1>19, <2>1 DEF SendReply, Goto
  <2>3. \A t \in Seqs \ {s} : wpc'[t] = wpc[t] /\ replies'[t] = replies[t]
    BY <1>19 DEF SendReply, Goto
  <2>4. rpc' = rpc /\ rcmd' = rcmd /\ rseq' = rseq  BY <1>19 DEF SendReply, Goto
  <2>5. rpc' = "sending" /\ rcmd' = "submit" => rseq \in Seqs \ {s}  BY <2>1, <2>4
  <2> QED  BY <2>2, <2>3, <2>4, <2>5
<1>20. ASSUME NEW s \in Seqs, FreePtr(s) PROVE ReplyInv'  BY <1>20 DEF FreePtr, Goto
<1>21. ASSUME NEW s \in Seqs, FreeSeq(s) PROVE ReplyInv'  BY <1>21 DEF FreeSeq, Goto
<1>22. ASSUME NEW s \in Seqs, FreeCount(s) PROVE ReplyInv'  BY <1>22 DEF FreeCount, Goto
<1>23. ASSUME NEW s \in Seqs, FreeItem(s) PROVE ReplyInv'  BY <1>23 DEF FreeItem, Goto
<1>24. CASE Terminated  BY <1>24 DEF Terminated, vars
<1> QED
  BY <1>1, <1>2, <1>3, <1>4, <1>5, <1>6, <1>7, <1>8, <1>9, <1>10, <1>11, <1>12, <1>13,
     <1>14, <1>15, <1>16, <1>17, <1>18, <1>19, <1>20, <1>21, <1>22, <1>23, <1>24
  DEF Next, ReaderProceeds, ClientSends, WorkerStep

-----------------------------------------------------------------------------
(* The invariants.                                                         *)

\* An open connection without URBs.
LEMMA InitInv == ASSUME Init PROVE IInv
<1> USE StreamAssumption DEF StreamAssumption, Init, Seqs, Slots, NoSeq
<1>1. TypeOK
  <2>1. 0 \in Slots /\ 1 \in Nat /\ 0 \in Nat  OBVIOUS
  <2>2. "read" \in ReaderStates /\ "none" \in WorkerStates  BY DEF ReaderStates, WorkerStates
  <2>3. /\ cancelPtr \in [Slots -> Seqs \cup {NoSeq}] /\ slotSeq \in [Slots -> Seqs \cup {0}]
        /\ wpc \in [Seqs -> WorkerStates] /\ wslot \in [Seqs -> Slots] /\ replies \in [Seqs -> Nat]
    BY <2>1, <2>2
  <2> QED  BY <2>1, <2>2, <2>3 DEF TypeOK
<1>2. ReaderInv /\ Unsent /\ SlotsAgree  BY DEF ReaderInv, Unsent, SlotsAgree, Linked
<1>3. CountExact
  <2>1. Users = {}  BY DEF Users, UsesContext
  <2>2. Cardinality(Users) = 0  BY <2>1, FS_EmptySet
  <2> QED  BY <2>2, CountOf
<1>4. TeardownInv /\ ReplyInv
  BY DEF TeardownInv, TeardownCancelsAll, ReplyInv, Finished
<1> QED  BY <1>1, <1>2, <1>3, <1>4 DEF IInv

\* Every step preserves the invariant.
LEMMA NextInv == ASSUME IInv, [Next]_vars PROVE IInv'
<1>1. CASE Next
  <2>1. /\ TypeOK /\ ReaderInv /\ Unsent /\ SlotsAgree /\ CountExact
        /\ TeardownInv /\ ReplyInv
    BY DEF IInv
  <2>2. CountExact'  BY <1>1, <2>1, CountStep
  <2>3. count' \in Nat
    <3>1. Users' \in SUBSET Seqs  BY DEF Users
    <3>2. Cardinality(Users') \in Nat  BY <3>1, Counted
    <3> QED  BY <2>2, <3>2, CountOf
  <2>4. TypeOK'  BY <1>1, <2>1, <2>3, TypeStep
  <2>5. ReaderInv' /\ Unsent'  BY <1>1, <2>1, ReaderStep, UnsentStep
  <2>6. SlotsAgree'  BY <1>1, <2>1, SlotsStep
  <2>7. TeardownInv' /\ ReplyInv'  BY <1>1, <2>1, TeardownStep, ReplyStep
  <2> QED  BY <2>2, <2>4, <2>5, <2>6, <2>7 DEF IInv
<1>2. CASE UNCHANGED vars
  BY <1>2 DEF vars, IInv, TypeOK, ReaderInv, Unsent, SlotsAgree, Linked, CountExact,
              TeardownInv, TeardownCancelsAll, ReplyInv
<1> QED  BY <1>1, <1>2

\* Whatever the client sends and however the tasks interleave, the invariant
\* holds.
THEOREM StreamInvariance == Spec => []IInv
BY InitInv, NextInv, PTL DEF Spec

\* Types.
THEOREM StreamTypeCorrect == Spec => []TypeOK
<1>1. IInv => TypeOK  BY DEF IInv
<1> QED  BY StreamInvariance, <1>1, PTL

\* in_flight[] and inflight_count agree with the workers, without a lock.
THEOREM ArrayAgrees == Spec => []InFlightAgrees
<1>1. IInv => InFlightAgrees  BY DEF IInv, InFlightAgrees
<1> QED  BY StreamInvariance, <1>1, PTL

\* When the teardown waits, every transfer has been cancelled.
THEOREM AllCancelled == Spec => []TeardownCancelsAll
<1>1. IInv => TeardownCancelsAll  BY DEF IInv, TeardownInv
<1> QED  BY StreamInvariance, <1>1, PTL

-----------------------------------------------------------------------------
(* The contract.                                                           *)

\* What the client sees of its URBs and of the connection.
Seen == [s \in Seqs |-> See(replies[s], wpc[s])]
Opened == rpc \notin {"cancelAll", "cancelStore", "drain", "closed", "deleted"}

\* What one answer looks like, and none.
LEMMA Once ==
    /\ \A w : See(1, w) = "answered"
    /\ See(0, "freePtr") = "lost"
BY DEF See, Finished

\* A step in which the client sees a URB received, one answered, the end of the
\* connection, or nothing.
LEMMA Allowed ==
    ASSUME \/ UNCHANGED <<Seen, Opened>>
           \/ Opened /\ ~ Opened' /\ UNCHANGED Seen
           \/ \E s \in Seqs : /\ Opened /\ UNCHANGED Opened
                              /\ Seen[s] = "unsent" /\ Seen' = [Seen EXCEPT ![s] = "pending"]
           \/ \E s \in Seqs : /\ UNCHANGED Opened
                              /\ Seen[s] = "pending"
                              /\ \/ Seen' = [Seen EXCEPT ![s] = "answered"]
                                 \/ Seen' = [Seen EXCEPT ![s] = "lost"]
    PROVE  [Contract!Next]_(Contract!vars)
<1>1. CASE UNCHANGED <<Seen, Opened>>  BY <1>1 DEF Seen, Opened, Contract!vars
<1>2. CASE Opened /\ ~ Opened' /\ UNCHANGED Seen
  <2>1. Contract!Close  BY <1>2 DEF Seen, Opened, Contract!Close
  <2> QED  BY <2>1 DEF Contract!Next
<1>3. ASSUME NEW s \in Seqs, Opened, UNCHANGED Opened,
             Seen[s] = "unsent", Seen' = [Seen EXCEPT ![s] = "pending"]
      PROVE  Contract!Next
  <2>1. Contract!Receive(s)  BY <1>3 DEF Seen, Opened, Contract!Receive
  <2> QED  BY <2>1 DEF Contract!Next
<1>4. ASSUME NEW s \in Seqs, NEW outcome \in {"answered", "lost"}, UNCHANGED Opened,
             Seen[s] = "pending", Seen' = [Seen EXCEPT ![s] = outcome]
      PROVE  Contract!Next
  <2>1. Contract!End(s, outcome)  BY <1>4 DEF Seen, Opened, Contract!End
  <2> QED  BY <2>1 DEF Contract!Next
<1> QED  BY <1>1, <1>2, <1>3, <1>4

\* Every step is one that the contract allows.
LEMMA ContractStep ==
    ASSUME TypeOK, ReaderInv, Unsent, ReplyInv, Next
    PROVE  [Contract!Next]_(Contract!vars)
<1> USE DEF readerVars, slotVars, workerVars, TypeOK, ReaderInv, Unsent, ReplyInv,
            Finished
<1>1. CASE AllocPtr
  <2>1. UNCHANGED <<Seen, Opened>>  BY <1>1 DEF AllocPtr, FreeSlots, Seen, See, Opened
  <2> QED  BY <2>1, Allowed
<1>2. CASE AllocSeq
  <2>1. UNCHANGED <<Seen, Opened>>  BY <1>2 DEF AllocSeq, Seen, See, Opened
  <2> QED  BY <2>1, Allowed
<1>3. CASE Spawn
  <2>1. UNCHANGED <<Seen, Opened>>  BY <1>3 DEF Spawn, NextCommand, Seen, See, Opened
  <2> QED  BY <2>1, Allowed
<1>4. CASE SpawnFails
  <2>1. UNCHANGED <<Seen, Opened>>  BY <1>4 DEF SpawnFails, Seen, See, Opened
  <2> QED  BY <2>1, Allowed
<1>5. CASE SendDone
  <2>1. CASE rcmd # "submit"
    <3>1. UNCHANGED <<Seen, Opened>>  BY <1>5, <2>1 DEF SendDone, NextCommand, Seen, Opened
    <3> QED  BY <3>1, Allowed
  <2>2. CASE rcmd = "submit"
    <3>1. /\ rseq \in Seqs /\ wpc[rseq] = "refused" /\ replies[rseq] = 0
          /\ replies' = [replies EXCEPT ![rseq] = @ + 1] /\ wpc' = wpc
      BY <1>5, <2>2 DEF SendDone, NextCommand
    <3>2. Opened' = Opened  BY <1>5 DEF SendDone, NextCommand, Opened
    <3>3. Seen[rseq] = "pending"  BY <3>1 DEF Seen, See
    <3>4. replies'[rseq] = 1 /\ \A t \in Seqs \ {rseq} : replies'[t] = replies[t]  BY <3>1
    <3>5. \A t \in Seqs : See(replies'[t], wpc'[t]) =
                           IF t = rseq THEN "answered" ELSE See(replies[t], wpc[t])
      BY <3>1, <3>4, Once
    <3>6. Seen' = [Seen EXCEPT ![rseq] = "answered"]  BY <3>1, <3>5 DEF Seen
    <3> QED  BY <3>1, <3>2, <3>3, <3>6, Allowed
  <2> QED  BY <2>1, <2>2
<1>6. CASE SendFails
  <2>1. Opened /\ ~ Opened' /\ UNCHANGED Seen  BY <1>6 DEF SendFails, BeginCleanup, Seen, Opened
  <2> QED  BY <2>1, Allowed
<1>7. CASE UnlinkLoad
  <2>1. UNCHANGED <<Seen, Opened>>  BY <1>7 DEF UnlinkLoad, Seen, See, Opened
  <2> QED  BY <2>1, Allowed
<1>8. CASE UnlinkStore
  <2>1. UNCHANGED <<Seen, Opened>>  BY <1>8 DEF UnlinkStore, Seen, See, Opened
  <2> QED  BY <2>1, Allowed
<1>9. CASE CancelSkip
  <2>1. UNCHANGED <<Seen, Opened>>  BY <1>9 DEF CancelSkip, NextCancel, Seen, See, Opened
  <2> QED  BY <2>1, Allowed
<1>10. CASE CancelLoad
  <2>1. UNCHANGED <<Seen, Opened>>  BY <1>10 DEF CancelLoad, Seen, See, Opened
  <2> QED  BY <2>1, Allowed
<1>11. CASE CancelStore
  <2>1. UNCHANGED <<Seen, Opened>>  BY <1>11 DEF CancelStore, NextCancel, Seen, See, Opened
  <2> QED  BY <2>1, Allowed
<1>12. CASE FreeContext
  <2>1. UNCHANGED <<Seen, Opened>>  BY <1>12 DEF FreeContext, Seen, See, Opened
  <2> QED  BY <2>1, Allowed
<1>13. CASE EndOfStream
  <2>1. Opened /\ ~ Opened' /\ UNCHANGED Seen  BY <1>13 DEF EndOfStream, BeginCleanup, Seen, Opened
  <2> QED  BY <2>1, Allowed
<1>14. ASSUME NEW s \in Seqs, Accept(s) PROVE [Contract!Next]_(Contract!vars)
  <2>1. /\ Opened /\ Opened' /\ wpc[s] = "none" /\ replies' = replies
        /\ wpc' = [wpc EXCEPT ![s] = "queued"]
    BY <1>14 DEF Accept, Opened
  <2>2. replies[s] = 0 /\ Seen[s] = "unsent"  BY <2>1 DEF Seen, See
  <2>3. Seen' = [Seen EXCEPT ![s] = "pending"]  BY <2>1, <2>2 DEF Seen, See
  <2> QED  BY <2>1, <2>2, <2>3, Allowed
<1>15. ASSUME NEW s \in Seqs, Unlink(s) PROVE [Contract!Next]_(Contract!vars)
  <2>1. UNCHANGED <<Seen, Opened>>  BY <1>15 DEF Unlink, Seen, See, Opened
  <2> QED  BY <2>1, Allowed
<1>16. ASSUME NEW s \in Seqs, NEW v \in Verdicts, Refuse(s, v) PROVE [Contract!Next]_(Contract!vars)
  <2>1. /\ Opened /\ Opened' /\ wpc[s] = "none" /\ replies' = replies
        /\ wpc' = [wpc EXCEPT ![s] = "refused"]
    BY <1>16 DEF Refuse, LeavesPayload, Opened
  <2>2. replies[s] = 0 /\ Seen[s] = "unsent"  BY <2>1 DEF Seen, See
  <2>3. Seen' = [Seen EXCEPT ![s] = "pending"]  BY <2>1, <2>2 DEF Seen, See
  <2> QED  BY <2>1, <2>2, <2>3, Allowed
<1>17. ASSUME NEW s \in Seqs, EndTransfer(s) PROVE [Contract!Next]_(Contract!vars)
  <2>1. UNCHANGED <<Seen, Opened>>  BY <1>17 DEF EndTransfer, Goto, Seen, See, Opened
  <2> QED  BY <2>1, Allowed
<1>18. ASSUME NEW s \in Seqs, TakeMutex(s) PROVE [Contract!Next]_(Contract!vars)
  <2>1. UNCHANGED <<Seen, Opened>>  BY <1>18 DEF TakeMutex, Goto, Seen, See, Opened
  <2> QED  BY <2>1, Allowed
<1>19. ASSUME NEW s \in Seqs, SendReply(s) PROVE [Contract!Next]_(Contract!vars)
  <2>1. wpc[s] = "sending" /\ replies[s] = 0  BY <1>19 DEF SendReply
  <2>2. UNCHANGED Opened  BY <1>19 DEF SendReply, Goto, Opened
  <2>3. Seen[s] = "pending"  BY <2>1 DEF Seen, See, Finished
  <2>4. PICK sent \in {0, 1} : replies' = [replies EXCEPT ![s] = @ + sent]
    BY <1>19 DEF SendReply
  <2>5. /\ replies'[s] = sent /\ wpc'[s] = "freePtr"
        /\ \A t \in Seqs \ {s} : replies'[t] = replies[t] /\ wpc'[t] = wpc[t]
    BY <1>19, <2>1, <2>4 DEF SendReply, Goto
  <2>6. CASE sent = 1
    <3>1. \A t \in Seqs : See(replies'[t], wpc'[t]) =
                           IF t = s THEN "answered" ELSE See(replies[t], wpc[t])
      BY <2>5, <2>6, Once
    <3>2. Seen' = [Seen EXCEPT ![s] = "answered"]  BY <3>1 DEF Seen
    <3> QED  BY <2>2, <2>3, <3>2, Allowed
  <2>7. CASE sent = 0
    <3>1. \A t \in Seqs : See(replies'[t], wpc'[t]) =
                           IF t = s THEN "lost" ELSE See(replies[t], wpc[t])
      BY <2>5, <2>7, Once
    <3>2. Seen' = [Seen EXCEPT ![s] = "lost"]  BY <3>1 DEF Seen
    <3> QED  BY <2>2, <2>3, <3>2, Allowed
  <2> QED  BY <2>4, <2>6, <2>7
<1>20. ASSUME NEW s \in Seqs, FreePtr(s) PROVE [Contract!Next]_(Contract!vars)
  <2>1. UNCHANGED <<Seen, Opened>>  BY <1>20 DEF FreePtr, Goto, Seen, See, Opened
  <2> QED  BY <2>1, Allowed
<1>21. ASSUME NEW s \in Seqs, FreeSeq(s) PROVE [Contract!Next]_(Contract!vars)
  <2>1. UNCHANGED <<Seen, Opened>>  BY <1>21 DEF FreeSeq, Goto, Seen, See, Opened
  <2> QED  BY <2>1, Allowed
<1>22. ASSUME NEW s \in Seqs, FreeCount(s) PROVE [Contract!Next]_(Contract!vars)
  <2>1. UNCHANGED <<Seen, Opened>>  BY <1>22 DEF FreeCount, Goto, Seen, See, Opened
  <2> QED  BY <2>1, Allowed
<1>23. ASSUME NEW s \in Seqs, FreeItem(s) PROVE [Contract!Next]_(Contract!vars)
  <2>1. UNCHANGED Seen  BY <1>23 DEF FreeItem, Goto, Seen, See
  <2>2. Opened' = Opened \/ (Opened /\ ~ Opened')  BY <1>23 DEF FreeItem, Goto, Opened
  <2> QED  BY <2>1, <2>2, Allowed
<1>24. CASE Terminated
  <2>1. UNCHANGED <<Seen, Opened>>  BY <1>24 DEF Terminated, vars, Seen, Opened
  <2> QED  BY <2>1, Allowed
<1> QED
  BY <1>1, <1>2, <1>3, <1>4, <1>5, <1>6, <1>7, <1>8, <1>9, <1>10, <1>11, <1>12, <1>13,
     <1>14, <1>15, <1>16, <1>17, <1>18, <1>19, <1>20, <1>21, <1>22, <1>23, <1>24
  DEF Next, ReaderProceeds, ClientSends, WorkerStep

\* The stream is safe in the sense of the contract: a URB is answered once at
\* most, and only if it was received.  That it is answered needs fairness.
THEOREM ContractKept == Spec => Contract!Init /\ [][Contract!Next]_(Contract!vars)
<1>1. Init => Contract!Init  BY DEF Init, See, Finished, Contract!Init
<1>2. IInv /\ [Next]_vars => [Contract!Next]_(Contract!vars)
  <2> SUFFICES ASSUME IInv, [Next]_vars  PROVE [Contract!Next]_(Contract!vars)
    OBVIOUS
  <2>1. CASE Next  BY <2>1, ContractStep DEF IInv
  <2>2. CASE UNCHANGED vars
    <3>1. UNCHANGED <<Seen, Opened>>  BY <2>2 DEF vars, Seen, Opened
    <3> QED  BY <3>1, Allowed
  <2> QED  BY <2>1, <2>2
<1> QED  BY <1>1, <1>2, StreamInvariance, PTL DEF Spec
=============================================================================
