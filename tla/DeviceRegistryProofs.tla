------------------------ MODULE DeviceRegistryProofs ------------------------
(***************************************************************************)
(* Proofs about DeviceRegistry, for every number of slots, any devices,    *)
(* addresses and queue length, with claims and releases that fail and      *)
(* handles that are reused while their detach is pending: IInv is an       *)
(* inductive invariant, so handles are closed once, those excepted that a  *)
(* failed call holds, and the look-ups by busid and by handle have at most *)
(* one answer; and the table implements BusTable.                          *)
(***************************************************************************)
EXTENDS DeviceRegistry, TLAPS

USE RegistryAssumption

(***************************************************************************)
(* Types.                                                                  *)
(***************************************************************************)

LEMMA InitType == Init => TypeOK
  BY DEF Init, TypeOK, Event, Entry, Slots

LEMMA PostType ==
  ASSUME TypeOK, NEW m \in Event, Post(m)
  PROVE  /\ messages' \in Seq(Event) /\ Len(messages') <= QueueLen
         /\ overflow' \in BOOLEAN
<1>1. messages \in Seq(Event) /\ Len(messages) <= QueueLen /\ overflow \in BOOLEAN
  BY DEF TypeOK
<1>2. Append(messages, m) \in Seq(Event) /\ Len(Append(messages, m)) = Len(messages) + 1
  BY <1>1
<1>3. CASE Len(messages) < QueueLen
  <2>1. messages' = Append(messages, m) /\ overflow' = overflow  BY <1>3 DEF Post
  <2>2. Len(messages') <= QueueLen  BY <1>1, <1>2, <1>3, <2>1
  <2> QED  BY <1>1, <1>2, <2>1, <2>2
<1>4. CASE ~(Len(messages) < QueueLen)
  <2>1. messages' = messages /\ overflow' = TRUE  BY <1>4 DEF Post
  <2> QED  BY <1>1, <2>1
<1> QED  BY <1>3, <1>4

LEMMA BusType ==
  ASSUME TypeOK, Bus
  PROVE  TypeOK'
<1>1. ASSUME NEW h \in Handles, NEW a \in Addresses, Attach(h, a)  PROVE TypeOK'
  <2>1. New(a) \in Event  BY DEF Event
  <2> QED  BY <1>1, <2>1, PostType DEF Attach, TypeOK, libVars
<1>2. ASSUME NEW h \in Handles, Detach(h)  PROVE TypeOK'
  <2>1. Gone(h) \in Event  BY DEF Event
  <2> QED  BY <1>2, <2>1, PostType DEF Detach, TypeOK, libVars
<1> QED  BY <1>1, <1>2 DEF Bus

\* Closing a device keeps the types of the library's state.
LEMMA HostCloseType ==
  ASSUME TypeOK, NEW h \in Handles, NEW C, HostClose(h, C)
  PROVE  opened' \subseteq Handles /\ status' \in [Handles -> {"none", "attached", "gone"}]
  BY DEF TypeOK, HostClose

LEMMA CloseSlotType ==
  ASSUME TypeOK, NEW s \in InUse, CloseSlot(s)
  PROVE  /\ opened' \subseteq Handles
         /\ status' \in [Handles -> {"none", "attached", "gone"}]
         /\ claims' \subseteq Handles \X Interfaces
         /\ faulted' \subseteq Handles
<1>1. devices[s].handle \in Handles  BY DEF TypeOK, InUse, Entry
<1>2. PICK F : claims' = Released(s, F) /\ HostClose(devices[s].handle, claims')
  BY DEF CloseSlot
<1>3. faulted' \subseteq opened'  BY DEF CloseSlot
<1>4. claims' \subseteq claims  BY <1>2 DEF Released
<1> QED  BY <1>1, <1>2, <1>3, <1>4, HostCloseType DEF TypeOK

LEMMA ReceiveType ==
  ASSUME TypeOK, NEW type, Receive(type)
  PROVE  /\ events' \in Seq(Event) /\ Len(events') <= QueueLen
         /\ Head(events) \in Event
<1>1. events \in Seq(Event) /\ events # <<>> /\ Len(events) <= QueueLen /\ events' = Tail(events)
  BY DEF TypeOK, Receive
<1> QED  BY <1>1

LEMMA BackendType ==
  ASSUME TypeOK, bpc = "export" => newDev # NoHandle, Backend
  PROVE  TypeOK'
<1> USE DEF TypeOK, busVars, libVars, queueVars, Goto
<1>1. CASE EventCb
  <2>1. Head(messages) \in Event /\ Tail(messages) \in Seq(Event)
        /\ Len(Tail(messages)) <= QueueLen
    BY <1>1 DEF EventCb
  <2>2. messages' \in Seq(Event) /\ Len(messages') <= QueueLen  BY <1>1, <2>1 DEF EventCb
  <2>3. CASE Len(events) < QueueLen
    <3>1. events' = Append(events, Head(messages)) /\ overflow' = overflow
      BY <1>1, <2>3 DEF EventCb, Room
    <3>2. events' \in Seq(Event) /\ Len(events') <= QueueLen  BY <2>1, <2>3, <3>1
    <3> QED  BY <1>1, <2>2, <3>1, <3>2 DEF EventCb
  <2>4. CASE ~(Len(events) < QueueLen)
    <3>1. events' = events /\ overflow' = TRUE  BY <1>1, <2>4 DEF EventCb, Room
    <3> QED  BY <1>1, <2>2, <3>1 DEF EventCb
  <2> QED  BY <2>3, <2>4
<1>2. CASE BeginProcess  BY <1>2 DEF BeginProcess
<1>3. CASE Open          BY <1>3, ReceiveType DEF Open
<1>4. CASE OpenFails     BY <1>4, ReceiveType DEF OpenFails
<1>5. CASE Reject
  <2>1. newDev \in Handles  BY <1>5 DEF Reject
  <2> QED  BY <1>5, <2>1, HostCloseType DEF Reject
<1>6. CASE Export
  <2>1. newDev \in Handles  BY <1>6 DEF Export
  <2>2. NewEntry \in Entry  BY <2>1 DEF NewEntry, Entry
  <2> QED  BY <1>6, <2>2 DEF Export
<1>7. CASE ExportOver
  <2>1. newDev \in Handles  BY <1>7 DEF ExportOver
  <2>2. NewEntry \in Entry  BY <2>1 DEF NewEntry, Entry
  <2>3. PICK s \in Slots, t \in Slots :
          /\ s \in InUse
          /\ CloseSlot(s)
          /\ devices' = [devices EXCEPT ![s] = Free, ![t] = NewEntry]
    BY <1>7 DEF ExportOver, FirstOf, Existing
  <2>4. devices' \in [Slots -> Entry \cup {Free}]  BY <2>2, <2>3
  <2> QED  BY <1>7, <2>3, <2>4, CloseSlotType DEF ExportOver
<1>8. CASE ExportFull
  <2>1. newDev \in Handles  BY <1>8 DEF ExportFull
  <2> QED  BY <1>8, <2>1, HostCloseType DEF ExportFull
<1>9. CASE RemoveGone
  <2>1. PICK s \in Slots :
          /\ s \in InUse
          /\ CloseSlot(s)
          /\ devices' = [devices EXCEPT ![s] = Free]
    BY <1>9 DEF RemoveGone, FirstOf, SlotsOf
  <2>2. devices' \in [Slots -> Entry \cup {Free}]  BY <2>1
  <2> QED  BY <1>9, <2>1, <2>2, CloseSlotType, ReceiveType DEF RemoveGone
<1>10. CASE IgnoreGone   BY <1>10, ReceiveType DEF IgnoreGone
<1>11. CASE EndProcess   BY <1>11 DEF EndProcess
<1>12. CASE EndPass      BY <1>12 DEF EndPass
<1> QED  BY <1>1, <1>2, <1>3, <1>4, <1>5, <1>6, <1>7, <1>8, <1>9, <1>10, <1>11, <1>12
         DEF Backend

LEMMA ClaimableType ==
  ASSUME TypeOK, NEW s \in Slots, NEW n \in 0 .. NumInterfaces, Claimable(s, n)
  PROVE  claims' \subseteq Handles \X Interfaces
<1>1. devices[s].handle \in Handles  BY DEF Claimable, TypeOK, InUse, Entry
<1>2. \A i \in 0 .. n - 1 : i \in Interfaces  BY DEF Interfaces
<1>3. {<<devices[s].handle, i>> : i \in 0 .. n - 1} \subseteq Handles \X Interfaces
  BY <1>1, <1>2
<1>4. claims \subseteq Handles \X Interfaces  BY DEF TypeOK
<1> QED  BY <1>3, <1>4 DEF Claimable

LEMMA ClaimsType ==
  ASSUME TypeOK, Claims
  PROVE  TypeOK'
<1> USE DEF TypeOK, busVars, queueVars
<1>1. ASSUME NEW s \in Slots, Claim(s)  PROVE TypeOK'
  <2>1. Claimable(s, NumInterfaces) /\ s \in InUse  BY <1>1 DEF Claim, Claimable
  <2>2. claims' \subseteq Handles \X Interfaces  BY <2>1, ClaimableType
  <2>3. devices[s] \in Entry  BY <2>1 DEF InUse
  <2>4. devices' \in [Slots -> Entry \cup {Free}]  BY <1>1, <2>3 DEF Claim, Entry
  <2>5. UNCHANGED faulted  BY <1>1 DEF Claim
  <2> QED  BY <2>1, <2>2, <2>4, <2>5 DEF Claimable
<1>2. ASSUME NEW s \in Slots, NEW n \in Interfaces, ClaimFails(s, n)  PROVE TypeOK'
  <2>1. n \in 0 .. NumInterfaces  BY DEF Interfaces
  <2>2. Claimable(s, n) /\ UNCHANGED devices  BY <1>2 DEF ClaimFails
  <2>3. claims' \subseteq Handles \X Interfaces  BY <2>1, <2>2, ClaimableType
  <2>4. devices[s].handle \in Handles  BY <2>2 DEF Claimable, InUse, Entry
  <2>5. faulted' \subseteq Handles  BY <1>2, <2>4 DEF ClaimFails
  <2> QED  BY <2>2, <2>3, <2>5 DEF Claimable
<1> QED  BY <1>1, <1>2 DEF Claims

LEMMA TypeStep ==
  ASSUME TypeOK, bpc = "export" => newDev # NoHandle, [Next]_vars
  PROVE  TypeOK'
<1>1. CASE Bus      BY <1>1, BusType
<1>2. CASE Backend  BY <1>2, BackendType
<1>3. CASE Claims   BY <1>3, ClaimsType
<1>4. CASE UNCHANGED vars  BY <1>4 DEF TypeOK, vars
<1> QED  BY <1>1, <1>2, <1>3, <1>4 DEF Next

(***************************************************************************)
(* The table, the open handles and the claims.                             *)
(***************************************************************************)

TableInv == HandlesAccounted /\ OneSlotPerDevice /\ ClaimedMeansAll /\ ExportFresh

\* TableInv speaks of five variables and of whether an export is under way.
LEMMA TableUnchanged ==
  ASSUME TableInv, UNCHANGED <<opened, claims, devices, newDev, faulted>>,
         bpc' = "export" <=> bpc = "export"
  PROVE  TableInv'
  BY DEF TableInv, HandlesAccounted, OneSlotPerDevice, ClaimedMeansAll, ExportFresh,
         InTable, Stuck, StuckByFailure, SlotsOf, InUse

\* A device in the table, or with claims, is open.
LEMMA OpenIfUsed ==
  ASSUME TableInv, NEW h \in Handles, h \notin opened
  PROVE  /\ ~InTable(h)
         /\ h # newDev
         /\ \A i \in Interfaces : <<h, i>> \notin claims
  BY DEF TableInv, HandlesAccounted, Stuck, InTable

LEMMA OpenStep ==
  ASSUME TypeOK, TableInv, Open
  PROVE  TableInv'
<1>1. PICK h \in Handles \ opened : opened' = opened \cup {h} /\ newDev' = h
  BY DEF Open
<1>2. bpc = "process" /\ bpc' = "export" /\ UNCHANGED <<claims, devices, faulted>>
  BY DEF Open, Receive
<1>3. newDev = NoHandle  BY <1>2 DEF TableInv, ExportFresh
<1>4. ~InTable(h) /\ \A i \in Interfaces : <<h, i>> \notin claims  BY <1>1, OpenIfUsed
<1>5. \A g \in Handles : (InTable(g)' <=> InTable(g)) /\ (Stuck(g)' <=> Stuck(g))
  BY <1>2 DEF InTable, Stuck, SlotsOf, InUse
<1>6. HandlesAccounted'
  <2>1. opened = {g \in Handles : InTable(g) \/ g = newDev \/ Stuck(g)}
    BY DEF TableInv, HandlesAccounted
  <2>2. \A g \in Handles : g # newDev  BY <1>3
  <2>3. StuckByFailure'
    BY <1>2, <1>5 DEF TableInv, HandlesAccounted, StuckByFailure
  <2> QED  BY <1>1, <1>5, <2>1, <2>2, <2>3 DEF HandlesAccounted
<1>7. OneSlotPerDevice' /\ ClaimedMeansAll'
  BY <1>2 DEF TableInv, OneSlotPerDevice, ClaimedMeansAll, InUse
<1>8. ExportFresh'
  <2>1. h # NoHandle  OBVIOUS
  <2> QED  BY <1>1, <1>2, <1>4, <1>5, <2>1 DEF ExportFresh
<1> QED  BY <1>6, <1>7, <1>8 DEF TableInv

\* The device that is exported holds no claims, so closing it succeeds.
LEMMA CloseNewDev ==
  ASSUME TypeOK, TableInv, bpc = "export", bpc' = "process", HostClose(newDev, claims),
         newDev' = NoHandle, UNCHANGED <<claims, devices, faulted>>
  PROVE  TableInv'
<1>1. newDev \in Handles /\ ~InTable(newDev) /\ ~Stuck(newDev)
  BY DEF TypeOK, TableInv, ExportFresh, Stuck
<1>2. opened' = opened \ {newDev}
  BY DEF HostClose, TableInv, ExportFresh
<1>3. \A g \in Handles : (InTable(g)' <=> InTable(g)) /\ (Stuck(g)' <=> Stuck(g))
  BY DEF InTable, Stuck, SlotsOf, InUse
<1>4. HandlesAccounted'
  <2>1. opened = {g \in Handles : InTable(g) \/ g = newDev \/ Stuck(g)}
    BY DEF TableInv, HandlesAccounted
  <2>2. \A g \in Handles : g # newDev'  OBVIOUS
  <2>3. StuckByFailure'  BY <1>3 DEF TableInv, HandlesAccounted, StuckByFailure
  <2> QED  BY <1>1, <1>2, <1>3, <2>1, <2>2, <2>3 DEF HandlesAccounted
<1>5. OneSlotPerDevice' /\ ClaimedMeansAll' /\ ExportFresh'
  BY DEF TableInv, OneSlotPerDevice, ClaimedMeansAll, ExportFresh, InUse
<1> QED  BY <1>4, <1>5 DEF TableInv

LEMMA ExportStep ==
  ASSUME TypeOK, TableInv, Export
  PROVE  TableInv'
<1>1. PICK s \in Slots : s \in FreeSlots /\ devices' = [devices EXCEPT ![s] = NewEntry]
  BY DEF Export, FirstOf
<1>2. /\ bpc = "export" /\ bpc' = "process" /\ newDev' = NoHandle
      /\ UNCHANGED <<opened, claims, faulted>> /\ Existing = {}
  BY DEF Export, Goto, libVars
<1>3. newDev \in Handles /\ ~InTable(newDev) /\ \A i \in Interfaces : <<newDev, i>> \notin claims
  BY <1>2 DEF TypeOK, TableInv, ExportFresh
<1>4. /\ NewEntry \in Entry /\ NewEntry.handle = newDev
      /\ NewEntry.devnum = address[newDev] /\ ~NewEntry.claimed
  BY <1>3 DEF NewEntry, Entry, TypeOK
<1>5. devices'[s] = NewEntry /\ \A t \in Slots \ {s} : devices'[t] = devices[t]
  BY <1>1 DEF TypeOK
<1>6. s \notin InUse /\ InUse' = InUse \cup {s}
  BY <1>1, <1>4, <1>5 DEF InUse, FreeSlots
<1>7. \A g \in Handles : SlotsOf(g)' = SlotsOf(g) \cup (IF g = newDev THEN {s} ELSE {})
  BY <1>4, <1>5, <1>6 DEF SlotsOf, InUse
<1>8. \A g \in Handles : Stuck(g)' <=> Stuck(g)
  <2> PICK n \in Handles : n = newDev  BY <1>3
  <2>1. ~Stuck(n) /\ ~Stuck(n)'  BY <1>2, <1>3 DEF Stuck
  <2>2. ASSUME NEW g \in Handles, g # newDev  PROVE Stuck(g)' <=> Stuck(g)
    <3>1. SlotsOf(g)' = SlotsOf(g)  BY <1>7, <2>2
    <3>2. \A t \in SlotsOf(g) : devices'[t] = devices[t]  BY <1>5, <1>6 DEF SlotsOf, InUse
    <3> QED  BY <1>2, <3>1, <3>2 DEF Stuck
  <2> QED  BY <2>1, <2>2 DEF Stuck
<1>9. HandlesAccounted'
  <2>1. opened = {g \in Handles : InTable(g) \/ g = newDev \/ Stuck(g)}
    BY DEF TableInv, HandlesAccounted
  <2>2. \A g \in Handles : InTable(g)' <=> (InTable(g) \/ g = newDev)  BY <1>7 DEF InTable
  <2>3. \A g \in Handles : g # newDev'  BY <1>2
  <2>4. StuckByFailure'
    BY <1>2, <1>8 DEF TableInv, HandlesAccounted, StuckByFailure
  <2> QED  BY <1>2, <1>8, <2>1, <2>2, <2>3, <2>4 DEF HandlesAccounted
<1>10. OneSlotPerDevice'
  <2>1. \A t \in InUse : devices[t].handle # newDev  BY <1>3 DEF InTable, SlotsOf
  <2>2. \A t \in InUse : devices[t].devnum # address[newDev]  BY <1>2 DEF Existing
  <2>3. \A t \in InUse : t # s /\ devices'[t] = devices[t]  BY <1>5, <1>6 DEF InUse
  <2> QED  BY <1>4, <1>5, <1>6, <2>1, <2>2, <2>3 DEF TableInv, OneSlotPerDevice
<1>11. ClaimedMeansAll'
  <2>1. \A t \in InUse : t # s /\ devices'[t] = devices[t]  BY <1>5, <1>6 DEF InUse
  <2> QED  BY <1>2, <1>4, <1>5, <1>6, <2>1 DEF TableInv, ClaimedMeansAll
<1>12. ExportFresh'  BY <1>2 DEF ExportFresh
<1> QED  BY <1>9, <1>10, <1>11, <1>12 DEF TableInv

\* close_slot_locked: only its own device is touched, which stays open
\* exactly if some claim on it could not be given up.
LEMMA CloseSlotEffect ==
  ASSUME TypeOK, NEW s \in InUse, CloseSlot(s)
  PROVE  /\ devices[s].handle \in Handles
         /\ opened' \subseteq Handles
         /\ \A g \in Handles : g # devices[s].handle => (g \in opened' <=> g \in opened)
         /\ \A g \in Handles, i \in Interfaces :
              g # devices[s].handle => (<<g, i>> \in claims' <=> <<g, i>> \in claims)
         /\ devices[s].handle \in opened =>
              (devices[s].handle \in opened' <=>
                 \E i \in Interfaces : <<devices[s].handle, i>> \in claims')
<1>1. devices[s].handle \in Handles  BY DEF TypeOK, InUse, Entry
<1>2. PICK F : claims' = Released(s, F) /\ HostClose(devices[s].handle, claims')
  BY DEF CloseSlot
<1>3. opened' = opened \/ opened' = opened \ {devices[s].handle}
  BY <1>2 DEF HostClose
<1>4. opened' \subseteq Handles  BY <1>3 DEF TypeOK
<1>5. \A g \in Handles, i \in Interfaces :
        g # devices[s].handle => (<<g, i>> \in claims' <=> <<g, i>> \in claims)
  BY <1>2 DEF Released
<1>6. \A g \in Handles : g # devices[s].handle => (g \in opened' <=> g \in opened)
  BY <1>3
<1>7. devices[s].handle \in opened =>
        (devices[s].handle \in opened' <=>
           \E i \in Interfaces : <<devices[s].handle, i>> \in claims')
  BY <1>2 DEF HostClose
<1> QED  BY <1>1, <1>4, <1>5, <1>6, <1>7

\* Once slot s is closed and freed its device is in no slot, and nothing
\* changes for any other device.
LEMMA FreedSlots ==
  ASSUME TypeOK, TableInv, NEW s \in InUse, CloseSlot(s), NEW h, h = devices[s].handle
  PROVE  /\ h \in Handles /\ h \in opened /\ h # newDev
         /\ SlotsOf(h) = {s}
         /\ \A g \in Handles : g # h => s \notin SlotsOf(g)
<1>1. h \in Handles  BY CloseSlotEffect
<1>2. s \in SlotsOf(h)  BY DEF SlotsOf
<1>3. \A t \in SlotsOf(h) : t = s  BY DEF TableInv, OneSlotPerDevice, SlotsOf
<1>4. InTable(h)  BY <1>2 DEF InTable
<1>5. h \in opened  BY <1>1, <1>4 DEF TableInv, HandlesAccounted
<1>6. h # newDev
  <2>1. bpc = "export" => ~InTable(newDev)  BY DEF TableInv, ExportFresh
  <2>2. bpc # "export" => newDev = NoHandle  BY DEF TableInv, ExportFresh
  <2> QED  BY <1>1, <1>4, <2>1, <2>2
<1> QED  BY <1>1, <1>2, <1>3, <1>5, <1>6 DEF SlotsOf

\* Only a release that failed leaves claims behind where there were none to
\* account for, and what failed stays on record while the device is open.
LEMMA CloseFaulted ==
  ASSUME TypeOK, TableInv, NEW s \in InUse, CloseSlot(s), NEW h, h = devices[s].handle
  PROVE  /\ (\E i \in Interfaces : <<h, i>> \in claims') => h \in faulted'
         /\ \A g \in Handles : g # h /\ Stuck(g) => g \in faulted'
<1>1. /\ h \in Handles /\ h \in opened /\ SlotsOf(h) = {s}  BY FreedSlots
<1>2. PICK F \in SUBSET Interfaces :
        /\ claims' = Released(s, F)
        /\ faulted' = opened' \cap (faulted \cup
             IF devices[s].claimed /\ F # {} THEN {devices[s].handle} ELSE {})
  BY DEF CloseSlot
<1>3. ASSUME NEW i \in Interfaces, <<h, i>> \in claims'  PROVE h \in faulted'
  <2>1. h \in opened'  BY <1>1, <1>3, CloseSlotEffect
  <2>2. CASE devices[s].claimed
    <3>1. i \in F  BY <1>2, <1>3, <2>2 DEF Released
    <3> QED  BY <1>2, <2>1, <2>2, <3>1
  <2>3. CASE ~devices[s].claimed
    <3>1. <<h, i>> \in claims  BY <1>2, <1>3, <2>3 DEF Released
    <3>2. Stuck(h)  BY <1>1, <2>3, <3>1 DEF Stuck
    <3>3. h \in faulted  BY <1>1, <3>2 DEF TableInv, HandlesAccounted, StuckByFailure
    <3> QED  BY <1>2, <2>1, <3>3
  <2> QED  BY <2>2, <2>3
<1>4. ASSUME NEW g \in Handles, g # h, Stuck(g)  PROVE g \in faulted'
  <2>1. g \in opened /\ g \in faulted
    BY <1>4 DEF TableInv, HandlesAccounted, StuckByFailure
  <2>2. g \in opened'  BY <1>4, <2>1, CloseSlotEffect
  <2> QED  BY <1>2, <2>1, <2>2
<1> QED  BY <1>3, <1>4

LEMMA RemoveGoneStep ==
  ASSUME TypeOK, TableInv, RemoveGone
  PROVE  TableInv'
<1>1. PICK s \in Slots :
        s \in InUse /\ CloseSlot(s) /\ devices' = [devices EXCEPT ![s] = Free]
  BY DEF RemoveGone, FirstOf, SlotsOf
<1>2. UNCHANGED <<newDev, bpc>> /\ bpc = "process"  BY DEF RemoveGone, Receive
<1> PICK h : h = devices[s].handle  OBVIOUS
<1>3. /\ h \in Handles /\ h \in opened /\ h # newDev
      /\ SlotsOf(h) = {s}
      /\ \A g \in Handles : g # h => s \notin SlotsOf(g)
  BY <1>1, FreedSlots
<1>4. devices'[s] = Free /\ \A t \in Slots \ {s} : devices'[t] = devices[t]
  BY <1>1 DEF TypeOK
<1>5. InUse' = InUse \ {s}  BY <1>4 DEF InUse
<1>6. \A g \in Handles : SlotsOf(g)' = IF g = h THEN {} ELSE SlotsOf(g)
  <2>1. \A t \in InUse' : t \in InUse /\ t # s /\ devices'[t] = devices[t]
    BY <1>4, <1>5 DEF InUse
  <2> QED  BY <1>3, <1>5, <2>1 DEF SlotsOf
<1>7. \A g \in Handles : g # h => (Stuck(g)' <=> Stuck(g))
  <2> TAKE g \in Handles
  <2> HAVE g # h
  <2>1. SlotsOf(g)' = SlotsOf(g) /\ s \notin SlotsOf(g)  BY <1>3, <1>6
  <2>2. \A t \in SlotsOf(g) : devices'[t] = devices[t]  BY <1>4, <2>1 DEF SlotsOf, InUse
  <2>3. \A i \in Interfaces : <<g, i>> \in claims' <=> <<g, i>> \in claims
    BY <1>1, CloseSlotEffect
  <2> QED  BY <2>1, <2>2, <2>3 DEF Stuck
<1>8. Stuck(h)' <=> h \in opened'
  <2>1. SlotsOf(h)' = {}  BY <1>3, <1>6
  <2>2. h \in opened' <=> \E i \in Interfaces : <<h, i>> \in claims'
    BY <1>1, <1>3, CloseSlotEffect
  <2> QED  BY <2>1, <2>2 DEF Stuck
<1>9. HandlesAccounted'
  <2>1. opened = {g \in Handles : InTable(g) \/ g = newDev \/ Stuck(g)}
    BY DEF TableInv, HandlesAccounted
  <2>2. opened' \subseteq Handles
        /\ \A g \in Handles : g # h => (g \in opened' <=> g \in opened)
    BY <1>1, CloseSlotEffect
  <2>3. \A g \in Handles : InTable(g)' <=> (g # h /\ InTable(g))  BY <1>6 DEF InTable
  <2>4. StuckByFailure'
    <3>1. Stuck(h)' => h \in faulted'  BY <1>1, CloseFaulted DEF Stuck
    <3>2. \A g \in Handles : g # h /\ Stuck(g)' => g \in faulted'
      BY <1>1, <1>7, CloseFaulted
    <3> QED  BY <3>1, <3>2 DEF StuckByFailure
  <2> QED  BY <1>2, <1>3, <1>7, <1>8, <2>1, <2>2, <2>3, <2>4 DEF HandlesAccounted
<1>10. OneSlotPerDevice' /\ ClaimedMeansAll'
  <2>1. \A t \in InUse' : t \in InUse /\ devices'[t] = devices[t]
    BY <1>4, <1>5 DEF InUse
  <2>2. OneSlotPerDevice'  BY <2>1 DEF TableInv, OneSlotPerDevice
  <2>3. \A t \in InUse' : devices[t].handle \in Handles /\ devices[t].handle # h
    BY <1>3, <1>5 DEF TypeOK, InUse, Entry, SlotsOf
  <2>4. \A t \in InUse', i \in Interfaces :
          <<devices[t].handle, i>> \in claims' <=> <<devices[t].handle, i>> \in claims
    BY <1>1, <2>3, CloseSlotEffect
  <2> QED  BY <2>1, <2>2, <2>4 DEF TableInv, ClaimedMeansAll
<1>11. ExportFresh'  BY <1>2 DEF TableInv, ExportFresh
<1> QED  BY <1>9, <1>10, <1>11 DEF TableInv

\* The replacement of an entry by a new device with its devnum.
LEMMA ExportOverStep ==
  ASSUME TypeOK, TableInv, ExportOver
  PROVE  TableInv'
<1>1. PICK s \in Slots, t \in Slots :
        /\ s \in Existing
        /\ t \in FreeSlots \cup {s}
        /\ CloseSlot(s)
        /\ devices' = [devices EXCEPT ![s] = Free, ![t] = NewEntry]
  BY DEF ExportOver, FirstOf
<1>2. bpc = "export" /\ bpc' = "process" /\ newDev' = NoHandle
  BY DEF ExportOver, Goto
<1> PICK n \in Handles : n = newDev  BY <1>2 DEF TypeOK, TableInv, ExportFresh
<1> PICK h : h = devices[s].handle  OBVIOUS
<1>3. ~InTable(n) /\ \A i \in Interfaces : <<n, i>> \notin claims
  BY <1>2 DEF TableInv, ExportFresh
<1>4. /\ NewEntry \in Entry /\ NewEntry.handle = n
      /\ NewEntry.devnum = address[n] /\ ~NewEntry.claimed
  BY DEF NewEntry, Entry, TypeOK
<1>5. s \in InUse /\ devices[s].devnum = address[n]  BY <1>1 DEF Existing
<1>6. /\ h \in Handles /\ h \in opened /\ h # n
      /\ SlotsOf(h) = {s}
      /\ \A g \in Handles : g # h => s \notin SlotsOf(g)
  BY <1>1, <1>5, FreedSlots
<1>7. /\ devices'[t] = NewEntry
      /\ s # t => devices'[s] = Free
      /\ \A u \in Slots \ {s, t} : devices'[u] = devices[u]
  BY <1>1 DEF TypeOK
<1>8. InUse' = (InUse \ {s}) \cup {t} /\ t \notin InUse \ {s}
  BY <1>1, <1>4, <1>7 DEF InUse, FreeSlots
<1>9. \A u \in InUse \ {s} : u # t /\ devices'[u] = devices[u]
  BY <1>7, <1>8 DEF InUse
<1>10. \A g \in Handles :
         /\ g # h /\ g # n => SlotsOf(g)' = SlotsOf(g)
         /\ SlotsOf(n)' = {t}
         /\ SlotsOf(h)' = {}
  <2>1. SlotsOf(n) = {}  BY <1>3 DEF InTable
  <2>2. \A g \in Handles : \A u \in InUse \ {s} :
          devices'[u].handle = g <=> u \in SlotsOf(g)
    BY <1>9 DEF SlotsOf
  <2>3. \A g \in Handles : \A u : u \in SlotsOf(g)' <=>
          \/ u \in InUse \ {s} /\ u \in SlotsOf(g)
          \/ u = t /\ g = n
    BY <1>4, <1>7, <1>8, <2>2 DEF SlotsOf
  <2>4. \A g \in Handles : \A u \in SlotsOf(g) : u \in InUse  BY DEF SlotsOf
  <2> QED  BY <1>6, <2>1, <2>3, <2>4
<1>11. \A g \in Handles : g # h /\ g # n => (Stuck(g)' <=> Stuck(g))
  <2> TAKE g \in Handles
  <2> HAVE g # h /\ g # n
  <2>1. SlotsOf(g)' = SlotsOf(g) /\ s \notin SlotsOf(g)  BY <1>6, <1>10
  <2>2. \A u \in SlotsOf(g) : devices'[u] = devices[u]  BY <1>9, <2>1 DEF SlotsOf
  <2>3. \A i \in Interfaces : <<g, i>> \in claims' <=> <<g, i>> \in claims
    BY <1>1, <1>5, CloseSlotEffect
  <2> QED  BY <2>1, <2>2, <2>3 DEF Stuck
<1>12. Stuck(h)' <=> h \in opened'
  <2>1. SlotsOf(h)' = {}  BY <1>6, <1>10
  <2>2. h \in opened' <=> \E i \in Interfaces : <<h, i>> \in claims'
    BY <1>1, <1>5, <1>6, CloseSlotEffect
  <2> QED  BY <2>1, <2>2 DEF Stuck
<1>13. HandlesAccounted'
  <2>1. opened = {g \in Handles : InTable(g) \/ g = n \/ Stuck(g)}
    BY DEF TableInv, HandlesAccounted
  <2>2. opened' \subseteq Handles
        /\ \A g \in Handles : g # h => (g \in opened' <=> g \in opened)
    BY <1>1, <1>5, CloseSlotEffect
  <2>3. /\ InTable(n)' /\ ~InTable(h)'
        /\ \A g \in Handles : g # h /\ g # n => (InTable(g)' <=> InTable(g))
    BY <1>6, <1>10 DEF InTable
  <2>4. \A g \in Handles : g \in opened' <=> (InTable(g)' \/ Stuck(g)')
    BY <1>6, <1>11, <1>12, <2>1, <2>2, <2>3
  <2>5. \A g \in Handles : g # newDev'  BY <1>2
  <2>6. StuckByFailure'
    <3>1. Stuck(h)' => h \in faulted'  BY <1>1, <1>5, CloseFaulted DEF Stuck
    <3>2. ~Stuck(n)'
      <4>1. ~ \E i \in Interfaces : <<n, i>> \in claims'
        BY <1>1, <1>3, <1>5, <1>6, CloseSlotEffect
      <4> QED  BY <4>1 DEF Stuck
    <3>3. \A g \in Handles : g # h /\ g # n /\ Stuck(g)' => g \in faulted'
      BY <1>1, <1>5, <1>11, CloseFaulted
    <3> QED  BY <3>1, <3>2, <3>3 DEF StuckByFailure
  <2> QED  BY <2>2, <2>4, <2>5, <2>6 DEF HandlesAccounted
<1>14. OneSlotPerDevice'
  <2>1. \A u \in InUse \ {s} : devices[u].handle # n  BY <1>3 DEF InTable, SlotsOf
  <2>2. \A u \in InUse \ {s} : devices[u].devnum # address[n]
    BY <1>5 DEF TableInv, OneSlotPerDevice
  <2> QED  BY <1>4, <1>7, <1>8, <1>9, <2>1, <2>2 DEF TableInv, OneSlotPerDevice
<1>15. ClaimedMeansAll'
  <2>1. \A u \in InUse \ {s} : devices[u].handle \in Handles /\ devices[u].handle # h
    BY <1>6 DEF TypeOK, InUse, Entry, SlotsOf
  <2>2. \A u \in InUse \ {s}, i \in Interfaces :
          <<devices[u].handle, i>> \in claims' <=> <<devices[u].handle, i>> \in claims
    BY <1>1, <1>5, <2>1, CloseSlotEffect
  <2> QED  BY <1>4, <1>7, <1>8, <1>9, <2>2 DEF TableInv, ClaimedMeansAll
<1>16. ExportFresh'  BY <1>2 DEF ExportFresh
<1> QED  BY <1>13, <1>14, <1>15, <1>16 DEF TableInv

\* Claims of the interfaces below n, whether or not they are all.
LEMMA ClaimableStep ==
  ASSUME TypeOK, TableInv, NEW s \in Slots, NEW n \in 0 .. NumInterfaces, Claimable(s, n),
         \/ UNCHANGED devices /\ faulted' = faulted \cup {devices[s].handle}
         \/ /\ n = NumInterfaces /\ devices' = [devices EXCEPT ![s].claimed = TRUE]
            /\ UNCHANGED faulted
  PROVE  TableInv'
<1>1. s \in InUse /\ bpc = "submit" /\ UNCHANGED <<opened, newDev, bpc>> /\ ~devices[s].claimed
  BY DEF Claimable
<1> PICK h : h = devices[s].handle  OBVIOUS
<1>2. h \in Handles /\ s \in SlotsOf(h)  BY <1>1 DEF TypeOK, InUse, Entry, SlotsOf
<1>3. newDev = NoHandle  BY <1>1 DEF TableInv, ExportFresh
<1>4. /\ devices' \in [Slots -> Entry \cup {Free}]
      /\ InUse' = InUse
      /\ \A u \in InUse : /\ devices'[u].handle = devices[u].handle
                          /\ devices'[u].devnum = devices[u].devnum
      /\ \A u \in InUse : u # s => devices'[u] = devices[u]
      /\ devices'[s].claimed => n = NumInterfaces
  <2>1. devices[s] \in Entry  BY <1>1 DEF TypeOK, InUse
  <2>2. CASE UNCHANGED devices  BY <1>1, <2>2 DEF TypeOK, InUse
  <2>3. CASE n = NumInterfaces /\ devices' = [devices EXCEPT ![s].claimed = TRUE]
    <3>1. devices'[s] = [devices[s] EXCEPT !.claimed = TRUE]  BY <2>3 DEF TypeOK
    <3>2. /\ devices'[s] \in Entry
          /\ devices'[s].handle = devices[s].handle
          /\ devices'[s].devnum = devices[s].devnum
      BY <2>1, <3>1 DEF Entry
    <3>3. \A u \in Slots \ {s} : devices'[u] = devices[u]  BY <2>3 DEF TypeOK
    <3> QED  BY <1>1, <2>3, <3>2, <3>3 DEF TypeOK, InUse
  <2> QED  BY <2>2, <2>3
<1>5. \A g \in Handles : SlotsOf(g)' = SlotsOf(g)  BY <1>4 DEF SlotsOf
<1>6. /\ claims \subseteq claims'
      /\ \A i \in 0 .. n - 1 : <<h, i>> \in claims'
      /\ \A g \in Handles, i \in Interfaces :
           g # h => (<<g, i>> \in claims' <=> <<g, i>> \in claims)
  BY DEF Claimable
<1>7. \A g \in Handles : g # h => (Stuck(g)' <=> Stuck(g))
  <2> TAKE g \in Handles
  <2> HAVE g # h
  <2>1. \A u \in SlotsOf(g) : u # s /\ devices'[u] = devices[u]  BY <1>4 DEF SlotsOf
  <2> QED  BY <1>5, <1>6, <2>1 DEF Stuck
<1>8. HandlesAccounted'
  <2>1. opened = {g \in Handles : InTable(g) \/ g = newDev \/ Stuck(g)}
    BY DEF TableInv, HandlesAccounted
  <2>2. \A g \in Handles : InTable(g)' <=> InTable(g)  BY <1>5 DEF InTable
  <2>3. InTable(h)  BY <1>2 DEF InTable
  <2>4. \A g \in Handles : g # h /\ Stuck(g)' => g \in faulted'
    BY <1>7 DEF TableInv, HandlesAccounted, StuckByFailure
  <2>5. Stuck(h)' => h \in faulted'
    <3>1. CASE UNCHANGED devices /\ faulted' = faulted \cup {h}  BY <3>1
    <3>2. CASE devices' = [devices EXCEPT ![s].claimed = TRUE]
      <4>1. devices[s] \in Entry /\ devices'[s].claimed  BY <1>1, <3>2 DEF TypeOK, InUse, Entry
      <4> QED  BY <1>2, <1>5, <4>1 DEF Stuck
    <3> QED  BY <3>1, <3>2
  <2> QED  BY <1>1, <1>2, <1>7, <2>1, <2>2, <2>3, <2>4, <2>5
           DEF HandlesAccounted, StuckByFailure
<1>9. OneSlotPerDevice'  BY <1>4 DEF TableInv, OneSlotPerDevice
<1>10. ClaimedMeansAll'
  <2>1. ASSUME NEW u \in InUse, devices'[u].claimed, NEW i \in Interfaces
        PROVE  <<devices[u].handle, i>> \in claims'
    <3>1. CASE u # s
      BY <1>4, <1>6, <2>1, <3>1 DEF TableInv, ClaimedMeansAll
    <3>2. CASE u = s
      BY <1>4, <1>6, <2>1, <3>2 DEF Interfaces
    <3> QED  BY <3>1, <3>2
  <2> QED  BY <1>4, <2>1 DEF ClaimedMeansAll
<1>11. ExportFresh'  BY <1>1, <1>3 DEF ExportFresh
<1> QED  BY <1>8, <1>9, <1>10, <1>11 DEF TableInv

LEMMA TableStep ==
  ASSUME TypeOK, TableInv, [Next]_vars
  PROVE  TableInv'
<1> USE DEF libVars, busVars, queueVars, Goto, Receive
<1>1. CASE Bus
  <2>1. UNCHANGED <<opened, claims, devices, newDev, bpc, faulted>>
    BY <1>1 DEF Bus, Attach, Detach
  <2> QED  BY <2>1, TableUnchanged
<1>2. CASE EventCb       BY <1>2, TableUnchanged DEF EventCb
<1>3. CASE BeginProcess  BY <1>3, TableUnchanged DEF BeginProcess
<1>4. CASE Open          BY <1>4, OpenStep
<1>5. CASE OpenFails     BY <1>5, TableUnchanged DEF OpenFails
<1>6. CASE Reject        BY <1>6, CloseNewDev DEF Reject
<1>7. CASE Export        BY <1>7, ExportStep
<1>8. CASE ExportOver    BY <1>8, ExportOverStep
<1>9. CASE ExportFull    BY <1>9, CloseNewDev DEF ExportFull
<1>10. CASE RemoveGone   BY <1>10, RemoveGoneStep
<1>11. CASE IgnoreGone   BY <1>11, TableUnchanged DEF IgnoreGone
<1>12. CASE EndProcess   BY <1>12, TableUnchanged DEF EndProcess
<1>13. CASE EndPass      BY <1>13, TableUnchanged DEF EndPass
<1>14. CASE Claims
  <2>1. ASSUME NEW s \in Slots, Claim(s)  PROVE TableInv'
    <3>1. NumInterfaces \in 0 .. NumInterfaces  OBVIOUS
    <3> QED  BY <2>1, <3>1, ClaimableStep DEF Claim
  <2>2. ASSUME NEW s \in Slots, NEW n \in Interfaces, ClaimFails(s, n)  PROVE TableInv'
    <3>1. n \in 0 .. NumInterfaces  BY DEF Interfaces
    <3> QED  BY <2>2, <3>1, ClaimableStep DEF ClaimFails
  <2> QED  BY <1>14, <2>1, <2>2 DEF Claims
<1>15. CASE UNCHANGED vars  BY <1>15, TableUnchanged DEF vars
<1> QED  BY <1>1, <1>2, <1>3, <1>4, <1>5, <1>6, <1>7, <1>8, <1>9, <1>10, <1>11,
            <1>12, <1>13, <1>14, <1>15
         DEF Next, Backend

LEMMA TableInit == Init => TableInv
<1> SUFFICES ASSUME Init  PROVE TableInv
  OBVIOUS
<1>1. InUse = {}  BY DEF Init, InUse
<1>2. \A h \in Handles : ~InTable(h) /\ ~Stuck(h) /\ h # newDev
  BY <1>1 DEF Init, InTable, Stuck, SlotsOf
<1> QED  BY <1>1, <1>2 DEF Init, TableInv, HandlesAccounted, StuckByFailure,
                           OneSlotPerDevice, ClaimedMeansAll, ExportFresh

(***************************************************************************)
(* The theorems.                                                           *)
(***************************************************************************)

LEMMA InvIsTableInv == IInv <=> TypeOK /\ TableInv
  BY DEF IInv, TableInv

\* IInv holds in every state of every behaviour of the device table.
THEOREM RegistryInvariance == Spec => []IInv
<1>1. Init => IInv  BY InitType, TableInit, InvIsTableInv
<1>2. IInv /\ [Next]_vars => IInv'
  <2> SUFFICES ASSUME IInv, [Next]_vars  PROVE IInv'
    OBVIOUS
  <2>1. TypeOK /\ TableInv  BY InvIsTableInv
  <2>2. bpc = "export" => newDev # NoHandle  BY <2>1 DEF TableInv, ExportFresh
  <2>3. TypeOK' /\ TableInv'  BY <2>1, <2>2, TypeStep, TableStep
  <2> QED  BY <2>3 DEF IInv, TableInv
<1> QED  BY <1>1, <1>2, PTL DEF Spec

\* Every state is well typed.
THEOREM RegistryTypeCorrect == Spec => []TypeOK
<1>1. IInv => TypeOK  BY DEF IInv
<1> QED  BY <1>1, RegistryInvariance, PTL

\* A handle is open exactly as long as the device is in the table, is being
\* exported, or is held by interfaces whose claim or release the library
\* failed: none is leaked otherwise and none is closed twice.
THEOREM HandlesClosed == Spec => []HandlesAccounted
<1>1. IInv => HandlesAccounted  BY DEF IInv
<1> QED  BY <1>1, RegistryInvariance, PTL

\* A busid and a handle name at most one slot.
THEOREM LookupsUnambiguous == Spec => []OneSlotPerDevice
<1>1. IInv => OneSlotPerDevice  BY DEF IInv
<1> QED  BY <1>1, RegistryInvariance, PTL

\* interfaces_claimed is true of the library's state, and a device about to
\* be exported is new.
THEOREM ClaimsHold == Spec => [](ClaimedMeansAll /\ ExportFresh)
<1>1. IInv => ClaimedMeansAll /\ ExportFresh  BY DEF IInv
<1> QED  BY <1>1, RegistryInvariance, PTL
(***************************************************************************)
(* The refinement: the table is a BusTable.                                *)
(***************************************************************************)

\* An entry shows through the mapping as the device and address it names.
LEMMA ShownEntries ==
  ASSUME TypeOK
  PROVE  /\ Table!Listed = InUse
         /\ \A a : Table!At(a) = {s \in InUse : devices[s].devnum = a}
         /\ \A h : Table!ListedAs(h) = SlotsOf(h)
<1>1. \A s \in Slots : devices[s] # Free =>
        /\ Listings[s] = [handle |-> devices[s].handle, devnum |-> devices[s].devnum]
        /\ Listings[s] # Free
  BY DEF TypeOK, Listings, Entry
<1>2. \A s \in Slots : devices[s] = Free => Listings[s] = Free
  BY DEF Listings
<1>3. Table!Listed = InUse  BY <1>1, <1>2 DEF Table!Listed, InUse
<1>4. \A s \in InUse : Listings[s].devnum = devices[s].devnum
                      /\ Listings[s].handle = devices[s].handle
  <2> SUFFICES ASSUME NEW s \in InUse
               PROVE  /\ Listings[s].devnum = devices[s].devnum
                      /\ Listings[s].handle = devices[s].handle
    OBVIOUS
  <2>1. s \in Slots /\ devices[s] # Free  BY DEF InUse
  <2>2. Listings[s] = [handle |-> devices[s].handle, devnum |-> devices[s].devnum]
    BY <1>1, <2>1
  <2> QED  BY ONLY <2>2
<1> QED  BY <1>3, <1>4 DEF Table!At, Table!ListedAs, SlotsOf

LEMMA ShownFree ==
  ASSUME NEW s \in Slots
  PROVE  devices[s] = Free => Listings[s] = Free
  BY DEF Listings

\* A step that leaves handle and devnum of every entry alone does not show.
LEMMA NothingShown ==
  ASSUME UNCHANGED devices
  PROVE  UNCHANGED Listings
  BY DEF Listings

LEMMA ExportShown ==
  ASSUME TypeOK, TableInv, Export
  PROVE  \E s \in Slots, h \in Handles, a \in Addresses : Table!Enter(s, h, a)
<1>1. PICK s \in Slots : FirstOf(FreeSlots, s) /\ devices' = [devices EXCEPT ![s] = NewEntry]
  BY DEF Export
<1>2. newDev \in Handles /\ ~InTable(newDev)
  BY DEF Export, Goto, TableInv, ExportFresh, TypeOK
<1>3. address[newDev] \in Addresses  BY <1>2 DEF TypeOK
<1>4. devices[s] = Free  BY <1>1 DEF FirstOf, FreeSlots, InUse
<1>5. Table!At(address[newDev]) = {}  BY ShownEntries DEF Export, Existing
<1>6. Table!ListedAs(newDev) = {}  BY <1>2, ShownEntries DEF InTable
<1>7. NewEntry \in Entry /\ NewEntry.handle = newDev /\ NewEntry.devnum = address[newDev]
  BY <1>2, <1>3 DEF NewEntry, Entry
<1>8. devices' \in [Slots -> Entry \cup {Free}] /\ devices \in [Slots -> Entry \cup {Free}]
  BY <1>1, <1>7 DEF TypeOK
<1>9. Listings' = [Listings EXCEPT ![s] = Table!List(newDev, address[newDev])]
  BY <1>1, <1>7, <1>8 DEF Listings, Table!List
<1>10. Listings[s] = Free  BY <1>4, ShownFree
<1>11. Table!Enter(s, newDev, address[newDev])
  BY <1>5, <1>6, <1>9, <1>10 DEF Table!Enter
<1> QED  BY <1>2, <1>3, <1>11

LEMMA ExportOverShown ==
  ASSUME TypeOK, TableInv, ExportOver
  PROVE  \E s, t \in Slots, h \in Handles, a \in Addresses : Table!Replace(s, t, h, a)
<1>1. PICK s \in Slots, t \in Slots :
        /\ FirstOf(Existing, s)
        /\ FirstOf(FreeSlots \cup {s}, t)
        /\ devices' = [devices EXCEPT ![s] = Free, ![t] = NewEntry]
  BY DEF ExportOver
<1>2. newDev \in Handles /\ ~InTable(newDev)
  BY DEF ExportOver, Goto, TableInv, ExportFresh, TypeOK
<1>3. address[newDev] \in Addresses  BY <1>2 DEF TypeOK
<1>4. t = s \/ devices[t] = Free  BY <1>1 DEF FirstOf, FreeSlots, InUse
<1>5. s \in Table!At(address[newDev])  BY <1>1, ShownEntries DEF FirstOf, Existing
<1>6. Table!ListedAs(newDev) = {}  BY <1>2, ShownEntries DEF InTable
<1>7. NewEntry \in Entry /\ NewEntry.handle = newDev /\ NewEntry.devnum = address[newDev]
  BY <1>2, <1>3 DEF NewEntry, Entry
<1>8. devices' \in [Slots -> Entry \cup {Free}] /\ devices \in [Slots -> Entry \cup {Free}]
  BY <1>1, <1>7 DEF TypeOK
<1>9. Listings' = [Listings EXCEPT ![s] = Free, ![t] = Table!List(newDev, address[newDev])]
  BY <1>1, <1>7, <1>8 DEF Listings, Table!List
<1>10. t = s \/ Listings[t] = Free  BY <1>4, ShownFree
<1>11. Table!Replace(s, t, newDev, address[newDev])
  BY <1>5, <1>6, <1>9, <1>10 DEF Table!Replace
<1> QED  BY <1>2, <1>3, <1>11

LEMMA RemoveShown ==
  ASSUME TypeOK, RemoveGone
  PROVE  \E s \in Slots : Table!Remove(s)
<1>1. PICK s \in Slots : s \in InUse /\ devices' = [devices EXCEPT ![s] = Free]
  BY DEF RemoveGone, FirstOf, SlotsOf
<1>2. s \in Table!Listed  BY <1>1, ShownEntries
<1>3. Listings' = [Listings EXCEPT ![s] = Free]  BY <1>1 DEF Listings, TypeOK
<1> QED  BY <1>2, <1>3 DEF Table!Remove

LEMMA ClaimShown ==
  ASSUME TypeOK, NEW s \in Slots, Claim(s)
  PROVE  UNCHANGED Listings
<1>1. devices[s] \in Entry /\ devices' = [devices EXCEPT ![s].claimed = TRUE]
  BY DEF Claim, Claimable, InUse, TypeOK
<1>2. devices'[s] \in Entry /\ devices'[s].handle = devices[s].handle
      /\ devices'[s].devnum = devices[s].devnum
  BY <1>1 DEF TypeOK, Entry
<1>3. \A t \in Slots \ {s} : devices'[t] = devices[t]  BY <1>1 DEF TypeOK
<1>4. \A t \in Slots :
        (IF devices'[t] = Free THEN Free
         ELSE [handle |-> devices'[t].handle, devnum |-> devices'[t].devnum])
        = (IF devices[t] = Free THEN Free
           ELSE [handle |-> devices[t].handle, devnum |-> devices[t].devnum])
  BY <1>1, <1>2, <1>3
<1> QED  BY <1>4 DEF Listings

\* What the queues, the claims and the library's objects do below it, the
\* table keeps the promises of BusTable.
THEOREM TableRefinement == Spec => TableSpec
<1>1. Init => Table!TableInit  BY DEF Init, Table!TableInit, Listings
<1>2. IInv /\ [Next]_vars => [Table!TableNext]_Listings
  <2> SUFFICES ASSUME IInv, [Next]_vars  PROVE [Table!TableNext]_Listings
    OBVIOUS
  <2>1. TypeOK /\ TableInv  BY InvIsTableInv
  <2>2. CASE Export  BY <2>1, <2>2, ExportShown DEF Table!TableNext
  <2>3. CASE ExportOver  BY <2>1, <2>3, ExportOverShown DEF Table!TableNext
  <2>4. CASE RemoveGone  BY <2>1, <2>4, RemoveShown DEF Table!TableNext
  <2>5. CASE \E s \in Slots : Claim(s)  BY <2>1, <2>5, ClaimShown
  <2>6. CASE \/ Bus
             \/ EventCb \/ BeginProcess \/ Open \/ OpenFails \/ Reject \/ ExportFull
             \/ IgnoreGone \/ EndProcess \/ EndPass
             \/ \E s \in Slots, n \in Interfaces : ClaimFails(s, n)
             \/ UNCHANGED vars
    <3>1. UNCHANGED devices
      BY <2>6 DEF Bus, Attach, Detach, EventCb, BeginProcess, Open, OpenFails, Reject,
                  ExportFull, IgnoreGone, EndProcess, EndPass, ClaimFails, vars
    <3> QED  BY <3>1, NothingShown
  <2> QED  BY <2>2, <2>3, <2>4, <2>5, <2>6 DEF Next, Backend, Claims
<1> QED  BY <1>1, <1>2, RegistryInvariance, PTL DEF Spec, TableSpec, Table!TableSpec
=============================================================================
