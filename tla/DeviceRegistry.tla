--------------------------- MODULE DeviceRegistry ---------------------------
(***************************************************************************)
(* The device table of usb_backend.c: attach and detach notifications of   *)
(* the USB host library pass through two queues to the backend task, which *)
(* opens, exports, claims, releases and closes devices.  The library's     *)
(* daemon task and the bus run at any time.                                *)
(*                                                                         *)
(* A handle stands for a device object of the library.  An object whose    *)
(* device is gone is freed when the client has closed it, and its memory,  *)
(* hence its handle, may then serve another device.                        *)
(***************************************************************************)
EXTENDS Integers, Sequences, FiniteSets

CONSTANTS
    Handles,        \* device objects of the USB host library
    Hubs,           \* those that stand for hubs
    Addresses,      \* USB addresses, which are also devnum and busid
    MaxDevices,     \* CONFIG_USBIP_MAX_DEVICES
    QueueLen,       \* USB_BACKEND_EVENT_QUEUE_LEN
    NumInterfaces,  \* interface descriptors of a device
    ReuseHandles,   \* an object may be reused while its detach is pending
    NoHandle,       \* NULL
    Free            \* an entry of devices[] that is not in_use

Slots == 0 .. MaxDevices - 1
Interfaces == 0 .. NumInterfaces - 1
Entry == [handle : Handles, devnum : Addresses, claimed : BOOLEAN]

ASSUME RegistryAssumption ==
    /\ Hubs \subseteq Handles
    /\ NoHandle \notin Handles
    /\ Free \notin Entry \cup [handle : Handles, devnum : Addresses]
    /\ MaxDevices \in Nat \ {0}
    /\ QueueLen \in Nat \ {0}
    /\ NumInterfaces \in Nat
    /\ ReuseHandles \in BOOLEAN

VARIABLES
    status,     \* "none", "attached" or "gone", of each device object
    address,    \* the address of each device object
    opened,     \* objects this client has open
    claims,     \* <<handle, interface>> claimed by this client
    messages,   \* the library's messages to this client
    events,     \* event_queue
    devices,    \* devices[], Free or an entry
    newDev,     \* dev_hdl of export_new_device, else NoHandle
    bpc,        \* where the backend task is
    refused,    \* history: attached devices turned away for want of a slot
    faulted,    \* history: open objects a claim or a release of which failed
    overflow    \* history: a message or an event was dropped

busVars == <<status, address>>
libVars == <<opened, claims, faulted>>
queueVars == <<messages, events, overflow>>
vars == <<status, address, opened, claims, messages, events, devices,
          newDev, bpc, refused, faulted, overflow>>

New(a) == [type |-> "new", address |-> a]
Gone(h) == [type |-> "gone", handle |-> h]
Event == {New(a) : a \in Addresses} \cup {Gone(h) : h \in Handles}
InUse == {s \in Slots : devices[s] # Free}
SlotsOf(h) == {s \in InUse : devices[s].handle = h}

Init ==
    /\ status = [h \in Handles |-> "none"]
    /\ address \in [Handles -> Addresses]
    /\ opened = {}
    /\ claims = {}
    /\ messages = <<>>
    /\ events = <<>>
    /\ devices = [s \in Slots |-> Free]
    /\ newDev = NoHandle
    /\ bpc = "pump"
    /\ refused = {}
    /\ faulted = {}
    /\ overflow = FALSE

-----------------------------------------------------------------------------
(* The bus and the library's daemon task.                                  *)

Post(m) ==
    IF Len(messages) < QueueLen
    THEN messages' = Append(messages, m) /\ UNCHANGED overflow
    ELSE overflow' = TRUE /\ UNCHANGED messages

Pending == {messages[i] : i \in DOMAIN messages} \cup {events[i] : i \in DOMAIN events}

\* A device is enumerated at an address no attached device has.
Attach(h, a) ==
    /\ status[h] = "none"
    /\ ReuseHandles \/ Gone(h) \notin Pending
    /\ \A g \in Handles : status[g] = "attached" => address[g] # a
    /\ status' = [status EXCEPT ![h] = "attached"]
    /\ address' = [address EXCEPT ![h] = a]
    /\ Post(New(a))
    /\ UNCHANGED <<libVars, events, devices, newDev, bpc, refused>>

\* A device leaves; only a client that has it open is told.
Detach(h) ==
    /\ status[h] = "attached"
    /\ refused' = refused \ {h}
    /\ \/ /\ h \in opened
          /\ status' = [status EXCEPT ![h] = "gone"]
          /\ Post(Gone(h))
       \/ /\ h \notin opened
          /\ status' = [status EXCEPT ![h] = "none"]
          /\ UNCHANGED <<messages, overflow>>
    /\ UNCHANGED <<address, libVars, events, devices, newDev, bpc>>

-----------------------------------------------------------------------------
(* The backend task.                                                       *)

Room == Len(events) < QueueLen

\* usb_client_event_cb, from usb_host_client_handle_events: the event is
\* dropped when the queue is full.
EventCb ==
    /\ bpc = "pump"
    /\ messages # <<>>
    /\ messages' = Tail(messages)
    /\ IF Room
       THEN events' = Append(events, Head(messages)) /\ UNCHANGED overflow
       ELSE overflow' = TRUE /\ UNCHANGED events
    /\ UNCHANGED <<busVars, libVars, devices, newDev, bpc, refused>>

Goto(here, there) == bpc = here /\ bpc' = there

BeginProcess ==
    /\ Goto("pump", "process")
    /\ UNCHANGED <<busVars, libVars, queueVars, devices, newDev, refused>>

\* usb_host_device_close of h, given the claims C that are left: the
\* library refuses while an interface is claimed.
HostClose(h, C) ==
    IF \E i \in Interfaces : <<h, i>> \in C
    THEN UNCHANGED <<opened, status>>
    ELSE /\ opened' = opened \ {h}
         /\ status' = IF status[h] = "gone" THEN [status EXCEPT ![h] = "none"]
                      ELSE status

\* release_interfaces_locked: what is left of the claims once slot s is
\* released; the release of an interface in F fails, which is logged only.
Released(s, F) ==
    IF devices[s].claimed
    THEN {c \in claims : c[1] # devices[s].handle \/ c[2] \in F}
    ELSE claims

\* Mutant: the release of one interface of several is forgotten.
CloseSlotShort(s) ==
    /\ claims' = Released(s, {0})
    /\ HostClose(devices[s].handle, claims')
    /\ faulted' = faulted \cap opened'

\* close_slot_locked; whoever calls it clears the slot, closed or not.
CloseSlot(s) ==
    \E F \in SUBSET Interfaces :
        /\ claims' = Released(s, F)
        /\ HostClose(devices[s].handle, claims')
        /\ faulted' = opened' \cap (faulted \cup
             IF devices[s].claimed /\ F # {} THEN {devices[s].handle} ELSE {})

Receive(type) ==
    /\ bpc = "process"
    /\ events # <<>>
    /\ Head(events).type = type
    /\ events' = Tail(events)

\* export_new_device opens the device that has the address now.
Open ==
    /\ Receive("new")
    /\ \E h \in Handles \ opened :
         /\ status[h] = "attached"
         /\ address[h] = Head(events).address
         /\ opened' = opened \cup {h}
         /\ newDev' = h
    /\ bpc' = "export"
    /\ UNCHANGED <<busVars, claims, faulted, messages, overflow, devices, refused>>

\* No device has the address any more, or it is open already.
OpenFails ==
    /\ Receive("new")
    /\ ~ \E h \in Handles \ opened :
           status[h] = "attached" /\ address[h] = Head(events).address
    /\ UNCHANGED <<busVars, libVars, messages, overflow, devices, newDev, bpc, refused>>

\* Mutant: a hub is left open.
RejectUnclosed ==
    /\ Goto("export", "process")
    /\ newDev \in Hubs \/ status[newDev] = "gone"
    /\ newDev' = NoHandle
    /\ UNCHANGED <<busVars, libVars, queueVars, devices, refused>>

\* A hub is left to the library; a device that is gone may fail to answer.
Reject ==
    /\ Goto("export", "process")
    /\ newDev \in Hubs \/ status[newDev] = "gone"
    /\ HostClose(newDev, claims)
    /\ newDev' = NoHandle
    /\ UNCHANGED <<address, claims, faulted, queueVars, devices, refused>>

\* Mutant: any entry counts as the earlier one.
ExistingAny == InUse
Existing == {s \in InUse : devices[s].devnum = address[newDev]}
\* Mutant: in_use is not looked at.
FreeSlotsAny == Slots
FreeSlots == Slots \ InUse
FirstOf(S, s) == s \in S /\ \A t \in S : s <= t
NewEntry == [handle |-> newDev, devnum |-> address[newDev], claimed |-> FALSE]

\* The device goes into the first free slot.
Export ==
    /\ Goto("export", "process")
    /\ newDev \notin Hubs
    /\ Existing = {}
    /\ \E s \in Slots : FirstOf(FreeSlots, s) /\ devices' = [devices EXCEPT ![s] = NewEntry]
    /\ newDev' = NoHandle
    /\ UNCHANGED <<busVars, libVars, queueVars, refused>>

\* An entry with the same devnum is closed first, and the new device goes
\* into the first slot that is free then.
ExportOver ==
    /\ Goto("export", "process")
    /\ newDev \notin Hubs
    /\ \E s \in Slots, t \in Slots :
         /\ FirstOf(Existing, s)
         /\ FirstOf(FreeSlots \cup {s}, t)
         /\ CloseSlot(s)
         /\ devices' = [devices EXCEPT ![s] = Free, ![t] = NewEntry]
    /\ newDev' = NoHandle
    /\ UNCHANGED <<address, queueVars, refused>>

\* Every slot is in use: the device is closed and forgotten.
ExportFull ==
    /\ Goto("export", "process")
    /\ newDev \notin Hubs
    /\ Existing = {}
    /\ FreeSlots = {}
    /\ HostClose(newDev, claims)
    /\ refused' = IF status[newDev] = "attached" THEN refused \cup {newDev} ELSE refused
    /\ newDev' = NoHandle
    /\ UNCHANGED <<address, claims, faulted, queueVars, devices>>

\* remove_gone_device.
RemoveGone ==
    /\ Receive("gone")
    /\ \E s \in Slots :
         /\ FirstOf(SlotsOf(Head(events).handle), s)
         /\ CloseSlot(s)
         /\ devices' = [devices EXCEPT ![s] = Free]
    /\ UNCHANGED <<address, messages, overflow, newDev, bpc, refused>>

\* Mutant: the detach is ignored though the device is in a slot.
IgnoreAnyGone ==
    /\ Receive("gone")
    /\ UNCHANGED <<busVars, libVars, messages, overflow, devices, newDev, bpc, refused>>

\* The device that is gone is in no slot.
IgnoreGone ==
    /\ Receive("gone")
    /\ SlotsOf(Head(events).handle) = {}
    /\ UNCHANGED <<busVars, libVars, messages, overflow, devices, newDev, bpc, refused>>

EndProcess ==
    /\ Goto("process", "submit")
    /\ events = <<>>
    /\ UNCHANGED <<busVars, libVars, queueVars, devices, newDev, refused>>

\* ensure_interfaces_claimed_locked, when a bulk transfer to slot s is
\* submitted: the interfaces below n are claimed in order.
Claimable(s, n) ==
    /\ bpc = "submit"
    /\ s \in InUse
    /\ ~devices[s].claimed
    /\ \A i \in 0 .. n - 1 : <<devices[s].handle, i>> \notin claims
    /\ claims' = claims \cup {<<devices[s].handle, i>> : i \in 0 .. n - 1}
    /\ UNCHANGED <<busVars, opened, queueVars, newDev, bpc, refused>>

\* Mutant: the last interface is not claimed.
ClaimShort(s) ==
    /\ Claimable(s, NumInterfaces - 1)
    /\ devices' = [devices EXCEPT ![s].claimed = TRUE]
    /\ UNCHANGED faulted

\* Every interface is claimed.
Claim(s) ==
    /\ Claimable(s, NumInterfaces)
    /\ devices' = [devices EXCEPT ![s].claimed = TRUE]
    /\ UNCHANGED faulted

\* The claim of interface n fails: those below stay claimed.
ClaimFails(s, n) ==
    /\ Claimable(s, n)
    /\ faulted' = faulted \cup {devices[s].handle}
    /\ UNCHANGED devices

\* Mutant: the next pass starts without the library's messages.
EndPassNoPump ==
    /\ Goto("submit", "process")
    /\ UNCHANGED <<busVars, libVars, queueVars, devices, newDev, refused>>

EndPass ==
    /\ Goto("submit", "pump")
    /\ UNCHANGED <<busVars, libVars, queueVars, devices, newDev, refused>>

Bus ==
    \/ \E h \in Handles, a \in Addresses : Attach(h, a)
    \/ \E h \in Handles : Detach(h)

Backend ==
    \/ EventCb \/ BeginProcess
    \/ Open \/ OpenFails \/ Reject \/ Export \/ ExportOver \/ ExportFull
    \/ RemoveGone \/ IgnoreGone \/ EndProcess
    \/ EndPass

Claims == \E s \in Slots : Claim(s) \/ \E n \in Interfaces : ClaimFails(s, n)

Next == Bus \/ Backend \/ Claims

Spec == Init /\ [][Next]_vars

\* The backend task runs at least every 10 ms and delivers what is pending.
FairSpec == Spec /\ WF_vars(Backend) /\ SF_vars(EventCb)

-----------------------------------------------------------------------------
\* The type invariant.
TypeOK ==
    /\ status \in [Handles -> {"none", "attached", "gone"}]
    /\ address \in [Handles -> Addresses]
    /\ opened \subseteq Handles
    /\ claims \subseteq Handles \X Interfaces
    /\ messages \in Seq(Event) /\ Len(messages) <= QueueLen
    /\ events \in Seq(Event) /\ Len(events) <= QueueLen
    /\ devices \in [Slots -> Entry \cup {Free}]
    /\ newDev \in Handles \cup {NoHandle}
    /\ bpc \in {"pump", "process", "export", "submit"}
    /\ refused \subseteq Handles
    /\ faulted \subseteq Handles
    /\ overflow \in BOOLEAN

InTable(h) == SlotsOf(h) # {}

\* h holds claims that no entry accounts for: claiming it stopped half-way,
\* or the release of an interface failed and the slot was cleared all the same.
Stuck(h) ==
    /\ \E i \in Interfaces : <<h, i>> \in claims
    /\ ~ \E s \in SlotsOf(h) : devices[s].claimed

\* Only a claim or a release that failed holds a handle so.
StuckByFailure == \A h \in Handles : Stuck(h) => h \in faulted

\* Every path through export_new_device and close_slot_locked closes what it
\* opened, once, and nothing else can: the open handles are those in the table,
\* the one being exported, and those the library refused to close because a
\* call that claims or releases one of their interfaces failed.
HandlesAccounted ==
    /\ opened = {h \in Handles : InTable(h) \/ h = newDev \/ Stuck(h)}
    /\ StuckByFailure

\* find_slot_by_busid_locked and find_slot_by_handle_locked return the first
\* match; there is never a second, even while a detach is still queued and
\* its address is in use again.
OneSlotPerDevice ==
    \A s, t \in InUse : s # t => /\ devices[s].handle # devices[t].handle
                                /\ devices[s].devnum # devices[t].devnum

\* A slot with interfaces_claimed holds every interface, so a release that does
\* not fail leaves nothing that would keep the handle open.
ClaimedMeansAll ==
    \A s \in InUse : devices[s].claimed =>
        \A i \in Interfaces : <<devices[s].handle, i>> \in claims

\* The device that export_new_device is about to enter is in no slot and
\* holds no claims, so two NEW_DEV events for one device export it once.
ExportFresh ==
    /\ bpc = "export" <=> newDev # NoHandle
    /\ bpc = "export" =>
        /\ ~InTable(newDev)
        /\ \A i \in Interfaces : <<newDev, i>> \notin claims

\* The inductive invariant.
IInv == TypeOK /\ HandlesAccounted /\ OneSlotPerDevice /\ ClaimedMeansAll /\ ExportFresh

\* Once the queues are empty and nothing was dropped, the table lists what is
\* attached: no device that has left, and every device that is no hub and
\* was not turned away.
Quiet == messages = <<>> /\ events = <<>> /\ newDev = NoHandle
TableFollowsBus ==
    Quiet /\ ~overflow =>
        /\ \A s \in InUse : status[devices[s].handle] = "attached"
        /\ \A h \in Handles \ (Hubs \cup refused) : status[h] = "attached" => InTable(h)

\* An entry leaves the table only when its device has left the bus: neither a
\* new device at its address nor a late detach takes a live device out.
OnlyGoneRemoved ==
    [][\A s \in InUse :
         \/ status[devices[s].handle] = "gone"
         \/ devices'[s] \in {devices[s], [devices[s] EXCEPT !.claimed = TRUE]}]_vars

\* A device that stays attached is exported in the end, unless it was turned
\* away or an event was dropped.
AttachedIsExported ==
    \A h \in Handles \ Hubs :
        status[h] = "attached" ~>
            (status[h] # "attached" \/ InTable(h) \/ h \in refused \/ overflow)

\* A device that left while it was open is closed in the end, unless an event
\* was dropped or a claim or a release of it failed: its handle is then open,
\* in no slot, for good.
GoneIsClosed ==
    \A h \in Handles : status[h] = "gone" ~>
        \/ status[h] # "gone" \/ overflow
        \/ Stuck(h) /\ ~InTable(h) /\ h \in faulted

\* The table as those see it who look a device up.
Listings ==
    [s \in Slots |-> IF devices[s] = Free THEN Free
                     ELSE [handle |-> devices[s].handle, devnum |-> devices[s].devnum]]

Table == INSTANCE BusTable WITH table <- Listings

\* The queues, the claims and the handles below it do not show: an entry names
\* one device at one address from the step that lists it to the step that takes
\* it out, whatever comes and goes on the bus meanwhile.
TableSpec == Table!TableSpec
=============================================================================
