-------------------------- MODULE DeviceBusProofs --------------------------
(***************************************************************************)
(* Proofs about DeviceRegistry and the bus, on top of IInv: an entry leaves *)
(* the table only when its device has left the bus, and once the queues    *)
(* are empty the table lists what is attached.  Both need that a handle is *)
(* not used again while its detach is queued.                              *)
(***************************************************************************)
EXTENDS DeviceRegistryProofs

USE RegistryAssumption

(***************************************************************************)
(* The invariant.                                                          *)
(***************************************************************************)

\* Attached devices have addresses of their own.
AddressesUnique ==
  \A g, h \in Handles :
     status[g] = "attached" /\ status[h] = "attached" /\ address[g] = address[h] => g = h

\* A device object lives as long as it is open, and an entry keeps the
\* address of its device.
OpenOnBus == \A h \in opened : status[h] # "none"
EntryAddress == \A s \in InUse : devices[s].devnum = address[devices[s].handle]

\* A device that is attached and open is in the table or being exported.
AttachedTracked == \A h \in opened : status[h] = "attached" => InTable(h) \/ h = newDev

\* The entry whose address the new device has is of a device that is gone.
NewSupersedes ==
  newDev # NoHandle =>
     \A s \in InUse : devices[s].devnum = address[newDev] => status[devices[s].handle] = "gone"

\* A detach that is queued is true.
DetachTrue == \A h \in Handles : Gone(h) \in Pending => status[h] # "attached"

\* What the table has not yet followed is still queued.
GoneReported ==
  ~overflow => \A h \in Handles :
     status[h] = "gone" /\ (InTable(h) \/ h = newDev) => Gone(h) \in Pending
AttachedReported ==
  ~overflow => \A h \in Handles \ (Hubs \cup refused) :
     status[h] = "attached" => InTable(h) \/ h = newDev \/ New(address[h]) \in Pending

BusInv ==
  /\ AddressesUnique
  /\ OpenOnBus
  /\ EntryAddress
  /\ AttachedTracked
  /\ NewSupersedes
  /\ DetachTrue
  /\ GoneReported
  /\ AttachedReported

(***************************************************************************)
(* The queues.                                                             *)
(***************************************************************************)

\* The elements of a queue.
Elements(q) == {q[i] : i \in DOMAIN q}

LEMMA PendingElements == Pending = Elements(messages) \cup Elements(events)
  BY DEF Pending, Elements

LEMMA AppendElements ==
  ASSUME NEW q \in Seq(Event), NEW e \in Event
  PROVE  Elements(Append(q, e)) = Elements(q) \cup {e}
<1> DEFINE r == Append(q, e)
<1>1. /\ r \in Seq(Event)
      /\ Len(r) = Len(q) + 1
      /\ \A i \in 1 .. Len(q) : r[i] = q[i]
      /\ r[Len(q) + 1] = e
  OBVIOUS
<1>2. DOMAIN r = 1 .. Len(q) + 1 /\ DOMAIN q = 1 .. Len(q) /\ Len(q) \in Nat
  BY <1>1
<1> HIDE DEF r
<1>3. ASSUME NEW x \in Elements(r)  PROVE x \in Elements(q) \cup {e}
  <2>1. PICK i \in DOMAIN r : x = r[i]  BY DEF Elements
  <2>2. CASE i \in 1 .. Len(q)  BY <1>1, <1>2, <2>1, <2>2 DEF Elements
  <2>3. CASE i = Len(q) + 1  BY <1>1, <2>1, <2>3
  <2> QED  BY <1>2, <2>1, <2>2, <2>3
<1>4. ASSUME NEW i \in DOMAIN q  PROVE q[i] \in Elements(r)
  <2>1. i \in DOMAIN r /\ r[i] = q[i]  BY <1>1, <1>2
  <2> QED  BY <2>1 DEF Elements
<1>5. e \in Elements(r)
  <2>1. Len(q) + 1 \in DOMAIN r  BY <1>2
  <2> QED  BY <1>1, <2>1 DEF Elements
<1>6. Elements(r) = Elements(q) \cup {e}  BY <1>3, <1>4, <1>5 DEF Elements
<1> QED  BY <1>6 DEF r

LEMMA TailElements ==
  ASSUME NEW q \in Seq(Event), q # <<>>
  PROVE  /\ Head(q) \in Event
         /\ Elements(q) = Elements(Tail(q)) \cup {Head(q)}
<1> DEFINE r == Tail(q)
<1>1. /\ Len(q) \in Nat \ {0}
      /\ r \in Seq(Event)
      /\ Len(r) = Len(q) - 1
      /\ \A i \in 1 .. Len(q) - 1 : r[i] = q[i + 1]
      /\ Head(q) = q[1] /\ Head(q) \in Event
  OBVIOUS
<1>2. DOMAIN r = 1 .. Len(q) - 1 /\ DOMAIN q = 1 .. Len(q)
  BY <1>1
<1> HIDE DEF r
<1>3. ASSUME NEW i \in DOMAIN q  PROVE q[i] \in Elements(r) \cup {Head(q)}
  <2>1. CASE i = 1  BY <1>1, <2>1
  <2>2. CASE i # 1
    <3>1. i - 1 \in DOMAIN r /\ r[i - 1] = q[i]  BY <1>1, <1>2, <2>2
    <3> QED  BY <3>1 DEF Elements
  <2> QED  BY <2>1, <2>2
<1>4. ASSUME NEW i \in DOMAIN r  PROVE r[i] \in Elements(q)
  <2>1. i + 1 \in DOMAIN q /\ r[i] = q[i + 1]  BY <1>1, <1>2
  <2> QED  BY <2>1 DEF Elements
<1>5. Head(q) \in Elements(q)
  <2>1. 1 \in DOMAIN q  BY <1>1, <1>2
  <2> QED  BY <1>1, <2>1 DEF Elements
<1>6. Elements(q) = Elements(r) \cup {Head(q)}  BY <1>3, <1>4, <1>5 DEF Elements
<1> QED  BY <1>1, <1>6 DEF r

\* The library's message is queued, or the overflow noted.
LEMMA PostPending ==
  ASSUME TypeOK, NEW m \in Event, Post(m), UNCHANGED events
  PROVE  /\ Pending' \subseteq Pending \cup {m}
         /\ ~overflow' => ~overflow /\ Pending' = Pending \cup {m}
<1>1. CASE Len(messages) < QueueLen
  <2>1. messages' = Append(messages, m) /\ overflow' = overflow  BY <1>1 DEF Post
  <2>2. Elements(messages') = Elements(messages) \cup {m}
    BY <2>1, AppendElements DEF TypeOK
  <2>3. Pending' = Pending \cup {m}  BY <2>2, PendingElements DEF Pending, Elements
  <2> QED  BY <2>1, <2>3
<1>2. CASE ~(Len(messages) < QueueLen)
  <2>1. messages' = messages /\ overflow' = TRUE  BY <1>2 DEF Post
  <2> QED  BY <2>1 DEF Pending
<1> QED  BY <1>1, <1>2

\* The callback hands a message on, or drops it and notes the overflow.
LEMMA CallbackPending ==
  ASSUME TypeOK, EventCb
  PROVE  /\ Pending' \subseteq Pending
         /\ ~overflow' => ~overflow /\ Pending' = Pending
<1>1. messages \in Seq(Event) /\ messages # <<>> /\ messages' = Tail(messages)
  BY DEF TypeOK, EventCb
<1>2. /\ Head(messages) \in Event
      /\ Elements(messages) = Elements(messages') \cup {Head(messages)}
  BY <1>1, TailElements
<1>3. CASE Room
  <2>1. events' = Append(events, Head(messages)) /\ overflow' = overflow
    BY <1>3 DEF EventCb
  <2>2. Elements(events') = Elements(events) \cup {Head(messages)}
    BY <1>2, <2>1, AppendElements DEF TypeOK
  <2>3. Pending' = Pending  BY <1>2, <2>2 DEF Pending, Elements
  <2> QED  BY <2>1, <2>3
<1>4. CASE ~Room
  <2>1. events' = events /\ overflow' = TRUE  BY <1>4 DEF EventCb
  <2> QED  BY <1>2, <2>1 DEF Pending, Elements
<1> QED  BY <1>3, <1>4

\* The backend takes the first event.
LEMMA ReceivePending ==
  ASSUME TypeOK, NEW type, Receive(type), UNCHANGED messages
  PROVE  /\ Head(events) \in Event
         /\ Head(events).type = type
         /\ Pending = Pending' \cup {Head(events)}
<1>1. events \in Seq(Event) /\ events # <<>> /\ events' = Tail(events)
  BY DEF TypeOK, Receive
<1>2. /\ Head(events) \in Event
      /\ Elements(events) = Elements(events') \cup {Head(events)}
  BY <1>1, TailElements
<1> QED  BY <1>2 DEF Pending, Elements, Receive

\* What an event says.
LEMMA EventForms ==
  ASSUME NEW e \in Event
  PROVE  /\ e.type = "new" => e.address \in Addresses /\ e = New(e.address)
         /\ e.type = "gone" => e.handle \in Handles /\ e = Gone(e.handle)
         /\ \A a : e = New(a) => e.type = "new" /\ e.address = a
         /\ \A h : e = Gone(h) => e.type = "gone" /\ e.handle = h
  BY DEF Event, New, Gone

(***************************************************************************)
(* Steps of the backend task.                                              *)
(***************************************************************************)

\* Nothing happens on the bus but that device objects are closed, and those
\* that are gone freed with it.
ClosingOnly ==
  /\ UNCHANGED address
  /\ \A g \in Handles : /\ status'[g] = "attached" <=> status[g] = "attached"
                        /\ status'[g] = "gone" => status[g] = "gone"
  /\ \A g \in opened' : g \in opened /\ status'[g] = status[g]

\* Every entry was there before, or is of the device being exported.
EntriesKnown ==
  \A u \in InUse' :
     \/ \E v \in InUse : /\ devices'[u].handle = devices[v].handle
                         /\ devices'[u].devnum = devices[v].devnum
     \/ devices'[u].handle = newDev /\ devices'[u].devnum = address[newDev]

\* What is being exported stays so, or is not there any more.
ExportEnds == newDev' = NoHandle \/ UNCHANGED <<newDev, devices, status>>

LEMMA NoClosing == UNCHANGED <<status, address, opened>> => ClosingOnly
  BY DEF ClosingOnly

LEMMA HostCloseBus ==
  ASSUME TypeOK, NEW h \in Handles, NEW C, HostClose(h, C), UNCHANGED address
  PROVE  ClosingOnly
<1>1. CASE \E i \in Interfaces : <<h, i>> \in C
  <2>1. UNCHANGED <<opened, status>>  BY <1>1 DEF HostClose
  <2> QED  BY <2>1, NoClosing
<1>2. CASE ~ \E i \in Interfaces : <<h, i>> \in C
  <2>1. /\ opened' = opened \ {h}
        /\ status' = IF status[h] = "gone" THEN [status EXCEPT ![h] = "none"] ELSE status
    BY <1>2 DEF HostClose
  <2> QED  BY <2>1 DEF ClosingOnly, TypeOK
<1> QED  BY <1>1, <1>2

LEMMA CloseSlotBus ==
  ASSUME TypeOK, NEW s \in InUse, CloseSlot(s), UNCHANGED address
  PROVE  ClosingOnly
<1>1. devices[s].handle \in Handles  BY DEF TypeOK, InUse, Entry
<1> QED  BY <1>1, HostCloseBus DEF CloseSlot

LEMMA SameEntries == UNCHANGED devices => EntriesKnown
  BY DEF EntriesKnown, InUse

\* What a step of the backend task has to keep, besides closing what it
\* opened: the attached devices it tracks, and the events that say what the
\* table does not say yet.
LEMMA BackendKeeps ==
  ASSUME TypeOK, BusInv, ClosingOnly, EntriesKnown, ExportEnds,
         refused \subseteq refused',
         ~overflow' => ~overflow,
         Pending' \subseteq Pending,
         \A h \in opened' \cup (Handles \ (Hubs \cup refused')) :
            status[h] = "attached" /\ (InTable(h) \/ h = newDev)
              => InTable(h)' \/ h = newDev',
         ~overflow' => \A h \in Handles :
            Gone(h) \in Pending /\ (InTable(h)' \/ h = newDev') => Gone(h) \in Pending',
         ~overflow' => \A h \in Handles \ (Hubs \cup refused') :
            status[h] = "attached" /\ New(address[h]) \in Pending
              => InTable(h)' \/ h = newDev' \/ New(address[h]) \in Pending'
  PROVE  BusInv'
<1> USE DEF BusInv
<1>0. opened' \subseteq opened /\ opened \subseteq Handles  BY DEF ClosingOnly, TypeOK
<1>1. AddressesUnique'  BY DEF ClosingOnly, AddressesUnique
<1>2. OpenOnBus'  BY DEF ClosingOnly, OpenOnBus
<1>3. EntryAddress'  BY DEF ClosingOnly, EntriesKnown, EntryAddress
<1>4. AttachedTracked'  BY <1>0 DEF ClosingOnly, AttachedTracked
<1>5. NewSupersedes'
  <2>1. CASE newDev' = NoHandle  BY <2>1 DEF NewSupersedes
  <2>2. CASE UNCHANGED <<newDev, devices, status>>
    BY <2>2 DEF ClosingOnly, NewSupersedes, InUse
  <2> QED  BY <2>1, <2>2 DEF ExportEnds
<1>6. DetachTrue'  BY DEF ClosingOnly, DetachTrue
<1>7. GoneReported'
  <2> SUFFICES ASSUME ~overflow', NEW h \in Handles, status'[h] = "gone",
                      InTable(h)' \/ h = newDev'
               PROVE  Gone(h) \in Pending'
    BY DEF GoneReported
  <2>1. InTable(h) \/ h = newDev
    <3>1. CASE InTable(h)'
      <4>1. PICK u \in InUse' : devices'[u].handle = h  BY <3>1 DEF InTable, SlotsOf
      <4> QED  BY <4>1 DEF EntriesKnown, InTable, SlotsOf
    <3>2. CASE h = newDev'  BY <3>2 DEF ExportEnds
    <3> QED  BY <3>1, <3>2
  <2>2. status[h] = "gone"  BY DEF ClosingOnly
  <2>3. Gone(h) \in Pending  BY <2>1, <2>2 DEF GoneReported
  <2> QED  BY <2>3
<1>8. AttachedReported'
  <2> SUFFICES ASSUME ~overflow', NEW h \in Handles \ (Hubs \cup refused'),
                      status'[h] = "attached"
               PROVE  InTable(h)' \/ h = newDev' \/ New(address'[h]) \in Pending'
    BY DEF AttachedReported
  <2>1. status[h] = "attached" /\ address' = address  BY DEF ClosingOnly
  <2>2. InTable(h) \/ h = newDev \/ New(address[h]) \in Pending
    BY <2>1 DEF AttachedReported
  <2> QED  BY <2>1, <2>2
<1> QED  BY <1>1, <1>2, <1>3, <1>4, <1>5, <1>6, <1>7, <1>8

\* Steps that change neither table nor bus, and of the queues only what the
\* table says already.
LEMMA QueueKeeps ==
  ASSUME TypeOK, BusInv, UNCHANGED <<status, address, opened, devices, newDev, refused>>,
         ~overflow' => ~overflow,
         Pending' \subseteq Pending,
         ~overflow' => \A h \in Handles :
            Gone(h) \in Pending /\ (InTable(h) \/ h = newDev) => Gone(h) \in Pending',
         ~overflow' => \A h \in Handles :
            status[h] = "attached" /\ New(address[h]) \in Pending
              => InTable(h) \/ h = newDev \/ New(address[h]) \in Pending'
  PROVE  BusInv'
<1>1. ClosingOnly /\ EntriesKnown /\ ExportEnds
  BY NoClosing, SameEntries DEF ExportEnds
<1>2. \A h : InTable(h)' <=> InTable(h)  BY DEF InTable, SlotsOf, InUse
<1> QED  BY <1>1, <1>2, BackendKeeps

\* The device enters the table.
LEMMA ExportTable ==
  ASSUME TypeOK, TableInv, Export
  PROVE  /\ EntriesKnown
         /\ \A h \in Handles : InTable(h) \/ h = newDev => InTable(h)'
<1>1. PICK s \in Slots : s \in FreeSlots /\ devices' = [devices EXCEPT ![s] = NewEntry]
  BY DEF Export, FirstOf
<1>2. newDev \in Handles  BY DEF Export, Goto, TableInv, ExportFresh, TypeOK
<1>3. /\ NewEntry \in Entry /\ NewEntry.handle = newDev
      /\ NewEntry.devnum = address[newDev]
  BY <1>2 DEF NewEntry, Entry, TypeOK
<1>4. devices'[s] = NewEntry /\ \A t \in Slots \ {s} : devices'[t] = devices[t]
  BY <1>1 DEF TypeOK
<1>5. InUse' = InUse \cup {s} /\ s \notin InUse  BY <1>1, <1>3, <1>4 DEF InUse, FreeSlots
<1>6. \A t \in InUse : devices'[t] = devices[t]  BY <1>4, <1>5 DEF InUse
<1>7. EntriesKnown  BY <1>3, <1>4, <1>5, <1>6 DEF EntriesKnown
<1>8. \A h \in Handles : InTable(h) \/ h = newDev => InTable(h)'
  BY <1>3, <1>4, <1>5, <1>6 DEF InTable, SlotsOf
<1> QED  BY <1>7, <1>8

\* The device enters the table, and the entry with its address leaves it.
LEMMA ExportOverTable ==
  ASSUME TypeOK, TableInv, ExportOver
  PROVE  /\ EntriesKnown
         /\ \E s \in Existing :
              /\ CloseSlot(s)
              /\ \A u \in InUse \ {s} : devices'[u] = devices[u]
              /\ \A h \in Handles :
                   (InTable(h) /\ h # devices[s].handle) \/ h = newDev => InTable(h)'
<1>1. PICK s \in Slots, t \in Slots :
        /\ s \in Existing
        /\ t \in FreeSlots \cup {s}
        /\ CloseSlot(s)
        /\ devices' = [devices EXCEPT ![s] = Free, ![t] = NewEntry]
  BY DEF ExportOver, FirstOf
<1>2. newDev \in Handles  BY DEF ExportOver, Goto, TableInv, ExportFresh, TypeOK
<1>3. /\ NewEntry \in Entry /\ NewEntry.handle = newDev
      /\ NewEntry.devnum = address[newDev]
  BY <1>2 DEF NewEntry, Entry, TypeOK
<1>4. /\ devices'[t] = NewEntry
      /\ s # t => devices'[s] = Free
      /\ \A u \in Slots \ {s, t} : devices'[u] = devices[u]
  BY <1>1 DEF TypeOK
<1>5. s \in InUse  BY <1>1 DEF Existing
<1>6. InUse' = (InUse \ {s}) \cup {t}
  <2>1. t \in Slots /\ NewEntry # Free  BY <1>3
  <2>3. \A u \in Slots : devices'[u] # Free <=> u = t \/ (u # s /\ devices[u] # Free)
    BY <1>4, <2>1
  <2> QED  BY <1>5, <2>1, <2>3 DEF InUse
<1>7. \A u \in InUse \ {s} : u # t /\ devices'[u] = devices[u]
  <2>1. t \notin InUse \ {s}  BY <1>1 DEF FreeSlots
  <2> QED  BY <1>4, <2>1 DEF InUse
<1>8. EntriesKnown  BY <1>3, <1>4, <1>6, <1>7 DEF EntriesKnown
<1>9. \A h \in Handles :
        (InTable(h) /\ h # devices[s].handle) \/ h = newDev => InTable(h)'
  BY <1>3, <1>4, <1>6, <1>7 DEF InTable, SlotsOf
<1> QED  BY <1>1, <1>7, <1>8, <1>9

\* The entry of the handle in the event leaves the table.
LEMMA RemoveTable ==
  ASSUME TypeOK, TableInv, RemoveGone
  PROVE  /\ EntriesKnown
         /\ \E s \in SlotsOf(Head(events).handle) :
              /\ CloseSlot(s)
              /\ \A u \in InUse \ {s} : devices'[u] = devices[u]
         /\ \A h \in Handles : InTable(h)' <=> InTable(h) /\ h # Head(events).handle
<1> DEFINE g == Head(events).handle
<1>1. PICK s \in Slots :
        s \in SlotsOf(g) /\ CloseSlot(s) /\ devices' = [devices EXCEPT ![s] = Free]
  BY DEF RemoveGone, FirstOf
<1>2. s \in InUse /\ devices[s].handle = g  BY <1>1 DEF SlotsOf
<1>3. \A t \in SlotsOf(g) : t = s  BY <1>2 DEF TableInv, OneSlotPerDevice, SlotsOf
<1> HIDE DEF g
<1>4. devices'[s] = Free /\ \A t \in Slots \ {s} : devices'[t] = devices[t]
  BY <1>1 DEF TypeOK
<1>5. InUse' = InUse \ {s}  BY <1>4 DEF InUse
<1>6. \A u \in InUse \ {s} : devices'[u] = devices[u]  BY <1>4 DEF InUse
<1>7. EntriesKnown  BY <1>5, <1>6 DEF EntriesKnown
<1>8. \A h \in Handles : InTable(h)' <=> InTable(h) /\ h # g
  BY <1>2, <1>3, <1>5, <1>6 DEF InTable, SlotsOf
<1> QED  BY <1>1, <1>6, <1>7, <1>8 DEF g

\* Claiming changes nothing but interfaces_claimed.
LEMMA ClaimsTable ==
  ASSUME TypeOK, Claims
  PROVE  /\ EntriesKnown
         /\ \A h : InTable(h)' <=> InTable(h)
         /\ \A u \in InUse : devices'[u] \in {devices[u], [devices[u] EXCEPT !.claimed = TRUE]}
<1>1. ASSUME NEW s \in Slots, Claim(s)
      PROVE  /\ \A u \in Slots : u # s => devices'[u] = devices[u]
             /\ s \in InUse /\ devices'[s] = [devices[s] EXCEPT !.claimed = TRUE]
  BY <1>1 DEF Claim, Claimable, TypeOK
<1>2. ASSUME NEW s \in Slots, Claim(s)
      PROVE  /\ InUse' = InUse
             /\ \A u \in InUse : /\ devices'[u].handle = devices[u].handle
                                 /\ devices'[u].devnum = devices[u].devnum
  <2>1. devices[s] \in Entry  BY <1>1, <1>2 DEF TypeOK, InUse
  <2>2. /\ devices'[s] \in Entry
        /\ devices'[s].handle = devices[s].handle
        /\ devices'[s].devnum = devices[s].devnum
    BY <1>1, <1>2, <2>1 DEF Entry
  <2>3. devices'[s] # Free /\ devices[s] # Free  BY <2>1, <2>2
  <2> QED  BY <1>1, <1>2, <2>2, <2>3 DEF InUse
<1>3. CASE \E s \in Slots : Claim(s)
  <2>1. PICK s \in Slots : Claim(s)  BY <1>3
  <2>2. InUse' = InUse
        /\ \A u \in InUse : /\ devices'[u].handle = devices[u].handle
                            /\ devices'[u].devnum = devices[u].devnum
    BY <1>2, <2>1
  <2>3. \A u \in InUse : devices'[u] \in {devices[u], [devices[u] EXCEPT !.claimed = TRUE]}
    BY <1>1, <2>1 DEF InUse
  <2>4. EntriesKnown  BY <2>2 DEF EntriesKnown
  <2>5. \A h : InTable(h)' <=> InTable(h)  BY <2>2 DEF InTable, SlotsOf
  <2> QED  BY <2>3, <2>4, <2>5
<1>4. CASE UNCHANGED devices
  BY <1>4, SameEntries DEF InTable, SlotsOf, InUse
<1> QED  BY <1>3, <1>4 DEF Claims, ClaimFails

(***************************************************************************)
(* The bus moves, and the backend follows.                                 *)
(***************************************************************************)

\* A device comes: its object is free, hence not open and in no slot, and
\* nothing that is queued says that it has left.
LEMMA AttachStep ==
  ASSUME ~ReuseHandles, TypeOK, TableInv, BusInv,
         NEW h \in Handles, NEW a \in Addresses, Attach(h, a)
  PROVE  BusInv'
<1> USE DEF BusInv
<1>1. /\ status[h] = "none"
      /\ Gone(h) \notin Pending
      /\ \A g \in Handles : status[g] = "attached" => address[g] # a
      /\ status' = [status EXCEPT ![h] = "attached"]
      /\ address' = [address EXCEPT ![h] = a]
      /\ UNCHANGED <<opened, events, devices, newDev, refused>>
      /\ Post(New(a))
  BY DEF Attach, libVars
<1>2. h \notin opened  BY <1>1 DEF OpenOnBus
<1>3. ~InTable(h) /\ h # newDev  BY <1>2, OpenIfUsed
<1>4. /\ status'[h] = "attached" /\ address'[h] = a
      /\ \A g \in Handles \ {h} : status'[g] = status[g] /\ address'[g] = address[g]
  BY <1>1 DEF TypeOK
<1>5. New(a) \in Event  BY DEF Event
<1>6. /\ Pending' \subseteq Pending \cup {New(a)}
      /\ ~overflow' => ~overflow /\ Pending' = Pending \cup {New(a)}
  BY <1>1, <1>5, PostPending
<1>7. \A g : Gone(g) # New(a)  BY <1>5, EventForms DEF New, Gone
<1>8. InUse' = InUse /\ \A g : InTable(g)' <=> InTable(g)
  BY <1>1 DEF InTable, SlotsOf, InUse
<1>9. \A s \in InUse : devices[s].handle \in Handles /\ devices[s].handle # h
  BY <1>3 DEF InTable, SlotsOf, TypeOK, InUse, Entry
<1>10. AddressesUnique'  BY <1>1, <1>4 DEF AddressesUnique
<1>11. OpenOnBus'  BY <1>1, <1>2, <1>4 DEF OpenOnBus, TypeOK
<1>12. EntryAddress'  BY <1>1, <1>4, <1>8, <1>9 DEF EntryAddress
<1>13. AttachedTracked'  BY <1>1, <1>2, <1>4, <1>8 DEF AttachedTracked, TypeOK
<1>14. NewSupersedes'
  <2>1. newDev # NoHandle => newDev \in Handles \ {h}  BY <1>3 DEF TypeOK
  <2> QED  BY <1>1, <1>4, <1>8, <1>9, <2>1 DEF NewSupersedes
<1>15. DetachTrue'  BY <1>1, <1>4, <1>6, <1>7 DEF DetachTrue
<1>16. GoneReported'  BY <1>1, <1>4, <1>6, <1>8 DEF GoneReported
<1>17. AttachedReported'
  <2> SUFFICES ASSUME ~overflow', NEW g \in Handles \ (Hubs \cup refused),
                      status'[g] = "attached"
               PROVE  InTable(g) \/ g = newDev \/ New(address'[g]) \in Pending'
    BY <1>1, <1>8 DEF AttachedReported
  <2>1. CASE g = h  BY <1>4, <1>6, <2>1
  <2>2. CASE g # h  BY <1>4, <1>6, <2>2 DEF AttachedReported
  <2> QED  BY <2>1, <2>2
<1> QED  BY <1>10, <1>11, <1>12, <1>13, <1>14, <1>15, <1>16, <1>17

\* A device leaves: if it is open the client is told, and if it is not it is
\* in no slot.
LEMMA DetachStep ==
  ASSUME TypeOK, TableInv, BusInv, NEW h \in Handles, Detach(h)
  PROVE  BusInv'
<1> USE DEF BusInv
<1>1. /\ status[h] = "attached" /\ refused' = refused \ {h}
      /\ UNCHANGED <<address, opened, events, devices, newDev>>
  BY DEF Detach, libVars
<1>2. \/ /\ h \in opened
         /\ status' = [status EXCEPT ![h] = "gone"]
         /\ Post(Gone(h))
      \/ /\ h \notin opened
         /\ status' = [status EXCEPT ![h] = "none"]
         /\ UNCHANGED <<messages, overflow>>
  BY DEF Detach
<1>3. /\ status'[h] = IF h \in opened THEN "gone" ELSE "none"
      /\ \A g \in Handles \ {h} : status'[g] = status[g]
  BY <1>2 DEF TypeOK
<1>4. InUse' = InUse /\ \A g : InTable(g)' <=> InTable(g)
  BY <1>1 DEF InTable, SlotsOf, InUse
<1>5. Gone(h) \in Event  BY DEF Event
<1>6. /\ Pending' \subseteq Pending \cup {Gone(h)}
      /\ ~overflow' => ~overflow /\ Pending \subseteq Pending'
      /\ h \in opened /\ ~overflow' => Gone(h) \in Pending'
  <2>1. CASE h \in opened  BY <1>1, <1>2, <1>5, <2>1, PostPending
  <2>2. CASE h \notin opened  BY <1>1, <1>2, <2>2 DEF Pending
  <2> QED  BY <2>1, <2>2
<1>7. \A g \in Handles : Gone(g) = Gone(h) => g = h  BY DEF Gone
<1>8. AddressesUnique'  BY <1>1, <1>3 DEF AddressesUnique
<1>9. OpenOnBus'  BY <1>1, <1>3 DEF OpenOnBus, TypeOK
<1>10. EntryAddress'  BY <1>1, <1>4 DEF EntryAddress
<1>11. AttachedTracked'  BY <1>1, <1>3, <1>4 DEF AttachedTracked, TypeOK
<1>12. NewSupersedes'
  <2>1. \A s \in InUse : devices[s].handle \in Handles  BY DEF TypeOK, InUse, Entry
  <2> QED  BY <1>1, <1>3, <1>4, <2>1 DEF NewSupersedes
<1>13. DetachTrue'  BY <1>3, <1>6, <1>7 DEF DetachTrue
<1>14. GoneReported'
  <2> SUFFICES ASSUME ~overflow', NEW g \in Handles, status'[g] = "gone",
                      InTable(g) \/ g = newDev
               PROVE  Gone(g) \in Pending'
    BY <1>1, <1>4 DEF GoneReported
  <2>1. CASE g = h  BY <1>3, <1>6, <2>1
  <2>2. CASE g # h  BY <1>3, <1>6, <2>2 DEF GoneReported
  <2> QED  BY <2>1, <2>2
<1>15. AttachedReported'
  <2> SUFFICES ASSUME ~overflow', NEW g \in Handles \ (Hubs \cup refused'),
                      status'[g] = "attached"
               PROVE  InTable(g) \/ g = newDev \/ New(address[g]) \in Pending'
    BY <1>1, <1>4 DEF AttachedReported
  <2>1. g # h  BY <1>3
  <2>2. status[g] = "attached" /\ g \notin refused  BY <1>1, <1>3, <2>1
  <2> QED  BY <1>6, <2>2 DEF AttachedReported
<1> QED  BY <1>8, <1>9, <1>10, <1>11, <1>12, <1>13, <1>14, <1>15

\* Opening the device that has the address: whoever is in the table with
\* that address is gone, as two attached devices never share one.
LEMMA OpenBusStep ==
  ASSUME TypeOK, TableInv, BusInv, Open
  PROVE  BusInv'
<1> USE DEF BusInv
<1>1. Receive("new") /\ UNCHANGED messages  BY DEF Open
<1>2. PICK h \in Handles \ opened :
        /\ status[h] = "attached"
        /\ address[h] = Head(events).address
        /\ opened' = opened \cup {h}
        /\ newDev' = h
  BY DEF Open
<1>3. UNCHANGED <<status, address, overflow, devices, refused>> /\ newDev = NoHandle
  BY DEF Open, busVars, Receive, TableInv, ExportFresh
<1>4. /\ Head(events) \in Event /\ Head(events).type = "new"
      /\ Pending = Pending' \cup {Head(events)}
  BY <1>1, ReceivePending
<1>5. Head(events) = New(address[h])  BY <1>2, <1>4, EventForms
<1>6. InUse' = InUse /\ \A g : InTable(g)' <=> InTable(g)
  BY <1>3 DEF InTable, SlotsOf, InUse
<1>7. ~InTable(h)  BY <1>2, OpenIfUsed
<1>8. AddressesUnique' /\ OpenOnBus' /\ EntryAddress'
  BY <1>2, <1>3, <1>6 DEF AddressesUnique, OpenOnBus, EntryAddress
<1>9. AttachedTracked'
  <2>1. \A g \in opened : g # newDev  BY <1>3 DEF TypeOK
  <2> QED  BY <1>2, <1>3, <1>6, <2>1 DEF AttachedTracked
<1>10. NewSupersedes'
  <2> SUFFICES ASSUME NEW s \in InUse, devices[s].devnum = address[h]
               PROVE  status[devices[s].handle] = "gone"
    BY <1>2, <1>3, <1>6 DEF NewSupersedes
  <2> DEFINE g == devices[s].handle
  <2>1. g \in Handles /\ InTable(g)  BY DEF TypeOK, InUse, Entry, InTable, SlotsOf
  <2>2. g # h /\ address[g] = address[h]  BY <1>7, <2>1 DEF EntryAddress
  <2>3. g \in opened  BY <2>1, OpenIfUsed
  <2>4. status[g] # "none" /\ status[g] # "attached"
    BY <1>2, <2>1, <2>2, <2>3 DEF OpenOnBus, AddressesUnique
  <2> QED  BY <2>1, <2>4 DEF TypeOK
<1>11. DetachTrue'  BY <1>3, <1>4 DEF DetachTrue
<1>12. GoneReported'
  <2>1. \A g : Gone(g) # Head(events)  BY <1>4, EventForms
  <2> QED  BY <1>2, <1>3, <1>4, <1>6, <2>1 DEF GoneReported
<1>13. AttachedReported'
  <2> SUFFICES ASSUME ~overflow, NEW g \in Handles \ (Hubs \cup refused),
                      status[g] = "attached"
               PROVE  InTable(g) \/ g = h \/ New(address[g]) \in Pending'
    BY <1>2, <1>3, <1>6 DEF AttachedReported
  <2>1. g # newDev  BY <1>3
  <2>2. InTable(g) \/ New(address[g]) \in Pending  BY <2>1 DEF AttachedReported
  <2>3. CASE New(address[g]) = Head(events)
    <3>1. address[g] = address[h]  BY <1>5, <2>3 DEF New
    <3> QED  BY <1>2, <3>1 DEF AddressesUnique
  <2>4. CASE New(address[g]) # Head(events)  BY <1>4, <2>2, <2>4
  <2> QED  BY <2>3, <2>4
<1> QED  BY <1>8, <1>9, <1>10, <1>11, <1>12, <1>13

\* No device has the address: then every device that had it is known.
LEMMA OpenFailsStep ==
  ASSUME TypeOK, TableInv, BusInv, OpenFails
  PROVE  BusInv'
<1>1. /\ Receive("new")
      /\ UNCHANGED <<status, address, opened, messages, overflow, devices, newDev, refused>>
  BY DEF OpenFails, busVars, libVars
<1>2. /\ Head(events) \in Event /\ Head(events).type = "new"
      /\ Pending = Pending' \cup {Head(events)}
  BY <1>1, ReceivePending
<1>3. \A g : Gone(g) # Head(events)  BY <1>2, EventForms
<1>4. ASSUME NEW h \in Handles, status[h] = "attached", New(address[h]) \in Pending
      PROVE  InTable(h) \/ h = newDev \/ New(address[h]) \in Pending'
  <2>1. CASE New(address[h]) = Head(events)
    <3>1. address[h] = Head(events).address  BY <1>2, <2>1, EventForms
    <3>2. h \in opened  BY <1>4, <3>1 DEF OpenFails
    <3> QED  BY <1>4, <3>2 DEF BusInv, AttachedTracked
  <2>2. CASE New(address[h]) # Head(events)  BY <1>2, <1>4, <2>2
  <2> QED  BY <2>1, <2>2
<1> QED  BY <1>1, <1>2, <1>3, <1>4, QueueKeeps

\* The detach of a device that is in no slot.
LEMMA IgnoreGoneStep ==
  ASSUME TypeOK, TableInv, BusInv, IgnoreGone
  PROVE  BusInv'
<1>1. /\ Receive("gone") /\ SlotsOf(Head(events).handle) = {}
      /\ UNCHANGED <<status, address, opened, messages, overflow, devices, newDev, refused>>
  BY DEF IgnoreGone, busVars, libVars
<1>2. /\ Head(events) \in Event /\ Head(events).type = "gone"
      /\ Pending = Pending' \cup {Head(events)}
  BY <1>1, ReceivePending
<1>3. \A a : New(a) # Head(events)  BY <1>2, EventForms
<1>4. newDev = NoHandle  BY <1>1 DEF Receive, TableInv, ExportFresh
<1>5. ASSUME NEW h \in Handles, Gone(h) \in Pending, InTable(h) \/ h = newDev
      PROVE  Gone(h) \in Pending'
  <2>1. h # Head(events).handle  BY <1>1, <1>4, <1>5 DEF InTable
  <2>2. Gone(h) # Head(events)  BY <1>2, <2>1, EventForms
  <2> QED  BY <1>2, <1>5, <2>2
<1> QED  BY <1>1, <1>2, <1>3, <1>5, QueueKeeps

\* The new device is closed again: it is a hub, or gone, or there is no slot
\* for it, in which case it is counted as refused if it is still there.
LEMMA CloseNewStep ==
  ASSUME TypeOK, TableInv, BusInv, Reject \/ ExportFull
  PROVE  BusInv'
<1>1. /\ bpc = "export" /\ HostClose(newDev, claims) /\ newDev' = NoHandle
      /\ UNCHANGED <<address, claims, messages, events, overflow, devices>>
      /\ \/ newDev \in Hubs \/ status[newDev] = "gone"
         \/ status[newDev] = "attached" => newDev \in refused'
      /\ refused \subseteq refused'
  BY DEF Reject, ExportFull, Goto, queueVars
<1>2. newDev \in Handles /\ \A i \in Interfaces : <<newDev, i>> \notin claims
  BY <1>1 DEF TypeOK, TableInv, ExportFresh
<1>3. ClosingOnly  BY <1>1, <1>2, HostCloseBus
<1>4. newDev \notin opened'  BY <1>1, <1>2 DEF HostClose
<1>5. EntriesKnown /\ ExportEnds /\ \A h : InTable(h)' <=> InTable(h)
  BY <1>1, SameEntries DEF ExportEnds, InTable, SlotsOf, InUse
<1>6. Pending' = Pending  BY <1>1 DEF Pending
<1>7. ASSUME NEW h \in opened' \cup (Handles \ (Hubs \cup refused')),
             status[h] = "attached", InTable(h) \/ h = newDev
      PROVE  InTable(h)'
  BY <1>1, <1>4, <1>5, <1>7
<1>8. ~overflow' => \A h \in Handles \ (Hubs \cup refused') :
         status[h] = "attached" /\ New(address[h]) \in Pending
           => InTable(h)' \/ h = newDev' \/ New(address[h]) \in Pending'
  BY <1>6
<1> QED  BY <1>1, <1>3, <1>5, <1>6, <1>7, <1>8, BackendKeeps

LEMMA ExportBusStep ==
  ASSUME TypeOK, TableInv, BusInv, Export
  PROVE  BusInv'
<1>1. /\ newDev' = NoHandle
      /\ UNCHANGED <<status, address, opened, messages, events, overflow, refused>>
  BY DEF Export, busVars, libVars, queueVars
<1>2. EntriesKnown /\ \A h \in Handles : InTable(h) \/ h = newDev => InTable(h)'
  BY ExportTable
<1>3. ClosingOnly /\ ExportEnds /\ Pending' = Pending
  BY <1>1, NoClosing DEF ExportEnds, Pending
<1>4. opened' \subseteq Handles  BY <1>1 DEF TypeOK
<1> QED  BY <1>1, <1>2, <1>3, <1>4, BackendKeeps

LEMMA ExportOverBusStep ==
  ASSUME TypeOK, TableInv, BusInv, ExportOver
  PROVE  BusInv'
<1>1. /\ bpc = "export" /\ newDev' = NoHandle
      /\ UNCHANGED <<address, messages, events, overflow, refused>>
  BY DEF ExportOver, Goto, queueVars
<1>2. PICK s \in Existing :
        /\ CloseSlot(s)
        /\ \A h \in Handles :
             (InTable(h) /\ h # devices[s].handle) \/ h = newDev => InTable(h)'
  BY ExportOverTable
<1>3. s \in InUse /\ devices[s].devnum = address[newDev]  BY <1>2 DEF Existing
<1>4. ClosingOnly  BY <1>1, <1>2, <1>3, CloseSlotBus
<1>5. status[devices[s].handle] = "gone"
  BY <1>1, <1>3 DEF BusInv, NewSupersedes, TableInv, ExportFresh
<1>6. EntriesKnown /\ ExportEnds /\ Pending' = Pending
  BY <1>1, ExportOverTable DEF ExportEnds, Pending
<1>7. opened' \subseteq Handles  BY <1>4 DEF ClosingOnly, TypeOK
<1>8. ASSUME NEW h \in opened' \cup (Handles \ (Hubs \cup refused')),
             status[h] = "attached", InTable(h) \/ h = newDev
      PROVE  InTable(h)'
  BY <1>2, <1>5, <1>7, <1>8
<1> QED  BY <1>1, <1>4, <1>6, <1>8, BackendKeeps

\* The detach of a device in the table: it is true, so the device taken out
\* is not attached.
LEMMA RemoveBusStep ==
  ASSUME TypeOK, TableInv, BusInv, RemoveGone
  PROVE  BusInv'
<1>1. /\ Receive("gone")
      /\ UNCHANGED <<address, messages, overflow, newDev, refused>>
  BY DEF RemoveGone
<1>2. /\ Head(events) \in Event /\ Head(events).type = "gone"
      /\ Pending = Pending' \cup {Head(events)}
  BY <1>1, ReceivePending
<1> PICK g : g = Head(events).handle  OBVIOUS
<1>3. g \in Handles /\ Head(events) = Gone(g)  BY <1>2, EventForms
<1>4. status[g] # "attached"  BY <1>2, <1>3 DEF BusInv, DetachTrue
<1>5. newDev = NoHandle  BY <1>1 DEF Receive, TableInv, ExportFresh
<1>6. PICK s \in SlotsOf(g) : CloseSlot(s)  BY RemoveTable
<1>7. EntriesKnown /\ \A h \in Handles : InTable(h)' <=> InTable(h) /\ h # g
  BY RemoveTable
<1>8. ClosingOnly  BY <1>1, <1>6, CloseSlotBus DEF SlotsOf
<1>9. ExportEnds /\ newDev' = newDev  BY <1>1, <1>5 DEF ExportEnds
<1>10. opened' \subseteq Handles  BY <1>8 DEF ClosingOnly, TypeOK
<1>11. ASSUME NEW h \in Handles, status[h] = "attached", InTable(h) \/ h = newDev
       PROVE  InTable(h)'
  BY <1>4, <1>5, <1>7, <1>11
<1>12. ASSUME NEW h \in Handles, Gone(h) \in Pending, InTable(h)' \/ h = newDev'
       PROVE  Gone(h) \in Pending'
  <2>1. h # g  BY <1>5, <1>7, <1>9, <1>12
  <2>2. Gone(h) # Head(events)  BY <1>2, <2>1, EventForms
  <2> QED  BY <1>2, <1>12, <2>2
<1>13. ASSUME NEW h \in Handles, New(address[h]) \in Pending
       PROVE  New(address[h]) \in Pending'
  <2>1. New(address[h]) # Head(events)  BY <1>2, EventForms
  <2> QED  BY <1>2, <1>13, <2>1
<1>14. Pending' \subseteq Pending /\ refused' = refused /\ overflow' = overflow
  BY <1>1, <1>2
<1> QED  BY <1>7, <1>8, <1>9, <1>10, <1>11, <1>12, <1>13, <1>14, BackendKeeps

LEMMA ClaimsBusStep ==
  ASSUME TypeOK, TableInv, BusInv, Claims
  PROVE  BusInv'
<1>1. /\ UNCHANGED <<status, address, opened, messages, events, overflow, newDev, refused>>
      /\ bpc = "submit"
  BY DEF Claims, Claim, ClaimFails, Claimable, busVars, queueVars
<1>2. EntriesKnown /\ \A h : InTable(h)' <=> InTable(h)  BY ClaimsTable
<1>3. newDev = NoHandle  BY <1>1 DEF TableInv, ExportFresh
<1>4. ClosingOnly /\ ExportEnds /\ Pending' = Pending
  BY <1>1, <1>3, NoClosing DEF ExportEnds, Pending
<1> QED  BY <1>1, <1>2, <1>4, BackendKeeps

LEMMA CallbackBusStep ==
  ASSUME TypeOK, BusInv, EventCb
  PROVE  BusInv'
<1>1. UNCHANGED <<status, address, opened, devices, newDev, refused>>
  BY DEF EventCb, busVars, libVars
<1>2. Pending' \subseteq Pending /\ (~overflow' => ~overflow /\ Pending' = Pending)
  BY CallbackPending
<1> QED  BY <1>1, <1>2, QueueKeeps

LEMMA BusStep ==
  ASSUME ~ReuseHandles, TypeOK, TableInv, BusInv, [Next]_vars
  PROVE  BusInv'
<1>1. CASE Bus  BY <1>1, AttachStep, DetachStep DEF Bus
<1>2. CASE Claims  BY <1>2, ClaimsBusStep
<1>3. CASE BeginProcess \/ EndProcess \/ EndPass \/ UNCHANGED vars
  <2>1. UNCHANGED <<status, address, opened, messages, events, overflow, devices, newDev,
                    refused>>
    BY <1>3 DEF BeginProcess, EndProcess, EndPass, vars, busVars, libVars, queueVars
  <2>2. Pending' = Pending  BY <2>1 DEF Pending
  <2> QED  BY <2>1, <2>2, QueueKeeps
<1>4. CASE EventCb     BY <1>4, CallbackBusStep
<1>5. CASE Open        BY <1>5, OpenBusStep
<1>6. CASE OpenFails   BY <1>6, OpenFailsStep
<1>7. CASE Reject \/ ExportFull  BY <1>7, CloseNewStep
<1>8. CASE Export      BY <1>8, ExportBusStep
<1>9. CASE ExportOver  BY <1>9, ExportOverBusStep
<1>10. CASE RemoveGone BY <1>10, RemoveBusStep
<1>11. CASE IgnoreGone BY <1>11, IgnoreGoneStep
<1> QED  BY <1>1, <1>2, <1>3, <1>4, <1>5, <1>6, <1>7, <1>8, <1>9, <1>10, <1>11
         DEF Next, Backend

LEMMA BusInit == Init => BusInv
<1> SUFFICES ASSUME Init  PROVE BusInv
  OBVIOUS
<1>1. InUse = {} /\ opened = {} /\ newDev = NoHandle
  BY DEF Init, InUse
<1>2. \A h \in Handles : status[h] = "none"  BY DEF Init
<1>3. AddressesUnique /\ DetachTrue /\ GoneReported /\ AttachedReported
  BY <1>2 DEF AddressesUnique, DetachTrue, GoneReported, AttachedReported
<1>4. OpenOnBus /\ EntryAddress /\ AttachedTracked /\ NewSupersedes
  BY <1>1 DEF OpenOnBus, EntryAddress, AttachedTracked, NewSupersedes
<1> QED  BY <1>3, <1>4 DEF BusInv

(***************************************************************************)
(* The theorems.                                                           *)
(***************************************************************************)

\* As long as a handle is not reused while its detach is queued, the table,
\* the bus and the two queues agree in every state: what is queued about a
\* device is true of it, and what the table has not followed is queued.
THEOREM BusInvariance ==
  ASSUME ~ReuseHandles
  PROVE  Spec => [](IInv /\ BusInv)
<1>1. Init => IInv /\ BusInv  BY InitType, TableInit, InvIsTableInv, BusInit
<1>2. IInv /\ BusInv /\ [Next]_vars => (IInv /\ BusInv)'
  <2> SUFFICES ASSUME IInv, BusInv, [Next]_vars  PROVE IInv' /\ BusInv'
    OBVIOUS
  <2>1. TypeOK /\ TableInv  BY InvIsTableInv
  <2>2. bpc = "export" => newDev # NoHandle  BY <2>1 DEF TableInv, ExportFresh
  <2>3. TypeOK' /\ TableInv'  BY <2>1, <2>2, TypeStep, TableStep
  <2>4. BusInv'  BY ~ReuseHandles, <2>1, BusStep
  <2> QED  BY <2>3, <2>4 DEF IInv, TableInv
<1> QED  BY <1>1, <1>2, PTL DEF Spec

\* Once both queues are empty, and if nothing was dropped, the table lists
\* what is attached: no device that has left, and every device that is no
\* hub and was not turned away.
THEOREM TableFollows ==
  ASSUME ~ReuseHandles
  PROVE  Spec => []TableFollowsBus
<1>1. IInv /\ BusInv => TableFollowsBus
  <2> SUFFICES ASSUME IInv, BusInv, Quiet, ~overflow
               PROVE  /\ \A s \in InUse : status[devices[s].handle] = "attached"
                      /\ \A h \in Handles \ (Hubs \cup refused) :
                           status[h] = "attached" => InTable(h)
    BY DEF TableFollowsBus
  <2>1. Pending = {}  BY DEF Quiet, Pending
  <2>2. \A h \in Handles : h # newDev  BY DEF Quiet
  <2>3. ASSUME NEW s \in InUse  PROVE status[devices[s].handle] = "attached"
    <3>1. devices[s].handle \in Handles /\ InTable(devices[s].handle)
      BY DEF IInv, TypeOK, InUse, Entry, InTable, SlotsOf
    <3>2. devices[s].handle \in opened  BY <3>1 DEF IInv, HandlesAccounted
    <3>3. status[devices[s].handle] # "none"  BY <3>2 DEF BusInv, OpenOnBus
    <3>4. status[devices[s].handle] # "gone"  BY <2>1, <3>1 DEF BusInv, GoneReported
    <3> QED  BY <3>1, <3>3, <3>4 DEF IInv, TypeOK
  <2>4. \A h \in Handles \ (Hubs \cup refused) : status[h] = "attached" => InTable(h)
    BY <2>1, <2>2 DEF BusInv, AttachedReported
  <2> QED  BY <2>3, <2>4
<1> QED  BY <1>1, ~ReuseHandles, BusInvariance, PTL

\* What a step may do to the entries.
LEMMA EntriesStep ==
  ASSUME IInv, BusInv, [Next]_vars, NEW s \in InUse
  PROVE  \/ status[devices[s].handle] = "gone"
         \/ devices'[s] \in {devices[s], [devices[s] EXCEPT !.claimed = TRUE]}
<1>1. TypeOK /\ TableInv  BY InvIsTableInv
<1>2. CASE Export
  <2>1. PICK t \in Slots : t \in FreeSlots /\ devices' = [devices EXCEPT ![t] = NewEntry]
    BY <1>2 DEF Export, FirstOf
  <2>2. s # t  BY <2>1 DEF FreeSlots
  <2> QED  BY <1>1, <2>1, <2>2 DEF TypeOK, InUse
<1>3. CASE ExportOver
  <2>1. PICK t \in Existing : \A u \in InUse \ {t} : devices'[u] = devices[u]
    BY <1>1, <1>3, ExportOverTable
  <2>2. CASE s = t
    <3>1. bpc = "export" /\ devices[s].devnum = address[newDev]
      BY <1>3, <2>1, <2>2 DEF ExportOver, Goto, Existing
    <3> QED  BY <1>1, <3>1 DEF BusInv, NewSupersedes, TableInv, ExportFresh
  <2>3. CASE s # t  BY <2>1, <2>3
  <2> QED  BY <2>2, <2>3
<1>4. CASE RemoveGone
  <2>1. PICK t \in SlotsOf(Head(events).handle) :
          \A u \in InUse \ {t} : devices'[u] = devices[u]
    BY <1>1, <1>4, RemoveTable
  <2>2. CASE s = t
    <3>1. Receive("gone") /\ UNCHANGED messages  BY <1>4 DEF RemoveGone
    <3>2. /\ Head(events) \in Event /\ Head(events).type = "gone"
          /\ Head(events) \in Pending
      BY <1>1, <3>1, ReceivePending
    <3> PICK g : g = devices[s].handle  OBVIOUS
    <3>3. g = Head(events).handle  BY <2>1, <2>2 DEF SlotsOf
    <3>4. g \in Handles /\ Gone(g) \in Pending  BY <3>2, <3>3, EventForms
    <3>5. status[g] # "attached"  BY <3>4 DEF BusInv, DetachTrue
    <3>6. InTable(g)  BY DEF InTable, SlotsOf
    <3>7. g \in opened  BY <1>1, <3>4, <3>6, OpenIfUsed
    <3>8. status[g] # "none"  BY <3>7 DEF BusInv, OpenOnBus
    <3> QED  BY <1>1, <3>4, <3>5, <3>8 DEF TypeOK
  <2>3. CASE s # t  BY <2>1, <2>3
  <2> QED  BY <2>2, <2>3
<1>5. CASE Claims  BY <1>1, <1>5, ClaimsTable
<1>6. CASE \/ Bus \/ UNCHANGED vars
           \/ EventCb \/ BeginProcess \/ Open \/ OpenFails \/ Reject \/ ExportFull
           \/ IgnoreGone \/ EndProcess \/ EndPass
  <2>1. UNCHANGED devices
    BY <1>6 DEF Bus, Attach, Detach, EventCb, BeginProcess, Open, OpenFails, Reject,
                ExportFull, IgnoreGone, EndProcess, EndPass, vars
  <2> QED  BY <2>1
<1> QED  BY <1>2, <1>3, <1>4, <1>5, <1>6 DEF Next, Backend

\* An entry leaves the table only when its device has left the bus: neither
\* a new device at its address nor a late detach takes a live device out.
THEOREM LiveDevicesStay ==
  ASSUME ~ReuseHandles
  PROVE  Spec => OnlyGoneRemoved
<1>1. IInv /\ BusInv /\ [Next]_vars
        => [\A s \in InUse :
              \/ status[devices[s].handle] = "gone"
              \/ devices'[s] \in {devices[s], [devices[s] EXCEPT !.claimed = TRUE]}]_vars
  BY EntriesStep
<1>2. Spec => [][Next]_vars  BY DEF Spec
<1> QED  BY <1>1, <1>2, ~ReuseHandles, BusInvariance, PTL DEF OnlyGoneRemoved

=============================================================================
