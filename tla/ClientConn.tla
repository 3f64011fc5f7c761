----------------------------- MODULE ClientConn -----------------------------
(***************************************************************************)
(* The connections of the USB/IP server (usbip_server.c): the accept loop, *)
(* one task per client, DEVLIST and IMPORT, and for an imported device one *)
(* URB at a time (UrbStream has them side by side, PipePool their way      *)
(* through the backend).  Devices are looked up in a BusTable, again for   *)
(* every URB, while devices come and go; virtual devices are always there. *)
(* A CDC device (virtual_cdc.c) takes OUT transfers into a stream buffer,  *)
(* drained by a task of the device.                                        *)
(***************************************************************************)
EXTENDS BusTable, Integers, Sequences, FiniteSets

CONSTANTS
    Conns,      \* connections that clients open
    Asks,       \* the busids that each of them may ask for
    MaxFds,     \* descriptors for them and for the HTTP server's
    HttpPeer,   \* a connection to the HTTP server
    Virtuals,   \* busids of the virtual devices
    RxSize,     \* size of that buffer, which is also the largest OUT payload
    NoDevice    \* no device found

ASSUME ClientAssumption ==
    /\ MaxFds \in Nat \ {0}
    /\ RxSize \in Nat \ {0}
    /\ NoDevice \notin Listing \cup Virtuals \cup Handles
    /\ Free \notin Listing
    /\ Virtuals \cap (Addresses \cup Listing) = {}    \* another bus number
    /\ Conns \cap {Free, HttpPeer} = {} /\ Free # HttpPeer
    /\ Asks \in [Conns -> SUBSET (Addresses \cup Virtuals)]
    /\ IsFiniteSet(Conns)

VARIABLES
    backlog,    \* connections the peer has opened, not accepted yet
    left,       \* open connections that the peer has closed
    srv,        \* where usbip_server_task is
    hand,       \* client_fd: the connection it has accepted, if any
    sock,       \* the connection behind each descriptor, Free when it is closed
    fd,         \* the descriptor each connection's code keeps, or 0
    http,       \* the one that http_server_task keeps, or 0
    stolen,     \* history: it has closed a client's
    active,     \* active_connections
    task,       \* where each connection's client_task is
    want,       \* requested_busid
    dev,        \* what IMPORT found: a listing, a virtual device or none
    moved,      \* history: connections whose imported address was listed anew
    rx,         \* bytes in the stream buffer of a CDC device's OUT transfers
    need        \* bytes an OUT transfer still has to store

peerVars == <<backlog, left>>
srvVars == <<srv, hand, active>>
fdVars == <<sock, fd, http, stolen>>
connVars == <<fdVars, task, want, dev, moved>>
cdcVars == <<rx, need>>
vars == <<table, backlog, left, srv, hand, sock, fd, http, stolen, active, task,
          want, dev, moved, rx, need>>

Fds == 1 .. MaxFds
FreeFds == {k \in Fds : sock[k] = Free}
NoneFree == FreeFds = {}
Lowest(k) == k \in FreeFds /\ \A j \in FreeFds : k <= j

Busids == Addresses \cup Virtuals
Found == Listing \cup Virtuals \cup {NoDevice}

Init ==
    /\ TableInit
    /\ backlog = <<>> /\ left = {}
    /\ srv = "accept" /\ hand = {} /\ active = 0
    /\ sock = [k \in Fds |-> Free] /\ fd = [c \in Conns |-> 0]
    /\ http = 0 /\ stolen = FALSE
    /\ task = [c \in Conns |-> "none"]
    /\ want = [c \in Conns |-> NoDevice]
    /\ dev = [c \in Conns |-> NoDevice]
    /\ moved = {}
    /\ rx = [v \in Virtuals |-> 0] /\ need = [c \in Conns |-> 0]

-----------------------------------------------------------------------------
(* The peers, and the devices on the bus.                                  *)

InBacklog(c) == \E i \in DOMAIN backlog : backlog[i] = c

Connect(c) ==
    /\ ~ InBacklog(c) /\ fd[c] = 0 /\ task[c] = "none"
    /\ backlog' = Append(backlog, c)
    /\ UNCHANGED <<table, left, srvVars, connVars, cdcVars>>

Leave(c) ==
    /\ c \notin left /\ \E k \in Fds : sock[k] = c
    /\ left' = left \cup {c}
    /\ UNCHANGED <<table, backlog, srvVars, connVars, cdcVars>>

\* Connections that have imported what is listed at a.
Importers(a) == {c \in Conns : dev[c] \in Listing /\ dev[c].devnum = a}

Relisted(a) ==
    /\ \/ \E s \in Slots, h \in Handles : Enter(s, h, a)
       \/ \E s, t \in Slots, h \in Handles : Replace(s, t, h, a)
    /\ moved' = moved \cup Importers(a)

\* close: whatever is behind the descriptor, if anything.
Shut(k) == sock' = [sock EXCEPT ![k] = Free] /\ left' = left \ {sock[k]}

HttpAccept ==
    /\ http = 0 /\ http' \in Fds /\ Lowest(http')
    /\ sock' = [sock EXCEPT ![http'] = HttpPeer]
    /\ UNCHANGED <<left, stolen>>

\* handle_connection has no memory for its buffer and closes the descriptor,
\* which http_server_task is about to close.
HttpNoMemory ==
    /\ http # 0 /\ sock[http] = HttpPeer
    /\ Shut(http)
    /\ UNCHANGED <<http, stolen>>

HttpClose ==
    /\ http # 0 /\ http' = 0
    /\ Shut(http)
    /\ stolen' = (stolen \/ sock[http] \in Conns)

\* http_server_task takes its descriptors, one at a time, from the same set.
Http ==
    /\ HttpAccept \/ HttpNoMemory \/ HttpClose
    /\ UNCHANGED <<table, backlog, srvVars, fd, task, want, dev, moved, cdcVars>>

DevicesChange ==
    /\ \/ \E a \in Addresses : Relisted(a)
       \/ \E s \in Slots : Remove(s) /\ UNCHANGED moved
    /\ UNCHANGED <<peerVars, srvVars, fdVars, task, want, dev, cdcVars>>

-----------------------------------------------------------------------------
(* usbip_server_task.                                                      *)

Accept ==
    /\ srv = "accept"
    /\ backlog # <<>>
    /\ hand' = {Head(backlog)} /\ backlog' = Tail(backlog)
    /\ \E k \in Fds :
         /\ Lowest(k)
         /\ sock' = [sock EXCEPT ![k] = Head(backlog)]
         /\ fd' = [fd EXCEPT ![Head(backlog)] = k]
    /\ srv' = "count"
    /\ UNCHANGED <<table, left, active, http, stolen, task, want, dev, moved, cdcVars>>

\* accept has no descriptor to give: the loop calls it again.  The connection
\* waits, or is lost with the attempt.
AcceptFails ==
    /\ srv = "accept"
    /\ backlog # <<>> /\ NoneFree
    /\ backlog' = Tail(backlog)
    /\ UNCHANGED <<table, left, srvVars, connVars, cdcVars>>

Count ==
    /\ srv = "count"
    /\ active' = active + 1
    /\ srv' = "start"
    /\ UNCHANGED <<table, peerVars, hand, connVars, cdcVars>>

Start ==
    /\ srv = "start"
    /\ task' = [c \in Conns |-> IF c \in hand THEN "request" ELSE task[c]]
    /\ srv' = "accept" /\ hand' = {}
    /\ UNCHANGED <<table, peerVars, active, fdVars, want, dev, moved, cdcVars>>

\* Mutant: the descriptor stays open.
StartFailsOpen ==
    /\ srv = "start"
    /\ srv' = "uncount" /\ hand' = {}
    /\ UNCHANGED <<table, peerVars, active, connVars, cdcVars>>

\* No memory for the context, or no task.
StartFails ==
    /\ srv = "start"
    /\ \E c \in hand : Shut(fd[c]) /\ fd' = [fd EXCEPT ![c] = 0]
    /\ srv' = "uncount" /\ hand' = {}
    /\ UNCHANGED <<table, backlog, active, http, stolen, task, want, dev, moved, cdcVars>>

\* Mutant: the server gives up after a failure.
SrvUncountStop ==
    /\ srv = "uncount" /\ active' = active - 1 /\ srv' = "stopped"
    /\ UNCHANGED <<table, peerVars, hand, connVars, cdcVars>>
SrvUncount ==
    /\ srv = "uncount"
    /\ active' = active - 1
    /\ srv' = "accept"
    /\ UNCHANGED <<table, peerVars, hand, connVars, cdcVars>>

Server == Accept \/ AcceptFails \/ Count \/ Start \/ StartFails \/ SrvUncount

-----------------------------------------------------------------------------
(* client_task.                                                            *)

Goto(c, from, to) == task[c] = from /\ task' = [task EXCEPT ![c] = to]
ConnOnly(c) == UNCHANGED <<table, peerVars, srvVars, fdVars, want, dev, moved, cdcVars>>

\* Behind c's descriptor is a client that may send something.
Heard(c) == sock[fd[c]] \in Conns \ left

\* handle_client returns, and its busid and device are gone.
Returns(c, from) ==
    /\ Goto(c, from, "close")
    /\ want' = [want EXCEPT ![c] = NoDevice]
    /\ dev' = [dev EXCEPT ![c] = NoDevice]
    /\ moved' = moved \ {c}
    /\ UNCHANGED <<table, peerVars, srvVars, fdVars, cdcVars>>

\* handle_client: a header of another version or operation ends the connection.
Request(c) ==
    /\ \/ \E to \in {"devlist", "import"} : Goto(c, "request", to) /\ ConnOnly(c)
       \/ Returns(c, "request")
    /\ Heard(c)

\* handle_devlist_request copies the table under its lock and appends the
\* virtual devices; whether the reply is sent or not, the connection ends.
Devlist(c) == Returns(c, "devlist")

Import(c) ==
    /\ Goto(c, "import", "look")
    /\ Heard(c)
    /\ \E b \in Asks[c] : want' = [want EXCEPT ![c] = b]
    /\ UNCHANGED <<table, peerVars, srvVars, fdVars, dev, moved, cdcVars>>

\* Mutant: the end of the stream before the first header is not noticed.
ReadFailsRetry(c) ==
    /\ \E from \in {"import", "stream"} : Returns(c, from)
    /\ ~ Heard(c)

\* read_exact fails, in any of the places that read from the peer.  At the end
\* of a stream that is after its teardown.
ReadFails(c) ==
    /\ \E from \in {"request", "import", "stream"} : Returns(c, from)
    /\ ~ Heard(c)

\* Mutant: the first device in the table, whatever its busid.
AtFirst(b) == Listed
\* find_slot_by_busid_locked
AtBusid(b) == At(b)

\* usb_backend_get_device_by_busid: the table, then the virtual devices.
Lookup(b) ==
    IF AtBusid(b) # {} THEN {table[s] : s \in AtBusid(b)}
    ELSE IF b \in Virtuals THEN {b} ELSE {NoDevice}

\* handle_import_request, once it has the busid.
Look(c) ==
    /\ Goto(c, "look", "reply")
    /\ \E d \in Lookup(want[c]) : dev' = [dev EXCEPT ![c] = d]
    /\ moved' = moved \ {c}
    /\ UNCHANGED <<table, peerVars, srvVars, fdVars, want, cdcVars>>

\* The reply is sent, and handle_urb_stream has its context.
Reply(c) ==
    /\ task[c] = "reply" /\ sock[fd[c]] # Free
    /\ IF dev[c] = NoDevice THEN Returns(c, "reply") ELSE Goto(c, "reply", "stream") /\ ConnOnly(c)

\* The peer is gone, or the context cannot be had.
ReplyFails(c) == Returns(c, "reply")

\* A CMD_SUBMIT to a real device.
Submit(c) ==
    /\ Goto(c, "stream", "urb")
    /\ Heard(c) /\ dev[c] \in Listing
    /\ ConnOnly(c)

\* prepare_and_submit_transfer looks the busid up again: whoever has it gets
\* the transfer, or nobody has it any more, and the answer is ENODEV.
Reached(c) == {table[s].handle : s \in AtBusid(want[c])}
Reach(c) == Goto(c, "urb", "stream") /\ ConnOnly(c)

\* handle_client has returned: close(fd).
Close(c) ==
    /\ Goto(c, "close", "uncount")
    /\ Shut(fd[c]) /\ fd' = [fd EXCEPT ![c] = 0]
    /\ UNCHANGED <<table, backlog, srvVars, http, stolen, want, dev, moved, cdcVars>>

Uncount(c) ==
    /\ Goto(c, "uncount", "none")
    /\ active' = active - 1
    /\ UNCHANGED <<table, peerVars, srv, hand, fdVars, want, dev, moved, cdcVars>>

-----------------------------------------------------------------------------
(* A URB to a virtual CDC device runs in the client's task, whose worker   *)
(* code then deletes the task it runs in.                                  *)

Submitted(c, to) == Goto(c, "stream", to) /\ Heard(c) /\ dev[c] \in Virtuals
KeepRest == UNCHANGED <<table, peerVars, srvVars, fdVars, want, dev, moved>>

\* A control transfer; bulk IN, which takes what there is without waiting; the
\* notification endpoint, or an unknown endpoint.
VirtualOther(c) == Submitted(c, "lost") /\ KeepRest /\ UNCHANGED cdcVars

VirtualOut(c) ==
    /\ Submitted(c, "out")
    /\ \E n \in 1 .. RxSize : need' = [need EXCEPT ![c] = n]
    /\ KeepRest /\ UNCHANGED rx

Room(v) == RxSize - rx[v]

\* xStreamBufferSend finds room for all of it ...
OutStored(c) ==
    /\ Goto(c, "out", "lost")
    /\ need[c] <= Room(dev[c])
    /\ rx' = [rx EXCEPT ![dev[c]] = @ + need[c]]
    /\ need' = [need EXCEPT ![c] = 0]
    /\ KeepRest

\* Mutant: it waits for ever.
OutCutNever(c) == FALSE /\ UNCHANGED vars

\* ... or, after a second, stores what fits.  The rest is lost, and the
\* transfer succeeds.
OutCut(c) ==
    /\ Goto(c, "out", "lost")
    /\ need[c] > Room(dev[c])
    /\ rx' = [rx EXCEPT ![dev[c]] = RxSize]
    /\ need' = [need EXCEPT ![c] = 0]
    /\ KeepRest

\* The device's task takes commands, or does not: it may be waiting for room
\* for its answer in the other buffer, which only a later IN transfer makes.
DeviceReads(v) ==
    /\ \E n \in 1 .. rx[v] : rx' = [rx EXCEPT ![v] = @ - n]
    /\ UNCHANGED <<table, peerVars, srvVars, connVars, need>>

-----------------------------------------------------------------------------

Peer == \E c \in Conns : Connect(c) \/ Leave(c)

\* What the client's task does without waiting for its peer.
Runs(c) ==
    \/ Devlist(c) \/ ReadFails(c) \/ Look(c) \/ Reply(c) \/ ReplyFails(c)
    \/ Reach(c) \/ Close(c) \/ Uncount(c) \/ OutStored(c) \/ OutCut(c)

\* What it does when the peer sends something.
Told(c) ==
    \/ Request(c) \/ Import(c) \/ Submit(c)
    \/ VirtualOther(c) \/ VirtualOut(c)

Client == \E c \in Conns : Runs(c) \/ Told(c)

Device == \E v \in Virtuals : DeviceReads(v)

Next == Peer \/ Http \/ DevicesChange \/ Server \/ Client \/ Device

Spec == Init /\ [][Next]_vars

\* Tasks run; no peer has to say anything, no device task to take anything.
FairSpec == Spec /\ WF_vars(Server) /\ \A c \in Conns : WF_vars(Runs(c))

-----------------------------------------------------------------------------
\* The type invariant.
TypeOK ==
    /\ table \in [Slots -> Listing \cup {Free}]
    /\ backlog \in Seq(Conns) /\ left \subseteq Conns
    /\ srv \in {"accept", "count", "start", "uncount"} /\ hand \subseteq Conns
    /\ sock \in [Fds -> Conns \cup {Free, HttpPeer}] /\ fd \in [Conns -> 0 .. MaxFds]
    /\ http \in 0 .. MaxFds /\ stolen \in BOOLEAN /\ active \in Int
    /\ task \in [Conns -> {"none", "request", "devlist", "import", "look", "reply",
                           "stream", "urb", "out", "close", "uncount", "lost"}]
    /\ want \in [Conns -> Busids \cup {NoDevice}]
    /\ dev \in [Conns -> Found]
    /\ moved \subseteq Conns
    /\ rx \in [Virtuals -> 0 .. RxSize] /\ need \in [Conns -> 0 .. RxSize]

\* Every open descriptor is kept by the code that has yet to close it, on
\* every path out of the accept loop and of the client's task, so that none is
\* left over, even after a descriptor was closed twice.  And nobody's is closed
\* by others, but for the one way the code has of closing one twice: the HTTP
\* server's, without memory, of a descriptor that a client got in between
\* (http_server.c lines 1224 and 1606).  Only a URB to a virtual device deletes
\* a task with its descriptor open.
SocketsOwned ==
    /\ \A k \in Fds : /\ sock[k] \in Conns => fd[sock[k]] = k
                      /\ sock[k] = HttpPeer => http = k
    /\ \A c \in Conns :
         /\ fd[c] # 0 <=> c \in hand \/ task[c] \notin {"none", "uncount"}
         /\ fd[c] # 0 /\ sock[fd[c]] # c => stolen
         /\ task[c] \in {"out", "lost"} => dev[c] \in Virtuals

\* active_connections is the number of descriptors in use, give or take those
\* just opened or closed.
CountExact ==
    active = Cardinality({c \in Conns : task[c] # "none"})
             + (IF srv \in {"start", "uncount"} THEN 1 ELSE 0)

\* The busid is all a stream keeps of its device.  Still a URB reaches another
\* device than the imported one only if that device was listed at the same
\* address after the import.
UrbReachesImported ==
    \A c \in Conns : task[c] = "urb" =>
        \A h \in Reached(c) : h = dev[c].handle \/ c \in moved

\* Once the peer has left, the descriptor comes back, from every place of the
\* client's task, the wait for a CDC device's room included, unless the task is
\* lost.
LeftIsClosed ==
    \A c \in Conns : c \in left ~> (c \notin left \/ task[c] = "lost")

\* Whatever fails for other clients, a client that connects is accepted, unless
\* every descriptor is in use.
BacklogServed ==
    \A c \in Conns : InBacklog(c) ~> (~ InBacklog(c) \/ NoneFree)
=============================================================================
