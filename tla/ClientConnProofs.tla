-------------------------- MODULE ClientConnProofs --------------------------
(***************************************************************************)
(* Invariants of ClientConn, for any number of clients, descriptors,       *)
(* devices, addresses and virtual devices: types, who owns a descriptor,   *)
(* the count of connections, and the device a URB reaches.                 *)
(***************************************************************************)
EXTENDS ClientConn, SequenceTheorems, FiniteSetTheorems, TLAPS

\* A connection waits in one place and has neither descriptor nor task.
BacklogInv ==
    /\ \A i, j \in 1 .. Len(backlog) : backlog[i] = backlog[j] => i = j
    /\ \A i \in 1 .. Len(backlog) : fd[backlog[i]] = 0 /\ task[backlog[i]] = "none"

\* The loop body holds one connection, which has no task yet.
HandInv ==
    /\ srv \in {"accept", "uncount"} => hand = {}
    /\ srv \in {"count", "start"} => \E c \in Conns : hand = {c} /\ task[c] = "none"

\* A busid and an address name one entry.
Unique == \A s, t \in Listed : table[s].devnum = table[t].devnum => s = t

\* Before the look-up there is no device, and a URB is for a listed one.
Early == {"none", "request", "devlist", "import", "look", "close", "uncount"}
Imported ==
    \A c \in Conns : /\ task[c] \in Early => dev[c] = NoDevice
                     /\ task[c] = "urb" => dev[c] \in Listing

\* While the address was not listed anew, whoever is listed there is the device
\* that was imported.
Same(c) ==
    dev[c] \in Listing =>
        /\ dev[c].devnum = want[c]
        /\ c \in moved \/ \A s \in At(dev[c].devnum) : table[s].handle = dev[c].handle
StreamInv == Unique /\ Imported /\ (\A c \in Conns : Same(c))

\* The inductive invariant.
IInv == TypeOK /\ BacklogInv /\ HandInv /\ SocketsOwned /\ CountExact /\ StreamInv

Tasked == {c \in Conns : task[c] # "none"}

-----------------------------------------------------------------------------
(* Helpers.                                                                *)

\* Sets of connections can be counted.
LEMMA Counted ==
    ASSUME NEW S \in SUBSET Conns, NEW c \in Conns
    PROVE  /\ IsFiniteSet(S) /\ Cardinality(S) \in Nat
           /\ c \notin S => Cardinality(S \cup {c}) = Cardinality(S) + 1
           /\ c \in S => Cardinality(S \ {c}) = Cardinality(S) - 1
           /\ Cardinality(S \cup {c}) <= Cardinality(S) + 1
           /\ Cardinality(S \ {c}) <= Cardinality(S)
<1>1. IsFiniteSet(S)  BY ClientAssumption, FS_Subset DEF ClientAssumption
<1>2. Cardinality(S) \in Nat  BY <1>1, FS_CardinalityType
<1>3. Cardinality(S \cup {c}) = IF c \in S THEN Cardinality(S) ELSE Cardinality(S) + 1
  BY <1>1, FS_AddElement
<1>4. Cardinality(S \ {c}) = IF c \in S THEN Cardinality(S) - 1 ELSE Cardinality(S)
  BY <1>1, FS_RemoveElement
<1> QED  BY <1>1, <1>2, <1>3, <1>4

\* The oldest connection of the backlog, and those behind it.
LEMMA Oldest ==
    ASSUME TypeOK, BacklogInv, backlog # <<>>, backlog' = Tail(backlog)
    PROVE  /\ Head(backlog) \in Conns /\ fd[Head(backlog)] = 0 /\ task[Head(backlog)] = "none"
           /\ backlog' \in Seq(Conns)
           /\ \A i \in 1 .. Len(backlog') : /\ i + 1 \in 1 .. Len(backlog)
                                            /\ backlog'[i] = backlog[i + 1]
                                            /\ backlog'[i] # Head(backlog)
           /\ \A i, j \in 1 .. Len(backlog') : backlog'[i] = backlog'[j] => i = j
<1>1. backlog \in Seq(Conns) /\ Len(backlog) \in Nat /\ Len(backlog) > 0
  BY LenProperties, EmptySeq DEF TypeOK
<1>2. /\ Head(backlog) = backlog[1] /\ Head(backlog) \in Conns
      /\ backlog' \in Seq(Conns) /\ Len(backlog') = Len(backlog) - 1
      /\ \A i \in 1 .. Len(backlog') : backlog'[i] = backlog[i + 1]
  BY <1>1, HeadTailProperties, ElementOfSeq
<1>3. 1 \in 1 .. Len(backlog) /\ \A i \in 1 .. Len(backlog') : i + 1 \in 1 .. Len(backlog) /\ i + 1 # 1
  BY <1>1, <1>2
<1> QED  BY <1>2, <1>3 DEF BacklogInv

\* What the count depends on.
LEMMA CountSame ==
    ASSUME CountExact, UNCHANGED <<active, srv>>, \A c \in Conns : task'[c] = "none" <=> task[c] = "none"
    PROVE  CountExact'
<1>1. Tasked' = Tasked  BY DEF Tasked
<1> QED  BY <1>1 DEF CountExact, Tasked

\* close takes what is behind a descriptor from it, and touches no other.
LEMMA ShutOne ==
    ASSUME TypeOK, NEW k \in Fds, Shut(k)
    PROVE  /\ sock' \in [Fds -> Conns \cup {Free, HttpPeer}] /\ left' \subseteq Conns
           /\ sock'[k] = Free /\ \A j \in Fds \ {k} : sock'[j] = sock[j]
  BY DEF TypeOK, Shut

\* What was accepted and is closed by the code that keeps its descriptor.
LEMMA OwnClosed ==
    ASSUME TypeOK, SocketsOwned, NEW c \in Conns, fd[c] # 0,
           Shut(fd[c]), fd' = [fd EXCEPT ![c] = 0], UNCHANGED <<http, stolen>>,
           \A d \in Conns \ {c} :
               d \in hand' \/ task'[d] \notin {"none", "uncount"}
                   <=> d \in hand \/ task[d] \notin {"none", "uncount"},
           c \notin hand' /\ task'[c] \in {"none", "uncount"},
           \A d \in Conns : task'[d] \in {"out", "lost"} => dev'[d] \in Virtuals
    PROVE  /\ sock' \in [Fds -> Conns \cup {Free, HttpPeer}] /\ left' \subseteq Conns
           /\ fd' \in [Conns -> 0 .. MaxFds] /\ fd'[c] = 0
           /\ SocketsOwned'
<1> USE ClientAssumption DEF ClientAssumption
<1> DEFINE k == fd[c]
<1>1. k \in Fds  BY DEF TypeOK, Fds
<1>2. /\ sock' \in [Fds -> Conns \cup {Free, HttpPeer}] /\ left' \subseteq Conns
      /\ sock'[k] = Free /\ \A j \in Fds \ {k} : sock'[j] = sock[j]
  BY <1>1, ShutOne
<1>3. /\ fd' \in [Conns -> 0 .. MaxFds] /\ fd'[c] = 0
      /\ \A d \in Conns \ {c} : fd'[d] = fd[d]
  BY DEF TypeOK
<1>4. ASSUME NEW j \in Fds
      PROVE  /\ sock'[j] \in Conns => fd'[sock'[j]] = j
             /\ sock'[j] = HttpPeer => http' = j
  BY <1>2, <1>3 DEF SocketsOwned
<1>5. ASSUME NEW d \in Conns, fd'[d] # 0, sock'[fd'[d]] # d PROVE stolen'
  <2>1. d # c /\ fd'[d] = fd[d] /\ fd[d] \in Fds
    BY <1>3, <1>5 DEF TypeOK, Fds
  <2>2. CASE fd[d] = k
    <3>1. sock[k] # d \/ sock[k] # c  BY <2>1
    <3> QED  BY <1>5, <2>1, <2>2, <3>1 DEF SocketsOwned
  <2>3. CASE fd[d] # k  BY <1>2, <1>5, <2>1, <2>3 DEF SocketsOwned
  <2> QED  BY <2>2, <2>3
<1>6. ASSUME NEW d \in Conns
      PROVE  fd'[d] # 0 <=> d \in hand' \/ task'[d] \notin {"none", "uncount"}
  BY <1>3 DEF SocketsOwned
<1> QED  BY <1>2, <1>3, <1>4, <1>5, <1>6 DEF SocketsOwned

-----------------------------------------------------------------------------
(* The start.                                                              *)

\* Nothing is open, and the table is empty.
LEMMA InitInv == ASSUME Init PROVE IInv
<1> USE ClientAssumption DEF ClientAssumption
<1>1. TypeOK
  <2>1. backlog \in Seq(Conns)  BY DEF Init
  <2>2. 0 \in 0 .. RxSize  OBVIOUS
  <2>3. 0 \in 0 .. MaxFds  OBVIOUS
  <2>4. table \in [Slots -> Listing \cup {Free}]  BY DEF Init, TableInit
  <2>5. sock \in [Fds -> Conns \cup {Free, HttpPeer}]  BY DEF Init
  <2>6. fd \in [Conns -> 0 .. MaxFds] /\ http \in 0 .. MaxFds  BY <2>3 DEF Init
  <2>7. want \in [Conns -> Busids \cup {NoDevice}] /\ dev \in [Conns -> Found]
    BY DEF Init, Found
  <2>8. rx \in [Virtuals -> 0 .. RxSize] /\ need \in [Conns -> 0 .. RxSize]
    BY <2>2 DEF Init
  <2>9. /\ left \subseteq Conns /\ srv = "accept" /\ hand \subseteq Conns
        /\ active \in Int /\ moved \subseteq Conns
    <3>1. left = {} /\ srv = "accept" /\ hand = {} /\ active = 0 /\ moved = {}
      BY DEF Init
    <3> QED  BY <3>1
  <2>11. stolen \in BOOLEAN  BY DEF Init
  <2>10. task \in [Conns -> {"none", "request", "devlist", "import", "look", "reply",
                             "stream", "urb", "out", "close", "uncount", "lost"}]
    BY DEF Init
  <2> QED  BY <2>1, <2>4, <2>5, <2>6, <2>7, <2>8, <2>9, <2>10, <2>11 DEF TypeOK
<1>2. BacklogInv /\ HandInv  BY DEF Init, BacklogInv, HandInv
<1>3. SocketsOwned  BY DEF Init, SocketsOwned
<1>4. CountExact
  <2>1. {c \in Conns : task[c] # "none"} = {}  BY DEF Init
  <2>2. Cardinality({c \in Conns : task[c] # "none"}) = 0  BY <2>1, FS_EmptySet
  <2>3. active = 0 /\ srv = "accept"  BY DEF Init
  <2> QED  BY <2>2, <2>3 DEF CountExact
<1>5. StreamInv
  BY DEF Init, TableInit, StreamInv, Unique, Imported, Same, Listed
<1> QED  BY <1>1, <1>2, <1>3, <1>4, <1>5 DEF IInv

-----------------------------------------------------------------------------
(* Peers and devices.                                                      *)

\* A step that only the peers, the buffers or the device's task are part of.
LEMMA PeerStep ==
    ASSUME IInv, NEW c \in Conns, Connect(c) \/ Leave(c)
    PROVE  IInv'
<1>1. TypeOK /\ BacklogInv /\ UNCHANGED <<table, srvVars, connVars, cdcVars>>
  BY DEF IInv, Connect, Leave
<1>2. TypeOK' /\ BacklogInv'
  <2>1. CASE Leave(c)
    <3>1. left' \subseteq Conns /\ backlog' = backlog  BY <1>1, <2>1 DEF Leave, TypeOK
    <3> QED  BY <1>1, <3>1 DEF TypeOK, BacklogInv, srvVars, connVars, fdVars, cdcVars
  <2>2. CASE Connect(c)
    <3>1. backlog \in Seq(Conns) /\ Len(backlog) \in Nat  BY <1>1, LenProperties DEF TypeOK
    <3>2. /\ backlog' \in Seq(Conns) /\ Len(backlog') = Len(backlog) + 1
          /\ \A i \in 1 .. Len(backlog) : backlog'[i] = backlog[i] /\ backlog[i] # c
          /\ backlog'[Len(backlog) + 1] = c
      <4>1. backlog' = Append(backlog, c)  BY <2>2 DEF Connect
      <4>2. \A i \in 1 .. Len(backlog) : backlog[i] # c
        BY <2>2, <3>1, LenProperties DEF Connect, InBacklog
      <4> QED  BY <3>1, <4>1, <4>2, AppendProperties
    <3>3. fd[c] = 0 /\ task[c] = "none" /\ left' = left  BY <2>2 DEF Connect
    <3>4. \A i \in 1 .. Len(backlog') : i = Len(backlog) + 1 \/ i \in 1 .. Len(backlog)
      BY <3>1, <3>2
    <3>5. BacklogInv'
      <4>1. UNCHANGED <<fd, task>>  BY <1>1 DEF connVars, fdVars
      <4> QED  BY <1>1, <3>1, <3>2, <3>3, <3>4, <4>1 DEF BacklogInv
    <3> QED  BY <1>1, <3>2, <3>3, <3>5 DEF TypeOK, srvVars, connVars, fdVars, cdcVars
  <2> QED  BY <2>1, <2>2
<1>3. UNCHANGED <<table, srv, hand, active, sock, fd, http, stolen, task, want, dev, moved>>
  BY <1>1 DEF srvVars, connVars, fdVars
<1>4. HandInv' /\ SocketsOwned' /\ CountExact' /\ StreamInv'
  BY <1>3 DEF IInv, HandInv, SocketsOwned, CountExact, StreamInv, Unique, Imported, Same,
              Listed, At
<1> QED  BY <1>2, <1>4 DEF IInv

\* The HTTP server's descriptor, which it may close twice.
LEMMA HttpStep == ASSUME IInv, Http PROVE IInv'
<1> USE ClientAssumption DEF ClientAssumption
<1>1. /\ TypeOK /\ SocketsOwned
      /\ UNCHANGED <<table, backlog, srvVars, fd, task, want, dev, moved, cdcVars>>
  BY DEF IInv, Http
<1>2. /\ sock' \in [Fds -> Conns \cup {Free, HttpPeer}] /\ left' \subseteq Conns
      /\ http' \in 0 .. MaxFds /\ stolen' \in BOOLEAN /\ SocketsOwned'
  <2>1. CASE HttpAccept
    <3>1. /\ http' \in Fds /\ sock[http'] = Free /\ sock' = [sock EXCEPT ![http'] = HttpPeer]
          /\ UNCHANGED <<left, stolen>> /\ http = 0
      BY <2>1 DEF HttpAccept, Lowest, FreeFds
    <3>2. \A c \in Conns : fd[c] # 0 /\ fd[c] = http' => stolen
      BY <1>1, <3>1 DEF SocketsOwned
    <3>3. \A j \in Fds : IF j = http' THEN sock'[j] = HttpPeer ELSE sock'[j] = sock[j]
      BY <1>1, <3>1 DEF TypeOK
    <3>4. \A c \in Conns : fd[c] \in Fds \cup {0}  BY <1>1 DEF TypeOK, Fds
    <3>5. 0 \notin Fds  BY DEF Fds
    <3>6. SocketsOwned'
      BY <1>1, <3>1, <3>2, <3>3, <3>4, <3>5 DEF SocketsOwned, srvVars
    <3> QED  BY <1>1, <3>1, <3>6 DEF TypeOK, Fds
  <2>2. CASE HttpNoMemory \/ HttpClose
    <3>1. http \in Fds /\ Shut(http)  BY <1>1, <2>2 DEF HttpNoMemory, HttpClose, TypeOK, Fds
    <3>2. /\ sock' \in [Fds -> Conns \cup {Free, HttpPeer}] /\ left' \subseteq Conns
          /\ sock'[http] = Free /\ \A j \in Fds \ {http} : sock'[j] = sock[j]
      BY <1>1, <3>1, ShutOne
    <3>3. /\ http' \in {0, http} /\ stolen' \in BOOLEAN
          /\ stolen => stolen'
          /\ sock[http] \in Conns => stolen'
      BY <1>1, <2>2 DEF HttpNoMemory, HttpClose, TypeOK
    <3>4. ASSUME NEW c \in Conns, fd[c] # 0, sock'[fd[c]] # c PROVE stolen'
      <4>1. fd[c] \in Fds  BY <1>1, <3>4 DEF TypeOK, Fds
      <4> QED  BY <1>1, <3>2, <3>3, <3>4, <4>1 DEF SocketsOwned
    <3>5. \A j \in Fds : /\ sock'[j] \in Conns => fd[sock'[j]] = j
                         /\ sock'[j] = HttpPeer => http = j /\ j # http
      BY <1>1, <3>2 DEF SocketsOwned
    <3>6. UNCHANGED <<fd, task, hand, dev>>  BY <1>1 DEF srvVars
    <3>7. SocketsOwned'
      <4>1. \A j \in Fds : /\ sock'[j] \in Conns => fd'[sock'[j]] = j
                           /\ sock'[j] = HttpPeer => http' = j
        BY <3>5, <3>6
      <4>2. \A c \in Conns :
              /\ fd'[c] # 0 <=> c \in hand' \/ task'[c] \notin {"none", "uncount"}
              /\ fd'[c] # 0 /\ sock'[fd'[c]] # c => stolen'
              /\ task'[c] \in {"out", "lost"} => dev'[c] \in Virtuals
        BY <1>1, <3>4, <3>6 DEF SocketsOwned
      <4> QED  BY <4>1, <4>2 DEF SocketsOwned
    <3> QED  BY <1>1, <3>2, <3>3, <3>7 DEF TypeOK
  <2> QED  BY <2>1, <2>2 DEF Http
<1>3. TypeOK'  BY <1>1, <1>2 DEF IInv, TypeOK, srvVars, cdcVars
<1>5. BacklogInv' /\ HandInv' /\ CountExact' /\ StreamInv'
  BY <1>1 DEF IInv, BacklogInv, HandInv, CountExact, StreamInv, Unique, Imported, Same,
              Listed, At, srvVars
<1> QED  BY <1>2, <1>3, <1>5 DEF IInv

\* However the table changes, an address has one entry, and a device that was
\* not listed anew at its address is still the one that is listed there.
LEMMA TableStep ==
    ASSUME IInv, DevicesChange
    PROVE  /\ table' \in [Slots -> Listing \cup {Free}] /\ moved' \subseteq Conns
           /\ Unique' /\ \A c \in Conns : Same(c)'
<1> USE ClientAssumption DEF ClientAssumption
<1>1. /\ table \in [Slots -> Listing \cup {Free}] /\ moved \subseteq Conns /\ Unique
      /\ \A c \in Conns : Same(c)
      /\ UNCHANGED <<dev, want>>
  BY DEF IInv, TypeOK, StreamInv, DevicesChange
<1>2. ASSUME NEW s \in Slots, Remove(s), moved' = moved
      PROVE  /\ table' \in [Slots -> Listing \cup {Free}]
             /\ Unique' /\ \A c \in Conns : Same(c)'
  <2>1. \A t \in Slots : table'[t] = Free \/ table'[t] = table[t]
    BY <1>1, <1>2 DEF Remove
  <2>2. table' \in [Slots -> Listing \cup {Free}]  BY <1>1, <1>2 DEF Remove
  <2> QED  BY <1>1, <1>2, <2>1, <2>2 DEF Unique, Same, Listed, At
<1>3. ASSUME NEW a \in Addresses, NEW s \in Slots, NEW t \in Slots, NEW h \in Handles,
             \/ Enter(t, h, a)
             \/ Replace(s, t, h, a),
             moved' = moved \cup Importers(a)
      PROVE  /\ table' \in [Slots -> Listing \cup {Free}] /\ moved' \subseteq Conns
             /\ Unique' /\ \A c \in Conns : Same(c)'
  <2>1. List(h, a) \in Listing /\ List(h, a).devnum = a /\ List(h, a) # Free
    BY DEF List, Listing
  <2>2. table' \in [Slots -> Listing \cup {Free}] /\ moved' \subseteq Conns
    BY <1>1, <1>3, <2>1 DEF Enter, Replace, Importers
  <2>3. table'[t] = List(h, a)
    BY <1>1, <1>3 DEF Enter, Replace
  <2>4. ASSUME NEW u \in Slots, u # t
        PROVE  table'[u] = Free \/ (table'[u] = table[u] /\ table[u] \in Listing /\ table[u].devnum # a)
    <3>1. CASE Enter(t, h, a)
      BY <1>1, <2>4, <3>1 DEF Enter, At, Listed
    <3>2. CASE Replace(s, t, h, a)
      <4>1. CASE u = s  BY <1>1, <2>4, <3>2, <4>1 DEF Replace
      <4>2. CASE u # s  BY <1>1, <2>4, <3>2, <4>2 DEF Replace, At, Listed, Unique
      <4> QED  BY <4>1, <4>2
    <3> QED  BY <1>3, <3>1, <3>2
  <2>5. Unique'
    BY <1>1, <2>1, <2>3, <2>4 DEF Unique, Listed
  <2>6. ASSUME NEW c \in Conns PROVE Same(c)'
    <3>1. CASE dev[c] \notin Listing  BY <1>1, <3>1 DEF Same
    <3>2. CASE dev[c] \in Listing /\ dev[c].devnum = a
      BY <1>1, <1>3, <3>2 DEF Same, Importers
    <3>3. CASE dev[c] \in Listing /\ dev[c].devnum # a
      BY <1>1, <1>3, <2>1, <2>3, <2>4, <3>3 DEF Same, At, Listed
    <3> QED  BY <3>1, <3>2, <3>3
  <2> QED  BY <2>2, <2>5, <2>6
<1>4. CASE \E s \in Slots : Remove(s) /\ UNCHANGED moved
  BY <1>1, <1>2, <1>4
<1>5. ASSUME NEW a \in Addresses, Relisted(a)
      PROVE  /\ table' \in [Slots -> Listing \cup {Free}] /\ moved' \subseteq Conns
             /\ Unique' /\ \A c \in Conns : Same(c)'
  BY <1>3, <1>5 DEF Relisted
<1> QED  BY <1>4, <1>5 DEF DevicesChange

\* Devices come and go.
LEMMA DevicesStep == ASSUME IInv, DevicesChange PROVE IInv'
<1>1. UNCHANGED <<peerVars, srvVars, sock, fd, http, stolen, task, want, dev, cdcVars>>
  BY DEF DevicesChange, fdVars
<1>2. TypeOK'  BY <1>1, TableStep DEF IInv, TypeOK, peerVars, srvVars, cdcVars
<1>3. BacklogInv' /\ HandInv' /\ SocketsOwned' /\ CountExact' /\ Imported'
  BY <1>1 DEF IInv, BacklogInv, HandInv, SocketsOwned, CountExact, StreamInv, Imported,
              peerVars, srvVars
<1> QED  BY <1>2, <1>3, TableStep DEF IInv, StreamInv

-----------------------------------------------------------------------------
(* The server's loop.                                                      *)

\* A step that leaves the table and the streams alone, and starts tasks only
\* where there were none.
LEMMA StreamSame ==
    ASSUME StreamInv, UNCHANGED <<table, want, dev, moved>>,
           \A c \in Conns : task'[c] = task[c] \/ (task[c] = "none" /\ task'[c] = "request")
    PROVE  StreamInv'
<1>1. Imported'  BY DEF StreamInv, Imported, Early
<1> QED  BY <1>1 DEF StreamInv, Unique, Same, Listed, At

\* accept returns a connection, and it is in nobody else's hand.
LEMMA AcceptStep == ASSUME IInv, Accept PROVE IInv'
<1> USE ClientAssumption DEF ClientAssumption
<1> DEFINE c == Head(backlog)
<1>1. /\ TypeOK /\ BacklogInv /\ HandInv /\ SocketsOwned /\ CountExact /\ StreamInv
      /\ srv = "accept" /\ hand = {} /\ backlog # <<>>
      /\ hand' = {c} /\ backlog' = Tail(backlog) /\ srv' = "count"
      /\ UNCHANGED <<table, left, active, http, stolen, task, want, dev, moved, cdcVars>>
  BY DEF IInv, Accept, HandInv
<1>2. /\ c \in Conns /\ fd[c] = 0 /\ task[c] = "none" /\ backlog' \in Seq(Conns)
      /\ \A i \in 1 .. Len(backlog') : i + 1 \in 1 .. Len(backlog)
                                       /\ backlog'[i] = backlog[i + 1] /\ backlog'[i] # c
      /\ \A i, j \in 1 .. Len(backlog') : backlog'[i] = backlog'[j] => i = j
  BY <1>1, Oldest
<1>0. PICK k \in Fds :
        sock[k] = Free /\ sock' = [sock EXCEPT ![k] = c] /\ fd' = [fd EXCEPT ![c] = k]
  BY DEF Accept, Lowest, FreeFds
<1> HIDE DEF c
<1>a. /\ sock' \in [Fds -> Conns \cup {Free, HttpPeer}] /\ fd' \in [Conns -> 0 .. MaxFds]
      /\ sock'[k] = c /\ fd'[c] = k /\ k # 0
      /\ \A j \in Fds \ {k} : sock'[j] = sock[j]
      /\ \A d \in Conns \ {c} : fd'[d] = fd[d]
  BY <1>0, <1>1, <1>2 DEF TypeOK, Fds
<1>b. /\ UNCHANGED <<table, left, active, http, stolen, task, want, dev, moved, rx, need>>
      /\ srv' = "count" /\ hand' = {c}
  BY <1>1 DEF cdcVars
<1>c. TypeOK /\ SocketsOwned /\ c \in Conns /\ backlog' \in Seq(Conns)  BY <1>1, <1>2
<1>3. TypeOK'
  <2>1. hand' \subseteq Conns  BY <1>b, <1>c
  <2> QED  BY <1>a, <1>b, <1>c, <2>1 DEF TypeOK
<1>4. BacklogInv'
  <2>1. \A i \in 1 .. Len(backlog') : backlog'[i] \in Conns
    BY <1>2, ElementOfSeq
  <2>2. \A i \in 1 .. Len(backlog) : fd[backlog[i]] = 0 /\ task[backlog[i]] = "none"
    BY <1>1 DEF BacklogInv
  <2>3. \A i \in 1 .. Len(backlog') : fd'[backlog'[i]] = 0 /\ task'[backlog'[i]] = "none"
    <3> SUFFICES ASSUME NEW i \in 1 .. Len(backlog')
                 PROVE  fd'[backlog'[i]] = 0 /\ task'[backlog'[i]] = "none"
      OBVIOUS
    <3>1. /\ i + 1 \in 1 .. Len(backlog) /\ backlog'[i] = backlog[i + 1]
          /\ backlog'[i] \in Conns \ {c}
      BY <1>2, <2>1
    <3>2. fd[backlog'[i]] = 0 /\ task[backlog'[i]] = "none"  BY <2>2, <3>1
    <3> QED  BY <1>a, <1>b, <3>1, <3>2
  <2> QED  BY <1>2, <2>3 DEF BacklogInv
<1>5. HandInv'  BY <1>1, <1>2 DEF HandInv
<1>6. SocketsOwned'
  <2>1. ASSUME NEW j \in Fds
        PROVE  /\ sock'[j] \in Conns => fd'[sock'[j]] = j
               /\ sock'[j] = HttpPeer => http' = j
    <3>1. CASE j = k  BY <1>2, <1>a, <3>1
    <3>2. CASE j # k
      <4>1. sock'[j] = sock[j] /\ j # 0  BY <1>a, <3>2 DEF Fds
      <4> QED  BY <1>1, <1>2, <1>a, <4>1 DEF SocketsOwned
    <3> QED  BY <3>1, <3>2
  <2>2. ASSUME NEW d \in Conns, fd'[d] # 0, sock'[fd'[d]] # d PROVE stolen'
    <3>1. d # c /\ fd'[d] = fd[d] /\ fd[d] \in Fds
      <4>1. d # c  BY <1>a, <2>2
      <4>2. fd'[d] = fd[d]  BY <1>a, <4>1
      <4>3. fd[d] \in 0 .. MaxFds  BY <1>c DEF TypeOK
      <4> QED  BY <2>2, <4>1, <4>2, <4>3 DEF Fds
    <3>2. sock[fd[d]] # d
      <4>1. CASE fd[d] = k  BY <1>0, <4>1
      <4>2. CASE fd[d] # k  BY <1>a, <2>2, <3>1, <4>2
      <4> QED  BY <4>1, <4>2
    <3> QED  BY <1>1, <2>2, <3>1, <3>2 DEF SocketsOwned
  <2>3. ASSUME NEW d \in Conns
        PROVE  /\ fd'[d] # 0 <=> d \in hand' \/ task'[d] \notin {"none", "uncount"}
               /\ task'[d] \in {"out", "lost"} => dev'[d] \in Virtuals
    <3>1. CASE d = c  BY <1>2, <1>a, <1>b, <3>1
    <3>2. CASE d # c
      <4>1. d \notin hand /\ d \notin hand' /\ fd'[d] = fd[d]  BY <1>1, <1>a, <1>b, <3>2
      <4> QED  BY <1>b, <1>c, <4>1 DEF SocketsOwned
    <3> QED  BY <3>1, <3>2
  <2> QED  BY <2>1, <2>2, <2>3 DEF SocketsOwned
<1>7. CountExact'  BY <1>1 DEF CountExact
<1>8. StreamInv'  BY <1>1, StreamSame
<1> QED  BY <1>3, <1>4, <1>5, <1>6, <1>7, <1>8 DEF IInv

\* accept fails, and a connection is lost with it.
LEMMA AcceptFailsStep == ASSUME IInv, AcceptFails PROVE IInv'
<1>1. /\ TypeOK /\ BacklogInv /\ backlog # <<>> /\ backlog' = Tail(backlog)
      /\ UNCHANGED <<table, left, srvVars, connVars, cdcVars>>
  BY DEF IInv, AcceptFails
<1>2. UNCHANGED <<table, left, srv, hand, active, sock, fd, http, stolen, task, want, dev, moved, rx, need>>
  BY <1>1 DEF srvVars, connVars, fdVars, cdcVars
<1>3. TypeOK' /\ BacklogInv'
  <2>1. /\ backlog' \in Seq(Conns)
        /\ \A i \in 1 .. Len(backlog') : i + 1 \in 1 .. Len(backlog)
                                         /\ backlog'[i] = backlog[i + 1]
        /\ \A i, j \in 1 .. Len(backlog') : backlog'[i] = backlog'[j] => i = j
    BY <1>1, Oldest
  <2>2. TypeOK'  BY <1>1, <1>2, <2>1 DEF TypeOK
  <2> QED  BY <1>1, <1>2, <2>1, <2>2 DEF BacklogInv
<1>4. HandInv' /\ SocketsOwned' /\ CountExact'
  BY <1>2 DEF IInv, HandInv, SocketsOwned, CountExact
<1>5. StreamInv'  BY <1>2, StreamSame DEF IInv
<1> QED  BY <1>3, <1>4, <1>5 DEF IInv

\* The connection is counted, then its task starts.
LEMMA StartStep == ASSUME IInv, Count \/ Start PROVE IInv'
<1>1. TypeOK /\ BacklogInv /\ HandInv /\ SocketsOwned /\ CountExact /\ StreamInv
  BY DEF IInv
<1>2. CASE Count
  <2>1. /\ UNCHANGED <<table, backlog, left, hand, sock, fd, http, stolen, task, want, dev, moved, rx, need>>
        /\ srv = "count" /\ srv' = "start" /\ active' = active + 1
    BY <1>2 DEF Count, peerVars, connVars, fdVars, cdcVars
  <2>2. TypeOK'  BY <1>1, <2>1 DEF TypeOK
  <2>3. BacklogInv' /\ HandInv' /\ SocketsOwned'
    BY <1>1, <2>1 DEF BacklogInv, HandInv, SocketsOwned
  <2>4. CountExact'
    <3>1. Cardinality(Tasked) \in Nat
      BY FS_Subset, FS_CardinalityType, ClientAssumption DEF Tasked, ClientAssumption
    <3>2. active = Cardinality(Tasked)  BY <1>1, <2>1, <3>1 DEF CountExact, Tasked
    <3>3. Tasked' = Tasked  BY <2>1 DEF Tasked
    <3> QED  BY <2>1, <3>1, <3>2, <3>3 DEF CountExact, Tasked
  <2>5. StreamInv'  BY <1>1, <2>1, StreamSame
  <2> QED  BY <2>2, <2>3, <2>4, <2>5 DEF IInv
<1>3. CASE Start
  <2>1. /\ UNCHANGED <<table, backlog, left, active, sock, fd, http, stolen, want, dev, moved, rx, need>>
        /\ srv = "start" /\ srv' = "accept" /\ hand' = {}
        /\ task' = [c \in Conns |-> IF c \in hand THEN "request" ELSE task[c]]
    BY <1>3 DEF Start, peerVars, fdVars, cdcVars
  <2> PICK c \in Conns : hand = {c} /\ task[c] = "none"
    BY <1>1, <2>1 DEF HandInv
  <2>2. /\ task'[c] = "request"
        /\ \A d \in Conns : d # c => task'[d] = task[d]
    BY <1>1, <2>1 DEF TypeOK
  <2>3. TypeOK'  BY <1>1, <2>1 DEF TypeOK
  <2>4. SocketsOwned'
    <3>1. \A d \in Conns : d \in hand' \/ task'[d] \notin {"none", "uncount"}
            <=> d \in hand \/ task[d] \notin {"none", "uncount"}
      BY <2>1, <2>2
    <3>2. \A d \in Conns : task'[d] \in {"out", "lost"} => task[d] \in {"out", "lost"}
      BY <2>2
    <3> QED  BY <1>1, <2>1, <3>1, <3>2 DEF SocketsOwned
  <2>5. BacklogInv'
    <3>1. fd[c] # 0  BY <1>1 DEF SocketsOwned
    <3>2. \A i \in 1 .. Len(backlog) : backlog[i] \in Conns
      BY <1>1, ElementOfSeq DEF TypeOK
    <3> QED  BY <1>1, <2>1, <2>2, <3>1, <3>2 DEF BacklogInv
  <2>6. HandInv'  BY <2>1 DEF HandInv
  <2>7. CountExact'
    <3>1. Tasked \in SUBSET Conns /\ c \notin Tasked /\ Tasked' = Tasked \cup {c}
      BY <2>2 DEF Tasked
    <3>2. Cardinality(Tasked') = Cardinality(Tasked) + 1 /\ Cardinality(Tasked) \in Nat
      BY <3>1, Counted
    <3> QED  BY <1>1, <2>1, <3>2 DEF CountExact, Tasked
  <2>8. StreamInv'
    <3>1. \A d \in Conns : task'[d] = task[d] \/ (task[d] = "none" /\ task'[d] = "request")
      BY <2>2
    <3> QED  BY <1>1, <2>1, <3>1, StreamSame
  <2> QED  BY <2>3, <2>4, <2>5, <2>6, <2>7, <2>8 DEF IInv
<1> QED  BY <1>2, <1>3

\* The task cannot be started: the descriptor is closed, then the count is
\* taken back.
LEMMA StartFailsStep == ASSUME IInv, StartFails \/ SrvUncount PROVE IInv'
<1>1. TypeOK /\ BacklogInv /\ HandInv /\ SocketsOwned /\ CountExact /\ StreamInv
  BY DEF IInv
<1>2. CASE StartFails
  <2>1. /\ UNCHANGED <<table, backlog, active, http, stolen, task, want, dev, moved, rx, need>>
        /\ srv = "start" /\ srv' = "uncount" /\ hand' = {}
    BY <1>2 DEF StartFails, cdcVars
  <2> PICK c \in Conns : hand = {c} /\ task[c] = "none"
    BY <1>1, <2>1 DEF HandInv
  <2>0. Shut(fd[c]) /\ fd' = [fd EXCEPT ![c] = 0] /\ fd[c] # 0
    BY <1>1, <1>2 DEF StartFails, SocketsOwned
  <2>a. /\ sock' \in [Fds -> Conns \cup {Free, HttpPeer}] /\ left' \subseteq Conns
        /\ fd' \in [Conns -> 0 .. MaxFds] /\ fd'[c] = 0
        /\ SocketsOwned'
    <3>1. \A d \in Conns : task'[d] \in {"out", "lost"} => dev'[d] \in Virtuals
      BY <1>1, <2>1 DEF SocketsOwned
    <3> QED  BY <1>1, <2>0, <2>1, <3>1, OwnClosed
  <2>2. TypeOK'  BY <1>1, <2>1, <2>a DEF TypeOK
  <2>4. BacklogInv' /\ HandInv' /\ CountExact'
    <3>1. \A i \in 1 .. Len(backlog) : backlog[i] \in Conns
      BY <1>1, ElementOfSeq DEF TypeOK
    <3>2. \A d \in Conns : fd[d] = 0 => fd'[d] = 0  BY <1>1, <2>0 DEF TypeOK
    <3> QED  BY <1>1, <2>1, <3>1, <3>2 DEF BacklogInv, HandInv, CountExact
  <2>5. StreamInv'  BY <1>1, <2>1, StreamSame
  <2> QED  BY <2>a, <2>2, <2>4, <2>5 DEF IInv
<1>3. CASE SrvUncount
  <2>1. /\ UNCHANGED <<table, backlog, left, hand, sock, fd, http, stolen, task, want, dev, moved, rx, need>>
        /\ srv = "uncount" /\ srv' = "accept" /\ active' = active - 1
    BY <1>3 DEF SrvUncount, peerVars, connVars, fdVars, cdcVars
  <2>2. TypeOK'  BY <1>1, <2>1 DEF TypeOK
  <2>3. BacklogInv' /\ HandInv' /\ SocketsOwned'
    BY <1>1, <2>1 DEF BacklogInv, HandInv, SocketsOwned
  <2>4. CountExact'
    <3>1. Cardinality(Tasked) \in Nat
      BY FS_Subset, FS_CardinalityType, ClientAssumption DEF Tasked, ClientAssumption
    <3>2. active = Cardinality(Tasked) + 1  BY <1>1, <2>1, <3>1 DEF CountExact, Tasked
    <3>3. Tasked' = Tasked  BY <2>1 DEF Tasked
    <3> QED  BY <2>1, <3>1, <3>2, <3>3 DEF CountExact, Tasked
  <2>5. StreamInv'  BY <1>1, <2>1, StreamSame
  <2> QED  BY <2>2, <2>3, <2>4, <2>5 DEF IInv
<1> QED  BY <1>2, <1>3

-----------------------------------------------------------------------------
(* A client's task.                                                        *)

Tasks == {"none", "request", "devlist", "import", "look", "reply",
          "stream", "urb", "out", "close", "uncount", "lost"}

\* A task that has its descriptor goes on and keeps it.
LEMMA TaskMoves ==
    ASSUME IInv, NEW c \in Conns, NEW to \in Tasks \ {"none", "uncount"},
           task[c] \notin {"none", "uncount"}, task' = [task EXCEPT ![c] = to],
           UNCHANGED <<backlog, srv, hand, active, fdVars>>,
           \A d \in Conns : task'[d] \in {"out", "lost"} => dev'[d] \in Virtuals
    PROVE  task' \in [Conns -> Tasks] /\ BacklogInv' /\ HandInv' /\ SocketsOwned' /\ CountExact'
<1>1. /\ TypeOK /\ BacklogInv /\ HandInv /\ SocketsOwned /\ CountExact
      /\ UNCHANGED <<sock, fd, http, stolen>>
  BY DEF IInv, fdVars
<1>2. /\ task' \in [Conns -> Tasks] /\ task'[c] = to
      /\ \A d \in Conns : d # c => task'[d] = task[d]
  BY <1>1 DEF TypeOK, Tasks
<1>3. BacklogInv'
  <2>1. \A i \in 1 .. Len(backlog) : backlog[i] \in Conns
    BY <1>1, ElementOfSeq DEF TypeOK
  <2> QED  BY <1>1, <1>2, <2>1 DEF BacklogInv
<1>4. HandInv'
  BY <1>1, <1>2 DEF HandInv
<1>5. SocketsOwned'
  <2>1. \A d \in Conns : task'[d] \in {"none", "uncount"} <=> task[d] \in {"none", "uncount"}
    BY <1>2
  <2> QED  BY <1>1, <2>1 DEF SocketsOwned
<1>6. CountExact'
  <2>1. \A d \in Conns : task'[d] = "none" <=> task[d] = "none"  BY <1>2
  <2> QED  BY <1>1, <2>1, CountSame
<1> QED  BY <1>2, <1>3, <1>4, <1>5, <1>6

\* A step of c's task leaves the others' streams alone, and its own is left to
\* show.
LEMMA OthersSame ==
    ASSUME IInv, NEW c \in Conns, UNCHANGED table,
           \A d \in Conns \ {c} : /\ task'[d] = task[d] /\ want'[d] = want[d] /\ dev'[d] = dev[d]
                                  /\ (d \in moved' <=> d \in moved),
           task'[c] \in Early => dev'[c] = NoDevice,
           task'[c] = "urb" => dev'[c] \in Listing,
           Same(c)'
    PROVE  StreamInv'
<1>1. StreamInv  BY DEF IInv
<1>2. Unique'  BY <1>1 DEF StreamInv, Unique, Listed
<1>3. ASSUME NEW d \in Conns, d # c PROVE Same(d)'
  BY <1>1, <1>3 DEF StreamInv, Same, At, Listed
<1>4. Imported'  BY <1>1 DEF StreamInv, Imported, Early
<1> QED  BY <1>2, <1>3, <1>4 DEF StreamInv

\* Steps that only move the task, or store bytes.
LEMMA MovesOnly ==
    ASSUME IInv, NEW c \in Conns, NEW to \in Tasks \ {"none", "uncount"},
           task[c] \notin {"none", "uncount"}, task' = [task EXCEPT ![c] = to],
           UNCHANGED <<table, peerVars, srvVars, fdVars, want, dev, moved>>,
           to \in Early => task[c] \in Early,
           to = "urb" => dev[c] \in Listing,
           to \in {"out", "lost"} => dev[c] \in Virtuals,
           rx' \in [Virtuals -> 0 .. RxSize], need' \in [Conns -> 0 .. RxSize]
    PROVE  IInv'
<1>1. TypeOK /\ SocketsOwned /\ StreamInv
      /\ UNCHANGED <<table, backlog, left, srv, hand, active, sock, fd, http, stolen, want, dev, moved>>
  BY DEF IInv, peerVars, srvVars, fdVars
<1>2. task'[c] = to /\ \A d \in Conns : d # c => task'[d] = task[d]
  BY <1>1 DEF TypeOK
<1>3. \A d \in Conns : task'[d] \in {"out", "lost"} => dev'[d] \in Virtuals
  BY <1>1, <1>2 DEF SocketsOwned
<1>4. task' \in [Conns -> Tasks] /\ BacklogInv' /\ HandInv' /\ SocketsOwned' /\ CountExact'
  BY <1>1, <1>3, TaskMoves DEF fdVars
<1>5. TypeOK'  BY <1>1, <1>4 DEF TypeOK, Tasks
<1>6. StreamInv'
  <2>1. Same(c)'  BY <1>1 DEF StreamInv, Same, At, Listed
  <2>2. /\ task'[c] \in Early => dev'[c] = NoDevice
        /\ task'[c] = "urb" => dev'[c] \in Listing
    BY <1>1, <1>2 DEF StreamInv, Imported
  <2> QED  BY <1>1, <1>2, <2>1, <2>2, OthersSame
<1> QED  BY <1>4, <1>5, <1>6 DEF IInv

\* handle_client returns.
LEMMA ReturnStep ==
    ASSUME IInv, NEW c \in Conns, NEW from \in Tasks \ {"none", "uncount"}, Returns(c, from)
    PROVE  IInv'
<1> USE ClientAssumption DEF ClientAssumption
<1>1. /\ TypeOK /\ SocketsOwned
      /\ UNCHANGED <<table, backlog, left, srv, hand, active, fdVars, rx, need>>
      /\ task[c] = from /\ task' = [task EXCEPT ![c] = "close"] /\ moved' = moved \ {c}
      /\ want' = [want EXCEPT ![c] = NoDevice] /\ dev' = [dev EXCEPT ![c] = NoDevice]
  BY DEF IInv, Returns, Goto, peerVars, srvVars, cdcVars
<1>2. /\ task'[c] = "close" /\ dev'[c] = NoDevice
      /\ \A d \in Conns \ {c} : /\ task'[d] = task[d] /\ want'[d] = want[d]
                                /\ dev'[d] = dev[d] /\ (d \in moved' <=> d \in moved)
  BY <1>1 DEF TypeOK
<1>3. task' \in [Conns -> Tasks] /\ BacklogInv' /\ HandInv' /\ SocketsOwned' /\ CountExact'
  <2>1. \A d \in Conns : task'[d] \in {"out", "lost"} => dev'[d] \in Virtuals
    BY <1>1, <1>2 DEF SocketsOwned
  <2>2. "close" \in Tasks \ {"none", "uncount"}  BY DEF Tasks
  <2> QED  BY <1>1, <2>1, <2>2, TaskMoves
<1>4. TypeOK'  BY <1>1, <1>3 DEF TypeOK, Tasks, Found, fdVars
<1>5. StreamInv'
  <2>1. Same(c)'  BY <1>2 DEF Same, Listing
  <2> QED  BY <1>1, <1>2, <2>1, OthersSame
<1> QED  BY <1>3, <1>4, <1>5 DEF IInv

\* What the peer asks for, the replies, a URB that finds whoever has its busid
\* now, and the ends of a connection.
LEMMA RequestStep ==
    ASSUME IInv, NEW c \in Conns,
           \/ Request(c) \/ Devlist(c) \/ ReadFails(c) \/ Reply(c) \/ ReplyFails(c)
           \/ Submit(c) \/ Reach(c)
    PROVE  IInv'
<1>0. {"request", "devlist", "import", "reply", "stream"} \subseteq Tasks \ {"none", "uncount"}
  BY DEF Tasks
<1>1. CASE \E from \in {"request", "devlist", "import", "reply", "stream"} : Returns(c, from)
  BY <1>0, <1>1, ReturnStep
<1>2. CASE ~ \E from \in {"request", "devlist", "import", "reply", "stream"} : Returns(c, from)
  <2>1. TypeOK /\ ConnOnly(c)
    BY <1>2 DEF IInv, Request, Devlist, ReadFails, Reply, ReplyFails, Submit, Reach
  <2>2. PICK to \in {"devlist", "import", "stream", "urb"} :
           /\ Goto(c, task[c], to) /\ task[c] \notin {"none", "uncount"}
           /\ to \in Early => task[c] \in Early
           /\ to = "urb" => dev[c] \in Listing
    <3>1. CASE Request(c)
      <4>1. PICK to \in {"devlist", "import"} : Goto(c, "request", to)
        BY <1>2, <3>1 DEF Request
      <4> QED  BY <4>1 DEF Goto, Early
    <3>2. CASE Reply(c)
      <4>1. Goto(c, "reply", "stream")  BY <1>2, <3>2 DEF Reply
      <4> QED  BY <4>1 DEF Goto, Early
    <3>3. CASE Submit(c)
      <4>1. Goto(c, "stream", "urb") /\ dev[c] \in Listing  BY <3>3 DEF Submit
      <4> QED  BY <4>1 DEF Goto, Early
    <3>4. CASE Reach(c)
      <4>1. Goto(c, "urb", "stream")  BY <3>4 DEF Reach
      <4> QED  BY <4>1 DEF Goto, Early
    <3> QED  BY <1>2, <3>1, <3>2, <3>3, <3>4 DEF Devlist, ReadFails, ReplyFails
  <2>3. to \in Tasks \ {"none", "uncount"} /\ to \notin {"out", "lost"}  BY DEF Tasks
  <2>4. /\ UNCHANGED <<table, peerVars, srvVars, fdVars, want, dev, moved>>
        /\ rx' \in [Virtuals -> 0 .. RxSize] /\ need' \in [Conns -> 0 .. RxSize]
    BY <2>1 DEF ConnOnly, cdcVars, TypeOK
  <2> QED  BY <2>2, <2>3, <2>4, MovesOnly DEF Goto
<1> QED  BY <1>1, <1>2

\* A URB to a virtual device.
LEMMA VirtualStep ==
    ASSUME IInv, NEW c \in Conns, VirtualOther(c) \/ VirtualOut(c)
    PROVE  IInv'
<1> USE ClientAssumption DEF ClientAssumption
<1>1. TypeOK  BY DEF IInv
<1>2. KeepRest  BY DEF VirtualOther, VirtualOut
<1>3. PICK to \in {"lost", "out"} : Submitted(c, to)
  BY DEF VirtualOther, VirtualOut
<1>4. /\ task[c] = "stream" /\ task' = [task EXCEPT ![c] = to] /\ dev[c] \in Virtuals
      /\ to \in Tasks \ {"none", "uncount"} /\ to \notin Early /\ to # "urb"
  BY <1>3 DEF Submitted, Goto, Tasks, Early
<1>5. /\ rx' \in [Virtuals -> 0 .. RxSize] /\ need' \in [Conns -> 0 .. RxSize]
  <2>1. CASE VirtualOther(c)  BY <1>1, <2>1 DEF VirtualOther, cdcVars, TypeOK
  <2>2. CASE VirtualOut(c)
    <3>1. PICK n \in 1 .. RxSize : need' = [need EXCEPT ![c] = n]
      BY <2>2 DEF VirtualOut
    <3> QED  BY <1>1, <2>2, <3>1 DEF VirtualOut, TypeOK
  <2> QED  BY <2>1, <2>2
<1> QED  BY <1>2, <1>4, <1>5, MovesOnly DEF KeepRest

\* An OUT transfer stores what it can.
LEMMA OutStep ==
    ASSUME IInv, NEW c \in Conns, OutStored(c) \/ OutCut(c)
    PROVE  IInv'
<1> USE ClientAssumption DEF ClientAssumption
<1>1. TypeOK /\ SocketsOwned  BY DEF IInv
<1>2. /\ KeepRest /\ task[c] = "out"
      /\ task' = [task EXCEPT ![c] = "lost"] /\ need' = [need EXCEPT ![c] = 0]
  BY DEF OutStored, OutCut, Goto
<1>3. dev[c] \in Virtuals  BY <1>1, <1>2 DEF SocketsOwned
<1>4. rx' \in [Virtuals -> 0 .. RxSize]
  <2>1. CASE OutStored(c)
    <3>1. /\ rx[dev[c]] \in 0 .. RxSize /\ need[c] \in 0 .. RxSize
          /\ need[c] <= RxSize - rx[dev[c]]
          /\ rx' = [rx EXCEPT ![dev[c]] = @ + need[c]]
      BY <1>1, <1>3, <2>1 DEF OutStored, Room, TypeOK
    <3>2. rx[dev[c]] + need[c] \in 0 .. RxSize  BY <3>1
    <3> QED  BY <1>1, <1>3, <3>1, <3>2 DEF TypeOK
  <2>2. CASE OutCut(c)  BY <1>1, <1>3, <2>2 DEF OutCut, TypeOK
  <2> QED  BY <2>1, <2>2
<1>5. need' \in [Conns -> 0 .. RxSize]  BY <1>1, <1>2 DEF TypeOK
<1>6. "lost" \in Tasks \ {"none", "uncount"} /\ "lost" \notin Early  BY DEF Tasks, Early
<1> QED  BY <1>2, <1>3, <1>4, <1>5, <1>6, MovesOnly DEF KeepRest

\* IMPORT reads the busid, and looks its device up.
LEMMA ImportStep ==
    ASSUME IInv, NEW c \in Conns, Import(c) \/ Look(c)
    PROVE  IInv'
<1> USE ClientAssumption DEF ClientAssumption
<1>1. TypeOK /\ SocketsOwned /\ StreamInv  BY DEF IInv
<1>2. CASE Import(c)
  <2>1. /\ UNCHANGED <<table, backlog, left, srv, hand, active, fdVars, dev, moved, rx, need>>
        /\ task[c] = "import" /\ task' = [task EXCEPT ![c] = "look"]
    BY <1>2 DEF Import, Goto, peerVars, srvVars, cdcVars
  <2>2. PICK b \in Asks[c] : want' = [want EXCEPT ![c] = b]  BY <1>2 DEF Import
  <2>0. b \in Busids  BY DEF Busids
  <2>3. "look" \in Tasks \ {"none", "uncount"} /\ "look" \in Early  BY DEF Tasks, Early
  <2>4. task'[c] = "look" /\ \A d \in Conns \ {c} : task'[d] = task[d] /\ want'[d] = want[d]
    BY <1>1, <2>1, <2>2 DEF TypeOK
  <2>5. task' \in [Conns -> Tasks] /\ BacklogInv' /\ HandInv' /\ SocketsOwned' /\ CountExact'
    <3>1. \A d \in Conns : task'[d] \in {"out", "lost"} => dev'[d] \in Virtuals
      BY <1>1, <2>1, <2>4 DEF SocketsOwned
    <3> QED  BY <2>1, <2>3, <3>1, TaskMoves
  <2>6. TypeOK'  BY <1>1, <2>0, <2>1, <2>2, <2>5 DEF TypeOK, Tasks, fdVars
  <2>7. StreamInv'
    <3>1. dev[c] = NoDevice  BY <1>1, <2>1 DEF StreamInv, Imported, Early
    <3>2. Same(c)'  BY <2>1, <3>1 DEF Same, Listing
    <3> QED  BY <2>1, <2>4, <3>1, <3>2, OthersSame
  <2> QED  BY <2>5, <2>6, <2>7 DEF IInv
<1>3. CASE Look(c)
  <2>1. /\ UNCHANGED <<table, backlog, left, srv, hand, active, fdVars, want, rx, need>>
        /\ task[c] = "look" /\ task' = [task EXCEPT ![c] = "reply"]
        /\ moved' = moved \ {c}
    BY <1>3 DEF Look, Goto, peerVars, srvVars, cdcVars
  <2>2. PICK x \in Lookup(want[c]) : dev' = [dev EXCEPT ![c] = x]  BY <1>3 DEF Look
  <2>3. "reply" \in Tasks \ {"none", "uncount"} /\ "reply" \notin Early  BY DEF Tasks, Early
  <2>4. /\ task'[c] = "reply" /\ dev'[c] = x
        /\ \A d \in Conns \ {c} : task'[d] = task[d] /\ dev'[d] = dev[d]
    BY <1>1, <2>1, <2>2 DEF TypeOK
  <2>5. \/ \E s \in Slots : s \in At(want[c]) /\ x = table[s]
        \/ x \in Virtuals
        \/ x = NoDevice
    BY <2>2 DEF Lookup, AtBusid, At, Listed
  <2>6. x \in Found
    BY <1>1, <2>5 DEF TypeOK, Found, At, Listed
  <2>7. task' \in [Conns -> Tasks] /\ BacklogInv' /\ HandInv' /\ SocketsOwned' /\ CountExact'
    <3>1. \A d \in Conns : task'[d] \in {"out", "lost"} => dev'[d] \in Virtuals
      BY <1>1, <2>1, <2>4 DEF SocketsOwned
    <3> QED  BY <2>1, <2>3, <3>1, TaskMoves
  <2>8. TypeOK'  BY <1>1, <2>1, <2>2, <2>6, <2>7 DEF TypeOK, Tasks, fdVars
  <2>9. StreamInv'
    <3>2. Same(c)'
      <4>1. CASE x \notin Listing  BY <2>4, <4>1 DEF Same
      <4>2. CASE x \in Listing
        <5>1. PICK s \in Slots : s \in At(want[c]) /\ x = table[s]
          BY <2>5, <4>2 DEF Listing
        <5>2. x.devnum = want[c] /\ \A t \in At(x.devnum) : t = s
          BY <1>1, <5>1 DEF At, Listed, StreamInv, Unique
        <5> QED  BY <2>1, <2>4, <5>1, <5>2 DEF Same, At, Listed
      <4> QED  BY <4>1, <4>2
    <3>3. \A d \in Conns \ {c} : d \in moved' <=> d \in moved  BY <2>1
    <3> QED  BY <2>1, <2>3, <2>4, <3>2, <3>3, OthersSame
  <2> QED  BY <2>7, <2>8, <2>9 DEF IInv
<1> QED  BY <1>2, <1>3

\* The descriptor is closed.
LEMMA CloseStep == ASSUME IInv, NEW c \in Conns, Close(c) PROVE IInv'
<1>1. /\ TypeOK /\ BacklogInv /\ HandInv /\ SocketsOwned /\ CountExact /\ StreamInv
      /\ UNCHANGED <<table, backlog, srv, hand, active, http, stolen, want, dev, moved, rx, need>>
      /\ task[c] = "close" /\ task' = [task EXCEPT ![c] = "uncount"]
      /\ Shut(fd[c]) /\ fd' = [fd EXCEPT ![c] = 0]
  BY DEF IInv, Close, Goto, srvVars, cdcVars
<1>2. task'[c] = "uncount" /\ \A d \in Conns \ {c} : task'[d] = task[d]
  BY <1>1 DEF TypeOK
<1>3. /\ sock' \in [Fds -> Conns \cup {Free, HttpPeer}] /\ left' \subseteq Conns
      /\ fd' \in [Conns -> 0 .. MaxFds] /\ SocketsOwned'
  <2>1. c \notin hand  BY <1>1 DEF HandInv, TypeOK
  <2>2. fd[c] # 0  BY <1>1 DEF SocketsOwned
  <2>3. \A d \in Conns : task'[d] \in {"out", "lost"} => dev'[d] \in Virtuals
    BY <1>1, <1>2 DEF SocketsOwned
  <2> QED  BY <1>1, <1>2, <2>1, <2>2, <2>3, OwnClosed
<1>4. TypeOK'  BY <1>1, <1>3 DEF TypeOK
<1>5. BacklogInv' /\ HandInv'
  <2>1. \A i \in 1 .. Len(backlog) : backlog[i] \in Conns
    BY <1>1, ElementOfSeq DEF TypeOK
  <2>2. \A d \in Conns : fd[d] = 0 => fd'[d] = 0  BY <1>1 DEF TypeOK
  <2> QED  BY <1>1, <1>2, <2>1, <2>2 DEF BacklogInv, HandInv
<1>6. CountExact'
  <2>1. \A d \in Conns : task'[d] = "none" <=> task[d] = "none"  BY <1>1, <1>2
  <2> QED  BY <1>1, <2>1, CountSame
<1>7. StreamInv'
  <2>1. dev[c] = NoDevice  BY <1>1 DEF StreamInv, Imported, Early
  <2>2. Same(c)'  BY <1>1 DEF StreamInv, Same, At, Listed
  <2> QED  BY <1>1, <1>2, <2>1, <2>2, OthersSame
<1> QED  BY <1>3, <1>4, <1>5, <1>6, <1>7 DEF IInv

\* Last, the connection is no longer counted.
LEMMA UncountStep == ASSUME IInv, NEW c \in Conns, Uncount(c) PROVE IInv'
<1>1. TypeOK /\ BacklogInv /\ HandInv /\ SocketsOwned /\ CountExact /\ StreamInv  BY DEF IInv
<1>2. /\ UNCHANGED <<table, backlog, left, srv, hand, sock, fd, http, stolen, want, dev, moved, rx, need>>
      /\ task[c] = "uncount" /\ task' = [task EXCEPT ![c] = "none"] /\ active' = active - 1
  BY DEF Uncount, Goto, peerVars, fdVars, cdcVars
<1>3. task'[c] = "none" /\ \A d \in Conns \ {c} : task'[d] = task[d]
  BY <1>1, <1>2 DEF TypeOK
<1>4. TypeOK'  BY <1>1, <1>2 DEF TypeOK
<1>5. BacklogInv' /\ HandInv'
  <2>1. \A i \in 1 .. Len(backlog) : backlog[i] \in Conns
    BY <1>1, ElementOfSeq DEF TypeOK
  <2> QED  BY <1>1, <1>2, <1>3, <2>1 DEF BacklogInv, HandInv
<1>6. SocketsOwned'
  <2>1. \A d \in Conns : task'[d] \in {"none", "uncount"} <=> task[d] \in {"none", "uncount"}
    BY <1>2, <1>3
  <2>2. \A d \in Conns : task'[d] \in {"out", "lost"} => task[d] \in {"out", "lost"}
    BY <1>2, <1>3
  <2> QED  BY <1>1, <1>2, <2>1, <2>2 DEF SocketsOwned
<1>7. CountExact'
  <2>1. Tasked \in SUBSET Conns /\ c \in Tasked /\ Tasked' = Tasked \ {c}
    BY <1>2, <1>3 DEF Tasked
  <2>2. Cardinality(Tasked) \in Nat /\ Cardinality(Tasked') = Cardinality(Tasked) - 1
    BY <2>1, Counted
  <2>3. active = Cardinality(Tasked) + (IF srv \in {"start", "uncount"} THEN 1 ELSE 0)
    BY <1>1 DEF CountExact, Tasked
  <2>4. CASE srv \in {"start", "uncount"}
    BY <1>2, <2>2, <2>3, <2>4 DEF CountExact, Tasked
  <2>5. CASE srv \notin {"start", "uncount"}
    BY <1>2, <2>2, <2>3, <2>5 DEF CountExact, Tasked
  <2> QED  BY <2>4, <2>5
<1>8. StreamInv'
  <2>1. dev[c] = NoDevice  BY <1>1, <1>2 DEF StreamInv, Imported, Early
  <2>2. Same(c)'  BY <1>1, <1>2 DEF StreamInv, Same, At, Listed
  <2> QED  BY <1>2, <1>3, <2>1, <2>2, OthersSame
<1> QED  BY <1>4, <1>5, <1>6, <1>7, <1>8 DEF IInv

-----------------------------------------------------------------------------
(* A device's task.                                                        *)

\* It takes bytes out of its buffer.
LEMMA DeviceStep ==
    ASSUME IInv, NEW v \in Virtuals, DeviceReads(v)
    PROVE  IInv'
<1> USE ClientAssumption DEF ClientAssumption
<1>1. TypeOK  BY DEF IInv
<1>2. UNCHANGED <<table, backlog, left, srv, hand, active, sock, fd, http, stolen, task, want, dev,
                  moved, need>>
  BY DEF DeviceReads, peerVars, srvVars, connVars, fdVars
<1>3. rx' \in [Virtuals -> 0 .. RxSize]
  <2>1. PICK n \in 1 .. rx[v] : rx' = [rx EXCEPT ![v] = @ - n]
    BY DEF DeviceReads
  <2>2. rx[v] \in 0 .. RxSize /\ rx[v] - n \in 0 .. RxSize  BY <1>1, <2>1 DEF TypeOK
  <2> QED  BY <1>1, <2>1, <2>2 DEF TypeOK
<1>4. TypeOK'  BY <1>1, <1>2, <1>3 DEF TypeOK
<1>5. BacklogInv' /\ HandInv' /\ SocketsOwned' /\ CountExact' /\ StreamInv'
  BY <1>2 DEF IInv, BacklogInv, HandInv, SocketsOwned, CountExact, StreamInv, Unique, Imported,
              Same, Listed, At
<1> QED  BY <1>4, <1>5 DEF IInv

-----------------------------------------------------------------------------
(* The theorems.                                                           *)

\* Nothing happens.
LEMMA StutterStep == ASSUME IInv, UNCHANGED vars PROVE IInv'
BY DEF IInv, TypeOK, BacklogInv, HandInv, SocketsOwned, CountExact, StreamInv, Unique, Imported,
       Same, Listed, At, vars

\* Every step preserves the invariant.
LEMMA NextInv == ASSUME IInv, [Next]_vars PROVE IInv'
<1>1. CASE Peer  BY <1>1, PeerStep DEF Peer
<1>2. CASE Http \/ DevicesChange  BY <1>2, HttpStep, DevicesStep
<1>3. CASE Server
  BY <1>3, AcceptStep, AcceptFailsStep, StartStep, StartFailsStep DEF Server
<1>4. CASE Client
  <2>1. PICK c \in Conns : Runs(c) \/ Told(c)  BY <1>4 DEF Client
  <2>2. CASE Runs(c)
    BY <2>2, RequestStep, ImportStep, CloseStep, UncountStep, OutStep DEF Runs
  <2>3. CASE Told(c)
    BY <2>3, RequestStep, ImportStep, VirtualStep DEF Told
  <2> QED  BY <2>1, <2>2, <2>3
<1>5. CASE Device  BY <1>5, DeviceStep DEF Device
<1>6. CASE UNCHANGED vars  BY <1>6, StutterStep
<1> QED  BY <1>1, <1>2, <1>3, <1>4, <1>5, <1>6 DEF Next

\* Whatever clients, devices and failures do, the invariant holds.
THEOREM ClientInvariance == Spec => []IInv
BY InitInv, NextInv, PTL DEF Spec

\* The types.
THEOREM ClientTypeCorrect == Spec => []TypeOK
<1>1. IInv => TypeOK  BY DEF IInv
<1> QED  BY ClientInvariance, <1>1, PTL

\* Every descriptor that usbip_server_task accepts is kept by the code that
\* will close it, and nobody else closes it but the HTTP server, whose second
\* close of its own may hit a client's; none is left over even then.
THEOREM DescriptorsOwned == Spec => []SocketsOwned
<1>1. IInv => SocketsOwned  BY DEF IInv
<1> QED  BY ClientInvariance, <1>1, PTL

\* active_connections is counted up and down in step with the tasks.
THEOREM ConnectionsCounted == Spec => []CountExact
<1>1. IInv => CountExact  BY DEF IInv
<1> QED  BY ClientInvariance, <1>1, PTL

\* A busid that is looked up again for every URB still names the imported
\* device, if its address was not listed anew.
THEOREM UrbsReach == Spec => []UrbReachesImported
<1>1. IInv => UrbReachesImported
  <2> SUFFICES ASSUME IInv, NEW c \in Conns, task[c] = "urb", NEW h \in Reached(c)
               PROVE  h = dev[c].handle \/ c \in moved
    BY DEF UrbReachesImported
  <2>1. dev[c] \in Listing /\ Same(c)  BY DEF IInv, StreamInv, Imported
  <2>2. PICK s \in At(want[c]) : h = table[s].handle  BY DEF Reached, AtBusid
  <2> QED  BY <2>1, <2>2 DEF Same
<1> QED  BY ClientInvariance, <1>1, PTL
=============================================================================
