----------------------------- MODULE BoardProofs -----------------------------
(***************************************************************************)
(* Invariants of Board, for any number of disturbances, retries, pins,     *)
(* wires and credentials: types, the Wi-Fi attempts, the wires, the power  *)
(* of the USB port, and what an import of wires has done when it replies.  *)
(***************************************************************************)
EXTENDS Board, SequenceTheorems, FunctionTheorems, FiniteSetTheorems, TLAPS

\* Where start-up is when the station is not started.
Early == {"load", "key", "prompt", "ssid", "pass", "attempt"}
Events == {"start", "disconnected", "ip"}

\* What can be waiting for the handler, and what it says of the station: while
\* it is connected or tries to be, the retry count is the number of failures;
\* a disconnection not handled yet is one more.
Handled ==
    /\ Len(events) = 0
    /\ radio \in {"trying", "joined", "online"} => retries = failures
    /\ radio = "idle" => failures > MaxRetry /\ "fail" \in bits
Started ==
    /\ Len(events) = 1 /\ events[1] = "start"
    /\ radio = "idle" /\ retries = 0 /\ failures = 0
Dropped ==
    /\ Len(events) = 1 /\ events[1] = "disconnected"
    /\ radio = "idle" /\ failures = retries + 1
Online ==
    /\ Len(events) = 1 /\ events[1] = "ip"
    /\ radio = "online" /\ failures = 0
OnlineDropped ==
    /\ Len(events) = 2 /\ events[1] = "ip" /\ events[2] = "disconnected"
    /\ radio = "idle" /\ failures = 1

Waiting == Handled \/ Started \/ Dropped \/ Online \/ OnlineDropped

\* Start-up tries again only when the station has given up.
GivenUp ==
    net = "wait" /\ "fail" \in bits /\ "connected" \notin bits =>
        radio = "idle" /\ Len(events) = 0

LinkInv == (radio = "off" <=> net \in Early) /\ (radio = "off" => Len(events) = 0) /\ Waiting /\ GivenUp

\* The inductive invariant.
IInv == TypeOK /\ LinkInv /\ PowerStays /\ OldClearedOrNew

-----------------------------------------------------------------------------
(* The queue of Wi-Fi events.                                              *)

\* An event goes to the end of the queue.
LEMMA Enqueue ==
    ASSUME WifiTypeOK, NEW e \in Events, events' = Append(events, e)
    PROVE  /\ events' \in Seq(Events)
           /\ Len(events) \in Nat /\ Len(events') = Len(events) + 1
           /\ events'[Len(events) + 1] = e
           /\ \A i \in 1 .. Len(events) : events'[i] = events[i]
  BY AppendProperties, LenProperties DEF WifiTypeOK, Events

\* The handler takes the first.
LEMMA Dequeue ==
    ASSUME WifiTypeOK, NEW e \in Events, NextEvent(e)
    PROVE  /\ events' \in Seq(Events)
           /\ Len(events) \in Nat /\ Len(events) > 0 /\ Len(events') = Len(events) - 1
           /\ events[1] = e
           /\ \A i \in 1 .. Len(events) - 1 : events'[i] = events[i + 1]
<1>1. events \in Seq(Events) /\ events # <<>>
  BY DEF WifiTypeOK, Events, NextEvent
<1> QED  BY <1>1, HeadTailProperties, LenProperties, EmptySeq DEF NextEvent

-----------------------------------------------------------------------------
(* The start.                                                              *)

LEMMA InitInv == ASSUME Init PROVE IInv
<1> USE WifiAssumption, PinsAssumption, TroubleAssumption
        DEF WifiAssumption, PinsAssumption, TroubleAssumption
<1>1. WifiTypeOK  BY DEF Init, WifiInit, WifiTypeOK, Pair
<1>2. PinsTypeOK
  <2>1. Unwired \in Names  BY DEF Names
  <2>2. PinsInit  BY DEF Init
  <2>3. /\ wires \in [Labels -> Names] /\ before \in [Labels -> Names]
        /\ backup \in [Rows -> Names] /\ mode \in [Labels -> {"in", "out"}]
    BY <2>1, <2>2 DEF PinsInit
  <2>4. at = 1 /\ skipped = 0 /\ req = "off" /\ unclean = {} /\ refused = {}
    BY <2>2 DEF PinsInit
  <2>5. dutUp \in BOOLEAN  BY <2>2 DEF PinsInit
  <2> QED  BY <2>3, <2>4, <2>5 DEF PinsTypeOK
<1>3. LinkInv
  BY DEF Init, WifiInit, LinkInv, Early, Waiting, Handled, GivenUp
<1>4. OldClearedOrNew  BY DEF Init, PinsInit, OldClearedOrNew, Given
<1>5. boot = "net" /\ registered = <<>> /\ powered = FALSE  BY DEF Init
<1>6. TypeOK
  <2>1. registered \in Seq({"analyser", "harness"})  BY <1>5
  <2> QED  BY <1>1, <1>2, <1>5, <2>1 DEF TypeOK
<1> QED  BY <1>3, <1>4, <1>5, <1>6 DEF IInv, PowerStays

-----------------------------------------------------------------------------
(* Wi-Fi.                                                                  *)

\* What leaves the station alone leaves LinkInv alone.
LEMMA LinkUntouched ==
    ASSUME LinkInv, UNCHANGED <<net, linkVars>>
    PROVE  LinkInv'
  BY DEF LinkInv, linkVars, Early, Waiting, Handled, Started, Dropped, Online, OnlineDropped, GivenUp

\* Start-up, before the station is started.
LEMMA EarlyStep ==
    ASSUME WifiTypeOK, LinkInv,
           \/ LoadSaved \/ LoadNone \/ KeyOrNot \/ StoreSsid \/ StorePass \/ StoreFails
           \/ \E p \in Pair : Type(p)
    PROVE  WifiTypeOK' /\ LinkInv'
<1> USE WifiAssumption DEF WifiAssumption
<1> DEFINE Keys == [ssid : Ssids \cup {Missing}, pass : Passwords \cup {Missing}]
<1>1. net \in Early /\ net' \in Early /\ UNCHANGED <<linkVars, spent>>
  BY DEF LoadSaved, LoadNone, KeyOrNot, StoreSsid, StorePass, StoreFails, Type, NetGoto, Early
<1>2. LinkInv'
  BY <1>1 DEF LinkInv, linkVars, Early, Waiting, Handled, Started, Dropped, Online, OnlineDropped, GivenUp
<1>3. nvs \in Keys /\ cred \in Keys /\ Pair \subseteq Keys
  BY DEF WifiTypeOK, Pair
<1>4. nvs' \in Keys /\ cred' \in Keys
  <2>1. CASE LoadSaved  BY <1>3, <2>1 DEF LoadSaved
  <2>2. CASE LoadNone
    <3>1. CASE Kconfig = Missing  BY <1>3, <2>2, <3>1 DEF LoadNone
    <3>2. CASE Kconfig # Missing  BY <1>3, <2>2, <3>2 DEF LoadNone
    <3> QED  BY <3>1, <3>2
  <2>3. CASE KeyOrNot \/ StoreFails  BY <1>3, <2>3 DEF KeyOrNot, StoreFails, credVars
  <2>4. CASE StoreSsid  BY <1>3, <2>4 DEF StoreSsid
  <2>5. CASE StorePass  BY <1>3, <2>5 DEF StorePass
  <2>6. CASE \E p \in Pair : Type(p)  BY <1>3, <2>6 DEF Type
  <2> QED  BY <2>1, <2>2, <2>3, <2>4, <2>5, <2>6
<1> QED  BY <1>1, <1>2, <1>4 DEF WifiTypeOK, linkVars, Early

\* An attempt begins, and ends.
LEMMA AttemptStep ==
    ASSUME WifiTypeOK, LinkInv, Attempt \/ AttemptSucceeds \/ AttemptFails
    PROVE  WifiTypeOK' /\ LinkInv'
<1> USE WifiAssumption DEF WifiAssumption
<1>1. CASE Attempt
  <2>1. net = "attempt" /\ net' = "wait" /\ radio' = "idle" /\ retries' = 0 /\ failures' = 0 /\ bits' = {}
    BY <1>1 DEF Attempt, NetGoto
  <2>2. events' \in Seq(Events) /\ Len(events') = 1 /\ events'[1] = "start"
    <3>1. Len(events) = 0  BY <2>1 DEF LinkInv, Early
    <3> QED  BY <1>1, <3>1, Enqueue DEF Attempt, Events
  <2>3. LinkInv'  BY <2>1, <2>2 DEF LinkInv, Early, Waiting, Started, GivenUp
  <2> QED  BY <1>1, <2>1, <2>2, <2>3 DEF Attempt, WifiTypeOK, credVars, Events
<1>2. CASE AttemptSucceeds
  <2>1. net = "wait" /\ net' = "up" /\ UNCHANGED <<credVars, linkVars, spent>>
    BY <1>2 DEF AttemptSucceeds, NetGoto
  <2>2. LinkInv'
    BY <2>1 DEF LinkInv, linkVars, Early, Waiting, Handled, Started, Dropped, Online, OnlineDropped, GivenUp
  <2> QED  BY <2>1, <2>2 DEF WifiTypeOK, credVars, linkVars
<1>3. CASE AttemptFails
  <2>1. /\ net = "wait" /\ net' = "prompt" /\ radio' = "off"
        /\ UNCHANGED <<credVars, bits, retries, events, failures, spent>>
        /\ Len(events) = 0
    BY <1>3 DEF AttemptFails, NetGoto, LinkInv, GivenUp
  <2>2. LinkInv'  BY <2>1 DEF LinkInv, Early, Waiting, Handled, GivenUp
  <2> QED  BY <2>1, <2>2 DEF WifiTypeOK, credVars
<1> QED  BY <1>1, <1>2, <1>3

\* The handler.
LEMMA HandlerStep ==
    ASSUME WifiTypeOK, LinkInv, Handler
    PROVE  WifiTypeOK' /\ LinkInv'
<1> USE WifiAssumption DEF WifiAssumption
<1> DEFINE Shape == Handled \/ Started \/ Dropped \/ Online \/ OnlineDropped
<1>0. Shape /\ radio # "off" /\ Len(events) > 0
  BY Dequeue DEF LinkInv, Waiting, Handler, OnStart, OnDisconnected, GiveUp, OnAddress, Events, Handled
<1>1. CASE OnStart
  <2>1. Started /\ events' \in Seq(Events) /\ Len(events') = 0
    BY <1>0, <1>1, Dequeue DEF OnStart, Events, Handled, Started, Dropped, Online, OnlineDropped
  <2>2. radio' \in {"trying", "refused"} /\ UNCHANGED <<credVars, net, bits, retries, spent, failures>>
    BY <1>0, <1>1 DEF OnStart, Connect
  <2>3. LinkInv'  BY <1>0, <2>1, <2>2 DEF LinkInv, Early, Waiting, Started, Handled, GivenUp
  <2> QED  BY <2>1, <2>2, <2>3 DEF WifiTypeOK, credVars, Events
<1>2. CASE OnDisconnected
  <2>1. Dropped /\ events' \in Seq(Events) /\ Len(events') = 0
    BY <1>0, <1>2, Dequeue DEF OnDisconnected, Events, Handled, Started, Dropped, Online, OnlineDropped
  <2>2. /\ radio' \in {"trying", "refused"} /\ retries < MaxRetry /\ retries' = retries + 1
        /\ UNCHANGED <<credVars, net, bits, spent, failures>>
    BY <1>0, <1>2 DEF OnDisconnected, Connect
  <2>3. LinkInv'  BY <1>0, <2>1, <2>2 DEF LinkInv, Early, Waiting, Dropped, Handled, GivenUp
  <2> QED  BY <2>1, <2>2, <2>3 DEF WifiTypeOK, credVars, Events
<1>3. CASE GiveUp
  <2>1. Dropped /\ events' \in Seq(Events) /\ Len(events') = 0
    BY <1>0, <1>3, Dequeue DEF GiveUp, Events, Handled, Started, Dropped, Online, OnlineDropped
  <2>2. /\ retries >= MaxRetry /\ bits' = bits \cup {"fail"}
        /\ UNCHANGED <<credVars, net, retries, radio, spent, failures>>
    BY <1>3 DEF GiveUp
  <2>3. LinkInv'
    BY <1>0, <2>1, <2>2 DEF LinkInv, Early, Waiting, Dropped, Handled, GivenUp, WifiTypeOK
  <2> QED  BY <2>1, <2>2, <2>3 DEF WifiTypeOK, credVars, Events
<1>4. CASE OnAddress
  <2>1. /\ events' \in Seq(Events)
        /\ \/ Online /\ Len(events') = 0
           \/ OnlineDropped /\ Len(events') = 1 /\ events'[1] = "disconnected"
    <3>1. /\ events' \in Seq(Events) /\ events[1] = "ip"
          /\ Len(events) \in Nat /\ Len(events') = Len(events) - 1
          /\ \A i \in 1 .. Len(events) - 1 : events'[i] = events[i + 1]
      BY <1>4, Dequeue DEF OnAddress, Events
    <3>2. Online \/ OnlineDropped  BY <1>0, <3>1 DEF Handled, Started, Dropped
    <3>3. CASE Online  BY <3>1, <3>3 DEF Online
    <3>4. CASE OnlineDropped  BY <3>1, <3>4 DEF OnlineDropped
    <3> QED  BY <3>1, <3>2, <3>3, <3>4
  <2>2. /\ retries' = 0 /\ bits' = bits \cup {"connected"}
        /\ UNCHANGED <<credVars, net, radio, spent, failures>>
    BY <1>4 DEF OnAddress
  <2>3. Waiting'
    BY <2>1, <2>2 DEF Waiting, Online, OnlineDropped, Handled, Dropped
  <2>4. LinkInv'  BY <1>0, <2>2, <2>3 DEF LinkInv, Early, GivenUp
  <2> QED  BY <2>1, <2>2, <2>4 DEF WifiTypeOK, credVars, Events
<1> QED  BY <1>1, <1>2, <1>3, <1>4 DEF Handler

\* The network.
LEMMA NetworkStep ==
    ASSUME WifiTypeOK, LinkInv, Network \/ Miss \/ Lose
    PROVE  WifiTypeOK' /\ LinkInv'
<1> USE WifiAssumption, TroubleAssumption DEF WifiAssumption, TroubleAssumption
<1>1. CASE Join
  <2>1. Handled /\ radio # "off"
    BY <1>1 DEF Join, LinkInv, Waiting, Started, Dropped, Online, OnlineDropped
  <2>2. LinkInv'
    BY <1>1, <2>1 DEF Join, LinkInv, credVars, Early, Waiting, Handled, GivenUp
  <2> QED  BY <1>1, <2>2 DEF Join, WifiTypeOK, credVars
<1>2. CASE Refuse \/ Miss \/ Lose
  <2>1. /\ radio \in {"trying", "joined", "online"} /\ radio' = "idle"
        /\ failures' = failures + 1 /\ UNCHANGED <<credVars, net, bits, retries>>
        /\ events' = Append(events, "disconnected")
        /\ spent' = spent \/ (spent < MaxTrouble /\ spent' = spent + 1)
    BY <1>2 DEF Refuse, Miss, Lose, Disconnect, Trouble
  <2>2. Handled \/ Online
    BY <2>1 DEF LinkInv, Waiting, Started, Dropped, OnlineDropped
  <2>3. /\ events' \in Seq(Events) /\ Len(events') = Len(events) + 1
        /\ events'[Len(events) + 1] = "disconnected"
        /\ \A i \in 1 .. Len(events) : events'[i] = events[i]
    BY <2>1, Enqueue DEF Events
  <2>4. Waiting'
    <3>1. CASE Handled
      <4>1. Dropped'  BY <2>1, <2>3, <3>1 DEF Handled, Dropped
      <4> QED  BY <4>1 DEF Waiting
    <3>2. CASE Online
      <4>1. OnlineDropped'  BY <2>1, <2>3, <3>2 DEF Online, OnlineDropped
      <4> QED  BY <4>1 DEF Waiting
    <3> QED  BY <2>2, <3>1, <3>2
  <2>5. LinkInv'  BY <2>1, <2>4 DEF LinkInv, Early, GivenUp
  <2> QED  BY <2>1, <2>3, <2>5 DEF WifiTypeOK, credVars, Events
<1>3. CASE Address
  <2>1. Handled /\ radio = "joined"
    BY <1>3 DEF Address, LinkInv, Waiting, Started, Dropped, Online, OnlineDropped
  <2>2. events' \in Seq(Events) /\ Len(events') = 1 /\ events'[1] = "ip"
    BY <1>3, <2>1, Enqueue DEF Address, Events, Handled
  <2>3. LinkInv'
    BY <1>3, <2>1, <2>2 DEF Address, LinkInv, credVars, Early, Waiting, Online, GivenUp
  <2> QED  BY <1>3, <2>2, <2>3 DEF Address, WifiTypeOK, credVars, Events
<1> QED  BY <1>1, <1>2, <1>3 DEF Network

\* A reset.
LEMMA ResetWifi ==
    ASSUME WifiTypeOK, WifiReset, spent' \in 0 .. MaxTrouble
    PROVE  WifiTypeOK' /\ LinkInv'
<1> USE WifiAssumption DEF WifiAssumption
<1>1. LinkInv'  BY DEF WifiReset, LinkInv, Early, Waiting, Handled, GivenUp
<1>2. events' \in Seq(Events)  BY DEF WifiReset
<1> QED  BY <1>1, <1>2 DEF WifiReset, WifiTypeOK, credVars, Events

-----------------------------------------------------------------------------
(* The DUT pins.                                                           *)

\* What an action does to the pins that these invariants are about.
LEMMA PinsUntouched ==
    ASSUME PinsTypeOK, OldClearedOrNew,
           UNCHANGED <<mode, wires, dutUp, req, at, file, skipped, before, unclean, refused, backup>>
    PROVE  PinsTypeOK' /\ OldClearedOrNew'
  BY DEF PinsTypeOK, OldClearedOrNew, Given

\* A request begins or ends with the wires as they are.
LEMMA Forgotten ==
    ASSUME wires' \in [Labels -> Names], Forget \/ before' = wires'
    PROVE  OldClearedOrNew' /\ before' \in [Labels -> Names]
  BY DEF Forget, OldClearedOrNew

\* A wire that is put on a pin comes from the file, or is none.
LEMMA Rewired ==
    ASSUME PinsTypeOK, OldClearedOrNew, UNCHANGED <<before, file>>,
           NEW p \in Labels, NEW w \in Names, w = Unwired \/ w \in Given(p),
           wires' = wires \/ wires' = [wires EXCEPT ![p] = w]
    PROVE  OldClearedOrNew' /\ wires' \in [Labels -> Names]
<1>1. \A q \in Labels : Given(q)' = Given(q)  BY DEF Given
<1>2. wires' \in [Labels -> Names]  BY DEF PinsTypeOK
<1>3. ASSUME NEW q \in Labels PROVE wires'[q] \in {before[q], Unwired} \cup Given(q)
  <2>1. wires[q] \in {before[q], Unwired} \cup Given(q)  BY DEF OldClearedOrNew
  <2>2. wires'[q] = wires[q] \/ (q = p /\ wires'[q] = w)  BY DEF PinsTypeOK
  <2> QED  BY <2>1, <2>2
<1> QED  BY <1>1, <1>2, <1>3 DEF OldClearedOrNew

\* The server's own steps: nothing takes the power from the port.
LEMMA WorkingStep ==
    ASSUME PinsTypeOK, OldClearedOrNew, Working
    PROVE  /\ PinsTypeOK' /\ OldClearedOrNew'
           /\ mode'[Power] = mode[Power] /\ spent' = spent
<1> USE PinsAssumption DEF PinsAssumption
<1>0. Power \in Labels /\ Unwired \in Names /\ Rows \subseteq Labels
  BY DEF Labels, Names
<1>1. CASE InitPin
  <2>1. PinTable[at] \in Rows  BY <1>1 DEF InitPin, Rows
  <2>2. /\ mode' \in [Labels -> {"in", "out"}] /\ mode'[Power] = mode[Power]
        /\ at' \in Nat \ {0}
    BY <1>0, <1>1, <2>1 DEF InitPin, InitSkips, PinsTypeOK
  <2>3. UNCHANGED <<wires, dutUp, req, file, skipped, spent, before, unclean, refused, backup>>
    BY <1>1 DEF InitPin
  <2> QED  BY <2>2, <2>3 DEF PinsTypeOK, OldClearedOrNew, Given
<1>2. CASE InitDone \/ Reply
  <2>1. /\ req' = "serve" /\ UNCHANGED <<mode, wires, dutUp, spent, backup>> /\ Forget
    BY <1>2 DEF InitDone, Reply, ReqGoto
  <2>2. at' \in Nat \ {0} /\ skipped' \in Nat /\ unclean' \subseteq Rows /\ refused' \subseteq Rows
    BY <2>1 DEF Forget
  <2>3. wires' \in [Labels -> Names]  BY <2>1 DEF PinsTypeOK
  <2> QED  BY <2>1, <2>2, <2>3, Forgotten DEF PinsTypeOK
<1>3. CASE ClearRow
  <2>1. PinTable[at] \in Rows  BY <1>3 DEF ClearRow, ClearLoop, Rows
  <2>2. /\ wires' = wires \/ wires' = [wires EXCEPT ![PinTable[at]] = Unwired]
        /\ unclean' = unclean \/ unclean' = unclean \cup {PinTable[at]}
        /\ at' = at + 1
        /\ UNCHANGED <<mode, dutUp, req, file, skipped, spent, before, refused, backup>>
    BY <1>3 DEF ClearRow, WireSet, WireFails
  <2>3. OldClearedOrNew' /\ wires' \in [Labels -> Names]
    BY <1>0, <2>1, <2>2, Rewired
  <2> QED  BY <2>1, <2>2, <2>3 DEF PinsTypeOK
<1>4. CASE ClearDone \/ ApplyDone
  <2>1. /\ req' \in {"apply", "reply"} /\ at' \in {1, at}
        /\ UNCHANGED <<mode, wires, dutUp, file, skipped, spent, before, unclean, refused, backup>>
    BY <1>4 DEF ClearDone, ApplyDone, ReqGoto, importVars
  <2> QED  BY <2>1 DEF PinsTypeOK, OldClearedOrNew, Given
<1>5. CASE Skip
  <2>1. /\ skipped' = skipped + 1 /\ at' = at + 1
        /\ UNCHANGED <<mode, wires, dutUp, req, file, spent, before, unclean, refused, backup>>
    BY <1>5 DEF Skip
  <2> QED  BY <2>1 DEF PinsTypeOK, OldClearedOrNew, Given
<1>6. CASE Apply
  <2> DEFINE p == file[at].pin
             w == file[at].wire
  <2>1. at \in DOMAIN file /\ p \in Rows /\ w \in Names
    BY <1>6 DEF Apply, Takes, NameOf
  <2>2. w \in Given(p)  BY <2>1 DEF Given
  <2>3. /\ wires' = wires \/ wires' = [wires EXCEPT ![p] = w]
        /\ at' = at + 1
        /\ UNCHANGED <<mode, dutUp, req, file, spent, before, unclean, backup>>
    BY <1>6 DEF Apply, WireSet, WireFails, NameOf
  <2>4. skipped' \in {skipped, skipped + 1} /\ refused' \in {refused, refused \cup {p}}
    BY <1>6 DEF Apply
  <2>5. OldClearedOrNew' /\ wires' \in [Labels -> Names]
    BY <1>0, <2>1, <2>2, <2>3, Rewired
  <2> QED  BY <2>1, <2>3, <2>4, <2>5 DEF PinsTypeOK
<1> QED  BY <1>1, <1>2, <1>3, <1>4, <1>5, <1>6 DEF Working

\* Requests, and the test harness.
LEMMA AskedStep ==
    ASSUME PinsTypeOK, OldClearedOrNew, Asked
    PROVE  PinsTypeOK' /\ OldClearedOrNew' /\ Trouble
<1> USE PinsAssumption DEF PinsAssumption
<1>0. Power \in Labels /\ Unwired \in Names /\ Rows \subseteq Labels
  BY DEF Labels, Names
<1>1. ASSUME NEW p \in Labels, NEW d \in {"none", "in", "out"}, NEW v \in BOOLEAN,
             NEW w \in Names \cup {Absent}, PostPin(p, d, v, w)
      PROVE  PinsTypeOK' /\ OldClearedOrNew' /\ Trouble
  <2>1. /\ Trouble /\ Forget /\ UNCHANGED <<dutUp, req, backup>>
        /\ wires' = wires \/ (w # Absent /\ wires' = [wires EXCEPT ![p] = w])
    BY <1>1 DEF PostPin, WireSet, WireFails
  <2>2. mode' \in [Labels -> {"in", "out"}]
    <3>1. mode' = mode \/ mode' = [mode EXCEPT ![p] = "in"] \/ mode' = [mode EXCEPT ![p] = "out"]
      BY <1>1 DEF PostPin, Steer
    <3> QED  BY <3>1 DEF PinsTypeOK
  <2>3. wires' \in [Labels -> Names]  BY <2>1 DEF PinsTypeOK
  <2>4. at' \in Nat \ {0} /\ skipped' \in Nat /\ unclean' \subseteq Rows /\ refused' \subseteq Rows
    BY <2>1 DEF Forget
  <2> QED  BY <2>1, <2>2, <2>3, <2>4, Forgotten DEF PinsTypeOK
<1>2. ASSUME NEW p \in Labels, Toggle(p) \/ Scpi(p)
      PROVE  PinsTypeOK' /\ OldClearedOrNew' /\ Trouble
  <2>1. /\ Trouble /\ UNCHANGED <<wires, dutUp, req, importVars, backup>>
        /\ mode' = mode \/ \E m \in {"in", "out"} : mode' = [mode EXCEPT ![p] = m]
    BY <1>2 DEF Toggle, Scpi, Steer
  <2> QED  BY <2>1 DEF PinsTypeOK, OldClearedOrNew, Given, importVars
<1>3. CASE GetConfig
  <2>1. /\ Trouble /\ UNCHANGED <<mode, wires, dutUp, req, importVars>>
        /\ backup' = [p \in Rows |-> IF dutUp THEN wires[p] ELSE Unwired]
    BY <1>3 DEF GetConfig
  <2>2. backup' \in [Rows -> Names]  BY <1>0, <2>1 DEF PinsTypeOK
  <2> QED  BY <2>1, <2>2 DEF PinsTypeOK, OldClearedOrNew, Given, importVars
<1>4. ASSUME NEW f, PostConfig(f)
      PROVE  PinsTypeOK' /\ OldClearedOrNew' /\ Trouble
  <2>1. /\ Trouble /\ req' = "clear" /\ at' = 1 /\ skipped' = 0
        /\ before' = wires /\ unclean' = {} /\ refused' = {}
        /\ UNCHANGED <<mode, wires, dutUp, backup>>
    BY <1>4 DEF PostConfig, ReqGoto
  <2>2. wires' \in [Labels -> Names]  BY <2>1 DEF PinsTypeOK
  <2>3. OldClearedOrNew' /\ before' \in [Labels -> Names]  BY <2>1, <2>2, Forgotten
  <2> QED  BY <2>1, <2>2, <2>3 DEF PinsTypeOK
<1> QED  BY <1>1, <1>2, <1>3, <1>4 DEF Asked, Request

-----------------------------------------------------------------------------
(* The whole board.                                                        *)

LEMMA NextInv == ASSUME IInv, [Next]_vars PROVE IInv'
<1> USE WifiAssumption, PinsAssumption, TroubleAssumption
<1>1. WifiTypeOK /\ PinsTypeOK /\ LinkInv /\ OldClearedOrNew /\ PowerStays
  BY DEF IInv, TypeOK
<1>0. Power \in Labels  BY DEF PinsAssumption, Labels
<1> DEFINE Stages == {"net", "http", "power", "backend", "analyser", "harness", "servers", "done"}
<1>2. CASE NetworkUp \/ StartBackend \/ StartServers
  <2>1. /\ boot' \in Stages /\ UNCHANGED <<wifiVars, pinVars, registered, powered>>
    BY <1>2 DEF NetworkUp, StartBackend, StartServers, BootGoto
  <2>2. WifiTypeOK' /\ LinkInv'
    BY <1>1, <2>1, LinkUntouched DEF wifiVars, linkVars, WifiTypeOK
  <2>3. PinsTypeOK' /\ OldClearedOrNew'  BY <1>1, <2>1, PinsUntouched DEF pinVars
  <2> QED  BY <2>1, <2>2, <2>3 DEF IInv, TypeOK, PowerStays, pinVars
<1>3. CASE StartHttp
  <2>1. /\ boot' = "power" /\ req' = "init" /\ UNCHANGED <<mode, wires, dutUp, importVars, spent, backup>>
        /\ UNCHANGED <<wifiVars, registered, powered>>
    BY <1>3 DEF StartHttp, BootGoto, HttpTask, ReqGoto
  <2>2. WifiTypeOK' /\ LinkInv'
    BY <1>1, <2>1, LinkUntouched DEF wifiVars, linkVars, WifiTypeOK
  <2>3. PinsTypeOK' /\ OldClearedOrNew'
    BY <1>1, <2>1 DEF PinsTypeOK, OldClearedOrNew, Given, importVars
  <2> QED  BY <2>1, <2>2, <2>3 DEF IInv, TypeOK, PowerStays
<1>4. CASE StartPower
  <2>1. /\ boot' = "backend" /\ mode' = [mode EXCEPT ![Power] = "out"]
        /\ UNCHANGED <<wires, dutUp, req, importVars, backup, wifiVars, registered>>
    BY <1>4 DEF StartPower, BootGoto, PowerUp
  <2>2. WifiTypeOK' /\ LinkInv'
    BY <1>1, <2>1, LinkUntouched DEF wifiVars, linkVars, WifiTypeOK
  <2>3. PinsTypeOK' /\ OldClearedOrNew'
    BY <1>0, <1>1, <2>1 DEF PinsTypeOK, OldClearedOrNew, Given, importVars
  <2>4. mode'[Power] = "out"  BY <1>0, <1>1, <2>1 DEF PinsTypeOK
  <2>5. powered' = TRUE  BY <1>4 DEF StartPower
  <2> QED  BY <2>1, <2>2, <2>3, <2>4, <2>5 DEF IInv, TypeOK, PowerStays
<1>5. CASE StartAnalyser \/ StartHarness
  <2>1. /\ boot' \in {"harness", "servers"} /\ dutUp' \in {dutUp, TRUE}
        /\ \E d \in {"analyser", "harness"} : registered' = Append(registered, d)
        /\ UNCHANGED <<wifiVars, mode, wires, req, importVars, backup, powered>>
    BY <1>5 DEF StartAnalyser, StartHarness, BootGoto, Register, pinVars, importVars
  <2>2. WifiTypeOK' /\ LinkInv'
    BY <1>1, <2>1, LinkUntouched DEF wifiVars, linkVars, WifiTypeOK
  <2>3. PinsTypeOK' /\ OldClearedOrNew'
    <3>1. dutUp' \in BOOLEAN  BY <1>1, <2>1 DEF PinsTypeOK
    <3> QED  BY <1>1, <2>1, <3>1 DEF PinsTypeOK, OldClearedOrNew, Given, importVars
  <2>4. registered' \in Seq({"analyser", "harness"})
    BY <2>1, AppendProperties DEF IInv, TypeOK
  <2> QED  BY <2>1, <2>2, <2>3, <2>4 DEF IInv, TypeOK, PowerStays
<1>6. ASSUME Trouble \/ UNCHANGED spent, Reset PROVE IInv'
  <2>1. spent' \in 0 .. MaxTrouble
    BY <1>1, <1>6 DEF Trouble, WifiTypeOK, TroubleAssumption
  <2>2. WifiTypeOK' /\ LinkInv'  BY <1>1, <1>6, <2>1, ResetWifi DEF Reset
  <2>3. /\ req' = "off" /\ dutUp' = FALSE /\ UNCHANGED <<wires, backup>> /\ Forget
        /\ mode' = [p \in Labels |-> IF p \in Natives THEN "in" ELSE mode[p]]
    BY <1>6 DEF Reset, PinsReset
  <2>4. mode' \in [Labels -> {"in", "out"}] /\ wires' \in [Labels -> Names]
    BY <1>1, <2>3 DEF PinsTypeOK
  <2>5. at' \in Nat \ {0} /\ skipped' \in Nat /\ unclean' \subseteq Rows /\ refused' \subseteq Rows
    BY <2>3 DEF Forget
  <2>6. OldClearedOrNew' /\ before' \in [Labels -> Names]  BY <2>3, <2>4, Forgotten
  <2>7. PinsTypeOK'  BY <1>1, <2>3, <2>4, <2>5, <2>6 DEF PinsTypeOK
  <2>8. boot' = "net" /\ registered' = <<>> /\ powered' = FALSE  BY <1>6 DEF Reset
  <2>9. registered' \in Seq({"analyser", "harness"})  BY <2>8
  <2> QED  BY <2>2, <2>6, <2>7, <2>8, <2>9 DEF IInv, TypeOK, PowerStays
<1>7. CASE UNCHANGED vars
  <2>1. WifiTypeOK' /\ LinkInv'
    BY <1>1, <1>7, LinkUntouched DEF vars, wifiVars, linkVars, WifiTypeOK
  <2>2. PinsTypeOK' /\ OldClearedOrNew'  BY <1>1, <1>7, PinsUntouched DEF vars, pinVars
  <2> QED  BY <1>7, <2>1, <2>2 DEF IInv, TypeOK, PowerStays, vars, pinVars
<1>8. CASE Wifi
  <2>1. WifiNext /\ UNCHANGED <<mode, wires, dutUp, req, importVars, backup, boot, registered, powered>>
    BY <1>8 DEF Wifi
  <2>2. WifiTypeOK' /\ LinkInv'
    BY <1>1, <2>1, EarlyStep, AttemptStep, HandlerStep, NetworkStep DEF WifiNext, Unattended
  <2>3. PinsTypeOK' /\ OldClearedOrNew'  BY <1>1, <2>1, PinsUntouched DEF importVars
  <2> QED  BY <2>1, <2>2, <2>3 DEF IInv, TypeOK, PowerStays
<1>9. CASE Pins
  <2>1. /\ UNCHANGED <<credVars, net, linkVars, boot, registered>>
        /\ \/ Working /\ UNCHANGED powered
           \/ Asked /\ powered' = (powered /\ mode'[Power] = "out")
    BY <1>9 DEF Pins
  <2>2. PinsTypeOK' /\ OldClearedOrNew' /\ spent' \in 0 .. MaxTrouble
    BY <1>1, <2>1, WorkingStep, AskedStep DEF WifiTypeOK, Trouble, TroubleAssumption
  <2>3. WifiTypeOK' /\ LinkInv'
    BY <1>1, <2>1, <2>2, LinkUntouched DEF WifiTypeOK, credVars, linkVars
  <2>4. PowerStays' /\ powered' \in BOOLEAN
    <3>1. CASE Working /\ UNCHANGED powered
      <4>1. mode'[Power] = mode[Power]  BY <1>1, <3>1, WorkingStep
      <4>2. powered' = powered  BY <3>1
      <4>3. powered \in BOOLEAN  BY DEF IInv, TypeOK
      <4> QED  BY <1>1, <4>1, <4>2, <4>3 DEF PowerStays
    <3>2. CASE powered' = (powered /\ mode'[Power] = "out")
      BY <3>2 DEF PowerStays
    <3> QED  BY <2>1, <3>1, <3>2
  <2> QED  BY <2>1, <2>2, <2>3, <2>4 DEF IInv, TypeOK
<1> QED
  BY <1>2, <1>3, <1>4, <1>5, <1>6, <1>7, <1>8, <1>9 DEF Next, Start, Accident, Abort, ListDevices

\* The inductive invariant holds throughout.
THEOREM BoardInvariance == Spec => []IInv
<1>1. Init => IInv  BY InitInv
<1>2. IInv /\ [Next]_vars => IInv'  BY NextInv
<1> QED  BY <1>1, <1>2, PTL DEF Spec

\* Type correctness of start-up, Wi-Fi and pins together.
THEOREM BoardTypeCorrect == Spec => []TypeOK
<1>1. IInv => TypeOK  BY DEF IInv
<1> QED  BY <1>1, BoardInvariance, PTL

\* wifi_attempt_connect clears what it shares with the handler only when the
\* handler has nothing to do, however often attempts fail.
THEOREM AttemptsApart == Spec => []AttemptStartsClean
<1>1. IInv => AttemptStartsClean
  BY EmptySeq DEF IInv, TypeOK, WifiTypeOK, LinkInv, Early, AttemptStartsClean
<1> QED  BY <1>1, BoardInvariance, PTL

\* Nothing but the configured number of failures in a row, of which start-up
\* is told, or a refused call to connect ends the retries.
THEOREM RetriesUsed == Spec => []GivesUpInRow
<1>1. IInv => GivesUpInRow
  BY DEF IInv, LinkInv, Waiting, Handled, Started, Dropped, Online, OnlineDropped, GivesUpInRow
<1> QED  BY <1>1, BoardInvariance, PTL

\* An import never puts a name on a pin that neither had it nor was given it,
\* for any table of pins and any file, over failures and resets.
THEOREM WiresFromFile == Spec => []OldClearedOrNew
<1>1. IInv => OldClearedOrNew  BY DEF IInv
<1> QED  BY <1>1, BoardInvariance, PTL

\* The start of the HTTP server leaves the USB port its power.
THEOREM PowerKept == Spec => []PowerStays
<1>1. IInv => PowerStays  BY DEF IInv
<1> QED  BY <1>1, BoardInvariance, PTL
-----------------------------------------------------------------------------
(* What an export lists.                                                   *)

\* The rows up to row i that are in S, a set of rows.
UpTo(S, i) == {j \in S : j <= i}

\* Counting the rows of S up to each of them numbers S without a gap.
LEMMA Numbering ==
    ASSUME NEW n \in Nat, NEW S \in SUBSET (1 .. n)
    PROVE  /\ Cardinality(S) \in Nat
           /\ \A i \in S : Cardinality(UpTo(S, i)) \in 1 .. Cardinality(S)
           /\ \A i, k \in S : Cardinality(UpTo(S, i)) = Cardinality(UpTo(S, k)) => i = k
           /\ \A m \in 1 .. Cardinality(S) : \E i \in S : Cardinality(UpTo(S, i)) = m
<1> DEFINE c == Cardinality(S)
           f == [i \in S |-> Cardinality(UpTo(S, i))]
<1>1. IsFiniteSet(S) /\ c \in Nat
  <2>1. IsFiniteSet(1 .. n)  BY FS_Interval
  <2>2. IsFiniteSet(S)  BY <2>1, FS_Subset
  <2> QED  BY <2>2, FS_CardinalityType
<1>2. ASSUME NEW i \in S PROVE IsFiniteSet(UpTo(S, i)) /\ Cardinality(UpTo(S, i)) \in 1 .. c
  <2>1. UpTo(S, i) \in SUBSET S /\ i \in UpTo(S, i)
    BY DEF UpTo
  <2>2. IsFiniteSet(UpTo(S, i)) /\ Cardinality(UpTo(S, i)) <= c
    BY <1>1, <2>1, FS_Subset
  <2>3. Cardinality(UpTo(S, i)) \in Nat /\ Cardinality(UpTo(S, i)) # 0
    BY <2>1, <2>2, FS_CardinalityType, FS_EmptySet
  <2> QED  BY <1>1, <2>2, <2>3
<1>3. ASSUME NEW i \in S, NEW k \in S, i < k
      PROVE  Cardinality(UpTo(S, i)) # Cardinality(UpTo(S, k))
  <2>1. UpTo(S, i) \in SUBSET UpTo(S, k)
    <3>1. \A j \in S : j <= i => j <= k
      <4>1. \A j \in S : j \in Nat  OBVIOUS
      <4> QED  BY <1>3, <4>1
    <3> QED  BY <3>1 DEF UpTo
  <2>2. k \in UpTo(S, k) /\ k \notin UpTo(S, i)  BY <1>3 DEF UpTo
  <2> QED  BY <1>2, <2>1, <2>2, FS_Subset
<1>4. \A i, k \in S : Cardinality(UpTo(S, i)) = Cardinality(UpTo(S, k)) => i = k
  <2> SUFFICES ASSUME NEW i \in S, NEW k \in S, i # k
               PROVE  Cardinality(UpTo(S, i)) # Cardinality(UpTo(S, k))
    OBVIOUS
  <2>1. i < k \/ k < i  OBVIOUS
  <2> QED  BY <1>3, <2>1
<1>5. f \in Injection(S, 1 .. c)
  <2>1. f \in [S -> 1 .. c]  BY <1>2
  <2>2. \A i, k \in S : f[i] = f[k] => i = k  BY <1>4
  <2> QED  BY <2>1, <2>2 DEF Injection, IsInjective
<1>6. f \in Surjection(S, 1 .. c)
  <2>1. IsFiniteSet(1 .. c) /\ Cardinality(1 .. c) = c
    BY <1>1, FS_Interval
  <2> HIDE DEF f
  <2> QED  BY <1>5, <2>1, FS_Injection
<1>7. \A m \in 1 .. c : \E i \in S : f[i] = m  BY <1>6 DEF Surjection
<1> QED  BY <1>1, <1>2, <1>4, <1>7

\* An export has one entry for each row with a wire, and no other.
LEMMA Exported ==
    ASSUME NEW b \in [Rows -> Names]
    PROVE  /\ \E n \in Nat : DOMAIN Export(b) = 1 .. n
           /\ \A k \in DOMAIN Export(b) :
                Export(b)[k].pin \in Rows /\ Export(b)[k].wire = b[Export(b)[k].pin]
           /\ \A p \in Rows :
                b[p] # Unwired <=> \E k \in DOMAIN Export(b) : Export(b)[k].pin = p
<1> DEFINE kept == {i \in DOMAIN PinTable : Wired(b, PinTable[i])}
           c == Cardinality(kept)
           Nth(k) == CHOOSE i \in kept : Cardinality({j \in kept : j <= i}) = k
<1>1. PICK n \in Nat : DOMAIN PinTable = 1 .. n
  BY PinsAssumption, LenProperties DEF PinsAssumption
<1>2. kept \in SUBSET (1 .. n)  BY <1>1
<1>3. /\ c \in Nat
      /\ \A i \in kept : Cardinality(UpTo(kept, i)) \in 1 .. c
      /\ \A i, k \in kept : Cardinality(UpTo(kept, i)) = Cardinality(UpTo(kept, k)) => i = k
      /\ \A m \in 1 .. c : \E i \in kept : Cardinality(UpTo(kept, i)) = m
  <2> HIDE DEF kept
  <2> QED  BY <1>2, Numbering
<1>4. \A k \in 1 .. c : Nth(k) \in kept
  BY <1>3 DEF UpTo
<1>5. \A i \in kept : \E k \in 1 .. c : Nth(k) = i
  <2> SUFFICES ASSUME NEW i \in kept PROVE \E k \in 1 .. c : Nth(k) = i
    OBVIOUS
  <2> DEFINE k == Cardinality(UpTo(kept, i))
  <2>1. k \in 1 .. c  BY <1>3
  <2>2. Cardinality(UpTo(kept, Nth(k))) = k /\ Nth(k) \in kept
    BY <1>3, <2>1 DEF UpTo
  <2>3. Nth(k) = i
    <3> HIDE DEF kept, Nth
    <3> QED  BY <1>3, <2>2
  <2> QED  BY <2>1, <2>3
<1>6. Export(b) = [k \in 1 .. c |-> WireOn(b, PinTable[Nth(k)])]
  BY DEF Export
<1>7. \A i \in kept : PinTable[i] \in Rows /\ b[PinTable[i]] # Unwired
  BY DEF Rows, Wired
<1>8. \A p \in Rows : b[p] # Unwired => \E i \in kept : PinTable[i] = p
  BY DEF Rows, Wired
<1> HIDE DEF kept, c, Nth
<1>9. DOMAIN Export(b) = 1 .. c  BY <1>6
<1>10. \A k \in 1 .. c : /\ Export(b)[k].pin = PinTable[Nth(k)]
                         /\ Export(b)[k].wire = b[PinTable[Nth(k)]]
  BY <1>6 DEF WireOn
<1>11. \A k \in 1 .. c : Export(b)[k].pin \in Rows /\ b[Export(b)[k].pin] # Unwired
  BY <1>4, <1>7, <1>10
<1>12. \A p \in Rows : b[p] # Unwired => \E k \in 1 .. c : Export(b)[k].pin = p
  BY <1>5, <1>8, <1>10
<1> QED  BY <1>3, <1>9, <1>10, <1>11, <1>12

-----------------------------------------------------------------------------
(* The progress of an import.                                              *)

\* The entries for pin p that an import has come to and takes.
Taken(p) == {j \in DOMAIN file : j < at /\ file[j].pin = p /\ Takes(j)}

\* The rows before the loop's place are clear, or counted as not cleared.
ClearedSoFar ==
    req = "clear" =>
        /\ refused = {} /\ skipped = 0
        /\ \A i \in DOMAIN PinTable :
             i < at => wires[PinTable[i]] = Unwired \/ PinTable[i] \in unclean

\* Each row has the last name it was given so far.
AppliedSoFar ==
    req \in {"apply", "reply"} =>
        \A p \in Rows :
            IF Taken(p) = {} THEN wires[p] = Unwired \/ p \in unclean
            ELSE \/ p \in refused
                 \/ \E i \in Taken(p) :
                      wires[p] = file[i].wire /\ \A j \in Taken(p) : j <= i

\* What was not taken, or refused, is counted.
Counted ==
    req \in {"apply", "reply"} /\ skipped = 0 =>
        refused = {} /\ \A j \in DOMAIN file : j < at => Takes(j)

AllRead == req = "reply" => at \notin DOMAIN file

FileSeq == \E n \in Nat : DOMAIN file = 1 .. n

\* The inductive invariant behind NothingSkippedMeansDone and BackupRestores.
ImportInv == FileSeq /\ ClearedSoFar /\ AppliedSoFar /\ Counted /\ AllRead

\* What leaves these alone leaves ImportInv alone.
LEMMA ImportUntouched ==
    ASSUME ImportInv, UNCHANGED <<wires, req, at, file, skipped, unclean, refused>>
    PROVE  ImportInv'
  BY DEF ImportInv, FileSeq, ClearedSoFar, AppliedSoFar, Counted, AllRead, Taken, Takes, NameOf

\* Outside an import only the file matters.
LEMMA NotImporting ==
    ASSUME FileSeq', req' \notin {"clear", "apply", "reply"}
    PROVE  ImportInv'
  BY DEF ImportInv, ClearedSoFar, AppliedSoFar, Counted, AllRead

\* No file is a file without entries.
LEMMA NoFile == ASSUME file' = <<>> PROVE FileSeq'
<1>1. DOMAIN file' = 1 .. 0  BY DEF FileSeq
<1> QED  BY <1>1 DEF FileSeq

\* What may be imported is a sequence.
LEMMA ImportsSeq ==
    ASSUME PinsTypeOK, NEW f \in Files \cup {Export(backup)}, file' = f
    PROVE  FileSeq'
<1>1. CASE f \in Files
  <2>1. f \in Seq(Entry)  BY <1>1, PinsAssumption DEF PinsAssumption
  <2> QED  BY <2>1, LenProperties DEF FileSeq
<1>2. CASE f = Export(backup)
  BY <1>2, Exported DEF PinsTypeOK, FileSeq
<1> QED  BY <1>1, <1>2

\* A row is cleared, or counted.
LEMMA ClearRowImport == ASSUME PinsTypeOK, ImportInv, ClearRow PROVE ImportInv'
<1> DEFINE q == PinTable[at]
<1>1. q \in Rows /\ q \in Labels
  BY DEF ClearRow, ClearLoop, Rows, Labels
<1>2. /\ req = "clear" /\ at' = at + 1
      /\ UNCHANGED <<req, file, skipped, refused>>
      /\ \/ wires' = [wires EXCEPT ![q] = Unwired] /\ unclean' = unclean
         \/ wires' = wires /\ unclean' = unclean \cup {q}
  BY DEF ClearRow, WireSet, WireFails
<1>3. ASSUME NEW i \in DOMAIN PinTable, i < at'
      PROVE  wires'[PinTable[i]] = Unwired \/ PinTable[i] \in unclean'
  <2>0. wires \in [Labels -> Names] /\ PinTable[i] \in Labels /\ at \in Nat /\ i \in Nat
    BY PinsAssumption, LenProperties DEF PinsTypeOK, Rows, Labels, PinsAssumption
  <2>1. CASE PinTable[i] = q  BY <1>1, <1>2, <2>0, <2>1
  <2>2. CASE PinTable[i] # q
    <3>1. i < at  BY <1>2, <1>3, <2>0, <2>2
    <3>2. wires[PinTable[i]] = Unwired \/ PinTable[i] \in unclean
      BY <1>2, <3>1 DEF ImportInv, ClearedSoFar
    <3> QED  BY <1>2, <2>0, <2>2, <3>2
  <2> QED  BY <2>1, <2>2
<1>4. FileSeq'  BY <1>2 DEF ImportInv, FileSeq
<1>5. ClearedSoFar'  BY <1>2, <1>3 DEF ImportInv, ClearedSoFar
<1> QED  BY <1>2, <1>4, <1>5 DEF ImportInv, AppliedSoFar, Counted, AllRead

\* At the end of the first loop no row is left out.
LEMMA ClearDoneImport == ASSUME PinsTypeOK, ImportInv, ClearDone PROVE ImportInv'
<1>1. /\ req = "clear" /\ req' = "apply" /\ at' = 1 /\ at \notin DOMAIN PinTable
      /\ UNCHANGED <<wires, file, skipped, unclean, refused>>
  BY DEF ClearDone, ReqGoto, ClearLoop
<1>2. PICK n \in Nat : DOMAIN PinTable = 1 .. n
  BY PinsAssumption, LenProperties DEF PinsAssumption
<1>3. \A i \in DOMAIN PinTable : i < at  BY <1>1, <1>2 DEF PinsTypeOK
<1>4. \A p \in Rows : wires[p] = Unwired \/ p \in unclean
  BY <1>1, <1>3 DEF ImportInv, ClearedSoFar, Rows
<1>5. PICK m \in Nat : DOMAIN file = 1 .. m  BY DEF ImportInv, FileSeq
<1>6. \A p \in Rows : Taken(p)' = {}  BY <1>1, <1>5 DEF Taken
<1>7. AppliedSoFar'  BY <1>1, <1>4, <1>6 DEF AppliedSoFar
<1>8. Counted'  BY <1>1, <1>5 DEF ImportInv, ClearedSoFar, Counted
<1> QED  BY <1>1, <1>5, <1>7, <1>8 DEF ImportInv, FileSeq, ClearedSoFar, AllRead

\* The entries come to so far, after one more.
LEMMA OneMore ==
    ASSUME PinsTypeOK, ImportInv, at \in DOMAIN file, at' = at + 1, UNCHANGED file
    PROVE  /\ \A j \in DOMAIN file : Takes(j)' = Takes(j) /\ j \in Nat
           /\ \A p : Taken(p)' = Taken(p) \cup {j \in {at} : file[j].pin = p /\ Takes(j)}
           /\ \A p : \A j \in Taken(p) : j < at /\ j \in DOMAIN file
<1>1. PICK n \in Nat : DOMAIN file = 1 .. n  BY DEF ImportInv, FileSeq
<1>2. \A j \in DOMAIN file : Takes(j)' = Takes(j) /\ j \in Nat  BY <1>1 DEF Takes, NameOf
<1>3. \A j \in DOMAIN file : j < at' <=> j < at \/ j = at
  BY <1>1 DEF PinsTypeOK
<1>4. \A p : Taken(p)' = Taken(p) \cup {j \in {at} : file[j].pin = p /\ Takes(j)}
  BY <1>2, <1>3 DEF Taken
<1> QED  BY <1>2, <1>4 DEF Taken

\* An entry is left out, and counted.
LEMMA SkipImport == ASSUME PinsTypeOK, ImportInv, Skip PROVE ImportInv'
<1>1. /\ req = "apply" /\ at \in DOMAIN file /\ ~Takes(at)
      /\ skipped' = skipped + 1 /\ at' = at + 1
      /\ UNCHANGED <<wires, req, file, unclean, refused>>
  BY DEF Skip
<1>2. \A p : Taken(p)' = Taken(p)  BY <1>1, OneMore
<1>3. AppliedSoFar'  BY <1>1, <1>2 DEF ImportInv, AppliedSoFar
<1>4. skipped' # 0  BY <1>1 DEF PinsTypeOK
<1> QED  BY <1>1, <1>3, <1>4 DEF ImportInv, FileSeq, ClearedSoFar, Counted, AllRead

\* An entry is applied, or refused and counted.
LEMMA ApplyImport == ASSUME PinsTypeOK, ImportInv, Apply PROVE ImportInv'
<1> DEFINE q == file[at].pin
<1>1. /\ req = "apply" /\ at \in DOMAIN file /\ Takes(at) /\ at' = at + 1
      /\ UNCHANGED <<req, file, unclean>>
      /\ \/ wires' = [wires EXCEPT ![q] = file[at].wire] /\ UNCHANGED <<skipped, refused>>
         \/ wires' = wires /\ skipped' = skipped + 1 /\ refused' = refused \cup {q}
  BY DEF Apply, WireSet, WireFails, NameOf
<1>0. q \in Labels /\ wires \in [Labels -> Names]
  BY <1>1 DEF Takes, Labels, PinsTypeOK
<1>2. ASSUME NEW p \in Rows
      PROVE  IF Taken(p)' = {} THEN wires'[p] = Unwired \/ p \in unclean'
             ELSE \/ p \in refused'
                  \/ \E i \in Taken(p)' :
                       wires'[p] = file'[i].wire /\ \A j \in Taken(p)' : j <= i
  <2>1. CASE p = q
    <3>1. Taken(p)' = Taken(p) \cup {at} /\ \A j \in Taken(p) : j < at
      BY <1>1, <2>1, OneMore
    <3>2. \A j \in Taken(p)' : j <= at
      <4>1. \A j \in Taken(p) : j \in Nat  BY <1>1, OneMore
      <4> QED  BY <3>1, <4>1 DEF PinsTypeOK
    <3>3. p \in refused' \/ wires'[p] = file'[at].wire
      BY <1>0, <1>1, <2>1
    <3> QED  BY <3>1, <3>2, <3>3
  <2>2. CASE p # q
    <3>1. Taken(p)' = Taken(p)  BY <1>1, <2>2, OneMore
    <3>2. wires'[p] = wires[p] /\ (p \in refused => p \in refused')
      <4>1. p \in Labels  BY DEF Labels
      <4> QED  BY <1>0, <1>1, <2>2, <4>1
    <3> QED  BY <1>1, <3>1, <3>2 DEF ImportInv, AppliedSoFar
  <2> QED  BY <2>1, <2>2
<1>3. AppliedSoFar'  BY <1>1, <1>2 DEF AppliedSoFar
<1>4. Counted'
  <2>1. CASE skipped' = skipped + 1
    <3>1. skipped' # 0  BY <2>1 DEF PinsTypeOK
    <3> QED  BY <3>1 DEF Counted
  <2>2. CASE UNCHANGED <<skipped, refused>>
    <3>1. \A j \in DOMAIN file : j < at' => j < at \/ j = at
      BY <1>1, OneMore DEF PinsTypeOK
    <3>2. \A j \in DOMAIN file : Takes(j)' = Takes(j)  BY <1>1, OneMore
    <3> QED  BY <1>1, <2>2, <3>1, <3>2 DEF ImportInv, Counted
  <2> QED  BY <1>1, <2>1, <2>2
<1> QED  BY <1>1, <1>3, <1>4 DEF ImportInv, FileSeq, ClearedSoFar, AllRead

\* The server's steps keep ImportInv.
LEMMA WorkingImport == ASSUME PinsTypeOK, ImportInv, Working PROVE ImportInv'
<1>1. CASE InitPin
  <2>1. req' = "init" /\ UNCHANGED file  BY <1>1 DEF InitPin
  <2>2. FileSeq'  BY <2>1 DEF ImportInv, FileSeq
  <2> QED  BY <2>1, <2>2, NotImporting
<1>2. CASE InitDone \/ Reply
  <2>1. req' = "serve" /\ file' = <<>>  BY <1>2 DEF InitDone, Reply, ReqGoto, Forget
  <2> QED  BY <2>1, NoFile, NotImporting
<1>3. CASE ApplyDone
  <2>1. /\ req = "apply" /\ req' = "reply" /\ at \notin DOMAIN file
        /\ UNCHANGED <<wires, at, file, skipped, unclean, refused>>
    BY <1>3 DEF ApplyDone, ReqGoto, importVars
  <2> QED
    BY <2>1 DEF ImportInv, FileSeq, ClearedSoFar, AppliedSoFar, Counted, AllRead, Taken, Takes, NameOf
<1> QED
  BY <1>1, <1>2, <1>3, ClearRowImport, ClearDoneImport, SkipImport, ApplyImport DEF Working

\* Requests are served between imports.
LEMMA AskedImport == ASSUME PinsTypeOK, ImportInv, Asked PROVE ImportInv'
<1>1. ASSUME NEW p, NEW d, NEW v, NEW w, PostPin(p, d, v, w) PROVE ImportInv'
  <2>1. req' = "serve" /\ file' = <<>>  BY <1>1 DEF PostPin, Forget
  <2> QED  BY <2>1, NoFile, NotImporting
<1>2. ASSUME NEW p, Toggle(p) \/ Scpi(p) \/ GetConfig PROVE ImportInv'
  BY <1>2, ImportUntouched DEF Toggle, Scpi, GetConfig, importVars
<1>3. ASSUME NEW f \in Files \cup {Export(backup)}, PostConfig(f) PROVE ImportInv'
  <2>1. /\ req' = "clear" /\ at' = 1 /\ file' = f /\ skipped' = 0 /\ refused' = {}
    BY <1>3 DEF PostConfig, ReqGoto
  <2>2. FileSeq'  BY <2>1, ImportsSeq
  <2>3. PICK n \in Nat : DOMAIN PinTable = 1 .. n
    BY PinsAssumption, LenProperties DEF PinsAssumption
  <2>4. \A i \in DOMAIN PinTable : ~(i < at')  BY <2>1, <2>3
  <2>5. ClearedSoFar'  BY <2>1, <2>4 DEF ClearedSoFar
  <2> QED  BY <2>1, <2>2, <2>5 DEF ImportInv, AppliedSoFar, Counted, AllRead
<1> QED  BY <1>1, <1>2, <1>3 DEF Asked, Request

\* Every step of the board keeps ImportInv.
LEMMA ImportStep == ASSUME IInv, ImportInv, [Next]_vars PROVE ImportInv'
<1>0. PinsTypeOK  BY DEF IInv, TypeOK
<1> DEFINE Same == UNCHANGED <<wires, req, at, file, skipped, unclean, refused>>
<1>1. CASE NetworkUp \/ StartPower \/ StartBackend \/ StartAnalyser \/ StartHarness \/ StartServers
  <2>1. Same
    BY <1>1 DEF NetworkUp, StartPower, PowerUp, StartBackend, StartAnalyser, StartHarness,
                StartServers, pinVars, importVars
  <2> QED  BY <2>1, ImportUntouched
<1>2. CASE StartHttp
  <2>1. req' = "init" /\ UNCHANGED file  BY <1>2 DEF StartHttp, HttpTask, ReqGoto, importVars
  <2>2. FileSeq'  BY <2>1 DEF ImportInv, FileSeq
  <2> QED  BY <2>1, <2>2, NotImporting
<1>3. CASE Reset
  <2>1. req' = "off" /\ file' = <<>>  BY <1>3 DEF Reset, PinsReset, Forget
  <2> QED  BY <2>1, NoFile, NotImporting
<1>4. CASE Wifi
  BY <1>4, ImportUntouched DEF Wifi, importVars
<1>5. CASE UNCHANGED vars
  BY <1>5, ImportUntouched DEF vars, pinVars
<1>6. CASE Pins
  BY <1>0, <1>6, WorkingImport, AskedImport DEF Pins
<1> QED
  BY <1>1, <1>2, <1>3, <1>4, <1>5, <1>6 DEF Next, Start, Accident, Abort, ListDevices

\* The progress of an import, over everything that interrupts it.
THEOREM ImportInvariance == Spec => []ImportInv
<1>1. Init => ImportInv
  <2> SUFFICES ASSUME Init PROVE ImportInv
    OBVIOUS
  <2>1. req = "off" /\ DOMAIN file = 1 .. 0  BY DEF Init, PinsInit
  <2> QED  BY <2>1 DEF ImportInv, FileSeq, ClearedSoFar, AppliedSoFar, Counted, AllRead
<1>2. IInv /\ ImportInv /\ [Next]_vars => ImportInv'  BY ImportStep
<1> QED  BY <1>1, <1>2, BoardInvariance, PTL DEF Spec

\* When an import replies, every entry was come to.
LEMMA AllTaken ==
    ASSUME PinsTypeOK, ImportInv, req = "reply"
    PROVE  \A j \in DOMAIN file : j < at /\ j \in Nat
<1>1. PICK n \in Nat : DOMAIN file = 1 .. n  BY DEF ImportInv, FileSeq
<1> QED  BY <1>1 DEF ImportInv, AllRead, PinsTypeOK

\* An import that says it skipped nothing has given every row the last name in
\* the file and cleared the others, but for the rows it failed to clear, for
\* any table of pins, any file, and failures of NVS at any entry.
THEOREM ImportHonest == Spec => []NothingSkippedMeansDone
<1>1. IInv /\ ImportInv => NothingSkippedMeansDone
  <2> SUFFICES ASSUME IInv, ImportInv, req = "reply", skipped = 0, NEW p \in Rows
               PROVE  IF Given(p) = {} THEN wires[p] = Unwired \/ p \in unclean
                      ELSE wires[p] = Last(file, p)
    BY DEF NothingSkippedMeansDone
  <2>0. PinsTypeOK  BY DEF IInv, TypeOK
  <2>1. refused = {} /\ \A j \in DOMAIN file : Takes(j) /\ j < at /\ j \in Nat
    BY <2>0, AllTaken DEF ImportInv, Counted
  <2>2. Taken(p) = {j \in DOMAIN file : file[j].pin = p}
    BY <2>1 DEF Taken
  <2>3. CASE Taken(p) = {}
    <3>1. Given(p) = {}  BY <2>2, <2>3 DEF Given
    <3> QED  BY <2>3, <3>1 DEF ImportInv, AppliedSoFar
  <2>4. CASE Taken(p) # {}
    <3>1. Given(p) # {}  BY <2>2, <2>4 DEF Given
    <3>2. PICK i \in Taken(p) : wires[p] = file[i].wire /\ \A j \in Taken(p) : j <= i
      BY <2>1, <2>4 DEF ImportInv, AppliedSoFar
    <3> DEFINE Is(k) == file[k].pin = p /\ \A j \in DOMAIN file : file[j].pin = p => j <= k
               k == CHOOSE k \in DOMAIN file : Is(k)
    <3>3. i \in DOMAIN file /\ Is(i)  BY <2>2, <3>2
    <3>4. k \in DOMAIN file /\ Is(k)  BY <3>3
    <3>5. k = i
      <4> HIDE DEF k
      <4>1. k <= i /\ i <= k  BY <3>3, <3>4
      <4> QED  BY <2>1, <3>3, <3>4, <4>1
    <3>6. Last(file, p) = file[k].wire  BY DEF Last
    <3> QED  BY <3>1, <3>2, <3>5, <3>6
  <2> QED  BY <2>3, <2>4
<1> QED  BY <1>1, BoardInvariance, ImportInvariance, PTL

\* Importing an export restores the wires, but for names of the full length
\* and for what NVS refused, for any table of pins and any wires.
THEOREM BackupIsRestored == Spec => []BackupRestores
<1>1. IInv /\ ImportInv => BackupRestores
  <2> SUFFICES ASSUME IInv, ImportInv, req = "reply", file = Export(backup),
                      NEW p \in Rows \ (unclean \cup refused)
               PROVE  wires[p] = IF backup[p] \in Longs THEN Unwired ELSE backup[p]
    BY DEF BackupRestores
  <2>0. PinsTypeOK /\ backup \in [Rows -> Names] /\ Longs \subseteq Wires /\ Unwired \notin Wires
    BY PinsAssumption DEF IInv, TypeOK, PinsTypeOK, PinsAssumption
  <2>1. \A j \in DOMAIN file : j < at  BY <2>0, AllTaken
  <2>2. /\ \A k \in DOMAIN file : file[k].pin \in Rows /\ file[k].wire = backup[file[k].pin]
        /\ backup[p] # Unwired <=> \E k \in DOMAIN file : file[k].pin = p
    BY <2>0, Exported
  <2>3. \A k \in DOMAIN file : file[k].pin = p => (Takes(k) <=> backup[p] \notin Longs)
    BY <2>0, <2>2 DEF Takes, NameOf
  <2>4. IF Taken(p) = {} THEN wires[p] = Unwired
        ELSE \E i \in Taken(p) : wires[p] = file[i].wire
    BY DEF ImportInv, AppliedSoFar
  <2>5. CASE backup[p] \in Longs \/ backup[p] = Unwired
    <3>1. Taken(p) = {}  BY <2>2, <2>3, <2>5 DEF Taken
    <3> QED  BY <2>0, <2>4, <2>5, <3>1
  <2>6. CASE backup[p] \notin Longs /\ backup[p] # Unwired
    <3>1. Taken(p) # {}  BY <2>1, <2>2, <2>3, <2>6 DEF Taken
    <3>2. PICK i \in Taken(p) : wires[p] = file[i].wire  BY <2>4, <3>1
    <3>3. i \in DOMAIN file /\ file[i].pin = p  BY <3>2 DEF Taken
    <3> QED  BY <2>2, <2>6, <3>2, <3>3
  <2> QED  BY <2>5, <2>6
<1> QED  BY <1>1, BoardInvariance, ImportInvariance, PTL
=============================================================================
