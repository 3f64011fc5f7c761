------------------------------- MODULE DutPins -------------------------------
(***************************************************************************)
(* The DUT pins in the HTTP server (http_server.c): their directions, and  *)
(* the names of the wires on them, which harness_dut (external) keeps in   *)
(* NVS.  One task serves one request at a time; the test harness and the   *)
(* USB backend use the pins beside it.  The names of the bridge, which an  *)
(* import also sets, are in Discovery.                                     *)
(***************************************************************************)
EXTENDS Disturbances, Sequences, FiniteSets

CONSTANTS
    PinTable,   \* s_dut_pins
    Natives,    \* labels of native GPIOs; the others are expander pins
    Power,      \* the expander pin that powers the USB port
    Pulls,      \* expander pins of pull resistors, which have no row
    Stranger,   \* a label that this board does not have
    Wires,      \* names of wires
    Longs,      \* those of HARNESS_DUT_MAX_LABEL_LEN characters
    Unwired,    \* the empty name
    Absent,     \* no name given
    Files       \* wire lists that may be imported

Rows == {PinTable[i] : i \in DOMAIN PinTable}
Labels == Rows \cup Pulls
Names == Wires \cup {Unwired}
Entry == [pin : Labels \cup {Stranger}, wire : Names \cup {Absent}]

ASSUME PinsAssumption ==
    /\ PinTable \in Seq(Rows)
    /\ Natives \subseteq Rows /\ Power \in Rows \ Natives
    /\ Stranger \notin Labels
    /\ Longs \subseteq Wires
    /\ Unwired \notin Wires /\ Absent \notin Names
    /\ Files \subseteq Seq(Entry)

VARIABLES
    mode,       \* the direction each pin really has
    wires,      \* the wire on each pin, in NVS
    dutUp,      \* harness_dut_init has run
    req,        \* where the HTTP server's task is
    at,         \* its place in a loop over pins or entries
    file,       \* the entries it imports
    skipped,    \* what its reply will say
    before,     \* history: the wires when the request came
    unclean,    \* history: pins it failed to clear
    refused,    \* history: pins it failed to set
    backup      \* history: the wires as exported last

pinVars == <<mode, wires, dutUp, req, at, file, skipped, spent,
             before, unclean, refused, backup>>
importVars == <<at, file, skipped, before, unclean, refused>>

PinsInit ==
    /\ mode = [p \in Labels |-> "in"]
    /\ wires = [p \in Labels |-> Unwired]
    /\ dutUp = FALSE
    /\ req = "off" /\ at = 1
    /\ file = <<>> /\ skipped = 0
    /\ before = wires
    /\ unclean = {} /\ refused = {}
    /\ backup = [p \in Rows |-> Unwired]

ReqGoto(from, to) == req = from /\ req' = to
\* What an import leaves behind is of no use to the next request.
Forget ==
    /\ at' = 1 /\ file' = <<>> /\ skipped' = 0
    /\ before' = wires' /\ unclean' = {} /\ refused' = {}

-----------------------------------------------------------------------------
(* Start-up: every pin becomes an input.                                   *)

HttpTask ==
    /\ ReqGoto("off", "init")
    /\ UNCHANGED <<mode, wires, dutUp, importVars, spent, backup>>

\* Mutant: the pin that powers the USB port is no exception.
InitSkipsNone(p) == FALSE
\* The USB backend, started meanwhile, drives it.
InitSkips(p) == p = Power

\* Here too the expander may fail.
InitPin ==
    /\ req = "init" /\ at \in DOMAIN PinTable
    /\ LET p == PinTable[at] IN
         /\ \/ ~ InitSkips(p) /\ mode' = [mode EXCEPT ![p] = "in"]
            \/ (InitSkips(p) \/ p \notin Natives) /\ UNCHANGED mode
    /\ at' = at + 1
    /\ UNCHANGED <<wires, dutUp, req, file, skipped, spent, before, unclean, refused, backup>>

InitDone ==
    /\ at \notin DOMAIN PinTable
    /\ ReqGoto("init", "serve")
    /\ UNCHANGED <<mode, wires, dutUp, spent, backup>>
    /\ Forget

-----------------------------------------------------------------------------
(* Requests about one pin.                                                 *)

\* config_pin_input, config_pin_output: the expander may fail.
Steer(p, m) ==
    \/ mode' = [mode EXCEPT ![p] = m]
    \/ p \notin Natives /\ UNCHANGED mode

\* harness_dut_set_wire.
WireSet(p, w) == dutUp /\ wires' = [wires EXCEPT ![p] = w]
WireFails == UNCHANGED wires

\* POST /api/pins/<name>: a value makes an output of the pin, unless it says "in".
PostPin(p, direction, value, w) ==
    /\ req = "serve" /\ Trouble
    /\ IF direction = "in" THEN Steer(p, "in")
       ELSE IF direction = "out" \/ value THEN Steer(p, "out")
       ELSE UNCHANGED mode
    /\ (w # Absent /\ WireSet(p, w)) \/ WireFails
    /\ Forget
    /\ UNCHANGED <<dutUp, req, backup>>

\* POST /api/pins/<name>/toggle
Toggle(p) ==
    /\ req = "serve" /\ Trouble
    /\ Steer(p, "out")
    /\ UNCHANGED <<wires, dutUp, req, importVars, backup>>

-----------------------------------------------------------------------------
(* Export, import and clear.                                               *)

WireOn(b, p) == [pin |-> p, wire |-> b[p]]
Wired(b, p) == b[p] # Unwired
\* handle_get_config: the rows that have a wire, in their order.
Export(b) ==
    LET kept == {i \in DOMAIN PinTable : Wired(b, PinTable[i])}
        Nth(k) == CHOOSE i \in kept : Cardinality({j \in kept : j <= i}) = k
    IN [k \in 1 .. Cardinality(kept) |-> WireOn(b, PinTable[Nth(k)])]

GetConfig ==
    /\ req = "serve" /\ Trouble
    /\ backup' = [p \in Rows |-> IF dutUp THEN wires[p] ELSE Unwired]
    /\ UNCHANGED <<mode, wires, dutUp, req, importVars>>

\* POST /api/config, and with no entries POST /api/config/clear.
PostConfig(f) ==
    /\ Trouble
    /\ ReqGoto("serve", "clear")
    /\ at' = 1 /\ file' = f /\ skipped' = 0
    /\ before' = wires /\ unclean' = {} /\ refused' = {}
    /\ UNCHANGED <<mode, wires, dutUp, backup>>

\* Mutant: the loop leaves out the last row.
ClearLoopShort(i) == i < Len(PinTable)
ClearLoop(i) == i \in DOMAIN PinTable

\* A failure to clear is not noticed.
ClearRow ==
    /\ req = "clear" /\ ClearLoop(at)
    /\ at' = at + 1
    /\ \/ WireSet(PinTable[at], Unwired) /\ UNCHANGED unclean
       \/ WireFails /\ unclean' = unclean \cup {PinTable[at]}
    /\ UNCHANGED <<mode, dutUp, req, file, skipped, spent, before, refused, backup>>

ClearDone ==
    /\ ~ ClearLoop(at)
    /\ ReqGoto("clear", "apply")
    /\ at' = 1
    /\ UNCHANGED <<mode, wires, dutUp, file, skipped, spent, before, unclean, refused,
                   backup>>

\* Mutant: without a name of its own an entry has the next one's.
NameOfNext(i) ==
    IF file[i].wire = Absent /\ i < Len(file) THEN file[i + 1].wire ELSE file[i].wire
NameOf(i) == file[i].wire

\* The entry is for a row, and its name is shorter than the longest.
Takes(i) == file[i].pin \in Rows /\ NameOf(i) \in Names \ Longs

\* Mutant: what is left out is not counted.
SkipUncounted ==
    /\ req = "apply" /\ at \in DOMAIN file /\ ~ Takes(at)
    /\ at' = at + 1
    /\ UNCHANGED <<mode, wires, dutUp, req, file, skipped, spent, before, unclean, refused,
                   backup>>
Skip ==
    /\ req = "apply" /\ at \in DOMAIN file /\ ~ Takes(at)
    /\ skipped' = skipped + 1
    /\ at' = at + 1
    /\ UNCHANGED <<mode, wires, dutUp, req, file, spent, before, unclean, refused, backup>>

Apply ==
    /\ req = "apply" /\ at \in DOMAIN file /\ Takes(at)
    /\ \/ WireSet(file[at].pin, NameOf(at)) /\ UNCHANGED <<skipped, refused>>
       \/ /\ WireFails
          /\ skipped' = skipped + 1
          /\ refused' = refused \cup {file[at].pin}
    /\ at' = at + 1
    /\ UNCHANGED <<mode, dutUp, req, file, spent, before, unclean, backup>>

ApplyDone ==
    /\ at \notin DOMAIN file
    /\ ReqGoto("apply", "reply")
    /\ UNCHANGED <<mode, wires, dutUp, importVars, spent, backup>>

Reply ==
    /\ ReqGoto("reply", "serve")
    /\ UNCHANGED <<mode, wires, dutUp, spent, backup>>
    /\ Forget

-----------------------------------------------------------------------------
(* The others.                                                             *)

\* A SCPI command of the test harness (external).
Scpi(p) ==
    /\ dutUp /\ Trouble
    /\ \E m \in {"in", "out"} : mode' = [mode EXCEPT ![p] = m]
    /\ UNCHANGED <<wires, dutUp, req, importVars, backup>>

\* usb_backend_p4hil_usb_power_init.
PowerUp ==
    /\ mode' = [mode EXCEPT ![Power] = "out"]
    /\ UNCHANGED <<wires, dutUp, req, importVars, backup>>

Working ==
    \/ InitPin \/ InitDone \/ ClearRow \/ ClearDone \/ Skip \/ Apply \/ ApplyDone \/ Reply

Request ==
    \/ \E p \in Labels, d \in {"none", "in", "out"}, v \in BOOLEAN, w \in Names \cup {Absent} :
         PostPin(p, d, v, w)
    \/ \E p \in Labels : Toggle(p)
    \/ GetConfig
    \/ \E f \in Files \cup {Export(backup)} : PostConfig(f)

Asked == Request \/ (\E p \in Labels : Scpi(p))

\* A reset: NVS and the expanders keep what they have.
PinsReset ==
    /\ req' = "off" /\ dutUp' = FALSE
    /\ mode' = [p \in Labels |-> IF p \in Natives THEN "in" ELSE mode[p]]
    /\ UNCHANGED <<wires, backup>>
    /\ Forget

PinsTypeOK ==
    /\ mode \in [Labels -> {"in", "out"}]
    /\ wires \in [Labels -> Names] /\ before \in [Labels -> Names]
    /\ backup \in [Rows -> Names]
    /\ dutUp \in BOOLEAN
    /\ req \in {"off", "init", "serve", "clear", "apply", "reply"}
    /\ at \in Nat \ {0} /\ skipped \in Nat
    /\ unclean \subseteq Rows /\ refused \subseteq Rows

-----------------------------------------------------------------------------

Given(p) == {file[i].wire : i \in {j \in DOMAIN file : file[j].pin = p}}
Last(f, p) ==
    LET i == CHOOSE i \in DOMAIN f : f[i].pin = p /\ \A j \in DOMAIN f : f[j].pin = p => j <= i
    IN f[i].wire

\* Whatever fails or is cut off by a reset, a pin never carries a name from
\* somewhere else: it is the one from before the last request, none, or one
\* the request gave to this pin.
OldClearedOrNew ==
    \A p \in Labels : wires[p] \in {before[p], Unwired} \cup Given(p)

\* When the reply to an import says that nothing was skipped, each row has the
\* last name the file gives it and the others none; what the reply does not
\* tell is a row that could not be cleared.
NothingSkippedMeansDone ==
    req = "reply" /\ skipped = 0 =>
        \A p \in Rows :
            IF Given(p) = {} THEN wires[p] = Unwired \/ p \in unclean
            ELSE wires[p] = Last(file, p)

\* Importing what was exported brings the wires back, but for names of the
\* full length, which the export writes and the import refuses.
BackupRestores ==
    req = "reply" /\ file = Export(backup) =>
        \A p \in Rows \ (unclean \cup refused) :
            wires[p] = IF backup[p] \in Longs THEN Unwired ELSE backup[p]
=============================================================================
