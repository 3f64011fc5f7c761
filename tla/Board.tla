-------------------------------- MODULE Board --------------------------------
(***************************************************************************)
(* The bridge from reset to service (main.c): app_main starts one part     *)
(* after another, the HTTP server among the first, and any failure resets  *)
(* the chip.  Wi-Fi (WifiConnect) goes on beside the rest once it is up;   *)
(* the HTTP server (DutPins) serves while the rest still starts.           *)
(***************************************************************************)
EXTENDS WifiConnect, DutPins

VARIABLES
    boot,       \* how far app_main is
    registered, \* the virtual devices, in the order of their numbers
    powered     \* history: the USB port's power is on, as far as app_main and
                \* requests go

vars == <<wifiVars, pinVars, boot, registered, powered>>

Init ==
    /\ WifiInit /\ PinsInit
    /\ boot = "net" /\ registered = <<>> /\ powered = FALSE

BootGoto(from, to) == boot = from /\ boot' = to

\* network_init_start returns.
NetworkUp ==
    /\ net = "up"
    /\ BootGoto("net", "http")
    /\ UNCHANGED <<wifiVars, pinVars, registered, powered>>

StartHttp ==
    /\ BootGoto("http", "power")
    /\ HttpTask
    /\ UNCHANGED <<wifiVars, registered, powered>>

\* usb_backend_start: the port's power, then the lock, the queue and the tasks.
StartPower ==
    /\ BootGoto("power", "backend")
    /\ PowerUp
    /\ powered' = TRUE
    /\ UNCHANGED <<wifiVars, registered>>

StartBackend ==
    /\ BootGoto("backend", "analyser")
    /\ UNCHANGED <<wifiVars, pinVars, registered, powered>>

\* virtual_device_register; its number and busid are its place.
Register(d) == registered' = Append(registered, d)

StartAnalyser ==
    /\ BootGoto("analyser", "harness")
    /\ Register("analyser")
    /\ UNCHANGED <<wifiVars, pinVars, powered>>

StartHarness ==
    /\ BootGoto("harness", "servers")
    /\ dutUp' = TRUE
    /\ Register("harness")
    /\ UNCHANGED <<wifiVars, mode, wires, req, importVars, backup, powered>>

StartServers ==
    /\ BootGoto("servers", "done")
    /\ UNCHANGED <<wifiVars, pinVars, registered, powered>>

Start ==
    \/ NetworkUp \/ StartHttp \/ StartPower \/ StartBackend \/ StartAnalyser
    \/ StartHarness \/ StartServers

\* Power is cut, a step of app_main fails, or the code crashes.
Reset ==
    /\ WifiReset /\ PinsReset
    /\ boot' = "net" /\ registered' = <<>> /\ powered' = FALSE

Accident == Trouble /\ Reset

\* The credentials of the attempt, saved or not, are the end of it, and what
\* is saved is loaded again at the next start.
Abort == Rejected /\ Reset /\ UNCHANGED spent

\* GET /, GET /api/devices: they take the backend's lock, and before it exists
\* that is the end.
ListDevices ==
    /\ req = "serve"
    /\ IF boot \in {"power", "backend"} THEN Accident ELSE UNCHANGED vars

Wifi == WifiNext /\ UNCHANGED <<mode, wires, dutUp, req, importVars, backup, boot, registered,
                               powered>>

Pins ==
    /\ \/ Working /\ UNCHANGED powered
       \/ Asked /\ powered' = (powered /\ mode'[Power] = "out")
    /\ UNCHANGED <<credVars, net, linkVars, boot, registered>>

Next == Start \/ Accident \/ Abort \/ ListDevices \/ Wifi \/ Pins

Spec == Init /\ [][Next]_vars
FairSpec == Spec /\ WF_vars(Start) /\ WF_vars(Abort) /\ WifiFairness

-----------------------------------------------------------------------------

\* The type invariant.
TypeOK ==
    /\ WifiTypeOK /\ PinsTypeOK
    /\ boot \in {"net", "http", "power", "backend", "analyser", "harness", "servers", "done"}
    /\ registered \in Seq({"analyser", "harness"}) /\ powered \in BOOLEAN

\* The HTTP server's task makes inputs of the pins while app_main goes on: it
\* must not take the power from the USB port again.
PowerStays == powered => mode[Power] = "out"

\* Whatever is cut off by a reset, half saved credentials included, the bridge
\* comes up in the end, but in two cases: a station whose call to connect was
\* refused waits for ever (lines 276, 282, 337), and saved credentials that the
\* driver does not take reset the chip at every start (lines 331, 384, 429).
BootEnds ==
    []<>(boot = "done") \/ <>[](radio = "refused") \/ <>[](nvs \in Rejects)
=============================================================================
