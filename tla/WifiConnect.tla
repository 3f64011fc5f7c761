----------------------------- MODULE WifiConnect -----------------------------
(***************************************************************************)
(* Wi-Fi bring-up (network_init.c): credentials from NVS, from Kconfig or  *)
(* typed at the console, one attempt after another until an address        *)
(* arrives, and the handler of Wi-Fi events, which shares the retry count  *)
(* and the event group with the start-up code and goes on after it.        *)
(***************************************************************************)
EXTENDS Disturbances, Sequences

CONSTANTS
    Ssids, Passwords,
    Missing,    \* a key that NVS does not hold
    Kconfig,    \* the credentials the firmware is built with, or Missing
    Works,      \* the credentials the access point accepts
    Rejects,    \* those esp_wifi_set_config does not take
    MaxRetry    \* CONFIG_USBIP_WIFI_MAX_RETRY

Pair == [ssid : Ssids, pass : Passwords]

ASSUME WifiAssumption ==
    /\ Missing \notin Ssids \cup Passwords \cup Pair
    /\ Kconfig \in Pair \cup {Missing}
    /\ Rejects \subseteq Pair /\ Works \subseteq Pair \ Rejects
    /\ MaxRetry \in Nat

VARIABLES
    nvs,        \* the two keys in NVS
    net,        \* where network_init_wifi is
    cred,       \* ssid and password
    bits,       \* s_wifi_event_group
    retries,    \* s_wifi_retry_count
    radio,      \* what the station does; "refused" is idle, with no event to
                \* come, because the driver refused to connect
    events,     \* Wi-Fi and IP events not handled yet
    failures    \* history: disconnections since the last address or attempt

credVars == <<nvs, cred>>
linkVars == <<bits, retries, radio, events, failures>>
wifiVars == <<nvs, net, cred, bits, retries, radio, events, spent, failures>>

WifiInit ==
    /\ nvs \in Pair \cup {[ssid |-> Missing, pass |-> Missing]}
    /\ net = "load"
    /\ cred = nvs
    /\ bits = {} /\ retries = 0
    /\ radio = "off" /\ events = <<>>
    /\ spent = 0
    /\ failures = 0

NetGoto(from, to) == net = from /\ net' = to

-----------------------------------------------------------------------------
(* network_init_wifi and wifi_attempt_connect, in the start-up code.       *)

\* Both keys are there.
LoadSaved ==
    /\ NetGoto("load", "key")
    /\ nvs \in Pair
    /\ cred' = nvs
    /\ UNCHANGED <<nvs, linkVars, spent>>

\* A key is missing.
LoadNone ==
    /\ nvs \notin Pair
    /\ IF Kconfig = Missing
       THEN NetGoto("load", "prompt") /\ UNCHANGED cred
       ELSE NetGoto("load", "key") /\ cred' = Kconfig
    /\ UNCHANGED <<nvs, linkVars, spent>>

\* Three seconds for a key at the console.
KeyOrNot ==
    /\ NetGoto("key", "prompt") \/ NetGoto("key", "attempt")
    /\ UNCHANGED <<credVars, linkVars, spent>>

Type(p) ==
    /\ NetGoto("prompt", "ssid")
    /\ cred' = p
    /\ UNCHANGED <<nvs, linkVars, spent>>

\* wifi_creds_save: the keys are written one after the other.
StoreSsid ==
    /\ NetGoto("ssid", "pass")
    /\ nvs' = [nvs EXCEPT !.ssid = cred.ssid]
    /\ UNCHANGED <<cred, linkVars, spent>>

StorePass ==
    /\ NetGoto("pass", "attempt")
    /\ nvs' = [nvs EXCEPT !.pass = cred.pass]
    /\ UNCHANGED <<cred, linkVars, spent>>

\* A failure to save is only logged.
StoreFails ==
    /\ NetGoto("ssid", "attempt") \/ NetGoto("pass", "attempt")
    /\ UNCHANGED <<nvs, cred, linkVars, spent>>

\* esp_wifi_set_config fails, and ESP_ERROR_CHECK resets the chip.
Rejected == net = "attempt" /\ cred \in Rejects

Attempt ==
    /\ NetGoto("attempt", "wait")
    /\ cred \notin Rejects
    /\ retries' = 0 /\ bits' = {}
    /\ radio' = "idle" /\ events' = Append(events, "start")
    /\ failures' = 0
    /\ UNCHANGED <<credVars, spent>>

AttemptSucceeds ==
    /\ "connected" \in bits
    /\ NetGoto("wait", "up")
    /\ UNCHANGED <<credVars, linkVars, spent>>

\* Mutant: the failure is handed to app_main, whose ESP_ERROR_CHECK restarts.
AttemptFailsForGood ==
    /\ "fail" \in bits /\ "connected" \notin bits
    /\ NetGoto("wait", "load")
    /\ radio' = "off" /\ bits' = {} /\ retries' = 0 /\ failures' = 0
    /\ UNCHANGED <<credVars, events, spent>>

\* The next one is with what is typed then.
AttemptFails ==
    /\ "fail" \in bits /\ "connected" \notin bits
    /\ NetGoto("wait", "prompt")
    /\ radio' = "off"
    /\ UNCHANGED <<credVars, bits, retries, events, failures, spent>>

-----------------------------------------------------------------------------
(* wifi_event_handler, in the event loop's task.                           *)

NextEvent(e) == events # <<>> /\ Head(events) = e /\ events' = Tail(events)
\* esp_wifi_connect: the driver may refuse, and the result is dropped.
Connect == IF radio = "off" THEN radio' = "off" ELSE radio' \in {"trying", "refused"}

OnStart ==
    /\ NextEvent("start")
    /\ Connect
    /\ UNCHANGED <<credVars, net, bits, retries, spent, failures>>

OnDisconnected ==
    /\ NextEvent("disconnected")
    /\ retries < MaxRetry
    /\ Connect
    /\ retries' = retries + 1
    /\ UNCHANGED <<credVars, net, bits, spent, failures>>

\* Mutant: one more attempt to connect is on its way when the failure is told.
GiveUpConnecting ==
    /\ NextEvent("disconnected")
    /\ retries >= MaxRetry
    /\ bits' = bits \cup {"fail"}
    /\ Connect
    /\ UNCHANGED <<credVars, net, retries, spent, failures>>

GiveUp ==
    /\ NextEvent("disconnected")
    /\ retries >= MaxRetry
    /\ bits' = bits \cup {"fail"}
    /\ UNCHANGED <<credVars, net, retries, radio, spent, failures>>

\* Mutant: earlier failures go on counting.
OnAddressStillCounting ==
    /\ NextEvent("ip")
    /\ bits' = bits \cup {"connected"}
    /\ UNCHANGED <<credVars, net, retries, radio, spent, failures>>

OnAddress ==
    /\ NextEvent("ip")
    /\ retries' = 0
    /\ bits' = bits \cup {"connected"}
    /\ UNCHANGED <<credVars, net, radio, spent, failures>>

Handler == OnStart \/ OnDisconnected \/ GiveUp \/ OnAddress

-----------------------------------------------------------------------------
(* The Wi-Fi driver and the network (external).                            *)

Join ==
    /\ radio = "trying" /\ cred \in Works
    /\ radio' = "joined"
    /\ UNCHANGED <<credVars, net, bits, retries, events, spent, failures>>

Disconnect ==
    /\ radio' = "idle" /\ events' = Append(events, "disconnected")
    /\ failures' = failures + 1
    /\ UNCHANGED <<credVars, net, bits, retries>>

\* The access point refuses, out of trouble or for the credentials.
Refuse == radio = "trying" /\ cred \notin Works /\ Disconnect /\ UNCHANGED spent
Miss == radio = "trying" /\ cred \in Works /\ Trouble /\ Disconnect
Lose == radio \in {"joined", "online"} /\ Trouble /\ Disconnect

Address ==
    /\ radio = "joined"
    /\ radio' = "online" /\ events' = Append(events, "ip")
    /\ failures' = 0
    /\ UNCHANGED <<credVars, net, bits, retries, spent>>

-----------------------------------------------------------------------------

Unattended ==
    \/ LoadSaved \/ LoadNone \/ KeyOrNot \/ StoreSsid \/ StorePass \/ StoreFails
    \/ Attempt \/ AttemptSucceeds \/ AttemptFails
Network == Join \/ Refuse \/ Address

WifiNext ==
    \/ Unattended \/ (\E p \in Pair : Type(p))
    \/ Handler \/ Network \/ Miss \/ Lose

\* A reset; NVS stays.
WifiReset ==
    /\ net' = "load"
    /\ bits' = {} /\ retries' = 0 /\ radio' = "off" /\ events' = <<>> /\ failures' = 0
    /\ UNCHANGED credVars

\* Tasks run, the network answers, and who types at the console gets it right
\* in the end.
WifiFairness ==
    /\ WF_wifiVars(Unattended) /\ WF_wifiVars(Handler) /\ WF_wifiVars(Network)
    /\ WF_wifiVars(\E p \in Pair : Type(p))
    /\ SF_wifiVars(\E p \in Works : Type(p))

WifiTypeOK ==
    /\ nvs \in [ssid : Ssids \cup {Missing}, pass : Passwords \cup {Missing}]
    /\ cred \in [ssid : Ssids \cup {Missing}, pass : Passwords \cup {Missing}]
    /\ net \in {"load", "key", "prompt", "ssid", "pass", "attempt", "wait", "up"}
    /\ bits \subseteq {"connected", "fail"}
    /\ retries \in 0 .. MaxRetry
    /\ radio \in {"off", "idle", "refused", "trying", "joined", "online"}
    /\ events \in Seq({"start", "disconnected", "ip"})
    /\ spent \in 0 .. MaxTrouble
    /\ failures \in Nat

\* The start-up code clears the retry count and the event group, which belong
\* to the handler, only when the handler has nothing to do: no event is left
\* from the attempt before, and no connection is on its way.
AttemptStartsClean ==
    net \in {"load", "key", "prompt", "ssid", "pass", "attempt"} =>
        radio = "off" /\ events = <<>>

\* Unless the driver refuses a call to connect (line 276 or 282, and nobody
\* learns of it), the station is left without a connection only after as many
\* failures in a row as are configured, also after an address had been there,
\* and the start-up code is told.
GivesUpInRow ==
    radio = "idle" /\ events = <<>> => failures > MaxRetry /\ "fail" \in bits
=============================================================================
