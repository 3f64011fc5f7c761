------------------------------ MODULE Discovery ------------------------------
(***************************************************************************)
(* The bridge's name on the network: the hostname and board ID in NVS      *)
(* (device_naming.c), the HTTP requests that change them (http_server.c)   *)
(* and what mDNS advertises (discovery_service.c).  Three tasks advertise: *)
(* the start-up code, the HTTP server after a change, and the discovery    *)
(* task when the exported devices change.  They share s_board_id and       *)
(* s_last_snapshot without a lock.                                         *)
(***************************************************************************)
EXTENDS Sequences, FiniteSets

CONSTANTS
    Names,         \* values a hostname or a board ID can be set to
    Unset,         \* no value in NVS: the default hostname, the empty board ID
    Snapshots,     \* what the discovery task can find exported
    Idle,          \* the snapshot without devices
    Torn,          \* a value copied while another task was storing it
    MdnsMayFail    \* mDNS may refuse a hostname or a TXT record

Keys == {"host", "board"}
Values == Names \cup {Unset}
Tasks == {"boot", "http", "task"}

ASSUME DiscoveryAssumption ==
    /\ Unset \notin Names
    /\ Idle \in Snapshots
    /\ Torn \notin Snapshots \cup Values
    /\ MdnsMayFail \in BOOLEAN

VARIABLES
    stored,      \* the two keys in NVS
    exported,    \* what usb_backend_get_devices would return
    ad,          \* hostname, board ID and snapshot as mDNS advertises them
    board,       \* s_board_id
    last,        \* s_last_snapshot
    pc,          \* where each task is
    bootHost,    \* hostname in discovery_service_start
    current,     \* current in discovery_task
    text,        \* the TXT items notify formatted
    todo,        \* writes the HTTP request has still to make
    strict,      \* the request ends at its first failing write
    missed,      \* history: keys whose change mDNS was not told
    overlap      \* history: two tasks were in their advertising code at once

nvsVars == <<stored, todo, strict>>
taskVars == <<exported, current, last>>
vars == <<stored, exported, ad, board, last, pc, bootHost, current, text,
          todo, strict, missed, overlap>>

Write == [key : Keys, value : Values]
Set(k, v) == [key |-> k, value |-> v]

FirstAd == [host |-> Unset, board |-> Unset, snapshot |-> Idle]
FirstPc == [boot |-> "host", http |-> "idle", task |-> "off"]

Init ==
    /\ stored \in [Keys -> Values]
    /\ exported \in Snapshots
    /\ ad = FirstAd
    /\ pc = FirstPc
    /\ board = Unset /\ bootHost = Unset
    /\ last = Idle /\ current = Idle /\ text = Idle
    /\ todo = <<>> /\ strict = FALSE
    /\ missed = {} /\ overlap = FALSE

Goto(p, here, there) == pc[p] = here /\ pc' = [pc EXCEPT ![p] = there]

\* p is between reading the board ID and the end of its advertisement.
Sharing(p) ==
    pc[p] \in {"board", "blank", "service", "format", "text", "compare", "publish", "store"}
Overlapping == \E p, q \in Tasks : p # q /\ Sharing(p) /\ Sharing(q)

\* mdns_hostname_set; mdns_service_txt_set.
PutHost(h) == ad' = [host |-> h, board |-> ad.board, snapshot |-> ad.snapshot]
PutText(b, s) == ad' = [host |-> ad.host, board |-> b, snapshot |-> s]

MdnsUp == pc["boot"] \notin {"host", "mdns"}
ServiceUp == pc["boot"] = "up"

\* device_naming_get_board_id(s_board_id): a value that is stored is copied
\* under the lock of NVS.
ReadBoard(p, next) ==
    /\ stored["board"] # Unset
    /\ Goto(p, "board", next)
    /\ board' = stored["board"]

\* No value is stored; the buffer is blanked afterwards, without the lock.
MissBoard(p) ==
    /\ stored["board"] = Unset
    /\ Goto(p, "board", "blank")
    /\ UNCHANGED board

BlankBoard(p, next) ==
    /\ Goto(p, "blank", next)
    /\ board' = Unset

\* p is about to change s_board_id.
Filling(p) ==
    \/ pc[p] = "board" /\ stored["board"] \notin {Unset, board}
    \/ pc[p] = "blank" /\ board # Unset

\* p copies s_board_id, which another may be filling.
CopiedBoard(p) == {board} \cup {Torn : q \in {r \in Tasks \ {p} : Filling(r)}}

-----------------------------------------------------------------------------
(* discovery_service_start; a step that fails restarts the bridge.         *)

BootHost ==
    /\ Goto("boot", "host", "mdns")
    /\ bootHost' = stored["host"]
    /\ missed' = missed \ {"host"}
    /\ UNCHANGED <<nvsVars, taskVars, ad, board, text>>

BootMdns ==
    /\ Goto("boot", "mdns", "name")
    /\ UNCHANGED <<nvsVars, taskVars, ad, board, bootHost, text, missed>>

BootName ==
    /\ Goto("boot", "name", "board")
    /\ PutHost(bootHost)
    /\ missed' = IF bootHost = stored["host"] THEN missed ELSE missed \cup {"host"}
    /\ bootHost' = Unset
    /\ UNCHANGED <<nvsVars, taskVars, board, text>>

BootBoard ==
    /\ \/ ReadBoard("boot", "service") /\ missed' = missed \ {"board"}
       \/ MissBoard("boot") /\ missed' = missed \ {"board"}
       \/ BlankBoard("boot", "service") /\ UNCHANGED missed
    /\ UNCHANGED <<nvsVars, taskVars, ad, bootHost, text>>

\* mdns_service_add; the discovery task is created.
BootService ==
    /\ pc["boot"] = "service"
    /\ pc' = [pc EXCEPT !["boot"] = "up", !["task"] = "scan"]
    /\ \E b \in CopiedBoard("boot") : PutText(b, Idle)
    /\ last' = Idle
    /\ UNCHANGED <<nvsVars, exported, current, board, bootHost, text, missed>>

Boot == BootHost \/ BootMdns \/ BootName \/ BootBoard \/ BootService

-----------------------------------------------------------------------------
(* The HTTP server: one request at a time.                                 *)

\* POST /api/hostname and POST /api/board_id.
Post(k, v) ==
    /\ Goto("http", "idle", "write")
    /\ todo' = <<Set(k, v)>>
    /\ strict' = TRUE
    /\ UNCHANGED <<stored, taskVars, ad, board, bootHost, text, missed>>

\* POST /api/config: a hostname that is not empty, any board ID, or neither.
Import(ws) ==
    /\ Goto("http", "idle", IF ws = <<>> THEN "host" ELSE "write")
    /\ todo' = ws
    /\ strict' = FALSE
    /\ UNCHANGED <<stored, taskVars, ad, board, bootHost, text, missed>>

\* POST /api/config/clear.
Clear ==
    /\ Goto("http", "idle", "write")
    /\ todo' = <<Set("host", Unset), Set("board", Unset)>>
    /\ strict' = FALSE
    /\ UNCHANGED <<stored, taskVars, ad, board, bootHost, text, missed>>

\* Mutant: the request goes on without telling mDNS.
WrittenQuietly == IF Len(todo) = 1 THEN "idle" ELSE "write"
Written == IF Len(todo) = 1 THEN "host" ELSE "write"

\* A strict request has one write only.
Proceed ==
    /\ todo' = Tail(todo)
    /\ strict' = FALSE

\* device_naming_set_hostname or device_naming_set_board_id.
Store ==
    /\ Goto("http", "write", Written)
    /\ Head(todo).value = Unset => stored[Head(todo).key] # Unset
    /\ stored' = [stored EXCEPT ![Head(todo).key] = Head(todo).value]
    /\ Proceed
    /\ UNCHANGED << taskVars, ad, board, bootHost, text, missed>>

\* NVS refuses, as it does to erase a key that is not there.
StoreFails ==
    /\ Goto("http", "write", IF strict THEN "idle" ELSE Written)
    /\ Proceed
    /\ UNCHANGED <<stored, taskVars, ad, board, bootHost, text, missed>>

\* discovery_service_notify_config_changed: only this task changes the
\* hostname, so its copy is the stored one.
NotifyName ==
    /\ MdnsUp
    /\ Goto("http", "host", "board")
    /\ PutHost(stored["host"])
    /\ missed' = missed \ {"host"}
    /\ UNCHANGED <<nvsVars, taskVars, board, bootHost, text>>

\* mdns_hostname_set fails: the TXT record is not tried.
NotifyNameFails ==
    /\ ~MdnsUp \/ MdnsMayFail
    /\ Goto("http", "host", "idle")
    /\ missed' = Keys
    /\ UNCHANGED <<nvsVars, taskVars, ad, board, bootHost, text>>

\* Mutant: the board ID is not read again.
NotifyBoardUnread ==
    /\ Goto("http", "board", "format")
    /\ UNCHANGED <<nvsVars, taskVars, ad, board, bootHost, text, missed>>

NotifyBoard ==
    /\ \/ ReadBoard("http", "format")
       \/ MissBoard("http")
       \/ BlankBoard("http", "format")
    /\ UNCHANGED <<nvsVars, taskVars, ad, bootHost, text, missed>>

\* Mutant: the record is formatted for no devices.
FormattedIdle == {Idle}
\* s_last_snapshot, which the discovery task may be storing.
Formatted == {last} \cup {Torn : s \in {pc["task"]} \cap {"store"}}

NotifyFormat ==
    /\ Goto("http", "format", "text")
    /\ text' \in Formatted
    /\ UNCHANGED <<nvsVars, taskVars, ad, board, bootHost, missed>>

\* mdns_service_txt_set copies s_board_id when it is called.
NotifyText ==
    /\ ServiceUp
    /\ Goto("http", "text", "idle")
    /\ \E b \in CopiedBoard("http") : PutText(b, text)
    /\ missed' = missed \ {"board"}
    /\ text' = Idle
    /\ UNCHANGED <<nvsVars, taskVars, board, bootHost>>

NotifyTextFails ==
    /\ ~ServiceUp \/ MdnsMayFail
    /\ Goto("http", "text", "idle")
    /\ missed' = missed \cup {"board"}
    /\ text' = Idle
    /\ UNCHANGED <<nvsVars, taskVars, ad, board, bootHost>>

Imports ==
    {h \o b : h \in {<<>>} \cup {<<Set("host", v)>> : v \in Names},
              b \in {<<>>} \cup {<<Set("board", v)>> : v \in Values}}

Request == Clear \/ (\E k \in Keys, v \in Values : Post(k, v)) \/ \E ws \in Imports : Import(ws)

Http ==
    \/ Store \/ StoreFails
    \/ NotifyName \/ NotifyNameFails \/ NotifyBoard \/ NotifyFormat
    \/ NotifyText \/ NotifyTextFails

-----------------------------------------------------------------------------
(* discovery_task.                                                         *)

\* A device comes or goes.
DevicesChange ==
    /\ exported' \in Snapshots \ {exported}
    /\ UNCHANGED <<nvsVars, current, last, ad, board, pc, bootHost, text, missed>>

Scan ==
    /\ Goto("task", "scan", "board")
    /\ current' = exported
    /\ UNCHANGED <<nvsVars, exported, last, ad, board, bootHost, text, missed>>

TaskBoard ==
    /\ \/ ReadBoard("task", "compare")
       \/ MissBoard("task")
       \/ BlankBoard("task", "compare")
    /\ UNCHANGED <<nvsVars, taskVars, ad, bootHost, text, missed>>

Unchanged ==
    /\ current = last
    /\ Goto("task", "compare", "scan")
    /\ current' = Idle
    /\ UNCHANGED <<nvsVars, exported, last, ad, board, bootHost, text, missed>>

Changed ==
    /\ current # last
    /\ Goto("task", "compare", "publish")
    /\ UNCHANGED <<nvsVars, taskVars, ad, board, bootHost, text, missed>>

Publish ==
    /\ Goto("task", "publish", "store")
    /\ \E b \in CopiedBoard("task") : PutText(b, current)
    /\ UNCHANGED <<nvsVars, taskVars, board, bootHost, text, missed>>

\* Mutant: the snapshot counts as published though mDNS refused it.
PublishFailsStored ==
    /\ MdnsMayFail
    /\ Goto("task", "publish", "scan")
    /\ last' = current
    /\ current' = Idle
    /\ UNCHANGED <<nvsVars, exported, ad, board, bootHost, text, missed>>

\* s_last_snapshot stays, so that the next pass tries again.
PublishFails ==
    /\ MdnsMayFail
    /\ Goto("task", "publish", "scan")
    /\ current' = Idle
    /\ UNCHANGED <<nvsVars, exported, last, ad, board, bootHost, text, missed>>

StoreLast ==
    /\ Goto("task", "store", "scan")
    /\ last' = current
    /\ current' = Idle
    /\ UNCHANGED <<nvsVars, exported, ad, board, bootHost, text, missed>>

Task == Scan \/ TaskBoard \/ Unchanged \/ Changed \/ Publish \/ PublishFails \/ StoreLast

-----------------------------------------------------------------------------
\* A reset, a power cut, or a start-up step that failed: NVS remains.
Restart ==
    /\ ad' = FirstAd
    /\ pc' = FirstPc
    /\ board' = Unset /\ bootHost' = Unset
    /\ last' = Idle /\ current' = Idle /\ text' = Idle
    /\ todo' = <<>> /\ strict' = FALSE
    /\ missed' = {} /\ overlap' = FALSE
    /\ UNCHANGED <<stored, exported>>

\* The history of overlaps.
Mark == overlap' = (overlap \/ Overlapping')

Next ==
    \/ (Boot \/ Request \/ Http \/ DevicesChange \/ Task) /\ Mark
    \/ Restart

Spec == Init /\ [][Next]_vars

\* Each task goes on, and mDNS does not refuse the discovery task for ever.
FairSpec ==
    /\ Spec
    /\ WF_vars(Boot /\ Mark) /\ WF_vars(Http /\ Mark) /\ WF_vars(Task /\ Mark)
    /\ SF_vars(Publish /\ Mark)

-----------------------------------------------------------------------------
\* The type invariant.
TypeOK ==
    /\ stored \in [Keys -> Values]
    /\ {exported, last, current} \subseteq Snapshots
    /\ ad \in [host : Values, board : Values \cup {Torn}, snapshot : Snapshots \cup {Torn}]
    /\ {board, bootHost} \subseteq Values
    /\ text \in Snapshots \cup {Torn}
    /\ pc \in [boot : {"host", "mdns", "name", "board", "blank", "service", "up"},
               http : {"idle", "write", "host", "board", "blank", "format", "text"},
               task : {"off", "scan", "board", "blank", "compare", "publish", "store"}]
    /\ todo \in Seq(Write) /\ (pc["http"] = "write" => todo # <<>>)
    /\ strict \in BOOLEAN
    /\ missed \subseteq Keys /\ overlap \in BOOLEAN

\* Boot has set the hostname, mDNS took the last change of it, and the
\* request under way, if any, has changed nothing yet or has told mDNS.
HostTold ==
    /\ pc["boot"] \notin {"host", "mdns", "name"}
    /\ "host" \notin missed
    /\ pc["http"] \notin {"write", "host"} \/ (pc["http"] = "write" /\ strict)

\* The inductive invariant behind HostSettles: a strict request that has not
\* written yet may still be given up.
HostInv == HostTold => ad.host = stored["host"]

\* However requests interleave with start-up and resets, the advertised
\* hostname is the one in NVS when no request is under way, unless mDNS
\* refused it or start-up set the one it had read before the change.
HostSettles ==
    /\ pc["boot"] \notin {"host", "mdns", "name"}
    /\ pc["http"] \notin {"write", "host"}
    /\ "host" \notin missed
    => ad.host = stored["host"]

\* The same of the board ID, while no two tasks were in their advertising
\* code at once: the discovery task's own read of it, between a request's
\* write and its notification, does no harm.
BoardSettles ==
    ServiceUp /\ pc["http"] = "idle" /\ ~overlap /\ "board" \notin missed
    => ad.board = stored["board"]

\* s_last_snapshot is what is advertised: a notification repeats the last
\* record the discovery task published, and a refused one is not recorded.
SnapshotAgrees ==
    ServiceUp /\ pc["task"] # "store" /\ ~overlap => ad.snapshot = last

\* What is exported is advertised in the end, over refusals, requests and
\* resets, if the tasks do not overlap.
TracksDevices ==
    \A s \in Snapshots :
        <>[](exported = s /\ ServiceUp /\ ~overlap) => <>[](ad.snapshot = s)

\* discovery_service.c:114: the board ID is read again in every pass "so
\* runtime changes (via HTTP API) are picked up without needing a reboot".
BoardPickedUp ==
    \A v \in Values :
        <>[](stored["board"] = v /\ ServiceUp /\ pc["http"] = "idle") => <>[](ad.board = v)
=============================================================================
