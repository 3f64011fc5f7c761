# Verification of esp-usbip-bridge

TLA+ specifications of the firmware in `src/main/`, model-checked with TLC, their safety for the most
part proved with TLAPS. The firmware exports the USB devices attached to an ESP32 (S3 or P4) over the
network with the USB/IP protocol. It is C on FreeRTOS: two cores, one task per server, per
client connection and per URB.

## The system

| component | source | state | operations |
|---|---|---|---|
| pipe pool and backend task | `usb_backend.c` | pipe slots, `pipe_avail_sem`, one `done_sem` per slot, transfers in flight | `submit_pipe_request`, the two scans of `usb_backend_task`, completion callback |
| device table | `usb_backend.c` | device slots, handles, claimed interfaces, event queue | attach, detach, claim, look-up by busid |
| URB stream | `usbip_server.c` | `in_flight[]`, `inflight_count`, `write_mutex`, one work item per URB | CMD_SUBMIT, CMD_UNLINK, teardown, worker task |
| connections | `usbip_server.c` | `active_connections`, sockets | accept, DEVLIST, IMPORT |
| virtual devices | `virtual_*.c` | registry of 4, CDC line state, rx and tx streams | control and data transfer |
| discovery | `discovery_service.c` | last published snapshot, board ID | refresh task, notification from HTTP |
| naming | `device_naming.c` | hostname, board ID and device names in NVS | get, set, clear |
| network | `network_init.c` | Wi-Fi event bits, retry count | connect, provision |
| HTTP server | `http_server.c` | DUT pins, NeoPixel timer | pin get/set, config export, import, clear |
| log server, LED, boot | `log_server.c`, `neopixel.c`, `main.c` | log queue and clients | log hook, start-up |

How they interact. A client connection has a reader (the client's own task), which hands every
CMD_SUBMIT to a worker task. The worker makes one blocking call into the backend,
`submit_pipe_request`, and writes the reply. That call takes a permit of a counting semaphore, fills
a slot of the pool, wakes the backend task with a notification and waits on the slot's `done_sem`.
The backend task alone talks to the USB host library: it submits active slots, polls
completion flags that callbacks set, and aborts transfers whose URB was cancelled or timed out. The
reader cancels a URB by setting a flag in the worker's item, which it finds through
`in_flight[]`; the backend sees the flag through a pointer in the slot. Of its device a stream keeps
the busid alone, and looks it up again for every URB. A URB to a virtual device runs in the
reader's own task. Discovery, HTTP and naming share the board ID and hostname. At start-up
`app_main` brings up the network, the HTTP server, the backend, the virtual devices and the other
servers in this order, while those already started run beside it; the Wi-Fi event handler shares
its retry count and event group with the start-up code and goes on for good.

What is hard here: pointers into another task's frame or item; flags that outlive a request in
a reused slot; callbacks that name a slot and not a request; unlocked arrays; time-outs racing
completions; a teardown that waits a bounded time; descriptors that must come back on every path;
imports and saves cut off half-way by a failure or a reset. `PROJECT.json` lists each hazard at its line.

What makes each part correct. *Pool*: permits and slots agree; nobody waits for ever; a
caller is told what happened to its own transfer; pointers are used only while they are valid.
*Stream*: a CMD_SUBMIT is answered, and never twice; an UNLINK reaches the URB it names; a teardown
reaches every transfer. *Device table*: the table follows the bus; handles are
closed once; claims are undone. *Connections*: no descriptor is left over; clients are served
whatever fails for others; a URB reaches the device its client imported. *Discovery*: what is
published is eventually what is true. *Configuration*: an import puts back what an export saved, and
says so when it does not. *Network*: attempts do not disturb each other. *Boot*: the bridge comes up.

## Modules

| module | models |
|---|---|
| `PipePool` | the pool, its callers, the backend task and the controller |
| `BusTable` | abstract: what the device table promises to look-ups |
| `DeviceRegistry` | the device table, the library's messages and the event queue; implements `BusTable` |
| `UrbContract` | abstract: every CMD_SUBMIT received is answered once, or its answer is lost, unless the connection closes first |
| `UrbStream` | the reader, the workers and the shared array of one connection; implements `UrbContract` |
| `ClientConn` | the accept loop, the client tasks, descriptors, DEVLIST, IMPORT and the CDC buffers, over a `BusTable` |
| `Discovery` | hostname and board ID in NVS, the requests that change them, and what mDNS advertises |
| `Disturbances` | a bounded number of failures, resets and requests |
| `WifiConnect` | credentials, attempts to join, and the handler of Wi-Fi events |
| `DutPins` | the pins' directions, the wire names in NVS, and the requests that change them |
| `Board` | `app_main` and resets, composed of `WifiConnect` and `DutPins` |
| `MC*` | instances for TLC |
| `*Proofs` | inductive invariants and theorems of the module of that name; `PipeTransferProofs` goes on from `PipePoolProofs`, `DeviceBusProofs` from `DeviceRegistryProofs` |

How they fit together. `UrbStream` takes the blocking call of the backend as one step that ends; that
it does is `EveryCallReturns` of `PipePool`. `PipePool` takes the device table as an arbitrary set;
`DeviceRegistry` models the table and implements `BusTable`, and `ClientConn` extends `BusTable`,
relying on no more than that. `Board` is `WifiConnect` and `DutPins` side by side, with `app_main`
between them.

### PipePool

The volatile booleans of the slots are sets of slot numbers (`active`, `submitted`, `completed`,
`aborted`); `owner[p]` stands for the pointers of slot `p` into the frame of the caller that
filled it. `pc` follows a caller through `submit_pipe_request`; each semaphore operation and
each critical section of `state_mutex` is one action. `bpc` and `bi` follow the backend task
through its loop: `Pump` (callbacks), `ProcessEvents`, then one step per slot of the first scan
(`SubmitSkip`, `Submit`, `SubmitFails`) and of the second (`CheckSkip`, `Check`, `Abort`,
`Finish`). Callbacks run only inside `usb_host_client_handle_events`, that is in `Pump`
and `Abort`. A transfer object is `free`, `inflight`, `done` (ended, callback not yet run) or
`called`; an object that is freed before its callback ran is refused by
`usb_host_transfer_free` and stays out, which is what happens to aborted control transfers.

Abstracted: the device table is an arbitrary set after every pass (which covers lost events and
replugs; `DeviceRegistry` models the table itself); payloads and lengths; `-EMSGSIZE`, since
the stream refuses such requests before; the three causes of a failing submission (claim, alloc,
submit) are one choice among their errors. A caller's frame is forgotten when it returns, and so are
the contents of a freed transfer object. Stores to a slot by one task are one step where the
other task reads them only after a later semaphore operation or flag.

### DeviceRegistry

A handle is a device object of the USB host library. `status` and `address` are the bus,
`opened` and `claims` the library's view of this client; they are external, modelled from the calls
the code makes. Attach and detach go through two queues of length `QueueLen`: the library's messages,
and `event_queue`, into which `usb_client_event_cb` copies them without waiting, so that
both may drop (`overflow` remembers that one did). The backend task is `bpc`: it pumps callbacks
(`EventCb`), then handles each event (`Open`/`OpenFails` and then `Reject`, `Export`, `ExportOver` or
`ExportFull` for a new device, `RemoveGone` or `IgnoreGone` for one that left), then submits transfers,
which may claim interfaces (`Claim`, `ClaimFails`). Opening a device and entering it are two steps,
because the bus moves between them. A claim that fails at interface `n` leaves those
below it claimed. A release may fail at any interface, too (`CloseSlot`, with `F` those that do not come
free): the code logs it and goes on, clears `interfaces_claimed`, closes the handle, which the library
refuses while an interface is claimed, and clears the slot all the same. `Stuck` names the handles that
are held open so, after either, and `faulted` remembers the open handles of which a claim or a release failed.
`refused` remembers devices turned away for want of a slot.

Abstracted: of a device's descriptors only whether it is a hub and how many interfaces it has; the
busid, which `export_new_device` forms from the address; the mutex of the table, since one task alone writes
it. Requests that look devices up read the table only, under its lock. To them an entry is a handle and an
address: `TableSpec` maps the slots to those, and says that every step of the registry is a step of
`BusTable` or leaves them alone.

### UrbStream

A worker is named by its URB's sequence number. `cancelPtr[i]` is the URB whose item the slot points
into. The three stores of `urb_stream_free_slot` (`FreePtr`, `FreeSeq`, `FreeCount`), the
stores of `urb_stream_alloc_slot` (`AllocPtr`, `AllocSeq`) and the reader's load and store through
`cancel_ptr` are separate steps, because no lock covers them. The search by sequence number is one
step: the reader alone puts URBs into slots, so it can miss only workers that are leaving.
Validation is a verdict; an isochronous request, or a control request whose setup packet contradicts
the direction, is refused and may leave its OUT payload unread; then the next
bytes are not a header (`junk`), which ends the stream. The blocking backend call is one step,
`EndTransfer`, that may come at any time. Sending is a step between entering and leaving
`write_all`; for want of a buffer, or on a broken connection, a worker sends nothing, and nobody looks
at the result (`SendReply`). The client sees such a URB as `lost`.

`FreeContext` ends the teardown's wait at any time: at a count of zero, or after 5 s with workers left.
Those go on with their steps after the context is freed. What they then read and write in it is
undefined in the code; here they go on as if it were intact, and `InFlightAgrees` speaks of the time
before.

### ClientConn

`backlog` is the socket's queue. Descriptors are numbers: `sock[k]` is the connection behind descriptor `k`,
`fd[c]` and `http` are the numbers that a client's code and the HTTP server keep, and a new connection
gets the lowest one free, as in lwIP. `srv` follows the loop of `usbip_server_task` (`Accept`, `Count`,
`Start`, and `StartFails`, `SrvUncount` when there is no memory or no task), `hand` is its
`client_fd`. `task[c]` follows `client_task` through `handle_client`: `Request`, then `Devlist`, or
`Import` (the busid, one of `Asks[c]`), `Look` (the look-up), `Reply` and the stream. A URB is `Submit` and
`Reach`, in which `prepare_and_submit_transfer` looks the busid up again; `moved` is history: whose
imported address was listed anew since. `Returns` is the end of `handle_client`, `Close` and `Uncount`
that of the task. A failing read and a failing send end a connection from every place where the code
reads or sends.

The HTTP server opens and closes descriptors of the same set (`HttpAccept`, `HttpClose`). When its request
buffer cannot be allocated, `handle_connection` closes the descriptor and `http_server_task` closes it
again (`HttpNoMemory`, then `HttpClose`). A client that was accepted in between loses its connection
to that: `stolen` remembers it. A task that reads from a descriptor that is not its own any more
(`Heard`) either finds another client behind it or fails; one that was already waiting in `recv` is taken to fail.

A URB to a virtual device deletes the client's task (`lost`), as `stream_inline` shows of the
code, so each connection makes one such URB. Control transfers change nothing here, and bulk IN takes what
there is without waiting (`VirtualOther`); bulk OUT (`VirtualOut`) stores into `rx` at once
(`OutStored`) or gives up after a second (`OutCut`). The device's own task is external to the server: it
takes bytes or does not (`DeviceReads`), since it may itself be waiting for room for its answer.

Abstracted: the bytes of requests and replies; the version and operation codes, which are the three
outcomes of `Request`; URBs overlapping in one stream, which `UrbStream` has.

### Discovery

`pc` says where each of three tasks is: start-up (`discovery_service_start`), the HTTP server (one
request at a time, `todo` its writes to NVS) and the discovery task. `board` and `last` are the shared
`s_board_id` and `s_last_snapshot`. A look-up in NVS copies a stored value under NVS's own lock, but a
look-up that finds nothing blanks the buffer afterwards (`MissBoard`, `BlankBoard`). The snapshot
in a TXT record is formatted before the call of mDNS, the board ID is copied by the call; a copy made
while another task stores the same buffer may be `Torn`. `Restart` forgets everything but NVS; it is a
power cut, and also what `ESP_ERROR_CHECK` does when a step of start-up fails. `missed` and
`overlap` are history: which keys mDNS was not told about, and whether two tasks were advertising at
once since the last reset.

Abstracted: mDNS is three values (`ad`) and may refuse; the instance name follows the hostname; a
snapshot is a member of a small set; texts are an unset value or a name. Locals are forgotten after
their last use.

### WifiConnect

`net` is where `network_init_wifi` is: it loads the credentials from NVS or from the build
(`LoadSaved`, `LoadNone`), waits for a key (`KeyOrNot`), and if one is pressed, or no credentials are
there, takes a pair from the console (`Type`) and saves it key by key (`StoreSsid`, `StorePass`,
`StoreFails`); `Attempt` is `wifi_attempt_connect`, which ends in `AttemptSucceeds` or `AttemptFails`.
`OnStart`, `OnDisconnected`, `GiveUp` and `OnAddress` are `wifi_event_handler`, which takes `events` in
order and shares `bits` and `retries` with the attempt. The driver and the network are external: a
station that tries is refused for wrong credentials (`Refuse`), and with right ones joins (`Join`),
gets an address (`Address`), or is turned away or cut off (`Miss`, `Lose`) as a disturbance. The driver may
refuse any call of `esp_wifi_connect` (`Connect`); the code drops its result, and the station is then
`refused`: idle, with no event to come. `Rejects` are the pairs that `esp_wifi_set_config` does not take
(`Rejected`); `Board` turns that into a reset.

### DutPins

`mode` is the direction a pin really has, `wires` the names that the external `harness_dut` keeps in
NVS. `req` is the HTTP server's task: the loop of start-up that makes inputs of the pins (`InitPin`),
then one request at a time: `PostPin`, `Toggle`, `GetConfig` (the export), and an import
(`PostConfig`), which clears every row (`ClearRow`) and then takes the entries one by one
(`Apply`, `Skip`) before its `Reply`; a clear is an import without entries. Setting a
wire fails before `harness_dut_init` and may fail later; steering a pin of an expander may fail.
Pins of pull resistors can be named but have no row, so a clear leaves them alone.
`Scpi` is a command of the test harness, which uses the same pins. `before`, `unclean`, `refused`
and `backup` are history.

Abstracted: levels of pins and the direction noted beside the real one; JSON, which is a list of
entries; the hostname and board ID in an import, which `Discovery` has.

### Board

`boot` is the place of `app_main`. `NetworkUp` waits for `WifiConnect`; `StartHttp` starts the task of
`DutPins`; `StartPower` drives the USB port's power pin; `StartHarness` makes the wires available.
`Accident` is a power cut or a failing step of start-up, which `ESP_ERROR_CHECK` turns into a
reset: NVS and the expanders keep what they have. A failing `esp_wifi_start` is such an accident.
`Abort` is the `ESP_ERROR_CHECK` of a rejected pair: no disturbance, but what happens every time.
`ListDevices` is a request that uses the backend's lock
before it exists.

## Runs

| run | shows | bounds |
|---|---|---|
| `pool_bulk` | the accounting is exact (`AccountingExact`), pointers into frames are valid (`OwnerWaits`), no wake-up is lost (`WaiterServed`), completions are true (`CompletedMeansFired`, `OkOnlyFromHardware`), transfer objects come back (`NoTransferLeak`), only what was cancelled or timed out is marked aborted (`AbortJustified`) | 3 callers, 2 pipes, 2 transfer objects, bulk on one endpoint, flush works |
| `pool_live` | a request is completed, or finished, before its own callback only for a reason (`LateExplained`), and every call returns (`EveryCallReturns`), even if the controller never answers and the flush does nothing | 2 callers, 1 pipe, 2 transfer objects, one endpoint, flush may fail |
| `pool_shared` | a disagreement: of two URBs on one endpoint, unlinking one resets the other (`ResetOnlyIfUnlinked`) | 2 callers, 2 pipes, 2 transfer objects, flush works |
| `stale_callback` | a disagreement: `CompletedMeansFired` fails for control transfers | 2 callers, 2 pipes, 3 transfer objects |
| `stream` | slots stay with their URB and the count is exact (`InFlightAgrees`), the teardown reaches every transfer (`TeardownCancelsAll`); `UrbStream` implements `UrbContract` (`ContractSpec`); the reader always comes back or closes (`ReaderReturns`) | 3 URBs, 2 slots, every verdict |
| `stream_unlink` | a disagreement: an UNLINK can miss a URB in flight | 3 URBs, 2 slots |
| `stream_inline` | a disagreement: a virtual device's first URB deletes the client's task | 3 URBs, 2 slots |
| `registry` | the open handles are those in the table, in hand, or held by a failed call (`HandlesAccounted`), claims are whole (`ClaimedMeansAll`), the table lists what is attached once the queues are empty (`TableFollowsBus`) and loses only what has left (`OnlyGoneRemoved`); it implements `BusTable` (`TableSpec`); attached devices are exported (`AttachedIsExported`), handles of departed ones closed (`GoneIsClosed`) | 2 devices, 2 addresses, 1 slot, queues of 2, 2 interfaces |
| `discovery` | what is advertised is what is stored and exported (`HostSettles`, `BoardSettles`, `SnapshotAgrees`, `TracksDevices`), over requests, device changes, refusals and resets at any point | one name or unset per key, 2 snapshots |
| `discovery_board` | a disagreement: a board ID that was not advertised stays so, though the task reads it again | the same, mDNS never refuses |
| `clients` | every open descriptor is kept by the code that has yet to close it, even after a double close (`SocketsOwned`), a URB reaches the imported device unless its address was listed anew (`UrbReachesImported`), what a peer has left is closed (`LeftIsClosed`), clients are accepted whatever fails for others (`BacklogServed`) | 2 clients and the HTTP server over 2 descriptors, 2 devices at 2 addresses in 1 slot, 1 virtual device with a buffer of 1 byte |
| `board` | an attempt starts without the events of the one before (`AttemptStartsClean`), the station gives up only after failures in a row (`GivesUpInRow`), no wire name comes from nowhere (`OldClearedOrNew`), an import that reports nothing skipped did everything (`NothingSkippedMeansDone`) and restores an export (`BackupRestores`), the port keeps its power (`PowerStays`), the bridge comes up, but in two cases (`BootEnds`) | 3 disturbances, 1 retry, 2 networks and 2 passwords, of which one pair works and one password is rejected, 2 pins, 5 wire lists |

Why the bounds are enough. One more caller than pipes makes callers wait for permits; two pipes
let a slot be reused while another is busy, and both orders of the ascending scans occur. Callers
keep calling for ever, so slots are reused any number of times. In `pool_live` a transfer that a failed
flush has left behind lingers beside a new one, which takes the second object, and a third request
finds none, so allocation fails too. To the pool an aborted control transfer is a transfer whose flush
failed: nothing ends it, and its object cannot be freed. The run has only such, because both kinds
together exceed what can be checked with liveness; `LateExplained` is proved with both. In the stream three
URBs over two slots reuse a slot while another is in use and make the reader wait. UNLINKs are not bounded.
In the registry two addresses let a device take the place of one whose detach is queued; queues of two
overflow; the one slot for two devices fills up, and is the slot that a device at a known address replaces;
attaching and detaching go on for ever. A second slot makes the liveness properties too much for TLC:
what needs one (two entries at once, the choice of the first that is free) is in the theorems, which are for any
number of slots, and only `AttachedIsExported` and `GoneIsClosed` are not among them. In `Discovery` a
key that is unset, set, and set back takes every path through NVS; requests,
device changes and resets are not bounded. Two clients and the HTTP server are one more than the
descriptors, one slot for two devices gives an address to another device, and one byte is a buffer
that is empty or full. One client asks for a device's address or for the virtual device, the other for the
virtual device; connecting, leaving, attaching and detaching are not bounded. In `board` three
disturbances are enough for a failed import between an export and a second import, for a reset in the
middle of a save or of an attempt followed by two failures, and for an address lost twice; refused calls
to connect and rejected pairs are not counted among them. The lists
have a repeated pin, a missing name, a name of the full length, and pins that may not be named.
What the bounds leave out, the proofs cover for the properties listed below.

### What the passing runs assume

* `pool_bulk` assumes that halt and flush end a transfer within the 50 rounds the code waits
  (`FlushMayFail` is false) and has no control transfers, which the code does not flush. Otherwise
  `CompletedMeansFired`, `NoTransferLeak` and `OkOnlyFromHardware` fail, as `stale_callback`
  shows for the first. What is true of every transfer is `LateExplained`: if a slot in flight is marked completed
  before its own callback, then the callback was that of a transfer the slot had given up earlier; and if
  `complete_transfer` runs without its callback, then for the same reason or because the abort of
  this request did not reach its transfer.
* `registry` assumes that the library does not hand out a device object again
  while the message of its detach is unread (`ReuseHandles` is false). With reuse, `OnlyGoneRemoved` and
  `TableFollowsBus` fail: the late detach names the new device's handle and closes it. The proved
  invariants and `TableRefinement` hold either way.
* `TableFollowsBus`, `AttachedIsExported` and `GoneIsClosed` speak of histories in which nothing was
  dropped; the code does not recover from a drop. They except devices turned away from a full table,
  which the code never tries again. `HandlesAccounted` and `GoneIsClosed` except handles of which a claim or a
  release failed and that the library therefore refused to close: they stay open, in no slot, and
  the device object is never freed.
* `BoardSettles`, `SnapshotAgrees` and `TracksDevices` speak of histories, since the last reset, in which no two tasks were in
  their advertising code at once. With an overlap they fail: a blank written late is advertised, or a
  notification puts an older snapshot over a newer one, and nothing corrects it until the
  devices change. `HostSettles` needs no such exception; it and `BoardSettles` except changes that mDNS refused, which
  nothing tries again.
* `ContractSpec` lets an answer be lost while the connection is open, as `send_ret_submit` may do for want of a
  buffer, because the code ignores its result; the client of such a URB waits for ever.
* `clients`: virtual devices have a bus number that no attached device has. `SocketsOwned` excepts, by
  `stolen`, the descriptors that the HTTP server's second close takes from a client; it and `LeftIsClosed` except
  connections whose task a virtual device's URB has deleted.
* `board`: Wi-Fi is the transport; the credentials built into the firmware are none here, and in general may be
  among the rejected ones; pins are those of the P4
  board; the expanders keep their registers over a reset of the chip. `GivesUpInRow` excepts a station whose call
  to connect was refused. `BootEnds` excepts that station, for whose event start-up waits without limit, and a
  stored pair that `esp_wifi_set_config` rejects, which resets the chip at every start, with no prompt unless
  somebody presses a key within three seconds. The first of these is a stop, so that the run does not look for
  deadlocks. `NothingSkippedMeansDone` and
  `BackupRestores` except rows that could not be cleared, which the reply does not tell, and
  `BackupRestores` also names of the full length, which the export writes and the import refuses.

### Fairness

`PipePool`: weak fairness of the backend task (it wakes at least every 10 ms) and of a caller's own
steps; strong fairness of taking a permit, since FreeRTOS wakes the longest waiter of the
highest priority and the workers have one priority; strong fairness of a deadline passing, since
the tick count advances while the transfer is in flight. Nothing is assumed of the controller, of
cancellation, or of new calls. `DeviceRegistry`: weak fairness of the backend task, and strong fairness of
delivering a message, since every pass of the task empties the library's messages. Nothing is assumed
of the bus. `Discovery`: weak fairness of the three tasks, and strong fairness of the discovery
task's publication, that is, mDNS does not refuse it for ever. Clients need not send requests.
`UrbStream`: weak fairness of the reader's own steps and of each
worker, where `EndTransfer` rests on `EveryCallReturns`; strong fairness of taking the mutex. The
client need not send anything, but it drains the socket: the `send` of `write_all` has no limit. `UrbContract`
asks for weak fairness of the end of each pending URB, answered or lost, while the connection is open. `ClientConn`: weak fairness of the server's loop and of what each client's task
does without its peer (`Runs`); peers, the bus and the tasks of virtual devices owe nothing, so that
`LeftIsClosed` gets over a blocking OUT by its time-out alone. `Board`: weak fairness of start-up, of the abort
(`ESP_ERROR_CHECK` does not wait), the event handler, the driver's and network's answers, and the console's user, who in the end types a pair that
works (strong fairness); disturbances are finitely many.

## Proofs

`PipePoolProofs` proves, for every finite set of callers, every number of pipes, and any
transfers, devices and endpoints, with control transfers and with failing flushes:

* `Invariance`: `IInv` holds always. `IInv` joins types, accounting and handshake. None of these is
  inductive alone: that a caller with a permit finds a slot (`FreePipeExists`) needs that
  permits are exact and that each slot is held by one permit holder, by the pigeonhole principle;
  that the types are preserved needs to know that a submitted slot has an owner; that no
  caller waits in vain needs that no answer is left over in an idle slot.
* `AccountingCorrect`: `AccountingExact`; the "semaphore accounting error" of `submit_pipe_request` cannot occur.
* `FrameSafety`: `status_out`, `in_data` and `cancel` are used only while their owner waits.
* `NoLostWakeup`: a waiting caller has exactly one of a live request and an answer.
* `TypeCorrect`.

The argument goes action by action (`CallerType`, `BackendType`, `CallerPermits`, `CallerSlots`,
`CallerHandshake`, `BackendHandshake`); `AnswerHandshake` is shared by the two places
where the backend answers. `LeastElement` gives `alloc_pipe_locked` its first free slot. The only
assumption is `PoolAssumption`, which TLC evaluates in every run of the module.

`PipeTransferProofs` goes on from that invariant to the transfers themselves, in which slots, frames and
the controller have to agree:

* `TransferOwned`: `SubmittedOwns`, for every pool. The transfer of a submitted slot was submitted
  for the slot's present request, and no two submitted slots have the same one. A slot reads its transfer
  only while it is submitted, so a transfer reused elsewhere does no harm.
* `LateCallbackOnly`: for every pool, as long as `FinishFired` holds (when `complete_transfer` is about to run,
  the callback of its transfer has run), `CompletedMeansFired` and `NoTransferLeak` hold. The
  late callback that the run `stale_callback` shows is so the only way to either.
* `EarlyIsExplained` (`LateExplained`), for every pool, with control transfers and failing flushes: where such a late
  callback comes from. `CalledKept` keeps a stray callback's transfer what it was; that a slot in its abort phase is
  marked aborted (`AbortPhase`) and owns the transfer it flushes (`SubmittedOwns`) leaves the two reasons.
* `OkIsEarned` (`OkOnlyFromHardware`), while `FinishFired` holds.
  `DeliverFired` and `MappedStatus` lead from the answer back to the status the controller left.
* `AbortsJustified` (`AbortJustified`), for every pool: no mark of a slot's previous request survives.

That an abort ends only its own request's transfer is not a theorem, because it is false: `pool_shared`.

`DeviceRegistryProofs` proves, for any handles, hubs, addresses, slots, queue lengths and interfaces,
with failing claims and releases, and with reused handles:

* `RegistryInvariance`: types, `HandlesAccounted`, `OneSlotPerDevice`, `ClaimedMeansAll` and
  `ExportFresh` hold together. They need each other: a handle whose claims and releases all succeeded is closed for
  good only if the slot released holds every interface and no other slot holds the handle, and no slot comes to
  hold a handle twice because what is opened was not open, hence not in the table.
* `HandlesClosed` (`HandlesAccounted`), `LookupsUnambiguous`, `ClaimsHold` and `RegistryTypeCorrect` are its parts.
  The first says of a handle that stays open in no slot that a claim or a release of it failed.
* `TableRefinement`: the registry implements `BusTable`. Only the steps that export or remove a device
  change the entries (the others are shown to leave them alone); `ExportFresh` and `OneSlotPerDevice`
  give the guards of the abstract steps.

The steps are grouped by what they change (the bus, the queues, the export, the removal, the claims).
The only assumption is `RegistryAssumption`.

`DeviceBusProofs` relates the table to the bus, across both queues, with either of them full, and
with the assumption that the USB library does not reuse a handle while its detach is queued
(`~ReuseHandles`, as in `registry`):

* `BusInvariance`: `BusInv`. A queued detach is true (`DetachTrue`); unless an event was dropped, a device that
  has come or gone and that the table does not follow yet is queued (`AttachedReported`, `GoneReported`);
  an open device that is attached is in the table or being exported (`AttachedTracked`), and takes the
  entry of its address from a device that is gone (`NewSupersedes`); addresses on the bus are unique, and an
  entry has its device's address.
* `TableFollows` (`TableFollowsBus`): with the queues empty the last two reports say that nothing is left to
  follow.
* `LiveDevicesStay` (`OnlyGoneRemoved`): a replacement takes out a device whose address was given to another,
  and `AddressesUnique` says that it has left; a detach names a device that has left by `DetachTrue`.

The lemmas on queues (`AppendElements`, `TailElements`, `PostPending`, `CallbackPending`, `ReceivePending`) say what a
step leaves pending. Without the assumption the step of an attach fails, as it should: a queued
detach would then name a live device.

`ClientConnProofs` proves, for any finite set of clients, any number of descriptors, and any devices,
addresses, slots, virtual devices and buffer sizes:

* `ClientInvariance`: `IInv` joins types, `BacklogInv` (a connection waits once and has nothing yet),
  `HandInv` (the loop holds one connection without a task), `SocketsOwned`, `CountExact` and `StreamInv`.
* `DescriptorsOwned`: `SocketsOwned`, double close included. That a descriptor is not given twice while it is open
  follows from the choice among the free ones; that no open one is forgotten needs `BacklogInv` (a connection that
  waits has none), and that the one in the loop's hand is still kept needs `HandInv`.
* `ConnectionsCounted`: `active_connections` counts the tasks, and the connection in the loop's hand.
* `UrbsReach`: `UrbReachesImported`. It is strengthened by `Same`: while the imported address was not
  listed anew, whoever is listed there is the imported device, also when nobody is there now.
  `TableStep` shows it of every step of the table, from `Unique`, which `BusTable` promises.
* `ClientTypeCorrect`.

`TaskMoves` is shared by all steps in which a task keeps its descriptor, and `OthersSame` says that a step of
one task leaves the others' streams alone. The only assumption is `ClientAssumption`.

`UrbStreamProofs` proves, for any number of URBs and slots, real and virtual devices, with UNLINK,
refusals, failing task creation and a teardown at any point:

* `StreamInvariance`: `IInv` joins types, `ReaderInv` (what the reader has done for the command in hand),
  `SlotsAgree`, `CountExact`, `TeardownInv`, `ReplyInv` and `Unsent`.
* `ArrayAgrees`: `InFlightAgrees`. A slot is taken only when its pointer is NULL, and a worker that still
  needs the slot has its own pointer there; hence the sequence number alone can be overwritten, which is
  what `stream_unlink` shows.
* `AllCancelled`: `TeardownCancelsAll`. `TeardownInv` strengthens it to the slots behind the scan and to the
  pointer loaded for the present one.
* `StreamTypeCorrect`.
* `ContractKept`: the stream implements the safety of `UrbContract`. The list of its steps is gone through in
  `ContractStep`; `ReplyInv` says that a URB is answered by its worker or by the reader, or by neither, and not by
  both. `ContractSpec` adds fairness, which stays with TLC.

The only assumption is `StreamAssumption`. The wait of the teardown may end early in all of them.

`BoardProofs` proves, for any names, passwords, retries, pins, wires, files and number of
disturbances, with resets at any point, refused calls to connect and rejected pairs:

* `BoardInvariance`: `IInv` joins types, `LinkInv`, `PowerStays` and `OldClearedOrNew`. `LinkInv` says what
  can be waiting for the event handler in each state of the station (`Waiting`), and that start-up
  gives up only on a station that has (`GivenUp`).
* `AttemptsApart` (`AttemptStartsClean`) and `RetriesUsed` (`GivesUpInRow`) follow from `Waiting`: the
  queue holds two events at most, and the retry count is the number of failures since the last
  address whenever the handler has nothing to do. A refused call leaves the queue empty and no connection on
  its way, and `GivesUpInRow` tells that state from giving up.
* `WiresFromFile` (`OldClearedOrNew`), `PowerKept` (`PowerStays`) and `BoardTypeCorrect`.

* `ImportInvariance`: `ImportInv` follows an import entry by entry. Rows before the loop's place are clear or
  counted as not cleared (`ClearedSoFar`); each row has the last name among the entries taken so far
  (`AppliedSoFar`); as long as nothing is counted as skipped, every entry so far was taken (`Counted`).
* `ImportHonest` (`NothingSkippedMeansDone`) is that invariant at the end of the list.
* `BackupIsRestored` (`BackupRestores`) needs besides what an export lists: `Exported` says that each row with a
  wire has its entry and nothing else has, from `Numbering`, that counting the rows up to each
  numbers them without a gap. `Export` is written by counting and not with `SelectSeq` for this reason:
  the provers know nothing of `SelectSeq`, and the induction theorems cannot be used.

Its assumptions are `WifiAssumption`, `PinsAssumption` and `TroubleAssumption`.

`DiscoveryProofs` proves, for any names and snapshots, with refusals, failing writes and resets at any point:

* `DiscoveryTypeCorrect`.
* `HostTruth` (`HostSettles`). `HostInv` strengthens it by the one request under which the hostname is
  already true, a strict one that has not written yet.
* `BoardTruth` (`BoardSettles`), which is about behaviours in which no two tasks advertise at once.
  `OverlapInv` says that the history misses no overlap; hence a task that advertises is `Alone` and copies a
  `Whole` board ID. `BoardInv` says what each task has read: a request's copy is the stored value until
  mDNS is told (`HttpRead`), the others' copies are, unless a request is still to replace them
  (`OthersRead`, under `BoardTold`).
* `SnapshotTruth` (`SnapshotAgrees`), by `SnapshotInv`: between publishing and storing, the discovery task
  has the advertised snapshot in `current`, and a request that repeats the record has the last one.

The types of `PipePool`, `DeviceRegistry`, `Discovery` and `Board`, and `OneSlotPerDevice`, `ExportFresh` and
`CountExact` of `ClientConn`, are proved and for that reason not among the properties of the runs.

Every safety invariant and every action property of the passing runs is stated by a theorem, three of them under
a condition that the runs meet and the code does not always: `CompletedMeansFired`, `NoTransferLeak` and
`OkOnlyFromHardware` are proved of behaviours in which `FinishFired` always holds, while `pool_bulk` checks them
without it, for bulk transfers whose flush works. `TableFollowsBus` and `OnlyGoneRemoved` are proved under
`~ReuseHandles`. The statements carry these conditions. Model-checked
only is liveness, which this prover does not do: `EveryCallReturns`; `ContractSpec`, whose safety is
`ContractKept` and whose fairness is not proved, and `ReaderReturns`; `AttachedIsExported` and `GoneIsClosed`;
`TracksDevices`; `LeftIsClosed` and `BacklogServed`; `BootEnds`.

## Plan

What would be worth adding next:

1. In `DeviceBusProofs`, what holds when handles are reused: the table is then wrong about a device only
   while its detach is queued.
2. A composition of `PipePool` with `DeviceRegistry`, for the handle a slot has cached after its device
   was closed.
3. `TickDeadline`, packet-size rounding and descriptor limits as operators over bounded inputs, with
   the comparison modulo 2^w.

## Not modelled

HTML, JSON and descriptor text, socket options, driver set-up (Ethernet, LED, power rails), the
vendored LED encoder, the external SCPI and logic-analyser libraries behind the virtual devices, and
the browser page. Ethernet is a sequence of driver calls without a decision. The log server
(`log_server.c`) is not started by `main.c`. The names of single devices in NVS are read by HTML
pages only. Levels of DUT pins, and the direction `http_server.c` notes beside the real one, are
data of its replies. Two clients that import the same virtual device share its buffers in the code
and in the model, but the order of their bytes is left out. The order of a RET_UNLINK and the
RET_SUBMIT of the URB it names is left open by `UrbContract`. Memory ordering between the cores is
taken as sequentially consistent.

Known of the code, and covered by no property:

* The reader's own replies (`usbip_server.c:388`, 415, 424, 437, 443, 453, 540) do not take `write_mutex`, though the
  comments at 213 and 335 say that it serialises the writes to the socket. A reply may land inside another.
* When the 5 s of the teardown end (555-560), the context is freed under the workers that are left, though the
  comment at 353-356 has the last worker free it.
* The payload of a request refused at 441-457 is not read, though the comment at 399-401 has the reader read it; the
  model ends the stream there (`junk`).
* The HTTP import reads 8 KiB of its body at most (`http_server.c:1252`). What a cut makes of the JSON text is left out
  with the parsing.
* FreeRTOS asserts that a stream buffer has one writer and one reader waiting. Two clients with a URB each to one virtual
  CDC device would trip that; the model lets both wait.
