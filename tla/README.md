# Verification of the gateway firmware

`src/` is the firmware of an ESP32 gateway: an HTTP/WebSocket server through which
clients on the network use the devices wired to the board: a receipt printer on
USB, a barcode scanner on a UART, a trigger input, a relay and, when enabled, an LED
matrix and a USB camera. This directory holds TLA+ models of the firmware, the TLC
configurations that check them, and TLAPS proofs about them.

The program proper is `src/main` (about 4300 lines). `src/protocol_examples_common` is
ESP-IDF example code adapted for the gateway's ENC28J60 Ethernet chip, whose driver is
part of it. `src/components` holds two components that are built with the gateway:
mDNS and the USB video class host (libuvc), on which the camera stands.

## The system

| component | code | state | operations | module |
|---|---|---|---|---|
| HTTP server callbacks | `main.c` | sessions by descriptor (in httpd) | open, close, GET, TEXT, CLOSE, PING, PONG | all of `main` |
| keep-alive engine | `keep_alive.c` | table of clients, queue, timeout | add, remove, update, scan | `KeepAlive` |
| client registry | `main.c` | one array of (handle, fd) per device | register, clear, broadcast, watch | `ClientRegistry` |
| printer transport | `printer/ESC.c` | 3 semaphores, queue of handles, status, transfers | command, poll, callbacks, open/close | `Printer` |
| ESC/POS encoder | `printer/ESC.c` | transfer buffer, buffer of images, print mode | items to bytes | `EscPos` |
| relay, trigger, scanner | `relay`, `trigger`, `barcode_scanner` | a flag or a status each | set, sample, read | `Relay`, `Trigger`, `Scanner`, in `Devices` |
| Ethernet | `eth_connect.c`, `connect.c`, `main.c` | semaphore, handles, handlers, event queue | connect, disconnect, watchdog, daily restart | `Network` |
| ENC28J60 driver | `esp_eth_mac_enc28j60.c`, `..._phy_...` | next packet, last bank, semaphores; the chip's ring, flags and banks | receive, transmit, start, stop, poll the link | `Enc28j60` |
| mDNS queries | `mdns.c` | list of searches, action queue | query, async query, timer, packets | `MdnsSearch` |
| mDNS responder | `mdns.c` | services, a state and packets per interface | probe, announce, answer, rename, remove | `MdnsResponder` |
| USB camera | `camera/usb_camera.c` | event bits, device, control block | wait, open, negotiate, stream, close | `UsbCamera` |
| video class host | `libuvc`, `descriptor.c` | descriptors, stream, transfers, controls | parse, probe, commit, stream, stop, get/set | `UvcDescriptors`, `UvcStream`, `UvcControls` |
| LED matrix, Wi-Fi, console helpers, test tools | | | | none |

Who calls whom: httpd is one task that runs `wss_open_fd`, `wss_close_fd` and
`ws_handler`; these send messages to the engine's queue and write the registry, and
`ws_handler` calls the command handlers of the devices, which may block (the
printer's does). The engine calls back into httpd with work items. Every device has a
task of its own that broadcasts through `device_cb`, reading the registry without a lock. The
printer's class driver task runs all USB callbacks. `app_main`, the event loop's task, the watchdog
and the daily restart run `example_connect` and `example_disconnect` on the same static
variables. Below them the Ethernet driver's receive task, lwIP's sender and the link timer
share the chip. The mDNS task, its timer and its callers share searches and the action queue. The camera's
`main_loop`, the USB task and libuvc's user thread share a stream.

What is hard in it, at the lines `PROJECT.json` lists under "hazards": messages dropped by
a full queue, descriptors and memory that are reused while messages about them are
still queued, arrays read while they change, completions of transfers that come
after the one who waited gave up, semaphores whose timed take is not checked, a
server task that blocks on a device, a copy of the chip's state that has to survive accesses
that fail, tear-down by whoever comes first, and probing that is overtaken by changes of what is probed for.

## Modules

**`KeepAlive`** models `keep_alive.c` and the part of `main.c` that drives it. `clients` is
the table, `q` the queue, `wait` the rest of the current `xQueueReceive` timeout, `scan` the
slot the timeout branch looks at. `AddNewClient`, `RemoveClient` and `UpdateClient`
are the branches of the `switch` in `keep_alive_task`, `Timeout`, `SkipSlot`, `PingSlot` and
`ExpireSlot` the timeout branch, one slot per step, because httpd runs between the
slots. `OpenClient`/`RefuseClient` are `wss_open_fd`, `Pong`/`PongDropped` the PONG branch,
`CloseFd` is `wss_close_fd`; each has the case in which the queue is full. Timestamps are
ages, and an age saturates at `not_alive_after_ms`, beyond which no comparison of
the code can tell it from a larger one. `Tick` lets time pass; while the engine has work,
at most `MaxLate` units pass without a step of it (it may be late, not asleep).
`get_max_delay` is modelled with its order dependence: an overdue client resets
the delay to the minimum, whatever earlier clients asked for.

**`WatchedClients`** is what `main.c` expects of the engine: an atomic set of watched
clients. `KeepAlive` implements it (`WatchedSpec`), a client being watched when the last
message queued about it is an ADD, or when there is none and it is in the table. One
lost removal ends the promise, and the refinement says so (`failed`).

**`ClientRegistry`** models the arrays of `main.c`. `RequestUri` is the GET branch of
`ws_handler` (first free entry, or silently none), `CloseFrame` its CLOSE branch, `CloseFd`
the loop of `wss_close_fd`; both loops leave after the first entry they clear, in the order the
`Rank` functions record. A broadcast reads an entry (`ReadEntry`) and uses it
(`SendFrame`) in two steps. The watchdog looks at one entry per step (`WatchdogLooks`).
An entry's handle and descriptor change together, so the descriptor stands for both.

**`Printer`** models the transport in `ESC.c`. `pc` says where `escHandleCommand`
(in httpd) and `getPrinterStatTask` are; `printing`, `cb` and `xfer` are the three
semaphores. The two status transfers of a query (`Ask`, `OutBack`, `InBack`,
`QueryTimesOut`), the print transfer (`Fill`, `SubmitPrint`, `PrintReturns`) and their
callbacks are separate, and a callback may come at any time, also after the wait for it
ended. A timed take may time out whenever its semaphore is unavailable; ticks are not counted. What a query
returns is one of the value the code asks for (22), another one, or zero, together
with whose answer it is. `Act` is the loop body of `class_driver_task` with its single
slot `actions`. `Attach` and `Detach` are the USB host library.

**`EscPos`** models the part of `escHandleCommand` that turns the items of a PRINT command into
ESC/POS commands, and a printer that executes them. Two things of the gateway survive jobs: its copy of the
printer's mode byte (`printMode`), and the global `buff` into which images are decoded. Whether the decoding worked is not
looked at, and as many bytes of `buff` are printed as the client's width and height ask for: `Decode` says what it
leaves in `buff`, `Showing` whose bytes are then printed, the image's own, those of earlier ones or zeros. The printer remembers the
mode, underline, alignment, spacing and barcode height, and forgets them at ESC @, with which every status
query begins, and when it loses power. `PrintText`, `PrintImage` and `PrintBarcode` are the commands in the order
the code writes them; `Latch` and `Output` are the printer. Commands travel through one queue,
`wire`, so a job is still being printed while the next one is converted. A transfer freed in flight
(`GiveUp`) may come out whole or break off anywhere and leave the printer in any state (`Garbage`). `Fitting` names the
images whose width and height the header of GS v 0 has room for; it is assumed where it matters. An item
with several keys counts as several items, texts are values, and an image is a name with the number of its bytes (`None`: not base64).
Where the code is peculiar, so is the model: the alignment of a barcode is read and not used,
only the last text of a job has a say in the feed, numbers are cut to bytes.

**`Receipts`** is what a client may expect: each job is printed once, in order, or lost, and its paper is
`ReceiptOf(job)`, a function written without buffers, modes or printer. An image that fills its size and fits the buffer (`Whole`)
shows itself; of any other the job carries whose bytes the gateway happened to have (`shown`), so that its paper is not a function of
the job as the client sent it. `EscPos` implements `Receipts`.

**`Relay`**, **`Trigger`** and **`Scanner`** model the small devices, **`Devices`** puts them
into one gateway. SET_STATE changes `state` and then the pin, in two steps, because `softWD` writes the pin
every 30 s in its own task. `triggerTask` reads the input twice per round (`Report` or `FirstRead`, then `SecondRead`),
and the input changes whenever it likes. `ByteArrives` is the UART driver, which fills its buffer while
`barcodeScannerTask` broadcasts what it read; bytes are numbered. `RestartAll` is any restart of the gateway,
among them the abort with which FreeRTOS answers a task that returns for lack of memory.

**`Network`** models who brings the network up and down: `pc` says where `app_main`, the event
loop's task, `softWD` and `restartDaily` are in `example_connect` and `example_disconnect`, which work on one
set of static variables (`sem`, `driver`, `bus`, `shutdown`, `handles`) without a lock. The event loop takes
one event at a time from a bounded queue and holds its mutex while a handler runs; registering a handler,
and starting and stopping the driver, which post events or unregister handlers, need it. An `ESP_ERROR_CHECK` or
assertion that fails is `up' = FALSE`, as is a restart, and `Boot` starts over. What reaches a semaphore
that is being deleted is modelled as it is: `"freed"` is a handle that is gone and not yet NULL.

**`Enc28j60`** models the driver together with the chip. The chip: the ring with the packets in it, ERXWRPT,
ERXRDPT, ERDPT, EIR, EIE, ECON1's RXEN and TXRTS, and which bank is selected. The driver: `last_bank`, `next_packet_ptr`,
`packets_remain`, and the places of its three tasks: `emac_enc28j60_task` (`Receiver`), lwIP in `emac_enc28j60_transmit`
(`Sender`) and the link check with `start` and `stop` (`Linker`). One step is one access to the chip, between
two of which any other task may run; every access may fail, and a switch of banks may fail half
(`RegisterFails`). Addresses wrap as the code computes them (`AlignOdd`, `PacketStart`) and as the chip does
(`Advance`). ERDPT is written in two accesses, low byte and high byte, by the receive task (`SeekHeader`, `SeekHeaderHigh`,
`SeekContent`, `SeekContentHigh`) and by `start` (`Rewind`, `RewindHigh`), and what is read is what its two halves point to then. Errata of the chip that the code works around are in it: PKTIF may be missing (`ReadFlags`),
ERXRDPT has to be odd. `mishaps` records what may put the driver out of step for good; no action reads it.

**`MdnsSearch`** models queries: a blocking caller (`mdns_query`) or one that asks later (`mdns_query_async_*`), the timer
(`SearchTimeout`), and the task, which executes one action at a time under the service lock (`SearchAdd`,
`SearchSend`, `SearchEnd`, `ParsePacket`). A search is a block of memory that is freed by its caller and may be
handed out again with actions about its predecessor still queued. Results are the hosts whose
answers it holds; the answers themselves are not looked into, except for whether they are authoritative and well-formed to their end.

**`MdnsResponder`** models the other half of `mdns.c`: for each interface a pcb with its state (off, dup, probing 1-3,
announcing 1-3, running), the packets that wait for their time and the services that are being
probed for. `TxHandle` is what becomes of a packet that was sent; `InitProbe`, `RestartAll` and `Announce` the steps
the calls (add, remove, rename), system events (up, down, new address) and packets (queries, collisions, an own
packet on another interface) lead to. Times are left open: any packet may be the next that is due.
Packets are queued as long as the task has not shut the interface down (`Hears`), hence also behind the action that will do it, and
`InitProbe` does not look whether the pcb is up: a collision that is executed too late starts a probe on a pcb that is off or a
duplicate. `stray` records that until the pcb is cleaned up; no action reads it.

**`UvcDescriptors`**, **`UvcStream`** and **`UvcControls`** model the video class host. `Configuration` is `raw_desc_to_libusb_config`
and what it drops (`descriptor.c:259`), `ScanControl` and `ScanStreaming` the walk of libuvc through interfaces, units, formats and frames.
Descriptors are taken to be well formed, which `DescriptionAssumption` of `UsbCamera` says in full: the code does not check it.
`UvcStream` is one stream: transfers that go round between the bus and `_uvc_stream_callback`, two buffers that are swapped, the
user thread that copies the frame on hold, and `uvc_stop_streaming`, which cancels, waits, joins and frees. `UvcControls` is
the table of the 41 generated controls, with selector, unit, size and the place, width and sign of every parameter, and `Encoded` and `Decoded`,
what the generated functions do with it. The table was compared with `ctrl-gen.c` by a script when it was written; setter and getter share a row.

**`UsbCamera`** composes them in the way `usb_camera.c` uses them: `main_loop` waits for a camera, opens it,
negotiates until the answers agree, commits, streams until the camera is gone, and closes. A `UVC_CHECK` that
fails is `Panic`, a restart. What libuvc can do and the gateway does not, getting and setting controls, is
a second use of the same camera (`setup.use`). libusb, its adapter and the camera are external:
connection events, transfers that complete, fail or time out, and answers to the probe's queries.

`MC...` are the modules TLC runs.

## Checks

| run | instance | shows |
|---|---|---|
| `keepalive` | 2 descriptors, 2 slots, queue of 1 | one entry per client; room for every registration; open sessions are watched; only silent ones are closed, and those are; refinement of `WatchedClients` |
| `registry_safety` | 2 descriptors, 2 devices, 2 entries each | what is registered and what sessions asked for agree; broadcasts reach every session that stays, each once; the watchdog spares clients that stay |
| `registry_stale_entry` | as safety | violated: the watchdog takes the entry of an ended session for a client |
| `printer` | 1 query per poll, 1 transfer in flight | one user of the transport; answers are fresh; print waits for its transfer; the queue of handles agrees with the device; httpd and the poller get back |
| `printer_unplugged` | as `printer` | violated: the status of an unplugged printer does not stay OFFLINE |
| `escpos_safety` | 7 items, jobs of 2 | refinement of `Receipts`: the paper of a job whose images are whole is a function of the job |
| `devices_safety` | active-low relay, buffer of 3, reads of 2, 5 bytes | a closed relay is reported; an impulse is reported once; no byte is lost (but by overflow), repeated or overtaken |
| `network_bring_up` | 2 events | the server runs only after an address; the event loop does not wait for itself; a gateway whose network was torn down reboots |
| `enc28j60` | ring of 10 bytes, pages of 4, packets of 4, 1 failure | driver and chip agree where the next packet is; packets are whole; a reported link is heard; a frame under way is left alone; a waiting packet is read |
| `mdns_search` | a blocking and an asynchronous search, 2 questions, 2 hosts, queue of 2 | a finished search is let go of before it is freed; END finds its search; a search is over for a reason; every query ends |
| `mdns_responder` | 2 services, 2 interfaces on one network, 3 calls, queue of 2 | an interface that is up has one probe, for all its names; no pointer to what is gone (but of a probe out of turn); nothing told that was not probed for; every interface settles |
| `usb_camera` | 4 cameras, 2 plugs, 2 transfers, 2 frames of 2 payloads, 2 controls | the stream outlives its users and ends; the mode streamed is one the camera describes; frames are whole; controls read back |

Bounds. Two descriptors are enough for a descriptor to be reused while another session
is there, and for one client's traffic to delay the scan of another; with a queue of 1 (`max_clients / 2` for 2
clients) every message can find it full, and removal and registration of a descriptor still
meet between queue and table. Period 1 and NotAliveAfter 2 keep the order of the code's constants
(1000 < 15000 < 20000 < 30000 ms) as far as comparisons can tell. Two devices, one
that broadcasts and one that does not, give a session two places to be registered at.
One status transfer in flight per direction is what it takes for an answer to be older
than the query that reads it.

In `escpos_safety` there are three texts, which between them set everything a text can set, each in
different ways, and jobs of two items contain them in every order; of three images of one size one is whole, one
short and one not base64, so that every one is converted over what each of the others left. A job begins and ends with whatever the jobs before it
left in the printer, `printMode` and `buff`, so longer jobs show nothing new. A new job begins while at most 3 commands are
on the wire: the end of a job and the beginning of the next one overlap.
In `devices_safety` five bytes overflow a buffer of three while two are being broadcast; the relay is
active low, where the two places that know the polarity could disagree (`sdkconfig` selects active high; the proof covers both).
Widths are below 2048 dots (the paper has 384), where the image header has room for them.

In `enc28j60` two packets fill the ring of 10 and the third wraps around its end, also between header (2 bytes stand
for the 6 of the receive status vector) and content. With 4 addresses to a page (256 in the chip) the ring spans three, so that both halves of ERDPT
change from packet to packet and between header and content. The constraint `Followed` of `MCEnc28j60` looks at reception while nothing
is sent, and at sending, its interplay with the receive task and the link without packets: the two meet only in EIR,
EIE and the banks; it stops where the driver is out of step already. The proofs need no such bound. In `mdns_search` the two blocks
of memory are handed out again and again; a search for one result and one for all show both ways to
finish. In `mdns_responder` three calls are enough for a service to be added, renamed and removed at any
point of probing or announcing, or for two interfaces to come up and find each other, or for a collision to be queued behind what shuts its interface down. In `usb_camera` the second plug is the first that meets bits
and a kill flag from before; two transfers give one that is cancelled and one whose callback runs; the four cameras have
alternate settings or one bulk endpoint, fixed or ranged rates, no mode that fits, or a version that is refused.

`CHECK_DEADLOCK FALSE`: in `escpos_safety`, `mdns_responder` and `usb_camera` the clients, calls or plugs may be over, and after a `Panic` the gateway
starts from the initial state again.

Fairness. FreeRTOS runs every ready task of the gateway eventually: the tasks block between
rounds (`vTaskDelay`, queues, semaphores), hence weak fairness of the tasks, and of time. httpd looks at its control
socket in every round before it serves sessions, hence strong fairness of
`TriggeredClose`. The handler waits for `printingQueue_sem` with a higher priority than the
poller and FreeRTOS wakes waiters by priority, hence strong fairness of its
`TakePrinting`. In `Network` the loop is idle for most of the 2 s between two link checks, hence strong
fairness of the steps that wait for its mutex. In `Enc28j60` memory for a packet is there again and again, and
transmissions do not hide PKTIF for ever. In `MdnsSearch` and `MdnsResponder` the timer fires every 100 ms and finds room in the queue again and
again (strong fairness), and the task runs whenever an action waits (weak). In `UsbCamera` a transfer completes or times out (5 s),
and the stop, the USB task and the user thread go on when they can. Clients, hosts, the printer, cameras and cables owe nothing: no fairness for them.
`SilentClientClosed` assumes that the engine scans again and again, which heavy traffic
can prevent, and that no removal is dropped.

Where the code and its words disagree ("findings" in `PROJECT.json`):
- a session registered for two devices leaves an entry behind, which the watchdog
  takes for a connected client (`main.c:383` against `main.c:360`);
- a poll under way when the printer is unplugged overwrites OFFLINE for good (`ESC.c:709`
  against `ESC.c:104`).

What the properties except, because the code does not provide for it:
- a removal dropped by the full queue leaves an entry that closes the next session under that descriptor
  (`leaked` in `ExpiryJustified`, `failed` in `WatchedClients`);
- answers that are not authoritative, or end malformed, fill a search without finishing it, and it is then
  finished twice (`WholeOnly`: with FALSE, TLC refutes `FinishedIsLetGo` and `EndFindsItsSearch`);
- a frame may reach the session that got a descriptor between the moment `device_cb` read it and the send (no property speaks of it);
- an image that is short or not base64 shows what earlier jobs left in `buff` (`Whole`);
- a collision that is executed after its interface was shut down starts a probe there; a service that is removed then stays in its list
  (`mdns.c:2640` skips interfaces that are not ready), and the probe of the interface that comes up again takes the list over: a dangling pointer, until a
  renaming forgets the probe or the interface is shut down again (`stray` in `NothingDangles`);
- renaming the default instance forgets the probes of services that have names of their own (`AllAlike`: with FALSE, TLC refutes `OnlyProbedIsTold`);
- a video frame of which nothing arrives leaves two frames with one id to be joined (`DataLost` lets something
  of each frame come through);
- a camera without the mode is asked again for ever, and a camera that is unplugged before it is opened means a restart;
- a failed PKTDEC, a half switched bank, or a start of the link that changes a half of ERDPT which the receive task has set and not yet
  read through, put the Ethernet driver out of step for good (`Astray`);
- that a gateway which got no memory when the event loop connected again is restarted (`TornDownMeansReboot`) rests on the watchdog finding no client,
  and `Network` lets all clients leave; an entry that a session of two devices has left behind (the first finding) can keep the watchdog from it.

Each property of a passing run has a mutant in "mutants": the definition changed the way a
plausible bug would, which the run then reports.

## Proofs

The theorems hold for all values of the constants, from the named assumptions of
the modules only; where one needs more (`WholeOnly`, `AllAlike`, `Fitting`) it says so.

- `KeepAliveProofs`: `TypeCorrect`; `Alternation` and, from it, `OneEntry`. That the table
  has one entry per descriptor is not inductive: it depends on the order of messages in the queue. `AlternationInv`
  says that between two registrations of a descriptor there is its removal, in the queue
  or between table and queue, and that for a descriptor nobody holds the removal comes
  last. Every step preserves it: httpd appends an ADD only for a free descriptor and a
  REMOVE only for one that it closes, the engine consumes from the front.
  `AddSucceeds` comes from `RoomInv` (`RoomIsKept`): the table lags behind the sessions, so what is counted is not the
  table but who will hold an entry when the queue has been worked off as far as this ADD (`Ahead`); those are sessions
  that were open when the ADD was queued, of which httpd admits one less than there are slots. `NobodyEscapes`;
  `EngineIsASet`, the step refinement of `WatchedClients`: only what httpd queues changes the set, the engine's own
  steps stutter. `OnlySilentAreClosed` from `FreshInv` (`NewsIsFresh`): the last news of an open session is in the queue or in the
  table, and no older than its silence.
- `ClientRegistryProofs`: `RegistryTypes`; `SessionsAreRegistered` from `EntriesInv` (a descriptor that never
  registered twice has one entry, so that the loops which leave after the first match leave nothing behind, and
  there are no more sessions than entries, so that an array that is full holds every session already);
  `BroadcastsServe` from `CastInv` (whom a broadcast has still to reach has an entry ahead of it, which nothing but the end of the
  session clears) and `NobodyIsServedTwice` from `PassedInv` (whom it has reached has its entry behind it, and there is no other); `WatchdogIsPatient` from `SteadyInv`, the same for the watchdog's walk.
- `PrinterProofs`: `Exclusion` and `TimedTakeSucceeds` from `LockInv` (who is past the take of
  `printingQueue_sem` holds it, and whoever gives it back has given `callback_sem` before);
  `HandleAgrees` from `DriverInv` (the driver's slot asks for an opening exactly while one is
  due); `PrintWaits` from `PrintInv`; `TypeCorrect`; `AnswersAreFresh` from `QueryInv` (a query
  that found nothing pending has at most its own question in flight, then at most its
  own answer).
- `PrinterProofs`, encoder: `ReceiptsAreDue`, that `EscPos` implements `Receipts`: submitting a job, cutting it off
  and losing jobs are its steps, all others stutter. That the next receipt is right is not inductive, for
  what the printer will remember when it gets to a job depends on everything still before it on the wire. `PaperInv` (`PaperInvariant`)
  therefore runs the printer ahead: there are sequences of what it remembers, of its paper and of the jobs ended,
  one element per command on the wire, each the result of the one before, such that at every cut the paper is
  the receipt of the next job and an ESC @ follows (`OnTheWire`); and what is in the buffer takes a fresh printer to the paper of the items converted
  so far, with the alignment and spacing the next one meets (`Converted`). `WireReady` says that the
  printer will be fresh when a job begins. The lemmas say this of each kind of item, of the mode byte (after a text's four changes it is the text's,
  whatever it was), and of a command taken from the front of the wire or put at its end. Images are looked at as they were converted, with what
  `buff` held at that moment (`AsShown`), and `ImageInv` says that `buff` holds only images: a whole one, decoded last, lies over all that will be printed, so that it shows
  itself. The hypothesis is `Fitting`: a larger image is not printed as asked. `EncoderTypes` from `CommandInv`.
- `GatewayProofs`, devices: `RelayIsReported` for either polarity; `ImpulseReportedOnce` from `ReleaseInv` (a
  high level means that the input was released since the last report); `ScansArrive` from `BytesInv` (the
  sequence of what was broadcast, read and received grows at its end only, by a number higher
  than all in it).
- `GatewayProofs`, network: `NetworkTypes`; `AddressBeforeServer` from `AddressInv` (the semaphore is given only by the handler
  of an address, and `app_main` gets past its wait only with a semaphore that was given);
  `LoopIsNotItsOwnWaiter` from `LoopInv` (the loop runs `disconnect_handler` only once `app_main` has
  returned; by then the SPI bus is initialised and nobody frees it, so `example_connect` aborts before it waits).
- `Enc28j60Proofs`: `BankIsKnown`; `FramesAreHeard` from `ListenInv` (which of the steps of starting and
  stopping leave RXEN and which of the interrupts on); `FrameIsLeftAlone` from `SendInv` (at most one of the sender and the receive task
  is between looking at TXRTS and setting it, and who serves the end of a transmission has its flags
  cleared before the next one); `DriverInStep` and `FramesAreIntact` from `RingInv` (the packets are a chain
  around the ring from `next_packet_ptr` to ERXWRPT, and of ERDPT those halves which `emac_enc28j60_receive` has set by the step
  that is due are those of the place it will read); `DriverTypes`. For any even ring, packet sizes and number of failures.
- `MdnsSearchProofs`: `SearchTypes`; `FreedIsLetGo`, `EndIsInTime` and `ToldForAReason`, if answers are whole (`WholeOnly`), from
  `SearchInv`, which gives every search a stage: not yet in the list with its ADD queued, in the list, ending with its
  END queued once, or gone from both. What makes it inductive is that a search in the list is never full.
- `MdnsResponderProofs`: `OneProbeAtATime`, `PacketsNameServices` and, if all services go by the
  default instance name or none does (`AllAlike`), `ProbedBeforeTold`. `RespondInv` says of each interface that its state decides what its
  packets are (`Orderly`), that they and the probe name existing services (`Within`), and how often each
  service was probed for (`Counted`). A pcb that a late collision has started into a probe while it was down is none of this; it is a
  `Ghost` while it is down, and once it is up again as orderly as any, but for what it may name: the services that were removed meanwhile, too (`Regular`). What `RespondInv` asks of each pcb is that it is one or the other (`Sound`).
  It is inductive only with `QueueInv`: actions are posted about an interface
  or a service that may be gone when they are executed, and what makes the callers' harmless is that the action which removes the service
  comes later in the queue; packets have no such protection, and what they find is a service or none, a pcb that is up or becomes a ghost. Removal takes the packets of one service after
  another (`RemoveAll`, a recursive function over a list of the services): that it ends with none of them named is
  proved by way of the shortest list for which it would not.
- `UsbCameraProofs`: `StepsOfTheStream` (what `main_loop` does is a step of the stream or none); `StreamIsFreedLast` from `TransfersInv` (a transfer is
  on the bus once, in the callback, or freed) and `UsersInv` (from the time `uvc_stream_stop` sees all of them freed nothing
  brings one back); `FramesArriveWhole` from `FrameInv` (what was received so far is of the frame the camera
  is in or of the one before, and the parity of the frame id tells which) and `HoldInv` (the mutex keeps the frame
  on hold while it is copied, and its number is above that of the last copy). `ControlsKeepTheirValues` from `ControlInv` (the
  register of a control that was set holds the encoding of its values, which are in range). Behind it is `RoundTrip`, for all values and
  not only those a run tries: the parameters of every control lie one behind the other in the transfer, no two
  controls have one register, and a number of one, two or four bytes is read back from its bytes, with its sign.
  `StreamedModeIsDescribed` from `ModeInv` (once negotiated, the control block, and from the commit on the mode, names a format,
  frame and rate of the camera's list, in the interface it names). Behind it is one lemma for each loop that reads the
  descriptors, by induction over the blocks: what `ScanControl` and `ScanStreaming` have read after n blocks is in the first
  n blocks, so what the search for a mode finds (`MatchIsDescribed`, `RateIsOfTheFrame`) is described. `DescriptionAssumption`
  takes the descriptors for well formed, and asks of a camera that was told nothing that it answers with a rate of the frame it names.

Only model-checked: all liveness (`SilentClientClosed`, `TasksReturn`, `TornDownMeansReboot`, `WaitingPacketRead`, `QueriesEnd`, `Settles`, `StopReturns`), out of
the prover's reach. Every invariant and action property a passing run checks is stated by a theorem.

## Not modelled

- LED matrix: disabled in `sdkconfig` and not built. Its poller and the task for the reply to PRINT_TEXT read from one UART,
  so that one may take the other's answer; nothing but the status they report depends on it.
- Wi-Fi: not selected in `sdkconfig`. Console and stdin helpers: pure I/O the gateway does not call. `test_tools`: client scripts.
- Of the modelled parts: replies to GET_STATUS and the dispatch of text frames, which change no state; the size of the print transfer; the Wiegand
  reader (not selected); IPv6; reset, initialisation and filters of the Ethernet chip, which come before the tasks run; of mDNS the
  coding of packets, what a probe copies behind the end of its array when the pcb kept services of an earlier one without being in it (`mdns.c:2177`), goodbyes, suppression of known answers, delegated hosts and lack of memory;
  of libuvc still images, polling for frames, button callbacks, conversions of pictures and diagnostics; of `usb_camera.c`
  the ring buffer and `sender_task`, whose URI is not registered.
