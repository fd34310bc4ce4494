# A verification project for luxpower_sna

`luxpower_sna` connects a LuxPower inverter to Home Assistant. The heart of the
repository is an ESPHome component that polls the inverter through its Wi-Fi
dongle; around it stand the firmware of a replacement dongle, an HTTP update
component, battery controllers written as ESPHome lambdas, and tools for a PC.

This directory holds TLA+ models of that code, the TLC configurations that check
them, and theorems about them that TLAPS has checked. Every definition is
translated from the source; `PROJECT.json` gives the lines of each.

## The system

| Part | State it keeps | Operations | Talks to |
|---|---|---|---|
| Poller (`components/luxpower_sna`, `loop()`) | connection state machine, socket, response timer, bank index, receive buffer | one pass of `loop()`: connect, receive, process, time out, dispatch | dongle over TCP; entities by callback |
| Write queue | up to 20 (register, value) commands | `queue_write`; `loop()` pops one at a time | switches, numbers, times, buttons fill it |
| Hold register cache, entities | 240 registers; what each entity shows | read and write answers fill it, `notify_hold_listeners_` publishes it | computed from by `write_state` |
| Scan | shared flags, heartbeat, found address, deferred apply | the button, the FreeRTOS task, the watchdog and the pick-up in `loop()` | shares members with `loop()` without a lock |
| Host persistence | NVS entry, restored globals and text entities of `luxpower_package.yaml` | typing, the five-second interval, apply, restart | `set_host`, `reconnect` |
| Frame reassembly | 512-byte buffer | `try_recv_`, `try_process_packet_` | poller |
| Dongle firmware (`esp32_dongle/main`) | register cache and command queue under a mutex; sockets of cloud, dongle and local clients | relay, local server, cloud task, RS485 master, MQTT, Wi-Fi handler | FreeRTOS tasks sharing `shared_state.h` |
| `ota_http` | update backend, MD5 and URL, credentials kept over a restart | `flash`, `do_ota_`, `cleanup_` | HTTP server, RTC memory |
| Battery controllers (`esphome/common/bms`) | charge and discharge stage, timers, filtered state of charge | interval lambdas; CAN frames out, acknowledgement in | BMS sensors, CAN bus |
| Proxy tools (`tools`) | sockets, threads | forwarding, decoding | cloud, dongle |

What is hard in it: the poller is half-duplex over a link that loses requests,
hangs up and answers late, and decides everything by one state variable that
many paths assign; a second thread, the scan task, shares members with the main
loop and is supervised by a timer; addresses live in four places (RAM, NVS, a
global, an entity) that a restart brings back in an order of its own; entities
show a state before it is true.

What makes each part correct:

- *poller*: one request at a time, the answer paired with it; every loss leads
  to a retry; writes sent once, in order; polling never stops;
- *write queue*: bounded; accepted writes wait for as long as it takes;
- *cache*: equals the inverter's register when nothing is under way; entities
  are true in the end; a switch changes its own bit only;
- *scan*: one writer of the shared members; what is applied was verified; the
  scan and the task end; the poller keeps off the dongle meanwhile;
- *persistence*: an address in use stays in use, over restarts too, until a scan's
  result or the typed address replaces it;
- *firmware*: no update of the cache stays unseen, the commands of a topic in their
  order and the last one queued, polling suspended while the inverter settles;
- *update*: no image is booted that was not completely written and compared;
- *controllers*: stages only in the documented order, no current above a limit
  (not modelled).

## Modules

| Module | What it is |
|---|---|
| `WriteService` | what a caller of `queue_write` may expect: a bounded first-in-first-out queue, as two counters |
| `LuxHub` | the poller, its write queue and the dongle's side of the connection |
| `HoldWrites` | extends `LuxHub`: one holding register in the inverter, in the cache and in its switches |
| `FrameStream` | the receive buffer: the byte stream of a connection cut into frames |
| `LuxScan` | scan task, supervision and apply in `loop()`, the ways of the address, restarts |
| `Pipe` | what the firmware's TCP servers promise: each end's bytes arrive at the other end |
| `Forwarder` | the local server: accept loop, session tasks, shared socket table |
| `FrameCutter` | the reassembly loop that `lux_relay.c` and `lux_cloud.c` both contain, as operators |
| `Relay` | extends `Forwarder` and `FrameCutter`: the relay between dongle and cloud |
| `DongleMqtt` | the shared register cache and command queue between three tasks, and the broker |
| `CloudTask` | the cloud task: timers, polls, write queue, settling period |
| `DongleBoot` | `app_main`, the Wi-Fi handler, the firmware upload and the two partitions |
| `OtaHttp` | the `ota_http` component: MD5 and image requests, backend, credentials, restart |
| `HoldWritesProofs` | the theorems about `LuxHub` and `HoldWrites` |
| `RelayProofs` | the theorems about `Forwarder`, `FrameCutter` and `Relay` |
| `LuxScanProofs`, `FrameStreamProofs`, `CloudTaskProofs`, `DongleMqttProofs`, `DongleBootProofs`, `OtaHttpProofs` | the theorems about the module of that name |

### LuxHub

The variables are the component's members (`state_`, `awaiting_`, `bank_idx_`,
`initial_hold_done_`, `write_queue_`; `sock_open` is `sock_fd_ >= 0`), the two
directions of the connection (`asked`, `answers`), the dongle's end of it
(`peer_open`) and history: how many writes were accepted, which was sent last, what
became of each hold bank, and `misled`: the last frame processed met `WRITING` and
was not the confirmation it waits for.

A pass of `loop()` over an established connection is `Receive` (`try_recv_`),
`ProcessPacket` once for each complete frame, and one of `FinishPass`,
`FinishWaiting` and `FinishTimedOut`: the timeout guard, `if (awaiting_)
return` and the switch, which is `Dispatch`. Passes without a connection are
`StartConnect`, `ConnectDone` and `ConnectFails`. `queue_write` and `reconnect`
are called by entities between two passes, as ESPHome is single-threaded; the
dongle (`Reply`, `HangUp`) acts at any moment, inside a pass too.

Abstractions: a request or an answer is its function and its bank; a write is
its number; clocks are choices (an interval that may have elapsed may be found
elapsed). Heartbeats and frames with a bad checksum change nothing the model
keeps, except that a heartbeat's echo may fail; that case needs the byte buffer
and is in `FrameStream`. What can go wrong is the set `Faults`, each kind
drawn from a common budget; a late answer (`"late"`) is a timeout that fires
while its answer is still under way.

### HoldWrites

Each action is one of `LuxHub`'s with its effect on the inverter's register, on
`hold_regs_` and on what the switches show. A request lost with its connection may
or may not have reached the inverter, and so may a dropped one. A write whose `send`
fails has not; a refused one changes nothing but is answered. Both, and each other
way to lose a confirmation, leave a switch that shows what was asked for until the
next hold cycle reads the register.

### FrameStream

`recv_buf_` is the sequence of the first `recv_buf_len_` bytes of the buffer, `wire`
what the peer has sent and `recv` has not yet returned. A byte is the number of its
frame and its position in it, which is all that tells bytes apart here; noise
belongs to frame 0. A pass of `loop()` is `try_recv_`, which takes at most
`ChunkLen` bytes and copies what fits, and then `try_process_packet_`, one action
for each way it returns: `Incomplete`, `Resync`, `TooLarge` and `EchoFailure` end
the pass, `ProcessPacket` repeats it. Connections come and go between passes;
`close_socket_` is where the buffer is emptied.

Abstractions: the CRC tells a frame from anything else of its length; the length
is in one byte, the last of the header; a byte taken for a length without being
one reads as a number made of its frame and position, which may be within the
buffer or beyond it; payloads may look like the mark of a frame. When the
echo of a heartbeat fails, `send_bytes_` has emptied the buffer and
`try_process_packet_` subtracts the packet's length from zero: `overrun`, after
which only the restart of the device, `Boot`, is left.

### LuxScan

The main loop's variables and the task's are interleaved at every access to a
member the other side sees. A pass of `loop()` is `LoopStart` (the clock),
`Watchdog`, `Pickup`, then `Result` or `Rest`; the task's steps follow `do_scan_`
(settle, the known address, batches, verification, `finish` in its two
assignments). Time is kept as ages: of the heartbeat, and of the clock reading of
the pass under way; a live task is silent for `MaxQuiet` ticks at most, which is
less than the watchdog's limit, as its longest wait is a probe of 2.3 s against
12 s. There are `Tasks` slots, since a task that was given up lives on.

`stalled` and `edited` are history: the watchdog fired since the last start; the
user typed an address during the scan. In both cases the code gives up the
promises checked here (two tasks may share the members; a typed address is
reported as confirmed), so the invariants about the scan's result except them and
say so.

### Pipe, Forwarder, FrameCutter, Relay

`lux_local_server.c` and `lux_relay.c` are the same server twice. A session of
`Forwarder` is one client: `Accepting` is what `server_task` does with it (`accept`,
`xTaskCreate`), `Connecting` the socket for the other end and its `connect`, each
with its own ways to fail, `Serving` the loop of `conn_task` (`select`, one `recv`
and one `send` for each end that is ready, the idle timeout, and the closing of both
sockets), `Peers` what the ends do. `send` has no timeout: it returns (`SendOn`)
when the other end makes room or has left, so that a session may stand in it for
ever (`Blocked`). `held` is the socket table that all sessions share; `Sockets` says
how many of its entries are left for them. `xTaskCreate` may fail, and as its result
is not looked at the client's socket is then orphaned: `"orphan"`.

`Pipe` is the abstract specification: what an end sent is delivered to the
other, whole and in order, until the session is cut; `Delivers` says of one session
and end that it happens in the end. `Forwarder` implements it with `sent` and
`delivered` taken as they are, `Delivers` except for a session that stays blocked.

`Relay` adds the frame buffers of the two directions: a piece is pushed through
`frame_buf_push` between `recv` and `send`. A byte is the number of its frame,
its position and the frame's length; `Lookalike` lists payload positions that
read like the mark of a frame. A piece that does not fit behind what the buffer
holds displaces it, as in the code; `spilt` notes that.

### DongleMqtt

A register's value is the number of its updates. `reg_update_*` and `RaiseFlag`
are two steps, since the cache and its event flag have two mutexes; a publisher
reads a register (`TaskReads`, `HandlerReads`) and publishes it later. The MQTT
library calls the handler with its lock held, so that `lux_mqtt_task` cannot
publish while the handler runs. After a connection the topics are subscribed one by
one (`Subscribe`), and the broker repeats the last command of each retained one at
that moment. Number commands are retained, as the discovery message asks Home
Assistant for it, those of selects and buttons are not; `Retained` says which topics
are. A command is its topic and its number in the home's order; `issued`, `last`,
`applied` and `refused` are history by topic: given, retained, queued and turned away
because the queue was full. Values, scaling and texts are abstracted.

### CloudTask

`pc` is where a pass of `lux_cloud_task` stands. The code keeps time stamps and
subtracts them from `now`, read once a pass before `recv()`: `since` holds these
differences, as far as the code tells them apart, and `late` how old `now` is.
A battery change is stamped with a later reading than `now`; its difference is
negative, which is how the unsigned wrap shows (`battery_settling`). Time passes
in `recv` only. `recv` gives a batch of whole frames, which may be writes; the
connection may be cut at any moment, and a `send` on it fails or does not know
it yet. `quiet`, `calm`, `changed` and `asked` are history.

This revision neither compiles nor starts the task (`CMakeLists.txt` and
`main.cpp` build the relay mode). It is modelled because the firmware's cache and
queue are written for it and its timing is the hardest to test.

### DongleBoot

`app_main` is a sequence of steps (`Steps`); `wifi_handler` runs in the event task,
`ota_upload_handler` in the HTTP server's, the access point (`router`) and the power
fail at any moment, and the station may be disconnected with the access point in
sight. `lux_ota_start` may fail and leaves the device without the server (`server`),
which an upload needs. A partition holds nothing, a part, or a whole image; what
`esp_ota_*` do is taken from their documentation and marked external.

### OtaHttp

`flash()` blocks the main loop, so its steps follow each other; what interleaves
is the server, whose two files (the MD5's and the image's) are replaced one by
one, failures of each request and each write, damaged data, and power failures.
A file is a sequence of chunks and stands for its own MD5. `md5_expected`,
`update_started_` and the saved credentials are members or memory that an
earlier attempt leaves to the next: the attempts are up to `MaxPlays`. The
preferences are ESPHome's: `Sync` may write them or not, the code does not look, and
so the model keeps nothing of them; what a restart finds is the memory of the RTC.

## Runs

| Run | Module | Shows |
|---|---|---|
| `hub_ontime` | `LuxHub` | half-duplex, honest hold cycle, no poll stuck (and so reconnection, see Proofs), and the refinement of `WriteService`, for a dongle that answers in time or not at all |
| `hub_late` | `LuxHub` | what does not depend on the dongle's manners: also with late answers and exceptions the writes keep their order, a lost socket is replaced, and polling goes on unless the poller is stranded in `WRITING` |
| `hub_sendfail` | `LuxHub` | **violation**: the send of a write fails, the poller never reconnects |
| `hold_writes` | `HoldWrites` | the cache is current, the switches become true in the end if hold cycles and polls go on, whatever was lost or refused |
| `frames` | `FrameStream` | frames are processed once, in order and without a gap, over any pieces, noise and reconnections |
| `scan` | `LuxScan` | safety of the scan and of the address, the poller keeps off the dongle meanwhile |
| `scan_ends` | `LuxScan` | a scan and its task end |
| `relay` | `Relay` | the relay is a fair pipe in both directions (refinement of `Pipe`), reports exactly the frames, accounts for every socket, and its sessions end, unless one is blocked in `send` for ever |
| `mqtt` | `DongleMqtt` | the commands of each topic keep their order, no update of an input register stays unseen; what the home sees catches up with the cache, the last command of each retained topic is queued or met a full queue |
| `cloud` | `CloudTask` | holds first, no poll while the battery settles, no long silence, polls for ever |
| `boot` | `DongleBoot` | a whole image to start at every power failure, gives up in time, the station returns |
| `ota_http` | `OtaHttp` | only vouched-for images are started, a failed attempt leaves nothing behind, attempts end |

**Bounds.** Two input and two hold banks show a first, a last and a skipped bank.
Two or three writes against a queue of two fill it; two faults let one happen while
the poller recovers from another; `hold_writes` draws its two from every kind but
the late answer, with two writes, one bank of each kind and a queue of one. Two bits
are the fewest that can undo one another. Headers of three bytes, frames of four and
six, a buffer of nine and chunks of four show every cut through a header and a
frame, two frames in a chunk and a chunk that does not fit. Two bytes of noise on a
connection, both reading as the first half of a mark, are the fewest that make
`try_process_packet_` drop the first byte of a frame; it then resumes at the payload
position that looks like a mark, reads a length there that is complete, incomplete
or too large, and three frames let one be lost and the next be found. The sweep has
one or two addresses and batches of one, so that a batch can be partial, a candidate
can be the wrong device and the task's own address is skipped; two task slots are
what an aborted scan and its successor need. The wrap of the millisecond clock is a
hundred ticks, far above every age reached.

In `relay`, two sessions want four sockets and there are two: the second client is
turned away or its `connect` fails at each point where a socket can be missing. One
session carries nine bytes, in frames of four, five and nine, against pieces of five
and a buffer of eight: frames in several pieces, pieces with parts of two frames, a
frame that the buffer cannot hold and a piece that displaces what it held; the other
session (`Quiet`) is there for the sockets. In `mqtt` one input and one hold
register differ in whether they raise the event; each is updated once, so that an
old value can overtake the new one. Two of three topics are retained: one lost
connection repeats the older command of one after the newer of the other, and with
the repetitions two commands fill the queue of two. In `cloud` the periods keep the
code's order where it matters (a heartbeat and a poll interval shorter than the
receive timeout, the hold interval longer), three writes overrun the queue of two,
and two frames of one `recv` can be two writes. In `boot` two pieces tell a part
from a whole, two retries tell the first from the last. In `ota_http` two chunks
tell a part from a whole, two images let the server's files disagree, and three
attempts let a stale MD5 and a stale `update_started_` meet a third.

`relay` does not check deadlock: when no task could be created for any client the
server has really nothing left to do.

**Fairness.** `loop()` is called for ever and each of its passes runs to the end:
weak fairness of its actions. Each pass looks at the receive buffer and at the
clock, although other passes, which end early, lie between: strong fairness of
`ProcessPacket` and `FinishTimedOut`. An interval that has elapsed stays elapsed
until the switch takes it, so a cycle starts if the switch is reached again and
again with nothing more urgent: strong fairness of the step into `POLLING_INPUT`, in
a pass that found the response timer run out or in any other (in `HoldWrites` also
of the step into `POLLING_HOLD`; the property assumes that such a cycle is reached
again and again with a socket). A dongle that keeps the connection answers or loses
a request in the end. In `FrameStream` each pass receives and then processes to its
end (weak fairness), and bytes that are on their way are there in one of the passes,
if not in each (strong fairness of a receive of at least one byte). FreeRTOS runs
the scan task and the loop, the tasks of the firmware, the event task and the HTTP
server's: weak fairness of each. The timeouts of `connect` and of `select` are part
of the steps of `Forwarder`, so weak fairness of a session's task suffices, except
in `send`, which has none: `SendOn` is not fair, and only a `send` to an end that
has left must return. In `CloudTask` time passes: `recv` cannot return at once for
ever, strong fairness of a `recv` that takes a while. In `OtaHttp` the device's own
steps are fair, the server's sending and its failures are not: an attempt ends by
the timeout if nothing comes. The number of faults is finite in a run where the
model counts them, and nothing else is assumed of them; the liveness properties of
`CloudTask`, `DongleMqtt` and `DongleBoot` say themselves which environment they
need (the connection lasts in the end, the access point is there in the end and does
not turn the station away, the power stays). In `DongleBoot` the Wi-Fi handler is
fair as long as the station is not up: an attempt ends one way or the other, a
connection once made need not end.

## Proofs

Eight proof modules prove for all values of the constants what the runs check
for one; the only assumptions are the named ones of the modules (there is at least
one bank, bounds are numbers; the longest silence is below the watchdog's limit; a
header has at least three bytes, a frame is no shorter than that and no longer than
the buffer of the component, a chunk has at least one byte; the relay's pieces fit its
buffer, as `recv` is given one of that size; an image has at least one piece or chunk;
the marker values of a model are none of its data).

- *Types*, one step per action: `TypeCorrect`, `RegTypeCorrect`, `ScanTypeCorrect`,
  `StreamTypeCorrect`, `ForwarderTypeCorrect`, `RelayTypeCorrect`, `CloudTypeCorrect`,
  `MqttTypeCorrect`, `BootTypeCorrect`, `OtaTypeCorrect`: every module that has
  variables. They hold the bounds of the buffers and queues.
- *The write queue* (`WritesStayInOrder`) is inductive given the types; from it
  follows the step simulation of `WriteService` (`ServesWritesSafely`): a pop is
  its `Send`, an accepted `queue_write` its `Accept`, all else a stutter.
- *Half-duplex* (`AnswersAlwaysMatch`): `AnswerMatches` is strengthened to
  `MatchInv`: at most one request is under way, in one direction or the other, and
  if one is, it is the request of the state the poller stands at, `awaiting_` is
  set and the component online.
- *The hold cycle* (`HoldCycleIsHonest`) needs half-duplex, since only then does
  an answer belong to the bank it is counted for: the banks below `bank_idx_` of
  a running cycle are settled.
- *The socket and the write's timer* (`NoSocketIsDisconnected`,
  `WritingStaysTimed`) hold for fault sets without the fault that breaks them:
  the failing send of a write, and the exception in answer to one.
- *What polling shows* (`PollingShows`): `InputIsPolled`, which a run checks, implies
  `WritingEnds`, since polling is not writing, and `Reconnects` where
  `NoSocketIsDisconnected` holds, since polling then has a socket.
- *The register cache*. `SwitchesAreAPoller` shows that `HoldWrites` is `LuxHub` with more
  variables, so that half-duplex carries over. `CopyStaysCurrent` is about
  the course of things without faults (which may lose a confirmation, and with it
  the copy's truth until the next hold cycle). It follows from `CopyInv`: as long as
  the budget of faults is whole, every request has its answer under way (`Linked`),
  so that no response timeout is due; an answer to a read carries the register as
  it is, and once the register has been read, `hold_regs_` equals it unless a
  confirmation waits to be processed, whose value it then is (`Fresh`). A late answer
  is not drawn from the budget; it is the one fault the theorem excludes.
- *The buffer*. `FramesStayInOrder` follows from `OrderInv`: the bytes in the buffer
  and then on the wire are bytes of frames sent, ascending in frame and position
  save for noise, and all beyond the frames processed. Every step only thins that
  stream or adds to its end, whatever it takes for a frame. `NothingIsMissed`
  follows from `CleanInv`: without noise and truncation the stream has no gap
  between the first byte of the frame next to be processed and the last byte sent,
  and between passes the buffer is shorter than that frame; hence a buffer in step
  stays in step. `SpaceAlwaysSuffices` adds that the shorter buffer leaves space for
  a chunk.
- *The scan*: `StatusIsHonest` and `ScanStaysAlive` are inductive.
  `AddressesSurvive`, about every step, needs to know where a restart takes its
  address from: NVS holds the one in use (`HostIsSaved`). `OneTaskAtATime` and
  `PollerKeepsOffTheScan` follow from `TasksAlone`: until the watchdog fires, a live
  task is alone, the component is scanning, no result is under way and the poller
  has no socket. `FoundIsTheDongle` follows the address from the task's last step
  through `scan_result_pending_` and `deferred_ip_`; it needs `TasksAlone` for
  having no second writer, and the task's note of the address it probes to equal
  `host_`.
- *The servers*. `FwdInv` says session by session (`At(s)`) which sockets it holds
  and where the bytes are that were sent and not delivered: in the piece in the
  task's hand, then at the socket. `SocketsStayAccounted` and `NothingIsLost` are
  parts of it, and `ForwardsTransparently` is the step simulation of `Pipe`: a
  `send` delivers the piece, which by the invariant continues what was delivered;
  closing cuts the session; everything else stutters. `RelayForwards` shows that
  each step of the relay is a step of the server, for any frame buffers, so
  `RelaySocketsAccounted` and `RelayIsTransparent` carry over.
- *The reassembly*. `Cut` is a recursive function on buffers of any length, and the
  prover has no induction to say that it is defined: `LoopEnds` shows it by
  hand. Functions that satisfy the equation up to a length agree (`LoopsAgree`) and
  exist for each length (`LoopsExist`), by the least counterexample, because a
  turn goes on with a shorter buffer only. `StreamsAreCut`, by the same means along
  the frames: a buffer that starts with a frame reads that frame's own mark and
  length, so that the loop never gets to search among payload bytes. `ReportInv`
  then says of each direction that the end has sent whole frames and, unless the buffer
  was spilt, those complete in what was received are reported and the buffer holds the
  start of the next (`Reported`). `RelayReportsExact` follows by counting the ends of
  frames, which is how `Whole` says it.
- *The broker*. `CommandsKeepOrder` needs the whole way of a command in one
  invariant, `Ordered`, topic by topic, since a reconnection repeats the topics'
  commands in an order of its own: what was queued or refused of a topic is not
  newer than anything of it in the inbox (`Behind`), the queue and the inbox are
  each in line (`InLine`; a repetition may equal what it follows), and nothing is
  newer than what the broker retains (`Issued`). `CommandsAccounted` is the safety
  half of `LastCommandApplies`. `UpdatesAreSeen` follows from `ShowInv`, register by
  register (`Current`): a value the task has read too early is one whose update is
  on record; and while connected the update is on record, or a publisher still gets
  to the register, or the register is shown and the handler holds no older value of
  it. The task may hold an old value while the handler does not publish, not the
  other way round: that is what the library's lock gives. It holds for input
  registers only; nobody looks at `hold_updated`, so hold registers wait for the
  periodic publish.
- *The cloud task*. `CloudInv` has four parts: the times are in their ranges (`Times`), the initial cycle has asked for exactly the banks below
  `hold_bank` or for all (`Initially`), `since.change` and `late` together
  are the time since a change, the first negative only in the pass that saw it
  (`Settling`), and a silence began no earlier than the pass of the last heartbeat
  (`Silent`). `HoldsComeFirst`, `PollsDoWait` and `AlwaysHeard` follow. `CloudTypeCorrect`
  adds where the polling loops stand (`Looping`) and what the queue takes of a
  batch (`QueuedType`, a recursion again shown to be defined by hand).
- *Start-up and upload*. `BootInv`: until the boot partition is set the running one
  is the one to start and the handler writes the other; it is set only to a whole
  image (`Whole`); no more is written than the request's body holds (`Fits`);
  `s_retry` and the attempts since the last address count together (`Counted`).
- *The HTTP update*. `OtaInv` has a part for each theorem: the MD5 expected is one
  given since the last failure, or that of no file (`Vouched`); data are written
  only with `update_started_` set, and from then on every way out of the loop has
  aborted or ended the update (`Accounted`); from their saving to the restart the
  credentials in RTC memory are those of the network in use (`Saved`).

Every invariant and action property that a run checks is the statement of a theorem.
Only model-checked: the liveness properties (`InputIsPolled`, `PollsUnlessStranded`,
`Reconnects` with late answers, `ServesWrites` beyond its safety part, `ScanEnds`,
`TaskEnds`, `SwitchesBecomeHonest`, `FramesAreProcessed`, `FramesFoundAreProcessed`,
`Forwards` beyond its safety part, `SessionsEnd`, `PublishedIsCurrent`,
`LastCommandApplies`, `PollsForEver`, `StationReturns`, `AttemptsEnd`), as fairness
is outside the prover's reach. Proved but in no run: `SpaceAlwaysSuffices`,
`NothingIsLost`, `NoSocketIsDisconnected`, `WritingStaysTimed` and
`CommandsAccounted`, which the properties of the same runs rest on.

## Known divergences

Where the code does something else than a comment, a document or the code around
it says. Only the first is a run; the definitions named for others are in
the modules and fail with the constants given.

The component:

- A `send` of a queued write that fails leaves the poller in `WRITING` without a
  socket: `luxpower_sna.cpp:199`, against "send() failed: %d - reconnecting"
  (`:344`). Run `hub_sendfail`.
- An exception in answer to a write clears `awaiting_` and leaves `WRITING`
  (`luxpower_sna.cpp:466`): the poller neither polls nor times out again. Any frame
  that meets `WRITING` without confirming the write does the same (`:438`), as the
  late answer to an earlier request, if the confirmation then is lost.
  `PollsUnlessStranded` allows for this one place to be stuck at and for no other.
  `InputIsPolled` in `LuxHub`, with the constants of `hub_late` but
  `Faults = {"refuse"}`, `MaxWrites = 1`, `MaxFaults = 1`, `MaxLate = 0`.
- A hold cycle that a timeout ends leaves the listeners unnotified
  (`luxpower_sna.cpp:184`): with a dongle that is late in each of them the switches
  may show for ever what was asked for and never done. `SwitchesBecomeHonest` is
  checked without late answers.
- The watchdog's `now - heartbeat` is unsigned, and the heartbeat may be newer
  than `now`: a false "scan stalled" (`luxpower_sna.cpp:96`). `WatchdogIsHonest` in
  `LuxScan`, with the constants of `scan`.
- After a restart `luxpower_package.yaml:27` pushes the address typed last over
  the one a scan had saved, against `README.md:144`. `RestoredHostStays` in
  `LuxScan`, with the constants of `scan`. `AddressSurvives` states what is left.
- Two switches of one register used within one poll cycle: the second writes the
  register without the first one's bit (`luxpower_sna.cpp:778`).
  `SwitchesAreObeyed` in `HoldWrites`, with `QueueMax = 2`, `MaxFaults = 0`,
  `Faults = {}`.
- A failed heartbeat echo closes the socket and clears the buffer under
  `try_process_packet_`, which subtracts the packet's length from zero
  (`luxpower_sna.cpp:402`). `SendFailureIsHandled` in `FrameStream`, with the
  constants of `frames`.

The dongle firmware:

- `lux_cloud.c:144` announces that polls are suppressed for 25 s after a battery
  change; the pass that sees the change polls at once, since its `now` is older
  than the change and the difference is unsigned (`:299`). A reconnection forgets
  the settling period altogether (`:268`). `PollsWait` states what is left.
- The cloud's heartbeat is never echoed (`lux_cloud.c:157`): `lux_parse` rejects
  frames shorter than 22 bytes (`lux_proto.h:157`), which a heartbeat is.
- `cloud_process_frame` does not look at the direction of a frame: the inverter's
  acknowledgement of a write, as it comes back, is queued as a write; and a
  write is acknowledged although the queue was full and dropped it. Writes
  popped for a socket that is dead are lost.
- `lux_cloud.c` and `lux_rs485.c` are not in the build and nothing starts them.
  In relay mode, the mode that is built, `relay_process_dongle_frame`
  (`lux_relay.c:45`) has no caller, although `main.cpp:154` says the relay parses
  the stream: the register cache stays zero, zeros are published, and the command
  queue is never drained.
- `lux_relay.c` and `lux_local_server.c` ignore the result of `xTaskCreate`: the
  client's socket and the argument are leaked; `send` has no timeout
  (`lux_local_server.c:67`, `lux_relay.c:178`), so an end that stops reading blocks
  its session, for good if it never goes. `SessionsEnd` and `Forwards` except that.
- When `httpd_start` fails, `lux_ota_start` returns without a server and without
  being called again (`lux_ota.h:131`): no update over the air until a restart.
- After ten failed attempts the station never tries again until a restart
  (`main.cpp:46`); `StationReturns` excepts it.
- `lux_ota.h:41`: the page posts a multipart form, the handler writes the request's
  body as it comes. The first `esp_ota_write` rejects it.
- The discovery marks number commands as retained: a command is queued again at each
  reconnection, and an older one of one number after a newer one of another. A
  command that meets a full queue is dropped without a word (`lux_mqtt.c:135`). The
  numbers end at 110, the handler accepts up to 140.

`ota_http`:

- A failure between `begin` and the first data does not abort the backend on a
  first attempt, and aborts one that may not have been begun on later ones, as
  `update_started_` is never reset. `NotLeftOpen` excepts the first.
- An invalid `md5_url` is to "prevent flashing until it is" valid
  (`ota_http_request.cpp:128`), but an MD5 left from an earlier play whose `flash()`
  returned for want of a URL lets it through. `VerifiedImage` counts such an MD5 as
  given. The MD5 request does not look at the HTTP status either.
- The result of `global_preferences->sync()` is ignored (`ota_http_request.cpp:172`):
  what the update overwrote of the preferences' sector may stay lost at the restart.
- The code that restores the Wi-Fi credentials from RTC memory exists as an example
  in a comment only.

## Not modelled

- *Register banks and sensor scaling, discovery texts, logging, status pages*: stateless
  decoding and formatting.
- *Battery charge and discharge controllers, CAN emulation*
  (`esphome/common/bms`): device configuration in YAML lambdas. Their stages
  (`SOFT`, `ADAP`, `STOP`) are few, but what they promise is about amounts: measured
  voltages averaged over five readings, an estimated sag, quadratic tapering and
  rate limits. A model over small sets would keep the stages and lose the
  promises. Three observations for whoever takes it up: each of the two
  controllers resets the other's stage when it sees the direction change, at its own
  next reading, so a stage `STOP` may be restarted within one session, against
  "Reset: only when the direction changes" (`charge_discharge_controller.yaml:22`);
  `EXIT1` after the ramp (`:511`) cannot be reached, since the same condition has
  returned before; the hold of five amperes at start-up ignores both the limit
  sliders and the switches.
- *RS485 master*: neither compiled nor called; one mutex around a transaction.
- *Proxy tools, luxclient, Arduino sketch*: experiments on a PC, an unfinished
  predecessor, an earlier stand-alone program with the poll cycle of `LuxHub`.
- *Configuration code generators, device YAML*: no state.
- *Numbers and times of the component*: they build their value as the switches do, from the
  same cache; `HoldWrites` has the switches.

What is left for a further revision: the controllers' stages, and the RS485 master
once the firmware uses it.
