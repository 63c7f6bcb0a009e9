# A verification project for greybus-zephyr

greybus-zephyr is a Greybus node (and, optionally, the APBridge and SVC in
front of it) for Zephyr.  This directory holds TLA+ models of its parts, the
TLC configurations that check them on small instances, and theorems checked by
TLAPS.  Every definition is translated from the C code; `PROJECT.json` gives
the lines of each, and lists the hazards of the code at the line where they
bite with the properties that cover them.

Run a model with `tlc -config MCx.cfg MCx.tla`, the proofs of a component with
`tlapm XProofs.tla`.

## 1. The system

All paths are below `src/subsys/greybus/` unless they start otherwise.

| Component | State | Operations | Interacts with |
|---|---|---|---|
| Core receive path: `greybus-core.c`, `greybus_heap.c`, `greybus_messages.c`, `greybus_transport.h` | the heap, `gb_rx_msgq`, the worker thread | `greybus_rx_handler`, `gb_process_msg`, sends, listen/stop/notify | transports call it, it calls the drivers, drivers send through it |
| Operation ids: `greybus_messages.c` | one atomic counter | `new_operation_id` | every thread that sends requests |
| Firmware: `fw_management.c`, `fw_download.c` | `priv_data`, the flash context | load, find, fetch, release, report | the AP's answers, as requests of the worker |
| Camera: `camera.c`, `camera_data.c`, `src/drivers/video/fake_camera.c` | `info.state`, `stream_state`, `frag_state`, buffers | connect, configure, capture, flush, `frame_work` | worker thread, system work queue, timer of the device |
| HID reports: the receiving half of `hid.c` | two queues of operation nodes, `report_node`, `node_request`, a semaphore and a thread | report interrupt, thread, `gb_hid_init`, `gb_hid_exit` | the device's interrupt, the worker |
| APBridge: `apbridge.c`, `interfaces.c`, the connection part of `svc.c` | `node_ap_map`, the interface list | add, remove, look up, route | SVC requests, sending threads of all interfaces |
| UART transport: `transport/uart.c`, `transport/hdlc/` | ring buffer, work item, decoder | send, interrupt, work | the core |
| TCP/IP transport: `transport/tcpip.c` | the client's socket, a receive thread | accept, receive, send | the core |
| I2C transport: `transport/i2c.c` | byte ring, pipe, work item | target callbacks, send | the core |
| APBridge transport, dummy: `transport/apbridge.c`, `dummy.c` | - / a queue | send a copy | APBridge, tests |
| SVC handshake: `svc.c` | semaphore, interface, connection | version, hello, module events, start and stop | the AP |
| Control: `control-gpb.c` | none | manifest, connected, disconnected | cports and drivers |
| CPorts, manifest: `greybus_cport.c`, `platform/manifest.c` | tables made by the preprocessor | lookup, `manifest_create` | everything |
| GPIO, audio, UART, PWM, lights, vibrator, I2C, SPI drivers | what each keeps of its device | requests and events | worker, interrupts |
| Raw, log, loopback | callbacks of the application | registration, sends | worker, application threads |
| Legacy drivers: `power_supply.c`, `sdio.c`, `usb.c`, requests of `hid.c` | open or not, a callback | requests, `init`, `exit` | an older core that is no longer in the tree |

The threads: the receive loop of a transport (one per transport, more with an
APBridge), the worker `gb_pending_message_worker`, the system work queue
(`frame_work`, the HDLC and I2C receive work), interrupt and timer callbacks,
and application threads that send (log backend, raw, audio events).

### What is hard about it

- Everything shares one heap and one queue, and every allocation and every
  `k_msgq_put` waits for ever.  Who owns a message at each step, and whether
  somebody is left who can release memory, is a property of all threads.
- `frame_work` reschedules itself while the worker starts and stops the
  stream; a wakeup lost there stalls the stream, one too many sends a frame
  after the flush.
- The nodes of a HID report go from the interrupt to a thread and back; only
  the two queues are protected, and not `report_node` and `node_request`.
- The route table is read without a lock while it is written.
- The HDLC work item and the interrupt share a ring whose memory is handed
  out in contiguous pieces, and a work submitted twice runs once.
- A message over TCP/IP is two writes, each to whatever client is connected
  at that moment.
- The firmware handlers keep the state of a download in a global across loads
  that fail half way.
- Twenty drivers answer and release requests by hand on every path, and devices
  fail between two calls of one request.
- Cports and manifest count bundles in two files that do not know of each other.
- Offsets and ids wrap.

## 2. Modules

| Module | Models | Proofs |
|---|---|---|
| `InOrderServer` | what the core promises, without threads, queue or heap | |
| `GreybusCore` | the receive path; implements `InOrderServer` | `GreybusCoreProofs` |
| `OperationId` | `new_operation_id` | `GreybusCoreProofs` |
| `FwDownload` | firmware management and download, with an AP | `FwDownloadProofs` |
| `Apbridge` | routes, SVC connections, lookups | `ApbridgeProofs` |
| `Camera` | the camera driver and its two threads | `CameraProofs` |
| `Hdlc` | the serial link: sending threads, UART, ring, work, decoder | `HdlcProofs` |
| `Hid` | HID reports: interrupt, thread, opening and closing | `HidProofs` |
| `Operations` | what a handler does with its message, for the drivers below | |
| `Gpio`, `Audio`, `Pwm` (and vibrator), `Lights`, `Buses` (I2C, SPI), `UartPort`, `Raw` (and log, loopback), `Legacy` | the drivers, as operators | |
| `Manifest` | cports, bundles and manifest of a build | |
| `Node` | composes control, manifest and one driver | `NodeProofs` |
| `Tcpip`, `I2cTarget`, `Svc` | the other ways to a node | |
| `Links` | composes these three: one of them is in the build | `LinksProofs` |

Each `MCx` module gives the constants of `x` their values for TLC.

**GreybusCore.**  The heap is a set of blocks, one message each; a pointer is a
block, so that use after release, double release and leaks are visible.
`RxHeader`, `RxAlloc`, `RxFail`, `RxReject`, `RxPut` are the steps of a
transport's receive loop (`tcpip.c`) through `greybus_rx_handler`; `RxFail` is
a payload that cannot be read.  `WorkerGet` takes a message; what its handler
then does with memory is a program (`Program`) of the steps `alloc`, `reply`,
`release` (of the message received), `free` (of one the handler has made),
`scratch` and `discard` (memory that is no message) and `read`, and each step
is an action of the worker (`WorkerAlloc`, `WorkerReply`, ...).  `Handler`
gives each message the shape of its handler, and the shapes are those of the
drivers in the tree: fourteen, of which five are the firmware handlers'
(`FwProgram`), which allocate, send and release requests of their own before or
after they release the message.  The shape `found` releases the find response
and then reads it (`WorkerRead`), as `fw_download.c:73-75` does.  `EventStart`,
`EventAlloc`, `EventFree` are threads that send requests; those in `Forgetful`
are the jack and button events of `audio.c`, whose message nobody releases
(`EventForget`).  The legacy drivers run on a core that is not in the tree, and
not on this one.  Left out: what is in a message; what a send does (it returns);
the wait for the interrupted thread in allocations with a time-out, which no
caller uses.

**InOrderServer** accepts requests and answers them in order.  The refinement
maps `accepted` to what `greybus_rx_handler` has queued, `pending` to the
request of the worker (until it is answered) followed by the queue, and
`replies` to itself.  `RxPut` is `Accept`, `WorkerReply` is `Reply`, the release
of a message whose handler does not reply (`Serves`) is `Consume`, everything
else stutters.

**OperationId.**  The atomic increment and the atomic reset are two steps, and a
request keeps its id until the peer has answered it.  `MaxId` stands for
`UINT16_MAX`.  History: `when` is the number of a thread's call, `late` whether
the call overtook another thread between its increment and its reset.

**FwDownload.**  `priv` is `priv_data`, sizes count chunks of 64 bytes,
`OffsetSpan` is the number of chunks a `uint16_t` offset can tell apart.  The
node's handlers are one step each, because they all run on the worker.  The AP
is external: it serves what it has found, may refuse anything, and may give a
load up.  `disturbed` marks runs with a failed flash write or an abandoned load;
what the driver does after those is listed as a hazard and no property claims
it (stale answers are taken for the new load's).  The id that is read from the
released find response is taken to be still the one in it; that the read is
one of released memory is in `GreybusCore`.

**Apbridge.** `node_ap_map` is written field by field by the thread that handles
SVC requests and read field by field by `node_to_ap_cport`. Each lookup carries
history: the AP cports its cport was connected to at some time (`possible`) and
throughout (`stable`). In the other direction (`ap`) the entry of the AP's cport
is read field by field without a search (`ApSend`, `ApReadCport`, `ApWrite`).
Only the tests call `gb_apbridge_send` for the AP, so that its caller is
external: it sends one message at a time, on cports it knows to be connected,
which keeps the unchecked index within the table and `node_intf` from being
`NULL` when it is read; and the AP's interface is there and can write. Assumed:
the AP waits for one SVC request at a time and connects no cport twice; stores
are seen in program order, each access is atomic, and an entry's `node_intf` is
read once (single core targets; the fields are not declared atomic, so this is
what a compiler makes of it and not what C promises).

**Camera.**  `hpc` is where the handler on the worker is, `wpc` where
`frame_work` is; `pending` and `canceling` are the work item's state, with the
documented behaviour of `k_work_schedule` (no effect while scheduled or being
cancelled) and `k_work_cancel_delayable_sync` (waits).  Every video call may
fail.  Buffers are counted: with the device to be filled, filled, held by
`frame_work`, in the pool.  Assumed: the host flushes before it disconnects.

**Hdlc.**  A byte is its frame, its place there and whether it has its value or
the escaped one.  The checksum is taken as perfect: it is the sequence of the
bytes it was computed from, and fits a whole frame only.  A buffer whose
checksum fits and whose second byte is not the control byte meets the assert of
`hdlc_process_frame` (`Dispatch`): the device halts, or, in a build without
asserts, hands up a shifted frame; `alarm` keeps which.  `PollOut` may lose a
symbol when the receiving FIFO is full.  `PutClaim` and `GetClaim` are Zephyr's
rule that claims end at the end of the array.  `Receive` is the interrupt, one
step because it is not interrupted by the work queue; `RxStart`, `RxByte`,
`RxFinish` are the work, between whose steps the interrupt may come.  A FIFO
read that fails (`transport/uart.c:100-105`, a driver without the call), which
leaves the claim unfinished, is left out.

**Hid.**  An operation node is in the free queue, in the data queue, the one the
interrupt fills next or in the thread's hands.  The interrupt is one step and
may come between any two steps of `report_proc_thread`, whose round is cut at
every access to what they share (`ThreadTake`, `ThreadSend`, `ThreadRequeue`,
`ThreadCheck`, `ThreadAssign`, `ThreadClear`).  `overtaken` remembers that the
interrupt took the last node while the thread was giving one back, after which
the request for a node is cancelled although it was not served.

**Drivers and Node.**  All drivers of a node run on the worker and their
handlers to completion, so that a request is one step.  A driver is a set of
operators with a common form: its state at first, its requests, what a handler
makes of the state (a set, with one member for each way in which the device can
fail), what interrupts and application threads may do between requests, and
what the device then shows.  `Operations` has the outcomes: the answers sent, how
often the message is released, the memory kept.  `Node` picks a build and one
cport of it; it keeps `asked`, what the AP has been told by successful answers
and no failure has put in doubt.  `GpioDisturbs` and the like name what a failed
request leaves open (a pin is an output already when its value cannot be set).
Control's `Connected` and `Disconnected` call the driver.  The legacy drivers
cannot be built, since each includes a header that is missing; they are
translated as they stand, and what called them is external.

**Manifest.** A build is its options and the bundles of its devicetree, each
with the number of its devices by protocol. `Cports` follows the counter of the
preprocessor in `greybus_cport.c`, `Bundles` the positions in `manifest.c`;
`Compiles` is what the lists of the preprocessor accept, and that `CportCount`,
the number the application is told, is the length of `cports[]`. Cports and
bundles have numbers of eight bits (`U8`) and nothing keeps them from wrapping:
`ManifestMatches` is about the builds they suffice for (`Numbered`).

**Tcpip.**  The connections of the AP are numbered and each is a stream of
pieces; a client sends three, one for each read of the node.  The AP may close
in the middle of a message or break the connection.  A send is two writes
(`SendCport`, `SendMessage`) that each look at `client_sock`.  `torn` are the
connections on which sends overlapped or met a new client.

**I2cTarget.**  The ring and the pipe hold units of messages; the master writes
at any time, and a unit that finds the ring full is lost.

**Svc.**  The semaphore of `gb_svc_init`, the requests the AP has still to
answer, an AP that may answer after the wait, sends that fail, and the start,
stop and second start, without a stop before it too, of SVC and bridge.

## 3. Runs

| Run | Question | Answer |
|---|---|---|
| `core_safety` | Has every message one owner, is memory never used after its release, is nothing lost but the requests that `control` and `i2c` and the events that `audio` never release? | yes, but that the id in a find response is read after its release |
| `core_live` | Does the core implement the in-order server with its fairness, and answer every request it was given whole, while a handler leaks, another sends requests of its own and another thread competes for memory? | yes, as long as the heap has room |
| `core_wedge` | "Choosing to drop for now" (`greybus_transport.h`): does a handler without memory drop its reply? | no: `gb_alloc` waits for ever, and queued requests can hold all memory |
| `fw_update` | Is a validated image whole, in order and the one asked for, is the release last, is every load that nobody refuses reported? | yes, for images within a 16-bit offset |
| `opid_wrap` | Are the ids of the requests under way different and not 0? | for requests less than a round of ids apart, unless a call overtook the reset of the counter |
| `apbridge` | Does the table equal what the AP believes, do creations disturb no lookup, is a connected cport always found, from the node and from the AP? | yes |
| `apbridge_race` | Does a message always go to the cport its sender is connected to? | no: a half removed entry matches cport 0 |
| `camera` | Is a flush final, does a running stream never stall, does a capture stay within and reach its number, is every request answered? | yes |
| `hdlc` | Does the ring never wedge, do frames arrive whole and in order unless sends overlap, what does a lost symbol cost? | yes; two frames at most, and four of them may make the assert on the control byte fail |
| `hid` | Is every node in one place, do reports leave in order, does reception go on? | yes, unless the thread is overtaken |
| `node` | Is each request answered and released once, is the device as the AP was told after any failures, is no interrupt of a device reported while its cport is disconnected, does the manifest describe the cports? | yes, with the exceptions named at the properties |
| `links` | Do messages stay whole, is every client taken in the end, does the SVC start only after a hello? | yes, unless sends overlap, the ring fills, or a connection breaks |

Disagreements with the repository's own words that show in these models without
a run of their own are listed as findings at the run whose model has them:

- `fw_update`: the offset of a fetch has 32 bits in the message and in
  `priv_data` and 16 in between (`fw_download.c:35`); with an image larger than
  `OffsetSpan`, `FlashInOrder` fails.
- `core_safety`: the id of a firmware is read from the find response after its
  release (`fw_download.c:75`), and the jack and button events of audio are never
  released (`audio.c:383`, `403`).
- `opid_wrap`: "unique operation id": a call that overtakes the reset of the
  counter gets 0, and later ones ids that are handed out again; and a request
  that waits for a whole round of ids meets its own.
- `hdlc`: "Also queues rx buffer for processing": bytes that wrap while the work
  is queued wait for the next interrupt (`LeftAtTheWrap` says that nothing else
  waits).
- `hdlc`: `assert(ctrl == HDLC_UFRAME)`: after an overflow the checksum misses the
  byte that is saved first, so that it can fit a buffer that begins one byte
  before a whole frame (`hdlc.c:78`).
- `node`: a last bundle for which `manifest.c:58` knows no class has cports and
  no descriptor (`Orphan`); and a disconnect stops the control cport instead of
  the one disconnected (`control-gpb.c:126`).

### Bounds, and why they are enough

- `GreybusCore`: five messages for the safety run (a request that is kept, one
  answered with memory of its own, a find response, one without a driver, one
  answered before a request of the handler), two receivers, two event threads of
  which one forgets its messages, four blocks, a queue of two.  Receivers block on
  the queue and on the heap, the worker and the event threads on the heap, in
  every combination.  The other shapes are permutations of the same steps, and
  the theorems are about all of them.  Blocks are symmetric in the safety runs;
  the liveness run uses no symmetry, three messages (kept; the last chunk, which
  is followed by requests of the handler; one with a reply), a queue of one and
  five blocks, one more than three messages and what a handler makes need at a
  time.  `core_wedge` has a queue of three and four blocks: the smallest queue and
  heap in which queued requests take the memory of a reply.
- `FwDownload`: images of one and three chunks (a download that ends with its
  first chunk and one with a middle chunk), two loads, so that a load starts
  from what another left, and two failures.  `MaxFailures` and `MaxLoads` are
  bounds on the AP and on the flash.
- `OperationId`: `MaxId` 3 and nine calls of three threads pass the wrap
  twice, with all three threads on it, and hand out three rounds of ids while a
  request waits.
- `Apbridge`: two nodes with cports 0 and 1, three AP cports (one of them the
  SVC's), one lookup and one message of the AP at a time; neither writes the
  table, so that they do not affect each other.
- `Camera`: two buffers, a pool of five, targets 0 (none), 1 and 2, frames of
  two messages.  `frame_id` and `sent` count up to `MaxTarget + 1`, above every
  target, where comparisons no longer change.
- `Hdlc`: frames of two bytes (the second is the control byte) whose last one is
  escaped, a ring of three, so that claims are cut at every position, a FIFO of
  two, three frames of two threads, four lost symbols (`MaxLost`): both flags
  between two frames and bytes around them are lost, the buffer overflows with
  a byte of one frame and the whole of the next follows, so that the assert fails.
  While sends overlap nothing is claimed of what is handed up, and `MaxTorn`
  keeps such runs from losing symbols as well.
- `Hid`: three nodes (one with the interrupt, one in each queue, and the case
  that all are taken), six reports, so that every node is used twice, and two
  openings, so that what the first left meets the second.
- `Node`: four builds, in which every driver, every option, several devices of
  one kind and last bundles with and without a class occur; two pins, channels and levels, transfers of
  two operations; two threads for two raw slots.  The state is what a driver
  keeps, so that all sequences of requests are covered and none is bounded.
- `Links`: three connections (one that is closed or broken under a send, one
  that replaces it and one that follows), two messages in each direction, two
  senders; on I2C messages of two and of three units with a ring and a pipe of
  three, which the longer one fills; three calls of `gb_svc_init`, so that an
  answer to the first can meet the second and the third.

### Fairness

`WF` of the worker, of each receiver and event thread, of both camera threads
and of the system work queue: Zephyr threads that are ready run in the end.
`WF` of the thread that sends HID reports and of the end of `gb_hid_exit` that
waits for it, of the TCP/IP receive thread and of the I2C work item, for the
same reason.  `WF` of the UART interrupt: it is enabled throughout.  `WF` of the
camera device's timer while it streams, and of the AP's answers in `FwDownload`.
The peer is never obliged to send a request, nor the AP to load or to answer the
SVC, nor the bus master to read, and no stronger fairness is used.  The AP's and
the UART's fairness belong to code outside of the repository.

`CHECK_DEADLOCK FALSE` is set where a system that has done all its bounded work
stops (requests, loads, calls, frames, reports or connections used up), and in
`hdlc` where the assert halts the device;
`core_live`, `apbridge`, `camera` and `node` are checked for deadlock.

## 4. Proofs

All theorems hold for every value of the constants that meets the named
assumption of the module (`CoreAssumption`, `BridgeAssumption`, ...).

- `GreybusCoreProofs`: `TypeCorrect`, `SingleOwnership`, `MemorySafe`,
  `NoOtherLeak`, for messages of any of the fourteen shapes.  The inductive
  invariant is `TypeOK /\ PcOK /\ OneOwner /\ NoUseAfterFree`: ownership alone is not
  inductive, since a receiver's pointer enters the queue, where another might
  already be, only if what each thread holds at each step is known (`PcOK`: for
  the worker, from the steps of the program that lie behind it, `Since` and
  `Done`), and an allocation is safe only because a free block is held by nobody
  (`FreeIsUnheld`), which is `NoUseAfterFree`.  What the proofs need of the
  programs is that each step finds what it uses: that a `free` has its `alloc`
  before it, that the message is released at most once and answered before; it is
  read off the fourteen programs and nowhere else is a shape looked at.  `MemorySafe`
  excepts the step `read`, as its property does.  Leaks are then a property of one
  step at a time (`...ForgetsNothing`): the steps that forget are the end of a
  program that keeps its message, and `EventForget`.
  `Refinement` is `SafeSpec => Server!SafeSpec`: initial states map to initial
  states and every step to a step or a stutter, from the same invariant.
  `UniqueIds` is about `OperationId`.  Its invariant numbers the calls: the
  counter and the number of a call differ by a constant between two resets, so
  that an id is the place of its call in its round (`Cycle`), and an equal id is
  `MaxId` calls further back; `OneWrap` (past the last id there is exactly one
  thread that will reset the counter) says that only late calls get what lies
  beyond.
- `FwDownloadProofs`: `TypeCorrect` without further assumptions; `ChunksInOrder`,
  `NothingAfterRelease` and `ValidatedWhole` for images of any size that a 16-bit
  offset can address (`SmallEnough`, without which they are false).  The
  invariant says in which phase an undisturbed load is (`Silent`, `Asked`,
  `Declined`, `Finding`, `Found`, `Fetching`, `Answered`, `Done`): at most one
  message is under way in each direction, but for the acknowledgement before a
  find and the release before a report.  So there is no second answer that could
  be written twice, and while chunks arrive the offset is the number of chunks
  in the flash.
- `ApbridgeProofs`: `TypeCorrect`, `RoutesAsTheApKnows`, `CreationIsSafe`,
  `ConnectedIsFound`.  The invariant adds what an entry holds while a request is
  half done (`SvcOK`), what a lookup has established so far (`LookupOK`: no
  cport connected throughout lies before the index it has reached), and what the
  AP's own send has read of an entry that stays connected (`ApOK`).
- `CameraProofs`: `TypeCorrect`, `FlushIsFinal`, `StreamNeverStalls`,
  `WithinTarget`.  `Phases` says what the two threads know of each other: an
  idle stream leaves nothing of `frame_work` but its last return, only one run
  is scheduled and none beside a run that could schedule another, and while the
  handler waits nothing is scheduled.
- `HdlcProofs`: `RingNeverWedged` and `OnlyWrappedBytesWait` for rings of any
  size, `TypeCorrect`, `FramesWhole` and `ReceiverFindsBack`. The invariant of
  the ring says that a running work without a successor has claimed all there is
  or all up to the end of the array, so that what it leaves starts at index 0
  and some memory has been freed. The types need that a thread within a frame
  has begun it (`Begun`), and are the reason to believe that ring and buffer
  never exceed their sizes; no run checks them again. `FramesWhole` needs to
  know what is on the line. `Stream` says that there is a path through the
  places of the frames sent (`Following`), each symbol in the ring and the UART
  being the one at its place (`Linked`), from where the decoder stands
  (`DecoderAt`: it has handed up the frames before and kept the bytes of this
  one so far) to where the sender stands (`Writes`, as long as the senders take
  turns). A send appends a place, the decoder takes one off, the interrupt and
  the end of a run move symbols and leave the path as it is. How many frames are
  complete is read off the flags, which are counted along the path (`Counted`).
  Frames are sequences of any length, yet no induction over them is needed: each
  step adds or removes one symbol. `ReceiverFindsBack` is about what is lost.
  The path then has gaps (`Chained`): with each place goes the number of symbols
  lost before it, and `Gap` bounds how far two neighbours are apart. What a loss
  can cost is kept as a balance (`Affords`): the frames handed up and two for
  each symbol lost are at least the frames that the decoder has passed and those
  that it is still going to drop (`Spoilt`). It drops the frame it is in when it
  has not all of it, and the next one when an escape is left over that the flag
  does not make it forget; that is where the second frame of the property comes
  from. Reading a symbol keeps the balance (`AffordsRead`) and a gap pays for
  itself (`AffordsGap`); with the line idle no frame is left to be dropped. What
  is handed up is in order (`InOrder`): each frame is one that the decoder has
  passed (`Behind`); the checksum ends with a byte of the frame it is in or of
  one it has passed since (`AtWork`), and that one is later than every frame
  handed up, because a gap only leads on (`Later`). The buffer holds the bytes
  that the checksum was computed from, possibly behind one more (`BufferOf`):
  when the buffer overflows within merged frames, the checksum misses the byte
  saved first (`SaveByte`). What that costs is `Spent`: a buffer is full only when
  two flags at least were lost since its first byte, and when the checksum then
  begins with the first byte of a frame two more flags were lost behind the byte
  that overflowed. So a buffer whose checksum fits has its control byte in place,
  and is handed up as a frame that was sent, unless four symbols were lost; then
  the assert may fail, and from there on nothing more is claimed (`Bearing`).
- `HidProofs`: `TypeCorrect`, `NoNodeTwice`, `SentInOrder` for any number of
  nodes and reports.  The thread asks for a node only while the interrupt has
  none (`Control`), so that `ThreadAssign` overwrites no node; the four places
  are disjoint (`Apart`); the data queue, behind what the thread sends, holds the
  last of the reports taken in their order (`Content`, `Prefix`).
- `LinksProofs`: `TypeCorrect`, `StreamsIntact`, `ReadyOnlyWhenAnswered`, each
  link by an invariant of its own, because a step of one leaves the others as
  they are.  TCP/IP (`TcpInv`): the connections are accepted one after the other
  (`Turns`); what is in a stream is in order and without gaps (`Streams`,
  `Ordered`, `Joined`), and goes on where what the node has read of a message
  ended (`Across`, `Received`); what was handed up lies before it (`Handed`); in
  the other direction the two pieces of a message alternate, unless the
  connection is torn, and where the last message ends is known while a send is
  between its writes (`Outs`, `Between`).  I2C (`RxInv`, `TxInv`): ring, buffer
  and pipe are one chain of units, each following the one before, unless a unit
  was dropped or two writers met.  None of this needs an induction over
  concatenations.  SVC: a semaphore that is up has an answer behind it
  (`SvcLogic`).
- `NodeProofs`: `TypeCorrect`, `RequestsSettled`, `DevicesAsAsked`, `NodeQuiet`
  and `ManifestDescribes`,
  for any number of pins, channels, levels, transfers, slots and threads, and
  builds of any children.  For each driver a lemma says how a request ends
  (`Ended`): refused with everything as before, done as asked, or half way, told
  as a failure, with one thing changed that the request leaves open; the buses
  and the strip, which are open in more than one place, say only what follows
  (`Follows`).  Either keeps what the AP was told in agreement with the device
  (`FollowsAgrees`).  Three drivers need more: the settings of a PWM channel are
  told of from the start, or what an enable sets would not be known; a strip
  channel the AP was told of is the one that is stored (`Current`), or a request
  for the colour would change it in a way the AP cannot know; and a callback is
  armed only while the cport is connected.  For raw, `RawInv` says that a slot
  with a callback has its thread there, so that a callback with the data of
  another has two threads in its slot; and that the slot of a thread that sends
  is taken, so that each response is released.
  `ManifestDescribes` holds for every build that compiles, with any number of
  bundles and devices that eight bits can count.  That the two tables belong
  together is `BuildPaired`: group by group the options add to both
  (`OptionsAligned`), and so does each child but the last, because it compiles
  only with a class (`ChildrenFit`, from what a child alone contributes,
  `ChildFits`); the last may add a group and no class, which is `Orphan`.
  Since all classes but the last are lists of one, flattening them keeps their
  places (`FlattenOnes`), and flattening the groups keeps what is known of each
  element (`FlattenType`).  Both are inductions over the recursive function of
  `FlattenSeq`: `FlattensExists` shows that it exists, `FlattenIs` that it is the
  one chosen, and `Induction` is a principle for sets of numbers, derived from
  the well-foundedness of finite sets under inclusion since the library's own
  take an operator as a parameter.  `CreatedIs` then says what stands at each
  place of the manifest, and `MatchesCreated` reads the property off it.

Only model-checked: liveness (`AllAnswered`, `LoadReported`, `RequestAnswered`,
`CaptureEnds`, `ReceptionResumes`, `ReportsFlow`, `LinkRecovers`) and the fairness
half of the refinement, because the prover has no rule for `ENABLED`.

## 5. What is not modelled, and what is left

Not modelled: the start and the stop of the service, which is one straight line
at boot, and certificates; the setting up of sockets, of the I2C target and of
the UART, and `gb_trans_exit`, which nothing calls; the dummy transport of the
tests; the copy that the APBridge transport makes (its allocation is that of
`GreybusCore`, its routing that of `Apbridge`); requests that `svc.c` answers
with a constant; `manifest_print`; layouts of messages and descriptors; samples.
What SPI does with word sizes that differ within a request (`spi.c:153` ors them)
is in the model and no property claims it.  A host that breaks the protocol
(disconnects a camera while it streams, sends to a cport that does not exist) is
outside of the models: `Camera` has a host that configures only a connected
cport and flushes before it disconnects, where `camera.c:179` refuses a
configuration while streaming only.

Abstracted, where the code does more than the model: the interrupt of a UART reads
up to 64 bytes to an offset of three bytes in a payload of 64
(`uart.c:204-211`), so that a full read writes three bytes past the message; data
of the UART has no length in `UartPort`, and no property is about it.  A second
`connected` for a GPIO cport initialises the callback again while it is in the
device's list; `Gpio` keeps whether it is there.  Which errno a driver's `connected` returns is one failure in `Node`.
No transport in the tree refuses to listen or to stop, and `Node` has none that
does.  A send of `frame_work` returns, and so does a send of the worker; over
the APBridge transport and over I2C it may block.

What is left to be done: the composition of `Camera` and `GreybusCore` over
the APBridge transport, whose send allocates (`frame_work` may wait for memory
while the worker waits for `frame_work`), and then a send over I2C, which waits
for the master.
