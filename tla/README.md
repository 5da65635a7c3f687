# Verification of the Agilex AI Suite runtime

This directory models the parts of the repository that carry its own
concurrent and failure-prone logic: the stream controller firmware and its
mailbox, the CoreDLA device layer, the MMD back ends below it with their
interrupt threads and DMA engines, and the programs above it (benchmark, demos,
streaming applications, hosts of the spatial IP). Modules are checked with TLC
on small instances; the central results are proved with TLAPS for all values of
the constants. `PROJECT.json` lists the components, the runs, the source lines
behind every definition, the hazards and the theorems.

## The system

A host program drives one or more CoreDLA instances on an FPGA through the
OpenVINO plugin (not in this repository) and `runtime/coredla_device`, which
reaches the board through one of several MMD libraries. In the streaming (S2M)
designs a NIOS-V core runs the *stream controller*: it captures frames from a
video source with an msgDMA and schedules the inferences itself. The *spatial*
designs have a second, smaller runtime of their own.

| Component | State | Operations | Interacts with |
|---|---|---|---|
| Stream controller firmware (`stream_controller.c`, `message_handlers.c`) | ring of job items, two pointers into it, counters, status, interrupt count | event loop, msgDMA interrupt, six message handlers | msgDMA, DLA descriptor FIFO, mailbox |
| `StreamControllerComms` | busy flag, sequence ID | `Initialize`, `ScheduleItems`, `GetStatus`, `Ping` over `SendMessage`/`ReceiveMessage` | mailbox memory, host threads |
| `CoreDlaDevice` | 64-bit job counts, condition variables | interrupt service routine, `WaitForDla`, `InitializeScheduler` | CSR registers, MMD interrupt thread, request threads |
| `DeviceMemoryAllocator` | top of the shared buffer, bottom of the private ones | allocate shared/private, clear | graph jobs |
| `CoreDlaGraphJob`, `CoreDlaBatchJob` | buffers of a graph, batch jobs handed out, ostream lock | construct, `GetBatchJob`, load, start, read | allocator, MMD wrapper, comms |
| MMD back ends: HPS, streaming, OFS PCIe, DCP A10 PAC, DE10 Agilex | handle maps, devices, interrupt threads, DMA windows and buffers | open, close, info, read, write, interrupts, streams, reprogram | kernel drivers, OPAE, system-console, Quartus |
| Spatial MMDs and plugin, OFS spatial demo | session, weights, shared buffers, window pages | connect, reset, load weights, infer | AFU registers, System Console |
| `msgdma-userio` kernel driver | pinned pages, descriptors | read, write | dmaengine |
| Demo pipeline, `dla_benchmark`, streaming applications | idle requests, results, queues, semaphores | submit, callback, wait, shut down | OpenVINO, FIFO, each other |

Hard behaviours, and what makes each component correct:

* **Firmware.** An interrupt may come at any point of the event loop; frames
  complete while requests are recycled; the host may restart; the driver may
  refuse a descriptor; counters are 32 bits wide. Correct: a buffer is never
  captured into while it is inferred on, inferences run in capture order, no
  request waits for ever, capture never ends silently.
* **Mailbox.** Two processors write the same words without a lock; waits time
  out; the host process may die. Correct: a request is handled exactly once
  if it is reported scheduled and never if it is reported failed; every call
  returns.
* **Completion.** Jobs finish at any instant relative to the interrupt
  routine; the register wraps; waits time out. Correct: a wait ends only when
  its job is done, and always ends.
* **Memory.** Two areas grow towards each other; any of a graph's allocations
  may throw. Correct: no two inferences touch the same memory.
* **Devices.** Constructors fail half way; threads start before what they wait
  for exists; interrupts are lost; clients share devices. Correct: a call that
  succeeds reached its own board, completions are seen, closing ends.
* **Transfers.** Windows, buffers and descriptors are shared by threads and by
  the parts of an unaligned transfer; memory is pinned and unpinned while the
  engine runs. Correct: every byte in its place, no DMA outside pinned memory,
  every call returns.
* **Reprogramming.** Several methods with retries and a fallback, interrupted
  by Ctrl-C. Correct: success means the image is on the board.
* **Programs.** Requests come back in any order, on other threads, or fail; the
  input ends or the user quits meanwhile; two programs meet through semaphores
  that outlive them. Correct: outputs belong to their inputs, in order, and
  the program ends.

## Modules

| Module | Models | Notes |
|---|---|---|
| `StreamController` | the firmware and its environment | one action per step of `RunEventLoop`, one operator per function |
| `StreamFrames` | adds a history of captured frames and the kinds of session | capture order and liveness |
| `Mailbox` | both sides of the mailbox, word by word | refines `RequestService` |
| `RequestService` | what a caller of `ScheduleItems` may rely on | abstract |
| `DlaCompletion` | interrupt routine, `WaitForDla`, both builds | |
| `DdrAllocator` | the DDR allocator | refines `MemoryRegions` |
| `MemoryRegions` | disjoint regions | abstract |
| `GraphJobs` | graph job construction and batch jobs | composes `DdrAllocator` |
| `DeviceLifecycle` | one device from open to close with its interrupt thread: HPS, PAC, OFS | with `CoreDlaDevice`'s constructor and destructor |
| `DeviceMap` | handles, maps and dispatch of every MMD call, two clients | HPS, PAC, OFS, streaming, DE10 |
| `Transfers` | reads and writes of board memory of five back ends, and the msgDMA driver | a transfer is a plan of small steps |
| `PcieDma` | the DE10 DMA engine on Windows and its host channels | |
| `De10Board` | opening, interrupts, Ctrl-C and reprogramming of the DE10 board | |
| `Benchmark` | `dla_benchmark`: requests, feeder, streaming MMD, ostream lock | composes the next three |
| `BenchmarkCommand` | its command line and models, check by check | operators |
| `BenchmarkReport` | its dumps and results | operators |
| `Accuracy` | top-1/top-5 and average precision | operators, checked against what the pictures show |
| `DemoPipeline` | the demos' main loop, `AsyncPipeline`, the image captures | |
| `SpatialHost` | the spatial plugin and benchmark over OFS or JTAG, and the OFS demo | |
| `SpatialPacking` | layout of tensors on the bus | operators, checked against the bus format |
| `StreamingApps` | `image_streaming_app` and `streaming_inference_app` | composes `StreamImages` |
| `StreamImages` | image files, from their lines to the streamed vectors | operators |
| `StreamFramesProofs` | theorems about `StreamController` and `StreamFrames` | see Proofs |
| `RuntimeProofs` | theorems about `DdrAllocator`, `GraphJobs` and `DlaCompletion` | see Proofs |
| `DeviceProofs` | theorems about `DeviceLifecycle` and `DeviceMap` | see Proofs |
| `MailboxProofs`, `PcieDmaProofs`, `De10BoardProofs`, `DemoPipelineProofs`, `StreamingAppsProofs` | theorems about the module they are named after | see Proofs |
| `MC*` | instances for TLC | |

Operators whose comment begins "Variant with a mistake" are not part of any
specification. Each is a plausible bug in the definition that follows it, and
shows that some property would catch it.

### StreamController and StreamFrames

The variables are the fields of `StreamController` in `stream_controller.h`,
one function per field of a job item, the locals of `RunEventLoop`, and the
environment: queued descriptors (`dma`), the interrupt line (`irq`), the DLA's
FIFO, one message and one reply in the mailbox, and the host. An iteration of
`RunEventLoop` is three steps (`LoopReadIsrCount`, `LoopNewSourceBuffer`,
`LoopReceiveMessage`); `MsgDmaIsr`, the hardware and the host may run between
them. Within a step the interrupt only increments a counter that the step does
not read again, so this granularity loses nothing except in
`InitializeStreamController`, whose reset of the counter is one store. A step
that handles a message is the whole of `ReceiveMessage`: the handler, what it
calls, the reply, the acknowledgement and the sequence check.

A DDR address is a number: batch job `i` has its input at `i + 1`; 0 is the
address in a job item that has no payload. The two counters that are only
compared or reduced are kept reduced: `numInferenceRequests` is counted up to
`NumJobs` (`RequestCountWraps` lets it go on to wrap), and
`numReceivedSourceBuffers` modulo the drop period. Assumed: the heap has room
for the ring, `alt_msgdma_open` succeeds, and the host sends no message of
unknown type.

The host follows `InitializeScheduler` (Ping, then Initialize), then sends one
`ScheduleItem` per idle request in the order of the ring, as the plugin recycles
its requests. `StreamFrames` fixes what kind of host and driver a behaviour has
(`session`): one that only streams, one with a driver that refuses descriptors,
status queries and a restart before capture starts, or one that only sends
manual commands.

### Mailbox

The two mailbox areas are records of words. `SendMessage` is four writes and a
poll per step; the firmware's `ReceiveMessage` reads type, ID and payload in
steps of their own. Threads share the busy flag, which never waits. `reliable`
is chosen once: in a reliable session the firmware answers within the polls of
the code (100; in TLC, `WaitLimit`) and the host does not die.

### DlaCompletion

The variable `runtimePolling` is the build (`COREDLA_RUNTIME_POLLING`), chosen
once from `Builds`. One interrupt routine serves all instances, as one MMD
thread calls it. `isrMutex` makes single steps of the store with its
notification and of each test of the waiting condition with the sleep after it.
A wait whose deadline has passed still has to get the mutex back
(`WaitExpires`, then `WaitTimesOut`), during which the routine may publish.
Jobs of an instance finish in order, and one thread at a time waits for an
instance ("This function must be called by a single thread",
`coredla_device.cpp:275`). At most `MaxOutstanding` jobs are started and not yet
returned to a caller, as the plugin's requests are that many; a started job
finishes whenever it likes. The register starts at `InitialCount` and may wrap
at any time, also before the first interrupt.

### DdrAllocator and GraphJobs

Addresses and sizes are exact integers. `GraphJobs` performs the constructor's
allocations one by one; each may throw, which abandons the graph job and keeps
what it allocated. Sizes are bytes of a memory with 2-byte words and 4-byte
bursts instead of 64-byte words. `DestroyDevice` is the allocator's `Clear`.

### DeviceLifecycle and DeviceMap

`DeviceLifecycle` takes `aocl_mmd_open` apart into the steps of the three
constructors, each of which may fail and unwind; the interrupt thread is a
program of its own (UIO read and unmask, OPAE event with an event descriptor
for shutdown, OPAE event with a 1 ms timeout) that calls the routine of
`CoreDlaDevice`; the destructor disables, notifies, joins and frees.

`DeviceMap` has atomic calls and keeps the maps from ids and handles to devices,
the boards' registers and memory, and what each client wrote (`expect`). Each
platform has its own operators for opening, naming, info, clock and address
computation. `got` is the answer to the last call with a judgement whether it is
the one the caller asked for.

### Transfers and PcieDma

In `Transfers` a call is compiled into a plan, a sequence of small steps
(`MmioLoad`, `SetWindow`, `SendDescriptor`, `PollInterrupt`, `Seek`, ...) that
follows the loops of the code: unaligned head, DMA chunks, unaligned tail, each
with its window. Two threads, the engines and the driver interleave at those
steps; any access may fail, which takes the error path of that back end. Words
are 2, 4 and 8 units for the code's 4, 8 and 64 bytes. `ignored` records that
the code dropped an error status, after which nothing is claimed; `unguarded`
that two calls met which no one lock covers.

A call into the kernel driver is several steps, as none of the driver's locks
covers them together: it sets the channel's address, prepares and submits its
descriptor, waits for the completion and terminates the channel, whoever else
has a descriptor in it. The address and the cookies belong to the channel. HPS
reaches it through one `FILE` per process, whose position all threads of the
process share: stdio's lock is held for one call, so another thread may come
between a seek and its read or write.

`PcieDma` keeps the descriptor table, the pinned, active and finished memory of
`ACL_PCIE_DMA`, the semaphore and the work items of the three thread pools, and
the two rings of `ACL_PCIE_HOSTCH` with the pointers of both sides.

### De10Board

One process with one board: what is on the board (`board`), the PCI registers
(`regs`), the interrupt mask and line, the map of devices, the signal settings,
and the program counter of a reprogramming. A scenario is the operating system,
the build (SOF through JTAG, PR, or JTAG forced by the environment), the
contents of the package and whether the board is usable and alone on JTAG.
`quartus_pgm` and the driver are external and may fail.

### Benchmark and its operators

`main` walks through the steps of the program; the feeder, the runtime's
starter and waiter threads and the callbacks are further processes. Inputs are
lists of files; an output is named by the input it was computed from, so
`Expected` says where each must be. Checks of the command line are lists in the
order of the code, each with its exit code. `Accuracy` uses whole numbers:
scores in percent, coordinates in 1/200 pixel, so that all divisions are exact.

### DemoPipeline, StreamingApps, StreamImages

Each program is its main thread, its requests with their callbacks, and the
user. A result in `DemoPipeline` refers to the tensors of its request, as in the
code. `StreamingApps` has the two processes, the plugin's capture, the two named
semaphores, which keep their values from run to run, and Ctrl-C to either.
`StreamImages` gives a file as its header (with or without the size of the image,
`sized`), its palette and its lines with their padding, and follows
`bmp_file.cpp` from what it reads to the vector it streams: the part of the
palette that is read, what each converter takes from where, and `Junk` for what
lies behind the end of the data. A picture is a function from positions to
samples, so that a conversion is the permutation it performs.

### SpatialHost and SpatialPacking

Memory is counted in beats. The OFS host allocates shared buffers and queues
read and write bursts that the board executes in its own time; the JTAG host
writes through a window with a cached page and polls its DMAs. A tensor, a word
and a mask are sets of bits. Packing and unpacking apply the code's masks word
by word; a shift by the width of the word is undefined, so `FieldMasks` then
holds both an empty and a full mask, and the packet starts with any contents
where the code leaves it uninitialised (`Uninitialised`).

## Runs

Bounds are the smallest at which the cases in question occur; each was raised
until the state space no longer showed new kinds of step. Scenarios (sets of
records in the `MC` modules) replace products of independent choices: one per
way a program can be started that leads to different code.

| Run | Bound | Shows |
|---|---|---|
| `Stream` | ring of 3, the smallest that can drop a frame without touching a scheduled one; every second frame dropped; counters modulo 3 or 4 so that they wrap; three sessions, one restart; 527,595 states | no buffer is shared, inferences run in capture order, every request is served; with a failing driver no silent stall, after a restart a clean ring; debug commands leave the ring alone |
| `Memory` | graphs: 4 loads of graphs that stream neither way, both ways or one way, in 61 bytes, so that loads fail at every step; transfers: 5 back ends, 8 alignments, 19 lengths around each boundary, one failing access, two threads on neighbouring bytes where one lock guards both (OFS, DE10) and on neighbouring lines on PAC, two callers of the msgDMA driver in one process and in two; 116,448 states | inferences stay apart, pipelines of graphs whose directions agree stay inside their buffer, the allocator implements `MemoryRegions`; bytes exact where one lock guards what calls share, calls return wherever callers meet |
| `Runtime` | mailbox: 2 requests, 2 pings, IDs modulo 3, 2 polls, a crash, reliable and unreliable sessions; completion: 2 instances, 4 jobs on registers of 5 values that start at 2 and wrap, both builds, timeouts, cancellation, 3 licensed jobs; 429,800 states | reliable sessions implement `RequestService`, every call returns in all of them; a wait means done, every wait returns |
| `Device` | one device of 3 MMDs, 2 opens that fail anywhere, 2 jobs, a job left over; or 5 MMDs, 2 clients, 2 boards, 3 devices made, 1 write anywhere; 167,625 states | calls reach their board, registration is safe, completions are seen, closing ends |
| `De10` | board: both systems, SOF, PR and JTAG builds, 8 packages, unusable and several boards, 3 attempts, 4 calls; DMA: pages of 2, tables of 2, blocks of up to three tables and a bit at both alignments; rings of 3 with 3 words per opening, opened twice, with and without a transfer; 696,487 states | success means programmed, never killed half way, interrupts served; DMA inside pinned memory, whole transfers, ring order, calls return |
| `Benchmark` | 1 to 3 graphs, up to 3 requests, 3 to 5 iterations, inputs of 2 chunks through a FIFO of one; every refused command line; failing inferences; four small YOLO outputs, also of two graphs in batches of two against their ground truth; 52,266 states | outputs in place, reports true, the program ends |
| `Demo` | 12 sources, 3 requests, 4 frames, failing inferences; 36,109 states | frames rendered in order, source followed, the demo ends |
| `Spatial` | 13 scenarios: bursts of 2, host buffers of 4, windows of 4 beats, 2 requests, 2 sessions, 2 failing calls; geometries that fill, straddle and exceed a transfer, elements up to 63 bits; 12,582 states | layout, weights, outputs, buffers, every inference returns |
| `Apps` | 2 requests, up to 3 images of 6 kinds of file, 2 runs, 2 signals, 1 failure; 227,117 states | pixels in place, results in order, both programs end |

Three more runs show where the code does not do what its comments say; each is
a finding in `PROJECT.json`.

| Run | Property that fails | What happens |
|---|---|---|
| `DlaFirstWrap` | `WaitMeansDone` | the register is at its last value when the device is opened; its wrap is not seen, as `prevCount` starts at 0, and later waits return before their job is done (`coredla_device.cpp:67`) |
| `TransferThreads` | `EveryTransferExact` | PAC's reading and writing `mmd_dma` have a mutex and a cached page each, and one window between them (`ccip_mmd_device.cpp:310`): a read moves it under a write |
| `AppsPalette` | `PixelsInPlace` | one entry of a palette of four is read (`bmp_file.cpp:88`) |

`Memory`, `Runtime`, `Device` and `De10` explore two modules side by side: a
behaviour belongs to one of them (`part`) and the other stays where it starts,
or in `Device` where its process has ended, so that no state of one is
multiplied by the other's.

In the stream session the host sends only `ScheduleItem` messages once capture
runs: a host thread that queries the status without pause may keep the mailbox
busy for ever, and then `EveryRequestServed` does not hold. The session with
faults has the queries.

`CHECK_DEADLOCK FALSE` is used where a program ends or a bounded number of
jobs, requests or loads is used up. `Stream`, `Device` and `Memory` check for
deadlock.

### Fairness

All of it is weak fairness, of steps that the code or the hardware takes by
itself; nothing is assumed of users, callers and faults.

* `StreamFrames`: the event loop is `while (true)`; interrupts are enabled; the
  video source keeps sending, the DLA finishes its jobs and the host resubmits
  finished requests.
* `Mailbox`: the thread in a command and the firmware are scheduled. Nothing is
  assumed of callers, and the firmware may stop.
* `DlaCompletion`: the interrupt thread and the waiting threads are scheduled
  and started jobs finish.
* `DeviceLifecycle`: the interrupt thread is scheduled, UIO delivers a level
  interrupt, constructors and destructors that have begun go on. OPAE events may
  be lost.
* `Transfers`: threads in a call and the DMA engines run. `PcieDma`: caller,
  worker, helpers, engine, the channel IP and its user.
* `De10Board`: a call goes on, an interrupt is raised and served.
* `Benchmark`, `DemoPipeline`, `StreamingApps`: the main threads, the worker
  threads, requests and callbacks run.
* `SpatialHost`: the client, its requests, and the board's reads, writes,
  ingress and egress.

### Edges of the guarantees

The properties hold under the constants of the configurations and the
conditions written in them. Each condition below is needed; where a constant is
named, TLC finds the violation when it is changed.

| Change or case | What fails | Because |
|---|---|---|
| `Stream`, `NumJobs = 2` | `BufferNeverShared` | a ring of two is full as soon as both jobs are scheduled, and the frame is both dropped and scheduled (`stream_controller.c:346`) |
| `Stream`, `RequestCountWraps = TRUE` | `BufferNeverShared`, `RestartRecovers` | a wrapped request counter comes to the size of the ring again and starts capture twice (`stream_controller.c:355`) |
| a restart during capture | `BufferNeverShared` | descriptors and inferences of the old host are under way; the next completion arms the msgDMA at address 0 (`stream_controller.c:522`) |
| a restart that asks for another size | `RestartRecovers` | a rejected `Initialize` is acknowledged like an accepted one |
| a restarted host's first Ping | (status) | it is reported as a bad sequence; only `Initialize` resynchronises |
| `Memory`, `RetryAfterFailedGrowth = TRUE` | `ImplementsRegions` | a failed growth has already raised the top, so the same request then succeeds (`device_memory_allocator.cpp:31`) |
| a graph of two pipelines that streams one way only | `BatchJobsInsideBuffer` without `StreamsAlike` | the buffer counts the directions that are not streamed, the offsets of its pipelines both (`coredla_graph_job.cpp:234`, `:294`) |
| an unreliable mailbox session | `ImplementsService` | a message the host gave up on is overwritten while it is read, and handled twice; a stale reply answers the next host |
| `Runtime`, `MagicNumber = 2` | `ImplementsService` | a sequence ID equal to the magic number acknowledges itself |
| a wait that timed out, was cancelled or met the license limit; a wrapped register in the polling build | `WaitMeansDone` | `jobsWaited_` and the count no longer agree: a late completion ends the next job's wait (`coredla_device.cpp:334`) |
| a register about to wrap when the device is opened | `WaitMeansDone` (run `DlaFirstWrap`) | `prevCount` starts at 0 whatever the register holds when the device is opened, so a wrap before the first interrupt is missed |
| HPS in `IsrRegistrationSafe` | the routine may be called with NULL data, and the constructor may take a count back | a job left over by an earlier process interrupts between the two stores (`coredla_device.cpp:159`) |
| PAC in `CompletionsSeen` | no completion is seen | the thread starts before its event exists and may have ended (`kernel_interrupt.cpp:105`) |
| streamed output, `WaitForDla` throws | `BenchmarkEnds` | the ostream mutex stays locked (`coredla_batch_job.cpp:170`) |
| a transfer whose error status the code drops | `TransfersExact` | PAC drops the result of an unaligned head, OFS and DE10 those of register accesses in release builds |
| a reading and a writing thread on PAC | `EveryTransferExact` (run `TransferThreads`) | a lock for each direction, one window for both |
| two threads on the HPS platform (`TransferThreads` with `HpsThreads`) | `EveryTransferExact` | a thread seeks between another's seek and its read or write (`hps_platform/host/dma_device.cpp:75`) |
| two processes on the HPS driver | `EveryTransferExact` | the channel's address is one process's and the descriptor the other's; one terminates what the other submitted (`msgdma_userio_chr.c:254`) |
| `Spatial`, elements of 64 bits | `LayoutMatchesBus` | `1ULL << 64` is undefined: with an empty mask nothing is packed over what the packet held, and zeros are unpacked (`mmd.cpp:452`, `:492`) |
| a palette | `PixelsInPlace` (run `AppsPalette`) | a quarter of its bytes is read (`bmp_file.cpp:88`) |
| padded lines of 8, 16 or 24 bits | `PixelsInPlace` | the converters take lines to follow one another without padding, or the padding to be a whole pixel (`bmp_file.cpp:107`, `:223`, `:260`) |
| a 16-bit file without the size of its image, or one of 1 bit | `PixelsInPlace` | the stride is taken from `_sizeImage` (`bmp_file.cpp:125`, `:157`), and a 1-bit line begins by skipping a byte |
| average precision of graphs with images of different sizes (`Benchmark` with `SizesScenarios`) | `ReportedAsRun` | `source_image_sizes` is never cleared, so the boxes of the second graph are scaled by the images of the first (`average_precision.cpp:286`, `:839`) |
| several boards on JTAG, cable not detected | `SuccessMeansProgrammed` | the default cable may be another board's |
| a failed inference in the demos | `DemoEnds` through abort | `~AsyncPipeline` waits and rethrows during unwinding |
| a weights file of `MaxHostMem + 1` beats | `DmaInsideHeldBuffers` | its last one-beat chunk is read with the burst length of the previous one |
| Ctrl-C on `image_streaming_app`, or on the other before its wait | `StreamingEnds` | the handlers notify without a predicate (`streaming_inference_app.cpp:417`) |

Further observations made while modelling, which no property states:

* **Handles.** `get_info` on a stale handle returns 0 with its answer unset (PAC,
  OFS, streaming); HPS's `dla_is_stream_controller_valid` answers true for an
  unknown handle (`acl_hps.cpp:456`); PAC keeps a failed enumeration for the
  life of the process; a second client's interrupt handler replaces the first's;
  OFS's error in the number of boards becomes an unsigned −1; a failed
  reconfiguration leaves the network half loaded; handles wrap at `INT_MAX`.
* **Devices.** `isrData_` is declared after `mmdWrapper_` and so destroyed
  first; some constructors delete twice on failure (`ccip_mmd_device.cpp:313`,
  `ofs_pcie/host/mmd_device.cpp:179`); `bValid |=` accepts a device without its
  interrupt thread; `return false` is success in OFS's `get_or_create`.
* **Transfers.** The kernel driver refuses a transfer that touches the last
  bytes, leaks its pages when mapping fails, and accepts fewer pinned pages than
  asked for.
* **PcieDma.** `hostch_thread_sync` can leave a channel unserved when the loop
  counter ends as a transfer starts; pointers are not reset by `hostch_create`;
  `read_write` returns −1 with `m_idle` false when the semaphore is busy.
* **De10Board.** On Windows the ignored Ctrl-C is not restored and interrupts
  disabled before reprogramming stay so; the unmask of an interrupt service can
  undo `disable_interrupts`; Ctrl-C between delete and erase deletes twice; a
  throwing PR leaves `m_being_programmed` set; the wait for the end of a PR is
  unbounded.
* **Benchmark.** An automatic number of requests is rejected; an unreadable
  image shifts the following ones; an answer of system-console after a timeout
  is taken for the next command's; the boundaries file is wrong for batches
  larger than one; classes without ground truth are left out of the mean; of
  graphs called net, net_1 and net the third shares the directory of the second,
  as the name with the suffix is not looked up (`main.cpp:1206`).
* **Spatial.** A second import overwrites the port configuration of the first;
  a session leaks when the constructor throws after connecting; a subvector
  wider than the bus divides by zero; OFS polls without bound.
* **Applications.** `-rate=0` divides by zero; an `.lt` file dereferences NULL;
  an invalid image counts as sent; a spurious wake-up ends the application.

## Proofs

What follows holds for every value of the constants that satisfies the named
assumptions of the modules (`...Assumption`: positive sizes and the like) and
the hypotheses given here. Each invariant was checked with TLC on small
instances before it was proved.

`StreamFramesProofs` (firmware)

* `TypeCorrect`: `Spec => []TypeOK` for all constants, including restarts,
  debug commands, wraps and driver errors. `TypeOK` says that the job pointers
  are not NULL once the ring exists. That no handler dereferences NULL before
  needs `Startup`: until the first `Initialize` is handled no descriptor has
  been armed and no other request is in the mailbox.
* `FirstTwoAreScheduled`, `BuffersNeverShared`, `CaptureIsSingle`,
  `StallsAreReported`: for every drop setting and drivers that may refuse, under
  `StreamingUse`: a ring of three or more jobs, fewer than 2^32 requests, a
  debug buffer outside the ring (together `RingUse`), hosts that stream and may
  be replaced before capture starts by one that asks for the same ring. The
  table of edges above shows why the conditions are there. None of the four is
  inductive. `StreamInv` adds that the host is in step with the ring
  (`HostInStep`), that nothing happens before the ring is full of requests
  (`NotStarted`) and a restart leaves nothing behind (`CleanStart`), that the
  captured jobs are a window of the ring from the next job to recycle to the
  job being filled, of which the first two are scheduled and in the DLA's FIFO
  in that order (`Window`), and that at most one capture, interrupt or
  unhandled count exists (`OneCapture`). Buffers are then never shared because
  the job being filled is outside the window. The steps are proved under
  `StreamingStep`, a condition on one step, so that the sessions of
  `StreamFrames` can use them.

`StreamFramesProofs` (sessions and frames)

* `RingLeftAlone`: `FSpec => []DebugLeavesRingAlone`, without hypotheses.
  `DebugInv`: who debugs never has the ring's own size in `hostSize` once there
  is a ring, so `Initialize` is refused from then on; no request is counted; the
  hardware holds debug buffers only; and a completion the loop has not yet seen
  finds `_debugJob` as the job being filled, which is why `NewSourceBuffer`
  does not advance.
* `SessionsNeverShare`, `SessionsReportStalls`, `RestartsRecover`: under
  `RingUse`, for every session. A session that debugs takes captures and
  inferences in turn (`DebugInTurn`); the others keep `StreamInv`.
* `CaptureOrderKept`: under `RingUse`. `FrameInv` ties the history of captured
  frames to the ring: they are the buffers of the window's jobs from the first
  unfinished inference on, in ring order, and one more when the buffer being
  filled holds a complete frame (a capture that the loop has not seen, or one
  that it dropped). The FIFO is a prefix of that list by `Window`.

`MailboxProofs`

* `MailInvariant` and `MailboxImplementsService`: as long as no sequence ID in
  use equals the magic number (`NoMagicID`), for any number of requests and
  pings and any width of the IDs. The invariant lists the phases of a command
  (`Preparing`, `Awaiting`, `Replying`): which words of the two areas, which
  reading of the firmware and which step of the host go together.
  `Accounted` relates what was handled to what was answered. It is proved for
  reliable sessions only; the service promises nothing else.
* `ShortSessionImplementsService`: replaces `NoMagicID` by a condition on the
  constants, fewer messages than `MagicNumber`. In the code that is 0x55225522 =
  1428313378 messages. The proof counts the commands begun (`Counted`) with the
  cardinality of the set of requests taken.

`RuntimeProofs` (completion of inferences)

* `WaitsMeanDone`, from `CompletionInvariant`: both builds, any width of the
  register, any number of jobs, under `FirstWrapIsSeen`: in the interrupt build
  the register does not wrap before the first interrupt, because at opening it
  is at least `MaxOutstanding` below its last value. The OFS and AGX5 designs
  fulfil this by the reset before opening (`coredla_device.cpp:107-124`); the
  others only if fewer than 2^32 - `MaxOutstanding` jobs ran since power-on. The
  run `DlaFirstWrap` shows that it is necessary. The invariant: the ISR's
  extension of the register is behind the real count by less than a turn, which
  is why one comparison with `prevCount` detects every later wrap, and jobs
  waited for, published and finished stay in this order. The polling build needs
  no hypothesis: the register is used as it is, so the order holds until the
  jobs waited for reach its width, as `WaitMeansDone` says.

`RuntimeProofs` (allocator and graph jobs)

* `BuffersDisjoint`, `SharedStaysBelow`, `AllocatorImplementsRegions`: for every
  size of memory and all sets of sizes and alignments, while callers give up
  after a failed growth. `DdrInv` says that every private buffer is at or above
  `startAddress` and that what was granted of the shared buffer is below it.
* `GraphInvariant`, `GraphsImplementRegions`: the same callers
  (`RetryAfterFailedGrowth = FALSE`), any graphs. `JobsInv` says that each graph
  job's buffers are still allocated and belong to it alone, including the ones
  of a job under construction.
* `BatchJobsInside`, `InferencesNeverCollide`: the same callers, any graphs. The
  properties speak of the graphs whose directions agree, both streamed or
  neither; graphs that stream one way may be loaded beside them, but where their
  own pipelines lie is not claimed. Slots of one buffer do
  not overlap by arithmetic on the stride; slots of two graphs because their
  buffers are two private buffers.

`PcieDmaProofs`

* `EngineTouchesPinned`, `TransferIsExact`, from `TransferInvariant`: no
  hypotheses. `TransferInv` rests on pages: a segment that does not end the
  block fills the table exactly (`LockSize` rounds it to a page boundary), so
  every round of descriptors starts at entry 0 and `send_dma_desc` never points
  the engine at an old entry. The segments pinned ahead, in use, finished and
  being unpinned are contiguous parts of the block, distinct, and are all that
  is pinned (`Ahead`, `Behind`, `Held`); the descriptors are about consecutive
  pages of the segment in use (`Descriptors`), and what was moved are the
  block's bytes up to the last executed one (`Sending`). The scheduling of the
  helper threads is free: `pinWork` and `unpinWork` are awaited where the code
  joins them.
* `RingsStayIntact`, from `RingInvariant`: no hypotheses, every size of ring,
  any number of words and openings. `RingInv` orders the IP's pointer, the limit
  it was told and the user's pointer around the ring, by their distances
  (`Gap`); a buffer in the user's hands fits in front of its pointer without
  wrapping (`UserHolds`); the words in between are the next ones, also while
  some are written or read and not yet acknowledged. A stale limit is harmless
  because both pointers only move on.

`De10BoardProofs`

* `ProgrammedWhenSuccessful`, `CtrlCWaits`, from `BoardInvariant`: no
  hypotheses; every set of scenarios, any number of calls and of attempts.
  Neither property is inductive: success is reported steps after the image was
  written, and the flag that keeps Ctrl-C away was set steps before. `BoardInv`
  therefore says for every place in the call what it relies on: which build can
  be there (`Builds`), what is on the board once PR or `quartus_pgm` is taken to
  have succeeded (`PrProgress`, `PgmProgress`) and as long as "ok" may still be
  returned (`Succeeded`), that the device is being programmed or Ctrl-C is
  ignored (`Guarded`), and that saved registers are being held for another
  process or are about to be restored (`Saved`).

`DeviceProofs`

* `RegistrationIsSafe`, from `RegisterInvariant`: no hypotheses, all three back
  ends, any number of jobs, processes and lost events. A step cannot be judged
  alone: whether the thread may call the routine was decided several steps
  earlier, by another thread. `RegisterInv` therefore says, for every point of
  opening and constructing, what the thread can have found. On PAC an event
  needs a job that completes, and the jobs of earlier processes were reset when
  the device was opened (`Quiet`, `PacEvents`); on OFS the routine and its
  argument are stored under one mutex; so who calls the routine has its argument
  (`Arguments`). The constructor takes back no count because no job completes
  between its reading and its storing (`Quiet`, `Counts`). HPS is left out, for
  the reason in the table of edges.
* `CallsReachBoards`, from `MapInvariant`: any number of clients, boards,
  handles, writes, and all sizes of the address spaces. `CallsReachTheirBoard`
  speaks of one call's answer; `MapInv` says why the answer is right: a handle
  stands for the board it was opened for as long as it is in the map (`Handed`),
  a board found by its id is the one the device was made for (`Identified`), an
  interrupt goes to who registered last and still has the handle (`Delivered`),
  and the words of the two instances of a board are in different places
  (`Placed`, which rests on the arithmetic of the raw addresses, `RawFacts`).
  `Owned` is needed for the DE10 MMD: it makes a new device for each open, so
  that one client's close cannot take away another's handle.

`DemoPipelineProofs`

* `EveryFrameIsRendered`, from `DemoInvariant`: no hypotheses; every source, any
  number of requests and frames, the user may quit and inferences may fail at
  any time. `DemoInv` follows each frame: a request runs a frame of its own that
  has no result yet (`OneFrameEach`); no frame from the one asked for next on is
  lost (`NoneLost`); what was shown are the frames before it (`ShownBefore`).
  That all are shown at the end needs `Winding`: waitForTotalCompletion has
  found every request free before the rest is rendered, so that no result there
  means no frame left. What the rendered tensors hold is not part of it: the
  callback frees the request with its result, so that its next frame may
  overwrite them before they are postprocessed.

`StreamingAppsProofs`

* `ResultsInOrder`, from `ResultInvariant`: any number of requests, frames and
  runs, Ctrl-C at any time. `ResultsFollowImages` relates what was printed to
  what was captured; between the two a frame goes through the plugin's queues,
  a request and a callback. `ResultInv` says where each is: a request is
  scheduled, running, completed or in its callback, once (`OnePlace`), which is
  why a tensor is not overwritten before it is read; what was captured is what
  was printed, is being read, completed or running, in that order, until Ctrl-C
  (`Order`); no queue survives the end of the process and no Ctrl-C the end of
  its run (`Quiet`); and the file holds the first results (`Filed`).

Only model-checked:

* everything under fairness and `ENABLED` (liveness is outside the prover);
* what is computed over sequences of data by folds, `SelectSeq` or `FlattenSeq`,
  which would need induction over data: `TransfersExact`, `OutputsInPlace`,
  `ReportedAsRun`, `FramesFollowSource`, `LayoutMatchesBus`, `WeightsInPlace`,
  `InferenceReturnsItsOutputs` and `PixelsInPlace`, and the operators they
  speak of (`Accuracy`, `BenchmarkReport`, `SpatialPacking`, `StreamImages`);
* `DmaInsideHeldBuffers`, for the same reason: that the reads of a call are over
  when its buffers go rests on the sum of the bursts of its plan.

## Not modelled

* What a failing register access returns in a release build, the CSR logger,
  the DLA debug network, performance counters, the DDR self-test, compiled-graph
  hash and version checks; formatting and logging.
* PAC's work thread for asynchronous requests, which the runtime never uses;
  FPGA-to-FPGA copies; MSI mode of the DE10 DMA; the driver's probe and remove;
  discovery of device nodes.
* OPAE, dmaengine, Quartus, System Console and OpenVINO: external, modelled by
  what the code relies on.
* In the benchmark, reading of image formats and profiling; a dump that throws
  is all or nothing. In the streaming applications, the programming of the
  layout transform, the UIO device and half precision.
* The AOT splitter, the demos' pre- and post-processing, monitors, Python
  runtime, build scripts, RTL and generated IP.

## Plan

1. Done: firmware, mailbox, completion, allocator, graph jobs; first theorems.
2. Done: MMD back ends (devices, handles, transfers, DMA engine, board), the
   kernel driver, benchmark, demos, streaming applications, spatial hosts.
3. Done: proofs for the firmware with its sessions, the mailbox, completion, the
   allocator, graph jobs, the DMA engine with its rings, the DE10 board, the
   registration of interrupts, handles and boards, the demo pipeline and the
   results of the streaming applications. Left: the parts of `TransfersExact`
   and `DmaInsideHeldBuffers` that do not depend on sums over data.
4. The composition of `Mailbox` with `StreamController`, for requests lost to
   the busy flag (`coredla_batch_job.cpp:112` ignores the result).
