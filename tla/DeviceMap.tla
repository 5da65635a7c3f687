------------------------------ MODULE DeviceMap ------------------------------
(***************************************************************************)
(* The MMD interface above the devices: handles, the maps behind them and  *)
(* the dispatch of every call, in one process with several clients (an     *)
(* MmdWrapper each).  Five MMDs implement it:                              *)
(*   "pac", "ofs", "stream"  one device per board, shared by its clients;  *)
(*                           a board is found by its id                    *)
(*   "hps", "de10"           one device per call of aocl_mmd_open          *)
(* A device is named by the handle it was given: no two have the same.     *)
(* Calls are atomic here; Transfers and Benchmark look inside them.        *)
(***************************************************************************)
EXTENDS Integers, Sequences

CONSTANTS
    Platforms, Clients, Boards,
    CsrSize,       \* DLA_CSR_SIZE, in registers
    DdrSize,       \* dla_mmd_get_ddr_size_per_instance, in words
    BeatBytes,     \* AXI_STREAM_DATA_WIDTH_BYTES
    Shapes,        \* output sizes considered, in elements
    ClockRetries,  \* clockFreqRetries
    MaxHandles,    \* bound: devices constructed
    MaxWrites      \* bound: writes

ASSUME DeviceMapAssumption ==
    /\ Platforms \subseteq {"hps", "pac", "ofs", "stream", "de10"}
    /\ {CsrSize, DdrSize, BeatBytes, MaxHandles} \subseteq Nat \ {0}
    /\ {ClockRetries, MaxWrites} \subseteq Nat
    /\ BeatBytes % 2 = 0 /\ Shapes \subseteq Nat
    /\ Boards # {}

VARIABLES
    platform, manager, offline,            \* the MMD; its map; pac's names
    nextHandle, entries, idMap,            \* handle_to_dev_map, id_to_handle_map
    boardOf, handler,                      \* the device objects
    client, got,                           \* the wrappers; what a call just answered
    store, expect, writes,                 \* the boards; what was written
    streamer                               \* the state of the streaming Device

mapVars == <<nextHandle, entries, idMap, boardOf, handler>>
boardVars == <<store, expect, writes, streamer>>
mmdVars == <<platform, manager, offline, mapVars, client, got, boardVars>>

Handles == 1 .. MaxHandles
Shared == platform \in {"pac", "ofs", "stream"}
Spaces == {"csr", "ddr"}
NoId == 0
\* What a call returns: an error, or an answer that is the one expected or not.
NoAnswer == [status |-> -1, right |-> FALSE]
Answer(value, expected) == [status |-> 0, right |-> value = expected]

\* dla_mmd_get_max_num_instances; two stand for the four of ofs and de10.
NumInstances == IF platform \in {"hps", "stream"} THEN 1 ELSE 2
Instances == 0 .. NumInstances - 1
Size(space) == IF space = "csr" THEN CsrSize ELSE DdrSize
Raws(space) == 0 .. 4 * Size(space) - 1
Places(space) == (0 .. 1) \X (0 .. Size(space) - 1)

-----------------------------------------------------------------------------
(* Where an instance's registers and memory are (dla_get_raw_csr_address,  *)
(* dla_get_raw_ddr_address), up to the base of the CSRs.                   *)

HpsRaw(space, i, addr) == IF space = "csr" THEN 2 * CsrSize * i + addr ELSE addr
PacRaw(space, i, addr) == IF space = "csr" THEN 2 * CsrSize * i + addr
                          ELSE DdrSize * i + addr
OfsRaw(space, i, addr) == IF space = "csr" THEN CsrSize * i + addr
                          ELSE 2 * DdrSize * i + addr
De10Raw(space, i, addr) == IF space = "csr" THEN 2 * CsrSize * i + addr
                           ELSE 2 * DdrSize * i + addr
\* The streaming MMD has one CSR block and cuts DDR addresses to 32 bits.
StreamRaw(space, i, addr) == IF space = "csr" THEN addr
                             ELSE (2 * DdrSize * i + addr) % DdrSize
Raw(space, i, addr) ==
    CASE platform = "hps"    -> HpsRaw(space, i, addr)
      [] platform = "pac"    -> PacRaw(space, i, addr)
      [] platform = "ofs"    -> OfsRaw(space, i, addr)
      [] platform = "de10"   -> De10Raw(space, i, addr)
      [] platform = "stream" -> StreamRaw(space, i, addr)

-----------------------------------------------------------------------------
(* The maps.                                                               *)

NoClient == [pc |-> "out", board |-> NoId, handle |-> NoId, tries |-> 0]
NoStreamer == [fifo |-> FALSE, shape |-> 0, staged |-> 0, ready |-> FALSE, net |-> "old"]

\* A process that has opened nothing.
NothingOpen ==
    /\ platform \in Platforms /\ offline = "unset"
    /\ nextHandle = 1 /\ entries = {} /\ idMap = [b \in Boards |-> NoId]
    /\ boardOf = [h \in Handles |-> NoId] /\ handler = [h \in Handles |-> NoId]
    /\ client = [c \in Clients |-> NoClient] /\ got = NoAnswer
    /\ store = [b \in Boards |-> [s \in Spaces |-> [r \in Raws(s) |-> 0]]]
    /\ expect = [b \in Boards |-> [s \in Spaces |-> [p \in Places(s) |-> 0]]]
    /\ writes = 0 /\ streamer = NoStreamer

MapInit == NothingOpen /\ manager = "up"

\* device_from_handle, get_device, get_pcie_device: whether a handle is known.
Found(c) == client[c].handle \in entries

\* id_from_name, handle_from_id: the handle under which a board is open.
HandleOf(b) == idMap[b]

\* Variant with a mistake: handles are counted from the open devices.
NewHandleCounted == 1 + (IF entries = {} THEN 0 ELSE
                         CHOOSE n \in Handles : \E f \in [entries -> 1 .. n] :
                             \A x, y \in entries : x # y => f[x] # f[y])

\* The number of the next device object; failed ones use one up as well.
NewHandle == nextHandle

\* The boards: hps looks for one, ofs and stream know one.
BoardNames == IF platform \in {"pac", "de10"} THEN Boards ELSE {CHOOSE b \in Boards : TRUE}

\* fpgaEnumerate and what precedes it succeed, or one of them fails.
PacEnumerate == {"ok", "failed"}
\* ls /sys/class/aclpci_*, unless the environment says how many there are.
De10NumBoards == 0 .. 1

\* aocl_mmd_get_offline_info for the board names.  pac asks OPAE once and keeps
\* the answer for the life of the process; hps and de10 look each time and may
\* find no board, which is an empty name; the other two have a fixed name.
HpsNames == {"ok", "none"}
PacNames == IF offline = "unset" THEN PacEnumerate ELSE {offline}
OfsNames == {"ok"}
StreamNames == {"ok"}
De10Names == {IF n = 0 THEN "none" ELSE "ok" : n \in De10NumBoards}
Names == CASE platform = "hps"    -> HpsNames
           [] platform = "pac"    -> PacNames
           [] platform = "ofs"    -> OfsNames
           [] platform = "stream" -> StreamNames
           [] platform = "de10"   -> De10Names

\* The first call of MmdWrapper's constructor, which throws if it fails.
GetOfflineInfo(c) ==
    /\ client[c].pc = "out" /\ manager = "up" /\ nextHandle <= MaxHandles
    /\ \E names \in Names, b \in BoardNames :
          /\ offline' = IF platform = "pac" THEN names ELSE offline
          /\ client' = [client EXCEPT ![c] =
                IF names = "failed" THEN NoClient
                ELSE [NoClient EXCEPT !.pc = IF names = "ok" THEN "open" ELSE "openNone",
                                      !.board = b]]
    /\ got' = NoAnswer
    /\ UNCHANGED <<platform, manager, mapVars, boardVars>>

\* A name that cannot be parsed is refused before a device is made (de10), or
\* makes a device that is not valid (hps, which uses up a handle).
OpenNone(c) ==
    /\ client[c].pc = "openNone" /\ manager = "up" /\ nextHandle <= MaxHandles
    /\ nextHandle' = IF platform = "hps" THEN nextHandle + 1 ELSE nextHandle
    /\ client' = [client EXCEPT ![c] = NoClient] /\ got' = NoAnswer
    /\ UNCHANGED <<platform, manager, offline, entries, idMap, boardOf, handler, boardVars>>

-----------------------------------------------------------------------------
(* aocl_mmd_open.                                                          *)

Opening(c, p) ==
    /\ platform = p /\ client[c].pc = "open" /\ manager = "up"
    /\ got' = NoAnswer
    /\ UNCHANGED <<platform, manager, offline, store, expect, writes>>

\* What the wrapper's constructor makes of the result.
Opened(c, h) == client' = [client EXCEPT ![c].pc = "clock", ![c].handle = h]
OpenFailed(c) == client' = [client EXCEPT ![c] = NoClient]

\* A device is made and enters the map; a constructor that throws, or a device
\* that is not valid, uses up a handle all the same.
Enter(h, b) ==
    /\ nextHandle <= MaxHandles /\ nextHandle' = nextHandle + 1
    /\ entries' = entries \cup {h}
    /\ boardOf' = [boardOf EXCEPT ![h] = b]
    /\ handler' = [handler EXCEPT ![h] = NoId]
    /\ idMap' = IF Shared THEN [idMap EXCEPT ![b] = h] ELSE idMap
NotMade ==
    /\ nextHandle <= MaxHandles /\ nextHandle' = nextHandle + 1
    /\ UNCHANGED <<entries, idMap, boardOf, handler>>

\* add_device: each open has a device of its own.
HpsOpen(c) ==
    /\ Opening(c, "hps") /\ UNCHANGED streamer
    /\ \/ Enter(NewHandle, client[c].board) /\ Opened(c, NewHandle)
       \/ NotMade /\ OpenFailed(c)

\* A device that failed its test stays in the map, for reprogramming, but the
\* wrapper is given ~unique_id, a negative number.
De10Open(c) ==
    /\ Opening(c, "de10") /\ UNCHANGED streamer
    /\ \/ Enter(NewHandle, client[c].board) /\ (Opened(c, NewHandle) \/ OpenFailed(c))
       \/ NotMade /\ OpenFailed(c)

\* get_or_create_device, then bsp_loaded and initialize_bsp: a device that
\* fails those stays in the map, to be tried again by the next open.
PacOpen(c) ==
    /\ Opening(c, "pac") /\ UNCHANGED streamer
    /\ \E b \in {client[c].board} :
          IF HandleOf(b) = NoId
          THEN \/ Enter(NewHandle, b) /\ (Opened(c, NewHandle) \/ OpenFailed(c))
               \/ NotMade /\ OpenFailed(c)
          ELSE (Opened(c, HandleOf(b)) \/ OpenFailed(c)) /\ UNCHANGED mapVars

\* The same with asp_loaded and initialize_asp.
OfsOpen(c) ==
    /\ Opening(c, "ofs") /\ UNCHANGED streamer
    /\ \E b \in {client[c].board} :
          IF HandleOf(b) = NoId
          THEN \/ Enter(NewHandle, b) /\ (Opened(c, NewHandle) \/ OpenFailed(c))
               \/ NotMade /\ OpenFailed(c)
          ELSE (Opened(c, HandleOf(b)) \/ OpenFailed(c)) /\ UNCHANGED mapVars

\* Device::Device: the core is reset and set to accept input; the new object
\* has no FIFO and no output shape.
StreamDevice == streamer' = [NoStreamer EXCEPT !.ready = TRUE, !.net = streamer.net]

\* The streaming MMD opens a device that is in the map without a check.
StreamOpen(c) ==
    /\ Opening(c, "stream")
    /\ \E b \in {client[c].board} :
          IF HandleOf(b) = NoId
          THEN \/ Enter(NewHandle, b) /\ Opened(c, NewHandle) /\ StreamDevice
               \/ NotMade /\ OpenFailed(c) /\ UNCHANGED streamer
          ELSE Opened(c, HandleOf(b)) /\ UNCHANGED <<mapVars, streamer>>

\* ccip_mmd_bsp_loaded, mmd_asp_loaded: a board that is not open is looked at
\* through a device that lives as long as the call.
Loaded ==
    /\ manager = "up" /\ nextHandle <= MaxHandles
    /\ \E b \in BoardNames : HandleOf(b) = NoId
    /\ nextHandle' = nextHandle + 1 /\ got' = NoAnswer
    /\ UNCHANGED <<platform, manager, offline, entries, idMap, boardOf, handler,
                   client, boardVars>>
BspLoaded == platform = "pac" /\ Loaded
AspLoaded == platform = "ofs" /\ Loaded

-----------------------------------------------------------------------------
(* The rest of the constructors of MmdWrapper and CoreDlaDevice.           *)

\* What dla_mmd_get_coredla_clock_freq may answer.  hps says a constant; the
\* others start, stop and read a counter, which gives 0 now and then, and
\* always when the device is gone.  The streaming device may throw.
HpsClock(c) == {"nonzero"}
PacClock(c) == IF Found(c) THEN {"zero", "nonzero"} ELSE {"zero"}
OfsClock(c) == IF Found(c) THEN {"zero", "nonzero"} ELSE {"zero"}
De10Clock(c) == {"zero", "nonzero"}
StreamClock(c) == IF Found(c) THEN {"zero", "nonzero", "throws"} ELSE {"zero"}
Clock(c) == CASE platform = "hps"    -> HpsClock(c)
              [] platform = "pac"    -> PacClock(c)
              [] platform = "ofs"    -> OfsClock(c)
              [] platform = "stream" -> StreamClock(c)
              [] platform = "de10"   -> De10Clock(c)

\* MmdWrapper's constructor tries again while it is told 0, then goes on.  One
\* that throws leaves the device open, with nobody to close it.
MeasureClock(c) ==
    /\ client[c].pc = "clock" /\ manager = "up" /\ got' = NoAnswer
    /\ \E clock \in Clock(c) :
          client' = [client EXCEPT ![c] =
              IF clock = "throws" THEN NoClient
              ELSE IF clock = "nonzero" \/ client[c].tries = ClockRetries
              THEN [client[c] EXCEPT !.pc = "register", !.tries = 0]
              ELSE [client[c] EXCEPT !.tries = client[c].tries + 1]]
    /\ UNCHANGED <<platform, manager, offline, mapVars, boardVars>>

\* aocl_mmd_set_interrupt_handler by CoreDlaDevice's constructor, which throws
\* when the device is gone; the streaming build polls.
SetInterruptHandler(c) ==
    /\ client[c].pc = "register" /\ manager = "up" /\ got' = NoAnswer
    /\ IF platform = "stream" \/ Found(c)
       THEN /\ client' = [client EXCEPT ![c].pc = "ready"]
            /\ handler' = IF platform = "stream" THEN handler
                          ELSE [handler EXCEPT ![client[c].handle] = c]
       ELSE client' = [client EXCEPT ![c].pc = "close"] /\ handler' = handler
    /\ UNCHANGED <<platform, manager, offline, nextHandle, entries, idMap, boardOf, boardVars>>

-----------------------------------------------------------------------------
(* Calls through a handle.  hps does not outlive its map's destructor.     *)

Calling(c) == client[c].pc = "ready" /\ (platform = "hps" => manager = "up")
Told(c, answer) ==
    /\ Calling(c) /\ got' = answer
    /\ UNCHANGED <<platform, manager, offline, mapVars, client, boardVars>>

\* WriteToCsr, WriteToDDR: the device of the handle takes the value.  The
\* streaming device may throw after the command took effect or before.
Write(c, space, i, addr) ==
    /\ Calling(c) /\ writes < MaxWrites
    /\ writes' = writes + 1
    /\ \E effect \in IF ~Found(c) THEN {FALSE}
                     ELSE IF platform = "stream" THEN BOOLEAN ELSE {TRUE} :
          IF effect
          THEN /\ store' = [store EXCEPT ![boardOf[client[c].handle]][space]
                                              [Raw(space, i, addr)] = writes']
               /\ expect' = [expect EXCEPT ![client[c].board][space][<<i, addr>>] = writes']
               /\ \/ got' = Answer(0, 0)
                  \/ platform = "stream" /\ got' = NoAnswer
          ELSE got' = NoAnswer /\ UNCHANGED <<store, expect>>
    /\ UNCHANGED <<platform, manager, offline, mapVars, client, streamer>>

\* ReadFromCsr, ReadFromDDR.
Read(c, space, i, addr) ==
    \/ /\ Found(c)
       /\ Told(c, Answer(store[boardOf[client[c].handle]][space][Raw(space, i, addr)],
                         expect[client[c].board][space][<<i, addr>>]))
    \/ ~Found(c) /\ Told(c, NoAnswer)

\* The streaming device throws: dla_mmd_csr_read, dla_mmd_ddr_read say -1.
StreamReadThrows(c) == platform = "stream" /\ Found(c) /\ Told(c, NoAnswer)

\* aocl_mmd_get_info: what each MMD knows of a board.  A handle that is not
\* known is no error for pac, ofs and stream, which leave the answer unset.
Infos == {"board", "unique_id", "host_memory", "sensor", "other"}
Unset == Answer("unset", "unset")
Info(c, id) == IF id = "board" THEN Answer(boardOf[client[c].handle], client[c].board)
               ELSE Answer(id, id)
HpsInfo(c, id) == NoAnswer
PacInfo(c, id) ==
    IF ~Found(c) THEN Unset ELSE IF id \in {"board", "unique_id"} THEN Info(c, id) ELSE NoAnswer
OfsInfo(c, id) ==
    IF ~Found(c) THEN Unset
    ELSE IF id \in {"board", "unique_id", "host_memory"} THEN Info(c, id) ELSE NoAnswer
StreamInfo(c, id) ==
    IF ~Found(c) THEN Unset
    ELSE IF id \in {"board", "unique_id", "host_memory"} THEN Info(c, id) ELSE NoAnswer
De10Info(c, id) == IF id \in {"board", "host_memory", "sensor"} THEN Info(c, id) ELSE NoAnswer
GetInfo(c) ==
    \E id \in Infos :
        Told(c, CASE platform = "hps"    -> HpsInfo(c, id)
                  [] platform = "pac"    -> PacInfo(c, id)
                  [] platform = "ofs"    -> OfsInfo(c, id)
                  [] platform = "stream" -> StreamInfo(c, id)
                  [] platform = "de10"   -> De10Info(c, id))

\* de10's other calls go to the device of the handle (De10Board, PcieDma).
De10Forward(c) ==
    /\ platform = "de10" /\ Found(c)
    /\ Told(c, Answer(boardOf[client[c].handle], client[c].board))

\* hps has none of them.
HpsUnsupported(c) == platform = "hps" /\ Told(c, NoAnswer)

\* dla_is_stream_controller_valid, dla_mmd_stream_controller_write and _read.
HpsStreamController(c) ==
    /\ platform = "hps" /\ Found(c)
    /\ Told(c, Answer(boardOf[client[c].handle], client[c].board))

-----------------------------------------------------------------------------
(* The streaming device.                                                   *)

\* A call of the streaming device: its new state and its answer if all goes
\* well, its state if it throws; a device that is gone, or an exception, is -1.
StreamCall(c, allowed, new, answer, thrown) ==
    /\ platform = "stream" /\ Calling(c)
    /\ \/ Found(c) /\ allowed /\ streamer' = new /\ got' = answer
       \/ Found(c) /\ streamer' = thrown /\ got' = NoAnswer
       \/ ~Found(c) /\ UNCHANGED streamer /\ got' = NoAnswer
    /\ UNCHANGED <<platform, manager, offline, mapVars, client, store, expect, writes>>

\* open_fifo: emplace gives up the reader there was before it opens the file.
InitIStreamFifo(c) ==
    StreamCall(c, TRUE, [streamer EXCEPT !.fifo = TRUE], Answer(0, 0),
               [streamer EXCEPT !.fifo = FALSE])

\* set_output_shape: the bytes of whole beats; no element throws.  A buffer of
\* another size loses what it held.
TotalBytes(valid) == ((valid + BeatBytes - 1) \div BeatBytes) * BeatBytes
SetOutputShape(c) ==
    \E elements \in Shapes :
        LET valid == 2 * elements
        IN  StreamCall(c, valid # 0,
                [streamer EXCEPT !.shape = valid,
                     !.staged = IF TotalBytes(valid) = TotalBytes(streamer.shape)
                                THEN streamer.staged ELSE 0],
                Answer(TotalBytes(valid) % BeatBytes, 0), streamer)

\* dla_mmd_istream; a core that is not initialized takes no input, and the
\* poll of the DMA times out.  Without a FIFO the device must not be called.
Istream(c) ==
    /\ streamer.fifo
    /\ StreamCall(c, streamer.ready, streamer, Answer(0, 0), streamer)

\* dla_mmd_ostream_stream; a transfer that fails half way leaves the buffer
\* with some of the old bytes.
OstreamStream(c) ==
    StreamCall(c, streamer.shape = 0 \/ streamer.ready,
               [streamer EXCEPT !.staged = TotalBytes(streamer.shape)], Answer(0, 0),
               [streamer EXCEPT !.staged = 0])

\* The egress DMA stores each beat last byte first (external); where byte k of
\* the stream is in the buffer.
StagedAt(k) == (k \div BeatBytes) * BeatBytes + BeatBytes - 1 - (k % BeatBytes)

\* get_output_data turns the beats round, two bytes of an element at a time:
\* the byte of the buffer that becomes byte k.
OutputFrom(k) ==
    LET i == (k \div BeatBytes) * BeatBytes + BeatBytes - 2
        j == 2 * ((k % BeatBytes) \div 2)
    IN  IF k % 2 = 0 THEN i - j + 1 ELSE i - j

\* It throws without a shape; the answer is what was staged, if anything was.
OstreamRead(c) ==
    LET bytes == 0 .. streamer.shape - 1
    IN  StreamCall(c, streamer.shape # 0, streamer,
            IF streamer.staged # TotalBytes(streamer.shape) THEN Unset
            ELSE Answer([k \in bytes |-> OutputFrom(k)], [k \in bytes |-> StagedAt(k)]),
            streamer)

\* online_reconfig: reset, three files, each of which may be missing, reset,
\* initialize.  A missing file leaves the network half loaded.
Reconfigured(files) ==
    [streamer EXCEPT
        !.ready = files = 3,
        !.net = CASE files = 3 -> "new" [] files = 0 -> streamer.net [] OTHER -> "part"]
OnlineReconfig(c) ==
    \E files \in 0 .. 2 :
        StreamCall(c, TRUE, Reconfigured(3), Answer(Reconfigured(3).net, "new"),
                   Reconfigured(files))

-----------------------------------------------------------------------------
\* close_device_if_exists, remove_device, discard_pcie_device_handle.
CloseDevice(h) ==
    /\ entries' = entries \ {h}
    /\ boardOf' = [boardOf EXCEPT ![h] = NoId]
    /\ handler' = [handler EXCEPT ![h] = NoId]
    /\ idMap' = [b \in Boards |-> IF idMap[b] = h THEN NoId ELSE idMap[b]]
    /\ UNCHANGED nextHandle

\* ~MmdWrapper: for pac, ofs and stream a handle that is not known is closed.
CloseHandle(c) ==
    /\ client[c].pc \in {"ready", "close"} /\ (platform = "hps" => manager = "up")
    /\ IF Found(c) THEN CloseDevice(client[c].handle) ELSE UNCHANGED mapVars
    /\ client' = [client EXCEPT ![c] = NoClient] /\ got' = NoAnswer
    /\ UNCHANGED <<platform, manager, offline, boardVars>>

\* The process ends: static destructors run before those of static clients.
\* The maps of pac, ofs and stream are emptied and gone, hps destroys its
\* devices with the map; de10 keeps its map on the heap.
Terminate ==
    /\ manager = "up" /\ manager' = "down" /\ got' = NoAnswer
    /\ \A c \in Clients : client[c].pc \in {"out", "ready", "close"}
    /\ IF platform = "de10" THEN UNCHANGED <<entries, idMap, boardOf, handler>>
       ELSE /\ entries' = {} /\ idMap' = [b \in Boards |-> NoId]
            /\ boardOf' = [h \in Handles |-> NoId] /\ handler' = [h \in Handles |-> NoId]
    /\ UNCHANGED <<platform, offline, nextHandle, client, boardVars>>

MapNext ==
    \/ \E c \in Clients :
          \/ GetOfflineInfo(c) \/ OpenNone(c)
          \/ HpsOpen(c) \/ PacOpen(c) \/ OfsOpen(c) \/ StreamOpen(c) \/ De10Open(c)
          \/ MeasureClock(c) \/ SetInterruptHandler(c)
          \/ \E s \in Spaces, i \in Instances : \E addr \in 0 .. Size(s) - 1 :
                Write(c, s, i, addr) \/ Read(c, s, i, addr)
          \/ StreamReadThrows(c) \/ GetInfo(c) \/ De10Forward(c) \/ HpsUnsupported(c)
          \/ HpsStreamController(c) \/ InitIStreamFifo(c) \/ SetOutputShape(c)
          \/ Istream(c) \/ OstreamStream(c) \/ OstreamRead(c) \/ OnlineReconfig(c)
          \/ CloseHandle(c)
    \/ BspLoaded \/ AspLoaded \/ Terminate

MapSpec == MapInit /\ [][MapNext]_mmdVars

-----------------------------------------------------------------------------
\* However often boards are opened, shared, closed under a client and opened
\* again: a call that succeeds did what its caller asked of the board and the
\* instance it opened (what it read is what was last written there, the output
\* is the stream's), no write went anywhere else, and the interrupts of a
\* device go to a client that still holds its handle.
CallsReachTheirBoard ==
    /\ got.status = 0 => got.right
    /\ \A b \in Boards, s \in Spaces, i \in Instances : \A addr \in 0 .. Size(s) - 1 :
          store[b][s][Raw(s, i, addr)] = expect[b][s][<<i, addr>>]
    /\ \A h \in entries : handler[h] # NoId => client[handler[h]].handle = h
=============================================================================
