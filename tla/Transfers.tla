------------------------------ MODULE Transfers ------------------------------
(***************************************************************************)
(* Block transfers between the host and the DDR of the board:              *)
(* aocl_mmd_read and aocl_mmd_write on five back ends.                     *)
(*   "pac"  dcp_a10_pac mmd_dma: DMA for whole lines, an address span      *)
(*          expander (ASE) window for the rest, one mutex per direction    *)
(*   "bbb"  fpga_dma, the library under it, at any alignment               *)
(*   "ofs"  ofs_pcie mmd_dma: the same idea under one mutex                *)
(*   "hps"  hps_platform dma_device and the msgdma_userio driver           *)
(*   "de10" de10_agilex ACL_PCIE_DEVICE: DMA for aligned blocks, a window  *)
(*          in a BAR for the rest, one mutex                               *)
(* A call is compiled into the sequence of device accesses that its loops  *)
(* and branches perform (its plan); threads execute plans interleaved with *)
(* each other and with the DMA engines.                                    *)
(***************************************************************************)
EXTENDS Integers, Sequences, SequencesExt

CONSTANTS
    Dword, Qword,  \* MMIO widths
    Line,          \* DMA_LINE_SIZE, DMA_ALIGNMENT, MINIMUM_DMA_SIZE
    Chunk,         \* FPGA_DMA_BUF_SIZE, DMA_BUFFER_SIZE, chunk_size
    Window,        \* the span of the ASE or BAR window
    MemSize,       \* bound: bytes of device memory
    Threads,
    Scenarios,     \* [backend, oneFile, calls : [Threads -> Seq(call)], faults]
    NoThread

ASSUME TransferAssumption ==
    /\ {Dword, Qword, Line, Chunk, Window, MemSize} \subseteq Nat \ {0}
    /\ Qword % Dword = 0 /\ Line % Qword = 0 /\ Chunk % Line = 0
    /\ Window % Qword = 0
    /\ NoThread \notin Threads

VARIABLES
    backend, oneFile,            \* the scenario; do the threads share a FILE?
    calls, faults,               \* what is left of it
    call, todo, result, buf, tmp,\* per thread: call, rest of its plan, data
    lock, window, cached,        \* mutexes, ASE page, cur_ase_page
    pos,                         \* per open file: its position
    queue, staging, irq, magic,  \* per direction: the DMA channel
    channel,                     \* the driver's: address, cookies handed out and done
    mem, expect,                 \* DDR; what it should hold
    ignored, unguarded           \* so far: a dropped error, calls without one lock

dmaVars == <<queue, staging, irq, magic, channel>>
cursorVars == <<window, cached, pos>>
vars == <<backend, oneFile, calls, faults, call, todo, result, buf, tmp, lock,
          cursorVars, dmaVars, mem, expect, ignored, unguarded>>

Cells == 0 .. MemSize - 1
Bytes(at, len) == at .. at + len - 1
Lesser(a, b) == IF a < b THEN a ELSE b
Dirs == {"read", "write"}
NoCall == [dir |-> "none", at |-> 0, len |-> 0]
Unknown == -1

\* One access: what it does, the device bytes it is about, a staging buffer,
\* and whether the code looks at its result.
Op(do, at, len, b, checked) ==
    [do |-> do, at |-> at, len |-> len, buf |-> b, checked |-> checked]

PageOf(at) == at - (at % Window)

-----------------------------------------------------------------------------
(* dcp_a10_pac: mmd_dma and fpga_dma.                                      *)

\* The bytes wanted from one word, or read-modify-write of one.
ReadUnaligned(at, len, checked) == <<Op("load", at, len, 0, checked)>>
WriteUnaligned(at, len, width, checked) ==
    <<Op("get", at - (at % width), width, 0, checked), Op("put", at, len, 0, checked)>>
Unaligned(dir, at, len, width, checked) ==
    IF dir = "read" THEN ReadUnaligned(at, len, checked)
    ELSE WriteUnaligned(at, len, width, checked)

\* read_memory_mmio_unaligned, write_memory_mmio_unaligned
PacReadUnaligned(at, len, checked) ==
    <<Op("window", at, 0, 0, checked)>> \o ReadUnaligned(at, len, checked)
PacWriteUnaligned(at, len, checked) ==
    <<Op("window", at, 0, 0, checked)>> \o WriteUnaligned(at, len, Qword, checked)
PacUnaligned(dir, at, len, checked) ==
    IF dir = "read" THEN PacReadUnaligned(at, len, checked)
    ELSE PacWriteUnaligned(at, len, checked)

\* read_memory_mmio, write_memory_mmio: the window moves with the page.
PacWords(dir, at, len) ==
    LET word(i) == at + (i - 1) * Qword
        access(i) ==
            (IF i > 1 /\ PageOf(word(i)) # PageOf(word(i - 1))
             THEN <<Op("window", word(i), 0, 0, TRUE)>> ELSE <<>>)
            \o <<Op(IF dir = "read" THEN "load" ELSE "store", word(i), Qword, 0, TRUE)>>
    IN  <<Op("window", at, 0, 0, TRUE)>>
        \o FlattenSeq([i \in 1 .. len \div Qword |-> access(i)])
        \o (IF len % Qword = 0 THEN <<>>
            ELSE PacUnaligned(dir, at + len - (len % Qword), len % Qword, TRUE))
PacReadMmio(at, len) == PacWords("read", at, len)
PacWriteMmio(at, len) == PacWords("write", at, len)
PacMmio(dir, at, len) ==
    IF dir = "read" THEN PacReadMmio(at, len) ELSE PacWriteMmio(at, len)

\* Bytes that still fill whole lines after the whole chunks.
RestOf(len) == (len % Chunk) - (len % Line)
RestAt(at, len) == at + len - (len % Chunk)

\* transferHostToFpga, the DMA part: two pinned buffers; a chunk is copied
\* into one while the other is sent, and is sent after the interrupt of the
\* chunk before it.
TransferHostToFpga(at, len) ==
    LET chunk(i) == at + (i - 1) * Chunk
        b(i) == (i - 1) % 2
    IN  FlattenSeq([i \in 1 .. len \div Chunk |->
            <<Op("fill", chunk(i), Chunk, b(i), TRUE)>>
            \o (IF i = 1 THEN <<>> ELSE <<Op("poll", 0, 0, 0, FALSE)>>)
            \o <<Op("sendIrq", chunk(i), Chunk, b(i), TRUE)>>])
        \o (IF len < Chunk THEN <<>> ELSE <<Op("poll", 0, 0, 0, FALSE)>>)
        \o (IF RestOf(len) = 0 THEN <<>>
            ELSE <<Op("fill", RestAt(at, len), RestOf(len), 0, TRUE),
                   Op("sendIrq", RestAt(at, len), RestOf(len), 0, TRUE),
                   Op("poll", 0, 0, 0, FALSE)>>)

\* _issue_magic and _wait_magic: a descriptor of its own fetches a magic
\* number; after the interrupt the host spins on it.
IssueMagic == <<Op("sendMagic", 0, 0, 0, TRUE)>>
WaitMagic == <<Op("poll", 0, 0, 0, TRUE), Op("spin", 0, 0, 0, TRUE)>>

\* transferFpgaToHost, the DMA part: a chunk is copied out of its buffer once
\* the magic number that followed it has arrived.
TransferFpgaToHost(at, len) ==
    LET chunk(i) == at + (i - 1) * Chunk
        b(i) == (i - 1) % 2
        k == len \div Chunk
        send(i) == <<Op("send", chunk(i), Chunk, b(i), TRUE)>>
        drain(i) == <<Op("drain", chunk(i), Chunk, b(i), TRUE)>>
    IN  FlattenSeq([i \in 1 .. k |->
            send(i)
            \o (IF i = 1 THEN IssueMagic ELSE WaitMagic \o drain(i - 1) \o IssueMagic)
            \o (IF i = 1 /\ k = 1 THEN WaitMagic \o drain(1) \o IssueMagic ELSE <<>>)])
        \o (IF k = 0 THEN <<>> ELSE WaitMagic)
        \o (IF k < 2 THEN <<>> ELSE drain(k))
        \o (IF RestOf(len) = 0 THEN <<>>
            ELSE <<Op("send", RestAt(at, len), RestOf(len), 0, TRUE)>>
                 \o IssueMagic \o WaitMagic
                 \o <<Op("drain", RestAt(at, len), RestOf(len), 0, TRUE)>>)

\* fpgaDmaTransferSync
FpgaDma(dir, at, len) ==
    IF dir = "read" THEN TransferFpgaToHost(at, len) ELSE TransferHostToFpga(at, len)

\* mmd_dma::read_memory, write_memory: at an aligned address whole lines by
\* DMA and the remainder by MMIO.
PacAligned(dir, at, len) ==
    IF at % Line # 0 \/ len < Line THEN PacMmio(dir, at, len)
    ELSE FpgaDma(dir, at, len - (len % Line))
         \o (IF len % Line = 0 THEN <<>>
             ELSE PacMmio(dir, at + len - (len % Line), len % Line))

\* The bytes before the first word come first; their result is dropped.
PacMemory(dir, at, len) ==
    LET head == Lesser((Qword - (at % Qword)) % Qword, len)
    IN  IF head = 0 THEN PacAligned(dir, at, len)
        ELSE PacUnaligned(dir, at, head, FALSE)
             \o (IF len = head THEN <<>> ELSE PacAligned(dir, at + head, len - head))

ReadMemory(at, len) == PacMemory("read", at, len)
WriteMemory(at, len) == PacMemory("write", at, len)

Locked(ops) == <<Op("lock", 0, 0, 0, TRUE)>> \o ops \o <<Op("unlock", 0, 0, 0, TRUE)>>

\* do_dma runs under m_dma_op_mutex, one for each direction.
PacDoDma(dir, at, len) ==
    Locked(IF dir = "read" THEN ReadMemory(at, len) ELSE WriteMemory(at, len))

\* _read_memory_mmio, _write_memory_mmio: a dword to become aligned, blocks
\* up to the end of the page, a last dword.
BlockEnds(at, end) == {p \in at + 1 .. end : p % Window = 0 \/ p = end}
BbbWords(dir, at, len) ==
    LET access(a, n) == <<Op("switch", a, 0, 0, TRUE),
                          Op(IF dir = "read" THEN "load" ELSE "store", a, n, 0, TRUE)>>
        first == IF at % Qword = 0 THEN 0 ELSE Dword
        from == at + first
        words == ((len - first) \div Qword) * Qword
        ends == SetToSortSeq(IF words = 0 THEN {} ELSE BlockEnds(from, from + words), <)
        start(i) == IF i = 1 THEN from ELSE ends[i - 1]
    IN  IF len < Dword THEN <<>>
        ELSE (IF first = 0 THEN <<>> ELSE access(at, Dword))
             \o FlattenSeq([i \in 1 .. Len(ends) |-> access(start(i), ends[i] - start(i))])
             \o (IF len - first - words < Dword THEN <<>> ELSE access(from + words, Dword))
BbbReadMmio(at, len) == BbbWords("read", at, len)
BbbWriteMmio(at, len) == BbbWords("write", at, len)

\* What _read_memory_mmio leaves to do; when the first dword was all there
\* was, it returns before it updates its arguments, and the dword is copied
\* again.
BbbLeft(at, len) ==
    IF len < Dword \/ (len = Dword /\ at % Qword # 0) THEN len ELSE len % Dword

\* _ase_host_to_fpga, _ase_fpga_to_host: the words between two odd ends.
BbbEnds(dir, at, len) ==
    LET rmw(a, n) == IF n = 0 THEN <<>>
                     ELSE <<Op("switch", a, 0, 0, TRUE)>> \o Unaligned(dir, a, n, Qword, TRUE)
        head == IF at % Dword = 0 THEN 0 ELSE Lesser(Qword - (at % Qword), len)
        left == BbbLeft(at + head, len - head)
        words == IF dir = "read" THEN BbbReadMmio(at + head, len - head)
                 ELSE BbbWriteMmio(at + head, len - head)
    IN  rmw(at, head) \o words \o rmw(at + len - left, left)
AseHostToFpga(at, len) == BbbEnds("write", at, len)
AseFpgaToHost(at, len) == BbbEnds("read", at, len)
BbbAse(dir, at, len) ==
    IF dir = "read" THEN AseFpgaToHost(at, len) ELSE AseHostToFpga(at, len)

\* fpgaDmaTransferSync at any alignment.
BbbTransfer(dir, at, len) ==
    LET head == Lesser((Line - (at % Line)) % Line, len)
        body == len - head
    IN  IF at % Line # 0 /\ len < Line THEN BbbAse(dir, at, len)
        ELSE (IF head = 0 THEN <<>> ELSE BbbAse(dir, at, head))
             \o FpgaDma(dir, at + head, body - (body % Line))
             \o (IF body % Line = 0 THEN <<>>
                 ELSE BbbAse(dir, at + len - (body % Line), body % Line))

-----------------------------------------------------------------------------
(* ofs_pcie: mmd_dma and mmd_helper.                                       *)

\* mmd_helper::read_mmio, write_mmio for at most one word.
HelperRead(at, len) == <<Op("load", at, len, 0, FALSE)>>
HelperWrite(at, len) ==
    LET tail == IF len = Qword THEN 0 ELSE len % Dword
    IN  (IF len < Dword THEN <<>> ELSE <<Op("store", at, len - tail, 0, FALSE)>>)
        \o (IF tail = 0 THEN <<>> ELSE WriteUnaligned(at + len - tail, tail, Dword, FALSE))

\* _ase_host_to_fpga, _ase_fpga_to_host: the window is set for every word.
OfsWords(dir, at, len) ==
    LET head == Lesser((Qword - (at % Qword)) % Qword, len)
        from == at + head
        n == len - head
        word(i) == from + (i - 1) * Qword
        size(i) == Lesser(Qword, from + n - word(i))
    IN  (IF head = 0 THEN <<>>
         ELSE <<Op("window", at, 0, 0, FALSE)>> \o Unaligned(dir, at, head, Qword, FALSE))
        \o FlattenSeq([i \in 1 .. (n + Qword - 1) \div Qword |->
               <<Op("window", word(i), 0, 0, FALSE)>>
               \o (IF dir = "read" THEN HelperRead(word(i), size(i))
                   ELSE HelperWrite(word(i), size(i)))])
OfsAseHostToFpga(at, len) == OfsWords("write", at, len)
OfsAseFpgaToHost(at, len) == OfsWords("read", at, len)
OfsAse(dir, at, len) ==
    IF dir = "read" THEN OfsAseFpgaToHost(at, len) ELSE OfsAseHostToFpga(at, len)

\* dma_transfer and the copies around it: one shared buffer, wiped afterwards.
OfsDma(dir, at, len) ==
    IF dir = "read"
    THEN <<Op("send", at, len, 0, TRUE), Op("idle", 0, 0, 0, TRUE),
           Op("drain", at, len, 0, TRUE), Op("wipe", 0, 0, 0, TRUE)>>
    ELSE <<Op("fill", at, len, 0, TRUE), Op("send", at, len, 0, TRUE),
           Op("idle", 0, 0, 0, TRUE), Op("wipe", 0, 0, 0, TRUE)>>

\* fpga_to_host, host_to_fpga
OfsCopy(dir, at, len) ==
    LET head == Lesser((Line - (at % Line)) % Line, len)
        from == at + head
        body == len - head
    IN  IF at % Line # 0 /\ len < Line THEN OfsAse(dir, at, len)
        ELSE OfsAse(dir, at, head)
             \o FlattenSeq([i \in 1 .. body \div Chunk |->
                               OfsDma(dir, from + (i - 1) * Chunk, Chunk)])
             \o (IF RestOf(body) = 0 THEN <<>>
                 ELSE OfsDma(dir, RestAt(from, body), RestOf(body)))
             \o OfsAse(dir, at + len - (body % Line), body % Line)

OfsFpgaToHost(at, len) == OfsCopy("read", at, len)
OfsHostToFpga(at, len) == OfsCopy("write", at, len)

\* Device::read_block, write_block hold m_dma_mutex.
OfsBlock(dir, at, len) ==
    Locked(IF dir = "read" THEN OfsFpgaToHost(at, len) ELSE OfsHostToFpga(at, len))

-----------------------------------------------------------------------------
(* hps_platform: dma_device and the msgdma_userio driver.                  *)

\* msgdma_userio_read, msgdma_userio_write: configure the channel, prepare and
\* submit a descriptor, wait for it, terminate what the channel does.
DriverCall(at, len) == [i \in 1 .. 4 |->
    Op(<<"configure", "submit", "await", "terminate">>[i], at, len, 0, TRUE)]

\* A read is one call of the driver, a write is cut into chunks; the file
\* position is set once.
HpsReadBlock(at, len) == <<Op("seek", at, 0, 0, TRUE)>> \o DriverCall(at, len)
HpsWriteBlock(at, len) ==
    LET piece(i) == Lesser(Chunk, len - (i - 1) * Chunk)
    IN  <<Op("seek", at, 0, 0, TRUE)>>
        \o FlattenSeq([i \in 1 .. (len + Chunk - 1) \div Chunk |->
                          DriverCall(at + (i - 1) * Chunk, piece(i))])
HpsBlock(dir, at, len) ==
    IF dir = "read" THEN HpsReadBlock(at, len) ELSE HpsWriteBlock(at, len)

-----------------------------------------------------------------------------
(* de10_agilex: ACL_PCIE_DEVICE.                                           *)

\* The part of a block in one window: bytes up to the first word, words, the
\* bytes left, as read_write_small_size and read_block or write_block do.
De10Window(dir, at, len) ==
    LET do == IF dir = "read" THEN "load" ELSE "store"
        odd == Lesser(Qword - (at % Qword), len)
        head == IF odd = Qword THEN 0 ELSE odd
        tail == (len - head) % Qword
        part(a, n) == IF n = 0 THEN <<>> ELSE <<Op(do, a, n, 0, FALSE)>>
    IN  <<Op("switch", at, 0, 0, FALSE)>> \o part(at, head)
        \o part(at + head, len - head - tail) \o part(at + len - tail, tail)

\* read_write_block_bar
De10Bar(dir, at, len) ==
    LET ends == SetToSortSeq(BlockEnds(at, at + len), <)
        start(i) == IF i = 1 THEN at ELSE ends[i - 1]
    IN  FlattenSeq([i \in 1 .. Len(ends) |-> De10Window(dir, start(i), ends[i] - start(i))])

\* read_write_block: what DMA cannot do goes through the BAR, first.
De10Block(dir, at, len) ==
    LET dma == IF at % Line = 0 /\ len >= Chunk THEN len - (len % Line) ELSE 0
    IN  Locked((IF dma = len THEN <<>> ELSE De10Bar(dir, at + dma, len - dma))
               \o (IF dma = 0 THEN <<>> ELSE <<Op("dma", at, dma, 0, FALSE)>>))

Plan(c) == CASE backend = "pac" -> PacDoDma(c.dir, c.at, c.len)
             [] backend = "bbb" -> BbbTransfer(c.dir, c.at, c.len)
             [] backend = "ofs" -> OfsBlock(c.dir, c.at, c.len)
             [] backend = "hps" -> HpsBlock(c.dir, c.at, c.len)
             [] backend = "de10" -> De10Block(c.dir, c.at, c.len)

\* The mutex and the DMA channel a call uses.
Channel(t) == IF backend \in {"ofs", "hps", "de10"} THEN "write" ELSE call[t].dir

\* The open file a thread uses: threads of one process share it.
FileOf(t) == IF oneFile THEN CHOOSE u \in Threads : TRUE ELSE t

-----------------------------------------------------------------------------
\* What the next call of thread t writes at x: unlike anything before.
Datum(t, x) == x + MemSize * Len(calls[t])

Init ==
    /\ \E s \in Scenarios :
          /\ backend = s.backend /\ oneFile = s.oneFile
          /\ calls = s.calls /\ faults = s.faults
    /\ call = [t \in Threads |-> NoCall] /\ todo = [t \in Threads |-> <<>>]
    /\ result = [t \in Threads |-> "none"]
    /\ buf = [t \in Threads |-> <<>>] /\ tmp = [t \in Threads |-> <<>>]
    /\ lock = [c \in Dirs |-> NoThread]
    /\ window = 0 /\ cached = Unknown /\ pos = [t \in Threads |-> 0]
    /\ queue = [c \in Dirs |-> <<>>]
    /\ staging = [c \in Dirs |-> [b \in 0 .. 1 |-> [x \in 0 .. Chunk - 1 |-> 0]]]
    /\ irq = [c \in Dirs |-> FALSE] /\ magic = [c \in Dirs |-> FALSE]
    /\ channel = [at |-> 0, issued |-> 0, done |-> 0]
    /\ mem = [x \in Cells |-> x] /\ expect = mem
    /\ ignored = FALSE /\ unguarded = FALSE

\* Does one lock cover all that two calls have in common?  Whole lines need no
\* window, so on dcp_a10_pac the two directions may then be under way together.
WholeLines(c) == c.at % Line = 0 /\ c.len % Line = 0
Guarded(c, d) ==
    \/ backend \in {"ofs", "de10"}
    \/ backend = "pac" /\ c.dir = d.dir
    \/ backend = "pac" /\ WholeLines(c) /\ WholeLines(d)

\* aocl_mmd_read or aocl_mmd_write is called.
Begin(t) ==
    /\ call[t] = NoCall /\ calls[t] # <<>>
    /\ call' = [call EXCEPT ![t] = Head(calls[t])]
    /\ todo' = [todo EXCEPT ![t] = Plan(Head(calls[t]))]
    /\ calls' = [calls EXCEPT ![t] = Tail(@)]
    /\ result' = [result EXCEPT ![t] = "ok"]
    /\ buf' = [buf EXCEPT ![t] =
          [x \in Bytes(Head(calls[t]).at, Head(calls[t]).len) |->
              IF Head(calls[t]).dir = "write" THEN Datum(t, x) ELSE Unknown]]
    /\ unguarded' = (unguarded \/ \E u \in Threads \ {t} :
          call[u] # NoCall /\ ~Guarded(Head(calls[t]), call[u]))
    /\ UNCHANGED <<backend, oneFile, faults, tmp, lock, cursorVars, dmaVars, mem, expect, ignored>>

\* It returns: from now on the bytes of a write are there, unless it failed.
Return(t) ==
    /\ call[t] # NoCall /\ todo[t] = <<>>
    /\ expect' = IF call[t].dir = "read" THEN expect
                 ELSE [x \in Cells |->
                          IF x \notin Bytes(call[t].at, call[t].len) THEN expect[x]
                          ELSE IF result[t] = "ok" THEN buf[t][x] ELSE Unknown]
    /\ call' = [call EXCEPT ![t] = NoCall]
    /\ UNCHANGED <<backend, oneFile, calls, faults, todo, result, buf, tmp, lock, cursorVars,
                   dmaVars, mem, ignored, unguarded>>

At(t, do) == todo[t] # <<>> /\ Head(todo[t]).do = do
Cur(t) == Head(todo[t])
Advance(t) == todo' = [todo EXCEPT ![t] = Tail(@)]
Idle == UNCHANGED <<backend, oneFile, calls, call, expect, unguarded>>

Lock(t) ==
    /\ At(t, "lock") /\ lock[Channel(t)] = NoThread
    /\ lock' = [lock EXCEPT ![Channel(t)] = t]
    /\ Advance(t) /\ Idle
    /\ UNCHANGED <<faults, result, buf, tmp, cursorVars, dmaVars, mem, ignored>>

Unlock(t) ==
    /\ At(t, "unlock")
    /\ lock' = [lock EXCEPT ![Channel(t)] = NoThread]
    /\ Advance(t) /\ Idle
    /\ UNCHANGED <<faults, result, buf, tmp, cursorVars, dmaVars, mem, ignored>>

\* Variant with a mistake: a page that is not the one just used is not set.
SwitchToAsePageOnce(t) ==
    /\ At(t, "switch")
    /\ window' = IF cached = Unknown THEN PageOf(Cur(t).at) ELSE window
    /\ cached' = PageOf(Cur(t).at)
    /\ Advance(t) /\ Idle
    /\ UNCHANGED <<faults, result, buf, tmp, lock, pos, dmaVars, mem, ignored>>

\* The page register is written unless it holds the page already:
\* _switch_to_ase_page of fpga_dma, set_segment of the DE10.
SwitchToAsePage(t) ==
    /\ At(t, "switch")
    /\ window' = IF cached = PageOf(Cur(t).at) THEN window ELSE PageOf(Cur(t).at)
    /\ cached' = PageOf(Cur(t).at)
    /\ Advance(t) /\ Idle
    /\ UNCHANGED <<faults, result, buf, tmp, lock, pos, dmaVars, mem, ignored>>

SetWindow(t) ==
    /\ At(t, "window")
    /\ window' = PageOf(Cur(t).at)
    /\ Advance(t) /\ Idle
    /\ UNCHANGED <<faults, result, buf, tmp, lock, cached, pos, dmaVars, mem, ignored>>

\* The address that the window decodes for device address x.
Seen(x) == (window + (x % Window)) % MemSize

MmioLoad(t) ==
    /\ At(t, "load")
    /\ buf' = [buf EXCEPT ![t] = [x \in DOMAIN @ |->
          IF x \in Bytes(Cur(t).at, Cur(t).len) THEN mem[Seen(x)] ELSE @[x]]]
    /\ Advance(t) /\ Idle
    /\ UNCHANGED <<faults, result, tmp, lock, cursorVars, dmaVars, mem, ignored>>

MmioGet(t) ==
    /\ At(t, "get")
    /\ tmp' = [tmp EXCEPT ![t] = [x \in Bytes(Cur(t).at, Cur(t).len) |-> mem[Seen(x)]]]
    /\ Advance(t) /\ Idle
    /\ UNCHANGED <<faults, result, buf, lock, cursorVars, dmaVars, mem, ignored>>

\* The word read before goes back with our bytes laid over it.
MmioPut(t) ==
    /\ At(t, "put")
    /\ LET bytes == [x \in DOMAIN tmp[t] |->
                IF x \in Bytes(Cur(t).at, Cur(t).len) THEN buf[t][x] ELSE tmp[t][x]]
       IN  mem' = [y \in Cells |->
                IF \E x \in DOMAIN bytes : Seen(x) = y
                THEN bytes[CHOOSE x \in DOMAIN bytes : Seen(x) = y] ELSE mem[y]]
    /\ Advance(t) /\ Idle
    /\ UNCHANGED <<faults, result, buf, tmp, lock, cursorVars, dmaVars, ignored>>

MmioStore(t) ==
    /\ At(t, "store")
    /\ LET put == Bytes(Cur(t).at, Cur(t).len)
       IN  mem' = [y \in Cells |->
                IF \E x \in put : Seen(x) = y
                THEN buf[t][CHOOSE x \in put : Seen(x) = y] ELSE mem[y]]
    /\ Advance(t) /\ Idle
    /\ UNCHANGED <<faults, result, buf, tmp, lock, cursorVars, dmaVars, ignored>>

\* Variant with a mistake: an early return that keeps the lock.
FailHoldingLock(t) ==
    /\ faults > 0 /\ backend # "bbb" /\ todo[t] # <<>>
    /\ Cur(t).do \in {"window", "load", "get", "put", "store", "configure", "submit"}
    /\ faults' = faults - 1
    /\ todo' = [todo EXCEPT ![t] = <<>>]
    /\ result' = [result EXCEPT ![t] = "error"]
    /\ Idle /\ UNCHANGED <<buf, tmp, lock, cursorVars, dmaVars, mem, ignored>>

\* An OPAE call fails, or the driver maps no pages or gets no descriptor.
\* Where the code looks at the result the call is abandoned and the lock
\* released; elsewhere it goes on.
Fail(t) ==
    /\ faults > 0 /\ backend # "bbb" /\ todo[t] # <<>>
    /\ Cur(t).do \in {"window", "load", "get", "put", "store", "configure", "submit"}
    /\ faults' = faults - 1
    /\ IF Cur(t).checked
       THEN /\ todo' = [todo EXCEPT ![t] = SelectSeq(@, LAMBDA o : o.do = "unlock")]
            /\ result' = [result EXCEPT ![t] = "error"]
            /\ ignored' = ignored
       ELSE Advance(t) /\ ignored' = TRUE /\ result' = result
    /\ tmp' = IF Cur(t).do = "get"
              THEN [tmp EXCEPT ![t] = [x \in Bytes(Cur(t).at, Cur(t).len) |-> 0]] ELSE tmp
    /\ Idle /\ UNCHANGED <<buf, lock, cursorVars, dmaVars, mem>>

\* memcpy into a pinned buffer, and out of it.
Fill(t) ==
    /\ At(t, "fill")
    /\ staging' = [staging EXCEPT ![Channel(t)][Cur(t).buf] = [i \in DOMAIN @ |->
          IF i < Cur(t).len THEN buf[t][Cur(t).at + i] ELSE @[i]]]
    /\ Advance(t) /\ Idle
    /\ UNCHANGED <<faults, result, buf, tmp, lock, cursorVars, queue, irq, magic, channel, mem,
                   ignored>>

Drain(t) ==
    /\ At(t, "drain")
    /\ buf' = [buf EXCEPT ![t] = [x \in DOMAIN @ |->
          IF x \in Bytes(Cur(t).at, Cur(t).len)
          THEN staging[Channel(t)][Cur(t).buf][x - Cur(t).at] ELSE @[x]]]
    /\ Advance(t) /\ Idle
    /\ UNCHANGED <<faults, result, tmp, lock, cursorVars, dmaVars, mem, ignored>>

Wipe(t) ==
    /\ At(t, "wipe")
    /\ staging' = [staging EXCEPT ![Channel(t)][0] = [i \in DOMAIN @ |-> 0]]
    /\ Advance(t) /\ Idle
    /\ UNCHANGED <<faults, result, buf, tmp, lock, cursorVars, queue, irq, magic, channel, mem,
                   ignored>>

\* _send_descriptor, send_descriptor
SendDescriptor(t) ==
    /\ todo[t] # <<>> /\ Cur(t).do \in {"send", "sendIrq", "sendMagic"}
    /\ queue' = [queue EXCEPT ![Channel(t)] = Append(@,
          [dir |-> call[t].dir, at |-> Cur(t).at, len |-> Cur(t).len,
           buf |-> Cur(t).buf, kind |-> Cur(t).do, by |-> t, cookie |-> 0])]
    /\ magic' = IF Cur(t).do = "sendMagic" THEN [magic EXCEPT ![Channel(t)] = FALSE] ELSE magic
    /\ Advance(t) /\ Idle
    /\ UNCHANGED <<faults, result, buf, tmp, lock, cursorVars, staging, irq, channel, mem, ignored>>

\* poll_interrupt: the interrupt, or the timeout, whose result nobody uses;
\* the read path spins on the magic number besides.
PollInterrupt(t) ==
    /\ At(t, "poll")
    /\ \/ irq[Channel(t)] /\ UNCHANGED <<faults, ignored>>
       \/ /\ ~irq[Channel(t)] /\ faults > 0
          /\ faults' = faults - 1 /\ ignored' = (ignored \/ ~Cur(t).checked)
    /\ irq' = [irq EXCEPT ![Channel(t)] = FALSE]
    /\ Advance(t) /\ Idle
    /\ UNCHANGED <<result, buf, tmp, lock, cursorVars, queue, staging, magic, channel, mem>>

SpinOnMagic(t) ==
    /\ At(t, "spin") /\ magic[Channel(t)]
    /\ magic' = [magic EXCEPT ![Channel(t)] = FALSE]
    /\ Advance(t) /\ Idle
    /\ UNCHANGED <<faults, result, buf, tmp, lock, cursorVars, queue, staging, irq, channel, mem,
                   ignored>>

\* ofs_pcie: spin until the busy bit clears.
WaitNotBusy(t) ==
    /\ At(t, "idle") /\ queue[Channel(t)] = <<>>
    /\ Advance(t) /\ Idle
    /\ UNCHANGED <<faults, result, buf, tmp, lock, cursorVars, dmaVars, mem, ignored>>

\* The C library runs one call at a time on a FILE (external): nobody else is
\* inside the driver with this one.  Between two calls anybody may come.
FileFree(t) == \A u \in Threads \ {t} : FileOf(u) = FileOf(t) =>
    \A do \in {"submit", "await", "terminate"} : ~At(u, do)

\* fseek
Seek(t) ==
    /\ At(t, "seek") /\ FileFree(t)
    /\ pos' = [pos EXCEPT ![FileOf(t)] = Cur(t).at]
    /\ Advance(t) /\ Idle
    /\ UNCHANGED <<faults, result, buf, tmp, lock, window, cached, dmaVars, mem, ignored>>

\* The driver refuses what is not aligned or reaches mem_end, the address of
\* the last byte.
DriverAccepts(at, len) == at % Dword = 0 /\ len % Dword = 0 /\ at + len < MemSize - 1

DriverRefuses(t) ==
    /\ At(t, "configure") /\ FileFree(t) /\ ~DriverAccepts(pos[FileOf(t)], Cur(t).len)
    /\ todo' = [todo EXCEPT ![t] = <<>>]
    /\ result' = [result EXCEPT ![t] = "error"]
    /\ Idle /\ UNCHANGED <<faults, buf, tmp, lock, cursorVars, dmaVars, mem, ignored>>

\* set_dma_emif_addr: the channel, of which the device has one, is set to the
\* position of the file.
SetDmaEmifAddr(t) ==
    /\ At(t, "configure") /\ FileFree(t) /\ DriverAccepts(pos[FileOf(t)], Cur(t).len)
    /\ channel' = [channel EXCEPT !.at = pos[FileOf(t)]]
    /\ Advance(t) /\ Idle
    /\ UNCHANGED <<faults, result, buf, tmp, lock, cursorVars, queue, staging, irq, magic, mem,
                   ignored>>

\* dmaengine_prep_slave_sg and dmaengine_submit: the descriptor goes to the
\* address the channel has now.  A cookie, kept in tmp, numbers it.
Submit(t) ==
    /\ At(t, "submit")
    /\ queue' = [queue EXCEPT ![Channel(t)] = Append(@,
          [dir |-> call[t].dir, at |-> channel.at, len |-> Cur(t).len,
           buf |-> Cur(t).at, kind |-> "driver", by |-> t, cookie |-> channel.issued + 1])]
    /\ channel' = [channel EXCEPT !.issued = @ + 1]
    /\ tmp' = [tmp EXCEPT ![t] = <<channel.issued + 1>>]
    /\ Advance(t) /\ Idle
    /\ UNCHANGED <<faults, result, buf, lock, cursorVars, staging, irq, magic, mem, ignored>>

\* Variant with a mistake: a wait without the time limit.
DmaSyncWaitForever(t) ==
    /\ At(t, "await") /\ channel.done >= tmp[t][1]
    /\ Advance(t) /\ Idle
    /\ UNCHANGED <<faults, result, buf, tmp, lock, cursorVars, dmaVars, mem, ignored>>

\* dma_sync_wait polls until its cookie, or a later one, is done; after five
\* seconds it gives up: the descriptor was thrown away, or, a fault, is late.
DmaSyncWait(t) ==
    /\ At(t, "await")
    /\ LET done == channel.done >= tmp[t][1]
           queued == \E i \in DOMAIN queue[Channel(t)] :
                        queue[Channel(t)][i].cookie = tmp[t][1]
       IN  \/ done /\ UNCHANGED <<faults, result>>
           \/ ~done /\ ~queued /\ faults' = faults /\ result' = [result EXCEPT ![t] = "error"]
           \/ /\ ~done /\ queued /\ faults > 0
              /\ faults' = faults - 1 /\ result' = [result EXCEPT ![t] = "error"]
    /\ Advance(t) /\ Idle
    /\ UNCHANGED <<buf, tmp, lock, cursorVars, dmaVars, mem, ignored>>

\* dmaengine_terminate_sync throws away what is queued, whoever queued it, if
\* the DMA controller can (external).  Then the call reports what the wait
\* told it, and the file position moves on.
DriverReturns(t) ==
    /\ At(t, "terminate")
    /\ \/ queue' = [queue EXCEPT ![Channel(t)] = <<>>]
       \/ queue' = queue
    /\ IF result[t] = "ok"
       THEN pos' = [pos EXCEPT ![FileOf(t)] = @ + Cur(t).len] /\ Advance(t)
       ELSE pos' = pos /\ todo' = [todo EXCEPT ![t] = <<>>]
    /\ Idle
    /\ UNCHANGED <<faults, result, buf, tmp, lock, window, cached, staging, irq, magic, channel,
                   mem, ignored>>

\* n bytes between the caller's buffer at x and the device at y.  A descriptor
\* that outlives its call finds other pages there.
MoveIn(t, x, y, n) ==
    /\ buf' = [buf EXCEPT ![t] = [z \in DOMAIN @ |->
          IF z \in Bytes(x, n) THEN mem[(y + (z - x)) % MemSize] ELSE @[z]]]
    /\ mem' = mem
MoveOut(t, x, y, n) ==
    /\ mem' = [z \in Cells |->
          IF z \notin Bytes(y, n) THEN mem[z]
          ELSE IF x + (z - y) \in DOMAIN buf[t] THEN buf[t][x + (z - y)] ELSE Unknown]
    /\ buf' = buf

\* ACL_PCIE_DMA as PcieDma shows it: read_write and stall_until_idle move
\* exactly the block, straight from and to the caller's memory.
PcieTransfer(t) ==
    /\ At(t, "dma")
    /\ IF call[t].dir = "read" THEN MoveIn(t, Cur(t).at, Cur(t).at, Cur(t).len)
       ELSE MoveOut(t, Cur(t).at, Cur(t).at, Cur(t).len)
    /\ Advance(t) /\ Idle
    /\ UNCHANGED <<faults, result, tmp, lock, cursorVars, dmaVars, ignored>>

\* The DMA engine executes the oldest descriptor (external): the driver's go
\* straight from and to the caller's pages, the library's through the staging
\* buffers.
DriverEngine(c) ==
    /\ queue[c] # <<>> /\ Head(queue[c]).kind = "driver"
    /\ LET d == Head(queue[c])
       IN  /\ IF d.dir = "read" THEN MoveIn(d.by, d.buf, d.at, d.len)
              ELSE MoveOut(d.by, d.buf, d.at, d.len)
           /\ channel' = [channel EXCEPT !.done = d.cookie]
    /\ queue' = [queue EXCEPT ![c] = Tail(@)]
    /\ Idle
    /\ UNCHANGED <<faults, todo, result, tmp, lock, cursorVars, staging, irq, magic, ignored>>

Engine(c) ==
    /\ queue[c] # <<>> /\ Head(queue[c]).kind # "driver"
    /\ LET d == Head(queue[c])
       IN  /\ mem' = IF d.dir = "read" THEN mem
                     ELSE [x \in Cells |-> IF x \in Bytes(d.at, d.len)
                              THEN staging[c][d.buf][x - d.at] ELSE mem[x]]
           /\ staging' = IF d.dir = "write" \/ d.kind = "sendMagic" THEN staging
                         ELSE [staging EXCEPT ![c][d.buf] = [i \in DOMAIN @ |->
                                  IF i < d.len THEN mem[d.at + i] ELSE @[i]]]
           /\ irq' = [irq EXCEPT ![c] = @ \/ d.kind \in {"sendIrq", "sendMagic"}]
           /\ magic' = [magic EXCEPT ![c] = @ \/ d.kind = "sendMagic"]
    /\ queue' = [queue EXCEPT ![c] = Tail(@)]
    /\ Idle /\ UNCHANGED <<faults, todo, result, buf, tmp, lock, cursorVars, channel, ignored>>

ThreadStep(t) ==
    \/ Begin(t) \/ Return(t) \/ Lock(t) \/ Unlock(t) \/ SwitchToAsePage(t)
    \/ SetWindow(t) \/ MmioLoad(t) \/ MmioGet(t) \/ MmioPut(t) \/ MmioStore(t)
    \/ Fill(t) \/ Drain(t) \/ Wipe(t) \/ SendDescriptor(t) \/ PollInterrupt(t)
    \/ SpinOnMagic(t) \/ WaitNotBusy(t) \/ Seek(t) \/ DriverRefuses(t) \/ SetDmaEmifAddr(t)
    \/ Submit(t) \/ DmaSyncWait(t) \/ DriverReturns(t) \/ PcieTransfer(t)

Done == (\A t \in Threads : call[t] = NoCall /\ calls[t] = <<>>) /\ UNCHANGED vars

Next == \/ \E t \in Threads : ThreadStep(t) \/ Fail(t)
        \/ \E c \in Dirs : Engine(c) \/ DriverEngine(c)
        \/ Done

\* Threads are scheduled and the DMA engines run.
TransferFairness ==
    /\ \A t \in Threads : WF_vars(ThreadStep(t))
    /\ \A c \in Dirs : WF_vars(Engine(c) \/ DriverEngine(c))
Spec == Init /\ [][Next]_vars /\ TransferFairness

-----------------------------------------------------------------------------
(* Properties.                                                             *)

BeingWritten(x) == \E t \in Threads :
    call[t].dir = "write" /\ x \in Bytes(call[t].at, call[t].len)

\* A byte that no write in progress is about holds what the last successful
\* write put there, and a read that reports success returned exactly those
\* bytes, whichever threads are transferring.  "main dma function needs to be
\* thread safe" (mmd_dma.cpp).  The code does not keep it: dcp_a10_pac has a
\* lock for each direction and one window for both, the HPS none between the
\* position of a file, the channel's address and the call that uses them.
EveryTransferExact ==
    ~ignored => \A x \in Cells : expect[x] # Unknown /\ ~BeingWritten(x) =>
        /\ mem[x] = expect[x]
        /\ \A t \in Threads :
            (/\ call[t].dir = "read" /\ todo[t] = <<>> /\ result[t] = "ok"
             /\ x \in DOMAIN buf[t]) => buf[t][x] = expect[x]

\* It is so as long as one lock covers what calls at the same time share: every
\* loop moves all of its bytes to their place, a word that two transfers share
\* is read and written back under the lock, and the window, the DMA buffers and
\* the file are where the transfer that uses them has set them.
TransfersExact == ~unguarded => EveryTransferExact

\* Every transfer returns: no thread waits for an interrupt, a magic number,
\* a busy bit or a mutex that nobody will ever give.
EveryTransferReturns == \A t \in Threads : call[t] # NoCall ~> call[t] = NoCall

=============================================================================
