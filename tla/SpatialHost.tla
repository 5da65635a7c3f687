------------------------------ MODULE SpatialHost ------------------------------
(***************************************************************************)
(* The hosts of the spatial IP: the OpenVINO plugin and dla_benchmark over *)
(* one of two MMDs (OFS PCIe with shared host buffers, or JTAG through     *)
(* System Console), and the stand-alone OFS demo.  Memory is counted in    *)
(* bus transfers ("beats").                                                *)
(***************************************************************************)
EXTENDS SpatialPacking, FiniteSets

CONSTANTS Scenarios,     \* backend, client, weight files, geometries, requests
          MaxBurst,      \* MAX_BURST_SIZE in beats
          MaxHostMem,    \* MAX_HOST_MEM_SIZE in beats
          MaxReqs,       \* requests in flight that CSR_AFU_INFO reports
          Window,        \* kDdrWindowSize in beats
          Capacity,      \* kDdrBankCapacityBytes in beats
          MaxFaults,     \* bound: calls of libraries that fail
          MaxRounds      \* bound: sessions of the process

Backends == {"ofs", "jtag", "demo"}
Geometry == [w : 1..64, l : Nat \ {0}, s : Nat \ {0}]

ASSUME SpatialAssumption ==
    /\ MaxBurst \in Nat \ {0} /\ MaxHostMem \in Nat \ {0}
    /\ Window \in Nat \ {0} /\ Capacity % Window = 0
    /\ \A s \in Scenarios : s.backend \in Backends

Min2(a, b) == IF a < b THEN a ELSE b

VARIABLES
    sc,       \* the scenario
    pc,       \* where every thread is: the client's and one per request
    cont,     \* where a thread continues after reset, DDR access or cleanup
    loc,      \* locals of a call in progress, per thread
    session,  \* g_handle / g_session is set
    port,     \* load_port_config has succeeded
    cache,    \* g_window_page: the page of each bank's window, -1 unknown
    win,      \* the span extenders: low and high word of the page
    readLen,  \* CSR_SET_READ_BURST_LEN (transfers - 1)
    rq, wq,   \* bursts the board has been asked to read and to write
    ip,       \* beats the IP has received; beats it has sent
    dma,      \* descriptors and responses of the two mSGDMA dispatchers
    ddr,      \* the DDR banks
    lost,     \* the next write to DDR reports success and leaves zeros
    bufs,     \* shared host buffers
    mutex,    \* holder of m_hw_mutex
    left,     \* weight files still to load
    result,   \* what each request returned
    faults, round

host == <<session, port, cache, mutex, left, result>>
board == <<win, readLen, rq, wq, ip, dma, ddr, lost>>
vars == <<sc, pc, cont, loc, faults, round, bufs, host, board>>

Main == "client"
Threads == {Main} \cup sc.reqs
ofs == sc.backend \in {"ofs", "demo"}
Banks == 0..1
FeatureBank == 0
InputBase == Capacity - 2 * Window      \* kInputFeatureBase
OutputBase == Capacity - Window         \* kOutputFeatureBase
WeightLimit == InputBase                \* kFeatureBankWeightLimit
Page(a) == a \div Window
InBank(a, n) == a + n <= Capacity         \* check_in_bank

\* Beats of one tensor on the bus of the backend.
PortBeats(g) == IF ofs THEN BusTransactionsPerPacket(g) ELSE BeatsPerPacket(g)
InBeats == PortBeats(sc.gin)
OutBeats == PortBeats(sc.gout)

NoLocals == [file |-> 0, off |-> 0, burst |-> 1, len |-> 0, plan |-> <<>>,
             bank |-> 0, addr |-> 0, n |-> 0, op |-> "none", data |-> <<>>]
NoBuffer == [n |-> 0, data |-> <<>>, live |-> FALSE]
Zeros == <<"zeros">>
Junk == <<"junk">>

\* The IP turns every InBeats input beats into OutBeats output beats.
Tensor(s, t) == SubSeq(s, (t - 1) * InBeats + 1, t * InBeats)
OutputBeat(s, j) == <<Tensor(s, (j - 1) \div OutBeats + 1), (j - 1) % OutBeats>>
Produced(s) == (Len(s) \div InBeats) * OutBeats

Input(r) == [i \in 1..(sc.tensors * InBeats) |-> <<r, round, i>>]
Expected(r) == [j \in 1..(sc.tensors * OutBeats) |-> OutputBeat(Input(r), j)]
WeightBeat(f, i) == <<"weights", f, round, i>>

Init ==
    /\ sc \in Scenarios
    /\ pc = [t \in Threads |-> IF t = Main THEN "config" ELSE "idle"]
    /\ cont = [t \in Threads |-> "none"]
    /\ loc = [t \in Threads |-> NoLocals]
    /\ session = FALSE /\ port = FALSE /\ mutex = "free"
    /\ cache = [b \in Banks |-> -1]
    /\ win \in [Banks -> [low : 0..1, high : 0..1]]
    /\ ofs => win = [b \in Banks |-> [low |-> 0, high |-> 0]]
    /\ readLen = 0 /\ rq = <<>> /\ wq = <<>>
    /\ ip = [in |-> <<>>, out |-> 0]
    /\ dma = [in |-> <<>>, out |-> <<>>, rin |-> 0, rout |-> 0]
    /\ ddr = [b \in Banks |-> [a \in 0..(Capacity - 1) |-> Junk]]
    /\ lost \in (IF ~ofs /\ DOMAIN sc.files # {} THEN BOOLEAN ELSE {FALSE})
    /\ bufs = <<>>
    /\ left = DOMAIN sc.files
    /\ result = [r \in sc.reqs |-> <<>>]
    /\ faults = 0 /\ round = 1

Goto(t, l) == pc' = [pc EXCEPT ![t] = l]
Set(t, rec) == loc' = [loc EXCEPT ![t] = rec]
Fault == faults < MaxFaults /\ faults' = faults + 1

-----------------------------------------------------------------------------
(* Leaving a call with an error.                                           *)

\* The plugin's constructor throws, its destructor does not run and the
\* session stays; dla_benchmark and the demo close it.  A request unlocks
\* the hardware mutex as its exception passes.
ClientFails ==
    /\ pc' = [pc EXCEPT ![Main] = "failed"]
    /\ session' = (sc.client = "plugin" /\ session)
    /\ UNCHANGED mutex

RequestFails(r) ==
    /\ pc' = [pc EXCEPT ![r] = "failed"]
    /\ mutex' = IF mutex = r THEN "free" ELSE mutex
    /\ UNCHANGED session

Fails(t) ==
    /\ IF t = Main THEN ClientFails ELSE RequestFails(t)
    /\ loc' = [loc EXCEPT ![t] = NoLocals]

-----------------------------------------------------------------------------
(* Setting a session up.                                                   *)

LoadPortConfig ==
    /\ sc.client # "demo" /\ pc[Main] = "config"
    /\ \/ port' = TRUE /\ Goto(Main, "connect") /\ UNCHANGED <<session, mutex, loc, faults>>
       \/ Fault /\ Fails(Main) /\ UNCHANGED port
    /\ UNCHANGED <<sc, cont, round, bufs, board, cache, left, result>>

\* The demo's geometry is compiled in; it reads its inputs and the golden
\* outputs from two files, which may be missing or not whole packets.
DemoLoadData ==
    /\ sc.client = "demo" /\ pc[Main] = "config"
    /\ \/ port' = TRUE /\ Goto(Main, "connect") /\ UNCHANGED <<session, mutex, loc, faults>>
       \/ Fault /\ Fails(Main) /\ UNCHANGED port
    /\ UNCHANGED <<sc, cont, round, bufs, board, cache, left, result>>

\* dla_benchmark without -spatial_weights goes straight to its second reset.
AfterConnect ==
    IF sc.client = "bench" /\ DOMAIN sc.files = {} THEN "ready" ELSE "weights"

\* connect_to_selected_accel has no error return: a missing accelerator is
\* reported and then opened.
DemoConnect ==
    /\ sc.client = "demo" /\ pc[Main] = "connect"
    /\ \/ session' = TRUE /\ Goto(Main, "reset")
          /\ cont' = [cont EXCEPT ![Main] = "weights"]
          /\ UNCHANGED faults
       \/ Fault /\ Goto(Main, "undefined") /\ UNCHANGED <<session, cont>>
    /\ UNCHANGED <<sc, loc, round, bufs, board, mutex, cache, port, left, result>>

ConnectToFpga ==
    /\ sc.client # "demo" /\ pc[Main] = "connect"
    /\ \/ ~session /\ session' = TRUE /\ Goto(Main, "reset")
          /\ cont' = [cont EXCEPT ![Main] = AfterConnect]
          /\ UNCHANGED <<mutex, loc, faults>>
       \/ session /\ Fails(Main) /\ UNCHANGED <<cont, faults>>
       \/ Fault /\ Fails(Main) /\ UNCHANGED cont
    /\ UNCHANGED <<sc, round, bufs, board, cache, port, left, result>>

\* reset of the OFS MMD and of the demo: the two writes of CSR_IP_RESET.
OfsReset(t) ==
    /\ ofs /\ pc[t] = "reset"
    /\ \/ /\ ip' = [in |-> <<>>, out |-> 0]
          /\ Goto(t, cont[t])
          /\ UNCHANGED <<session, mutex, loc, faults>>
       \/ Fault /\ Fails(t) /\ UNCHANGED ip
    /\ UNCHANGED <<sc, cont, round, bufs, port, cache, left, result, win, readLen,
                   rq, wq, dma, ddr, lost>>

\* What the global reset does to the JTAG design: windows at page 0, the
\* IP empty, the dispatchers cleared.
BoardReset ==
    /\ win' = [b \in Banks |-> [low |-> 0, high |-> 0]]
    /\ ip' = [in |-> <<>>, out |-> 0]
    /\ dma' = [in |-> <<>>, out |-> <<>>, rin |-> 0, rout |-> 0]

\* Variant with a mistake: the cached window pages survive the
\* reset of the board.
AssertResetKeepsPages(t) ==
    /\ ~ofs /\ pc[t] = "reset"
    /\ BoardReset
    /\ Goto(t, "dmas")
    /\ UNCHANGED <<session, mutex, loc, faults, cache, sc, cont, round, bufs,
                   port, left, result, readLen, rq, wq, ddr, lost>>

\* assert_reset through ISSP and g_window_page.clear().  When System Console
\* fails, the reset may or may not have reached the board.
AssertReset(t) ==
    /\ ~ofs /\ pc[t] = "reset"
    /\ \/ /\ BoardReset
          /\ cache' = [b \in Banks |-> -1]
          /\ Goto(t, "dmas")
          /\ UNCHANGED <<session, mutex, loc, faults>>
       \/ /\ Fault /\ Fails(t)
          /\ BoardReset \/ UNCHANGED <<win, ip, dma>>
          /\ UNCHANGED cache
    /\ UNCHANGED <<sc, cont, round, bufs, port, left, result, readLen, rq, wq, ddr, lost>>

\* Dispatcher reset of both mSGDMAs, then the reads that block until the
\* EMIF is calibrated.
InitializeDmas(t) ==
    /\ ~ofs /\ pc[t] = "dmas"
    /\ \/ /\ dma' = [in |-> <<>>, out |-> <<>>, rin |-> 0, rout |-> 0]
          /\ Goto(t, "reachable")
          /\ UNCHANGED <<session, mutex, loc, faults>>
       \/ Fault /\ Fails(t) /\ UNCHANGED dma
    /\ UNCHANGED <<sc, cont, round, bufs, port, cache, left, result, win, readLen,
                   rq, wq, ip, ddr, lost>>

WaitUntilDdrReachable(t) ==
    /\ ~ofs /\ pc[t] = "reachable"
    /\ \/ Goto(t, cont[t]) /\ UNCHANGED <<session, mutex, loc, faults>>
       \/ Fault /\ Fails(t)
    /\ UNCHANGED <<sc, cont, round, bufs, port, cache, left, result, board>>

DemoReset(t) == sc.backend = "demo" /\ OfsReset(t)
Reset(t) == \/ sc.backend = "ofs" /\ OfsReset(t)
            \/ DemoReset(t) \/ AssertReset(t)
            \/ InitializeDmas(t) \/ WaitUntilDdrReachable(t)

-----------------------------------------------------------------------------
(* Weights.                                                                *)

\* readdir gives the files in any order; the JTAG MMD sorts them.
NextFiles == IF ofs THEN left
             ELSE {f \in left : \A g \in left : f <= g}

\* load_weights: the next file, or done; without files it is not an error.
LoadWeights ==
    /\ pc[Main] = "weights"
    /\ \/ /\ left = {}
          /\ Goto(Main, "reset") /\ cont' = [cont EXCEPT ![Main] = "ready"]
          /\ UNCHANGED loc
       \/ \E f \in NextFiles :
             /\ Set(Main, [NoLocals EXCEPT !.file = f])
             /\ Goto(Main, "file") /\ UNCHANGED cont
    /\ UNCHANGED <<sc, faults, round, bufs, host, board>>

File == sc.files[loc[Main].file]

\* load_weights_from_file: the file is opened and read.  The JTAG MMD also
\* refuses weights that reach the tensor regions or leave the bank.
LoadWeightsFromFile ==
    LET f == File
    IN  /\ pc[Main] = "file"
        /\ \/ /\ ofs \/ /\ f.bank = FeatureBank => f.addr + f.beats <= WeightLimit
                        /\ InBank(f.addr, f.beats)
              /\ IF ofs THEN Goto(Main, "chunk") /\ UNCHANGED <<loc, cont>>
                 ELSE /\ Set(Main, [loc[Main] EXCEPT !.op = "write", !.bank = f.bank,
                                       !.addr = f.addr, !.n = f.beats,
                                       !.data = [i \in 1..f.beats |-> WeightBeat(loc[Main].file, i)]])
                      /\ Goto(Main, "io")
                      /\ cont' = [cont EXCEPT ![Main] = "verify"]
              /\ UNCHANGED <<session, mutex, faults>>
           \/ /\ ~ofs
              /\ \/ f.bank = FeatureBank /\ f.addr + f.beats > WeightLimit
                 \/ ~InBank(f.addr, f.beats)
              /\ Fails(Main) /\ UNCHANGED <<cont, faults>>
           \/ Fault /\ Fails(Main) /\ UNCHANGED cont
        /\ UNCHANGED <<sc, round, bufs, board, port, cache, left, result>>

\* load_weights_buffer of the OFS MMD: one chunk of the file, with its burst
\* plan and its shared buffer; current_read_len starts at 0.
ChunkBeats == Min2(File.beats - loc[Main].off, MaxHostMem)

WeightsPlan ==
    IF sc.backend = "demo"
    THEN AllocateAndCalculateBursts(ChunkBeats, MaxBurst, TotalRequestsNeeded(ChunkBeats, MaxBurst))
    ELSE BuildBurstPlan(ChunkBeats, File.aligned, MaxBurst, 0)

Buf(t, k) == <<t, k>>
Alloc(b, n, data) ==
    bufs' = [x \in DOMAIN bufs \cup {b} |->
                IF x = b THEN [n |-> n, data |-> data, live |-> TRUE] ELSE bufs[x]]
Release(bs) ==
    bufs' = [x \in DOMAIN bufs |->
                IF x \in bs THEN NoBuffer ELSE bufs[x]]

OfsLoadChunk ==
    /\ pc[Main] = "chunk"
    /\ \/ /\ WeightsPlan # <<>>
          /\ Alloc(Buf(Main, "weights"), ChunkBeats,
                   [i \in 1..ChunkBeats |-> WeightBeat(loc[Main].file, loc[Main].off + i)])
          /\ Set(Main, [loc[Main] EXCEPT !.plan = WeightsPlan, !.burst = 1, !.len = 0])
          /\ Goto(Main, "weightBursts")
          /\ UNCHANGED <<session, mutex, faults>>
       \/ WeightsPlan = <<>> /\ Fails(Main) /\ UNCHANGED <<bufs, faults>>
       \/ Fault /\ Fails(Main) /\ UNCHANGED bufs
    /\ UNCHANGED <<sc, cont, round, board, port, cache, left, result>>

\* One DDR write burst: the read length is only written when it differs from
\* the last one of this call, then destination and source.
WeightBurst ==
    LET l == loc[Main]
        b == l.plan[l.burst]
        length == IF b.len - 1 # l.len THEN b.len - 1 ELSE readLen
    IN  /\ pc[Main] = "weightBursts" /\ l.burst <= Len(l.plan)
        /\ readLen' = length
        /\ rq' = Append(rq, [buf |-> Buf(Main, "weights"), off |-> b.off, len |-> length + 1,
                             bank |-> File.bank, addr |-> File.addr + l.off + b.off])
        /\ Set(Main, [l EXCEPT !.burst = @ + 1, !.len = b.len - 1])
        /\ UNCHANGED <<sc, pc, cont, faults, round, bufs, host, win, wq, ip, dma, ddr, lost>>

\* Variant with a mistake: the buffer is released without waiting for
\* CSR_WEIGHTS_PROCESSED.
WeightsUnawaited ==
    /\ pc[Main] = "weightBursts" /\ loc[Main].burst > Len(loc[Main].plan)
    /\ Release({Buf(Main, "weights")})
    /\ left' = left \ {loc[Main].file} /\ Goto(Main, "weights")
    /\ UNCHANGED <<sc, loc, cont, faults, round, session, port, cache, mutex, result, board>>

\* CSR_WEIGHTS_PROCESSED reads 0 while a weight burst is outstanding.
WeightsProcessed ==
    LET l == loc[Main]
    IN  /\ pc[Main] = "weightBursts" /\ l.burst > Len(l.plan)
        /\ rq = <<>>
        /\ Release({Buf(Main, "weights")})
        /\ IF l.off + MaxHostMem < File.beats
           THEN /\ Set(Main, [l EXCEPT !.off = @ + MaxHostMem])
                /\ Goto(Main, "chunk") /\ UNCHANGED left
           ELSE /\ left' = left \ {l.file} /\ Goto(Main, "weights") /\ UNCHANGED loc
        /\ UNCHANGED <<sc, cont, faults, round, session, port, cache, mutex, result, board>>

\* verify_weight_write: the head of the file is read back and compared.
VerifyWeightWrite ==
    /\ pc[Main] = "verify"
    /\ Set(Main, [loc[Main] EXCEPT !.op = "read", !.addr = File.addr, !.n = 1,
                                   !.data = <<>>])
    /\ Goto(Main, "io") /\ cont' = [cont EXCEPT ![Main] = "compare"]
    /\ UNCHANGED <<sc, faults, round, bufs, host, board>>

CompareHead ==
    /\ pc[Main] = "compare"
    /\ IF loc[Main].data = <<WeightBeat(loc[Main].file, 1)>>
       THEN /\ left' = left \ {loc[Main].file} /\ Goto(Main, "weights")
            /\ UNCHANGED <<session, mutex, loc>>
       ELSE Fails(Main) /\ UNCHANGED left
    /\ UNCHANGED <<sc, cont, faults, round, bufs, port, cache, result, board>>

-----------------------------------------------------------------------------
(* DDR through the JTAG windows.  write_ddr and read_ddr move a span page  *)
(* by page; open_window moves the span extender when the cached page is    *)
(* another one.                                                            *)

Miss(l) == cache[l.bank] # Page(l.addr)

OpenWindowLow(t) ==
    LET l == loc[t]
    IN  /\ pc[t] = "io" /\ l.n > 0 /\ Miss(l)
        /\ \/ /\ win' = [win EXCEPT ![l.bank].low = Page(l.addr) % 2]
              /\ Goto(t, "high") /\ UNCHANGED <<session, mutex, loc, faults>>
           \/ Fault /\ Fails(t) /\ UNCHANGED win
        /\ UNCHANGED <<sc, cont, round, bufs, port, cache, left, result, readLen, rq, wq,
                       ip, dma, ddr, lost>>

OpenWindowHigh(t) ==
    LET l == loc[t]
    IN  /\ pc[t] = "high"
        /\ \/ /\ win' = [win EXCEPT ![l.bank].high = Page(l.addr) \div 2]
              /\ cache' = [cache EXCEPT ![l.bank] = Page(l.addr)]
              /\ Goto(t, "io") /\ UNCHANGED <<session, mutex, loc, faults>>
           \/ Fault /\ Fails(t) /\ UNCHANGED <<win, cache>>
        /\ UNCHANGED <<sc, cont, round, bufs, port, left, result, readLen, rq, wq,
                       ip, dma, ddr, lost>>

\* The beats of the span on the page, at the page the span extender shows.
Chunk(l) == Min2(l.n, Window - (l.addr % Window))
Shown(l) == (win[l.bank].low + 2 * win[l.bank].high) * Window + (l.addr % Window)

WriteDdr(t) ==
    LET l == loc[t]
        base == Shown(l)
    IN  /\ pc[t] = "io" /\ l.op = "write" /\ l.n > 0 /\ ~Miss(l)
        /\ \/ /\ ddr' = [ddr EXCEPT ![l.bank] = [a \in DOMAIN @ |->
                            IF a \in base..(base + Chunk(l) - 1)
                            THEN IF lost THEN Zeros ELSE l.data[a - base + 1]
                            ELSE @[a]]]
              /\ lost' = FALSE
              /\ Set(t, [l EXCEPT !.addr = @ + Chunk(l), !.n = @ - Chunk(l),
                                  !.data = SubSeq(@, Chunk(l) + 1, Len(@))])
              /\ UNCHANGED <<pc, session, mutex, faults>>
           \/ Fault /\ Fails(t) /\ UNCHANGED <<ddr, lost>>
        /\ UNCHANGED <<sc, cont, round, bufs, port, cache, left, result, win, readLen,
                       rq, wq, ip, dma>>

ReadDdr(t) ==
    LET l == loc[t]
        base == Shown(l)
    IN  /\ pc[t] = "io" /\ l.op = "read" /\ l.n > 0 /\ ~Miss(l)
        /\ \/ /\ Set(t, [l EXCEPT !.addr = @ + Chunk(l), !.n = @ - Chunk(l),
                                  !.data = @ \o [i \in 1..Chunk(l) |-> ddr[l.bank][base + i - 1]]])
              /\ UNCHANGED <<pc, session, mutex, faults>>
           \/ Fault /\ Fails(t)
        /\ UNCHANGED <<sc, cont, round, bufs, port, cache, left, result, board>>

IoDone(t) ==
    /\ pc[t] = "io" /\ loc[t].n = 0
    /\ Goto(t, cont[t])
    /\ UNCHANGED <<sc, loc, cont, faults, round, bufs, host, board>>

Io(t) == OpenWindowLow(t) \/ OpenWindowHigh(t) \/ WriteDdr(t) \/ ReadDdr(t) \/ IoDone(t)

-----------------------------------------------------------------------------
(* Inference requests.                                                     *)

\* Variant with a mistake: the hardware mutex is not taken.
StartPipelineUnlocked(r) ==
    /\ pc[r] = "idle" /\ pc[Main] = "ready"
    /\ Goto(r, "reset") /\ cont' = [cont EXCEPT ![r] = "infer"]
    /\ UNCHANGED <<sc, loc, faults, round, bufs, session, port, cache, left,
                   result, mutex, board>>

\* start_pipeline of the plugin takes the hardware mutex and resets first;
\* dla_benchmark and the demo have just done their second reset.
StartPipeline(r) ==
    /\ pc[r] = "idle" /\ pc[Main] = "ready"
    /\ IF sc.client = "plugin"
       THEN /\ mutex = "free" /\ mutex' = r
            /\ Goto(r, "reset") /\ cont' = [cont EXCEPT ![r] = "infer"]
       ELSE Goto(r, "infer") /\ UNCHANGED <<mutex, cont>>
    /\ UNCHANGED <<sc, loc, faults, round, bufs, session, port, cache, left, result, board>>

InputPlan == BuildBurstPlan(sc.tensors * InBeats, TRUE, MaxBurst, MaxReqs)
OutputPlan == BuildBurstPlan(sc.tensors * OutBeats, TRUE, MaxBurst, MaxReqs)

Held(r) == {Buf(r, k) : k \in {"src", "dst", "cmp"}} \cap DOMAIN bufs

\* run_inference of the OFS MMD: the port configuration and the size are
\* checked, the elements packed and both burst plans made.
OfsRunInference(r) ==
    /\ ofs /\ pc[r] = "infer"
    /\ \/ /\ session /\ port
          /\ InputPlan # <<>> /\ OutputPlan # <<>>
          /\ Goto(r, "allocSrc") /\ UNCHANGED <<session, mutex, loc, faults>>
       \/ /\ ~session \/ ~port \/ InputPlan = <<>> \/ OutputPlan = <<>>
          /\ Fails(r) /\ UNCHANGED faults
       \/ Fault /\ Fails(r)
    /\ UNCHANGED <<sc, cont, round, bufs, port, cache, left, result, board>>

\* The three shared buffers; a failed one leads to the cleanup of the others.
OfsAlloc(r, at, k, n, data, next) ==
    /\ pc[r] = at
    /\ \/ Alloc(Buf(r, k), n, data) /\ Goto(r, next) /\ UNCHANGED <<faults, cont>>
       \/ /\ Fault /\ Goto(r, "cleanup") /\ cont' = [cont EXCEPT ![r] = "failed"]
          /\ UNCHANGED bufs
    /\ UNCHANGED <<sc, loc, round, host, board>>

AllocSource(r) ==
    OfsAlloc(r, "allocSrc", "src", sc.tensors * InBeats, Input(r), "allocDst")
AllocDestination(r) ==
    OfsAlloc(r, "allocDst", "dst", sc.tensors * OutBeats,
             [j \in 1..(sc.tensors * OutBeats) |-> Junk], "allocCmp")
AllocCompletion(r) == OfsAlloc(r, "allocCmp", "cmp", 1, <<0>>, "submit")

Submit(r) ==
    /\ pc[r] = "submit"
    /\ Set(r, [NoLocals EXCEPT !.plan = InputPlan])
    /\ Goto(r, "reads")
    /\ UNCHANGED <<sc, cont, faults, round, bufs, host, board>>

\* issue_read_requests: the length of the first burst is always written.
IssueReadRequest(r) ==
    LET l == loc[r]
        b == l.plan[l.burst]
    IN  /\ pc[r] = "reads"
        /\ readLen' = b.len - 1
        /\ rq' = Append(rq, [buf |-> Buf(r, "src"), off |-> b.off, len |-> b.len,
                             bank |-> -1, addr |-> 0])
        /\ IF l.burst < Len(l.plan)
           THEN Set(r, [l EXCEPT !.burst = @ + 1]) /\ UNCHANGED pc
           ELSE Set(r, [NoLocals EXCEPT !.plan = OutputPlan]) /\ Goto(r, "writes")
        /\ UNCHANGED <<sc, cont, faults, round, bufs, host, win, wq, ip, dma, ddr, lost>>

\* Variant with a mistake: the completion flag is set on the
\* first burst instead of the last.
IssueWriteRequestFlagsFirst(r) ==
    LET l == loc[r]
        b == l.plan[l.burst]
    IN  /\ pc[r] = "writes"
        /\ wq' = Append(wq, [buf |-> Buf(r, "dst"), off |-> b.off, len |-> b.len,
                             last |-> l.burst = 1, cmp |-> Buf(r, "cmp")])
        /\ IF l.burst < Len(l.plan)
           THEN Set(r, [l EXCEPT !.burst = @ + 1]) /\ UNCHANGED pc
           ELSE UNCHANGED loc /\ Goto(r, "poll")
        /\ UNCHANGED <<sc, cont, faults, round, bufs, host, win, readLen, rq, ip, dma, ddr, lost>>

\* issue_write_requests: the last one asks for the completion.
IssueWriteRequest(r) ==
    LET l == loc[r]
        b == l.plan[l.burst]
    IN  /\ pc[r] = "writes"
        /\ wq' = Append(wq, [buf |-> Buf(r, "dst"), off |-> b.off, len |-> b.len,
                             last |-> l.burst = Len(l.plan), cmp |-> Buf(r, "cmp")])
        /\ IF l.burst < Len(l.plan)
           THEN Set(r, [l EXCEPT !.burst = @ + 1]) /\ UNCHANGED pc
           ELSE UNCHANGED loc /\ Goto(r, "poll")
        /\ UNCHANGED <<sc, cont, faults, round, bufs, host, win, readLen, rq, ip, dma, ddr, lost>>

\* The poll of the completion buffer, then the unpacking of the outputs.
PollCompletion(r) ==
    /\ pc[r] = "poll" /\ bufs[Buf(r, "cmp")].data = <<1>>
    /\ result' = [result EXCEPT ![r] = bufs[Buf(r, "dst")].data]
    /\ Goto(r, "cleanup") /\ cont' = [cont EXCEPT ![r] = "done"]
    /\ UNCHANGED <<sc, loc, faults, round, bufs, session, port, cache, mutex, left, board>>

\* cleanup: only the buffers that were allocated are released; start_pipeline
\* then lets the mutex go.
Cleanup(r) ==
    /\ pc[r] = "cleanup"
    /\ Release(Held(r))
    /\ Goto(r, cont[r])
    /\ mutex' = IF mutex = r THEN "free" ELSE mutex
    /\ loc' = [loc EXCEPT ![r] = NoLocals]
    /\ UNCHANGED <<sc, cont, faults, round, session, port, cache, left, result, board>>

OfsLoadWeights == sc.backend = "ofs" /\ (OfsLoadChunk \/ WeightBurst \/ WeightsProcessed)
OfsRequest(r) == /\ sc.backend = "ofs"
                 /\ \/ OfsRunInference(r) \/ AllocSource(r) \/ AllocDestination(r)
                    \/ AllocCompletion(r) \/ Submit(r) \/ IssueReadRequest(r)
                    \/ IssueWriteRequest(r) \/ PollCompletion(r) \/ Cleanup(r)

\* The demo's functions take the steps of the MMD: load_weights in chunks,
\* run_inference with its plans, its buffers, its bursts, and its releases.
DemoLoadWeights == sc.backend = "demo" /\ (OfsLoadChunk \/ WeightBurst \/ WeightsProcessed)
DemoMakePlans(r) == sc.backend = "demo" /\ OfsRunInference(r)
DemoBuffers(r) == /\ sc.backend = "demo"
                  /\ AllocSource(r) \/ AllocDestination(r) \/ AllocCompletion(r) \/ Submit(r)
DemoIssueRequests(r) == sc.backend = "demo" /\ (IssueReadRequest(r) \/ IssueWriteRequest(r))
DemoFinish(r) == sc.backend = "demo" /\ (PollCompletion(r) \/ Cleanup(r))
DemoRunInference(r) == DemoMakePlans(r) \/ DemoBuffers(r) \/ DemoIssueRequests(r) \/ DemoFinish(r)

\* run_inference of the JTAG MMD: the checks, then the staging of the input.
Fits(g, beats) == SubvectorsPerBeat(g) > 0 /\ beats \in 1..Window

JtagRunInference(r) ==
    LET ok == /\ session /\ port
              /\ Fits(sc.gin, sc.tensors * InBeats)
              /\ SubvectorsPerBeat(sc.gout) > 0
    IN  /\ ~ofs /\ pc[r] = "infer"
        /\ IF ok
           THEN /\ Set(r, [NoLocals EXCEPT !.op = "write", !.bank = FeatureBank,
                             !.addr = InputBase, !.n = sc.tensors * InBeats, !.data = Input(r)])
                /\ Goto(r, "io") /\ cont' = [cont EXCEPT ![r] = "queueOut"]
                /\ UNCHANGED <<session, mutex>>
           ELSE Fails(r) /\ UNCHANGED cont
        /\ UNCHANGED <<sc, faults, round, bufs, port, cache, left, result, board>>

\* queue_descriptor checks the region again; output goes before input.
QueueOutput(r) ==
    /\ pc[r] = "queueOut"
    /\ \/ /\ Fits(sc.gout, sc.tensors * OutBeats)
          /\ dma' = [dma EXCEPT !.out = Append(@, sc.tensors * OutBeats)]
          /\ Goto(r, "queueIn") /\ UNCHANGED <<session, mutex, loc, faults>>
       \/ ~Fits(sc.gout, sc.tensors * OutBeats) /\ Fails(r) /\ UNCHANGED <<dma, faults>>
       \/ Fault /\ Fails(r) /\ UNCHANGED dma
    /\ UNCHANGED <<sc, cont, round, bufs, port, cache, left, result, win, readLen, rq, wq,
                   ip, ddr, lost>>

QueueInput(r) ==
    /\ pc[r] = "queueIn"
    /\ \/ /\ dma' = [dma EXCEPT !.in = Append(@, sc.tensors * InBeats)]
          /\ Goto(r, "waitIn") /\ UNCHANGED <<session, mutex, loc, faults>>
       \/ Fault /\ Fails(r) /\ UNCHANGED dma
    /\ UNCHANGED <<sc, cont, round, bufs, port, cache, left, result, win, readLen, rq, wq,
                   ip, ddr, lost>>

\* kStatusTransferDone: no descriptor left and a response parked.
TransferFinished(queue, responses) == queue = <<>> /\ responses > 0

\* wait_for_transfer: done, or the poll gives up after kTransferTimeoutCount.
WaitForInput(r) ==
    /\ pc[r] = "waitIn"
    /\ \/ /\ TransferFinished(dma.in, dma.rin)
          /\ Goto(r, "waitOut") /\ UNCHANGED <<session, mutex, loc, faults>>
       \/ Fault /\ Fails(r)
    /\ UNCHANGED <<sc, cont, round, bufs, port, cache, left, result, board>>

WaitForOutput(r) ==
    /\ pc[r] = "waitOut"
    /\ \/ /\ TransferFinished(dma.out, dma.rout)
          /\ Set(r, [NoLocals EXCEPT !.op = "read", !.bank = FeatureBank,
                        !.addr = OutputBase, !.n = sc.tensors * OutBeats])
          /\ Goto(r, "io") /\ cont' = [cont EXCEPT ![r] = "unpack"]
          /\ UNCHANGED <<session, mutex, faults>>
       \/ Fault /\ Fails(r) /\ UNCHANGED cont
    /\ UNCHANGED <<sc, round, bufs, port, cache, left, result, board>>

\* unpack_tensor and the two clear_dma_responses, one response each; a
\* failure there still turns the call into an error.
ClearDmaResponses(r) ==
    /\ pc[r] = "unpack"
    /\ \/ /\ dma' = [dma EXCEPT !.rin = @ - 1, !.rout = @ - 1]
          /\ result' = [result EXCEPT ![r] = loc[r].data]
          /\ Goto(r, "done")
          /\ mutex' = IF mutex = r THEN "free" ELSE mutex
          /\ loc' = [loc EXCEPT ![r] = NoLocals]
          /\ UNCHANGED <<session, faults>>
       \/ /\ Fault /\ Fails(r) /\ UNCHANGED result
          /\ dma' \in {dma, [dma EXCEPT !.rin = @ - 1]}
    /\ UNCHANGED <<sc, cont, round, bufs, port, cache, left, win, readLen, rq, wq, ip, ddr, lost>>

JtagRequest(r) == \/ JtagRunInference(r) \/ QueueOutput(r) \/ QueueInput(r)
                  \/ WaitForInput(r) \/ WaitForOutput(r) \/ ClearDmaResponses(r)

\* The client is finished with its requests: the model is released, or the
\* program ends.  The plugin's process may import again.
Disconnect ==
    /\ pc[Main] = "ready"
    /\ \A r \in sc.reqs : pc[r] \in {"done", "failed"}
    /\ session' = FALSE
    /\ Goto(Main, "end")
    /\ UNCHANGED <<sc, cont, loc, faults, round, bufs, port, cache, mutex, left, result, board>>

ImportAgain ==
    /\ sc.client = "plugin" /\ round < MaxRounds
    /\ pc[Main] \in {"end", "failed"}
    /\ round' = round + 1
    /\ pc' = [t \in Threads |-> IF t = Main THEN "config" ELSE "idle"]
    /\ left' = DOMAIN sc.files
    /\ result' = [r \in sc.reqs |-> <<>>]
    /\ UNCHANGED <<sc, cont, loc, faults, bufs, session, port, cache, mutex, board>>

-----------------------------------------------------------------------------
(* The board.                                                              *)

Beats(q) == [i \in 1..q.len |-> IF q.off + i <= bufs[q.buf].n
                                THEN bufs[q.buf].data[q.off + i] ELSE Junk]

\* A read burst goes to the DDR bank or, for destination 15, to the IP.
BoardReads ==
    /\ rq # <<>>
    /\ LET q == Head(rq)
       IN  IF q.bank = -1
           THEN ip' = [ip EXCEPT !.in = @ \o Beats(q)] /\ UNCHANGED ddr
           ELSE /\ ddr' = [ddr EXCEPT ![q.bank] = [a \in DOMAIN @ |->
                              IF a \in q.addr..(q.addr + q.len - 1)
                              THEN Beats(q)[a - q.addr + 1] ELSE @[a]]]
                /\ UNCHANGED ip
    /\ rq' = Tail(rq)
    /\ UNCHANGED <<sc, pc, cont, loc, faults, round, bufs, host, win, readLen, wq, dma, lost>>

\* A write burst waits for the IP's output.
BoardWrites ==
    /\ wq # <<>>
    /\ LET q == Head(wq)
       IN  /\ ip.out + q.len <= Produced(ip.in)
           /\ bufs' = [b \in DOMAIN bufs |->
                 CASE b = q.buf -> [bufs[b] EXCEPT !.data = [i \in DOMAIN @ |->
                                      IF i \in (q.off + 1)..(q.off + q.len)
                                      THEN OutputBeat(ip.in, ip.out + i - q.off) ELSE @[i]]]
                   [] b = q.cmp /\ q.last -> [bufs[b] EXCEPT !.data = <<1>>]
                   [] OTHER -> bufs[b]]
           /\ ip' = [ip EXCEPT !.out = @ + q.len]
    /\ wq' = Tail(wq)
    /\ UNCHANGED <<sc, pc, cont, loc, faults, round, host, win, readLen, rq, dma, ddr, lost>>

\* The mSGDMAs of the JTAG design: feature region to IP, IP to feature region.
Ingress ==
    /\ dma.in # <<>>
    /\ ip' = [ip EXCEPT !.in = @ \o [i \in 1..Head(dma.in) |-> ddr[FeatureBank][InputBase + i - 1]]]
    /\ dma' = [dma EXCEPT !.in = Tail(@), !.rin = @ + 1]
    /\ UNCHANGED <<sc, pc, cont, loc, faults, round, bufs, host, win, readLen, rq, wq, ddr, lost>>

Egress ==
    /\ dma.out # <<>>
    /\ ip.out + Head(dma.out) <= Produced(ip.in)
    /\ ddr' = [ddr EXCEPT ![FeatureBank] = [a \in DOMAIN @ |->
                  IF a \in OutputBase..(OutputBase + Head(dma.out) - 1)
                  THEN OutputBeat(ip.in, ip.out + a - OutputBase + 1) ELSE @[a]]]
    /\ ip' = [ip EXCEPT !.out = @ + Head(dma.out)]
    /\ dma' = [dma EXCEPT !.out = Tail(@), !.rout = @ + 1]
    /\ UNCHANGED <<sc, pc, cont, loc, faults, round, bufs, host, win, readLen, rq, wq, lost>>

-----------------------------------------------------------------------------
Client == \/ LoadPortConfig \/ DemoLoadData \/ ConnectToFpga \/ DemoConnect
          \/ LoadWeights \/ LoadWeightsFromFile \/ OfsLoadWeights \/ DemoLoadWeights
          \/ VerifyWeightWrite \/ CompareHead \/ Reset(Main) \/ Io(Main) \/ Disconnect
Request(r) == \/ StartPipeline(r) \/ Reset(r) \/ Io(r) \/ OfsRequest(r)
              \/ DemoRunInference(r) \/ JtagRequest(r)

Next == \/ Client \/ ImportAgain
        \/ \E r \in sc.reqs : Request(r)
        \/ BoardReads \/ BoardWrites \/ Ingress \/ Egress

Spec == Init /\ [][Next]_vars
AllRequests == {"r1", "r2"}
FairSpec == /\ Spec
            /\ WF_vars(Client)
            /\ \A r \in AllRequests : WF_vars(r \in sc.reqs /\ Request(r))
            /\ WF_vars(BoardReads) /\ WF_vars(BoardWrites)
            /\ WF_vars(Ingress) /\ WF_vars(Egress)

-----------------------------------------------------------------------------
(* Properties.                                                             *)

\* Every layout agrees with the bus: subvectors of a transfer from its lowest
\* bit, the rest of it unused, and no bit past the transfers of the packet.
\* pack_data leaves each bit of each element there and nothing else or-ed to
\* it, and unpack_data takes each bit of an element, and no other, from there,
\* whatever the build makes of the masks (mmd.cpp:452-455, 492-494);
\* pack_tensor and unpack_tensor do up to the reversal of bytes, which both
\* undo.  For elements of fewer than 64 bits on OFS.
LayoutMatchesBus ==
    port /\ pc[Main] = "connect" =>
    \A g \in {sc.gin, sc.gout} :
        LET width == IF ofs THEN HostBusBits ELSE StreamWidth
            per == width \div (g.w * g.l)
            Bit(i, k) == width * ((i \div g.l) \div per)
                         + g.w * g.l * ((i \div g.l) % per) + g.w * (i % g.l) + k
        IN  per > 0 =>
            /\ \A i \in Elements(g), k \in Bits(g) : Bit(i, k) < width * PortBeats(g)
            /\ ofs => \A m \in FieldMasks(g.w) :
                  LET packed == PackData(g, m)
                  IN  \A i \in Elements(g) :
                         /\ \A k \in Bits(g) : packed[Bit(i, k)] = {<<i, k>>}
                         /\ UnpackData(g, m, i) = {<<k, Bit(i, k)>> : k \in Bits(g)}
            /\ ~ofs => \A i \in Elements(g), k \in Bits(g) :
                  /\ PackTensor(g, i, k) = UnpackTensor(g, i, k)
                  /\ PackTensor(g, i, k) \div width = Bit(i, k) \div width
                  /\ SwapBeatBytes(PackTensor(g, i, k) % width) = Bit(i, k) % width

\* While a session is ready, and through all its inferences, the banks hold
\* the weights of this import where the file names put them.
WeightsInPlace ==
    pc[Main] = "ready" =>
        \A f \in DOMAIN sc.files : \A i \in 1..sc.files[f].beats :
            ddr[sc.files[f].bank][sc.files[f].addr + i - 1] = WeightBeat(f, i)

\* An inference that returns 0 returns the outputs of its own inputs.
InferenceReturnsItsOutputs ==
    \A r \in sc.reqs : pc[r] = "done" => result[r] = Expected(r)

\* The board only ever has to read or write inside a shared buffer that the
\* host still holds, and a finished call holds none.
DmaInsideHeldBuffers ==
    /\ \A i \in DOMAIN rq : bufs[rq[i].buf].live /\ rq[i].off + rq[i].len <= bufs[rq[i].buf].n
    /\ \A i \in DOMAIN wq : bufs[wq[i].buf].live /\ bufs[wq[i].cmp].live
    /\ \A r \in sc.reqs : pc[r] \in {"done", "failed"} =>
          \A b \in Held(r) : ~bufs[b].live

\* Every inference that is started returns, with a result or an error.
EveryInferenceReturns ==
    \A r \in AllRequests :
        (r \in sc.reqs /\ pc[r] \in {"reset", "infer"})
            ~> (r \in sc.reqs /\ pc[r] \in {"done", "failed"})
=============================================================================
