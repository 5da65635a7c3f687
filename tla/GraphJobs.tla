----------------------------- MODULE GraphJobs ------------------------------
(***************************************************************************)
(* Graph jobs on one CoreDLA instance: the constructor of CoreDlaGraphJob  *)
(* takes its buffers from the DDR allocator, one call after the other,     *)
(* and lays out one input/output buffer pair per pipeline; each pair       *)
(* belongs to a batch job that GetBatchJob hands out.  Any of the calls    *)
(* may throw, which abandons the graph job but not what it allocated.      *)
(***************************************************************************)
EXTENDS DdrAllocator, Sequences, FiniteSets

CONSTANTS
    Graphs,         \* the compiled graphs that may be loaded (GraphShape)
    BurstBytes,     \* kMsgDMAMaxBurstBytes
    WordBytes,      \* featureWordSize and filterWordSize
    MaxLoads        \* bound: how many graph jobs are constructed

\* What the constructor reads of a compiled result and its architecture.
GraphShape == [intermediate : Nat, input : Nat \ {0}, output : Nat \ {0},
               config : Nat, istream : BOOLEAN, ostream : BOOLEAN, pipelines : Nat]

ASSUME GraphsAssumption == /\ Graphs \subseteq GraphShape
                           /\ BurstBytes \in Nat \ {0}
                           /\ WordBytes \in Nat \ {0}
                           /\ MaxLoads \in Nat

VARIABLES
    loading,    \* the graph under construction, and how far it is
    loads,      \* constructions started
    graphJobs   \* the graph jobs that exist: their batch jobs, config, count
                \* of batch jobs handed out

gvars == <<ddrVars, loading, loads, graphJobs>>

NotLoading == [step |-> "none"]

\* pad_to_burst, that is nextDivisible(size, kMaxBurstSize).
PadToBurst(size) == ((size + BurstBytes - 1) \div BurstBytes) * BurstBytes

\* Streaming sizes are rounded by the architecture and by the MMD layer, to
\* bus words.
PadToWord(size) == ((size + WordBytes - 1) \div WordBytes) * WordBytes

InputSizeDDR(g) == IF g.istream THEN PadToWord(g.input) ELSE PadToBurst(g.input)
OutputSizeDDR(g) == IF g.ostream THEN PadToWord(g.output) ELSE PadToBurst(g.output)

\* Variant with a mistake: the buffer has room for the unpadded sizes.
InputOutputBufferSizeUnpadded(g) ==
    (IF g.istream THEN 0 ELSE g.pipelines * g.input)
    + (IF g.ostream THEN 0 ELSE g.pipelines * g.output)

InputOutputBufferSize(g) ==
    (IF g.istream THEN 0 ELSE g.pipelines * InputSizeDDR(g))
    + (IF g.ostream THEN 0 ELSE g.pipelines * OutputSizeDDR(g))

\* Variant with a mistake: pipelines are an input buffer apart.
BatchJobsTooClose(g, base) ==
    [i \in 1 .. g.pipelines |->
        LET input == base + (i - 1) * InputSizeDDR(g)
        IN  [input |-> input, output |-> input + InputSizeDDR(g)]]

\* The batch jobs: where pipeline i has its input and its output.
BatchJobs(g, base) ==
    [i \in 1 .. g.pipelines |->
        LET input == base + (i - 1) * (InputSizeDDR(g) + OutputSizeDDR(g))
        IN  [input |-> input, output |-> input + InputSizeDDR(g)]]

-----------------------------------------------------------------------------
(* CreateGraphJob, call by call.                                           *)

BeginLoad ==
    /\ loading = NotLoading
    /\ loads < MaxLoads
    /\ \E g \in Graphs : loading' = [step |-> "shared", graph |-> g, base |-> 0]
    /\ loads' = loads + 1
    /\ UNCHANGED <<ddrVars, graphJobs>>

LoadShared ==
    /\ loading.step = "shared"
    /\ LET size == PadToBurst(loading.graph.intermediate)
       IN  \/ /\ AllocateSharedBuffer(size)
              /\ loading' = [loading EXCEPT !.step = "inputOutput"]
           \/ SharedBufferThrows(size) /\ loading' = NotLoading
    /\ UNCHANGED <<loads, graphJobs>>

LoadInputOutput ==
    /\ loading.step = "inputOutput"
    /\ LET size == InputOutputBufferSize(loading.graph)
       IN  \/ /\ size = 0
              /\ loading' = [loading EXCEPT !.step = "config"]
              /\ UNCHANGED ddrVars
           \/ /\ size > 0
              /\ AllocatePrivateBuffer(size, WordBytes)
              /\ loading' = [loading EXCEPT !.step = "config",
                                            !.base = startAddress']
           \/ /\ size > 0 /\ ~PrivateFits(size, WordBytes)
              /\ loading' = NotLoading
              /\ UNCHANGED ddrVars
    /\ UNCHANGED <<loads, graphJobs>>

\* The config/filter buffer, the last step that may throw; then the batch
\* jobs are made.
Finish(configAddr) ==
    /\ graphJobs' = Append(graphJobs,
                           [graph |-> loading.graph,
                            config |-> configAddr,
                            batchJobs |-> BatchJobs(loading.graph, loading.base),
                            requested |-> 0])
    /\ loading' = NotLoading

LoadConfig ==
    /\ loading.step = "config"
    /\ LET size == loading.graph.config
       IN  \/ size = 0 /\ Finish(0) /\ UNCHANGED ddrVars
           \/ size > 0 /\ AllocatePrivateBuffer(size, WordBytes) /\ Finish(startAddress')
           \/ /\ size > 0 /\ ~PrivateFits(size, WordBytes)
              /\ loading' = NotLoading
              /\ UNCHANGED <<ddrVars, graphJobs>>
    /\ UNCHANGED loads

\* GetBatchJob hands out the next batch job, under graphJobMutex; when none
\* is left it returns nullptr and changes nothing.
GetBatchJob ==
    /\ \E k \in DOMAIN graphJobs :
          /\ graphJobs[k].requested < Len(graphJobs[k].batchJobs)
          /\ graphJobs' = [graphJobs EXCEPT ![k].requested = @ + 1]
    /\ UNCHANGED <<ddrVars, loading, loads>>

\* The device is destroyed, its graph jobs and its allocator with it, and
\* another one is created.
DestroyDevice ==
    /\ loading = NotLoading
    /\ Clear
    /\ graphJobs' = <<>>
    /\ UNCHANGED <<loading, loads>>

GInit == InitDdr /\ loading = NotLoading /\ loads = 0 /\ graphJobs = <<>>

GNext == \/ CallersGoOn /\ (BeginLoad \/ LoadShared \/ LoadInputOutput \/ LoadConfig)
         \/ GetBatchJob
         \/ DestroyDevice

GSpec == GInit /\ [][GNext]_gvars

-----------------------------------------------------------------------------
(* Properties.                                                             *)

Extent(addr, size) == [addr |-> addr, size |-> size]

\* The memory that a batch job handed out reads and writes: its input unless
\* it is streamed in, its output unless it is streamed out.
BatchExtents(k, i) ==
    LET g == graphJobs[k].graph
        b == graphJobs[k].batchJobs[i]
    IN  (IF g.istream THEN {} ELSE {Extent(b.input, InputSizeDDR(g))})
        \cup (IF g.ostream THEN {} ELSE {Extent(b.output, OutputSizeDDR(g))})

HandedOut == UNION {{<<k, i>> : i \in 1 .. graphJobs[k].requested} :
                       k \in DOMAIN graphJobs}

\* Batch jobs of graphs that stream both their input and their output, or
\* neither.
StreamsAlike(g) == g.istream = g.ostream
HandedOutAlike == {p \in HandedOut : StreamsAlike(graphJobs[p[1]].graph)}

Inside(p) ==
    \A e \in BatchExtents(p[1], p[2]) :
        \E b \in buffers : b.addr <= e.addr /\ e.addr + e.size <= b.addr + b.size

\* A batch job stays inside the buffer its graph allocated, "using offsets
\* within this big buffer for each pipeline", if the graph streams alike,
\* whatever other graphs are loaded.  Of graphs that stream one way it is not
\* true: the constructor leaves the streamed direction out of the size but not
\* out of the offsets.
BatchJobsInsideBuffer == \A p \in HandedOutAlike : Inside(p)

\* Two inferences in flight, of graphs that stream alike, never touch the same
\* memory, whichever graphs and pipelines they belong to, and never the
\* configuration of any graph loaded or the intermediate buffer.  What a graph
\* that streams one way touches is not said here.
InferencesIsolated ==
    \A p \in HandedOutAlike : \A e \in BatchExtents(p[1], p[2]) :
        /\ \A q \in HandedOutAlike \ {p} : \A f \in BatchExtents(q[1], q[2]) :
              ~Overlaps(e, f)
        /\ \A k \in DOMAIN graphJobs : graphJobs[k].graph.config > 0 =>
              ~Overlaps(e, Extent(graphJobs[k].config, graphJobs[k].graph.config))
        /\ \A k \in DOMAIN graphJobs :
              PadToBurst(graphJobs[k].graph.intermediate) <= e.addr

=============================================================================
