--------------------------- MODULE RuntimeProofs ----------------------------
(***************************************************************************)
(* Proofs about the memory and the completion of inferences in             *)
(* CoreDlaDevice.                                                          *)
(*                                                                         *)
(* The DDR allocator keeps its buffers apart for every memory size, every  *)
(* set of request sizes and every set of alignments, as long as its        *)
(* callers stop after a shared request has thrown; and so it implements    *)
(* MemoryRegions.  Graph jobs of one instance never share memory, for      *)
(* every set of graphs, every size of the memory and any number of graph   *)
(* jobs, under the same condition.  The batch jobs of graphs that stream   *)
(* both ways or not at all lie inside what they allocated and collide with *)
(* nothing, whatever else is loaded; of graphs that stream one way only    *)
(* this is not true, see BatchJobsInsideBuffer.                            *)
(*                                                                         *)
(* WaitForDla never reports a job before it is done, for any number of     *)
(* instances and any width of the completion register, in both builds.     *)
(* The interrupt build needs the ISR's extension of the register to be     *)
(* exact, and therefore a register that is not about to wrap when the      *)
(* device is opened (FirstWrapIsSeen below); the polling build works on    *)
(* the register itself.                                                    *)
(***************************************************************************)
EXTENDS GraphJobs, DlaCompletion, TLAPS

-----------------------------------------------------------------------------
(* The allocator.                                                          *)

\* The promise of the allocator follows from where its two bounds are: all
\* private buffers are at or above startAddress, and the part of the shared
\* buffer that was granted is below it.
DdrInv ==
    /\ DdrTypeOK
    /\ granted <= intermediateMax
    /\ granted <= startAddress
    /\ ~growthFailed => intermediateMax <= startAddress
    /\ \A b \in buffers : startAddress <= b.addr
    /\ PrivateBuffersDisjoint

\* The remainder that AllocatePrivateBuffer subtracts is less than the
\* alignment.
LEMMA RemainderBound ==
    ASSUME NEW n \in Nat, NEW m \in Nat \ {0}
    PROVE  n % m \in Nat /\ n % m < m
OBVIOUS

\* The address that AllocatePrivateBuffer chooses leaves room for the buffer
\* below the old start address and does not reach the shared buffer.
LEMMA PrivateAddressBounds ==
    ASSUME DdrTypeOK,
           NEW size \in Nat \ {0}, NEW alignment \in Nat \ {0},
           PrivateFits(size, alignment)
    PROVE  /\ PrivateAddress(size, alignment) \in Nat
           /\ PrivateAddress(size, alignment) + size <= startAddress
           /\ intermediateMax <= PrivateAddress(size, alignment)
<1> DEFINE free == startAddress - size
<1>1. /\ startAddress \in Nat /\ intermediateMax \in Nat
      /\ intermediateMax + size + alignment <= startAddress
  BY DdrAssumption DEF DdrTypeOK, PrivateFits
<1>2. free \in Nat
  BY <1>1
<1>3. free % alignment \in Nat /\ free % alignment < alignment
  BY <1>2, RemainderBound
<1>4. PrivateAddress(size, alignment) = free - (free % alignment)
  BY DEF PrivateAddress
<1> HIDE DEF free
<1>5. free = startAddress - size
  BY DEF free
<1> QED
  BY <1>1, <1>2, <1>3, <1>4, <1>5

\* The empty memory that Initialize sets up satisfies the invariant.
LEMMA DdrInvInit == InitDdr => DdrInv
<1> SUFFICES ASSUME InitDdr PROVE DdrInv
  OBVIOUS
<1>1. /\ intermediateMax = 0 /\ startAddress = TotalSize
      /\ buffers = {} /\ granted = 0 /\ TotalSize \in Nat
  BY DdrAssumption DEF InitDdr
<1>2. growthFailed \in BOOLEAN
  BY Zenon DEF InitDdr
<1> QED
  BY <1>1, <1>2 DEF DdrInv, DdrTypeOK, PrivateBuffersDisjoint

\* A request for the shared buffer that is granted preserves the invariant.
LEMMA SharedKeepsInv ==
    ASSUME DdrInv, NEW size \in Nat, ~growthFailed, AllocateSharedBuffer(size)
    PROVE  DdrInv'
  BY DdrAssumption
  DEF AllocateSharedBuffer, Grant, DdrInv, DdrTypeOK, PrivateBuffersDisjoint, Overlaps

\* A request that throws moves the bound of the shared buffer, and no caller
\* was given what it asked for.
LEMMA ThrowKeepsInv ==
    ASSUME DdrInv, NEW size \in Nat, SharedBufferThrows(size)
    PROVE  DdrInv'
  BY DdrAssumption
  DEF SharedBufferThrows, DdrInv, DdrTypeOK, PrivateBuffersDisjoint, Overlaps

\* A private buffer is placed below all others and above the shared one.
LEMMA PrivatePlaced ==
    ASSUME DdrInv, NEW size \in Nat \ {0}, NEW alignment \in Nat \ {0},
           AllocatePrivateBuffer(size, alignment)
    PROVE  \E addr \in Nat :
              /\ startAddress' = addr
              /\ buffers' = buffers \cup {[addr |-> addr, size |-> size]}
              /\ addr + size <= startAddress /\ intermediateMax <= addr
              /\ UNCHANGED <<intermediateMax, granted, growthFailed>>
  BY PrivateAddressBounds DEF DdrInv, AllocatePrivateBuffer

LEMMA PrivateKeepsInv ==
    ASSUME DdrInv, NEW size \in Nat \ {0}, NEW alignment \in Nat \ {0}, ~growthFailed,
           AllocatePrivateBuffer(size, alignment)
    PROVE  DdrInv'
<1> USE DdrAssumption
<1>1. PICK addr \in Nat :
         /\ startAddress' = addr
         /\ buffers' = buffers \cup {[addr |-> addr, size |-> size]}
         /\ addr + size <= startAddress /\ intermediateMax <= addr
         /\ UNCHANGED <<intermediateMax, granted, growthFailed>>
  BY PrivatePlaced
<1> DEFINE new == [addr |-> addr, size |-> size]
<1>2. DdrTypeOK'
  BY <1>1 DEF DdrInv, DdrTypeOK
<1>3. granted' <= intermediateMax' /\ granted' <= startAddress'
  BY <1>1 DEF DdrInv, DdrTypeOK
<1>4. \A b \in buffers' : startAddress' <= b.addr
  BY <1>1 DEF DdrInv, DdrTypeOK
<1>5. PrivateBuffersDisjoint'
  <2>1. \A b \in buffers' : b.addr + b.size <= TotalSize
    BY <1>1 DEF DdrInv, DdrTypeOK, PrivateBuffersDisjoint
  <2>2. \A b \in buffers : ~Overlaps(b, new) /\ ~Overlaps(new, b)
    BY <1>1 DEF DdrInv, DdrTypeOK, Overlaps
  <2>3. \A b, c \in buffers' : b # c => ~Overlaps(b, c)
    BY <1>1, <2>2 DEF DdrInv, PrivateBuffersDisjoint
  <2> QED
    BY <2>1, <2>3 DEF PrivateBuffersDisjoint
<1>6. intermediateMax' <= startAddress'
  BY <1>1
<1> QED
  BY <1>2, <1>3, <1>4, <1>5, <1>6 DEF DdrInv

\* Clear leaves an empty memory.
LEMMA ClearKeepsInv == ASSUME Clear PROVE DdrInv'
<1>1. /\ intermediateMax' = 0 /\ startAddress' = TotalSize
      /\ buffers' = {} /\ granted' = 0 /\ TotalSize \in Nat
  BY DdrAssumption DEF Clear
<1>2. growthFailed' \in BOOLEAN
  BY Zenon DEF Clear
<1> QED
  BY <1>1, <1>2 DEF DdrInv, DdrTypeOK, PrivateBuffersDisjoint

LEMMA StutterKeepsInv == ASSUME DdrInv, UNCHANGED ddrVars PROVE DdrInv'
  BY DEF ddrVars, DdrInv, DdrTypeOK, PrivateBuffersDisjoint, Overlaps

\* Every call of the allocator preserves the invariant while callers give up
\* after a failed growth.
LEMMA DdrInvNext ==
    ASSUME RetryAfterFailedGrowth = FALSE, DdrInv, [NextDdr]_ddrVars
    PROVE  DdrInv'
<1> USE DdrAssumption
<1>1. ASSUME NEW size \in SharedSizes,
             CallersGoOn /\ (AllocateSharedBuffer(size) \/ SharedBufferThrows(size))
      PROVE  DdrInv'
  BY <1>1, SharedKeepsInv, ThrowKeepsInv DEF CallersGoOn
<1>2. ASSUME NEW size \in PrivateSizes, NEW alignment \in Alignments,
             CallersGoOn /\ AllocatePrivateBuffer(size, alignment)
      PROVE  DdrInv'
  BY <1>2, PrivateKeepsInv DEF CallersGoOn
<1>3. CASE Clear
  BY <1>3, ClearKeepsInv
<1>4. CASE UNCHANGED ddrVars
  BY <1>4, StutterKeepsInv
<1> QED
  BY <1>1, <1>2, <1>3, <1>4 DEF NextDdr

\* For every memory size and every sequence of requests, the bounds of the
\* allocator keep DdrInv.
THEOREM DdrInvariant == RetryAfterFailedGrowth = FALSE => (SpecDdr => []DdrInv)
<1>1. SUFFICES ASSUME RetryAfterFailedGrowth = FALSE
               PROVE  SpecDdr => []DdrInv
  OBVIOUS
<1>2. DdrInv /\ [NextDdr]_ddrVars => DdrInv'
  BY <1>1, DdrInvNext
<1> QED
  BY <1>2, DdrInvInit, PTL DEF SpecDdr
\* The private buffers AllocatePrivateBuffer hands out never overlap.
THEOREM BuffersDisjoint ==
    RetryAfterFailedGrowth = FALSE => (SpecDdr => []PrivateBuffersDisjoint)
<1>1. DdrInv => PrivateBuffersDisjoint
  BY DEF DdrInv
<1> QED
  BY <1>1, DdrInvariant, PTL

\* No graph's intermediate data reaches a private buffer.
THEOREM SharedStaysBelow ==
    RetryAfterFailedGrowth = FALSE => (SpecDdr => []SharedBelowPrivate)
<1>1. DdrInv => SharedBelowPrivate
  BY DdrAssumption DEF DdrInv, SharedBelowPrivate, DdrTypeOK
<1> QED
  BY <1>1, DdrInvariant, PTL

\* What callers are given of the shared buffer is below every private buffer.
LEMMA SharedRefines ==
    ASSUME DdrInv, NEW size \in Nat, ~growthFailed, AllocateSharedBuffer(size)
    PROVE  [Regions!Next]_<<granted, buffers>>
<1> USE DdrAssumption
<1>1. CASE granted' = granted
  BY <1>1 DEF AllocateSharedBuffer
<1>2. CASE granted' # granted
  <2>1. granted' = size /\ size \in Nat /\ size > granted /\ buffers' = buffers
    BY <1>2 DEF AllocateSharedBuffer, Grant, DdrInv, DdrTypeOK
  <2>2. size <= startAddress
    BY <2>1 DEF AllocateSharedBuffer, DdrInv, DdrTypeOK
  <2>3. size \in 0 .. TotalSize
    BY <2>1, <2>2 DEF DdrInv, DdrTypeOK
  <2>4. \A r \in buffers : size <= r.addr
    BY <2>1, <2>2 DEF DdrInv, DdrTypeOK
  <2>5. Regions!GrowShared
    BY <2>1, <2>3, <2>4 DEF Regions!GrowShared
  <2> QED
    BY <2>5 DEF Regions!Next
<1> QED
  BY <1>1, <1>2

\* A private buffer is a free region.
LEMMA PrivateRefines ==
    ASSUME DdrInv, NEW size \in Nat \ {0}, NEW alignment \in Nat \ {0},
           AllocatePrivateBuffer(size, alignment)
    PROVE  [Regions!Next]_<<granted, buffers>>
<1> USE DdrAssumption
<1>1. PICK addr \in Nat :
         /\ startAddress' = addr /\ granted' = granted
         /\ buffers' = buffers \cup {[addr |-> addr, size |-> size]}
         /\ addr + size <= startAddress /\ intermediateMax <= addr
  BY PrivatePlaced
<1> DEFINE new == [addr |-> addr, size |-> size]
<1>2. addr \in granted .. TotalSize /\ size \in 1 .. TotalSize - addr
  BY <1>1 DEF DdrInv, DdrTypeOK
<1>3. \A s \in buffers : Regions!Disjoint(new, s)
  BY <1>1 DEF Regions!Disjoint, DdrInv, DdrTypeOK
<1>4. Regions!PlaceRegion
  BY <1>1, <1>2, <1>3 DEF Regions!PlaceRegion
<1> QED
  BY <1>4 DEF Regions!Next

\* Every step of the allocator is a step that MemoryRegions allows, or leaves
\* what callers were given alone.
LEMMA DdrStepRefines ==
    ASSUME RetryAfterFailedGrowth = FALSE, DdrInv, [NextDdr]_ddrVars
    PROVE  [Regions!Next]_<<granted, buffers>>
<1> USE DdrAssumption
<1>1. ASSUME NEW size \in SharedSizes, CallersGoOn, AllocateSharedBuffer(size)
      PROVE  [Regions!Next]_<<granted, buffers>>
  BY <1>1, SharedRefines DEF CallersGoOn
<1>2. ASSUME NEW size \in SharedSizes, SharedBufferThrows(size)
      PROVE  [Regions!Next]_<<granted, buffers>>
  BY <1>2 DEF SharedBufferThrows
<1>3. ASSUME NEW size \in PrivateSizes, NEW alignment \in Alignments,
             AllocatePrivateBuffer(size, alignment)
      PROVE  [Regions!Next]_<<granted, buffers>>
  BY <1>3, PrivateRefines
<1>4. CASE Clear
  BY <1>4 DEF Clear, Regions!Next, Regions!ReleaseAll
<1>5. CASE UNCHANGED ddrVars
  BY <1>5 DEF ddrVars
<1> QED
  BY <1>1, <1>2, <1>3, <1>4, <1>5 DEF NextDdr

\* The allocator implements MemoryRegions.
THEOREM AllocatorImplementsRegions ==
    RetryAfterFailedGrowth = FALSE => (SpecDdr => ImplementsRegions)
<1>1. SUFFICES ASSUME RetryAfterFailedGrowth = FALSE
               PROVE  SpecDdr => ImplementsRegions
  OBVIOUS
<1>2. InitDdr => Regions!Init
  BY DEF InitDdr, Regions!Init
<1>3. DdrInv /\ [NextDdr]_ddrVars => [Regions!Next]_<<granted, buffers>>
  BY <1>1, DdrStepRefines
<1>4. SpecDdr => []DdrInv
  BY <1>1, DdrInvariant
<1> QED
  BY <1>2, <1>3, <1>4, PTL DEF SpecDdr, ImplementsRegions, Regions!Spec

-----------------------------------------------------------------------------
(* Graph jobs: the inductive invariant.                                    *)

\* The input/output buffer of a graph job, and its config/filter buffer.
HasHome(g) == InputOutputBufferSize(g) > 0
Base(j) == j.batchJobs[1].input
Home(j) == Extent(Base(j), InputOutputBufferSize(j.graph))
Config(j) == Extent(j.config, j.graph.config)

\* What a graph job was given is still its own.
JobPlaced(j, bufs, top) ==
    /\ Len(j.batchJobs) = j.graph.pipelines /\ j.requested <= j.graph.pipelines
    /\ HasHome(j.graph) => /\ Base(j) \in Nat /\ Home(j) \in bufs
                           /\ j.batchJobs = BatchJobs(j.graph, Base(j))
    /\ j.graph.config > 0 => Config(j) \in bufs
    /\ PadToBurst(j.graph.intermediate) <= top

\* A buffer that no graph job has for its own.
Unclaimed(b, jobs) ==
    \A k \in DOMAIN jobs :
        /\ HasHome(jobs[k].graph) => Home(jobs[k]) # b
        /\ jobs[k].graph.config > 0 => Config(jobs[k]) # b

\* No batch jobs of two graph jobs are in one buffer, nor batch jobs and a
\* configuration.
JobsApart(jobs) ==
    \A k, l \in DOMAIN jobs :
        HasHome(jobs[k].graph) =>
            /\ HasHome(jobs[l].graph) /\ k # l => Home(jobs[k]) # Home(jobs[l])
            /\ jobs[l].graph.config > 0 => Home(jobs[k]) # Config(jobs[l])

\* The graph job under construction has what its finished steps allocated.
LoadingPlaced(l, jobs, bufs, top) ==
    \/ l = NotLoading
    \/ /\ l \in [step : {"shared", "inputOutput", "config"}, graph : Graphs, base : Nat]
       /\ l.step # "shared" => PadToBurst(l.graph.intermediate) <= top
       /\ l.step = "config" /\ HasHome(l.graph) =>
             LET home == Extent(l.base, InputOutputBufferSize(l.graph))
             IN  home \in bufs /\ Unclaimed(home, jobs)

JobShape == [graph : Graphs, config : Nat, requested : Nat,
             batchJobs : Seq([input : Nat, output : Nat])]

JobsInv ==
    /\ graphJobs \in Seq(JobShape)
    /\ \A k \in DOMAIN graphJobs : JobPlaced(graphJobs[k], buffers, granted)
    /\ JobsApart(graphJobs)
    /\ LoadingPlaced(loading, graphJobs, buffers, granted)

GraphInv == DdrInv /\ JobsInv

-----------------------------------------------------------------------------
(* Arithmetic of the layout.                                               *)

LEMMA ProductNat ==
    ASSUME NEW a \in Nat, NEW b \in Nat
    PROVE  a * b \in Nat
  OBVIOUS

LEMMA ProductPositive ==
    ASSUME NEW a \in Nat \ {0}, NEW b \in Nat \ {0}
    PROVE  a * b \in Nat \ {0}
  OBVIOUS

\* Rounding up to a multiple of m never makes a size smaller.
LEMMA RoundUp ==
    ASSUME NEW n \in Nat, NEW m \in Nat \ {0}
    PROVE  /\ ((n + m - 1) \div m) * m \in Nat
           /\ n <= ((n + m - 1) \div m) * m
<1> DEFINE x == n + m - 1
           q == x \div m
<1>1. x \in Nat
  OBVIOUS
<1> HIDE DEF x
<1>2. q \in Nat /\ (x % m) \in Nat /\ (x % m) < m
  BY <1>1
<1>3. x = m * q + (x % m)
  BY <1>1
<1> HIDE DEF q
<1>4. q * m = m * q /\ m * q \in Nat
  BY <1>2
<1>5. n <= q * m
  BY <1>2, <1>3, <1>4 DEF x
<1> QED
  BY <1>4, <1>5 DEF q, x

\* The sizes that the constructor computes from a graph.
LEMMA Sizes ==
    ASSUME NEW g \in Graphs
    PROVE  /\ PadToBurst(g.intermediate) \in Nat
           /\ InputSizeDDR(g) \in Nat /\ OutputSizeDDR(g) \in Nat
           /\ InputOutputBufferSize(g) \in Nat
           /\ g.pipelines \in Nat /\ g.config \in Nat
<1>1. /\ g.intermediate \in Nat /\ g.input \in Nat /\ g.output \in Nat
      /\ g.pipelines \in Nat /\ g.config \in Nat
      /\ BurstBytes \in Nat \ {0} /\ WordBytes \in Nat \ {0}
  BY GraphsAssumption DEF GraphShape
<1>2. /\ PadToBurst(g.intermediate) \in Nat
      /\ PadToBurst(g.input) \in Nat /\ PadToBurst(g.output) \in Nat
      /\ PadToWord(g.input) \in Nat /\ PadToWord(g.output) \in Nat
  BY <1>1, RoundUp DEF PadToBurst, PadToWord
<1>3. InputSizeDDR(g) \in Nat /\ OutputSizeDDR(g) \in Nat
  BY <1>2 DEF InputSizeDDR, OutputSizeDDR
<1>4. /\ g.pipelines * InputSizeDDR(g) \in Nat
      /\ g.pipelines * OutputSizeDDR(g) \in Nat
  BY <1>1, <1>3, ProductNat
<1>5. InputOutputBufferSize(g) \in Nat
  BY <1>4 DEF InputOutputBufferSize
<1> QED
  BY <1>1, <1>2, <1>3, <1>5

\* Only a graph with pipelines asks for an input/output buffer.
LEMMA HomePipelines ==
    ASSUME NEW g \in Graphs, HasHome(g)
    PROVE  g.pipelines \in Nat \ {0}
<1>1. /\ g.pipelines \in Nat /\ InputSizeDDR(g) \in Nat /\ OutputSizeDDR(g) \in Nat
  BY Sizes
<1>2. ASSUME g.pipelines = 0 PROVE InputOutputBufferSize(g) = 0
  <2>1. g.pipelines * InputSizeDDR(g) = 0 /\ g.pipelines * OutputSizeDDR(g) = 0
    BY <1>1, <1>2
  <2> QED
    BY <2>1 DEF InputOutputBufferSize
<1> QED
  BY <1>1, <1>2 DEF HasHome

\* A graph with batch jobs in DDR asks for a buffer with room for all of them.
LEMMA HomeSize ==
    ASSUME NEW g \in Graphs, StreamsAlike(g), ~g.istream, g.pipelines > 0
    PROVE  /\ HasHome(g)
           /\ InputOutputBufferSize(g) = g.pipelines * (InputSizeDDR(g) + OutputSizeDDR(g))
<1>1. ~g.istream /\ ~g.ostream /\ g.pipelines \in Nat \ {0}
  BY GraphsAssumption DEF StreamsAlike, GraphShape
<1>2. /\ g.input \in Nat \ {0} /\ g.output \in Nat \ {0}
      /\ BurstBytes \in Nat \ {0}
  BY GraphsAssumption DEF GraphShape
<1>3. InputSizeDDR(g) >= g.input /\ OutputSizeDDR(g) >= g.output
  BY <1>1, <1>2, RoundUp DEF InputSizeDDR, OutputSizeDDR, PadToBurst
<1>4. InputSizeDDR(g) \in Nat /\ OutputSizeDDR(g) \in Nat
  BY Sizes
<1>5. InputSizeDDR(g) + OutputSizeDDR(g) \in Nat \ {0}
  BY <1>2, <1>3, <1>4
<1>6. InputOutputBufferSize(g) = g.pipelines * InputSizeDDR(g) + g.pipelines * OutputSizeDDR(g)
  BY <1>1 DEF InputOutputBufferSize
<1>7. InputOutputBufferSize(g) = g.pipelines * (InputSizeDDR(g) + OutputSizeDDR(g))
  BY <1>1, <1>4, <1>6
<1>8. InputOutputBufferSize(g) \in Nat \ {0}
  BY <1>1, <1>5, <1>7, ProductPositive
<1> QED
  BY <1>7, <1>8 DEF HasHome

\* Pipeline i ends where pipeline i + 1 begins, and all of them fit.
LEMMA Strides ==
    ASSUME NEW i \in Nat, NEW j \in Nat, NEW s \in Nat, i < j
    PROVE  i * s + s <= j * s
<1>1. PICK d \in Nat : j = i + 1 + d
  <2>1. j - (i + 1) \in Nat /\ j = i + 1 + (j - (i + 1))
    OBVIOUS
  <2> QED
    BY <2>1
<1>2. j * s = i * s + s + d * s
  BY <1>1
<1>3. d * s \in Nat /\ i * s \in Nat
  BY ProductNat
<1> QED
  BY <1>2, <1>3

-----------------------------------------------------------------------------
(* What the calls of the constructor do to the claims.                     *)

LEMMA FunctionIsSequence ==
    ASSUME NEW S, NEW n \in Nat, NEW f \in [1 .. n -> S]
    PROVE  f \in Seq(S) /\ Len(f) = n
<1>1. f \in Seq(S)
  OBVIOUS
<1>2. Len(f) \in Nat /\ DOMAIN f = 1 .. Len(f) /\ DOMAIN f = 1 .. n
  BY <1>1
<1> QED
  BY <1>1, <1>2

\* The batch jobs of a graph lie where its buffer is.
LEMMA Layout ==
    ASSUME NEW g \in Graphs, NEW base \in Nat
    PROVE  /\ BatchJobs(g, base) \in Seq([input : Nat, output : Nat])
           /\ Len(BatchJobs(g, base)) = g.pipelines
           /\ g.pipelines > 0 => BatchJobs(g, base)[1].input = base
<1>1. g.pipelines \in Nat /\ InputSizeDDR(g) \in Nat /\ OutputSizeDDR(g) \in Nat
  BY Sizes
<1> DEFINE s == InputSizeDDR(g) + OutputSizeDDR(g)
<1>2. s \in Nat
  BY <1>1
<1> HIDE DEF s
<1>3. BatchJobs(g, base) =
        [i \in 1 .. g.pipelines |-> [input |-> base + (i - 1) * s,
                                     output |-> base + (i - 1) * s + InputSizeDDR(g)]]
  BY DEF BatchJobs, s
<1>4. \A i \in 1 .. g.pipelines : (i - 1) * s \in Nat
  BY <1>1, <1>2, ProductNat
<1>5. \A i \in 1 .. g.pipelines :
         /\ base + (i - 1) * s \in Nat
         /\ base + (i - 1) * s + InputSizeDDR(g) \in Nat
  BY <1>1, <1>4
<1>6. BatchJobs(g, base) \in [1 .. g.pipelines -> [input : Nat, output : Nat]]
  BY <1>3, <1>5
<1>7. /\ BatchJobs(g, base) \in Seq([input : Nat, output : Nat])
      /\ Len(BatchJobs(g, base)) = g.pipelines
  BY <1>1, <1>6, FunctionIsSequence
<1>8. ASSUME g.pipelines > 0 PROVE BatchJobs(g, base)[1].input = base
  <2>1. (1 - 1) * s = 0
    BY <1>2
  <2>2. 1 \in 1 .. g.pipelines
    BY <1>1, <1>8
  <2>3. BatchJobs(g, base)[1].input = base + (1 - 1) * s
    BY <1>3, <2>2
  <2> QED
    BY <2>1, <2>3
<1> QED
  BY <1>7, <1>8

\* A graph job keeps what it has while buffers are added and the shared
\* buffer grows.
LEMMA PlacedStays ==
    ASSUME NEW j \in JobShape, NEW bufs, NEW more, NEW top \in Nat, NEW higher \in Nat,
           JobPlaced(j, bufs, top), bufs \subseteq more, top <= higher
    PROVE  JobPlaced(j, more, higher)
<1>1. PadToBurst(j.graph.intermediate) \in Nat
  BY Sizes DEF JobShape
<1> QED
  BY <1>1 DEF JobPlaced

\* A buffer that has just been allocated belongs to nobody.
LEMMA NewUnclaimed ==
    ASSUME NEW jobs, NEW bufs, NEW top, NEW b, b \notin bufs,
           \A k \in DOMAIN jobs : JobPlaced(jobs[k], bufs, top)
    PROVE  Unclaimed(b, jobs)
  BY DEF Unclaimed, JobPlaced

LEMMA AppendJob ==
    ASSUME NEW jobs \in Seq(JobShape), NEW job \in JobShape
    PROVE  /\ Append(jobs, job) \in Seq(JobShape)
           /\ DOMAIN Append(jobs, job) = DOMAIN jobs \cup {Len(jobs) + 1}
           /\ Len(jobs) + 1 \notin DOMAIN jobs
           /\ Append(jobs, job)[Len(jobs) + 1] = job
           /\ \A k \in DOMAIN jobs : Append(jobs, job)[k] = jobs[k]
  OBVIOUS

\* A graph job that claims what nobody else has claimed.
LEMMA AddJob ==
    ASSUME NEW jobs \in Seq(JobShape), NEW job \in JobShape, JobsApart(jobs),
           HasHome(job.graph) => Unclaimed(Home(job), jobs),
           job.graph.config > 0 => Unclaimed(Config(job), jobs),
           HasHome(job.graph) /\ job.graph.config > 0 => Home(job) # Config(job)
    PROVE  JobsApart(Append(jobs, job))
<1>1. SUFFICES
        ASSUME NEW k \in DOMAIN Append(jobs, job), NEW l \in DOMAIN Append(jobs, job),
               HasHome(Append(jobs, job)[k].graph)
        PROVE  /\ HasHome(Append(jobs, job)[l].graph) /\ k # l
                  => Home(Append(jobs, job)[k]) # Home(Append(jobs, job)[l])
               /\ Append(jobs, job)[l].graph.config > 0
                  => Home(Append(jobs, job)[k]) # Config(Append(jobs, job)[l])
  BY DEF JobsApart
<1>2. CASE k \in DOMAIN jobs /\ l \in DOMAIN jobs
  BY <1>1, <1>2, AppendJob DEF JobsApart
<1>3. CASE k \in DOMAIN jobs /\ l = Len(jobs) + 1
  BY <1>1, <1>3, AppendJob DEF Unclaimed
<1>4. CASE k = Len(jobs) + 1 /\ l \in DOMAIN jobs
  BY <1>1, <1>4, AppendJob DEF Unclaimed
<1>5. CASE k = Len(jobs) + 1 /\ l = Len(jobs) + 1
  BY <1>1, <1>5, AppendJob
<1> QED
  BY <1>2, <1>3, <1>4, <1>5, AppendJob

\* Handing out a batch job changes how many were handed out, nothing else.
LEMMA CountRequest ==
    ASSUME NEW j \in JobShape, NEW job, job = [j EXCEPT !.requested = j.requested + 1]
    PROVE  /\ job \in JobShape /\ job.graph = j.graph /\ job.config = j.config
           /\ job.batchJobs = j.batchJobs /\ job.requested = j.requested + 1
           /\ j.requested \in Nat
<1>1. j.requested \in Nat
  BY DEF JobShape
<1> QED
  BY <1>1 DEF JobShape

Requested(jobs, k) == [jobs EXCEPT ![k].requested = @ + 1]

LEMMA RequestJob ==
    ASSUME NEW jobs \in Seq(JobShape), NEW k \in DOMAIN jobs
    PROVE  /\ Requested(jobs, k) \in Seq(JobShape)
           /\ DOMAIN Requested(jobs, k) = DOMAIN jobs
           /\ Requested(jobs, k)[k].requested = jobs[k].requested + 1
           /\ jobs[k].requested \in Nat
           /\ \A l \in DOMAIN jobs :
                 /\ Requested(jobs, k)[l].graph = jobs[l].graph
                 /\ Requested(jobs, k)[l].config = jobs[l].config
                 /\ Requested(jobs, k)[l].batchJobs = jobs[l].batchJobs
                 /\ l # k => Requested(jobs, k)[l].requested = jobs[l].requested
<1> DEFINE after == Requested(jobs, k)
<1>1. PICK job : job = [jobs[k] EXCEPT !.requested = jobs[k].requested + 1]
  OBVIOUS
<1>2. jobs[k] \in JobShape
  OBVIOUS
<1>3. /\ job \in JobShape /\ job.graph = jobs[k].graph /\ job.config = jobs[k].config
      /\ job.batchJobs = jobs[k].batchJobs /\ job.requested = jobs[k].requested + 1
      /\ jobs[k].requested \in Nat
  BY <1>1, <1>2, CountRequest
<1>4. after = [jobs EXCEPT ![k] = job]
  BY <1>1 DEF Requested
<1> HIDE DEF after
<1>5. after \in Seq(JobShape) /\ DOMAIN after = DOMAIN jobs
  BY <1>3, <1>4
<1>6. \A l \in DOMAIN jobs : after[l] = IF l = k THEN job ELSE jobs[l]
  BY <1>4
<1>7. /\ after \in Seq(JobShape) /\ DOMAIN after = DOMAIN jobs
      /\ after[k].requested = jobs[k].requested + 1 /\ jobs[k].requested \in Nat
      /\ \A l \in DOMAIN jobs :
            /\ after[l].graph = jobs[l].graph /\ after[l].config = jobs[l].config
            /\ after[l].batchJobs = jobs[l].batchJobs
            /\ l # k => after[l].requested = jobs[l].requested
  BY <1>3, <1>5, <1>6
<1> QED
  BY <1>7 DEF after

-----------------------------------------------------------------------------
(* Every step preserves the invariant.                                     *)

LEMMA GrantedNat == DdrInv => granted \in Nat
  BY DEF DdrInv, DdrTypeOK

LEMMA JobsElement ==
    ASSUME JobsInv, NEW k \in DOMAIN graphJobs
    PROVE  graphJobs[k] \in JobShape /\ JobPlaced(graphJobs[k], buffers, granted)
  BY DEF JobsInv

\* The graph jobs keep their buffers while the allocator hands out others.
LEMMA JobsStay ==
    ASSUME GraphInv, DdrInv', graphJobs' = graphJobs,
           buffers \subseteq buffers', granted <= granted',
           LoadingPlaced(loading', graphJobs', buffers', granted')
    PROVE  GraphInv'
<1>1. granted \in Nat /\ granted' \in Nat
  BY DEF GraphInv, DdrInv, DdrTypeOK
<1>2. \A k \in DOMAIN graphJobs : JobPlaced(graphJobs[k], buffers', granted')
  BY <1>1, JobsElement, PlacedStays DEF GraphInv
<1>3. \A k \in DOMAIN graphJobs' : JobPlaced(graphJobs'[k], buffers', granted')
  BY <1>2
<1> QED
  BY <1>3 DEF GraphInv, JobsInv

LEMMA InvBeginLoad ==
    ASSUME GraphInv, BeginLoad
    PROVE  GraphInv'
<1>1. UNCHANGED <<ddrVars, graphJobs>>
  BY DEF BeginLoad
<1>2. DdrInv' /\ UNCHANGED <<buffers, granted>>
  BY <1>1, StutterKeepsInv DEF GraphInv, ddrVars
<1>3. PICK g \in Graphs : loading' = [step |-> "shared", graph |-> g, base |-> 0]
  BY DEF BeginLoad
<1>4. LoadingPlaced(loading', graphJobs, buffers, granted)
  BY <1>3 DEF LoadingPlaced
<1> QED
  BY <1>1, <1>2, <1>4 DEF GraphInv, JobsInv

\* While a graph job is under construction its step says what it has.
LEMMA LoadingShape ==
    ASSUME GraphInv, loading.step # "none"
    PROVE  /\ loading \in [step : {"shared", "inputOutput", "config"}, graph : Graphs,
                           base : Nat]
           /\ loading.graph \in Graphs /\ loading.base \in Nat
           /\ loading.step # "shared" => PadToBurst(loading.graph.intermediate) <= granted
           /\ loading.step = "config" /\ HasHome(loading.graph) =>
                 LET home == Extent(loading.base, InputOutputBufferSize(loading.graph))
                 IN  home \in buffers /\ Unclaimed(home, graphJobs)
<1>1. loading # NotLoading
  BY DEF NotLoading
<1>2. LoadingPlaced(loading, graphJobs, buffers, granted)
  BY DEF GraphInv, JobsInv
<1> QED
  BY <1>1, <1>2 DEF LoadingPlaced

LEMMA InvLoadShared ==
    ASSUME GraphInv, ~growthFailed, LoadShared
    PROVE  GraphInv'
<1> DEFINE size == PadToBurst(loading.graph.intermediate)
<1>1. loading.graph \in Graphs /\ size \in Nat /\ graphJobs' = graphJobs
  BY LoadingShape, Sizes DEF LoadShared
<1>2. CASE AllocateSharedBuffer(size) /\ loading' = [loading EXCEPT !.step = "inputOutput"]
  <2>1. DdrInv' /\ buffers' = buffers
    BY <1>1, <1>2, SharedKeepsInv DEF GraphInv, AllocateSharedBuffer
  <2>2. granted <= granted' /\ size <= granted'
    BY <1>1, <1>2, GrantedNat DEF AllocateSharedBuffer, Grant, GraphInv
  <2>3. /\ loading' \in [step : {"shared", "inputOutput", "config"}, graph : Graphs,
                         base : Nat]
        /\ loading'.step = "inputOutput" /\ loading'.graph = loading.graph
    BY <1>2, LoadingShape DEF LoadShared
  <2>4. LoadingPlaced(loading', graphJobs', buffers', granted')
    BY <2>2, <2>3 DEF LoadingPlaced
  <2> QED
    BY <1>1, <2>1, <2>2, <2>4, JobsStay
<1>3. CASE SharedBufferThrows(size) /\ loading' = NotLoading
  <2>1. DdrInv' /\ buffers' = buffers /\ granted' = granted
    BY <1>1, <1>3, ThrowKeepsInv DEF GraphInv, SharedBufferThrows
  <2>2. LoadingPlaced(loading', graphJobs', buffers', granted')
    BY <1>3 DEF LoadingPlaced
  <2>3. granted <= granted'
    BY <2>1, GrantedNat DEF GraphInv
  <2> QED
    BY <1>1, <2>1, <2>2, <2>3, JobsStay
<1> QED
  BY <1>2, <1>3 DEF LoadShared

\* A private buffer belongs to no graph job when it is handed out.
LEMMA NewBuffer ==
    ASSUME GraphInv, ~growthFailed, NEW size \in Nat \ {0},
           AllocatePrivateBuffer(size, WordBytes)
    PROVE  \E addr \in Nat :
              /\ startAddress' = addr /\ granted' = granted
              /\ buffers' = buffers \cup {Extent(addr, size)}
              /\ buffers \subseteq buffers'
              /\ Extent(addr, size) \notin buffers
              /\ Unclaimed(Extent(addr, size), graphJobs)
              /\ DdrInv'
<1>1. WordBytes \in Nat \ {0}
  BY GraphsAssumption
<1>2. PICK addr \in Nat :
         /\ startAddress' = addr /\ granted' = granted
         /\ buffers' = buffers \cup {[addr |-> addr, size |-> size]}
         /\ addr + size <= startAddress
  BY <1>1, PrivatePlaced DEF GraphInv
<1>3. DdrInv'
  BY <1>1, PrivateKeepsInv DEF GraphInv
<1>4. Extent(addr, size) \notin buffers
  <2>1. \A b \in buffers : startAddress <= b.addr /\ b.addr \in Nat
    BY DEF GraphInv, DdrInv, DdrTypeOK
  <2>2. Extent(addr, size).addr = addr /\ addr < startAddress /\ startAddress \in Nat
    BY <1>2, DdrAssumption DEF Extent, GraphInv, DdrInv, DdrTypeOK
  <2> QED
    BY <2>1, <2>2
<1>5. Unclaimed(Extent(addr, size), graphJobs)
  BY <1>4, NewUnclaimed DEF GraphInv, JobsInv
<1> QED
  BY <1>2, <1>3, <1>4, <1>5 DEF Extent

LEMMA InvLoadInputOutput ==
    ASSUME GraphInv, ~growthFailed, LoadInputOutput
    PROVE  GraphInv'
<1> DEFINE size == InputOutputBufferSize(loading.graph)
<1>1. /\ loading.graph \in Graphs /\ size \in Nat /\ graphJobs' = graphJobs
      /\ loading.step = "inputOutput"
      /\ PadToBurst(loading.graph.intermediate) <= granted
  BY LoadingShape, Sizes DEF LoadInputOutput
<1>2. granted \in Nat
  BY GrantedNat DEF GraphInv
<1>3. CASE /\ size = 0 /\ UNCHANGED ddrVars
           /\ loading' = [loading EXCEPT !.step = "config"]
  <2>1. DdrInv' /\ buffers' = buffers /\ granted' = granted
    BY <1>3, StutterKeepsInv DEF GraphInv, ddrVars
  <2>2. ~HasHome(loading.graph)
    BY <1>3 DEF HasHome
  <2>3. /\ loading' \in [step : {"shared", "inputOutput", "config"}, graph : Graphs,
                         base : Nat]
        /\ loading'.graph = loading.graph
    BY <1>1, <1>3, LoadingShape
  <2>4. LoadingPlaced(loading', graphJobs', buffers', granted')
    BY <1>1, <2>1, <2>2, <2>3 DEF LoadingPlaced
  <2> QED
    BY <1>1, <1>2, <2>1, <2>4, JobsStay
<1>4. CASE /\ size > 0 /\ AllocatePrivateBuffer(size, WordBytes)
           /\ loading' = [loading EXCEPT !.step = "config", !.base = startAddress']
  <2>1. PICK addr \in Nat :
           /\ startAddress' = addr /\ granted' = granted
           /\ buffers' = buffers \cup {Extent(addr, size)} /\ buffers \subseteq buffers'
           /\ Unclaimed(Extent(addr, size), graphJobs)
           /\ DdrInv'
    BY <1>1, <1>4, NewBuffer
  <2>2. /\ loading' \in [step : {"shared", "inputOutput", "config"}, graph : Graphs,
                         base : Nat]
        /\ loading'.graph = loading.graph /\ loading'.base = addr
    BY <1>1, <1>4, <2>1, LoadingShape
  <2>3. LoadingPlaced(loading', graphJobs', buffers', granted')
    BY <1>1, <2>1, <2>2 DEF LoadingPlaced
  <2> QED
    BY <1>1, <1>2, <2>1, <2>3, JobsStay
<1>5. CASE loading' = NotLoading /\ UNCHANGED ddrVars
  <2>1. DdrInv' /\ buffers' = buffers /\ granted' = granted
    BY <1>5, StutterKeepsInv DEF GraphInv, ddrVars
  <2>2. LoadingPlaced(loading', graphJobs', buffers', granted')
    BY <1>5 DEF LoadingPlaced
  <2> QED
    BY <1>1, <1>2, <2>1, <2>2, JobsStay
<1> QED
  BY <1>3, <1>4, <1>5 DEF LoadInputOutput

\* The graph job whose construction ends gets what LoadingPlaced says and,
\* if it has a configuration, the buffer that was allocated for it.
LEMMA FinishPlaced ==
    ASSUME GraphInv, loading.step = "config",
           NEW addr \in Nat, NEW bufs, buffers \subseteq bufs,
           loading.graph.config > 0 =>
               /\ Extent(addr, loading.graph.config) \in bufs
               /\ Extent(addr, loading.graph.config) \notin buffers
               /\ Unclaimed(Extent(addr, loading.graph.config), graphJobs)
    PROVE  LET job == [graph |-> loading.graph, config |-> addr,
                       batchJobs |-> BatchJobs(loading.graph, loading.base),
                       requested |-> 0]
           IN  /\ job \in JobShape
               /\ JobPlaced(job, bufs, granted)
               /\ JobsApart(Append(graphJobs, job))
<1> DEFINE job == [graph |-> loading.graph, config |-> addr,
                   batchJobs |-> BatchJobs(loading.graph, loading.base),
                   requested |-> 0]
<1>1. /\ loading.graph \in Graphs /\ loading.base \in Nat
      /\ PadToBurst(loading.graph.intermediate) <= granted
  BY LoadingShape
<1>2. /\ job.graph = loading.graph /\ job.config = addr /\ job.requested = 0
      /\ job.batchJobs = BatchJobs(loading.graph, loading.base)
  OBVIOUS
<1>3. /\ job.batchJobs \in Seq([input : Nat, output : Nat])
      /\ Len(job.batchJobs) = loading.graph.pipelines
      /\ loading.graph.pipelines > 0 => Base(job) = loading.base
      /\ loading.graph.pipelines \in Nat
  BY <1>1, <1>2, Layout, Sizes DEF Base
<1>4. job \in JobShape
  BY <1>1, <1>3 DEF JobShape
<1> HIDE DEF job
<1>5. HasHome(job.graph) =>
         /\ Base(job) = loading.base
         /\ Home(job) = Extent(loading.base, InputOutputBufferSize(loading.graph))
         /\ Home(job) \in buffers /\ Unclaimed(Home(job), graphJobs)
  BY <1>1, <1>2, <1>3, LoadingShape, HomePipelines DEF Home
<1>6. Config(job) = Extent(addr, loading.graph.config)
  BY <1>2 DEF Config
<1>7. JobPlaced(job, bufs, granted)
  <2>1. HasHome(job.graph) => job.batchJobs = BatchJobs(job.graph, Base(job))
    BY <1>2, <1>5
  <2> QED
    BY <1>1, <1>2, <1>3, <1>5, <1>6, <2>1 DEF JobPlaced
<1>8. JobsApart(Append(graphJobs, job))
  BY <1>2, <1>4, <1>5, <1>6, AddJob DEF GraphInv, JobsInv
<1> QED
  BY <1>4, <1>7, <1>8 DEF job

\* With its last buffer the graph job becomes one of those that exist.
LEMMA InvFinish ==
    ASSUME GraphInv, DdrInv', loading.step = "config",
           buffers \subseteq buffers', granted' = granted,
           NEW addr \in Nat, Finish(addr),
           loading.graph.config > 0 =>
               /\ Extent(addr, loading.graph.config) \in buffers'
               /\ Extent(addr, loading.graph.config) \notin buffers
               /\ Unclaimed(Extent(addr, loading.graph.config), graphJobs)
    PROVE  GraphInv'
<1>1. PICK job :
         job = [graph |-> loading.graph, config |-> addr,
                batchJobs |-> BatchJobs(loading.graph, loading.base), requested |-> 0]
  OBVIOUS
<1>2. graphJobs' = Append(graphJobs, job) /\ loading' = NotLoading
  BY <1>1 DEF Finish
<1>3. /\ job \in JobShape /\ JobPlaced(job, buffers', granted')
      /\ JobsApart(Append(graphJobs, job))
  BY <1>1, FinishPlaced
<1>4. graphJobs \in Seq(JobShape)
  BY DEF GraphInv, JobsInv
<1>5. \A k \in DOMAIN graphJobs : JobPlaced(graphJobs[k], buffers', granted')
  <2>1. granted \in Nat /\ granted' \in Nat /\ granted <= granted'
    BY GrantedNat DEF GraphInv
  <2> QED
    BY <2>1, JobsElement, PlacedStays DEF GraphInv
<1>6. /\ graphJobs' \in Seq(JobShape)
      /\ \A k \in DOMAIN graphJobs' : JobPlaced(graphJobs'[k], buffers', granted')
  BY <1>2, <1>3, <1>4, <1>5, AppendJob
<1>7. LoadingPlaced(loading', graphJobs', buffers', granted')
  BY <1>2 DEF LoadingPlaced
<1> QED
  BY <1>2, <1>3, <1>6, <1>7 DEF GraphInv, JobsInv

LEMMA InvLoadConfig ==
    ASSUME GraphInv, ~growthFailed, LoadConfig
    PROVE  GraphInv'
<1> DEFINE size == loading.graph.config
<1>1. loading.step = "config" /\ size \in Nat
  BY LoadingShape, Sizes DEF LoadConfig
<1>2. CASE size = 0 /\ Finish(0) /\ UNCHANGED ddrVars
  <2>1. DdrInv' /\ buffers' = buffers /\ granted' = granted
    BY <1>2, StutterKeepsInv DEF GraphInv, ddrVars
  <2> QED
    BY <1>1, <1>2, <2>1, InvFinish
<1>3. CASE size > 0 /\ AllocatePrivateBuffer(size, WordBytes) /\ Finish(startAddress')
  <2>1. PICK addr \in Nat :
           /\ startAddress' = addr /\ granted' = granted
           /\ buffers' = buffers \cup {Extent(addr, size)} /\ buffers \subseteq buffers'
           /\ Extent(addr, size) \notin buffers
           /\ Unclaimed(Extent(addr, size), graphJobs)
           /\ DdrInv'
    BY <1>1, <1>3, NewBuffer
  <2>2. Finish(addr) /\ Extent(addr, size) \in buffers'
    BY <1>3, <2>1
  <2> QED
    BY <1>1, <2>1, <2>2, InvFinish
<1>4. CASE loading' = NotLoading /\ UNCHANGED <<ddrVars, graphJobs>>
  <2>1. DdrInv' /\ buffers' = buffers /\ granted' = granted /\ graphJobs' = graphJobs
    BY <1>4, StutterKeepsInv DEF GraphInv, ddrVars
  <2>2. LoadingPlaced(loading', graphJobs', buffers', granted')
    BY <1>4 DEF LoadingPlaced
  <2>3. granted <= granted'
    BY <2>1, GrantedNat DEF GraphInv
  <2> QED
    BY <2>1, <2>2, <2>3, JobsStay
<1> QED
  BY <1>2, <1>3, <1>4 DEF LoadConfig

LEMMA InvGetBatchJob ==
    ASSUME GraphInv, GetBatchJob
    PROVE  GraphInv'
<1>1. PICK k \in DOMAIN graphJobs :
         /\ graphJobs[k].requested < Len(graphJobs[k].batchJobs)
         /\ graphJobs' = Requested(graphJobs, k)
  BY DEF GetBatchJob, Requested
<1>2. DdrInv' /\ UNCHANGED <<buffers, granted, loading>>
  BY StutterKeepsInv DEF GraphInv, ddrVars, GetBatchJob
<1>3. graphJobs \in Seq(JobShape)
  BY DEF GraphInv, JobsInv
<1>4. /\ graphJobs' \in Seq(JobShape) /\ DOMAIN graphJobs' = DOMAIN graphJobs
      /\ graphJobs'[k].requested = graphJobs[k].requested + 1
      /\ graphJobs[k].requested \in Nat
      /\ \A l \in DOMAIN graphJobs :
            /\ graphJobs'[l].graph = graphJobs[l].graph
            /\ graphJobs'[l].config = graphJobs[l].config
            /\ graphJobs'[l].batchJobs = graphJobs[l].batchJobs
            /\ l # k => graphJobs'[l].requested = graphJobs[l].requested
  <2> DEFINE after == Requested(graphJobs, k)
  <2>1. /\ after \in Seq(JobShape) /\ DOMAIN after = DOMAIN graphJobs
        /\ after[k].requested = graphJobs[k].requested + 1
        /\ graphJobs[k].requested \in Nat
        /\ \A l \in DOMAIN graphJobs :
              /\ after[l].graph = graphJobs[l].graph /\ after[l].config = graphJobs[l].config
              /\ after[l].batchJobs = graphJobs[l].batchJobs
              /\ l # k => after[l].requested = graphJobs[l].requested
    BY <1>1, <1>3, RequestJob
  <2>2. graphJobs' = after
    BY <1>1
  <2> HIDE DEF after
  <2> QED
    BY <2>1, <2>2
<1>5. ASSUME NEW l \in DOMAIN graphJobs
      PROVE  /\ Home(graphJobs'[l]) = Home(graphJobs[l])
             /\ Config(graphJobs'[l]) = Config(graphJobs[l])
  <2>1. /\ graphJobs'[l].graph = graphJobs[l].graph
        /\ graphJobs'[l].config = graphJobs[l].config
        /\ graphJobs'[l].batchJobs = graphJobs[l].batchJobs
    BY <1>4
  <2> QED
    BY <2>1 DEF Home, Config, Base
<1>6. JobsApart(graphJobs')
  BY <1>4, <1>5 DEF JobsApart, GraphInv, JobsInv
<1>7. ASSUME NEW l \in DOMAIN graphJobs PROVE JobPlaced(graphJobs'[l], buffers, granted)
  <2>1. JobPlaced(graphJobs[l], buffers, granted)
    BY JobsElement DEF GraphInv
  <2>2. graphJobs'[l].requested <= graphJobs'[l].graph.pipelines
    <3>1. CASE l = k
      <4>1. graphJobs[k] \in JobShape
        BY <1>1, <1>3
      <4>2. graphJobs[k].graph.pipelines \in Nat
        BY <4>1, Sizes DEF JobShape
      <4> QED
        BY <1>1, <1>4, <2>1, <3>1, <4>2 DEF JobPlaced
    <3>2. CASE l # k
      BY <1>4, <2>1, <3>2 DEF JobPlaced
    <3> QED
      BY <3>1, <3>2
  <2>3. Base(graphJobs'[l]) = Base(graphJobs[l])
    BY <1>4 DEF Base
  <2> QED
    BY <1>4, <1>5, <2>1, <2>2, <2>3 DEF JobPlaced
<1>8. \A b : Unclaimed(b, graphJobs) => Unclaimed(b, graphJobs')
  BY <1>4, <1>5 DEF Unclaimed
<1>9. LoadingPlaced(loading', graphJobs', buffers', granted')
  BY <1>2, <1>8 DEF LoadingPlaced, GraphInv, JobsInv
<1> QED
  BY <1>2, <1>4, <1>6, <1>7, <1>9 DEF GraphInv, JobsInv

LEMMA InvDestroyDevice ==
    ASSUME GraphInv, DestroyDevice
    PROVE  GraphInv'
<1>1. DdrInv' /\ graphJobs' = <<>> /\ loading' = NotLoading
  BY ClearKeepsInv DEF DestroyDevice
<1>2. graphJobs' \in Seq(JobShape) /\ DOMAIN graphJobs' = {}
  BY <1>1
<1>3. JobsApart(graphJobs') /\ LoadingPlaced(loading', graphJobs', buffers', granted')
  BY <1>1, <1>2 DEF JobsApart, LoadingPlaced
<1> QED
  BY <1>1, <1>2, <1>3 DEF GraphInv, JobsInv

LEMMA GraphInvInit == GInit => GraphInv
<1> SUFFICES ASSUME GInit PROVE GraphInv
  OBVIOUS
<1>1. DdrInv /\ graphJobs = <<>> /\ loading = NotLoading
  BY DdrInvInit DEF GInit
<1>2. graphJobs \in Seq(JobShape) /\ DOMAIN graphJobs = {}
  BY <1>1
<1>3. JobsApart(graphJobs) /\ LoadingPlaced(loading, graphJobs, buffers, granted)
  BY <1>1, <1>2 DEF JobsApart, LoadingPlaced
<1> QED
  BY <1>1, <1>2, <1>3 DEF GraphInv, JobsInv

LEMMA GraphInvNext ==
    ASSUME RetryAfterFailedGrowth = FALSE, GraphInv, [GNext]_gvars
    PROVE  GraphInv'
<1>1. CASE UNCHANGED gvars
  <2>1. DdrInv' /\ UNCHANGED <<buffers, granted, loading, graphJobs>>
    BY <1>1, StutterKeepsInv DEF GraphInv, gvars, ddrVars
  <2> QED
    BY <2>1 DEF GraphInv, JobsInv
<1> QED
  BY <1>1, InvBeginLoad, InvLoadShared, InvLoadInputOutput, InvLoadConfig, InvGetBatchJob,
     InvDestroyDevice DEF GNext, CallersGoOn

\* Every buffer that a graph job points to was allocated for it alone, and
\* the intermediate buffer it asked for stays below all of them, for any
\* graphs and memory, while callers give up after a failed growth.
THEOREM GraphInvariant ==
    RetryAfterFailedGrowth = FALSE => (GSpec => []GraphInv)
<1>1. SUFFICES ASSUME RetryAfterFailedGrowth = FALSE
               PROVE  GSpec => []GraphInv
  OBVIOUS
<1>2. GraphInv /\ [GNext]_gvars => GraphInv'
  BY <1>1, GraphInvNext
<1> QED
  BY <1>2, GraphInvInit, PTL DEF GSpec

-----------------------------------------------------------------------------
(* Where the batch jobs handed out read and write.                         *)

Stride(g) == InputSizeDDR(g) + OutputSizeDDR(g)
Slot(j, i) == Base(j) + (i - 1) * Stride(j.graph)

LEMMA HandedOutPair ==
    ASSUME NEW p \in HandedOutAlike
    PROVE  \E k \in DOMAIN graphJobs : \E i \in 1 .. graphJobs[k].requested :
               p = <<k, i>> /\ StreamsAlike(graphJobs[k].graph)
<1>1. p \in HandedOut /\ StreamsAlike(graphJobs[p[1]].graph)
  BY DEF HandedOutAlike
<1>2. PICK k \in DOMAIN graphJobs : \E i \in 1 .. graphJobs[k].requested : p = <<k, i>>
  BY <1>1 DEF HandedOut
<1>3. PICK i \in 1 .. graphJobs[k].requested : p = <<k, i>>
  BY <1>2
<1> QED
  BY <1>1, <1>2, <1>3

\* The slot of pipeline i, which lies in the buffer of its graph job.
LEMMA SlotInside ==
    ASSUME NEW g \in Graphs, StreamsAlike(g), ~g.istream, NEW base \in Nat,
           NEW i \in 1 .. g.pipelines
    PROVE  /\ Stride(g) \in Nat /\ (i - 1) * Stride(g) \in Nat
           /\ (i - 1) * Stride(g) + Stride(g) <= InputOutputBufferSize(g)
           /\ BatchJobs(g, base)[i].input = base + (i - 1) * Stride(g)
           /\ BatchJobs(g, base)[i].output = base + (i - 1) * Stride(g) + InputSizeDDR(g)
<1>1. /\ g.pipelines \in Nat /\ Stride(g) \in Nat
      /\ InputSizeDDR(g) \in Nat /\ OutputSizeDDR(g) \in Nat
  BY Sizes DEF Stride
<1>2. i - 1 \in Nat /\ i - 1 < g.pipelines
  BY <1>1
<1>3. (i - 1) * Stride(g) \in Nat
  BY <1>1, <1>2, ProductNat
<1>4. (i - 1) * Stride(g) + Stride(g) <= g.pipelines * Stride(g)
  BY <1>1, <1>2, Strides
<1>5. InputOutputBufferSize(g) = g.pipelines * Stride(g)
  BY <1>1, <1>2, HomeSize DEF Stride
<1>6. BatchJobs(g, base)[i] = [input |-> base + (i - 1) * Stride(g),
                               output |-> base + (i - 1) * Stride(g) + InputSizeDDR(g)]
  BY DEF BatchJobs, Stride
<1> QED
  BY <1>1, <1>3, <1>4, <1>5, <1>6

\* A batch job handed out stays in its slot.
LEMMA ExtentInSlot ==
    ASSUME GraphInv, NEW k \in DOMAIN graphJobs, StreamsAlike(graphJobs[k].graph),
           NEW i \in 1 .. graphJobs[k].requested,
           NEW e \in BatchExtents(k, i)
    PROVE  LET j == graphJobs[k]
               slot == Slot(j, i)
               stride == Stride(j.graph)
           IN  /\ HasHome(j.graph) /\ Home(j) \in buffers /\ j.graph \in Graphs
               /\ i \in 1 .. j.graph.pipelines
               /\ slot \in Nat /\ stride \in Nat
               /\ e.addr \in Nat /\ e.size \in Nat
               /\ slot <= e.addr /\ e.addr + e.size <= slot + stride
               /\ Home(j).addr \in Nat /\ Home(j).size \in Nat
               /\ Home(j).addr <= slot /\ slot + stride <= Home(j).addr + Home(j).size
<1> DEFINE j == graphJobs[k]
           g == j.graph
           slot == Slot(j, i)
           stride == Stride(g)
<1>1. j \in JobShape /\ JobPlaced(j, buffers, granted)
  BY JobsElement DEF GraphInv
<1>2. g \in Graphs /\ j.requested \in Nat
  BY <1>1 DEF JobShape
<1>3. ~g.istream /\ StreamsAlike(g)
  <2>1. g.istream => g.ostream
    BY DEF StreamsAlike
  <2> QED
    BY <2>1 DEF BatchExtents
<1>4. i \in 1 .. g.pipelines /\ g.pipelines \in Nat
  BY <1>1, <1>2, Sizes DEF JobPlaced
<1>5. HasHome(g)
  <2> HIDE DEF j, g
  <2> QED
    BY <1>2, <1>3, <1>4, HomeSize
<1>6. /\ Base(j) \in Nat /\ Home(j) \in buffers
      /\ j.batchJobs = BatchJobs(g, Base(j))
  BY <1>1, <1>5 DEF JobPlaced
<1>7. /\ stride \in Nat /\ (i - 1) * stride \in Nat
      /\ (i - 1) * stride + stride <= InputOutputBufferSize(g)
      /\ j.batchJobs[i].input = Base(j) + (i - 1) * stride
      /\ j.batchJobs[i].output = Base(j) + (i - 1) * stride + InputSizeDDR(g)
  <2> HIDE DEF j, g
  <2> QED
    BY <1>2, <1>3, <1>4, <1>6, SlotInside
<1>8. /\ InputSizeDDR(g) \in Nat /\ OutputSizeDDR(g) \in Nat
      /\ stride = InputSizeDDR(g) + OutputSizeDDR(g)
      /\ InputOutputBufferSize(g) \in Nat
  BY <1>2, Sizes DEF Stride
<1>9. slot = Base(j) + (i - 1) * stride
  BY DEF Slot
<1>10. \/ e = Extent(j.batchJobs[i].input, InputSizeDDR(g))
       \/ e = Extent(j.batchJobs[i].output, OutputSizeDDR(g))
  BY DEF BatchExtents
<1>11. Home(j).addr = Base(j) /\ Home(j).size = InputOutputBufferSize(g)
  BY DEF Home, Extent
<1> HIDE DEF j, g, slot, stride
<1>12. \/ e.addr = slot /\ e.size = InputSizeDDR(g)
       \/ e.addr = slot + InputSizeDDR(g) /\ e.size = OutputSizeDDR(g)
  BY <1>7, <1>9, <1>10 DEF Extent
<1>13. slot \in Nat
  BY <1>6, <1>7, <1>9
<1>14. /\ e.addr \in Nat /\ e.size \in Nat
       /\ slot <= e.addr /\ e.addr + e.size <= slot + stride
  BY <1>8, <1>12, <1>13
<1>15. Base(j) <= slot /\ slot + stride <= Base(j) + InputOutputBufferSize(g)
  BY <1>6, <1>7, <1>8, <1>9
<1>16. /\ HasHome(g) /\ Home(j) \in buffers /\ g \in Graphs
       /\ i \in 1 .. g.pipelines
       /\ slot \in Nat /\ stride \in Nat
       /\ e.addr \in Nat /\ e.size \in Nat
       /\ slot <= e.addr /\ e.addr + e.size <= slot + stride
       /\ Home(j).addr \in Nat /\ Home(j).size \in Nat
       /\ Home(j).addr <= slot /\ slot + stride <= Home(j).addr + Home(j).size
  BY <1>2, <1>4, <1>5, <1>6, <1>7, <1>8, <1>11, <1>13, <1>14, <1>15
<1> QED
  BY <1>16 DEF j, g, slot, stride

-----------------------------------------------------------------------------
(* The promises of the graph jobs.                                         *)

LEMMA ExtentInHome ==
    ASSUME GraphInv, NEW k \in DOMAIN graphJobs, StreamsAlike(graphJobs[k].graph),
           NEW i \in 1 .. graphJobs[k].requested,
           NEW e \in BatchExtents(k, i)
    PROVE  /\ HasHome(graphJobs[k].graph) /\ Home(graphJobs[k]) \in buffers
           /\ e.addr \in Nat /\ e.size \in Nat
           /\ Home(graphJobs[k]).addr \in Nat /\ Home(graphJobs[k]).size \in Nat
           /\ Home(graphJobs[k]).addr <= e.addr
           /\ e.addr + e.size <= Home(graphJobs[k]).addr + Home(graphJobs[k]).size
<1> DEFINE slot == Slot(graphJobs[k], i)
           stride == Stride(graphJobs[k].graph)
           home == Home(graphJobs[k])
<1>1. /\ HasHome(graphJobs[k].graph) /\ home \in buffers
      /\ slot \in Nat /\ stride \in Nat
      /\ e.addr \in Nat /\ e.size \in Nat
      /\ slot <= e.addr /\ e.addr + e.size <= slot + stride
      /\ home.addr \in Nat /\ home.size \in Nat
      /\ home.addr <= slot /\ slot + stride <= home.addr + home.size
  BY ExtentInSlot
<1> HIDE DEF slot, stride, home
<1>2. home.addr <= e.addr /\ e.addr + e.size <= home.addr + home.size
  BY <1>1
<1> QED
  BY <1>1, <1>2 DEF home

\* Ranges inside two ranges that do not overlap do not overlap.
LEMMA PartsDisjoint ==
    ASSUME NEW b, NEW c, NEW e, NEW f, ~Overlaps(b, c),
           b.addr \in Nat, b.size \in Nat, c.addr \in Nat, c.size \in Nat,
           e.addr \in Nat, e.size \in Nat, f.addr \in Nat, f.size \in Nat,
           b.addr <= e.addr, e.addr + e.size <= b.addr + b.size,
           c.addr <= f.addr, f.addr + f.size <= c.addr + c.size
    PROVE  ~Overlaps(e, f)
  BY DEF Overlaps

LEMMA InvBatchJobsInside == GraphInv => BatchJobsInsideBuffer
<1>1. SUFFICES ASSUME GraphInv, NEW p \in HandedOutAlike,
                      NEW e \in BatchExtents(p[1], p[2])
               PROVE  \E b \in buffers : b.addr <= e.addr /\ e.addr + e.size <= b.addr + b.size
  BY DEF BatchJobsInsideBuffer, Inside
<1>0. PICK k \in DOMAIN graphJobs : \E i \in 1 .. graphJobs[k].requested :
                                       p = <<k, i>> /\ StreamsAlike(graphJobs[k].graph)
  BY <1>1, HandedOutPair
<1>2. PICK i \in 1 .. graphJobs[k].requested :
               p = <<k, i>> /\ StreamsAlike(graphJobs[k].graph)
  BY <1>0
<1>3. e \in BatchExtents(k, i)
  BY <1>1, <1>2
<1> QED
  BY <1>1, <1>2, <1>3, ExtentInHome

\* Two pipelines of one graph job have different slots.
LEMMA SamePipelinesApart ==
    ASSUME GraphInv, NEW k \in DOMAIN graphJobs, StreamsAlike(graphJobs[k].graph),
           NEW i \in 1 .. graphJobs[k].requested, NEW j \in 1 .. graphJobs[k].requested,
           NEW e \in BatchExtents(k, i), NEW f \in BatchExtents(k, j), i # j
    PROVE  ~Overlaps(e, f)
<1> DEFINE base == Base(graphJobs[k])
           s == Stride(graphJobs[k].graph)
<1>1. /\ graphJobs[k].graph \in Graphs
      /\ i \in 1 .. graphJobs[k].graph.pipelines /\ j \in 1 .. graphJobs[k].graph.pipelines
      /\ s \in Nat
      /\ base + (i - 1) * s \in Nat /\ base + (j - 1) * s \in Nat
      /\ e.addr \in Nat /\ e.size \in Nat /\ f.addr \in Nat /\ f.size \in Nat
      /\ base + (i - 1) * s <= e.addr /\ e.addr + e.size <= base + (i - 1) * s + s
      /\ base + (j - 1) * s <= f.addr /\ f.addr + f.size <= base + (j - 1) * s + s
      /\ base \in Nat
  <2>1. /\ graphJobs[k].graph \in Graphs
        /\ i \in 1 .. graphJobs[k].graph.pipelines
        /\ s \in Nat /\ base + (i - 1) * s \in Nat
        /\ e.addr \in Nat /\ e.size \in Nat
        /\ base + (i - 1) * s <= e.addr /\ e.addr + e.size <= base + (i - 1) * s + s
    BY ExtentInSlot DEF Slot
  <2>2. /\ j \in 1 .. graphJobs[k].graph.pipelines
        /\ base + (j - 1) * s \in Nat
        /\ f.addr \in Nat /\ f.size \in Nat
        /\ base + (j - 1) * s <= f.addr /\ f.addr + f.size <= base + (j - 1) * s + s
    BY ExtentInSlot DEF Slot
  <2>3. base \in Nat
    BY ExtentInHome DEF Home, Extent
  <2> QED
    BY <2>1, <2>2, <2>3
<1> HIDE DEF base, s
<1>2. i - 1 \in Nat /\ j - 1 \in Nat
  <2>1. graphJobs[k].graph.pipelines \in Nat
    BY <1>1, Sizes
  <2> QED
    BY <1>1, <2>1
<1>3. (i - 1) * s \in Nat /\ (j - 1) * s \in Nat
  BY <1>1, <1>2, ProductNat
<1>4. CASE i < j
  <2>1. (i - 1) * s + s <= (j - 1) * s
    BY <1>1, <1>2, <1>4, Strides
  <2> QED
    BY <1>1, <1>3, <2>1 DEF Overlaps
<1>5. CASE j < i
  <2>1. (j - 1) * s + s <= (i - 1) * s
    BY <1>1, <1>2, <1>5, Strides
  <2> QED
    BY <1>1, <1>3, <2>1 DEF Overlaps
<1> QED
  BY <1>2, <1>4, <1>5

LEMMA InvInferencesIsolated == GraphInv => InferencesIsolated
<1>1. SUFFICES ASSUME GraphInv, NEW p \in HandedOutAlike,
                      NEW e \in BatchExtents(p[1], p[2])
               PROVE  /\ \A q \in HandedOutAlike \ {p} : \A f \in BatchExtents(q[1], q[2]) :
                            ~Overlaps(e, f)
                      /\ \A k \in DOMAIN graphJobs : graphJobs[k].graph.config > 0 =>
                            ~Overlaps(e, Extent(graphJobs[k].config,
                                                graphJobs[k].graph.config))
                      /\ \A k \in DOMAIN graphJobs :
                            PadToBurst(graphJobs[k].graph.intermediate) <= e.addr
  BY DEF InferencesIsolated
<1>0. PICK k \in DOMAIN graphJobs : \E i \in 1 .. graphJobs[k].requested :
                                       p = <<k, i>> /\ StreamsAlike(graphJobs[k].graph)
  BY <1>1, HandedOutPair
<1>2. PICK i \in 1 .. graphJobs[k].requested :
               p = <<k, i>> /\ StreamsAlike(graphJobs[k].graph)
  BY <1>0
<1> DEFINE home == Home(graphJobs[k])
<1>3. e \in BatchExtents(k, i)
  BY <1>1, <1>2
<1>4. /\ HasHome(graphJobs[k].graph) /\ home \in buffers
      /\ e.addr \in Nat /\ e.size \in Nat /\ home.addr \in Nat /\ home.size \in Nat
      /\ home.addr <= e.addr /\ e.addr + e.size <= home.addr + home.size
  BY <1>1, <1>2, <1>3, ExtentInHome
<1> HIDE DEF home
<1>5. \A b, c \in buffers : b # c => ~Overlaps(b, c)
  BY <1>1 DEF GraphInv, DdrInv, PrivateBuffersDisjoint
<1>6. ASSUME NEW q \in HandedOutAlike \ {p}, NEW f \in BatchExtents(q[1], q[2])
      PROVE  ~Overlaps(e, f)
  <2>0. PICK l \in DOMAIN graphJobs : \E j \in 1 .. graphJobs[l].requested :
                                         q = <<l, j>> /\ StreamsAlike(graphJobs[l].graph)
    BY <1>6, HandedOutPair
  <2>1. PICK j \in 1 .. graphJobs[l].requested :
                 q = <<l, j>> /\ StreamsAlike(graphJobs[l].graph)
    BY <2>0
  <2>2. f \in BatchExtents(l, j)
    BY <1>6, <2>1
  <2>3. CASE l = k
    <3>1. j # i
      BY <1>2, <1>6, <2>1, <2>3
    <3> QED
      BY <1>1, <1>2, <1>3, <2>1, <2>2, <2>3, <3>1, SamePipelinesApart
  <2>4. CASE l # k
    <3> DEFINE other == Home(graphJobs[l])
    <3>1. /\ HasHome(graphJobs[l].graph) /\ other \in buffers
          /\ f.addr \in Nat /\ f.size \in Nat /\ other.addr \in Nat /\ other.size \in Nat
          /\ other.addr <= f.addr /\ f.addr + f.size <= other.addr + other.size
      BY <1>1, <2>1, <2>2, ExtentInHome
    <3>2. home # other
      BY <1>1, <1>2, <1>4, <2>1, <2>4, <3>1 DEF GraphInv, JobsInv, JobsApart, home
    <3> HIDE DEF other
    <3>3. ~Overlaps(home, other)
      BY <1>4, <1>5, <3>1, <3>2
    <3> QED
      BY <1>4, <3>1, <3>3, PartsDisjoint
  <2> QED
    BY <2>3, <2>4
<1>7. ASSUME NEW l \in DOMAIN graphJobs, graphJobs[l].graph.config > 0
      PROVE  ~Overlaps(e, Extent(graphJobs[l].config, graphJobs[l].graph.config))
  <2> DEFINE config == Config(graphJobs[l])
  <2>1. config \in buffers
    BY <1>1, <1>7, JobsElement DEF JobPlaced, GraphInv
  <2>2. home # config
    BY <1>1, <1>2, <1>4, <1>7 DEF GraphInv, JobsInv, JobsApart, home
  <2>3. config.addr \in Nat /\ config.size \in Nat
    <3>1. \A b \in buffers : b.addr \in Nat /\ b.size \in Nat
      BY <1>1, DdrAssumption DEF GraphInv, DdrInv, DdrTypeOK
    <3> QED
      BY <2>1, <3>1
  <2>4. config = Extent(graphJobs[l].config, graphJobs[l].graph.config)
    BY DEF Config
  <2> HIDE DEF config
  <2>5. ~Overlaps(home, config)
    BY <1>4, <1>5, <2>1, <2>2
  <2>6. config.addr <= config.addr /\ config.addr + config.size <= config.addr + config.size
    BY <2>3
  <2>7. ~Overlaps(e, config)
    BY <1>4, <2>3, <2>5, <2>6, PartsDisjoint
  <2> QED
    BY <2>4, <2>7
<1>8. ASSUME NEW l \in DOMAIN graphJobs
      PROVE  PadToBurst(graphJobs[l].graph.intermediate) <= e.addr
  <2>1. PadToBurst(graphJobs[l].graph.intermediate) <= granted
    BY <1>1, JobsElement DEF JobPlaced, GraphInv
  <2>2. PadToBurst(graphJobs[l].graph.intermediate) \in Nat
    BY <1>1, JobsElement, Sizes DEF JobShape, GraphInv
  <2>3. granted <= startAddress /\ startAddress <= home.addr
    BY <1>1, <1>4 DEF GraphInv, DdrInv
  <2>4. granted \in Nat /\ startAddress \in Nat
    BY <1>1, DdrAssumption DEF GraphInv, DdrInv, DdrTypeOK
  <2> QED
    BY <1>4, <2>1, <2>2, <2>3, <2>4
<1> QED
  BY <1>6, <1>7, <1>8

\* A batch job handed out of a graph that streams both ways or not at all reads
\* and writes inside the buffer that its graph job allocated, whatever the sizes
\* of the graph and its pipelines and whatever else is loaded.  Callers give up
\* after a failed growth.
THEOREM BatchJobsInside ==
    RetryAfterFailedGrowth = FALSE => (GSpec => []BatchJobsInsideBuffer)
<1>1. SUFFICES ASSUME RetryAfterFailedGrowth = FALSE
               PROVE  GSpec => []BatchJobsInsideBuffer
  OBVIOUS
<1>2. GraphInv => BatchJobsInsideBuffer
  BY InvBatchJobsInside
<1>3. GSpec => []GraphInv
  BY <1>1, GraphInvariant
<1> QED
  BY <1>2, <1>3, PTL

\* Inferences in flight, of graphs that stream both ways or not at all, touch no
\* memory of each other, of a configuration or of the intermediate buffer, for
\* any graphs loaded together, the ones that stream one way included.  Callers
\* give up after a failed growth.
THEOREM InferencesNeverCollide ==
    RetryAfterFailedGrowth = FALSE => (GSpec => []InferencesIsolated)
<1>1. SUFFICES ASSUME RetryAfterFailedGrowth = FALSE
               PROVE  GSpec => []InferencesIsolated
  OBVIOUS
<1>2. GraphInv => InferencesIsolated
  BY InvInferencesIsolated
<1>3. GSpec => []GraphInv
  BY <1>1, GraphInvariant
<1> QED
  BY <1>2, <1>3, PTL

\* What the constructor of graph jobs asks of the allocator is what
\* MemoryRegions allows.
LEMMA GraphStepRefines ==
    ASSUME RetryAfterFailedGrowth = FALSE, GraphInv, [GNext]_gvars
    PROVE  [Regions!Next]_<<granted, buffers>>
<1>1. DdrInv
  BY DEF GraphInv
<1>2. CASE UNCHANGED ddrVars
  BY <1>2 DEF ddrVars
<1>3. CASE ~growthFailed /\ LoadShared
  <2> DEFINE size == PadToBurst(loading.graph.intermediate)
  <2>1. size \in Nat
    BY <1>3, LoadingShape, Sizes DEF LoadShared
  <2>2. AllocateSharedBuffer(size) \/ SharedBufferThrows(size)
    BY <1>3 DEF LoadShared
  <2>3. SharedBufferThrows(size) => UNCHANGED <<granted, buffers>>
    BY DEF SharedBufferThrows
  <2> QED
    BY <1>1, <1>3, <2>1, <2>2, <2>3, SharedRefines
<1>4. CASE LoadInputOutput
  <2> DEFINE size == InputOutputBufferSize(loading.graph)
  <2>1. size \in Nat /\ WordBytes \in Nat \ {0}
    BY <1>4, LoadingShape, Sizes, GraphsAssumption DEF LoadInputOutput
  <2>2. UNCHANGED ddrVars \/ (size > 0 /\ AllocatePrivateBuffer(size, WordBytes))
    BY <1>4 DEF LoadInputOutput
  <2> QED
    BY <1>1, <1>2, <2>1, <2>2, PrivateRefines
<1>5. CASE LoadConfig
  <2> DEFINE size == loading.graph.config
  <2>1. size \in Nat /\ WordBytes \in Nat \ {0}
    BY <1>5, LoadingShape, Sizes, GraphsAssumption DEF LoadConfig
  <2>2. UNCHANGED ddrVars \/ (size > 0 /\ AllocatePrivateBuffer(size, WordBytes))
    BY <1>5 DEF LoadConfig
  <2> QED
    BY <1>1, <1>2, <2>1, <2>2, PrivateRefines
<1>6. CASE DestroyDevice
  BY <1>6 DEF DestroyDevice, Clear, Regions!Next, Regions!ReleaseAll
<1> QED
  BY <1>2, <1>3, <1>4, <1>5, <1>6
  DEF GNext, CallersGoOn, BeginLoad, GetBatchJob, gvars

\* Creating graph jobs (coredla_graph_job.cpp) hands out disjoint regions of
\* the board's memory, as MemoryRegions says.
THEOREM GraphsImplementRegions ==
    RetryAfterFailedGrowth = FALSE => (GSpec => ImplementsRegions)
<1>1. SUFFICES ASSUME RetryAfterFailedGrowth = FALSE
               PROVE  GSpec => ImplementsRegions
  OBVIOUS
<1>2. GInit => Regions!Init
  BY DEF GInit, InitDdr, Regions!Init
<1>3. GraphInv /\ [GNext]_gvars => [Regions!Next]_<<granted, buffers>>
  BY <1>1, GraphStepRefines
<1>4. GSpec => []GraphInv
  BY <1>1, GraphInvariant
<1> QED
  BY <1>2, <1>3, <1>4, PTL DEF GSpec, ImplementsRegions, Regions!Spec

-----------------------------------------------------------------------------
(* Completion of inferences: the inductive invariant.                      *)

WaitSteps == {"out", "test", "sleep", "expired"}

HardwareTypes ==
    /\ started \in [Instances -> Nat] /\ completed \in [Instances -> Nat]
    /\ pending \in [Instances -> BOOLEAN]
    /\ outOfInferences \in [Instances -> BOOLEAN]

IsrTypes ==
    /\ jobsFinished \in [Instances -> Nat] /\ baseMultiplier \in [Instances -> Nat]
    /\ prevCount \in [Instances -> 0 .. CountModulus - 1]
    /\ descQueueDiag \in [Instances -> BOOLEAN]
    /\ isrPc \in {"idle", "clear", "read", "store"}
    /\ isrInstance \in Instances

WaitTypes ==
    /\ jobsWaited \in [Instances -> Nat] /\ waitPc \in [Instances -> WaitSteps]
    /\ calls \in [Instances -> Nat] /\ lastOk \in [Instances -> Nat]
    /\ cancelled \in [Instances -> BOOLEAN]

\* Every variable has its type.
CompletionTypes ==
    runtimePolling \in Builds /\ HardwareTypes /\ IsrTypes /\ WaitTypes

\* The interrupt build is right if the register is not about to wrap when the
\* device is opened: as many jobs as can be under way fit below its last value.
\* The ISR compares its first reading with 0, so it misses a wrap before it.
\* On OFS and AGX5 boards the constructor resets the IP and with it the count
\* (coredla_device.cpp:110-120); elsewhere nothing ensures it.
FirstWrapIsSeen ==
    FALSE \in Builds => InitialCount + MaxOutstanding < CountModulus

\* The register as it would be with unlimited width, and what the ISR has
\* last made of it; before its first reading it has the constructor's.
Unwrapped(i) == InitialCount + completed[i]
Extended(i) == baseMultiplier[i] * CountModulus + prevCount[i]
Seen(i) == IF baseMultiplier[i] = 0 /\ prevCount[i] < InitialCount
           THEN InitialCount ELSE Extended(i)

\* Jobs counted as waited for, waits that succeeded, waits that ended, and
\* jobs under way.
Tallies(i) ==
    /\ InitialCount <= jobsWaited[i]
    /\ jobsWaited[i] <= InitialCount + lastOk[i]
    /\ lastOk[i] <= Returned(i)
    /\ waitPc[i] # "out" => calls[i] >= 1
    /\ completed[i] <= started[i]
    /\ started[i] <= Returned(i) + MaxOutstanding

\* Every wait so far has counted its job.  Once one has not, none of the
\* later ones makes up for it.
AllCounted(i) == jobsWaited[i] = InitialCount + Returned(i)

\* Jobs waited for, published, read and finished, in this order.
CountsInOrder(i) ==
    /\ jobsWaited[i] <= jobsFinished[i]
    /\ jobsFinished[i] <= Seen(i)
    /\ Seen(i) <= Unwrapped(i)
    /\ isrPc = "store" /\ isrInstance = i => Seen(i) = Extended(i)

\* Interrupt build.  The second conjunct is what is to be shown; it outlives
\* the order of the counts.
InterruptsInOrder(i) ==
    /\ Tallies(i)
    /\ jobsWaited[i] = InitialCount + lastOk[i] => lastOk[i] <= completed[i]
    /\ AllCounted(i) => CountsInOrder(i)

\* Polling build: nothing interrupts, and until the jobs waited for reach the
\* width of the register a wait that was not cancelled counts finished jobs
\* only.  The last reading may have wrapped, but then a whole turn is done.
PollingInOrder(i) ==
    /\ ~pending[i] /\ isrPc = "idle"
    /\ ~cancelled[i] /\ jobsWaited[i] < CountModulus =>
          /\ jobsWaited[i] <= Unwrapped(i)
          /\ jobsFinished[i] <= Unwrapped(i)
          /\ jobsWaited[i] <= jobsFinished[i] \/ CountModulus <= Unwrapped(i)

CompletionInv ==
    /\ CompletionTypes
    /\ \A i \in Instances : IF runtimePolling THEN PollingInOrder(i)
                                              ELSE InterruptsInOrder(i)

-----------------------------------------------------------------------------
(* Arithmetic.                                                             *)

\* A number that is less than one turn ahead of k turns is in turn k or k+1.
LEMMA TurnAfter ==
    ASSUME NEW m \in Nat \ {0}, NEW d \in Int, -m < d * m, d * m < 2 * m
    PROVE  d \in {0, 1}
<1>1. CASE d >= 2
  <2>1. d * m = 2 * m + (d - 2) * m
    OBVIOUS
  <2>2. (d - 2) * m >= 0
    BY <1>1
  <2> QED
    BY <2>1, <2>2
<1>2. CASE d <= -1
  <2>1. d * m = -m - ((-1) - d) * m
    OBVIOUS
  <2>2. ((-1) - d) * m >= 0
    BY <1>2
  <2> QED
    BY <2>1, <2>2
<1> QED
  BY <1>1, <1>2

\* The test of the ISR is exact: if the extended count was behind the real one
\* by less than a turn, it is equal to it after the update.
LEMMA WrapDetected ==
    ASSUME NEW m \in Nat \ {0}, NEW base \in Nat, NEW prev \in 0 .. m - 1,
           NEW real \in Nat, base * m + prev <= real, real < base * m + prev + m
    PROVE  (IF prev > real % m THEN base + 1 ELSE base) * m + (real % m) = real
<1> DEFINE q == real \div m
           count == real % m
<1>1. q \in Int /\ count \in 0 .. m - 1 /\ real = q * m + count
  OBVIOUS
<1> HIDE DEF q, count
<1>2. (q - base) * m = q * m - base * m /\ q * m \in Int /\ base * m \in Int
  BY <1>1
<1>3. (q - base) * m = real - count - base * m
  BY <1>1, <1>2
<1>4. -m < (q - base) * m /\ (q - base) * m < 2 * m
  BY <1>1, <1>2, <1>3
<1>5. q - base \in {0, 1}
  BY <1>1, <1>4, TurnAfter
<1>6. CASE q = base
  <2>1. ~(prev > count)
    BY <1>1, <1>2, <1>6
  <2> QED
    BY <1>1, <1>6, <2>1 DEF count
<1>7. CASE q = base + 1
  <2>1. prev > count
    BY <1>1, <1>2, <1>7
  <2> QED
    BY <1>1, <1>7, <2>1 DEF count
<1> QED
  BY <1>1, <1>5, <1>6, <1>7

\* A register value below the modulus is its own remainder.
LEMMA NoWrapYet ==
    ASSUME NEW m \in Nat \ {0}, NEW n \in 0 .. m - 1
    PROVE  n % m = n
  OBVIOUS

LEMMA RemainderRange ==
    ASSUME NEW m \in Nat \ {0}, NEW n \in Nat
    PROVE  n % m \in 0 .. m - 1
  OBVIOUS

\* What the variables of one instance are.
LEMMA InstanceTypes ==
    ASSUME CompletionTypes, NEW i \in Instances
    PROVE  /\ CountModulus \in Nat \ {0, 1} /\ InitialCount \in 0 .. CountModulus - 1
           /\ completed[i] \in Nat /\ Unwrapped(i) \in Nat
           /\ jobsFinished[i] \in Nat /\ jobsWaited[i] \in Nat
           /\ baseMultiplier[i] \in Nat /\ prevCount[i] \in 0 .. CountModulus - 1
           /\ Extended(i) \in Nat /\ Seen(i) \in Nat
           /\ started[i] \in Nat /\ calls[i] \in Nat /\ lastOk[i] \in Nat
           /\ waitPc[i] \in WaitSteps /\ Returned(i) \in Int
           /\ MaxOutstanding \in Nat \ {0}
<1>1. /\ CountModulus \in Nat \ {0, 1} /\ InitialCount \in 0 .. CountModulus - 1
      /\ completed[i] \in Nat /\ jobsFinished[i] \in Nat /\ jobsWaited[i] \in Nat
      /\ baseMultiplier[i] \in Nat /\ prevCount[i] \in 0 .. CountModulus - 1
      /\ started[i] \in Nat /\ calls[i] \in Nat /\ lastOk[i] \in Nat
      /\ waitPc[i] \in WaitSteps /\ MaxOutstanding \in Nat \ {0}
  BY CompletionAssumption DEF CompletionTypes, HardwareTypes, IsrTypes, WaitTypes
<1>2. Unwrapped(i) \in Nat
  BY <1>1 DEF Unwrapped
<1>3. Extended(i) \in Nat
  BY <1>1 DEF Extended
<1>4. Seen(i) \in Nat
  BY <1>1, <1>3 DEF Seen
<1>5. Returned(i) \in Int
  BY <1>1 DEF Returned
<1> QED
  BY <1>1, <1>2, <1>3, <1>4, <1>5

-----------------------------------------------------------------------------
(* The steps.                                                              *)

\* The constructor starts both counts at the register, and the extension at 0.
LEMMA CompletionInit == Init => CompletionInv
<1> SUFFICES ASSUME Init PROVE CompletionInv
  OBVIOUS
<1>1. /\ NumInstances \in Nat \ {0} /\ CountModulus \in Nat \ {0, 1}
      /\ InitialCount \in 0 .. CountModulus - 1 /\ Builds \subseteq BOOLEAN
  BY CompletionAssumption
<1>2. HardwareTypes
  BY DEF Init, HardwareTypes, Zero, False
<1>3. IsrTypes
  BY <1>1 DEF Init, IsrTypes, Zero, False, Instances
<1>4. WaitTypes
  BY <1>1 DEF Init, WaitTypes, WaitSteps, Zero, False
<1>5. runtimePolling \in Builds
  BY DEF Init
<1>6. ASSUME NEW i \in Instances PROVE InterruptsInOrder(i) /\ PollingInOrder(i)
  <2>1. /\ completed[i] = 0 /\ jobsFinished[i] = InitialCount
        /\ jobsWaited[i] = InitialCount /\ baseMultiplier[i] = 0
        /\ prevCount[i] = 0 /\ ~pending[i] /\ isrPc = "idle"
        /\ waitPc[i] = "out" /\ calls[i] = 0 /\ lastOk[i] = 0 /\ started[i] = 0
    BY DEF Init, Zero, False
  <2>2. /\ Unwrapped(i) = InitialCount /\ Extended(i) = 0 /\ Returned(i) = 0
        /\ Seen(i) = InitialCount
    BY <1>1, <2>1 DEF Unwrapped, Extended, Returned, Seen
  <2>3. Tallies(i)
    BY <1>1, <2>1, <2>2, CompletionAssumption DEF Tallies
  <2>4. CountsInOrder(i)
    BY <1>1, <2>1, <2>2 DEF CountsInOrder
  <2> QED
    BY <1>1, <2>1, <2>2, <2>3, <2>4 DEF InterruptsInOrder, PollingInOrder
<1> QED
  BY <1>2, <1>3, <1>4, <1>5, <1>6 DEF CompletionInv, CompletionTypes

\* A step that changes neither the counts nor where the ISR is keeps the order.
LEMMA SameOrder ==
    ASSUME NEW i \in Instances,
           UNCHANGED <<completed, jobsFinished, baseMultiplier, prevCount, jobsWaited,
                       isrPc, isrInstance>>
    PROVE  /\ CountsInOrder(i) => CountsInOrder(i)'
           /\ pending'[i] = pending[i] /\ (cancelled[i] => cancelled'[i])
              /\ PollingInOrder(i) => PollingInOrder(i)'
<1>1. Unwrapped(i)' = Unwrapped(i) /\ Extended(i)' = Extended(i) /\ Seen(i)' = Seen(i)
  BY DEF Unwrapped, Extended, Seen
<1>2. CountsInOrder(i) => CountsInOrder(i)'
  BY <1>1 DEF CountsInOrder
<1>3. pending'[i] = pending[i] /\ (cancelled[i] => cancelled'[i])
      /\ PollingInOrder(i) => PollingInOrder(i)'
  BY <1>1 DEF PollingInOrder
<1> QED
  BY <1>2, <1>3

\* The interrupt build keeps the tallies of an instance when none of its own
\* counts changes, and the order if the order is kept.
LEMMA SameTallies ==
    ASSUME NEW i \in Instances, InterruptsInOrder(i),
           started'[i] = started[i], completed'[i] = completed[i],
           jobsWaited'[i] = jobsWaited[i], lastOk'[i] = lastOk[i],
           calls'[i] = calls[i], waitPc'[i] = "out" <=> waitPc[i] = "out",
           CountsInOrder(i) => CountsInOrder(i)'
    PROVE  InterruptsInOrder(i)'
<1>1. Returned(i)' = Returned(i)
  BY DEF Returned
<1>2. Tallies(i)'
  BY <1>1 DEF InterruptsInOrder, Tallies
<1>3. AllCounted(i)' => AllCounted(i)
  BY <1>1 DEF AllCounted
<1> QED
  BY <1>2, <1>3 DEF InterruptsInOrder

\* The hardware: jobs are queued and finish.
LEMMA CompletionStart ==
    ASSUME CompletionInv, NEW i \in Instances, StartJob(i), UNCHANGED runtimePolling
    PROVE  CompletionInv'
<1>1. UNCHANGED <<completed, pending, outOfInferences, isrData, isrPc, isrInstance,
                  waitVars>>
      /\ started' = [started EXCEPT ![i] = @ + 1]
  BY Zenon DEF StartJob
<1>2. CompletionTypes'
  BY <1>1 DEF CompletionInv, CompletionTypes, HardwareTypes, IsrTypes, WaitTypes,
              isrData, waitVars
<1>3. \A j \in Instances : /\ CountsInOrder(j) => CountsInOrder(j)'
                           /\ PollingInOrder(j) => PollingInOrder(j)'
  BY <1>1, SameOrder DEF isrData, waitVars
<1>4. ASSUME NEW j \in Instances, ~runtimePolling PROVE InterruptsInOrder(j)'
  <2>1. InterruptsInOrder(j)
    BY <1>4 DEF CompletionInv
  <2>2. Returned(j)' = Returned(j)
    BY <1>1 DEF Returned, waitVars
  <2>3. started'[j] = IF j = i THEN started[j] + 1 ELSE started[j]
    BY <1>1 DEF CompletionInv, CompletionTypes, HardwareTypes
  <2>4. /\ completed[j] \in Nat /\ started[j] \in Nat /\ Returned(j) \in Int
        /\ MaxOutstanding \in Nat
    BY InstanceTypes DEF CompletionInv
  <2>5. started'[j] <= Returned(j) + MaxOutstanding
    <3>1. CASE j = i
      <4>1. started[i] - Returned(i) < MaxOutstanding
        BY DEF StartJob
      <4> QED
        BY <2>3, <2>4, <3>1, <4>1
    <3> QED
      BY <2>1, <2>3, <3>1 DEF InterruptsInOrder, Tallies
  <2>6. Tallies(j)'
    BY <1>1, <2>1, <2>2, <2>3, <2>4, <2>5 DEF InterruptsInOrder, Tallies, waitVars
  <2> QED
    BY <1>1, <1>3, <2>1, <2>2, <2>6 DEF InterruptsInOrder, AllCounted, waitVars
<1> QED
  BY <1>2, <1>3, <1>4 DEF CompletionInv

LEMMA CompletionFinish ==
    ASSUME CompletionInv, NEW i \in Instances, FinishJob(i), UNCHANGED runtimePolling
    PROVE  CompletionInv'
<1>1. UNCHANGED <<started, isrData, isrPc, isrInstance, waitVars>>
      /\ completed' = [completed EXCEPT ![i] = @ + 1]
      /\ pending' = [pending EXCEPT ![i] = ~runtimePolling]
      /\ outOfInferences' = [outOfInferences EXCEPT ![i] = completed[i] >= LicensedJobs]
      /\ completed[i] < started[i]
  BY Zenon DEF FinishJob
<1>2. CompletionTypes
  BY DEF CompletionInv
<1>3. HardwareTypes'
  BY <1>1, <1>2 DEF CompletionTypes, HardwareTypes
<1>4. CompletionTypes'
  BY <1>1, <1>2, <1>3 DEF CompletionTypes, IsrTypes, WaitTypes, isrData, waitVars
<1>5. ASSUME NEW j \in Instances, j # i
      PROVE  /\ InterruptsInOrder(j) => InterruptsInOrder(j)'
             /\ PollingInOrder(j) => PollingInOrder(j)'
  <2>1. completed'[j] = completed[j] /\ pending'[j] = pending[j]
    BY <1>1, <1>2, <1>5 DEF CompletionTypes, HardwareTypes
  <2>2. Unwrapped(j)' = Unwrapped(j) /\ Seen(j)' = Seen(j) /\ Extended(j)' = Extended(j)
    BY <1>1, <2>1 DEF Unwrapped, Extended, Seen, isrData
  <2>3. CountsInOrder(j) => CountsInOrder(j)'
    BY <1>1, <2>2 DEF CountsInOrder, isrData, waitVars
  <2>4. InterruptsInOrder(j) => InterruptsInOrder(j)'
    BY <1>1, <2>1, <2>3, SameTallies DEF waitVars
  <2> QED
    BY <1>1, <2>1, <2>2, <2>4 DEF PollingInOrder, isrData, waitVars
<1>6. /\ completed'[i] = completed[i] + 1 /\ completed[i] \in Nat
      /\ Unwrapped(i)' = Unwrapped(i) + 1 /\ Unwrapped(i) \in Nat
      /\ Seen(i)' = Seen(i) /\ Seen(i) \in Nat /\ Extended(i)' = Extended(i)
      /\ pending'[i] = ~runtimePolling
      /\ jobsWaited[i] \in Nat /\ jobsFinished[i] \in Nat
      /\ CountModulus \in Nat
  <2>1. completed'[i] = completed[i] + 1 /\ pending'[i] = ~runtimePolling
    BY <1>1, <1>2 DEF CompletionTypes, HardwareTypes
  <2>2. completed[i] \in Nat /\ InitialCount \in Nat
    BY <1>2, InstanceTypes
  <2>3. Unwrapped(i)' = Unwrapped(i) + 1
    BY <2>1, <2>2 DEF Unwrapped
  <2>4. Seen(i)' = Seen(i) /\ Extended(i)' = Extended(i)
    BY <1>1 DEF Extended, Seen, isrData
  <2> QED
    BY <1>2, <2>1, <2>3, <2>4, InstanceTypes
<1>7. ASSUME ~runtimePolling PROVE InterruptsInOrder(i)'
  <2>1. InterruptsInOrder(i)
    BY <1>7 DEF CompletionInv
  <2>2. Returned(i)' = Returned(i)
    BY <1>1 DEF Returned, waitVars
  <2>3. started[i] \in Nat /\ lastOk[i] \in Nat
    BY <1>2, InstanceTypes
  <2>4. Tallies(i)'
    BY <1>1, <1>6, <2>1, <2>2, <2>3 DEF InterruptsInOrder, Tallies, waitVars
  <2>5. CountsInOrder(i) => CountsInOrder(i)'
    BY <1>1, <1>6 DEF CountsInOrder, isrData, waitVars
  <2>6. AllCounted(i)' => AllCounted(i)
    BY <1>1, <2>2 DEF AllCounted, waitVars
  <2> QED
    BY <1>1, <1>6, <2>1, <2>3, <2>4, <2>5, <2>6 DEF InterruptsInOrder, waitVars
<1>8. ASSUME runtimePolling PROVE PollingInOrder(i)'
  <2>1. PollingInOrder(i)
    BY <1>8 DEF CompletionInv
  <2>2. ~pending'[i]
    BY <1>6, <1>8
  <2>3. UNCHANGED <<isrPc, cancelled, jobsWaited, jobsFinished>>
    BY <1>1 DEF isrData, waitVars
  <2> QED
    BY <1>6, <2>1, <2>2, <2>3 DEF PollingInOrder
<1>9. \A j \in Instances : IF runtimePolling THEN PollingInOrder(j)'
                                             ELSE InterruptsInOrder(j)'
  BY <1>5, <1>7, <1>8 DEF CompletionInv
<1> QED
  BY <1>4, <1>9 DEF CompletionInv

\* The polling build has no interrupts to serve.
LEMMA OnlyInterruptsAreServed ==
    ASSUME CompletionInv, Isr
    PROVE  ~runtimePolling
<1>1. 0 \in Instances
  BY CompletionAssumption DEF Instances
<1>2. SUFFICES ASSUME runtimePolling PROVE FALSE
  OBVIOUS
<1>3. isrPc = "idle" /\ \A i \in Instances : ~pending[i]
  BY <1>1, <1>2 DEF CompletionInv, PollingInOrder
<1> QED
  BY <1>3 DEF Isr, IsrBegin, IsrClear, IsrRead, IsrStore

\* The ISR clears the interrupts without looking at a count.
LEMMA CompletionIsrClears ==
    ASSUME CompletionInv, IsrBegin \/ IsrClear, UNCHANGED runtimePolling
    PROVE  CompletionInv'
<1>1. ~runtimePolling
  BY OnlyInterruptsAreServed DEF Isr
<1>2. CompletionTypes /\ isrInstance \in Instances /\ NumInstances \in Nat
      /\ 0 \in Instances /\ (isrInstance + 1 < NumInstances => isrInstance + 1 \in Instances)
  BY CompletionAssumption DEF CompletionInv, CompletionTypes, IsrTypes, Instances
<1>3. /\ UNCHANGED <<started, completed, outOfInferences, isrData, waitVars>>
      /\ isrPc' \in {"clear", "read"} /\ isrInstance' \in Instances
      /\ pending' = pending \/ pending' = [pending EXCEPT ![isrInstance] = FALSE]
  BY <1>2 DEF IsrBegin, IsrClear, hwVars
<1>4. HardwareTypes'
  BY <1>2, <1>3 DEF CompletionTypes, HardwareTypes
<1>5. CompletionTypes'
  BY <1>2, <1>3, <1>4 DEF CompletionTypes, IsrTypes, WaitTypes, isrData, waitVars
<1>6. ASSUME NEW j \in Instances PROVE InterruptsInOrder(j)'
  <2>1. InterruptsInOrder(j)
    BY <1>1 DEF CompletionInv
  <2>2. Unwrapped(j)' = Unwrapped(j) /\ Seen(j)' = Seen(j)
    BY <1>3 DEF Unwrapped, Extended, Seen, isrData
  <2>3. CountsInOrder(j) => CountsInOrder(j)'
    BY <1>3, <2>2 DEF CountsInOrder, isrData, waitVars
  <2> QED
    BY <1>3, <2>1, <2>3, SameTallies DEF waitVars
<1> QED
  BY <1>1, <1>5, <1>6 DEF CompletionInv

\* As long as every wait has counted its job, reading the count makes the
\* extension exact.
LEMMA ReadingIsExact ==
    ASSUME CompletionInv, FirstWrapIsSeen, ~runtimePolling, NEW i \in Instances,
           AllCounted(i),
           baseMultiplier'[i] = IF prevCount[i] > Unwrapped(i) % CountModulus
                                THEN baseMultiplier[i] + 1 ELSE baseMultiplier[i],
           prevCount'[i] = Unwrapped(i) % CountModulus
    PROVE  /\ Extended(i)' = Unwrapped(i) /\ Seen(i)' = Unwrapped(i)
           /\ jobsWaited[i] <= jobsFinished[i] /\ jobsFinished[i] <= Unwrapped(i)
<1>1. CompletionTypes /\ InterruptsInOrder(i) /\ FALSE \in Builds
  <2>1. CompletionTypes /\ InterruptsInOrder(i)
    BY Zenon DEF CompletionInv
  <2>2. runtimePolling = FALSE
    BY <2>1, CompletionAssumption DEF CompletionTypes
  <2> QED
    BY <2>1, <2>2, Zenon DEF CompletionTypes
<1>2. /\ CountModulus \in Nat \ {0, 1} /\ InitialCount \in 0 .. CountModulus - 1
      /\ MaxOutstanding \in Nat \ {0} /\ Unwrapped(i) \in Nat
      /\ completed[i] \in Nat /\ started[i] \in Nat /\ lastOk[i] \in Nat
      /\ jobsFinished[i] \in Nat /\ jobsWaited[i] \in Nat /\ Returned(i) \in Int
      /\ baseMultiplier[i] \in Nat /\ prevCount[i] \in 0 .. CountModulus - 1
      /\ Extended(i) \in Nat /\ Seen(i) \in Nat
  BY <1>1, InstanceTypes
<1>3. InitialCount + MaxOutstanding < CountModulus
  BY <1>1 DEF FirstWrapIsSeen
<1>4. CountsInOrder(i) /\ Tallies(i)
  BY <1>1 DEF InterruptsInOrder
<1>5. jobsWaited[i] <= jobsFinished[i] /\ jobsFinished[i] <= Unwrapped(i)
  BY <1>2, <1>4 DEF CountsInOrder
<1>6. Unwrapped(i) <= Seen(i) + MaxOutstanding
  BY <1>2, <1>4 DEF CountsInOrder, Tallies, AllCounted, Unwrapped
<1>7. CASE baseMultiplier[i] = 0 /\ prevCount[i] < InitialCount
  <2>1. Seen(i) = InitialCount
    BY <1>7 DEF Seen
  <2>2. Unwrapped(i) \in 0 .. CountModulus - 1 /\ InitialCount <= Unwrapped(i)
    BY <1>2, <1>3, <1>6, <2>1 DEF Unwrapped
  <2>3. Unwrapped(i) % CountModulus = Unwrapped(i)
    BY <1>2, <2>2, NoWrapYet
  <2>4. ~(prevCount[i] > Unwrapped(i))
    BY <1>2, <1>7, <2>2
  <2>5. baseMultiplier'[i] = 0 /\ prevCount'[i] = Unwrapped(i)
    BY <1>7, <2>3, <2>4
  <2>6. Extended(i)' = Unwrapped(i)
    BY <1>2, <2>5 DEF Extended
  <2>7. Seen(i)' = Extended(i)'
    BY <1>2, <2>2, <2>5 DEF Seen
  <2> QED
    BY <1>5, <2>6, <2>7
<1>8. CASE ~(baseMultiplier[i] = 0 /\ prevCount[i] < InitialCount)
  <2>1. Seen(i) = Extended(i)
    BY <1>8 DEF Seen
  <2>2. Extended(i) <= Unwrapped(i) /\ Unwrapped(i) < Extended(i) + CountModulus
    BY <1>2, <1>3, <1>4, <1>6, <2>1 DEF CountsInOrder
  <2>3. (IF prevCount[i] > Unwrapped(i) % CountModulus
         THEN baseMultiplier[i] + 1 ELSE baseMultiplier[i]) * CountModulus
        + (Unwrapped(i) % CountModulus) = Unwrapped(i)
    BY <1>2, <2>2, WrapDetected DEF Extended
  <2>4. Extended(i)' = baseMultiplier'[i] * CountModulus + prevCount'[i]
    BY DEF Extended
  <2>5. Extended(i)' = Unwrapped(i)
    BY <2>3, <2>4, Zenon
  <2>6. ~(baseMultiplier'[i] = 0 /\ prevCount'[i] < InitialCount)
    <3>1. ASSUME baseMultiplier'[i] = 0 PROVE prevCount'[i] = Unwrapped(i)
      <4>1. Unwrapped(i) % CountModulus \in Int
        BY <1>2, RemainderRange
      <4>2. 0 * CountModulus + prevCount'[i] = Unwrapped(i)
        BY <2>4, <2>5, <3>1
      <4> QED
        BY <1>2, <4>1, <4>2
    <3> QED
      BY <1>2, <3>1 DEF Unwrapped
  <2> QED
    BY <1>5, <2>5, <2>6 DEF Seen
<1> QED
  BY <1>7, <1>8

LEMMA CompletionIsrRead ==
    ASSUME CompletionInv, FirstWrapIsSeen, IsrRead, UNCHANGED runtimePolling
    PROVE  CompletionInv'
<1>1. ~runtimePolling
  BY OnlyInterruptsAreServed DEF Isr
<1>2. CompletionTypes
  BY DEF CompletionInv
<1> PICK i \in Instances : i = isrInstance
  BY <1>2 DEF CompletionTypes, IsrTypes
<1>3. /\ UNCHANGED <<hwVars, jobsFinished, isrInstance, waitVars>>
      /\ isrPc' = "store"
      /\ descQueueDiag' = [descQueueDiag EXCEPT ![i] = outOfInferences[i]]
      /\ baseMultiplier' = [baseMultiplier EXCEPT
             ![i] = IF prevCount[i] > CompletionCount(i) THEN @ + 1 ELSE @]
      /\ prevCount' = [prevCount EXCEPT ![i] = CompletionCount(i)]
  BY DEF IsrRead
<1>4. /\ CountModulus \in Nat \ {0, 1} /\ Unwrapped(i) \in Nat
      /\ jobsFinished[i] \in Nat /\ baseMultiplier[i] \in Nat
      /\ prevCount[i] \in 0 .. CountModulus - 1
  BY <1>2, InstanceTypes
<1>5. CompletionCount(i) = Unwrapped(i) % CountModulus
      /\ CompletionCount(i) \in 0 .. CountModulus - 1
  BY <1>4, RemainderRange DEF CompletionCount, Unwrapped
<1>6. IsrTypes'
  <2>1. descQueueDiag' \in [Instances -> BOOLEAN]
    BY <1>2, <1>3 DEF CompletionTypes, IsrTypes, HardwareTypes
  <2>2. baseMultiplier' \in [Instances -> Nat]
    BY <1>2, <1>3, <1>4 DEF CompletionTypes, IsrTypes
  <2>3. prevCount' \in [Instances -> 0 .. CountModulus - 1]
    BY <1>2, <1>3, <1>5 DEF CompletionTypes, IsrTypes
  <2> QED
    BY <1>2, <1>3, <2>1, <2>2, <2>3 DEF CompletionTypes, IsrTypes
<1>7. CompletionTypes'
  BY <1>2, <1>3, <1>6 DEF CompletionTypes, HardwareTypes, WaitTypes, hwVars, waitVars
<1>8. ASSUME NEW j \in Instances, j # i PROVE InterruptsInOrder(j)'
  <2>1. InterruptsInOrder(j)
    BY <1>1 DEF CompletionInv
  <2>2. baseMultiplier'[j] = baseMultiplier[j] /\ prevCount'[j] = prevCount[j]
    BY <1>2, <1>3, <1>8 DEF CompletionTypes, IsrTypes
  <2>3. Unwrapped(j)' = Unwrapped(j) /\ Seen(j)' = Seen(j)
    BY <1>3, <2>2 DEF Unwrapped, Extended, Seen, hwVars
  <2>4. CountsInOrder(j) => CountsInOrder(j)'
    BY <1>3, <1>8, <2>3 DEF CountsInOrder, waitVars
  <2> QED
    BY <1>3, <2>1, <2>4, SameTallies DEF hwVars, waitVars
<1>9. InterruptsInOrder(i)'
  <2>1. InterruptsInOrder(i)
    BY <1>1, <1>2 DEF CompletionInv
  <2>2. /\ baseMultiplier'[i] = IF prevCount[i] > Unwrapped(i) % CountModulus
                                THEN baseMultiplier[i] + 1 ELSE baseMultiplier[i]
        /\ prevCount'[i] = Unwrapped(i) % CountModulus
    BY <1>2, <1>3, <1>5 DEF CompletionTypes, IsrTypes
  <2>3. UNCHANGED <<started, completed, jobsFinished, waitVars, isrInstance>>
        /\ Unwrapped(i)' = Unwrapped(i) /\ Returned(i)' = Returned(i)
    BY <1>3 DEF Unwrapped, Returned, hwVars, waitVars
  <2>4. AllCounted(i)' => CountsInOrder(i)'
    <3> SUFFICES ASSUME AllCounted(i)' PROVE CountsInOrder(i)'
      OBVIOUS
    <3>1. AllCounted(i)
      BY <2>3 DEF AllCounted, waitVars
    <3>2. /\ Extended(i)' = Unwrapped(i) /\ Seen(i)' = Unwrapped(i)
          /\ jobsWaited[i] <= jobsFinished[i] /\ jobsFinished[i] <= Unwrapped(i)
      BY <1>1, <2>2, <3>1, ReadingIsExact
    <3> QED
      BY <1>4, <2>3, <3>2 DEF CountsInOrder, waitVars
  <2>5. Tallies(i)'
    BY <2>1, <2>3 DEF InterruptsInOrder, Tallies, waitVars
  <2> QED
    BY <2>1, <2>3, <2>4, <2>5 DEF InterruptsInOrder, waitVars
<1> QED
  BY <1>1, <1>7, <1>8, <1>9 DEF CompletionInv

\* Publishing the extension keeps what was published before or moves it on.
LEMMA CompletionIsrStore ==
    ASSUME CompletionInv, IsrStore, UNCHANGED runtimePolling
    PROVE  CompletionInv'
<1> DEFINE i == isrInstance
<1>1. ~runtimePolling
  BY OnlyInterruptsAreServed DEF Isr
<1>2. CompletionTypes /\ i \in Instances /\ NumInstances \in Nat /\ isrPc = "store"
      /\ 0 \in Instances /\ (isrInstance + 1 < NumInstances => isrInstance + 1 \in Instances)
  BY CompletionAssumption
  DEF IsrStore, CompletionInv, CompletionTypes, IsrTypes, Instances
<1>3. /\ UNCHANGED <<hwVars, baseMultiplier, prevCount, descQueueDiag,
                     jobsWaited, calls, lastOk, cancelled>>
      /\ isrPc' \in {"read", "idle"} /\ isrInstance' \in Instances
      /\ waitPc' = [waitPc EXCEPT ![i] = IF @ = "sleep" THEN "test" ELSE @]
      /\ jobsFinished' = [jobsFinished EXCEPT ![i] =
             baseMultiplier[i] * (CountModulus - 1) + prevCount[i] + baseMultiplier[i]]
  BY <1>2 DEF IsrStore
<1>4. /\ CountModulus \in Nat \ {0, 1} /\ Unwrapped(i) \in Nat
      /\ jobsFinished[i] \in Nat /\ baseMultiplier[i] \in Nat
      /\ prevCount[i] \in 0 .. CountModulus - 1 /\ Extended(i) \in Nat
  BY <1>2, InstanceTypes
<1>5. baseMultiplier[i] * (CountModulus - 1) + prevCount[i] + baseMultiplier[i]
        = Extended(i)
  BY <1>4 DEF Extended
<1> HIDE DEF i
<1>6. jobsFinished' = [jobsFinished EXCEPT ![i] = Extended(i)]
  BY <1>3, <1>5
<1>7. waitPc' \in [Instances -> WaitSteps]
  BY <1>2, <1>3 DEF CompletionTypes, WaitTypes, WaitSteps
<1>8. CompletionTypes'
  BY <1>2, <1>3, <1>4, <1>6, <1>7
  DEF CompletionTypes, HardwareTypes, IsrTypes, WaitTypes, hwVars
<1>9. ASSUME NEW j \in Instances PROVE InterruptsInOrder(j)'
  <2>1. InterruptsInOrder(j)
    BY <1>1 DEF CompletionInv
  <2>2. Unwrapped(j)' = Unwrapped(j) /\ Seen(j)' = Seen(j)
    BY <1>3 DEF Unwrapped, Extended, Seen, hwVars
  <2>3. /\ jobsFinished[j] \in Nat /\ jobsWaited[j] \in Nat
        /\ Seen(j) \in Nat /\ Unwrapped(j) \in Nat
    BY <1>2, InstanceTypes
  <2>4. CountsInOrder(j) => CountsInOrder(j)'
    <3> SUFFICES ASSUME CountsInOrder(j) PROVE CountsInOrder(j)'
      OBVIOUS
    <3>1. jobsFinished'[j] \in {jobsFinished[j], Seen(j)}
      <4>1. CASE j = i
        BY <1>2, <1>6, <4>1 DEF CountsInOrder, CompletionTypes, IsrTypes, i
      <4>2. CASE j # i
        BY <1>2, <1>6, <4>2 DEF CompletionTypes, IsrTypes
      <4> QED
        BY <4>1, <4>2
    <3>2. jobsWaited[j] <= jobsFinished[j] /\ jobsFinished[j] <= Seen(j)
          /\ Seen(j) <= Unwrapped(j)
      BY DEF CountsInOrder
    <3>3. jobsWaited[j] <= jobsFinished'[j] /\ jobsFinished'[j] <= Seen(j)
      BY <2>3, <3>1, <3>2
    <3> QED
      BY <1>3, <2>2, <3>2, <3>3 DEF CountsInOrder
  <2>5. waitPc'[j] = "out" <=> waitPc[j] = "out"
    BY <1>2, <1>3 DEF CompletionTypes, WaitTypes
  <2> QED
    BY <1>3, <2>1, <2>4, <2>5, SameTallies DEF hwVars
<1> QED
  BY <1>1, <1>8, <1>9 DEF CompletionInv

-----------------------------------------------------------------------------
(* The waiting threads.                                                    *)

\* What a step of a waiting thread must be shown to do: it keeps the types of
\* its variables and the order of its own instance; the rest it leaves alone.
LEMMA WaitingThread ==
    ASSUME CompletionInv, UNCHANGED runtimePolling, NEW i \in Instances,
           UNCHANGED <<hwVars, baseMultiplier, prevCount, descQueueDiag, isrPc,
                       isrInstance>>,
           jobsFinished' \in [Instances -> Nat], WaitTypes',
           \A j \in Instances \ {i} : /\ jobsFinished'[j] = jobsFinished[j]
                                      /\ jobsWaited'[j] = jobsWaited[j]
                                      /\ cancelled'[j] = cancelled[j]
                                      /\ lastOk'[j] = lastOk[j]
                                      /\ calls'[j] = calls[j]
                                      /\ waitPc'[j] = waitPc[j],
           IF runtimePolling THEN PollingInOrder(i)' ELSE InterruptsInOrder(i)'
    PROVE  CompletionInv'
<1>1. CompletionTypes'
  BY DEF CompletionInv, CompletionTypes, HardwareTypes, IsrTypes, hwVars
<1>2. ASSUME NEW j \in Instances, j # i
      PROVE  /\ InterruptsInOrder(j) => InterruptsInOrder(j)'
             /\ PollingInOrder(j) => PollingInOrder(j)'
  <2>1. Unwrapped(j)' = Unwrapped(j) /\ Seen(j)' = Seen(j) /\ Extended(j)' = Extended(j)
        /\ UNCHANGED <<started, completed, pending, isrPc, isrInstance>>
    BY DEF Unwrapped, Extended, Seen, hwVars
  <2>2. /\ jobsFinished'[j] = jobsFinished[j] /\ jobsWaited'[j] = jobsWaited[j]
        /\ cancelled'[j] = cancelled[j] /\ lastOk'[j] = lastOk[j]
        /\ calls'[j] = calls[j] /\ waitPc'[j] = waitPc[j]
    BY <1>2
  <2>3. CountsInOrder(j) => CountsInOrder(j)'
    BY <2>1, <2>2 DEF CountsInOrder
  <2>4. InterruptsInOrder(j) => InterruptsInOrder(j)'
    BY <2>1, <2>2, <2>3, SameTallies
  <2>5. PollingInOrder(j) => PollingInOrder(j)'
    BY <2>1, <2>2 DEF PollingInOrder
  <2> QED
    BY <2>4, <2>5
<1> QED
  BY <1>1, <1>2 DEF CompletionInv

\* Steps between the tests of the condition do not touch a count.
LEMMA CompletionMoves ==
    ASSUME CompletionInv, UNCHANGED runtimePolling, NEW i \in Instances,
           \/ EnterWait(i) \/ WaitSleep(i) \/ WaitWakeSpuriously(i)
           \/ WaitExpires(i) \/ WaitTimesOut(i) \/ Cancel(i)
    PROVE  CompletionInv'
<1>1. CompletionTypes
  BY DEF CompletionInv
<1>2. UNCHANGED <<hwVars, isrData, isrPc, isrInstance, jobsWaited, lastOk>>
  BY DEF EnterWait, WaitSleep, WaitWakeSpuriously, WaitExpires, WaitTimesOut, Cancel
<1>3. \/ calls' = calls \/ calls' = [calls EXCEPT ![i] = @ + 1]
  BY DEF EnterWait, WaitSleep, WaitWakeSpuriously, WaitExpires, WaitTimesOut, Cancel
<1>4. \/ waitPc' = waitPc
      \/ \E step \in WaitSteps : waitPc' = [waitPc EXCEPT ![i] = step]
  BY DEF EnterWait, WaitSleep, WaitWakeSpuriously, WaitExpires, WaitTimesOut, Cancel,
         WaitSteps
<1>5. \/ cancelled' = cancelled
      \/ runtimePolling /\ cancelled' = [cancelled EXCEPT ![i] = TRUE]
  BY DEF EnterWait, WaitSleep, WaitWakeSpuriously, WaitExpires, WaitTimesOut, Cancel
<1>6. WaitTypes'
  <2>1. calls' \in [Instances -> Nat]
    BY <1>1, <1>3 DEF CompletionTypes, WaitTypes
  <2>2. waitPc' \in [Instances -> WaitSteps]
    BY <1>1, <1>4 DEF CompletionTypes, WaitTypes
  <2>3. cancelled' \in [Instances -> BOOLEAN]
    BY <1>1, <1>5 DEF CompletionTypes, WaitTypes
  <2> QED
    BY <1>1, <1>2, <2>1, <2>2, <2>3 DEF CompletionTypes, WaitTypes
<1>7. Unwrapped(i)' = Unwrapped(i) /\ Seen(i)' = Seen(i) /\ Extended(i)' = Extended(i)
  BY <1>2 DEF Unwrapped, Extended, Seen, hwVars, isrData
<1>8. ASSUME ~runtimePolling PROVE InterruptsInOrder(i)'
  <2>1. InterruptsInOrder(i)
    BY <1>8 DEF CompletionInv
  <2>2. /\ jobsWaited[i] \in Nat /\ lastOk[i] \in Nat /\ calls[i] \in Nat
        /\ started[i] \in Nat /\ InitialCount \in Nat /\ MaxOutstanding \in Nat
        /\ Returned(i) \in Int
    BY <1>1, InstanceTypes
  <2>3. /\ Returned(i)' \in {Returned(i), Returned(i) + 1}
        /\ waitPc'[i] # "out" => calls'[i] >= 1
    <3>1. CASE EnterWait(i)
      <4>1. waitPc[i] = "out" /\ waitPc'[i] = "test" /\ calls'[i] = calls[i] + 1
        BY <1>1, <3>1 DEF EnterWait, CompletionTypes, WaitTypes
      <4> QED
        BY <2>2, <4>1 DEF Returned
    <3>2. CASE WaitTimesOut(i)
      <4>1. waitPc[i] = "expired" /\ waitPc'[i] = "out" /\ calls'[i] = calls[i]
        BY <1>1, <3>2 DEF WaitTimesOut, CompletionTypes, WaitTypes
      <4> QED
        BY <2>2, <4>1 DEF Returned
    <3>3. CASE WaitSleep(i) \/ WaitWakeSpuriously(i) \/ WaitExpires(i) \/ Cancel(i)
      <4>1. (waitPc'[i] = "out" <=> waitPc[i] = "out") /\ calls'[i] = calls[i]
        BY <1>1, <3>3 DEF WaitSleep, WaitWakeSpuriously, WaitExpires, Cancel,
                          CompletionTypes, WaitTypes
      <4> QED
        BY <2>1, <4>1 DEF Returned, InterruptsInOrder, Tallies
    <3> QED
      BY <3>1, <3>2, <3>3
  <2>4. UNCHANGED <<started, completed, jobsFinished, jobsWaited, lastOk, isrPc,
                    isrInstance>>
    BY <1>2 DEF hwVars, isrData
  <2>5. Tallies(i)'
    BY <2>1, <2>2, <2>3, <2>4 DEF InterruptsInOrder, Tallies
  <2>6. AllCounted(i)' => AllCounted(i)
    BY <2>1, <2>2, <2>3, <2>4 DEF InterruptsInOrder, Tallies, AllCounted
  <2>7. CountsInOrder(i) => CountsInOrder(i)'
    BY <1>7, <2>4 DEF CountsInOrder
  <2> QED
    BY <2>1, <2>4, <2>5, <2>6, <2>7 DEF InterruptsInOrder
<1>9. ASSUME runtimePolling PROVE PollingInOrder(i)'
  <2>1. PollingInOrder(i)
    BY <1>9 DEF CompletionInv
  <2>2. cancelled[i] => cancelled'[i]
    BY <1>1, <1>5 DEF CompletionTypes, WaitTypes
  <2> QED
    BY <1>2, <1>7, <2>1, <2>2 DEF PollingInOrder, hwVars, isrData
<1>10. \A j \in Instances \ {i} : /\ cancelled'[j] = cancelled[j]
                                   /\ calls'[j] = calls[j] /\ waitPc'[j] = waitPc[j]
  BY <1>1, <1>3, <1>4, <1>5 DEF CompletionTypes, WaitTypes
<1> QED
  BY <1>1, <1>2, <1>6, <1>8, <1>9, <1>10, WaitingThread
  DEF CompletionTypes, IsrTypes, isrData

\* WaitForDla returns.  In the interrupt build the count it saw was ahead, so
\* one more job is done.  In the polling build it differed, so either it was
\* ahead or a whole turn of the register is done.
LEMMA CompletionLeaves ==
    ASSUME CompletionInv, UNCHANGED runtimePolling, NEW i \in Instances,
           WaitDone(i) \/ WaitCancelled(i)
    PROVE  CompletionInv'
<1>1. CompletionTypes
  BY DEF CompletionInv
<1>2. /\ UNCHANGED <<hwVars, isrData, isrPc, isrInstance, calls, cancelled>>
      /\ Leave(i)
      /\ jobsFinished[i] # jobsWaited[i] \/ (runtimePolling /\ cancelled[i])
  BY DEF WaitDone, WaitCancelled
<1>3. /\ jobsWaited' \in [Instances -> Nat]
      /\ jobsWaited'[i] \in {jobsWaited[i], jobsWaited[i] + 1}
      /\ \A j \in Instances \ {i} : /\ jobsWaited'[j] = jobsWaited[j]
                                     /\ lastOk'[j] = lastOk[j]
                                     /\ waitPc'[j] = waitPc[j]
  BY <1>1, <1>2 DEF Leave, CompletionTypes, WaitTypes
<1>4. WaitTypes'
  <2>1. lastOk' \in [Instances -> Nat]
    BY <1>1, <1>2 DEF Leave, CompletionTypes, WaitTypes
  <2>2. waitPc' \in [Instances -> WaitSteps]
    BY <1>1, <1>2 DEF Leave, CompletionTypes, WaitTypes, WaitSteps
  <2> QED
    BY <1>1, <1>2, <1>3, <2>1, <2>2 DEF CompletionTypes, WaitTypes
<1>5. /\ Unwrapped(i)' = Unwrapped(i) /\ Seen(i)' = Seen(i)
      /\ Extended(i)' = Extended(i)
      /\ UNCHANGED <<started, completed, pending, jobsFinished>>
  BY <1>2 DEF Unwrapped, Extended, Seen, hwVars, isrData
<1>6. /\ Unwrapped(i) \in Nat /\ CountModulus \in Nat
      /\ jobsFinished[i] \in Nat /\ jobsWaited[i] \in Nat
  BY <1>1, InstanceTypes
<1>7. ASSUME ~runtimePolling PROVE InterruptsInOrder(i)'
  <2>1. InterruptsInOrder(i)
    BY <1>7 DEF CompletionInv
  <2>2. /\ lastOk[i] \in Nat /\ calls[i] \in Nat /\ started[i] \in Nat
        /\ InitialCount \in Nat /\ MaxOutstanding \in Nat /\ Seen(i) \in Nat
        /\ completed[i] \in Nat /\ Returned(i) \in Int
    BY <1>1, InstanceTypes
  <2>3. /\ waitPc[i] = "test" /\ waitPc'[i] = "out" /\ calls'[i] = calls[i]
        /\ Returned(i) = calls[i] - 1 /\ Returned(i)' = calls[i]
    <3>1. waitPc[i] = "test" /\ waitPc'[i] = "out" /\ calls' = calls
      BY <1>1, <1>2 DEF Leave, WaitDone, WaitCancelled, CompletionTypes, WaitTypes
    <3> QED
      BY <3>1 DEF Returned
  <2>4. \/ jobsWaited'[i] = jobsWaited[i] /\ lastOk'[i] = lastOk[i]
        \/ jobsWaited'[i] = jobsWaited[i] + 1 /\ lastOk'[i] = calls[i]
    BY <1>1, <1>2 DEF Leave, CompletionTypes, WaitTypes
  <2>5. Tallies(i)'
    BY <1>5, <1>6, <2>1, <2>2, <2>3, <2>4 DEF InterruptsInOrder, Tallies
  <2>6. CASE jobsWaited'[i] = jobsWaited[i] /\ lastOk'[i] = lastOk[i]
    <3>1. ~AllCounted(i)'
      BY <1>6, <2>1, <2>2, <2>3, <2>6 DEF InterruptsInOrder, Tallies, AllCounted
    <3> QED
      BY <1>5, <2>1, <2>5, <2>6, <3>1 DEF InterruptsInOrder
  <2>7. CASE jobsWaited'[i] = jobsWaited[i] + 1 /\ lastOk'[i] = calls[i]
    <3>1. ASSUME AllCounted(i)
          PROVE  jobsWaited'[i] <= jobsFinished[i] /\ CountsInOrder(i)
                 /\ calls[i] <= completed[i]
      <4>1. CountsInOrder(i)
        BY <2>1, <3>1 DEF InterruptsInOrder
      <4>2. jobsWaited'[i] <= jobsFinished[i]
        BY <1>2, <1>6, <1>7, <2>7, <4>1 DEF CountsInOrder
      <4>3. jobsWaited'[i] <= Unwrapped(i)
        BY <1>3, <1>6, <2>2, <4>1, <4>2 DEF CountsInOrder
      <4>4. jobsWaited'[i] = InitialCount + calls[i]
        BY <2>2, <2>3, <2>7, <3>1 DEF AllCounted
      <4> QED
        BY <2>2, <4>1, <4>2, <4>3, <4>4 DEF Unwrapped
    <3>2. jobsWaited'[i] = InitialCount + lastOk'[i] => AllCounted(i)
      BY <1>6, <2>2, <2>3, <2>7 DEF AllCounted
    <3>3. AllCounted(i)' => AllCounted(i)
      BY <1>6, <2>2, <2>3, <2>7 DEF AllCounted
    <3>4. AllCounted(i)' => CountsInOrder(i)'
      BY <1>2, <1>5, <3>1, <3>3 DEF CountsInOrder
    <3> QED
      BY <1>5, <2>5, <2>7, <3>1, <3>2, <3>4 DEF InterruptsInOrder
  <2> QED
    BY <2>4, <2>6, <2>7
<1>8. ASSUME runtimePolling PROVE PollingInOrder(i)'
  <2>1. PollingInOrder(i)
    BY <1>8 DEF CompletionInv
  <2>2. ASSUME ~cancelled[i], jobsWaited'[i] < CountModulus
        PROVE  /\ jobsWaited'[i] <= Unwrapped(i)
               /\ jobsFinished[i] <= Unwrapped(i)
               /\ jobsWaited'[i] <= jobsFinished[i] \/ CountModulus <= Unwrapped(i)
    <3>1. /\ jobsWaited[i] < CountModulus /\ jobsFinished[i] # jobsWaited[i]
      BY <1>2, <1>3, <1>6, <2>2
    <3>2. /\ jobsWaited[i] <= Unwrapped(i)
          /\ jobsFinished[i] <= Unwrapped(i)
          /\ jobsWaited[i] <= jobsFinished[i] \/ CountModulus <= Unwrapped(i)
      BY <2>1, <2>2, <3>1 DEF PollingInOrder
    <3> QED
      BY <1>3, <1>6, <2>2, <3>1, <3>2
  <2> QED
    BY <1>2, <1>5, <2>1, <2>2 DEF PollingInOrder
<1> QED
  BY <1>1, <1>2, <1>3, <1>4, <1>5, <1>7, <1>8, WaitingThread
  DEF CompletionTypes, IsrTypes, isrData

\* A polling iteration reads the register, which may have wrapped.
LEMMA CompletionPolls ==
    ASSUME CompletionInv, UNCHANGED runtimePolling, NEW i \in Instances,
           WaitPoll(i) \/ WaitPollTimesOut(i)
    PROVE  CompletionInv'
<1>1. CompletionTypes
  BY DEF CompletionInv
<1>2. /\ runtimePolling
      /\ UNCHANGED <<hwVars, baseMultiplier, prevCount, descQueueDiag, isrPc,
                     isrInstance, jobsWaited, calls, lastOk, cancelled>>
      /\ jobsFinished' = [jobsFinished EXCEPT ![i] = CompletionCount(i)]
      /\ waitPc' = waitPc \/ waitPc' = [waitPc EXCEPT ![i] = "out"]
  BY DEF WaitPoll, WaitPollTimesOut, waitVars
<1>3. /\ CountModulus \in Nat \ {0} /\ Unwrapped(i) \in Nat /\ jobsWaited[i] \in Nat
  BY <1>1, InstanceTypes
<1>4. CompletionCount(i) = Unwrapped(i) % CountModulus
      /\ CompletionCount(i) \in 0 .. CountModulus - 1
  BY <1>3, RemainderRange DEF CompletionCount, Unwrapped
<1>5. /\ jobsFinished' \in [Instances -> Nat]
      /\ jobsFinished'[i] = CompletionCount(i)
      /\ \A j \in Instances \ {i} : /\ jobsFinished'[j] = jobsFinished[j]
                                     /\ waitPc'[j] = waitPc[j]
  BY <1>1, <1>2, <1>4 DEF CompletionTypes, IsrTypes, WaitTypes
<1>6. WaitTypes'
  <2>1. waitPc' \in [Instances -> WaitSteps]
    BY <1>1, <1>2 DEF CompletionTypes, WaitTypes, WaitSteps
  <2> QED
    BY <1>1, <1>2, <2>1 DEF CompletionTypes, WaitTypes
<1>7. PollingInOrder(i)'
  <2>1. PollingInOrder(i)
    BY <1>2 DEF CompletionInv
  <2>2. Unwrapped(i)' = Unwrapped(i)
    BY <1>2 DEF Unwrapped, hwVars
  <2>3. \/ CompletionCount(i) = Unwrapped(i) \/ CountModulus <= Unwrapped(i)
    BY <1>3, <1>4, NoWrapYet
  <2>4. CompletionCount(i) <= Unwrapped(i)
    BY <1>3, <1>4, <2>3
  <2> QED
    BY <1>2, <1>3, <1>4, <1>5, <2>1, <2>2, <2>3, <2>4 DEF PollingInOrder, hwVars
<1> QED
  BY <1>2, <1>5, <1>6, <1>7, WaitingThread

-----------------------------------------------------------------------------
(* The theorem.                                                            *)

LEMMA CompletionNext ==
    ASSUME FirstWrapIsSeen, CompletionInv, [Next]_vars
    PROVE  CompletionInv'
<1>1. ASSUME UNCHANGED vars PROVE CompletionInv'
  <2>1. CompletionTypes'
    BY <1>1 DEF CompletionInv, CompletionTypes, HardwareTypes, IsrTypes, WaitTypes,
                vars, hwVars, isrData, waitVars
  <2>2. \A i \in Instances : /\ CountsInOrder(i) => CountsInOrder(i)'
                             /\ PollingInOrder(i) => PollingInOrder(i)'
    BY <1>1, SameOrder DEF vars, hwVars, isrData, waitVars
  <2>3. \A i \in Instances : InterruptsInOrder(i) => InterruptsInOrder(i)'
    BY <1>1, <2>2, SameTallies DEF vars, hwVars, waitVars
  <2> QED
    BY <1>1, <2>1, <2>2, <2>3 DEF CompletionInv, vars
<1>2. ASSUME Next PROVE CompletionInv'
  <2>1. UNCHANGED runtimePolling
    BY <1>2 DEF Next
  <2>2. CASE Isr
    BY <1>2, <2>1, <2>2, CompletionIsrClears, CompletionIsrRead, CompletionIsrStore
    DEF Isr
  <2>3. ASSUME NEW i \in Instances,
               \/ StartJob(i) \/ FinishJob(i) \/ Wait(i)
               \/ WaitWakeSpuriously(i) \/ WaitExpires(i)
               \/ WaitPollTimesOut(i) \/ Cancel(i)
        PROVE  CompletionInv'
    BY <1>2, <2>1, <2>3, CompletionStart, CompletionFinish, CompletionMoves,
       CompletionLeaves, CompletionPolls DEF Wait
  <2> QED
    BY <1>2, <2>2, <2>3 DEF Next
<1> QED
  BY <1>1, <1>2

\* If the register is not about to wrap when the device is opened, the order of
\* the counts is kept whatever the interleaving of the hardware, the ISR and the
\* waiting threads, until a wait does not count its job.
THEOREM CompletionInvariant == FirstWrapIsSeen => (Spec => []CompletionInv)
<1> SUFFICES ASSUME FirstWrapIsSeen PROVE Spec => []CompletionInv
  OBVIOUS
<1>1. CompletionInv /\ [Next]_vars => CompletionInv'
  BY CompletionNext
<1> QED
  BY CompletionInit, <1>1, PTL DEF Spec

\* A wait that reports success reports a job that is done: when the n-th call
\* of WaitForDla returns, n jobs have finished (coredla_device.cpp, WaitForDla
\* and InterruptServiceRoutine), for any number of instances and registers of
\* any width.  The interrupt build needs a register that is not about to wrap
\* when the device is opened; the polling build needs no hypothesis.
THEOREM WaitsMeanDone == FirstWrapIsSeen => (Spec => []WaitMeansDone)
<1> SUFFICES ASSUME FirstWrapIsSeen PROVE Spec => []WaitMeansDone
  OBVIOUS
<1>1. ASSUME CompletionInv PROVE WaitMeansDone
  <2>1. SUFFICES ASSUME NEW i \in Instances,
                        jobsWaited[i] = InitialCount + lastOk[i], ~cancelled[i],
                        runtimePolling => jobsWaited[i] < CountModulus
                 PROVE  lastOk[i] <= completed[i]
    BY DEF WaitMeansDone
  <2>2. /\ InitialCount \in Nat /\ completed[i] \in Nat /\ jobsWaited[i] \in Nat
        /\ lastOk[i] \in Nat
    BY <1>1, InstanceTypes DEF CompletionInv
  <2>3. CASE runtimePolling
    BY <1>1, <2>1, <2>2, <2>3 DEF CompletionInv, PollingInOrder, Unwrapped
  <2>4. CASE ~runtimePolling
    BY <1>1, <2>1, <2>4 DEF CompletionInv, InterruptsInOrder
  <2> QED
    BY <2>3, <2>4
<1> QED
  BY <1>1, CompletionInvariant, PTL

=============================================================================
