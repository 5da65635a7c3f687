---------------------------- MODULE SpatialPacking ----------------------------
(***************************************************************************)
(* How the spatial runtimes lay a tensor out on the bus of the board.  A   *)
(* port is a geometry: w bits per element, l lanes (elements per           *)
(* subvector) and s subvectors per packet.  The layouts are given as maps  *)
(* from bit k of element i of a packet to a bit of the packed packet.      *)
(***************************************************************************)
EXTENDS Integers, Sequences

HostBusBits == 512     \* HOST_BUS_NUM_BYTES * 8, one transfer of the OFS bus
StreamWidth == 256     \* kStreamWidth, one EMIF beat of the JTAG design

CeilDiv(a, b) == (a + b - 1) \div b

Elements(g) == 0..(g.s * g.l - 1)
Bits(g) == 0..(g.w - 1)

-----------------------------------------------------------------------------
(* OFS: elements are packed into 64-bit words; whatever is left of a       *)
(* transfer when no further subvector fits is skipped.                     *)

SubVectorsPerBus(g) == HostBusBits \div (g.w * g.l)
Padding(g) == HostBusBits - g.w * g.l * SubVectorsPerBus(g)

\* Variant with a mistake: no padding when a single subvector fits in a
\* transfer, where the test for a boundary never succeeds.
SkipBitsBoundaryOnly(g) ==
    LET skip[i \in Elements(g)] ==
            (IF i = 0 THEN 0 ELSE skip[i - 1])
            + (IF /\ (i \div g.l + 1) % SubVectorsPerBus(g) = 1
                  /\ i % g.l = 0
                  /\ i \div g.l # 0
               THEN Padding(g) ELSE 0)
    IN  skip

\* skip_bits when element i is packed, accumulated over the loop.
SkipBits(g) ==
    LET AtBoundary(i) == LET subvector == i \div g.l + 1
                         IN  /\ subvector % SubVectorsPerBus(g) = 1
                             /\ i % g.l = 0
                             /\ subvector # 1
        AfterFull(i) == i % g.l = g.l - 1 /\ SubVectorsPerBus(g) = 1
        skip[i \in Elements(g)] ==
            (IF i = 0 THEN 0
             ELSE skip[i - 1] + (IF AfterFull(i - 1) THEN Padding(g) ELSE 0))
            + (IF AtBoundary(i) THEN Padding(g) ELSE 0)
    IN  skip

\* The bits of (1ULL << w) - 1.  A shift by all of the 64 bits is undefined:
\* the compiler may produce any value; no bit (x86 takes the count modulo 64)
\* and every bit are the two tried.
FieldMasks(w) == IF w < 64 THEN {0..(w - 1)} ELSE {{}, 0..63}

\* Transfers of one packet: ceil(subvectors / subvectors per transfer).
BusTransactionsPerPacket(g) == CeilDiv(g.s, SubVectorsPerBus(g))
PacketBits(g) == 0..(HostBusBits * BusTransactionsPerPacket(g) - 1)

\* Where element i starts, and the bits of the packet under its bus_mask and
\* its spillover_mask, for the value m of (1ULL << w) - 1.
FirstBit(g, i) == g.w * i + SkipBits(g)[i]
Spillover(g, f) == LET last == (f % 64) + g.w IN IF last > 64 THEN last - 64 ELSE 0
InWord(p, f) == p \div 64 = f \div 64
BusMask(m, f) == {p \in {f + b : b \in m} : InWord(p, f)}
SpilloverMask(g, f) == {64 * (f \div 64 + 1) + b : b \in 0..(Spillover(g, f) - 1)}

Uninitialised == <<-1, 0>>

\* What pack_data leaves in each bit of the packet, for elements that have no
\* bits set above w: the bits <<i, k>> or-ed into it since it was last cleared,
\* and what the memory held when it never was.
PackData(g, m) ==
    LET placed == {<<i, FirstBit(g, i)>> : i \in Elements(g)}
        Clears(e, p) == p \in BusMask(m, e[2]) \cup SpilloverMask(g, e[2])
        Sets(e, p) == /\ p - e[2] \in Bits(g)
                      /\ InWord(p, e[2]) \/ p \in SpilloverMask(g, e[2])
    IN  [p \in PacketBits(g) |->
            LET cleared == {e \in placed : Clears(e, p)}
            IN  {<<e[1], p - e[2]>> :
                    e \in {f \in placed : Sets(f, p) /\ \A c \in cleared : c[1] <= f[1]}}
                \cup (IF cleared = {} THEN {Uninitialised} ELSE {})]

\* unpack_data: the packed bit p that each bit k of element i is taken from;
\* a bit k without one is 0.
UnpackData(g, m, i) ==
    LET f == FirstBit(g, i)
    IN  {<<p - f, p>> : p \in BusMask(m, f) \cup SpilloverMask(g, f)}

\* The same three loops of the stand-alone demo; validate_packing is its
\* check of the packed input against the elements.
DemoPackData(g, m) == PackData(g, m)
ValidatePacking(g, m, i) == UnpackData(g, m, i)
DemoUnpackData(g, m, i) == UnpackData(g, m, i)

-----------------------------------------------------------------------------
(* JTAG: one beat at a time, subvectors from the least significant bit,    *)
(* then the 32 bytes of the beat are reversed.                             *)

SubvectorsPerBeat(g) ==
    IF g.w * g.l > StreamWidth THEN 0 ELSE StreamWidth \div (g.w * g.l)

BeatsPerPacket(g) ==
    IF SubvectorsPerBeat(g) = 0 THEN 0 ELSE CeilDiv(g.s, SubvectorsPerBeat(g))

SwapBeatBytes(p) == 8 * (StreamWidth \div 8 - 1 - p \div 8) + (p % 8)

WriteSubvector(g, slot, lane, k) == slot * g.w * g.l + lane * g.w + k
ReadSubvector(g, slot, lane, k) == slot * g.w * g.l + lane * g.w + k

PackTensor(g, i, k) ==
    LET sv == i \div g.l
        beat == sv \div SubvectorsPerBeat(g)
        slot == sv % SubvectorsPerBeat(g)
    IN  StreamWidth * beat + SwapBeatBytes(WriteSubvector(g, slot, i % g.l, k))

UnpackTensor(g, i, k) ==
    LET sv == i \div g.l
        beat == sv \div SubvectorsPerBeat(g)
        slot == sv % SubvectorsPerBeat(g)
    IN  StreamWidth * beat + SwapBeatBytes(ReadSubvector(g, slot, i % g.l, k))

-----------------------------------------------------------------------------
(* Bursts of a transfer, in bus transfers: the longest bursts allowed and  *)
(* one for the rest.  There is no plan for an empty transfer, for one that *)
(* is not a whole number of bus transfers, or past the request limit.      *)

Bursts(n, maxBurst) ==
    [i \in 1..CeilDiv(n, maxBurst) |->
        [off |-> (i - 1) * maxBurst,
         len |-> IF i * maxBurst <= n THEN maxBurst ELSE n % maxBurst]]

BuildBurstPlan(n, aligned, maxBurst, maxReqs) ==
    IF n = 0 \/ ~aligned THEN <<>>
    ELSE LET plan == Bursts(n, maxBurst)
         IN  IF maxReqs > 0 /\ Len(plan) > maxReqs THEN <<>> ELSE plan

\* The demo counts the requests first and then fills arrays of that size.
TotalRequestsNeeded(n, maxBurst) == CeilDiv(n, maxBurst)
BurstBreakdown(n, maxBurst) == Bursts(n, maxBurst)
AllocateAndCalculateBursts(n, maxBurst, expected) ==
    LET plan == BurstBreakdown(n, maxBurst)
    IN  IF Len(plan) = expected THEN plan ELSE <<>>
=============================================================================
