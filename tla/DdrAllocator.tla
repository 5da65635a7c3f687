---------------------------- MODULE DdrAllocator ----------------------------
(***************************************************************************)
(* DeviceMemoryAllocator: the DDR of one CoreDLA instance.  Intermediate   *)
(* data of all graphs shares one buffer at address 0 that grows upwards;   *)
(* private buffers are placed from the highest address downwards.          *)
(***************************************************************************)
EXTENDS Integers

CONSTANTS
    TotalSize,              \* totalGlobalMemSize_
    SharedSizes,            \* sizes a graph may ask of the shared buffer
    PrivateSizes,           \* sizes a graph may ask of a private buffer
    Alignments,             \* alignments a graph may ask for
    RetryAfterFailedGrowth  \* do callers go on after a shared request threw?

ASSUME DdrAssumption == /\ TotalSize \in Nat
                        /\ SharedSizes \subseteq Nat
                        /\ PrivateSizes \subseteq Nat \ {0}
                        /\ Alignments \subseteq Nat \ {0}
                        /\ RetryAfterFailedGrowth \in BOOLEAN

VARIABLES
    intermediateMax,    \* currentIntermediateMaxBufferSizeAllocated_
    startAddress,       \* currentStartAddressGraphBufferSpace_
    buffers,            \* private buffers handed out, as [addr, size]
    granted,            \* largest shared size a caller was given
    growthFailed        \* has a shared request thrown since the last Clear?

ddrVars == <<intermediateMax, startAddress, buffers, granted, growthFailed>>

\* Initialize and Clear.
Clear ==
    /\ intermediateMax' = 0
    /\ startAddress' = TotalSize
    /\ buffers' = {}
    /\ granted' = 0
    /\ growthFailed' = FALSE

InitDdr ==
    /\ intermediateMax = 0
    /\ startAddress = TotalSize
    /\ buffers = {}
    /\ granted = 0
    /\ growthFailed = FALSE

Grant(size) == IF size > granted THEN size ELSE granted

\* AllocateSharedBuffer that returns: the buffer is already large enough, or
\* grows into free space.
AllocateSharedBuffer(size) ==
    /\ \/ size <= intermediateMax /\ intermediateMax' = intermediateMax
       \/ size > intermediateMax /\ size <= startAddress /\ intermediateMax' = size
    /\ granted' = Grant(size)
    /\ UNCHANGED <<startAddress, buffers, growthFailed>>

\* AllocateSharedBuffer that throws: the new maximum is stored before it is
\* compared with the private buffers, and stays stored.
SharedBufferThrows(size) ==
    /\ size > intermediateMax /\ size > startAddress
    /\ intermediateMax' = size
    /\ growthFailed' = TRUE
    /\ UNCHANGED <<startAddress, buffers, granted>>

\* Variant with a mistake: the shared buffer is left out.
PrivateFitsNoShared(size, alignment) ==
    size + alignment <= startAddress

\* The check that AllocatePrivateBuffer makes before it allocates.
PrivateFits(size, alignment) ==
    intermediateMax + size + alignment <= startAddress

\* The address that AllocatePrivateBuffer chooses.
PrivateAddress(size, alignment) ==
    (startAddress - size) - ((startAddress - size) % alignment)

AllocatePrivateBuffer(size, alignment) ==
    /\ PrivateFits(size, alignment)
    /\ startAddress' = PrivateAddress(size, alignment)
    /\ buffers' = buffers \cup {[addr |-> startAddress', size |-> size]}
    /\ UNCHANGED <<intermediateMax, granted, growthFailed>>

CallersGoOn == RetryAfterFailedGrowth \/ ~growthFailed

NextDdr ==
    \/ \E size \in SharedSizes :
          CallersGoOn /\ (AllocateSharedBuffer(size) \/ SharedBufferThrows(size))
    \/ \E size \in PrivateSizes, alignment \in Alignments :
          CallersGoOn /\ AllocatePrivateBuffer(size, alignment)
    \/ Clear

SpecDdr == InitDdr /\ [][NextDdr]_ddrVars

-----------------------------------------------------------------------------
\* Every variable has its type; the next private address stays in memory.
DdrTypeOK ==
    /\ intermediateMax \in Nat
    /\ startAddress \in 0 .. TotalSize
    /\ buffers \subseteq [addr : 0 .. TotalSize, size : Nat \ {0}]
    /\ granted \in Nat
    /\ growthFailed \in BOOLEAN

Overlaps(b, c) == b.addr < c.addr + c.size /\ c.addr < b.addr + b.size

\* No two private buffers share a byte and each lies inside the memory, in
\* whatever order the sizes and alignments were asked for.
PrivateBuffersDisjoint ==
    /\ \A b \in buffers : b.addr + b.size <= TotalSize
    /\ \A b, c \in buffers : b # c => ~Overlaps(b, c)

\* The intermediate buffer that graphs were given never reaches into a
\* private buffer ("error intermediate buffer grows into the region of memory
\* used for private buffers").
SharedBelowPrivate == \A b \in buffers : granted <= b.addr

\* The allocator keeps the promise of MemoryRegions.
Regions == INSTANCE MemoryRegions WITH shared <- granted, regions <- buffers
ImplementsRegions == Regions!Spec
=============================================================================
