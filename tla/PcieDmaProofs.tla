--------------------------- MODULE PcieDmaProofs ----------------------------
(***************************************************************************)
(* The DE10 DMA engine on Windows, for every block, page size and length   *)
(* of the descriptor table: each byte is transferred once and to its       *)
(* place, the engine touches pinned memory only, and no memory stays       *)
(* pinned.  And the rings of the host channels, for every size of ring.    *)
(***************************************************************************)
EXTENDS PcieDma, SequenceTheorems, TLAPS

-----------------------------------------------------------------------------
(* Pages of a segment of pinned memory.                                    *)

Memories == [at : Nat, size : Nat, used : Nat]
SegmentEnd(m) == m.at + m.size

PageOf(x) == x \div PageSize
Pages(m) == PageOf(m.at + m.size - 1) - PageOf(m.at) + 1

\* The address after the first u pages of m.
Boundary(m, u) ==
    IF u = 0 THEN m.at ELSE Lesser(m.at + m.size, (PageOf(m.at) + u) * PageSize)

\* The descriptor of page u, when the block begins at origin.
Descriptor(m, u, origin) ==
    [at |-> Boundary(m, u), size |-> Boundary(m, u + 1) - Boundary(m, u),
     dev |-> Boundary(m, u) - origin]

-----------------------------------------------------------------------------
(* Arithmetic of pages.                                                    *)

LEMMA Quotient ==
    ASSUME NEW x \in Nat, NEW p \in Nat \ {0}
    PROVE  /\ x \div p \in Nat /\ (x \div p) * p <= x /\ x < (x \div p + 1) * p
           /\ x % p \in Nat /\ x % p < p /\ x = (x \div p) * p + (x % p)
  OBVIOUS

LEMMA ProductOrder ==
    ASSUME NEW a \in Nat, NEW b \in Nat, NEW p \in Nat \ {0}
    PROVE  /\ a * p \in Nat /\ (a + b) * p = a * p + b * p
           /\ a < b => a * p + p <= b * p
           /\ a <= b => a * p <= b * p
<1>1. (b - a) * p = b * p - a * p /\ (b - a - 1) * p = (b - a) * p - p
  OBVIOUS
<1>2. \A n \in Nat : n * p \in Nat
  OBVIOUS
<1> QED
  BY <1>1, <1>2

\* A number is between two multiples of p in one way.
LEMMA QuotientIs ==
    ASSUME NEW x \in Nat, NEW p \in Nat \ {0}, NEW q \in Nat, q * p <= x, x < q * p + p
    PROVE  x \div p = q /\ x % p = x - q * p
<1> DEFINE r == x \div p
<1>1. r \in Nat /\ r * p <= x /\ x < r * p + p
  BY Quotient
<1>2. ~(r < q) /\ ~(q < r)
  BY <1>1, ProductOrder
<1>3. r = q
  BY <1>1, <1>2
<1> QED
  BY <1>3, Quotient

-----------------------------------------------------------------------------
(* The pages of a segment.                                                 *)

LEMMA MaxOfTwo ==
    ASSUME NEW a \in Int, NEW b \in Int
    PROVE  Max({a, b}) = IF a <= b THEN b ELSE a
<1>1. \E x \in {a, b} : \A y \in {a, b} : x >= y
  OBVIOUS
<1>2. Max({a, b}) \in {a, b} /\ \A y \in {a, b} : Max({a, b}) >= y
  BY <1>1 DEF Max
<1> QED
  BY <1>2

LEMMA PageOfNat ==
    ASSUME NEW x \in Nat
    PROVE  PageOf(x) \in Nat /\ PageOf(x) * PageSize \in Nat
           /\ PageOf(x) * PageSize <= x /\ x < PageOf(x) * PageSize + PageSize
<1>1. PageSize \in Nat \ {0}
  BY PcieDmaAssumption
<1>2. PageOf(x) \in Nat
  BY <1>1, Quotient DEF PageOf
<1>3. (PageOf(x) + 1) * PageSize = PageOf(x) * PageSize + PageSize
  BY <1>1, <1>2, ProductOrder
<1> QED
  BY <1>1, <1>2, <1>3, Quotient, ProductOrder DEF PageOf

\* The pages after the first begin at multiples of the page size inside the
\* segment, and there is none after the last.
LEMMA PageStarts ==
    ASSUME NEW m \in Memories, m.size > 0, NEW u \in Nat
    PROVE  /\ Pages(m) \in Nat \ {0} /\ PageOf(m.at) \in Nat
           /\ (PageOf(m.at) + u) * PageSize \in Nat
           /\ (PageOf(m.at) + u + 1) * PageSize = (PageOf(m.at) + u) * PageSize + PageSize
           /\ IF u > 0 THEN m.at < (PageOf(m.at) + u) * PageSize
                       ELSE (PageOf(m.at) + u) * PageSize <= m.at
           /\ m.at < (PageOf(m.at) + u) * PageSize + PageSize
           /\ u < Pages(m) => (PageOf(m.at) + u) * PageSize < SegmentEnd(m)
           /\ u >= Pages(m) => SegmentEnd(m) <= (PageOf(m.at) + u) * PageSize
<1> DEFINE q == PageOf(m.at)
           r == PageOf(m.at + m.size - 1)
<1>1. PageSize \in Nat \ {0} /\ m.at \in Nat /\ m.size \in Nat /\ m.at + m.size - 1 \in Nat
  BY PcieDmaAssumption DEF Memories
<1>2. /\ q \in Nat /\ q * PageSize \in Nat
      /\ q * PageSize <= m.at /\ m.at < q * PageSize + PageSize
  BY <1>1, PageOfNat
<1>3. /\ r \in Nat /\ r * PageSize \in Nat
      /\ r * PageSize <= m.at + m.size - 1 /\ m.at + m.size - 1 < r * PageSize + PageSize
  BY <1>1, PageOfNat
<1>4. q <= r
  <2>1. r < q => r * PageSize + PageSize <= q * PageSize
    BY <1>1, <1>2, <1>3, ProductOrder
  <2> QED
    BY <1>1, <1>2, <1>3, <2>1
<1>5. Pages(m) = r - q + 1
  BY DEF Pages
<1>6. q + u \in Nat /\ (q + u) * PageSize \in Nat
  BY <1>1, <1>2, ProductOrder
<1>7. (q + u + 1) * PageSize = (q + u) * PageSize + PageSize
  BY <1>1, <1>6, ProductOrder
<1>8. u > 0 => q * PageSize + PageSize <= (q + u) * PageSize
  BY <1>1, <1>2, <1>6, ProductOrder
<1>9. u < Pages(m) => (q + u) * PageSize <= r * PageSize
  <2>1. u < Pages(m) => q + u <= r
    BY <1>2, <1>3, <1>5
  <2> QED
    BY <1>1, <1>3, <1>6, <2>1, ProductOrder
<1>10. u >= Pages(m) => r * PageSize + PageSize <= (q + u) * PageSize
  <2>1. u >= Pages(m) => r < q + u
    BY <1>2, <1>3, <1>5
  <2> QED
    BY <1>1, <1>3, <1>6, <2>1, ProductOrder
<1> QED
  BY <1>1, <1>2, <1>3, <1>4, <1>5, <1>6, <1>7, <1>8, <1>9, <1>10 DEF SegmentEnd

LEMMA BoundaryFacts ==
    ASSUME NEW m \in Memories, m.size > 0
    PROVE  /\ Pages(m) \in Nat \ {0}
           /\ Boundary(m, 0) = m.at /\ Boundary(m, Pages(m)) = SegmentEnd(m)
           /\ \A u \in Nat : Boundary(m, u) \in Nat /\ m.at <= Boundary(m, u)
                             /\ Boundary(m, u) <= SegmentEnd(m)
           /\ \A u \in Nat : u < Pages(m) => Boundary(m, u) < Boundary(m, u + 1)
<1>1. m.at \in Nat /\ m.size \in Nat /\ SegmentEnd(m) = m.at + m.size
  BY DEF Memories, SegmentEnd
<1>2. Pages(m) \in Nat \ {0}
  BY PageStarts
<1>3. Boundary(m, 0) = m.at
  BY DEF Boundary
<1>4. Boundary(m, Pages(m)) = SegmentEnd(m)
  <2>1. /\ (PageOf(m.at) + Pages(m)) * PageSize \in Nat
        /\ SegmentEnd(m) <= (PageOf(m.at) + Pages(m)) * PageSize
    BY <1>2, PageStarts
  <2> QED
    BY <1>1, <1>2, <2>1 DEF Boundary, Lesser
<1>5. ASSUME NEW u \in Nat
      PROVE  Boundary(m, u) \in Nat /\ m.at <= Boundary(m, u)
             /\ Boundary(m, u) <= SegmentEnd(m)
  BY <1>1, PageStarts DEF Boundary, Lesser
<1>6. ASSUME NEW u \in Nat, u < Pages(m) PROVE Boundary(m, u) < Boundary(m, u + 1)
  <2> DEFINE x == (PageOf(m.at) + u) * PageSize
  <2>1. /\ x \in Nat /\ (PageOf(m.at) + u + 1) * PageSize = x + PageSize
        /\ x < SegmentEnd(m) /\ PageSize \in Nat \ {0}
    BY <1>6, PageStarts, PcieDmaAssumption
  <2>2. m.at < x + PageSize /\ PageOf(m.at) \in Nat
    BY PageStarts
  <2>3. PageOf(m.at) + (u + 1) = PageOf(m.at) + u + 1
    BY <2>2
  <2>4. Boundary(m, u + 1) = Lesser(SegmentEnd(m), x + PageSize)
    BY <1>1, <2>1, <2>3 DEF Boundary
  <2>5. Boundary(m, u) = m.at \/ Boundary(m, u) = x
    BY <1>1, <2>1 DEF Boundary, Lesser
  <2> QED
    BY <1>1, <2>1, <2>2, <2>4, <2>5 DEF Lesser
<1> QED
  BY <1>2, <1>3, <1>4, <1>5, <1>6

\* NextPage is what lies between two boundaries.
LEMMA PageBetween ==
    ASSUME NEW m \in Memories, m.size > 0, m.used < Pages(m)
    PROVE  NextPage(m) = [at |-> Boundary(m, m.used),
                          size |-> Boundary(m, m.used + 1) - Boundary(m, m.used)]
<1> DEFINE u == m.used
           x == (PageOf(m.at) + u) * PageSize
           lo == Max({m.at, x})
<1>1. /\ m.at \in Nat /\ m.size \in Nat /\ u \in Nat /\ SegmentEnd(m) = m.at + m.size
      /\ PageSize \in Nat \ {0}
  BY PcieDmaAssumption DEF Memories, SegmentEnd
<1>2. /\ x \in Nat /\ (PageOf(m.at) + u + 1) * PageSize = x + PageSize
      /\ x < m.at + m.size /\ PageOf(m.at) \in Nat
      /\ (IF u > 0 THEN m.at < x ELSE x <= m.at) /\ m.at < x + PageSize
  BY <1>1, PageStarts
<1>3. lo = IF m.at <= x THEN x ELSE m.at
  BY <1>1, <1>2, MaxOfTwo
<1>4. lo = Boundary(m, u)
  BY <1>1, <1>2, <1>3 DEF Boundary, Lesser
<1>5. lo \in Nat /\ x <= lo /\ lo < x + PageSize
  <2> HIDE DEF x
  <2> QED
    BY <1>1, <1>2, <1>3
<1>6. PageOf(lo) = PageOf(m.at) + u
  <2>1. PageOf(m.at) + u \in Nat
    BY <1>1, <1>2
  <2> QED
    BY <1>1, <1>5, <2>1, QuotientIs DEF PageOf
<1>7. Boundary(m, u + 1) = Lesser(m.at + m.size, x + PageSize)
  <2>1. PageOf(m.at) + (u + 1) = PageOf(m.at) + u + 1
    BY <1>1, <1>2
  <2> QED
    BY <1>1, <1>2, <2>1 DEF Boundary
<1>8. NextPage(m) = [at |-> lo, size |-> Lesser(m.at + m.size, (PageOf(lo) + 1) * PageSize) - lo]
  BY DEF NextPage, PageOf
<1> HIDE DEF lo, x, u
<1>9. (PageOf(lo) + 1) * PageSize = x + PageSize
  BY <1>2, <1>6 DEF x, u
<1> QED
  BY <1>4, <1>7, <1>8, <1>9 DEF u

LEMMA PagesRemaining ==
    ASSUME NEW m \in Memories
    PROVE  PagesRem(m) = IF m.size = 0 THEN 0 ELSE Pages(m) - m.used
<1> DEFINE a == PageOf(m.at + m.size - 1)
           b == PageOf(m.at)
<1>1. m.at \in Nat /\ m.size \in Nat /\ m.used \in Nat
  BY DEF Memories
<1>2. m.size # 0 => a \in Nat /\ b \in Nat
  <2>1. m.size # 0 => m.at + m.size - 1 \in Nat
    BY <1>1
  <2> QED
    BY <1>1, <2>1, PageOfNat
<1>3. PagesRem(m) = IF m.size = 0 THEN 0 ELSE a - b + 1 - m.used
  BY DEF PagesRem, PageOf
<1>4. Pages(m) = a - b + 1
  BY DEF Pages
<1> HIDE DEF a, b
<1> QED
  BY <1>1, <1>2, <1>3, <1>4

\* pin_memory locks the rest of the block, or what fills the table.
LEMMA LockedFits ==
    ASSUME NEW at \in Nat, NEW left \in Nat \ {0}, NEW u \in Nat,
           NEW size, size = LockSize(at, left, 0)
    PROVE  /\ size \in Nat \ {0} /\ size <= left
           /\ size # left => Pages([at |-> at, size |-> size, used |-> u]) = TableSize
<1> DEFINE cap == TableSize * PageSize
           q == PageOf(at)
           o == at - q * PageSize
<1>1. PageSize \in Nat \ {0} /\ TableSize \in Nat \ {0}
  BY PcieDmaAssumption
<1>2. cap \in Nat /\ PageSize <= cap
  BY <1>1, ProductOrder
<1>3. q \in Nat /\ q * PageSize \in Nat /\ o \in Nat /\ o < PageSize
  <2>1. /\ q \in Nat /\ q * PageSize \in Nat
        /\ q * PageSize <= at /\ at < q * PageSize + PageSize
    BY PageOfNat
  <2> QED
    BY <1>1, <2>1
<1>4. (at + cap) % PageSize = o
  <2>1. (q + TableSize) * PageSize = q * PageSize + cap
    BY <1>1, <1>3, ProductOrder
  <2>2. at + cap \in Nat /\ q + TableSize \in Nat
    BY <1>1, <1>2, <1>3
  <2>3. (q + TableSize) * PageSize <= at + cap
        /\ at + cap < (q + TableSize) * PageSize + PageSize
    BY <1>1, <1>2, <1>3, <2>1
  <2>4. (at + cap) % PageSize = (at + cap) - (q + TableSize) * PageSize
    <3> DEFINE x == at + cap
               k == q + TableSize
    <3>1. x \in Nat /\ k \in Nat /\ k * PageSize <= x /\ x < k * PageSize + PageSize
      BY <2>2, <2>3
    <3> HIDE DEF x, k
    <3>2. x % PageSize = x - k * PageSize
      BY <1>1, <3>1, QuotientIs
    <3> QED
      BY <3>2 DEF x, k
  <2> QED
    BY <1>2, <1>3, <2>1, <2>4
<1>5. MaxPinned - 0 * PageSize = cap
  BY <1>1, <1>2 DEF MaxPinned
<1>6. size = IF Lesser(left, cap) = cap THEN cap - o ELSE left
  BY <1>4, <1>5 DEF LockSize, Lesser
<1>7. size \in Nat \ {0} /\ size <= left
  BY <1>1, <1>2, <1>3, <1>6 DEF Lesser
<1>8. ASSUME size # left PROVE Pages([at |-> at, size |-> size, used |-> u]) = TableSize
  <2>1. size = cap - o
    BY <1>6, <1>8
  <2>2. at + size - 1 = (q + TableSize) * PageSize - 1
    BY <1>1, <1>2, <1>3, <2>1, ProductOrder
  <2>3. /\ q + TableSize - 1 \in Nat
        /\ (q + TableSize) * PageSize = (q + TableSize - 1) * PageSize + PageSize
    <3>1. q + TableSize - 1 \in Nat
      BY <1>1, <1>3
    <3>2. (q + TableSize - 1 + 1) * PageSize = (q + TableSize - 1) * PageSize + 1 * PageSize
      BY <1>1, <3>1, ProductOrder
    <3> QED
      BY <1>1, <1>3, <3>1, <3>2
  <2>4. (q + TableSize - 1) * PageSize \in Nat
    BY <1>1, <2>3, ProductOrder
  <2>5. PageOf(at + size - 1) = q + TableSize - 1
    <3>1. at + size - 1 \in Nat
      BY <1>7
    <3> HIDE DEF q
    <3>2. (q + TableSize - 1) * PageSize <= at + size - 1
          /\ at + size - 1 < (q + TableSize - 1) * PageSize + PageSize
      BY <1>1, <2>2, <2>3, <2>4
    <3> QED
      BY <1>1, <2>3, <3>1, <3>2, QuotientIs DEF PageOf
  <2> QED
    BY <1>1, <1>3, <2>5 DEF Pages
<1> QED
  BY <1>7, <1>8

-----------------------------------------------------------------------------
(* The inductive invariant of a transfer.                                  *)

WorkerSteps == {"none", "poll", "decide", "finish", "after", "pin", "send", "help", "spin"}
Blocks == [at : Nat, size : Nat]

DmaTypes ==
    /\ blocks \in Seq(Blocks) /\ block \in Blocks
    /\ caller \in {"out", "submit", "stall"}
    /\ worker \in WorkerSteps
    /\ sent \in Nat /\ rem \in Nat /\ lastId \in Nat
    /\ lastPinned \in Blocks
    /\ active \in Memories /\ pre \in Memories /\ done \in Memories
    /\ idle \in BOOLEAN /\ prepinned \in BOOLEAN /\ flag \in BOOLEAN
    /\ pinWork \in BOOLEAN /\ unpinWork \in BOOLEAN
    /\ unpinQueue \in Seq(Blocks) /\ fetch \in Seq(Nat)
    /\ DOMAIN table = 0 .. TableSize - 1

\* The first n bytes of a block, each in its place.
Bytes(origin, n) == {<<origin + i, i>> : i \in 0 .. n - 1}
\* Those and the k bytes after them.
BytesThen(origin, n, k) == Bytes(origin, n) \cup {<<(origin + n) + i, n + i>> : i \in 0 .. k - 1}

\* Who is where: a transfer has a caller, and the worker is at one of its
\* steps only while there is a transfer.
Phases ==
    /\ ~idle => caller # "out"
    /\ idle => worker \notin {"finish", "pin", "send", "help", "spin"}

\* Between transfers nothing is held.
AtRest ==
    idle => /\ active = NoMem
            /\ caller # "out" => moved = Bytes(block.at, block.size)

\* A segment of the block: unless it is the last one it fills the table.
SegmentOf(b, m) ==
    /\ m.size > 0 /\ b.at <= m.at /\ SegmentEnd(m) <= SegmentEnd(b)
    /\ m.used <= Pages(m)
    /\ SegmentEnd(m) # SegmentEnd(b) => Pages(m) = TableSize /\ m.used \in {0, TableSize}

\* Before the first segment is pinned.
Unpinned ==
    active = NoMem =>
        /\ pre = NoMem /\ done = NoMem /\ ~pinWork /\ ~unpinWork /\ fetch = <<>>
        /\ ~idle => /\ sent = 0 /\ lastId = 0 /\ ~prepinned /\ moved = {}
                    /\ worker \notin {"send", "help", "spin"}

\* The segment being sent: what was sent ends at a page boundary of it, and
\* the bytes moved are those of the descriptors that the engine executed.
Sending ==
    active # NoMem =>
        /\ SegmentOf(block, active)
        /\ block.at + sent = Boundary(active, active.used)
        /\ Len(fetch) <= active.used
        /\ moved = Bytes(block.at, Boundary(active, active.used - Len(fetch)) - block.at)

\* The descriptors of one round begin at the first entry of the table.
Descriptors ==
    /\ worker \notin {"help", "spin"} =>
          /\ fetch = <<>>
          /\ ~idle => CheckLastId(lastId) = 0 \/ sent = block.size
    /\ worker \in {"help", "spin"} =>
          /\ Len(fetch) <= lastId /\ lastId <= active.used /\ lastId <= TableSize
          /\ lastId = TableSize \/ sent = block.size
          /\ \A k \in 1 .. Len(fetch) : fetch[k] = lastId - Len(fetch) + k - 1
          /\ \A id \in 0 .. lastId - 1 :
                table[id] = Descriptor(active, active.used - lastId + id, block.at)
    /\ worker = "pin" => PagesRem(active) = 0
    /\ worker \in {"pin", "send"} => ~flag /\ sent # block.size
    /\ worker \in {"help", "spin"} /\ flag => fetch = <<>>
    /\ worker = "finish" => sent = block.size
    /\ worker = "send" => active.used < Pages(active)

\* The segment ahead: not asked for, being pinned, or pinned.
Ahead ==
    active # NoMem =>
        /\ lastPinned.at + rem = SegmentEnd(block)
        /\ ~prepinned \/ pinWork => lastPinned = Segment(active) /\ pre = NoMem
        /\ pinWork => prepinned /\ rem > lastPinned.size
        /\ prepinned /\ ~pinWork =>
              /\ lastPinned = Segment(pre) /\ pre.used = 0
              /\ SegmentOf(block, pre) /\ pre.at = SegmentEnd(active)

\* The segments behind: the one finished last, and the one being unpinned.
Behind ==
    /\ worker \notin {"pin", "send", "help"} => done = NoMem
    /\ worker = "pin" => done = active
    /\ worker # "pin" /\ done # NoMem =>
          active # NoMem /\ done.size > 0 /\ SegmentEnd(done) = active.at
    /\ ~unpinWork => unpinQueue = <<>>
    /\ unpinWork =>
          /\ Len(unpinQueue) = 1 /\ active # NoMem
          /\ unpinQueue[1].size > 0
          /\ SegmentEnd(unpinQueue[1]) <= active.at
          /\ done # NoMem => SegmentEnd(unpinQueue[1]) <= done.at

\* What is pinned: those segments and nothing else.
Held ==
    pinned = {Segment(m) : m \in {active, pre, done} \ {NoMem}}
             \cup {unpinQueue[i] : i \in DOMAIN unpinQueue}

TransferInv == /\ DmaTypes /\ Phases /\ AtRest /\ Unpinned /\ Sending /\ Descriptors
               /\ Ahead /\ Behind /\ Held

-----------------------------------------------------------------------------
(* Each step keeps it.                                                     *)

LEMMA TransferInit == DmaInit => TransferInv
<1> SUFFICES ASSUME DmaInit PROVE TransferInv
  OBVIOUS
<1>1. blocks \in Seq(Blocks)
  BY PcieDmaAssumption DEF DmaInit, Blocks
<1>2. TableSize \in Nat \ {0}
  BY PcieDmaAssumption
<1>3. DmaTypes
  <2>1. NoMem \in Memories /\ NoBlock \in Blocks
    BY DEF NoMem, NoBlock, Memories, Blocks
  <2>2. DOMAIN table = 0 .. TableSize - 1 /\ fetch \in Seq(Nat) /\ unpinQueue \in Seq(Blocks)
    BY DEF DmaInit
  <2> QED
    BY <1>1, <2>1, <2>2 DEF DmaInit, DmaTypes, WorkerSteps
<1>4. Phases /\ AtRest /\ Unpinned /\ Sending /\ Ahead
  BY DEF DmaInit, Phases, AtRest, Unpinned, Sending, Ahead
<1>5. Descriptors /\ Behind
  BY DEF DmaInit, Descriptors, Behind
<1>6. Held
  BY DEF DmaInit, Held
<1> QED
  BY <1>3, <1>4, <1>5, <1>6 DEF TransferInv

\* Where the worker has nothing to do with the transfer.
Elsewhere == {"none", "poll", "decide", "after"}

LEMMA TransferCalm ==
    ASSUME TransferInv, UNCHANGED <<blocks, block, idle, dmaVars>>,
           worker' = worker \/ {worker, worker'} \subseteq Elsewhere,
           caller' \in {"out", "submit", "stall"},
           (caller' = "out" /\ idle) \/ (caller' # "out" /\ caller # "out") \/ caller' = caller
    PROVE  TransferInv'
<1>1. DmaTypes'
  BY DEF TransferInv, DmaTypes, dmaVars, Elsewhere, WorkerSteps
<1>2. Phases' /\ AtRest' /\ Unpinned'
  BY DEF TransferInv, Phases, AtRest, Unpinned, dmaVars, Elsewhere
<1>3. Sending' /\ Ahead'
  BY DEF TransferInv, Sending, Ahead, dmaVars, Elsewhere
<1>4. Descriptors'
  BY DEF TransferInv, Descriptors, dmaVars, Elsewhere
<1>5. Behind' /\ Held'
  BY DEF TransferInv, Behind, Held, dmaVars, Elsewhere
<1> QED
  BY <1>1, <1>2, <1>3, <1>4, <1>5 DEF TransferInv

LEMMA TransferReadWrite == TransferInv /\ ReadWrite => TransferInv'
<1> SUFFICES ASSUME TransferInv, ReadWrite PROVE TransferInv'
  OBVIOUS
<1>1. idle /\ active = NoMem /\ worker \in Elsewhere
  BY DEF TransferInv, ReadWrite, Phases, AtRest, DmaTypes, WorkerSteps, Elsewhere
<1>2. fetch = <<>> /\ pre = NoMem /\ done = NoMem /\ ~pinWork /\ ~unpinWork
  BY <1>1 DEF TransferInv, Unpinned
<1>3. DmaTypes'
  <2>1. blocks' \in Seq(Blocks) /\ block' \in Blocks
    BY HeadTailProperties DEF TransferInv, DmaTypes, ReadWrite
  <2> QED
    BY <2>1 DEF TransferInv, DmaTypes, ReadWrite, chVars, userVars
<1>4. Phases' /\ AtRest' /\ Unpinned' /\ Sending' /\ Ahead'
  BY <1>1, <1>2 DEF ReadWrite, Phases, AtRest, Unpinned, Sending, Ahead, Elsewhere
<1>5. Descriptors'
  BY <1>1, <1>2 DEF ReadWrite, Descriptors, Elsewhere, CheckLastId
<1>6. Behind' /\ Held'
  BY <1>1, <1>2 DEF TransferInv, ReadWrite, Behind, Held, Elsewhere
<1> QED
  BY <1>3, <1>4, <1>5, <1>6 DEF TransferInv

LEMMA BytesGrow ==
    ASSUME NEW a \in Nat, NEW n \in Nat, NEW k \in Nat
    PROVE  BytesThen(a, n, k) = Bytes(a, n + k)
<1> DEFINE new == {<<(a + n) + i, n + i>> : i \in 0 .. k - 1}
<1>1. ASSUME NEW x \in Bytes(a, n) PROVE x \in Bytes(a, n + k)
  BY <1>1 DEF Bytes
<1>2. ASSUME NEW x \in new PROVE x \in Bytes(a, n + k)
  <2>1. PICK i \in 0 .. k - 1 : x = <<(a + n) + i, n + i>>
    BY <1>2
  <2>2. n + i \in 0 .. (n + k) - 1 /\ a + (n + i) = (a + n) + i
    BY <2>1
  <2> QED
    BY <2>1, <2>2 DEF Bytes
<1>3. ASSUME NEW x \in Bytes(a, n + k) PROVE x \in Bytes(a, n) \cup new
  <2>1. PICK j \in 0 .. (n + k) - 1 : x = <<a + j, j>>
    BY <1>3 DEF Bytes
  <2>2. CASE j < n
    BY <2>1, <2>2 DEF Bytes
  <2>3. CASE n <= j
    <3>1. j - n \in 0 .. k - 1 /\ n + (j - n) = j /\ (a + n) + (j - n) = a + j
      BY <2>1, <2>3
    <3>2. x = <<(a + n) + (j - n), n + (j - n)>>
      BY <2>1, <3>1
    <3> QED
      BY <3>1, <3>2
  <2> QED
    BY <2>1, <2>2, <2>3
<1> QED
  BY <1>1, <1>2, <1>3 DEF BytesThen

\* The engine executes the next descriptor: its bytes follow those moved.
LEMMA TransferEngineMove == TransferInv /\ EngineMove => TransferInv'
<1> SUFFICES ASSUME TransferInv, EngineMove PROVE TransferInv'
  OBVIOUS
<1> DEFINE m == active
           n == Len(fetch)
           d == table[Head(fetch)]
           origin == block.at
<1>1. /\ fetch # <<>> /\ fetch' = Tail(fetch) /\ flag' = (fetch' = <<>>)
      /\ moved' = moved \cup {<<d.at + i, d.dev + i>> : i \in 0 .. d.size - 1}
      /\ UNCHANGED <<blocks, block, caller, idle, sent, rem, lastPinned, prepinned, lastId,
                     active, pre, done, unpinQueue, table, pinned, pinWork, unpinWork, worker>>
  BY DEF EngineMove, callVars
<1>2. fetch \in Seq(Nat) /\ m \in Memories /\ block \in Blocks /\ lastId \in Nat
  BY DEF TransferInv, DmaTypes
<1>3. worker \in {"help", "spin"} /\ active # NoMem /\ ~idle
  BY <1>1 DEF TransferInv, Descriptors, Unpinned, Phases
<1>4. /\ n \in Nat \ {0} /\ Head(fetch) = fetch[1]
      /\ fetch' \in Seq(Nat) /\ Len(fetch') = n - 1
      /\ \A k \in 1 .. n - 1 : fetch'[k] = fetch[k + 1]
  BY <1>1, <1>2, HeadTailProperties, EmptySeq
<1>5. /\ n <= lastId /\ lastId <= m.used
      /\ \A k \in 1 .. n : fetch[k] = lastId - n + k - 1
      /\ \A id \in 0 .. lastId - 1 : table[id] = Descriptor(m, m.used - lastId + id, origin)
  BY <1>3 DEF TransferInv, Descriptors
<1>6. /\ m.used \in Nat /\ m.size > 0 /\ m.used <= Pages(m) /\ origin <= m.at
      /\ m.at \in Nat /\ origin \in Nat
      /\ moved = Bytes(origin, Boundary(m, m.used - n) - origin)
  BY <1>2, <1>3 DEF TransferInv, Sending, SegmentOf, Memories, Blocks
<1>7. d = Descriptor(m, m.used - n, origin)
  <2>1. fetch[1] = lastId - n /\ lastId - n \in 0 .. lastId - 1
    BY <1>2, <1>4, <1>5
  <2>2. m.used - lastId + (lastId - n) = m.used - n
    BY <1>2, <1>4, <1>6
  <2>3. table[lastId - n] = Descriptor(m, m.used - lastId + (lastId - n), origin)
    BY <1>5, <2>1
  <2> QED
    BY <1>4, <2>1, <2>2, <2>3
<1> DEFINE from == Boundary(m, m.used - n)
           to == Boundary(m, m.used - n + 1)
<1>8. /\ from \in Nat /\ to \in Nat /\ from < to /\ origin <= from
      /\ m.used - n + 1 = m.used - (n - 1)
  <2> DEFINE u == m.used - n
  <2> HIDE DEF m, n, d, origin
  <2>1. Pages(m) \in Nat /\ m.used \in Nat /\ n \in Nat \ {0} /\ lastId \in Nat
    BY <1>2, <1>4, <1>6, BoundaryFacts
  <2>2. u \in Nat /\ u < Pages(m) /\ m.used - n + 1 = m.used - (n - 1) /\ u + 1 \in Nat
    BY <1>5, <1>6, <2>1
  <2> HIDE DEF u
  <2>3. /\ Boundary(m, u) \in Nat /\ Boundary(m, u + 1) \in Nat
        /\ Boundary(m, u) < Boundary(m, u + 1) /\ m.at <= Boundary(m, u)
    BY <1>2, <1>6, <2>2, BoundaryFacts
  <2> QED
    BY <1>6, <2>2, <2>3 DEF u
<1>9. moved' = Bytes(origin, Boundary(m, m.used - (n - 1)) - origin)
  <2>1. d.at = from /\ d.size = to - from /\ d.dev = from - origin
    BY <1>7 DEF Descriptor
  <2> DEFINE a == from - origin
             k == to - from
  <2>2. a \in Nat /\ k \in Nat /\ origin + a = from /\ a + k = to - origin
    BY <1>6, <1>8
  <2>3. moved' = BytesThen(origin, a, k)
    BY <1>1, <1>6, <2>1, <2>2 DEF BytesThen
  <2> HIDE DEF a, k, from, to, d, m, n, origin
  <2>4. BytesThen(origin, a, k) = Bytes(origin, a + k)
    BY <1>6, <2>2, BytesGrow
  <2>5. moved' = Bytes(origin, a + k)
    BY <2>3, <2>4
  <2> QED
    BY <1>8, <2>2, <2>5 DEF to
<1> HIDE DEF m, n, d, origin, from, to
<1>10. DmaTypes'
  BY <1>1, <1>4 DEF TransferInv, DmaTypes
<1>11. Phases' /\ AtRest' /\ Unpinned'
  BY <1>1, <1>3 DEF TransferInv, Phases, AtRest, Unpinned, m
<1>12. Sending'
  <2>1. Len(fetch') <= active'.used
    BY <1>1, <1>2, <1>4, <1>5, <1>6 DEF m
  <2>2. moved' = Bytes(block'.at, Boundary(active', active'.used - Len(fetch')) - block'.at)
    BY <1>1, <1>4, <1>9 DEF m, origin
  <2> QED
    BY <1>1, <2>1, <2>2 DEF TransferInv, Sending
<1>13. Descriptors'
  <2>1. Len(fetch') <= lastId' /\ lastId' <= active'.used
    BY <1>1, <1>2, <1>4, <1>5, <1>6 DEF m
  <2>2. ASSUME NEW k \in 1 .. Len(fetch')
        PROVE  fetch'[k] = lastId' - Len(fetch') + k - 1
    <3>1. Len(fetch') = n - 1 /\ lastId' = lastId /\ n \in Nat /\ lastId \in Nat
      BY <1>1, <1>2, <1>4
    <3>2. k \in Nat /\ k \in 1 .. n - 1 /\ k + 1 \in 1 .. n
      BY <3>1
    <3>3. fetch'[k] = lastId - n + (k + 1) - 1
      BY <1>4, <1>5, <3>2
    <3> QED
      BY <3>1, <3>2, <3>3
  <2> QED
    BY <1>1, <1>3, <2>1, <2>2 DEF TransferInv, Descriptors
<1>14. Ahead' /\ Behind' /\ Held'
  BY <1>1 DEF TransferInv, Ahead, Behind, Held
<1> QED
  BY <1>10, <1>11, <1>12, <1>13, <1>14 DEF TransferInv

\* The pin worker pins the segment that follows the active one.
LEMMA TransferPrepin == TransferInv /\ Prepin => TransferInv'
<1> SUFFICES ASSUME TransferInv, Prepin PROVE TransferInv'
  OBVIOUS
<1> DEFINE at == lastPinned.at + lastPinned.size
           left == rem - lastPinned.size
           size == LockSize(at, left, 0)
           new == [at |-> at, size |-> size, used |-> 0]
<1>1. /\ pinWork /\ ~pinWork'
      /\ UNCHANGED <<blocks, block, caller, idle, sent, prepinned, lastId, active, done,
                     unpinQueue, table, fetch, flag, moved, unpinWork, worker>>
  BY DEF Prepin, callVars
<1>2. /\ rem' = left /\ lastPinned' = [at |-> at, size |-> size]
      /\ pinned' = pinned \cup {[at |-> at, size |-> size]}
  BY PcieDmaAssumption DEF Prepin, PinMemory, CheckLastId
<1>3. pre' = new
  BY <1>2 DEF Prepin
<1>4. /\ active # NoMem /\ ~idle /\ prepinned /\ pre = NoMem
      /\ lastPinned = Segment(active) /\ rem > lastPinned.size
      /\ lastPinned.at + rem = SegmentEnd(block)
  BY <1>1 DEF TransferInv, Unpinned, Ahead, AtRest
<1>5. /\ active.at \in Nat /\ active.size \in Nat /\ rem \in Nat /\ block.at \in Nat
      /\ block.at <= active.at /\ at = SegmentEnd(active) /\ at \in Nat /\ left \in Nat \ {0}
      /\ block.at <= at /\ at + left = SegmentEnd(block)
  <2>1. /\ active.at \in Nat /\ active.size \in Nat /\ rem \in Nat
        /\ block.at \in Nat /\ block.size \in Nat
    BY DEF TransferInv, DmaTypes, Memories, Blocks
  <2>2. block.at <= active.at
    BY <1>4 DEF TransferInv, Sending, SegmentOf
  <2>3. lastPinned.at = active.at /\ lastPinned.size = active.size
    BY <1>4 DEF Segment
  <2> QED
    BY <1>4, <2>1, <2>2, <2>3 DEF SegmentEnd
<1> HIDE DEF at, left
<1>6. /\ size \in Nat \ {0} /\ size <= left
      /\ size # left => Pages(new) = TableSize
  BY <1>5, LockedFits
<1> HIDE DEF size
<1>7. new \in Memories /\ new # NoMem /\ Segment(new) = [at |-> at, size |-> size]
  BY <1>5, <1>6 DEF Memories, NoMem, Segment
<1>8. SegmentOf(block, new)
  <2>1. SegmentEnd(new) = at + size /\ new.used = 0 /\ new.size = size /\ new.at = at
    BY DEF SegmentEnd
  <2>2. Pages(new) \in Nat
    BY <1>6, <1>7, <2>1, BoundaryFacts
  <2> QED
    BY <1>5, <1>6, <2>1, <2>2 DEF SegmentOf
<1>9. DmaTypes'
  <2>1. rem' \in Nat /\ lastPinned' \in Blocks
    BY <1>2, <1>5, <1>6 DEF Blocks
  <2>2. pre' \in Memories /\ pinWork' \in BOOLEAN
    BY <1>1, <1>3, <1>7 DEF Prepin
  <2>3. DmaTypes
    BY DEF TransferInv
  <2> QED
    BY <1>1, <2>1, <2>2, <2>3 DEF DmaTypes
<1>10. Phases' /\ AtRest' /\ Unpinned' /\ Sending' /\ Descriptors'
  BY <1>1, <1>4 DEF TransferInv, Phases, AtRest, Unpinned, Sending, Descriptors
<1>11. Ahead'
  <2>1. lastPinned'.at + rem' = SegmentEnd(block')
    BY <1>1, <1>2, <1>5
  <2>2. lastPinned' = Segment(pre') /\ pre'.used = 0
    BY <1>2, <1>3, <1>7
  <2>3. SegmentOf(block', pre') /\ pre'.at = SegmentEnd(active')
    BY <1>1, <1>3, <1>5, <1>8
  <2> QED
    BY <1>1, <1>4, <2>1, <2>2, <2>3 DEF Ahead
<1>12. Behind'
  BY <1>1 DEF TransferInv, Behind
<1>13. Held'
  <2>1. {active', pre', done'} \ {NoMem} = ({active, pre, done} \ {NoMem}) \cup {new}
    BY <1>1, <1>3, <1>4, <1>7
  <2>2. {Segment(x) : x \in {active', pre', done'} \ {NoMem}}
        = {Segment(x) : x \in {active, pre, done} \ {NoMem}} \cup {Segment(new)}
    BY <2>1
  <2> QED
    BY <1>1, <1>2, <1>7, <2>2 DEF TransferInv, Held
<1> QED
  BY <1>9, <1>10, <1>11, <1>12, <1>13 DEF TransferInv

\* The unpin worker releases what no one else holds.
LEMMA TransferUnpin == TransferInv /\ Unpin => TransferInv'
<1> SUFFICES ASSUME TransferInv, Unpin PROVE TransferInv'
  OBVIOUS
<1> DEFINE s == unpinQueue[1]
<1>1. /\ unpinWork /\ ~unpinWork'
      /\ pinned' = pinned \ {Head(unpinQueue)} /\ unpinQueue' = Tail(unpinQueue)
      /\ UNCHANGED <<blocks, block, caller, idle, sent, rem, lastPinned, prepinned, lastId,
                     active, pre, done, table, fetch, flag, moved, pinWork, worker>>
  BY DEF Unpin, callVars
<1>2. /\ Len(unpinQueue) = 1 /\ active # NoMem /\ s.size > 0 /\ SegmentEnd(s) <= active.at
      /\ done # NoMem => SegmentEnd(s) <= done.at
      /\ unpinQueue \in Seq(Blocks)
      /\ active \in Memories /\ pre \in Memories /\ done \in Memories
  BY <1>1 DEF TransferInv, Behind, DmaTypes
<1>3. unpinQueue' = <<>> /\ Head(unpinQueue) = s /\ s \in Blocks /\ DOMAIN unpinQueue = {1}
  <2>1. DOMAIN unpinQueue = {1} /\ unpinQueue # <<>>
    <3>1. DOMAIN unpinQueue = 1 .. 1
      BY <1>2, LenProperties
    <3>2. 1 .. 1 = {1}
      OBVIOUS
    <3>3. unpinQueue # <<>>
      BY <3>1, <3>2
    <3> QED
      BY <3>1, <3>2, <3>3
  <2>2. Tail(unpinQueue) \in Seq(Blocks) /\ Len(Tail(unpinQueue)) = 0
    BY <1>2, <2>1, HeadTailProperties
  <2>3. s \in Blocks /\ Head(unpinQueue) = s
    BY <1>2, <2>1, ElementOfSeq
  <2> QED
    BY <1>1, <2>1, <2>2, <2>3, EmptySeq
<1>4. pre # NoMem => SegmentEnd(s) <= pre.at
  <2>1. pre # NoMem => prepinned /\ ~pinWork
    BY <1>2 DEF TransferInv, Ahead
  <2>2. pre # NoMem => pre.at = SegmentEnd(active)
    BY <1>2, <2>1 DEF TransferInv, Ahead
  <2> QED
    BY <1>2, <1>3, <2>2 DEF Memories, SegmentEnd, Blocks
<1>5. ASSUME NEW x \in {active, pre, done} \ {NoMem} PROVE Segment(x) # s
  BY <1>2, <1>3, <1>4 DEF Segment, SegmentEnd, Memories, Blocks
<1>6. DmaTypes'
  <2>1. unpinQueue' \in Seq(Blocks)
    BY <1>3
  <2>2. DmaTypes /\ unpinWork' \in BOOLEAN
    BY DEF TransferInv, Unpin
  <2> QED
    BY <1>1, <2>1, <2>2 DEF DmaTypes
<1>7. Phases' /\ AtRest' /\ Unpinned' /\ Sending' /\ Descriptors'
  BY <1>1 DEF TransferInv, Phases, AtRest, Unpinned, Sending, Descriptors
<1>8. Ahead' /\ Behind'
  BY <1>1, <1>3 DEF TransferInv, Ahead, Behind
<1>9. Held'
  <2>1. pinned = {Segment(x) : x \in {active, pre, done} \ {NoMem}} \cup {s}
    BY <1>3 DEF TransferInv, Held
  <2>2. pinned' = {Segment(x) : x \in {active, pre, done} \ {NoMem}}
    BY <1>1, <1>3, <1>5, <2>1
  <2>3. {unpinQueue'[i] : i \in DOMAIN unpinQueue'} = {}
    BY <1>3
  <2> QED
    BY <1>1, <2>2, <2>3 DEF Held
<1> QED
  BY <1>6, <1>7, <1>8, <1>9 DEF TransferInv

LEMMA TransferDecide == TransferInv /\ DecideTransfer => TransferInv'
<1> SUFFICES ASSUME TransferInv, DecideTransfer PROVE TransferInv'
  OBVIOUS
<1>1. /\ worker = "decide" /\ ~idle /\ flag' = FALSE
      /\ worker' \in {"finish", "pin", "send"}
      /\ worker' = "finish" => sent = block.size
      /\ worker' # "finish" => sent # block.size
      /\ worker' = "pin" => PagesRem(active) = 0
      /\ worker' = "send" => PagesRem(active) # 0
      /\ done' = IF worker' = "pin" THEN active ELSE done
      /\ UNCHANGED <<blocks, block, caller, idle, sent, rem, lastPinned, prepinned, lastId,
                     active, pre, unpinQueue, table, fetch, pinned, moved, pinWork, unpinWork>>
  BY DEF DecideTransfer, callVars
<1>2. done = NoMem
  BY <1>1 DEF TransferInv, Behind
<1>3. worker' = "send" => active # NoMem
  BY <1>1 DEF PagesRem, NoMem
<1>4. /\ worker' = "send" => active.used < Pages(active)
      /\ active # NoMem => active.size > 0
  <2>1. active # NoMem => active.size > 0 /\ active.used <= Pages(active)
    BY DEF TransferInv, Sending, SegmentOf
  <2>2. active \in Memories /\ active.size \in Nat /\ active.used \in Nat
    BY DEF TransferInv, DmaTypes, Memories
  <2>3. active # NoMem => Pages(active) \in Nat /\ PagesRem(active) = Pages(active) - active.used
    BY <2>1, <2>2, PagesRemaining, BoundaryFacts
  <2> QED
    BY <1>1, <1>3, <2>1, <2>2, <2>3
<1>5. DmaTypes'
  <2>1. DmaTypes
    BY DEF TransferInv
  <2>2. done' \in Memories /\ worker' \in WorkerSteps /\ flag' \in BOOLEAN
    BY <1>1, <2>1 DEF DmaTypes, WorkerSteps
  <2> QED
    BY <1>1, <2>1, <2>2 DEF DmaTypes
<1>6. Phases' /\ AtRest' /\ Unpinned' /\ Sending' /\ Ahead'
  BY <1>1, <1>2, <1>3 DEF TransferInv, Phases, AtRest, Unpinned, Sending, Ahead
<1>7. Descriptors'
  BY <1>1, <1>4 DEF TransferInv, Descriptors
<1>8. Behind'
  BY <1>1, <1>2, <1>4 DEF TransferInv, Behind
<1>9. Held'
  BY <1>1, <1>2 DEF TransferInv, Held
<1> QED
  BY <1>5, <1>6, <1>7, <1>8, <1>9 DEF TransferInv

\* When everything was sent the active segment is the only one still held.
LEMMA TransferFinish == TransferInv /\ Finish => TransferInv'
<1> SUFFICES ASSUME TransferInv, Finish PROVE TransferInv'
  OBVIOUS
<1>1. /\ worker = "finish" /\ worker' = "after" /\ ~unpinWork
      /\ pinned' = pinned \ {Segment(active)} /\ active' = NoMem /\ idle' = TRUE
      /\ UNCHANGED <<blocks, block, caller, sent, rem, lastPinned, prepinned, lastId, pre,
                     done, unpinQueue, table, fetch, flag, moved, pinWork, unpinWork>>
  BY DEF Finish, callVars
<1>2. /\ sent = block.size /\ done = NoMem /\ unpinQueue = <<>> /\ fetch = <<>>
      /\ ~idle /\ caller # "out"
  BY <1>1 DEF TransferInv, Descriptors, Behind, Phases
<1>3. pre = NoMem /\ ~pinWork /\ moved = Bytes(block.at, block.size)
  <2>1. CASE active = NoMem
    <3>1. sent = 0 /\ moved = {} /\ pre = NoMem /\ ~pinWork
      BY <1>2, <2>1 DEF TransferInv, Unpinned
    <3>2. Bytes(block.at, 0) = {}
      BY DEF Bytes
    <3> QED
      BY <1>2, <3>1, <3>2
  <2>2. CASE active # NoMem
    <3>1. /\ active \in Memories /\ pre \in Memories /\ block \in Blocks /\ rem \in Nat
      BY DEF TransferInv, DmaTypes
    <3>2. /\ active.size > 0 /\ SegmentEnd(active) <= SegmentEnd(block)
          /\ block.at + sent = Boundary(active, active.used)
          /\ moved = Bytes(block.at, Boundary(active, active.used - Len(fetch)) - block.at)
      BY <2>2 DEF TransferInv, Sending, SegmentOf
    <3>3. SegmentEnd(active) = SegmentEnd(block)
      <4>1. active.used \in Nat
        BY <3>1 DEF Memories
      <4>2. Boundary(active, active.used) <= SegmentEnd(active)
        BY <3>1, <3>2, <4>1, BoundaryFacts
      <4> QED
        BY <1>2, <3>1, <3>2, <4>2 DEF SegmentEnd, Memories, Blocks
    <3>4. moved = Bytes(block.at, block.size)
      <4>1. Len(fetch) = 0 /\ active.used \in Nat /\ block.at \in Nat /\ block.size \in Nat
        BY <1>2, <3>1, EmptySeq DEF Memories, Blocks
      <4>2. active.used - Len(fetch) = active.used
        BY <4>1
      <4>3. Boundary(active, active.used) - block.at = block.size
        BY <1>2, <3>2, <4>1
      <4> QED
        BY <3>2, <4>2, <4>3
    <3>5. ~pinWork
      <4>1. SUFFICES ASSUME pinWork PROVE FALSE
        OBVIOUS
      <4>2. /\ lastPinned = Segment(active) /\ rem > lastPinned.size
            /\ lastPinned.at + rem = SegmentEnd(block)
        BY <2>2, <4>1 DEF TransferInv, Ahead
      <4> QED
        BY <3>1, <3>3, <4>2 DEF Segment, SegmentEnd, Memories
    <3>6. pre = NoMem
      <4>1. SUFFICES ASSUME pre # NoMem PROVE FALSE
        OBVIOUS
      <4>2. SegmentOf(block, pre) /\ pre.at = SegmentEnd(active)
        BY <2>2, <4>1 DEF TransferInv, Ahead
      <4> QED
        BY <3>1, <3>3, <4>2 DEF SegmentOf, SegmentEnd, Memories
    <3> QED
      BY <3>4, <3>5, <3>6
  <2> QED
    BY <2>1, <2>2
<1>4. DmaTypes'
  <2>1. DmaTypes /\ NoMem \in Memories
    BY DEF TransferInv, NoMem, Memories
  <2>2. active' \in Memories /\ worker' \in WorkerSteps /\ idle' \in BOOLEAN
    BY <1>1, <2>1 DEF WorkerSteps
  <2> QED
    BY <1>1, <2>1, <2>2 DEF DmaTypes
<1>5. Phases' /\ AtRest' /\ Unpinned' /\ Sending' /\ Ahead'
  BY <1>1, <1>2, <1>3 DEF TransferInv, Phases, AtRest, Unpinned, Sending, Ahead
<1>6. Descriptors' /\ Behind'
  BY <1>1, <1>2 DEF TransferInv, Descriptors, Behind
<1>7. Held'
  <2>1. DOMAIN unpinQueue = {}
    BY <1>2
  <2>2. pinned = {Segment(x) : x \in {active} \ {NoMem}}
    BY <1>2, <1>3, <2>1 DEF TransferInv, Held
  <2>3. pinned' = {}
    BY <1>1, <2>2
  <2> QED
    BY <1>1, <1>2, <1>3, <2>1, <2>3 DEF Held
<1> QED
  BY <1>4, <1>5, <1>6, <1>7 DEF TransferInv

LEMMA TransferLaunchHelpers == TransferInv /\ LaunchHelpers => TransferInv'
<1> SUFFICES ASSUME TransferInv, LaunchHelpers PROVE TransferInv'
  OBVIOUS
<1>1. /\ worker = "help" /\ worker' = "spin"
      /\ UNCHANGED <<blocks, block, caller, idle, sent, rem, lastPinned, lastId, active, pre,
                     table, fetch, flag, pinned, moved>>
  BY DEF LaunchHelpers, callVars
<1>2. \/ /\ done.size > 0 /\ ~unpinWork /\ unpinWork' = TRUE /\ done' = NoMem
         /\ unpinQueue' = Append(unpinQueue, Segment(done))
      \/ /\ ~(done.size > 0) /\ UNCHANGED <<unpinQueue, unpinWork, done>>
  BY DEF LaunchHelpers
<1>3. \/ /\ rem > lastPinned.size /\ ~prepinned /\ prepinned' = TRUE /\ pinWork' = TRUE
      \/ UNCHANGED <<prepinned, pinWork>>
  BY DEF LaunchHelpers
<1>4. /\ DmaTypes /\ NoMem \in Memories /\ active # NoMem /\ ~idle
      /\ done # NoMem => done.size > 0 /\ SegmentEnd(done) = active.at
  BY <1>1 DEF TransferInv, NoMem, Memories, Unpinned, Phases, Behind
<1>5. done' = NoMem
  BY <1>2, <1>4
<1>6. \/ done = NoMem /\ UNCHANGED <<unpinQueue, unpinWork>>
      \/ /\ done # NoMem /\ unpinWork' = TRUE /\ ~unpinWork
         /\ unpinQueue = <<>> /\ unpinQueue' = <<Segment(done)>>
         /\ Segment(done) \in Blocks
  <2>1. done.size > 0 => done # NoMem
    BY DEF NoMem
  <2>2. ~unpinWork => unpinQueue = <<>>
    BY DEF TransferInv, Behind
  <2>3. Segment(done) \in Blocks
    BY <1>4 DEF DmaTypes, Memories, Blocks, Segment
  <2>4. unpinQueue = <<>> => Append(unpinQueue, Segment(done)) = <<Segment(done)>>
    OBVIOUS
  <2> QED
    BY <1>2, <1>4, <2>1, <2>2, <2>3, <2>4
<1>7. DmaTypes'
  <2>1. unpinQueue' \in Seq(Blocks) /\ unpinWork' \in BOOLEAN
    <3>1. CASE UNCHANGED <<unpinQueue, unpinWork>>
      BY <1>4, <3>1 DEF DmaTypes
    <3>2. CASE unpinWork' = TRUE /\ unpinQueue' = <<Segment(done)>> /\ Segment(done) \in Blocks
      BY <3>2
    <3> QED
      BY <1>6, <3>1, <3>2
  <2>2. prepinned' \in BOOLEAN /\ pinWork' \in BOOLEAN
    BY <1>3, <1>4 DEF DmaTypes
  <2>3. worker' \in WorkerSteps /\ done' \in Memories
    BY <1>1, <1>4, <1>5 DEF WorkerSteps
  <2> QED
    BY <1>1, <1>4, <2>1, <2>2, <2>3 DEF DmaTypes
<1>8. Phases' /\ AtRest' /\ Unpinned' /\ Sending'
  BY <1>1, <1>4 DEF TransferInv, Phases, AtRest, Unpinned, Sending
<1>9. Descriptors'
  BY <1>1 DEF TransferInv, Descriptors
<1>10. Ahead'
  <2>1. CASE UNCHANGED <<prepinned, pinWork>>
    BY <1>1, <2>1 DEF TransferInv, Ahead
  <2>2. CASE rem > lastPinned.size /\ ~prepinned /\ prepinned' = TRUE /\ pinWork' = TRUE
    BY <1>1, <2>2 DEF TransferInv, Ahead
  <2> QED
    BY <1>3, <2>1, <2>2
<1>11. Behind'
  <2>1. CASE done = NoMem /\ UNCHANGED <<unpinQueue, unpinWork>>
    BY <1>1, <1>5, <2>1 DEF TransferInv, Behind
  <2>2. CASE /\ done # NoMem /\ unpinWork' = TRUE /\ unpinQueue' = <<Segment(done)>>
    <3>1. Len(unpinQueue') = 1 /\ unpinQueue'[1] = Segment(done)
      BY <2>2
    <3>2. /\ Segment(done).size > 0
          /\ SegmentEnd(Segment(done)) <= active.at
      BY <1>4, <2>2 DEF Segment, SegmentEnd, DmaTypes, Memories
    <3> QED
      BY <1>1, <1>4, <1>5, <2>2, <3>1, <3>2 DEF Behind
  <2> QED
    BY <1>6, <2>1, <2>2
<1>12. Held'
  <2>1. CASE done = NoMem /\ UNCHANGED <<unpinQueue, unpinWork>>
    BY <1>1, <1>5, <2>1 DEF TransferInv, Held
  <2>2. CASE /\ done # NoMem /\ unpinQueue = <<>> /\ unpinQueue' = <<Segment(done)>>
    <3>1. {unpinQueue'[i] : i \in DOMAIN unpinQueue'} = {Segment(done)}
      BY <2>2
    <3>2. {unpinQueue[i] : i \in DOMAIN unpinQueue} = {}
      BY <2>2
    <3>3. {Segment(x) : x \in {active, pre, done} \ {NoMem}}
          = {Segment(x) : x \in {active', pre', done'} \ {NoMem}} \cup {Segment(done)}
      BY <1>1, <1>5, <2>2
    <3> QED
      BY <1>1, <3>1, <3>2, <3>3 DEF TransferInv, Held
  <2> QED
    BY <1>6, <2>1, <2>2
<1> QED
  BY <1>7, <1>8, <1>9, <1>10, <1>11, <1>12 DEF TransferInv

LEMMA TransferSpin == TransferInv /\ Spin => TransferInv'
<1> SUFFICES ASSUME TransferInv, Spin PROVE TransferInv'
  OBVIOUS
<1>1. /\ worker = "spin" /\ worker' = "none" /\ flag /\ flag' = FALSE
      /\ UNCHANGED <<blocks, block, caller, idle, sent, rem, lastPinned, prepinned, lastId,
                     active, pre, done, unpinQueue, table, fetch, pinned, moved, pinWork,
                     unpinWork>>
  BY DEF Spin, callVars
<1>2. fetch = <<>> /\ (CheckLastId(lastId) = 0 \/ sent = block.size)
  BY <1>1 DEF TransferInv, Descriptors, CheckLastId
<1>3. DmaTypes'
  <2>1. DmaTypes /\ flag' \in BOOLEAN /\ worker' \in WorkerSteps
    BY <1>1 DEF TransferInv, WorkerSteps
  <2> QED
    BY <1>1, <2>1 DEF DmaTypes
<1>4. Phases' /\ AtRest' /\ Unpinned' /\ Sending' /\ Ahead'
  BY <1>1 DEF TransferInv, Phases, AtRest, Unpinned, Sending, Ahead
<1>5. Descriptors'
  BY <1>1, <1>2 DEF Descriptors
<1>6. Behind' /\ Held'
  BY <1>1 DEF TransferInv, Behind, Held
<1> QED
  BY <1>3, <1>4, <1>5, <1>6 DEF TransferInv

LEMMA TransferPinActive == TransferInv /\ PinActive => TransferInv'
<1> SUFFICES ASSUME TransferInv, PinActive PROVE TransferInv'
  OBVIOUS
<1>1. /\ worker = "pin" /\ worker' = "send" /\ ~pinWork
      /\ UNCHANGED <<blocks, block, caller, idle, sent, lastId, done, unpinQueue, table, fetch,
                     flag, moved, pinWork, unpinWork>>
  BY DEF PinActive, PinActiveNow, callVars
<1>2. /\ DmaTypes /\ ~idle /\ done = active /\ PagesRem(active) = 0 /\ ~flag
      /\ sent # block.size /\ fetch = <<>> /\ CheckLastId(lastId) = 0
  BY <1>1 DEF TransferInv, Phases, Behind, Descriptors
<1>3. /\ block.at \in Nat /\ block.size \in Nat /\ sent \in Nat
      /\ active \in Memories /\ active.at \in Nat /\ active.size \in Nat /\ active.used \in Nat
      /\ pre \in Memories /\ NoMem \in Memories /\ unpinQueue \in Seq(Blocks)
  BY <1>2 DEF DmaTypes, Memories, Blocks, NoMem
\* The active segment, if any, was sent to its end.
<1>4. active # NoMem => /\ active.size > 0 /\ block.at + sent = SegmentEnd(active)
                        /\ SegmentEnd(active) <= SegmentEnd(block)
                        /\ block.at <= active.at
  <2>1. SUFFICES ASSUME active # NoMem
                 PROVE  /\ active.size > 0 /\ block.at + sent = SegmentEnd(active)
                        /\ SegmentEnd(active) <= SegmentEnd(block)
                        /\ block.at <= active.at
    OBVIOUS
  <2>2. /\ active.size > 0 /\ active.used <= Pages(active) /\ block.at <= active.at
        /\ SegmentEnd(active) <= SegmentEnd(block)
        /\ block.at + sent = Boundary(active, active.used)
    BY <2>1 DEF TransferInv, Sending, SegmentOf
  <2>3. active.used = Pages(active)
    <3>1. PagesRem(active) = Pages(active) - active.used /\ Pages(active) \in Nat
      BY <1>3, <2>2, PagesRemaining, BoundaryFacts
    <3> QED
      BY <1>2, <1>3, <3>1
  <2> QED
    BY <1>3, <2>2, <2>3, BoundaryFacts
<1>5. sent < block.size
  <2>1. CASE active = NoMem
    <3>1. sent = 0
      BY <1>2, <2>1 DEF TransferInv, Unpinned
    <3> QED
      BY <1>2, <1>3, <3>1
  <2>2. CASE active # NoMem
    BY <1>2, <1>3, <1>4, <2>2 DEF SegmentEnd
  <2> QED
    BY <2>1, <2>2
\* Either way there is a segment where the sending stopped.
<1>6. /\ active' \in Memories /\ SegmentOf(block, active') /\ active'.used = 0
      /\ active'.at = block.at + sent /\ active' # NoMem
      /\ pre' = NoMem /\ ~prepinned' /\ prepinned' \in BOOLEAN
      /\ lastPinned' = Segment(active') /\ lastPinned' \in Blocks
      /\ rem' \in Nat /\ lastPinned'.at + rem' = SegmentEnd(block)
      /\ pinned' = pinned \cup {Segment(active')}
      /\ pre # NoMem => active' = pre
  <2>1. CASE pre # NoMem
    <3>1. /\ active' = pre /\ pre' = NoMem /\ prepinned' = FALSE
          /\ UNCHANGED <<rem, lastPinned, pinned>>
      BY <2>1 DEF PinActive, PinActiveNow
    <3>2. active # NoMem
      BY <2>1 DEF TransferInv, Unpinned
    <3>3. prepinned
      BY <2>1, <3>2 DEF TransferInv, Ahead
    <3>4. /\ lastPinned.at + rem = SegmentEnd(block) /\ lastPinned = Segment(pre)
          /\ pre.used = 0 /\ SegmentOf(block, pre) /\ pre.at = SegmentEnd(active)
      BY <1>1, <3>2, <3>3 DEF TransferInv, Ahead
    <3>5. Segment(pre) \in pinned
      <4>1. pre \in {active, pre, done} \ {NoMem}
        BY <2>1
      <4> QED
        BY <4>1 DEF TransferInv, Held
    <3>6. lastPinned \in Blocks /\ rem \in Nat
      BY <1>2 DEF DmaTypes
    <3> QED
      BY <1>3, <1>4, <2>1, <3>1, <3>2, <3>4, <3>5, <3>6
  <2>2. CASE pre = NoMem
    <3> DEFINE at == block.at + sent
               left == block.size - sent
               size == LockSize(at, left, 0)
               new == [at |-> at, size |-> size, used |-> 0]
    <3>1. /\ rem' = left /\ lastPinned' = [at |-> at, size |-> size]
          /\ pinned' = pinned \cup {[at |-> at, size |-> size]}
      BY <1>2, <2>2 DEF PinActive, PinActiveNow, PinMemory
    <3>2. active' = [at |-> lastPinned'.at, size |-> lastPinned'.size, used |-> 0]
          /\ UNCHANGED <<pre, prepinned>>
      BY <2>2 DEF PinActive, PinActiveNow
    <3>3. active' = new
      BY <3>1, <3>2
    <3>4. at \in Nat /\ left \in Nat \ {0} /\ at + left = SegmentEnd(block) /\ block.at <= at
      <4>1. block.at + sent + (block.size - sent) = block.at + block.size
        BY <1>3
      <4>2. block.at + sent \in Nat /\ block.size - sent \in Nat \ {0}
            /\ block.at <= block.at + sent
        BY <1>3, <1>5
      <4> QED
        BY <4>1, <4>2 DEF SegmentEnd
    <3> HIDE DEF at, left
    <3>5. /\ size \in Nat \ {0} /\ size <= left
          /\ size # left => Pages(new) = TableSize
      BY <3>4, LockedFits
    <3> HIDE DEF size
    <3>6. new \in Memories /\ new # NoMem /\ Segment(new) = [at |-> at, size |-> size]
          /\ [at |-> at, size |-> size] \in Blocks
      BY <3>4, <3>5 DEF Memories, NoMem, Segment, Blocks
    <3>7. SegmentOf(block, new)
      <4>1. SegmentEnd(new) = at + size /\ new.used = 0 /\ new.size = size /\ new.at = at
        BY DEF SegmentEnd
      <4>2. Pages(new) \in Nat
        BY <3>5, <3>6, <4>1, BoundaryFacts
      <4> QED
        BY <3>4, <3>5, <4>1, <4>2 DEF SegmentOf
    <3>8. ~prepinned
      <4>1. CASE active = NoMem
        BY <1>2, <4>1 DEF TransferInv, Unpinned
      <4>2. CASE active # NoMem
        <5>1. prepinned => SegmentOf(block, pre)
          BY <1>1, <4>2 DEF TransferInv, Ahead
        <5>2. ~SegmentOf(block, pre)
          BY <2>2 DEF SegmentOf, NoMem
        <5> QED
          BY <5>1, <5>2
      <4> QED
        BY <4>1, <4>2
    <3>9. prepinned \in BOOLEAN
      BY <1>2 DEF DmaTypes
    <3>10. /\ new.used = 0 /\ new.at = block.at + sent
           /\ lastPinned'.at + rem' = SegmentEnd(block)
      BY <3>1, <3>4 DEF at
    <3>11. rem' \in Nat
      BY <3>1, <3>4
    <3> HIDE DEF new
    <3> QED
      BY <2>2, <3>1, <3>2, <3>3, <3>6, <3>7, <3>8, <3>9, <3>10, <3>11
  <2> QED
    BY <2>1, <2>2
<1>7. /\ Boundary(active', 0) = active'.at /\ Pages(active') \in Nat \ {0}
      /\ active'.size > 0
  BY <1>6, BoundaryFacts DEF SegmentOf
<1>8. DmaTypes'
  <2>1. worker' \in WorkerSteps
    BY <1>1 DEF WorkerSteps
  <2> QED
    BY <1>1, <1>2, <1>3, <1>6, <2>1 DEF DmaTypes
<1>9. Phases' /\ AtRest' /\ Unpinned'
  BY <1>1, <1>2, <1>6 DEF TransferInv, Phases, AtRest, Unpinned
<1>10. Sending'
  <2>1. Len(fetch') = 0 /\ active'.used - Len(fetch') = 0
    <3>1. fetch' = <<>>
      BY <1>1, <1>2
    <3>2. Len(fetch') = 0
      BY <3>1, EmptySeq
    <3>3. active'.used = 0
      BY <1>6
    <3> QED
      BY <3>2, <3>3
  <2>2. moved = Bytes(block.at, sent)
    <3>1. CASE active = NoMem
      <4>1. sent = 0 /\ moved = {}
        BY <1>2, <3>1 DEF TransferInv, Unpinned
      <4>2. Bytes(block.at, 0) = {}
        BY DEF Bytes
      <4> QED
        BY <4>1, <4>2
    <3>2. CASE active # NoMem
      <4>1. /\ moved = Bytes(block.at, Boundary(active, active.used - Len(fetch)) - block.at)
            /\ block.at + sent = Boundary(active, active.used)
        BY <3>2 DEF TransferInv, Sending
      <4>2. Len(fetch) = 0
        BY <1>2, EmptySeq
      <4>3. active.used - Len(fetch) = active.used
        BY <1>3, <4>2
      <4>4. Boundary(active, active.used) - block.at = sent
        BY <1>3, <4>1
      <4> QED
        BY <4>1, <4>3, <4>4
    <3> QED
      BY <3>1, <3>2
  <2>3. Boundary(active', 0) - block.at = sent
    BY <1>3, <1>6, <1>7
  <2>4. moved' = Bytes(block'.at, Boundary(active', active'.used - Len(fetch')) - block'.at)
    BY <1>1, <2>1, <2>2, <2>3
  <2>5. block'.at + sent' = Boundary(active', active'.used)
    BY <1>1, <1>6, <1>7
  <2>6. SegmentOf(block', active') /\ Len(fetch') <= active'.used
    BY <1>1, <1>6, <2>1
  <2> QED
    BY <2>4, <2>5, <2>6 DEF Sending
<1>11. Descriptors'
  <2>1. active'.used < Pages(active')
    BY <1>6, <1>7
  <2> QED
    BY <1>1, <1>2, <2>1 DEF Descriptors
<1>12. Ahead'
  BY <1>1, <1>6 DEF Ahead
<1>13. Behind'
  <2>1. active # NoMem => active'.at = SegmentEnd(active)
    BY <1>4, <1>6
  <2>2. unpinWork => /\ Len(unpinQueue) = 1 /\ active # NoMem
                     /\ unpinQueue[1].size > 0 /\ SegmentEnd(unpinQueue[1]) <= active.at
                     /\ unpinQueue[1] \in Blocks
    <3>1. unpinWork => Len(unpinQueue) = 1
      BY DEF TransferInv, Behind
    <3>2. unpinWork => unpinQueue[1] \in Blocks
      <4>1. unpinWork => 1 \in 1 .. Len(unpinQueue)
        BY <3>1
      <4> QED
        BY <1>3, <4>1, ElementOfSeq
    <3> QED
      BY <3>1, <3>2 DEF TransferInv, Behind
  <2>3. unpinWork => SegmentEnd(unpinQueue[1]) <= active'.at
    BY <1>3, <2>1, <2>2 DEF SegmentEnd, Blocks
  <2>4. ~unpinWork => unpinQueue = <<>>
    BY DEF TransferInv, Behind
  <2> QED
    BY <1>1, <1>2, <1>4, <1>6, <2>1, <2>2, <2>3, <2>4 DEF Behind
<1>14. Held'
  <2>1. {active', pre', done'} \ {NoMem} = ({active, pre, done} \ {NoMem}) \cup {active'}
    BY <1>1, <1>2, <1>6
  <2>2. {Segment(x) : x \in {active', pre', done'} \ {NoMem}}
        = {Segment(x) : x \in {active, pre, done} \ {NoMem}} \cup {Segment(active')}
    BY <2>1
  <2> QED
    BY <1>1, <1>6, <2>2 DEF TransferInv, Held
<1> QED
  BY <1>8, <1>9, <1>10, <1>11, <1>12, <1>13, <1>14 DEF TransferInv

LEMMA SamePages ==
    ASSUME NEW m \in Memories, NEW k \in Nat
    PROVE  LET p == [m EXCEPT !.used = @ + k]
           IN  /\ p \in Memories /\ p.at = m.at /\ p.size = m.size /\ p.used = m.used + k
               /\ Pages(p) = Pages(m) /\ SegmentEnd(p) = SegmentEnd(m)
               /\ Segment(p) = Segment(m)
               /\ \A u \in Nat : Boundary(p, u) = Boundary(m, u)
<1> DEFINE p == [m EXCEPT !.used = @ + k]
<1>1. /\ p \in Memories /\ p.at = m.at /\ p.size = m.size /\ p.used = m.used + k
  BY DEF Memories
<1> HIDE DEF p
<1>2. Pages(p) = Pages(m) /\ SegmentEnd(p) = SegmentEnd(m) /\ Segment(p) = Segment(m)
  BY <1>1 DEF Pages, SegmentEnd, Segment
<1>3. \A u \in Nat : Boundary(p, u) = Boundary(m, u)
  BY <1>1 DEF Boundary
<1> QED
  BY <1>1, <1>2, <1>3 DEF p

\* One round of descriptors, from the first entry of the table on.
LEMMA TransferSend == TransferInv /\ Send => TransferInv'
<1> SUFFICES ASSUME TransferInv, Send PROVE TransferInv'
  OBVIOUS
<1> DEFINE m == active
           n == Lesser(TableSize, PagesRem(active))
           page(k) == NextPage([active EXCEPT !.used = @ + k])
           upTo(k) == IF k = 0 THEN 0 ELSE page(k - 1).at + page(k - 1).size - page(0).at
           B(u) == Boundary(active, u)
           origin == block.at
<1>1. /\ worker = "send" /\ worker' = "help"
      /\ UNCHANGED <<blocks, block, caller, idle, rem, lastPinned, prepinned, pre, done,
                     unpinQueue, flag, pinned, moved, pinWork, unpinWork>>
  BY DEF Send, callVars
<1>2. /\ DmaTypes /\ ~idle /\ ~flag /\ sent # block.size /\ fetch = <<>>
      /\ CheckLastId(lastId) = 0 /\ m # NoMem /\ m.used < Pages(m)
  BY <1>1 DEF TransferInv, Phases, Unpinned, Descriptors
<1>3. /\ m \in Memories /\ m.used \in Nat /\ m.at \in Nat /\ sent \in Nat /\ origin \in Nat
      /\ block.size \in Nat /\ TableSize \in Nat \ {0}
  BY <1>2, PcieDmaAssumption DEF DmaTypes, Memories, Blocks
<1>4. /\ SegmentOf(block, m) /\ m.size > 0 /\ origin <= m.at
      /\ origin + sent = B(m.used)
      /\ moved = Bytes(origin, B(m.used - Len(fetch)) - origin)
  BY <1>2 DEF TransferInv, Sending, SegmentOf
<1>5. Pages(m) \in Nat \ {0} /\ PagesRem(m) = Pages(m) - m.used
  BY <1>3, <1>4, BoundaryFacts, PagesRemaining
<1>6. /\ n \in Nat \ {0} /\ n <= TableSize /\ m.used + n <= Pages(m)
      /\ n = TableSize \/ m.used + n = Pages(m)
  BY <1>2, <1>3, <1>5 DEF Lesser
<1>7. /\ table' = [id \in 0 .. TableSize - 1 |->
                     IF id \in 0 .. n - 1
                     THEN [at |-> page(id - 0).at, size |-> page(id - 0).size,
                           dev |-> sent + upTo(id - 0)]
                     ELSE table[id]]
      /\ lastId' = 0 + n /\ sent' = sent + upTo(n)
      /\ active' = [active EXCEPT !.used = @ + n]
      /\ fetch' = [k \in 1 .. 0 + n |-> k - 1]
  <2>1. TableSize - 0 = TableSize /\ 0 + n - 1 = n - 1
    BY <1>3, <1>6
  <2> QED
    BY <1>2, <2>1 DEF Send
<1>8. ASSUME NEW u \in Nat
      PROVE  B(u) \in Nat /\ m.at <= B(u) /\ B(u) <= SegmentEnd(m)
  BY <1>3, <1>4, BoundaryFacts
<1>9. ASSUME NEW k \in 0 .. n - 1
      PROVE  page(k) = [at |-> B(m.used + k), size |-> B(m.used + k + 1) - B(m.used + k)]
  <2> DEFINE p == [active EXCEPT !.used = @ + k]
  <2>1. k \in Nat /\ m.used + k < Pages(m)
    BY <1>3, <1>5, <1>6
  <2>2. /\ p \in Memories /\ p.size = m.size /\ p.used = m.used + k
        /\ Pages(p) = Pages(m)
        /\ \A u \in Nat : Boundary(p, u) = B(u)
    BY <1>3, <2>1, SamePages
  <2> HIDE DEF p
  <2>3. NextPage(p) = [at |-> Boundary(p, p.used),
                       size |-> Boundary(p, p.used + 1) - Boundary(p, p.used)]
    BY <1>4, <2>1, <2>2, PageBetween
  <2>4. m.used + k \in Nat /\ m.used + k + 1 \in Nat
    BY <1>3, <2>1
  <2>5. NextPage(p) = [at |-> B(m.used + k), size |-> B(m.used + k + 1) - B(m.used + k)]
    BY <2>2, <2>3, <2>4
  <2> QED
    BY <2>5 DEF p
<1> HIDE DEF page, B, n
<1>10. ASSUME NEW k \in 0 .. n PROVE upTo(k) = B(m.used + k) - B(m.used)
  <2>1. B(m.used) \in Nat /\ B(m.used + 0) = B(m.used) /\ B(m.used + k) \in Nat
    <3>1. m.used + 0 = m.used /\ m.used + k \in Nat
      BY <1>3, <1>6
    <3> QED
      BY <1>3, <1>8, <3>1
  <2>2. CASE k = 0
    BY <2>1, <2>2
  <2>3. CASE k # 0
    <3>1. k - 1 \in 0 .. n - 1 /\ 0 \in 0 .. n - 1
      BY <1>6, <2>3
    <3>2. m.used + (k - 1) + 1 = m.used + k /\ m.used + (k - 1) \in Nat
      BY <1>3, <2>3
    <3>3. page(k - 1) = [at |-> B(m.used + (k - 1)),
                         size |-> B(m.used + k) - B(m.used + (k - 1))]
      BY <1>9, <3>1, <3>2
    <3>4. page(0).at = B(m.used)
      <4>1. page(0) = [at |-> B(m.used + 0), size |-> B(m.used + 0 + 1) - B(m.used + 0)]
        BY <1>9, <3>1
      <4> QED
        BY <2>1, <4>1
    <3>5. B(m.used + (k - 1)) \in Nat
      BY <1>8, <3>2
    <3>6. upTo(k) = page(k - 1).at + page(k - 1).size - page(0).at
      BY <2>3
    <3>7. page(k - 1).at = B(m.used + (k - 1))
          /\ page(k - 1).size = B(m.used + k) - B(m.used + (k - 1))
      BY <3>3
    <3> QED
      BY <2>1, <3>4, <3>5, <3>6, <3>7
  <2> QED
    BY <2>2, <2>3
<1> HIDE DEF upTo
<1>11. /\ lastId' = n /\ fetch' = [k \in 1 .. n |-> k - 1]
       /\ fetch' \in Seq(Nat) /\ Len(fetch') = n
       /\ \A k \in 1 .. n : fetch'[k] = k - 1
  <2>1. 0 + n = n
    BY <1>6
  <2>2. fetch' = [k \in 1 .. n |-> k - 1] /\ lastId' = n
    BY <1>7, <2>1
  <2>3. \A k \in 1 .. n : k - 1 \in Nat
    OBVIOUS
  <2>4. fetch' \in [1 .. n -> Nat]
    BY <2>2, <2>3
  <2>5. fetch' \in Seq(Nat)
    BY <1>6, <2>4, IsASeq
  <2>6. DOMAIN fetch' = 1 .. n
    BY <2>2
  <2>7. Len(fetch') = n
    BY <1>6, <2>5, <2>6, LenProperties
  <2> QED
    BY <2>2, <2>5, <2>7
<1>12. /\ active' \in Memories /\ active'.used = m.used + n /\ active'.size = m.size
       /\ active'.at = m.at
       /\ Pages(active') = Pages(m) /\ SegmentEnd(active') = SegmentEnd(m)
       /\ Segment(active') = Segment(m) /\ active' # NoMem
       /\ \A u \in Nat : Boundary(active', u) = B(u)
  <2>1. active' # NoMem
    BY <1>3, <1>4, <1>6, <1>7, SamePages DEF NoMem
  <2> QED
    BY <1>3, <1>6, <1>7, <2>1, SamePages DEF B
<1>13. sent' \in Nat /\ origin + sent' = B(m.used + n) /\ m.used + n \in Nat
  <2>1. upTo(n) = B(m.used + n) - B(m.used)
    BY <1>6, <1>10
  <2>2. B(m.used + n) \in Nat /\ B(m.used) \in Nat /\ origin <= B(m.used + n)
        /\ m.used + n \in Nat
    <3>1. m.used + n \in Nat
      BY <1>3, <1>6
    <3>2. B(m.used + n) \in Nat /\ B(m.used) \in Nat /\ m.at <= B(m.used + n)
      BY <1>3, <1>8, <3>1
    <3> QED
      BY <1>3, <1>4, <3>1, <3>2
  <2>3. sent' = sent + (B(m.used + n) - B(m.used)) /\ origin + sent = B(m.used)
    BY <1>4, <1>7, <2>1
  <2> HIDE DEF m, origin
  <2> QED
    BY <1>3, <2>2, <2>3
\* A round that does not fill the table ends the block.
<1>14. n = TableSize \/ sent' = block.size
  <2>1. SUFFICES ASSUME n # TableSize PROVE sent' = block.size
    OBVIOUS
  <2>2. m.used + n = Pages(m)
    BY <1>6, <2>1
  <2>3. origin + sent' = SegmentEnd(m)
    BY <1>3, <1>4, <1>13, <2>2, BoundaryFacts DEF B
  <2>4. SegmentEnd(m) = SegmentEnd(block)
    <3>1. SUFFICES ASSUME SegmentEnd(m) # SegmentEnd(block) PROVE FALSE
      OBVIOUS
    <3>2. Pages(m) = TableSize /\ m.used \in {0, TableSize}
      BY <1>4, <3>1 DEF SegmentOf
    <3> QED
      BY <1>2, <1>3, <1>6, <2>1, <2>2, <3>2
  <2> QED
    BY <1>3, <1>13, <2>3, <2>4 DEF SegmentEnd
<1>15. SegmentOf(block', active')
  <2>1. SegmentEnd(m) # SegmentEnd(block) => Pages(m) = TableSize /\ m.used + n \in {0, TableSize}
    <3>1. SegmentEnd(m) # SegmentEnd(block) => Pages(m) = TableSize /\ m.used \in {0, TableSize}
      BY <1>4 DEF SegmentOf
    <3> QED
      BY <1>2, <1>3, <1>6, <3>1
  <2> QED
    BY <1>1, <1>4, <1>6, <1>12, <2>1 DEF SegmentOf
<1>16. DmaTypes'
  <2>1. lastId' \in Nat /\ DOMAIN table' = 0 .. TableSize - 1 /\ worker' \in WorkerSteps
    BY <1>1, <1>6, <1>7, <1>11 DEF WorkerSteps
  <2> QED
    BY <1>1, <1>2, <1>11, <1>12, <1>13, <2>1 DEF DmaTypes
<1>17. Phases' /\ AtRest' /\ Unpinned'
  BY <1>1, <1>2, <1>12 DEF TransferInv, Phases, AtRest, Unpinned
<1>18. Sending'
  <2>1. block'.at + sent' = Boundary(active', active'.used)
    BY <1>1, <1>12, <1>13
  <2>2. Len(fetch') <= active'.used
    BY <1>3, <1>6, <1>11, <1>12
  <2>3. active'.used - Len(fetch') = m.used
    BY <1>3, <1>6, <1>11, <1>12
  <2>4. m.used - Len(fetch) = m.used
    <3>1. Len(fetch) = 0
      BY <1>2, EmptySeq
    <3> QED
      BY <1>3, <3>1
  <2>5. moved = Bytes(origin, B(m.used) - origin)
    BY <1>4, <2>4 DEF B
  <2>6. moved' = Bytes(block'.at, Boundary(active', active'.used - Len(fetch')) - block'.at)
    BY <1>1, <1>3, <1>12, <2>3, <2>5
  <2> QED
    BY <1>15, <2>1, <2>2, <2>6 DEF Sending
<1>19. Descriptors'
  <2>1. Len(fetch') <= lastId' /\ lastId' <= active'.used /\ lastId' <= TableSize
    BY <1>3, <1>6, <1>11, <1>12
  <2>2. lastId' = TableSize \/ sent' = block'.size
    BY <1>1, <1>11, <1>14
  <2>3. ASSUME NEW k \in 1 .. Len(fetch') PROVE fetch'[k] = lastId' - Len(fetch') + k - 1
    BY <1>6, <1>11
  <2>4. ASSUME NEW id \in 0 .. lastId' - 1
        PROVE  table'[id] = Descriptor(active', active'.used - lastId' + id, block'.at)
    <3>1. id \in 0 .. n - 1 /\ id \in 0 .. TableSize - 1 /\ id - 0 = id /\ id \in 0 .. n
          /\ id \in Nat
      BY <1>3, <1>6, <1>11
    <3>2. table'[id] = [at |-> page(id).at, size |-> page(id).size, dev |-> sent + upTo(id)]
      BY <1>7, <3>1
    <3>3. page(id) = [at |-> B(m.used + id), size |-> B(m.used + id + 1) - B(m.used + id)]
      BY <1>9, <3>1
    <3>4. upTo(id) = B(m.used + id) - B(m.used)
      BY <1>10, <3>1
    <3>5. active'.used - lastId' + id = m.used + id /\ m.used + id \in Nat
          /\ m.used + id + 1 \in Nat
      BY <1>3, <1>6, <1>11, <1>12, <3>1
    <3>6. sent + upTo(id) = B(m.used + id) - origin
      <4>1. B(m.used + id) \in Nat /\ origin + sent = B(m.used) /\ B(m.used) \in Nat
        BY <1>3, <1>4, <1>8, <3>5 DEF B
      <4> QED
        BY <1>3, <3>4, <4>1
    <3>7. table'[id] = [at |-> B(m.used + id), size |-> B(m.used + id + 1) - B(m.used + id),
                        dev |-> B(m.used + id) - origin]
      BY <3>2, <3>3, <3>6
    <3>8. /\ Boundary(active', m.used + id) = B(m.used + id)
          /\ Boundary(active', m.used + id + 1) = B(m.used + id + 1)
      BY <1>12, <3>5
    <3> QED
      BY <1>1, <3>5, <3>7, <3>8 DEF Descriptor
  <2> QED
    BY <1>1, <1>2, <2>1, <2>2, <2>3, <2>4 DEF Descriptors
<1>20. Ahead'
  BY <1>1, <1>2, <1>12 DEF TransferInv, Ahead
<1>21. Behind'
  BY <1>1, <1>2, <1>12 DEF TransferInv, Behind
<1>22. Held'
  <2>1. {Segment(x) : x \in {active', pre', done'} \ {NoMem}}
        = {Segment(x) : x \in {active, pre, done} \ {NoMem}}
    BY <1>1, <1>2, <1>12
  <2> QED
    BY <1>1, <2>1 DEF TransferInv, Held
<1> QED
  BY <1>16, <1>17, <1>18, <1>19, <1>20, <1>21, <1>22 DEF TransferInv

-----------------------------------------------------------------------------
(* The theorems about transfers.                                           *)

LEMMA TransferStep == TransferInv /\ [DmaNext]_pcieVars => TransferInv'
<1> SUFFICES ASSUME TransferInv, [DmaNext]_pcieVars PROVE TransferInv'
  OBVIOUS
<1>1. DmaTypes /\ Phases
  BY DEF TransferInv
<1>2. CASE ReadWrite
  BY <1>2, TransferReadWrite
<1>3. CASE SubmitFirst
  <2>1. /\ UNCHANGED <<blocks, block, idle, dmaVars, worker>>
        /\ caller = "submit" /\ caller' = "stall"
    BY <1>3 DEF SubmitFirst
  <2> QED
    BY <2>1, TransferCalm
<1>4. CASE StallEnds
  <2>1. /\ UNCHANGED <<blocks, block, idle, dmaVars, worker>>
        /\ caller' = "out" /\ idle
    BY <1>4 DEF StallEnds
  <2> QED
    BY <2>1, TransferCalm
<1>5. CASE EngineMove
  BY <1>5, TransferEngineMove
<1>6. CASE Prepin
  BY <1>6, TransferPrepin
<1>7. CASE Unpin
  BY <1>7, TransferUnpin
<1>8. CASE WorkBegin \/ Poll \/ DecideIdle \/ AfterTransfer
  <2>1. /\ UNCHANGED <<blocks, block, caller, idle, dmaVars>>
        /\ {worker, worker'} \subseteq Elsewhere
    BY <1>8 DEF WorkBegin, Poll, DecideIdle, AfterTransfer, callVars, Elsewhere
  <2> QED
    BY <1>1, <2>1, TransferCalm DEF DmaTypes
<1>9. CASE DecideTransfer
  BY <1>9, TransferDecide
<1>10. CASE Finish
  BY <1>10, TransferFinish
<1>11. CASE PinActive
  BY <1>11, TransferPinActive
<1>12. CASE Send
  BY <1>12, TransferSend
<1>13. CASE LaunchHelpers
  BY <1>13, TransferLaunchHelpers
<1>14. CASE Spin
  BY <1>14, TransferSpin
<1>15. CASE UserStep \/ UNCHANGED pcieVars
  <2>1. UNCHANGED <<blocks, block, caller, idle, dmaVars, worker>>
    BY <1>15 DEF UserStep, callVars, pcieVars
  <2> QED
    BY <1>1, <2>1, TransferCalm DEF DmaTypes
<1>16. User \/ IpPush \/ IpPull \/ (\E c \in Channels : CreateHostchannel(c) \/ DestroyHostchannel(c))
       => UserStep
  BY DEF User, UseBuffer, AckBuffer, SyncThread, SetRunning, Destroyed, GetBuffer, IpPush,
         IpPull, CreateHostchannel, DestroyHostchannel
<1> QED
  BY <1>2, <1>3, <1>4, <1>5, <1>6, <1>7, <1>8, <1>9, <1>10, <1>11, <1>12, <1>13, <1>14,
     <1>15, <1>16 DEF DmaNext, Caller, Worker

\* The state of a transfer: what was sent, what the engine has moved and what
\* the helper threads hold pinned agree, for every block, page size and length
\* of the descriptor table (acl_pcie_dma_windows.cpp, update).
THEOREM TransferInvariant == DmaSpec => []TransferInv
  BY TransferInit, TransferStep, PTL DEF DmaSpec

\* The engine never touches a page that a helper thread has unpinned
\* (unpin_from_queue), whatever the timing of the helpers.
THEOREM EngineTouchesPinned == DmaSpec => []DmaTouchesPinned
<1>1. ASSUME TransferInv PROVE DmaTouchesPinned
  <2>1. SUFFICES ASSUME NEW k \in DOMAIN fetch
                 PROVE  \E s \in pinned : /\ s.at <= table[fetch[k]].at
                                          /\ table[fetch[k]].at + table[fetch[k]].size
                                             <= s.at + s.size
    BY DEF DmaTouchesPinned
  <2> DEFINE m == active
             id == fetch[k]
             u == m.used - lastId + id
  <2>2. fetch \in Seq(Nat) /\ fetch # <<>> /\ k \in 1 .. Len(fetch) /\ Len(fetch) \in Nat
    BY <1>1, LenProperties DEF TransferInv, DmaTypes
  <2>3. worker \in {"help", "spin"} /\ m # NoMem
    BY <1>1, <2>2 DEF TransferInv, Descriptors, Unpinned
  <2>4. /\ Len(fetch) <= lastId /\ lastId <= m.used
        /\ id = lastId - Len(fetch) + k - 1
        /\ \A i \in 0 .. lastId - 1 :
              table[i] = Descriptor(m, m.used - lastId + i, block.at)
    BY <1>1, <2>2, <2>3 DEF TransferInv, Descriptors
  <2>5. /\ m \in Memories /\ m.used \in Nat /\ m.at \in Nat /\ m.size \in Nat
        /\ lastId \in Nat /\ m.size > 0
    BY <1>1, <2>3 DEF TransferInv, DmaTypes, Memories, Sending, SegmentOf
  <2> HIDE DEF m, id
  <2>6. id \in 0 .. lastId - 1
    <3>1. k \in Nat /\ 1 <= k /\ k <= Len(fetch)
      BY <2>2
    <3>2. lastId \in Nat /\ Len(fetch) \in Nat /\ Len(fetch) <= lastId
          /\ id = lastId - Len(fetch) + k - 1
      BY <2>2, <2>4, <2>5
    <3> QED
      BY <3>1, <3>2
  <2>7. table[id] = Descriptor(m, u, block.at)
    BY <2>4, <2>6
  <2>8. u \in Nat /\ u + 1 \in Nat
    <3>1. m.used \in Nat /\ lastId \in Nat /\ lastId <= m.used /\ id \in Nat
      BY <2>4, <2>5, <2>6
    <3> QED
      BY <3>1
  <2> HIDE DEF u
  <2>9. /\ Boundary(m, u) \in Nat /\ Boundary(m, u + 1) \in Nat
        /\ m.at <= Boundary(m, u) /\ Boundary(m, u + 1) <= SegmentEnd(m)
    BY <2>5, <2>8, BoundaryFacts
  <2>10. table[id].at = Boundary(m, u)
         /\ table[id].size = Boundary(m, u + 1) - Boundary(m, u)
    BY <2>7 DEF Descriptor
  <2>11. Segment(m) \in pinned
    BY <1>1, <2>3 DEF TransferInv, Held, m
  <2>12. Segment(m).at = m.at /\ Segment(m).at + Segment(m).size = SegmentEnd(m)
    BY DEF Segment, SegmentEnd
  <2>13. table[id].at + table[id].size = Boundary(m, u + 1)
    BY <2>9, <2>10
  <2> QED
    BY <2>9, <2>10, <2>11, <2>12, <2>13 DEF id
<1> QED
  BY <1>1, TransferInvariant, PTL

\* When stall_until_idle returns every byte of the block was transferred to
\* its place and nothing else was, and no memory stays pinned.
THEOREM TransferIsExact == DmaSpec => []IdleMeansTransferred
<1>1. ASSUME TransferInv PROVE IdleMeansTransferred
  <2>1. SUFFICES ASSUME idle
                 PROVE  /\ caller = "stall" =>
                              moved = {<<block.at + i, i>> : i \in 0 .. block.size - 1}
                        /\ pinned = {}
    BY DEF IdleMeansTransferred
  <2>2. active = NoMem /\ (caller # "out" => moved = Bytes(block.at, block.size))
    BY <1>1, <2>1 DEF TransferInv, AtRest
  <2>3. pre = NoMem /\ done = NoMem /\ unpinQueue = <<>>
    BY <1>1, <2>2 DEF TransferInv, Unpinned, Behind
  <2>4. pinned = {}
    <3>1. DOMAIN unpinQueue = {} /\ {active, pre, done} \ {NoMem} = {}
      BY <2>2, <2>3
    <3> QED
      BY <1>1, <3>1 DEF TransferInv, Held
  <2> QED
    BY <2>2, <2>4 DEF Bytes
<1> QED
  BY <1>1, TransferInvariant, PTL

-----------------------------------------------------------------------------
(* The inductive invariant of the rings.                                   *)

Positions == 0 .. RingSize - 1
\* How far b is ahead of a in the ring, and the position d words on.
Gap(a, b) == IF a <= b THEN b - a ELSE RingSize - a + b
Onward(a, d) == IF a + d < RingSize THEN a + d ELSE a + d - RingSize

Users == [pc : {"out", "use", "ack", "sync", "flag", "drain"}, ch : Channels,
          n : Nat, blocked : Channels \cup {"no"}]

RingTypes ==
    /\ valid \in [Channels -> BOOLEAN]
    /\ hw \in [Channels -> [pos : Positions, limit : Positions]]
    /\ ptr \in [Channels -> [mine : Positions, theirs : Positions]]
    /\ count \in [Channels -> [in : Nat, out : Nat]]
    /\ ring \in [Channels -> [Positions -> Nat]]
    /\ user \in Users

\* The words that the user has written or read and not yet acknowledged.
Unacked(c) == IF user.pc = "ack" /\ user.ch = c THEN user.n ELSE 0
\* The words that belong to the consumer or are on their way to it.
InRing(c) == count[c].in - count[c].out

\* A buffer in the user's hands is in front of its pointer, does not wrap and
\* fits in what is free (push) or there (pull).
UserHolds ==
    user.pc \in {"use", "ack"} =>
        LET c == user.ch
        IN  /\ valid[c] /\ user.n > 0 /\ ptr[c].mine + user.n <= RingSize
            /\ c = "push" => Gap(hw[c].pos, ptr[c].mine) + user.n <= RingSize - 1
            /\ c = "pull" => user.n <= Gap(ptr[c].mine, hw[c].pos)

\* The push ring: the IP follows the limit it was told, which follows the
\* user's pointer.
PushInOrder ==
    valid["push"] =>
        LET pos == hw["push"].pos
            mine == ptr["push"].mine
        IN  /\ ptr["push"].theirs = pos
            /\ Gap(pos, hw["push"].limit) <= Gap(pos, mine)
            /\ InRing("push") = Gap(pos, mine) + Unacked("push")
            /\ \A d \in Positions : d < InRing("push") =>
                  ring["push"][Onward(pos, d)] = count["push"].out + d + 1

\* The pull ring: the user follows the IP, which never passes the limit, the
\* user's pointer as it was last told.
PullInOrder ==
    valid["pull"] =>
        LET pos == hw["pull"].pos
            mine == ptr["pull"].mine
            read == count["pull"].out - Unacked("pull")
        IN  /\ ptr["pull"].theirs = pos
            /\ Gap(mine, pos) <= Gap(hw["pull"].limit, pos)
            /\ InRing("pull") + Unacked("pull") = Gap(mine, pos)
            /\ \A d \in Positions : d < Gap(mine, pos) =>
                  ring["pull"][Onward(mine, d)] = read + d + 1

RingInv == RingTypes /\ UserHolds /\ PushInOrder /\ PullInOrder

-----------------------------------------------------------------------------
(* Arithmetic of a ring.                                                   *)

LEMMA RemainderOfInt ==
    ASSUME NEW x \in Int, NEW p \in Nat \ {0}, -p <= x, x < p + p
    PROVE  x % p = IF x < 0 THEN x + p ELSE IF x < p THEN x ELSE x - p
<1> DEFINE r == IF x < 0 THEN x + p ELSE IF x < p THEN x ELSE x - p
           q == IF x < 0 THEN -1 ELSE IF x < p THEN 0 ELSE 1
<1>1. q \in {-1, 0, 1} /\ x = q * p + r /\ r \in 0 .. p - 1
  OBVIOUS
<1>2. x = (x \div p) * p + (x % p) /\ x % p \in 0 .. p - 1 /\ x \div p \in Int
  OBVIOUS
<1> DEFINE k == x \div p - q
           s == r - (x % p)
<1>3. k \in Int /\ s \in Int /\ s = k * p /\ -p < s /\ s < p
  <2>1. /\ \A d \in Int : (d - 1) * p = d * p - p
        /\ \A d \in Int : (d - 0) * p = d * p
        /\ \A d \in Int : (d - (-1)) * p = d * p + p
    OBVIOUS
  <2>2. 1 * p = p /\ 0 * p = 0 /\ (-1) * p = -p
    OBVIOUS
  <2> DEFINE d == x \div p
             e == x % p
  <2> HIDE DEF d, e, q, r
  <2>3. /\ q \in {-1, 0, 1} /\ x = q * p + r /\ r \in 0 .. p - 1
        /\ d \in Int /\ x = d * p + e /\ e \in 0 .. p - 1
    BY <1>1, <1>2 DEF d, e
  <2>4. r - e = (d - q) * p
    <3>1. CASE q = 0
      BY <2>1, <2>2, <2>3, <3>1
    <3>2. CASE q = 1
      BY <2>1, <2>2, <2>3, <3>2
    <3>3. CASE q = -1
      BY <2>1, <2>2, <2>3, <3>3
    <3> QED
      BY <2>3, <3>1, <3>2, <3>3
  <2> QED
    BY <2>3, <2>4 DEF d, e
<1> HIDE DEF k, s
<1>4. k = 0
  <2>1. k >= 1 => k * p >= p
    BY <1>3
  <2>2. k <= -1 => k * p <= -p
    BY <1>3
  <2> QED
    BY <1>3, <2>1, <2>2
<1>5. s = 0
  BY <1>3, <1>4
<1> QED
  BY <1>1, <1>2, <1>5 DEF s

LEMMA RingRemainders ==
    ASSUME NEW a \in Positions, NEW b \in Positions
    PROVE  /\ RingSize \in Nat \ {0, 1} /\ 1 \in Positions /\ 0 \in Positions
           /\ (b - a) % RingSize = Gap(a, b)
           /\ (a + b) % RingSize = Onward(a, b)
           /\ (a + 1) % RingSize = Onward(a, 1)
<1>1. RingSize \in Nat \ {0, 1}
  BY PcieDmaAssumption
<1>2. (b - a) % RingSize = Gap(a, b)
  <2>1. b - a \in Int /\ -RingSize <= b - a /\ b - a < RingSize /\ b - a < RingSize + RingSize
    BY <1>1 DEF Positions
  <2>2. (b - a) % RingSize = IF b - a < 0 THEN (b - a) + RingSize ELSE b - a
    BY <1>1, <2>1, RemainderOfInt
  <2> QED
    BY <1>1, <2>2 DEF Gap, Positions
<1>3. ASSUME NEW d \in Positions PROVE (a + d) % RingSize = Onward(a, d)
  <2>1. a + d \in Int /\ -RingSize <= a + d /\ a + d < RingSize + RingSize /\ ~(a + d < 0)
    BY <1>1 DEF Positions
  <2>2. (a + d) % RingSize = IF a + d < RingSize THEN a + d ELSE (a + d) - RingSize
    BY <1>1, <2>1, RemainderOfInt
  <2> QED
    BY <1>1, <2>2 DEF Onward, Positions
<1>4. 1 \in Positions /\ 0 \in Positions
  BY <1>1 DEF Positions
<1> QED
  BY <1>1, <1>2, <1>3, <1>4

LEMMA GapFacts ==
    ASSUME NEW a \in Positions, NEW b \in Positions
    PROVE  /\ Gap(a, b) \in Positions /\ Gap(a, a) = 0
           /\ Gap(a, b) = 0 => a = b
           /\ Onward(a, Gap(a, b)) = b
           /\ Gap(a, b) \in Nat /\ Gap(a, b) <= RingSize - 1
           /\ Gap(b, a) = RingSize - 1 => Onward(a, 1) = b
  BY PcieDmaAssumption DEF Gap, Onward, Positions

LEMMA OnwardFacts ==
    ASSUME NEW a \in Positions, NEW d \in Positions
    PROVE  /\ Onward(a, d) \in Positions /\ Onward(a, 0) = a
           /\ \A e \in Positions : Onward(a, d) = Onward(a, e) => d = e
           /\ \A e \in Positions : d + e <= RingSize - 1 =>
                 Onward(Onward(a, d), e) = Onward(a, d + e)
  BY PcieDmaAssumption DEF Onward, Positions

\* Moving the end of a stretch on lengthens it, moving its beginning on
\* shortens it.
LEMMA GapMoves ==
    ASSUME NEW a \in Positions, NEW b \in Positions, NEW d \in Positions
    PROVE  /\ Gap(a, b) + d <= RingSize - 1 => Gap(a, Onward(b, d)) = Gap(a, b) + d
           /\ d <= Gap(a, b) => Gap(Onward(a, d), b) = Gap(a, b) - d
  BY PcieDmaAssumption DEF Gap, Onward, Positions

-----------------------------------------------------------------------------
(* Each step keeps the rings in order.                                     *)

LEMMA RingInit == DmaInit => RingInv
<1> SUFFICES ASSUME DmaInit PROVE RingInv
  OBVIOUS
<1>1. 0 \in Positions /\ RingSize \in Nat
  BY PcieDmaAssumption DEF Positions
<1>2. RingTypes
  BY <1>1 DEF DmaInit, RingTypes, Users, Channels, Positions
<1>3. UserHolds /\ PushInOrder /\ PullInOrder
  BY DEF DmaInit, UserHolds, PushInOrder, PullInOrder, Channels
<1> QED
  BY <1>2, <1>3 DEF RingInv

\* What is in force of one channel.
LEMMA RingFacts ==
    ASSUME RingTypes, NEW c \in Channels
    PROVE  /\ valid[c] \in BOOLEAN
           /\ hw[c] \in [pos : Positions, limit : Positions]
           /\ hw[c].pos \in Positions /\ hw[c].limit \in Positions
           /\ ptr[c] \in [mine : Positions, theirs : Positions]
           /\ ptr[c].mine \in Positions /\ ptr[c].theirs \in Positions
           /\ count[c] \in [in : Nat, out : Nat]
           /\ count[c].in \in Nat /\ count[c].out \in Nat
           /\ ring[c] \in [Positions -> Nat]
           /\ user.n \in Nat /\ user.ch \in Channels /\ Unacked(c) \in Nat
           /\ InRing(c) \in Int
           /\ RingSize \in Nat \ {0, 1} /\ 0 \in Positions /\ 1 \in Positions
<1>1. /\ valid[c] \in BOOLEAN
      /\ hw[c] \in [pos : Positions, limit : Positions]
      /\ ptr[c] \in [mine : Positions, theirs : Positions]
      /\ count[c] \in [in : Nat, out : Nat]
      /\ ring[c] \in [Positions -> Nat]
      /\ user.n \in Nat /\ user.ch \in Channels
  BY DEF RingTypes, Users
<1>2. count[c].in \in Nat /\ count[c].out \in Nat
  BY <1>1
<1>3. Unacked(c) \in Nat /\ InRing(c) \in Int
  BY <1>1, <1>2 DEF Unacked, InRing
<1> QED
  <2>1. RingSize \in Nat \ {0, 1} /\ 0 \in Positions /\ 1 \in Positions
    BY PcieDmaAssumption DEF Positions
  <2>2. /\ hw[c].pos \in Positions /\ hw[c].limit \in Positions
        /\ ptr[c].mine \in Positions /\ ptr[c].theirs \in Positions
    BY <1>1
  <2> QED
    BY <1>1, <1>2, <1>3, <2>1, <2>2

\* A channel that a step leaves alone stays in order.
LEMMA PushSame ==
    ASSUME PushInOrder, valid'["push"] = valid["push"], hw'["push"] = hw["push"],
           ptr'["push"] = ptr["push"], count'["push"] = count["push"],
           ring'["push"] = ring["push"], Unacked("push")' = Unacked("push")
    PROVE  PushInOrder'
<1>1. InRing("push")' = InRing("push")
  BY DEF InRing
<1> QED
  BY <1>1 DEF PushInOrder

LEMMA PullSame ==
    ASSUME PullInOrder, valid'["pull"] = valid["pull"], hw'["pull"] = hw["pull"],
           ptr'["pull"] = ptr["pull"], count'["pull"] = count["pull"],
           ring'["pull"] = ring["pull"], Unacked("pull")' = Unacked("pull")
    PROVE  PullInOrder'
<1>1. InRing("pull")' = InRing("pull")
  BY DEF InRing
<1> QED
  BY <1>1 DEF PullInOrder

\* Steps that only move the user on, or nothing of the rings.
LEMMA RingStill ==
    ASSUME RingInv, UNCHANGED <<valid, hw, ptr, count, ring>>, user' \in Users,
           user' = user \/ (user.pc # "ack" /\ user'.pc \notin {"use", "ack"})
    PROVE  RingInv'
<1>1. RingTypes'
  BY DEF RingInv, RingTypes, Users
<1>2. \A c \in Channels : Unacked(c)' = Unacked(c)
  BY DEF Unacked
<1>3. UserHolds'
  BY DEF RingInv, UserHolds
<1>4. PushInOrder' /\ PullInOrder'
  BY <1>2, PushSame, PullSame DEF RingInv, Channels
<1> QED
  BY <1>1, <1>3, <1>4 DEF RingInv

\* The worker tells the IP where the user's pointer is.
LEMMA RingPoll == RingInv /\ Poll => RingInv'
<1> SUFFICES ASSUME RingInv, Poll PROVE RingInv'
  OBVIOUS
<1>1. UNCHANGED <<valid, ptr, count, ring, user>>
  BY DEF Poll, userVars
<1>2. ASSUME NEW c \in Channels
      PROVE  hw'[c] = hw[c] \/ hw'[c] = [hw[c] EXCEPT !.limit = ptr[c].mine]
  BY <1>2 DEF Poll, ChannelUpdate
<1>3. hw' = [c \in Channels |-> hw'[c]]
  <2>1. CASE idle
    <3>1. hw' = [c \in Channels |-> ChannelUpdate(c).hw]
      BY <2>1 DEF Poll
    <3> QED
      BY <3>1
  <2>2. CASE ~idle
    BY <2>2 DEF Poll, RingInv, RingTypes
  <2> QED
    BY <2>1, <2>2
<1>4. ASSUME NEW c \in Channels
      PROVE  /\ hw'[c] \in [pos : Positions, limit : Positions]
             /\ hw'[c].pos = hw[c].pos
             /\ hw'[c].limit = hw[c].limit \/ hw'[c].limit = ptr[c].mine
  <2>1. hw[c] \in [pos : Positions, limit : Positions] /\ ptr[c].mine \in Positions
    BY RingFacts DEF RingInv
  <2>2. CASE hw'[c] = hw[c]
    BY <2>1, <2>2
  <2>3. CASE hw'[c] = [hw[c] EXCEPT !.limit = ptr[c].mine]
    BY <2>1, <2>3
  <2> QED
    BY <1>2, <2>2, <2>3
<1>5. RingTypes'
  <2>1. hw' \in [Channels -> [pos : Positions, limit : Positions]]
    BY <1>3, <1>4
  <2> QED
    BY <1>1, <2>1 DEF RingInv, RingTypes
<1>6. \A c \in Channels : Unacked(c)' = Unacked(c) /\ InRing(c)' = InRing(c)
  BY <1>1 DEF Unacked, InRing
<1>7. UserHolds'
  BY <1>1, <1>4 DEF RingInv, UserHolds, RingTypes, Users
<1>8. PushInOrder'
  <2>1. "push" \in Channels
    BY DEF Channels
  <2>2. ptr["push"].mine \in Positions /\ hw["push"].pos \in Positions
    BY <2>1, RingFacts DEF RingInv
  <2>3. Gap(hw["push"].pos, ptr["push"].mine) <= Gap(hw["push"].pos, ptr["push"].mine)
    BY <2>2, GapFacts
  <2> QED
    BY <1>1, <1>4, <1>6, <2>1, <2>3 DEF RingInv, PushInOrder
<1>9. PullInOrder'
  <2>1. "pull" \in Channels
    BY DEF Channels
  <2>2. ptr["pull"].mine \in Positions /\ hw["pull"].pos \in Positions
    BY <2>1, RingFacts DEF RingInv
  <2>3. Gap(ptr["pull"].mine, hw["pull"].pos) <= Gap(ptr["pull"].mine, hw["pull"].pos)
    BY <2>2, GapFacts
  <2> QED
    BY <1>1, <1>4, <1>6, <2>1, <2>3 DEF RingInv, PullInOrder
<1> QED
  BY <1>5, <1>7, <1>8, <1>9 DEF RingInv

\* A channel that is opened starts with an empty ring at word 0.
LEMMA RingCreate ==
    ASSUME RingInv, NEW c \in Channels, CreateHostchannel(c)
    PROVE  RingInv'
<1>1. /\ hw' = [hw EXCEPT ![c] = [pos |-> 0, limit |-> 0]]
      /\ valid' = [valid EXCEPT ![c] = TRUE]
      /\ ptr' = [ptr EXCEPT ![c] = [mine |-> 0, theirs |-> 0]]
      /\ count' = [count EXCEPT ![c] = [in |-> 0, out |-> 0]]
      /\ UNCHANGED <<ring, user>> /\ user.pc = "out"
  BY DEF CreateHostchannel, HostchCreate
<1>2. 0 \in Positions /\ 1 \in Positions
  BY RingFacts DEF RingInv
<1>3. RingTypes'
  BY <1>1, <1>2 DEF RingInv, RingTypes
<1>4. UserHolds'
  BY <1>1 DEF UserHolds
<1>5. \A d \in Channels : Unacked(d) = 0 /\ Unacked(d)' = 0
  BY <1>1 DEF Unacked
<1>6. ASSUME NEW d \in Channels, d # c
      PROVE  /\ valid'[d] = valid[d] /\ hw'[d] = hw[d] /\ ptr'[d] = ptr[d]
             /\ count'[d] = count[d] /\ ring'[d] = ring[d]
  BY <1>1, <1>6 DEF RingInv, RingTypes
<1>7. /\ hw'[c].pos = 0 /\ hw'[c].limit = 0 /\ ptr'[c].mine = 0 /\ ptr'[c].theirs = 0
      /\ InRing(c)' = 0 /\ Gap(0, 0) = 0
  BY <1>1, <1>2, GapFacts DEF RingInv, RingTypes, InRing
<1>8. PushInOrder'
  <2>1. CASE c = "push"
    <3>1. \A d \in Positions : ~(d < 0)
      BY DEF Positions
    <3> QED
      BY <1>5, <1>7, <2>1, <3>1 DEF PushInOrder, Channels
  <2>2. CASE c # "push"
    BY <1>5, <1>6, <2>2, PushSame DEF RingInv, Channels
  <2> QED
    BY <2>1, <2>2
<1>9. PullInOrder'
  <2>1. CASE c = "pull"
    <3>1. \A d \in Positions : ~(d < 0)
      BY DEF Positions
    <3> QED
      BY <1>5, <1>7, <2>1, <3>1 DEF PullInOrder, Channels
  <2>2. CASE c # "pull"
    BY <1>5, <1>6, <2>2, PullSame DEF RingInv, Channels
  <2> QED
    BY <2>1, <2>2
<1> QED
  BY <1>3, <1>4, <1>8, <1>9 DEF RingInv

LEMMA RingDestroy ==
    ASSUME RingInv, NEW c \in Channels, DestroyHostchannel(c)
    PROVE  RingInv'
<1>1. /\ valid' = [valid EXCEPT ![c] = FALSE]
      /\ user.pc = "out" /\ user' = [user EXCEPT !.pc = "drain"]
      /\ UNCHANGED <<hw, ptr, count, ring>>
  BY DEF DestroyHostchannel
<1>2. user' \in Users /\ user'.pc = "drain"
  BY <1>1 DEF RingInv, RingTypes, Users
<1>3. RingTypes'
  BY <1>1, <1>2 DEF RingInv, RingTypes, Users
<1>4. UserHolds'
  BY <1>2 DEF UserHolds
<1>5. \A d \in Channels : Unacked(d) = 0 /\ Unacked(d)' = 0
  BY <1>1, <1>2 DEF Unacked
<1>6. ~valid'[c] /\ \A d \in Channels : d # c => valid'[d] = valid[d]
  BY <1>1 DEF RingInv, RingTypes
<1>7. PushInOrder'
  <2>1. CASE c = "push"
    BY <1>6, <2>1 DEF PushInOrder
  <2>2. CASE c # "push"
    BY <1>1, <1>5, <1>6, <2>2, PushSame DEF RingInv, Channels
  <2> QED
    BY <2>1, <2>2
<1>8. PullInOrder'
  <2>1. CASE c = "pull"
    BY <1>6, <2>1 DEF PullInOrder
  <2>2. CASE c # "pull"
    BY <1>1, <1>5, <1>6, <2>2, PullSame DEF RingInv, Channels
  <2> QED
    BY <2>1, <2>2
<1> QED
  BY <1>3, <1>4, <1>7, <1>8 DEF RingInv

\* How much get_buffer hands out, in terms of the distance of the pointers.
LEMMA AvailIs ==
    ASSUME RingInv, NEW c \in Channels, valid[c]
    PROVE  /\ Avail(c) = IF c = "push" THEN RingSize - Gap(hw[c].pos, ptr[c].mine) - 1
                         ELSE Gap(ptr[c].mine, hw[c].pos)
           /\ Avail(c) \in Nat
<1>1. ptr[c].theirs = hw[c].pos
  BY DEF RingInv, PushInOrder, PullInOrder, Channels
<1> DEFINE p == hw[c].pos
           m == ptr[c].mine
<1>2. p \in Positions /\ m \in Positions /\ RingSize \in Nat \ {0, 1}
  BY RingFacts DEF RingInv
<1> HIDE DEF p, m
<1>3. c = "push" => Avail(c) = RingSize - Gap(p, m) - 1
  BY <1>1, <1>2 DEF Avail, Gap, Positions, p, m
<1>4. c # "push" => Avail(c) = Gap(m, p)
  BY <1>1, <1>2 DEF Avail, Gap, Positions, p, m
<1>5. Avail(c) \in Nat
  BY <1>2, <1>3, <1>4, GapFacts
<1> QED
  BY <1>3, <1>4, <1>5 DEF p, m

LEMMA RingGetBuffer ==
    ASSUME RingInv, NEW c \in Channels, GetBuffer(c)
    PROVE  RingInv'
<1>1. /\ user.pc = "out" /\ valid[c]
      /\ UNCHANGED <<valid, hw, ptr, count, ring>>
  BY DEF GetBuffer, chVars
<1>2. CASE Avail(c) > 0
  <2> DEFINE n == Contiguous(c, Avail(c))
  <2>1. user' = [pc |-> "use", ch |-> c, n |-> n, blocked |-> "no"]
    BY <1>2 DEF GetBuffer
  <2>2. /\ ptr[c].mine \in Positions /\ hw[c].pos \in Positions /\ RingSize \in Nat \ {0, 1}
        /\ Gap(hw[c].pos, ptr[c].mine) \in Nat /\ Gap(ptr[c].mine, hw[c].pos) \in Nat
    BY RingFacts, GapFacts DEF RingInv
  <2>3. Avail(c) \in Nat /\ RingSize - ptr[c].mine \in Nat \ {0}
    BY <1>1, <2>2, AvailIs DEF Positions
  <2>4. n \in Nat \ {0} /\ n <= Avail(c) /\ n <= RingSize - ptr[c].mine
    BY <1>2, <2>3 DEF Contiguous, Lesser
  <2> HIDE DEF n
  <2>5. RingTypes'
    BY <1>1, <2>1, <2>4 DEF RingInv, RingTypes, Users
  <2>6. UserHolds'
    <3>1. ptr[c].mine + n <= RingSize
      BY <2>2, <2>4 DEF Positions
    <3>2. c = "push" => Gap(hw[c].pos, ptr[c].mine) + n <= RingSize - 1
      BY <1>1, <2>2, <2>3, <2>4, AvailIs
    <3>3. c = "pull" => n <= Gap(ptr[c].mine, hw[c].pos)
      BY <1>1, <2>4, AvailIs
    <3> QED
      BY <1>1, <2>1, <2>4, <3>1, <3>2, <3>3 DEF UserHolds
  <2>7. \A d \in Channels : Unacked(d)' = Unacked(d)
    BY <1>1, <2>1 DEF Unacked
  <2> QED
    BY <1>1, <2>5, <2>6, <2>7, PushSame, PullSame DEF RingInv, Channels
<1>3. CASE ~(Avail(c) > 0)
  <2>1. user' = [pc |-> "sync", ch |-> c, n |-> 0, blocked |-> c]
    BY <1>3 DEF GetBuffer
  <2>2. user' \in Users /\ user'.pc = "sync"
    BY <2>1 DEF Users
  <2> QED
    BY <1>1, <2>2, RingStill
<1> QED
  BY <1>2, <1>3

\* Words written or read are behind those already there.
LEMMA RingUseBuffer == RingInv /\ UseBuffer => RingInv'
<1>0. SUFFICES ASSUME RingInv, UseBuffer, NEW c \in Channels, user.ch = c PROVE RingInv'
  BY DEF RingInv, RingTypes, Users
<1> DEFINE mine == ptr[c].mine
           pos == hw[c].pos
           Written(x, n) == [w \in 0 .. RingSize - 1 |->
                               IF w \in ptr[x].mine + 1 - 1 .. ptr[x].mine + n - 1
                               THEN count[x].in + w - (ptr[x].mine + 0 - 1) ELSE ring[x][w]]
           Counted(x, n) == IF x = "push" THEN [count EXCEPT ![x].in = @ + n]
                            ELSE [count EXCEPT ![x].out = @ + n]
<1>1. user.pc = "use" /\ UNCHANGED <<valid, hw, ptr>> /\ user.ch = c
  BY <1>0 DEF UseBuffer, chVars
<1>11. PICK n \in 1 .. user.n :
         /\ user' = [user EXCEPT !.pc = "ack", !.n = n]
         /\ ring' = IF user.ch = "pull" THEN ring
                    ELSE [ring EXCEPT ![user.ch] = [w \in 0 .. RingSize - 1 |->
                            IF w \in ptr[user.ch].mine + 1 - 1 .. ptr[user.ch].mine + n - 1
                            THEN count[user.ch].in + w - (ptr[user.ch].mine + 0 - 1)
                            ELSE @[w]]]
         /\ count' = IF user.ch = "push" THEN [count EXCEPT ![user.ch].in = @ + n]
                     ELSE [count EXCEPT ![user.ch].out = @ + n]
  BY <1>0 DEF UseBuffer
<1>2. /\ n \in 1 .. user.n
      /\ user' = [user EXCEPT !.pc = "ack", !.n = n]
      /\ ring' = IF c = "pull" THEN ring ELSE [ring EXCEPT ![c] = Written(c, n)]
      /\ count' = Counted(c, n)
  <2>1. n \in 1 .. user.n /\ user' = [user EXCEPT !.pc = "ack", !.n = n]
    BY <1>11
  <2>2. ring' = IF user.ch = "pull" THEN ring
                ELSE [ring EXCEPT ![user.ch] = Written(user.ch, n)]
    BY <1>11
  <2>3. count' = Counted(user.ch, n)
    BY <1>11
  <2> HIDE DEF Written, Counted
  <2> QED
    BY <1>1, <2>1, <2>2, <2>3
<1>3. /\ c \in Channels /\ mine \in Positions /\ pos \in Positions
      /\ count[c].in \in Nat /\ count[c].out \in Nat /\ ring[c] \in [Positions -> Nat]
      /\ RingSize \in Nat \ {0, 1} /\ user.n \in Nat /\ n \in Nat \ {0} /\ n <= user.n
      /\ Gap(pos, mine) \in Positions /\ Gap(mine, pos) \in Positions
  <2>1. c \in Channels /\ user.n \in Nat
    BY <1>0 DEF RingInv, RingTypes, Users
  <2>2. n \in Nat \ {0} /\ n <= user.n
    BY <1>2, <2>1
  <2>3. /\ mine \in Positions /\ pos \in Positions /\ RingSize \in Nat \ {0, 1}
        /\ count[c].in \in Nat /\ count[c].out \in Nat /\ ring[c] \in [Positions -> Nat]
    BY <1>0, <2>1, RingFacts DEF RingInv
  <2> HIDE DEF mine, pos
  <2>4. Gap(pos, mine) \in Positions /\ Gap(mine, pos) \in Positions
    BY <2>3, GapFacts
  <2> QED
    BY <2>1, <2>2, <2>3, <2>4
<1>4. /\ valid[c] /\ mine + n <= RingSize
      /\ c = "push" => Gap(pos, mine) + n <= RingSize - 1
      /\ c = "pull" => n <= Gap(mine, pos)
  <2>1. /\ valid[c] /\ mine + user.n <= RingSize
        /\ c = "push" => Gap(pos, mine) + user.n <= RingSize - 1
        /\ c = "pull" => user.n <= Gap(mine, pos)
    BY <1>0, <1>1 DEF RingInv, UserHolds
  <2> HIDE DEF mine, pos
  <2>2. mine \in Nat /\ Gap(pos, mine) \in Nat /\ Gap(mine, pos) \in Nat
    BY <1>3 DEF Positions
  <2> QED
    BY <1>3, <2>1, <2>2
<1>5. /\ user' \in Users /\ user'.pc = "ack" /\ user'.ch = c /\ user'.n = n
      /\ \A d \in Channels : Unacked(d) = 0
      /\ \A d \in Channels : Unacked(d)' = IF d = c THEN n ELSE 0
  <2>1. user' \in Users /\ user'.pc = "ack" /\ user'.ch = c /\ user'.n = n
    BY <1>0, <1>2, <1>3 DEF RingInv, RingTypes, Users
  <2> QED
    BY <1>1, <2>1 DEF Unacked
<1>6. \A d \in Channels : d # c => count'[d] = count[d] /\ ring'[d] = ring[d]
  BY <1>0, <1>2, <1>3 DEF RingInv, RingTypes
<1>7. UserHolds'
  BY <1>1, <1>3, <1>4, <1>5 DEF UserHolds
<1>8. CASE c = "push"
  <2>1. /\ count' \in [Channels -> [in : Nat, out : Nat]]
        /\ count'[c].in = count[c].in + n /\ count'[c].out = count[c].out
    <3>1. count' = [count EXCEPT ![c].in = @ + n]
      BY <1>2, <1>8
    <3>2. count \in [Channels -> [in : Nat, out : Nat]]
      BY <1>0 DEF RingInv, RingTypes
    <3>3. count[c] \in [in : Nat, out : Nat] /\ count'[c] = [count[c] EXCEPT !.in = count[c].in + n]
      BY <1>3, <3>1, <3>2
    <3>4. [count[c] EXCEPT !.in = count[c].in + n] \in [in : Nat, out : Nat]
      BY <1>3, <3>3
    <3> QED
      BY <1>3, <3>1, <3>2, <3>3, <3>4
  <2>2. /\ ring' \in [Channels -> [Positions -> Nat]]
        /\ \A w \in Positions : ring'[c][w] = IF mine <= w /\ w < mine + n
                                              THEN count[c].in + (w - mine) + 1 ELSE ring[c][w]
    <3> DEFINE new == Written(c, n)
    <3>1. ring' = [ring EXCEPT ![c] = new]
      BY <1>2, <1>8
    <3>2. ASSUME NEW w \in Positions
          PROVE  /\ new[w] = IF mine <= w /\ w < mine + n
                             THEN count[c].in + (w - mine) + 1 ELSE ring[c][w]
                 /\ new[w] \in Nat
      <4> HIDE DEF mine
      <4>1. w \in 0 .. RingSize - 1 /\ w \in Nat /\ mine \in Nat /\ ring[c][w] \in Nat
        <5>1. w \in 0 .. RingSize - 1 /\ w \in Nat /\ mine \in Nat
          BY <1>3, <3>2 DEF Positions
        <5>2. ring[c][w] \in Nat
          BY <1>3, <3>2
        <5> QED
          BY <5>1, <5>2
      <4>2. new[w] = IF w \in mine + 1 - 1 .. mine + n - 1
                     THEN count[c].in + w - (mine + 0 - 1) ELSE ring[c][w]
        BY <4>1 DEF mine
      <4>3. w \in mine + 1 - 1 .. mine + n - 1 <=> mine <= w /\ w < mine + n
        BY <1>3, <4>1
      <4>4. count[c].in + w - (mine + 0 - 1) = count[c].in + (w - mine) + 1
        BY <1>3, <4>1
      <4>5. mine <= w => count[c].in + (w - mine) + 1 \in Nat
        BY <1>3, <4>1
      <4> QED
        BY <4>1, <4>2, <4>3, <4>4, <4>5
    <3>3. new \in [Positions -> Nat]
      BY <3>2 DEF Positions
    <3> HIDE DEF new
    <3>4. ring \in [Channels -> [Positions -> Nat]]
      BY <1>0 DEF RingInv, RingTypes
    <3>5. ring'[c] = new
      BY <1>3, <3>1, <3>4
    <3>6. ring' \in [Channels -> [Positions -> Nat]]
      BY <3>1, <3>3, <3>4
    <3> QED
      BY <3>2, <3>5, <3>6
  <2>3. RingTypes'
    BY <1>0, <1>1, <1>5, <2>1, <2>2 DEF RingInv, RingTypes
  <2>4. PullInOrder'
    BY <1>0, <1>1, <1>5, <1>6, <1>8, PullSame DEF RingInv, Channels
  <2>5. PushInOrder'
    <3> DEFINE gap == Gap(pos, mine)
    <3>1. /\ ptr[c].theirs = pos /\ Gap(pos, hw[c].limit) <= gap
          /\ count[c].in - count[c].out = gap
          /\ \A d \in Positions : d < gap => ring[c][Onward(pos, d)] = count[c].out + d + 1
      <4>1. InRing(c) = count[c].in - count[c].out /\ InRing(c) = gap + 0
        BY <1>0, <1>4, <1>5, <1>8 DEF RingInv, PushInOrder, InRing, Channels
      <4>2. gap + 0 = gap
        BY <1>3 DEF Positions
      <4> QED
        BY <1>0, <1>4, <1>8, <4>1, <4>2 DEF RingInv, PushInOrder
    <3> HIDE DEF gap, pos, mine
    <3>2. gap \in Nat /\ gap + n <= RingSize - 1 /\ Onward(pos, gap) = mine
      BY <1>3, <1>4, <1>8, GapFacts DEF gap, Positions
    <3>3. InRing(c)' = gap + n
      <4>1. InRing(c)' = count'[c].in - count'[c].out
        BY <1>1, <1>2, <1>5 DEF InRing
      <4> QED
        BY <1>3, <2>1, <3>1, <3>2, <4>1
    <3>4. ASSUME NEW d \in Positions, d < gap + n
          PROVE  ring'[c][Onward(pos, d)] = count[c].out + d + 1
      <4>1. Onward(pos, d) \in Positions /\ d \in Nat
        BY <1>3, <3>4, OnwardFacts DEF Positions
      <4>2. CASE d < gap
        <5>1. ~(mine <= Onward(pos, d) /\ Onward(pos, d) < mine + n)
          BY <1>3, <1>4, <3>2, <4>1, <4>2 DEF Onward, Positions
        <5>2. ring'[c][Onward(pos, d)] = ring[c][Onward(pos, d)]
          BY <2>2, <4>1, <5>1
        <5> QED
          BY <3>1, <4>2, <5>2
      <4>3. CASE gap <= d
        <5>1. Onward(pos, d) = mine + (d - gap)
          BY <1>3, <1>4, <3>2, <3>4, <4>1, <4>3 DEF Onward, Positions
        <5>2. mine <= Onward(pos, d) /\ Onward(pos, d) < mine + n
              /\ Onward(pos, d) - mine = d - gap
          BY <1>3, <3>2, <3>4, <4>1, <4>3, <5>1 DEF Positions
        <5>3. ring'[c][Onward(pos, d)] = count[c].in + (d - gap) + 1
          BY <2>2, <4>1, <5>2
        <5> QED
          BY <1>3, <3>1, <3>2, <4>1, <5>3
      <4> QED
        BY <3>2, <4>1, <4>2, <4>3
    <3>5. /\ ptr'[c].theirs = hw'[c].pos /\ hw'[c].pos = pos /\ ptr'[c].mine = mine
          /\ hw'[c].limit = hw[c].limit
      BY <1>1, <3>1 DEF pos, mine
    <3>6. c = "push" /\ Unacked(c)' = n
      BY <1>3, <1>5, <1>8
    <3>7. Gap(hw'[c].pos, ptr'[c].mine) = gap
      BY <3>5 DEF gap
    <3> QED
      BY <2>1, <3>1, <3>3, <3>4, <3>5, <3>6, <3>7 DEF PushInOrder
  <2> QED
    BY <1>7, <2>3, <2>4, <2>5 DEF RingInv
<1>9. CASE c = "pull"
  <2>1. /\ count' \in [Channels -> [in : Nat, out : Nat]]
        /\ count'[c].in = count[c].in /\ count'[c].out = count[c].out + n
        /\ ring' = ring
    <3>1. count' = [count EXCEPT ![c].out = @ + n] /\ ring' = ring
      BY <1>2, <1>9
    <3>2. count \in [Channels -> [in : Nat, out : Nat]]
      BY <1>0 DEF RingInv, RingTypes
    <3>3. count[c] \in [in : Nat, out : Nat] /\ count'[c] = [count[c] EXCEPT !.out = count[c].out + n]
      BY <1>3, <3>1, <3>2
    <3>4. [count[c] EXCEPT !.out = count[c].out + n] \in [in : Nat, out : Nat]
      BY <1>3, <3>3
    <3> QED
      BY <1>3, <3>1, <3>2, <3>3, <3>4
  <2>2. RingTypes'
    BY <1>0, <1>1, <1>5, <2>1 DEF RingInv, RingTypes
  <2>3. PushInOrder'
    BY <1>0, <1>1, <1>5, <1>6, <1>9, PushSame DEF RingInv, Channels
  <2>4. PullInOrder'
    <3> DEFINE gap == Gap(mine, pos)
    <3>1. /\ ptr[c].theirs = pos /\ gap <= Gap(hw[c].limit, pos)
          /\ count[c].in - count[c].out + 0 = gap
          /\ \A d \in Positions : d < gap =>
                ring[c][Onward(mine, d)] = count[c].out - 0 + d + 1
      BY <1>0, <1>3, <1>4, <1>5, <1>9 DEF RingInv, PullInOrder, InRing
    <3> HIDE DEF gap, pos, mine
    <3>2. InRing(c)' + n = gap
      <4>1. InRing(c)' = count'[c].in - count'[c].out
        BY <1>1, <1>2, <1>5 DEF InRing
      <4> QED
        BY <1>3, <2>1, <3>1, <4>1
    <3>3. count'[c].out - n = count[c].out /\ count[c].out - 0 = count[c].out
      BY <1>3, <2>1
    <3>4. /\ ptr'[c].theirs = hw'[c].pos /\ hw'[c].pos = pos /\ ptr'[c].mine = mine
          /\ hw'[c].limit = hw[c].limit
      BY <1>1, <3>1 DEF pos, mine
    <3>5. c = "pull" /\ Unacked(c)' = n
      BY <1>3, <1>5, <1>9
    <3> QED
      BY <2>1, <3>1, <3>2, <3>3, <3>4, <3>5 DEF PullInOrder, gap
  <2> QED
    BY <1>7, <2>2, <2>3, <2>4 DEF RingInv
<1> QED
  BY <1>3, <1>8, <1>9 DEF Channels

\* The words that the user acknowledges pass to the other side.
LEMMA RingAckBuffer == RingInv /\ AckBuffer => RingInv'
<1>0. SUFFICES ASSUME RingInv, AckBuffer, NEW c \in Channels, user.ch = c PROVE RingInv'
  BY DEF RingInv, RingTypes, Users
<1> DEFINE mine == ptr[c].mine
           pos == hw[c].pos
           n == user.n
           new == Onward(mine, n)
<1>1. /\ user.pc = "ack" /\ user.ch = c /\ UNCHANGED <<valid, hw, count, ring>>
      /\ user' = [user EXCEPT !.pc = "sync"]
      /\ ptr' = [ptr EXCEPT ![c].mine = Advanced(c, Lesser(n, Avail(c)))]
  BY <1>0 DEF AckBuffer, chVars
<1>2. /\ mine \in Positions /\ pos \in Positions /\ n \in Nat /\ hw[c].limit \in Positions
      /\ RingSize \in Nat \ {0, 1} /\ count[c].in \in Nat /\ count[c].out \in Nat
  BY <1>0, RingFacts DEF RingInv
<1>3. /\ valid[c] /\ n > 0 /\ mine + n <= RingSize
      /\ c = "push" => Gap(pos, mine) + n <= RingSize - 1
      /\ c = "pull" => n <= Gap(mine, pos)
  BY <1>0, <1>1 DEF RingInv, UserHolds
<1>4. /\ Avail(c) = IF c = "push" THEN RingSize - Gap(pos, mine) - 1 ELSE Gap(mine, pos)
  BY <1>0, <1>3, AvailIs
<1>5. /\ Unacked(c) = n
      /\ \A d \in Channels : Unacked(d)' = 0 /\ (d # c => Unacked(d) = 0)
  BY <1>1 DEF Unacked
<1>6. /\ user' \in Users /\ user'.pc = "sync"
  BY <1>0, <1>1 DEF RingInv, RingTypes, Users
<1>7. UserHolds'
  BY <1>6 DEF UserHolds
<1> HIDE DEF mine, pos, n
<1>8. /\ Gap(pos, mine) \in Nat /\ Gap(pos, mine) <= RingSize - 1
      /\ Gap(mine, pos) \in Nat /\ Gap(mine, pos) <= RingSize - 1
  BY <1>2, GapFacts
<1>9. n \in Positions /\ Lesser(n, Avail(c)) = n /\ new \in Positions
  <2>1. n \in Positions
    BY <1>2, <1>3, <1>8 DEF Positions, Channels
  <2>2. n <= Avail(c) /\ Avail(c) \in Int
    BY <1>2, <1>3, <1>4, <1>8 DEF Channels
  <2> QED
    BY <1>2, <2>1, <2>2, OnwardFacts DEF Lesser
<1>10. Advanced(c, n) = new
  BY <1>2, <1>3 DEF Advanced, Onward, mine, Positions
<1> HIDE DEF new
<1>11. /\ ptr' \in [Channels -> [mine : Positions, theirs : Positions]]
       /\ ptr'[c].mine = new /\ ptr'[c].theirs = ptr[c].theirs
       /\ \A d \in Channels : d # c => ptr'[d] = ptr[d]
  <2>1. ptr \in [Channels -> [mine : Positions, theirs : Positions]]
    BY <1>0 DEF RingInv, RingTypes
  <2>2. ptr' = [ptr EXCEPT ![c].mine = new]
    BY <1>1, <1>9, <1>10
  <2> QED
    BY <1>9, <2>1, <2>2
<1>12. RingTypes'
  BY <1>0, <1>1, <1>6, <1>11 DEF RingInv, RingTypes
<1>13. InRing(c)' = InRing(c) /\ InRing(c) = count[c].in - count[c].out
  BY <1>1 DEF InRing
<1>14. hw'[c] = hw[c] /\ hw'[c].pos = pos
  BY <1>1 DEF pos
<1>15. CASE c = "push"
  <2>1. PullInOrder'
    BY <1>0, <1>1, <1>5, <1>11, <1>15, PullSame DEF RingInv, Channels
  <2>2. /\ ptr[c].theirs = pos /\ Gap(pos, hw[c].limit) <= Gap(pos, mine)
        /\ InRing(c) = Gap(pos, mine) + n
        /\ \A d \in Positions : d < InRing(c) => ring[c][Onward(pos, d)] = count[c].out + d + 1
    BY <1>0, <1>3, <1>5, <1>15 DEF RingInv, PushInOrder, pos, mine
  <2>3. Gap(pos, new) = Gap(pos, mine) + n
    BY <1>2, <1>3, <1>9, <1>15, GapMoves DEF new
  <2>4. Gap(pos, hw[c].limit) \in Nat /\ Gap(pos, new) \in Nat
    BY <1>2, <1>9, GapFacts
  <2>5. Gap(pos, hw[c].limit) <= Gap(pos, new) /\ InRing(c) = Gap(pos, new) + 0
    BY <1>2, <1>8, <2>2, <2>3, <2>4
  <2>6. PushInOrder'
    BY <1>1, <1>5, <1>11, <1>13, <1>14, <1>15, <2>2, <2>5 DEF PushInOrder
  <2> QED
    BY <1>7, <1>12, <2>1, <2>6 DEF RingInv
<1>16. CASE c = "pull"
  <2>1. PushInOrder'
    BY <1>0, <1>1, <1>5, <1>11, <1>16, PushSame DEF RingInv, Channels
  <2>2. /\ ptr[c].theirs = pos /\ Gap(mine, pos) <= Gap(hw[c].limit, pos)
        /\ InRing(c) + n = Gap(mine, pos)
        /\ \A d \in Positions : d < Gap(mine, pos) =>
              ring[c][Onward(mine, d)] = count[c].out - n + d + 1
    BY <1>0, <1>3, <1>5, <1>16 DEF RingInv, PullInOrder, pos, mine
  <2>3. Gap(new, pos) = Gap(mine, pos) - n
    BY <1>2, <1>3, <1>9, <1>16, GapMoves DEF new
  <2>4. Gap(hw[c].limit, pos) \in Nat /\ Gap(new, pos) \in Nat
    BY <1>2, <1>9, GapFacts
  <2>5. Gap(new, pos) <= Gap(hw[c].limit, pos) /\ InRing(c) + 0 = Gap(new, pos)
    BY <1>2, <1>8, <1>13, <2>2, <2>3, <2>4
  <2>6. ASSUME NEW d \in Positions, d < Gap(new, pos)
        PROVE  ring[c][Onward(new, d)] = count[c].out - 0 + d + 1
    <3>1. d \in Nat /\ n + d < Gap(mine, pos) /\ n + d <= RingSize - 1 /\ n + d \in Positions
      BY <1>2, <1>8, <2>3, <2>6 DEF Positions
    <3>2. Onward(new, d) = Onward(mine, n + d)
      BY <1>2, <1>9, <3>1, OnwardFacts DEF new
    <3>3. ring[c][Onward(mine, n + d)] = count[c].out - n + (n + d) + 1
      BY <2>2, <3>1
    <3> QED
      BY <1>2, <3>1, <3>2, <3>3
  <2>7. PullInOrder'
    BY <1>1, <1>5, <1>11, <1>13, <1>14, <1>16, <2>2, <2>5, <2>6 DEF PullInOrder
  <2> QED
    BY <1>7, <1>12, <2>1, <2>7 DEF RingInv
<1> QED
  BY <1>0, <1>15, <1>16 DEF Channels

\* The IP takes a word of the push ring.
LEMMA RingIpPush == RingInv /\ IpPush => RingInv'
<1>0. SUFFICES ASSUME RingInv, IpPush PROVE RingInv'
  OBVIOUS
<1> DEFINE c == "push"
           mine == ptr[c].mine
           pos == hw[c].pos
           limit == hw[c].limit
           new == Onward(pos, 1)
<1>1. /\ valid[c] /\ pos # limit /\ UNCHANGED <<valid, ring, user>>
      /\ hw' = [hw EXCEPT ![c].pos = (@ + 1) % RingSize]
      /\ ptr' = [ptr EXCEPT ![c].theirs = hw'[c].pos]
      /\ count' = [count EXCEPT ![c].out = @ + 1]
  BY <1>0 DEF IpPush
<1>2. /\ c \in Channels /\ mine \in Positions /\ pos \in Positions /\ limit \in Positions
      /\ 1 \in Positions /\ RingSize \in Nat \ {0, 1}
      /\ count[c].in \in Nat /\ count[c].out \in Nat /\ Unacked(c) \in Nat
  <2>1. c \in Channels
    BY DEF Channels
  <2> QED
    BY <1>0, <2>1, RingFacts DEF RingInv
<1> HIDE DEF c
<1>3. (pos + 1) % RingSize = new
  BY <1>2, RingRemainders
<1>4. new \in Positions
  BY <1>2, OnwardFacts
<1>5. /\ hw' \in [Channels -> [pos : Positions, limit : Positions]]
      /\ hw'[c].pos = new /\ hw'[c].limit = limit
      /\ \A d \in Channels : d # c => hw'[d] = hw[d]
  <2>1. hw \in [Channels -> [pos : Positions, limit : Positions]]
    BY <1>0 DEF RingInv, RingTypes
  <2>2. hw' = [hw EXCEPT ![c].pos = new]
    BY <1>1, <1>3
  <2> HIDE DEF new
  <2> QED
    BY <1>2, <1>4, <2>1, <2>2
<1>6. /\ ptr' \in [Channels -> [mine : Positions, theirs : Positions]]
      /\ ptr'[c].mine = mine /\ ptr'[c].theirs = new
      /\ \A d \in Channels : ptr'[d].mine = ptr[d].mine /\ (d # c => ptr'[d] = ptr[d])
  <2>1. ptr \in [Channels -> [mine : Positions, theirs : Positions]]
    BY <1>0 DEF RingInv, RingTypes
  <2>2. ptr' = [ptr EXCEPT ![c].theirs = new]
    BY <1>1, <1>5
  <2> HIDE DEF new
  <2> QED
    BY <1>2, <1>4, <2>1, <2>2
<1>7. /\ count' \in [Channels -> [in : Nat, out : Nat]]
      /\ count'[c].in = count[c].in /\ count'[c].out = count[c].out + 1
      /\ \A d \in Channels : d # c => count'[d] = count[d]
  <2>1. count \in [Channels -> [in : Nat, out : Nat]]
    BY <1>0 DEF RingInv, RingTypes
  <2>2. count[c].out + 1 \in Nat
    BY <1>2
  <2> QED
    BY <1>1, <1>2, <2>1, <2>2
<1>8. RingTypes'
  BY <1>0, <1>1, <1>5, <1>6, <1>7 DEF RingInv, RingTypes
<1>9. \A d \in Channels : Unacked(d)' = Unacked(d)
  BY <1>1 DEF Unacked
<1>10. PullInOrder'
  BY <1>0, <1>1, <1>5, <1>6, <1>7, <1>9, PullSame DEF RingInv, Channels, c
<1>11. /\ ptr[c].theirs = pos /\ Gap(pos, limit) <= Gap(pos, mine)
       /\ InRing(c) = Gap(pos, mine) + Unacked(c)
       /\ \A d \in Positions : d < InRing(c) => ring[c][Onward(pos, d)] = count[c].out + d + 1
  BY <1>0, <1>1 DEF RingInv, PushInOrder, c
<1>12. InRing(c) = count[c].in - count[c].out /\ InRing(c)' = count'[c].in - count'[c].out
  BY DEF InRing
<1>13. user.pc \in {"use", "ack"} /\ user.ch = c => Gap(pos, mine) + user.n <= RingSize - 1
  BY <1>0 DEF RingInv, UserHolds, c
<1>14. Unacked(c) # 0 => Gap(pos, mine) + Unacked(c) <= RingSize - 1
  BY <1>13 DEF Unacked
<1> HIDE DEF mine, pos, limit
<1>15. /\ Gap(pos, mine) \in Nat /\ Gap(pos, limit) \in Nat /\ Gap(pos, limit) # 0
       /\ Gap(pos, mine) <= RingSize - 1
  BY <1>1, <1>2, GapFacts DEF pos, limit, mine
<1>16. InRing(c) \in Nat /\ InRing(c) <= RingSize - 1 /\ 1 <= Gap(pos, limit) /\ 1 <= Gap(pos, mine)
  BY <1>2, <1>11, <1>14, <1>15
<1>17. Gap(new, mine) = Gap(pos, mine) - 1 /\ Gap(new, limit) = Gap(pos, limit) - 1
  BY <1>2, <1>16, GapMoves
<1>18. UserHolds'
  <2>1. SUFFICES ASSUME user.pc \in {"use", "ack"}
                 PROVE  /\ valid[user.ch] /\ user.n > 0 /\ ptr'[user.ch].mine + user.n <= RingSize
                        /\ user.ch = "push" => Gap(hw'[user.ch].pos, ptr'[user.ch].mine) + user.n
                                               <= RingSize - 1
                        /\ user.ch = "pull" => user.n <= Gap(ptr'[user.ch].mine, hw'[user.ch].pos)
    BY <1>1 DEF UserHolds
  <2>2. user.ch \in Channels /\ user.n \in Nat
    BY <1>0 DEF RingInv, RingTypes, Users
  <2>3. /\ valid[user.ch] /\ user.n > 0 /\ ptr[user.ch].mine + user.n <= RingSize
        /\ user.ch = "pull" => user.n <= Gap(ptr[user.ch].mine, hw[user.ch].pos)
    BY <1>0, <2>1 DEF RingInv, UserHolds
  <2>4. user.ch = c => Gap(new, mine) + user.n <= RingSize - 1
    BY <1>2, <1>13, <1>15, <1>17, <2>1, <2>2
  <2> HIDE DEF new
  <2>5. user.ch = "push" => Gap(hw'[user.ch].pos, ptr'[user.ch].mine) + user.n <= RingSize - 1
    BY <1>5, <1>6, <2>4 DEF c
  <2>6. user.ch = "pull" => user.n <= Gap(ptr'[user.ch].mine, hw'[user.ch].pos)
    BY <1>5, <1>6, <2>2, <2>3 DEF c
  <2> QED
    BY <1>6, <2>2, <2>3, <2>5, <2>6
<1>19. InRing(c)' = InRing(c) - 1 /\ InRing(c)' = Gap(new, mine) + Unacked(c)
  <2>1. InRing(c)' = InRing(c) - 1
    BY <1>2, <1>7, <1>12
  <2> QED
    BY <1>2, <1>11, <1>15, <1>17, <2>1
<1>20. ASSUME NEW d \in Positions, d < InRing(c)'
       PROVE  ring[c][Onward(new, d)] = count'[c].out + d + 1
  <2>1. d \in Nat /\ 1 + d < InRing(c) /\ 1 + d <= RingSize - 1 /\ 1 + d \in Positions
    BY <1>2, <1>16, <1>19, <1>20 DEF Positions
  <2>2. Onward(new, d) = Onward(pos, 1 + d)
    BY <1>2, <2>1, OnwardFacts
  <2>3. ring[c][Onward(pos, 1 + d)] = count[c].out + (1 + d) + 1
    BY <1>11, <2>1
  <2> QED
    BY <1>2, <1>7, <2>1, <2>2, <2>3
<1>21. PushInOrder'
  <2>1. Gap(new, limit) <= Gap(new, mine)
    BY <1>11, <1>15, <1>17
  <2> HIDE DEF new
  <2> QED
    BY <1>1, <1>2, <1>5, <1>6, <1>9, <1>19, <1>20, <2>1 DEF PushInOrder, c
<1> QED
  BY <1>8, <1>10, <1>18, <1>21 DEF RingInv

\* The IP delivers a word to the pull ring.
LEMMA RingIpPull == RingInv /\ IpPull => RingInv'
<1>0. SUFFICES ASSUME RingInv, IpPull PROVE RingInv'
  OBVIOUS
<1> DEFINE c == "pull"
           mine == ptr[c].mine
           pos == hw[c].pos
           limit == hw[c].limit
           new == Onward(pos, 1)
<1>1. /\ valid[c] /\ (pos + 1) % RingSize # limit /\ UNCHANGED <<valid, user>>
      /\ hw' = [hw EXCEPT ![c].pos = (@ + 1) % RingSize]
      /\ ptr' = [ptr EXCEPT ![c].theirs = hw'[c].pos]
      /\ ring' = [ring EXCEPT ![c][pos] = count[c].in + 1]
      /\ count' = [count EXCEPT ![c].in = @ + 1]
  BY <1>0 DEF IpPull
<1>2. /\ c \in Channels /\ mine \in Positions /\ pos \in Positions /\ limit \in Positions
      /\ 1 \in Positions /\ RingSize \in Nat \ {0, 1}
      /\ count[c].in \in Nat /\ count[c].out \in Nat /\ Unacked(c) \in Nat
  <2>1. c \in Channels
    BY DEF Channels
  <2> QED
    BY <1>0, <2>1, RingFacts DEF RingInv
<1> HIDE DEF c
<1>3. (pos + 1) % RingSize = new
  BY <1>2, RingRemainders
<1>4. new \in Positions
  BY <1>2, OnwardFacts
<1>5. /\ hw' \in [Channels -> [pos : Positions, limit : Positions]]
      /\ hw'[c].pos = new /\ hw'[c].limit = limit
      /\ \A d \in Channels : d # c => hw'[d] = hw[d]
  <2>1. hw \in [Channels -> [pos : Positions, limit : Positions]]
    BY <1>0 DEF RingInv, RingTypes
  <2>2. hw' = [hw EXCEPT ![c].pos = new]
    BY <1>1, <1>3
  <2> HIDE DEF new
  <2> QED
    BY <1>2, <1>4, <2>1, <2>2
<1>6. /\ ptr' \in [Channels -> [mine : Positions, theirs : Positions]]
      /\ ptr'[c].mine = mine /\ ptr'[c].theirs = new
      /\ \A d \in Channels : ptr'[d].mine = ptr[d].mine /\ (d # c => ptr'[d] = ptr[d])
  <2>1. ptr \in [Channels -> [mine : Positions, theirs : Positions]]
    BY <1>0 DEF RingInv, RingTypes
  <2>2. ptr' = [ptr EXCEPT ![c].theirs = new]
    BY <1>1, <1>5
  <2> HIDE DEF new
  <2> QED
    BY <1>2, <1>4, <2>1, <2>2
<1>7. /\ count' \in [Channels -> [in : Nat, out : Nat]]
      /\ count'[c].in = count[c].in + 1 /\ count'[c].out = count[c].out
      /\ \A d \in Channels : d # c => count'[d] = count[d]
  <2>1. count \in [Channels -> [in : Nat, out : Nat]]
    BY <1>0 DEF RingInv, RingTypes
  <2>2. count[c].in + 1 \in Nat
    BY <1>2
  <2> QED
    BY <1>1, <1>2, <2>1, <2>2
<1>8. /\ ring' \in [Channels -> [Positions -> Nat]]
      /\ ring'[c][pos] = count[c].in + 1
      /\ \A w \in Positions : w # pos => ring'[c][w] = ring[c][w]
      /\ \A d \in Channels : d # c => ring'[d] = ring[d]
  <2>1. ring \in [Channels -> [Positions -> Nat]] /\ count[c].in + 1 \in Nat
    BY <1>0, <1>2 DEF RingInv, RingTypes
  <2> HIDE DEF pos
  <2> QED
    BY <1>1, <1>2, <2>1
<1>9. RingTypes'
  BY <1>0, <1>1, <1>5, <1>6, <1>7, <1>8 DEF RingInv, RingTypes
<1>10. \A d \in Channels : Unacked(d)' = Unacked(d)
  BY <1>1 DEF Unacked
<1>11. PushInOrder'
  BY <1>0, <1>1, <1>5, <1>6, <1>7, <1>8, <1>10, PushSame DEF RingInv, Channels, c
<1>12. /\ ptr[c].theirs = pos /\ Gap(mine, pos) <= Gap(limit, pos)
       /\ InRing(c) + Unacked(c) = Gap(mine, pos)
       /\ \A d \in Positions : d < Gap(mine, pos) =>
             ring[c][Onward(mine, d)] = count[c].out - Unacked(c) + d + 1
  BY <1>0, <1>1 DEF RingInv, PullInOrder, c
<1>13. InRing(c) = count[c].in - count[c].out /\ InRing(c)' = count'[c].in - count'[c].out
  BY DEF InRing
<1> HIDE DEF mine, pos, limit
<1>14. /\ Gap(mine, pos) \in Nat /\ Gap(limit, pos) \in Nat
       /\ Gap(limit, pos) <= RingSize - 1 /\ Gap(limit, pos) # RingSize - 1
       /\ Onward(mine, Gap(mine, pos)) = pos /\ Gap(mine, pos) \in Positions
  BY <1>1, <1>2, <1>3, GapFacts
\* One place stays free, so the word does not land on one the user has.
<1>15. Gap(limit, pos) + 1 <= RingSize - 1 /\ Gap(mine, pos) + 1 <= RingSize - 1
  BY <1>2, <1>12, <1>14
<1>16. Gap(mine, new) = Gap(mine, pos) + 1 /\ Gap(limit, new) = Gap(limit, pos) + 1
  BY <1>2, <1>15, GapMoves
<1>17. UserHolds'
  <2>1. SUFFICES ASSUME user.pc \in {"use", "ack"}
                 PROVE  /\ valid[user.ch] /\ user.n > 0 /\ ptr'[user.ch].mine + user.n <= RingSize
                        /\ user.ch = "push" => Gap(hw'[user.ch].pos, ptr'[user.ch].mine) + user.n
                                               <= RingSize - 1
                        /\ user.ch = "pull" => user.n <= Gap(ptr'[user.ch].mine, hw'[user.ch].pos)
    BY <1>1 DEF UserHolds
  <2>2. user.ch \in Channels /\ user.n \in Nat
    BY <1>0 DEF RingInv, RingTypes, Users
  <2>3. /\ valid[user.ch] /\ user.n > 0 /\ ptr[user.ch].mine + user.n <= RingSize
        /\ user.ch = "push" => Gap(hw[user.ch].pos, ptr[user.ch].mine) + user.n <= RingSize - 1
    BY <1>0, <2>1 DEF RingInv, UserHolds
  <2>4. user.ch = c => user.n <= Gap(mine, pos)
    BY <1>0, <2>1 DEF RingInv, UserHolds, c, mine, pos
  <2>5. user.ch = c => user.n <= Gap(mine, new)
    BY <1>14, <1>16, <2>2, <2>4
  <2> HIDE DEF new
  <2>6. user.ch = "pull" => user.n <= Gap(ptr'[user.ch].mine, hw'[user.ch].pos)
    BY <1>5, <1>6, <2>5 DEF c
  <2>7. user.ch = "push" => Gap(hw'[user.ch].pos, ptr'[user.ch].mine) + user.n <= RingSize - 1
    BY <1>5, <1>6, <2>2, <2>3 DEF c
  <2> QED
    BY <1>6, <2>2, <2>3, <2>6, <2>7
<1>18. InRing(c)' + Unacked(c) = Gap(mine, new)
  BY <1>2, <1>7, <1>12, <1>13, <1>14, <1>16
<1>19. ASSUME NEW d \in Positions, d < Gap(mine, new)
       PROVE  ring'[c][Onward(mine, d)] = count'[c].out - Unacked(c) + d + 1
  <2>1. d \in Nat /\ Onward(mine, d) \in Positions
    BY <1>2, OnwardFacts DEF Positions
  <2>2. CASE d = Gap(mine, pos)
    <3>1. Onward(mine, d) = pos
      BY <1>14, <2>2
    <3>2. ring'[c][Onward(mine, d)] = count[c].in + 1
      BY <1>8, <3>1
    <3>3. count[c].in = count[c].out - Unacked(c) + d
      BY <1>2, <1>12, <1>13, <2>2, <1>14
    <3> QED
      BY <1>2, <1>7, <2>1, <3>2, <3>3
  <2>3. CASE d # Gap(mine, pos)
    <3>1. d < Gap(mine, pos)
      BY <1>14, <1>16, <1>19, <2>1, <2>3
    <3>2. Onward(mine, d) # pos
      BY <1>2, <1>14, <2>3, OnwardFacts
    <3> QED
      BY <1>7, <1>8, <1>12, <2>1, <3>1, <3>2
  <2> QED
    BY <2>2, <2>3
<1>20. PullInOrder'
  <2>1. Gap(mine, new) <= Gap(limit, new)
    BY <1>12, <1>14, <1>16
  <2> HIDE DEF new
  <2> QED
    BY <1>1, <1>2, <1>5, <1>6, <1>10, <1>18, <1>19, <2>1 DEF PullInOrder, c
<1> QED
  BY <1>9, <1>11, <1>17, <1>20 DEF RingInv

-----------------------------------------------------------------------------
(* The theorems about rings.                                               *)

LEMMA RingStep == RingInv /\ [DmaNext]_pcieVars => RingInv'
<1> SUFFICES ASSUME RingInv, [DmaNext]_pcieVars PROVE RingInv'
  OBVIOUS
<1>1. user \in Users
  BY DEF RingInv, RingTypes
<1>2. CASE UseBuffer
  BY <1>2, RingUseBuffer
<1>3. CASE AckBuffer
  BY <1>3, RingAckBuffer
<1>4. CASE \E c \in Channels : GetBuffer(c)
  BY <1>4, RingGetBuffer
<1>5. CASE IpPush
  BY <1>5, RingIpPush
<1>6. CASE IpPull
  BY <1>6, RingIpPull
<1>7. CASE \E c \in Channels : CreateHostchannel(c) \/ DestroyHostchannel(c)
  BY <1>7, RingCreate, RingDestroy
<1>8. CASE Poll
  BY <1>8, RingPoll
<1>9. CASE SyncThread \/ SetRunning \/ Destroyed
  <2>1. /\ UNCHANGED <<valid, hw, ptr, count, ring>>
        /\ user.pc \in {"sync", "flag", "drain"}
        /\ user' \in Users /\ user'.pc \in {"flag", "out"}
    BY <1>1, <1>9 DEF SyncThread, SetRunning, Destroyed, chVars, Users
  <2> QED
    BY <2>1, RingStill
<1>10. CASE WorkBegin \/ DecideIdle \/ DecideTransfer \/ Finish \/ AfterTransfer \/ PinActive
            \/ Send \/ LaunchHelpers \/ Spin
  <2>1. UNCHANGED <<valid, hw, ptr, count, ring, user>>
    BY <1>10 DEF WorkBegin, DecideIdle, DecideTransfer, Finish, AfterTransfer, PinActive,
                 PinActiveNow, Send, LaunchHelpers, Spin, chVars, userVars
  <2> QED
    BY <1>1, <2>1, RingStill
<1>11. CASE Caller \/ EngineMove \/ Prepin \/ Unpin \/ UNCHANGED pcieVars
  <2>1. UNCHANGED <<valid, hw, ptr, count, ring, user>>
    BY <1>11 DEF Caller, ReadWrite, SubmitFirst, StallEnds, EngineMove, Prepin, Unpin, chVars,
                 userVars, pcieVars
  <2> QED
    BY <1>1, <2>1, RingStill
<1> QED
  BY <1>2, <1>3, <1>4, <1>5, <1>6, <1>7, <1>8, <1>9, <1>10, <1>11 DEF DmaNext, User, Worker

\* The rings of the host channels are in order: the IP, the limit it was told
\* and the user's pointer follow each other, the words between them are the
\* next ones, and what get_buffer handed out is nobody else's, for every size
\* of ring (acl_hostch_windows.cpp, get_buffer and ack_buffer; the IP).
THEOREM RingInvariant == DmaSpec => []RingInv
  BY RingInit, RingStep, PTL DEF DmaSpec

\* The consumer of a ring takes the words in order, none lost, overwritten or
\* delivered twice.
THEOREM RingsStayIntact == DmaSpec => []RingsIntact
<1>1. ASSUME RingInv PROVE RingsIntact
  <2>1. ASSUME NEW c \in Channels, valid[c], ~(user.pc = "ack" /\ user.ch = c),
               NEW d \in Positions
        PROVE  LET from == IF c = "push" THEN hw[c].pos ELSE ptr[c].mine
                   to == IF c = "push" THEN hw[c].limit ELSE hw[c].pos
               IN  d < (to - from) % RingSize =>
                      ring[c][(from + d) % RingSize] = count[c].out + d + 1
    <3>1. /\ hw[c].pos \in Positions /\ hw[c].limit \in Positions /\ ptr[c].mine \in Positions
          /\ count[c].out \in Nat /\ d \in Nat
      BY <1>1, RingFacts DEF RingInv, Positions
    <3>2. Unacked(c) = 0
      BY <2>1 DEF Unacked
    <3>3. CASE c = "push"
      <4> DEFINE p == hw[c].pos
                 l == hw[c].limit
                 m == ptr[c].mine
      <4>1. /\ Gap(p, l) <= Gap(p, m) /\ InRing(c) = Gap(p, m) + 0
            /\ \A e \in Positions : e < InRing(c) => ring[c][Onward(p, e)] = count[c].out + e + 1
        BY <1>1, <2>1, <3>2, <3>3 DEF RingInv, PushInOrder
      <4> HIDE DEF p, l, m
      <4>2. Gap(p, l) \in Nat /\ Gap(p, m) \in Nat
        BY <3>1, GapFacts DEF p, l, m
      <4>3. (l - p) % RingSize = Gap(p, l) /\ (p + d) % RingSize = Onward(p, d)
        BY <2>1, <3>1, RingRemainders DEF p, l
      <4>4. d < Gap(p, l) => d < InRing(c)
        BY <3>1, <4>1, <4>2
      <4>5. d < (l - p) % RingSize => ring[c][(p + d) % RingSize] = count[c].out + d + 1
        BY <2>1, <4>1, <4>3, <4>4
      <4> QED
        BY <3>3, <4>5 DEF p, l
    <3>4. CASE c = "pull"
      <4> DEFINE p == hw[c].pos
                 m == ptr[c].mine
      <4>1. \A e \in Positions : e < Gap(m, p) =>
               ring[c][Onward(m, e)] = count[c].out - 0 + e + 1
        BY <1>1, <2>1, <3>2, <3>4 DEF RingInv, PullInOrder
      <4>2. count[c].out - 0 + d + 1 = count[c].out + d + 1
        BY <3>1
      <4> HIDE DEF p, m
      <4>3. (p - m) % RingSize = Gap(m, p) /\ (m + d) % RingSize = Onward(m, d)
        BY <2>1, <3>1, RingRemainders DEF p, m
      <4>4. d < (p - m) % RingSize => ring[c][(m + d) % RingSize] = count[c].out + d + 1
        BY <2>1, <4>1, <4>2, <4>3
      <4> QED
        BY <3>4, <4>4 DEF p, m
    <3> QED
      BY <3>3, <3>4 DEF Channels
  <2> QED
    BY <2>1 DEF RingsIntact, Positions
<1> QED
  BY <1>1, RingInvariant, PTL

=============================================================================
