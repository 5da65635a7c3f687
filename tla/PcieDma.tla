------------------------------- MODULE PcieDma -------------------------------
(***************************************************************************)
(* The de10_agilex MMD on Windows: ACL_PCIE_DMA, which moves a block       *)
(* through a descriptor table while two helper threads pin the next part   *)
(* of the user's memory and unpin the last one, and ACL_PCIE_HOSTCH, whose *)
(* two ring buffers share the same work thread.                            *)
(*                                                                         *)
(* Threads: the caller of read_write_block, the user of the channels, the  *)
(* worker that runs update(), the pin and the unpin worker; and the DMA    *)
(* engine and the host channel IP.  Lengths of a block are in units of     *)
(* DMA_ALIGNMENT_BYTES, lengths of a ring in words of 32 bytes.            *)
(***************************************************************************)
EXTENDS Integers, Sequences, FiniteSets, FiniteSetsExt, TLC

CONSTANTS
    PageSize, TableSize,   \* PAGE_SIZE, ACL_PCIE_DMA_TABLE_SIZE
    RingSize,              \* channel_depth
    LoopCounter,           \* HOSTCH_LOOP_COUNTER
    DmaScenarios,             \* [blocks : Seq([at, size]), channels, opens]
    MaxWords               \* bound: words through a channel per opening

ASSUME PcieDmaAssumption ==
    /\ {PageSize, TableSize, LoopCounter} \subseteq Nat \ {0}
    /\ RingSize \in Nat \ {0, 1}
    /\ MaxWords \in Nat
    /\ DmaScenarios \subseteq [blocks : Seq([at : Nat, size : Nat]),
                           channels : SUBSET {"push", "pull"}, opens : Nat]

VARIABLES
    \* The caller of read_write_block
    blocks, block, caller,
    \* ACL_PCIE_DMA: the transaction and its pinned memory
    idle, sent, rem, lastPinned, prepinned, lastId, active, pre, done, unpinQueue,
    table, fetch, flag,        \* the descriptors and the engine
    pinned, moved,             \* what is pinned, what was transferred
    \* Work items and the worker
    sem, queued, worker, pinWork, unpinWork,
    \* Host channels: HOSTCH_DESC and the IP
    valid, syncValid, running, loop, seen, hw,
    \* ACL_PCIE_HOSTCH and its user
    scenario, opens, ring, ptr, user, count

dmaVars == <<sent, rem, lastPinned, prepinned, lastId, active, pre, done, unpinQueue,
             table, fetch, flag, pinned, moved, pinWork, unpinWork>>
chVars == <<valid, syncValid, running, loop, seen, hw>>
userVars == <<opens, ring, ptr, user, count>>
callVars == <<blocks, block, caller>>
pcieVars == <<callVars, idle, dmaVars, sem, queued, worker, chVars, scenario, userVars>>

Channels == {"push", "pull"}
Lesser(a, b) == IF a < b THEN a ELSE b
NoMem == [at |-> 0, size |-> 0, used |-> 0]
NoBlock == [at |-> 0, size |-> 0]
MaxPinned == TableSize * PageSize

-----------------------------------------------------------------------------
(* Pinned memory.                                                          *)

\* The pages of a PINNED_MEM that have no descriptor yet, and its next page.
PagesRem(m) ==
    IF m.size = 0 THEN 0
    ELSE (m.at + m.size - 1) \div PageSize - m.at \div PageSize + 1 - m.used
NextPage(m) ==
    LET lo == Max({m.at, (m.at \div PageSize + m.used) * PageSize})
    IN  [at |-> lo, size |-> Lesser(m.at + m.size, (lo \div PageSize + 1) * PageSize) - lo]

CheckLastId(id) == IF id = TableSize THEN 0 ELSE id

\* Variant with a mistake: a full segment may end inside a page.
LockSizeUnrounded(at, left, id) == Lesser(left, MaxPinned - id * PageSize)

\* How much pin_memory locks: at most a table of pages, and a full segment
\* ends on a page boundary.
LockSize(at, left, id) ==
    LET cap == MaxPinned - id * PageSize
        size == Lesser(left, cap)
    IN  IF size = cap THEN size - ((at + size) % PageSize) ELSE size

PinMemory(at, left, id) ==
    LET size == LockSize(at, left, CheckLastId(id))
    IN  /\ rem' = left
        /\ pinned' = pinned \cup {[at |-> at, size |-> size]}
        /\ lastPinned' = [at |-> at, size |-> size]

Segment(m) == [at |-> m.at, size |-> m.size]

\* The pin worker: prepin_memory.
Prepin ==
    /\ pinWork
    /\ PinMemory(lastPinned.at + lastPinned.size, rem - lastPinned.size, 0)
    /\ pre' = [at |-> lastPinned'.at, size |-> lastPinned'.size, used |-> 0]
    /\ pinWork' = FALSE
    /\ UNCHANGED <<callVars, idle, sent, prepinned, lastId, active, done, unpinQueue, table,
                   fetch, flag, moved, unpinWork, sem, queued, worker, chVars, scenario, userVars>>

\* The unpin worker: unpin_from_queue.
Unpin ==
    /\ unpinWork
    /\ pinned' = pinned \ {Head(unpinQueue)}
    /\ unpinQueue' = Tail(unpinQueue)
    /\ unpinWork' = FALSE
    /\ UNCHANGED <<callVars, idle, sent, rem, lastPinned, prepinned, lastId, active, pre, done,
                   table, fetch, flag, moved, pinWork, sem, queued, worker, chVars, scenario, userVars>>

-----------------------------------------------------------------------------
(* The caller: read_write_block, its DMA part.                             *)

\* m_workqueue_semaphore lets one item wait.
TrySubmit == IF sem = 1 THEN sem' = 0 /\ queued' = queued + 1
             ELSE UNCHANGED <<sem, queued>>

\* read_write, up to m_idle = false.
ReadWrite ==
    /\ caller = "out" /\ blocks # <<>>
    /\ block' = Head(blocks) /\ blocks' = Tail(blocks)
    /\ sent' = 0 /\ lastId' = 0 /\ prepinned' = FALSE /\ idle' = FALSE
    /\ caller' = "submit" /\ moved' = {}
    /\ UNCHANGED <<rem, lastPinned, active, pre, done, unpinQueue, table, fetch, flag, pinned,
                   pinWork, unpinWork, sem, queued, worker, chVars, scenario, userVars>>

\* The first work item.  Nobody looks at the result of read_write: when the
\* worker's own item waits already, that one serves the transfer.
SubmitFirst ==
    /\ caller = "submit"
    /\ TrySubmit
    /\ caller' = "stall"
    /\ UNCHANGED <<blocks, block, idle, dmaVars, worker, chVars, scenario, userVars>>

\* stall_until_idle
StallEnds ==
    /\ caller = "stall" /\ idle
    /\ caller' = "out"
    /\ UNCHANGED <<blocks, block, idle, dmaVars, sem, queued, worker, chVars, scenario, userVars>>

-----------------------------------------------------------------------------
(* The engine: it fetches the table from its first entry and reports in    *)
(* the flag of the last one.                                               *)

EngineMove ==
    /\ fetch # <<>>
    /\ LET d == table[Head(fetch)]
       IN  moved' = moved \cup {<<d.at + i, d.dev + i>> : i \in 0 .. d.size - 1}
    /\ fetch' = Tail(fetch)
    /\ flag' = (fetch' = <<>>)
    /\ UNCHANGED <<callVars, idle, sent, rem, lastPinned, prepinned, lastId, active, pre, done,
                   unpinQueue, table, pinned, pinWork, unpinWork, sem, queued, worker, chVars,
                   scenario, userVars>>

-----------------------------------------------------------------------------
(* The worker: update().                                                   *)

\* Variant with a mistake: the semaphore stays taken.
WorkBeginHoldsSemaphore ==
    /\ worker = "none" /\ queued > 0
    /\ queued' = queued - 1
    /\ worker' = "poll"
    /\ UNCHANGED <<callVars, idle, dmaVars, sem, chVars, scenario, userVars>>

\* myWorkCallback: the next item may be submitted, update() runs.
WorkBegin ==
    /\ worker = "none" /\ queued > 0
    /\ queued' = queued - 1 /\ sem' = 1
    /\ worker' = "poll"
    /\ UNCHANGED <<callVars, idle, dmaVars, chVars, scenario, userVars>>

\* hostch_pull_update and hostch_push_update: tell the IP about a pointer that
\* the user moved, or count one more idle round.
ChannelUpdate(c) ==
    IF ~valid[c] THEN [seen |-> seen[c], hw |-> hw[c], moved |-> FALSE, tick |-> 0]
    ELSE IF seen[c] # ptr[c].mine
    THEN [seen |-> ptr[c].mine, hw |-> [hw[c] EXCEPT !.limit = ptr[c].mine],
          moved |-> TRUE, tick |-> 0]
    ELSE [seen |-> seen[c], hw |-> hw[c], moved |-> FALSE, tick |-> 1]

Poll ==
    /\ worker = "poll"
    /\ worker' = "decide"
    /\ IF idle
       THEN LET u == [c \in Channels |-> ChannelUpdate(c)]
                ticked == loop - u["pull"].tick - u["push"].tick
            IN  /\ seen' = [c \in Channels |-> u[c].seen]
                /\ hw' = [c \in Channels |-> u[c].hw]
                /\ loop' = IF u["push"].moved THEN LoopCounter
                           ELSE IF u["pull"].moved THEN LoopCounter - u["push"].tick
                           ELSE Max({0, ticked})
       ELSE UNCHANGED <<seen, hw, loop>>
    /\ UNCHANGED <<callVars, idle, dmaVars, sem, queued, valid, syncValid, running, scenario,
                   userVars>>

Listening == (\E c \in Channels : valid[c]) /\ syncValid /\ loop > 0

\* Without a transfer: another round, or the end of the polling.
DecideIdle ==
    /\ worker = "decide" /\ idle
    /\ worker' = "none"
    /\ IF Listening THEN TrySubmit ELSE UNCHANGED <<sem, queued>>
    /\ running' = IF syncValid /\ loop = 0 THEN FALSE ELSE running
    /\ UNCHANGED <<callVars, idle, dmaVars, valid, syncValid, loop, seen, hw, scenario, userVars>>

\* A transfer of which parts are left to send.
DecideTransfer ==
    /\ worker = "decide" /\ ~idle
    /\ flag' = FALSE
    /\ worker' = IF sent = block.size THEN "finish"
                 ELSE IF PagesRem(active) = 0 THEN "pin" ELSE "send"
    /\ done' = IF worker' = "pin" THEN active ELSE done
    /\ UNCHANGED <<callVars, idle, sent, rem, lastPinned, prepinned, lastId, active, pre,
                   unpinQueue, table, fetch, pinned, moved, pinWork, unpinWork, sem, queued,
                   chVars, scenario, userVars>>

\* The transaction is complete: unpin the last segment, wait for the unpin
\* worker, become idle.
Finish ==
    /\ worker = "finish" /\ ~unpinWork
    /\ pinned' = pinned \ {Segment(active)} /\ active' = NoMem
    /\ idle' = TRUE
    /\ worker' = "after"
    /\ UNCHANGED <<callVars, sent, rem, lastPinned, prepinned, lastId, pre, done, unpinQueue,
                   table, fetch, flag, moved, pinWork, unpinWork, sem, queued, chVars, scenario,
                   userVars>>

\* The channels' polling goes on where it was.
AfterTransfer ==
    /\ worker = "after"
    /\ worker' = "none"
    /\ IF Listening THEN TrySubmit ELSE UNCHANGED <<sem, queued>>
    /\ UNCHANGED <<callVars, idle, dmaVars, chVars, scenario, userVars>>

\* Take the segment that was pinned ahead, or pin one.
PinActiveNow ==
    /\ worker = "pin"
    /\ IF pre # NoMem
       THEN /\ active' = pre /\ pre' = NoMem /\ prepinned' = FALSE
            /\ UNCHANGED <<rem, lastPinned, pinned>>
       ELSE /\ PinMemory(block.at + sent, block.size - sent, lastId)
            /\ active' = [at |-> lastPinned'.at, size |-> lastPinned'.size, used |-> 0]
            /\ UNCHANGED <<pre, prepinned>>
    /\ worker' = "send"
    /\ UNCHANGED <<callVars, idle, sent, lastId, done, unpinQueue, table, fetch, flag, moved,
                   pinWork, unpinWork, sem, queued, chVars, scenario, userVars>>

\* Not before the pin worker is done.
PinActive == ~pinWork /\ PinActiveNow

\* One table of descriptors, each about one page, and send_dma_desc.
Send ==
    /\ worker = "send"
    /\ LET first == CheckLastId(lastId)
           n == Lesser(TableSize - first, PagesRem(active))
           page(k) == NextPage([active EXCEPT !.used = @ + k])
           upTo(k) == IF k = 0 THEN 0 ELSE page(k - 1).at + page(k - 1).size - page(0).at
       IN  /\ table' = [id \in 0 .. TableSize - 1 |->
                 IF id \in first .. first + n - 1
                 THEN [at |-> page(id - first).at, size |-> page(id - first).size,
                       dev |-> sent + upTo(id - first)]
                 ELSE table[id]]
           /\ lastId' = first + n
           /\ sent' = sent + upTo(n)
           /\ active' = [active EXCEPT !.used = @ + n]
           /\ fetch' = [k \in 1 .. first + n |-> k - 1]
    /\ worker' = "help"
    /\ UNCHANGED <<callVars, idle, rem, lastPinned, prepinned, pre, done, unpinQueue, flag,
                   pinned, moved, pinWork, unpinWork, sem, queued, chVars, scenario, userVars>>

\* The helpers, while the engine runs: unpin the segment before, once the last
\* unpinning is over, and pin the segment after.
LaunchHelpers ==
    /\ worker = "help"
    /\ IF done.size > 0
       THEN /\ ~unpinWork
            /\ unpinQueue' = Append(unpinQueue, Segment(done))
            /\ unpinWork' = TRUE /\ done' = NoMem
       ELSE UNCHANGED <<unpinQueue, unpinWork, done>>
    /\ IF rem > lastPinned.size /\ ~prepinned
       THEN prepinned' = TRUE /\ pinWork' = TRUE
       ELSE UNCHANGED <<prepinned, pinWork>>
    /\ worker' = "spin"
    /\ UNCHANGED <<callVars, idle, sent, rem, lastPinned, lastId, active, pre, table, fetch,
                   flag, pinned, moved, sem, queued, chVars, scenario, userVars>>

\* wait_finish
Spin ==
    /\ worker = "spin" /\ flag
    /\ flag' = FALSE
    /\ TrySubmit
    /\ worker' = "none"
    /\ UNCHANGED <<callVars, idle, sent, rem, lastPinned, prepinned, lastId, active, pre, done,
                   unpinQueue, table, fetch, pinned, moved, pinWork, unpinWork, chVars, scenario,
                   userVars>>

Worker == WorkBegin \/ Poll \/ DecideIdle \/ DecideTransfer \/ Finish \/ AfterTransfer
          \/ PinActive \/ Send \/ LaunchHelpers \/ Spin

-----------------------------------------------------------------------------
(* The user of the channels, and the IP.                                   *)

\* Free words of the push ring (one stays free), words in the pull ring.
Avail(c) ==
    LET e == IF c = "push" THEN ptr[c].mine ELSE ptr[c].theirs
        f == IF c = "push" THEN ptr[c].theirs ELSE ptr[c].mine
        used == IF e >= f THEN e - f ELSE RingSize - f + e
    IN  IF c = "push" THEN RingSize - used - 1 ELSE used

\* The part of n words before the end of the ring.
Contiguous(c, n) == Lesser(n, RingSize - ptr[c].mine)

\* Variant with a mistake: the pointer runs past the end.
AdvancedPast(c, n) == IF ptr[c].mine + n > RingSize THEN 0 ELSE ptr[c].mine + n

Advanced(c, n) == IF ptr[c].mine + n >= RingSize THEN 0 ELSE ptr[c].mine + n

UserStep == UNCHANGED <<callVars, idle, dmaVars, worker, scenario>>
NoSubmit == UNCHANGED <<sem, queued>>

\* ACL_PCIE_DMA::hostch_create and hostch_start: the IP starts at word 0 and
\* the worker polls; only the first channel submits its item.
HostchCreate(c) ==
    /\ hw' = [hw EXCEPT ![c] = [pos |-> 0, limit |-> 0]]
    /\ valid' = [valid EXCEPT ![c] = TRUE]
    /\ IF \E d \in Channels : valid[d] THEN NoSubmit ELSE TrySubmit

LaunchSyncThread ==
    IF syncValid THEN UNCHANGED <<syncValid, running, loop>>
    ELSE syncValid' = TRUE /\ running' = FALSE /\ loop' = LoopCounter

\* Programs create channels while no transfer runs: hostch_create clears the
\* descriptor table and m_read, which a transfer uses.
CreateHostchannel(c) ==
    /\ user.pc = "out" /\ ~valid[c] /\ c \in scenario.channels
    /\ opens[c] < scenario.opens
    /\ idle /\ caller = "out"
    /\ opens' = [opens EXCEPT ![c] = @ + 1]
    /\ ptr' = [ptr EXCEPT ![c] = [mine |-> 0, theirs |-> 0]]
    /\ count' = [count EXCEPT ![c] = [in |-> 0, out |-> 0]]
    /\ LaunchSyncThread /\ HostchCreate(c)
    /\ UserStep /\ UNCHANGED <<seen, ring, user>>

\* get_buffer: a contiguous part of the ring, or NULL and a look at the worker.
GetBuffer(c) ==
    /\ user.pc = "out" /\ valid[c]
    /\ user.blocked \in {c, "no"}
    /\ c = "push" => count[c].in < MaxWords
    /\ IF Avail(c) > 0
       THEN user' = [pc |-> "use", ch |-> c, n |-> Contiguous(c, Avail(c)), blocked |-> "no"]
       ELSE user' = [pc |-> "sync", ch |-> c, n |-> 0, blocked |-> c]
    /\ UserStep /\ NoSubmit /\ UNCHANGED <<chVars, opens, ring, ptr, count>>

\* The user writes or reads some of the words it got.
UseBuffer ==
    /\ user.pc = "use"
    /\ \E n \in 1 .. user.n :
          LET c == user.ch
              at(i) == ptr[c].mine + i - 1
          IN  /\ user' = [user EXCEPT !.pc = "ack", !.n = n]
              /\ c = "push" => count[c].in + n <= MaxWords
              /\ ring' = IF c = "pull" THEN ring
                         ELSE [ring EXCEPT ![c] = [w \in 0 .. RingSize - 1 |->
                             IF w \in at(1) .. at(n) THEN count[c].in + w - at(0) ELSE @[w]]]
              /\ count' = IF c = "push" THEN [count EXCEPT ![c].in = @ + n]
                          ELSE [count EXCEPT ![c].out = @ + n]
    /\ UserStep /\ NoSubmit /\ UNCHANGED <<chVars, opens, ptr>>

\* ack_buffer
AckBuffer ==
    /\ user.pc = "ack"
    /\ LET c == user.ch
       IN  ptr' = [ptr EXCEPT ![c].mine = Advanced(c, Lesser(user.n, Avail(c)))]
    /\ user' = [user EXCEPT !.pc = "sync"]
    /\ UserStep /\ NoSubmit /\ UNCHANGED <<chVars, opens, ring, count>>

\* sync_thread and hostch_thread_sync: start the worker again if it stopped.
SyncThread ==
    /\ user.pc = "sync"
    /\ IF syncValid /\ ~running /\ idle
       THEN /\ loop' = LoopCounter /\ queued' = queued + 1
            /\ user' = [user EXCEPT !.pc = "flag"]
       ELSE /\ user' = [user EXCEPT !.pc = "out"]
            /\ UNCHANGED <<loop, queued>>
    /\ UserStep
    /\ UNCHANGED <<sem, valid, syncValid, running, seen, hw, opens, ring, ptr, count>>

SetRunning ==
    /\ user.pc = "flag"
    /\ running' = TRUE
    /\ user' = [user EXCEPT !.pc = "out"]
    /\ UserStep /\ NoSubmit
    /\ UNCHANGED <<valid, syncValid, loop, seen, hw, opens, ring, ptr, count>>

\* destroy_hostchannel: with the last channel goes the worker's flag, after
\* the work items have ended.
DestroyHostchannel(c) ==
    /\ user.pc = "out" /\ user.blocked = "no" /\ valid[c]
    /\ scenario.channels = {c}
    /\ valid' = [valid EXCEPT ![c] = FALSE]
    /\ syncValid' = FALSE
    /\ user' = [user EXCEPT !.pc = "drain"]
    /\ UserStep /\ NoSubmit /\ UNCHANGED <<running, loop, seen, hw, opens, ring, ptr, count>>

Destroyed ==
    /\ user.pc = "drain"
    /\ idle => queued = 0 /\ worker = "none"
    /\ user' = [user EXCEPT !.pc = "out"]
    /\ UserStep /\ NoSubmit /\ UNCHANGED <<chVars, opens, ring, ptr, count>>

User == \/ UseBuffer \/ AckBuffer \/ SyncThread \/ SetRunning \/ Destroyed
        \/ \E c \in Channels : GetBuffer(c)

\* The IP takes the next pushed word it was told of, or delivers a word while
\* it knows of a free place; it writes its pointer to the host's memory.
IpPush ==
    /\ valid["push"] /\ hw["push"].pos # hw["push"].limit
    /\ hw' = [hw EXCEPT !["push"].pos = (@ + 1) % RingSize]
    /\ ptr' = [ptr EXCEPT !["push"].theirs = hw'["push"].pos]
    /\ count' = [count EXCEPT !["push"].out = @ + 1]
    /\ UserStep /\ NoSubmit /\ UNCHANGED <<valid, syncValid, running, loop, seen, opens, ring, user>>

IpPull ==
    /\ valid["pull"] /\ count["pull"].in < MaxWords
    /\ (hw["pull"].pos + 1) % RingSize # hw["pull"].limit
    /\ hw' = [hw EXCEPT !["pull"].pos = (@ + 1) % RingSize]
    /\ ptr' = [ptr EXCEPT !["pull"].theirs = hw'["pull"].pos]
    /\ ring' = [ring EXCEPT !["pull"][hw["pull"].pos] = count["pull"].in + 1]
    /\ count' = [count EXCEPT !["pull"].in = @ + 1]
    /\ UserStep /\ NoSubmit /\ UNCHANGED <<valid, syncValid, running, loop, seen, opens, user>>

-----------------------------------------------------------------------------
DmaInit ==
    /\ scenario \in DmaScenarios
    /\ blocks = scenario.blocks /\ block = NoBlock /\ caller = "out"
    /\ idle = TRUE /\ sent = 0 /\ rem = 0 /\ lastPinned = NoBlock /\ prepinned = FALSE
    /\ lastId = 0 /\ active = NoMem /\ pre = NoMem /\ done = NoMem /\ unpinQueue = <<>>
    /\ table = [id \in 0 .. TableSize - 1 |-> [at |-> 0, size |-> 0, dev |-> 0]]
    /\ fetch = <<>> /\ flag = FALSE /\ pinned = {} /\ moved = {}
    /\ sem = 1 /\ queued = 0 /\ worker = "none" /\ pinWork = FALSE /\ unpinWork = FALSE
    /\ valid = [c \in Channels |-> FALSE] /\ syncValid = FALSE /\ running = FALSE
    /\ loop = 0 /\ seen = [c \in Channels |-> 0]
    /\ hw = [c \in Channels |-> [pos |-> 0, limit |-> 0]]
    /\ opens = [c \in Channels |-> 0]
    /\ ring = [c \in Channels |-> [w \in 0 .. RingSize - 1 |-> 0]]
    /\ ptr = [c \in Channels |-> [mine |-> 0, theirs |-> 0]]
    /\ user = [pc |-> "out", ch |-> "push", n |-> 0, blocked |-> "no"]
    /\ count = [c \in Channels |-> [in |-> 0, out |-> 0]]

Caller == ReadWrite \/ SubmitFirst \/ StallEnds

DmaNext ==
    \/ Caller \/ EngineMove \/ Prepin \/ Unpin \/ Worker \/ User \/ IpPush \/ IpPull
    \/ \E c \in Channels : CreateHostchannel(c) \/ DestroyHostchannel(c)

\* Every thread is scheduled, the engine and the IP make progress, and a user
\* who got no buffer asks again.
DmaFairness ==
    /\ WF_pcieVars(Caller) /\ WF_pcieVars(Worker) /\ WF_pcieVars(EngineMove)
    /\ WF_pcieVars(Prepin) /\ WF_pcieVars(Unpin) /\ WF_pcieVars(IpPush) /\ WF_pcieVars(IpPull)
    /\ WF_pcieVars(User)
DmaSpec == DmaInit /\ [][DmaNext]_pcieVars /\ DmaFairness

-----------------------------------------------------------------------------
(* Properties.                                                             *)

\* The engine only touches pinned memory: whatever descriptors it still has
\* to execute are about pages that neither helper has unpinned.
DmaTouchesPinned ==
    \A k \in DOMAIN fetch :
        LET d == table[fetch[k]]
        IN  \E s \in pinned : s.at <= d.at /\ d.at + d.size <= s.at + s.size

\* When the DMA object is idle again the whole block has been transferred,
\* each byte to its place, nothing else was, and no memory stays pinned.
IdleMeansTransferred ==
    idle => /\ caller = "stall" => moved = {<<block.at + i, i>> : i \in 0 .. block.size - 1}
            /\ pinned = {}

\* The words the consumer of a ring may take (the IP of the push ring, the user
\* of the pull ring) are the next ones in order: none was overwritten, skipped
\* or delivered twice, across the wrap of the ring and a new opening.
RingsIntact ==
    \A c \in Channels : valid[c] /\ ~(user.pc = "ack" /\ user.ch = c) =>
        LET from == IF c = "push" THEN hw[c].pos ELSE ptr[c].mine
            to == IF c = "push" THEN hw[c].limit ELSE hw[c].pos
        IN  \A d \in 0 .. RingSize - 1 :
                d < (to - from) % RingSize =>
                    ring[c][(from + d) % RingSize] = count[c].out + d + 1

\* stall_until_idle returns: whatever the channels' polling does with the
\* semaphore, some work item serves the transfer to its end.
TransferReturns == caller = "stall" ~> caller = "out"

=============================================================================
