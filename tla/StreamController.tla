-------------------------- MODULE StreamController --------------------------
(***************************************************************************)
(* The stream controller: firmware on a NIOS-V core that pairs source      *)
(* buffers captured by the msgDMA with inference requests sent by the host *)
(* and feeds the DLA's descriptor FIFO.                                    *)
(*                                                                         *)
(* The firmware is one event loop, interrupted by the msgDMA ISR.  The     *)
(* msgDMA, the DLA and the host (DLA plugin and StreamControllerComms) are *)
(* its environment.  The mailbox is abstracted here to one pending message *)
(* and one pending reply; module Mailbox models it word by word.           *)
(*                                                                         *)
(* A DDR address is a natural number: batch job i of the host has its      *)
(* input buffer at i + 1, and 0 is the address in a job item that has not  *)
(* received its payload (it is also where the DLA keeps its intermediate   *)
(* buffer).                                                                *)
(***************************************************************************)
EXTENDS Integers, Sequences

CONSTANTS
    NumJobs,            \* _totalNumInferenceRequests, the size of the ring
    DropSourceBuffers,  \* _dropSourceBuffers
    IsrModulus,         \* number of values of the uint32_t _isrCount
    SeqModulus,         \* number of values of the uint32_t sequence IDs
    CountModulus,       \* number of values of the uint32_t status counters
    RequestCountWraps,  \* may the uint32_t _numInferenceRequests wrap to 0?
    DmaMayFail,         \* may the msgDMA driver refuse a descriptor?
    HostCommands,       \* what a host sends once it has initialized
    DebugAddress,       \* the buffer that the debug commands name
    DlaFifoDepth,       \* descriptors the DLA's input FIFO holds
    RestartSizes,       \* request counts a restarted host may ask for
    RestartWhileRunning,\* may the host restart once capture has started?
    MaxRestarts         \* bound: how many times the host process restarts

Null == -2              \* a NULL job pointer
DebugJob == -1          \* &_debugJob
NoWrite == -3           \* target of a memory-to-stream descriptor
NoMessage == [type |-> "None", seq |-> 0, arg |-> 0]

\* What a ManualArmDmaTransfer payload may ask for.
Unaligned == 0          \* a size or address that is not a multiple of a word
FromHPS == 1            \* stream to memory
ToHPS == 2              \* memory to stream

Slots == 0 .. NumJobs - 1
CommandTypes == {"ScheduleItem", "GetStatus", "Ping",
                 "ManualArmDmaTransfer", "ManualScheduleDlaInference"}
MessageTypes == CommandTypes \cup {"InitializeStreamController", "None"}
ReplyTypes == {"None", "NoOperation", "Pong", "Status"}
DriverErrors == {"BadDescriptor", "AsyncTransferFailed"}
StatusTypes == {"OK", "Error", "BadMessageSequence", "InvalidParameter"}
               \cup DriverErrors

ASSUME NumJobsAssumption == NumJobs \in Nat \ {0}
ASSUME DropAssumption == DropSourceBuffers \in Nat
ASSUME ModulusAssumption == /\ IsrModulus \in Nat \ {0, 1}
                            /\ SeqModulus \in Nat \ {0, 1}
                            /\ CountModulus \in Nat \ {0, 1}
ASSUME EnvironmentAssumption == /\ RequestCountWraps \in BOOLEAN
                                /\ DmaMayFail \in BOOLEAN
                                /\ HostCommands \subseteq CommandTypes
                                /\ DebugAddress \in Nat \ {0}
                                /\ DlaFifoDepth \in Nat
                                /\ RestartSizes \subseteq Nat
                                /\ RestartWhileRunning \in BOOLEAN
                                /\ MaxRestarts \in Nat

VARIABLES
    \* The ring of job items, one function per field of CoreDlaJobItem
    allocated,                 \* _jobs # NULL
    hasSourceBuffer, scheduledWithDLA, inputAddressDDR,
    pNextInferenceRequestJob, pFillingImageJob,
    debugAddressDDR,           \* _debugJob._payload._inputAddressDDR
    \* The other fields of StreamController
    status, running, numInferenceRequests, numReceivedSourceBuffers,
    numScheduledInferences, numExecutedJobs, lastReceiveSequenceID, isrCount,
    \* The locals of RunEventLoop, and where it is
    previousIsrCount, loopIsrCount, pc,
    \* The hardware: descriptors armed, interrupt pending, the DLA's FIFO
    dma, irq, dlaFifo,
    \* The mailbox and the host
    mailbox, reply, hostPhase, hostSeq, hostSize, hostJob, hostIdle, restarts

ringVars == <<allocated, hasSourceBuffer, scheduledWithDLA, inputAddressDDR,
              pNextInferenceRequestJob, pFillingImageJob, debugAddressDDR>>
countVars == <<running, numInferenceRequests, numReceivedSourceBuffers,
               numScheduledInferences, numExecutedJobs>>
loopVars == <<previousIsrCount, loopIsrCount, pc>>
hwVars == <<dma, irq, dlaFifo>>
hostVars == <<hostPhase, hostSeq, hostSize, hostJob, hostIdle, restarts>>
vars == <<ringVars, countVars, status, lastReceiveSequenceID, isrCount,
          loopVars, hwVars, mailbox, reply, hostVars>>

-----------------------------------------------------------------------------
(* The ring.                                                               *)

\* _pNextJob, as Reset links it.
NextJob(i) == IF i = NumJobs - 1 THEN 0 ELSE i + 1

EmptyRing == [i \in Slots |-> FALSE]
NoAddresses == [i \in Slots |-> 0]

\* Variant with a mistake: the driver's error is not stored in the status.
ArmDmaTransferUnreported(job, target, before, after) ==
    /\ pFillingImageJob' = job
    /\ after = before
    /\ dma' = Append(dma, target) \/ (DmaMayFail /\ dma' = dma)

\* ArmDmaTransfer: the job becomes the one being filled, and a descriptor
\* for its buffer is queued.  before and after are the status on entry and
\* on return: the driver may refuse the descriptor.
ArmDmaTransfer(job, target, before, after) ==
    /\ pFillingImageJob' = job
    /\ \/ dma' = Append(dma, target) /\ after = before
       \/ DmaMayFail /\ dma' = dma /\ after \in DriverErrors

\* ScheduleDlaInference on job: writing the input/output base address adds
\* a descriptor to the DLA's FIFO.
ScheduleDlaInference(address) ==
    /\ dlaFifo' = Append(dlaFifo, address)
    /\ numScheduledInferences' = (numScheduledInferences + 1) % CountModulus

NoSchedule == UNCHANGED <<dlaFifo, numScheduledInferences>>

-----------------------------------------------------------------------------
(* NewSourceBuffer: the event loop found that the msgDMA interrupted.      *)

\* Does the drop setting discard the buffer just received?
DropsBuffer == numReceivedSourceBuffers % (DropSourceBuffers + 1) # 0

\* The code counts the two job items one by one: with a ring of one job it
\* counts the same item twice.
NumScheduledAhead ==
    (IF scheduledWithDLA[pNextInferenceRequestJob] THEN 1 ELSE 0)
    + (IF scheduledWithDLA[NextJob(pNextInferenceRequestJob)] THEN 1 ELSE 0)

\* Variant with a mistake: the next job item is filled although it still
\* holds a source buffer.
KeepSourceBufferUnchecked(just) ==
    /\ hasSourceBuffer' = [hasSourceBuffer EXCEPT ![just] = TRUE]
    /\ ArmDmaTransfer(NextJob(just), inputAddressDDR[NextJob(just)], status, status')
    /\ IF NumScheduledAhead < 2
       THEN /\ scheduledWithDLA' = [scheduledWithDLA EXCEPT ![just] = TRUE]
            /\ ScheduleDlaInference(inputAddressDDR[just])
       ELSE NoSchedule /\ UNCHANGED scheduledWithDLA

KeepSourceBuffer(just) ==
    LET has == [hasSourceBuffer EXCEPT ![just] = TRUE]
        full == has[NextJob(just)]
        nextFill == IF full THEN just ELSE NextJob(just)
    IN  /\ hasSourceBuffer' = [has EXCEPT ![just] = ~full]
        /\ ArmDmaTransfer(nextFill, inputAddressDDR[nextFill], status, status')
        /\ IF NumScheduledAhead < 2
           THEN /\ scheduledWithDLA' = [scheduledWithDLA EXCEPT ![just] = TRUE]
                /\ ScheduleDlaInference(inputAddressDDR[just])
           ELSE NoSchedule /\ UNCHANGED scheduledWithDLA

NewSourceBuffer ==
    /\ numReceivedSourceBuffers' =
         (numReceivedSourceBuffers + 1) % (DropSourceBuffers + 1)
    /\ \/ /\ pFillingImageJob = DebugJob
          /\ UNCHANGED <<hasSourceBuffer, scheduledWithDLA, pFillingImageJob,
                         dma, status>>
          /\ NoSchedule
       \/ /\ pFillingImageJob # DebugJob /\ DropsBuffer
          /\ ArmDmaTransfer(pFillingImageJob, inputAddressDDR[pFillingImageJob],
                            status, status')
          /\ NoSchedule
          /\ UNCHANGED <<hasSourceBuffer, scheduledWithDLA>>
       \/ /\ pFillingImageJob # DebugJob /\ ~DropsBuffer
          /\ KeepSourceBuffer(pFillingImageJob)
    /\ UNCHANGED <<allocated, inputAddressDDR, pNextInferenceRequestJob,
                   debugAddressDDR, running, numInferenceRequests,
                   numExecutedJobs>>

-----------------------------------------------------------------------------
(* NewInferenceRequestReceived, for a request whose input buffer is at     *)
(* address.  after is the status on return.                                *)

\* The count is only compared with NumJobs, so it is kept up to NumJobs; a
\* uint32_t past it may be the one that wraps.
IncrementRequests ==
    numInferenceRequests' \in
        IF numInferenceRequests < NumJobs THEN {numInferenceRequests + 1}
        ELSE {NumJobs} \cup {n \in {0} : RequestCountWraps}

NewInferenceRequestReceived(address, after) ==
    LET this == pNextInferenceRequestJob
        next == NextJob(this)
        second == NextJob(next)
        moved == inputAddressDDR[this] # 0 /\ inputAddressDDR[this] # address
        stored == IF moved THEN "Error" ELSE status
        addresses == [inputAddressDDR EXCEPT ![this] = address]
        has == [hasSourceBuffer EXCEPT ![this] = FALSE]
        sched == [scheduledWithDLA EXCEPT ![this] = FALSE]
        Ready(i) == ~sched[i] /\ has[i]
    IN  /\ IncrementRequests
        /\ running' = (numInferenceRequests' >= NumJobs)
        /\ inputAddressDDR' = addresses
        /\ hasSourceBuffer' = has
        /\ pNextInferenceRequestJob' = next
        /\ numExecutedJobs' = IF running THEN (numExecutedJobs + 1) % CountModulus
                                         ELSE numExecutedJobs
        /\ IF running /\ (Ready(next) \/ Ready(second))
           THEN LET job == IF Ready(next) THEN next ELSE second
                IN  /\ scheduledWithDLA' = [sched EXCEPT ![job] = TRUE]
                    /\ ScheduleDlaInference(addresses[job])
           ELSE scheduledWithDLA' = sched /\ NoSchedule
        /\ IF ~running /\ running'
           THEN ArmDmaTransfer(0, addresses[0], stored, after)
           ELSE UNCHANGED <<pFillingImageJob, dma>> /\ after = stored
        /\ UNCHANGED <<allocated, debugAddressDDR, numReceivedSourceBuffers>>

-----------------------------------------------------------------------------
(* InitializeStreamController and Reset.                                   *)

\* Variant with a mistake: the requests already received stay counted.
ResetKeepsRequests ==
    /\ hasSourceBuffer' = EmptyRing /\ scheduledWithDLA' = EmptyRing
    /\ inputAddressDDR' = NoAddresses
    /\ pNextInferenceRequestJob' = 0 /\ pFillingImageJob' = 0
    /\ running' = FALSE
    /\ numReceivedSourceBuffers' = 0 /\ numScheduledInferences' = 0
    /\ numExecutedJobs' = 0 /\ isrCount' = 0
    /\ UNCHANGED numInferenceRequests

\* Reset, with the ring allocated.  An armed descriptor stays armed.
Reset ==
    /\ hasSourceBuffer' = EmptyRing
    /\ scheduledWithDLA' = EmptyRing
    /\ inputAddressDDR' = NoAddresses
    /\ pNextInferenceRequestJob' = 0
    /\ pFillingImageJob' = 0
    /\ running' = FALSE
    /\ numInferenceRequests' = 0
    /\ numReceivedSourceBuffers' = 0
    /\ numScheduledInferences' = 0
    /\ numExecutedJobs' = 0
    /\ isrCount' = 0

\* after is the status and last the last received sequence ID on return.
InitializeStreamController(size, after, last) ==
    \/ /\ size = 0 \/ (allocated /\ size # NumJobs)
       /\ after = "InvalidParameter" /\ last = lastReceiveSequenceID
       /\ UNCHANGED <<ringVars, countVars, isrCount, hwVars>>
    \/ /\ size = NumJobs
       /\ allocated' = TRUE
       /\ Reset
       /\ after = "OK" /\ last = 0
       /\ UNCHANGED <<debugAddressDDR, hwVars>>

-----------------------------------------------------------------------------
(* The message handlers and ReceiveMessage.                                *)

\* Variant with a mistake: the transfer is made for the ring's job item.
ManualArmDmaTransferIntoRing(m, after) ==
    \/ /\ m.arg = Unaligned
       /\ after = "InvalidParameter"
       /\ UNCHANGED <<ringVars, dma>>
    \/ /\ m.arg \in {FromHPS, ToHPS}
       /\ debugAddressDDR' = DebugAddress
       /\ ArmDmaTransfer(pFillingImageJob,
                         IF m.arg = FromHPS THEN DebugAddress ELSE NoWrite,
                         status, after)
       /\ UNCHANGED <<allocated, hasSourceBuffer, scheduledWithDLA,
                      inputAddressDDR, pNextInferenceRequestJob>>

ManualArmDmaTransfer(m, after) ==
    \/ /\ m.arg = Unaligned
       /\ after = "InvalidParameter"
       /\ UNCHANGED <<ringVars, dma>>
    \/ /\ m.arg \in {FromHPS, ToHPS}
       /\ debugAddressDDR' = DebugAddress
       /\ ArmDmaTransfer(DebugJob,
                         IF m.arg = FromHPS THEN DebugAddress ELSE NoWrite,
                         status, after)
       /\ UNCHANGED <<allocated, hasSourceBuffer, scheduledWithDLA,
                      inputAddressDDR, pNextInferenceRequestJob>>

ManualScheduleDlaInference ==
    /\ debugAddressDDR' = DebugAddress
    /\ ScheduleDlaInference(DebugAddress)
    /\ UNCHANGED <<allocated, hasSourceBuffer, scheduledWithDLA, inputAddressDDR,
                   pNextInferenceRequestJob, pFillingImageJob>>

\* The handler that ReceiveMessage dispatches to.  Every handler ends by
\* sending a reply.
Handle(m, after, last) ==
    \/ /\ m.type \in {"GetStatus", "Ping"}
       /\ reply' = IF m.type = "Ping" THEN "Pong" ELSE "Status"
       /\ after = status /\ last = lastReceiveSequenceID
       /\ UNCHANGED <<ringVars, countVars, isrCount, hwVars>>
    \/ /\ m.type = "ScheduleItem"
       /\ NewInferenceRequestReceived(m.arg, after)
       /\ reply' = "NoOperation"
       /\ last = lastReceiveSequenceID
       /\ UNCHANGED <<isrCount, irq>>
    \/ /\ m.type = "InitializeStreamController"
       /\ InitializeStreamController(m.arg, after, last)
       /\ reply' = "NoOperation"
    \/ /\ m.type = "ManualArmDmaTransfer"
       /\ ManualArmDmaTransfer(m, after)
       /\ reply' = "NoOperation"
       /\ last = lastReceiveSequenceID
       /\ UNCHANGED <<countVars, isrCount, irq, dlaFifo>>
    \/ /\ m.type = "ManualScheduleDlaInference"
       /\ ManualScheduleDlaInference
       /\ reply' = "NoOperation"
       /\ after = status /\ last = lastReceiveSequenceID
       /\ UNCHANGED <<running, numInferenceRequests, numReceivedSourceBuffers,
                      numExecutedJobs, isrCount, irq, dma>>

\* The sequence check that follows the handler.
BadSequence(m, last) ==
    /\ last # 0
    /\ (last + 1) % SeqModulus # m.seq
    /\ m.seq # 0 \/ m.type # "InitializeStreamController"

ReceiveMessage(m) ==
    \E after \in StatusTypes, last \in 0 .. SeqModulus - 1 :
        /\ Handle(m, after, last)
        /\ mailbox' = NoMessage
        /\ status' = IF BadSequence(m, last) THEN "BadMessageSequence" ELSE after
        /\ lastReceiveSequenceID' = m.seq

-----------------------------------------------------------------------------
(* RunEventLoop: one iteration is three steps, between which the ISR, the  *)
(* hardware and the host may run.                                          *)

LoopReadIsrCount ==
    /\ pc = "top"
    /\ loopIsrCount' = isrCount
    /\ pc' = "buffer"
    /\ UNCHANGED <<ringVars, countVars, status, lastReceiveSequenceID, isrCount,
                   previousIsrCount, hwVars, mailbox, reply, hostVars>>

LoopNewSourceBuffer ==
    /\ pc = "buffer"
    /\ pc' = "message"
    /\ IF loopIsrCount # previousIsrCount
       THEN NewSourceBuffer
       ELSE UNCHANGED <<ringVars, countVars, status, dma, dlaFifo>>
    /\ UNCHANGED <<lastReceiveSequenceID, isrCount, previousIsrCount,
                   loopIsrCount, irq, mailbox, reply, hostVars>>

\* Variant with a mistake: the interrupt count is read again at the end of
\* the iteration.
LoopReceiveMessageRereads ==
    /\ pc = "message"
    /\ pc' = "top"
    /\ IF mailbox.type # "None"
       THEN ReceiveMessage(mailbox)
       ELSE UNCHANGED <<ringVars, countVars, status, lastReceiveSequenceID,
                        isrCount, hwVars, mailbox, reply>>
    /\ previousIsrCount' = isrCount
    /\ UNCHANGED <<loopIsrCount, hostVars>>

LoopReceiveMessage ==
    /\ pc = "message"
    /\ pc' = "top"
    /\ IF mailbox.type # "None"
       THEN ReceiveMessage(mailbox)
       ELSE UNCHANGED <<ringVars, countVars, status, lastReceiveSequenceID,
                        isrCount, hwVars, mailbox, reply>>
    /\ previousIsrCount' = loopIsrCount
    /\ UNCHANGED <<loopIsrCount, hostVars>>

EventLoop == LoopReadIsrCount \/ LoopNewSourceBuffer \/ LoopReceiveMessage

\* MsgDmaIsr, called by the msgDMA driver.  Interrupts raised before it runs
\* are served by one call.
MsgDmaIsr ==
    /\ irq
    /\ irq' = FALSE
    /\ isrCount' = (isrCount + 1) % IsrModulus
    /\ UNCHANGED <<ringVars, countVars, status, lastReceiveSequenceID, loopVars,
                   dma, dlaFifo, mailbox, reply, hostVars>>

-----------------------------------------------------------------------------
(* The environment: the msgDMA, the DLA and the host.                      *)

\* The oldest armed descriptor completes: its buffer holds a source buffer.
DmaComplete ==
    /\ dma # <<>>
    /\ dma' = Tail(dma)
    /\ irq' = TRUE
    /\ UNCHANGED <<ringVars, countVars, status, lastReceiveSequenceID, isrCount,
                   loopVars, dlaFifo, mailbox, reply, hostVars>>

\* The DLA finishes the inference at the head of its FIFO; the inference
\* request that waits for it becomes idle.
DlaComplete ==
    /\ dlaFifo # <<>>
    /\ dlaFifo' = Tail(dlaFifo)
    /\ hostIdle' = IF Head(dlaFifo) # DebugAddress /\ hostIdle < hostSize
                   THEN hostIdle + 1 ELSE hostIdle
    /\ UNCHANGED <<ringVars, countVars, status, lastReceiveSequenceID, isrCount,
                   loopVars, dma, irq, mailbox, reply,
                   hostPhase, hostSeq, hostSize, hostJob, restarts>>

\* One command at a time: the previous one was acknowledged and answered.
HostSend(type, arg) ==
    /\ mailbox.type = "None" /\ reply = "None"
    /\ mailbox' = [type |-> type, seq |-> hostSeq, arg |-> arg]
    /\ hostSeq' = (hostSeq + 1) % SeqModulus
    /\ UNCHANGED <<ringVars, countVars, status, lastReceiveSequenceID, isrCount,
                   loopVars, hwVars, reply, hostSize, restarts>>

\* InitializeScheduler: IsPresent sends a Ping, then Initialize.
HostPing ==
    /\ hostPhase = "ping"
    /\ HostSend("Ping", 0)
    /\ hostPhase' = "initialize"
    /\ UNCHANGED <<hostJob, hostIdle>>

HostInitialize ==
    /\ hostPhase = "initialize"
    /\ HostSend("InitializeStreamController", hostSize)
    /\ hostPhase' = "run"
    /\ UNCHANGED <<hostJob, hostIdle>>

\* ScheduleInputFeature of the batch job of the next idle inference request.
HostScheduleItem ==
    /\ hostPhase = "run" /\ "ScheduleItem" \in HostCommands
    /\ hostIdle > 0
    /\ HostSend("ScheduleItem", hostJob + 1)
    /\ hostJob' = IF hostJob = hostSize - 1 THEN 0 ELSE hostJob + 1
    /\ hostIdle' = hostIdle - 1
    /\ UNCHANGED hostPhase

HostQuery ==
    /\ hostPhase = "run"
    /\ \E type \in {"GetStatus", "Ping"} \cap HostCommands : HostSend(type, 0)
    /\ UNCHANGED <<hostPhase, hostJob, hostIdle>>

HostManual ==
    /\ hostPhase = "run"
    /\ \/ /\ "ManualArmDmaTransfer" \in HostCommands
          /\ dma = <<>>
          /\ \E arg \in {Unaligned, FromHPS, ToHPS} :
                HostSend("ManualArmDmaTransfer", arg)
       \/ /\ "ManualScheduleDlaInference" \in HostCommands
          /\ Len(dlaFifo) < DlaFifoDepth
          /\ HostSend("ManualScheduleDlaInference", 0)
    /\ UNCHANGED <<hostPhase, hostJob, hostIdle>>

HostReceiveReply ==
    /\ reply # "None" /\ mailbox.type = "None"
    /\ reply' = "None"
    /\ UNCHANGED <<ringVars, countVars, status, lastReceiveSequenceID, isrCount,
                   loopVars, hwVars, mailbox, hostVars>>

\* The host process ends between two commands and another one starts.
HostRestart ==
    /\ restarts < MaxRestarts
    /\ RestartWhileRunning \/ ~running
    /\ hostPhase = "run" /\ mailbox.type = "None" /\ reply = "None"
    /\ restarts' = restarts + 1
    /\ hostPhase' = "ping" /\ hostSeq' = 0 /\ hostJob' = 0
    /\ \E size \in RestartSizes : hostSize' = size /\ hostIdle' = size
    /\ UNCHANGED <<ringVars, countVars, status, lastReceiveSequenceID, isrCount,
                   loopVars, hwVars, mailbox, reply>>

Host == HostPing \/ HostInitialize \/ HostScheduleItem \/ HostQuery
        \/ HostManual \/ HostReceiveReply \/ HostRestart

-----------------------------------------------------------------------------
\* main: Reset with no ring, Start clears the mailbox, InitializeMsgDma.
Init ==
    /\ allocated = FALSE
    /\ hasSourceBuffer = EmptyRing /\ scheduledWithDLA = EmptyRing
    /\ inputAddressDDR = NoAddresses /\ debugAddressDDR = 0
    /\ pNextInferenceRequestJob = Null /\ pFillingImageJob = Null
    /\ status = "OK" /\ running = FALSE
    /\ numInferenceRequests = 0 /\ numReceivedSourceBuffers = 0
    /\ numScheduledInferences = 0 /\ numExecutedJobs = 0
    /\ lastReceiveSequenceID = 0 /\ isrCount = 0
    /\ previousIsrCount = 0 /\ loopIsrCount = 0 /\ pc = "top"
    /\ dma = <<>> /\ irq = FALSE /\ dlaFifo = <<>>
    /\ mailbox = NoMessage /\ reply = "None"
    /\ hostPhase = "ping" /\ hostSeq = 0 /\ hostSize = NumJobs
    /\ hostJob = 0 /\ hostIdle = NumJobs /\ restarts = 0

Next == EventLoop \/ MsgDmaIsr \/ DmaComplete \/ DlaComplete \/ Host

Spec == Init /\ [][Next]_vars

-----------------------------------------------------------------------------
(* Properties.                                                             *)

\* Every variable has its type; the job pointers point into the ring.
TypeOK ==
    /\ allocated \in BOOLEAN
    /\ hasSourceBuffer \in [Slots -> BOOLEAN]
    /\ scheduledWithDLA \in [Slots -> BOOLEAN]
    /\ inputAddressDDR \in [Slots -> Nat]
    /\ debugAddressDDR \in Nat
    /\ pNextInferenceRequestJob \in IF allocated THEN Slots ELSE {Null}
    /\ pFillingImageJob \in {DebugJob} \cup IF allocated THEN Slots ELSE {Null}
    /\ status \in StatusTypes
    /\ running \in BOOLEAN
    /\ numInferenceRequests \in 0 .. NumJobs
    /\ numReceivedSourceBuffers \in 0 .. DropSourceBuffers
    /\ numScheduledInferences \in 0 .. CountModulus - 1
    /\ numExecutedJobs \in 0 .. CountModulus - 1
    /\ lastReceiveSequenceID \in 0 .. SeqModulus - 1
    /\ {isrCount, previousIsrCount, loopIsrCount} \subseteq 0 .. IsrModulus - 1
    /\ pc \in {"top", "buffer", "message"}
    /\ dma \in Seq(Nat \cup {NoWrite})
    /\ irq \in BOOLEAN
    /\ dlaFifo \in Seq(Nat)
    /\ mailbox \in [type : MessageTypes, seq : 0 .. SeqModulus - 1, arg : Nat]
    /\ reply \in ReplyTypes
    /\ hostPhase \in {"ping", "initialize", "run"}
    /\ hostSeq \in 0 .. SeqModulus - 1
    /\ hostSize \in Nat /\ hostJob \in Nat /\ hostIdle \in 0 .. hostSize
    /\ restarts \in 0 .. MaxRestarts

\* The msgDMA never writes a buffer the DLA has been told to read: no armed
\* descriptor targets the input of an inference in the DLA's FIFO.  This is
\* what "keep filling the same job" in NewSourceBuffer relies on.
BufferNeverShared ==
    \A i \in DOMAIN dma, j \in DOMAIN dlaFifo : dma[i] # dlaFifo[j]

\* There is never more than one capture in progress, although both
\* NewSourceBuffer and the request that starts the stream arm the msgDMA.
SingleCapture == Len(dma) <= 1

\* Capture never stops unreported: while the controller runs, a descriptor
\* is armed, or its completion has still to reach NewSourceBuffer, or
\* GetStatus tells the host that something failed.
CaptureStallIsReported ==
    LET handled == IF pc = "message" THEN loopIsrCount ELSE previousIsrCount
    IN  running => dma # <<>> \/ irq \/ isrCount # handled \/ status # "OK"

\* The DLA is never left waiting for a frame that has been captured: the
\* first two captured jobs are the ones scheduled ("Maximum of 2 can have
\* _scheduledWithDLA set"), whatever order buffers and requests came in.
FirstTwoScheduled ==
    running =>
        \A i \in Slots :
            scheduledWithDLA[i] <=>
                /\ hasSourceBuffer[i]
                /\ i \in {pNextInferenceRequestJob,
                          NextJob(pNextInferenceRequestJob)}
=============================================================================
