-------------------------- MODULE StreamFramesProofs --------------------------
(***************************************************************************)
(* Proofs about StreamController.  Type correctness holds for all values of*)
(* the constants.  The safety of streaming (no buffer shared between the   *)
(* msgDMA and the DLA, one capture at a time, the first two captured jobs  *)
(* scheduled, no silent stall) is proved for every ring of at least three  *)
(* jobs, every drop setting and a driver that may refuse descriptors, as   *)
(* long as the host streams and is only replaced before capture starts     *)
(* (StreamingUse). Proofs about StreamFrames, for every kind of session: a *)
(* host that streams, one that also queries and is replaced before capture *)
(* starts (with a driver that may refuse descriptors), and one that debugs.*)
(* The ring has three jobs or more; nothing else is asked of the constants *)
(* but what RingUse says.                                                  *)
(***************************************************************************)
EXTENDS StreamFrames, SequenceTheorems, TLAPS

-----------------------------------------------------------------------------
(* Type correctness.                                                       *)

\* Until the first Initialize is handled nothing can reach the ring: the
\* host is still starting up and the msgDMA has never been armed.
Startup ==
    ~allocated =>
        /\ dma = <<>> /\ ~irq
        /\ isrCount = 0 /\ loopIsrCount = 0 /\ previousIsrCount = 0
        /\ hostSize = NumJobs
        /\ mailbox.type \in {"None", "Ping", "InitializeStreamController"}
        /\ mailbox.type = "InitializeStreamController" =>
              mailbox.arg = NumJobs /\ hostPhase = "run"
        /\ hostPhase = "run" => mailbox.type = "InitializeStreamController"

TypeInv == TypeOK /\ Startup

\* A remainder lies between 0 and the modulus: uint32_t arithmetic stays in
\* the range of its type.
LEMMA RemainderRange ==
    ASSUME NEW a \in Int, NEW m \in Nat \ {0}
    PROVE  a % m \in 0 .. m - 1
  OBVIOUS

\* The controller as main leaves it is well typed.
LEMMA TypeInit == Init => TypeInv
<1> SUFFICES ASSUME Init PROVE TypeInv
  OBVIOUS
<1>1. allocated \in BOOLEAN /\ running \in BOOLEAN /\ irq \in BOOLEAN /\ ~irq
  BY Zenon DEF Init
<1>2. pNextInferenceRequestJob = Null /\ pFillingImageJob = Null /\ ~allocated
  BY Zenon DEF Init
<1>3. /\ hasSourceBuffer \in [Slots -> BOOLEAN]
      /\ scheduledWithDLA \in [Slots -> BOOLEAN]
      /\ inputAddressDDR \in [Slots -> Nat]
  BY DEF Init, EmptyRing, NoAddresses
<1>4. mailbox = NoMessage
  BY DEF Init
<1> QED
  BY <1>1, <1>2, <1>3, <1>4, NumJobsAssumption, DropAssumption, ModulusAssumption,
     EnvironmentAssumption
  DEF Init, TypeInv, TypeOK, Startup, StatusTypes, NoMessage, MessageTypes,
      CommandTypes, ReplyTypes

\* NextJob stays inside the ring.
LEMMA NextJobInRing == \A i \in Slots : NextJob(i) \in Slots
  BY NumJobsAssumption DEF NextJob, Slots

\* The parts of TypeOK: a step leaves most of them alone.
RingTypes ==
    /\ allocated \in BOOLEAN
    /\ hasSourceBuffer \in [Slots -> BOOLEAN]
    /\ scheduledWithDLA \in [Slots -> BOOLEAN]
    /\ inputAddressDDR \in [Slots -> Nat]
    /\ debugAddressDDR \in Nat
    /\ pNextInferenceRequestJob \in IF allocated THEN Slots ELSE {Null}
    /\ pFillingImageJob \in {DebugJob} \cup IF allocated THEN Slots ELSE {Null}

CountTypes ==
    /\ running \in BOOLEAN
    /\ numInferenceRequests \in 0 .. NumJobs
    /\ numReceivedSourceBuffers \in 0 .. DropSourceBuffers
    /\ numScheduledInferences \in 0 .. CountModulus - 1
    /\ numExecutedJobs \in 0 .. CountModulus - 1

LoopTypes ==
    /\ {isrCount, previousIsrCount, loopIsrCount} \subseteq 0 .. IsrModulus - 1
    /\ pc \in {"top", "buffer", "message"}

HardwareTypes ==
    /\ dma \in Seq(Nat \cup {NoWrite})
    /\ irq \in BOOLEAN
    /\ dlaFifo \in Seq(Nat)

MailboxTypes ==
    /\ status \in StatusTypes
    /\ lastReceiveSequenceID \in 0 .. SeqModulus - 1
    /\ mailbox \in [type : MessageTypes, seq : 0 .. SeqModulus - 1, arg : Nat]
    /\ reply \in ReplyTypes

HostTypes ==
    /\ hostPhase \in {"ping", "initialize", "run"}
    /\ hostSeq \in 0 .. SeqModulus - 1
    /\ hostSize \in Nat /\ hostJob \in Nat /\ hostIdle \in 0 .. hostSize
    /\ restarts \in 0 .. MaxRestarts

LEMMA TypeParts ==
    /\ TypeOK => /\ RingTypes /\ CountTypes /\ LoopTypes
                 /\ HardwareTypes /\ MailboxTypes /\ HostTypes
    /\ RingTypes' /\ CountTypes' /\ LoopTypes' /\ HardwareTypes' /\ MailboxTypes'
          /\ HostTypes' => TypeOK'
<1>1. TypeOK <=> /\ RingTypes /\ CountTypes /\ LoopTypes
                 /\ HardwareTypes /\ MailboxTypes /\ HostTypes
  BY Zenon DEF TypeOK, RingTypes, CountTypes, LoopTypes, HardwareTypes, MailboxTypes,
               HostTypes
<1> QED
  BY <1>1, PTL

\* Variables that a step leaves alone keep their types.
LEMMA SameTypes ==
    /\ RingTypes /\ UNCHANGED ringVars => RingTypes'
    /\ CountTypes /\ UNCHANGED countVars => CountTypes'
    /\ LoopTypes /\ UNCHANGED <<loopVars, isrCount>> => LoopTypes'
    /\ HardwareTypes /\ UNCHANGED hwVars => HardwareTypes'
    /\ MailboxTypes /\ UNCHANGED <<status, lastReceiveSequenceID, mailbox, reply>>
         => MailboxTypes'
    /\ HostTypes /\ UNCHANGED hostVars => HostTypes'
<1>1. RingTypes /\ UNCHANGED ringVars => RingTypes'
  BY DEF RingTypes, ringVars
<1>2. CountTypes /\ UNCHANGED countVars => CountTypes'
  BY DEF CountTypes, countVars
<1>3. LoopTypes /\ UNCHANGED <<loopVars, isrCount>> => LoopTypes'
  BY DEF LoopTypes, loopVars
<1>4. HardwareTypes /\ UNCHANGED hwVars => HardwareTypes'
  BY DEF HardwareTypes, hwVars
<1>5. MailboxTypes /\ UNCHANGED <<status, lastReceiveSequenceID, mailbox, reply>>
        => MailboxTypes'
  BY DEF MailboxTypes
<1>6. HostTypes /\ UNCHANGED hostVars => HostTypes'
  BY DEF HostTypes, hostVars
<1> QED
  BY <1>1, <1>2, <1>3, <1>4, <1>5, <1>6

\* The steps of the loop and of the hardware that touch few variables.
LEMMA TypeLoopReadIsrCount == TypeInv /\ LoopReadIsrCount => TypeInv'
<1> SUFFICES ASSUME TypeInv, LoopReadIsrCount PROVE TypeInv'
  OBVIOUS
<1>1. /\ UNCHANGED ringVars /\ UNCHANGED countVars /\ UNCHANGED hwVars
      /\ UNCHANGED hostVars
      /\ UNCHANGED <<status, lastReceiveSequenceID, mailbox, reply>>
      /\ UNCHANGED <<isrCount, previousIsrCount>>
      /\ loopIsrCount' = isrCount /\ pc' = "buffer"
  BY Zenon DEF LoopReadIsrCount
<1>2. LoopTypes'
  BY <1>1, TypeParts DEF TypeInv, LoopTypes
<1>3. TypeOK'
  BY <1>1, <1>2, SameTypes, TypeParts DEF TypeInv
<1>4. Startup'
  BY <1>1 DEF TypeInv, Startup, ringVars, hwVars, hostVars
<1> QED
  BY <1>3, <1>4 DEF TypeInv

\* The interrupt count stays inside its 32 bits.
LEMMA TypeMsgDmaIsr == TypeInv /\ MsgDmaIsr => TypeInv'
<1> SUFFICES ASSUME TypeInv, MsgDmaIsr PROVE TypeInv'
  OBVIOUS
<1>1. irq /\ irq' \in BOOLEAN
  BY Zenon DEF MsgDmaIsr
<1>2. isrCount \in 0 .. IsrModulus - 1 /\ IsrModulus \in Nat \ {0}
  BY ModulusAssumption DEF TypeInv, TypeOK
<1>3. (isrCount + 1) % IsrModulus \in 0 .. IsrModulus - 1
  BY <1>2, RemainderRange
<1> QED
  BY <1>1, <1>3
  DEF TypeInv, TypeOK, Startup, MsgDmaIsr, ringVars, countVars, loopVars, hostVars

\* A completed capture takes one descriptor off the queue.
LEMMA TypeDmaComplete == TypeInv /\ DmaComplete => TypeInv'
  BY DEF TypeInv, TypeOK, Startup, DmaComplete, ringVars, countVars, loopVars, hostVars

\* A finished inference frees at most the requests the host has.
LEMMA TypeDlaComplete == TypeInv /\ DlaComplete => TypeInv'
<1>. SUFFICES ASSUME TypeInv, DlaComplete PROVE TypeInv'
  OBVIOUS
<1>1. hostIdle' \in 0..hostSize
  BY DEF TypeInv, TypeOK, DlaComplete
<1>2. dlaFifo' \in Seq(Nat)
  BY DEF TypeInv, TypeOK, DlaComplete
<1>3. TypeOK'
  BY <1>1, <1>2 DEF TypeInv, TypeOK, DlaComplete, ringVars, countVars, loopVars
<1>4. Startup'
  BY DEF TypeInv, Startup, DlaComplete, ringVars, countVars, loopVars
<1>. QED
  BY <1>3, <1>4 DEF TypeInv

\* A message that the host puts in the mailbox is well formed.
LEMMA TypeHostSend ==
    ASSUME TypeInv, NEW type \in MessageTypes, NEW arg \in Nat, HostSend(type, arg)
    PROVE  /\ mailbox' \in [type : MessageTypes, seq : 0 .. SeqModulus - 1, arg : Nat]
           /\ mailbox'.type = type /\ mailbox'.arg = arg
           /\ hostSeq' \in 0 .. SeqModulus - 1
<1>1. hostSeq \in 0 .. SeqModulus - 1 /\ SeqModulus \in Nat \ {0}
  BY ModulusAssumption DEF TypeInv, TypeOK
<1>2. (hostSeq + 1) % SeqModulus \in 0 .. SeqModulus - 1
  BY <1>1, RemainderRange
<1> QED
  BY <1>1, <1>2 DEF HostSend

\* A command leaves the firmware alone: what remains to show of it is where
\* it leaves the host.
LEMMA TypeCommand ==
    ASSUME TypeInv, NEW type \in MessageTypes, NEW arg \in Nat, HostSend(type, arg),
           hostPhase' \in {"initialize", "run"}, hostJob' \in Nat,
           hostIdle' \in 0 .. hostSize,
           ~allocated => /\ type \in {"Ping", "InitializeStreamController"}
                         /\ type = "InitializeStreamController" =>
                              arg = NumJobs /\ hostPhase' = "run"
                         /\ hostPhase' = "run" => type = "InitializeStreamController"
    PROVE  TypeInv'
<1>1. /\ mailbox' \in [type : MessageTypes, seq : 0 .. SeqModulus - 1, arg : Nat]
      /\ mailbox'.type = type /\ mailbox'.arg = arg
      /\ hostSeq' \in 0 .. SeqModulus - 1
  BY TypeHostSend
<1>2. /\ UNCHANGED ringVars /\ UNCHANGED countVars /\ UNCHANGED hwVars
      /\ UNCHANGED <<loopVars, isrCount>>
      /\ UNCHANGED <<status, lastReceiveSequenceID, reply, hostSize, restarts>>
  BY Zenon DEF HostSend
<1>3. HostTypes'
  BY <1>1, <1>2, TypeParts DEF TypeInv, HostTypes
<1>4. MailboxTypes'
  BY <1>1, <1>2, TypeParts DEF TypeInv, MailboxTypes
<1>5. TypeOK'
  BY <1>2, <1>3, <1>4, SameTypes, TypeParts DEF TypeInv
<1>6. Startup'
  BY <1>1, <1>2 DEF TypeInv, Startup, ringVars, hwVars, loopVars
<1> QED
  BY <1>5, <1>6 DEF TypeInv

\* The host sends well-formed messages and keeps its own counters in range.
LEMMA TypeHost == TypeInv /\ Host => TypeInv'
<1> SUFFICES ASSUME TypeInv, Host PROVE TypeInv'
  OBVIOUS
<1>0. /\ {"ScheduleItem", "Ping", "GetStatus", "InitializeStreamController",
          "ManualArmDmaTransfer", "ManualScheduleDlaInference"} \subseteq MessageTypes
      /\ hostSize \in Nat /\ hostJob \in Nat /\ hostJob + 1 \in Nat
      /\ hostIdle \in 0 .. hostSize
      /\ 0 \in Nat /\ {Unaligned, FromHPS, ToHPS} \subseteq Nat
  BY TypeParts DEF MessageTypes, CommandTypes, TypeInv, HostTypes, Unaligned, FromHPS,
                   ToHPS
\* Before the ring exists the host is not past its Initialize unless that
\* message is still in the mailbox.
<1>a. mailbox.type = "None" /\ hostPhase = "run" => allocated
  BY DEF TypeInv, Startup
<1>b. ~allocated => hostSize = NumJobs
  BY DEF TypeInv, Startup
<1>1. CASE HostPing
  <2>1. HostSend("Ping", 0) /\ hostPhase' = "initialize" /\ UNCHANGED <<hostJob, hostIdle>>
    BY <1>1, Zenon DEF HostPing
  <2> QED
    BY <1>0, <2>1, TypeCommand
<1>2. CASE HostInitialize
  <2>1. /\ HostSend("InitializeStreamController", hostSize)
        /\ hostPhase' = "run" /\ UNCHANGED <<hostJob, hostIdle>>
    BY <1>2, Zenon DEF HostInitialize
  <2> QED
    BY <1>0, <1>b, <2>1, TypeCommand
<1>3. CASE HostScheduleItem
  <2>1. HostSend("ScheduleItem", hostJob + 1) /\ hostPhase = "run" /\ UNCHANGED hostPhase
    BY <1>3, Zenon DEF HostScheduleItem
  <2>2. allocated
    BY <1>a, <2>1 DEF HostSend
  <2>3. hostJob' \in Nat /\ hostIdle' \in 0 .. hostSize
    BY <1>0, <1>3 DEF HostScheduleItem
  <2> QED
    BY <1>0, <2>1, <2>2, <2>3, TypeCommand
<1>4. CASE HostQuery
  <2>1. PICK type \in {"GetStatus", "Ping"} : HostSend(type, 0)
    BY <1>4 DEF HostQuery
  <2>2. hostPhase = "run" /\ UNCHANGED <<hostPhase, hostJob, hostIdle>>
    BY <1>4, Zenon DEF HostQuery
  <2>3. allocated
    BY <1>a, <2>1, <2>2 DEF HostSend
  <2> QED
    BY <1>0, <2>1, <2>2, <2>3, TypeCommand
<1>5. CASE HostManual
  <2>1. PICK type \in {"ManualArmDmaTransfer", "ManualScheduleDlaInference"},
             arg \in Nat : HostSend(type, arg)
    BY <1>0, <1>5, Zenon DEF HostManual
  <2>2. hostPhase = "run" /\ UNCHANGED <<hostPhase, hostJob, hostIdle>>
    BY <1>5, Zenon DEF HostManual
  <2>3. allocated
    BY <1>a, <2>1, <2>2 DEF HostSend
  <2> QED
    BY <1>0, <2>1, <2>2, <2>3, TypeCommand
<1>6. CASE HostReceiveReply
  <2>1. /\ UNCHANGED ringVars /\ UNCHANGED countVars /\ UNCHANGED hwVars
        /\ UNCHANGED <<loopVars, isrCount>> /\ UNCHANGED hostVars
        /\ UNCHANGED <<status, lastReceiveSequenceID, mailbox>>
        /\ reply' = "None"
    BY <1>6, Zenon DEF HostReceiveReply
  <2>2. MailboxTypes'
    BY <2>1, TypeParts DEF TypeInv, MailboxTypes, ReplyTypes
  <2>3. TypeOK'
    BY <2>1, <2>2, SameTypes, TypeParts DEF TypeInv
  <2>4. Startup'
    BY <2>1 DEF TypeInv, Startup, ringVars, hwVars, loopVars, hostVars
  <2> QED
    BY <2>3, <2>4 DEF TypeInv
<1>7. CASE HostRestart
  <2>1. PICK size \in RestartSizes : hostSize' = size /\ hostIdle' = size
    BY <1>7, Zenon DEF HostRestart
  <2>2. /\ restarts < MaxRestarts /\ restarts' = restarts + 1
        /\ hostPhase = "run" /\ mailbox.type = "None"
        /\ hostPhase' = "ping" /\ hostSeq' = 0 /\ hostJob' = 0
    BY <1>7, Zenon DEF HostRestart
  <2>3. /\ UNCHANGED ringVars /\ UNCHANGED countVars /\ UNCHANGED hwVars
        /\ UNCHANGED <<loopVars, isrCount>>
        /\ UNCHANGED <<status, lastReceiveSequenceID, mailbox, reply>>
    BY <1>7, Zenon DEF HostRestart
  <2>4. HostTypes'
    BY <2>1, <2>2, EnvironmentAssumption, ModulusAssumption, TypeParts
    DEF TypeInv, HostTypes
  <2>5. TypeOK'
    BY <2>3, <2>4, SameTypes, TypeParts DEF TypeInv
  <2>6. Startup'
    BY <1>a, <2>2, <2>3 DEF Startup, ringVars
  <2> QED
    BY <2>5, <2>6 DEF TypeInv
<1> QED
  BY <1>1, <1>2, <1>3, <1>4, <1>5, <1>6, <1>7 DEF Host

\* What arming the msgDMA does to the types.
LEMMA TypeArm ==
    ASSUME TypeInv, NEW job, NEW target \in Nat \cup {NoWrite},
           NEW before \in StatusTypes, NEW after,
           ArmDmaTransfer(job, target, before, after)
    PROVE  /\ pFillingImageJob' = job
           /\ dma' \in Seq(Nat \cup {NoWrite})
           /\ after \in StatusTypes
<1>1. dma \in Seq(Nat \cup {NoWrite})
  BY DEF TypeInv, TypeOK
<1>2. CASE dma' = Append(dma, target) /\ after = before
  BY <1>1, <1>2 DEF ArmDmaTransfer
<1>3. CASE dma' = dma /\ after \in DriverErrors
  BY <1>1, <1>3 DEF ArmDmaTransfer, DriverErrors, StatusTypes
<1> QED
  BY <1>2, <1>3, Zenon DEF ArmDmaTransfer

\* What scheduling an inference does to the types.
LEMMA TypeSchedule ==
    ASSUME TypeInv, NEW address \in Nat,
           ScheduleDlaInference(address) \/ NoSchedule
    PROVE  /\ dlaFifo' \in Seq(Nat)
           /\ numScheduledInferences' \in 0 .. CountModulus - 1
<1>1. /\ dlaFifo \in Seq(Nat) /\ numScheduledInferences \in 0 .. CountModulus - 1
      /\ CountModulus \in Nat \ {0}
  BY ModulusAssumption DEF TypeInv, TypeOK
<1>2. (numScheduledInferences + 1) % CountModulus \in 0 .. CountModulus - 1
  BY <1>1, RemainderRange
<1>3. CASE ScheduleDlaInference(address)
  BY <1>1, <1>2, <1>3 DEF ScheduleDlaInference
<1>4. CASE NoSchedule
  BY <1>1, <1>4 DEF NoSchedule
<1> QED
  BY <1>3, <1>4

\* A source buffer that is kept leaves the ring well typed.
LEMMA TypeKeepSourceBuffer ==
    ASSUME TypeInv, allocated, NEW just \in Slots, KeepSourceBuffer(just)
    PROVE  /\ hasSourceBuffer' \in [Slots -> BOOLEAN]
           /\ scheduledWithDLA' \in [Slots -> BOOLEAN]
           /\ pFillingImageJob' \in Slots
           /\ dma' \in Seq(Nat \cup {NoWrite})
           /\ status' \in StatusTypes
           /\ dlaFifo' \in Seq(Nat)
           /\ numScheduledInferences' \in 0 .. CountModulus - 1
<1> DEFINE has == [hasSourceBuffer EXCEPT ![just] = TRUE]
           full == has[NextJob(just)]
           nextFill == IF full THEN just ELSE NextJob(just)
<1>1. /\ hasSourceBuffer \in [Slots -> BOOLEAN] /\ status \in StatusTypes
      /\ scheduledWithDLA \in [Slots -> BOOLEAN] /\ inputAddressDDR \in [Slots -> Nat]
  BY DEF TypeInv, TypeOK
<1>2. NextJob(just) \in Slots
  BY NextJobInRing
<1>3. nextFill \in Slots
  BY <1>2
<1>4. inputAddressDDR[nextFill] \in Nat /\ inputAddressDDR[just] \in Nat
  BY <1>1, <1>3
<1>5. hasSourceBuffer' = [has EXCEPT ![just] = ~full]
  BY DEF KeepSourceBuffer
<1>6. ArmDmaTransfer(nextFill, inputAddressDDR[nextFill], status, status')
  BY DEF KeepSourceBuffer
<1>7. \/ /\ scheduledWithDLA' = [scheduledWithDLA EXCEPT ![just] = TRUE]
         /\ ScheduleDlaInference(inputAddressDDR[just])
      \/ NoSchedule /\ scheduledWithDLA' = scheduledWithDLA
  BY DEF KeepSourceBuffer
<1>8. has \in [Slots -> BOOLEAN]
  BY <1>1
<1> HIDE DEF has, full, nextFill
<1>9. hasSourceBuffer' \in [Slots -> BOOLEAN]
  BY <1>5, <1>8
<1>10. scheduledWithDLA' \in [Slots -> BOOLEAN]
  BY <1>1, <1>7
<1>11. pFillingImageJob' \in Slots /\ dma' \in Seq(Nat \cup {NoWrite})
       /\ status' \in StatusTypes
  BY <1>1, <1>3, <1>4, <1>6, TypeArm
<1>12. dlaFifo' \in Seq(Nat) /\ numScheduledInferences' \in 0 .. CountModulus - 1
  BY <1>4, <1>7, TypeSchedule
<1> QED
  BY <1>9, <1>10, <1>11, <1>12

\* The loop's call of NewSourceBuffer keeps the ring well typed.
LEMMA TypeLoopNewSourceBuffer == TypeInv /\ LoopNewSourceBuffer => TypeInv'
<1> SUFFICES ASSUME TypeInv, LoopNewSourceBuffer PROVE TypeInv'
  OBVIOUS
<1> USE DEF ringVars, countVars, hostVars
<1>1. CASE loopIsrCount = previousIsrCount
  BY <1>1 DEF TypeInv, TypeOK, Startup, LoopNewSourceBuffer
<1>2. CASE loopIsrCount # previousIsrCount
  <2>1. NewSourceBuffer
    BY <1>2 DEF LoopNewSourceBuffer
  <2>2. allocated
    BY <1>2 DEF TypeInv, Startup
  <2>3. pFillingImageJob \in Slots \cup {DebugJob} /\ status \in StatusTypes
        /\ inputAddressDDR \in [Slots -> Nat]
    BY <2>2 DEF TypeInv, TypeOK
  <2>4. numReceivedSourceBuffers' \in 0 .. DropSourceBuffers
    <3>1. numReceivedSourceBuffers + 1 \in Int /\ DropSourceBuffers + 1 \in Nat \ {0}
      BY DropAssumption DEF TypeInv, TypeOK
    <3>2. (numReceivedSourceBuffers + 1) % (DropSourceBuffers + 1)
             \in 0 .. (DropSourceBuffers + 1) - 1
      BY <3>1, RemainderRange
    <3>3. (DropSourceBuffers + 1) - 1 = DropSourceBuffers
      BY DropAssumption
    <3> QED
      BY <2>1, <3>2, <3>3 DEF NewSourceBuffer
  <2>5. /\ hasSourceBuffer' \in [Slots -> BOOLEAN]
        /\ scheduledWithDLA' \in [Slots -> BOOLEAN]
        /\ pFillingImageJob' \in Slots \cup {DebugJob}
        /\ dma' \in Seq(Nat \cup {NoWrite})
        /\ status' \in StatusTypes
        /\ dlaFifo' \in Seq(Nat)
        /\ numScheduledInferences' \in 0 .. CountModulus - 1
    <3>1. CASE pFillingImageJob = DebugJob
      <4>1. UNCHANGED <<hasSourceBuffer, scheduledWithDLA, pFillingImageJob, dma,
                        status, dlaFifo, numScheduledInferences>>
        BY <2>1, <3>1 DEF NewSourceBuffer, NoSchedule
      <4> QED
        BY <4>1, <2>3 DEF TypeInv, TypeOK
    <3>2. CASE pFillingImageJob # DebugJob /\ DropsBuffer
      <4>1. /\ ArmDmaTransfer(pFillingImageJob, inputAddressDDR[pFillingImageJob],
                              status, status')
            /\ UNCHANGED <<hasSourceBuffer, scheduledWithDLA, dlaFifo,
                           numScheduledInferences>>
        BY <2>1, <3>2 DEF NewSourceBuffer, NoSchedule
      <4>2. pFillingImageJob \in Slots /\ inputAddressDDR[pFillingImageJob] \in Nat
        BY <2>3, <3>2
      <4>3. /\ pFillingImageJob' \in Slots /\ dma' \in Seq(Nat \cup {NoWrite})
            /\ status' \in StatusTypes
        BY <2>3, <4>1, <4>2, TypeArm
      <4> QED
        BY <4>1, <4>3 DEF TypeInv, TypeOK
    <3>3. CASE pFillingImageJob # DebugJob /\ ~DropsBuffer
      <4>1. pFillingImageJob \in Slots /\ KeepSourceBuffer(pFillingImageJob)
        BY <2>1, <2>3, <3>3 DEF NewSourceBuffer
      <4> QED
        BY <2>2, <4>1, TypeKeepSourceBuffer
    <3> QED
      BY <3>1, <3>2, <3>3
  <2>6. /\ UNCHANGED <<allocated, inputAddressDDR, pNextInferenceRequestJob,
                       debugAddressDDR, running, numInferenceRequests,
                       numExecutedJobs>>
        /\ UNCHANGED <<lastReceiveSequenceID, isrCount, previousIsrCount,
                       loopIsrCount, irq, mailbox, reply, hostVars>>
        /\ pc' = "message"
    BY <2>1 DEF NewSourceBuffer, LoopNewSourceBuffer
  <2> QED
    BY <2>2, <2>4, <2>5, <2>6 DEF TypeInv, TypeOK, Startup
<1> QED
  BY <1>1, <1>2

\* A request leaves the ring well typed.
LEMMA TypeNewInferenceRequest ==
    ASSUME TypeInv, allocated, NEW address \in Nat, NEW after,
           NewInferenceRequestReceived(address, after)
    PROVE  /\ hasSourceBuffer' \in [Slots -> BOOLEAN]
           /\ scheduledWithDLA' \in [Slots -> BOOLEAN]
           /\ inputAddressDDR' \in [Slots -> Nat]
           /\ pNextInferenceRequestJob' \in Slots
           /\ pFillingImageJob' \in Slots \cup {DebugJob}
           /\ running' \in BOOLEAN
           /\ numInferenceRequests' \in 0 .. NumJobs
           /\ numExecutedJobs' \in 0 .. CountModulus - 1
           /\ dma' \in Seq(Nat \cup {NoWrite})
           /\ after \in StatusTypes
           /\ dlaFifo' \in Seq(Nat)
           /\ numScheduledInferences' \in 0 .. CountModulus - 1
<1> DEFINE this == pNextInferenceRequestJob
           next == NextJob(this)
           second == NextJob(next)
           moved == inputAddressDDR[this] # 0 /\ inputAddressDDR[this] # address
           stored == IF moved THEN "Error" ELSE status
           addresses == [inputAddressDDR EXCEPT ![this] = address]
           has == [hasSourceBuffer EXCEPT ![this] = FALSE]
           sched == [scheduledWithDLA EXCEPT ![this] = FALSE]
           Ready(i) == ~sched[i] /\ has[i]
           job == IF Ready(next) THEN next ELSE second
<1>1. /\ hasSourceBuffer \in [Slots -> BOOLEAN] /\ status \in StatusTypes
      /\ scheduledWithDLA \in [Slots -> BOOLEAN] /\ inputAddressDDR \in [Slots -> Nat]
      /\ this \in Slots /\ pFillingImageJob \in Slots \cup {DebugJob}
      /\ dma \in Seq(Nat \cup {NoWrite})
  BY DEF TypeInv, TypeOK
<1>2. next \in Slots /\ second \in Slots /\ 0 \in Slots
  <2>1. 0 \in Slots
    BY NumJobsAssumption DEF Slots
  <2> QED
    BY <1>1, <2>1, NextJobInRing
<1>3. /\ addresses \in [Slots -> Nat] /\ has \in [Slots -> BOOLEAN]
      /\ sched \in [Slots -> BOOLEAN] /\ stored \in StatusTypes
      /\ addresses[0] \in Nat
  BY <1>1, <1>2 DEF StatusTypes
<1>4. job \in Slots
  BY <1>2
<1>5. hasSourceBuffer' = has /\ inputAddressDDR' = addresses
      /\ pNextInferenceRequestJob' = next
  BY DEF NewInferenceRequestReceived
<1>6. \/ /\ scheduledWithDLA' = [sched EXCEPT ![job] = TRUE]
         /\ ScheduleDlaInference(addresses[job])
      \/ scheduledWithDLA' = sched /\ NoSchedule
  BY Zenon DEF NewInferenceRequestReceived
<1>7. \/ ArmDmaTransfer(0, addresses[0], stored, after)
      \/ UNCHANGED <<pFillingImageJob, dma>> /\ after = stored
  BY Zenon DEF NewInferenceRequestReceived
<1>8. addresses[job] \in Nat
  BY <1>3, <1>4
<1> HIDE DEF next, second, stored, addresses, has, sched, job
<1>9. scheduledWithDLA' \in [Slots -> BOOLEAN]
  BY <1>3, <1>6
<1>10. dlaFifo' \in Seq(Nat) /\ numScheduledInferences' \in 0 .. CountModulus - 1
  BY <1>6, <1>8, TypeSchedule
<1>11. /\ pFillingImageJob' \in Slots \cup {DebugJob} /\ after \in StatusTypes
       /\ dma' \in Seq(Nat \cup {NoWrite})
  <2>1. CASE ArmDmaTransfer(0, addresses[0], stored, after)
    BY <1>2, <1>3, <2>1, TypeArm
  <2>2. CASE UNCHANGED <<pFillingImageJob, dma>> /\ after = stored
    BY <1>1, <1>3, <2>2
  <2> QED
    BY <1>7, <2>1, <2>2
<1>12. numInferenceRequests' \in 0 .. NumJobs
  <2>1. numInferenceRequests' \in {numInferenceRequests + 1, NumJobs, 0}
        /\ (numInferenceRequests' = numInferenceRequests + 1
               => numInferenceRequests < NumJobs \/ numInferenceRequests' \in {NumJobs, 0})
    BY Zenon DEF NewInferenceRequestReceived, IncrementRequests
  <2>2. numInferenceRequests \in 0 .. NumJobs
    BY TypeParts DEF TypeInv, CountTypes
  <2>3. CASE numInferenceRequests' \in {NumJobs, 0}
    BY <2>3, NumJobsAssumption
  <2>4. CASE numInferenceRequests' = numInferenceRequests + 1
                 /\ numInferenceRequests < NumJobs
    BY <2>2, <2>4, NumJobsAssumption
  <2> QED
    BY <2>1, <2>3, <2>4
<1>13. running' \in BOOLEAN
  <2>1. (numInferenceRequests' >= NumJobs) \in BOOLEAN
    OBVIOUS
  <2> QED
    BY <2>1, Zenon DEF NewInferenceRequestReceived
<1>14. numExecutedJobs' \in 0 .. CountModulus - 1
  <2>1. numExecutedJobs \in 0 .. CountModulus - 1 /\ CountModulus \in Nat \ {0}
    BY ModulusAssumption DEF TypeInv, TypeOK
  <2>2. (numExecutedJobs + 1) % CountModulus \in 0 .. CountModulus - 1
    BY <2>1, RemainderRange
  <2> QED
    BY <2>1, <2>2 DEF NewInferenceRequestReceived
<1> QED
  BY <1>2, <1>3, <1>5, <1>9, <1>10, <1>11, <1>12, <1>13, <1>14

\* The loop's call of ReceiveMessage keeps the ring and the status well typed.
LEMMA TypeLoopReceiveMessage == TypeInv /\ LoopReceiveMessage => TypeInv'
<1> SUFFICES ASSUME TypeInv, LoopReceiveMessage PROVE TypeInv'
  OBVIOUS
<1> USE DEF ringVars, countVars, hostVars, hwVars
<1>1. /\ pc' = "top" /\ previousIsrCount' = loopIsrCount
      /\ UNCHANGED <<loopIsrCount, hostVars>>
  BY DEF LoopReceiveMessage
<1>2. CASE mailbox.type = "None"
  BY <1>1, <1>2 DEF TypeInv, TypeOK, Startup, LoopReceiveMessage
<1>3. CASE mailbox.type # "None"
  <2>1. PICK after \in StatusTypes, last \in 0 .. SeqModulus - 1 :
           /\ Handle(mailbox, after, last)
           /\ mailbox' = NoMessage
           /\ status' = IF BadSequence(mailbox, last) THEN "BadMessageSequence" ELSE after
           /\ lastReceiveSequenceID' = mailbox.seq
    BY <1>3 DEF LoopReceiveMessage, ReceiveMessage
  <2>2. /\ status' \in StatusTypes /\ lastReceiveSequenceID' \in 0 .. SeqModulus - 1
        /\ mailbox' \in [type : MessageTypes, seq : 0 .. SeqModulus - 1, arg : Nat]
        /\ mailbox'.type = "None" /\ reply' \in ReplyTypes
    <3>1. mailbox.seq \in 0 .. SeqModulus - 1 /\ 0 \in 0 .. SeqModulus - 1
      BY ModulusAssumption DEF TypeInv, TypeOK
    <3>2. reply' \in {"Pong", "Status", "NoOperation"}
      BY <2>1, Zenon DEF Handle
    <3> QED
      BY <2>1, <3>1, <3>2
      DEF StatusTypes, NoMessage, MessageTypes, CommandTypes, ReplyTypes
  <2> HIDE DEF ringVars, countVars, hwVars
  <2>3. CASE UNCHANGED <<ringVars, countVars, isrCount, hwVars>>
             /\ mailbox.type # "InitializeStreamController"
    BY <1>1, <1>3, <2>2, <2>3
    DEF TypeInv, TypeOK, Startup, ringVars, countVars, hwVars
  <2>4. CASE mailbox.type = "ScheduleItem"
    <3>1. /\ NewInferenceRequestReceived(mailbox.arg, after)
          /\ UNCHANGED <<isrCount, irq>>
      BY <2>1, <2>4 DEF Handle
    <3>2. allocated /\ mailbox.arg \in Nat
      BY <2>4 DEF TypeInv, TypeOK, Startup
    <3>3. UNCHANGED <<allocated, debugAddressDDR, numReceivedSourceBuffers>>
      BY <3>1, Zenon DEF NewInferenceRequestReceived
    <3> QED
      BY <1>1, <2>2, <3>1, <3>2, <3>3, TypeNewInferenceRequest
      DEF TypeInv, TypeOK, Startup
  <2>5. CASE mailbox.type = "InitializeStreamController"
    <3>1. InitializeStreamController(mailbox.arg, after, last)
      BY <2>1, <2>5 DEF Handle
    <3>2. CASE UNCHANGED <<ringVars, countVars, isrCount, hwVars>> /\ allocated
      BY <1>1, <2>2, <3>2 DEF TypeInv, TypeOK, Startup, ringVars, countVars, hwVars
    <3>3. CASE /\ allocated' = TRUE /\ Reset
               /\ UNCHANGED <<debugAddressDDR, hwVars>>
      <4>1. allocated' /\ allocated' \in BOOLEAN /\ running' \in BOOLEAN
        BY <3>3, Zenon DEF Reset
      <4>2. /\ hasSourceBuffer' \in [Slots -> BOOLEAN]
            /\ scheduledWithDLA' \in [Slots -> BOOLEAN]
            /\ inputAddressDDR' \in [Slots -> Nat]
        BY <3>3 DEF Reset, EmptyRing, NoAddresses
      <4>3. /\ 0 \in Slots /\ 0 \in 0 .. NumJobs /\ 0 \in 0 .. DropSourceBuffers
            /\ 0 \in 0 .. CountModulus - 1 /\ 0 \in 0 .. IsrModulus - 1
        BY NumJobsAssumption, DropAssumption, ModulusAssumption DEF Slots
      <4>4. /\ pNextInferenceRequestJob' = 0 /\ pFillingImageJob' = 0
            /\ numInferenceRequests' = 0 /\ numReceivedSourceBuffers' = 0
            /\ numScheduledInferences' = 0 /\ numExecutedJobs' = 0 /\ isrCount' = 0
        BY <3>3 DEF Reset
      <4> QED
        BY <1>1, <2>2, <3>3, <4>1, <4>2, <4>3, <4>4
        DEF TypeInv, TypeOK, Startup, hwVars
    <3>4. mailbox.arg = NumJobs \/ allocated
      BY <2>5 DEF TypeInv, Startup
    <3> QED
      BY <3>1, <3>2, <3>3, <3>4, NumJobsAssumption DEF InitializeStreamController
  <2>6. CASE mailbox.type = "ManualArmDmaTransfer"
    <3>1. /\ ManualArmDmaTransfer(mailbox, after)
          /\ UNCHANGED <<countVars, isrCount, irq, dlaFifo>>
      BY <2>1, <2>6 DEF Handle
    <3>2. CASE UNCHANGED <<ringVars, dma>>
      BY <1>1, <2>2, <2>6, <3>1, <3>2
      DEF TypeInv, TypeOK, Startup, ringVars, countVars
    <3>3. ASSUME NEW target \in {DebugAddress, NoWrite},
                 /\ debugAddressDDR' = DebugAddress
                 /\ ArmDmaTransfer(DebugJob, target, status, after)
                 /\ UNCHANGED <<allocated, hasSourceBuffer, scheduledWithDLA,
                                inputAddressDDR, pNextInferenceRequestJob>>
          PROVE  TypeInv'
      <4>1. target \in Nat \cup {NoWrite} /\ status \in StatusTypes
            /\ DebugAddress \in Nat
        BY EnvironmentAssumption DEF TypeInv, TypeOK
      <4>2. pFillingImageJob' = DebugJob /\ dma' \in Seq(Nat \cup {NoWrite})
        BY <3>3, <4>1, TypeArm
      <4>3. allocated
        BY <2>6 DEF TypeInv, Startup
      <4> QED
        BY <1>1, <2>2, <3>1, <3>3, <4>1, <4>2, <4>3
        DEF TypeInv, TypeOK, Startup, countVars
    <3> QED
      BY <3>1, <3>2, <3>3 DEF ManualArmDmaTransfer
  <2>7. CASE mailbox.type = "ManualScheduleDlaInference"
    <3>1. /\ ManualScheduleDlaInference
          /\ UNCHANGED <<running, numInferenceRequests, numReceivedSourceBuffers,
                         numExecutedJobs, isrCount, irq, dma>>
      BY <2>1, <2>7 DEF Handle
    <3>2. DebugAddress \in Nat
      BY EnvironmentAssumption
    <3>3. dlaFifo' \in Seq(Nat) /\ numScheduledInferences' \in 0 .. CountModulus - 1
      BY <3>1, <3>2, TypeSchedule DEF ManualScheduleDlaInference
    <3>4. allocated
      BY <2>7 DEF TypeInv, Startup
    <3> QED
      BY <1>1, <2>2, <3>1, <3>2, <3>3, <3>4
      DEF TypeInv, TypeOK, Startup, ManualScheduleDlaInference
  <2> QED
    BY <2>1, <2>3, <2>4, <2>5, <2>6, <2>7 DEF Handle
<1> QED
  BY <1>2, <1>3

\* Every step keeps the types.
LEMMA TypeNext == TypeInv /\ [Next]_vars => TypeInv'
<1> SUFFICES ASSUME TypeInv, [Next]_vars PROVE TypeInv'
  OBVIOUS
<1>1. CASE UNCHANGED vars
  BY <1>1
  DEF TypeInv, TypeOK, Startup, vars, ringVars, countVars, loopVars, hwVars, hostVars
<1>2. CASE Next
  BY <1>2, TypeLoopReadIsrCount, TypeLoopNewSourceBuffer, TypeLoopReceiveMessage,
     TypeMsgDmaIsr, TypeDmaComplete, TypeDlaComplete, TypeHost
  DEF Next, EventLoop
<1> QED
  BY <1>1, <1>2

\* Every state the controller, its hardware and its host reach is well
\* typed, for all values of the constants: in particular no handler follows
\* a job pointer outside the ring, although debug commands, restarts and
\* refused descriptors may come in any order.
THEOREM TypeCorrect == Spec => []TypeOK
<1>1. TypeInv => TypeOK
  BY DEF TypeInv
<1> QED
  BY <1>1, TypeInit, TypeNext, PTL DEF Spec

-----------------------------------------------------------------------------
(* The inductive invariant of streaming.                                   *)

\* A ring of three or more jobs and fewer than 2^32 requests; the debug buffer
\* is none of the ring's.
RingUse ==
    /\ NumJobs >= 3
    /\ RequestCountWraps = FALSE
    /\ DebugAddress > NumJobs

\* A step of a host that streams: it sends no debug commands, and if it is
\* restarted then before capture starts and with the same number of jobs.
StreamingStep ==
    /\ mailbox'.type \notin {"ManualArmDmaTransfer", "ManualScheduleDlaInference"}
    /\ restarts' > restarts => hostSize' = NumJobs /\ ~running

\* The constants under which every step of the host is one.
StreamingUse ==
    /\ RingUse
    /\ HostCommands \subseteq {"ScheduleItem", "GetStatus", "Ping"}
    /\ RestartSizes \subseteq {NumJobs} /\ RestartWhileRunning = FALSE

\* Requests sent and not yet handled.
Pend == IF mailbox.type = "ScheduleItem" THEN 1 ELSE 0

\* The job items from p up to, not including, f, around the ring.
Between(p, f, i) == IF p <= f THEN p <= i /\ i < f ELSE p <= i \/ i < f

\* The job items between the next to be recycled and the one being filled.
Filled(i) == Between(pNextInferenceRequestJob, pFillingImageJob, i)

\* How many of the first two job items are filled.
NumAhead == IF pNextInferenceRequestJob = pFillingImageJob THEN 0
            ELSE IF NextJob(pNextInferenceRequestJob) = pFillingImageJob THEN 1
            ELSE 2

\* The interrupt count that NewSourceBuffer has caught up with.
CaughtUp == IF pc = "message" THEN loopIsrCount ELSE previousIsrCount

\* The controller has handled the Initialize of the host that now runs.
InSync == hostPhase = "run" /\ mailbox.type # "InitializeStreamController"

\* Each host initializes and then sends the jobs in the order of the ring; a
\* host that has not initialized finds a controller that does not run.
HostInStep ==
    /\ hostSize = NumJobs
    /\ mailbox.type \in {"None", "Ping", "GetStatus", "ScheduleItem",
                         "InitializeStreamController"}
    /\ mailbox.type = "InitializeStreamController" =>
          mailbox.arg = NumJobs /\ hostPhase = "run" /\ ~running
    /\ hostPhase # "run" => mailbox.type \in {"None", "Ping"} /\ ~running
    /\ InSync => allocated
    /\ ~InSync => hostJob = 0 /\ hostIdle = NumJobs
    /\ ~allocated => numInferenceRequests = 0 /\ ~running
    /\ allocated => pFillingImageJob \in Slots
    /\ running <=> numInferenceRequests = NumJobs
    /\ InSync =>
          IF mailbox.type = "ScheduleItem"
          THEN /\ mailbox.arg = pNextInferenceRequestJob + 1
               /\ hostJob = NextJob(pNextInferenceRequestJob)
          ELSE hostJob = pNextInferenceRequestJob

\* Before the ring is full of requests nothing is captured or scheduled.
NotStarted ==
    ~running =>
        /\ hasSourceBuffer = EmptyRing /\ scheduledWithDLA = EmptyRing
        /\ dma = <<>> /\ ~irq /\ dlaFifo = <<>>
        /\ isrCount = 0 /\ loopIsrCount = 0 /\ previousIsrCount = 0
        /\ allocated => pNextInferenceRequestJob = numInferenceRequests
        /\ InSync => numInferenceRequests + hostIdle + Pend = NumJobs
        /\ \A i \in Slots : inputAddressDDR[i] =
                               IF i < numInferenceRequests THEN i + 1 ELSE 0

\* Until the stream starts, the host that has initialized is answered without
\* an error: its messages have the sequence IDs the controller expects.
CleanStart ==
    /\ mailbox.type # "None" => hostSeq = (mailbox.seq + 1) % SeqModulus
    /\ InSync =>
          IF mailbox.type = "None"
          THEN hostSeq = (lastReceiveSequenceID + 1) % SeqModulus
          ELSE mailbox.seq = (lastReceiveSequenceID + 1) % SeqModulus
    /\ InSync /\ ~running => status = "OK"

\* The k-th of the two jobs that may be scheduled when p is the next to be
\* recycled.
Ahead(p, k) == IF k = 1 THEN p ELSE NextJob(p)

\* While streaming: the captured jobs are a window of the ring, the first
\* two of them are scheduled, the DLA's FIFO holds those of the two that are
\* not finished, and the finished ones are idle requests or on their way
\* back.
Window ==
    running =>
        /\ \A i \in Slots : inputAddressDDR[i] = i + 1
        /\ \A i \in Slots : hasSourceBuffer[i] <=> Filled(i)
        /\ \A i \in Slots :
              scheduledWithDLA[i] <=>
                  hasSourceBuffer[i] /\ i \in {pNextInferenceRequestJob,
                                               NextJob(pNextInferenceRequestJob)}
        /\ hostIdle + Pend + Len(dlaFifo) = NumAhead
        /\ \A k \in 1 .. Len(dlaFifo) :
              dlaFifo[k] = Ahead(pNextInferenceRequestJob,
                                 NumAhead - Len(dlaFifo) + k) + 1

\* One capture at a time: an armed descriptor, its interrupt, or an
\* interrupt count that the loop has still to act on.
OneCapture ==
    /\ Len(dma) <= 1
    /\ dma # <<>> => ~irq /\ isrCount = CaughtUp
    /\ irq => isrCount = CaughtUp
    /\ running /\ dma # <<>> => dma[1] = pFillingImageJob + 1
    /\ pc = "top" => loopIsrCount = previousIsrCount
    /\ pc = "buffer" => loopIsrCount \in {previousIsrCount, isrCount}
    /\ running /\ status = "OK" => dma # <<>> \/ irq \/ isrCount # CaughtUp

StreamInv == HostInStep /\ NotStarted /\ CleanStart /\ Window /\ OneCapture

-----------------------------------------------------------------------------
(* The ring, as arithmetic on its two positions.                           *)

\* Filling one more job item extends the window by it.
LEMMA BetweenGrow ==
    ASSUME NEW p \in Slots, NEW f \in Slots, NextJob(f) # p, NEW i \in Slots
    PROVE  Between(p, NextJob(f), i) <=> Between(p, f, i) \/ i = f
  BY NumJobsAssumption DEF Between, NextJob, Slots

\* Recycling the first job item takes it out of the window.
LEMMA BetweenShrink ==
    ASSUME NEW p \in Slots, NEW f \in Slots, p # f, NEW i \in Slots
    PROVE  Between(NextJob(p), f, i) <=> Between(p, f, i) /\ i # p
  BY NumJobsAssumption DEF Between, NextJob, Slots

\* When a job item is in the window, for the ones the code looks at.
LEMMA BetweenEnds ==
    ASSUME NumJobs >= 3, NEW p \in Slots, NEW f \in Slots
    PROVE  /\ ~Between(p, f, f)
           /\ Between(p, f, p) <=> p # f
           /\ Between(p, f, NextJob(p)) <=> p # f /\ NextJob(p) # f
           /\ Between(p, f, NextJob(f)) <=> NextJob(f) = p
           /\ NextJob(p) # p /\ NextJob(NextJob(p)) # p
           /\ NextJob(NextJob(p)) # NextJob(p)
           /\ NextJob(p) \in Slots /\ NextJob(NextJob(p)) \in Slots
           /\ (NextJob(f) = p => p # f /\ NextJob(p) # f)
  BY NumJobsAssumption DEF Between, NextJob, Slots

\* The third job item is in the window when the first two and it are filled.
LEMMA BetweenThird ==
    ASSUME NumJobs >= 3, NEW p \in Slots, NEW f \in Slots
    PROVE  Between(p, f, NextJob(NextJob(p))) <=>
              p # f /\ NextJob(p) # f /\ NextJob(NextJob(p)) # f
  BY NumJobsAssumption DEF Between, NextJob, Slots

\* In the invariant, the code's count of scheduled job items is NumAhead.
LEMMA AheadCount ==
    ASSUME TypeInv, StreamInv, running, NumJobs >= 3
    PROVE  /\ NumScheduledAhead = NumAhead
           /\ NumAhead \in 0 .. 2
           /\ pNextInferenceRequestJob \in Slots /\ pFillingImageJob \in Slots
           /\ allocated
<1>1. allocated /\ pNextInferenceRequestJob \in Slots /\ pFillingImageJob \in Slots
  BY DEF TypeInv, TypeOK, StreamInv, HostInStep
<1>2. NextJob(pNextInferenceRequestJob) \in Slots
  BY <1>1, NextJobInRing
<1>3. /\ scheduledWithDLA[pNextInferenceRequestJob] <=>
            pNextInferenceRequestJob # pFillingImageJob
      /\ scheduledWithDLA[NextJob(pNextInferenceRequestJob)] <=>
            /\ pNextInferenceRequestJob # pFillingImageJob
            /\ NextJob(pNextInferenceRequestJob) # pFillingImageJob
  BY <1>1, <1>2, BetweenEnds DEF StreamInv, Window, Filled, Ahead
<1> QED
  BY <1>1, <1>3 DEF NumScheduledAhead, NumAhead

-----------------------------------------------------------------------------
(* The invariant of streaming is preserved by every step.                  *)

\* The firmware's start state satisfies the streaming invariant.
LEMMA StreamInit == RingUse /\ Init => StreamInv
<1> SUFFICES ASSUME RingUse, Init PROVE StreamInv
  OBVIOUS
<1>1. ~allocated /\ ~running /\ ~irq
  BY Zenon DEF Init
<1>2. /\ mailbox.type = "None" /\ hostPhase = "ping" /\ hostSize = NumJobs
      /\ restarts = 0 /\ hostJob = 0 /\ numInferenceRequests = 0
      /\ hostIdle = NumJobs /\ dma = <<>> /\ dlaFifo = <<>>
      /\ isrCount = 0 /\ loopIsrCount = 0 /\ previousIsrCount = 0 /\ pc = "top"
      /\ hasSourceBuffer = EmptyRing /\ scheduledWithDLA = EmptyRing
      /\ inputAddressDDR = NoAddresses
  BY DEF Init, NoMessage
<1>3. HostInStep
  BY <1>1, <1>2, NumJobsAssumption DEF HostInStep, InSync, RingUse
<1>4. NotStarted
  BY <1>1, <1>2, NumJobsAssumption DEF NotStarted, InSync, Pend, NoAddresses, Slots
<1>7. CleanStart
  BY <1>2 DEF CleanStart, InSync
<1>5. Window
  BY <1>1 DEF Window
<1>6. OneCapture
  BY <1>1, <1>2 DEF OneCapture, CaughtUp
<1> QED
  BY <1>3, <1>4, <1>5, <1>6, <1>7 DEF StreamInv

\* Reading the interrupt count.
LEMMA StreamLoopReadIsrCount ==
    ASSUME TypeInv, StreamInv, LoopReadIsrCount
    PROVE  StreamInv'
<1> USE DEF LoopReadIsrCount, ringVars, countVars, hwVars, hostVars
<1>1. HostInStep'
  BY DEF StreamInv, HostInStep, InSync, NextJob
<1>2. NotStarted'
  BY DEF StreamInv, NotStarted, InSync, Pend
<1>5. CleanStart'
  BY DEF StreamInv, CleanStart, InSync
<1>3. Window'
  BY DEF StreamInv, Window, Filled, Between, NumAhead, Ahead, NextJob, Pend
<1>4. OneCapture'
  BY DEF StreamInv, OneCapture, CaughtUp
<1> QED
  BY <1>1, <1>2, <1>3, <1>4, <1>5 DEF StreamInv

\* The interrupt count moves on, so the loop will notice.
LEMMA IncrementDiffers ==
    ASSUME NEW m \in Nat \ {0, 1}, NEW x \in 0 .. m - 1
    PROVE  (x + 1) % m # x
<1>1. CASE x + 1 < m
  BY <1>1
<1>2. CASE x + 1 = m
  <2>1. m % m = 0
    OBVIOUS
  <2> QED
    BY <1>2, <2>1
<1> QED
  BY <1>1, <1>2

\* The ISR moves the pending completion from the irq line to the count.
LEMMA StreamMsgDmaIsr ==
    ASSUME TypeInv, StreamInv, MsgDmaIsr
    PROVE  StreamInv'
<1> USE DEF ringVars, countVars, loopVars, hostVars
<1>1. irq /\ ~irq' /\ dma' = dma /\ isrCount' = (isrCount + 1) % IsrModulus
  BY Zenon DEF MsgDmaIsr
<1>2. UNCHANGED <<ringVars, countVars, status, lastReceiveSequenceID, loopVars, dlaFifo,
                  mailbox, hostVars>>
  BY DEF MsgDmaIsr
<1>3. running
  BY <1>1 DEF StreamInv, NotStarted
<1>4. isrCount' # isrCount
  BY <1>1, IncrementDiffers, ModulusAssumption DEF TypeInv, TypeOK
<1>5. HostInStep'
  BY <1>2 DEF StreamInv, HostInStep, InSync, NextJob
<1>6. NotStarted'
  BY <1>2, <1>3 DEF StreamInv, NotStarted
<1>9. CleanStart'
  BY <1>2 DEF StreamInv, CleanStart, InSync
<1>7. Window'
  BY <1>2 DEF StreamInv, Window, Filled, Between, NumAhead, Ahead, NextJob, Pend
<1>8. OneCapture'
  BY <1>1, <1>2, <1>4 DEF StreamInv, OneCapture, CaughtUp
<1> QED
  BY <1>5, <1>6, <1>7, <1>8, <1>9 DEF StreamInv

\* A capture ends.
LEMMA StreamDmaComplete ==
    ASSUME TypeInv, StreamInv, DmaComplete
    PROVE  StreamInv'
<1> USE DEF ringVars, countVars, loopVars, hostVars
<1>1. dma # <<>> /\ dma' = Tail(dma) /\ irq'
  BY Zenon DEF DmaComplete
<1>2. UNCHANGED <<ringVars, countVars, status, lastReceiveSequenceID, isrCount, loopVars,
                  dlaFifo, mailbox, hostVars>>
  BY DEF DmaComplete
<1>3. running
  BY <1>1 DEF StreamInv, NotStarted
<1>4. dma' = <<>>
  <2>1. dma \in Seq(Nat \cup {NoWrite}) /\ Len(dma) <= 1
    BY TypeParts DEF StreamInv, OneCapture, TypeInv, HardwareTypes
  <2> QED
    BY <1>1, <2>1
<1>5. HostInStep'
  BY <1>2 DEF StreamInv, HostInStep, InSync, NextJob
<1>6. NotStarted'
  BY <1>2, <1>3 DEF StreamInv, NotStarted
<1>9. CleanStart'
  BY <1>2 DEF StreamInv, CleanStart, InSync
<1>7. Window'
  BY <1>2 DEF StreamInv, Window, Filled, Between, NumAhead, Ahead, NextJob, Pend
<1>8. OneCapture'
  BY <1>1, <1>2, <1>4 DEF StreamInv, OneCapture, CaughtUp
<1> QED
  BY <1>5, <1>6, <1>7, <1>8, <1>9 DEF StreamInv

\* The inference that ends is that of the first job item whose inference had
\* not ended, and its request becomes idle.
LEMMA FinishedInference ==
    ASSUME RingUse, TypeInv, StreamInv, DlaComplete
    PROVE  /\ running /\ NumAhead \in 0 .. 2
           /\ pNextInferenceRequestJob \in Slots
           /\ NextJob(pNextInferenceRequestJob) \in Slots
           /\ dlaFifo \in Seq(Nat) /\ Len(dlaFifo) \in Nat /\ Len(dlaFifo) > 0
           /\ Len(dlaFifo') = Len(dlaFifo) - 1
           /\ \A k \in 1 .. Len(dlaFifo') : dlaFifo'[k] = dlaFifo[k + 1]
           /\ hostIdle + Pend + Len(dlaFifo) = NumAhead
           /\ hostIdle \in Nat /\ Pend \in 0 .. 1
           /\ hostIdle' = hostIdle + 1
           /\ Head(dlaFifo) =
                Ahead(pNextInferenceRequestJob, hostIdle + Pend + 1) + 1
<1>1. dlaFifo # <<>> /\ dlaFifo' = Tail(dlaFifo)
  BY DEF DlaComplete
<1>3. running
  BY <1>1 DEF StreamInv, NotStarted
<1>4. /\ NumAhead \in 0 .. 2 /\ pNextInferenceRequestJob \in Slots
      /\ NextJob(pNextInferenceRequestJob) \in Slots
  BY <1>3, AheadCount, NextJobInRing DEF RingUse
<1>5. dlaFifo \in Seq(Nat) /\ Len(dlaFifo) > 0 /\ Len(dlaFifo') = Len(dlaFifo) - 1
      /\ Len(dlaFifo) \in Nat
      /\ \A k \in 1 .. Len(dlaFifo') : dlaFifo'[k] = dlaFifo[k + 1]
  <2>1. dlaFifo \in Seq(Nat)
    BY TypeParts DEF TypeInv, HardwareTypes
  <2> QED
    BY <1>1, <2>1
<1>6. Head(dlaFifo) # DebugAddress
      /\ Head(dlaFifo) = Ahead(pNextInferenceRequestJob, NumAhead - Len(dlaFifo) + 1) + 1
  <2>1. Head(dlaFifo) = dlaFifo[1] /\ 1 \in 1 .. Len(dlaFifo)
    BY <1>1, <1>5
  <2>2. dlaFifo[1] = Ahead(pNextInferenceRequestJob, NumAhead - Len(dlaFifo) + 1) + 1
    BY <1>3, <2>1 DEF StreamInv, Window
  <2>3. dlaFifo[1] - 1 \in Slots
    BY <1>4, <2>2 DEF Ahead, Slots
  <2>4. dlaFifo[1] # DebugAddress
    BY <2>3, NumJobsAssumption, EnvironmentAssumption DEF Slots, RingUse
  <2> QED
    BY <2>1, <2>2, <2>4
<1>7. hostIdle + Pend + Len(dlaFifo) = NumAhead /\ hostIdle \in Nat /\ Pend \in 0 .. 1
      /\ hostSize = NumJobs
  <2>1. hostIdle + Pend + Len(dlaFifo) = NumAhead /\ hostSize = NumJobs
    BY <1>3 DEF StreamInv, Window, HostInStep
  <2>2. hostIdle \in Nat
    BY TypeParts DEF TypeInv, HostTypes
  <2>3. Pend \in 0 .. 1
    BY DEF Pend
  <2> QED
    BY <2>1, <2>2, <2>3
<1>8. hostIdle' = hostIdle + 1
  <2>1. hostIdle < hostSize
    BY <1>4, <1>5, <1>7, NumJobsAssumption DEF RingUse
  <2> QED
    BY <1>6, <2>1 DEF DlaComplete
<1>9. NumAhead - Len(dlaFifo) = hostIdle + Pend
  BY <1>4, <1>5, <1>7
<1> QED
  BY <1>3, <1>4, <1>5, <1>6, <1>7, <1>8, <1>9

\* An inference ends: the first of the FIFO becomes an idle request.
LEMMA StreamDlaComplete ==
    ASSUME RingUse, TypeInv, StreamInv, DlaComplete
    PROVE  StreamInv'
<1> USE DEF ringVars, countVars, loopVars
<1>2. UNCHANGED <<ringVars, countVars, status, lastReceiveSequenceID, isrCount, loopVars,
                  dma, irq, mailbox, hostPhase, hostSeq, hostSize, hostJob, restarts>>
  BY DEF DlaComplete
<1>3. /\ running /\ NumAhead \in 0 .. 2
      /\ dlaFifo \in Seq(Nat) /\ Len(dlaFifo) \in Nat /\ Len(dlaFifo) > 0
      /\ Len(dlaFifo') = Len(dlaFifo) - 1
      /\ \A k \in 1 .. Len(dlaFifo') : dlaFifo'[k] = dlaFifo[k + 1]
      /\ hostIdle + Pend + Len(dlaFifo) = NumAhead
      /\ hostIdle \in Nat /\ Pend \in 0 .. 1 /\ hostIdle' = hostIdle + 1
  BY FinishedInference
<1>9. Pend' = Pend /\ NumAhead' = NumAhead
  BY <1>2 DEF Pend, NumAhead
<1>10. HostInStep'
  BY <1>2, <1>3 DEF StreamInv, HostInStep, InSync, NextJob
<1>14. CleanStart'
  BY <1>2 DEF StreamInv, CleanStart, InSync
<1>11. NotStarted'
  BY <1>2, <1>3 DEF NotStarted
<1>12. Window'
  <2>1. /\ \A i \in Slots : inputAddressDDR'[i] = i + 1
        /\ \A i \in Slots : hasSourceBuffer'[i] <=> Filled(i)'
        /\ \A i \in Slots :
              scheduledWithDLA'[i] <=>
                  hasSourceBuffer'[i] /\ i \in {pNextInferenceRequestJob',
                                                NextJob(pNextInferenceRequestJob')}
    BY <1>2, <1>3, <1>9 DEF StreamInv, Window, Filled, Between
  <2>2. hostIdle' + Pend' + Len(dlaFifo') = NumAhead'
    BY <1>3, <1>9
  <2>3. ASSUME NEW k \in 1 .. Len(dlaFifo')
        PROVE  dlaFifo'[k] = Ahead(pNextInferenceRequestJob',
                                   NumAhead' - Len(dlaFifo') + k) + 1
    <3>1. k + 1 \in 1 .. Len(dlaFifo) /\ dlaFifo'[k] = dlaFifo[k + 1]
      BY <1>3, <2>3
    <3>2. dlaFifo[k + 1] = Ahead(pNextInferenceRequestJob,
                                 NumAhead - Len(dlaFifo) + (k + 1)) + 1
      BY <1>3, <3>1 DEF StreamInv, Window
    <3>3. NumAhead - Len(dlaFifo) + (k + 1) = NumAhead - Len(dlaFifo') + k
      BY <1>3, <2>3
    <3> QED
      BY <1>2, <1>9, <3>1, <3>2, <3>3
  <2> QED
    BY <2>1, <2>2, <2>3 DEF Window
<1>13. OneCapture'
  BY <1>2 DEF StreamInv, OneCapture, CaughtUp
<1> QED
  BY <1>10, <1>11, <1>12, <1>13, <1>14 DEF StreamInv

\* A message other than a request leaves the ring and the count of requests
\* as they are.
LEMMA StreamHostMessage ==
    ASSUME RingUse, TypeInv, StreamInv,
           UNCHANGED <<ringVars, countVars, status, lastReceiveSequenceID, isrCount,
                       loopVars, hwVars>>,
           mailbox.type # "ScheduleItem", mailbox'.type # "ScheduleItem",
           hostIdle' = hostIdle \/ (~running /\ ~InSync'),
           HostInStep', CleanStart', InSync' => InSync
    PROVE  StreamInv'
<1> USE DEF ringVars, countVars, loopVars, hwVars
<1>1. NotStarted'
  BY DEF StreamInv, NotStarted, Pend
<1>2. Window'
  BY DEF StreamInv, Window, Filled, Between, NumAhead, Ahead, NextJob, Pend
<1>3. OneCapture'
  BY DEF StreamInv, OneCapture, CaughtUp
<1> QED
  BY <1>1, <1>2, <1>3 DEF StreamInv

\* A message takes the next sequence ID.
LEMMA StreamSend ==
    ASSUME TypeInv, StreamInv, NEW type, type # "None", NEW arg, HostSend(type, arg),
           type = "InitializeStreamController" \/ hostPhase' = hostPhase
              \/ hostPhase' # "run"
    PROVE  CleanStart'
  BY DEF StreamInv, CleanStart, InSync, HostSend, countVars

\* What the host does between its messages.
LEMMA StreamHost ==
    ASSUME RingUse, StreamingStep, TypeInv, StreamInv, Host
    PROVE  StreamInv'
<1>1. CASE HostPing
  <2>1. /\ HostSend("Ping", 0) /\ hostPhase = "ping" /\ hostPhase' = "initialize"
        /\ UNCHANGED <<hostJob, hostIdle>>
    BY <1>1, Zenon DEF HostPing
  <2>2. /\ mailbox.type = "None" /\ mailbox'.type = "Ping"
        /\ UNCHANGED <<ringVars, countVars, status, lastReceiveSequenceID, isrCount,
                       loopVars, hwVars, hostSize>>
    BY <2>1 DEF HostSend
  <2>3. HostInStep'
    BY <2>1, <2>2 DEF StreamInv, HostInStep, InSync, ringVars, countVars
  <2>4. CleanStart'
    BY <2>1, StreamSend
  <2> QED
    BY <2>1, <2>2, <2>3, <2>4, StreamHostMessage DEF InSync
<1>2. CASE HostInitialize
  <2>1. /\ HostSend("InitializeStreamController", hostSize)
        /\ hostPhase = "initialize" /\ hostPhase' = "run"
        /\ UNCHANGED <<hostJob, hostIdle>>
    BY <1>2, Zenon DEF HostInitialize
  <2>2. /\ mailbox.type = "None" /\ mailbox'.type = "InitializeStreamController"
        /\ mailbox'.arg = hostSize
        /\ UNCHANGED <<ringVars, countVars, status, lastReceiveSequenceID, isrCount,
                       loopVars, hwVars, hostSize>>
    BY <2>1 DEF HostSend
  <2>3. HostInStep'
    BY <2>1, <2>2 DEF StreamInv, HostInStep, InSync, ringVars, countVars
  <2>4. CleanStart'
    BY <2>1, StreamSend
  <2> QED
    BY <2>1, <2>2, <2>3, <2>4, StreamHostMessage DEF InSync
<1>3. CASE HostQuery
  <2>1. PICK type \in {"GetStatus", "Ping"} : HostSend(type, 0)
    BY <1>3 DEF HostQuery
  <2>2. hostPhase = "run" /\ UNCHANGED <<hostPhase, hostJob, hostIdle>>
    BY <1>3, Zenon DEF HostQuery
  <2>3. /\ mailbox.type = "None" /\ mailbox'.type = type
        /\ UNCHANGED <<ringVars, countVars, status, lastReceiveSequenceID, isrCount,
                       loopVars, hwVars, hostSize>>
    BY <2>1 DEF HostSend
  <2>4. HostInStep'
    BY <2>1, <2>2, <2>3
    DEF StreamInv, HostInStep, InSync, ringVars, countVars, NextJob
  <2>5. CleanStart'
    BY <2>1, <2>2, StreamSend
  <2> QED
    BY <2>1, <2>2, <2>3, <2>4, <2>5, StreamHostMessage DEF InSync
<1>4. CASE HostReceiveReply
  <2>1. /\ mailbox.type = "None" /\ UNCHANGED <<mailbox, hostVars>>
        /\ UNCHANGED <<ringVars, countVars, status, lastReceiveSequenceID, isrCount,
                       loopVars, hwVars>>
    BY <1>4 DEF HostReceiveReply
  <2>2. HostInStep'
    BY <2>1 DEF StreamInv, HostInStep, InSync, ringVars, countVars, hostVars, NextJob
  <2>3. CleanStart'
    BY <2>1 DEF StreamInv, CleanStart, InSync, countVars, hostVars
  <2> QED
    BY <2>1, <2>2, <2>3, StreamHostMessage DEF InSync, hostVars
<1>5. CASE HostRestart
  <2>1. PICK size \in RestartSizes : hostSize' = size /\ hostIdle' = size
    BY <1>5, Zenon DEF HostRestart
  <2>2. /\ restarts' = restarts + 1 /\ hostPhase = "run" /\ mailbox.type = "None"
        /\ hostPhase' = "ping" /\ hostSeq' = 0 /\ hostJob' = 0 /\ mailbox' = mailbox
        /\ UNCHANGED <<ringVars, countVars, status, lastReceiveSequenceID, isrCount,
                       loopVars, hwVars>>
    BY <1>5 DEF HostRestart
  <2>3. restarts' > restarts
    BY <2>2, TypeParts DEF TypeInv, HostTypes
  <2>4. hostSize' = NumJobs /\ hostIdle' = NumJobs /\ ~running
    BY <2>1, <2>3 DEF StreamingStep
  <2>5. HostInStep'
    BY <2>2, <2>4 DEF StreamInv, HostInStep, InSync, ringVars, countVars
  <2>6. CleanStart'
    BY <2>2 DEF CleanStart, InSync
  <2> QED
    BY <2>2, <2>4, <2>5, <2>6, StreamHostMessage DEF InSync
<1>6. CASE HostScheduleItem
  <2> USE DEF ringVars, countVars, loopVars, hwVars
  <2>1. /\ mailbox.type = "None" /\ mailbox'.type = "ScheduleItem"
        /\ mailbox'.arg = hostJob + 1 /\ hostIdle > 0 /\ hostIdle' = hostIdle - 1
        /\ hostPhase = "run" /\ hostPhase' = "run"
    BY <1>6 DEF HostScheduleItem, HostSend
  <2>2. UNCHANGED <<ringVars, countVars, status, lastReceiveSequenceID, isrCount,
                    loopVars, hwVars, hostSize>>
    BY <1>6 DEF HostScheduleItem, HostSend
  <2>3. InSync /\ InSync' /\ allocated
    BY <2>1 DEF InSync, StreamInv, HostInStep
  <2>4. hostJob = pNextInferenceRequestJob /\ hostJob' = NextJob(hostJob)
        /\ hostIdle \in Nat
    BY <1>6, <2>1, <2>3
    DEF HostScheduleItem, StreamInv, HostInStep, NextJob, TypeInv, TypeOK
  <2>5. hostIdle' + Pend' = hostIdle + Pend /\ hostIdle' \in Nat /\ Pend \in Nat
        /\ Pend' \in Nat
    BY <2>1, <2>4 DEF Pend
  <2>6. HostInStep'
    BY <2>1, <2>2, <2>3, <2>4 DEF StreamInv, HostInStep, NextJob
  <2>7. NotStarted'
    <3>1. numInferenceRequests' = numInferenceRequests /\ numInferenceRequests \in Nat
      BY <2>2 DEF TypeInv, TypeOK
    <3>2. ~running' => numInferenceRequests + hostIdle + Pend = NumJobs
      BY <2>2, <2>3 DEF StreamInv, NotStarted
    <3>3. ASSUME ~running'
          PROVE  numInferenceRequests' + hostIdle' + Pend' = NumJobs
      <4>1. numInferenceRequests + hostIdle + Pend = NumJobs
        BY <3>2, <3>3, Zenon
      <4>2. hostIdle \in Nat /\ hostIdle' = hostIdle - 1
        BY <2>1, <2>4
      <4>3. Pend = 0 /\ Pend' = 1
        BY <2>1 DEF Pend
      <4> QED
        BY <3>1, <4>1, <4>2, <4>3
    <3> QED
      BY <2>2, <3>3 DEF StreamInv, NotStarted
  <2>8. Window'
    <3>1. NumAhead' = NumAhead /\ Len(dlaFifo') = Len(dlaFifo) /\ Len(dlaFifo) \in Nat
      BY <2>2 DEF NumAhead, TypeInv, TypeOK
    <3>2. running => hostIdle' + Pend' + Len(dlaFifo') = NumAhead'
      BY <2>4, <2>5, <3>1 DEF StreamInv, Window
    <3> QED
      BY <2>2, <3>1, <3>2 DEF StreamInv, Window, Filled, Between
  <2>9. OneCapture'
    BY <2>2 DEF StreamInv, OneCapture, CaughtUp
  <2>10. CleanStart'
    <3>1. HostSend("ScheduleItem", hostJob + 1) /\ UNCHANGED hostPhase
      BY <1>6, Zenon DEF HostScheduleItem
    <3> QED
      BY <3>1, StreamSend
  <2> QED
    BY <2>6, <2>7, <2>8, <2>9, <2>10 DEF StreamInv
<1>7. ~HostManual
  <2>1. mailbox'.type \notin {"ManualArmDmaTransfer", "ManualScheduleDlaInference"}
    BY DEF StreamingStep
  <2> QED
    BY <2>1 DEF HostManual, HostSend
<1> QED
  BY <1>1, <1>2, <1>3, <1>4, <1>5, <1>6, <1>7 DEF Host

\* Arming the msgDMA when nothing is under way.
LEMMA ArmOneCapture ==
    ASSUME TypeInv, NEW job \in Slots, dma = <<>>, NEW before, NEW after,
           ArmDmaTransfer(job, job + 1, before, after)
    PROVE  /\ Len(dma') <= 1
           /\ dma' # <<>> => dma'[1] = pFillingImageJob' + 1
           /\ after = "OK" => before = "OK" /\ dma' # <<>>
           /\ pFillingImageJob' = job
<1>1. CASE dma' = Append(dma, job + 1) /\ after = before
  <2>1. dma' = <<job + 1>>
    BY <1>1
  <2> QED
    BY <1>1, <2>1 DEF ArmDmaTransfer
<1>2. CASE dma' = dma /\ after \in DriverErrors
  BY <1>2 DEF ArmDmaTransfer, DriverErrors
<1> QED
  BY <1>1, <1>2, Zenon DEF ArmDmaTransfer

\* A captured buffer enters the ring, or overwrites the newest one when the
\* ring is full.
LEMMA StreamKeepSourceBuffer ==
    ASSUME RingUse, TypeInv, StreamInv, running, dma = <<>>,
           KeepSourceBuffer(pFillingImageJob),
           UNCHANGED <<allocated, inputAddressDDR, pNextInferenceRequestJob, mailbox,
                       running, hostIdle>>
    PROVE  /\ Window'
           /\ pFillingImageJob' \in Slots
           /\ Len(dma') <= 1
           /\ dma' # <<>> => dma'[1] = pFillingImageJob' + 1
           /\ status' = "OK" => dma' # <<>>
<1> DEFINE p == pNextInferenceRequestJob
           f == pFillingImageJob
           has == [hasSourceBuffer EXCEPT ![f] = TRUE]
           full == has[NextJob(f)]
           nextFill == IF full THEN f ELSE NextJob(f)
<1>0. NumJobs >= 3
  BY DEF RingUse
<1>1. p \in Slots /\ f \in Slots /\ NumScheduledAhead = NumAhead /\ NumAhead \in 0 .. 2
  BY <1>0, AheadCount
<1>2. /\ hasSourceBuffer \in [Slots -> BOOLEAN]
      /\ scheduledWithDLA \in [Slots -> BOOLEAN]
      /\ dlaFifo \in Seq(Nat) /\ Len(dlaFifo) \in Nat
  BY TypeParts DEF TypeInv, RingTypes, HardwareTypes
<1>3. /\ \A i \in Slots : inputAddressDDR[i] = i + 1
      /\ \A i \in Slots : hasSourceBuffer[i] <=> Between(p, f, i)
      /\ \A i \in Slots : scheduledWithDLA[i] <=>
                             hasSourceBuffer[i] /\ i \in {p, NextJob(p)}
      /\ hostIdle + Pend + Len(dlaFifo) = NumAhead
      /\ \A k \in 1 .. Len(dlaFifo) : dlaFifo[k] = Ahead(p, NumAhead - Len(dlaFifo) + k) + 1
  BY DEF StreamInv, Window, Filled
<1>4. NextJob(f) \in Slots /\ NextJob(f) # f
  BY <1>0, <1>1, BetweenEnds
<1>5. full <=> NextJob(f) = p
  BY <1>0, <1>1, <1>2, <1>3, <1>4, BetweenEnds
<1>6. /\ hasSourceBuffer' = [has EXCEPT ![f] = ~full]
      /\ ArmDmaTransfer(nextFill, inputAddressDDR[nextFill], status, status')
      /\ IF NumScheduledAhead < 2
         THEN /\ scheduledWithDLA' = [scheduledWithDLA EXCEPT ![f] = TRUE]
              /\ ScheduleDlaInference(inputAddressDDR[f])
         ELSE NoSchedule /\ UNCHANGED scheduledWithDLA
  BY DEF KeepSourceBuffer
<1>7. nextFill \in Slots /\ inputAddressDDR[nextFill] = nextFill + 1
  BY <1>1, <1>3, <1>4
<1>8. pFillingImageJob' = nextFill
  BY <1>6 DEF ArmDmaTransfer
<1>9. /\ Len(dma') <= 1
      /\ dma' # <<>> => dma'[1] = pFillingImageJob' + 1
      /\ status' = "OK" => dma' # <<>>
  BY <1>6, <1>7, ArmOneCapture
<1>10. Pend' = Pend
  BY DEF Pend
<1>11. CASE full
  <2>1. NextJob(f) = p /\ NumAhead = 2 /\ pFillingImageJob' = f
    BY <1>0, <1>1, <1>5, <1>8, <1>11, BetweenEnds DEF NumAhead
  <2>2. /\ dlaFifo' = dlaFifo /\ scheduledWithDLA' = scheduledWithDLA
        /\ NumAhead' = NumAhead
    BY <1>1, <1>6, <2>1 DEF NoSchedule, NumAhead
  <2>3. \A i \in Slots : hasSourceBuffer'[i] <=> hasSourceBuffer[i]
    BY <1>0, <1>1, <1>2, <1>3, <1>6, <1>11, BetweenEnds
  <2> QED
    BY <1>3, <1>9, <1>10, <1>7, <1>8, <2>1, <2>2, <2>3 DEF Window, Filled
<1>12. CASE ~full
  <2>1. NextJob(f) # p /\ pFillingImageJob' = NextJob(f)
    BY <1>5, <1>8, <1>12
  <2>2. \A i \in Slots : hasSourceBuffer'[i] <=> hasSourceBuffer[i] \/ i = f
    BY <1>1, <1>2, <1>6, <1>12
  <2>3. \A i \in Slots : hasSourceBuffer'[i] <=> Between(p, NextJob(f), i)
    BY <1>1, <1>3, <2>1, <2>2, BetweenGrow
  <2>4. CASE NumAhead = 2
    <3>1. NumAhead' = 2 /\ dlaFifo' = dlaFifo /\ scheduledWithDLA' = scheduledWithDLA
      BY <1>0, <1>1, <1>6, <2>1, <2>4, BetweenEnds DEF NumAhead, NoSchedule, NextJob, Slots
    <3>2. f # p /\ f # NextJob(p)
      BY <2>4 DEF NumAhead
    <3>3. \A i \in Slots : scheduledWithDLA'[i] <=>
                              hasSourceBuffer'[i] /\ i \in {p, NextJob(p)}
      BY <1>3, <2>2, <3>1, <3>2
    <3> QED
      BY <1>3, <1>9, <1>10, <1>7, <1>8, <2>1, <2>3, <2>4, <3>1, <3>3 DEF Window, Filled
  <2>5. CASE NumAhead < 2
    <3>1. /\ f = Ahead(p, NumAhead + 1) /\ f \in {p, NextJob(p)}
      BY <1>1, <2>5 DEF NumAhead, Ahead
    <3>2. NumAhead' = NumAhead + 1
      BY <1>0, <1>1, <2>1, <2>5, BetweenEnds DEF NumAhead, NextJob, Slots
    <3>3. /\ scheduledWithDLA' = [scheduledWithDLA EXCEPT ![f] = TRUE]
          /\ dlaFifo' = Append(dlaFifo, f + 1)
      BY <1>1, <1>3, <1>6, <2>5 DEF ScheduleDlaInference
    <3>4. \A i \in Slots : scheduledWithDLA'[i] <=>
                              hasSourceBuffer'[i] /\ i \in {p, NextJob(p)}
      BY <1>1, <1>2, <1>3, <2>2, <3>1, <3>3
    <3>5. /\ Len(dlaFifo') = Len(dlaFifo) + 1
          /\ \A k \in 1 .. Len(dlaFifo) : dlaFifo'[k] = dlaFifo[k]
          /\ dlaFifo'[Len(dlaFifo) + 1] = f + 1
      BY <1>1, <1>2, <3>3 DEF Slots
    <3>6. hostIdle' + Pend' + Len(dlaFifo') = NumAhead'
      <4>1. hostIdle \in Nat /\ Pend \in Nat
        BY DEF TypeInv, TypeOK, Pend
      <4> QED
        BY <1>2, <1>3, <1>10, <3>2, <3>5, <4>1
    <3>7. ASSUME NEW k \in 1 .. Len(dlaFifo')
          PROVE  dlaFifo'[k] = Ahead(p, NumAhead' - Len(dlaFifo') + k) + 1
      <4>1. NumAhead' - Len(dlaFifo') + k = NumAhead - Len(dlaFifo) + k
        BY <1>1, <1>2, <3>2, <3>5
      <4>2. CASE k \in 1 .. Len(dlaFifo)
        BY <1>3, <3>5, <4>1, <4>2
      <4>3. CASE k = Len(dlaFifo) + 1
        <5>1. NumAhead - Len(dlaFifo) + k = NumAhead + 1
          BY <1>1, <1>2, <4>3
        <5> QED
          BY <3>1, <3>5, <4>1, <4>3, <5>1
      <4> QED
        BY <1>2, <3>5, <3>7, <4>2, <4>3
    <3> QED
      BY <1>3, <1>9, <1>7, <1>8, <2>1, <2>3, <3>4, <3>6, <3>7 DEF Window, Filled
  <2> QED
    BY <1>1, <2>4, <2>5
<1> QED
  BY <1>11, <1>12

\* The loop acts on an interrupt count that has moved.
LEMMA StreamLoopNewSourceBuffer ==
    ASSUME RingUse, TypeInv, StreamInv, LoopNewSourceBuffer
    PROVE  StreamInv'
<1>1. /\ pc = "buffer" /\ pc' = "message"
      /\ UNCHANGED <<lastReceiveSequenceID, isrCount, previousIsrCount, loopIsrCount,
                     irq, mailbox, hostVars>>
  BY DEF LoopNewSourceBuffer
<1>2. CASE loopIsrCount = previousIsrCount
  <2>1. UNCHANGED <<ringVars, countVars, status, dma, dlaFifo>>
    BY <1>2 DEF LoopNewSourceBuffer
  <2> USE DEF ringVars, countVars, hostVars
  <2>2. HostInStep'
    BY <1>1, <2>1 DEF StreamInv, HostInStep, InSync
  <2>3. NotStarted'
    BY <1>1, <2>1 DEF StreamInv, NotStarted, InSync, Pend
  <2>6. CleanStart'
    BY <1>1, <2>1 DEF StreamInv, CleanStart, InSync
  <2>4. Window'
    BY <1>1, <2>1 DEF StreamInv, Window, Filled, NumAhead, Pend
  <2>5. OneCapture'
    BY <1>1, <1>2, <2>1 DEF StreamInv, OneCapture, CaughtUp
  <2> QED
    BY <2>2, <2>3, <2>4, <2>5, <2>6 DEF StreamInv
<1>3. CASE loopIsrCount # previousIsrCount
  <2>1. NewSourceBuffer
    BY <1>3 DEF LoopNewSourceBuffer
  <2>2. running
    BY <1>3 DEF StreamInv, NotStarted
  <2>3. dma = <<>> /\ ~irq /\ isrCount = loopIsrCount
    BY <1>1, <1>3 DEF StreamInv, OneCapture, CaughtUp
  <2>4. /\ pNextInferenceRequestJob \in Slots /\ pFillingImageJob \in Slots
        /\ allocated /\ NumJobs >= 3
    BY <2>2, AheadCount DEF RingUse
  <2>5. pFillingImageJob # DebugJob /\ \A i \in Slots : inputAddressDDR[i] = i + 1
    BY <2>2, <2>4 DEF Slots, DebugJob, StreamInv, Window
  <2>6. UNCHANGED <<allocated, inputAddressDDR, pNextInferenceRequestJob, running,
                    numInferenceRequests>>
    BY <2>1 DEF NewSourceBuffer
  <2>7. UNCHANGED <<hostPhase, hostSeq, hostSize, hostJob, hostIdle, restarts>>
    BY <1>1 DEF hostVars
  <2>8. /\ Window'
        /\ pFillingImageJob' \in Slots
        /\ Len(dma') <= 1
        /\ dma' # <<>> => dma'[1] = pFillingImageJob' + 1
        /\ status' = "OK" => dma' # <<>>
    <3>1. CASE DropsBuffer
      <4>1. /\ ArmDmaTransfer(pFillingImageJob, inputAddressDDR[pFillingImageJob],
                              status, status')
            /\ UNCHANGED <<hasSourceBuffer, scheduledWithDLA, dlaFifo>>
        BY <2>1, <2>5, <3>1 DEF NewSourceBuffer, NoSchedule
      <4>2. ArmDmaTransfer(pFillingImageJob, pFillingImageJob + 1, status, status')
        BY <2>4, <2>5, <4>1
      <4>3. /\ pFillingImageJob' = pFillingImageJob
            /\ Len(dma') <= 1
            /\ dma' # <<>> => dma'[1] = pFillingImageJob' + 1
            /\ status' = "OK" => dma' # <<>>
        BY <2>3, <2>4, <4>2, ArmOneCapture
      <4>4. Window'
        BY <1>1, <2>6, <2>7, <4>1, <4>3 DEF StreamInv, Window, Filled, NumAhead, Pend
      <4> QED
        BY <2>4, <4>3, <4>4
    <3>2. CASE ~DropsBuffer
      <4>1. KeepSourceBuffer(pFillingImageJob)
        BY <2>1, <2>5, <3>2 DEF NewSourceBuffer
      <4> QED
        BY <1>1, <2>2, <2>3, <2>6, <2>7, <4>1, StreamKeepSourceBuffer
    <3> QED
      BY <3>1, <3>2
  <2>9. HostInStep'
    BY <1>1, <2>6, <2>7, <2>8 DEF StreamInv, HostInStep, InSync
  <2>12. CleanStart'
    BY <1>1, <2>2, <2>6, <2>7 DEF StreamInv, CleanStart, InSync
  <2>10. NotStarted'
    BY <2>2, <2>6 DEF NotStarted
  <2>11. OneCapture'
    BY <1>1, <2>3, <2>8 DEF OneCapture, CaughtUp
  <2> QED
    BY <2>8, <2>9, <2>10, <2>11, <2>12 DEF StreamInv
<1> QED
  BY <1>2, <1>3

\* A request while streaming recycles the first job item: its inference has
\* finished, so the window is not empty; the third job item, if filled, takes
\* its place in the DLA's FIFO.
LEMMA StreamRecycle ==
    ASSUME RingUse, TypeInv, StreamInv, running, NEW after,
           mailbox.type = "ScheduleItem", mailbox'.type = "None",
           NewInferenceRequestReceived(mailbox.arg, after), hostIdle' = hostIdle
    PROVE  /\ Window'
           /\ running' /\ numInferenceRequests' = NumJobs
           /\ pNextInferenceRequestJob' = NextJob(pNextInferenceRequestJob)
           /\ UNCHANGED <<pFillingImageJob, dma, allocated>>
           /\ after = "OK" => status = "OK"
<1> DEFINE p == pNextInferenceRequestJob
           f == pFillingImageJob
           next == NextJob(p)
           second == NextJob(next)
           moved == inputAddressDDR[p] # 0 /\ inputAddressDDR[p] # mailbox.arg
           stored == IF moved THEN "Error" ELSE status
           addresses == [inputAddressDDR EXCEPT ![p] = mailbox.arg]
           has == [hasSourceBuffer EXCEPT ![p] = FALSE]
           sched == [scheduledWithDLA EXCEPT ![p] = FALSE]
           Ready(i) == ~sched[i] /\ has[i]
           job == IF Ready(next) THEN next ELSE second
<1>0. NumJobs >= 3
  BY DEF RingUse
<1>1. p \in Slots /\ f \in Slots /\ allocated /\ NumAhead \in 0 .. 2
  BY <1>0, AheadCount
<1>2. /\ hasSourceBuffer \in [Slots -> BOOLEAN]
      /\ scheduledWithDLA \in [Slots -> BOOLEAN]
      /\ inputAddressDDR \in [Slots -> Nat]
      /\ dlaFifo \in Seq(Nat) /\ Len(dlaFifo) \in Nat /\ hostIdle \in Nat
  BY TypeParts DEF TypeInv, RingTypes, HardwareTypes, HostTypes
<1>3. /\ \A i \in Slots : inputAddressDDR[i] = i + 1
      /\ \A i \in Slots : hasSourceBuffer[i] <=> Between(p, f, i)
      /\ \A i \in Slots : scheduledWithDLA[i] <=>
                             hasSourceBuffer[i] /\ i \in {p, next}
      /\ hostIdle + Pend + Len(dlaFifo) = NumAhead
      /\ \A k \in 1 .. Len(dlaFifo) : dlaFifo[k] = Ahead(p, NumAhead - Len(dlaFifo) + k) + 1
  BY DEF StreamInv, Window, Filled
<1>4. mailbox.arg = p + 1 /\ numInferenceRequests = NumJobs
  BY DEF StreamInv, HostInStep, InSync
<1>5. Pend = 1 /\ Pend' = 0
  BY DEF Pend
<1>6. hostIdle + 1 + Len(dlaFifo) = NumAhead /\ NumAhead \in 1 .. 2 /\ p # f
  BY <1>1, <1>2, <1>3, <1>5 DEF NumAhead
<1>7. /\ next \in Slots /\ second \in Slots /\ next # p /\ second # p /\ second # next
  BY <1>0, <1>1, BetweenEnds
<1>8. /\ inputAddressDDR' = addresses /\ hasSourceBuffer' = has
      /\ pNextInferenceRequestJob' = next /\ UNCHANGED allocated
      /\ IncrementRequests
      /\ running' = (numInferenceRequests' >= NumJobs)
  BY Zenon DEF NewInferenceRequestReceived
<1>9. numInferenceRequests' = NumJobs
  <2>1. ~(NumJobs < NumJobs)
    BY NumJobsAssumption
  <2>2. ~RequestCountWraps
    BY Zenon DEF RingUse
  <2> QED
    BY <1>4, <1>8, <2>1, <2>2, Zenon DEF IncrementRequests
<1>10. running'
  <2>1. numInferenceRequests' >= NumJobs
    BY <1>9, NumJobsAssumption
  <2> QED
    BY <1>8, <2>1, Zenon
<1>11. UNCHANGED <<pFillingImageJob, dma>> /\ after = stored
  BY Zenon DEF NewInferenceRequestReceived
<1>12. ~moved
  BY <1>1, <1>3, <1>4
<1>13. IF Ready(next) \/ Ready(second)
       THEN /\ scheduledWithDLA' = [sched EXCEPT ![job] = TRUE]
            /\ ScheduleDlaInference(addresses[job])
       ELSE scheduledWithDLA' = sched /\ NoSchedule
  BY Zenon DEF NewInferenceRequestReceived
<1>14. \A i \in Slots : inputAddressDDR'[i] = i + 1
  BY <1>1, <1>2, <1>3, <1>4, <1>8
<1>15. /\ \A i \in Slots : has[i] <=> hasSourceBuffer[i] /\ i # p
       /\ \A i \in Slots : sched[i] <=> scheduledWithDLA[i] /\ i # p
  BY <1>1, <1>2
<1>16. \A i \in Slots : hasSourceBuffer'[i] <=> Between(next, f, i)
  BY <1>1, <1>3, <1>6, <1>8, <1>15, BetweenShrink
<1>17. ~Ready(next)
  BY <1>3, <1>7, <1>15
<1>18. Ready(second) <=> next # f /\ second # f
  BY <1>0, <1>1, <1>3, <1>6, <1>7, <1>15, BetweenThird
<1>19. /\ NumAhead = IF next = f THEN 1 ELSE 2
       /\ NumAhead' = IF next = f THEN 0 ELSE IF second = f THEN 1 ELSE 2
  BY <1>6, <1>8, <1>11 DEF NumAhead
<1>20. ASSUME NEW k \in 1 .. Len(dlaFifo)
       PROVE  k = 1 /\ Len(dlaFifo) = 1 /\ NumAhead = 2 /\ dlaFifo[k] = next + 1
  <2>0. k \in Int /\ 1 <= k /\ k <= Len(dlaFifo)
    BY <1>2, <1>20
  <2>1. Len(dlaFifo) = 1 /\ NumAhead = 2 /\ k = 1
    <3>1. PICK len \in Nat : len = Len(dlaFifo)
      BY <1>2
    <3>2. hostIdle \in Nat /\ hostIdle + 1 + len = NumAhead
      BY <1>2, <1>6, <3>1
    <3>3. len = 1 /\ NumAhead = 2 /\ k = 1
      BY <1>6, <2>0, <3>1, <3>2
    <3> QED
      BY <3>1, <3>3
  <2>2. NumAhead - Len(dlaFifo) + k = 2
    BY <2>1
  <2>3. dlaFifo[k] = Ahead(p, 2) + 1
    BY <1>3, <1>20, <2>2
  <2> QED
    BY <2>1, <2>3 DEF Ahead
<1>21. CASE Ready(second)
  <2>1. job = second /\ NumAhead = 2 /\ NumAhead' = 2
    BY <1>17, <1>18, <1>19, <1>21
  <2>2. /\ scheduledWithDLA' = [sched EXCEPT ![second] = TRUE]
        /\ dlaFifo' = Append(dlaFifo, second + 1)
    <3>1. ScheduleDlaInference(addresses[second])
          /\ scheduledWithDLA' = [sched EXCEPT ![second] = TRUE]
      BY <1>13, <1>21, <2>1
    <3>2. addresses[second] = second + 1
      BY <1>7, <1>8, <1>14
    <3> QED
      BY <3>1, <3>2 DEF ScheduleDlaInference
  <2>3. \A i \in Slots : scheduledWithDLA'[i] <=>
                            hasSourceBuffer'[i] /\ i \in {next, second}
    <3>1. sched \in [Slots -> BOOLEAN]
      BY <1>2
    <3>2. \A i \in Slots : scheduledWithDLA'[i] <=> sched[i] \/ i = second
      BY <1>7, <2>2, <3>1
    <3>3. has[second]
      BY <1>21
    <3> QED
      BY <1>3, <1>7, <1>8, <1>15, <3>2, <3>3
  <2>4. /\ Len(dlaFifo') = Len(dlaFifo) + 1
        /\ \A k \in 1 .. Len(dlaFifo) : dlaFifo'[k] = dlaFifo[k]
        /\ dlaFifo'[Len(dlaFifo) + 1] = second + 1
    BY <1>2, <1>7, <2>2 DEF Slots
  <2>5. hostIdle' + Pend' + Len(dlaFifo') = NumAhead'
    BY <1>2, <1>5, <1>6, <2>1, <2>4
  <2>6. ASSUME NEW k \in 1 .. Len(dlaFifo')
        PROVE  dlaFifo'[k] = Ahead(next, NumAhead' - Len(dlaFifo') + k) + 1
    <3>1. CASE k \in 1 .. Len(dlaFifo)
      <4>1. /\ k = 1 /\ NumAhead' - Len(dlaFifo') + k = 1
            /\ dlaFifo[k] = next + 1
        BY <1>20, <2>1, <2>4, <3>1
      <4> QED
        BY <2>4, <3>1, <4>1 DEF Ahead
    <3>2. CASE k = Len(dlaFifo) + 1
      <4>1. NumAhead' - Len(dlaFifo') + k = 2
        BY <1>2, <2>1, <2>4, <3>2
      <4> QED
        BY <2>4, <3>2, <4>1 DEF Ahead
    <3> QED
      BY <1>2, <2>4, <2>6, <3>1, <3>2
  <2>7. Window'
    BY <1>8, <1>11, <1>14, <1>16, <2>3, <2>5, <2>6 DEF Window, Filled
  <2> QED
    BY <1>8, <1>9, <1>10, <1>11, <1>12, <2>7
<1>22. CASE ~Ready(second)
  <2>1. NumAhead' = NumAhead - 1
    BY <1>18, <1>19, <1>22
  <2>2. scheduledWithDLA' = sched /\ dlaFifo' = dlaFifo
    BY <1>13, <1>17, <1>22 DEF NoSchedule
  <2>3. \A i \in Slots : scheduledWithDLA'[i] <=>
                            hasSourceBuffer'[i] /\ i \in {next, second}
    BY <1>3, <1>7, <1>8, <1>15, <1>22, <2>2
  <2>4. hostIdle' + Pend' + Len(dlaFifo') = NumAhead'
    BY <1>2, <1>5, <1>6, <2>1, <2>2
  <2>5. ASSUME NEW k \in 1 .. Len(dlaFifo')
        PROVE  dlaFifo'[k] = Ahead(next, NumAhead' - Len(dlaFifo') + k) + 1
    <3>1. /\ k = 1 /\ NumAhead' - Len(dlaFifo') + k = 1 /\ dlaFifo[k] = next + 1
      BY <1>20, <2>1, <2>2
    <3> QED
      BY <2>2, <3>1 DEF Ahead
  <2>6. Window'
    BY <1>8, <1>11, <1>14, <1>16, <2>3, <2>4, <2>5 DEF Window, Filled
  <2> QED
    BY <1>8, <1>9, <1>10, <1>11, <1>12, <2>6
<1> QED
  BY <1>21, <1>22

\* A request before streaming starts is stored; the last one arms the msgDMA.
LEMMA StreamFillRing ==
    ASSUME RingUse, TypeInv, StreamInv, ~running, NEW after,
           mailbox.type = "ScheduleItem", mailbox'.type = "None",
           NewInferenceRequestReceived(mailbox.arg, after),
           UNCHANGED <<hostPhase, hostIdle, irq, isrCount, loopIsrCount>>,
           previousIsrCount' = loopIsrCount, pc' = "top"
    PROVE  /\ Window' /\ NotStarted'
           /\ running' <=> numInferenceRequests' = NumJobs
           /\ pNextInferenceRequestJob' = NextJob(pNextInferenceRequestJob)
           /\ pFillingImageJob' \in Slots /\ allocated /\ allocated'
           /\ Len(dma') <= 1
           /\ running' /\ dma' # <<>> => dma'[1] = pFillingImageJob' + 1
           /\ running' /\ after = "OK" => dma' # <<>>
           /\ ~running' => after = status
           /\ running' => pNextInferenceRequestJob' = pFillingImageJob'
<1> DEFINE p == pNextInferenceRequestJob
           n == numInferenceRequests
           moved == inputAddressDDR[p] # 0 /\ inputAddressDDR[p] # mailbox.arg
           stored == IF moved THEN "Error" ELSE status
           addresses == [inputAddressDDR EXCEPT ![p] = mailbox.arg]
<1>0. InSync /\ InSync'
  BY DEF StreamInv, HostInStep, InSync
<1>1. /\ allocated /\ p \in Slots /\ pFillingImageJob \in Slots
      /\ p = n /\ n \in Nat /\ n < NumJobs /\ mailbox.arg = p + 1
      /\ inputAddressDDR \in [Slots -> Nat]
  <2>1. /\ allocated /\ pFillingImageJob \in Slots /\ mailbox.arg = p + 1
        /\ p = n /\ n # NumJobs
    BY <1>0 DEF StreamInv, HostInStep, NotStarted
  <2>2. p \in Slots /\ n \in 0 .. NumJobs /\ inputAddressDDR \in [Slots -> Nat]
    BY <2>1 DEF TypeInv, TypeOK
  <2> QED
    BY <2>1, <2>2, NumJobsAssumption
<1>2. /\ hasSourceBuffer = EmptyRing /\ scheduledWithDLA = EmptyRing
      /\ dma = <<>> /\ ~irq /\ dlaFifo = <<>>
      /\ isrCount = 0 /\ loopIsrCount = 0 /\ previousIsrCount = 0
      /\ \A i \in Slots : inputAddressDDR[i] = IF i < n THEN i + 1 ELSE 0
  BY DEF StreamInv, NotStarted
<1>3. hostIdle \in Nat /\ n + hostIdle + 1 = NumJobs
  BY <1>0 DEF StreamInv, NotStarted, Pend, TypeInv, TypeOK
<1>4. /\ inputAddressDDR' = addresses
      /\ hasSourceBuffer' = [hasSourceBuffer EXCEPT ![p] = FALSE]
      /\ pNextInferenceRequestJob' = NextJob(p)
      /\ scheduledWithDLA' = [scheduledWithDLA EXCEPT ![p] = FALSE]
      /\ dlaFifo' = dlaFifo
  BY Zenon DEF NewInferenceRequestReceived, NoSchedule
<1>5. allocated'
  BY <1>1, Zenon DEF NewInferenceRequestReceived
<1>6. numInferenceRequests' = n + 1
  <2>1. IncrementRequests
    BY Zenon DEF NewInferenceRequestReceived
  <2> QED
    BY <1>1, <2>1, Zenon DEF IncrementRequests
<1>7. running' <=> n + 1 >= NumJobs
  BY <1>6, Zenon DEF NewInferenceRequestReceived
<1>8. hasSourceBuffer' = EmptyRing /\ scheduledWithDLA' = EmptyRing
  BY <1>1, <1>2, <1>4 DEF EmptyRing
<1>9. \A i \in Slots : inputAddressDDR'[i] = IF i < n + 1 THEN i + 1 ELSE 0
  BY <1>1, <1>2, <1>4 DEF Slots
<1>10. Pend' = 0
  BY DEF Pend
<1>11. CASE n + 1 < NumJobs
  <2>1. ~running'
    <3>1. ~(n + 1 >= NumJobs)
      BY <1>1, <1>11, NumJobsAssumption
    <3> QED
      BY <1>7, <3>1, Zenon
  <2>2. UNCHANGED <<pFillingImageJob, dma>> /\ after = stored
    BY <2>1, Zenon DEF NewInferenceRequestReceived
  <2>7. after = status
    <3>1. inputAddressDDR[p] = 0
      BY <1>1, <1>2
    <3> QED
      BY <2>2, <3>1
  <2>3. NextJob(p) = n + 1
    BY <1>1, <1>11, NumJobsAssumption DEF NextJob
  <2>4. n + 1 + hostIdle + 0 = NumJobs
    BY <1>1, <1>3
  <2>5. NotStarted'
    BY <1>2, <1>4, <1>6, <1>8, <1>9, <1>10, <2>2, <2>3, <2>4 DEF NotStarted
  <2>6. Window'
    BY <2>1 DEF Window
  <2> QED
    BY <1>1, <1>2, <1>4, <1>5, <1>6, <1>11, <2>1, <2>2, <2>5, <2>6, <2>7,
       NumJobsAssumption
<1>12. CASE n + 1 = NumJobs
  <2>1. running'
    <3>1. n + 1 >= NumJobs
      BY <1>1, <1>12
    <3> QED
      BY <1>7, <3>1, Zenon
  <2>2. ArmDmaTransfer(0, addresses[0], stored, after)
    BY <2>1, Zenon DEF NewInferenceRequestReceived
  <2>3. 0 \in Slots /\ NextJob(p) = 0 /\ addresses[0] = 0 + 1
    BY <1>1, <1>4, <1>9, <1>12, NumJobsAssumption DEF Slots, NextJob
  <2>4. /\ Len(dma') <= 1
        /\ dma' # <<>> => dma'[1] = pFillingImageJob' + 1
        /\ after = "OK" => dma' # <<>>
        /\ pFillingImageJob' = 0
    BY <1>2, <2>2, <2>3, ArmOneCapture
  <2>5. NotStarted'
    BY <2>1 DEF NotStarted
  <2>6. hostIdle' = 0 /\ Len(dlaFifo') = 0 /\ NumAhead' = 0
    BY <1>1, <1>2, <1>3, <1>4, <1>12, <2>3, <2>4 DEF NumAhead
  <2>7. Window'
    <3>1. \A i \in Slots : /\ inputAddressDDR'[i] = i + 1
                           /\ ~hasSourceBuffer'[i] /\ ~scheduledWithDLA'[i]
                           /\ ~Between(0, 0, i)
      BY <1>1, <1>8, <1>9, <1>12, NumJobsAssumption DEF Slots, EmptyRing, Between
    <3> QED
      BY <1>4, <1>10, <2>3, <2>4, <2>6, <3>1 DEF Window, Filled
  <2> QED
    BY <1>1, <1>4, <1>5, <1>6, <1>12, <2>1, <2>3, <2>4, <2>5, <2>7
<1> QED
  BY <1>1, <1>11, <1>12, NumJobsAssumption

\* The last step of an iteration.
LEMMA StreamLoopReceiveMessage ==
    ASSUME RingUse, TypeInv, TypeInv', StreamInv, LoopReceiveMessage
    PROVE  StreamInv'
<1>1. /\ pc = "message" /\ pc' = "top" /\ previousIsrCount' = loopIsrCount
      /\ loopIsrCount' = loopIsrCount
      /\ UNCHANGED <<hostPhase, hostSeq, hostSize, hostJob, hostIdle>>
  BY DEF LoopReceiveMessage, hostVars
<1>2. CaughtUp = loopIsrCount /\ CaughtUp' = loopIsrCount
  BY <1>1 DEF CaughtUp
<1>3. ASSUME UNCHANGED <<ringVars, countVars, isrCount, hwVars>>,
             status' = "OK" => status = "OK",
             mailbox'.type = "None", CleanStart',
             mailbox.type \in {"None", "Ping", "GetStatus"}
      PROVE  StreamInv'
  <2> USE DEF ringVars, countVars, hwVars
  <2>1. HostInStep'
    BY <1>1, <1>3 DEF StreamInv, HostInStep, InSync, NextJob
  <2>2. NotStarted'
    BY <1>1, <1>3 DEF StreamInv, NotStarted, InSync, Pend
  <2>3. Window'
    BY <1>1, <1>3 DEF StreamInv, Window, Filled, NumAhead, Pend
  <2>4. OneCapture'
    BY <1>1, <1>2, <1>3 DEF StreamInv, OneCapture
  <2> QED
    BY <1>3, <2>1, <2>2, <2>3, <2>4 DEF StreamInv
<1>4. CASE mailbox.type = "None"
  <2>1. /\ UNCHANGED <<ringVars, countVars, status, lastReceiveSequenceID, isrCount,
                      hwVars, mailbox>>
    BY <1>4 DEF LoopReceiveMessage
  <2>2. CleanStart'
    BY <1>1, <2>1 DEF StreamInv, CleanStart, InSync, countVars
  <2> QED
    BY <1>3, <1>4, <2>1, <2>2
<1>5. CASE mailbox.type # "None"
  <2>1. PICK after \in StatusTypes, last \in 0 .. SeqModulus - 1 :
           /\ Handle(mailbox, after, last)
           /\ mailbox' = NoMessage
           /\ status' = IF BadSequence(mailbox, last) THEN "BadMessageSequence" ELSE after
           /\ lastReceiveSequenceID' = mailbox.seq
    BY <1>5 DEF LoopReceiveMessage, ReceiveMessage
  <2>2. mailbox'.type = "None" /\ (status' = "OK" => after = "OK")
    BY <2>1 DEF NoMessage
  \* What is left to show of CleanStart is that the status stays OK.
  <2>a. ASSUME InSync' /\ ~running' => status' = "OK"
        PROVE  CleanStart'
    BY <1>1, <1>5, <2>1, <2>2, <2>a DEF StreamInv, CleanStart
  <2>b. InSync /\ last = lastReceiveSequenceID => ~BadSequence(mailbox, last)
    BY <1>5 DEF StreamInv, CleanStart, BadSequence
  <2>3. CASE mailbox.type \in {"GetStatus", "Ping"}
    <3>1. /\ UNCHANGED <<ringVars, countVars, isrCount, hwVars>>
          /\ after = status /\ last = lastReceiveSequenceID
      BY <2>1, <2>3 DEF Handle
    <3>2. InSync' => InSync
      BY <1>1, <2>3 DEF InSync
    <3>3. InSync' /\ ~running' => status' = "OK"
      BY <2>1, <2>b, <3>1, <3>2 DEF StreamInv, CleanStart, countVars
    <3>4. CleanStart'
      BY <2>a, <3>3
    <3> QED
      BY <1>3, <2>2, <2>3, <3>1, <3>4
  <2>4. CASE mailbox.type = "ScheduleItem"
    <3>1. NewInferenceRequestReceived(mailbox.arg, after) /\ UNCHANGED <<isrCount, irq>>
          /\ last = lastReceiveSequenceID
      BY <2>1, <2>4 DEF Handle
    <3>0. InSync /\ InSync'
      BY <1>1, <2>2, <2>4 DEF InSync, StreamInv, HostInStep
    <3>2. allocated /\ allocated' /\ pNextInferenceRequestJob \in Slots
      <4>1. allocated
        BY <2>4 DEF TypeInv, Startup
      <4>2. allocated' = allocated
        BY <3>1, Zenon DEF NewInferenceRequestReceived
      <4> QED
        BY <4>1, <4>2 DEF TypeInv, TypeOK
    <3>3. CASE running
      <4>1. /\ Window'
            /\ running' /\ numInferenceRequests' = NumJobs
            /\ pNextInferenceRequestJob' = NextJob(pNextInferenceRequestJob)
            /\ UNCHANGED <<pFillingImageJob, dma>>
            /\ after = "OK" => status = "OK"
        BY <1>1, <2>2, <2>4, <3>1, <3>3, StreamRecycle
      <4>2. HostInStep'
        BY <1>1, <2>2, <2>4, <3>0, <3>2, <4>1 DEF StreamInv, HostInStep, InSync
      <4>3. NotStarted'
        BY <4>1 DEF NotStarted
      <4>4. OneCapture'
        BY <1>1, <1>2, <2>2, <3>1, <3>3, <4>1 DEF StreamInv, OneCapture
      <4>5. CleanStart'
        BY <2>a, <4>1
      <4> QED
        BY <4>1, <4>2, <4>3, <4>4, <4>5 DEF StreamInv
    <3>4. CASE ~running
      <4>1. /\ Window' /\ NotStarted'
            /\ running' <=> numInferenceRequests' = NumJobs
            /\ pNextInferenceRequestJob' = NextJob(pNextInferenceRequestJob)
            /\ pFillingImageJob' \in Slots
            /\ Len(dma') <= 1
            /\ running' /\ dma' # <<>> => dma'[1] = pFillingImageJob' + 1
            /\ running' /\ after = "OK" => dma' # <<>>
            /\ ~running' => after = status
        BY <1>1, <2>2, <2>4, <3>1, <3>4, StreamFillRing
      <4>2. HostInStep'
        BY <1>1, <2>2, <2>4, <3>0, <3>2, <4>1 DEF StreamInv, HostInStep, InSync
      <4>3. ~irq' /\ isrCount' = loopIsrCount
        BY <3>1, <3>4 DEF StreamInv, NotStarted
      <4>4. OneCapture'
        BY <1>1, <1>2, <2>2, <4>1, <4>3 DEF OneCapture
      <4>5. ~running' => status' = "OK"
        BY <2>1, <2>b, <3>0, <3>1, <3>4, <4>1 DEF StreamInv, CleanStart
      <4>6. CleanStart'
        BY <2>a, <4>5
      <4> QED
        BY <4>1, <4>2, <4>4, <4>6 DEF StreamInv
    <3> QED
      BY <3>3, <3>4
  <2>5. CASE mailbox.type = "InitializeStreamController"
    <3>1. InitializeStreamController(mailbox.arg, after, last)
      BY <2>1, <2>5 DEF Handle
    <3>2. /\ ~running /\ mailbox.arg = NumJobs /\ hostPhase = "run"
          /\ hostSize = NumJobs /\ hostJob = 0 /\ hostIdle = NumJobs
      BY <2>5 DEF StreamInv, HostInStep, InSync
    <3>3. allocated' = TRUE /\ Reset /\ UNCHANGED hwVars /\ after = "OK" /\ last = 0
      BY <3>1, <3>2, NumJobsAssumption DEF InitializeStreamController
    <3>4. allocated' /\ ~running'
      BY <3>3, Zenon DEF Reset
    <3>6. /\ dma' = <<>> /\ ~irq' /\ dlaFifo' = <<>>
          /\ isrCount' = 0 /\ loopIsrCount = 0
      BY <3>2, <3>3 DEF StreamInv, NotStarted, Reset, hwVars
    <3>7. /\ hasSourceBuffer' = EmptyRing /\ scheduledWithDLA' = EmptyRing
          /\ inputAddressDDR' = NoAddresses /\ numInferenceRequests' = 0
          /\ pNextInferenceRequestJob' = 0 /\ pFillingImageJob' = 0
      BY <3>3 DEF Reset
    <3>5. InSync'
      BY <1>1, <2>2, <3>2 DEF InSync
    <3>8. HostInStep'
      BY <1>1, <2>2, <3>2, <3>4, <3>5, <3>7, NumJobsAssumption
      DEF HostInStep, Slots
    <3>9. NotStarted'
      <4>1. Pend' = 0
        BY <2>2 DEF Pend
      <4>2. 0 + hostIdle' + 0 = NumJobs
        BY <1>1, <3>2, NumJobsAssumption
      <4>3. \A i \in Slots : inputAddressDDR'[i] = IF i < 0 THEN i + 1 ELSE 0
        BY <3>7 DEF NoAddresses, Slots
      <4> QED
        BY <1>1, <3>6, <3>7, <4>1, <4>2, <4>3 DEF NotStarted
    <3>10. Window'
      BY <3>4 DEF Window
    <3>11. OneCapture'
      BY <1>1, <1>2, <3>4, <3>6 DEF OneCapture
    <3>12. CleanStart'
      <4>1. status' = "OK"
        BY <2>1, <3>3 DEF BadSequence
      <4> QED
        BY <2>a, <4>1
    <3> QED
      BY <3>8, <3>9, <3>10, <3>11, <3>12 DEF StreamInv
  <2> QED
    BY <1>5, <2>3, <2>4, <2>5 DEF StreamInv, HostInStep
<1> QED
  BY <1>4, <1>5

\* A step that changes nothing.
LEMMA StreamStutter == StreamInv /\ UNCHANGED vars => StreamInv'
<1> SUFFICES ASSUME StreamInv, UNCHANGED vars PROVE StreamInv'
  OBVIOUS
<1> USE DEF vars, ringVars, countVars, loopVars, hwVars, hostVars
<1>1. HostInStep'
  BY DEF StreamInv, HostInStep, InSync, NextJob
<1>2. NotStarted'
  BY DEF StreamInv, NotStarted, InSync, Pend
<1>3. CleanStart'
  BY DEF StreamInv, CleanStart, InSync
<1>4. Window'
  BY DEF StreamInv, Window, Filled, NumAhead, Pend
<1>5. OneCapture'
  BY DEF StreamInv, OneCapture, CaughtUp
<1> QED
  BY <1>1, <1>2, <1>3, <1>4, <1>5 DEF StreamInv

\* Every step of a host that streams preserves the invariant.
LEMMA StreamNext ==
    ASSUME RingUse, TypeInv, StreamInv, [Next]_vars, StreamingStep
    PROVE  StreamInv'
<1>1. TypeInv'
  BY TypeNext
<1>2. CASE UNCHANGED vars
  BY <1>2, StreamStutter
<1>3. CASE Next
  BY <1>1, <1>3, StreamLoopReadIsrCount, StreamLoopNewSourceBuffer,
     StreamLoopReceiveMessage, StreamMsgDmaIsr, StreamDmaComplete,
     StreamDlaComplete, StreamHost
  DEF Next, EventLoop
<1> QED
  BY <1>2, <1>3

\* The host of StreamingUse takes no other steps.
LEMMA StreamingSteps ==
    ASSUME StreamingUse, TypeInv, StreamInv, [Next]_vars
    PROVE  StreamingStep
<1>1. RestartSizes \subseteq {NumJobs} /\ RestartWhileRunning = FALSE
      /\ HostCommands \subseteq {"ScheduleItem", "GetStatus", "Ping"}
  BY DEF StreamingUse
<1>2. CASE HostRestart
  <2>1. PICK size \in RestartSizes : hostSize' = size
    BY <1>2, Zenon DEF HostRestart
  <2>2. mailbox'.type = "None" /\ ~running
    BY <1>1, <1>2 DEF HostRestart
  <2> QED
    BY <1>1, <2>1, <2>2 DEF StreamingStep
<1>3. CASE ~HostRestart /\ [Next]_vars
  <2>1. restarts' = restarts
    BY <1>3 DEF Next, EventLoop, LoopReadIsrCount, LoopNewSourceBuffer,
       LoopReceiveMessage, MsgDmaIsr, DmaComplete, DlaComplete, Host, HostPing,
       HostInitialize, HostScheduleItem, HostQuery, HostManual, HostReceiveReply,
       HostSend, vars, hostVars
  <2>2. restarts \in Nat
    BY TypeParts DEF TypeInv, HostTypes
  <2>3. mailbox.type \notin {"ManualArmDmaTransfer", "ManualScheduleDlaInference"}
    BY DEF StreamInv, HostInStep
  <2>4. ~HostManual
    BY <1>1, Zenon DEF HostManual
  <2>5. mailbox'.type \notin {"ManualArmDmaTransfer", "ManualScheduleDlaInference"}
    BY <1>3, <2>3, <2>4
    DEF Next, EventLoop, LoopReadIsrCount, LoopNewSourceBuffer,
        LoopReceiveMessage, ReceiveMessage, NoMessage, MsgDmaIsr, DmaComplete,
        DlaComplete, Host, HostPing, HostInitialize, HostScheduleItem, HostQuery,
        HostReceiveReply, HostSend, vars
  <2> QED
    BY <2>1, <2>2, <2>5 DEF StreamingStep
<1> QED
  BY <1>2, <1>3

\* The invariant of streaming holds in every reachable state.
LEMMA StreamInvariant ==
    ASSUME StreamingUse
    PROVE  Spec => [](TypeInv /\ StreamInv)
<1>0. RingUse
  BY DEF StreamingUse
<1>1. Init => TypeInv /\ StreamInv
  BY <1>0, TypeInit, StreamInit
<1>2. TypeInv /\ StreamInv /\ [Next]_vars => TypeInv' /\ StreamInv'
  BY <1>0, TypeNext, StreamingSteps, StreamNext
<1> QED
  BY <1>1, <1>2, PTL DEF Spec

\* Whatever the number of jobs (three or more), the drop setting and the
\* moments at which buffers and requests arrive, the jobs that are scheduled
\* are the first two captured ones.
THEOREM FirstTwoAreScheduled ==
    ASSUME StreamingUse
    PROVE  Spec => []FirstTwoScheduled
<1>1. TypeInv /\ StreamInv => FirstTwoScheduled
  BY DEF StreamInv, Window, FirstTwoScheduled
<1> QED
  BY <1>1, StreamInvariant, PTL

\* A ring of three or more jobs never lets the msgDMA write a buffer that the
\* DLA has been told to read.
LEMMA StreamNeverShares ==
    ASSUME RingUse, TypeInv, StreamInv
    PROVE  BufferNeverShared
<1>1. SUFFICES ASSUME NEW i \in DOMAIN dma, NEW j \in DOMAIN dlaFifo
               PROVE  dma[i] # dlaFifo[j]
  BY DEF BufferNeverShared
<1>2. running
  BY DEF StreamInv, NotStarted
<1>3. /\ NumAhead \in 0 .. 2 /\ NumJobs >= 3
      /\ pNextInferenceRequestJob \in Slots /\ pFillingImageJob \in Slots
  BY <1>2, AheadCount DEF RingUse
<1>4. /\ dlaFifo \in Seq(Nat) /\ Len(dlaFifo) \in Nat /\ j \in 1 .. Len(dlaFifo)
      /\ hostIdle \in Nat /\ Pend \in Nat
      /\ dma \in Seq(Nat \cup {NoWrite}) /\ i = 1 /\ dma # <<>>
  <2>1. /\ dlaFifo \in Seq(Nat) /\ dma \in Seq(Nat \cup {NoWrite})
        /\ hostIdle \in Nat
    BY TypeParts DEF TypeInv, HardwareTypes, HostTypes
  <2>2. Len(dma) <= 1
    BY DEF StreamInv, OneCapture
  <2>3. i = 1 /\ dma # <<>>
    BY <2>1, <2>2
  <2>4. Pend \in Nat
    BY DEF Pend
  <2> QED
    BY <2>1, <2>3, <2>4
<1>5. dma[i] = pFillingImageJob + 1
  BY <1>2, <1>4 DEF StreamInv, OneCapture
<1>6. dlaFifo[j] = Ahead(pNextInferenceRequestJob, NumAhead - Len(dlaFifo) + j) + 1
      /\ hostIdle + Pend + Len(dlaFifo) = NumAhead
  BY <1>2, <1>4 DEF StreamInv, Window
<1>7. Ahead(pNextInferenceRequestJob, NumAhead - Len(dlaFifo) + j) # pFillingImageJob
  <2>1. PICK n \in Nat : n = Len(dlaFifo)
    BY <1>4
  <2>2. NumAhead - n + j \in 1 .. NumAhead
    BY <1>3, <1>4, <1>6, <2>1
  <2>3. NumAhead # 0 /\ pNextInferenceRequestJob # pFillingImageJob
    BY <1>3, <2>2 DEF NumAhead
  <2>4. NumAhead = 2 => NextJob(pNextInferenceRequestJob) # pFillingImageJob
    BY DEF NumAhead
  <2> QED
    BY <1>3, <2>1, <2>2, <2>3, <2>4 DEF Ahead
<1>8. Ahead(pNextInferenceRequestJob, NumAhead - Len(dlaFifo) + j) \in Slots
  BY <1>3, NextJobInRing DEF Ahead
<1> QED
  BY <1>3, <1>5, <1>6, <1>7, <1>8 DEF Slots

\* The msgDMA never writes a buffer that the DLA has been told to read
\* (ArmDmaTransfer and ScheduleDlaInference, stream_controller.c), for every
\* ring of three or more jobs.
THEOREM BuffersNeverShared ==
    ASSUME StreamingUse
    PROVE  Spec => []BufferNeverShared
<1>1. TypeInv /\ StreamInv => BufferNeverShared
  BY StreamNeverShares DEF StreamingUse
<1> QED
  BY <1>1, StreamInvariant, PTL

\* There is never more than one descriptor armed.
THEOREM CaptureIsSingle ==
    ASSUME StreamingUse
    PROVE  Spec => []SingleCapture
<1>1. TypeInv /\ StreamInv => SingleCapture
  BY DEF StreamInv, OneCapture, SingleCapture
<1> QED
  BY <1>1, StreamInvariant, PTL

\* Capture never stops without an error in the status, even when the driver
\* refuses descriptors.
THEOREM StallsAreReported ==
    ASSUME StreamingUse
    PROVE  Spec => []CaptureStallIsReported
<1>1. TypeInv /\ StreamInv => CaptureStallIsReported
  BY DEF StreamInv, OneCapture, CaughtUp, CaptureStallIsReported
<1> QED
  BY <1>1, StreamInvariant, PTL

-----------------------------------------------------------------------------
(* The sequence of fresh frames.                                           *)

\* A buffer that is not in the sequence is not removed from it.
LEMMA WithoutAbsent ==
    ASSUME NEW seq, NEW a, \A i \in DOMAIN seq : seq[i] # a
    PROVE  Without(seq, a) = seq
  BY DEF Without

\* A buffer that is in the sequence once is removed and the later ones move
\* up.
LEMMA WithoutPresent ==
    ASSUME NEW seq \in Seq(Nat), NEW j \in 1 .. Len(seq),
           \A i \in 1 .. Len(seq) : seq[i] = seq[j] => i = j
    PROVE  /\ Without(seq, seq[j]) \in Seq(Nat)
           /\ Len(Without(seq, seq[j])) = Len(seq) - 1
           /\ \A k \in 1 .. Len(seq) - 1 :
                 Without(seq, seq[j])[k] = IF k < j THEN seq[k] ELSE seq[k + 1]
<1>1. DOMAIN seq = 1 .. Len(seq) /\ Len(seq) \in Nat /\ j \in Nat
      /\ 1 <= j /\ j <= Len(seq)
  OBVIOUS
<1>2. (CHOOSE i \in DOMAIN seq : seq[i] = seq[j]) = j
  BY <1>1
<1>3. Without(seq, seq[j]) = RemoveAt(seq, j)
  BY <1>1, <1>2 DEF Without
<1> DEFINE left == SubSeq(seq, 1, j - 1)
           right == SubSeq(seq, j + 1, Len(seq))
<1>4. /\ left \in Seq(Nat) /\ Len(left) = j - 1
      /\ \A k \in 1 .. j - 1 : left[k] = seq[k]
  BY <1>1
<1>5. /\ right \in Seq(Nat) /\ Len(right) = Len(seq) - j
      /\ \A k \in 1 .. Len(seq) - j : right[k] = seq[j + k]
  <2>1. /\ j + 1 \in Int /\ Len(seq) \in Int
        /\ \A i \in j + 1 .. Len(seq) : seq[i] \in Nat
    BY <1>1
  <2>2. /\ right \in Seq(Nat)
        /\ Len(right) = IF j + 1 <= Len(seq) THEN Len(seq) - (j + 1) + 1 ELSE 0
        /\ \A k \in 1 .. Len(seq) - (j + 1) + 1 : right[k] = seq[(j + 1) + k - 1]
    BY <2>1, SubSeqProperties
  <2> HIDE DEF right
  <2>3. PICK n \in Nat : n = Len(seq) /\ j <= n
    BY <1>1
  <2>4. Len(right) = n - j
    <3>1. \A a, b \in Nat : b <= a =>
             (IF b + 1 <= a THEN a - (b + 1) + 1 ELSE 0) = a - b
      OBVIOUS
    <3>2. (IF j + 1 <= n THEN n - (j + 1) + 1 ELSE 0) = n - j
      BY <1>1, <2>3, <3>1, Zenon
    <3> QED
      BY <2>2, <2>3, <3>2, Zenon
  <2>5. ASSUME NEW k \in 1 .. n - j PROVE right[k] = seq[j + k]
    <3>1. k \in 1 .. n - (j + 1) + 1 /\ (j + 1) + k - 1 = j + k
      BY <1>1, <2>3
    <3> QED
      BY <2>2, <2>3, <3>1
  <2> QED
    BY <2>2, <2>3, <2>4, <2>5
<1>6. Without(seq, seq[j]) = left \o right
  BY <1>3 DEF RemoveAt
<1> HIDE DEF left, right
<1>7. /\ left \o right \in Seq(Nat) /\ Len(left \o right) = Len(seq) - 1
      /\ \A k \in 1 .. Len(seq) - 1 :
            (left \o right)[k] = IF k < j THEN left[k] ELSE right[k - (j - 1)]
  <2>1. /\ left \o right \in Seq(Nat)
        /\ Len(left \o right) = Len(left) + Len(right)
        /\ \A k \in 1 .. Len(left) + Len(right) :
              (left \o right)[k] = IF k <= Len(left) THEN left[k]
                                   ELSE right[k - Len(left)]
    BY <1>4, <1>5, ConcatProperties
  <2>2. PICK n \in Nat : n = Len(seq) /\ j <= n
    BY <1>1
  <2>3. Len(left) = j - 1 /\ Len(left) + Len(right) = n - 1
    <3>1. (j - 1) + (n - j) = n - 1
      BY <1>1, <2>2
    <3> QED
      BY <1>4, <1>5, <2>2, <3>1, Zenon
  <2>4. ASSUME NEW k \in 1 .. n - 1
        PROVE  (left \o right)[k] = IF k < j THEN left[k] ELSE right[k - (j - 1)]
    <3>1. k <= j - 1 <=> k < j
      BY <1>1
    <3> QED
      BY <2>1, <2>3, <3>1, Zenon
  <2> QED
    BY <2>1, <2>2, <2>3, <2>4, Zenon
<1>8. ASSUME NEW k \in 1 .. Len(seq) - 1
      PROVE  (left \o right)[k] = IF k < j THEN seq[k] ELSE seq[k + 1]
  <2>1. CASE k < j
    <3>1. k \in 1 .. j - 1
      BY <1>1, <2>1
    <3> QED
      BY <1>4, <1>7, <2>1, <3>1
  <2>2. CASE ~(k < j)
    <3>1. k - (j - 1) \in 1 .. Len(seq) - j /\ j + (k - (j - 1)) = k + 1
      BY <1>1, <2>2
    <3> QED
      BY <1>5, <1>7, <2>2, <3>1
  <2> QED
    BY <2>1, <2>2
<1> QED
  BY <1>6, <1>7, <1>8

-----------------------------------------------------------------------------
(* The window of captured jobs, as arithmetic on the ring.                 *)

\* How many job items lie between p and f.
Distance(p, f) == IF p <= f THEN f - p ELSE f - p + NumJobs

\* The job item k places after p.
Nth(p, k) == IF p + k < NumJobs THEN p + k ELSE p + k - NumJobs

LEMMA DistanceRange ==
    ASSUME NEW p \in Slots, NEW f \in Slots
    PROVE  /\ Distance(p, f) \in 0 .. NumJobs - 1
           /\ Nth(p, Distance(p, f)) = f
  BY NumJobsAssumption DEF Distance, Nth, Slots

LEMMA DistanceNext ==
    ASSUME NEW p \in Slots, NEW f \in Slots
    PROVE  /\ NextJob(f) # p => Distance(p, NextJob(f)) = Distance(p, f) + 1
           /\ p # f => Distance(NextJob(p), f) = Distance(p, f) - 1
  BY NumJobsAssumption DEF Distance, NextJob, Slots

LEMMA NthDistinct ==
    ASSUME NEW p \in Slots, NEW a \in 0 .. NumJobs - 1, NEW b \in 0 .. NumJobs - 1,
           Nth(p, a) = Nth(p, b)
    PROVE  a = b
  BY NumJobsAssumption DEF Nth, Slots

LEMMA NthNext ==
    ASSUME NEW p \in Slots, NEW k \in 1 .. NumJobs - 1
    PROVE  Nth(NextJob(p), k - 1) = Nth(p, k)
  BY NumJobsAssumption DEF Nth, NextJob, Slots

LEMMA NthNatural ==
    ASSUME NEW p \in Slots, NEW k \in 0 .. NumJobs - 1
    PROVE  Nth(p, k) \in Slots
  BY NumJobsAssumption DEF Nth, Slots

\* The job items that may be scheduled are the first of the window.
LEMMA AheadOfDistance ==
    ASSUME NumJobs >= 3, NEW p \in Slots, NEW f \in Slots
    PROVE  /\ p = f <=> Distance(p, f) = 0
           /\ p # f /\ NextJob(p) = f <=> Distance(p, f) = 1
           /\ Ahead(p, 1) = Nth(p, 0) /\ Ahead(p, 2) = Nth(p, 1)
  BY NumJobsAssumption DEF Distance, NextJob, Nth, Ahead, Slots

-----------------------------------------------------------------------------
(* The invariant of the frames while a host streams.                       *)

\* Inferences finished whose job item is not yet recycled: the request is
\* idle, or on its way back.
Done == hostIdle + Pend

\* How many job items are captured and not recycled.
WindowSize == Distance(pNextInferenceRequestJob, pFillingImageJob)

\* A capture has ended and NewSourceBuffer has not seen it yet.
Unseen == irq \/ isrCount # CaughtUp

\* seq lists the buffers of the job items from n places after p on.
FramesFrom(seq, p, n) ==
    \A k \in 1 .. Len(seq) : seq[k] = Nth(p, n + k - 1) + 1

\* The fresh frames are those of the captured jobs whose inference has not
\* finished, in the order of the ring, and one more when the buffer being
\* filled holds a complete frame: a capture the loop has not seen, or one it
\* dropped.
FrameInv ==
    /\ fresh \in Seq(Nat)
    /\ ~running => fresh = <<>>
    /\ running =>
          /\ FramesFrom(fresh, pNextInferenceRequestJob, Done)
          /\ Len(fresh) \in {WindowSize - Done, WindowSize - Done + 1}
          /\ Unseen => Len(fresh) = WindowSize - Done + 1

\* What the invariant of streaming says of the sizes involved.
LEMMA WindowFacts ==
    ASSUME RingUse, TypeInv, StreamInv, running
    PROVE  /\ pNextInferenceRequestJob \in Slots /\ pFillingImageJob \in Slots
           /\ allocated /\ NumJobs >= 3
           /\ hostIdle \in Nat /\ Pend \in 0 .. 1 /\ Done \in Nat
           /\ dlaFifo \in Seq(Nat) /\ Len(dlaFifo) \in Nat
           /\ Done + Len(dlaFifo) = NumAhead /\ NumAhead \in 0 .. 2
           /\ WindowSize \in 0 .. NumJobs - 1 /\ NumAhead <= WindowSize
           /\ Done <= WindowSize
<1>1. /\ pNextInferenceRequestJob \in Slots /\ pFillingImageJob \in Slots
      /\ allocated /\ NumJobs >= 3 /\ NumAhead \in 0 .. 2
  BY AheadCount DEF RingUse
<1>2. /\ hostIdle \in Nat /\ dlaFifo \in Seq(Nat) /\ Len(dlaFifo) \in Nat
  BY TypeParts DEF TypeInv, HostTypes, HardwareTypes
<1>3. Pend \in 0 .. 1
  BY DEF Pend
<1>4. Done \in Nat
  BY <1>2, <1>3 DEF Done
<1>5. Done + Len(dlaFifo) = NumAhead
  BY DEF Done, StreamInv, Window
<1>6. WindowSize \in 0 .. NumJobs - 1
  BY <1>1, DistanceRange DEF WindowSize
<1>7. NumAhead <= WindowSize
  <2>1. /\ pNextInferenceRequestJob = pFillingImageJob <=> WindowSize = 0
        /\ /\ pNextInferenceRequestJob # pFillingImageJob
           /\ NextJob(pNextInferenceRequestJob) = pFillingImageJob
           <=> WindowSize = 1
    BY <1>1, AheadOfDistance DEF WindowSize
  <2> QED
    BY <1>6, <2>1 DEF NumAhead
<1>8. Done <= WindowSize
  BY <1>1, <1>2, <1>4, <1>5, <1>6, <1>7
<1> QED
  BY <1>1, <1>2, <1>3, <1>4, <1>5, <1>6, <1>7, <1>8

\* A step that neither captures nor consumes a frame nor moves the window.
LEMMA SameFrames ==
    ASSUME FrameInv,
           UNCHANGED <<fresh, running, pNextInferenceRequestJob, pFillingImageJob>>,
           running => Done' = Done /\ (Unseen' => Unseen)
    PROVE  FrameInv'
  BY DEF FrameInv, WindowSize, FramesFrom

\* A capture ends: the frame in the buffer being filled becomes the newest.
LEMMA FramesCaptured ==
    ASSUME RingUse, TypeInv, StreamInv, FrameInv, FrameCaptured
    PROVE  FrameInv'
<1> DEFINE p == pNextInferenceRequestJob
           f == pFillingImageJob
           rest == Without(fresh, f + 1)
           len == WindowSize - Done
<1>1. dma # <<>> /\ irq' /\ DmaComplete
  BY DEF FrameCaptured, DmaComplete
<1>2. UNCHANGED <<running, pNextInferenceRequestJob, pFillingImageJob, hostIdle, mailbox>>
  BY <1>1 DEF DmaComplete, ringVars, countVars, hostVars
<1>3. running
  BY <1>1 DEF StreamInv, NotStarted
<1>4. /\ p \in Slots /\ f \in Slots /\ Done \in Nat /\ Done <= WindowSize
      /\ WindowSize \in 0 .. NumJobs - 1
  BY <1>3, WindowFacts
<1>5. Head(dma) = f + 1 /\ f + 1 # NoWrite
  <2>1. dma \in Seq(Nat \cup {NoWrite})
    BY TypeParts DEF TypeInv, HardwareTypes
  <2>2. dma[1] = f + 1
    BY <1>1, <1>3 DEF StreamInv, OneCapture
  <2> QED
    BY <1>1, <1>4, <2>1, <2>2 DEF NoWrite, Slots
<1>6. fresh' = Append(rest, f + 1)
  BY <1>5 DEF FrameCaptured
<1>7. /\ fresh \in Seq(Nat) /\ FramesFrom(fresh, p, Done)
      /\ Len(fresh) \in {len, len + 1}
  BY <1>3 DEF FrameInv
<1>8. f = Nth(p, WindowSize)
  BY <1>4, DistanceRange DEF WindowSize
<1>9. \A k \in 1 .. Len(fresh) : fresh[k] = f + 1 => k = len + 1
  <2>1. SUFFICES ASSUME NEW k \in 1 .. Len(fresh), fresh[k] = f + 1
                 PROVE  k = len + 1
    OBVIOUS
  <2>2. k \in 1 .. len + 1 /\ Done + k - 1 \in 0 .. NumJobs - 1
    <3>1. k \in Nat /\ 1 <= k /\ k <= len + 1 /\ len \in Nat
      BY <1>4, <1>7
    <3> QED
      BY <1>4, <3>1, NumJobsAssumption
  <2>3. Nth(p, Done + k - 1) + 1 = f + 1
    BY <1>7, <2>1 DEF FramesFrom
  <2>4. Nth(p, Done + k - 1) \in Slots
    BY <1>4, <2>2, NthNatural
  <2>5. Nth(p, Done + k - 1) = Nth(p, WindowSize)
    BY <1>4, <1>8, <2>3, <2>4 DEF Slots
  <2>6. Done + k - 1 = WindowSize
    BY <1>4, <2>2, <2>5, NthDistinct
  <2> QED
    BY <1>4, <2>2, <2>6
<1>10. /\ rest \in Seq(Nat) /\ Len(rest) = len
       /\ \A k \in 1 .. len : rest[k] = fresh[k]
  <2>1. CASE Len(fresh) = len
    <3>1. \A i \in DOMAIN fresh : fresh[i] # f + 1
      BY <1>4, <1>7, <1>9, <2>1
    <3> QED
      BY <1>7, <2>1, <3>1, WithoutAbsent
  <2>2. CASE Len(fresh) = len + 1
    <3>1. len + 1 \in 1 .. Len(fresh) /\ len \in Nat
      BY <1>4, <2>2
    <3>2. fresh[len + 1] = f + 1
      <4>1. fresh[len + 1] = Nth(p, Done + (len + 1) - 1) + 1
        BY <1>7, <3>1 DEF FramesFrom
      <4>2. Done + (len + 1) - 1 = WindowSize
        BY <1>4
      <4> QED
        BY <1>8, <4>1, <4>2
    <3>3. \A i \in 1 .. Len(fresh) : fresh[i] = fresh[len + 1] => i = len + 1
      BY <1>9, <3>2
    <3>4. /\ Without(fresh, fresh[len + 1]) \in Seq(Nat)
          /\ Len(Without(fresh, fresh[len + 1])) = Len(fresh) - 1
          /\ \A k \in 1 .. Len(fresh) - 1 :
                Without(fresh, fresh[len + 1])[k] =
                    IF k < len + 1 THEN fresh[k] ELSE fresh[k + 1]
      BY <1>7, <3>1, <3>3, WithoutPresent
    <3> HIDE DEF rest, len
    <3>5. Len(fresh) - 1 = len /\ \A k \in 1 .. len : k < len + 1
      BY <2>2, <3>1
    <3>6. /\ rest \in Seq(Nat) /\ Len(rest) = Len(fresh) - 1
          /\ \A k \in 1 .. Len(fresh) - 1 :
                rest[k] = IF k < len + 1 THEN fresh[k] ELSE fresh[k + 1]
      BY <3>2, <3>4 DEF rest
    <3> QED
      BY <3>5, <3>6, Zenon
  <2> QED
    BY <1>7, <2>1, <2>2
<1> HIDE DEF rest
<1>11. /\ fresh' \in Seq(Nat) /\ Len(fresh') = len + 1
       /\ fresh'[len + 1] = f + 1
       /\ \A k \in 1 .. len : fresh'[k] = fresh[k]
  <2>1. f + 1 \in Nat
    BY <1>4 DEF Slots
  <2> QED
    BY <1>6, <1>10, <2>1
<1>12. ASSUME NEW k \in 1 .. Len(fresh')
       PROVE  fresh'[k] = Nth(p, Done + k - 1) + 1
  <2>0. len \in Nat /\ k \in 1 .. len + 1
    BY <1>4, <1>11
  <2>1. CASE k = len + 1
    <3>1. Done + k - 1 = WindowSize
      BY <1>4, <2>1
    <3> QED
      BY <1>8, <1>11, <2>1, <3>1
  <2>2. CASE k \in 1 .. len
    <3>1. k \in 1 .. Len(fresh)
      BY <1>7, <2>0, <2>2
    <3> QED
      BY <1>7, <1>11, <2>2, <3>1 DEF FramesFrom
  <2> QED
    BY <2>0, <2>1, <2>2
<1>13. Done' = Done /\ WindowSize' = WindowSize
  BY <1>2 DEF Done, Pend, WindowSize
<1> QED
  BY <1>2, <1>3, <1>11, <1>12, <1>13 DEF FrameInv, FramesFrom

\* An inference ends: it has consumed the oldest fresh frame.
LEMMA FramesConsumed ==
    ASSUME RingUse, TypeInv, StreamInv, FrameInv, FrameConsumed
    PROVE  FrameInv'
<1> DEFINE p == pNextInferenceRequestJob
           len == WindowSize - Done
<1>1. DlaComplete /\ fresh' = Without(fresh, Head(dlaFifo))
  BY DEF FrameConsumed
<1>2. UNCHANGED <<running, pNextInferenceRequestJob, pFillingImageJob, mailbox,
                  irq, isrCount, loopVars>>
  BY <1>1 DEF DlaComplete, ringVars, countVars
<1>3. /\ running /\ Len(dlaFifo) > 0 /\ hostIdle' = hostIdle + 1
      /\ Head(dlaFifo) = Ahead(p, Done + 1) + 1
  BY <1>1, FinishedInference DEF Done
<1>4. /\ p \in Slots /\ Done \in Nat /\ NumJobs >= 3 /\ Len(dlaFifo) \in Nat
      /\ Done + Len(dlaFifo) = NumAhead /\ NumAhead \in 0 .. 2
      /\ NumAhead <= WindowSize /\ WindowSize \in 0 .. NumJobs - 1
      /\ pFillingImageJob \in Slots /\ hostIdle \in Nat /\ Pend \in 0 .. 1
  BY <1>3, WindowFacts
<1>5. Done \in 0 .. 1 /\ Done < WindowSize
  BY <1>3, <1>4
<1>6. Head(dlaFifo) = Nth(p, Done) + 1
  <2>1. Ahead(p, 1) = Nth(p, 0) /\ Ahead(p, 2) = Nth(p, 1)
    BY <1>4, AheadOfDistance
  <2>2. CASE Done = 0
    BY <1>3, <2>1, <2>2
  <2>3. CASE Done = 1
    BY <1>3, <2>1, <2>3
  <2> QED
    BY <1>5, <2>2, <2>3
<1>7. /\ fresh \in Seq(Nat) /\ FramesFrom(fresh, p, Done)
      /\ Len(fresh) \in {len, len + 1}
      /\ Unseen => Len(fresh) = len + 1
  BY <1>3 DEF FrameInv
<1>8. 1 \in 1 .. Len(fresh) /\ Len(fresh) \in Nat
  BY <1>4, <1>5, <1>7
<1>9. fresh[1] = Head(dlaFifo)
  <2>1. fresh[1] = Nth(p, Done + 1 - 1) + 1
    BY <1>7, <1>8 DEF FramesFrom
  <2>2. Done + 1 - 1 = Done
    BY <1>4
  <2> QED
    BY <1>6, <2>1, <2>2
<1>10. \A i \in 1 .. Len(fresh) : fresh[i] = fresh[1] => i = 1
  <2>1. SUFFICES ASSUME NEW i \in 1 .. Len(fresh), fresh[i] = fresh[1]
                 PROVE  i = 1
    OBVIOUS
  <2>2. Done + i - 1 \in 0 .. NumJobs - 1 /\ Done \in 0 .. NumJobs - 1
    <3>1. i \in Nat /\ 1 <= i /\ i <= len + 1 /\ len \in Nat
      BY <1>4, <1>5, <1>7
    <3> QED
      BY <1>4, <1>5, <3>1, NumJobsAssumption
  <2>3. Nth(p, Done + i - 1) + 1 = Nth(p, Done) + 1
    BY <1>6, <1>7, <1>9, <2>1 DEF FramesFrom
  <2>4. Nth(p, Done + i - 1) \in Slots /\ Nth(p, Done) \in Slots
    BY <1>4, <2>2, NthNatural
  <2>5. Nth(p, Done + i - 1) = Nth(p, Done)
    BY <2>3, <2>4 DEF Slots
  <2>6. Done + i - 1 = Done
    BY <1>4, <2>2, <2>5, NthDistinct
  <2> QED
    BY <1>4, <1>8, <2>6
<1>11. /\ fresh' \in Seq(Nat) /\ Len(fresh') = Len(fresh) - 1
       /\ \A k \in 1 .. Len(fresh) - 1 :
             fresh'[k] = IF k < 1 THEN fresh[k] ELSE fresh[k + 1]
  <2>1. fresh' = Without(fresh, fresh[1])
    BY <1>1, <1>9
  <2> QED
    BY <1>7, <1>8, <1>10, <2>1, WithoutPresent
<1>12. Done' = Done + 1 /\ WindowSize' = WindowSize /\ Unseen' = Unseen
  <2>1. Pend' = Pend /\ WindowSize' = WindowSize
    BY <1>2 DEF Pend, WindowSize
  <2>2. Unseen' = Unseen
    BY <1>2 DEF Unseen, CaughtUp, loopVars
  <2> QED
    BY <1>3, <1>4, <2>1, <2>2 DEF Done
<1>13. ASSUME NEW k \in 1 .. Len(fresh')
       PROVE  fresh'[k] = Nth(p, (Done + 1) + k - 1) + 1
  <2>1. k \in 1 .. Len(fresh) - 1 /\ k + 1 \in 1 .. Len(fresh)
        /\ ~(k < 1) /\ Done + (k + 1) - 1 = (Done + 1) + k - 1
    BY <1>4, <1>8, <1>11
  <2>2. fresh'[k] = fresh[k + 1]
    BY <1>11, <2>1
  <2>3. fresh[k + 1] = Nth(p, Done + (k + 1) - 1) + 1
    BY <1>7, <2>1 DEF FramesFrom
  <2> QED
    BY <2>1, <2>2, <2>3
<1>14. /\ Len(fresh') \in {WindowSize - (Done + 1), WindowSize - (Done + 1) + 1}
       /\ Unseen => Len(fresh') = WindowSize - (Done + 1) + 1
  BY <1>4, <1>7, <1>8, <1>11
<1>15. FramesFrom(fresh', p', Done')
  BY <1>2, <1>12, <1>13 DEF FramesFrom
<1> QED
  BY <1>2, <1>3, <1>11, <1>12, <1>14, <1>15 DEF FrameInv

\* The steps that leave the window alone.
LEMMA FramesLoopReadIsrCount ==
    ASSUME FrameInv, LoopReadIsrCount, UNCHANGED fresh
    PROVE  FrameInv'
<1>1. /\ pc = "top" /\ pc' = "buffer"
      /\ UNCHANGED <<running, pNextInferenceRequestJob, pFillingImageJob, hostIdle,
                     mailbox, irq, isrCount, previousIsrCount>>
  BY DEF LoopReadIsrCount, ringVars, countVars, hwVars, hostVars
<1>2. Done' = Done /\ (Unseen' => Unseen)
  BY <1>1 DEF Done, Pend, Unseen, CaughtUp
<1> QED
  BY <1>1, <1>2, SameFrames

LEMMA FramesMsgDmaIsr ==
    ASSUME FrameInv, MsgDmaIsr, UNCHANGED fresh
    PROVE  FrameInv'
<1>1. /\ irq
      /\ UNCHANGED <<running, pNextInferenceRequestJob, pFillingImageJob, hostIdle,
                     mailbox>>
  BY DEF MsgDmaIsr, ringVars, countVars, hostVars
<1>2. Done' = Done /\ Unseen
  BY <1>1 DEF Done, Pend, Unseen
<1> QED
  BY <1>1, <1>2, SameFrames

LEMMA FramesHost ==
    ASSUME TypeInv, StreamInv, FrameInv, Host, StreamingStep, UNCHANGED fresh
    PROVE  FrameInv'
<1>1. UNCHANGED <<running, pNextInferenceRequestJob, pFillingImageJob, irq, isrCount,
                  previousIsrCount, loopIsrCount, pc>>
  BY DEF Host, HostPing, HostInitialize, HostScheduleItem, HostQuery, HostManual,
     HostReceiveReply, HostRestart, HostSend, ringVars, countVars, loopVars, hwVars
<1>2. Unseen' => Unseen
  BY <1>1 DEF Unseen, CaughtUp
<1>3. hostIdle \in Nat
  BY TypeParts DEF TypeInv, HostTypes
<1>4. ASSUME running PROVE Done' = Done
  <2>1. CASE HostScheduleItem
    <3>1. /\ mailbox.type = "None" /\ mailbox'.type = "ScheduleItem"
          /\ hostIdle > 0 /\ hostIdle' = hostIdle - 1
      BY <2>1 DEF HostScheduleItem, HostSend
    <3>2. Pend = 0 /\ Pend' = 1
      BY <3>1 DEF Pend
    <3> QED
      BY <1>3, <3>1, <3>2 DEF Done
  <2>2. CASE HostRestart
    <3>1. restarts' = restarts + 1
      BY <2>2, Zenon DEF HostRestart
    <3>2. restarts' > restarts
      BY <3>1, TypeParts DEF TypeInv, HostTypes
    <3> QED
      BY <1>4, <3>2 DEF StreamingStep
  <2>3. CASE HostPing \/ HostInitialize \/ HostQuery \/ HostManual \/ HostReceiveReply
    <3>1. hostIdle' = hostIdle
      BY <2>3 DEF HostPing, HostInitialize, HostQuery, HostManual, HostReceiveReply,
         hostVars
    <3>2. mailbox.type # "ScheduleItem" /\ mailbox'.type # "ScheduleItem"
      BY <2>3 DEF HostPing, HostInitialize, HostQuery, HostManual, HostReceiveReply,
         HostSend
    <3> QED
      BY <3>1, <3>2 DEF Done, Pend
  <2> QED
    BY <2>1, <2>2, <2>3 DEF Host
<1> QED
  BY <1>1, <1>2, <1>4, SameFrames

\* A buffer that is kept makes the window one larger, unless the ring is full.
LEMMA KeepGrowsWindow ==
    ASSUME RingUse, TypeInv, StreamInv, running, KeepSourceBuffer(pFillingImageJob)
    PROVE  \/ pFillingImageJob' = pFillingImageJob
           \/ /\ pFillingImageJob' = NextJob(pFillingImageJob)
              /\ NextJob(pFillingImageJob) # pNextInferenceRequestJob
<1> DEFINE f == pFillingImageJob
           p == pNextInferenceRequestJob
           full == [hasSourceBuffer EXCEPT ![f] = TRUE][NextJob(f)]
<1>1. p \in Slots /\ f \in Slots /\ NumJobs >= 3
  BY WindowFacts
<1>2. pFillingImageJob' = IF full THEN f ELSE NextJob(f)
  BY DEF KeepSourceBuffer, ArmDmaTransfer
<1>3. CASE full
  BY <1>2, <1>3
<1>4. CASE ~full
  <2>1. NextJob(f) \in Slots /\ NextJob(f) # f /\ (Between(p, f, NextJob(f)) <=> NextJob(f) = p)
    BY <1>1, BetweenEnds
  <2>2. hasSourceBuffer \in [Slots -> BOOLEAN]
    BY TypeParts DEF TypeInv, RingTypes
  <2>3. ~hasSourceBuffer[NextJob(f)]
    BY <1>1, <1>4, <2>1, <2>2
  <2>4. hasSourceBuffer[NextJob(f)] <=> Between(p, f, NextJob(f))
    BY <2>1 DEF StreamInv, Window, Filled
  <2> QED
    BY <1>2, <1>4, <2>1, <2>3, <2>4
<1> QED
  BY <1>3, <1>4

\* The loop acts on the capture that has ended: its frame is now in the
\* window, or it is still the one more.
LEMMA FramesLoopNewSourceBuffer ==
    ASSUME RingUse, TypeInv, StreamInv, FrameInv, LoopNewSourceBuffer, UNCHANGED fresh
    PROVE  FrameInv'
<1>1. /\ pc = "buffer" /\ pc' = "message"
      /\ UNCHANGED <<isrCount, previousIsrCount, loopIsrCount, irq, mailbox, hostIdle>>
  BY DEF LoopNewSourceBuffer, hostVars
<1>2. Done' = Done
  BY <1>1 DEF Done, Pend
<1>3. CASE loopIsrCount = previousIsrCount
  <2>1. UNCHANGED <<running, pNextInferenceRequestJob, pFillingImageJob>>
    BY <1>3 DEF LoopNewSourceBuffer, ringVars, countVars
  <2>2. Unseen' => Unseen
    BY <1>1, <1>3 DEF Unseen, CaughtUp
  <2> QED
    BY <1>2, <2>1, <2>2, SameFrames
<1>4. CASE loopIsrCount # previousIsrCount
  <2>1. NewSourceBuffer
    BY <1>4 DEF LoopNewSourceBuffer
  <2>2. running
    BY <1>4 DEF StreamInv, NotStarted
  <2>3. ~irq /\ isrCount = loopIsrCount /\ isrCount # CaughtUp
    BY <1>1, <1>4 DEF StreamInv, OneCapture, CaughtUp
  <2>4. Unseen /\ ~Unseen'
    BY <1>1, <2>3 DEF Unseen, CaughtUp
  <2>5. UNCHANGED <<running, pNextInferenceRequestJob>>
    BY <2>1 DEF NewSourceBuffer
  <2>6. /\ pNextInferenceRequestJob \in Slots /\ pFillingImageJob \in Slots
        /\ Done \in Nat /\ WindowSize \in 0 .. NumJobs - 1 /\ Done <= WindowSize
    BY <2>2, WindowFacts
  <2>7. \/ pFillingImageJob' = pFillingImageJob
        \/ /\ pFillingImageJob' = NextJob(pFillingImageJob)
           /\ NextJob(pFillingImageJob) # pNextInferenceRequestJob
    <3>1. pFillingImageJob # DebugJob
      BY <2>6 DEF Slots, DebugJob
    <3>2. CASE DropsBuffer
      BY <2>1, <3>1, <3>2 DEF NewSourceBuffer, ArmDmaTransfer
    <3>3. CASE ~DropsBuffer
      <4>1. KeepSourceBuffer(pFillingImageJob)
        BY <2>1, <3>1, <3>3 DEF NewSourceBuffer
      <4> QED
        BY <2>2, <4>1, KeepGrowsWindow
    <3> QED
      BY <3>2, <3>3
  <2>8. WindowSize' \in {WindowSize, WindowSize + 1}
    BY <2>5, <2>6, <2>7, DistanceNext DEF WindowSize
  <2>9. /\ fresh \in Seq(Nat) /\ FramesFrom(fresh, pNextInferenceRequestJob, Done)
        /\ Len(fresh) = WindowSize - Done + 1
    BY <2>2, <2>4 DEF FrameInv
  <2>10. Len(fresh) \in {WindowSize' - Done, WindowSize' - Done + 1}
    <3>1. CASE WindowSize' = WindowSize
      BY <2>9, <3>1
    <3>2. CASE WindowSize' = WindowSize + 1
      <4>1. WindowSize' - Done = WindowSize - Done + 1
        BY <2>6, <3>2
      <4> QED
        BY <2>9, <4>1
    <3> QED
      BY <2>8, <3>1, <3>2
  <2> QED
    BY <1>2, <2>2, <2>4, <2>5, <2>9, <2>10 DEF FrameInv, FramesFrom
<1> QED
  BY <1>3, <1>4

\* A request while streaming recycles the first job of the window, whose
\* frame has been consumed.
LEMMA FramesRecycled ==
    ASSUME RingUse, TypeInv, StreamInv, FrameInv, running, running', UNCHANGED fresh,
           mailbox.type = "ScheduleItem", mailbox'.type = "None", hostIdle' = hostIdle,
           pNextInferenceRequestJob' = NextJob(pNextInferenceRequestJob),
           pFillingImageJob' = pFillingImageJob, Unseen' => Unseen
    PROVE  FrameInv'
<1> DEFINE p == pNextInferenceRequestJob
<1>1. /\ p \in Slots /\ pFillingImageJob \in Slots /\ hostIdle \in Nat
      /\ Done \in Nat /\ WindowSize \in 0 .. NumJobs - 1 /\ Done <= WindowSize
      /\ NumJobs >= 3
  BY WindowFacts
<1>2. Pend = 1 /\ Pend' = 0
  BY DEF Pend
<1>3. Done \in 1 .. NumJobs - 1 /\ Done' = Done - 1
  <2>1. Done = hostIdle + 1 /\ Done' = hostIdle + 0
    BY <1>2 DEF Done
  <2>2. Done >= 1 /\ Done <= NumJobs - 1
    BY <1>1, <2>1, NumJobsAssumption
  <2> QED
    BY <1>1, <2>1, <2>2, NumJobsAssumption
<1>4. p # pFillingImageJob
  <2>1. WindowSize # 0
    BY <1>1, <1>3
  <2> QED
    BY <1>1, <2>1, AheadOfDistance DEF WindowSize
<1>5. WindowSize' = WindowSize - 1
  BY <1>1, <1>4, DistanceNext DEF WindowSize
<1>6. /\ fresh \in Seq(Nat) /\ FramesFrom(fresh, p, Done)
      /\ Len(fresh) \in {WindowSize - Done, WindowSize - Done + 1}
      /\ Unseen => Len(fresh) = WindowSize - Done + 1
  BY DEF FrameInv
<1>7. ASSUME NEW k \in 1 .. Len(fresh)
      PROVE  fresh[k] = Nth(NextJob(p), (Done - 1) + k - 1) + 1
  <2>1. k \in Nat /\ 1 <= k /\ k <= WindowSize - Done + 1
    BY <1>1, <1>6
  <2>2. Done + k - 1 \in 1 .. NumJobs - 1
    BY <1>1, <1>3, <2>1, NumJobsAssumption
  <2>3. Nth(NextJob(p), (Done + k - 1) - 1) = Nth(p, Done + k - 1)
    BY <1>1, <2>2, NthNext
  <2>4. (Done + k - 1) - 1 = (Done - 1) + k - 1
    BY <1>1, <2>1
  <2> QED
    BY <1>6, <2>3, <2>4 DEF FramesFrom
<1>8. WindowSize - Done = WindowSize' - Done'
  BY <1>1, <1>3, <1>5
<1>9. FramesFrom(fresh', p', Done')
  BY <1>3, <1>7 DEF FramesFrom
<1> QED
  BY <1>6, <1>8, <1>9 DEF FrameInv

\* The end of an iteration: a request may recycle a job or start the stream.
LEMMA FramesLoopReceiveMessage ==
    ASSUME RingUse, TypeInv, StreamInv, StreamInv', FrameInv, LoopReceiveMessage,
           UNCHANGED fresh
    PROVE  FrameInv'
<1>1. /\ pc = "message" /\ pc' = "top" /\ previousIsrCount' = loopIsrCount
      /\ loopIsrCount' = loopIsrCount /\ UNCHANGED <<hostPhase, hostIdle>>
  BY DEF LoopReceiveMessage, hostVars
<1>2. ASSUME UNCHANGED <<irq, isrCount>> PROVE Unseen' => Unseen
  BY <1>1, <1>2 DEF Unseen, CaughtUp
<1>3. ASSUME UNCHANGED <<running, pNextInferenceRequestJob, pFillingImageJob, irq,
                         isrCount>>,
             mailbox.type # "ScheduleItem", mailbox'.type # "ScheduleItem"
      PROVE  FrameInv'
  <2>1. Done' = Done
    BY <1>1, <1>3 DEF Done, Pend
  <2> QED
    BY <1>2, <1>3, <2>1, SameFrames
<1>4. CASE mailbox.type = "None"
  BY <1>3, <1>4 DEF LoopReceiveMessage, ringVars, countVars, hwVars
<1>5. CASE mailbox.type # "None"
  <2>1. PICK after \in StatusTypes, last \in 0 .. SeqModulus - 1 :
           Handle(mailbox, after, last) /\ mailbox' = NoMessage
    BY <1>5 DEF LoopReceiveMessage, ReceiveMessage
  <2>2. mailbox'.type = "None"
    BY <2>1 DEF NoMessage
  <2>3. CASE mailbox.type \in {"GetStatus", "Ping"}
    BY <1>3, <2>1, <2>2, <2>3 DEF Handle, ringVars, countVars, hwVars
  <2>4. CASE mailbox.type = "ScheduleItem"
    <3>1. NewInferenceRequestReceived(mailbox.arg, after) /\ UNCHANGED <<isrCount, irq>>
      BY <2>1, <2>4 DEF Handle
    <3>2. CASE running
      <4>1. /\ running' /\ pFillingImageJob' = pFillingImageJob
            /\ pNextInferenceRequestJob' = NextJob(pNextInferenceRequestJob)
        BY <1>1, <2>2, <2>4, <3>1, <3>2, StreamRecycle
      <4> QED
        BY <1>1, <1>2, <2>2, <2>4, <3>1, <3>2, <4>1, FramesRecycled
    <3>3. CASE ~running
      <4>1. fresh' = <<>>
        BY <3>3 DEF FrameInv
      <4>2. Window' /\ (running' => pNextInferenceRequestJob' = pFillingImageJob')
            /\ pFillingImageJob' \in Slots
        BY <1>1, <2>2, <2>4, <3>1, <3>3, StreamFillRing
      <4>3. CASE ~running'
        BY <4>1, <4>3 DEF FrameInv
      <4>4. CASE running'
        <5>1. ~Unseen'
          <6>1. ~irq /\ isrCount = loopIsrCount
            BY <3>3 DEF StreamInv, NotStarted
          <6> QED
            BY <1>1, <3>1, <6>1 DEF Unseen, CaughtUp
        <5>2. NumAhead' = 0
          BY <4>2, <4>4 DEF NumAhead
        <5>3. hostIdle' + Pend' + Len(dlaFifo') = 0
          BY <4>2, <4>4, <5>2 DEF Window
        <5>4. hostIdle' \in Nat /\ Len(dlaFifo') \in Nat
          BY TypeNext, TypeParts, <1>1, <3>1
          DEF Next, EventLoop, TypeInv, HostTypes, HardwareTypes
        <5>5. Pend' = 0 /\ Done' = 0
          <6>1. Pend' = 0
            BY <2>2 DEF Pend
          <6>2. hostIdle' = 0
            BY <5>3, <5>4, <6>1
          <6> QED
            BY <6>1, <6>2 DEF Done
        <5>6. WindowSize' = 0
          BY <4>2, <4>4, AheadOfDistance DEF WindowSize, RingUse
        <5> QED
          BY <4>1, <5>1, <5>5, <5>6 DEF FrameInv, FramesFrom
      <4> QED
        BY <4>3, <4>4
    <3> QED
      BY <3>2, <3>3
  <2>5. CASE mailbox.type = "InitializeStreamController"
    <3>1. ~running /\ mailbox.arg = NumJobs
      BY <2>5 DEF StreamInv, HostInStep
    <3>2. InitializeStreamController(mailbox.arg, after, last)
      BY <2>1, <2>5 DEF Handle
    <3>3. Reset
      BY <3>1, <3>2, NumJobsAssumption DEF InitializeStreamController
    <3>4. ~running' /\ fresh' = <<>>
      BY <3>1, <3>3 DEF Reset, FrameInv
    <3> QED
      BY <3>4 DEF FrameInv
  <2> QED
    BY <1>5, <2>3, <2>4, <2>5 DEF StreamInv, HostInStep
<1> QED
  BY <1>4, <1>5

-----------------------------------------------------------------------------
(* The invariant of a debugging session.                                   *)

\* The host never asks for the ring's number of jobs once there is a ring, so
\* the controller is not initialized a second time.
DebugHost ==
    /\ mailbox.type \notin {"ScheduleItem", "GetStatus"}
    /\ allocated /\ hostPhase # "run" => hostSize # NumJobs
    /\ allocated /\ mailbox.type = "InitializeStreamController" =>
          mailbox.arg # NumJobs

\* No request is counted, and no job item is touched.
DebugRing ==
    /\ ~running /\ numInferenceRequests = 0
    /\ hasSourceBuffer = EmptyRing /\ scheduledWithDLA = EmptyRing

\* What the hardware holds comes from debug commands, and a completion the
\* loop has not seen finds _debugJob as the job being filled.
DebugTargets ==
    /\ \A i \in DOMAIN dma : dma[i] \in {DebugAddress, NoWrite}
    /\ \A i \in DOMAIN dlaFifo : dlaFifo[i] = DebugAddress

DebugCapture ==
    pFillingImageJob # DebugJob =>
        /\ dma = <<>> /\ ~irq
        /\ isrCount = previousIsrCount /\ loopIsrCount = previousIsrCount

\* A transfer and an inference never overlap.
DebugInTurn ==
    /\ dma # <<>> \/ mailbox.type = "ManualArmDmaTransfer" =>
          dlaFifo = <<>> /\ mailbox.type # "ManualScheduleDlaInference"
    /\ mailbox.type = "ManualScheduleDlaInference" => dma = <<>>

DebugInv == DebugHost /\ DebugRing /\ DebugTargets /\ DebugCapture /\ DebugInTurn

\* What SessionAllows says of who debugs.
DebugStep ==
    /\ mailbox'.type \notin {"ScheduleItem", "GetStatus"}
    /\ restarts' > restarts => hostSize' # NumJobs
    /\ mailbox'.type = "ManualArmDmaTransfer" => dlaFifo' = <<>>
    /\ mailbox'.type = "ManualScheduleDlaInference" => dma' = <<>>

LEMMA DebugInit == Init => DebugInv
<1> SUFFICES ASSUME Init PROVE DebugInv
  OBVIOUS
<1>1. ~allocated /\ ~running /\ ~irq
  BY Zenon DEF Init
<1>2. /\ mailbox.type = "None" /\ numInferenceRequests = 0
      /\ dma = <<>> /\ dlaFifo = <<>>
      /\ isrCount = 0 /\ loopIsrCount = 0 /\ previousIsrCount = 0
      /\ hasSourceBuffer = EmptyRing /\ scheduledWithDLA = EmptyRing
  BY DEF Init, NoMessage
<1> QED
  BY <1>1, <1>2
  DEF DebugInv, DebugHost, DebugRing, DebugTargets, DebugCapture, DebugInTurn

\* The loop's first step and the ISR: they move the interrupt counts only,
\* and both find nothing to move unless _debugJob is being filled.
LEMMA DebugCounts ==
    ASSUME DebugInv, LoopReadIsrCount \/ MsgDmaIsr
    PROVE  DebugInv'
<1>1. /\ UNCHANGED <<allocated, hasSourceBuffer, scheduledWithDLA, pFillingImageJob,
                     running, numInferenceRequests, dma, dlaFifo, mailbox, hostPhase,
                     hostSize, previousIsrCount>>
      /\ irq' => irq
  BY DEF LoopReadIsrCount, MsgDmaIsr, ringVars, countVars, loopVars, hwVars, hostVars
<1>2. DebugCapture'
  <2>1. SUFFICES ASSUME pFillingImageJob # DebugJob
                 PROVE  /\ isrCount' = previousIsrCount
                        /\ loopIsrCount' = previousIsrCount
    BY <1>1 DEF DebugInv, DebugCapture
  <2>2. ~irq /\ isrCount = previousIsrCount /\ loopIsrCount = previousIsrCount
    BY <2>1 DEF DebugInv, DebugCapture
  <2>3. LoopReadIsrCount
    BY <2>2, Zenon DEF MsgDmaIsr
  <2> QED
    BY <2>2, <2>3 DEF LoopReadIsrCount
<1> QED
  BY <1>1, <1>2
  DEF DebugInv, DebugHost, DebugRing, DebugTargets, DebugInTurn

\* A debug transfer or a debug inference ends.
LEMMA DebugCompletes ==
    ASSUME TypeInv, DebugInv, DmaComplete \/ DlaComplete
    PROVE  DebugInv'
<1>1. dma \in Seq(Nat \cup {NoWrite}) /\ dlaFifo \in Seq(Nat)
  BY TypeParts DEF TypeInv, HardwareTypes
<1>2. UNCHANGED <<allocated, hasSourceBuffer, scheduledWithDLA, pFillingImageJob,
                  running, numInferenceRequests, mailbox, hostPhase, hostSize,
                  isrCount, loopIsrCount, previousIsrCount>>
  BY DEF DmaComplete, DlaComplete, ringVars, countVars, loopVars, hostVars
<1>3. CASE DmaComplete
  <2>1. dma # <<>> /\ dma' = Tail(dma) /\ dlaFifo' = dlaFifo
    BY <1>3 DEF DmaComplete
  <2>2. pFillingImageJob = DebugJob
    BY <2>1 DEF DebugInv, DebugCapture
  <2>3. DebugTargets'
    BY <1>1, <2>1 DEF DebugInv, DebugTargets
  <2> QED
    BY <1>2, <2>1, <2>2, <2>3
    DEF DebugInv, DebugHost, DebugRing, DebugCapture, DebugInTurn
<1>4. CASE DlaComplete
  <2>1. dlaFifo # <<>> /\ dlaFifo' = Tail(dlaFifo) /\ UNCHANGED <<dma, irq>>
    BY <1>4 DEF DlaComplete
  <2>2. DebugTargets'
    BY <1>1, <2>1 DEF DebugInv, DebugTargets
  <2>3. dma = <<>> /\ mailbox.type # "ManualArmDmaTransfer"
    BY <2>1 DEF DebugInv, DebugInTurn
  <2> QED
    BY <1>2, <2>1, <2>2, <2>3
    DEF DebugInv, DebugHost, DebugRing, DebugCapture, DebugInTurn
<1> QED
  BY <1>3, <1>4

\* The host sends a message, takes a reply, or is replaced.
LEMMA DebugHostSteps ==
    ASSUME TypeInv, DebugInv, DebugStep, Host
    PROVE  DebugInv'
<1>1. UNCHANGED <<allocated, hasSourceBuffer, scheduledWithDLA, pFillingImageJob,
                  running, numInferenceRequests, dma, irq, dlaFifo,
                  isrCount, loopIsrCount, previousIsrCount>>
  BY DEF Host, HostPing, HostInitialize, HostScheduleItem, HostQuery, HostManual,
     HostReceiveReply, HostRestart, HostSend, ringVars, countVars, loopVars, hwVars
<1>2. mailbox'.type # "InitializeStreamController" /\ hostPhase' = "run" =>
          DebugHost'
  BY DEF DebugStep, DebugHost
<1>3. DebugHost'
  <2>1. CASE HostPing
    <3>1. hostPhase # "run" /\ hostSize' = hostSize /\ mailbox'.type = "Ping"
      BY <2>1 DEF HostPing, HostSend
    <3> QED
      BY <1>1, <3>1 DEF DebugInv, DebugHost
  <2>2. CASE HostInitialize
    <3>1. /\ hostPhase # "run" /\ hostPhase' = "run" /\ hostSize' = hostSize
          /\ mailbox'.type = "InitializeStreamController" /\ mailbox'.arg = hostSize
      BY <2>2 DEF HostInitialize, HostSend
    <3> QED
      BY <1>1, <3>1 DEF DebugInv, DebugHost
  <2>3. CASE HostScheduleItem \/ HostQuery \/ HostManual
    <3>1. /\ hostPhase' = "run" /\ mailbox'.type # "InitializeStreamController"
      BY <2>3 DEF HostScheduleItem, HostQuery, HostManual, HostSend
    <3> QED
      BY <1>2, <3>1
  <2>4. CASE HostReceiveReply
    <3>1. UNCHANGED <<mailbox, hostPhase, hostSize>>
      BY <2>4 DEF HostReceiveReply, hostVars
    <3> QED
      BY <1>1, <3>1 DEF DebugInv, DebugHost
  <2>5. CASE HostRestart
    <3>1. restarts' = restarts + 1 /\ mailbox'.type = "None"
      BY <2>5 DEF HostRestart
    <3>2. restarts' > restarts
      BY <3>1, TypeParts DEF TypeInv, HostTypes
    <3> QED
      BY <3>1, <3>2 DEF DebugStep, DebugHost
  <2> QED
    BY <2>1, <2>2, <2>3, <2>4, <2>5 DEF Host
<1>4. mailbox' = mailbox \/ mailbox.type = "None"
  BY DEF Host, HostPing, HostInitialize, HostScheduleItem, HostQuery, HostManual,
     HostReceiveReply, HostRestart, HostSend
<1>5. DebugInTurn'
  BY <1>1, <1>4 DEF DebugInv, DebugInTurn, DebugStep
<1> QED
  BY <1>1, <1>3, <1>5 DEF DebugInv, DebugRing, DebugTargets, DebugCapture

\* NewSourceBuffer after a debug transfer does nothing.
LEMMA DebugLoopNewSourceBuffer ==
    ASSUME DebugInv, LoopNewSourceBuffer
    PROVE  DebugInv'
<1>1. UNCHANGED <<isrCount, previousIsrCount, loopIsrCount, irq, mailbox, hostPhase,
                  hostSize>>
  BY DEF LoopNewSourceBuffer, hostVars
<1>2. UNCHANGED <<allocated, hasSourceBuffer, scheduledWithDLA, pFillingImageJob,
                  running, numInferenceRequests, dma, dlaFifo>>
  <2>1. CASE loopIsrCount = previousIsrCount
    BY <2>1 DEF LoopNewSourceBuffer, ringVars, countVars
  <2>2. CASE loopIsrCount # previousIsrCount
    <3>1. pFillingImageJob = DebugJob
      BY <2>2 DEF DebugInv, DebugCapture
    <3>2. NewSourceBuffer
      BY <2>2 DEF LoopNewSourceBuffer
    <3> QED
      BY <3>1, <3>2 DEF NewSourceBuffer, NoSchedule
  <2> QED
    BY <2>1, <2>2
<1> QED
  BY <1>1, <1>2
  DEF DebugInv, DebugHost, DebugRing, DebugTargets, DebugCapture, DebugInTurn

\* The message handlers that who debugs reaches.
LEMMA DebugLoopReceiveMessage ==
    ASSUME TypeInv, DebugInv, LoopReceiveMessage
    PROVE  DebugInv'
<1>1. /\ previousIsrCount' = loopIsrCount /\ loopIsrCount' = loopIsrCount
      /\ UNCHANGED <<hostPhase, hostSize>>
  BY DEF LoopReceiveMessage, hostVars
<1>2. dma \in Seq(Nat \cup {NoWrite}) /\ dlaFifo \in Seq(Nat)
  BY TypeParts DEF TypeInv, HardwareTypes
<1>3. ASSUME UNCHANGED <<allocated, hasSourceBuffer, scheduledWithDLA, pFillingImageJob,
                         running, numInferenceRequests, dma, irq, dlaFifo, isrCount>>,
             mailbox'.type = "None"
      PROVE  DebugInv'
  <2>1. DebugCapture'
    BY <1>1, <1>3 DEF DebugInv, DebugCapture
  <2>2. dma # <<>> => dlaFifo = <<>>
    BY DEF DebugInv, DebugInTurn
  <2> QED
    BY <1>1, <1>3, <2>1, <2>2
    DEF DebugInv, DebugHost, DebugRing, DebugTargets, DebugInTurn
<1>4. CASE mailbox.type = "None"
  BY <1>3, <1>4 DEF LoopReceiveMessage, ringVars, countVars, hwVars
<1>5. CASE mailbox.type # "None"
  <2>1. PICK after \in StatusTypes, last \in 0 .. SeqModulus - 1 :
           Handle(mailbox, after, last) /\ mailbox' = NoMessage
    BY <1>5 DEF LoopReceiveMessage, ReceiveMessage
  <2>2. mailbox'.type = "None"
    BY <2>1 DEF NoMessage
  <2>3. CASE mailbox.type = "Ping"
    BY <1>3, <2>1, <2>2, <2>3 DEF Handle, ringVars, countVars, hwVars
  <2>4. CASE mailbox.type = "ManualArmDmaTransfer"
    <3>1. /\ ManualArmDmaTransfer(mailbox, after)
          /\ UNCHANGED <<running, numInferenceRequests, isrCount, irq, dlaFifo>>
      BY <2>1, <2>4 DEF Handle, countVars
    <3>2. CASE UNCHANGED <<ringVars, dma>>
      BY <1>3, <2>2, <3>1, <3>2 DEF ringVars
    <3>3. CASE ~UNCHANGED <<ringVars, dma>>
      <4>1. /\ \E target \in {DebugAddress, NoWrite} :
                  ArmDmaTransfer(DebugJob, target, status, after)
            /\ UNCHANGED <<allocated, hasSourceBuffer, scheduledWithDLA>>
        BY <3>1, <3>3 DEF ManualArmDmaTransfer
      <4>2. PICK target \in {DebugAddress, NoWrite} :
                  ArmDmaTransfer(DebugJob, target, status, after)
        BY <4>1
      <4>3. /\ pFillingImageJob' = DebugJob
            /\ dma' = Append(dma, target) \/ dma' = dma
        BY <4>2 DEF ArmDmaTransfer
      <4>4. \A i \in DOMAIN dma' : dma'[i] \in {DebugAddress, NoWrite}
        <5>1. CASE dma' = dma
          BY <5>1 DEF DebugInv, DebugTargets
        <5>2. CASE dma' = Append(dma, target)
          <6>1. ASSUME NEW i \in DOMAIN dma'
                PROVE  dma'[i] \in {DebugAddress, NoWrite}
            <7>1. CASE i \in DOMAIN dma
              BY <1>2, <5>2, <7>1 DEF DebugInv, DebugTargets
            <7>2. CASE i = Len(dma) + 1
              BY <1>2, <4>2, <5>2, <7>2
            <7> QED
              BY <1>2, <5>2, <6>1, <7>1, <7>2
          <6> QED
            BY <6>1
        <5> QED
          BY <4>3, <5>1, <5>2
      <4>5. dlaFifo' = <<>>
        BY <2>4, <3>1 DEF DebugInv, DebugInTurn
      <4> QED
        BY <1>1, <2>2, <3>1, <4>1, <4>3, <4>4, <4>5
        DEF DebugInv, DebugHost, DebugRing, DebugTargets, DebugCapture, DebugInTurn
    <3> QED
      BY <3>2, <3>3
  <2>5. CASE mailbox.type = "ManualScheduleDlaInference"
    <3>1. /\ dlaFifo' = Append(dlaFifo, DebugAddress)
          /\ UNCHANGED <<allocated, hasSourceBuffer, scheduledWithDLA, pFillingImageJob,
                         running, numInferenceRequests, dma, irq, isrCount>>
      BY <2>1, <2>5 DEF Handle, ManualScheduleDlaInference, ScheduleDlaInference
    <3>2. dma = <<>>
      BY <2>5 DEF DebugInv, DebugInTurn
    <3>3. \A i \in DOMAIN dlaFifo' : dlaFifo'[i] = DebugAddress
      <4>1. ASSUME NEW i \in DOMAIN dlaFifo' PROVE dlaFifo'[i] = DebugAddress
        <5>1. CASE i \in DOMAIN dlaFifo
          BY <1>2, <3>1, <5>1 DEF DebugInv, DebugTargets
        <5>2. CASE i = Len(dlaFifo) + 1
          BY <1>2, <3>1, <5>2
        <5> QED
          BY <1>2, <3>1, <4>1, <5>1, <5>2
      <4> QED
        BY <4>1
    <3>4. DebugCapture'
      BY <1>1, <3>1 DEF DebugInv, DebugCapture
    <3> QED
      BY <1>1, <2>2, <3>1, <3>2, <3>3, <3>4
      DEF DebugInv, DebugHost, DebugRing, DebugTargets, DebugInTurn
  <2>6. CASE mailbox.type = "InitializeStreamController"
    <3>1. InitializeStreamController(mailbox.arg, after, last)
      BY <2>1, <2>6 DEF Handle
    <3>2. CASE allocated
      <4>1. mailbox.arg # NumJobs
        BY <2>6, <3>2 DEF DebugInv, DebugHost
      <4>2. UNCHANGED <<ringVars, countVars, isrCount, hwVars>>
        BY <3>1, <4>1 DEF InitializeStreamController
      <4> QED
        BY <1>3, <2>2, <4>2 DEF ringVars, countVars, hwVars
    <3>3. CASE ~allocated
      <4>1. /\ mailbox.arg = NumJobs /\ hostPhase = "run" /\ dma = <<>> /\ ~irq
            /\ loopIsrCount = 0
        BY <2>6, <3>3 DEF TypeInv, Startup
      <4>2. Reset /\ UNCHANGED hwVars
        BY <3>1, <4>1, NumJobsAssumption DEF InitializeStreamController
      <4>3. /\ hasSourceBuffer' = EmptyRing /\ scheduledWithDLA' = EmptyRing
            /\ ~running' /\ numInferenceRequests' = 0 /\ isrCount' = 0
        BY <4>2 DEF Reset
      <4> QED
        BY <1>1, <2>2, <4>1, <4>2, <4>3
        DEF hwVars, DebugInv, DebugHost, DebugRing, DebugTargets, DebugCapture,
            DebugInTurn
    <3> QED
      BY <3>2, <3>3
  <2> QED
    BY <1>5, <2>1, <2>3, <2>4, <2>5, <2>6 DEF Handle, DebugInv, DebugHost
<1> QED
  BY <1>4, <1>5

LEMMA DebugNext ==
    ASSUME TypeInv, DebugInv, DebugStep, [Next]_vars
    PROVE  DebugInv'
<1>1. CASE Next
  BY <1>1, DebugCounts, DebugCompletes, DebugHostSteps, DebugLoopNewSourceBuffer,
     DebugLoopReceiveMessage
  DEF Next, EventLoop
<1>2. CASE UNCHANGED vars
  BY <1>2
  DEF DebugInv, DebugHost, DebugRing, DebugTargets, DebugCapture, DebugInTurn,
      vars, ringVars, countVars, loopVars, hwVars, hostVars
<1> QED
  BY <1>1, <1>2

-----------------------------------------------------------------------------
(* The invariant of every session, and what follows from it.               *)

\* A debugging session, for all values of the constants.
DebugSessionInv ==
    /\ TypeInv /\ session \in Sessions
    /\ session = "debug" => DebugInv

\* A session that streams.
StreamSessionInv == session # "debug" => StreamInv /\ FrameInv

\* A step with its history is a step of the stream controller.
LEMMA FramesStep ==
    ASSUME [FNext]_fvars
    PROVE  [Next]_vars /\ session' = session
<1>1. CASE FNext
  BY <1>1 DEF FNext, FrameCaptured, FrameConsumed, SessionAllows, Next
<1>2. CASE UNCHANGED fvars
  BY <1>2 DEF fvars
<1> QED
  BY <1>1, <1>2

\* What a session allows is what the invariants ask of its steps.
LEMMA SessionSteps ==
    ASSUME TypeInv, session \in Sessions, FNext
    PROVE  /\ session = "debug" => DebugStep
           /\ session # "debug" => StreamingStep
<1>1. SessionAllows
  BY DEF FNext
<1>2. session = "debug" => DebugStep
  BY <1>1 DEF SessionAllows, DebugStep
<1>3. CASE session = "stream"
  <2>1. /\ mailbox'.type \notin CommandTypes \ {"ScheduleItem", "Ping"}
        /\ restarts' = 0 /\ restarts \in Nat
    BY <1>1, <1>3, TypeParts DEF SessionAllows, TypeInv, HostTypes
  <2> QED
    BY <1>3, <2>1 DEF StreamingStep, CommandTypes
<1>4. CASE session = "faults"
  BY <1>1, <1>4 DEF SessionAllows, StreamingStep
<1> QED
  BY <1>2, <1>3, <1>4 DEF Sessions

LEMMA DebugSession == FSpec => []DebugSessionInv
<1>1. FInit => DebugSessionInv
  BY TypeInit, DebugInit DEF FInit, DebugSessionInv
<1>2. ASSUME DebugSessionInv, [FNext]_fvars PROVE DebugSessionInv'
  <2>1. TypeInv /\ session \in Sessions /\ [Next]_vars /\ session' = session
    BY <1>2, FramesStep DEF DebugSessionInv
  <2>2. TypeInv'
    BY <2>1, TypeNext
  <2>3. CASE FNext
    <3>1. session = "debug" => DebugInv'
      BY <1>2, <2>1, <2>3, SessionSteps, DebugNext DEF DebugSessionInv
    <3> QED
      BY <2>1, <2>2, <3>1 DEF DebugSessionInv
  <2>4. CASE UNCHANGED fvars
    <3>1. session = "debug" => DebugInv'
      BY <1>2, <2>1, <2>4
      DEF DebugSessionInv, DebugInv, DebugHost, DebugRing, DebugTargets, DebugCapture,
          DebugInTurn, fvars, vars, ringVars, countVars, loopVars, hwVars, hostVars
    <3> QED
      BY <2>1, <2>2, <3>1 DEF DebugSessionInv
  <2> QED
    BY <1>2, <2>3, <2>4
<1> QED
  BY <1>1, <1>2, PTL DEF FSpec

\* The frames in a step of a session that streams.
LEMMA FramesNext ==
    ASSUME RingUse, TypeInv, StreamInv, StreamInv', FrameInv, FNext, StreamingStep
    PROVE  FrameInv'
<1>1. CASE FrameCaptured
  BY <1>1, FramesCaptured
<1>2. CASE FrameConsumed
  BY <1>2, FramesConsumed
<1>3. CASE (EventLoop \/ MsgDmaIsr \/ Host) /\ UNCHANGED fresh
  BY <1>3, FramesLoopReadIsrCount, FramesLoopNewSourceBuffer, FramesLoopReceiveMessage,
     FramesMsgDmaIsr, FramesHost
  DEF EventLoop
<1> QED
  BY <1>1, <1>2, <1>3 DEF FNext

LEMMA StreamSession ==
    ASSUME RingUse
    PROVE  FSpec => [](DebugSessionInv /\ StreamSessionInv)
<1>1. FInit => StreamSessionInv
  <2>1. SUFFICES ASSUME FInit PROVE StreamInv /\ FrameInv
    BY DEF StreamSessionInv
  <2>2. Init /\ fresh = <<>>
    BY <2>1 DEF FInit
  <2>3. ~running
    BY <2>2, Zenon DEF Init
  <2> QED
    BY <2>2, <2>3, StreamInit DEF FrameInv
<1>2. ASSUME DebugSessionInv, StreamSessionInv, [FNext]_fvars
      PROVE  StreamSessionInv'
  <2>1. /\ TypeInv /\ session \in Sessions /\ [Next]_vars /\ session' = session
    BY <1>2, FramesStep DEF DebugSessionInv
  <2>2. SUFFICES ASSUME session # "debug" PROVE StreamInv' /\ FrameInv'
    BY <2>1 DEF StreamSessionInv
  <2>3. StreamInv /\ FrameInv
    BY <1>2, <2>2 DEF StreamSessionInv
  <2>4. CASE FNext
    BY <2>1, <2>2, <2>3, <2>4, SessionSteps, StreamNext, FramesNext
  <2>5. CASE UNCHANGED fvars
    <3>1. UNCHANGED vars /\ fresh' = fresh
      BY <2>5 DEF fvars
    <3>2. StreamInv'
      BY <2>3, <3>1, StreamStutter
    <3>3. UNCHANGED <<running, pNextInferenceRequestJob, pFillingImageJob, hostIdle,
                      mailbox, irq, isrCount, loopIsrCount, previousIsrCount, pc>>
      BY <3>1 DEF vars, ringVars, countVars, loopVars, hwVars, hostVars
    <3>4. Done' = Done /\ Unseen' = Unseen
      BY <3>3 DEF Done, Pend, Unseen, CaughtUp
    <3>5. FrameInv'
      BY <2>3, <3>1, <3>3, <3>4, SameFrames
    <3> QED
      BY <3>2, <3>5
  <2> QED
    BY <1>2, <2>4, <2>5
<1> QED
  BY <1>1, <1>2, DebugSession, PTL DEF FSpec

\* Who debugs never disturbs the ring, for all values of the constants:
\* ManualArmDmaTransfer, ManualScheduleDlaInference and a refused Initialize
\* leave every job item alone, and nothing of the ring reaches the hardware.
THEOREM RingLeftAlone == FSpec => []DebugLeavesRingAlone
<1>1. DebugSessionInv => DebugLeavesRingAlone
  BY DEF DebugSessionInv, DebugInv, DebugRing, DebugTargets, DebugLeavesRingAlone
<1> QED
  BY <1>1, DebugSession, PTL

\* In every session the msgDMA never writes a buffer that the DLA has been
\* told to read: a streaming host is replaced, queries and meets refused
\* descriptors; one that debugs takes transfers and inferences in turn.
THEOREM SessionsNeverShare ==
    ASSUME RingUse
    PROVE  FSpec => []BufferNeverShared
<1>1. ASSUME DebugSessionInv, StreamSessionInv PROVE BufferNeverShared
  <2>1. CASE session = "debug"
    <3>1. dma # <<>> => dlaFifo = <<>>
      BY <1>1, <2>1 DEF DebugSessionInv, DebugInv, DebugInTurn
    <3> QED
      BY <3>1 DEF BufferNeverShared
  <2>2. CASE session # "debug"
    BY <1>1, <2>2, StreamNeverShares DEF DebugSessionInv, StreamSessionInv
  <2> QED
    BY <2>1, <2>2
<1> QED
  BY <1>1, StreamSession, PTL

\* In every session, capture that stops is visible in the status.
THEOREM SessionsReportStalls ==
    ASSUME RingUse
    PROVE  FSpec => []CaptureStallIsReported
<1>1. ASSUME DebugSessionInv, StreamSessionInv PROVE CaptureStallIsReported
  <2>1. CASE session = "debug"
    BY <1>1, <2>1
    DEF DebugSessionInv, DebugInv, DebugRing, CaptureStallIsReported
  <2>2. CASE session # "debug"
    BY <1>1, <2>2
    DEF StreamSessionInv, StreamInv, OneCapture, CaughtUp, CaptureStallIsReported
  <2> QED
    BY <2>1, <2>2
<1> QED
  BY <1>1, StreamSession, PTL

\* A host that is replaced before capture starts leaves no trace: the host
\* that takes over finds status OK and a count of its own requests only.
THEOREM RestartsRecover ==
    ASSUME RingUse
    PROVE  FSpec => []RestartRecovers
<1>1. ASSUME DebugSessionInv, StreamSessionInv PROVE RestartRecovers
  <2>1. SUFFICES ASSUME session # "debug", hostPhase = "run", mailbox.type = "None",
                        ~running
                 PROVE  status = "OK" /\ numInferenceRequests = hostSize - hostIdle
    BY DEF RestartRecovers
  <2>2. InSync /\ StreamInv /\ Pend = 0
    BY <1>1, <2>1 DEF StreamSessionInv, InSync, Pend
  <2>3. status = "OK"
    BY <2>1, <2>2 DEF StreamInv, CleanStart
  <2>4. numInferenceRequests + hostIdle + 0 = hostSize
    BY <2>1, <2>2 DEF StreamInv, NotStarted, HostInStep
  <2>5. numInferenceRequests \in Nat /\ hostIdle \in Nat
    BY <1>1, TypeParts DEF DebugSessionInv, TypeInv, CountTypes, HostTypes
  <2> QED
    BY <2>3, <2>4, <2>5
<1> QED
  BY <1>1, StreamSession, PTL

\* Inferences run on complete frames in the order of capture, each frame at
\* most once, however many are dropped and whenever requests come back.
THEOREM CaptureOrderKept ==
    ASSUME RingUse
    PROVE  FSpec => []InferencesInCaptureOrder
<1>1. ASSUME DebugSessionInv, StreamSessionInv PROVE InferencesInCaptureOrder
  <2>1. SUFFICES ASSUME session # "debug" PROVE IsPrefix(dlaFifo, fresh)
    BY DEF InferencesInCaptureOrder
  <2>2. TypeInv /\ StreamInv /\ FrameInv
    BY <1>1, <2>1 DEF DebugSessionInv, StreamSessionInv
  <2>3. CASE ~running
    <3>1. dlaFifo = <<>> /\ fresh = <<>>
      BY <2>2, <2>3 DEF StreamInv, NotStarted, FrameInv
    <3> QED
      BY <3>1 DEF IsPrefix
  <2>4. CASE running
    <3> DEFINE p == pNextInferenceRequestJob
    <3>1. /\ p \in Slots /\ NumJobs >= 3 /\ pFillingImageJob \in Slots
          /\ Done \in Nat /\ Len(dlaFifo) \in Nat /\ dlaFifo \in Seq(Nat)
          /\ Done + Len(dlaFifo) = NumAhead /\ NumAhead \in 0 .. 2
          /\ NumAhead <= WindowSize /\ WindowSize \in 0 .. NumJobs - 1
      BY <2>2, <2>4, WindowFacts
    <3>2. /\ fresh \in Seq(Nat) /\ FramesFrom(fresh, p, Done)
          /\ Len(fresh) \in {WindowSize - Done, WindowSize - Done + 1}
      BY <2>2, <2>4 DEF FrameInv
    <3>3. Len(dlaFifo) <= Len(fresh) /\ Len(fresh) \in Nat
      BY <3>1, <3>2
    <3>4. ASSUME NEW k \in 1 .. Len(dlaFifo) PROVE dlaFifo[k] = fresh[k]
      <4>1. dlaFifo[k] = Ahead(p, NumAhead - Len(dlaFifo) + k) + 1
        BY <2>2, <2>4 DEF StreamInv, Window
      <4>2. NumAhead - Len(dlaFifo) + k = Done + k /\ Done + k \in 1 .. 2
            /\ k \in 1 .. Len(fresh)
        BY <3>1, <3>3
      <4>3. Ahead(p, 1) = Nth(p, 0) /\ Ahead(p, 2) = Nth(p, 1)
        BY <3>1, AheadOfDistance
      <4>4. Ahead(p, Done + k) = Nth(p, Done + k - 1)
        <5>1. CASE Done + k = 1
          <6>1. Done + k - 1 = 0
            BY <3>1, <5>1
          <6> QED
            BY <4>3, <5>1, <6>1
        <5>2. CASE Done + k = 2
          <6>1. Done + k - 1 = 1
            BY <3>1, <5>2
          <6> QED
            BY <4>3, <5>2, <6>1
        <5> QED
          BY <4>2, <5>1, <5>2
      <4>5. fresh[k] = Nth(p, Done + k - 1) + 1
        BY <3>2, <4>2 DEF FramesFrom
      <4> QED
        BY <4>1, <4>2, <4>4, <4>5
    <3>5. SubSeq(dlaFifo, 1, Len(dlaFifo)) = SubSeq(fresh, 1, Len(dlaFifo))
      BY <3>1, <3>2, <3>3, <3>4
    <3> QED
      BY <3>3, <3>5 DEF IsPrefix
  <2> QED
    BY <2>3, <2>4
<1> QED
  BY <1>1, StreamSession, PTL
=============================================================================
