---------------------------- MODULE StreamFrames ----------------------------
(***************************************************************************)
(* The stream controller together with the frames in DDR, as a history     *)
(* variable: fresh lists the input buffers that hold a complete frame no   *)
(* inference has consumed, oldest capture first.                           *)
(***************************************************************************)
EXTENDS StreamController, SequencesExt

VARIABLES
    fresh,
    session     \* what kind of host and driver this is: "stream" is a host that
                \* only streams and a driver that accepts every descriptor,
                \* "faults" a driver that may refuse one and a host that also
                \* queries and may restart before capture starts, "debug" a host
                \* that only sends manual commands and, restarted, asks for
                \* another number of requests

Sessions == {"stream", "faults", "debug"}

fvars == <<vars, fresh, session>>

\* seq without address, which occurs in it at most once.
Without(seq, address) ==
    IF \E i \in DOMAIN seq : seq[i] = address
    THEN RemoveAt(seq, CHOOSE i \in DOMAIN seq : seq[i] = address)
    ELSE seq

\* The frame that a finished descriptor leaves in its buffer.
FrameCaptured ==
    /\ DmaComplete
    /\ fresh' = IF Head(dma) = NoWrite THEN fresh
                ELSE Append(Without(fresh, Head(dma)), Head(dma))

\* An inference consumes the frame of its input buffer.
FrameConsumed ==
    /\ DlaComplete
    /\ fresh' = Without(fresh, Head(dlaFifo))

\* What the session lets the host and the driver do in this step.  Who debugs
\* lets a transfer end before an inference is scheduled on its buffer, and the
\* inference before the next transfer.
SessionAllows ==
    LET sent == mailbox'.type
    IN  /\ session' = session
        /\ session = "stream" =>
              /\ sent \notin CommandTypes \ {"ScheduleItem", "Ping"}
              /\ sent = "Ping" => hostPhase' = "initialize"
              /\ restarts' = 0
              /\ status' \notin DriverErrors
        /\ session = "faults" =>
              /\ sent \notin {"ManualArmDmaTransfer", "ManualScheduleDlaInference"}
              /\ restarts' > restarts => hostSize' = NumJobs /\ ~running
        /\ session = "debug" =>
              /\ sent \notin {"ScheduleItem", "GetStatus"}
              /\ restarts' > restarts => hostSize' # NumJobs
              /\ sent = "ManualArmDmaTransfer" => dlaFifo' = <<>>
              /\ sent = "ManualScheduleDlaInference" => dma' = <<>>
              /\ status' \notin DriverErrors

FInit == Init /\ fresh = <<>> /\ session \in Sessions

FNext ==
    /\ \/ FrameCaptured
       \/ FrameConsumed
       \/ (EventLoop \/ MsgDmaIsr \/ Host) /\ UNCHANGED fresh
    /\ SessionAllows

FSpec == FInit /\ [][FNext]_fvars

\* The event loop runs forever, an enabled interrupt is taken, the video
\* source keeps sending, the DLA finishes what it starts, and the host
\* resubmits the requests that complete.
Fairness ==
    /\ WF_fvars(EventLoop /\ UNCHANGED fresh /\ SessionAllows)
    /\ WF_fvars(MsgDmaIsr /\ UNCHANGED fresh /\ SessionAllows)
    /\ WF_fvars(FrameCaptured /\ SessionAllows)
    /\ WF_fvars(FrameConsumed /\ SessionAllows)
    /\ WF_fvars((HostPing \/ HostInitialize \/ HostScheduleItem
                 \/ HostReceiveReply) /\ UNCHANGED fresh /\ SessionAllows)

FairSpec == FSpec /\ Fairness

\* Inferences run on frames in the order they were captured, each on a
\* complete frame that no other inference has run on: what is in the DLA's
\* FIFO is the oldest part of what has been captured, however many frames
\* were dropped in between.
InferencesInCaptureOrder == session # "debug" => IsPrefix(dlaFifo, fresh)

\* Every inference request the host has placed is served: the job at the
\* head of the ring is eventually recycled, so no request waits forever
\* behind dropped frames or a missed interrupt.
EveryRequestServed ==
    \A i \in Slots :
        (session = "stream" /\ running /\ pNextInferenceRequestJob = i)
            ~> (pNextInferenceRequestJob # i)

\* Debug commands stay out of the stream: they leave every job item alone
\* and their completion neither re-arms the msgDMA nor starts an inference
\* on a job of the ring, and an Initialize that is refused changes nothing.
DebugLeavesRingAlone ==
    session = "debug" =>
        /\ hasSourceBuffer = EmptyRing /\ scheduledWithDLA = EmptyRing
        /\ \A i \in DOMAIN dma : dma[i] \in {DebugAddress, NoWrite}
        /\ \A i \in DOMAIN dlaFifo : dlaFifo[i] = DebugAddress

\* A host process that dies during start-up is replaced cleanly: by the time
\* the new host is told that Initialize succeeded, no trace of the old one is
\* left in the status or in the count of requests received.
RestartRecovers ==
    session # "debug" /\ hostPhase = "run" /\ mailbox.type = "None" /\ ~running =>
        status = "OK" /\ numInferenceRequests = hostSize - hostIdle
=============================================================================
