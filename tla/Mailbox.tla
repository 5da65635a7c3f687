------------------------------ MODULE Mailbox -------------------------------
(***************************************************************************)
(* The mailbox between the host (StreamControllerComms) and the stream     *)
(* controller firmware, word by word.  Two areas of shared memory each     *)
(* hold one message: a type, a sequence ID, a payload and a word that is   *)
(* the magic number when the message is ready.  The receiver acknowledges  *)
(* by overwriting the magic number with the message's sequence ID.         *)
(*                                                                         *)
(* Host threads share one StreamControllerComms, guarded by a busy flag    *)
(* that does not wait.  What the firmware does with a request is modelled  *)
(* in module StreamController; here it is the list of requests handled.    *)
(***************************************************************************)
EXTENDS Integers, Sequences

CONSTANTS
    Requests,       \* inference requests, each passed to ScheduleItems once
    NoRequest,      \* the content of a payload area never written
    SeqModulus,     \* number of values of the uint32_t sequence IDs
    MagicNumber,    \* messageReadyMagicNumber
    WaitLimit,      \* polls before SendMessage or ReceiveMessage gives up
    MaxPings,       \* bound: Ping commands sent
    MaxCrashes      \* bound: how many times the host process dies

ASSUME MailboxAssumption == /\ NoRequest \notin Requests
                            /\ SeqModulus \in Nat \ {0, 1}
                            /\ MagicNumber \in Nat \ {0}
                            /\ WaitLimit \in Nat \ {0}
                            /\ MaxPings \in Nat
                            /\ MaxCrashes \in Nat

VARIABLES
    reliable,       \* does the firmware answer every message in time, and
                    \* does the host process live to read the answer?
    \* StreamControllerComms
    busy,           \* BusyFlag::_busy
    sendSequenceID, \* StreamControllerComms::_sendSequenceID
    command,        \* the command being sent: [type, request]
    hostPc, waitCount, replyHeader,
    results,        \* what ScheduleItems returned for each request
    pinged,         \* what the last Ping returned
    pings, crashes,
    \* The two halves of the mailbox memory
    toFirmware, toHost,
    \* The firmware: locals of ReceiveMessage and fields of StreamController
    firmwarePc, messageType, sequenceId,
    firmwareSendSequenceID, lastReceiveSequenceID, badSequence,
    handled         \* requests passed to NewInferenceRequestReceived, in order

callVars == <<busy, command, results, pinged, pings, crashes>>
hostVars == <<reliable, callVars, sendSequenceID, hostPc, waitCount, replyHeader>>
firmwareVars == <<firmwarePc, messageType, sequenceId, firmwareSendSequenceID,
                  lastReceiveSequenceID, badSequence, handled>>
commsVars == <<hostVars, toFirmware, toHost, firmwareVars>>

Increment(id) == (id + 1) % SeqModulus

-----------------------------------------------------------------------------
(* Calls, and the busy flag.                                               *)

\* BusyCheck succeeds: the caller owns the mailbox until it returns.
Call(c) ==
    /\ ~busy
    /\ busy' = TRUE
    /\ command' = c
    /\ hostPc' = "type"
    /\ UNCHANGED <<reliable, results, pinged, crashes, sendSequenceID,
                   waitCount, replyHeader, toFirmware, toHost, firmwareVars>>

CallScheduleItems ==
    /\ \E r \in Requests :
          results[r] = "none" /\ Call([type |-> "ScheduleItem", request |-> r])
    /\ UNCHANGED pings

CallPing ==
    /\ pings < MaxPings /\ pings' = pings + 1
    /\ Call([type |-> "Ping", request |-> NoRequest])

\* BusyCheck fails: ScheduleItems returns false at once.
CallWhileBusy ==
    /\ busy
    /\ \E r \in Requests :
          /\ results[r] = "none" /\ r # command.request
          /\ results' = [results EXCEPT ![r] = "failed"]
    /\ UNCHANGED <<reliable, busy, command, pinged, pings, crashes,
                   sendSequenceID, hostPc, waitCount, replyHeader, toFirmware, toHost, firmwareVars>>

\* The command ends and the busy flag is released.
Return(ok) ==
    /\ busy' = FALSE
    /\ hostPc' = "idle"
    /\ waitCount' = 0
    /\ IF command.type = "Ping"
       THEN pinged' = (IF ok THEN "ok" ELSE "failed") /\ results' = results
       ELSE /\ results' = [results EXCEPT ![command.request] =
                              IF ok THEN "ok" ELSE "failed"]
            /\ pinged' = pinged
    /\ UNCHANGED <<command, pings, crashes, replyHeader>>

-----------------------------------------------------------------------------
(* SendMessage: three or four words are written, then the acknowledgement  *)
(* is polled for.                                                          *)

HostStep(from, to) ==
    /\ hostPc = from /\ hostPc' = to
    /\ UNCHANGED <<reliable, callVars, sendSequenceID, waitCount, replyHeader,
                   toHost, firmwareVars>>

WriteType == /\ HostStep("type", "seq")
             /\ toFirmware' = [toFirmware EXCEPT !.type = command.type]

\* Variant with a mistake: the header is written with its magic number.
WriteHeaderReady ==
    /\ HostStep("seq", "payload")
    /\ toFirmware' = [toFirmware EXCEPT !.seq = sendSequenceID, !.magic = MagicNumber]

WriteSequenceID == /\ HostStep("seq", "payload")
                   /\ toFirmware' = [toFirmware EXCEPT !.seq = sendSequenceID]

\* A Ping has no payload: what is in the mailbox stays there.
WritePayload ==
    /\ HostStep("payload", "magic")
    /\ toFirmware' = IF command.type = "Ping" THEN toFirmware
                     ELSE [toFirmware EXCEPT !.payload = command.request]

WriteMagicNumber == /\ HostStep("magic", "ack")
                    /\ toFirmware' = [toFirmware EXCEPT !.magic = MagicNumber]

\* Variant with a mistake: the polls are not counted.
PollForever ==
    /\ ~reliable
    /\ UNCHANGED <<sendSequenceID, callVars, hostPc, replyHeader, waitCount>>

\* One poll that found nothing: try again, or give up after WaitLimit polls.
PollAgain ==
    /\ ~reliable
    /\ UNCHANGED sendSequenceID
    /\ \/ /\ waitCount + 1 < WaitLimit
          /\ waitCount' = waitCount + 1
          /\ UNCHANGED <<callVars, hostPc, replyHeader>>
       \/ /\ waitCount + 1 >= WaitLimit
          /\ Return(FALSE)

PollAcknowledgement ==
    /\ hostPc = "ack"
    /\ \/ /\ toFirmware.magic = sendSequenceID
          /\ sendSequenceID' = Increment(sendSequenceID)
          /\ hostPc' = "reply"
          /\ waitCount' = 0
          /\ UNCHANGED <<callVars, replyHeader>>
       \/ toFirmware.magic # sendSequenceID /\ PollAgain
    /\ UNCHANGED <<reliable, toFirmware, toHost, firmwareVars>>

-----------------------------------------------------------------------------
(* ReceiveMessage of the host: poll for the reply, read it, release it.    *)

PollReply ==
    /\ hostPc = "reply"
    /\ \/ /\ toHost.magic = MagicNumber
          /\ replyHeader' = toHost
          /\ hostPc' = "release"
          /\ UNCHANGED <<callVars, sendSequenceID, waitCount>>
       \/ toHost.magic # MagicNumber /\ PollAgain
    /\ UNCHANGED <<reliable, toFirmware, toHost, firmwareVars>>

Expected == IF command.type = "Ping" THEN "Pong" ELSE "NoOperation"

ReleaseReply ==
    /\ hostPc = "release"
    /\ toHost' = [toHost EXCEPT !.magic = replyHeader.seq]
    /\ Return(replyHeader.type = Expected)
    /\ UNCHANGED <<reliable, sendSequenceID, toFirmware, firmwareVars>>

\* The host process dies, at any point; another one starts afresh.
HostCrash ==
    /\ ~reliable
    /\ crashes < MaxCrashes /\ crashes' = crashes + 1
    /\ busy' = FALSE /\ hostPc' = "idle" /\ waitCount' = 0 /\ sendSequenceID' = 0
    /\ results' = IF busy /\ command.type = "ScheduleItem"
                  THEN [results EXCEPT ![command.request] = "failed"] ELSE results
    /\ UNCHANGED <<reliable, command, pinged, pings, replyHeader, toFirmware,
                   toHost, firmwareVars>>

HostCommand == WriteType \/ WriteSequenceID \/ WritePayload \/ WriteMagicNumber
               \/ PollAcknowledgement \/ PollReply \/ ReleaseReply

-----------------------------------------------------------------------------
(* The firmware: RunEventLoop polls, ReceiveMessage reads, handles,        *)
(* answers and acknowledges.                                               *)

FirmwareStep(from, to) ==
    /\ firmwarePc = from /\ firmwarePc' = to
    /\ UNCHANGED hostVars

PollMessage ==
    /\ toFirmware.magic = MagicNumber
    /\ FirmwareStep("poll", "type")
    /\ UNCHANGED <<toFirmware, toHost, messageType, sequenceId,
                   firmwareSendSequenceID, lastReceiveSequenceID, badSequence,
                   handled>>

ReadType ==
    /\ FirmwareStep("type", "seq")
    /\ messageType' = toFirmware.type
    /\ UNCHANGED <<toFirmware, toHost, sequenceId, firmwareSendSequenceID,
                   lastReceiveSequenceID, badSequence, handled>>

ReadSequenceID ==
    /\ FirmwareStep("seq", "handle")
    /\ sequenceId' = toFirmware.seq
    /\ UNCHANGED <<toFirmware, toHost, messageType, firmwareSendSequenceID,
                   lastReceiveSequenceID, badSequence, handled>>

\* The handler reads the payload, does its work and writes the reply.
HandleMessage ==
    /\ FirmwareStep("handle", "reply")
    /\ handled' = IF messageType = "ScheduleItem"
                  THEN Append(handled, toFirmware.payload) ELSE handled
    /\ toHost' = [toHost EXCEPT
                     !.type = IF messageType = "Ping" THEN "Pong" ELSE "NoOperation",
                     !.seq = firmwareSendSequenceID]
    /\ UNCHANGED <<toFirmware, messageType, sequenceId, firmwareSendSequenceID,
                   lastReceiveSequenceID, badSequence>>

SendReply ==
    /\ FirmwareStep("reply", "ack")
    /\ toHost' = [toHost EXCEPT !.magic = MagicNumber]
    /\ firmwareSendSequenceID' = Increment(firmwareSendSequenceID)
    /\ UNCHANGED <<toFirmware, messageType, sequenceId, lastReceiveSequenceID,
                   badSequence, handled>>

Acknowledge ==
    /\ FirmwareStep("ack", "poll")
    /\ toFirmware' = [toFirmware EXCEPT !.magic = sequenceId]
    /\ badSequence' = (badSequence \/
                       (lastReceiveSequenceID # 0
                        /\ Increment(lastReceiveSequenceID) # sequenceId))
    /\ lastReceiveSequenceID' = sequenceId
    /\ UNCHANGED <<toHost, messageType, sequenceId, firmwareSendSequenceID, handled>>

FirmwareStops ==
    /\ ~reliable
    /\ firmwarePc # "stopped"
    /\ FirmwareStep(firmwarePc, "stopped")
    /\ UNCHANGED <<toFirmware, toHost, messageType, sequenceId,
                   firmwareSendSequenceID, lastReceiveSequenceID, badSequence,
                   handled>>

Firmware == PollMessage \/ ReadType \/ ReadSequenceID \/ HandleMessage
            \/ SendReply \/ Acknowledge

-----------------------------------------------------------------------------
CommsInit ==
    /\ reliable \in BOOLEAN
    /\ busy = FALSE /\ sendSequenceID = 0
    /\ command = [type |-> "Ping", request |-> NoRequest]
    /\ hostPc = "idle" /\ waitCount = 0
    /\ replyHeader = [magic |-> 0, type |-> "Invalid", seq |-> 0]
    /\ results = [r \in Requests |-> "none"]
    /\ pinged = "none" /\ pings = 0 /\ crashes = 0
    /\ toFirmware = [magic |-> 0, type |-> "Invalid", seq |-> 0,
                     payload |-> NoRequest]
    /\ toHost = [magic |-> 0, type |-> "Invalid", seq |-> 0]
    /\ firmwarePc = "poll" /\ messageType = "Invalid" /\ sequenceId = 0
    /\ firmwareSendSequenceID = 0 /\ lastReceiveSequenceID = 0
    /\ badSequence = FALSE /\ handled = <<>>

CommsNext ==
    \/ CallScheduleItems \/ CallPing \/ CallWhileBusy \/ HostCommand
    \/ HostCrash \/ Firmware \/ FirmwareStops

CommsSpec == CommsInit /\ [][CommsNext]_commsVars

\* The thread that owns the mailbox keeps running, and so does the firmware
\* unless it has stopped.
CommsFairness == WF_commsVars(HostCommand) /\ WF_commsVars(Firmware)

-----------------------------------------------------------------------------
(* Properties.                                                             *)

\* As long as nobody gives up or dies, ScheduleItems keeps the promise of
\* RequestService: a torn, repeated or misattributed message would break it.
\* A session that is not reliable promises nothing of its requests.
Service == INSTANCE RequestService WITH
    results <- IF reliable THEN results ELSE [r \in Requests |-> "none"],
    handled <- IF reliable THEN handled ELSE <<>>
ImplementsService == Service!Spec

\* Every call of the comms object returns, even if the firmware has stopped:
\* no wait is unbounded and the busy flag is always released.
EveryCallReturns == busy ~> ~busy
=============================================================================
