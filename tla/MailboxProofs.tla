--------------------------- MODULE MailboxProofs ----------------------------
(***************************************************************************)
(* The mailbox keeps the promise of RequestService, for any number of      *)
(* requests, pings and host threads and any width of the sequence IDs, in  *)
(* every session in which nobody gives up or dies and as long as no        *)
(* sequence ID in use equals the magic number (NoMagicID).  In the code    *)
(* that is so for the first 1428313378 messages of a session; a sequence   *)
(* ID equal to the magic number would acknowledge itself.                  *)
(***************************************************************************)
EXTENDS Mailbox, FiniteSets, FiniteSetTheorems, TLAPS

NoMagicID == sendSequenceID # MagicNumber /\ firmwareSendSequenceID # MagicNumber

-----------------------------------------------------------------------------
(* The inductive invariant.                                                *)

Kinds == {"Invalid", "Ping", "ScheduleItem", "Pong", "NoOperation"}
Payloads == Requests \cup {NoRequest}
HostSteps == {"idle", "type", "seq", "payload", "magic", "ack", "reply", "release"}
FirmwareSteps == {"poll", "type", "seq", "handle", "reply", "ack", "stopped"}

HostTypes ==
    /\ reliable \in BOOLEAN /\ busy \in BOOLEAN
    /\ sendSequenceID \in Nat
    /\ command \in [type : {"Ping", "ScheduleItem"}, request : Payloads]
    /\ hostPc \in HostSteps
    /\ replyHeader \in [magic : Nat, type : Kinds, seq : Nat]
    /\ results \in [Requests -> {"none", "ok", "failed"}]

MemoryTypes ==
    /\ toFirmware \in [magic : Nat, type : Kinds, seq : Nat, payload : Payloads]
    /\ toHost \in [magic : Nat, type : Kinds, seq : Nat]

FirmwareTypes ==
    /\ firmwarePc \in FirmwareSteps
    /\ messageType \in Kinds /\ sequenceId \in Nat
    /\ firmwareSendSequenceID \in Nat
    /\ handled \in Seq(Payloads)

MailTypes == HostTypes /\ MemoryTypes /\ FirmwareTypes

\* The busy flag is held exactly while a command is under way, and the request
\* of the command has not been answered.
Ownership ==
    /\ busy <=> hostPc # "idle"
    /\ busy /\ command.type = "ScheduleItem" =>
          command.request \in Requests /\ results[command.request] = "none"
    /\ firmwarePc # "stopped"

\* While the host writes, the firmware sees no message and no reply is left;
\* the words are complete before the magic number says so.
Preparing ==
    hostPc \in {"idle", "type", "seq", "payload", "magic"} =>
        /\ firmwarePc = "poll"
        /\ toFirmware.magic # MagicNumber /\ toHost.magic # MagicNumber
        /\ hostPc \in {"seq", "payload", "magic"} => toFirmware.type = command.type
        /\ hostPc \in {"payload", "magic"} => toFirmware.seq = sendSequenceID
        /\ hostPc = "magic" /\ command.type = "ScheduleItem" =>
              toFirmware.payload = command.request

Answered(header) == header.type = Expected /\ header.seq # MagicNumber

\* While the host polls for the acknowledgement, the message stays as it was
\* sent and the firmware works on this message and no other.
Awaiting ==
    hostPc = "ack" =>
        /\ toFirmware.type = command.type /\ toFirmware.seq = sendSequenceID
        /\ command.type = "ScheduleItem" => toFirmware.payload = command.request
        /\ firmwarePc # "poll" => toFirmware.magic = MagicNumber
        /\ firmwarePc \in {"seq", "handle", "reply", "ack"} => messageType = command.type
        /\ firmwarePc \in {"handle", "reply", "ack"} => sequenceId = sendSequenceID

\* Has the firmware run the handler for the command under way?
Executed ==
    \/ hostPc \in {"reply", "release"}
    \/ /\ hostPc = "ack"
       /\ \/ firmwarePc \in {"reply", "ack"}
          \/ firmwarePc = "poll" /\ toFirmware.magic # MagicNumber

\* A reply is in the mailbox exactly from SendReply until the host releases
\* it, and it is the reply to the command under way.
Replying ==
    /\ Executed => Answered(toHost)
    /\ toHost.magic = MagicNumber <=> Executed /\ firmwarePc # "reply"
    /\ hostPc = "release" => replyHeader = toHost
    /\ hostPc \in {"reply", "release"} =>
          firmwarePc = "poll" /\ toFirmware.magic # MagicNumber

HandledRequests == {handled[i] : i \in DOMAIN handled}

\* The requests handled are those reported as scheduled and, once its handler
\* has run, the one under way.
Accounted ==
    \A r \in Requests :
        r \in HandledRequests <=>
            \/ results[r] = "ok"
            \/ Executed /\ command.type = "ScheduleItem" /\ r = command.request

Protocol == Ownership /\ Preparing /\ Awaiting /\ Replying /\ Accounted

MailInv == MailTypes /\ (reliable => Protocol)

-----------------------------------------------------------------------------
(* Types.                                                                  *)

LEMMA IncrementNat == \A id \in Nat : Increment(id) \in Nat
  BY MailboxAssumption DEF Increment

LEMMA IncrementBound == \A id \in Nat : Increment(id) <= id + 1
<1> SUFFICES ASSUME NEW id \in Nat PROVE Increment(id) <= id + 1
  OBVIOUS
<1>1. CASE id + 1 < SeqModulus
  BY <1>1, MailboxAssumption DEF Increment
<1>2. CASE id + 1 >= SeqModulus
  <2>1. (id + 1) % SeqModulus < SeqModulus /\ (id + 1) % SeqModulus \in Nat
    BY MailboxAssumption
  <2> QED
    BY <1>2, <2>1, MailboxAssumption DEF Increment
<1> QED
  BY <1>1, <1>2, MailboxAssumption

LEMMA MailTypesInit == CommsInit => MailTypes
<1> SUFFICES ASSUME CommsInit PROVE MailTypes
  OBVIOUS
<1>1. HostTypes
  BY DEF CommsInit, HostTypes, HostSteps, Payloads, Kinds
<1>2. MemoryTypes
  BY DEF CommsInit, MemoryTypes, Payloads, Kinds
<1>3. FirmwareTypes
  BY DEF CommsInit, FirmwareTypes, FirmwareSteps, Kinds
<1> QED
  BY <1>1, <1>2, <1>3 DEF MailTypes

\* Calls change what the callers share.
LEMMA MailTypesCalls ==
    ASSUME MailTypes, CallScheduleItems \/ CallPing \/ CallWhileBusy \/ HostCrash
    PROVE  MailTypes'
<1>1. /\ UNCHANGED <<reliable, toFirmware, toHost, firmwareVars, replyHeader>>
  BY DEF CallScheduleItems, CallPing, CallWhileBusy, HostCrash, Call
<1>2. /\ hostPc' \in {hostPc, "type", "idle"}
      /\ sendSequenceID' \in {sendSequenceID, 0}
  BY DEF CallScheduleItems, CallPing, CallWhileBusy, HostCrash, Call
<1>6. busy' \in BOOLEAN
  BY DEF MailTypes, HostTypes, CallScheduleItems, CallPing, CallWhileBusy, HostCrash, Call
<1>3. command' \in [type : {"Ping", "ScheduleItem"}, request : Payloads]
  BY DEF MailTypes, HostTypes, Payloads, CallScheduleItems, CallPing, CallWhileBusy,
         HostCrash, Call
<1>4. results' \in [Requests -> {"none", "ok", "failed"}]
  <2>1. \/ results' = results
        \/ \E r \in Requests : results' = [results EXCEPT ![r] = "failed"]
        \/ results' = [results EXCEPT ![command.request] = "failed"]
    BY DEF CallScheduleItems, CallPing, CallWhileBusy, HostCrash, Call
  <2> QED
    BY <2>1 DEF MailTypes, HostTypes
<1>5. HostTypes'
  BY <1>1, <1>2, <1>3, <1>4, <1>6 DEF MailTypes, HostTypes, HostSteps
<1> QED
  BY <1>1, <1>5 DEF MailTypes, MemoryTypes, FirmwareTypes, firmwareVars

\* A command under way writes its message, polls and reads the reply.
LEMMA MailTypesCommand ==
    ASSUME MailTypes, HostCommand
    PROVE  MailTypes'
<1> USE DEF MailTypes, HostTypes, MemoryTypes, FirmwareTypes, firmwareVars, callVars
<1>1. CASE WriteType \/ WriteSequenceID \/ WritePayload \/ WriteMagicNumber
  <2>1. /\ UNCHANGED <<reliable, callVars, sendSequenceID, replyHeader, toHost, firmwareVars>>
        /\ hostPc' \in HostSteps
    BY <1>1 DEF HostStep, WriteType, WriteSequenceID, WritePayload, WriteMagicNumber,
                HostSteps
  <2>2. \/ toFirmware' = [toFirmware EXCEPT !.type = command.type]
        \/ toFirmware' = [toFirmware EXCEPT !.seq = sendSequenceID]
        \/ toFirmware' = [toFirmware EXCEPT !.payload = command.request]
        \/ toFirmware' = [toFirmware EXCEPT !.magic = MagicNumber]
        \/ toFirmware' = toFirmware
    BY <1>1 DEF WriteType, WriteSequenceID, WritePayload, WriteMagicNumber
  <2>3. toFirmware' \in [magic : Nat, type : Kinds, seq : Nat, payload : Payloads]
    BY <2>2, MailboxAssumption DEF Kinds
  <2> QED
    BY <2>1, <2>3
<1>2. CASE PollAcknowledgement \/ PollReply \/ ReleaseReply
  <2>1. /\ UNCHANGED <<reliable, toFirmware, firmwareVars, command>>
        /\ busy' \in BOOLEAN /\ hostPc' \in HostSteps
    BY <1>2 DEF PollAcknowledgement, PollReply, ReleaseReply, PollAgain, Return, HostSteps
  <2>2. sendSequenceID' \in Nat
    BY <1>2, IncrementNat DEF PollAcknowledgement, PollReply, ReleaseReply, PollAgain
  <2>3. replyHeader' \in {replyHeader, toHost}
    BY <1>2 DEF PollAcknowledgement, PollReply, ReleaseReply, PollAgain, Return
  <2>4. toHost' = toHost \/ toHost' = [toHost EXCEPT !.magic = replyHeader.seq]
    BY <1>2 DEF PollAcknowledgement, PollReply, ReleaseReply
  <2>5. toHost' \in [magic : Nat, type : Kinds, seq : Nat]
    BY <2>4
  <2>6. \/ results' = results
        \/ \E r \in {"ok", "failed"} : results' = [results EXCEPT ![command.request] = r]
    BY <1>2 DEF PollAcknowledgement, PollReply, ReleaseReply, PollAgain, Return
  <2>7. results' \in [Requests -> {"none", "ok", "failed"}]
    BY <2>6
  <2> QED
    BY <2>1, <2>2, <2>3, <2>5, <2>7
<1> QED
  BY <1>1, <1>2 DEF HostCommand

\* The firmware reads the message and writes the reply.
LEMMA MailTypesFirmware ==
    ASSUME MailTypes, Firmware \/ FirmwareStops
    PROVE  MailTypes'
<1> USE DEF MailTypes, MemoryTypes, FirmwareTypes
<1>1. UNCHANGED hostVars /\ firmwarePc' \in FirmwareSteps
  BY DEF Firmware, FirmwareStops, PollMessage, ReadType, ReadSequenceID, HandleMessage,
         SendReply, Acknowledge, FirmwareStep, FirmwareSteps
<1>2. messageType' \in {messageType, toFirmware.type}
      /\ sequenceId' \in {sequenceId, toFirmware.seq}
  BY DEF Firmware, FirmwareStops, PollMessage, ReadType, ReadSequenceID, HandleMessage,
         SendReply, Acknowledge
<1>3. firmwareSendSequenceID' \in {firmwareSendSequenceID, Increment(firmwareSendSequenceID)}
  BY DEF Firmware, FirmwareStops, PollMessage, ReadType, ReadSequenceID, HandleMessage,
         SendReply, Acknowledge
<1>4. handled' = handled \/ handled' = Append(handled, toFirmware.payload)
  BY DEF Firmware, FirmwareStops, PollMessage, ReadType, ReadSequenceID, HandleMessage,
         SendReply, Acknowledge
<1>5. handled' \in Seq(Payloads)
  <2>1. handled \in Seq(Payloads) /\ toFirmware.payload \in Payloads
    OBVIOUS
  <2> QED
    BY <1>4, <2>1
<1>6. toFirmware' = toFirmware \/ toFirmware' = [toFirmware EXCEPT !.magic = sequenceId]
  BY DEF Firmware, FirmwareStops, PollMessage, ReadType, ReadSequenceID, HandleMessage,
         SendReply, Acknowledge
<1>7. toFirmware' \in [magic : Nat, type : Kinds, seq : Nat, payload : Payloads]
  BY <1>6
<1>8. \/ toHost' = toHost \/ toHost' = [toHost EXCEPT !.magic = MagicNumber]
      \/ \E kind \in Kinds :
            toHost' = [toHost EXCEPT !.type = kind, !.seq = firmwareSendSequenceID]
  BY DEF Firmware, FirmwareStops, PollMessage, ReadType, ReadSequenceID, HandleMessage,
         SendReply, Acknowledge, Kinds
<1>9. toHost' \in [magic : Nat, type : Kinds, seq : Nat]
  BY <1>8, MailboxAssumption
<1>10. FirmwareTypes'
  BY <1>1, <1>2, <1>3, <1>5, IncrementNat
<1>11. HostTypes'
  BY <1>1 DEF HostTypes, hostVars, callVars
<1> QED
  BY <1>7, <1>9, <1>10, <1>11

\* Every variable keeps its type, in reliable sessions and in others.
LEMMA MailTypesNext == MailTypes /\ [CommsNext]_commsVars => MailTypes'
<1>1. ASSUME MailTypes, UNCHANGED commsVars PROVE MailTypes'
  BY <1>1 DEF commsVars, hostVars, callVars, firmwareVars, MailTypes, HostTypes, MemoryTypes,
              FirmwareTypes
<1> QED
  BY <1>1, MailTypesCalls, MailTypesCommand, MailTypesFirmware DEF CommsNext

-----------------------------------------------------------------------------
(* The protocol, in sessions where nobody gives up or dies.                *)

LEMMA ProtocolInit == CommsInit => Protocol
  BY MailboxAssumption
  DEF CommsInit, Protocol, Ownership, Preparing, Awaiting, Executed, Replying, Accounted,
      HandledRequests

\* A call takes the mailbox, which is at rest.
LEMMA ProtocolCall ==
    ASSUME MailTypes, Protocol, CallScheduleItems \/ CallPing
    PROVE  Protocol'
<1>1. /\ ~busy /\ busy' /\ hostPc = "idle" /\ hostPc' = "type"
      /\ UNCHANGED <<reliable, results, sendSequenceID, replyHeader, toFirmware, toHost,
                     firmwareVars>>
      /\ command'.type = "ScheduleItem" =>
            command'.request \in Requests /\ results[command'.request] = "none"
  BY DEF Protocol, Ownership, CallScheduleItems, CallPing, Call
<1>2. ~Executed /\ ~Executed'
  BY <1>1 DEF Executed
<1>3. Ownership'
  BY <1>1 DEF Protocol, Ownership, firmwareVars
<1>4. Preparing' /\ Awaiting'
  BY <1>1 DEF Protocol, Preparing, Awaiting, firmwareVars
<1>5. Replying'
  BY <1>1, <1>2 DEF Protocol, Replying, firmwareVars
<1>6. Accounted'
  BY <1>1, <1>2 DEF Protocol, Accounted, HandledRequests, firmwareVars
<1> QED
  BY <1>3, <1>4, <1>5, <1>6 DEF Protocol

\* Another thread finds the mailbox busy and fails its own request.
LEMMA ProtocolBusy ==
    ASSUME MailTypes, Protocol, CallWhileBusy
    PROVE  Protocol'
<1>1. PICK r \in Requests : /\ busy /\ results[r] = "none" /\ r # command.request
                            /\ results' = [results EXCEPT ![r] = "failed"]
  BY DEF CallWhileBusy
<1>2. UNCHANGED <<reliable, busy, command, sendSequenceID, hostPc, replyHeader,
                  toFirmware, toHost, firmwareVars>>
  BY DEF CallWhileBusy
<1>3. \A q \in Requests : results'[q] = IF q = r THEN "failed" ELSE results[q]
  BY <1>1 DEF MailTypes, HostTypes
<1>4. Executed' = Executed /\ Expected' = Expected
  BY <1>2 DEF Executed, Expected, firmwareVars
<1>5. Ownership'
  BY <1>1, <1>2, <1>3 DEF Protocol, Ownership, firmwareVars
<1>6. Preparing' /\ Awaiting'
  BY <1>2 DEF Protocol, Preparing, Awaiting, firmwareVars
<1>7. Replying'
  BY <1>2, <1>4 DEF Protocol, Replying, Answered, firmwareVars
<1>8. Accounted'
  BY <1>1, <1>2, <1>3, <1>4 DEF Protocol, Accounted, HandledRequests, firmwareVars
<1> QED
  BY <1>5, <1>6, <1>7, <1>8 DEF Protocol

\* The words of a message are written before the firmware may look at them.
LEMMA ProtocolWrite ==
    ASSUME MailTypes, Protocol,
           WriteType \/ WriteSequenceID \/ WritePayload \/ WriteMagicNumber
    PROVE  Protocol'
<1> USE DEF firmwareVars, callVars
<1>1. /\ hostPc \in {"type", "seq", "payload", "magic"}
      /\ UNCHANGED <<reliable, callVars, sendSequenceID, replyHeader, toHost, firmwareVars>>
      /\ hostPc' \in {"seq", "payload", "magic", "ack"}
  BY DEF HostStep, WriteType, WriteSequenceID, WritePayload, WriteMagicNumber
<1>2. /\ firmwarePc = "poll" /\ toHost.magic # MagicNumber
      /\ toFirmware.magic # MagicNumber
  BY <1>1 DEF Protocol, Preparing
<1>3. toFirmware \in [magic : Nat, type : Kinds, seq : Nat, payload : Payloads]
  BY DEF MailTypes, MemoryTypes
<1>4. Preparing' /\ Awaiting' /\ (hostPc' = "ack" => toFirmware'.magic = MagicNumber)
  <2>1. CASE WriteType
    BY <1>1, <1>2, <1>3, <2>1 DEF WriteType, HostStep, Protocol, Preparing, Awaiting
  <2>2. CASE WriteSequenceID
    BY <1>1, <1>2, <1>3, <2>2 DEF WriteSequenceID, HostStep, Protocol, Preparing, Awaiting
  <2>3. CASE WritePayload
    BY <1>1, <1>2, <1>3, <2>3 DEF WritePayload, HostStep, Protocol, Preparing, Awaiting,
                                  MailTypes, HostTypes
  <2>4. CASE WriteMagicNumber
    BY <1>1, <1>2, <1>3, <2>4 DEF WriteMagicNumber, HostStep, Protocol, Preparing, Awaiting
  <2> QED
    BY <2>1, <2>2, <2>3, <2>4
<1>5. ~Executed /\ ~Executed'
  BY <1>1, <1>2, <1>4 DEF Executed
<1>6. Ownership'
  BY <1>1 DEF Protocol, Ownership
<1>7. Replying'
  BY <1>1, <1>2, <1>5 DEF Replying
<1>8. Accounted'
  BY <1>1, <1>5 DEF Protocol, Accounted, HandledRequests
<1> QED
  BY <1>4, <1>6, <1>7, <1>8 DEF Protocol

\* The acknowledgement the host sees is that of its own message: the reply to
\* it is already there.
LEMMA ProtocolAcknowledged ==
    ASSUME MailTypes, Protocol, NoMagicID, reliable, PollAcknowledgement
    PROVE  Protocol'
<1> USE DEF firmwareVars, callVars
<1>1. /\ hostPc = "ack" /\ hostPc' = "reply" /\ toFirmware.magic # MagicNumber
      /\ UNCHANGED <<reliable, callVars, replyHeader, toHost, toFirmware, firmwareVars>>
  BY DEF PollAcknowledgement, PollAgain, NoMagicID
<1>2. firmwarePc = "poll" /\ Executed /\ Executed'
  BY <1>1 DEF Protocol, Awaiting, Executed
<1>3. Ownership' /\ Preparing' /\ Awaiting'
  BY <1>1 DEF Protocol, Ownership, Preparing, Awaiting
<1>4. Expected' = Expected
  BY <1>1 DEF Expected
<1>5. Replying'
  BY <1>1, <1>2, <1>4 DEF Protocol, Replying, Answered
<1>6. Accounted'
  BY <1>1, <1>2 DEF Protocol, Accounted, HandledRequests
<1> QED
  BY <1>3, <1>5, <1>6 DEF Protocol

LEMMA ProtocolReply ==
    ASSUME MailTypes, Protocol, reliable, PollReply
    PROVE  Protocol'
<1> USE DEF firmwareVars, callVars
<1>1. /\ hostPc = "reply" /\ hostPc' = "release" /\ replyHeader' = toHost
      /\ UNCHANGED <<reliable, callVars, sendSequenceID, toHost, toFirmware, firmwareVars>>
  BY DEF PollReply, PollAgain
<1>2. Executed /\ Executed' /\ Expected' = Expected
  BY <1>1 DEF Executed, Expected
<1>3. Ownership' /\ Preparing' /\ Awaiting'
  BY <1>1 DEF Protocol, Ownership, Preparing, Awaiting
<1>4. Replying'
  BY <1>1, <1>2 DEF Protocol, Replying, Answered
<1>5. Accounted'
  BY <1>1, <1>2 DEF Protocol, Accounted, HandledRequests
<1> QED
  BY <1>3, <1>4, <1>5 DEF Protocol

\* The reply is the expected one, so the request is reported as scheduled.
LEMMA ProtocolRelease ==
    ASSUME MailTypes, Protocol, ReleaseReply
    PROVE  Protocol'
<1> USE DEF firmwareVars
<1>1. /\ hostPc = "release" /\ hostPc' = "idle" /\ ~busy' /\ busy
      /\ replyHeader.type = Expected /\ replyHeader.seq # MagicNumber
      /\ firmwarePc = "poll" /\ toFirmware.magic # MagicNumber
      /\ UNCHANGED <<command, toFirmware, firmwareVars>>
  BY DEF ReleaseReply, Return, Protocol, Ownership, Replying, Answered, Executed
<1>2. toHost'.magic # MagicNumber
  BY <1>1 DEF ReleaseReply, MailTypes, MemoryTypes
<1>3. IF command.type = "Ping" THEN results' = results
      ELSE results' = [results EXCEPT ![command.request] = "ok"]
  BY <1>1 DEF ReleaseReply, Return
<1>4. Executed /\ ~Executed'
  BY <1>1 DEF Executed
<1>5. Ownership' /\ Preparing' /\ Awaiting' /\ Replying'
  BY <1>1, <1>2, <1>4 DEF Protocol, Ownership, Preparing, Awaiting, Replying
<1>6. Accounted'
  <2>1. CASE command.type = "Ping"
    BY <1>1, <1>3, <1>4, <2>1 DEF Protocol, Accounted, HandledRequests
  <2>2. CASE command.type = "ScheduleItem"
    <3>1. command.request \in Requests
      BY <1>1, <2>2 DEF Protocol, Ownership
    <3>2. \A r \in Requests : results'[r] = IF r = command.request THEN "ok" ELSE results[r]
      BY <1>3, <2>2 DEF MailTypes, HostTypes
    <3> QED
      BY <1>1, <1>4, <2>2, <3>1, <3>2 DEF Protocol, Accounted, HandledRequests
  <2> QED
    BY <2>1, <2>2 DEF MailTypes, HostTypes
<1> QED
  BY <1>5, <1>6 DEF Protocol

\* The firmware works only while the host waits for the acknowledgement.
LEMMA FirmwareAtWork ==
    ASSUME Protocol, firmwarePc # "poll" \/ toFirmware.magic = MagicNumber
    PROVE  hostPc = "ack" \/ hostPc \notin HostSteps
  BY DEF Protocol, Preparing, Replying, HostSteps

LEMMA ProtocolRead ==
    ASSUME MailTypes, Protocol, PollMessage \/ ReadType \/ ReadSequenceID
    PROVE  Protocol'
<1> USE DEF firmwareVars, hostVars, callVars
<1>1. /\ UNCHANGED <<hostVars, toFirmware, toHost, handled>>
      /\ firmwarePc \in {"poll", "type", "seq"}
      /\ firmwarePc' \in {"type", "seq", "handle"}
      /\ firmwarePc = "poll" => toFirmware.magic = MagicNumber
  BY DEF PollMessage, ReadType, ReadSequenceID, FirmwareStep
<1>2. hostPc = "ack" /\ toFirmware.magic = MagicNumber
  BY <1>1, FirmwareAtWork DEF MailTypes, HostTypes, Protocol, Awaiting
<1>3. ~Executed /\ ~Executed'
  BY <1>1, <1>2 DEF Executed
<1>4. Ownership' /\ Preparing'
  BY <1>1, <1>2 DEF Protocol, Ownership, Preparing
<1>5. Awaiting'
  BY <1>1, <1>2 DEF Protocol, Awaiting, PollMessage, ReadType, ReadSequenceID, FirmwareStep
<1>6. Replying'
  BY <1>1, <1>2, <1>3 DEF Protocol, Replying
<1>7. Accounted'
  BY <1>1, <1>3 DEF Protocol, Accounted, HandledRequests
<1> QED
  BY <1>4, <1>5, <1>6, <1>7 DEF Protocol

\* Appending to the list of handled requests adds that request to their set.
LEMMA HandledAppend ==
    ASSUME handled \in Seq(Payloads), NEW x \in Payloads, handled' = Append(handled, x)
    PROVE  HandledRequests' = HandledRequests \cup {x}
<1>1. /\ Len(handled) \in Nat /\ DOMAIN handled = 1 .. Len(handled)
      /\ DOMAIN handled' = 1 .. Len(handled) + 1
      /\ \A i \in 1 .. Len(handled) : handled'[i] = handled[i]
      /\ handled'[Len(handled) + 1] = x
  OBVIOUS
<1> QED
  BY <1>1 DEF HandledRequests

\* The handler runs on the message of the host, once.
LEMMA ProtocolHandle ==
    ASSUME MailTypes, Protocol, NoMagicID, HandleMessage
    PROVE  Protocol'
<1> USE DEF firmwareVars, hostVars, callVars
<1>1. /\ UNCHANGED <<hostVars, toFirmware, messageType, sequenceId>>
      /\ firmwarePc = "handle" /\ firmwarePc' = "reply"
  BY DEF HandleMessage, FirmwareStep
<1>2. /\ hostPc = "ack" /\ messageType = command.type
      /\ command.type = "ScheduleItem" => toFirmware.payload = command.request
  BY <1>1, FirmwareAtWork DEF MailTypes, HostTypes, Protocol, Awaiting
<1>3. ~Executed /\ Executed' /\ Expected' = Expected
  BY <1>1, <1>2 DEF Executed, Expected
<1>4. /\ toHost'.magic = toHost.magic
      /\ toHost'.type = Expected /\ toHost'.seq # MagicNumber
  BY <1>2 DEF HandleMessage, MailTypes, HostTypes, MemoryTypes, Expected, NoMagicID
<1>5. Ownership' /\ Preparing' /\ Awaiting'
  BY <1>1, <1>2 DEF Protocol, Ownership, Preparing, Awaiting
<1>6. Replying'
  BY <1>1, <1>2, <1>3, <1>4 DEF Protocol, Replying, Answered
<1>7. Accounted'
  <2>1. CASE command.type = "Ping"
    <3>1. handled' = handled
      BY <1>2, <2>1 DEF HandleMessage
    <3> QED
      BY <1>1, <1>3, <2>1, <3>1 DEF Protocol, Accounted, HandledRequests
  <2>2. CASE command.type = "ScheduleItem"
    <3>1. handled' = Append(handled, command.request)
      BY <1>2, <2>2 DEF HandleMessage
    <3>2. HandledRequests' = HandledRequests \cup {command.request}
      BY <3>1, HandledAppend DEF MailTypes, HostTypes, FirmwareTypes
    <3> QED
      BY <1>1, <1>3, <2>2, <3>2 DEF Protocol, Accounted
  <2> QED
    BY <2>1, <2>2 DEF MailTypes, HostTypes
<1> QED
  BY <1>5, <1>6, <1>7 DEF Protocol

LEMMA ProtocolSendReply ==
    ASSUME MailTypes, Protocol, SendReply
    PROVE  Protocol'
<1> USE DEF firmwareVars, hostVars, callVars
<1>1. /\ UNCHANGED <<hostVars, toFirmware, messageType, sequenceId, handled>>
      /\ firmwarePc = "reply" /\ firmwarePc' = "ack"
  BY DEF SendReply, FirmwareStep
<1>2. hostPc = "ack"
  BY <1>1, FirmwareAtWork DEF MailTypes, HostTypes
<1>3. Executed /\ Executed' /\ Expected' = Expected
  BY <1>1, <1>2 DEF Executed, Expected
<1>4. /\ toHost'.magic = MagicNumber
      /\ toHost'.type = toHost.type /\ toHost'.seq = toHost.seq
  BY DEF SendReply, MailTypes, MemoryTypes
<1>5. Ownership' /\ Preparing' /\ Awaiting'
  BY <1>1, <1>2 DEF Protocol, Ownership, Preparing, Awaiting
<1>6. Replying'
  BY <1>1, <1>2, <1>3, <1>4 DEF Protocol, Replying, Answered
<1>7. Accounted'
  BY <1>1, <1>3 DEF Protocol, Accounted, HandledRequests
<1> QED
  BY <1>5, <1>6, <1>7 DEF Protocol

\* The magic number is replaced by the sequence ID of the message.
LEMMA ProtocolAcknowledge ==
    ASSUME MailTypes, Protocol, NoMagicID, Acknowledge
    PROVE  Protocol'
<1> USE DEF firmwareVars, hostVars, callVars
<1>1. /\ UNCHANGED <<hostVars, toHost, messageType, sequenceId, handled>>
      /\ firmwarePc = "ack" /\ firmwarePc' = "poll"
  BY DEF Acknowledge, FirmwareStep
<1>2. hostPc = "ack" /\ sequenceId = sendSequenceID
  BY <1>1, FirmwareAtWork DEF MailTypes, HostTypes, Protocol, Awaiting
<1>3. /\ toFirmware'.magic # MagicNumber /\ toFirmware'.type = toFirmware.type
      /\ toFirmware'.seq = toFirmware.seq /\ toFirmware'.payload = toFirmware.payload
  BY <1>2 DEF Acknowledge, MailTypes, MemoryTypes, NoMagicID
<1>4. Executed /\ Executed' /\ Expected' = Expected
  BY <1>1, <1>2, <1>3 DEF Executed, Expected
<1>5. Ownership' /\ Preparing' /\ Awaiting'
  BY <1>1, <1>2, <1>3 DEF Protocol, Ownership, Preparing, Awaiting
<1>6. Replying'
  BY <1>1, <1>2, <1>4 DEF Protocol, Replying, Answered
<1>7. Accounted'
  BY <1>1, <1>4 DEF Protocol, Accounted, HandledRequests
<1> QED
  BY <1>5, <1>6, <1>7 DEF Protocol

-----------------------------------------------------------------------------
(* The invariant and the refinement.                                       *)

\* In a reliable session only these actions are taken.
LEMMA ReliableSteps ==
    ASSUME reliable, CommsNext
    PROVE  \/ CallScheduleItems \/ CallPing \/ CallWhileBusy
           \/ HostCommand \/ Firmware
  BY DEF CommsNext, HostCrash, FirmwareStops

\* No step changes whether the session is reliable.
LEMMA ReliableStays == [CommsNext]_commsVars => reliable' = reliable
<1> USE DEF hostVars, callVars
<1>1. Firmware \/ FirmwareStops => reliable' = reliable
  BY DEF Firmware, FirmwareStops, PollMessage, ReadType, ReadSequenceID, HandleMessage,
         SendReply, Acknowledge, FirmwareStep
<1>2. HostCommand => reliable' = reliable
  BY DEF HostCommand, WriteType, WriteSequenceID, WritePayload, WriteMagicNumber,
         PollAcknowledgement, PollReply, ReleaseReply, HostStep
<1>3. CallScheduleItems \/ CallPing \/ CallWhileBusy \/ HostCrash => reliable' = reliable
  BY DEF CallScheduleItems, CallPing, CallWhileBusy, HostCrash, Call
<1> QED
  BY <1>1, <1>2, <1>3 DEF CommsNext, commsVars

LEMMA MailInvNext == MailInv /\ (reliable => NoMagicID) /\ [CommsNext]_commsVars => MailInv'
<1> SUFFICES ASSUME MailInv, reliable => NoMagicID, [CommsNext]_commsVars PROVE MailInv'
  OBVIOUS
<1>1. MailTypes /\ MailTypes' /\ reliable' = reliable
  BY MailTypesNext, ReliableStays DEF MailInv
<1>2. ASSUME reliable PROVE Protocol'
  <2>1. Protocol
    BY <1>2 DEF MailInv
  <2>2. CASE CallScheduleItems \/ CallPing \/ CallWhileBusy
    BY <1>1, <2>1, <2>2, ProtocolCall, ProtocolBusy
  <2>3. CASE HostCommand
    BY <1>1, <1>2, <2>1, <2>3, ProtocolWrite, ProtocolAcknowledged, ProtocolReply,
       ProtocolRelease DEF HostCommand
  <2>4. CASE Firmware
    BY <1>1, <1>2, <2>1, <2>4, ProtocolRead, ProtocolHandle, ProtocolSendReply,
       ProtocolAcknowledge DEF Firmware
  <2>5. CASE UNCHANGED commsVars
    BY <2>1, <2>5
    DEF commsVars, hostVars, callVars, firmwareVars, Protocol, Ownership, Preparing, Awaiting,
        Executed, Replying, Answered, Expected, Accounted, HandledRequests
  <2> QED
    BY <1>2, <2>2, <2>3, <2>4, <2>5, ReliableSteps
<1> QED
  BY <1>1, <1>2 DEF MailInv

LEMMA MailInvInit == CommsInit => MailInv
  BY MailTypesInit, ProtocolInit DEF MailInv

\* In a reliable session every message and every answer is that of the
\* command under way: what the mailbox memory holds, where the host is and
\* where the firmware is stay in step.
THEOREM MailInvariant == CommsSpec /\ []NoMagicID => []MailInv
  BY MailInvInit, MailInvNext, PTL DEF CommsSpec

\* What RequestService sees of the mailbox.
ServedResults == IF reliable THEN results ELSE [r \in Requests |-> "none"]
ServedHandled == IF reliable THEN handled ELSE <<>>
ServiceStep == [Service!Next]_<<ServedResults, ServedHandled>>

\* Requests fail only before their handler runs: the one that finds the
\* mailbox busy was never sent.
LEMMA BusyFails ==
    ASSUME MailTypes, Protocol, reliable, CallWhileBusy
    PROVE  ServiceStep
<1>1. PICK r \in Requests : /\ results[r] = "none" /\ r # command.request
                            /\ results' = [results EXCEPT ![r] = "failed"]
  BY DEF CallWhileBusy
<1>2. reliable' = reliable /\ handled' = handled
  BY DEF CallWhileBusy, firmwareVars
<1>3. r \notin HandledRequests
  BY <1>1 DEF Protocol, Accounted
<1>4. Service!ReturnFailed(r)
  BY <1>1, <1>2, <1>3 DEF Service!ReturnFailed, Service!HandledSet, HandledRequests
<1> QED
  BY <1>1, <1>4 DEF ServiceStep, Service!Next

\* The handler of a request runs before any answer to it and only once.
LEMMA HandlerExecutes ==
    ASSUME MailTypes, Protocol, reliable, HandleMessage
    PROVE  ServiceStep
<1>1. /\ reliable' = reliable /\ results' = results
      /\ firmwarePc = "handle"
  BY DEF HandleMessage, FirmwareStep, hostVars, callVars
<1>2. /\ hostPc = "ack" /\ messageType = command.type
      /\ command.type = "ScheduleItem" => toFirmware.payload = command.request
  BY <1>1, FirmwareAtWork DEF MailTypes, HostTypes, Protocol, Awaiting
<1>3. CASE command.type = "Ping"
  BY <1>1, <1>2, <1>3 DEF HandleMessage, ServiceStep, ServedResults, ServedHandled
<1>4. CASE command.type = "ScheduleItem"
  <2>1. handled' = Append(handled, command.request)
    BY <1>2, <1>4 DEF HandleMessage
  <2>2. command.request \in Requests /\ results[command.request] = "none"
    BY <1>2, <1>4 DEF Protocol, Ownership
  <2>3. command.request \notin HandledRequests
    BY <1>1, <1>2, <2>2 DEF Protocol, Accounted, Executed
  <2>4. Service!Execute(command.request)
    BY <1>1, <2>1, <2>2, <2>3 DEF Service!Execute, Service!HandledSet, HandledRequests
  <2> QED
    BY <2>2, <2>4 DEF ServiceStep, Service!Next
<1> QED
  BY <1>3, <1>4 DEF MailTypes, HostTypes

\* A request is reported as scheduled by the reply to its own message.
LEMMA ReplyReturns ==
    ASSUME MailTypes, Protocol, reliable, ReleaseReply
    PROVE  ServiceStep
<1>1. /\ reliable' = reliable /\ handled' = handled
      /\ hostPc = "release" /\ replyHeader.type = Expected
  BY DEF ReleaseReply, Protocol, Replying, Answered, Executed, firmwareVars
<1>2. CASE command.type = "Ping"
  <2>1. results' = results
    BY <1>1, <1>2 DEF ReleaseReply, Return
  <2> QED
    BY <1>1, <2>1 DEF ServiceStep, ServedResults, ServedHandled
<1>3. CASE command.type = "ScheduleItem"
  <2>1. results' = [results EXCEPT ![command.request] = "ok"]
    BY <1>1, <1>3 DEF ReleaseReply, Return
  <2>2. command.request \in Requests /\ results[command.request] = "none"
    BY <1>1, <1>3 DEF Protocol, Ownership
  <2>3. command.request \in HandledRequests
    BY <1>1, <1>3, <2>2 DEF Protocol, Accounted, Executed
  <2>4. Service!ReturnOk(command.request)
    BY <1>1, <2>1, <2>2, <2>3 DEF Service!ReturnOk, Service!HandledSet, HandledRequests
  <2> QED
    BY <2>2, <2>4 DEF ServiceStep, Service!Next
<1> QED
  BY <1>2, <1>3 DEF MailTypes, HostTypes

\* Every other step is invisible to the callers and to the handlers.
LEMMA OtherSteps ==
    ASSUME reliable,
           \/ CallScheduleItems \/ CallPing \/ WriteType \/ WriteSequenceID
           \/ WritePayload \/ WriteMagicNumber \/ PollAcknowledgement \/ PollReply
           \/ PollMessage \/ ReadType \/ ReadSequenceID \/ SendReply \/ Acknowledge
    PROVE  ServiceStep
<1> USE DEF hostVars, callVars, firmwareVars
<1>1. UNCHANGED <<reliable, results, handled>>
  <2>1. CASE CallScheduleItems \/ CallPing
    BY <2>1 DEF CallScheduleItems, CallPing, Call
  <2>2. CASE WriteType \/ WriteSequenceID \/ WritePayload \/ WriteMagicNumber
    BY <2>2 DEF WriteType, WriteSequenceID, WritePayload, WriteMagicNumber, HostStep
  <2>3. CASE PollAcknowledgement \/ PollReply
    BY <2>3 DEF PollAcknowledgement, PollReply, PollAgain
  <2>4. CASE PollMessage \/ ReadType \/ ReadSequenceID \/ SendReply \/ Acknowledge
    BY <2>4 DEF PollMessage, ReadType, ReadSequenceID, SendReply, Acknowledge, FirmwareStep
  <2> QED
    BY <2>1, <2>2, <2>3, <2>4
<1> QED
  BY <1>1 DEF ServiceStep, ServedResults, ServedHandled

LEMMA MailStepRefines == MailInv /\ [CommsNext]_commsVars => ServiceStep
<1> SUFFICES ASSUME MailInv, [CommsNext]_commsVars PROVE ServiceStep
  OBVIOUS
<1>1. CASE ~reliable
  BY <1>1, ReliableStays DEF ServiceStep, ServedResults, ServedHandled
<1>2. CASE UNCHANGED commsVars
  BY <1>2 DEF ServiceStep, ServedResults, ServedHandled, commsVars, hostVars, callVars,
              firmwareVars
<1>3. CASE reliable /\ CommsNext
  <2>1. MailTypes /\ Protocol
    BY <1>3 DEF MailInv
  <2> QED
    BY <1>3, <2>1, ReliableSteps, BusyFails, HandlerExecutes, ReplyReturns, OtherSteps
    DEF HostCommand, Firmware
<1> QED
  BY <1>1, <1>2, <1>3

LEMMA MailInitRefines == CommsInit => Service!Init
  BY DEF CommsInit, Service!Init

\* The mailbox implements RequestService as long as no sequence ID equals the
\* magic number.
THEOREM MailboxImplementsService == CommsSpec /\ []NoMagicID => ImplementsService
<1>1. MailInv /\ [CommsNext]_commsVars
      => [Service!Next]_<<IF reliable THEN results ELSE [r \in Requests |-> "none"],
                          IF reliable THEN handled ELSE <<>>>>
  BY MailStepRefines DEF ServiceStep, ServedResults, ServedHandled
<1> QED
  BY <1>1, MailInitRefines, MailInvariant, PTL DEF CommsSpec, ImplementsService, Service!Spec

-----------------------------------------------------------------------------
(* A session with fewer messages than the magic number never meets it.     *)

Sending == {"type", "seq", "payload", "magic", "ack"}

\* The requests whose message was begun or that were turned away.
Taken == {r \in Requests : results[r] # "none"}
         \cup {r \in Requests : busy /\ command.type = "ScheduleItem"
                                /\ r = command.request}
Started == pings + Cardinality(Taken)

OneIf(condition) == IF condition THEN 1 ELSE 0

\* Each side has numbered no more messages than there were commands.
Counted ==
    /\ pings \in 0 .. MaxPings
    /\ sendSequenceID + OneIf(hostPc \in Sending) <= Started
    /\ firmwareSendSequenceID + OneIf(busy /\ toHost.magic # MagicNumber) <= Started

Short == IsFiniteSet(Requests) /\ Cardinality(Requests) + MaxPings < MagicNumber

\* A set of requests has no more elements than a larger one.
LEMMA TakenBound ==
    ASSUME IsFiniteSet(Requests)
    PROVE  Cardinality(Taken) \in Nat /\ Cardinality(Taken) <= Cardinality(Requests)
           /\ Cardinality(Requests) \in Nat /\ IsFiniteSet(Taken)
<1>1. Taken \subseteq Requests
  BY DEF Taken
<1> QED
  BY <1>1, FS_Subset, FS_CardinalityType

LEMMA TakenGrows ==
    ASSUME IsFiniteSet(Requests), Taken \subseteq Taken'
    PROVE  Cardinality(Taken) <= Cardinality(Taken)'
<1>1. Taken' \subseteq Requests
  BY DEF Taken
<1>2. IsFiniteSet(Taken')
  BY <1>1, FS_Subset
<1> QED
  BY <1>2, FS_Subset

\* In a short session no sequence ID gets as far as the magic number.
LEMMA CountedNoMagic == Short /\ MailTypes /\ Counted => NoMagicID
<1> SUFFICES ASSUME Short, MailTypes, Counted PROVE NoMagicID
  OBVIOUS
<1>1. sendSequenceID \in Nat /\ firmwareSendSequenceID \in Nat
  BY DEF MailTypes, HostTypes, FirmwareTypes
<1>2. /\ Cardinality(Taken) \in Nat /\ Cardinality(Requests) \in Nat
      /\ Cardinality(Taken) <= Cardinality(Requests)
  BY TakenBound DEF Short
<1>3. /\ sendSequenceID <= pings + Cardinality(Taken)
      /\ firmwareSendSequenceID <= pings + Cardinality(Taken)
  BY <1>1, <1>2, MailboxAssumption DEF Counted, Started, OneIf
<1> QED
  BY <1>1, <1>2, <1>3, MailboxAssumption DEF Short, Counted, NoMagicID

\* A call begins one more command and one more message.
LEMMA CountedCall ==
    ASSUME Short, MailTypes, Protocol, Counted, CallScheduleItems \/ CallPing
    PROVE  Counted'
<1>1. /\ ~busy /\ busy' /\ hostPc = "idle" /\ hostPc' = "type"
      /\ UNCHANGED <<results, sendSequenceID, toHost, firmwareSendSequenceID>>
  BY DEF Protocol, Ownership, CallScheduleItems, CallPing, Call, firmwareVars
<1>2. pings' \in 0 .. MaxPings /\ Started' = Started + 1
  <2>1. Cardinality(Taken) \in Nat /\ IsFiniteSet(Taken)
    BY TakenBound DEF Short
  <2>2. CASE CallPing
    <3>1. pings' = pings + 1 /\ pings' <= MaxPings /\ command'.type = "Ping"
      BY <2>2, MailboxAssumption DEF CallPing, Call, Counted
    <3>2. Taken' = Taken
      BY <1>1, <3>1 DEF Taken
    <3> QED
      BY <2>1, <3>1, <3>2, MailboxAssumption DEF Started, Counted
  <2>3. CASE CallScheduleItems
    <3>1. PICK r \in Requests : /\ results[r] = "none"
                                /\ command' = [type |-> "ScheduleItem", request |-> r]
      BY <2>3 DEF CallScheduleItems, Call
    <3>2. Taken' = Taken \cup {r} /\ r \notin Taken
      BY <1>1, <3>1 DEF Taken
    <3>3. Cardinality(Taken)' = Cardinality(Taken) + 1
      BY <2>1, <3>2, FS_AddElement
    <3>4. pings' = pings
      BY <2>3 DEF CallScheduleItems
    <3> QED
      BY <2>1, <3>3, <3>4, MailboxAssumption DEF Started, Counted
  <2> QED
    BY <2>2, <2>3
<1>3. Started \in Nat
  BY TakenBound, MailboxAssumption DEF Short, Started, Counted
<1> QED
  BY <1>1, <1>2, <1>3
  DEF Counted, OneIf, Sending, MailTypes, HostTypes, FirmwareTypes

\* The other steps of a reliable session only finish what was begun.
LEMMA CountedRest ==
    ASSUME Short, MailTypes, Protocol, Counted, NoMagicID, reliable,
           CallWhileBusy \/ HostCommand \/ Firmware \/ UNCHANGED commsVars
    PROVE  Counted'
<1> USE DEF hostVars, callVars, firmwareVars
<1>1. pings' = pings /\ Taken \subseteq Taken'
  <2>1. CASE UNCHANGED <<busy, command, results, pings>>
    BY <2>1 DEF Taken
  <2>2. CASE CallWhileBusy
    <3>1. PICK r \in Requests : results' = [results EXCEPT ![r] = "failed"]
      BY <2>2 DEF CallWhileBusy
    <3>2. \A q \in Requests : results[q] # "none" => results'[q] # "none"
      BY <3>1 DEF MailTypes, HostTypes
    <3>3. UNCHANGED <<busy, command, pings>>
      BY <2>2 DEF CallWhileBusy
    <3> QED
      BY <3>2, <3>3 DEF Taken
  <2>3. CASE ReleaseReply
    <3>1. UNCHANGED <<command, pings>>
      BY <2>3 DEF ReleaseReply, Return
    <3>2. IF command.type = "Ping" THEN results' = results
          ELSE \E x \in {"ok", "failed"} :
                  results' = [results EXCEPT ![command.request] = x]
      BY <2>3 DEF ReleaseReply, Return
    <3>3. \A q \in Requests :
            results[q] # "none" \/ (command.type = "ScheduleItem" /\ q = command.request)
            => results'[q] # "none"
      BY <3>2 DEF MailTypes, HostTypes
    <3> QED
      BY <3>1, <3>3 DEF Taken
  <2>4. \/ CallWhileBusy \/ ReleaseReply
        \/ UNCHANGED <<busy, command, results, pings>>
    <3>1. CASE HostCommand
      BY <3>1 DEF HostCommand, WriteType, WriteSequenceID, WritePayload, WriteMagicNumber,
                  PollAcknowledgement, PollReply, PollAgain, HostStep
    <3>2. CASE Firmware
      BY <3>2 DEF Firmware, PollMessage, ReadType, ReadSequenceID, HandleMessage,
                  SendReply, Acknowledge, FirmwareStep
    <3>3. CASE UNCHANGED commsVars
      BY <3>3 DEF commsVars
    <3> QED
      BY <3>1, <3>2, <3>3
  <2> QED
    BY <2>1, <2>2, <2>3, <2>4
<1>2. Started \in Nat /\ Started' \in Nat /\ Started <= Started'
  <2>1. Cardinality(Taken) <= Cardinality(Taken)'
    BY <1>1, TakenGrows DEF Short
  <2>2. Cardinality(Taken) \in Nat
    BY TakenBound DEF Short
  <2>3. Taken' \subseteq Requests
    BY DEF Taken
  <2>4. Cardinality(Taken)' \in Nat
    BY <2>3, FS_Subset, FS_CardinalityType DEF Short
  <2> QED
    BY <1>1, <2>1, <2>2, <2>4, MailboxAssumption DEF Started, Counted
<1>3. sendSequenceID' + OneIf(hostPc' \in Sending)
      <= sendSequenceID + OneIf(hostPc \in Sending)
  <2>1. CASE UNCHANGED <<sendSequenceID, hostPc>>
    BY <2>1 DEF MailTypes, HostTypes, OneIf
  <2>2. CASE WriteType \/ WriteSequenceID \/ WritePayload \/ WriteMagicNumber
    <3>1. hostPc \in Sending /\ hostPc' \in Sending /\ sendSequenceID' = sendSequenceID
      BY <2>2 DEF WriteType, WriteSequenceID, WritePayload, WriteMagicNumber, HostStep,
                  Sending
    <3> QED
      BY <3>1 DEF OneIf, MailTypes, HostTypes
  <2>3. CASE PollAcknowledgement
    <3>1. sendSequenceID' = Increment(sendSequenceID) /\ hostPc = "ack" /\ hostPc' = "reply"
      BY <2>3 DEF PollAcknowledgement, PollAgain
    <3>2. hostPc \in Sending /\ hostPc' \notin Sending
      BY <3>1 DEF Sending
    <3>3. Increment(sendSequenceID) <= sendSequenceID + 1
          /\ Increment(sendSequenceID) \in Nat /\ sendSequenceID \in Nat
      BY IncrementBound, IncrementNat DEF MailTypes, HostTypes
    <3>4. OneIf(hostPc \in Sending) = 1 /\ OneIf(hostPc' \in Sending) = 0
      BY <3>2 DEF OneIf
    <3> QED
      BY <3>1, <3>3, <3>4
  <2>4. CASE PollReply \/ ReleaseReply
    <3>1. hostPc \notin Sending /\ hostPc' \notin Sending
          /\ sendSequenceID' = sendSequenceID
      BY <2>4 DEF PollReply, PollAgain, ReleaseReply, Return, Sending
    <3> QED
      BY <3>1 DEF OneIf, MailTypes, HostTypes
  <2>5. CallWhileBusy \/ Firmware \/ UNCHANGED commsVars => UNCHANGED <<sendSequenceID, hostPc>>
    BY DEF commsVars, CallWhileBusy, Firmware, PollMessage, ReadType, ReadSequenceID,
           HandleMessage, SendReply, Acknowledge, FirmwareStep
  <2> QED
    BY <2>1, <2>2, <2>3, <2>4, <2>5 DEF HostCommand
<1>4. firmwareSendSequenceID' + OneIf(busy' /\ toHost'.magic # MagicNumber)
      <= firmwareSendSequenceID + OneIf(busy /\ toHost.magic # MagicNumber)
  <2>1. CASE /\ firmwareSendSequenceID' = firmwareSendSequenceID
             /\ busy' = busy /\ toHost'.magic = toHost.magic
    BY <2>1 DEF MailTypes, FirmwareTypes, OneIf
  <2>2. CASE ReleaseReply
    BY <2>2 DEF ReleaseReply, Return, OneIf, MailTypes, FirmwareTypes
  <2>3. CASE SendReply
    <3>1. /\ firmwareSendSequenceID' = Increment(firmwareSendSequenceID)
          /\ firmwarePc = "reply" /\ busy' = busy
          /\ toHost'.magic = MagicNumber
      BY <2>3 DEF SendReply, FirmwareStep, MailTypes, MemoryTypes
    <3>2. busy /\ toHost.magic # MagicNumber
      BY <3>1, FirmwareAtWork DEF Protocol, Ownership, Replying, MailTypes, HostTypes
    <3>3. Increment(firmwareSendSequenceID) <= firmwareSendSequenceID + 1
          /\ Increment(firmwareSendSequenceID) \in Nat /\ firmwareSendSequenceID \in Nat
      BY IncrementBound, IncrementNat DEF MailTypes, FirmwareTypes
    <3>4. /\ OneIf(busy /\ toHost.magic # MagicNumber) = 1
          /\ OneIf(busy' /\ toHost'.magic # MagicNumber) = 0
      BY <3>1, <3>2 DEF OneIf
    <3> QED
      BY <3>1, <3>3, <3>4
  <2>4. CASE HandleMessage
    BY <2>1, <2>4 DEF HandleMessage, FirmwareStep, MailTypes, MemoryTypes
  <2>5. CASE \/ WriteType \/ WriteSequenceID \/ WritePayload \/ WriteMagicNumber
             \/ PollAcknowledgement \/ PollReply \/ CallWhileBusy \/ UNCHANGED commsVars
    BY <2>1, <2>5 DEF WriteType, WriteSequenceID, WritePayload, WriteMagicNumber, HostStep,
                      PollAcknowledgement, PollReply, PollAgain, CallWhileBusy, commsVars
  <2>6. CASE PollMessage \/ ReadType \/ ReadSequenceID \/ Acknowledge
    BY <2>1, <2>6 DEF PollMessage, ReadType, ReadSequenceID, Acknowledge, FirmwareStep
  <2> QED
    BY <2>2, <2>3, <2>4, <2>5, <2>6 DEF HostCommand, Firmware
<1>5. /\ sendSequenceID' + OneIf(hostPc' \in Sending) \in Nat
      /\ firmwareSendSequenceID' + OneIf(busy' /\ toHost'.magic # MagicNumber) \in Nat
      /\ sendSequenceID + OneIf(hostPc \in Sending) \in Nat
      /\ firmwareSendSequenceID + OneIf(busy /\ toHost.magic # MagicNumber) \in Nat
  <2>1. MailTypes'
    BY MailTypesNext DEF CommsNext
  <2>2. /\ sendSequenceID \in Nat /\ firmwareSendSequenceID \in Nat
        /\ sendSequenceID' \in Nat /\ firmwareSendSequenceID' \in Nat
    BY <2>1 DEF MailTypes, HostTypes, FirmwareTypes
  <2>4. /\ OneIf(hostPc \in Sending) \in Nat
        /\ OneIf(busy /\ toHost.magic # MagicNumber) \in Nat
    BY DEF OneIf
  <2>5. /\ OneIf(hostPc' \in Sending) \in Nat
        /\ OneIf(busy' /\ toHost'.magic # MagicNumber) \in Nat
    BY DEF OneIf
  <2> QED
    BY <2>2, <2>4, <2>5
<1> HIDE DEF hostVars, callVars, firmwareVars
<1>6. sendSequenceID' + OneIf(hostPc' \in Sending) <= Started'
  BY <1>2, <1>3, <1>5 DEF Counted
<1>7. firmwareSendSequenceID' + OneIf(busy' /\ toHost'.magic # MagicNumber) <= Started'
  BY <1>2, <1>4, <1>5 DEF Counted
<1> QED
  BY <1>1, <1>6, <1>7 DEF Counted

ShortInv == MailInv /\ (reliable => Counted)

LEMMA ShortInvInit == Short /\ CommsInit => ShortInv
<1> SUFFICES ASSUME Short, CommsInit PROVE ShortInv
  OBVIOUS
<1>1. Taken = {}
  BY DEF CommsInit, Taken
<1>2. Started = 0
  BY <1>1, FS_EmptySet DEF CommsInit, Started
<1>3. Counted
  BY <1>2, MailboxAssumption DEF CommsInit, Counted, OneIf, Sending
<1> QED
  BY <1>3, MailInvInit DEF ShortInv

LEMMA ShortInvNext == Short /\ ShortInv /\ [CommsNext]_commsVars => ShortInv'
<1> SUFFICES ASSUME Short, ShortInv, [CommsNext]_commsVars PROVE ShortInv'
  OBVIOUS
<1>1. reliable => NoMagicID /\ Protocol /\ Counted /\ MailTypes
  BY CountedNoMagic DEF ShortInv, MailInv
<1>2. MailInv' /\ reliable' = reliable
  BY <1>1, MailInvNext, ReliableStays DEF ShortInv
<1>3. reliable => Counted'
  BY <1>1, CountedCall, CountedRest, ReliableSteps
<1> QED
  BY <1>2, <1>3 DEF ShortInv

\* In a session of fewer messages than the magic number, 1428313378, the
\* mailbox implements RequestService, whatever the calls and their timing.
THEOREM ShortSessionImplementsService == Short => (CommsSpec => ImplementsService)
<1>1. SUFFICES ASSUME Short PROVE CommsSpec => ImplementsService
  OBVIOUS
<1>2. CommsInit => ShortInv
  BY <1>1, ShortInvInit
<1>3. ShortInv /\ [CommsNext]_commsVars => ShortInv'
  BY <1>1, ShortInvNext
<1>4. ShortInv /\ [CommsNext]_commsVars
      => [Service!Next]_<<IF reliable THEN results ELSE [r \in Requests |-> "none"],
                          IF reliable THEN handled ELSE <<>>>>
  BY MailStepRefines DEF ServiceStep, ServedResults, ServedHandled, ShortInv
<1> QED
  BY <1>2, <1>3, <1>4, MailInitRefines, PTL DEF CommsSpec, ImplementsService, Service!Spec
=============================================================================
