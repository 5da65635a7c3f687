---------------------------- MODULE DemoPipeline ----------------------------
(***************************************************************************)
(* The object detection and segmentation demos: the main loop reads frames *)
(* from an ImagesCapture, submits them to an AsyncPipeline and renders the *)
(* results in order.  The pipeline keeps a pool of requests; a request's   *)
(* callback stores its result and frees it.  A result refers to the        *)
(* request's output tensors, it does not copy them.                        *)
(***************************************************************************)
EXTENDS Integers, Sequences, FiniteSets, SequencesExt

CONSTANTS
    Sources,    \* the inputs the demo may be started on
    NumRequests,\* requests in the pool
    MaxFrames,  \* bound: frames after which the user quits
    Failures    \* may inferences fail?

\* type: "image", "dir", "video" or "camera"; len files or frames, of which
\* the ones in bad cannot be read; where to begin and how much to read.
Source == [type : {"image", "dir", "video", "camera"}, len : Nat \ {0},
           bad : SUBSET Nat, loop : BOOLEAN, initial : Nat, limit : Nat \ {0}]

ASSUME DemoAssumption == /\ Sources \subseteq Source
                         /\ NumRequests \in Nat \ {0}
                         /\ MaxFrames \in Nat
                         /\ Failures \in BOOLEAN

VARIABLES
    source,     \* what is read
    cap,        \* the reader: next file or frame, how many were returned
    main,       \* where the main thread is
    submitted,  \* the frames submitted so far; frame n has id n - 1
    inUse, run, \* the pool: is the request taken; what it is running
    tensor,     \* the frame whose output a request's tensors hold
    completed,  \* completedInferenceResults: frame id -> request
    outputFrameId,
    taken,      \* the result main is postprocessing
    shown,      \* ids of the frames rendered, with the output they showed
    failed,     \* callbackException
    waiting     \* where waitForTotalCompletion is in the pool

pool == <<inUse, run, tensor>>
vars == <<source, cap, main, submitted, pool, completed, outputFrameId, taken,
          shown, failed, waiting>>

Requests == 1 .. NumRequests
NoFrame == -1
Free == [st |-> "free", frame |-> NoFrame]

-----------------------------------------------------------------------------
(* The readers: each returns the frame read (-1 for an empty one) and its  *)
(* own new state.                                                          *)

Empty(c) == [frame |-> NoFrame, cap |-> c]

\* One image, once or for ever.
ImreadRead(s, c) ==
    IF s.loop \/ c.next = 0 THEN [frame |-> 0, cap |-> [c EXCEPT !.next = 1]]
    ELSE Empty(c)

\* The files of a directory that can be read, from position p on.
Readable(s, p) == {f \in p .. s.len - 1 : f \notin s.bad}

\* The n-th readable file of the directory, counted from 0.
NthReadable(s, n) ==
    CHOOSE f \in Readable(s, 0) : Cardinality(Readable(s, 0) \ Readable(s, f)) = n

HasInitial(s) == Cardinality(Readable(s, 0)) > s.initial

Smallest(S) == CHOOSE f \in S : \A g \in S : f <= g

\* Variant with a mistake: a looping reader begins again at the first file.
DirReadFromFirst(s, c) ==
    IF c.next < s.limit /\ Readable(s, c.pos) # {}
    THEN LET f == Smallest(Readable(s, c.pos))
         IN [frame |-> f, cap |-> [pos |-> f + 1, next |-> c.next + 1]]
    ELSE IF s.loop /\ HasInitial(s)
    THEN LET f == NthReadable(s, 0)
         IN [frame |-> f, cap |-> [pos |-> f + 1, next |-> 1]]
    ELSE Empty([c EXCEPT !.pos = IF c.next < s.limit THEN s.len ELSE @])

\* The next readable file within the limit; after the last one, or at the
\* limit, a looping reader begins again at the initial image.
DirRead(s, c) ==
    IF c.next < s.limit /\ Readable(s, c.pos) # {}
    THEN LET f == Smallest(Readable(s, c.pos))
         IN [frame |-> f, cap |-> [pos |-> f + 1, next |-> c.next + 1]]
    ELSE IF s.loop /\ HasInitial(s)
    THEN LET f == NthReadable(s, s.initial)
         IN [frame |-> f, cap |-> [pos |-> f + 1, next |-> 1]]
    ELSE Empty([c EXCEPT !.pos = IF c.next < s.limit THEN s.len ELSE @])

\* A video: at the limit or at its end it is set back to the initial frame
\* when looping.
VideoRead(s, c) ==
    LET again == [frame |-> IF s.initial < s.len THEN s.initial ELSE NoFrame,
                  cap |-> [pos |-> s.initial + 1, next |-> 1]]
    IN CASE c.next >= s.limit -> IF s.loop THEN again ELSE Empty(c)
         [] c.next < s.limit /\ c.pos < s.len ->
                [frame |-> c.pos, cap |-> [pos |-> c.pos + 1, next |-> c.next + 1]]
         [] OTHER -> IF s.loop THEN again
                     ELSE Empty([c EXCEPT !.next = @ + 1])

\* A camera delivers until the limit; looping lifts the limit.
CameraRead(s, c) ==
    IF c.next >= s.limit /\ ~s.loop THEN Empty(c)
    ELSE [frame |-> c.pos, cap |-> [pos |-> c.pos + 1, next |-> c.next + 1]]

Read(s, c) == CASE s.type = "image" -> ImreadRead(s, c)
                [] s.type = "dir" -> DirRead(s, c)
                [] s.type = "video" -> VideoRead(s, c)
                [] s.type = "camera" -> CameraRead(s, c)

\* openImagesCapture: a directory reader stands at the initial image, and
\* refuses a directory without one; a video is set to its initial frame.
Opens(s) == s.type = "dir" => HasInitial(s)

Opened(s) == [pos |-> CASE s.type = "dir" -> NthReadable(s, s.initial)
                        [] s.type = "video" -> s.initial
                        [] OTHER -> 0,
              next |-> 0]

-----------------------------------------------------------------------------
Init ==
    /\ source \in {s \in Sources : Opens(s)}
    /\ cap = Opened(source)
    /\ main = "submit"
    /\ submitted = <<>>
    /\ inUse = [r \in Requests |-> FALSE]
    /\ run = [r \in Requests |-> Free]
    /\ tensor = [r \in Requests |-> NoFrame]
    /\ completed = <<>>
    /\ outputFrameId = 0
    /\ taken = NoFrame
    /\ shown = <<>>
    /\ failed = FALSE
    /\ waiting = 0

IsIdleRequestAvailable == \E r \in Requests : ~inUse[r]

\* getIdleRequest returns the first request that is not taken.
GetIdleRequest == Smallest({r \in Requests : ~inUse[r]})

\* The first frame of a video must be readable.
ReadThrows == source.type = "video" /\ submitted = <<>> /\ source.initial >= source.len

\* submitData: preprocess into the request, set its callback, start it.
SubmitData(frame) ==
    LET r == GetIdleRequest
    IN /\ inUse' = [inUse EXCEPT ![r] = TRUE]
       /\ run' = [run EXCEPT ![r] = [st |-> "running", frame |-> Len(submitted)]]
       /\ submitted' = Append(submitted, frame)

\* Top of the loop: with an idle request the next frame is read and
\* submitted; an empty frame ends the input.
Submit ==
    /\ main = "submit"
    /\ IF ~IsIdleRequestAvailable \/ Len(submitted) = MaxFrames
       THEN main' = "wait" /\ UNCHANGED <<cap, submitted, inUse, run>>
       ELSE IF ReadThrows
       THEN main' = "unwind" /\ UNCHANGED <<cap, submitted, inUse, run>>
       ELSE LET next == Read(source, cap)
            IN /\ cap' = next.cap
               /\ IF next.frame = NoFrame
                  THEN main' = "complete" /\ UNCHANGED <<submitted, inUse, run>>
                  ELSE main' = "wait" /\ SubmitData(next.frame)
    /\ UNCHANGED <<source, tensor, completed, outputFrameId, taken, shown, failed, waiting>>

\* Variant with a mistake: an exception does not end the wait.
WaitForDataOnly ==
    /\ main = "wait"
    /\ IsIdleRequestAvailable \/ outputFrameId \in DOMAIN completed
    /\ main' = IF failed THEN "unwind" ELSE "get"
    /\ UNCHANGED <<source, cap, submitted, pool, completed, outputFrameId, taken, shown,
                   failed, waiting>>

\* waitForData: an exception, a free request or the next result.
WaitForData ==
    /\ main = "wait"
    /\ failed \/ IsIdleRequestAvailable \/ outputFrameId \in DOMAIN completed
    /\ main' = IF failed THEN "unwind" ELSE "get"
    /\ UNCHANGED <<source, cap, submitted, pool, completed, outputFrameId, taken, shown,
                   failed, waiting>>

\* Variant with a mistake: the first result in the map is taken.
NextResultAny == completed # <<>>

\* Is the result main asks for there?  Results are taken in frame order.
NextResult == outputFrameId \in DOMAIN completed

ResultId == IF outputFrameId \in DOMAIN completed THEN outputFrameId
            ELSE CHOOSE f \in DOMAIN completed : TRUE

\* getInferenceResult, and getResult's postprocess of what it returned.
GetResult ==
    /\ main \in {"get", "rest"}
    /\ IF NextResult
       THEN /\ taken' = ResultId
            /\ outputFrameId' = ResultId + 1
            /\ main' = IF main = "get" THEN "render" ELSE "renderRest"
       ELSE /\ main' = IF main = "get" THEN "submit" ELSE "exit"
            /\ UNCHANGED <<taken, outputFrameId>>
    /\ UNCHANGED <<source, cap, submitted, pool, completed, shown, failed, waiting>>

\* The result is postprocessed from the tensors it refers to, rendered and
\* forgotten; then the user may quit, and does so at the bound.
Render ==
    /\ main \in {"render", "renderRest"}
    /\ shown' = Append(shown, <<taken, tensor[completed[taken]]>>)
    /\ completed' = [f \in DOMAIN completed \ {taken} |-> completed[f]]
    /\ taken' = NoFrame
    /\ \/ main = "render" /\ main' = "get" /\ Len(submitted) < MaxFrames
       \/ main = "render" /\ main' = "complete"
       \/ main = "renderRest" /\ main' = "rest"
    /\ UNCHANGED <<source, cap, submitted, pool, outputFrameId, failed, waiting>>

\* waitForTotalCompletion: request after request, those in use are waited
\* for, which rethrows what the inference threw.  It also runs in the
\* destructor, at the end and when an exception unwinds main, where a
\* second exception terminates the program.
WaitForTotalCompletion ==
    /\ main \in {"complete", "unwind", "exit"}
    /\ IF waiting = NumRequests
       THEN /\ waiting' = 0
            /\ main' = IF main = "complete" THEN "rest" ELSE "exited"
       ELSE LET r == waiting + 1
            IN IF ~inUse[r] THEN waiting' = r /\ UNCHANGED main
               ELSE /\ run[r].st \in {"free", "failed"}
                    /\ IF run[r].st = "failed"
                       THEN /\ waiting' = 0
                            /\ main' = IF main = "complete" THEN "unwind" ELSE "aborted"
                       ELSE waiting' = r /\ UNCHANGED main
    /\ UNCHANGED <<source, cap, submitted, pool, completed, outputFrameId, taken, shown, failed>>

-----------------------------------------------------------------------------
(* The requests run by themselves.                                         *)

\* The request's output is written into its tensors ...
WriteOutput(r) ==
    /\ run[r].st = "running"
    /\ tensor' = [tensor EXCEPT ![r] = run[r].frame]
    /\ run' = [run EXCEPT ![r].st = "written"]
    /\ UNCHANGED <<source, cap, main, submitted, inUse, completed, outputFrameId, taken,
                   shown, failed, waiting>>

\* ... and the callback, under the pipeline's mutex, stores a result that
\* refers to them, frees the request and notifies.
Callback(r) ==
    /\ run[r].st = "written"
    /\ completed' = [f \in DOMAIN completed \cup {run[r].frame} |->
                        IF f = run[r].frame THEN r ELSE completed[f]]
    /\ inUse' = [inUse EXCEPT ![r] = FALSE]
    /\ run' = [run EXCEPT ![r] = Free]
    /\ UNCHANGED <<source, cap, main, submitted, tensor, outputFrameId, taken, shown, failed,
                   waiting>>

\* A failed inference: the first exception is kept and the request is not
\* returned to the pool.
CallbackFails(r) ==
    /\ Failures /\ run[r].st = "running"
    /\ failed' = TRUE
    /\ run' = [run EXCEPT ![r].st = "failed"]
    /\ UNCHANGED <<source, cap, main, submitted, inUse, tensor, completed, outputFrameId,
                   taken, shown, waiting>>

MainStep == Submit \/ WaitForData \/ GetResult \/ Render \/ WaitForTotalCompletion
RequestStep(r) == WriteOutput(r) \/ Callback(r) \/ CallbackFails(r)

Next == MainStep \/ \E r \in Requests : RequestStep(r)

\* The main thread is scheduled and every inference ends.
Spec == /\ Init /\ [][Next]_vars
        /\ WF_vars(MainStep)
        /\ \A r \in Requests : WF_vars(RequestStep(r))

-----------------------------------------------------------------------------
\* Every frame that was submitted is rendered, once and in the order of
\* submission, although inferences complete in any order and the input may
\* end, or the user quit, while some still run.
FramesRendered ==
    /\ \A i \in DOMAIN shown : shown[i][1] = i - 1
    /\ main = "exited" /\ ~failed => Len(shown) = Len(submitted)

\* The frames submitted are those the source holds, in order: the readable
\* ones from the initial one on, at most limit of them, and around again
\* from the initial one when looping.
Frames(s) ==
    LET all == CASE s.type = "image" -> <<0>>
                 [] s.type = "dir" -> SelectSeq([i \in 1 .. s.len |-> i - 1], LAMBDA f : f \notin s.bad)
                 [] s.type = "video" -> [i \in 1 .. s.len |-> i - 1]
                 [] s.type = "camera" -> [i \in 1 .. MaxFrames |-> i - 1]
        upTo == IF s.type = "image" \/ (s.type = "camera" /\ s.loop) THEN Len(all)
                ELSE IF s.initial + s.limit < Len(all) THEN s.initial + s.limit ELSE Len(all)
    IN SubSeq(all, s.initial + 1, upTo)

FramesFollowSource ==
    LET f == Frames(source)
    IN \A i \in DOMAIN submitted :
        /\ i > Len(f) => source.loop
        /\ submitted[i] = f[((i - 1) % Len(f)) + 1]

\* The demo ends when the input does or the user quits, whatever fails.
DemoEnds == <>(main \in {"exited", "aborted"})

=============================================================================
