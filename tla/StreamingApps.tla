---------------------------- MODULE StreamingApps ----------------------------
(***************************************************************************)
(* The two programs of the HPS streaming demo and the semaphores between   *)
(* them: image_streaming_app, whose main thread sends an image each time   *)
(* its signalling thread wakes it, and streaming_inference_app, whose      *)
(* requests reschedule themselves from their completion callbacks until    *)
(* Ctrl-C.  The plugin and the stream hardware are external: a frame goes  *)
(* to the oldest scheduled request and is dropped when there is none, and  *)
(* while the cancel semaphore is posted the scheduled requests are aborted.*)
(***************************************************************************)
EXTENDS StreamImages, FiniteSets

CONSTANTS
    Scenarios,      \* command line and image files: see MCApps
    NumRequests,    \* num_streaming_inference_requests of the plugin
    ImagePixels,    \* the 224 * 224 of IsValid
    Burst,          \* elements of a full msgDMA burst
    ResultsKept,    \* results written to the file before it is closed off
    MaxSent,        \* images sent in a behaviour
    MaxRuns,        \* runs of streaming_inference_app
    MaxSignals,     \* Ctrl-C presses
    MaxFaults       \* failing opens and writes of the msgDMA device

ASSUME AppBounds ==
    /\ {NumRequests, ImagePixels, Burst, MaxSent, MaxRuns} \subseteq Nat \ {0}
    /\ {ResultsKept, MaxSignals, MaxFaults} \subseteq Nat

VARIABLES
    sc,         \* the scenario
    img,        \* image_streaming_app: pc, images, next, sent, opened, shutdown, thread
    sems,       \* the named semaphores: ready, cancel
    app,        \* streaming_inference_app: pc, next, cancelling, runs, results, file
    plugin,     \* external: scheduled, running, completed, callback, tensors, captured
    used        \* signals and faults so far

vars == <<sc, img, sems, app, plugin, used>>

Requests == 1..NumRequests

Init ==
    /\ sc \in Scenarios
    /\ img = [pc |-> "start", images |-> <<>>, next |-> 0, sent |-> <<>>, opened |-> FALSE,
              shutdown |-> FALSE, thread |-> "none"]
    /\ sems = [ready |-> 0, cancel |-> 0]
    /\ app = [pc |-> "start", next |-> 1, cancelling |-> FALSE, runs |-> 1,
              results |-> <<>>, file |-> <<>>]
    /\ plugin = [scheduled |-> <<>>, running |-> <<>>, completed |-> <<>>,
                 callback |-> [request |-> 0, step |-> "none"],
                 tensors |-> [r \in Requests |-> 0], captured |-> <<>>]
    /\ used = [signals |-> 0, faults |-> 0]

-----------------------------------------------------------------------------
(* image_streaming_app                                                     *)

Streamable(f) == f.kind \in {"bmp", "raw", "lt"}

\* The data of a scenario's images, a constant.
FileData ==
    [s \in Scenarios |->
        [f \in {s.files[i] : i \in {j \in DOMAIN s.files : s.files[j].kind \in {"bmp", "raw"}}} |->
            LoadFile(f, s.disable, FALSE).data]]

GetData(f) == FileData[sc][f]

\* RawImage keeps its layout transform off, so an .lt file has no BmpFile
\* for GetData and GetSize to return the data of.
LoadImage(f) ==
    [f |-> f, null |-> f.kind = "lt", size |-> IF f.kind = "lt" THEN 0 ELSE Len(GetData(f))]

IsValid(image) == image.size = ImagePixels * (IF sc.disable THEN 3 ELSE 4)

\* The number to send: one when -image is given, unless -send says otherwise.
NumToSend == IF sc.send = 0 /\ sc.single THEN 1 ELSE sc.send

FolderImages ==
    LET files == SelectSeq(sc.files, Streamable)
        n == IF NumToSend > 0 /\ NumToSend < Len(files) THEN NumToSend ELSE Len(files)
    IN  [i \in 1..n |-> LoadImage(files[i])]

SingleImage ==
    LET image == LoadImage(sc.files[1])
    IN  IF Streamable(sc.files[1]) /\ IsValid(image) THEN <<image>> ELSE <<>>

\* LoadImageFiles: -image loads one file and checks its size, a folder is
\* loaded unchecked, and nothing is streamed when nothing was loaded.
LoadImageFiles ==
    /\ img.pc = "start"
    /\ IF sc.single /\ sc.files[1].kind = "lt"
       THEN img' = [img EXCEPT !.pc = "crashed"]
       ELSE LET images == IF sc.single THEN SingleImage ELSE FolderImages
            IN  img' = [img EXCEPT !.images = images,
                                   !.pc = IF images = <<>> THEN "ended" ELSE "waitReady"]
    /\ UNCHANGED <<sc, sems, app, plugin, used>>

\* WaitForInferenceApp: the ready semaphore is taken without waiting and,
\* in a second step, posted again.
WaitForInferenceApp ==
    /\ img.pc = "waitReady"
    /\ IF img.shutdown
       THEN img' = [img EXCEPT !.pc = "ended"] /\ UNCHANGED sems
       ELSE /\ sems.ready > 0
            /\ sems' = [sems EXCEPT !.ready = @ - 1]
            /\ img' = [img EXCEPT !.pc = "ready"]
    /\ UNCHANGED <<sc, app, plugin, used>>

RepostReady ==
    /\ img.pc = "ready"
    /\ sems' = [sems EXCEPT !.ready = @ + 1]
    /\ img' = [img EXCEPT !.pc = "check", !.thread = "check"]
    /\ UNCHANGED <<sc, app, plugin, used>>

\* The loop of Run: _shutdownEvent is tested, then the event waited for.
RunCheck ==
    /\ img.pc = "check"
    /\ img' = [img EXCEPT !.pc = IF img.shutdown THEN "join" ELSE "toWait"]
    /\ UNCHANGED <<sc, sems, app, plugin, used>>

EventWait ==
    /\ img.pc = "toWait"
    /\ img' = [img EXCEPT !.pc = "waiting"]
    /\ UNCHANGED <<sc, sems, app, plugin, used>>

\* A condition variable may wake without being notified.
SpuriousWake ==
    /\ img.pc = "waiting"
    /\ img' = [img EXCEPT !.pc = "send"]
    /\ UNCHANGED <<sc, sems, app, plugin, used>>

\* RunSendImageSignalThread: sleep, notify whoever waits, test the flag.
SignalSet ==
    /\ img.thread = "sleep"
    /\ img' = [img EXCEPT !.thread = "check",
                          !.pc = IF @ = "waiting" THEN "send" ELSE @]
    /\ UNCHANGED <<sc, sems, app, plugin, used>>

SignalCheck ==
    /\ img.thread = "check"
    /\ img' = [img EXCEPT !.thread = IF img.shutdown THEN "ended" ELSE "sleep"]
    /\ UNCHANGED <<sc, sems, app, plugin, used>>

\* Variant with a mistake: the shutdown flag is not set when all
\* images are sent.
SentEnoughLeavesFlag(sent) ==
    IF NumToSend > 0 /\ Len(sent) >= NumToSend
    THEN [img EXCEPT !.sent = sent, !.pc = "join"]
    ELSE [img EXCEPT !.sent = sent, !.pc = "check"]

\* After a send: _shutdownEvent is set when enough images have gone out.
SentEnough(sent) ==
    IF NumToSend > 0 /\ Len(sent) >= NumToSend
    THEN [img EXCEPT !.sent = sent, !.pc = "join", !.shutdown = TRUE]
    ELSE [img EXCEPT !.sent = sent, !.pc = "check"]

\* SendNextImage: the frame is with the stream hardware when fwrite returns,
\* unless there is nothing in it.
SendNextImage ==
    LET index == img.next + 1
        image == img.images[index]
        next == (img.next + 1) % Len(img.images)
        sent == Append(img.sent, index)
        Captures == image.size > 0 /\ plugin.scheduled # <<>>
    IN  /\ img.pc = "send"
        /\ Len(img.sent) < MaxSent
        /\ IF image.null
           THEN /\ img' = [img EXCEPT !.pc = "crashed"]
                /\ UNCHANGED plugin
           ELSE /\ img' = [SentEnough(sent) EXCEPT !.next = next, !.opened = TRUE]
                /\ plugin' = IF ~Captures THEN plugin
                             ELSE [plugin EXCEPT
                                     !.scheduled = Tail(@),
                                     !.running = Append(@, [request |-> Head(plugin.scheduled),
                                                            frame |-> Len(sent)]),
                                     !.captured = Append(@, Len(sent))]
        /\ UNCHANGED <<sc, sems, app, used>>

\* Opening the device or writing the frame fails.
SendFails ==
    /\ img.pc = "send"
    /\ used.faults < MaxFaults
    /\ used' = [used EXCEPT !.faults = @ + 1]
    /\ img' = [img EXCEPT !.pc = "join", !.shutdown = TRUE]
    /\ UNCHANGED <<sc, sems, app, plugin>>

Join ==
    /\ img.pc = "join"
    /\ img.thread = "ended"
    /\ img' = [img EXCEPT !.pc = "ended"]
    /\ UNCHANGED <<sc, sems, app, plugin, used>>

ImageSigInt ==
    /\ used.signals < MaxSignals
    /\ img.pc \notin {"ended", "crashed"}
    /\ used' = [used EXCEPT !.signals = @ + 1]
    /\ img' = [img EXCEPT !.shutdown = TRUE]
    /\ UNCHANGED <<sc, sems, app, plugin>>

-----------------------------------------------------------------------------
(* streaming_inference_app, main thread                                    *)

Scheduled(p, r) == [p EXCEPT !.scheduled = Append(@, r)]

\* The inference requests are started in order, then the image application
\* is told.
RunStartRequests ==
    /\ app.pc = "start"
    /\ plugin' = Scheduled(plugin, app.next)
    /\ app' = [app EXCEPT !.next = @ + 1,
                          !.pc = IF app.next = NumRequests THEN "post" ELSE "start"]
    /\ UNCHANGED <<sc, img, sems, used>>

\* An option or a file is missing, or the model cannot be imported: Run
\* ends before it has opened a semaphore, so the destructor drains none.
RunRefused ==
    /\ app.pc = "start" /\ app.next = 1
    /\ used.faults < MaxFaults
    /\ used' = [used EXCEPT !.faults = @ + 1]
    /\ app' = [app EXCEPT !.pc = "ended"]
    /\ UNCHANGED <<sc, img, sems, plugin>>

SetReadyForImageStreamSemaphore ==
    /\ app.pc = "post"
    /\ sems' = [sems EXCEPT !.ready = @ + 1]
    /\ app' = [app EXCEPT !.pc = "unlocked"]
    /\ UNCHANGED <<sc, img, plugin, used>>

\* One turn of the wait: lock, wait up to a second with the lock released,
\* unlock on a timeout.
WaitForSignal ==
    /\ app' = [app EXCEPT !.pc = CASE @ = "unlocked" -> "locked"
                                   [] @ = "locked" -> "waiting"
                                   [] OTHER -> "unlocked"]
    /\ app.pc \in {"unlocked", "locked", "waiting"}
    /\ UNCHANGED <<sc, img, sems, plugin, used>>

\* SigIntHandler's notification ends the wait, and is lost when nobody
\* waits.  Run on the main thread while it holds the mutex, the handler
\* never returns.
AppSigInt ==
    /\ used.signals < MaxSignals
    /\ app.pc \notin {"ended", "stuck"}
    /\ used' = [used EXCEPT !.signals = @ + 1]
    /\ \/ app' = [app EXCEPT !.pc = IF @ = "waiting" THEN "shutdown" ELSE @]
       \/ app.pc = "locked" /\ app' = [app EXCEPT !.pc = "stuck"]
    /\ UNCHANGED <<sc, img, sems, plugin>>

\* SetShutdownSemaphore: IsCancelling() holds from the open on, before the
\* post that makes the plugin abort.
OpenCancelSemaphore ==
    /\ app.pc = "shutdown"
    /\ app' = [app EXCEPT !.pc = "postCancel", !.cancelling = TRUE]
    /\ UNCHANGED <<sc, img, sems, plugin, used>>

PostCancelSemaphore ==
    /\ app.pc = "postCancel"
    /\ sems' = [sems EXCEPT !.cancel = @ + 1]
    /\ app' = [app EXCEPT !.pc = "clear"]
    /\ UNCHANGED <<sc, img, plugin, used>>

\* Cancel and clear: destroying a request waits for its last callback.
ClearInferences ==
    /\ app.pc = "clear"
    /\ plugin.scheduled = <<>> /\ plugin.running = <<>> /\ plugin.completed = <<>>
    /\ plugin.callback.step = "none"
    /\ app' = [app EXCEPT !.pc = "drainCancel"]
    /\ UNCHANGED <<sc, img, sems, plugin, used>>

\* Variant with a mistake: the cancel semaphore keeps its value.
DrainCancelKept ==
    /\ app.pc = "drainCancel"
    /\ app' = [app EXCEPT !.pc = "drainReady"]
    /\ UNCHANGED <<sc, img, sems, plugin, used>>

\* The destructor takes both semaphores down to zero.
DrainCancel ==
    /\ app.pc = "drainCancel"
    /\ sems' = [sems EXCEPT !.cancel = 0]
    /\ app' = [app EXCEPT !.pc = "drainReady"]
    /\ UNCHANGED <<sc, img, plugin, used>>

DrainReady ==
    /\ app.pc = "drainReady"
    /\ sems' = [sems EXCEPT !.ready = 0]
    /\ app' = [app EXCEPT !.pc = "ended"]
    /\ UNCHANGED <<sc, img, plugin, used>>

\* The application is started again: a new process on the same semaphores.
Rerun ==
    /\ app.pc = "ended"
    /\ app.runs < MaxRuns
    /\ app' = [pc |-> "start", next |-> 1, cancelling |-> FALSE, runs |-> app.runs + 1,
               results |-> <<>>, file |-> <<>>]
    /\ plugin' = [plugin EXCEPT !.captured = <<>>, !.tensors = [r \in Requests |-> 0]]
    /\ UNCHANGED <<sc, img, sems, used>>

-----------------------------------------------------------------------------
(* The plugin, and ProcessResult on its callback thread                    *)

\* The oldest inference finishes: its output is in the tensor of its
\* request.
InferenceDone ==
    /\ plugin.running # <<>>
    /\ LET job == Head(plugin.running)
       IN  plugin' = [plugin EXCEPT !.running = Tail(@),
                                    !.tensors[job.request] = job.frame,
                                    !.completed = Append(@, job.request)]
    /\ UNCHANGED <<sc, img, sems, app, used>>

\* While the cancel semaphore is up, a scheduled request completes without
\* a frame.
AbortScheduled ==
    /\ sems.cancel > 0
    /\ plugin.scheduled # <<>>
    /\ plugin' = [plugin EXCEPT !.scheduled = Tail(@),
                                !.completed = Append(@, Head(plugin.scheduled))]
    /\ UNCHANGED <<sc, img, sems, app, used>>

Callback(r, step) == [request |-> r, step |-> step]

\* Callbacks run one at a time, in order of completion; ProcessResult does
\* nothing while the application is cancelling.
ProcessResult ==
    /\ plugin.callback.step = "none"
    /\ plugin.completed # <<>>
    /\ plugin' = [plugin EXCEPT !.completed = Tail(@),
                                !.callback = Callback(Head(plugin.completed),
                                                      IF app.cancelling THEN "none" ELSE "read")]
    /\ UNCHANGED <<sc, img, sems, app, used>>

EndOfCapture == 0    \* "End of results capture" in the results file

\* The scores are read from the tensor and printed with the running number;
\* the first ResultsKept of them go to the file too.
PrintResult ==
    LET n == Len(app.results) + 1
        result == plugin.tensors[plugin.callback.request]
    IN  /\ plugin.callback.step = "read"
        /\ app' = [app EXCEPT !.results = Append(@, result),
                              !.file = CASE n <= ResultsKept -> Append(@, result)
                                         [] n = ResultsKept + 1 -> Append(@, EndOfCapture)
                                         [] OTHER -> @]
        /\ plugin' = [plugin EXCEPT !.callback.step = "start"]
        /\ UNCHANGED <<sc, img, sems, used>>

StartAsync ==
    /\ plugin.callback.step = "start"
    /\ plugin' = [Scheduled(plugin, plugin.callback.request) EXCEPT !.callback = Callback(0, "none")]
    /\ UNCHANGED <<sc, img, sems, app, used>>

-----------------------------------------------------------------------------
ImageMain == \/ LoadImageFiles \/ WaitForInferenceApp \/ RepostReady \/ RunCheck \/ EventWait
             \/ SendNextImage \/ Join
ImageThread == SignalSet \/ SignalCheck
AppMain == \/ RunStartRequests \/ SetReadyForImageStreamSemaphore \/ OpenCancelSemaphore
           \/ PostCancelSemaphore \/ ClearInferences \/ DrainCancel \/ DrainReady
PluginStep == InferenceDone \/ AbortScheduled
CallbackStep == ProcessResult \/ PrintResult \/ StartAsync

Next == \/ ImageMain \/ ImageThread \/ SpuriousWake \/ SendFails \/ ImageSigInt
        \/ AppMain \/ RunRefused \/ WaitForSignal \/ AppSigInt \/ Rerun
        \/ PluginStep \/ CallbackStep

Spec == Init /\ [][Next]_vars

\* Threads are scheduled and the hardware finishes what it started.
FairSpec == Spec /\ WF_vars(ImageMain) /\ WF_vars(ImageThread) /\ WF_vars(AppMain)
                 /\ WF_vars(PluginStep) /\ WF_vars(CallbackStep)

-----------------------------------------------------------------------------
\* Every picture that LoadFile accepts is streamed with each of its samples in
\* the place the layout transform reads it from, whichever of its formats and
\* line orders the file has, and nothing else is; and the software layout
\* transform puts the samples into channel vectors, each adjusted by the mean
\* of its own channel (bmp_file.cpp, raw_image.cpp).  The code keeps this of
\* files without a palette, padded lines or a missing size: see MCApps.
PixelsInPlace ==
    img.pc = "waitReady" => \A i \in 1..Len(img.images) :
        LET image == img.images[i]
            f == image.f
            planar == LoadFile(f, FALSE, TRUE).data
            c == [w |-> f.w, h |-> f.h, cv |-> sc.cv]
        IN  ~image.null /\ Accepted(f) =>
                /\ GetData(f) = Streamed(f, sc.disable)
                /\ f.bits = 24 => LayoutTransform(c, planar, Burst) = Vectored(c, Burst)

\* The printed results are those of the captured frames, each once and in
\* the order they were captured, although the requests restart themselves
\* and are aborted on Ctrl-C; and the results file holds the first of them
\* (ProcessResult).
ResultsFollowImages ==
    /\ Len(app.results) <= Len(plugin.captured)
    /\ app.results = SubSeq(plugin.captured, 1, Len(app.results))
    /\ app.file = IF Len(app.results) <= ResultsKept THEN app.results
                  ELSE Append(SubSeq(app.results, 1, ResultsKept), EndOfCapture)

\* image_streaming_app comes to its end once the inference application was
\* ready and -send bounds its images, if nobody presses Ctrl-C on it; and
\* streaming_inference_app comes to its end once its wait was ended, leaving
\* no cancellation behind for its next run.
StreamingEnds ==
    /\ img.pc = "check" /\ NumToSend \in 1..MaxSent
       ~> img.pc \in {"ended", "crashed"} \/ used.signals > 0
    /\ app.pc = "shutdown" ~> app.pc = "ended" /\ sems.cancel = 0
=============================================================================
