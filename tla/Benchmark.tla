------------------------------ MODULE Benchmark ------------------------------
(***************************************************************************)
(* dla_benchmark: the number of requests is chosen, the input tensors are  *)
(* filled from the files, and the measuring loop hands every iteration to  *)
(* an idle request of its graph's InferRequestsQueue.  Requests run in the *)
(* runtime's two threads (one calls LoadInputFeatureToDDR and StartDla,    *)
(* one WaitForDla and ReadOutputFeatureFromDDR) and come back through      *)
(* callbacks in any order.  With input streaming a feeder thread writes    *)
(* each buffer into a FIFO, the streaming MMD reads it chunk by chunk, and *)
(* the ostream lock keeps one result in the MMD's buffer.                  *)
(***************************************************************************)
EXTENDS BenchmarkCommand, BenchmarkReport

CONSTANTS
    Scenarios,  \* the command lines and devices a run starts with
    Chunks,     \* chunks of INGRESS_ON_CHIP_MEMORY_SIZE_BYTES in one input
    PipeRoom    \* bound: chunks the FIFO holds

Kinds == {"image", "binary", "video", "stream"}

\* A scenario is the command line (cmd) and, repeated from it, the numbers of
\* graphs and iterations, the batch and the API; the input files; the device;
\* and what the dumps and accuracy checks need.
ASSUME BenchmarkAssumption ==
    /\ Chunks \in Nat \ {0}
    /\ PipeRoom \in Nat \ {0}
    /\ \A s \in Scenarios :
        /\ s.nets = Len(s.cmd.models) /\ s.niter = s.cmd.niter /\ s.api = s.cmd.api
        /\ s.batch = BatchSize(s.cmd)
        /\ {s.nireq, s.niter, s.instances, s.perInstance, s.maxRequests, s.files, s.frames}
             \subseteq Nat
        /\ {s.optimal, s.inputs, s.clip} \subseteq Nat \ {0}
        /\ s.kind \in Kinds /\ {s.faults, s.dump} \subseteq BOOLEAN

VARIABLES
    scn,        \* the scenario: flags, models, files, device
    main,       \* where the main thread is
    rc,         \* the exit code main returns
    config,     \* what steps 1 to 7 decided
    report,     \* what was dumped and evaluated
    nireq, niter,
    net, iireq, \* loop variables
    iterations, \* iterations started, per graph
    idleIds,    \* InferRequestsQueue::_idleIds, per graph
    inferenceException, \* is it set, per graph
    request,    \* per graph and id: state, input tensor, output slot
    outputs,    \* output_tensors, per graph
    buffer,     \* current_streaming_input_buffer (an iteration), or 0
    fifoMutex,  \* holder of fifo_mutex
    fifoStop,
    feeder,     \* the feeder thread: where it is, chunks written
    pipe,       \* the FIFO
    startQueue, starter,    \* requests to start and the thread that does
    waitQueue,              \* requests started, to be waited for
    deviceMutex, ostreamMutex,
    ingress, egress,        \* chunks streamed in so far; whole inputs inside
    streamOut               \* data_buffer_stream_out

queueVars == <<idleIds, inferenceException>>
fifoVars == <<buffer, fifoMutex, fifoStop, feeder, pipe>>
deviceVars == <<deviceMutex, ostreamMutex, ingress, egress, streamOut>>
loopVars == <<main, rc, nireq, niter, net, iireq, iterations>>
vars == <<scn, config, report, loopVars, queueVars, request, outputs, fifoVars, startQueue,
          starter, waitQueue, deviceVars>>

Nets == 1 .. scn.nets
Ids == 1 .. nireq
Streaming == scn.kind = "stream"

-----------------------------------------------------------------------------
(* Choosing the number of requests and iterations.                         *)

CpuOnly == [hetero |-> TRUE, list |-> <<"CPU">>]

\* -nireq (at most 1 on an ARM without an FPGA), or what the API and the
\* device suggest.
NumRequests(s) ==
    IF s.nireq > 1 /\ s.cmd.arm /\ DeviceName(s.cmd) = CpuOnly THEN 1
    ELSE IF s.nireq # 0 THEN s.nireq ELSE IF s.api = "sync" THEN 1 ELSE s.optimal

\* Requests outstanding per instance, rounded up.
NumOutstanding(s) == (NumRequests(s) * s.nets + s.instances - 1) \div s.instances

HwLimit(s) == (s.perInstance * s.instances) \div s.nets

\* The limit lowers the number of requests only when it was picked
\* automatically; a graph's own limit always does.  Without an FPGA there is
\* none.
LimitedRequests(s) ==
    LET n == IF s.nireq = 0 /\ s.api = "async"
             THEN Lesser(HwLimit(s), NumRequests(s)) ELSE NumRequests(s)
    IN  IF s.instances = 0 THEN NumRequests(s)
        ELSE IF s.maxRequests # 0 THEN Lesser(n, s.maxRequests) ELSE n

\* Too many graphs, or too many outstanding requests as counted before the
\* limit was applied.
RequestsRejected(s) ==
    /\ s.instances # 0
    /\ \/ s.perInstance * s.instances < s.nets
       \/ s.perInstance > 0 /\ NumOutstanding(s) > s.perInstance

\* niter rounded up to a multiple of nireq.
RoundedIterations(n, r) == ((n + r - 1) \div r) * r

-----------------------------------------------------------------------------
(* Filling the inputs.  A tensor is the files (or clips) its batch holds.  *)

\* Images that cannot be read are left out: the images after them move up.
CreateTensorFromImage(s, id, r) ==
    LET at(b) == (r * s.batch * s.inputs + id + b * s.inputs) % s.files
        read == SelectSeq([b \in 1 .. s.batch |-> at(b - 1)],
                          LAMBDA f : f \notin s.unreadable)
    IN [b \in 1 .. s.batch |-> IF b <= Len(read) THEN read[b] ELSE "zero"]

CreateTensorFromBinary(s, id, r) ==
    [b \in 1 .. s.batch |-> (r * s.batch * s.inputs + id + (b - 1) * s.inputs) % s.files]

\* A video is cut into one clip per element of the batch.
ClipStep(s) ==
    IF s.batch = 1 THEN s.clip
    ELSE IF s.frames < s.clip THEN 1
    ELSE LET d == (s.frames - s.clip) \div (s.batch - 1) IN IF d < 1 THEN 1 ELSE d

\* A clip that runs past the end of the video starts over at its own start.
Clip(s, start) == [f \in 1 .. s.clip |-> start + ((f - 1) % (s.frames - start))]

CreateTensorFromVideo(s, id, r) ==
    [b \in 1 .. s.batch |-> <<(r * s.inputs + id) % s.files,
                              Clip(s, (b - 1) * ClipStep(s))>>]

\* A clip that starts past the end has no frames, and frames_to_write.at
\* throws.
VideoTooShort(s) == s.kind = "video" /\ (s.batch - 1) * ClipStep(s) >= s.frames

\* One file per iteration, padded to the stream's word.
GetStreamingData(s, r) == r % s.files

\* The tensors of request number r, one per input of the graph; values that
\* do not depend on any file when there are none.
GetStaticTensors(s, r) ==
    [id \in 0 .. s.inputs - 1 |->
        CASE s.files = 0 -> "random"
          [] s.files # 0 /\ s.kind = "image" -> CreateTensorFromImage(s, id, r)
          [] s.files # 0 /\ s.kind = "video" -> CreateTensorFromVideo(s, id, r)
          [] s.files # 0 /\ s.kind = "binary" -> CreateTensorFromBinary(s, id, r)]

\* What iteration i feeds to the graph; a streamed input travels in chunks.
GetStreamingInputs(s, i) ==
    [k \in 1 .. Chunks |-> <<IF s.files = 0 THEN "random" ELSE GetStreamingData(s, i - 1), k>>]

Input(s, i) == IF s.kind = "stream" THEN GetStreamingInputs(s, i)
               ELSE GetStaticTensors(s, i - 1)

-----------------------------------------------------------------------------
Idle == [st |-> "idle", input |-> <<>>, slot |-> 0]

Init ==
    /\ scn \in Scenarios
    /\ main = "parse" /\ rc = 0
    /\ config = <<>> /\ report = <<>>
    /\ nireq = 0 /\ niter = 0
    /\ net = 1 /\ iireq = 1
    /\ iterations = <<>>
    /\ idleIds = <<>> /\ inferenceException = <<>>
    /\ request = <<>> /\ outputs = <<>>
    /\ buffer = 0 /\ fifoMutex = "none" /\ fifoStop = FALSE
    /\ feeder = [at |-> "none", written |-> 0] /\ pipe = <<>>
    /\ startQueue = <<>> /\ starter = "idle" /\ waitQueue = <<>>
    /\ deviceMutex = "none" /\ ostreamMutex = FALSE
    /\ ingress = <<>> /\ egress = <<>> /\ streamOut = <<>>

\* Nothing but main, its exit code and what it has decided or reported.
BeforeLoop == UNCHANGED <<scn, net, iireq, iterations, queueVars, request, outputs, fifoVars,
                          startQueue, starter, waitQueue, deviceVars>>

Exit(code) == main' = "exited" /\ rc' = code

\* A step of main ends the program with its code, or goes on to the next.
Step(code, next) == IF code = GoOn THEN main' = next /\ UNCHANGED rc ELSE Exit(code)

\* The spatial mode, or step 1: the command line.
ParseCommand ==
    /\ main = "parse"
    /\ IF scn.cmd.spatial THEN main' = "spatial" /\ UNCHANGED rc
       ELSE Step(ParseAndCheckCommandLine(scn.cmd), "configure")
    /\ UNCHANGED <<config, report, nireq, niter>>
    /\ BeforeLoop

\* run_spatial_benchmark: one image, classified.
RunSpatialBenchmark ==
    /\ main = "spatial"
    /\ \E failed \in SpatialCalls \cup {"none"} :
        LET code == SpatialChecks(scn.cmd.spatialFlags, failed)
        IN  /\ Exit(IF code = GoOn THEN 0 ELSE code)
            /\ report' = IF code = GoOn THEN [top |-> TopFive(scn.spatialScores)] ELSE report
    /\ UNCHANGED <<config, nireq, niter>>
    /\ BeforeLoop

\* The rest of step 1: where the process runs, batch and input files.
Configure ==
    /\ main = "configure"
    /\ Step(ConfigureChecks(scn.cmd), "device")
    /\ config' = [pinned |-> PinnedCpus(scn.cmd), files |-> SplitMultiInputFilesArguments(scn.cmd)]
    /\ UNCHANGED <<report, nireq, niter>>
    /\ BeforeLoop

\* Steps 2 and 3: the devices and their streams.
LoadPlugins ==
    /\ main = "device"
    /\ Step(DeviceChecks(scn.cmd), "load")
    /\ UNCHANGED <<config, report, nireq, niter>>
    /\ BeforeLoop

\* Steps 4 to 7: the models.
LoadModels ==
    /\ main = "load"
    /\ LET code == LoadChecks(scn.cmd)
           new == [pinned |-> config.pinned, files |-> config.files,
                   streams |-> ParseNStreamsValuePerDevice(scn.cmd),
                   directories |-> NetworkDirectories(scn.cmd),
                   inputs |-> [g \in Nets |-> GetInputsInfo(scn.cmd, scn.cmd.models[g].inputs)]]
       IN  Step(code, "setup") /\ config' = IF code = GoOn THEN new ELSE config
    /\ UNCHANGED <<report, nireq, niter>>
    /\ BeforeLoop

\* Step 8: requests and iterations; streaming is for one graph.
SetRuntimeParameters ==
    /\ main = "setup"
    /\ Step(FirstOf(<<<<RequestsRejected(scn), 1>>, <<Streaming /\ scn.nets > 1, 3>>>>), "reconfig")
    /\ nireq' = LimitedRequests(scn)
    /\ niter' = RoundedIterations(scn.niter, LimitedRequests(scn))
    /\ UNCHANGED <<config, report>>
    /\ BeforeLoop

\* Online reconfiguration, skipped where there are no on-chip parameters; with
\* no iterations it is all there is to do.
Reconfigure ==
    /\ main = "reconfig"
    /\ \E applied \in BOOLEAN :
        LET asked == OnlineReconfig(scn.cmd.args) # "none"
        IN  Step(FirstOf(<<<<asked /\ Streaming /\ ~applied, 1>>,
                           <<asked /\ scn.niter = 0, 0>>>>), "fill")
    /\ UNCHANGED <<config, report, nireq, niter>>
    /\ BeforeLoop

\* Step 9: the queues are created with every request idle, the inputs filled.
CreateRequests ==
    /\ main = "fill"
    /\ Step(FirstOf(<<<<VideoTooShort(scn), 3>>>>), IF Streaming THEN "feeder" ELSE "get")
    /\ iterations' = [g \in Nets |-> 0]
    /\ idleIds' = [g \in Nets |-> [i \in Ids |-> i]]
    /\ inferenceException' = [g \in Nets |-> FALSE]
    /\ request' = [g \in Nets |-> [i \in Ids |-> Idle]]
    /\ outputs' = [g \in Nets |-> <<>>]
    /\ UNCHANGED <<scn, config, report, nireq, niter, net, iireq, fifoVars, startQueue,
                   starter, waitQueue, deviceVars>>

\* The thread that feeds the FIFO is started.
StartFeeder ==
    /\ main = "feeder"
    /\ main' = "get"
    /\ feeder' = [at |-> "wait", written |-> 0]
    /\ UNCHANGED <<scn, config, report, rc, nireq, niter, net, iireq, iterations, queueVars, request,
                   outputs, buffer, fifoMutex, fifoStop, pipe, startQueue, starter,
                   waitQueue, deviceVars>>

-----------------------------------------------------------------------------
(* The measuring loop.                                                     *)

\* Does graph g run its requests with infer()?
RunsSync(g) == scn.api = "sync" \/ g \in scn.dynamic

Current == Head(idleIds[net])

\* get_idle_request rethrows a stored exception, else waits for an idle
\* request; the iteration's tensors are bound to it.
GetIdleRequest ==
    /\ main = "get"
    /\ UNCHANGED <<scn, config, report, rc, nireq, niter, net, iireq, iterations, inferenceException,
                   fifoVars, startQueue, starter, waitQueue, deviceVars>>
    /\ IF inferenceException[net]
       THEN main' = "catch" /\ UNCHANGED <<idleIds, request, outputs>>
       ELSE /\ idleIds[net] # <<>>
            /\ main' = IF Streaming THEN "feed" ELSE "run"
            /\ idleIds' = [idleIds EXCEPT ![net] = Tail(@)]
            /\ outputs' = IF net \in scn.dynamic THEN outputs
                          ELSE [outputs EXCEPT ![net] = Append(@, <<>>)]
            /\ request' = [request EXCEPT ![net][Current] =
                   [st |-> "held", slot |-> iterations[net] + 1,
                    input |-> IF Streaming THEN <<>> ELSE Input(scn, iterations[net] + 1)]]

\* The previous buffer must have been taken before the next one is queued.
FeedFifo ==
    /\ main = "feed" /\ fifoMutex = "none" /\ buffer = 0
    /\ main' = "run"
    /\ buffer' = iterations[net] + 1
    /\ UNCHANGED <<scn, config, report, rc, nireq, niter, net, iireq, iterations, queueVars, request,
                   outputs, fifoMutex, fifoStop, feeder, pipe, startQueue, starter,
                   waitQueue, deviceVars>>

Held == CHOOSE i \in Ids : request[net][i].st = "held"

\* The iteration is counted; nireq requests per graph, graph after graph,
\* until the last graph has done niter.
NextIteration ==
    /\ iterations' = [iterations EXCEPT ![net] = @ + 1]
    /\ iireq' = IF iireq < nireq THEN iireq + 1 ELSE 1
    /\ net' = IF iireq < nireq THEN net ELSE IF net < scn.nets THEN net + 1 ELSE 1
    /\ main' = IF iireq = nireq /\ net = scn.nets /\ iterations[net] + 1 >= niter
               THEN "waitAll" ELSE "get"

\* start_async, or infer() which blocks main until the request is done.
RunRequest ==
    /\ main = "run"
    /\ request' = [request EXCEPT ![net][Held].st = "queued"]
    /\ startQueue' = Append(startQueue, <<net, Held>>)
    /\ IF RunsSync(net)
       THEN main' = "infer" /\ UNCHANGED <<net, iireq, iterations>>
       ELSE NextIteration
    /\ UNCHANGED <<scn, config, report, rc, nireq, niter, queueVars, outputs, fifoVars, starter,
                   waitQueue, deviceVars>>

\* put_idle_request: a failed request keeps its id and its exception is
\* stored for the next get_idle_request or wait_all.
PutIdleRequest(g, id) ==
    IF request[g][id].st = "failed"
    THEN /\ inferenceException' = [inferenceException EXCEPT ![g] = TRUE]
         /\ request' = [request EXCEPT ![g][id].st = "lost"]
         /\ UNCHANGED idleIds
    ELSE /\ idleIds' = [idleIds EXCEPT ![g] = Append(@, id)]
         /\ request' = [request EXCEPT ![g][id].st = "idle"]
         /\ UNCHANGED inferenceException

\* infer() returns: the request is idle again and a dynamic output is
\* copied; or it throws, and its id is not returned.
InferReturns ==
    /\ main = "infer"
    /\ \E id \in Ids :
        /\ request[net][id].st \in {"done", "failed"}
        /\ IF request[net][id].st = "failed"
           THEN /\ main' = "catch"
                /\ request' = [request EXCEPT ![net][id].st = "lost"]
                /\ UNCHANGED <<queueVars, outputs, net, iireq, iterations>>
           ELSE /\ PutIdleRequest(net, id)
                /\ outputs' = IF net \in scn.dynamic
                              THEN [outputs EXCEPT ![net] = Append(@, request[net][id].input)]
                              ELSE outputs
                /\ NextIteration
    /\ UNCHANGED <<scn, config, report, rc, nireq, niter, fifoVars, startQueue, starter, waitQueue, deviceVars>>

\* wait_all, queue after queue.
WaitAll ==
    /\ main = "waitAll"
    /\ IF inferenceException[net]
       THEN main' = "catch" /\ UNCHANGED net
       ELSE /\ Len(idleIds[net]) = nireq
            /\ IF net < scn.nets THEN net' = net + 1 /\ UNCHANGED main
               ELSE main' = "stop" /\ UNCHANGED net
    /\ UNCHANGED <<scn, config, report, rc, nireq, niter, iireq, iterations, queueVars, request, outputs,
                   fifoVars, startQueue, starter, waitQueue, deviceVars>>

\* After the loop, or in its catch block with exit code 1: the feeder, if
\* there is one, is told to stop.
StopFeeder ==
    /\ main \in {"stop", "catch"}
    /\ rc' = IF main = "catch" THEN 1 ELSE rc
    /\ IF feeder.at = "none"
       THEN main' = (IF main = "catch" THEN "return" ELSE "report") /\ UNCHANGED fifoStop
       ELSE fifoMutex = "none" /\ fifoStop' = TRUE /\ main' = "join"
    /\ UNCHANGED <<scn, config, report, nireq, niter, net, iireq, iterations, queueVars, request, outputs,
                   buffer, fifoMutex, feeder, pipe, startQueue, starter, waitQueue, deviceVars>>

JoinFeeder ==
    /\ main = "join" /\ feeder.at = "exited"
    /\ main' = IF rc = 0 THEN "report" ELSE "return"
    /\ UNCHANGED <<scn, config, report, rc, nireq, niter, net, iireq, iterations, queueVars, request,
                   outputs, fifoVars, startQueue, starter, waitQueue, deviceVars>>

\* The n-th image inferred by graph g.
Result(g, n) ==
    LET tensor == outputs[g][((n - 1) \div scn.batch) + 1]
    IN  IF Streaming THEN tensor[1][1]
        ELSE IF scn.files = 0 THEN "random" ELSE tensor[0][((n - 1) % scn.batch) + 1]

\* The files of graph g in the order of its -i argument.
FileOf(g, f) == IF scn.folders = <<>> THEN f ELSE scn.folders[g][f + 1]

Results(g) == [n \in 1 .. niter * scn.batch |-> FileOf(g, Result(g, n))]

\* What is left of the exit code by the dumps and the accuracy checks: an
\* exception ends them, exit() the program.
ReportCode ==
    FirstOf(<<<<scn.dump /\ \E g \in Nets : MetaError(config.inputs[g]), 3>>,
              <<scn.truth # <<>> /\ scn.cmd.ap /\ ValidationError(scn), 1>>,
              <<scn.truth # <<>> /\ ~scn.cmd.ap, TopCodes(scn, [g \in Nets |-> Results(g)])>>>>)

Validated == scn.cmd.ap /\ scn.truth # <<>>

Report ==
    /\ main = "report"
    /\ \E code \in {ReportCode} :
        /\ rc' = IF code = GoOn THEN 0 ELSE code
        /\ main' = CASE rc' = 1 -> "exited"
                     [] rc' = 0 /\ Validated -> "validate"
                     [] OTHER -> "return"
        /\ report' = IF code \in {1, 3} THEN report ELSE
          [text |-> [g \in Nets |-> IF scn.dump THEN DumpText(scn, Results(g), niter) ELSE <<>>],
           bins |-> [g \in Nets |-> IF scn.dump THEN DumpBin(scn, Results(g), niter) ELSE <<>>],
           csv |-> IF scn.dump THEN CsvCompleted(scn.csv) ELSE scn.csv,
           fps |-> Throughput(scn, iterations[scn.nets]),
           seen |-> 0,
           stats |-> [g \in Nets |-> IF Validated THEN NoStatistics(scn) ELSE <<>>],
           ap |-> <<>>]
    /\ UNCHANGED <<config, nireq, niter>>
    /\ BeforeLoop

\* validate_yolo_wrapper, image after image of graph after graph ...
ValidateImage ==
    /\ main = "validate" /\ report.seen < scn.nets * Evaluated(scn)
    /\ LET g == (report.seen \div Evaluated(scn)) + 1
           n == (report.seen % Evaluated(scn)) + 1
           image == SourceImage(scn, g, n)
       IN  \E values \in {ImageValues(scn, Results(g), n, scn.heads)} :
           \E boxes \in {ParseBoxes(scn.yolo, values)} :
           \E raw \in {FilterBoxes(scn.yolo, boxes, image, scn.sigmoid)} :
           \E found \in {ClipBox(Nms(scn.yolo, raw), image)} :
           \E new \in {ImageStatistics(scn, found, g, n)} :
             report' = [report EXCEPT !.seen = @ + 1, !.stats[g] =
                          [t \in Thresholds |-> MetricsUpdate(scn.yolo, <<@[t], new[t]>>)]]
    /\ UNCHANGED <<config, main, rc, nireq, niter>>
    /\ BeforeLoop

\* ... and what is printed of each graph.
ReportPrecision ==
    /\ main = "validate" /\ report.seen = scn.nets * Evaluated(scn)
    /\ main' = "return"
    /\ report' = [report EXCEPT !.ap = [g \in Nets |-> EvaluateYolo(scn, report.stats[g])]]
    /\ UNCHANGED <<config, rc, nireq, niter>>
    /\ BeforeLoop

\* ~InferRequestsQueue: requests.clear() waits for their tasks.
RequestsCleared ==
    \A g \in Nets, i \in Ids : request[g][i].st \in {"idle", "held", "lost"}

\* main returns and the queues are destroyed.
DestroyQueues ==
    /\ main = "return" /\ RequestsCleared
    /\ main' = "exited"
    /\ UNCHANGED <<scn, config, report, rc, nireq, niter, net, iireq, iterations, queueVars, request,
                   outputs, fifoVars, startQueue, starter, waitQueue, deviceVars>>

-----------------------------------------------------------------------------
(* The feeder thread.                                                      *)

\* Woken with a buffer, it holds fifo_mutex while it writes; or it stops.
FeederWakes ==
    /\ feeder.at = "wait" /\ fifoMutex = "none"
    /\ \/ /\ fifoStop
          /\ feeder' = [feeder EXCEPT !.at = "exited"]
          /\ UNCHANGED fifoMutex
       \/ /\ ~fifoStop /\ buffer # 0
          /\ feeder' = [at |-> "write", written |-> 0]
          /\ fifoMutex' = "feeder"
    /\ UNCHANGED <<scn, config, report, loopVars, queueVars, request, outputs, buffer, fifoStop, pipe,
                   startQueue, starter, waitQueue, deviceVars>>

\* write blocks while the FIFO is full.
FeederWrites ==
    /\ feeder.at = "write" /\ feeder.written < Chunks /\ Len(pipe) < PipeRoom
    /\ pipe' = Append(pipe, Input(scn, buffer)[feeder.written + 1])
    /\ feeder' = [feeder EXCEPT !.written = @ + 1]
    /\ UNCHANGED <<scn, config, report, loopVars, queueVars, request, outputs, buffer, fifoMutex, fifoStop,
                   startQueue, starter, waitQueue, deviceVars>>

\* Variant with a mistake: the buffer is not marked as taken.
FeederWrittenKeeps ==
    /\ feeder.at = "write" /\ feeder.written = Chunks
    /\ feeder' = [at |-> "wait", written |-> 0]
    /\ fifoMutex' = "none"
    /\ UNCHANGED <<scn, config, report, loopVars, queueVars, request, outputs, buffer, fifoStop, pipe,
                   startQueue, starter, waitQueue, deviceVars>>

FeederWritten ==
    /\ feeder.at = "write" /\ feeder.written = Chunks
    /\ feeder' = [at |-> "wait", written |-> 0]
    /\ buffer' = 0
    /\ fifoMutex' = "none"
    /\ UNCHANGED <<scn, config, report, loopVars, queueVars, request, outputs, fifoStop, pipe,
                   startQueue, starter, waitQueue, deviceVars>>

-----------------------------------------------------------------------------
(* The thread of the runtime that starts requests, one after the other.    *)

\* Started: on to the thread that waits for it.
Started(job) ==
    /\ startQueue' = Tail(startQueue)
    /\ waitQueue' = Append(waitQueue, job)
    /\ request' = [request EXCEPT ![job[1]][job[2]].st = "started"]

\* LoadInputFeatureToDDR and StartDla of a job without streaming: the input
\* is in the job's own buffer and the descriptor queued.
StartDla ==
    /\ startQueue # <<>> /\ ~Streaming
    /\ Started(Head(startQueue))
    /\ UNCHANGED <<scn, config, report, loopVars, queueVars, outputs, fifoVars, starter, deviceVars>>

\* stream_in_data takes the device's mutex for the whole input ...
StreamInData ==
    /\ startQueue # <<>> /\ Streaming /\ starter = "idle" /\ deviceMutex = "none"
    /\ starter' = "in" /\ deviceMutex' = "starter"
    /\ UNCHANGED <<scn, config, report, loopVars, queueVars, request, outputs, fifoVars, startQueue,
                   waitQueue, ostreamMutex, ingress, egress, streamOut>>

\* ... and reads it from the FIFO and sends it chunk by chunk.
StreamInChunk ==
    /\ starter = "in" /\ pipe # <<>>
    /\ pipe' = Tail(pipe)
    /\ IF Len(ingress) + 1 < Chunks
       THEN /\ ingress' = Append(ingress, Head(pipe))
            /\ UNCHANGED <<egress, deviceMutex, starter>>
       ELSE /\ ingress' = <<>>
            /\ egress' = Append(egress, Append(ingress, Head(pipe)))
            /\ deviceMutex' = "none" /\ starter' = "lock"
    /\ UNCHANGED <<scn, config, report, loopVars, queueVars, request, outputs, buffer, fifoMutex, fifoStop,
                   feeder, startQueue, waitQueue, ostreamMutex, streamOut>>

\* Variant with a mistake: StartDla does not wait for the lock.
AcquireOstreamLockSkipped ==
    /\ starter = "lock"
    /\ starter' = "out" /\ ostreamMutex' = TRUE
    /\ UNCHANGED <<scn, config, report, loopVars, queueVars, request, outputs, fifoVars, startQueue,
                   waitQueue, deviceMutex, ingress, egress, streamOut>>

AcquireOstreamLock ==
    /\ starter = "lock" /\ ~ostreamMutex
    /\ starter' = "out" /\ ostreamMutex' = TRUE
    /\ UNCHANGED <<scn, config, report, loopVars, queueVars, request, outputs, fifoVars, startQueue,
                   waitQueue, deviceMutex, ingress, egress, streamOut>>

\* stream_out_data: the result of the oldest input replaces the buffer.
StreamOutData ==
    /\ starter = "out" /\ deviceMutex = "none" /\ egress # <<>>
    /\ streamOut' = Head(egress) /\ egress' = Tail(egress)
    /\ starter' = "idle"
    /\ Started(Head(startQueue))
    /\ UNCHANGED <<scn, config, report, loopVars, queueVars, outputs, fifoVars, deviceMutex, ostreamMutex, ingress>>

-----------------------------------------------------------------------------
(* The thread that waits for started requests, and the callbacks.          *)

\* WaitForDla returns and the output is read into the request's tensor,
\* from the job's buffer or, releasing the ostream lock, from the MMD's.
WaitAndRead ==
    /\ waitQueue # <<>>
    /\ Streaming => deviceMutex = "none"
    /\ LET g == Head(waitQueue)[1]
           id == Head(waitQueue)[2]
           data == IF Streaming THEN streamOut ELSE request[g][id].input
       IN /\ request' = [request EXCEPT ![g][id].st = "done", ![g][id].input = data]
          /\ outputs' = IF g \in scn.dynamic THEN outputs
                        ELSE [outputs EXCEPT ![g][request[g][id].slot] = data]
    /\ ostreamMutex' = FALSE
    /\ waitQueue' = Tail(waitQueue)
    /\ UNCHANGED <<scn, config, report, loopVars, queueVars, fifoVars, startQueue, starter, deviceMutex,
                   ingress, egress, streamOut>>

\* WaitForDla times out and throws: the output is not read, and whoever
\* holds the ostream lock keeps it.
WaitThrows ==
    /\ waitQueue # <<>> /\ scn.faults
    /\ request' = [request EXCEPT ![Head(waitQueue)[1]][Head(waitQueue)[2]].st = "failed"]
    /\ waitQueue' = Tail(waitQueue)
    /\ UNCHANGED <<scn, config, report, loopVars, queueVars, outputs, fifoVars, startQueue, starter, deviceVars>>

\* The callback of a request started with start_async.
Callback ==
    \E g \in DOMAIN request, id \in Ids :
        /\ request[g][id].st \in {"done", "failed"} /\ ~RunsSync(g)
        /\ PutIdleRequest(g, id)
        /\ UNCHANGED <<scn, config, report, loopVars, outputs, fifoVars, startQueue, starter, waitQueue, deviceVars>>

-----------------------------------------------------------------------------
MainStep == \/ ParseCommand \/ RunSpatialBenchmark \/ Configure \/ LoadPlugins \/ LoadModels
            \/ SetRuntimeParameters \/ Reconfigure \/ CreateRequests \/ Report
            \/ ValidateImage \/ ReportPrecision
            \/ StartFeeder \/ GetIdleRequest \/ FeedFifo \/ RunRequest
            \/ InferReturns \/ WaitAll \/ StopFeeder \/ JoinFeeder \/ DestroyQueues
FeederStep == FeederWakes \/ FeederWrites \/ FeederWritten
StarterStep == \/ StartDla \/ StreamInData \/ StreamInChunk \/ AcquireOstreamLock
               \/ StreamOutData
WaiterStep == WaitAndRead \/ WaitThrows

Next == MainStep \/ FeederStep \/ StarterStep \/ WaiterStep \/ Callback

\* Every thread is scheduled again and again; the device answers or the wait
\* times out.
Fairness == /\ WF_vars(MainStep) /\ WF_vars(FeederStep) /\ WF_vars(StarterStep)
            /\ WF_vars(WaiterStep) /\ WF_vars(Callback)

Spec == Init /\ [][Next]_vars /\ Fairness

-----------------------------------------------------------------------------
\* The results are those of the input files in order: position p of a
\* graph's dumped output is the inference of file p (modulo the number of
\* files), whatever the order in which requests completed or were reused, and
\* a run with a failed inference is never reported as successful.
Expected(i) ==
    CASE scn.files = 0 -> Input(scn, i)
      [] Streaming /\ scn.files # 0 -> [k \in 1 .. Chunks |-> <<(i - 1) % scn.files, k>>]
      [] scn.kind \in {"image", "binary"} /\ scn.files # 0 ->
            [id \in 0 .. scn.inputs - 1 |-> [b \in 1 .. scn.batch |->
                (((i - 1) * scn.batch + b - 1) * scn.inputs + id) % scn.files]]
      [] OTHER -> Input(scn, i)

OutputsInPlace ==
    /\ main \in {"return", "exited"} /\ rc \in {0, 4}
    /\ scn.niter > 0 /\ ~scn.cmd.help /\ ~scn.cmd.spatial
    => \A g \in Nets : /\ Len(outputs[g]) = niter
                       /\ \A i \in 1 .. niter : outputs[g][i] = Expected(i)

\* Every range of lines in result_tensor_boundaries.txt is one whole output of
\* one image (for batches of one), and the text and binary dumps agree.
DumpsAgree(g) ==
    LET d == report.text[g]
        k(b) == ((b - 1) % Len(scn.outs)) + 1
        lines(b) == SubSeq(d.lines, d.bounds[b].first, d.bounds[b].last)
    IN  d.text =>
            /\ FlattenSeq(report.bins[g]) = d.lines
            /\ scn.batch = 1 => \A b \in DOMAIN d.bounds :
                   lines(b) = [x \in 1 .. scn.outs[k(b)] |->
                                  [image |-> Results(g)[((b - 1) \div Len(scn.outs)) + 1],
                                   output |-> k(b), element |-> x]]

\* Counted by rank, without the five best: the images with their label first,
\* and among the first five.
LabelsFound(g) ==
    LET scores == [n \in DOMAIN Results(g) |-> scn.scores[Results(g)[n]]]
        enough(n) == RankedWithin(scores, scn.truth[g], n) * 5 >= Len(scores)
    IN  enough(1) /\ enough(5)

\* The boxes found are those the network shows: a true positive for every
\* image whose object is where and what the annotation of that file says.
BoxesFound(g) ==
    LET stats == report.stats[g][50]
        right == {n \in 1 .. Evaluated(scn) :
                    scn.shown[Results(g)[n]] = scn.annotated[scn.listed[g][n]]}
        hits == FlattenSeq([c \in 1 .. scn.yolo.classes |->
                    SelectSeq(stats[c - 1].found, LAMBDA f : f.tp)])
    IN  /\ Len(hits) = Cardinality(right)
        /\ Cardinality(right) = Evaluated(scn) =>
               report.ap[g].map.sum = 60 * 11 * report.ap[g].map.classes

\* What a run writes is what it inferred: the dumps can be read back by their
\* boundaries, exit code 4 is returned exactly when the labels of a graph's
\* images are not found among its results, and average precision compares each
\* image of each graph, in whatever batch and iteration it was inferred, with
\* its own annotation.  It is not so of graphs whose images differ in size: the
\* boxes of all are scaled by the first graph's (see SizesScenarios).
ReportedAsRun ==
    main = "exited" /\ report # <<>> =>
        IF scn.cmd.spatial
        THEN {report.top[i].label : i \in DOMAIN report.top}
               = {l \in 0 .. Len(scn.spatialScores) - 1 : Rank(scn.spatialScores, l) <= 5}
        ELSE /\ scn.dump => \A g \in Nets : DumpsAgree(g)
             /\ ~scn.cmd.ap => (rc = 4 <=> \E g \in Nets : g <= Len(scn.truth) /\ ~LabelsFound(g))
             /\ Validated => \A g \in Nets : BoxesFound(g)

\* The benchmark always returns: main, feeder, FIFO, ostream lock and
\* device mutex never wait for each other in a circle.
BenchmarkEnds == <>(main = "exited")

=============================================================================
