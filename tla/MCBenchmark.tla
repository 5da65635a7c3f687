---------------------------- MODULE MCBenchmark ----------------------------
(* dla_benchmark, instantiated for TLC.                                    *)
EXTENDS Benchmark

-----------------------------------------------------------------------------
(* The command line of a plain run, and what other command lines change.   *)

Cpu == [hetero |-> TRUE, list |-> <<"CPU">>]
Fpga == [hetero |-> TRUE, list |-> <<"FPGA", "CPU">>]
Image == [image |-> TRUE, channels |-> 3, hasBatch |-> TRUE, batch |-> 1, dynamic |-> FALSE]
Net == [name |-> <<"net">>, exists |-> TRUE, aot |-> FALSE, device |-> Fpga, batch |-> 1,
        yolo |-> TRUE, quantized |-> FALSE, inputs |-> <<Image>>]
NoValues == [list |-> <<>>, rest |-> FALSE]
Given(name, values) == [list |-> <<[name |-> name, values |-> values]>>, rest |-> FALSE]
Core(part, capacity) == [part |-> part, capacity |-> capacity]

Spatial == [input |-> TRUE, resize |-> TRUE, config |-> TRUE, readable |-> TRUE,
            inputWidth |-> 32, outputWidth |-> 16, weights |-> TRUE, output |-> "made",
            writable |-> TRUE, golden |-> "readable"]

Cmd == [args |-> <<"flag", "word", "switch", "pair">>, help |-> FALSE, from |-> {"m"},
        models |-> <<Net, Net>>, api |-> "async", niter |-> 3, root |-> TRUE, plugins |-> "",
        defaultPlugins |-> TRUE, emulation |-> {}, ap |-> FALSE, yoloKnown |-> FALSE,
        outputDir |-> "made", perfEst |-> FALSE, additionalPerfEst |-> FALSE,
        profiler |-> FALSE, profilerBuilt |-> FALSE, affinity |-> "auto", arm |-> FALSE,
        cpus |-> <<Core("A55", 400), Core("A76", 1024)>>, b |-> 0, batchSize |-> 2,
        defaultBatch |-> 0, arch |-> "file", archFile |-> "", images |-> <<"dir">>,
        summary |-> FALSE, pcsort |-> "", jitBuilt |-> TRUE, device |-> Fpga,
        minSubgraphLayers |-> 1, nstreams |-> <<>>, streamDevices |-> {"CPU", "FPGA"},
        scale |-> NoValues, mean |-> NoValues, spatial |-> FALSE, spatialFlags |-> Spatial]

Graph == [Net EXCEPT !.aot = TRUE, !.inputs = <<[Image EXCEPT !.batch = 2]>>]

\* Command lines that do not reach the measuring loop.
Refused ==
    {[Cmd EXCEPT !.args = <<"switch", "word">>], [Cmd EXCEPT !.help = TRUE],
     [Cmd EXCEPT !.from = {}], [Cmd EXCEPT !.from = {"m", "network_file"}],
     [Cmd EXCEPT !.models[2].exists = FALSE], [Cmd EXCEPT !.from = {"cm"}],
     [Cmd EXCEPT !.api = "batch"], [Cmd EXCEPT !.root = FALSE],
     [Cmd EXCEPT !.defaultPlugins = FALSE], [Cmd EXCEPT !.plugins = "emulation"],
     [Cmd EXCEPT !.ap = TRUE], [Cmd EXCEPT !.outputDir = "uncreatable"],
     [Cmd EXCEPT !.additionalPerfEst = TRUE], [Cmd EXCEPT !.profiler = TRUE],
     [Cmd EXCEPT !.affinity = "small"], [Cmd EXCEPT !.archFile = "file"],
     [Cmd EXCEPT !.b = 2], [Cmd EXCEPT !.summary = TRUE, !.pcsort = "up"],
     [Cmd EXCEPT !.images = <<"missing">>], [Cmd EXCEPT !.images = <<"a", "b", "c">>],
     [Cmd EXCEPT !.jitBuilt = FALSE], [Cmd EXCEPT !.device.hetero = FALSE],
     [Cmd EXCEPT !.arch = "missing"], [Cmd EXCEPT !.minSubgraphLayers = 0],
     [Cmd EXCEPT !.nstreams = <<<<"GPU", 2>>>>], [Cmd EXCEPT !.nstreams = <<<<"CPU", 1, 2>>>>],
     [Cmd EXCEPT !.nstreams = <<<<4>>>>, !.streamDevices = {"CPU"}],
     [Cmd EXCEPT !.models[1].inputs[1].dynamic = TRUE],
     [Cmd EXCEPT !.models[1].inputs[1].hasBatch = FALSE],
     [Cmd EXCEPT !.scale.rest = TRUE], [Cmd EXCEPT !.models[1].quantized = TRUE],
     [Cmd EXCEPT !.ap = TRUE, !.yoloKnown = TRUE, !.models[2].yolo = FALSE],
     [Cmd EXCEPT !.from = {"cm"}, !.models = <<Graph, [Graph EXCEPT !.device = Cpu]>>],
     [Cmd EXCEPT !.from = {"cm"}, !.models = <<Graph, [Graph EXCEPT !.inputs[1].batch = 1]>>],
     [Cmd EXCEPT !.spatial = TRUE], [Cmd EXCEPT !.spatial = TRUE, !.spatialFlags.readable = FALSE],
     [Cmd EXCEPT !.spatial = TRUE, !.spatialFlags.inputWidth = 64],
     [Cmd EXCEPT !.spatial = TRUE, !.spatialFlags.golden = "unreadable"]}

-----------------------------------------------------------------------------
(* YOLO networks that show one object in a cell of a 2 x 2 grid.           *)

Yolo3 == [v8 |-> FALSE, grids |-> <<1, 2>>, classes |-> 2, input |-> <<8, 8>>, conf |-> 30,
          anchors |-> <<<<<<8, 8>>>>, <<<<4, 4>>>>>>, iou |-> 50, limit |-> 3]
Yolo8 == [Yolo3 EXCEPT !.v8 = TRUE]

\* Where element d of a YOLOv3 tensor belongs.
ElementOf(m, d) ==
    LET k == CHOOSE k \in DOMAIN m.grids :
                /\ PositionOffset(m)[k] * BoxSize(m) <= d
                /\ d < PositionOffset(m)[k + 1] * BoxSize(m)
        g == m.grids[k]
        i == d - PositionOffset(m)[k] * BoxSize(m)
    IN  [k |-> k, col |-> i % g, row |-> (i \div g) % g, v |-> (i \div (g * g)) % BoxSize(m)]

Show3(o) ==
    [d \in 1 .. TotalBoxes(Yolo3) * BoxSize(Yolo3) |->
        LET e == ElementOf(Yolo3, d - 1)
        IN  IF e.k # 2 \/ e.row # o.row \/ e.col # o.col THEN -1
            ELSE IF e.v < 4 THEN 0 ELSE IF e.v \in {4, 5 + o.cls} THEN 1 ELSE -1]

\* The box twice, the second time with a lower score.
Show8(o) ==
    LET box == <<4 * o.col + 2, 4 * o.row + 2, 4, 4>>
        score(p) == CASE p = 1 -> 80 [] p = 2 -> 60 [] OTHER -> 0
    IN  [d \in 1 .. TotalBoxes(Yolo8) * BoxSize(Yolo8) |->
            LET p == (d - 1) % TotalBoxes(Yolo8)
                v == ((d - 1) \div TotalBoxes(Yolo8)) + 1
            IN  IF v <= 4 THEN box[v] ELSE IF v = 5 + o.cls THEN score(p) ELSE 0]

\* The cell in an image of 4 x 4 that was stretched, or of 4 x 2 with bars above
\* and below.
Marked(o, letterbox) ==
    <<IF letterbox THEN Annotation(o.cls, 2 * o.col, o.row, 2, 1)
      ELSE Annotation(o.cls, 2 * o.col, 2 * o.row, 2, 2)>>

Object(row, col, cls) == [row |-> row, col |-> col, cls |-> cls]
Objects == [f \in 0 .. 11 |->
    <<Object(0, 1, 0), Object(1, 0, 1), Object(1, 1, 0), Object(0, 0, 1)>>[(f % 4) + 1]]

-----------------------------------------------------------------------------
\* Two graphs with two requests each on one instance, three iterations
\* rounded up to four.
Base == [nets |-> 2, nireq |-> 2, optimal |-> 2, api |-> "async", dynamic |-> {},
         instances |-> 1, perInstance |-> 5, maxRequests |-> 0, niter |-> 3, kind |-> "image",
         inputs |-> 1, files |-> 3, unreadable |-> {}, frames |-> 0, clip |-> 1,
         batch |-> 2, faults |-> FALSE, dump |-> FALSE, truth |-> <<>>, outs |-> <<2, 1>>,
         maxText |-> 100, csv |-> <<"x", ",", " ">>, spatialScores |-> <<3, 1, 9, 4, 7, 6, 8>>,
         scores |-> <<>>, yolo |-> <<>>, heads |-> <<>>, annotations |-> <<>>, shown |-> <<>>,
         annotated |-> <<>>, sizes |-> <<>>, listed |-> <<>>, folders |-> <<>>,
         letterbox |-> FALSE,
         sigmoid |-> TRUE]

With(s, c) ==
    s @@ [cmd |-> [c EXCEPT !.api = s.api, !.niter = s.niter, !.batchSize = s.batch,
                            !.models = [g \in 1 .. s.nets |-> c.models[1]]]]

\* One graph, one request, an iteration for every file.
Single == [Base EXCEPT !.nets = 1, !.nireq = 1, !.batch = 1]

Names(first, n) == [i \in 1 .. n |-> first + i - 1]
OutputSizes(m) == IF m.v8 THEN <<30>> ELSE <<7, 28>>

YoloRun(m, letterbox, shown) ==
    [Single EXCEPT !.yolo = m, !.shown = shown, !.annotated = Objects, !.outs = OutputSizes(m),
                   !.heads = [f \in 0 .. 11 |-> IF m.v8 THEN Show8(shown[f]) ELSE Show3(shown[f])],
                   !.annotations = [f \in 0 .. 11 |-> Marked(Objects[f], letterbox)],
                   !.sizes = [f \in 0 .. 11 |-> IF letterbox THEN <<4, 2>> ELSE <<4, 4>>],
                   !.listed = <<Names(0, 3)>>, !.letterbox = letterbox, !.truth = <<<<0>>>>]

\* Two graphs with files of their own, two requests, three batches of two.
YoloPair(m, shown) ==
    [YoloRun(m, FALSE, shown) EXCEPT !.nets = 2, !.nireq = 2, !.batch = 2, !.files = 6,
        !.api = "sync",
        !.listed = <<Names(0, 6), Names(6, 6)>>, !.folders = <<Names(0, 6), Names(6, 6)>>]

\* The images of the second graph are twice as large.
YoloSizes ==
    LET s == YoloRun(Yolo8, FALSE, Objects)
        large(o) == <<Annotation(o.cls, 4 * o.col, 4 * o.row, 4, 4)>>
    IN  [s EXCEPT !.nets = 2, !.listed = <<Names(0, 3), Names(6, 3)>>,
                  !.folders = <<Names(0, 3), Names(6, 3)>>,
                  !.sizes = [f \in 0 .. 11 |-> IF f < 6 THEN <<4, 4>> ELSE <<8, 8>>],
                  !.annotations = [f \in 0 .. 11 |->
                      IF f < 6 THEN Marked(Objects[f], FALSE) ELSE large(Objects[f])]]

Confused == [Objects EXCEPT ![1] = Object(0, 0, 1), ![2] = Object(1, 1, 1), ![8] = Object(0, 0, 0)]

Scores == [f \in 0 .. 2 |-> [l \in 1 .. 7 |-> (l * (f + 2)) % 7]]
Labelled(labels) ==
    [Single EXCEPT !.dump = TRUE, !.truth = labels, !.scores = Scores, !.outs = <<4, 3>>]

\* Two graphs, two requests, batches of two: eight images of three files.
LabelledPair(labels) ==
    [Base EXCEPT !.truth = labels, !.scores = Scores, !.outs = <<4, 3>>]

ApCmd == [Cmd EXCEPT !.ap = TRUE, !.yoloKnown = TRUE]
ReconfigCmd == [Cmd EXCEPT !.args = <<"reconfig", "switch">>]

MCScenarios ==
    {Base @@ [cmd |-> c] : c \in {c \in Refused : c.api = "async"}}
    \cup {[Base EXCEPT !.api = c.api] @@ [cmd |-> c] : c \in {c \in Refused : c.api # "async"}}
    \cup {With(YoloRun(m, letterbox, shown), ApCmd) :
            m \in {Yolo3, Yolo8}, letterbox \in BOOLEAN, shown \in {Objects, Confused}}
    \cup {With(s, ApCmd) : s \in {[YoloRun(Yolo8, FALSE, Objects) EXCEPT !.listed = <<<<0, 1>>>>],
                                  [YoloRun(Yolo8, FALSE, Objects) EXCEPT !.annotations = <<>>]}}
    \cup {With(Labelled(<<labels>>), Cmd) :
            labels \in {<<2, 1, 0>>, <<6, 6, 6>>, <<0, 0, 0>>, <<1>>}}
    \cup {With(YoloPair(m, Confused), ApCmd) : m \in {Yolo3, Yolo8}}
    \cup {With(LabelledPair(labels), Cmd) : labels \in
            {<<[n \in 1 .. 8 |-> 6]>>, <<[n \in 1 .. 8 |-> 6], <<2, 0, 0, 2, 0, 0, 0, 0>>>>}}
    \cup {With([Labelled(<<>>) EXCEPT !.nets = 3, !.niter = 1],
               [Cmd EXCEPT !.images = <<>>, !.nstreams = <<<<1>>, <<"CPU", 2>>>>]),
          With([Labelled(<<>>) EXCEPT !.maxText = 5], [Cmd EXCEPT !.from = {"cm"},
               !.models[1] = [Graph EXCEPT !.inputs[1].batch = 1], !.device = NoDevice]),
          With([Labelled(<<>>) EXCEPT !.batch = 2, !.niter = 2, !.maxRequests = 1, !.nireq = 3],
               [Cmd EXCEPT !.affinity = "big"]),
          With(Labelled(<<>>), [Cmd EXCEPT !.scale = Given(0, <<255>>)]),
          With([Single EXCEPT !.kind = "stream", !.niter = 0], ReconfigCmd),
          With([Single EXCEPT !.niter = 0], ReconfigCmd),
          With([Single EXCEPT !.kind = "stream", !.niter = 1], ReconfigCmd),
          With([Single EXCEPT !.instances = 0, !.nireq = 3],
               [Cmd EXCEPT !.arm = TRUE, !.device = NoDevice])}
    \cup {With(s, Cmd) : s \in
    {Base,
     [Base EXCEPT !.faults = TRUE],
     [Base EXCEPT !.dynamic = {2}, !.kind = "binary", !.inputs = 2, !.faults = TRUE],
     [Base EXCEPT !.api = "sync", !.faults = TRUE, !.nireq = 0],
     [Base EXCEPT !.nets = 1, !.kind = "video", !.frames = 3, !.clip = 2, !.niter = 2],
     [Base EXCEPT !.nets = 1, !.kind = "video", !.frames = 2, !.clip = 3, !.batch = 3],
     [Base EXCEPT !.files = 0, !.nireq = 0, !.optimal = 3, !.instances = 0, !.nets = 1],
     [Base EXCEPT !.nireq = 3], [Base EXCEPT !.kind = "stream"],
     [Base EXCEPT !.nets = 1, !.kind = "stream"],
     [Base EXCEPT !.nets = 1, !.kind = "stream", !.files = 2, !.api = "sync", !.nireq = 1],
     [Base EXCEPT !.nets = 1, !.kind = "stream", !.files = 5, !.nireq = 3, !.niter = 5]}}

\* Two graphs whose images differ in size.
SizesScenarios == {With(YoloSizes, ApCmd)}
=============================================================================
