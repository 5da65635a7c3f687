---------------------------- MODULE BenchmarkReport ---------------------------
(***************************************************************************)
(* What dla_benchmark's main writes after the measuring loop: the dump of  *)
(* the output tensors, the throughput, and the accuracy of the results.    *)
(* s is the command line and the files of the run.                         *)
(*                                                                         *)
(* results[n] stands for the n-th image inferred by a graph; s.outs are    *)
(* the sizes per image of the graph's outputs, sorted by name.  s.scores   *)
(* and s.heads are the values of these outputs for each image, one output  *)
(* after the other, and s.listed[g] the sorted input files of graph g.     *)
(***************************************************************************)
EXTENDS Accuracy, FiniteSets

-----------------------------------------------------------------------------
(* -dump_output.                                                           *)

\* The tensor of output k in iteration i: image after image of its batch.
Tensor(s, results, i, k) ==
    [x \in 1 .. s.batch * s.outs[k] |->
        [image |-> results[(i - 1) * s.batch + (x - 1) \div s.outs[k] + 1],
         output |-> k, element |-> ((x - 1) % s.outs[k]) + 1]]

\* result.txt and result_tensor_boundaries.txt, one output of one iteration
\* after the other.  The first output that is too large ends the text for
\* good.  The boundaries count the lines of one image of the batch.
DumpText(s, results, niter) ==
    LET fits(k) == s.batch * s.outs[k] * niter <= s.maxText
        step(d, p) ==
            IF ~d.text \/ ~fits(p[2]) THEN [d EXCEPT !.text = FALSE]
            ELSE [d EXCEPT !.lines = @ \o Tensor(s, results, p[1], p[2]),
                           !.bounds = Append(@, [output |-> p[2], first |-> d.next,
                                                 last |-> d.next + s.outs[p[2]] - 1]),
                           !.next = @ + s.outs[p[2]]]
        order == FlattenSeq([i \in 1 .. niter |-> [k \in DOMAIN s.outs |-> <<i, k>>]])
    IN  FoldLeft(step, [text |-> TRUE, lines |-> <<>>, bounds |-> <<>>, next |-> 1], order)

\* result_<i>.bin holds all outputs of iteration i.
DumpBin(s, results, niter) ==
    [i \in 1 .. niter |-> FlattenSeq([k \in DOMAIN s.outs |-> Tensor(s, results, i, k)])]

\* DumpResultMetaJSONFile throws if an input has not as many scales as means.
MetaError(info) == \E k \in DOMAIN info : Len(info[k].scale) # Len(info[k].mean)

\* append_value_if_incomplete_to_csv: a line that ends in a comma gets its last
\* value, white space behind the comma notwithstanding.
CsvCompleted(csv) ==
    LET text == SelectSeq(csv, LAMBDA ch : ch # " ")
    IN  IF text # <<>> /\ text[Len(text)] = "," THEN Append(csv, "fps") ELSE csv

-----------------------------------------------------------------------------
(* Throughput: images of all graphs, each taken to have done as many       *)
(* iterations as the last, and those of one instance.                      *)

Throughput(s, iteration) ==
    [images |-> s.nets * s.batch * iteration,
     instances |-> Lesser(s.instances, iteration)]

-----------------------------------------------------------------------------
(* -groundtruth_loc.                                                       *)

\* The values of the n-th image, cut out of the tensors of its iteration: from
\* every output the elements that are its own.
ImageValues(s, results, n, values) ==
    LET i == ((n - 1) \div s.batch) + 1
        offset(k) == ((n - 1) % s.batch) * s.outs[k]
        before(k) == FoldLeft(LAMBDA sum, size : sum + size, 0, SubSeq(s.outs, 1, k - 1))
        value(k, x) == LET e == Tensor(s, results, i, k)[offset(k) + x]
                       IN  values[e.image][before(e.output) + e.element]
        output(all, k) == FoldLeft(LAMBDA some, x : Append(some, value(k, x)), all,
                                   [x \in 1 .. s.outs[k] |-> x])
    IN  FoldLeft(output, <<>>, [k \in DOMAIN s.outs |-> k])

AllValues(s, results, count, values) ==
    FoldLeft(LAMBDA all, n : Append(all, ImageValues(s, results, n, values)), <<>>,
             [n \in 1 .. count |-> n])

\* Top-1 and top-5 of a graph: 0, 4 below the threshold, 3 for a label that
\* cannot be read.  A graph without a ground truth file is skipped.
TopCode(s, g, results) ==
    IF g > Len(s.truth) THEN 0
    ELSE IF Len(s.truth[g]) < Len(results) THEN 3
    ELSE IF \E values \in {AllValues(s, results, Len(results), s.scores)} :
                GetTopResults(values, s.truth[g])
    THEN 0 ELSE 4

\* The graphs in order; an exception ends the comparison, a failure does not.
TopCodes(s, results) ==
    LET step(code, g) == IF code = 3 THEN 3
                         ELSE IF TopCode(s, g, results[g]) = 0 THEN code
                         ELSE TopCode(s, g, results[g])
    IN  FoldLeft(step, 0, [g \in 1 .. s.nets |-> g])

\* validate_yolo_wrapper looks at the images of -niter iterations, before
\* rounding, and takes the sorted input files to be these images.
Evaluated(s) == s.niter * s.batch

ValidationError(s) == \E g \in 1 .. s.nets :
    \/ Len(s.listed[g]) < Evaluated(s)
    \/ DatasetError(s, s.listed[g], Evaluated(s)) # 0

\* The thresholds of pascal_voc_metric, and of coco_metric as far as it is used.
Thresholds == {50, 75}

\* The sizes of the images of every graph validated so far: set_runtime does
\* not empty the list between two graphs.
SourceImageSizes(s, g) ==
    FlattenSeq([h \in 1 .. g |-> [n \in 1 .. Evaluated(s) |-> s.sizes[s.listed[h][n]]]])

SourceImage(s, g, n) == [size |-> SourceImageSizes(s, g)[n], letterbox |-> s.letterbox]

\* The annotations of a graph's image n are those of its n-th file.
ImageStatistics(s, found, g, n) ==
    [t \in Thresholds |-> MatchPredictions(s.yolo, found, s.annotations[s.listed[g][n]], t)]

NoStatistics(s) ==
    [t \in Thresholds |-> [c \in 0 .. s.yolo.classes - 1 |-> [truths |-> 0, found |-> <<>>]]]

\* mAP at the threshold of pascal_voc_metric, and COCO AP for each of its own.
EvaluateYolo(s, stats) ==
    [map |-> MetricsEval(s.yolo, stats[50], 11),
     coco |-> [t \in Thresholds |-> MetricsEval(s.yolo, stats[t], 101)]]
=============================================================================
