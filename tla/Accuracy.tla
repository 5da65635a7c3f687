------------------------------ MODULE Accuracy ------------------------------
(***************************************************************************)
(* The accuracy checks that dla_benchmark makes after the inferences: the  *)
(* top-1/top-5 count, and mean average precision for YOLO networks.        *)
(*                                                                         *)
(* Scores are percents and coordinates are in units of 1/200 pixel, so     *)
(* that every division below is exact on the inputs considered.  A model   *)
(* m is a row of yolo_meta: v8, grids, anchors (a function of the grid),   *)
(* classes, input (its width and height), and the thresholds conf, iou and *)
(* limit.                                                                  *)
(***************************************************************************)
EXTENDS Integers, Sequences, SequencesExt

Pixel == 200
Lesser(a, b) == IF a < b THEN a ELSE b
Greater(a, b) == IF a > b THEN a ELSE b

\* sigmoid and exp of the raw values -1, 0 and 1, in percent.
Sigmoid(v) == CASE v < 0 -> 27 [] v = 0 -> 50 [] v > 0 -> 73
Exp(v) == CASE v < 0 -> 37 [] v = 0 -> 100 [] v > 0 -> 272

-----------------------------------------------------------------------------
(* From the output tensor, flattened, to boxes.                            *)

AnchorsPerCell(m) == IF m.v8 THEN 1 ELSE Len(m.anchors[m.grids[1]])
BoxSize(m) == m.classes + IF m.v8 THEN 4 ELSE 5

\* Boxes of the grids before grid k.
PositionOffset(m) ==
    LET f[k \in 1 .. Len(m.grids) + 1] ==
            IF k = 1 THEN 0
            ELSE f[k - 1] + m.grids[k - 1] * m.grids[k - 1] * AnchorsPerCell(m)
    IN  f
TotalBoxes(m) == PositionOffset(m)[Len(m.grids) + 1]

\* Box p holds every TotalBoxes-th value from the p-th on.
ParseYolov8(m, values) ==
    [p \in 0 .. TotalBoxes(m) - 1 |->
        [v \in 0 .. BoxSize(m) - 1 |-> values[p + TotalBoxes(m) * v + 1]]]

\* Variant with a mistake: rows and columns of the grid are exchanged.
ParseYolov3Transposed(m, values) ==
    LET cell(k, p) ==
            LET g == m.grids[k]
                n == (p - PositionOffset(m)[k]) \div (g * g)
                row == ((p - PositionOffset(m)[k]) \div g) % g
                col == (p - PositionOffset(m)[k]) % g
            IN  [v \in 0 .. BoxSize(m) - 1 |->
                    values[PositionOffset(m)[k] * BoxSize(m) + n * BoxSize(m) * g * g
                           + v * g * g + col * g + row + 1]]
    IN  [p \in 0 .. TotalBoxes(m) - 1 |->
            LET k == CHOOSE k \in DOMAIN m.grids :
                        PositionOffset(m)[k] <= p /\ p < PositionOffset(m)[k + 1]
            IN  cell(k, p)]

\* Grid after grid, the tensor is [anchor, value, row, column]; the boxes are
\* numbered by grid, anchor, row and column.
ParseYolov3(m, values) ==
    LET cell(k, p) ==
            LET g == m.grids[k]
                n == (p - PositionOffset(m)[k]) \div (g * g)
                row == ((p - PositionOffset(m)[k]) \div g) % g
                col == (p - PositionOffset(m)[k]) % g
            IN  [v \in 0 .. BoxSize(m) - 1 |->
                    values[PositionOffset(m)[k] * BoxSize(m) + n * BoxSize(m) * g * g
                           + v * g * g + row * g + col + 1]]
    IN  [p \in 0 .. TotalBoxes(m) - 1 |->
            LET k == CHOOSE k \in DOMAIN m.grids :
                        PositionOffset(m)[k] <= p /\ p < PositionOffset(m)[k + 1]
            IN  cell(k, p)]

\* The class with the largest score, the first of several.
GetMaxLabel(m, box) ==
    LET at(c) == box[BoxSize(m) - m.classes + c]
    IN  CHOOSE c \in 0 .. m.classes - 1 :
            /\ \A d \in 0 .. m.classes - 1 : at(d) <= at(c)
            /\ \A d \in 0 .. c - 1 : at(d) < at(c)

\* A point of the model's input back in the image: the image was stretched,
\* or scaled by one factor and padded on both sides.
ScaleBack(m, image, axis, v) == (v * image.size[axis]) \div m.input[axis]

Unpad(m, image, axis, v) ==
    LET byWidth == m.input[1] * image.size[2] <= m.input[2] * image.size[1]
        num == IF byWidth THEN m.input[1] ELSE m.input[2]
        den == IF byWidth THEN image.size[1] ELSE image.size[2]
        pad == (Pixel * (m.input[axis] * den - image.size[axis] * num)) \div (2 * den)
    IN  [centre |-> ((v - pad) * den) \div num, length |-> (v * den) \div num]

ToImage(m, image, axis, centre, length) ==
    LET c == IF image.letterbox THEN Unpad(m, image, axis, centre).centre
             ELSE ScaleBack(m, image, axis, centre)
        l == IF image.letterbox THEN Unpad(m, image, axis, length).length
             ELSE ScaleBack(m, image, axis, length)
    IN  [min |-> c - l \div 2, max |-> c + l \div 2]

Prediction(m, image, x, y, w, h, label, score) ==
    [x |-> ToImage(m, image, 1, x, w), y |-> ToImage(m, image, 2, y, h),
     cls |-> label, score |-> score]

\* YOLOv8 predicts centre and size in pixels of the model's input.
ResizeAndFilterYolov8(m, boxes, image) ==
    LET score(p) == boxes[p][4 + GetMaxLabel(m, boxes[p])]
        order == [p \in 1 .. TotalBoxes(m) |-> p - 1]
        kept == SelectSeq(order, LAMBDA p : score(p) >= m.conf)
        at(p, v) == boxes[p][v] * Pixel
    IN  [i \in DOMAIN kept |->
            Prediction(m, image, at(kept[i], 0), at(kept[i], 1), at(kept[i], 2),
                       at(kept[i], 3), GetMaxLabel(m, boxes[kept[i]]), score(kept[i]))]

\* YOLOv3 predicts an offset in the grid cell and a factor on the anchor; the
\* boxes are visited by grid, column, row and anchor.
ResizeAndFilterYolov3(m, boxes, image, sigmoid) ==
    LET A == AnchorsPerCell(m)
        percent(v) == IF sigmoid THEN Sigmoid(v) ELSE v
        visit(j) ==
            LET k == CHOOSE k \in DOMAIN m.grids :
                        PositionOffset(m)[k] <= j /\ j < PositionOffset(m)[k + 1]
                g == m.grids[k]
                i == j - PositionOffset(m)[k]
                n == i % A
                y == (i \div A) % g
                x == i \div (A * g)
                box == boxes[PositionOffset(m)[k] + n * g * g + y * g + x]
                label == GetMaxLabel(m, box)
                confidence == percent(box[4])
            IN  [grid |-> g, n |-> n + 1, x |-> x, y |-> y, box |-> box,
                 label |-> label, confidence |-> confidence,
                 score |-> (confidence * percent(box[5 + label])) \div 100]
        kept == SelectSeq([j \in 1 .. TotalBoxes(m) |-> visit(j - 1)],
                          LAMBDA c : c.confidence >= m.conf /\ c.score >= m.conf)
        centre(c, v, cell, axis) ==
            ((percent(c.box[v]) + 100 * cell) * m.input[axis] * Pixel) \div (100 * c.grid)
        length(c, v, axis) ==
            (Exp(c.box[v]) * m.anchors[c.grid][c.n][axis] * Pixel) \div 100
    IN  [i \in DOMAIN kept |->
            LET c == kept[i]
            IN  Prediction(m, image, centre(c, 0, c.x, 1), centre(c, 1, c.y, 2),
                           length(c, 2, 1), length(c, 3, 2), c.label, c.score)]

-----------------------------------------------------------------------------
(* Overlap, suppression and clipping.                                      *)

\* intersection_over_union, as the two areas; coordinates are inclusive.
Overlap(a, b) ==
    LET common(s, t) == Greater(0, Lesser(s.max, t.max) - Greater(s.min, t.min) + Pixel)
        area(c) == (c.x.max - c.x.min + Pixel) * (c.y.max - c.y.min + Pixel)
        inter == common(a.x, b.x) * common(a.y, b.y)
    IN  [inter |-> inter, union |-> area(a) + area(b) - inter]

Iou(a, b) == LET o == Overlap(a, b) IN IF o.union > 0 THEN (100 * o.inter) \div o.union ELSE 0

\* Predictions by descending score.
ArgsortGt(predictions) == SortSeq(predictions, LAMBDA p, q : p.score > q.score)

\* Class-aware suppression: a box that was kept suppresses the worse boxes of
\* its class that overlap it by more than the threshold; the best limit boxes
\* stay.
Nms(m, predictions) ==
    LET keep(kept, p) ==
            IF \E i \in DOMAIN kept : kept[i].cls = p.cls /\ Iou(kept[i], p) > m.iou
            THEN kept ELSE Append(kept, p)
        kept == FoldLeft(keep, <<>>, ArgsortGt(predictions))
    IN  SubSeq(kept, 1, Lesser(Len(kept), m.limit))

ClipBox(predictions, image) ==
    LET clip(v, axis) == Greater(0, Lesser(v, image.size[axis] * Pixel))
        within(s, axis) == [min |-> clip(s.min, axis), max |-> clip(s.max, axis)]
    IN  [i \in DOMAIN predictions |->
            [predictions[i] EXCEPT !.x = within(@, 1), !.y = within(@, 2)]]

-----------------------------------------------------------------------------
(* Matching with the ground truth, and average precision.                  *)

Annotation(class, x, y, w, h) ==
    [cls |-> class, x |-> [min |-> x * Pixel, max |-> (x + w) * Pixel],
     y |-> [min |-> y * Pixel, max |-> (y + h) * Pixel]]

\* The first of the boxes of the class that overlap p most, or 0.
MostOverlapped(p, truth) ==
    LET mine == {t \in DOMAIN truth : truth[t].cls = p.cls /\ Iou(p, truth[t]) > 0}
        best == {t \in mine : \A u \in mine : Iou(p, truth[u]) <= Iou(p, truth[t])}
    IN  IF mine = {} THEN 0 ELSE CHOOSE t \in best : \A u \in best : t <= u

\* mean_average_precision of one image: per class with ground truth, what
\* every prediction of that class was, in the order of the scores.  A
\* ground-truth box is matched once.
MatchPredictions(m, predictions, truth, thresh) ==
    LET hit(class, acc, p) ==
            LET t == MostOverlapped(p, truth)
                ok == t # 0 /\ Iou(p, truth[t]) >= thresh /\ t \notin acc.matched
            IN  IF p.cls # class THEN acc
                ELSE [matched |-> IF ok THEN acc.matched \cup {t} ELSE acc.matched,
                      found |-> Append(acc.found, [score |-> p.score, tp |-> ok])]
    IN  [c \in 0 .. m.classes - 1 |->
            LET truths == {t \in DOMAIN truth : truth[t].cls = c}
                take(acc, p) == hit(c, acc, p)
            IN  [truths |-> Cardinality(truths),
                 found |-> IF truths = {} THEN <<>>
                           ELSE FoldLeft(take, [matched |-> {}, found |-> <<>>],
                                         ArgsortGt(predictions)).found]]

\* metrics_update: the images' statistics one after the other.
MetricsUpdate(m, images) ==
    [c \in 0 .. m.classes - 1 |->
        FoldLeft(LAMBDA acc, s : [truths |-> acc.truths + s[c].truths,
                                  found |-> acc.found \o s[c].found],
                 [truths |-> 0, found |-> <<>>], images)]

\* Area under the precision/recall curve from interval samples of the best
\* precision at or above each recall (tps of truths), in units of 1 / (60 * interval).
AveragePrecision(precision, tps, truths, interval) ==
    LET best(point) ==
            LET reached == {i \in DOMAIN precision : tps[i] * (interval - 1) >= point * truths}
            IN  IF reached = {} THEN 0
                ELSE CHOOSE v \in {precision[i] : i \in reached} :
                        \A i \in reached : precision[i] <= v
    IN  FoldLeft(LAMBDA sum, point : sum + best(point - 1), 0, [i \in 1 .. interval |-> i])

\* metrics_eval: the classes that have predictions, and the sum of their AP.
MetricsEval(m, stats, interval) ==
    LET seen == {c \in 0 .. m.classes - 1 : stats[c].found # <<>>}
        ap(s) == LET order == ArgsortGt(s.found)
                     tps == [i \in DOMAIN order |-> Cardinality({j \in 1 .. i : order[j].tp})]
                 IN  AveragePrecision([i \in DOMAIN order |-> (60 * tps[i]) \div i],
                                      tps, s.truths, interval)
        sum[C \in SUBSET seen] ==
            IF C = {} THEN 0
            ELSE LET c == CHOOSE c \in C : TRUE
                 IN  sum[C \ {c}] + IF stats[c].truths = 0 THEN 0 ELSE ap(stats[c])
    IN  [classes |-> Cardinality(seen), sum |-> sum[seen]]

\* validate_yolo: from an image's output tensor to the boxes that survive.
ParseBoxes(m, values) == IF m.v8 THEN ParseYolov8(m, values) ELSE ParseYolov3(m, values)

FilterBoxes(m, boxes, image, sigmoid) ==
    IF m.v8 THEN ResizeAndFilterYolov8(m, boxes, image)
    ELSE ResizeAndFilterYolov3(m, boxes, image, sigmoid)

\* collect_validation_dataset for the first n of the sorted files: enough
\* annotations, one for each image, and an image that can be read.
DatasetError(v, files, n) ==
    IF Cardinality(DOMAIN v.annotations) < n THEN -1
    ELSE IF \A i \in 1 .. n : files[i] \in DOMAIN v.annotations /\ files[i] \notin v.unreadable
    THEN 0
    ELSE LET first == CHOOSE i \in 1 .. n :
                /\ files[i] \notin DOMAIN v.annotations \/ files[i] \in v.unreadable
                /\ \A j \in 1 .. i - 1 : files[j] \in DOMAIN v.annotations
                                         /\ files[j] \notin v.unreadable
         IN  IF files[first] \notin DOMAIN v.annotations THEN -2 ELSE -4

-----------------------------------------------------------------------------
(* Top-1 and top-5.                                                        *)

\* The five best, found by replacing the least of five; best first.
TopFive(scores) ==
    LET n == Lesser(5, Len(scores))
        first == [i \in 1 .. n |-> [label |-> i - 1, score |-> scores[i]]]
        least(top) == CHOOSE j \in 1 .. n :
                        /\ \A k \in 1 .. n : top[j].score <= top[k].score
                        /\ \A k \in 1 .. j - 1 : top[j].score < top[k].score
        step(top, i) == [j \in 1 .. n |->
                            IF j = least(top) /\ scores[i] > top[j].score
                            THEN [label |-> i - 1, score |-> scores[i]] ELSE top[j]]
    IN  ArgsortGt(FoldLeft(step, first, [k \in 1 .. Len(scores) - n |-> n + k]))

\* get_top_results: enough of the images have their label first, and among
\* the first five (a network with fewer outputs counts all but its last).
GetTopResults(results, truth) ==
    LET size == Len(results[1])
        top1 == {i \in DOMAIN results : TopFive(results[i])[1].label = truth[i]}
        top5 == {i \in DOMAIN results : \E j \in DOMAIN TopFive(results[i]) :
                    j < size /\ TopFive(results[i])[j].label = truth[i]}
        passes(S) == Cardinality(S) * 100 >= 20 * Len(results)
    IN  passes(top1) /\ passes(top5)

-----------------------------------------------------------------------------
(* References for the operators above, stated differently.                 *)

\* Rank of a label among the scores of an image.
Rank(scores, label) == 1 + Cardinality({i \in DOMAIN scores : scores[i] > scores[label + 1]})

RankedWithin(results, truth, n) ==
    Cardinality({i \in DOMAIN results : Rank(results[i], truth[i]) <= n})

=============================================================================
