------------------------- MODULE DemoPipelineProofs -------------------------
(***************************************************************************)
(* The demos render every frame they submitted, once and in order, for any *)
(* source, any number of requests and of frames, and inferences that end   *)
(* in any order, unless one of them fails.                                 *)
(***************************************************************************)
EXTENDS DemoPipeline, SequenceTheorems, WellFoundedInduction, TLAPS

-----------------------------------------------------------------------------
(* The invariant.                                                          *)

Count == Len(submitted)
Rendering == main \in {"render", "renderRest"}
Drained == \A r \in Requests : ~inUse[r]

\* The frames only have to stay a sequence; what they are does not matter.
DemoTypes ==
    /\ main \in {"submit", "wait", "get", "render", "complete", "rest", "renderRest",
                 "unwind", "exit", "exited", "aborted"}
    /\ inUse \in [Requests -> BOOLEAN]
    /\ run \in [Requests -> [st : {"free", "running", "written", "failed"}, frame : Int]]
    /\ outputFrameId \in Nat /\ taken \in Int /\ waiting \in 0 .. NumRequests
    /\ failed \in BOOLEAN
    /\ \E S : submitted \in Seq(S)
    /\ \E S : shown \in Seq(S)

\* A request is taken as long as it runs, for a frame of its own that was not
\* asked for yet and has no result.
OneFrameEach ==
    \A r \in Requests :
        /\ inUse[r] <=> run[r].st # "free"
        /\ inUse[r] => /\ run[r].frame \in outputFrameId .. Count - 1
                       /\ run[r].frame \notin DOMAIN completed
                       /\ \A q \in Requests \ {r} : inUse[q] => run[q].frame # run[r].frame

\* Results are those of submitted frames that were not rendered ...
ResultsAhead ==
    /\ outputFrameId <= Count
    /\ Rendering => taken = outputFrameId - 1 /\ taken \in DOMAIN completed
    /\ \A f \in DOMAIN completed :
          f \in outputFrameId .. Count - 1 \/ (Rendering /\ f = taken)

\* ... and no frame is lost: it runs or has a result until it is asked for.
NoneLost ==
    \A f \in outputFrameId .. Count - 1 :
        f \in DOMAIN completed \/ \E r \in Requests : inUse[r] /\ run[r].frame = f

\* What was rendered are the frames before the one asked for next.
ShownBefore ==
    /\ Len(shown) = IF Rendering THEN outputFrameId - 1 ELSE outputFrameId
    /\ \A i \in 1 .. Len(shown) : shown[i][1] = i - 1

\* waitForTotalCompletion passes each request when it is free; without a
\* failure the rest is rendered with none running, and the demo exits with
\* nothing left.
Winding ==
    /\ main \notin {"complete", "unwind", "exit"} => waiting = 0
    /\ main = "complete" => \A r \in 1 .. waiting : ~inUse[r]
    /\ main \in {"rest", "renderRest"} => Drained
    /\ main = "exit" => outputFrameId = Count
    /\ main \in {"unwind", "exited"} /\ ~failed => outputFrameId = Count
    /\ ~failed => \A r \in Requests : run[r].st # "failed"

DemoInv == DemoTypes /\ OneFrameEach /\ ResultsAhead /\ NoneLost /\ ShownBefore /\ Winding

-----------------------------------------------------------------------------
(* Its steps.                                                              *)

\* A sequence of anything with one more element.
LEMMA Grow ==
    ASSUME NEW s, \E S : s \in Seq(S), NEW e
    PROVE  /\ \E S : Append(s, e) \in Seq(S)
           /\ Len(s) \in Nat /\ Len(Append(s, e)) = Len(s) + 1
           /\ \A i \in 1 .. Len(s) : Append(s, e)[i] = s[i]
           /\ Append(s, e)[Len(s) + 1] = e
<1>1. PICK S : s \in Seq(S)
  OBVIOUS
<1>2. s \in Seq(S \cup {e}) /\ e \in S \cup {e}
  BY <1>1, SeqMonotonic
<1>3. Append(s, e) \in Seq(S \cup {e})
  BY <1>2, AppendProperties
<1> QED
  BY <1>2, <1>3, AppendProperties, LenProperties

\* getIdleRequest returns a request of the pool that is not taken.
LEMMA IdleRequest ==
    ASSUME IsIdleRequestAvailable
    PROVE  GetIdleRequest \in Requests /\ ~inUse[GetIdleRequest]
<1> DEFINE T == {r \in Requests : ~inUse[r]}
<1>1. T \subseteq Nat /\ T # {}
  BY DemoAssumption DEF IsIdleRequestAvailable, Requests
<1>2. \E x \in T : \A y \in T : <<y, x>> \notin OpToRel(<, Nat)
  BY <1>1, NatLessThanWellFounded, WFMin
<1>3. PICK x \in T : \A y \in T : <<y, x>> \notin OpToRel(<, Nat)
  BY <1>2
<1>4. ASSUME NEW y \in T PROVE x <= y
  <2>1. x \in Nat /\ y \in Nat
    BY <1>1
  <2>2. <<y, x>>[1] = y /\ <<y, x>>[2] = x /\ <<y, x>> \in Nat \X Nat
    BY <2>1
  <2>3. ~(y < x)
    BY <1>3, <2>2, Zenon DEF OpToRel
  <2> QED
    BY <2>1, <2>3
<1>5. Smallest(T) \in T
  BY <1>4 DEF Smallest
<1> QED
  BY <1>5 DEF GetIdleRequest

\* Before the first frame nothing runs and nothing is shown.
LEMMA DemoInitial == Init => DemoInv
<1> SUFFICES ASSUME Init PROVE DemoInv
  OBVIOUS
<1>1. /\ submitted = <<>> /\ shown = <<>> /\ completed = <<>> /\ outputFrameId = 0
      /\ main = "submit" /\ waiting = 0 /\ failed = FALSE /\ taken = -1
      /\ inUse = [r \in Requests |-> FALSE]
      /\ run = [r \in Requests |-> [st |-> "free", frame |-> -1]]
  BY DEF Init, Free, NoFrame
<1>2. Len(submitted) = 0 /\ Len(shown) = 0 /\ DOMAIN completed = {}
  BY <1>1
<1>3. DemoTypes
  <2>1. (\E S : submitted \in Seq(S)) /\ \E S : shown \in Seq(S)
    <3>1. submitted \in Seq(Nat) /\ shown \in Seq(Nat)
      BY <1>1, EmptySeq
    <3> QED
      BY <3>1
  <2>2. inUse \in [Requests -> BOOLEAN]
        /\ run \in [Requests -> [st : {"free", "running", "written", "failed"}, frame : Int]]
    BY <1>1
  <2>3. main = "submit" /\ outputFrameId \in Nat /\ taken \in Int /\ failed \in BOOLEAN
        /\ waiting \in 0 .. NumRequests
    <3>1. NumRequests \in Nat
      BY DemoAssumption
    <3>2. waiting \in 0 .. NumRequests
      BY <1>1, <3>1
    <3>3. outputFrameId \in Nat /\ taken \in Int
      BY <1>1
    <3>4. failed \in BOOLEAN
      BY <1>1, Zenon
    <3> QED
      BY <1>1, <3>2, <3>3, <3>4, Zenon
  <2> QED
    BY <2>1, <2>2, <2>3 DEF DemoTypes
<1>4. OneFrameEach /\ ResultsAhead /\ NoneLost /\ ShownBefore
  BY <1>1, <1>2 DEF OneFrameEach, ResultsAhead, NoneLost, ShownBefore, Count, Rendering
<1>5. Winding
  BY <1>1, <1>2 DEF Winding, Count
<1> QED
  BY <1>3, <1>4, <1>5 DEF DemoInv

\* What the numbers are.
LEMMA CountNat == DemoTypes => Count \in Nat /\ Len(shown) \in Nat
<1> SUFFICES ASSUME DemoTypes PROVE Count \in Nat /\ Len(shown) \in Nat
  OBVIOUS
<1>1. (\E S : submitted \in Seq(S)) /\ \E S : shown \in Seq(S)
  BY DEF DemoTypes
<1> QED
  BY <1>1, LenProperties DEF Count

\* The four ways through the top of the loop.
LEMMA SubmitCases ==
    ASSUME Submit
    PROVE  /\ main = "submit"
           /\ UNCHANGED <<completed, outputFrameId, taken, shown, failed, waiting>>
           /\ \/ main' = "wait" /\ UNCHANGED <<submitted, inUse, run>>
              \/ main' = "unwind" /\ submitted = <<>> /\ UNCHANGED <<submitted, inUse, run>>
              \/ main' = "complete" /\ UNCHANGED <<submitted, inUse, run>>
              \/ main' = "wait" /\ IsIdleRequestAvailable /\ \E frame : SubmitData(frame)
<1>1. CASE ~IsIdleRequestAvailable \/ Len(submitted) = MaxFrames
  BY <1>1 DEF Submit
<1>2. CASE ~(~IsIdleRequestAvailable \/ Len(submitted) = MaxFrames) /\ ReadThrows
  BY <1>2 DEF Submit, ReadThrows
<1>3. CASE ~(~IsIdleRequestAvailable \/ Len(submitted) = MaxFrames) /\ ~ReadThrows
  <2> DEFINE next == Read(source, cap)
  <2>1. \/ main' = "complete" /\ UNCHANGED <<submitted, inUse, run>>
        \/ main' = "wait" /\ SubmitData(next.frame)
    BY <1>3 DEF Submit
  <2>2. main = "submit"
        /\ UNCHANGED <<completed, outputFrameId, taken, shown, failed, waiting>>
    BY DEF Submit
  <2> HIDE DEF next
  <2> QED
    BY <1>3, <2>1, <2>2
<1> QED
  BY <1>1, <1>2, <1>3

\* A frame is submitted: the request that takes it was free, and it is the
\* next one.
LEMMA FrameSubmitted ==
    ASSUME DemoInv, main = "submit", main' = "wait", IsIdleRequestAvailable,
           NEW frame, SubmitData(frame),
           UNCHANGED <<completed, outputFrameId, taken, shown, failed, waiting>>
    PROVE  DemoInv'
<1> DEFINE r == GetIdleRequest
           n == Count
<1>1. r \in Requests /\ ~inUse[r]
  BY IdleRequest
<1>2. /\ inUse' = [inUse EXCEPT ![r] = TRUE]
      /\ run' = [run EXCEPT ![r] = [st |-> "running", frame |-> n]]
      /\ submitted' = Append(submitted, frame)
  BY DEF SubmitData, Count
<1>3. n \in Nat /\ Count' = n + 1 /\ (\E S : submitted' \in Seq(S))
  <2>1. \E S : submitted \in Seq(S)
    BY DEF DemoInv, DemoTypes
  <2> QED
    BY <1>2, <2>1, Grow DEF Count
<1> HIDE DEF r, n
<1>4. DemoTypes'
  <2>1. inUse' \in [Requests -> BOOLEAN]
    BY <1>2 DEF DemoInv, DemoTypes
  <2>2. run' \in [Requests -> [st : {"free", "running", "written", "failed"}, frame : Int]]
    <3>1. [st |-> "running", frame |-> n]
              \in [st : {"free", "running", "written", "failed"}, frame : Int]
      BY <1>3
    <3> QED
      BY <1>2, <3>1 DEF DemoInv, DemoTypes
  <2> QED
    BY <1>3, <2>1, <2>2 DEF DemoInv, DemoTypes
<1>5. /\ inUse'[r] /\ run'[r].st = "running" /\ run'[r].frame = n
      /\ \A q \in Requests \ {r} : inUse'[q] = inUse[q] /\ run'[q] = run[q]
  <2>1. inUse \in [Requests -> BOOLEAN]
        /\ run \in [Requests -> [st : {"free", "running", "written", "failed"}, frame : Int]]
    BY DEF DemoInv, DemoTypes
  <2>2. inUse'[r] = TRUE /\ run'[r] = [st |-> "running", frame |-> n]
    BY <1>1, <1>2, <2>1
  <2>3. \A q \in Requests \ {r} : inUse'[q] = inUse[q] /\ run'[q] = run[q]
    BY <1>2, <2>1
  <2> QED
    BY <2>2, <2>3
<1>6. outputFrameId \in Nat /\ outputFrameId <= n
  BY DEF DemoInv, DemoTypes, ResultsAhead, n
<1>7. n \notin DOMAIN completed
  BY <1>3, <1>6 DEF DemoInv, ResultsAhead, Rendering, n
<1>8. OneFrameEach'
  <2> SUFFICES ASSUME NEW q \in Requests
               PROVE  /\ inUse'[q] <=> run'[q].st # "free"
                      /\ inUse'[q] =>
                            /\ run'[q].frame \in outputFrameId .. n
                            /\ run'[q].frame \notin DOMAIN completed
                            /\ \A p \in Requests \ {q} :
                                  inUse'[p] => run'[p].frame # run'[q].frame
    BY <1>3 DEF OneFrameEach
  <2>1. \A p \in Requests : inUse[p] => run[p].frame \in outputFrameId .. n - 1
    BY DEF DemoInv, OneFrameEach, n
  <2>2. \A p \in Requests \ {r} : inUse'[p] => run'[p].frame \in outputFrameId .. n - 1
    BY <1>5, <2>1
  <2>3. CASE q = r
    <3>1. \A p \in Requests \ {r} : inUse'[p] => run'[p].frame # n
      BY <1>3, <1>6, <2>2
    <3> QED
      BY <1>3, <1>5, <1>6, <1>7, <2>3, <3>1
  <2>4. CASE q # r
    <3>1. inUse'[q] = inUse[q] /\ run'[q] = run[q]
      BY <1>5, <2>4
    <3>2. inUse'[q] => run'[q].frame \in outputFrameId .. n /\ run'[q].frame # n
      BY <1>3, <1>6, <2>2, <2>4
    <3>3. inUse'[q] => \A p \in Requests \ {q} : inUse'[p] => run'[p].frame # run'[q].frame
      <4>1. inUse[q] => \A p \in Requests \ {q} : inUse[p] => run[p].frame # run[q].frame
        BY DEF DemoInv, OneFrameEach
      <4> QED
        BY <1>5, <3>1, <3>2, <4>1
    <3> QED
      BY <3>1, <3>2, <3>3 DEF DemoInv, OneFrameEach
  <2> QED
    BY <2>3, <2>4
<1>9. ResultsAhead'
  BY <1>3, <1>6 DEF DemoInv, ResultsAhead, Rendering, n
<1>10. NoneLost'
  <2> SUFFICES ASSUME NEW f \in outputFrameId .. n
               PROVE  f \in DOMAIN completed \/ \E q \in Requests : inUse'[q] /\ run'[q].frame = f
    BY <1>3 DEF NoneLost
  <2>1. CASE f = n
    BY <1>1, <1>5, <2>1
  <2>2. CASE f # n
    <3>1. f \in outputFrameId .. n - 1
      BY <1>3, <1>6, <2>2
    <3>2. f \in DOMAIN completed \/ \E q \in Requests : inUse[q] /\ run[q].frame = f
      BY <3>1 DEF DemoInv, NoneLost, n
    <3>3. CASE \E q \in Requests : inUse[q] /\ run[q].frame = f
      <4>1. PICK q \in Requests : inUse[q] /\ run[q].frame = f
        BY <3>3
      <4>2. q # r
        BY <1>1, <4>1
      <4> QED
        BY <1>5, <4>1, <4>2
    <3> QED
      BY <3>2, <3>3
  <2> QED
    BY <2>1, <2>2
<1>11. ShownBefore'
  BY DEF DemoInv, ShownBefore, Rendering
<1>12. Winding'
  <2>1. ~failed => \A q \in Requests : run'[q].st # "failed"
    <3>1. ~failed => \A q \in Requests : run[q].st # "failed"
      BY DEF DemoInv, Winding
    <3>2. \A q \in Requests : run'[q].st = "running" \/ run'[q] = run[q]
      BY <1>5
    <3> QED
      BY <3>1, <3>2
  <2> QED
    BY <2>1 DEF DemoInv, Winding
<1> QED
  BY <1>4, <1>8, <1>9, <1>10, <1>11, <1>12 DEF DemoInv

\* Only the main thread moves, between places where nothing is rendered.
LEMMA MainMoves ==
    ASSUME DemoInv, ~Rendering, ~Rendering',
           main' \in {"submit", "wait", "get", "complete", "rest", "unwind", "exit", "exited",
                      "aborted"},
           waiting' \in 0 .. NumRequests,
           UNCHANGED <<submitted, inUse, run, completed, outputFrameId, taken, shown, failed>>,
           Winding'
    PROVE  DemoInv'
<1>1. DemoTypes'
  BY DEF DemoInv, DemoTypes
<1>2. OneFrameEach' /\ NoneLost'
  BY DEF DemoInv, OneFrameEach, NoneLost, Count
<1>3. ResultsAhead' /\ ShownBefore'
  BY DEF DemoInv, ResultsAhead, ShownBefore, Count
<1> QED
  BY <1>1, <1>2, <1>3 DEF DemoInv

\* Submit: the next frame, the end of the input, or none of it.
LEMMA SubmitKept == DemoInv /\ Submit => DemoInv'
<1> SUFFICES ASSUME DemoInv, Submit PROVE DemoInv'
  OBVIOUS
<1>1. main = "submit" /\ UNCHANGED <<completed, outputFrameId, taken, shown, failed, waiting>>
  BY SubmitCases
<1>2. CASE main' = "wait" /\ IsIdleRequestAvailable /\ \E frame : SubmitData(frame)
  BY <1>1, <1>2, FrameSubmitted
<1>3. CASE main' \in {"wait", "unwind", "complete"} /\ UNCHANGED <<submitted, inUse, run>>
           /\ (main' = "unwind" => submitted = <<>>)
  <2>1. main' = "unwind" => outputFrameId = Count
    <3> SUFFICES ASSUME main' = "unwind" PROVE outputFrameId = Count
      OBVIOUS
    <3>1. Count = 0
      BY <1>3 DEF Count
    <3> QED
      BY <3>1 DEF DemoInv, DemoTypes, ResultsAhead
  <2>2. waiting = 0 /\ Winding'
    BY <1>1, <1>3, <2>1 DEF DemoInv, Winding, Count, Drained
  <2>3. ~Rendering /\ ~Rendering'
    BY <1>1, <1>3 DEF Rendering
  <2> QED
    BY <1>1, <1>3, <2>2, <2>3, MainMoves DEF DemoInv, DemoTypes
<1> QED
  BY <1>2, <1>3, SubmitCases

\* waitForData goes on to the next result or, after a failure, unwinds.
LEMMA WaitForDataKept == DemoInv /\ WaitForData => DemoInv'
<1> SUFFICES ASSUME DemoInv, WaitForData PROVE DemoInv'
  OBVIOUS
<1>1. /\ main = "wait" /\ main' \in {"unwind", "get"} /\ (main' = "unwind" => failed)
      /\ UNCHANGED <<submitted, inUse, run, completed, outputFrameId, taken, shown, failed,
                     waiting>>
  BY DEF WaitForData, pool
<1>2. ~Rendering /\ ~Rendering'
  BY <1>1 DEF Rendering
<1>3. Winding'
  BY <1>1 DEF DemoInv, Winding, Count, Drained
<1> QED
  BY <1>1, <1>2, <1>3, MainMoves DEF DemoInv, DemoTypes

\* A result is taken: the next frame's, and its request is free again.
LEMMA ResultTaken ==
    ASSUME DemoInv, GetResult, NextResult
    PROVE  DemoInv'
<1>1. /\ main \in {"get", "rest"} /\ taken' = outputFrameId /\ outputFrameId' = outputFrameId + 1
      /\ main' = IF main = "get" THEN "render" ELSE "renderRest"
      /\ UNCHANGED <<submitted, inUse, run, completed, shown, failed, waiting>>
  BY DEF GetResult, NextResult, ResultId, pool
<1>2. outputFrameId \in DOMAIN completed /\ outputFrameId \in Nat /\ Count \in Nat
  BY CountNat DEF NextResult, DemoInv, DemoTypes
<1>3. outputFrameId \in outputFrameId .. Count - 1 /\ Count' = Count
  BY <1>1, <1>2 DEF DemoInv, ResultsAhead, Rendering, Count
<1>4. DemoTypes'
  BY <1>1, <1>2 DEF DemoInv, DemoTypes
<1>5. OneFrameEach'
  <2>1. \A r \in Requests : inUse[r] => run[r].frame \in outputFrameId + 1 .. Count - 1
    BY <1>2 DEF DemoInv, OneFrameEach
  <2> QED
    BY <1>1, <1>3, <2>1 DEF DemoInv, OneFrameEach
<1>6. ResultsAhead' /\ NoneLost'
  BY <1>1, <1>2, <1>3 DEF DemoInv, ResultsAhead, NoneLost, Rendering
<1>7. ShownBefore'
  BY <1>1, <1>2 DEF DemoInv, ShownBefore, Rendering
<1>8. Winding'
  BY <1>1 DEF DemoInv, Winding, Drained
<1> QED
  BY <1>4, <1>5, <1>6, <1>7, <1>8 DEF DemoInv

\* Without a result main goes on, and exits when every frame was rendered.
LEMMA GetResultKept == DemoInv /\ GetResult => DemoInv'
<1> SUFFICES ASSUME DemoInv, GetResult PROVE DemoInv'
  OBVIOUS
<1>1. CASE NextResult
  BY <1>1, ResultTaken
<1>2. CASE ~NextResult
  <2>1. /\ main \in {"get", "rest"} /\ main' = IF main = "get" THEN "submit" ELSE "exit"
        /\ UNCHANGED <<submitted, inUse, run, completed, outputFrameId, taken, shown, failed,
                       waiting>>
    BY <1>2 DEF GetResult, pool
  <2>2. main = "rest" => outputFrameId = Count
    <3>1. outputFrameId \in Nat /\ Count \in Nat /\ outputFrameId <= Count
      BY CountNat DEF DemoInv, DemoTypes, ResultsAhead
    <3>2. main = "rest" => outputFrameId \notin outputFrameId .. Count - 1
      BY <1>2 DEF DemoInv, NoneLost, Winding, Drained, NextResult
    <3> QED
      BY <3>1, <3>2
  <2>3. Winding'
    BY <2>1, <2>2 DEF DemoInv, Winding, Count, Drained
  <2>4. ~Rendering /\ ~Rendering'
    BY <2>1 DEF Rendering
  <2> QED
    BY <2>1, <2>3, <2>4, MainMoves DEF DemoInv, DemoTypes
<1> QED
  BY <1>1, <1>2

\* The frame rendered follows those shown before.
LEMMA RenderKept == DemoInv /\ Render => DemoInv'
<1> SUFFICES ASSUME DemoInv, Render PROVE DemoInv'
  OBVIOUS
<1>1. PICK e : shown' = Append(shown, <<taken, e>>)
  BY DEF Render
<1>2. /\ main \in {"render", "renderRest"} /\ main' \in {"get", "complete", "rest"}
      /\ (main' = "rest" => main = "renderRest")
      /\ DOMAIN completed' = DOMAIN completed \ {taken} /\ taken' = -1
      /\ UNCHANGED <<submitted, inUse, run, outputFrameId, failed, waiting>>
  BY DEF Render, pool, NoFrame
<1>3. Rendering /\ ~Rendering' /\ Count' = Count
  BY <1>2 DEF Rendering, Count
<1>4. taken = outputFrameId - 1 /\ outputFrameId \in Nat /\ Len(shown) = outputFrameId - 1
  BY <1>3 DEF DemoInv, DemoTypes, ResultsAhead, ShownBefore
<1>5. /\ \E S : shown' \in Seq(S)
      /\ Len(shown) \in Nat /\ Len(shown') = Len(shown) + 1
      /\ \A i \in 1 .. Len(shown) : shown'[i] = shown[i]
      /\ shown'[Len(shown) + 1] = <<taken, e>>
  <2>1. \E S : shown \in Seq(S)
    BY DEF DemoInv, DemoTypes
  <2> DEFINE entry == <<taken, e>>
  <2>2. shown' = Append(shown, entry)
    BY <1>1
  <2> HIDE DEF entry
  <2>3. /\ \E S : Append(shown, entry) \in Seq(S)
        /\ Len(shown) \in Nat /\ Len(Append(shown, entry)) = Len(shown) + 1
        /\ \A i \in 1 .. Len(shown) : Append(shown, entry)[i] = shown[i]
        /\ Append(shown, entry)[Len(shown) + 1] = entry
    BY <2>1, Grow
  <2> QED
    BY <2>2, <2>3, Zenon DEF entry
<1>6. DemoTypes'
  BY <1>2, <1>5 DEF DemoInv, DemoTypes
<1>7. OneFrameEach'
  BY <1>2, <1>3 DEF DemoInv, OneFrameEach
<1>8. ResultsAhead' /\ NoneLost'
  BY <1>2, <1>3, <1>4 DEF DemoInv, ResultsAhead, NoneLost
<1>9. ShownBefore'
  <2>1. Len(shown') = outputFrameId'
    BY <1>2, <1>4, <1>5
  <2>2. ASSUME NEW i \in 1 .. Len(shown') PROVE shown'[i][1] = i - 1
    <3>1. CASE i \in 1 .. Len(shown)
      BY <1>5, <3>1 DEF DemoInv, ShownBefore
    <3>2. CASE i = Len(shown) + 1
      BY <1>4, <1>5, <3>2
    <3> QED
      BY <1>5, <3>1, <3>2
  <2> QED
    BY <1>3, <2>1, <2>2 DEF ShownBefore
<1>10. Winding'
  BY <1>2 DEF DemoInv, Winding, Drained
<1> QED
  BY <1>6, <1>7, <1>8, <1>9, <1>10 DEF DemoInv

\* The requests are waited for one by one.
LEMMA CompletionKept == DemoInv /\ WaitForTotalCompletion => DemoInv'
<1> SUFFICES ASSUME DemoInv, WaitForTotalCompletion PROVE DemoInv'
  OBVIOUS
<1>1. /\ main \in {"complete", "unwind", "exit"}
      /\ UNCHANGED <<submitted, inUse, run, completed, outputFrameId, taken, shown, failed>>
  BY DEF WaitForTotalCompletion, pool
<1>2. waiting \in 0 .. NumRequests /\ NumRequests \in Nat
  BY DemoAssumption DEF DemoInv, DemoTypes
<1>3. CASE waiting = NumRequests
  <2>1. waiting' = 0 /\ main' = IF main = "complete" THEN "rest" ELSE "exited"
    BY <1>3 DEF WaitForTotalCompletion
  <2>2. main = "complete" => Drained
    BY <1>3 DEF DemoInv, Winding, Drained, Requests
  <2>3. Winding'
    BY <1>1, <2>1, <2>2 DEF DemoInv, Winding, Count, Drained
  <2>4. ~Rendering /\ ~Rendering'
    BY <1>1, <2>1 DEF Rendering
  <2> QED
    BY <1>1, <1>2, <2>1, <2>3, <2>4, MainMoves
<1>4. CASE waiting # NumRequests
  <2> DEFINE r == waiting + 1
  <2>1. r \in Requests /\ r \in 0 .. NumRequests
    BY <1>2, <1>4 DEF Requests
  <2>2. \/ ~inUse[r] /\ waiting' = r /\ main' = main
        \/ /\ inUse[r] /\ run[r].st = "failed" /\ waiting' = 0
           /\ main' = IF main = "complete" THEN "unwind" ELSE "aborted"
    BY <1>4, <2>1 DEF WaitForTotalCompletion, DemoInv, OneFrameEach
  <2>3. Winding'
    <3>1. CASE ~inUse[r] /\ waiting' = r /\ main' = main
      <4>1. \A q \in 1 .. waiting' : q \in 1 .. waiting \/ q = r
        BY <1>2, <3>1
      <4> QED
        BY <1>1, <3>1, <4>1 DEF DemoInv, Winding, Count, Drained
    <3>2. CASE /\ inUse[r] /\ run[r].st = "failed" /\ waiting' = 0
               /\ main' = IF main = "complete" THEN "unwind" ELSE "aborted"
      <4>1. failed
        BY <2>1, <3>2 DEF DemoInv, Winding
      <4> QED
        BY <1>1, <3>2, <4>1 DEF DemoInv, Winding, Count, Drained
    <3> QED
      BY <2>2, <3>1, <3>2
  <2>4. ~Rendering /\ ~Rendering'
    BY <1>1, <2>2 DEF Rendering
  <2>5. waiting' \in 0 .. NumRequests
        /\ main' \in {"complete", "unwind", "exit", "aborted"}
    BY <1>1, <1>2, <2>1, <2>2
  <2> QED
    BY <1>1, <2>3, <2>4, <2>5, MainMoves
<1> QED
  BY <1>3, <1>4

-----------------------------------------------------------------------------
(* The requests.                                                           *)

\* A request that runs goes on with its frame.
LEMMA RunGoesOn ==
    ASSUME DemoInv, NEW r \in Requests, NEW st \in {"written", "failed"},
           run[r].st = "running", run' = [run EXCEPT ![r].st = st],
           failed' \in BOOLEAN, st = "failed" \/ failed => failed',
           UNCHANGED <<main, submitted, inUse, completed, outputFrameId, taken, shown, waiting>>
    PROVE  DemoInv'
<1>1. run' \in [Requests -> [st : {"free", "running", "written", "failed"}, frame : Int]]
  BY DEF DemoInv, DemoTypes
<1>2. \A q \in Requests : /\ run'[q].frame = run[q].frame
                          /\ run'[q].st = IF q = r THEN st ELSE run[q].st
  BY DEF DemoInv, DemoTypes
<1>3. DemoTypes'
  BY <1>1 DEF DemoInv, DemoTypes
<1>4. OneFrameEach'
  BY <1>2 DEF DemoInv, OneFrameEach, Count
<1>5. ResultsAhead' /\ NoneLost' /\ ShownBefore'
  BY <1>2 DEF DemoInv, ResultsAhead, NoneLost, ShownBefore, Count, Rendering
<1>6. Winding'
  BY <1>2 DEF DemoInv, Winding, Drained, Count
<1> QED
  BY <1>3, <1>4, <1>5, <1>6 DEF DemoInv

\* The callback makes the frame of a request a result.
LEMMA CallbackKept ==
    ASSUME DemoInv, NEW r \in Requests, Callback(r)
    PROVE  DemoInv'
<1> DEFINE n == run[r].frame
<1>1. /\ run[r].st = "written" /\ inUse' = [inUse EXCEPT ![r] = FALSE]
      /\ run' = [run EXCEPT ![r] = [st |-> "free", frame |-> -1]]
      /\ DOMAIN completed' = DOMAIN completed \cup {n}
      /\ UNCHANGED <<main, submitted, outputFrameId, taken, shown, failed, waiting>>
  BY DEF Callback, Free, NoFrame
<1>2. inUse[r] /\ n \in outputFrameId .. Count - 1
      /\ \A q \in Requests \ {r} : inUse[q] => run[q].frame # n
  BY <1>1 DEF DemoInv, OneFrameEach
<1> HIDE DEF n
<1>3. DemoTypes'
  <2>1. inUse' \in [Requests -> BOOLEAN]
    BY <1>1 DEF DemoInv, DemoTypes
  <2>2. run' \in [Requests -> [st : {"free", "running", "written", "failed"}, frame : Int]]
    BY <1>1 DEF DemoInv, DemoTypes
  <2> QED
    BY <1>1, <2>1, <2>2 DEF DemoInv, DemoTypes
<1>4. /\ ~inUse'[r] /\ run'[r].st = "free"
      /\ \A q \in Requests \ {r} : inUse'[q] = inUse[q] /\ run'[q] = run[q]
  <2>1. inUse \in [Requests -> BOOLEAN]
        /\ run \in [Requests -> [st : {"free", "running", "written", "failed"}, frame : Int]]
    BY DEF DemoInv, DemoTypes
  <2>2. inUse'[r] = FALSE /\ run'[r] = [st |-> "free", frame |-> -1]
    BY <1>1, <2>1
  <2>3. \A q \in Requests \ {r} : inUse'[q] = inUse[q] /\ run'[q] = run[q]
    BY <1>1, <2>1
  <2> QED
    BY <2>2, <2>3
<1>5. OneFrameEach'
  <2>1. ASSUME NEW q \in Requests, q # r
        PROVE  /\ inUse'[q] = inUse[q] /\ run'[q] = run[q]
               /\ inUse[q] => run[q].frame # n
    BY <1>2, <1>4, <2>1
  <2>2. ~inUse'[r] /\ run'[r].st = "free"
    BY <1>4
  <2> QED
    BY <1>1, <2>1, <2>2 DEF DemoInv, OneFrameEach, Count
<1>6. ResultsAhead'
  BY <1>1, <1>2 DEF DemoInv, ResultsAhead, Rendering, Count
<1>7. NoneLost'
  <2> SUFFICES ASSUME NEW f \in outputFrameId .. Count - 1
               PROVE  f \in DOMAIN completed' \/ \E q \in Requests : inUse'[q] /\ run'[q].frame = f
    BY <1>1 DEF NoneLost, Count
  <2>1. f \in DOMAIN completed \/ \E q \in Requests : inUse[q] /\ run[q].frame = f
    BY DEF DemoInv, NoneLost
  <2> QED
    BY <1>1, <1>4, <2>1 DEF n
<1>8. ShownBefore'
  BY <1>1 DEF DemoInv, ShownBefore, Rendering
<1>9. Winding'
  BY <1>1, <1>4, DemoAssumption DEF DemoInv, DemoTypes, Winding, Drained, Count, Requests
<1> QED
  BY <1>3, <1>5, <1>6, <1>7, <1>8, <1>9 DEF DemoInv

\* Every step of the main thread and of the requests keeps the invariant.
LEMMA DemoStep == DemoInv /\ [Next]_vars => DemoInv'
<1> SUFFICES ASSUME DemoInv, [Next]_vars PROVE DemoInv'
  OBVIOUS
<1>1. CASE UNCHANGED vars
  <2>1. UNCHANGED <<main, submitted, inUse, run, completed, outputFrameId, taken, shown, failed,
                    waiting>>
    BY <1>1 DEF vars, pool
  <2> QED
    BY <2>1 DEF DemoInv, DemoTypes, OneFrameEach, ResultsAhead, NoneLost, ShownBefore, Winding,
                Drained, Rendering, Count
<1>2. CASE MainStep
  BY <1>2, SubmitKept, WaitForDataKept, GetResultKept, RenderKept, CompletionKept DEF MainStep
<1>3. ASSUME NEW r \in Requests, WriteOutput(r) PROVE DemoInv'
  <2>1. /\ run[r].st = "running" /\ run' = [run EXCEPT ![r].st = "written"]
        /\ UNCHANGED <<main, submitted, inUse, completed, outputFrameId, taken, shown, failed,
                       waiting>>
    BY <1>3 DEF WriteOutput
  <2>2. failed \in BOOLEAN
    BY DEF DemoInv, DemoTypes
  <2> QED
    BY <2>1, <2>2, RunGoesOn
<1>4. ASSUME NEW r \in Requests, CallbackFails(r) PROVE DemoInv'
  <2>1. /\ run[r].st = "running" /\ run' = [run EXCEPT ![r].st = "failed"] /\ failed' = TRUE
        /\ UNCHANGED <<main, submitted, inUse, completed, outputFrameId, taken, shown, waiting>>
    BY <1>4 DEF CallbackFails
  <2> QED
    BY <2>1, RunGoesOn
<1> QED
  BY <1>1, <1>2, <1>3, <1>4, CallbackKept DEF Next, RequestStep

\* Where each submitted frame is until it is rendered: in the request that
\* runs it, among the results, or shown (AsyncPipeline, the demos' main).
THEOREM DemoInvariant == Spec => []DemoInv
  BY DemoInitial, DemoStep, PTL DEF Spec

\* The frames are rendered in the order of their submission and all of them
\* are, unless an inference fails (AsyncPipeline::getInferenceResult,
\* waitForTotalCompletion, main of the demos).
THEOREM EveryFrameIsRendered == Spec => []FramesRendered
<1>1. DemoInv => FramesRendered
  <2> SUFFICES ASSUME DemoInv PROVE FramesRendered
    OBVIOUS
  <2>1. \E S : shown \in Seq(S)
    BY DEF DemoInv, DemoTypes
  <2>2. DOMAIN shown = 1 .. Len(shown)
    BY <2>1
  <2> QED
    BY <2>2 DEF DemoInv, ShownBefore, Winding, Rendering, Count, FramesRendered
<1> QED
  BY <1>1, DemoInvariant, PTL

=============================================================================
