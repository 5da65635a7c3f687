-------------------------- MODULE StreamingAppsProofs --------------------------
(***************************************************************************)
(* Proofs about the two programs of the HPS streaming demo: whatever the   *)
(* interleaving of the image application, the plugin, the callbacks and    *)
(* Ctrl-C, the results that streaming_inference_app prints are those of    *)
(* the captured frames in their order.                                     *)
(***************************************************************************)
EXTENDS StreamingApps, SequenceTheorems, TLAPS

-----------------------------------------------------------------------------
(* The invariant.                                                          *)

\* What a queue holds, and that it holds it once.
At(s) == {s[i] : i \in 1 .. Len(s)}
Once(s) == \A i, j \in 1 .. Len(s) : s[i] = s[j] => i = j

\* The requests of the inferences that run.
RequestsOf(jobs) == [i \in 1 .. Len(jobs) |-> jobs[i].request]
Busy == RequestsOf(plugin.running)

\* The states of the application and of the plugin.
AppPcs == {"start", "post", "unlocked", "locked", "waiting", "stuck", "shutdown",
           "postCancel", "clear", "drainCancel", "drainReady", "ended"}
App == [pc : AppPcs, next : 1 .. NumRequests + 1, cancelling : BOOLEAN, runs : Nat,
        results : Seq(Nat), file : Seq(Nat)]
Plugin == [scheduled : Seq(Requests), running : Seq([request : Requests, frame : Nat]),
           completed : Seq(Requests), callback : [request : Nat, step : {"none", "read", "start"}],
           tensors : [Requests -> Nat], captured : Seq(Nat)]

\* The image process is only asked to stay a record with what it sent.
AppTypes ==
    /\ app \in App /\ plugin \in Plugin
    /\ app.pc = "start" => app.next <= NumRequests
    /\ sems \in [ready : Nat, cancel : Nat]
    /\ img = [pc |-> img.pc, images |-> img.images, next |-> img.next, sent |-> img.sent,
              opened |-> img.opened, shutdown |-> img.shutdown, thread |-> img.thread]
    /\ \E S : img.sent \in Seq(S)

\* A request is scheduled, running, completed or in its callback, once; the
\* ones that were not started yet are nowhere.
OnePlace ==
    /\ Once(plugin.scheduled) /\ Once(Busy) /\ Once(plugin.completed)
    /\ At(plugin.scheduled) \cap At(Busy) = {}
    /\ At(plugin.scheduled) \cap At(plugin.completed) = {}
    /\ At(Busy) \cap At(plugin.completed) = {}
    /\ plugin.callback.step # "none" =>
          plugin.callback.request \in
              Requests \ (At(plugin.scheduled) \cup At(Busy) \cup At(plugin.completed))

\* While requests are started, only those before the next one are anywhere.
Started ==
    app.pc = "start" =>
        /\ \A r \in At(plugin.scheduled) \cup At(Busy) \cup At(plugin.completed) : r < app.next
        /\ plugin.callback.step # "none" => plugin.callback.request < app.next

\* No process, no inferences; and the cancellation of a run is over with it.
Quiet ==
    /\ app.pc \in {"drainCancel", "drainReady", "ended"} \/ (app.pc = "start" /\ app.next = 1) =>
          /\ plugin.scheduled = <<>> /\ plugin.running = <<>> /\ plugin.completed = <<>>
          /\ plugin.callback.step = "none"
    /\ sems.cancel > 0 \/ app.pc = "postCancel" => app.cancelling
    /\ app.pc \in {"drainReady", "ended"} => sems.cancel = 0
    /\ app.pc = "start" => ~app.cancelling

\* The frame in the callback, if its scores are still to be read.
Reading == IF plugin.callback.step = "read" THEN 1 ELSE 0

\* The results printed, the one being read, the completed ones and the running
\* ones are the captured frames, in order; after Ctrl-C the rest may be lost.
Order ==
    LET n == Len(app.results)
        k == Reading
        c == Len(plugin.completed)
    IN  /\ n + k <= Len(plugin.captured)
        /\ \A i \in 1 .. n : app.results[i] = plugin.captured[i]
        /\ k = 1 => plugin.tensors[plugin.callback.request] = plugin.captured[n + 1]
        /\ ~app.cancelling =>
              /\ Len(plugin.captured) = n + k + c + Len(plugin.running)
              /\ \A j \in 1 .. c :
                    plugin.tensors[plugin.completed[j]] = plugin.captured[n + k + j]
              /\ \A j \in 1 .. Len(plugin.running) :
                    plugin.running[j].frame = plugin.captured[n + k + c + j]

\* The results file holds the first results.
Filed ==
    LET n == Len(app.results)
    IN  /\ Len(app.file) = IF n <= ResultsKept THEN n ELSE ResultsKept + 1
        /\ \A i \in 1 .. Len(app.file) :
              app.file[i] = IF i <= ResultsKept THEN app.results[i] ELSE EndOfCapture

ResultInv == AppTypes /\ OnePlace /\ Started /\ Quiet /\ Order /\ Filed

-----------------------------------------------------------------------------
(* Queues: what leaves at the front and enters at the back.                *)

\* A queue without its first element.
LEMMA PopFacts ==
    ASSUME NEW S, NEW s \in Seq(S), s # <<>>
    PROVE  /\ Len(s) \in Nat \ {0} /\ Len(Tail(s)) = Len(s) - 1 /\ Tail(s) \in Seq(S)
           /\ \A i \in 1 .. Len(s) - 1 : Tail(s)[i] = s[i + 1]
           /\ Head(s) = s[1] /\ Head(s) \in S
BY HeadTailProperties, EmptySeq, LenProperties

\* A queue with one more element.
LEMMA PushFacts ==
    ASSUME NEW S, NEW s \in Seq(S), NEW e \in S
    PROVE  /\ Len(s) \in Nat /\ Len(Append(s, e)) = Len(s) + 1 /\ Append(s, e) \in Seq(S)
           /\ \A i \in 1 .. Len(s) : Append(s, e)[i] = s[i]
           /\ Append(s, e)[Len(s) + 1] = e
BY AppendProperties, LenProperties

\* Taking the first element away leaves each of the others once.
LEMMA PopOnce ==
    ASSUME NEW S, NEW s \in Seq(S), s # <<>>, Once(s)
    PROVE  /\ Once(Tail(s)) /\ At(Tail(s)) = At(s) \ {Head(s)} /\ Head(s) \in At(s)
<1> DEFINE t == Tail(s)
           n == Len(s)
<1>1. /\ n \in Nat \ {0} /\ Len(t) = n - 1 /\ Head(s) = s[1]
      /\ \A i \in 1 .. n - 1 : t[i] = s[i + 1]
  BY PopFacts
<1> HIDE DEF t, n
<1>2. \A i, j \in 1 .. n : s[i] = s[j] => i = j
  BY DEF Once, n
<1>3. Once(t)
  <2> SUFFICES ASSUME NEW i \in 1 .. n - 1, NEW j \in 1 .. n - 1, t[i] = t[j] PROVE i = j
    BY <1>1 DEF Once
  <2>1. i + 1 \in 1 .. n /\ j + 1 \in 1 .. n
    BY <1>1
  <2>2. s[i + 1] = s[j + 1]
    BY <1>1
  <2> QED
    BY <1>2, <2>1, <2>2
<1>4. ASSUME NEW x \in At(t) PROVE x \in At(s) \ {s[1]}
  <2>1. PICK i \in 1 .. n - 1 : x = s[i + 1]
    BY <1>1, <1>4 DEF At
  <2>2. i + 1 \in 1 .. n /\ 1 \in 1 .. n /\ i + 1 # 1
    BY <1>1
  <2>3. x # s[1]
    BY <1>2, <2>1, <2>2
  <2> QED
    BY <2>1, <2>2, <2>3 DEF At, n
<1>5. ASSUME NEW x \in At(s), x # s[1] PROVE x \in At(t)
  <2>1. PICK i \in 1 .. n : x = s[i]
    BY DEF At, n
  <2>2. i # 1 /\ i - 1 \in 1 .. n - 1 /\ (i - 1) + 1 = i
    BY <1>1, <1>5, <2>1
  <2>3. t[i - 1] = x
    BY <1>1, <2>1, <2>2
  <2> QED
    BY <1>1, <2>2, <2>3 DEF At
<1>6. s[1] \in At(s)
  <2>1. 1 \in 1 .. Len(s)
    BY <1>1 DEF n
  <2> QED
    BY <2>1 DEF At
<1> QED
  BY <1>1, <1>3, <1>4, <1>5, <1>6 DEF t

\* A new element joins the others once.
LEMMA PushOnce ==
    ASSUME NEW S, NEW s \in Seq(S), NEW e \in S, Once(s), e \notin At(s)
    PROVE  Once(Append(s, e)) /\ At(Append(s, e)) = At(s) \cup {e}
<1> DEFINE t == Append(s, e)
           n == Len(s)
<1>1. /\ n \in Nat /\ Len(t) = n + 1 /\ t[n + 1] = e
      /\ \A i \in 1 .. n : t[i] = s[i]
  BY PushFacts
<1> HIDE DEF t, n
<1>2. /\ \A i, j \in 1 .. n : s[i] = s[j] => i = j
      /\ \A i \in 1 .. n : s[i] # e
  BY DEF Once, At, n
<1>3. Once(t)
  <2> SUFFICES ASSUME NEW i \in 1 .. n + 1, NEW j \in 1 .. n + 1, t[i] = t[j] PROVE i = j
    BY <1>1 DEF Once
  <2>1. (i \in 1 .. n \/ i = n + 1) /\ (j \in 1 .. n \/ j = n + 1)
    BY <1>1
  <2> QED
    BY <1>1, <1>2, <2>1
<1>4. ASSUME NEW x \in At(t) PROVE x \in At(s) \cup {e}
  <2>1. PICK i \in 1 .. n + 1 : x = t[i]
    BY <1>1 DEF At
  <2>2. i \in 1 .. n \/ i = n + 1
    BY <1>1
  <2> QED
    BY <1>1, <2>1, <2>2 DEF At, n
<1>5. ASSUME NEW x \in At(s) \cup {e} PROVE x \in At(t)
  <2>1. PICK i \in 1 .. n + 1 : x = t[i]
    <3>1. CASE x = e
      BY <1>1, <3>1
    <3>2. CASE x \in At(s)
      <4>1. PICK i \in 1 .. n : x = s[i]
        BY <3>2 DEF At, n
      <4> QED
        BY <1>1, <4>1
    <3> QED
      BY <1>5, <3>1, <3>2
  <2> QED
    BY <1>1, <2>1 DEF At
<1> QED
  BY <1>3, <1>4, <1>5 DEF t

\* The requests of the running inferences are a queue too.
LEMMA BusyFacts ==
    ASSUME NEW jobs \in Seq([request : Requests, frame : Nat])
    PROVE  /\ RequestsOf(jobs) \in Seq(Requests) /\ Len(RequestsOf(jobs)) = Len(jobs)
           /\ jobs # <<>> => /\ RequestsOf(jobs) # <<>>
                             /\ Head(RequestsOf(jobs)) = Head(jobs).request
                             /\ RequestsOf(Tail(jobs)) = Tail(RequestsOf(jobs))
           /\ \A job \in [request : Requests, frame : Nat] :
                 RequestsOf(Append(jobs, job)) = Append(RequestsOf(jobs), job.request)
<1> DEFINE J == [request : Requests, frame : Nat]
           n == Len(jobs)
           b == RequestsOf(jobs)
<1>1. n \in Nat /\ \A i \in 1 .. n : jobs[i] \in J
  BY LenProperties, ElementOfSeq
<1>2. b \in Seq(Requests) /\ Len(b) = n /\ \A i \in 1 .. n : b[i] = jobs[i].request
  <2>1. b = [i \in 1 .. n |-> jobs[i].request]
    BY DEF RequestsOf
  <2>2. \A i \in 1 .. n : jobs[i].request \in Requests
    BY <1>1
  <2>3. b \in Seq(Requests)
    BY <1>1, <2>1, <2>2, IsASeq
  <2>4. Len(b) = n
    BY <1>1, <2>1, <2>3, LenProperties
  <2> QED
    BY <2>1, <2>3, <2>4
<1> HIDE DEF b
<1>3. ASSUME jobs # <<>>
      PROVE  /\ b # <<>> /\ Head(b) = Head(jobs).request
             /\ RequestsOf(Tail(jobs)) = Tail(b)
  <2>1. /\ n \in Nat \ {0} /\ Len(Tail(jobs)) = n - 1 /\ Head(jobs) = jobs[1]
        /\ \A i \in 1 .. n - 1 : Tail(jobs)[i] = jobs[i + 1]
    BY <1>3, PopFacts
  <2>2. b # <<>>
    BY <1>2, <2>1
  <2>3. /\ Len(Tail(b)) = n - 1 /\ Tail(b) \in Seq(Requests) /\ Head(b) = b[1]
        /\ \A i \in 1 .. n - 1 : Tail(b)[i] = b[i + 1]
    BY <1>2, <2>2, PopFacts
  <2>4. Head(b) = Head(jobs).request
    BY <1>2, <2>1, <2>3
  <2>5. RequestsOf(Tail(jobs)) = [i \in 1 .. n - 1 |-> Tail(jobs)[i].request]
    BY <2>1 DEF RequestsOf
  <2>6. Tail(b) = [i \in 1 .. n - 1 |-> Tail(b)[i]]
    BY <2>3, LenProperties
  <2>7. \A i \in 1 .. n - 1 : Tail(b)[i] = Tail(jobs)[i].request
    <3> TAKE i \in 1 .. n - 1
    <3>1. i + 1 \in 1 .. n
      BY <1>1
    <3> QED
      BY <1>2, <2>1, <2>3, <3>1
  <2> QED
    BY <2>2, <2>4, <2>5, <2>6, <2>7
<1>4. ASSUME NEW job \in J
      PROVE  RequestsOf(Append(jobs, job)) = Append(b, job.request)
  <2>1. /\ Len(Append(jobs, job)) = n + 1 /\ Append(jobs, job)[n + 1] = job
        /\ \A i \in 1 .. n : Append(jobs, job)[i] = jobs[i]
    BY PushFacts
  <2>2. job.request \in Requests
    OBVIOUS
  <2>3. /\ Len(Append(b, job.request)) = n + 1 /\ Append(b, job.request) \in Seq(Requests)
        /\ \A i \in 1 .. n : Append(b, job.request)[i] = b[i]
        /\ Append(b, job.request)[n + 1] = job.request
    BY <1>2, <2>2, PushFacts
  <2>4. RequestsOf(Append(jobs, job)) = [i \in 1 .. n + 1 |-> Append(jobs, job)[i].request]
    BY <2>1 DEF RequestsOf
  <2>5. Append(b, job.request) = [i \in 1 .. n + 1 |-> Append(b, job.request)[i]]
    BY <2>3, LenProperties
  <2>6. \A i \in 1 .. n + 1 : Append(b, job.request)[i] = Append(jobs, job)[i].request
    <3> TAKE i \in 1 .. n + 1
    <3>1. i \in 1 .. n \/ i = n + 1
      BY <1>1
    <3> QED
      BY <1>2, <2>1, <2>3, <3>1
  <2> QED
    BY <2>4, <2>5, <2>6
<1> QED
  BY <1>2, <1>3, <1>4 DEF b

-----------------------------------------------------------------------------
(* Steps of the programs that leave the plugin's queues alone.             *)

\* The requests and the results kept are counted.
LEMMA Counted == NumRequests \in Nat \ {0} /\ ResultsKept \in Nat
  BY AppBounds

\* The types of what the queues' lemmas are applied to.
LEMMA TypeFacts ==
    ASSUME AppTypes
    PROVE  /\ plugin.scheduled \in Seq(Requests) /\ plugin.completed \in Seq(Requests)
           /\ plugin.running \in Seq([request : Requests, frame : Nat])
           /\ plugin.callback.request \in Nat /\ plugin.callback.step \in {"none", "read", "start"}
           /\ plugin.tensors \in [Requests -> Nat] /\ plugin.captured \in Seq(Nat)
           /\ app.results \in Seq(Nat) /\ app.file \in Seq(Nat) /\ app.cancelling \in BOOLEAN
           /\ app.next \in 1 .. NumRequests + 1 /\ app.runs \in Nat /\ app.pc \in AppPcs
           /\ {Len(plugin.scheduled), Len(plugin.completed), Len(plugin.running),
               Len(plugin.captured), Len(app.results), Len(app.file)} \subseteq Nat
           /\ Reading \in {0, 1} /\ Busy \in Seq(Requests)
<1>1. /\ plugin.scheduled \in Seq(Requests) /\ plugin.completed \in Seq(Requests)
      /\ plugin.running \in Seq([request : Requests, frame : Nat])
      /\ plugin.callback \in [request : Nat, step : {"none", "read", "start"}]
      /\ plugin.tensors \in [Requests -> Nat] /\ plugin.captured \in Seq(Nat)
  BY DEF AppTypes, Plugin
<1>2. /\ app.results \in Seq(Nat) /\ app.file \in Seq(Nat) /\ app.cancelling \in BOOLEAN
      /\ app.next \in 1 .. NumRequests + 1 /\ app.runs \in Nat /\ app.pc \in AppPcs
  BY DEF AppTypes, App
<1>3. {Len(plugin.scheduled), Len(plugin.completed), Len(plugin.running),
       Len(plugin.captured), Len(app.results), Len(app.file)} \subseteq Nat
  BY <1>1, <1>2, LenProperties
<1> QED
  BY <1>1, <1>2, <1>3, BusyFacts DEF Reading, Busy

\* Nothing is captured before the application starts.
LEMMA ResultInitial == Init => ResultInv
<1> SUFFICES ASSUME Init PROVE ResultInv
  OBVIOUS
<1>1. <<>> \in Seq(Nat) /\ <<>> \in Seq(Requests) /\ <<>> \in Seq([request : Requests, frame : Nat])
  BY EmptySeq
<1>2. AppTypes
  <2>1. app \in App /\ app.pc = "start" /\ app.next <= NumRequests
    BY <1>1, Counted DEF Init, App, AppPcs
  <2>2. plugin \in Plugin
    BY <1>1 DEF Init, Plugin
  <2>3. img.sent \in Seq(Nat)
    BY <1>1 DEF Init
  <2>4. /\ sems \in [ready : Nat, cancel : Nat]
        /\ img = [pc |-> img.pc, images |-> img.images, next |-> img.next, sent |-> img.sent,
                  opened |-> img.opened, shutdown |-> img.shutdown, thread |-> img.thread]
    BY DEF Init
  <2> QED
    BY <2>1, <2>2, <2>3, <2>4 DEF AppTypes
<1>3. /\ plugin.scheduled = <<>> /\ plugin.running = <<>> /\ plugin.completed = <<>>
      /\ plugin.captured = <<>> /\ app.results = <<>> /\ app.file = <<>>
      /\ plugin.callback.step = "none" /\ sems.cancel = 0 /\ app.pc = "start"
      /\ app.cancelling = FALSE
  BY DEF Init
<1>4. RequestsOf(<<>>) = <<>> /\ Len(<<>>) = 0
  BY DEF RequestsOf
<1>5. At(<<>>) = {} /\ Once(<<>>)
  BY <1>4 DEF At, Once
<1>6. OnePlace /\ Started /\ Quiet
  <2>1. OnePlace
    BY <1>3, <1>4, <1>5 DEF OnePlace, Busy
  <2>2. Started
    BY <1>3, <1>4, <1>5 DEF Started, Busy
  <2>3. Quiet
    BY <1>3 DEF Quiet
  <2> QED
    BY <2>1, <2>2, <2>3
<1>7. Order
  BY <1>3, <1>4 DEF Order, Reading
<1>8. Filed
  BY <1>3, <1>4, Counted DEF Filed
<1> QED
  BY <1>2, <1>6, <1>7, <1>8 DEF ResultInv

\* The plugin, the results and the file are left alone.
LEMMA AppMoved ==
    ASSUME ResultInv, AppTypes', Quiet', plugin' = plugin,
           app'.results = app.results, app'.file = app.file,
           app'.cancelling = app.cancelling \/ app'.cancelling = TRUE,
           app'.pc = "start" => app.pc = "start" /\ app'.next = app.next
    PROVE  ResultInv'
<1>1. OnePlace'
  BY DEF ResultInv, OnePlace, Busy
<1>2. Started'
  BY DEF ResultInv, Started, Busy
<1>3. Order'
  BY DEF ResultInv, Order, Reading
<1>4. Filed'
  BY DEF ResultInv, Filed
<1> QED
  BY <1>1, <1>2, <1>3, <1>4 DEF ResultInv

\* image_streaming_app, except when a frame is captured.
LEMMA ImageKept ==
    ASSUME ResultInv, app' = app, plugin' = plugin,
           \/ LoadImageFiles \/ WaitForInferenceApp \/ RepostReady \/ RunCheck \/ EventWait
           \/ SpuriousWake \/ SignalSet \/ SignalCheck \/ SendNextImage \/ SendFails \/ Join
           \/ ImageSigInt
    PROVE  ResultInv'
<1> DEFINE Image(i) == i = [pc |-> i.pc, images |-> i.images, next |-> i.next, sent |-> i.sent,
                            opened |-> i.opened, shutdown |-> i.shutdown, thread |-> i.thread]
<1>1. Image(img) /\ sems \in [ready : Nat, cancel : Nat]
  BY DEF ResultInv, AppTypes
<1>2. PICK S : img.sent \in Seq(S)
  BY DEF ResultInv, AppTypes
<1>3. sems' \in [ready : Nat, cancel : Nat] /\ sems'.cancel = sems.cancel
  BY <1>1 DEF LoadImageFiles, WaitForInferenceApp, RepostReady, RunCheck, EventWait, SpuriousWake,
              SignalSet, SignalCheck, SendNextImage, SendFails, Join, ImageSigInt
<1>4. \/ Image(img') /\ img'.sent = img.sent
      \/ Image(img') /\ img'.sent = Append(img.sent, img.next + 1)
  <2>1. CASE LoadImageFiles \/ WaitForInferenceApp \/ RepostReady \/ RunCheck \/ EventWait
    BY <1>1, <2>1 DEF LoadImageFiles, WaitForInferenceApp, RepostReady, RunCheck, EventWait
  <2>2. CASE SpuriousWake \/ SignalSet \/ SignalCheck \/ SendFails \/ Join \/ ImageSigInt
    BY <1>1, <2>2 DEF SpuriousWake, SignalSet, SignalCheck, SendFails, Join, ImageSigInt
  <2>3. CASE SendNextImage
    BY <1>1, <2>3 DEF SendNextImage, SentEnough
  <2> QED
    BY <2>1, <2>2, <2>3
<1>5. \E T : img'.sent \in Seq(T)
  <2>1. img.sent \in Seq(S \cup {img.next + 1})
    BY <1>2, SeqMonotonic
  <2>2. Append(img.sent, img.next + 1) \in Seq(S \cup {img.next + 1})
    BY <2>1, PushFacts
  <2> QED
    BY <1>2, <1>4, <2>2
<1>6. AppTypes'
  BY <1>3, <1>4, <1>5 DEF ResultInv, AppTypes
<1>7. Quiet'
  BY <1>3 DEF ResultInv, Quiet
<1> QED
  BY <1>6, <1>7, AppMoved

\* streaming_inference_app's main thread, but for the start of its requests.
LEMMA MainKept ==
    ASSUME ResultInv,
           \/ RunRefused \/ SetReadyForImageStreamSemaphore \/ WaitForSignal \/ AppSigInt
           \/ OpenCancelSemaphore \/ PostCancelSemaphore \/ ClearInferences
           \/ DrainCancel \/ DrainReady
    PROVE  ResultInv'
<1>1. app \in App /\ sems \in [ready : Nat, cancel : Nat] /\ plugin' = plugin /\ img' = img
  BY DEF ResultInv, AppTypes, RunRefused, SetReadyForImageStreamSemaphore, WaitForSignal,
         AppSigInt, OpenCancelSemaphore, PostCancelSemaphore, ClearInferences, DrainCancel,
         DrainReady
<1>0. app.cancelling \in BOOLEAN
  BY <1>1 DEF App
<1> DEFINE Kept == /\ app' \in App /\ app'.results = app.results /\ app'.file = app.file
                   /\ app'.next = app.next
                   /\ app'.cancelling = app.cancelling \/ app'.cancelling = TRUE
                   /\ app'.pc = "start" => app.pc = "start"
<1>2. Kept
  <2>1. ASSUME NEW pc \in AppPcs, app' = [app EXCEPT !.pc = pc], pc = "start" => app.pc = "start"
        PROVE  Kept
    BY <1>1, <2>1 DEF App
  <2>2. CASE RunRefused \/ SetReadyForImageStreamSemaphore
    BY <2>1, <2>2 DEF AppPcs, RunRefused, SetReadyForImageStreamSemaphore
  <2>3. CASE WaitForSignal
    BY <2>1, <2>3 DEF AppPcs, WaitForSignal
  <2>4. CASE AppSigInt
    <3>1. app.pc \in AppPcs
      BY <1>1 DEF App
    <3> QED
      BY <2>1, <2>4, <3>1 DEF AppPcs, AppSigInt
  <2>5. CASE OpenCancelSemaphore
    BY <1>1, <2>5 DEF App, AppPcs, OpenCancelSemaphore
  <2>6. CASE PostCancelSemaphore \/ ClearInferences
    BY <2>1, <2>6 DEF AppPcs, PostCancelSemaphore, ClearInferences
  <2>7. CASE DrainCancel \/ DrainReady
    BY <2>1, <2>7 DEF AppPcs, DrainCancel, DrainReady
  <2> QED
    BY <2>2, <2>3, <2>4, <2>5, <2>6, <2>7
<1>3. sems' \in [ready : Nat, cancel : Nat]
  BY <1>1 DEF RunRefused, SetReadyForImageStreamSemaphore, WaitForSignal,
         AppSigInt, OpenCancelSemaphore, PostCancelSemaphore, ClearInferences, DrainCancel,
         DrainReady
<1>4. AppTypes'
  BY <1>1, <1>2, <1>3 DEF ResultInv, AppTypes
<1>5. Quiet'
  <2> DEFINE Empty == /\ plugin.scheduled = <<>> /\ plugin.running = <<>>
                      /\ plugin.completed = <<>> /\ plugin.callback.step = "none"
  <2>1. /\ app.pc \in {"drainCancel", "drainReady", "ended"} \/ (app.pc = "start" /\ app.next = 1)
              => Empty
        /\ sems.cancel > 0 \/ app.pc = "postCancel" => app.cancelling = TRUE
        /\ app.pc \in {"drainReady", "ended"} => sems.cancel = 0
        /\ app.pc = "start" => app.cancelling = FALSE
    BY <1>0 DEF ResultInv, Quiet
  <2> HIDE DEF Empty
  <2>2. /\ app'.pc \in {"drainCancel", "drainReady", "ended"} \/ (app'.pc = "start" /\ app'.next = 1)
              => Empty
        /\ sems'.cancel > 0 \/ app'.pc = "postCancel" => app'.cancelling = TRUE
        /\ app'.pc \in {"drainReady", "ended"} => sems'.cancel = 0
        /\ app'.pc = "start" => app'.cancelling = FALSE
    <3>1. CASE RunRefused
      BY <1>1, <2>1, <3>1 DEF App, RunRefused
    <3>2. CASE SetReadyForImageStreamSemaphore
      BY <1>1, <2>1, <3>2 DEF App, SetReadyForImageStreamSemaphore
    <3>3. CASE WaitForSignal
      BY <1>1, <2>1, <3>3 DEF App, WaitForSignal
    <3>4. CASE AppSigInt
      BY <1>1, <2>1, <3>4 DEF App, AppSigInt
    <3>5. CASE OpenCancelSemaphore
      BY <1>1, <2>1, <3>5 DEF App, OpenCancelSemaphore
    <3>6. CASE PostCancelSemaphore
      BY <1>1, <2>1, <3>6 DEF App, PostCancelSemaphore
    <3>7. CASE ClearInferences
      BY <1>1, <2>1, <3>7 DEF App, ClearInferences, Empty
    <3>8. CASE DrainCancel
      BY <1>1, <2>1, <3>8 DEF App, DrainCancel
    <3>9. CASE DrainReady
      BY <1>1, <2>1, <3>9 DEF App, DrainReady
    <3> QED
      BY <3>1, <3>2, <3>3, <3>4, <3>5, <3>6, <3>7, <3>8, <3>9
  <2> QED
    BY <1>1, <2>2 DEF Quiet, Empty
<1> QED
  BY <1>1, <1>2, <1>4, <1>5, AppMoved

-----------------------------------------------------------------------------
(* Steps of the queues.                                                    *)

\* The requests are started one after the other.
LEMMA StartKept ==
    ASSUME ResultInv, RunStartRequests
    PROVE  ResultInv'
<1> DEFINE r == app.next
<1>1. /\ app \in App /\ plugin \in Plugin /\ app.pc = "start" /\ r \in Requests
      /\ NumRequests \in Nat
  BY Counted DEF ResultInv, AppTypes, RunStartRequests, App, Requests
<1>2. /\ plugin' = [plugin EXCEPT !.scheduled = Append(plugin.scheduled, r)]
      /\ UNCHANGED <<sems, img>>
  BY DEF RunStartRequests, Scheduled
<1>3. /\ app' \in App /\ app'.next = app.next + 1 /\ app'.cancelling = app.cancelling
      /\ app'.results = app.results /\ app'.file = app.file
      /\ app'.pc = IF app.next = NumRequests THEN "post" ELSE "start"
  <2>1. app' = [app EXCEPT !.next = app.next + 1,
                           !.pc = IF app.next = NumRequests THEN "post" ELSE "start"]
    BY DEF RunStartRequests
  <2>2. app.next + 1 \in 1 .. NumRequests + 1
    BY <1>1 DEF Requests
  <2>3. (IF app.next = NumRequests THEN "post" ELSE "start") \in AppPcs
    BY DEF AppPcs
  <2> QED
    BY <1>1, <2>1, <2>2, <2>3 DEF App
<1>4. plugin.scheduled \in Seq(Requests)
  BY <1>1 DEF Plugin
<1>5. Append(plugin.scheduled, r) \in Seq(Requests)
  BY <1>1, <1>4, PushFacts
<1>6. /\ plugin' \in Plugin /\ plugin'.scheduled = Append(plugin.scheduled, r)
      /\ plugin'.running = plugin.running /\ plugin'.completed = plugin.completed
      /\ plugin'.callback = plugin.callback /\ plugin'.tensors = plugin.tensors
      /\ plugin'.captured = plugin.captured
  BY <1>1, <1>2, <1>5 DEF Plugin
<1>7. AppTypes'
  BY <1>1, <1>2, <1>3, <1>6 DEF ResultInv, AppTypes, App
<1>8. /\ r \notin At(plugin.scheduled) \cup At(Busy) \cup At(plugin.completed)
      /\ plugin.callback.step # "none" => plugin.callback.request # r
  BY <1>1 DEF ResultInv, Started, Requests
<1>9. /\ Once(plugin'.scheduled) /\ At(plugin'.scheduled) = At(plugin.scheduled) \cup {r}
      /\ Busy' = Busy
  BY <1>1, <1>4, <1>6, <1>8, PushOnce DEF ResultInv, OnePlace, Busy
<1>10. OnePlace'
  BY <1>6, <1>8, <1>9 DEF ResultInv, OnePlace
<1>11. Started'
  <2>1. \A q \in Requests : q < app.next => q < app'.next
    BY <1>1, <1>3 DEF Requests
  <2>2. r < app'.next
    BY <1>1, <1>3 DEF Requests
  <2>3. /\ \A q \in At(plugin.scheduled) \cup At(Busy) \cup At(plugin.completed) : q < app.next + 1
        /\ plugin.callback.step # "none" => plugin.callback.request < app.next + 1
    <3>1. /\ At(plugin.scheduled) \subseteq Requests /\ At(plugin.completed) \subseteq Requests
          /\ At(Busy) \subseteq Requests
      BY TypeFacts, ElementOfSeq DEF ResultInv, At
    <3>2. plugin.callback.step # "none" => plugin.callback.request \in Requests
      BY DEF ResultInv, OnePlace
    <3> QED
      BY <1>1, <1>3, <2>1, <3>1, <3>2 DEF ResultInv, Started
  <2> QED
    BY <1>3, <1>6, <1>9, <2>2, <2>3 DEF Started
<1>12. Quiet'
  BY <1>1, <1>2, <1>3 DEF ResultInv, Quiet, Requests
<1>13. Order' /\ Filed'
  BY <1>3, <1>6 DEF ResultInv, Order, Filed, Reading
<1> QED
  BY <1>7, <1>10, <1>11, <1>12, <1>13 DEF ResultInv

\* A captured frame starts the oldest scheduled request.
LEMMA CaptureKept ==
    ASSUME ResultInv, SendNextImage
    PROVE  ResultInv'
<1>0. CASE plugin' = plugin
  <2>1. app' = app
    BY DEF SendNextImage
  <2> QED
    BY <1>0, <2>1, ImageKept
<1> DEFINE r == Head(plugin.scheduled)
<1>1. CASE plugin' # plugin
  <2>1. /\ plugin.scheduled # <<>> /\ app' = app /\ sems' = sems
        /\ img' = [SentEnough(Append(img.sent, img.next + 1)) EXCEPT
                      !.next = (img.next + 1) % Len(img.images), !.opened = TRUE]
        /\ plugin' = [plugin EXCEPT
                         !.scheduled = Tail(plugin.scheduled),
                         !.running = Append(plugin.running,
                                            [request |-> r,
                                             frame |-> Len(Append(img.sent, img.next + 1))]),
                         !.captured = Append(plugin.captured,
                                             Len(Append(img.sent, img.next + 1)))]
    BY <1>1 DEF SendNextImage
  <2> DEFINE Image(i) == i = [pc |-> i.pc, images |-> i.images, next |-> i.next, sent |-> i.sent,
                              opened |-> i.opened, shutdown |-> i.shutdown, thread |-> i.thread]
             sent == Append(img.sent, img.next + 1)
             f == Len(sent)
  <2>2. Image(img) /\ plugin \in Plugin /\ app \in App
    BY DEF ResultInv, AppTypes
  <2>3. Image(img') /\ img'.sent = sent
    BY <2>1, <2>2 DEF SentEnough
  <2>4. (\E T : sent \in Seq(T)) /\ f \in Nat
    <3>1. PICK S : img.sent \in Seq(S)
      BY DEF ResultInv, AppTypes
    <3>2. img.sent \in Seq(S \cup {img.next + 1})
      BY <3>1, SeqMonotonic
    <3>3. sent \in Seq(S \cup {img.next + 1})
      BY <3>2, PushFacts
    <3> QED
      BY <3>3, LenProperties
  <2> HIDE DEF sent, f
  <2> DEFINE j == [request |-> r, frame |-> f]
  <2>5. /\ plugin.scheduled \in Seq(Requests) /\ plugin.captured \in Seq(Nat)
        /\ plugin.running \in Seq([request : Requests, frame : Nat])
    BY TypeFacts DEF ResultInv
  <2>6. /\ r \in Requests /\ j \in [request : Requests, frame : Nat]
        /\ Tail(plugin.scheduled) \in Seq(Requests)
    BY <2>1, <2>4, <2>5, PopFacts
  <2>7. /\ plugin'.scheduled = Tail(plugin.scheduled)
        /\ plugin'.running = Append(plugin.running, j)
        /\ plugin'.captured = Append(plugin.captured, f)
        /\ plugin'.completed = plugin.completed /\ plugin'.callback = plugin.callback
        /\ plugin'.tensors = plugin.tensors
    BY <2>1, <2>2 DEF Plugin, sent, f
  <2>8. /\ Append(plugin.running, j) \in Seq([request : Requests, frame : Nat])
        /\ Append(plugin.captured, f) \in Seq(Nat)
    BY <2>4, <2>5, <2>6, PushFacts
  <2>9. plugin' \in Plugin
    BY <2>1, <2>2, <2>6, <2>8 DEF Plugin, sent, f
  <2>10. AppTypes'
    BY <2>1, <2>2, <2>3, <2>4, <2>9 DEF ResultInv, AppTypes
  <2>11. /\ Busy \in Seq(Requests) /\ Busy' = Append(Busy, r)
    BY <2>5, <2>6, <2>7, BusyFacts DEF Busy
  <2> HIDE DEF j, r
  <2>12. /\ Once(plugin.scheduled) /\ Once(Busy) /\ r \notin At(Busy) /\ r \in At(plugin.scheduled)
         /\ Once(plugin'.scheduled) /\ At(plugin'.scheduled) = At(plugin.scheduled) \ {r}
    BY <2>1, <2>5, <2>7, PopOnce DEF ResultInv, OnePlace, r
  <2>13. Once(Busy') /\ At(Busy') = At(Busy) \cup {r}
    BY <2>6, <2>11, <2>12, PushOnce
  <2>14. OnePlace'
    BY <2>7, <2>12, <2>13 DEF ResultInv, OnePlace
  <2>15. Started'
    BY <2>1, <2>7, <2>12, <2>13 DEF ResultInv, Started
  <2>16. Quiet'
    BY <2>1 DEF ResultInv, Quiet
  <2>17. Order'
    <3> DEFINE n == Len(app.results)
               c == Len(plugin.completed)
               L == Len(plugin.captured)
               R == Len(plugin.running)
    <3>1. /\ n \in Nat /\ c \in Nat /\ L \in Nat /\ R \in Nat /\ Reading \in {0, 1}
      BY TypeFacts DEF ResultInv
    <3>2. /\ Len(plugin'.captured) = L + 1 /\ plugin'.captured[L + 1] = f
          /\ \A i \in 1 .. L : plugin'.captured[i] = plugin.captured[i]
      BY <2>4, <2>5, <2>7, PushFacts
    <3>3. /\ Len(plugin'.running) = R + 1 /\ plugin'.running[R + 1].frame = f
          /\ \A i \in 1 .. R : plugin'.running[i] = plugin.running[i]
      BY <2>5, <2>6, <2>7, PushFacts DEF j
    <3>4. Reading' = Reading /\ app' = app
      BY <2>1, <2>7 DEF Reading
    <3>5. /\ n + Reading <= L
          /\ \A i \in 1 .. n : app.results[i] = plugin.captured[i]
          /\ Reading = 1 => plugin.tensors[plugin.callback.request] = plugin.captured[n + 1]
          /\ ~app.cancelling =>
                /\ L = n + Reading + c + R
                /\ \A i \in 1 .. c :
                      plugin.tensors[plugin.completed[i]] = plugin.captured[n + Reading + i]
                /\ \A i \in 1 .. R :
                      plugin.running[i].frame = plugin.captured[n + Reading + c + i]
      BY DEF ResultInv, Order
    <3> HIDE DEF n, c, L, R
    <3>6. /\ n + Reading <= L + 1
          /\ \A i \in 1 .. n : app.results[i] = plugin'.captured[i]
          /\ Reading = 1 => plugin.tensors[plugin.callback.request] = plugin'.captured[n + 1]
      BY <3>1, <3>2, <3>5
    <3>7. ASSUME ~app.cancelling
          PROVE  /\ L + 1 = n + Reading + c + (R + 1)
                 /\ \A i \in 1 .. c :
                       plugin.tensors[plugin.completed[i]] = plugin'.captured[n + Reading + i]
                 /\ \A i \in 1 .. R + 1 :
                       plugin'.running[i].frame = plugin'.captured[n + Reading + c + i]
      <4>1. L = n + Reading + c + R
        BY <3>5, <3>7
      <4>2. \A i \in 1 .. c :
               plugin.tensors[plugin.completed[i]] = plugin'.captured[n + Reading + i]
        BY <3>1, <3>2, <3>5, <3>7, <4>1
      <4>3. \A i \in 1 .. R + 1 :
               plugin'.running[i].frame = plugin'.captured[n + Reading + c + i]
        <5> TAKE i \in 1 .. R + 1
        <5>1. CASE i \in 1 .. R
          <6>1. n + Reading + c + i \in 1 .. L
            BY <3>1, <4>1, <5>1
          <6>2. plugin'.captured[n + Reading + c + i] = plugin.captured[n + Reading + c + i]
            BY <3>2, <6>1
          <6>3. plugin'.running[i] = plugin.running[i]
            BY <3>3, <5>1
          <6>4. plugin.running[i].frame = plugin.captured[n + Reading + c + i]
            BY <3>5, <3>7, <5>1
          <6> QED
            BY <6>2, <6>3, <6>4
        <5>2. CASE i = R + 1
          <6>1. n + Reading + c + i = L + 1
            BY <3>1, <4>1, <5>2
          <6>2. plugin'.captured[n + Reading + c + i] = f
            BY <3>2, <6>1
          <6> QED
            BY <3>3, <5>2, <6>2
        <5> QED
          BY <3>1, <5>1, <5>2
      <4> QED
        BY <3>1, <4>1, <4>2, <4>3
    <3> QED
      BY <2>7, <3>2, <3>3, <3>4, <3>6, <3>7 DEF Order, n, c
  <2>18. Filed'
    BY <2>1 DEF ResultInv, Filed
  <2> QED
    BY <2>10, <2>14, <2>15, <2>16, <2>17, <2>18 DEF ResultInv
<1> QED
  BY <1>0, <1>1

\* What the invariant says of the order, with names for the lengths.
LEMMA OrderFacts ==
    ASSUME ResultInv
    PROVE  LET n == Len(app.results)
               k == Reading
               c == Len(plugin.completed)
               L == Len(plugin.captured)
               R == Len(plugin.running)
           IN  /\ n \in Nat /\ c \in Nat /\ L \in Nat /\ R \in Nat /\ k \in {0, 1}
               /\ n + k <= L
               /\ \A i \in 1 .. n : app.results[i] = plugin.captured[i]
               /\ k = 1 => plugin.tensors[plugin.callback.request] = plugin.captured[n + 1]
               /\ ~app.cancelling =>
                     /\ L = n + k + c + R
                     /\ \A i \in 1 .. c :
                           plugin.tensors[plugin.completed[i]] = plugin.captured[n + k + i]
                     /\ \A i \in 1 .. R :
                           plugin.running[i].frame = plugin.captured[n + k + c + i]
BY TypeFacts DEF ResultInv, Order

\* The oldest inference finishes: its frame stays next in the order.
LEMMA DoneKept ==
    ASSUME ResultInv, InferenceDone
    PROVE  ResultInv'
<1> DEFINE job == Head(plugin.running)
           r == job.request
           n == Len(app.results)
           c == Len(plugin.completed)
           L == Len(plugin.captured)
           R == Len(plugin.running)
<1>1. /\ plugin.running # <<>> /\ UNCHANGED <<sems, img, app>>
      /\ plugin' = [plugin EXCEPT !.running = Tail(plugin.running),
                                  !.tensors = [plugin.tensors EXCEPT ![r] = job.frame],
                                  !.completed = Append(plugin.completed, r)]
  BY DEF InferenceDone
<1>2. /\ plugin \in Plugin /\ app \in App
      /\ plugin.completed \in Seq(Requests) /\ plugin.tensors \in [Requests -> Nat]
      /\ plugin.running \in Seq([request : Requests, frame : Nat])
  BY TypeFacts DEF ResultInv, AppTypes
<1>3. /\ job \in [request : Requests, frame : Nat] /\ r \in Requests /\ job.frame \in Nat
      /\ Tail(plugin.running) \in Seq([request : Requests, frame : Nat])
      /\ R \in Nat \ {0} /\ Len(Tail(plugin.running)) = R - 1 /\ job = plugin.running[1]
      /\ \A i \in 1 .. R - 1 : Tail(plugin.running)[i] = plugin.running[i + 1]
  <2>1. /\ job \in [request : Requests, frame : Nat]
        /\ Tail(plugin.running) \in Seq([request : Requests, frame : Nat])
        /\ R \in Nat \ {0} /\ Len(Tail(plugin.running)) = R - 1 /\ job = plugin.running[1]
        /\ \A i \in 1 .. R - 1 : Tail(plugin.running)[i] = plugin.running[i + 1]
    BY <1>1, <1>2, PopFacts
  <2> HIDE DEF job
  <2>2. r \in Requests /\ job.frame \in Nat
    BY <2>1
  <2> QED
    BY <2>1, <2>2
<1>4. /\ Append(plugin.completed, r) \in Seq(Requests)
      /\ c \in Nat /\ Len(Append(plugin.completed, r)) = c + 1
      /\ Append(plugin.completed, r)[c + 1] = r
      /\ \A i \in 1 .. c : Append(plugin.completed, r)[i] = plugin.completed[i]
  BY <1>2, <1>3, PushFacts
<1> HIDE DEF job, r
<1>5. [plugin.tensors EXCEPT ![r] = job.frame] \in [Requests -> Nat]
  BY <1>2, <1>3
<1>6. /\ plugin' \in Plugin /\ plugin'.scheduled = plugin.scheduled
      /\ plugin'.running = Tail(plugin.running)
      /\ plugin'.completed = Append(plugin.completed, r)
      /\ plugin'.callback = plugin.callback /\ plugin'.captured = plugin.captured
      /\ plugin'.tensors = [plugin.tensors EXCEPT ![r] = job.frame]
  BY <1>1, <1>2, <1>3, <1>4, <1>5 DEF Plugin
<1>7. AppTypes'
  BY <1>1, <1>6 DEF ResultInv, AppTypes
<1>8. /\ Busy \in Seq(Requests) /\ Busy # <<>> /\ Head(Busy) = r /\ Busy' = Tail(Busy)
  BY <1>1, <1>2, <1>6, BusyFacts DEF Busy, r, job
<1>9. /\ Once(Busy) /\ Once(plugin.completed) /\ r \in At(Busy) /\ r \notin At(plugin.completed)
      /\ Once(Busy') /\ At(Busy') = At(Busy) \ {r}
      /\ plugin.callback.step # "none" => plugin.callback.request \in Requests \ {r}
  BY <1>8, PopOnce DEF ResultInv, OnePlace
<1>10. Once(plugin'.completed) /\ At(plugin'.completed) = At(plugin.completed) \cup {r}
  BY <1>2, <1>3, <1>6, <1>9, PushOnce
<1>11. OnePlace'
  BY <1>6, <1>9, <1>10 DEF ResultInv, OnePlace
<1>12. Started'
  BY <1>1, <1>6, <1>9, <1>10 DEF ResultInv, Started
<1>13. Quiet'
  BY <1>1 DEF ResultInv, Quiet
<1>14. Order'
  <2>1. Reading' = Reading /\ app' = app
    BY <1>1, <1>6 DEF Reading
  <2>2. \A q \in Requests \ {r} : plugin'.tensors[q] = plugin.tensors[q]
    BY <1>2, <1>6
  <2>3. Reading = 1 => plugin.callback.request \in Requests \ {r}
    BY <1>9 DEF Reading
  <2>4. plugin'.tensors[r] = job.frame
    BY <1>2, <1>3, <1>6
  <2>5. \A i \in 1 .. c : plugin.completed[i] \in Requests \ {r}
    BY <1>2, <1>9, ElementOfSeq DEF At
  <2>6. /\ n \in Nat /\ L \in Nat /\ Reading \in {0, 1} /\ n + Reading <= L
        /\ \A i \in 1 .. n : app.results[i] = plugin.captured[i]
        /\ Reading = 1 => plugin.tensors[plugin.callback.request] = plugin.captured[n + 1]
    BY OrderFacts
  <2>7. ~app.cancelling =>
            /\ L = n + Reading + c + R
            /\ \A i \in 1 .. c :
                  plugin.tensors[plugin.completed[i]] = plugin.captured[n + Reading + i]
            /\ \A i \in 1 .. R :
                  plugin.running[i].frame = plugin.captured[n + Reading + c + i]
    BY OrderFacts
  <2> HIDE DEF n, c, L, R
  <2>8. ASSUME ~app.cancelling
        PROVE  /\ L = n + Reading + (c + 1) + (R - 1)
               /\ \A i \in 1 .. c + 1 :
                     plugin'.tensors[plugin'.completed[i]] = plugin.captured[n + Reading + i]
               /\ \A i \in 1 .. R - 1 :
                     plugin'.running[i].frame = plugin.captured[n + Reading + (c + 1) + i]
    <3>1. L = n + Reading + c + R
      BY <2>7, <2>8
    <3>2. job.frame = plugin.captured[n + Reading + c + 1]
      <4>1. 1 \in 1 .. R
        BY <1>3
      <4> QED
        BY <1>3, <2>7, <2>8, <4>1
    <3>3. ASSUME NEW i \in 1 .. c + 1
          PROVE  plugin'.tensors[plugin'.completed[i]] = plugin.captured[n + Reading + i]
      <4>1. CASE i \in 1 .. c
        <5>1. plugin'.completed[i] = plugin.completed[i]
          BY <1>4, <1>6, <4>1
        <5>2. plugin'.tensors[plugin.completed[i]] = plugin.tensors[plugin.completed[i]]
          BY <2>2, <2>5, <4>1
        <5> QED
          BY <2>7, <2>8, <4>1, <5>1, <5>2
      <4>2. CASE i = c + 1
        <5>1. plugin'.completed[i] = r
          BY <1>4, <1>6, <4>2
        <5>2. n + Reading + i = n + Reading + c + 1
          BY <1>4, <2>6, <4>2
        <5> QED
          BY <2>4, <3>2, <5>1, <5>2
      <4> QED
        BY <1>4, <4>1, <4>2
    <3>4. ASSUME NEW i \in 1 .. R - 1
          PROVE  plugin'.running[i].frame = plugin.captured[n + Reading + (c + 1) + i]
      <4>1. i + 1 \in 1 .. R /\ n + Reading + c + (i + 1) = n + Reading + (c + 1) + i
        BY <1>3, <1>4, <2>6
      <4>2. plugin'.running[i] = plugin.running[i + 1]
        BY <1>3, <1>6
      <4>3. plugin.running[i + 1].frame = plugin.captured[n + Reading + c + (i + 1)]
        BY <2>7, <2>8, <4>1
      <4> QED
        BY <4>1, <4>2, <4>3
    <3> QED
      BY <1>3, <1>4, <2>6, <3>1, <3>3, <3>4
  <2>9. Reading = 1 => plugin'.tensors[plugin.callback.request] = plugin.captured[n + 1]
    BY <2>2, <2>3, <2>6
  <2>10. Len(plugin'.completed) = c + 1 /\ Len(plugin'.running) = R - 1
    BY <1>3, <1>4, <1>6
  <2> QED
    BY <1>6, <2>1, <2>6, <2>8, <2>9, <2>10 DEF Order, n, L
<1>15. Filed'
  BY <1>1 DEF ResultInv, Filed
<1> QED
  BY <1>7, <1>11, <1>12, <1>13, <1>14, <1>15 DEF ResultInv

\* Only after Ctrl-C a scheduled request completes without a frame.
LEMMA AbortKept ==
    ASSUME ResultInv, AbortScheduled
    PROVE  ResultInv'
<1> DEFINE r == Head(plugin.scheduled)
<1>1. /\ plugin.scheduled # <<>> /\ UNCHANGED <<sems, img, app>> /\ sems.cancel > 0
      /\ plugin' = [plugin EXCEPT !.scheduled = Tail(plugin.scheduled),
                                  !.completed = Append(plugin.completed, r)]
  BY DEF AbortScheduled
<1>2. /\ plugin \in Plugin
      /\ plugin.completed \in Seq(Requests) /\ plugin.scheduled \in Seq(Requests)
  BY TypeFacts DEF ResultInv, AppTypes
<1>3. r \in Requests /\ Tail(plugin.scheduled) \in Seq(Requests)
  BY <1>1, <1>2, PopFacts
<1>4. Append(plugin.completed, r) \in Seq(Requests)
  BY <1>2, <1>3, PushFacts
<1>5. /\ plugin' \in Plugin /\ plugin'.scheduled = Tail(plugin.scheduled)
      /\ plugin'.completed = Append(plugin.completed, r)
      /\ plugin'.running = plugin.running /\ plugin'.callback = plugin.callback
      /\ plugin'.captured = plugin.captured /\ plugin'.tensors = plugin.tensors
  BY <1>1, <1>2, <1>3, <1>4 DEF Plugin
<1>6. AppTypes'
  BY <1>1, <1>5 DEF ResultInv, AppTypes
<1>7. /\ Once(plugin.scheduled) /\ Once(plugin.completed) /\ r \in At(plugin.scheduled)
      /\ r \notin At(plugin.completed) /\ r \notin At(Busy)
      /\ Once(plugin'.scheduled) /\ At(plugin'.scheduled) = At(plugin.scheduled) \ {r}
  BY <1>1, <1>2, <1>5, PopOnce DEF ResultInv, OnePlace
<1> HIDE DEF r
<1>8. Once(plugin'.completed) /\ At(plugin'.completed) = At(plugin.completed) \cup {r}
  BY <1>2, <1>3, <1>5, <1>7, PushOnce
<1>9. Busy' = Busy
  BY <1>5 DEF Busy
<1>10. OnePlace'
  BY <1>5, <1>7, <1>8, <1>9 DEF ResultInv, OnePlace
<1>11. Started'
  BY <1>1, <1>5, <1>7, <1>8, <1>9 DEF ResultInv, Started
<1>12. Quiet'
  BY <1>1 DEF ResultInv, Quiet
<1>13. app.cancelling /\ app' = app /\ Reading' = Reading
  BY <1>1, <1>5 DEF ResultInv, Quiet, Reading
<1>14. Order'
  BY <1>5, <1>13 DEF ResultInv, Order
<1>15. Filed'
  BY <1>1 DEF ResultInv, Filed
<1> QED
  BY <1>6, <1>10, <1>11, <1>12, <1>14, <1>15 DEF ResultInv

\* The oldest completed request enters its callback, to be read or dropped.
LEMMA ProcessKept ==
    ASSUME ResultInv, ProcessResult
    PROVE  ResultInv'
<1> DEFINE r == Head(plugin.completed)
           step == IF app.cancelling THEN "none" ELSE "read"
           n == Len(app.results)
           c == Len(plugin.completed)
           L == Len(plugin.captured)
           R == Len(plugin.running)
<1>1. /\ plugin.completed # <<>> /\ UNCHANGED <<sems, img, app>> /\ plugin.callback.step = "none"
      /\ plugin' = [plugin EXCEPT !.completed = Tail(plugin.completed),
                                  !.callback = [request |-> r, step |-> step]]
  BY DEF ProcessResult, Callback
<1>2. plugin \in Plugin /\ plugin.completed \in Seq(Requests) /\ Requests \subseteq Nat
  BY TypeFacts DEF ResultInv, AppTypes, Requests
<1>3. /\ r \in Requests /\ Tail(plugin.completed) \in Seq(Requests) /\ r = plugin.completed[1]
      /\ c \in Nat \ {0} /\ Len(Tail(plugin.completed)) = c - 1
      /\ \A i \in 1 .. c - 1 : Tail(plugin.completed)[i] = plugin.completed[i + 1]
  BY <1>1, <1>2, PopFacts
<1>4. [request |-> r, step |-> step] \in [request : Nat, step : {"none", "read", "start"}]
  BY <1>2, <1>3
<1>5. /\ plugin' \in Plugin /\ plugin'.scheduled = plugin.scheduled
      /\ plugin'.completed = Tail(plugin.completed)
      /\ plugin'.callback = [request |-> r, step |-> step]
      /\ plugin'.running = plugin.running
      /\ plugin'.captured = plugin.captured /\ plugin'.tensors = plugin.tensors
  BY <1>1, <1>2, <1>3, <1>4 DEF Plugin
<1>6. AppTypes'
  BY <1>1, <1>5 DEF ResultInv, AppTypes
<1>7. /\ r \in At(plugin.completed) /\ r \notin At(plugin.scheduled) /\ r \notin At(Busy)
      /\ Once(plugin'.completed) /\ At(plugin'.completed) = At(plugin.completed) \ {r}
  BY <1>1, <1>2, <1>5, PopOnce DEF ResultInv, OnePlace
<1> HIDE DEF r, step
<1>8. Busy' = Busy /\ plugin'.callback.request = r /\ plugin'.callback.step = step
  BY <1>5 DEF Busy
<1>9. OnePlace'
  BY <1>3, <1>5, <1>7, <1>8 DEF ResultInv, OnePlace
<1>10. Started'
  BY <1>1, <1>5, <1>7, <1>8 DEF ResultInv, Started
<1>11. Quiet'
  BY <1>1 DEF ResultInv, Quiet
<1>12. Order'
  <2>1. /\ n \in Nat /\ L \in Nat /\ R \in Nat /\ n <= L
        /\ \A i \in 1 .. n : app.results[i] = plugin.captured[i]
    BY OrderFacts
  <2>2. ~app.cancelling =>
            /\ L = n + c + R
            /\ \A i \in 1 .. c : plugin.tensors[plugin.completed[i]] = plugin.captured[n + i]
            /\ \A i \in 1 .. R : plugin.running[i].frame = plugin.captured[n + c + i]
    <3>1. Reading = 0 /\ n + 0 = n
      BY <1>1, <2>1 DEF Reading
    <3>2. ~app.cancelling =>
            /\ L = n + Reading + c + R
            /\ \A i \in 1 .. c :
                  plugin.tensors[plugin.completed[i]] = plugin.captured[n + Reading + i]
            /\ \A i \in 1 .. R :
                  plugin.running[i].frame = plugin.captured[n + Reading + c + i]
      BY OrderFacts
    <3> QED
      BY <3>1, <3>2
  <2> HIDE DEF n, c, L, R
  <2>3. CASE app.cancelling
    <3>1. Reading' = 0 /\ n + 0 = n
      BY <1>8, <2>1, <2>3 DEF Reading, step
    <3> QED
      BY <1>1, <1>5, <2>1, <2>3, <3>1 DEF Order, n, L
  <2>4. CASE ~app.cancelling
    <3>1. Reading' = 1
      BY <1>8, <2>4 DEF Reading, step
    <3>2. n + 1 <= L
      BY <1>3, <2>1, <2>2, <2>4
    <3>3. plugin.tensors[r] = plugin.captured[n + 1]
      <4>1. 1 \in 1 .. c
        BY <1>3
      <4> QED
        BY <1>3, <2>2, <2>4, <4>1
    <3>4. L = n + 1 + (c - 1) + R
      BY <1>3, <2>1, <2>2, <2>4
    <3>5. ASSUME NEW i \in 1 .. c - 1
          PROVE  plugin.tensors[plugin'.completed[i]] = plugin.captured[n + 1 + i]
      <4>1. i + 1 \in 1 .. c /\ n + (i + 1) = n + 1 + i
        BY <1>3, <2>1
      <4>2. plugin'.completed[i] = plugin.completed[i + 1]
        BY <1>3, <1>5
      <4>3. plugin.tensors[plugin.completed[i + 1]] = plugin.captured[n + (i + 1)]
        BY <2>2, <2>4, <4>1
      <4> QED
        BY <4>1, <4>2, <4>3
    <3>6. ASSUME NEW i \in 1 .. R
          PROVE  plugin.running[i].frame = plugin.captured[n + 1 + (c - 1) + i]
      <4>1. n + c + i = n + 1 + (c - 1) + i
        BY <1>3, <2>1
      <4>2. plugin.running[i].frame = plugin.captured[n + c + i]
        BY <2>2, <2>4
      <4> QED
        BY <4>1, <4>2
    <3>7. Len(plugin'.completed) = c - 1
      BY <1>3, <1>5
    <3>8. /\ app' = app /\ Len(plugin'.captured) = L /\ Len(plugin'.running) = R
          /\ plugin'.captured = plugin.captured
      BY <1>1, <1>5 DEF L, R
    <3>9. \A i \in 1 .. Len(plugin'.completed) :
             plugin'.tensors[plugin'.completed[i]] = plugin'.captured[n + Reading' + i]
      BY <1>5, <3>1, <3>5, <3>7
    <3>10. \A i \in 1 .. R :
              plugin'.running[i].frame = plugin'.captured[n + Reading' + Len(plugin'.completed) + i]
      BY <1>5, <3>1, <3>6, <3>7
    <3>11. plugin'.tensors[plugin'.callback.request] = plugin'.captured[n + 1]
      BY <1>5, <1>8, <3>3
    <3>12. L = n + Reading' + Len(plugin'.completed) + R /\ n + Reading' <= L
      BY <3>1, <3>2, <3>4, <3>7
    <3> QED
      BY <2>1, <3>8, <3>9, <3>10, <3>11, <3>12 DEF Order, n
  <2> QED
    BY <2>3, <2>4
<1>13. Filed'
  BY <1>1 DEF ResultInv, Filed
<1> QED
  BY <1>6, <1>9, <1>10, <1>11, <1>12, <1>13 DEF ResultInv

\* The scores are printed, and the first of them filed.
LEMMA PrintKept ==
    ASSUME ResultInv, PrintResult
    PROVE  ResultInv'
<1> DEFINE n == Len(app.results)
           x == plugin.tensors[plugin.callback.request]
           file == CASE n + 1 <= ResultsKept -> Append(app.file, x)
                     [] n + 1 = ResultsKept + 1 -> Append(app.file, EndOfCapture)
                     [] OTHER -> app.file
<1>1. /\ plugin.callback.step = "read" /\ UNCHANGED <<sems, img>>
      /\ app' = [app EXCEPT !.results = Append(app.results, x), !.file = file]
      /\ plugin' = [plugin EXCEPT !.callback.step = "start"]
  BY DEF PrintResult
<1>2. /\ plugin \in Plugin /\ app \in App /\ app.results \in Seq(Nat) /\ app.file \in Seq(Nat)
      /\ plugin.callback \in [request : Nat, step : {"none", "read", "start"}]
      /\ plugin.callback.request \in Requests
  <2>1. plugin.callback.request \in Requests
    BY <1>1 DEF ResultInv, OnePlace
  <2> QED
    BY <2>1 DEF ResultInv, AppTypes, Plugin, App
<1>3. /\ x \in Nat /\ n \in Nat /\ ResultsKept \in Nat /\ EndOfCapture \in Nat
      /\ Len(app.file) \in Nat
  BY <1>2, Counted, LenProperties DEF Plugin, EndOfCapture
<1>4. /\ Append(app.results, x) \in Seq(Nat) /\ Len(Append(app.results, x)) = n + 1
      /\ Append(app.results, x)[n + 1] = x
      /\ \A i \in 1 .. n : Append(app.results, x)[i] = app.results[i]
  BY <1>2, <1>3, PushFacts
<1>5. \A e \in Nat :
         /\ Append(app.file, e) \in Seq(Nat) /\ Len(Append(app.file, e)) = Len(app.file) + 1
         /\ Append(app.file, e)[Len(app.file) + 1] = e
         /\ \A i \in 1 .. Len(app.file) : Append(app.file, e)[i] = app.file[i]
  BY <1>2, PushFacts
<1> HIDE DEF x, n
<1>6. /\ n + 1 <= ResultsKept => file = Append(app.file, x)
      /\ n + 1 = ResultsKept + 1 => file = Append(app.file, EndOfCapture)
      /\ ~(n + 1 <= ResultsKept) /\ n + 1 # ResultsKept + 1 => file = app.file
  BY <1>3
<1> HIDE DEF file
<1>7. file \in Seq(Nat)
  BY <1>2, <1>3, <1>5, <1>6
<1>8. /\ app' \in App /\ app'.results = Append(app.results, x) /\ app'.file = file
      /\ app'.cancelling = app.cancelling /\ app'.pc = app.pc /\ app'.next = app.next
  BY <1>1, <1>2, <1>4, <1>7 DEF App
<1>9. /\ plugin'.callback.request = plugin.callback.request /\ plugin'.callback.step = "start"
      /\ plugin'.callback \in [request : Nat, step : {"none", "read", "start"}]
  BY <1>1, <1>2 DEF Plugin
<1>10. /\ plugin' \in Plugin /\ plugin'.scheduled = plugin.scheduled
       /\ plugin'.completed = plugin.completed /\ plugin'.running = plugin.running
       /\ plugin'.captured = plugin.captured /\ plugin'.tensors = plugin.tensors
  BY <1>1, <1>2, <1>9 DEF Plugin
<1>11. AppTypes'
  BY <1>1, <1>8, <1>10 DEF ResultInv, AppTypes
<1>12. Busy' = Busy
  BY <1>10 DEF Busy
<1>13. OnePlace' /\ Started'
  <2>1. OnePlace'
    BY <1>1, <1>9, <1>10, <1>12 DEF ResultInv, OnePlace
  <2>2. Started'
    BY <1>1, <1>8, <1>9, <1>10, <1>12 DEF ResultInv, Started
  <2> QED
    BY <2>1, <2>2
<1>14. Quiet'
  BY <1>1, <1>8, <1>9, <1>10 DEF ResultInv, Quiet
<1>15. Order'
  <2> DEFINE c == Len(plugin.completed)
             L == Len(plugin.captured)
             R == Len(plugin.running)
  <2>1. Reading = 1 /\ Reading' = 0
    BY <1>1, <1>9 DEF Reading
  <2>2. /\ c \in Nat /\ L \in Nat /\ n + 1 <= L /\ x = plugin.captured[n + 1]
        /\ \A i \in 1 .. n : app.results[i] = plugin.captured[i]
    BY <2>1, OrderFacts DEF n, x
  <2>3. ~app.cancelling =>
            /\ L = n + 1 + c + R
            /\ \A i \in 1 .. c : plugin.tensors[plugin.completed[i]] = plugin.captured[n + 1 + i]
            /\ \A i \in 1 .. R : plugin.running[i].frame = plugin.captured[n + 1 + c + i]
    BY <2>1, OrderFacts DEF n
  <2>4. Len(app'.results) = n + 1 /\ n + 1 + Reading' = n + 1
    BY <1>3, <1>4, <1>8, <2>1
  <2>5. \A i \in 1 .. n + 1 : app'.results[i] = plugin.captured[i]
    <3> TAKE i \in 1 .. n + 1
    <3>1. i \in 1 .. n \/ i = n + 1
      BY <1>3
    <3> QED
      BY <1>4, <1>8, <2>2, <3>1
  <2>6. /\ app'.cancelling = app.cancelling /\ plugin'.completed = plugin.completed
        /\ plugin'.running = plugin.running /\ plugin'.captured = plugin.captured
        /\ plugin'.tensors = plugin.tensors
    BY <1>8, <1>10
  <2> HIDE DEF c, L, R
  <2>7. ~app.cancelling =>
            /\ L = n + 1 + Reading' + c + R
            /\ \A i \in 1 .. c :
                  plugin.tensors[plugin.completed[i]] = plugin.captured[n + 1 + Reading' + i]
            /\ \A i \in 1 .. R :
                  plugin.running[i].frame = plugin.captured[n + 1 + Reading' + c + i]
    BY <2>3, <2>4
  <2> QED
    <3>1. /\ Len(plugin'.completed) = c /\ Len(plugin'.captured) = L /\ Len(plugin'.running) = R
      BY <2>6 DEF c, L, R
    <3>2. n + 1 + Reading' <= L /\ Reading' # 1
      BY <2>1, <2>2, <2>4
    <3>3. \A i \in 1 .. n + 1 : app'.results[i] = plugin'.captured[i]
      BY <2>5, <2>6
    <3>4. ~app'.cancelling =>
            /\ L = n + 1 + Reading' + c + R
            /\ \A i \in 1 .. c :
                  plugin'.tensors[plugin'.completed[i]] = plugin'.captured[n + 1 + Reading' + i]
            /\ \A i \in 1 .. R :
                  plugin'.running[i].frame = plugin'.captured[n + 1 + Reading' + c + i]
      BY <2>6, <2>7
    <3> DEFINE m == n + 1
    <3>5. Len(app'.results) = m
      BY <2>4
    <3> HIDE DEF m
    <3> QED
      BY <3>1, <3>2, <3>3, <3>4, <3>5 DEF Order, m
<1>16. Filed'
  <2>1. /\ Len(app.file) = IF n <= ResultsKept THEN n ELSE ResultsKept + 1
        /\ \A i \in 1 .. Len(app.file) :
              app.file[i] = IF i <= ResultsKept THEN app.results[i] ELSE EndOfCapture
    BY DEF ResultInv, Filed, n
  <2>2. Len(app'.results) = n + 1
    BY <1>4, <1>8
  <2>3. CASE n + 1 <= ResultsKept
    <3>1. Len(app.file) = n /\ Len(app'.file) = n + 1 /\ app'.file[n + 1] = x
      BY <1>3, <1>5, <1>6, <1>8, <2>1, <2>3
    <3>2. \A i \in 1 .. n : app'.file[i] = app.file[i] /\ app.file[i] = app.results[i]
      <4>1. app'.file = Append(app.file, x)
        BY <1>6, <1>8, <2>3
      <4>2. \A i \in 1 .. n : app'.file[i] = app.file[i]
        BY <1>3, <1>5, <3>1, <4>1
      <4>3. \A i \in 1 .. n : i <= ResultsKept
        BY <1>3, <2>3
      <4> QED
        BY <2>1, <3>1, <4>2, <4>3
    <3>3. \A i \in 1 .. n + 1 : app'.file[i] = app'.results[i]
      <4> TAKE i \in 1 .. n + 1
      <4>1. i \in 1 .. n \/ i = n + 1
        BY <1>3
      <4> QED
        BY <1>4, <1>8, <3>1, <3>2, <4>1
    <3>4. \A i \in 1 .. n + 1 : i <= ResultsKept
      BY <1>3, <2>3
    <3> QED
      BY <2>2, <2>3, <3>1, <3>3, <3>4 DEF Filed
  <2>4. CASE n + 1 > ResultsKept
    <3>1. Len(app'.file) = ResultsKept + 1 /\ app'.file[ResultsKept + 1] = EndOfCapture
      BY <1>3, <1>5, <1>6, <1>8, <2>1, <2>4
    <3>2. \A i \in 1 .. ResultsKept : app'.file[i] = app.file[i] /\ app.file[i] = app.results[i]
      <4>1. \A i \in 1 .. ResultsKept : i \in 1 .. Len(app.file) /\ i <= ResultsKept
        BY <1>3, <2>1, <2>4
      <4>2. app'.file = app.file \/ app'.file = Append(app.file, EndOfCapture)
        BY <1>3, <1>6, <1>8, <2>4
      <4>3. \A i \in 1 .. ResultsKept : app'.file[i] = app.file[i]
        BY <1>3, <1>5, <4>1, <4>2
      <4> QED
        BY <2>1, <4>1, <4>3
    <3>3. \A i \in 1 .. ResultsKept : app'.file[i] = app'.results[i]
      <4> TAKE i \in 1 .. ResultsKept
      <4>1. i \in 1 .. n
        BY <1>3, <2>4
      <4> QED
        BY <1>4, <1>8, <3>2, <4>1
    <3>4. \A i \in 1 .. ResultsKept + 1 :
             app'.file[i] = IF i <= ResultsKept THEN app'.results[i] ELSE EndOfCapture
      <4> TAKE i \in 1 .. ResultsKept + 1
      <4>1. (i \in 1 .. ResultsKept /\ i <= ResultsKept)
               \/ (i = ResultsKept + 1 /\ ~(i <= ResultsKept))
        BY <1>3
      <4> QED
        BY <3>1, <3>3, <4>1
    <3>5. EndOfCapture' = EndOfCapture /\ ~(n + 1 <= ResultsKept)
      BY <1>3, <2>4 DEF EndOfCapture
    <3> QED
      BY <2>2, <3>1, <3>4, <3>5 DEF Filed
  <2> QED
    BY <1>3, <2>3, <2>4
<1> QED
  BY <1>11, <1>13, <1>14, <1>15, <1>16 DEF ResultInv

\* The callback schedules its request again.
LEMMA RestartKept ==
    ASSUME ResultInv, StartAsync
    PROVE  ResultInv'
<1> DEFINE r == plugin.callback.request
<1>1. /\ plugin.callback.step = "start" /\ UNCHANGED <<sems, img, app>>
      /\ plugin' = [[plugin EXCEPT !.scheduled = Append(plugin.scheduled, r)]
                       EXCEPT !.callback = [request |-> 0, step |-> "none"]]
  BY DEF StartAsync, Scheduled, Callback
<1>2. /\ plugin \in Plugin /\ plugin.scheduled \in Seq(Requests) /\ r \in Requests
      /\ r \notin At(plugin.scheduled) \cup At(Busy) \cup At(plugin.completed)
      /\ Once(plugin.scheduled)
  BY <1>1, TypeFacts DEF ResultInv, AppTypes, OnePlace
<1>3. Append(plugin.scheduled, r) \in Seq(Requests)
  BY <1>2, PushFacts
<1>4. /\ plugin' \in Plugin /\ plugin'.scheduled = Append(plugin.scheduled, r)
      /\ plugin'.callback.step = "none"
      /\ plugin'.completed = plugin.completed /\ plugin'.running = plugin.running
      /\ plugin'.captured = plugin.captured /\ plugin'.tensors = plugin.tensors
  BY <1>1, <1>2, <1>3 DEF Plugin
<1>5. AppTypes'
  BY <1>1, <1>4 DEF ResultInv, AppTypes
<1> HIDE DEF r
<1>6. /\ Once(plugin'.scheduled) /\ At(plugin'.scheduled) = At(plugin.scheduled) \cup {r}
      /\ Busy' = Busy
  BY <1>2, <1>4, PushOnce DEF Busy
<1>7. OnePlace'
  BY <1>2, <1>4, <1>6 DEF ResultInv, OnePlace
<1>8. Started'
  BY <1>1, <1>4, <1>6 DEF ResultInv, Started, r
<1>9. Quiet'
  BY <1>1 DEF ResultInv, Quiet
<1>10. Order'
  <2>1. Reading = 0 /\ Reading' = 0
    BY <1>1, <1>4 DEF Reading
  <2>2. /\ app' = app /\ plugin'.completed = plugin.completed
        /\ plugin'.running = plugin.running /\ plugin'.captured = plugin.captured
        /\ plugin'.tensors = plugin.tensors
    BY <1>1, <1>4
  <2>3. Order
    BY DEF ResultInv
  <2>4. Reading' = Reading /\ Reading' # 1
    BY <2>1
  <2> QED
    BY <2>2, <2>3, <2>4 DEF Order
<1>11. Filed'
  BY <1>1 DEF ResultInv, Filed
<1> QED
  BY <1>5, <1>7, <1>8, <1>9, <1>10, <1>11 DEF ResultInv

\* streaming_inference_app is run again, on the semaphores as they were left.
LEMMA RerunKept ==
    ASSUME ResultInv, Rerun
    PROVE  ResultInv'
<1>1. /\ UNCHANGED <<sems, img>> /\ app.pc = "ended" /\ plugin \in Plugin
      /\ app' = [pc |-> "start", next |-> 1, cancelling |-> FALSE, runs |-> app.runs + 1,
                 results |-> <<>>, file |-> <<>>]
      /\ plugin' = [plugin EXCEPT !.captured = <<>>, !.tensors = [r \in Requests |-> 0]]
      /\ app.runs \in Nat /\ <<>> \in Seq(Nat) /\ Len(<<>>) = 0
  BY TypeFacts, EmptySeq DEF Rerun, ResultInv, AppTypes
<1>2. /\ plugin'.scheduled = plugin.scheduled /\ plugin'.running = plugin.running
      /\ plugin'.completed = plugin.completed /\ plugin'.callback = plugin.callback
      /\ plugin'.captured = <<>> /\ plugin' \in Plugin
  BY <1>1 DEF Plugin
<1>3. /\ plugin.scheduled = <<>> /\ plugin.running = <<>> /\ plugin.completed = <<>>
      /\ plugin.callback.step = "none" /\ sems.cancel = 0
  BY <1>1 DEF ResultInv, Quiet
<1>4. AppTypes'
  <2>1. app' \in App
    BY <1>1, Counted DEF App, AppPcs
  <2>2. app'.next <= NumRequests
    BY <1>1, Counted
  <2> QED
    BY <1>1, <1>2, <2>1, <2>2 DEF ResultInv, AppTypes
<1>5. Busy' = Busy
  BY <1>2 DEF Busy
<1>6. OnePlace'
  BY <1>2, <1>5 DEF ResultInv, OnePlace
<1>7. Started'
  <2>1. At(<<>>) = {} /\ Busy = <<>>
    BY <1>1, <1>3 DEF At, Busy, RequestsOf
  <2> QED
    BY <1>2, <1>3, <1>5, <2>1 DEF Started
<1>8. Quiet'
  BY <1>1, <1>2, <1>3 DEF Quiet
<1>9. Order'
  <2>1. /\ Reading' = 0 /\ Len(app'.results) = 0 /\ Len(plugin'.captured) = 0
        /\ Len(plugin'.completed) = 0 /\ Len(plugin'.running) = 0
    BY <1>1, <1>2, <1>3 DEF Reading
  <2> QED
    BY <2>1 DEF Order
<1>10. Filed'
  BY <1>1, Counted DEF Filed
<1> QED
  BY <1>4, <1>6, <1>7, <1>8, <1>9, <1>10 DEF ResultInv

-----------------------------------------------------------------------------
(* The results.                                                            *)

\* Every step of the two programs, the plugin and the callbacks.
LEMMA ResultStep == ResultInv /\ [Next]_vars => ResultInv'
<1> SUFFICES ASSUME ResultInv, [Next]_vars PROVE ResultInv'
  OBVIOUS
<1>1. CASE UNCHANGED vars
  <2>1. UNCHANGED <<img, sems, app, plugin>>
    BY <1>1 DEF vars
  <2>2. AppTypes' /\ Quiet'
    BY <2>1 DEF ResultInv, AppTypes, Quiet
  <2> QED
    BY <2>1, <2>2, AppMoved
<1>2. CASE \/ LoadImageFiles \/ WaitForInferenceApp \/ RepostReady \/ RunCheck \/ EventWait
           \/ SpuriousWake \/ SignalSet \/ SignalCheck \/ SendFails \/ Join \/ ImageSigInt
  <2>1. app' = app /\ plugin' = plugin
    BY <1>2 DEF LoadImageFiles, WaitForInferenceApp, RepostReady, RunCheck, EventWait,
                SpuriousWake, SignalSet, SignalCheck, SendFails, Join, ImageSigInt
  <2> QED
    BY <1>2, <2>1, ImageKept
<1>3. CASE \/ RunRefused \/ SetReadyForImageStreamSemaphore \/ WaitForSignal \/ AppSigInt
           \/ OpenCancelSemaphore \/ PostCancelSemaphore \/ ClearInferences
           \/ DrainCancel \/ DrainReady
  BY <1>3, MainKept
<1>4. CASE \/ RunStartRequests \/ SendNextImage \/ InferenceDone \/ AbortScheduled
           \/ ProcessResult \/ PrintResult \/ StartAsync \/ Rerun
  BY <1>4, StartKept, CaptureKept, DoneKept, AbortKept, ProcessKept, PrintKept, RestartKept,
     RerunKept
<1> QED
  BY <1>1, <1>2, <1>3, <1>4 DEF Next, ImageMain, ImageThread, AppMain, PluginStep, CallbackStep

\* Where the captured frames are between the stream and the printed results,
\* and that each request is in one place (streaming_inference_app's requests,
\* ProcessResult and the plugin's queues).
THEOREM ResultInvariant == Spec => []ResultInv
  BY ResultInitial, ResultStep, PTL DEF Spec

\* The printed results are those of the captured frames in their order, and the
\* file holds the first of them, however many requests and frames there are and
\* whenever Ctrl-C comes (ProcessResult, SetShutdownSemaphore).
THEOREM ResultsInOrder == Spec => []ResultsFollowImages
<1>1. ASSUME ResultInv PROVE ResultsFollowImages
  <2> DEFINE n == Len(app.results)
             L == Len(plugin.captured)
             K == ResultsKept
  <2>1. /\ app.results \in Seq(Nat) /\ plugin.captured \in Seq(Nat) /\ app.file \in Seq(Nat)
        /\ n \in Nat /\ L \in Nat /\ K \in Nat
    BY <1>1, TypeFacts, Counted DEF ResultInv
  <2>2. n <= L /\ \A i \in 1 .. n : app.results[i] = plugin.captured[i]
    BY <1>1, <2>1, OrderFacts
  <2>3. app.results = SubSeq(plugin.captured, 1, n)
    <3>1. /\ SubSeq(plugin.captured, 1, n) \in Seq(Nat) /\ Len(SubSeq(plugin.captured, 1, n)) = n
          /\ \A i \in 1 .. n : SubSeq(plugin.captured, 1, n)[i] = plugin.captured[i]
      <4> DEFINE s == SubSeq(plugin.captured, 1, n)
      <4>1. \A i \in 1 .. n : plugin.captured[i] \in Nat
        BY <2>1, <2>2, ElementOfSeq
      <4>2. /\ s \in Seq(Nat) /\ Len(s) = IF 1 <= n THEN n - 1 + 1 ELSE 0
            /\ \A i \in 1 .. n - 1 + 1 : s[i] = plugin.captured[1 + i - 1]
        BY <2>1, <4>1, SubSeqProperties
      <4> HIDE DEF s
      <4>3. n - 1 + 1 = n /\ \A i \in 1 .. n : 1 + i - 1 = i
        BY <2>1
      <4>4. Len(s) = n /\ \A i \in 1 .. n : s[i] = plugin.captured[i]
        BY <2>1, <4>2, <4>3
      <4> QED
        BY <4>2, <4>4 DEF s
    <3> QED
      BY <2>1, <2>2, <3>1, SeqEqual
  <2>4. /\ Len(app.file) = IF n <= K THEN n ELSE K + 1
        /\ \A i \in 1 .. Len(app.file) :
              app.file[i] = IF i <= K THEN app.results[i] ELSE EndOfCapture
    BY <1>1 DEF ResultInv, Filed
  <2>5. CASE n <= K
    <3>1. Len(app.file) = n /\ \A i \in 1 .. n : app.file[i] = app.results[i]
      BY <2>1, <2>4, <2>5
    <3>2. app.file = app.results
      BY <2>1, <3>1, SeqEqual
    <3> QED
      BY <2>2, <2>3, <2>5, <3>2 DEF ResultsFollowImages
  <2>6. CASE ~(n <= K)
    <3> DEFINE s == SubSeq(app.results, 1, K)
    <3>1. /\ s \in Seq(Nat) /\ Len(s) = K /\ \A i \in 1 .. K : s[i] = app.results[i]
      BY <2>1, <2>6
    <3>2. EndOfCapture \in Nat
      BY DEF EndOfCapture
    <3> HIDE DEF s
    <3>3. /\ Append(s, EndOfCapture) \in Seq(Nat) /\ Len(Append(s, EndOfCapture)) = K + 1
          /\ \A i \in 1 .. K : Append(s, EndOfCapture)[i] = s[i]
          /\ Append(s, EndOfCapture)[K + 1] = EndOfCapture
      BY <3>1, <3>2, PushFacts
    <3>4. \A i \in 1 .. K + 1 : app.file[i] = Append(s, EndOfCapture)[i]
      <4> TAKE i \in 1 .. K + 1
      <4>1. (i \in 1 .. K /\ i <= K) \/ (i = K + 1 /\ ~(i <= K))
        BY <2>1
      <4> QED
        BY <2>4, <2>6, <3>1, <3>3, <4>1
    <3>5. app.file = Append(s, EndOfCapture)
      BY <2>1, <2>4, <2>6, <3>3, <3>4, SeqEqual
    <3> QED
      BY <2>2, <2>3, <2>6, <3>5 DEF ResultsFollowImages, s
  <2> QED
    BY <2>5, <2>6
<1> QED
  BY <1>1, ResultInvariant, PTL

=============================================================================
