---------------------------- MODULE DlaCompletion ---------------------------
(***************************************************************************)
(* How CoreDlaDevice learns that inferences have finished.  Each CoreDLA   *)
(* instance counts finished jobs in a 32-bit register and raises an        *)
(* interrupt.  The interrupt service routine, called by a thread of the    *)
(* MMD layer, clears the interrupts of all instances, then extends each    *)
(* count to 64 bits and wakes the thread that is in WaitForDla.  A build   *)
(* with COREDLA_RUNTIME_POLLING has no interrupts: WaitForDla reads the    *)
(* register itself.                                                        *)
(*                                                                         *)
(* isrMutex[i] protects single steps here: the store and the notification  *)
(* of the ISR, and each test of the condition in WaitForDla together with  *)
(* the sleep that follows it.                                              *)
(***************************************************************************)
EXTENDS Integers, Functions

CONSTANTS
    NumInstances,       \* numInstances_
    CountModulus,       \* number of values of the completion count register
    InitialCount,       \* the register when the device is opened
    Builds,             \* values of runtimePolling_ the runtime is built with
    MayTimeOut,         \* may a job take longer than waitForDlaTimeoutSeconds_?
    MayCancel,          \* may isCancelledPredicate become true?
    LicensedJobs,       \* jobs an unlicensed IP finishes before it gives up
    MaxJobs,            \* bound: jobs started on all instances together
    MaxOutstanding      \* inference requests that use an instance

ASSUME CompletionAssumption == /\ NumInstances \in Nat \ {0}
                               /\ CountModulus \in Nat \ {0, 1}
                               /\ InitialCount \in 0 .. CountModulus - 1
                               /\ Builds \subseteq BOOLEAN
                               /\ {MayTimeOut, MayCancel} \subseteq BOOLEAN
                               /\ LicensedJobs \in Nat
                               /\ MaxJobs \in Nat
                               /\ MaxOutstanding \in Nat \ {0}

Instances == 0 .. NumInstances - 1

VARIABLES
    runtimePolling,     \* runtimePolling_, fixed when the device is opened
    \* The hardware, per instance
    started, completed, \* jobs started and finished since the device was opened
    pending,            \* interrupt status bit
    outOfInferences,    \* bit of the descriptor diagnostics register
    \* InterruptServiceRoutineData, per instance
    jobsFinished, baseMultiplier, prevCount, descQueueDiag,
    \* The interrupt service routine: its step and its loop index
    isrPc, isrInstance,
    \* The thread in WaitForDla, per instance
    jobsWaited, waitPc, calls, lastOk, cancelled

hwVars == <<started, completed, pending, outOfInferences>>
isrData == <<jobsFinished, baseMultiplier, prevCount, descQueueDiag>>
waitVars == <<jobsWaited, waitPc, calls, lastOk, cancelled>>
vars == <<runtimePolling, hwVars, isrData, isrPc, isrInstance, waitVars>>

\* DLA_DMA_CSR_OFFSET_COMPLETION_COUNT of instance i.
CompletionCount(i) == (InitialCount + completed[i]) % CountModulus

-----------------------------------------------------------------------------
(* The hardware.                                                           *)

\* Calls of WaitForDla for instance i that have ended.
Returned(i) == IF waitPc[i] = "out" THEN calls[i] ELSE calls[i] - 1

\* StartDla queues the job of an inference request.  A request is started
\* again only after its wait has ended.
StartJob(i) ==
    /\ FoldFunction(+, 0, started) < MaxJobs
    /\ started[i] - Returned(i) < MaxOutstanding
    /\ started' = [started EXCEPT ![i] = @ + 1]
    /\ UNCHANGED <<completed, pending, outOfInferences, isrData, isrPc,
                   isrInstance, waitVars>>

\* The oldest job finishes: the count goes up and the interrupt is raised
\* (it is masked in a polling build).
FinishJob(i) ==
    /\ completed[i] < started[i]
    /\ completed' = [completed EXCEPT ![i] = @ + 1]
    /\ pending' = [pending EXCEPT ![i] = ~runtimePolling]
    /\ outOfInferences' = [outOfInferences EXCEPT ![i] = completed[i] >= LicensedJobs]
    /\ UNCHANGED <<started, isrData, isrPc, isrInstance, waitVars>>

-----------------------------------------------------------------------------
(* InterruptServiceRoutine.                                                *)

IsrBegin ==
    /\ isrPc = "idle"
    /\ \E i \in Instances : pending[i]
    /\ isrPc' = "clear" /\ isrInstance' = 0
    /\ UNCHANGED <<hwVars, isrData, waitVars>>

\* The loop that writes 1 to clear the interrupt status of every instance.
IsrClear ==
    /\ isrPc = "clear"
    /\ pending' = [pending EXCEPT ![isrInstance] = FALSE]
    /\ IF isrInstance + 1 < NumInstances
       THEN isrInstance' = isrInstance + 1 /\ isrPc' = isrPc
       ELSE isrInstance' = 0 /\ isrPc' = "read"
    /\ UNCHANGED <<started, completed, outOfInferences, isrData, waitVars>>

\* Variant with a mistake: a count below the last one is not taken for a wrap.
IsrReadNoWrap ==
    /\ isrPc = "read"
    /\ LET i == isrInstance
       IN  /\ descQueueDiag' = [descQueueDiag EXCEPT ![i] = outOfInferences[i]]
           /\ prevCount' = [prevCount EXCEPT ![i] = CompletionCount(i)]
    /\ isrPc' = "store"
    /\ UNCHANGED <<hwVars, jobsFinished, baseMultiplier, isrInstance, waitVars>>

\* The second loop: read the diagnostics and the count, detect a wrap.
IsrRead ==
    /\ isrPc = "read"
    /\ LET i == isrInstance
           count == CompletionCount(i)
       IN  /\ descQueueDiag' = [descQueueDiag EXCEPT ![i] = outOfInferences[i]]
           /\ baseMultiplier' = [baseMultiplier EXCEPT
                                    ![i] = IF prevCount[i] > count THEN @ + 1 ELSE @]
           /\ prevCount' = [prevCount EXCEPT ![i] = count]
    /\ isrPc' = "store"
    /\ UNCHANGED <<hwVars, jobsFinished, isrInstance, waitVars>>

\* Variant with a mistake: only the thread that waits for the first instance
\* is woken up.
IsrStoreNotifyFirst ==
    /\ isrPc = "store"
    /\ LET i == isrInstance
       IN  /\ jobsFinished' = [jobsFinished EXCEPT ![i] =
                 baseMultiplier[i] * CountModulus + prevCount[i]]
           /\ waitPc' = [waitPc EXCEPT ![0] = IF @ = "sleep" THEN "test" ELSE @]
    /\ IF isrInstance + 1 < NumInstances
       THEN isrInstance' = isrInstance + 1 /\ isrPc' = "read"
       ELSE isrInstance' = 0 /\ isrPc' = "idle"
    /\ UNCHANGED <<hwVars, baseMultiplier, prevCount, descQueueDiag,
                   jobsWaited, calls, lastOk, cancelled>>

\* Under isrMutex: publish the 64-bit count and notify_all.
IsrStore ==
    /\ isrPc = "store"
    /\ LET i == isrInstance
       IN  /\ jobsFinished' = [jobsFinished EXCEPT ![i] =
                 baseMultiplier[i] * (CountModulus - 1) + prevCount[i]
                 + baseMultiplier[i]]
           /\ waitPc' = [waitPc EXCEPT ![i] = IF @ = "sleep" THEN "test" ELSE @]
    /\ IF isrInstance + 1 < NumInstances
       THEN isrInstance' = isrInstance + 1 /\ isrPc' = "read"
       ELSE isrInstance' = 0 /\ isrPc' = "idle"
    /\ UNCHANGED <<hwVars, baseMultiplier, prevCount, descQueueDiag,
                   jobsWaited, calls, lastOk, cancelled>>

Isr == IsrBegin \/ IsrClear \/ IsrRead \/ IsrStore

-----------------------------------------------------------------------------
(* WaitForDla, by the one thread that waits for jobs of instance i; its    *)
(* n-th call is for the n-th job.                                          *)

EnterWait(i) ==
    /\ waitPc[i] = "out"
    /\ calls[i] < started[i]
    /\ calls' = [calls EXCEPT ![i] = @ + 1]
    /\ waitPc' = [waitPc EXCEPT ![i] = "test"]
    /\ UNCHANGED <<hwVars, isrData, isrPc, isrInstance, jobsWaited, lastOk, cancelled>>

\* The end of WaitForDla: a license error, or one more job waited for.
Leave(i) ==
    /\ waitPc' = [waitPc EXCEPT ![i] = "out"]
    /\ IF descQueueDiag[i]
       THEN UNCHANGED <<jobsWaited, lastOk>>
       ELSE /\ jobsWaited' = [jobsWaited EXCEPT ![i] = @ + 1]
            /\ lastOk' = [lastOk EXCEPT ![i] = calls[i]]

\* The loop condition is false: a job has finished.
WaitDone(i) ==
    /\ waitPc[i] = "test" /\ jobsFinished[i] # jobsWaited[i]
    /\ Leave(i)
    /\ UNCHANGED <<hwVars, isrData, isrPc, isrInstance, calls, cancelled>>

WaitSleep(i) ==
    /\ ~runtimePolling
    /\ waitPc[i] = "test" /\ jobsFinished[i] = jobsWaited[i]
    /\ waitPc' = [waitPc EXCEPT ![i] = "sleep"]
    /\ UNCHANGED <<hwVars, isrData, isrPc, isrInstance, jobsWaited, calls, lastOk,
                   cancelled>>

\* wait_for may also return without a notification.
WaitWakeSpuriously(i) ==
    /\ waitPc[i] = "sleep"
    /\ waitPc' = [waitPc EXCEPT ![i] = "test"]
    /\ UNCHANGED <<hwVars, isrData, isrPc, isrInstance, jobsWaited, calls, lastOk,
                   cancelled>>

\* A polling iteration: the register replaces jobsFinished.
WaitPoll(i) ==
    /\ runtimePolling
    /\ waitPc[i] = "test" /\ jobsFinished[i] = jobsWaited[i] /\ ~cancelled[i]
    /\ jobsFinished' = [jobsFinished EXCEPT ![i] = CompletionCount(i)]
    /\ UNCHANGED <<hwVars, baseMultiplier, prevCount, descQueueDiag, isrPc,
                   isrInstance, waitVars>>

\* A polling wait that was cancelled leaves the loop and counts the job.
WaitCancelled(i) ==
    /\ runtimePolling
    /\ waitPc[i] = "test" /\ jobsFinished[i] = jobsWaited[i] /\ cancelled[i]
    /\ Leave(i)
    /\ UNCHANGED <<hwVars, isrData, isrPc, isrInstance, calls, cancelled>>

\* The deadline of wait_for passes.  The thread still has to get isrMutex
\* back, so the ISR may publish a count in between; the notification comes
\* too late.
WaitExpires(i) ==
    /\ MayTimeOut
    /\ waitPc[i] = "sleep"
    /\ waitPc' = [waitPc EXCEPT ![i] = "expired"]
    /\ UNCHANGED <<hwVars, isrData, isrPc, isrInstance, jobsWaited, calls, lastOk,
                   cancelled>>

\* wait_for reported a timeout: WaitForDla throws, whatever jobsFinished is
\* by now, and does not count the job.
WaitTimesOut(i) ==
    /\ waitPc[i] = "expired"
    /\ waitPc' = [waitPc EXCEPT ![i] = "out"]
    /\ UNCHANGED <<hwVars, isrData, isrPc, isrInstance, jobsWaited, calls, lastOk,
                   cancelled>>

\* A polling iteration after the deadline: the register is read once more,
\* then WaitForDla throws without another look at it.
WaitPollTimesOut(i) ==
    /\ MayTimeOut /\ runtimePolling
    /\ waitPc[i] = "test" /\ jobsFinished[i] = jobsWaited[i] /\ ~cancelled[i]
    /\ jobsFinished' = [jobsFinished EXCEPT ![i] = CompletionCount(i)]
    /\ waitPc' = [waitPc EXCEPT ![i] = "out"]
    /\ UNCHANGED <<hwVars, baseMultiplier, prevCount, descQueueDiag, isrPc,
                   isrInstance, jobsWaited, calls, lastOk, cancelled>>

\* Only the polling build looks at isCancelledPredicate.
Cancel(i) ==
    /\ MayCancel /\ runtimePolling /\ ~cancelled[i]
    /\ cancelled' = [cancelled EXCEPT ![i] = TRUE]
    /\ UNCHANGED <<hwVars, isrData, isrPc, isrInstance, jobsWaited, waitPc, calls,
                   lastOk>>

Wait(i) == EnterWait(i) \/ WaitDone(i) \/ WaitSleep(i) \/ WaitPoll(i)
           \/ WaitCancelled(i) \/ WaitTimesOut(i)

-----------------------------------------------------------------------------
\* The constructor: jobsWaited_ and jobsFinished start at the register.
Zero == [i \in Instances |-> 0]
False == [i \in Instances |-> FALSE]

Init ==
    /\ runtimePolling \in Builds
    /\ started = Zero /\ completed = Zero /\ pending = False
    /\ outOfInferences = False
    /\ jobsFinished = [i \in Instances |-> InitialCount]
    /\ baseMultiplier = Zero /\ prevCount = Zero /\ descQueueDiag = False
    /\ isrPc = "idle" /\ isrInstance = 0
    /\ jobsWaited = [i \in Instances |-> InitialCount]
    /\ waitPc = [i \in Instances |-> "out"] /\ calls = Zero /\ lastOk = Zero
    /\ cancelled = False

Next ==
    /\ \/ Isr
       \/ \E i \in Instances :
             \/ StartJob(i) \/ FinishJob(i) \/ Wait(i)
             \/ WaitWakeSpuriously(i) \/ WaitExpires(i)
             \/ WaitPollTimesOut(i) \/ Cancel(i)
    /\ UNCHANGED runtimePolling

Spec == Init /\ [][Next]_vars

\* The interrupt thread and the waiting threads are scheduled, and the
\* hardware finishes its jobs.
Fairness ==
    /\ WF_vars(Isr /\ UNCHANGED runtimePolling)
    /\ \A i \in Instances : /\ WF_vars(Wait(i) /\ UNCHANGED runtimePolling)
                            /\ WF_vars(FinishJob(i) /\ UNCHANGED runtimePolling)
FairSpec == Spec /\ Fairness

-----------------------------------------------------------------------------
(* Properties.                                                             *)

\* WaitForDla never reports a job as done before it is: when its n-th call
\* returns, n jobs have finished on the instance, so the output that is read
\* next is complete ("if not enough jobs have finished then sleep until ISR
\* runs again").  This holds while every wait so far has counted its job: a
\* wait that timed out or met the license limit leaves jobsWaited_ behind for
\* good, a cancelled one counts a job that still runs, and the polling build
\* does not extend the register.
WaitMeansDone ==
    \A i \in Instances :
        (/\ jobsWaited[i] = InitialCount + lastOk[i]
         /\ ~cancelled[i]
         /\ runtimePolling => jobsWaited[i] < CountModulus)
        => lastOk[i] <= completed[i]

\* No wake-up is lost: a thread in WaitForDla returns, whatever instant its
\* job finishes at relative to the ISR's clear and read.
EveryWaitReturns ==
    \A i \in Instances : (waitPc[i] # "out") ~> (waitPc[i] = "out")
=============================================================================
