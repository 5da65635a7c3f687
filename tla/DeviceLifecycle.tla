-------------------------- MODULE DeviceLifecycle --------------------------
(***************************************************************************)
(* One board from aocl_mmd_open to aocl_mmd_close, with the thread that    *)
(* turns its interrupts into calls of InterruptServiceRoutine.  Three MMDs *)
(* implement the same interface:                                           *)
(*   "hps"  hps_platform: /dev/uio, level interrupt, UIO masks it each time*)
(*   "pac"  dcp_a10_pac:  OPAE event, thread started before the event      *)
(*   "ofs"  ofs_pcie:     OPAE event that may be lost, 1 ms timeout        *)
(* The host is one thread: it opens the board (any step can fail), builds  *)
(* CoreDlaDevice, starts jobs, destroys the device and ends the process.   *)
(***************************************************************************)
EXTENDS Naturals, Sequences

CONSTANTS
    Backends,   \* the MMDs considered
    MaxOpens,   \* bound: calls of aocl_mmd_open
    MaxJobs,    \* bound: jobs over the life of the process
    Leftover    \* whether a job of an earlier process may still be running

ASSUME LifecycleAssumption ==
    /\ Backends \subseteq {"hps", "pac", "ofs"}
    /\ MaxOpens \in Nat /\ MaxJobs \in Nat /\ Leftover \in BOOLEAN

VARIABLES
    backend, host, step, opens, mapped, ptr,   \* the host and the handle map
    event, registered, shutdown, active,       \* the thread's descriptors
    thread, arg, fn, data, isrData,            \* the thread and the handler
    started, completed, pending, mask, irqOn,  \* CoreDLA and UIO
    seen, count                                \* jobsFinished, as a job number

hostVars == <<backend, host, step, opens, mapped, ptr>>
fdVars == <<event, registered, shutdown, active>>
threadVars == <<thread, arg, fn, data, isrData>>
hwVars == <<started, completed, pending, mask, irqOn, seen, count>>
vars == <<hostVars, fdVars, threadVars, hwVars>>

-----------------------------------------------------------------------------
\* What aocl_mmd_open goes through, in order: mmd_device and its devices,
\* CcipDevice and initialize_bsp, Device and initialize_asp.
HpsSteps == <<"uio", "irq", "dma">>
PacSteps == <<"handle", "loaded", "mmio", "reset", "dma_host_to_fpga",
              "dma_fpga_to_host", "irq">>
OfsSteps == <<"handle", "loaded", "mmio", "mmd_dma", "irq">>
OpenSteps == [hps |-> HpsSteps, pac |-> PacSteps, ofs |-> OfsSteps]

Steps == {"uio", "dma", "handle", "loaded", "mmio", "reset", "mmd_dma",
          "dma_host_to_fpga", "dma_fpga_to_host", "irq"}
Step == OpenSteps[backend][step]

\* Steps that leave nothing to release.
Checks == {"loaded", "reset"}

\* Where the registers the ISR uses are mapped.
Mapping == IF backend = "hps" THEN "uio" ELSE "mmio"

InIsr == thread \in {"clear", "read"}

\* A process that has opened nothing.
Fresh ==
    /\ backend \in Backends
    /\ step = 1 /\ opens = 0 /\ mapped = FALSE
    /\ ptr = [s \in Steps |-> "null"]
    /\ event = FALSE /\ registered = FALSE /\ shutdown = FALSE /\ active = FALSE
    /\ thread = "none" /\ arg = "null" /\ fn = "null" /\ data = "null"
    /\ isrData = "none"
    /\ started \in IF Leftover THEN {0, 1} ELSE {0}
    /\ completed = 0 /\ pending = FALSE /\ mask = FALSE /\ irqOn = FALSE
    /\ seen = 0 /\ count = 0

Init == Fresh /\ host = "out"

-----------------------------------------------------------------------------
(* aocl_mmd_open.                                                          *)

\* get_or_create_device finds the device that an earlier open left behind.
Open ==
    /\ host = "out" /\ opens < MaxOpens
    /\ opens' = opens + 1
    /\ host' = "opening"
    /\ step' = IF mapped THEN 2 ELSE 1
    /\ UNCHANGED <<backend, mapped, ptr, fdVars, threadVars, hwVars>>

\* A reset of the FPGA image ends the jobs that an earlier process or an
\* earlier CoreDlaDevice left running.
ResetJobs == started' = completed /\ pending' = FALSE

\* A step other than the interrupt one succeeds.
OpenStep ==
    /\ host = "opening" /\ Step # "irq"
    /\ ptr' = IF Step \in Checks THEN ptr ELSE [ptr EXCEPT ![Step] = "live"]
    /\ mapped' = (mapped \/ Step = "handle")
    /\ IF step < Len(OpenSteps[backend])
       THEN step' = step + 1 /\ host' = host
       ELSE step' = step /\ host' = "opened"
    /\ IF Step = "reset" THEN ResetJobs ELSE UNCHANGED <<started, pending>>
    /\ UNCHANGED <<backend, opens, fdVars, threadVars, completed, mask, irqOn,
                   seen, count>>

\* A step fails.  The objects whose initialized() is false are deleted and
\* their pointers kept; a half-built mmd_device of the HPS is destroyed.
OpenStepFails ==
    /\ host = "opening" /\ Step # "irq"
    /\ ptr' = IF Step \in {"dma_host_to_fpga", "mmd_dma"}
              THEN [ptr EXCEPT ![Step] = "dangling"]
              ELSE IF Step = "dma_fpga_to_host" THEN [ptr EXCEPT ![Step] = "live"]
              ELSE ptr
    /\ host' = IF backend = "hps" /\ Step = "dma" THEN "notify" ELSE "out"
    /\ UNCHANGED <<backend, step, opens, mapped, fdVars, threadVars, hwVars>>

\* uio_interrupt: no thread when UIO refuses to disable the interrupt, and
\* the device is valid all the same.
UioInterrupt ==
    /\ backend = "hps" /\ host = "opening" /\ Step = "irq"
    /\ \E available \in BOOLEAN :
          /\ thread' = IF available THEN "top" ELSE "none"
          /\ ptr' = [ptr EXCEPT !["irq"] = IF available THEN "live" ELSE "null"]
    /\ irqOn' = FALSE
    /\ step' = step + 1
    /\ fn' = "null" /\ data' = "null"
    /\ UNCHANGED <<backend, host, opens, mapped, fdVars, arg, isrData, started,
                   completed, pending, mask, seen, count>>

\* dcp_a10_pac, enable_interrupts: the thread starts first.
PacStartThread ==
    /\ backend = "pac" /\ host = "opening" /\ Step = "irq"
    /\ thread' = "top" /\ host' = "createEvent"
    /\ ptr' = [ptr EXCEPT !["irq"] = "live"]
    /\ fn' = "null" /\ data' = "null"
    /\ UNCHANGED <<backend, step, opens, mapped, fdVars, arg, isrData, hwVars>>

\* dcp_a10_pac, enable_interrupts: create the event handle, or give up.
PacCreateEvent ==
    /\ host = "createEvent"
    /\ \/ registered' = TRUE /\ host' = "registerEvent"
       \/ registered' = FALSE /\ host' = "notify"
    /\ UNCHANGED <<backend, step, opens, mapped, ptr, event, shutdown, active,
                   threadVars, hwVars>>

\* dcp_a10_pac, enable_interrupts: register it, or destroy it and give up;
\* initialize_bsp then deletes the KernelInterrupt.
PacRegisterEvent ==
    /\ host = "registerEvent"
    /\ \/ host' = "opened" /\ registered' = TRUE
       \/ host' = "notify" /\ registered' = FALSE
    /\ UNCHANGED <<backend, step, opens, mapped, ptr, event, shutdown, active,
                   threadVars, hwVars>>

\* ofs_pcie, enable_interrupts: results are ignored; only the creation of
\* the thread can throw.
OfsInterrupt ==
    /\ backend = "ofs" /\ host = "opening" /\ Step = "irq"
    /\ \/ /\ host' = "opened" /\ thread' = "top" /\ active' = TRUE
          /\ ptr' = [ptr EXCEPT !["irq"] = "live"]
       \/ host' = "out" /\ UNCHANGED <<thread, active, ptr>>
    /\ registered' = TRUE
    /\ fn' = "null" /\ data' = "null"
    /\ UNCHANGED <<backend, step, opens, mapped, event, shutdown, arg, isrData,
                   hwVars>>

-----------------------------------------------------------------------------
(* CoreDlaDevice.                                                          *)

\* The constructor clears old interrupts and enables the mask; only on OFS
\* boards it goes on to reset the IP.
EnableMask ==
    /\ host = "opened"
    /\ mask' = TRUE
    /\ IF backend = "ofs" THEN ResetJobs ELSE pending' = FALSE /\ started' = started
    /\ isrData' = "live"
    /\ host' = "register"
    /\ UNCHANGED <<backend, step, opens, mapped, ptr, fdVars, thread, arg, fn,
                   data, completed, irqOn, seen, count>>

\* RegisterISR: the HPS refuses without a thread, and the constructor throws.
\* hps and pac store the function and then its argument.
\* Variant with a mistake: ofs takes no lock either.
RegisterFnUnlocked ==
    /\ host = "register" /\ ptr["irq"] = "live"
    /\ host' = "registerData" /\ fn' = "isr"
    /\ UNCHANGED <<backend, step, opens, mapped, ptr, fdVars, thread, arg, data,
                   isrData, hwVars>>

RegisterFn ==
    /\ host = "register" /\ backend # "ofs"
    /\ IF ptr["irq"] = "live"
       THEN host' = "registerData" /\ fn' = "isr"
       ELSE host' = "freeIsrData" /\ fn' = fn
    /\ UNCHANGED <<backend, step, opens, mapped, ptr, fdVars, thread, arg, data,
                   isrData, hwVars>>

RegisterData ==
    /\ host = "registerData"
    /\ data' = "isrData" /\ host' = "readCount"
    /\ UNCHANGED <<backend, step, opens, mapped, ptr, fdVars, thread, arg, fn,
                   isrData, hwVars>>

\* ofs stores both under the mutex the thread holds while it calls.
OfsRegister ==
    /\ host = "register" /\ backend = "ofs" /\ ~InIsr
    /\ fn' = "isr" /\ data' = "isrData" /\ host' = "readCount"
    /\ UNCHANGED <<backend, step, opens, mapped, ptr, fdVars, thread, arg,
                   isrData, hwVars>>

\* The constructor records the completion count, without isrMutex, after
\* RegisterISR: a read and a store.
ReadCount ==
    /\ host = "readCount"
    /\ count' = completed /\ host' = "storeCount"
    /\ UNCHANGED <<backend, step, opens, mapped, ptr, fdVars, threadVars, started,
                   completed, pending, mask, irqOn, seen>>

StoreCount ==
    /\ host = "storeCount"
    /\ seen' = count /\ host' = "run"
    /\ UNCHANGED <<backend, step, opens, mapped, ptr, fdVars, threadVars, started,
                   completed, pending, mask, irqOn, count>>

StartJob ==
    /\ host = "run" /\ started < MaxJobs
    /\ started' = started + 1
    /\ UNCHANGED <<hostVars, fdVars, threadVars, completed, pending, mask, irqOn,
                   seen, count>>

\* ~CoreDlaDevice masks the interrupts ...
DisableMask ==
    /\ host = "run"
    /\ mask' = FALSE /\ host' = "freeIsrData"
    /\ UNCHANGED <<backend, step, opens, mapped, ptr, fdVars, threadVars, started,
                   completed, pending, irqOn, seen, count>>

\* ... and its members go, the last declared first: isrData_, mmdWrapper_.
FreeIsrData ==
    /\ host = "freeIsrData"
    /\ isrData' = "freed" /\ host' = "notify"
    /\ UNCHANGED <<backend, step, opens, mapped, ptr, fdVars, thread, arg, fn,
                   data, hwVars>>

-----------------------------------------------------------------------------
(* aocl_mmd_close.                                                         *)

\* How the interrupt object wakes its thread: a write to an eventfd, or a
\* flag and the event itself.
UioStop == shutdown' = TRUE /\ UNCHANGED <<active, event>>
PacStop == shutdown' = TRUE /\ UNCHANGED <<active, event>>
OfsStop == active' = FALSE /\ event' = TRUE /\ shutdown' = shutdown
StopThread ==
    \/ thread = "none" /\ UNCHANGED <<shutdown, active, event>>
    \/ thread # "none" /\ backend = "hps" /\ UioStop
    \/ thread # "none" /\ backend = "pac" /\ PacStop
    \/ thread # "none" /\ backend = "ofs" /\ OfsStop

\* The destructor of the interrupt object wakes its thread.
Notify ==
    /\ host = "notify"
    /\ host' = "join"
    /\ StopThread
    /\ UNCHANGED <<backend, step, opens, mapped, ptr, registered, threadVars,
                   hwVars>>

\* Joined: the event goes.  A KernelInterrupt deleted by initialize_bsp
\* leaves its pointer behind.
Join ==
    /\ host = "join" /\ thread \in {"none", "ended"}
    /\ thread' = "none"
    /\ event' = FALSE /\ registered' = FALSE /\ shutdown' = FALSE
    /\ IF backend = "pac" /\ isrData = "none"
       THEN host' = "out" /\ ptr' = [ptr EXCEPT !["irq"] = "dangling"]
       ELSE host' = "delete" /\ ptr' = [ptr EXCEPT !["irq"] = "null"]
    /\ UNCHANGED <<backend, step, opens, mapped, active, arg, fn, data, isrData,
                   hwVars>>

\* The pointers after the destructor of Device has deleted what is not NULL.
Deleted == [s \in Steps |-> CASE ptr[s] = "dangling" -> "deletedTwice"
                              [] ptr[s] = "live"     -> "null"
                              [] OTHER               -> ptr[s]]

\* The rest of the destructor, and the device leaves the map.
Delete ==
    /\ host = "delete"
    /\ ptr' = Deleted
    /\ mapped' = FALSE /\ isrData' = "none" /\ host' = "out"
    /\ UNCHANGED <<backend, step, opens, fdVars, thread, arg, fn, data, hwVars>>

\* The process ends: ~DeviceMapManager closes what is still in the map.
Exit ==
    /\ host = "out"
    /\ ptr' = IF mapped THEN Deleted ELSE ptr
    /\ mapped' = FALSE /\ host' = "exit"
    /\ UNCHANGED <<backend, step, opens, fdVars, threadVars, hwVars>>

Exited == host = "exit" /\ UNCHANGED vars

-----------------------------------------------------------------------------
(* The device and the kernel (external).                                   *)

\* A job completes; OPAE signals the event on the rising edge of the line.
FinishJob ==
    /\ completed < started
    /\ completed' = completed + 1 /\ pending' = TRUE
    /\ event' = (event \/ (backend # "hps" /\ registered /\ mask /\ ~pending))
    /\ UNCHANGED <<hostVars, registered, shutdown, active, threadVars, started,
                   mask, irqOn, seen, count>>

\* UIO counts an interrupt and disables it.
UioFire ==
    /\ backend = "hps" /\ pending /\ mask /\ irqOn
    /\ event' = TRUE /\ irqOn' = FALSE
    /\ UNCHANGED <<hostVars, registered, shutdown, active, threadVars, started,
                   completed, pending, mask, seen, count>>

\* "there may be occasional events lost from OPAE" (ofs_pcie).
LoseEvent ==
    /\ backend = "ofs" /\ event /\ active
    /\ event' = FALSE
    /\ UNCHANGED <<hostVars, registered, shutdown, active, threadVars, hwVars>>

-----------------------------------------------------------------------------
(* The interrupt thread.                                                   *)

GoTo(pc) == thread' = pc /\ UNCHANGED <<fn, data, isrData>>

\* hps: enable the interrupt, which UIO disabled when it fired.
UioEnable ==
    /\ backend = "hps" /\ thread = "top"
    /\ irqOn' = TRUE
    /\ GoTo("poll") /\ arg' = arg
    /\ UNCHANGED <<hostVars, fdVars, started, completed, pending, mask, seen, count>>

\* hps: the shutdown event goes first; the interrupt is disabled at the end.
UioPoll ==
    /\ backend = "hps" /\ thread = "poll" /\ (shutdown \/ event)
    /\ IF shutdown
       THEN GoTo("ended") /\ irqOn' = FALSE /\ event' = event
       ELSE GoTo("fn") /\ event' = FALSE /\ irqOn' = irqOn
    /\ UNCHANGED <<hostVars, registered, shutdown, active, arg, started,
                   completed, pending, mask, seen, count>>

\* pac: without an event handle poll_interrupt fails, and so the thread ends.
PacGetEvent ==
    /\ backend = "pac" /\ thread = "top"
    /\ GoTo(IF registered THEN "poll" ELSE "ended")
    /\ UNCHANGED <<hostVars, fdVars, arg, hwVars>>

\* Variant with a mistake: a thread that ignores the shutdown event.
PacPollForever ==
    /\ backend = "pac" /\ thread = "poll" /\ event
    /\ GoTo("fn")
    /\ event' = FALSE
    /\ UNCHANGED <<hostVars, registered, shutdown, active, arg, hwVars>>

\* pac: the interrupt goes first.  Polling a destroyed event ends the thread.
PacPoll ==
    /\ backend = "pac" /\ thread = "poll" /\ (event \/ shutdown \/ ~registered)
    /\ GoTo(IF event THEN "fn" ELSE "ended")
    /\ event' = FALSE
    /\ UNCHANGED <<hostVars, registered, shutdown, active, arg, hwVars>>

\* hps, pac: no handler, no call.
CheckFn ==
    /\ thread = "fn"
    /\ GoTo(IF fn = "null" THEN "top" ELSE "arg")
    /\ UNCHANGED <<hostVars, fdVars, arg, hwVars>>

ReadArg ==
    /\ thread = "arg"
    /\ GoTo("clear") /\ arg' = data
    /\ UNCHANGED <<hostVars, fdVars, hwVars>>

\* ofs: loop while active; wait for the event, or for the timeout.
OfsTop ==
    /\ backend = "ofs" /\ thread = "top"
    /\ GoTo(IF active THEN "poll" ELSE "ended")
    /\ UNCHANGED <<hostVars, fdVars, arg, hwVars>>

\* Variant with a mistake: no timeout.
OfsWaitForEvent ==
    /\ backend = "ofs" /\ thread = "poll" /\ event
    /\ GoTo("call")
    /\ event' = FALSE
    /\ UNCHANGED <<hostVars, registered, shutdown, active, arg, hwVars>>

OfsWait ==
    /\ backend = "ofs" /\ thread = "poll"
    /\ GoTo("call")
    /\ event' = FALSE
    /\ UNCHANGED <<hostVars, registered, shutdown, active, arg, hwVars>>

\* ofs: take the mutex and call the handler, event or not.
OfsCall ==
    /\ backend = "ofs" /\ thread = "call"
    /\ GoTo(IF fn = "null" THEN "top" ELSE "clear") /\ arg' = data
    /\ UNCHANGED <<hostVars, fdVars, hwVars>>

\* InterruptServiceRoutine: clear the status, then read the count.
IsrClear ==
    /\ thread = "clear"
    /\ pending' = FALSE
    /\ GoTo("read")
    /\ UNCHANGED <<hostVars, fdVars, arg, started, completed, mask, irqOn, seen, count>>

IsrRead ==
    /\ thread = "read"
    /\ seen' = completed
    /\ GoTo("top")
    /\ UNCHANGED <<hostVars, fdVars, arg, started, completed, pending, mask, irqOn, count>>

-----------------------------------------------------------------------------
ThreadStep == \/ UioEnable \/ UioPoll \/ PacGetEvent \/ PacPoll \/ CheckFn
              \/ ReadArg \/ OfsTop \/ OfsWait \/ OfsCall \/ IsrClear \/ IsrRead

TeardownStep == FreeIsrData \/ Notify \/ Join \/ Delete

ConstructorStep == \/ EnableMask \/ RegisterFn \/ RegisterData \/ OfsRegister
                   \/ ReadCount \/ StoreCount

HostStep == \/ Open \/ OpenStep \/ OpenStepFails \/ UioInterrupt
            \/ PacStartThread \/ PacCreateEvent \/ PacRegisterEvent
            \/ OfsInterrupt \/ StartJob \/ DisableMask \/ Exit \/ Exited

Next == \/ HostStep \/ ConstructorStep \/ TeardownStep \/ ThreadStep
        \/ FinishJob \/ UioFire \/ LoseEvent

\* The operating system schedules the interrupt thread and delivers what UIO
\* counted, and a constructor or destructor that has begun goes on.
Fairness == /\ WF_vars(ThreadStep) /\ WF_vars(UioFire)
            /\ WF_vars(ConstructorStep) /\ WF_vars(TeardownStep)

Spec == Init /\ [][Next]_vars /\ Fairness

-----------------------------------------------------------------------------
(* Properties.                                                             *)

\* Registering the interrupt service routine is safe while the thread runs
\* (pac, ofs): it is never called with an argument that RegisterISR has not
\* stored yet (it would dereference NULL), and no count that WaitForDla may
\* already have used is taken back by the constructor, which stores its own
\* reading over the routine's.  pac has reset the jobs that could interrupt
\* that early, ofs stores under a mutex.
IsrRegistrationSafe ==
    [][backend # "hps" => (InIsr' => arg' = "isrData") /\ seen' >= seen]_vars

\* dcp_a10_pac only: the thread that ran before the event existed has ended.
ThreadLost == backend = "pac" /\ thread = "ended"

TearingDown == host \in {"freeIsrData", "notify", "join", "delete", "out", "exit"}

\* Every completed job is seen by the routine, events lost by OPAE included,
\* until the device is destroyed; dcp_a10_pac may have lost its thread.
CompletionsSeen ==
    \A n \in 1..MaxJobs :
        (host = "run" /\ pending /\ completed >= n)
            ~> (seen >= n \/ TearingDown \/ ThreadLost)

\* Closing a device never hangs on the thread it waits for.
CloseTerminates == host = "notify" ~> host \in {"delete", "out"}

=============================================================================
