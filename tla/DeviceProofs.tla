---------------------------- MODULE DeviceProofs ----------------------------
(***************************************************************************)
(* The MMD interface, for any number of clients, boards and jobs: the      *)
(* registration of the interrupt service routine while its thread runs     *)
(* (DeviceLifecycle), and calls that reach the board their client opened   *)
(* (DeviceMap).                                                            *)
(***************************************************************************)
EXTENDS DeviceLifecycle, DeviceMap, TLAPS

-----------------------------------------------------------------------------
(* Registering the routine: the invariant.                                 *)

\* The constructor of CoreDlaDevice up to the count it stores.
Constructing == {"register", "registerData", "readCount", "storeCount"}

\* Where host, routine thread and hardware can be, and what they count.
LifecycleTypes ==
    /\ backend \in {"hps", "pac", "ofs"}
    /\ host \in {"out", "opening", "createEvent", "registerEvent", "opened", "run",
                 "freeIsrData", "notify", "join", "delete", "exit"} \cup Constructing
    /\ step \in 1 .. Len(OpenSteps[backend])
    /\ ptr \in [Steps -> {"null", "live", "dangling", "deletedTwice"}]
    /\ started \in Nat /\ completed \in Nat /\ seen \in Nat /\ count \in Nat
    /\ event \in BOOLEAN /\ registered \in BOOLEAN /\ pending \in BOOLEAN /\ mask \in BOOLEAN

\* The routine has seen no job that is not completed; what the constructor is
\* about to store is no less.
Counts ==
    /\ seen <= completed /\ count <= completed /\ completed <= started
    /\ backend # "hps" /\ host = "storeCount" => count = completed

\* Jobs of earlier processes are reset before the routine is registered.
OfsQuiet == backend = "ofs" /\ host \in Constructing
PacQuiet == backend = "pac" /\ \/ host = "opening" /\ step > 4
                               \/ host \in {"createEvent", "registerEvent", "opened"}
                                           \cup Constructing
Quiet == OfsQuiet \/ PacQuiet => started = completed

\* What RegisterISR leaves behind.
Registered == fn = "isr" /\ data = "isrData"

\* On the DCP A10 PAC board there is an event only once the routine and its
\* argument are stored, although its thread runs before.
PacEvents ==
    backend = "pac" =>
        /\ host \in {"out", "exit", "opening", "delete"} => thread = "none" /\ ~registered
        /\ host = "createEvent" => ~registered
        /\ host \in {"notify", "join"} /\ ~Registered => ~registered
        /\ ~registered /\ host # "join" => ~event
        /\ host \in {"createEvent", "registerEvent", "opened", "register"}
               => ptr["irq"] = "live" /\ ~event
        /\ host \in {"readCount", "storeCount", "run", "freeIsrData"} => Registered
        /\ host = "registerData" => fn = "isr"
        /\ data = "isrData" => fn = "isr"
        /\ event \/ thread \in {"fn", "arg"} => Registered

\* Who calls the routine has its argument.
Arguments ==
    /\ backend = "ofs" => /\ fn # "null" => data = "isrData"
                          /\ thread \notin {"fn", "arg"}
    /\ backend = "pac" => thread # "call"
    /\ backend # "hps" /\ InIsr => arg = "isrData"

RegisterInv == LifecycleTypes /\ Counts /\ Quiet /\ PacEvents /\ Arguments

-----------------------------------------------------------------------------
(* Its steps.                                                              *)

\* Where the steps are that matter.
LEMMA StepFacts ==
    ASSUME LifecycleTypes
    PROVE  /\ step \in Nat \ {0}
           /\ backend = "pac" => /\ Step = "irq" <=> step = 7
                                 /\ Step = "reset" <=> step = 4
                                 /\ Len(OpenSteps[backend]) = 7
           /\ backend = "hps" => /\ Step = "irq" <=> step = 2
                                 /\ Len(OpenSteps[backend]) = 3
           /\ backend = "ofs" => Len(OpenSteps[backend]) = 5 /\ Step # "reset"
           /\ Step \in Steps
<1>1. CASE backend = "hps"
  <2>1. OpenSteps[backend] = HpsSteps /\ Len(HpsSteps) = 3
    BY <1>1 DEF OpenSteps, HpsSteps
  <2>2. step \in {1, 2, 3}
    BY <2>1 DEF LifecycleTypes
  <2> QED
    BY <1>1, <2>1, <2>2 DEF Step, HpsSteps, Steps
<1>2. CASE backend = "pac"
  <2>1. OpenSteps[backend] = PacSteps /\ Len(PacSteps) = 7
    BY <1>2 DEF OpenSteps, PacSteps
  <2>2. step \in {1, 2, 3, 4, 5, 6, 7}
    BY <2>1 DEF LifecycleTypes
  <2> QED
    BY <1>2, <2>1, <2>2 DEF Step, PacSteps, Steps
<1>3. CASE backend = "ofs"
  <2>1. OpenSteps[backend] = OfsSteps /\ Len(OfsSteps) = 5
    BY <1>3 DEF OpenSteps, OfsSteps
  <2>2. step \in {1, 2, 3, 4, 5}
    BY <2>1 DEF LifecycleTypes
  <2> QED
    BY <1>3, <2>1, <2>2 DEF Step, OfsSteps, Steps
<1> QED
  BY <1>1, <1>2, <1>3 DEF LifecycleTypes

\* The first step of aocl_mmd_open.
LEMMA OpenFacts ==
    ASSUME LifecycleTypes, Open
    PROVE  step' \in 1 .. Len(OpenSteps[backend']) /\ step' \in {1, 2}
<1>1. Len(OpenSteps[backend]) \in {3, 5, 7} /\ backend' = backend /\ step' \in {1, 2}
  BY StepFacts DEF LifecycleTypes, Open
<1>2. 1 \in 1 .. Len(OpenSteps[backend]) /\ 2 \in 1 .. Len(OpenSteps[backend])
  BY <1>1
<1> QED
  BY <1>1, <1>2

\* The next step of aocl_mmd_open.
LEMMA OpenStepFacts ==
    ASSUME LifecycleTypes, OpenStep
    PROVE  /\ step' \in 1 .. Len(OpenSteps[backend'])
           /\ host' \in {"opening", "opened"} /\ started' \in {started, completed}
           /\ pending' \in BOOLEAN
           /\ ptr' \in [Steps -> {"null", "live", "dangling", "deletedTwice"}]
           /\ backend = "pac" => /\ host' = "opening"
                                 /\ step' > 4 => step > 4 \/ started' = completed
<1>1. /\ step \in Nat \ {0} /\ step <= Len(OpenSteps[backend])
      /\ Len(OpenSteps[backend]) \in {3, 5, 7} /\ backend' = backend
  BY StepFacts DEF LifecycleTypes, OpenStep
<1>2. step' \in {step, step + 1} /\ (step' = step + 1 => step < Len(OpenSteps[backend]))
  BY <1>1 DEF OpenStep
<1>3. step' \in 1 .. Len(OpenSteps[backend'])
  BY <1>1, <1>2
<1>4. /\ host' \in {"opening", "opened"} /\ started' \in {started, completed}
      /\ pending' \in BOOLEAN
  BY DEF LifecycleTypes, OpenStep, ResetJobs
<1>5. ptr' \in [Steps -> {"null", "live", "dangling", "deletedTwice"}]
  BY DEF LifecycleTypes, OpenStep
<1>6. ASSUME backend = "pac"
      PROVE  host' = "opening" /\ (step' > 4 => step > 4 \/ started' = completed)
  <2>1. /\ step # 7 /\ Len(OpenSteps[backend]) = 7 /\ (Step = "reset" <=> step = 4)
    BY <1>6, StepFacts DEF OpenStep
  <2>2. step < Len(OpenSteps[backend])
    BY <1>1, <2>1
  <2>3. host' = "opening" /\ step' = step + 1 /\ (Step = "reset" => started' = completed)
    BY <2>2 DEF OpenStep, ResetJobs
  <2> QED
    BY <1>1, <2>1, <2>3
<1> QED
  BY <1>3, <1>4, <1>5, <1>6

\* A process that has not opened a device has registered nothing.
LEMMA RegisterInit == Init => RegisterInv
<1> SUFFICES ASSUME Init PROVE RegisterInv
  OBVIOUS
<1>1. 1 \in 1 .. Len(OpenSteps[backend])
  BY LifecycleAssumption DEF Init, Fresh, OpenSteps, HpsSteps, PacSteps, OfsSteps
<1>2. LifecycleTypes
  <2>1. step \in 1 .. Len(OpenSteps[backend]) /\ backend \in {"hps", "pac", "ofs"}
    BY <1>1, LifecycleAssumption DEF Init, Fresh
  <2>2. ptr \in [Steps -> {"null", "live", "dangling", "deletedTwice"}]
    BY DEF Init, Fresh
  <2>3. started \in Nat
    BY DEF Init, Fresh
  <2> QED
    BY <2>1, <2>2, <2>3 DEF Init, Fresh, LifecycleTypes
<1>3. Counts /\ Quiet
  BY LifecycleAssumption DEF Init, Fresh, Counts, Quiet, OfsQuiet, PacQuiet, Constructing
<1>4. PacEvents /\ Arguments
  BY LifecycleAssumption DEF Init, Fresh, PacEvents, Registered, Arguments, InIsr
<1> QED
  BY <1>2, <1>3, <1>4 DEF RegisterInv

\* Each call of Open, of the constructor and of the destructor keeps it, and
\* so does the thread of the routine wherever they leave it.
LEMMA RegisterKept == RegisterInv /\ Next => RegisterInv'
<1> SUFFICES ASSUME RegisterInv, Next PROVE RegisterInv'
  OBVIOUS
<1>0. LifecycleTypes
  BY DEF RegisterInv
<1> USE DEF RegisterInv, LifecycleTypes, Counts, Quiet, OfsQuiet, PacQuiet, PacEvents,
            Registered, Arguments, InIsr, Constructing, hostVars, fdVars, threadVars, hwVars
<1>1. CASE Open
  <2>1. step' \in 1 .. Len(OpenSteps[backend']) /\ step' \in {1, 2}
    BY <1>0, <1>1, OpenFacts
  <2>2. LifecycleTypes'
    BY <1>1, <2>1 DEF Open
  <2>3. Counts' /\ Quiet'
    BY <1>1, <2>1 DEF Open
  <2>4. PacEvents' /\ Arguments'
    BY <1>1 DEF Open
  <2> QED
    BY <2>2, <2>3, <2>4
<1>2. CASE OpenStep
  <2>1. /\ host = "opening"
        /\ UNCHANGED <<backend, fdVars, threadVars, completed, mask, seen, count>>
    BY <1>2 DEF OpenStep
  <2>2. /\ step' \in 1 .. Len(OpenSteps[backend'])
        /\ host' \in {"opening", "opened"} /\ started' \in {started, completed}
        /\ pending' \in BOOLEAN
        /\ ptr' \in [Steps -> {"null", "live", "dangling", "deletedTwice"}]
    BY <1>0, <1>2, OpenStepFacts
  <2>3. backend = "pac" => host' = "opening" /\ (step' > 4 => step > 4 \/ started' = completed)
    BY <1>0, <1>2, OpenStepFacts
  <2>4. LifecycleTypes'
    BY <2>1, <2>2
  <2>5. Counts' /\ Quiet'
    BY <2>1, <2>2, <2>3
  <2>6. PacEvents' /\ Arguments'
    BY <2>1, <2>3
  <2> QED
    BY <2>4, <2>5, <2>6
<1>3. CASE OpenStepFails
  BY <1>0, <1>3, StepFacts DEF OpenStepFails
<1>4. CASE UioInterrupt
  <2>1. LifecycleTypes'
    BY <1>0, <1>4, StepFacts DEF UioInterrupt
  <2>2. Counts'
    BY <1>0, <1>4, StepFacts DEF UioInterrupt
  <2>3. Quiet'
    BY <1>0, <1>4, StepFacts DEF UioInterrupt
  <2>4. PacEvents'
    BY <1>0, <1>4, StepFacts DEF UioInterrupt
  <2>5. Arguments'
    BY <1>0, <1>4, StepFacts DEF UioInterrupt
  <2> QED
    BY <2>1, <2>2, <2>3, <2>4, <2>5
<1>5. CASE PacStartThread
  <2>1. LifecycleTypes' /\ Counts'
    BY <1>0, <1>5, StepFacts DEF PacStartThread
  <2>2. Quiet' /\ Arguments'
    BY <1>0, <1>5, StepFacts DEF PacStartThread
  <2>3. PacEvents'
    BY <1>0, <1>5, StepFacts DEF PacStartThread
  <2> QED
    BY <2>1, <2>2, <2>3
<1>6. CASE PacCreateEvent
  <2>1. LifecycleTypes' /\ Counts'
    BY <1>0, <1>6, StepFacts DEF PacCreateEvent
  <2>2. Quiet' /\ Arguments'
    BY <1>0, <1>6, StepFacts DEF PacCreateEvent
  <2>3. PacEvents'
    BY <1>0, <1>6, StepFacts DEF PacCreateEvent
  <2> QED
    BY <2>1, <2>2, <2>3
<1>7. CASE PacRegisterEvent
  <2>1. LifecycleTypes' /\ Counts'
    BY <1>0, <1>7, StepFacts DEF PacRegisterEvent
  <2>2. Quiet' /\ Arguments'
    BY <1>0, <1>7, StepFacts DEF PacRegisterEvent
  <2>3. PacEvents'
    BY <1>0, <1>7, StepFacts DEF PacRegisterEvent
  <2> QED
    BY <2>1, <2>2, <2>3
<1>8. CASE OfsInterrupt
  BY <1>0, <1>8, StepFacts DEF OfsInterrupt
<1>9. CASE StartJob
  BY <1>0, <1>9, StepFacts DEF StartJob
<1>10. CASE DisableMask
  BY <1>0, <1>10, StepFacts DEF DisableMask
<1>11. CASE Exit
  BY <1>0, <1>11, StepFacts DEF Exit, Deleted
<1>12. CASE Exited
  BY <1>0, <1>12, StepFacts DEF Exited, vars
<1>13. CASE EnableMask
  <2>1. LifecycleTypes'
    BY <1>0, <1>13, StepFacts DEF EnableMask, ResetJobs
  <2>2. Counts'
    BY <1>0, <1>13, StepFacts DEF EnableMask, ResetJobs
  <2>3. Quiet'
    BY <1>0, <1>13, StepFacts DEF EnableMask, ResetJobs
  <2>4. PacEvents'
    BY <1>0, <1>13, StepFacts DEF EnableMask, ResetJobs
  <2>5. Arguments'
    BY <1>0, <1>13, StepFacts DEF EnableMask, ResetJobs
  <2> QED
    BY <2>1, <2>2, <2>3, <2>4, <2>5
<1>14. CASE RegisterFn
  BY <1>0, <1>14, StepFacts DEF RegisterFn
<1>15. CASE RegisterData
  BY <1>0, <1>15, StepFacts DEF RegisterData
<1>16. CASE OfsRegister
  BY <1>0, <1>16, StepFacts DEF OfsRegister
<1>17. CASE ReadCount
  BY <1>0, <1>17, StepFacts DEF ReadCount
<1>18. CASE StoreCount
  <2>1. LifecycleTypes'
    BY <1>0, <1>18, StepFacts DEF StoreCount
  <2>2. Counts'
    BY <1>0, <1>18, StepFacts DEF StoreCount
  <2>3. Quiet'
    BY <1>0, <1>18, StepFacts DEF StoreCount
  <2>4. PacEvents'
    BY <1>0, <1>18, StepFacts DEF StoreCount
  <2>5. Arguments'
    BY <1>0, <1>18, StepFacts DEF StoreCount
  <2> QED
    BY <2>1, <2>2, <2>3, <2>4, <2>5
<1>19. CASE FreeIsrData
  BY <1>0, <1>19, StepFacts DEF FreeIsrData
<1>20. CASE Notify
  <2>1. LifecycleTypes'
    BY <1>0, <1>20, StepFacts DEF Notify, StopThread, UioStop, PacStop, OfsStop
  <2>2. Counts'
    BY <1>0, <1>20, StepFacts DEF Notify, StopThread, UioStop, PacStop, OfsStop
  <2>3. Quiet'
    BY <1>0, <1>20, StepFacts DEF Notify, StopThread, UioStop, PacStop, OfsStop
  <2>4. PacEvents'
    BY <1>0, <1>20, StepFacts DEF Notify, StopThread, UioStop, PacStop, OfsStop
  <2>5. Arguments'
    BY <1>0, <1>20, StepFacts DEF Notify, StopThread, UioStop, PacStop, OfsStop
  <2> QED
    BY <2>1, <2>2, <2>3, <2>4, <2>5
<1>21. CASE Join
  BY <1>0, <1>21, StepFacts DEF Join
<1>22. CASE Delete
  <2>1. LifecycleTypes'
    BY <1>0, <1>22, StepFacts DEF Delete, Deleted
  <2>2. Counts'
    BY <1>0, <1>22, StepFacts DEF Delete, Deleted
  <2>3. Quiet'
    BY <1>0, <1>22, StepFacts DEF Delete, Deleted
  <2>4. PacEvents'
    BY <1>0, <1>22, StepFacts DEF Delete, Deleted
  <2>5. Arguments'
    BY <1>0, <1>22, StepFacts DEF Delete, Deleted
  <2> QED
    BY <2>1, <2>2, <2>3, <2>4, <2>5
<1>23. CASE UioEnable
  BY <1>0, <1>23, StepFacts DEF UioEnable, GoTo
<1>24. CASE UioPoll
  BY <1>0, <1>24, StepFacts DEF UioPoll, GoTo
<1>25. CASE PacGetEvent
  <2>1. LifecycleTypes' /\ Counts'
    BY <1>0, <1>25, StepFacts DEF PacGetEvent, GoTo
  <2>2. Quiet' /\ Arguments'
    BY <1>0, <1>25, StepFacts DEF PacGetEvent, GoTo
  <2>3. PacEvents'
    BY <1>0, <1>25, StepFacts DEF PacGetEvent, GoTo
  <2> QED
    BY <2>1, <2>2, <2>3
<1>26. CASE PacPoll
  <2>1. LifecycleTypes'
    BY <1>0, <1>26, StepFacts DEF PacPoll, GoTo
  <2>2. Counts'
    BY <1>0, <1>26, StepFacts DEF PacPoll, GoTo
  <2>3. Quiet'
    BY <1>0, <1>26, StepFacts DEF PacPoll, GoTo
  <2>4. PacEvents'
    BY <1>0, <1>26, StepFacts DEF PacPoll, GoTo
  <2>5. Arguments'
    BY <1>0, <1>26, StepFacts DEF PacPoll, GoTo
  <2> QED
    BY <2>1, <2>2, <2>3, <2>4, <2>5
<1>27. CASE CheckFn
  BY <1>0, <1>27, StepFacts DEF CheckFn, GoTo
<1>28. CASE ReadArg
  BY <1>0, <1>28, StepFacts DEF ReadArg, GoTo
<1>29. CASE OfsTop
  BY <1>0, <1>29, StepFacts DEF OfsTop, GoTo
<1>30. CASE OfsWait
  <2>1. LifecycleTypes'
    BY <1>0, <1>30, StepFacts DEF OfsWait, GoTo
  <2>2. Counts'
    BY <1>0, <1>30, StepFacts DEF OfsWait, GoTo
  <2>3. Quiet'
    BY <1>0, <1>30, StepFacts DEF OfsWait, GoTo
  <2>4. PacEvents'
    BY <1>0, <1>30, StepFacts DEF OfsWait, GoTo
  <2>5. Arguments'
    BY <1>0, <1>30, StepFacts DEF OfsWait, GoTo
  <2> QED
    BY <2>1, <2>2, <2>3, <2>4, <2>5
<1>31. CASE OfsCall
  BY <1>0, <1>31, StepFacts DEF OfsCall, GoTo
<1>32. CASE IsrClear
  <2>1. LifecycleTypes'
    BY <1>0, <1>32, StepFacts DEF IsrClear, GoTo
  <2>2. Counts'
    BY <1>0, <1>32, StepFacts DEF IsrClear, GoTo
  <2>3. Quiet'
    BY <1>0, <1>32, StepFacts DEF IsrClear, GoTo
  <2>4. PacEvents'
    BY <1>0, <1>32, StepFacts DEF IsrClear, GoTo
  <2>5. Arguments'
    BY <1>0, <1>32, StepFacts DEF IsrClear, GoTo
  <2> QED
    BY <2>1, <2>2, <2>3, <2>4, <2>5
<1>33. CASE IsrRead
  BY <1>0, <1>33, StepFacts DEF IsrRead, GoTo
<1>34. CASE FinishJob
  BY <1>0, <1>34, StepFacts DEF FinishJob
<1>35. CASE UioFire
  BY <1>0, <1>35, StepFacts DEF UioFire
<1>36. CASE LoseEvent
  <2>1. LifecycleTypes'
    BY <1>0, <1>36, StepFacts DEF LoseEvent
  <2>2. Counts'
    BY <1>0, <1>36, StepFacts DEF LoseEvent
  <2>3. Quiet'
    BY <1>0, <1>36, StepFacts DEF LoseEvent
  <2>4. PacEvents'
    BY <1>0, <1>36, StepFacts DEF LoseEvent
  <2>5. Arguments'
    BY <1>0, <1>36, StepFacts DEF LoseEvent
  <2> QED
    BY <2>1, <2>2, <2>3, <2>4, <2>5
<1> QED
  BY <1>1, <1>2, <1>3, <1>4, <1>5, <1>6, <1>7, <1>8, <1>9, <1>10, <1>11, <1>12, <1>13, <1>14, <1>15, <1>16, <1>17, <1>18, <1>19, <1>20, <1>21, <1>22, <1>23, <1>24, <1>25, <1>26, <1>27, <1>28, <1>29, <1>30, <1>31, <1>32, <1>33, <1>34, <1>35, <1>36
     DEF Next, HostStep, ConstructorStep, TeardownStep, ThreadStep

\* Registering and serving interrupts keep the invariant.
LEMMA RegisterStep == RegisterInv /\ [Next]_vars => RegisterInv'
<1>1. CASE RegisterInv /\ UNCHANGED vars
  BY <1>1 DEF RegisterInv, LifecycleTypes, Counts, Quiet, OfsQuiet, PacQuiet, PacEvents,
              Registered, Arguments, InIsr, Constructing, vars, hostVars, fdVars, threadVars,
              hwVars
<1> QED
  BY <1>1, RegisterKept

\* What the interrupt thread, the events and the counts can be at each point of
\* opening a board and registering the routine (mmd_device, KernelInterrupt of
\* the three MMDs, CoreDlaDevice's constructor).
THEOREM RegisterInvariant == Spec => []RegisterInv
  BY RegisterInit, RegisterStep, PTL DEF Spec

\* Who changes what the routine has seen.
LEMMA WhoSees ==
    ASSUME Next
    PROVE  backend' = backend /\ (seen' = seen \/ StoreCount \/ IsrRead)
BY DEF Next, HostStep, ConstructorStep, TeardownStep, ThreadStep, hostVars, hwVars, vars,
       Open, OpenStep, OpenStepFails, UioInterrupt, PacStartThread, PacCreateEvent,
         PacRegisterEvent, OfsInterrupt, StartJob, DisableMask, Exit, Exited, EnableMask,
         RegisterFn, RegisterData, OfsRegister, ReadCount, FreeIsrData,
         Notify, Join, Delete, UioEnable, UioPoll, PacGetEvent, PacPoll, CheckFn, ReadArg,
         OfsTop, OfsWait, OfsCall, IsrClear, IsrRead, StoreCount, FinishJob, UioFire, LoseEvent

\* On DCP A10 PAC and OFS boards the routine is never called before its
\* argument is stored, and the constructor takes back no count, although the
\* thread runs before RegisterISR (KernelInterrupt::set_kernel_interrupt,
\* CoreDlaDevice's constructor).
THEOREM RegistrationIsSafe == Spec => IsrRegistrationSafe
<1> DEFINE Safe == backend # "hps" => (InIsr' => arg' = "isrData") /\ seen' >= seen
<1>1. ASSUME RegisterInv, RegisterInv', [Next]_vars PROVE [Safe]_vars
  <2>1. CASE UNCHANGED vars
    BY <2>1
  <2>2. CASE Next
    <3>1. backend' = backend /\ (seen' = seen \/ StoreCount \/ IsrRead)
      BY <2>2, WhoSees
    <3>2. backend # "hps" => (InIsr' => arg' = "isrData")
      BY <1>1, <3>1 DEF RegisterInv, Arguments
    <3>3. backend # "hps" => seen' >= seen
      BY <1>1, <3>1 DEF RegisterInv, LifecycleTypes, Counts, StoreCount, IsrRead
    <3> QED
      BY <3>2, <3>3
  <2> QED
    BY <1>1, <2>1, <2>2
<1>2. RegisterInv /\ RegisterInv' /\ [Next]_vars => [Safe]_vars
  BY <1>1
<1> QED
  BY <1>2, RegisterInvariant, PTL DEF Spec, IsrRegistrationSafe

-----------------------------------------------------------------------------
(* Calls and their boards: the invariant.                                  *)

\* The platforms, and what a client and the streaming state look like.
MMDs == {"hps", "pac", "ofs", "stream", "de10"}
HeldPcs == {"clock", "register", "ready", "close"}
Client == [pc : {"out", "open", "openNone"} \cup HeldPcs, board : Boards \cup {NoId},
           handle : Nat, tries : Nat]
Streamer == [fifo : BOOLEAN, shape : Nat, staged : Nat, ready : BOOLEAN,
             net : {"old", "part", "new"}]

\* The map holds handles that were given out, of boards that exist.
MapTypes ==
    /\ platform \in MMDs /\ nextHandle \in 1 .. MaxHandles + 1
    /\ entries \subseteq 1 .. nextHandle - 1
    /\ idMap \in [Boards -> Nat]
    /\ boardOf \in [Handles -> Boards \cup {NoId}]
    /\ handler \in [Handles -> Clients \cup {NoId}]
    /\ client \in [Clients -> Client]
    /\ writes \in Nat /\ streamer \in Streamer

\* Who opened a board has a handle that was once given out; while it is in the
\* map it stands for a device on that board.
Handed ==
    \A c \in Clients :
        /\ client[c].pc \in HeldPcs =>
              /\ client[c].board \in Boards /\ client[c].handle \in 1 .. nextHandle - 1
              /\ Found(c) => boardOf[client[c].handle] = client[c].board
        /\ client[c].pc \in {"open", "openNone"} => client[c].board \in Boards
        /\ client[c].pc \notin HeldPcs => client[c].handle = NoId

\* A device of the DE10 MMD is its opener's alone and stays until it is closed.
Owned ==
    platform = "de10" =>
        \A c \in Clients : client[c].pc \in HeldPcs =>
            /\ Found(c)
            /\ \A d \in Clients \ {c} :
                  client[d].pc \in HeldPcs => client[d].handle # client[c].handle

\* A board that is found by its id is the one the device was made for.
Identified ==
    Shared => \A b \in Boards : idMap[b] # NoId => idMap[b] \in entries /\ boardOf[idMap[b]] = b

\* Interrupts go to who registered last and still has the handle.
Delivered ==
    \A h \in entries : handler[h] # NoId =>
        client[handler[h]].pc = "ready" /\ client[handler[h]].handle = h

\* The boards hold what was asked of them, each instance in its own place.
Placed ==
    /\ store = [b \in Boards |-> [s \in Spaces |-> [r \in Raws(s) |-> store[b][s][r]]]]
    /\ expect = [b \in Boards |-> [s \in Spaces |-> [p \in Places(s) |-> expect[b][s][p]]]]
    /\ \A b \in Boards, s \in Spaces, i \in Instances : \A addr \in 0 .. Size(s) - 1 :
          store[b][s][Raw(s, i, addr)] = expect[b][s][<<i, addr>>]

\* A call that reports success was answered by the board of its caller.
Answered == got.status = 0 => got.right

MapInv == MapTypes /\ Handed /\ Owned /\ Identified /\ Delivered /\ Placed /\ Answered

-----------------------------------------------------------------------------
(* Addresses: every instance has its registers and memory to itself.       *)

\* From one instance to the next.
Stride(s) == IF (platform = "pac" /\ s = "ddr") \/ (platform = "ofs" /\ s = "csr")
             THEN Size(s) ELSE 2 * Size(s)

\* One instance on the HPS and streaming platforms, two on the others.
LEMMA InstanceFacts ==
    ASSUME platform \in MMDs
    PROVE  /\ Instances = IF platform \in {"hps", "stream"} THEN {0} ELSE {0, 1}
           /\ CsrSize \in Nat \ {0} /\ DdrSize \in Nat \ {0}
<1>1. CsrSize \in Nat \ {0} /\ DdrSize \in Nat \ {0}
  BY DeviceMapAssumption
<1>2. 0 .. 1 - 1 = {0} /\ 0 .. 2 - 1 = {0, 1}
  OBVIOUS
<1> QED
  BY <1>1, <1>2 DEF Instances, NumInstances

\* The first instance starts at 0, the second one stride later.
LEMMA RawIs ==
    ASSUME platform \in MMDs, NEW s \in Spaces, NEW i \in Instances, NEW a \in 0 .. Size(s) - 1
    PROVE  Raw(s, i, a) = (IF i = 0 THEN 0 ELSE Stride(s)) + a
<1>1. /\ i = 0 \/ (i = 1 /\ platform \in {"pac", "ofs", "de10"})
      /\ CsrSize \in Nat \ {0} /\ DdrSize \in Nat \ {0}
  BY InstanceFacts DEF MMDs
<1>2. CASE i = 0
  <2>1. 2 * CsrSize * 0 = 0 /\ CsrSize * 0 = 0 /\ DdrSize * 0 = 0 /\ 2 * DdrSize * 0 = 0
    BY <1>1
  <2>2. CASE s = "csr"
    BY <1>1, <1>2, <2>1, <2>2 DEF Raw, HpsRaw, PacRaw, OfsRaw, De10Raw, StreamRaw, Size, MMDs
  <2>3. CASE s = "ddr"
    <3>1. a \in 0 .. DdrSize - 1 /\ a % DdrSize = a
      BY <1>1, <2>3 DEF Size
    <3> QED
      BY <1>1, <1>2, <2>1, <2>3, <3>1 DEF Raw, HpsRaw, PacRaw, OfsRaw, De10Raw, StreamRaw, MMDs
  <2> QED
    BY <2>2, <2>3 DEF Spaces
<1>3. CASE i = 1
  <2>1. /\ 2 * CsrSize * 1 = 2 * CsrSize /\ CsrSize * 1 = CsrSize
        /\ DdrSize * 1 = DdrSize /\ 2 * DdrSize * 1 = 2 * DdrSize
    BY <1>1
  <2> QED
    BY <1>1, <1>3, <2>1 DEF Raw, PacRaw, OfsRaw, De10Raw, Stride, Size, Spaces
<1> QED
  BY <1>1, <1>2, <1>3

\* So two instances never meet at an address.
LEMMA RawFacts ==
    ASSUME platform \in MMDs, NEW s \in Spaces, NEW i \in Instances, NEW a \in 0 .. Size(s) - 1
    PROVE  /\ Raw(s, i, a) \in Raws(s) /\ <<i, a>> \in Places(s)
           /\ \A j \in Instances : \A b \in 0 .. Size(s) - 1 :
                 Raw(s, i, a) = Raw(s, j, b) => i = j /\ a = b
<1>1. Size(s) \in Nat \ {0} /\ Stride(s) \in {Size(s), 2 * Size(s)}
  BY InstanceFacts DEF Size, Stride
<1>2. ASSUME NEW j \in Instances, NEW b \in 0 .. Size(s) - 1
      PROVE  /\ j \in {0, 1} /\ b \in Nat /\ b < Size(s)
             /\ Raw(s, j, b) = (IF j = 0 THEN 0 ELSE Stride(s)) + b
  BY <1>1, RawIs, InstanceFacts
<1>3. Raw(s, i, a) \in Raws(s) /\ <<i, a>> \in Places(s)
  BY <1>1, <1>2 DEF Raws, Places
<1>4. ASSUME NEW j \in Instances, NEW b \in 0 .. Size(s) - 1, Raw(s, i, a) = Raw(s, j, b)
      PROVE  i = j /\ a = b
  BY <1>1, <1>2, <1>4
<1> QED
  BY <1>3, <1>4

-----------------------------------------------------------------------------
(* Steps by what they leave alone.                                         *)

\* Before the first open there is no handle to be wrong about.
LEMMA MapInitial == MapInit => MapInv
<1> SUFFICES ASSUME MapInit PROVE MapInv
  OBVIOUS
<1>1. platform \in MMDs /\ MaxHandles \in Nat \ {0}
  BY DeviceMapAssumption DEF MapInit, NothingOpen, MMDs
<1>2. MapTypes
  <2>1. client \in [Clients -> Client]
    BY DEF MapInit, NothingOpen, NoClient, Client, HeldPcs, NoId
  <2>2. streamer \in Streamer
    BY DEF MapInit, NothingOpen, NoStreamer, Streamer
  <2>3. nextHandle \in 1 .. MaxHandles + 1 /\ entries = {} /\ writes = 0
    BY <1>1 DEF MapInit, NothingOpen
  <2>4. /\ idMap \in [Boards -> Nat] /\ boardOf \in [Handles -> Boards \cup {NoId}]
        /\ handler \in [Handles -> Clients \cup {NoId}]
    BY DEF MapInit, NothingOpen, NoId
  <2> QED
    BY <1>1, <2>1, <2>2, <2>3, <2>4 DEF MapTypes
<1>3. Handed
  BY DEF MapInit, NothingOpen, NoClient, Handed, HeldPcs
<1>4. Owned /\ Identified /\ Delivered
  BY DEF MapInit, NothingOpen, NoClient, Owned, HeldPcs, Identified, Delivered
<1>5. Placed
  <2>1. store = [b \in Boards |-> [s \in Spaces |-> [r \in Raws(s) |-> 0]]]
    BY DEF MapInit, NothingOpen
  <2>2. expect = [b \in Boards |-> [s \in Spaces |-> [p \in Places(s) |-> 0]]]
    BY DEF MapInit, NothingOpen
  <2>3. ASSUME NEW b \in Boards, NEW s \in Spaces, NEW i \in Instances,
               NEW a \in 0 .. Size(s) - 1
        PROVE  store[b][s][Raw(s, i, a)] = expect[b][s][<<i, a>>]
    BY <1>1, <2>1, <2>2, RawFacts
  <2> QED
    BY <2>1, <2>2, <2>3 DEF Placed
<1>6. Answered
  BY DEF MapInit, NothingOpen, NoAnswer, Answered
<1> QED
  BY <1>2, <1>3, <1>4, <1>5, <1>6 DEF MapInv

\* The boards' contents stay as they are.
LEMMA PlacedKept ==
    ASSUME Placed, platform' = platform, store' = store, expect' = expect
    PROVE  Placed'
<1>1. ASSUME NEW s, NEW i, NEW a PROVE Raw(s, i, a)' = Raw(s, i, a)
  BY DEF Raw, HpsRaw, PacRaw, OfsRaw, De10Raw, StreamRaw
<1>2. Instances' = Instances
  BY DEF Instances, NumInstances
<1>3. store' = [b \in Boards |-> [s \in Spaces |-> [r \in Raws(s) |-> store'[b][s][r]]]]
  BY DEF Placed
<1>4. expect' = [b \in Boards |-> [s \in Spaces |-> [p \in Places(s) |-> expect'[b][s][p]]]]
  BY DEF Placed
<1>5. ASSUME NEW b \in Boards, NEW s \in Spaces, NEW i \in Instances, NEW a \in 0 .. Size(s) - 1
      PROVE  store'[b][s][Raw(s, i, a)'] = expect'[b][s][<<i, a>>]
  BY <1>1 DEF Placed
<1> QED
  BY <1>2, <1>3, <1>4, <1>5 DEF Placed

\* The map stays as it is, and the clients' handles.
LEMMA MapKept ==
    ASSUME Handed, Owned, Identified, Delivered, platform' = platform, UNCHANGED mapVars,
           client' = client
    PROVE  Handed' /\ Owned' /\ Identified' /\ Delivered'
BY DEF Handed, Owned, Identified, Delivered, Found, Shared, mapVars

\* Calls that only answer.
LEMMA ToldKept ==
    ASSUME MapInv, NEW c, NEW answer, Told(c, answer), answer.status = 0 => answer.right
    PROVE  MapInv'
<1>1. UNCHANGED <<platform, mapVars, client, store, expect, writes, streamer>> /\ got' = answer
  BY DEF Told, boardVars
<1>2. MapTypes'
  BY <1>1 DEF MapInv, MapTypes, mapVars
<1>3. Handed' /\ Owned' /\ Identified' /\ Delivered' /\ Placed'
  BY <1>1, MapKept, PlacedKept DEF MapInv
<1>4. Answered'
  BY <1>1 DEF Answered
<1> QED
  BY <1>2, <1>3, <1>4 DEF MapInv

\* Calls of the streaming device.
LEMMA StreamCallKept ==
    ASSUME MapInv, NEW c, NEW allowed, NEW new, NEW answer, NEW thrown,
           StreamCall(c, allowed, new, answer, thrown),
           allowed => new \in Streamer, thrown \in Streamer,
           allowed => (answer.status = 0 => answer.right)
    PROVE  MapInv'
<1>1. UNCHANGED <<platform, mapVars, client, store, expect, writes>>
  BY DEF StreamCall
<1>2. streamer' \in Streamer
  BY DEF StreamCall, MapInv, MapTypes
<1>3. MapTypes'
  BY <1>1, <1>2 DEF MapInv, MapTypes, mapVars
<1>4. Handed' /\ Owned' /\ Identified' /\ Delivered' /\ Placed'
  BY <1>1, MapKept, PlacedKept DEF MapInv
<1>5. Answered'
  BY DEF StreamCall, Answered, NoAnswer
<1> QED
  BY <1>3, <1>4, <1>5 DEF MapInv

\* A call answers what it should, or says that it failed.
LEMMA AnswerFacts ==
    /\ NoAnswer.status # 0
    /\ \A v, w : v = w => Answer(v, w).right
<1>1. NoAnswer.status # 0
  BY DEF NoAnswer
<1>2. ASSUME NEW v, NEW w, v = w PROVE Answer(v, w).right
  BY <1>2 DEF Answer
<1> QED
  BY <1>1, <1>2

\* A client that may call and finds its device, finds it on its board.
LEMMA CallerFacts ==
    ASSUME MapInv, NEW c \in Clients, Calling(c), Found(c)
    PROVE  /\ client[c].board \in Boards /\ client[c].handle \in Handles
           /\ boardOf[client[c].handle] = client[c].board
<1>1. client[c].pc \in HeldPcs
  BY DEF Calling, HeldPcs
<1>2. nextHandle \in 1 .. MaxHandles + 1 /\ MaxHandles \in Nat
  BY DeviceMapAssumption DEF MapInv, MapTypes
<1>3. client[c].handle \in 1 .. nextHandle - 1
  BY <1>1 DEF MapInv, Handed
<1>4. client[c].handle \in Handles
  BY <1>2, <1>3 DEF Handles
<1> QED
  BY <1>1, <1>4 DEF MapInv, Handed

\* A read returns what the board's last write there left.
LEMMA ReadKept ==
    ASSUME MapInv, NEW c \in Clients, NEW s \in Spaces, NEW i \in Instances,
           NEW a \in 0 .. Size(s) - 1, Read(c, s, i, a)
    PROVE  MapInv'
<1>1. CASE Found(c) /\ Told(c, Answer(store[boardOf[client[c].handle]][s][Raw(s, i, a)],
                                    expect[client[c].board][s][<<i, a>>]))
  <2>1. client[c].board \in Boards /\ boardOf[client[c].handle] = client[c].board
    BY <1>1, CallerFacts DEF Told
  <2>2. store[boardOf[client[c].handle]][s][Raw(s, i, a)] = expect[client[c].board][s][<<i, a>>]
    <3> DEFINE b == client[c].board
    <3>1. b \in Boards => store[b][s][Raw(s, i, a)] = expect[b][s][<<i, a>>]
      BY DEF MapInv, Placed
    <3> QED
      BY <2>1, <3>1
  <2> QED
    BY <1>1, <2>2, AnswerFacts, ToldKept
<1>2. CASE Told(c, NoAnswer)
  BY <1>2, AnswerFacts, ToldKept
<1> QED
  BY <1>1, <1>2 DEF Read

\* What the MMDs know of a board is about the board that was opened.
LEMMA InfoKept ==
    ASSUME MapInv, NEW c \in Clients,
           \/ GetInfo(c) \/ De10Forward(c) \/ HpsStreamController(c)
           \/ HpsUnsupported(c) \/ StreamReadThrows(c)
    PROVE  MapInv'
<1>1. ASSUME Told(c, NoAnswer) PROVE MapInv'
  BY <1>1, AnswerFacts, ToldKept
<1>2. ASSUME NEW v, Told(c, Answer(v, v)) PROVE MapInv'
  BY <1>2, AnswerFacts, ToldKept
<1>3. ASSUME Found(c), Told(c, Answer(boardOf[client[c].handle], client[c].board))
      PROVE  MapInv'
  <2>1. boardOf[client[c].handle] = client[c].board
    BY <1>3, CallerFacts DEF Told
  <2> QED
    BY <1>2, <1>3, <2>1
<1>4. CASE De10Forward(c) \/ HpsStreamController(c) \/ HpsUnsupported(c) \/ StreamReadThrows(c)
  BY <1>1, <1>3, <1>4 DEF De10Forward, HpsStreamController, HpsUnsupported, StreamReadThrows
<1>5. ASSUME NEW id \in Infos, Found(c), Told(c, Info(c, id)) PROVE MapInv'
  BY <1>2, <1>3, <1>5 DEF Info
<1>6. CASE GetInfo(c)
  <2>1. PICK id \in Infos :
            Told(c, CASE platform = "hps"    -> HpsInfo(c, id)
                      [] platform = "pac"    -> PacInfo(c, id)
                      [] platform = "ofs"    -> OfsInfo(c, id)
                      [] platform = "stream" -> StreamInfo(c, id)
                      [] platform = "de10"   -> De10Info(c, id))
    BY <1>6 DEF GetInfo
  <2>2. Calling(c)
    BY <2>1 DEF Told
  <2>3. platform = "de10" => Found(c)
    BY <2>2 DEF MapInv, Owned, Calling, HeldPcs
  <2>4. \/ Told(c, NoAnswer) \/ Told(c, Unset)
        \/ Found(c) /\ Told(c, Info(c, id))
    BY <2>1, <2>3 DEF HpsInfo, PacInfo, OfsInfo, StreamInfo, De10Info, MapInv, MapTypes, MMDs
  <2> QED
    BY <1>1, <1>2, <1>5, <2>4 DEF Unset
<1> QED
  BY <1>4, <1>6

-----------------------------------------------------------------------------
(* The streaming device.                                                   *)

\* The bytes of whole beats.
LEMMA BeatFacts ==
    ASSUME NEW valid \in Nat
    PROVE  TotalBytes(valid) \in Nat /\ TotalBytes(valid) % BeatBytes = 0
<1> DEFINE q == (valid + BeatBytes - 1) \div BeatBytes
<1>1. BeatBytes \in Nat \ {0}
  BY DeviceMapAssumption
<1>2. q \in Nat
  BY <1>1
<1> HIDE DEF q
<1>3. q * BeatBytes \in Nat /\ (q * BeatBytes) % BeatBytes = 0
  BY <1>1, <1>2
<1> QED
  BY <1>3 DEF TotalBytes, q

\* get_output_data undoes what the egress DMA does to a beat.
LEMMA OutputInOrder ==
    ASSUME NEW k \in Nat
    PROVE  OutputFrom(k) = StagedAt(k)
<1> DEFINE r == k % BeatBytes
           q == k \div BeatBytes
<1>1. BeatBytes \in Nat \ {0} /\ BeatBytes % 2 = 0
  BY DeviceMapAssumption
<1>2. PICK h \in Nat : BeatBytes = 2 * h
  BY <1>1
<1>3. q \in Nat /\ r \in Nat /\ k = BeatBytes * q + r
  BY <1>1
<1> HIDE DEF q, r
<1>4. k = 2 * (h * q) + r /\ h * q \in Nat
  BY <1>2, <1>3
<1>5. k % 2 = r % 2
  BY <1>3, <1>4
<1>6. q * BeatBytes \in Nat
  BY <1>1, <1>3
<1>7. r = 2 * (r \div 2) + (r % 2) /\ r % 2 \in {0, 1}
  BY <1>3
<1> QED
  BY <1>1, <1>3, <1>5, <1>6, <1>7 DEF OutputFrom, StagedAt, q, r

\* The streaming calls change the only streaming board and its network.
LEMMA StreamKept ==
    ASSUME MapInv, NEW c \in Clients,
           \/ InitIStreamFifo(c) \/ SetOutputShape(c) \/ Istream(c)
           \/ OstreamStream(c) \/ OstreamRead(c) \/ OnlineReconfig(c)
    PROVE  MapInv'
<1>0. streamer \in Streamer
  BY DEF MapInv, MapTypes
<1>1. Answer(0, 0).right /\ Unset.right
  BY AnswerFacts DEF Unset
<1>2. CASE InitIStreamFifo(c)
  <2>1. [streamer EXCEPT !.fifo = TRUE] \in Streamer /\ [streamer EXCEPT !.fifo = FALSE] \in Streamer
    BY <1>0 DEF Streamer
  <2> QED
    BY <1>1, <1>2, <2>1, StreamCallKept DEF InitIStreamFifo
<1>3. CASE SetOutputShape(c)
  <2>1. PICK elements \in Shapes :
            StreamCall(c, 2 * elements # 0,
                [streamer EXCEPT !.shape = 2 * elements,
                     !.staged = IF TotalBytes(2 * elements) = TotalBytes(streamer.shape)
                                THEN streamer.staged ELSE 0],
                Answer(TotalBytes(2 * elements) % BeatBytes, 0), streamer)
    BY <1>3 DEF SetOutputShape
  <2>2. 2 * elements \in Nat
    BY DeviceMapAssumption
  <2>3. [streamer EXCEPT !.shape = 2 * elements,
             !.staged = IF TotalBytes(2 * elements) = TotalBytes(streamer.shape)
                        THEN streamer.staged ELSE 0] \in Streamer
    BY <1>0, <2>2 DEF Streamer
  <2>4. Answer(TotalBytes(2 * elements) % BeatBytes, 0).right
    BY <2>2, BeatFacts, AnswerFacts
  <2> QED
    BY <1>0, <2>1, <2>3, <2>4, StreamCallKept
<1>4. CASE Istream(c)
  BY <1>0, <1>1, <1>4, StreamCallKept DEF Istream
<1>5. CASE OstreamStream(c)
  <2>1. /\ [streamer EXCEPT !.staged = TotalBytes(streamer.shape)] \in Streamer
        /\ [streamer EXCEPT !.staged = 0] \in Streamer
    BY <1>0, BeatFacts DEF Streamer
  <2> QED
    BY <1>1, <1>5, <2>1, StreamCallKept DEF OstreamStream
<1>6. CASE OstreamRead(c)
  <2> DEFINE bytes == 0 .. streamer.shape - 1
             out == IF streamer.staged # TotalBytes(streamer.shape) THEN Unset
                    ELSE Answer([k \in bytes |-> OutputFrom(k)], [k \in bytes |-> StagedAt(k)])
  <2>1. StreamCall(c, streamer.shape # 0, streamer, out, streamer)
    BY <1>6 DEF OstreamRead
  <2>2. bytes \subseteq Nat
    BY <1>0 DEF Streamer
  <2> HIDE DEF bytes
  <2>3. [k \in bytes |-> OutputFrom(k)] = [k \in bytes |-> StagedAt(k)]
    BY <2>2, OutputInOrder
  <2>4. out.right
    BY <1>1, <2>3, AnswerFacts
  <2> QED
    BY <1>0, <2>1, <2>4, StreamCallKept
<1>7. CASE OnlineReconfig(c)
  <2>1. PICK files \in 0 .. 2 :
            StreamCall(c, TRUE, Reconfigured(3), Answer(Reconfigured(3).net, "new"),
                       Reconfigured(files))
    BY <1>7 DEF OnlineReconfig
  <2>2. Reconfigured(3) \in Streamer /\ Reconfigured(files) \in Streamer
    BY <1>0 DEF Streamer, Reconfigured
  <2>3. Reconfigured(3).net = "new"
    BY <1>0 DEF Streamer, Reconfigured
  <2> QED
    BY <2>1, <2>2, <2>3, AnswerFacts, StreamCallKept
<1> QED
  BY <1>2, <1>3, <1>4, <1>5, <1>6, <1>7

-----------------------------------------------------------------------------
(* Opening and closing.                                                    *)

\* A client goes on in its constructor, or is done with it; at most a handle
\* is used up.  It holds what it held, or a device that others share with it.
LEMMA Moved ==
    ASSUME MapInv, NEW c \in Clients, NEW new \in Client, client[c].pc # "ready",
           UNCHANGED <<platform, entries, idMap, boardOf, handler, boardVars>>,
           nextHandle' \in {nextHandle, nextHandle + 1}, nextHandle' \in 1 .. MaxHandles + 1,
           client' = [client EXCEPT ![c] = new], got' = NoAnswer,
           new.pc \in {"open", "openNone"} => new.board \in Boards,
           new.pc \notin HeldPcs => new.handle = NoId,
           new.pc \in HeldPcs =>
              \/ /\ client[c].pc \in HeldPcs
                 /\ new.board = client[c].board /\ new.handle = client[c].handle
              \/ /\ platform # "de10" /\ new.board \in Boards
                 /\ new.handle \in entries /\ boardOf[new.handle] = new.board
    PROVE  MapInv'
<1>1. MapTypes
  BY DEF MapInv
<1>2. /\ nextHandle \in Nat /\ nextHandle' \in Nat /\ nextHandle' >= nextHandle
      /\ entries \subseteq 1 .. nextHandle - 1 /\ client \in [Clients -> Client]
  BY <1>1, DeviceMapAssumption DEF MapTypes
<1>3. 1 .. nextHandle - 1 \subseteq 1 .. nextHandle' - 1
  BY <1>2
<1>4. client'[c] = new /\ \A d \in Clients : d # c => client'[d] = client[d]
  BY <1>2
<1>5. MapTypes'
  <2>1. client' \in [Clients -> Client]
    BY <1>2
  <2> QED
    BY <1>1, <1>2, <1>3, <2>1 DEF MapTypes, boardVars
<1>6. Handed'
  <2> SUFFICES ASSUME NEW d \in Clients
               PROVE  /\ client'[d].pc \in HeldPcs =>
                             /\ client'[d].board \in Boards
                             /\ client'[d].handle \in 1 .. nextHandle' - 1
                             /\ client'[d].handle \in entries =>
                                   boardOf[client'[d].handle] = client'[d].board
                      /\ client'[d].pc \in {"open", "openNone"} => client'[d].board \in Boards
                      /\ client'[d].pc \notin HeldPcs => client'[d].handle = NoId
    BY DEF Handed, Found
  <2>1. CASE d # c
    BY <1>3, <1>4, <2>1 DEF MapInv, Handed, Found
  <2>2. CASE d = c
    BY <1>2, <1>3, <1>4, <2>2 DEF MapInv, Handed, Found
  <2> QED
    BY <2>1, <2>2
<1>7. Owned'
  BY <1>4 DEF MapInv, Owned, Found
<1>8. Identified' /\ Delivered'
  <2>1. Identified'
    BY DEF MapInv, Identified, Shared
  <2>2. ASSUME NEW h \in entries, handler[h] # NoId
        PROVE  client'[handler[h]].pc = "ready" /\ client'[handler[h]].handle = h
    <3>1. h \in Handles
      BY <1>1, <1>2, DeviceMapAssumption DEF MapTypes, Handles
    <3>2. handler[h] \in Clients
      BY <1>1, <2>2, <3>1 DEF MapTypes
    <3>3. client[handler[h]].pc = "ready" /\ client[handler[h]].handle = h
      BY <2>2 DEF MapInv, Delivered
    <3> QED
      BY <1>4, <3>2, <3>3
  <2> QED
    BY <2>1, <2>2 DEF Delivered
<1>9. Placed' /\ Answered'
  BY PlacedKept DEF MapInv, boardVars, Answered, NoAnswer
<1> QED
  BY <1>5, <1>6, <1>7, <1>8, <1>9 DEF MapInv

\* A client that holds nothing, and one that gave up.
LEMMA NoClientFacts ==
    NoClient \in Client /\ NoClient.pc = "out" /\ NoClient.handle = NoId /\ "out" \notin HeldPcs
BY DEF NoClient, Client, HeldPcs, NoId

\* aocl_mmd_get_offline_info and the names that cannot be opened.
LEMMA OfflineKept ==
    ASSUME MapInv, NEW c \in Clients, GetOfflineInfo(c) \/ OpenNone(c)
    PROVE  MapInv'
<1>0. nextHandle \in 1 .. MaxHandles + 1 /\ MaxHandles \in Nat
  BY DeviceMapAssumption DEF MapInv, MapTypes
<1>1. CASE GetOfflineInfo(c)
  <2>1. PICK names \in Names, b \in BoardNames :
            client' = [client EXCEPT ![c] =
                IF names = "failed" THEN NoClient
                ELSE [NoClient EXCEPT !.pc = IF names = "ok" THEN "open" ELSE "openNone",
                                      !.board = b]]
    BY <1>1 DEF GetOfflineInfo
  <2> DEFINE new == IF names = "failed" THEN NoClient
                    ELSE [NoClient EXCEPT !.pc = IF names = "ok" THEN "open" ELSE "openNone",
                                          !.board = b]
  <2>2. b \in Boards
    BY DeviceMapAssumption DEF BoardNames
  <2>3. /\ new \in Client /\ new.pc \notin HeldPcs /\ new.handle = NoId
        /\ new.pc \in {"open", "openNone"} => new.board \in Boards
    BY <2>2 DEF NoClient, Client, HeldPcs, NoId
  <2>4. /\ UNCHANGED <<platform, entries, idMap, boardOf, handler, boardVars>>
        /\ nextHandle' = nextHandle /\ got' = NoAnswer /\ client[c].pc # "ready"
        /\ client' = [client EXCEPT ![c] = new]
    BY <1>1, <2>1 DEF GetOfflineInfo, mapVars
  <2> HIDE DEF new
  <2> QED
    BY <1>0, <2>3, <2>4, Moved
<1>2. CASE OpenNone(c)
  <2>1. /\ UNCHANGED <<platform, entries, idMap, boardOf, handler, boardVars>>
        /\ nextHandle' \in {nextHandle, nextHandle + 1} /\ nextHandle' \in 1 .. MaxHandles + 1
        /\ got' = NoAnswer /\ client[c].pc # "ready" /\ client' = [client EXCEPT ![c] = NoClient]
    BY <1>0, <1>2 DEF OpenNone
  <2> QED
    BY <2>1, NoClientFacts, Moved
<1> QED
  BY <1>1, <1>2

\* MmdWrapper's constructor asks for the clock.
LEMMA ClockKept ==
    ASSUME MapInv, NEW c \in Clients, MeasureClock(c)
    PROVE  MapInv'
<1>0. /\ nextHandle \in 1 .. MaxHandles + 1 /\ client[c] \in Client /\ client[c].pc = "clock"
      /\ UNCHANGED <<platform, entries, idMap, boardOf, handler, boardVars>>
      /\ nextHandle' = nextHandle /\ got' = NoAnswer
  BY DEF MapInv, MapTypes, MeasureClock, mapVars
<1>1. PICK clock \in Clock(c) :
          client' = [client EXCEPT ![c] =
              IF clock = "throws" THEN NoClient
              ELSE IF clock = "nonzero" \/ client[c].tries = ClockRetries
              THEN [client[c] EXCEPT !.pc = "register", !.tries = 0]
              ELSE [client[c] EXCEPT !.tries = client[c].tries + 1]]
  BY DEF MeasureClock
<1>2. ASSUME NEW new, client' = [client EXCEPT ![c] = new],
             \/ new = NoClient
             \/ new = [client[c] EXCEPT !.pc = "register", !.tries = 0]
             \/ new = [client[c] EXCEPT !.tries = client[c].tries + 1]
      PROVE  MapInv'
  <2>1. CASE new = NoClient
    BY <1>0, <1>2, <2>1, NoClientFacts, Moved
  <2>2. CASE \/ new = [client[c] EXCEPT !.pc = "register", !.tries = 0]
             \/ new = [client[c] EXCEPT !.tries = client[c].tries + 1]
    <3>1. /\ new \in Client /\ new.pc \in {"clock", "register"}
          /\ new.board = client[c].board /\ new.handle = client[c].handle
      <4>1. CASE new = [client[c] EXCEPT !.pc = "register", !.tries = 0]
        BY <1>0, <4>1 DEF Client, HeldPcs
      <4>2. CASE new = [client[c] EXCEPT !.tries = client[c].tries + 1]
        <5>1. client[c].tries + 1 \in Nat
          BY <1>0 DEF Client
        <5> QED
          BY <1>0, <4>2, <5>1 DEF Client, HeldPcs
      <4> QED
        BY <2>2, <4>1, <4>2
    <3>2. "clock" \in HeldPcs /\ new.pc \in HeldPcs /\ new.pc \notin {"open", "openNone"}
      BY <3>1 DEF HeldPcs
    <3> QED
      BY <1>0, <1>2, <3>1, <3>2, Moved
  <2> QED
    BY <1>2, <2>1, <2>2
<1> QED
  BY <1>1, <1>2

\* A device enters the map; its opener holds it, or never hears of it.
LEMMA EnterKept ==
    ASSUME MapInv, NEW c \in Clients, client[c].pc = "open",
           Shared => idMap[client[c].board] = NoId,
           UNCHANGED <<platform, store, expect, writes>>, got' = NoAnswer,
           streamer' \in Streamer,
           Enter(nextHandle, client[c].board),
           Opened(c, nextHandle) \/ OpenFailed(c)
    PROVE  MapInv'
<1>1. MapTypes
  BY DEF MapInv
<1> DEFINE n == nextHandle
           b == client[c].board
<1>2. /\ n \in 1 .. MaxHandles /\ MaxHandles \in Nat /\ n \in Nat /\ n # NoId /\ nextHandle' = n + 1
      /\ nextHandle' \in 1 .. MaxHandles + 1 /\ nextHandle' - 1 = n
      /\ client[c] \in Client /\ b \in Boards /\ "open" \notin HeldPcs
      /\ n \notin 1 .. n - 1 /\ 1 .. n - 1 \subseteq 1 .. n /\ entries \subseteq 1 .. n - 1
  BY <1>1, DeviceMapAssumption DEF MapTypes, MapInv, Handed, HeldPcs, Enter, NoId
<1>3. /\ entries' = entries \cup {n} /\ n \notin entries /\ n \in Handles
      /\ boardOf' = [boardOf EXCEPT ![n] = b] /\ handler' = [handler EXCEPT ![n] = NoId]
      /\ idMap' = IF Shared THEN [idMap EXCEPT ![b] = n] ELSE idMap
  BY <1>2 DEF Enter, Handles
<1>4. /\ boardOf'[n] = b /\ handler'[n] = NoId
      /\ \A h \in Handles : h # n => boardOf'[h] = boardOf[h] /\ handler'[h] = handler[h]
  BY <1>1, <1>3 DEF MapTypes
<1>5. /\ \A d \in Clients : d # c => client'[d] = client[d]
      /\ client' \in [Clients -> Client]
      /\ \/ client'[c].pc = "clock" /\ client'[c].board = b /\ client'[c].handle = n
         \/ client'[c].pc = "out" /\ client'[c].handle = NoId
  <2>1. CASE Opened(c, n)
    BY <1>1, <1>2, <2>1 DEF Opened, MapTypes, Client, HeldPcs
  <2>2. CASE OpenFailed(c)
    BY <1>1, <2>2, NoClientFacts DEF OpenFailed, MapTypes
  <2> QED
    BY <2>1, <2>2
<1> HIDE DEF n, b
<1>6. \A h \in 1 .. n - 1 : h \in Handles /\ h # n
  BY <1>2 DEF Handles
<1>7. MapTypes'
  <2>1. /\ idMap' \in [Boards -> Nat] /\ boardOf' \in [Handles -> Boards \cup {NoId}]
        /\ handler' \in [Handles -> Clients \cup {NoId}]
    BY <1>1, <1>2, <1>3 DEF MapTypes
  <2>2. entries' \subseteq 1 .. nextHandle' - 1
    BY <1>2, <1>3
  <2> QED
    BY <1>1, <1>2, <1>5, <2>1, <2>2 DEF MapTypes
<1>8. Handed'
  <2> SUFFICES ASSUME NEW d \in Clients
               PROVE  /\ client'[d].pc \in HeldPcs =>
                             /\ client'[d].board \in Boards
                             /\ client'[d].handle \in 1 .. nextHandle' - 1
                             /\ client'[d].handle \in entries' =>
                                   boardOf'[client'[d].handle] = client'[d].board
                      /\ client'[d].pc \in {"open", "openNone"} => client'[d].board \in Boards
                      /\ client'[d].pc \notin HeldPcs => client'[d].handle = NoId
    BY DEF Handed, Found
  <2>1. CASE d = c
    BY <1>2, <1>4, <1>5, <2>1 DEF HeldPcs
  <2>2. CASE d # c
    <3>1. client'[d] = client[d]
      BY <1>5, <2>2
    <3>2. client[d].pc \in HeldPcs =>
             /\ client[d].board \in Boards /\ client[d].handle \in 1 .. n - 1
             /\ client[d].handle \in entries => boardOf[client[d].handle] = client[d].board
      BY DEF MapInv, Handed, Found, n
    <3>3. /\ client[d].pc \in {"open", "openNone"} => client[d].board \in Boards
          /\ client[d].pc \notin HeldPcs => client[d].handle = NoId
      BY DEF MapInv, Handed
    <3>4. client[d].pc \in HeldPcs /\ client[d].handle \in entries' =>
             boardOf'[client[d].handle] = client[d].board
      BY <1>3, <1>4, <1>6, <3>2
    <3> QED
      BY <1>2, <3>1, <3>2, <3>3, <3>4
  <2> QED
    BY <2>1, <2>2
<1>9. Owned'
  <2> SUFFICES ASSUME platform = "de10", NEW d \in Clients, client'[d].pc \in HeldPcs
               PROVE  /\ client'[d].handle \in entries'
                      /\ \A e \in Clients \ {d} :
                            client'[e].pc \in HeldPcs => client'[e].handle # client'[d].handle
    BY DEF Owned, Found
  <2>1. \A e \in Clients : e # c /\ client'[e].pc \in HeldPcs =>
           /\ client'[e].handle = client[e].handle /\ client[e].pc \in HeldPcs
           /\ client[e].handle \in 1 .. n - 1 /\ client[e].handle \in entries
    BY <1>5 DEF MapInv, Handed, Owned, Found, n
  <2>2. client'[c].pc \in HeldPcs => client'[c].handle = n
    BY <1>5 DEF HeldPcs
  <2>3. \A e \in Clients \ {d} : d # c /\ e # c /\ client'[e].pc \in HeldPcs =>
           client'[e].handle # client'[d].handle
    BY <2>1 DEF MapInv, Owned
  <2> QED
    BY <1>3, <1>6, <2>1, <2>2, <2>3
<1>10. Identified'
  <2> SUFFICES ASSUME Shared, NEW e \in Boards, idMap'[e] # NoId
               PROVE  idMap'[e] \in entries' /\ boardOf'[idMap'[e]] = e
    BY DEF Identified, Shared
  <2>1. CASE e = b
    BY <1>1, <1>2, <1>3, <1>4, <2>1 DEF MapTypes
  <2>2. CASE e # b
    <3>1. idMap'[e] = idMap[e] /\ idMap[e] \in entries /\ boardOf[idMap[e]] = e
      BY <1>1, <1>3, <2>2 DEF MapTypes, MapInv, Identified
    <3> QED
      BY <1>2, <1>3, <1>4, <1>6, <3>1
  <2> QED
    BY <2>1, <2>2
<1>11. Delivered'
  <2> SUFFICES ASSUME NEW h \in entries', handler'[h] # NoId
               PROVE  client'[handler'[h]].pc = "ready" /\ client'[handler'[h]].handle = h
    BY DEF Delivered
  <2>1. h # n /\ h \in entries /\ h \in Handles /\ handler'[h] = handler[h]
    BY <1>2, <1>3, <1>4, <1>6
  <2>2. handler[h] \in Clients /\ client[handler[h]].pc = "ready" /\ client[handler[h]].handle = h
    BY <1>1, <2>1 DEF MapTypes, MapInv, Delivered
  <2> QED
    BY <1>5, <2>1, <2>2
<1>12. Placed' /\ Answered'
  BY PlacedKept DEF MapInv, Answered, NoAnswer
<1> QED
  BY <1>7, <1>8, <1>9, <1>10, <1>11, <1>12 DEF MapInv

\* aocl_mmd_open fails and nothing is made that stays.
LEMMA OpenFailedKept ==
    ASSUME MapInv, NEW c \in Clients, client[c].pc = "open", OpenFailed(c), got' = NoAnswer,
           UNCHANGED <<platform, store, expect, writes, streamer>>, NotMade \/ UNCHANGED mapVars
    PROVE  MapInv'
<1>1. nextHandle \in 1 .. MaxHandles + 1 /\ MaxHandles \in Nat
  BY DeviceMapAssumption DEF MapInv, MapTypes
<1>2. /\ UNCHANGED <<platform, entries, idMap, boardOf, handler, boardVars>>
      /\ nextHandle' \in {nextHandle, nextHandle + 1} /\ nextHandle' \in 1 .. MaxHandles + 1
  BY <1>1 DEF NotMade, mapVars, boardVars
<1>3. client' = [client EXCEPT ![c] = NoClient] /\ client[c].pc # "ready"
  BY DEF OpenFailed
<1> QED
  BY <1>2, <1>3, NoClientFacts, Moved

\* aocl_mmd_open finds the board open already.
LEMMA OpenSharedKept ==
    ASSUME MapInv, NEW c \in Clients, client[c].pc = "open", Shared,
           HandleOf(client[c].board) # NoId, Opened(c, HandleOf(client[c].board)),
           got' = NoAnswer,
           UNCHANGED <<platform, store, expect, writes, streamer, mapVars>>
    PROVE  MapInv'
<1> DEFINE b == client[c].board
           new == [client[c] EXCEPT !.pc = "clock", !.handle = idMap[b]]
<1>1. /\ client[c] \in Client /\ b \in Boards /\ idMap[b] \in Nat
      /\ nextHandle \in 1 .. MaxHandles + 1 /\ platform # "de10"
  BY DEF MapInv, MapTypes, Handed, Shared
<1>2. idMap[b] \in entries /\ boardOf[idMap[b]] = b
  BY <1>1 DEF MapInv, Identified, HandleOf
<1>3. /\ new \in Client /\ new.pc = "clock" /\ new.board = b /\ new.handle = idMap[b]
      /\ "clock" \in HeldPcs
  BY <1>1 DEF Client, HeldPcs
<1>4. client' = [client EXCEPT ![c] = new]
  BY <1>1 DEF Opened, HandleOf, MapInv, MapTypes
<1>5. UNCHANGED <<entries, idMap, boardOf, handler, boardVars>> /\ nextHandle' = nextHandle
  BY DEF mapVars, boardVars
<1> HIDE DEF new
<1>6. new.pc \notin {"open", "openNone"} /\ new.pc \in HeldPcs /\ client[c].pc # "ready"
  BY <1>3
<1>7. new.board \in Boards /\ new.handle \in entries /\ boardOf[new.handle] = new.board
  BY <1>1, <1>2, <1>3
<1> QED
  BY <1>1, <1>3, <1>4, <1>5, <1>6, <1>7, Moved

\* aocl_mmd_open of the five MMDs.
LEMMA OpenKept ==
    ASSUME MapInv, NEW c \in Clients,
           HpsOpen(c) \/ De10Open(c) \/ PacOpen(c) \/ OfsOpen(c) \/ StreamOpen(c)
    PROVE  MapInv'
<1>1. /\ client[c].pc = "open" /\ got' = NoAnswer
      /\ UNCHANGED <<platform, store, expect, writes>>
  BY DEF HpsOpen, De10Open, PacOpen, OfsOpen, StreamOpen, Opening
<1>2. streamer \in Streamer /\ (StreamDevice => streamer' \in Streamer)
  <2>1. streamer \in Streamer
    BY DEF MapInv, MapTypes
  <2>2. streamer.net \in {"old", "part", "new"}
    BY <2>1 DEF Streamer
  <2>3. NoStreamer \in Streamer
    BY DEF NoStreamer, Streamer
  <2>4. [NoStreamer EXCEPT !.ready = TRUE, !.net = streamer.net] \in Streamer
    BY <2>2, <2>3 DEF Streamer
  <2> QED
    BY <2>1, <2>4 DEF StreamDevice
<1> DEFINE b == client[c].board
<1>3. ASSUME Enter(NewHandle, b), Opened(c, NewHandle) \/ OpenFailed(c),
             Shared => HandleOf(b) = NoId, UNCHANGED streamer \/ StreamDevice
      PROVE  MapInv'
  BY <1>1, <1>2, <1>3, EnterKept DEF NewHandle, HandleOf
<1>4. ASSUME OpenFailed(c), NotMade \/ UNCHANGED mapVars, UNCHANGED streamer
      PROVE  MapInv'
  BY <1>1, <1>4, OpenFailedKept
<1>5. ASSUME Shared, HandleOf(b) # NoId, Opened(c, HandleOf(b)), UNCHANGED <<mapVars, streamer>>
      PROVE  MapInv'
  BY <1>1, <1>5, OpenSharedKept
<1>6. CASE HpsOpen(c) \/ De10Open(c)
  BY <1>3, <1>4, <1>6 DEF HpsOpen, De10Open, Opening, Shared
<1>7. CASE PacOpen(c) \/ OfsOpen(c)
  BY <1>3, <1>4, <1>5, <1>7 DEF PacOpen, OfsOpen, Opening, Shared
<1>8. CASE StreamOpen(c)
  BY <1>3, <1>4, <1>5, <1>8 DEF StreamOpen, Opening, Shared
<1> QED
  BY <1>6, <1>7, <1>8

\* A device that lives as long as the call uses up a handle.
LEMMA LoadedKept ==
    ASSUME MapInv, BspLoaded \/ AspLoaded
    PROVE  MapInv'
<1>1. /\ nextHandle <= MaxHandles /\ nextHandle' = nextHandle + 1 /\ got' = NoAnswer
      /\ UNCHANGED <<platform, entries, idMap, boardOf, handler, client, boardVars>>
  BY DEF BspLoaded, AspLoaded, Loaded
<1>2. nextHandle \in 1 .. MaxHandles + 1 /\ MaxHandles \in Nat
  BY DeviceMapAssumption DEF MapInv, MapTypes
<1>3. nextHandle' \in 1 .. MaxHandles + 1 /\ 1 .. nextHandle - 1 \subseteq 1 .. nextHandle' - 1
  BY <1>1, <1>2
<1>4. MapTypes'
  BY <1>1, <1>3 DEF MapInv, MapTypes, boardVars
<1>5. Handed'
  BY <1>1, <1>3 DEF MapInv, Handed, Found
<1>6. Owned' /\ Identified' /\ Delivered'
  BY <1>1 DEF MapInv, Owned, Identified, Delivered, Found, Shared
<1>7. Placed' /\ Answered'
  BY <1>1, PlacedKept DEF MapInv, boardVars, Answered, NoAnswer
<1> QED
  BY <1>4, <1>5, <1>6, <1>7 DEF MapInv

\* CoreDlaDevice registers its handler, or finds its device gone.
LEMMA HandlerKept ==
    ASSUME MapInv, NEW c \in Clients, SetInterruptHandler(c)
    PROVE  MapInv'
<1> DEFINE h == client[c].handle
<1>1. MapTypes
  BY DEF MapInv
<1>2. /\ client[c].pc = "register" /\ client[c] \in Client /\ got' = NoAnswer
      /\ UNCHANGED <<platform, nextHandle, entries, idMap, boardOf, boardVars>>
      /\ MaxHandles \in Nat /\ nextHandle \in 1 .. MaxHandles + 1
      /\ entries \subseteq 1 .. nextHandle - 1
  BY <1>1, DeviceMapAssumption DEF SetInterruptHandler, MapTypes
<1>3. entries \subseteq Handles
  BY <1>2 DEF Handles
<1>4. /\ \A d \in Clients : d # c => client'[d] = client[d]
      /\ \A d \in Clients : /\ client'[d].handle = client[d].handle
                            /\ client'[d].board = client[d].board
      /\ client' \in [Clients -> Client]
      /\ client'[c].pc \in {"ready", "close"}
  BY <1>1, <1>2 DEF SetInterruptHandler, MapTypes, Client, HeldPcs
<1>5. \A d \in Clients : /\ client'[d].pc \in HeldPcs <=> client[d].pc \in HeldPcs
                         /\ client'[d].pc \in {"open", "openNone"} =>
                               client[d].pc \in {"open", "openNone"}
  BY <1>2, <1>4 DEF HeldPcs
<1>6. \/ handler' = handler
      \/ /\ h \in entries /\ handler' = [handler EXCEPT ![h] = c]
         /\ client'[c].pc = "ready"
  BY <1>1, <1>2 DEF SetInterruptHandler, Found, MapTypes, Client
<1> HIDE DEF h
<1>7. MapTypes'
  <2>1. handler' \in [Handles -> Clients \cup {NoId}]
    BY <1>1, <1>3, <1>6 DEF MapTypes
  <2> QED
    BY <1>1, <1>2, <1>4, <2>1 DEF MapTypes, boardVars
<1>8. Handed' /\ Owned'
  <2>1. Handed'
    BY <1>2, <1>4, <1>5 DEF MapInv, Handed, Found
  <2>2. Owned'
    BY <1>2, <1>4, <1>5 DEF MapInv, Owned, Found
  <2> QED
    BY <2>1, <2>2
<1>9. Identified'
  BY <1>2 DEF MapInv, Identified, Shared
<1>10. Delivered'
  <2> SUFFICES ASSUME NEW g \in entries, handler'[g] # NoId
               PROVE  client'[handler'[g]].pc = "ready" /\ client'[handler'[g]].handle = g
    BY <1>2 DEF Delivered
  <2>1. handler[g] # NoId => /\ handler[g] \in Clients /\ handler[g] # c
                             /\ client[handler[g]].pc = "ready" /\ client[handler[g]].handle = g
    BY <1>1, <1>2, <1>3 DEF MapTypes, MapInv, Delivered
  <2>2. CASE handler'[g] = handler[g]
    BY <1>4, <2>1, <2>2
  <2>3. CASE handler'[g] # handler[g]
    <3>1. handler'[g] = c /\ g = h /\ client'[c].pc = "ready"
      BY <1>1, <1>3, <1>6, <2>3 DEF MapTypes
    <3> QED
      BY <1>4, <3>1 DEF h
  <2> QED
    BY <2>2, <2>3
<1>11. Placed' /\ Answered'
  BY <1>2, PlacedKept DEF MapInv, boardVars, Answered, NoAnswer
<1> QED
  BY <1>7, <1>8, <1>9, <1>10, <1>11 DEF MapInv

\* A device leaves the map with its client, whoever else holds its handle.
LEMMA CloseKept ==
    ASSUME MapInv, NEW c \in Clients, CloseHandle(c)
    PROVE  MapInv'
<1> DEFINE h == client[c].handle
<1>1. MapTypes
  BY DEF MapInv
<1>2. /\ client[c].pc \in {"ready", "close"} /\ client[c].pc \in HeldPcs /\ got' = NoAnswer
      /\ UNCHANGED <<platform, nextHandle, boardVars>>
      /\ MaxHandles \in Nat /\ nextHandle \in 1 .. MaxHandles + 1
      /\ entries \subseteq 1 .. nextHandle - 1
  BY <1>1, DeviceMapAssumption DEF CloseHandle, MapTypes, HeldPcs, CloseDevice, mapVars
<1>3. entries \subseteq Handles
  BY <1>2 DEF Handles
<1>4. /\ \A d \in Clients : d # c => client'[d] = client[d]
      /\ client' \in [Clients -> Client] /\ client'[c] = NoClient
  BY <1>1, NoClientFacts DEF CloseHandle, MapTypes
<1>5. /\ entries' = entries \ {h} /\ h \in Nat
      /\ \A g \in Handles \ {h} : boardOf'[g] = boardOf[g] /\ handler'[g] = handler[g]
      /\ \A b \in Boards : idMap'[b] = idMap[b] \/ idMap'[b] = NoId
      /\ h \in entries => \A b \in Boards : idMap'[b] # h \/ idMap'[b] = NoId
      /\ boardOf' \in [Handles -> Boards \cup {NoId}]
      /\ handler' \in [Handles -> Clients \cup {NoId}] /\ idMap' \in [Boards -> Nat]
  <2>1. h \in Nat
    BY <1>1 DEF MapTypes, Client
  <2>2. CASE h \in entries
    <3>1. /\ entries' = entries \ {h} /\ boardOf' = [boardOf EXCEPT ![h] = NoId]
          /\ handler' = [handler EXCEPT ![h] = NoId]
          /\ idMap' = [b \in Boards |-> IF idMap[b] = h THEN NoId ELSE idMap[b]]
      BY <2>2 DEF CloseHandle, Found, CloseDevice
    <3> QED
      BY <1>1, <1>3, <2>1, <2>2, <3>1 DEF MapTypes, NoId
  <2>3. CASE h \notin entries
    BY <1>1, <2>1, <2>3 DEF CloseHandle, Found, mapVars, MapTypes
  <2> QED
    BY <2>2, <2>3
<1>6. NoClient.pc \notin HeldPcs \cup {"ready", "open", "openNone"} /\ NoClient.handle = NoId
  BY DEF NoClient, HeldPcs
<1> HIDE DEF h
<1>7. MapTypes'
  BY <1>1, <1>2, <1>4, <1>5 DEF MapTypes, boardVars
<1>8. Handed'
  <2> SUFFICES ASSUME NEW d \in Clients
               PROVE  /\ client'[d].pc \in HeldPcs =>
                             /\ client'[d].board \in Boards
                             /\ client'[d].handle \in 1 .. nextHandle' - 1
                             /\ client'[d].handle \in entries' =>
                                   boardOf'[client'[d].handle] = client'[d].board
                      /\ client'[d].pc \in {"open", "openNone"} => client'[d].board \in Boards
                      /\ client'[d].pc \notin HeldPcs => client'[d].handle = NoId
    BY DEF Handed, Found
  <2>1. CASE d = c
    BY <1>4, <1>6, <2>1
  <2>2. CASE d # c
    BY <1>2, <1>3, <1>4, <1>5, <2>2 DEF MapInv, Handed, Found
  <2> QED
    BY <2>1, <2>2
<1>9. Owned'
  <2> SUFFICES ASSUME platform = "de10", NEW d \in Clients, client'[d].pc \in HeldPcs
               PROVE  /\ client'[d].handle \in entries'
                      /\ \A e \in Clients \ {d} :
                            client'[e].pc \in HeldPcs => client'[e].handle # client'[d].handle
    BY <1>2 DEF Owned, Found
  <2>1. \A e \in Clients : client'[e].pc \in HeldPcs => e # c /\ client'[e] = client[e]
    BY <1>4, <1>6
  <2>2. client[d].handle \in entries /\ client[d].handle # h
    BY <1>2, <2>1 DEF MapInv, Owned, Found, h
  <2>3. \A e \in Clients \ {d} : client[e].pc \in HeldPcs => client[e].handle # client[d].handle
    BY <2>1 DEF MapInv, Owned
  <2> QED
    BY <1>5, <2>1, <2>2, <2>3
<1>10. Identified'
  <2> SUFFICES ASSUME Shared, NEW b \in Boards, idMap'[b] # NoId
               PROVE  idMap'[b] \in entries' /\ boardOf'[idMap'[b]] = b
    BY <1>2 DEF Identified, Shared
  <2>1. idMap'[b] = idMap[b] /\ idMap[b] \in entries /\ boardOf[idMap[b]] = b
    BY <1>5 DEF MapInv, Identified
  <2>2. idMap[b] # h
    BY <1>5, <2>1
  <2> QED
    BY <1>3, <1>5, <2>1, <2>2
<1>11. Delivered'
  <2> SUFFICES ASSUME NEW g \in entries', handler'[g] # NoId
               PROVE  client'[handler'[g]].pc = "ready" /\ client'[handler'[g]].handle = g
    BY DEF Delivered
  <2>1. g # h /\ g \in entries /\ g \in Handles /\ handler'[g] = handler[g]
    BY <1>3, <1>5
  <2>2. handler[g] \in Clients /\ client[handler[g]].pc = "ready" /\ client[handler[g]].handle = g
    BY <1>1, <2>1 DEF MapTypes, MapInv, Delivered
  <2>3. handler[g] # c
    BY <2>1, <2>2 DEF h
  <2> QED
    BY <1>4, <2>1, <2>2, <2>3
<1>12. Placed' /\ Answered'
  BY <1>2, PlacedKept DEF MapInv, boardVars, Answered, NoAnswer
<1> QED
  BY <1>7, <1>8, <1>9, <1>10, <1>11, <1>12 DEF MapInv

-----------------------------------------------------------------------------
(* Writes.                                                                 *)

\* One word of one board and space changes.
Put(f, b, s, x, w) == [f EXCEPT ![b][s][x] = w]

\* One word of one board changes.
LEMMA StoreUpdate ==
    ASSUME Placed, NEW b \in Boards, NEW s \in Spaces, NEW r \in Raws(s), NEW w,
           store' = Put(store, b, s, r, w)
    PROVE  /\ store' = [e \in Boards |-> [t \in Spaces |-> [y \in Raws(t) |-> store'[e][t][y]]]]
           /\ \A e \in Boards, t \in Spaces : \A y \in Raws(t) :
                 store'[e][t][y] = IF e = b /\ t = s /\ y = r THEN w ELSE store[e][t][y]
<1>1. store = [e \in Boards |-> [t \in Spaces |-> [y \in Raws(t) |-> store[e][t][y]]]]
  BY DEF Placed
<1>2. \A e \in Boards : store[e] = [t \in Spaces |-> [y \in Raws(t) |-> store[e][t][y]]]
  BY <1>1
<1>3. \A e \in Boards, t \in Spaces : store[e][t] = [y \in Raws(t) |-> store[e][t][y]]
  BY <1>2
<1> DEFINE row == [store[b][s] EXCEPT ![r] = w]
           board == [store[b] EXCEPT ![s] = row]
<1>4. store' = [store EXCEPT ![b] = board]
  BY DEF Put
<1>5. row = [y \in Raws(s) |-> IF y = r THEN w ELSE store[b][s][y]]
  <2> DEFINE old == store[b][s]
  <2>1. old = [y \in Raws(s) |-> old[y]]
    BY <1>3
  <2> HIDE DEF old
  <2>2. [old EXCEPT ![r] = w] = [y \in Raws(s) |-> IF y = r THEN w ELSE old[y]]
    BY <2>1
  <2> QED
    BY <2>2 DEF old
<1> HIDE DEF row
<1>6. board = [t \in Spaces |-> IF t = s THEN row ELSE store[b][t]]
  BY <1>2
<1> HIDE DEF board
<1>7. store' = [e \in Boards |-> IF e = b THEN board ELSE store[e]]
  BY <1>1, <1>4
<1>8. \A e \in Boards, t \in Spaces :
         store'[e][t] = IF e = b /\ t = s THEN row ELSE store[e][t]
  BY <1>6, <1>7
<1>9. \A e \in Boards : store'[e] = [t \in Spaces |-> store'[e][t]]
  <2> TAKE e \in Boards
  <2>1. CASE e = b
    BY <1>6, <1>7, <2>1
  <2>2. CASE e # b
    BY <1>2, <1>7, <2>2
  <2> QED
    BY <2>1, <2>2
<1>10. \A e \in Boards, t \in Spaces : store'[e][t] = [y \in Raws(t) |-> store'[e][t][y]]
  <2> TAKE e \in Boards, t \in Spaces
  <2>1. CASE e = b /\ t = s
    BY <1>5, <1>8, <2>1
  <2>2. CASE ~(e = b /\ t = s)
    BY <1>3, <1>8, <2>2
  <2> QED
    BY <2>1, <2>2
<1>11. store' = [e \in Boards |-> [t \in Spaces |-> [y \in Raws(t) |-> store'[e][t][y]]]]
  <2>1. store' = [e \in Boards |-> store'[e]]
    BY <1>7
  <2>2. \A e \in Boards :
           store'[e] = [t \in Spaces |-> [y \in Raws(t) |-> store'[e][t][y]]]
    <3> TAKE e \in Boards
    <3>1. store'[e] = [t \in Spaces |-> store'[e][t]]
      BY <1>9
    <3>2. \A t \in Spaces : store'[e][t] = [y \in Raws(t) |-> store'[e][t][y]]
      BY <1>10
    <3>3. [t \in Spaces |-> store'[e][t]] = [t \in Spaces |-> [y \in Raws(t) |-> store'[e][t][y]]]
      BY <3>2
    <3> QED
      BY <3>1, <3>3
  <2> QED
    BY <2>1, <2>2
<1>12. ASSUME NEW e \in Boards, NEW t \in Spaces, NEW y \in Raws(t)
       PROVE  store'[e][t][y] = IF e = b /\ t = s /\ y = r THEN w ELSE store[e][t][y]
  BY <1>5, <1>8
<1> QED
  BY <1>11, <1>12

\* What is expected of one word of one board changes.
LEMMA ExpectUpdate ==
    ASSUME Placed, NEW b \in Boards, NEW s \in Spaces, NEW p \in Places(s), NEW w,
           expect' = Put(expect, b, s, p, w)
    PROVE  /\ expect' = [e \in Boards |-> [t \in Spaces |-> [y \in Places(t) |-> expect'[e][t][y]]]]
           /\ \A e \in Boards, t \in Spaces : \A y \in Places(t) :
                 expect'[e][t][y] = IF e = b /\ t = s /\ y = p THEN w ELSE expect[e][t][y]
<1>1. expect = [e \in Boards |-> [t \in Spaces |-> [y \in Places(t) |-> expect[e][t][y]]]]
  BY DEF Placed
<1>2. \A e \in Boards : expect[e] = [t \in Spaces |-> [y \in Places(t) |-> expect[e][t][y]]]
  BY <1>1
<1>3. \A e \in Boards, t \in Spaces : expect[e][t] = [y \in Places(t) |-> expect[e][t][y]]
  BY <1>2
<1> DEFINE row == [expect[b][s] EXCEPT ![p] = w]
           board == [expect[b] EXCEPT ![s] = row]
<1>4. expect' = [expect EXCEPT ![b] = board]
  BY DEF Put
<1>5. row = [y \in Places(s) |-> IF y = p THEN w ELSE expect[b][s][y]]
  <2> DEFINE old == expect[b][s]
  <2>1. old = [y \in Places(s) |-> old[y]]
    BY <1>3
  <2> HIDE DEF old
  <2>2. [old EXCEPT ![p] = w] = [y \in Places(s) |-> IF y = p THEN w ELSE old[y]]
    BY <2>1
  <2> QED
    BY <2>2 DEF old
<1> HIDE DEF row
<1>6. board = [t \in Spaces |-> IF t = s THEN row ELSE expect[b][t]]
  BY <1>2
<1> HIDE DEF board
<1>7. expect' = [e \in Boards |-> IF e = b THEN board ELSE expect[e]]
  BY <1>1, <1>4
<1>8. \A e \in Boards, t \in Spaces :
         expect'[e][t] = IF e = b /\ t = s THEN row ELSE expect[e][t]
  BY <1>6, <1>7
<1>9. \A e \in Boards : expect'[e] = [t \in Spaces |-> expect'[e][t]]
  <2> TAKE e \in Boards
  <2>1. CASE e = b
    BY <1>6, <1>7, <2>1
  <2>2. CASE e # b
    BY <1>2, <1>7, <2>2
  <2> QED
    BY <2>1, <2>2
<1>10. \A e \in Boards, t \in Spaces : expect'[e][t] = [y \in Places(t) |-> expect'[e][t][y]]
  <2> TAKE e \in Boards, t \in Spaces
  <2>1. CASE e = b /\ t = s
    BY <1>5, <1>8, <2>1
  <2>2. CASE ~(e = b /\ t = s)
    BY <1>3, <1>8, <2>2
  <2> QED
    BY <2>1, <2>2
<1>11. expect' = [e \in Boards |-> [t \in Spaces |-> [y \in Places(t) |-> expect'[e][t][y]]]]
  <2>1. expect' = [e \in Boards |-> expect'[e]]
    BY <1>7
  <2>2. \A e \in Boards :
           expect'[e] = [t \in Spaces |-> [y \in Places(t) |-> expect'[e][t][y]]]
    <3> TAKE e \in Boards
    <3>1. expect'[e] = [t \in Spaces |-> expect'[e][t]]
      BY <1>9
    <3>2. \A t \in Spaces : expect'[e][t] = [y \in Places(t) |-> expect'[e][t][y]]
      BY <1>10
    <3>3. [t \in Spaces |-> expect'[e][t]] = [t \in Spaces |-> [y \in Places(t) |-> expect'[e][t][y]]]
      BY <3>2
    <3> QED
      BY <3>1, <3>3
  <2> QED
    BY <2>1, <2>2
<1>12. ASSUME NEW e \in Boards, NEW t \in Spaces, NEW y \in Places(t)
       PROVE  expect'[e][t][y] = IF e = b /\ t = s /\ y = p THEN w ELSE expect[e][t][y]
  BY <1>5, <1>8
<1> QED
  BY <1>11, <1>12

\* What a client writes goes to the board and the instance it named, alone.
LEMMA WriteKept ==
    ASSUME MapInv, NEW c \in Clients, NEW s \in Spaces, NEW i \in Instances,
           NEW a \in 0 .. Size(s) - 1, Write(c, s, i, a)
    PROVE  MapInv'
<1>1. /\ UNCHANGED <<platform, mapVars, client, streamer>> /\ Calling(c)
      /\ writes \in Nat /\ writes' = writes + 1 /\ platform \in MMDs
  BY DEF Write, MapInv, MapTypes
<1>2. MapTypes'
  BY <1>1 DEF MapInv, MapTypes, mapVars
<1>3. Handed' /\ Owned' /\ Identified' /\ Delivered'
  BY <1>1, MapKept DEF MapInv
<1>4. Answered'
  BY AnswerFacts DEF Write, Answered
<1>5. CASE UNCHANGED <<store, expect>>
  BY <1>1, <1>2, <1>3, <1>4, <1>5, PlacedKept DEF MapInv
<1>6. CASE /\ Found(c)
           /\ store' = [store EXCEPT ![boardOf[client[c].handle]][s][Raw(s, i, a)] = writes']
           /\ expect' = [expect EXCEPT ![client[c].board][s][<<i, a>>] = writes']
  <2> DEFINE b == client[c].board
             r == Raw(s, i, a)
  <2>1. b \in Boards /\ boardOf[client[c].handle] = b
    BY <1>1, <1>6, CallerFacts
  <2> DEFINE p == <<i, a>>
             w == writes'
  <2>0. Placed
    BY DEF MapInv
  <2>2. r \in Raws(s) /\ p \in Places(s)
    BY <1>1, RawFacts
  <2> HIDE DEF b, r, p, w
  <2>3. store' = Put(store, b, s, r, w) /\ expect' = Put(expect, b, s, p, w)
    BY <1>6, <2>1 DEF b, r, p, w, Put
  <2>4. /\ store' = [e \in Boards |-> [t \in Spaces |-> [y \in Raws(t) |-> store'[e][t][y]]]]
        /\ \A e \in Boards, t \in Spaces : \A y \in Raws(t) :
              store'[e][t][y] = IF e = b /\ t = s /\ y = r THEN w ELSE store[e][t][y]
    BY <2>0, <2>1, <2>2, <2>3, StoreUpdate
  <2>5. /\ expect' = [e \in Boards |-> [t \in Spaces |-> [y \in Places(t) |-> expect'[e][t][y]]]]
        /\ \A e \in Boards, t \in Spaces : \A y \in Places(t) :
              expect'[e][t][y] = IF e = b /\ t = s /\ y = p THEN w ELSE expect[e][t][y]
    BY <2>0, <2>1, <2>2, <2>3, ExpectUpdate
  <2>6. ASSUME NEW e \in Boards, NEW t \in Spaces, NEW j \in Instances,
               NEW x \in 0 .. Size(t) - 1
        PROVE  store'[e][t][Raw(t, j, x)] = expect'[e][t][<<j, x>>]
    <3>1. Raw(t, j, x) \in Raws(t) /\ <<j, x>> \in Places(t)
      BY <1>1, RawFacts
    <3>2. store[e][t][Raw(t, j, x)] = expect[e][t][<<j, x>>]
      BY DEF MapInv, Placed
    <3>3. t = s => (Raw(t, j, x) = r <=> <<j, x>> = p)
      <4>1. CASE t = s
        <5>1. x \in 0 .. Size(s) - 1
          BY <4>1
        <5>2. \A k \in Instances : \A z \in 0 .. Size(s) - 1 :
                 Raw(s, i, a) = Raw(s, k, z) => i = k /\ a = z
          BY <1>1, RawFacts
        <5> QED
          BY <4>1, <5>1, <5>2 DEF r, p
      <4> QED
        BY <4>1
    <3> DEFINE y == Raw(t, j, x)
               q == <<j, x>>
    <3>4. store'[e][t][y] = IF e = b /\ t = s /\ y = r THEN w ELSE store[e][t][y]
      BY <2>4, <3>1
    <3>5. expect'[e][t][q] = IF e = b /\ t = s /\ q = p THEN w ELSE expect[e][t][q]
      BY <2>5, <3>1
    <3> HIDE DEF y, q
    <3>6. /\ store[e][t][y] = expect[e][t][q]
          /\ t = s => (y = r <=> q = p)
      BY <3>2, <3>3 DEF y, q
    <3>7. store'[e][t][y] = expect'[e][t][q]
      BY <3>4, <3>5, <3>6
    <3> QED
      BY <3>7 DEF y, q
  <2>7. Placed'
    <3>1. ASSUME NEW t, NEW j, NEW x PROVE Raw(t, j, x)' = Raw(t, j, x)
      BY <1>1 DEF Raw, HpsRaw, PacRaw, OfsRaw, De10Raw, StreamRaw
    <3>2. Instances' = Instances
      BY <1>1 DEF Instances, NumInstances
    <3>3. \A e \in Boards, t \in Spaces, j \in Instances : \A x \in 0 .. Size(t) - 1 :
             store'[e][t][Raw(t, j, x)'] = expect'[e][t][<<j, x>>]
      BY <2>6, <3>1
    <3> QED
      BY <2>4, <2>5, <3>2, <3>3 DEF Placed
  <2> QED
    BY <1>2, <1>3, <1>4, <2>7 DEF MapInv
<1> QED
  BY <1>5, <1>6 DEF Write

\* The end of the process empties the maps, or leaves them (de10).
LEMMA TerminateKept ==
    ASSUME MapInv, Terminate
    PROVE  MapInv'
<1>1. /\ UNCHANGED <<platform, nextHandle, client, boardVars>> /\ got' = NoAnswer
      /\ MapTypes
  BY DEF Terminate, MapInv
<1>2. Placed' /\ Answered'
  BY <1>1, PlacedKept DEF MapInv, boardVars, Answered, NoAnswer
<1>3. CASE UNCHANGED mapVars
  <2>1. MapTypes'
    BY <1>1, <1>3 DEF MapTypes, mapVars, boardVars
  <2> QED
    BY <1>1, <1>2, <1>3, <2>1, MapKept DEF MapInv
<1>4. CASE /\ platform # "de10" /\ entries' = {} /\ idMap' = [b \in Boards |-> NoId]
           /\ boardOf' = [h \in Handles |-> NoId] /\ handler' = [h \in Handles |-> NoId]
  <2>1. MapTypes'
    <3>1. entries' \subseteq 1 .. nextHandle' - 1
      BY <1>4
    <3>2. /\ idMap' \in [Boards -> Nat] /\ boardOf' \in [Handles -> Boards \cup {NoId}]
          /\ handler' \in [Handles -> Clients \cup {NoId}]
      BY <1>4 DEF NoId
    <3> QED
      BY <1>1, <3>1, <3>2 DEF MapTypes, boardVars
  <2>2. Handed' /\ Owned' /\ Identified' /\ Delivered'
    BY <1>1, <1>4 DEF MapInv, Handed, Owned, Identified, Delivered, Found
  <2> QED
    BY <1>2, <2>1, <2>2 DEF MapInv
<1> QED
  BY <1>1, <1>3, <1>4 DEF Terminate, mapVars

-----------------------------------------------------------------------------
(* Calls and their boards.                                                 *)

\* Every call of every MMD keeps the invariant.
LEMMA MapStep == MapInv /\ [MapNext]_mmdVars => MapInv'
<1> SUFFICES ASSUME MapInv, [MapNext]_mmdVars PROVE MapInv'
  OBVIOUS
<1>1. CASE UNCHANGED mmdVars
  <2>1. UNCHANGED <<platform, mapVars, client, got, boardVars>>
    BY <1>1 DEF mmdVars
  <2>2. MapTypes' /\ Answered'
    BY <2>1 DEF MapInv, MapTypes, Answered, mapVars, boardVars
  <2>3. Handed' /\ Owned' /\ Identified' /\ Delivered' /\ Placed'
    BY <2>1, MapKept, PlacedKept DEF MapInv, boardVars
  <2> QED
    BY <2>2, <2>3 DEF MapInv
<1>2. CASE BspLoaded \/ AspLoaded \/ Terminate
  BY <1>2, LoadedKept, TerminateKept
<1>3. ASSUME NEW c \in Clients,
             \/ GetOfflineInfo(c) \/ OpenNone(c) \/ HpsOpen(c) \/ PacOpen(c) \/ OfsOpen(c)
             \/ StreamOpen(c) \/ De10Open(c) \/ MeasureClock(c) \/ SetInterruptHandler(c)
             \/ CloseHandle(c)
      PROVE  MapInv'
  BY <1>3, OfflineKept, OpenKept, ClockKept, HandlerKept, CloseKept
<1>4. ASSUME NEW c \in Clients,
             \/ StreamReadThrows(c) \/ GetInfo(c) \/ De10Forward(c) \/ HpsUnsupported(c)
             \/ HpsStreamController(c)
      PROVE  MapInv'
  BY <1>4, InfoKept
<1>5. ASSUME NEW c \in Clients,
             \/ InitIStreamFifo(c) \/ SetOutputShape(c) \/ Istream(c)
             \/ OstreamStream(c) \/ OstreamRead(c) \/ OnlineReconfig(c)
      PROVE  MapInv'
  BY <1>5, StreamKept
<1>6. ASSUME NEW c \in Clients, NEW s \in Spaces, NEW i \in Instances,
             NEW a \in 0 .. Size(s) - 1, Write(c, s, i, a) \/ Read(c, s, i, a)
      PROVE  MapInv'
  BY <1>6, WriteKept, ReadKept
<1> QED
  BY <1>1, <1>2, <1>3, <1>4, <1>5, <1>6 DEF MapNext

\* What ties the handle map, the id map and the devices of one process together
\* (DeviceMapManager, mmd_wrapper.cpp and aocl_mmd.cpp of the five MMDs): who
\* holds a handle, what it stands for, and where the words of an instance are.
THEOREM MapInvariant == MapSpec => []MapInv
  BY MapInitial, MapStep, PTL DEF MapSpec

\* A call that succeeds was done by the board and the instance its caller
\* opened, however many clients, boards, handles and writes there are
\* (MmdWrapper, aocl_mmd_open to aocl_mmd_close, dla_get_raw_csr_address).
THEOREM CallsReachBoards == MapSpec => []CallsReachTheirBoard
<1>1. MapInv => CallsReachTheirBoard
  BY DEF MapInv, Answered, Placed, Delivered, CallsReachTheirBoard
<1> QED
  BY <1>1, MapInvariant, PTL

=============================================================================
