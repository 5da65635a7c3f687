-------------------------- MODULE De10BoardProofs ---------------------------
(***************************************************************************)
(* Programming a DE10 board, for every set of scenarios, any number of     *)
(* calls and of attempts of quartus_pgm: a call that reports success has   *)
(* programmed the board, and Ctrl-C never ends the process half way.       *)
(***************************************************************************)
EXTENDS De10Board, TLAPS

-----------------------------------------------------------------------------
(* The inductive invariant.                                                *)

PrSteps == {"pr", "prWrite", "prWriting", "prEnd"}
\* From pausing the device to quartus_pgm, while it runs, and back.
PauseSteps == {"pause", "save"}
PgmSteps == {"pgm", "attempt", "writing", "pgmEnd", "load"}
OpenCLSteps == PrSteps \cup {"fallback", "retest", "cleanup"}
Steps == {"open", "construct", "idle", "erase", "closed", "resume", "reopen"}
         \cup PauseSteps \cup PgmSteps \cup OpenCLSteps

Phases ==
    /\ sc \in Scenario /\ pc \in Steps
    /\ regs \in {"live", "saved", "lost"}
    /\ sigint \in {"default", "custom", "ignored"}
    /\ proc \in {"running", "done", "ctrlC", "aborted", "undefined"}
    /\ result \in {"none", "ok", "failed", "saved", "reopen"}
    /\ calls \in Nat /\ held \in BOOLEAN
DeviceTypes == dev \in [inMap : BOOLEAN, init : BOOLEAN, programming : BOOLEAN,
                        handler : BOOLEAN, fn : BOOLEAN, devFn : BOOLEAN]
ImageTypes == board \in [image : {"old", "base", "new", "torn"}, cal : BOOLEAN,
                         link : BOOLEAN, frozen : BOOLEAN]
InterruptTypes == irq \in [enable : BOOLEAN, pending : BOOLEAN, raised : BOOLEAN,
                           svc : {"idle", "called"}]
CallTypes == call \in [failed : BOOLEAN, rbf : BOOLEAN, hash : BOOLEAN, qver : BOOLEAN,
                       second : BOOLEAN, tries : Nat, explicit : BOOLEAN,
                       cable : {"0", "own"}]
BoardTypes == Phases /\ DeviceTypes /\ ImageTypes /\ InterruptTypes /\ CallTypes

\* Which build takes which way.
Builds ==
    /\ pc \in OpenCLSteps \cup {"reopen"} => sc.mode # "sof"
    /\ pc = "resume" \/ held \/ call.explicit => sc.mode = "sof"
    /\ sc.mode = "sof" => call.cable = "0" /\ ~call.hash
    /\ call.explicit => call.failed
    /\ pc \in {"pgm", "attempt", "writing", "pgmEnd"} => ~call.explicit
    /\ result = "reopen" => pc = "erase" /\ sc.mode # "sof"

\* The new image is on the board that the call was about.
Programmed ==
    sc.alone \/ call.cable = "own" \/ call.hash
        => board.image = "new" /\ (sc.skip \/ board.cal)

Succeeded ==
    /\ result = "ok" =>
          /\ pc \in {"open", "construct", "idle", "erase", "closed", "load", "resume"}
          /\ pc \in {"load", "resume"} => call.explicit
          /\ held => sc.skip
    /\ result \in {"ok", "reopen"} \/ pc = "reopen" \/ (pc = "cleanup" /\ ~call.failed)
          => Programmed

\* What partial reconfiguration has found out.
PrTried == ~sc.env /\ call.rbf /\ call.hash /\ call.qver
PrProgress ==
    /\ pc \in {"prWrite", "prWriting"} => call.failed /\ PrTried
    /\ pc = "prEnd" => /\ call.hash => PrTried
                       /\ ~call.failed => PrTried /\ board.image = "new" /\ board.cal

\* What quartus_pgm has done; it comes after partial reconfiguration only if
\* that was not tried.
PgmProgress ==
    /\ pc \in {"fallback", "retest"} \cup PauseSteps \cup PgmSteps => ~call.hash
    /\ pc \in {"fallback"} \cup PauseSteps => call.failed
    /\ pc = "retest" => ~call.failed
    /\ pc \in {"pgmEnd", "load", "resume", "retest"} /\ ~call.failed /\ OwnBoard
          => board.image = IF sc.mode # "sof" /\ sc.pkg.fast THEN "base" ELSE "new"

\* What keeps Ctrl-C away.
Guarded ==
    /\ sigint = "default" => pc \in {"open", "closed"}
    /\ pc \in {"attempt", "writing", "pgmEnd"} => sigint = "ignored"
    /\ pc \notin {"open", "construct", "closed"} => dev.inMap
    /\ dev.programming => dev.inMap
    /\ pc \in PauseSteps \cup OpenCLSteps => dev.programming
    /\ pc \in PgmSteps => dev.programming \/ (sc.mode = "sof" /\ sc.skip)
    /\ held => dev.programming

\* When the registers are saved and not restored.
Saved ==
    /\ held => pc \in {"idle", "resume"} \cup PgmSteps
    /\ pc = "resume" => regs # "saved"
    /\ pc \in PauseSteps /\ sc.mode = "sof" /\ ~call.explicit => ~sc.skip
    /\ regs = "saved" => held \/ (pc \in PgmSteps /\ (sc.mode = "sof" => ~sc.skip))

Control == Builds /\ Succeeded /\ PrProgress /\ PgmProgress /\ Guarded /\ Saved
           /\ NeverKilledMidProgramming

BoardInv == BoardTypes /\ Control

-----------------------------------------------------------------------------
(* Every step keeps the types.                                             *)

\* A process that has opened nothing yet satisfies the invariant.
LEMMA BoardInit == Init => BoardInv
<1> SUFFICES ASSUME Init PROVE BoardInv
  OBVIOUS
<1>1. sc \in Scenario /\ sc.usable \in BOOLEAN
  BY BoardAssumption DEF Init, Scenario
<1>2. Phases
  BY <1>1 DEF Init, Phases, Steps
<1>3. DeviceTypes /\ ImageTypes /\ InterruptTypes /\ CallTypes
  BY <1>1 DEF Init, DeviceTypes, ImageTypes, InterruptTypes, CallTypes, NoDevice, NoCall
<1>4. Control
  BY DEF Init, Control, Builds, Succeeded, PrProgress, PgmProgress, Guarded, Saved,
         NeverKilledMidProgramming, NoDevice, NoCall, PrSteps, PauseSteps, PgmSteps, OpenCLSteps
<1> QED
  BY <1>2, <1>3, <1>4 DEF BoardInv, BoardTypes

\* Where the call is, and the state of the registers, of Ctrl-C, of the process.
LEMMA PhasesKept == BoardTypes /\ Next => Phases'
<1> SUFFICES ASSUME BoardTypes, Next PROVE Phases'
  OBVIOUS
<1> USE DEF BoardTypes, Phases, Steps, PrSteps, PauseSteps, PgmSteps, OpenCLSteps, Counted
<1>1. CASE Open
  BY <1>1 DEF Open, RegisterSignals, InstallCtrlCHandler, OpenDeviceLinux, OpenDeviceWindows, NoDevice, linux
<1>2. CASE Construct
  BY <1>2 DEF Construct, VersionIdTest, WaitForUniphy, Read32Ok, EnableInterrupts, EnableInterruptsLinux, EnableInterruptsWindows, MaskIrqs
<1>3. CASE Erase
  BY <1>3 DEF Erase, NoDevice
<1>4. CASE PgmBegin
  BY <1>4 DEF PgmBegin, InstallCtrlCHandler
<1>5. CASE Attempt
  BY <1>5 DEF Attempt, main
<1>6. CASE AttemptDone
  BY <1>6 DEF AttemptDone
<1>7. CASE PgmEnd
  BY <1>7 DEF PgmEnd, InstallCtrlCHandler, linux
<1>8. CASE Pause
  BY <1>8 DEF Pause, DisableInterrupts, MaskIrqs
<1>9. CASE Save
  BY <1>9 DEF Save, SavePciControlRegs, MaskIrqs
<1>10. CASE Load
  BY <1>10 DEF Load, LoadPciControlRegs, Outcome, linux
<1>11. CASE Resume
  BY <1>11 DEF Resume, WaitForUniphy, ReprogramOutcome, Outcome
<1>12. CASE PrReprogram
  BY <1>12 DEF PrReprogram, PrChecks
<1>13. CASE PrWrite
  BY <1>13 DEF PrWrite, PrFileA10, PrFileS10, main
<1>14. CASE PrWritten
  <2>1. /\ UNCHANGED <<sc, regs, sigint, result, calls, held>>
        /\ pc' = "prEnd" /\ proc' \in {proc, "aborted"}
    BY <1>14 DEF PrWritten
  <2> QED
    BY <2>1
<1>15. CASE PrEnd
  BY <1>15 DEF PrEnd
<1>16. CASE Fallback
  BY <1>16 DEF Fallback, FindJtagCable, FindCableWithIssp
<1>17. CASE Retest
  BY <1>17 DEF Retest, WaitForUniphy
<1>18. CASE Cleanup
  BY <1>18 DEF Cleanup
<1>19. CASE Reopen
  BY <1>19 DEF Reopen, Discarded, DisableInterrupts, MaskIrqs
<1>20. CASE SetInterruptHandler
  BY <1>20 DEF SetInterruptHandler, Counted, UnmaskKernelIrq
<1>21. CASE SetDeviceInterruptHandler
  BY <1>21 DEF SetDeviceInterruptHandler, Counted, UnmaskKernelIrq
<1>22. CASE Close
  BY <1>22 DEF Close, Counted, Discarded, DisableInterrupts, MaskIrqs
<1>23. CASE Closed
  BY <1>23 DEF Closed, Counted
<1>24. CASE SavePcie
  BY <1>24 DEF SavePcie, Counted, NoCall
<1>25. CASE RestorePcie
  BY <1>25 DEF RestorePcie, Counted, NoCall
<1>26. CASE ReprogramSof
  BY <1>26 DEF ReprogramSof, Counted, NoCall
<1>27. CASE Reprogram
  BY <1>27 DEF Reprogram, Counted, NoCall
<1>28. CASE CtrlC
  BY <1>28 DEF CtrlC, IsAnyDeviceBeingProgrammed
<1>29. CASE OtherProcess \/ KernelDone \/ Raise \/ ServiceBegin \/ ServiceEnd
  BY <1>29 DEF main, OtherProcess, KernelDone, Raise, ServiceBegin, ServiceEnd
<1> QED
  BY <1>1, <1>2, <1>3, <1>4, <1>5, <1>6, <1>7, <1>8, <1>9, <1>10, <1>11, <1>12, <1>13, <1>14, <1>15, <1>16, <1>17, <1>18, <1>19, <1>20, <1>21, <1>22, <1>23, <1>24, <1>25, <1>26, <1>27, <1>28, <1>29 DEF Next, MainStep

\* The device object's flags.
LEMMA DeviceKept == BoardTypes /\ Next => DeviceTypes'
<1> SUFFICES ASSUME BoardTypes, Next PROVE DeviceTypes'
  OBVIOUS
<1> USE DEF BoardTypes, DeviceTypes
<1>1. CASE Open
  BY <1>1 DEF Open, RegisterSignals, InstallCtrlCHandler, OpenDeviceLinux, OpenDeviceWindows, NoDevice, linux
<1>2. CASE Construct
  BY <1>2 DEF Construct, VersionIdTest, WaitForUniphy, Read32Ok, EnableInterrupts, EnableInterruptsLinux, EnableInterruptsWindows, MaskIrqs
<1>3. CASE Erase
  BY <1>3 DEF Erase, NoDevice
<1>4. CASE Pause
  BY <1>4 DEF Pause, DisableInterrupts, MaskIrqs
<1>5. CASE Save
  BY <1>5 DEF Save, SavePciControlRegs, MaskIrqs
<1>6. CASE Resume
  BY <1>6 DEF Resume, WaitForUniphy, ReprogramOutcome, Outcome
<1>7. CASE PrEnd
  BY <1>7 DEF PrEnd
<1>8. CASE Cleanup
  BY <1>8 DEF Cleanup
<1>9. CASE Reopen
  BY <1>9 DEF Reopen, Discarded, DisableInterrupts, MaskIrqs
<1>10. CASE SetInterruptHandler
  BY <1>10 DEF SetInterruptHandler, Counted, UnmaskKernelIrq
<1>11. CASE SetDeviceInterruptHandler
  BY <1>11 DEF SetDeviceInterruptHandler, Counted, UnmaskKernelIrq
<1>12. CASE Close
  BY <1>12 DEF Close, Counted, Discarded, DisableInterrupts, MaskIrqs
<1>13. CASE SavePcie
  BY <1>13 DEF SavePcie, Counted, NoCall
<1>14. CASE ReprogramSof
  BY <1>14 DEF ReprogramSof, Counted, NoCall
<1>15. CASE Reprogram
  BY <1>15 DEF Reprogram, Counted, NoCall
<1>16. CASE PgmBegin \/ Attempt \/ AttemptDone \/ PgmEnd \/ Load \/ PrReprogram \/ PrWrite \/ PrWritten \/ Fallback \/ Retest \/ Closed \/ RestorePcie \/ OtherProcess \/ KernelDone \/ CtrlC \/ Raise \/ ServiceBegin \/ ServiceEnd
  BY <1>16 DEF main, PgmBegin, Attempt, AttemptDone, PgmEnd, Load, PrReprogram, PrWrite, PrWritten, Fallback, Retest, Closed, RestorePcie, OtherProcess, KernelDone, CtrlC, Raise, ServiceBegin, ServiceEnd
<1> QED
  BY <1>1, <1>2, <1>3, <1>4, <1>5, <1>6, <1>7, <1>8, <1>9, <1>10, <1>11, <1>12, <1>13, <1>14, <1>15, <1>16 DEF Next, MainStep

\* What is on the board.
LEMMA ImageKept == BoardTypes /\ Next => ImageTypes'
<1> SUFFICES ASSUME BoardTypes, Next PROVE ImageTypes'
  OBVIOUS
<1> USE DEF BoardTypes, ImageTypes
<1>1. CASE Construct
  BY <1>1 DEF Construct, VersionIdTest, WaitForUniphy, Read32Ok, EnableInterrupts, EnableInterruptsLinux, EnableInterruptsWindows, MaskIrqs
<1>2. CASE Attempt
  <2>1. \/ board' = [image |-> "torn", cal |-> FALSE, link |-> FALSE, frozen |-> FALSE]
        \/ board' = board
    BY <1>2 DEF Attempt
  <2>2. CASE board' = [image |-> "torn", cal |-> FALSE, link |-> FALSE, frozen |-> FALSE]
    BY <2>2
  <2>3. CASE board' = board
    BY <2>3
  <2> QED
    BY <2>1, <2>2, <2>3
<1>3. CASE AttemptDone
  BY <1>3 DEF AttemptDone
<1>4. CASE PgmEnd
  BY <1>4 DEF PgmEnd, InstallCtrlCHandler, linux
<1>5. CASE Load
  BY <1>5 DEF Load, LoadPciControlRegs, Outcome, linux
<1>6. CASE Resume
  BY <1>6 DEF Resume, WaitForUniphy, ReprogramOutcome, Outcome
<1>7. CASE PrWrite
  BY <1>7 DEF PrWrite, PrFileA10, PrFileS10
<1>8. CASE PrWritten
  BY <1>8 DEF PrWritten, PrReleased
<1>9. CASE Retest
  BY <1>9 DEF Retest, WaitForUniphy
<1>10. CASE OtherProcess
  BY <1>10 DEF OtherProcess, main
<1>11. CASE Open \/ Erase \/ PgmBegin \/ Pause \/ Save \/ PrReprogram \/ PrEnd \/ Fallback \/ Cleanup \/ Reopen \/ SetInterruptHandler \/ SetDeviceInterruptHandler \/ Close \/ Closed \/ SavePcie \/ RestorePcie \/ ReprogramSof \/ Reprogram \/ KernelDone \/ CtrlC \/ Raise \/ ServiceBegin \/ ServiceEnd
  BY <1>11 DEF main, Open, Erase, PgmBegin, Pause, Save, PrReprogram, PrEnd, Fallback, Cleanup, Reopen, SetInterruptHandler, SetDeviceInterruptHandler, Close, Closed, SavePcie, RestorePcie, ReprogramSof, Reprogram, KernelDone, CtrlC, Raise, ServiceBegin, ServiceEnd
<1> QED
  BY <1>1, <1>2, <1>3, <1>4, <1>5, <1>6, <1>7, <1>8, <1>9, <1>10, <1>11 DEF Next, MainStep

\* The kernel interrupt on its way.
LEMMA InterruptKept == BoardTypes /\ Next => InterruptTypes'
<1> SUFFICES ASSUME BoardTypes, Next PROVE InterruptTypes'
  OBVIOUS
<1> USE DEF BoardTypes, InterruptTypes, MaskIrqs, UnmaskKernelIrq, UnmaskIrqs
<1>1. CASE Construct
  <2>1. PICK cal \in BOOLEAN, rest \in BOOLEAN :
           irq' = CASE rest -> [(IF linux THEN irq ELSE MaskIrqs(irq)) EXCEPT !.pending = FALSE]
                    [] cal /\ ~rest /\ ~linux -> MaskIrqs(irq)
                    [] OTHER -> irq
    BY <1>1 DEF Construct
  <2>2. CASE rest
    BY <2>1, <2>2
  <2>3. CASE ~rest /\ cal /\ ~linux
    BY <2>1, <2>3
  <2>4. CASE ~rest /\ ~(cal /\ ~linux)
    BY <2>1, <2>4
  <2> QED
    BY <2>2, <2>3, <2>4
<1>2. CASE Attempt
  BY <1>2 DEF Attempt, main
<1>3. CASE Pause
  BY <1>3 DEF Pause, DisableInterrupts, MaskIrqs
<1>4. CASE Save
  BY <1>4 DEF Save, SavePciControlRegs, MaskIrqs
<1>5. CASE Reopen
  BY <1>5 DEF Reopen, Discarded, DisableInterrupts, MaskIrqs
<1>6. CASE SetInterruptHandler
  BY <1>6 DEF SetInterruptHandler, Counted, UnmaskKernelIrq
<1>7. CASE SetDeviceInterruptHandler
  BY <1>7 DEF SetDeviceInterruptHandler, Counted, UnmaskKernelIrq
<1>8. CASE Close
  BY <1>8 DEF Close, Counted, Discarded, DisableInterrupts, MaskIrqs
<1>9. CASE SavePcie
  BY <1>9 DEF SavePcie, Counted, NoCall
<1>10. CASE OtherProcess
  BY <1>10 DEF OtherProcess, main
<1>11. CASE KernelDone
  BY <1>11 DEF KernelDone, main
<1>12. CASE Raise
  BY <1>12 DEF Raise, MaskIrqs, main
<1>13. CASE ServiceBegin
  BY <1>13 DEF ServiceBegin, MaskIrqs, main
<1>14. CASE ServiceEnd
  BY <1>14 DEF ServiceEnd, UnmaskIrqs, UnmaskKernelIrq, main
<1>15. CASE Open \/ Erase \/ PgmBegin \/ AttemptDone \/ PgmEnd \/ Load \/ Resume \/ PrReprogram \/ PrWrite \/ PrWritten \/ PrEnd \/ Fallback \/ Retest \/ Cleanup \/ Closed \/ RestorePcie \/ ReprogramSof \/ Reprogram \/ CtrlC
  BY <1>15 DEF main, Open, Erase, PgmBegin, AttemptDone, PgmEnd, Load, Resume, PrReprogram, PrWrite, PrWritten, PrEnd, Fallback, Retest, Cleanup, Closed, RestorePcie, ReprogramSof, Reprogram, CtrlC
<1> QED
  BY <1>1, <1>2, <1>3, <1>4, <1>5, <1>6, <1>7, <1>8, <1>9, <1>10, <1>11, <1>12, <1>13, <1>14, <1>15 DEF Next, MainStep

\* The locals of reprogram.
LEMMA CallKept == BoardTypes /\ Next => CallTypes'
<1> SUFFICES ASSUME BoardTypes, Next PROVE CallTypes'
  OBVIOUS
<1> USE DEF BoardTypes, CallTypes
<1>1. CASE PgmBegin
  <2>1. \/ call' = [call EXCEPT !.tries = 0]
        \/ call' = [call EXCEPT !.failed = TRUE]
    BY <1>1 DEF PgmBegin
  <2>2. CASE call' = [call EXCEPT !.tries = 0]
    BY <2>2
  <2>3. CASE call' = [call EXCEPT !.failed = TRUE]
    BY <2>3
  <2> QED
    BY <2>1, <2>2, <2>3
<1>2. CASE AttemptDone
  <2>1. \/ call' = [call EXCEPT !.failed = FALSE]
        \/ call' = [call EXCEPT !.failed = TRUE, !.tries = call.tries + 1]
    BY <1>2 DEF AttemptDone
  <2>2. call.tries + 1 \in Nat
    OBVIOUS
  <2> QED
    BY <2>1, <2>2
<1>3. CASE PgmEnd
  BY <1>3 DEF PgmEnd, InstallCtrlCHandler, linux
<1>4. CASE PrReprogram
  <2>1. PrChecks.rbf \in BOOLEAN /\ PrChecks.qver \in BOOLEAN /\ PrChecks.hash \in BOOLEAN
    BY DEF PrChecks, QuartusVerTest, PrBaseIdTest, Phases, Scenario
  <2>2. call' = [call EXCEPT !.failed = TRUE, !.rbf = PrChecks.rbf, !.qver = PrChecks.qver,
                             !.hash = PrChecks.hash]
    BY <1>4 DEF PrReprogram
  <2> HIDE DEF PrChecks
  <2> QED
    BY <2>1, <2>2
<1>5. CASE PrWritten
  BY <1>5 DEF PrWritten, PrReleased
<1>6. CASE Fallback
  BY <1>6 DEF Fallback, FindJtagCable, FindCableWithIssp
<1>7. CASE Retest
  BY <1>7 DEF Retest, WaitForUniphy
<1>8. CASE SavePcie
  BY <1>8 DEF SavePcie, Counted, NoCall
<1>9. CASE RestorePcie
  BY <1>9 DEF RestorePcie, Counted, NoCall
<1>10. CASE ReprogramSof
  BY <1>10 DEF ReprogramSof, Counted, NoCall
<1>11. CASE Reprogram
  BY <1>11 DEF Reprogram, Counted, NoCall
<1>12. CASE Open \/ Construct \/ Erase \/ Attempt \/ Pause \/ Save \/ Load \/ Resume \/ PrWrite \/ PrEnd \/ Cleanup \/ Reopen \/ SetInterruptHandler \/ SetDeviceInterruptHandler \/ Close \/ Closed \/ OtherProcess \/ KernelDone \/ CtrlC \/ Raise \/ ServiceBegin \/ ServiceEnd
  BY <1>12 DEF main, Open, Construct, Erase, Attempt, Pause, Save, Load, Resume, PrWrite, PrEnd, Cleanup, Reopen, SetInterruptHandler, SetDeviceInterruptHandler, Close, Closed, OtherProcess, KernelDone, CtrlC, Raise, ServiceBegin, ServiceEnd
<1> QED
  BY <1>1, <1>2, <1>3, <1>4, <1>5, <1>6, <1>7, <1>8, <1>9, <1>10, <1>11, <1>12 DEF Next, MainStep

-----------------------------------------------------------------------------
(* Every step keeps the order of things.                                   *)

\* quartus_pgm ends with the image on the board, or with a failure to be retried
\* or reported.
LEMMA AttemptOutcome ==
    ASSUME BoardTypes, AttemptDone
    PROVE  /\ call'.cable = call.cable /\ call'.hash = call.hash /\ call'.explicit = call.explicit
           /\ \/ call'.failed = TRUE /\ pc' = "attempt"
              \/ call'.failed = TRUE /\ pc' = "pgmEnd"
              \/ /\ call'.failed = FALSE /\ pc' = "pgmEnd"
                 /\ OwnBoard => board'.image = IF sc.mode # "sof" /\ sc.pkg.fast THEN "base"
                                               ELSE "new"
<1>1. CallTypes /\ ImageTypes
  BY DEF BoardTypes
<1>2. \/ /\ board' = IF ~OwnBoard THEN board
                     ELSE [board EXCEPT !.image = IF sc.mode # "sof" /\ sc.pkg.fast
                                                  THEN "base" ELSE "new"]
         /\ call' = [call EXCEPT !.failed = FALSE] /\ pc' = "pgmEnd"
      \/ /\ pc' \in {"attempt", "pgmEnd"}
         /\ call' = [call EXCEPT !.failed = TRUE, !.tries = call.tries + 1]
  BY DEF AttemptDone
<1>3. CASE call' = [call EXCEPT !.failed = FALSE] /\ pc' = "pgmEnd"
  <2>1. CASE OwnBoard
    BY <1>1, <1>2, <1>3, <2>1 DEF CallTypes, ImageTypes
  <2>2. CASE ~OwnBoard
    BY <1>1, <1>3, <2>2 DEF CallTypes
  <2> QED
    BY <2>1, <2>2
<1>4. CASE /\ pc' \in {"attempt", "pgmEnd"}
           /\ call' = [call EXCEPT !.failed = TRUE, !.tries = call.tries + 1]
  BY <1>1, <1>4 DEF CallTypes
<1> QED
  BY <1>2, <1>3, <1>4

\* Resuming leaves the image alone and reports success only after the uniphys
\* calibrated.
LEMMA ResumeOutcomes ==
    ASSUME BoardTypes, Resume
    PROVE  /\ board'.image = board.image /\ (board.cal => board'.cal = TRUE)
           /\ result' \in {result, "failed", "ok"}
           /\ result' = "ok" /\ ~call.explicit => board'.cal = TRUE /\ ~call.failed
           /\ call.explicit => result' = result
<1>1. CallTypes /\ ImageTypes
  BY DEF BoardTypes
<1>2. PICK cal \in BOOLEAN :
         /\ board' = [board EXCEPT !.cal = cal \/ board.cal]
         /\ result' = IF call.explicit THEN result
                      ELSE IF ~cal \/ call.failed THEN "failed" ELSE "ok"
  BY DEF Resume, WaitForUniphy, ReprogramOutcome, Outcome
<1>3. board'.image = board.image /\ (board.cal => board'.cal = TRUE) /\ (cal => board'.cal = TRUE)
  BY <1>1, <1>2 DEF ImageTypes
<1> QED
  BY <1>2, <1>3

\* No step lets success be reported too early or Ctrl-C in too soon.
LEMMA ControlKept == BoardInv /\ Next => Control'
<1> SUFFICES ASSUME BoardInv, Next PROVE Control'
  OBVIOUS
<1> USE DEF BoardInv, BoardTypes, Phases, DeviceTypes, ImageTypes, InterruptTypes, CallTypes,
            Control, Builds, Succeeded, Programmed, PrProgress, PrTried, PgmProgress, OwnBoard,
            Guarded, Saved, NeverKilledMidProgramming, At, Running,
            Steps, PrSteps, PauseSteps, PgmSteps, OpenCLSteps
<1>1. CASE Open
  BY <1>1 DEF Open, RegisterSignals, InstallCtrlCHandler, OpenDeviceLinux, OpenDeviceWindows, NoDevice, linux
<1>2. CASE Construct
  BY <1>2 DEF Construct, VersionIdTest, WaitForUniphy, Read32Ok, EnableInterrupts, EnableInterruptsLinux, EnableInterruptsWindows, MaskIrqs
<1>3. CASE Erase
  BY <1>3 DEF Erase, NoDevice
<1>4. CASE PgmBegin
  BY <1>4 DEF PgmBegin, InstallCtrlCHandler
<1>5. CASE Attempt
  BY <1>5 DEF Attempt, main
<1>6. CASE AttemptDone
  <2>1. UNCHANGED <<sc, dev, regs, sigint, proc, result, held>> /\ pc = "writing"
    BY <1>6 DEF AttemptDone
  <2>2. /\ call'.cable = call.cable /\ call'.hash = call.hash /\ call'.explicit = call.explicit
        /\ \/ call'.failed = TRUE /\ pc' = "attempt"
           \/ call'.failed = TRUE /\ pc' = "pgmEnd"
           \/ /\ call'.failed = FALSE /\ pc' = "pgmEnd"
              /\ OwnBoard => board'.image = IF sc.mode # "sof" /\ sc.pkg.fast THEN "base"
                                            ELSE "new"
    BY <1>6, AttemptOutcome
  <2>3. Builds'
    BY <2>1, <2>2
  <2>4. Succeeded'
    BY <2>1, <2>2
  <2>5. PrProgress'
    BY <2>1, <2>2
  <2>6. PgmProgress'
    BY <2>1, <2>2
  <2>7. Guarded'
    BY <2>1, <2>2
  <2>8. Saved'
    BY <2>1, <2>2
  <2>9. NeverKilledMidProgramming'
    BY <2>1, <2>2
  <2> QED
    BY <2>3, <2>4, <2>5, <2>6, <2>7, <2>8, <2>9
<1>7. CASE PgmEnd
  BY <1>7 DEF PgmEnd, InstallCtrlCHandler, linux
<1>8. CASE Pause
  BY <1>8 DEF Pause, DisableInterrupts, MaskIrqs
<1>9. CASE Save
  BY <1>9 DEF Save, SavePciControlRegs, MaskIrqs
<1>10. CASE Load
  BY <1>10 DEF Load, LoadPciControlRegs, Outcome, linux
<1>11. CASE Resume
  <2>1. /\ UNCHANGED <<sc, regs, sigint, proc, call>> /\ pc = "resume" /\ pc' = "idle"
        /\ held' = FALSE /\ dev' = [dev EXCEPT !.programming = FALSE]
    BY <1>11 DEF Resume
  <2>2. /\ board'.image = board.image /\ (board.cal => board'.cal = TRUE)
        /\ result' \in {result, "failed", "ok"}
        /\ result' = "ok" /\ ~call.explicit => board'.cal = TRUE /\ ~call.failed
        /\ call.explicit => result' = result
    BY <1>11, ResumeOutcomes
  <2>3. dev'.programming = FALSE /\ dev'.inMap = dev.inMap
    BY <2>1
  <2>4. Builds'
    BY <2>1, <2>2, <2>3
  <2>5. Succeeded'
    BY <2>1, <2>2, <2>3
  <2>6. PrProgress'
    BY <2>1, <2>2, <2>3
  <2>7. PgmProgress'
    BY <2>1, <2>2, <2>3
  <2>8. Guarded'
    BY <2>1, <2>2, <2>3
  <2>9. Saved'
    BY <2>1, <2>2, <2>3
  <2>10. NeverKilledMidProgramming'
    BY <2>1, <2>2, <2>3
  <2> QED
    BY <2>4, <2>5, <2>6, <2>7, <2>8, <2>9, <2>10
<1>12. CASE PrReprogram
  BY <1>12 DEF PrReprogram, PrChecks
<1>13. CASE PrWrite
  BY <1>13 DEF PrWrite, PrFileA10, PrFileS10, main
<1>14. CASE PrWritten
  <2>1. /\ UNCHANGED <<sc, dev, regs, sigint, result, held>> /\ pc = "prWriting" /\ pc' = "prEnd"
        /\ proc' \in {proc, "aborted"}
    BY <1>14 DEF PrWritten
  <2>2. CASE call' = call
    BY <2>1, <2>2
  <2>3. CASE call' # call
    <3>1. PICK cal \in BOOLEAN :
             /\ board' = [PrReleased(board) EXCEPT !.cal = cal]
             /\ call' = [call EXCEPT !.failed = ~cal]
      BY <1>14, <2>3 DEF PrWritten
    <3>2. board'.image = "new" /\ board'.cal = cal /\ call'.failed = ~cal
      BY <3>1 DEF PrReleased
    <3>3. /\ call'.rbf = call.rbf /\ call'.hash = call.hash /\ call'.qver = call.qver
          /\ call'.cable = call.cable /\ call'.explicit = call.explicit
      BY <3>1
    <3>4. ~call'.failed => board'.cal
      BY <3>2
    <3> QED
      BY <2>1, <3>2, <3>3, <3>4
  <2> QED
    BY <2>2, <2>3
<1>15. CASE PrEnd
  BY <1>15 DEF PrEnd
<1>16. CASE Fallback
  BY <1>16 DEF Fallback, FindJtagCable, FindCableWithIssp
<1>17. CASE Retest
  BY <1>17 DEF Retest, WaitForUniphy
<1>18. CASE Cleanup
  BY <1>18 DEF Cleanup
<1>19. CASE Reopen
  BY <1>19 DEF Reopen, Discarded, DisableInterrupts, MaskIrqs
<1>20. CASE SetInterruptHandler
  BY <1>20 DEF SetInterruptHandler, Counted, UnmaskKernelIrq
<1>21. CASE SetDeviceInterruptHandler
  BY <1>21 DEF SetDeviceInterruptHandler, Counted, UnmaskKernelIrq
<1>22. CASE Close
  BY <1>22 DEF Close, Counted, Discarded, DisableInterrupts, MaskIrqs
<1>23. CASE Closed
  BY <1>23 DEF Closed, Counted
<1>24. CASE SavePcie
  BY <1>24 DEF SavePcie, Counted, NoCall
<1>25. CASE RestorePcie
  BY <1>25 DEF RestorePcie, Counted, NoCall
<1>26. CASE ReprogramSof
  BY <1>26 DEF ReprogramSof, Counted, NoCall
<1>27. CASE Reprogram
  BY <1>27 DEF Reprogram, Counted, NoCall
<1>28. CASE OtherProcess
  BY <1>28 DEF OtherProcess, main
<1>29. CASE KernelDone
  BY <1>29 DEF KernelDone, main
<1>30. CASE CtrlC
  BY <1>30 DEF CtrlC, IsAnyDeviceBeingProgrammed
<1>31. CASE Raise
  BY <1>31 DEF Raise, MaskIrqs, main
<1>32. CASE ServiceBegin
  BY <1>32 DEF ServiceBegin, MaskIrqs, main
<1>33. CASE ServiceEnd
  BY <1>33 DEF ServiceEnd, UnmaskIrqs, UnmaskKernelIrq, main
<1> QED
  BY <1>1, <1>2, <1>3, <1>4, <1>5, <1>6, <1>7, <1>8, <1>9, <1>10, <1>11, <1>12, <1>13, <1>14, <1>15, <1>16, <1>17, <1>18, <1>19, <1>20, <1>21, <1>22, <1>23, <1>24, <1>25, <1>26, <1>27, <1>28, <1>29, <1>30, <1>31, <1>32, <1>33 DEF Next, MainStep

-----------------------------------------------------------------------------
(* The theorems.                                                           *)

\* Steps and stuttering keep the invariant.
LEMMA BoardStep == BoardInv /\ [Next]_vars => BoardInv'
<1>1. CASE BoardInv /\ Next
  BY <1>1, PhasesKept, DeviceKept, ImageKept, InterruptKept, CallKept, ControlKept
     DEF BoardInv, BoardTypes
<1>2. CASE BoardInv /\ UNCHANGED vars
  BY <1>2 DEF BoardInv, BoardTypes, Phases, DeviceTypes, ImageTypes, InterruptTypes,
              CallTypes, Control, Builds, Succeeded, Programmed, PrProgress, PrTried,
              PgmProgress, OwnBoard, Guarded, Saved, NeverKilledMidProgramming, vars, main
<1> QED
  BY <1>1, <1>2

\* What a board, its device object and the locals of reprogram can be at each
\* point of opening, programming and closing, with Ctrl-C at any moment
\* (acl_pcie_device.cpp, reprogram_sof, reprogram and pr_reprogram).
THEOREM BoardInvariant == Spec => []BoardInv
  BY BoardInit, BoardStep, PTL DEF Spec

\* Whatever failed and was tried again, a programming call that reports success
\* has put the requested image on the board (reprogram_sof, reprogram).
THEOREM ProgrammedWhenSuccessful == Spec => []SuccessMeansProgrammed
<1>1. BoardInv => SuccessMeansProgrammed
  BY DEF BoardInv, Control, Succeeded, Programmed, SuccessMeansProgrammed
<1> QED
  BY <1>1, BoardInvariant, PTL

\* Ctrl-C ends the process neither while the chip is rewritten nor before saved
\* registers are restored (ctrl_c_handler, is_any_device_being_programmed).
THEOREM CtrlCWaits == Spec => []NeverKilledMidProgramming
<1>1. BoardInv => NeverKilledMidProgramming
  BY DEF BoardInv, Control
<1> QED
  BY <1>1, BoardInvariant, PTL

=============================================================================
