------------------------------ MODULE De10Board ------------------------------
(***************************************************************************)
(* The DE10 Agilex board package: opening a board, its kernel interrupt,   *)
(* Ctrl-C, and reprogramming.  The CoreDLA build programs a SOF through    *)
(* JTAG; the OpenCL build tries partial reconfiguration (PR) from an       *)
(* fpga.bin package and may fall back to JTAG.                             *)
(***************************************************************************)
EXTENDS Integers

CONSTANTS Scenarios,    \* what the process is and what it is given
          MaxCalls,     \* bound: MMD calls the application makes
          MaxAttempts   \* MAX_ATTEMPTS of quartus_pgm

\* os: "linux" or "windows"; mode: "sof" (CoreDLA build), "pr" or "jtag"
\* (OpenCL build).  skip: COREDLA_JTAG_PID is set; usable: the board passes its
\* tests when first opened; alone: it is the only board on JTAG.  pkg: the sections of the package and whether they
\* match what is on the board; env: ACL_PCIE_USE_JTAG_PROGRAMMING is set.
Scenario == [os : {"linux", "windows"}, mode : {"sof", "pr", "jtag"},
             skip : BOOLEAN, usable : BOOLEAN, env : BOOLEAN, alone : BOOLEAN,
             pkg : [opens : BOOLEAN, rbf : BOOLEAN, qver : BOOLEAN,
                    hash : BOOLEAN, aligned : BOOLEAN, sof : BOOLEAN,
                    fast : BOOLEAN]]

ASSUME BoardAssumption == /\ Scenarios \subseteq Scenario
                          /\ MaxCalls \in Nat
                          /\ MaxAttempts \in Nat \ {0}

VARIABLES
    sc,       \* the scenario
    pc,       \* where the calling thread is
    dev,      \* the device object: inMap, init (m_initialized), programming
              \* (m_being_programmed), handler (m_mmd_irq_handler_enable),
              \* fn, devFn (kernel_interrupt, device_interrupt are set)
    board,    \* image: "old", "base", "new" or "torn"; cal: uniphys calibrated;
              \* link: the PCIe link works; frozen: the PR region is
    regs,     \* PCI control registers: "live", "saved" or "lost"
    irq,      \* enable (PCIE_CRA_IRQ_ENABLE), pending (a kernel finished),
              \* raised (on its way to the process), svc (the service routine)
    sigint,   \* disposition of Ctrl-C
    proc,     \* "running", "done", "ctrlC", "aborted" or "undefined"
    call,     \* locals of reprogram
    result,   \* "ok" or "failed": what the last programming call returned;
              \* "none" in a session that has not paused or programmed yet
    calls, held  \* calls made; registers saved by an explicit save_pcie

main == <<dev, regs, sigint, proc, call, result, calls, held>>
vars == <<sc, pc, board, irq, main>>

linux == sc.os = "linux"
Running == proc = "running"
At(l) == Running /\ pc = l

NoDevice == [inMap |-> FALSE, init |-> FALSE, programming |-> FALSE,
             handler |-> FALSE, fn |-> FALSE, devFn |-> FALSE]
NoCall == [failed |-> TRUE, rbf |-> FALSE, hash |-> FALSE, qver |-> FALSE,
           second |-> FALSE, tries |-> 0, explicit |-> FALSE, cable |-> "0"]

Init ==
    /\ sc \in Scenarios
    /\ pc = "open"
    /\ dev = NoDevice
    /\ board = [image |-> "old", cal |-> sc.usable, link |-> TRUE, frozen |-> FALSE]
    /\ regs = "live"
    /\ irq = [enable |-> FALSE, pending |-> FALSE, raised |-> FALSE, svc |-> "idle"]
    /\ sigint = "default"
    /\ proc = "running"
    /\ call = NoCall
    /\ result = "none"
    /\ calls = 0
    /\ held = FALSE

-----------------------------------------------------------------------------
(* Registers of the board.  A read over a dead link returns nothing the    *)
(* callers take for a good value.                                          *)

\* A 32-bit read reaches a working image.
Read32Ok == board.link /\ board.image # "torn"

\* version_id_test, quartus_ver_test and pr_base_id_test compare what they
\* read with what they expect; a package whose base was just programmed
\* matches it.
VersionIdTest == Read32Ok
QuartusVerTest == Read32Ok /\ (sc.pkg.qver \/ board.image = "base")
PrBaseIdTest == Read32Ok /\ (sc.pkg.hash \/ board.image = "base")

\* wait_for_uniphy: reset the uniphys, a bounded number of times, until they
\* calibrate.
WaitForUniphy(cal) ==
    /\ cal => Read32Ok
    /\ board.cal /\ Read32Ok => cal
    /\ board' = [board EXCEPT !.cal = cal \/ @]

\* Writes of the interrupt enable register.
MaskIrqs(q) == [q EXCEPT !.enable = FALSE]
UnmaskKernelIrq(q) == [q EXCEPT !.enable = TRUE]
\* unmask_irqs leaves the register alone until a callback is set.
UnmaskIrqs(q) == IF dev.fn THEN UnmaskKernelIrq(q) ELSE q

-----------------------------------------------------------------------------
(* Opening and closing.                                                    *)

\* Deleting a device while its service routine runs is undefined.
Discarded == proc' = IF irq.svc = "idle" THEN proc ELSE "undefined"

\* install_ctrl_c_handler.  On Windows, ignoring Ctrl-C is a flag of its own
\* that adding the handler does not clear.
InstallCtrlCHandler(ignore) ==
    sigint' = IF ignore THEN "ignored"
              ELSE IF ~linux /\ sigint = "ignored" THEN "ignored" ELSE "custom"

\* The first open allocates a free signal, which may fail, and installs the
\* handlers.
RegisterSignals ==
    IF sigint = "default" THEN InstallCtrlCHandler(FALSE) ELSE UNCHANGED sigint

\* The device node is opened and its driver answers as expected, or the
\* device is invalid.
OpenDeviceLinux(valid) == linux /\ UNCHANGED proc

\* On Windows a device can turn out invalid after its MSI capability was
\* read; the destructor then disables MSI through registers that were never
\* set up.
OpenDeviceWindows(valid) ==
    /\ ~linux
    /\ IF valid THEN UNCHANGED proc ELSE proc' \in {proc, "undefined"}

\* aocl_mmd_open up to the constructor's tests; an invalid device is deleted
\* and -1 returned.
Open ==
    /\ At("open")
    /\ dev' = NoDevice
    /\ \/ \E valid \in BOOLEAN :
             /\ RegisterSignals
             /\ OpenDeviceLinux(valid) \/ OpenDeviceWindows(valid)
             /\ pc' = IF valid THEN "construct" ELSE "closed"
             /\ result' = IF result = "ok" /\ ~valid THEN "failed" ELSE result
       \/ /\ linux /\ sigint = "default"
          /\ pc' = "closed"
          /\ UNCHANGED <<sigint, proc, result>>
    /\ UNCHANGED <<sc, board, regs, irq, call, calls, held>>

\* enable_interrupts: the driver is given the signal and the handle ...
EnableInterruptsLinux(d) == [d EXCEPT !.handler = FALSE]

\* ... or an event is registered and the device unmasks by itself.
EnableInterruptsWindows(d) == [d EXCEPT !.handler = TRUE]

EnableInterrupts(d) == IF linux THEN EnableInterruptsLinux(d) ELSE EnableInterruptsWindows(d)

\* The constructor's tests in turn: the first that fails leaves the device
\* uninitialized, and it is put into the map all the same.  The software
\* reset ends whatever ran on the board.
Construct ==
    /\ At("construct")
    /\ \E cal \in BOOLEAN, rest \in BOOLEAN :
          /\ IF VersionIdTest THEN WaitForUniphy(cal) ELSE ~cal /\ UNCHANGED board
          /\ cal \/ ~rest
          /\ dev' = [(IF cal THEN EnableInterrupts(dev) ELSE dev) EXCEPT
                        !.inMap = TRUE, !.init = rest]
          /\ irq' = CASE rest -> [(IF linux THEN irq ELSE MaskIrqs(irq)) EXCEPT !.pending = FALSE]
                      [] cal /\ ~rest /\ ~linux -> MaskIrqs(irq)
                      [] OTHER -> irq
          /\ result' = IF result = "ok" /\ ~rest THEN "failed" ELSE result
    /\ pc' = "idle"
    /\ UNCHANGED <<sc, regs, sigint, proc, call, calls, held>>

Counted == calls < MaxCalls /\ calls' = calls + 1

\* aocl_mmd_set_interrupt_handler.
SetInterruptHandler ==
    /\ At("idle") /\ dev.init /\ ~dev.fn /\ Counted
    /\ dev' = [dev EXCEPT !.fn = TRUE]
    /\ irq' = UnmaskKernelIrq(irq)
    /\ UNCHANGED <<sc, pc, board, regs, sigint, proc, call, result, held>>

\* aocl_mmd_set_device_interrupt_handler unmasks the kernel's interrupt too.
SetDeviceInterruptHandler ==
    /\ At("idle") /\ dev.init /\ ~dev.devFn /\ Counted
    /\ dev' = [dev EXCEPT !.devFn = TRUE]
    /\ irq' = UnmaskKernelIrq(irq)
    /\ UNCHANGED <<sc, pc, board, regs, sigint, proc, call, result, held>>

\* disable_interrupts does something only when Windows enabled them.
DisableInterrupts ==
    /\ irq' = IF dev.handler THEN MaskIrqs(irq) ELSE irq
    /\ dev' = [dev EXCEPT !.handler = FALSE]

\* aocl_mmd_close, when no kernel is left running: the destructor disables
\* the interrupts, deletes the object, and then its map entry is erased.
Close ==
    /\ At("idle") /\ ~irq.pending /\ ~held /\ Counted
    /\ Discarded
    /\ DisableInterrupts
    /\ pc' = "erase"
    /\ UNCHANGED <<sc, board, regs, sigint, call, result, held>>

Erase ==
    /\ At("erase")
    /\ dev' = NoDevice
    /\ pc' = IF result = "reopen" THEN "open" ELSE "closed"
    /\ result' = IF result = "reopen" THEN "ok" ELSE result
    /\ UNCHANGED <<sc, board, regs, irq, sigint, proc, call, calls, held>>

\* The application opens again or ends.
Closed ==
    /\ At("closed")
    /\ \/ pc' = "open" /\ Counted /\ result' = "none" /\ UNCHANGED proc
       \/ proc' = "done" /\ UNCHANGED <<pc, calls, result>>
    /\ UNCHANGED <<sc, dev, board, regs, irq, sigint, call, held>>

-----------------------------------------------------------------------------
(* The kernel interrupt.                                                   *)

\* A kernel finishes while the application has the device to itself.
KernelDone ==
    /\ At("idle") /\ dev.fn /\ ~held /\ board.link /\ ~irq.pending
    /\ result = "none"
    /\ irq' = [irq EXCEPT !.pending = TRUE]
    /\ UNCHANGED <<sc, pc, board, main>>

\* The interrupt: on Linux the driver masks it and queues a signal carrying
\* the handle, on Windows an event is set.
Raise ==
    /\ Running /\ irq.enable /\ irq.pending /\ ~irq.raised
    /\ irq' = [(IF linux THEN MaskIrqs(irq) ELSE irq) EXCEPT !.raised = TRUE]
    /\ UNCHANGED <<sc, pc, board, main>>

\* Is it a kernel's interrupt?  Linux says so in the signal, Windows reads
\* the status register.
KernelUpdateLinux == linux
KernelUpdateWindows == ~linux /\ irq.pending
KernelUpdate == KernelUpdateLinux \/ KernelUpdateWindows

\* A signal for a handle that is gone is ignored.
KnownHandle == dev.inMap

\* service_interrupt up to the callback, which sees every completion so far.
ServiceBegin ==
    /\ Running /\ irq.raised /\ irq.svc = "idle"
    /\ irq' = IF ~KnownHandle THEN [irq EXCEPT !.raised = FALSE]
              ELSE IF ~(KernelUpdate /\ dev.fn) THEN [irq EXCEPT !.raised = FALSE, !.svc = "called"]
              ELSE [(IF linux THEN irq ELSE MaskIrqs(irq)) EXCEPT
                        !.raised = FALSE, !.pending = FALSE, !.svc = "called"]
    /\ UNCHANGED <<sc, pc, board, main>>

\* Variant with a mistake: only a device with its handler enabled unmasks.
ServiceEndHandlerOnly ==
    /\ Running /\ irq.svc = "called"
    /\ irq' = [(IF dev.handler THEN UnmaskIrqs(irq) ELSE irq) EXCEPT !.svc = "idle"]
    /\ UNCHANGED <<sc, pc, board, main>>

\* Its last statements enable the interrupt again, by one way or the other.
ServiceEnd ==
    /\ Running /\ irq.svc = "called"
    /\ irq' = [(IF dev.handler THEN UnmaskIrqs(irq) ELSE UnmaskKernelIrq(irq))
                  EXCEPT !.svc = "idle"]
    /\ UNCHANGED <<sc, pc, board, main>>

-----------------------------------------------------------------------------
(* Ctrl-C.                                                                 *)

\* Variant with a mistake: an uninitialized device is taken to be idle.
IsAnyDeviceBeingProgrammedInit == dev.init /\ dev.programming

IsAnyDeviceBeingProgrammed == dev.inMap /\ dev.programming

\* ctrl_c_handler refuses while a device is being programmed.  Otherwise it
\* ends the process: Linux deletes the devices first, also one whose deletion
\* it interrupted, which is undefined.
CtrlC ==
    /\ Running
    /\ \/ sigint = "custom" /\ ~IsAnyDeviceBeingProgrammed
       \/ sigint = "default"
    /\ proc' = IF sigint = "custom" /\ linux
                  /\ (pc = "erase" \/ (dev.inMap /\ irq.svc # "idle"))
               THEN "undefined" ELSE "ctrlC"
    /\ UNCHANGED <<sc, pc, board, irq, dev, regs, sigint, call, result, calls, held>>

-----------------------------------------------------------------------------
(* Parts the two ways of programming share.                                *)

\* save_pci_control_regs: on Linux the driver also disables the interrupt.
SavePciControlRegs(ok) ==
    /\ regs' = IF ok THEN "saved" ELSE regs
    /\ irq' = IF ok /\ linux THEN MaskIrqs(irq) ELSE irq

\* load_pci_control_regs, called on Linux only; nobody looks at its result.
\* Without it the link stays down.
LoadPciControlRegs(ok) ==
    /\ regs' = IF ~linux THEN "live" ELSE IF ok THEN "live" ELSE "lost"
    /\ board' = [board EXCEPT !.link = IF linux THEN ok ELSE @]

\* program_with_SOF_file: disable_AER_windows may fail; then Ctrl-C is
\* ignored ...
PgmBegin ==
    /\ At("pgm")
    /\ \/ pc' = "attempt" /\ InstallCtrlCHandler(TRUE) /\ call' = [call EXCEPT !.tries = 0]
       \/ ~linux /\ pc' = "load" /\ call' = [call EXCEPT !.failed = TRUE] /\ UNCHANGED sigint
    /\ UNCHANGED <<sc, dev, board, regs, irq, proc, result, calls, held>>

\* The cable quartus_pgm is given leads to this board: it was detected, or the
\* default one is the only one.
OwnBoard == call.cable = "own" \/ sc.alone

\* quartus_pgm begins to rewrite the chip, and its link goes down ...
Attempt ==
    /\ At("attempt")
    /\ pc' = "writing"
    /\ IF OwnBoard
       THEN /\ board' = [image |-> "torn", cal |-> FALSE, link |-> FALSE, frozen |-> FALSE]
            /\ irq' = [irq EXCEPT !.enable = FALSE, !.pending = FALSE]
       ELSE UNCHANGED <<board, irq>>
    /\ UNCHANGED <<sc, main>>

\* ... and succeeds, or fails and is tried again.
AttemptDone ==
    /\ At("writing")
    /\ \/ /\ board' = IF ~OwnBoard THEN board
                      ELSE [board EXCEPT !.image = IF sc.mode # "sof" /\ sc.pkg.fast
                                                   THEN "base" ELSE "new"]
          /\ call' = [call EXCEPT !.failed = FALSE]
          /\ pc' = "pgmEnd"
       \/ /\ call' = [call EXCEPT !.failed = TRUE, !.tries = @ + 1]
          /\ pc' = IF call.tries + 1 < MaxAttempts THEN "attempt" ELSE "pgmEnd"
          /\ UNCHANGED board
    /\ UNCHANGED <<sc, irq, dev, regs, sigint, proc, result, calls, held>>

\* The handler comes back; enable_AER_and_retrain_link_windows may fail.
PgmEnd ==
    /\ At("pgmEnd")
    /\ InstallCtrlCHandler(FALSE)
    /\ \/ UNCHANGED call /\ board' = [board EXCEPT !.link = ~linux \/ @]
       \/ ~linux /\ call' = [call EXCEPT !.failed = TRUE] /\ UNCHANGED board
    /\ pc' = "load"
    /\ UNCHANGED <<sc, irq, dev, regs, proc, result, calls, held>>

-----------------------------------------------------------------------------
(* The CoreDLA build: save_pcie, restore_pcie and program_sof.             *)

NoKernels == ~irq.pending

\* aocl_mmd_save_pcie by an application that lets another process program
\* the board.
SavePcie ==
    /\ At("idle") /\ sc.mode = "sof" /\ dev.init /\ ~held /\ NoKernels /\ Counted
    /\ dev' = [dev EXCEPT !.programming = TRUE]
    /\ call' = [NoCall EXCEPT !.explicit = TRUE]
    /\ pc' = "pause"
    /\ result' = "saved"
    /\ UNCHANGED <<sc, board, irq, regs, sigint, proc, held>>

\* That process rewrites the board.
OtherProcess ==
    /\ At("idle") /\ held /\ board.link
    /\ board' = [image |-> "new", cal |-> FALSE, link |-> FALSE, frozen |-> FALSE]
    /\ irq' = [irq EXCEPT !.enable = FALSE]
    /\ UNCHANGED <<sc, pc, main>>

RestorePcie ==
    /\ At("idle") /\ held /\ Counted
    /\ call' = [NoCall EXCEPT !.explicit = TRUE]
    /\ pc' = "load"
    /\ UNCHANGED <<sc, board, irq, dev, regs, sigint, proc, result, held>>

\* reprogram_sof: pausing and saving can be skipped.
ReprogramSof ==
    /\ At("idle") /\ sc.mode = "sof" /\ dev.init /\ NoKernels /\ Counted
    /\ held => sc.skip
    /\ pc' = IF sc.skip THEN "pgm" ELSE "pause"
    /\ dev' = [dev EXCEPT !.programming = ~sc.skip \/ @]
    /\ call' = NoCall
    /\ result' = "none"
    /\ UNCHANGED <<sc, board, irq, regs, sigint, proc, held>>

\* disable_interrupts, which only Windows can fail after masking ...
Pause ==
    /\ At("pause")
    /\ \/ DisableInterrupts /\ pc' = "save" /\ UNCHANGED result
       \/ /\ dev.handler
          /\ irq' = MaskIrqs(irq)
          /\ IF sc.mode = "sof"
             THEN /\ dev' = [dev EXCEPT !.programming = FALSE]
                  /\ pc' = "idle" /\ result' = "failed"
             ELSE pc' = "cleanup" /\ UNCHANGED <<dev, result>>
    /\ UNCHANGED <<sc, board, regs, sigint, proc, call, calls, held>>

\* ... and then the registers are saved, last before programming.
Save ==
    /\ At("save")
    /\ \E ok \in BOOLEAN :
          /\ SavePciControlRegs(ok)
          /\ pc' = CASE ok /\ ~call.explicit -> "pgm"
                     [] ~ok /\ sc.mode # "sof" -> "cleanup"
                     [] OTHER -> "idle"
          /\ held' = (ok /\ call.explicit)
          /\ IF ~ok /\ sc.mode = "sof"
             THEN dev' = [dev EXCEPT !.programming = FALSE] /\ result' = "failed"
             ELSE UNCHANGED <<dev, result>>
    /\ UNCHANGED <<sc, board, sigint, proc, call, calls>>

Outcome == IF call.failed THEN "failed" ELSE "ok"

\* restore_and_resume_pcie loads the registers and waits for the uniphys; a
\* call that skips both returns quartus_pgm's outcome.
Load ==
    /\ At("load")
    /\ IF sc.mode = "sof" /\ sc.skip /\ ~call.explicit
       THEN pc' = "idle" /\ result' = Outcome /\ UNCHANGED <<regs, board>>
       ELSE /\ \E ok \in BOOLEAN : LoadPciControlRegs(ok)
            /\ pc' = IF sc.mode = "sof" THEN "resume"
                     ELSE IF call.failed THEN "cleanup" ELSE "retest"
            /\ UNCHANGED result
    /\ UNCHANGED <<sc, irq, dev, sigint, proc, call, calls, held>>

\* Variant with a mistake: a board that calibrates is taken for programmed.
ResumeOutcome(cal) == IF cal THEN "ok" ELSE "failed"

\* reprogram_sof returns the restore's failure or else the programming's.
ReprogramOutcome(cal) == IF cal THEN Outcome ELSE "failed"

Resume ==
    /\ At("resume")
    /\ \E cal \in BOOLEAN :
          /\ WaitForUniphy(cal)
          /\ result' = IF call.explicit THEN result ELSE ReprogramOutcome(cal)
    /\ dev' = [dev EXCEPT !.programming = FALSE]
    /\ held' = FALSE
    /\ pc' = "idle"
    /\ UNCHANGED <<sc, irq, regs, sigint, proc, call, calls>>

-----------------------------------------------------------------------------
(* The OpenCL build: aocl_mmd_program.                                     *)

\* reprogram opens the package; also a board that failed its tests when it
\* was opened can be programmed.
Reprogram ==
    /\ At("idle") /\ sc.mode # "sof" /\ NoKernels /\ Counted
    /\ IF sc.pkg.opens
       THEN /\ dev' = [dev EXCEPT !.programming = TRUE]
            /\ pc' = "pr" /\ result' = "none"
       ELSE pc' = pc /\ result' = "failed" /\ UNCHANGED dev
    /\ call' = NoCall
    /\ UNCHANGED <<sc, board, irq, regs, sigint, proc, held>>

\* pr_reprogram: the sections are there, the Quartus version and the base id
\* match, and the bitstream is acceptable.
PrChecks ==
    LET rbf  == ~sc.env /\ sc.pkg.rbf
        qver == rbf /\ QuartusVerTest
        hash == qver /\ PrBaseIdTest
    IN [rbf |-> rbf, qver |-> qver, hash |-> hash,
        write |-> hash /\ sc.pkg.aligned /\ VersionIdTest]

PrReprogram ==
    /\ At("pr")
    /\ call' = [call EXCEPT !.failed = TRUE, !.rbf = PrChecks.rbf,
                            !.qver = PrChecks.qver, !.hash = PrChecks.hash]
    /\ pc' = IF PrChecks.write THEN "prWrite" ELSE "prEnd"
    /\ UNCHANGED <<sc, board, irq, dev, regs, sigint, proc, result, calls, held>>

\* program_core_with_PR_file: an Arria 10 region is rewritten, a Stratix 10
\* region is frozen first ...
PrFileA10(b) == [b EXCEPT !.image = "torn"]
PrFileS10(b) == [b EXCEPT !.image = "torn", !.frozen = TRUE]

\* ... and released when the controller reports success.
PrReleased(b) == [b EXCEPT !.image = "new", !.frozen = FALSE]

\* The bitstream may be refused before anything is written.
PrWrite ==
    /\ At("prWrite")
    /\ \/ board' \in {PrFileA10(board), PrFileS10(board)} /\ pc' = "prWriting"
       \/ pc' = "prEnd" /\ UNCHANGED board
    /\ UNCHANGED <<sc, irq, main>>

\* check_kernel_region_status asks the Linux driver.
StaysFrozen(frozen) == linux /\ frozen

\* The PR controller reports success and the region is released, or it does
\* not.  A region left frozen raises an exception on Linux, which nobody
\* catches: the abort handler ends the process.  A success is tested again.
PrWritten ==
    /\ At("prWriting")
    /\ \/ \E cal \in BOOLEAN :
             /\ board.cal => cal
             /\ board' = [PrReleased(board) EXCEPT !.cal = cal]
             /\ call' = [call EXCEPT !.failed = ~cal]
             /\ pc' = "prEnd"
             /\ UNCHANGED proc
       \/ \E frozen \in BOOLEAN :
             /\ board' = [board EXCEPT !.frozen = frozen]
             /\ proc' = IF StaysFrozen(frozen) THEN "aborted" ELSE proc
             /\ pc' = "prEnd"
             /\ UNCHANGED call
    /\ UNCHANGED <<sc, irq, dev, regs, sigint, result, calls, held>>

\* Back in reprogram: PR alone must have passed every check; the other mode
\* falls back to JTAG when PR was not tried.
PrEnd ==
    LET tried == ~sc.env /\ call.rbf /\ call.hash /\ call.qver
    IN /\ At("prEnd")
       /\ IF sc.mode = "pr"
          THEN /\ pc' = "idle"
               /\ result' = IF call.failed \/ ~tried THEN "failed" ELSE "ok"
               /\ dev' = [dev EXCEPT !.programming = FALSE]
          ELSE /\ pc' = IF tried \/ call.second THEN "cleanup" ELSE "fallback"
               /\ UNCHANGED <<dev, result>>
       /\ UNCHANGED <<sc, board, irq, regs, sigint, proc, call, calls, held>>

\* find_cable_with_ISSP looks for the number just written to the board among
\* the cables; it may not find it.
FindCableWithIssp == {"own", "0"}

\* find_jtag_cable needs the register that holds that number.
FindJtagCable == IF Read32Ok THEN FindCableWithIssp ELSE {"0"}

\* The package may have no SOF, or it cannot be written to a file; without a
\* cable the default one is used.
Fallback ==
    /\ At("fallback")
    /\ \/ pc' = "cleanup" /\ UNCHANGED call
       \/ /\ sc.pkg.sof
          /\ \E cable \in FindJtagCable : call' = [call EXCEPT !.cable = cable]
          /\ pc' \in {"pause", "cleanup"}
    /\ UNCHANGED <<sc, board, irq, dev, regs, sigint, proc, result, calls, held>>

\* The new image is tested; a fast-compiled package had only the base image
\* in its SOF and goes through PR now.
Retest ==
    /\ At("retest")
    /\ \E cal \in BOOLEAN :
          /\ IF VersionIdTest THEN WaitForUniphy(cal) ELSE ~cal /\ UNCHANGED board
          /\ call' = [call EXCEPT !.failed = ~cal, !.second = TRUE]
    /\ pc' = IF sc.pkg.fast THEN "pr" ELSE "cleanup"
    /\ UNCHANGED <<sc, irq, dev, regs, sigint, proc, result, calls, held>>

Cleanup ==
    /\ At("cleanup")
    /\ dev' = [dev EXCEPT !.programming = FALSE]
    /\ pc' = IF call.failed THEN "idle" ELSE "reopen"
    /\ result' = IF call.failed THEN "failed" ELSE result
    /\ UNCHANGED <<sc, board, irq, regs, sigint, proc, call, calls, held>>

\* A programmed board is closed and opened again.
Reopen ==
    /\ At("reopen")
    /\ Discarded
    /\ DisableInterrupts
    /\ pc' = "erase"
    /\ result' = "reopen"
    /\ UNCHANGED <<sc, board, regs, sigint, call, calls, held>>

-----------------------------------------------------------------------------
MainStep == \/ Open \/ Construct \/ Erase \/ PgmBegin \/ Attempt \/ AttemptDone
            \/ PgmEnd \/ Pause \/ Save \/ Load \/ Resume \/ PrReprogram
            \/ PrWrite \/ PrWritten \/ PrEnd \/ Fallback \/ Retest \/ Cleanup
            \/ Reopen

Interrupts == Raise \/ ServiceBegin \/ ServiceEnd

Next == \/ MainStep
        \/ SetInterruptHandler \/ SetDeviceInterruptHandler \/ Close \/ Closed \/ SavePcie \/ RestorePcie
        \/ ReprogramSof \/ Reprogram
        \/ OtherProcess \/ KernelDone \/ CtrlC
        \/ Raise \/ ServiceBegin \/ ServiceEnd

Spec == Init /\ [][Next]_vars

\* The interrupt is delivered and served by the driver and the service
\* thread or signal, the call goes on; the application need not call.
FairSpec == Spec /\ WF_vars(MainStep) /\ WF_vars(Raise)
                 /\ WF_vars(ServiceBegin) /\ WF_vars(ServiceEnd)

-----------------------------------------------------------------------------
\* A programming call that reports success leaves the requested image on the
\* board, whole and, unless the caller skipped the wait, with its memory
\* calibrated: through retries, a fallback, a second PR and a reopening.  With
\* several boards on JTAG this needs the cable to have been detected
\* (reprogram_sof and reprogram).
SuccessMeansProgrammed ==
    result = "ok" /\ (sc.alone \/ call.cable = "own" \/ call.hash)
        => board.image = "new" /\ (sc.skip \/ board.cal)

\* Ctrl-C never ends the process while the chip is being rewritten or while
\* the PCI registers are saved and not yet restored (ctrl_c_handler, the
\* being_programmed flag and the ignored signal around quartus_pgm).
NeverKilledMidProgramming ==
    proc = "ctrlC" => regs # "saved" /\ pc \notin {"writing", "prWriting"}

\* A kernel that finishes is reported to the callback, unless the process
\* ends first, one kernel after another: every service of an
\* interrupt enables the next one (service_interrupt).
KernelInterruptsServed ==
    irq.pending ~> (~irq.pending \/ ~Running)

=============================================================================
