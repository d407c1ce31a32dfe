------------------------------- MODULE DlcVco -------------------------------
(***************************************************************************)
(* The acquisition program of sw/applications/test_dlc_vco/main.c: a main *)
(* sequence that launches two circular DMA channels (channel 1 feeds the  *)
(* iDACs, channel 0 streams VCO samples through the dLC into dlc_results),*)
(* sleeps until enough window/transaction interrupts have been counted,   *)
(* switches the dLC to bypass mode, sleeps until a dLC interrupt, and     *)
(* stops both channels.  The interrupt handlers run asynchronously to the *)
(* main sequence under the RISC-V rules: an interrupt is taken only while *)
(* mstatus.MIE is set and its bit in mie is set; wfi returns as soon as an*)
(* enabled interrupt is pending, whatever mstatus.MIE is.                 *)
(*                                                                         *)
(* The DMA engine and the dLC are hardware (not under src/): their        *)
(* behaviour (AdcSample) is taken from the specification.                 *)
(***************************************************************************)
EXTENDS Naturals

CONSTANTS
  WinDu,            \* adc_trans.win_du: elements written per window-done
  SizeDu,           \* adc_trans.size_d1_du = *dlc_size: samples per transaction
  WindowsToProcess, \* windows_to_process
  LevelWidthBits,   \* LC_PARAMS_LC_LEVEL_WIDTH_BY_BITS
  MaxSamples,       \* bound: samples the VCO decoder delivers in a behaviour
  ReloadCounters,   \* TRUE iff the build reloads the non-volatile flags per read
  DriverMayFail     \* TRUE iff dma_validate/load/launch may return an error

ASSUME ConstAssumption ==
  /\ WinDu \in Nat \ {0}
  /\ SizeDu \in Nat \ {0}
  /\ WindowsToProcess \in Nat
  /\ LevelWidthBits \in Nat
  /\ MaxSamples \in Nat
  /\ ReloadCounters \in BOOLEAN
  /\ DriverMayFail \in BOOLEAN

(* Interrupt sources of the program: DMA window-done (mie bit 30), DMA    *)
(* transaction-done (bit 19) and the dLC's fast external interrupt (31).  *)
Irqs == {"win", "trans", "ext"}
DmaIrqs == {"win", "trans"}

(* Locations of main().  "done" and "fail" are the two returns.          *)
Pcs == {"dac_cfg", "irq_en", "dac_launch", "gate_cfg", "adc_prep",
        "adc_launch", "w1_first", "w1_cond", "w1_clear", "w1_check",
        "w1_wfi", "w1_set", "ext_en", "widen", "bypass_en", "w2_cond",
        "w2_clear", "w2_check", "w2_wfi", "w2_set", "stop", "done", "fail"}

(* Where wfi returns to: the debug store after it in the first loop, the *)
(* break out of the second loop.                                          *)
AfterWfi == [w \in {"w1_wfi", "w2_wfi"} |-> IF w = "w1_wfi" THEN "w1_set" ELSE "stop"]

VARIABLES
  pc,                     \* location of main()
  mstatus_mie,            \* mstatus.MIE, the global interrupt enable
  mie,                    \* the set of sources enabled in the mie CSR
  pending,                \* the set of sources whose pending bit is latched
  window_intr_flag,       \* the three counters the handlers increment
  transactions_intr_flag,
  xing_intr_flag,
  cachedSum,              \* the register copy of the flags' sum (non-reloading build)
  adc_running,            \* DMA channel 0 runs its circular transaction
  dac_running,            \* DMA channel 1 runs its circular transaction
  dlvl_log_level_width,   \* dLC registers written by main()
  dlc_bypass_en,
  rd_pos,                 \* samples read in the current transaction
  wr_pos,                 \* elements written in the current window
  samples,                \* samples delivered so far (bounded by MaxSamples)
  raised,                 \* history: interrupts raised by the hardware, per source
  lost                    \* history: raises that found the pending bit already set

hw == <<adc_running, dac_running, rd_pos, wr_pos, samples>>
vars == <<pc, mstatus_mie, mie, pending, window_intr_flag, transactions_intr_flag,
          xing_intr_flag, cachedSum, dlvl_log_level_width, dlc_bypass_en,
          raised, lost, hw>>

(* The counter the handler of source s increments.                       *)
Count(s) == IF s = "win" THEN window_intr_flag
            ELSE IF s = "trans" THEN transactions_intr_flag
            ELSE xing_intr_flag

(* The value of window_intr_flag + transactions_intr_flag that main()    *)
(* reads: memory, or the copy the build keeps in a register.              *)
ObservedSum == IF ReloadCounters THEN window_intr_flag + transactions_intr_flag
               ELSE cachedSum

(* dma_validate_transaction, dma_load_transaction and dma_launch return  *)
(* DMA_CONFIG_OK (TRUE) or an error.                                      *)
DriverResults == IF DriverMayFail THEN BOOLEAN ELSE {TRUE}

TypeOK ==
  /\ pc \in Pcs
  /\ mstatus_mie \in BOOLEAN
  /\ mie \subseteq Irqs
  /\ pending \subseteq Irqs
  /\ window_intr_flag \in Nat
  /\ transactions_intr_flag \in Nat
  /\ xing_intr_flag \in Nat
  /\ cachedSum \in Nat
  /\ adc_running \in BOOLEAN
  /\ dac_running \in BOOLEAN
  /\ dlvl_log_level_width \in Nat
  /\ dlc_bypass_en \in BOOLEAN
  /\ rd_pos \in 0 .. SizeDu - 1
  /\ wr_pos \in 0 .. WinDu - 1
  /\ samples \in 0 .. MaxSamples
  /\ raised \in [Irqs -> Nat]
  /\ lost \in [Irqs -> Nat]

(* Reset: interrupts masked, nothing pending, globals zero-initialised.  *)
Init ==
  /\ pc = "dac_cfg"
  /\ mstatus_mie = FALSE
  /\ mie = {}
  /\ pending = {}
  /\ window_intr_flag = 0
  /\ transactions_intr_flag = 0
  /\ xing_intr_flag = 0
  /\ cachedSum = 0
  /\ adc_running = FALSE
  /\ dac_running = FALSE
  /\ dlvl_log_level_width = 0
  /\ dlc_bypass_en = FALSE
  /\ rd_pos = 0
  /\ wr_pos = 0
  /\ samples = 0
  /\ raised = [s \in Irqs |-> 0]
  /\ lost = [s \in Irqs |-> 0]

irq == <<mstatus_mie, mie, pending>>
flags == <<window_intr_flag, transactions_intr_flag, xing_intr_flag, cachedSum>>
regs == <<dlvl_log_level_width, dlc_bypass_en>>
hist == <<raised, lost>>
dma == <<rd_pos, wr_pos, samples>>

Goto(from, to) == pc = from /\ pc' = to

(* Where main() resumes after a handler: a trap at a wfi is taken either *)
(* just before the instruction (it still has to execute) or while the   *)
(* core sleeps in it (it has returned).                                   *)
ResumeAt(p) == IF p \in DOMAIN AfterWfi THEN {p, AfterWfi[p]} ELSE {p}

-----------------------------------------------------------------------------
(* main(), one action per statement group that changes modelled state.   *)

(* Lines 118-191: iDAC setup, dma_init and the DAC descriptor.           *)
ConfigureDac ==
  /\ Goto("dac_cfg", "irq_en")
  /\ UNCHANGED <<irq, flags, regs, hist, hw>>

(* Lines 196-197: set mstatus.MIE and the DMA (and timer) bits of mie.   *)
EnableDmaIrqs ==
  /\ Goto("irq_en", "dac_launch")
  /\ mstatus_mie' = TRUE
  /\ mie' = mie \cup DmaIrqs
  /\ UNCHANGED <<pending, flags, regs, hist, hw>>

(* Lines 206-226: validate, load and launch channel 1; any error returns *)
(* EXIT_FAILURE.                                                          *)
LaunchDac ==
  /\ pc = "dac_launch"
  /\ \E ok \in DriverResults :
       /\ pc' = IF ok THEN "gate_cfg" ELSE "fail"
       /\ dac_running' = ok
  /\ UNCHANGED <<irq, flags, regs, hist, adc_running, dma>>

(* Lines 235-309: VCO setup and the dLC parameters (level width first).  *)
ConfigureGate ==
  /\ Goto("gate_cfg", "adc_prep")
  /\ dlvl_log_level_width' = LevelWidthBits
  /\ UNCHANGED <<irq, flags, dlc_bypass_en, hist, hw>>

(* Lines 317-384: reset the two flags, build the ADC descriptor.         *)
PrepareAdc ==
  /\ Goto("adc_prep", "adc_launch")
  /\ window_intr_flag' = 0
  /\ transactions_intr_flag' = 0
  /\ UNCHANGED <<irq, xing_intr_flag, cachedSum, regs, hist, hw>>

(* Mutant of LaunchAdc: an error jumps to the common stop sequence       *)
(* instead of returning.                                                   *)
LaunchAdcErrorToStop ==
  /\ pc = "adc_launch"
  /\ \E ok \in DriverResults :
       /\ pc' = IF ok THEN "w1_first" ELSE "stop"
       /\ adc_running' = ok
  /\ UNCHANGED <<irq, flags, regs, hist, dac_running, dma>>

(* Lines 393-420: validate, load and launch channel 0.                   *)
LaunchAdc ==
  /\ pc = "adc_launch"
  /\ \E ok \in DriverResults :
       /\ pc' = IF ok THEN "w1_first" ELSE "fail"
       /\ adc_running' = ok
  /\ UNCHANGED <<irq, flags, regs, hist, dac_running, dma>>

(* Line 440, first evaluation: the flags are loaded from memory (a       *)
(* non-reloading build keeps this copy for the whole loop).               *)
Wait1Enter ==
  /\ pc = "w1_first"
  /\ cachedSum' = window_intr_flag + transactions_intr_flag
  /\ pc' = IF window_intr_flag + transactions_intr_flag < WindowsToProcess
           THEN "w1_clear" ELSE "ext_en"
  /\ UNCHANGED <<irq, window_intr_flag, transactions_intr_flag, xing_intr_flag,
                 regs, hist, hw>>

(* Line 440 again: the loop condition.                                   *)
Wait1Test ==
  /\ pc = "w1_cond"
  /\ pc' = IF ObservedSum < WindowsToProcess THEN "w1_clear" ELSE "ext_en"
  /\ UNCHANGED <<irq, flags, regs, hist, hw>>

(* Mutant of Wait1Mask: the critical section is left out, so main()     *)
(* checks and sleeps with interrupts enabled.                             *)
Wait1MaskMissing ==
  /\ Goto("w1_clear", "w1_check")
  /\ UNCHANGED <<irq, flags, regs, hist, hw>>

(* Line 441: CSR_CLEAR_BITS(mstatus, MIE).                               *)
Wait1Mask ==
  /\ Goto("w1_clear", "w1_check")
  /\ mstatus_mie' = FALSE
  /\ UNCHANGED <<mie, pending, flags, regs, hist, hw>>

(* Line 442: the re-check with interrupts masked.                        *)
Wait1Recheck ==
  /\ pc = "w1_check"
  /\ pc' = IF ObservedSum < WindowsToProcess THEN "w1_wfi" ELSE "w1_set"
  /\ UNCHANGED <<irq, flags, regs, hist, hw>>

(* Mutant of Wait1Wfi: the loop is left after the first wake-up, as the  *)
(* second loop does.                                                      *)
Wait1WfiBreak ==
  /\ pc = "w1_wfi"
  /\ pending \cap mie # {}
  /\ pc' = "ext_en"
  /\ UNCHANGED <<irq, flags, regs, hist, hw>>

(* Line 443: wfi returns once an enabled interrupt is pending.           *)
Wait1Wfi ==
  /\ pc = "w1_wfi"
  /\ pending \cap mie # {}
  /\ pc' = AfterWfi[pc]
  /\ UNCHANGED <<irq, flags, regs, hist, hw>>

(* Lines 445-446: debug store, CSR_SET_BITS(mstatus, MIE).               *)
Wait1Unmask ==
  /\ Goto("w1_set", "w1_cond")
  /\ mstatus_mie' = TRUE
  /\ UNCHANGED <<mie, pending, flags, regs, hist, hw>>

(* Lines 455-457: enable the dLC's fast interrupt.                       *)
EnableExtIrq ==
  /\ Goto("ext_en", "widen")
  /\ mstatus_mie' = TRUE
  /\ mie' = mie \cup {"ext"}
  /\ UNCHANGED <<pending, flags, regs, hist, hw>>

(* Line 467: *dlvl_log_level_width = *dlvl_log_level_width + 2.          *)
WidenLevels ==
  /\ Goto("widen", "bypass_en")
  /\ dlvl_log_level_width' = dlvl_log_level_width + 2
  /\ UNCHANGED <<irq, flags, dlc_bypass_en, hist, hw>>

(* Line 472: *dlc_bypass_en = 1.                                          *)
EnableBypass ==
  /\ Goto("bypass_en", "w2_cond")
  /\ dlc_bypass_en' = TRUE
  /\ UNCHANGED <<irq, flags, dlvl_log_level_width, hist, hw>>

(* Line 474: while (xing_intr_flag < 1); the flag is volatile.           *)
Wait2Test ==
  /\ pc = "w2_cond"
  /\ pc' = IF xing_intr_flag < 1 THEN "w2_clear" ELSE "stop"
  /\ UNCHANGED <<irq, flags, regs, hist, hw>>

(* Line 475.                                                              *)
Wait2Mask ==
  /\ Goto("w2_clear", "w2_check")
  /\ mstatus_mie' = FALSE
  /\ UNCHANGED <<mie, pending, flags, regs, hist, hw>>

(* Line 476.                                                              *)
Wait2Recheck ==
  /\ pc = "w2_check"
  /\ pc' = IF xing_intr_flag < 1 THEN "w2_wfi" ELSE "w2_set"
  /\ UNCHANGED <<irq, flags, regs, hist, hw>>

(* Lines 477-478: wfi, then break out of the loop with MIE still clear.  *)
Wait2Wfi ==
  /\ pc = "w2_wfi"
  /\ pending \cap mie # {}
  /\ pc' = AfterWfi[pc]
  /\ UNCHANGED <<irq, flags, regs, hist, hw>>

(* Lines 481-482.                                                         *)
Wait2Unmask ==
  /\ Goto("w2_set", "w2_cond")
  /\ mstatus_mie' = TRUE
  /\ UNCHANGED <<mie, pending, flags, regs, hist, hw>>

(* Lines 491-503: dma_stop_circular(0), (1), disable VCOs and iDACs,     *)
(* return EXIT_SUCCESS.                                                   *)
StopSystem ==
  /\ Goto("stop", "done")
  /\ adc_running' = FALSE
  /\ dac_running' = FALSE
  /\ UNCHANGED <<irq, flags, regs, hist, dma>>

-----------------------------------------------------------------------------
(* Interrupt handlers.  A trap needs mstatus.MIE and the source enabled; *)
(* the core clears MIE during the handler, so handlers do not nest.  The  *)
(* driver acknowledges the source (clears its pending bit).               *)
TakeTrap(s) ==
  /\ mstatus_mie
  /\ s \in pending \cap mie
  /\ pending' = pending \ {s}
  /\ pc' \in ResumeAt(pc)
  /\ UNCHANGED <<mstatus_mie, mie, cachedSum, regs, hist, hw>>

(* Mutant of dma_intr_handler_window_done: the source is not             *)
(* acknowledged, so its pending bit stays set.                            *)
WindowDoneNoAck ==
  /\ mstatus_mie
  /\ "win" \in pending \cap mie
  /\ window_intr_flag' = window_intr_flag + 1
  /\ pc' \in ResumeAt(pc)
  /\ UNCHANGED <<irq, cachedSum, regs, hist, hw, transactions_intr_flag, xing_intr_flag>>

(* Lines 83-85: if (channel == ADC_DMA) window_intr_flag++.  Only channel *)
(* 0 raises DMA interrupts (channel 1 uses DMA_TRANS_END_POLLING, win 0). *)
dma_intr_handler_window_done ==
  /\ TakeTrap("win")
  /\ window_intr_flag' = window_intr_flag + 1
  /\ UNCHANGED <<transactions_intr_flag, xing_intr_flag>>

(* Lines 87-89.                                                           *)
dma_intr_handler_trans_done ==
  /\ TakeTrap("trans")
  /\ transactions_intr_flag' = transactions_intr_flag + 1
  /\ UNCHANGED <<window_intr_flag, xing_intr_flag>>

(* Lines 91-93.                                                           *)
fic_irq_ext_peripheral ==
  /\ TakeTrap("ext")
  /\ xing_intr_flag' = xing_intr_flag + 1
  /\ UNCHANGED <<window_intr_flag, transactions_intr_flag>>

-----------------------------------------------------------------------------
(* Mutant of AdcSample: the circular restart at the end of a transaction *)
(* is missing, so the read count runs past size_d1_du.                     *)
AdcSampleNoWrap ==
  /\ adc_running
  /\ samples < MaxSamples
  /\ \E emit, cross \in BOOLEAN :
       LET fired == {s \in Irqs :
                      \/ s = "win" /\ emit /\ wr_pos + 1 = WinDu
                      \/ s = "trans" /\ rd_pos + 1 = SizeDu
                      \/ s = "ext" /\ cross /\ dlc_bypass_en}
       IN /\ pending' = pending \cup fired
          /\ raised' = [s \in Irqs |-> IF s \in fired THEN raised[s] + 1 ELSE raised[s]]
          /\ lost' = [s \in Irqs |-> IF s \in fired \cap pending THEN lost[s] + 1 ELSE lost[s]]
          /\ wr_pos' = IF emit THEN (wr_pos + 1) % WinDu ELSE wr_pos
  /\ rd_pos' = rd_pos + 1
  /\ samples' = samples + 1
  /\ UNCHANGED <<pc, mstatus_mie, mie, flags, regs, adc_running, dac_running>>

(* Hardware (from the specification).  Channel 0 reads one VCO sample;   *)
(* the dLC, with its registers as they are at this sample, may emit an    *)
(* event that the DMA writes, and in bypass mode may raise its interrupt. *)
(* Every SizeDu reads end a transaction (restarted: circular mode) and    *)
(* every WinDu writes end a window.  A raise whose pending bit is still   *)
(* set is absorbed into it.                                               *)
AdcSample ==
  /\ adc_running
  /\ samples < MaxSamples
  /\ \E emit, cross \in BOOLEAN :
       LET fired == {s \in Irqs :
                      \/ s = "win" /\ emit /\ wr_pos + 1 = WinDu
                      \/ s = "trans" /\ rd_pos + 1 = SizeDu
                      \/ s = "ext" /\ cross /\ dlc_bypass_en}
       IN /\ pending' = pending \cup fired
          /\ raised' = [s \in Irqs |-> IF s \in fired THEN raised[s] + 1 ELSE raised[s]]
          /\ lost' = [s \in Irqs |-> IF s \in fired \cap pending THEN lost[s] + 1 ELSE lost[s]]
          /\ wr_pos' = IF emit THEN (wr_pos + 1) % WinDu ELSE wr_pos
  /\ rd_pos' = (rd_pos + 1) % SizeDu
  /\ samples' = samples + 1
  /\ UNCHANGED <<pc, mstatus_mie, mie, flags, regs, adc_running, dac_running>>

-----------------------------------------------------------------------------
MainStep ==
  \/ ConfigureDac \/ EnableDmaIrqs \/ LaunchDac \/ ConfigureGate
  \/ PrepareAdc \/ LaunchAdc
  \/ Wait1Enter \/ Wait1Test \/ Wait1Mask \/ Wait1Recheck \/ Wait1Wfi \/ Wait1Unmask
  \/ EnableExtIrq \/ WidenLevels \/ EnableBypass
  \/ Wait2Test \/ Wait2Mask \/ Wait2Recheck \/ Wait2Wfi \/ Wait2Unmask
  \/ StopSystem

Handler ==
  \/ dma_intr_handler_window_done
  \/ dma_intr_handler_trans_done
  \/ fic_irq_ext_peripheral

Next == MainStep \/ Handler \/ AdcSample

(* The core keeps executing main() (weak fairness) and takes an enabled, *)
(* pending interrupt whenever mstatus.MIE is set, even if MIE is set only*)
(* intermittently (strong fairness).  The sensor may stall: AdcSample has*)
(* no fairness.                                                           *)
Spec ==
  /\ Init /\ [][Next]_vars
  /\ WF_vars(MainStep)
  /\ SF_vars(dma_intr_handler_window_done)
  /\ SF_vars(dma_intr_handler_trans_done)
  /\ SF_vars(fic_irq_ext_peripheral)

-----------------------------------------------------------------------------
(* Properties.                                                            *)

(* Every interrupt the hardware raised is accounted for: it was counted  *)
(* by its handler, is still pending, or was absorbed into a pending bit  *)
(* that was already set.  This is what the flag reset at line 351-352    *)
(* before launching channel 0 (line 417) and the handlers' acknowledge   *)
(* must preserve.                                                          *)
Accounting ==
  \A s \in Irqs :
    Count(s) + (IF s \in pending THEN 1 ELSE 0) + lost[s] = raised[s]

(* Locations before channel 0 is launched (line 417).                    *)
PreLaunch == {"dac_cfg", "irq_en", "dac_launch", "gate_cfg", "adc_prep", "adc_launch"}

(* Before channel 0 runs, no DMA interrupt has been raised, absorbed or   *)
(* left pending: what makes the flag reset of lines 351-352 safe.         *)
PreLaunchQuiet ==
  pc \in PreLaunch =>
    /\ ~adc_running
    /\ \A s \in DmaIrqs : raised[s] = 0 /\ lost[s] = 0 /\ s \notin pending

(* The inductive invariant behind Accounting.                            *)
AccountingInv == TypeOK /\ Accounting /\ PreLaunchQuiet

(* main() leaves the first wait loop (lines 440-447) only when the flags *)
(* really add up to windows_to_process: a wake-up is never taken as      *)
(* progress by itself.                                                    *)
WaitExitJustified ==
  [][pc' = "ext_en" =>
       window_intr_flag + transactions_intr_flag >= WindowsToProcess]_vars

Loop1 == {"w1_first", "w1_cond", "w1_clear", "w1_check", "w1_wfi", "w1_set"}

(* Locations after the first wait loop, "fail" excepted.                 *)
PostLoop1 == Pcs \ (PreLaunch \cup Loop1 \cup {"fail"})

(* The inductive invariant behind WaitExitJustified: inside the loop the *)
(* copy the build may keep never exceeds the flags (they only grow after *)
(* line 440 loads them), and past the loop the flags stay at the target. *)
WaitInv ==
  /\ TypeOK
  /\ pc \in Loop1 \ {"w1_first"} =>
       cachedSum <= window_intr_flag + transactions_intr_flag
  /\ pc \in PostLoop1 =>
       window_intr_flag + transactions_intr_flag >= WindowsToProcess

(* The session mode of the specification that main() is in at location *)
(* p: acquiring up to the end of the first wait loop, in bypass until the *)
(* stop of lines 491-503 has run.                                          *)
ModeAt(p) ==
  CASE p = "fail"                   -> "FAILED"
    [] p = "done"                   -> "DONE"
    [] p \in PreLaunch \cup Loop1   -> "ACQUIRING"
    [] OTHER                        -> "BYPASS"

SessionMode == ModeAt(pc)

Session == INSTANCE AcqSession
             WITH Target <- WindowsToProcess,
                  mode <- SessionMode,
                  windows <- window_intr_flag,
                  transactions <- transactions_intr_flag,
                  events <- xing_intr_flag

(* test_dlc_vco implements the Acquisition Session: its counters start at *)
(* zero and change only by one handler increment at a time (the reset of *)
(* lines 351-352 never erases a count), and main() switches to bypass     *)
(* (lines 455-472) only once the flags reach windows_to_process.          *)
SessionRefined == Session!Spec

(* No lost wake-up in the first wait loop: once the handlers have counted*)
(* windows_to_process interrupts, main() leaves the loop even if the     *)
(* sensor then stalls and no interrupt ever comes again.                  *)
EnoughCountedLeadsToExit ==
  (pc \in Loop1 /\ window_intr_flag + transactions_intr_flag >= WindowsToProcess)
    ~> (pc \notin Loop1)

(* The specification's BYPASS_ACTIVE (section 4.1): the bypass wait of   *)
(* lines 474-483 ends at the wfi of line 477 only because the dLC's gate  *)
(* event is pending; a DMA window or transaction interrupt, still enabled *)
(* in mie, must not end it (switch_to_bypass disables those sources).     *)
BypassWakesOnGateEvent ==
  [][(pc = "w2_wfi" /\ pc' # "w2_wfi") => "ext" \in pending]_vars

(* Every return of main() leaves no circular DMA transfer running.       *)
ExitStopsDma == pc \in {"done", "fail"} => ~adc_running /\ ~dac_running
(* The specification's cancellation path (section 5): the stop of lines  *)
(* 491-503 must be reachable even if the window target or the gate event *)
(* never comes, so every run of main() ends.  The wait loops of lines    *)
(* 440-447 and 474-483 have no timeout.                                  *)
FinalizeReachable == <>(pc \in {"done", "fail"})
=============================================================================
