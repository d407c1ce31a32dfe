------------------------------- MODULE DsmDlc -------------------------------
(***************************************************************************)
(* The single-channel acquisition of sw/applications/test_dsm_dlc/main.c.  *)
(* main() enables the DMA interrupts, programs the dLC and a circular DMA  *)
(* transaction from the SES filter through the dLC into the stack buffer   *)
(* dlc_results (byte-wide writes, line 150), launches it, starts the       *)
(* filter, sleeps in the masked wait loop of lines 274-280 until           *)
(* windows_to_process window/transaction interrupts have been counted, and *)
(* compares dlc_results, read as int16_t elements, with the uint8_t golden *)
(* sequence of util.c.  The channel is never stopped.                      *)
(*                                                                         *)
(* The DMA engine, the dLC and the filter are hardware (not under src/):   *)
(* DmaSample is taken from the specification.                             *)
(***************************************************************************)
EXTENDS Naturals, Sequences

CONSTANTS
  WinDu,            \* trans.win_du: elements written per window-done
  SizeDu,           \* trans.size_d1_du = *dlc_size: reads per transaction
  WindowsToProcess, \* windows_to_process
  Golden,           \* goldenTruthSES, a sequence of bytes
  BufBytes,         \* sizeof dlc_results in bytes
  DlcBytes,         \* the encoded events the dLC may emit (one byte each)
  StackBytes,       \* the values an uninitialised stack byte may hold
  MaxSamples,       \* bound: samples the filter delivers in a behaviour
  DriverMayFail     \* TRUE iff dma_validate/load/launch may return an error

Bytes == 0 .. 255

ASSUME DsmAssumption ==
  /\ WinDu \in Nat \ {0}
  /\ SizeDu \in Nat \ {0}
  /\ WindowsToProcess \in Nat
  /\ Golden \in Seq(Bytes)
  /\ BufBytes \in Nat
  /\ 2 * Len(Golden) <= BufBytes
  /\ SizeDu <= BufBytes
  /\ DlcBytes \subseteq Bytes
  /\ StackBytes \subseteq Bytes /\ StackBytes # {}
  /\ MaxSamples \in Nat
  /\ DriverMayFail \in BOOLEAN

Irqs == {"win", "trans"}

(* Locations of main().  "ok" and "failed" are its two returns.          *)
Pcs == {"irq_en", "cfg", "load", "launch", "filter", "w_cond", "w_clear",
        "w_check", "w_wfi", "w_set", "cmp", "ok", "failed"}

Loop == {"w_cond", "w_clear", "w_check", "w_wfi", "w_set"}

VARIABLES
  pc,                     \* location of main()
  mstatus_mie,            \* mstatus.MIE
  mie,                    \* sources enabled in mie
  pending,                \* latched pending bits
  window_intr_flag,       \* volatile counters of the two handlers
  transactions_intr_flag,
  dma_running,            \* the circular transaction runs
  filter_on,              \* the SES filter produces samples
  rd_pos,                 \* reads in the current transaction
  wr_pos,                 \* writes in the current window
  wr_addr,                \* next byte of dlc_results the DMA writes
  samples,                \* samples delivered so far (bounded)
  dlc_results,            \* the buffer, byte by byte
  i,                      \* the validation loop's index
  errors,                 \* the validation's mismatch count
  raised,                 \* history: interrupts raised per source
  lost                    \* history: raises absorbed by a set pending bit

dma == <<dma_running, filter_on, rd_pos, wr_pos, wr_addr, samples, dlc_results>>
cnt == <<window_intr_flag, transactions_intr_flag>>
hist == <<raised, lost>>
vars == <<pc, mstatus_mie, mie, pending, cnt, i, errors, hist, dma>>

Sum == window_intr_flag + transactions_intr_flag

(* The counter the handler of source s increments.                       *)
Count(s) == IF s = "win" THEN window_intr_flag ELSE transactions_intr_flag

DriverResults == IF DriverMayFail THEN BOOLEAN ELSE {TRUE}

(* dlc_results[k] as main() reads it: a little-endian int16_t built from *)
(* bytes 2k and 2k+1 of the buffer.                                       *)
Int16(lo, hi) == IF lo + 256 * hi >= 32768 THEN lo + 256 * hi - 65536
                 ELSE lo + 256 * hi

Element(k) == Int16(dlc_results[2 * k], dlc_results[2 * k + 1])

Goto(from, to) == pc = from /\ pc' = to

ResumeAt(p) == IF p = "w_wfi" THEN {"w_wfi", "w_set"} ELSE {p}

TypeOK ==
  /\ pc \in Pcs
  /\ mstatus_mie \in BOOLEAN
  /\ mie \subseteq Irqs
  /\ pending \subseteq Irqs
  /\ window_intr_flag \in Nat
  /\ transactions_intr_flag \in Nat
  /\ dma_running \in BOOLEAN
  /\ filter_on \in BOOLEAN
  /\ rd_pos \in 0 .. SizeDu - 1
  /\ wr_pos \in 0 .. WinDu - 1
  /\ wr_addr \in 0 .. SizeDu - 1
  /\ samples \in 0 .. MaxSamples
  /\ dlc_results \in [0 .. BufBytes - 1 -> Bytes]
  /\ i \in 0 .. Len(Golden)
  /\ errors \in 0 .. Len(Golden)
  /\ raised \in [Irqs -> Nat]
  /\ lost \in [Irqs -> Nat]

(* Reset; dlc_results is an uninitialised local array (line 87).          *)
Init ==
  /\ pc = "irq_en"
  /\ mstatus_mie = FALSE
  /\ mie = {}
  /\ pending = {}
  /\ window_intr_flag = 0
  /\ transactions_intr_flag = 0
  /\ dma_running = FALSE
  /\ filter_on = FALSE
  /\ rd_pos = 0
  /\ wr_pos = 0
  /\ wr_addr = 0
  /\ samples = 0
  /\ dlc_results \in [0 .. BufBytes - 1 -> StackBytes]
  /\ i = 0
  /\ errors = 0
  /\ raised = [s \in Irqs |-> 0]
  /\ lost = [s \in Irqs |-> 0]

-----------------------------------------------------------------------------
(* main().                                                                *)

(* Lines 83-84: MIE and the DMA window/transaction bits of mie.          *)
EnableIrqs ==
  /\ Goto("irq_en", "cfg")
  /\ mstatus_mie' = TRUE
  /\ mie' = Irqs
  /\ UNCHANGED <<pending, cnt, i, errors, hist, dma>>

(* Lines 93-193: dLC registers and the descriptor; the flags are reset at*)
(* lines 164-165, with interrupts already enabled.                        *)
PrepareDma ==
  /\ Goto("cfg", "load")
  /\ window_intr_flag' = 0
  /\ transactions_intr_flag' = 0
  /\ UNCHANGED <<mstatus_mie, mie, pending, i, errors, hist, dma>>

(* Lines 199-213: dma_init, validate and load; an error returns.         *)
LoadDma ==
  /\ pc = "load"
  /\ \E ok \in DriverResults : pc' = IF ok THEN "launch" ELSE "failed"
  /\ UNCHANGED <<mstatus_mie, mie, pending, cnt, i, errors, hist, dma>>

(* Lines 221-225: dma_launch.                                             *)
LaunchDma ==
  /\ pc = "launch"
  /\ \E ok \in DriverResults :
       /\ pc' = IF ok THEN "filter" ELSE "failed"
       /\ dma_running' = ok
  /\ UNCHANGED <<mstatus_mie, mie, pending, cnt, i, errors, hist,
                 filter_on, rd_pos, wr_pos, wr_addr, samples, dlc_results>>

(* Lines 236-252: program and start the SES filter.                      *)
StartFilter ==
  /\ Goto("filter", "w_cond")
  /\ filter_on' = TRUE
  /\ UNCHANGED <<mstatus_mie, mie, pending, cnt, i, errors, hist,
                 dma_running, rd_pos, wr_pos, wr_addr, samples, dlc_results>>

(* Line 274: the loop condition (the flags are volatile).                *)
WaitTest ==
  /\ pc = "w_cond"
  /\ pc' = IF Sum < WindowsToProcess THEN "w_clear" ELSE "cmp"
  /\ UNCHANGED <<mstatus_mie, mie, pending, cnt, i, errors, hist, dma>>

(* Mutant of WaitMask: no critical section around check and wfi.         *)
WaitMaskMissing ==
  /\ Goto("w_clear", "w_check")
  /\ UNCHANGED <<mstatus_mie, mie, pending, cnt, i, errors, hist, dma>>

(* Line 275.                                                              *)
WaitMask ==
  /\ Goto("w_clear", "w_check")
  /\ mstatus_mie' = FALSE
  /\ UNCHANGED <<mie, pending, cnt, i, errors, hist, dma>>

(* Line 276.                                                              *)
WaitRecheck ==
  /\ pc = "w_check"
  /\ pc' = IF Sum < WindowsToProcess THEN "w_wfi" ELSE "w_set"
  /\ UNCHANGED <<mstatus_mie, mie, pending, cnt, i, errors, hist, dma>>

(* Mutant of WaitWfi: the loop is left after the first wake-up, as the   *)
(* bypass loop of test_dlc_vco does.                                      *)
WaitWfiBreak ==
  /\ pc = "w_wfi"
  /\ pending \cap mie # {}
  /\ pc' = "cmp"
  /\ UNCHANGED <<mstatus_mie, mie, pending, cnt, i, errors, hist, dma>>

(* Line 277.                                                              *)
WaitWfi ==
  /\ pc = "w_wfi"
  /\ pending \cap mie # {}
  /\ pc' = "w_set"
  /\ UNCHANGED <<mstatus_mie, mie, pending, cnt, i, errors, hist, dma>>

(* Line 279.                                                              *)
WaitUnmask ==
  /\ Goto("w_set", "w_cond")
  /\ mstatus_mie' = TRUE
  /\ UNCHANGED <<mie, pending, cnt, i, errors, hist, dma>>

(* Lines 292-299: one iteration of the comparison loop.                  *)
Compare ==
  /\ pc = "cmp"
  /\ i < Len(Golden)
  /\ errors' = IF Element(i) # Golden[i + 1] THEN errors + 1 ELSE errors
  /\ i' = i + 1
  /\ UNCHANGED <<pc, mstatus_mie, mie, pending, cnt, hist, dma>>

(* Lines 310-316: EXIT_FAILURE iff a mismatch was counted.               *)
Report ==
  /\ pc = "cmp"
  /\ i = Len(Golden)
  /\ pc' = IF errors # 0 THEN "failed" ELSE "ok"
  /\ UNCHANGED <<mstatus_mie, mie, pending, cnt, i, errors, hist, dma>>

-----------------------------------------------------------------------------
(* The two handlers (lines 59-65): taken with MIE set and the source     *)
(* pending and enabled; the driver acknowledges the source.               *)
TakeTrap(s) ==
  /\ mstatus_mie
  /\ s \in pending \cap mie
  /\ pending' = pending \ {s}
  /\ pc' \in ResumeAt(pc)
  /\ UNCHANGED <<mstatus_mie, mie, i, errors, hist, dma>>

(* Mutant of dma_intr_handler_trans_done: the handler counts the event   *)
(* but the source is not acknowledged.                                    *)
TransDoneNoAck ==
  /\ mstatus_mie
  /\ "trans" \in pending \cap mie
  /\ transactions_intr_flag' = transactions_intr_flag + 1
  /\ pc' \in ResumeAt(pc)
  /\ UNCHANGED <<mstatus_mie, mie, pending, window_intr_flag, i, errors, hist, dma>>

(* Lines 59-61.                                                           *)
dma_intr_handler_window_done ==
  /\ TakeTrap("win")
  /\ window_intr_flag' = window_intr_flag + 1
  /\ UNCHANGED transactions_intr_flag

(* Lines 63-65.                                                           *)
dma_intr_handler_trans_done ==
  /\ TakeTrap("trans")
  /\ transactions_intr_flag' = transactions_intr_flag + 1
  /\ UNCHANGED window_intr_flag

-----------------------------------------------------------------------------
(* Mutant of DmaSample: the destination is not rewound when the circular *)
(* transaction restarts.                                                  *)
DmaSampleNoRewind ==
  /\ dma_running /\ filter_on
  /\ samples < MaxSamples
  /\ \E emit \in BOOLEAN, b \in DlcBytes :
       LET fired == {s \in Irqs : \/ s = "win" /\ emit /\ wr_pos + 1 = WinDu
                                  \/ s = "trans" /\ rd_pos + 1 = SizeDu}
       IN /\ pending' = pending \cup fired
          /\ raised' = [s \in Irqs |-> IF s \in fired THEN raised[s] + 1 ELSE raised[s]]
          /\ lost' = [s \in Irqs |-> IF s \in fired \cap pending THEN lost[s] + 1 ELSE lost[s]]
          /\ dlc_results' = IF emit THEN [dlc_results EXCEPT ![wr_addr] = b]
                            ELSE dlc_results
          /\ wr_pos' = IF emit THEN (wr_pos + 1) % WinDu ELSE wr_pos
          /\ wr_addr' = IF emit THEN wr_addr + 1 ELSE wr_addr
  /\ rd_pos' = IF rd_pos + 1 = SizeDu THEN 0 ELSE rd_pos + 1
  /\ samples' = samples + 1
  /\ UNCHANGED <<pc, mstatus_mie, mie, cnt, i, errors, dma_running, filter_on>>

-----------------------------------------------------------------------------
(* Hardware (from the specification).  One filter output is read; the   *)
(* dLC may turn it into one encoded byte, which the DMA writes at the     *)
(* next byte of dlc_results.  The circular transaction restarts after     *)
(* SizeDu reads, from the start of the buffer.  Window-done counts writes.*)
(* A raise whose pending bit is set is absorbed.                          *)
DmaSample ==
  /\ dma_running /\ filter_on
  /\ samples < MaxSamples
  /\ \E emit \in BOOLEAN, b \in DlcBytes :
       LET fired == {s \in Irqs : \/ s = "win" /\ emit /\ wr_pos + 1 = WinDu
                                  \/ s = "trans" /\ rd_pos + 1 = SizeDu}
       IN /\ pending' = pending \cup fired
          /\ raised' = [s \in Irqs |-> IF s \in fired THEN raised[s] + 1 ELSE raised[s]]
          /\ lost' = [s \in Irqs |-> IF s \in fired \cap pending THEN lost[s] + 1 ELSE lost[s]]
          /\ dlc_results' = IF emit THEN [dlc_results EXCEPT ![wr_addr] = b]
                            ELSE dlc_results
          /\ wr_pos' = IF emit THEN (wr_pos + 1) % WinDu ELSE wr_pos
          /\ wr_addr' = IF rd_pos + 1 = SizeDu THEN 0
                        ELSE IF emit THEN wr_addr + 1 ELSE wr_addr
  /\ rd_pos' = IF rd_pos + 1 = SizeDu THEN 0 ELSE rd_pos + 1
  /\ samples' = samples + 1
  /\ UNCHANGED <<pc, mstatus_mie, mie, cnt, i, errors, dma_running, filter_on>>

-----------------------------------------------------------------------------
MainStep ==
  \/ EnableIrqs \/ PrepareDma \/ LoadDma \/ LaunchDma \/ StartFilter
  \/ WaitTest \/ WaitMask \/ WaitRecheck \/ WaitWfi \/ WaitUnmask
  \/ Compare \/ Report

Handler == dma_intr_handler_window_done \/ dma_intr_handler_trans_done

Next == MainStep \/ Handler \/ DmaSample

(* As in DlcVco: the core runs main() and takes a pending enabled        *)
(* interrupt whenever MIE is set; the filter may stall.                   *)
Spec ==
  /\ Init /\ [][Next]_vars
  /\ WF_vars(MainStep)
  /\ SF_vars(dma_intr_handler_window_done)
  /\ SF_vars(dma_intr_handler_trans_done)

-----------------------------------------------------------------------------
(* Properties.                                                            *)

(* The inductive strengthening of TypeOK: the DMA never writes more      *)
(* bytes than it has read in the current transaction, and the validation  *)
(* counts at most one mismatch per compared element.                      *)
TypeInv ==
  /\ TypeOK
  /\ wr_addr <= rd_pos
  /\ errors <= i

(* Every raised interrupt is counted, pending or absorbed: the flag reset *)
(* at lines 164-165, done with interrupts already enabled (line 83-84),   *)
(* and the handlers' acknowledge never lose or invent one.                *)
Accounting ==
  \A s \in Irqs : Count(s) + (IF s \in pending THEN 1 ELSE 0) + lost[s] = raised[s]

(* Locations before the channel is launched (line 221).                 *)
PreLaunch == {"irq_en", "cfg", "load", "launch"}

(* Before the launch no interrupt has been raised, absorbed or left      *)
(* pending: what makes the flag reset of lines 164-165 safe.              *)
PreLaunchQuiet ==
  pc \in PreLaunch =>
    /\ ~dma_running
    /\ \A s \in Irqs : raised[s] = 0 /\ lost[s] = 0 /\ s \notin pending

(* The inductive invariant behind Accounting.                            *)
AccountingInv == TypeInv /\ Accounting /\ PreLaunchQuiet

(* The wait of lines 274-280 is left only once the handlers have counted *)
(* windows_to_process interrupts (the spec's "no spurious progress").     *)
WaitExitJustified ==
  [][(pc \in Loop /\ pc' = "cmp") => Sum >= WindowsToProcess]_vars

(* No lost wake-up: once enough interrupts are counted, main() reaches   *)
(* the validation even if the filter then stalls.                         *)
EnoughCountedLeadsToExit ==
  (pc \in Loop /\ Sum >= WindowsToProcess) ~> (pc = "cmp")

(* The spec's finalize: circular mode is stopped before the buffer is    *)
(* compared, so the comparison of lines 292-299 reads a frozen buffer.    *)
ValidatesFrozenBuffer == pc = "cmp" => ~dma_running

(* The spec's integrity round-trip: when the encoded bytes in            *)
(* dlc_results are exactly the golden sequence, the check of lines        *)
(* 290-316 reports success.                                               *)
IntegrityRoundTrip ==
  (pc \in {"ok", "failed"} /\ i = Len(Golden)
     /\ \A k \in 1 .. Len(Golden) : dlc_results[k - 1] = Golden[k])
    => pc = "ok"
=============================================================================
