# Formal models of the HEEPidermis acquisition firmware

This directory holds TLA+ models of the firmware under `src/sw`, the TLC
configurations that check them on small instances, and TLAPS proofs of the
main safety properties for every value of the constants.

## 1. The system

The repository is firmware for a mixed-signal SoC.  Most of it is thin
register wrappers and short peripheral tests.  The part where ordering and
concurrency matter is the **interrupt-synchronised circular-DMA acquisition
pipeline**, which appears twice:

* `test_dlc_vco/main.c`.  Two DMA channels run concurrently:
  - channel 1 streams a stimulus to the iDACs in circular mode with polling (no interrupts);
  - channel 0 reads the VCO decoder through the dLC level-crossing encoder into `dlc_results`, with window-done and transaction-done interrupts.

  `main()` sleeps until `window_intr_flag + transactions_intr_flag` reaches `windows_to_process`. It then widens the dLC levels, enables dLC bypass and its fast interrupt, sleeps until a dLC event, and stops both channels.
* `test_dsm_dlc/main.c`.  One channel reads the SES or CIC filter through the dLC. It uses the same masked wait loop, then compares `dlc_results` with a golden sequence.

### Components and their state

| Component | State | Operations |
|---|---|---|
| Acquisition coordinator (`main` of `test_dlc_vco`) | program location; `mstatus.MIE`; `mie`; dLC registers `dlvl_log_level_width` and `dlc_bypass_en` | configure DAC, enable IRQs, launch DAC DMA, configure dLC, prepare ADC descriptor (reset flags), launch ADC DMA, wait loop 1, enable ext IRQ, widen levels, enable bypass, wait loop 2, stop |
| Interrupt flags and handlers | `window_intr_flag`, `transactions_intr_flag` (plain `int32_t`), `xing_intr_flag` (`volatile`) | `dma_intr_handler_window_done`, `dma_intr_handler_trans_done`, `fic_irq_ext_peripheral`: each increments its counter |
| Interrupt controller (RISC-V core) | pending bits | trap when MIE is set and a pending source is enabled; `wfi` returns once a pending source is enabled, whatever MIE is |
| DMA engine and dLC (hardware, not in `src/`) | read position in the transaction, write position in the window, running flags | per sample: read; maybe emit an event (written to memory); raise window-done every `win_du` writes and transaction-done every `size_d1_du` reads; in bypass mode raise the dLC interrupt |
| DSM/dLC test (`test_dsm_dlc`) | same flags (volatile), `dlc_results`, `errors` | same wait loop, then element-wise validation |
| SES filter test | static `prev_val` of `detect_rising_edge`, output index `i` | poll status, read an output on each rising edge of the ready bit |
| Timer and GPIO wake-up tests | `intr_flag`, `fast_gpio_1_flag` | `while(flag==0) wfi;` with interrupts enabled |
| Register drivers, register maps, smoke tests | none of their own | one MMIO access per function; straight-line tests |

### How they interact, and what is hard

`main()` and the handlers share the counters.  Handlers preempt `main()` at any instruction where MIE is set. The hardware raises interrupts at any time once a channel runs.  The hard behaviours are:

* **Lost wake-up** (lines 440-447).  An interrupt between the loop test and `wfi` must still end the sleep.  The code clears MIE (441), re-checks (442) and sleeps with MIE clear.  On RISC-V `wfi` still returns on a pending enabled source, and the handler runs when MIE is set again at 446.
* **Non-volatile counters** (lines 74-75).  A build may hoist the sum out of the loop and never see an increment.
* **Coalescing**.  Each source has one pending bit.  A second completion before the handler runs is absorbed.  The comment at lines 95-98 says that the windows are large enough for this not to happen.  The model's sampling is untimed, so such an absorption is always reachable in it, whatever the code does.  The project therefore records it (in `lost`) and checks no property against it.
* **Bypass wait** (lines 474-483).  The loop `break`s after the first `wfi`.  The DMA sources are still enabled, so any DMA interrupt ends it.
* **Error exits** (lines 206-226, 393-420).  A failure after the DAC channel was launched returns with it running.
* **Flag reset ordering** (351-352).  The reset happens after interrupts were enabled (196).  It is safe only because channel 0 starts later (417).

### What makes each component correct

* Every raised interrupt is counted, still pending, or absorbed into an already-set bit (nothing invented, nothing silently erased by the reset).  A raise absorbed by a set bit is booked in `lost`, so this property checks the order of the flag reset and the launch, not coalescing.
* The first wait is left only when the counters really reach the target. The spec calls this "no spurious progress".
* No lost wake-up: once the target is counted, `main()` leaves the loop, even if the sensor stalls.
* The bypass wait is ended only by a dLC gate event, not by a DMA interrupt left enabled (the spec's BYPASS_ACTIVE before DONE).
* Every exit leaves no circular transfer running.

## 2. Modules

| Module | Models | Status |
|---|---|---|
| `DlcVco.tla` | `test_dlc_vco/main.c`: `main()`, the three handlers, the RISC-V trap rules, and channel 0 with the dLC (from the spec) | done |
| `MCDlcVco.tla` | constants for TLC | done |
| `DlcVco_proofs.tla` | TLAPS proofs about `DlcVco` | done |
| `DsmDlc.tla` | `test_dsm_dlc/main.c`: single-channel acquisition, the wait loop, and validation against the golden sequence | done |
| `MCDsmDlc.tla` | constants for TLC | done |
| `DsmDlc_proofs.tla` | TLAPS proofs about `DsmDlc` | done |
| `AcqSession.tla` | the spec's Acquisition Session (abstract): modes ACQUIRING, BYPASS, DONE, FAILED and three counters that only handlers increment; `DlcVco` implements it (`SessionRefined`); the lemma `TargetKeptHolds` | done |
| `WfiWait.tla` | `test_timers/main.c` and `test_gpio_ao/main.c`: the unmasked `while(flag==0) wfi` waits, their handlers and the driver calls before them | done |
| `MCWfiWait.tla` | constants for TLC | done |
| `WfiWait_proofs.tla` | TLAPS proofs about `WfiWait` | done |
| `SesPoll.tla` | `test_SES_filter`: `basic_test`, `extended_test` and `detect_rising_edge`, against the filter's data-valid strobe | done |
| `MCSesPoll.tla` | constants for TLC | done |
| `SesPoll_proofs.tla` | TLAPS proofs about `SesPoll` | done |

### `DlcVco`: state and actions against the code

* Variables:
  - `pc` is the location in `main()`;
  - `mstatus_mie`, `mie` and `pending` are the CSRs and the pending bits;
  - the three counters keep the source's names;
  - `cachedSum` is the register copy a non-reloading build keeps;
  - `adc_running` and `dac_running` are the channels;
  - `dlvl_log_level_width` and `dlc_bypass_en` are the dLC registers;
  - `rd_pos`, `wr_pos` and `samples` are the hardware positions, and `samples` is bounded;
  - `raised` and `lost` are history variables that count interrupts raised and absorbed, per source.
* Each action of `main()` is one statement group, named by what it does.  `PROJECT.json` ("map") gives its lines.  Debug stores, prints and configuration of descriptor fields that no property distinguishes are folded into the surrounding action.
* The two wait loops are split at every point where an interrupt can change what happens next: loop test, MIE clear, re-check, `wfi`, MIE set.  The first evaluation of the loop test (`Wait1Enter`) loads the counters; a non-reloading build (`ReloadCounters = FALSE`) uses that copy afterwards.
* `wfi` returns when `pending ∩ mie ≠ {}`.  A trap taken at a `wfi` location resumes either before the instruction or after it (`ResumeAt`).  This lets the model express a sleep that an earlier interrupt already "used".
* A handler is one atomic action: MIE is set, the source is pending and enabled, the pending bit is acknowledged, and the counter is incremented.  The core clears MIE during a trap, so handlers do not nest.
* `AdcSample` (spec-modelled) is one sample of channel 0:
  - the read position advances and wraps at `size_d1_du`, raising transaction-done;
  - the dLC may emit an event, whose write advances the window position and raises window-done at `win_du`;
  - in bypass mode the dLC may raise its interrupt;
  - a raise whose bit is already set is counted in `lost`.
* Driver results (`dma_validate_transaction`, `dma_load_transaction`, `dma_launch`) are a nondeterministic choice in `DriverResults` when `DriverMayFail`.
* The timer interrupt (enabled at line 197, used only by the non-simulation wait at 424-428) is left out.  Its handler acknowledges itself and changes no counter; it can only add wake-ups, which the loops re-check.

### `DsmDlc`: state and actions against the code

* The variables are those of `DlcVco` without the DAC channel and the dLC registers, plus:
  - `filter_on`: the SES/CIC filter started at line 251 or 263;
  - `wr_addr`: the byte address of the next DMA write into `dlc_results`;
  - `dlc_results`: the buffer as a function from byte addresses to bytes.  It starts with arbitrary `StackBytes`, because it is an uninitialised local array (line 87);
  - `i` and `errors`: the comparison loop.
* Actions, in the order of `main()`:
  `EnableIrqs` (83-84), `PrepareDma` (the flag reset at 164-165 and descriptor setup), `LoadDma` and `LaunchDma` (driver calls with error exits), `StartFilter`, then the wait loop split as in `DlcVco` (`WaitTest`, `WaitMask`, `WaitRecheck`, `WaitWfi`, `WaitUnmask`).  After it come `Compare`, one iteration of the loop at 292-299, and `Report` (310-316).
* `Compare` reads element `i` of the `int16_t` array: bytes `2i` and `2i+1`, little-endian, signed (`Element`, `Int16`).  The golden values are `uint8_t`.
* `DmaSample` (spec-modelled) reads one word.  The dLC may emit one byte, which is written at `wr_addr` (byte-wide, line 150).  Window-done is raised every `WinDu` writes.  Transaction-done is raised, and the destination rewound, every `SizeDu` reads.

### `AcqSession` and the refinement mapping

`AcqSession` is the specification's Session (sections 3 and 4.1), with no
code of its own.  Its variables are `mode` and the window, transaction and
gate-event counts.  The counts start at zero and each handler step adds one.
The Coordinator moves the mode ACQUIRING -> BYPASS only once
`windows + transactions >= Target`, then BYPASS -> DONE, or ACQUIRING ->
FAILED on a configuration or launch error.  The specification's BYPASS_ARMED
and BYPASS_ACTIVE are merged: the code stops after any wake-up of the bypass
wait, which the `dlc_bypass_break` violation run reports separately.

`DlcVco` instantiates it as `Session`:

* `Target` is `WindowsToProcess`;
* the mode is `ModeAt(pc)`: ACQUIRING up to the end of the first wait loop, BYPASS from line 455 up to the stop, DONE after `StopSystem`, FAILED at the error returns;
* the counters are the three flags.

`SessionRefined == Session!Spec` is checked as a property.

### `WfiWait`: state and actions against the code

The two programs share one module, and `Program` is chosen in `Init`.
`SourcesOf[Program]` is the list of wake-up phases:

* four timers for `test_timers` (lines 83-143);
* one GPIO for `test_gpio_ao`.

* Variables:
  - `pc` and `phase` locate `main()`;
  - `flag` is `intr_flag` or `fast_gpio_1_flag`;
  - `cached` is the register copy a non-reloading build keeps (`reload` is the build, chosen in `Init`);
  - `mstatus_mie` and `mie` are the CSRs;
  - `src_en` is the set of sources whose peripheral interrupt is enabled;
  - `armed` and `expired` are the timers or GPIO lines started and asserted;
  - `served` is a history of handler runs per source.
* Actions:
  - `TimerInit` and `GpioInit` (with its `-1` return);
  - `EnableIrq` (MIE and the phase's mie bit);
  - `TimerArm` (lines 90-93);
  - `GpioConfigure` and `GpioIrqEnable` (the driver calls of lines 50-66 with their error returns);
  - `GpioWrite`;
  - `ResetFlag`;
  - `LoopEnter` and `LoopTest` (the loop test, before and after a wake-up; `LeaveOrSleep` goes to the next phase or the end);
  - `Wfi`.
* `Handler(s)` (timers 24-58, gpio 21-29) needs MIE and an asserted, enabled source.  It disables the source and sets the flag.  A trap at a `wfi` resumes before or after it (`ResumeAt`).
* `Expire(s)` is the hardware asserting an armed line (spec-modelled).
* Nothing masks MIE around the test, and that is the point of the model: an interrupt between the test and the `wfi` leaves nothing to wake the core.

### `SesPoll`: state and actions against the code

* Variables:
  - `test` is `basic` or `extended`, chosen by `main()`;
  - `strobe_seen` is the filter timing, chosen in `Init` from `StrobeModes`: whether each data-valid level lasts until the loop has polled it once;
  - `prev_val` is the static of `detect_rising_edge`;
  - `i` and `ses_output` are the loop index and the array (outputs identified by their rank 1, 2, ...);
  - `control`, `valid` and `produced` are the filter's control bit, data-valid bit and output in the data register;
  - `seen` says whether the current level has been polled.
* Actions:
  - `StartFilter` (lines 19-34);
  - `ReadyWait`, the busy-wait for status `0b11`, which does not go through `detect_rising_edge`;
  - `Poll`: the loop test, then one status read through `detect_rising_edge` (`RisingEdge`).  On an edge, `basic` goes to `ReadOutput` and `extended` counts the edge;
  - `ReadOutput` (lines 50-51);
  - `Compare`: stop, then compare with the ground truth, which is the filter's own sequence 1, 2, ...
* The filter is hardware (spec-modelled):
  - `Produce` puts the next output in the register and raises data-valid;
  - `Drop` lowers it.

## 3. Runs

All runs use `MCDlcVco` with `WinDu = 2`, `SizeDu = 3`, `WindowsToProcess = 2`, `MaxSamples = 7`.  These are the smallest values where:

* both interrupt kinds fire, and a second raise can meet a set pending bit;
* a window and a transaction end can coincide;
* reaching the target needs more than one interrupt;
* samples remain after the first loop for the bypass phase.

The code's 50/64/7 add only repetitions of the same pattern.

Deadlock checking is off: `main()` really returns (at `done` or `fail`), and the sensor may stall.

| Run | Expect | Properties | Shows |
|---|---|---|---|
| `dlc_safety` | pass | `TypeOK`, `Accounting`, `WaitExitJustified`, `EnoughCountedLeadsToExit`, `SessionRefined` | with driver failures possible, interrupts are conserved, the first loop is left only at the target, the masked re-check-then-`wfi` has no lost wake-up, and `test_dlc_vco` implements the Acquisition Session |
| `dlc_bypass_break` | violation | `BypassWakesOnGateEvent` | a DMA interrupt, still enabled in `mie`, wakes the `wfi` of line 477 with no gate event pending, and the `break` of line 478 goes on to the stop.  When `EnableExtIrq` leaves only the dLC source in `mie`, as the spec's `switch_to_bypass` requires, the property holds. |
| `dlc_nonvolatile` | violation | `EnoughCountedLeadsToExit` | a build that hoists the non-volatile counters sleeps forever |
| `dlc_error_exit` | violation | `ExitStopsDma` | a failing ADC launch returns with the DAC DMA running |
| `dlc_stalled_sensor` | violation | `FinalizeReachable` | a sensor that stalls leaves `main()` in the first `wfi` forever; the spec requires `finalize` to stay reachable |

`DsmDlc` runs use `MCDsmDlc`:

* `WinDu = 2`, `SizeDu = 3`, `WindowsToProcess = 2`, `MaxSamples = 5`;
* the golden sequence `<<61, 101, 213>>` of `util.c`;
* a 6-byte buffer: three `int16_t` elements;
* emitted bytes drawn from the golden values;
* stack garbage drawn from `{0, 255}`.

These bounds let the DMA write the golden bytes in order and let a transaction restart overwrite them.

| Run | Expect | Properties | Shows |
|---|---|---|---|
| `dsm_safety` | pass | `TypeOK`, `Accounting`, `WaitExitJustified`, `EnoughCountedLeadsToExit` | interrupts are conserved across the flag reset, the loop is left only at the target, and no wake-up is lost |
| `dsm_running_dma` | violation | `ValidatesFrozenBuffer` | the comparison runs with the circular channel still writing (the spec's `finalize` stops it first) |
| `dsm_roundtrip` | violation | `IntegrityRoundTrip` | bytes equal to the golden sequence give three errors: the `int16_t` buffer is written bytewise and compared with `uint8_t` values |

`WfiWait` runs use `MCWfiWait`:

* the code's four timer sources and one GPIO source;
* `MaxServed = 2`, a bound on the history counter.  A handler disables its own source and nothing enables it again, so each source is served at most once and the bound never cuts a run.

| Run | Expect | Properties | Shows |
|---|---|---|---|
| `wfi_safety` | pass | `TypeOK`, `WakeJustified` | for both programs, both builds and failing GPIO drivers, every wait ends only after its own handler ran |
| `wfi_gpio_hang` | violation | `Termination` | for either build of the flag, the GPIO interrupt taken between the test and `wfi` leaves the core asleep forever |

The `SesPoll` run uses `MCSesPoll`:

* `NUMBER_OUTPUT = 5`, the code's `161 / 32`;
* at most 7 outputs, so a loop that misses outputs can still finish;
* both tests;
* both filter timings.

| Run | Expect | Properties | Shows |
|---|---|---|---|
| `ses_safety` | pass | `TypeOK`, `ReadsMonotonic`, `ReadsInOrder`, `BasicVerdict`, `Termination` | whatever the timing, no output is read twice or out of order; with every level polled once, exactly outputs 1..5 are read, `basic_test` returns 0, and the test returns |

`ReadsInOrder`, `BasicVerdict` and `Termination` are stated for `strobe_seen` only.  With shorter strobes the loop misses outputs, which is what the hazard on `util.c:17` describes.

Fairness (`DlcVco` and `DsmDlc`): `WF` on `main()`'s steps, because the core keeps executing.  `SF` on each handler, because the core takes a pending, enabled interrupt whenever MIE is set, even if MIE is set only intermittently (as in the wait loop).  The sensor (`AdcSample`) has no fairness: the code must not rely on it, and the liveness property is stated relative to what has been counted.

Every property of a passing run has a mutant in `PROJECT.json` that breaks it:

| Mutant | Breaks |
|---|---|
| a handler without acknowledge | `Accounting` |
| the first loop breaking after `wfi` | `WaitExitJustified` |
| the critical section left out | the liveness property |
| a DMA without circular wrap | `TypeOK` |
| (`DsmDlc`) a DMA that does not rewind its destination at a restart | `TypeOK` |
| (`DsmDlc`) the transaction handler without acknowledge | `Accounting` |
| (`DsmDlc`) the loop breaking after `wfi` | `WaitExitJustified` |
| (`DsmDlc`) the critical section left out | the liveness property |
| (`DlcVco`) a failing ADC launch jumping to the stop sequence | `SessionRefined` |
| (`WfiWait`) the loop exit checking the phase with `<=` | `TypeOK` |
| (`WfiWait`) a handler that does not disable its source | `WakeJustified` |
| (`SesPoll`) the loop test `i <= NUMBER_OUTPUT` | `TypeOK` |
| (`SesPoll`) a level detector instead of an edge detector | `ReadsMonotonic` |
| (`SesPoll`) `prev_val` starting true | `ReadsInOrder` |
| (`SesPoll`) `prev_val` updated only on an edge | `Termination` |
| (`SesPoll`) the ground truth indexed one output early | `BasicVerdict` |

Fairness in `WfiWait`:

* `WF` on `main()`;
* `SF` on each handler (MIE may be set intermittently);
* `WF` on the hardware's `Expire`, because an armed timer does expire.

Fairness in `SesPoll`: `WF` on the program and on the filter, which keeps strobing while it runs.

## 4. Proofs (`DlcVco_proofs.tla`)

All theorems hold under `ConstAssumption`: positive `WinDu` and `SizeDu`, natural bounds, Boolean build flags.

* `TypeCorrect`: `Spec => []TypeOK`, from the lemmas `InitType` and `TypeStep`, with one step per action.
* `AccountingHolds`: `Spec => []Accounting`.  `Accounting` alone is not inductive.  `PrepareAdc` zeroes the DMA counters, which preserves it only if nothing was raised before, so the proof uses `AccountingInv == TypeOK /\ Accounting /\ PreLaunchQuiet`.  `PreLaunchQuiet` says that before channel 0 is launched, no DMA interrupt has been raised, absorbed or left pending.  Handlers move one unit from "pending" to "counted"; `AdcSample` adds one to `raised` and one to either "pending" or "lost".
* `WaitExitHolds`: `Spec => WaitExitJustified`, via `WaitInv`:
  - inside the loop, the register copy never exceeds the counters (they only grow after line 440 loads them);
  - past the loop, the counters stay at the target.

  It holds for both builds, `ReloadCounters` TRUE and FALSE.  `WaitInv` was checked with TLC as an invariant before it was proved.

* `SessionRefinedHolds`: `Spec => SessionRefined`, that `DlcVco` implements `AcqSession`.  The proof follows the usual pattern:
  - `Init => Session!Init`;
  - every step from `AccountingInv /\ WaitInv` is a session step or a stutter (`SessionStep`), with one case per group of actions.

  Two invariants are needed:
  - `PreLaunchQuiet` with `Accounting` shows that the flag reset of `PrepareAdc` finds the counters at zero, so it is a stutter and not a decrement;
  - `WaitInv`'s step fact `Exit` gives the guard of `SwitchToBypass`.

  Handlers are `Count*` steps, because `ResumeAt` never changes the mode.

* `SessionTargetKept`: `Spec => []Session!TargetKept`.  In every state from the switch to bypass onwards, including after the stop, `window_intr_flag + transactions_intr_flag >= windows_to_process`.  It is not proved on `DlcVco` directly.  The lemma `TargetKeptHolds` of `AcqSession` shows it for the abstract session, for every natural `Target`: the counts never decrease, and `SwitchToBypass` requires the target.  The inductive invariant is `TypeOK /\ TargetKept`.  `SessionRefinedHolds` then carries the result over, under the instance's `Target <- WindowsToProcess`.

Only model-checked (out of TLAPS's reach): the liveness property `EnoughCountedLeadsToExit` (fairness and ENABLED), and the violations.

## 4b. Proofs (`DsmDlc_proofs.tla`)

All theorems hold under `DsmAssumption`:

* positive `WinDu` and `SizeDu`;
* a golden sequence of bytes whose `int16_t` view fits the buffer (`2 * Len(Golden) <= BufBytes`);
* `SizeDu <= BufBytes`.

Results:

* `TypeCorrect`: `Spec => []TypeOK`.  `TypeOK` is not inductive as it stands.  The DMA's write address must stay inside the buffer, and `Compare` must not push `errors` past `Len(Golden)`.  The proof therefore uses `TypeInv`, which adds:
  - `wr_addr <= rd_pos`: a write follows the read of the same transaction, and both rewind together;
  - `errors <= i`.
* `AccountingHolds`: `Spec => []Accounting`, through `AccountingInv == TypeInv /\ Accounting /\ PreLaunchQuiet`, with the same argument as in `DlcVco`.  The flag reset at 164-165 is safe because no DMA interrupt exists before `dma_launch`.

* `WaitExitHolds`: `Spec => WaitExitJustified`.  It needs only `TypeInv`, through the step lemma `ExitStep`.  Only the loop test of line 274 moves from the loop to `cmp`, and only when `Sum >= WindowsToProcess`.  The masked re-check, `wfi` and the handlers' `ResumeAt` keep `main()` inside the loop.  The `WaitWfiBreak` mutant is exactly a step that breaks this.

The liveness property is only model-checked for `DsmDlc`.  `DsmDlc` is not mapped to `AcqSession`: it has no bypass phase and never stops its channel, so its states after the loop would have no session mode to map to.  The `dsm_running_dma` run reports the missing stop.

## 4c. Proofs (`WfiWait_proofs.tla`, `SesPoll_proofs.tla`)

`WfiWait` theorems hold under `WfiAssumption`: each program's source list is non-empty and injective, and `MaxServed > 0`.

* `TypeCorrect` and `WakeJustifiedHolds` (`Spec => WakeJustified`) rest on `WakeInv`:
  - only the current phase's source can be enabled;
  - later phases' sources are untouched and never served;
  - before a phase's source is armed it has not been served;
  - wherever the flag reset has already run, `flag = 1` (or a cached 1) implies that the phase's handler ran.

  The last conjunct needs the others, because a handler of another source would set the flag too.  The action property follows from `ExitStep`: a step that leaves a wait reads a 1 that only the current handler can have written.

`SesPoll` theorems hold under `SesAssumption`:

* `ReadsMonotonicHolds` (`Spec => []ReadsMonotonic`) rests on `MonoInv`:
  - while the data register still holds the last output read, a set data-valid bit has already been polled, so `prev_val` is set;
  - at a read, the register holds a newer output than the last one stored.
* `TypeCorrect` for `SesPoll` follows from the same invariant.
* `ReadsInOrderHolds` (`Spec => []ReadsInOrder`) holds for every `NUMBER_OUTPUT` and for behaviours with `strobe_seen`.  `ReadsInOrder` is not inductive, because a step of the filter could put the loop two outputs behind.  The proof uses `OrderInv == MonoInv /\ (basic /\ strobe_seen => ReadsInOrder /\ LoopPhase)`.  `LoopPhase` states where the filter stands relative to the loop, phase by phase:
  - before the loop, only output 1 can appear;
  - at a read, the register holds output `i + 1` and `prev_val` is set;
  - in the loop, either output `i + 1` is valid, unpolled and preceded by a polled low level, or output `i` has been read, and then a polled level equals `prev_val` and an unpolled one is the drop that follows.

  So `Poll` sees an edge exactly when output `i + 1` is there.  TLC checked `OrderInv` as an invariant of the `ses_safety` model before it was proved.
* `BasicVerdictHolds` (`Spec => []BasicVerdict`): under the same timing, `basic_test` returns 0.  It adds `VerdictInv` (the comparison runs with `i = NUMBER_OUTPUT`) to `OrderInv`, so `Compare` finds all `NUMBER_OUTPUT` stored outputs equal to the ground truth.

Only model-checked: `Termination` of both programs (liveness) and the violations.

## 5. Not modelled, and why

* Register drivers, register maps and peripheral smoke tests: pure MMIO with no decisions.
* Analog behaviour and the dLC's encoding arithmetic: out of scope per the spec.  The dLC's emit decision is a free choice.
* The timer handler and wait (see above).
* `test_dsm_dlc`: the timer interrupt of the non-simulation build (228-232, as in `DlcVco`), and `util.c`'s `detect_rising_edge`, which this test never calls.
* `extended_test` without `DEBUG_FROM_RTL`: not compiled, since line 14 defines it.  The printf paths are not modelled either.
* The timers' tick arithmetic: a timer is just armed and then expires, so the 1024-tick margin is not modelled.  A timer that expired between its arming (lines 90-93) and `intr_flag = 0` (line 95) would have its flag erased; the margin keeps this from happening.  For the same reason the unmasked test-then-`wfi` of `test_timers` (line 97) cannot lose its wake-up: the core is asleep long before the timer fires.  Neither is listed as a hazard, and the hang is shown for `test_gpio_ao` only.
* `DsmDlc` is not yet mapped onto `AcqSession`: it has no bypass phase.
