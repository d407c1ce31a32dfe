------------------------------ MODULE WfiWait ------------------------------
(***************************************************************************)
(* The interrupt wake-up tests test_timers/main.c and test_gpio_ao/main.c. *)
(* Each runs one or more phases.  A phase enables one interrupt source in  *)
(* mie, arms the peripheral, clears a flag, and sleeps in                  *)
(*     while (flag == 0) wait_for_interrupt();                             *)
(* with MIE set: nothing masks interrupts between the test and the wfi.    *)
(* The handler of the source disables the source at the peripheral and    *)
(* sets the flag.                                                          *)
(*                                                                         *)
(* test_timers arms the timer before clearing the flag (lines 90-95);     *)
(* test_gpio_ao clears the flag (line 48) before it enables the GPIO      *)
(* interrupt and drives the looped-back pin (lines 62-69).                *)
(***************************************************************************)
EXTENDS Naturals, Sequences

CONSTANTS
  Programs,       \* the programs checked: a subset of {"timers", "gpio"}
  SourcesOf,      \* per program, the interrupt source of each phase
  DriverMayFail,  \* whether the GPIO driver calls may return an error
  Builds,         \* the builds checked: whether the loop reloads the flag
  MaxServed       \* bound on handler executions per source

ASSUME WfiAssumption ==
  /\ Programs \subseteq {"timers", "gpio"} /\ Programs # {}
  /\ \A p \in Programs :
       /\ SourcesOf[p] \in Seq(STRING) /\ Len(SourcesOf[p]) > 0
       /\ \A j, k \in 1 .. Len(SourcesOf[p]) :
            SourcesOf[p][j] = SourcesOf[p][k] => j = k
  /\ DriverMayFail \in BOOLEAN
  /\ Builds \subseteq BOOLEAN /\ Builds # {}
  /\ MaxServed \in Nat \ {0}

Srcs == UNION {{SourcesOf[p][k] : k \in 1 .. Len(SourcesOf[p])} : p \in Programs}

Pcs == {"init", "irq_en", "arm", "reset", "out_en", "trigger", "write",
        "enter", "test", "wfi", "done", "fail"}

VARIABLES
  Program,       \* which of the programs is running; never changes
  reload,        \* whether this build reloads the flag on every test
  pc,            \* location in main()
  phase,         \* which wait of main() is being prepared or run
  flag,          \* intr_flag / fast_gpio_1_flag (not volatile)
  cached,        \* the register copy loaded by the loop's first test
  mstatus_mie,   \* mstatus.MIE
  mie,           \* sources enabled in mie
  src_en,        \* sources whose interrupt is enabled at the peripheral
  armed,         \* timers counting towards their compare value / pin driven
  expired,       \* compare reached / input pin high
  served         \* history: handler executions per source

vars == <<Program, reload, pc, phase, flag, cached, mstatus_mie, mie, src_en, armed, expired, served>>

Sources == SourcesOf[Program]
Phases == 1 .. Len(Sources)
Src == Sources[phase]

(* The interrupt line of a source is high while its event has happened    *)
(* and it is enabled at the peripheral.                                   *)
Asserted == expired \cap src_en

DriverResults == IF DriverMayFail THEN BOOLEAN ELSE {TRUE}

(* A trap taken at the wfi location may hit before the instruction, which  *)
(* then still executes, or wake the sleeping core, which resumes after it. *)
ResumeAt(p) == IF p = "wfi" THEN {"wfi", "test"} ELSE {p}

TypeOK ==
  /\ Program \in Programs
  /\ pc \in Pcs
  /\ phase \in Phases
  /\ reload \in Builds
  /\ flag \in {0, 1}
  /\ cached \in {0, 1}
  /\ mstatus_mie \in BOOLEAN
  /\ mie \subseteq Srcs
  /\ src_en \subseteq Srcs
  /\ armed \subseteq Srcs
  /\ expired \subseteq Srcs
  /\ served \in [Srcs -> 0 .. MaxServed]

Init ==
  /\ Program \in Programs
  /\ reload \in Builds
  /\ cached = 0
  /\ pc = "init"
  /\ phase = 1
  /\ flag = 0
  /\ mstatus_mie = FALSE
  /\ mie = {}
  /\ src_en = {}
  /\ armed = {}
  /\ expired = {}
  /\ served = [s \in Srcs |-> 0]

-----------------------------------------------------------------------------
(* main().                                                                *)

(* test_timers lines 62-79: timer drivers set up, no result checked.      *)
TimerInit ==
  /\ Program = "timers" /\ pc = "init"
  /\ pc' = "irq_en"
  /\ UNCHANGED <<Program, reload, cached, phase, flag, mstatus_mie, mie, src_en, armed, expired, served>>

(* test_gpio_ao lines 33-40: gpio_init, returning -1 on error.            *)
GpioInit ==
  /\ Program = "gpio" /\ pc = "init"
  /\ \E ok \in DriverResults : pc' = IF ok THEN "irq_en" ELSE "fail"
  /\ UNCHANGED <<Program, reload, cached, phase, flag, mstatus_mie, mie, src_en, armed, expired, served>>

(* test_timers lines 81-87 (and 100-102, 115-117, 130-132); test_gpio_ao  *)
(* lines 42-47: MIE and the phase's bit of mie.  The timer test arms next; *)
(* the GPIO test clears its flag first.                                   *)
EnableIrq ==
  /\ pc = "irq_en"
  /\ mstatus_mie' = TRUE
  /\ mie' = mie \cup {Src}
  /\ pc' = IF Program = "timers" THEN "arm" ELSE "reset"
  /\ UNCHANGED <<Program, reload, cached, phase, flag, src_en, armed, expired, served>>

(* test_timers lines 89-93: tick parameters, compare interrupt enabled,   *)
(* compare armed, counter started.                                        *)
TimerArm ==
  /\ Program = "timers" /\ pc = "arm"
  /\ src_en' = src_en \cup {Src}
  /\ armed' = armed \cup {Src}
  /\ pc' = "reset"
  /\ UNCHANGED <<Program, reload, cached, phase, flag, mstatus_mie, mie, expired, served>>

(* test_timers line 95, test_gpio_ao line 48.                             *)
ResetFlag ==
  /\ pc = "reset"
  /\ flag' = 0
  /\ pc' = IF Program = "timers" THEN "enter" ELSE "arm"
  /\ UNCHANGED <<Program, reload, cached, phase, mstatus_mie, mie, src_en, armed, expired, served>>

(* test_gpio_ao lines 50-60: output enable and level-high trigger; each *)
(* call returns -1 on error.                                              *)
GpioConfigure ==
  /\ Program = "gpio" /\ pc \in {"arm", "out_en"}
  /\ \E ok \in DriverResults :
       pc' = IF ~ok THEN "fail" ELSE IF pc = "arm" THEN "out_en" ELSE "trigger"
  /\ UNCHANGED <<Program, reload, cached, phase, flag, mstatus_mie, mie, src_en, armed, expired, served>>

(* test_gpio_ao lines 62-66: the input's interrupt enabled at the GPIO.   *)
GpioIrqEnable ==
  /\ Program = "gpio" /\ pc = "trigger"
  /\ \E ok \in DriverResults :
       /\ pc' = IF ok THEN "write" ELSE "fail"
       /\ src_en' = IF ok THEN src_en \cup {Src} ELSE src_en
  /\ UNCHANGED <<Program, reload, cached, phase, flag, mstatus_mie, mie, armed, expired, served>>

(* test_gpio_ao lines 68-69: the output pin, looped back to the input by  *)
(* the testbench, is driven high.                                         *)
GpioWrite ==
  /\ Program = "gpio" /\ pc = "write"
  /\ armed' = armed \cup {Src}
  /\ pc' = "enter"
  /\ UNCHANGED <<Program, reload, cached, phase, flag, mstatus_mie, mie, src_en, expired, served>>

(* Mutant of LeaveOrSleep: an off-by-one in the number of phases.       *)
LeaveOrSleepPastEnd(v) ==
  IF v = 0
    THEN pc' = "wfi" /\ UNCHANGED phase
    ELSE IF phase <= Len(Sources)
           THEN pc' = "irq_en" /\ phase' = phase + 1
           ELSE pc' = "done" /\ UNCHANGED phase

(* Where the loop goes once it has read the flag value v: into wfi, to    *)
(* the next phase, or to the final return.                                 *)
LeaveOrSleep(v) ==
  IF v = 0
    THEN pc' = "wfi" /\ UNCHANGED phase
    ELSE IF phase < Len(Sources)
           THEN pc' = "irq_en" /\ phase' = phase + 1
           ELSE pc' = "done" /\ UNCHANGED phase

(* test_timers lines 96, 111, 126, 141; test_gpio_ao line 70: the first   *)
(* evaluation of the loop condition loads the flag.                        *)
LoopEnter ==
  /\ pc = "enter"
  /\ cached' = flag
  /\ LeaveOrSleep(flag)
  /\ UNCHANGED <<Program, reload, flag, mstatus_mie, mie, src_en, armed, expired, served>>

(* The same condition after a wake-up.  The flags are not volatile and    *)
(* wfi is an asm statement; a build that keeps the first load in a        *)
(* register (reload = FALSE) tests that copy again.                       *)
LoopTest ==
  /\ pc = "test"
  /\ LeaveOrSleep(IF reload THEN flag ELSE cached)
  /\ UNCHANGED <<Program, reload, cached, flag, mstatus_mie, mie, src_en, armed, expired, served>>

(* test_timers line 97, test_gpio_ao line 71: wfi returns once an enabled *)
(* interrupt is pending.                                                  *)
Wfi ==
  /\ pc = "wfi"
  /\ Asserted \cap mie # {}
  /\ pc' = "test"
  /\ UNCHANGED <<Program, reload, cached, phase, flag, mstatus_mie, mie, src_en, armed, expired, served>>

-----------------------------------------------------------------------------
(* Hardware: an armed timer reaches its compare value, the driven pin     *)
(* reaches the input.                                                     *)
Expire(s) ==
  /\ s \in armed
  /\ armed' = armed \ {s}
  /\ expired' = expired \cup {s}
  /\ UNCHANGED <<Program, reload, cached, pc, phase, flag, mstatus_mie, mie, src_en, served>>

(* Mutant of Handler: the source is not disabled at the peripheral, so    *)
(* its line stays high after the handler returns.                          *)
HandlerNoDisable(s) ==
  /\ mstatus_mie /\ s \in Asserted \cap mie
  /\ served[s] < MaxServed
  /\ flag' = 1
  /\ served' = [served EXCEPT ![s] = @ + 1]
  /\ pc' \in ResumeAt(pc)
  /\ UNCHANGED <<Program, reload, cached, phase, mstatus_mie, mie, src_en, armed, expired>>

(* The handlers of test_timers (lines 24-58) and test_gpio_ao (21-29):    *)
(* taken with MIE set and the line high and enabled in mie; each disables  *)
(* its source at the peripheral (and clears the fast-interrupt latch) and  *)
(* sets the flag.                                                          *)
Handler(s) ==
  /\ mstatus_mie /\ s \in Asserted \cap mie
  /\ served[s] < MaxServed
  /\ src_en' = src_en \ {s}
  /\ flag' = 1
  /\ served' = [served EXCEPT ![s] = @ + 1]
  /\ pc' \in ResumeAt(pc)
  /\ UNCHANGED <<Program, reload, cached, phase, mstatus_mie, mie, armed, expired>>

-----------------------------------------------------------------------------
MainStep ==
  \/ TimerInit \/ GpioInit \/ EnableIrq \/ TimerArm \/ ResetFlag
  \/ GpioConfigure \/ GpioIrqEnable \/ GpioWrite \/ LoopEnter \/ LoopTest \/ Wfi

Next == MainStep \/ (\E s \in Srcs : Handler(s) \/ Expire(s))

(* The core keeps executing main() (WF); it takes a pending enabled       *)
(* interrupt whenever MIE is set (SF); a started timer reaches its compare *)
(* value and the testbench loops the driven pin back (WF).                *)
Spec ==
  /\ Init /\ [][Next]_vars
  /\ WF_vars(MainStep)
  /\ \A s \in Srcs : SF_vars(Handler(s)) /\ WF_vars(Expire(s))

-----------------------------------------------------------------------------
(* Properties.                                                            *)

(* A wait is left only after the handler of that phase's own source has  *)
(* run: an earlier phase's source, still enabled, cannot end a later      *)
(* phase's wait (lines 96-143 reuse one intr_flag for four timers).       *)
WakeJustified ==
  [][(pc \in {"enter", "test"} /\ pc' \in {"irq_en", "done"}) => served[Src] > 0]_vars

(* Every run of main() returns: each wait ends once its source fires.     *)
Termination == <>(pc \in {"done", "fail"})
-----------------------------------------------------------------------------
(* The inductive invariant behind WakeJustified.                          *)

(* Locations of a phase before its source is enabled at the peripheral.  *)
PreArm ==
  IF Program = "timers" THEN {"init", "irq_en", "arm"}
  ELSE {"init", "irq_en", "reset", "arm", "out_en", "trigger"}

(* Locations of a phase after its flag was cleared.                      *)
Cleared ==
  IF Program = "timers" THEN {"enter", "test", "wfi"}
  ELSE {"arm", "out_en", "trigger", "write", "enter", "test", "wfi"}

(* Only the current phase's source can be enabled; sources of later      *)
(* phases are untouched; before the arming the current one is untouched   *)
(* too; a served source stays disabled; and once the flag is cleared, a   *)
(* 1 in the flag or its register copy was stored by the current source's  *)
(* handler.                                                               *)
WakeInv ==
  /\ TypeOK
  /\ src_en \subseteq {Src}
  /\ \A j \in Phases :
       j > phase => /\ served[Sources[j]] = 0
                    /\ Sources[j] \notin src_en \cup armed \cup expired
  /\ pc \in PreArm => /\ served[Src] = 0
                      /\ Src \notin src_en \cup armed \cup expired
  /\ served[Src] > 0 => Src \notin src_en
  /\ pc \in Cleared /\ flag = 1 => served[Src] > 0
  /\ pc \in {"test", "wfi"} /\ cached = 1 => served[Src] > 0
=============================================================================
