--------------------------- MODULE WfiWait_proofs ---------------------------
(***************************************************************************)
(* Proofs about WfiWait for every program, source list and build allowed  *)
(* by WfiAssumption.                                                       *)
(***************************************************************************)
EXTENDS WfiWait, TLAPS

(* The phase sources of the running program are distinct members of Srcs.*)
LEMMA SourcesFacts ==
  ASSUME TypeOK
  PROVE  /\ Sources \in Seq(STRING)
         /\ Len(Sources) \in Nat \ {0}
         /\ \A j \in Phases : Sources[j] \in Srcs
         /\ \A j, k \in Phases : Sources[j] = Sources[k] => j = k
         /\ Src \in Srcs
BY WfiAssumption DEF TypeOK, Sources, Phases, Src, Srcs

(* A later phase's source is not the current one.                        *)
LEMMA LaterSource ==
  ASSUME TypeOK, NEW j \in Phases, j > phase
  PROVE  Sources[j] # Src
<1>1. phase \in Phases /\ j # phase
  BY DEF TypeOK, Phases
<1>2. QED
  BY <1>1, SourcesFacts DEF Src

(* The initial state satisfies WakeInv.                                   *)
LEMMA InitWake == Init => WakeInv
<1> SUFFICES ASSUME Init PROVE WakeInv
  OBVIOUS
<1>1. TypeOK
  <2>1. Len(SourcesOf[Program]) > 0 /\ Len(SourcesOf[Program]) \in Nat
    BY WfiAssumption DEF Init
  <2>2. phase \in Phases
    BY <2>1 DEF Init, Phases, Sources
  <2>3. served \in [Srcs -> 0 .. MaxServed]
    BY WfiAssumption DEF Init
  <2>4. QED
    BY <2>2, <2>3 DEF Init, TypeOK, Pcs
<1>2. QED
  BY <1>1, SourcesFacts DEF Init, WakeInv, PreArm

-----------------------------------------------------------------------------
(* Steps of main() that change neither the phase nor what the handlers    *)
(* and the hardware see keep the frame part of WakeInv.                   *)
LEMMA FrameStep ==
  ASSUME WakeInv,
         UNCHANGED <<Program, phase, src_en, armed, expired, served>>,
         TypeOK'
  PROVE  /\ src_en' \subseteq {Src'}
         /\ \A j \in Phases' :
              j > phase' => /\ served'[Sources'[j]] = 0
                            /\ Sources'[j] \notin src_en' \cup armed' \cup expired'
         /\ served'[Src'] > 0 => Src' \notin src_en'
BY DEF WakeInv, Src, Sources, Phases

(* Every step keeps WakeInv.                                              *)
LEMMA WakeStep == WakeInv /\ [Next]_vars => WakeInv'
<1> SUFFICES ASSUME WakeInv, [Next]_vars PROVE WakeInv'
  OBVIOUS
<1>0. /\ TypeOK
      /\ Src \in Srcs
      /\ \A j \in Phases : Sources[j] \in Srcs
      /\ \A j, k \in Phases : Sources[j] = Sources[k] => j = k
      /\ Len(Sources) \in Nat \ {0}
  BY SourcesFacts DEF WakeInv
<1>1. CASE TimerInit
  BY <1>0, <1>1, FrameStep DEF TimerInit, WakeInv, TypeOK, Pcs, PreArm, Cleared, Src, Sources, Phases
<1>2. CASE GpioInit
  BY <1>0, <1>2, FrameStep DEF GpioInit, DriverResults, WakeInv, TypeOK, Pcs, PreArm, Cleared, Src, Sources, Phases
<1>3. CASE EnableIrq
  BY <1>0, <1>3 DEF EnableIrq, WakeInv, TypeOK, Pcs, PreArm, Cleared, Src, Sources, Phases
<1>4. CASE TimerArm
  BY <1>0, <1>4 DEF TimerArm, WakeInv, TypeOK, Pcs, PreArm, Cleared, Src, Sources, Phases
<1>5. CASE ResetFlag
  BY <1>0, <1>5 DEF ResetFlag, WakeInv, TypeOK, Pcs, PreArm, Cleared, Src, Sources, Phases
<1>6. CASE GpioConfigure
  BY <1>0, <1>6 DEF GpioConfigure, DriverResults, WakeInv, TypeOK, Pcs, PreArm, Cleared, Src, Sources, Phases
<1>7. CASE GpioIrqEnable
  <2>1. PICK ok \in DriverResults :
          /\ pc' = IF ok THEN "write" ELSE "fail"
          /\ src_en' = IF ok THEN src_en \cup {Src} ELSE src_en
    BY <1>7 DEF GpioIrqEnable
  <2>2. UNCHANGED <<Program, reload, cached, phase, flag, mstatus_mie, mie, armed, expired, served>>
    BY <1>7 DEF GpioIrqEnable
  <2>3. pc = "trigger" /\ Program = "gpio"
    BY <1>7 DEF GpioIrqEnable, WakeInv, TypeOK, Pcs
  <2>4. served[Src] = 0 /\ flag = 0 /\ Src \notin armed \cup expired
    BY <1>0, <2>3 DEF WakeInv, TypeOK, PreArm, Cleared
  <2>5. \A j \in Phases : j > phase => Sources[j] # Src
    BY <1>0, LaterSource
  <2>6. CASE ok
    BY <1>0, <2>1, <2>2, <2>3, <2>4, <2>5, <2>6 DEF WakeInv, TypeOK, Pcs, PreArm, Cleared, Src, Sources, Phases
  <2>7. CASE ~ok
    BY <1>0, <2>1, <2>2, <2>7 DEF WakeInv, TypeOK, Pcs, PreArm, Cleared, Src, Sources, Phases
  <2>8. QED
    BY <2>6, <2>7
<1>8. CASE GpioWrite
  <2>1. \A j \in Phases : j > phase => Sources[j] # Src
    BY <1>0, LaterSource
  <2>2. QED
    BY <1>0, <1>8, <2>1 DEF GpioWrite, WakeInv, TypeOK, Pcs, PreArm, Cleared, Src, Sources, Phases
<1>9. CASE LoopEnter
  BY <1>0, <1>9 DEF LoopEnter, LeaveOrSleep, WakeInv, TypeOK, Pcs, PreArm, Cleared, Src, Sources, Phases
<1>10. CASE LoopTest
  BY <1>0, <1>10 DEF LoopTest, LeaveOrSleep, WakeInv, TypeOK, Pcs, PreArm, Cleared, Src, Sources, Phases
<1>11. CASE Wfi
  BY <1>0, <1>11 DEF Wfi, WakeInv, TypeOK, Pcs, PreArm, Cleared, Src, Sources, Phases
<1>12. ASSUME NEW s \in Srcs, Expire(s)
       PROVE  WakeInv'
  BY <1>0, <1>12 DEF Expire, WakeInv, TypeOK, Pcs, PreArm, Cleared, Src, Sources, Phases
<1>13. ASSUME NEW s \in Srcs, Handler(s)
       PROVE  WakeInv'
  <2>1. s = Src /\ Src \in src_en /\ mstatus_mie
    BY <1>13 DEF Handler, Asserted, WakeInv
  <2>2. pc \notin PreArm
    BY <2>1 DEF WakeInv
  <2>3. /\ src_en' = src_en \ {Src}
        /\ flag' = 1
        /\ served' = [served EXCEPT ![Src] = @ + 1]
        /\ pc' \in ResumeAt(pc)
        /\ UNCHANGED <<Program, reload, cached, phase, mstatus_mie, mie, armed, expired>>
    BY <1>13, <2>1 DEF Handler
  <2>4. served'[Src] > 0 /\ \A t \in Srcs \ {Src} : served'[t] = served[t]
    BY <1>0, <2>3 DEF WakeInv, TypeOK
  <2>5. \A j \in Phases : j > phase => Sources[j] # Src
    BY <1>0, LaterSource
  <2>6. TypeOK'
    <3>1. served[Src] < MaxServed /\ served \in [Srcs -> 0 .. MaxServed]
      BY <1>0, <1>13, <2>1 DEF Handler, TypeOK
    <3>2. served' \in [Srcs -> 0 .. MaxServed]
      BY <1>0, <2>3, <3>1, WfiAssumption
    <3>3. pc' \in Pcs
      BY <1>0, <2>3 DEF ResumeAt, TypeOK, Pcs
    <3>4. QED
      BY <1>0, <2>3, <3>2, <3>3 DEF TypeOK, Src, Sources, Phases
  <2>7. pc' \notin PreArm' /\ (pc' \in Cleared' <=> pc \in Cleared)
    BY <2>2, <2>3 DEF ResumeAt, PreArm, Cleared
  <2>8. QED
    BY <1>0, <2>3, <2>4, <2>5, <2>6, <2>7 DEF WakeInv, Src, Sources, Phases
<1>14. CASE UNCHANGED vars
  BY <1>14 DEF vars, WakeInv, TypeOK, PreArm, Cleared, Src, Sources, Phases
<1>15. QED
  BY <1>1, <1>2, <1>3, <1>4, <1>5, <1>6, <1>7, <1>8, <1>9, <1>10, <1>11, <1>12, <1>13, <1>14
     DEF Next, MainStep
-----------------------------------------------------------------------------
(* Every reachable state is well typed: the phase stays within the       *)
(* program's waits and no handler runs more than MaxServed times.          *)
THEOREM TypeCorrect == Spec => []TypeOK
<1>1. Init => WakeInv
  BY InitWake
<1>2. WakeInv /\ [Next]_vars => WakeInv'
  BY WakeStep
<1>3. WakeInv => TypeOK
  BY DEF WakeInv
<1>4. QED
  BY <1>1, <1>2, <1>3, PTL DEF Spec

(* The step form of WakeJustified.                                       *)
Exit == (pc \in {"enter", "test"} /\ pc' \in {"irq_en", "done"}) => served[Src] > 0

(* A step from WakeInv leaves a wait only after the phase's own handler.  *)
LEMMA ExitStep == WakeInv /\ [Next]_vars => [Exit]_vars
<1> SUFFICES ASSUME WakeInv, [Next]_vars,
                    pc \in {"enter", "test"}, pc' \in {"irq_en", "done"}
             PROVE  served[Src] > 0
  BY DEF Exit
<1>1. flag \in {0, 1} /\ cached \in {0, 1} /\ {"enter", "test"} \subseteq Cleared
  BY DEF WakeInv, TypeOK, Cleared
<1>2. CASE LoopEnter
  BY <1>1, <1>2 DEF LoopEnter, LeaveOrSleep, WakeInv
<1>3. CASE LoopTest
  BY <1>1, <1>3 DEF LoopTest, LeaveOrSleep, WakeInv
<1>4. ASSUME NEW s \in Srcs, Handler(s) PROVE FALSE
  BY <1>4 DEF Handler, ResumeAt
<1>5. ASSUME NEW s \in Srcs, Expire(s) PROVE FALSE
  BY <1>5 DEF Expire
<1>6. QED
  BY <1>2, <1>3, <1>4, <1>5
     DEF Next, MainStep, vars, TimerInit, GpioInit, EnableIrq, TimerArm, ResetFlag,
         GpioConfigure, GpioIrqEnable, GpioWrite, Wfi

(* The waits of test_timers and test_gpio_ao end only after the handler   *)
(* of the source each one waits for has run, for any number of phases,     *)
(* whether or not the build reloads the non-volatile flag.                  *)
THEOREM WakeJustifiedHolds == Spec => WakeJustified
<1>1. Init => WakeInv
  BY InitWake
<1>2. WakeInv /\ [Next]_vars => WakeInv'
  BY WakeStep
<1>3. WakeInv /\ [Next]_vars => [Exit]_vars
  BY ExitStep
<1>4. QED
  BY <1>1, <1>2, <1>3, PTL DEF Spec, WakeJustified, Exit
=============================================================================
