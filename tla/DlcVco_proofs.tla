---------------------------- MODULE DlcVco_proofs ----------------------------
(***************************************************************************)
(* Proofs about DlcVco for every value of the constants that satisfies   *)
(* ConstAssumption.                                                       *)
(***************************************************************************)
EXTENDS DlcVco, TLAPS

(* The wfi return locations are locations of main().                     *)
LEMMA ResumeAtType ==
  ASSUME NEW p \in Pcs
  PROVE  ResumeAt(p) \subseteq Pcs
BY DEF ResumeAt, AfterWfi, Pcs

(* The initial state is well typed.                                      *)
LEMMA InitType == Init => TypeOK
<1> SUFFICES ASSUME Init PROVE TypeOK
  OBVIOUS
<1>1. raised \in [Irqs -> Nat] /\ lost \in [Irqs -> Nat]
  BY DEF Init
<1>2. pc \in Pcs
  BY DEF Init, Pcs
<1>3. rd_pos \in 0 .. SizeDu - 1 /\ wr_pos \in 0 .. WinDu - 1 /\ samples \in 0 .. MaxSamples
  BY ConstAssumption DEF Init
<1>4. QED
  BY <1>1, <1>2, <1>3 DEF Init, TypeOK
(* Every step keeps each variable in its type.                            *)
LEMMA TypeStep == TypeOK /\ [Next]_vars => TypeOK'
<1> SUFFICES ASSUME TypeOK, [Next]_vars PROVE TypeOK'
  OBVIOUS
<1> USE ConstAssumption DEF TypeOK
<1>1. CASE MainStep
  <2>1. CASE ConfigureDac
    BY <2>1 DEF ConfigureDac, Goto, Pcs, irq, flags, regs, hist, hw, dma
  <2>2. CASE EnableDmaIrqs
    BY <2>2 DEF EnableDmaIrqs, Goto, Pcs, DmaIrqs, Irqs, irq, flags, regs, hist, hw, dma
  <2>3. CASE LaunchDac
    BY <2>3 DEF LaunchDac, Goto, Pcs, DriverResults, irq, flags, regs, hist, hw, dma
  <2>4. CASE ConfigureGate
    BY <2>4 DEF ConfigureGate, Goto, Pcs, irq, flags, regs, hist, hw, dma
  <2>5. CASE PrepareAdc
    BY <2>5 DEF PrepareAdc, Goto, Pcs, irq, flags, regs, hist, hw, dma
  <2>6. CASE LaunchAdc
    BY <2>6 DEF LaunchAdc, Goto, Pcs, DriverResults, irq, flags, regs, hist, hw, dma
  <2>7. CASE Wait1Enter
    BY <2>7 DEF Wait1Enter, Goto, Pcs, irq, flags, regs, hist, hw, dma
  <2>8. CASE Wait1Test
    BY <2>8 DEF Wait1Test, Goto, Pcs, irq, flags, regs, hist, hw, dma
  <2>9. CASE Wait1Mask
    BY <2>9 DEF Wait1Mask, Goto, Pcs, irq, flags, regs, hist, hw, dma
  <2>10. CASE Wait1Recheck
    BY <2>10 DEF Wait1Recheck, Goto, Pcs, irq, flags, regs, hist, hw, dma
  <2>11. CASE Wait1Wfi
    BY <2>11 DEF Wait1Wfi, Goto, Pcs, AfterWfi, irq, flags, regs, hist, hw, dma
  <2>12. CASE Wait1Unmask
    BY <2>12 DEF Wait1Unmask, Goto, Pcs, irq, flags, regs, hist, hw, dma
  <2>13. CASE EnableExtIrq
    BY <2>13 DEF EnableExtIrq, Goto, Pcs, DmaIrqs, Irqs, irq, flags, regs, hist, hw, dma
  <2>14. CASE WidenLevels
    BY <2>14 DEF WidenLevels, Goto, Pcs, irq, flags, regs, hist, hw, dma
  <2>15. CASE EnableBypass
    BY <2>15 DEF EnableBypass, Goto, Pcs, irq, flags, regs, hist, hw, dma
  <2>16. CASE Wait2Test
    BY <2>16 DEF Wait2Test, Goto, Pcs, irq, flags, regs, hist, hw, dma
  <2>17. CASE Wait2Mask
    BY <2>17 DEF Wait2Mask, Goto, Pcs, irq, flags, regs, hist, hw, dma
  <2>18. CASE Wait2Recheck
    BY <2>18 DEF Wait2Recheck, Goto, Pcs, irq, flags, regs, hist, hw, dma
  <2>19. CASE Wait2Wfi
    BY <2>19 DEF Wait2Wfi, Goto, Pcs, AfterWfi, irq, flags, regs, hist, hw, dma
  <2>20. CASE Wait2Unmask
    BY <2>20 DEF Wait2Unmask, Goto, Pcs, irq, flags, regs, hist, hw, dma
  <2>21. CASE StopSystem
    BY <2>21 DEF StopSystem, Goto, Pcs, irq, flags, regs, hist, hw, dma
  <2>22. QED
    BY <1>1, <2>1, <2>2, <2>3, <2>4, <2>5, <2>6, <2>7, <2>8, <2>9, <2>10, <2>11, <2>12, <2>13, <2>14, <2>15, <2>16, <2>17, <2>18, <2>19, <2>20, <2>21 DEF MainStep
<1>2. CASE Handler
  <2>1. pc' \in Pcs
    BY <1>2, ResumeAtType DEF Handler, dma_intr_handler_window_done,
       dma_intr_handler_trans_done, fic_irq_ext_peripheral, TakeTrap
  <2>2. QED
    BY <1>2, <2>1 DEF Handler, dma_intr_handler_window_done,
       dma_intr_handler_trans_done, fic_irq_ext_peripheral, TakeTrap,
       irq, flags, regs, hist, hw, dma
<1>3. CASE AdcSample
  <2>1. PICK emit \in BOOLEAN, cross \in BOOLEAN :
          LET fired == {s \in Irqs :
                         \/ s = "win" /\ emit /\ wr_pos + 1 = WinDu
                         \/ s = "trans" /\ rd_pos + 1 = SizeDu
                         \/ s = "ext" /\ cross /\ dlc_bypass_en}
          IN /\ pending' = pending \cup fired
             /\ raised' = [s \in Irqs |-> IF s \in fired THEN raised[s] + 1 ELSE raised[s]]
             /\ lost' = [s \in Irqs |-> IF s \in fired \cap pending THEN lost[s] + 1 ELSE lost[s]]
             /\ wr_pos' = IF emit THEN (wr_pos + 1) % WinDu ELSE wr_pos
    BY <1>3 DEF AdcSample
  <2>2. pending' \subseteq Irqs /\ raised' \in [Irqs -> Nat] /\ lost' \in [Irqs -> Nat]
    BY <2>1
  <2>3. wr_pos' \in 0 .. WinDu - 1
    BY <2>1
  <2>4. rd_pos' \in 0 .. SizeDu - 1 /\ samples' \in 0 .. MaxSamples
    BY <1>3 DEF AdcSample
  <2>5. QED
    BY <1>3, <2>2, <2>3, <2>4 DEF AdcSample, flags, regs
<1>4. CASE UNCHANGED vars
  BY <1>4 DEF vars, hw
<1>5. QED
  BY <1>1, <1>2, <1>3, <1>4 DEF Next
(* TypeOK is an invariant of the program.                                *)
THEOREM TypeCorrect == Spec => []TypeOK
BY InitType, TypeStep, PTL DEF Spec

(* A step that changes neither the counters, the pending bits nor the    *)
(* history keeps the accounting of every source.                          *)
LEMMA AccountingFrame ==
  ASSUME Accounting,
         UNCHANGED <<window_intr_flag, transactions_intr_flag, xing_intr_flag,
                     pending, raised, lost>>
  PROVE  Accounting'
BY DEF Accounting, Count

(* The initial state satisfies the strengthened invariant.               *)
LEMMA InitAccounting == Init => AccountingInv
<1> SUFFICES ASSUME Init PROVE AccountingInv
  OBVIOUS
<1>1. TypeOK
  BY InitType
<1>2. Accounting
  BY DEF Init, Accounting, Count, Irqs
<1>3. PreLaunchQuiet
  BY DEF Init, PreLaunchQuiet, DmaIrqs, Irqs
<1>4. QED
  BY <1>1, <1>2, <1>3 DEF AccountingInv

(* Every step of main(), of a handler or of the hardware keeps it.        *)
LEMMA AccountingStep == AccountingInv /\ [Next]_vars => AccountingInv'
<1> SUFFICES ASSUME AccountingInv, [Next]_vars PROVE AccountingInv'
  OBVIOUS
<1>0. TypeOK /\ Accounting /\ PreLaunchQuiet
  BY DEF AccountingInv
<1>1. TypeOK'
  BY <1>0, TypeStep
<1>2. CASE MainStep
  <2>1. CASE ConfigureDac
    <3>1. Accounting'
      BY <1>0, <2>1, AccountingFrame DEF ConfigureDac, Goto, irq, flags, hist, hw
    <3>2. PreLaunchQuiet'
      BY <1>0, <2>1 DEF ConfigureDac, Goto, PreLaunchQuiet, PreLaunch, irq, flags, hist, hw
    <3>3. QED
      BY <1>1, <3>1, <3>2 DEF AccountingInv
  <2>2. CASE EnableDmaIrqs
    <3>1. Accounting'
      BY <1>0, <2>2, AccountingFrame DEF EnableDmaIrqs, Goto, irq, flags, hist, hw
    <3>2. PreLaunchQuiet'
      BY <1>0, <2>2 DEF EnableDmaIrqs, Goto, PreLaunchQuiet, PreLaunch, irq, flags, hist, hw
    <3>3. QED
      BY <1>1, <3>1, <3>2 DEF AccountingInv
  <2>3. CASE LaunchDac
    <3>1. Accounting'
      BY <1>0, <2>3, AccountingFrame DEF LaunchDac, Goto, irq, flags, hist, hw
    <3>2. PreLaunchQuiet'
      BY <1>0, <2>3 DEF LaunchDac, Goto, PreLaunchQuiet, PreLaunch, irq, flags, hist, hw
    <3>3. QED
      BY <1>1, <3>1, <3>2 DEF AccountingInv
  <2>4. CASE ConfigureGate
    <3>1. Accounting'
      BY <1>0, <2>4, AccountingFrame DEF ConfigureGate, Goto, irq, flags, hist, hw
    <3>2. PreLaunchQuiet'
      BY <1>0, <2>4 DEF ConfigureGate, Goto, PreLaunchQuiet, PreLaunch, irq, flags, hist, hw
    <3>3. QED
      BY <1>1, <3>1, <3>2 DEF AccountingInv
  <2>5. CASE PrepareAdc
    <3>1. \A s \in DmaIrqs : raised[s] = 0 /\ lost[s] = 0 /\ s \notin pending
      BY <1>0, <2>5 DEF PrepareAdc, Goto, PreLaunchQuiet, PreLaunch
    <3>2. Accounting'
      BY <1>0, <2>5, <3>1 DEF PrepareAdc, Goto, irq, flags, hist, hw,
                              Accounting, Count, DmaIrqs, Irqs
    <3>4. PreLaunchQuiet'
      BY <1>0, <2>5 DEF PrepareAdc, Goto, PreLaunchQuiet, PreLaunch, irq, flags, hist, hw
    <3>3. QED
      BY <1>1, <3>2, <3>4 DEF AccountingInv
  <2>6. CASE LaunchAdc
    <3>1. Accounting'
      BY <1>0, <2>6, AccountingFrame DEF LaunchAdc, Goto, irq, flags, hist, hw
    <3>2. PreLaunchQuiet'
      BY <1>0, <2>6 DEF LaunchAdc, Goto, PreLaunchQuiet, PreLaunch, irq, flags, hist, hw
    <3>3. QED
      BY <1>1, <3>1, <3>2 DEF AccountingInv
  <2>7. CASE Wait1Enter
    <3>1. Accounting'
      BY <1>0, <2>7, AccountingFrame DEF Wait1Enter, Goto, irq, flags, hist, hw
    <3>2. PreLaunchQuiet'
      BY <1>0, <2>7 DEF Wait1Enter, Goto, PreLaunchQuiet, PreLaunch, irq, flags, hist, hw
    <3>3. QED
      BY <1>1, <3>1, <3>2 DEF AccountingInv
  <2>8. CASE Wait1Test
    <3>1. Accounting'
      BY <1>0, <2>8, AccountingFrame DEF Wait1Test, Goto, irq, flags, hist, hw
    <3>2. PreLaunchQuiet'
      BY <1>0, <2>8 DEF Wait1Test, Goto, PreLaunchQuiet, PreLaunch, irq, flags, hist, hw
    <3>3. QED
      BY <1>1, <3>1, <3>2 DEF AccountingInv
  <2>9. CASE Wait1Mask
    <3>1. Accounting'
      BY <1>0, <2>9, AccountingFrame DEF Wait1Mask, Goto, irq, flags, hist, hw
    <3>2. PreLaunchQuiet'
      BY <1>0, <2>9 DEF Wait1Mask, Goto, PreLaunchQuiet, PreLaunch, irq, flags, hist, hw
    <3>3. QED
      BY <1>1, <3>1, <3>2 DEF AccountingInv
  <2>10. CASE Wait1Recheck
    <3>1. Accounting'
      BY <1>0, <2>10, AccountingFrame DEF Wait1Recheck, Goto, irq, flags, hist, hw
    <3>2. PreLaunchQuiet'
      BY <1>0, <2>10 DEF Wait1Recheck, Goto, PreLaunchQuiet, PreLaunch, irq, flags, hist, hw
    <3>3. QED
      BY <1>1, <3>1, <3>2 DEF AccountingInv
  <2>11. CASE Wait1Wfi
    <3>1. Accounting'
      BY <1>0, <2>11, AccountingFrame DEF Wait1Wfi, Goto, irq, flags, hist, hw
    <3>2. PreLaunchQuiet'
      BY <1>0, <2>11 DEF Wait1Wfi, AfterWfi, PreLaunchQuiet, PreLaunch, irq, flags, hist, hw
    <3>3. QED
      BY <1>1, <3>1, <3>2 DEF AccountingInv
  <2>12. CASE Wait1Unmask
    <3>1. Accounting'
      BY <1>0, <2>12, AccountingFrame DEF Wait1Unmask, Goto, irq, flags, hist, hw
    <3>2. PreLaunchQuiet'
      BY <1>0, <2>12 DEF Wait1Unmask, Goto, PreLaunchQuiet, PreLaunch, irq, flags, hist, hw
    <3>3. QED
      BY <1>1, <3>1, <3>2 DEF AccountingInv
  <2>13. CASE EnableExtIrq
    <3>1. Accounting'
      BY <1>0, <2>13, AccountingFrame DEF EnableExtIrq, Goto, irq, flags, hist, hw
    <3>2. PreLaunchQuiet'
      BY <1>0, <2>13 DEF EnableExtIrq, Goto, PreLaunchQuiet, PreLaunch, irq, flags, hist, hw
    <3>3. QED
      BY <1>1, <3>1, <3>2 DEF AccountingInv
  <2>14. CASE WidenLevels
    <3>1. Accounting'
      BY <1>0, <2>14, AccountingFrame DEF WidenLevels, Goto, irq, flags, hist, hw
    <3>2. PreLaunchQuiet'
      BY <1>0, <2>14 DEF WidenLevels, Goto, PreLaunchQuiet, PreLaunch, irq, flags, hist, hw
    <3>3. QED
      BY <1>1, <3>1, <3>2 DEF AccountingInv
  <2>15. CASE EnableBypass
    <3>1. Accounting'
      BY <1>0, <2>15, AccountingFrame DEF EnableBypass, Goto, irq, flags, hist, hw
    <3>2. PreLaunchQuiet'
      BY <1>0, <2>15 DEF EnableBypass, Goto, PreLaunchQuiet, PreLaunch, irq, flags, hist, hw
    <3>3. QED
      BY <1>1, <3>1, <3>2 DEF AccountingInv
  <2>16. CASE Wait2Test
    <3>1. Accounting'
      BY <1>0, <2>16, AccountingFrame DEF Wait2Test, Goto, irq, flags, hist, hw
    <3>2. PreLaunchQuiet'
      BY <1>0, <2>16 DEF Wait2Test, Goto, PreLaunchQuiet, PreLaunch, irq, flags, hist, hw
    <3>3. QED
      BY <1>1, <3>1, <3>2 DEF AccountingInv
  <2>17. CASE Wait2Mask
    <3>1. Accounting'
      BY <1>0, <2>17, AccountingFrame DEF Wait2Mask, Goto, irq, flags, hist, hw
    <3>2. PreLaunchQuiet'
      BY <1>0, <2>17 DEF Wait2Mask, Goto, PreLaunchQuiet, PreLaunch, irq, flags, hist, hw
    <3>3. QED
      BY <1>1, <3>1, <3>2 DEF AccountingInv
  <2>18. CASE Wait2Recheck
    <3>1. Accounting'
      BY <1>0, <2>18, AccountingFrame DEF Wait2Recheck, Goto, irq, flags, hist, hw
    <3>2. PreLaunchQuiet'
      BY <1>0, <2>18 DEF Wait2Recheck, Goto, PreLaunchQuiet, PreLaunch, irq, flags, hist, hw
    <3>3. QED
      BY <1>1, <3>1, <3>2 DEF AccountingInv
  <2>19. CASE Wait2Wfi
    <3>1. Accounting'
      BY <1>0, <2>19, AccountingFrame DEF Wait2Wfi, Goto, irq, flags, hist, hw
    <3>2. PreLaunchQuiet'
      BY <1>0, <2>19 DEF Wait2Wfi, AfterWfi, PreLaunchQuiet, PreLaunch, irq, flags, hist, hw
    <3>3. QED
      BY <1>1, <3>1, <3>2 DEF AccountingInv
  <2>20. CASE Wait2Unmask
    <3>1. Accounting'
      BY <1>0, <2>20, AccountingFrame DEF Wait2Unmask, Goto, irq, flags, hist, hw
    <3>2. PreLaunchQuiet'
      BY <1>0, <2>20 DEF Wait2Unmask, Goto, PreLaunchQuiet, PreLaunch, irq, flags, hist, hw
    <3>3. QED
      BY <1>1, <3>1, <3>2 DEF AccountingInv
  <2>21. CASE StopSystem
    <3>1. Accounting'
      BY <1>0, <2>21, AccountingFrame DEF StopSystem, Goto, irq, flags, hist, hw
    <3>2. PreLaunchQuiet'
      BY <1>0, <2>21 DEF StopSystem, Goto, PreLaunchQuiet, PreLaunch, irq, flags, hist, hw
    <3>3. QED
      BY <1>1, <3>1, <3>2 DEF AccountingInv
  <2>22. QED
    BY <1>2, <2>1, <2>2, <2>3, <2>4, <2>5, <2>6, <2>7, <2>8, <2>9, <2>10, <2>11, <2>12, <2>13, <2>14, <2>15, <2>16, <2>17, <2>18, <2>19, <2>20, <2>21 DEF MainStep
<1>3. CASE Handler
  <2>1. CASE dma_intr_handler_window_done
    <3>1. Accounting'
      BY <1>0, <2>1 DEF dma_intr_handler_window_done, TakeTrap, hist, Accounting, Count, Irqs
    <3>2. pc' \in PreLaunch => pc \in PreLaunch
      BY <2>1 DEF dma_intr_handler_window_done, TakeTrap, ResumeAt, AfterWfi, PreLaunch
    <3>3. PreLaunchQuiet'
      BY <1>0, <2>1, <3>2 DEF dma_intr_handler_window_done, TakeTrap, PreLaunchQuiet, hist, hw
    <3>4. QED
      BY <1>1, <3>1, <3>3 DEF AccountingInv
  <2>2. CASE dma_intr_handler_trans_done
    <3>1. Accounting'
      BY <1>0, <2>2 DEF dma_intr_handler_trans_done, TakeTrap, hist, Accounting, Count, Irqs
    <3>2. pc' \in PreLaunch => pc \in PreLaunch
      BY <2>2 DEF dma_intr_handler_trans_done, TakeTrap, ResumeAt, AfterWfi, PreLaunch
    <3>3. PreLaunchQuiet'
      BY <1>0, <2>2, <3>2 DEF dma_intr_handler_trans_done, TakeTrap, PreLaunchQuiet, hist, hw
    <3>4. QED
      BY <1>1, <3>1, <3>3 DEF AccountingInv
  <2>3. CASE fic_irq_ext_peripheral
    <3>1. Accounting'
      BY <1>0, <2>3 DEF fic_irq_ext_peripheral, TakeTrap, hist, Accounting, Count, Irqs
    <3>2. pc' \in PreLaunch => pc \in PreLaunch
      BY <2>3 DEF fic_irq_ext_peripheral, TakeTrap, ResumeAt, AfterWfi, PreLaunch
    <3>3. PreLaunchQuiet'
      BY <1>0, <2>3, <3>2 DEF fic_irq_ext_peripheral, TakeTrap, PreLaunchQuiet, hist, hw
    <3>4. QED
      BY <1>1, <3>1, <3>3 DEF AccountingInv
  <2>4. QED
    BY <1>3, <2>1, <2>2, <2>3 DEF Handler
<1>4. CASE AdcSample
  <2>1. PICK emit \in BOOLEAN, cross \in BOOLEAN :
          LET fired == {s \in Irqs :
                         \/ s = "win" /\ emit /\ wr_pos + 1 = WinDu
                         \/ s = "trans" /\ rd_pos + 1 = SizeDu
                         \/ s = "ext" /\ cross /\ dlc_bypass_en}
          IN /\ pending' = pending \cup fired
             /\ raised' = [s \in Irqs |-> IF s \in fired THEN raised[s] + 1 ELSE raised[s]]
             /\ lost' = [s \in Irqs |-> IF s \in fired \cap pending THEN lost[s] + 1 ELSE lost[s]]
    BY <1>4 DEF AdcSample
  <2>2. Accounting'
    BY <1>0, <1>4, <2>1 DEF AdcSample, flags, Accounting, Count, Irqs, TypeOK
  <2>3. PreLaunchQuiet'
    BY <1>0, <1>4 DEF AdcSample, PreLaunchQuiet
  <2>4. QED
    BY <1>1, <2>2, <2>3 DEF AccountingInv
<1>5. CASE UNCHANGED vars
  <2>1. Accounting'
    BY <1>0, <1>5, AccountingFrame DEF vars
  <2>2. PreLaunchQuiet'
    BY <1>0, <1>5 DEF vars, hw, PreLaunchQuiet
  <2>3. QED
    BY <1>1, <2>1, <2>2 DEF AccountingInv
<1>6. QED
  BY <1>2, <1>3, <1>4, <1>5 DEF Next

(* Every interrupt the hardware raises is counted, pending or absorbed:  *)
(* the flag reset before the ADC launch and the handlers' acknowledges   *)
(* never lose or invent an interrupt (Accounting, for all constants).    *)
THEOREM AccountingHolds == Spec => []Accounting
<1>1. Init => AccountingInv
  BY InitAccounting
<1>2. AccountingInv /\ [Next]_vars => AccountingInv'
  BY AccountingStep
<1>3. AccountingInv => Accounting
  BY DEF AccountingInv
<1>4. QED
  BY <1>1, <1>2, <1>3, PTL DEF Spec

(* The loop's exit condition in the form both halves of the proof use.   *)
Exit == pc' = "ext_en" => window_intr_flag + transactions_intr_flag >= WindowsToProcess

(* The initial state satisfies WaitInv: main() starts before the loop.   *)
LEMMA InitWait == Init => WaitInv
BY InitType DEF Init, WaitInv, Loop1, PostLoop1, Pcs, PreLaunch

(* Every step keeps WaitInv and takes main() to line 455 only with the   *)
(* flags at the target.                                                   *)
LEMMA WaitStep == WaitInv /\ [Next]_vars => WaitInv' /\ Exit
<1> SUFFICES ASSUME WaitInv, [Next]_vars PROVE WaitInv' /\ Exit
  OBVIOUS
<1> USE ConstAssumption
<1>0. TypeOK'
  BY TypeStep DEF WaitInv
<1> USE DEF WaitInv, Exit, Loop1, PostLoop1, PreLaunch, Pcs, TypeOK
<1>1. CASE MainStep
  <2>1. CASE ConfigureDac
    BY <1>0, <2>1 DEF ConfigureDac, Goto, irq, flags, regs, hist, hw
  <2>2. CASE EnableDmaIrqs
    BY <1>0, <2>2 DEF EnableDmaIrqs, Goto, irq, flags, regs, hist, hw
  <2>3. CASE LaunchDac
    BY <1>0, <2>3 DEF LaunchDac, Goto, irq, flags, regs, hist, hw
  <2>4. CASE ConfigureGate
    BY <1>0, <2>4 DEF ConfigureGate, Goto, irq, flags, regs, hist, hw
  <2>5. CASE PrepareAdc
    BY <1>0, <2>5 DEF PrepareAdc, Goto, irq, flags, regs, hist, hw
  <2>6. CASE LaunchAdc
    BY <1>0, <2>6 DEF LaunchAdc, Goto, irq, flags, regs, hist, hw
  <2>7. CASE Wait1Enter
    BY <1>0, <2>7 DEF Wait1Enter, Goto, irq, flags, regs, hist, hw
  <2>8. CASE Wait1Test
    BY <1>0, <2>8 DEF Wait1Test, Goto, ObservedSum, irq, flags, regs, hist, hw
  <2>9. CASE Wait1Mask
    BY <1>0, <2>9 DEF Wait1Mask, Goto, irq, flags, regs, hist, hw
  <2>10. CASE Wait1Recheck
    BY <1>0, <2>10 DEF Wait1Recheck, Goto, ObservedSum, irq, flags, regs, hist, hw
  <2>11. CASE Wait1Wfi
    BY <1>0, <2>11 DEF Wait1Wfi, Goto, AfterWfi, irq, flags, regs, hist, hw
  <2>12. CASE Wait1Unmask
    BY <1>0, <2>12 DEF Wait1Unmask, Goto, irq, flags, regs, hist, hw
  <2>13. CASE EnableExtIrq
    BY <1>0, <2>13 DEF EnableExtIrq, Goto, irq, flags, regs, hist, hw
  <2>14. CASE WidenLevels
    BY <1>0, <2>14 DEF WidenLevels, Goto, irq, flags, regs, hist, hw
  <2>15. CASE EnableBypass
    BY <1>0, <2>15 DEF EnableBypass, Goto, irq, flags, regs, hist, hw
  <2>16. CASE Wait2Test
    BY <1>0, <2>16 DEF Wait2Test, Goto, irq, flags, regs, hist, hw
  <2>17. CASE Wait2Mask
    BY <1>0, <2>17 DEF Wait2Mask, Goto, irq, flags, regs, hist, hw
  <2>18. CASE Wait2Recheck
    BY <1>0, <2>18 DEF Wait2Recheck, Goto, irq, flags, regs, hist, hw
  <2>19. CASE Wait2Wfi
    BY <1>0, <2>19 DEF Wait2Wfi, Goto, AfterWfi, irq, flags, regs, hist, hw
  <2>20. CASE Wait2Unmask
    BY <1>0, <2>20 DEF Wait2Unmask, Goto, irq, flags, regs, hist, hw
  <2>21. CASE StopSystem
    BY <1>0, <2>21 DEF StopSystem, Goto, irq, flags, regs, hist, hw
  <2>22. QED
    BY <1>1, <2>1, <2>2, <2>3, <2>4, <2>5, <2>6, <2>7, <2>8, <2>9, <2>10, <2>11, <2>12, <2>13, <2>14, <2>15, <2>16, <2>17, <2>18, <2>19, <2>20, <2>21 DEF MainStep
<1>2. CASE Handler
  <2>1. CASE dma_intr_handler_window_done
    BY <1>0, <2>1 DEF dma_intr_handler_window_done, TakeTrap, ResumeAt, AfterWfi
  <2>2. CASE dma_intr_handler_trans_done
    BY <1>0, <2>2 DEF dma_intr_handler_trans_done, TakeTrap, ResumeAt, AfterWfi
  <2>3. CASE fic_irq_ext_peripheral
    BY <1>0, <2>3 DEF fic_irq_ext_peripheral, TakeTrap, ResumeAt, AfterWfi
  <2>4. QED
    BY <1>2, <2>1, <2>2, <2>3 DEF Handler
<1>3. CASE AdcSample
  BY <1>0, <1>3 DEF AdcSample, flags
<1>4. CASE UNCHANGED vars
  BY <1>0, <1>4 DEF vars
<1>5. QED
  BY <1>1, <1>2, <1>3, <1>4 DEF Next

(* main() leaves the first wait loop (lines 440-447) only once the       *)
(* handlers have counted windows_to_process interrupts, for every build   *)
(* (reloading the flags or not) and every value of the constants.         *)
THEOREM WaitExitHolds == Spec => WaitExitJustified
<1>1. Init => WaitInv
  BY InitWait
<1>2. WaitInv /\ [Next]_vars => WaitInv'
  BY WaitStep
<1>3. WaitInv /\ [Next]_vars => [Exit]_vars
  BY WaitStep
<1>4. QED
  BY <1>1, <1>2, <1>3, PTL DEF Spec, WaitExitJustified, Exit
-----------------------------------------------------------------------------
(* Refinement of the Acquisition Session.                                *)

(* The session mode of each location.                                    *)
LEMMA ModeAtFacts ==
  ASSUME NEW p \in Pcs
  PROVE  /\ p \in PreLaunch \cup Loop1 => ModeAt(p) = "ACQUIRING"
         /\ p \notin PreLaunch \cup Loop1 \cup {"done", "fail"} => ModeAt(p) = "BYPASS"
         /\ p = "done" => ModeAt(p) = "DONE"
         /\ p = "fail" => ModeAt(p) = "FAILED"
BY DEF ModeAt, PreLaunch, Loop1

(* A step that keeps the mode and the three counters is a stutter of the *)
(* session.                                                                *)
LEMMA SessionStutter ==
  ASSUME ModeAt(pc') = ModeAt(pc),
         UNCHANGED <<window_intr_flag, transactions_intr_flag, xing_intr_flag>>
  PROVE  [Session!Next]_Session!vars
BY DEF Session!vars, SessionMode

(* Both invariants the refinement rests on.                              *)
RefInv == AccountingInv /\ WaitInv

(* Every step of DlcVco from RefInv is a session step or a stutter.      *)
LEMMA SessionStep == RefInv /\ [Next]_vars => [Session!Next]_Session!vars
<1> SUFFICES ASSUME RefInv, [Next]_vars PROVE [Session!Next]_Session!vars
  OBVIOUS
<1>0. /\ TypeOK /\ TypeOK' /\ Exit
      /\ Accounting /\ PreLaunchQuiet
  BY TypeStep, WaitStep DEF RefInv, AccountingInv, WaitInv
<1>a. pc \in Pcs /\ pc' \in Pcs
  BY <1>0 DEF TypeOK
<1> DEFINE Same == ModeAt(pc') = ModeAt(pc)
<1> DEFINE Keep == UNCHANGED <<window_intr_flag, transactions_intr_flag, xing_intr_flag>>
<1>1. ASSUME Same, Keep PROVE [Session!Next]_Session!vars
  BY <1>1, SessionStutter
<1>2. CASE ConfigureDac \/ EnableDmaIrqs \/ ConfigureGate \/ Wait1Mask \/ Wait1Recheck
           \/ Wait1Wfi \/ Wait1Unmask \/ EnableExtIrq \/ WidenLevels \/ EnableBypass
           \/ Wait2Test \/ Wait2Mask \/ Wait2Recheck \/ Wait2Wfi \/ Wait2Unmask
  <2>1. Keep
    BY <1>2 DEF ConfigureDac, EnableDmaIrqs, ConfigureGate, Wait1Mask, Wait1Recheck,
                Wait1Wfi, Wait1Unmask, EnableExtIrq, WidenLevels, EnableBypass,
                Wait2Test, Wait2Mask, Wait2Recheck, Wait2Wfi, Wait2Unmask, flags
  <2>2. Same
    BY <1>2 DEF ConfigureDac, EnableDmaIrqs, ConfigureGate, Wait1Mask, Wait1Recheck,
                Wait1Wfi, Wait1Unmask, EnableExtIrq, WidenLevels, EnableBypass,
                Wait2Test, Wait2Mask, Wait2Recheck, Wait2Wfi, Wait2Unmask, Goto,
                AfterWfi, ModeAt, PreLaunch, Loop1
  <2>3. QED
    BY <1>1, <2>1, <2>2
<1>3. CASE LaunchDac \/ LaunchAdc
  <2>1. Keep /\ pc \in PreLaunch /\ pc' \in {"gate_cfg", "w1_first", "fail"}
    BY <1>3 DEF LaunchDac, LaunchAdc, flags, PreLaunch
  <2>2. CASE pc' = "fail"
    <3>1. SessionMode = "ACQUIRING" /\ SessionMode' = "FAILED"
      BY <1>a, <2>1, <2>2, ModeAtFacts DEF SessionMode
    <3>2. QED
      BY <2>1, <3>1 DEF Session!Next, Session!Abort
  <2>3. CASE pc' # "fail"
    <3>1. Same
      BY <1>a, <2>1, <2>3, ModeAtFacts DEF Loop1, PreLaunch
    <3>2. QED
      BY <1>1, <2>1, <3>1
  <2>4. QED
    BY <2>2, <2>3
<1>4. CASE PrepareAdc
  <2>1. pc = "adc_prep" /\ pc' = "adc_launch"
    BY <1>4 DEF PrepareAdc, Goto
  <2>2. window_intr_flag = 0 /\ transactions_intr_flag = 0
    <3>1. \A s \in DmaIrqs : raised[s] = 0 /\ lost[s] = 0 /\ s \notin pending
      BY <1>0, <2>1 DEF PreLaunchQuiet, PreLaunch
    <3>2. QED
      BY <1>0, <3>1 DEF Accounting, Count, DmaIrqs, Irqs, TypeOK
  <2>3. Keep
    BY <1>4, <2>2 DEF PrepareAdc
  <2>4. QED
    BY <1>1, <2>1, <2>3 DEF ModeAt, PreLaunch, Loop1
<1>5. CASE Wait1Enter \/ Wait1Test
  <2>1. Keep /\ pc \in Loop1 /\ pc' \in {"w1_clear", "ext_en"}
    BY <1>5 DEF Wait1Enter, Wait1Test, flags, Loop1
  <2>2. CASE pc' = "ext_en"
    <3>1. SessionMode = "ACQUIRING" /\ SessionMode' = "BYPASS"
      BY <1>a, <2>1, <2>2, ModeAtFacts DEF SessionMode, PreLaunch, Loop1
    <3>2. window_intr_flag + transactions_intr_flag >= WindowsToProcess
      BY <1>0, <2>2 DEF Exit
    <3>3. QED
      BY <2>1, <3>1, <3>2 DEF Session!Next, Session!SwitchToBypass
  <2>3. CASE pc' = "w1_clear"
    BY <1>1, <2>1, <2>3 DEF ModeAt, PreLaunch, Loop1
  <2>4. QED
    BY <2>1, <2>2, <2>3
<1>6. CASE StopSystem
  <2>1. Keep /\ pc = "stop" /\ pc' = "done"
    BY <1>6 DEF StopSystem, Goto, flags
  <2>2. SessionMode = "BYPASS" /\ SessionMode' = "DONE"
    BY <1>a, <2>1, ModeAtFacts DEF SessionMode, PreLaunch, Loop1
  <2>3. QED
    BY <2>1, <2>2 DEF Session!Next, Session!Finalize
<1>7. CASE Handler
  <2>1. Same
    <3>1. pc' \in ResumeAt(pc)
      BY <1>7 DEF Handler, dma_intr_handler_window_done, dma_intr_handler_trans_done,
                  fic_irq_ext_peripheral, TakeTrap
    <3>2. QED
      BY <3>1 DEF ResumeAt, AfterWfi, ModeAt, PreLaunch, Loop1
  <2>2. SessionMode' = SessionMode
    BY <2>1 DEF SessionMode
  <2>3. CASE dma_intr_handler_window_done
    BY <2>2, <2>3 DEF dma_intr_handler_window_done, Session!Next, Session!CountWindow
  <2>4. CASE dma_intr_handler_trans_done
    BY <2>2, <2>4 DEF dma_intr_handler_trans_done, Session!Next, Session!CountTransaction
  <2>5. CASE fic_irq_ext_peripheral
    BY <2>2, <2>5 DEF fic_irq_ext_peripheral, Session!Next, Session!CountEvent
  <2>6. QED
    BY <1>7, <2>3, <2>4, <2>5 DEF Handler
<1>8. CASE AdcSample
  BY <1>1, <1>8 DEF AdcSample, flags
<1>9. CASE UNCHANGED vars
  BY <1>1, <1>9 DEF vars, flags
<1>10. QED
  BY <1>2, <1>3, <1>4, <1>5, <1>6, <1>7, <1>8, <1>9 DEF Next, MainStep

(* test_dlc_vco implements the Acquisition Session of the specification, *)
(* for every value of the constants and both builds: the counters start at*)
(* zero and change only by one handler increment (the reset of lines      *)
(* 351-352 finds them at zero), and the mode moves forward only as the    *)
(* session allows, bypass only once the flags reach windows_to_process.   *)
THEOREM SessionRefinedHolds == Spec => SessionRefined
<1>1. Init => RefInv
  BY InitAccounting, InitWait DEF RefInv
<1>2. RefInv /\ [Next]_vars => RefInv'
  BY AccountingStep, WaitStep DEF RefInv
<1>3. Init => Session!Init
  BY DEF Init, Session!Init, SessionMode, ModeAt, PreLaunch, Loop1
<1>4. RefInv /\ [Next]_vars => [Session!Next]_Session!vars
  BY SessionStep
<1>5. QED
  BY <1>1, <1>2, <1>3, <1>4, PTL DEF Spec, SessionRefined, Session!Spec
(* test_dlc_vco never lowers its counters once it has left the first wait *)
(* loop: in every state after the switch to bypass, and after the stop,   *)
(* window_intr_flag + transactions_intr_flag is at least                  *)
(* windows_to_process.  Inherited from the Acquisition Session through    *)
(* the refinement.                                                        *)
THEOREM SessionTargetKept == Spec => []Session!TargetKept
<1>1. WindowsToProcess \in Nat
  BY ConstAssumption
<1>2. QED
  BY <1>1, SessionRefinedHolds, Session!TargetKeptHolds, PTL DEF SessionRefined
=============================================================================
