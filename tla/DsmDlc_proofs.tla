------------------------------ MODULE DsmDlc_proofs ------------------------------
(***************************************************************************)
(* Proofs about DsmDlc for every value of the constants that satisfies   *)
(* DsmAssumption.                                                         *)
(***************************************************************************)
EXTENDS DsmDlc, TLAPS

(* The initial state satisfies the strengthened type invariant.          *)
LEMMA InitTypeInv == Init => TypeInv
<1> SUFFICES ASSUME Init PROVE TypeInv
  OBVIOUS
<1> USE DsmAssumption
<1>1. dlc_results \in [0 .. BufBytes - 1 -> Bytes]
  BY DEF Init
<1>2. raised \in [Irqs -> Nat] /\ lost \in [Irqs -> Nat]
  BY DEF Init
<1>3. pc \in Pcs /\ rd_pos \in 0 .. SizeDu - 1 /\ wr_pos \in 0 .. WinDu - 1
      /\ wr_addr \in 0 .. SizeDu - 1 /\ samples \in 0 .. MaxSamples
  BY DEF Init, Pcs
<1>4. Len(Golden) \in Nat
  BY DEF Bytes
<1>5. i \in 0 .. Len(Golden) /\ errors \in 0 .. Len(Golden) /\ errors <= i
  BY <1>4 DEF Init
<1>6. QED
  BY <1>1, <1>2, <1>3, <1>5 DEF Init, TypeInv, TypeOK

(* Every step keeps it.                                                   *)
LEMMA TypeInvStep == TypeInv /\ [Next]_vars => TypeInv'
<1> SUFFICES ASSUME TypeInv, [Next]_vars PROVE TypeInv'
  OBVIOUS
<1> USE DsmAssumption DEF TypeInv, TypeOK
<1>1. CASE MainStep

  <2>1. CASE EnableIrqs
    BY <2>1 DEF EnableIrqs, Goto, Pcs, Irqs, cnt, hist, dma
  <2>2. CASE PrepareDma
    BY <2>2 DEF PrepareDma, Goto, Pcs, cnt, hist, dma
  <2>3. CASE LoadDma
    BY <2>3 DEF LoadDma, Goto, Pcs, DriverResults, cnt, hist, dma
  <2>4. CASE LaunchDma
    BY <2>4 DEF LaunchDma, Goto, Pcs, DriverResults, cnt, hist, dma
  <2>5. CASE StartFilter
    BY <2>5 DEF StartFilter, Goto, Pcs, cnt, hist, dma
  <2>6. CASE WaitTest
    BY <2>6 DEF WaitTest, Goto, Pcs, cnt, hist, dma
  <2>7. CASE WaitMask
    BY <2>7 DEF WaitMask, Goto, Pcs, cnt, hist, dma
  <2>8. CASE WaitRecheck
    BY <2>8 DEF WaitRecheck, Goto, Pcs, cnt, hist, dma
  <2>9. CASE WaitWfi
    BY <2>9 DEF WaitWfi, Goto, Pcs, cnt, hist, dma
  <2>10. CASE WaitUnmask
    BY <2>10 DEF WaitUnmask, Goto, Pcs, cnt, hist, dma
  <2>11. CASE Compare
    BY <2>11 DEF Compare, Goto, Pcs, cnt, hist, dma
  <2>12. CASE Report
    BY <2>12 DEF Report, Goto, Pcs, cnt, hist, dma
  <2>13. QED
    BY <1>1, <2>1, <2>2, <2>3, <2>4, <2>5, <2>6, <2>7, <2>8, <2>9, <2>10, <2>11, <2>12 DEF MainStep
<1>2. CASE Handler
  <2>1. CASE dma_intr_handler_window_done
    BY <2>1 DEF dma_intr_handler_window_done, TakeTrap, ResumeAt, Pcs, hist, dma
  <2>2. CASE dma_intr_handler_trans_done
    BY <2>2 DEF dma_intr_handler_trans_done, TakeTrap, ResumeAt, Pcs, hist, dma
  <2>3. QED
    BY <1>2, <2>1, <2>2 DEF Handler
<1>3. CASE DmaSample
  <2>1. PICK emit \in BOOLEAN, b \in DlcBytes :
          LET fired == {s \in Irqs : \/ s = "win" /\ emit /\ wr_pos + 1 = WinDu
                                     \/ s = "trans" /\ rd_pos + 1 = SizeDu}
          IN /\ pending' = pending \cup fired
             /\ raised' = [s \in Irqs |-> IF s \in fired THEN raised[s] + 1 ELSE raised[s]]
             /\ lost' = [s \in Irqs |-> IF s \in fired \cap pending THEN lost[s] + 1 ELSE lost[s]]
             /\ dlc_results' = IF emit THEN [dlc_results EXCEPT ![wr_addr] = b]
                               ELSE dlc_results
             /\ wr_pos' = IF emit THEN (wr_pos + 1) % WinDu ELSE wr_pos
             /\ wr_addr' = IF rd_pos + 1 = SizeDu THEN 0
                           ELSE IF emit THEN wr_addr + 1 ELSE wr_addr
    BY <1>3 DEF DmaSample
  <2>2. pending' \subseteq Irqs /\ raised' \in [Irqs -> Nat] /\ lost' \in [Irqs -> Nat]
    BY <2>1
  <2>3. dlc_results' \in [0 .. BufBytes - 1 -> Bytes]
    BY <2>1
  <2>4. wr_pos' \in 0 .. WinDu - 1
    BY <2>1
  <2>5. rd_pos' \in 0 .. SizeDu - 1 /\ samples' \in 0 .. MaxSamples
    BY <1>3 DEF DmaSample
  <2>6. wr_addr' <= rd_pos' /\ wr_addr' \in 0 .. SizeDu - 1
    <3>1. CASE rd_pos + 1 = SizeDu
      BY <1>3, <2>1, <3>1 DEF DmaSample
    <3>2. CASE rd_pos + 1 # SizeDu
      <4>0. rd_pos + 1 \in 0 .. SizeDu - 1
        BY <3>2
      <4>1. rd_pos' = rd_pos + 1
        BY <1>3, <3>2 DEF DmaSample
      <4>2. wr_addr' \in {wr_addr, wr_addr + 1}
        BY <2>1, <3>2
      <4>3. QED
        BY <3>2, <4>1, <4>2
    <3>3. QED
      BY <3>1, <3>2
  <2>7. QED
    BY <1>3, <2>2, <2>3, <2>4, <2>5, <2>6 DEF DmaSample, cnt
<1>4. CASE UNCHANGED vars
  BY <1>4 DEF vars, cnt, hist, dma
<1>5. QED
  BY <1>1, <1>2, <1>3, <1>4 DEF Next

(* TypeOK is an invariant of test_dsm_dlc's main() with its handlers and *)
(* the DMA: in particular the DMA never writes past the bytes it has read *)
(* in a transaction and the mismatch count never exceeds the golden size. *)
THEOREM TypeCorrect == Spec => []TypeOK
<1>1. Init => TypeInv
  BY InitTypeInv
<1>2. TypeInv /\ [Next]_vars => TypeInv'
  BY TypeInvStep
<1>3. TypeInv => TypeOK
  BY DEF TypeInv
<1>4. QED
  BY <1>1, <1>2, <1>3, PTL DEF Spec

(* A step that changes neither the counters, the pending bits nor the    *)
(* history keeps the accounting of both sources.                          *)
LEMMA AccountingFrame ==
  ASSUME Accounting,
         UNCHANGED <<window_intr_flag, transactions_intr_flag, pending, raised, lost>>
  PROVE  Accounting'
BY DEF Accounting, Count

(* The initial state satisfies AccountingInv.                            *)
LEMMA InitAccounting == Init => AccountingInv
<1> SUFFICES ASSUME Init PROVE AccountingInv
  OBVIOUS
<1>1. TypeInv
  BY InitTypeInv
<1>2. Accounting /\ PreLaunchQuiet
  BY DEF Init, Accounting, Count, PreLaunchQuiet, PreLaunch, Irqs
<1>3. QED
  BY <1>1, <1>2 DEF AccountingInv

(* Every step keeps it.                                                   *)
LEMMA AccountingStep == AccountingInv /\ [Next]_vars => AccountingInv'
<1> SUFFICES ASSUME AccountingInv, [Next]_vars PROVE AccountingInv'
  OBVIOUS
<1>0. TypeInv /\ Accounting /\ PreLaunchQuiet
  BY DEF AccountingInv
<1>1. TypeInv'
  BY <1>0, TypeInvStep
<1>2. CASE MainStep
  <2>1. CASE EnableIrqs
    <3>1. Accounting'
      BY <1>0, <2>1, AccountingFrame DEF EnableIrqs, Goto, cnt, hist, dma
    <3>2. PreLaunchQuiet'
      BY <1>0, <2>1 DEF EnableIrqs, Goto, Irqs, cnt, hist, dma, PreLaunchQuiet, PreLaunch
    <3>3. QED
      BY <1>1, <3>1, <3>2 DEF AccountingInv
  <2>2. CASE PrepareDma
    <3>1. Accounting'
      BY <1>0, <2>2 DEF PrepareDma, Goto, cnt, hist, dma, Accounting, Count, PreLaunchQuiet, PreLaunch
    <3>2. PreLaunchQuiet'
      BY <1>0, <2>2 DEF PrepareDma, Goto, cnt, hist, dma, PreLaunchQuiet, PreLaunch
    <3>3. QED
      BY <1>1, <3>1, <3>2 DEF AccountingInv
  <2>3. CASE LoadDma
    <3>1. Accounting'
      BY <1>0, <2>3, AccountingFrame DEF LoadDma, Goto, cnt, hist, dma
    <3>2. PreLaunchQuiet'
      BY <1>0, <2>3 DEF LoadDma, Goto, DriverResults, cnt, hist, dma, PreLaunchQuiet, PreLaunch
    <3>3. QED
      BY <1>1, <3>1, <3>2 DEF AccountingInv
  <2>4. CASE LaunchDma
    <3>1. Accounting'
      BY <1>0, <2>4, AccountingFrame DEF LaunchDma, Goto, cnt, hist, dma
    <3>2. PreLaunchQuiet'
      BY <1>0, <2>4 DEF LaunchDma, Goto, DriverResults, cnt, hist, dma, PreLaunchQuiet, PreLaunch
    <3>3. QED
      BY <1>1, <3>1, <3>2 DEF AccountingInv
  <2>5. CASE StartFilter
    <3>1. Accounting'
      BY <1>0, <2>5, AccountingFrame DEF StartFilter, Goto, cnt, hist, dma
    <3>2. PreLaunchQuiet'
      BY <1>0, <2>5 DEF StartFilter, Goto, cnt, hist, dma, PreLaunchQuiet, PreLaunch
    <3>3. QED
      BY <1>1, <3>1, <3>2 DEF AccountingInv
  <2>6. CASE WaitTest
    <3>1. Accounting'
      BY <1>0, <2>6, AccountingFrame DEF WaitTest, Goto, cnt, hist, dma
    <3>2. PreLaunchQuiet'
      BY <1>0, <2>6 DEF WaitTest, Goto, cnt, hist, dma, PreLaunchQuiet, PreLaunch
    <3>3. QED
      BY <1>1, <3>1, <3>2 DEF AccountingInv
  <2>7. CASE WaitMask
    <3>1. Accounting'
      BY <1>0, <2>7, AccountingFrame DEF WaitMask, Goto, cnt, hist, dma
    <3>2. PreLaunchQuiet'
      BY <1>0, <2>7 DEF WaitMask, Goto, cnt, hist, dma, PreLaunchQuiet, PreLaunch
    <3>3. QED
      BY <1>1, <3>1, <3>2 DEF AccountingInv
  <2>8. CASE WaitRecheck
    <3>1. Accounting'
      BY <1>0, <2>8, AccountingFrame DEF WaitRecheck, Goto, cnt, hist, dma
    <3>2. PreLaunchQuiet'
      BY <1>0, <2>8 DEF WaitRecheck, Goto, cnt, hist, dma, PreLaunchQuiet, PreLaunch
    <3>3. QED
      BY <1>1, <3>1, <3>2 DEF AccountingInv
  <2>9. CASE WaitWfi
    <3>1. Accounting'
      BY <1>0, <2>9, AccountingFrame DEF WaitWfi, Goto, cnt, hist, dma
    <3>2. PreLaunchQuiet'
      BY <1>0, <2>9 DEF WaitWfi, Goto, cnt, hist, dma, PreLaunchQuiet, PreLaunch
    <3>3. QED
      BY <1>1, <3>1, <3>2 DEF AccountingInv
  <2>10. CASE WaitUnmask
    <3>1. Accounting'
      BY <1>0, <2>10, AccountingFrame DEF WaitUnmask, Goto, cnt, hist, dma
    <3>2. PreLaunchQuiet'
      BY <1>0, <2>10 DEF WaitUnmask, Goto, cnt, hist, dma, PreLaunchQuiet, PreLaunch
    <3>3. QED
      BY <1>1, <3>1, <3>2 DEF AccountingInv
  <2>11. CASE Compare
    <3>1. Accounting'
      BY <1>0, <2>11, AccountingFrame DEF Compare, Goto, cnt, hist, dma
    <3>2. PreLaunchQuiet'
      BY <1>0, <2>11 DEF Compare, Goto, cnt, hist, dma, PreLaunchQuiet, PreLaunch
    <3>3. QED
      BY <1>1, <3>1, <3>2 DEF AccountingInv
  <2>12. CASE Report
    <3>1. Accounting'
      BY <1>0, <2>12, AccountingFrame DEF Report, Goto, cnt, hist, dma
    <3>2. PreLaunchQuiet'
      BY <1>0, <2>12 DEF Report, Goto, cnt, hist, dma, PreLaunchQuiet, PreLaunch
    <3>3. QED
      BY <1>1, <3>1, <3>2 DEF AccountingInv
  <2>13. QED
    BY <1>2, <2>1, <2>2, <2>3, <2>4, <2>5, <2>6, <2>7, <2>8, <2>9, <2>10, <2>11, <2>12 DEF MainStep
<1>3. CASE Handler
  <2>1. CASE dma_intr_handler_window_done
    <3>1. Accounting'
      <4>1. Count("win")' = Count("win") + 1 /\ Count("trans")' = Count("trans")
        BY <2>1 DEF dma_intr_handler_window_done, Count
      <4>2. "win" \in pending /\ pending' = pending \ {"win"} /\ UNCHANGED <<raised, lost>>
        BY <2>1 DEF dma_intr_handler_window_done, TakeTrap, hist
      <4>3. QED
        <5> SUFFICES ASSUME NEW s \in Irqs
                     PROVE  Count(s)' + (IF s \in pending' THEN 1 ELSE 0) + lost'[s] = raised'[s]
          BY DEF Accounting
        <5>1. Count(s) + (IF s \in pending THEN 1 ELSE 0) + lost[s] = raised[s]
          BY <1>0 DEF Accounting
        <5>2. raised[s] \in Nat /\ lost[s] \in Nat /\ Count(s) \in Nat
          BY <1>0 DEF TypeInv, TypeOK, Count
        <5>3. CASE s = "win"
          BY <4>1, <4>2, <5>1, <5>2, <5>3
        <5>4. CASE s = "trans"
          BY <4>1, <4>2, <5>1, <5>2, <5>4
        <5>5. QED
          BY <5>3, <5>4 DEF Irqs
    <3>2. PreLaunchQuiet'
      BY <1>0, <2>1 DEF dma_intr_handler_window_done, TakeTrap, ResumeAt, PreLaunchQuiet, PreLaunch, hist, dma
    <3>3. QED
      BY <1>1, <3>1, <3>2 DEF AccountingInv
  <2>2. CASE dma_intr_handler_trans_done
    <3>1. Accounting'
      <4>1. Count("trans")' = Count("trans") + 1 /\ Count("win")' = Count("win")
        BY <2>2 DEF dma_intr_handler_trans_done, Count
      <4>2. "trans" \in pending /\ pending' = pending \ {"trans"} /\ UNCHANGED <<raised, lost>>
        BY <2>2 DEF dma_intr_handler_trans_done, TakeTrap, hist
      <4>3. QED
        <5> SUFFICES ASSUME NEW s \in Irqs
                     PROVE  Count(s)' + (IF s \in pending' THEN 1 ELSE 0) + lost'[s] = raised'[s]
          BY DEF Accounting
        <5>1. Count(s) + (IF s \in pending THEN 1 ELSE 0) + lost[s] = raised[s]
          BY <1>0 DEF Accounting
        <5>2. raised[s] \in Nat /\ lost[s] \in Nat /\ Count(s) \in Nat
          BY <1>0 DEF TypeInv, TypeOK, Count
        <5>3. CASE s = "trans"
          BY <4>1, <4>2, <5>1, <5>2, <5>3
        <5>4. CASE s = "win"
          BY <4>1, <4>2, <5>1, <5>2, <5>4
        <5>5. QED
          BY <5>3, <5>4 DEF Irqs
    <3>2. PreLaunchQuiet'
      BY <1>0, <2>2 DEF dma_intr_handler_trans_done, TakeTrap, ResumeAt, PreLaunchQuiet, PreLaunch, hist, dma
    <3>3. QED
      BY <1>1, <3>1, <3>2 DEF AccountingInv
  <2>3. QED
    BY <1>3, <2>1, <2>2 DEF Handler
<1>4. CASE DmaSample
  <2>1. PICK emit \in BOOLEAN, b \in DlcBytes :
          LET fired == {s \in Irqs : \/ s = "win" /\ emit /\ wr_pos + 1 = WinDu
                                     \/ s = "trans" /\ rd_pos + 1 = SizeDu}
          IN /\ pending' = pending \cup fired
             /\ raised' = [s \in Irqs |-> IF s \in fired THEN raised[s] + 1 ELSE raised[s]]
             /\ lost' = [s \in Irqs |-> IF s \in fired \cap pending THEN lost[s] + 1 ELSE lost[s]]
    BY <1>4 DEF DmaSample
  <2>2. Accounting'
    <3> SUFFICES ASSUME NEW s \in Irqs
                 PROVE  Count(s)' + (IF s \in pending' THEN 1 ELSE 0) + lost'[s] = raised'[s]
      BY DEF Accounting
    <3>1. Count(s)' = Count(s)
      BY <1>4 DEF DmaSample, cnt, Count
    <3>2. Count(s) + (IF s \in pending THEN 1 ELSE 0) + lost[s] = raised[s]
      BY <1>0 DEF Accounting
    <3>3. raised[s] \in Nat /\ lost[s] \in Nat /\ Count(s) \in Nat
      BY <1>0 DEF TypeInv, TypeOK, Count
    <3>4. QED
      BY <2>1, <3>1, <3>2, <3>3
  <2>3. PreLaunchQuiet'
    BY <1>0, <1>4 DEF DmaSample, PreLaunchQuiet
  <2>4. QED
    BY <1>1, <2>2, <2>3 DEF AccountingInv
<1>5. CASE UNCHANGED vars
  <2>1. Accounting'
    BY <1>0, <1>5, AccountingFrame DEF vars, cnt, hist
  <2>2. PreLaunchQuiet'
    BY <1>0, <1>5 DEF vars, dma, hist, PreLaunchQuiet
  <2>3. QED
    BY <1>1, <2>1, <2>2 DEF AccountingInv
<1>6. QED
  BY <1>2, <1>3, <1>4, <1>5 DEF Next

(* Every window or transaction interrupt the DMA raises is counted,     *)
(* still pending, or absorbed into a set pending bit; the flag reset of   *)
(* lines 164-165 never erases one (Accounting, for all constants).        *)
THEOREM AccountingHolds == Spec => []Accounting
<1>1. Init => AccountingInv
  BY InitAccounting
<1>2. AccountingInv /\ [Next]_vars => AccountingInv'
  BY AccountingStep
<1>3. AccountingInv => Accounting
  BY DEF AccountingInv
<1>4. QED
  BY <1>1, <1>2, <1>3, PTL DEF Spec
-----------------------------------------------------------------------------
(* The wait loop of lines 274-280.                                        *)

(* The step form of WaitExitJustified.                                   *)
Exit == (pc \in Loop /\ pc' = "cmp") => Sum >= WindowsToProcess

(* From a well-typed state, a step leaves the loop for the validation    *)
(* only through the loop test of line 274 with the target reached: the   *)
(* re-check, wfi and the handlers all resume inside the loop.             *)
LEMMA ExitStep == TypeInv /\ [Next]_vars => [Exit]_vars
<1> SUFFICES ASSUME TypeInv, [Next]_vars, pc \in Loop, pc' = "cmp"
             PROVE  Sum >= WindowsToProcess
  BY DEF Exit
<1>1. Sum \in Nat /\ WindowsToProcess \in Nat
  BY DsmAssumption DEF TypeInv, TypeOK, Sum
<1>2. CASE WaitTest
  BY <1>1, <1>2 DEF WaitTest
<1>3. CASE Handler
  <2>1. pc' \in ResumeAt(pc)
    BY <1>3 DEF Handler, dma_intr_handler_window_done, dma_intr_handler_trans_done, TakeTrap
  <2>2. QED
    BY <2>1 DEF ResumeAt, Loop
<1>4. CASE DmaSample \/ UNCHANGED vars
  BY <1>4 DEF DmaSample, vars, Loop
<1>5. CASE EnableIrqs \/ PrepareDma \/ LoadDma \/ LaunchDma \/ StartFilter
           \/ WaitMask \/ WaitRecheck \/ WaitWfi \/ WaitUnmask \/ Compare \/ Report
  BY <1>5 DEF EnableIrqs, PrepareDma, LoadDma, LaunchDma, StartFilter, WaitMask,
              WaitRecheck, WaitWfi, WaitUnmask, Compare, Report, Goto, Loop
<1>6. QED
  BY <1>2, <1>3, <1>4, <1>5 DEF Next, MainStep

(* The wait of test_dsm_dlc ends only once the two handlers have counted *)
(* windows_to_process interrupts between them, for every value of the    *)
(* constants: the masked re-check and wfi never let main() skip ahead.   *)
THEOREM WaitExitHolds == Spec => WaitExitJustified
<1>1. Init => TypeInv
  BY InitTypeInv
<1>2. TypeInv /\ [Next]_vars => TypeInv'
  BY TypeInvStep
<1>3. TypeInv /\ [Next]_vars => [Exit]_vars
  BY ExitStep
<1>4. QED
  BY <1>1, <1>2, <1>3, PTL DEF Spec, WaitExitJustified, Exit
=============================================================================
