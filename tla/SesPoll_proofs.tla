--------------------------- MODULE SesPoll_proofs ---------------------------
(***************************************************************************)
(* Proofs about SesPoll for every NUMBER_OUTPUT, output bound and filter  *)
(* timing allowed by SesAssumption.                                        *)
(***************************************************************************)
EXTENDS SesPoll, TLAPS

(* The initial state satisfies MonoInv.                                   *)
LEMMA InitMono == Init => MonoInv
<1> SUFFICES ASSUME Init PROVE MonoInv
  OBVIOUS
<1>1. ses_output \in [Indices -> Ranks] /\ i \in 0 .. NumberOutput /\ produced \in Ranks
  BY SesAssumption DEF Init, Indices, Ranks
<1>2. ReadsMonotonic
  BY DEF Init, ReadsMonotonic
<1>3. QED
  BY <1>1, <1>2 DEF Init, MonoInv, TypeOK, Pcs

(* Every step keeps MonoInv.                                              *)
LEMMA MonoStep == MonoInv /\ [Next]_vars => MonoInv'
<1> SUFFICES ASSUME MonoInv, [Next]_vars PROVE MonoInv'
  OBVIOUS
<1>0. /\ NumberOutput \in Nat \ {0}
      /\ MaxOutputs \in Nat
  BY SesAssumption
<1>1. CASE StartFilter
  BY <1>0, <1>1 DEF StartFilter, MonoInv, TypeOK, ReadsMonotonic, Pcs
<1>2. CASE ReadyWait
  BY <1>0, <1>2 DEF ReadyWait, MonoInv, TypeOK, ReadsMonotonic, Pcs
<1>3. CASE Poll
  <2>1. CASE i < NumberOutput
    <3>2. /\ prev_val' = valid
          /\ UNCHANGED <<test, strobe_seen, ses_output, control, valid, produced>>
          /\ \/ RisingEdge(valid) /\ test = "basic" /\ pc' = "read" /\ i' = i
             \/ RisingEdge(valid) /\ test # "basic" /\ pc' = "poll" /\ i' = i + 1
             \/ ~RisingEdge(valid) /\ pc' = pc /\ i' = i
      BY <1>3, <2>1 DEF Poll
    <3>3. RisingEdge(valid) /\ test = "basic" /\ i > 0 => ses_output[i - 1] < produced
      <4>1. /\ pc = "poll"
            /\ i \in 0 .. NumberOutput
            /\ i > 0 => i - 1 \in Indices
        BY <1>0, <1>3 DEF Poll, MonoInv, TypeOK, Indices
      <4>2. i > 0 => ses_output[i - 1] \in Nat /\ produced \in Nat
        BY <4>1, <1>0 DEF MonoInv, TypeOK, Ranks
      <4>3. QED
        BY <4>1, <4>2 DEF MonoInv, RisingEdge
    <3>4. QED
      BY <1>0, <1>3, <2>1, <3>2, <3>3
         DEF Poll, RisingEdge, MonoInv, TypeOK, ReadsMonotonic, Pcs
  <2>5. CASE ~(i < NumberOutput)
    BY <1>0, <1>3, <2>5 DEF Poll, MonoInv, TypeOK, ReadsMonotonic, Pcs
  <2>6. QED
    BY <2>1, <2>5
<1>4. CASE ReadOutput
  <2>1. /\ pc = "read" /\ test = "basic" /\ i \in Indices /\ prev_val
        /\ produced \in 1 .. MaxOutputs
        /\ i > 0 => ses_output[i - 1] < produced
    BY <1>0, <1>4 DEF ReadOutput, MonoInv, TypeOK, Indices, Ranks
  <2>2. ses_output' \in [Indices -> Ranks] /\ ses_output'[i] = produced
        /\ \A j \in Indices \ {i} : ses_output'[j] = ses_output[j]
    BY <1>4, <2>1 DEF ReadOutput, MonoInv, TypeOK, Ranks
  <2>3. ReadsMonotonic'
    <3>1. \A j \in 0 .. i - 1 : ses_output[j] \in Nat /\ ses_output[j] > 0
                                /\ (j > 0 => ses_output[j - 1] < ses_output[j])
      BY <1>0, <2>1 DEF MonoInv, ReadsMonotonic, TypeOK, Indices, Ranks
    <3>2. i' = i + 1 /\ test' = "basic"
      BY <1>4, <2>1 DEF ReadOutput
    <3>3. \A j \in 0 .. i - 1 : ses_output'[j] = ses_output[j]
      BY <1>0, <2>1, <2>2 DEF Indices
    <3>4. SUFFICES ASSUME NEW j \in 0 .. i
                   PROVE  /\ ses_output'[j] > 0
                          /\ j > 0 => ses_output'[j - 1] < ses_output'[j]
      BY <1>0, <2>1, <3>2 DEF ReadsMonotonic, Indices
    <3>5. CASE j = i
      BY <2>1, <2>2, <3>3, <3>5, <1>0 DEF Indices
    <3>6. CASE j < i
      BY <2>1, <3>1, <3>3, <3>6, <1>0 DEF Indices
    <3>7. QED
      BY <2>1, <3>5, <3>6, <1>0 DEF Indices
  <2>4. QED
    BY <1>0, <1>4, <2>1, <2>2, <2>3 DEF ReadOutput, MonoInv, TypeOK, Pcs, Indices
<1>5. CASE Compare
  BY <1>0, <1>5 DEF Compare, MonoInv, TypeOK, ReadsMonotonic, Pcs
<1>6. CASE Produce
  <2>1. /\ produced' = produced + 1 /\ produced < MaxOutputs /\ valid'
        /\ UNCHANGED <<test, strobe_seen, pc, prev_val, i, ses_output, control>>
    BY <1>6 DEF Produce
  <2>2. produced \in Nat /\ i \in 0 .. NumberOutput
        /\ (i > 0 => ses_output[i - 1] \in Nat)
    BY <1>0 DEF MonoInv, TypeOK, Ranks, Indices
  <2>3. TypeOK'
    <3>1. produced' \in Ranks
      BY <1>0, <2>1, <2>2 DEF Ranks
    <3>2. valid' \in BOOLEAN /\ seen' \in BOOLEAN
      BY <1>6 DEF Produce
    <3>3. QED
      BY <2>1, <3>1, <3>2 DEF MonoInv, TypeOK
  <2>4. QED
    BY <1>0, <2>1, <2>2, <2>3 DEF MonoInv, ReadsMonotonic
<1>7. CASE Drop
  BY <1>0, <1>7 DEF Drop, MonoInv, TypeOK, ReadsMonotonic
<1>8. CASE UNCHANGED vars
  BY <1>8 DEF vars, MonoInv, TypeOK, ReadsMonotonic
<1>9. QED
  BY <1>1, <1>2, <1>3, <1>4, <1>5, <1>6, <1>7, <1>8 DEF Next, Program, Filter

-----------------------------------------------------------------------------
(* For every NUMBER_OUTPUT and whatever the filter's timing, the polling  *)
(* loop of basic_test.c never stores an output twice and stores them in   *)
(* the order the filter produced them: detect_rising_edge's prev_val      *)
(* cannot report a second edge for the output already read.               *)
THEOREM ReadsMonotonicHolds == Spec => []ReadsMonotonic
<1>1. Init => MonoInv
  BY InitMono
<1>2. MonoInv /\ [Next]_vars => MonoInv'
  BY MonoStep
<1>3. MonoInv => ReadsMonotonic
  BY DEF MonoInv
<1>4. QED
  BY <1>1, <1>2, <1>3, PTL DEF Spec

(* Every reachable state is well typed: the loop index never passes       *)
(* NUMBER_OUTPUT, so ses_output[i] is always inside the array.            *)
THEOREM TypeCorrect == Spec => []TypeOK
<1>1. MonoInv => TypeOK
  BY DEF MonoInv
<1>2. QED
  BY <1>1, InitMono, MonoStep, PTL DEF Spec
-----------------------------------------------------------------------------
(* ReadsInOrder.                                                          *)

(* The initial state satisfies OrderInv.                                  *)
LEMMA InitOrder == Init => OrderInv
<1> SUFFICES ASSUME Init PROVE OrderInv
  OBVIOUS
<1>1. MonoInv
  BY InitMono
<1>2. ReadsInOrder /\ LoopPhase
  BY DEF Init, ReadsInOrder, LoopPhase
<1>3. QED
  BY <1>1, <1>2 DEF OrderInv

(* No step changes the program or the filter's timing.                    *)
LEMMA ModeFixed == [Next]_vars => UNCHANGED <<test, strobe_seen>>
BY DEF Next, Program, Filter, vars, StartFilter, ReadyWait, Poll, ReadOutput,
       Compare, Produce, Drop

(* Every step keeps OrderInv.                                             *)
LEMMA OrderStep == OrderInv /\ [Next]_vars => OrderInv'
<1> SUFFICES ASSUME OrderInv, [Next]_vars PROVE OrderInv'
  OBVIOUS
<1>1. MonoInv'
  BY MonoStep DEF OrderInv
<1>2. SUFFICES ASSUME test = "basic", strobe_seen
               PROVE  ReadsInOrder' /\ LoopPhase'
  BY <1>1, ModeFixed DEF OrderInv
<1>0. MonoInv /\ ReadsInOrder /\ LoopPhase
  BY <1>2 DEF OrderInv, ReadsInOrder
<1>3. /\ MonoInv /\ ReadsInOrder /\ LoopPhase
      /\ NumberOutput \in Nat \ {0}
      /\ i \in 0 .. NumberOutput /\ produced \in Nat
      /\ prev_val \in BOOLEAN /\ valid \in BOOLEAN /\ seen \in BOOLEAN
      /\ test = "basic" /\ strobe_seen /\ test' = test /\ strobe_seen' = strobe_seen
  <2>1. TypeOK
    BY <1>0 DEF MonoInv
  <2>2. test = "basic" /\ strobe_seen /\ test' = test /\ strobe_seen' = strobe_seen
    BY <1>2, ModeFixed
  <2>3. QED
    BY <1>0, <2>1, <2>2, SesAssumption DEF TypeOK, Ranks
<1>4. CASE StartFilter
  BY <1>3, <1>4 DEF StartFilter, LoopPhase, ReadsInOrder
<1>5. CASE ReadyWait
  <2>1. i = 0
    BY <1>3, <1>5 DEF ReadyWait, MonoInv
  <2>2. QED
    BY <1>3, <1>5, <2>1 DEF ReadyWait, LoopPhase, ReadsInOrder
<1>6. CASE Poll
  <2>1. CASE i < NumberOutput
    <3>1. CASE produced = i + 1 /\ valid /\ ~seen /\ ~prev_val
      <4>1. RisingEdge(valid)
        BY <3>1 DEF RisingEdge
      <4>2. pc' = "read" /\ i' = i /\ prev_val' /\ seen' /\ valid'
            /\ UNCHANGED <<ses_output, produced>>
        BY <1>2, <1>6, <2>1, <3>1, <4>1 DEF Poll
      <4>3. QED
        BY <1>3, <3>1, <4>2 DEF LoopPhase, ReadsInOrder
    <3>2. CASE produced = i /\ i > 0 /\ (seen => prev_val = valid)
                                      /\ (~seen => prev_val /\ ~valid)
      <4>1. ~RisingEdge(valid)
        BY <3>2 DEF RisingEdge
      <4>2. pc' = "poll" /\ i' = i /\ prev_val' = valid /\ seen'
            /\ UNCHANGED <<ses_output, produced, valid>>
        BY <1>6, <2>1, <4>1 DEF Poll
      <4>3. QED
        BY <1>3, <3>2, <4>2 DEF LoopPhase, ReadsInOrder
    <3>3. QED
      BY <1>3, <1>6, <3>1, <3>2 DEF Poll, LoopPhase
  <2>2. CASE ~(i < NumberOutput)
    BY <1>3, <1>6, <2>2 DEF Poll, LoopPhase, ReadsInOrder
  <2>3. QED
    BY <2>1, <2>2
<1>7. CASE ReadOutput
  <2>1. /\ pc = "read" /\ i \in 0 .. NumberOutput - 1
        /\ produced = i + 1 /\ prev_val /\ (seen <=> valid)
    BY <1>3, <1>7 DEF ReadOutput, MonoInv, LoopPhase
  <2>2. /\ ses_output' = [ses_output EXCEPT ![i] = produced]
        /\ i' = i + 1 /\ pc' = "poll"
        /\ UNCHANGED <<prev_val, valid, produced, seen>>
    BY <1>7 DEF ReadOutput
  <2>3. ses_output \in [Indices -> Ranks]
    BY <1>3 DEF MonoInv, TypeOK
  <2>4. ReadsInOrder'
    <3>1. SUFFICES ASSUME NEW j \in 0 .. i PROVE ses_output'[j] = j + 1
      BY <1>3, <2>1, <2>2 DEF ReadsInOrder
    <3>2. CASE j = i
      BY <1>3, <2>1, <2>2, <2>3, <3>2 DEF Indices
    <3>3. CASE j # i
      BY <1>3, <2>1, <2>2, <2>3, <3>3 DEF Indices, ReadsInOrder
    <3>4. QED
      BY <3>2, <3>3
  <2>5. LoopPhase'
    <3>1. produced' = i' /\ i' > 0
      BY <1>3, <2>1, <2>2
    <3>2. /\ seen' => prev_val' = valid'
          /\ ~seen' => prev_val' /\ ~valid'
      BY <1>3, <2>1, <2>2, Zenon
    <3>3. QED
      BY <2>2, <3>1, <3>2 DEF LoopPhase
  <2>6. QED
    BY <2>4, <2>5
<1>8. CASE Compare
  BY <1>3, <1>8 DEF Compare, LoopPhase, ReadsInOrder
<1>9. CASE Produce
  <2>1. /\ control /\ ~valid /\ seen
        /\ valid' /\ ~seen' /\ produced' = produced + 1
        /\ UNCHANGED <<pc, prev_val, i, ses_output>>
    BY <1>2, <1>9 DEF Produce
  <2>2. pc \in {"ready", "poll", "cmp", "pass", "fail"}
    BY <1>3, <2>1 DEF LoopPhase, MonoInv, TypeOK, Pcs
  <2>3. QED
    BY <1>3, <2>1, <2>2 DEF LoopPhase, ReadsInOrder
<1>10. CASE Drop
  <2>1. /\ valid /\ seen /\ ~valid' /\ ~seen'
        /\ UNCHANGED <<pc, prev_val, i, ses_output, produced>>
    BY <1>2, <1>10 DEF Drop
  <2>2. QED
    BY <1>3, <2>1 DEF LoopPhase, ReadsInOrder
<1>11. CASE UNCHANGED vars
  BY <1>3, <1>11 DEF vars, LoopPhase, ReadsInOrder
<1>12. QED
  BY <1>4, <1>5, <1>6, <1>7, <1>8, <1>9, <1>10, <1>11 DEF Next, Program, Filter

(* When the filter holds every level of data-valid until the loop of      *)
(* basic_test.c has polled it once, the loop stores exactly the filter's  *)
(* outputs 1, 2, ..., i in ses_output[0 .. i - 1], for every              *)
(* NUMBER_OUTPUT: detect_rising_edge misses no output and sees none twice.*)
THEOREM ReadsInOrderHolds == Spec => []ReadsInOrder
<1>1. OrderInv => ReadsInOrder
  BY DEF OrderInv, ReadsInOrder
<1>2. QED
  BY <1>1, InitOrder, OrderStep, PTL DEF Spec
-----------------------------------------------------------------------------
(* The verdict of basic_test.                                             *)

(* Every step keeps VerdictInv and BasicVerdict.                          *)
LEMMA VerdictStep ==
  OrderInv /\ VerdictInv /\ BasicVerdict /\ [Next]_vars => VerdictInv' /\ BasicVerdict'
<1> SUFFICES ASSUME OrderInv, VerdictInv, BasicVerdict, [Next]_vars
             PROVE  VerdictInv' /\ BasicVerdict'
  OBVIOUS
<1>1. /\ TypeOK /\ NumberOutput \in Nat
      /\ test' = test /\ strobe_seen' = strobe_seen
  BY ModeFixed, SesAssumption DEF OrderInv, MonoInv
<1>2. CASE Poll
  <2>1. CASE i < NumberOutput
    BY <1>2, <2>1 DEF Poll, VerdictInv, BasicVerdict
  <2>2. CASE ~(i < NumberOutput)
    BY <1>1, <1>2, <2>2 DEF Poll, VerdictInv, BasicVerdict, TypeOK
  <2>3. QED
    BY <2>1, <2>2
<1>3. CASE Compare
  <2>1. /\ pc = "cmp" /\ i = NumberOutput
        /\ pc' = IF test = "extended" \/ \A j \in Indices : ses_output[j] = j + 1
                   THEN "pass" ELSE "fail"
        /\ i' = i
    BY <1>3 DEF Compare, VerdictInv
  <2>2. (test = "basic" /\ strobe_seen) => \A j \in Indices : ses_output[j] = j + 1
    BY <2>1 DEF OrderInv, ReadsInOrder, Indices
  <2>3. QED
    BY <1>1, <2>1, <2>2 DEF VerdictInv, BasicVerdict
<1>4. CASE StartFilter \/ ReadyWait \/ ReadOutput \/ Produce \/ Drop \/ UNCHANGED vars
  BY <1>1, <1>4 DEF StartFilter, ReadyWait, ReadOutput, Produce, Drop, vars,
                    VerdictInv, BasicVerdict
<1>5. QED
  BY <1>2, <1>3, <1>4 DEF Next, Program, Filter

(* When the filter holds every level of data-valid until the loop has     *)
(* polled it once, basic_test returns 0 for every NUMBER_OUTPUT: the      *)
(* comparison of lines 64-69 finds all NUMBER_OUTPUT stored outputs equal *)
(* to the ground truth.                                                   *)
THEOREM BasicVerdictHolds == Spec => []BasicVerdict
<1>1. Init => OrderInv /\ VerdictInv /\ BasicVerdict
  BY InitOrder DEF Init, VerdictInv, BasicVerdict
<1>2. OrderInv /\ VerdictInv /\ BasicVerdict /\ [Next]_vars
        => (OrderInv /\ VerdictInv /\ BasicVerdict)'
  BY OrderStep, VerdictStep
<1>3. QED
  BY <1>1, <1>2, PTL DEF Spec
=============================================================================
