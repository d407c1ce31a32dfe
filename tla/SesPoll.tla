------------------------------ MODULE SesPoll ------------------------------
(***************************************************************************)
(* The SES filter test, test_SES_filter: basic_test.c and extended_test.c *)
(* (with DEBUG_FROM_RTL, as extended_test.c defines it), and the rising-   *)
(* edge detector of util.c.  After starting the filter the test busy-waits *)
(* until the status reads {data valid, control} = 0b11, then polls the     *)
(* status and, on each rising edge of the data-valid bit, reads one output *)
(* (basic) or only counts it (extended).  No interrupts are involved.      *)
(*                                                                         *)
(* The filter is hardware (not in src/): it raises data-valid when a new  *)
(* output is in its data register and drops it later.  An output is      *)
(* identified by its rank k = 1, 2, ...; the ground truth of the basic    *)
(* test is the filter's own output sequence, so ses_output[i] must be     *)
(* output i + 1.                                                           *)
(***************************************************************************)
EXTENDS Naturals

CONSTANTS
  Tests,          \* the programs checked: a subset of {"basic", "extended"}
  NumberOutput,   \* NUMBER_OUTPUT (util.c line 10: 161 / 32 = 5)
  MaxOutputs,     \* bound on the outputs the filter produces
  StrobeModes     \* the filter timings checked (see strobe_seen)

ASSUME SesAssumption ==
  /\ Tests \subseteq {"basic", "extended"} /\ Tests # {}
  /\ NumberOutput \in Nat \ {0}
  /\ MaxOutputs \in Nat /\ MaxOutputs > NumberOutput
  /\ StrobeModes \subseteq BOOLEAN /\ StrobeModes # {}

Indices == 0 .. NumberOutput - 1
Ranks == 0 .. MaxOutputs

Pcs == {"start", "ready", "poll", "read", "cmp", "pass", "fail"}

VARIABLES
  test,         \* which program runs; never changes
  strobe_seen,  \* whether each level of data-valid lasts until the loop
                \* has polled it once; a property of the filter's timing
  pc,           \* location in basic_test() / extended_test()
  prev_val,     \* the static of detect_rising_edge
  i,            \* the output index of the polling loop
  ses_output,   \* ses_output[] of basic_test (ranks; 0 = never written)
  control,      \* the control bit of the filter
  valid,        \* the data-valid bit
  produced,     \* rank of the output in the data register
  seen          \* whether the current level of data-valid has been polled

vars == <<test, strobe_seen, pc, prev_val, i, ses_output, control, valid, produced, seen>>

(* Mutant: a level detector, true whenever the bit is set.              *)
RisingEdgeLevel(cur) == cur

(* detect_rising_edge(status, 0b10) (util.c lines 12-19): an edge is a    *)
(* data-valid bit set after a poll that saw it clear; prev_val follows.    *)
RisingEdge(cur) == ~prev_val /\ cur

TypeOK ==
  /\ test \in Tests
  /\ strobe_seen \in StrobeModes
  /\ pc \in Pcs
  /\ prev_val \in BOOLEAN
  /\ i \in 0 .. NumberOutput
  /\ ses_output \in [Indices -> Ranks]
  /\ control \in BOOLEAN
  /\ valid \in BOOLEAN
  /\ produced \in Ranks
  /\ seen \in BOOLEAN

(* Mutant: the static prev_val starts true.                              *)
InitPrevSet ==
  /\ test \in Tests
  /\ strobe_seen \in StrobeModes
  /\ pc = "start"
  /\ prev_val = TRUE
  /\ i = 0
  /\ ses_output = [j \in Indices |-> 0]
  /\ control = FALSE
  /\ valid = FALSE
  /\ produced = 0
  /\ seen = TRUE

Init ==
  /\ test \in Tests
  /\ strobe_seen \in StrobeModes
  /\ pc = "start"
  /\ prev_val = FALSE
  /\ i = 0
  /\ ses_output = [j \in Indices |-> 0]
  /\ control = FALSE
  /\ valid = FALSE
  /\ produced = 0
  /\ seen = TRUE

-----------------------------------------------------------------------------
(* Lines 19-34 of basic_test.c (16-31 of extended_test.c): parameters,   *)
(* then the control bit.                                                  *)
StartFilter ==
  /\ pc = "start"
  /\ control' = TRUE
  /\ pc' = "ready"
  /\ UNCHANGED <<test, strobe_seen, prev_val, i, ses_output, valid, produced, seen>>

(* Lines 37-40 (34-37): do status = SES_get_status(); while (status !=     *)
(* 0b11).  This poll does not go through detect_rising_edge.              *)
ReadyWait ==
  /\ pc = "ready"
  /\ pc' = IF control /\ valid THEN "poll" ELSE "ready"
  /\ UNCHANGED <<test, strobe_seen, prev_val, i, ses_output, control, valid, produced, seen>>

(* Mutants of Poll: the loop test i <= NUMBER_OUTPUT, and prev_val       *)
(* updated only when an edge is found.                                     *)
PollPastEnd ==
  /\ pc = "poll"
  /\ IF i <= NumberOutput
       THEN /\ prev_val' = valid
            /\ seen' = TRUE
            /\ IF RisingEdge(valid)
                 THEN IF test = "basic"
                        THEN pc' = "read" /\ UNCHANGED i
                        ELSE pc' = "poll" /\ i' = i + 1
                 ELSE UNCHANGED <<pc, i>>
       ELSE /\ pc' = "cmp"
            /\ UNCHANGED <<prev_val, seen, i>>
  /\ UNCHANGED <<test, strobe_seen, ses_output, control, valid, produced>>

PollStickyPrev ==
  /\ pc = "poll"
  /\ IF i < NumberOutput
       THEN /\ prev_val' = (prev_val \/ RisingEdge(valid))
            /\ seen' = TRUE
            /\ IF RisingEdge(valid)
                 THEN IF test = "basic"
                        THEN pc' = "read" /\ UNCHANGED i
                        ELSE pc' = "poll" /\ i' = i + 1
                 ELSE UNCHANGED <<pc, i>>
       ELSE /\ pc' = "cmp"
            /\ UNCHANGED <<prev_val, seen, i>>
  /\ UNCHANGED <<test, strobe_seen, ses_output, control, valid, produced>>

(* Lines 46-49 (53-56): the loop test while (i < NUMBER_OUTPUT), then one *)
(* status read through detect_rising_edge.  On an edge the basic test goes *)
(* on to read the data register; the extended test counts the edge (57).  *)
Poll ==
  /\ pc = "poll"
  /\ IF i < NumberOutput
       THEN /\ prev_val' = valid
            /\ seen' = TRUE
            /\ IF RisingEdge(valid)
                 THEN IF test = "basic"
                        THEN pc' = "read" /\ UNCHANGED i
                        ELSE pc' = "poll" /\ i' = i + 1
                 ELSE UNCHANGED <<pc, i>>
       ELSE /\ pc' = "cmp"
            /\ UNCHANGED <<prev_val, seen, i>>
  /\ UNCHANGED <<test, strobe_seen, ses_output, control, valid, produced>>

(* Lines 50-51 of basic_test.c: ses_output[i] = SES_get_filtered_output(); *)
(* i++.                                                                    *)
ReadOutput ==
  /\ pc = "read"
  /\ ses_output' = [ses_output EXCEPT ![i] = produced]
  /\ i' = i + 1
  /\ pc' = "poll"
  /\ UNCHANGED <<test, strobe_seen, prev_val, control, valid, produced, seen>>

(* Mutant of Compare: the ground truth is indexed one output early.      *)
CompareShifted ==
  /\ pc = "cmp"
  /\ control' = FALSE
  /\ pc' = IF test = "extended" \/ \A j \in Indices : ses_output[j] = j
             THEN "pass" ELSE "fail"
  /\ UNCHANGED <<test, strobe_seen, prev_val, i, ses_output, valid, produced, seen>>

(* Lines 55-74 of basic_test.c: the filter is stopped and the outputs are *)
(* compared with the ground truth, returning 1 at the first mismatch.     *)
(* extended_test.c lines 63-74: the filter is stopped, then return 0.     *)
Compare ==
  /\ pc = "cmp"
  /\ control' = FALSE
  /\ pc' = IF test = "extended" \/ \A j \in Indices : ses_output[j] = j + 1
             THEN "pass" ELSE "fail"
  /\ UNCHANGED <<test, strobe_seen, prev_val, i, ses_output, valid, produced, seen>>

-----------------------------------------------------------------------------
(* The filter (hardware): while running it puts its next output in the    *)
(* data register and raises data-valid; later it drops data-valid.  With   *)
(* strobe_seen, each level lasts until the loop has polled it once.        *)
Produce ==
  /\ control /\ ~valid
  /\ produced < MaxOutputs
  /\ strobe_seen => seen
  /\ valid' = TRUE
  /\ produced' = produced + 1
  /\ seen' = FALSE
  /\ UNCHANGED <<test, strobe_seen, pc, prev_val, i, ses_output, control>>

Drop ==
  /\ valid
  /\ strobe_seen => seen
  /\ valid' = FALSE
  /\ seen' = FALSE
  /\ UNCHANGED <<test, strobe_seen, pc, prev_val, i, ses_output, control, produced>>

-----------------------------------------------------------------------------
Program == StartFilter \/ ReadyWait \/ Poll \/ ReadOutput \/ Compare

Filter == Produce \/ Drop

Next == Program \/ Filter

(* The core keeps running the test, and a started filter keeps producing *)
(* and strobing (up to the bound).                                        *)
Spec == Init /\ [][Next]_vars /\ WF_vars(Program) /\ WF_vars(Filter)

-----------------------------------------------------------------------------
(* Properties.                                                            *)

(* Whatever the filter's timing, every edge of the polling loop of        *)
(* basic_test.c (lines 46-52) reads a newer output than the one before:   *)
(* no output is read twice and the outputs are stored in order.           *)
ReadsMonotonic ==
  test = "basic" =>
    \A j \in 0 .. i - 1 : /\ ses_output[j] > 0
                          /\ j > 0 => ses_output[j - 1] < ses_output[j]

(* When every level of data-valid is polled at least once, the loop reads *)
(* exactly the filter's outputs 1, 2, ..., none skipped, starting with the *)
(* one already valid when the ready-wait of lines 37-40 ends.             *)
ReadsInOrder ==
  (test = "basic" /\ strobe_seen) => \A j \in 0 .. i - 1 : ses_output[j] = j + 1

(* With that timing basic_test returns 0: the comparison of lines 64-69   *)
(* finds every stored output equal to SES_SIN_groundtruth.                *)
BasicVerdict ==
  (test = "basic" /\ strobe_seen /\ pc \in {"pass", "fail"}) => pc = "pass"

(* With that timing the polling loop ends: NUMBER_OUTPUT edges are        *)
(* eventually seen and the test returns.                                   *)
Termination == strobe_seen => <>(pc \in {"pass", "fail"})
-----------------------------------------------------------------------------
(* An inductive strengthening of TypeOK /\ ReadsMonotonic.  A poll of    *)
(* the basic test that follows the read of output L can see an edge only  *)
(* after the filter has produced a newer output: while the data register  *)
(* still holds L, a set data-valid bit has already been polled.  The edge *)
(* poll leaves prev_val set, so the read that follows keeps this so.      *)
MonoInv ==
  /\ TypeOK
  /\ ReadsMonotonic
  /\ valid => produced > 0
  /\ pc \in {"start", "ready"} => i = 0
  /\ pc = "read" => /\ test = "basic" /\ i < NumberOutput /\ prev_val
                    /\ produced > 0
                    /\ i > 0 => ses_output[i - 1] < produced
  /\ (test = "basic" /\ pc = "poll" /\ i > 0) =>
        /\ ses_output[i - 1] <= produced
        /\ (ses_output[i - 1] = produced /\ valid) => prev_val

(* The phase of the filter relative to the loop, behind ReadsInOrder.    *)
(* When every level of data-valid is polled once, the filter is never    *)
(* more than one output ahead of the loop: an output i + 1 not yet read   *)
(* is valid, unpolled and preceded by a polled low level (prev_val        *)
(* clear); once output i has been read, a polled level is what prev_val   *)
(* holds, and an unpolled one is the drop that follows the read.  Before  *)
(* the loop only output 1 can appear.                                     *)
LoopPhase ==
  /\ pc = "start" => ~control /\ produced = 0 /\ ~valid /\ seen /\ ~prev_val
  /\ pc = "ready" => /\ ~prev_val
                     /\ \/ produced = 0 /\ ~valid /\ seen
                        \/ produced = 1 /\ valid /\ ~seen
  /\ pc = "read" => produced = i + 1 /\ prev_val /\ (seen <=> valid)
  /\ pc \in {"poll", "cmp", "pass", "fail"} =>
       \/ produced = i + 1 /\ valid /\ ~seen /\ ~prev_val
       \/ /\ produced = i /\ i > 0
          /\ seen => prev_val = valid
          /\ ~seen => prev_val /\ ~valid

(* The comparison runs with the loop index at NUMBER_OUTPUT.             *)
VerdictInv == pc \in {"cmp", "pass", "fail"} => i = NumberOutput

(* The inductive strengthening of ReadsInOrder.                           *)
OrderInv ==
  /\ MonoInv
  /\ (test = "basic" /\ strobe_seen) => ReadsInOrder /\ LoopPhase
=============================================================================
