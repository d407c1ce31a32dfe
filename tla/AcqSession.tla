----------------------------- MODULE AcqSession -----------------------------
(***************************************************************************)
(* The Acquisition Session of the specification (sections 3 and 4.1),     *)
(* the contract the acquisition programs promise: a target window count,  *)
(* the window, transaction and gate-event counts, and the session mode.   *)
(* The counts start at zero and only the interrupt handlers change them,  *)
(* one increment at a time; the Coordinator only moves the mode forward:  *)
(* ACQUIRING -> BYPASS once the window target is met, BYPASS -> DONE, or  *)
(* to FAILED on a fatal configuration or launch error while acquiring.    *)
(*                                                                         *)
(* The specification's BYPASS_ARMED and BYPASS_ACTIVE are one mode here:  *)
(* test_dlc_vco stops after any wake-up of its second wait (DlcVco's      *)
(* StopAfterGateEvent run), so the gate event is not part of the contract *)
(* the code keeps.  This module has no source lines of its own.           *)
(***************************************************************************)
EXTENDS Naturals, TLAPS

CONSTANT Target     \* the target window count (windows_to_process)

Modes == {"ACQUIRING", "BYPASS", "DONE", "FAILED"}

VARIABLES
  mode,             \* Session.mode
  windows,          \* observed window-completion count
  transactions,     \* observed transaction-completion count
  events            \* observed gate-event count

vars == <<mode, windows, transactions, events>>

TypeOK ==
  /\ mode \in Modes
  /\ windows \in Nat
  /\ transactions \in Nat
  /\ events \in Nat

Init ==
  /\ mode = "ACQUIRING"
  /\ windows = 0
  /\ transactions = 0
  /\ events = 0

(* A handler counts one interrupt; in any mode, since a pending source   *)
(* may still be taken after the mode has moved on.                        *)
CountWindow ==
  /\ windows' = windows + 1
  /\ UNCHANGED <<mode, transactions, events>>

CountTransaction ==
  /\ transactions' = transactions + 1
  /\ UNCHANGED <<mode, windows, events>>

CountEvent ==
  /\ events' = events + 1
  /\ UNCHANGED <<mode, windows, transactions>>

(* await_progress returned and switch_to_bypass ran: legal only once     *)
(* window_count + transaction_count >= target_windows.                    *)
SwitchToBypass ==
  /\ mode = "ACQUIRING"
  /\ windows + transactions >= Target
  /\ mode' = "BYPASS"
  /\ UNCHANGED <<windows, transactions, events>>

(* finalize: transfers stopped.                                          *)
Finalize ==
  /\ mode = "BYPASS"
  /\ mode' = "DONE"
  /\ UNCHANGED <<windows, transactions, events>>

(* A configuration or launch error ends the session.                     *)
Abort ==
  /\ mode = "ACQUIRING"
  /\ mode' = "FAILED"
  /\ UNCHANGED <<windows, transactions, events>>

Next ==
  \/ CountWindow \/ CountTransaction \/ CountEvent
  \/ SwitchToBypass \/ Finalize \/ Abort

(* Safety only: the session promises nothing about progress, since the   *)
(* sensor may stall.                                                       *)
Spec == Init /\ [][Next]_vars
-----------------------------------------------------------------------------
(* A session that has switched to bypass, or finished after it, has met   *)
(* its window target: the counters are never lowered after the switch.    *)
TargetKept == mode \in {"BYPASS", "DONE"} => windows + transactions >= Target

(* The inductive invariant behind TargetKept.                             *)
SessionInv == TypeOK /\ TargetKept

(* For every natural target, TargetKept holds in every state of a session;*)
(* DlcVco_proofs carries it over to the code through the refinement.      *)
LEMMA TargetKeptHolds == Target \in Nat => (Spec => []TargetKept)
<1> SUFFICES ASSUME Target \in Nat PROVE Spec => []TargetKept
  OBVIOUS
<1>1. Init => SessionInv
  BY DEF Init, SessionInv, TypeOK, TargetKept, Modes
<1>2. SessionInv /\ [Next]_vars => SessionInv'
  <2> SUFFICES ASSUME SessionInv, [Next]_vars PROVE SessionInv'
    OBVIOUS
  <2>1. CASE CountWindow
    BY <2>1 DEF CountWindow, SessionInv, TypeOK, TargetKept
  <2>5. CASE CountTransaction
    BY <2>5 DEF CountTransaction, SessionInv, TypeOK, TargetKept
  <2>6. CASE CountEvent
    BY <2>6 DEF CountEvent, SessionInv, TypeOK, TargetKept
  <2>2. CASE SwitchToBypass \/ Finalize \/ Abort
    BY <2>2 DEF SwitchToBypass, Finalize, Abort, SessionInv, TypeOK, TargetKept, Modes
  <2>3. CASE UNCHANGED vars
    BY <2>3 DEF vars, SessionInv, TypeOK, TargetKept
  <2>4. QED
    BY <2>1, <2>2, <2>3, <2>5, <2>6 DEF Next
<1>3. SessionInv => TargetKept
  BY DEF SessionInv
<1>4. QED
  BY <1>1, <1>2, <1>3, PTL DEF Spec
=============================================================================
