------------------------------ MODULE MCDlcVco ------------------------------
(* Small instances of DlcVco for TLC.  windows_to_process is 7 and       *)
(* win_du 50 in the code; 2 and 2 keep the wait loop's interesting cases *)
(* (several wake-ups before the target, back-to-back interrupts, a       *)
(* window and a transaction ending on the same sample) within 7 samples. *)
EXTENDS DlcVco

MCWinDu == 2
MCSizeDu == 3
MCWindowsToProcess == 2
MCLevelWidthBits == 7
MCMaxSamples == 7
=============================================================================
