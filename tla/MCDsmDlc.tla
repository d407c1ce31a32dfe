------------------------------ MODULE MCDsmDlc ------------------------------
(***************************************************************************)
(* DsmDlc for TLC.  The code's window of 50 writes, transaction of 64     *)
(* reads, target of 5 interrupts and 204-byte buffer are scaled down to   *)
(* 2, 3, 2 and 6 bytes: a window and a transaction end can coincide and    *)
(* coalesce, the target needs two interrupts, and one transaction can      *)
(* write the three golden bytes (the golden sequence is the code's own).  *)
(* The dLC's output is one of the golden bytes; an uninitialised stack     *)
(* byte is 0 or 255.                                                       *)
(***************************************************************************)
EXTENDS DsmDlc

MCWinDu == 2
MCSizeDu == 3
MCWindowsToProcess == 2
MCGolden == <<61, 101, 213>>
MCBufBytes == 6
MCDlcBytes == {61, 101, 213}
MCStackBytes == {0, 255}
MCMaxSamples == 5
=============================================================================
