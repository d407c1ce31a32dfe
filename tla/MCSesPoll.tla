------------------------------ MODULE MCSesPoll ------------------------------
(***************************************************************************)
(* SesPoll for TLC with the code's NUMBER_OUTPUT = 161 / 32 = 5; the      *)
(* filter may produce two more outputs than the test reads, so that it     *)
(* can run ahead of the polling loop.                                      *)
(***************************************************************************)
EXTENDS SesPoll

MCTests == {"basic", "extended"}
MCBasic == {"basic"}
MCBothTimings == {TRUE, FALSE}
MCShortStrobe == {FALSE}
MCNumberOutput == 5
MCMaxOutputs == 7
=============================================================================
