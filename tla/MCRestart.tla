------------------------------ MODULE MCRestart ------------------------------
(***************************************************************************)
(* The chain of MCScanner for ScannerRestart.                              *)
(***************************************************************************)
EXTENDS MCScanner, ScannerRestart
=============================================================================
