----------------------------- MODULE MCUartRead -----------------------------
(* Instances of UartRead for TLC *)
EXTENDS UartRead, TLC

StackSymmetry == Permutations(StackBlocks)
=============================================================================
