--------------------------- MODULE MCParallelMove ---------------------------
(* Four registers and four moves are enough for two disjoint cycles, a     *)
(* cycle with a chain hanging off it and a fan-out; one non-register       *)
(* operand stands for them all.                                            *)
EXTENDS ParallelMove

CONSTANTS a, b, c, d, r10, r11, imm

MCReg == {a, b, c, d}
MCScratch == {r10, r11}
MCOperand == {imm}
=============================================================================
