--------------------------- MODULE ParallelAssign ---------------------------
(***************************************************************************)
(* What codegen_utils_emit_call_args promises to its callers, the CALL,    *)
(* JMP and BR handlers of the backend: all the sources are read, then all  *)
(* the target registers are written, at once.                              *)
(***************************************************************************)
EXTENDS Integers

CONSTANTS Reg, Operand, MaxMoves

VARIABLES
    dst,    \* the register each move writes
    src,    \* the register or operand each move reads
    regs,   \* the program's registers, as seen by the callers
    phase   \* "idle", "called" or "done"

vars == <<dst, src, regs, phase>>

Read(x) == IF x \in Operand THEN x ELSE regs[x]

Init ==
    /\ dst = [k \in 1..0 |-> 0]
    /\ src = [k \in 1..0 |-> 0]
    /\ regs = [x \in Reg |-> x]
    /\ phase = "idle"

\* A caller asks for some moves into different registers.
Call ==
    /\ phase = "idle"
    /\ \E m \in 0..MaxMoves :
          /\ dst' \in [1..m -> Reg]
          /\ src' \in [1..m -> Reg \cup Operand]
          /\ phase' = IF m = 0 THEN "done" ELSE "called"
    /\ \A j, k \in DOMAIN dst' : dst'[j] = dst'[k] => j = k
    /\ UNCHANGED regs

\* The simultaneous assignment.
Assign ==
    /\ phase = "called"
    /\ regs' \in [Reg -> Reg \cup Operand]
    /\ \A k \in DOMAIN dst : regs'[dst[k]] = Read(src[k])
    /\ \A x \in Reg : (\A k \in DOMAIN dst : dst[k] # x) => regs'[x] = regs[x]
    /\ phase' = "done"
    /\ UNCHANGED <<dst, src>>

\* The callers compare the registers with what they held at the call.
Return ==
    /\ phase = "done"
    /\ dst' = [k \in 1..0 |-> 0]
    /\ src' = [k \in 1..0 |-> 0]
    /\ regs' = [x \in Reg |-> x]
    /\ phase' = "idle"

Next == Call \/ Assign \/ Return

Spec == Init /\ [][Next]_vars
=============================================================================
