------------------------------ MODULE Liveness ------------------------------
(***************************************************************************)
(* opt_run_global_liveness: which vregs are live at the borders of the     *)
(* blocks of a function.  Every block is first scanned for the vregs it    *)
(* reads before writing them and for those it writes; then live_in and     *)
(* live_out of the blocks are recomputed in place, from the last block of  *)
(* the layout to the first, until a round changes nothing.                 *)
(*                                                                         *)
(* A function is its blocks in layout order, each a sequence of            *)
(* instructions with the vregs and the stack slots they use and define     *)
(* (get_used_operands, get_defined_operands), and the successors that the  *)
(* control-flow analysis found.  The bit sets are indexed by               *)
(* get_operand_id, which is the number of the vreg or the number of the    *)
(* slot: both are counted from 0, so slots stand here under the name of    *)
(* the vreg with the same number.                                          *)
(***************************************************************************)
EXTENDS Integers, Sequences

CONSTANTS
    Vreg,    \* the vregs
    Inputs   \* the functions to analyse

Instruction ==
    [uses : SUBSET Vreg, defs : SUBSET Vreg, slotUses : SUBSET Vreg, slotDefs : SUBSET Vreg]

ASSUME InputsAssumption ==
    \A f \in Inputs :
        /\ f.n \in Nat
        /\ f.succ \in [1..f.n -> SUBSET (1..f.n)]
        /\ f.code \in [1..f.n -> Seq(Instruction)]

VARIABLES
    fn,        \* the function being analysed
    uses,      \* block->uses: read before it is written in the block
    defs,      \* block->defs: written in the block
    liveIn,    \* block->live_in
    liveOut,   \* block->live_out
    b,         \* the current block; 0 when the round is over
    k,         \* the current instruction of the local scan
    changed,   \* whether this round changed a live_in
    pc         \* "local", "global" or "done"

vars == <<fn, uses, defs, liveIn, liveOut, b, k, changed, pc>>

-----------------------------------------------------------------------------
Block == 1..fn.n

\* The numbers in the bit sets: whether an operand is a vreg or a slot is lost.
UsedIds(i) == i.uses \cup i.slotUses

DefinedIds(i) == i.defs \cup i.slotDefs

\* What is live at the end and at the start of block c, given L at the starts.
OutOf(c, L) == UNION {L[s] : s \in fn.succ[c]}

InOf(c, L) == uses[c] \cup (OutOf(c, L) \ defs[c])

Nothing == [c \in Block |-> {}]

Init ==
    /\ fn \in Inputs
    /\ uses = Nothing
    /\ defs = Nothing
    /\ liveIn = Nothing
    /\ liveOut = Nothing
    /\ b = fn.n
    /\ k = 1
    /\ changed = TRUE
    /\ pc = "local"

\* Faulty: an instruction's definitions are recorded before its uses.
ScanDefsFirst ==
    /\ pc = "local"
    /\ b >= 1
    /\ k <= Len(fn.code[b])
    /\ uses' = [uses EXCEPT ![b] =
                   @ \cup (UsedIds(fn.code[b][k]) \ (defs[b] \cup DefinedIds(fn.code[b][k])))]
    /\ defs' = [defs EXCEPT ![b] = @ \cup DefinedIds(fn.code[b][k])]
    /\ k' = k + 1
    /\ UNCHANGED <<fn, liveIn, liveOut, b, changed, pc>>

\* opt_compute_local_liveness, one instruction: its uses count unless the
\* vreg has been defined in the block before.
ScanInstruction ==
    /\ pc = "local"
    /\ b >= 1
    /\ k <= Len(fn.code[b])
    /\ uses' = [uses EXCEPT ![b] = @ \cup (UsedIds(fn.code[b][k]) \ defs[b])]
    /\ defs' = [defs EXCEPT ![b] = @ \cup DefinedIds(fn.code[b][k])]
    /\ k' = k + 1
    /\ UNCHANGED <<fn, liveIn, liveOut, b, changed, pc>>

\* The scan of block b has reached the end of its instructions.
BlockScanned ==
    /\ pc = "local"
    /\ b >= 1
    /\ k > Len(fn.code[b])
    /\ b' = b - 1
    /\ k' = 1
    /\ UNCHANGED <<fn, uses, defs, liveIn, liveOut, changed, pc>>

\* The first round of the fixpoint starts at the tail block.
AllScanned ==
    /\ pc = "local"
    /\ b = 0
    /\ pc' = "global"
    /\ b' = fn.n
    /\ changed' = FALSE
    /\ UNCHANGED <<fn, uses, defs, liveIn, liveOut, k>>

\* Faulty: only the last block of the round decides whether there is another.
UpdateBlockForgetting ==
    /\ pc = "global"
    /\ b >= 1
    /\ liveOut' = [liveOut EXCEPT ![b] = OutOf(b, liveIn)]
    /\ liveIn' = [liveIn EXCEPT ![b] = InOf(b, liveIn)]
    /\ changed' = (liveIn'[b] # liveIn[b])
    /\ b' = b - 1
    /\ UNCHANGED <<fn, uses, defs, k, pc>>

\* Faulty: what the block writes is not taken out of its live_in.
UpdateBlockUnkilled ==
    /\ pc = "global"
    /\ b >= 1
    /\ liveOut' = [liveOut EXCEPT ![b] = OutOf(b, liveIn)]
    /\ liveIn' = [liveIn EXCEPT ![b] = uses[b] \cup OutOf(b, liveIn)]
    /\ changed' = (changed \/ liveIn'[b] # liveIn[b])
    /\ b' = b - 1
    /\ UNCHANGED <<fn, uses, defs, k, pc>>

\* live_out and live_in of one block are recomputed in place.
UpdateBlock ==
    /\ pc = "global"
    /\ b >= 1
    /\ liveOut' = [liveOut EXCEPT ![b] = OutOf(b, liveIn)]
    /\ liveIn' = [liveIn EXCEPT ![b] = InOf(b, liveIn)]
    /\ changed' = (changed \/ liveIn'[b] # liveIn[b])
    /\ b' = b - 1
    /\ UNCHANGED <<fn, uses, defs, k, pc>>

\* Faulty: changed stays set.
NextRoundStale ==
    /\ pc = "global"
    /\ b = 0
    /\ changed
    /\ b' = fn.n
    /\ UNCHANGED <<fn, uses, defs, liveIn, liveOut, k, changed, pc>>

\* Something changed: all the blocks once more.
NextRound ==
    /\ pc = "global"
    /\ b = 0
    /\ changed
    /\ b' = fn.n
    /\ changed' = FALSE
    /\ UNCHANGED <<fn, uses, defs, liveIn, liveOut, k, pc>>

\* A round without a change ends the loop.
Finish ==
    /\ pc = "global"
    /\ b = 0
    /\ ~changed
    /\ pc' = "done"
    /\ UNCHANGED <<fn, uses, defs, liveIn, liveOut, b, k, changed>>

Next ==
    \/ ScanInstruction
    \/ BlockScanned
    \/ AllScanned
    \/ UpdateBlock
    \/ NextRound
    \/ Finish

Spec == Init /\ [][Next]_vars

\* The analysis is sequential code.
FairSpec == Spec /\ WF_vars(Next)

-----------------------------------------------------------------------------
\* The types of the state; the scan of a block starts at its head and stops
\* just behind its last instruction.
TypeOK ==
    /\ uses \in [Block -> SUBSET Vreg]
    /\ defs \in [Block -> SUBSET Vreg]
    /\ liveIn \in [Block -> SUBSET Vreg]
    /\ liveOut \in [Block -> SUBSET Vreg]
    /\ b \in 0..fn.n
    /\ k \in Nat \ {0}
    /\ (pc = "local" /\ b >= 1) => k <= Len(fn.code[b]) + 1
    /\ changed \in BOOLEAN
    /\ pc \in {"local", "global", "done"}

\* All the assignments that are closed under the equations of liveness.
Solutions ==
    {S \in [Block -> SUBSET Vreg] : \A c \in Block : InOf(c, S) \subseteq S[c]}

\* In no state is anything live that is not live in every solution: updating
\* in place, in whatever order, never overshoots.
NothingSuperfluous ==
    pc # "local" => \A S \in Solutions : \A c \in Block : liveIn[c] \subseteq S[c]

\* At the end live_in and live_out solve the equations, in all the blocks and
\* although the blocks were visited while the others still changed.
EquationsSolved ==
    pc = "done" => \A c \in Block :
        /\ liveIn[c] = InOf(c, liveIn)
        /\ liveOut[c] = OutOf(c, liveIn)

\* Read in the block by an instruction that no writing instruction precedes.
ReadFirst(c, v) ==
    \E j \in 1..Len(fn.code[c]) :
        /\ v \in fn.code[c][j].uses
        /\ \A h \in 1..(j - 1) : v \notin fn.code[c][h].defs

WrittenIn(c, v) == \E j \in 1..Len(fn.code[c]) : v \in fn.code[c][j].defs

\* Some path of m blocks from the start of c reads v in its last block, before
\* anything on it writes v.
ReadsAlong(m, c, v) ==
    \E path \in [1..m -> Block] :
        /\ path[1] = c
        /\ \A j \in 1..(m - 1) :
              path[j + 1] \in fn.succ[path[j]] /\ ~WrittenIn(path[j], v)
        /\ ReadFirst(path[m], v)

\* The value that v has at the start of c is still read on some path: on one
\* without a block twice, if at all.
ReadLater(c, v) == \E m \in 1..fn.n : ReadsAlong(m, c, v)

\* The result means what it should: a vreg is live at the start of a block iff
\* its value may still be read from there.
LiveIsReadLater ==
    pc = "done" => \A c \in Block, v \in Vreg : v \in liveIn[c] <=> ReadLater(c, v)

\* Once live, live: the rounds only add, so they come to an end.
OnlyGrows ==
    [][pc = "global" => \A c \in Block : liveIn[c] \subseteq liveIn'[c]]_vars

\* The fixpoint iteration ends.
Termination == <>(pc = "done")

\* No variable of the functions lives in a stack slot.
NoSlots ==
    \A f \in Inputs : \A c \in 1..f.n : \A j \in 1..Len(f.code[c]) :
        f.code[c][j].slotUses = {} /\ f.code[c][j].slotDefs = {}

-----------------------------------------------------------------------------
(* The inductive invariant behind these properties. *)

\* What is analysed is one of the functions, too.
WellTyped == fn \in Inputs /\ TypeOK

\* How many instructions of block c the local scan has seen.
Scanned(c) ==
    IF pc # "local" \/ c > b THEN Len(fn.code[c]) ELSE IF c = b THEN k - 1 ELSE 0

UsedFirst(c, m) ==
    {v \in Vreg : \E j \in 1..m :
        /\ v \in UsedIds(fn.code[c][j])
        /\ \A h \in 1..(j - 1) : v \notin DefinedIds(fn.code[c][h])}

DefinedBy(c, m) == {v \in Vreg : \E j \in 1..m : v \in DefinedIds(fn.code[c][j])}

\* uses and defs say exactly what the instructions seen so far do.
ScanExact ==
    \A c \in Block :
        uses[c] = UsedFirst(c, Scanned(c)) /\ defs[c] = DefinedBy(c, Scanned(c))

\* Recomputing a block can only add to it.
Ascending == \A c \in Block : liveIn[c] \subseteq InOf(c, liveIn)

\* While nothing has changed in a round, the blocks visited in it are solved.
VisitedSolved ==
    pc # "local" /\ ~changed => \A c \in Block :
        (b < c \/ pc = "done") =>
            liveIn[c] = InOf(c, liveIn) /\ liveOut[c] = OutOf(c, liveIn)

NotYetLive == pc = "local" => liveIn = Nothing

DoneUnchanged == pc = "done" => ~changed /\ b = 0

IInv ==
    /\ WellTyped
    /\ ScanExact
    /\ NothingSuperfluous
    /\ Ascending
    /\ VisitedSolved
    /\ NotYetLive
    /\ DoneUnchanged
=============================================================================
