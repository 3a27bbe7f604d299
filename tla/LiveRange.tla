----------------------------- MODULE LiveRange -----------------------------
(***************************************************************************)
(* opt_run_live_range_analysis: the interval of instructions in which each *)
(* vreg needs a place of its own.  The liveness analysis runs first; then  *)
(* one walk goes through the blocks from the last to the first, and in     *)
(* each from the last instruction to the first, and stretches the          *)
(* intervals over what it meets.                                           *)
(*                                                                         *)
(* fn.id holds the numbers that lower_function gave to the instructions of *)
(* each block; they rise along the layout.  A removed instruction stays in *)
(* its place as a NOP, which has no operands.  fn.loopEnd is the number of *)
(* the block's loop_tail_instruction, -1 for a block that is in no loop or *)
(* has none.  Weights are left out.                                        *)
(***************************************************************************)
EXTENDS Liveness

ASSUME LayoutAssumption ==
    \A f \in Inputs :
        /\ f.params \subseteq Vreg
        /\ f.loopEnd \in [1..f.n -> Int]
        /\ \A c \in 1..f.n : \A i \in 1..Len(f.code[c]) :
              /\ f.id[c][i] \in Nat
              /\ \A j \in 1..Len(f.code[c]) : i < j => f.id[c][i] < f.id[c][j]
              /\ \A d \in 1..f.n : \A j \in 1..Len(f.code[d]) : c < d => f.id[c][i] < f.id[d][j]

VARIABLES
    start,  \* live_interval.start; -1 until something sets it
    end,    \* live_interval.end
    at,     \* the block the walk is in; 0 when it is over
    inst    \* its next instruction, backwards; 0 when all are done

walk == <<start, end, at, inst>>

rangeVars == <<fn, uses, defs, liveIn, liveOut, b, k, changed, pc, start, end, at, inst>>

-----------------------------------------------------------------------------
Id(c, j) == fn.id[c][j]

Later(x, y) == IF x > y THEN x ELSE y

\* block_start_id and block_end_id: an empty block has no number of its own.
BlockStart(c) == IF fn.code[c] = << >> THEN 0 ELSE Id(c, 1)

BlockEnd(c) == IF fn.code[c] = << >> THEN 0 ELSE Id(c, Len(fn.code[c]))

RangeInit ==
    /\ Init
    /\ start = [v \in Vreg |-> IF v \in fn.params THEN 0 ELSE -1]
    /\ end = [v \in Vreg |-> -1]
    /\ at = fn.n
    /\ inst = IF fn.n = 0 THEN 0 ELSE Len(fn.code[fn.n])

\* opt_run_global_liveness, before anything is walked.
Analyse == Next /\ UNCHANGED walk

\* Faulty: a definition ends its interval only if there was none.
VisitInstructionReadOnly ==
    LET i == fn.code[at][inst]
        here == Id(at, inst)
    IN /\ pc = "done"
       /\ at >= 1
       /\ inst >= 1
       /\ end' = [v \in Vreg |->
                     IF v \in i.uses THEN Later(Later(end[v], fn.loopEnd[at]), here) ELSE end[v]]
       /\ start' = [v \in Vreg |-> IF v \in i.defs THEN here ELSE start[v]]
       /\ inst' = inst - 1
       /\ UNCHANGED <<vars, at>>

\* One instruction: a use stretches the end of the vreg to the instruction, and
\* in a loop to the tail of the loop; a definition starts the interval here,
\* whatever was found further down, and makes it at least one point long.
VisitInstruction ==
    LET i == fn.code[at][inst]
        here == Id(at, inst)
        used(v) == IF v \in i.uses THEN Later(Later(end[v], fn.loopEnd[at]), here) ELSE end[v]
    IN /\ pc = "done"
       /\ at >= 1
       /\ inst >= 1
       /\ end' = [v \in Vreg |-> IF v \in i.defs THEN Later(used(v), here) ELSE used(v)]
       /\ start' = [v \in Vreg |-> IF v \in i.defs THEN here ELSE start[v]]
       /\ inst' = inst - 1
       /\ UNCHANGED <<vars, at>>

\* Faulty: what is live into a block may start inside it.
VisitBordersOutOnly ==
    /\ pc = "done"
    /\ at >= 1
    /\ inst = 0
    /\ start' = start
    /\ end' = [v \in Vreg |-> IF v \in liveOut[at] THEN Later(end[v], BlockEnd(at)) ELSE end[v]]
    /\ at' = at - 1
    /\ inst' = IF at = 1 THEN 0 ELSE Len(fn.code[at - 1])
    /\ UNCHANGED vars

\* The borders of the block: what is live into it starts no later than the
\* block, what is live out of it ends no earlier.
VisitBorders ==
    /\ pc = "done"
    /\ at >= 1
    /\ inst = 0
    /\ start' = [v \in Vreg |->
                    IF v \in liveIn[at] /\ start[v] > BlockStart(at) THEN BlockStart(at) ELSE start[v]]
    /\ end' = [v \in Vreg |-> IF v \in liveOut[at] THEN Later(end[v], BlockEnd(at)) ELSE end[v]]
    /\ at' = at - 1
    /\ inst' = IF at = 1 THEN 0 ELSE Len(fn.code[at - 1])
    /\ UNCHANGED vars

RangeNext ==
    \/ Analyse
    \/ VisitInstruction
    \/ VisitBorders

RangeSpec == RangeInit /\ [][RangeNext]_rangeVars

\* Analysis and walk are sequential code.
RangeFairSpec == RangeSpec /\ WF_rangeVars(RangeNext)

-----------------------------------------------------------------------------
\* The types of the state; the walk stays inside the function, and no interval
\* ends before it starts (that of a parameter nobody reads has no end).
RangeTypeOK ==
    /\ start \in [Vreg -> Nat \cup {-1}]
    /\ end \in [Vreg -> Nat \cup {-1}]
    /\ at \in 0..fn.n
    /\ inst \in Nat
    /\ at >= 1 => inst <= Len(fn.code[at])
    /\ \A v \in Vreg : start[v] <= Later(end[v], 0)

\* intersects of the register allocator.
Meet(v, w) ==
    /\ -1 \notin {start[v], end[v], start[w], end[w]}
    /\ start[v] <= end[w]
    /\ start[w] <= end[v]

ReadFrom(c, j, v) ==
    \E m \in j..Len(fn.code[c]) :
        /\ v \in fn.code[c][m].uses
        /\ \A h \in j..(m - 1) : v \notin fn.code[c][h].defs

\* The vreg is still read after the first j instructions of block c.
LiveAfter(c, j) ==
    {v \in Vreg :
        \/ ReadFrom(c, j + 1, v)
        \/ /\ \A h \in (j + 1)..Len(fn.code[c]) : v \notin fn.code[c][h].defs
           /\ \E s \in fn.succ[c] : ReadLater(s, v)}

\* The vreg has a value at some time: it is a parameter or something writes it.
Born(v) == v \in fn.params \/ \E c \in Block : WrittenIn(c, v)

Finished == pc = "done" /\ at = 0

\* Whatever an instruction writes meets every vreg whose value is needed after
\* it: the allocator, which looks at the intervals only, never gives the two
\* one place.
WritesMeetTheLive ==
    Finished => \A c \in Block : \A j \in 1..Len(fn.code[c]) :
        \A w \in fn.code[c][j].defs : \A v \in LiveAfter(c, j) :
            Born(v) => Meet(v, w)

\* Parameters that are needed meet each other: they arrive together, and no two
\* of them are given one place.
ParametersMeet ==
    Finished /\ fn.n >= 1 => \A v, w \in fn.params \cap LiveAfter(1, 0) : Meet(v, w)

-----------------------------------------------------------------------------
(* The inductive invariant behind these properties. *)

\* The walk has been at instruction j of block c.
Visited(c, j) == at < c \/ (at = c /\ inst < j)

InstructionsCovered ==
    \A c \in Block : \A j \in 1..Len(fn.code[c]) : Visited(c, j) =>
        /\ \A v \in fn.code[c][j].uses : Id(c, j) <= end[v]
        /\ \A v \in fn.code[c][j].defs :
              start[v] \in 0..Id(c, j) /\ Id(c, j) <= end[v]

\* An empty block says nothing of where it starts, unless nothing is above it.
HasStart(c) == c = 1 \/ fn.code[c] # << >>

BordersCovered ==
    \A c \in Block : at < c =>
        /\ HasStart(c) => \A v \in liveIn[c] : start[v] <= BlockStart(c)
        /\ \A v \in liveOut[c] : BlockEnd(c) <= end[v]

ParametersStarted == \A v \in fn.params : start[v] >= 0

NotWalked ==
    pc # "done" => at = fn.n /\ inst = IF fn.n = 0 THEN 0 ELSE Len(fn.code[fn.n])

RangeIInv ==
    /\ IInv
    /\ RangeTypeOK
    /\ NotWalked
    /\ InstructionsCovered
    /\ BordersCovered
    /\ ParametersStarted
=============================================================================
