----------------------------- MODULE LoweredRun -----------------------------
(***************************************************************************)
(* The blocks that lowering has made are executed, and have to do what the *)
(* source program does.  While the function is still being lowered the     *)
(* run waits.                                                              *)
(***************************************************************************)
EXTENDS Lowering

VARIABLES
    ib,      \* the block that is executed; 0 before the run
    index,   \* its next instruction
    vreg,    \* the values of the vregs; << >> in one that nothing has written
    memory,  \* the values of the variables in memory
    seen,    \* what the last use has seen
    flips    \* as in SourceProgram

run == <<ib, index, vreg, memory, seen, flips>>

runVars == <<prog, at, params, blocks, layout, block, current, frames, fresh, where, pc,
             ib, index, vreg, memory, seen, flips>>

P == INSTANCE SourceProgram WITH pos <- at, env <- current

-----------------------------------------------------------------------------
RunInit ==
    /\ Init
    /\ ib = 0
    /\ index = 0
    /\ vreg = << >>
    /\ memory = [v \in Var |-> IF prog.kind[v] = "global" THEN P!FirstValue(v) ELSE << >>]
    /\ seen = << >>
    /\ flips = {}

Compile == Next /\ UNCHANGED run

\* The caller has put the arguments into the parameters.
Start ==
    /\ pc = "lowered"
    /\ ib = 0
    /\ ib' = 1
    /\ index' = 1
    /\ vreg' = [r \in 0..(fresh - 1) |->
                   IF \E k \in DOMAIN params : params[k] = r
                   THEN P!FirstValue(prog.params[CHOOSE k \in DOMAIN params : params[k] = r]) ELSE << >>]
    /\ UNCHANGED <<vars, memory, seen, flips>>

Code == blocks[ib].code

\* The block behind the one that is executed.
Following == layout[1 + CHOOSE k \in DOMAIN layout : layout[k] = ib]

\* A block without a jump at its end runs on into the next one of the layout.
RunOn ==
    /\ ib # 0
    /\ index > Len(Code)
    /\ ib' = Following
    /\ index' = 1
    /\ UNCHANGED <<vars, vreg, memory, seen, flips>>

Instruction(op) ==
    /\ ib # 0
    /\ index <= Len(Code)
    /\ Code[index].op = op

\* What an instruction gives its destination: the value it reads, or a new one.
Result(i) == IF i.args = << >> THEN P!NewValue(i.at) ELSE vreg[i.args[1]]

Move ==
    LET i == Code[index]
    IN /\ Instruction("mov")
       /\ vreg' = [vreg EXCEPT ![i.dest] = Result(i)]
       /\ flips' = IF i.args = << >> THEN P!Flipped(i.at) ELSE flips
       /\ index' = index + 1
       /\ UNCHANGED <<vars, ib, memory, seen>>

Load ==
    LET i == Code[index]
    IN /\ Instruction("load")
       /\ vreg' = [vreg EXCEPT ![i.dest] = memory[i.var]]
       /\ index' = index + 1
       /\ UNCHANGED <<vars, ib, memory, seen, flips>>

Store ==
    LET i == Code[index]
    IN /\ Instruction("store")
       /\ memory' = [memory EXCEPT ![i.var] = Result(i)]
       /\ flips' = IF i.args = << >> THEN P!Flipped(i.at) ELSE flips
       /\ index' = index + 1
       /\ UNCHANGED <<vars, ib, vreg, seen>>

Alloca ==
    /\ Instruction("alloca")
    /\ index' = index + 1
    /\ UNCHANGED <<vars, ib, vreg, memory, seen, flips>>

Look ==
    LET i == Code[index]
    IN /\ Instruction("use")
       /\ seen' = [k \in DOMAIN i.args |-> vreg[i.args[k]]]
       /\ index' = index + 1
       /\ UNCHANGED <<vars, ib, vreg, memory, flips>>

\* All arguments are passed at once.
Jump ==
    LET i == Code[index]
        ps == blocks[i.to[1]].params
    IN /\ Instruction("jmp")
       /\ vreg' = [r \in DOMAIN vreg |->
                      IF \E k \in DOMAIN ps : ps[k] = r
                      THEN vreg[i.args[CHOOSE k \in DOMAIN ps : ps[k] = r]] ELSE vreg[r]]
       /\ ib' = i.to[1]
       /\ index' = 1
       /\ UNCHANGED <<vars, memory, seen, flips>>

\* Only the jump to the second block is emitted; the first is what follows.
Branch ==
    /\ Instruction("br")
    /\ ib' \in {Following, Code[index].to[2]}
    /\ index' = 1
    /\ UNCHANGED <<vars, vreg, memory, seen, flips>>

RunNext ==
    \/ Compile
    \/ Start
    \/ RunOn
    \/ Move
    \/ Load
    \/ Store
    \/ Alloca
    \/ Look
    \/ Jump
    \/ Branch

RunSpec == RunInit /\ [][RunNext]_runVars

-----------------------------------------------------------------------------
\* Execution has come to the function's body.
Arrived == ib > 1 /\ index <= Len(Code)

Position == IF Arrived THEN Code[index].at ELSE P!Stop(1)

\* Where lowering found variable v at the step that is executed, there its value
\* is now.
ValueOf(v) ==
    IF ~Arrived THEN P!FirstValue(v)
    ELSE IF where[Position][v] = Memory THEN memory[v]
    ELSE IF where[Position][v] = Null THEN << >>
    ELSE vreg[where[Position][v]]

Source == INSTANCE SourceProgram
    WITH pos <- Position, env <- [v \in P!Visible(Position) |-> ValueOf(v)]

\* On every path through the loops the instructions do what the source program
\* does, step by step, and every variable has its value where lowering left it:
\* lowering is right about the values on the paths that it never takes itself
\* (ir_lower.c:478-530).
ImplementsSource == Source!SourceSpec

\* Whatever path has led to a step, the vreg of each variable that is visible
\* there has been written on that path (ir_lower.c:520-526).
VisibleIsWritten ==
    Arrived => \A v \in P!Visible(Position) : ValueOf(v) # << >>
=============================================================================
