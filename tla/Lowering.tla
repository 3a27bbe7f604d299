------------------------------ MODULE Lowering ------------------------------
(***************************************************************************)
(* IRL_run_function_lower and what it calls: a function becomes blocks of  *)
(* instructions over virtual registers (vregs), each of which is written   *)
(* by one instruction.  A variable is found where current_vreg points; an  *)
(* assignment moves it to a new vreg.  The body of a loop has parameters   *)
(* for the variables that the loop changes, which every jump to it passes. *)
(* Variables whose address is taken, and globals, are in memory instead.   *)
(*                                                                         *)
(* Programs are those of SourceProgram; every declaration has a value.     *)
(* Expressions are their reads; types, casts, arrays and pointers are left *)
(* out, as are in_loop and the numbers of instructions and loop borders    *)
(* that later passes use.                                                  *)
(***************************************************************************)
EXTENDS Integers, Sequences, FiniteSets

CONSTANTS
    Var,       \* the variables
    None,      \* the variable of an instruction that has none
    Programs   \* the functions to lower

\* What symbol->current_vreg can be but for a vreg: NULL, or a place in memory,
\* for the three pointers of a symbol are one union.
Null == -1
Memory == -2

\* The steps of a function are those that SourceProgram describes.
ASSUME ProgramsAssumption ==
    \A p \in Programs :
        /\ p.params \in Seq(Var)
        /\ p.kind \in [Var -> {"vreg", "stack", "global"}]
        /\ Len(p.code) \in Nat \ {0}
        /\ \A q \in 1..Len(p.code) :
              /\ p.code[q].op \in {"set", "use", "loop", "continue", "return", "end", "exit"}
              /\ p.code[q].op = "exit" <=> q = Len(p.code)
              /\ p.code[q].op = "set" => p.code[q].var \in Var
              /\ p.code[q].op \in {"set", "use"} => p.code[q].args \in Seq(Var)

\* How far the parts of a loop reach, and where each step of a loop belongs: a loop in
\* another is in one of its parts, as the parser nests them (parser.c:445).
ASSUME LoopsAssumption ==
    \A p \in Programs : \A l \in 1..Len(p.code) :
        LET t == p.code
            kind == t[l].op
            start == l - t[l].loop
        IN  /\ kind = "loop" =>
                   /\ t[l].cont \in Nat \ {0} /\ t[l].ret \in Nat /\ t[l].end \in Nat
                   /\ t[l].cont < t[l].ret /\ t[l].ret < t[l].end /\ l + t[l].end < Len(t)
                   /\ t[l + t[l].cont].op = "continue" /\ t[l + t[l].cont].loop = t[l].cont
                   /\ t[l + t[l].ret].op = "return" /\ t[l + t[l].ret].loop = t[l].ret
                   /\ t[l + t[l].end].op = "end" /\ t[l + t[l].end].loop = t[l].end
                   /\ \A last \in {t[l].cont, t[l].ret, t[l].end} :
                         \A q \in (l + 1)..(l + last - 1) : t[q].op = "loop" => q + t[q].end < l + last
            /\ kind \in {"continue", "return", "end"} =>
                   /\ t[l].loop \in Nat /\ start \in 1..(l - 1) /\ t[start].op = "loop"
                   /\ kind = "continue" => t[l].loop = t[start].cont
                   /\ kind = "return" => t[l].loop = t[start].ret
                   /\ kind = "end" => t[l].loop = t[start].end

VARIABLES
    prog,      \* the program
    at,        \* the step that is lowered next
    params,    \* the parameters of the function
    blocks,    \* the blocks, in the order in which they were made
    layout,    \* the blocks that were added to the function, in order
    block,     \* context->current_block
    current,   \* symbol->current_vreg of each variable
    frames,    \* the loops being lowered, the innermost last
    fresh,     \* function->vreg_counter
    where,     \* (history) current as it was at each step
    pc         \* "params", "lower", "lowered", or "crashed"

vars == <<prog, at, params, blocks, layout, block, current, frames, fresh, where, pc>>

-----------------------------------------------------------------------------
InVreg(v) == prog.kind[v] = "vreg"

InMemory(v) == ~InVreg(v)

\* The members of s that are in a set, in their order.
Selected(s, set) ==
    LET upTo[k \in 0..Len(s)] ==
            IF k = 0 THEN << >>
            ELSE IF s[k] \in set THEN Append(upTo[k - 1], s[k]) ELSE upTo[k - 1]
    IN upTo[Len(s)]

NewBlock == [params |-> << >>, code |-> << >>]

Emitted(bs, b, is) == [bs EXCEPT ![b].code = @ \o is]

\* An instruction of step p: it writes dest, or variable var in memory, and reads
\* args; to are the blocks it may lead to.
I(op, p, dest, var, args, to) ==
    [op |-> op, at |-> p, dest |-> dest, var |-> var, args |-> args, to |-> to]

Init ==
    /\ prog \in Programs
    /\ at = 1
    /\ params = << >>
    /\ blocks = <<NewBlock>>
    /\ layout = <<1>>
    /\ block = 1
    /\ current = [v \in Var |-> IF prog.kind[v] = "global" THEN Memory ELSE Null]
    /\ frames = << >>
    /\ fresh = 0
    /\ where = << >>
    /\ pc = "params"

\* One parameter: its vreg, and for one in memory its slot and a store.
LowerParam ==
    LET v == prog.params[Len(params) + 1]
    IN /\ pc = "params"
       /\ Len(params) < Len(prog.params)
       /\ params' = Append(params, fresh)
       /\ fresh' = fresh + 1
       /\ current' = [current EXCEPT ![v] = IF InVreg(v) THEN fresh ELSE Memory]
       /\ blocks' = IF InVreg(v) THEN blocks
                    ELSE Emitted(blocks, 1, <<I("alloca", 0, Null, v, << >>, << >>),
                                              I("store", 0, Null, v, <<fresh>>, << >>)>>)
       /\ UNCHANGED <<prog, at, layout, block, frames, where, pc>>

\* The block of the function's body.
LowerBody ==
    /\ pc = "params"
    /\ Len(params) = Len(prog.params)
    /\ blocks' = Append(blocks, NewBlock)
    /\ layout' = Append(layout, Len(blocks) + 1)
    /\ block' = Len(blocks) + 1
    /\ pc' = "lower"
    /\ UNCHANGED <<prog, at, params, current, frames, fresh, where>>

\* The step at `at' is lowered, and is of this kind.
Lower(op) ==
    /\ pc = "lower"
    /\ prog.code[at].op = op
    /\ at' = at + 1
    /\ where' = Append(where, current)

-----------------------------------------------------------------------------
\* load_variable for each argument in memory.
Loads(args) ==
    LET loaded == Selected(args, {v \in Var : InMemory(v)})
    IN [k \in DOMAIN loaded |-> I("load", at, fresh + k - 1, loaded[k], << >>, << >>)]

\* Where the arguments are once they are loaded.
Operands(args) ==
    LET loadsBefore(k) == Cardinality({l \in 1..(k - 1) : InMemory(args[l])})
    IN [k \in DOMAIN args |-> IF InMemory(args[k]) THEN fresh + loadsBefore(k) ELSE current[args[k]]]

\* A declaration or an assignment: the value, the slot of a new variable in
\* memory, and store_variable.
LowerSet ==
    LET t == prog.code[at]
        next == fresh + Len(Loads(t.args))
        slot == IF t.declares THEN <<I("alloca", at, Null, t.var, << >>, << >>)>> ELSE << >>
    IN /\ Lower("set")
       /\ IF InVreg(t.var)
          THEN /\ blocks' = Emitted(blocks, block,
                       Loads(t.args) \o <<I("mov", at, next, t.var, Operands(t.args), << >>)>>)
               /\ current' = [current EXCEPT ![t.var] = next]
               /\ fresh' = next + 1
          ELSE /\ blocks' = Emitted(blocks, block,
                       Loads(t.args) \o slot \o <<I("store", at, Null, t.var, Operands(t.args), << >>)>>)
               /\ current' = [current EXCEPT ![t.var] = Memory]
               /\ fresh' = next
       /\ UNCHANGED <<prog, params, layout, block, frames, pc>>

\* Anything that looks at variables: a call, the operands of a result.
LowerUse ==
    LET t == prog.code[at]
    IN /\ Lower("use")
       /\ blocks' = Emitted(blocks, block,
              Loads(t.args) \o <<I("use", at, Null, None, Operands(t.args), << >>)>>)
       /\ fresh' = fresh + Len(Loads(t.args))
       /\ UNCHANGED <<prog, params, layout, block, current, frames, pc>>

-----------------------------------------------------------------------------
\* Faulty: the continue part is not searched.
MutatedInBody(l) ==
    LET t == prog.code
        steps == (l + 1)..(l + t[l].cont - 1)
        mutates(p) == t[p].op = "set" /\ ~t[p].declares /\ ~t[p].hidden
        first(p) == mutates(p) /\ \A q \in steps : q < p /\ mutates(q) => t[q].var # t[p].var
        declared == {t[p].var : p \in {q \in steps : t[q].declares}}
        found == {p \in steps : first(p) /\ t[p].var \notin declared}
        ps == Selected([k \in 1..(t[l].cont - 1) |-> l + k], found)
    IN [k \in DOMAIN ps |-> t[ps[k]].var]

\* IRL_find_mutations for body and continue part of the loop at l, without what
\* they declare themselves (IRL_block_filter).  An assignment below a unary
\* operator or in an array index is hidden from the search.
Mutated(l) ==
    LET t == prog.code
        steps == (l + 1)..(l + t[l].ret - 1)
        mutates(p) == t[p].op = "set" /\ ~t[p].declares /\ ~t[p].hidden
        first(p) == mutates(p) /\ \A q \in steps : q < p /\ mutates(q) => t[q].var # t[p].var
        declared == {t[p].var : p \in {q \in steps : t[q].declares}}
        found == {p \in steps : first(p) /\ t[p].var \notin declared}
        ps == Selected([k \in 1..(t[l].ret - 1) |-> l + k], found)
    IN [k \in DOMAIN ps |-> t[ps[k]].var]

\* The variables of the loop that are in vregs; each is a parameter of the body.
Passed(l) == Selected(Mutated(l), {v \in Var : InVreg(v)})

\* Faulty: variables in memory are not left out.
JumpToWithAll(b, l) ==
    I("jmp", at, Null, None, [k \in DOMAIN Mutated(l) |-> current[Mutated(l)[k]]], <<b>>)

\* A jump to the body b of the loop at l, with the variables as they are now.
JumpTo(b, l) ==
    I("jmp", at, Null, None, [k \in DOMAIN Passed(l) |-> current[Passed(l)[k]]], <<b>>)

\* A variable that the loop changes has no operand yet, or is a global, whose
\* operand is taken for a vreg: the compiler reads through a wild pointer.
LoopCrashes(l) ==
    \E k \in DOMAIN Mutated(l) :
        LET v == Mutated(l)[k] IN current[v] = Null \/ prog.kind[v] = "global"

\* Before the body: the blocks of the three parts, the jump to the body, and a
\* parameter of the body for each variable.
LowerLoop ==
    LET n == Len(blocks)
        vs == Passed(at)
        parameters == [k \in DOMAIN vs |-> fresh + k - 1]
    IN /\ Lower("loop")
       /\ ~LoopCrashes(at)
       /\ blocks' = Emitted(blocks, block, <<JumpTo(n + 1, at)>>)
                        \o <<[params |-> parameters, code |-> << >>], NewBlock, NewBlock>>
       /\ current' = [v \in Var |->
                         IF \E k \in DOMAIN vs : vs[k] = v
                         THEN parameters[CHOOSE k \in DOMAIN vs : vs[k] = v] ELSE current[v]]
       /\ fresh' = fresh + Len(vs)
       /\ frames' = Append(frames, [loop |-> at, body |-> n + 1, cont |-> n + 2, ret |-> n + 3,
                                    bodyEnd |-> 0, atEnd |-> current])
       /\ block' = n + 1
       /\ layout' = Append(layout, n + 1)
       /\ UNCHANGED <<prog, params, pc>>

Crash ==
    /\ Lower("loop")
    /\ LoopCrashes(at)
    /\ pc' = "crashed"
    /\ UNCHANGED <<prog, params, blocks, layout, block, current, frames, fresh>>

Inner == frames[Len(frames)]

\* Between body and continue part: where the variables are now is where the
\* return part will find them.
LowerContinue ==
    /\ Lower("continue")
    /\ frames' = [frames EXCEPT ![Len(frames)].bodyEnd = block, ![Len(frames)].atEnd = current]
    /\ block' = Inner.cont
    /\ layout' = Append(layout, Inner.cont)
    /\ UNCHANGED <<prog, params, blocks, current, fresh, pc>>

\* Faulty: the return part finds the variables where the continue part left them.
LowerReturnUnrestored ==
    /\ Lower("return")
    /\ blocks' = Emitted(blocks, block, <<JumpTo(Inner.body, Inner.loop)>>)
    /\ current' = current
    /\ block' = Inner.ret
    /\ layout' = Append(layout, Inner.ret)
    /\ UNCHANGED <<prog, params, frames, fresh, pc>>

\* Between continue part and return part: the jump back to the body, and the
\* parameters of the body as they were at its end.
LowerReturn ==
    /\ Lower("return")
    /\ blocks' = Emitted(blocks, block, <<JumpTo(Inner.body, Inner.loop)>>)
    /\ current' = [v \in Var |->
                      IF \E k \in DOMAIN Passed(Inner.loop) : Passed(Inner.loop)[k] = v
                      THEN Inner.atEnd[v] ELSE current[v]]
    /\ block' = Inner.ret
    /\ layout' = Append(layout, Inner.ret)
    /\ UNCHANGED <<prog, params, frames, fresh, pc>>

\* After the return part: the branch at the end of the body.
LowerEnd ==
    LET cont == Inner.loop + prog.code[Inner.loop].cont
    IN /\ Lower("end")
       /\ blocks' = Emitted(blocks, Inner.bodyEnd,
              <<I("br", cont, Null, None, << >>, <<Inner.cont, Inner.ret>>)>>)
       /\ frames' = SubSeq(frames, 1, Len(frames) - 1)
       /\ UNCHANGED <<prog, params, layout, block, current, fresh, pc>>

LowerExit ==
    /\ Lower("exit")
    /\ blocks' = Emitted(blocks, block, <<I("ret", at, Null, None, << >>, << >>)>>)
    /\ pc' = "lowered"
    /\ UNCHANGED <<prog, params, layout, block, current, frames, fresh>>

Next ==
    \/ LowerParam
    \/ LowerBody
    \/ LowerSet
    \/ LowerUse
    \/ LowerLoop
    \/ Crash
    \/ LowerContinue
    \/ LowerReturn
    \/ LowerEnd
    \/ LowerExit

Spec == Init /\ [][Next]_vars

-----------------------------------------------------------------------------
Terminators == {"jmp", "br", "ret"}

Open(b) ==
    \/ blocks[b].code = << >>
    \/ blocks[b].code[Len(blocks[b].code)].op \notin Terminators

\* Types of the state (the fields of ir_context, and the symbols).
TypeOK ==
    /\ at \in 1..(Len(prog.code) + 1)
    /\ block \in 1..Len(blocks)
    /\ fresh \in Nat
    /\ \A k \in DOMAIN params : params[k] \in 0..(fresh - 1)
    /\ \A v \in Var : current[v] \in {Null, Memory} \cup 0..(fresh - 1)
    /\ Len(where) = at - 1
    /\ \A k \in DOMAIN layout : layout[k] \in 1..Len(blocks)
    /\ pc \in {"params", "lower", "lowered", "crashed"}

\* However loops are nested, nothing follows a jump in its block.  The blocks that
\* still have none are the one being filled, the body ends of the loops that are
\* not finished, and the first, which runs on into the second; those that are not
\* in the function yet are empty (ir_lower.c:478, 517 and 535).
BlocksEndOnce ==
    LET laid == {layout[k] : k \in DOMAIN layout}
        bodyEnds == {frames[k].bodyEnd : k \in DOMAIN frames} \ {0}
    IN /\ \A b \in 1..Len(blocks) : \A k \in 1..(Len(blocks[b].code) - 1) :
             blocks[b].code[k].op \notin Terminators
       /\ pc = "lower" => {b \in laid : Open(b)} = {1, block} \cup bodyEnds
       /\ pc = "lowered" => {b \in laid : Open(b)} = {1}
       /\ \A b \in 1..Len(blocks) : b \notin laid => blocks[b].code = << >>

\* Every block is in the function once when it is lowered: what a loop makes up
\* front is added when it is its turn (ir_lower.c:340).
BlocksLaidOut ==
    pc = "lowered" =>
        /\ Len(layout) = Len(blocks)
        /\ \A b \in 1..Len(blocks) : \E k \in DOMAIN layout : layout[k] = b

\* Whatever jumps to the body of a loop, before the loop or at its end, passes a
\* vreg for each of its parameters (ir_lower.c:22 and 515).
JumpsFit ==
    \A b \in 1..Len(blocks) : \A k \in DOMAIN blocks[b].code :
        LET i == blocks[b].code[k]
        IN i.op = "jmp" =>
               /\ Len(i.args) = Len(blocks[i.to[1]].params)
               /\ \A m \in DOMAIN i.args : i.args[m] \in 0..(fresh - 1)

\* What lowering has laid out can be printed one block behind the other: every
\* block ends exactly once and is in the layout exactly once, and every jump
\* brings what its target takes (ir_lower.c:309, 340 and 515).
BlocksFit == TypeOK /\ BlocksEndOnce /\ BlocksLaidOut /\ JumpsFit
=============================================================================
