----------------------------- MODULE Optimizer -----------------------------
(***************************************************************************)
(* opt_optimize_module at -O1 and above: constant folding, copy            *)
(* propagation and dead code elimination run over each function in turn,   *)
(* again and again until a round changes nothing.  All three work on the   *)
(* use lists of the operands, and each edits them.                         *)
(*                                                                         *)
(* The instructions of all functions are numbered through; last[h] is the  *)
(* last one of function h.  An instruction has an operation, a destination *)
(* and arguments.  The operations are classes of the instruction types:    *)
(*   "alu"   the two-operand operations that can be folded, but for        *)
(*   "neq"   BANG_EQUAL, which instruction_has_side_effects does not list; *)
(*   "pure"  unary operations, casts, GEP, and a division by zero;         *)
(*   "load"  LOAD and UNARY_DEREFERENCE;  "store" STORE, STORE_INDIRECT;   *)
(*   "purecall" and "call" by the flag FUNC_FLAG_IS_PURE of the callee.    *)
(* A jump also has the parameters of its target block.  Removed            *)
(* instructions stay in place as "nop".  A text is a global that nobody    *)
(* assigns; the lowering makes it with the flag constant (ir_lower.c:566). *)
(*                                                                         *)
(* The semantic part at the end gives every instruction its meaning along  *)
(* a path, with the paths of the module as part of the program.            *)
(***************************************************************************)
EXTENDS Integers, Sequences, FiniteSets

CONSTANTS
    Operand,   \* operands: vregs, immediates, slots, globals and texts
    None,      \* the missing destination
    Programs   \* the modules to optimise

Operations ==
    {"mov", "alu", "neq", "pure", "load", "purecall", "call", "store", "alloca",
     "ret", "jmp", "br", "asm", "nop"}

Kinds == {"vreg", "imm", "slot", "global", "text", "undefined"}

ASSUME ProgramsAssumption ==
    /\ None \notin Operand
    /\ \A p \in Programs : Len(p.code) \in Nat /\ Len(p.last) \in Nat \ {0}
    /\ \A p \in Programs :
        /\ \A j \in 1..Len(p.code) :
              /\ p.code[j].op \in Operations \ {"nop"}
              /\ p.code[j].dest \in Operand \cup {None}
              /\ p.code[j].args \in Seq(Operand)
              /\ p.code[j].op = "jmp" => p.code[j].params \in [DOMAIN p.code[j].args -> Operand]
              /\ p.code[j].op \in {"alu", "neq"} => Len(p.code[j].args) = 2
              /\ p.code[j].op \in {"mov", "load"} => Len(p.code[j].args) = 1
              /\ p.code[j].op \in {"mov", "alu", "neq", "pure", "load", "store"} =>
                     p.code[j].dest # None
              /\ p.code[j].op \in {"ret", "jmp", "br", "asm"} => p.code[j].dest = None
              /\ p.code[j].op = "asm" => p.code[j].args = << >>
        /\ p.kind \in [Operand -> Kinds \ {"undefined"}]
        /\ \A h \in 1..Len(p.last) : p.last[h] \in 0..Len(p.code)
        /\ \A h, i \in 1..Len(p.last) : h < i => p.last[h] <= p.last[i]
        /\ p.last[Len(p.last)] = Len(p.code)

\* The lowering gives every result a vreg of its own (ir_lower.c:606 and the like).
ASSUME ResultsAssumption ==
    \A p \in Programs : \A i, j \in 1..Len(p.code) :
        p.code[j].op \notin {"store", "alloca"} /\ p.code[j].dest # None =>
            /\ p.kind[p.code[j].dest] = "vreg"
            /\ p.code[i].op # "store" /\ p.code[i].dest = p.code[j].dest => i = j

\* The parameters of a block are vregs of its own, one for each argument
\* (ir_lower.c:477).
ASSUME ParametersAssumption ==
    \A p \in Programs : \A j \in 1..Len(p.code) :
        p.code[j].op = "jmp" =>
            \A a, b \in DOMAIN p.code[j].params :
                /\ p.code[j].params[a] = p.code[j].params[b] => a = b
                /\ p.kind[p.code[j].params[a]] = "vreg"
                /\ \A i \in 1..Len(p.code) :
                      p.code[i].op # "store" => p.code[i].dest # p.code[j].params[a]

VARIABLES
    prog,      \* the module as it was lowered
    code,      \* its instructions now
    users,     \* operand->use_list: how often each instruction is in it
    kind,      \* operand->type
    const,     \* the operands with the flag constant
    func,      \* the function being optimised
    at,        \* the instruction the pass is at
    changed,   \* whether this round has changed anything
    pc         \* "uses", one of the passes "fold", "copy" and "dce", or "done"

vars == <<prog, code, users, kind, const, func, at, changed, pc>>

-----------------------------------------------------------------------------
Size == Len(prog.code)

First(h) == IF h = 1 THEN 1 ELSE prog.last[h - 1] + 1

Here == First(func)..prog.last[func]

\* A value is what computed it, from what, and where.
Unknown == <<"unknown", << >>, 0>>

\* The operands an instruction mentions as arguments; removed ones have none.
Arguments(i) == IF i.op \in {"alloca", "asm", "nop"} THEN {} ELSE {i.args[k] : k \in DOMAIN i.args}

Reads(i) == Arguments(i) \cup (IF i.op = "store" THEN {i.dest} ELSE {})

\* Faulty: STORE is not listed at the address it writes to.
MentionsSources(i, o) ==
    IF o \in Arguments(i) THEN Cardinality({k \in DOMAIN i.args : i.args[k] = o}) ELSE 0

\* How often process_use is called for operand o of an instruction.
Mentions(i, o) ==
    (IF o \in Arguments(i) THEN Cardinality({k \in DOMAIN i.args : i.args[k] = o}) ELSE 0)
        + (IF i.op = "store" /\ i.dest = o THEN 1 ELSE 0)

\* What instruction j of module p writes.
Writes(p, j) ==
    CASE p.code[j].op = "jmp" -> {p.code[j].params[a] : a \in DOMAIN p.code[j].params}
      [] p.code[j].op \in {"alloca", "store"} -> {}
      [] OTHER -> {p.code[j].dest} \ {None}

\* What is read is a parameter of the function or in memory, or was written before;
\* and what comes after a write of an operand may come after any other one, for
\* only one instruction writes it or they are jumps to one block.
ASSUME PathsAssumption ==
    \A p \in Programs : \A q \in p.paths :
        /\ q \in Seq(1..Len(p.code))
        /\ \A k \in 1..Len(q), j \in 1..Len(p.code) : \A o \in Reads(p.code[q[k]]) \cap Writes(p, j) :
              \E l \in 1..(k - 1) : o \in Writes(p, q[l])
        /\ \A w \in 1..Len(q) : \A v \in 1..w :
              Writes(p, q[v]) \cap Writes(p, q[w]) # {} =>
                  SubSeq(q, 1, v) \o SubSeq(q, w + 1, Len(q)) \in p.paths

Init ==
    /\ prog \in Programs
    /\ code = [j \in 1..Size |-> [op |-> prog.code[j].op, dest |-> prog.code[j].dest,
                                  args |-> prog.code[j].args, value |-> Unknown]]
    /\ users = [o \in Operand |-> [j \in 1..Size |-> 0]]
    /\ kind = prog.kind
    /\ const = {o \in Operand : prog.kind[o] = "text"}
    /\ func = 1
    /\ at = 1
    /\ changed = FALSE
    /\ pc = "uses"

\* opt_calculate_constants: the vregs that a MOV of an immediate defines.
ConstantDefinitions ==
    {code[j].dest : j \in {i \in Here : code[i].op = "mov" /\ kind[code[i].args[1]] = "imm"}}

\* opt_compute_use_def and opt_calculate_constants.
ComputeUses ==
    /\ pc = "uses"
    /\ users' = [o \in Operand |-> [j \in 1..Size |->
                    IF j \in Here THEN users[o][j] + Mentions(code[j], o) ELSE users[o][j]]]
    /\ const' = const \cup {o \in Operand : kind[o] = "imm"} \cup ConstantDefinitions
    /\ pc' = "fold"
    /\ at' = First(func)
    /\ changed' = FALSE
    /\ UNCHANGED <<prog, code, kind, func>>

-----------------------------------------------------------------------------
\* remove_instruction_from_use_list for each source of instruction j.
Unlisted(sources, j) ==
    LET gone(o) == Cardinality({k \in DOMAIN sources : sources[k] = o})
        left(o) == IF users[o][j] > gone(o) THEN users[o][j] - gone(o) ELSE 0
    IN [o \in Operand |-> [users[o] EXCEPT ![j] = left(o)]]

\* get_operand_imm_value of a constant: an immediate, or what the MOV that
\* defines the vreg moves; nothing if that is not a MOV any more, or for a text.
Known(o) ==
    IF prog.kind[o] = "imm" THEN <<o, << >>, 0>>
    ELSE IF prog.kind[o] = "text" THEN Unknown
    ELSE LET i == code[CHOOSE j \in 1..Size : /\ prog.code[j].op # "store"
                                                /\ prog.code[j].dest = o]
         IN IF i.op # "mov" THEN Unknown
            ELSE IF i.args = << >> THEN i.value ELSE <<i.args[1], << >>, 0>>

Foldable(i) ==
    /\ i.op \in {"alu", "neq"}
    /\ i.args[1] \in const
    /\ i.args[2] \in const

\* opt_constant_folding of one instruction.  BANG_EQUAL has no case in its
\* switch: the result is whatever the variable held.  So is the value of a text:
\* nobody asks whether get_operand_imm_value has found one.
Fold ==
    LET i == code[at]
        result == IF i.op = "neq" THEN Unknown ELSE <<"pure", <<Known(i.args[1]), Known(i.args[2])>>, at>>
    IN /\ pc = "fold"
       /\ at \in Here
       /\ Foldable(i)
       /\ code' = [code EXCEPT ![at] = [op |-> "mov", dest |-> i.dest, args |-> << >>, value |-> result]]
       /\ users' = Unlisted(i.args, at)
       /\ const' = const \cup {i.dest}
       /\ changed' = TRUE
       /\ at' = at + 1
       /\ UNCHANGED <<prog, kind, func, pc>>

-----------------------------------------------------------------------------
\* Faulty: only the first argument that matches is replaced.
ReplacedFirst(i, old, new) ==
    [i EXCEPT !.args = [k \in DOMAIN i.args |->
        IF i.args[k] = old /\ \A l \in 1..(k - 1) : i.args[l] # old THEN new ELSE i.args[k]]]

\* replace_operand_in_instruction.
Replaced(i, old, new) ==
    IF i.op \in {"alloca", "nop", "asm"} THEN i
    ELSE [i EXCEPT !.args = [k \in DOMAIN i.args |-> IF i.args[k] = old THEN new ELSE i.args[k]],
                   !.dest = IF i.op = "store" /\ i.dest = old THEN new ELSE i.dest]

Nop(i) == [i EXCEPT !.op = "nop"]

IsCopy(i) ==
    /\ i.op = "mov"
    /\ i.args # << >>
    /\ kind[i.dest] = "vreg"
    /\ kind[i.args[1]] = "vreg"
    /\ i.dest # i.args[1]

Readers(o) == {j \in 1..Size : users[o][j] > 0}

UsedInBranch(o) == \E j \in Readers(o) : code[j].op \in {"jmp", "br"}

\* opt_copy_propagation of one copy that no branch reads: every instruction in
\* the use list of the copy reads the source instead.
Propagate ==
    LET copy == code[at].dest
        source == code[at].args[1]
        new(j) == Replaced(code[j], copy, source)
        moved == {j \in Readers(copy) : new(j) # code[j]}
    IN /\ pc = "copy"
       /\ at \in Here
       /\ IsCopy(code[at])
       /\ ~UsedInBranch(copy)
       /\ code' = [j \in 1..Size |->
                      IF j = at THEN Nop(code[j]) ELSE IF j \in moved THEN new(j) ELSE code[j]]
       /\ users' = [Unlisted(<<source>>, at) EXCEPT
                       ![copy] = [j \in 1..Size |-> 0],
                       ![source] = [j \in 1..Size |-> IF j \in moved THEN @[j] + 1 ELSE @[j]]]
       /\ changed' = TRUE
       /\ at' = at + 1
       /\ UNCHANGED <<prog, kind, const, func, pc>>

-----------------------------------------------------------------------------
\* Instructions of the other types are passed over.
Examined(i) == i.op \notin {"jmp", "br", "asm", "nop"}

\* src1 and src2: the arguments of a call are not looked at.
Sources(i) == IF i.op \in {"call", "purecall", "alloca"} THEN << >> ELSE i.args

\* instruction_has_side_effects.
HasSideEffects(i) ==
    \/ i.op \in {"call", "store", "ret", "alloca", "neq"}
    \/ i.op = "load" /\ kind[i.args[1]] = "global"

Unused(i) ==
    /\ Examined(i)
    /\ ~HasSideEffects(i)
    /\ i.dest # None
    /\ kind[i.dest] = "vreg"
    /\ Readers(i.dest) = {}

SourceSet(i) == {Sources(i)[k] : k \in DOMAIN Sources(i)}

\* Faulty: the sources become undefined whoever else uses them.
KindsWithoutAsking(dests) ==
    [o \in Operand |-> IF o \in dests \cup SourceSet(code[at]) THEN "undefined" ELSE kind[o]]

\* The kinds when instruction `at' is gone: its sources lose theirs if nobody
\* else uses them, and so do the operands in `dests'.
KindsWithout(dests) ==
    LET left == Unlisted(Sources(code[at]), at)
    IN [o \in Operand |->
           IF \/ o \in dests
              \/ o \in SourceSet(code[at]) /\ \A j \in 1..Size : left[o][j] = 0
           THEN "undefined" ELSE kind[o]]

Remove(dests) ==
    /\ code' = [code EXCEPT ![at] = Nop(@)]
    /\ users' = Unlisted(Sources(code[at]), at)
    /\ kind' = KindsWithout(dests)
    /\ changed' = TRUE
    /\ at' = at + 1
    /\ UNCHANGED <<prog, const, func, pc>>

\* Faulty: the arguments of a removed instruction keep it in their lists.
RemoveUnusedListed ==
    /\ pc = "dce"
    /\ at \in Here
    /\ Unused(code[at])
    /\ code' = [code EXCEPT ![at] = Nop(@)]
    /\ kind' = [kind EXCEPT ![code[at].dest] = "undefined"]
    /\ changed' = TRUE
    /\ at' = at + 1
    /\ UNCHANGED <<prog, users, const, func, pc>>

\* opt_dead_code_elimination: an instruction without side effects whose result
\* nobody uses.
RemoveUnused ==
    /\ pc = "dce"
    /\ at \in Here
    /\ Unused(code[at])
    /\ Remove({code[at].dest})

\* Whatever touches an undefined operand goes too, side effects or not.
TouchesUndefined(i) ==
    /\ Examined(i)
    /\ \E o \in SourceSet(i) \cup ({i.dest} \ {None}) : kind[o] = "undefined"

RemoveUndefined ==
    /\ pc = "dce"
    /\ at \in Here
    /\ ~Unused(code[at])
    /\ TouchesUndefined(code[at])
    /\ Remove({code[at].dest} \ {None})

-----------------------------------------------------------------------------
\* The pass leaves an instruction alone.
Pass ==
    /\ at \in Here
    /\ \/ pc = "fold" /\ ~Foldable(code[at])
       \/ pc = "copy" /\ ~(IsCopy(code[at]) /\ ~UsedInBranch(code[at].dest))
       \/ pc = "dce" /\ ~Unused(code[at]) /\ ~TouchesUndefined(code[at])
    /\ at' = at + 1
    /\ UNCHANGED <<prog, code, users, kind, const, func, changed, pc>>

NextPass ==
    /\ pc \in {"fold", "copy"}
    /\ at \notin Here
    /\ pc' = IF pc = "fold" THEN "copy" ELSE "dce"
    /\ at' = First(func)
    /\ UNCHANGED <<prog, code, users, kind, const, func, changed>>

\* Faulty: changed is not reset for the new round.
NextRoundStale ==
    /\ pc = "dce"
    /\ at \notin Here
    /\ changed
    /\ pc' = "fold"
    /\ at' = First(func)
    /\ UNCHANGED <<prog, code, users, kind, const, func, changed>>

NextRound ==
    /\ pc = "dce"
    /\ at \notin Here
    /\ changed
    /\ pc' = "fold"
    /\ at' = First(func)
    /\ changed' = FALSE
    /\ UNCHANGED <<prog, code, users, kind, const, func>>

NextFunction ==
    /\ pc = "dce"
    /\ at \notin Here
    /\ ~changed
    /\ func' = IF func < Len(prog.last) THEN func + 1 ELSE func
    /\ pc' = IF func < Len(prog.last) THEN "uses" ELSE "done"
    /\ UNCHANGED <<prog, code, users, kind, const, at, changed>>

Next ==
    \/ ComputeUses
    \/ Fold
    \/ Propagate
    \/ RemoveUnused
    \/ RemoveUndefined
    \/ Pass
    \/ NextPass
    \/ NextRound
    \/ NextFunction

Spec == Init /\ [][Next]_vars

LiveSpec == Spec /\ WF_vars(Next)

-----------------------------------------------------------------------------
\* The operands an instruction names, whether it reads them or not.
Named(i) == {i.args[k] : k \in DOMAIN i.args} \cup ({i.dest} \ {None})

\* No two functions name the same operand: the module has no global variable that
\* two functions use (ir_lower.c:159 and 236 take the operand of the symbol).
OperandsAreLocal ==
    \A p \in Programs : \A h \in 1..Len(p.last) :
        \A i \in 1..p.last[h], j \in (p.last[h] + 1)..Len(p.code) :
            Named(p.code[i]) \cap Named(p.code[j]) = {}

-----------------------------------------------------------------------------
(***************************************************************************)
(* What instructions mean, symbolically.  A value is <<what, from, where>>:*)
(* an operand that nothing defines, the result of a pure instruction, or   *)
(* what instruction number k of a path found in memory or got from a call. *)
(***************************************************************************)
Effects == {"call", "store", "ret", "jmp", "br", "asm"}

\* The operands before a path hold themselves.
AtStart == [o \in Operand |-> <<o, << >>, 0>>]

\* What an instruction takes, and what it hands on: a store also where it goes.
Taken(i, env) == [a \in DOMAIN i.args |-> env[i.args[a]]]
Handed(i, env) == <<Taken(i, env), IF i.op = "store" THEN env[i.dest] ELSE Unknown>>

\* The value of instruction j, now i, where it is the k-th of a path and takes vals.
Result(i, j, k, vals) ==
    IF i.op = "mov" THEN (IF i.args = << >> THEN i.value ELSE vals[1])
    ELSE IF i.op \in {"load", "call"} THEN <<"step", vals, k>> ELSE <<"pure", vals, j>>

\* What it makes of the values env; p is the module.
After(p, i, j, k, env) ==
    LET passed(o) == {a \in DOMAIN p.code[j].params : p.code[j].params[a] = o}
    IN [o \in Operand |->
           IF i.op = "jmp" /\ passed(o) # {} THEN env[i.args[CHOOSE a \in passed(o) : TRUE]]
           ELSE IF i.op \notin {"nop", "alloca", "store"} /\ o = i.dest
           THEN Result(i, j, k, Taken(i, env))
           ELSE env[o]]

\* The values of the operands along a path on which the instructions of p are
\* those of c, Values(p, c, path)[k - 1] before the k-th.
Values(p, c, path) ==
    LET env[k \in 0..Len(path)] ==
            IF k = 0 THEN AtStart ELSE After(p, c[path[k]], path[k], k, env[k - 1])
    IN env

\* The instructions whose use lists are computed.
Listed == IF pc = "uses" THEN 1..(First(func) - 1) ELSE 1..prog.last[func]

Present(j) == code[j].op # "nop"

-----------------------------------------------------------------------------
\* Types of the variables: use lists count, and no instruction leaves its shape
\* (the instruction lists and operands that opt_optimize_module walks).
TypeOK ==
    /\ DOMAIN code = 1..Size
    /\ \A j \in 1..Size :
          /\ code[j].op \in Operations
          /\ code[j].dest \in Operand \cup {None}
          /\ code[j].args \in Seq(Operand)
    /\ users \in [Operand -> [1..Size -> Nat]]
    /\ kind \in [Operand -> Kinds]
    /\ const \subseteq Operand \cup {None}
    /\ func \in 1..Len(prog.last)
    /\ at \in 1..(Size + 1)
    /\ changed \in BOOLEAN
    /\ pc \in {"uses", "fold", "copy", "dce", "done"}

\* Whoever reads an operand is in its use list, whatever the passes have folded,
\* replaced and removed (opt.c:823, 999, 1051): an empty list means unused.
ReadersListed ==
    \A j \in Listed : \A o \in Reads(code[j]) : users[o][j] > 0

\* The definition of a vreg stays as long as something reads the vreg
\* (opt.c:869 and 890, and the NOP for a propagated copy in opt.c:1064).
DefinitionsStay ==
    \A i, j \in 1..Size :
        /\ Present(i)
        /\ prog.code[j].op # "store"
        /\ prog.code[j].dest \in Reads(code[i])
        => Present(j)

\* An operand becomes undefined only when no instruction of the module reads it
\* (opt.c:876-884 and 894-903); what touches it is deleted without more ado.
UndefinedIsUnused ==
    \A o \in Operand : kind[o] = "undefined" => \A j \in 1..Size : o \notin Reads(code[j])

\* Whatever an instruction reads is still made by somebody and is not taken for
\* undefined, whichever pass removed or rewrote its other readers.
ReadsAreDefined == DefinitionsStay /\ UndefinedIsUnused

\* Something was folded from a variable that nobody had set: a BANG_EQUAL or an
\* operation on a text (opt.c:970-993).  Only folding takes the arguments away.
FoldedUnset ==
    \E j \in 1..Size :
        /\ code[j].args = << >> /\ prog.code[j].args # << >>
        /\ \/ prog.code[j].op = "neq"
           \/ \E o \in Arguments(prog.code[j]) : prog.kind[o] = "text"

\* Along every path, what is left of the effects happens at the same place and
\* with the same values as in the module that was lowered (opt.c:209), unless
\* folding has put in a value that nobody had set.
EffectsInOrder ==
    pc = "done" /\ ~FoldedUnset =>
        \A path \in prog.paths :
            LET now == Values(prog, code, path)
                before == Values(prog, prog.code, path)
            IN \A k \in 1..Len(path) :
                   LET j == path[k]
                   IN code[j].op \in Effects =>
                          Handed(code[j], now[k - 1]) = Handed(prog.code[j], before[k - 1])

\* The only effects that disappear are calls whose result something read: stores,
\* returns, jumps, inline assembly and calls for their effect alone stay (opt.c:890).
OnlyReadCallsVanish ==
    \A j \in 1..Size :
        prog.code[j].op \in Effects /\ ~Present(j) =>
            /\ prog.code[j].op = "call"
            /\ \E i \in 1..Size : prog.code[j].dest \in Reads(prog.code[i])

\* The module does after the passes what it did before them, on every path
\* and as far as the removed calls go; nothing else is excepted but what
\* FoldedUnset names.
SameEffects == EffectsInOrder /\ OnlyReadCallsVanish

\* When the rounds end no result of a pure instruction is unused, but for the
\* arguments of removed calls, whose use lists are not edited (opt.c:853).
DeadCodeGone ==
    pc = "done" =>
        \A j \in 1..Size :
            code[j].op \in {"mov", "alu", "pure", "load", "purecall"} /\ ~HasSideEffects(code[j]) =>
                \/ code[j].dest = None
                \/ \E i \in 1..Size : code[j].dest \in Reads(code[i])
                \/ \E i \in 1..Size :
                      /\ ~Present(i)
                      /\ prog.code[i].op \in {"call", "purecall"}
                      /\ \E a \in DOMAIN code[i].args : code[i].args[a] = code[j].dest

\* Removing dead code removes no effect at all: the effects of a module are those
\* that its source has (README.md:57, dead code elimination).
EffectsStay == \A j \in 1..Size : prog.code[j].op \in Effects => Present(j)

\* The rounds of every function come to an end (the loop of opt.c:209).
Termination == <>(pc = "done")
=============================================================================
