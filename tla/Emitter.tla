------------------------------ MODULE Emitter ------------------------------
(***************************************************************************)
(* The x86-64 code generator: the frame of a function and the machine      *)
(* instructions printed for each instruction of the IR, once the allocator *)
(* has given every operand a register or a stack slot.                     *)
(*                                                                         *)
(* What is printed is executed symbolically.  A machine is a record: the   *)
(* term each place holds and how many of its bytes the last write set, the *)
(* reserved registers that are taken, the words on the stack (the last one *)
(* is the top), what was written through pointers, the machine at the last *)
(* call, whether everything printed can be assembled, and whether the      *)
(* compiler has died: no reserved register was left and it read NULL.      *)
(* Every instruction starts from places that hold their own names; the     *)
(* reserved registers that are taken and the stack are handed on.          *)
(*                                                                         *)
(* Left out: texts, globals whose address is taken in place of what they   *)
(* hold (lea, x86_64.c:347), inline assembly and the data section.         *)
(***************************************************************************)
EXTENDS Integers, Sequences, FiniteSets, FiniteSetsExt, SequencesExt

CONSTANTS
    Regs,          \* the registers the allocator gives out
    CalleeSaved,   \* those a function must give back as it got them
    ArgRegs,       \* the registers of the first arguments
    Scratch,       \* REG_PREFERENCE_ORDER of the reserved registers
    Slots,         \* stack slots
    Globals,       \* global variables
    Imms,          \* numbers that fit an instruction
    LongImms,      \* numbers that only a move to a register can hold
    Sizes,         \* the sizes of the values, in bytes
    Saved,         \* the sets of registers live across a call to try
    Arguments,     \* the argument lists to try
    Locals,        \* the words of a frame, its stack_size
    BlockMoves,    \* the block arguments to try, pairs (parameter, argument)
    Untyped        \* operations with literals that nothing has given a type

Reserved == Range(Scratch)
NullReg == "NULL"
Literals == Imms \cup LongImms
Memory == Slots \cup Globals
Places == Regs \cup Reserved \cup {"rbp", NullReg} \cup Memory

Operands == Regs \cup Slots \cup Literals

\* The register file of the build target (x86_64.c:14), and names that keep the
\* kinds of places apart.  Block parameters are different operands.
ASSUME EmitterAssumption ==
    /\ {"rax", "rcx", "rdx"} \cup CalleeSaved \cup Range(ArgRegs) \subseteq Regs
    /\ ({"rax", "rcx", "rdx"} \cup Range(ArgRegs)) \cap CalleeSaved = {}
    /\ Regs \cap (Reserved \cup Memory \cup Literals) = {}
    /\ Reserved \cap (Memory \cup Literals) = {}
    /\ Memory \cap Literals = {}
    /\ Slots \cap Globals = {}
    /\ Imms \cap LongImms = {}
    /\ {"rbp", NullReg, "none", "nowhere"}
          \cap (Regs \cup Reserved \cup Memory \cup Literals) = {}
    /\ IsFiniteSet(Regs)
    /\ ArgRegs \in Seq(Regs) /\ IsInjective(ArgRegs)
    /\ Scratch \in Seq(Reserved) /\ IsInjective(Scratch) /\ Len(Scratch) >= 2
    /\ Sizes \subseteq {1, 4, 8}
    /\ Locals \in Nat
    /\ Saved \subseteq SUBSET Regs
    /\ Arguments \subseteq Seq(Operands)
    /\ BlockMoves \subseteq Seq((Regs \cup Slots) \X Operands)
    /\ \A moves \in BlockMoves : \A k, l \in DOMAIN moves :
          moves[k][1] = moves[l][1] => k = l

VARIABLES
    pc,      \* "out" of any function, in the "body" of one, "emitted" an instruction,
             \* or "dead"
    used,    \* used_callee_saved_registers of the function
    ins,     \* the IR instruction whose code was printed last
    m        \* the machine after that code

vars == <<pc, used, ins, m>>

-----------------------------------------------------------------------------
(* Terms and machine instructions.                                         *)

Garbage == <<"garbage">>

\* What an operand holds, read with the given size.  A register or slot whose
\* upper bytes were not written has no value in a wider read.
Read(mm, o, size) ==
    IF o \in Literals THEN <<o>>
    ELSE IF mm.bytes[o] < size THEN Garbage ELSE mm.val[o]

Write(mm, o, size, term) ==
    [mm EXCEPT !.val[o] = term, !.bytes[o] = size]

\* What x86_64_emit_operand prints can be assembled: one operand in memory at
\* most, no literal as destination, long literals only in a move to a register,
\* and the size of the operation is known from a register.
Encodable(mnemonic, d, s) ==
    /\ d \notin Literals \cup {NullReg} /\ s # NullReg
    /\ ~(d \in Memory /\ s \in Memory)
    /\ s \in LongImms => mnemonic = "mov"
    /\ d \in Memory => mnemonic \notin {"imul", "sal"} /\ s \notin Literals

Check(mm, mnemonic, d, s) ==
    IF Encodable(mnemonic, d, s) THEN mm ELSE [mm EXCEPT !.ok = FALSE]

Move(mm, d, s, size) ==
    Check(Write(mm, d, size, Read(mm, s, size)), "mov", d, s)

\* d := d op s
Operate(mm, mnemonic, op, d, s, size) ==
    Check(Write(mm, d, size, <<op, Read(mm, d, size), Read(mm, s, size)>>),
          mnemonic, d, s)

-----------------------------------------------------------------------------
(* Reserved registers and moves between operands.                          *)

\* x86_64_get_available_reserved_register.  It gives NULL when none is left, and
\* the caller reads through it (x86_64.c:327, codegen_utils.c:129).
TakeScratch(mm) ==
    LET free == {k \in DOMAIN Scratch : Scratch[k] \notin mm.busy}
        reg == Scratch[Min(free)]
    IN IF free = {} THEN [m |-> [mm EXCEPT !.died = TRUE], reg |-> NullReg]
       ELSE [m |-> [mm EXCEPT !.busy = @ \cup {reg}], reg |-> reg]

\* x86_64_set_free_reserved_register: only reserved registers have the flag.
Free(mm, r) == [mm EXCEPT !.busy = @ \ {r}]

\* x86_64_emit_mov_reg_to_reg
MovRegToReg(mm, d, s, size) == IF d = s THEN mm ELSE Move(mm, d, s, size)

\* x86_64_emit_mov_operand_to_reg: a literal fills the whole register.
MovOperandToReg(mm, d, s, size) ==
    IF s \in Memory THEN Move(mm, d, s, size)
    ELSE IF s \in Literals THEN Move(mm, d, s, 8)
    ELSE MovRegToReg(mm, d, s, size)

\* x86_64_emit_mov_reg_to_operand
MovRegToOperand(mm, d, s, size) ==
    IF d \in Regs THEN MovRegToReg(mm, d, s, size) ELSE Move(mm, d, s, size)

\* x86_64_emit_mov_operand_to_operand
MovOperandToOperand(mm, d, s, dsize, ssize) ==
    IF d \in Memory /\ s \notin Regs
    THEN LET t == TakeScratch(mm) IN
         Free(MovRegToOperand(MovOperandToReg(t.m, t.reg, s, ssize),
                              d, t.reg, dsize), t.reg)
    ELSE IF d \in Memory THEN MovRegToOperand(mm, d, s, dsize)
    ELSE MovOperandToReg(mm, d, s, ssize)

\* x86_64_ensure_operand_is_register
Ensure(mm, o, size) ==
    IF o \in Regs THEN [m |-> mm, reg |-> o]
    ELSE LET t == TakeScratch(mm) IN
         [t EXCEPT !.m = MovOperandToReg(t.m, t.reg, o, size)]

-----------------------------------------------------------------------------
(* The stack.                                                              *)

Push(mm, term) == [mm EXCEPT !.stack = Append(@, term)]
Drop(mm, n) == [mm EXCEPT !.stack = SubSeq(@, 1, Len(@) - n)]
Reserve(mm, n) == [mm EXCEPT !.stack = @ \o [i \in 1..n |-> Garbage]]

\* Every register of rs becomes what at(k) says for its place k in rs, and the
\* words that held them are gone.
Popped(mm, rs, at(_)) ==
    [mm EXCEPT
        !.val = [p \in Places |->
            IF p \in Range(rs) THEN mm.stack[at(CHOOSE k \in DOMAIN rs : rs[k] = p)]
            ELSE @[p]],
        !.bytes = [p \in Places |-> IF p \in Range(rs) THEN 8 ELSE @[p]],
        !.stack = SubSeq(@, 1, Len(@) - Len(rs))]

\* Faulty: the registers are popped in the order in which they were pushed.
PopAllForward(mm, rs) == Popped(mm, rs, LAMBDA k : Len(mm.stack) - k + 1)

\* push_or_pop_registers; rs lists the registers in the order of their ids.
PushAll(mm, rs) ==
    [mm EXCEPT !.stack = @ \o [k \in DOMAIN rs |-> Read(mm, rs[k], 8)]]
PopAll(mm, rs) == Popped(mm, rs, LAMBDA k : Len(mm.stack) - Len(rs) + k)

\* codegen_padding(8 * n, 15) in words: what is missing to a multiple of 16.
Pad(n) == n % 2

-----------------------------------------------------------------------------
(* The code of one instruction.  i.d is the destination, i.a and i.b are the *)
(* sources, i.ds, i.as and i.bs their sizes.                                 *)

\* MOV, STORE and the LOAD of a global.
EmitMove(mm, i) == MovOperandToOperand(mm, i.d, i.a, i.ds, i.as)

\* emit_cast_instruction
EmitCast(mm, i) ==
    IF i.ds <= i.as THEN EmitMove(mm, i)
    ELSE LET dest == Ensure(mm, i.d, i.ds)
             src == Ensure(dest.m, i.a, i.as)
             wide == Write(src.m, dest.reg, i.ds,
                           <<"extend", Read(src.m, src.reg, i.as)>>)
         IN Free(Free(MovRegToOperand(wide, i.d, dest.reg, i.ds), src.reg),
                 dest.reg)

\* Faulty: the destination is not given back.
EmitComparisonLeaky(mm, i) ==
    LET src == Ensure(mm, i.a, i.as)
        dest == Ensure(src.m, i.d, i.ds)
        set == Write(Check(dest.m, "cmp", src.reg, i.b), dest.reg, 1,
                     <<i.op, Read(dest.m, src.reg, i.as), Read(dest.m, i.b, i.as)>>)
    IN Free(MovRegToOperand(set, i.d, dest.reg, i.ds), src.reg)

\* emit_comparison_instructions: the operands are compared in the size of the
\* first one, and set writes one byte.
EmitComparison(mm, i) ==
    LET src == Ensure(mm, i.a, i.as)
        dest == Ensure(src.m, i.d, i.ds)
        set == Write(Check(dest.m, "cmp", src.reg, i.b), dest.reg, 1,
                     <<i.op, Read(dest.m, src.reg, i.as), Read(dest.m, i.b, i.as)>>)
    IN Free(Free(MovRegToOperand(set, i.d, dest.reg, i.ds), src.reg), dest.reg)

\* The second half of add, sub, and, or, xor: dest op= source 2, where a
\* destination in memory needs the source in a register.
OperateInPlace(mm, mnemonic, i) ==
    IF i.d \in Slots
    THEN LET src == Ensure(mm, i.b, i.bs) IN
         Free(Operate(src.m, mnemonic, i.op, i.d, src.reg, i.ds), src.reg)
    ELSE Operate(mm, mnemonic, i.op, i.d, i.b, i.ds)

\* emit_arithmetic_instructions, from "add/sub" on
EmitArithmetic(mm, i) ==
    OperateInPlace(IF i.d = i.a THEN mm ELSE EmitMove(mm, i), "add", i)

\* emit_arithmetic_instructions, MUL
EmitMul(mm, i) ==
    IF i.ds = 1
    THEN LET src == Ensure(MovOperandToReg(mm, "rax", i.a, i.as), i.b, i.bs)
             prod == Operate(src.m, "mul", i.op, "rax", src.reg, 1)
         IN Free(MovRegToOperand(prod, i.d, "rax", 1), src.reg)
    ELSE IF i.d = i.a THEN OperateInPlace(mm, "imul", i)
    ELSE IF i.d \in Regs /\ i.a \in Regs \cup Slots /\ i.b \in Literals /\ i.bs <= 4
    THEN Check(Write(mm, i.d, i.ds,
                     <<i.op, Read(mm, i.a, i.ds), Read(mm, i.b, i.ds)>>),
               "imul", i.d, i.b)
    ELSE LET dest == Ensure(mm, i.d, i.ds)
             src == Ensure(dest.m, i.b, i.bs)
             prod == Operate(MovOperandToReg(src.m, dest.reg, i.a, i.as),
                             "imul", i.op, dest.reg, src.reg, i.ds)
         IN Free(Free(MovRegToOperand(prod, i.d, dest.reg, i.ds), dest.reg),
                 src.reg)

\* emit_arithmetic_instructions, DIVIDE and MOD.  cbw extends inside rax; cwd,
\* cdq and cqo write rdx.  An 8-bit remainder is computed in 16 bits.
EmitDivide(mm, i) ==
    LET byte == i.ds = 1 /\ i.op = "div"
        size == IF i.ds = 1 /\ i.op = "mod" THEN 2 ELSE i.ds
        copied == IF i.d = i.a THEN mm ELSE EmitMove(mm, i)
        low == IF size = 2 THEN Write(copied, "rax", 2, Read(copied, i.d, 1))
               ELSE MovOperandToReg(copied, "rax", i.d, i.ds)
        high == IF byte THEN low
                ELSE Write(low, "rdx", size, <<"sign", Read(low, "rax", size)>>)
        src == Ensure(high, i.b, i.bs)
        divisor == IF size = 2 THEN Write(src.m, src.reg, 2, Read(src.m, src.reg, 1))
                   ELSE src.m
        dividend == Read(divisor, "rax", size)
        extended == byte \/ Read(divisor, "rdx", size) = <<"sign", dividend>>
        x == IF extended THEN dividend ELSE Garbage
        y == Read(divisor, src.reg, size)
        quotient == Write(divisor, "rax", size, <<"div", x, y>>)
        both == IF byte THEN quotient
                ELSE Write(quotient, "rdx", size, <<"mod", x, y>>)
    IN MovRegToOperand(Free(both, src.reg), i.d,
                       IF byte \/ i.op = "div" THEN "rax" ELSE "rdx", i.ds)

\* emit_arithmetic_instructions, SHL and SHR
EmitShift(mm, i) ==
    LET moved == EmitMove(mm, i) IN
    IF i.b \in Literals THEN Operate(moved, "sal", i.op, i.d, i.b, i.ds)
    ELSE LET count == MovOperandToReg(moved, "rcx", i.b, i.bs) IN
         Check(Write(count, i.d, i.ds,
                     <<i.op, Read(count, i.d, i.ds), Read(count, "rcx", 1)>>),
               "sal", i.d, "rcx")

\* UNARY_MINUS and UNARY_NOT
EmitUnary(mm, i) ==
    IF i.a \in Literals
    THEN LET t == TakeScratch(mm)
             src == MovOperandToReg(t.m, t.reg, i.a, i.as)
             neg == Write(src, t.reg, i.ds, <<i.op, Read(src, t.reg, i.ds)>>)
         IN Free(MovRegToOperand(neg, i.d, t.reg, i.ds), t.reg)
    ELSE LET src == EmitMove(mm, i) IN
         Write(src, i.d, i.ds, <<i.op, Read(src, i.d, i.ds)>>)

\* UNARY_ADDRESS_OF
EmitAddressOf(mm, i) ==
    LET dest == Ensure(mm, i.d, i.ds)
        lea == Write(dest.m, dest.reg, 8, <<"address", i.a>>)
    IN Free(MovRegToOperand(lea, i.d, dest.reg, i.ds), dest.reg)

\* UNARY_DEREFERENCE
EmitDereference(mm, i) ==
    LET src == Ensure(mm, i.a, i.as)
        t == TakeScratch(src.m)
        val == Write(t.m, t.reg, i.ds, <<"at", Read(t.m, src.reg, 8)>>)
    IN Free(Free(MovRegToOperand(val, i.d, t.reg, i.ds), t.reg), src.reg)

\* LOAD through a pointer: a destination in memory is not written back.
EmitLoad(mm, i) ==
    LET src == Ensure(mm, i.a, i.as)
        dest == Ensure(src.m, i.d, i.ds)
        load == Write(dest.m, dest.reg, i.ds, <<"at", Read(dest.m, src.reg, 8)>>)
    IN Free(Free(load, src.reg), dest.reg)

\* STORE_INDIRECT: i.d is the pointer; as many bytes as the source has.
EmitStoreIndirect(mm, i) ==
    LET dest == Ensure(mm, i.d, 8)
        src == Ensure(dest.m, i.a, i.as)
        store == [src.m EXCEPT !.mem = Append(@,
                    <<Read(src.m, dest.reg, 8), i.as, Read(src.m, src.reg, i.as)>>)]
    IN Free(Free(store, src.reg), dest.reg)

\* GEP: an operand in a slot is printed as the address of the slot.  Strides
\* that are no scale of the processor take an imul and an add.
EmitGep(mm, i) ==
    LET dest == Ensure(mm, i.d, i.ds)
        idx == IF i.b \in Literals THEN [m |-> dest.m, reg |-> i.b]
               ELSE Ensure(dest.m, i.b, i.bs)
        base == IF i.a \in Slots THEN <<"address", i.a>> ELSE Read(idx.m, i.a, 8)
        lea == Write(idx.m, dest.reg, 8, <<"element", base, Read(idx.m, idx.reg, 8)>>)
        sum == IF i.op = "gep_scaled" \/ i.b \in Literals \/ i.a \in Regs THEN lea
               ELSE [lea EXCEPT !.ok = FALSE]
    IN Free(MovRegToOperand(Free(sum, idx.reg), i.d, dest.reg, i.ds), dest.reg)

\* The cycles of a set of moves, pairs of a register and its operand: registers
\* that get their values from each other.  A register that keeps its value is none.
Closed(moves, C) ==
    C # {} /\ {v[2] : v \in {w \in moves : w[1] \in C}} = C

Cycles(moves) ==
    LET moved == {v[1] : v \in {w \in moves : w[1] # w[2]}}
    IN {C \in SUBSET moved : /\ Closed(moves, C)
                             /\ \A D \in SUBSET C : Closed(moves, D) => D = C}

\* n reserved registers are taken one after the other.
Taken(mm, n) ==
    LET taken[k \in 0..n] == IF k = 0 THEN mm ELSE TakeScratch(taken[k - 1]).m
    IN taken[n]

\* Arguments in registers and block arguments in registers are moved by
\* codegen_utils_emit_call_args, a simultaneous assignment (ParallelAssign);
\* literals fill the register.  Each cycle takes a reserved register that is not
\* given back: its node still counts as one that reads it (codegen_utils.c:97).
\* Nobody reads what these registers hold after the moves.
Assign(mm, moves, size) ==
    [Taken(mm, Cardinality(Cycles(moves))) EXCEPT
        !.val = [p \in Places |-> IF \E v \in moves : v[1] = p
                   THEN Read(mm, (CHOOSE v \in moves : v[1] = p)[2], size)
                   ELSE @[p]],
        !.bytes = [p \in Places |-> IF \E v \in moves : v[1] = p THEN size ELSE @[p]]]

\* Faulty: the slots are counted from the first argument of the call.
EmitStackArgumentAbove(mm, k, arg, size) ==
    LET src == Ensure(mm, arg, size) IN
    Free([src.m EXCEPT !.stack[Len(mm.stack) - (k + 1)] = Read(src.m, src.reg, size)], src.reg)

\* Stack argument k, counted from 0, goes to [rsp + 8 k].
EmitStackArgument(mm, k, arg, size) ==
    LET src == Ensure(mm, arg, size) IN
    Free([src.m EXCEPT !.stack[Len(mm.stack) - k] = Read(src.m, src.reg, size)], src.reg)

\* The stack arguments are stored one after the other, the last one first.
EmitStackArguments(mm, args, size) ==
    LET n == Len(args)
        stored[k \in 0..n] ==
            IF k = 0 THEN mm
            ELSE EmitStackArgument(stored[k - 1], n - k, args[n - k + 1], size)
    IN stored[n]

\* The callee returns its result in rax and has used every register it may.
Called(mm) ==
    [mm EXCEPT
        !.atCall = [val |-> mm.val, stack |-> mm.stack],
        !.val = [p \in Places |-> IF p \in (Regs \ CalleeSaved) \cup Reserved
                                  THEN Garbage ELSE @[p]],
        !.val["rax"] = <<"result">>]

\* The moves of an instruction that codegen_utils_emit_call_args makes.
RegisterMoves(i) ==
    IF i.op = "call"
    THEN {<<ArgRegs[k], i.args[k]>> : k \in DOMAIN ArgRegs \cap DOMAIN i.args}
    ELSE {v \in Range(i.moves) : v[1] \in Regs}

\* CALL: i.across is across_registers, i.args the arguments.  rax is masked.
EmitCall(mm, i) ==
    LET n == IF Len(i.args) < Len(ArgRegs) THEN Len(i.args) ELSE Len(ArgRegs)
        onStack == SubSeq(i.args, n + 1, Len(i.args))
        across == SetToSeq(i.across \ {"rax"})
        area == Len(onStack) + Pad(Len(across) + Len(onStack))
        ready == EmitStackArguments(Reserve(PushAll(mm, across), area), onStack, i.as)
        done == Called(Assign(ready, RegisterMoves(i), i.as))
    IN MovRegToOperand(PopAll(Drop(done, area), across), i.d, "rax", i.ds)

\* The block arguments of JMP and BR: those whose parameter is in a slot are
\* moved one by one, then the others all at once.
EmitBlockArguments(mm, i) ==
    LET moved[k \in 0..Len(i.moves)] ==
            IF k = 0 THEN mm
            ELSE IF i.moves[k][1] \in Regs THEN moved[k - 1]
            ELSE MovOperandToOperand(moved[k - 1], i.moves[k][1], i.moves[k][2],
                                     i.ds, i.as)
    IN Assign(moved[Len(i.moves)], RegisterMoves(i), i.ds)

EmitJump(mm, i) == EmitBlockArguments(mm, i)

\* RET moves its value to rax; the jump to the epilogue is the fall through.
EmitReturn(mm, i) == MovOperandToReg(mm, "rax", i.a, i.as)

\* BR compares the condition, moves the arguments of the false block and jumps;
\* i.a is the condition.
EmitBranch(mm, i) ==
    LET cmp == [mm EXCEPT !.flag = Read(mm, i.a, i.as),
                          !.ok = @ /\ i.a \notin Literals]
    IN EmitBlockArguments(cmp, i)

-----------------------------------------------------------------------------
(* The frame.                                                              *)

\* x86_64_emit_function_prologue, called with the stack as call leaves it
Prologue(mm, locals, saved) ==
    LET framed == Push(mm, mm.val["rbp"])
        pushed == PushAll(Reserve(framed, locals), saved)
    IN Reserve([pushed EXCEPT !.base = Len(framed.stack)], Pad(Len(saved)))

\* Faulty: the padding stays on the stack when the registers are popped.
EpilogueUnpadded(mm, saved) ==
    LET popped == PopAll(mm, saved) IN
    [popped EXCEPT !.val["rbp"] = mm.stack[mm.base],
                  !.stack = SubSeq(@, 1, mm.base - 1)]

\* x86_64_emit_function_epilogue: mov rsp, rbp; pop rbp
Epilogue(mm, saved) ==
    LET popped == PopAll(Drop(mm, Pad(Len(saved))), saved) IN
    [popped EXCEPT !.val["rbp"] = mm.stack[mm.base],
                  !.stack = SubSeq(@, 1, mm.base - 1)]

-----------------------------------------------------------------------------
(* What the earlier passes promise of an instruction.                      *)

Division == {"div", "mod"}

\* Faulty: the sign extension of a division is forgotten.
ClobbersShort(i) ==
    CASE i.op \in Division -> {"rax"}
      [] i.op = "mul" /\ i.ds = 1 -> {"rax"}
      [] i.op = "call" -> {"rax"}
      [] i.op = "shl" /\ i.b \notin Literals -> {"rcx"}
      [] OTHER -> {}

\* x86_64_collect_instruction_clobbers: RegAlloc keeps every vreg that is read
\* or written here, or alive, out of these registers.
Clobbers(i) ==
    CASE i.op \in Division -> {"rax", "rdx"}
      [] i.op = "mul" /\ i.ds = 1 -> {"rax"}
      [] i.op = "call" -> {"rax"}
      [] i.op = "shl" /\ i.b \notin Literals -> {"rcx"}
      [] OTHER -> {}


Dests == (Regs \ (CalleeSaved \ used)) \cup Slots
Sources == Dests \cup Imms
AnySources == Sources \cup LongImms

Instruction(op, d, a, b, ds, as, bs) ==
    [op |-> op, d |-> d, a |-> a, b |-> b, ds |-> ds, as |-> as, bs |-> bs,
     across |-> {}, args |-> <<>>, moves |-> <<>>]

CallOf(d, s, across, args) ==
    [Instruction("call", d, "none", "none", s, s, s)
       EXCEPT !.across = across, !.args = args]

JumpOf(op, a, s, moves) ==
    [Instruction(op, "nowhere", a, "none", s, s, s) EXCEPT !.moves = moves]

\* Nothing lives in a clobbered register, and what an instruction writes meets
\* what it reads, except that arithmetic may work in place.
Allocated(i) ==
    /\ {i.d, i.a, i.b} \cap Clobbers(i) = {}
    /\ i.d # i.b
    /\ i.d = i.a => i.op \in {"add", "mul", "ret"} \cup Division /\ i.d \in Regs

\* The places before the code of i, in the widths of the operands.
Before(i) ==
    [m EXCEPT !.bytes = [p \in Places |-> IF p = i.a THEN i.as
                                         ELSE IF p = i.b THEN i.bs ELSE 8]]

\* i is the next instruction, and "after" the machine behind its code.  A compiler
\* that has died prints nothing any more.
Emit(i, after) ==
    /\ Allocated(i)
    /\ pc' = IF after.died THEN "dead" ELSE "emitted"
    /\ ins' = i
    /\ m' = after
    /\ UNCHANGED used

-----------------------------------------------------------------------------
(* The actions: x86_64_emit_instruction, one for each of its cases.        *)

NoCall == [val |-> [p \in Places |-> <<p>>], stack |-> <<>>]

NoInstruction == Instruction("none", "nowhere", "none", "none", 8, 8, 8)

\* The machine with every place renamed after itself, except for those whose
\* contents belong to the caller.
Renamed(mm, owned) ==
    [mm EXCEPT
        !.val = [p \in Places |-> IF p \in CalleeSaved \ owned \/ p = "rbp"
                                  THEN @[p] ELSE <<p>>],
        !.bytes = [p \in Places |-> 8], !.mem = <<>>, !.flag = Garbage,
        !.atCall = NoCall]

EnterFunction ==
    /\ pc = "out"
    /\ pc' = "body"
    /\ used' \in SUBSET CalleeSaved
    /\ ins' = NoInstruction
    /\ m' = Renamed(Prologue([m EXCEPT !.stack = <<<<"return">>>>], Locals,
                              SetToSeq(used')), used')

\* The loop of codegen_build_function goes on to the next instruction.
NextInstruction ==
    /\ pc = "emitted"
    /\ pc' = "body"
    /\ ins' = NoInstruction
    /\ m' = Renamed(m, used)
    /\ UNCHANGED used

LeaveFunction ==
    /\ pc = "body"
    /\ pc' = "out"
    /\ ins' = NoInstruction
    /\ m' = Epilogue(m, SetToSeq(used))
    /\ UNCHANGED used

\* MOV and LOAD of a global, STORE
MoveStep ==
    /\ pc = "body"
    /\ \E i \in {Instruction("mov", d, a, "none", s, s, s) :
                   s \in Sizes, a \in AnySources \cup Globals, d \in Dests \cup Globals} :
           Emit(i, EmitMove(Before(i), i))

CastStep ==
    /\ pc = "body"
    /\ \E i \in {Instruction("cast", d, a, "none", s, t, t) :
                   s, t \in Sizes, a \in AnySources, d \in Dests} :
           Emit(i, EmitCast(Before(i), i))

ComparisonStep ==
    /\ pc = "body"
    /\ \E i \in {Instruction("less", d, a, b, 1, s, s) :
                   s \in Sizes, a \in Sources, b \in Sources, d \in Dests} :
           Emit(i, EmitComparison(Before(i), i))

ArithmeticStep ==
    /\ pc = "body"
    /\ \E i \in {Instruction("add", d, a, b, s, s, s) :
                   s \in Sizes, a \in AnySources, b \in Sources, d \in Dests} :
           Emit(i, EmitArithmetic(Before(i), i))

MulStep ==
    /\ pc = "body"
    /\ \E i \in {Instruction("mul", d, a, b, s, s, s) :
                   s \in Sizes, a \in AnySources, b \in Sources, d \in Dests} :
           Emit(i, EmitMul(Before(i), i))

DivideStep ==
    /\ pc = "body"
    /\ \E i \in {Instruction(op, d, a, b, s, s, s) :
                   op \in Division, s \in Sizes, a \in AnySources, b \in AnySources, d \in Dests} :
           Emit(i, EmitDivide(Before(i), i))

\* A variable that is shifted has a register: the assembler rejects a shift of
\* memory whose size nothing says.
ShiftStep ==
    /\ pc = "body"
    /\ \E i \in {Instruction("shl", d, a, b, s, s, s) :
                   s \in Sizes, a \in AnySources, b \in Sources, d \in Dests \cap Regs} :
           Emit(i, EmitShift(Before(i), i))

UnaryStep ==
    /\ pc = "body"
    /\ \E i \in {Instruction("neg", d, a, "none", s, s, s) :
                   s \in Sizes, a \in AnySources, d \in Dests} :
           Emit(i, EmitUnary(Before(i), i))

AddressOfStep ==
    /\ pc = "body"
    /\ \E i \in {Instruction("address", d, a, "none", 8, 8, 8) :
                   a \in Memory, d \in Dests} :
           Emit(i, EmitAddressOf(Before(i), i))

DereferenceStep ==
    /\ pc = "body"
    /\ \E i \in {Instruction("at", d, a, "none", s, 8, 8) :
                   s \in Sizes, a \in Dests, d \in Dests} :
           Emit(i, EmitDereference(Before(i), i))

\* The result of a load has a register.
LoadStep ==
    /\ pc = "body"
    /\ \E i \in {Instruction("load", d, a, "none", s, 8, 8) :
                   s \in Sizes, a \in Dests, d \in Dests \cap Regs} :
           Emit(i, EmitLoad(Before(i), i))

\* What is stored has the size of what the pointer points to, t.
StoreIndirectStep ==
    /\ pc = "body"
    /\ \E i \in {Instruction("store", d, a, "none", t, s, s) :
                   s, t \in Sizes, a \in AnySources, d \in Dests} :
           /\ i.as # i.ds => "store" \in Untyped /\ i.a \in Imms
           /\ Emit(i, EmitStoreIndirect(Before(i), i))

\* A slot is an array, a register a pointer; the index has the size of one.
GepStep ==
    /\ pc = "body"
    /\ \E i \in {Instruction(op, d, a, b, 8, 8, 8) :
                   op \in {"gep_scaled", "gep_wide"}, a \in Dests, b \in Sources, d \in Dests} :
           /\ i.op = "gep_wide" => i.a \in Regs
           /\ Emit(i, EmitGep(Before(i), i))

ReturnStep ==
    /\ pc = "body"
    /\ \E i \in {Instruction("ret", "rax", a, "none", s, s, s) :
                   s \in Sizes, a \in AnySources} :
           Emit(i, EmitReturn(Before(i), i))

\* What is alive across the call in a register the callee may use is saved.
CallStep ==
    /\ pc = "body"
    /\ \E i \in {CallOf(d, s, across, args) :
                   s \in Sizes, across \in Saved, args \in Arguments, d \in Dests} :
           /\ Range(i.args) \cap ({"rax"} \cup (CalleeSaved \ used)) = {}
           /\ Emit(i, EmitCall(Before(i), i))

JumpStep ==
    /\ pc = "body"
    /\ \E i \in {JumpOf("jmp", "none", 8, moves) : moves \in BlockMoves} :
           /\ \A v \in Range(i.moves) : v[1] \in Dests /\ v[2] \in AnySources
           /\ Emit(i, EmitJump(Before(i), i))

BranchStep ==
    /\ pc = "body"
    /\ \E i \in {JumpOf("br", a, s, moves) :
                   s \in Sizes, a \in Dests, moves \in BlockMoves} :
           /\ \A v \in Range(i.moves) : v[1] \in Dests /\ v[2] \in AnySources
           /\ Emit(i, EmitBranch(Before(i), i))

Next ==
    \/ EnterFunction \/ NextInstruction \/ LeaveFunction
    \/ MoveStep \/ CastStep \/ ComparisonStep \/ ArithmeticStep \/ MulStep
    \/ DivideStep \/ ShiftStep \/ UnaryStep \/ AddressOfStep \/ DereferenceStep
    \/ LoadStep \/ StoreIndirectStep \/ GepStep \/ ReturnStep \/ CallStep
    \/ JumpStep \/ BranchStep

Init ==
    /\ pc = "out"
    /\ used = {}
    /\ ins = NoInstruction
    /\ m = [val |-> [p \in Places |-> <<"caller", p>>], bytes |-> [p \in Places |-> 8],
            busy |-> {}, stack |-> <<>>, base |-> 0, mem |-> <<>>,
            atCall |-> NoCall,
            flag |-> Garbage, ok |-> TRUE, died |-> FALSE]

Spec == Init /\ [][Next]_vars

-----------------------------------------------------------------------------
(* Properties.                                                             *)

\* What the IR says an instruction computes, in terms of the places before it.
Meaning(i) ==
    CASE i.op \in {"mov", "ret"} -> <<i.a>>
      [] i.op = "cast" -> IF i.ds > i.as THEN <<"extend", <<i.a>>>> ELSE <<i.a>>
      [] i.op = "address" -> <<"address", i.a>>
      [] i.op = "neg" -> <<"neg", <<i.a>>>>
      [] i.op \in {"at", "load"} -> <<"at", <<i.a>>>>
      [] i.op \in {"gep_scaled", "gep_wide"} ->
            <<"element", IF i.a \in Slots THEN <<"address", i.a>> ELSE <<i.a>>, <<i.b>>>>
      [] i.op = "call" -> <<"result">>
      [] OTHER -> <<i.op, <<i.a>>, <<i.b>>>>

\* The places an instruction writes, with what they must hold afterwards.
Expected(i) ==
    IF i.op \in {"jmp", "br"}
    THEN [p \in {v[1] : v \in Range(i.moves)} |->
            <<(CHOOSE v \in Range(i.moves) : v[1] = p)[2]>>]
    ELSE IF i.op \in {"none", "store"} THEN <<>>
    ELSE [p \in {i.d} |-> Meaning(i)]

Emitted == pc = "emitted"

\* No block argument is a slot that another one goes to: the slots are written
\* one after the other, and before the registers are read.
Apart(moves) ==
    \A k, l \in DOMAIN moves :
        k # l /\ moves[k][1] \in Slots => moves[l][2] # moves[k][1]

\* What ResultArrives takes for granted: a literal that is stored has the size of
\* what the pointer points to, and block arguments are apart.
Plain == "store" \notin Untyped /\ \A moves \in BlockMoves : Apart(moves)

\* A store through a pointer writes the whole of what it points to, as for the
\* elements of an array that is declared with its values.
StoreIsWhole ==
    Emitted /\ ins.op = "store" => m.mem = <<<<<<ins.d>>, ins.ds, <<ins.a>>>>>>

\* As long as the compiler lives, the printed code can be assembled and
\* leaves in every place that the IR instruction writes, in the full width of
\* its type, the value that the IR instruction gives it (x86_64.c:868-1205).
ResultArrives ==
    Emitted =>
        /\ m.ok
        /\ \A p \in DOMAIN Expected(ins) : Read(m, p, ins.ds) = Expected(ins)[p]
        /\ StoreIsWhole
        /\ ins.op = "br" => m.flag = <<ins.a>>

\* Code for one instruction leaves alone every place that the allocator may
\* have given to another value: all but the destination, the clobbered
\* registers, and at a call those that a callee may use and nobody saved.
OthersKept ==
    Emitted =>
        LET lost == DOMAIN Expected(ins) \cup Clobbers(ins)
                      \cup (IF ins.op = "call"
                           THEN Regs \ (CalleeSaved \cup ins.across) ELSE {})
        IN \A p \in (Regs \cup Memory) \ lost :
               m.val[p] = IF p \in CalleeSaved \ used THEN <<"caller", p>> ELSE <<p>>

\* What an instruction costs in reserved registers: it gives back all that it takes
\* but one for each cycle of its moves, and as long as two are free, or one for each
\* cycle, it has enough (x86_64.c:235, codegen_utils.c:97).
Price(i) == Cardinality(Cycles(RegisterMoves(i)))

GivesBack ==
    pc = "body" /\ pc' = "emitted" =>
        m.busy \subseteq m'.busy /\ Cardinality(m'.busy \ m.busy) = Price(ins')

DiesInWant ==
    pc = "body" /\ pc' = "dead" =>
        LET free == Cardinality(Reserved \ m.busy) IN free < 2 \/ free < Price(ins')

OnlyCyclesKeepScratch == [][GivesBack /\ DiesInWant]_vars

\* A callee finds argument k in its register or at [rbp + 16 + 8 (k - 6)], and
\* the registers that are pushed and the stack arguments keep the alignment
\* that the frame has (x86_64.c:1077-1130).
ArgumentsArrive ==
    Emitted /\ ins.op = "call" =>
        /\ \A k \in DOMAIN ins.args :
              <<ins.args[k]>> =
                IF k <= Len(ArgRegs) THEN m.atCall.val[ArgRegs[k]]
                ELSE m.atCall.stack[Len(m.atCall.stack) - (k - Len(ArgRegs) - 1)]
        /\ (Len(m.atCall.stack) - Len(m.stack)) % 2 = 0

\* A function gives back the stack, rbp and the callee-saved registers as it
\* found them, whatever its instructions did (x86_64.c:548-577).
CallerUnharmed ==
    pc = "out" /\ m.stack # <<>> =>
        /\ m.stack = <<<<"return">>>>
        /\ \A p \in CalleeSaved \cup {"rbp"} : m.val[p] = <<"caller", p>>

=============================================================================
