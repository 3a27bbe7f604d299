# A verification of the Hupeyaszih compiler

The repository is a compiler, written in C, from the language hrs to x86-64
assembly. This directory holds TLA+ models of its parts, the model-checking
runs that explore them, and proofs about them. File names below are relative
to the root of the repository.

## 1. The system

The compiler is one sequential program. A source file passes through

    lexer -> preprocessor -> parser -> semantic analyser -> lowering (IR)
          -> optimiser -> register allocator -> code generator

and the result is an assembly text. There are no threads, no messages and no
persistent state, so the hard behaviours are not races or crashes. They are

- *state that outlives its use*: flags kept in the build target between calls,
  vregs whose union member changes meaning, a temporary arena that is reset in
  the middle of a pass, pointers into vectors that move when they grow, names
  that are looked up again in tables that have grown since;
- *iteration to a fixpoint* over data that changes under the iteration;
- *orders that matter*: register moves that must look simultaneous, phases of
  the allocator that each assume what the earlier ones did, passes of the
  optimiser that edit each other's use lists, operands that are widened before
  they are checked;
- *ways out in the middle*: a parser function that fails leaves a scope, a
  cursor and a null pointer to whoever called it;
- *limits*: two reserved registers, 14 registers in all, 64 macro rounds, the
  room in a chunk or a vector.

| Component | Source | State | Operations | What makes it correct | Model |
|---|---|---|---|---|---|
| lexer | src/core/lexer.c, h_string_view.h | cursor, line, token array | one turn of the loop per lexeme; literals to numbers | the longest lexemes, one token each; literals keep their value | Lexer |
| preprocessor | src/core/preprocessor.c | macro table, token vectors | define, expand in rounds | rounds mean the same as one expansion inside out | Preprocessor |
| parser | src/core/parser.c | cursor, scope, loop ids, error flag | one function per construct, recovery | the grammar, the scopes, and an end for every file | Parser |
| symbol table | src/core/symbol_table.c | chained scopes, type table | insert, look up | the innermost declaration wins | Parser, SemanticAnalyzer |
| semantic analyser | src/core/semantic_analyzer.c | types of nodes, error flag | two passes over every kind of node; purity | no ill-typed program passes | SemanticAnalyzer |
| lowering | src/core/ir_lower.c, ir_gen.c | current_vreg of every variable, the current block, loop parameters | one case for each node | a read sees the last write on every path | Lowering, in part |
| liveness | src/opt/opt.c 435-510 | uses, defs, live_in, live_out of every block | local scan, fixpoint rounds | least solution of the equations; live means read later | Liveness |
| live ranges | src/opt/opt.c 512-608 | start, end and weight of every vreg | one walk from the last instruction to the first | intervals cover every point where the vreg is live | LiveRange |
| optimiser | src/opt/opt.c | use lists, definitions, operand types | constants, folding, copy propagation, dead code elimination in rounds | the program's effects stay; the rounds end; use lists stay exact | Optimizer, in part |
| register allocator | src/opt/register_allocator.c | the interference graph, aliases, the work list, registers, slots | build, colour parameters, coalesce, simplify, prefer, select, propagate, save around calls | live vregs do not share a place, nothing lives in a destroyed register | RegAlloc |
| code generator | src/backend/x86_64, codegen.c | the stack, r10/r11, the printed code | prologue, epilogue, one emitter per instruction | each instruction does what the IR says and nothing else | Emitter |
| argument moves | src/backend/codegen_utils.c | pending moves, their out-degrees and current sources; busy flags | codegen_utils_emit_call_args, used by CALL, JMP and BR | the emitted sequence equals one simultaneous assignment | ParallelMove |
| arena, vector | src/h_arena.c, h_vector.c | chunks; elements | alloc, reset, strdup; add, remove, pop | live allocations are disjoint; a vector is a sequence | Arena, Vector |
| hash table, bit set | src/h_hashtable.c, h_bitset.c | buckets; words | insert, find; set, test | | not modelled, see section 6 |

Components share state through pointers: the parser binds names to symbols that
the analyser types again and lowering marks; the optimiser writes the live
intervals that the allocator reads; the allocator writes the register or slot
of a vreg into the same operand that the code generator prints; the code
generator calls the argument moves once for each call and jump, with one
register list for the whole compilation.

## 2. The modules

| Module | What it is |
|---|---|
| Lexer | the loop of lexer_tokenize, one action per branch; literals; and what the longest lexemes of a text are |
| Preprocessor | definitions and the expansion of macros, in rounds and, for reference, inside out |
| Parser | every parser_parse_* function, an operator from parser state to parser state |
| Grammar | what the parser is to accept: trees of expressions and scopes, told from the text |
| Frontend | preprocessor and parser one behind the other: from the tokens of a file to trees |
| SemanticAnalyzer | both passes over the trees that Frontend makes |
| Lowering | the construction of blocks, instructions and vregs, one action per statement and per part of a loop |
| SourceProgram | what the functions that Lowering reads do in the source language |
| LoweredRun | the blocks that Lowering has made are executed; they implement SourceProgram |
| Optimizer | use lists, folding, copy propagation and dead code elimination, one action per instruction and pass |
| Liveness | local and global liveness, one action per instruction and block |
| LiveRange | the live intervals: the walk that starts when Liveness has ended |
| RegAlloc | the register allocator, one action per iteration of each of its loops |
| Emitter | the code printed for each IR instruction, executed symbolically, in the frame of a function |
| ParallelMove | the argument moves, one action per branch of the loops |
| ParallelAssign | the abstract assignment that the callers of ParallelMove rely on |
| Arena | the bump allocator, as operators on a list of chunks |
| Vector | vectors and copied strings in one arena, one action per operation |
| Lists | the sequences that Vector implements |
| Once | a helper that makes TLC evaluate an argument once |
| MCLexer, MCFrontend, MCSemanticAnalyzer, MCLoweredRun, MCOptimizer, MCLiveRange, MCRegAlloc, MCEmitter, MCParallelMove, MCVector | the instances TLC explores exhaustively |
| MCRegAllocX86, MCOptimizerCases | single functions with the compiler's own numbers, for the findings |
| ParallelMoveProofs, RegAllocProofs, OptimizerProofs, LoweringProofs, VectorProofs, EmitterProofs, LexerProofs | the theorems on the module of that name |
| LiveRangeProofs | the theorems on Liveness and LiveRange |

Definitions whose comment starts with "Faulty:" are variants of the definition
below them, each with a plausible slip; no specification uses them. They serve
to show that the properties notice such a slip.

### Lexer

A text is a sequence of characters; `pos` is the cursor i, and `capacity` the
size of the token array. A keyword and a symbol are their own types. Beside the
loop stands what it is to find: `IsLexeme` says which strings are lexemes,
`Lexeme` takes the longest one at a place, and `Meant` makes tokens of those that
follow each other. `TextIsRead` compares the two on every text that consists of
lexemes; of others (a string that never ends, a character the language does not
know, a line break inside a literal) nothing is promised, and the code promises
nothing. `ToInt`, `ToChar` and `FromCharLiteral` are the conversions of
h_string_view.h, which opt.c, parser.c and ir_lower.c use; int wraps at
`IntBits`. Left out: the statistics of a file, and capital letters in
hexadecimal numbers, which take the place of the small ones.

### Frontend: Preprocessor, Parser, Grammar

A token is the string it is written as, and the constants say which strings are
names, numbers and texts. Preprocessor is the whole of preprocessor.c; one
step of `Read` collects the definitions and expands the file round by round. A
macro file in which nothing is left when the rounds end is also expanded by
`Meaning`, recursively and inside out, and `RoundsKeepTheMeaning` compares.

A parser function is an operator whose argument and result is a record of the
cursor, the node it returns (`Null` where C returns NULL), the scopes, and the
flags that decide anything; `Then` is "go on unless it failed". The parser's
own quirks are part of it: what an error leaves in the scope, a missing comma
that is not noticed, a null pointer that is looked into (`crash`). Past the last
token it reads the zeroed slot that `SpareSlotIsZero` of Vector provides. Left
out: mangled names, line numbers, and the "unique" flag, which is not read.

Grammar knows no cursor: `Tree` cuts an expression at its loosest operator, and
`WellScoped` finds the declarations by matching braces. It is the grammar that the
parser has, which is wider than the language of the examples: the arguments of a call
may follow each other without a comma, and a comma may end them (parser.c:365-378), so
that f(1 1) is a call with two arguments. `Pieces` says where such arguments end.

The model and the compiler were compared on 18212 files of the frontend run; they
accept and refuse the same ones, except where a macro needs more than
`MaxRounds` rounds, and where the compiler, given no token at all, reads past
its buffer (stage "died").

### SemanticAnalyzer

It extends Frontend, so an analysed program is one that the modelled parser has
made of a text. `typed` holds the trees with their types after the first pass,
`marks` what the two passes have found: errors, null pointers they looked into,
variables whose address is taken. `Natural` and `Stores` are the reference: the
type of a value found from its leaves, and where each value goes.

The type of a text, "*char", is looked up in the type table and never made
(symbol_table.c:236-238). It is there if the file has spelled it anywhere
(`texts` of the parser's state, for both passes come after the parser) or if the
first pass has taken the address of a character before (`StarChar`, which the
context of `Typed` carries on). Otherwise a text has no type, and a value without
a type is not checked (semantic_analyzer.c:237): `PassedFits` excepts the values
that hold such a text (`Told`), `TextsFit` does not and is violated, see section 4.
On 9771 files that spell the type the model and the compiler accept the same ones.

### Emitter

The state is a symbolic machine: the term that each register, slot and global
holds, with the number of bytes that were written last; the words on the stack;
the reserved registers that are taken. An action prints the code of one IR
instruction with one choice of places and sizes, and the machine after it is
what that code does. Between two instructions the places take their own names
again (`Renamed`), so that every instruction is met in every state that the
stack and the reserved registers can be in, and no term grows.

What the earlier passes promise is `Allocated`: nothing that an instruction reads
or writes is in a register it clobbers (`ClobbersAvoided` of RegAlloc), and the
destination meets the sources only where the allocator lets it. The registers
that a call has to save are a set, pushed in one order (SetToSeq) and popped in the
reverse one. `Plain` is what `ResultArrives` takes for granted: a literal that is stored
has a type (finding 9 says when it has none), and no block argument is read from
a slot that another argument of the same jump is written to, since slots are
written one after the other and before the registers. MCEmitter assumes it, so
that TLC confirms that the run meets it. The moves of a
call are the simultaneous assignment that ParallelMove implements, which is what comes
of them in registers of the allocator. The runs stay
within what the compiler can print; section 4 lists what it cannot: a literal on the left of
a comparison, a shift of a slot, a load into a slot and others are left out of
the instructions that are tried. Left out as well: inline assembly, labels, the
data section, the macOS spelling of names, and texts: a global that is a text is taken
by its address, `lea` in place of `mov` (x86_64.c:347).

The moves of a call or a jump take a reserved register for each cycle among them and
never give it back (finding 3), so `Assign` leaves that many more taken (`Taken`,
`Cycles`), until none is left. The compiler then reads NULL: the machine has `died`, and
`pc` is "dead". Every property of the model is about what is printed until then;
`OnlyCyclesKeepScratch` says that nothing else takes a register for good, and that the
compiler does not die as long as two are free, or as many as there are cycles.

### Arena, Vector, Lists

Arena is operators on a list of chunks, an address is a chunk and an offset, and
a cell of a chunk keeps what was last written to it, so that memory that is
given out again after a reset is not fresh. Vector holds the vectors and strings
that live in one arena; a vector that grows takes a new block and leaves the old
one behind. Under the mapping that reads each vector and string out of the
memory, it implements Lists, in which every one is a sequence of its own.

### ParallelMove

The variables are the fields of `node_t` (`srcReg`, `outDegree`, `done`), the
loop variables and `busy`, the set of reserved registers whose
`is_reserved_reg_busy` flag is set. `busy` survives `Return`: the flags belong
to the register list of the build target. `regs` is not compiler state: it is
the effect of the emitted instructions, executed symbolically (each register
starts with its own name). `Enter` is a call with any moves into different
registers. The registers that are NULL in the code when the reserved ones are
used up are the state `pc = "null"`.

### RegAlloc

A function is a record of what the allocator reads: intervals, parameters, the
copies in program order, the (register, time) clobbers, the preferences, the
weights and the calls. `root` is the alias forest after path compression. The
code overlays a spilled vreg's id and register with fields of its slot; they
then read as 0 and NULL, which `Decreased` and `reg = NoReg` reproduce. The
model gives exactly the registers that the compiler prints for the functions in
MCRegAllocX86. Left out: vregs that dead code elimination has made UNDEFINED
(the code skips them, but they shift the node indices that coalesce_two_nodes
uses in its neighbour count), and slots of different sizes.

### Liveness

A function is its blocks in layout order, each with its instructions' used and
defined operands, and successors. `b` and `k` are the block and instruction the
code is at. Vregs and stack slots are numbered independently, but
get_operand_id gives either number to the same bit sets, so an instruction has
`slotUses` and `slotDefs` beside `uses` and `defs`, and the sets of the analysis
mix both as the code's do.

### LiveRange

LiveRange extends Liveness: its state is that of Liveness and the walk's own,
`start` and `end` (the fields of live_interval), and `at` and `inst`, the
position of the walk, which begins when the rounds have ended. `VisitInstruction`
is the body of the inner loop, `VisitBorders` the part after it. `Meet` is
`intersects` of the allocator, so what LiveRange promises is what RegAlloc
assumes of its inputs: RegAlloc takes any intervals and shows that those that
meet are kept apart; LiveRange shows that what must be kept apart meets.

### Optimizer

A module is one sequence of instructions, `last[h]` being the last of function
h. `users[o][j]` is how often instruction j is in the use list of operand o,
`kind` the operand's type, `const` its constant flag. A removed instruction
stays as a "nop", as in the code. Instructions are classes: what the passes ask
of an instruction is its type, whether it is foldable, whether it has side
effects and whether its callee is pure, and each class answers these questions
in one way. A folded instruction becomes a move whose `value` is what was
computed. The model does no arithmetic: a folded value is the term it was
computed from, so the properties see whether the right operands were used, not
whether the sum is right (32-bit wrap-around is section 6's ConstantFold).

`Values` executes a path symbolically: after each of its instructions, every
operand holds a term. `SameEffects` compares, instruction by instruction, what
each effect (a store, a call, a return, a jump) is handed in the module as it was
lowered and in what is left of it. Which paths a module has is part of the
program; `PathsAssumption` says what any control-flow graph in SSA form gives.

### Lowering, SourceProgram, LoweredRun

A program is the sequence of statements in the order in which lowering meets
them; a loop contributes four steps, before its body, between its parts and
after them. SourceProgram runs it directly: variables, their scopes, and a
condition that goes either way. Values are names of where and when they were
made, so that two rounds of a loop make different ones. Lowering turns it into
blocks, with one record of `frames` for the C stack frame of each loop being
lowered, and `current` for the current_vreg of the symbols. LoweredRun executes
the blocks as the code generator prints them: a block without a jump runs on into
the next one of the layout, and so does a branch whose condition is true.
`where` remembers `current` at each step; it is what the refinement mapping needs
to say where the value of a variable is, and the code has no such thing.

A loop that changes a global crashes the compiler (`Crash`): the mutated symbol's
union is taken for a vreg. Left out are types and casts, arrays, pointers, the
expressions (a statement reads variables and makes a value), `in_loop`, the
loop's first and last instruction, which the weights and LiveRange use, and
variables that are declared without a value or in a loop's return part.

## 3. The runs

| Run | Instance | Shows |
|---|---|---|
| lexer | every text of up to 3 of 17 characters, and up to 5 of those of numbers, of quoted literals and of operators | the longest lexemes, one token each, with its line, in an array that has to grow; the values of literals |
| frontend | 23167 files: short expressions, argument lists with commas and without, every pair of operators; nestings of declarations, blocks and loops; whole files with a token lost, doubled or replaced; two macros that use each other | trees and precedence, scopes, the meaning of macros, an end for every file |
| semantic | 7247 files: every store, argument and result of expressions of up to two operators over variables of each kind of type, in files that spell the type of texts and in files that do not; addresses taken in every nesting, of assignments too | what passes fits, but for texts that have no type; what has its address taken is in memory |
| semantic_shadow | the same | *finding:* a name used before a declaration that shadows it changes its meaning |
| lowering | 3266 functions: a loop, or one in each part of another, that changes a parameter, a variable and a local in any of its parts; in vregs or in memory | shape of the blocks, arguments of the jumps, refinement of SourceProgram on every path |
| optimizer | 11816 modules: three instructions, a return and a second function; a loop with two instructions in its body; or operations, `!=` among them, on a text and what is copied from it | use lists, definitions, effects along every path, no dead code, termination |
| optimizer_call | a call whose result only feeds dead code | *finding:* the call is deleted |
| live_range | all graphs of 3 blocks, 2 vregs, empty blocks, loops, with and without parameters | all properties of the liveness analysis, termination of it and the walk; the intervals of what is written meet those of what is still needed |
| regalloc | 4 vregs, intervals up to instruction 3, 4 registers of which one is reserved, up to 2 parameters | the safety of the colouring, registers are kept, slots are shared by owners that are not alive together, termination |
| emitter | every IR instruction with every choice of places among 6 registers, 2 slots, a global and literals, in sizes 1, 4 and 8, with and without a register to preserve | the code can be assembled, computes what the instruction means, spoils nothing, gives its reserved registers back but one for each cycle of its moves; calls and frames balance |
| parallel_move | 4 registers, 2 reserved, 1 other source, up to 4 moves in each call | the result and the order of the moves, termination, refinement of ParallelAssign |
| vector | 2 vectors and 2 strings in up to 3 chunks of 5 cells, up to 3 elements | blocks apart, the zero behind the last element, refinement of Lists |

Further configurations, not in this list, each show one more disagreement of
section 4: MCParallelMoveLeak.cfg (MCParallelMove), MCRegAllocX86.cfg (MCRegAllocX86; two
disagreements, with TLC's -continue), MCLiveRangeSlot.cfg (MCLiveRange),
MCLoweredExit.cfg (MCLoweredRun), MCOptimizerGlobal.cfg (MCOptimizerCases) and
MCLexerQuote.cfg (MCLexer).

*Bounds.* In Lexer, three characters hold every pair of neighbours and what is
behind it; five hold an escaped quote inside quotes, or a prefix, digits and what
stops them. The array starts with room for one token, so it grows at the second
and the third. In Frontend, three operators around four operands have every
grouping that precedence can decide; four tokens between the parentheses of a call hold
two arguments with one operator or one pair of parentheses, next to each other or with
commas; a loop with one declaration or use in each
part, next to and around others, has every visibility. `MaxRounds` (64 in
the code) is 6: two macros that do not call themselves are done in fewer. In
SemanticAnalyzer two operators are the first expression whose widening reaches
a leaf through another node. In Emitter, one jump with two cycles, or two with one,
take both reserved registers; the next instruction that needs one ends the
compiler. Further, two slots let both operands and
the destination of an instruction be in memory; of the registers each with a
role of its own (rax, rdx, rcx, an argument register, one to preserve) is there
and one with none; two argument registers put up to two arguments on the stack,
and up to three saved registers make both parities. In Vector, a third element
is the second growth, to more than a chunk has room for.

Four moves over four registers contain every shape a move graph has
that the code tells apart: chains, fan-out, two disjoint cycles, a cycle with a
tail, a self-move; two reserved registers let a second call meet what a first
left behind. Four vregs with three usable registers force spilling; two copies
in a row, a coalesced group of three, and a group next to a fourth vreg fit in.
The interval ends, and so the interference graphs of straight-line functions,
are enumerated without restriction. The liveness equations of different vregs
do not interact; the two vregs of live_range read and write in different ways,
and between them meet each order of a read and a write that a block can have.
Three blocks contain self-loops, two-block loops, loops with an exit and
unreachable blocks. An interval depends
on one vreg only, and the properties of LiveRange relate two. In Optimizer,
three instructions are the shortest chain in which a pass changes the reader of
a reader (copy of a copy; dead result of a dead result; a constant of a
constant), and every instruction may read any earlier result, also twice; the
loop adds a parameter that its own body feeds, and its paths go around zero,
one and two times, the second round being the first whose parameter comes from
the body. The modules are in SSA form, as lowering makes them. In Lowering a loop in
another, in any of its three parts, is the first case in which a part ends in
another block than it began with, and two variables that are assigned to each
other make wrong vregs visible; a loop runs any number of times, as the values
repeat with the second round after the first.

The bounds in guards are `MaxMoves` (ParallelMove), `MaxRounds` (Preprocessor),
`MaxCount`, `MaxTexts` and `MaxChunks` (Vector); everything else is bounded by
the functions, files and texts that are entered.

*Deadlock* is checked in Frontend and SemanticAnalyzer, which stutter at the end
of a file, and in Vector, where something can always be done. It is
not checked elsewhere, for the modelled functions return, and in ParallelMove
and Emitter the compiler may crash. `Termination` says that they do return.

*Fairness.* Every component is sequential code that runs once entered. So the
only fairness is weak fairness of its step, `WF_vars(Next)`; in ParallelMove
only of `Step`, for nobody has to call the function again.

## 4. What the runs found

Of the finding runs:

1. *optimizer_call*: what defines an operand that has become UNDEFINED is
   removed without a look at its effects (opt.c:890).
2. *semantic_shadow*: the analyser looks every name up again in the tables as
   they are at the end of the file (semantic_analyzer.c:372). A use in front of
   a declaration that shadows the variable becomes a use of the new one, and
   lowering crashes on it.

Of the further configurations:

3. *MCParallelMoveLeak* (and `GivesBack` of Emitter, which allows for it): codegen_utils.c:95-101 asks whether a reserved
   register is still used before the move just emitted is marked done (108).
   The answer is always yes, and r10 and r11 are never freed. The third cycle of
   a compilation crashes the compiler.
4. *MCRegAllocX86*, `ParamsAvoidClobbers`: register_allocator.c:398-408 colours parameters without
   regard to clobbers. `fn h(a, b, c) { var q = a / b; q + c; }` gives 8 for
   (20, 3, 7).
5. *MCRegAllocX86*, `NotOverwritten`: head-to-tail intervals are merged although the vregs are
   alive together (register_allocator.c:248-254).
6. *MCLiveRangeSlot*: vregs and slots share the numbers of the liveness sets
   (opt.c:286, 448), so the ALLOCA of a slot counts as a write of a vreg.
7. *MCOptimizerGlobal*: a global is UNDEFINED once the functions optimised so far
   have lost their uses of it (opt.c:894); later functions lose theirs.
8. *MCLoweredExit*: only variables that live outside the loop get back the vregs
   of the body's end before the return part (ir_lower.c:520-526). One that the
   body declares and the continue part assigns is read there from a vreg that
   the last round has not written.
9. `StoreIsWhole` with MCEmitter.cfg, where `Untyped = {"store"}`: an array's initialiser keeps its literals in one byte, and
   STORE_INDIRECT writes as many bytes as its source has (x86_64.c:904).
10. *MCLexerQuote*: str_view_to_char takes quotes off at both ends, but the lexer
   has left them out already (h_string_view.h:106-107): `'\''` is a backslash, 92,
   and `'''` is 0.

All were reproduced with the compiler: the program is compiled with -O0 and -O2
and run, or, where the compiler crashes, compiled at all.

More was met while modelling; each is either what the model does too, with the
property stating what remains true, or an input that a run leaves out.

*Lexer.* A string that is not closed loses its last character. Line breaks inside
a literal are not counted. Whatever stands where the quote should close a
character is passed over, and so is a character that the language does not know, or
it becomes part of the word before it. Digits may be followed by x or b without a 0
in front: 12x3 is one number, which the assembler refuses.

*Preprocessor.* A file of definitions only, or one that expands to nothing,
crashes (preprocessor.c:173). A use of a function-like macro without
parentheses takes those that a later round puts behind it. A text that equals a
parameter's name is replaced like one (:61). Macros that call themselves stop
after 64 rounds without a word.

*Parser.* A function cannot return a pointer (parser.c:557). After `loop approx`
anything passes for a number (:463). Commas may be missing. An unknown name
behind `*`, in typeof, or as an element type is a null pointer that is looked into.

*Semantic analyser.* A call with the wrong number of arguments is not noticed
inside a loop or in an argument, where the second pass does not enter. A pure
function that calls a pure one is refused (semantic_analyzer.c:80); asm in a pure
one is reported and accepted (:202). A value that gets no type is let through: a text
has none in a file that does not spell "*char" (symbol_table.c:236-238), so
`var t: int8 = "s";` passes there and lowering crashes on it (ir_lower.c:171); with
"*char" in the file it is refused. `TextsFit` of SemanticAnalyzer, put in place of
`PassedFits` in MCSemanticAnalyzer.cfg, shows it. `&a[0]` crashes (:437); `&(a = 1)`
moves a to memory (:469-471).

*Lowering.* An assignment below a unary operator or in an array index is not
found by IRL_find_mutations (ir_lower.c:898-908), so the loop gets no parameter
for it: y = -(x = x + 2) in a loop reads the same x every time; the programs of
the lowering run have such a statement only for variables of the body. A loop
that changes a global crashes the compiler (ir_lower.c:476-486).

*Optimiser and allocator.* BANG_EQUAL is foldable but has no case in the folding
switch (opt.c:993), so the result is an uninitialised variable. A text is a global
operand that counts as constant (ir_lower.c:562-569), has no value that the compiler
knows (opt.c:618-619), and that get_operand_imm_value says so is ignored
(opt.c:965-971): an operation on a text is folded from uninitialised variables. The
model has both as an unknown value, and the run has modules with both;
`EffectsInOrder`, the part of `SameEffects` about values, excepts the modules in which
that has happened (`FoldedUnset`). Folding computes
in 64 bits what the program computes in 32 (opt.c:983). An unused seventh
parameter and the eighth share a stack slot (register_allocator.c:383-396 with
548-577). A spill slot is shared after asking only the owner of the slot, not the
others that share it already (:564); `SlotOwnersApart` states what the code does ensure.

*Code generator.* `!` prints nothing. A literal of 64 bits is put into an add or a
cmp, which cannot hold it; so is a literal that a loop compares on the left,
`cmp 1, 0` (x86_64.c:1163). A load into a spilled vreg is not stored back (874-896).
An element of a spilled pointer is addressed through the slot itself. The
result of a comparison that goes into a wider variable leaves its upper bytes as
they were (637). A shift of a spilled vreg has no size, and a narrow index of an
array is used in 64 bits.

## 5. The proofs

The theorems hold for all values of the constants; each rests only on the
assumptions its module names (`LocationAssumption`, `RegisterAssumption`,
`InputsAssumption`, ...). Each proof shows that an invariant `IInv` is
inductive, action by action, and derives the properties from it. Type
invariants, `OutDegreeExact`, `StuckIsPermutation`, `OnePlaceEach` and others
that no run lists any more are theorems still.

*ParallelMove.* `PendingSourceIntact` alone is not inductive: a move is safe
because its out-degree is zero, and the out-degree is right (`OutDegreeExact`)
because it was right before, the sources of pending moves change only when a
cycle is broken (`SourcesTracked`), and at that moment the pending moves are a
permutation, since as many registers are read as written. `DoneMovesKept` says
that emitted moves are final. The refinement maps every emission step to a
stutter and the last one to `Assign`. Proved: the type invariant, all four
safety properties, the action property and the refinement.

*RegAlloc.* The heart is `NodesApart`: coloured nodes differ from their
neighbours. It survives coalescing because the edges of a representative cover
those of all the vregs it stands for (`NodesCover`) and interference is
symmetric; it survives colouring because a register is given only if no
neighbour's representative has it. The rest of `IInv` says who is coloured when
(`ParamsColoured`, `WorkIsToDo`), that nobody is lost (`NobodyForgotten`) and
that registers and slots exclude each other (`PlacesExclusive`). For stack slots
`SlotsApart` says at every moment what `SlotOwnersApart` says at the end: a slot
is shared with owners that are no neighbours, and the edges of a node cover its
interferences (`NodesCover`); merging only makes fewer nodes, and a vreg that
follows its node into the slot is not an owner. Proved: the type invariant, the
five safety properties and the action property.

*Liveness.* `InOf` is monotone, so a round that starts below its own result
(`Ascending`) only adds and stays below every solution; while a round has
changed nothing, the blocks it visited are solved (`VisitedSolved`). So the
result is the least solution. That it means "read on some path before it is
written" (`LiveIsReadLater`) takes two more steps. One way, the set of blocks
from which a path reads a vreg solves the equations, so the least solution is
below it; a path can always be made shorter than the number of blocks by cutting
out a detour, since a longer one visits some block twice. The other way, take the
shortest path to a read that the analysis missed: entered one block further on
it is shorter, hence not missed, and then the equations have it in the first
block too. Proved where no slot has the number of a vreg
(`NoSlots`): live_range_slot shows why this is needed.

*LiveRange.* The walk meets the instructions in falling order of their numbers.
So a definition that overwrites a start only moves it down, ends only move up,
and what one visit has covered stays covered (`InstructionsCovered`,
`BordersCovered`). At the end every point where a vreg is live is inside its
interval, by `LiveMeansReadLater` for what is live across a border. Proved: the
type invariant and, under `NoSlots`, both other properties.

*Vector.* Chunks are only appended and their `occupied` only grows between two
resets, so what was given out stays apart (`BlocksDisjoint`), and a reset leaves
no owner behind. `RoomForOneMore` is the early growth (h_vector.c:39).
`UnusedIsZero` strengthens `SpareSlotIsZero` to all slots behind the last
element: adding fills one, and growing copies the elements and zeroes the rest.
A write to one block leaves what is read through every other block
(`BlocksDisjoint` again), so each step of Vector is a step of Lists for one
vector and a stutter for the others. Proved: the type invariant, both safety
properties and the refinement, for every size of chunks, vectors and strings.

*Optimizer.* A use list is read to decide that something is dead, after other
passes have edited it. The invariant is that it never loses a reader
(`ReadersListed`): `Shape` keeps the instructions' records in order, folding
takes out as many entries as it had, propagation hands the readers of the copy
to its source, and removal takes out only what the removed instruction read.

*Dead code.* The lists of a later function are not computed when an earlier one
is optimised, so `ReadsAreDefined` holds only where no two functions name the
same operand (`OperandsAreLocal`); MCOptimizerGlobal shows what happens
otherwise, and `StayLocal` says that no pass changes it. Then an empty list means
that no instruction of the module reads the operand, whatever becomes undefined
is unused, and the definition of what is read stays. For `DeadCodeGone` the
lists must not hold too much either: `ListedRead` bounds an entry by what the
instruction mentions, but for the arguments of removed calls, whose entries
the code leaves in (opt.c:853) and which the property excepts. `Visited` says that a round
which has changed nothing has found nothing to remove behind it. That only calls
are removed (`OnlyReadCallsVanish`) needs to know how an operand became
undefined: something read it before, or a pure instruction defined it
(`UndefinedBefore`).

*Effects.* `SameEffects` compares two runs along a path. `SameReads` says that
an instruction that is still what it was is handed, in the values of the original
run, what the original instruction is handed: propagation keeps it, because at
every reader of a copy the source still holds what the copy holds (`CopyHolds`).
Suppose it did not: the source was written again in between. One instruction
writes the source, or several jumps to the block it is a parameter of, and what
follows a write may follow any other (`PathsAssumption`, true of the paths of a
graph: both ends are in the same place). Cut the path from the last write
before the copy to the later one: there the reader comes without the copy
having been written, against the first part of `PathsAssumption`. `FoldedRight` and
`ConstantsRight` say the same of folding. With these the two runs agree on
whatever still has a definition (`Agreement`), hence on the effects. The
induction along the path is the lemma `Least`: where they differ there is a first
place. The theorem has one hypothesis, `OperandsAreLocal`; that nothing is claimed where
a `!=` or an operation on a text was folded, whose result is an uninitialised variable in
the code, is part of the property (`FoldedUnset`). Proved of Optimizer:
the type invariant and all four safety properties.

*Lowering.* `BlocksFit` for every nesting of loops. It is not inductive: that the
block a step adds has not been added before depends on where in which loop the
step stands. `LoopsOpen` ties the two together: the frames are exactly the loops
around the step at hand, outermost first. Two loops are apart or one is inside a
part of the other (`LoopsAssumption`, which the parser ensures), so a step between
two parts of a loop finds the frame of its own loop at the end (`InnerFacts`), and
no other frame has anything due (`FrameSteps`). From that the number of the step
alone says which blocks of a loop have been laid out (`BlocksWait`) and which body
waits for its branch (`BlocksOpen`): the first is why nothing is laid out twice, the
second why nothing follows a jump. A jump back passes as many operands as the body
has parameters because both come from the same list; that each operand is a vreg
(`PassedHeld`) is carried from the start of the loop, where `LoopCrashes` would
have stopped a variable without one, to its last step. TLC agrees that the whole
`IInv` holds on the functions of MCLoweredRun. Proved: `BlocksFit`, which contains
the type invariant.

*Emitter.* For every set of registers, every order of argument registers, every
frame and every choice of instructions with their places and sizes
(`EmitterAssumption`). The properties look at the machine behind an
instruction; what makes them true is the machine in front of it, so `IInv` has a
part for each place a function can be in, and says nothing of a compiler that has died. Between functions (`AtRest`) the
registers that a callee must preserve hold what the caller left in them. In front
of an instruction (`InBody`) the frame is whole and
every place but the caller's holds its own value; any number of reserved registers may
be taken. Behind one (`Behind`) the frame
is still whole, and the bodies of `OthersKept`, `ArgumentsArrive` and, under
`Plain`, `ResultArrives` hold. `Framed` says where on the stack each saved word
is; without it nothing tells that the epilogue finds what the prologue pushed.

Each emitter has a lemma of its own: whatever reserved registers were taken before, if the
compiler lives the same ones are taken behind it; it
leaves the stack as it was, changes nothing but its destination and what it clobbers, and
computes what the instruction means. An emitter takes a reserved register for an operand
that the machine cannot address and gives it back before it ends; a register it gets is
none that is taken already, so the two it may hold at once are different (`TakeDoes`). A
compiler that has died stays dead, whatever it is asked to print (`Dead`), so a live one
has found a register each time. Only the moves
of a call or a jump take registers and keep them, as many as `Cycles` counts (`GivesBack`,
an action property). A call is the longest: what is pushed around
it comes back because the stack arguments are dropped exactly, and the padding
makes the number of words even whatever the number of arguments. The loops that
push arguments, pop registers and write slots are closed forms in the model; that
the words pushed and popped are the same ones is shown with the lemma `Least`, as
for *Effects*. The theorem on `ResultArrives` has the hypothesis `Plain`; the others have
none. TLC agrees that `IInv` holds on MCEmitter. Proved: the four invariants, and
`GivesBack`, one half of `OnlyCyclesKeepScratch`; the other one, `DiesInWant`, is only
model-checked.

*Lexer.* For every text over every alphabet, and every choice of letters in it
(`LexerAssumption`: letters are no digits, spaces or symbols,
and no text holds the character that ends it). `IInv` says what holds before every
turn of the loop: what has been written, followed by what is meant from the cursor
on, is what is meant from the beginning on (`ReadIsMeant`), and the line is one more
than the line breaks read. Two things make it inductive. What a turn takes is the
longest lexeme at the cursor, one lemma for each branch (`WordEnds`, `NumberEnds`,
`StringEndsAt`, `CharEnds`, `SymbolEnds`, `CommentEnds`, `SpaceEnds`): the branch is
chosen by the first character, or two for a comment, and so is the kind of every lexeme
that can start there (`KindsApart`). And `Meant` of a place is a token put in front of `Meant` behind the
lexeme (`TokenTurn`), or just that (`BlankTurn`). Strings take most of the work:
the code steps over a backslash together with the character behind it, while
`IsString` counts the backslashes in front of a quote; the two agree because the
number of those in a row changes its parity with each (`SlashesNext`), and the
first quote that nothing escapes is where the code stops (`FirstClosing`). `Meant`
and `StringEnd` are recursive functions; that they exist is shown by taking the last
place from which they would not (`Greatest`), the same argument that stands in
for induction elsewhere. The array fits because `Grow` comes before every
token. A turn that meets nothing the language knows needs the hypothesis that all of
the text is meant, and contradicts it. TLC agrees that `IInv` holds on MCLexer.
Proved: `TextIsRead`.

*Only model-checked.* Termination (liveness under fairness is out of the prover's
reach); `VisibleIsWritten` and the refinement of SourceProgram, which need the paths
through the blocks besides; `LiteralsArrive`, Frontend and SemanticAnalyzer: what
the first makes of the digits of a literal, and the others of a text, is recursive
in it, and that is induction over data, out of the prover's reach too.

## 6. The plan

Done: a model of every pass of the compiler with its runs; proofs for every module
whose operators the prover can reason about.
Next, the most important behaviour first:

1. a proof of `VisibleIsWritten`, on top of `BlocksFit`;
2. ConstantFold: the 64-bit evaluation against the 32-bit meaning of the program;
   Purity of functions; CallerSaved: the depth-first walk over a recursive call
   graph; types, casts, arrays and pointers in Lowering.

*Not modelled.* The hash table is used only by code that is commented out. The bit
set appears as the sets it stands for; the one operation that is not exact,
bitset_is_zero, has no caller. The IR dumper, the driver's command line and file
input, and the math helpers have no state. The wording of the assembly
and of the messages, labels and the data section are left out, as nothing here
is about them; the example programs are input.
