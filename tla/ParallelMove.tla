---------------------------- MODULE ParallelMove ----------------------------
(***************************************************************************)
(* codegen_utils_emit_call_args: the code generator loads the arguments of *)
(* a call, or of a jump to a block with parameters, into their registers.  *)
(* All the moves have to look simultaneous, but they are emitted one after *)
(* the other: a register is written once no pending move reads it, and a   *)
(* cycle is broken by saving one register in a register that the compiler  *)
(* keeps for itself (r10, r11).                                            *)
(*                                                                         *)
(* The emitted moves are executed symbolically: every register starts      *)
(* holding its own name, an immediate, stack slot or global reads as       *)
(* itself.  The set "busy" outlives a call of the function: the register   *)
(* list belongs to the build target.                                       *)
(***************************************************************************)
EXTENDS Integers, FiniteSets, Functions

CONSTANTS
    Reg,       \* the registers the allocator hands out
    Scratch,   \* the registers reserved by the compiler
    Operand,   \* the sources that are no register: immediates, slots, globals
    MaxMoves   \* bound: the number of moves of one call

ASSUME LocationAssumption ==
    /\ Reg \cap Scratch = {}
    /\ Reg \cap Operand = {}
    /\ Scratch \cap Operand = {}

ASSUME MaxMovesAssumption == MaxMoves \in Nat

VARIABLES
    n,          \* the number of moves of the running call
    dst,        \* node->reg: the register move k writes
    src,        \* node->in:  where the value of move k is at the start
    srcReg,     \* node->src_reg: where the value of move k is now
    outDegree,  \* node->out_degree: the pending moves that read dst[k]
    done,       \* node->is_done
    i,          \* the index of the scan over the nodes
    progress,   \* whether this pass emitted a move
    pc,         \* "idle", "scan", "done", or "null": no register to save to
    busy,       \* the reserved registers with is_reserved_reg_busy set
    regs        \* what the machine's registers hold

vars == <<n, dst, src, srcReg, outDegree, done, i, progress, pc, busy, regs>>

-----------------------------------------------------------------------------
Node == 1..n

Location == Reg \cup Scratch

Source == Reg \cup Operand

Value == Location \cup Operand

Pending == {k \in Node : ~done[k]}

\* What a move out of x loads.
ValueOf(x) == IF x \in Operand THEN x ELSE regs[x]

\* Faulty: only the moves after k are looked at.
ReadersAfter(d, s, k) == {j \in DOMAIN d : j > k /\ d[j] # d[k] /\ s[j] = d[k]}

\* build_graph: the moves other than k that read the register k writes.
InitialReaders(d, s, k) == {j \in DOMAIN d : d[j] # d[k] /\ s[j] = d[k]}

BuildOutDegree(d, s) ==
    [k \in DOMAIN d |-> Cardinality(InitialReaders(d, s, k))]

Untouched == [x \in Location |-> x]

Empty == [k \in 1..0 |-> 0]

-----------------------------------------------------------------------------
Init ==
    /\ n = 0
    /\ dst = Empty
    /\ src = Empty
    /\ srcReg = Empty
    /\ outDegree = Empty
    /\ done = Empty
    /\ i = 1
    /\ progress = FALSE
    /\ pc = "idle"
    /\ busy = {}
    /\ regs = Untouched

\* The function is entered with m moves out of s into the distinct registers d;
\* without a move it returns at once.
Call(m, d, s) ==
    /\ n' = m
    /\ dst' = d
    /\ src' = s
    /\ srcReg' = s
    /\ outDegree' = BuildOutDegree(d, s)
    /\ done' = [k \in 1..m |-> FALSE]
    /\ i' = 1
    /\ progress' = FALSE
    /\ pc' = IF m = 0 THEN "done" ELSE "scan"
    /\ regs' = Untouched
    /\ UNCHANGED busy

\* The scan passes over a move that is done or whose target is still read.
Skip ==
    /\ pc = "scan"
    /\ i <= n
    /\ done[i] \/ outDegree[i] # 0
    /\ i' = i + 1
    /\ UNCHANGED <<n, dst, src, srcReg, outDegree, done, progress, pc, busy, regs>>

\* A reserved register that no pending move reads is handed back.  The move
\* that has just been emitted still counts as pending here.
Release(x) ==
    busy \ (IF \E k \in Pending : srcReg[k] = x THEN {} ELSE {x})

\* The out-degrees once move i no longer reads its source.
DropReader ==
    [k \in Node |->
        IF k # i /\ ~done[k] /\ src[i] = dst[k] /\ outDegree[k] > 0
        THEN outDegree[k] - 1
        ELSE outDegree[k]]

\* A move whose target nobody reads any more is emitted.
Move ==
    /\ pc = "scan"
    /\ i <= n
    /\ ~done[i]
    /\ outDegree[i] = 0
    /\ regs' = [regs EXCEPT ![dst[i]] = ValueOf(srcReg[i])]
    /\ busy' = IF srcReg[i] \in Scratch THEN Release(srcReg[i]) ELSE busy
    /\ done' = [done EXCEPT ![i] = TRUE]
    /\ outDegree' = DropReader
    /\ progress' = TRUE
    /\ i' = i + 1
    /\ UNCHANGED <<n, dst, src, srcReg, pc>>

\* Faulty: the next pass starts as if it had already emitted a move.
NextPassStale ==
    /\ pc = "scan"
    /\ i > n
    /\ progress
    /\ Pending # {}
    /\ i' = 1
    /\ UNCHANGED <<n, dst, src, srcReg, outDegree, done, progress, pc, busy, regs>>

\* A pass that emitted something is followed by another one.
NextPass ==
    /\ pc = "scan"
    /\ i > n
    /\ progress
    /\ Pending # {}
    /\ i' = 1
    /\ progress' = FALSE
    /\ UNCHANGED <<n, dst, src, srcReg, outDegree, done, pc, busy, regs>>

\* A whole pass without a move: every pending target is still read.
Stuck ==
    /\ pc = "scan"
    /\ i > n
    /\ ~progress
    /\ Pending # {}

FirstPending(k) == k \in Pending /\ \A j \in Pending : k <= j

\* Faulty: the readers are not told.
RedirectNobody(x, r) == srcReg

\* Where the pending moves find their values once register x is saved in r.
Redirect(x, r) ==
    [k \in Node |-> IF ~done[k] /\ srcReg[k] = x THEN r ELSE srcReg[k]]

\* The first pending target is saved in reserved register r, and the pending
\* moves that read it are made to read r.
BreakCycle(k, r) ==
    /\ Stuck
    /\ FirstPending(k)
    /\ r \notin busy
    /\ busy' = busy \cup {r}
    /\ regs' = [regs EXCEPT ![r] = regs[dst[k]]]
    /\ srcReg' = Redirect(dst[k], r)
    /\ outDegree' = [outDegree EXCEPT ![k] = 0]
    /\ i' = 1
    /\ progress' = FALSE
    /\ UNCHANGED <<n, dst, src, done, pc>>

\* Every reserved register is busy: NULL is returned and dereferenced.
NoReservedRegister ==
    /\ Stuck
    /\ Scratch \subseteq busy
    /\ pc' = "null"
    /\ UNCHANGED <<n, dst, src, srcReg, outDegree, done, i, progress, busy, regs>>

\* remaining = 0 ends the loop.
Finish ==
    /\ pc = "scan"
    /\ i > n
    /\ Pending = {}
    /\ pc' = "done"
    /\ UNCHANGED <<n, dst, src, srcReg, outDegree, done, i, progress, busy, regs>>

\* The function returns; the nodes were local to it.
Return ==
    /\ pc = "done"
    /\ n' = 0
    /\ dst' = Empty
    /\ src' = Empty
    /\ srcReg' = Empty
    /\ outDegree' = Empty
    /\ done' = Empty
    /\ i' = 1
    /\ progress' = FALSE
    /\ pc' = "idle"
    /\ regs' = Untouched
    /\ UNCHANGED busy

Step ==
    \/ Skip
    \/ Move
    \/ NextPass
    \/ \E k \in Node, r \in Scratch : BreakCycle(k, r)
    \/ NoReservedRegister
    \/ Finish

Enter ==
    /\ pc = "idle"
    /\ \E m \in 0..MaxMoves : \E d \in [1..m -> Reg] :
          /\ IsInjective(d)
          /\ \E s \in [1..m -> Source] : Call(m, d, s)

Next ==
    \/ Enter
    \/ Step
    \/ Return

Spec == Init /\ [][Next]_vars

\* The function is sequential code: once entered it runs.
FairSpec == Spec /\ WF_vars(Step)

-----------------------------------------------------------------------------
TypeOK ==
    /\ n \in Nat
    /\ dst \in [Node -> Reg]
    /\ src \in [Node -> Source]
    /\ srcReg \in [Node -> Value]
    /\ outDegree \in [Node -> Nat]
    /\ done \in [Node -> BOOLEAN]
    /\ i \in 1..(n + 1)
    /\ progress \in BOOLEAN
    /\ pc \in {"idle", "scan", "done", "null"}
    /\ busy \subseteq Scratch
    /\ regs \in [Location -> Value]

\* When the function returns, every target register holds what its source
\* held when the function was entered, and every other register of the
\* program is untouched: the emitted sequence is one simultaneous assignment.
ParallelResult ==
    pc = "done" =>
        /\ \A k \in Node : regs[dst[k]] = src[k]
        /\ \A x \in Reg : (\A k \in Node : dst[k] # x) => regs[x] = x

\* A value that a pending move still needs has not been overwritten, and it
\* is where the move will look for it.
PendingSourceIntact ==
    pc = "scan" => \A k \in Pending : ValueOf(srcReg[k]) = src[k]

\* The other pending moves that read the target of move k.
Readers(k) == {j \in Pending \ {k} : srcReg[j] = dst[k]}

\* out_degree counts exactly the other pending moves that read the target,
\* though it is only ever decremented or zeroed.
OutDegreeExact ==
    pc = "scan" => \A k \in Pending : outDegree[k] = Cardinality(Readers(k))

\* When no move can be emitted the pending moves permute their registers:
\* what they read is what they write and none of them reads a reserved
\* register, so breaking one cycle never starts before the last is resolved.
StuckIsPermutation ==
    Stuck =>
        /\ {srcReg[k] : k \in Pending} = {dst[k] : k \in Pending}
        /\ \A k \in Pending : srcReg[k] # dst[k]

\* A move never overwrites a register that another pending move reads.
NeverOverwritesPending ==
    [][\A x \in Location :
          (pc = "scan" /\ regs'[x] # regs[x]) =>
              \A k \in Pending : ~done'[k] => srcReg[k] # x]_vars

\* Every call ends, with all its moves emitted or without a register to save
\* to.
Termination == pc = "scan" ~> pc \in {"done", "null"}

-----------------------------------------------------------------------------
(* The inductive invariant behind these properties. *)

\* A pending move reads its original source, or a busy reserved register if
\* its source has been saved; the move whose target was saved has no readers.
SourcesTracked ==
    pc = "scan" =>
        /\ \A k \in Pending : srcReg[k] = src[k] \/ srcReg[k] \in busy
        /\ \A j, k \in Pending :
              srcReg[j] \in Scratch /\ src[j] = dst[k] => outDegree[k] = 0

\* What has been emitted is final.
DoneMovesKept ==
    pc \in {"scan", "done"} =>
        /\ \A k \in Node : done[k] => regs[dst[k]] = src[k]
        /\ \A x \in Reg : (\A k \in Node : dst[k] # x) => regs[x] = x

\* Without a move so far in this pass, every move passed over is waiting.
PassedAreWaiting ==
    pc = "scan" /\ ~progress =>
        \A k \in Pending : k < i => outDegree[k] # 0

AllDoneAtReturn == pc = "done" => Pending = {}

IInv ==
    /\ TypeOK
    /\ IsInjective(dst)
    /\ PendingSourceIntact
    /\ OutDegreeExact
    /\ SourcesTracked
    /\ DoneMovesKept
    /\ PassedAreWaiting
    /\ AllDoneAtReturn

-----------------------------------------------------------------------------
\* Seen from the callers, the registers change once, when the function
\* returns.
Callers == INSTANCE ParallelAssign WITH
    regs  <- [x \in Reg |-> IF pc = "done" THEN regs[x] ELSE x],
    phase <- IF pc \in {"scan", "null"} THEN "called" ELSE pc

\* The emitted moves implement the simultaneous assignment.
ImplementsParallelAssign == Callers!Spec

\* Every call is compiled: a register to save to is always found.  The README
\* lists functions among what is done (README.md:45), and one reserved register
\* is enough if each cycle hands its register back (codegen_utils.c:91-106).
CallsCompile == pc # "null"
=============================================================================
