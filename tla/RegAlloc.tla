------------------------------ MODULE RegAlloc ------------------------------
(***************************************************************************)
(* register_allocator_run_allocator: the registers and stack slots of one  *)
(* function are chosen by colouring the interference graph of its virtual  *)
(* registers (vregs).  Parameters get the registers of the calling         *)
(* convention, the two sides of a move are coalesced, the graph is taken   *)
(* apart node by node, and the nodes are given preferred registers, then   *)
(* any free register, then a stack slot.                                   *)
(*                                                                         *)
(* A function is what the allocator reads of it: the live intervals, the   *)
(* parameters, the pairs of vregs that a MOV, JMP or BR copies, the        *)
(* registers that its instructions clobber, and its calls.  All vregs have *)
(* the same size here.                                                     *)
(***************************************************************************)
EXTENDS Integers, Sequences, FiniteSets, Functions

CONSTANTS
    Inputs,        \* the functions to allocate
    Order,         \* REG_PREFERENCE_ORDER; a register is its id
    ArgReg,        \* the register of each argument passed in a register
    Reserved,      \* the registers kept by the compiler
    CallerSaved,   \* the registers a call may destroy
    ReturnReg      \* rax: written by every call, never saved around one

Register == Range(Order)

NoReg == -1

ASSUME RegisterAssumption ==
    /\ Order \in Seq(Nat)
    /\ ArgReg \in Seq(Nat)
    /\ IsInjective(ArgReg)
    /\ Range(ArgReg) \subseteq Register \ Reserved
    /\ ReturnReg \notin Range(ArgReg)

\* No interval starts or ends before the function; -1 stands for "never".
ASSUME InputsAssumption ==
    \A f \in Inputs :
        /\ f.n \in Nat
        /\ f.start \in [0..(f.n - 1) -> Int]
        /\ f.end \in [0..(f.n - 1) -> Int]
        /\ f.params \in Seq(0..(f.n - 1))
        /\ IsInjective(f.params)
        /\ f.moves \in Seq((0..(f.n - 1)) \X (0..(f.n - 1)))
        /\ f.clobber \subseteq Register \X Int
        /\ f.prefs \in [0..(f.n - 1) -> SUBSET Register]
        /\ f.weight \in [0..(f.n - 1) -> Int]
        /\ f.calls \subseteq Int
        /\ \A c \in f.calls : <<ReturnReg, c>> \in f.clobber

VARIABLES
    fn,           \* the function being allocated
    root,         \* get_node: the representative of a coalesced vreg
    edges,        \* node->edges
    clobbers,     \* node->clobbers
    prefs,        \* node->preferred_regs
    degree,       \* node->degree
    simplified,   \* the nodes with is_simplified set
    spilled,      \* the nodes with is_spilled set
    work,         \* simplifying_nodes
    reg,          \* vreg->reg
    slot,         \* the vreg's stack slot, 0 while it has none
    slots,        \* is_argument of every stack slot created so far
    across,       \* across_registers of every call
    used,         \* used_callee_saved_ and directly_used_caller_saved_registers
    i,            \* the index of the running loop
    progress,     \* made_progress
    pc            \* the running phase

vars == <<fn, root, edges, clobbers, prefs, degree, simplified, spilled, work,
          reg, slot, slots, across, used, i, progress, pc>>

graph == <<fn, root, edges, clobbers, prefs>>

places == <<reg, slot, slots, spilled>>

-----------------------------------------------------------------------------
Vreg == 0..(fn.n - 1)

PhysRegCount == Len(Order)

\* intersects: the intervals share a point.
Meets(f, u, v) ==
    /\ -1 \notin {f.start[u], f.end[u], f.start[v], f.end[v]}
    /\ f.start[u] <= f.end[v]
    /\ f.start[v] <= f.end[u]

Interferes(u, v) == u # v /\ Meets(fn, u, v)

Neighbours(f, v) == {u \in 0..(f.n - 1) : u # v /\ Meets(f, u, v)}

\* Faulty: only what destroys a register where the vreg starts is seen.
DestroyedAtStart(f, v) ==
    {r \in Register : r \in Reserved \/ <<r, f.start[v]>> \in f.clobber}

\* codegen_is_register_clobbered_for_vreg
Destroyed(f, v) ==
    {r \in Register :
        \/ r \in Reserved
        \/ \E c \in f.clobber : c[1] = r /\ f.start[v] <= c[2] /\ c[2] <= f.end[v]}

\* The vregs that get an argument register whatever happens to them.
Precoloured == {fn.params[k] : k \in {j \in 1..Len(fn.params) : j <= Len(ArgReg)}}

Init ==
    /\ fn \in Inputs
    /\ root = [v \in Vreg |-> v]
    /\ edges = [v \in Vreg |-> Neighbours(fn, v)]
    /\ clobbers = [v \in Vreg |-> Destroyed(fn, v)]
    /\ prefs = fn.prefs
    /\ degree = [v \in Vreg |-> Cardinality(Neighbours(fn, v))]
    /\ simplified = {}
    /\ spilled = {}
    /\ work = << >>
    /\ reg = [v \in Vreg |-> NoReg]
    /\ slot = [v \in Vreg |-> 0]
    /\ slots = << >>
    /\ across = [c \in fn.calls |-> {}]
    /\ used = {}
    /\ i = 1
    /\ progress = FALSE
    /\ pc = "params"

\* decrease_neighbours_degree, once the vregs of S are in stack slots: the
\* slot overlays the id of such a vreg, which then reads as 0.
Decreased(v, S) ==
    [t \in Vreg |->
        IF (IF t \in S THEN 0 ELSE t) \in edges[v]
        THEN degree[t] - 1
        ELSE degree[t]]

\* Faulty: a slot is shared with whoever is in it.
ShareableAny(v, isArgument) == {s \in 1..Len(slots) : slots[s] = isArgument}

\* The slots a spilled node can share: nobody it interferes with is in them.
Shareable(v, isArgument) ==
    {s \in 1..Len(slots) :
        /\ slots[s] = isArgument
        /\ \A o \in spilled \ {v} : slot[o] = s => o \notin edges[v]}

\* register_allocator_spill
Spill(v, isArgument) ==
    /\ spilled' = spilled \cup {v}
    /\ \/ /\ Shareable(v, isArgument) = {}
          /\ slots' = Append(slots, isArgument)
          /\ slot' = [slot EXCEPT ![v] = Len(slots) + 1]
       \/ /\ \E s \in Shareable(v, isArgument) :
                /\ \A other \in Shareable(v, isArgument) : s <= other
                /\ slot' = [slot EXCEPT ![v] = s]
          /\ UNCHANGED slots
    /\ UNCHANGED reg

-----------------------------------------------------------------------------
\* A parameter that is passed in a register keeps it.
ColourParam ==
    /\ pc = "params"
    /\ i <= Len(fn.params)
    /\ i <= Len(ArgReg)
    /\ reg' = [reg EXCEPT ![fn.params[i]] = ArgReg[i]]
    /\ degree' = Decreased(fn.params[i], spilled)
    /\ simplified' = simplified \cup {fn.params[i]}
    /\ i' = i + 1
    /\ UNCHANGED <<graph, spilled, slot, slots, work, across, used, progress, pc>>

\* A parameter that is passed on the stack stays there.
SpillParam ==
    /\ pc = "params"
    /\ i <= Len(fn.params)
    /\ i > Len(ArgReg)
    /\ Spill(fn.params[i], TRUE)
    /\ degree' = Decreased(fn.params[i], spilled')
    /\ simplified' = simplified \cup {fn.params[i]}
    /\ i' = i + 1
    /\ UNCHANGED <<graph, work, across, used, progress, pc>>

ParamsDone ==
    /\ pc = "params"
    /\ i > Len(fn.params)
    /\ i' = 1
    /\ pc' = "coalesce"
    /\ UNCHANGED <<graph, places, degree, simplified, work, across, used, progress>>

HeadToTail(u, v) == fn.end[v] = fn.start[u] \/ fn.end[u] = fn.start[v]

\* The other nodes with too many neighbours around two nodes.
GreatNeighbours(u, v) ==
    {t \in (edges[u] \cup edges[v]) \ {u, v} : degree[t] > PhysRegCount}

\* try_coalesce_operands and the early returns of coalesce_two_nodes.
MayCoalesce(dest, src) ==
    LET d == root[dest]
        s == root[src]
    IN  /\ slot[dest] = 0 /\ slot[src] = 0
        /\ d # s
        /\ {d, s} \cap Precoloured = {}
        /\ s \in edges[d] => HeadToTail(d, s)
        /\ Cardinality(GreatNeighbours(d, s)) < PhysRegCount

\* Faulty: the clobbers of the destination are forgotten.
MergeForgettingClobbers(d, s) ==
    /\ root' = [v \in Vreg |-> IF root[v] = d THEN s ELSE root[v]]
    /\ edges' = [edges EXCEPT ![s] = @ \cup edges[d]]
    /\ prefs' = [prefs EXCEPT ![s] = @ \cup prefs[d]]
    /\ degree' = [degree EXCEPT ![s] = Cardinality(edges[s] \cup edges[d])]
    /\ simplified' = simplified \cup {d}
    /\ UNCHANGED clobbers

\* The destination's node is merged into the source's.
Merge(d, s) ==
    /\ root' = [v \in Vreg |-> IF root[v] = d THEN s ELSE root[v]]
    /\ edges' = [edges EXCEPT ![s] = @ \cup edges[d]]
    /\ clobbers' = [clobbers EXCEPT ![s] = @ \cup clobbers[d]]
    /\ prefs' = [prefs EXCEPT ![s] = @ \cup prefs[d]]
    /\ degree' = [degree EXCEPT ![s] = Cardinality(edges[s] \cup edges[d])]
    /\ simplified' = simplified \cup {d}

Coalesce ==
    /\ pc = "coalesce"
    /\ i <= Len(fn.moves)
    /\ MayCoalesce(fn.moves[i][1], fn.moves[i][2])
    /\ Merge(root[fn.moves[i][1]], root[fn.moves[i][2]])
    /\ i' = i + 1
    /\ UNCHANGED <<fn, places, work, across, used, progress, pc>>

KeepApart ==
    /\ pc = "coalesce"
    /\ i <= Len(fn.moves)
    /\ ~MayCoalesce(fn.moves[i][1], fn.moves[i][2])
    /\ i' = i + 1
    /\ UNCHANGED <<graph, places, degree, simplified, work, across, used, progress, pc>>

CoalesceDone ==
    /\ pc = "coalesce"
    /\ i > Len(fn.moves)
    /\ i' = 0
    /\ pc' = "simplify"
    /\ UNCHANGED <<graph, places, degree, simplified, work, across, used, progress>>

-----------------------------------------------------------------------------
\* A node leaves the graph for the work list.
Push(v) ==
    /\ work' = Append(work, v)
    /\ degree' = Decreased(v, spilled)
    /\ simplified' = simplified \cup {v}

Remaining == Vreg \ (simplified \cup spilled)

Easy(v) == v \in Remaining /\ root[v] = v /\ degree[v] < PhysRegCount

Simplify ==
    /\ pc = "simplify"
    /\ i < fn.n
    /\ Easy(i)
    /\ Push(i)
    /\ progress' = TRUE
    /\ i' = i + 1
    /\ UNCHANGED <<graph, places, across, used, pc>>

PassOver ==
    /\ pc = "simplify"
    /\ i < fn.n
    /\ ~Easy(i)
    /\ i' = i + 1
    /\ UNCHANGED <<graph, places, degree, simplified, work, across, used, progress, pc>>

\* Faulty: made_progress is not reset.
NextPassStale ==
    /\ pc = "simplify"
    /\ i >= fn.n
    /\ progress
    /\ i' = 0
    /\ UNCHANGED <<graph, places, degree, simplified, work, across, used, progress, pc>>

NextPass ==
    /\ pc = "simplify"
    /\ i >= fn.n
    /\ progress
    /\ i' = 0
    /\ progress' = FALSE
    /\ UNCHANGED <<graph, places, degree, simplified, work, across, used, pc>>

\* The first of the remaining nodes with the least weight.
Cheapest(v) ==
    /\ v \in Remaining
    /\ \A u \in Remaining : \/ fn.weight[v] < fn.weight[u]
                            \/ fn.weight[v] = fn.weight[u] /\ v <= u

PushSpillCandidate(v) ==
    /\ pc = "simplify"
    /\ i >= fn.n
    /\ ~progress
    /\ Cheapest(v)
    /\ Push(v)
    /\ i' = 0
    /\ UNCHANGED <<graph, places, across, used, progress, pc>>

SimplifyDone ==
    /\ pc = "simplify"
    /\ i >= fn.n
    /\ ~progress
    /\ Remaining = {}
    /\ i' = 1
    /\ pc' = "prefer"
    /\ UNCHANGED <<graph, places, degree, simplified, work, across, used, progress>>

-----------------------------------------------------------------------------
\* Faulty: a coalesced neighbour is asked itself, not its representative.
UsedByNeighbourItself(v, r) == \E t \in edges[v] : root[t] # v /\ reg[t] = r

\* is_register_using_by_neighbours
UsedByNeighbour(v, r) ==
    \E t \in edges[v] : root[t] # v /\ reg[root[t]] = r

Free(v) == {r \in Register : ~UsedByNeighbour(v, r) /\ r \notin clobbers[v]}

FreePreferred(v) == prefs[v] \cap Free(v)

\* The nodes of the work list that can get a register they prefer.
TakePreferred(r) ==
    /\ pc = "prefer"
    /\ i <= Len(work)
    /\ r \in FreePreferred(work[i])
    /\ \A other \in FreePreferred(work[i]) : r <= other
    /\ reg' = [reg EXCEPT ![work[i]] = r]
    /\ i' = i + 1
    /\ UNCHANGED <<graph, spilled, slot, slots, degree, simplified, work, across, used,
                   progress, pc>>

NoPreferred ==
    /\ pc = "prefer"
    /\ i <= Len(work)
    /\ FreePreferred(work[i]) = {}
    /\ i' = i + 1
    /\ UNCHANGED <<graph, places, degree, simplified, work, across, used, progress, pc>>

PreferDone ==
    /\ pc = "prefer"
    /\ i > Len(work)
    /\ pc' = "select"
    /\ UNCHANGED <<graph, places, degree, simplified, work, across, used, i, progress>>

Top == work[Len(work)]

Pop == work' = SubSeq(work, 1, Len(work) - 1)

AlreadyPlaced ==
    /\ pc = "select"
    /\ work # << >>
    /\ reg[Top] # NoReg
    /\ Pop
    /\ UNCHANGED <<graph, places, degree, simplified, across, used, i, progress, pc>>

\* The first free register of the preference order.
FirstFree(v, r) ==
    \E k \in 1..Len(Order) :
        /\ r = Order[k]
        /\ r \in Free(v)
        /\ \A j \in 1..(k - 1) : Order[j] \notin Free(v)

\* Faulty: a node that has a register gets another one.
SelectAgain(r) ==
    /\ pc = "select"
    /\ work # << >>
    /\ FirstFree(Top, r)
    /\ reg' = [reg EXCEPT ![Top] = r]
    /\ Pop
    /\ UNCHANGED <<graph, spilled, slot, slots, degree, simplified, across, used, i,
                   progress, pc>>

Select(r) ==
    /\ pc = "select"
    /\ work # << >>
    /\ reg[Top] = NoReg
    /\ FirstFree(Top, r)
    /\ reg' = [reg EXCEPT ![Top] = r]
    /\ Pop
    /\ UNCHANGED <<graph, spilled, slot, slots, degree, simplified, across, used, i,
                   progress, pc>>

SelectSlot ==
    /\ pc = "select"
    /\ work # << >>
    /\ reg[Top] = NoReg
    /\ Free(Top) = {}
    /\ Spill(Top, FALSE)
    /\ Pop
    /\ UNCHANGED <<graph, degree, simplified, across, used, i, progress, pc>>

\* Every coalesced vreg gets the place of its representative.
Propagate ==
    /\ pc = "select"
    /\ work = << >>
    /\ reg' = [v \in Vreg |-> reg[root[v]]]
    /\ slot' = [v \in Vreg |-> slot[root[v]]]
    /\ spilled' = {v \in Vreg : root[v] \in spilled}
    /\ pc' = "across"
    /\ UNCHANGED <<graph, slots, degree, simplified, work, across, used, i, progress>>

\* The registers the function uses, and the caller-saved ones to push around
\* every call.
SaveAcross ==
    /\ pc = "across"
    /\ across' = [c \in fn.calls |->
                     {reg[v] : v \in {u \in Vreg : /\ reg[u] \in CallerSaved
                                                   /\ fn.start[u] <= c
                                                   /\ c <= fn.end[u]}}]
    /\ used' = {reg[v] : v \in Vreg} \ {NoReg}
    /\ pc' = "done"
    /\ UNCHANGED <<graph, places, degree, simplified, work, i, progress>>

Next ==
    \/ ColourParam
    \/ SpillParam
    \/ ParamsDone
    \/ Coalesce
    \/ KeepApart
    \/ CoalesceDone
    \/ Simplify
    \/ PassOver
    \/ NextPass
    \/ \E v \in Vreg : PushSpillCandidate(v)
    \/ SimplifyDone
    \/ \E r \in Register : TakePreferred(r)
    \/ NoPreferred
    \/ PreferDone
    \/ AlreadyPlaced
    \/ \E r \in Register : Select(r)
    \/ SelectSlot
    \/ Propagate
    \/ SaveAcross

Spec == Init /\ [][Next]_vars

\* The allocator is sequential code.
FairSpec == Spec /\ WF_vars(Next)

-----------------------------------------------------------------------------
TypeOK ==
    /\ root \in [Vreg -> Vreg]
    /\ edges \in [Vreg -> SUBSET Vreg]
    /\ clobbers \in [Vreg -> SUBSET Register]
    /\ prefs \in [Vreg -> SUBSET Register]
    /\ degree \in [Vreg -> Int]
    /\ simplified \subseteq Vreg
    /\ spilled \subseteq Vreg
    /\ work \in Seq(Vreg)
    /\ reg \in [Vreg -> Register \cup {NoReg}]
    /\ slot \in [Vreg -> 0..Len(slots)]
    /\ slots \in Seq(BOOLEAN)
    /\ used \subseteq Register
    /\ i \in Nat
    /\ progress \in BOOLEAN
    /\ pc \in {"params", "coalesce", "simplify", "prefer", "select", "across", "done"}

Placed == pc \in {"across", "done"}

\* Two vregs that are alive together have different registers, unless a move
\* between them has made them one node: the colouring is proper although the
\* graph loses nodes to coalescing while it is coloured.
ProperColouring ==
    Placed => \A u, v \in Vreg :
        Interferes(u, v) /\ root[u] # root[v] /\ reg[u] # NoReg => reg[u] # reg[v]

\* A vreg is in no register that an instruction within its interval destroys
\* (idiv, shifts, calls) or that the compiler reserves, for itself or for any
\* vreg it was coalesced with.  Parameters are the exception.
ClobbersAvoided ==
    Placed => \A v \in Vreg :
        reg[v] # NoReg /\ v \notin Precoloured =>
            \A u \in Vreg : root[u] = root[v] => reg[v] \notin Destroyed(fn, u)

\* Every vreg ends up in exactly one place, and coalesced vregs in the same.
OnePlaceEach ==
    Placed => \A v \in Vreg :
        /\ (reg[v] = NoReg) <=> (slot[v] # 0)
        /\ reg[v] = reg[root[v]] /\ slot[v] = slot[root[v]]

\* What is alive across a call is in a slot, in a register the callee has to
\* keep, or in one that is pushed around the call; rax never is.
SurvivesCalls ==
    pc = "done" => \A v \in Vreg, c \in fn.calls :
        fn.start[v] < c /\ c < fn.end[v] =>
            \/ slot[v] # 0
            \/ reg[v] \notin CallerSaved
            \/ reg[v] \in across[c] /\ reg[v] # ReturnReg

\* Nodes that own one stack slot together are not alive together, in whatever
\* order they were spilled.  It is said of the owners alone, which is as far as
\* the code goes (register_allocator.c:564): the vregs that were coalesced into
\* an owner move in later without being asked about, and may clash.
SlotOwnersApart ==
    Placed => \A u, v \in Vreg :
        root[u] = u /\ root[v] = v /\ u # v /\ slot[u] # 0 /\ slot[u] = slot[v] =>
            ~Interferes(u, v)

\* A register once given to a vreg is never taken away: what has been coloured
\* against it stays right.
ColoursKept ==
    [][\A v \in Vreg : reg[v] # NoReg => reg'[v] = reg[v]]_vars

\* Simplification always empties the graph and every node gets its place.
Termination == <>(pc = "done")

-----------------------------------------------------------------------------
(* The inductive invariant behind these properties. *)

Coloured(v) == reg[v] # NoReg

InWork(v) == \E k \in 1..Len(work) : work[k] = v

\* Representatives represent themselves, and nodes of parameters nobody else.
Rooted ==
    /\ \A v \in Vreg : root[root[v]] = root[v]
    /\ \A v \in Vreg : v \in Precoloured \/ root[v] \in Precoloured => root[v] = v
    /\ \A v \in Vreg : root[v] # v => v \in simplified /\ (Placed \/ v \notin spilled)
    /\ pc = "params" => \A v \in Vreg : root[v] = v
    /\ pc \in {"params", "coalesce"} => \A v \in Vreg : root[v] \in spilled => root[v] = v

\* The node of a vreg has at least the vreg's edges and clobbers.
NodesCover ==
    /\ \A u, v \in Vreg : Interferes(u, v) => v \in edges[root[u]]
    /\ \A v \in Vreg : Destroyed(fn, v) \subseteq clobbers[root[v]]

\* How far the colouring of the parameters has got.
ParamsColoured ==
    /\ pc = "params" =>
          /\ \A v \in Vreg : Coloured(v) =>
                \E k \in 1..Len(fn.params) :
                    k < i /\ k <= Len(ArgReg) /\ v = fn.params[k] /\ reg[v] = ArgReg[k]
          /\ \A k \in 1..Len(fn.params) : k < i => fn.params[k] \in simplified
          /\ \A v \in spilled \cup simplified :
                \E k \in 1..Len(fn.params) : k < i /\ v = fn.params[k]
    /\ pc # "params" => Precoloured \subseteq simplified
    /\ pc \in {"params", "coalesce", "simplify"} =>
          \A v \in Vreg : Coloured(v) => v \in Precoloured
    /\ \A v \in Precoloured : reg[v] \in Range(ArgReg) \cup {NoReg}

\* The work list holds the representatives that have no place yet, once each;
\* a preferred register is given to its elements before index i only.
WorkIsToDo ==
    /\ pc \in {"params", "coalesce"} => work = << >>
    /\ \A k \in 1..Len(work) :
          /\ root[work[k]] = work[k]
          /\ work[k] \notin Precoloured
          /\ work[k] \in simplified
          /\ slot[work[k]] = 0
          /\ pc = "simplify" \/ (pc = "prefer" /\ k >= i) => ~Coloured(work[k])
    /\ IsInjective(work)

\* A simplified representative has a place or waits for one.
NobodyForgotten ==
    /\ \A v \in simplified : root[v] = v => Coloured(v) \/ slot[v] # 0 \/ InWork(v)
    /\ pc \in {"prefer", "select", "across", "done"} => Vreg \subseteq simplified \cup spilled
    /\ Placed => work = << >>

\* Registers and slots belong to representatives, and exclude each other.
PlacesExclusive ==
    /\ \A v \in Vreg : slot[v] # 0 <=> v \in spilled
    /\ \A v \in Vreg : Coloured(v) => slot[v] = 0
    /\ ~Placed => \A v \in Vreg : root[v] # v => ~Coloured(v)
    /\ Placed => \A v \in Vreg : reg[v] = reg[root[v]] /\ slot[v] = slot[root[v]]

\* Nodes that are coloured are coloured differently from their neighbours and
\* avoid their clobbers.
NodesApart ==
    /\ \A u, v \in Vreg :
          Interferes(u, v) /\ root[u] # root[v] /\ Coloured(root[u]) =>
              reg[root[u]] # reg[root[v]]
    /\ \A v \in Vreg :
          Coloured(root[v]) /\ root[v] \notin Precoloured => reg[root[v]] \notin clobbers[root[v]]

Saved ==
    pc = "done" => \A c \in fn.calls, v \in Vreg :
        reg[v] \in CallerSaved /\ fn.start[v] <= c /\ c <= fn.end[v] => reg[v] \in across[c]

IndexStarts == pc \in {"params", "coalesce", "prefer"} => i >= 1

IInv ==
    /\ fn \in Inputs
    /\ TypeOK
    /\ Rooted
    /\ NodesCover
    /\ ParamsColoured
    /\ WorkIsToDo
    /\ NobodyForgotten
    /\ PlacesExclusive
    /\ NodesApart
    /\ Saved
    /\ IndexStarts

\* Two nodes in one slot are not alive together, from the first spill on.
SlotsApart ==
    \A u, v \in Vreg :
        root[u] = u /\ root[v] = v /\ u # v /\ slot[u] # 0 /\ slot[u] = slot[v] =>
            ~Interferes(u, v)

-----------------------------------------------------------------------------
(* What the allocator does not keep; see the README's findings. *)

\* A parameter is in no register that is destroyed while it is alive.
ParamsAvoidClobbers ==
    Placed => \A v \in Vreg : reg[v] # NoReg => reg[v] \notin Destroyed(fn, v)

\* The register of a vreg whose value is still needed is not written, except
\* with that same value.
NotOverwritten ==
    Placed => \A u \in Vreg, t \in DOMAIN fn.writes :
        t \in fn.needed[u] /\ reg[u] # NoReg =>
            \A v \in fn.writes[t] \ {u} :
                reg[v] = reg[u] => <<v, u, t>> \in fn.copies

=============================================================================
