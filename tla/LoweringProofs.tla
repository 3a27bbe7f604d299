--------------------------- MODULE LoweringProofs ---------------------------
(***************************************************************************)
(* Lowering makes blocks that fit together, for every nesting of loops.    *)
(* The argument: the frames are the loops around the step at hand, so that *)
(* a step between two parts of a loop finds the frame of its own loop at   *)
(* the end of the list.  Which of a loop's blocks have been laid out, and  *)
(* which is still to get its branch, can then be told from the step alone. *)
(***************************************************************************)
EXTENDS Lowering, FiniteSetTheorems, SequenceTheorems, WellFoundedInduction, TLAPS

-----------------------------------------------------------------------------
\* What the containers hold: instructions, and the frames of loops.
Op == {"alloca", "store", "load", "mov", "use", "jmp", "br", "ret"}

Instructions ==
    [op : Op, at : Nat, dest : Int, var : Var \cup {None}, args : Seq(Int), to : Seq(Nat)]

Frames ==
    [loop : Nat, body : Nat, cont : Nat, ret : Nat, bodyEnd : Nat, atEnd : [Var -> Int]]

\* The containers, with what is in them; a vreg is never taken for memory.
ContainersOK ==
    /\ prog \in Programs
    /\ params \in Seq(Nat)
    /\ blocks \in Seq([params : Seq(Nat), code : Seq(Instructions)])
    /\ layout \in Seq(Nat)
    /\ frames \in Seq(Frames)
    /\ current \in [Var -> Int]
    /\ where \in Seq([Var -> Int])
    /\ \A v \in Var : InVreg(v) => current[v] # Memory

\* What the phases of lowering have reached.
PhasesOK ==
    /\ pc = "params" => at = 1 /\ frames = << >> /\ Len(blocks) = 1 /\ layout = <<1>> /\ block = 1
    /\ pc = "lower" => at <= Len(prog.code)
    /\ pc # "params" => Len(blocks) > 1 /\ block # 1
    /\ pc = "lowered" => frames = << >>

Laid == {layout[k] : k \in DOMAIN layout}

\* The steps that end the parts of the loop of frame f.
ContAt(f) == f.loop + prog.code[f.loop].cont

RetAt(f) == f.loop + prog.code[f.loop].ret

EndAt(f) == f.loop + prog.code[f.loop].end

\* The frames are those of the loops around `at', from the outermost.
LoopsOpen ==
    /\ \A k \in 1..Len(frames) :
          LET f == frames[k]
          IN  /\ f.loop \in 1..(at - 1) /\ prog.code[f.loop].op = "loop"
              /\ at <= EndAt(f)
              /\ f.bodyEnd = 0 <=> at <= ContAt(f)
    /\ \A k \in 1..Len(frames) : \A j \in 1..(k - 1) : frames[j].loop < frames[k].loop
    /\ pc = "lower" =>
          \A l \in 1..(at - 1) : prog.code[l].op = "loop" /\ at <= l + prog.code[l].end =>
              \E k \in 1..Len(frames) : frames[k].loop = l

\* Of the blocks, those of the parts that lowering has not come to wait, each for its
\* own loop; no block is laid out twice.
BlocksWait ==
    /\ \A k \in 1..Len(frames) :
          LET f == frames[k]
          IN  /\ f.body \in 1..Len(blocks) /\ f.cont \in 1..Len(blocks) /\ f.ret \in 1..Len(blocks)
              /\ f.cont # f.ret
              /\ f.cont \notin Laid <=> at <= ContAt(f)
              /\ f.ret \notin Laid <=> at <= RetAt(f)
    /\ \A k \in 1..Len(frames) : \A j \in 1..(k - 1) :
          {frames[j].cont, frames[j].ret} \cap {frames[k].cont, frames[k].ret} = {}
    /\ \A b \in 1..Len(blocks) : b \notin Laid =>
          \E k \in 1..Len(frames) : b \in {frames[k].cont, frames[k].ret}
    /\ \A j, k \in DOMAIN layout : layout[j] = layout[k] => j = k

\* Which blocks can still be added to.
BlocksOpen ==
    /\ 1 \in Laid /\ block \in Laid
    /\ \A b \in Laid :
          Open(b) <=> b = 1 \/ (b = block /\ pc # "lowered")
                        \/ \E k \in 1..Len(frames) : frames[k].bodyEnd = b
    /\ \A b \in 1..Len(blocks) : b \notin Laid => blocks[b].code = << >>
    /\ \A k \in 1..Len(frames) : frames[k].bodyEnd # 0 =>
          /\ frames[k].bodyEnd \in Laid \ {1, block}
          /\ \A j \in 1..(k - 1) : frames[j].bodyEnd # frames[k].bodyEnd
    /\ \A b \in 1..Len(blocks) : \A k \in 1..(Len(blocks[b].code) - 1) :
          blocks[b].code[k].op \notin Terminators

\* The variables that a jump back to a body passes are in vregs.
PassedHeld ==
    \A k \in 1..Len(frames) :
        LET f == frames[k]
            vs == Passed(f.loop)
        IN  /\ Len(blocks[f.body].params) = Len(vs)
            /\ \A n \in DOMAIN vs : current[vs[n]] \in 0..(fresh - 1) /\ f.atEnd[vs[n]] \in 0..(fresh - 1)

JumpsInside ==
    \A b \in 1..Len(blocks) : \A k \in DOMAIN blocks[b].code :
        LET i == blocks[b].code[k]
        IN  i.op = "jmp" => Len(i.to) = 1 /\ i.to[1] \in 1..Len(blocks)

IInv ==
    /\ TypeOK
    /\ ContainersOK
    /\ PhasesOK
    /\ LoopsOpen
    /\ BlocksWait
    /\ BlocksOpen
    /\ PassedHeld
    /\ JumpsFit
    /\ JumpsInside

-----------------------------------------------------------------------------
\* Every set of natural numbers has a least element.
LEMMA Least ==
    ASSUME NEW B \in SUBSET Nat, B # {}
    PROVE  \E n \in B : \A m \in B : n <= m
<1> DEFINE Upto == {1..n : n \in B}
<1>1. Upto \subseteq FiniteSubsetsOf(Nat) /\ Upto # {}
  <2>1. \A n \in B : 1..n \subseteq Nat /\ IsFiniteSet(1..n)
    BY FS_Interval
  <2>2. \A n \in B : 1..n \in FiniteSubsetsOf(Nat)
    BY <2>1 DEF FiniteSubsetsOf
  <2> QED
    BY <2>2
<1>2. PICK x \in Upto : \A y \in Upto : <<y, x>> \notin StrictSubsetOrdering(Nat)
  BY ONLY <1>1, FS_StrictSubsetOrderingWellFounded, WFMin
<1>3. PICK n \in B : x = 1..n
  OBVIOUS
<1>4. ASSUME NEW m \in B, m < n PROVE FALSE
  <2>1. 1..m \in Upto
    OBVIOUS
  <2>2. 1..m \subseteq 1..n /\ 1..m # 1..n
    <3>1. n \in 1..n /\ n \notin 1..m
      BY <1>4
    <3> QED
      BY <1>4, <3>1
  <2>3. <<1..m, 1..n>> \in StrictSubsetOrdering(Nat)
    BY <2>2 DEF StrictSubsetOrdering
  <2> QED
    BY <1>2, <1>3, <2>1, <2>3
<1> QED
  BY <1>4

\* What Selected goes through: a sequence for each beginning of s.
Beginnings(s, set, n, f) ==
    f = [k \in 0..n |-> IF k = 0 THEN << >>
                        ELSE IF s[k] \in set THEN Append(f[k - 1], s[k]) ELSE f[k - 1]]

LEMMA BeginningsExist ==
    ASSUME NEW s, NEW set, NEW N \in Nat
    PROVE  \E f : Beginnings(s, set, N, f)
<1> DEFINE Made(k, e) == IF s[k] \in set THEN Append(e, s[k]) ELSE e
           Solves(n, f) == f = [k \in 0..n |-> IF k = 0 THEN << >> ELSE Made(k, f[k - 1])]
           B == {n \in 0..N : ~ \E f : Solves(n, f)}
<1> HIDE DEF Made
<1>1. B = {}
  <2> SUFFICES ASSUME B # {} PROVE FALSE
    OBVIOUS
  <2>1. PICK n \in B : \A m \in B : n <= m
    <3>1. B \in SUBSET Nat
      OBVIOUS
    <3> HIDE DEF B
    <3> QED
      BY <3>1, Least
  <2>2. n # 0
    <3>1. Solves(0, [k \in 0..0 |-> << >>])
      OBVIOUS
    <3> HIDE DEF Solves
    <3> QED
      BY <3>1
  <2>3. n \in 0..N /\ n - 1 \in 0..N /\ n - 1 \notin B
    BY <2>1, <2>2
  <2>4. PICK f : Solves(n - 1, f)
    <3> HIDE DEF Solves
    <3> QED
      BY <2>3
  <2> DEFINE g == [k \in 0..n |-> IF k = n THEN Made(n, f[n - 1]) ELSE f[k]]
  <2>5. Solves(n, g)
    <3>1. ASSUME NEW k \in 0..n
          PROVE  g[k] = IF k = 0 THEN << >> ELSE Made(k, g[k - 1])
      <4>1. CASE k = n
        BY <2>2, <2>3, <4>1
      <4>2. CASE k # n
        <5>1. k \in 0..(n - 1) /\ (k # 0 => k - 1 \in 0..n /\ k - 1 # n)
          BY <2>3, <4>2
        <5>2. g[k] = f[k] /\ (k # 0 => g[k - 1] = f[k - 1])
          BY <4>2, <5>1
        <5>3. f[k] = IF k = 0 THEN << >> ELSE Made(k, f[k - 1])
          BY <2>4, <5>1
        <5> QED
          BY <5>2, <5>3
      <4> QED
        BY <4>1, <4>2
    <3>2. g = [k \in 0..n |-> g[k]]
      OBVIOUS
    <3> HIDE DEF g
    <3> QED
      BY <3>1, <3>2
  <2> HIDE DEF Solves, g
  <2> QED
    BY <2>1, <2>5
<1>2. N \in 0..N /\ N \notin B
  BY <1>1
<1>3. PICK f : Solves(N, f)
  <2> HIDE DEF Solves
  <2> QED
    BY <1>2
<1> QED
  BY <1>3 DEF Made, Beginnings

\* Selected takes members of s that are in the set.
LEMMA SelectedIn ==
    ASSUME NEW S, NEW s \in Seq(S), NEW set
    PROVE  Selected(s, set) \in Seq(S \cap set)
<1> DEFINE F == CHOOSE f : Beginnings(s, set, Len(s), f)
           T == Seq(S \cap set)
           B == {k \in 0..Len(s) : F[k] \notin T}
<1>1. Len(s) \in Nat /\ \A k \in 1..Len(s) : s[k] \in S
  OBVIOUS
<1>2. Beginnings(s, set, Len(s), F)
  BY <1>1, BeginningsExist
<1>3. Selected(s, set) = F[Len(s)]
  BY Zenon DEF Selected, Beginnings
<1>4. B = {}
  <2> SUFFICES ASSUME B # {} PROVE FALSE
    OBVIOUS
  <2>1. PICK n \in B : \A m \in B : n <= m
    <3>1. B \in SUBSET Nat
      BY <1>1
    <3> HIDE DEF B
    <3> QED
      BY <3>1, Least
  <2>2. n \in 0..Len(s) /\ F[n] \notin T
    BY <2>1
  <2> HIDE DEF F
  <2>3. F[0] = << >>
    BY <1>1, <1>2 DEF Beginnings
  <2>4. n # 0
    <3>1. << >> \in T
      OBVIOUS
    <3> HIDE DEF T, B
    <3> QED
      BY <2>2, <2>3, <3>1
  <2>5. n \in 1..Len(s) /\ n - 1 \in 0..Len(s) /\ n - 1 < n
    BY <1>1, <2>2, <2>4
  <2>6. F[n - 1] \in T
    <3> HIDE DEF T
    <3> QED
      BY <2>1, <2>5
  <2>7. F[n] = IF s[n] \in set THEN Append(F[n - 1], s[n]) ELSE F[n - 1]
    BY <1>2, <2>4, <2>5 DEF Beginnings
  <2>8. s[n] \in set => s[n] \in S \cap set
    BY <1>1, <2>5
  <2> QED
    BY <2>2, <2>6, <2>7, <2>8
<1>5. F[Len(s)] \in T
  <2>1. Len(s) \in 0..Len(s)
    BY <1>1
  <2> HIDE DEF F, T
  <2> QED
    BY <1>4, <2>1
<1> QED
  BY <1>3, <1>5

-----------------------------------------------------------------------------
\* What is known of the program.
LEMMA StepFacts ==
    ASSUME prog \in Programs
    PROVE  /\ prog.params \in Seq(Var)
           /\ prog.kind \in [Var -> {"vreg", "stack", "global"}]
           /\ Len(prog.code) \in Nat \ {0}
           /\ \A q \in 1..Len(prog.code) :
                 /\ prog.code[q].op \in {"set", "use", "loop", "continue", "return", "end", "exit"}
                 /\ prog.code[q].op = "exit" <=> q = Len(prog.code)
                 /\ prog.code[q].op = "set" => prog.code[q].var \in Var
                 /\ prog.code[q].op \in {"set", "use"} => prog.code[q].args \in Seq(Var)
  BY ProgramsAssumption

\* The steps of a loop lie ahead of it, in their order.
LEMMA LoopFacts ==
    ASSUME prog \in Programs, NEW l \in 1..Len(prog.code), prog.code[l].op = "loop"
    PROVE  LET t == prog.code
           IN  /\ t[l].cont \in Nat \ {0} /\ t[l].ret \in Nat /\ t[l].end \in Nat
               /\ t[l].cont < t[l].ret /\ t[l].ret < t[l].end /\ l + t[l].end < Len(t)
               /\ t[l + t[l].cont].op = "continue" /\ t[l + t[l].cont].loop = t[l].cont
               /\ t[l + t[l].ret].op = "return" /\ t[l + t[l].ret].loop = t[l].ret
               /\ t[l + t[l].end].op = "end" /\ t[l + t[l].end].loop = t[l].end
               /\ \A last \in {t[l].cont, t[l].ret, t[l].end} :
                     \A q \in (l + 1)..(l + last - 1) : t[q].op = "loop" => q + t[q].end < l + last
  BY LoopsAssumption

\* What a jump to a body passes are variables in vregs that the loop changes.
LEMMA PassedFacts ==
    ASSUME prog \in Programs, NEW l \in 1..Len(prog.code), prog.code[l].op = "loop"
    PROVE  /\ Passed(l) \in Seq(Var)
           /\ Len(Passed(l)) \in Nat
           /\ \A n \in 1..Len(Passed(l)) :
                 /\ Passed(l)[n] \in Var
                 /\ InVreg(Passed(l)[n])
                 /\ \E k \in DOMAIN Mutated(l) : Mutated(l)[k] = Passed(l)[n]
<1> DEFINE t == prog.code
           steps == (l + 1)..(l + t[l].ret - 1)
           mutates(p) == t[p].op = "set" /\ ~t[p].declares /\ ~t[p].hidden
           first(p) == mutates(p) /\ \A q \in steps : q < p /\ mutates(q) => t[q].var # t[p].var
           declared == {t[p].var : p \in {q \in steps : t[q].declares}}
           found == {p \in steps : first(p) /\ t[p].var \notin declared}
           numbers == [k \in 1..(t[l].ret - 1) |-> l + k]
           ps == Selected(numbers, found)
<1>1. /\ t[l].ret \in Nat /\ t[l].ret > 0 /\ Len(t) \in Nat /\ l + t[l].ret < Len(t)
  BY LoopFacts, StepFacts
<1>2. \A p \in found : t[p].var \in Var
  <2> SUFFICES ASSUME NEW p \in found PROVE t[p].var \in Var
    OBVIOUS
  <2>1. p \in 1..Len(t) /\ t[p].op = "set"
    BY <1>1
  <2> QED
    BY <2>1, StepFacts
<1>3. numbers \in Seq(Int)
  BY <1>1
<1>4. ps \in Seq(Int \cap found)
  <2> HIDE DEF numbers, found
  <2> QED
    BY <1>3, SelectedIn
<1>5. Mutated(l) = [k \in DOMAIN ps |-> t[ps[k]].var]
  BY Zenon DEF Mutated
<1> HIDE DEF numbers, found, ps, t
<1>6. Mutated(l) \in Seq(Var)
  <2>1. DOMAIN ps = 1..Len(ps) /\ Len(ps) \in Nat /\ \A k \in 1..Len(ps) : ps[k] \in found
    BY <1>4
  <2> QED
    BY <1>2, <1>5, <2>1
<1> DEFINE vs == Mutated(l)
           S == {vs[k] : k \in DOMAIN vs}
           V == {v \in Var : InVreg(v)}
<1>7. vs \in Seq(S)
  BY <1>6
<1>8. Passed(l) = Selected(vs, V)
  BY DEF Passed
<1>9. Passed(l) \in Seq(S \cap V)
  <2> HIDE DEF vs, S, V
  <2> QED
    BY <1>7, <1>8, SelectedIn
<1>10. \A n \in 1..Len(Passed(l)) : Passed(l)[n] \in S \cap V
  <2> HIDE DEF S, V
  <2> QED
    BY <1>9
<1>11. Len(Passed(l)) \in Nat /\ Passed(l) \in Seq(Var)
  <2>1. S \cap V \subseteq Var
    OBVIOUS
  <2> HIDE DEF S, V
  <2> QED
    BY <1>9, <2>1
<1> QED
  BY <1>10, <1>11

\* The loads of variables in memory, and where the operands are then.
LEMMA OperandFacts ==
    ASSUME prog \in Programs, at \in Nat, fresh \in Nat, current \in [Var -> Int],
           NEW args \in Seq(Var)
    PROVE  /\ Loads(args) \in Seq(Instructions)
           /\ Len(Loads(args)) \in Nat
           /\ \A k \in 1..Len(Loads(args)) : Loads(args)[k].op = "load"
           /\ Operands(args) \in Seq(Int)
<1> DEFINE V == {v \in Var : InMemory(v)}
           loaded == Selected(args, V)
<1>1. loaded \in Seq(Var)
  <2>1. loaded \in Seq(Var \cap V)
    <3> HIDE DEF V
    <3> QED
      BY SelectedIn
  <2>2. Var \cap V \subseteq Var
    OBVIOUS
  <2> HIDE DEF V, loaded
  <2> QED
    BY <2>1, <2>2
<1>2. Loads(args) = [k \in DOMAIN loaded |-> I("load", at, fresh + k - 1, loaded[k], << >>, << >>)]
  BY DEF Loads
<1> HIDE DEF loaded
<1>3. \A k \in DOMAIN loaded :
         /\ I("load", at, fresh + k - 1, loaded[k], << >>, << >>) \in Instructions
         /\ I("load", at, fresh + k - 1, loaded[k], << >>, << >>).op = "load"
  <2> SUFFICES ASSUME NEW k \in DOMAIN loaded
               PROVE  /\ I("load", at, fresh + k - 1, loaded[k], << >>, << >>) \in Instructions
                      /\ I("load", at, fresh + k - 1, loaded[k], << >>, << >>).op = "load"
    OBVIOUS
  <2>1. loaded[k] \in Var /\ fresh + k - 1 \in Int
    BY <1>1
  <2>2. << >> \in Seq(Int) /\ << >> \in Seq(Nat)
    OBVIOUS
  <2> QED
    BY <2>1, <2>2 DEF I, Instructions, Op
<1>4. DOMAIN loaded = 1..Len(loaded) /\ Len(loaded) \in Nat
  BY <1>1
<1>5. /\ Loads(args) \in Seq(Instructions)
      /\ Len(Loads(args)) = Len(loaded)
      /\ \A k \in 1..Len(Loads(args)) : Loads(args)[k].op = "load"
  <2> DEFINE L(k) == I("load", at, fresh + k - 1, loaded[k], << >>, << >>)
  <2>1. \A k \in 1..Len(loaded) : L(k) \in Instructions /\ L(k).op = "load"
    BY <1>3, <1>4
  <2>2. Loads(args) = [k \in 1..Len(loaded) |-> L(k)]
    BY <1>2, <1>4
  <2> HIDE DEF L
  <2> QED
    BY <1>4, <2>1, <2>2
<1>6. Operands(args) \in Seq(Int)
  <2> DEFINE before(k) == Cardinality({l \in 1..(k - 1) : InMemory(args[l])})
  <2>1. ASSUME NEW k \in DOMAIN args
        PROVE  (IF InMemory(args[k]) THEN fresh + before(k) ELSE current[args[k]]) \in Int
    <3>1. k \in Nat /\ args[k] \in Var
      OBVIOUS
    <3>2. IsFiniteSet(1..(k - 1))
      BY <3>1, FS_Interval
    <3>3. before(k) \in Nat
      <4> DEFINE W == {l \in 1..(k - 1) : InMemory(args[l])}
      <4>1. W \subseteq 1..(k - 1)
        OBVIOUS
      <4> HIDE DEF W
      <4>2. IsFiniteSet(W)
        BY <3>2, <4>1, FS_Subset
      <4>3. Cardinality(W) \in Nat
        BY <4>2, FS_CardinalityType
      <4> QED
        BY <4>3 DEF W
    <3> HIDE DEF before
    <3> QED
      BY <3>1, <3>3
  <2>2. Operands(args) = [k \in DOMAIN args |-> IF InMemory(args[k]) THEN fresh + before(k) ELSE current[args[k]]]
    BY DEF Operands
  <2>3. DOMAIN args = 1..Len(args) /\ Len(args) \in Nat
    OBVIOUS
  <2> HIDE DEF before
  <2> QED
    BY <2>1, <2>2, <2>3
<1> QED
  BY <1>4, <1>5, <1>6

-----------------------------------------------------------------------------
\* What emitting instructions does to the blocks.
Blocks == [params : Seq(Nat), code : Seq(Instructions)]

Middle(code) == \A k \in 1..(Len(code) - 1) : code[k].op \notin Terminators

IsOpen(code) == code = << >> \/ code[Len(code)].op \notin Terminators

LEMMA EmittedFacts ==
    ASSUME NEW bs \in Seq(Blocks), NEW b \in 1..Len(bs), NEW is \in Seq(Instructions)
    PROVE  LET made == Emitted(bs, b, is)
           IN  /\ made \in Seq(Blocks)
               /\ Len(made) = Len(bs)
               /\ \A c \in 1..Len(bs) : c # b => made[c] = bs[c]
               /\ \A c \in 1..Len(bs) : made[c].params = bs[c].params
               /\ made[b].code = bs[b].code \o is
<1>1. /\ Len(bs) \in Nat /\ DOMAIN bs = 1..Len(bs)
      /\ \A c \in 1..Len(bs) : bs[c] \in Blocks
  OBVIOUS
<1>2. Emitted(bs, b, is) = [bs EXCEPT ![b] = [bs[b] EXCEPT !.code = bs[b].code \o is]]
  BY <1>1 DEF Emitted, Blocks
<1>3. bs[b].code \o is \in Seq(Instructions)
  BY <1>1 DEF Blocks
<1> DEFINE new == [bs[b] EXCEPT !.code = bs[b].code \o is]
<1>4. new \in Blocks /\ new.params = bs[b].params /\ new.code = bs[b].code \o is
  BY <1>1, <1>3 DEF Blocks
<1> HIDE DEF new
<1> QED
  BY <1>1, <1>2, <1>4 DEF new

\* Where a block that is open gets more, only the last instruction can close it.
LEMMA ConcatFacts ==
    ASSUME NEW c \in Seq(Instructions), NEW is \in Seq(Instructions)
    PROVE  /\ c \o is \in Seq(Instructions)
           /\ Middle(c) /\ IsOpen(c) /\ Middle(is) => Middle(c \o is)
           /\ is # << >> => (IsOpen(c \o is) <=> IsOpen(is))
           /\ is = << >> => c \o is = c
           /\ \A k \in 1..Len(c \o is) :
                 (\E j \in 1..Len(c) : (c \o is)[k] = c[j]) \/ (\E j \in 1..Len(is) : (c \o is)[k] = is[j])
<1>1. /\ Len(c) \in Nat /\ Len(is) \in Nat
      /\ Len(c \o is) = Len(c) + Len(is)
      /\ \A k \in 1..(Len(c) + Len(is)) : (c \o is)[k] = IF k <= Len(c) THEN c[k] ELSE is[k - Len(c)]
  OBVIOUS
<1>2. c \o is \in Seq(Instructions)
  OBVIOUS
<1>3. ASSUME Middle(c), IsOpen(c), Middle(is), NEW k \in 1..(Len(c) + Len(is) - 1)
      PROVE  (c \o is)[k].op \notin Terminators
  <2>1. CASE k < Len(c)
    BY <1>1, <1>3, <2>1 DEF Middle
  <2>2. CASE k = Len(c)
    BY <1>1, <1>3, <2>2 DEF IsOpen
  <2>3. CASE k > Len(c)
    <3>1. k - Len(c) \in 1..(Len(is) - 1)
      BY <1>1, <2>3
    <3>2. (c \o is)[k] = is[k - Len(c)]
      BY <1>1, <2>3
    <3> QED
      BY <1>3, <3>1, <3>2 DEF Middle
  <2> QED
    BY <1>1, <2>1, <2>2, <2>3
<1>4. ASSUME is # << >> PROVE IsOpen(c \o is) <=> IsOpen(is)
  <2>1. Len(is) > 0 /\ c \o is # << >>
    BY <1>1, <1>4
  <2>2. (c \o is)[Len(c \o is)] = is[Len(is)]
    BY <1>1, <2>1
  <2> QED
    BY <1>4, <2>1, <2>2 DEF IsOpen
<1>5. ASSUME NEW k \in 1..Len(c \o is)
      PROVE  (\E j \in 1..Len(c) : (c \o is)[k] = c[j]) \/ (\E j \in 1..Len(is) : (c \o is)[k] = is[j])
  <2>1. CASE k <= Len(c)
    BY <1>1, <2>1
  <2>2. CASE k > Len(c)
    <3>1. k - Len(c) \in 1..Len(is)
      BY <1>1, <2>2
    <3> QED
      BY <1>1, <2>2, <3>1
  <2> QED
    BY <1>1, <2>1, <2>2
<1>6. is = << >> => c \o is = c
  OBVIOUS
<1> QED
  BY <1>1, <1>2, <1>3, <1>4, <1>5, <1>6 DEF Middle

-----------------------------------------------------------------------------
\* The step at hand, and the frames around it.
LEMMA HereFacts ==
    ASSUME IInv
    PROVE  /\ prog \in Programs /\ at \in 1..(Len(prog.code) + 1) /\ Len(prog.code) \in Nat \ {0}
           /\ pc = "lower" => at \in 1..Len(prog.code)
           /\ Len(frames) \in Nat
           /\ \A k \in 1..Len(frames) :
                 LET f == frames[k]
                 IN  /\ f \in Frames
                     /\ f.loop \in 1..Len(prog.code) /\ f.loop < at /\ prog.code[f.loop].op = "loop"
                     /\ ContAt(f) \in Nat /\ RetAt(f) \in Nat /\ EndAt(f) \in Nat
                     /\ f.loop < ContAt(f) /\ ContAt(f) < RetAt(f) /\ RetAt(f) < EndAt(f)
                     /\ at <= EndAt(f) /\ EndAt(f) < Len(prog.code)
                     /\ f.bodyEnd = 0 <=> at <= ContAt(f)
<1>1. prog \in Programs /\ at \in 1..(Len(prog.code) + 1) /\ Len(prog.code) \in Nat \ {0}
  BY StepFacts DEF IInv, ContainersOK, TypeOK
<1>2. pc = "lower" => at \in 1..Len(prog.code)
  BY <1>1 DEF IInv, PhasesOK
<1>3. Len(frames) \in Nat /\ \A k \in 1..Len(frames) : frames[k] \in Frames
  BY DEF IInv, ContainersOK
<1>4. ASSUME NEW k \in 1..Len(frames)
      PROVE  LET f == frames[k]
             IN  /\ f.loop \in 1..Len(prog.code) /\ f.loop < at /\ prog.code[f.loop].op = "loop"
                 /\ at <= EndAt(f)
                 /\ f.bodyEnd = 0 <=> at <= ContAt(f)
  BY <1>1 DEF IInv, LoopsOpen
<1>5. ASSUME NEW k \in 1..Len(frames)
      PROVE  LET f == frames[k]
             IN  /\ ContAt(f) \in Nat /\ RetAt(f) \in Nat /\ EndAt(f) \in Nat
                 /\ f.loop < ContAt(f) /\ ContAt(f) < RetAt(f) /\ RetAt(f) < EndAt(f)
                 /\ EndAt(f) < Len(prog.code)
  <2> DEFINE l == frames[k].loop
             t == prog.code[l]
  <2>1. /\ t.cont \in Nat \ {0} /\ t.ret \in Nat /\ t.end \in Nat /\ l \in Nat
        /\ t.cont < t.ret /\ t.ret < t.end /\ l + t.end < Len(prog.code)
    <3>1. l \in 1..Len(prog.code) /\ prog.code[l].op = "loop"
      BY <1>4
    <3> HIDE DEF l
    <3> QED
      BY <1>1, <3>1, LoopFacts
  <2>2. ContAt(frames[k]) = l + t.cont /\ RetAt(frames[k]) = l + t.ret /\ EndAt(frames[k]) = l + t.end
    BY DEF ContAt, RetAt, EndAt
  <2> HIDE DEF l, t
  <2>3. l < l + t.cont /\ l + t.cont < l + t.ret /\ l + t.ret < l + t.end
    BY <2>1
  <2>4. l + t.cont \in Nat /\ l + t.ret \in Nat /\ l + t.end \in Nat
    BY <2>1
  <2> QED
    BY <2>1, <2>2, <2>3, <2>4 DEF l
<1> QED
  BY <1>1, <1>2, <1>3, <1>4, <1>5

\* A step between the parts of a loop is met with the frame of that loop innermost.
LEMMA InnerFacts ==
    ASSUME IInv, pc = "lower", prog.code[at].op \in {"continue", "return", "end"}
    PROVE  /\ Len(frames) \in Nat \ {0} /\ Inner = frames[Len(frames)]
           /\ prog.code[at].op = "continue" => at = ContAt(Inner)
           /\ prog.code[at].op = "return" => at = RetAt(Inner)
           /\ prog.code[at].op = "end" => at = EndAt(Inner)
<1> DEFINE l == at - prog.code[at].loop
           t == prog.code[l]
<1>1. /\ prog \in Programs /\ at \in 1..Len(prog.code)
      /\ Len(frames) \in Nat /\ Len(prog.code) \in Nat
  BY HereFacts
<1>2. /\ prog.code[at].loop \in Nat /\ l \in 1..(at - 1) /\ t.op = "loop"
      /\ prog.code[at].op = "continue" => prog.code[at].loop = t.cont
      /\ prog.code[at].op = "return" => prog.code[at].loop = t.ret
      /\ prog.code[at].op = "end" => prog.code[at].loop = t.end
  BY <1>1, LoopsAssumption
<1>3. l \in 1..Len(prog.code)
  BY <1>1, <1>2
<1>4. /\ t.cont \in Nat \ {0} /\ t.ret \in Nat /\ t.end \in Nat
      /\ t.cont < t.ret /\ t.ret < t.end /\ l + t.end < Len(prog.code)
      /\ \A last \in {t.cont, t.ret, t.end} :
            \A q \in (l + 1)..(l + last - 1) : prog.code[q].op = "loop" => q + prog.code[q].end < l + last
  BY <1>1, <1>2, <1>3, LoopFacts
<1>5. /\ prog.code[at].op = "continue" => at = l + t.cont
      /\ prog.code[at].op = "return" => at = l + t.ret
      /\ prog.code[at].op = "end" => at = l + t.end
  BY <1>1, <1>2
<1>6. PICK last \in {t.cont, t.ret, t.end} : at = l + last
  BY <1>5
<1>7. at <= l + t.end
  <2> HIDE DEF l, t
  <2>1. l \in Int
    BY <1>1, <1>3
  <2> QED
    BY <1>4, <1>6, <2>1
<1> HIDE DEF l
<1>8. PICK k \in 1..Len(frames) : frames[k].loop = l
  BY <1>2, <1>7 DEF IInv, LoopsOpen
<1>9. Len(frames) \in 1..Len(frames)
  BY <1>1, <1>8
<1>10. k = Len(frames)
  <2> SUFFICES ASSUME k # Len(frames) PROVE FALSE
    OBVIOUS
  <2> DEFINE q == frames[Len(frames)].loop
  <2>1. k \in 1..(Len(frames) - 1)
    BY <1>1, <1>8
  <2>2. l < q
    BY <1>8, <1>9, <2>1 DEF IInv, LoopsOpen
  <2>3. q \in 1..Len(prog.code) /\ q < at /\ prog.code[q].op = "loop" /\ at <= q + prog.code[q].end
    BY <1>9, HereFacts DEF EndAt
  <2> HIDE DEF q
  <2>4. l \in Nat /\ last \in Nat
    BY <1>2, <1>4
  <2>5. q \in (l + 1)..(l + last - 1)
    BY <1>1, <1>6, <2>2, <2>3, <2>4
  <2>6. q + prog.code[q].end < l + last
    BY <1>4, <2>3, <2>5
  <2>7. prog.code[q].end \in Nat
    BY <1>1, <2>3, LoopFacts
  <2> QED
    BY <1>1, <1>6, <2>3, <2>4, <2>6, <2>7
<1> QED
  BY <1>1, <1>5, <1>8, <1>10 DEF Inner, ContAt, RetAt, EndAt

\* Only the innermost loop can have a step of its own here.
LEMMA FrameSteps ==
    ASSUME IInv, pc = "lower", NEW k \in 1..Len(frames)
    PROVE  LET f == frames[k]
               op == prog.code[at].op
           IN  /\ at = ContAt(f) <=> op = "continue" /\ k = Len(frames)
               /\ at = RetAt(f) <=> op = "return" /\ k = Len(frames)
               /\ at = EndAt(f) <=> op = "end" /\ k = Len(frames)
<1> DEFINE f == frames[k]
           t == prog.code[f.loop]
           op == prog.code[at].op
<1>1. /\ prog \in Programs /\ at \in 1..Len(prog.code) /\ Len(frames) \in Nat
      /\ f.loop \in 1..Len(prog.code) /\ t.op = "loop"
  BY HereFacts
<1>2. /\ t.cont \in Nat /\ t.ret \in Nat /\ t.end \in Nat
      /\ prog.code[f.loop + t.cont].op = "continue" /\ prog.code[f.loop + t.cont].loop = t.cont
      /\ prog.code[f.loop + t.ret].op = "return" /\ prog.code[f.loop + t.ret].loop = t.ret
      /\ prog.code[f.loop + t.end].op = "end" /\ prog.code[f.loop + t.end].loop = t.end
  BY <1>1, LoopFacts
<1>3. ASSUME NEW last \in {t.cont, t.ret, t.end}, at = f.loop + last
      PROVE  k = Len(frames)
  <2> SUFFICES ASSUME k # Len(frames) PROVE FALSE
    OBVIOUS
  <2>1. op \in {"continue", "return", "end"} /\ prog.code[at].loop = last
    BY <1>2, <1>3
  <2>2. /\ Len(frames) \in 1..Len(frames) /\ Inner = frames[Len(frames)] /\ k \in 1..(Len(frames) - 1)
        /\ at = Inner.loop + prog.code[Inner.loop].cont \/ at = Inner.loop + prog.code[Inner.loop].ret
             \/ at = Inner.loop + prog.code[Inner.loop].end
    BY <1>1, <2>1, InnerFacts DEF ContAt, RetAt, EndAt
  <2>3. f.loop < Inner.loop
    BY <2>2 DEF IInv, LoopsOpen
  <2>4. /\ Inner.loop \in 1..Len(prog.code) /\ prog.code[Inner.loop].op = "loop"
    BY <2>2, HereFacts
  <2>5. at = Inner.loop + prog.code[at].loop
    <3> DEFINE i == prog.code[Inner.loop]
    <3>1. /\ prog.code[Inner.loop + i.cont].loop = i.cont
          /\ prog.code[Inner.loop + i.ret].loop = i.ret
          /\ prog.code[Inner.loop + i.end].loop = i.end
      BY <1>1, <2>4, LoopFacts
    <3> QED
      BY <2>2, <3>1
  <2>6. last \in Nat
    BY <1>2
  <2> QED
    BY <1>1, <1>3, <2>1, <2>3, <2>4, <2>5, <2>6
<1>4. op \in {"continue", "return", "end"} /\ k = Len(frames) =>
         /\ op = "continue" => at = f.loop + t.cont
         /\ op = "return" => at = f.loop + t.ret
         /\ op = "end" => at = f.loop + t.end
  BY <1>1, InnerFacts DEF ContAt, RetAt, EndAt
<1> QED
  BY <1>2, <1>3, <1>4 DEF ContAt, RetAt, EndAt

-----------------------------------------------------------------------------
\* The blocks after instructions were added to one that is open.
Grown(bs, b, is, made) ==
    /\ made \in Seq(Blocks)
    /\ Len(made) = Len(bs)
    /\ \A c \in 1..Len(bs) : c # b => made[c] = bs[c]
    /\ \A c \in 1..Len(bs) : made[c].params = bs[c].params
    /\ IsOpen(made[b].code) <=> IsOpen(is)
    /\ \A c \in 1..Len(bs) : Middle(made[c].code)
    /\ \A c \in 1..Len(bs) : \A k \in 1..Len(made[c].code) :
          \/ \E j \in 1..Len(bs[c].code) : made[c].code[k] = bs[c].code[j]
          \/ c = b /\ \E j \in 1..Len(is) : made[c].code[k] = is[j]

LEMMA EmitKeeps ==
    ASSUME NEW bs \in Seq(Blocks), NEW b \in 1..Len(bs), NEW is \in Seq(Instructions),
           is # << >>, Middle(is), IsOpen(bs[b].code),
           \A c \in 1..Len(bs) : Middle(bs[c].code)
    PROVE  Grown(bs, b, is, Emitted(bs, b, is))
<1> DEFINE made == Emitted(bs, b, is)
<1>1. /\ made \in Seq(Blocks)
      /\ Len(made) = Len(bs)
      /\ \A c \in 1..Len(bs) : c # b => made[c] = bs[c]
      /\ \A c \in 1..Len(bs) : made[c].params = bs[c].params
      /\ made[b].code = bs[b].code \o is
  BY EmittedFacts
<1>2. bs[b].code \in Seq(Instructions) /\ Middle(bs[b].code)
  <2>1. bs[b] \in Blocks
    OBVIOUS
  <2> QED
    BY <2>1 DEF Blocks
<1>3. /\ IsOpen(made[b].code) <=> IsOpen(is)
      /\ Middle(made[b].code)
      /\ \A k \in 1..Len(made[b].code) :
            \/ \E j \in 1..Len(bs[b].code) : made[b].code[k] = bs[b].code[j]
            \/ \E j \in 1..Len(is) : made[b].code[k] = is[j]
  <2> DEFINE c == bs[b].code
  <2>1. c \in Seq(Instructions) /\ Middle(c) /\ IsOpen(c)
    BY <1>2
  <2>2. made[b].code = c \o is
    BY <1>1
  <2> HIDE DEF c, made
  <2>3. /\ IsOpen(c \o is) <=> IsOpen(is)
        /\ Middle(c \o is)
        /\ \A k \in 1..Len(c \o is) :
              (\E j \in 1..Len(c) : (c \o is)[k] = c[j]) \/ (\E j \in 1..Len(is) : (c \o is)[k] = is[j])
    BY <2>1, ConcatFacts
  <2> QED
    BY <2>2, <2>3 DEF c
<1> HIDE DEF made
<1>4. \A c \in 1..Len(bs) : Middle(made[c].code)
  BY <1>1, <1>3
<1>5. ASSUME NEW c \in 1..Len(bs), NEW k \in 1..Len(made[c].code)
      PROVE  \/ \E j \in 1..Len(bs[c].code) : made[c].code[k] = bs[c].code[j]
             \/ c = b /\ \E j \in 1..Len(is) : made[c].code[k] = is[j]
  <2>1. CASE c = b
    BY <1>3, <2>1
  <2>2. CASE c # b
    BY <1>1, <2>2
  <2> QED
    BY <2>1, <2>2
<1> QED
  BY <1>1, <1>3, <1>4, <1>5 DEF made, Grown

\* A jump passes what its target takes, in vregs below f.
Fits(i, bs, f) ==
    i.op = "jmp" =>
        /\ Len(i.to) = 1
        /\ i.to[1] \in 1..Len(bs)
        /\ Len(i.args) = Len(bs[i.to[1]].params)
        /\ \A m \in DOMAIN i.args : i.args[m] \in 0..(f - 1)

AllFit(bs, f) == \A c \in 1..Len(bs) : \A k \in 1..Len(bs[c].code) : Fits(bs[c].code[k], bs, f)

\* Jumps still fit where the parameters of the blocks stay as they are.
LEMMA FitsLater ==
    ASSUME NEW bs \in Seq(Blocks), NEW made \in Seq(Blocks), Len(made) >= Len(bs),
           \A c \in 1..Len(bs) : made[c].params = bs[c].params,
           NEW f \in Nat, NEW g \in Nat, f <= g,
           NEW i, Fits(i, bs, f)
    PROVE  Fits(i, made, g)
<1>1. Len(bs) \in Nat /\ Len(made) \in Nat
  OBVIOUS
<1> QED
  BY <1>1 DEF Fits

LEMMA AllFitLater ==
    ASSUME NEW bs \in Seq(Blocks), NEW made \in Seq(Blocks), Len(made) >= Len(bs),
           \A c \in 1..Len(bs) : made[c].params = bs[c].params,
           NEW f \in Nat, NEW g \in Nat, f <= g,
           AllFit(bs, f),
           \A c \in 1..Len(made) : \A k \in 1..Len(made[c].code) :
              \/ c \in 1..Len(bs) /\ \E j \in 1..Len(bs[c].code) : made[c].code[k] = bs[c].code[j]
              \/ Fits(made[c].code[k], made, g)
    PROVE  AllFit(made, g)
<1> SUFFICES ASSUME NEW c \in 1..Len(made), NEW k \in 1..Len(made[c].code)
             PROVE  Fits(made[c].code[k], made, g)
  BY DEF AllFit
<1>1. ASSUME c \in 1..Len(bs), NEW j \in 1..Len(bs[c].code), made[c].code[k] = bs[c].code[j]
      PROVE  Fits(made[c].code[k], made, g)
  <2> DEFINE i == bs[c].code[j]
  <2>1. Fits(i, bs, f)
    BY <1>1 DEF AllFit
  <2> HIDE DEF i
  <2>2. Fits(i, made, g)
    BY <2>1, FitsLater
  <2> QED
    BY <1>1, <2>2 DEF i
<1> QED
  BY <1>1

\* JumpsFit and JumpsInside together.
LEMMA JumpsAre ==
    ASSUME blocks \in Seq(Blocks)
    PROVE  AllFit(blocks, fresh) <=> JumpsFit /\ JumpsInside
<1>1. \A b \in 1..Len(blocks) : DOMAIN blocks[b].code = 1..Len(blocks[b].code)
  BY DEF Blocks
<1> QED
  BY <1>1 DEF AllFit, Fits, JumpsFit, JumpsInside

\* What a step changes for the frames: only the innermost one can have its own part
\* begin here.
LEMMA NextAhead ==
    ASSUME IInv, pc = "lower", NEW k \in 1..Len(frames)
    PROVE  LET f == frames[k]
               op == prog.code[at].op
           IN  /\ at + 1 <= ContAt(f) <=> at <= ContAt(f) /\ ~(op = "continue" /\ k = Len(frames))
               /\ at + 1 <= RetAt(f) <=> at <= RetAt(f) /\ ~(op = "return" /\ k = Len(frames))
               /\ at + 1 <= EndAt(f) <=> ~(op = "end" /\ k = Len(frames))
<1> DEFINE f == frames[k]
           op == prog.code[at].op
<1>1. /\ at \in Nat /\ ContAt(f) \in Nat /\ RetAt(f) \in Nat /\ EndAt(f) \in Nat
      /\ at <= EndAt(f)
  BY HereFacts
<1>2. /\ at = ContAt(f) <=> op = "continue" /\ k = Len(frames)
      /\ at = RetAt(f) <=> op = "return" /\ k = Len(frames)
      /\ at = EndAt(f) <=> op = "end" /\ k = Len(frames)
  BY FrameSteps
<1>3. \A x \in Nat : at + 1 <= x <=> at <= x /\ at # x
  BY <1>1
<1> QED
  BY <1>1, <1>2, <1>3

-----------------------------------------------------------------------------
\* A step inside a part changes nothing for the frames.
PartOp == {"continue", "return", "end"}

LEMMA LoopsStay ==
    ASSUME IInv, pc = "lower", prog.code[at].op \notin PartOp,
           pc' = "lower" => prog.code[at].op # "loop",
           at' = at + 1, prog' = prog, frames' = frames
    PROVE  LoopsOpen'
<1>1. at \in 1..Len(prog.code) /\ Len(frames) \in Nat
  BY HereFacts
<1>2. ASSUME NEW k \in 1..Len(frames)
      PROVE  LET f == frames[k]
             IN  /\ f.loop \in 1..at /\ prog.code[f.loop].op = "loop"
                 /\ at + 1 <= EndAt(f)
                 /\ f.bodyEnd = 0 <=> at + 1 <= ContAt(f)
  <2>1. /\ at + 1 <= ContAt(frames[k]) <=> at <= ContAt(frames[k])
        /\ at + 1 <= EndAt(frames[k])
    BY NextAhead DEF PartOp
  <2> QED
    BY <1>1, <2>1, HereFacts
<1>3. \A k \in 1..Len(frames) : \A j \in 1..(k - 1) : frames[j].loop < frames[k].loop
  BY DEF IInv, LoopsOpen
<1>4. ASSUME pc' = "lower", NEW l \in 1..at, prog.code[l].op = "loop", at + 1 <= l + prog.code[l].end
      PROVE  \E k \in 1..Len(frames) : frames[k].loop = l
  <2>1. l \in 1..(at - 1)
    BY <1>1, <1>4
  <2>2. prog.code[l].end \in Nat
    <3>1. prog \in Programs /\ Len(prog.code) \in Nat
      BY HereFacts
    <3>2. l \in 1..Len(prog.code)
      BY <1>1, <3>1
    <3> QED
      BY <1>4, <3>1, <3>2, LoopFacts
  <2>3. at <= l + prog.code[l].end
    BY <1>1, <1>4, <2>2
  <2> QED
    BY <1>4, <2>1, <2>3 DEF IInv, LoopsOpen
<1>5. at' - 1 = at
  BY <1>1
<1>6. \A k \in 1..Len(frames) : ContAt(frames[k])' = ContAt(frames[k]) /\ EndAt(frames[k])' = EndAt(frames[k])
  BY DEF ContAt, EndAt
<1> QED
  BY <1>2, <1>3, <1>4, <1>5, <1>6 DEF LoopsOpen

LEMMA BlocksStayWaiting ==
    ASSUME IInv, pc = "lower", prog.code[at].op \notin PartOp,
           at' = at + 1, prog' = prog, frames' = frames, layout' = layout,
           Len(blocks') = Len(blocks)
    PROVE  BlocksWait'
<1>1. \A k \in 1..Len(frames) :
         /\ at + 1 <= ContAt(frames[k]) <=> at <= ContAt(frames[k])
         /\ at + 1 <= RetAt(frames[k]) <=> at <= RetAt(frames[k])
  BY NextAhead DEF PartOp
<1>2. \A k \in 1..Len(frames) :
         LET f == frames[k]
         IN  /\ f.body \in 1..Len(blocks) /\ f.cont \in 1..Len(blocks) /\ f.ret \in 1..Len(blocks)
             /\ f.cont # f.ret
             /\ f.cont \notin Laid <=> at + 1 <= ContAt(f)
             /\ f.ret \notin Laid <=> at + 1 <= RetAt(f)
  BY <1>1 DEF IInv, BlocksWait
<1>3. Laid' = Laid
  BY DEF Laid
<1>4. \A k \in 1..Len(frames) : ContAt(frames[k])' = ContAt(frames[k]) /\ RetAt(frames[k])' = RetAt(frames[k])
  BY DEF ContAt, RetAt
<1> QED
  BY <1>2, <1>3, <1>4 DEF IInv, BlocksWait

\* Passed depends on the program alone.
LEMMA PassedSame ==
    ASSUME prog' = prog
    PROVE  \A l : Passed(l)' = Passed(l)
<1> SUFFICES ASSUME NEW l PROVE Passed(l)' = Passed(l)
  OBVIOUS
<1>1. Mutated(l)' = Mutated(l)
  BY DEF Mutated
<1>2. {v \in Var : InVreg(v)}' = {v \in Var : InVreg(v)}
  BY DEF InVreg
<1> QED
  BY <1>1, <1>2 DEF Passed

\* The parameters of the bodies are held, wherever the variables are defined as long.
LEMMA PassedStay ==
    ASSUME IInv, prog' = prog, frames' = frames,
           NEW more \in Nat, fresh' = fresh + more,
           \A b \in 1..Len(blocks) : blocks'[b].params = blocks[b].params,
           \A v \in Var : InVreg(v) /\ current[v] \in 0..(fresh - 1) => current'[v] \in 0..(fresh' - 1)
    PROVE  PassedHeld'
<1>1. fresh \in Nat
  BY DEF IInv, TypeOK
<1> SUFFICES ASSUME NEW k \in 1..Len(frames)
             PROVE  LET f == frames[k]
                        vs == Passed(f.loop)
                    IN  /\ Len(blocks'[f.body].params) = Len(vs)
                        /\ \A n \in DOMAIN vs : current'[vs[n]] \in 0..(fresh' - 1) /\ f.atEnd[vs[n]] \in 0..(fresh' - 1)
  <2>1. \A k \in 1..Len(frames) : Passed(frames[k].loop)' = Passed(frames[k].loop)
    BY PassedSame
  <2> QED
    BY <2>1 DEF PassedHeld
<1> DEFINE f == frames[k]
           vs == Passed(f.loop)
<1>2. f.body \in 1..Len(blocks)
  BY DEF IInv, BlocksWait
<1>3. /\ Len(blocks[f.body].params) = Len(vs)
      /\ \A n \in DOMAIN vs : current[vs[n]] \in 0..(fresh - 1) /\ f.atEnd[vs[n]] \in 0..(fresh - 1)
  BY DEF IInv, PassedHeld
<1>4. \A n \in DOMAIN vs : vs[n] \in Var /\ InVreg(vs[n])
  <2>1. prog \in Programs /\ f.loop \in 1..Len(prog.code) /\ prog.code[f.loop].op = "loop"
    BY HereFacts
  <2> DEFINE l == f.loop
  <2> HIDE DEF f, l
  <2>2. Passed(l) \in Seq(Var) /\ \A n \in 1..Len(Passed(l)) : Passed(l)[n] \in Var /\ InVreg(Passed(l)[n])
    BY <2>1, PassedFacts DEF l
  <2> QED
    BY <2>2 DEF l
<1>5. 0..(fresh - 1) \subseteq 0..(fresh' - 1)
  BY <1>1
<1>6. blocks'[f.body].params = blocks[f.body].params
  BY <1>2
<1>7. ASSUME NEW n \in DOMAIN vs
      PROVE  current'[vs[n]] \in 0..(fresh' - 1) /\ f.atEnd[vs[n]] \in 0..(fresh' - 1)
  <2> DEFINE v == vs[n]
  <2>1. v \in Var /\ InVreg(v) /\ current[v] \in 0..(fresh - 1) /\ f.atEnd[v] \in 0..(fresh - 1)
    BY <1>3, <1>4
  <2> HIDE DEF vs, v, f
  <2>2. current'[v] \in 0..(fresh' - 1) /\ f.atEnd[v] \in 0..(fresh' - 1)
    BY <1>5, <2>1
  <2> QED
    BY <2>2 DEF v
<1> QED
  BY <1>3, <1>6, <1>7

-----------------------------------------------------------------------------
\* The blocks as the invariant has them.
LEMMA BlockFacts ==
    ASSUME IInv
    PROVE  /\ blocks \in Seq(Blocks) /\ Len(blocks) \in Nat /\ DOMAIN blocks = 1..Len(blocks)
           /\ block \in 1..Len(blocks) /\ block \in Laid /\ 1 \in Laid /\ Laid \subseteq 1..Len(blocks)
           /\ pc # "lowered" => IsOpen(blocks[block].code)
           /\ \A b \in 1..Len(blocks) : Middle(blocks[b].code)
           /\ fresh \in Nat
           /\ AllFit(blocks, fresh)
<1>1. blocks \in Seq(Blocks)
  BY DEF IInv, ContainersOK, Blocks
<1>2. block \in 1..Len(blocks) /\ fresh \in Nat /\ Laid \subseteq 1..Len(blocks)
  BY DEF IInv, TypeOK, Laid
<1>3. 1 \in Laid /\ block \in Laid /\ (pc # "lowered" => Open(block)) /\ \A b \in 1..Len(blocks) : Middle(blocks[b].code)
  BY DEF IInv, BlocksOpen, Middle
<1>4. Open(block) => IsOpen(blocks[block].code)
  BY DEF Open, IsOpen
<1>5. AllFit(blocks, fresh)
  BY <1>1, JumpsAre DEF IInv
<1> QED
  BY <1>1, <1>2, <1>3, <1>4, <1>5

\* Instructions that are no jumps go into a block that is open.
Plain(is) ==
    /\ is \in Seq(Instructions)
    /\ is # << >>
    /\ \A k \in 1..Len(is) : is[k].op \notin Terminators

LEMMA PlainFacts ==
    ASSUME NEW is, Plain(is)
    PROVE  /\ is \in Seq(Instructions) /\ is # << >> /\ Len(is) \in Nat
           /\ Middle(is) /\ IsOpen(is)
           /\ \A k \in 1..Len(is) : \A bs, f : Fits(is[k], bs, f)
<1>1. is \in Seq(Instructions) /\ is # << >> /\ Len(is) \in Nat /\ Len(is) > 0
  BY DEF Plain
<1>2. \A k \in 1..Len(is) : is[k].op \notin Terminators
  BY DEF Plain
<1>3. Middle(is)
  BY <1>1, <1>2 DEF Middle
<1>4. IsOpen(is)
  BY <1>1, <1>2 DEF IsOpen
<1>5. \A k \in 1..Len(is) : \A bs, f : Fits(is[k], bs, f)
  BY <1>2 DEF Fits, Terminators
<1> QED
  BY <1>1, <1>3, <1>4, <1>5

LEMMA GrownFits ==
    ASSUME NEW bs \in Seq(Blocks), NEW b, NEW is, NEW made, Grown(bs, b, is, made),
           NEW f \in Nat, NEW g \in Nat, f <= g, AllFit(bs, f),
           \A j \in 1..Len(is) : Fits(is[j], made, g)
    PROVE  AllFit(made, g)
<1>1. /\ made \in Seq(Blocks) /\ Len(made) = Len(bs) /\ Len(bs) \in Nat
      /\ \A c \in 1..Len(bs) : made[c].params = bs[c].params
      /\ \A c \in 1..Len(bs) : \A k \in 1..Len(made[c].code) :
            \/ \E j \in 1..Len(bs[c].code) : made[c].code[k] = bs[c].code[j]
            \/ c = b /\ \E j \in 1..Len(is) : made[c].code[k] = is[j]
  BY DEF Grown
<1>2. Len(made) >= Len(bs)
  BY <1>1
<1>3. \A c \in 1..Len(made) : \A k \in 1..Len(made[c].code) :
         \/ c \in 1..Len(bs) /\ \E j \in 1..Len(bs[c].code) : made[c].code[k] = bs[c].code[j]
         \/ Fits(made[c].code[k], made, g)
  BY <1>1
<1> QED
  BY <1>1, <1>2, <1>3, AllFitLater

LEMMA JumpsLater ==
    ASSUME blocks' \in Seq(Blocks), AllFit(blocks', fresh')
    PROVE  JumpsFit' /\ JumpsInside'
<1>1. (AllFit(blocks, fresh) <=> JumpsFit /\ JumpsInside)'
  <2>1. (blocks \in Seq(Blocks))'
    BY DEF Blocks
  <2> QED
    BY <2>1, JumpsAre, PTL
<1>2. AllFit(blocks, fresh)'
  BY DEF AllFit, Fits
<1> QED
  BY <1>1, <1>2

LEMMA PlainBlocks ==
    ASSUME IInv, pc # "lowered", NEW is, Plain(is), blocks' = Emitted(blocks, block, is),
           NEW more \in Nat, fresh' = fresh + more
    PROVE  /\ blocks' \in Seq(Blocks)
           /\ Len(blocks') = Len(blocks)
           /\ \A b \in 1..Len(blocks) : blocks'[b].params = blocks[b].params
           /\ \A b \in 1..Len(blocks) : b # block => blocks'[b] = blocks[b]
           /\ \A b \in 1..Len(blocks) : Middle(blocks'[b].code)
           /\ \A b \in 1..Len(blocks) : IsOpen(blocks'[b].code) <=> IsOpen(blocks[b].code)
           /\ JumpsFit' /\ JumpsInside'
<1>1. /\ blocks \in Seq(Blocks) /\ block \in 1..Len(blocks) /\ IsOpen(blocks[block].code)
      /\ \A b \in 1..Len(blocks) : Middle(blocks[b].code)
      /\ fresh \in Nat /\ AllFit(blocks, fresh) /\ Len(blocks) \in Nat
  BY BlockFacts
<1>2. /\ is \in Seq(Instructions) /\ is # << >> /\ Middle(is) /\ IsOpen(is)
      /\ \A k \in 1..Len(is) : \A bs, f : Fits(is[k], bs, f)
  BY PlainFacts
<1> DEFINE made == blocks'
<1>3. made = Emitted(blocks, block, is)
  OBVIOUS
<1> HIDE DEF made
<1>4. Grown(blocks, block, is, made)
  BY <1>1, <1>2, <1>3, EmitKeeps
<1>5. AllFit(made, fresh + more)
  <2>1. fresh + more \in Nat /\ fresh <= fresh + more
    BY <1>1
  <2>2. \A j \in 1..Len(is) : Fits(is[j], made, fresh + more)
    BY <1>2
  <2> QED
    BY <1>1, <1>4, <2>1, <2>2, GrownFits
<1>6. JumpsFit' /\ JumpsInside'
  <2>1. made \in Seq(Blocks)
    BY <1>4 DEF Grown
  <2> QED
    BY <1>5, <2>1, JumpsLater DEF made
<1>7. \A b \in 1..Len(blocks) : IsOpen(made[b].code) <=> IsOpen(blocks[b].code)
  BY <1>1, <1>2, <1>4 DEF Grown
<1> QED
  BY <1>4, <1>6, <1>7 DEF made, Grown

\* A block that grows by such instructions stays open, and the others as they are.
LEMMA BlocksStayOpen ==
    ASSUME IInv, pc # "lowered", pc' # "lowered", UNCHANGED <<layout, block, frames>>,
           Len(blocks') = Len(blocks),
           \A b \in 1..Len(blocks) : b # block => blocks'[b] = blocks[b],
           \A b \in 1..Len(blocks) : Middle(blocks'[b].code),
           \A b \in 1..Len(blocks) : IsOpen(blocks'[b].code) <=> IsOpen(blocks[b].code)
    PROVE  BlocksOpen'
<1>1. Laid' = Laid /\ Laid \subseteq 1..Len(blocks) /\ 1 \in Laid /\ block \in Laid
  BY BlockFacts DEF Laid
<1>2. \A b \in 1..Len(blocks) : (Open(b) <=> IsOpen(blocks[b].code)) /\ (Open(b)' <=> IsOpen(blocks'[b].code))
  BY DEF Open, IsOpen
<1>3. \A b \in Laid :
         Open(b)' <=> b = 1 \/ (b = block /\ pc # "lowered")
                        \/ \E k \in 1..Len(frames) : frames[k].bodyEnd = b
  <2>1. \A b \in Laid :
           Open(b) <=> b = 1 \/ (b = block /\ pc # "lowered")
                        \/ \E k \in 1..Len(frames) : frames[k].bodyEnd = b
    BY DEF IInv, BlocksOpen
  <2>2. \A b \in Laid : Open(b)' <=> Open(b)
    BY <1>1, <1>2
  <2> QED
    BY <2>1, <2>2
<1>4. \A b \in 1..Len(blocks) : b \notin Laid => blocks'[b].code = << >>
  BY <1>1 DEF IInv, BlocksOpen
<1>5. \A k \in 1..Len(frames) : frames[k].bodyEnd # 0 =>
         /\ frames[k].bodyEnd \in Laid \ {1, block}
         /\ \A j \in 1..(k - 1) : frames[j].bodyEnd # frames[k].bodyEnd
  BY DEF IInv, BlocksOpen
<1>6. \A b \in 1..Len(blocks) : \A k \in 1..(Len(blocks'[b].code) - 1) :
         blocks'[b].code[k].op \notin Terminators
  BY DEF Middle
<1> QED
  BY <1>1, <1>3, <1>4, <1>5, <1>6 DEF BlocksOpen

\* What a step inside a part may do to the variables.
LEMMA PlainStep ==
    ASSUME IInv, pc = "lower", prog.code[at].op \in {"set", "use"},
           at' = at + 1, where' = Append(where, current),
           UNCHANGED <<prog, params, layout, block, frames, pc>>,
           NEW is, Plain(is), blocks' = Emitted(blocks, block, is),
           NEW more \in Nat, fresh' = fresh + more,
           current' \in [Var -> Int],
           \A v \in Var :
              /\ current'[v] \in {Null, Memory} \cup 0..(fresh' - 1)
              /\ InVreg(v) => current'[v] # Memory
              /\ InVreg(v) /\ current[v] \in 0..(fresh - 1) => current'[v] \in 0..(fresh' - 1)
    PROVE  IInv'
<1>1. /\ blocks' \in Seq(Blocks)
      /\ Len(blocks') = Len(blocks)
      /\ \A b \in 1..Len(blocks) : blocks'[b].params = blocks[b].params
      /\ \A b \in 1..Len(blocks) : b # block => blocks'[b] = blocks[b]
      /\ \A b \in 1..Len(blocks) : Middle(blocks'[b].code)
      /\ \A b \in 1..Len(blocks) : IsOpen(blocks'[b].code) <=> IsOpen(blocks[b].code)
      /\ JumpsFit' /\ JumpsInside'
  BY PlainBlocks
<1>2. /\ at \in 1..Len(prog.code) /\ Len(prog.code) \in Nat /\ prog \in Programs
      /\ at # Len(prog.code)
  BY HereFacts, StepFacts
<1>3. fresh \in Nat /\ fresh' \in Nat /\ fresh <= fresh'
  BY BlockFacts
<1>4. TypeOK'
  <2>1. at' \in 1..(Len(prog.code) + 1) /\ Len(where') = at' - 1
    <3>1. Len(where) = at - 1 /\ where \in Seq([Var -> Int]) /\ current \in [Var -> Int]
      BY DEF IInv, TypeOK, ContainersOK
    <3> QED
      BY <1>2, <3>1
  <2>2. \A k \in DOMAIN params : params[k] \in 0..(fresh' - 1)
    BY <1>3 DEF IInv, TypeOK
  <2>3. block \in 1..Len(blocks) /\ \A k \in DOMAIN layout : layout[k] \in 1..Len(blocks)
    BY DEF IInv, TypeOK
  <2> QED
    BY <1>1, <1>3, <2>1, <2>2, <2>3 DEF TypeOK
<1>5. ContainersOK'
  <2>1. where' \in Seq([Var -> Int])
    BY DEF IInv, ContainersOK
  <2>2. \A v \in Var : InVreg(v)' => current'[v] # Memory
    BY DEF InVreg
  <2> QED
    BY <1>1, <2>1, <2>2 DEF IInv, ContainersOK, Blocks
<1>6. PhasesOK'
  BY <1>1, <1>2 DEF IInv, PhasesOK
<1>7. LoopsOpen'
  BY LoopsStay DEF PartOp
<1>8. BlocksWait'
  BY <1>1, BlocksStayWaiting DEF PartOp
<1>9. BlocksOpen'
  BY <1>1, BlocksStayOpen
<1>10. PassedHeld'
  BY <1>1, PassedStay
<1> QED
  BY <1>1, <1>4, <1>5, <1>6, <1>7, <1>8, <1>9, <1>10 DEF IInv

-----------------------------------------------------------------------------
\* An instruction of a step, and the loads before it.
Made(i, op, args, to) == i \in Instructions /\ i.op = op /\ i.args = args /\ i.to = to

LEMMA InstructionIs ==
    ASSUME NEW op \in Op, NEW p \in Nat, NEW dest \in Int, NEW var \in Var \cup {None},
           NEW args \in Seq(Int), NEW to \in Seq(Nat)
    PROVE  Made(I(op, p, dest, var, args, to), op, args, to)
  BY DEF I, Instructions, Made

LEMMA PlainAfter ==
    ASSUME NEW before \in Seq(Instructions), NEW is,
           \A k \in 1..Len(before) : before[k].op \notin Terminators,
           Plain(is)
    PROVE  Plain(before \o is)
<1>1. /\ is \in Seq(Instructions) /\ is # << >> /\ Len(is) \in Nat /\ Len(before) \in Nat
      /\ \A k \in 1..Len(is) : is[k].op \notin Terminators
  BY DEF Plain
<1>2. /\ before \o is \in Seq(Instructions)
      /\ Len(before \o is) = Len(before) + Len(is)
      /\ \A k \in 1..Len(before \o is) :
            (before \o is)[k] = IF k <= Len(before) THEN before[k] ELSE is[k - Len(before)]
  BY <1>1
<1>3. before \o is # << >>
  BY <1>1, <1>2
<1>4. ASSUME NEW k \in 1..Len(before \o is) PROVE (before \o is)[k].op \notin Terminators
  <2>1. CASE k <= Len(before)
    BY <1>1, <1>2, <2>1
  <2>2. CASE k > Len(before)
    <3>1. k - Len(before) \in 1..Len(is)
      BY <1>1, <1>2, <2>2
    <3> QED
      BY <1>1, <1>2, <2>2, <3>1
  <2> QED
    BY <1>1, <1>2, <2>1, <2>2
<1> QED
  BY <1>2, <1>3, <1>4 DEF Plain

LEMMA PlainOne ==
    ASSUME NEW i \in Instructions, i.op \notin Terminators
    PROVE  Plain(<<i>>)
<1>1. <<i>> \in Seq(Instructions) /\ Len(<<i>>) = 1 /\ <<i>> # << >> /\ <<i>>[1] = i
  OBVIOUS
<1>2. \A k \in 1..Len(<<i>>) : k = 1
  BY <1>1
<1> QED
  BY <1>1, <1>2 DEF Plain

\* The arguments of a step, loaded.
LEMMA LoadsFacts ==
    ASSUME IInv, NEW args \in Seq(Var)
    PROVE  /\ Loads(args) \in Seq(Instructions)
           /\ Len(Loads(args)) \in Nat
           /\ \A k \in 1..Len(Loads(args)) : Loads(args)[k].op \notin Terminators
           /\ Operands(args) \in Seq(Int)
<1>1. prog \in Programs /\ at \in Nat /\ fresh \in Nat /\ current \in [Var -> Int]
  <2>1. prog \in Programs /\ at \in Nat
    BY HereFacts
  <2>2. fresh \in Nat
    BY BlockFacts
  <2>3. current \in [Var -> Int]
    BY DEF IInv, ContainersOK
  <2> QED
    BY <2>1, <2>2, <2>3
<1>2. /\ Loads(args) \in Seq(Instructions)
      /\ Len(Loads(args)) \in Nat
      /\ \A k \in 1..Len(Loads(args)) : Loads(args)[k].op = "load"
      /\ Operands(args) \in Seq(Int)
  BY <1>1, OperandFacts
<1> QED
  BY <1>2 DEF Terminators

LEMMA UseStep ==
    ASSUME IInv, LowerUse
    PROVE  IInv'
<1> DEFINE args == prog.code[at].args
           i == I("use", at, Null, None, Operands(args), << >>)
           is == Loads(args) \o <<i>>
           more == Len(Loads(args))
<1>1. /\ pc = "lower" /\ prog.code[at].op = "use" /\ at' = at + 1 /\ where' = Append(where, current)
      /\ blocks' = Emitted(blocks, block, is)
      /\ fresh' = fresh + more
      /\ UNCHANGED <<prog, params, layout, block, current, frames, pc>>
  BY DEF LowerUse, Lower
<1>2. at \in 1..Len(prog.code) /\ prog \in Programs
  BY <1>1, HereFacts
<1>3. args \in Seq(Var)
  BY <1>1, <1>2, StepFacts
<1> HIDE DEF args
<1>4. /\ Loads(args) \in Seq(Instructions) /\ more \in Nat
      /\ \A k \in 1..Len(Loads(args)) : Loads(args)[k].op \notin Terminators
      /\ Operands(args) \in Seq(Int)
  BY <1>3, LoadsFacts
<1>5. i \in Instructions /\ i.op = "use"
  <2>1. at \in Nat /\ Null \in Int /\ << >> \in Seq(Nat) /\ "use" \in Op /\ None \in Var \cup {None}
    BY <1>2 DEF Null, Op
  <2> DEFINE os == Operands(args)
  <2>2. os \in Seq(Int)
    BY <1>4
  <2> HIDE DEF os
  <2>3. Made(I("use", at, Null, None, os, << >>), "use", os, << >>)
    BY <2>1, <2>2, InstructionIs
  <2> QED
    BY <2>3 DEF os, Made
<1> HIDE DEF i
<1>6. Plain(is)
  <2>1. Plain(<<i>>)
    BY <1>5, PlainOne DEF Terminators
  <2> QED
    BY <1>4, <2>1, PlainAfter
<1>7. /\ fresh \in Nat /\ current \in [Var -> Int]
      /\ \A v \in Var : current[v] \in {Null, Memory} \cup 0..(fresh - 1) /\ (InVreg(v) => current[v] # Memory)
  BY DEF IInv, TypeOK, ContainersOK
<1> HIDE DEF is, more
<1>8. 0..(fresh - 1) \subseteq 0..(fresh + more - 1)
  BY <1>4, <1>7
<1> QED
  BY <1>1, <1>4, <1>6, <1>7, <1>8, PlainStep

LEMMA SetStep ==
    ASSUME IInv, LowerSet
    PROVE  IInv'
<1> DEFINE t == prog.code[at]
           args == t.args
           loads == Loads(args)
           next == fresh + Len(loads)
<1>1. /\ pc = "lower" /\ t.op = "set" /\ at' = at + 1 /\ where' = Append(where, current)
      /\ UNCHANGED <<prog, params, layout, block, frames, pc>>
  BY DEF LowerSet, Lower
<1>2. at \in 1..Len(prog.code) /\ at \in Nat /\ prog \in Programs
  BY <1>1, HereFacts
<1>3. args \in Seq(Var) /\ t.var \in Var
  BY <1>1, <1>2, StepFacts
<1> HIDE DEF args
<1>4. /\ loads \in Seq(Instructions) /\ Len(loads) \in Nat
      /\ \A k \in 1..Len(loads) : loads[k].op \notin Terminators
      /\ Operands(args) \in Seq(Int)
  BY <1>3, LoadsFacts
<1>5. /\ fresh \in Nat /\ current \in [Var -> Int]
      /\ \A v \in Var : current[v] \in {Null, Memory} \cup 0..(fresh - 1) /\ (InVreg(v) => current[v] # Memory)
  BY DEF IInv, TypeOK, ContainersOK
<1> HIDE DEF loads
<1>6. /\ next \in Nat /\ next \in Int /\ << >> \in Seq(Nat) /\ << >> \in Seq(Int)
      /\ t.var \in Var \cup {None} /\ Null \in Int
      /\ "mov" \in Op /\ "store" \in Op /\ "alloca" \in Op
  BY <1>3, <1>4, <1>5 DEF Null, Op
<1>7. CASE InVreg(t.var)
  <2> DEFINE i == I("mov", at, next, t.var, Operands(args), << >>)
             is == loads \o <<i>>
             more == Len(loads) + 1
  <2>1. /\ blocks' = Emitted(blocks, block, is)
        /\ current' = [current EXCEPT ![t.var] = next]
        /\ fresh' = fresh + more
    <3>1. fresh' = next + 1 /\ blocks' = Emitted(blocks, block, is) /\ current' = [current EXCEPT ![t.var] = next]
      BY <1>7 DEF LowerSet, args, loads
    <3> QED
      BY <1>4, <1>5, <3>1
  <2>2. Made(i, "mov", Operands(args), << >>)
    <3> DEFINE os == Operands(args)
               n == next
               v == t.var
    <3>1. os \in Seq(Int) /\ n \in Int /\ v \in Var \cup {None}
      BY <1>4, <1>6
    <3> HIDE DEF os, n, v
    <3>2. Made(I("mov", at, n, v, os, << >>), "mov", os, << >>)
      BY <1>2, <1>6, <3>1, InstructionIs
    <3> QED
      BY <3>2 DEF os, n, v
  <2> HIDE DEF i
  <2>3. Plain(is)
    <3>1. Plain(<<i>>)
      BY <2>2, PlainOne DEF Made, Terminators
    <3> QED
      BY <1>4, <3>1, PlainAfter
  <2>4. more \in Nat /\ 0..(fresh - 1) \subseteq 0..(fresh + more - 1) /\ next \in 0..(fresh + more - 1)
    BY <1>4, <1>5
  <2>5. current' \in [Var -> Int]
    BY <1>5, <1>6, <2>1
  <2>6. ASSUME NEW v \in Var
        PROVE  /\ current'[v] \in {Null, Memory} \cup 0..(fresh' - 1)
               /\ InVreg(v) => current'[v] # Memory
               /\ InVreg(v) /\ current[v] \in 0..(fresh - 1) => current'[v] \in 0..(fresh' - 1)
    <3>1. CASE v = t.var
      BY <1>5, <1>6, <2>1, <2>4, <3>1 DEF Memory
    <3>2. CASE v # t.var
      BY <1>5, <2>1, <2>4, <3>2
    <3> QED
      BY <3>1, <3>2
  <2> HIDE DEF is, more, next
  <2>7. prog.code[at].op \in {"set", "use"}
    BY <1>1
  <2> QED
    BY <1>1, <2>1, <2>3, <2>4, <2>5, <2>6, <2>7, PlainStep
<1>8. CASE ~InVreg(t.var)
  <2> DEFINE a == I("alloca", at, Null, t.var, << >>, << >>)
             i == I("store", at, Null, t.var, Operands(args), << >>)
             slot == IF t.declares THEN <<a>> ELSE << >>
             before == loads \o slot
             is == before \o <<i>>
             more == Len(loads)
  <2>1. /\ blocks' = Emitted(blocks, block, is)
        /\ current' = [current EXCEPT ![t.var] = Memory]
        /\ fresh' = fresh + more
    BY <1>8 DEF LowerSet, args, loads
  <2>2. Made(i, "store", Operands(args), << >>) /\ Made(a, "alloca", << >>, << >>)
    <3> DEFINE os == Operands(args)
               v == t.var
    <3>1. os \in Seq(Int) /\ v \in Var \cup {None}
      BY <1>4, <1>6
    <3> HIDE DEF os, v
    <3>2. Made(I("store", at, Null, v, os, << >>), "store", os, << >>)
      BY <1>2, <1>6, <3>1, InstructionIs
    <3>3. Made(I("alloca", at, Null, v, << >>, << >>), "alloca", << >>, << >>)
      BY <1>2, <1>6, <3>1, InstructionIs
    <3> QED
      BY <3>2, <3>3 DEF os, v
  <2> HIDE DEF i, a
  <2>3. before \in Seq(Instructions) /\ \A k \in 1..Len(before) : before[k].op \notin Terminators
    <3>1. CASE t.declares
      <4>1. Plain(<<a>>)
        BY <2>2, PlainOne DEF Made, Terminators
      <4>2. Plain(loads \o <<a>>)
        BY <1>4, <4>1, PlainAfter
      <4>3. before = loads \o <<a>>
        BY <3>1
      <4> HIDE DEF before
      <4> QED
        BY <4>2, <4>3 DEF Plain
    <3>2. CASE ~t.declares
      <4>1. before = loads
        BY <1>4, <3>2
      <4> QED
        BY <1>4, <4>1
    <3> QED
      BY <3>1, <3>2
  <2> HIDE DEF before
  <2>4. Plain(is)
    <3>1. Plain(<<i>>)
      BY <2>2, PlainOne DEF Made, Terminators
    <3> QED
      BY <2>3, <3>1, PlainAfter
  <2>5. more \in Nat /\ 0..(fresh - 1) \subseteq 0..(fresh + more - 1)
    BY <1>4, <1>5
  <2>6. current' \in [Var -> Int]
    <3>1. Memory \in Int
      BY DEF Memory
    <3> HIDE DEF is, more
    <3> QED
      BY <1>5, <2>1, <3>1
  <2>7. ASSUME NEW v \in Var
        PROVE  /\ current'[v] \in {Null, Memory} \cup 0..(fresh' - 1)
               /\ InVreg(v) => current'[v] # Memory
               /\ InVreg(v) /\ current[v] \in 0..(fresh - 1) => current'[v] \in 0..(fresh' - 1)
    <3>1. CASE v = t.var
      BY <1>5, <1>8, <2>1, <3>1
    <3>2. CASE v # t.var
      BY <1>5, <2>1, <2>5, <3>2
    <3> QED
      BY <3>1, <3>2
  <2> HIDE DEF is, more
  <2>8. prog.code[at].op \in {"set", "use"}
    BY <1>1
  <2> QED
    BY <1>1, <2>1, <2>4, <2>5, <2>6, <2>7, <2>8, PlainStep
<1> QED
  BY <1>7, <1>8

-----------------------------------------------------------------------------
\* Parameters come before any loop.
LEMMA ParamStep ==
    ASSUME IInv, LowerParam
    PROVE  IInv'
<1> DEFINE v == prog.params[Len(params) + 1]
           a == I("alloca", 0, Null, v, << >>, << >>)
           s == I("store", 0, Null, v, <<fresh>>, << >>)
           is == <<a, s>>
<1>1. /\ pc = "params" /\ pc' = pc /\ Len(params) < Len(prog.params)
      /\ params' = Append(params, fresh) /\ fresh' = fresh + 1
      /\ current' = [current EXCEPT ![v] = IF InVreg(v) THEN fresh ELSE Memory]
      /\ blocks' = IF InVreg(v) THEN blocks ELSE Emitted(blocks, 1, is)
      /\ UNCHANGED <<prog, at, layout, block, frames, where>>
  BY DEF LowerParam
<1>2. /\ prog \in Programs /\ prog.params \in Seq(Var) /\ params \in Seq(Nat)
      /\ at = 1 /\ frames = << >> /\ Len(blocks) = 1 /\ layout = <<1>> /\ block = 1
      /\ current \in [Var -> Int] /\ Len(frames) = 0
  BY <1>1, StepFacts DEF IInv, ContainersOK, PhasesOK
<1>3. v \in Var
  BY <1>1, <1>2
<1> HIDE DEF v
<1>4. /\ blocks \in Seq(Blocks) /\ fresh \in Nat /\ AllFit(blocks, fresh)
      /\ \A b \in 1..Len(blocks) : Middle(blocks[b].code)
  BY BlockFacts
<1>5. Plain(is)
  <2>1. /\ "alloca" \in Op /\ "store" \in Op /\ 0 \in Nat /\ Null \in Int /\ v \in Var \cup {None}
        /\ << >> \in Seq(Int) /\ << >> \in Seq(Nat) /\ <<fresh>> \in Seq(Int)
    BY <1>3, <1>4 DEF Op, Null
  <2>2. Made(a, "alloca", << >>, << >>)
    BY <2>1, InstructionIs
  <2>3. Made(s, "store", <<fresh>>, << >>)
    BY <2>1, InstructionIs
  <2> HIDE DEF a, s
  <2>4. /\ a \in Instructions /\ s \in Instructions /\ a.op \notin Terminators /\ s.op \notin Terminators
    BY <2>2, <2>3 DEF Made, Terminators
  <2>5. /\ is \in Seq(Instructions) /\ Len(is) = 2 /\ is # << >> /\ is[1] = a /\ is[2] = s
        /\ \A k \in 1..2 : k = 1 \/ k = 2
    BY <2>4
  <2> QED
    BY <2>4, <2>5 DEF Plain
<1> HIDE DEF is
<1>6. /\ blocks' \in Seq(Blocks)
      /\ Len(blocks') = Len(blocks)
      /\ \A b \in 1..Len(blocks) : blocks'[b].params = blocks[b].params
      /\ \A b \in 1..Len(blocks) : b # block => blocks'[b] = blocks[b]
      /\ \A b \in 1..Len(blocks) : Middle(blocks'[b].code)
      /\ \A b \in 1..Len(blocks) : IsOpen(blocks'[b].code) <=> IsOpen(blocks[b].code)
      /\ JumpsFit' /\ JumpsInside'
  <2>1. CASE InVreg(v)
    <3>1. blocks' = blocks
      BY <1>1, <2>1
    <3>2. \A c \in 1..Len(blocks) : \A k \in 1..Len(blocks[c].code) :
             \E j \in 1..Len(blocks[c].code) : blocks[c].code[k] = blocks[c].code[j]
      OBVIOUS
    <3>3. AllFit(blocks, fresh + 1)
      <4>1. fresh + 1 \in Nat /\ fresh <= fresh + 1 /\ Len(blocks) >= Len(blocks)
        BY <1>2, <1>4
      <4> QED
        BY <1>4, <3>2, <4>1, AllFitLater
    <3>4. JumpsFit' /\ JumpsInside'
      BY <1>1, <1>4, <3>1, <3>3, JumpsLater
    <3> QED
      BY <1>4, <3>1, <3>4
  <2>2. CASE ~InVreg(v)
    <3>1. blocks' = Emitted(blocks, block, is) /\ pc # "lowered" /\ fresh' = fresh + 1 /\ 1 \in Nat
      BY <1>1, <1>2, <2>2
    <3> QED
      BY <1>5, <3>1, PlainBlocks
  <2> QED
    BY <2>1, <2>2
<1>7. TypeOK'
  <2>1. \A k \in DOMAIN params' : params'[k] \in 0..(fresh' - 1)
    <3>1. \A k \in 1..Len(params) : params[k] \in 0..(fresh - 1)
      BY <1>2 DEF IInv, TypeOK
    <3>2. DOMAIN params' = 1..(Len(params) + 1) /\ params'[Len(params) + 1] = fresh
          /\ \A k \in 1..Len(params) : params'[k] = params[k]
      BY <1>1, <1>2, <1>4
    <3>3. \A k \in 1..(Len(params) + 1) : k \in 1..Len(params) \/ k = Len(params) + 1
      BY <1>2
    <3> QED
      BY <1>1, <1>4, <3>1, <3>2, <3>3
  <2>2. \A w \in Var : current'[w] \in {Null, Memory} \cup 0..(fresh' - 1)
    <3>1. \A w \in Var : current[w] \in {Null, Memory} \cup 0..(fresh - 1)
      BY DEF IInv, TypeOK
    <3> QED
      BY <1>1, <1>2, <1>3, <1>4, <3>1
  <2>3. fresh' \in Nat
    BY <1>1, <1>4
  <2> QED
    BY <1>1, <1>2, <1>6, <2>1, <2>2, <2>3 DEF IInv, TypeOK
<1>8. ContainersOK'
  <2>1. params' \in Seq(Nat)
    BY <1>1, <1>2, <1>4
  <2>2. current' \in [Var -> Int]
    <3>1. Memory \in Int /\ fresh \in Int
      BY <1>4 DEF Memory
    <3> QED
      BY <1>1, <1>2, <3>1
  <2>3. \A w \in Var : InVreg(w)' => current'[w] # Memory
    <3>1. \A w \in Var : (InVreg(w)' <=> InVreg(w)) /\ (InVreg(w) => current[w] # Memory)
      BY <1>1 DEF InVreg, IInv, ContainersOK
    <3>2. fresh # Memory
      BY <1>4 DEF Memory
    <3> QED
      BY <1>1, <1>2, <1>3, <3>1, <3>2
  <2> QED
    BY <1>1, <1>6, <2>1, <2>2, <2>3 DEF IInv, ContainersOK, Blocks
<1>9. PhasesOK'
  BY <1>1, <1>2, <1>6 DEF PhasesOK
<1>10. LoopsOpen'
  BY <1>1, <1>2 DEF LoopsOpen
<1>11. BlocksWait'
  <2>1. Laid' = Laid
    BY <1>1 DEF Laid
  <2>2. \A b \in 1..Len(blocks) : b \in Laid
    BY <1>2 DEF Laid
  <2>3. \A j, k \in DOMAIN layout : layout[j] = layout[k] => j = k
    BY <1>2
  <2>4. \A k \in 1..Len(frames') : FALSE
    BY <1>1, <1>2
  <2>5. layout' = layout /\ Len(blocks') = Len(blocks)
    BY <1>1, <1>6
  <2> QED
    BY <2>1, <2>2, <2>3, <2>4, <2>5 DEF BlocksWait
<1>12. BlocksOpen'
  <2>1. pc # "lowered" /\ pc' # "lowered" /\ UNCHANGED <<layout, block, frames>>
    BY <1>1
  <2> QED
    BY <1>6, <2>1, BlocksStayOpen
<1>13. PassedHeld'
  BY <1>1, <1>2 DEF PassedHeld
<1> QED
  BY <1>6, <1>7, <1>8, <1>9, <1>10, <1>11, <1>12, <1>13 DEF IInv

LEMMA BodyStep ==
    ASSUME IInv, LowerBody
    PROVE  IInv'
<1>1. /\ pc = "params" /\ pc' = "lower"
      /\ blocks' = Append(blocks, NewBlock)
      /\ layout' = Append(layout, Len(blocks) + 1)
      /\ block' = Len(blocks) + 1
      /\ UNCHANGED <<prog, at, params, current, frames, fresh, where>>
  BY DEF LowerBody
<1>2. /\ prog \in Programs /\ Len(prog.code) \in Nat \ {0}
      /\ at = 1 /\ frames = << >> /\ Len(blocks) = 1 /\ layout = <<1>> /\ block = 1
      /\ \A k \in 1..Len(frames') : FALSE
  BY <1>1, StepFacts DEF IInv, ContainersOK, PhasesOK
<1>3. /\ blocks \in Seq(Blocks) /\ fresh \in Nat /\ AllFit(blocks, fresh)
      /\ \A b \in 1..Len(blocks) : Middle(blocks[b].code)
      /\ IsOpen(blocks[1].code)
  BY <1>1, <1>2, BlockFacts
<1>4. NewBlock \in Blocks /\ NewBlock.code = << >> /\ Len(NewBlock.code) = 0
  <2>1. << >> \in Seq(Nat) /\ << >> \in Seq(Instructions) /\ Len(<< >>) = 0
    OBVIOUS
  <2>2. NewBlock \in [params : Seq(Nat), code : Seq(Instructions)]
    BY <2>1 DEF NewBlock
  <2> QED
    BY <2>1, <2>2 DEF NewBlock, Blocks
<1>5. /\ blocks' \in Seq(Blocks) /\ Len(blocks') = 2
      /\ blocks'[1] = blocks[1] /\ blocks'[2] = NewBlock /\ \A b \in 1..2 : b = 1 \/ b = 2
  <2>1. blocks' \in Seq(Blocks)
    BY <1>1, <1>3, <1>4
  <2>2. Len(blocks') = 2 /\ blocks'[1] = blocks[1] /\ blocks'[2] = NewBlock
    <3>1. Len(blocks) = 1 /\ blocks' = Append(blocks, NewBlock)
      BY <1>1, <1>2
    <3>2. /\ Len(Append(blocks, NewBlock)) = Len(blocks) + 1
          /\ \A b \in 1..Len(blocks) : Append(blocks, NewBlock)[b] = blocks[b]
          /\ Append(blocks, NewBlock)[Len(blocks) + 1] = NewBlock
      BY <1>3, <1>4, AppendProperties
    <3> QED
      BY <3>1, <3>2
  <2>3. \A b \in 1..2 : b = 1 \/ b = 2
    OBVIOUS
  <2> QED
    BY <2>1, <2>2, <2>3
<1>6. /\ layout' \in Seq(Nat) /\ DOMAIN layout' = {1, 2}
      /\ layout'[1] = 1 /\ layout'[2] = 2 /\ block' = 2
  <2>1. layout \in Seq(Nat) /\ Len(layout) = 1 /\ layout[1] = 1 /\ layout' = Append(layout, 2)
    BY <1>1, <1>2
  <2>2. layout' \in Seq(Nat) /\ Len(layout') = 2 /\ layout'[1] = 1 /\ layout'[2] = 2
    BY <2>1, AppendProperties
  <2> QED
    BY <1>1, <1>2, <2>2
<1>7. Laid' = {1, 2}
  <2>1. DOMAIN layout' = {1, 2} /\ layout'[1] = 1 /\ layout'[2] = 2
    BY <1>6
  <2> QED
    BY <2>1 DEF Laid
<1>8. JumpsFit' /\ JumpsInside'
  <2> DEFINE made == blocks'
  <2>1. /\ made \in Seq(Blocks) /\ Len(made) >= Len(blocks) /\ fresh <= fresh
        /\ \A c \in 1..Len(blocks) : made[c].params = blocks[c].params
    BY <1>2, <1>3, <1>5
  <2>2. \A c \in 1..Len(made) : \A k \in 1..Len(made[c].code) :
           \/ c \in 1..Len(blocks) /\ \E j \in 1..Len(blocks[c].code) : made[c].code[k] = blocks[c].code[j]
           \/ Fits(made[c].code[k], made, fresh)
    BY <1>2, <1>4, <1>5
  <2>3. AllFit(made, fresh)
    <3> HIDE DEF made
    <3> QED
      BY <1>3, <2>1, <2>2, AllFitLater
  <2> QED
    BY <1>1, <1>5, <2>3, JumpsLater
<1>9. TypeOK'
  <2>1. \A k \in DOMAIN layout' : layout'[k] \in 1..2
    BY <1>6
  <2> QED
    BY <1>1, <1>2, <1>5, <1>6, <2>1 DEF IInv, TypeOK
<1>10. ContainersOK'
  <2>1. layout' \in Seq(Nat)
    BY <1>6
  <2>2. \A w \in Var : InVreg(w)' => current'[w] # Memory
    BY <1>1 DEF InVreg, IInv, ContainersOK
  <2> QED
    BY <1>1, <1>5, <2>1, <2>2 DEF IInv, ContainersOK, Blocks
<1>11. PhasesOK'
  BY <1>1, <1>2, <1>5, <1>6 DEF PhasesOK
<1>12. LoopsOpen'
  BY <1>1, <1>2 DEF LoopsOpen
<1>13. BlocksWait'
  <2>1. \A j, k \in DOMAIN layout' : layout'[j] = layout'[k] => j = k
    BY <1>6
  <2>2. \A b \in 1..Len(blocks') : b \in {1, 2}
    BY <1>5
  <2> QED
    BY <1>2, <1>7, <2>1, <2>2 DEF BlocksWait
<1>14. BlocksOpen'
  <2>1. \A b \in {1, 2} : IsOpen(blocks'[b].code) /\ Middle(blocks'[b].code)
    BY <1>2, <1>3, <1>4, <1>5 DEF IsOpen, Middle
  <2>2. \A b \in {1, 2} : Open(b)'
    BY <2>1 DEF Open, IsOpen
  <2>3. \A b \in 1..Len(blocks') : b \in {1, 2}
    BY <1>5
  <2>4. \A b \in 1..Len(blocks') : \A k \in 1..(Len(blocks'[b].code) - 1) :
           blocks'[b].code[k].op \notin Terminators
    BY <2>1, <2>3 DEF Middle
  <2> QED
    BY <1>1, <1>2, <1>6, <1>7, <2>2, <2>3, <2>4 DEF BlocksOpen
<1>15. PassedHeld'
  BY <1>2 DEF PassedHeld
<1> QED
  BY <1>8, <1>9, <1>10, <1>11, <1>12, <1>13, <1>14, <1>15 DEF IInv

\* The types of what every step of the lowering has in common.
LEMMA CommonTypes ==
    ASSUME IInv, pc = "lower", at' = at + 1, where' = Append(where, current),
           prog' = prog, params' = params, NEW more \in Nat, fresh' = fresh + more
    PROVE  /\ at' \in 1..(Len(prog.code) + 1) /\ Len(where') = at' - 1
           /\ where' \in Seq([Var -> Int])
           /\ \A k \in DOMAIN params : params[k] \in 0..(fresh' - 1)
           /\ fresh \in Nat /\ fresh' \in Nat /\ 0..(fresh - 1) \subseteq 0..(fresh' - 1)
<1>1. /\ at \in 1..Len(prog.code) /\ Len(prog.code) \in Nat
  BY HereFacts
<1>2. /\ Len(where) = at - 1 /\ where \in Seq([Var -> Int]) /\ current \in [Var -> Int]
      /\ fresh \in Nat /\ \A k \in DOMAIN params : params[k] \in 0..(fresh - 1)
  BY DEF IInv, TypeOK, ContainersOK
<1>3. at' \in 1..(Len(prog.code) + 1) /\ Len(where') = at' - 1 /\ where' \in Seq([Var -> Int])
  BY <1>1, <1>2
<1>4. fresh' \in Nat /\ 0..(fresh - 1) \subseteq 0..(fresh' - 1)
  BY <1>2
<1> QED
  BY <1>2, <1>3, <1>4

LEMMA CrashStep ==
    ASSUME IInv, Crash
    PROVE  IInv'
<1>1. /\ pc = "lower" /\ pc' = "crashed" /\ prog.code[at].op = "loop" /\ at' = at + 1
      /\ where' = Append(where, current) /\ fresh' = fresh + 0
      /\ UNCHANGED <<prog, params, blocks, layout, block, current, frames, fresh>>
  <2>1. fresh \in Nat
    BY BlockFacts
  <2> QED
    BY <2>1 DEF Crash, Lower
<1>2. TypeOK'
  <2>1. 0 \in Nat
    OBVIOUS
  <2>2. at' \in 1..(Len(prog.code) + 1) /\ Len(where') = at' - 1
    BY <1>1, <2>1, CommonTypes
  <2> QED
    BY <1>1, <2>2 DEF IInv, TypeOK
<1>3. ContainersOK'
  <2>1. where' \in Seq([Var -> Int])
    BY <1>1 DEF IInv, ContainersOK
  <2>2. \A w \in Var : InVreg(w)' => current'[w] # Memory
    BY <1>1 DEF InVreg, IInv, ContainersOK
  <2> QED
    BY <1>1, <2>1, <2>2 DEF IInv, ContainersOK
<1>4. PhasesOK'
  BY <1>1 DEF IInv, PhasesOK
<1>5. LoopsOpen' /\ BlocksWait'
  BY <1>1, LoopsStay, BlocksStayWaiting DEF PartOp
<1>6. BlocksOpen'
  <2>1. \A b \in 1..Len(blocks) : Middle(blocks[b].code)
    BY BlockFacts
  <2> QED
    BY <1>1, <2>1, BlocksStayOpen
<1>7. PassedHeld'
  <2>1. \A v \in Var : InVreg(v) /\ current[v] \in 0..(fresh - 1) => current'[v] \in 0..(fresh' - 1)
    BY <1>1
  <2>2. 0 \in Nat /\ \A b \in 1..Len(blocks) : blocks'[b].params = blocks[b].params
    BY <1>1
  <2> QED
    BY <1>1, <2>1, <2>2, PassedStay
<1>8. JumpsFit' /\ JumpsInside'
  BY <1>1 DEF IInv, JumpsFit, JumpsInside
<1> QED
  BY <1>2, <1>3, <1>4, <1>5, <1>6, <1>7, <1>8 DEF IInv

-----------------------------------------------------------------------------
\* A block that gets its jump is closed.
LEMMA EndFacts ==
    ASSUME IInv, NEW b \in 1..Len(blocks), IsOpen(blocks[b].code),
           NEW i \in Instructions, i.op \in Terminators, Fits(i, blocks, fresh),
           NEW made, made = Emitted(blocks, b, <<i>>)
    PROVE  /\ made \in Seq(Blocks)
           /\ Len(made) = Len(blocks)
           /\ \A c \in 1..Len(blocks) : made[c].params = blocks[c].params
           /\ \A c \in 1..Len(blocks) : c # b => made[c] = blocks[c]
           /\ \A c \in 1..Len(blocks) : Middle(made[c].code)
           /\ ~IsOpen(made[b].code)
           /\ AllFit(made, fresh)
<1>1. /\ blocks \in Seq(Blocks) /\ Len(blocks) \in Nat
      /\ \A c \in 1..Len(blocks) : Middle(blocks[c].code)
      /\ fresh \in Nat /\ AllFit(blocks, fresh)
  BY BlockFacts
<1> DEFINE is == <<i>>
<1>2. is \in Seq(Instructions) /\ is # << >> /\ Len(is) = 1 /\ is[1] = i /\ \A k \in 1..Len(is) : k = 1
  OBVIOUS
<1> HIDE DEF is
<1>3. Middle(is) /\ ~IsOpen(is)
  BY <1>2 DEF Middle, IsOpen
<1>4. made = Emitted(blocks, b, is)
  BY DEF is
<1>5. Grown(blocks, b, is, made)
  BY <1>1, <1>2, <1>3, <1>4, EmitKeeps
<1>6. /\ made \in Seq(Blocks) /\ Len(made) = Len(blocks) /\ Len(made) >= Len(blocks)
      /\ \A c \in 1..Len(blocks) : made[c].params = blocks[c].params
  BY <1>1, <1>5 DEF Grown
<1>7. fresh <= fresh
  BY <1>1
<1>8. Fits(i, made, fresh)
  BY <1>1, <1>6, <1>7, FitsLater
<1>9. \A j \in 1..Len(is) : Fits(is[j], made, fresh)
  BY <1>2, <1>8
<1>10. AllFit(made, fresh)
  BY <1>1, <1>5, <1>7, <1>9, GrownFits
<1> QED
  BY <1>3, <1>5, <1>10 DEF Grown

LEMMA ExitStep ==
    ASSUME IInv, LowerExit
    PROVE  IInv'
<1> DEFINE i == I("ret", at, Null, None, << >>, << >>)
<1>1. /\ pc = "lower" /\ pc' = "lowered" /\ prog.code[at].op = "exit" /\ at' = at + 1
      /\ where' = Append(where, current) /\ blocks' = Emitted(blocks, block, <<i>>)
      /\ UNCHANGED <<prog, params, layout, block, current, frames, fresh>>
  BY DEF LowerExit, Lower
<1>2. at \in 1..Len(prog.code) /\ at = Len(prog.code) /\ Len(frames) \in Nat
  <2>1. at \in 1..Len(prog.code) /\ prog \in Programs /\ Len(frames) \in Nat
    BY <1>1, HereFacts
  <2> QED
    BY <1>1, <2>1, StepFacts
<1>3. \A k \in 1..Len(frames) : FALSE
  <2> SUFFICES ASSUME NEW k \in 1..Len(frames) PROVE FALSE
    OBVIOUS
  <2> DEFINE e == EndAt(frames[k])
  <2>1. e \in Nat /\ at <= e /\ e < Len(prog.code)
    BY HereFacts
  <2> HIDE DEF e
  <2> QED
    BY <1>2, <2>1
<1>4. i \in Instructions /\ i.op \in Terminators /\ i.op # "jmp"
  <2>1. at \in Nat /\ Null \in Int /\ << >> \in Seq(Nat) /\ << >> \in Seq(Int) /\ "ret" \in Op /\ None \in Var \cup {None}
    BY <1>2 DEF Null, Op
  <2>2. Made(i, "ret", << >>, << >>)
    BY <2>1, InstructionIs
  <2> QED
    BY <2>2 DEF Made, Terminators
<1> HIDE DEF i
<1>5. /\ block \in 1..Len(blocks) /\ IsOpen(blocks[block].code) /\ 1 \in Laid /\ block \in Laid
      /\ Laid \subseteq 1..Len(blocks) /\ fresh \in Nat
  BY <1>1, BlockFacts
<1> DEFINE made == blocks'
<1>6. /\ made \in Seq(Blocks)
      /\ Len(made) = Len(blocks)
      /\ \A c \in 1..Len(blocks) : made[c].params = blocks[c].params
      /\ \A c \in 1..Len(blocks) : c # block => made[c] = blocks[c]
      /\ \A c \in 1..Len(blocks) : Middle(made[c].code)
      /\ ~IsOpen(made[block].code)
      /\ AllFit(made, fresh)
  <2>1. Fits(i, blocks, fresh)
    BY <1>4 DEF Fits
  <2>2. made = Emitted(blocks, block, <<i>>)
    BY <1>1
  <2> HIDE DEF made
  <2> QED
    BY <1>4, <1>5, <2>1, <2>2, EndFacts
<1>7. JumpsFit' /\ JumpsInside'
  BY <1>1, <1>6, JumpsLater
<1>8. TypeOK'
  <2>1. 0 \in Nat /\ fresh' = fresh + 0
    BY <1>1, <1>5
  <2>2. at' \in 1..(Len(prog.code) + 1) /\ Len(where') = at' - 1
    BY <1>1, <2>1, CommonTypes
  <2> QED
    BY <1>1, <1>6, <2>2 DEF IInv, TypeOK
<1>9. ContainersOK'
  <2>1. where' \in Seq([Var -> Int])
    BY <1>1 DEF IInv, ContainersOK
  <2>2. \A w \in Var : InVreg(w)' => current'[w] # Memory
    BY <1>1 DEF InVreg, IInv, ContainersOK
  <2> QED
    BY <1>1, <1>6, <2>1, <2>2 DEF IInv, ContainersOK, Blocks
<1>10. PhasesOK' /\ block # 1
  <2>1. frames \in Seq(Frames)
    BY DEF IInv, ContainersOK
  <2>2. Len(frames) = 0
    BY <1>2, <1>3
  <2>3. frames = << >>
    BY <2>1, <2>2
  <2> QED
    BY <1>1, <1>6, <2>3 DEF IInv, PhasesOK
<1>11. LoopsOpen' /\ BlocksWait'
  BY <1>1, <1>6, LoopsStay, BlocksStayWaiting DEF PartOp
<1>12. BlocksOpen'
  <2>1. Laid' = Laid
    BY <1>1 DEF Laid
  <2>2. \A b \in Laid : Open(b) <=> b = 1 \/ b = block
    BY <1>1, <1>3 DEF IInv, BlocksOpen
  <2>3. \A b \in 1..Len(blocks) : (Open(b) <=> IsOpen(blocks[b].code)) /\ (Open(b)' <=> IsOpen(made[b].code))
    BY DEF Open, IsOpen
  <2>4. \A b \in Laid : Open(b)' <=> b = 1
    BY <1>5, <1>6, <1>10, <2>2, <2>3
  <2>5. \A b \in 1..Len(blocks) : b \notin Laid => made[b].code = << >>
    BY <1>5, <1>6 DEF IInv, BlocksOpen
  <2>6. \A b \in 1..Len(blocks) : \A k \in 1..(Len(made[b].code) - 1) : made[b].code[k].op \notin Terminators
    BY <1>6 DEF Middle
  <2> QED
    BY <1>1, <1>3, <1>5, <1>6, <2>1, <2>4, <2>5, <2>6 DEF BlocksOpen
<1>13. PassedHeld'
  BY <1>1, <1>3 DEF PassedHeld
<1> QED
  BY <1>7, <1>8, <1>9, <1>10, <1>11, <1>12, <1>13 DEF IInv

-----------------------------------------------------------------------------
\* Between two parts the loops stay what they are.
LEMMA LoopsKept ==
    ASSUME IInv, pc = "lower", prog.code[at].op \in {"continue", "return"},
           at' = at + 1, prog' = prog, Len(frames') = Len(frames),
           \A k \in 1..Len(frames) : frames'[k].loop = frames[k].loop,
           \A k \in 1..Len(frames) : frames'[k].bodyEnd = 0 <=> at + 1 <= ContAt(frames[k])
    PROVE  /\ LoopsOpen'
           /\ \A k \in 1..Len(frames) :
                 /\ ContAt(frames[k])' = ContAt(frames[k])
                 /\ RetAt(frames[k])' = RetAt(frames[k])
<1>1. at \in 1..Len(prog.code) /\ Len(frames) \in Nat /\ Len(prog.code) \in Nat /\ prog \in Programs
  BY HereFacts
<1>2. ASSUME NEW k \in 1..Len(frames)
      PROVE  LET f == frames[k]
             IN  /\ f.loop \in 1..at /\ prog.code[f.loop].op = "loop"
                 /\ at + 1 <= EndAt(f)
  <2>1. at + 1 <= EndAt(frames[k])
    BY NextAhead
  <2> QED
    BY <1>1, <2>1, HereFacts
<1>3. \A k \in 1..Len(frames) : \A j \in 1..(k - 1) : frames'[j].loop < frames'[k].loop
  <2>1. \A k \in 1..Len(frames) : \A j \in 1..(k - 1) : j \in 1..Len(frames)
    BY <1>1
  <2>2. \A k \in 1..Len(frames) : \A j \in 1..(k - 1) : frames[j].loop < frames[k].loop
    BY DEF IInv, LoopsOpen
  <2> QED
    BY <2>1, <2>2
<1>4. ASSUME NEW l \in 1..at, prog.code[l].op = "loop", at + 1 <= l + prog.code[l].end
      PROVE  \E k \in 1..Len(frames) : frames'[k].loop = l
  <2>1. l \in 1..(at - 1)
    BY <1>1, <1>4
  <2>2. prog.code[l].end \in Nat
    <3>1. l \in 1..Len(prog.code)
      BY <1>1
    <3> QED
      BY <1>1, <1>4, <3>1, LoopFacts
  <2>3. at <= l + prog.code[l].end
    BY <1>1, <1>4, <2>2
  <2>4. \E k \in 1..Len(frames) : frames[k].loop = l
    BY <1>4, <2>1, <2>3 DEF IInv, LoopsOpen
  <2> QED
    BY <2>4
<1>5. at' - 1 = at
  BY <1>1
<1>6. \A k \in 1..Len(frames) :
         /\ ContAt(frames[k])' = ContAt(frames[k])
         /\ RetAt(frames[k])' = RetAt(frames[k])
         /\ EndAt(frames[k])' = EndAt(frames[k])
  BY DEF ContAt, RetAt, EndAt
<1>7. LoopsOpen'
  BY <1>2, <1>3, <1>4, <1>5, <1>6 DEF LoopsOpen
<1> QED
  BY <1>6, <1>7

\* The next of a loop's blocks is added to the function.
LEMMA BlocksTurn ==
    ASSUME IInv, pc = "lower", at' = at + 1, Len(blocks') = Len(blocks), Len(frames') = Len(frames),
           NEW n, n = Len(frames), n \in 1..Len(frames), NEW next, layout' = Append(layout, next),
           \A k \in 1..Len(frames) :
              /\ frames'[k].body = frames[k].body
              /\ frames'[k].cont = frames[k].cont
              /\ frames'[k].ret = frames[k].ret
              /\ ContAt(frames[k])' = ContAt(frames[k])
              /\ RetAt(frames[k])' = RetAt(frames[k]),
           \/ prog.code[at].op = "continue" /\ next = frames[n].cont
           \/ prog.code[at].op = "return" /\ next = frames[n].ret
    PROVE  /\ BlocksWait'
           /\ Laid' = Laid \cup {next} /\ next \notin Laid /\ next \in 1..Len(blocks)
<1> DEFINE op == prog.code[at].op
<1>1. /\ at \in Nat /\ Len(frames) \in Nat /\ Len(blocks) \in Nat
      /\ \A k \in 1..Len(frames) : ContAt(frames[k]) \in Nat /\ RetAt(frames[k]) \in Nat
  BY HereFacts, BlockFacts
<1>2. /\ op = "continue" => at = ContAt(frames[n])
      /\ op = "return" => at = RetAt(frames[n])
  BY FrameSteps
<1>3. \A k \in 1..Len(frames) :
         /\ at + 1 <= ContAt(frames[k]) <=> at <= ContAt(frames[k]) /\ ~(op = "continue" /\ k = n)
         /\ at + 1 <= RetAt(frames[k]) <=> at <= RetAt(frames[k]) /\ ~(op = "return" /\ k = n)
  BY NextAhead
<1>4. \A k \in 1..Len(frames) :
         /\ frames[k].body \in 1..Len(blocks) /\ frames[k].cont \in 1..Len(blocks)
         /\ frames[k].ret \in 1..Len(blocks) /\ frames[k].cont # frames[k].ret
         /\ frames[k].cont \notin Laid <=> at <= ContAt(frames[k])
         /\ frames[k].ret \notin Laid <=> at <= RetAt(frames[k])
  BY DEF IInv, BlocksWait
<1>5. \A k \in 1..Len(frames) : \A j \in 1..(k - 1) :
         {frames[j].cont, frames[j].ret} \cap {frames[k].cont, frames[k].ret} = {}
  BY DEF IInv, BlocksWait
<1>6. next \notin Laid /\ next \in 1..Len(blocks)
  BY <1>1, <1>2, <1>4
<1>7. layout \in Seq(Nat) /\ next \in Nat
  BY <1>6 DEF IInv, ContainersOK
<1>8. /\ DOMAIN layout = 1..Len(layout) /\ DOMAIN layout' = 1..(Len(layout) + 1) /\ Len(layout) \in Nat
      /\ layout'[Len(layout) + 1] = next
      /\ \A k \in 1..Len(layout) : layout'[k] = layout[k]
  BY <1>7
<1>9. Laid' = Laid \cup {next}
  <2>1. \A k \in 1..(Len(layout) + 1) : k \in 1..Len(layout) \/ k = Len(layout) + 1
    BY <1>8
  <2>2. 1..Len(layout) \subseteq 1..(Len(layout) + 1) /\ Len(layout) + 1 \in 1..(Len(layout) + 1)
    BY <1>8
  <2> QED
    BY <1>8, <2>1, <2>2 DEF Laid
<1>10. ASSUME NEW k \in 1..Len(frames), k # n
       PROVE  next \notin {frames[k].cont, frames[k].ret}
  <2>1. k \in 1..(n - 1)
    BY <1>1, <1>10
  <2> QED
    BY <1>5, <2>1
<1>11. ASSUME NEW k \in 1..Len(frames)
       PROVE  /\ frames[k].cont \notin Laid' <=> at + 1 <= ContAt(frames[k])
              /\ frames[k].ret \notin Laid' <=> at + 1 <= RetAt(frames[k])
  <2>1. CASE k # n
    BY <1>3, <1>4, <1>9, <1>10, <2>1
  <2>2. CASE k = n
    BY <1>3, <1>4, <1>9, <2>2
  <2> QED
    BY <2>1, <2>2
<1>12. \A b \in 1..Len(blocks) : b \notin Laid' =>
          \E k \in 1..Len(frames) : b \in {frames'[k].cont, frames'[k].ret}
  <2>1. \A b \in 1..Len(blocks) : b \notin Laid => \E k \in 1..Len(frames) : b \in {frames[k].cont, frames[k].ret}
    BY DEF IInv, BlocksWait
  <2> QED
    BY <1>9, <2>1
<1>13. \A j, k \in 1..(Len(layout) + 1) : layout'[j] = layout'[k] => j = k
  <2>1. \A j, k \in 1..Len(layout) : layout[j] = layout[k] => j = k
    BY <1>8 DEF IInv, BlocksWait
  <2>2. \A j \in 1..Len(layout) : layout[j] # next
    BY <1>6, <1>8 DEF Laid
  <2>3. \A k \in 1..(Len(layout) + 1) : k \in 1..Len(layout) \/ k = Len(layout) + 1
    BY <1>8
  <2> QED
    BY <1>8, <2>1, <2>2, <2>3
<1>14. \A k \in 1..Len(frames) : \A j \in 1..(k - 1) :
          {frames'[j].cont, frames'[j].ret} \cap {frames'[k].cont, frames'[k].ret} = {}
  <2>1. \A k \in 1..Len(frames) : \A j \in 1..(k - 1) : j \in 1..Len(frames)
    BY <1>1
  <2> QED
    BY <1>5, <2>1
<1>15. BlocksWait'
  <2>1. (\A k \in 1..Len(frames) :
           LET f == frames[k]
           IN  /\ f.body \in 1..Len(blocks) /\ f.cont \in 1..Len(blocks) /\ f.ret \in 1..Len(blocks)
               /\ f.cont # f.ret
               /\ f.cont \notin Laid <=> at <= ContAt(f)
               /\ f.ret \notin Laid <=> at <= RetAt(f))'
    BY <1>4, <1>11
  <2>2. (\A k \in 1..Len(frames) : \A j \in 1..(k - 1) :
           {frames[j].cont, frames[j].ret} \cap {frames[k].cont, frames[k].ret} = {})'
    BY <1>14
  <2>3. (\A b \in 1..Len(blocks) : b \notin Laid =>
           \E k \in 1..Len(frames) : b \in {frames[k].cont, frames[k].ret})'
    BY <1>12
  <2>4. (\A j, k \in DOMAIN layout : layout[j] = layout[k] => j = k)'
    BY <1>8, <1>13
  <2> QED
    BY <2>1, <2>2, <2>3, <2>4 DEF BlocksWait
<1> QED
  BY <1>6, <1>9, <1>15

\* What the invariant says of the body of a loop, after a step.
HeldLater(body, vs, atEnd) ==
    /\ Len(blocks'[body].params) = Len(vs)
    /\ \A m \in DOMAIN vs : current'[vs[m]] \in 0..(fresh' - 1) /\ atEnd[vs[m]] \in 0..(fresh' - 1)

LEMMA PassedLater ==
    ASSUME prog' = prog, NEW n \in Nat, Len(frames') = n,
           NEW loops, \A k \in 1..n : frames'[k].loop = loops[k],
           \A k \in 1..n : HeldLater(frames'[k].body, Passed(loops[k]), frames'[k].atEnd)
    PROVE  PassedHeld'
<1>1. \A k \in 1..n :
         /\ Len(blocks'[frames'[k].body].params) = Len(Passed(loops[k]))
         /\ \A m \in DOMAIN Passed(loops[k]) :
               /\ current'[Passed(loops[k])[m]] \in 0..(fresh' - 1)
               /\ frames'[k].atEnd[Passed(loops[k])[m]] \in 0..(fresh' - 1)
  BY DEF HeldLater
<1>2. \A k \in 1..n : Passed(frames[k].loop)' = Passed(loops[k])
  BY PassedSame
<1> QED
  BY <1>1, <1>2 DEF PassedHeld

LEMMA ContinueStep ==
    ASSUME IInv, LowerContinue
    PROVE  IInv'
<1> DEFINE n == Len(frames)
           next == Inner.cont
<1>1. /\ pc = "lower" /\ pc' = pc /\ prog.code[at].op = "continue" /\ at' = at + 1
      /\ where' = Append(where, current)
      /\ frames' = [frames EXCEPT ![n].bodyEnd = block, ![n].atEnd = current]
      /\ block' = next
      /\ layout' = Append(layout, next)
      /\ UNCHANGED <<prog, params, blocks, current, fresh>>
  BY DEF LowerContinue, Lower
<1>2. n \in Nat \ {0} /\ n \in 1..n /\ Inner = frames[n] /\ at = ContAt(Inner)
  BY <1>1, InnerFacts
<1>3. /\ at \in 1..Len(prog.code) /\ Len(prog.code) \in Nat /\ prog \in Programs
      /\ frames \in Seq(Frames) /\ current \in [Var -> Int] /\ at # Len(prog.code)
  <2>1. at \in 1..Len(prog.code) /\ Len(prog.code) \in Nat /\ prog \in Programs
    BY <1>1, HereFacts
  <2>2. at # Len(prog.code)
    BY <1>1, <2>1, StepFacts
  <2> QED
    BY <2>1, <2>2 DEF IInv, ContainersOK
<1>4. /\ blocks \in Seq(Blocks) /\ Len(blocks) \in Nat
      /\ block \in 1..Len(blocks) /\ block \in Laid /\ 1 \in Laid /\ Laid \subseteq 1..Len(blocks)
      /\ \A b \in 1..Len(blocks) : Middle(blocks[b].code)
      /\ fresh \in Nat /\ AllFit(blocks, fresh)
  BY BlockFacts
<1>5. /\ frames' \in Seq(Frames) /\ Len(frames') = n
      /\ \A k \in 1..n : k # n => frames'[k] = frames[k]
      /\ frames'[n] = [frames[n] EXCEPT !.bodyEnd = block, !.atEnd = current]
  <2>1. frames[n] \in Frames
    BY <1>2, <1>3
  <2>2. [frames[n] EXCEPT !.bodyEnd = block, !.atEnd = current] \in Frames
    <3>1. block \in Nat /\ current \in [Var -> Int]
      BY <1>3, <1>4
    <3> QED
      BY <2>1, <3>1 DEF Frames
  <2> DEFINE new == [frames[n] EXCEPT !.bodyEnd = block, !.atEnd = current]
  <2>3. frames' = [frames EXCEPT ![n] = new]
    BY <1>1, <1>2, <1>3, <2>1 DEF Frames
  <2>4. new \in Frames
    BY <2>2
  <2> HIDE DEF new
  <2>5. /\ frames' \in Seq(Frames) /\ Len(frames') = n
        /\ \A k \in 1..n : k # n => frames'[k] = frames[k]
        /\ frames'[n] = new
    BY <1>2, <1>3, <2>3, <2>4
  <2> QED
    BY <2>5 DEF new
<1>6. frames[n] \in Frames
  BY <1>2, <1>3
<1>7. \A k \in 1..n :
         /\ frames'[k].loop = frames[k].loop
         /\ frames'[k].body = frames[k].body
         /\ frames'[k].cont = frames[k].cont
         /\ frames'[k].ret = frames[k].ret
         /\ frames'[k].bodyEnd = IF k = n THEN block ELSE frames[k].bodyEnd
         /\ frames'[k].atEnd = IF k = n THEN current ELSE frames[k].atEnd
  <2>1. /\ frames'[n].loop = frames[n].loop
        /\ frames'[n].body = frames[n].body
        /\ frames'[n].cont = frames[n].cont
        /\ frames'[n].ret = frames[n].ret
        /\ frames'[n].bodyEnd = block
        /\ frames'[n].atEnd = current
    BY <1>5, <1>6 DEF Frames
  <2> QED
    BY <1>5, <2>1
<1>8. LoopsOpen' /\ \A k \in 1..n : ContAt(frames[k])' = ContAt(frames[k]) /\ RetAt(frames[k])' = RetAt(frames[k])
  <2>1. \A k \in 1..n : frames[k].bodyEnd = 0 <=> at <= ContAt(frames[k])
    BY HereFacts
  <2>2. \A k \in 1..n : at + 1 <= ContAt(frames[k]) <=> at <= ContAt(frames[k]) /\ k # n
    BY <1>1, NextAhead
  <2>3. \A k \in 1..n : frames'[k].bodyEnd = 0 <=> at + 1 <= ContAt(frames[k])
    BY <1>4, <1>7, <2>1, <2>2
  <2> QED
    BY <1>1, <1>5, <1>7, <2>3, LoopsKept
<1> HIDE DEF next
<1>9. /\ BlocksWait'
      /\ Laid' = Laid \cup {next} /\ next \notin Laid /\ next \in 1..Len(blocks)
  <2>1. prog.code[at].op = "continue" /\ next = frames[n].cont /\ Len(blocks') = Len(blocks)
    BY <1>1, <1>2 DEF next
  <2> QED
    BY <1>1, <1>2, <1>5, <1>7, <1>8, <2>1, BlocksTurn
<1>10. TypeOK'
  <2>1. 0 \in Nat /\ fresh' = fresh + 0
    BY <1>1, <1>4
  <2>2. at' \in 1..(Len(prog.code) + 1) /\ Len(where') = at' - 1
    BY <1>1, <2>1, CommonTypes
  <2>3. \A k \in DOMAIN layout' : layout'[k] \in 1..Len(blocks)
    BY <1>4, <1>9 DEF Laid
  <2> QED
    BY <1>1, <1>9, <2>2, <2>3 DEF IInv, TypeOK
<1>11. ContainersOK'
  <2>1. where' \in Seq([Var -> Int])
    BY <1>1 DEF IInv, ContainersOK
  <2>2. \A w \in Var : InVreg(w)' => current'[w] # Memory
    BY <1>1 DEF InVreg, IInv, ContainersOK
  <2>3. layout' \in Seq(Nat)
    BY <1>1, <1>9 DEF IInv, ContainersOK
  <2> QED
    BY <1>1, <1>5, <2>1, <2>2, <2>3 DEF IInv, ContainersOK
<1>12. PhasesOK'
  <2>1. Len(blocks) > 1
    BY <1>1 DEF IInv, PhasesOK
  <2>2. at + 1 <= Len(prog.code)
    BY <1>3
  <2> QED
    BY <1>1, <1>4, <1>9, <2>1, <2>2 DEF PhasesOK
<1>13. BlocksOpen'
  <2>1. /\ \A b \in Laid :
             Open(b) <=> b = 1 \/ b = block \/ \E k \in 1..n : frames[k].bodyEnd = b
        /\ \A b \in 1..Len(blocks) : b \notin Laid => blocks[b].code = << >>
        /\ \A k \in 1..n : frames[k].bodyEnd # 0 =>
              /\ frames[k].bodyEnd \in Laid /\ frames[k].bodyEnd # 1 /\ frames[k].bodyEnd # block
              /\ \A j \in 1..(k - 1) : frames[j].bodyEnd # frames[k].bodyEnd
        /\ \A b \in 1..Len(blocks) : \A k \in 1..(Len(blocks[b].code) - 1) :
              blocks[b].code[k].op \notin Terminators
    BY <1>1 DEF IInv, BlocksOpen
  <2>2. frames[n].bodyEnd = 0 /\ block # 1
    <3>1. frames[n].bodyEnd = 0 <=> at <= ContAt(frames[n])
      BY <1>2, HereFacts
    <3>2. ContAt(frames[n]) \in Nat
      BY <1>2, HereFacts
    <3>3. block # 1
      BY <1>1 DEF IInv, PhasesOK
    <3> QED
      BY <1>2, <3>1, <3>2, <3>3
  <2>3. \A b \in 1..Len(blocks) : Open(b)' <=> Open(b)
    BY <1>1 DEF Open
  <2>4. Open(next)
    BY <1>9, <2>1 DEF Open
  <2>5. ASSUME NEW b \in Laid'
        PROVE  Open(b)' <=> b = 1 \/ b = next \/ \E k \in 1..n : frames'[k].bodyEnd = b
    <3>1. CASE b = next
      BY <1>9, <2>3, <2>4, <3>1
    <3>2. CASE b # next
      <4>1. b \in Laid /\ b # 0
        BY <1>4, <1>9, <3>2
      <4>2. (\E k \in 1..n : frames'[k].bodyEnd = b) <=> b = block \/ \E k \in 1..n : frames[k].bodyEnd = b
        BY <1>2, <1>7, <2>2, <4>1
      <4> QED
        BY <1>4, <2>1, <2>3, <3>2, <4>1, <4>2
    <3> QED
      BY <3>1, <3>2
  <2>6. ASSUME NEW k \in 1..n, frames'[k].bodyEnd # 0
        PROVE  /\ frames'[k].bodyEnd \in Laid' \ {1, next}
               /\ \A j \in 1..(k - 1) : frames'[j].bodyEnd # frames'[k].bodyEnd
    <3>1. \A j \in 1..(k - 1) : j \in 1..n /\ j # n /\ frames'[j].bodyEnd = frames[j].bodyEnd
      BY <1>2, <1>7
    <3>2. CASE k = n
      <4>1. frames'[k].bodyEnd = block
        BY <1>7, <3>2
      <4> QED
        BY <1>4, <1>9, <2>1, <2>2, <3>1, <4>1
    <3>3. CASE k # n
      <4>1. frames'[k].bodyEnd = frames[k].bodyEnd
        BY <1>7, <3>3
      <4> QED
        BY <1>9, <2>1, <2>6, <3>1, <4>1
    <3> QED
      BY <3>2, <3>3
  <2>7. \A b \in 1..Len(blocks) : b \notin Laid' => blocks[b].code = << >>
    BY <1>9, <2>1
  <2>8. 1 \in Laid' /\ next \in Laid'
    BY <1>4, <1>9
  <2> QED
    BY <1>1, <1>5, <2>1, <2>5, <2>6, <2>7, <2>8 DEF BlocksOpen
<1>14. PassedHeld'
  <2> DEFINE loops == [k \in 1..n |-> frames[k].loop]
  <2>1. \A k \in 1..n : loops[k] = frames[k].loop
    OBVIOUS
  <2>2. \A k \in 1..n :
           LET f == frames[k]
               vs == Passed(f.loop)
           IN  /\ Len(blocks[f.body].params) = Len(vs)
               /\ \A m \in DOMAIN vs : current[vs[m]] \in 0..(fresh - 1) /\ f.atEnd[vs[m]] \in 0..(fresh - 1)
    BY DEF IInv, PassedHeld
  <2>3. ASSUME NEW k \in 1..n
        PROVE  HeldLater(frames'[k].body, Passed(frames[k].loop), frames'[k].atEnd)
    BY <1>1, <1>7, <2>2 DEF HeldLater
  <2> HIDE DEF loops
  <2>4. \A k \in 1..n : /\ frames'[k].loop = loops[k]
                        /\ HeldLater(frames'[k].body, Passed(loops[k]), frames'[k].atEnd)
    BY <1>7, <2>1, <2>3
  <2>5. Len(frames') = n /\ n \in Nat /\ prog' = prog
    BY <1>1, <1>2, <1>5
  <2> QED
    BY <2>4, <2>5, PassedLater
<1>15. JumpsFit' /\ JumpsInside'
  BY <1>1 DEF IInv, JumpsFit, JumpsInside
<1> QED
  BY <1>8, <1>9, <1>10, <1>11, <1>12, <1>13, <1>14, <1>15 DEF IInv

-----------------------------------------------------------------------------
\* A jump to a body passes what the variables are now.
JumpIs(i, b, vs) ==
    /\ i \in Instructions /\ i.op = "jmp" /\ Len(i.to) = 1 /\ i.to[1] = b
    /\ DOMAIN i.args = 1..Len(vs) /\ Len(i.args) = Len(vs)
    /\ \A m \in 1..Len(vs) : i.args[m] = current[vs[m]]

LEMMA JumpToFacts ==
    ASSUME IInv, pc = "lower", NEW l \in 1..Len(prog.code), prog.code[l].op = "loop", NEW b \in Nat
    PROVE  JumpIs(JumpTo(b, l), b, Passed(l))
<1> DEFINE vs == Passed(l)
           args == [k \in DOMAIN vs |-> current[vs[k]]]
           to == <<b>>
<1>1. /\ prog \in Programs /\ current \in [Var -> Int] /\ at \in Nat
  BY HereFacts DEF IInv, ContainersOK
<1>2. vs \in Seq(Var) /\ Len(vs) \in Nat /\ DOMAIN vs = 1..Len(vs) /\ \A m \in 1..Len(vs) : vs[m] \in Var
  BY <1>1, PassedFacts
<1> HIDE DEF vs
<1>3. args \in Seq(Int) /\ DOMAIN args = 1..Len(vs) /\ Len(args) = Len(vs)
      /\ \A m \in 1..Len(vs) : args[m] = current[vs[m]]
  BY <1>1, <1>2
<1>4. to \in Seq(Nat) /\ Len(to) = 1 /\ to[1] = b
  OBVIOUS
<1>5. JumpTo(b, l) = I("jmp", at, Null, None, args, to)
  BY DEF JumpTo, vs
<1> HIDE DEF args, to
<1>6. Made(JumpTo(b, l), "jmp", args, to)
  <2>1. "jmp" \in Op /\ Null \in Int /\ None \in Var \cup {None}
    BY DEF Op, Null
  <2> QED
    BY <1>1, <1>3, <1>4, <1>5, <2>1, InstructionIs
<1> QED
  BY <1>3, <1>4, <1>6 DEF Made, JumpIs, vs

LEMMA ReturnStep ==
    ASSUME IInv, LowerReturn
    PROVE  IInv'
<1> DEFINE n == Len(frames)
           next == Inner.ret
           l == Inner.loop
           vs == Passed(l)
           i == JumpTo(Inner.body, l)
           made == blocks'
<1>1. /\ pc = "lower" /\ pc' = pc /\ prog.code[at].op = "return" /\ at' = at + 1
      /\ where' = Append(where, current)
      /\ made = Emitted(blocks, block, <<i>>)
      /\ current' = [v \in Var |-> IF \E k \in DOMAIN vs : vs[k] = v THEN Inner.atEnd[v] ELSE current[v]]
      /\ block' = next
      /\ layout' = Append(layout, next)
      /\ UNCHANGED <<prog, params, frames, fresh>>
  BY DEF LowerReturn, Lower
<1>2. n \in Nat \ {0} /\ n \in 1..n /\ Inner = frames[n] /\ at = RetAt(Inner)
  BY <1>1, InnerFacts
<1>3. /\ at \in 1..Len(prog.code) /\ Len(prog.code) \in Nat /\ prog \in Programs
      /\ frames \in Seq(Frames) /\ current \in [Var -> Int] /\ at # Len(prog.code)
  <2>1. at \in 1..Len(prog.code) /\ Len(prog.code) \in Nat /\ prog \in Programs
    BY <1>1, HereFacts
  <2>2. at # Len(prog.code)
    BY <1>1, <2>1, StepFacts
  <2> QED
    BY <2>1, <2>2 DEF IInv, ContainersOK
<1>4. /\ blocks \in Seq(Blocks) /\ Len(blocks) \in Nat
      /\ block \in 1..Len(blocks) /\ block \in Laid /\ 1 \in Laid /\ Laid \subseteq 1..Len(blocks)
      /\ IsOpen(blocks[block].code)
      /\ fresh \in Nat
  BY <1>1, BlockFacts
<1>5. l \in 1..Len(prog.code) /\ prog.code[l].op = "loop" /\ Inner.body \in 1..Len(blocks)
      /\ Inner.body \in Nat /\ Inner.ret \in Nat
  <2>1. l \in 1..Len(prog.code) /\ prog.code[l].op = "loop"
    BY <1>2, HereFacts
  <2>2. Inner.body \in 1..Len(blocks)
    BY <1>2 DEF IInv, BlocksWait
  <2>3. Inner \in Frames
    BY <1>2, <1>3
  <2> QED
    BY <2>1, <2>2, <2>3 DEF Frames
<1>6. \A k \in 1..n :
         LET f == frames[k]
             ws == Passed(f.loop)
         IN  /\ Len(blocks[f.body].params) = Len(ws)
             /\ \A m \in DOMAIN ws : current[ws[m]] \in 0..(fresh - 1) /\ f.atEnd[ws[m]] \in 0..(fresh - 1)
  BY DEF IInv, PassedHeld
<1>7. Len(blocks[Inner.body].params) = Len(vs)
      /\ \A m \in DOMAIN vs : current[vs[m]] \in 0..(fresh - 1) /\ Inner.atEnd[vs[m]] \in 0..(fresh - 1)
  BY <1>2, <1>6
<1>8. vs \in Seq(Var) /\ DOMAIN vs = 1..Len(vs) /\ Len(vs) \in Nat
  <2> HIDE DEF l
  <2> QED
    BY <1>3, <1>5, PassedFacts
<1>9. /\ i \in Instructions /\ i.op \in Terminators /\ Fits(i, blocks, fresh)
  <2> DEFINE b == Inner.body
  <2>1. JumpIs(i, b, vs)
    <3>1. b \in Nat
      BY <1>5
    <3> HIDE DEF l, b
    <3>2. JumpIs(JumpTo(b, l), b, Passed(l))
      BY <1>1, <1>5, <3>1, JumpToFacts
    <3> QED
      BY <3>2 DEF b
  <2> HIDE DEF i, vs
  <2> QED
    BY <1>5, <1>7, <1>8, <2>1 DEF Fits, JumpIs, Terminators
<1> HIDE DEF i
<1>10. /\ made \in Seq(Blocks)
       /\ Len(made) = Len(blocks)
       /\ \A c \in 1..Len(blocks) : made[c].params = blocks[c].params
       /\ \A c \in 1..Len(blocks) : c # block => made[c] = blocks[c]
       /\ \A c \in 1..Len(blocks) : Middle(made[c].code)
       /\ ~IsOpen(made[block].code)
       /\ AllFit(made, fresh)
  <2> HIDE DEF made
  <2> QED
    BY <1>1, <1>4, <1>9, EndFacts
<1>11. JumpsFit' /\ JumpsInside'
  BY <1>1, <1>10, JumpsLater
<1>12. \A v \in Var : current'[v] = current[v] \/ current'[v] \in 0..(fresh - 1)
  <2> HIDE DEF vs
  <2> QED
    BY <1>1, <1>7
<1>13. \A v \in Var : current[v] \in 0..(fresh - 1) => current'[v] \in 0..(fresh - 1)
  BY <1>12
<1> HIDE DEF vs, l
<1>14. LoopsOpen' /\ \A k \in 1..n : ContAt(frames[k])' = ContAt(frames[k]) /\ RetAt(frames[k])' = RetAt(frames[k])
  <2>1. \A k \in 1..n : frames[k].bodyEnd = 0 <=> at <= ContAt(frames[k])
    BY HereFacts
  <2>2. \A k \in 1..n : at + 1 <= ContAt(frames[k]) <=> at <= ContAt(frames[k])
    BY <1>1, NextAhead
  <2>3. \A k \in 1..n : frames'[k].bodyEnd = 0 <=> at + 1 <= ContAt(frames[k])
    BY <1>1, <2>1, <2>2
  <2>4. Len(frames') = Len(frames) /\ \A k \in 1..n : frames'[k].loop = frames[k].loop
    BY <1>1
  <2> QED
    BY <1>1, <2>3, <2>4, LoopsKept
<1> HIDE DEF next
<1>15. /\ BlocksWait'
       /\ Laid' = Laid \cup {next} /\ next \notin Laid /\ next \in 1..Len(blocks)
  <2>1. prog.code[at].op = "return" /\ next = frames[n].ret /\ Len(blocks') = Len(blocks)
    BY <1>1, <1>2, <1>10 DEF next
  <2>2. Len(frames') = Len(frames)
    BY <1>1
  <2>3. \A k \in 1..n : /\ frames'[k].body = frames[k].body
                        /\ frames'[k].cont = frames[k].cont
                        /\ frames'[k].ret = frames[k].ret
    BY <1>1
  <2> QED
    BY <1>1, <1>2, <1>14, <2>1, <2>2, <2>3, BlocksTurn
<1>16. TypeOK'
  <2>1. 0 \in Nat /\ fresh' = fresh + 0
    BY <1>1, <1>4
  <2>2. at' \in 1..(Len(prog.code) + 1) /\ Len(where') = at' - 1
    BY <1>1, <2>1, CommonTypes
  <2>3. \A k \in DOMAIN layout' : layout'[k] \in 1..Len(blocks)
    BY <1>4, <1>15 DEF Laid
  <2>4. \A v \in Var : current'[v] \in {Null, Memory} \cup 0..(fresh - 1)
    BY <1>12 DEF IInv, TypeOK
  <2>5. \A k \in DOMAIN params : params[k] \in 0..(fresh - 1)
    BY DEF IInv, TypeOK
  <2>6. pc \in {"params", "lower", "lowered", "crashed"}
    BY <1>1
  <2> QED
    BY <1>1, <1>4, <1>10, <1>15, <2>2, <2>3, <2>4, <2>5, <2>6 DEF TypeOK
<1>17. ContainersOK'
  <2>1. where' \in Seq([Var -> Int])
    BY <1>1 DEF IInv, ContainersOK
  <2>2. current' \in [Var -> Int]
    <3>1. \A v \in Var : current'[v] \in Int
      BY <1>3, <1>4, <1>12
    <3>2. current' = [v \in Var |-> current'[v]]
      BY <1>1
    <3> QED
      BY <3>1, <3>2
  <2>3. \A w \in Var : InVreg(w)' => current'[w] # Memory
    <3>1. \A w \in Var : InVreg(w)' => current[w] # Memory
      BY <1>1 DEF InVreg, IInv, ContainersOK
    <3>2. Memory \notin 0..(fresh - 1)
      BY <1>4 DEF Memory
    <3> QED
      BY <1>12, <3>1, <3>2
  <2>4. layout' \in Seq(Nat)
    BY <1>1, <1>15 DEF IInv, ContainersOK
  <2>5. frames' \in Seq(Frames) /\ prog' \in Programs /\ params' \in Seq(Nat)
    BY <1>1 DEF IInv, ContainersOK
  <2> QED
    BY <1>10, <2>1, <2>2, <2>3, <2>4, <2>5 DEF ContainersOK, Blocks
<1>18. PhasesOK'
  <2>1. Len(blocks) > 1
    BY <1>1 DEF IInv, PhasesOK
  <2>2. at + 1 <= Len(prog.code)
    BY <1>3
  <2> QED
    BY <1>1, <1>4, <1>10, <1>15, <2>1, <2>2 DEF PhasesOK
<1>19. BlocksOpen'
  <2>1. /\ \A b \in Laid :
             Open(b) <=> b = 1 \/ b = block \/ \E k \in 1..n : frames[k].bodyEnd = b
        /\ \A b \in 1..Len(blocks) : b \notin Laid => blocks[b].code = << >>
        /\ \A k \in 1..n : frames[k].bodyEnd # 0 =>
              /\ frames[k].bodyEnd \in Laid /\ frames[k].bodyEnd # 1 /\ frames[k].bodyEnd # block
              /\ \A j \in 1..(k - 1) : frames[j].bodyEnd # frames[k].bodyEnd
    BY <1>1 DEF IInv, BlocksOpen
  <2>2. block # 1
    BY <1>1 DEF IInv, PhasesOK
  <2>3. \A b \in 1..Len(blocks) : (Open(b) <=> IsOpen(blocks[b].code)) /\ (Open(b)' <=> IsOpen(made[b].code))
    BY DEF Open, IsOpen
  <2>4. IsOpen(made[next].code) /\ next # block
    <3>1. next # block
      BY <1>4, <1>15
    <3> QED
      BY <1>10, <1>15, <2>1, <3>1 DEF IsOpen
  <2>5. ASSUME NEW b \in Laid'
        PROVE  Open(b)' <=> b = 1 \/ b = next \/ \E k \in 1..n : frames[k].bodyEnd = b
    <3>1. CASE b = next
      BY <1>15, <2>3, <2>4, <3>1
    <3>2. CASE b = block
      <4>1. ~Open(b)' /\ b # 0
        BY <1>4, <1>10, <2>3, <3>2
      <4> QED
        BY <2>1, <2>2, <2>4, <3>2, <4>1
    <3>3. CASE b # next /\ b # block
      <4>1. b \in Laid /\ (Open(b)' <=> Open(b))
        BY <1>4, <1>10, <1>15, <2>3, <3>3
      <4> QED
        BY <2>1, <3>3, <4>1
    <3> QED
      BY <3>1, <3>2, <3>3
  <2>6. \A k \in 1..n : frames[k].bodyEnd # 0 => frames[k].bodyEnd \in Laid' \ {1, next}
    BY <1>15, <2>1
  <2>7. \A b \in 1..Len(blocks) : b \notin Laid' => made[b].code = << >>
    BY <1>4, <1>10, <1>15, <2>1
  <2>8. 1 \in Laid' /\ next \in Laid'
    BY <1>4, <1>15
  <2>9. \A b \in 1..Len(blocks) : \A k \in 1..(Len(made[b].code) - 1) : made[b].code[k].op \notin Terminators
    BY <1>10 DEF Middle
  <2> QED
    BY <1>1, <1>10, <2>1, <2>5, <2>6, <2>7, <2>8, <2>9 DEF BlocksOpen
<1>20. PassedHeld'
  <2> DEFINE loops == [k \in 1..n |-> frames[k].loop]
  <2>1. \A k \in 1..n : loops[k] = frames[k].loop
    OBVIOUS
  <2>2. ASSUME NEW k \in 1..n
        PROVE  HeldLater(frames'[k].body, Passed(frames[k].loop), frames'[k].atEnd)
    <3> DEFINE f == frames[k]
               ws == Passed(f.loop)
    <3>1. f.loop \in 1..Len(prog.code) /\ prog.code[f.loop].op = "loop"
      BY HereFacts
    <3>2. \A m \in DOMAIN ws : ws[m] \in Var
      <4> DEFINE x == f.loop
      <4> HIDE DEF f, x
      <4>1. Passed(x) \in Seq(Var)
        BY <1>3, <3>1, PassedFacts DEF x
      <4> QED
        BY <4>1 DEF x
    <3>3. f.body \in 1..Len(blocks)
      BY DEF IInv, BlocksWait
    <3>4. Len(made[f.body].params) = Len(ws)
      BY <1>6, <1>10, <3>3
    <3>5. \A m \in DOMAIN ws : current'[ws[m]] \in 0..(fresh - 1) /\ f.atEnd[ws[m]] \in 0..(fresh - 1)
      BY <1>6, <1>13, <3>2
    <3> QED
      BY <1>1, <3>4, <3>5 DEF HeldLater
  <2> HIDE DEF loops
  <2>3. \A k \in 1..n : /\ frames'[k].loop = loops[k]
                        /\ HeldLater(frames'[k].body, Passed(loops[k]), frames'[k].atEnd)
    BY <1>1, <2>1, <2>2
  <2>4. Len(frames') = n /\ n \in Nat /\ prog' = prog
    BY <1>1, <1>2
  <2> QED
    BY <2>3, <2>4, PassedLater
<1> QED
  BY <1>11, <1>14, <1>15, <1>16, <1>17, <1>18, <1>19, <1>20 DEF IInv

-----------------------------------------------------------------------------
\* The innermost loop is left; its body gets its branch.
LEMMA EndStep ==
    ASSUME IInv, LowerEnd
    PROVE  IInv'
<1> DEFINE n == Len(frames)
           e == Inner.bodyEnd
           cont == Inner.loop + prog.code[Inner.loop].cont
           i == I("br", cont, Null, None, << >>, <<Inner.cont, Inner.ret>>)
           made == blocks'
<1>1. /\ pc = "lower" /\ pc' = pc /\ prog.code[at].op = "end" /\ at' = at + 1
      /\ where' = Append(where, current)
      /\ made = Emitted(blocks, e, <<i>>)
      /\ frames' = SubSeq(frames, 1, n - 1)
      /\ UNCHANGED <<prog, params, layout, block, current, fresh>>
  BY DEF LowerEnd, Lower
<1>2. n \in Nat \ {0} /\ n \in 1..n /\ Inner = frames[n] /\ at = EndAt(Inner)
  BY <1>1, InnerFacts
<1>3. /\ at \in 1..Len(prog.code) /\ Len(prog.code) \in Nat /\ prog \in Programs
      /\ frames \in Seq(Frames) /\ at # Len(prog.code)
  <2>1. at \in 1..Len(prog.code) /\ Len(prog.code) \in Nat /\ prog \in Programs
    BY <1>1, HereFacts
  <2>2. at # Len(prog.code)
    BY <1>1, <2>1, StepFacts
  <2> QED
    BY <2>1, <2>2 DEF IInv, ContainersOK
<1>4. /\ blocks \in Seq(Blocks) /\ Len(blocks) \in Nat
      /\ block \in 1..Len(blocks) /\ block \in Laid /\ 1 \in Laid /\ Laid \subseteq 1..Len(blocks)
      /\ fresh \in Nat
  BY <1>1, BlockFacts
<1>5. /\ frames' \in Seq(Frames) /\ Len(frames') = n - 1 /\ n - 1 \in Nat
      /\ \A k \in 1..(n - 1) : k \in 1..n /\ k # n /\ frames'[k] = frames[k]
  BY <1>1, <1>2, <1>3
<1>6. /\ ContAt(Inner) \in Nat /\ RetAt(Inner) \in Nat /\ EndAt(Inner) \in Nat
      /\ ContAt(Inner) < RetAt(Inner) /\ RetAt(Inner) < EndAt(Inner)
      /\ e = 0 <=> at <= ContAt(Inner)
  BY <1>2, HereFacts
<1>7. e # 0 /\ ~(at <= ContAt(Inner)) /\ ~(at <= RetAt(Inner))
  BY <1>2, <1>6
<1>8. \A k \in 1..n :
         LET f == frames[k]
         IN  /\ f.body \in 1..Len(blocks) /\ f.cont \in 1..Len(blocks) /\ f.ret \in 1..Len(blocks)
             /\ f.cont # f.ret
             /\ f.cont \notin Laid <=> at <= ContAt(f)
             /\ f.ret \notin Laid <=> at <= RetAt(f)
  BY DEF IInv, BlocksWait
<1>9. Inner.cont \in Laid /\ Inner.ret \in Laid /\ Inner.cont \in Nat /\ Inner.ret \in Nat
  <2>1. /\ Inner.cont \in 1..Len(blocks) /\ Inner.ret \in 1..Len(blocks)
        /\ Inner.cont \notin Laid <=> at <= ContAt(Inner)
        /\ Inner.ret \notin Laid <=> at <= RetAt(Inner)
    BY <1>2, <1>8
  <2> QED
    BY <1>7, <2>1
<1>10. /\ \A b \in Laid :
              Open(b) <=> b = 1 \/ b = block \/ \E k \in 1..n : frames[k].bodyEnd = b
       /\ \A b \in 1..Len(blocks) : b \notin Laid => blocks[b].code = << >>
       /\ \A k \in 1..n : frames[k].bodyEnd # 0 =>
             /\ frames[k].bodyEnd \in Laid /\ frames[k].bodyEnd # 1 /\ frames[k].bodyEnd # block
             /\ \A j \in 1..(k - 1) : frames[j].bodyEnd # frames[k].bodyEnd
  BY <1>1 DEF IInv, BlocksOpen
<1>11. /\ e \in Laid /\ e # 1 /\ e # block /\ e \in 1..Len(blocks)
       /\ \A j \in 1..(n - 1) : frames[j].bodyEnd # e
       /\ IsOpen(blocks[e].code)
  <2>1. /\ e \in Laid /\ e # 1 /\ e # block
        /\ \A j \in 1..(n - 1) : frames[j].bodyEnd # e
    BY <1>2, <1>7, <1>10
  <2>2. Open(e)
    BY <1>2, <1>10, <2>1
  <2> QED
    BY <1>4, <2>1, <2>2 DEF Open, IsOpen
<1>12. i \in Instructions /\ i.op \in Terminators /\ Fits(i, blocks, fresh)
  <2> DEFINE to == <<Inner.cont, Inner.ret>>
  <2>1. cont \in Nat
    BY <1>6 DEF ContAt
  <2>2. to \in Seq(Nat)
    BY <1>9
  <2>3. "br" \in Op /\ Null \in Int /\ None \in Var \cup {None} /\ << >> \in Seq(Int)
    BY DEF Op, Null
  <2> DEFINE br == I("br", cont, Null, None, << >>, to)
  <2>4. Made(br, "br", << >>, to)
    <3> HIDE DEF to, cont
    <3> QED
      BY <2>1, <2>2, <2>3, InstructionIs
  <2>5. Made(i, "br", << >>, to)
    BY <2>4
  <2> HIDE DEF i
  <2> QED
    BY <2>5 DEF Made, Fits, Terminators
<1> HIDE DEF i
<1>13. /\ made \in Seq(Blocks)
       /\ Len(made) = Len(blocks)
       /\ \A c \in 1..Len(blocks) : made[c].params = blocks[c].params
       /\ \A c \in 1..Len(blocks) : c # e => made[c] = blocks[c]
       /\ \A c \in 1..Len(blocks) : Middle(made[c].code)
       /\ ~IsOpen(made[e].code)
       /\ AllFit(made, fresh)
  <2> HIDE DEF made, e
  <2> QED
    BY <1>1, <1>11, <1>12, EndFacts
<1> HIDE DEF e
<1>14. JumpsFit' /\ JumpsInside'
  BY <1>1, <1>13, JumpsLater
<1>15. TypeOK'
  <2>1. 0 \in Nat /\ fresh' = fresh + 0
    BY <1>1, <1>4
  <2>2. at' \in 1..(Len(prog.code) + 1) /\ Len(where') = at' - 1
    BY <1>1, <2>1, CommonTypes
  <2> QED
    BY <1>1, <1>13, <2>2 DEF IInv, TypeOK
<1>16. ContainersOK'
  <2>1. where' \in Seq([Var -> Int])
    BY <1>1 DEF IInv, ContainersOK
  <2>2. \A w \in Var : InVreg(w)' => current'[w] # Memory
    BY <1>1 DEF InVreg, IInv, ContainersOK
  <2> QED
    BY <1>1, <1>5, <1>13, <2>1, <2>2 DEF IInv, ContainersOK, Blocks
<1>17. PhasesOK'
  <2>1. Len(blocks) > 1 /\ block # 1
    BY <1>1 DEF IInv, PhasesOK
  <2>2. at + 1 <= Len(prog.code)
    BY <1>3
  <2> QED
    BY <1>1, <1>13, <2>1, <2>2 DEF PhasesOK
<1>18. \A k \in 1..(n - 1) :
          /\ at + 1 <= ContAt(frames[k]) <=> at <= ContAt(frames[k])
          /\ at + 1 <= RetAt(frames[k]) <=> at <= RetAt(frames[k])
          /\ at + 1 <= EndAt(frames[k])
  BY <1>1, <1>5, NextAhead
<1>19. \A k \in 1..(n - 1) :
          /\ ContAt(frames[k])' = ContAt(frames[k])
          /\ RetAt(frames[k])' = RetAt(frames[k])
          /\ EndAt(frames[k])' = EndAt(frames[k])
  <2>1. \A k \in 1..(n - 1) : frames'[k].loop = frames[k].loop
    BY <1>5
  <2> QED
    BY <1>1, <2>1 DEF ContAt, RetAt, EndAt
<1>20. LoopsOpen'
  <2>1. ASSUME NEW k \in 1..(n - 1)
        PROVE  LET f == frames'[k]
               IN  /\ f.loop \in 1..at /\ prog.code[f.loop].op = "loop"
                   /\ f.bodyEnd = 0 <=> at + 1 <= ContAt(frames[k])
    <3>1. /\ frames[k].loop \in 1..Len(prog.code) /\ frames[k].loop < at /\ prog.code[frames[k].loop].op = "loop"
          /\ frames[k].bodyEnd = 0 <=> at <= ContAt(frames[k])
      BY <1>5, HereFacts
    <3>2. frames'[k] = frames[k]
      BY <1>5
    <3> QED
      BY <1>3, <1>18, <3>1, <3>2
  <2>2. \A k \in 1..(n - 1) : \A j \in 1..(k - 1) : frames'[j].loop < frames'[k].loop
    <3>1. \A k \in 1..n : \A j \in 1..(k - 1) : frames[j].loop < frames[k].loop
      BY DEF IInv, LoopsOpen
    <3>2. \A k \in 1..(n - 1) : \A j \in 1..(k - 1) : j \in 1..(n - 1)
      BY <1>2
    <3> QED
      BY <1>5, <3>1, <3>2
  <2>3. ASSUME NEW l \in 1..at, prog.code[l].op = "loop", at + 1 <= l + prog.code[l].end
        PROVE  \E k \in 1..(n - 1) : frames'[k].loop = l
    <3>1. l \in 1..(at - 1)
      BY <1>1, <1>3, <2>3
    <3>2. prog.code[l].end \in Nat
      <4>1. l \in 1..Len(prog.code)
        BY <1>3
      <4> QED
        BY <1>3, <2>3, <4>1, LoopFacts
    <3>3. at <= l + prog.code[l].end /\ at # l + prog.code[l].end
      BY <1>3, <2>3, <3>2
    <3>4. PICK k \in 1..n : frames[k].loop = l
      BY <1>1, <2>3, <3>1, <3>3 DEF IInv, LoopsOpen
    <3>5. k # n
      BY <1>2, <3>3, <3>4 DEF EndAt
    <3>6. k \in 1..(n - 1)
      BY <1>2, <3>5
    <3> QED
      BY <1>5, <3>4, <3>6
  <2>4. at' - 1 = at
    BY <1>1, <1>3
  <2> QED
    BY <1>1, <1>5, <1>18, <1>19, <2>1, <2>2, <2>3, <2>4 DEF LoopsOpen
<1>21. Laid' = Laid
  BY <1>1 DEF Laid
<1>22. BlocksWait'
  <2>1. (\A k \in 1..Len(frames) :
           LET f == frames[k]
           IN  /\ f.body \in 1..Len(blocks) /\ f.cont \in 1..Len(blocks) /\ f.ret \in 1..Len(blocks)
               /\ f.cont # f.ret
               /\ f.cont \notin Laid <=> at <= ContAt(f)
               /\ f.ret \notin Laid <=> at <= RetAt(f))'
    <3>1. ASSUME NEW k \in 1..(n - 1)
          PROVE  LET f == frames'[k]
                 IN  /\ f.body \in 1..Len(blocks) /\ f.cont \in 1..Len(blocks) /\ f.ret \in 1..Len(blocks)
                     /\ f.cont # f.ret
                     /\ f.cont \notin Laid <=> at + 1 <= ContAt(frames[k])
                     /\ f.ret \notin Laid <=> at + 1 <= RetAt(frames[k])
      <4>1. k \in 1..n /\ frames'[k] = frames[k]
        BY <1>5
      <4> QED
        BY <1>8, <1>18, <4>1
    <3>2. Len(frames') = n - 1 /\ Len(made) = Len(blocks) /\ at' = at + 1
      BY <1>1, <1>5, <1>13
    <3> QED
      BY <1>19, <1>21, <3>1, <3>2
  <2>2. (\A k \in 1..Len(frames) : \A j \in 1..(k - 1) :
           {frames[j].cont, frames[j].ret} \cap {frames[k].cont, frames[k].ret} = {})'
    <3>1. \A k \in 1..n : \A j \in 1..(k - 1) :
             {frames[j].cont, frames[j].ret} \cap {frames[k].cont, frames[k].ret} = {}
      BY DEF IInv, BlocksWait
    <3>2. \A k \in 1..(n - 1) : \A j \in 1..(k - 1) : j \in 1..(n - 1)
      BY <1>2
    <3>3. \A k \in 1..(n - 1) : \A j \in 1..(k - 1) : frames'[j] = frames[j] /\ frames'[k] = frames[k] /\ k \in 1..n
      BY <1>5, <3>2
    <3>4. Len(frames') = n - 1
      BY <1>5
    <3> QED
      BY <3>1, <3>3, <3>4
  <2>3. (\A b \in 1..Len(blocks) : b \notin Laid =>
           \E k \in 1..Len(frames) : b \in {frames[k].cont, frames[k].ret})'
    <3>1. ASSUME NEW b \in 1..Len(blocks), b \notin Laid
          PROVE  \E k \in 1..(n - 1) : b \in {frames'[k].cont, frames'[k].ret}
      <4>1. PICK k \in 1..n : b \in {frames[k].cont, frames[k].ret}
        BY <3>1 DEF IInv, BlocksWait
      <4>2. k # n
        BY <1>2, <1>9, <3>1, <4>1
      <4>3. k \in 1..(n - 1)
        BY <1>2, <4>2
      <4> QED
        BY <1>5, <4>1, <4>3
    <3>2. Len(frames') = n - 1 /\ Len(made) = Len(blocks)
      BY <1>5, <1>13
    <3> QED
      BY <1>21, <3>1, <3>2
  <2>4. (\A j, k \in DOMAIN layout : layout[j] = layout[k] => j = k)'
    BY <1>1 DEF IInv, BlocksWait
  <2> QED
    BY <2>1, <2>2, <2>3, <2>4 DEF BlocksWait
<1>23. BlocksOpen'
  <2>1. \A b \in 1..Len(blocks) : (Open(b) <=> IsOpen(blocks[b].code)) /\ (Open(b)' <=> IsOpen(made[b].code))
    BY DEF Open, IsOpen
  <2>2. ASSUME NEW b \in Laid
        PROVE  Open(b)' <=> b = 1 \/ b = block \/ \E k \in 1..(n - 1) : frames'[k].bodyEnd = b
    <3>1. CASE b = e
      BY <1>4, <1>5, <1>11, <1>13, <2>1, <3>1
    <3>2. CASE b # e
      <4>1. Open(b)' <=> Open(b)
        BY <1>4, <1>13, <2>1, <3>2
      <4>2. (\E k \in 1..n : frames[k].bodyEnd = b) <=> \E k \in 1..(n - 1) : frames'[k].bodyEnd = b
        <5>1. \A k \in 1..n : k = n \/ k \in 1..(n - 1)
          BY <1>2
        <5>2. frames[n].bodyEnd # b
          BY <1>2, <3>2 DEF e
        <5> QED
          BY <1>5, <5>1, <5>2
      <4> QED
        BY <1>10, <4>1, <4>2
    <3> QED
      BY <3>1, <3>2
  <2>3. \A b \in 1..Len(blocks) : b \notin Laid => made[b].code = << >>
    BY <1>10, <1>11, <1>13
  <2>4. ASSUME NEW k \in 1..(n - 1), frames'[k].bodyEnd # 0
        PROVE  /\ frames'[k].bodyEnd \in Laid \ {1, block}
               /\ \A j \in 1..(k - 1) : frames'[j].bodyEnd # frames'[k].bodyEnd
    <3>1. \A j \in 1..(k - 1) : j \in 1..(n - 1)
      BY <1>2
    <3> QED
      BY <1>5, <1>10, <2>4, <3>1
  <2>5. \A b \in 1..Len(blocks) : \A k \in 1..(Len(made[b].code) - 1) : made[b].code[k].op \notin Terminators
    BY <1>13 DEF Middle
  <2> QED
    BY <1>1, <1>4, <1>5, <1>13, <1>21, <2>2, <2>3, <2>4, <2>5 DEF BlocksOpen
<1>24. PassedHeld'
  <2> DEFINE loops == [k \in 1..(n - 1) |-> frames[k].loop]
  <2>1. \A k \in 1..(n - 1) : frames'[k].loop = frames[k].loop
    BY <1>5
  <2>2. \A k \in 1..(n - 1) : loops[k] = frames[k].loop
    OBVIOUS
  <2>3. ASSUME NEW k \in 1..(n - 1)
        PROVE  HeldLater(frames'[k].body, Passed(frames[k].loop), frames'[k].atEnd)
    <3>1. k \in 1..n /\ frames'[k] = frames[k]
      BY <1>5
    <3>2. LET f == frames[k]
              vs == Passed(f.loop)
          IN  /\ Len(blocks[f.body].params) = Len(vs)
              /\ \A m \in DOMAIN vs : current[vs[m]] \in 0..(fresh - 1) /\ f.atEnd[vs[m]] \in 0..(fresh - 1)
      BY <3>1 DEF IInv, PassedHeld
    <3>3. frames[k].body \in 1..Len(blocks)
      BY <1>8, <3>1
    <3>4. made[frames[k].body].params = blocks[frames[k].body].params
      BY <1>13, <3>3
    <3> QED
      BY <1>1, <3>1, <3>2, <3>4 DEF HeldLater
  <2> HIDE DEF loops
  <2>4. \A k \in 1..(n - 1) : /\ frames'[k].loop = loops[k]
                              /\ HeldLater(frames'[k].body, Passed(loops[k]), frames'[k].atEnd)
    BY <2>1, <2>2, <2>3
  <2>5. Len(frames') = n - 1 /\ n - 1 \in Nat /\ prog' = prog
    BY <1>1, <1>5
  <2> QED
    BY <2>4, <2>5, PassedLater
<1> QED
  BY <1>14, <1>15, <1>16, <1>17, <1>20, <1>22, <1>23, <1>24 DEF IInv

-----------------------------------------------------------------------------
\* What a loop passes on is in vregs, before its body and in it.
LoopPasses(vs) ==
    /\ vs \in Seq(Var) /\ Len(vs) \in Nat /\ fresh' = fresh + Len(vs)
    /\ \A m \in 1..Len(vs) : current[vs[m]] \in 0..(fresh - 1)
    /\ \A v \in Var : current'[v] = current[v] \/ current'[v] \in 0..(fresh' - 1)
    /\ \A m \in 1..Len(vs) : current'[vs[m]] \in 0..(fresh' - 1)
    /\ current' \in [Var -> Int]

LEMMA LoopPassesFacts ==
    ASSUME IInv, LowerLoop
    PROVE  LoopPasses(Passed(at))
<1> DEFINE vs == Passed(at)
           parameters == [k \in DOMAIN vs |-> fresh + k - 1]
<1>1. /\ pc = "lower" /\ prog.code[at].op = "loop" /\ ~LoopCrashes(at)
      /\ fresh' = fresh + Len(vs)
      /\ current' = [v \in Var |-> IF \E k \in DOMAIN vs : vs[k] = v
                                   THEN parameters[CHOOSE k \in DOMAIN vs : vs[k] = v] ELSE current[v]]
  BY DEF LowerLoop, Lower
<1>2. /\ at \in 1..Len(prog.code) /\ prog \in Programs /\ fresh \in Nat
      /\ current \in [Var -> Int]
      /\ \A v \in Var : current[v] \in {Null, Memory} \cup 0..(fresh - 1)
      /\ \A v \in Var : InVreg(v) => current[v] # Memory
  BY <1>1, HereFacts DEF IInv, TypeOK, ContainersOK
<1>3. /\ vs \in Seq(Var) /\ Len(vs) \in Nat /\ DOMAIN vs = 1..Len(vs)
      /\ \A m \in 1..Len(vs) :
            vs[m] \in Var /\ InVreg(vs[m]) /\ \E k \in DOMAIN Mutated(at) : Mutated(at)[k] = vs[m]
  BY <1>1, <1>2, PassedFacts
<1>4. \A m \in 1..Len(vs) : current[vs[m]] # Null
  BY <1>1, <1>3 DEF LoopCrashes
<1> HIDE DEF vs
<1>5. \A m \in 1..Len(vs) : current[vs[m]] \in 0..(fresh - 1)
  BY <1>2, <1>3, <1>4
<1>6. \A m \in 1..Len(vs) : parameters[m] \in 0..(fresh' - 1) /\ parameters[m] \in Int
  BY <1>1, <1>2, <1>3
<1> HIDE DEF parameters
<1>7. ASSUME NEW v \in Var, \E k \in DOMAIN vs : vs[k] = v
      PROVE  current'[v] \in 0..(fresh' - 1)
  <2> DEFINE k == CHOOSE k \in DOMAIN vs : vs[k] = v
  <2>1. k \in 1..Len(vs)
    BY <1>3, <1>7
  <2>2. current'[v] = parameters[k]
    BY <1>1, <1>7
  <2> QED
    BY <1>6, <2>1, <2>2
<1>8. ASSUME NEW v \in Var, ~ \E k \in DOMAIN vs : vs[k] = v
      PROVE  current'[v] = current[v]
  BY <1>1, <1>8
<1>9. \A v \in Var : current'[v] = current[v] \/ current'[v] \in 0..(fresh' - 1)
  BY <1>7, <1>8
<1>10. \A m \in 1..Len(vs) : current'[vs[m]] \in 0..(fresh' - 1)
  BY <1>3, <1>7
<1>11. current' \in [Var -> Int]
  <2>1. \A v \in Var : current'[v] \in Int
    <3>1. \A v \in Var : current[v] \in Int
      BY <1>2
    <3>2. 0..(fresh' - 1) \subseteq Int
      OBVIOUS
    <3> QED
      BY <1>9, <3>1, <3>2
  <2>2. current' = [v \in Var |-> current'[v]]
    BY <1>1
  <2> QED
    BY <2>1, <2>2
<1> QED
  BY <1>1, <1>3, <1>5, <1>9, <1>10, <1>11 DEF LoopPasses, vs

\* The block before a loop is closed, and the three blocks of the loop are there.
LoopMakes(n, vs) ==
    /\ blocks' \in Seq(Blocks) /\ Len(blocks') = n + 3
    /\ \A c \in 1..n : blocks'[c].params = blocks[c].params
    /\ \A c \in 1..n : c # block => blocks'[c] = blocks[c]
    /\ ~IsOpen(blocks'[block].code)
    /\ \A c \in 1..(n + 3) : Middle(blocks'[c].code)
    /\ Len(blocks'[n + 1].params) = Len(vs)
    /\ \A c \in (n + 1)..(n + 3) : blocks'[c].code = << >>
    /\ AllFit(blocks', fresh')

\* Three blocks behind others.
LEMMA ThreeMore ==
    ASSUME NEW bs \in Seq(Blocks), NEW a \in Blocks, NEW b \in Blocks, NEW c \in Blocks
    PROVE  LET all == bs \o <<a, b, c>>
           IN  /\ all \in Seq(Blocks) /\ Len(all) = Len(bs) + 3
               /\ \A k \in 1..Len(bs) : all[k] = bs[k]
               /\ all[Len(bs) + 1] = a /\ all[Len(bs) + 2] = b /\ all[Len(bs) + 3] = c
<1> DEFINE three == <<a, b, c>>
<1>1. three \in Seq(Blocks) /\ Len(three) = 3 /\ three[1] = a /\ three[2] = b /\ three[3] = c
  OBVIOUS
<1> HIDE DEF three
<1>2. Len(bs) \in Nat
  OBVIOUS
<1> DEFINE all == bs \o three
<1>3. /\ all \in Seq(Blocks) /\ Len(all) = Len(bs) + Len(three)
      /\ \A k \in 1..(Len(bs) + Len(three)) : all[k] = IF k <= Len(bs) THEN bs[k] ELSE three[k - Len(bs)]
  BY <1>1, ConcatProperties
<1> HIDE DEF all
<1>4. \A k \in 1..Len(bs) : all[k] = bs[k]
  BY <1>1, <1>2, <1>3
<1>5. /\ all[Len(bs) + 1] = three[1]
      /\ all[Len(bs) + 2] = three[2]
      /\ all[Len(bs) + 3] = three[3]
  <2>1. ASSUME NEW m \in 1..3 PROVE all[Len(bs) + m] = three[m]
    <3>1. /\ Len(bs) + m \in 1..(Len(bs) + Len(three))
          /\ ~(Len(bs) + m <= Len(bs))
          /\ (Len(bs) + m) - Len(bs) = m
      BY <1>1, <1>2
    <3>2. all[Len(bs) + m] = three[(Len(bs) + m) - Len(bs)]
      BY <1>3, <3>1
    <3> QED
      BY <3>1, <3>2
  <2> QED
    BY <2>1
<1>6. /\ all \in Seq(Blocks) /\ Len(all) = Len(bs) + 3
      /\ \A k \in 1..Len(bs) : all[k] = bs[k]
      /\ all[Len(bs) + 1] = a /\ all[Len(bs) + 2] = b /\ all[Len(bs) + 3] = c
  BY <1>1, <1>3, <1>4, <1>5
<1> QED
  BY <1>6 DEF all, three

\* What the blocks are when a loop begins.
LEMMA LoopBlocks ==
    ASSUME IInv, LowerLoop
    PROVE  LoopMakes(Len(blocks), Passed(at))
<1> DEFINE n == Len(blocks)
           vs == Passed(at)
           b == n + 1
           i == JumpTo(b, at)
           is == <<i>>
           first == Emitted(blocks, block, is)
           parameters == [k \in DOMAIN vs |-> fresh + k - 1]
           body == [params |-> parameters, code |-> << >>]
<1>1. /\ pc = "lower" /\ prog.code[at].op = "loop"
      /\ blocks' = first \o <<body, NewBlock, NewBlock>>
  BY DEF LowerLoop, Lower
<1>2. LoopPasses(vs)
  BY LoopPassesFacts
<1>3. at \in 1..Len(prog.code) /\ prog \in Programs
  BY <1>1, HereFacts
<1>4. /\ blocks \in Seq(Blocks) /\ n \in Nat /\ block \in 1..n /\ IsOpen(blocks[block].code)
      /\ \A c \in 1..n : Middle(blocks[c].code)
      /\ fresh \in Nat /\ AllFit(blocks, fresh)
  BY <1>1, BlockFacts
<1>5. JumpIs(i, b, vs)
  <2>1. b \in Nat
    BY <1>4
  <2> HIDE DEF b
  <2>2. JumpIs(JumpTo(b, at), b, Passed(at))
    BY <1>1, <1>3, <2>1, JumpToFacts
  <2> QED
    BY <2>2
<1> HIDE DEF i
<1>6. is \in Seq(Instructions) /\ is # << >> /\ Len(is) = 1 /\ is[1] = i /\ i.op = "jmp"
  BY <1>5 DEF JumpIs
<1> HIDE DEF is
<1>7. Middle(is) /\ ~IsOpen(is)
  BY <1>6 DEF Middle, IsOpen, Terminators
<1>8. Grown(blocks, block, is, first)
  BY <1>4, <1>6, <1>7, EmitKeeps
<1> HIDE DEF first
<1>9. vs \in Seq(Var) /\ Len(vs) \in Nat /\ DOMAIN vs = 1..Len(vs) /\ fresh' = fresh + Len(vs)
      /\ \A m \in 1..Len(vs) : current[vs[m]] \in 0..(fresh - 1)
  BY <1>2 DEF LoopPasses
<1> HIDE DEF vs
<1>10. parameters \in Seq(Nat) /\ Len(parameters) = Len(vs)
  <2>1. \A m \in 1..Len(vs) : fresh + m - 1 \in Nat
    BY <1>4, <1>9
  <2> QED
    BY <1>9, <2>1
<1> HIDE DEF parameters
<1>11. /\ body \in Blocks /\ NewBlock \in Blocks
       /\ body.code = << >> /\ NewBlock.code = << >> /\ body.params = parameters
  BY <1>10 DEF Blocks, NewBlock
<1> HIDE DEF body
<1>12. /\ first \in Seq(Blocks) /\ Len(first) = n
       /\ \A c \in 1..n : c # block => first[c] = blocks[c]
       /\ \A c \in 1..n : first[c].params = blocks[c].params
       /\ ~IsOpen(first[block].code)
       /\ \A c \in 1..n : Middle(first[c].code)
       /\ \A c \in 1..n : \A k \in 1..Len(first[c].code) :
             \/ \E j \in 1..Len(blocks[c].code) : first[c].code[k] = blocks[c].code[j]
             \/ c = block /\ \E j \in 1..Len(is) : first[c].code[k] = is[j]
  BY <1>7, <1>8 DEF Grown
<1>13. /\ blocks' \in Seq(Blocks) /\ Len(blocks') = n + 3
       /\ \A k \in 1..n : blocks'[k] = first[k]
       /\ blocks'[n + 1] = body /\ blocks'[n + 2] = NewBlock /\ blocks'[n + 3] = NewBlock
  <2>1. /\ first \o <<body, NewBlock, NewBlock>> \in Seq(Blocks)
        /\ Len(first \o <<body, NewBlock, NewBlock>>) = Len(first) + 3
        /\ \A k \in 1..Len(first) : (first \o <<body, NewBlock, NewBlock>>)[k] = first[k]
        /\ (first \o <<body, NewBlock, NewBlock>>)[Len(first) + 1] = body
        /\ (first \o <<body, NewBlock, NewBlock>>)[Len(first) + 2] = NewBlock
        /\ (first \o <<body, NewBlock, NewBlock>>)[Len(first) + 3] = NewBlock
    BY <1>11, <1>12, ThreeMore
  <2> QED
    BY <1>1, <1>12, <2>1
<1> DEFINE made == blocks'
<1> HIDE DEF made
<1>14. \A c \in (n + 1)..(n + 3) : made[c].code = << >>
  <2>1. \A c \in (n + 1)..(n + 3) : c = n + 1 \/ c = n + 2 \/ c = n + 3
    BY <1>4
  <2> QED
    BY <1>11, <1>13, <2>1 DEF made
<1>15. \A c \in 1..(n + 3) : c \in 1..n \/ c \in (n + 1)..(n + 3)
  BY <1>4
<1>16. \A c \in 1..(n + 3) : Middle(made[c].code)
  <2>1. \A c \in (n + 1)..(n + 3) : Middle(made[c].code)
    BY <1>14 DEF Middle
  <2> QED
    BY <1>12, <1>13, <1>15, <2>1 DEF made
<1>17. AllFit(made, fresh')
  <2>1. fresh' \in Nat /\ fresh <= fresh' /\ Len(made) >= Len(blocks) /\ b \in 1..Len(made)
    BY <1>4, <1>9, <1>13 DEF made
  <2>2. \A c \in 1..Len(blocks) : made[c].params = blocks[c].params
    BY <1>12, <1>13 DEF made
  <2>3. Fits(i, made, fresh')
    <3>1. Len(made[b].params) = Len(vs)
      BY <1>10, <1>11, <1>13 DEF made
    <3>2. \A m \in 1..Len(vs) : current[vs[m]] \in 0..(fresh' - 1)
      BY <1>4, <1>9
    <3> HIDE DEF b
    <3> QED
      BY <1>5, <2>1, <3>1, <3>2 DEF JumpIs, Fits
  <2>4. \A j \in 1..Len(is) : is[j] = i
    BY <1>6
  <2>5. ASSUME NEW c \in 1..Len(made), NEW k \in 1..Len(made[c].code)
        PROVE  \/ c \in 1..Len(blocks) /\ \E j \in 1..Len(blocks[c].code) : made[c].code[k] = blocks[c].code[j]
               \/ Fits(made[c].code[k], made, fresh')
    <3>1. CASE c \in 1..n
      <4>1. made[c] = first[c]
        BY <1>13, <3>1 DEF made
      <4>2. \/ \E j \in 1..Len(blocks[c].code) : first[c].code[k] = blocks[c].code[j]
            \/ \E j \in 1..Len(is) : first[c].code[k] = is[j]
        <5>1. k \in 1..Len(first[c].code)
          BY <4>1
        <5> QED
          BY <1>12, <3>1, <5>1
      <4>3. CASE \E j \in 1..Len(is) : first[c].code[k] = is[j]
        BY <2>3, <2>4, <4>1, <4>3
      <4> QED
        BY <3>1, <4>1, <4>2, <4>3
    <3>2. CASE c \in (n + 1)..(n + 3)
      <4>1. made[c].code = << >>
        BY <1>14, <3>2
      <4> QED
        BY <4>1
    <3> QED
      BY <1>13, <1>15, <3>1, <3>2 DEF made
  <2>6. made \in Seq(Blocks)
    BY <1>13 DEF made
  <2> QED
    BY <1>4, <2>1, <2>2, <2>5, <2>6, AllFitLater
<1>18. \A c \in 1..n : made[c].params = blocks[c].params /\ (c # block => made[c] = blocks[c])
  BY <1>12, <1>13 DEF made
<1>19. ~IsOpen(made[block].code) /\ Len(made[n + 1].params) = Len(vs)
  BY <1>4, <1>10, <1>11, <1>12, <1>13 DEF made
<1> QED
  BY <1>13, <1>14, <1>16, <1>17, <1>18, <1>19 DEF LoopMakes, made, vs

\* The frame of the loop that begins, and the steps of all loops around what follows.
LoopFrame(m, n) ==
    /\ frames' \in Seq(Frames) /\ Len(frames') = m + 1
    /\ \A k \in 1..m : frames'[k] = frames[k]
    /\ frames'[m + 1].loop = at /\ frames'[m + 1].bodyEnd = 0 /\ frames'[m + 1].atEnd = current
    /\ frames'[m + 1].body = n + 1 /\ frames'[m + 1].cont = n + 2 /\ frames'[m + 1].ret = n + 3
    /\ \A k \in 1..(m + 1) :
          /\ ContAt(frames[k])' \in Nat /\ RetAt(frames[k])' \in Nat
          /\ at + 1 <= EndAt(frames[k])'
    /\ at + 1 <= ContAt(frames[m + 1])' /\ at + 1 <= RetAt(frames[m + 1])'
    /\ \A k \in 1..m :
          /\ at + 1 <= ContAt(frames[k])' <=> at <= ContAt(frames[k])
          /\ at + 1 <= RetAt(frames[k])' <=> at <= RetAt(frames[k])

LEMMA LoopFrameFacts ==
    ASSUME IInv, LowerLoop, NEW m, m = Len(frames), NEW n, n = Len(blocks)
    PROVE  LoopFrame(m, n)
<1> DEFINE new == [loop |-> at, body |-> n + 1, cont |-> n + 2, ret |-> n + 3,
                   bodyEnd |-> 0, atEnd |-> current]
           t == prog.code[at]
<1>1. /\ pc = "lower" /\ prog.code[at].op = "loop" /\ prog' = prog
      /\ frames' = Append(frames, new)
  BY DEF LowerLoop, Lower
<1>2. /\ at \in 1..Len(prog.code) /\ prog \in Programs /\ m \in Nat /\ n \in Nat
      /\ frames \in Seq(Frames) /\ current \in [Var -> Int]
  BY <1>1, HereFacts, BlockFacts DEF IInv, ContainersOK
<1>3. t.cont \in Nat \ {0} /\ t.ret \in Nat /\ t.end \in Nat /\ t.cont < t.ret /\ t.ret < t.end
  BY <1>1, <1>2, LoopFacts
<1>4. new \in Frames
  BY <1>2 DEF Frames
<1>5. /\ new.loop = at /\ new.bodyEnd = 0 /\ new.atEnd = current
      /\ new.body = n + 1 /\ new.cont = n + 2 /\ new.ret = n + 3
  OBVIOUS
<1> HIDE DEF new
<1>6. /\ frames' \in Seq(Frames) /\ Len(frames') = m + 1
      /\ \A k \in 1..m : frames'[k] = frames[k]
      /\ frames'[m + 1] = new
  BY <1>1, <1>2, <1>4, AppendProperties
<1>7. \A k \in 1..m : /\ ContAt(frames[k])' = ContAt(frames[k])
                      /\ RetAt(frames[k])' = RetAt(frames[k])
                      /\ EndAt(frames[k])' = EndAt(frames[k])
  BY <1>1, <1>6 DEF ContAt, RetAt, EndAt
<1>8. /\ ContAt(frames[m + 1])' = at + t.cont
      /\ RetAt(frames[m + 1])' = at + t.ret
      /\ EndAt(frames[m + 1])' = at + t.end
  BY <1>1, <1>5, <1>6 DEF ContAt, RetAt, EndAt
<1>9. \A k \in 1..m :
         /\ at + 1 <= ContAt(frames[k]) <=> at <= ContAt(frames[k])
         /\ at + 1 <= RetAt(frames[k]) <=> at <= RetAt(frames[k])
         /\ at + 1 <= EndAt(frames[k])
         /\ ContAt(frames[k]) \in Nat /\ RetAt(frames[k]) \in Nat
  BY <1>1, NextAhead, HereFacts
<1>10. /\ at + t.cont \in Nat /\ at + t.ret \in Nat
       /\ at + 1 <= at + t.cont /\ at + 1 <= at + t.ret /\ at + 1 <= at + t.end
  BY <1>2, <1>3
<1>11. ASSUME NEW k \in 1..(m + 1)
       PROVE  /\ ContAt(frames[k])' \in Nat /\ RetAt(frames[k])' \in Nat
              /\ at + 1 <= EndAt(frames[k])'
  <2>1. CASE k \in 1..m
    BY <1>7, <1>9, <2>1
  <2>2. CASE k = m + 1
    BY <1>8, <1>10, <2>2
  <2> QED
    BY <1>2, <2>1, <2>2
<1>12. at + 1 <= ContAt(frames[m + 1])' /\ at + 1 <= RetAt(frames[m + 1])'
  BY <1>8, <1>10
<1>13. \A k \in 1..m :
          /\ at + 1 <= ContAt(frames[k])' <=> at <= ContAt(frames[k])
          /\ at + 1 <= RetAt(frames[k])' <=> at <= RetAt(frames[k])
  BY <1>7, <1>9
<1> QED
  BY <1>5, <1>6, <1>11, <1>12, <1>13 DEF LoopFrame

\* The loops around what follows are those around this step, and the one that begins.
LEMMA LoopOpens ==
    ASSUME IInv, LowerLoop, NEW m, m = Len(frames), NEW n, n = Len(blocks)
    PROVE  LoopsOpen'
<1>1. /\ pc = "lower" /\ prog.code[at].op = "loop" /\ prog' = prog /\ at' = at + 1 /\ pc' = pc
  BY DEF LowerLoop, Lower
<1>2. /\ at \in 1..Len(prog.code) /\ prog \in Programs /\ Len(prog.code) \in Nat /\ m \in Nat
  BY <1>1, HereFacts
<1>3. LoopFrame(m, n)
  BY LoopFrameFacts
<1>4. /\ Len(frames') = m + 1
      /\ \A k \in 1..m : frames'[k] = frames[k]
      /\ frames'[m + 1].loop = at /\ frames'[m + 1].bodyEnd = 0
      /\ \A k \in 1..(m + 1) : at + 1 <= EndAt(frames[k])'
      /\ at + 1 <= ContAt(frames[m + 1])'
      /\ \A k \in 1..m : at + 1 <= ContAt(frames[k])' <=> at <= ContAt(frames[k])
  BY <1>3 DEF LoopFrame
<1>5. \A k \in 1..m :
         /\ frames[k].loop \in 1..Len(prog.code) /\ frames[k].loop < at /\ prog.code[frames[k].loop].op = "loop"
         /\ frames[k].bodyEnd = 0 <=> at <= ContAt(frames[k])
  BY HereFacts
<1>6. \A k \in 1..(m + 1) : k \in 1..m \/ k = m + 1
  BY <1>2
<1>7. ASSUME NEW k \in 1..(m + 1)
      PROVE  /\ frames'[k].loop \in 1..at /\ prog.code[frames'[k].loop].op = "loop"
             /\ frames'[k].bodyEnd = 0 <=> at + 1 <= ContAt(frames[k])'
  <2>1. CASE k \in 1..m
    BY <1>2, <1>4, <1>5, <2>1
  <2>2. CASE k = m + 1
    BY <1>1, <1>2, <1>4, <2>2
  <2> QED
    BY <1>6, <2>1, <2>2
<1>8. ASSUME NEW k \in 1..(m + 1), NEW j \in 1..(k - 1)
      PROVE  frames'[j].loop < frames'[k].loop
  <2>1. j \in 1..m
    BY <1>2
  <2>2. CASE k \in 1..m
    <3>1. frames[j].loop < frames[k].loop
      BY <2>2 DEF IInv, LoopsOpen
    <3> QED
      BY <1>4, <2>1, <2>2, <3>1
  <2>3. CASE k = m + 1
    BY <1>4, <1>5, <2>1, <2>3
  <2> QED
    BY <1>6, <2>2, <2>3
<1>9. ASSUME NEW l \in 1..at, prog.code[l].op = "loop", at + 1 <= l + prog.code[l].end
      PROVE  \E k \in 1..(m + 1) : frames'[k].loop = l
  <2>1. CASE l = at
    <3>1. m + 1 \in 1..(m + 1)
      BY <1>2
    <3> QED
      BY <1>4, <2>1, <3>1
  <2>2. CASE l # at
    <3>1. l \in 1..(at - 1) /\ l \in 1..Len(prog.code)
      BY <1>2, <2>2
    <3>2. prog.code[l].end \in Nat
      BY <1>2, <1>9, <3>1, LoopFacts
    <3>3. at <= l + prog.code[l].end
      BY <1>2, <1>9, <3>1, <3>2
    <3>4. PICK k \in 1..m : frames[k].loop = l
      BY <1>1, <1>9, <3>1, <3>3 DEF IInv, LoopsOpen
    <3>5. k \in 1..(m + 1)
      BY <1>2
    <3> QED
      BY <1>4, <3>4, <3>5
  <2> QED
    BY <2>1, <2>2
<1>10. at' - 1 = at
  BY <1>1, <1>2
<1>11. (\A k \in 1..Len(frames) :
          LET f == frames[k]
          IN  /\ f.loop \in 1..(at - 1) /\ prog.code[f.loop].op = "loop"
              /\ at <= EndAt(f)
              /\ f.bodyEnd = 0 <=> at <= ContAt(f))'
  BY <1>1, <1>4, <1>7, <1>10
<1>12. (\A k \in 1..Len(frames) : \A j \in 1..(k - 1) : frames[j].loop < frames[k].loop)'
  BY <1>4, <1>8
<1>13. (\A l \in 1..(at - 1) : prog.code[l].op = "loop" /\ at <= l + prog.code[l].end =>
              \E k \in 1..Len(frames) : frames[k].loop = l)'
  BY <1>1, <1>4, <1>9, <1>10
<1> QED
  BY <1>11, <1>12, <1>13 DEF LoopsOpen

\* Two blocks more wait, for the loop that begins.
LEMMA LoopWaits ==
    ASSUME IInv, LowerLoop, NEW m, m = Len(frames), NEW n, n = Len(blocks)
    PROVE  BlocksWait' /\ Laid' = Laid \cup {n + 1}
<1>1. /\ prog' = prog /\ at' = at + 1 /\ layout' = Append(layout, n + 1)
  BY DEF LowerLoop, Lower
<1>2. /\ m \in Nat /\ n \in Nat /\ Laid \subseteq 1..n
  BY HereFacts, BlockFacts
<1>3. LoopFrame(m, n) /\ LoopMakes(n, Passed(at))
  BY LoopFrameFacts, LoopBlocks
<1>4. /\ Len(frames') = m + 1 /\ Len(blocks') = n + 3
      /\ \A k \in 1..m : frames'[k] = frames[k]
      /\ frames'[m + 1].body = n + 1 /\ frames'[m + 1].cont = n + 2 /\ frames'[m + 1].ret = n + 3
      /\ at + 1 <= ContAt(frames[m + 1])' /\ at + 1 <= RetAt(frames[m + 1])'
      /\ \A k \in 1..m :
            /\ at + 1 <= ContAt(frames[k])' <=> at <= ContAt(frames[k])
            /\ at + 1 <= RetAt(frames[k])' <=> at <= RetAt(frames[k])
  BY <1>3 DEF LoopFrame, LoopMakes
<1>5. \A k \in 1..m :
         /\ frames[k].body \in 1..n /\ frames[k].cont \in 1..n /\ frames[k].ret \in 1..n
         /\ frames[k].cont # frames[k].ret
         /\ frames[k].cont \notin Laid <=> at <= ContAt(frames[k])
         /\ frames[k].ret \notin Laid <=> at <= RetAt(frames[k])
  BY DEF IInv, BlocksWait
<1>6. \A k \in 1..m : \A j \in 1..(k - 1) :
         {frames[j].cont, frames[j].ret} \cap {frames[k].cont, frames[k].ret} = {}
  BY DEF IInv, BlocksWait
<1>7. \A k \in 1..(m + 1) : k \in 1..m \/ k = m + 1
  BY <1>2
<1>8. layout \in Seq(Nat) /\ n + 1 \in Nat
  BY <1>2 DEF IInv, ContainersOK
<1>9. /\ DOMAIN layout = 1..Len(layout) /\ DOMAIN layout' = 1..(Len(layout) + 1) /\ Len(layout) \in Nat
      /\ layout'[Len(layout) + 1] = n + 1
      /\ \A k \in 1..Len(layout) : layout'[k] = layout[k]
  BY <1>1, <1>8
<1>10. \A k \in 1..(Len(layout) + 1) : k \in 1..Len(layout) \/ k = Len(layout) + 1
  BY <1>9
<1>11. Laid' = Laid \cup {n + 1}
  <2>1. 1..Len(layout) \subseteq 1..(Len(layout) + 1) /\ Len(layout) + 1 \in 1..(Len(layout) + 1)
    BY <1>9
  <2> QED
    BY <1>9, <1>10, <2>1 DEF Laid
<1>12. \A b \in 1..n : b # n + 1 /\ b # n + 2 /\ b # n + 3 /\ b \in 1..(n + 3)
  BY <1>2
<1>13. ASSUME NEW k \in 1..(m + 1)
       PROVE  /\ frames'[k].body \in 1..(n + 3) /\ frames'[k].cont \in 1..(n + 3) /\ frames'[k].ret \in 1..(n + 3)
              /\ frames'[k].cont # frames'[k].ret
              /\ frames'[k].cont \notin Laid' <=> at + 1 <= ContAt(frames[k])'
              /\ frames'[k].ret \notin Laid' <=> at + 1 <= RetAt(frames[k])'
  <2>1. CASE k \in 1..m
    BY <1>4, <1>5, <1>11, <1>12, <2>1
  <2>2. CASE k = m + 1
    <3>1. n + 1 \in 1..(n + 3) /\ n + 2 \in 1..(n + 3) /\ n + 3 \in 1..(n + 3) /\ n + 2 # n + 3
      BY <1>2
    <3>2. n + 2 \notin Laid' /\ n + 3 \notin Laid'
      BY <1>2, <1>11, <1>12
    <3> QED
      BY <1>4, <2>2, <3>1, <3>2
  <2> QED
    BY <1>7, <2>1, <2>2
<1>14. ASSUME NEW k \in 1..(m + 1), NEW j \in 1..(k - 1)
       PROVE  {frames'[j].cont, frames'[j].ret} \cap {frames'[k].cont, frames'[k].ret} = {}
  <2>1. j \in 1..m
    BY <1>2
  <2>2. CASE k \in 1..m
    BY <1>4, <1>6, <2>1, <2>2
  <2>3. CASE k = m + 1
    BY <1>4, <1>5, <1>12, <2>1, <2>3
  <2> QED
    BY <1>7, <2>2, <2>3
<1>15. ASSUME NEW b \in 1..(n + 3), b \notin Laid'
       PROVE  \E k \in 1..(m + 1) : b \in {frames'[k].cont, frames'[k].ret}
  <2>1. CASE b \in 1..n
    <3>1. PICK k \in 1..m : b \in {frames[k].cont, frames[k].ret}
      BY <1>11, <1>15, <2>1 DEF IInv, BlocksWait
    <3>2. k \in 1..(m + 1)
      BY <1>2
    <3> QED
      BY <1>4, <3>1, <3>2
  <2>2. CASE b = n + 2 \/ b = n + 3
    <3>1. m + 1 \in 1..(m + 1)
      BY <1>2
    <3> QED
      BY <1>4, <2>2, <3>1
  <2>3. b # n + 1
    BY <1>11, <1>15
  <2> QED
    BY <1>2, <2>1, <2>2, <2>3
<1>16. \A j, k \in 1..(Len(layout) + 1) : layout'[j] = layout'[k] => j = k
  <2>1. \A j, k \in 1..Len(layout) : layout[j] = layout[k] => j = k
    BY <1>9 DEF IInv, BlocksWait
  <2>2. \A j \in 1..Len(layout) : layout[j] # n + 1
    <3>1. \A j \in 1..Len(layout) : layout[j] \in Laid
      BY <1>9 DEF Laid
    <3> QED
      BY <1>2, <1>12, <3>1
  <2> QED
    BY <1>9, <1>10, <2>1, <2>2
<1>17. (\A k \in 1..Len(frames) :
          LET f == frames[k]
          IN  /\ f.body \in 1..Len(blocks) /\ f.cont \in 1..Len(blocks) /\ f.ret \in 1..Len(blocks)
              /\ f.cont # f.ret
              /\ f.cont \notin Laid <=> at <= ContAt(f)
              /\ f.ret \notin Laid <=> at <= RetAt(f))'
  BY <1>1, <1>4, <1>13
<1>18. (\A k \in 1..Len(frames) : \A j \in 1..(k - 1) :
          {frames[j].cont, frames[j].ret} \cap {frames[k].cont, frames[k].ret} = {})'
  BY <1>4, <1>14
<1>19. (\A b \in 1..Len(blocks) : b \notin Laid =>
          \E k \in 1..Len(frames) : b \in {frames[k].cont, frames[k].ret})'
  BY <1>4, <1>15
<1>20. (\A j, k \in DOMAIN layout : layout[j] = layout[k] => j = k)'
  BY <1>9, <1>16
<1> QED
  BY <1>11, <1>17, <1>18, <1>19, <1>20 DEF BlocksWait

LEMMA LoopStep ==
    ASSUME IInv, LowerLoop
    PROVE  IInv'
<1> DEFINE lm == Len(frames)
           ln == Len(blocks)
           vs == Passed(at)
<1>1. PICK m, n : m = lm /\ n = ln
  OBVIOUS
<1> HIDE DEF lm, ln
<1>2. m = Len(frames) /\ n = Len(blocks)
  BY <1>1 DEF lm, ln
<1>3. /\ pc = "lower" /\ pc' = pc /\ prog.code[at].op = "loop" /\ at' = at + 1
      /\ where' = Append(where, current)
      /\ layout' = Append(layout, n + 1) /\ block' = n + 1
      /\ UNCHANGED <<prog, params>>
  BY <1>2 DEF LowerLoop, Lower
<1>4. LoopFrame(m, n) /\ LoopMakes(n, vs) /\ LoopPasses(vs)
  BY <1>2, LoopFrameFacts, LoopBlocks, LoopPassesFacts
<1>5. LoopsOpen' /\ BlocksWait' /\ Laid' = Laid \cup {n + 1}
  BY <1>2, LoopOpens, LoopWaits
<1>6. /\ at \in 1..Len(prog.code) /\ Len(prog.code) \in Nat /\ prog \in Programs /\ m \in Nat
      /\ at # Len(prog.code)
  <2>1. at \in 1..Len(prog.code) /\ Len(prog.code) \in Nat /\ prog \in Programs /\ m \in Nat
    BY <1>2, <1>3, HereFacts
  <2> QED
    BY <1>3, <2>1, StepFacts
<1>7. /\ block \in 1..n /\ block \in Laid /\ 1 \in Laid /\ Laid \subseteq 1..n /\ n \in Nat /\ fresh \in Nat
  BY <1>2, BlockFacts
<1> HIDE DEF vs
<1>8. /\ vs \in Seq(Var) /\ DOMAIN vs = 1..Len(vs) /\ Len(vs) \in Nat /\ fresh' = fresh + Len(vs)
      /\ \A k \in 1..Len(vs) : current[vs[k]] \in 0..(fresh - 1)
      /\ \A v \in Var : current'[v] = current[v] \/ current'[v] \in 0..(fresh' - 1)
      /\ \A k \in 1..Len(vs) : current'[vs[k]] \in 0..(fresh' - 1)
      /\ current' \in [Var -> Int]
  BY <1>4 DEF LoopPasses
<1>9. /\ blocks' \in Seq(Blocks) /\ Len(blocks') = n + 3
      /\ \A c \in 1..n : blocks'[c].params = blocks[c].params
      /\ \A c \in 1..n : c # block => blocks'[c] = blocks[c]
      /\ ~IsOpen(blocks'[block].code)
      /\ \A c \in 1..(n + 3) : Middle(blocks'[c].code)
      /\ Len(blocks'[n + 1].params) = Len(vs)
      /\ \A c \in (n + 1)..(n + 3) : blocks'[c].code = << >>
      /\ AllFit(blocks', fresh')
  BY <1>4 DEF LoopMakes
<1>10. /\ frames' \in Seq(Frames) /\ Len(frames') = m + 1
       /\ \A k \in 1..m : frames'[k] = frames[k]
       /\ frames'[m + 1].loop = at /\ frames'[m + 1].bodyEnd = 0 /\ frames'[m + 1].atEnd = current
       /\ frames'[m + 1].body = n + 1
  BY <1>4 DEF LoopFrame
<1>11. \A k \in 1..(m + 1) : k \in 1..m \/ k = m + 1
  BY <1>6
<1>12. /\ at' \in 1..(Len(prog.code) + 1) /\ Len(where') = at' - 1
       /\ where' \in Seq([Var -> Int])
       /\ \A k \in DOMAIN params : params[k] \in 0..(fresh' - 1)
       /\ fresh' \in Nat /\ 0..(fresh - 1) \subseteq 0..(fresh' - 1)
  BY <1>3, <1>8, CommonTypes
<1>13. JumpsFit' /\ JumpsInside'
  BY <1>9, JumpsLater
<1>14. TypeOK'
  <2>1. \A k \in DOMAIN layout' : layout'[k] \in 1..(n + 3)
    <3>1. \A k \in DOMAIN layout' : layout'[k] \in Laid'
      BY DEF Laid
    <3>2. Laid' \subseteq 1..(n + 3)
      BY <1>5, <1>7
    <3> QED
      BY <3>1, <3>2
  <2>2. \A v \in Var : current'[v] \in {Null, Memory} \cup 0..(fresh' - 1)
    <3>1. \A v \in Var : current[v] \in {Null, Memory} \cup 0..(fresh - 1)
      BY DEF IInv, TypeOK
    <3> QED
      BY <1>8, <1>12, <3>1
  <2>3. block' \in 1..(n + 3)
    BY <1>3, <1>7
  <2>4. pc' \in {"params", "lower", "lowered", "crashed"}
    BY <1>3
  <2> QED
    BY <1>3, <1>9, <1>12, <2>1, <2>2, <2>3, <2>4 DEF TypeOK
<1>15. ContainersOK'
  <2>1. \A w \in Var : InVreg(w)' => current'[w] # Memory
    <3>1. \A w \in Var : InVreg(w)' => current[w] # Memory
      BY <1>3 DEF InVreg, IInv, ContainersOK
    <3>2. Memory \notin 0..(fresh' - 1)
      BY <1>12 DEF Memory
    <3> QED
      BY <1>8, <3>1, <3>2
  <2>2. layout' \in Seq(Nat)
    BY <1>3, <1>7 DEF IInv, ContainersOK
  <2>3. prog' \in Programs /\ params' \in Seq(Nat)
    BY <1>3 DEF IInv, ContainersOK
  <2> QED
    BY <1>8, <1>9, <1>10, <1>12, <2>1, <2>2, <2>3 DEF ContainersOK, Blocks
<1>16. PhasesOK'
  <2>1. n + 3 > 1 /\ n + 1 # 1
    BY <1>7
  <2>2. at + 1 <= Len(prog.code)
    BY <1>6
  <2> QED
    BY <1>3, <1>9, <2>1, <2>2 DEF PhasesOK
<1>17. BlocksOpen'
  <2>1. /\ \A b \in Laid :
             Open(b) <=> b = 1 \/ b = block \/ \E k \in 1..m : frames[k].bodyEnd = b
        /\ \A b \in 1..n : b \notin Laid => blocks[b].code = << >>
        /\ \A k \in 1..m : frames[k].bodyEnd # 0 =>
              /\ frames[k].bodyEnd \in Laid /\ frames[k].bodyEnd # 1 /\ frames[k].bodyEnd # block
              /\ \A j \in 1..(k - 1) : frames[j].bodyEnd # frames[k].bodyEnd
    BY <1>2, <1>3 DEF IInv, BlocksOpen
  <2>2. block # 1
    BY <1>3 DEF IInv, PhasesOK
  <2>3. \A b : (Open(b) <=> IsOpen(blocks[b].code)) /\ (Open(b)' <=> IsOpen(blocks'[b].code))
    BY DEF Open, IsOpen
  <2>4. n + 1 \in (n + 1)..(n + 3) /\ \A b \in 1..n : b # n + 1 /\ b # 0
    BY <1>7
  <2>5. \A b : b # 0 => ((\E k \in 1..(m + 1) : frames'[k].bodyEnd = b) <=> \E k \in 1..m : frames[k].bodyEnd = b)
    <3>1. 1..m \subseteq 1..(m + 1)
      BY <1>6
    <3> QED
      BY <1>10, <1>11, <3>1
  <2>6. ASSUME NEW b \in Laid'
        PROVE  Open(b)' <=> b = 1 \/ b = n + 1 \/ \E k \in 1..(m + 1) : frames'[k].bodyEnd = b
    <3>1. CASE b = n + 1
      <4>1. IsOpen(blocks'[b].code)
        BY <1>9, <2>4, <3>1 DEF IsOpen
      <4> QED
        BY <2>3, <3>1, <4>1
    <3>2. CASE b = block
      <4>1. ~Open(b)' /\ b # 0 /\ b # n + 1
        BY <1>7, <1>9, <2>3, <2>4, <3>2
      <4> QED
        BY <2>1, <2>2, <2>5, <3>2, <4>1
    <3>3. CASE b # n + 1 /\ b # block
      <4>1. b \in Laid /\ b \in 1..n /\ b # 0
        BY <1>5, <1>7, <2>4, <3>3
      <4>2. Open(b)' <=> Open(b)
        BY <1>9, <2>3, <3>3, <4>1
      <4> QED
        BY <2>1, <2>5, <3>3, <4>1, <4>2
    <3> QED
      BY <3>1, <3>2, <3>3
  <2>7. ASSUME NEW k \in 1..(m + 1), frames'[k].bodyEnd # 0
        PROVE  /\ frames'[k].bodyEnd \in Laid' \ {1, n + 1}
               /\ \A j \in 1..(k - 1) : frames'[j].bodyEnd # frames'[k].bodyEnd
    <3>1. k \in 1..m
      BY <1>10, <1>11, <2>7
    <3>2. \A j \in 1..(k - 1) : j \in 1..m
      BY <1>6, <3>1
    <3>3. frames'[k] = frames[k] /\ \A j \in 1..(k - 1) : frames'[j] = frames[j]
      BY <1>10, <3>1, <3>2
    <3> QED
      BY <1>5, <1>7, <2>1, <2>4, <2>7, <3>1, <3>3
  <2>8. ASSUME NEW b \in 1..(n + 3), b \notin Laid'
        PROVE  blocks'[b].code = << >>
    <3>1. CASE b \in 1..n
      <4>1. b \notin Laid /\ b # block
        BY <1>5, <1>7, <2>8
      <4> QED
        BY <1>9, <2>1, <3>1, <4>1
    <3>2. CASE b \notin 1..n
      <4>1. b \in (n + 1)..(n + 3)
        BY <1>7, <3>2
      <4> QED
        BY <1>9, <4>1
    <3> QED
      BY <3>1, <3>2
  <2>9. 1 \in Laid' /\ n + 1 \in Laid'
    BY <1>5, <1>7
  <2>10. \A b \in 1..(n + 3) : \A k \in 1..(Len(blocks'[b].code) - 1) : blocks'[b].code[k].op \notin Terminators
    BY <1>9 DEF Middle
  <2>11. (\A b \in Laid :
             Open(b) <=> b = 1 \/ (b = block /\ pc # "lowered")
                        \/ \E k \in 1..Len(frames) : frames[k].bodyEnd = b)'
    BY <1>3, <1>10, <2>6
  <2>12. (\A k \in 1..Len(frames) : frames[k].bodyEnd # 0 =>
             /\ frames[k].bodyEnd \in Laid \ {1, block}
             /\ \A j \in 1..(k - 1) : frames[j].bodyEnd # frames[k].bodyEnd)'
    BY <1>3, <1>10, <2>7
  <2> QED
    BY <1>3, <1>9, <2>8, <2>9, <2>10, <2>11, <2>12 DEF BlocksOpen
<1>18. PassedHeld'
  <2>1. \A k \in 1..m :
           LET f == frames[k]
               ws == Passed(f.loop)
           IN  /\ Len(blocks[f.body].params) = Len(ws)
               /\ \A j \in DOMAIN ws : current[ws[j]] \in 0..(fresh - 1) /\ f.atEnd[ws[j]] \in 0..(fresh - 1)
    BY <1>2 DEF IInv, PassedHeld
  <2>2. ASSUME NEW k \in 1..m
        PROVE  HeldLater(frames'[k].body, Passed(frames[k].loop), frames'[k].atEnd)
    <3> DEFINE f == frames[k]
               ws == Passed(f.loop)
    <3>1. f.loop \in 1..Len(prog.code) /\ prog.code[f.loop].op = "loop"
      BY <1>2, HereFacts
    <3>2. \A j \in DOMAIN ws : ws[j] \in Var
      <4> DEFINE x == f.loop
      <4> HIDE DEF f, x
      <4>1. Passed(x) \in Seq(Var)
        BY <1>6, <3>1, PassedFacts DEF x
      <4> QED
        BY <4>1 DEF x
    <3>3. f.body \in 1..n
      BY <1>2 DEF IInv, BlocksWait
    <3>4. Len(blocks'[f.body].params) = Len(ws)
      BY <1>9, <2>1, <3>3
    <3>5. \A j \in DOMAIN ws : current'[ws[j]] \in 0..(fresh' - 1) /\ f.atEnd[ws[j]] \in 0..(fresh' - 1)
      <4>1. \A j \in DOMAIN ws : current[ws[j]] \in 0..(fresh' - 1) /\ f.atEnd[ws[j]] \in 0..(fresh' - 1)
        BY <1>12, <2>1
      <4> QED
        BY <1>8, <3>2, <4>1
    <3>6. frames'[k] = f
      BY <1>10
    <3> QED
      BY <3>4, <3>5, <3>6 DEF HeldLater
  <2>3. HeldLater(frames'[m + 1].body, vs, frames'[m + 1].atEnd)
    <3>1. \A k \in 1..Len(vs) : current[vs[k]] \in 0..(fresh' - 1)
      BY <1>8, <1>12
    <3> QED
      BY <1>8, <1>9, <1>10, <3>1 DEF HeldLater
  <2> DEFINE loops == [k \in 1..(m + 1) |-> IF k = m + 1 THEN at ELSE frames[k].loop]
  <2>4. /\ \A k \in 1..m : loops[k] = frames[k].loop
        /\ loops[m + 1] = at
    BY <1>6
  <2> HIDE DEF loops
  <2>5. ASSUME NEW k \in 1..(m + 1)
        PROVE  frames'[k].loop = loops[k] /\ HeldLater(frames'[k].body, Passed(loops[k]), frames'[k].atEnd)
    <3>1. CASE k \in 1..m
      BY <1>10, <2>2, <2>4, <3>1
    <3>2. CASE k = m + 1
      BY <1>10, <2>3, <2>4, <3>2 DEF vs
    <3> QED
      BY <1>11, <3>1, <3>2
  <2>6. Len(frames') = m + 1 /\ m + 1 \in Nat /\ prog' = prog
    BY <1>3, <1>6, <1>10
  <2> QED
    BY <2>5, <2>6, PassedLater
<1> QED
  BY <1>5, <1>13, <1>14, <1>15, <1>16, <1>17, <1>18 DEF IInv

-----------------------------------------------------------------------------
LEMMA InitHolds == Init => IInv
<1> SUFFICES ASSUME Init PROVE IInv
  OBVIOUS
<1>1. /\ prog \in Programs /\ at = 1 /\ params = << >> /\ blocks = <<NewBlock>> /\ layout = <<1>>
      /\ block = 1 /\ frames = << >> /\ fresh = 0 /\ where = << >> /\ pc = "params"
      /\ current = [v \in Var |-> IF prog.kind[v] = "global" THEN Memory ELSE Null]
  BY DEF Init
<1>2. Len(prog.code) \in Nat \ {0}
  BY <1>1, StepFacts
<1>3. NewBlock \in Blocks /\ NewBlock.code = << >>
  BY DEF NewBlock, Blocks
<1>4. /\ blocks \in Seq(Blocks) /\ Len(blocks) = 1 /\ blocks[1] = NewBlock
      /\ layout \in Seq(Nat) /\ Len(layout) = 1 /\ layout[1] = 1 /\ DOMAIN layout = {1}
      /\ \A b \in 1..Len(blocks) : b = 1
  BY <1>1, <1>3
<1>5. Laid = {1}
  BY <1>4 DEF Laid
<1>6. blocks[1].code = << >>
  BY <1>3, <1>4
<1>7. TypeOK
  <2>1. 1 \in 1..(Len(prog.code) + 1)
    BY <1>2
  <2>2. DOMAIN params = {}
    BY <1>1
  <2>3. Len(where) = at - 1
    BY <1>1
  <2>4. \A v \in Var : current[v] \in {Null, Memory} \cup 0..(fresh - 1)
    BY <1>1
  <2> QED
    BY <1>1, <1>4, <2>1, <2>2, <2>3, <2>4 DEF TypeOK
<1>8. ContainersOK
  <2>1. \A v \in Var : InVreg(v) => current[v] # Memory
    BY <1>1 DEF InVreg, Null, Memory
  <2>2. current \in [Var -> Int]
    <3>1. Null \in Int /\ Memory \in Int
      BY DEF Null, Memory
    <3> QED
      BY <1>1, <3>1
  <2>3. params \in Seq(Nat) /\ frames \in Seq(Frames) /\ where \in Seq([Var -> Int])
    BY <1>1
  <2> QED
    BY <1>1, <1>4, <2>1, <2>2, <2>3 DEF ContainersOK, Blocks
<1>9. PhasesOK
  BY <1>1, <1>4 DEF PhasesOK
<1>10. \A k \in 1..Len(frames) : FALSE
  BY <1>1
<1>11. LoopsOpen
  BY <1>1, <1>10 DEF LoopsOpen
<1>12. BlocksWait
  <2>1. \A b \in 1..Len(blocks) : b \in Laid
    BY <1>4, <1>5
  <2> QED
    BY <1>4, <1>10, <2>1 DEF BlocksWait
<1>13. BlocksOpen
  <2>1. Open(1)
    BY <1>6 DEF Open
  <2>2. \A b \in 1..Len(blocks) : \A k \in 1..(Len(blocks[b].code) - 1) : FALSE
    BY <1>4, <1>6
  <2> QED
    BY <1>1, <1>4, <1>5, <1>10, <2>1, <2>2 DEF BlocksOpen
<1>14. PassedHeld
  BY <1>10 DEF PassedHeld
<1>15. \A b \in 1..Len(blocks) : DOMAIN blocks[b].code = {}
  BY <1>4, <1>6
<1> QED
  BY <1>7, <1>8, <1>9, <1>11, <1>12, <1>13, <1>14, <1>15 DEF IInv, JumpsFit, JumpsInside

LEMMA StutterStep ==
    ASSUME IInv, UNCHANGED vars
    PROVE  IInv'
<1>1. /\ prog' = prog /\ at' = at /\ params' = params /\ blocks' = blocks /\ layout' = layout
      /\ block' = block /\ current' = current /\ frames' = frames /\ fresh' = fresh
      /\ where' = where /\ pc' = pc
  BY DEF vars
<1>2. TypeOK' /\ ContainersOK' /\ PhasesOK'
  BY <1>1 DEF IInv, TypeOK, ContainersOK, PhasesOK, InVreg
<1>3. Laid' = Laid
  BY <1>1 DEF Laid
<1>4. LoopsOpen' /\ BlocksWait'
  BY <1>1, <1>3 DEF IInv, LoopsOpen, BlocksWait, ContAt, RetAt, EndAt
<1>5. BlocksOpen'
  BY <1>1, <1>3 DEF IInv, BlocksOpen, Open
<1>6. PassedHeld'
  <2>1. \A k \in 1..Len(frames) : Passed(frames[k].loop)' = Passed(frames[k].loop)
    BY <1>1, PassedSame
  <2> QED
    BY <1>1, <2>1 DEF IInv, PassedHeld
<1>7. JumpsFit' /\ JumpsInside'
  BY <1>1 DEF IInv, JumpsFit, JumpsInside
<1> QED
  BY <1>2, <1>4, <1>5, <1>6, <1>7 DEF IInv

LEMMA NextHolds == IInv /\ [Next]_vars => IInv'
<1> SUFFICES ASSUME IInv, [Next]_vars PROVE IInv'
  OBVIOUS
<1>1. CASE LowerParam
  BY <1>1, ParamStep
<1>2. CASE LowerBody
  BY <1>2, BodyStep
<1>3. CASE LowerSet
  BY <1>3, SetStep
<1>4. CASE LowerUse
  BY <1>4, UseStep
<1>5. CASE LowerLoop
  BY <1>5, LoopStep
<1>6. CASE Crash
  BY <1>6, CrashStep
<1>7. CASE LowerContinue
  BY <1>7, ContinueStep
<1>8. CASE LowerReturn
  BY <1>8, ReturnStep
<1>9. CASE LowerEnd
  BY <1>9, EndStep
<1>10. CASE LowerExit
  BY <1>10, ExitStep
<1>11. CASE UNCHANGED vars
  BY <1>11, StutterStep
<1> QED
  BY <1>1, <1>2, <1>3, <1>4, <1>5, <1>6, <1>7, <1>8, <1>9, <1>10, <1>11 DEF Next

\* When no loop is left there is nothing to wait for: each block is laid out, and once.
LEMMA AllLaidOut ==
    ASSUME IInv
    PROVE  BlocksLaidOut
<1> SUFFICES ASSUME pc = "lowered"
             PROVE  /\ Len(layout) = Len(blocks)
                    /\ \A b \in 1..Len(blocks) : \E k \in DOMAIN layout : layout[k] = b
  BY DEF BlocksLaidOut
<1> DEFINE n == Len(layout)
           m == Len(blocks)
<1>1. layout \in Seq(Nat) /\ n \in Nat /\ m \in Nat /\ DOMAIN layout = 1..n /\ frames = << >>
  BY BlockFacts DEF IInv, ContainersOK, PhasesOK
<1>2. layout \in [1..n -> 1..m]
  <2>1. \A k \in 1..n : layout[k] \in 1..m
    BY <1>1 DEF IInv, TypeOK
  <2>2. layout = [k \in 1..n |-> layout[k]]
    BY <1>1
  <2> QED
    BY <2>1, <2>2
<1>3. \A j, k \in 1..n : layout[j] = layout[k] => j = k
  BY <1>1 DEF IInv, BlocksWait
<1>4. \A b \in 1..m : \E k \in 1..n : layout[k] = b
  <2>1. \A b \in 1..m : b \in Laid
    BY <1>1 DEF IInv, BlocksWait
  <2> QED
    BY <1>1, <2>1 DEF Laid
<1>5. layout \in Bijection(1..n, 1..m)
  <2>1. DOMAIN layout = 1..n
    BY <1>1
  <2>2. IsInjective(layout)
    BY <1>3, <2>1 DEF IsInjective
  <2> QED
    BY <1>2, <1>4, <2>2 DEF Bijection, Injection, Surjection
<1>6. ExistsBijection(1..n, 1..m)
  BY <1>5 DEF ExistsBijection
<1>7. /\ IsFiniteSet(1..n) /\ Cardinality(1..n) = n
      /\ Cardinality(1..m) = m
  <2> HIDE DEF n, m
  <2>1. \A k \in Nat : IsFiniteSet(1..k) /\ Cardinality(1..k) = IF 1 > k THEN 0 ELSE k - 1 + 1
    BY FS_Interval
  <2>2. \A k \in Nat : (IF 1 > k THEN 0 ELSE k - 1 + 1) = k
    OBVIOUS
  <2> QED
    BY <1>1, <2>1, <2>2
<1>8. Cardinality(1..m) = Cardinality(1..n)
  BY <1>6, <1>7, FS_Bijection
<1> QED
  BY <1>1, <1>4, <1>7, <1>8

LEMMA InvariantImplies == IInv => BlocksFit
<1> SUFFICES ASSUME IInv PROVE BlocksFit
  OBVIOUS
<1> DEFINE laid == {layout[k] : k \in DOMAIN layout}
           bodyEnds == {frames[k].bodyEnd : k \in DOMAIN frames} \ {0}
           open == {b \in laid : Open(b)}
<1>1. laid = Laid
  BY DEF Laid
<1>2. /\ DOMAIN frames = 1..Len(frames) /\ block \in Laid /\ 1 \in Laid /\ 0 \notin Laid
      /\ \A b \in Laid :
            Open(b) <=> b = 1 \/ (b = block /\ pc # "lowered")
                          \/ \E k \in 1..Len(frames) : frames[k].bodyEnd = b
      /\ \A k \in 1..Len(frames) : frames[k].bodyEnd # 0 => frames[k].bodyEnd \in Laid
  <2>1. 0 \notin Laid
    BY BlockFacts
  <2>2. DOMAIN frames = 1..Len(frames)
    <3>1. frames \in Seq(Frames)
      BY DEF IInv, ContainersOK
    <3> QED
      BY <3>1
  <2> QED
    BY <2>1, <2>2 DEF IInv, BlocksOpen
<1>3. pc = "lower" => open = {1, block} \cup bodyEnds
  <2> SUFFICES ASSUME pc = "lower" PROVE open = {1, block} \cup bodyEnds
    OBVIOUS
  <2>1. ASSUME NEW b
        PROVE  b \in open <=> b \in {1, block} \cup bodyEnds
    <3>1. b \in bodyEnds <=> b # 0 /\ \E k \in 1..Len(frames) : frames[k].bodyEnd = b
      BY <1>2
    <3> HIDE DEF bodyEnds
    <3> QED
      BY <1>1, <1>2, <3>1
  <2> QED
    BY <2>1
<1>4. pc = "lowered" => open = {1}
  <2> SUFFICES ASSUME pc = "lowered" PROVE open = {1}
    OBVIOUS
  <2>1. Len(frames) = 0
    BY DEF IInv, PhasesOK
  <2> QED
    BY <1>1, <1>2, <2>1
<1>5. /\ \A b \in 1..Len(blocks) : b \notin laid => blocks[b].code = << >>
      /\ \A b \in 1..Len(blocks) : \A k \in 1..(Len(blocks[b].code) - 1) :
            blocks[b].code[k].op \notin Terminators
  BY <1>1 DEF IInv, BlocksOpen
<1>6. BlocksEndOnce
  BY <1>3, <1>4, <1>5 DEF BlocksEndOnce
<1> QED
  BY <1>6, AllLaidOut DEF IInv, BlocksFit

\* However loops are nested, what a function is lowered to fits together (BlocksFit):
\* each block ends once and stands once in the function, and each jump brings what its
\* target takes.
THEOREM BlocksFitTogether == Spec => []BlocksFit
<1>1. Init => IInv
  BY InitHolds
<1>2. IInv /\ [Next]_vars => IInv'
  BY NextHolds
<1>3. IInv => BlocksFit
  BY InvariantImplies
<1> QED
  BY <1>1, <1>2, <1>3, PTL DEF Spec

=============================================================================
