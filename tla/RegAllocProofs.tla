--------------------------- MODULE RegAllocProofs ---------------------------
(***************************************************************************)
(* The register allocator colours every function correctly with respect to *)
(* the live intervals it is given: for any number of vregs and registers,  *)
(* any moves, clobbers, preferences and weights.  IInv is inductive; each  *)
(* theorem follows from it.                                                *)
(***************************************************************************)
EXTENDS RegAlloc, FiniteSetTheorems, SequenceTheorems, TLAPS

\* What is known of the function being allocated.
LEMMA FnFacts ==
    ASSUME fn \in Inputs
    PROVE  /\ fn.n \in Nat
           /\ fn.start \in [Vreg -> Int]
           /\ fn.end \in [Vreg -> Int]
           /\ fn.params \in Seq(Vreg)
           /\ IsInjective(fn.params)
           /\ fn.moves \in Seq(Vreg \X Vreg)
           /\ fn.prefs \in [Vreg -> SUBSET Register]
           /\ fn.calls \subseteq Int
           /\ \A c \in fn.calls : <<ReturnReg, c>> \in fn.clobber
           /\ fn.clobber \subseteq Register \X Int
  BY InputsAssumption DEF Vreg

\* Sets of vregs are finite.
LEMMA VregsFinite ==
    ASSUME fn \in Inputs, NEW S \in SUBSET Vreg
    PROVE  IsFiniteSet(S) /\ Cardinality(S) \in Nat
<1>1. 0 \in Int /\ fn.n - 1 \in Int
  BY FnFacts
<1>2. IsFiniteSet(Vreg)
  BY <1>1, FS_Interval DEF Vreg
<1>3. IsFiniteSet(S)
  BY <1>2, FS_Subset
<1>4. QED
  BY <1>3, FS_CardinalityType

\* Decreasing the degrees keeps them integers.
LEMMA DecreasedType ==
    ASSUME TypeOK, NEW v, NEW S
    PROVE  Decreased(v, S) \in [Vreg -> Int]
  BY DEF TypeOK, Decreased

\* Interference is symmetric and relates vregs.
LEMMA InterferesSymmetric ==
    ASSUME fn \in Inputs, NEW u \in Vreg, NEW v \in Vreg, Interferes(u, v)
    PROVE  Interferes(v, u)
  BY FnFacts DEF Interferes, Meets

-----------------------------------------------------------------------------
\* KeepApart only moves on.
LEMMA KeepApartIInv == ASSUME IInv, KeepApart PROVE IInv'
<1>1. /\ Vreg' = Vreg /\ Precoloured' = Precoloured
      /\ i' \in Nat /\ progress' \in BOOLEAN
  BY DEF KeepApart, IInv, TypeOK, graph, Vreg, Precoloured
<1>2. /\ UNCHANGED <<fn, root, edges, clobbers, prefs, degree, simplified, spilled,
                    work, reg, slot, slots, across, used>>
      /\ pc # "done" /\ pc' # "done" /\ ~Placed /\ ~Placed'
  BY DEF KeepApart, graph, places, Placed
<1>3. TypeOK'
  <2>1. pc' \in {"params", "coalesce", "simplify", "prefer", "select", "across", "done"}
    BY DEF KeepApart, IInv, TypeOK
  <2>2. QED
    BY <1>1, <1>2, <2>1 DEF IInv, TypeOK
<1>4. Rooted' /\ NodesCover'
  BY <1>1, <1>2 DEF KeepApart, IInv, Rooted, NodesCover, Interferes, Destroyed
<1>5. ParamsColoured'
  BY <1>1, <1>2 DEF KeepApart, IInv, ParamsColoured, Coloured
<1>6. WorkIsToDo'
  BY <1>1, <1>2 DEF KeepApart, IInv, TypeOK, WorkIsToDo, Coloured
<1>7. NobodyForgotten' /\ PlacesExclusive'
  BY <1>1, <1>2 DEF KeepApart, IInv, NobodyForgotten, PlacesExclusive, Coloured, InWork
<1>8. NodesApart' /\ Saved' /\ IndexStarts'
  BY <1>1, <1>2 DEF KeepApart, IInv, TypeOK, NodesApart, Saved, IndexStarts, Interferes, Coloured
<1>9. QED
  BY <1>1, <1>2, <1>3, <1>4, <1>5, <1>6, <1>7, <1>8 DEF IInv

\* CoalesceDone only moves on.
LEMMA CoalesceDoneIInv == ASSUME IInv, CoalesceDone PROVE IInv'
<1>1. /\ Vreg' = Vreg /\ Precoloured' = Precoloured
      /\ i' \in Nat /\ progress' \in BOOLEAN
  BY DEF CoalesceDone, IInv, TypeOK, graph, Vreg, Precoloured
<1>2. /\ UNCHANGED <<fn, root, edges, clobbers, prefs, degree, simplified, spilled,
                    work, reg, slot, slots, across, used>>
      /\ pc # "done" /\ pc' # "done" /\ ~Placed /\ ~Placed'
  BY DEF CoalesceDone, graph, places, Placed
<1>3. TypeOK'
  <2>1. pc' \in {"params", "coalesce", "simplify", "prefer", "select", "across", "done"}
    BY DEF CoalesceDone, IInv, TypeOK
  <2>2. QED
    BY <1>1, <1>2, <2>1 DEF IInv, TypeOK
<1>4. Rooted' /\ NodesCover'
  BY <1>1, <1>2 DEF CoalesceDone, IInv, Rooted, NodesCover, Interferes, Destroyed
<1>5. ParamsColoured'
  BY <1>1, <1>2 DEF CoalesceDone, IInv, ParamsColoured, Coloured
<1>6. WorkIsToDo'
  BY <1>1, <1>2 DEF CoalesceDone, IInv, TypeOK, WorkIsToDo, Coloured
<1>7. NobodyForgotten' /\ PlacesExclusive'
  BY <1>1, <1>2 DEF CoalesceDone, IInv, NobodyForgotten, PlacesExclusive, Coloured, InWork
<1>8. NodesApart' /\ Saved' /\ IndexStarts'
  BY <1>1, <1>2 DEF CoalesceDone, IInv, TypeOK, NodesApart, Saved, IndexStarts, Interferes, Coloured
<1>9. QED
  BY <1>1, <1>2, <1>3, <1>4, <1>5, <1>6, <1>7, <1>8 DEF IInv

\* PassOver only moves on.
LEMMA PassOverIInv == ASSUME IInv, PassOver PROVE IInv'
<1>1. /\ Vreg' = Vreg /\ Precoloured' = Precoloured
      /\ i' \in Nat /\ progress' \in BOOLEAN
  BY DEF PassOver, IInv, TypeOK, graph, Vreg, Precoloured
<1>2. /\ UNCHANGED <<fn, root, edges, clobbers, prefs, degree, simplified, spilled,
                    work, reg, slot, slots, across, used>>
      /\ pc # "done" /\ pc' # "done" /\ ~Placed /\ ~Placed'
  BY DEF PassOver, graph, places, Placed
<1>3. TypeOK'
  <2>1. pc' \in {"params", "coalesce", "simplify", "prefer", "select", "across", "done"}
    BY DEF PassOver, IInv, TypeOK
  <2>2. QED
    BY <1>1, <1>2, <2>1 DEF IInv, TypeOK
<1>4. Rooted' /\ NodesCover'
  BY <1>1, <1>2 DEF PassOver, IInv, Rooted, NodesCover, Interferes, Destroyed
<1>5. ParamsColoured'
  BY <1>1, <1>2 DEF PassOver, IInv, ParamsColoured, Coloured
<1>6. WorkIsToDo'
  BY <1>1, <1>2 DEF PassOver, IInv, TypeOK, WorkIsToDo, Coloured
<1>7. NobodyForgotten' /\ PlacesExclusive'
  BY <1>1, <1>2 DEF PassOver, IInv, NobodyForgotten, PlacesExclusive, Coloured, InWork
<1>8. NodesApart' /\ Saved' /\ IndexStarts'
  BY <1>1, <1>2 DEF PassOver, IInv, TypeOK, NodesApart, Saved, IndexStarts, Interferes, Coloured
<1>9. QED
  BY <1>1, <1>2, <1>3, <1>4, <1>5, <1>6, <1>7, <1>8 DEF IInv

\* NextPass only moves on.
LEMMA NextPassIInv == ASSUME IInv, NextPass PROVE IInv'
<1>1. /\ Vreg' = Vreg /\ Precoloured' = Precoloured
      /\ i' \in Nat /\ progress' \in BOOLEAN
  BY DEF NextPass, IInv, TypeOK, graph, Vreg, Precoloured
<1>2. /\ UNCHANGED <<fn, root, edges, clobbers, prefs, degree, simplified, spilled,
                    work, reg, slot, slots, across, used>>
      /\ pc # "done" /\ pc' # "done" /\ ~Placed /\ ~Placed'
  BY DEF NextPass, graph, places, Placed
<1>3. TypeOK'
  <2>1. pc' \in {"params", "coalesce", "simplify", "prefer", "select", "across", "done"}
    BY DEF NextPass, IInv, TypeOK
  <2>2. QED
    BY <1>1, <1>2, <2>1 DEF IInv, TypeOK
<1>4. Rooted' /\ NodesCover'
  BY <1>1, <1>2 DEF NextPass, IInv, Rooted, NodesCover, Interferes, Destroyed
<1>5. ParamsColoured'
  BY <1>1, <1>2 DEF NextPass, IInv, ParamsColoured, Coloured
<1>6. WorkIsToDo'
  BY <1>1, <1>2 DEF NextPass, IInv, TypeOK, WorkIsToDo, Coloured
<1>7. NobodyForgotten' /\ PlacesExclusive'
  BY <1>1, <1>2 DEF NextPass, IInv, NobodyForgotten, PlacesExclusive, Coloured, InWork
<1>8. NodesApart' /\ Saved' /\ IndexStarts'
  BY <1>1, <1>2 DEF NextPass, IInv, TypeOK, NodesApart, Saved, IndexStarts, Interferes, Coloured
<1>9. QED
  BY <1>1, <1>2, <1>3, <1>4, <1>5, <1>6, <1>7, <1>8 DEF IInv

\* NoPreferred only moves on.
LEMMA NoPreferredIInv == ASSUME IInv, NoPreferred PROVE IInv'
<1>1. /\ Vreg' = Vreg /\ Precoloured' = Precoloured
      /\ i' \in Nat /\ progress' \in BOOLEAN
  BY DEF NoPreferred, IInv, TypeOK, graph, Vreg, Precoloured
<1>2. /\ UNCHANGED <<fn, root, edges, clobbers, prefs, degree, simplified, spilled,
                    work, reg, slot, slots, across, used>>
      /\ pc # "done" /\ pc' # "done" /\ ~Placed /\ ~Placed'
  BY DEF NoPreferred, graph, places, Placed
<1>3. TypeOK'
  <2>1. pc' \in {"params", "coalesce", "simplify", "prefer", "select", "across", "done"}
    BY DEF NoPreferred, IInv, TypeOK
  <2>2. QED
    BY <1>1, <1>2, <2>1 DEF IInv, TypeOK
<1>4. Rooted' /\ NodesCover'
  BY <1>1, <1>2 DEF NoPreferred, IInv, Rooted, NodesCover, Interferes, Destroyed
<1>5. ParamsColoured'
  BY <1>1, <1>2 DEF NoPreferred, IInv, ParamsColoured, Coloured
<1>6. WorkIsToDo'
  BY <1>1, <1>2 DEF NoPreferred, IInv, TypeOK, WorkIsToDo, Coloured
<1>7. NobodyForgotten' /\ PlacesExclusive'
  BY <1>1, <1>2 DEF NoPreferred, IInv, NobodyForgotten, PlacesExclusive, Coloured, InWork
<1>8. NodesApart' /\ Saved' /\ IndexStarts'
  BY <1>1, <1>2 DEF NoPreferred, IInv, TypeOK, NodesApart, Saved, IndexStarts, Interferes, Coloured
<1>9. QED
  BY <1>1, <1>2, <1>3, <1>4, <1>5, <1>6, <1>7, <1>8 DEF IInv

\* PreferDone only moves on.
LEMMA PreferDoneIInv == ASSUME IInv, PreferDone PROVE IInv'
<1>1. /\ Vreg' = Vreg /\ Precoloured' = Precoloured
      /\ i' \in Nat /\ progress' \in BOOLEAN
  BY DEF PreferDone, IInv, TypeOK, graph, Vreg, Precoloured
<1>2. /\ UNCHANGED <<fn, root, edges, clobbers, prefs, degree, simplified, spilled,
                    work, reg, slot, slots, across, used>>
      /\ pc # "done" /\ pc' # "done" /\ ~Placed /\ ~Placed'
  BY DEF PreferDone, graph, places, Placed
<1>3. TypeOK'
  <2>1. pc' \in {"params", "coalesce", "simplify", "prefer", "select", "across", "done"}
    BY DEF PreferDone, IInv, TypeOK
  <2>2. QED
    BY <1>1, <1>2, <2>1 DEF IInv, TypeOK
<1>4. Rooted' /\ NodesCover'
  BY <1>1, <1>2 DEF PreferDone, IInv, Rooted, NodesCover, Interferes, Destroyed
<1>5. ParamsColoured'
  BY <1>1, <1>2 DEF PreferDone, IInv, ParamsColoured, Coloured
<1>6. WorkIsToDo'
  BY <1>1, <1>2 DEF PreferDone, IInv, TypeOK, WorkIsToDo, Coloured
<1>7. NobodyForgotten' /\ PlacesExclusive'
  BY <1>1, <1>2 DEF PreferDone, IInv, NobodyForgotten, PlacesExclusive, Coloured, InWork
<1>8. NodesApart' /\ Saved' /\ IndexStarts'
  BY <1>1, <1>2 DEF PreferDone, IInv, TypeOK, NodesApart, Saved, IndexStarts, Interferes, Coloured
<1>9. QED
  BY <1>1, <1>2, <1>3, <1>4, <1>5, <1>6, <1>7, <1>8 DEF IInv

\* After the last parameter, all the precoloured ones are simplified.
LEMMA ParamsDoneIInv == ASSUME IInv, ParamsDone PROVE IInv'
<1>1. /\ Vreg' = Vreg /\ Precoloured' = Precoloured
      /\ i' \in Nat /\ progress' \in BOOLEAN
  BY DEF ParamsDone, IInv, TypeOK, graph, Vreg, Precoloured
<1>2. ParamsColoured'
  <2>1. \A k \in 1..Len(fn.params) : k < i
    BY FnFacts DEF ParamsDone, IInv, TypeOK
  <2>2. Precoloured \subseteq simplified
    BY <2>1 DEF ParamsDone, IInv, ParamsColoured, Precoloured
  <2>3. \A v \in Vreg : Coloured(v) => v \in Precoloured
    BY DEF ParamsDone, IInv, ParamsColoured, Precoloured
  <2>4. QED
    BY <1>1, <2>2, <2>3 DEF ParamsDone, IInv, ParamsColoured, graph, places, Coloured
<1>3. QED
  BY <1>1, <1>2 DEF ParamsDone, IInv, TypeOK, Rooted, NodesCover, WorkIsToDo,
         NobodyForgotten, PlacesExclusive, NodesApart, Saved, IndexStarts, graph,
         places, Placed, Interferes, Destroyed, Coloured, InWork

\* Simplification ends with every vreg simplified or spilled.
LEMMA SimplifyDoneIInv == ASSUME IInv, SimplifyDone PROVE IInv'
<1>1. /\ Vreg' = Vreg /\ Precoloured' = Precoloured
      /\ i' \in Nat /\ progress' \in BOOLEAN
  BY DEF SimplifyDone, IInv, TypeOK, graph, Vreg, Precoloured
<1>2. Vreg \subseteq simplified \cup spilled
  BY DEF SimplifyDone, Remaining
<1>3. QED
  BY <1>1, <1>2 DEF SimplifyDone, IInv, TypeOK, Rooted, NodesCover, ParamsColoured,
         WorkIsToDo, NobodyForgotten, PlacesExclusive, NodesApart, Saved, IndexStarts,
         graph, places, Placed, Interferes, Destroyed, Coloured, InWork

-----------------------------------------------------------------------------
\* The graph is built right.
LEMMA InitIInv == Init => IInv
<1> SUFFICES ASSUME Init PROVE IInv
  OBVIOUS
<1>1. TypeOK
  <2>1. edges \in [Vreg -> SUBSET Vreg]
    BY DEF Init, Neighbours, Vreg
  <2>2. clobbers \in [Vreg -> SUBSET Register]
    BY DEF Init, Destroyed
  <2>3. degree \in [Vreg -> Int]
    <3>1. \A v \in Vreg : Neighbours(fn, v) \in SUBSET Vreg
      BY DEF Neighbours, Vreg
    <3>2. QED
      BY <3>1, VregsFinite DEF Init
  <2>4. prefs \in [Vreg -> SUBSET Register]
    BY FnFacts DEF Init
  <2>5. /\ root \in [Vreg -> Vreg]
        /\ reg \in [Vreg -> Register \cup {NoReg}]
        /\ slots \in Seq(BOOLEAN) /\ Len(slots) = 0
        /\ work \in Seq(Vreg)
    BY DEF Init
  <2>6. slot \in [Vreg -> 0..Len(slots)]
    BY <2>5 DEF Init
  <2>7. QED
    BY <2>1, <2>2, <2>3, <2>4, <2>5, <2>6 DEF Init, TypeOK
<1>2. Rooted
  BY DEF Init, Rooted
<1>n. NodesCover
  <2>1. \A u, v \in Vreg : Interferes(u, v) => v \in Neighbours(fn, u)
    BY FnFacts DEF Interferes, Neighbours, Meets, Vreg
  <2>2. QED
    BY <2>1 DEF Init, NodesCover
<1>3. ParamsColoured
  BY FnFacts DEF Init, ParamsColoured, Coloured, Precoloured
<1>4. WorkIsToDo
  BY DEF Init, WorkIsToDo, IsInjective
<1>5. NobodyForgotten /\ PlacesExclusive /\ NodesApart /\ Saved /\ IndexStarts
  BY <1>1 DEF Init, TypeOK, NobodyForgotten, PlacesExclusive, NodesApart, Saved, IndexStarts,
         Coloured, Placed
<1>6. QED
  BY <1>1, <1>2, <1>n, <1>3, <1>4, <1>5 DEF Init, IInv

\* A parameter gets a register that no parameter before it has got.
LEMMA ColourParamIInv == ASSUME IInv, ColourParam PROVE IInv'
<1> DEFINE p == fn.params[i]
<1>0. /\ Vreg' = Vreg /\ Precoloured' = Precoloured
      /\ i \in 1..Len(fn.params) /\ i \in 1..Len(ArgReg)
      /\ p \in Precoloured /\ p \in Vreg
  <2>1. fn' = fn /\ i \in 1..Len(fn.params) /\ i \in 1..Len(ArgReg)
    BY FnFacts, RegisterAssumption DEF ColourParam, IInv, TypeOK, IndexStarts, graph
  <2>2. p \in Vreg
    BY <2>1, FnFacts DEF IInv
  <2>3. QED
    BY <2>1, <2>2 DEF Vreg, Precoloured
<1>1. ArgReg[i] \in Range(ArgReg) /\ ArgReg[i] \in Register /\ ArgReg[i] # NoReg
  BY <1>0, RegisterAssumption DEF Range, NoReg
<1>2. ~Coloured(p) /\ slot[p] = 0
  <2>1. \A k \in 1..Len(fn.params) : fn.params[k] = p => ~(k < i)
    BY <1>0, FnFacts DEF IInv, IsInjective
  <2>2. p \notin spilled /\ ~Coloured(p)
    BY <1>0, <2>1 DEF ColourParam, IInv, ParamsColoured
  <2>3. QED
    BY <1>0, <2>2 DEF IInv, PlacesExclusive
<1>3. TypeOK'
  BY <1>0, <1>1, DecreasedType DEF ColourParam, IInv, TypeOK, graph
<1>4. Rooted' /\ NodesCover'
  BY <1>0 DEF ColourParam, IInv, Rooted, NodesCover, graph, Placed, Interferes, Destroyed
<1>5. ParamsColoured'
  <2>1. /\ i' = i + 1 /\ i \in Nat /\ simplified' = simplified \cup {p}
        /\ reg' = [reg EXCEPT ![p] = ArgReg[i]] /\ reg \in [Vreg -> Register \cup {NoReg}]
        /\ spilled' = spilled /\ fn' = fn /\ pc = "params" /\ pc' = "params"
    BY <1>0 DEF ColourParam, IInv, TypeOK, graph
  <2>2. ParamsColoured
    BY DEF IInv
  <2>3. QED
    BY <1>0, <1>1, <2>1, <2>2 DEF ParamsColoured, Coloured
<1>6. WorkIsToDo'
  BY <1>0 DEF ColourParam, IInv, WorkIsToDo, graph
<1>7. NobodyForgotten'
  BY <1>0, <1>1 DEF ColourParam, IInv, TypeOK, NobodyForgotten, Coloured, InWork, Placed, graph
<1>8. PlacesExclusive'
  BY <1>0, <1>1, <1>2 DEF ColourParam, IInv, TypeOK, Rooted, PlacesExclusive, Coloured, Placed, graph
<1>9. NodesApart'
  <2>1. \A v \in Vreg : v # p => reg[v] # ArgReg[i]
    <3>1. \A k \in 1..Len(ArgReg) : ArgReg[k] = ArgReg[i] => ~(k < i)
      BY <1>0, RegisterAssumption DEF IsInjective
    <3>2. \A k \in 1..Len(fn.params) : k <= Len(ArgReg) => k \in 1..Len(ArgReg)
      BY <1>0, FnFacts, RegisterAssumption DEF IInv
    <3>3. QED
      BY <1>1, <3>1, <3>2 DEF ColourParam, IInv, ParamsColoured, Coloured
  <2>2. QED
    BY <1>0, <1>1, <2>1 DEF ColourParam, IInv, TypeOK, Rooted, NodesApart, Coloured, Interferes, graph
<1>10. Saved' /\ IndexStarts'
  BY <1>0 DEF ColourParam, IInv, Saved, IndexStarts
<1>11. QED
  BY <1>0, <1>3, <1>4, <1>5, <1>6, <1>7, <1>8, <1>9, <1>10 DEF IInv, ColourParam, graph

\* A slot is found or made for the spilled vreg; nothing else moves.
LEMMA SpillPlaces ==
    ASSUME TypeOK, NEW v \in Vreg, NEW a \in BOOLEAN, Spill(v, a)
    PROVE  /\ spilled' = spilled \cup {v} /\ reg' = reg
           /\ slots' \in Seq(BOOLEAN)
           /\ slot' \in [Vreg -> 0..Len(slots')]
           /\ slot'[v] # 0
           /\ \A u \in Vreg : u # v => slot'[u] = slot[u]
<1>1. CASE /\ slots' = Append(slots, a)
           /\ slot' = [slot EXCEPT ![v] = Len(slots) + 1]
  <2>1. Len(slots') = Len(slots) + 1 /\ Len(slots) \in Nat /\ slots' \in Seq(BOOLEAN)
    BY <1>1 DEF TypeOK
  <2>2. QED
    BY <1>1, <2>1 DEF TypeOK, Spill
<1>2. CASE /\ \E s \in Shareable(v, a) : slot' = [slot EXCEPT ![v] = s]
           /\ UNCHANGED slots
  BY <1>2 DEF TypeOK, Spill, Shareable
<1>3. QED
  BY <1>1, <1>2 DEF Spill

\* A parameter on the stack is simplified at once.
LEMMA SpillParamIInv == ASSUME IInv, SpillParam PROVE IInv'
<1> DEFINE p == fn.params[i]
<1>0. /\ Vreg' = Vreg /\ Precoloured' = Precoloured
      /\ i \in 1..Len(fn.params)
      /\ p \notin Precoloured /\ p \in Vreg
  <2>1. fn' = fn /\ i \in 1..Len(fn.params) /\ ~(i <= Len(ArgReg))
    BY FnFacts, RegisterAssumption DEF SpillParam, IInv, TypeOK, IndexStarts, graph
  <2>2. \A k \in 1..Len(fn.params) : fn.params[k] = p => k = i
    <3>1. IsInjective(fn.params) /\ DOMAIN fn.params = 1..Len(fn.params)
      BY FnFacts DEF IInv
    <3>2. QED
      BY <2>1, <3>1 DEF IsInjective
  <2>3. p \in Vreg
    BY <2>1, FnFacts DEF IInv
  <2>4. QED
    BY <2>1, <2>2, <2>3 DEF Vreg, Precoloured
<1>1. ~Coloured(p)
  BY <1>0 DEF SpillParam, IInv, ParamsColoured
<1>2. /\ spilled' = spilled \cup {p} /\ reg' = reg
      /\ slots' \in Seq(BOOLEAN)
      /\ slot' \in [Vreg -> 0..Len(slots')]
      /\ slot'[p] # 0
      /\ \A u \in Vreg : u # p => slot'[u] = slot[u]
  BY <1>0, SpillPlaces DEF SpillParam, IInv
<1>3. TypeOK'
  <2>1. degree' \in [Vreg -> Int]
    BY DecreasedType DEF SpillParam, IInv
  <2>2. i' \in Nat /\ simplified' \subseteq Vreg /\ spilled' \subseteq Vreg
    BY <1>0, <1>2 DEF SpillParam, IInv, TypeOK
  <2>3. QED
    BY <1>0, <1>2, <2>1, <2>2 DEF SpillParam, IInv, TypeOK, graph
<1>4. Rooted' /\ NodesCover'
  BY <1>0, <1>2 DEF SpillParam, IInv, Rooted, NodesCover, graph, Placed, Interferes, Destroyed
<1>5. ParamsColoured'
  <2>1. i' = i + 1 /\ i \in Nat /\ simplified' = simplified \cup {p}
    BY <1>0 DEF SpillParam
  <2>2. QED
    BY <1>0, <1>2, <2>1 DEF SpillParam, IInv, TypeOK, ParamsColoured, Coloured, graph
<1>6. WorkIsToDo'
  BY <1>0 DEF SpillParam, IInv, WorkIsToDo, graph
<1>7. NobodyForgotten'
  <2>1. simplified' = simplified \cup {p} /\ root' = root /\ work' = work /\ pc' = "params"
    BY DEF SpillParam, graph
  <2>2. \A v \in simplified : v \in Vreg
    BY DEF IInv, TypeOK
  <2>3. \A v \in simplified' : root[v] = v => reg[v] # NoReg \/ slot'[v] # 0 \/ InWork(v)
    BY <1>2, <2>1, <2>2 DEF IInv, NobodyForgotten, Coloured
  <2>4. QED
    BY <1>2, <2>1, <2>3 DEF NobodyForgotten, Coloured, InWork, Placed
<1>8. PlacesExclusive'
  BY <1>0, <1>1, <1>2 DEF SpillParam, IInv, Rooted, PlacesExclusive, Coloured, Placed, graph
<1>9. NodesApart'
  BY <1>0, <1>2 DEF SpillParam, IInv, NodesApart, Coloured, Interferes, graph
<1>10. Saved' /\ IndexStarts'
  BY <1>0 DEF SpillParam, IInv, Saved, IndexStarts
<1>11. QED
  BY <1>0, <1>3, <1>4, <1>5, <1>6, <1>7, <1>8, <1>9, <1>10 DEF IInv, SpillParam, graph

\* Two nodes without a register become one, with the edges and clobbers of both.
LEMMA CoalesceIInv == ASSUME IInv, Coalesce PROVE IInv'
<1> DEFINE dest == fn.moves[i][1]
           src == fn.moves[i][2]
           d == root[dest]
           s == root[src]
<1>0. /\ Vreg' = Vreg /\ Precoloured' = Precoloured
      /\ dest \in Vreg /\ src \in Vreg /\ d \in Vreg /\ s \in Vreg
  <2>1. i \in 1..Len(fn.moves)
    BY FnFacts DEF Coalesce, IInv, TypeOK, IndexStarts
  <2>2. fn.moves[i] \in Vreg \X Vreg
    BY <2>1, FnFacts DEF IInv
  <2>3. QED
    BY <2>2 DEF Coalesce, IInv, TypeOK, Vreg, Precoloured
<1>1. /\ slot[dest] = 0 /\ slot[src] = 0 /\ d # s
      /\ d \notin Precoloured /\ s \notin Precoloured
      /\ root[d] = d /\ root[s] = s
  BY <1>0 DEF Coalesce, MayCoalesce, IInv, Rooted
<1>2. ~Coloured(d) /\ ~Coloured(s)
  BY <1>0, <1>1 DEF Coalesce, IInv, ParamsColoured
<1>3. d \notin spilled /\ s \notin spilled
  BY <1>0, <1>1 DEF Coalesce, IInv, Rooted, PlacesExclusive
<1>4. /\ root' = [v \in Vreg |-> IF root[v] = d THEN s ELSE root[v]]
      /\ edges' = [edges EXCEPT ![s] = @ \cup edges[d]]
      /\ clobbers' = [clobbers EXCEPT ![s] = @ \cup clobbers[d]]
      /\ prefs' = [prefs EXCEPT ![s] = @ \cup prefs[d]]
      /\ degree' = [degree EXCEPT ![s] = Cardinality(edges[s] \cup edges[d])]
      /\ simplified' = simplified \cup {d}
  BY DEF Coalesce, Merge
<1>5. TypeOK'
  <2>1. edges[s] \cup edges[d] \in SUBSET Vreg
    BY <1>0 DEF IInv, TypeOK
  <2>2. Cardinality(edges[s] \cup edges[d]) \in Int
    BY <2>1, VregsFinite DEF IInv
  <2>3. degree' \in [Vreg -> Int] /\ root' \in [Vreg -> Vreg]
    BY <1>0, <1>4, <2>2 DEF IInv, TypeOK
  <2>4. /\ edges' \in [Vreg -> SUBSET Vreg]
        /\ clobbers' \in [Vreg -> SUBSET Register]
        /\ prefs' \in [Vreg -> SUBSET Register]
    BY <1>0, <1>4 DEF IInv, TypeOK
  <2>5. i' \in Nat /\ progress' \in BOOLEAN
    BY DEF Coalesce, IInv, TypeOK
  <2>p. simplified' \subseteq Vreg
    BY <1>0, <1>4 DEF IInv, TypeOK
  <2>6. QED
    BY <1>0, <2>3, <2>4, <2>5, <2>p DEF Coalesce, IInv, TypeOK, places
<1>6. Rooted'
  BY <1>0, <1>1, <1>3, <1>4 DEF Coalesce, IInv, TypeOK, Rooted, Placed, places
<1>7. NodesCover'
  <2>1. fn' = fn
    BY DEF Coalesce
  <2>2. ASSUME NEW v \in Vreg
        PROVE  edges[root[v]] \subseteq edges'[root'[v]]
    BY <1>0, <1>1, <1>4 DEF IInv, TypeOK
  <2>3. ASSUME NEW v \in Vreg
        PROVE  clobbers[root[v]] \subseteq clobbers'[root'[v]]
    BY <1>0, <1>1, <1>4 DEF IInv, TypeOK
  <2>4. \A u, v \in Vreg : Interferes(u, v) => v \in edges'[root'[u]]
    BY <2>2 DEF IInv, NodesCover
  <2>5. \A v \in Vreg : Destroyed(fn, v) \subseteq clobbers'[root'[v]]
    BY <2>3 DEF IInv, NodesCover
  <2>6. QED
    BY <1>0, <2>1, <2>4, <2>5 DEF NodesCover, Interferes
<1>8. ParamsColoured'
  BY <1>0, <1>4 DEF Coalesce, IInv, ParamsColoured, Coloured, places
<1>9. WorkIsToDo'
  BY <1>0 DEF Coalesce, IInv, WorkIsToDo
<1>10. NobodyForgotten'
  BY <1>0, <1>1, <1>4 DEF Coalesce, IInv, TypeOK, NobodyForgotten, Coloured, InWork, Placed, places
<1>11. PlacesExclusive'
  BY <1>0, <1>1, <1>2, <1>4 DEF Coalesce, IInv, PlacesExclusive, Coloured, Placed, places
<1>12. NodesApart'
  <2>1. \A v \in Vreg : /\ root'[v] \in Vreg
                        /\ Coloured(root'[v]) => root'[v] = root[v] /\ root[v] # s
                        /\ ~Coloured(root[v]) => ~Coloured(root'[v])
                        /\ root[v] # d => root'[v] = root[v]
    BY <1>0, <1>2, <1>4 DEF IInv, TypeOK
  <2>2. reg' = reg
    BY DEF Coalesce, places
  <2>3. ASSUME NEW u \in Vreg, NEW v \in Vreg, Interferes(u, v), root'[u] # root'[v],
               Coloured(root'[u])
        PROVE  reg[root'[u]] # reg[root'[v]]
    <3>1. root'[u] = root[u]
      BY <2>1, <2>3
    <3>2. CASE root[v] = d
      <4>1. root'[v] = s
        BY <1>4, <3>2
      <4>2. QED
        BY <1>2, <2>3, <4>1 DEF Coloured
    <3>3. CASE root[v] # d
      BY <2>1, <2>3, <3>1, <3>3 DEF IInv, NodesApart
    <3>4. QED
      BY <3>2, <3>3
  <2>4. ASSUME NEW v \in Vreg, Coloured(root'[v]), root'[v] \notin Precoloured
        PROVE  reg[root'[v]] \notin clobbers'[root'[v]]
    BY <1>0, <1>4, <2>1, <2>4 DEF IInv, NodesApart, TypeOK
  <2>5. QED
    BY <1>0, <2>2, <2>3, <2>4 DEF NodesApart, Coloured, Interferes, Coalesce
<1>13. Saved' /\ IndexStarts'
  BY <1>0 DEF Coalesce, IInv, TypeOK, Saved, IndexStarts
<1>14. QED
  BY <1>0, <1>5, <1>6, <1>7, <1>8, <1>9, <1>10, <1>11, <1>12, <1>13 DEF IInv, Coalesce

-----------------------------------------------------------------------------
\* A representative that leaves the graph joins the work list.
LEMMA PushIInv ==
    ASSUME IInv, pc = "simplify", NEW v \in Remaining, Push(v),
           i' \in Nat, progress' \in BOOLEAN,
           UNCHANGED <<graph, places, across, used, pc>>
    PROVE  IInv'
<1>0. /\ Vreg' = Vreg /\ Precoloured' = Precoloured
      /\ v \in Vreg /\ v \notin simplified /\ v \notin spilled
      /\ work' = Append(work, v) /\ simplified' = simplified \cup {v}
  BY DEF graph, Vreg, Precoloured, Remaining, Push
<1>1. root[v] = v /\ v \notin Precoloured /\ ~Coloured(v) /\ slot[v] = 0
  BY <1>0 DEF IInv, Rooted, ParamsColoured, PlacesExclusive
<1>2. /\ Len(work) \in Nat /\ Len(work') = Len(work) + 1
      /\ \A k \in 1..Len(work') : work'[k] = IF k = Len(work) + 1 THEN v ELSE work[k]
      /\ \A k \in 1..Len(work') : k = Len(work) + 1 \/ k \in 1..Len(work)
      /\ DOMAIN work' = 1..Len(work') /\ DOMAIN work = 1..Len(work)
  BY <1>0 DEF IInv, TypeOK
<1>3. TypeOK'
  <2>1. degree' \in [Vreg -> Int]
    BY DecreasedType DEF Push, IInv
  <2>2. work' \in Seq(Vreg) /\ simplified' \subseteq Vreg
    BY <1>0 DEF IInv, TypeOK
  <2>3. TypeOK
    BY DEF IInv
  <2>4. QED
    BY <1>0, <2>1, <2>2, <2>3 DEF TypeOK, graph, places
<1>4. Rooted' /\ NodesCover'
  BY <1>0 DEF IInv, Rooted, NodesCover, graph, places, Placed, Interferes, Destroyed
<1>5. ParamsColoured'
  BY <1>0 DEF IInv, ParamsColoured, Coloured, graph, places
<1>6. WorkIsToDo'
  <2>1. \A k \in 1..Len(work) : work[k] # v
    BY <1>0 DEF IInv, WorkIsToDo
  <2>2. IsInjective(work')
    BY <1>2, <2>1 DEF IInv, WorkIsToDo, IsInjective
  <2>3. QED
    BY <1>0, <1>1, <1>2, <2>2 DEF IInv, WorkIsToDo, Coloured, graph, places
<1>7. NobodyForgotten'
  <2>1. \A u : InWork(u) => InWork(u)'
    BY <1>2 DEF InWork
  <2>2. InWork(v)'
    BY <1>2 DEF InWork
  <2>3. QED
    BY <1>0, <2>1, <2>2 DEF IInv, NobodyForgotten, Coloured, Placed, graph, places
<1>8. PlacesExclusive' /\ NodesApart' /\ Saved' /\ IndexStarts'
  BY <1>0 DEF IInv, PlacesExclusive, NodesApart, Saved, IndexStarts, Coloured, Placed,
         Interferes, graph, places
<1>9. QED
  BY <1>0, <1>3, <1>4, <1>5, <1>6, <1>7, <1>8 DEF IInv, graph

LEMMA SimplifyIInv == ASSUME IInv, Simplify PROVE IInv'
<1>1. i \in Remaining /\ i' \in Nat /\ progress' \in BOOLEAN
  BY DEF Simplify, Easy, IInv, TypeOK
<1>2. QED
  BY <1>1, PushIInv DEF Simplify

LEMMA PushSpillCandidateIInv ==
    ASSUME IInv, NEW v \in Vreg, PushSpillCandidate(v) PROVE IInv'
<1>1. v \in Remaining /\ i' \in Nat /\ progress' \in BOOLEAN
  BY DEF PushSpillCandidate, Cheapest, IInv, TypeOK
<1>2. QED
  BY <1>1, PushIInv DEF PushSpillCandidate

-----------------------------------------------------------------------------
\* A free register keeps a node apart from all its neighbours.
LEMMA ColourNode ==
    ASSUME IInv, ~Placed, pc \notin {"params", "coalesce", "simplify"},
           NEW w \in Vreg, root[w] = w, w \notin Precoloured, slot[w] = 0,
           NEW r \in Register, r \in Free(w), reg' = [reg EXCEPT ![w] = r],
           UNCHANGED <<graph, spilled, slot, slots, simplified>>, pc' = pc
    PROVE  /\ reg' \in [Vreg -> Register \cup {NoReg}]
           /\ ParamsColoured'
           /\ PlacesExclusive'
           /\ NodesApart'
<1>0. /\ Vreg' = Vreg /\ Precoloured' = Precoloured
      /\ \A v \in Vreg : reg'[v] = IF v = w THEN r ELSE reg[v]
      /\ reg' \in [Vreg -> Register \cup {NoReg}]
  BY DEF IInv, TypeOK, graph, Vreg, Precoloured
<1>1. ParamsColoured'
  BY <1>0 DEF IInv, ParamsColoured, Coloured, graph
<1>2. PlacesExclusive'
  BY <1>0 DEF IInv, PlacesExclusive, Coloured, Placed, graph
<1>3. NodesApart'
  <2>0. fn' = fn /\ root' = root /\ clobbers' = clobbers /\ root \in [Vreg -> Vreg]
    BY DEF graph, IInv, TypeOK
  <2>1. ASSUME NEW u \in Vreg, NEW v \in Vreg, Interferes(u, v), root[u] = w, root[v] # w
        PROVE  reg[root[v]] # r
    BY <2>1 DEF IInv, NodesCover, Free, UsedByNeighbour
  <2>2. ASSUME NEW u \in Vreg, NEW v \in Vreg, Interferes(u, v), root[u] # root[v],
               reg'[root[u]] # NoReg
        PROVE  reg'[root[u]] # reg'[root[v]]
    <3>1. Interferes(v, u) /\ root[u] \in Vreg /\ root[v] \in Vreg
      BY <2>0, <2>2, InterferesSymmetric DEF IInv
    <3>2. CASE root[u] = w
      BY <1>0, <2>1, <2>2, <3>1, <3>2
    <3>3. CASE root[v] = w
      BY <1>0, <2>1, <2>2, <3>1, <3>3
    <3>4. CASE root[u] # w /\ root[v] # w
      BY <1>0, <2>2, <3>1, <3>4 DEF IInv, NodesApart, Coloured
    <3>5. QED
      BY <3>2, <3>3, <3>4
  <2>3. ASSUME NEW v \in Vreg, reg'[root[v]] # NoReg, root[v] \notin Precoloured
        PROVE  reg'[root[v]] \notin clobbers[root[v]]
    BY <1>0, <2>0, <2>3 DEF IInv, NodesApart, Coloured, Free
  <2>4. QED
    BY <1>0, <2>0, <2>2, <2>3 DEF NodesApart, Coloured, Interferes
<1>4. QED
  BY <1>0, <1>1, <1>2, <1>3

LEMMA TakePreferredIInv ==
    ASSUME IInv, NEW r \in Register, TakePreferred(r) PROVE IInv'
<1> DEFINE w == work[i]
<1>0. /\ Vreg' = Vreg /\ Precoloured' = Precoloured /\ fn' = fn
      /\ i \in 1..Len(work) /\ w \in Vreg
      /\ pc = "prefer" /\ ~Placed /\ work' = work
  <2>1. fn' = fn /\ pc = "prefer" /\ ~Placed /\ work' = work
    BY DEF TakePreferred, graph, Placed
  <2>2. i \in 1..Len(work)
    BY <2>1 DEF TakePreferred, IInv, TypeOK, IndexStarts
  <2>3. w \in Vreg
    BY <2>2 DEF IInv, TypeOK
  <2>4. QED
    BY <2>1, <2>2, <2>3 DEF Vreg, Precoloured
<1>1. root[w] = w /\ w \notin Precoloured /\ slot[w] = 0
  BY <1>0 DEF IInv, WorkIsToDo
<1>2. r \in Free(w) /\ reg' = [reg EXCEPT ![w] = r]
  BY DEF TakePreferred, FreePreferred
<1>3. reg' \in [Vreg -> Register \cup {NoReg}] /\ ParamsColoured' /\ PlacesExclusive' /\ NodesApart'
  BY <1>0, <1>1, <1>2, ColourNode DEF TakePreferred
<1>4. TypeOK'
  <2>1. i' \in Nat
    BY DEF TakePreferred, IInv, TypeOK
  <2>2. QED
    BY <1>0, <1>3, <2>1 DEF TakePreferred, IInv, TypeOK, graph
<1>5. Rooted' /\ NodesCover'
  BY <1>0 DEF TakePreferred, IInv, Rooted, NodesCover, graph, Placed, Interferes, Destroyed
<1>6. WorkIsToDo'
  <2>1. \A k \in 1..Len(work) : k >= i + 1 => work[k] # w /\ k >= i
    BY <1>0 DEF IInv, WorkIsToDo, IsInjective, TypeOK
  <2>2. \A k \in 1..Len(work) : k >= i' => reg'[work[k]] = NoReg
    BY <1>0, <1>2, <2>1 DEF TakePreferred, IInv, TypeOK, WorkIsToDo, Coloured
  <2>3. QED
    BY <1>0, <2>2 DEF TakePreferred, IInv, WorkIsToDo, Coloured, graph
<1>7. NobodyForgotten'
  <2>1. \A v \in Vreg : Coloured(v) => reg'[v] # NoReg
    BY <1>2, RegisterAssumption DEF IInv, TypeOK, Coloured, NoReg, Register, Range
  <2>2. simplified \subseteq Vreg
    BY DEF IInv, TypeOK
  <2>3. QED
    BY <1>0, <2>1, <2>2 DEF TakePreferred, IInv, NobodyForgotten, Coloured, InWork, Placed, graph
<1>8. Saved' /\ IndexStarts'
  BY <1>0 DEF TakePreferred, IInv, Saved, IndexStarts
<1>9. QED
  BY <1>0, <1>3, <1>4, <1>5, <1>6, <1>7, <1>8 DEF IInv

\* What is left of the work list after a pop.
LEMMA PopWork ==
    ASSUME IInv, pc = "select", work # << >>, Pop
    PROVE  /\ Top \in Vreg /\ root[Top] = Top /\ Top \notin Precoloured /\ slot[Top] = 0
           /\ Top \notin spilled
           /\ work' \in Seq(Vreg)
           /\ \A k \in 1..Len(work') : k \in 1..Len(work) /\ work'[k] = work[k] /\ work[k] # Top
           /\ IsInjective(work')
           /\ \A v : InWork(v) => InWork(v)' \/ v = Top
<1>1. Len(work) \in Nat /\ Len(work) >= 1 /\ work \in Seq(Vreg)
  BY DEF IInv, TypeOK
<1>2. /\ work' \in Seq(Vreg)
      /\ Len(work') = Len(work) - 1
      /\ \A k \in 1..Len(work') : k \in 1..Len(work) /\ work'[k] = work[k]
      /\ DOMAIN work' = 1..Len(work') /\ DOMAIN work = 1..Len(work)
  <2>1. Len(work) - 1 \in 0..Len(work) /\ work' = SubSeq(work, 1, Len(work) - 1)
    BY <1>1 DEF Pop
  <2>2. Len(work') = Len(work) - 1 /\ work' \in Seq(Vreg)
    <3>1. \A k \in 1..(Len(work) - 1) : work[k] \in Vreg
      BY <1>1
    <3>2. Len(work) - 1 \in Int /\ 1 \in Int
      BY <1>1
    <3>3. /\ SubSeq(work, 1, Len(work) - 1) \in Seq(Vreg)
          /\ Len(SubSeq(work, 1, Len(work) - 1))
                = IF 1 <= Len(work) - 1 THEN Len(work) - 1 - 1 + 1 ELSE 0
      BY <3>1, <3>2, SubSeqProperties
    <3>4. work' \in Seq(Vreg)
      BY <2>1, <3>3
    <3>5. CASE Len(work) = 1
      BY <1>1, <2>1, <3>3, <3>4, <3>5
    <3>6. CASE Len(work) # 1
      <4>1. 1 <= Len(work) - 1 /\ Len(work) - 1 - 1 + 1 = Len(work) - 1
        BY <1>1, <3>6
      <4>2. QED
        BY <2>1, <3>3, <3>4, <4>1
    <3>7. QED
      BY <3>5, <3>6
  <2>3. \A k \in 1..Len(work') : k \in 1..Len(work) /\ work'[k] = work[k]
    BY <1>1, <2>1, <2>2
  <2>4. QED
    BY <1>1, <2>2, <2>3
<1>3. Top \in Vreg /\ root[Top] = Top /\ Top \notin Precoloured /\ slot[Top] = 0
  BY <1>1 DEF IInv, WorkIsToDo, Top
<1>4. Top \notin spilled
  BY <1>3 DEF IInv, PlacesExclusive
<1>5. \A k \in 1..Len(work') : work[k] # Top
  <2>1. \A k \in 1..Len(work') : k # Len(work) /\ k \in DOMAIN work /\ Len(work) \in DOMAIN work
    BY <1>1, <1>2
  <2>2. QED
    BY <2>1 DEF IInv, WorkIsToDo, IsInjective, Top
<1>6. IsInjective(work')
  BY <1>1, <1>2 DEF IInv, WorkIsToDo, IsInjective
<1>7. \A v : InWork(v) => InWork(v)' \/ v = Top
  <2> SUFFICES ASSUME NEW k \in 1..Len(work), k # Len(work)
               PROVE  k \in 1..Len(work') /\ work'[k] = work[k]
    BY DEF InWork, Top
  <2> QED
    BY <1>1, <1>2
<1>8. QED
  BY <1>2, <1>3, <1>4, <1>5, <1>6, <1>7

LEMMA AlreadyPlacedIInv == ASSUME IInv, AlreadyPlaced PROVE IInv'
<1>0. /\ Vreg' = Vreg /\ Precoloured' = Precoloured /\ Coloured(Top)
  BY DEF AlreadyPlaced, graph, Vreg, Precoloured, Coloured
<1>1. /\ work' \in Seq(Vreg)
      /\ \A k \in 1..Len(work') : k \in 1..Len(work) /\ work'[k] = work[k]
      /\ IsInjective(work')
      /\ \A v : InWork(v) => InWork(v)' \/ v = Top
  BY PopWork DEF AlreadyPlaced
<1>2. TypeOK' /\ Rooted' /\ NodesCover' /\ ParamsColoured'
  BY <1>0, <1>1 DEF AlreadyPlaced, IInv, TypeOK, Rooted, NodesCover, ParamsColoured,
         Placed, Interferes, Destroyed, Coloured, graph, places
<1>3. WorkIsToDo'
  BY <1>0, <1>1 DEF AlreadyPlaced, IInv, WorkIsToDo, Coloured, graph, places
<1>4. NobodyForgotten'
  BY <1>0, <1>1 DEF AlreadyPlaced, IInv, NobodyForgotten, Coloured, Placed, graph, places
<1>5. PlacesExclusive' /\ NodesApart' /\ Saved' /\ IndexStarts'
  BY <1>0 DEF AlreadyPlaced, IInv, PlacesExclusive, NodesApart, Saved, IndexStarts, Placed,
         Interferes, Coloured, graph, places
<1>6. QED
  BY <1>0, <1>2, <1>3, <1>4, <1>5 DEF IInv, AlreadyPlaced, graph

LEMMA SelectIInv == ASSUME IInv, NEW r \in Register, Select(r) PROVE IInv'
<1>0. /\ Vreg' = Vreg /\ Precoloured' = Precoloured /\ fn' = fn
      /\ pc = "select" /\ ~Placed /\ pc' = pc
  BY DEF Select, graph, Vreg, Precoloured, Placed
<1>1. /\ Top \in Vreg /\ root[Top] = Top /\ Top \notin Precoloured /\ slot[Top] = 0
      /\ work' \in Seq(Vreg)
      /\ \A k \in 1..Len(work') : k \in 1..Len(work) /\ work'[k] = work[k]
      /\ IsInjective(work')
      /\ \A v : InWork(v) => InWork(v)' \/ v = Top
  BY PopWork DEF Select
<1>2. r \in Free(Top) /\ reg' = [reg EXCEPT ![Top] = r]
  BY DEF Select, FirstFree
<1>3. /\ reg' \in [Vreg -> Register \cup {NoReg}]
      /\ ParamsColoured' /\ PlacesExclusive' /\ NodesApart'
  BY <1>0, <1>1, <1>2, ColourNode DEF Select
<1>4. TypeOK' /\ Rooted' /\ NodesCover'
  BY <1>0, <1>1, <1>3 DEF Select, IInv, TypeOK, Rooted, NodesCover, Placed, Interferes,
         Destroyed, graph
<1>5. WorkIsToDo'
  BY <1>0, <1>1 DEF Select, IInv, WorkIsToDo, Coloured, graph
<1>6. NobodyForgotten'
  <2>1. \A v \in Vreg : Coloured(v) => reg'[v] # NoReg
    BY <1>2, RegisterAssumption DEF IInv, TypeOK, Coloured, NoReg, Register, Range
  <2>2. reg'[Top] # NoReg /\ simplified \subseteq Vreg
    BY <1>1, <1>2, RegisterAssumption DEF IInv, TypeOK, NoReg, Register, Range
  <2>3. QED
    BY <1>0, <1>1, <2>1, <2>2 DEF Select, IInv, NobodyForgotten, Coloured, Placed, graph
<1>7. Saved' /\ IndexStarts'
  BY <1>0 DEF Select, IInv, Saved, IndexStarts
<1>8. QED
  BY <1>0, <1>3, <1>4, <1>5, <1>6, <1>7 DEF IInv

\* A node without a free register gets a slot.
LEMMA SelectSlotIInv == ASSUME IInv, SelectSlot PROVE IInv'
<1>0. /\ Vreg' = Vreg /\ Precoloured' = Precoloured /\ fn' = fn
      /\ pc = "select" /\ ~Placed /\ pc' = pc /\ ~Coloured(Top)
  BY DEF SelectSlot, graph, Vreg, Precoloured, Placed, Coloured
<1>1. /\ Top \in Vreg /\ root[Top] = Top /\ Top \notin Precoloured
      /\ work' \in Seq(Vreg)
      /\ \A k \in 1..Len(work') : k \in 1..Len(work) /\ work'[k] = work[k] /\ work[k] # Top
      /\ IsInjective(work')
      /\ \A v : InWork(v) => InWork(v)' \/ v = Top
  BY PopWork DEF SelectSlot
<1>2. /\ spilled' = spilled \cup {Top} /\ reg' = reg
      /\ slots' \in Seq(BOOLEAN)
      /\ slot' \in [Vreg -> 0..Len(slots')]
      /\ slot'[Top] # 0
      /\ \A u \in Vreg : u # Top => slot'[u] = slot[u]
  BY <1>1, SpillPlaces DEF SelectSlot, IInv
<1>3. TypeOK'
  BY <1>0, <1>1, <1>2 DEF SelectSlot, IInv, TypeOK, graph
<1>4. Rooted' /\ NodesCover' /\ ParamsColoured'
  BY <1>0, <1>1, <1>2 DEF SelectSlot, IInv, Rooted, NodesCover, ParamsColoured, Placed,
         Interferes, Destroyed, Coloured, graph
<1>5. WorkIsToDo'
  <2>1. \A k \in 1..Len(work) : work[k] \in Vreg
    BY DEF IInv, TypeOK
  <2>2. QED
    BY <1>0, <1>1, <1>2, <2>1 DEF SelectSlot, IInv, WorkIsToDo, Coloured, graph
<1>6. NobodyForgotten'
  <2>1. simplified \subseteq Vreg
    BY DEF IInv, TypeOK
  <2>2. QED
    BY <1>0, <1>1, <1>2, <2>1 DEF SelectSlot, IInv, NobodyForgotten, Coloured, Placed, graph
<1>7. PlacesExclusive'
  BY <1>0, <1>1, <1>2 DEF SelectSlot, IInv, PlacesExclusive, Placed, Coloured, graph
<1>s. NodesApart' /\ Saved' /\ IndexStarts'
  BY <1>0, <1>2 DEF SelectSlot, IInv, NodesApart, Saved, IndexStarts, Interferes, Coloured, graph
<1>8. QED
  BY <1>0, <1>3, <1>4, <1>5, <1>6, <1>7, <1>s DEF IInv

\* The coalesced vregs follow their representative.
LEMMA PropagateIInv == ASSUME IInv, Propagate PROVE IInv'
<1>0. /\ Vreg' = Vreg /\ Precoloured' = Precoloured /\ fn' = fn /\ root' = root
      /\ root \in [Vreg -> Vreg] /\ pc = "select" /\ ~Placed /\ pc' = "across" /\ Placed'
      /\ work = << >> /\ work' = work
  BY DEF Propagate, graph, Vreg, Precoloured, Placed, IInv, TypeOK
<1>1. /\ \A v \in Vreg : root[v] \in Vreg /\ root[root[v]] = root[v]
      /\ \A v \in Vreg : reg'[v] = reg[root[v]] /\ slot'[v] = slot[root[v]]
      /\ \A v \in Vreg : v \in spilled' <=> root[v] \in spilled
      /\ \A v \in Vreg : reg'[root[v]] = reg[root[v]]
  BY <1>0 DEF Propagate, IInv, Rooted
<1>2. TypeOK'
  <2>1. reg' \in [Vreg -> Register \cup {NoReg}] /\ slot' \in [Vreg -> 0..Len(slots)]
    BY <1>0 DEF Propagate, IInv, TypeOK
  <2>2. spilled' \subseteq Vreg
    BY DEF Propagate
  <2>3. QED
    BY <1>0, <2>1, <2>2 DEF Propagate, IInv, TypeOK, graph
<1>3. Rooted' /\ NodesCover'
  BY <1>0 DEF Propagate, IInv, Rooted, NodesCover, Interferes, Destroyed, graph
<1>4. ParamsColoured'
  <2>1. \A v \in Precoloured : v \in Vreg /\ root[v] = v
    <3>1. Precoloured \subseteq simplified
      BY <1>0 DEF IInv, ParamsColoured
    <3>2. ASSUME NEW v \in Precoloured PROVE v \in Vreg
      BY <3>1 DEF IInv, TypeOK
    <3>3. ASSUME NEW v \in Precoloured PROVE root[v] = v
      BY <1>0, <3>2 DEF IInv, Rooted
    <3>4. QED
      BY <3>2, <3>3
  <2>2. QED
    BY <1>0, <1>1, <2>1 DEF Propagate, IInv, ParamsColoured, graph
<1>5. WorkIsToDo'
  BY <1>0 DEF WorkIsToDo, IsInjective
<1>6. NobodyForgotten'
  <2>1. \A v \in Vreg : ~InWork(v)
    BY <1>0 DEF InWork
  <2>2. simplified \subseteq Vreg
    BY DEF IInv, TypeOK
  <2>3. \A v \in Vreg : v \in simplified \/ v \in spilled'
    BY <1>0, <1>1 DEF IInv, NobodyForgotten, Rooted
  <2>4. \A v \in simplified : root[v] = v => reg'[v] # NoReg \/ slot'[v] # 0
    BY <1>1, <2>1, <2>2 DEF IInv, NobodyForgotten, Coloured
  <2>5. QED
    BY <1>0, <2>3, <2>4 DEF Propagate, NobodyForgotten, Coloured
<1>7. PlacesExclusive'
  BY <1>0, <1>1 DEF IInv, PlacesExclusive, Coloured
<1>8. NodesApart'
  BY <1>0, <1>1 DEF Propagate, IInv, NodesApart, Coloured, Interferes, graph
<1>9. Saved' /\ IndexStarts'
  BY <1>0 DEF Saved, IndexStarts
<1>10. QED
  BY <1>0, <1>2, <1>3, <1>4, <1>5, <1>6, <1>7, <1>8, <1>9 DEF IInv

\* What is pushed around the calls is what is alive in caller-saved registers.
LEMMA SaveAcrossIInv == ASSUME IInv, SaveAcross PROVE IInv'
<1>0. /\ Vreg' = Vreg /\ Precoloured' = Precoloured
      /\ pc = "across" /\ pc' = "done" /\ Placed /\ Placed'
  BY DEF SaveAcross, graph, Vreg, Precoloured, Placed
<1>1. Saved'
  BY <1>0 DEF SaveAcross, Saved, graph, places
<1>2. TypeOK' /\ Rooted' /\ NodesCover' /\ ParamsColoured'
  BY <1>0 DEF SaveAcross, IInv, TypeOK, Rooted, NodesCover, ParamsColoured,
         Interferes, Destroyed, Coloured, graph, places
<1>3. /\ WorkIsToDo' /\ NobodyForgotten' /\ PlacesExclusive' /\ NodesApart' /\ IndexStarts'
  BY <1>0 DEF SaveAcross, IInv, WorkIsToDo, NobodyForgotten, PlacesExclusive, NodesApart,
         IndexStarts, Interferes, Coloured, InWork, graph, places
<1>4. QED
  BY <1>0, <1>1, <1>2, <1>3 DEF IInv, SaveAcross, graph

-----------------------------------------------------------------------------
LEMMA StutterIInv == ASSUME IInv, UNCHANGED vars PROVE IInv'
<1>1. Vreg' = Vreg /\ Precoloured' = Precoloured
  BY DEF vars, Vreg, Precoloured
<1>2. QED
  <2>1. TypeOK'
    BY <1>1 DEF vars, IInv, TypeOK
  <2>2. QED
    BY <1>1, <2>1 DEF vars, IInv, Rooted, NodesCover, ParamsColoured, WorkIsToDo,
           NobodyForgotten, PlacesExclusive, NodesApart, Saved, IndexStarts, Placed,
           Interferes, Destroyed, Coloured, InWork

\* IInv is an invariant.
LEMMA Invariance == Spec => []IInv
<1>1. IInv /\ [Next]_vars => IInv'
  <2> SUFFICES ASSUME IInv, [Next]_vars PROVE IInv'
    OBVIOUS
  <2>1. CASE \E v \in Vreg : PushSpillCandidate(v)
    BY <2>1, PushSpillCandidateIInv
  <2>2. CASE \E r \in Register : TakePreferred(r)
    BY <2>2, TakePreferredIInv
  <2>3. CASE \E r \in Register : Select(r)
    BY <2>3, SelectIInv
  <2>4. CASE ColourParam \/ SpillParam \/ ParamsDone \/ Coalesce \/ KeepApart \/ CoalesceDone
    BY <2>4, ColourParamIInv, SpillParamIInv, ParamsDoneIInv, CoalesceIInv, KeepApartIInv,
       CoalesceDoneIInv
  <2>5. CASE Simplify \/ PassOver \/ NextPass \/ SimplifyDone
    BY <2>5, SimplifyIInv, PassOverIInv, NextPassIInv, SimplifyDoneIInv
  <2>6. CASE NoPreferred \/ PreferDone \/ AlreadyPlaced \/ SelectSlot \/ Propagate \/ SaveAcross
    BY <2>6, NoPreferredIInv, PreferDoneIInv, AlreadyPlacedIInv, SelectSlotIInv, PropagateIInv,
       SaveAcrossIInv
  <2>7. CASE UNCHANGED vars
    BY <2>7, StutterIInv
  <2>8. QED
    BY <2>1, <2>2, <2>3, <2>4, <2>5, <2>6, <2>7 DEF Next
<1>2. QED
  BY InitIInv, <1>1, PTL DEF Spec

\* Every variable keeps its type.
THEOREM TypeCorrect == Spec => []TypeOK
<1>1. IInv => TypeOK
  BY DEF IInv
<1>2. QED
  BY Invariance, <1>1, PTL

\* The colouring is proper: coalescing, spilling and the two colouring passes
\* never put two vregs of different nodes that are alive together in the same
\* register.
THEOREM ColouringIsProper == Spec => []ProperColouring
<1>1. IInv => ProperColouring
  <2> SUFFICES ASSUME IInv, Placed, NEW u \in Vreg, NEW v \in Vreg, Interferes(u, v),
                      root[u] # root[v], reg[u] # NoReg
               PROVE  reg[u] # reg[v]
    BY DEF ProperColouring
  <2>1. reg[u] = reg[root[u]] /\ reg[v] = reg[root[v]]
    BY DEF IInv, PlacesExclusive
  <2>2. QED
    BY <2>1 DEF IInv, NodesApart, Coloured
<1>2. QED
  BY Invariance, <1>1, PTL

\* No vreg but a parameter is in a register that is destroyed while it, or
\* anything coalesced with it, is alive.
THEOREM ClobbersAreAvoided == Spec => []ClobbersAvoided
<1>1. IInv => ClobbersAvoided
  <2> SUFFICES ASSUME IInv, Placed, NEW v \in Vreg, reg[v] # NoReg, v \notin Precoloured,
                      NEW u \in Vreg, root[u] = root[v]
               PROVE  reg[v] \notin Destroyed(fn, u)
    BY DEF ClobbersAvoided
  <2>1. reg[v] = reg[root[v]] /\ Destroyed(fn, u) \subseteq clobbers[root[v]]
    BY DEF IInv, PlacesExclusive, NodesCover
  <2>2. root[v] \notin Precoloured
    BY DEF IInv, Rooted
  <2>3. QED
    BY <2>1, <2>2 DEF IInv, NodesApart, Coloured
<1>2. QED
  BY Invariance, <1>1, PTL

\* No vreg is forgotten and none gets two places.
LEMMA PlacedEach == IInv => OnePlaceEach
<1> SUFFICES ASSUME IInv, Placed, NEW v \in Vreg
               PROVE  /\ (reg[v] = NoReg) <=> (slot[v] # 0)
                      /\ reg[v] = reg[root[v]] /\ slot[v] = slot[root[v]]
  BY DEF OnePlaceEach
<1>1. reg[v] = reg[root[v]] /\ slot[v] = slot[root[v]] /\ root[v] \in Vreg
  BY DEF IInv, PlacesExclusive, TypeOK
<1>2. ~InWork(root[v]) /\ root[root[v]] = root[v]
  BY DEF IInv, NobodyForgotten, InWork, Rooted
<1>3. Coloured(root[v]) \/ slot[root[v]] # 0
  BY <1>1, <1>2 DEF IInv, NobodyForgotten, PlacesExclusive, Placed
<1>4. QED
  BY <1>1, <1>3 DEF IInv, PlacesExclusive, Coloured

\* Every vreg ends up in exactly one place, that of its representative.
THEOREM EveryVregPlaced == Spec => []OnePlaceEach
  BY Invariance, PlacedEach, PTL


\* What is alive across a call is never left in a register that the call
\* destroys: it is in a slot or a callee-saved register, or it is pushed.
THEOREM CallsAreSurvived == Spec => []SurvivesCalls
<1>1. IInv => SurvivesCalls
  <2> SUFFICES ASSUME IInv, pc = "done", NEW v \in Vreg, NEW c \in fn.calls,
                      fn.start[v] < c, c < fn.end[v], slot[v] = 0, reg[v] \in CallerSaved
               PROVE  reg[v] \in across[c] /\ reg[v] # ReturnReg
    BY DEF SurvivesCalls
  <2>0. fn.start[v] <= c /\ c <= fn.end[v]
    BY FnFacts DEF IInv
  <2>1. reg[v] \in across[c]
    BY <2>0 DEF IInv, Saved
  <2>2. ReturnReg \in Destroyed(fn, v)
    <3>1. <<ReturnReg, c>> \in fn.clobber /\ ReturnReg \in Register
      BY FnFacts DEF IInv
    <3>2. QED
      BY <2>0, <3>1 DEF Destroyed
  <2>3. reg[v] # NoReg
    BY PlacedEach DEF OnePlaceEach, Placed
  <2>4. CASE v \in Precoloured
    BY <2>1, <2>3, <2>4, RegisterAssumption DEF IInv, ParamsColoured
  <2>5. CASE v \notin Precoloured
    <3>1. reg[v] = reg[root[v]] /\ Destroyed(fn, v) \subseteq clobbers[root[v]]
          /\ root[v] \notin Precoloured
      BY <2>5 DEF IInv, PlacesExclusive, NodesCover, Placed, Rooted
    <3>2. QED
      BY <2>1, <2>2, <2>3, <3>1 DEF IInv, NodesApart, Coloured
  <2>6. QED
    BY <2>1, <2>4, <2>5
<1>2. QED
  BY Invariance, <1>1, PTL

\* A register once given to a vreg is never taken away or exchanged.
THEOREM RegistersAreKept == Spec => ColoursKept
<1>1. ASSUME IInv, [Next]_vars PROVE [\A v \in Vreg : reg[v] # NoReg => reg'[v] = reg[v]]_vars
  <2> SUFFICES ASSUME Next, NEW v \in Vreg, reg[v] # NoReg PROVE reg'[v] = reg[v]
    BY <1>1
  <2>1. CASE ColourParam
    <3>1. fn.params[i] # v
      <4>1. i \in 1..Len(fn.params)
        BY <1>1, <2>1, FnFacts DEF ColourParam, IInv, TypeOK, IndexStarts
      <4>2. \A k \in 1..Len(fn.params) : fn.params[k] = fn.params[i] => ~(k < i)
        <5>1. IsInjective(fn.params) /\ DOMAIN fn.params = 1..Len(fn.params)
          BY <1>1, FnFacts DEF IInv
        <5>2. QED
          BY <4>1, <5>1 DEF IsInjective
      <4>3. QED
        <5>1. ParamsColoured /\ pc = "params"
          BY <1>1, <2>1 DEF ColourParam, IInv
        <5>2. QED
          BY <4>2, <5>1 DEF ParamsColoured, Coloured
    <3>2. QED
      BY <1>1, <2>1, <3>1 DEF ColourParam, IInv, TypeOK
  <2>2. CASE \E r \in Register : TakePreferred(r)
    <3>1. PICK r \in Register : TakePreferred(r)
      BY <2>2
    <3>2. i \in 1..Len(work) /\ pc = "prefer"
      BY <1>1, <3>1 DEF TakePreferred, IInv, TypeOK, IndexStarts
    <3>3. work[i] # v
      BY <1>1, <3>2 DEF IInv, WorkIsToDo, Coloured, TypeOK
    <3>4. QED
      BY <1>1, <3>1, <3>3 DEF TakePreferred, IInv, TypeOK
  <2>3. CASE \E r \in Register : Select(r)
    BY <1>1, <2>3 DEF Select, IInv, TypeOK
  <2>4. CASE Propagate
    BY <1>1, <2>4 DEF Propagate, IInv, PlacesExclusive, Placed, Coloured
  <2>5. CASE SpillParam \/ SelectSlot
    BY <2>5 DEF SpillParam, SelectSlot, Spill
  <2>6. CASE \/ ParamsDone \/ Coalesce \/ KeepApart \/ CoalesceDone \/ Simplify \/ PassOver
             \/ NextPass \/ (\E u \in Vreg : PushSpillCandidate(u)) \/ SimplifyDone
             \/ NoPreferred \/ PreferDone \/ AlreadyPlaced \/ SaveAcross
    BY <2>6 DEF ParamsDone, Coalesce, KeepApart, CoalesceDone, Simplify, PassOver, NextPass,
           PushSpillCandidate, SimplifyDone, NoPreferred, PreferDone, AlreadyPlaced, SaveAcross,
           places
  <2>7. QED
    BY <2>1, <2>2, <2>3, <2>4, <2>5, <2>6 DEF Next
<1>2. QED
  BY Invariance, <1>1, PTL DEF Spec, ColoursKept
-----------------------------------------------------------------------------
\* The slot a node is spilled to is a new one, or one whose owners are not among
\* the node's neighbours.
LEMMA SpillApart ==
    ASSUME IInv, SlotsApart, NEW v \in Vreg, NEW a \in BOOLEAN, Spill(v, a),
           root[v] = v, fn' = fn, root' = root
    PROVE  SlotsApart'
<1>0. Vreg' = Vreg /\ slot \in [Vreg -> 0..Len(slots)] /\ Len(slots) \in Nat
  BY DEF Vreg, IInv, TypeOK
<1>1. \A u \in Vreg : u # v => slot'[u] = slot[u]
  BY SpillPlaces DEF IInv
<1>2. ASSUME NEW u \in Vreg, u # v, root[u] = u, slot[u] # 0, slot[u] = slot'[v]
      PROVE  ~Interferes(u, v) /\ ~Interferes(v, u)
  <2>1. u \in spilled
    BY <1>2 DEF IInv, PlacesExclusive
  <2>2. CASE slot' = [slot EXCEPT ![v] = Len(slots) + 1]
    BY <1>0, <1>2, <2>2
  <2>3. CASE \E s \in Shareable(v, a) : slot' = [slot EXCEPT ![v] = s]
    <3>1. u \notin edges[v]
      BY <1>0, <1>2, <2>1, <2>3 DEF Shareable
    <3>2. ~Interferes(v, u)
      BY <3>1 DEF IInv, NodesCover
    <3>3. QED
      BY <3>2, InterferesSymmetric DEF IInv
  <2>4. QED
    BY <2>2, <2>3 DEF Spill
<1>2a. \A u, w \in Vreg : Interferes(u, w)' = Interferes(u, w)
  BY DEF Interferes
<1>3. SUFFICES ASSUME NEW u \in Vreg, NEW w \in Vreg, root[u] = u, root[w] = w, u # w,
                      slot'[u] # 0, slot'[u] = slot'[w]
               PROVE  ~Interferes(u, w)
  BY <1>0, <1>2a DEF SlotsApart
<1>4. CASE u = v
  BY <1>1, <1>2, <1>3, <1>4
<1>5. CASE w = v
  BY <1>1, <1>2, <1>3, <1>5
<1>6. CASE u # v /\ w # v
  BY <1>1, <1>3, <1>6 DEF SlotsApart
<1>7. QED
  BY <1>4, <1>5, <1>6

\* Where nobody gets a slot, merging can only make fewer nodes.
LEMMA SlotsStayApart ==
    ASSUME SlotsApart, fn' = fn, slot' = slot, \A v \in Vreg : root'[v] = v => root[v] = v
    PROVE  SlotsApart'
  BY DEF SlotsApart, Vreg, Interferes

\* Nodes that share a stack slot are not alive together: whatever is spilled in
\* whatever order, and parameters on the stack included, register_allocator_spill
\* finds a slot none of whose owners meets the spilled node.
THEOREM SlotOwnersAreApart == Spec => []SlotOwnersApart
<1>1. Init => SlotsApart
  BY DEF Init, SlotsApart
<1>2. ASSUME IInv, SlotsApart, [Next]_vars PROVE SlotsApart'
  <2>1. CASE SpillParam
    <3>1. fn.params[i] \in Vreg /\ root[fn.params[i]] = fn.params[i]
      <4>1. i \in 1..Len(fn.params)
        BY <1>2, <2>1, FnFacts DEF SpillParam, IInv, TypeOK, IndexStarts
      <4>2. fn.params[i] \in Vreg
        BY <1>2, <4>1, FnFacts DEF IInv
      <4>3. QED
        BY <1>2, <2>1, <4>2 DEF SpillParam, IInv, Rooted
    <3>2. QED
      BY <1>2, <2>1, <3>1, SpillApart DEF SpillParam, graph
  <2>2. CASE SelectSlot
    <3>1. Top \in Vreg /\ root[Top] = Top
      BY <1>2, <2>2, PopWork DEF SelectSlot
    <3>2. QED
      BY <1>2, <2>2, <3>1, SpillApart DEF SelectSlot, graph
  <2>3. CASE Coalesce
    <3>1. \A v \in Vreg : root'[v] = v => root[v] = v
      <4>1. root \in [Vreg -> Vreg] /\ \A v \in Vreg : root[root[v]] = root[v]
        BY <1>2 DEF IInv, TypeOK, Rooted
      <4>2. fn.moves[i][1] \in Vreg /\ fn.moves[i][2] \in Vreg
        <5>1. i \in 1..Len(fn.moves) /\ fn.moves \in Seq(Vreg \X Vreg)
          BY <1>2, <2>3, FnFacts DEF Coalesce, IInv, TypeOK, IndexStarts
        <5>2. fn.moves[i] \in Vreg \X Vreg
          BY <5>1
        <5>3. QED
          BY <5>2
      <4>3. QED
        BY <2>3, <4>1, <4>2 DEF Coalesce, Merge
    <3>2. QED
      BY <1>2, <2>3, <3>1, SlotsStayApart DEF Coalesce, places
  <2>4. CASE Propagate
    <3>1. \A v \in Vreg : root[v] = v => slot'[v] = slot[v]
      BY <2>4 DEF Propagate
    <3>2. QED
      BY <1>2, <2>4, <3>1 DEF Propagate, SlotsApart, Vreg, Interferes, graph
  <2>5. CASE UNCHANGED <<fn, root, slot>>
    BY <1>2, <2>5, SlotsStayApart
  <2>6. QED
    BY <1>2, <2>1, <2>2, <2>3, <2>4, <2>5
    DEF Next, vars, graph, places, ColourParam, ParamsDone, KeepApart, CoalesceDone, Simplify,
        PassOver, NextPass, PushSpillCandidate, SimplifyDone, TakePreferred, NoPreferred,
        PreferDone, AlreadyPlaced, Select, SaveAcross
<1>3. SlotsApart => SlotOwnersApart
  BY DEF SlotsApart, SlotOwnersApart
<1>4. QED
  BY Invariance, <1>1, <1>2, <1>3, PTL DEF Spec
=============================================================================
