-------------------------- MODULE LiveRangeProofs --------------------------
(***************************************************************************)
(* What Liveness and LiveRange promise, proved for every function and      *)
(* every set of vregs.  The argument for the sets: InOf is monotone in     *)
(* the live_in sets, so a round that starts below its own result           *)
(* (Ascending) can only add, stays below every solution, and a round that  *)
(* adds nothing has solved the equations of every block it visited         *)
(* (VisitedSolved).                                                        *)
(*                                                                         *)
(* The argument for the intervals: the walk meets the instructions in      *)
(* falling order of their numbers, so a definition that overwrites a start *)
(* only moves it down, and ends only move up; what one visit has covered   *)
(* stays covered.                                                          *)
(***************************************************************************)
EXTENDS LiveRange, SequenceTheorems, FiniteSetTheorems, WellFoundedInduction, TLAPS

-----------------------------------------------------------------------------
(* Liveness.                                                               *)

\* What the assumption says of one function.
LEMMA FnFacts ==
    ASSUME WellTyped
    PROVE  /\ fn.n \in Nat
           /\ fn.succ \in [Block -> SUBSET Block]
           /\ fn.code \in [Block -> Seq(Instruction)]
  BY InputsAssumption DEF WellTyped, TypeOK, Block

\* The equations have values that are sets of vregs.
LEMMA InOfType ==
    ASSUME WellTyped, NEW c \in Block, NEW L \in [Block -> SUBSET Vreg]
    PROVE  OutOf(c, L) \in SUBSET Vreg /\ InOf(c, L) \in SUBSET Vreg
<1>1. fn.succ[c] \subseteq Block
  BY FnFacts
<1>2. uses[c] \subseteq Vreg
  BY DEF WellTyped, TypeOK
<1> QED
  BY <1>1, <1>2 DEF OutOf, InOf

\* More live at the starts, more live everywhere: what makes the rounds add.
LEMMA InOfMonotone ==
    ASSUME WellTyped, NEW c \in Block,
           NEW L, NEW M,
           \A d \in Block : L[d] \subseteq M[d]
    PROVE  OutOf(c, L) \subseteq OutOf(c, M) /\ InOf(c, L) \subseteq InOf(c, M)
<1>1. fn.succ[c] \subseteq Block
  BY FnFacts
<1>2. OutOf(c, L) \subseteq OutOf(c, M)
  BY <1>1 DEF OutOf
<1> QED
  BY <1>2 DEF InOf

\* One more instruction of a block seen.
LEMMA OneMoreScanned ==
    ASSUME WellTyped, NEW c \in Block, NEW m \in Nat
    PROVE  /\ UsedFirst(c, m + 1) = UsedFirst(c, m) \cup
                  ((Vreg \cap UsedIds(fn.code[c][m + 1])) \ DefinedBy(c, m))
           /\ DefinedBy(c, m + 1) = DefinedBy(c, m) \cup
                  (Vreg \cap DefinedIds(fn.code[c][m + 1]))
<1>1. \A j : j \in 1..(m + 1) <=> j \in 1..m \/ j = m + 1
  OBVIOUS
<1>2. DefinedBy(c, m + 1) = DefinedBy(c, m) \cup (Vreg \cap DefinedIds(fn.code[c][m + 1]))
  BY <1>1 DEF DefinedBy
<1>3. (m + 1) - 1 = m
  OBVIOUS
<1>4. ASSUME NEW v \in Vreg
      PROVE  v \in UsedFirst(c, m + 1) <=>
                 \/ v \in UsedFirst(c, m)
                 \/ v \in UsedIds(fn.code[c][m + 1]) /\ v \notin DefinedBy(c, m)
  BY <1>1, <1>3 DEF UsedFirst, DefinedBy
<1>5. UsedFirst(c, m) \subseteq Vreg /\ UsedFirst(c, m + 1) \subseteq Vreg
  BY DEF UsedFirst
<1> QED
  BY <1>2, <1>4, <1>5

\* Nothing seen, nothing recorded.
LEMMA NothingScanned ==
    ASSUME NEW c PROVE UsedFirst(c, 0) = {} /\ DefinedBy(c, 0) = {}
  BY DEF UsedFirst, DefinedBy

\* The invariant holds when the analysis starts.
LEMMA InitIInv == Init => IInv
<1> SUFFICES ASSUME Init PROVE IInv
  OBVIOUS
<1>0. fn.n \in Nat /\ fn.code \in [Block -> Seq(Instruction)]
  BY InputsAssumption DEF Init, Block
<1>1. Nothing \in [Block -> SUBSET Vreg]
  BY DEF Nothing
<1>2. b \in 0..fn.n
  BY <1>0 DEF Init
<1>3. ASSUME b >= 1 PROVE k <= Len(fn.code[b]) + 1
  <2>1. b \in Block
    BY <1>2, <1>3, <1>0 DEF Block
  <2>2. Len(fn.code[b]) \in Nat
    BY <2>1, <1>0
  <2> QED
    BY <2>2 DEF Init
<1>4. WellTyped
  BY <1>1, <1>2, <1>3 DEF WellTyped, TypeOK, Init
<1>5. NothingSuperfluous /\ VisitedSolved /\ DoneUnchanged /\ NotYetLive
  BY DEF Init, NothingSuperfluous, VisitedSolved, DoneUnchanged, NotYetLive
<1>6. Ascending
  BY DEF Init, Ascending, Nothing
<1>7. ScanExact
  <2> SUFFICES ASSUME NEW c \in Block PROVE Scanned(c) = 0
    BY NothingScanned DEF ScanExact, Init, Nothing
  <2> QED
    BY <1>0 DEF Scanned, Init, Block
<1> QED
  BY <1>4, <1>5, <1>6, <1>7 DEF IInv

-----------------------------------------------------------------------------
(* The local scan: nothing is live yet. *)

LEMMA ScanInstructionIInv ==
    ASSUME IInv, ScanInstruction
    PROVE  IInv'
<1>0. Block' = Block /\ WellTyped /\ NotYetLive /\ fn' = fn
  BY DEF IInv, ScanInstruction, Block
<1>1. b \in Block
  BY <1>0, FnFacts DEF WellTyped, TypeOK, ScanInstruction, Block
<1>2. Len(fn.code[b]) \in Nat
  BY <1>0, <1>1, FnFacts
<1>3. fn.code[b][k] \in Instruction
  <2>1. fn.code[b] \in Seq(Instruction)
    BY <1>0, <1>1, FnFacts
  <2>2. k \in 1..Len(fn.code[b])
    BY <1>0, <1>2 DEF WellTyped, TypeOK, ScanInstruction
  <2> QED
    BY <2>1, <2>2, ElementOfSeq
<1>4. uses' \in [Block -> SUBSET Vreg] /\ defs' \in [Block -> SUBSET Vreg]
  <2>1. UsedIds(fn.code[b][k]) \subseteq Vreg /\ DefinedIds(fn.code[b][k]) \subseteq Vreg
    BY <1>3 DEF Instruction, UsedIds, DefinedIds
  <2> QED
    BY <1>0, <1>1, <2>1 DEF WellTyped, TypeOK, ScanInstruction
<1>5. WellTyped'
  <2>1. k' \in Nat \ {0} /\ k' <= Len(fn.code[b]) + 1
    BY <1>0, <1>2 DEF WellTyped, TypeOK, ScanInstruction
  <2> QED
    BY <1>0, <1>4, <2>1 DEF WellTyped, TypeOK, ScanInstruction
<1>6. NotYetLive'
  BY <1>0 DEF NotYetLive, ScanInstruction, Nothing
<1>7. Ascending'
  BY <1>0, <1>6 DEF Ascending, NotYetLive, ScanInstruction, Nothing
<1>8. NothingSuperfluous' /\ VisitedSolved' /\ DoneUnchanged'
  BY DEF ScanInstruction, NothingSuperfluous, VisitedSolved, DoneUnchanged
<1>9. ScanExact'
  <2>1. /\ UsedIds(fn.code[b][k]) \subseteq Vreg
        /\ DefinedIds(fn.code[b][k]) \subseteq Vreg
    BY <1>3 DEF Instruction, UsedIds, DefinedIds
  <2>2. k - 1 \in Nat /\ (k - 1) + 1 = k
    BY <1>0 DEF WellTyped, TypeOK
  <2> SUFFICES ASSUME NEW c \in Block
               PROVE  /\ uses'[c] = UsedFirst(c, Scanned(c)')
                      /\ defs'[c] = DefinedBy(c, Scanned(c)')
    <3>1. fn' = fn /\ Block' = Block
      BY <1>0
    <3>2. ASSUME NEW c, NEW m
          PROVE  UsedFirst(c, m)' = UsedFirst(c, m') /\ DefinedBy(c, m)' = DefinedBy(c, m')
      BY <3>1 DEF UsedFirst, DefinedBy
    <3> QED
      BY <3>1 DEF ScanExact, UsedFirst, DefinedBy
  <2>3. uses[c] = UsedFirst(c, Scanned(c)) /\ defs[c] = DefinedBy(c, Scanned(c))
    BY DEF IInv, ScanExact
  <2>4. CASE c = b
    <3>1. Scanned(c) = k - 1 /\ Scanned(c)' = k
      BY <1>1, <2>2, <2>4 DEF Scanned, ScanInstruction, Block
    <3>2. /\ UsedFirst(b, k) = UsedFirst(b, k - 1) \cup
                 ((Vreg \cap UsedIds(fn.code[b][k])) \ DefinedBy(b, k - 1))
          /\ DefinedBy(b, k) = DefinedBy(b, k - 1) \cup (Vreg \cap DefinedIds(fn.code[b][k]))
      BY <1>0, <1>1, <2>2, OneMoreScanned
    <3>3. /\ uses'[b] = uses[b] \cup (UsedIds(fn.code[b][k]) \ defs[b])
          /\ defs'[b] = defs[b] \cup DefinedIds(fn.code[b][k])
      BY <1>0, <1>1 DEF ScanInstruction, WellTyped, TypeOK
    <3>4. uses'[c] = UsedFirst(c, k) /\ defs'[c] = DefinedBy(c, k)
      BY <2>1, <2>3, <2>4, <3>1, <3>2, <3>3
    <3> QED
      BY <3>1, <3>4
  <2>5. CASE c # b
    <3>1. Scanned(c)' = Scanned(c)
      BY <1>0, <2>5 DEF Scanned, ScanInstruction
    <3>2. uses'[c] = uses[c] /\ defs'[c] = defs[c]
      BY <1>0, <1>1, <2>5 DEF ScanInstruction, WellTyped, TypeOK
    <3> QED
      BY <2>3, <3>1, <3>2
  <2> QED
    BY <2>4, <2>5
<1> QED
  BY <1>5, <1>6, <1>7, <1>8, <1>9 DEF IInv

LEMMA BlockScannedIInv ==
    ASSUME IInv, BlockScanned
    PROVE  IInv'
<1>0. Block' = Block /\ WellTyped /\ NotYetLive /\ fn' = fn
  BY DEF IInv, BlockScanned, Block
<1>1. fn.n \in Nat /\ b' \in 0..fn.n
  BY <1>0, FnFacts DEF WellTyped, TypeOK, BlockScanned
<1>2. b' >= 1 => k' <= Len(fn.code[b']) + 1
  <2> SUFFICES ASSUME b' >= 1 PROVE k' <= Len(fn.code[b']) + 1
    OBVIOUS
  <2>1. b' \in Block
    BY <1>1 DEF Block
  <2>2. Len(fn.code[b']) \in Nat
    BY <1>0, <2>1, FnFacts
  <2> QED
    BY <2>2 DEF BlockScanned
<1>3. WellTyped'
  BY <1>0, <1>1, <1>2 DEF WellTyped, TypeOK, BlockScanned
<1>4. NotYetLive'
  BY <1>0 DEF NotYetLive, BlockScanned, Nothing
<1>5. Ascending'
  BY <1>0, <1>4 DEF Ascending, NotYetLive, BlockScanned, Nothing
<1>6. NothingSuperfluous' /\ VisitedSolved' /\ DoneUnchanged'
  BY DEF BlockScanned, NothingSuperfluous, VisitedSolved, DoneUnchanged
<1>7. ScanExact'
  <2> SUFFICES ASSUME NEW c \in Block PROVE Scanned(c)' = Scanned(c)
    BY <1>0 DEF ScanExact, UsedFirst, DefinedBy, BlockScanned, IInv
  <2>1. Len(fn.code[c]) \in Nat
    BY <1>0, FnFacts
  <2>2. pc = "local" /\ pc' = "local" /\ b >= 1 /\ k > Len(fn.code[b]) /\ b' = b - 1 /\ k' = 1
    BY DEF BlockScanned
  <2>3. b \in Nat /\ k \in Nat /\ c \in Nat /\ k <= Len(fn.code[b]) + 1
    BY <1>0, <1>1, <2>2 DEF WellTyped, TypeOK, Block
  <2>4. CASE c = b
    BY <1>0, <2>1, <2>2, <2>3, <2>4 DEF Scanned
  <2>5. CASE c # b
    BY <1>0, <2>1, <2>2, <2>3, <2>5 DEF Scanned
  <2> QED
    BY <2>4, <2>5
<1> QED
  BY <1>3, <1>4, <1>5, <1>6, <1>7 DEF IInv

LEMMA AllScannedIInv ==
    ASSUME IInv, AllScanned
    PROVE  IInv'
<1>0. Block' = Block /\ WellTyped /\ fn' = fn /\ liveIn' = Nothing /\ Nothing' = Nothing
  BY DEF IInv, AllScanned, Block, NotYetLive, Nothing
<1>1. fn.n \in Nat
  BY <1>0, FnFacts
<1>2. WellTyped'
  <2>1. b' \in 0..fn.n
    BY <1>0, <1>1 DEF AllScanned
  <2>2. changed' \in BOOLEAN /\ pc' = "global"
    BY DEF AllScanned
  <2> QED
    BY <1>0, <2>1, <2>2 DEF WellTyped, TypeOK, AllScanned
<1>3. NothingSuperfluous' /\ Ascending'
  BY <1>0 DEF NothingSuperfluous, Ascending, Nothing
<1>4. VisitedSolved'
  BY <1>0, <1>1 DEF VisitedSolved, AllScanned, Block
<1>5. NotYetLive' /\ DoneUnchanged'
  BY DEF NotYetLive, DoneUnchanged, AllScanned
<1>6. ScanExact'
  <2> SUFFICES ASSUME NEW c \in Block PROVE Scanned(c)' = Scanned(c)
    BY <1>0 DEF ScanExact, UsedFirst, DefinedBy, AllScanned, IInv
  <2> QED
    BY <1>0, <1>1 DEF Scanned, AllScanned, Block
<1> QED
  BY <1>2, <1>3, <1>4, <1>5, <1>6 DEF IInv

-----------------------------------------------------------------------------
(* The rounds. *)

\* They leave what the scan found.
LEMMA RoundsKeepScan ==
    ASSUME ScanExact, pc # "local", pc' # "local",
           fn' = fn, uses' = uses, defs' = defs
    PROVE  ScanExact'
<1>1. Block' = Block
  BY DEF Block
<1>2. ASSUME NEW c PROVE Scanned(c)' = Scanned(c)
  BY DEF Scanned
<1> QED
  BY <1>1, <1>2 DEF ScanExact, UsedFirst, DefinedBy

\* Recomputing block b only adds to live_in.
LEMMA UpdateGrows ==
    ASSUME IInv, UpdateBlock
    PROVE  /\ b \in Block
           /\ liveIn' \in [Block -> SUBSET Vreg]
           /\ \A c \in Block : liveIn[c] \subseteq liveIn'[c]
<1>0. WellTyped /\ Ascending
  BY DEF IInv
<1>1. b \in Block
  BY <1>0, FnFacts DEF WellTyped, TypeOK, UpdateBlock, Block
<1>2. liveIn' = [liveIn EXCEPT ![b] = InOf(b, liveIn)]
  BY DEF UpdateBlock
<1>3. liveIn \in [Block -> SUBSET Vreg]
  BY <1>0 DEF WellTyped, TypeOK
<1>4. InOf(b, liveIn) \in SUBSET Vreg
  BY <1>0, <1>1, <1>3, InOfType
<1>5. liveIn[b] \subseteq InOf(b, liveIn)
  BY <1>0, <1>1 DEF Ascending
<1> QED
  BY <1>1, <1>2, <1>3, <1>4, <1>5

LEMMA UpdateBlockIInv ==
    ASSUME IInv, UpdateBlock
    PROVE  IInv'
<1>0. WellTyped /\ Ascending /\ NothingSuperfluous /\ VisitedSolved
  BY DEF IInv
<1>1. /\ Block' = Block /\ fn' = fn /\ uses' = uses /\ defs' = defs
      /\ fn.n \in Nat /\ b \in 0..fn.n /\ b' = b - 1 /\ b >= 1 /\ pc = "global"
  BY <1>0, FnFacts DEF UpdateBlock, Block, WellTyped, TypeOK
<1>2. /\ b \in Block
      /\ liveIn' \in [Block -> SUBSET Vreg]
      /\ \A c \in Block : liveIn[c] \subseteq liveIn'[c]
  BY UpdateGrows
<1>3. liveIn \in [Block -> SUBSET Vreg] /\ liveOut \in [Block -> SUBSET Vreg]
  BY <1>0 DEF WellTyped, TypeOK
<1>4. liveIn' = [liveIn EXCEPT ![b] = InOf(b, liveIn)]
  BY DEF UpdateBlock
<1>5. ASSUME NEW c \in Block, NEW L PROVE OutOf(c, L)' = OutOf(c, L') /\ InOf(c, L)' = InOf(c, L')
  BY <1>1 DEF OutOf, InOf
<1>6. WellTyped'
  <2>1. OutOf(b, liveIn) \in SUBSET Vreg
    BY <1>0, <1>2, <1>3, InOfType
  <2>2. liveOut' \in [Block -> SUBSET Vreg]
    BY <1>3, <2>1 DEF UpdateBlock
  <2>3. b' \in 0..fn.n
    BY <1>1
  <2>4. changed' \in BOOLEAN
    BY DEF UpdateBlock
  <2>5. /\ uses' \in [Block -> SUBSET Vreg] /\ defs' \in [Block -> SUBSET Vreg]
        /\ fn' \in Inputs /\ k' \in Nat \ {0} /\ pc' = "global"
    BY <1>0, <1>1 DEF WellTyped, TypeOK, UpdateBlock
  <2> QED
    BY <1>1, <1>2, <2>2, <2>3, <2>4, <2>5 DEF WellTyped, TypeOK
<1>7. Ascending'
  <2> SUFFICES ASSUME NEW c \in Block PROVE liveIn'[c] \subseteq InOf(c, liveIn')
    BY <1>1 DEF Ascending, InOf, OutOf
  <2>1. InOf(c, liveIn) \subseteq InOf(c, liveIn')
    BY <1>0, <1>2, InOfMonotone
  <2>2. liveIn'[c] \subseteq InOf(c, liveIn)
    <3>1. CASE c = b
      BY <3>1, <1>3, <1>4
    <3>2. CASE c # b
      BY <3>2, <1>0, <1>3, <1>4 DEF Ascending
    <3> QED
      BY <3>1, <3>2
  <2> QED
    BY <2>1, <2>2
<1>8. NothingSuperfluous'
  <2>1. Solutions' = Solutions
    BY <1>1 DEF Solutions, InOf, OutOf
  <2> SUFFICES ASSUME NEW S \in Solutions, NEW c \in Block
               PROVE  liveIn'[c] \subseteq S[c]
    BY <1>1, <2>1 DEF NothingSuperfluous
  <2>2. \A d \in Block : liveIn[d] \subseteq S[d]
    BY <1>0, <1>1 DEF NothingSuperfluous
  <2>3. CASE c = b
    <3>1. InOf(c, liveIn) \subseteq InOf(c, S)
      BY <1>0, <2>2, InOfMonotone
    <3>2. InOf(c, S) \subseteq S[c]
      BY DEF Solutions
    <3> QED
      BY <2>3, <3>1, <3>2, <1>3, <1>4
  <2>4. CASE c # b
    BY <2>2, <2>4, <1>3, <1>4
  <2> QED
    BY <2>3, <2>4
<1>9. VisitedSolved'
  <2> SUFFICES ASSUME ~changed', NEW c \in Block, b' < c
               PROVE  liveIn'[c] = InOf(c, liveIn') /\ liveOut'[c] = OutOf(c, liveIn')
    BY <1>1 DEF VisitedSolved, UpdateBlock, InOf, OutOf
  <2>1. ~changed /\ liveIn'[b] = liveIn[b]
    BY DEF UpdateBlock
  <2>2. liveIn' = liveIn /\ liveIn[b] = InOf(b, liveIn)
    BY <2>1, <1>2, <1>3, <1>4
  <2>3. liveOut' = [liveOut EXCEPT ![b] = OutOf(b, liveIn)]
    BY DEF UpdateBlock
  <2>4. CASE c = b
    BY <2>2, <2>3, <2>4, <1>3
  <2>5. CASE c # b
    <3>1. b < c
      BY <1>1, <2>5 DEF Block
    <3>2. liveIn[c] = InOf(c, liveIn) /\ liveOut[c] = OutOf(c, liveIn)
      BY <3>1, <2>1, <1>0, <1>1 DEF VisitedSolved
    <3> QED
      BY <3>2, <2>2, <2>3, <2>5, <1>3
  <2> QED
    BY <2>4, <2>5
<1>10. NotYetLive' /\ DoneUnchanged'
  BY DEF NotYetLive, DoneUnchanged, UpdateBlock
<1>11. ScanExact'
  BY <1>0, <1>1, RoundsKeepScan DEF UpdateBlock, IInv
<1> QED
  BY <1>6, <1>7, <1>8, <1>9, <1>10, <1>11 DEF IInv

LEMMA NextRoundIInv ==
    ASSUME IInv, NextRound
    PROVE  IInv'
<1>0. /\ WellTyped /\ Ascending /\ NothingSuperfluous /\ fn.n \in Nat
      /\ Block' = Block /\ fn' = fn /\ uses' = uses /\ defs' = defs /\ liveIn' = liveIn
  BY FnFacts DEF IInv, NextRound, Block
<1>1. WellTyped'
  <2>1. b' \in 0..fn.n
    BY <1>0 DEF NextRound
  <2>2. changed' \in BOOLEAN /\ pc' = "global"
    BY DEF NextRound
  <2> QED
    BY <1>0, <2>1, <2>2 DEF WellTyped, TypeOK, NextRound
<1>2. Ascending' /\ NothingSuperfluous'
  BY <1>0 DEF Ascending, NothingSuperfluous, Solutions, InOf, OutOf, NextRound
<1>3. VisitedSolved'
  BY <1>0 DEF VisitedSolved, NextRound, Block
<1>4. NotYetLive' /\ DoneUnchanged'
  BY DEF NotYetLive, DoneUnchanged, NextRound
<1>5. ScanExact'
  BY <1>0, RoundsKeepScan DEF IInv, NextRound
<1> QED
  BY <1>1, <1>2, <1>3, <1>4, <1>5 DEF IInv

LEMMA FinishIInv ==
    ASSUME IInv, Finish
    PROVE  IInv'
<1>0. /\ WellTyped /\ Ascending /\ NothingSuperfluous /\ VisitedSolved /\ fn.n \in Nat
      /\ Block' = Block /\ fn' = fn /\ uses' = uses /\ defs' = defs
      /\ liveIn' = liveIn /\ liveOut' = liveOut
  BY FnFacts DEF IInv, Finish, Block
<1>1. WellTyped'
  BY <1>0 DEF WellTyped, TypeOK, Finish
<1>2. Ascending' /\ NothingSuperfluous'
  BY <1>0 DEF Ascending, NothingSuperfluous, Solutions, InOf, OutOf, Finish
<1>3. VisitedSolved'
  <2> SUFFICES ASSUME NEW c \in Block
               PROVE  liveIn[c] = InOf(c, liveIn) /\ liveOut[c] = OutOf(c, liveIn)
    BY <1>0 DEF VisitedSolved, InOf, OutOf
  <2>1. b < c /\ pc # "local" /\ ~changed
    BY DEF Finish, Block
  <2> QED
    BY <1>0, <2>1 DEF VisitedSolved
<1>4. NotYetLive' /\ DoneUnchanged'
  BY DEF NotYetLive, DoneUnchanged, Finish
<1>5. ScanExact'
  BY <1>0, RoundsKeepScan DEF IInv, Finish
<1> QED
  BY <1>1, <1>2, <1>3, <1>4, <1>5 DEF IInv

\* A step that changes nothing keeps the invariant.
LEMMA StutterIInv ==
    ASSUME IInv, UNCHANGED vars
    PROVE  IInv'
  BY DEF IInv, vars, WellTyped, TypeOK, Block, Ascending, NothingSuperfluous, Solutions, InOf,
         OutOf, VisitedSolved, NotYetLive, Nothing, DoneUnchanged, ScanExact, Scanned,
         UsedFirst, DefinedBy

LEMMA NextIInv == IInv /\ [Next]_vars => IInv'
  BY ScanInstructionIInv, BlockScannedIInv, AllScannedIInv, UpdateBlockIInv,
     NextRoundIInv, FinishIInv, StutterIInv DEF Next

-----------------------------------------------------------------------------
LEMMA Invariance == Spec => []IInv
  BY InitIInv, NextIInv, PTL DEF Spec

\* The sets stay sets of vregs of the function's blocks, and the walk over the
\* instructions of a block never leaves it.
THEOREM TypeCorrect == Spec => []TypeOK
<1>1. IInv => TypeOK
  BY DEF IInv, WellTyped
<1> QED
  BY <1>1, Invariance, PTL

\* No vreg is ever reported live that is not live in every solution of the
\* liveness equations: the in-place rounds stay below the least one.
THEOREM NeverSuperfluous == Spec => []NothingSuperfluous
<1>1. IInv => NothingSuperfluous
  BY DEF IInv
<1> QED
  BY <1>1, Invariance, PTL

\* When the loop stops, live_in and live_out solve the equations; with
\* NeverSuperfluous, they are the least solution.
THEOREM SolvedAtTheEnd == Spec => []EquationsSolved
<1>1. IInv => EquationsSolved
  BY DEF IInv, DoneUnchanged, VisitedSolved, EquationsSolved
<1> QED
  BY <1>1, Invariance, PTL

\* No step of the rounds takes a vreg out of a live_in.
THEOREM LiveSetsGrow == Spec => OnlyGrows
<1>1. IInv /\ [Next]_vars =>
          [pc = "global" => \A c \in Block : liveIn[c] \subseteq liveIn'[c]]_vars
  <2> SUFFICES ASSUME IInv, Next, pc = "global"
               PROVE  \A c \in Block : liveIn[c] \subseteq liveIn'[c]
    BY DEF vars
  <2>1. CASE UpdateBlock
    BY <2>1, UpdateGrows
  <2>2. CASE NextRound \/ Finish
    BY <2>2 DEF NextRound, Finish
  <2> QED
    BY <2>1, <2>2 DEF Next, ScanInstruction, BlockScanned, AllScanned
<1> QED
  BY <1>1, Invariance, PTL DEF Spec, OnlyGrows

-----------------------------------------------------------------------------
(* Live means read later.                                                  *)

Less == {ss \in Nat \X Nat : ss[1] < ss[2]}

LEMMA LessWellFounded == IsWellFoundedOn(Less, Nat)
  BY NatLessThanWellFounded DEF OpToRel, Less

\* Every set of natural numbers has a least one.
LEMMA LeastNumber ==
    ASSUME NEW T, T \subseteq Nat, T # {}
    PROVE  \E x \in T : \A y \in T : x <= y
<1>1. PICK x \in T : \A y \in T : ~ (<<y, x>> \in Less)
  BY LessWellFounded, WFMin
<1>2. ASSUME NEW y \in T PROVE x <= y
  <2>1. x \in Nat /\ y \in Nat
    OBVIOUS
  <2>2. ~(y < x)
    BY <1>1, <2>1 DEF Less
  <2> QED
    BY <2>1, <2>2
<1> QED
  BY <1>2

\* What the local scan recorded, in terms of reads and writes.
LEMMA ScanMeaning ==
    ASSUME IInv, pc = "done", NoSlots, NEW c \in Block, NEW v \in Vreg
    PROVE  /\ v \in uses[c] <=> ReadFirst(c, v)
           /\ v \in defs[c] <=> WrittenIn(c, v)
<1>1. fn \in Inputs /\ fn.n \in Nat
  BY FnFacts DEF IInv, WellTyped, TypeOK
<1>2. ASSUME NEW j \in 1..Len(fn.code[c])
      PROVE  /\ UsedIds(fn.code[c][j]) = fn.code[c][j].uses
             /\ DefinedIds(fn.code[c][j]) = fn.code[c][j].defs
  BY <1>1 DEF NoSlots, Block, UsedIds, DefinedIds
<1>3. Len(fn.code[c]) \in Nat
  BY FnFacts DEF IInv
<1>4. /\ uses[c] = UsedFirst(c, Len(fn.code[c]))
      /\ defs[c] = DefinedBy(c, Len(fn.code[c]))
  BY DEF IInv, ScanExact, Scanned
<1>5. v \in DefinedBy(c, Len(fn.code[c])) <=> WrittenIn(c, v)
  BY <1>2 DEF DefinedBy, WrittenIn
<1>6. ASSUME NEW j \in 1..Len(fn.code[c]), NEW h \in 1..(j - 1)
      PROVE  h \in 1..Len(fn.code[c])
  BY <1>3
<1>7. v \in UsedFirst(c, Len(fn.code[c])) <=> ReadFirst(c, v)
  BY <1>2, <1>6 DEF UsedFirst, ReadFirst
<1> QED
  BY <1>4, <1>5, <1>7

\* A path may be made longer at its front.
LEMMA PathFromPredecessor ==
    ASSUME NEW c \in Block, NEW s \in Block, s \in fn.succ[c],
           NEW v, ~WrittenIn(c, v),
           NEW m \in Nat \ {0}, ReadsAlong(m, s, v)
    PROVE  ReadsAlong(m + 1, c, v)
<1>1. PICK path \in [1..m -> Block] :
          /\ path[1] = s
          /\ \A j \in 1..(m - 1) :
                path[j + 1] \in fn.succ[path[j]] /\ ~WrittenIn(path[j], v)
          /\ ReadFirst(path[m], v)
  BY DEF ReadsAlong
<1> DEFINE q == [j \in 1..(m + 1) |-> IF j = 1 THEN c ELSE path[j - 1]]
<1>2. q \in [1..(m + 1) -> Block]
  <2> SUFFICES ASSUME NEW j \in 1..(m + 1) PROVE q[j] \in Block
    OBVIOUS
  <2>1. j # 1 => j - 1 \in 1..m
    OBVIOUS
  <2> QED
    BY <2>1
<1>3. q[1] = c /\ q[m + 1] = path[m]
  BY m + 1 # 1, (m + 1) - 1 = m, 1 \in 1..(m + 1), m + 1 \in 1..(m + 1)
<1>4. ASSUME NEW j \in 1..((m + 1) - 1)
      PROVE  q[j + 1] \in fn.succ[q[j]] /\ ~WrittenIn(q[j], v)
  <2>1. q[j + 1] = path[j]
    BY j + 1 \in 1..(m + 1), j + 1 # 1, (j + 1) - 1 = j
  <2>2. CASE j = 1
    BY <1>1, <1>3, <2>1, <2>2
  <2>3. CASE j # 1
    <3>1. j - 1 \in 1..(m - 1) /\ (j - 1) + 1 = j /\ j \in 1..(m + 1)
      BY <2>3
    <3>2. q[j] = path[j - 1]
      BY <2>3, <3>1
    <3>3. path[(j - 1) + 1] \in fn.succ[path[j - 1]] /\ ~WrittenIn(path[j - 1], v)
      BY <1>1, <3>1
    <3> QED
      BY <2>1, <3>1, <3>2, <3>3
  <2> QED
    BY <2>2, <2>3
<1>5. ReadFirst(q[m + 1], v)
  BY <1>1, <1>3
<1> HIDE DEF q
<1> QED
  BY <1>2, <1>3, <1>4, <1>5 DEF ReadsAlong

\* A path may be entered at its second block.
LEMMA PathFromSuccessor ==
    ASSUME WellTyped, NEW c \in Block, NEW v, NEW m \in Nat, m >= 2, ReadsAlong(m, c, v)
    PROVE  ~WrittenIn(c, v) /\ \E s \in fn.succ[c] : s \in Block /\ ReadsAlong(m - 1, s, v)
<1>1. PICK path \in [1..m -> Block] :
          /\ path[1] = c
          /\ \A j \in 1..(m - 1) :
                path[j + 1] \in fn.succ[path[j]] /\ ~WrittenIn(path[j], v)
          /\ ReadFirst(path[m], v)
  BY DEF ReadsAlong
<1> DEFINE q == [j \in 1..(m - 1) |-> path[j + 1]]
<1>2. q \in [1..(m - 1) -> Block]
  <2> SUFFICES ASSUME NEW j \in 1..(m - 1) PROVE path[j + 1] \in Block
    OBVIOUS
  <2> QED
    BY j + 1 \in 1..m
<1>3. path[1 + 1] \in fn.succ[path[1]] /\ ~WrittenIn(path[1], v)
  BY <1>1, 1 \in 1..(m - 1)
<1>4. q[1] = path[1 + 1] /\ q[m - 1] = path[m]
  BY 1 \in 1..(m - 1), m - 1 \in 1..(m - 1), (m - 1) + 1 = m
<1>5. ASSUME NEW j \in 1..((m - 1) - 1)
      PROVE  q[j + 1] \in fn.succ[q[j]] /\ ~WrittenIn(q[j], v)
  <2>1. j \in 1..(m - 1) /\ j + 1 \in 1..(m - 1)
    OBVIOUS
  <2>2. q[j] = path[j + 1] /\ q[j + 1] = path[(j + 1) + 1]
    BY <2>1
  <2> QED
    BY <1>1, <2>1, <2>2
<1>6. q[1] \in Block
  BY <1>2, 1 \in 1..(m - 1)
<1>7. ReadsAlong(m - 1, q[1], v)
  <2> HIDE DEF q
  <2> QED
    BY <1>1, <1>2, <1>4, <1>5 DEF ReadsAlong
<1> QED
  BY <1>1, <1>3, <1>4, <1>6, <1>7

\* A path that meets a block twice may skip what is between.
LEMMA PathWithoutDetour ==
    ASSUME NEW c, NEW v, NEW m \in Nat \ {0}, NEW path \in [1..m -> Block],
           path[1] = c,
           \A j \in 1..(m - 1) : path[j + 1] \in fn.succ[path[j]] /\ ~WrittenIn(path[j], v),
           ReadFirst(path[m], v),
           NEW x \in 1..m, NEW y \in 1..m, x < y, path[x] = path[y]
    PROVE  \E l \in 1..(m - 1) : ReadsAlong(l, c, v)
<1> DEFINE l == m - (y - x)
           q == [j \in 1..l |-> IF j <= x THEN path[j] ELSE path[j + (y - x)]]
<1>1. l \in 1..(m - 1)
  OBVIOUS
<1>2. q \in [1..l -> Block]
  <2> SUFFICES ASSUME NEW j \in 1..l PROVE q[j] \in Block
    OBVIOUS
  <2>1. j \in 1..m /\ j + (y - x) \in 1..m
    OBVIOUS
  <2> QED
    BY <2>1
<1>3. q[1] = c
  BY 1 \in 1..l, 1 <= x
<1>4. q[l] = path[m]
  <2>1. l \in 1..l /\ l + (y - x) = m
    BY <1>1
  <2>2. CASE l <= x
    <3>1. l = x /\ y = m
      BY <2>2
    <3> QED
      BY <2>1, <3>1
  <2>3. CASE ~(l <= x)
    BY <2>1, <2>3
  <2> QED
    BY <2>2, <2>3
<1>5. ASSUME NEW j \in 1..(l - 1)
      PROVE  q[j + 1] \in fn.succ[q[j]] /\ ~WrittenIn(q[j], v)
  <2>1. j \in 1..l /\ j + 1 \in 1..l
    BY <1>1
  <2>2. CASE j < x
    <3>1. q[j] = path[j] /\ q[j + 1] = path[j + 1] /\ j \in 1..(m - 1)
      BY <2>1, <2>2
    <3> QED
      BY <3>1
  <2>3. CASE j = x
    <3>1. q[j] = path[y]
      BY <2>1, <2>3
    <3>2. j + 1 > x /\ (j + 1) + (y - x) = y + 1 /\ y \in 1..(m - 1)
      BY <2>3
    <3>3. q[j + 1] = path[y + 1]
      BY <2>1, <3>2
    <3> QED
      BY <3>1, <3>2, <3>3
  <2>4. CASE j > x
    <3> DEFINE i == j + (y - x)
    <3>1. i \in 1..(m - 1) /\ (j + 1) + (y - x) = i + 1 /\ ~(j <= x) /\ ~(j + 1 <= x)
      BY <2>4
    <3>2. q[j] = path[i] /\ q[j + 1] = path[i + 1]
      BY <2>1, <3>1
    <3> QED
      BY <3>1, <3>2
  <2> QED
    BY <2>2, <2>3, <2>4
<1>6. ReadFirst(q[l], v)
  BY <1>4
<1>7. ReadsAlong(l, c, v)
  <2> HIDE DEF q, l
  <2> QED
    BY <1>2, <1>3, <1>5, <1>6 DEF ReadsAlong
<1> QED
  BY <1>1, <1>7

LEMMA CountedFromOne ==
    ASSUME NEW m \in Nat PROVE IsFiniteSet(1..m) /\ Cardinality(1..m) = m
<1>1. 1 \in Int /\ m \in Int
  OBVIOUS
<1>2. IsFiniteSet(1..m) /\ Cardinality(1..m) = (IF 1 > m THEN 0 ELSE m - 1 + 1)
  BY <1>1, FS_Interval
<1> QED
  BY <1>2

\* If any path reads the vreg, then one of at most fn.n blocks does.
LEMMA ShortPathSuffices ==
    ASSUME WellTyped, NEW c, NEW v, NEW m \in Nat \ {0}, ReadsAlong(m, c, v)
    PROVE  ReadLater(c, v)
<1> DEFINE T == {l \in Nat \ {0} : ReadsAlong(l, c, v)}
<1>1. PICK l \in T : \A i \in T : l <= i
  <2>1. T \subseteq Nat /\ m \in T
    OBVIOUS
  <2> HIDE DEF T
  <2> QED
    BY <2>1, LeastNumber
<1>2. PICK path \in [1..l -> Block] :
          /\ path[1] = c
          /\ \A j \in 1..(l - 1) :
                path[j + 1] \in fn.succ[path[j]] /\ ~WrittenIn(path[j], v)
          /\ ReadFirst(path[l], v)
  BY DEF ReadsAlong
<1>3. ASSUME NEW x \in 1..l, NEW y \in 1..l, x < y, path[x] = path[y]
      PROVE  FALSE
  <2>1. l \in Nat \ {0}
    OBVIOUS
  <2>2. PICK i \in 1..(l - 1) : ReadsAlong(i, c, v)
    BY <1>2, <1>3, <2>1, PathWithoutDetour
  <2>3. i \in T /\ i < l
    BY <2>1, <2>2
  <2> QED
    BY <1>1, <2>1, <2>3
<1>4. fn.n \in Nat /\ l \in Nat
  BY FnFacts
<1>5. l <= fn.n
  <2> SUFFICES ASSUME l > fn.n PROVE FALSE
    BY <1>4
  <2>1. /\ IsFiniteSet(1..l) /\ Cardinality(1..l) = l
        /\ IsFiniteSet(Block) /\ Cardinality(Block) = fn.n
    <3>1. Block = 1..fn.n
      BY DEF Block
    <3> QED
      BY <1>4, <3>1, CountedFromOne
  <2>2. PICK x, y \in 1..l : x # y /\ path[x] = path[y]
    BY <1>4, <2>1, FS_PigeonHole
  <2>3. CASE x < y
    BY <1>3, <2>2, <2>3
  <2>4. CASE y < x
    BY <1>3, <2>2, <2>4
  <2> QED
    BY <1>4, <2>2, <2>3, <2>4
<1> QED
  BY <1>4, <1>5 DEF ReadLater

\* Reading later solves the equations; so what is live is read later.
LEMMA LiveIsRead ==
    ASSUME IInv, pc = "done", NoSlots, NEW c \in Block, NEW v \in liveIn[c]
    PROVE  ReadLater(c, v)
<1> DEFINE S == [d \in Block |-> {w \in Vreg : ReadLater(d, w)}]
<1>1. WellTyped /\ NothingSuperfluous /\ fn.n \in Nat
  BY FnFacts DEF IInv
<1>2. ASSUME NEW d \in Block, NEW w \in InOf(d, S)
      PROVE  w \in Vreg /\ ReadLater(d, w)
  <2>1. CASE w \in uses[d]
    <3>1. w \in Vreg
      BY <1>1, <2>1 DEF WellTyped, TypeOK
    <3>2. ReadFirst(d, w)
      BY <2>1, <3>1, ScanMeaning
    <3>3. ReadsAlong(1, d, w)
      <4> DEFINE q == [j \in 1..1 |-> d]
      <4>1. q \in [1..1 -> Block] /\ q[1] = d
        OBVIOUS
      <4>2. \A j \in 1..(1 - 1) : q[j + 1] \in fn.succ[q[j]] /\ ~WrittenIn(q[j], w)
        OBVIOUS
      <4> QED
        BY <3>2, <4>1, <4>2 DEF ReadsAlong
    <3> QED
      BY <1>1, <3>1, <3>3, ShortPathSuffices
  <2>2. CASE w \notin uses[d]
    <3>1. PICK s \in fn.succ[d] : w \in S[s] /\ w \notin defs[d]
      BY <2>2 DEF InOf, OutOf
    <3>2. s \in Block
      BY <1>1, FnFacts
    <3>3. w \in Vreg /\ ReadLater(s, w)
      BY <3>1, <3>2
    <3>4. ~WrittenIn(d, w)
      BY <3>1, <3>3, ScanMeaning
    <3>5. PICK m \in 1..fn.n : ReadsAlong(m, s, w)
      BY <3>3 DEF ReadLater
    <3>6. ReadsAlong(m + 1, d, w)
      BY <3>1, <3>2, <3>4, <3>5, PathFromPredecessor
    <3> QED
      BY <1>1, <3>3, <3>5, <3>6, ShortPathSuffices
  <2> QED
    BY <2>1, <2>2
<1>3. S \in Solutions
  <2>1. S \in [Block -> SUBSET Vreg]
    OBVIOUS
  <2>2. ASSUME NEW d \in Block PROVE InOf(d, S) \subseteq S[d]
    BY <1>2
  <2> QED
    BY <2>1, <2>2 DEF Solutions
<1>4. liveIn[c] \subseteq S[c]
  <2> HIDE DEF S
  <2> QED
    BY <1>1, <1>3 DEF NothingSuperfluous
<1> QED
  BY <1>4

\* What is read later is live: a shortest path to a read that the analysis
\* missed could be entered one block further on.
LEMMA ReadIsLive ==
    ASSUME IInv, pc = "done", NoSlots, NEW c \in Block, NEW v \in Vreg, ReadLater(c, v)
    PROVE  v \in liveIn[c]
<1> DEFINE T == {l \in Nat \ {0} : \E d \in Block : ReadsAlong(l, d, v) /\ v \notin liveIn[d]}
<1>1. WellTyped /\ fn.n \in Nat /\ EquationsSolved
  BY FnFacts DEF IInv, DoneUnchanged, VisitedSolved, EquationsSolved
<1>2. ASSUME T # {} PROVE FALSE
  <2>1. PICK l \in T : \A i \in T : l <= i
    <3>1. T \subseteq Nat
      OBVIOUS
    <3> HIDE DEF T
    <3> QED
      BY <1>2, <3>1, LeastNumber
  <2>2. PICK d \in Block : ReadsAlong(l, d, v) /\ v \notin liveIn[d]
    BY <2>1
  <2>3. liveIn[d] = uses[d] \cup (OutOf(d, liveIn) \ defs[d])
    BY <1>1 DEF EquationsSolved, InOf
  <2>4. CASE l = 1
    <3>1. ReadFirst(d, v)
      BY <2>2, <2>4 DEF ReadsAlong
    <3> QED
      BY <2>2, <2>3, <3>1, ScanMeaning
  <2>5. CASE l # 1
    <3>1. l \in Nat /\ l >= 2
      BY <2>5
    <3>2. PICK s \in fn.succ[d] : s \in Block /\ ReadsAlong(l - 1, s, v)
      BY <1>1, <2>2, <3>1, PathFromSuccessor
    <3>3. ~WrittenIn(d, v)
      BY <1>1, <2>2, <3>1, PathFromSuccessor
    <3>4. v \in liveIn[s]
      <4>1. l - 1 \in Nat \ {0} /\ ~(l <= l - 1)
        BY <3>1
      <4>2. l - 1 \notin T
        BY <2>1, <4>1
      <4> QED
        BY <3>2, <4>1, <4>2
    <3>5. v \notin defs[d]
      BY <3>3, ScanMeaning
    <3> QED
      BY <2>2, <2>3, <3>2, <3>4, <3>5 DEF OutOf
  <2> QED
    BY <2>4, <2>5
<1>3. PICK m \in 1..fn.n : ReadsAlong(m, c, v)
  BY DEF ReadLater
<1>4. m \in Nat \ {0}
  BY <1>1
<1> QED
  BY <1>2, <1>3, <1>4

\* What the analysis is for: in functions without address-taken variables, a
\* vreg is in live_in of a block iff some path from there reads it before
\* writing it.
THEOREM LiveMeansReadLater ==
    ASSUME NoSlots PROVE Spec => []LiveIsReadLater
<1>1. IInv => LiveIsReadLater
  <2> SUFFICES ASSUME IInv, pc = "done", NEW c \in Block, NEW v \in Vreg
               PROVE  v \in liveIn[c] <=> ReadLater(c, v)
    BY DEF LiveIsReadLater
  <2> QED
    BY LiveIsRead, ReadIsLive
<1> QED
  BY <1>1, Invariance, PTL

-----------------------------------------------------------------------------
(* Live ranges.                                                            *)

\* What the assumptions say of one function.
LEMMA LayoutFacts ==
    ASSUME WellTyped
    PROVE  /\ fn.n \in Nat
           /\ fn.params \subseteq Vreg
           /\ fn.loopEnd \in [Block -> Int]
           /\ \A c \in Block : \A i \in 1..Len(fn.code[c]) :
                 /\ fn.id[c][i] \in Nat
                 /\ \A j \in 1..Len(fn.code[c]) : i < j => fn.id[c][i] < fn.id[c][j]
                 /\ \A d \in Block : \A j \in 1..Len(fn.code[d]) :
                       c < d => fn.id[c][i] < fn.id[d][j]
  BY LayoutAssumption, FnFacts DEF WellTyped, TypeOK, Block

LEMMA CodeFacts ==
    ASSUME WellTyped, NEW c \in Block
    PROVE  /\ Len(fn.code[c]) \in Nat
           /\ c \in Nat
           /\ fn.code[c] = << >> <=> Len(fn.code[c]) = 0
           /\ \A j \in 1..Len(fn.code[c]) :
                 fn.code[c][j].uses \subseteq Vreg /\ fn.code[c][j].defs \subseteq Vreg
<1>1. fn.code[c] \in Seq(Instruction)
  BY FnFacts
<1>2. Len(fn.code[c]) \in Nat /\ c \in Nat
  BY <1>1, FnFacts DEF Block
<1>3. fn.code[c] = << >> <=> Len(fn.code[c]) = 0
  BY <1>1, EmptySeq
<1>4. \A j \in 1..Len(fn.code[c]) : fn.code[c][j] \in Instruction
  BY <1>1, ElementOfSeq
<1> QED
  BY <1>2, <1>3, <1>4 DEF Instruction

\* Instructions further down the layout have greater numbers.
LEMMA IdOrder ==
    ASSUME WellTyped, NEW c \in Block, NEW j \in 1..Len(fn.code[c])
    PROVE  /\ Id(c, j) \in Nat
           /\ \A i \in 1..Len(fn.code[c]) : j <= i => Id(c, j) <= Id(c, i)
           /\ \A d \in Block : c < d => \A i \in 1..Len(fn.code[d]) : Id(c, j) <= Id(d, i)
<1>1. Len(fn.code[c]) \in Nat /\ fn.id[c][j] \in Nat
  BY LayoutFacts, CodeFacts
<1>2. ASSUME NEW i \in 1..Len(fn.code[c]), j <= i PROVE fn.id[c][j] <= fn.id[c][i]
  <2>1. CASE j = i
    BY <1>1, <2>1
  <2>2. CASE j # i
    <3>1. j < i
      BY <1>1, <1>2, <2>2
    <3>2. fn.id[c][j] < fn.id[c][i] /\ fn.id[c][i] \in Nat
      BY <3>1, LayoutFacts
    <3> QED
      BY <1>1, <3>2
  <2> QED
    BY <2>1, <2>2
<1>3. ASSUME NEW d \in Block, c < d, NEW i \in 1..Len(fn.code[d])
      PROVE  fn.id[c][j] <= fn.id[d][i]
  <2>1. fn.id[c][j] < fn.id[d][i] /\ fn.id[d][i] \in Nat
    BY <1>3, LayoutFacts
  <2> QED
    BY <1>1, <2>1
<1> QED
  BY <1>1, <1>2, <1>3 DEF Id

LEMMA LaterFacts ==
    ASSUME NEW x \in Int, NEW y \in Int
    PROVE  Later(x, y) \in {x, y} /\ x <= Later(x, y) /\ y <= Later(x, y)
  BY DEF Later

\* The borders of a block as numbers.
LEMMA BorderFacts ==
    ASSUME WellTyped, NEW c \in Block
    PROVE  /\ BlockStart(c) \in Nat /\ BlockEnd(c) \in Nat
           /\ BlockStart(c) <= BlockEnd(c)
           /\ \A j \in 1..Len(fn.code[c]) :
                 BlockStart(c) = Id(c, 1) /\ BlockStart(c) <= Id(c, j) /\ Id(c, j) <= BlockEnd(c)
<1>1. Len(fn.code[c]) \in Nat /\ (fn.code[c] = << >> <=> Len(fn.code[c]) = 0)
  BY CodeFacts
<1>2. CASE Len(fn.code[c]) = 0
  <2>1. BlockStart(c) = 0 /\ BlockEnd(c) = 0 /\ 1..Len(fn.code[c]) = {}
    BY <1>1, <1>2 DEF BlockStart, BlockEnd
  <2> QED
    BY <2>1
<1>3. CASE Len(fn.code[c]) # 0
  <2>1. /\ 1 \in 1..Len(fn.code[c]) /\ Len(fn.code[c]) \in 1..Len(fn.code[c])
        /\ \A j \in 1..Len(fn.code[c]) : 1 <= j /\ j <= Len(fn.code[c])
    BY <1>1, <1>3
  <2>2. BlockStart(c) = Id(c, 1) /\ BlockEnd(c) = Id(c, Len(fn.code[c]))
    BY <1>1, <1>3 DEF BlockStart, BlockEnd
  <2>3. \A j \in 1..Len(fn.code[c]) : Id(c, 1) <= Id(c, j) /\ Id(c, j) <= Id(c, Len(fn.code[c]))
    BY <2>1, IdOrder
  <2>4. Id(c, 1) \in Nat /\ Id(c, Len(fn.code[c])) \in Nat
    BY <2>1, IdOrder
  <2> QED
    BY <2>1, <2>2, <2>3, <2>4
<1> QED
  BY <1>2, <1>3

\* Before the walk there is nothing to cover.
LEMMA NothingVisited ==
    ASSUME WellTyped, at = fn.n, inst = IF fn.n = 0 THEN 0 ELSE Len(fn.code[fn.n])
    PROVE  InstructionsCovered /\ BordersCovered
<1>1. fn.n \in Nat
  BY LayoutFacts
<1>2. ASSUME NEW c \in Block PROVE ~(at < c)
  BY <1>1 DEF Block
<1>3. ASSUME NEW c \in Block, NEW j \in 1..Len(fn.code[c]) PROVE ~Visited(c, j)
  <2>1. Len(fn.code[c]) \in Nat
    BY CodeFacts
  <2>2. ~(at = c /\ inst < j)
    BY <1>1, <2>1 DEF Block
  <2> QED
    BY <1>2, <2>2 DEF Visited
<1> QED
  BY <1>2, <1>3 DEF InstructionsCovered, BordersCovered

-----------------------------------------------------------------------------
LEMMA RangeInitIInv == RangeInit => RangeIInv
<1> SUFFICES ASSUME RangeInit PROVE RangeIInv
  OBVIOUS
<1>1. IInv /\ WellTyped /\ pc = "local" /\ fn.n \in Nat
  BY InitIInv, FnFacts DEF RangeInit, Init, IInv
<1>2. /\ start \in [Vreg -> Nat \cup {-1}]
      /\ end \in [Vreg -> Nat \cup {-1}]
      /\ \A v \in Vreg : start[v] <= 0 /\ end[v] = -1
  BY DEF RangeInit
<1>3. fn.n >= 1 => fn.n \in Block
  BY <1>1 DEF Block
<1>4. inst \in Nat /\ (at >= 1 => inst <= Len(fn.code[at])) /\ at \in 0..fn.n
  <2>1. CASE fn.n = 0
    BY <1>1, <2>1 DEF RangeInit
  <2>2. CASE fn.n # 0
    <3>1. Len(fn.code[fn.n]) \in Nat
      BY <1>1, <1>3, <2>2, CodeFacts
    <3> QED
      BY <1>1, <2>2, <3>1 DEF RangeInit
  <2> QED
    BY <2>1, <2>2
<1>5. RangeTypeOK
  <2>1. ASSUME NEW v \in Vreg PROVE start[v] <= Later(end[v], 0)
    <3>1. start[v] <= 0 /\ end[v] = -1
      BY <1>2
    <3>2. Later(end[v], 0) = 0
      BY <3>1 DEF Later
    <3> QED
      BY <3>1, <3>2
  <2> QED
    BY <1>2, <1>4, <2>1 DEF RangeTypeOK
<1>6. NotWalked
  BY DEF NotWalked, RangeInit
<1>7. InstructionsCovered /\ BordersCovered
  BY <1>1, NothingVisited DEF RangeInit
<1>8. ParametersStarted
  <2>1. fn.params \subseteq Vreg
    BY <1>1, LayoutFacts
  <2>2. ASSUME NEW v \in fn.params PROVE start[v] = 0
    BY <2>1 DEF RangeInit
  <2> QED
    BY <2>2 DEF ParametersStarted
<1> QED
  BY <1>1, <1>5, <1>6, <1>7, <1>8 DEF RangeIInv

-----------------------------------------------------------------------------
(* The analysis before the walk. *)

LEMMA AnalyseIInv ==
    ASSUME RangeIInv, Analyse
    PROVE  RangeIInv'
<1>1. IInv'
  BY NextIInv DEF RangeIInv, Analyse
<1>2. pc # "done" /\ fn' = fn
  BY DEF Analyse, Next, ScanInstruction, BlockScanned, AllScanned, UpdateBlock,
         NextRound, Finish
<1>3. Block' = Block /\ start' = start /\ end' = end /\ at' = at /\ inst' = inst
  BY <1>2 DEF Analyse, walk, Block
<1>4. RangeTypeOK' /\ NotWalked' /\ ParametersStarted'
  BY <1>2, <1>3 DEF RangeIInv, RangeTypeOK, NotWalked, ParametersStarted
<1>5. at = fn.n /\ inst = IF fn.n = 0 THEN 0 ELSE Len(fn.code[fn.n])
  BY <1>2 DEF RangeIInv, NotWalked
<1>6. WellTyped'
  BY <1>1 DEF IInv
<1>7. (at = fn.n /\ inst = IF fn.n = 0 THEN 0 ELSE Len(fn.code[fn.n]))'
  BY <1>2, <1>3, <1>5
<1>8. InstructionsCovered' /\ BordersCovered'
  <2>1. fn.n \in Nat /\ \A c \in Block : c \in Nat /\ c <= fn.n /\ Len(fn.code[c]) \in Nat
    BY CodeFacts, LayoutFacts DEF RangeIInv, IInv, Block
  <2>2. ASSUME NEW c \in Block PROVE ~(at' < c)
    BY <1>3, <1>5, <2>1
  <2>3. ASSUME NEW c \in Block, NEW j \in 1..Len(fn.code[c]) PROVE ~(at' = c /\ inst' < j)
    <3> SUFFICES ASSUME at = c PROVE ~(inst < j)
      BY <1>3
    <3>1. inst = Len(fn.code[c]) /\ Len(fn.code[c]) \in Nat
      BY <1>5, <2>1 DEF Block
    <3> QED
      BY <3>1
  <2> QED
    BY <1>2, <1>3, <2>2, <2>3 DEF InstructionsCovered, BordersCovered, Visited
<1> QED
  BY <1>1, <1>4, <1>8 DEF RangeIInv

-----------------------------------------------------------------------------
(* The walk. *)

\* Where the walk is, and what it leaves alone.
LEMMA WalkFacts ==
    ASSUME RangeIInv, VisitInstruction \/ VisitBorders
    PROVE  /\ WellTyped /\ IInv' /\ fn' = fn /\ Block' = Block /\ pc' = "done" /\ pc = "done"
           /\ liveIn' = liveIn /\ liveOut' = liveOut
           /\ at \in Block /\ at \in Nat /\ at >= 1
           /\ start \in [Vreg -> Nat \cup {-1}] /\ end \in [Vreg -> Nat \cup {-1}]
           /\ \A v \in Vreg : start[v] \in Int /\ end[v] \in Int
<1>1. UNCHANGED vars /\ pc = "done" /\ at >= 1
  BY DEF VisitInstruction, VisitBorders
<1>2. IInv /\ WellTyped /\ RangeTypeOK /\ fn.n \in Nat
  BY LayoutFacts DEF RangeIInv, IInv
<1>3. IInv'
  BY <1>1, <1>2, StutterIInv
<1>4. fn' = fn /\ Block' = Block /\ pc' = pc /\ liveIn' = liveIn /\ liveOut' = liveOut
  BY <1>1 DEF vars, Block
<1>5. at \in Block /\ at \in Nat
  BY <1>1, <1>2 DEF RangeTypeOK, Block
<1>6. start \in [Vreg -> Nat \cup {-1}] /\ end \in [Vreg -> Nat \cup {-1}]
  BY <1>2 DEF RangeTypeOK
<1>7. \A v \in Vreg : start[v] \in Int /\ end[v] \in Int
  BY <1>6
<1> QED
  BY <1>1, <1>2, <1>3, <1>4, <1>5, <1>6, <1>7

\* A visit to an instruction: ends do not fall, starts change at definitions
\* only, and what the instruction reads and writes is covered.
LEMMA VisitFacts ==
    ASSUME RangeIInv, VisitInstruction
    PROVE  /\ inst \in 1..Len(fn.code[at]) /\ inst' = inst - 1 /\ at' = at
           /\ Id(at, inst) \in Nat
           /\ start' \in [Vreg -> Nat \cup {-1}] /\ end' \in [Vreg -> Nat \cup {-1}]
           /\ \A v \in Vreg : end[v] <= end'[v]
           /\ \A v \in Vreg : v \notin fn.code[at][inst].defs => start'[v] = start[v]
           /\ \A v \in fn.code[at][inst].uses : Id(at, inst) <= end'[v]
           /\ \A v \in fn.code[at][inst].defs :
                 start'[v] = Id(at, inst) /\ Id(at, inst) <= end'[v]
<1> DEFINE i == fn.code[at][inst]
           here == Id(at, inst)
           used(v) == IF v \in i.uses THEN Later(Later(end[v], fn.loopEnd[at]), here) ELSE end[v]
<1>0. /\ WellTyped /\ at \in Block
      /\ start \in [Vreg -> Nat \cup {-1}] /\ end \in [Vreg -> Nat \cup {-1}]
      /\ \A v \in Vreg : start[v] \in Int /\ end[v] \in Int
  BY WalkFacts
<1>1. inst \in 1..Len(fn.code[at])
  BY <1>0, CodeFacts DEF RangeIInv, RangeTypeOK, VisitInstruction
<1>2. here \in Nat /\ i.uses \subseteq Vreg /\ i.defs \subseteq Vreg /\ fn.loopEnd[at] \in Int
  BY <1>0, <1>1, IdOrder, CodeFacts, LayoutFacts
<1>3. /\ inst' = inst - 1 /\ at' = at
      /\ end' = [v \in Vreg |-> IF v \in i.defs THEN Later(used(v), here) ELSE used(v)]
      /\ start' = [v \in Vreg |-> IF v \in i.defs THEN here ELSE start[v]]
  BY DEF VisitInstruction
<1> HIDE DEF i, here
<1>4. ASSUME NEW v \in Vreg
      PROVE  /\ used(v) \in Nat \cup {-1}
             /\ end[v] <= used(v)
             /\ v \in i.uses => here <= used(v)
  <2>1. end[v] \in Nat \cup {-1} /\ end[v] \in Int
    BY <1>0
  <2>2. CASE v \in i.uses
    <3> DEFINE l == Later(end[v], fn.loopEnd[at])
    <3>1. l \in Int /\ end[v] <= l
      BY <1>2, <2>1 DEF Later
    <3>2. used(v) = Later(l, here)
      BY <2>2
    <3> HIDE DEF l, used
    <3>3. Later(l, here) \in Nat /\ l <= Later(l, here) /\ here <= Later(l, here)
      BY <1>2, <3>1 DEF Later
    <3> QED
      BY <2>1, <3>1, <3>2, <3>3
  <2>3. CASE v \notin i.uses
    BY <2>1, <2>3
  <2> QED
    BY <2>2, <2>3
<1> HIDE DEF used
<1>5. ASSUME NEW v \in Vreg
      PROVE  /\ end'[v] \in Nat \cup {-1}
             /\ end[v] <= end'[v]
             /\ v \in i.uses => here <= end'[v]
             /\ v \in i.defs => here <= end'[v]
  <2>1. /\ used(v) \in Nat \cup {-1} /\ used(v) \in Int
        /\ end[v] <= used(v) /\ end[v] \in Int
        /\ v \in i.uses => here <= used(v)
    BY <1>0, <1>4
  <2>2. CASE v \in i.defs
    <3>1. end'[v] = Later(used(v), here)
      BY <1>3, <2>2
    <3>2. Later(used(v), here) \in Nat /\ used(v) <= Later(used(v), here)
          /\ here <= Later(used(v), here)
      BY <1>2, <2>1 DEF Later
    <3> QED
      BY <1>2, <2>1, <3>1, <3>2
  <2>3. CASE v \notin i.defs
    <3>1. end'[v] = used(v)
      BY <1>3, <2>3
    <3> QED
      BY <2>1, <2>3, <3>1
  <2> QED
    BY <2>2, <2>3
<1>6. ASSUME NEW v \in Vreg
      PROVE  /\ start'[v] \in Nat \cup {-1}
             /\ v \notin i.defs => start'[v] = start[v]
             /\ v \in i.defs => start'[v] = here
  BY <1>0, <1>2, <1>3
<1>7. start' \in [Vreg -> Nat \cup {-1}]
  BY <1>3, <1>6
<1>8. end' \in [Vreg -> Nat \cup {-1}]
  BY <1>3, <1>5
<1> QED
  BY <1>1, <1>2, <1>3, <1>5, <1>6, <1>7, <1>8 DEF i, here

LEMMA VisitInstructionIInv ==
    ASSUME RangeIInv, VisitInstruction
    PROVE  RangeIInv'
<1>1. /\ WellTyped /\ IInv' /\ fn' = fn /\ Block' = Block /\ pc' = "done" /\ pc = "done"
      /\ liveIn' = liveIn /\ liveOut' = liveOut
      /\ at \in Block /\ at \in Nat /\ at >= 1
      /\ \A v \in Vreg : start[v] \in Int /\ end[v] \in Int
  BY WalkFacts
<1>2. /\ inst \in 1..Len(fn.code[at]) /\ inst' = inst - 1 /\ at' = at
      /\ Id(at, inst) \in Nat
      /\ start' \in [Vreg -> Nat \cup {-1}] /\ end' \in [Vreg -> Nat \cup {-1}]
      /\ \A v \in Vreg : end[v] <= end'[v]
      /\ \A v \in Vreg : v \notin fn.code[at][inst].defs => start'[v] = start[v]
      /\ \A v \in fn.code[at][inst].uses : Id(at, inst) <= end'[v]
      /\ \A v \in fn.code[at][inst].defs :
            start'[v] = Id(at, inst) /\ Id(at, inst) <= end'[v]
  BY VisitFacts
<1>3. RangeTypeOK /\ InstructionsCovered /\ BordersCovered /\ ParametersStarted
  BY DEF RangeIInv
<1>4. \A v \in Vreg : start'[v] \in Int /\ end'[v] \in Int
  BY <1>2
<1>5. Len(fn.code[at]) \in Nat
  BY <1>1, CodeFacts
<1>6. RangeTypeOK'
  <2>1. at' \in 0..fn.n
    BY <1>1, <1>2, <1>3 DEF RangeTypeOK
  <2>2. inst' \in Nat /\ inst' <= Len(fn.code[at'])
    BY <1>2, <1>5
  <2>3. ASSUME NEW v \in Vreg PROVE start'[v] <= Later(end'[v], 0)
    <3>1. start[v] <= Later(end[v], 0)
      BY <1>3 DEF RangeTypeOK
    <3>2. CASE v \in fn.code[at][inst].defs
      BY <1>2, <1>4, <3>2 DEF Later
    <3>3. CASE v \notin fn.code[at][inst].defs
      <4>1. start'[v] = start[v] /\ end[v] <= end'[v]
        BY <1>2, <3>3
      <4> QED
        BY <1>1, <1>4, <3>1, <4>1 DEF Later
    <3> QED
      BY <3>2, <3>3
  <2> QED
    BY <1>1, <1>2, <2>1, <2>2, <2>3 DEF RangeTypeOK
<1>7. NotWalked'
  BY <1>1 DEF NotWalked
<1>8. InstructionsCovered'
  <2> SUFFICES ASSUME NEW c \in Block, NEW j \in 1..Len(fn.code[c]),
                      at < c \/ (at = c /\ inst - 1 < j)
               PROVE  /\ \A v \in fn.code[c][j].uses : Id(c, j) <= end'[v]
                      /\ \A v \in fn.code[c][j].defs :
                            start'[v] \in 0..Id(c, j) /\ Id(c, j) <= end'[v]
    BY <1>1, <1>2 DEF InstructionsCovered, Visited, Id
  <2>1. fn.code[c][j].uses \subseteq Vreg /\ fn.code[c][j].defs \subseteq Vreg
    BY <1>1, CodeFacts
  <2>2. Id(c, j) \in Nat
    BY <1>1, IdOrder
  <2>3. CASE c = at /\ j = inst
    <3>1. ASSUME NEW v \in fn.code[c][j].defs PROVE start'[v] \in 0..Id(c, j)
      BY <1>2, <2>2, <2>3
    <3> QED
      BY <1>2, <2>3, <3>1
  <2>4. CASE ~(c = at /\ j = inst)
    <3>1. at < c \/ (at = c /\ inst < j)
      BY <1>2, <1>5, <2>4
    <3>2. /\ \A v \in fn.code[c][j].uses : Id(c, j) <= end[v]
          /\ \A v \in fn.code[c][j].defs :
                start[v] \in 0..Id(c, j) /\ Id(c, j) <= end[v]
      BY <1>3, <3>1 DEF InstructionsCovered, Visited
    <3>3. ASSUME NEW v \in Vreg, Id(c, j) <= end[v] PROVE Id(c, j) <= end'[v]
      BY <1>1, <1>2, <1>4, <2>2, <3>3
    <3>4. Id(at, inst) <= Id(c, j)
      <4>1. CASE at < c
        BY <1>1, <1>2, <4>1, IdOrder
      <4>2. CASE at = c /\ inst < j
        BY <1>1, <1>2, <4>2, IdOrder
      <4> QED
        BY <3>1, <4>1, <4>2
    <3>5. ASSUME NEW v \in fn.code[c][j].defs PROVE start'[v] \in 0..Id(c, j)
      <4>1. CASE v \in fn.code[at][inst].defs
        BY <1>2, <2>2, <3>4, <4>1
      <4>2. CASE v \notin fn.code[at][inst].defs
        BY <1>2, <2>1, <3>2, <4>2
      <4> QED
        BY <4>1, <4>2
    <3> QED
      BY <2>1, <3>2, <3>3, <3>5
  <2> QED
    BY <2>3, <2>4
<1>9. BordersCovered'
  <2> SUFFICES ASSUME NEW c \in Block, at < c
               PROVE  /\ HasStart(c) => \A v \in liveIn[c] : start'[v] <= BlockStart(c)
                      /\ \A v \in liveOut[c] : BlockEnd(c) <= end'[v]
    BY <1>1, <1>2 DEF BordersCovered, BlockStart, BlockEnd, HasStart, Id
  <2>1. liveIn[c] \subseteq Vreg /\ liveOut[c] \subseteq Vreg
    BY <1>1 DEF WellTyped, TypeOK
  <2>2. /\ HasStart(c) => \A v \in liveIn[c] : start[v] <= BlockStart(c)
        /\ \A v \in liveOut[c] : BlockEnd(c) <= end[v]
    BY <1>3 DEF BordersCovered
  <2>3. BlockEnd(c) \in Nat /\ BlockStart(c) \in Nat
    BY <1>1, BorderFacts
  <2>4. HasStart(c) => Id(at, inst) <= BlockStart(c)
    <3> SUFFICES ASSUME HasStart(c) PROVE Id(at, inst) <= BlockStart(c)
      OBVIOUS
    <3>1. c # 1 /\ c \in Nat
      BY <1>1, CodeFacts
    <3>2. 1 \in 1..Len(fn.code[c])
      BY <1>1, <3>1, CodeFacts DEF HasStart
    <3> QED
      BY <1>1, <1>2, <3>2, IdOrder, BorderFacts
  <2>5. ASSUME HasStart(c), NEW v \in liveIn[c] PROVE start'[v] <= BlockStart(c)
    <3>1. CASE v \in fn.code[at][inst].defs
      BY <1>2, <2>3, <2>4, <2>5, <3>1
    <3>2. CASE v \notin fn.code[at][inst].defs
      BY <1>2, <2>1, <2>2, <2>5, <3>2
    <3> QED
      BY <3>1, <3>2
  <2>6. ASSUME NEW v \in liveOut[c] PROVE BlockEnd(c) <= end'[v]
    <3>1. end[v] <= end'[v] /\ end[v] \in Int /\ end'[v] \in Int /\ BlockEnd(c) <= end[v]
      BY <1>1, <1>2, <1>4, <2>1, <2>2
    <3> QED
      BY <2>3, <3>1
  <2> QED
    BY <2>5, <2>6
<1>10. ParametersStarted'
  <2> SUFFICES ASSUME NEW v \in fn.params PROVE start'[v] >= 0
    BY <1>1 DEF ParametersStarted
  <2>1. v \in Vreg /\ start[v] >= 0
    BY <1>1, <1>3, LayoutFacts DEF ParametersStarted
  <2>2. CASE v \in fn.code[at][inst].defs
    BY <1>2, <2>2
  <2>3. CASE v \notin fn.code[at][inst].defs
    BY <1>2, <2>1, <2>3
  <2> QED
    BY <2>2, <2>3
<1> QED
  BY <1>1, <1>6, <1>7, <1>8, <1>9, <1>10 DEF RangeIInv

\* A visit to the borders of a block: starts do not rise, ends do not fall.
LEMMA BorderVisitFacts ==
    ASSUME RangeIInv, VisitBorders
    PROVE  /\ at' = at - 1 /\ inst = 0
           /\ inst' = IF at = 1 THEN 0 ELSE Len(fn.code[at - 1])
           /\ start' \in [Vreg -> Nat \cup {-1}] /\ end' \in [Vreg -> Nat \cup {-1}]
           /\ \A v \in Vreg : start'[v] <= start[v] /\ end[v] <= end'[v]
           /\ \A v \in Vreg : start[v] >= 0 => start'[v] >= 0
           /\ \A v \in liveIn[at] : start'[v] <= BlockStart(at)
           /\ \A v \in liveOut[at] : BlockEnd(at) <= end'[v]
<1>1. /\ WellTyped /\ at \in Block
      /\ start \in [Vreg -> Nat \cup {-1}] /\ end \in [Vreg -> Nat \cup {-1}]
      /\ \A v \in Vreg : start[v] \in Int /\ end[v] \in Int
  BY WalkFacts
<1>2. BlockStart(at) \in Nat /\ BlockEnd(at) \in Nat
  BY <1>1, BorderFacts
<1>3. /\ start' = [v \in Vreg |-> IF v \in liveIn[at] /\ start[v] > BlockStart(at)
                                  THEN BlockStart(at) ELSE start[v]]
      /\ end' = [v \in Vreg |-> IF v \in liveOut[at] THEN Later(end[v], BlockEnd(at)) ELSE end[v]]
      /\ at' = at - 1 /\ inst = 0
      /\ inst' = IF at = 1 THEN 0 ELSE Len(fn.code[at - 1])
  BY DEF VisitBorders
<1>4. ASSUME NEW v \in Vreg
      PROVE  /\ start'[v] \in Nat \cup {-1}
             /\ start'[v] <= start[v]
             /\ start[v] >= 0 => start'[v] >= 0
             /\ v \in liveIn[at] => start'[v] <= BlockStart(at)
  <2>1. start[v] \in Nat \cup {-1} /\ start[v] \in Int
    BY <1>1
  <2>2. CASE v \in liveIn[at] /\ start[v] > BlockStart(at)
    <3>1. start'[v] = BlockStart(at)
      BY <1>3, <2>2
    <3> QED
      BY <1>2, <2>1, <2>2, <3>1
  <2>3. CASE ~(v \in liveIn[at] /\ start[v] > BlockStart(at))
    <3>1. start'[v] = start[v]
      BY <1>3, <2>3
    <3> QED
      BY <1>2, <2>1, <2>3, <3>1
  <2> QED
    BY <2>2, <2>3
<1>5. ASSUME NEW v \in Vreg
      PROVE  /\ end'[v] \in Nat \cup {-1}
             /\ end[v] <= end'[v]
             /\ v \in liveOut[at] => BlockEnd(at) <= end'[v]
  <2>1. end[v] \in Nat \cup {-1} /\ end[v] \in Int
    BY <1>1
  <2>2. CASE v \in liveOut[at]
    <3>1. end'[v] = Later(end[v], BlockEnd(at))
      BY <1>3, <2>2
    <3>2. /\ Later(end[v], BlockEnd(at)) \in Nat
          /\ end[v] <= Later(end[v], BlockEnd(at))
          /\ BlockEnd(at) <= Later(end[v], BlockEnd(at))
      BY <1>2, <2>1 DEF Later
    <3> QED
      BY <3>1, <3>2
  <2>3. CASE v \notin liveOut[at]
    <3>1. end'[v] = end[v]
      BY <1>3, <2>3
    <3> QED
      BY <2>1, <2>3, <3>1
  <2> QED
    BY <2>2, <2>3
<1>6. start' \in [Vreg -> Nat \cup {-1}]
  BY <1>3, <1>4
<1>7. end' \in [Vreg -> Nat \cup {-1}]
  BY <1>3, <1>5
<1>8. liveIn[at] \subseteq Vreg /\ liveOut[at] \subseteq Vreg
  BY <1>1 DEF WellTyped, TypeOK
<1> QED
  BY <1>3, <1>4, <1>5, <1>6, <1>7, <1>8

LEMMA VisitBordersIInv ==
    ASSUME RangeIInv, VisitBorders
    PROVE  RangeIInv'
<1>1. /\ WellTyped /\ IInv' /\ fn' = fn /\ Block' = Block /\ pc' = "done" /\ pc = "done"
      /\ liveIn' = liveIn /\ liveOut' = liveOut
      /\ at \in Block /\ at \in Nat /\ at >= 1
      /\ \A v \in Vreg : start[v] \in Int /\ end[v] \in Int
  BY WalkFacts
<1>2. /\ at' = at - 1 /\ inst = 0
      /\ inst' = IF at = 1 THEN 0 ELSE Len(fn.code[at - 1])
      /\ start' \in [Vreg -> Nat \cup {-1}] /\ end' \in [Vreg -> Nat \cup {-1}]
      /\ \A v \in Vreg : start'[v] <= start[v] /\ end[v] <= end'[v]
      /\ \A v \in Vreg : start[v] >= 0 => start'[v] >= 0
      /\ \A v \in liveIn[at] : start'[v] <= BlockStart(at)
      /\ \A v \in liveOut[at] : BlockEnd(at) <= end'[v]
  BY BorderVisitFacts
<1>3. RangeTypeOK /\ InstructionsCovered /\ BordersCovered /\ ParametersStarted
  BY DEF RangeIInv
<1>4. \A v \in Vreg : start'[v] \in Int /\ end'[v] \in Int
  BY <1>2
<1>5. fn.n \in Nat /\ at <= fn.n
  BY <1>1, LayoutFacts DEF Block
<1>6. RangeTypeOK'
  <2>1. at' \in 0..fn.n
    BY <1>1, <1>2, <1>5
  <2>2. inst' \in Nat /\ (at' >= 1 => inst' <= Len(fn.code[at']))
    <3>1. CASE at = 1
      BY <1>2, <3>1
    <3>2. CASE at # 1
      <4>1. at - 1 \in Block
        BY <1>1, <1>5, <3>2 DEF Block
      <4>2. Len(fn.code[at - 1]) \in Nat
        BY <1>1, <4>1, CodeFacts
      <4> QED
        BY <1>2, <3>2, <4>2
    <3> QED
      BY <3>1, <3>2
  <2>3. ASSUME NEW v \in Vreg PROVE start'[v] <= Later(end'[v], 0)
    <3>1. start[v] <= Later(end[v], 0)
      BY <1>3 DEF RangeTypeOK
    <3>2. start'[v] <= start[v] /\ end[v] <= end'[v]
      BY <1>2
    <3>3. start[v] \in Int /\ end[v] \in Int /\ start'[v] \in Int /\ end'[v] \in Int
      BY <1>1, <1>4
    <3> QED
      BY <3>1, <3>2, <3>3 DEF Later
  <2> QED
    BY <1>1, <1>2, <2>1, <2>2, <2>3 DEF RangeTypeOK
<1>7. NotWalked'
  BY <1>1 DEF NotWalked
<1>8. InstructionsCovered'
  <2> SUFFICES ASSUME NEW c \in Block, NEW j \in 1..Len(fn.code[c]), Visited(c, j)'
               PROVE  /\ \A v \in fn.code[c][j].uses : Id(c, j) <= end'[v]
                      /\ \A v \in fn.code[c][j].defs :
                            start'[v] \in 0..Id(c, j) /\ Id(c, j) <= end'[v]
    BY <1>1 DEF InstructionsCovered, Id
  <2>1. fn.code[c][j].uses \subseteq Vreg /\ fn.code[c][j].defs \subseteq Vreg
        /\ Len(fn.code[c]) \in Nat /\ c \in Nat /\ c >= 1
    BY <1>1, CodeFacts DEF Block
  <2>2. Id(c, j) \in Nat
    BY <1>1, IdOrder
  <2>3. Visited(c, j)
    <3>1. at' < c \/ (at' = c /\ inst' < j)
      BY DEF Visited
    <3>2. CASE at' < c
      BY <1>1, <1>2, <2>1, <3>2 DEF Visited
    <3>3. CASE at' = c /\ inst' < j
      <4>1. at # 1 /\ inst' = Len(fn.code[c])
        BY <1>1, <1>2, <2>1, <3>3
      <4> QED
        BY <2>1, <3>3, <4>1
    <3> QED
      BY <3>1, <3>2, <3>3
  <2>4. /\ \A v \in fn.code[c][j].uses : Id(c, j) <= end[v]
        /\ \A v \in fn.code[c][j].defs :
              start[v] \in 0..Id(c, j) /\ Id(c, j) <= end[v]
    BY <1>3, <2>3 DEF InstructionsCovered
  <2>5. ASSUME NEW v \in Vreg, Id(c, j) <= end[v] PROVE Id(c, j) <= end'[v]
    BY <1>1, <1>2, <1>4, <2>2, <2>5
  <2>6. ASSUME NEW v \in fn.code[c][j].defs PROVE start'[v] \in 0..Id(c, j)
    <3>1. start[v] \in 0..Id(c, j) /\ v \in Vreg
      BY <2>1, <2>4
    <3>2. start'[v] <= start[v] /\ start'[v] >= 0 /\ start'[v] \in Int
      BY <1>2, <1>4, <2>2, <3>1
    <3> QED
      BY <2>2, <3>1, <3>2
  <2> QED
    BY <2>1, <2>4, <2>5, <2>6
<1>9. BordersCovered'
  <2> SUFFICES ASSUME NEW c \in Block, at - 1 < c
               PROVE  /\ HasStart(c) => \A v \in liveIn[c] : start'[v] <= BlockStart(c)
                      /\ \A v \in liveOut[c] : BlockEnd(c) <= end'[v]
    BY <1>1, <1>2 DEF BordersCovered, BlockStart, BlockEnd, HasStart, Id
  <2>1. liveIn[c] \subseteq Vreg /\ liveOut[c] \subseteq Vreg /\ c \in Nat
    BY <1>1, CodeFacts DEF WellTyped, TypeOK
  <2>2. CASE c = at
    BY <1>2, <2>2
  <2>3. CASE c # at
    <3>1. at < c
      BY <1>1, <2>1, <2>3
    <3>2. /\ HasStart(c) => \A v \in liveIn[c] : start[v] <= BlockStart(c)
          /\ \A v \in liveOut[c] : BlockEnd(c) <= end[v]
      BY <1>3, <3>1 DEF BordersCovered
    <3>3. BlockEnd(c) \in Nat /\ BlockStart(c) \in Nat
      BY <1>1, BorderFacts
    <3>4. ASSUME HasStart(c), NEW v \in liveIn[c] PROVE start'[v] <= BlockStart(c)
      <4>1. start'[v] <= start[v] /\ start[v] \in Int /\ start'[v] \in Int
        BY <1>1, <1>2, <1>4, <2>1
      <4> QED
        BY <3>2, <3>3, <3>4, <4>1
    <3>5. ASSUME NEW v \in liveOut[c] PROVE BlockEnd(c) <= end'[v]
      <4>1. end[v] <= end'[v] /\ end[v] \in Int /\ end'[v] \in Int
        BY <1>1, <1>2, <1>4, <2>1
      <4> QED
        BY <3>2, <3>3, <4>1
    <3> QED
      BY <3>4, <3>5
  <2> QED
    BY <2>2, <2>3
<1>10. ParametersStarted'
  <2> SUFFICES ASSUME NEW v \in fn.params PROVE start'[v] >= 0
    BY <1>1 DEF ParametersStarted
  <2>1. v \in Vreg /\ start[v] >= 0
    BY <1>1, <1>3, LayoutFacts DEF ParametersStarted
  <2> QED
    BY <1>2, <2>1
<1> QED
  BY <1>1, <1>6, <1>7, <1>8, <1>9, <1>10 DEF RangeIInv

LEMMA RangeStutterIInv ==
    ASSUME RangeIInv, UNCHANGED rangeVars
    PROVE  RangeIInv'
<1>1. UNCHANGED vars /\ UNCHANGED walk
  BY DEF rangeVars, vars, walk
<1>2. IInv'
  BY <1>1, StutterIInv DEF RangeIInv
<1> QED
  BY <1>1, <1>2 DEF vars, walk, RangeIInv, RangeTypeOK, NotWalked, InstructionsCovered,
     BordersCovered, ParametersStarted, Visited, HasStart, Id, BlockStart, BlockEnd, Block

LEMMA RangeNextIInv == RangeIInv /\ [RangeNext]_rangeVars => RangeIInv'
  BY AnalyseIInv, VisitInstructionIInv, VisitBordersIInv, RangeStutterIInv DEF RangeNext

LEMMA RangeInvariance == RangeSpec => []RangeIInv
  BY RangeInitIInv, RangeNextIInv, PTL DEF RangeSpec

\* The intervals are made of numbers of the function's instructions, none ends
\* before it starts, and the walk never leaves the function.
THEOREM RangeTypeCorrect == RangeSpec => []RangeTypeOK
<1>1. RangeIInv => RangeTypeOK
  BY DEF RangeIInv
<1> QED
  BY <1>1, RangeInvariance, PTL

-----------------------------------------------------------------------------
(* What the finished intervals cover. *)

\* The number that stands for the point after the first j instructions of c.
Point(c, j) == IF j = 0 THEN BlockStart(c) ELSE Id(c, j)

LEMMA AllVisited ==
    ASSUME RangeIInv, Finished
    PROVE  /\ IInv /\ WellTyped /\ pc = "done" /\ EquationsSolved
           /\ \A c \in Block : \A j \in 1..Len(fn.code[c]) :
                 /\ \A v \in fn.code[c][j].uses : Id(c, j) <= end[v]
                 /\ \A v \in fn.code[c][j].defs :
                       start[v] \in 0..Id(c, j) /\ Id(c, j) <= end[v]
           /\ \A c \in Block :
                 /\ HasStart(c) => \A v \in liveIn[c] : start[v] <= BlockStart(c)
                 /\ \A v \in liveOut[c] : BlockEnd(c) <= end[v]
           /\ \A v \in Vreg : start[v] \in Int /\ end[v] \in Int
<1>1. /\ IInv /\ WellTyped /\ RangeTypeOK /\ InstructionsCovered /\ BordersCovered
      /\ pc = "done" /\ at = 0
  BY DEF RangeIInv, IInv, Finished
<1>2. EquationsSolved
  BY <1>1 DEF IInv, DoneUnchanged, VisitedSolved, EquationsSolved
<1>3. \A c \in Block : at < c
  BY <1>1 DEF Block
<1>4. \A v \in Vreg : start[v] \in Int /\ end[v] \in Int
  <2>1. start \in [Vreg -> Nat \cup {-1}] /\ end \in [Vreg -> Nat \cup {-1}]
    BY <1>1 DEF RangeTypeOK
  <2> QED
    BY <2>1
<1> QED
  BY <1>1, <1>2, <1>3, <1>4 DEF InstructionsCovered, BordersCovered, Visited

\* What is live after an instruction is read in the block or live out of it.
LEMMA LiveAfterFound ==
    ASSUME RangeIInv, Finished, NoSlots, NEW c \in Block, NEW j \in Nat,
           NEW v \in LiveAfter(c, j)
    PROVE  /\ v \in Vreg
           /\ \/ ReadFrom(c, j + 1, v)
              \/ /\ \A h \in (j + 1)..Len(fn.code[c]) : v \notin fn.code[c][h].defs
                 /\ v \in liveOut[c]
<1>1. IInv /\ WellTyped /\ pc = "done" /\ EquationsSolved
  BY AllVisited
<1>2. ASSUME NEW s \in fn.succ[c], v \in Vreg, ReadLater(s, v) PROVE v \in liveOut[c]
  <2>1. s \in Block
    BY <1>1, FnFacts
  <2>2. v \in liveIn[s]
    BY <1>1, <1>2, <2>1, ReadIsLive
  <2> QED
    BY <1>1, <2>2 DEF EquationsSolved, OutOf
<1> QED
  BY <1>2 DEF LiveAfter

\* The interval of a live vreg has not ended.
LEMMA EndCovers ==
    ASSUME RangeIInv, Finished, NoSlots, NEW c \in Block,
           NEW j \in 0..Len(fn.code[c]), NEW v \in LiveAfter(c, j)
    PROVE  Point(c, j) <= end[v]
<1>1. /\ IInv /\ WellTyped
      /\ \A m \in 1..Len(fn.code[c]) : \A w \in fn.code[c][m].uses : Id(c, m) <= end[w]
      /\ \A w \in liveOut[c] : BlockEnd(c) <= end[w]
      /\ \A w \in Vreg : end[w] \in Int
  BY AllVisited
<1>2. Len(fn.code[c]) \in Nat /\ j \in Nat
  BY <1>1, CodeFacts
<1>3. v \in Vreg /\ end[v] \in Int
  BY <1>1, <1>2, LiveAfterFound
<1>4. CASE ReadFrom(c, j + 1, v)
  <2>1. PICK m \in (j + 1)..Len(fn.code[c]) : v \in fn.code[c][m].uses
    BY <1>4 DEF ReadFrom
  <2>2. m \in 1..Len(fn.code[c]) /\ j <= m
    BY <1>2
  <2>3. Id(c, m) <= end[v] /\ Id(c, m) \in Nat
    BY <1>1, <2>1, <2>2, IdOrder
  <2>4. CASE j = 0
    <3>1. BlockStart(c) <= Id(c, m) /\ BlockStart(c) \in Nat
      BY <1>1, <2>2, BorderFacts
    <3> QED
      BY <1>3, <2>3, <2>4, <3>1 DEF Point
  <2>5. CASE j # 0
    <3>1. j \in 1..Len(fn.code[c])
      BY <2>5, <1>2
    <3>2. Id(c, j) <= Id(c, m) /\ Id(c, j) \in Nat
      BY <1>1, <2>2, <3>1, IdOrder
    <3> QED
      BY <1>3, <2>3, <2>5, <3>2 DEF Point
  <2> QED
    BY <2>4, <2>5
<1>5. CASE v \in liveOut[c]
  <2>1. /\ BlockEnd(c) <= end[v] /\ BlockEnd(c) \in Nat
        /\ BlockStart(c) <= BlockEnd(c) /\ BlockStart(c) \in Nat
    BY <1>1, <1>5, BorderFacts
  <2>2. CASE j = 0
    BY <1>3, <2>1, <2>2 DEF Point
  <2>3. CASE j # 0
    <3>1. j \in 1..Len(fn.code[c])
      BY <2>3, <1>2
    <3>2. Id(c, j) <= BlockEnd(c) /\ Id(c, j) \in Nat
      BY <1>1, <3>1, BorderFacts, IdOrder
    <3> QED
      BY <1>3, <2>1, <2>3, <3>2 DEF Point
  <2> QED
    BY <2>2, <2>3
<1> QED
  BY <1>2, <1>4, <1>5, LiveAfterFound

\* What is live, and not written by the first j instructions, was live at the
\* start of the block.
LEMMA LiveFromStart ==
    ASSUME RangeIInv, Finished, NoSlots, NEW c \in Block,
           NEW j \in 0..Len(fn.code[c]), NEW v \in LiveAfter(c, j),
           \A h \in 1..j : v \notin fn.code[c][h].defs
    PROVE  v \in liveIn[c]
<1>1. IInv /\ WellTyped /\ pc = "done" /\ EquationsSolved
  BY AllVisited
<1>2. Len(fn.code[c]) \in Nat /\ j \in Nat /\ v \in Vreg
  BY <1>1, CodeFacts, LiveAfterFound
<1>3. liveIn[c] = uses[c] \cup (OutOf(c, liveIn) \ defs[c]) /\ liveOut[c] = OutOf(c, liveIn)
  BY <1>1 DEF EquationsSolved, InOf
<1>4. CASE ReadFrom(c, j + 1, v)
  <2>1. PICK m \in (j + 1)..Len(fn.code[c]) :
            /\ v \in fn.code[c][m].uses
            /\ \A h \in (j + 1)..(m - 1) : v \notin fn.code[c][h].defs
    BY <1>4 DEF ReadFrom
  <2>2. m \in 1..Len(fn.code[c]) /\ m \in Nat
    BY <1>2
  <2>3. ASSUME NEW h \in 1..(m - 1) PROVE v \notin fn.code[c][h].defs
    <3>1. h \in 1..j \/ h \in (j + 1)..(m - 1)
      BY <1>2, <2>2
    <3> QED
      BY <2>1, <3>1
  <2>4. ReadFirst(c, v)
    BY <2>1, <2>2, <2>3 DEF ReadFirst
  <2> QED
    BY <1>1, <1>2, <1>3, <2>4, ScanMeaning
<1>5. CASE /\ \A h \in (j + 1)..Len(fn.code[c]) : v \notin fn.code[c][h].defs
           /\ v \in liveOut[c]
  <2>1. ~WrittenIn(c, v)
    <3> SUFFICES ASSUME NEW h \in 1..Len(fn.code[c]) PROVE v \notin fn.code[c][h].defs
      BY DEF WrittenIn
    <3>1. h \in 1..j \/ h \in (j + 1)..Len(fn.code[c])
      BY <1>2
    <3> QED
      BY <1>5, <3>1
  <2> QED
    BY <1>1, <1>2, <1>3, <1>5, <2>1, ScanMeaning
<1> QED
  BY <1>2, <1>4, <1>5, LiveAfterFound

\* The interval of a live vreg has started.
LEMMA StartCovers ==
    ASSUME RangeIInv, Finished, NoSlots, NEW c \in Block,
           NEW j \in 0..Len(fn.code[c]), NEW v \in LiveAfter(c, j), j = 0 => c = 1
    PROVE  start[v] <= Point(c, j)
<1>1. /\ WellTyped
      /\ \A h \in 1..Len(fn.code[c]) : \A w \in fn.code[c][h].defs : start[w] \in 0..Id(c, h)
      /\ HasStart(c) => \A w \in liveIn[c] : start[w] <= BlockStart(c)
      /\ \A w \in Vreg : start[w] \in Int
  BY AllVisited
<1>2. Len(fn.code[c]) \in Nat /\ j \in Nat /\ HasStart(c)
  BY <1>1, CodeFacts DEF HasStart
<1>3. v \in Vreg /\ start[v] \in Int
  BY <1>1, <1>2, LiveAfterFound
<1>4. CASE \E h \in 1..j : v \in fn.code[c][h].defs
  <2>1. PICK h \in 1..j : v \in fn.code[c][h].defs
    BY <1>4
  <2>2. h \in 1..Len(fn.code[c]) /\ j \in 1..Len(fn.code[c]) /\ h <= j /\ j # 0
    BY <1>2
  <2>3. Id(c, h) <= Id(c, j) /\ Id(c, h) \in Nat /\ Id(c, j) \in Nat
    BY <1>1, <2>2, IdOrder
  <2>4. start[v] <= Id(c, h)
    BY <1>1, <2>1, <2>2, <2>3
  <2> QED
    BY <1>3, <2>2, <2>3, <2>4 DEF Point
<1>5. CASE \A h \in 1..j : v \notin fn.code[c][h].defs
  <2>1. v \in liveIn[c]
    BY <1>5, LiveFromStart
  <2>2. start[v] <= BlockStart(c) /\ BlockStart(c) \in Nat
    BY <1>1, <1>2, <2>1, BorderFacts
  <2>3. CASE j = 0
    BY <2>2, <2>3 DEF Point
  <2>4. CASE j # 0
    <3>1. j \in 1..Len(fn.code[c])
      BY <1>2, <2>4
    <3>2. BlockStart(c) <= Id(c, j) /\ Id(c, j) \in Nat
      BY <1>1, <3>1, IdOrder, BorderFacts
    <3> QED
      BY <1>2, <1>3, <2>2, <2>4, <3>2 DEF Point
  <2> QED
    BY <2>3, <2>4
<1> QED
  BY <1>4, <1>5

\* A vreg that has a value at some time has a start.
LEMMA BornStarted ==
    ASSUME RangeIInv, Finished, NEW v \in Vreg, Born(v)
    PROVE  start[v] >= 0
<1>1. CASE v \in fn.params
  BY <1>1 DEF RangeIInv, ParametersStarted
<1>2. CASE \E c \in Block : WrittenIn(c, v)
  <2>1. PICK c \in Block : WrittenIn(c, v)
    BY <1>2
  <2>2. PICK j \in 1..Len(fn.code[c]) : v \in fn.code[c][j].defs
    BY <2>1 DEF WrittenIn
  <2>3. start[v] \in 0..Id(c, j) /\ Id(c, j) \in Nat
    BY <2>2, AllVisited, IdOrder
  <2> QED
    BY <2>3
<1> QED
  BY <1>1, <1>2 DEF Born

\* The allocator sees a conflict between whatever an instruction writes and
\* every vreg that is needed after it, for all control-flow graphs: so two
\* vregs that do not meet can share a register.
THEOREM WritesMeetWhatLives ==
    ASSUME NoSlots PROVE RangeSpec => []WritesMeetTheLive
<1>1. RangeIInv => WritesMeetTheLive
  <2> SUFFICES ASSUME RangeIInv, Finished, NEW c \in Block, NEW j \in 1..Len(fn.code[c]),
                      NEW w \in fn.code[c][j].defs, NEW v \in LiveAfter(c, j), Born(v)
               PROVE  Meet(v, w)
    BY DEF WritesMeetTheLive
  <2>1. /\ WellTyped
        /\ start[w] \in 0..Id(c, j) /\ Id(c, j) <= end[w]
        /\ \A x \in Vreg : start[x] \in Int /\ end[x] \in Int
    BY AllVisited
  <2>2. Len(fn.code[c]) \in Nat /\ w \in Vreg
    BY <2>1, CodeFacts
  <2>3. v \in Vreg /\ j \in 0..Len(fn.code[c]) /\ j # 0
    BY <2>2, LiveAfterFound
  <2>4. Id(c, j) \in Nat /\ Point(c, j) = Id(c, j)
    BY <2>1, <2>3, IdOrder DEF Point
  <2>5. start[v] <= Id(c, j) /\ Id(c, j) <= end[v] /\ start[v] >= 0
    BY <2>3, <2>4, StartCovers, EndCovers, BornStarted
  <2>6. start[v] \in Int /\ end[v] \in Int /\ start[w] \in Int /\ end[w] \in Int
    BY <2>1, <2>2, <2>3
  <2>7. start[w] >= 0 /\ start[w] <= Id(c, j)
    BY <2>1, <2>4
  <2>8. start[v] <= end[w] /\ start[w] <= end[v]
    BY <2>1, <2>4, <2>5, <2>6, <2>7
  <2>9. -1 \notin {start[v], end[v], start[w], end[w]}
    BY <2>1, <2>4, <2>5, <2>6, <2>7
  <2> QED
    BY <2>8, <2>9 DEF Meet
<1> QED
  BY <1>1, RangeInvariance, PTL

\* Parameters whose values are needed arrive in different places.
THEOREM ParametersKeptApart ==
    ASSUME NoSlots PROVE RangeSpec => []ParametersMeet
<1>1. RangeIInv => ParametersMeet
  <2> SUFFICES ASSUME RangeIInv, Finished, fn.n >= 1,
                      NEW v \in fn.params \cap LiveAfter(1, 0),
                      NEW w \in fn.params \cap LiveAfter(1, 0)
               PROVE  Meet(v, w)
    BY DEF ParametersMeet
  <2>1. WellTyped /\ \A x \in Vreg : start[x] \in Int /\ end[x] \in Int
    BY AllVisited
  <2>2. 1 \in Block /\ fn.n \in Nat
    BY <2>1, LayoutFacts DEF Block
  <2>3. 0 \in 0..Len(fn.code[1]) /\ Point(1, 0) \in Nat
    BY <2>1, <2>2, CodeFacts, BorderFacts DEF Point
  <2>4. ASSUME NEW x \in fn.params \cap LiveAfter(1, 0)
        PROVE  /\ x \in Vreg /\ start[x] \in Nat /\ end[x] \in Nat
               /\ start[x] <= Point(1, 0) /\ Point(1, 0) <= end[x]
    <3>1. x \in Vreg /\ Born(x)
      BY <2>1, LayoutFacts DEF Born
    <3>2. start[x] <= Point(1, 0) /\ Point(1, 0) <= end[x]
      BY <2>2, <2>3, StartCovers, EndCovers
    <3>3. start[x] >= 0
      BY <3>1, BornStarted
    <3> QED
      BY <2>1, <2>3, <3>1, <3>2, <3>3
  <2>5. /\ start[v] \in Nat /\ end[v] \in Nat /\ start[w] \in Nat /\ end[w] \in Nat
        /\ start[v] <= Point(1, 0) /\ Point(1, 0) <= end[v]
        /\ start[w] <= Point(1, 0) /\ Point(1, 0) <= end[w]
    BY <2>4
  <2> QED
    BY <2>3, <2>5 DEF Meet
<1> QED
  BY <1>1, RangeInvariance, PTL
=============================================================================
