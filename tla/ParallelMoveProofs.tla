------------------------- MODULE ParallelMoveProofs -------------------------
(***************************************************************************)
(* The parallel move is correct for any number of moves and any registers. *)
(* IInv is inductive; it implies that a finished call is a simultaneous    *)
(* assignment, and, with the pigeonhole principle, that the pending moves  *)
(* form a permutation whenever a cycle has to be broken.                   *)
(***************************************************************************)
EXTENDS ParallelMove, FiniteSetTheorems, TLAPS

\* The nodes of a call, and any part of them, are finite.
LEMMA NodesFinite ==
    ASSUME TypeOK, NEW S \in SUBSET Node
    PROVE  IsFiniteSet(S) /\ Cardinality(S) \in Nat
<1>1. IsFiniteSet(Node)
  BY FS_Interval DEF TypeOK, Node
<1>2. IsFiniteSet(S)
  BY <1>1, FS_Subset
<1>3. QED
  BY <1>2, FS_CardinalityType

\* build_graph produces natural numbers.
LEMMA BuildOutDegreeType ==
    ASSUME NEW m \in Nat, NEW d \in [1..m -> Reg], NEW s \in [1..m -> Source]
    PROVE  BuildOutDegree(d, s) \in [1..m -> Nat]
<1>1. IsFiniteSet(1..m)
  BY FS_Interval
<1> SUFFICES ASSUME NEW k \in 1..m
             PROVE  Cardinality(InitialReaders(d, s, k)) \in Nat
  BY DEF BuildOutDegree
<1>2. IsFiniteSet(InitialReaders(d, s, k))
  BY <1>1, FS_Subset DEF InitialReaders
<1>3. QED
  BY <1>2, FS_CardinalityType

-----------------------------------------------------------------------------
\* The initial state satisfies the inductive invariant.
LEMMA InitIInv == Init => IInv
<1> SUFFICES ASSUME Init PROVE IInv
  OBVIOUS
<1>1. /\ n = 0 /\ Node = {} /\ Pending = {} /\ pc = "idle"
      /\ Empty \in [Node -> Nat] /\ Empty \in [Node -> Reg]
      /\ Empty \in [Node -> Source] /\ Empty \in [Node -> Value]
      /\ Empty \in [Node -> BOOLEAN] /\ DOMAIN Empty = {}
  BY DEF Init, Node, Pending, Empty
<1>2. TypeOK
  <2>1. regs \in [Location -> Value] /\ i \in 1..(n + 1)
    BY <1>1 DEF Init, Untouched, Value
  <2>2. progress \in BOOLEAN /\ busy \subseteq Scratch /\ n \in Nat
    BY DEF Init
  <2>3. /\ dst \in [Node -> Reg] /\ src \in [Node -> Source]
        /\ srcReg \in [Node -> Value] /\ outDegree \in [Node -> Nat]
        /\ done \in [Node -> BOOLEAN]
    BY <1>1 DEF Init
  <2>4. QED
    BY <1>1, <2>1, <2>2, <2>3 DEF TypeOK
<1>3. QED
  BY <1>1, <1>2 DEF Init, IInv, IsInjective, PendingSourceIntact, OutDegreeExact,
         SourcesTracked, DoneMovesKept, PassedAreWaiting, AllDoneAtReturn

\* Entering the function establishes the invariant for the new moves.
LEMMA EnterIInv == ASSUME IInv, Enter PROVE IInv'
<1>1. PICK m \in 0..MaxMoves : \E d \in [1..m -> Reg] :
          IsInjective(d) /\ \E s \in [1..m -> Source] : Call(m, d, s)
  BY DEF Enter
<1>2. PICK d \in [1..m -> Reg] :
          IsInjective(d) /\ \E s \in [1..m -> Source] : Call(m, d, s)
  BY <1>1
<1>3. PICK s \in [1..m -> Source] : Call(m, d, s)
  BY <1>2
<1>m. m \in Nat
  BY MaxMovesAssumption
<1>n. /\ Node' = 1..m
      /\ n' = m /\ dst' = d /\ src' = s /\ srcReg' = s
      /\ done' = [k \in 1..m |-> FALSE]
      /\ outDegree' = BuildOutDegree(d, s)
      /\ i' = 1 /\ progress' = FALSE /\ busy' = busy
      /\ regs' = Untouched
      /\ pc' = IF m = 0 THEN "done" ELSE "scan"
  BY <1>3 DEF Call, Node
<1>p. Pending' = 1..m
  BY <1>n DEF Pending
<1>4. TypeOK'
  <2>1. outDegree' \in [Node -> Nat]'
    BY <1>n, <1>m, BuildOutDegreeType
  <2>2. regs' \in [Location -> Value]
    BY <1>n DEF Untouched, Value
  <2>3. srcReg' \in [Node -> Value]'
    BY <1>n DEF Source, Value, Location
  <2>4. i' \in 1..(n' + 1) /\ dst' \in [Node -> Reg]' /\ src' \in [Node -> Source]'
        /\ done' \in [Node -> BOOLEAN]'
    BY <1>n, <1>m
  <2>5. QED
    BY <2>1, <2>2, <2>3, <2>4, <1>n, <1>m DEF IInv, TypeOK
<1>5. IsInjective(dst)'
  BY <1>2, <1>n DEF IsInjective
<1>6. PendingSourceIntact'
  <2>1. \A x \in Source : x \in Operand \/ Untouched[x] = x
    BY DEF Source, Untouched, Location
  <2>2. QED
    BY <2>1, <1>n, <1>p DEF PendingSourceIntact, ValueOf
<1>7. OutDegreeExact'
  <2>1. \A k \in 1..m : InitialReaders(d, s, k) = Readers(k)'
    BY <1>2, <1>n, <1>p DEF InitialReaders, Readers, IsInjective
  <2>2. QED
    BY <2>1, <1>n, <1>p DEF OutDegreeExact, BuildOutDegree
<1>8. SourcesTracked'
  BY <1>n, <1>p, LocationAssumption DEF SourcesTracked, Source
<1>9. DoneMovesKept'
  BY <1>n, <1>p DEF DoneMovesKept, Untouched, Location
<1>10. PassedAreWaiting'
  BY <1>n, <1>p DEF PassedAreWaiting
<1>11. AllDoneAtReturn'
  BY <1>n, <1>p, <1>m DEF AllDoneAtReturn
<1>12. QED
  BY <1>4, <1>5, <1>6, <1>7, <1>8, <1>9, <1>10, <1>11 DEF IInv

\* Passing over a waiting move.
LEMMA SkipIInv == ASSUME IInv, Skip PROVE IInv'
<1>1. /\ Node' = Node /\ Pending' = Pending
      /\ \A k \in Pending : Readers(k)' = Readers(k)
      /\ \A k \in Pending : ValueOf(srcReg[k])' = ValueOf(srcReg[k])
  BY DEF Skip, Node, Pending, Readers, ValueOf
<1>2. TypeOK'
  BY <1>1 DEF IInv, TypeOK, Skip
<1>3. PassedAreWaiting'
  BY <1>1 DEF IInv, TypeOK, PassedAreWaiting, Skip, Pending, Node
<1>4. QED
  BY <1>1, <1>2, <1>3 DEF IInv, Skip, IsInjective, PendingSourceIntact,
      OutDegreeExact, SourcesTracked, DoneMovesKept, AllDoneAtReturn

\* The next pass, the end of the loop and the missing register leave the
\* moves alone.
LEMMA NextPassIInv == ASSUME IInv, NextPass PROVE IInv'
<1>1. /\ Node' = Node /\ Pending' = Pending
      /\ \A k \in Pending : Readers(k)' = Readers(k)
      /\ \A k \in Pending : ValueOf(srcReg[k])' = ValueOf(srcReg[k])
  BY DEF NextPass, Node, Pending, Readers, ValueOf
<1>2. TypeOK'
  <2>1. i' \in 1..(n' + 1)
    BY DEF IInv, TypeOK, NextPass
  <2>2. QED
    BY <1>1, <2>1 DEF IInv, TypeOK, NextPass
<1>3. PassedAreWaiting'
  BY <1>1 DEF IInv, TypeOK, PassedAreWaiting, NextPass, Pending, Node
<1>4. QED
  BY <1>1, <1>2, <1>3 DEF IInv, NextPass, IsInjective, PendingSourceIntact,
      OutDegreeExact, SourcesTracked, DoneMovesKept, AllDoneAtReturn

LEMMA EndIInv == ASSUME IInv, Finish \/ NoReservedRegister PROVE IInv'
<1>1. /\ Node' = Node /\ Pending' = Pending /\ pc' # "scan"
      /\ pc = "scan" /\ (pc' = "done" => Pending = {})
      /\ pc' \in {"done", "null"}
  BY DEF Finish, NoReservedRegister, Node, Pending, Stuck
<1>2. UNCHANGED <<n, dst, src, srcReg, outDegree, done, i, progress, busy, regs>>
  BY DEF Finish, NoReservedRegister
<1>3. TypeOK'
  BY <1>1, <1>2 DEF IInv, TypeOK
<1>4. QED
  BY <1>1, <1>2, <1>3 DEF IInv, IsInjective, PendingSourceIntact,
      OutDegreeExact, SourcesTracked, DoneMovesKept, AllDoneAtReturn,
      PassedAreWaiting

\* After the return there is no move left.
LEMMA ReturnIInv == ASSUME IInv, Return PROVE IInv'
<1>1. /\ n' = 0 /\ Node' = {} /\ Pending' = {} /\ pc' = "idle"
      /\ (Empty \in [Node -> Nat])' /\ (Empty \in [Node -> Reg])'
      /\ (Empty \in [Node -> Source])' /\ (Empty \in [Node -> Value])'
      /\ (Empty \in [Node -> BOOLEAN])' /\ DOMAIN Empty = {}
  BY DEF Return, Node, Pending, Empty
<1>2. TypeOK'
  <2>1. (regs \in [Location -> Value])' /\ i' \in 1..(n' + 1)
    BY <1>1 DEF Return, Untouched, Value
  <2>2. progress' \in BOOLEAN /\ busy' \subseteq Scratch
    BY DEF Return, IInv, TypeOK
  <2>3. (/\ dst \in [Node -> Reg] /\ src \in [Node -> Source]
         /\ srcReg \in [Node -> Value] /\ outDegree \in [Node -> Nat]
         /\ done \in [Node -> BOOLEAN])'
    BY <1>1 DEF Return
  <2>4. QED
    BY <1>1, <2>1, <2>2, <2>3 DEF TypeOK
<1>3. QED
  BY <1>1, <1>2 DEF Return, IInv, IsInjective, PendingSourceIntact, OutDegreeExact,
         SourcesTracked, DoneMovesKept, PassedAreWaiting, AllDoneAtReturn

-----------------------------------------------------------------------------
\* The register an emitted instruction writes is read by no other pending move.
LEMMA MoveTargetUnread ==
    ASSUME IInv, Move
    PROVE  \A k \in Pending : k # i => srcReg[k] # dst[i]
<1>1. i \in Node /\ i \in Pending /\ pc = "scan" /\ outDegree[i] = 0
  BY DEF Move, Pending, Node, IInv, TypeOK
<1>2. IsFiniteSet(Readers(i))
  BY NodesFinite DEF Readers, Pending, IInv
<1>3. Cardinality(Readers(i)) = 0
  BY <1>1 DEF IInv, OutDegreeExact
<1>4. Readers(i) = {}
  BY <1>2, <1>3, FS_EmptySet
<1>5. QED
  BY <1>4 DEF Readers

\* A free reserved register is read by no pending move.
LEMMA FreeScratchUnread ==
    ASSUME IInv, pc = "scan", NEW r \in Scratch, r \notin busy
    PROVE  \A k \in Pending : srcReg[k] # r
<1>1. \A k \in Pending : src[k] \in Source /\ (srcReg[k] = src[k] \/ srcReg[k] \in busy)
  BY DEF IInv, TypeOK, SourcesTracked, Pending
<1>2. r \notin Source
  BY LocationAssumption DEF Source
<1>3. QED
  BY <1>1, <1>2

\* Emitting a move whose target has no reader.
LEMMA MoveIInv == ASSUME IInv, Move PROVE IInv'
<1>1. /\ i \in Node /\ i \in Pending /\ ~done[i] /\ pc = "scan" /\ pc' = "scan"
      /\ Node' = Node /\ Pending' = Pending \ {i}
      /\ outDegree[i] = 0
      /\ n' = n /\ dst' = dst /\ src' = src /\ srcReg' = srcReg
  BY DEF Move, Pending, Node, IInv, TypeOK
<1>2. \A j \in Pending \ {i} : srcReg[j] # dst[i]
  BY MoveTargetUnread
<1>3. dst[i] \in Reg /\ dst[i] \in Location /\ dst[i] \notin Operand
      /\ dst[i] \notin Scratch
  BY <1>1, LocationAssumption DEF IInv, TypeOK, Location
<1>4. /\ \A x \in Location : x # dst[i] => regs'[x] = regs[x]
      /\ regs'[dst[i]] = src[i]
  BY <1>1, <1>3 DEF Move, IInv, TypeOK, PendingSourceIntact
<1>5. \A k \in Pending \ {i} :
          /\ Readers(k)' = Readers(k) \ {i}
          /\ IsFiniteSet(Readers(k))
          /\ Cardinality(Readers(k)) \in Nat
          /\ outDegree[k] = Cardinality(Readers(k))
          /\ i \in Readers(k) <=> srcReg[i] = dst[k]
  <2> SUFFICES ASSUME NEW k \in Pending \ {i}
               PROVE  /\ Readers(k)' = Readers(k) \ {i}
                      /\ IsFiniteSet(Readers(k))
                      /\ Cardinality(Readers(k)) \in Nat
                      /\ outDegree[k] = Cardinality(Readers(k))
                      /\ i \in Readers(k) <=> srcReg[i] = dst[k]
    OBVIOUS
  <2>1. Readers(k) \in SUBSET Node
    BY DEF Readers, Pending
  <2>2. IsFiniteSet(Readers(k)) /\ Cardinality(Readers(k)) \in Nat
    BY <2>1, NodesFinite DEF IInv
  <2>3. outDegree[k] = Cardinality(Readers(k))
    BY <1>1 DEF IInv, OutDegreeExact
  <2>4. Readers(k)' = Readers(k) \ {i} /\ (i \in Readers(k) <=> srcReg[i] = dst[k])
    BY <1>1 DEF Readers
  <2>5. QED
    BY <2>2, <2>3, <2>4
<1>6. \A k \in Pending \ {i} :
          /\ outDegree'[k] = IF srcReg[i] = dst[k] THEN outDegree[k] - 1
                                                 ELSE outDegree[k]
          /\ srcReg[i] = dst[k] => outDegree[k] > 0
  <2> SUFFICES ASSUME NEW k \in Pending \ {i}
               PROVE  /\ outDegree'[k] = IF srcReg[i] = dst[k]
                                         THEN outDegree[k] - 1 ELSE outDegree[k]
                      /\ srcReg[i] = dst[k] => outDegree[k] > 0
    OBVIOUS
  <2>1. k \in Node /\ ~done[k] /\ dst[k] \in Reg /\ outDegree[k] \in Nat
        /\ dst[k] \notin Scratch
    BY LocationAssumption DEF Pending, IInv, TypeOK
  <2>2. outDegree'[k] = IF src[i] = dst[k] /\ outDegree[k] > 0
                        THEN outDegree[k] - 1 ELSE outDegree[k]
    BY <2>1 DEF Move, DropReader
  <2>3. CASE srcReg[i] = dst[k]
    <3>1. src[i] = dst[k]
      BY <1>1, <2>1, <2>3 DEF IInv, SourcesTracked, TypeOK
    <3>2. Cardinality(Readers(k)) # 0
      BY <1>5, <2>3, FS_EmptySet
    <3>3. outDegree[k] > 0
      BY <1>5, <3>2, <2>1
    <3>4. QED
      BY <3>1, <3>3, <2>2, <2>3
  <2>4. CASE srcReg[i] # dst[k]
    <3>1. src[i] = dst[k] => outDegree[k] = 0
      BY <1>1, <2>4 DEF IInv, SourcesTracked, TypeOK
    <3>2. QED
      BY <3>1, <2>2, <2>1, <2>4
  <2>5. QED
    BY <2>3, <2>4
<1>7. TypeOK'
  <2>1. regs' \in [Location -> Value]
    <3>1. ValueOf(srcReg[i]) \in Value
      BY <1>1 DEF IInv, TypeOK, ValueOf, Value
    <3>2. QED
      BY <3>1 DEF Move, IInv, TypeOK
  <2>2. busy' \subseteq Scratch
    BY DEF Move, Release, IInv, TypeOK
  <2>3. outDegree' \in [Node -> Nat]
    BY DEF Move, DropReader, IInv, TypeOK
  <2>4. i' \in 1..(n' + 1)
    BY <1>1 DEF Move, IInv, TypeOK
  <2>5. done' \in [Node -> BOOLEAN]
    BY <1>1 DEF Move, IInv, TypeOK
  <2>6. QED
    BY <1>1, <2>1, <2>2, <2>3, <2>4, <2>5 DEF Move, IInv, TypeOK
<1>8. PendingSourceIntact'
  <2> SUFFICES ASSUME NEW k \in Pending \ {i}
               PROVE  ValueOf(srcReg[k])' = src[k]
    BY <1>1 DEF PendingSourceIntact
  <2>1. ValueOf(srcReg[k]) = src[k] /\ srcReg[k] # dst[i] /\ srcReg[k] \in Value
    BY <1>1, <1>2 DEF IInv, PendingSourceIntact, TypeOK, Pending
  <2>2. QED
    BY <2>1, <1>1, <1>4 DEF ValueOf, Value
<1>9. OutDegreeExact'
  <2> SUFFICES ASSUME NEW k \in Pending \ {i}
               PROVE  outDegree'[k] = Cardinality(Readers(k)')
    BY <1>1 DEF OutDegreeExact
  <2>1. Cardinality(Readers(k) \ {i}) =
            IF i \in Readers(k) THEN Cardinality(Readers(k)) - 1
                                ELSE Cardinality(Readers(k))
    BY <1>5, FS_RemoveElement
  <2>2. QED
    BY <2>1, <1>5, <1>6
<1>10. SourcesTracked'
  <2>1. \A k \in Pending \ {i} : srcReg[k] = src[k] \/ srcReg[k] \in busy'
    BY <1>1 DEF IInv, SourcesTracked, Move, Release, Pending
  <2>2. \A j, k \in Pending \ {i} :
            srcReg[j] \in Scratch /\ src[j] = dst[k] => outDegree'[k] = 0
    BY <1>1, <1>6 DEF IInv, SourcesTracked
  <2>3. QED
    BY <1>1, <2>1, <2>2 DEF SourcesTracked
<1>11. DoneMovesKept'
  <2>1. ASSUME NEW k \in Node, done'[k] PROVE regs'[dst[k]] = src[k]
    <3>1. CASE k = i
      BY <3>1, <1>4
    <3>2. CASE k # i
      <4>1. done[k] /\ dst[k] # dst[i] /\ dst[k] \in Location
        BY <3>2, <2>1, <1>1 DEF Move, IInv, TypeOK, IsInjective, Location
      <4>2. QED
        BY <4>1, <1>1, <1>4 DEF IInv, DoneMovesKept
    <3>3. QED
      BY <3>1, <3>2
  <2>2. \A x \in Reg : (\A k \in Node : dst[k] # x) => regs'[x] = x
    BY <1>1, <1>4 DEF IInv, DoneMovesKept, Location
  <2>3. QED
    BY <2>1, <2>2, <1>1 DEF DoneMovesKept
<1>12. PassedAreWaiting'
  BY DEF Move, PassedAreWaiting
<1>13. QED
  BY <1>1, <1>7, <1>8, <1>9, <1>10, <1>11, <1>12
     DEF IInv, IsInjective, AllDoneAtReturn

-----------------------------------------------------------------------------
\* When no move can be emitted every pending target has another reader, and
\* no pending move reads a busy reserved register or its own target.
LEMMA StuckFacts ==
    ASSUME IInv, Stuck
    PROVE  /\ \A k \in Pending : \E j \in Pending \ {k} : srcReg[j] = dst[k]
           /\ IsFiniteSet(Pending)
<1>1. \A k \in Pending : Readers(k) # {}
  <2> SUFFICES ASSUME NEW k \in Pending PROVE Readers(k) # {}
    OBVIOUS
  <2>1. k \in Node /\ k < i
    BY DEF Stuck, Pending, Node, IInv, TypeOK
  <2>2. outDegree[k] # 0
    BY <2>1 DEF IInv, PassedAreWaiting, Stuck
  <2>3. Cardinality(Readers(k)) # 0
    BY <2>2 DEF IInv, OutDegreeExact, Stuck
  <2>4. QED
    BY <2>3, FS_EmptySet
<1>2. IsFiniteSet(Pending)
  BY NodesFinite DEF Pending, IInv
<1>3. QED
  BY <1>1, <1>2 DEF Readers

\* The pigeonhole step: the pending moves read exactly what they write.
LEMMA StuckPermutation == ASSUME IInv, Stuck PROVE StuckIsPermutation
<1> DEFINE f == [k \in Pending |-> CHOOSE j \in Pending \ {k} : srcReg[j] = dst[k]]
<1>1. \A k \in Pending : f[k] \in Pending \ {k} /\ srcReg[f[k]] = dst[k]
  BY StuckFacts
<1>2. f \in [Pending -> Pending]
  BY <1>1
<1>3. \A j, k \in Pending : f[j] = f[k] => j = k
  BY <1>1 DEF IInv, IsInjective, Pending, TypeOK
<1> HIDE DEF f
<1>4. IsInjective(f)
  BY <1>2, <1>3 DEF IsInjective
<1>5. f \in Injection(Pending, Pending)
  BY <1>2, <1>4 DEF Injection
<1>6. f \in Surjection(Pending, Pending)
  BY <1>5, StuckFacts, FS_Injection
<1>7. \A k \in Pending : \E j \in Pending : f[j] = k
  BY <1>6 DEF Surjection
<1>8. \A k \in Pending : \E j \in Pending : srcReg[k] = dst[j] /\ j # k
  BY <1>7, <1>1
<1>9. \A k \in Pending : \E j \in Pending : srcReg[j] = dst[k]
  BY <1>1
<1>10. \A k \in Pending : srcReg[k] # dst[k]
  BY <1>8 DEF IInv, IsInjective, Pending, TypeOK
<1>11. QED
  BY <1>8, <1>9, <1>10 DEF StuckIsPermutation
\* Saving the target of the first pending move in a free reserved register.
LEMMA BreakIInv ==
    ASSUME IInv, NEW k \in Node, NEW r \in Scratch, BreakCycle(k, r)
    PROVE  IInv'
<1>1. /\ k \in Pending /\ pc = "scan" /\ pc' = "scan" /\ r \notin busy
      /\ Node' = Node /\ Pending' = Pending
      /\ n' = n /\ dst' = dst /\ src' = src /\ done' = done
      /\ i' = 1 /\ progress' = FALSE
  BY DEF BreakCycle, FirstPending, Stuck, Pending, Node
<1>2. /\ r \in Location /\ r \notin Operand /\ r \notin Source
      /\ \A j \in Node : dst[j] \in Location /\ dst[j] # r /\ dst[j] \notin Scratch
  BY LocationAssumption DEF IInv, TypeOK, Location, Source
<1>3. \A j \in Pending : j \in Node /\ srcReg[j] \in Value /\ srcReg[j] # r
  <2>1. \A j \in Pending : j \in Node /\ srcReg[j] \in Value /\ src[j] \in Source
    BY DEF IInv, TypeOK, Pending
  <2>2. \A j \in Pending : srcReg[j] = src[j] \/ srcReg[j] \in busy
    BY <1>1 DEF IInv, SourcesTracked
  <2>3. QED
    BY <1>1, <1>2, <2>1, <2>2
<1>4. \A j \in Pending :
          srcReg'[j] = IF srcReg[j] = dst[k] THEN r ELSE srcReg[j]
  BY DEF BreakCycle, Redirect, Pending
<1>5. /\ regs'[r] = regs[dst[k]]
      /\ \A x \in Location : x # r => regs'[x] = regs[x]
  BY <1>2 DEF BreakCycle, IInv, TypeOK
<1>6. /\ outDegree'[k] = 0
      /\ \A j \in Node : j # k => outDegree'[j] = outDegree[j]
  BY DEF BreakCycle, IInv, TypeOK
<1>7. TypeOK'
  <2>1. srcReg' \in [Node -> Value]
    BY <1>2 DEF BreakCycle, Redirect, IInv, TypeOK, Value
  <2>2. outDegree' \in [Node -> Nat]
    BY DEF BreakCycle, IInv, TypeOK
  <2>3. regs' \in [Location -> Value]
    BY <1>2 DEF BreakCycle, IInv, TypeOK
  <2>4. busy' \subseteq Scratch
    BY DEF BreakCycle, IInv, TypeOK
  <2>5. i' \in 1..(n' + 1)
    BY <1>1 DEF IInv, TypeOK
  <2>6. QED
    BY <1>1, <2>1, <2>2, <2>3, <2>4, <2>5 DEF IInv, TypeOK
<1>8. PendingSourceIntact'
  <2> SUFFICES ASSUME NEW j \in Pending PROVE ValueOf(srcReg[j])' = src[j]
    BY <1>1 DEF PendingSourceIntact
  <2>1. ValueOf(srcReg[j]) = src[j]
    BY <1>1 DEF IInv, PendingSourceIntact
  <2>2. CASE srcReg[j] = dst[k]
    <3>1. srcReg[j] \notin Operand
      BY <2>2, <1>1, LocationAssumption DEF IInv, TypeOK
    <3>2. QED
      BY <3>1, <2>1, <2>2, <1>2, <1>4, <1>5 DEF ValueOf
  <2>3. CASE srcReg[j] # dst[k]
    BY <2>1, <2>3, <1>3, <1>4, <1>5 DEF ValueOf, Value
  <2>4. QED
    BY <2>2, <2>3
<1>9. OutDegreeExact'
  <2> SUFFICES ASSUME NEW j \in Pending
               PROVE  outDegree'[j] = Cardinality(Readers(j)')
    BY <1>1 DEF OutDegreeExact
  <2>1. CASE j = k
    <3>1. Readers(k)' = {}
      BY <1>1, <1>2, <1>4 DEF Readers
    <3>2. QED
      BY <2>1, <3>1, <1>6, FS_EmptySet
  <2>2. CASE j # k
    <3>1. dst[j] # dst[k] /\ j \in Node
      BY <2>2, <1>1, <1>3 DEF IInv, TypeOK, IsInjective
    <3>2. Readers(j)' = Readers(j)
      BY <3>1, <1>1, <1>2, <1>4 DEF Readers
    <3>3. QED
      BY <3>1, <3>2, <2>2, <1>1, <1>6 DEF IInv, OutDegreeExact
  <2>3. QED
    BY <2>1, <2>2
<1>10. SourcesTracked'
  <2>1. \A j \in Pending : srcReg'[j] = src[j] \/ srcReg'[j] \in busy'
    BY <1>1, <1>4 DEF IInv, SourcesTracked, BreakCycle
  <2>2. ASSUME NEW j \in Pending, NEW m \in Pending,
               srcReg'[j] \in Scratch, src[j] = dst[m]
        PROVE  outDegree'[m] = 0
    <3>1. CASE m = k
      BY <3>1, <1>6
    <3>2. CASE m # k
      <4>1. dst[m] # dst[k] /\ m \in Node
        BY <3>2, <1>1, <1>3 DEF IInv, TypeOK, IsInjective
      <4>2. srcReg[j] = src[j] \/ srcReg[j] \in Scratch
        BY <1>1 DEF IInv, SourcesTracked, TypeOK
      <4>3. srcReg[j] # dst[k]
        BY <4>1, <4>2, <2>2, <1>1, <1>2
      <4>4. srcReg[j] \in Scratch
        BY <4>3, <2>2, <1>4
      <4>5. outDegree[m] = 0
        BY <4>4, <2>2, <1>1 DEF IInv, SourcesTracked
      <4>6. QED
        BY <4>1, <4>5, <3>2, <1>6
    <3>3. QED
      BY <3>1, <3>2
  <2>3. QED
    BY <2>1, <2>2, <1>1 DEF SourcesTracked
<1>11. DoneMovesKept'
  <2>1. \A x \in Reg : x \in Location /\ x # r
    BY LocationAssumption DEF Location
  <2>2. \A j \in Node : dst[j] \in Reg
    BY DEF IInv, TypeOK
  <2>3. QED
    BY <2>1, <2>2, <1>1, <1>5 DEF IInv, DoneMovesKept
<1>12. PassedAreWaiting'
  <2>1. \A j \in Pending' : ~(j < i')
    BY <1>1 DEF Pending, Node
  <2>2. QED
    BY <2>1 DEF PassedAreWaiting
<1>13. QED
  BY <1>1, <1>7, <1>8, <1>9, <1>10, <1>11, <1>12 DEF IInv, AllDoneAtReturn

-----------------------------------------------------------------------------
\* IInv is an invariant of every call sequence.
LEMMA Invariance == Spec => []IInv
<1>1. IInv /\ [Next]_vars => IInv'
  <2> SUFFICES ASSUME IInv, [Next]_vars PROVE IInv'
    OBVIOUS
  <2>1. CASE Enter
    BY <2>1, EnterIInv
  <2>2. CASE Skip
    BY <2>2, SkipIInv
  <2>3. CASE Move
    BY <2>3, MoveIInv
  <2>4. CASE NextPass
    BY <2>4, NextPassIInv
  <2>5. CASE \E k \in Node, r \in Scratch : BreakCycle(k, r)
    BY <2>5, BreakIInv
  <2>6. CASE NoReservedRegister \/ Finish
    BY <2>6, EndIInv
  <2>7. CASE Return
    BY <2>7, ReturnIInv
  <2>8. CASE UNCHANGED vars
    BY <2>8 DEF vars, IInv, TypeOK, Node, Pending, IsInjective, ValueOf, Readers,
       PendingSourceIntact, OutDegreeExact, SourcesTracked, DoneMovesKept,
       PassedAreWaiting, AllDoneAtReturn, Source, Value, Location
  <2>9. QED
    BY <2>1, <2>2, <2>3, <2>4, <2>5, <2>6, <2>7, <2>8 DEF Next, Step
<1>2. QED
  BY <1>1, InitIInv, PTL DEF Spec

\* The variables keep their types.
THEOREM TypeCorrect == Spec => []TypeOK
<1>1. IInv => TypeOK
  BY DEF IInv
<1>2. QED
  BY <1>1, Invariance, PTL

\* When the function returns the moves look simultaneous.
THEOREM MovesAreParallel == Spec => []ParallelResult
<1>1. IInv => ParallelResult
  BY DEF IInv, AllDoneAtReturn, DoneMovesKept, ParallelResult, Pending
<1>2. QED
  BY <1>1, Invariance, PTL

\* No value that a pending move still needs is lost on the way.
THEOREM SourcesSurvive == Spec => []PendingSourceIntact
<1>1. IInv => PendingSourceIntact
  BY DEF IInv
<1>2. QED
  BY <1>1, Invariance, PTL

\* The incrementally maintained out-degrees are exact.
THEOREM OutDegreesAreExact == Spec => []OutDegreeExact
<1>1. IInv => OutDegreeExact
  BY DEF IInv
<1>2. QED
  BY <1>1, Invariance, PTL

\* A cycle is only ever broken when the pending moves are a permutation.
THEOREM StuckMovesPermute == Spec => []StuckIsPermutation
<1>1. IInv => StuckIsPermutation
  BY StuckPermutation DEF StuckIsPermutation
<1>2. QED
  BY <1>1, Invariance, PTL
-----------------------------------------------------------------------------
\* No emitted instruction destroys a value another move still needs.
THEOREM PendingNeverOverwritten == Spec => NeverOverwritesPending
<1> DEFINE Safe == \A x \in Location :
          (pc = "scan" /\ regs'[x] # regs[x]) =>
              \A k \in Pending : ~done'[k] => srcReg[k] # x
<1>1. IInv /\ [Next]_vars => [Safe]_vars
  <2> SUFFICES ASSUME IInv, Next, NEW x \in Location, pc = "scan",
                      regs'[x] # regs[x], NEW k \in Pending, ~done'[k]
               PROVE  srcReg[k] # x
    OBVIOUS
  <2>1. CASE Move
    <3>1. x = dst[i]
      BY <2>1 DEF Move, IInv, TypeOK
    <3>2. k # i
      BY <2>1 DEF Move, IInv, TypeOK, Pending, Node
    <3>3. QED
      BY <2>1, <3>1, <3>2, MoveTargetUnread
  <2>2. ASSUME NEW j \in Node, NEW r \in Scratch, BreakCycle(j, r)
        PROVE  srcReg[k] # x
    <3>1. x = r /\ r \notin busy
      BY <2>2 DEF BreakCycle, IInv, TypeOK
    <3>2. QED
      BY <3>1, FreeScratchUnread
  <2>3. CASE Skip \/ NextPass \/ NoReservedRegister \/ Finish
    BY <2>3 DEF Skip, NextPass, NoReservedRegister, Finish
  <2>4. CASE Enter \/ Return
    BY <2>4 DEF Enter, Return
  <2>5. QED
    BY <2>1, <2>2, <2>3, <2>4 DEF Next, Step
<1>2. QED
  BY <1>1, Invariance, PTL DEF Spec, NeverOverwritesPending

-----------------------------------------------------------------------------
\* The emitted sequence implements one simultaneous assignment.
THEOREM Refinement == Spec => ImplementsParallelAssign
<1>1. Init => Callers!Init
  BY DEF Init, Callers!Init, Empty
<1>2. IInv /\ [Next]_vars => [Callers!Next]_(Callers!vars)
  <2> SUFFICES ASSUME IInv, [Next]_vars
               PROVE  Callers!Next \/ UNCHANGED Callers!vars
    OBVIOUS
  <2>1. CASE Enter
    <3>1. PICK m \in 0..MaxMoves : \E d \in [1..m -> Reg] :
              IsInjective(d) /\ \E s \in [1..m -> Source] : Call(m, d, s)
      BY <2>1 DEF Enter
    <3>2. PICK d \in [1..m -> Reg], s \in [1..m -> Source] :
              IsInjective(d) /\ Call(m, d, s)
      BY <3>1
    <3>3. /\ pc = "idle" /\ pc' = (IF m = 0 THEN "done" ELSE "scan")
          /\ dst' = d /\ src' = s /\ regs' = Untouched
      BY <2>1, <3>2 DEF Enter, Call
    <3>4. [x \in Reg |-> IF pc' = "done" THEN regs'[x] ELSE x]
              = [x \in Reg |-> IF pc = "done" THEN regs[x] ELSE x]
      BY <3>3 DEF Untouched, Location
    <3>5. \A j, k \in DOMAIN dst' : dst'[j] = dst'[k] => j = k
      BY <3>2, <3>3 DEF IsInjective
    <3>6. Callers!Call
      BY <3>2, <3>3, <3>4, <3>5 DEF Callers!Call, Source
    <3>7. QED
      BY <3>6 DEF Callers!Next
  <2>2. CASE Skip \/ Move \/ NextPass
    BY <2>2 DEF Skip, Move, NextPass, Callers!vars
  <2>3. CASE \E k \in Node, r \in Scratch : BreakCycle(k, r)
    BY <2>3 DEF BreakCycle, Stuck, Callers!vars
  <2>4. CASE NoReservedRegister
    BY <2>4 DEF NoReservedRegister, Stuck, Callers!vars
  <2>5. CASE Finish
    <3>1. /\ pc = "scan" /\ pc' = "done" /\ dst' = dst /\ src' = src
          /\ regs' = regs /\ Pending = {} /\ DOMAIN dst = Node
      BY <2>5 DEF Finish, IInv, TypeOK
    <3>2. /\ \A k \in Node : regs[dst[k]] = src[k] /\ dst[k] \in Reg
                             /\ src[k] \in Source
          /\ \A x \in Reg : (\A k \in Node : dst[k] # x) => regs[x] = x
      BY <3>1 DEF IInv, TypeOK, DoneMovesKept, Pending
    <3>3. \A x \in Reg : regs[x] \in Reg \cup Operand
      BY <3>2 DEF Source
    <3>4. Callers!Assign
      BY <3>1, <3>2, <3>3 DEF Callers!Assign, Callers!Read, Source
    <3>5. QED
      BY <3>4 DEF Callers!Next
  <2>6. CASE Return
    BY <2>6 DEF Return, Empty, Callers!Return, Callers!Next
  <2>7. CASE UNCHANGED vars
    BY <2>7 DEF vars, Callers!vars
  <2>8. QED
    BY <2>1, <2>2, <2>3, <2>4, <2>5, <2>6, <2>7 DEF Next, Step
<1>3. QED
  BY <1>1, <1>2, Invariance, PTL DEF Spec, ImplementsParallelAssign, Callers!Spec
=============================================================================
