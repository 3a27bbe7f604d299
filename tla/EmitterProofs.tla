--------------------------- MODULE EmitterProofs ---------------------------
(***************************************************************************)
(* What the code of an instruction does to the machine, for every register *)
(* file.                                                                   *)
(***************************************************************************)
EXTENDS Emitter, FiniteSetTheorems, SequenceTheorems, WellFoundedInduction, TLAPS

-----------------------------------------------------------------------------
(* Machines.                                                               *)

IsStack(s) == \E S : s \in Seq(S)

Fields == {"val", "bytes", "busy", "stack", "base", "mem", "atCall", "flag", "ok",
           "died"}

IsMachine(mm) ==
    /\ mm = [f \in Fields |-> mm[f]]
    /\ mm.val = [p \in Places |-> mm.val[p]]
    /\ mm.bytes \in [Places -> Nat]
    /\ mm.busy \subseteq Reserved
    /\ IsStack(mm.stack)
    /\ mm.ok \in BOOLEAN

\* b differs from a in the places of S, and in what the next definitions say.
Kept(a, b, S) ==
    /\ IsMachine(b)
    /\ b.stack = a.stack /\ b.base = a.base /\ b.mem = a.mem
    /\ b.atCall = a.atCall /\ b.flag = a.flag
    /\ \A p \in Places \ S : b.val[p] = a.val[p] /\ b.bytes[p] >= a.bytes[p]

\* A read of o in the given size finds the term.
Holds(mm, o, size, term) ==
    \/ o \in Literals /\ term = <<o>>
    \/ o \in Places /\ mm.val[o] = term /\ mm.bytes[o] >= size

LEMMA KeptTrans ==
    ASSUME NEW a, NEW b, NEW c, NEW S, NEW T, IsMachine(a), Kept(a, b, S), Kept(b, c, T)
    PROVE  Kept(a, c, S \cup T)
<1>1. \A p \in Places : a.bytes[p] \in Nat /\ b.bytes[p] \in Nat /\ c.bytes[p] \in Nat
  BY DEF Kept, IsMachine
<1>2. ASSUME NEW p \in Places \ (S \cup T)
      PROVE  c.val[p] = a.val[p] /\ c.bytes[p] >= a.bytes[p]
  <2>1. /\ b.val[p] = a.val[p] /\ b.bytes[p] >= a.bytes[p]
        /\ c.val[p] = b.val[p] /\ c.bytes[p] >= b.bytes[p]
    BY DEF Kept
  <2> QED
    BY <1>1, <2>1
<1> QED
  BY <1>2 DEF Kept

LEMMA KeptMore ==
    ASSUME NEW a, NEW b, NEW S, NEW T, Kept(a, b, S), S \cap Places \subseteq T
    PROVE  Kept(a, b, T)
BY DEF Kept

LEMMA KeptSelf ==
    ASSUME NEW a, NEW S, IsMachine(a)
    PROVE  Kept(a, a, S)
<1>1. \A p \in Places : a.bytes[p] \in Nat
  BY DEF IsMachine
<1> QED
  BY <1>1 DEF Kept

LEMMA HoldsKept ==
    ASSUME NEW a, NEW b, NEW S, NEW o, NEW size \in Nat, NEW term,
           IsMachine(a), Kept(a, b, S), Holds(a, o, size, term), o \notin S
    PROVE  Holds(b, o, size, term)
<1>1. \A p \in Places : a.bytes[p] \in Nat /\ b.bytes[p] \in Nat
  BY DEF Kept, IsMachine
<1> QED
  BY <1>1 DEF Kept, Holds

LEMMA ReadHolds ==
    ASSUME NEW mm, NEW o, NEW size \in Nat, NEW term, IsMachine(mm),
           Holds(mm, o, size, term)
    PROVE  Read(mm, o, size) = term
<1>1. o \in Literals => o \notin Places
  BY EmitterAssumption DEF Places, Memory
<1>2. o \in Places => mm.bytes[o] \in Nat
  BY DEF IsMachine
<1> QED
  BY <1>1, <1>2 DEF Read, Holds

LEMMA WriteDoes ==
    ASSUME NEW mm, NEW o \in Places, NEW size \in Nat, NEW term, IsMachine(mm)
    PROVE  LET b == Write(mm, o, size, term) IN
           /\ IsMachine(b)
           /\ b.stack = mm.stack /\ b.base = mm.base /\ b.mem = mm.mem
           /\ b.atCall = mm.atCall /\ b.flag = mm.flag
           /\ b.busy = mm.busy /\ b.ok = mm.ok
           /\ b.val[o] = term /\ b.bytes[o] = size
           /\ \A p \in Places \ {o} : b.val[p] = mm.val[p] /\ b.bytes[p] = mm.bytes[p]
<1> DEFINE b == Write(mm, o, size, term)
<1>1. /\ b.stack = mm.stack /\ b.base = mm.base /\ b.mem = mm.mem
      /\ b.atCall = mm.atCall /\ b.flag = mm.flag
      /\ b.busy = mm.busy /\ b.ok = mm.ok
      /\ b.val = [mm.val EXCEPT ![o] = term] /\ b.bytes = [mm.bytes EXCEPT ![o] = size]
  BY DEF IsMachine, Write, Fields
<1>2. b = [f \in Fields |-> b[f]]
  BY DEF IsMachine, Write
<1> HIDE DEF b
<1>3. /\ b.val[o] = term /\ b.bytes[o] = size
      /\ \A p \in Places \ {o} : b.val[p] = mm.val[p] /\ b.bytes[p] = mm.bytes[p]
      /\ b.val = [p \in Places |-> b.val[p]]
      /\ b.bytes \in [Places -> Nat]
  BY <1>1 DEF IsMachine
<1>4. IsMachine(b)
  BY <1>1, <1>2, <1>3 DEF IsMachine
<1> QED
  BY <1>1, <1>3, <1>4 DEF b

\* b is a in all but the reserved registers that are taken, and in ok.
Same(a, b) ==
    /\ IsMachine(b)
    /\ b.val = a.val /\ b.bytes = a.bytes
    /\ b.stack = a.stack /\ b.base = a.base /\ b.mem = a.mem
    /\ b.atCall = a.atCall /\ b.flag = a.flag

LEMMA SameKept ==
    ASSUME NEW a, NEW b, IsMachine(a), Same(a, b)
    PROVE  /\ \A S : Kept(a, b, S)
           /\ \A o, size, term : Holds(b, o, size, term) <=> Holds(a, o, size, term)
           /\ \A o, size : Read(b, o, size) = Read(a, o, size)
<1>1. \A p \in Places : a.bytes[p] \in Nat
  BY DEF IsMachine
<1> QED
  BY <1>1 DEF Same, Kept, Holds, Read

LEMMA CheckDoes ==
    ASSUME NEW mm, NEW mnemonic, NEW d, NEW s, IsMachine(mm)
    PROVE  LET b == Check(mm, mnemonic, d, s) IN
           /\ Same(mm, b) /\ b.busy = mm.busy
           /\ b.ok <=> mm.ok /\ Encodable(mnemonic, d, s)
<1>1. CASE Encodable(mnemonic, d, s)
  BY <1>1 DEF IsMachine, Same, Check
<1>2. CASE ~Encodable(mnemonic, d, s)
  <2> DEFINE b == [mm EXCEPT !.ok = FALSE]
  <2>1. /\ b = [f \in Fields |-> b[f]]
        /\ b.val = mm.val /\ b.bytes = mm.bytes /\ b.busy = mm.busy
        /\ b.stack = mm.stack /\ b.base = mm.base /\ b.mem = mm.mem
        /\ b.atCall = mm.atCall /\ b.flag = mm.flag /\ b.ok = FALSE
    BY DEF IsMachine, Fields
  <2>2. Check(mm, mnemonic, d, s) = b
    BY <1>2 DEF Check
  <2> HIDE DEF b
  <2>3. Same(mm, b)
    BY <2>1 DEF IsMachine, Same
  <2> QED
    BY <1>2, <2>1, <2>2, <2>3
<1> QED
  BY <1>1, <1>2

LEMMA FreeDoes ==
    ASSUME NEW mm, NEW r, IsMachine(mm)
    PROVE  LET b == Free(mm, r) IN
           Same(mm, b) /\ b.ok = mm.ok /\ b.busy = mm.busy \ {r}
<1> DEFINE b == Free(mm, r)
<1>1. /\ b = [f \in Fields |-> b[f]]
      /\ b.val = mm.val /\ b.bytes = mm.bytes /\ b.busy = mm.busy \ {r}
      /\ b.stack = mm.stack /\ b.base = mm.base /\ b.mem = mm.mem
      /\ b.atCall = mm.atCall /\ b.flag = mm.flag /\ b.ok = mm.ok
  BY DEF IsMachine, Fields, Free
<1> HIDE DEF b
<1>2. Same(mm, b)
  BY <1>1 DEF IsMachine, Same
<1> QED
  BY <1>1, <1>2 DEF b

-----------------------------------------------------------------------------
(* Reserved registers.                                                     *)

\* Every set of natural numbers has a least element.
LEMMA Least ==
    ASSUME NEW B \in SUBSET Nat, B # {}
    PROVE  \E n \in B : \A l \in B : n <= l
<1> DEFINE Upto == {1..n : n \in B}
<1>1. Upto \subseteq FiniteSubsetsOf(Nat) /\ Upto # {}
  <2>1. \A n \in B : 1..n \subseteq Nat /\ IsFiniteSet(1..n)
    BY FS_Interval
  <2>2. \A n \in B : 1..n \in FiniteSubsetsOf(Nat)
    BY <2>1 DEF FiniteSubsetsOf
  <2> QED
    BY <2>2
<1>2. PICK x \in Upto : \A y \in Upto : <<y, x>> \notin StrictSubsetOrdering(Nat)
  BY ONLY <1>1, FS_StrictSubsetOrderingWellFounded, WFMin
<1>3. PICK n \in B : x = 1..n
  OBVIOUS
<1>4. ASSUME NEW l \in B, l < n PROVE FALSE
  <2>1. 1..l \in Upto
    OBVIOUS
  <2>2. 1..l \subseteq 1..n /\ 1..l # 1..n
    <3>1. n \in 1..n /\ n \notin 1..l
      BY <1>4
    <3> QED
      BY <1>4, <3>1
  <2>3. <<1..l, 1..n>> \in StrictSubsetOrdering(Nat)
    BY <2>2 DEF StrictSubsetOrdering
  <2> QED
    BY <1>2, <1>3, <2>1, <2>3
<1> QED
  BY <1>4

\* A compiler that has died stays dead, whatever it is asked to print.
Dead(mm) == mm = [f \in Fields |-> mm[f]] /\ mm.died

LEMMA DeadWrite ==
    ASSUME NEW mm, NEW o, NEW size, NEW term, Dead(mm)
    PROVE  Dead(Write(mm, o, size, term))
BY DEF Dead, Write, Fields

LEMMA DeadCheck ==
    ASSUME NEW mm, NEW mnemonic, NEW d, NEW s, Dead(mm)
    PROVE  Dead(Check(mm, mnemonic, d, s))
BY DEF Dead, Check, Fields

LEMMA DeadFree ==
    ASSUME NEW mm, NEW r, Dead(mm)
    PROVE  Dead(Free(mm, r))
BY DEF Dead, Free, Fields

LEMMA DeadTake ==
    ASSUME NEW mm, Dead(mm)
    PROVE  Dead(TakeScratch(mm).m)
<1> DEFINE r == Scratch[Min({k \in DOMAIN Scratch : Scratch[k] \notin mm.busy})]
           x == [mm EXCEPT !.died = TRUE]
           y == [mm EXCEPT !.busy = @ \cup {r}]
<1>1. Dead(x)
  BY DEF Dead, Fields
<1>2. Dead(y)
  BY DEF Dead, Fields
<1>3. TakeScratch(mm).m \in {x, y}
  BY DEF TakeScratch
<1> QED
  BY <1>1, <1>2, <1>3

LEMMA DeadMove ==
    ASSUME NEW mm, NEW d, NEW s, NEW size, Dead(mm)
    PROVE  /\ Dead(Move(mm, d, s, size))
           /\ Dead(MovRegToReg(mm, d, s, size))
           /\ Dead(MovOperandToReg(mm, d, s, size))
           /\ Dead(MovRegToOperand(mm, d, s, size))
<1>1. \A n : Dead(Move(mm, d, s, n))
  BY DeadWrite, DeadCheck DEF Move
<1>2. Dead(MovRegToReg(mm, d, s, size))
  BY <1>1 DEF MovRegToReg
<1> QED
  BY <1>1, <1>2 DEF MovOperandToReg, MovRegToOperand

LEMMA DeadMovOperandToOperand ==
    ASSUME NEW mm, NEW d, NEW s, NEW dsize, NEW ssize, Dead(mm)
    PROVE  Dead(MovOperandToOperand(mm, d, s, dsize, ssize))
<1> DEFINE t == TakeScratch(mm)
           v == MovOperandToReg(t.m, t.reg, s, ssize)
           w == MovRegToOperand(v, d, t.reg, dsize)
<1>1. Dead(Free(w, t.reg))
  <2>1. Dead(v)
    BY DeadTake, DeadMove
  <2> HIDE DEF v
  <2> QED
    BY <2>1, DeadMove, DeadFree
<1>2. Dead(MovRegToOperand(mm, d, s, dsize)) /\ Dead(MovOperandToReg(mm, d, s, ssize))
  BY DeadMove
<1> QED
  BY <1>1, <1>2 DEF MovOperandToOperand

LEMMA DeadEnsure ==
    ASSUME NEW mm, NEW o, NEW size, Dead(mm)
    PROVE  Dead(Ensure(mm, o, size).m)
<1>1. CASE o \in Regs
  BY <1>1 DEF Ensure
<1>2. CASE o \notin Regs
  <2> DEFINE t == TakeScratch(mm)
  <2>1. Dead(MovOperandToReg(t.m, t.reg, o, size))
    BY DeadTake, DeadMove
  <2>2. Ensure(mm, o, size).m = MovOperandToReg(t.m, t.reg, o, size)
    BY <1>2 DEF Ensure, TakeScratch
  <2> QED
    BY <2>1, <2>2
<1> QED
  BY <1>1, <1>2

\* As long as the compiler lives, another register could be taken, and which one.
LEMMA TakeDoes ==
    ASSUME NEW mm, IsMachine(mm), ~Dead(TakeScratch(mm).m)
    PROVE  LET t == TakeScratch(mm) IN
           /\ Same(mm, t.m) /\ t.m.ok = mm.ok
           /\ t.reg \in Reserved \ mm.busy
           /\ t.m.busy = mm.busy \cup {t.reg}
<1> DEFINE free == {k \in DOMAIN Scratch : Scratch[k] \notin mm.busy}
           reg == Scratch[Min(free)]
           b == [mm EXCEPT !.busy = @ \cup {reg}]
<1>1. DOMAIN Scratch = 1..Len(Scratch) /\ Len(Scratch) \in Nat
  BY EmitterAssumption
<1>2. free # {}
  <2>1. Dead([mm EXCEPT !.died = TRUE])
    BY DEF Dead, IsMachine, Fields
  <2> QED
    BY <2>1 DEF TakeScratch
<1>3. free \subseteq Nat
  BY <1>1
<1>4. Min(free) \in free
  <2>1. \E n \in free : \A l \in free : n <= l
    BY <1>2, <1>3, Least
  <2> QED
    BY <2>1 DEF Min
<1>5. reg \in Reserved \ mm.busy
  BY <1>4 DEF Reserved, Range
<1>6. TakeScratch(mm) = [m |-> b, reg |-> reg]
  BY <1>2 DEF TakeScratch
<1>7. /\ b = [f \in Fields |-> b[f]]
      /\ b.val = mm.val /\ b.bytes = mm.bytes /\ b.busy = mm.busy \cup {reg}
      /\ b.stack = mm.stack /\ b.base = mm.base /\ b.mem = mm.mem
      /\ b.atCall = mm.atCall /\ b.flag = mm.flag /\ b.ok = mm.ok
  BY DEF IsMachine, Fields
<1> HIDE DEF b, reg
<1>8. Same(mm, b)
  BY <1>5, <1>7 DEF IsMachine, Same
<1> QED
  BY <1>5, <1>6, <1>7, <1>8

-----------------------------------------------------------------------------
(* Moves.                                                                  *)

Registers == Regs \cup Reserved

LEMMA Kinds ==
    /\ Registers \subseteq Places /\ Memory \subseteq Places
    /\ NullReg \in Places /\ "rbp" \in Places /\ "rbp" \notin Registers \cup Memory
    /\ Registers \cap (Memory \cup Literals \cup {NullReg}) = {}
    /\ Memory \cap (Literals \cup {NullReg}) = {}
    /\ Literals \cap Places = {}
    /\ Regs \cap Reserved = {}
    /\ {"rax", "rcx", "rdx"} \subseteq Regs
    /\ Operands = Regs \cup Slots \cup Literals
BY EmitterAssumption DEF Registers, Places, Memory, Operands, NullReg

LEMMA WriteKeeps ==
    ASSUME NEW mm, NEW o \in Places, NEW size \in Nat, NEW term, IsMachine(mm)
    PROVE  LET b == Write(mm, o, size, term) IN
           /\ Kept(mm, b, {o}) /\ IsMachine(b)
           /\ b.busy = mm.busy /\ b.ok = mm.ok
           /\ Holds(b, o, size, term)
<1> DEFINE b == Write(mm, o, size, term)
<1>1. /\ IsMachine(b)
      /\ b.stack = mm.stack /\ b.base = mm.base /\ b.mem = mm.mem
      /\ b.atCall = mm.atCall /\ b.flag = mm.flag
      /\ b.busy = mm.busy /\ b.ok = mm.ok
      /\ b.val[o] = term /\ b.bytes[o] = size
      /\ \A p \in Places \ {o} : b.val[p] = mm.val[p] /\ b.bytes[p] = mm.bytes[p]
  BY WriteDoes
<1> HIDE DEF b
<1>2. \A p \in Places : mm.bytes[p] \in Nat
  BY DEF IsMachine
<1>3. Kept(mm, b, {o})
  BY <1>1, <1>2 DEF Kept
<1>4. Holds(b, o, size, term)
  BY <1>1 DEF Holds
<1> QED
  BY <1>1, <1>3, <1>4 DEF b

\* The code between a and b puts the value of s in d.
Moved(a, b, d, s, size) ==
    /\ Kept(a, b, {d}) /\ IsMachine(b)
    /\ b.busy = a.busy /\ b.ok = a.ok
    /\ \A term : Holds(a, s, size, term) => Holds(b, d, size, term)

\* A write that is checked.
LEMMA CheckedWrite ==
    ASSUME NEW mm, NEW o \in Places, NEW size \in Nat, NEW term, IsMachine(mm),
           NEW mnemonic, NEW s
    PROVE  LET b == Check(Write(mm, o, size, term), mnemonic, o, s) IN
           /\ Kept(mm, b, {o}) /\ IsMachine(b)
           /\ b.busy = mm.busy
           /\ b.ok <=> mm.ok /\ Encodable(mnemonic, o, s)
           /\ Holds(b, o, size, term)
<1> DEFINE w == Write(mm, o, size, term)
           b == Check(w, mnemonic, o, s)
<1>1. /\ Kept(mm, w, {o}) /\ IsMachine(w)
      /\ w.busy = mm.busy /\ w.ok = mm.ok
      /\ Holds(w, o, size, term)
  BY WriteKeeps
<1> HIDE DEF w
<1>2. /\ Same(w, b) /\ b.busy = w.busy
      /\ b.ok <=> w.ok /\ Encodable(mnemonic, o, s)
  BY <1>1, CheckDoes
<1> HIDE DEF b
<1>3. Kept(w, b, {}) /\ Holds(b, o, size, term)
  BY <1>1, <1>2, SameKept
<1>4. Kept(mm, b, {o})
  <2>1. Kept(mm, b, {o} \cup {})
    BY <1>1, <1>3, KeptTrans
  <2> QED
    BY <2>1
<1> QED
  BY <1>1, <1>2, <1>3, <1>4 DEF b, w, Same

LEMMA MoveDoes ==
    ASSUME NEW mm, NEW d \in Places, NEW s, NEW size \in Nat, NEW n \in Nat, n <= size,
           IsMachine(mm), Encodable("mov", d, s), mm.ok \in BOOLEAN
    PROVE  /\ Kept(mm, Move(mm, d, s, size), {d})
           /\ Moved(mm, Move(mm, d, s, size), d, s, size)
           /\ s \in Literals => Moved(mm, Move(mm, d, s, size), d, s, n)
<1> DEFINE term == Read(mm, s, size)
           b == Move(mm, d, s, size)
<1>1. /\ Kept(mm, b, {d}) /\ IsMachine(b)
      /\ b.busy = mm.busy
      /\ b.ok <=> mm.ok /\ Encodable("mov", d, s)
      /\ Holds(b, d, size, term)
  BY CheckedWrite DEF Move
<1>2. \A x : Holds(mm, s, size, x) => x = term
  BY ReadHolds
<1>3. s \in Literals => term = <<s>>
  BY DEF Read
<1> HIDE DEF b, term
<1>4. b.ok = mm.ok
  BY <1>1 DEF IsMachine
<1>5. Moved(mm, b, d, s, size)
  BY <1>1, <1>2, <1>4 DEF Moved
<1>6. ASSUME s \in Literals PROVE Moved(mm, b, d, s, n)
  <2>1. \A x : Holds(mm, s, n, x) => x = <<s>>
    BY <1>6, Kinds DEF Holds
  <2>2. b.bytes[d] \in Nat
    BY <1>1 DEF IsMachine
  <2>3. Holds(b, d, n, <<s>>)
    BY <1>1, <1>3, <1>6, <2>2 DEF Holds
  <2> QED
    BY <1>1, <1>4, <2>1, <2>3 DEF Moved
<1> QED
  BY <1>1, <1>5, <1>6 DEF b

LEMMA MovesAreEncodable ==
    ASSUME NEW d, NEW s, s \in Registers \cup Memory \cup Literals,
           \/ d \in Registers
           \/ d \in Memory /\ s \in Registers
    PROVE  Encodable("mov", d, s)
BY Kinds DEF Encodable

LEMMA NotMoved ==
    ASSUME NEW mm, NEW d, NEW size, IsMachine(mm)
    PROVE  Moved(mm, mm, d, d, size)
BY KeptSelf DEF Moved

LEMMA MovRegToRegDoes ==
    ASSUME NEW mm, NEW d \in Registers, NEW s \in Registers, NEW size \in Nat,
           IsMachine(mm)
    PROVE  Moved(mm, MovRegToReg(mm, d, s, size), d, s, size)
<1>1. CASE d = s
  BY <1>1, NotMoved DEF MovRegToReg
<1>2. CASE d # s
  <2>1. d \in Places /\ Encodable("mov", d, s) /\ mm.ok \in BOOLEAN /\ size <= size
    BY Kinds, MovesAreEncodable DEF IsMachine
  <2>2. Moved(mm, Move(mm, d, s, size), d, s, size)
    BY <2>1, MoveDoes
  <2> QED
    BY <1>2, <2>2 DEF MovRegToReg
<1> QED
  BY <1>1, <1>2

\* A literal is there in every size.
LEMMA MovOperandToRegDoes ==
    ASSUME NEW mm, NEW d \in Registers, NEW s \in Registers \cup Memory \cup Literals,
           NEW size \in 0..8, IsMachine(mm)
    PROVE  Moved(mm, MovOperandToReg(mm, d, s, size), d, s, size)
<1>1. d \in Places /\ Encodable("mov", d, s) /\ mm.ok \in BOOLEAN
  BY Kinds, MovesAreEncodable DEF IsMachine
<1>2. size \in Nat /\ size <= size /\ size <= 8 /\ 8 \in Nat
  OBVIOUS
<1>3. CASE s \in Memory
  <2>1. Moved(mm, Move(mm, d, s, size), d, s, size)
    BY <1>1, <1>2, MoveDoes
  <2> QED
    BY <1>3, <2>1 DEF MovOperandToReg
<1>4. CASE s \in Literals
  <2>1. Moved(mm, Move(mm, d, s, 8), d, s, size)
    BY <1>1, <1>2, <1>4, MoveDoes
  <2> QED
    BY <1>4, <2>1, Kinds DEF MovOperandToReg
<1>5. CASE s \in Registers
  BY <1>2, <1>5, Kinds, MovRegToRegDoes DEF MovOperandToReg
<1> QED
  BY <1>3, <1>4, <1>5

LEMMA MovRegToOperandDoes ==
    ASSUME NEW mm, NEW d \in Regs \cup Memory, NEW s \in Registers, NEW size \in Nat,
           IsMachine(mm)
    PROVE  Moved(mm, MovRegToOperand(mm, d, s, size), d, s, size)
<1>1. d \in Places /\ Encodable("mov", d, s) /\ mm.ok \in BOOLEAN /\ size <= size
  BY Kinds, MovesAreEncodable DEF IsMachine, Registers
<1>2. CASE d \in Regs
  <2>1. d \in Registers
    BY <1>2 DEF Registers
  <2> QED
    BY <1>2, <2>1, MovRegToRegDoes DEF MovRegToOperand
<1>3. CASE d \notin Regs
  <2>1. Moved(mm, Move(mm, d, s, size), d, s, size)
    BY <1>1, MoveDoes
  <2> QED
    BY <1>3, <2>1 DEF MovRegToOperand
<1> QED
  BY <1>2, <1>3

LEMMA MovedTrans ==
    ASSUME NEW a, NEW b, NEW c, NEW d, NEW e, NEW s, NEW size, IsMachine(a),
           Moved(a, b, d, s, size), Moved(b, c, e, d, size)
    PROVE  /\ Kept(a, c, {d, e}) /\ IsMachine(c)
           /\ c.busy = a.busy /\ c.ok = a.ok
           /\ \A term : Holds(a, s, size, term) => Holds(c, e, size, term)
<1>1. Kept(a, c, {d} \cup {e})
  BY KeptTrans DEF Moved
<1>2. {d} \cup {e} = {d, e}
  OBVIOUS
<1> QED
  BY <1>1, <1>2 DEF Moved

LEMMA HoldsLess ==
    ASSUME NEW mm, NEW o, NEW size \in Nat, NEW n \in Nat, n <= size, NEW term,
           IsMachine(mm), Holds(mm, o, size, term)
    PROVE  Holds(mm, o, n, term)
<1>1. o \in Places => mm.bytes[o] \in Nat
  BY DEF IsMachine
<1> QED
  BY <1>1 DEF Holds

\* The value of s, read in ssize bytes, is in the dsize bytes of d.
Copied(a, b, d, s, dsize, ssize) ==
    /\ Kept(a, b, {d} \cup Reserved) /\ IsMachine(b)
    /\ b.busy = a.busy /\ b.ok = a.ok
    /\ \A term : Holds(a, s, ssize, term) => Holds(b, d, dsize, term)

LEMMA MovOperandToOperandDoes ==
    ASSUME NEW mm, NEW d \in Regs \cup Memory,
           NEW s \in Regs \cup Memory \cup Literals,
           NEW dsize \in 0..8, NEW ssize \in 0..8, dsize <= ssize,
           IsMachine(mm), ~Dead(MovOperandToOperand(mm, d, s, dsize, ssize))
    PROVE  Copied(mm, MovOperandToOperand(mm, d, s, dsize, ssize), d, s, dsize, ssize)
<1>1. dsize \in Nat /\ ssize \in Nat /\ s \in Registers \cup Memory \cup Literals
  BY DEF Registers
<1>2. CASE d \in Memory /\ s \notin Regs
  <2> DEFINE t == TakeScratch(mm)
             v == MovOperandToReg(t.m, t.reg, s, ssize)
             w == MovRegToOperand(v, d, t.reg, dsize)
             b == Free(w, t.reg)
  <2>0. ~Dead(t.m)
    <3>1. ~Dead(b)
      BY <1>2 DEF MovOperandToOperand
    <3> HIDE DEF t
    <3>2. ~Dead(v)
      <4> HIDE DEF v
      <4> QED
        BY <3>1, DeadFree, DeadMove
    <3> QED
      BY <3>2, DeadMove
  <2>1. /\ Same(mm, t.m) /\ t.m.ok = mm.ok
        /\ t.reg \in Reserved \ mm.busy
        /\ t.m.busy = mm.busy \cup {t.reg}
    BY <2>0, TakeDoes
  <2>2. t.reg \in Registers /\ IsMachine(t.m)
    BY <2>1 DEF Registers, Same
  <2> HIDE DEF t
  <2>3. Moved(t.m, v, t.reg, s, ssize)
    BY <1>1, <2>2, MovOperandToRegDoes
  <2> HIDE DEF v
  <2>4. IsMachine(v)
    BY <2>3 DEF Moved
  <2>5. Moved(v, w, d, t.reg, dsize)
    BY <1>1, <2>2, <2>4, MovRegToOperandDoes
  <2> HIDE DEF w
  <2>6. IsMachine(w)
    BY <2>5 DEF Moved
  <2>7. Same(w, b) /\ b.ok = w.ok /\ b.busy = w.busy \ {t.reg}
    BY <2>6, FreeDoes
  <2> HIDE DEF b
  <2>8. Kept(mm, b, {d} \cup Reserved)
    <3>1. Kept(mm, t.m, {}) /\ Kept(w, b, {})
      BY <2>1, <2>6, <2>7, SameKept
    <3>2. Kept(t.m, v, {t.reg}) /\ Kept(v, w, {d})
      BY <2>3, <2>5 DEF Moved
    <3>3. Kept(mm, v, {} \cup {t.reg})
      BY <3>1, <3>2, KeptTrans
    <3>4. Kept(mm, w, ({} \cup {t.reg}) \cup {d})
      BY <3>2, <3>3, KeptTrans
    <3>5. Kept(mm, b, (({} \cup {t.reg}) \cup {d}) \cup {})
      BY <3>1, <3>4, KeptTrans
    <3> QED
      BY <3>5, <2>1, KeptMore
  <2>9. b.busy = mm.busy /\ b.ok = mm.ok
    BY <2>1, <2>3, <2>5, <2>7 DEF Moved
  <2>10. ASSUME NEW term, Holds(mm, s, ssize, term) PROVE Holds(b, d, dsize, term)
    <3>1. Holds(t.m, s, ssize, term)
      BY <2>1, <2>10, SameKept
    <3>2. Holds(v, t.reg, ssize, term)
      BY <2>3, <3>1 DEF Moved
    <3>3. Holds(v, t.reg, dsize, term)
      BY <1>1, <2>4, <3>2, HoldsLess
    <3>4. Holds(w, d, dsize, term)
      BY <2>5, <3>3 DEF Moved
    <3> QED
      BY <2>6, <2>7, <3>4, SameKept
  <2>11. MovOperandToOperand(mm, d, s, dsize, ssize) = b
    BY <1>2 DEF MovOperandToOperand, b, w, v, t
  <2> QED
    BY <2>7, <2>8, <2>9, <2>10, <2>11 DEF Copied, Same
<1>3. CASE d \in Memory /\ s \in Regs
  <2> DEFINE b == MovRegToOperand(mm, d, s, dsize)
  <2>1. Moved(mm, b, d, s, dsize)
    BY <1>1, <1>3, MovRegToOperandDoes DEF Registers
  <2>2. MovOperandToOperand(mm, d, s, dsize, ssize) = b
    BY <1>3 DEF MovOperandToOperand
  <2> HIDE DEF b
  <2>3. Kept(mm, b, {d} \cup Reserved)
    BY <2>1, KeptMore DEF Moved
  <2>4. \A term : Holds(mm, s, ssize, term) => Holds(mm, s, dsize, term)
    BY <1>1, HoldsLess
  <2> QED
    BY <2>1, <2>2, <2>3, <2>4 DEF Moved, Copied
<1>4. CASE d \notin Memory
  <2> DEFINE b == MovOperandToReg(mm, d, s, ssize)
  <2>1. Moved(mm, b, d, s, ssize)
    BY <1>1, <1>4, MovOperandToRegDoes DEF Registers
  <2>2. MovOperandToOperand(mm, d, s, dsize, ssize) = b
    BY <1>4 DEF MovOperandToOperand
  <2> HIDE DEF b
  <2>3. Kept(mm, b, {d} \cup Reserved)
    BY <2>1, KeptMore DEF Moved
  <2>4. \A term : Holds(b, d, ssize, term) => Holds(b, d, dsize, term)
    BY <1>1, <2>1, HoldsLess DEF Moved
  <2> QED
    BY <2>1, <2>2, <2>3, <2>4 DEF Moved, Copied
<1> QED
  BY <1>2, <1>3, <1>4

\* A register with the value of o, and what it takes.
Ensured(mm, e, o, size) ==
    /\ Kept(mm, e.m, {e.reg} \ Regs) /\ IsMachine(e.m)
    /\ e.reg \in Registers \ mm.busy
    /\ o \in Regs <=> e.reg \in Regs
    /\ o \in Regs => e.reg = o
    /\ e.m.busy = IF o \in Regs THEN mm.busy ELSE mm.busy \cup {e.reg}
    /\ e.m.busy \ {e.reg} = mm.busy
    /\ e.m.ok = mm.ok
    /\ \A term : Holds(mm, o, size, term) => Holds(e.m, e.reg, size, term)

LEMMA EnsureDoes ==
    ASSUME NEW mm, NEW o \in Regs \cup Memory \cup Literals, NEW size \in 0..8,
           IsMachine(mm), ~Dead(Ensure(mm, o, size).m)
    PROVE  Ensured(mm, Ensure(mm, o, size), o, size)
<1>1. mm.busy \subseteq Reserved
  BY DEF IsMachine
<1>2. CASE o \in Regs
  <2>1. Ensure(mm, o, size) = [m |-> mm, reg |-> o]
    BY <1>2 DEF Ensure
  <2>2. Kept(mm, mm, {o} \ Regs) /\ o \in Registers \ mm.busy
    BY <1>1, <1>2, KeptSelf, Kinds DEF Registers
  <2> QED
    BY <1>2, <2>1, <2>2 DEF Ensured
<1>3. CASE o \notin Regs
  <2> DEFINE t == TakeScratch(mm)
             b == MovOperandToReg(t.m, t.reg, o, size)
  <2>0. ~Dead(t.m)
    <3>1. Ensure(mm, o, size).m = b
      BY <1>3 DEF Ensure, TakeScratch
    <3> HIDE DEF t
    <3> QED
      BY <3>1, DeadMove
  <2>1. /\ Same(mm, t.m) /\ t.m.ok = mm.ok
        /\ t.reg \in Reserved \ mm.busy
        /\ t.m.busy = mm.busy \cup {t.reg}
    BY <2>0, TakeDoes
  <2>2. t.reg \in Registers /\ t.reg \notin Regs /\ IsMachine(t.m)
    BY <2>1, Kinds DEF Registers, Same
  <2>3. Ensure(mm, o, size).m = b /\ Ensure(mm, o, size).reg = t.reg
    BY <1>3 DEF Ensure, TakeScratch
  <2> HIDE DEF t
  <2>4. Moved(t.m, b, t.reg, o, size)
    BY <2>2, MovOperandToRegDoes DEF Registers
  <2> HIDE DEF b
  <2>5. Kept(mm, b, {t.reg} \ Regs)
    <3>1. Kept(mm, b, {} \cup {t.reg})
      BY <2>1, <2>4, SameKept, KeptTrans DEF Moved
    <3> QED
      BY <2>2, <3>1, KeptMore
  <2>6. \A term : Holds(mm, o, size, term) => Holds(b, t.reg, size, term)
    BY <2>1, <2>4, SameKept DEF Moved
  <2> QED
    BY <1>3, <2>1, <2>2, <2>3, <2>4, <2>5, <2>6 DEF Ensured, Moved
<1> QED
  BY <1>2, <1>3

-----------------------------------------------------------------------------
(* Parts that the code of several instructions shares.                     *)

\* What an instruction makes of the machine: only the places in lost change,
\* the reserved registers are given back, and d holds the term.
Computes(a, b, lost, d, size, term) ==
    /\ Kept(a, b, lost) /\ IsMachine(b)
    /\ b.busy = a.busy /\ b.ok
    /\ Holds(b, d, size, term)

Ready(mm) == IsMachine(mm) /\ mm.ok

LEMMA HoldsOperand ==
    ASSUME NEW a, NEW b, NEW o \in Regs \cup Memory \cup Literals,
           NEW size \in Nat, NEW term, IsMachine(a),
           Kept(a, b, Reserved), Holds(a, o, size, term)
    PROVE  Holds(b, o, size, term)
<1>1. o \notin Reserved
  BY Kinds DEF Registers
<1> QED
  BY <1>1, HoldsKept

LEMMA OneEnsured ==
    ASSUME NEW mm, NEW e, NEW o \in Regs \cup Memory \cup Literals, NEW size \in 0..8,
           Ready(mm), Ensured(mm, e, o, size)
    PROVE  /\ IsMachine(e.m) /\ Kept(mm, e.m, Reserved)
           /\ e.m.ok /\ e.m.busy \ {e.reg} = mm.busy
           /\ e.reg \in Registers
           /\ o \in Regs => e.reg = o
           /\ o \notin Regs => e.reg \in Reserved
           /\ \A term : Holds(mm, o, size, term) => Holds(e.m, e.reg, size, term)
           /\ \A x \in Regs \cup Memory \cup Literals : \A n \in Nat : \A term :
                 Holds(mm, x, n, term) => Holds(e.m, x, n, term)
<1>2. {e.reg} \ Regs \subseteq Reserved
  BY DEF Ensured, Registers
<1>3. Kept(mm, e.m, Reserved)
  BY <1>2, KeptMore DEF Ensured
<1>4. \A x \in Regs \cup Memory \cup Literals : \A n \in Nat : \A term :
        Holds(mm, x, n, term) => Holds(e.m, x, n, term)
  BY <1>3, HoldsOperand DEF Ready
<1> QED
  BY <1>3, <1>4 DEF Ensured, Ready, Registers

\* Two operands are in registers at once.
BothEnsured(mm, e1, e2, o1, size1, o2, size2) ==
    /\ IsMachine(e2.m) /\ Kept(mm, e2.m, Reserved)
    /\ e2.m.ok /\ (e2.m.busy \ {e1.reg}) \ {e2.reg} = mm.busy
    /\ (e2.m.busy \ {e2.reg}) \ {e1.reg} = mm.busy
    /\ e1.reg \in Registers /\ e2.reg \in Registers
    /\ o1 \in Regs => e1.reg = o1
    /\ o1 \notin Regs => e1.reg \in Reserved
    /\ o2 \in Regs => e2.reg = o2
    /\ o2 \notin Regs => e2.reg \in Reserved
    /\ e1.reg = e2.reg => o1 = o2 /\ o1 \in Regs
    /\ \A term : Holds(mm, o1, size1, term) => Holds(e2.m, e1.reg, size1, term)
    /\ \A term : Holds(mm, o2, size2, term) => Holds(e2.m, e2.reg, size2, term)
    /\ \A x \in Regs \cup Memory \cup Literals : \A n \in Nat : \A term :
          Holds(mm, x, n, term) => Holds(e2.m, x, n, term)

LEMMA TwoEnsured ==
    ASSUME NEW mm, NEW e1, NEW e2,
           NEW o1 \in Regs \cup Memory \cup Literals, NEW size1 \in 0..8,
           NEW o2 \in Regs \cup Memory \cup Literals, NEW size2 \in 0..8,
           Ready(mm), Ensured(mm, e1, o1, size1), Ensured(e1.m, e2, o2, size2)
    PROVE  BothEnsured(mm, e1, e2, o1, size1, o2, size2)
<1>1. /\ IsMachine(e1.m) /\ Kept(mm, e1.m, Reserved)
      /\ e1.m.ok /\ e1.m.busy \ {e1.reg} = mm.busy
      /\ e1.reg \in Registers
      /\ o1 \in Regs => e1.reg = o1
      /\ o1 \notin Regs => e1.reg \in Reserved
      /\ \A term : Holds(mm, o1, size1, term) => Holds(e1.m, e1.reg, size1, term)
      /\ \A x \in Regs \cup Memory \cup Literals : \A n \in Nat : \A term :
            Holds(mm, x, n, term) => Holds(e1.m, x, n, term)
  BY OneEnsured
<1>2. e1.reg \in Regs \/ e1.reg \in e1.m.busy
  BY DEF Ensured
<1>3. {e2.reg} \ Regs \subseteq Reserved /\ e1.reg \notin {e2.reg} \ Regs
  BY <1>2 DEF Ensured, Registers
<1>4. IsMachine(e2.m) /\ Kept(e1.m, e2.m, {e2.reg} \ Regs) /\ Kept(e1.m, e2.m, Reserved)
  BY <1>3, KeptMore DEF Ensured
<1>5. Kept(mm, e2.m, Reserved)
  <2>1. Kept(mm, e2.m, Reserved \cup Reserved)
    BY <1>1, <1>4, KeptTrans DEF Ready
  <2> QED
    BY <2>1
<1>6. ASSUME NEW term, Holds(mm, o1, size1, term) PROVE Holds(e2.m, e1.reg, size1, term)
  <2>1. Holds(e1.m, e1.reg, size1, term) /\ size1 \in Nat
    BY <1>1, <1>6
  <2> QED
    BY <1>1, <1>3, <1>4, <2>1, HoldsKept
<1>7. ASSUME NEW term, Holds(mm, o2, size2, term) PROVE Holds(e2.m, e2.reg, size2, term)
  <2>1. Holds(e1.m, o2, size2, term)
    <3>1. size2 \in Nat
      OBVIOUS
    <3> QED
      BY <1>1, <1>7, <3>1
  <2> QED
    BY <2>1 DEF Ensured
<1>8. \A x \in Regs \cup Memory \cup Literals : \A n \in Nat : \A term :
          Holds(mm, x, n, term) => Holds(e2.m, x, n, term)
  BY <1>1, <1>4, HoldsOperand
<1>9. /\ e2.m.ok /\ (e2.m.busy \ {e1.reg}) \ {e2.reg} = mm.busy
      /\ (e2.m.busy \ {e2.reg}) \ {e1.reg} = mm.busy
  <2>1. e2.m.ok /\ e2.m.busy \ {e2.reg} = e1.m.busy
    BY <1>1 DEF Ensured
  <2>2. (e2.m.busy \ {e1.reg}) \ {e2.reg} = (e2.m.busy \ {e2.reg}) \ {e1.reg}
    OBVIOUS
  <2> QED
    BY <1>1, <2>1, <2>2
<1>10. e1.reg = e2.reg => o1 = o2 /\ o1 \in Regs
  BY <1>1, <1>2, Kinds DEF Ensured
<1>11. /\ e2.reg \in Registers
       /\ o2 \in Regs => e2.reg = o2
       /\ o2 \notin Regs => e2.reg \in Reserved
  BY DEF Ensured, Registers
<1> QED
  BY <1>1, <1>4, <1>5, <1>6, <1>7, <1>8, <1>9, <1>10, <1>11 DEF BothEnsured

GivenBack(mm, b, r, s) ==
    Same(mm, b) /\ b.ok = mm.ok /\ b.busy = (mm.busy \ {r}) \ {s}

LEMMA FreeTwice ==
    ASSUME NEW mm, NEW r, NEW s, IsMachine(mm)
    PROVE  GivenBack(mm, Free(Free(mm, r), s), r, s)
<1>1. /\ Same(mm, Free(mm, r)) /\ Free(mm, r).ok = mm.ok
      /\ Free(mm, r).busy = mm.busy \ {r}
  BY FreeDoes
<1>2. IsMachine(Free(mm, r))
  BY <1>1 DEF Same
<1> DEFINE x == Free(mm, r)
<1> HIDE DEF x
<1>3. Same(x, Free(x, s)) /\ Free(x, s).ok = x.ok /\ Free(x, s).busy = x.busy \ {s}
  BY <1>2, FreeDoes DEF x
<1>4. Same(mm, x) /\ x.ok = mm.ok /\ x.busy = mm.busy \ {r}
  BY <1>1 DEF x
<1>5. Same(mm, Free(x, s))
  BY <1>3, <1>4 DEF Same
<1> QED
  BY <1>3, <1>4, <1>5 DEF x, GivenBack

\* The last move takes the result to its place, and the registers are given back.
LEMMA Delivered ==
    ASSUME NEW a, NEW w, NEW d \in Regs \cup Memory, NEW r \in Registers,
           NEW n \in 0..8, NEW term, NEW lost, d \in lost,
           IsMachine(a), Kept(a, w, lost), IsMachine(w), Holds(w, r, n, term)
    PROVE  LET b == MovRegToOperand(w, d, r, n) IN
           /\ Kept(a, b, lost) /\ IsMachine(b)
           /\ b.busy = w.busy /\ b.ok = w.ok /\ Holds(b, d, n, term)
<1> DEFINE b == MovRegToOperand(w, d, r, n)
<1>1. Moved(w, b, d, r, n)
  BY MovRegToOperandDoes
<1> HIDE DEF b
<1>2. Kept(a, b, lost \cup {d})
  BY <1>1, KeptTrans DEF Moved
<1>3. Kept(a, b, lost)
  BY <1>2, KeptMore
<1> QED
  BY <1>1, <1>3 DEF Moved, b

LEMMA Settled ==
    ASSUME NEW a, NEW w, NEW d \in Regs \cup Memory, NEW r \in Registers,
           NEW n \in 0..8, NEW term, NEW lost, d \in lost,
           IsMachine(a), Kept(a, w, lost), IsMachine(w), Holds(w, r, n, term), w.ok,
           NEW s1, NEW s2, (w.busy \ {s1}) \ {s2} = a.busy
    PROVE  Computes(a, Free(Free(MovRegToOperand(w, d, r, n), s1), s2), lost, d, n, term)
<1> DEFINE x == MovRegToOperand(w, d, r, n)
           b == Free(Free(x, s1), s2)
<1>1. /\ Kept(a, x, lost) /\ IsMachine(x)
      /\ x.busy = w.busy /\ x.ok = w.ok /\ Holds(x, d, n, term)
  BY Delivered
<1> HIDE DEF x
<1>a. GivenBack(x, b, s1, s2)
  BY <1>1, FreeTwice
<1> HIDE DEF b
<1>2. Same(x, b) /\ b.ok = x.ok /\ b.busy = (x.busy \ {s1}) \ {s2}
  BY <1>a DEF GivenBack
<1>3. Holds(b, d, n, term) /\ Kept(x, b, {})
  BY <1>1, <1>2, SameKept
<1>4. Kept(a, b, lost \cup {})
  BY <1>1, <1>3, KeptTrans
<1>5. lost \cup {} = lost
  OBVIOUS
<1>6. Computes(a, b, lost, d, n, term)
  BY <1>1, <1>2, <1>3, <1>4, <1>5 DEF Computes, Same
<1> QED
  BY <1>6 DEF b, x

LEMMA SettledOnce ==
    ASSUME NEW a, NEW w, NEW d \in Regs \cup Memory, NEW r \in Registers,
           NEW n \in 0..8, NEW term, NEW lost, d \in lost,
           IsMachine(a), Kept(a, w, lost), IsMachine(w), Holds(w, r, n, term), w.ok,
           NEW s, w.busy \ {s} = a.busy
    PROVE  Computes(a, Free(MovRegToOperand(w, d, r, n), s), lost, d, n, term)
<1> DEFINE x == MovRegToOperand(w, d, r, n)
           b == Free(x, s)
<1>1. /\ Kept(a, x, lost) /\ IsMachine(x)
      /\ x.busy = w.busy /\ x.ok = w.ok /\ Holds(x, d, n, term)
  BY Delivered
<1> HIDE DEF x
<1>2. Same(x, b) /\ b.ok = x.ok /\ b.busy = x.busy \ {s}
  BY <1>1, FreeDoes
<1> HIDE DEF b
<1>3. Holds(b, d, n, term) /\ Kept(x, b, {})
  BY <1>1, <1>2, SameKept
<1>4. Kept(a, b, lost \cup {})
  BY <1>1, <1>3, KeptTrans
<1>5. lost \cup {} = lost
  OBVIOUS
<1>6. Computes(a, b, lost, d, n, term)
  BY <1>1, <1>2, <1>3, <1>4, <1>5 DEF Computes, Same
<1> QED
  BY <1>6 DEF b, x

\* The machine w after a write that followed x, to a place that is lost anyway.
Wrote(a, x, w, lost, r, n, term) ==
    /\ Kept(a, w, lost) /\ IsMachine(w) /\ Holds(w, r, n, term)
    /\ w.busy = x.busy /\ w.ok = x.ok
    /\ Kept(x, w, {r})

LEMMA ThenWrite ==
    ASSUME NEW a, NEW x, NEW lost, NEW r \in lost \cap Places, NEW n \in Nat, NEW term,
           IsMachine(a), Kept(a, x, lost), IsMachine(x)
    PROVE  Wrote(a, x, Write(x, r, n, term), lost, r, n, term)
<1> DEFINE w == Write(x, r, n, term)
<1>1. /\ Kept(x, w, {r}) /\ IsMachine(w)
      /\ w.busy = x.busy /\ w.ok = x.ok
      /\ Holds(w, r, n, term)
  BY WriteKeeps
<1> HIDE DEF w
<1>2. lost \cup {r} = lost
  OBVIOUS
<1>3. Kept(a, w, lost)
  BY <1>1, <1>2, KeptTrans
<1> QED
  BY <1>1, <1>3 DEF w, Wrote

LEMMA ThenCheckedWrite ==
    ASSUME NEW a, NEW x, NEW lost, NEW r \in lost \cap Places, NEW n \in Nat, NEW term,
           NEW mnemonic, NEW s, Encodable(mnemonic, r, s),
           IsMachine(a), Kept(a, x, lost), IsMachine(x)
    PROVE  Wrote(a, x, Check(Write(x, r, n, term), mnemonic, r, s), lost, r, n, term)
<1> DEFINE w == Check(Write(x, r, n, term), mnemonic, r, s)
<1>1. /\ Kept(x, w, {r}) /\ IsMachine(w)
      /\ w.busy = x.busy
      /\ w.ok <=> x.ok /\ Encodable(mnemonic, r, s)
      /\ Holds(w, r, n, term)
  BY CheckedWrite
<1> HIDE DEF w
<1>2. lost \cup {r} = lost
  OBVIOUS
<1>3. Kept(a, w, lost)
  BY <1>1, <1>2, KeptTrans
<1>4. w.ok = x.ok
  BY <1>1 DEF IsMachine
<1> QED
  BY <1>1, <1>3, <1>4 DEF w, Wrote

-----------------------------------------------------------------------------
(* The instructions.                                                       *)

Anything == Regs \cup Memory \cup Literals

LEMMA CopiedComputes ==
    ASSUME NEW a, NEW b, NEW d, NEW s, NEW dsize, NEW ssize, NEW term,
           Ready(a), Copied(a, b, d, s, dsize, ssize), Holds(a, s, ssize, term)
    PROVE  Computes(a, b, {d} \cup Reserved, d, dsize, term)
BY DEF Ready, Copied, Computes

LEMMA MoveComputes ==
    ASSUME NEW a, NEW i, Ready(a), ~Dead(EmitMove(a, i)), i.d \in Regs \cup Memory, i.a \in Anything,
           i.ds \in 0..8, i.as \in 0..8, i.ds <= i.as, NEW term, Holds(a, i.a, i.as, term)
    PROVE  Computes(a, EmitMove(a, i), {i.d} \cup Reserved, i.d, i.ds, term)
<1>1. IsMachine(a) /\ ~Dead(MovOperandToOperand(a, i.d, i.a, i.ds, i.as))
  BY DEF Ready, EmitMove
<1>2. Copied(a, EmitMove(a, i), i.d, i.a, i.ds, i.as)
  BY <1>1, MovOperandToOperandDoes DEF EmitMove, Anything
<1> QED
  BY <1>2, CopiedComputes

LEMMA CastComputes ==
    ASSUME NEW a, NEW i, Ready(a), ~Dead(EmitCast(a, i)), i.op = "cast", i.d \in Regs \cup Memory, i.a \in Anything,
           i.ds \in 0..8, i.as \in 0..8, i.d # i.a, Holds(a, i.a, i.as, <<i.a>>)
    PROVE  Computes(a, EmitCast(a, i), {i.d} \cup Reserved, i.d, i.ds, Meaning(i))
<1>1. CASE i.ds <= i.as
  <2>1. Meaning(i) = <<i.a>>
    BY <1>1 DEF Meaning
  <2>2. EmitCast(a, i) = EmitMove(a, i)
    BY <1>1 DEF EmitCast
  <2> QED
    BY <1>1, <2>1, <2>2, MoveComputes
<1>2. CASE ~(i.ds <= i.as)
  <2> DEFINE dest == Ensure(a, i.d, i.ds)
             src == Ensure(dest.m, i.a, i.as)
             term == <<"extend", Read(src.m, src.reg, i.as)>>
             wide == Write(src.m, dest.reg, i.ds, term)
             b == Free(Free(MovRegToOperand(wide, i.d, dest.reg, i.ds), src.reg), dest.reg)
             lost == {i.d} \cup Reserved
  <2>0. EmitCast(a, i) = b
    BY <1>2 DEF EmitCast
  <2>d. ~Dead(dest.m) /\ ~Dead(src.m)
    <3>1. ~Dead(b)
      BY <2>0
    <3> HIDE DEF dest
    <3>2. ~Dead(src.m)
      <4> HIDE DEF src
      <4> QED
        BY <3>1, DeadFree, DeadMove, DeadWrite
    <3> QED
      BY <3>2, DeadEnsure
  <2>1. Ensured(a, dest, i.d, i.ds)
    BY <2>d, EnsureDoes DEF Ready
  <2>2. IsMachine(dest.m)
    BY <2>1, OneEnsured
  <2> HIDE DEF dest
  <2>3. Ensured(dest.m, src, i.a, i.as)
    BY <2>d, <2>2, EnsureDoes DEF Anything
  <2> HIDE DEF src
  <2>4. BothEnsured(a, dest, src, i.d, i.ds, i.a, i.as)
    BY <2>1, <2>3, TwoEnsured DEF Anything
  <2>5. Holds(src.m, src.reg, i.as, <<i.a>>) /\ IsMachine(src.m) /\ Kept(a, src.m, lost)
    BY <2>4, KeptMore DEF BothEnsured
  <2>6. i.as \in Nat /\ i.ds \in Nat
    OBVIOUS
  <2>7. Read(src.m, src.reg, i.as) = <<i.a>>
    BY <2>5, <2>6, ReadHolds
  <2>8. dest.reg \in lost \cap Places /\ dest.reg \in Registers
    BY <2>4, Kinds DEF BothEnsured
  <2>9. Meaning(i) = term
    BY <1>2, <2>7 DEF Meaning
  <2> HIDE DEF term, lost
  <2>10. Wrote(a, src.m, wide, lost, dest.reg, i.ds, term)
    BY <2>5, <2>6, <2>8, ThenWrite DEF Ready
  <2> HIDE DEF wide
  <2>11. (wide.busy \ {src.reg}) \ {dest.reg} = a.busy /\ wide.ok
    BY <2>4, <2>10 DEF BothEnsured, Wrote
  <2>12. Computes(a, b, lost, i.d, i.ds, term)
    <3>1. i.d \in lost
      BY DEF lost
    <3> QED
      BY <2>8, <2>10, <2>11, <3>1, Settled DEF Ready, Wrote
  <2> QED
    BY <2>0, <2>9, <2>12 DEF lost
<1> QED
  BY <1>1, <1>2

LEMMA BinaryMeaning ==
    ASSUME NEW i, i.op \in {"less", "add", "mul", "div", "mod", "shl"}
    PROVE  Meaning(i) = <<i.op, <<i.a>>, <<i.b>>>>
BY DEF Meaning

LEMMA ComparisonComputes ==
    ASSUME NEW a, NEW i, Ready(a), ~Dead(EmitComparison(a, i)), i.op = "less",
           i.d \in Regs \cup Memory, i.a \in Anything, i.b \in Regs \cup Memory \cup Imms,
           i.ds = 1, i.as \in 0..8, i.d # i.a,
           Holds(a, i.a, i.as, <<i.a>>), Holds(a, i.b, i.as, <<i.b>>)
    PROVE  Computes(a, EmitComparison(a, i), {i.d} \cup Reserved, i.d, i.ds, Meaning(i))
<1> DEFINE src == Ensure(a, i.a, i.as)
           dest == Ensure(src.m, i.d, i.ds)
           cmp == Check(dest.m, "cmp", src.reg, i.b)
           term == <<i.op, Read(dest.m, src.reg, i.as), Read(dest.m, i.b, i.as)>>
           set == Write(cmp, dest.reg, 1, term)
           b == Free(Free(MovRegToOperand(set, i.d, dest.reg, i.ds), src.reg), dest.reg)
           lost == {i.d} \cup Reserved
<1>0. EmitComparison(a, i) = b
  BY DEF EmitComparison
<1>d. ~Dead(src.m) /\ ~Dead(dest.m)
  <2>1. ~Dead(b)
    BY <1>0
  <2> HIDE DEF src
  <2>2. ~Dead(dest.m)
    <3> HIDE DEF dest
    <3> QED
      BY <2>1, DeadFree, DeadMove, DeadWrite, DeadCheck
  <2> QED
    BY <2>2, DeadEnsure
<1>1. Ensured(a, src, i.a, i.as)
  BY <1>d, EnsureDoes DEF Ready, Anything
<1>2. IsMachine(src.m)
  BY <1>1, OneEnsured DEF Anything
<1> HIDE DEF src
<1>3. Ensured(src.m, dest, i.d, i.ds)
  BY <1>d, <1>2, EnsureDoes
<1> HIDE DEF dest
<1>4. BothEnsured(a, src, dest, i.a, i.as, i.d, i.ds)
  <2>1. i.ds \in 0..8 /\ i.as \in 0..8
    OBVIOUS
  <2>2. i.a \in Regs \cup Memory \cup Literals /\ i.d \in Regs \cup Memory \cup Literals
    BY DEF Anything
  <2> QED
    BY ONLY <1>1, <1>3, <2>1, <2>2, TwoEnsured, Ready(a)
<1>5. /\ Holds(dest.m, src.reg, i.as, <<i.a>>) /\ IsMachine(dest.m) /\ Kept(a, dest.m, lost)
      /\ Holds(dest.m, i.b, i.as, <<i.b>>)
  <2>1. i.b \in Regs \cup Memory \cup Literals /\ i.as \in Nat
    BY DEF Literals
  <2> QED
    BY <1>4, <2>1, KeptMore DEF BothEnsured
<1>6. i.as \in Nat /\ i.ds \in Nat
  OBVIOUS
<1>7. Read(dest.m, src.reg, i.as) = <<i.a>> /\ Read(dest.m, i.b, i.as) = <<i.b>>
  BY <1>5, <1>6, ReadHolds
<1>8. dest.reg \in lost \cap Places /\ dest.reg \in Registers /\ src.reg \in Registers
  BY <1>4, Kinds DEF BothEnsured
<1>9. Meaning(i) = term
  BY <1>7, BinaryMeaning
<1>10. Encodable("cmp", src.reg, i.b)
  BY <1>8, Kinds, EmitterAssumption DEF Encodable, Literals
<1> HIDE DEF term, lost
<1>11. IsMachine(cmp) /\ Kept(a, cmp, lost) /\ cmp.busy = dest.m.busy /\ cmp.ok
  <2>1. Same(dest.m, cmp) /\ cmp.busy = dest.m.busy /\ cmp.ok
    BY <1>4, <1>5, <1>10, CheckDoes DEF BothEnsured
  <2> HIDE DEF cmp
  <2>2. Kept(a, cmp, lost \cup {})
    BY <1>5, <2>1, SameKept, KeptTrans DEF Ready
  <2>3. lost \cup {} = lost
    OBVIOUS
  <2> QED
    BY <2>1, <2>2, <2>3 DEF Same
<1> HIDE DEF cmp
<1>12. Wrote(a, cmp, set, lost, dest.reg, 1, term)
  BY <1>8, <1>11, ThenWrite DEF Ready
<1> HIDE DEF set
<1>13. (set.busy \ {src.reg}) \ {dest.reg} = a.busy /\ set.ok
  BY <1>4, <1>11, <1>12 DEF BothEnsured, Wrote
<1>14. Computes(a, b, lost, i.d, i.ds, term)
  <2>1. i.d \in lost /\ i.d \in Regs \cup Memory /\ i.ds \in 0..8
    BY DEF lost
  <2>2. Kept(a, set, lost) /\ IsMachine(set) /\ Holds(set, dest.reg, i.ds, term)
    BY <1>12 DEF Wrote
  <2>3. IsMachine(a)
    BY DEF Ready
  <2> QED
    BY ONLY <1>8, <1>13, <2>1, <2>2, <2>3, Settled
<1> QED
  BY <1>0, <1>9, <1>14 DEF lost

\* The pointer and the destination are put in registers, and the destination has
\* one already: nothing is written back.
LEMMA LoadComputes ==
    ASSUME NEW a, NEW i, Ready(a), ~Dead(EmitLoad(a, i)), i.op = "load",
           i.d \in Regs, i.a \in Anything, i.ds \in 0..8, i.as = 8, i.d # i.a,
           Holds(a, i.a, i.as, <<i.a>>)
    PROVE  Computes(a, EmitLoad(a, i), {i.d} \cup Reserved, i.d, i.ds, Meaning(i))
<1> DEFINE src == Ensure(a, i.a, i.as)
           dest == Ensure(src.m, i.d, i.ds)
           term == <<"at", Read(dest.m, src.reg, 8)>>
           load == Write(dest.m, dest.reg, i.ds, term)
           b == Free(Free(load, src.reg), dest.reg)
           lost == {i.d} \cup Reserved
<1>0. EmitLoad(a, i) = b
  BY DEF EmitLoad
<1>d. ~Dead(src.m) /\ ~Dead(dest.m)
  <2>1. ~Dead(b)
    BY <1>0
  <2> HIDE DEF src
  <2>2. ~Dead(dest.m)
    <3> HIDE DEF dest
    <3> QED
      BY <2>1, DeadFree, DeadWrite
  <2> QED
    BY <2>2, DeadEnsure
<1>1. Ensured(a, src, i.a, i.as)
  BY <1>d, EnsureDoes DEF Ready, Anything
<1>2. IsMachine(src.m)
  BY <1>1, OneEnsured DEF Anything
<1> HIDE DEF src
<1>3. Ensured(src.m, dest, i.d, i.ds)
  BY <1>d, <1>2, EnsureDoes
<1> HIDE DEF dest
<1>4. BothEnsured(a, src, dest, i.a, i.as, i.d, i.ds)
  <2>1. i.ds \in 0..8 /\ i.as \in 0..8
    OBVIOUS
  <2>2. i.a \in Regs \cup Memory \cup Literals /\ i.d \in Regs \cup Memory \cup Literals
    BY DEF Anything
  <2> QED
    BY ONLY <1>1, <1>3, <2>1, <2>2, TwoEnsured, Ready(a)
<1>5. Holds(dest.m, src.reg, 8, <<i.a>>) /\ IsMachine(dest.m) /\ Kept(a, dest.m, lost)
  BY <1>4, KeptMore DEF BothEnsured
<1>6. i.ds \in Nat /\ 8 \in Nat
  OBVIOUS
<1>7. Read(dest.m, src.reg, 8) = <<i.a>>
  BY <1>5, <1>6, ReadHolds
<1>8. dest.reg \in lost \cap Places /\ dest.reg = i.d
  BY <1>4, Kinds DEF BothEnsured
<1>9. Meaning(i) = term
  BY <1>7 DEF Meaning
<1> HIDE DEF term, lost
<1>10. Wrote(a, dest.m, load, lost, dest.reg, i.ds, term)
  BY <1>5, <1>6, <1>8, ThenWrite DEF Ready
<1> HIDE DEF load
<1>11. (load.busy \ {src.reg}) \ {dest.reg} = a.busy /\ load.ok /\ IsMachine(load)
  BY <1>4, <1>10 DEF BothEnsured, Wrote
<1>12. GivenBack(load, b, src.reg, dest.reg)
  BY <1>11, FreeTwice
<1> HIDE DEF b
<1>13. Same(load, b) /\ b.ok /\ b.busy = a.busy
  BY <1>11, <1>12 DEF GivenBack
<1>14. Kept(load, b, {}) /\ Holds(b, i.d, i.ds, term)
  BY <1>8, <1>10, <1>11, <1>13, SameKept DEF Wrote
<1>15. Kept(a, b, lost)
  <2>1. Kept(a, b, lost \cup {})
    BY <1>10, <1>11, <1>14, KeptTrans DEF Ready, Wrote
  <2>2. lost \cup {} = lost
    OBVIOUS
  <2> QED
    BY <2>1, <2>2
<1> QED
  BY <1>0, <1>9, <1>13, <1>14, <1>15 DEF lost, Computes, Same

LEMMA AddressOfComputes ==
    ASSUME NEW a, NEW i, Ready(a), ~Dead(EmitAddressOf(a, i)), i.op = "address",
           i.d \in Regs \cup Memory, i.ds \in 0..8
    PROVE  Computes(a, EmitAddressOf(a, i), {i.d} \cup Reserved, i.d, i.ds, Meaning(i))
<1> DEFINE dest == Ensure(a, i.d, i.ds)
           term == <<"address", i.a>>
           lea == Write(dest.m, dest.reg, 8, term)
           b == Free(MovRegToOperand(lea, i.d, dest.reg, i.ds), dest.reg)
           lost == {i.d} \cup Reserved
<1>0. EmitAddressOf(a, i) = b /\ Meaning(i) = term
  BY DEF EmitAddressOf, Meaning
<1>d. ~Dead(dest.m)
  <2>1. ~Dead(b)
    BY <1>0
  <2> HIDE DEF dest
  <2> QED
    BY <2>1, DeadFree, DeadMove, DeadWrite
<1>1. Ensured(a, dest, i.d, i.ds)
  BY <1>d, EnsureDoes DEF Ready
<1> HIDE DEF dest
<1>2. /\ IsMachine(dest.m) /\ dest.m.ok /\ dest.m.busy \ {dest.reg} = a.busy
      /\ Kept(a, dest.m, Reserved) /\ dest.reg \in Registers
      /\ i.d \in Regs => dest.reg = i.d
      /\ i.d \notin Regs => dest.reg \in Reserved
  BY <1>1, OneEnsured
<1>3. Kept(a, dest.m, lost) /\ dest.reg \in lost \cap Places
  BY <1>2, Kinds, KeptMore
<1>4. i.d \in lost /\ IsMachine(a) /\ 8 \in Nat /\ i.ds \in Nat /\ i.ds <= 8
  BY DEF Ready
<1> HIDE DEF term, lost
<1>5. Wrote(a, dest.m, lea, lost, dest.reg, 8, term)
  BY ONLY <1>2, <1>3, <1>4, ThenWrite DEF lea
<1> HIDE DEF lea
<1>6. /\ Kept(a, lea, lost) /\ IsMachine(lea) /\ Holds(lea, dest.reg, i.ds, term)
      /\ lea.ok /\ lea.busy \ {dest.reg} = a.busy
  BY <1>2, <1>4, <1>5, HoldsLess DEF Wrote
<1>7. Computes(a, b, lost, i.d, i.ds, term)
  BY ONLY <1>2, <1>4, <1>6, SettledOnce, i.d \in Regs \cup Memory, i.ds \in 0..8
<1> QED
  BY <1>0, <1>7 DEF lost

LEMMA DereferenceComputes ==
    ASSUME NEW a, NEW i, Ready(a), ~Dead(EmitDereference(a, i)), i.op = "at",
           i.d \in Regs \cup Memory, i.a \in Anything, i.ds \in 0..8, i.as = 8,
           Holds(a, i.a, i.as, <<i.a>>)
    PROVE  Computes(a, EmitDereference(a, i), {i.d} \cup Reserved, i.d, i.ds, Meaning(i))
<1> DEFINE src == Ensure(a, i.a, i.as)
           t == TakeScratch(src.m)
           term == <<"at", Read(t.m, src.reg, 8)>>
           val == Write(t.m, t.reg, i.ds, term)
           b == Free(Free(MovRegToOperand(val, i.d, t.reg, i.ds), t.reg), src.reg)
           lost == {i.d} \cup Reserved
<1>0. EmitDereference(a, i) = b
  BY DEF EmitDereference
<1>d. ~Dead(src.m) /\ ~Dead(t.m)
  <2>1. ~Dead(b)
    BY <1>0
  <2> HIDE DEF src
  <2>2. ~Dead(t.m)
    <3> HIDE DEF t
    <3> QED
      BY <2>1, DeadFree, DeadMove, DeadWrite
  <2> QED
    BY <2>2, DeadTake
<1>1. Ensured(a, src, i.a, i.as)
  BY <1>d, EnsureDoes DEF Ready, Anything
<1> HIDE DEF src
<1>2. /\ IsMachine(src.m) /\ Kept(a, src.m, Reserved)
      /\ src.m.ok /\ src.m.busy \ {src.reg} = a.busy
      /\ Holds(src.m, src.reg, i.as, <<i.a>>)
  BY <1>1, OneEnsured DEF Anything
<1>3. /\ Same(src.m, t.m) /\ t.m.ok = src.m.ok
      /\ t.reg \in Reserved \ src.m.busy
      /\ t.m.busy = src.m.busy \cup {t.reg}
  BY <1>d, <1>2, TakeDoes
<1> HIDE DEF t
<1>4. Kept(src.m, t.m, {}) /\ Holds(t.m, src.reg, i.as, <<i.a>>) /\ IsMachine(t.m)
  BY <1>2, <1>3, SameKept DEF Same
<1>5. Read(t.m, src.reg, 8) = <<i.a>>
  BY <1>4, ReadHolds
<1>6. Meaning(i) = term
  BY <1>5 DEF Meaning
<1>7. Kept(a, t.m, lost)
  <2>1. Kept(a, t.m, Reserved \cup {})
    BY <1>2, <1>4, KeptTrans DEF Ready
  <2> QED
    BY <2>1, KeptMore
<1>8. /\ t.reg \in lost \cap Places /\ t.reg \in Registers
      /\ i.d \in lost /\ IsMachine(a) /\ i.ds \in Nat
  BY <1>3, Kinds DEF Ready, Registers
<1> HIDE DEF term, lost
<1>9. Wrote(a, t.m, val, lost, t.reg, i.ds, term)
  BY ONLY <1>4, <1>7, <1>8, ThenWrite DEF val
<1> HIDE DEF val
<1>10. /\ Kept(a, val, lost) /\ IsMachine(val) /\ Holds(val, t.reg, i.ds, term)
       /\ val.ok /\ val.busy = src.m.busy \cup {t.reg}
  BY <1>2, <1>3, <1>9 DEF Wrote
<1>11. (val.busy \ {t.reg}) \ {src.reg} = a.busy
  BY <1>2, <1>3, <1>10
<1>12. Computes(a, b, lost, i.d, i.ds, term)
  BY ONLY <1>8, <1>10, <1>11, Settled, i.d \in Regs \cup Memory, i.ds \in 0..8
<1> QED
  BY <1>0, <1>6, <1>12 DEF lost

\* The store changes the memory the pointer leads to, and no place.
LEMMA StoreIndirectDoes ==
    ASSUME NEW a, NEW i, Ready(a), ~Dead(EmitStoreIndirect(a, i)), i.d \in Regs \cup Memory, i.a \in Anything,
           i.as \in 0..8, i.d # i.a, a.mem = <<>>,
           Holds(a, i.d, 8, <<i.d>>), Holds(a, i.a, i.as, <<i.a>>)
    PROVE  LET b == EmitStoreIndirect(a, i) IN
           /\ IsMachine(b) /\ b.busy = a.busy /\ b.ok
           /\ b.stack = a.stack /\ b.base = a.base
           /\ b.mem = <<<<<<i.d>>, i.as, <<i.a>>>>>>
           /\ \A p \in Places \ Reserved : b.val[p] = a.val[p] /\ b.bytes[p] >= a.bytes[p]
<1> DEFINE dest == Ensure(a, i.d, 8)
           src == Ensure(dest.m, i.a, i.as)
           word == <<Read(src.m, dest.reg, 8), i.as, Read(src.m, src.reg, i.as)>>
           store == [src.m EXCEPT !.mem = Append(@, word)]
           b == Free(Free(store, src.reg), dest.reg)
<1>0. EmitStoreIndirect(a, i) = b
  BY DEF EmitStoreIndirect
<1>d. ~Dead(dest.m) /\ ~Dead(src.m)
  <2>1. ~Dead(b)
    BY <1>0
  <2> HIDE DEF dest
  <2>2. ~Dead(src.m)
    <3> HIDE DEF src, word
    <3>1. Dead(src.m) => Dead(store)
      BY DEF Dead, Fields
    <3> HIDE DEF store
    <3> QED
      BY <2>1, <3>1, DeadFree
  <2> QED
    BY <2>2, DeadEnsure
<1>1. Ensured(a, dest, i.d, 8)
  BY <1>d, EnsureDoes DEF Ready
<1> HIDE DEF dest
<1>2. IsMachine(dest.m)
  BY <1>1, OneEnsured
<1>3. Ensured(dest.m, src, i.a, i.as)
  BY <1>d, <1>2, EnsureDoes DEF Anything
<1> HIDE DEF src
<1>4. BothEnsured(a, dest, src, i.d, 8, i.a, i.as)
  <2>1. 8 \in 0..8 /\ i.as \in 0..8
    OBVIOUS
  <2>2. i.a \in Regs \cup Memory \cup Literals /\ i.d \in Regs \cup Memory \cup Literals
    BY DEF Anything
  <2> QED
    BY ONLY <1>1, <1>3, <2>1, <2>2, TwoEnsured, Ready(a)
<1>5. /\ Holds(src.m, dest.reg, 8, <<i.d>>) /\ Holds(src.m, src.reg, i.as, <<i.a>>)
      /\ IsMachine(src.m) /\ Kept(a, src.m, Reserved)
      /\ src.m.ok /\ (src.m.busy \ {src.reg}) \ {dest.reg} = a.busy
  BY <1>4 DEF BothEnsured
<1>6. word = <<<<i.d>>, i.as, <<i.a>>>>
  <2>1. 8 \in Nat /\ i.as \in Nat
    OBVIOUS
  <2>2. Read(src.m, dest.reg, 8) = <<i.d>> /\ Read(src.m, src.reg, i.as) = <<i.a>>
    BY <1>5, <2>1, ReadHolds
  <2> QED
    BY <2>2
<1>7. src.m.mem = <<>>
  BY <1>5 DEF Kept
<1> HIDE DEF word
<1>8. /\ store = [f \in Fields |-> store[f]]
      /\ store.val = src.m.val /\ store.bytes = src.m.bytes /\ store.busy = src.m.busy
      /\ store.stack = src.m.stack /\ store.base = src.m.base
      /\ store.mem = Append(<<>>, word) /\ store.ok = src.m.ok
  BY <1>5, <1>7 DEF IsMachine, Fields
<1>9. Append(<<>>, word) = <<word>>
  OBVIOUS
<1> HIDE DEF store
<1>10. IsMachine(store)
  BY <1>5, <1>8 DEF IsMachine
<1>11. GivenBack(store, b, src.reg, dest.reg)
  BY <1>10, FreeTwice
<1> HIDE DEF b
<1>12. \A p \in Places \ Reserved : b.val[p] = a.val[p] /\ b.bytes[p] >= a.bytes[p]
  BY <1>5, <1>8, <1>11 DEF GivenBack, Same, Kept
<1>13. /\ IsMachine(b) /\ b.busy = a.busy /\ b.ok
       /\ b.stack = a.stack /\ b.base = a.base
       /\ b.mem = <<word>>
  BY <1>5, <1>8, <1>9, <1>11 DEF GivenBack, Same, Kept
<1> QED
  BY <1>0, <1>6, <1>12, <1>13

LEMMA GepComputes ==
    ASSUME NEW a, NEW i, Ready(a), ~Dead(EmitGep(a, i)), i.op \in {"gep_scaled", "gep_wide"},
           i.d \in Regs \cup Memory, i.a \in Regs \cup Slots, i.b \in Anything,
           i.ds = 8, i.bs = 8, i.d # i.b,
           i.op = "gep_wide" => i.a \in Regs,
           Holds(a, i.a, 8, <<i.a>>), Holds(a, i.b, i.bs, <<i.b>>)
    PROVE  Computes(a, EmitGep(a, i), {i.d} \cup Reserved, i.d, i.ds, Meaning(i))
<1> DEFINE dest == Ensure(a, i.d, i.ds)
           idx == IF i.b \in Literals THEN [m |-> dest.m, reg |-> i.b]
                  ELSE Ensure(dest.m, i.b, i.bs)
           base == IF i.a \in Slots THEN <<"address", i.a>> ELSE Read(idx.m, i.a, 8)
           term == <<"element", base, Read(idx.m, idx.reg, 8)>>
           lea == Write(idx.m, dest.reg, 8, term)
           free == Free(lea, idx.reg)
           b == Free(MovRegToOperand(free, i.d, dest.reg, i.ds), dest.reg)
           lost == {i.d} \cup Reserved
<1>0. EmitGep(a, i) = b
  BY DEF EmitGep
<1>d. ~Dead(dest.m) /\ ~Dead(idx.m)
  <2>1. ~Dead(b)
    BY <1>0
  <2> HIDE DEF dest
  <2>2. ~Dead(idx.m)
    <3> HIDE DEF idx
    <3> QED
      BY <2>1, DeadFree, DeadMove, DeadWrite
  <2>3. Dead(dest.m) => Dead(idx.m)
    BY DeadEnsure
  <2> QED
    BY <2>2, <2>3
<1>a. i.ds \in 0..8 /\ i.bs \in 0..8 /\ i.d \in Regs \cup Memory \cup Literals
  OBVIOUS
<1>1. Ensured(a, dest, i.d, i.ds)
  BY <1>a, <1>d, EnsureDoes DEF Ready
<1> HIDE DEF dest
<1>2. /\ IsMachine(dest.m) /\ Kept(a, dest.m, Reserved)
      /\ dest.m.ok /\ dest.m.busy \ {dest.reg} = a.busy
      /\ dest.reg \in Registers
      /\ i.d \in Regs => dest.reg = i.d
      /\ i.d \notin Regs => dest.reg \in Reserved
      /\ \A x \in Anything : \A n \in Nat : \A y : Holds(a, x, n, y) => Holds(dest.m, x, n, y)
  BY ONLY <1>1, <1>a, OneEnsured, Ready(a) DEF Anything
<1>3. /\ IsMachine(idx.m) /\ Kept(a, idx.m, Reserved) /\ idx.m.ok
      /\ (idx.m.busy \ {idx.reg}) \ {dest.reg} = a.busy
      /\ Holds(idx.m, idx.reg, 8, <<i.b>>)
      /\ \A x \in Anything : \A n \in Nat : \A y : Holds(a, x, n, y) => Holds(idx.m, x, n, y)
  <2>1. CASE i.b \in Literals
    <3>1. idx.m = dest.m /\ idx.reg = i.b
      BY <2>1
    <3>2. i.b \notin dest.m.busy
      BY <1>2, <2>1, Kinds DEF IsMachine, Registers
    <3> QED
      BY <1>2, <2>1, <3>1, <3>2 DEF Anything, Holds
  <2>2. CASE i.b \notin Literals
    <3>1. idx = Ensure(dest.m, i.b, i.bs)
      BY <2>2
    <3> HIDE DEF idx
    <3>2. Ensured(dest.m, idx, i.b, i.bs)
      BY <1>d, <1>2, <3>1, EnsureDoes DEF Anything
    <3>3. BothEnsured(a, dest, idx, i.d, i.ds, i.b, i.bs)
      <4>1. i.b \in Regs \cup Memory \cup Literals
        BY DEF Anything
      <4> QED
        BY ONLY <1>1, <1>a, <3>2, <4>1, TwoEnsured, Ready(a)
    <3> QED
      BY <3>3 DEF BothEnsured, Anything
  <2> QED
    BY <2>1, <2>2
<1> HIDE DEF idx
<1>4. Meaning(i) = term
  <2>1. i.a \in Anything /\ 8 \in Nat
    BY DEF Anything, Memory
  <2>2. Holds(idx.m, i.a, 8, <<i.a>>)
    BY <1>3, <2>1
  <2>3. Read(idx.m, i.a, 8) = <<i.a>> /\ Read(idx.m, idx.reg, 8) = <<i.b>>
    BY <1>3, <2>1, <2>2, ReadHolds
  <2> QED
    BY <2>3 DEF Meaning
<1>5. /\ Kept(a, idx.m, lost) /\ dest.reg \in lost \cap Places
      /\ i.d \in lost /\ IsMachine(a) /\ 8 \in Nat
  BY <1>2, <1>3, Kinds, KeptMore DEF Ready
<1> HIDE DEF term, lost
<1>6. Wrote(a, idx.m, lea, lost, dest.reg, 8, term)
  BY ONLY <1>3, <1>5, ThenWrite DEF lea
<1> HIDE DEF lea
<1>7. IsMachine(lea) /\ Same(lea, free) /\ free.ok = lea.ok /\ free.busy = lea.busy \ {idx.reg}
  BY <1>6, FreeDoes DEF Wrote
<1> HIDE DEF free
<1>8. /\ Kept(a, free, lost) /\ IsMachine(free) /\ Holds(free, dest.reg, 8, term)
      /\ free.ok /\ free.busy \ {dest.reg} = a.busy
  <2>1. Kept(a, free, lost \cup {})
    BY <1>5, <1>6, <1>7, SameKept, KeptTrans DEF Wrote
  <2>2. lost \cup {} = lost
    OBVIOUS
  <2>3. Holds(free, dest.reg, 8, term)
    BY <1>6, <1>7, SameKept DEF Wrote
  <2> QED
    BY <1>3, <1>6, <1>7, <2>1, <2>2, <2>3 DEF Wrote, Same
<1>9. Computes(a, b, lost, i.d, i.ds, term)
  <2>1. Holds(free, dest.reg, i.ds, term)
    BY <1>8
  <2> QED
    BY ONLY <1>a, <1>2, <1>5, <1>8, <2>1, SettledOnce, i.d \in Regs \cup Memory
<1> QED
  BY <1>0, <1>4, <1>9 DEF lost

LEMMA UnaryComputes ==
    ASSUME NEW a, NEW i, Ready(a), ~Dead(EmitUnary(a, i)), i.op = "neg",
           i.d \in Regs \cup Memory, i.a \in Anything, i.ds \in 0..8, i.as = i.ds,
           Holds(a, i.a, i.as, <<i.a>>)
    PROVE  Computes(a, EmitUnary(a, i), {i.d} \cup Reserved, i.d, i.ds, Meaning(i))
<1> DEFINE lost == {i.d} \cup Reserved
           result == <<"neg", <<i.a>>>>
<1>0. Meaning(i) = result
  BY DEF Meaning
<1>1. CASE i.a \in Literals
  <2> DEFINE t == TakeScratch(a)
             src == MovOperandToReg(t.m, t.reg, i.a, i.as)
             term == <<i.op, Read(src, t.reg, i.ds)>>
             neg == Write(src, t.reg, i.ds, term)
             b == Free(MovRegToOperand(neg, i.d, t.reg, i.ds), t.reg)
  <2>0. EmitUnary(a, i) = b
    BY <1>1 DEF EmitUnary
  <2>d. ~Dead(t.m)
    <3>1. ~Dead(b)
      BY <2>0
    <3> HIDE DEF t
    <3>2. ~Dead(src)
      <4> HIDE DEF src
      <4> QED
        BY <3>1, DeadFree, DeadMove, DeadWrite
    <3> QED
      BY <3>2, DeadMove
  <2>1. /\ Same(a, t.m) /\ t.m.ok = a.ok
        /\ t.reg \in Reserved \ a.busy
        /\ t.m.busy = a.busy \cup {t.reg}
    BY <2>d, TakeDoes DEF Ready
  <2> HIDE DEF t
  <2>2. t.reg \in Registers /\ IsMachine(t.m) /\ i.a \in Registers \cup Memory \cup Literals
    BY <1>1, <2>1 DEF Same, Registers
  <2>3. Moved(t.m, src, t.reg, i.a, i.as)
    BY <2>2, MovOperandToRegDoes
  <2> HIDE DEF src
  <2>4. Holds(t.m, i.a, i.as, <<i.a>>)
    BY <2>1, SameKept DEF Ready
  <2>5. /\ IsMachine(src) /\ Kept(t.m, src, {t.reg}) /\ Holds(src, t.reg, i.ds, <<i.a>>)
        /\ src.busy = t.m.busy /\ src.ok = t.m.ok
    BY <2>3, <2>4 DEF Moved
  <2>6. term = result
    <3>1. i.ds \in Nat
      OBVIOUS
    <3> QED
      BY <2>5, <3>1, ReadHolds
  <2>7. Kept(a, src, lost)
    <3>1. Kept(a, src, {} \cup {t.reg})
      BY <2>1, <2>5, SameKept, KeptTrans DEF Ready
    <3> QED
      BY <2>1, <3>1, KeptMore
  <2>8. t.reg \in lost \cap Places /\ i.d \in lost /\ i.ds \in Nat /\ IsMachine(a)
    BY <2>1, <2>2, Kinds DEF Ready
  <2> HIDE DEF term, lost
  <2>9. Wrote(a, src, neg, lost, t.reg, i.ds, term)
    BY ONLY <2>5, <2>7, <2>8, ThenWrite DEF neg
  <2> HIDE DEF neg
  <2>10. /\ Kept(a, neg, lost) /\ IsMachine(neg) /\ Holds(neg, t.reg, i.ds, term)
         /\ neg.ok /\ neg.busy \ {t.reg} = a.busy
    BY <2>1, <2>5, <2>9 DEF Wrote, Ready
  <2>11. Computes(a, b, lost, i.d, i.ds, term)
    BY ONLY <2>2, <2>8, <2>10, SettledOnce, i.d \in Regs \cup Memory, i.ds \in 0..8
  <2> QED
    BY <1>0, <2>0, <2>6, <2>11 DEF lost
<1>2. CASE i.a \notin Literals
  <2> DEFINE src == EmitMove(a, i)
             term == <<i.op, Read(src, i.d, i.ds)>>
             b == Write(src, i.d, i.ds, term)
  <2>0. EmitUnary(a, i) = b
    BY <1>2 DEF EmitUnary
  <2>1. Computes(a, src, lost, i.d, i.ds, <<i.a>>)
    <3>1. i.as \in 0..8 /\ i.ds \in 0..8 /\ i.ds <= i.as
      OBVIOUS
    <3>2. /\ Ready(a) /\ i.d \in Regs \cup Memory /\ i.a \in Anything
          /\ Holds(a, i.a, i.as, <<i.a>>)
      OBVIOUS
    <3>3. ~Dead(EmitMove(a, i))
      <4>1. ~Dead(b)
        BY <2>0
      <4> HIDE DEF src
      <4>2. ~Dead(src)
        BY <4>1, DeadWrite
      <4> QED
        BY <4>2 DEF src
    <3> QED
      BY ONLY <3>1, <3>2, <3>3, MoveComputes DEF src, lost
  <2> HIDE DEF src
  <2>2. i.d \in lost \cap Places /\ i.ds \in Nat /\ IsMachine(a)
    BY Kinds DEF Ready, Registers
  <2>3. term = result
    BY <2>1, <2>2, ReadHolds DEF Computes
  <2> HIDE DEF term, lost
  <2>4. Wrote(a, src, b, lost, i.d, i.ds, term)
    BY <2>1, <2>2, ThenWrite DEF Computes
  <2> QED
    BY <1>0, <2>0, <2>1, <2>3, <2>4 DEF Computes, Wrote, lost
<1> QED
  BY <1>1, <1>2

LEMMA DeadOperateInPlace ==
    ASSUME NEW x, NEW mnemonic, NEW i, Dead(x)
    PROVE  Dead(OperateInPlace(x, mnemonic, i))
<1> DEFINE src == Ensure(x, i.b, i.bs)
<1>1. Dead(Free(Operate(src.m, mnemonic, i.op, i.d, src.reg, i.ds), src.reg))
  <2>1. Dead(src.m)
    BY DeadEnsure
  <2> HIDE DEF src
  <2> QED
    BY <2>1, DeadFree, DeadWrite, DeadCheck DEF Operate
<1>2. Dead(Operate(x, mnemonic, i.op, i.d, i.b, i.ds))
  BY DeadWrite, DeadCheck DEF Operate
<1> QED
  BY <1>1, <1>2 DEF OperateInPlace

LEMMA InPlaceComputes ==
    ASSUME NEW a, NEW x, NEW i, NEW mnemonic \in {"add", "imul"}, NEW term, NEW lost,
           IsMachine(a), Kept(a, x, lost), Ready(x), x.busy = a.busy,
           ~Dead(OperateInPlace(x, mnemonic, i)),
           i.d \in lost, Reserved \subseteq lost,
           i.d \in Regs \/ (i.d \in Slots /\ mnemonic = "add"),
           i.b \in Regs \cup Slots \cup Imms, i.ds \in 0..8, i.bs = i.ds,
           Holds(x, i.d, i.ds, term), Holds(x, i.b, i.bs, <<i.b>>)
    PROVE  Computes(a, OperateInPlace(x, mnemonic, i), lost, i.d, i.ds,
                    <<i.op, term, <<i.b>>>>)
<1> DEFINE result == <<i.op, term, <<i.b>>>>
<1>1. /\ i.ds \in Nat /\ i.bs \in 0..8 /\ IsMachine(x)
      /\ i.b \in Regs \cup Memory \cup Literals /\ i.d \in Regs \cup Memory \cup Literals
      /\ i.d \in lost \cap Places
  BY Kinds DEF Memory, Literals, Ready, Registers
<1>2. CASE i.d \in Slots
  <2> DEFINE src == Ensure(x, i.b, i.bs)
             t == <<i.op, Read(src.m, i.d, i.ds), Read(src.m, src.reg, i.ds)>>
             w == Check(Write(src.m, i.d, i.ds, t), mnemonic, i.d, src.reg)
             b == Free(w, src.reg)
  <2>0. OperateInPlace(x, mnemonic, i) = b
    BY <1>2 DEF OperateInPlace, Operate
  <2>d. ~Dead(src.m)
    <3>1. ~Dead(b)
      BY <2>0
    <3> HIDE DEF src
    <3> QED
      BY <3>1, DeadFree, DeadWrite, DeadCheck
  <2>1. Ensured(x, src, i.b, i.bs)
    BY <1>1, <2>d, EnsureDoes DEF Ready
  <2> HIDE DEF src
  <2>2. /\ IsMachine(src.m) /\ Kept(x, src.m, Reserved)
        /\ src.m.ok /\ src.m.busy \ {src.reg} = a.busy /\ src.reg \in Registers
        /\ Holds(src.m, src.reg, i.bs, <<i.b>>)
        /\ Holds(src.m, i.d, i.ds, term)
    BY <1>1, <2>1, OneEnsured
  <2>3. t = result
    <3>1. Holds(src.m, src.reg, i.ds, <<i.b>>)
      BY <2>2
    <3> QED
      BY <1>1, <2>2, <3>1, ReadHolds
  <2>4. Kept(a, src.m, lost)
    <3>1. Kept(a, src.m, lost \cup Reserved)
      BY <1>1, <2>2, KeptTrans
    <3> QED
      BY <3>1, KeptMore
  <2>5. Encodable(mnemonic, i.d, src.reg)
    <3>1. mnemonic = "add"
      BY <1>2, Kinds DEF Registers, Memory
    <3>2. i.d \in Memory /\ src.reg \in Registers
      BY <1>2, <2>2 DEF Memory
    <3>3. src.reg \notin Memory /\ src.reg \notin LongImms /\ src.reg # NullReg
          /\ src.reg \notin Literals /\ i.d \notin Literals \cup {NullReg}
      BY <3>2, Kinds DEF Literals
    <3> QED
      BY <3>1, <3>3 DEF Encodable
  <2> HIDE DEF t, result
  <2>6. Wrote(a, src.m, w, lost, i.d, i.ds, t)
    BY ONLY <1>1, <2>2, <2>4, <2>5, ThenCheckedWrite, IsMachine(a) DEF w
  <2> HIDE DEF w
  <2>7. IsMachine(w) /\ w.ok /\ w.busy \ {src.reg} = a.busy
    BY <2>2, <2>6 DEF Wrote
  <2>8. Same(w, b) /\ b.ok = w.ok /\ b.busy = w.busy \ {src.reg}
    BY <2>7, FreeDoes
  <2> HIDE DEF b
  <2>9. Kept(a, b, lost)
    <3>1. Kept(a, b, lost \cup {})
      BY <2>6, <2>7, <2>8, SameKept, KeptTrans DEF Wrote
    <3>2. lost \cup {} = lost
      OBVIOUS
    <3> QED
      BY <3>1, <3>2
  <2>10. Holds(b, i.d, i.ds, result)
    BY <2>3, <2>6, <2>7, <2>8, SameKept DEF Wrote
  <2> QED
    BY <2>0, <2>7, <2>8, <2>9, <2>10 DEF Computes, Same, result
<1>3. CASE i.d \notin Slots
  <2> DEFINE t == <<i.op, Read(x, i.d, i.ds), Read(x, i.b, i.ds)>>
             b == Check(Write(x, i.d, i.ds, t), mnemonic, i.d, i.b)
  <2>0. OperateInPlace(x, mnemonic, i) = b
    BY <1>3 DEF OperateInPlace, Operate
  <2>1. t = result
    <3>1. Holds(x, i.b, i.ds, <<i.b>>)
      OBVIOUS
    <3> QED
      BY <1>1, <3>1, ReadHolds
  <2>2. Encodable(mnemonic, i.d, i.b)
    <3>1. i.b \notin LongImms /\ i.b # NullReg
      BY Kinds, EmitterAssumption DEF Literals, Registers, Memory
    <3> QED
      BY <1>3, <3>1, Kinds DEF Encodable, Registers
  <2> HIDE DEF t, result
  <2>3. Wrote(a, x, b, lost, i.d, i.ds, t)
    BY ONLY <1>1, <2>2, ThenCheckedWrite, IsMachine(a), Kept(a, x, lost) DEF b
  <2> QED
    BY <2>0, <2>1, <2>3 DEF Computes, Wrote, Ready, result
<1> QED
  BY <1>2, <1>3

\* The destination takes the first operand, unless it is that operand.
LEMMA FirstOperandMoved ==
    ASSUME NEW a, NEW i, Ready(a), i.d \in Regs \cup Memory, i.a \in Anything,
           i.ds \in 0..8, i.as = i.ds, Holds(a, i.a, i.as, <<i.a>>),
           ~Dead(IF i.d = i.a THEN a ELSE EmitMove(a, i))
    PROVE  Computes(a, IF i.d = i.a THEN a ELSE EmitMove(a, i),
                    {i.d} \cup Reserved, i.d, i.ds, <<i.a>>)
<1>1. CASE i.d = i.a
  <2>1. Kept(a, a, {i.d} \cup Reserved)
    BY KeptSelf DEF Ready
  <2> QED
    BY <1>1, <2>1 DEF Computes, Ready
<1>2. CASE i.d # i.a
  <2>1. i.as \in 0..8 /\ i.ds \in 0..8 /\ i.ds <= i.as
    OBVIOUS
  <2>2. Computes(a, EmitMove(a, i), {i.d} \cup Reserved, i.d, i.ds, <<i.a>>)
    BY <1>2, <2>1, MoveComputes
  <2> QED
    BY <1>2, <2>2
<1> QED
  BY <1>1, <1>2

LEMMA ArithmeticComputes ==
    ASSUME NEW a, NEW i, Ready(a), ~Dead(EmitArithmetic(a, i)), i.op = "add",
           i.d \in Regs \cup Slots, i.a \in Anything, i.b \in Regs \cup Slots \cup Imms,
           i.ds \in 0..8, i.as = i.ds, i.bs = i.ds, i.d # i.b,
           Holds(a, i.a, i.as, <<i.a>>), Holds(a, i.b, i.bs, <<i.b>>)
    PROVE  Computes(a, EmitArithmetic(a, i), {i.d} \cup Reserved, i.d, i.ds, Meaning(i))
<1> DEFINE x == IF i.d = i.a THEN a ELSE EmitMove(a, i)
           lost == {i.d} \cup Reserved
<1>0. EmitArithmetic(a, i) = OperateInPlace(x, "add", i)
  BY DEF EmitArithmetic
<1>d. ~Dead(x)
  <2> HIDE DEF x
  <2> QED
    BY <1>0, DeadOperateInPlace
<1>1. Computes(a, x, lost, i.d, i.ds, <<i.a>>)
  BY <1>d, FirstOperandMoved DEF Memory
<1> HIDE DEF x
<1>2. Ready(x) /\ Kept(a, x, lost) /\ Holds(x, i.d, i.ds, <<i.a>>) /\ x.busy = a.busy
  BY <1>1 DEF Computes, Ready
<1>3. Holds(x, i.b, i.bs, <<i.b>>)
  <2>1. i.b \notin lost /\ i.bs \in Nat
    BY Kinds DEF Registers, Memory, Literals
  <2> QED
    BY <1>2, <2>1, HoldsKept DEF Ready
<1>4. /\ IsMachine(a) /\ i.d \in lost /\ Reserved \subseteq lost
      /\ i.d \in Regs \/ (i.d \in Slots /\ "add" = "add")
      /\ "add" \in {"add", "imul"}
  BY DEF Ready
<1>5. Meaning(i) = <<i.op, <<i.a>>, <<i.b>>>>
  BY BinaryMeaning
<1> HIDE DEF lost
<1>6. Computes(a, OperateInPlace(x, "add", i), lost, i.d, i.ds, <<i.op, <<i.a>>, <<i.b>>>>)
  BY <1>0, <1>2, <1>3, <1>4, InPlaceComputes
<1> QED
  BY <1>0, <1>5, <1>6 DEF lost

LEMMA ComputesMore ==
    ASSUME NEW a, NEW b, NEW lost, NEW more, NEW d, NEW size, NEW term,
           Computes(a, b, lost, d, size, term), lost \subseteq more
    PROVE  Computes(a, b, more, d, size, term)
<1>1. Kept(a, b, more)
  BY KeptMore DEF Computes
<1> QED
  BY <1>1 DEF Computes

\* What survives a move to a register and an operand in another one.
LEMMA MovedKeeps ==
    ASSUME NEW a, NEW x, NEW r, NEW s, NEW size, NEW o, NEW n \in Nat, NEW term,
           IsMachine(a), Moved(a, x, r, s, size), Holds(a, o, n, term), o # r
    PROVE  Holds(x, o, n, term)
BY HoldsKept DEF Moved

LEMMA MulInRax ==
    ASSUME NEW a, NEW i, Ready(a), ~Dead(EmitMul(a, i)), i.ds = 1, i.as = 1, i.bs = 1,
           i.d \in Regs \cup Slots, i.a \in Anything, i.b \in Regs \cup Slots \cup Imms,
           i.b # "rax",
           Holds(a, i.a, i.as, <<i.a>>), Holds(a, i.b, i.bs, <<i.b>>)
    PROVE  Computes(a, EmitMul(a, i), ({i.d} \cup {"rax"}) \cup Reserved, i.d, i.ds,
                    <<i.op, <<i.a>>, <<i.b>>>>)
<1> DEFINE x == MovOperandToReg(a, "rax", i.a, i.as)
           src == Ensure(x, i.b, i.bs)
           term == <<i.op, Read(src.m, "rax", 1), Read(src.m, src.reg, 1)>>
           prod == Check(Write(src.m, "rax", 1, term), "mul", "rax", src.reg)
           b == Free(MovRegToOperand(prod, i.d, "rax", 1), src.reg)
           lost == ({i.d} \cup {"rax"}) \cup Reserved
           result == <<i.op, <<i.a>>, <<i.b>>>>
<1>0. EmitMul(a, i) = b
  BY DEF EmitMul, Operate
<1>d. ~Dead(src.m)
  <2>1. ~Dead(b)
    BY <1>0
  <2> HIDE DEF src
  <2> QED
    BY <2>1, DeadFree, DeadMove, DeadWrite, DeadCheck
<1>1. /\ "rax" \in Regs /\ "rax" \in Registers /\ IsMachine(a)
      /\ i.a \in Registers \cup Memory \cup Literals /\ 1 \in 0..8 /\ 1 \in Nat
      /\ i.b \in Regs \cup Memory \cup Literals
      /\ i.d \in Regs \cup Memory
  BY Kinds DEF Anything, Registers, Ready, Memory, Literals
<1>2. Moved(a, x, "rax", i.a, i.as)
  BY <1>1, MovOperandToRegDoes
<1>3. Holds(x, "rax", 1, <<i.a>>) /\ Holds(x, i.b, i.bs, <<i.b>>)
  <2>1. Holds(x, "rax", 1, <<i.a>>)
    BY <1>2 DEF Moved
  <2>2. i.bs \in Nat
    BY <1>1
  <2> QED
    BY <1>1, <1>2, <2>1, <2>2, MovedKeeps
<1> HIDE DEF x
<1>4. Ready(x) /\ Kept(a, x, {"rax"}) /\ x.busy = a.busy
  BY <1>2 DEF Moved, Ready
<1>5. Ensured(x, src, i.b, i.bs)
  BY <1>1, <1>4, <1>d, EnsureDoes DEF Ready
<1> HIDE DEF src
<1>6. /\ IsMachine(src.m) /\ Kept(x, src.m, Reserved)
      /\ src.m.ok /\ src.m.busy \ {src.reg} = a.busy /\ src.reg \in Registers
      /\ Holds(src.m, src.reg, i.bs, <<i.b>>)
      /\ Holds(src.m, "rax", 1, <<i.a>>)
  <2>1. i.bs \in 0..8 /\ "rax" \in Regs \cup Memory \cup Literals
    BY <1>1
  <2> QED
    BY <1>1, <1>3, <1>4, <1>5, <2>1, OneEnsured
<1>7. term = result
  <2>1. Holds(src.m, src.reg, 1, <<i.b>>)
    BY <1>6
  <2> QED
    BY <1>1, <1>6, <2>1, ReadHolds
<1>8. Kept(a, src.m, lost)
  <2>1. Kept(a, src.m, {"rax"} \cup Reserved)
    BY <1>1, <1>4, <1>6, KeptTrans
  <2> QED
    BY <2>1, KeptMore
<1>9. Encodable("mul", "rax", src.reg)
  <2>1. src.reg \notin Memory /\ src.reg \notin LongImms /\ src.reg # NullReg
        /\ "rax" \notin Literals \cup {NullReg} /\ "rax" \notin Memory
    BY <1>1, <1>6, Kinds DEF Literals
  <2> QED
    BY <2>1 DEF Encodable
<1>10. "rax" \in lost \cap Places /\ i.d \in lost
  BY <1>1, Kinds
<1> HIDE DEF term, result, lost
<1>11. Wrote(a, src.m, prod, lost, "rax", 1, term)
  BY ONLY <1>1, <1>6, <1>8, <1>9, <1>10, ThenCheckedWrite DEF prod
<1> HIDE DEF prod
<1>12. /\ Kept(a, prod, lost) /\ IsMachine(prod) /\ Holds(prod, "rax", 1, term)
       /\ prod.ok /\ prod.busy \ {src.reg} = a.busy
  BY <1>6, <1>11 DEF Wrote
<1>13. Computes(a, b, lost, i.d, 1, term)
  BY ONLY <1>1, <1>10, <1>12, SettledOnce
<1> QED
  BY <1>0, <1>7, <1>13 DEF lost, result

LEMMA MulInRegister ==
    ASSUME NEW a, NEW i, Ready(a), i.ds \in 0..8, i.as = i.ds, i.bs = i.ds,
           i.d \in Regs \cup Slots, i.a \in Anything, i.b \in Regs \cup Slots \cup Imms,
           i.d # i.b, NEW b, ~Dead(b),
           Holds(a, i.a, i.as, <<i.a>>), Holds(a, i.b, i.bs, <<i.b>>),
           b = LET dest == Ensure(a, i.d, i.ds)
                   src == Ensure(dest.m, i.b, i.bs)
                   prod == Operate(MovOperandToReg(src.m, dest.reg, i.a, i.as),
                                   "imul", i.op, dest.reg, src.reg, i.ds)
               IN Free(Free(MovRegToOperand(prod, i.d, dest.reg, i.ds), dest.reg),
                       src.reg)
    PROVE  Computes(a, b, {i.d} \cup Reserved, i.d, i.ds, <<i.op, <<i.a>>, <<i.b>>>>)
<1> DEFINE dest == Ensure(a, i.d, i.ds)
           src == Ensure(dest.m, i.b, i.bs)
           x == MovOperandToReg(src.m, dest.reg, i.a, i.as)
           term == <<i.op, Read(x, dest.reg, i.ds), Read(x, src.reg, i.ds)>>
           prod == Check(Write(x, dest.reg, i.ds, term), "imul", dest.reg, src.reg)
           lost == {i.d} \cup Reserved
           result == <<i.op, <<i.a>>, <<i.b>>>>
<1>0. b = Free(Free(MovRegToOperand(prod, i.d, dest.reg, i.ds), dest.reg), src.reg)
  BY DEF Operate
<1>d. ~Dead(dest.m) /\ ~Dead(src.m)
  <2> HIDE DEF dest
  <2>1. ~Dead(x)
    <3> HIDE DEF x, src
    <3> QED
      BY <1>0, DeadFree, DeadMove, DeadWrite, DeadCheck
  <2>2. ~Dead(src.m)
    <3> HIDE DEF src
    <3> QED
      BY <2>1, DeadMove
  <2> QED
    BY <2>2, DeadEnsure
<1>1. /\ i.ds \in Nat /\ i.as \in 0..8 /\ i.bs \in 0..8 /\ IsMachine(a)
      /\ i.a \in Registers \cup Memory \cup Literals
      /\ i.a \in Regs \cup Memory \cup Literals
      /\ i.b \in Regs \cup Memory \cup Literals
      /\ i.d \in Regs \cup Memory \cup Literals /\ i.d \in Regs \cup Memory
  BY DEF Anything, Registers, Ready, Memory, Literals
<1>2. Ensured(a, dest, i.d, i.ds)
  BY <1>1, <1>d, EnsureDoes DEF Ready
<1>3. IsMachine(dest.m)
  BY <1>1, <1>2, OneEnsured
<1> HIDE DEF dest
<1>4. Ensured(dest.m, src, i.b, i.bs)
  BY <1>1, <1>3, <1>d, EnsureDoes
<1> HIDE DEF src
<1>5. BothEnsured(a, dest, src, i.d, i.ds, i.b, i.bs)
  BY ONLY <1>1, <1>2, <1>4, TwoEnsured, Ready(a), i.ds \in 0..8
<1>6. /\ IsMachine(src.m) /\ Kept(a, src.m, lost)
      /\ src.m.ok /\ (src.m.busy \ {dest.reg}) \ {src.reg} = a.busy
      /\ dest.reg \in Registers /\ src.reg \in Registers /\ dest.reg # src.reg
      /\ dest.reg \in lost
      /\ Holds(src.m, src.reg, i.bs, <<i.b>>)
      /\ Holds(src.m, i.a, i.as, <<i.a>>)
  <2>1. i.as \in Nat
    BY <1>1
  <2> QED
    BY <1>1, <1>5, <2>1, KeptMore DEF BothEnsured
<1>7. Moved(src.m, x, dest.reg, i.a, i.as)
  BY <1>1, <1>6, MovOperandToRegDoes
<1>8. Holds(x, dest.reg, i.ds, <<i.a>>) /\ Holds(x, src.reg, i.ds, <<i.b>>)
  <2>1. Holds(x, dest.reg, i.ds, <<i.a>>)
    BY <1>6, <1>7 DEF Moved
  <2>2. Holds(src.m, src.reg, i.ds, <<i.b>>) /\ i.ds \in Nat
    BY <1>1, <1>6
  <2>3. src.reg # dest.reg /\ IsMachine(src.m)
    BY <1>6
  <2> QED
    BY ONLY <1>7, <2>1, <2>2, <2>3, MovedKeeps
<1> HIDE DEF x
<1>9. IsMachine(x) /\ Kept(a, x, lost) /\ x.busy = src.m.busy /\ x.ok
  <2>1. Kept(a, x, lost \cup {dest.reg})
    BY <1>1, <1>6, <1>7, KeptTrans DEF Moved
  <2>2. lost \cup {dest.reg} = lost
    BY <1>6
  <2> QED
    BY <1>6, <1>7, <2>1, <2>2 DEF Moved
<1>10. term = result
  BY <1>1, <1>8, <1>9, ReadHolds
<1>11. Encodable("imul", dest.reg, src.reg)
  <2>1. src.reg \notin Memory /\ src.reg \notin LongImms /\ src.reg # NullReg
        /\ dest.reg \notin Literals \cup {NullReg} /\ dest.reg \notin Memory
    BY <1>6, Kinds DEF Literals
  <2> QED
    BY <2>1 DEF Encodable
<1>12. dest.reg \in lost \cap Places /\ i.d \in lost
  BY <1>6, Kinds
<1> HIDE DEF term, result, lost
<1>13. Wrote(a, x, prod, lost, dest.reg, i.ds, term)
  BY ONLY <1>1, <1>9, <1>11, <1>12, ThenCheckedWrite DEF prod
<1> HIDE DEF prod
<1>14. /\ Kept(a, prod, lost) /\ IsMachine(prod) /\ Holds(prod, dest.reg, i.ds, term)
       /\ prod.ok /\ (prod.busy \ {dest.reg}) \ {src.reg} = a.busy
  BY <1>6, <1>9, <1>13 DEF Wrote
<1>15. Computes(a, b, lost, i.d, i.ds, term)
  BY ONLY <1>0, <1>1, <1>6, <1>12, <1>14, Settled, i.ds \in 0..8
<1> QED
  BY <1>10, <1>15 DEF lost, result

LEMMA MulComputes ==
    ASSUME NEW a, NEW i, Ready(a), ~Dead(EmitMul(a, i)), i.op = "mul",
           i.d \in Regs \cup Slots, i.a \in Anything, i.b \in Regs \cup Slots \cup Imms,
           i.ds \in 0..8, i.as = i.ds, i.bs = i.ds, i.d # i.b,
           i.d = i.a => i.d \in Regs,
           i.ds = 1 => i.b # "rax",
           Holds(a, i.a, i.as, <<i.a>>), Holds(a, i.b, i.bs, <<i.b>>)
    PROVE  Computes(a, EmitMul(a, i), ({i.d} \cup Clobbers(i)) \cup Reserved,
                    i.d, i.ds, Meaning(i))
<1> DEFINE lost == ({i.d} \cup Clobbers(i)) \cup Reserved
           result == <<i.op, <<i.a>>, <<i.b>>>>
           b == EmitMul(a, i)
<1>1. Meaning(i) = result
  BY BinaryMeaning
<1>2. {i.d} \cup Reserved \subseteq lost
  OBVIOUS
<1>3. CASE i.ds = 1
  <2>1. Clobbers(i) = {"rax"}
    BY <1>3 DEF Clobbers, Division
  <2>2. Computes(a, b, ({i.d} \cup {"rax"}) \cup Reserved, i.d, i.ds, result)
    BY <1>3, MulInRax
  <2> QED
    BY <1>1, <2>1, <2>2
<1>4. CASE i.ds # 1 /\ i.d = i.a
  <2>1. b = OperateInPlace(a, "imul", i)
    BY <1>4 DEF EmitMul
  <2>2. /\ IsMachine(a) /\ Kept(a, a, lost) /\ i.d \in lost /\ Reserved \subseteq lost
        /\ i.d \in Regs \/ (i.d \in Slots /\ "imul" = "add")
        /\ "imul" \in {"add", "imul"} /\ Holds(a, i.d, i.ds, <<i.a>>)
    BY <1>4, KeptSelf DEF Ready
  <2> HIDE DEF lost, b
  <2>3. Computes(a, OperateInPlace(a, "imul", i), lost, i.d, i.ds,
                 <<i.op, <<i.a>>, <<i.b>>>>)
    BY <2>1, <2>2, InPlaceComputes DEF b
  <2> QED
    BY <1>1, <2>1, <2>3 DEF lost, b
<1>5. CASE /\ i.ds # 1 /\ i.d # i.a
           /\ i.d \in Regs /\ i.a \in Regs \cup Slots /\ i.b \in Literals /\ i.bs <= 4
  <2> DEFINE term == <<i.op, Read(a, i.a, i.ds), Read(a, i.b, i.ds)>>
             w == Check(Write(a, i.d, i.ds, term), "imul", i.d, i.b)
  <2>1. b = w
    BY <1>5 DEF EmitMul
  <2>2. i.ds \in Nat /\ IsMachine(a) /\ Kept(a, a, {i.d} \cup Reserved)
        /\ i.d \in ({i.d} \cup Reserved) \cap Places
    BY <1>5, KeptSelf, Kinds DEF Ready, Registers
  <2>3. term = result
    <3>1. Holds(a, i.a, i.ds, <<i.a>>) /\ Holds(a, i.b, i.ds, <<i.b>>)
      OBVIOUS
    <3> QED
      BY <2>2, <3>1, ReadHolds
  <2>4. Encodable("imul", i.d, i.b)
    <3>1. i.b \notin Memory /\ i.b \notin LongImms /\ i.b # NullReg
          /\ i.d \notin Literals \cup {NullReg} /\ i.d \notin Memory
      <4>1. i.b \in Imms
        BY <1>5, Kinds DEF Memory, Registers
      <4> QED
        BY <1>5, <4>1, Kinds, EmitterAssumption DEF Literals, Registers
    <3> QED
      BY <3>1 DEF Encodable
  <2> HIDE DEF term, result
  <2>5. Wrote(a, a, w, {i.d} \cup Reserved, i.d, i.ds, term)
    BY <2>2, <2>4, ThenCheckedWrite
  <2>6. Computes(a, w, {i.d} \cup Reserved, i.d, i.ds, term)
    BY <2>5 DEF Wrote, Computes, Ready
  <2> HIDE DEF w, b, lost
  <2>7. Computes(a, w, lost, i.d, i.ds, term)
    BY <1>2, <2>6, ComputesMore
  <2> QED
    BY <1>1, <2>1, <2>3, <2>7 DEF lost, b
<1>6. CASE /\ i.ds # 1 /\ i.d # i.a
           /\ ~(i.d \in Regs /\ i.a \in Regs \cup Slots /\ i.b \in Literals /\ i.bs <= 4)
  <2>1. b = LET dest == Ensure(a, i.d, i.ds)
                src == Ensure(dest.m, i.b, i.bs)
                prod == Operate(MovOperandToReg(src.m, dest.reg, i.a, i.as),
                                "imul", i.op, dest.reg, src.reg, i.ds)
            IN Free(Free(MovRegToOperand(prod, i.d, dest.reg, i.ds), dest.reg),
                    src.reg)
    BY <1>6 DEF EmitMul
  <2>d. ~Dead(b)
    OBVIOUS
  <2> HIDE DEF b, lost
  <2>2. Computes(a, b, {i.d} \cup Reserved, i.d, i.ds, <<i.op, <<i.a>>, <<i.b>>>>)
    BY <2>1, <2>d, MulInRegister
  <2>3. Computes(a, b, lost, i.d, i.ds, <<i.op, <<i.a>>, <<i.b>>>>)
    BY <1>2, <2>2, ComputesMore
  <2> QED
    BY <1>1, <2>3 DEF lost, b
<1> QED
  BY <1>3, <1>4, <1>5, <1>6

LEMMA ShiftComputes ==
    ASSUME NEW a, NEW i, Ready(a), ~Dead(EmitShift(a, i)), i.op = "shl",
           i.d \in Regs, i.a \in Anything, i.b \in Regs \cup Slots \cup Imms,
           i.ds \in 1..8, i.as = i.ds, i.bs = i.ds, i.d # i.b,
           i.b \notin Literals => i.d # "rcx",
           Holds(a, i.a, i.as, <<i.a>>), Holds(a, i.b, i.bs, <<i.b>>)
    PROVE  Computes(a, EmitShift(a, i), ({i.d} \cup Clobbers(i)) \cup Reserved,
                    i.d, i.ds, Meaning(i))
<1> DEFINE lost == ({i.d} \cup Clobbers(i)) \cup Reserved
           result == <<i.op, <<i.a>>, <<i.b>>>>
           moved == EmitMove(a, i)
           b == EmitShift(a, i)
<1>1. Meaning(i) = result
  BY BinaryMeaning
<1>2. /\ i.ds \in Nat /\ i.ds \in 0..8 /\ i.as \in 0..8 /\ i.bs \in 0..8 /\ i.bs \in Nat
      /\ i.ds <= i.as
      /\ 1 \in Nat /\ 1 <= i.bs
      /\ IsMachine(a) /\ i.d \in Regs \cup Memory
      /\ i.b \in Registers \cup Memory \cup Literals
      /\ i.d \in lost \cap Places /\ {i.d} \cup Reserved \subseteq lost
  BY Kinds DEF Ready, Registers, Memory, Literals
<1>d. ~Dead(moved)
  <2> HIDE DEF moved
  <2>1. b = IF i.b \in Literals THEN Operate(moved, "sal", i.op, i.d, i.b, i.ds)
            ELSE LET count == MovOperandToReg(moved, "rcx", i.b, i.bs) IN
                 Check(Write(count, i.d, i.ds,
                             <<i.op, Read(count, i.d, i.ds), Read(count, "rcx", 1)>>),
                       "sal", i.d, "rcx")
    BY DEF moved, EmitShift
  <2> HIDE DEF b
  <2>2. ~Dead(b)
    BY DEF b
  <2> QED
    BY <2>1, <2>2, DeadMove, DeadWrite, DeadCheck DEF Operate
<1>3. Computes(a, moved, {i.d} \cup Reserved, i.d, i.ds, <<i.a>>)
  BY ONLY <1>2, <1>d, MoveComputes, Ready(a), i.a \in Anything, Holds(a, i.a, i.as, <<i.a>>)
<1>4. IsMachine(moved) /\ moved.ok /\ moved.busy = a.busy /\ Kept(a, moved, {i.d} \cup Reserved)
      /\ Holds(moved, i.d, i.ds, <<i.a>>)
  BY <1>3 DEF Computes
<1>5. Kept(a, moved, lost)
  BY <1>2, <1>4, KeptMore
<1>6. Holds(moved, i.b, i.bs, <<i.b>>)
  <2>1. i.b \notin {i.d} \cup Reserved
    BY Kinds DEF Registers, Memory, Literals
  <2> QED
    BY <1>2, <1>4, <2>1, HoldsKept
<1> HIDE DEF moved
<1>7. i.d \notin Literals \cup {NullReg} /\ i.d \notin Memory
  BY Kinds DEF Registers
<1>8. CASE i.b \in Literals
  <2> DEFINE term == <<i.op, Read(moved, i.d, i.ds), Read(moved, i.b, i.ds)>>
             w == Check(Write(moved, i.d, i.ds, term), "sal", i.d, i.b)
  <2>1. b = w
    BY <1>8 DEF EmitShift, Operate, moved
  <2>2. term = result
    <3>1. Holds(moved, i.b, i.ds, <<i.b>>)
      BY <1>6
    <3> QED
      BY <1>2, <1>4, <3>1, ReadHolds
  <2>3. Encodable("sal", i.d, i.b)
    <3>1. i.b \in Imms
      BY <1>8, Kinds DEF Memory, Registers
    <3>2. i.b \notin Memory /\ i.b \notin LongImms /\ i.b # NullReg
      BY <1>8, <3>1, Kinds, EmitterAssumption DEF Literals, Registers
    <3> QED
      BY <1>7, <3>2 DEF Encodable
  <2> HIDE DEF term, result, lost
  <2>4. Wrote(a, moved, w, lost, i.d, i.ds, term)
    BY <1>2, <1>4, <1>5, <2>3, ThenCheckedWrite
  <2>5. Computes(a, w, lost, i.d, i.ds, term)
    BY <1>4, <2>4 DEF Wrote, Computes
  <2> HIDE DEF w, b
  <2> QED
    BY <1>1, <2>1, <2>2, <2>5 DEF b, lost
<1>9. CASE i.b \notin Literals
  <2> DEFINE count == MovOperandToReg(moved, "rcx", i.b, i.bs)
             term == <<i.op, Read(count, i.d, i.ds), Read(count, "rcx", 1)>>
             w == Check(Write(count, i.d, i.ds, term), "sal", i.d, "rcx")
  <2>1. b = w
    BY <1>9 DEF EmitShift, moved
  <2>2. "rcx" \in lost /\ "rcx" \in Registers
    BY <1>9, Kinds DEF Clobbers, Division, Registers
  <2>3. Moved(moved, count, "rcx", i.b, i.bs)
    BY <1>2, <1>4, <2>2, MovOperandToRegDoes
  <2> HIDE DEF count
  <2>4. /\ IsMachine(count) /\ count.busy = a.busy /\ count.ok
        /\ Kept(moved, count, {"rcx"})
        /\ Holds(count, "rcx", i.bs, <<i.b>>)
    BY <1>4, <1>6, <2>3 DEF Moved
  <2>5. Holds(count, "rcx", 1, <<i.b>>)
    BY <1>2, <2>4, HoldsLess
  <2>6. Holds(count, i.d, i.ds, <<i.a>>)
    BY ONLY <1>2, <1>4, <1>9, <2>3, MovedKeeps, i.b \notin Literals => i.d # "rcx"
  <2>7. term = result
    BY <1>2, <2>4, <2>5, <2>6, ReadHolds
  <2>8. Kept(a, count, lost)
    <3>1. Kept(a, count, lost \cup {"rcx"})
      BY <1>2, <1>5, <2>4, KeptTrans
    <3>2. lost \cup {"rcx"} = lost
      BY <2>2
    <3> QED
      BY <3>1, <3>2
  <2>9. Encodable("sal", i.d, "rcx")
    <3>1. "rcx" \notin Memory /\ "rcx" \notin LongImms /\ "rcx" # NullReg
      BY <2>2, Kinds DEF Literals
    <3> QED
      BY <1>7, <3>1 DEF Encodable
  <2> HIDE DEF term, result, lost
  <2>10. Wrote(a, count, w, lost, i.d, i.ds, term)
    BY <1>2, <2>4, <2>8, <2>9, ThenCheckedWrite
  <2>11. Computes(a, w, lost, i.d, i.ds, term)
    BY <2>4, <2>10 DEF Wrote, Computes
  <2> HIDE DEF w, b
  <2> QED
    BY <1>1, <2>1, <2>7, <2>11 DEF b, lost
<1> QED
  BY <1>8, <1>9

LEMMA ReturnComputes ==
    ASSUME NEW a, NEW i, Ready(a), i.op = "ret", i.d = "rax", i.a \in Anything,
           i.ds \in 0..8, i.as = i.ds, Holds(a, i.a, i.as, <<i.a>>)
    PROVE  Computes(a, EmitReturn(a, i), {i.d} \cup Reserved, i.d, i.ds, Meaning(i))
<1> DEFINE b == EmitReturn(a, i)
<1>1. /\ "rax" \in Registers /\ i.a \in Registers \cup Memory \cup Literals
      /\ IsMachine(a) /\ i.as \in 0..8
  BY Kinds DEF Registers, Anything, Ready
<1>2. Moved(a, b, "rax", i.a, i.as)
  BY <1>1, MovOperandToRegDoes DEF EmitReturn
<1> HIDE DEF b
<1>3. Kept(a, b, {i.d} \cup Reserved)
  BY <1>2, KeptMore DEF Moved
<1>4. Holds(b, i.d, i.ds, <<i.a>>)
  BY <1>2 DEF Moved
<1>5. Meaning(i) = <<i.a>>
  BY DEF Meaning
<1> QED
  BY <1>2, <1>3, <1>4, <1>5 DEF b, Moved, Computes, Ready

\* The machine in front of the division itself: the dividend is in rax, its sign
\* in rdx unless the division is one of bytes, and the divisor in a register.
Dividing(a, x, i, reg, size, byte) ==
    /\ IsMachine(x) /\ Kept(a, x, ({i.d} \cup {"rax", "rdx"}) \cup Reserved)
    /\ x.ok /\ x.busy \ {reg} = a.busy /\ reg \in Registers \ {"rax", "rdx"}
    /\ Holds(x, "rax", size, <<i.a>>)
    /\ byte \/ Holds(x, "rdx", size, <<"sign", <<i.a>>>>)
    /\ Holds(x, reg, size, <<i.b>>)

\* The dividend is in rax, and its sign in rdx.
Extended(a, x, i, size, byte) ==
    /\ Ready(x) /\ x.busy = a.busy /\ Kept(a, x, ({i.d} \cup {"rax", "rdx"}) \cup Reserved)
    /\ Holds(x, "rax", size, <<i.a>>)
    /\ byte \/ Holds(x, "rdx", size, <<"sign", <<i.a>>>>)
    /\ Holds(x, i.b, i.bs, <<i.b>>)

LEMMA DividendDoes ==
    ASSUME NEW a, NEW i, NEW size, NEW byte, Ready(a), i.op \in Division,
           i.d \in Regs \cup Slots, i.a \in Anything, i.b \in Anything,
           i.ds \in 1..8, i.as = i.ds, i.bs = i.ds, i.d # i.b,
           byte = (i.ds = 1 /\ i.op = "div"),
           size = IF i.ds = 1 /\ i.op = "mod" THEN 2 ELSE i.ds,
           {i.d, i.b} \cap {"rax", "rdx"} = {},
           Holds(a, i.a, i.as, <<i.a>>), Holds(a, i.b, i.bs, <<i.b>>),
           ~Dead(IF i.d = i.a THEN a ELSE EmitMove(a, i))
    PROVE  LET copied == IF i.d = i.a THEN a ELSE EmitMove(a, i)
               low == IF size = 2 THEN Write(copied, "rax", 2, Read(copied, i.d, 1))
                      ELSE MovOperandToReg(copied, "rax", i.d, i.ds)
               high == IF byte THEN low
                       ELSE Write(low, "rdx", size, <<"sign", Read(low, "rax", size)>>)
           IN Extended(a, high, i, size, byte)
<1> DEFINE lost == ({i.d} \cup {"rax", "rdx"}) \cup Reserved
           copied == IF i.d = i.a THEN a ELSE EmitMove(a, i)
           low == IF size = 2 THEN Write(copied, "rax", 2, Read(copied, i.d, 1))
                  ELSE MovOperandToReg(copied, "rax", i.d, i.ds)
           high == IF byte THEN low
                   ELSE Write(low, "rdx", size, <<"sign", Read(low, "rax", size)>>)
<1>1. /\ i.ds \in 0..8 /\ i.ds \in Nat /\ i.bs \in Nat /\ size \in Nat /\ IsMachine(a)
      /\ i.d \in Regs \cup Memory /\ i.d \in Registers \cup Memory \cup Literals
      /\ {"rax", "rdx"} \subseteq Registers \cap Places /\ "rax" # "rdx"
  BY Kinds DEF Ready, Registers, Memory
<1>2. Computes(a, copied, {i.d} \cup Reserved, i.d, i.ds, <<i.a>>)
  BY <1>1, FirstOperandMoved
<1> HIDE DEF copied
<1>3. /\ IsMachine(copied) /\ copied.ok /\ copied.busy = a.busy
      /\ Kept(a, copied, {i.d} \cup Reserved) /\ Holds(copied, i.d, i.ds, <<i.a>>)
  BY <1>2 DEF Computes
<1>4. Holds(copied, i.b, i.bs, <<i.b>>)
  <2>1. i.b \notin {i.d} \cup Reserved
    BY Kinds DEF Registers, Anything
  <2> QED
    BY <1>1, <1>3, <2>1, HoldsKept
<1>5. /\ IsMachine(low) /\ Kept(copied, low, {"rax"}) /\ low.ok /\ low.busy = a.busy
      /\ Holds(low, "rax", size, <<i.a>>)
  <2>1. CASE size = 2
    <3> DEFINE term == Read(copied, i.d, 1)
    <3>1. Holds(copied, i.d, 1, <<i.a>>) /\ 1 \in Nat /\ 2 \in Nat
      BY <1>1, <1>3, HoldsLess
    <3>2. term = <<i.a>>
      BY <1>3, <3>1, ReadHolds
    <3> HIDE DEF term
    <3> DEFINE w == Write(copied, "rax", 2, term)
    <3>3. /\ Kept(copied, w, {"rax"}) /\ IsMachine(w)
          /\ w.busy = copied.busy /\ w.ok = copied.ok /\ Holds(w, "rax", 2, term)
      BY <1>1, <1>3, <3>1, WriteKeeps
    <3>4. low = w
      BY <2>1 DEF term
    <3> HIDE DEF w, low
    <3> QED
      BY <1>3, <2>1, <3>2, <3>3, <3>4
  <2>2. CASE size # 2
    <3> DEFINE w == MovOperandToReg(copied, "rax", i.d, i.ds)
    <3>1. Moved(copied, w, "rax", i.d, i.ds)
      BY <1>1, <1>3, MovOperandToRegDoes
    <3>2. low = w /\ size = i.ds
      BY <2>2
    <3> HIDE DEF w, low
    <3> QED
      BY <1>3, <3>1, <3>2 DEF Moved
  <2> QED
    BY <2>1, <2>2
<1> HIDE DEF low
<1>6. Kept(a, low, lost)
  <2>1. Kept(a, low, ({i.d} \cup Reserved) \cup {"rax"})
    BY <1>1, <1>3, <1>5, KeptTrans
  <2> QED
    BY <2>1, KeptMore
<1>7. Holds(low, i.b, i.bs, <<i.b>>)
  <2>1. i.b \notin {"rax"}
    OBVIOUS
  <2> QED
    BY <1>1, <1>3, <1>4, <1>5, <2>1, HoldsKept
<1>8. CASE byte
  <2>1. high = low
    BY <1>8
  <2> HIDE DEF high
  <2> QED
    BY <1>5, <1>6, <1>7, <1>8, <2>1 DEF Extended, Ready, high, low, copied
<1>9. CASE ~byte
  <2> DEFINE term == <<"sign", Read(low, "rax", size)>>
             w == Write(low, "rdx", size, term)
  <2>1. term = <<"sign", <<i.a>>>>
    BY <1>1, <1>5, ReadHolds
  <2> HIDE DEF term
  <2>2. /\ Kept(low, w, {"rdx"}) /\ IsMachine(w)
        /\ w.busy = low.busy /\ w.ok = low.ok /\ Holds(w, "rdx", size, term)
    <3>1. "rdx" \in Places /\ size \in Nat /\ IsMachine(low)
      BY <1>1, <1>5
    <3> QED
      BY ONLY <3>1, WriteKeeps DEF w
  <2>3. high = w
    BY <1>9 DEF term
  <2> HIDE DEF high, w
  <2>4. Kept(a, w, lost)
    <3>1. Kept(a, w, lost \cup {"rdx"})
      BY <1>1, <1>6, <2>2, KeptTrans
    <3> QED
      BY <3>1, KeptMore
  <2>5. Holds(w, "rax", size, <<i.a>>) /\ Holds(w, i.b, i.bs, <<i.b>>)
    <3>1. "rax" \notin {"rdx"} /\ i.b \notin {"rdx"}
      OBVIOUS
    <3> QED
      BY <1>1, <1>5, <1>7, <2>2, <3>1, HoldsKept
  <2> QED
    BY <1>5, <2>1, <2>2, <2>3, <2>4, <2>5 DEF Extended, Ready, high, low, copied
<1> QED
  BY <1>8, <1>9

\* The divisor is extended where it is, so that the upper byte it had is lost.
LEMMA DivisorDoes ==
    ASSUME NEW a, NEW x, NEW i, NEW size, NEW byte, IsMachine(a), i.op \in Division,
           i.b \in Anything, i.ds \in 1..8, i.bs = i.ds,
           size = IF i.ds = 1 /\ i.op = "mod" THEN 2 ELSE i.ds,
           i.b \notin {"rax", "rdx"},
           i.b \in Places => a.bytes[i.b] = i.bs,
           Holds(a, i.b, i.bs, <<i.b>>),
           Extended(a, x, i, size, byte), ~Dead(Ensure(x, i.b, i.bs).m)
    PROVE  LET src == Ensure(x, i.b, i.bs)
               divisor == IF size = 2 THEN Write(src.m, src.reg, 2, Read(src.m, src.reg, 1))
                          ELSE src.m
           IN Dividing(a, divisor, i, src.reg, size, byte)
<1> DEFINE lost == ({i.d} \cup {"rax", "rdx"}) \cup Reserved
           src == Ensure(x, i.b, i.bs)
           term == Read(src.m, src.reg, 1)
           w == Write(src.m, src.reg, 2, term)
           divisor == IF size = 2 THEN w ELSE src.m
<1>1. /\ i.bs \in 0..8 /\ i.bs \in Nat /\ size \in Nat
      /\ i.b \in Regs \cup Memory \cup Literals
      /\ {"rax", "rdx"} \subseteq Regs
  BY Kinds DEF Anything
<1>2. IsMachine(x) /\ Ready(x) /\ x.busy = a.busy /\ Kept(a, x, lost)
  BY DEF Extended, Ready
<1>3. Ensured(x, src, i.b, i.bs)
  BY <1>1, <1>2, EnsureDoes
<1> HIDE DEF src
<1>4. /\ IsMachine(src.m) /\ Kept(x, src.m, Reserved)
      /\ src.m.ok /\ src.m.busy \ {src.reg} = a.busy
      /\ src.reg \in Registers
      /\ i.b \in Regs => src.reg = i.b
      /\ i.b \notin Regs => src.reg \in Reserved
      /\ Holds(src.m, src.reg, i.bs, <<i.b>>)
      /\ Holds(src.m, "rax", size, <<i.a>>)
      /\ byte \/ Holds(src.m, "rdx", size, <<"sign", <<i.a>>>>)
  <2>1. /\ IsMachine(src.m) /\ Kept(x, src.m, Reserved)
        /\ src.m.ok /\ src.m.busy \ {src.reg} = a.busy
        /\ src.reg \in Registers
        /\ i.b \in Regs => src.reg = i.b
        /\ i.b \notin Regs => src.reg \in Reserved
        /\ \A t : Holds(x, i.b, i.bs, t) => Holds(src.m, src.reg, i.bs, t)
        /\ \A o \in Regs \cup Memory \cup Literals : \A n \in Nat : \A t :
              Holds(x, o, n, t) => Holds(src.m, o, n, t)
    BY <1>1, <1>2, <1>3, OneEnsured
  <2> QED
    BY <1>1, <2>1 DEF Extended
<1>5. src.reg \in Registers \ {"rax", "rdx"} /\ src.reg \in Places
  <2>1. "rax" \notin Reserved /\ "rdx" \notin Reserved
    BY Kinds
  <2> QED
    BY <1>4, <2>1, Kinds
<1>6. Kept(a, src.m, lost)
  <2>1. Kept(a, src.m, lost \cup Reserved)
    BY <1>2, <1>4, KeptTrans
  <2> QED
    BY <2>1, KeptMore
<1>7. CASE size = 2
  <2>1. Holds(src.m, src.reg, 1, <<i.b>>) /\ 1 \in Nat /\ 2 \in Nat
    BY <1>1, <1>4, HoldsLess
  <2>2. term = <<i.b>>
    BY <1>4, <2>1, ReadHolds
  <2> HIDE DEF term
  <2>3. /\ Kept(src.m, w, {src.reg}) /\ IsMachine(w)
        /\ w.busy = src.m.busy /\ w.ok = src.m.ok
        /\ Holds(w, src.reg, 2, term)
    BY <1>4, <1>5, <2>1, WriteKeeps
  <2>4. divisor = w
    BY <1>7 DEF term
  <2> HIDE DEF w, divisor
  <2>5. Holds(w, "rax", size, <<i.a>>) /\ (byte \/ Holds(w, "rdx", size, <<"sign", <<i.a>>>>))
    <3>1. "rax" \notin {src.reg} /\ "rdx" \notin {src.reg}
      BY <1>5
    <3> QED
      BY <1>1, <1>4, <2>3, <3>1, HoldsKept
  <2>6. Kept(a, w, lost)
    <3>1. Kept(a, w, lost \cup {src.reg})
      BY <1>6, <2>3, KeptTrans
    <3>2. ASSUME src.reg \notin lost
          PROVE  w.val[src.reg] = a.val[src.reg] /\ w.bytes[src.reg] >= a.bytes[src.reg]
      <4>1. src.reg = i.b /\ i.b \in Places /\ i.b \notin Literals
        BY <1>4, <1>5, <3>2, Kinds
      <4>2. a.val[i.b] = <<i.b>> /\ a.bytes[i.b] = i.bs /\ i.bs <= 2
        BY <1>7, <4>1 DEF Holds
      <4>3. w.val[i.b] = <<i.b>> /\ w.bytes[i.b] >= 2 /\ w.bytes[i.b] \in Nat
        BY <2>2, <2>3, <4>1 DEF Holds, IsMachine
      <4> QED
        BY <1>1, <4>1, <4>2, <4>3
    <3> QED
      BY <3>1, <3>2 DEF Kept
  <2> QED
    BY <1>4, <1>5, <1>7, <2>2, <2>3, <2>4, <2>5, <2>6 DEF Dividing, src, term, w, divisor
<1>8. CASE size # 2
  <2>1. divisor = src.m /\ size = i.bs
    BY <1>8
  <2> HIDE DEF divisor
  <2> QED
    BY <1>4, <1>5, <1>6, <2>1 DEF Dividing, src, term, w, divisor
<1> QED
  BY <1>7, <1>8

\* The division writes the quotient, and the remainder unless it is in rax too.
LEMMA DividedDoes ==
    ASSUME NEW a, NEW x, NEW i, NEW reg, NEW size, NEW byte, IsMachine(a),
           i.op \in Division, i.d \in Regs \cup Slots, i.ds \in 1..8,
           byte = (i.ds = 1 /\ i.op = "div"),
           size = IF i.ds = 1 /\ i.op = "mod" THEN 2 ELSE i.ds,
           Dividing(a, x, i, reg, size, byte)
    PROVE  LET dividend == Read(x, "rax", size)
               extended == byte \/ Read(x, "rdx", size) = <<"sign", dividend>>
               t == IF extended THEN dividend ELSE Garbage
               y == Read(x, reg, size)
               quotient == Write(x, "rax", size, <<"div", t, y>>)
               both == IF byte THEN quotient
                       ELSE Write(quotient, "rdx", size, <<"mod", t, y>>)
               b == MovRegToOperand(Free(both, reg), i.d,
                                    IF byte \/ i.op = "div" THEN "rax" ELSE "rdx", i.ds)
           IN Computes(a, b, ({i.d} \cup {"rax", "rdx"}) \cup Reserved, i.d, i.ds,
                       <<i.op, <<i.a>>, <<i.b>>>>)
<1> DEFINE lost == ({i.d} \cup {"rax", "rdx"}) \cup Reserved
           result == <<i.op, <<i.a>>, <<i.b>>>>
           dividend == Read(x, "rax", size)
           extended == byte \/ Read(x, "rdx", size) = <<"sign", dividend>>
           t == IF extended THEN dividend ELSE Garbage
           y == Read(x, reg, size)
           q == <<"div", t, y>>
           r == <<"mod", t, y>>
           quotient == Write(x, "rax", size, q)
           both == IF byte THEN quotient ELSE Write(quotient, "rdx", size, r)
           from == IF byte \/ i.op = "div" THEN "rax" ELSE "rdx"
           free == Free(both, reg)
           b == MovRegToOperand(free, i.d, from, i.ds)
<1>1. /\ size \in Nat /\ i.ds \in Nat /\ i.ds \in 0..8 /\ i.ds <= size
      /\ i.d \in Regs \cup Memory /\ i.d \in lost
      /\ "rax" \in lost \cap Places /\ "rdx" \in lost \cap Places
      /\ from \in Registers /\ "rax" # "rdx"
  BY Kinds DEF Registers, Memory
<1>2. /\ IsMachine(x) /\ Kept(a, x, lost) /\ x.ok /\ x.busy \ {reg} = a.busy
      /\ reg \in Registers \ {"rax", "rdx"}
  BY DEF Dividing
<1>3. dividend = <<i.a>> /\ (byte \/ Read(x, "rdx", size) = <<"sign", <<i.a>>>>)
      /\ y = <<i.b>>
  BY <1>1, <1>2, ReadHolds DEF Dividing
<1>4. q = <<"div", <<i.a>>, <<i.b>>>> /\ r = <<"mod", <<i.a>>, <<i.b>>>>
  BY <1>3
<1> HIDE DEF q, r, lost
<1>5. Wrote(a, x, quotient, lost, "rax", size, q)
  BY <1>1, <1>2, ThenWrite
<1> HIDE DEF quotient
<1>6. /\ IsMachine(quotient) /\ Kept(a, quotient, lost)
      /\ quotient.ok /\ quotient.busy = x.busy /\ Holds(quotient, "rax", size, q)
  BY <1>2, <1>5 DEF Wrote
<1>7. /\ IsMachine(both) /\ Kept(a, both, lost) /\ both.ok /\ both.busy = x.busy
      /\ Holds(both, from, size, result)
  <2>1. CASE byte
    <3>1. both = quotient /\ from = "rax" /\ result = q
      BY <1>4, <2>1
    <3> HIDE DEF both, from, result
    <3> QED
      BY <1>6, <3>1
  <2>2. CASE ~byte
    <3> DEFINE w == Write(quotient, "rdx", size, r)
    <3>1. Wrote(a, quotient, w, lost, "rdx", size, r)
      BY <1>1, <1>6, ThenWrite
    <3>2. both = w
      BY <2>2
    <3> HIDE DEF w
    <3>3. Holds(w, "rdx", size, r) /\ Holds(w, "rax", size, q)
      <4>1. "rax" \notin {"rdx"}
        OBVIOUS
      <4> QED
        BY <1>1, <1>6, <3>1, <4>1, HoldsKept DEF Wrote
    <3>4. \/ from = "rax" /\ result = q
          \/ from = "rdx" /\ result = r
      BY <1>4, <2>2 DEF Division
    <3> HIDE DEF both, from, result
    <3> QED
      BY <1>6, <3>1, <3>2, <3>3, <3>4 DEF Wrote
  <2> QED
    BY <2>1, <2>2
<1> HIDE DEF both, result, from
<1>8. Same(both, free) /\ free.ok = both.ok /\ free.busy = both.busy \ {reg}
  BY <1>7, FreeDoes
<1> HIDE DEF free
<1>9. /\ IsMachine(free) /\ Kept(a, free, lost) /\ Holds(free, from, i.ds, result)
  <2>1. Kept(a, free, lost \cup {})
    BY <1>7, <1>8, SameKept, KeptTrans
  <2>2. lost \cup {} = lost
    OBVIOUS
  <2>3. Holds(free, from, size, result) /\ IsMachine(free)
    BY <1>7, <1>8, SameKept DEF Same
  <2> QED
    BY <1>1, <2>1, <2>2, <2>3, HoldsLess
<1>10. /\ Kept(a, b, lost) /\ IsMachine(b)
       /\ b.busy = free.busy /\ b.ok = free.ok /\ Holds(b, i.d, i.ds, result)
  BY <1>1, <1>9, Delivered
<1> HIDE DEF b
<1>11. Computes(a, b, lost, i.d, i.ds, result)
  BY <1>2, <1>7, <1>8, <1>10 DEF Computes
<1> QED
  BY <1>11 DEF b, lost, result, free, both, quotient, from, q, r

LEMMA DivideComputes ==
    ASSUME NEW a, NEW i, Ready(a), ~Dead(EmitDivide(a, i)), i.op \in Division,
           i.d \in Regs \cup Slots, i.a \in Anything, i.b \in Anything,
           i.ds \in 1..8, i.as = i.ds, i.bs = i.ds, i.d # i.b,
           {i.d, i.b} \cap {"rax", "rdx"} = {},
           i.b \in Places => a.bytes[i.b] = i.bs,
           Holds(a, i.a, i.as, <<i.a>>), Holds(a, i.b, i.bs, <<i.b>>)
    PROVE  Computes(a, EmitDivide(a, i), ({i.d} \cup Clobbers(i)) \cup Reserved,
                    i.d, i.ds, Meaning(i))
<1> DEFINE byte == i.ds = 1 /\ i.op = "div"
           size == IF i.ds = 1 /\ i.op = "mod" THEN 2 ELSE i.ds
           copied == IF i.d = i.a THEN a ELSE EmitMove(a, i)
           low == IF size = 2 THEN Write(copied, "rax", 2, Read(copied, i.d, 1))
                  ELSE MovOperandToReg(copied, "rax", i.d, i.ds)
           high == IF byte THEN low
                   ELSE Write(low, "rdx", size, <<"sign", Read(low, "rax", size)>>)
           src == Ensure(high, i.b, i.bs)
           divisor == IF size = 2 THEN Write(src.m, src.reg, 2, Read(src.m, src.reg, 1))
                      ELSE src.m
           dividend == Read(divisor, "rax", size)
           extended == byte \/ Read(divisor, "rdx", size) = <<"sign", dividend>>
           t == IF extended THEN dividend ELSE Garbage
           y == Read(divisor, src.reg, size)
           quotient == Write(divisor, "rax", size, <<"div", t, y>>)
           both == IF byte THEN quotient
                   ELSE Write(quotient, "rdx", size, <<"mod", t, y>>)
           b == MovRegToOperand(Free(both, src.reg), i.d,
                                IF byte \/ i.op = "div" THEN "rax" ELSE "rdx", i.ds)
<1>1. EmitDivide(a, i) = b
  BY DEF EmitDivide
<1>d. ~Dead(copied) /\ ~Dead(src.m)
  <2>1. ~Dead(b)
    <3> HIDE DEF b
    <3> QED
      BY <1>1
  <2>2. ~Dead(src.m)
    <3> HIDE DEF src
    <3>1. ~Dead(divisor)
      <4> HIDE DEF divisor, byte, t, y
      <4> QED
        BY <2>1, DeadFree, DeadMove, DeadWrite
    <3> QED
      BY <3>1, DeadWrite
  <2> HIDE DEF byte, size
  <2>3. ~Dead(high)
    <3> HIDE DEF high
    <3> QED
      BY <2>2, DeadEnsure
  <2> HIDE DEF copied
  <2>4. ~Dead(low)
    <3> HIDE DEF low
    <3> QED
      BY <2>3, DeadWrite
  <2>5. ~Dead(copied)
    BY <2>4, DeadMove, DeadWrite
  <2> QED
    BY <2>2, <2>5
<1>2. Clobbers(i) = {"rax", "rdx"}
  BY DEF Clobbers, Division
<1>3. Meaning(i) = <<i.op, <<i.a>>, <<i.b>>>>
  <2>1. i.op \in {"less", "add", "mul", "div", "mod", "shl"}
    BY DEF Division
  <2> QED
    BY <2>1, BinaryMeaning
<1>4. byte = (i.ds = 1 /\ i.op = "div") /\ size = IF i.ds = 1 /\ i.op = "mod" THEN 2 ELSE i.ds
  OBVIOUS
<1>5. IsMachine(a)
  BY DEF Ready
<1> HIDE DEF byte, size
<1>6. Extended(a, high, i, size, byte)
  BY <1>4, <1>d, DividendDoes
<1> HIDE DEF high
<1>7. Dividing(a, divisor, i, src.reg, size, byte)
  BY <1>4, <1>5, <1>6, <1>d, DivisorDoes
<1> HIDE DEF divisor, src
<1>8. Computes(a, b, ({i.d} \cup {"rax", "rdx"}) \cup Reserved, i.d, i.ds,
               <<i.op, <<i.a>>, <<i.b>>>>)
  BY <1>4, <1>5, <1>7, DividedDoes
<1> QED
  BY <1>1, <1>2, <1>3, <1>8

-----------------------------------------------------------------------------
(* The stack.                                                              *)

\* t is s with n more words on top.
Grown(s, t, n) ==
    /\ IsStack(t) /\ Len(t) = Len(s) + n
    /\ \A k \in 1..Len(s) : t[k] = s[k]

LEMMA StackLen ==
    ASSUME NEW s, IsStack(s)
    PROVE  Len(s) \in Nat /\ DOMAIN s = 1..Len(s) /\ s = [k \in 1..Len(s) |-> s[k]]
<1>1. PICK S : s \in Seq(S)
  BY DEF IsStack
<1>2. Len(s) \in Nat /\ DOMAIN s = 1..Len(s) /\ s \in [1..Len(s) -> S]
  BY <1>1, LenProperties
<1> QED
  BY <1>2

LEMMA IsStackOf ==
    ASSUME NEW n \in Nat, NEW s, s = [k \in 1..n |-> s[k]]
    PROVE  IsStack(s) /\ Len(s) = n
<1> DEFINE S == {s[k] : k \in 1..n}
<1>1. s \in [1..n -> S]
  OBVIOUS
<1>2. s \in Seq(S)
  BY <1>1, SeqDef
<1>3. Len(s) = n
  <2>1. DOMAIN s = 1..n /\ DOMAIN s = 1..Len(s) /\ Len(s) \in Nat
    BY <1>1, <1>2, LenProperties
  <2> QED
    BY <2>1
<1> QED
  BY <1>2, <1>3 DEF IsStack

LEMMA ConcatDoes ==
    ASSUME NEW s, IsStack(s), NEW n \in Nat, NEW w, w = [k \in 1..n |-> w[k]]
    PROVE  /\ Grown(s, s \o w, n)
           /\ \A k \in 1..n : (s \o w)[Len(s) + k] = w[k]
<1>1. IsStack(w) /\ Len(w) = n
  BY IsStackOf
<1>2. PICK S : s \in Seq(S)
  BY DEF IsStack
<1>3. PICK T : w \in Seq(T)
  BY <1>1 DEF IsStack
<1>4. s \in Seq(S \cup T) /\ w \in Seq(S \cup T)
  BY <1>2, <1>3, SeqMonotonic
<1>5. /\ s \o w \in Seq(S \cup T)
      /\ Len(s \o w) = Len(s) + Len(w)
      /\ \A i \in 1 .. Len(s) + Len(w) : (s \o w)[i] =
            IF i <= Len(s) THEN s[i] ELSE w[i - Len(s)]
  BY <1>4, ConcatProperties
<1>6. Len(s) \in Nat
  BY StackLen
<1> HIDE DEF IsStack
<1>7. ASSUME NEW k \in 1..n PROVE (s \o w)[Len(s) + k] = w[k]
  <2>1. Len(s) + k \in 1..(Len(s) + Len(w)) /\ ~(Len(s) + k <= Len(s))
        /\ (Len(s) + k) - Len(s) = k
    BY <1>1, <1>6
  <2> QED
    BY <1>5, <2>1
<1>8. \A k \in 1..Len(s) : (s \o w)[k] = s[k]
  BY <1>1, <1>5, <1>6
<1>9. IsStack(s \o w)
  BY <1>5 DEF IsStack
<1> QED
  BY <1>1, <1>5, <1>7, <1>8, <1>9 DEF Grown

LEMMA CutDoes ==
    ASSUME NEW s, IsStack(s), NEW n \in Nat, n <= Len(s)
    PROVE  LET t == SubSeq(s, 1, n) IN
           IsStack(t) /\ Len(t) = n /\ \A k \in 1..n : t[k] = s[k]
<1>1. Len(s) \in Nat
  BY StackLen
<1> DEFINE t == SubSeq(s, 1, n)
<1>2. t = [k \in 1..n |-> s[k]]
  BY DEF SubSeq
<1> HIDE DEF t
<1>3. t = [k \in 1..n |-> t[k]] /\ \A k \in 1..n : t[k] = s[k]
  BY <1>2
<1>4. IsStack(t) /\ Len(t) = n
  BY <1>3, IsStackOf
<1> QED
  BY <1>3, <1>4 DEF t

LEMMA SameStack ==
    ASSUME NEW s, NEW t, IsStack(s), IsStack(t), Len(s) = Len(t),
           \A k \in 1..Len(s) : s[k] = t[k]
    PROVE  s = t
BY StackLen

\* A set as a sequence.
Enumerates(rs, S) ==
    /\ rs \in Seq(S) /\ IsInjective(rs) /\ Range(rs) = S
    /\ Len(rs) \in Nat /\ DOMAIN rs = 1..Len(rs)

LEMMA SetToSeqDoes ==
    ASSUME NEW S, IsFiniteSet(S)
    PROVE  Enumerates(SetToSeq(S), S)
<1> DEFINE n == Cardinality(S)
           rs == SetToSeq(S)
<1>1. n \in Nat /\ ExistsBijection(1..n, S)
  BY FS_CardinalityType
<1>2. \E f \in [1..n -> S] : IsInjective(f)
  BY <1>1 DEF ExistsBijection, Bijection, Injection
<1>3. rs \in [1..n -> S] /\ IsInjective(rs)
  BY <1>2 DEF SetToSeq
<1> HIDE DEF rs
<1>4. rs \in Injection(1..n, S)
  BY <1>3 DEF Injection
<1>5. Cardinality(1..n) = n
  BY <1>1, FS_Interval
<1> HIDE DEF n
<1>6. Cardinality(1..n) = Cardinality(S)
  BY <1>5 DEF n
<1>7. rs \in Surjection(1..n, S)
  BY <1>4, <1>6, FS_Injection
<1>8. Range(rs) = S
  BY <1>3, <1>7 DEF Surjection, Range
<1>9. rs \in Seq(S)
  BY <1>1, <1>3, SeqDef
<1>10. Len(rs) \in Nat /\ DOMAIN rs = 1..Len(rs)
  BY <1>9, LenProperties
<1> QED
  BY <1>3, <1>8, <1>9, <1>10 DEF rs, Enumerates

\* b differs from a on the stack only.
StackOnly(a, b) ==
    /\ IsMachine(b)
    /\ b.val = a.val /\ b.bytes = a.bytes /\ b.busy = a.busy
    /\ b.base = a.base /\ b.mem = a.mem /\ b.atCall = a.atCall
    /\ b.flag = a.flag /\ b.ok = a.ok

LEMMA StackChanged ==
    ASSUME NEW a, IsMachine(a), NEW t, IsStack(t)
    PROVE  LET b == [a EXCEPT !.stack = t] IN StackOnly(a, b) /\ b.stack = t
<1> DEFINE b == [a EXCEPT !.stack = t]
<1>1. /\ b = [f \in Fields |-> b[f]]
      /\ b.val = a.val /\ b.bytes = a.bytes /\ b.busy = a.busy
      /\ b.stack = t /\ b.base = a.base /\ b.mem = a.mem
      /\ b.atCall = a.atCall /\ b.flag = a.flag /\ b.ok = a.ok
  BY DEF IsMachine, Fields
<1> HIDE DEF b
<1>2. StackOnly(a, b)
  BY <1>1 DEF IsMachine, StackOnly
<1> QED
  BY <1>1, <1>2 DEF b

LEMMA PushAllDoes ==
    ASSUME NEW a, IsMachine(a), NEW rs, NEW S, Enumerates(rs, S)
    PROVE  LET b == PushAll(a, rs) IN
           /\ StackOnly(a, b) /\ Grown(a.stack, b.stack, Len(rs))
           /\ \A k \in 1..Len(rs) : b.stack[Len(a.stack) + k] = Read(a, rs[k], 8)
<1> DEFINE w == [k \in DOMAIN rs |-> Read(a, rs[k], 8)]
           t == a.stack \o w
<1>1. /\ w = [k \in 1..Len(rs) |-> w[k]]
      /\ \A k \in 1..Len(rs) : w[k] = Read(a, rs[k], 8)
      /\ Len(rs) \in Nat /\ IsStack(a.stack)
  BY DEF Enumerates, IsMachine
<1> HIDE DEF w
<1>2. /\ Grown(a.stack, t, Len(rs))
      /\ \A k \in 1..Len(rs) : t[Len(a.stack) + k] = w[k]
  BY <1>1, ConcatDoes
<1> HIDE DEF t
<1>3. IsStack(t)
  BY <1>2 DEF Grown
<1>4. LET b == [a EXCEPT !.stack = t] IN StackOnly(a, b) /\ b.stack = t
  BY <1>3, StackChanged
<1>5. PushAll(a, rs) = [a EXCEPT !.stack = t]
  BY DEF PushAll, t, w
<1> QED
  BY <1>1, <1>2, <1>4, <1>5

LEMMA ReserveDoes ==
    ASSUME NEW a, IsMachine(a), NEW n \in Nat
    PROVE  LET b == Reserve(a, n) IN
           StackOnly(a, b) /\ Grown(a.stack, b.stack, n)
<1> DEFINE w == [i \in 1..n |-> Garbage]
           t == a.stack \o w
<1>1. w = [k \in 1..n |-> w[k]] /\ IsStack(a.stack)
  BY DEF IsMachine
<1> HIDE DEF w
<1>2. Grown(a.stack, t, n)
  BY <1>1, ConcatDoes
<1> HIDE DEF t
<1>3. IsStack(t)
  BY <1>2 DEF Grown
<1>4. LET b == [a EXCEPT !.stack = t] IN StackOnly(a, b) /\ b.stack = t
  BY <1>3, StackChanged
<1>5. Reserve(a, n) = [a EXCEPT !.stack = t]
  BY DEF Reserve, t, w
<1> QED
  BY <1>2, <1>4, <1>5

LEMMA PushDoes ==
    ASSUME NEW a, IsMachine(a), NEW term
    PROVE  LET b == Push(a, term) IN
           /\ StackOnly(a, b) /\ Grown(a.stack, b.stack, 1)
           /\ b.stack[Len(a.stack) + 1] = term
<1> DEFINE t == Append(a.stack, term)
<1>1. PICK S : a.stack \in Seq(S)
  BY DEF IsMachine, IsStack
<1>2. a.stack \in Seq(S \cup {term}) /\ term \in S \cup {term}
  BY <1>1, SeqMonotonic
<1>3. /\ t \in Seq(S \cup {term}) /\ Len(t) = Len(a.stack) + 1
      /\ \A k \in 1..Len(a.stack) : t[k] = a.stack[k]
      /\ t[Len(a.stack) + 1] = term
  BY <1>2, AppendProperties
<1> HIDE DEF t
<1>4. IsStack(t)
  BY <1>3 DEF IsStack
<1>5. LET b == [a EXCEPT !.stack = t] IN StackOnly(a, b) /\ b.stack = t
  BY <1>4, StackChanged
<1>6. Push(a, term) = [a EXCEPT !.stack = t]
  BY DEF Push, t
<1> QED
  BY <1>3, <1>4, <1>5, <1>6 DEF Grown

\* The stack of b is that of a without its n last words.
Shrunk(a, b, n) ==
    /\ IsStack(b.stack) /\ Len(b.stack) = Len(a.stack) - n
    /\ \A k \in 1..Len(b.stack) : b.stack[k] = a.stack[k]

LEMMA DropDoes ==
    ASSUME NEW a, IsMachine(a), NEW n \in Nat, n <= Len(a.stack)
    PROVE  LET b == Drop(a, n) IN StackOnly(a, b) /\ Shrunk(a, b, n)
<1> DEFINE t == SubSeq(a.stack, 1, Len(a.stack) - n)
<1>1. IsStack(a.stack) /\ Len(a.stack) \in Nat
  BY StackLen DEF IsMachine
<1>2. Len(a.stack) - n \in Nat /\ Len(a.stack) - n <= Len(a.stack)
  BY <1>1
<1>3. IsStack(t) /\ Len(t) = Len(a.stack) - n
      /\ \A k \in 1..(Len(a.stack) - n) : t[k] = a.stack[k]
  BY <1>1, <1>2, CutDoes
<1> HIDE DEF t
<1>4. LET b == [a EXCEPT !.stack = t] IN StackOnly(a, b) /\ b.stack = t
  BY <1>3, StackChanged
<1>5. Drop(a, n) = [a EXCEPT !.stack = t]
  BY DEF Drop, t
<1> QED
  BY <1>3, <1>4, <1>5 DEF Shrunk

\* b has in the registers of rs the last words of the stack of a.
Restored(a, b, rs) ==
    /\ IsMachine(b) /\ Shrunk(a, b, Len(rs))
    /\ b.busy = a.busy /\ b.base = a.base /\ b.mem = a.mem
    /\ b.atCall = a.atCall /\ b.flag = a.flag /\ b.ok = a.ok
    /\ \A k \in 1..Len(rs) :
          /\ b.val[rs[k]] = a.stack[Len(a.stack) - Len(rs) + k]
          /\ b.bytes[rs[k]] = 8
    /\ \A p \in Places \ Range(rs) : b.val[p] = a.val[p] /\ b.bytes[p] = a.bytes[p]

LEMMA PopAllDoes ==
    ASSUME NEW a, IsMachine(a), NEW rs, NEW S \in SUBSET Places, Enumerates(rs, S),
           Len(rs) <= Len(a.stack)
    PROVE  Restored(a, PopAll(a, rs), rs)
<1> DEFINE n == Len(a.stack) - Len(rs)
           where(p) == CHOOSE k \in DOMAIN rs : rs[k] = p
           val == [p \in Places |-> IF p \in Range(rs) THEN a.stack[n + where(p)] ELSE a.val[p]]
           bytes == [p \in Places |-> IF p \in Range(rs) THEN 8 ELSE a.bytes[p]]
           t == SubSeq(a.stack, 1, n)
           b == [a EXCEPT !.val = val, !.bytes = bytes, !.stack = t]
<1>1. PopAll(a, rs) = b
  BY DEF PopAll, Popped
<1>2. IsStack(a.stack) /\ Len(a.stack) \in Nat /\ Len(rs) \in Nat
  BY StackLen DEF IsMachine, Enumerates
<1>3. n \in Nat /\ n <= Len(a.stack)
  BY <1>2
<1>4. IsStack(t) /\ Len(t) = n /\ \A k \in 1..n : t[k] = a.stack[k]
  BY <1>2, <1>3, CutDoes
<1> HIDE DEF t, val, bytes
<1>5. /\ b = [f \in Fields |-> b[f]]
      /\ b.val = val /\ b.bytes = bytes /\ b.busy = a.busy
      /\ b.stack = t /\ b.base = a.base /\ b.mem = a.mem
      /\ b.atCall = a.atCall /\ b.flag = a.flag /\ b.ok = a.ok
  BY DEF IsMachine, Fields
<1> HIDE DEF b
<1>6. IsMachine(b)
  <2>1. val = [p \in Places |-> val[p]] /\ bytes \in [Places -> Nat]
    BY DEF val, bytes, IsMachine
  <2> QED
    BY <1>4, <1>5, <2>1 DEF IsMachine
<1>7. ASSUME NEW k \in 1..Len(rs)
      PROVE  b.val[rs[k]] = a.stack[n + k] /\ b.bytes[rs[k]] = 8
  <2>1. k \in DOMAIN rs /\ rs[k] \in Range(rs) /\ rs[k] \in Places
    BY DEF Enumerates, Range
  <2>2. where(rs[k]) = k
    BY <2>1 DEF Enumerates, IsInjective
  <2> QED
    BY <1>5, <2>1, <2>2 DEF val, bytes
<1>8. \A p \in Places \ Range(rs) : b.val[p] = a.val[p] /\ b.bytes[p] = a.bytes[p]
  BY <1>5 DEF val, bytes
<1>9. Shrunk(a, b, Len(rs))
  BY <1>4, <1>5 DEF Shrunk
<1> QED
  BY <1>1, <1>5, <1>6, <1>7, <1>8, <1>9 DEF Restored

\* A compiler that has died stays dead in all that follows.
LEMMA DeadStack ==
    ASSUME NEW mm, Dead(mm)
    PROVE  /\ \A t : Dead([mm EXCEPT !.stack = t])
           /\ \A n : Dead(Drop(mm, n))
           /\ \A rs : Dead(PopAll(mm, rs))
           /\ Dead(Called(mm))
<1>1. \A t : Dead([mm EXCEPT !.stack = t])
  BY DEF Dead, Fields
<1>2. \A n : Dead(Drop(mm, n))
  BY <1>1 DEF Drop
<1>3. ASSUME NEW rs PROVE Dead(PopAll(mm, rs))
  <2>1. \A v, w, t : Dead([mm EXCEPT !.val = v, !.bytes = w, !.stack = t])
    BY DEF Dead, Fields
  <2> QED
    BY <2>1 DEF PopAll, Popped
<1>4. Dead(Called(mm))
  <2>1. \A c, v : Dead([mm EXCEPT !.atCall = c, !.val = v])
    BY DEF Dead, Fields
  <2> DEFINE at == [val |-> mm.val, stack |-> mm.stack]
             lost == [p \in Places |-> IF p \in (Regs \ CalleeSaved) \cup Reserved
                                       THEN Garbage ELSE mm.val[p]]
             val == [lost EXCEPT !["rax"] = <<"result">>]
  <2>2. Called(mm) = [mm EXCEPT !.atCall = at, !.val = val]
    BY DEF Called, Dead, Fields
  <2> HIDE DEF at, val
  <2>3. Dead([mm EXCEPT !.atCall = at, !.val = val])
    BY <2>1
  <2> QED
    BY <2>2, <2>3
<1> QED
  BY <1>1, <1>2, <1>3, <1>4

LEMMA DeadStackArgument ==
    ASSUME NEW mm, NEW k, NEW arg, NEW size, Dead(mm)
    PROVE  Dead(EmitStackArgument(mm, k, arg, size))
<1> DEFINE src == Ensure(mm, arg, size)
           t == [src.m.stack EXCEPT ![Len(mm.stack) - k] = Read(src.m, src.reg, size)]
           x == [src.m EXCEPT !.stack = t]
<1>1. EmitStackArgument(mm, k, arg, size) = Free(x, src.reg)
  BY DEF EmitStackArgument
<1>2. Dead(src.m)
  BY DeadEnsure
<1> HIDE DEF src, t
<1>3. Dead(x)
  BY <1>2, DeadStack
<1> HIDE DEF x
<1> QED
  BY <1>1, <1>3, DeadFree

\* A loop behind which the compiler lives has lived all along.
LEMMA DeadLoop ==
    ASSUME NEW n \in Nat, NEW f, \A k \in 1..n : Dead(f[k - 1]) => Dead(f[k]), ~Dead(f[n])
    PROVE  \A k \in 0..n : ~Dead(f[k])
<1> DEFINE B == {j \in 0..n : Dead(f[n - j])}
<1>1. SUFFICES ASSUME B # {} PROVE FALSE
  <2>1. ASSUME NEW k \in 0..n PROVE n - k \in 0..n /\ n - (n - k) = k
    OBVIOUS
  <2>2. \A j \in 0..n : ~Dead(f[n - j])
    BY <1>1
  <2> QED
    BY <2>1, <2>2
<1>2. PICK j \in B : \A l \in B : j <= l
  <2>1. B \in SUBSET Nat
    OBVIOUS
  <2> QED
    BY <1>1, <2>1, Least
<1>3. j \in 1..n /\ Dead(f[n - j])
  <2>1. n - 0 = n
    OBVIOUS
  <2>2. j # 0
    BY <1>2, <2>1
  <2> QED
    BY <1>2, <2>2
<1>4. j - 1 \in 0..n /\ n - (j - 1) \in 1..n /\ (n - (j - 1)) - 1 = n - j
  BY <1>3
<1>5. Dead(f[n - (j - 1)])
  BY <1>3, <1>4
<1>6. j - 1 \in B
  BY <1>4, <1>5
<1> QED
  BY <1>2, <1>3, <1>6

-----------------------------------------------------------------------------
(* Calls.                                                                  *)

\* b differs from a in reserved registers and in the words of the stack.
Filled(a, b) ==
    /\ Ready(b) /\ b.busy = a.busy
    /\ b.base = a.base /\ b.mem = a.mem /\ b.atCall = a.atCall /\ b.flag = a.flag
    /\ Len(b.stack) = Len(a.stack)
    /\ \A p \in Places \ Reserved : b.val[p] = a.val[p] /\ b.bytes[p] >= a.bytes[p]

LEMMA FilledHolds ==
    ASSUME NEW a, NEW b, Ready(a), Filled(a, b),
           NEW o \in Regs \cup Memory \cup Literals, NEW n \in Nat, NEW term,
           Holds(a, o, n, term)
    PROVE  Holds(b, o, n, term)
<1>1. \A p \in Places : a.bytes[p] \in Nat /\ b.bytes[p] \in Nat
  BY DEF Filled, Ready, IsMachine
<1>2. o \notin Reserved
  BY Kinds DEF Registers
<1> QED
  BY <1>1, <1>2 DEF Filled, Holds

\* One argument is stored in its word, and nothing else.
Stored(a, b, k, term) ==
    /\ Filled(a, b) /\ b.stack[Len(a.stack) - k] = term
    /\ \A j \in 1..Len(a.stack) : j # Len(a.stack) - k => b.stack[j] = a.stack[j]

LEMMA StackArgumentDoes ==
    ASSUME NEW a, Ready(a), NEW k \in Nat, k < Len(a.stack),
           NEW arg \in Regs \cup Memory \cup Literals, NEW size \in 0..8,
           Holds(a, arg, size, <<arg>>), ~Dead(EmitStackArgument(a, k, arg, size))
    PROVE  Stored(a, EmitStackArgument(a, k, arg, size), k, <<arg>>)
<1> DEFINE src == Ensure(a, arg, size)
           term == Read(src.m, src.reg, size)
           top == Len(a.stack) - k
           t == [src.m.stack EXCEPT ![top] = term]
           x == [src.m EXCEPT !.stack = t]
           b == Free(x, src.reg)
<1>0. EmitStackArgument(a, k, arg, size) = b
  <2>1. [src.m EXCEPT !.stack[Len(a.stack) - k] = Read(src.m, src.reg, size)] = x
    OBVIOUS
  <2> QED
    BY <2>1 DEF EmitStackArgument
<1>d. ~Dead(src.m)
  <2>1. ~Dead(b)
    <3> HIDE DEF b
    <3> QED
      BY <1>0
  <2> HIDE DEF src, t
  <2> QED
    BY <2>1, DeadStack, DeadFree
<1>1. Ensured(a, src, arg, size)
  BY <1>d, EnsureDoes DEF Ready
<1> HIDE DEF src
<1>2. /\ IsMachine(src.m) /\ Kept(a, src.m, Reserved)
      /\ src.m.ok /\ src.m.busy \ {src.reg} = a.busy
      /\ Holds(src.m, src.reg, size, <<arg>>)
  BY <1>1, OneEnsured
<1>3. term = <<arg>>
  <2>1. size \in Nat
    OBVIOUS
  <2> QED
    BY <1>2, <2>1, ReadHolds
<1>4. src.m.stack = a.stack /\ IsStack(a.stack) /\ Len(a.stack) \in Nat
  BY <1>2, StackLen DEF Kept, IsMachine
<1> HIDE DEF term
<1>5. /\ IsStack(t) /\ Len(t) = Len(a.stack) /\ t[top] = term
      /\ \A j \in 1..Len(a.stack) : j # top => t[j] = a.stack[j]
  <2>1. DOMAIN a.stack = 1..Len(a.stack) /\ a.stack = [j \in 1..Len(a.stack) |-> a.stack[j]]
        /\ top \in 1..Len(a.stack)
    BY <1>4, StackLen
  <2>2. /\ t = [j \in 1..Len(a.stack) |-> t[j]] /\ t[top] = term
        /\ \A j \in 1..Len(a.stack) : j # top => t[j] = a.stack[j]
    BY <1>4, <2>1
  <2> HIDE DEF t
  <2>3. IsStack(t) /\ Len(t) = Len(a.stack)
    BY <1>4, <2>2, IsStackOf
  <2> QED
    BY <2>2, <2>3
<1> HIDE DEF t
<1>6. StackOnly(src.m, x) /\ x.stack = t
  BY <1>2, <1>5, StackChanged
<1> HIDE DEF x
<1>7. IsMachine(x)
  BY <1>6 DEF StackOnly
<1>8. Same(x, b) /\ b.ok = x.ok /\ b.busy = x.busy \ {src.reg}
  BY <1>7, FreeDoes
<1> HIDE DEF b
<1>9. Filled(a, b)
  BY <1>2, <1>5, <1>6, <1>8 DEF Filled, Ready, Same, StackOnly, Kept
<1>10. b.stack = t
  BY <1>6, <1>8 DEF Same
<1> QED
  BY <1>0, <1>3, <1>5, <1>9, <1>10 DEF Stored

\* The last j arguments of args are in their words, and nothing else changed.
ArgumentsStored(a, b, args, j) ==
    /\ Filled(a, b)
    /\ \A k \in (Len(args) - j + 1)..Len(args) :
          b.stack[Len(a.stack) - (k - 1)] = <<args[k]>>
    /\ \A l \in 1..(Len(a.stack) - Len(args)) : b.stack[l] = a.stack[l]

LEMMA NextArgumentStored ==
    ASSUME NEW a, Ready(a), NEW b, NEW args \in Seq(Regs \cup Memory \cup Literals),
           NEW size \in 0..8, NEW j \in 1..Len(args), Len(args) <= Len(a.stack),
           \A k \in 1..Len(args) : Holds(a, args[k], size, <<args[k]>>),
           ArgumentsStored(a, b, args, j - 1),
           ~Dead(EmitStackArgument(b, Len(args) - j, args[Len(args) - j + 1], size))
    PROVE  ArgumentsStored(a, EmitStackArgument(b, Len(args) - j, args[Len(args) - j + 1], size),
                           args, j)
<1> DEFINE n == Len(args)
           L == Len(a.stack)
           k == n - j
           arg == args[k + 1]
           c == EmitStackArgument(b, k, arg, size)
<1>1. /\ n \in Nat /\ j \in Nat /\ j >= 1 /\ j <= n /\ k \in Nat /\ k + 1 \in 1..n
      /\ L \in Nat /\ n <= L /\ k < L
  BY StackLen, LenProperties DEF Ready, IsMachine
<1>2. arg \in Regs \cup Memory \cup Literals /\ Holds(a, arg, size, <<arg>>)
  BY <1>1, ElementOfSeq
<1>3. Ready(b) /\ Filled(a, b) /\ Len(b.stack) = L
  BY DEF ArgumentsStored, Filled
<1>4. Holds(b, arg, size, <<arg>>)
  <2>1. size \in Nat
    OBVIOUS
  <2> QED
    BY <1>2, <1>3, <2>1, FilledHolds
<1>5. Stored(b, c, k, <<arg>>)
  BY <1>1, <1>2, <1>3, <1>4, StackArgumentDoes
<1> HIDE DEF c
<1>6. Filled(a, c)
  <2>1. \A p \in Places : a.bytes[p] \in Nat /\ b.bytes[p] \in Nat /\ c.bytes[p] \in Nat
    BY <1>3, <1>5 DEF Stored, Filled, Ready, IsMachine
  <2>2. ASSUME NEW p \in Places \ Reserved
        PROVE  c.val[p] = a.val[p] /\ c.bytes[p] >= a.bytes[p]
    <3>1. /\ c.val[p] = b.val[p] /\ c.bytes[p] >= b.bytes[p]
          /\ b.val[p] = a.val[p] /\ b.bytes[p] >= a.bytes[p]
      BY <1>3, <1>5 DEF Stored, Filled
    <3> QED
      BY <2>1, <3>1
  <2> QED
    BY <1>3, <1>5, <2>2 DEF Stored, Filled
<1>7. ASSUME NEW q \in (n - j + 1)..n
      PROVE  c.stack[L - (q - 1)] = <<args[q]>>
  <2>1. CASE q = k + 1
    <3>1. L - (q - 1) = L - k
      BY <1>1, <2>1
    <3> QED
      BY <1>3, <1>5, <2>1, <3>1 DEF Stored
  <2>2. CASE q # k + 1
    <3>1. q \in (n - (j - 1) + 1)..n /\ L - (q - 1) \in 1..L /\ L - (q - 1) # L - k
      BY <1>1, <2>2
    <3>2. b.stack[L - (q - 1)] = <<args[q]>>
      BY <3>1 DEF ArgumentsStored
    <3> QED
      BY <1>3, <1>5, <3>1, <3>2 DEF Stored
  <2> QED
    BY <2>1, <2>2
<1>8. ASSUME NEW l \in 1..(L - n) PROVE c.stack[l] = a.stack[l]
  <2>1. l \in 1..L /\ l # L - k
    BY <1>1
  <2>2. b.stack[l] = a.stack[l]
    BY DEF ArgumentsStored
  <2> QED
    BY <1>3, <1>5, <2>1, <2>2 DEF Stored
<1> QED
  BY <1>6, <1>7, <1>8 DEF ArgumentsStored, c

\* f lists the machines in front of and behind the first l stack arguments.
Storing(a, args, size, f, l) ==
    f = [k \in 0..l |->
           IF k = 0 THEN a
           ELSE EmitStackArgument(f[k - 1], Len(args) - k, args[Len(args) - k + 1], size)]

LEMMA StoringExists ==
    ASSUME NEW a, NEW args, NEW size, NEW n \in Nat
    PROVE  \E f : Storing(a, args, size, f, n)
<1> DEFINE B == {l \in Nat : ~\E f : Storing(a, args, size, f, l)}
<1>1. SUFFICES B = {}
  OBVIOUS
<1>2. SUFFICES ASSUME B # {} PROVE FALSE
  OBVIOUS
<1>3. PICK l \in B : \A j \in B : l <= j
  <2>1. B \in SUBSET Nat
    OBVIOUS
  <2> QED
    BY <1>2, <2>1, Least
<1>4. CASE l = 0
  <2> DEFINE f == [k \in 0..0 |-> a]
  <2>1. Storing(a, args, size, f, 0)
    BY DEF Storing
  <2> QED
    BY <1>3, <1>4, <2>1
<1>5. CASE l # 0
  <2>1. l - 1 \in Nat /\ l - 1 \notin B
    BY <1>3, <1>5
  <2>2. PICK f : Storing(a, args, size, f, l - 1)
    BY <2>1
  <2> DEFINE next(g, k) == IF k = 0 THEN a
                           ELSE EmitStackArgument(g[k - 1], Len(args) - k,
                                                  args[Len(args) - k + 1], size)
             g == [k \in 0..l |-> IF k = l THEN next(f, l) ELSE f[k]]
  <2>3. f = [k \in 0..(l - 1) |-> next(f, k)]
    BY <2>2 DEF Storing
  <2> HIDE DEF next
  <2>4. \A k \in 0..l : next(g, k) = next(f, k)
    <3>1. \A k \in 1..l : g[k - 1] = f[k - 1]
      BY <1>3
    <3> QED
      BY <3>1 DEF next
  <2>5. g = [k \in 0..l |-> next(g, k)]
    <3>1. \A k \in 0..l : g[k] = next(g, k)
      <4>1. \A k \in 0..l : k # l => k \in 0..(l - 1)
        BY <1>3
      <4> QED
        BY <2>3, <2>4, <4>1
    <3> QED
      BY <3>1
  <2>6. Storing(a, args, size, g, l)
    BY <2>5 DEF Storing, next
  <2> QED
    BY <1>3, <2>6
<1> QED
  BY <1>4, <1>5

LEMMA StackArgumentsDo ==
    ASSUME NEW a, Ready(a), NEW args \in Seq(Regs \cup Memory \cup Literals),
           NEW size \in 0..8, Len(args) <= Len(a.stack),
           \A k \in 1..Len(args) : Holds(a, args[k], size, <<args[k]>>),
           ~Dead(EmitStackArguments(a, args, size))
    PROVE  ArgumentsStored(a, EmitStackArguments(a, args, size), args, Len(args))
<1> DEFINE n == Len(args)
           f == CHOOSE g : Storing(a, args, size, g, n)
<1>1. n \in Nat
  BY LenProperties
<1>2. EmitStackArguments(a, args, size) = f[n]
  BY DEF EmitStackArguments, Storing
<1>3. Storing(a, args, size, f, n)
  BY <1>1, StoringExists
<1> HIDE DEF f
<1>d. \A k \in 0..n : ~Dead(f[k])
  <2>1. ASSUME NEW k \in 1..n, Dead(f[k - 1]) PROVE Dead(f[k])
    <3>1. f[k] = EmitStackArgument(f[k - 1], Len(args) - k, args[Len(args) - k + 1], size)
      BY <1>1, <1>3 DEF Storing
    <3> QED
      BY <2>1, <3>1, DeadStackArgument
  <2> QED
    BY <1>1, <1>2, <2>1, DeadLoop
<1> DEFINE B == {j \in 0..n : ~ArgumentsStored(a, f[j], args, j)}
<1>4. SUFFICES ASSUME B # {} PROVE FALSE
  BY <1>1, <1>2
<1>5. PICK j \in B : \A l \in B : j <= l
  <2>1. B \in SUBSET Nat
    BY <1>1
  <2> QED
    BY <1>4, <2>1, Least
<1>6. CASE j = 0
  <2>1. f[0] = a
    BY <1>1, <1>3 DEF Storing
  <2>2. Filled(a, a)
    <3>1. \A p \in Places : a.bytes[p] \in Nat
      BY DEF Ready, IsMachine
    <3> QED
      BY <3>1 DEF Filled
  <2>3. (Len(args) - 0 + 1)..Len(args) = {}
    BY <1>1
  <2>4. ArgumentsStored(a, a, args, 0)
    BY <2>2, <2>3 DEF ArgumentsStored
  <2> QED
    BY <1>5, <1>6, <2>1, <2>4
<1>7. CASE j # 0
  <2>1. j \in 1..n /\ j - 1 \in 0..n /\ j - 1 \notin B
    BY <1>1, <1>5, <1>7
  <2>2. ArgumentsStored(a, f[j - 1], args, j - 1)
    BY <2>1
  <2>3. f[j] = EmitStackArgument(f[j - 1], Len(args) - j, args[Len(args) - j + 1], size)
    BY <1>1, <1>3, <2>1 DEF Storing
  <2>4. ArgumentsStored(a, f[j], args, j)
    BY <1>d, <2>1, <2>2, <2>3, NextArgumentStored
  <2> QED
    BY <1>5, <2>4
<1> QED
  BY <1>6, <1>7

\* f lists the machines in front of and behind the first l registers taken.
Taking(a, f, l) == f = [k \in 0..l |-> IF k = 0 THEN a ELSE TakeScratch(f[k - 1]).m]

LEMMA TakingExists ==
    ASSUME NEW a, NEW n \in Nat
    PROVE  \E f : Taking(a, f, n)
<1> DEFINE B == {l \in Nat : ~\E f : Taking(a, f, l)}
<1>1. SUFFICES ASSUME B # {} PROVE FALSE
  OBVIOUS
<1>2. PICK l \in B : \A j \in B : l <= j
  <2>1. B \in SUBSET Nat
    OBVIOUS
  <2> QED
    BY <1>1, <2>1, Least
<1>3. CASE l = 0
  <2> DEFINE f == [k \in 0..0 |-> a]
  <2>1. Taking(a, f, 0)
    BY DEF Taking
  <2> QED
    BY <1>2, <1>3, <2>1
<1>4. CASE l # 0
  <2>1. l - 1 \in Nat /\ l - 1 \notin B
    BY <1>2, <1>4
  <2>2. PICK f : Taking(a, f, l - 1)
    BY <2>1
  <2> DEFINE next(g, k) == IF k = 0 THEN a ELSE TakeScratch(g[k - 1]).m
             g == [k \in 0..l |-> IF k = l THEN next(f, l) ELSE f[k]]
  <2>3. f = [k \in 0..(l - 1) |-> next(f, k)]
    BY <2>2 DEF Taking
  <2> HIDE DEF next
  <2>4. \A k \in 0..l : next(g, k) = next(f, k)
    <3>1. \A k \in 1..l : g[k - 1] = f[k - 1]
      BY <1>2
    <3> QED
      BY <3>1 DEF next
  <2>5. g = [k \in 0..l |-> next(g, k)]
    <3>1. \A k \in 0..l : g[k] = next(g, k)
      <4>1. \A k \in 0..l : k # l => k \in 0..(l - 1)
        BY <1>2
      <4> QED
        BY <2>3, <2>4, <4>1
    <3> QED
      BY <3>1
  <2>6. Taking(a, g, l)
    BY <2>5 DEF Taking, next
  <2> QED
    BY <1>2, <2>6
<1> QED
  BY <1>3, <1>4

\* k reserved registers are taken in b that are free in a.
Took(a, b, k) ==
    /\ Same(a, b) /\ b.ok = a.ok /\ a.busy \subseteq b.busy
    /\ IsFiniteSet(b.busy \ a.busy) /\ Cardinality(b.busy \ a.busy) = k

LEMMA TookNext ==
    ASSUME NEW a, IsMachine(a), NEW b, NEW k \in Nat, Took(a, b, k), ~Dead(TakeScratch(b).m)
    PROVE  Took(a, TakeScratch(b).m, k + 1)
<1> DEFINE t == TakeScratch(b)
           S == b.busy \ a.busy
<1>1. IsMachine(b)
  BY DEF Took, Same
<1>2. /\ Same(b, t.m) /\ t.m.ok = b.ok
      /\ t.reg \in Reserved \ b.busy
      /\ t.m.busy = b.busy \cup {t.reg}
  BY <1>1, TakeDoes
<1> HIDE DEF t
<1>3. Same(a, t.m) /\ t.m.ok = a.ok /\ a.busy \subseteq t.m.busy
  BY <1>2 DEF Took, Same
<1>4. t.m.busy \ a.busy = S \cup {t.reg} /\ t.reg \notin S
  BY <1>2 DEF Took
<1>5. IsFiniteSet(S) /\ Cardinality(S) = k
  BY DEF Took
<1> HIDE DEF S
<1>6. IsFiniteSet(S \cup {t.reg}) /\ Cardinality(S \cup {t.reg}) = k + 1
  BY <1>4, <1>5, FS_AddElement
<1> QED
  BY <1>3, <1>4, <1>6 DEF Took, t

LEMMA TakenDoes ==
    ASSUME NEW a, NEW n \in Nat, ~Dead(Taken(a, n))
    PROVE  ~Dead(a) /\ (IsMachine(a) => Took(a, Taken(a, n), n))
<1> DEFINE f == CHOOSE g : Taking(a, g, n)
<1>1. Taken(a, n) = f[n]
  BY DEF Taken, Taking
<1>2. Taking(a, f, n)
  BY TakingExists
<1> HIDE DEF f
<1>3. f[0] = a /\ \A k \in 1..n : f[k] = TakeScratch(f[k - 1]).m
  BY <1>2 DEF Taking
<1>4. \A k \in 0..n : ~Dead(f[k])
  <2>1. \A k \in 1..n : Dead(f[k - 1]) => Dead(f[k])
    BY <1>3, DeadTake
  <2> QED
    BY <1>1, <2>1, DeadLoop
<1> DEFINE B == {j \in 0..n : ~Took(a, f[j], j)}
<1>5. ASSUME IsMachine(a), B # {} PROVE FALSE
  <2>1. PICK j \in B : \A l \in B : j <= l
    <3>1. B \in SUBSET Nat
      OBVIOUS
    <3> QED
      BY <1>5, <3>1, Least
  <2>2. CASE j = 0
    <3>1. a.busy \ a.busy = {} /\ Same(a, a)
      BY <1>5 DEF Same
    <3>2. Took(a, a, 0)
      BY <3>1, FS_EmptySet DEF Took
    <3> QED
      BY <1>3, <2>1, <2>2, <3>2
  <2>3. CASE j # 0
    <3>1. j \in 1..n /\ j - 1 \in 0..n /\ j - 1 \notin B /\ j - 1 \in Nat /\ (j - 1) + 1 = j
      BY <2>1, <2>3
    <3>2. Took(a, f[j - 1], j - 1)
      BY <3>1
    <3>3. ~Dead(TakeScratch(f[j - 1]).m) /\ f[j] = TakeScratch(f[j - 1]).m
      BY <1>3, <1>4, <3>1
    <3>4. Took(a, f[j], (j - 1) + 1)
      BY <1>5, <3>1, <3>2, <3>3, TookNext
    <3> QED
      BY <2>1, <3>1, <3>4
  <2> QED
    BY <2>2, <2>3
<1>6. IsMachine(a) => Took(a, f[n], n)
  BY <1>5
<1>7. ~Dead(a)
  BY <1>3, <1>4
<1> QED
  BY <1>1, <1>6, <1>7

LEMMA CyclesCount ==
    ASSUME NEW moves, \A v \in moves : v[1] \in Regs
    PROVE  Cardinality(Cycles(moves)) \in Nat
<1>1. Cycles(moves) \subseteq SUBSET Regs
  BY DEF Cycles
<1>2. IsFiniteSet(SUBSET Regs)
  BY EmitterAssumption, FS_SUBSET
<1> QED
  BY <1>1, <1>2, FS_Subset, FS_CardinalityType

\* Between a and b n reserved registers were taken and not given back.
Costs(a, b, n) == a.busy \subseteq b.busy /\ Cardinality(b.busy \ a.busy) = n

LEMMA CostsNothing ==
    ASSUME NEW a, NEW b, b.busy = a.busy
    PROVE  Costs(a, b, 0)
BY FS_EmptySet DEF Costs

\* Every register of moves got its operand at once, and nothing else changed.
Assigned(a, b, moves, size) ==
    /\ Ready(b) /\ Costs(a, b, Cardinality(Cycles(moves)))
    /\ b.stack = a.stack /\ b.base = a.base /\ b.mem = a.mem
    /\ b.atCall = a.atCall /\ b.flag = a.flag
    /\ \A v \in moves : /\ b.bytes[v[1]] = size
                        /\ Holds(a, v[2], size, <<v[2]>>) => b.val[v[1]] = <<v[2]>>
    /\ \A p \in Places : (\A v \in moves : v[1] # p) =>
          b.val[p] = a.val[p] /\ b.bytes[p] = a.bytes[p]

LEMMA AssignDoes ==
    ASSUME NEW a, Ready(a), NEW moves, NEW size \in 0..8,
           \A v \in moves : v[1] \in Regs,
           \A v, w \in moves : v[1] = w[1] => v[2] = w[2],
           ~Dead(Assign(a, moves, size))
    PROVE  Assigned(a, Assign(a, moves, size), moves, size)
<1> DEFINE n == Cardinality(Cycles(moves))
           t == Taken(a, n)
           val == [p \in Places |-> IF \E v \in moves : v[1] = p
                     THEN Read(a, (CHOOSE v \in moves : v[1] = p)[2], size)
                     ELSE a.val[p]]
           bytes == [p \in Places |-> IF \E v \in moves : v[1] = p THEN size ELSE a.bytes[p]]
           b == [t EXCEPT !.val = val, !.bytes = bytes]
<1>d. Took(a, t, n)
  <2> HIDE DEF n
  <2>1. n \in Nat
    BY CyclesCount DEF n
  <2>2. Dead(t) => Dead(Assign(a, moves, size))
    <3>1. \A v, w : Dead(t) => Dead([t EXCEPT !.val = v, !.bytes = w])
      <4> HIDE DEF t
      <4> QED
        BY DEF Dead, Fields
    <3> HIDE DEF t
    <3> QED
      BY <3>1 DEF Assign, t, n
  <2> QED
    BY <2>1, <2>2, TakenDoes DEF Ready
<1> HIDE DEF n
<1>1. Assign(a, moves, size) = b
  <2>1. t.val = a.val /\ t.bytes = a.bytes
    BY <1>d DEF Took, Same
  <2>2. Assign(a, moves, size) =
          [t EXCEPT
            !.val = [p \in Places |-> IF \E v \in moves : v[1] = p
                       THEN Read(a, (CHOOSE v \in moves : v[1] = p)[2], size)
                       ELSE t.val[p]],
            !.bytes = [p \in Places |-> IF \E v \in moves : v[1] = p THEN size ELSE t.bytes[p]]]
    <3> HIDE DEF t
    <3>1. t = [f \in Fields |-> t[f]]
      BY <1>d DEF Took, Same, IsMachine
    <3> QED
      BY <3>1 DEF Assign, t, n, Fields
  <2> HIDE DEF t
  <2> QED
    BY <2>1, <2>2
<1> HIDE DEF t
<1>2. size \in Nat /\ Regs \subseteq Places /\ IsMachine(a) /\ a.ok
  BY Kinds DEF Ready, Registers
<1>3. ASSUME NEW v \in moves
      PROVE  /\ bytes[v[1]] = size
             /\ Holds(a, v[2], size, <<v[2]>>) => val[v[1]] = <<v[2]>>
  <2> DEFINE w == CHOOSE w \in moves : w[1] = v[1]
  <2>1. w \in moves /\ w[1] = v[1] /\ v[1] \in Places
    BY <1>2
  <2>2. w[2] = v[2]
    BY <2>1
  <2>3. Holds(a, v[2], size, <<v[2]>>) => Read(a, v[2], size) = <<v[2]>>
    BY <1>2, ReadHolds
  <2> QED
    BY <2>1, <2>2, <2>3
<1>4. ASSUME NEW p \in Places, \A v \in moves : v[1] # p
      PROVE  val[p] = a.val[p] /\ bytes[p] = a.bytes[p]
  BY <1>4
<1>5. val = [p \in Places |-> val[p]] /\ bytes \in [Places -> Nat]
  BY <1>2 DEF IsMachine
<1> HIDE DEF val, bytes
<1>6. /\ b = [f \in Fields |-> b[f]]
      /\ b.val = val /\ b.bytes = bytes /\ b.busy = t.busy
      /\ b.stack = a.stack /\ b.base = a.base /\ b.mem = a.mem
      /\ b.atCall = a.atCall /\ b.flag = a.flag /\ b.ok = a.ok
  BY <1>d DEF Took, Same, IsMachine, Fields
<1> HIDE DEF b
<1>7. Ready(b) /\ Costs(a, b, n)
  BY <1>d, <1>2, <1>5, <1>6 DEF Took, Same, IsMachine, Ready, Costs
<1> QED
  BY <1>1, <1>3, <1>4, <1>6, <1>7 DEF Assigned, n

\* What a call does to a machine.
HasCalled(a, b) ==
    /\ Ready(b) /\ b.busy = a.busy
    /\ b.stack = a.stack /\ b.base = a.base /\ b.mem = a.mem /\ b.flag = a.flag
    /\ b.atCall.val = a.val /\ b.atCall.stack = a.stack
    /\ b.bytes = a.bytes /\ b.val["rax"] = <<"result">>
    /\ \A p \in Places : p \notin (Regs \ CalleeSaved) \cup Reserved => b.val[p] = a.val[p]

LEMMA CalledDoes ==
    ASSUME NEW a, Ready(a)
    PROVE  HasCalled(a, Called(a))
<1> DEFINE lost == [p \in Places |-> IF p \in (Regs \ CalleeSaved) \cup Reserved
                                     THEN Garbage ELSE a.val[p]]
           val == [lost EXCEPT !["rax"] = <<"result">>]
           at == [val |-> a.val, stack |-> a.stack]
           b == [a EXCEPT !.atCall = at, !.val = val]
<1>1. IsMachine(a) /\ a.ok
  BY DEF Ready
<1>2. /\ Called(a) = [f \in Fields |-> Called(a)[f]]
      /\ Called(a).val = val /\ Called(a).bytes = a.bytes /\ Called(a).busy = a.busy
      /\ Called(a).stack = a.stack /\ Called(a).base = a.base /\ Called(a).mem = a.mem
      /\ Called(a).atCall = at /\ Called(a).flag = a.flag /\ Called(a).ok = a.ok
  BY <1>1 DEF IsMachine, Fields, Called
<1>3. "rax" \in Places /\ "rax" \in Regs \ CalleeSaved
  BY Kinds, EmitterAssumption DEF Registers
<1>4. /\ val = [p \in Places |-> val[p]] /\ val["rax"] = <<"result">>
      /\ \A p \in Places : p \notin (Regs \ CalleeSaved) \cup Reserved => val[p] = a.val[p]
  BY <1>3
<1>5. at.val = a.val /\ at.stack = a.stack
  OBVIOUS
<1> HIDE DEF val, lost, at
<1>6. IsMachine(Called(a))
  BY <1>1, <1>2, <1>4 DEF IsMachine
<1> QED
  BY <1>1, <1>2, <1>4, <1>5, <1>6 DEF HasCalled, Ready

InRegisters(i) == IF Len(i.args) < Len(ArgRegs) THEN Len(i.args) ELSE Len(ArgRegs)
OnStack(i) == SubSeq(i.args, InRegisters(i) + 1, Len(i.args))
SavedAcross(i) == SetToSeq(i.across \ {"rax"})
Area(i) == Len(OnStack(i)) + Pad(Len(SavedAcross(i)) + Len(OnStack(i)))

\* A call whose registers and arguments are as the actions choose them.
IsCall(a, i) ==
    /\ Ready(a) /\ i.op = "call"
    /\ i.across \subseteq Regs /\ i.args \in Seq(Operands)
    /\ i.d \in Regs \cup Slots /\ i.ds \in 1..8 /\ i.as = i.ds
    /\ \A k \in 1..Len(i.args) : Holds(a, i.args[k], i.as, <<i.args[k]>>)
    /\ \A p \in Regs : a.bytes[p] >= 8

LEMMA PadDoes ==
    ASSUME NEW n \in Nat
    PROVE  Pad(n) \in {0, 1} /\ (n + Pad(n)) % 2 = 0
<1>1. n % 2 \in {0, 1}
  OBVIOUS
<1>2. (n + (n % 2)) % 2 = 0
  OBVIOUS
<1> QED
  BY <1>1, <1>2 DEF Pad

LEMMA CallNumbers ==
    ASSUME NEW a, NEW i, IsCall(a, i)
    PROVE  /\ Enumerates(SavedAcross(i), i.across \ {"rax"})
           /\ OnStack(i) \in Seq(Regs \cup Memory \cup Literals)
           /\ Len(i.args) \in Nat /\ Len(ArgRegs) \in Nat /\ InRegisters(i) \in Nat
           /\ Len(OnStack(i)) = Len(i.args) - InRegisters(i) /\ Len(OnStack(i)) \in Nat
           /\ \A j \in 1..Len(OnStack(i)) : /\ InRegisters(i) + j \in 1..Len(i.args)
                                            /\ OnStack(i)[j] = i.args[InRegisters(i) + j]
           /\ \A k \in 1..Len(i.args) : i.args[k] \in Regs \cup Memory \cup Literals
           /\ InRegisters(i) <= Len(i.args) /\ InRegisters(i) <= Len(ArgRegs)
           /\ InRegisters(i) # Len(i.args) => InRegisters(i) = Len(ArgRegs)
           /\ Len(SavedAcross(i)) \in Nat
           /\ Area(i) \in Nat /\ Area(i) >= Len(OnStack(i))
           /\ (Len(SavedAcross(i)) + Area(i)) % 2 = 0
           /\ Len(a.stack) \in Nat /\ IsStack(a.stack)
<1> DEFINE n == InRegisters(i)
           N == Len(i.args)
           c == Len(SavedAcross(i))
           s == Len(OnStack(i))
<1>1. Enumerates(SavedAcross(i), i.across \ {"rax"})
  <2>1. IsFiniteSet(i.across \ {"rax"})
    BY EmitterAssumption, FS_Subset DEF IsCall
  <2> QED
    BY <2>1, SetToSeqDoes DEF SavedAcross
<1>2. N \in Nat /\ Len(ArgRegs) \in Nat
  BY EmitterAssumption, LenProperties DEF IsCall
<1>3. n \in Nat /\ n <= N /\ n <= Len(ArgRegs) /\ (n # N => n = Len(ArgRegs))
  BY <1>2 DEF InRegisters
<1>4. \A k \in 1..N : i.args[k] \in Operands /\ i.args[k] \in Regs \cup Memory \cup Literals
  BY ElementOfSeq DEF IsCall, Operands, Memory
<1>5. OnStack(i) \in Seq(Regs \cup Memory \cup Literals) /\ s = N - n /\ s \in Nat
      /\ \A j \in 1..s : n + j \in 1..N /\ OnStack(i)[j] = i.args[n + j]
  <2>1. n + 1 \in Int /\ N \in Int /\ \A k \in (n + 1)..N : i.args[k] \in Regs \cup Memory \cup Literals
    BY <1>2, <1>3, <1>4
  <2>2. /\ OnStack(i) \in Seq(Regs \cup Memory \cup Literals)
        /\ s = IF n + 1 <= N THEN N - (n + 1) + 1 ELSE 0
        /\ \A j \in 1 .. N - (n + 1) + 1 : OnStack(i)[j] = i.args[(n + 1) + j - 1]
    <3> HIDE DEF n, N
    <3> QED
      BY <2>1, SubSeqProperties DEF OnStack, n, N
  <2>3. s = N - n /\ s \in Nat
    BY <1>2, <1>3, <2>2
  <2>4. ASSUME NEW j \in 1..s PROVE n + j \in 1..N /\ OnStack(i)[j] = i.args[n + j]
    <3>1. j \in 1 .. N - (n + 1) + 1 /\ (n + 1) + j - 1 = n + j /\ n + j \in 1..N
      BY <1>2, <1>3, <2>3
    <3> QED
      BY <2>2, <3>1
  <2> QED
    BY <2>2, <2>3, <2>4
<1>6. c \in Nat
  BY <1>1 DEF Enumerates
<1>7. Area(i) \in Nat /\ Area(i) >= s /\ (c + Area(i)) % 2 = 0
  <2>1. c + s \in Nat
    BY <1>5, <1>6
  <2>2. Pad(c + s) \in {0, 1} /\ ((c + s) + Pad(c + s)) % 2 = 0
    BY <2>1, PadDoes
  <2>3. Area(i) = s + Pad(c + s)
    BY DEF Area
  <2>4. c + Area(i) = (c + s) + Pad(c + s)
    BY <1>5, <1>6, <2>2, <2>3
  <2> QED
    BY <1>5, <2>2, <2>3, <2>4
<1>8. Len(a.stack) \in Nat /\ IsStack(a.stack)
  BY StackLen DEF IsCall, Ready, IsMachine
<1> QED
  BY <1>1, <1>2, <1>3, <1>4, <1>5, <1>6, <1>7, <1>8

\* The registers to save and the arguments are on the stack.
ReadyToCall(a, r, i) ==
    /\ Ready(r) /\ r.busy = a.busy
    /\ r.base = a.base /\ r.mem = a.mem /\ r.flag = a.flag
    /\ \A p \in Places \ Reserved : r.val[p] = a.val[p] /\ r.bytes[p] >= a.bytes[p]
    /\ Len(r.stack) = Len(a.stack) + Len(SavedAcross(i)) + Area(i)
    /\ \A l \in 1..Len(a.stack) : r.stack[l] = a.stack[l]
    /\ \A k \in 1..Len(SavedAcross(i)) :
          r.stack[Len(a.stack) + k] = a.val[SavedAcross(i)[k]]
    /\ \A j \in 1..Len(OnStack(i)) :
          r.stack[Len(r.stack) - (j - 1)] = <<OnStack(i)[j]>>

LEMMA CallMadeReady ==
    ASSUME NEW a, NEW i, IsCall(a, i),
           ~Dead(EmitStackArguments(Reserve(PushAll(a, SavedAcross(i)), Area(i)),
                                    OnStack(i), i.as))
    PROVE  ReadyToCall(a, EmitStackArguments(Reserve(PushAll(a, SavedAcross(i)), Area(i)),
                                             OnStack(i), i.as), i)
<1> DEFINE rs == SavedAcross(i)
           L == Len(a.stack)
           c == Len(rs)
           x == PushAll(a, rs)
           y == Reserve(x, Area(i))
           args == OnStack(i)
           s == Len(args)
           r == EmitStackArguments(y, args, i.as)
<1>1. /\ Enumerates(rs, i.across \ {"rax"}) /\ c \in Nat
      /\ args \in Seq(Regs \cup Memory \cup Literals) /\ s \in Nat
      /\ \A j \in 1..s : /\ InRegisters(i) + j \in 1..Len(i.args)
                         /\ args[j] = i.args[InRegisters(i) + j]
      /\ Area(i) \in Nat /\ Area(i) >= s /\ L \in Nat
  BY CallNumbers
<1>2. Ready(a) /\ IsMachine(a) /\ i.as \in 0..8 /\ i.as \in Nat
  BY DEF IsCall, Ready
<1>3. /\ StackOnly(a, x) /\ Grown(a.stack, x.stack, c)
      /\ \A k \in 1..c : x.stack[L + k] = Read(a, rs[k], 8)
  BY <1>1, <1>2, PushAllDoes
<1> HIDE DEF x
<1>4. \A k \in 1..c : Read(a, rs[k], 8) = a.val[rs[k]]
  <2>1. ASSUME NEW k \in 1..c PROVE Read(a, rs[k], 8) = a.val[rs[k]]
    <3>1. rs[k] \in Regs
      BY <1>1, ElementOfSeq DEF Enumerates, IsCall
    <3>2. rs[k] \in Places /\ 8 \in Nat
      BY <3>1, Kinds DEF Registers
    <3>3. Holds(a, rs[k], 8, a.val[rs[k]])
      BY <3>1, <3>2 DEF Holds, IsCall
    <3> QED
      BY <1>2, <3>2, <3>3, ReadHolds
  <2> QED
    BY <2>1
<1>5. IsMachine(x)
  BY <1>3 DEF StackOnly
<1>6. StackOnly(x, y) /\ Grown(x.stack, y.stack, Area(i))
  BY <1>1, <1>5, ReserveDoes
<1> HIDE DEF y
<1>7. Ready(y) /\ IsMachine(y)
  BY <1>2, <1>3, <1>6 DEF StackOnly, Ready
<1>8. Len(y.stack) = L + c + Area(i) /\ s <= Len(y.stack)
  BY <1>1, <1>3, <1>6 DEF Grown
<1>9. \A k \in 1..s : Holds(y, args[k], i.as, <<args[k]>>)
  <2>1. \A k \in 1..s : Holds(a, args[k], i.as, <<args[k]>>)
    BY <1>1 DEF IsCall
  <2> QED
    BY <1>3, <1>6, <2>1 DEF StackOnly, Holds
<1>10. ArgumentsStored(y, r, args, s)
  <2>d. ~Dead(r)
    BY DEF r, y, x, args
  <2> HIDE DEF args
  <2> QED
    BY <1>1, <1>2, <1>7, <1>8, <1>9, <2>d, StackArgumentsDo
<1> HIDE DEF r, args
<1>11. /\ Ready(r) /\ r.busy = a.busy
       /\ r.base = a.base /\ r.mem = a.mem /\ r.flag = a.flag
       /\ \A p \in Places \ Reserved : r.val[p] = a.val[p] /\ r.bytes[p] >= a.bytes[p]
       /\ Len(r.stack) = L + c + Area(i)
  BY <1>3, <1>6, <1>8, <1>10 DEF StackOnly, ArgumentsStored, Filled
<1>12. \A l \in 1..(L + c) : r.stack[l] = x.stack[l]
  <2>1. ASSUME NEW l \in 1..(L + c) PROVE r.stack[l] = x.stack[l]
    <3>1. l \in 1..(Len(y.stack) - s) /\ l \in 1..Len(x.stack)
      BY <1>1, <1>3, <1>8 DEF Grown
    <3> QED
      BY <1>6, <1>10, <3>1 DEF ArgumentsStored, Grown
  <2> QED
    BY <2>1
<1>13. \A l \in 1..L : r.stack[l] = a.stack[l]
  <2>1. \A l \in 1..L : l \in 1..(L + c)
    BY <1>1
  <2> QED
    BY <1>3, <1>12, <2>1 DEF Grown
<1>14. \A k \in 1..c : r.stack[L + k] = a.val[rs[k]]
  <2>1. \A k \in 1..c : L + k \in 1..(L + c)
    BY <1>1
  <2> QED
    BY <1>3, <1>4, <1>12, <2>1
<1>15. \A j \in 1..s : r.stack[Len(r.stack) - (j - 1)] = <<args[j]>>
  <2>1. \A j \in 1..s : j \in (s - s + 1)..s
    BY <1>1
  <2> QED
    BY <1>8, <1>10, <1>11, <2>1 DEF ArgumentsStored
<1> QED
  BY <1>11, <1>13, <1>14, <1>15 DEF ReadyToCall, r, y, x, args

\* The arguments in registers.
LEMMA RegisterMovesAre ==
    ASSUME NEW a, NEW i, IsCall(a, i)
    PROVE  RegisterMoves(i) = {<<ArgRegs[k], i.args[k]>> : k \in 1..InRegisters(i)}
<1>1. DOMAIN ArgRegs = 1..Len(ArgRegs) /\ DOMAIN i.args = 1..Len(i.args)
      /\ Len(ArgRegs) \in Nat /\ Len(i.args) \in Nat
  BY EmitterAssumption, LenProperties DEF IsCall
<1>2. DOMAIN ArgRegs \cap DOMAIN i.args = 1..InRegisters(i)
  BY <1>1 DEF InRegisters
<1> QED
  BY <1>2 DEF RegisterMoves, IsCall

\* What the callee finds, and the machine behind the call.
HasBeenCalled(a, b, i) ==
    /\ Ready(b) /\ Costs(a, b, Price(i)) /\ b.base = a.base /\ b.mem = a.mem
    /\ b.stack = b.atCall.stack
    /\ Len(b.stack) = Len(a.stack) + Len(SavedAcross(i)) + Area(i)
    /\ \A l \in 1..Len(a.stack) : b.stack[l] = a.stack[l]
    /\ \A k \in 1..Len(SavedAcross(i)) :
          b.stack[Len(a.stack) + k] = a.val[SavedAcross(i)[k]]
    /\ \A k \in 1..Len(i.args) :
          IF k <= Len(ArgRegs) THEN b.atCall.val[ArgRegs[k]] = <<i.args[k]>>
          ELSE b.stack[Len(b.stack) - (k - Len(ArgRegs) - 1)] = <<i.args[k]>>
    /\ b.val["rax"] = <<"result">> /\ b.bytes["rax"] >= i.ds
    /\ \A p \in Places : p \notin (Regs \ CalleeSaved) \cup Reserved => b.val[p] = a.val[p]

LEMMA CallMade ==
    ASSUME NEW a, NEW i, IsCall(a, i), NEW r, ReadyToCall(a, r, i),
           ~Dead(Assign(r, RegisterMoves(i), i.as))
    PROVE  HasBeenCalled(a, Called(Assign(r, RegisterMoves(i), i.as)), i)
<1> DEFINE moves == RegisterMoves(i)
           q == Assign(r, moves, i.as)
           b == Called(q)
           n == InRegisters(i)
           N == Len(i.args)
<1>1. /\ N \in Nat /\ Len(ArgRegs) \in Nat /\ n \in Nat
      /\ n <= N /\ n <= Len(ArgRegs) /\ (n # N => n = Len(ArgRegs))
      /\ Len(OnStack(i)) = N - n
      /\ \A j \in 1..Len(OnStack(i)) : n + j \in 1..N /\ OnStack(i)[j] = i.args[n + j]
      /\ \A k \in 1..N : i.args[k] \in Regs \cup Memory \cup Literals
  BY CallNumbers
<1>0. moves = {<<ArgRegs[k], i.args[k]>> : k \in 1..n}
  BY RegisterMovesAre
<1>2. Ready(a) /\ Ready(r) /\ i.as \in 0..8 /\ i.as \in Nat /\ i.ds = i.as
  BY DEF IsCall, ReadyToCall
<1>d. ~Dead(q)
  OBVIOUS
<1> HIDE DEF moves
<1>3. ASSUME NEW k \in 1..n
      PROVE  ArgRegs[k] \in Regs \ CalleeSaved /\ k \in DOMAIN ArgRegs /\ k \in 1..N
  <2>1. k \in DOMAIN ArgRegs /\ k \in 1..N
    BY <1>1, EmitterAssumption, LenProperties
  <2>2. ArgRegs[k] \in Range(ArgRegs)
    BY <2>1 DEF Range
  <2> QED
    BY <2>1, <2>2, EmitterAssumption
<1>4. ASSUME NEW v \in moves
      PROVE  v[1] \in Regs /\ Holds(r, v[2], i.as, <<v[2]>>)
  <2>1. PICK k \in 1..n : v = <<ArgRegs[k], i.args[k]>>
    BY <1>0
  <2>2. v[1] = ArgRegs[k] /\ v[2] = i.args[k] /\ k \in 1..N
    BY <1>3, <2>1
  <2>3. Holds(a, v[2], i.as, <<v[2]>>) /\ v[2] \in Regs \cup Memory \cup Literals
    BY <1>1, <2>2 DEF IsCall
  <2>4. v[2] \notin Reserved
    BY <2>3, Kinds DEF Registers
  <2>5. \A p \in Places : a.bytes[p] \in Nat /\ r.bytes[p] \in Nat
    BY <1>2 DEF Ready, IsMachine
  <2>6. Holds(r, v[2], i.as, <<v[2]>>)
    BY <1>2, <2>3, <2>4, <2>5 DEF Holds, ReadyToCall
  <2> QED
    BY <1>3, <2>2, <2>6
<1>5. ASSUME NEW v \in moves, NEW w \in moves, v[1] = w[1] PROVE v[2] = w[2]
  <2>1. PICK k \in 1..n : v = <<ArgRegs[k], i.args[k]>>
    BY <1>0
  <2>2. PICK l \in 1..n : w = <<ArgRegs[l], i.args[l]>>
    BY <1>0
  <2>3. k = l
    BY <1>3, <1>5, <2>1, <2>2, EmitterAssumption DEF IsInjective
  <2> QED
    BY <2>1, <2>2, <2>3
<1>6. Assigned(r, q, moves, i.as)
  BY <1>d, <1>2, <1>4, <1>5, AssignDoes
<1>7. \A k \in 1..n : q.val[ArgRegs[k]] = <<i.args[k]>>
  <2>1. ASSUME NEW k \in 1..n PROVE q.val[ArgRegs[k]] = <<i.args[k]>>
    <3> DEFINE v == <<ArgRegs[k], i.args[k]>>
    <3>1. v \in moves /\ v[1] = ArgRegs[k] /\ v[2] = i.args[k]
      BY <1>0
    <3> HIDE DEF v, q, moves
    <3> QED
      BY <1>4, <1>6, <3>1 DEF Assigned
  <2> QED
    BY <2>1
<1>8. q.bytes["rax"] >= i.ds
  <2>1. "rax" \in Regs /\ "rax" \in Places /\ "rax" \notin Reserved
    BY Kinds DEF Registers
  <2>2. CASE \E v \in moves : v[1] = "rax"
    <3> HIDE DEF q, moves
    <3>1. q.bytes["rax"] = i.as
      BY <1>6, <2>2 DEF Assigned
    <3> QED
      BY <1>2, <3>1
  <2>3. CASE ~\E v \in moves : v[1] = "rax"
    <3> HIDE DEF q, moves
    <3>1. q.bytes["rax"] = r.bytes["rax"]
      BY <1>6, <2>1, <2>3 DEF Assigned
    <3>2. r.bytes["rax"] >= a.bytes["rax"] /\ a.bytes["rax"] >= 8
      BY <2>1 DEF ReadyToCall, IsCall
    <3>3. a.bytes["rax"] \in Nat /\ r.bytes["rax"] \in Nat
      BY <1>2, <2>1 DEF Ready, IsMachine
    <3> QED
      BY <1>2, <3>1, <3>2, <3>3
  <2> QED
    BY <2>2, <2>3
<1>9. ASSUME NEW p \in Places, p \notin (Regs \ CalleeSaved) \cup Reserved
      PROVE  q.val[p] = a.val[p]
  <2>1. \A v \in moves : v[1] # p
    BY <1>0, <1>3, <1>9
  <2> HIDE DEF q, moves
  <2>2. q.val[p] = r.val[p]
    BY <1>6, <2>1 DEF Assigned
  <2> QED
    BY <1>9, <2>2 DEF ReadyToCall
<1> HIDE DEF q, moves
<1>10. HasCalled(q, b)
  BY <1>6, CalledDoes DEF Assigned
<1> HIDE DEF b
<1>11. /\ b.stack = r.stack /\ b.atCall.stack = r.stack /\ b.atCall.val = q.val
       /\ b.base = a.base /\ b.mem = a.mem /\ Ready(b) /\ Costs(a, b, Price(i))
       /\ b.val["rax"] = <<"result">> /\ b.bytes["rax"] >= i.ds
  BY <1>6, <1>8, <1>10 DEF Assigned, HasCalled, ReadyToCall, Costs, Price, moves
<1>12. ASSUME NEW k \in 1..N
       PROVE  IF k <= Len(ArgRegs) THEN b.atCall.val[ArgRegs[k]] = <<i.args[k]>>
              ELSE b.stack[Len(b.stack) - (k - Len(ArgRegs) - 1)] = <<i.args[k]>>
  <2>1. CASE k <= Len(ArgRegs)
    <3>1. k \in 1..n
      BY <1>1, <2>1
    <3> QED
      BY <1>7, <1>11, <2>1, <3>1
  <2>2. CASE ~(k <= Len(ArgRegs))
    <3>1. n = Len(ArgRegs) /\ k - n \in 1..Len(OnStack(i)) /\ n + (k - n) = k
      BY <1>1, <2>2
    <3>2. r.stack[Len(r.stack) - ((k - n) - 1)] = <<OnStack(i)[k - n]>>
      BY <3>1 DEF ReadyToCall
    <3>3. OnStack(i)[k - n] = i.args[k]
      BY <1>1, <3>1
    <3> QED
      BY <1>11, <2>2, <3>1, <3>2, <3>3
  <2> QED
    BY <2>1, <2>2
<1>13. \A p \in Places : p \notin (Regs \ CalleeSaved) \cup Reserved => b.val[p] = a.val[p]
  BY <1>9, <1>10 DEF HasCalled
<1> QED
  BY <1>11, <1>12, <1>13 DEF HasBeenCalled, ReadyToCall, b, q, moves

\* The code of a call: what the callee found, and what is left behind.
CallReturns(a, b, i) ==
    /\ Ready(b) /\ Costs(a, b, Price(i))
    /\ b.stack = a.stack /\ b.base = a.base /\ b.mem = a.mem
    /\ Holds(b, i.d, i.ds, <<"result">>)
    /\ \A p \in Places \ ({i.d, "rax"} \cup Reserved \cup (Regs \ (CalleeSaved \cup i.across))) :
          b.val[p] = a.val[p]
    /\ \A k \in 1..Len(i.args) :
          IF k <= Len(ArgRegs) THEN b.atCall.val[ArgRegs[k]] = <<i.args[k]>>
          ELSE b.atCall.stack[Len(b.atCall.stack) - (k - Len(ArgRegs) - 1)] = <<i.args[k]>>
    /\ (Len(b.atCall.stack) - Len(b.stack)) % 2 = 0

LEMMA CallLeft ==
    ASSUME NEW a, NEW i, IsCall(a, i), NEW q, HasBeenCalled(a, q, i)
    PROVE  CallReturns(a, MovRegToOperand(PopAll(Drop(q, Area(i)), SavedAcross(i)),
                                          i.d, "rax", i.ds), i)
<1> DEFINE rs == SavedAcross(i)
           S == i.across \ {"rax"}
           L == Len(a.stack)
           c == Len(rs)
           x == Drop(q, Area(i))
           y == PopAll(x, rs)
           b == MovRegToOperand(y, i.d, "rax", i.ds)
<1>1. /\ Enumerates(rs, S) /\ c \in Nat
      /\ Area(i) \in Nat /\ L \in Nat /\ IsStack(a.stack) /\ (c + Area(i)) % 2 = 0
  BY CallNumbers
<1>2. /\ i.d \in Regs \cup Memory /\ "rax" \in Registers /\ "rax" \in Places
      /\ i.ds \in Nat /\ i.ds \in 0..8 /\ i.ds <= 8 /\ S \subseteq Places /\ Ready(a)
  BY Kinds DEF IsCall, Registers, Memory
<1>3. /\ Ready(q) /\ IsMachine(q) /\ Len(q.stack) = L + c + Area(i)
      /\ \A l \in 1..L : q.stack[l] = a.stack[l]
      /\ \A k \in 1..c : q.stack[L + k] = a.val[rs[k]]
  BY DEF HasBeenCalled, Ready
<1>4. StackOnly(q, x) /\ Shrunk(q, x, Area(i))
  <2>1. Area(i) <= Len(q.stack)
    BY <1>1, <1>3
  <2> QED
    BY <1>1, <1>3, <2>1, DropDoes
<1> HIDE DEF x
<1>5. Len(x.stack) = L + c /\ \A l \in 1..(L + c) : x.stack[l] = q.stack[l]
  BY <1>1, <1>3, <1>4 DEF Shrunk
<1>6. Restored(x, y, rs)
  <2>1. IsMachine(x) /\ c <= Len(x.stack) /\ S \in SUBSET Places
    BY <1>1, <1>2, <1>4, <1>5 DEF StackOnly
  <2> HIDE DEF rs, S
  <2> QED
    BY <1>1, <2>1, PopAllDoes DEF rs
<1> HIDE DEF y
<1>7. /\ IsMachine(y) /\ y.busy = q.busy /\ y.ok /\ y.base = a.base /\ y.mem = a.mem
      /\ y.atCall = q.atCall
  BY <1>3, <1>4, <1>6 DEF Restored, StackOnly, Ready, HasBeenCalled
<1>8. y.stack = a.stack
  <2>1. /\ IsStack(y.stack) /\ Len(y.stack) = L
        /\ \A l \in 1..L : y.stack[l] = x.stack[l]
    BY <1>1, <1>5, <1>6 DEF Restored, Shrunk
  <2>2. \A l \in 1..L : y.stack[l] = a.stack[l]
    BY <1>1, <1>3, <1>5, <2>1
  <2> QED
    BY <1>1, <2>1, <2>2, SameStack
<1>9. Holds(y, "rax", i.ds, <<"result">>)
  <2>1. "rax" \notin Range(rs)
    BY <1>1 DEF Enumerates
  <2>2. y.val["rax"] = q.val["rax"] /\ y.bytes["rax"] = q.bytes["rax"]
    BY <1>2, <1>4, <1>6, <2>1 DEF Restored, StackOnly
  <2> QED
    BY <1>2, <2>2 DEF HasBeenCalled, Holds
<1>10. ASSUME NEW p \in Places \ ({"rax"} \cup Reserved \cup (Regs \ (CalleeSaved \cup i.across)))
       PROVE  y.val[p] = a.val[p]
  <2>1. CASE p \in S
    <3>1. PICK k \in 1..c : rs[k] = p
      BY <1>1, <2>1 DEF Enumerates, Range
    <3>2. Len(x.stack) - c + k = L + k /\ L + k \in 1..(L + c)
      BY <1>1, <1>5
    <3>3. y.val[p] = x.stack[L + k]
      BY <1>6, <3>1, <3>2 DEF Restored
    <3> QED
      BY <1>3, <1>5, <3>1, <3>2, <3>3
  <2>2. CASE p \notin S
    <3>1. p \notin Range(rs)
      BY <1>1, <2>2 DEF Enumerates
    <3>2. y.val[p] = q.val[p]
      BY <1>4, <1>6, <3>1 DEF Restored, StackOnly
    <3>3. p \notin (Regs \ CalleeSaved) \cup Reserved
      BY <2>2
    <3> QED
      BY <3>2, <3>3 DEF HasBeenCalled
  <2> QED
    BY <2>1, <2>2
<1>11. Moved(y, b, i.d, "rax", i.ds)
  BY <1>2, <1>7, MovRegToOperandDoes
<1> HIDE DEF b
<1>12. Holds(b, i.d, i.ds, <<"result">>)
  BY <1>9, <1>11 DEF Moved
<1>13. /\ Ready(b) /\ b.busy = q.busy /\ b.stack = a.stack /\ b.base = a.base /\ b.mem = a.mem
       /\ b.atCall = q.atCall
       /\ \A p \in Places \ {i.d} : b.val[p] = y.val[p]
  BY <1>7, <1>8, <1>11 DEF Moved, Kept, Ready
<1>14. \A p \in Places \ ({i.d, "rax"} \cup Reserved \cup (Regs \ (CalleeSaved \cup i.across))) :
          b.val[p] = a.val[p]
  BY <1>10, <1>13
<1>15. (Len(b.atCall.stack) - Len(b.stack)) % 2 = 0
  <2>1. Len(b.atCall.stack) - Len(b.stack) = c + Area(i)
    <3>1. q.stack = q.atCall.stack
      BY DEF HasBeenCalled
    <3>2. b.atCall.stack = q.stack /\ b.stack = a.stack
      BY <1>13, <3>1
    <3>3. Len(b.atCall.stack) = L + c + Area(i) /\ Len(b.stack) = L
      BY <1>3, <3>2
    <3>4. \A u, v, w \in Nat : (u + v + w) - u = v + w
      OBVIOUS
    <3> HIDE DEF L, c
    <3> QED
      BY <1>1, <3>3, <3>4
  <2> QED
    BY <1>1, <2>1
<1>16. \A k \in 1..Len(i.args) :
          IF k <= Len(ArgRegs) THEN b.atCall.val[ArgRegs[k]] = <<i.args[k]>>
          ELSE b.atCall.stack[Len(b.atCall.stack) - (k - Len(ArgRegs) - 1)] = <<i.args[k]>>
  <2>1. b.atCall = q.atCall /\ b.atCall.stack = q.stack
    <3>1. q.stack = q.atCall.stack
      BY DEF HasBeenCalled
    <3> QED
      BY <1>13, <3>1
  <2>2. \A k \in 1..Len(i.args) :
           IF k <= Len(ArgRegs) THEN q.atCall.val[ArgRegs[k]] = <<i.args[k]>>
           ELSE q.stack[Len(q.stack) - (k - Len(ArgRegs) - 1)] = <<i.args[k]>>
    BY DEF HasBeenCalled
  <2> QED
    BY ONLY <2>1, <2>2, Zenon
<1>17. Costs(a, b, Price(i))
  BY <1>13 DEF HasBeenCalled, Costs
<1> QED
  BY <1>12, <1>13, <1>14, <1>15, <1>16, <1>17 DEF CallReturns, b, y, x

LEMMA DeadAssign ==
    ASSUME NEW mm, NEW moves, NEW size, \A v \in moves : v[1] \in Regs, Dead(mm)
    PROVE  Dead(Assign(mm, moves, size))
<1> DEFINE n == Cardinality(Cycles(moves))
           t == Taken(mm, n)
<1>1. n \in Nat
  BY CyclesCount
<1> HIDE DEF n
<1>2. Dead(t)
  BY <1>1, TakenDoes
<1> HIDE DEF t
<1> DEFINE val == [p \in Places |-> IF \E v \in moves : v[1] = p
                     THEN Read(mm, (CHOOSE v \in moves : v[1] = p)[2], size)
                     ELSE t.val[p]]
           bytes == [p \in Places |-> IF \E v \in moves : v[1] = p THEN size ELSE t.bytes[p]]
<1>3. Dead([t EXCEPT !.val = val, !.bytes = bytes])
  <2> HIDE DEF val, bytes
  <2> QED
    BY <1>2 DEF Dead, Fields
<1>4. Assign(mm, moves, size) = [t EXCEPT !.val = val, !.bytes = bytes]
  <2>1. t = [f \in Fields |-> t[f]]
    BY <1>2 DEF Dead
  <2> QED
    BY <2>1 DEF Assign, t, n, Fields
<1> QED
  BY <1>3, <1>4

LEMMA CallDoes ==
    ASSUME NEW a, NEW i, IsCall(a, i), ~Dead(EmitCall(a, i))
    PROVE  CallReturns(a, EmitCall(a, i), i)
<1> DEFINE r == EmitStackArguments(Reserve(PushAll(a, SavedAcross(i)), Area(i)),
                                   OnStack(i), i.as)
           c == Assign(r, RegisterMoves(i), i.as)
           q == Called(c)
           b == MovRegToOperand(PopAll(Drop(q, Area(i)), SavedAcross(i)), i.d, "rax", i.ds)
<1>1. EmitCall(a, i) = b
  BY DEF EmitCall, InRegisters, OnStack, SavedAcross, Area
<1>d. ~Dead(c) /\ ~Dead(r)
  <2>1. ~Dead(b)
    <3> HIDE DEF b
    <3> QED
      BY <1>1
  <2> HIDE DEF r
  <2>2. ~Dead(c)
    <3> HIDE DEF c
    <3> QED
      BY <2>1, DeadMove, DeadStack
  <2>3. \A v \in RegisterMoves(i) : v[1] \in Regs
    <3>1. ASSUME NEW k \in 1..InRegisters(i) PROVE ArgRegs[k] \in Regs
      <4>1. k \in 1..Len(ArgRegs)
        <5>1. InRegisters(i) \in Nat /\ Len(ArgRegs) \in Nat /\ InRegisters(i) <= Len(ArgRegs)
          BY CallNumbers
        <5> QED
          BY <5>1
      <4> QED
        BY <4>1, EmitterAssumption, ElementOfSeq
    <3> QED
      BY <3>1, RegisterMovesAre
  <2> QED
    BY <2>2, <2>3, DeadAssign
<1>2. ReadyToCall(a, r, i)
  BY <1>d, CallMadeReady
<1> HIDE DEF r
<1>3. HasBeenCalled(a, q, i)
  BY <1>d, <1>2, CallMade
<1> HIDE DEF q, c
<1>4. CallReturns(a, b, i)
  BY <1>3, CallLeft
<1> QED
  BY <1>1, <1>4

-----------------------------------------------------------------------------
(* Block arguments.                                                        *)

\* The first j block arguments that go to slots are there.
SlotsMoved(a, b, i, j) ==
    /\ Ready(b) /\ b.busy = a.busy
    /\ Kept(a, b, ({i.moves[k][1] : k \in 1..j} \cap Slots) \cup Reserved)
    /\ Apart(i.moves) =>
          \A k \in 1..j : i.moves[k][1] \in Slots =>
              Holds(b, i.moves[k][1], i.ds, <<i.moves[k][2]>>)

\* A jump or branch whose block arguments are as the actions choose them.
IsJump(a, i) ==
    /\ Ready(a) /\ i.op # "call" /\ i.moves \in Seq((Regs \cup Slots) \X Operands)
    /\ \A k, l \in DOMAIN i.moves : i.moves[k][1] = i.moves[l][1] => k = l
    /\ i.ds \in 0..8 /\ i.as = i.ds
    /\ \A v \in Range(i.moves) : Holds(a, v[2], i.as, <<v[2]>>)

LEMMA JumpNumbers ==
    ASSUME NEW a, NEW i, IsJump(a, i)
    PROVE  /\ Len(i.moves) \in Nat /\ DOMAIN i.moves = 1..Len(i.moves)
           /\ \A k \in 1..Len(i.moves) :
                 /\ i.moves[k][1] \in Regs \cup Slots
                 /\ i.moves[k][2] \in Regs \cup Memory \cup Literals
                 /\ i.moves[k][2] \notin Reserved
                 /\ Holds(a, i.moves[k][2], i.as, <<i.moves[k][2]>>)
<1>1. Len(i.moves) \in Nat /\ DOMAIN i.moves = 1..Len(i.moves)
  BY LenProperties DEF IsJump
<1>2. ASSUME NEW k \in 1..Len(i.moves)
      PROVE  /\ i.moves[k][1] \in Regs \cup Slots
             /\ i.moves[k][2] \in Regs \cup Memory \cup Literals
             /\ i.moves[k][2] \notin Reserved
             /\ Holds(a, i.moves[k][2], i.as, <<i.moves[k][2]>>)
  <2>1. i.moves[k] \in (Regs \cup Slots) \X Operands
    BY ElementOfSeq DEF IsJump
  <2>2. i.moves[k][1] \in Regs \cup Slots /\ i.moves[k][2] \in Operands
    BY <2>1
  <2>3. i.moves[k] \in Range(i.moves)
    BY <1>1 DEF Range
  <2>4. i.moves[k][2] \notin Reserved
    BY <2>2, Kinds DEF Registers, Memory
  <2> QED
    BY <2>2, <2>3, <2>4 DEF Operands, Memory, IsJump
<1> QED
  BY <1>1, <1>2

NextMoved(b, i, k) ==
    IF i.moves[k][1] \in Regs THEN b
    ELSE MovOperandToOperand(b, i.moves[k][1], i.moves[k][2], i.ds, i.as)

LEMMA NextSlotMoved ==
    ASSUME NEW a, NEW i, IsJump(a, i), NEW j \in 1..Len(i.moves), NEW b,
           SlotsMoved(a, b, i, j - 1), ~Dead(NextMoved(b, i, j))
    PROVE  SlotsMoved(a, NextMoved(b, i, j), i, j)
<1> DEFINE d == i.moves[j][1]
           s == i.moves[j][2]
           c == NextMoved(b, i, j)
           before == ({i.moves[k][1] : k \in 1..(j - 1)} \cap Slots) \cup Reserved
           after == ({i.moves[k][1] : k \in 1..j} \cap Slots) \cup Reserved
<1>1. /\ Len(i.moves) \in Nat /\ DOMAIN i.moves = 1..Len(i.moves)
      /\ d \in Regs \cup Slots /\ s \in Regs \cup Memory \cup Literals
      /\ s \notin Reserved /\ Holds(a, s, i.as, <<s>>)
  BY JumpNumbers
<1>2. /\ Ready(b) /\ IsMachine(b) /\ IsMachine(a) /\ Kept(a, b, before)
      /\ b.busy = a.busy /\ ~Dead(c)
      /\ i.ds \in 0..8 /\ i.as \in 0..8 /\ i.ds <= i.as /\ i.ds \in Nat /\ i.as \in Nat
      /\ Apart(i.moves) =>
           \A k \in 1..(j - 1) : i.moves[k][1] \in Slots =>
              Holds(b, i.moves[k][1], i.ds, <<i.moves[k][2]>>)
  BY DEF SlotsMoved, IsJump, Ready
<1>3. before \subseteq after /\ (d \in Slots => d \in after) /\ j \in 1..j
      /\ \A k \in 1..j : k # j => k \in 1..(j - 1)
  BY <1>1
<1>4. CASE d \in Regs
  <2>1. c = b
    BY <1>4 DEF NextMoved
  <2>2. d \notin Slots
    BY <1>4, Kinds DEF Registers, Memory
  <2>3. Kept(a, b, after)
    BY <1>2, <1>3, KeptMore
  <2>4. \A k \in 1..j : i.moves[k][1] \in Slots => k \in 1..(j - 1)
    BY <1>3, <2>2
  <2> HIDE DEF c, d, s
  <2> QED
    BY <1>2, <2>1, <2>3, <2>4 DEF SlotsMoved, c
<1>5. CASE d \notin Regs
  <2>1. c = MovOperandToOperand(b, d, s, i.ds, i.as) /\ d \in Slots /\ d \in Regs \cup Memory
    BY <1>1, <1>5 DEF NextMoved, Memory
  <2>2. ~Dead(MovOperandToOperand(b, d, s, i.ds, i.as))
    BY <1>2, <2>1
  <2> HIDE DEF c
  <2>3. Copied(b, c, d, s, i.ds, i.as)
    <3> HIDE DEF d, s
    <3> QED
      BY <1>1, <1>2, <2>1, <2>2, MovOperandToOperandDoes
  <2>4. Kept(a, c, after)
    <3>1. Kept(a, c, before \cup ({d} \cup Reserved))
      <4> HIDE DEF before, d
      <4> QED
        BY <1>2, <2>3, KeptTrans DEF Copied
    <3>2. before \cup ({d} \cup Reserved) \subseteq after
      BY <1>3, <2>1
    <3> HIDE DEF before, d, after
    <3> QED
      BY <3>1, <3>2, KeptMore
  <2>5. Ready(c) /\ c.busy = a.busy
    BY <1>2, <2>3 DEF Ready, Copied
  <2>6. ASSUME Apart(i.moves), NEW k \in 1..j, i.moves[k][1] \in Slots
        PROVE  Holds(c, i.moves[k][1], i.ds, <<i.moves[k][2]>>)
    <3>1. CASE k = j
      <4>1. s \notin before
        <5>1. ASSUME NEW l \in 1..(j - 1), i.moves[l][1] \in Slots
              PROVE  i.moves[l][1] # s
          <6>1. l \in DOMAIN i.moves /\ j \in DOMAIN i.moves /\ l # j
            BY <1>1
          <6> QED
            BY <2>6, <5>1, <6>1 DEF Apart
        <5> QED
          BY <1>1, <5>1
      <4>2. Holds(b, s, i.as, <<s>>)
        <5> HIDE DEF before, s
        <5> QED
          BY <1>1, <1>2, <4>1, HoldsKept
      <4>3. Holds(c, d, i.ds, <<s>>)
        BY <2>3, <4>2 DEF Copied
      <4> QED
        BY <3>1, <4>3
    <3>2. CASE k # j
      <4>1. k \in 1..(j - 1) /\ k \in DOMAIN i.moves /\ j \in DOMAIN i.moves
        BY <1>1, <3>2
      <4>2. Holds(b, i.moves[k][1], i.ds, <<i.moves[k][2]>>)
        BY <1>2, <2>6, <4>1
      <4>3. i.moves[k][1] \notin {d} \cup Reserved
        <5>1. i.moves[k][1] # d
          BY <3>2, <4>1 DEF IsJump
        <5>2. i.moves[k][1] \notin Reserved
          BY <2>6, Kinds DEF Registers, Memory
        <5> QED
          BY <5>1, <5>2
      <4> DEFINE p == i.moves[k][1]
      <4> HIDE DEF d, p
      <4> QED
        BY <1>2, <2>3, <4>2, <4>3, HoldsKept DEF Copied, p
    <3> QED
      BY <3>1, <3>2
  <2> QED
    BY <2>4, <2>5, <2>6 DEF SlotsMoved, c
<1> QED
  BY <1>4, <1>5

\* f lists the machines in front of and behind the first l block arguments.
Moving(a, i, f, l) ==
    f = [k \in 0..l |-> IF k = 0 THEN a ELSE NextMoved(f[k - 1], i, k)]

LEMMA MovingExists ==
    ASSUME NEW a, NEW i, NEW n \in Nat
    PROVE  \E f : Moving(a, i, f, n)
<1> DEFINE B == {l \in Nat : ~\E f : Moving(a, i, f, l)}
<1>1. SUFFICES ASSUME B # {} PROVE FALSE
  OBVIOUS
<1>2. PICK l \in B : \A j \in B : l <= j
  <2>1. B \in SUBSET Nat
    OBVIOUS
  <2> QED
    BY <1>1, <2>1, Least
<1>3. CASE l = 0
  <2> DEFINE f == [k \in 0..0 |-> a]
  <2>1. Moving(a, i, f, 0)
    BY DEF Moving
  <2> QED
    BY <1>2, <1>3, <2>1
<1>4. CASE l # 0
  <2>1. l - 1 \in Nat /\ l - 1 \notin B
    BY <1>2, <1>4
  <2>2. PICK f : Moving(a, i, f, l - 1)
    BY <2>1
  <2> DEFINE next(g, k) == IF k = 0 THEN a ELSE NextMoved(g[k - 1], i, k)
             g == [k \in 0..l |-> IF k = l THEN next(f, l) ELSE f[k]]
  <2>3. f = [k \in 0..(l - 1) |-> next(f, k)]
    BY <2>2 DEF Moving
  <2> HIDE DEF next
  <2>4. \A k \in 0..l : next(g, k) = next(f, k)
    <3>1. \A k \in 1..l : g[k - 1] = f[k - 1]
      BY <1>2
    <3> QED
      BY <3>1 DEF next
  <2>5. g = [k \in 0..l |-> next(g, k)]
    <3>1. \A k \in 0..l : g[k] = next(g, k)
      <4>1. \A k \in 0..l : k # l => k \in 0..(l - 1)
        BY <1>2
      <4> QED
        BY <2>3, <2>4, <4>1
    <3> QED
      BY <3>1
  <2>6. Moving(a, i, g, l)
    BY <2>5 DEF Moving, next
  <2> QED
    BY <1>2, <2>6
<1> QED
  BY <1>3, <1>4

\* The machine behind the moves to slots, with which EmitBlockArguments goes on.
LEMMA AllSlotsMoved ==
    ASSUME NEW a, NEW i, IsJump(a, i), NEW f, Moving(a, i, f, Len(i.moves)),
           ~Dead(f[Len(i.moves)])
    PROVE  SlotsMoved(a, f[Len(i.moves)], i, Len(i.moves))
<1> DEFINE n == Len(i.moves)
           B == {j \in 0..n : ~SlotsMoved(a, f[j], i, j)}
<1>1. n \in Nat
  BY JumpNumbers
<1>d. \A k \in 0..n : ~Dead(f[k])
  <2>1. ASSUME NEW k \in 1..n, Dead(f[k - 1]) PROVE Dead(f[k])
    <3>1. f[k] = NextMoved(f[k - 1], i, k)
      BY <1>1 DEF Moving
    <3> QED
      BY <2>1, <3>1, DeadMovOperandToOperand DEF NextMoved
  <2> QED
    BY <1>1, <2>1, DeadLoop
<1>2. SUFFICES ASSUME B # {} PROVE FALSE
  BY <1>1
<1>3. PICK j \in B : \A l \in B : j <= l
  <2>1. B \in SUBSET Nat
    BY <1>1
  <2> QED
    BY <1>2, <2>1, Least
<1>4. CASE j = 0
  <2>1. f[0] = a
    BY <1>1 DEF Moving
  <2>2. SlotsMoved(a, a, i, 0)
    <3>1. Kept(a, a, ({i.moves[k][1] : k \in 1..0} \cap Slots) \cup Reserved)
      BY KeptSelf DEF IsJump, Ready
    <3> QED
      BY <3>1 DEF SlotsMoved, IsJump
  <2> QED
    BY <1>3, <1>4, <2>1, <2>2
<1>5. CASE j # 0
  <2>1. j \in 1..n /\ j - 1 \in 0..n /\ j - 1 \notin B
    BY <1>1, <1>3, <1>5
  <2>2. SlotsMoved(a, f[j - 1], i, j - 1)
    BY <2>1
  <2>3. f[j] = NextMoved(f[j - 1], i, j)
    BY <1>1, <2>1 DEF Moving
  <2>4. SlotsMoved(a, f[j], i, j)
    BY <1>d, <2>1, <2>2, <2>3, NextSlotMoved
  <2> QED
    BY <1>3, <2>4
<1> QED
  BY <1>4, <1>5

\* The block arguments are there, unless one is a slot that was written before.
BlockArgumentsArrived(a, b, i) ==
    /\ Ready(b) /\ Costs(a, b, Price(i))
    /\ b.stack = a.stack /\ b.base = a.base /\ b.mem = a.mem
    /\ b.flag = a.flag
    /\ \A p \in Places \ ({v[1] : v \in Range(i.moves)} \cup Reserved) : b.val[p] = a.val[p]
    /\ Apart(i.moves) =>
          \A v \in Range(i.moves) : Holds(b, v[1], i.ds, <<v[2]>>)

LEMMA BlockArgumentsDo ==
    ASSUME NEW a, NEW i, IsJump(a, i), ~Dead(EmitBlockArguments(a, i))
    PROVE  BlockArgumentsArrived(a, EmitBlockArguments(a, i), i)
<1> DEFINE n == Len(i.moves)
           f == CHOOSE g : Moving(a, i, g, n)
           moves == {v \in Range(i.moves) : v[1] \in Regs}
           params == {v[1] : v \in Range(i.moves)}
           before == ({i.moves[k][1] : k \in 1..n} \cap Slots) \cup Reserved
           b == EmitBlockArguments(a, i)
<1>1. /\ n \in Nat /\ DOMAIN i.moves = 1..n
      /\ \A k \in 1..n : /\ i.moves[k][1] \in Regs \cup Slots
                         /\ i.moves[k][2] \in Regs \cup Memory \cup Literals
                         /\ i.moves[k][2] \notin Reserved
                         /\ Holds(a, i.moves[k][2], i.as, <<i.moves[k][2]>>)
  BY JumpNumbers
<1>0. RegisterMoves(i) = moves
  BY DEF RegisterMoves, IsJump
<1>2. b = Assign(f[n], moves, i.ds)
  BY <1>0 DEF EmitBlockArguments, Moving, NextMoved
<1>3. Moving(a, i, f, n)
  BY <1>1, MovingExists
<1>d. ~Dead(b) /\ ~Dead(f[n])
  <2>1. ~Dead(b)
    OBVIOUS
  <2>2. \A v \in moves : v[1] \in Regs
    OBVIOUS
  <2> HIDE DEF f, moves, b
  <2> QED
    BY <1>2, <2>1, <2>2, DeadAssign
<1> HIDE DEF f, b
<1>4. SlotsMoved(a, f[n], i, n)
  BY <1>d, <1>3, AllSlotsMoved
<1> DEFINE q == f[n]
<1>5. /\ Ready(q) /\ IsMachine(a) /\ Kept(a, q, before) /\ q.busy = a.busy
      /\ i.ds \in 0..8 /\ i.ds \in Nat /\ i.as = i.ds
      /\ Apart(i.moves) =>
           \A k \in 1..n : i.moves[k][1] \in Slots =>
              Holds(q, i.moves[k][1], i.ds, <<i.moves[k][2]>>)
  BY <1>4 DEF SlotsMoved, IsJump, Ready
<1> HIDE DEF q
<1>6. \A v \in Range(i.moves) : \E k \in 1..n : v = i.moves[k]
  BY <1>1 DEF Range
<1>7. \A v, w \in moves : v[1] = w[1] => v[2] = w[2]
  <2>1. ASSUME NEW v \in moves, NEW w \in moves, v[1] = w[1] PROVE v[2] = w[2]
    <3>1. PICK k \in 1..n : v = i.moves[k]
      BY <1>6
    <3>2. PICK l \in 1..n : w = i.moves[l]
      BY <1>6
    <3> QED
      BY <1>1, <2>1, <3>1, <3>2 DEF IsJump
  <2> QED
    BY <2>1
<1>8. Assigned(q, b, moves, i.ds)
  <2>1. \A v \in moves : v[1] \in Regs
    OBVIOUS
  <2>2. b = Assign(q, moves, i.ds)
    BY <1>2 DEF q
  <2> HIDE DEF moves
  <2> QED
    BY <1>d, <1>5, <1>7, <2>1, <2>2, AssignDoes
<1>9. /\ Ready(b) /\ Costs(a, b, Price(i))
      /\ b.stack = a.stack /\ b.base = a.base /\ b.mem = a.mem /\ b.flag = a.flag
  <2> HIDE DEF moves, before
  <2> QED
    BY <1>0, <1>5, <1>8 DEF Assigned, Kept, Costs, Price
<1>10. ASSUME NEW p \in Places \ (params \cup Reserved) PROVE b.val[p] = a.val[p]
  <2>1. \A v \in moves : v[1] # p
    OBVIOUS
  <2>2. p \notin before
    <3>1. \A k \in 1..n : i.moves[k][1] # p
      <4>1. \A k \in 1..n : i.moves[k] \in Range(i.moves)
        BY <1>1 DEF Range
      <4> QED
        BY <4>1
    <3> QED
      BY <3>1
  <2> HIDE DEF moves, before
  <2> QED
    BY <1>5, <1>8, <2>1, <2>2 DEF Assigned, Kept
<1>11. ASSUME Apart(i.moves), NEW v \in Range(i.moves)
       PROVE  Holds(b, v[1], i.ds, <<v[2]>>)
  <2>1. PICK k \in 1..n : v = i.moves[k]
    BY <1>6
  <2>2. CASE v[1] \in Regs
    <3>1. v[2] \notin before
      <4>1. ASSUME NEW l \in 1..n, i.moves[l][1] \in Slots PROVE i.moves[l][1] # v[2]
        <5>1. l # k
          BY <2>1, <2>2, <4>1, Kinds DEF Registers, Memory
        <5> QED
          BY <1>1, <1>11, <2>1, <4>1, <5>1 DEF Apart
      <4> QED
        BY <1>1, <2>1, <4>1
    <3>2. Holds(a, v[2], i.ds, <<v[2]>>)
      BY <1>1, <1>5, <2>1
    <3>3. Holds(q, v[2], i.ds, <<v[2]>>)
      <4> HIDE DEF before
      <4> QED
        BY <1>5, <3>1, <3>2, HoldsKept
    <3>4. v \in moves /\ v[1] \in Places
      BY <2>2, Kinds DEF Registers
    <3>5. b.val[v[1]] = <<v[2]>> /\ b.bytes[v[1]] = i.ds
      <4> HIDE DEF moves
      <4> QED
        BY <1>8, <3>3, <3>4 DEF Assigned
    <3> QED
      BY <1>5, <3>4, <3>5 DEF Holds
  <2>3. CASE v[1] \notin Regs
    <3>1. v[1] \in Slots /\ v[1] \in Places
      BY <1>1, <2>1, <2>3, Kinds DEF Memory
    <3>2. Holds(q, v[1], i.ds, <<v[2]>>)
      BY <1>5, <1>11, <2>1, <3>1
    <3>3. \A w \in moves : w[1] # v[1]
      BY <2>3
    <3>4. b.val[v[1]] = q.val[v[1]] /\ b.bytes[v[1]] = q.bytes[v[1]]
      <4> HIDE DEF moves
      <4> QED
        BY <1>8, <3>1, <3>3 DEF Assigned
    <3> QED
      BY <3>2, <3>4 DEF Holds
  <2> QED
    BY <2>2, <2>3
<1> QED
  BY <1>9, <1>10, <1>11 DEF BlockArgumentsArrived, b

-----------------------------------------------------------------------------
(* The inductive invariant.                                                *)

\* The places whose contents belong to the caller.
Caller(own) == (CalleeSaved \ own) \cup {"rbp"}

\* The frame of a function that uses the registers of own.
Framed(mm, own) ==
    LET rs == SetToSeq(own) IN
    /\ mm.base = 2
    /\ Len(mm.stack) = 2 + Locals + Len(rs) + Pad(Len(rs))
    /\ mm.stack[1] = <<"return">> /\ mm.stack[2] = <<"caller", "rbp">>
    /\ \A k \in 1..Len(rs) : mm.stack[2 + Locals + k] = <<"caller", rs[k]>>
    /\ \A p \in Caller(own) : mm.val[p] = <<"caller", p>>

\* Between two functions.
AtRest(mm) ==
    /\ mm.stack = <<>> \/ mm.stack = <<<<"return">>>>
    /\ \A p \in CalleeSaved \cup {"rbp"} :
          mm.val[p] = <<"caller", p>> /\ mm.bytes[p] = 8

\* In front of an instruction.
InBody(mm, own) ==
    /\ Framed(mm, own) /\ mm.mem = <<>>
    /\ \A p \in Places : mm.bytes[p] = 8
    /\ \A p \in Places \ Caller(own) : mm.val[p] = <<p>>

\* Behind one: the bodies of OthersKept, ArgumentsArrive and ResultArrives.
Lost(i) ==
    DOMAIN Expected(i) \cup Clobbers(i)
        \cup (IF i.op = "call" THEN Regs \ (CalleeSaved \cup i.across) ELSE {})

OthersAreKept(mm, i, own) ==
    \A p \in (Regs \cup Memory) \ Lost(i) :
        mm.val[p] = IF p \in CalleeSaved \ own THEN <<"caller", p>> ELSE <<p>>

CalleeFinds(mm, i) ==
    i.op = "call" =>
        /\ \A k \in 1..Len(i.args) :
              <<i.args[k]>> =
                IF k <= Len(ArgRegs) THEN mm.atCall.val[ArgRegs[k]]
                ELSE mm.atCall.stack[Len(mm.atCall.stack) - (k - Len(ArgRegs) - 1)]
        /\ (Len(mm.atCall.stack) - Len(mm.stack)) % 2 = 0

Arrived(mm, i) ==
    /\ mm.ok
    /\ \A p \in DOMAIN Expected(i) : Read(mm, p, i.ds) = Expected(i)[p]
    /\ i.op = "store" => mm.mem = <<<<<<i.d>>, i.ds, <<i.a>>>>>>
    /\ i.op = "br" => mm.flag = <<i.a>>

Behind(mm, i, own) ==
    /\ Framed(mm, own) /\ OthersAreKept(mm, i, own) /\ CalleeFinds(mm, i)
    /\ i.op = "call" => i.args \in Seq(Operands)
    /\ Plain => Arrived(mm, i)

IInv ==
    /\ used \subseteq CalleeSaved
    /\ \/ pc = "out" /\ Ready(m) /\ AtRest(m)
       \/ pc = "body" /\ Ready(m) /\ InBody(m, used)
       \/ pc = "emitted" /\ Ready(m) /\ Behind(m, ins, used)
       \/ pc = "dead"

-----------------------------------------------------------------------------
(* The machine in front of an instruction.                                 *)

\* What the code of an instruction starts from, with operands in their widths.
Starts(a, i) ==
    /\ Ready(a) /\ a.busy = m.busy /\ a.stack = m.stack /\ a.base = m.base /\ a.mem = <<>>
    /\ a.val = m.val
    /\ a.bytes = [p \in Places |-> IF p = i.a THEN i.as ELSE IF p = i.b THEN i.bs ELSE 8]

LEMMA BeforeDoes ==
    ASSUME NEW i, i.as \in Nat, i.bs \in Nat, Ready(m), m.mem = <<>>
    PROVE  Starts(Before(i), i)
<1> DEFINE w == [p \in Places |-> IF p = i.a THEN i.as ELSE IF p = i.b THEN i.bs ELSE 8]
           b == [m EXCEPT !.bytes = w]
<1>1. w \in [Places -> Nat]
  OBVIOUS
<1>2. Before(i) = b
  BY DEF Before
<1>3. w = w
  OBVIOUS
<1> HIDE DEF w
<1>4. /\ b = [f \in Fields |-> b[f]]
      /\ b.val = m.val /\ b.bytes = w /\ b.busy = m.busy
      /\ b.stack = m.stack /\ b.base = m.base /\ b.mem = m.mem
      /\ b.atCall = m.atCall /\ b.flag = m.flag /\ b.ok = m.ok
  BY DEF Ready, IsMachine, Fields
<1> HIDE DEF b
<1>5. Ready(b)
  BY <1>1, <1>4 DEF Ready, IsMachine
<1> QED
  BY <1>2, <1>4, <1>5 DEF Starts, w

\* The operands of an instruction: none of them belongs to the caller.
Nameable == Dests \cup Globals \cup Literals

LEMMA NameableKinds ==
    ASSUME used \subseteq CalleeSaved
    PROVE  /\ Nameable \subseteq Regs \cup Memory \cup Literals
           /\ Nameable \cap Caller(used) = {}
           /\ Dests \subseteq Regs \cup Slots
           /\ AnySources \subseteq Nameable /\ Sources \subseteq Nameable /\ Dests \subseteq Nameable
           /\ "rax" \in Dests
           /\ Caller(used) \subseteq Places
           /\ Caller(used) \cap (Reserved \cup {"rax", "rcx", "rdx"} \cup Memory) = {}
           /\ Caller(used) \cap Regs = CalleeSaved \ used
<1>1. "rbp" \notin Regs \cup Memory \cup Literals \cup Reserved /\ CalleeSaved \subseteq Regs
  BY EmitterAssumption
<1>2. /\ Regs \cap (Reserved \cup Memory \cup Literals) = {}
      /\ {"rax", "rcx", "rdx"} \cap CalleeSaved = {} /\ "rax" \in Regs
  BY EmitterAssumption
<1> QED
  BY <1>1, <1>2 DEF Nameable, Dests, AnySources, Sources, Caller, Memory, Literals, Places

LEMMA OperandHolds ==
    ASSUME NEW i, Starts(Before(i), i), InBody(m, used), used \subseteq CalleeSaved,
           NEW o \in Nameable, NEW n \in 0..8,
           o = i.a => n <= i.as, o = i.b /\ o # i.a => n <= i.bs
    PROVE  Holds(Before(i), o, n, <<o>>)
<1>1. CASE o \in Literals
  BY <1>1 DEF Holds
<1>2. CASE o \notin Literals
  <2>1. o \in Places /\ o \notin Caller(used)
    BY <1>2, NameableKinds DEF Places
  <2>2. Before(i).val[o] = <<o>>
    BY <2>1 DEF Starts, InBody
  <2>3. Before(i).bytes[o] = IF o = i.a THEN i.as ELSE IF o = i.b THEN i.bs ELSE 8
    BY <2>1 DEF Starts
  <2>4. Before(i).bytes[o] >= n
    BY <2>3
  <2> QED
    BY <2>1, <2>2, <2>4 DEF Holds
<1> QED
  BY <1>1, <1>2

-----------------------------------------------------------------------------
(* The machine behind an instruction.                                      *)

\* The machine in front of an instruction is the one that an inductive step starts from.
AtBody == Ready(m) /\ used \subseteq CalleeSaved /\ InBody(m, used)

LEMMA ClobbersAre ==
    ASSUME NEW i
    PROVE  Clobbers(i) \subseteq {"rax", "rcx", "rdx"}
BY DEF Clobbers

\* The code of an instruction leaves the places outside of lost as they were.
Untouched(b, lost) ==
    /\ Ready(b) /\ b.stack = m.stack /\ b.base = m.base
    /\ \A p \in Places \ lost : b.val[p] = m.val[p]

LEMMA FrameStays ==
    ASSUME AtBody, NEW b, NEW lost, Untouched(b, lost), lost \cap Caller(used) = {}
    PROVE  Framed(b, used)
<1>1. \A p \in Caller(used) : b.val[p] = m.val[p]
  BY NameableKinds DEF AtBody, Untouched
<1> QED
  BY <1>1 DEF AtBody, InBody, Framed, Untouched

LEMMA OthersStay ==
    ASSUME AtBody, NEW b, NEW lost, Untouched(b, lost), NEW i,
           lost \subseteq Lost(i) \cup Reserved
    PROVE  OthersAreKept(b, i, used)
<1>1. Regs \cup Memory \subseteq Places /\ (Regs \cup Memory) \cap Reserved = {}
  BY EmitterAssumption DEF Places
<1>2. CalleeSaved \subseteq Regs /\ "rbp" \notin Regs \cup Memory
  BY EmitterAssumption
<1>3. ASSUME NEW p \in (Regs \cup Memory) \ Lost(i)
      PROVE  b.val[p] = IF p \in CalleeSaved \ used THEN <<"caller", p>> ELSE <<p>>
  <2>1. p \in Places \ lost
    BY <1>1
  <2>2. b.val[p] = m.val[p]
    BY <2>1 DEF Untouched
  <2>3. p \in Caller(used) <=> p \in CalleeSaved \ used
    BY <1>2 DEF Caller
  <2> QED
    BY <2>1, <2>2, <2>3 DEF AtBody, InBody, Framed
<1> QED
  BY <1>3 DEF OthersAreKept

\* One place is written, and nothing is moved at once.
Simple(i) == i.op \notin {"jmp", "br", "none", "store", "call"} /\ i.moves = <<>>

LEMMA NoMovesCostNothing ==
    ASSUME NEW i, i.op # "call", i.moves = <<>>
    PROVE  Price(i) = 0
<1>1. RegisterMoves(i) = {}
  BY DEF RegisterMoves, Range
<1>2. Cycles({}) = {}
  BY DEF Cycles, Closed
<1> QED
  BY <1>1, <1>2, FS_EmptySet DEF Price

\* The code of an instruction that was printed is as the properties say.
Emits(b, i) == Ready(b) /\ Behind(b, i, used) /\ Costs(m, b, Price(i))

LEMMA StepDone ==
    ASSUME AtBody, NEW i, NEW b, Simple(i), Starts(Before(i), i),
           i.d \in Dests \cup Globals, i.ds \in Nat,
           Computes(Before(i), b, ({i.d} \cup Clobbers(i)) \cup Reserved, i.d, i.ds, Meaning(i))
    PROVE  Emits(b, i)
<1> DEFINE lost == ({i.d} \cup Clobbers(i)) \cup Reserved
<1>1. Untouched(b, lost)
  BY DEF Computes, Kept, Starts, Untouched, Ready
<1>2. Expected(i) = [p \in {i.d} |-> Meaning(i)]
  BY DEF Expected, Simple
<1>3. DOMAIN Expected(i) = {i.d} /\ Expected(i)[i.d] = Meaning(i)
  BY <1>2
<1>4. Lost(i) = {i.d} \cup Clobbers(i)
  BY <1>3 DEF Lost, Simple
<1>5. lost \cap Caller(used) = {}
  BY NameableKinds, ClobbersAre DEF AtBody, Nameable
<1>6. Framed(b, used)
  BY <1>1, <1>5, FrameStays
<1>7. OthersAreKept(b, i, used)
  BY <1>1, <1>4, OthersStay
<1>8. Read(b, i.d, i.ds) = Meaning(i)
  BY ReadHolds DEF Computes
<1>9. Arrived(b, i)
  BY <1>3, <1>8 DEF Arrived, Computes, Simple
<1>10. CalleeFinds(b, i) /\ i.op # "call"
  BY DEF CalleeFinds, Simple
<1>11. Costs(m, b, Price(i))
  <2>1. b.busy = m.busy
    BY DEF Computes, Starts
  <2> QED
    BY <2>1, CostsNothing, NoMovesCostNothing DEF Simple
<1> QED
  BY <1>1, <1>6, <1>7, <1>9, <1>10, <1>11 DEF Emits, Behind, Untouched

-----------------------------------------------------------------------------
(* Every instruction, from the operands that the actions choose.           *)

LEMMA SizesAre == Sizes \subseteq 1..8 /\ 8 \in 1..8 /\ 1..8 \subseteq 0..8 /\ 1 \in 1..8
BY EmitterAssumption

LEMMA Widths ==
    ASSUME NEW n \in 1..8
    PROVE  n \in Nat /\ n \in 0..8 /\ n <= n
OBVIOUS

\* The fields of an instruction with three operands.
IsInstruction(i, op, d, a, b, ds, as, bs) ==
    /\ i.op = op /\ i.d = d /\ i.a = a /\ i.b = b
    /\ i.ds = ds /\ i.as = as /\ i.bs = bs /\ i.moves = <<>>

LEMMA InstructionStarts ==
    ASSUME AtBody, NEW op, NEW d, NEW a, NEW b, NEW ds \in 1..8, NEW as \in 1..8,
           NEW bs \in 1..8, NEW i, i = Instruction(op, d, a, b, ds, as, bs)
    PROVE  /\ IsInstruction(i, op, d, a, b, ds, as, bs)
           /\ Starts(Before(i), i) /\ Ready(Before(i))
           /\ a \in Nameable => Holds(Before(i), a, as, <<a>>)
           /\ b \in Nameable /\ as = bs => Holds(Before(i), b, bs, <<b>>)
<1>1. IsInstruction(i, op, d, a, b, ds, as, bs)
  BY DEF Instruction, IsInstruction
<1>2. as \in Nat /\ as \in 0..8 /\ bs \in Nat /\ bs \in 0..8 /\ as <= as /\ bs <= bs
  BY Widths
<1>3. Starts(Before(i), i)
  <2>1. i.as \in Nat /\ i.bs \in Nat
    BY ONLY <1>1, <1>2 DEF IsInstruction
  <2>2. Ready(m) /\ m.mem = <<>>
    BY DEF AtBody, InBody
  <2> QED
    BY <2>1, <2>2, BeforeDoes
<1>4. InBody(m, used) /\ used \subseteq CalleeSaved
  BY DEF AtBody
<1>5. ASSUME a \in Nameable PROVE Holds(Before(i), a, as, <<a>>)
  <2>1. as \in 0..8 /\ (a = i.a => as <= i.as) /\ (a = i.b /\ a # i.a => as <= i.bs)
    BY ONLY <1>1, <1>2 DEF IsInstruction
  <2> QED
    BY <1>3, <1>4, <1>5, <2>1, OperandHolds
<1>6. ASSUME b \in Nameable, as = bs PROVE Holds(Before(i), b, bs, <<b>>)
  <2>1. bs \in 0..8 /\ (b = i.a => bs <= i.as) /\ (b = i.b /\ b # i.a => bs <= i.bs)
    BY ONLY <1>1, <1>2, <1>6 DEF IsInstruction
  <2> QED
    BY <1>3, <1>4, <1>6, <2>1, OperandHolds
<1> QED
  BY <1>1, <1>3, <1>5, <1>6 DEF Starts

LEMMA Emitting ==
    ASSUME AtBody, NEW i, NEW b, Simple(i), Starts(Before(i), i),
           i.d \in Dests \cup Globals, i.ds \in Nat,
           Computes(Before(i), b, {i.d} \cup Reserved, i.d, i.ds, Meaning(i))
    PROVE  Emits(b, i)
<1>1. {i.d} \cup Reserved \subseteq ({i.d} \cup Clobbers(i)) \cup Reserved
  OBVIOUS
<1>2. Computes(Before(i), b, ({i.d} \cup Clobbers(i)) \cup Reserved, i.d, i.ds, Meaning(i))
  BY <1>1, ComputesMore
<1> QED
  BY <1>2, StepDone

LEMMA MoveEmits ==
    ASSUME AtBody, NEW s \in Sizes, NEW a \in AnySources \cup Globals,
           NEW d \in Dests \cup Globals, NEW i,
           i = Instruction("mov", d, a, "none", s, s, s),
           ~Dead(EmitMove(Before(i), i))
    PROVE  Emits(EmitMove(Before(i), i), i)
<1>1. s \in 1..8
  BY SizesAre
<1>2. /\ IsInstruction(i, "mov", d, a, "none", s, s, s)
      /\ Starts(Before(i), i) /\ Ready(Before(i))
      /\ a \in Nameable => Holds(Before(i), a, s, <<a>>)
  BY <1>1, InstructionStarts
<1>3. a \in Nameable /\ d \in Regs \cup Memory /\ a \in Anything
  BY NameableKinds DEF Nameable, AtBody, Memory, Anything
<1>4. Meaning(i) = <<i.a>>
  BY <1>2 DEF Meaning, IsInstruction
<1>5. i.ds \in 0..8 /\ i.as \in 0..8 /\ i.ds <= i.as /\ i.ds \in Nat
  BY <1>1, <1>2 DEF IsInstruction
<1>6. Computes(Before(i), EmitMove(Before(i), i), {i.d} \cup Reserved, i.d, i.ds, Meaning(i))
  BY <1>2, <1>3, <1>4, <1>5, MoveComputes DEF IsInstruction
<1>7. Simple(i) /\ i.d \in Dests \cup Globals
  BY <1>2 DEF Simple, IsInstruction
<1> QED
  BY <1>2, <1>5, <1>6, <1>7, Emitting

LEMMA CastEmits ==
    ASSUME AtBody, NEW s \in Sizes, NEW t \in Sizes, NEW a \in AnySources,
           NEW d \in Dests, NEW i, Allocated(i),
           i = Instruction("cast", d, a, "none", s, t, t),
           ~Dead(EmitCast(Before(i), i))
    PROVE  Emits(EmitCast(Before(i), i), i)
<1>1. s \in 1..8 /\ t \in 1..8
  BY SizesAre
<1>2. /\ IsInstruction(i, "cast", d, a, "none", s, t, t)
      /\ Starts(Before(i), i) /\ Ready(Before(i))
      /\ a \in Nameable => Holds(Before(i), a, t, <<a>>)
  BY <1>1, InstructionStarts
<1>3. a \in Nameable /\ d \in Regs \cup Memory /\ a \in Anything
  BY NameableKinds DEF Nameable, AtBody, Memory, Anything
<1>4. i.d # i.a
  BY <1>2 DEF Allocated, IsInstruction, Division
<1>5. i.ds \in 0..8 /\ i.as \in 0..8 /\ i.ds \in Nat
  BY <1>1, <1>2 DEF IsInstruction
<1>6. Computes(Before(i), EmitCast(Before(i), i), {i.d} \cup Reserved, i.d, i.ds, Meaning(i))
  BY <1>2, <1>3, <1>4, <1>5, CastComputes DEF IsInstruction
<1>7. Simple(i) /\ i.d \in Dests \cup Globals
  BY <1>2 DEF Simple, IsInstruction
<1> QED
  BY <1>2, <1>5, <1>6, <1>7, Emitting

LEMMA OperandKinds ==
    /\ Dests \subseteq Regs \cup Slots /\ Dests \subseteq Regs \cup Memory
    /\ Dests \subseteq Anything /\ Dests \subseteq Nameable
    /\ Sources \subseteq Regs \cup Slots \cup Imms /\ Sources \subseteq Regs \cup Memory \cup Imms
    /\ Sources \subseteq Anything /\ Sources \subseteq Nameable
    /\ AnySources \subseteq Anything /\ AnySources \subseteq Nameable
    /\ Memory \subseteq Anything
BY DEF Dests, Sources, AnySources, Anything, Nameable, Memory, Literals

LEMMA ComparisonEmits ==
    ASSUME AtBody, NEW s \in Sizes, NEW a \in Sources, NEW b \in Sources,
           NEW d \in Dests, NEW i, Allocated(i),
           i = Instruction("less", d, a, b, 1, s, s),
           ~Dead(EmitComparison(Before(i), i))
    PROVE  Emits(EmitComparison(Before(i), i), i)
<1>1. s \in 1..8 /\ 1 \in 1..8
  BY SizesAre
<1>2. /\ IsInstruction(i, "less", d, a, b, 1, s, s)
      /\ Starts(Before(i), i) /\ Ready(Before(i))
      /\ a \in Nameable => Holds(Before(i), a, s, <<a>>)
      /\ b \in Nameable => Holds(Before(i), b, s, <<b>>)
  BY ONLY <1>1, InstructionStarts, AtBody, i = Instruction("less", d, a, b, 1, s, s)
<1>3. d \in Dests /\ d \in Regs \cup Memory /\ a \in Anything /\ b \in Regs \cup Memory \cup Imms
      /\ a \in Nameable /\ b \in Nameable
  BY OperandKinds, NameableKinds, EmitterAssumption DEF AtBody
<1>4. i.d # i.a
  BY <1>2 DEF Allocated, IsInstruction, Division, Clobbers
<1>5. i.ds \in 0..8 /\ i.as \in 0..8 /\ i.bs \in 0..8 /\ i.ds \in Nat /\ i.ds \in 1..8
  BY ONLY <1>1, <1>2, Widths, SizesAre DEF IsInstruction
<1>6. Computes(Before(i), EmitComparison(Before(i), i), {i.d} \cup Reserved, i.d, i.ds, Meaning(i))
  BY <1>1, <1>2, <1>3, <1>4, <1>5, ComparisonComputes DEF IsInstruction
<1>7. Simple(i) /\ i.d \in Dests \cup Globals
  BY <1>2, <1>3 DEF Simple, IsInstruction
<1> QED
  BY <1>2, <1>5, <1>6, <1>7, Emitting

LEMMA ArithmeticEmits ==
    ASSUME AtBody, NEW s \in Sizes, NEW a \in AnySources, NEW b \in Sources,
           NEW d \in Dests, NEW i, Allocated(i),
           i = Instruction("add", d, a, b, s, s, s),
           ~Dead(EmitArithmetic(Before(i), i))
    PROVE  Emits(EmitArithmetic(Before(i), i), i)
<1>1. s \in 1..8
  BY SizesAre
<1>2. /\ IsInstruction(i, "add", d, a, b, s, s, s)
      /\ Starts(Before(i), i) /\ Ready(Before(i))
      /\ a \in Nameable => Holds(Before(i), a, s, <<a>>)
      /\ b \in Nameable => Holds(Before(i), b, s, <<b>>)
  BY ONLY <1>1, InstructionStarts, AtBody, i = Instruction("add", d, a, b, s, s, s)
<1>3. d \in Dests /\ d \in Regs \cup Slots /\ a \in Anything /\ b \in Regs \cup Slots \cup Imms
      /\ a \in Nameable /\ b \in Nameable
  BY OperandKinds, NameableKinds, EmitterAssumption DEF AtBody
<1>4. i.d # i.b
  BY <1>2 DEF Allocated, IsInstruction, Division, Clobbers
<1>5. i.ds \in 0..8 /\ i.as \in 0..8 /\ i.bs \in 0..8 /\ i.ds \in Nat /\ i.ds \in 1..8
  BY ONLY <1>1, <1>2, Widths, SizesAre DEF IsInstruction
<1>6. Computes(Before(i), EmitArithmetic(Before(i), i), {i.d} \cup Reserved, i.d, i.ds, Meaning(i))
  BY <1>1, <1>2, <1>3, <1>4, <1>5, ArithmeticComputes DEF IsInstruction
<1>7. Simple(i) /\ i.d \in Dests \cup Globals
  BY <1>2, <1>3 DEF Simple, IsInstruction
<1> QED
  BY <1>2, <1>5, <1>6, <1>7, Emitting

LEMMA MulEmits ==
    ASSUME AtBody, NEW s \in Sizes, NEW a \in AnySources, NEW b \in Sources,
           NEW d \in Dests, NEW i, Allocated(i),
           i = Instruction("mul", d, a, b, s, s, s),
           ~Dead(EmitMul(Before(i), i))
    PROVE  Emits(EmitMul(Before(i), i), i)
<1>1. s \in 1..8
  BY SizesAre
<1>2. /\ IsInstruction(i, "mul", d, a, b, s, s, s)
      /\ Starts(Before(i), i) /\ Ready(Before(i))
      /\ a \in Nameable => Holds(Before(i), a, s, <<a>>)
      /\ b \in Nameable => Holds(Before(i), b, s, <<b>>)
  BY ONLY <1>1, InstructionStarts, AtBody, i = Instruction("mul", d, a, b, s, s, s)
<1>3. d \in Dests /\ d \in Regs \cup Slots /\ a \in Anything /\ b \in Regs \cup Slots \cup Imms
      /\ a \in Nameable /\ b \in Nameable
  BY OperandKinds, NameableKinds, EmitterAssumption DEF AtBody
<1>4. i.d # i.b /\ (i.d = i.a => i.d \in Regs) /\ (i.ds = 1 => i.b # "rax")
  BY <1>2 DEF Allocated, IsInstruction, Division, Clobbers
<1>5. i.ds \in 0..8 /\ i.as \in 0..8 /\ i.bs \in 0..8 /\ i.ds \in Nat /\ i.ds \in 1..8
  BY ONLY <1>1, <1>2, Widths, SizesAre DEF IsInstruction
<1>6. Computes(Before(i), EmitMul(Before(i), i), ({i.d} \cup Clobbers(i)) \cup Reserved, i.d, i.ds, Meaning(i))
  BY <1>1, <1>2, <1>3, <1>4, <1>5, MulComputes DEF IsInstruction
<1>7. Simple(i) /\ i.d \in Dests \cup Globals
  BY <1>2, <1>3 DEF Simple, IsInstruction
<1> QED
  BY <1>2, <1>5, <1>6, <1>7, StepDone

LEMMA DivideEmits ==
    ASSUME AtBody, NEW op \in Division, NEW s \in Sizes, NEW a \in AnySources,
           NEW b \in AnySources, NEW d \in Dests, NEW i, Allocated(i),
           i = Instruction(op, d, a, b, s, s, s),
           ~Dead(EmitDivide(Before(i), i))
    PROVE  Emits(EmitDivide(Before(i), i), i)
<1>1. s \in 1..8
  BY SizesAre
<1>2. /\ IsInstruction(i, op, d, a, b, s, s, s)
      /\ Starts(Before(i), i) /\ Ready(Before(i))
      /\ a \in Nameable => Holds(Before(i), a, s, <<a>>)
      /\ b \in Nameable => Holds(Before(i), b, s, <<b>>)
  BY ONLY <1>1, InstructionStarts, AtBody, i = Instruction(op, d, a, b, s, s, s)
<1>3. d \in Dests /\ d \in Regs \cup Slots /\ a \in Anything /\ b \in Anything
      /\ a \in Nameable /\ b \in Nameable
  BY OperandKinds, NameableKinds, EmitterAssumption DEF AtBody
<1>4. i.op \in Division /\ i.d # i.b /\ {i.d, i.b} \cap {"rax", "rdx"} = {}
      /\ (i.b \in Places => Before(i).bytes[i.b] = i.bs)
  <2>1. i.op \in Division /\ i.d # i.b
    BY <1>2, op \in Division DEF Allocated, IsInstruction
  <2>2. Clobbers(i) = {"rax", "rdx"}
    BY <2>1 DEF Clobbers, Division
  <2>3. {i.d, i.b} \cap {"rax", "rdx"} = {}
    BY <2>2 DEF Allocated
  <2>4. i.as = i.bs
    BY <1>2 DEF IsInstruction
  <2>5. i.b \in Places => Before(i).bytes[i.b] = i.bs
    BY ONLY <1>2, <2>4 DEF Starts
  <2> QED
    BY <2>1, <2>3, <2>5
<1>5. i.ds \in 0..8 /\ i.as \in 0..8 /\ i.bs \in 0..8 /\ i.ds \in Nat /\ i.ds \in 1..8
  BY ONLY <1>1, <1>2, Widths, SizesAre DEF IsInstruction
<1>6. Computes(Before(i), EmitDivide(Before(i), i), ({i.d} \cup Clobbers(i)) \cup Reserved, i.d, i.ds, Meaning(i))
  BY <1>1, <1>2, <1>3, <1>4, <1>5, DivideComputes DEF IsInstruction
<1>7. Simple(i) /\ i.d \in Dests \cup Globals
  BY <1>2, <1>3 DEF Simple, IsInstruction, Division
<1> QED
  BY <1>2, <1>5, <1>6, <1>7, StepDone

LEMMA ShiftEmits ==
    ASSUME AtBody, NEW s \in Sizes, NEW a \in AnySources, NEW b \in Sources,
           NEW d \in Dests \cap Regs, NEW i, Allocated(i),
           i = Instruction("shl", d, a, b, s, s, s),
           ~Dead(EmitShift(Before(i), i))
    PROVE  Emits(EmitShift(Before(i), i), i)
<1>1. s \in 1..8
  BY SizesAre
<1>2. /\ IsInstruction(i, "shl", d, a, b, s, s, s)
      /\ Starts(Before(i), i) /\ Ready(Before(i))
      /\ a \in Nameable => Holds(Before(i), a, s, <<a>>)
      /\ b \in Nameable => Holds(Before(i), b, s, <<b>>)
  BY ONLY <1>1, InstructionStarts, AtBody, i = Instruction("shl", d, a, b, s, s, s)
<1>3. d \in Dests /\ d \in Regs /\ a \in Anything /\ b \in Regs \cup Slots \cup Imms
      /\ a \in Nameable /\ b \in Nameable
  BY OperandKinds, NameableKinds, EmitterAssumption DEF AtBody
<1>4. i.d # i.b /\ (i.b \notin Literals => i.d # "rcx")
  BY <1>2 DEF Allocated, IsInstruction, Division, Clobbers
<1>5. i.ds \in 0..8 /\ i.as \in 0..8 /\ i.bs \in 0..8 /\ i.ds \in Nat /\ i.ds \in 1..8
  BY ONLY <1>1, <1>2, Widths, SizesAre DEF IsInstruction
<1>6. Computes(Before(i), EmitShift(Before(i), i), ({i.d} \cup Clobbers(i)) \cup Reserved, i.d, i.ds, Meaning(i))
  BY <1>1, <1>2, <1>3, <1>4, <1>5, ShiftComputes DEF IsInstruction
<1>7. Simple(i) /\ i.d \in Dests \cup Globals
  BY <1>2, <1>3 DEF Simple, IsInstruction
<1> QED
  BY <1>2, <1>5, <1>6, <1>7, StepDone

LEMMA UnaryEmits ==
    ASSUME AtBody, NEW s \in Sizes, NEW a \in AnySources, NEW d \in Dests, NEW i, Allocated(i),
           i = Instruction("neg", d, a, "none", s, s, s),
           ~Dead(EmitUnary(Before(i), i))
    PROVE  Emits(EmitUnary(Before(i), i), i)
<1>1. s \in 1..8
  BY SizesAre
<1>2. /\ IsInstruction(i, "neg", d, a, "none", s, s, s)
      /\ Starts(Before(i), i) /\ Ready(Before(i))
      /\ a \in Nameable => Holds(Before(i), a, s, <<a>>)
  BY ONLY <1>1, InstructionStarts, AtBody, i = Instruction("neg", d, a, "none", s, s, s)
<1>3. d \in Dests /\ d \in Regs \cup Memory /\ a \in Anything /\ a \in Nameable
  BY OperandKinds, NameableKinds, EmitterAssumption DEF AtBody
<1>5. i.ds \in 0..8 /\ i.as \in 0..8 /\ i.bs \in 0..8 /\ i.ds \in Nat /\ i.ds \in 1..8
  BY ONLY <1>1, <1>2, Widths, SizesAre DEF IsInstruction
<1>6. Computes(Before(i), EmitUnary(Before(i), i), {i.d} \cup Reserved, i.d, i.ds, Meaning(i))
  BY <1>1, <1>2, <1>3, <1>5, UnaryComputes DEF IsInstruction
<1>7. Simple(i) /\ i.d \in Dests \cup Globals
  BY <1>2, <1>3 DEF Simple, IsInstruction
<1> QED
  BY <1>2, <1>5, <1>6, <1>7, Emitting

LEMMA AddressOfEmits ==
    ASSUME AtBody, NEW a \in Memory, NEW d \in Dests, NEW i, Allocated(i),
           i = Instruction("address", d, a, "none", 8, 8, 8),
           ~Dead(EmitAddressOf(Before(i), i))
    PROVE  Emits(EmitAddressOf(Before(i), i), i)
<1>1. 8 \in 1..8
  BY SizesAre
<1>2. /\ IsInstruction(i, "address", d, a, "none", 8, 8, 8)
      /\ Starts(Before(i), i) /\ Ready(Before(i))
      /\ a \in Nameable => Holds(Before(i), a, 8, <<a>>)
  BY ONLY <1>1, InstructionStarts, AtBody, i = Instruction("address", d, a, "none", 8, 8, 8)
<1>3. d \in Dests /\ d \in Regs \cup Memory
  BY OperandKinds, NameableKinds, EmitterAssumption DEF AtBody
<1>5. i.ds \in 0..8 /\ i.as \in 0..8 /\ i.bs \in 0..8 /\ i.ds \in Nat /\ i.ds \in 1..8
  BY ONLY <1>1, <1>2, Widths, SizesAre DEF IsInstruction
<1>6. Computes(Before(i), EmitAddressOf(Before(i), i), {i.d} \cup Reserved, i.d, i.ds, Meaning(i))
  BY <1>1, <1>2, <1>3, <1>5, AddressOfComputes DEF IsInstruction
<1>7. Simple(i) /\ i.d \in Dests \cup Globals
  BY <1>2, <1>3 DEF Simple, IsInstruction
<1> QED
  BY <1>2, <1>5, <1>6, <1>7, Emitting

LEMMA DereferenceEmits ==
    ASSUME AtBody, NEW s \in Sizes, NEW a \in Dests, NEW d \in Dests, NEW i, Allocated(i),
           i = Instruction("at", d, a, "none", s, 8, 8),
           ~Dead(EmitDereference(Before(i), i))
    PROVE  Emits(EmitDereference(Before(i), i), i)
<1>1. s \in 1..8 /\ 8 \in 1..8
  BY SizesAre
<1>2. /\ IsInstruction(i, "at", d, a, "none", s, 8, 8)
      /\ Starts(Before(i), i) /\ Ready(Before(i))
      /\ a \in Nameable => Holds(Before(i), a, 8, <<a>>)
  BY ONLY <1>1, InstructionStarts, AtBody, i = Instruction("at", d, a, "none", s, 8, 8)
<1>3. d \in Dests /\ d \in Regs \cup Memory /\ a \in Anything /\ a \in Nameable
  BY OperandKinds, NameableKinds, EmitterAssumption DEF AtBody
<1>5. i.ds \in 0..8 /\ i.as \in 0..8 /\ i.bs \in 0..8 /\ i.ds \in Nat /\ i.ds \in 1..8
  BY ONLY <1>1, <1>2, Widths, SizesAre DEF IsInstruction
<1>6. Computes(Before(i), EmitDereference(Before(i), i), {i.d} \cup Reserved, i.d, i.ds, Meaning(i))
  BY <1>1, <1>2, <1>3, <1>5, DereferenceComputes DEF IsInstruction
<1>7. Simple(i) /\ i.d \in Dests \cup Globals
  BY <1>2, <1>3 DEF Simple, IsInstruction
<1> QED
  BY <1>2, <1>5, <1>6, <1>7, Emitting

LEMMA LoadEmits ==
    ASSUME AtBody, NEW s \in Sizes, NEW a \in Dests, NEW d \in Dests \cap Regs, NEW i, Allocated(i),
           i = Instruction("load", d, a, "none", s, 8, 8),
           ~Dead(EmitLoad(Before(i), i))
    PROVE  Emits(EmitLoad(Before(i), i), i)
<1>1. s \in 1..8 /\ 8 \in 1..8
  BY SizesAre
<1>2. /\ IsInstruction(i, "load", d, a, "none", s, 8, 8)
      /\ Starts(Before(i), i) /\ Ready(Before(i))
      /\ a \in Nameable => Holds(Before(i), a, 8, <<a>>)
  BY ONLY <1>1, InstructionStarts, AtBody, i = Instruction("load", d, a, "none", s, 8, 8)
<1>3. d \in Dests /\ d \in Regs /\ a \in Anything /\ a \in Nameable
  BY OperandKinds, NameableKinds, EmitterAssumption DEF AtBody
<1>4. i.d # i.a
  BY <1>2 DEF Allocated, IsInstruction, Division, Clobbers
<1>5. i.ds \in 0..8 /\ i.as \in 0..8 /\ i.bs \in 0..8 /\ i.ds \in Nat /\ i.ds \in 1..8
  BY ONLY <1>1, <1>2, Widths, SizesAre DEF IsInstruction
<1>6. Computes(Before(i), EmitLoad(Before(i), i), {i.d} \cup Reserved, i.d, i.ds, Meaning(i))
  BY <1>1, <1>2, <1>3, <1>4, <1>5, LoadComputes DEF IsInstruction
<1>7. Simple(i) /\ i.d \in Dests \cup Globals
  BY <1>2, <1>3 DEF Simple, IsInstruction
<1> QED
  BY <1>2, <1>5, <1>6, <1>7, Emitting

LEMMA GepEmits ==
    ASSUME AtBody, NEW op \in {"gep_scaled", "gep_wide"}, NEW a \in Dests,
           NEW b \in Sources, NEW d \in Dests, NEW i, Allocated(i),
           i.op = "gep_wide" => i.a \in Regs,
           i = Instruction(op, d, a, b, 8, 8, 8),
           ~Dead(EmitGep(Before(i), i))
    PROVE  Emits(EmitGep(Before(i), i), i)
<1>1. 8 \in 1..8
  BY SizesAre
<1>2. /\ IsInstruction(i, op, d, a, b, 8, 8, 8)
      /\ Starts(Before(i), i) /\ Ready(Before(i))
      /\ a \in Nameable => Holds(Before(i), a, 8, <<a>>)
      /\ b \in Nameable => Holds(Before(i), b, 8, <<b>>)
  BY ONLY <1>1, InstructionStarts, AtBody, i = Instruction(op, d, a, b, 8, 8, 8)
<1>3. d \in Dests /\ d \in Regs \cup Memory /\ a \in Regs \cup Slots /\ b \in Anything
      /\ a \in Nameable /\ b \in Nameable
  BY OperandKinds, NameableKinds, EmitterAssumption DEF AtBody
<1>4. i.op \in {"gep_scaled", "gep_wide"} /\ i.d # i.b
  BY <1>2 DEF Allocated, IsInstruction, Division, Clobbers
<1>5. i.ds \in 0..8 /\ i.as \in 0..8 /\ i.bs \in 0..8 /\ i.ds \in Nat /\ i.ds \in 1..8
  BY ONLY <1>1, <1>2, Widths, SizesAre DEF IsInstruction
<1>6. Computes(Before(i), EmitGep(Before(i), i), {i.d} \cup Reserved, i.d, i.ds, Meaning(i))
  BY <1>1, <1>2, <1>3, <1>4, <1>5, GepComputes DEF IsInstruction
<1>7. Simple(i) /\ i.d \in Dests \cup Globals
  BY <1>2, <1>3 DEF Simple, IsInstruction, Division
<1> QED
  BY <1>2, <1>5, <1>6, <1>7, Emitting

LEMMA ReturnEmits ==
    ASSUME AtBody, NEW s \in Sizes, NEW a \in AnySources, NEW i, Allocated(i),
           i = Instruction("ret", "rax", a, "none", s, s, s),
           ~Dead(EmitReturn(Before(i), i))
    PROVE  Emits(EmitReturn(Before(i), i), i)
<1>1. s \in 1..8
  BY SizesAre
<1>2. /\ IsInstruction(i, "ret", "rax", a, "none", s, s, s)
      /\ Starts(Before(i), i) /\ Ready(Before(i))
      /\ a \in Nameable => Holds(Before(i), a, s, <<a>>)
  BY ONLY <1>1, InstructionStarts, AtBody, i = Instruction("ret", "rax", a, "none", s, s, s)
<1>3. "rax" \in Dests /\ a \in Anything /\ a \in Nameable
  BY OperandKinds, NameableKinds, EmitterAssumption DEF AtBody
<1>5. i.ds \in 0..8 /\ i.as \in 0..8 /\ i.bs \in 0..8 /\ i.ds \in Nat /\ i.ds \in 1..8
  BY ONLY <1>1, <1>2, Widths, SizesAre DEF IsInstruction
<1>6. Computes(Before(i), EmitReturn(Before(i), i), {i.d} \cup Reserved, i.d, i.ds, Meaning(i))
  BY <1>1, <1>2, <1>3, <1>5, ReturnComputes DEF IsInstruction
<1>7. Simple(i) /\ i.d \in Dests \cup Globals
  BY <1>2, <1>3 DEF Simple, IsInstruction
<1> QED
  BY <1>2, <1>5, <1>6, <1>7, Emitting

LEMMA StoreEmits ==
    ASSUME AtBody, NEW s \in Sizes, NEW t \in Sizes, NEW a \in AnySources,
           NEW d \in Dests, NEW i, Allocated(i),
           i = Instruction("store", d, a, "none", t, s, s),
           i.as # i.ds => "store" \in Untyped,
           ~Dead(EmitStoreIndirect(Before(i), i))
    PROVE  Emits(EmitStoreIndirect(Before(i), i), i)
<1> DEFINE b == EmitStoreIndirect(Before(i), i)
<1>1. s \in 1..8 /\ t \in 1..8
  BY SizesAre
<1>2. /\ IsInstruction(i, "store", d, a, "none", t, s, s)
      /\ Starts(Before(i), i) /\ Ready(Before(i))
      /\ a \in Nameable => Holds(Before(i), a, s, <<a>>)
  BY ONLY <1>1, InstructionStarts, AtBody, i = Instruction("store", d, a, "none", t, s, s)
<1>3. d \in Regs \cup Memory /\ a \in Anything /\ a \in Nameable /\ d \in Nameable
  BY OperandKinds
<1>4. i.d # i.a /\ i.d # i.b
  BY <1>2 DEF Allocated, IsInstruction, Division
<1>5. i.as \in 0..8 /\ 8 \in 0..8
  BY ONLY <1>1, <1>2, Widths, SizesAre DEF IsInstruction
<1>6. Holds(Before(i), i.d, 8, <<i.d>>)
  <2>1. i.d \in Nameable /\ InBody(m, used) /\ used \subseteq CalleeSaved
    BY <1>2, <1>3 DEF IsInstruction, AtBody
  <2> QED
    BY <1>2, <1>4, <1>5, <2>1, OperandHolds
<1>7. Holds(Before(i), i.a, i.as, <<i.a>>)
  BY <1>2, <1>3 DEF IsInstruction
<1>8. /\ IsMachine(b) /\ b.busy = Before(i).busy /\ b.ok
      /\ b.stack = Before(i).stack /\ b.base = Before(i).base
      /\ b.mem = <<<<<<i.d>>, i.as, <<i.a>>>>>>
      /\ \A p \in Places \ Reserved :
            b.val[p] = Before(i).val[p] /\ b.bytes[p] >= Before(i).bytes[p]
  <2>1. i.d \in Regs \cup Memory /\ i.a \in Anything /\ Before(i).mem = <<>>
    BY <1>2, <1>3 DEF IsInstruction, Starts
  <2> QED
    BY <1>2, <1>4, <1>5, <1>6, <1>7, <2>1, StoreIndirectDoes
<1> HIDE DEF b
<1>9. Untouched(b, Reserved)
  BY <1>2, <1>8 DEF Untouched, Ready, Starts
<1>10. i.op = "store"
  BY <1>2 DEF IsInstruction
<1>11. Expected(i) = <<>> /\ DOMAIN Expected(i) = {}
  BY <1>10 DEF Expected
<1>12. Framed(b, used) /\ OthersAreKept(b, i, used)
  BY <1>9, FrameStays, OthersStay, NameableKinds DEF AtBody
<1>13. Plain => i.as = i.ds
  BY DEF Plain
<1>14. Plain => Arrived(b, i)
  BY <1>8, <1>10, <1>11, <1>13 DEF Arrived
<1>15. CalleeFinds(b, i)
  BY <1>10 DEF CalleeFinds
<1>16. Costs(m, b, Price(i))
  <2>1. b.busy = m.busy /\ i.op # "call" /\ i.moves = <<>>
    BY <1>2, <1>8, <1>10 DEF Starts, IsInstruction
  <2> QED
    BY <2>1, CostsNothing, NoMovesCostNothing
<1> QED
  BY <1>8, <1>10, <1>12, <1>14, <1>15, <1>16 DEF Emits, Behind, Ready, b

LEMMA CallEmits ==
    ASSUME AtBody, NEW s \in Sizes, NEW across \in Saved, NEW args \in Arguments,
           NEW d \in Dests, NEW i, Allocated(i),
           i = CallOf(d, s, across, args),
           Range(i.args) \cap ({"rax"} \cup (CalleeSaved \ used)) = {},
           ~Dead(EmitCall(Before(i), i))
    PROVE  Emits(EmitCall(Before(i), i), i)
<1> DEFINE a == Before(i)
           b == EmitCall(a, i)
<1>1. s \in 1..8 /\ s \in 0..8 /\ s \in Nat /\ s <= s
  BY SizesAre, Widths
<1>2. /\ i.op = "call" /\ i.d = d /\ i.a = "none" /\ i.b = "none"
      /\ i.ds = s /\ i.as = s /\ i.bs = s /\ i.across = across /\ i.args = args
  BY DEF CallOf, Instruction
<1>3. Starts(a, i) /\ Ready(a)
  <2>1. i.as \in Nat /\ i.bs \in Nat
    BY ONLY <1>1, <1>2
  <2>2. Ready(m) /\ m.mem = <<>>
    BY DEF AtBody, InBody
  <2>3. Starts(a, i)
    BY <2>1, <2>2, BeforeDoes
  <2> QED
    BY <2>3 DEF Starts
<1>4. i.across \subseteq Regs /\ i.args \in Seq(Operands)
  BY <1>2, EmitterAssumption
<1>5. i.d \in Regs \cup Slots /\ i.ds \in 1..8 /\ i.as = i.ds /\ i.as \in 0..8
  <2>1. i.d \in Regs \cup Slots
    BY <1>2, OperandKinds
  <2> QED
    BY ONLY <1>1, <1>2, <2>1
<1>6. DOMAIN i.args = 1..Len(i.args)
  BY <1>4
<1>7. ASSUME NEW k \in 1..Len(i.args) PROVE Holds(a, i.args[k], i.as, <<i.args[k]>>)
  <2>1. i.args[k] \in Operands /\ i.args[k] \in Range(i.args)
    BY <1>4, <1>6 DEF Range
  <2>2. i.args[k] \in Nameable
    BY <2>1, Kinds DEF Nameable, Dests
  <2>3. InBody(m, used) /\ used \subseteq CalleeSaved
    BY DEF AtBody
  <2>4. i.as <= i.as /\ i.as <= i.bs
    BY ONLY <1>1, <1>2
  <2> QED
    BY <1>3, <1>5, <2>2, <2>3, <2>4, OperandHolds
<1>8. \A p \in Regs : a.bytes[p] >= 8
  <2>1. "none" \notin Regs /\ Regs \subseteq Places
    BY EmitterAssumption DEF Places
  <2>2. \A p \in Regs : a.bytes[p] = 8
    BY <1>2, <1>3, <2>1 DEF Starts
  <2> QED
    BY <2>2
<1>9. CallReturns(a, b, i)
  BY <1>2, <1>3, <1>4, <1>5, <1>7, <1>8, CallDoes DEF IsCall
<1> HIDE DEF b
<1> DEFINE lost == {i.d, "rax"} \cup Reserved \cup (Regs \ (CalleeSaved \cup i.across))
<1>10. Untouched(b, lost)
  BY <1>3, <1>9 DEF Untouched, CallReturns, Starts
<1>11. Clobbers(i) = {"rax"}
  BY <1>2 DEF Clobbers, Division
<1>12. /\ Expected(i) = [p \in {i.d} |-> <<"result">>]
       /\ DOMAIN Expected(i) = {i.d} /\ Expected(i)[i.d] = <<"result">>
  BY <1>2 DEF Expected, Meaning
<1>13. lost \subseteq Lost(i) \cup Reserved
  BY <1>2, <1>11, <1>12 DEF Lost
<1>14. lost \cap Caller(used) = {}
  <2>1. i.d \in Dests
    BY <1>2
  <2>2. used \subseteq CalleeSaved
    BY DEF AtBody
  <2>3. i.d \notin Caller(used) /\ "rax" \notin Caller(used) /\ Reserved \cap Caller(used) = {}
    BY <2>1, <2>2, NameableKinds
  <2>4. Caller(used) \cap Regs \subseteq CalleeSaved
    BY <2>2, NameableKinds
  <2> QED
    BY <2>3, <2>4
<1> HIDE DEF lost, a
<1>15. Framed(b, used) /\ OthersAreKept(b, i, used)
  BY <1>10, <1>13, <1>14, FrameStays, OthersStay
<1>16. CalleeFinds(b, i)
  <2>1. ASSUME NEW k \in 1..Len(i.args)
        PROVE  <<i.args[k]>> =
                 IF k <= Len(ArgRegs) THEN b.atCall.val[ArgRegs[k]]
                 ELSE b.atCall.stack[Len(b.atCall.stack) - (k - Len(ArgRegs) - 1)]
    <3>1. IF k <= Len(ArgRegs) THEN b.atCall.val[ArgRegs[k]] = <<i.args[k]>>
          ELSE b.atCall.stack[Len(b.atCall.stack) - (k - Len(ArgRegs) - 1)] = <<i.args[k]>>
      BY <1>9 DEF CallReturns
    <3> QED
      BY <3>1, Zenon
  <2>2. (Len(b.atCall.stack) - Len(b.stack)) % 2 = 0
    BY <1>9 DEF CallReturns
  <2> QED
    BY <2>1, <2>2 DEF CalleeFinds
<1>17. Arrived(b, i)
  <2>1. Ready(b) /\ Holds(b, i.d, i.ds, <<"result">>)
    BY <1>9 DEF CallReturns
  <2>2. i.ds \in Nat
    BY ONLY <1>1, <1>2
  <2>3. Read(b, i.d, i.ds) = <<"result">>
    BY <2>1, <2>2, ReadHolds DEF Ready
  <2> QED
    BY <1>2, <1>12, <2>1, <2>3 DEF Arrived, Ready
<1>18. Costs(m, b, Price(i))
  BY <1>3, <1>9 DEF CallReturns, Costs, Starts
<1> QED
  BY <1>4, <1>10, <1>15, <1>16, <1>17, <1>18 DEF Emits, Behind, Untouched, a, b

\* The machine in front of the block arguments of a jump or branch.
JumpStarts(a, i) ==
    /\ i.op \in {"jmp", "br"} /\ i.moves \in BlockMoves
    /\ IsJump(a, i)
    /\ a.busy = m.busy /\ a.stack = m.stack /\ a.base = m.base /\ a.val = m.val
    /\ \A v \in Range(i.moves) : v[1] \in Dests
    /\ i.op = "br" => a.flag = <<i.a>>

LEMMA JumpLeaves ==
    ASSUME AtBody, NEW i, NEW a, NEW b, JumpStarts(a, i), BlockArgumentsArrived(a, b, i)
    PROVE  Emits(b, i)
<1> DEFINE to == {v[1] : v \in Range(i.moves)}
           lost == to \cup Reserved
<1>0. /\ i.op \in {"jmp", "br"} /\ i.moves \in BlockMoves
      /\ IsJump(a, i)
      /\ a.busy = m.busy /\ a.stack = m.stack /\ a.base = m.base /\ a.val = m.val
      /\ \A v \in Range(i.moves) : v[1] \in Dests
      /\ i.op = "br" => a.flag = <<i.a>>
  BY DEF JumpStarts
<1>1. Untouched(b, lost)
  BY <1>0 DEF Untouched, BlockArgumentsArrived
<1>2. Expected(i) = [p \in to |-> <<(CHOOSE v \in Range(i.moves) : v[1] = p)[2]>>]
  BY <1>0 DEF Expected
<1>3. lost \subseteq Lost(i) \cup Reserved
  BY <1>2 DEF Lost
<1>4. lost \cap Caller(used) = {}
  <2>1. to \subseteq Dests /\ used \subseteq CalleeSaved
    BY <1>0 DEF AtBody
  <2> QED
    BY <2>1, NameableKinds
<1>5. Framed(b, used) /\ OthersAreKept(b, i, used)
  BY <1>1, <1>3, <1>4, FrameStays, OthersStay
<1>6. CalleeFinds(b, i) /\ i.op # "call" /\ i.op # "store"
  BY <1>0 DEF CalleeFinds
<1>7. ASSUME Plain PROVE Arrived(b, i)
  <2>1. Apart(i.moves)
    BY <1>0, <1>7 DEF Plain
  <2>2. ASSUME NEW p \in to PROVE Read(b, p, i.ds) = Expected(i)[p]
    <3> DEFINE w == CHOOSE v \in Range(i.moves) : v[1] = p
    <3>1. w \in Range(i.moves) /\ w[1] = p
      OBVIOUS
    <3>2. Expected(i)[p] = <<w[2]>>
      BY <1>2
    <3> HIDE DEF w
    <3>3. Holds(b, p, i.ds, <<w[2]>>)
      BY <2>1, <3>1 DEF BlockArgumentsArrived
    <3>4. IsMachine(b) /\ i.ds \in Nat
      BY <1>0 DEF BlockArgumentsArrived, Ready, IsJump
    <3> QED
      BY <3>2, <3>3, <3>4, ReadHolds
  <2>3. b.ok /\ (i.op = "br" => b.flag = <<i.a>>)
    BY <1>0 DEF BlockArgumentsArrived, Ready
  <2>4. DOMAIN Expected(i) = to
    BY <1>2
  <2> QED
    BY <1>6, <2>2, <2>3, <2>4 DEF Arrived
<1>8. Costs(m, b, Price(i))
  BY <1>0 DEF BlockArgumentsArrived, Costs
<1> QED
  BY <1>1, <1>5, <1>6, <1>7, <1>8 DEF Emits, Behind, Untouched

LEMMA BlockMovesAre ==
    ASSUME AtBody, NEW i, i.moves \in BlockMoves, Starts(Before(i), i),
           i.ds \in 1..8, i.as = i.ds, i.bs = i.ds,
           \A v \in Range(i.moves) : v[2] \in AnySources, i.op # "call",
           NEW a, Ready(a), a.val = Before(i).val, a.bytes = Before(i).bytes
    PROVE  IsJump(a, i)
<1>1. /\ i.moves \in Seq((Regs \cup Slots) \X Operands)
      /\ \A k, l \in DOMAIN i.moves : i.moves[k][1] = i.moves[l][1] => k = l
  BY EmitterAssumption
<1>2. i.ds \in 0..8 /\ i.as \in 0..8 /\ i.as <= i.as /\ i.as <= i.bs
  BY Widths
<1>3. ASSUME NEW v \in Range(i.moves) PROVE Holds(a, v[2], i.as, <<v[2]>>)
  <2>1. v[2] \in Nameable /\ InBody(m, used) /\ used \subseteq CalleeSaved
    BY OperandKinds DEF AtBody
  <2>2. Holds(Before(i), v[2], i.as, <<v[2]>>)
    BY <1>2, <2>1, OperandHolds
  <2> QED
    BY <2>2 DEF Holds
<1> QED
  BY <1>1, <1>2, <1>3 DEF IsJump

LEMMA JumpEmits ==
    ASSUME AtBody, NEW moves \in BlockMoves, NEW i,
           i = JumpOf("jmp", "none", 8, moves),
           \A v \in Range(i.moves) : v[1] \in Dests /\ v[2] \in AnySources,
           ~Dead(EmitJump(Before(i), i))
    PROVE  Emits(EmitJump(Before(i), i), i)
<1>1. /\ i.op = "jmp" /\ i.ds = 8 /\ i.as = 8 /\ i.bs = 8 /\ i.moves = moves
  BY DEF JumpOf, Instruction
<1>2. Starts(Before(i), i)
  <2>1. 8 \in Nat
    OBVIOUS
  <2>2. i.as \in Nat /\ i.bs \in Nat
    BY ONLY <1>1, <2>1
  <2>3. Ready(m) /\ m.mem = <<>>
    BY DEF AtBody, InBody
  <2> QED
    BY <2>2, <2>3, BeforeDoes
<1>3. /\ Ready(Before(i)) /\ Before(i).stack = m.stack /\ Before(i).base = m.base
      /\ Before(i).val = m.val /\ Before(i).busy = m.busy
  BY <1>2 DEF Starts
<1>4. i.ds \in 1..8 /\ i.as = i.ds /\ i.bs = i.ds
  BY <1>1, SizesAre
<1>5. IsJump(Before(i), i)
  BY <1>1, <1>2, <1>3, <1>4, BlockMovesAre
<1>6. BlockArgumentsArrived(Before(i), EmitJump(Before(i), i), i)
  BY <1>5, BlockArgumentsDo DEF EmitJump
<1>7. JumpStarts(Before(i), i)
  BY <1>1, <1>3, <1>5 DEF JumpStarts
<1> QED
  BY <1>6, <1>7, JumpLeaves

\* The condition is compared before the block arguments are moved.
Compared(a, term) == [a EXCEPT !.flag = term, !.ok = @ /\ TRUE]

LEMMA ConditionCompared ==
    ASSUME NEW a, Ready(a), NEW term
    PROVE  LET b == Compared(a, term) IN
           /\ Ready(b) /\ b.busy = a.busy /\ b.stack = a.stack /\ b.base = a.base
           /\ b.val = a.val /\ b.bytes = a.bytes /\ b.flag = term
<1> DEFINE b == Compared(a, term)
<1>1. /\ b = [f \in Fields |-> b[f]]
      /\ b.val = a.val /\ b.bytes = a.bytes /\ b.busy = a.busy
      /\ b.stack = a.stack /\ b.base = a.base /\ b.mem = a.mem
      /\ b.atCall = a.atCall /\ b.flag = term /\ b.ok = (a.ok /\ TRUE)
  BY DEF Compared, Ready, IsMachine, Fields
<1> HIDE DEF b
<1>2. Ready(b)
  BY <1>1 DEF Ready, IsMachine
<1> QED
  BY <1>1, <1>2 DEF b

LEMMA BranchEmits ==
    ASSUME AtBody, NEW s \in Sizes, NEW a \in Dests, NEW moves \in BlockMoves, NEW i,
           i = JumpOf("br", a, s, moves),
           \A v \in Range(i.moves) : v[1] \in Dests /\ v[2] \in AnySources,
           ~Dead(EmitBranch(Before(i), i))
    PROVE  Emits(EmitBranch(Before(i), i), i)
<1>1. s \in 1..8 /\ s \in 0..8 /\ s \in Nat /\ s <= s
  BY SizesAre, Widths
<1>2. i.op = "br" /\ i.a = a /\ i.ds = s /\ i.as = s /\ i.bs = s /\ i.moves = moves
  BY DEF JumpOf, Instruction
<1>3. Starts(Before(i), i)
  <2>1. i.as \in Nat /\ i.bs \in Nat
    BY ONLY <1>1, <1>2
  <2>2. Ready(m) /\ m.mem = <<>>
    BY DEF AtBody, InBody
  <2> QED
    BY <2>1, <2>2, BeforeDoes
<1>4. /\ Ready(Before(i)) /\ Before(i).stack = m.stack /\ Before(i).base = m.base
      /\ Before(i).val = m.val /\ Before(i).busy = m.busy
  BY <1>3 DEF Starts
<1>5. Read(Before(i), i.a, i.as) = <<i.a>>
  <2>1. i.a \in Nameable /\ i.as \in 0..8 /\ i.as \in Nat
    <3>1. i.a \in Nameable
      BY <1>2, OperandKinds
    <3> QED
      BY ONLY <1>1, <1>2, <3>1
  <2>2. i.a = i.a => i.as <= i.as
    BY ONLY <1>1, <1>2
  <2>3. Holds(Before(i), i.a, i.as, <<i.a>>)
    BY <1>3, <2>1, <2>2, OperandHolds DEF AtBody
  <2> QED
    BY <1>4, <2>1, <2>3, ReadHolds DEF Ready
<1> DEFINE c == Compared(Before(i), <<i.a>>)
<1>6. i.a \notin Literals
  <2>1. a \in Regs \cup Memory
    BY OperandKinds
  <2>2. (Regs \cup Memory) \cap Literals = {}
    BY EmitterAssumption
  <2> QED
    BY <1>2, <2>1, <2>2
<1>7. EmitBranch(Before(i), i) = EmitBlockArguments(c, i)
  BY <1>5, <1>6 DEF EmitBranch, Compared
<1>d. ~Dead(EmitBlockArguments(c, i))
  <2> HIDE DEF c
  <2> QED
    BY <1>7
<1>8. /\ Ready(c) /\ c.busy = Before(i).busy /\ c.stack = Before(i).stack /\ c.base = Before(i).base
      /\ c.val = Before(i).val /\ c.bytes = Before(i).bytes /\ c.flag = <<i.a>>
  BY <1>4, ConditionCompared
<1> HIDE DEF c
<1>9. i.ds \in 1..8 /\ i.as = i.ds /\ i.bs = i.ds
  BY ONLY <1>1, <1>2
<1>10. IsJump(c, i)
  BY <1>2, <1>3, <1>8, <1>9, BlockMovesAre
<1>11. BlockArgumentsArrived(c, EmitBlockArguments(c, i), i)
  BY <1>d, <1>10, BlockArgumentsDo
<1>12. JumpStarts(c, i)
  BY <1>2, <1>4, <1>8, <1>10 DEF JumpStarts
<1> QED
  BY <1>7, <1>11, <1>12, JumpLeaves

-----------------------------------------------------------------------------
(* The frame of a function.                                                *)

LEMMA RenamedDoes ==
    ASSUME NEW a, Ready(a), NEW own
    PROVE  LET b == Renamed(a, own) IN
           /\ Ready(b) /\ b.stack = a.stack /\ b.base = a.base /\ b.mem = <<>>
           /\ \A p \in Places : b.bytes[p] = 8
           /\ \A p \in Places \ Caller(own) : b.val[p] = <<p>>
           /\ \A p \in Places \cap Caller(own) : b.val[p] = a.val[p]
<1> DEFINE v == [p \in Places |-> IF p \in CalleeSaved \ own \/ p = "rbp"
                                  THEN a.val[p] ELSE <<p>>]
           w == [p \in Places |-> 8]
           b == Renamed(a, own)
<1>1. /\ b = [f \in Fields |-> b[f]]
      /\ b.val = v /\ b.bytes = w /\ b.busy = a.busy
      /\ b.stack = a.stack /\ b.base = a.base /\ b.mem = <<>>
      /\ b.ok = a.ok
  BY DEF Ready, IsMachine, Fields, Renamed
<1> HIDE DEF b
<1>2. w \in [Places -> Nat] /\ v = [p \in Places |-> v[p]]
  OBVIOUS
<1>3. Ready(b)
  <2> HIDE DEF v, w
  <2> QED
    BY <1>1, <1>2 DEF Ready, IsMachine
<1>4. \A p : p \in Caller(own) <=> p \in CalleeSaved \ own \/ p = "rbp"
  BY DEF Caller
<1> QED
  BY <1>1, <1>3, <1>4 DEF b

\* The frame base is set in the middle of the prologue.
LEMMA BaseSet ==
    ASSUME NEW a, IsMachine(a), NEW n
    PROVE  LET b == [a EXCEPT !.base = n] IN
           /\ IsMachine(b) /\ b.base = n /\ b.stack = a.stack
           /\ b.val = a.val /\ b.bytes = a.bytes /\ b.busy = a.busy
           /\ b.mem = a.mem /\ b.atCall = a.atCall /\ b.flag = a.flag /\ b.ok = a.ok
<1> DEFINE b == [a EXCEPT !.base = n]
<1>1. /\ b = [f \in Fields |-> b[f]]
      /\ b.val = a.val /\ b.bytes = a.bytes /\ b.busy = a.busy
      /\ b.stack = a.stack /\ b.base = n /\ b.mem = a.mem
      /\ b.atCall = a.atCall /\ b.flag = a.flag /\ b.ok = a.ok
  BY DEF IsMachine, Fields
<1> HIDE DEF b
<1>2. IsMachine(b)
  BY <1>1 DEF IsMachine
<1> QED
  BY <1>1, <1>2 DEF b

\* The machine behind the prologue that saves the registers of rs.
Entered(a, b, rs) ==
    /\ Ready(b) /\ b.val = a.val /\ b.bytes = a.bytes /\ b.base = 2
    /\ Len(b.stack) = 2 + Locals + Len(rs) + Pad(Len(rs))
    /\ b.stack[1] = <<"return">> /\ b.stack[2] = a.val["rbp"]
    /\ \A k \in 1..Len(rs) : b.stack[2 + Locals + k] = Read(a, rs[k], 8)

LEMMA PrologueDoes ==
    ASSUME NEW a, Ready(a), a.stack = <<<<"return">>>>, NEW rs, NEW own, Enumerates(rs, own)
    PROVE  Entered(a, Prologue(a, Locals, rs), rs)
<1> DEFINE f == Push(a, a.val["rbp"])
           r == Reserve(f, Locals)
           q == PushAll(r, rs)
           s == [q EXCEPT !.base = Len(f.stack)]
           b == Reserve(s, Pad(Len(rs)))
<1>1. Locals \in Nat /\ Len(rs) \in Nat /\ Len(a.stack) = 1 /\ a.stack[1] = <<"return">>
  BY EmitterAssumption DEF Enumerates
<1>2. Pad(Len(rs)) \in Nat
  BY <1>1, PadDoes
<1>3. /\ StackOnly(a, f) /\ Grown(a.stack, f.stack, 1)
      /\ f.stack[Len(a.stack) + 1] = a.val["rbp"]
  BY PushDoes DEF Ready
<1> HIDE DEF f
<1>4. Len(f.stack) = 2 /\ f.stack[1] = <<"return">> /\ f.stack[2] = a.val["rbp"]
  BY <1>1, <1>3 DEF Grown
<1>5. StackOnly(f, r) /\ Grown(f.stack, r.stack, Locals)
  BY <1>1, <1>3, ReserveDoes DEF StackOnly
<1> HIDE DEF r
<1>6. Len(r.stack) = 2 + Locals /\ r.stack[1] = f.stack[1] /\ r.stack[2] = f.stack[2]
  BY <1>1, <1>4, <1>5 DEF Grown
<1>7. /\ StackOnly(r, q) /\ Grown(r.stack, q.stack, Len(rs))
      /\ \A k \in 1..Len(rs) : q.stack[Len(r.stack) + k] = Read(r, rs[k], 8)
  BY <1>5, PushAllDoes DEF StackOnly
<1> HIDE DEF q
<1>8. Len(q.stack) = 2 + Locals + Len(rs) /\ q.stack[1] = r.stack[1] /\ q.stack[2] = r.stack[2]
  BY <1>1, <1>6, <1>7 DEF Grown
<1>9. /\ IsMachine(s) /\ s.base = 2 /\ s.stack = q.stack
      /\ s.val = q.val /\ s.bytes = q.bytes /\ s.busy = q.busy /\ s.ok = q.ok
  BY <1>4, <1>7, BaseSet DEF StackOnly
<1> HIDE DEF s
<1>10. StackOnly(s, b) /\ Grown(s.stack, b.stack, Pad(Len(rs)))
  BY <1>2, <1>9, ReserveDoes
<1>11. b = Prologue(a, Locals, rs)
  BY DEF Prologue, b, s, q, r, f
<1> HIDE DEF b
<1>12. /\ Len(b.stack) = 2 + Locals + Len(rs) + Pad(Len(rs))
       /\ \A k \in 1..(2 + Locals + Len(rs)) : b.stack[k] = q.stack[k]
  BY <1>1, <1>2, <1>8, <1>9, <1>10 DEF Grown
<1>13. b.stack[1] = <<"return">> /\ b.stack[2] = a.val["rbp"]
  <2>1. 1 \in 1..(2 + Locals + Len(rs)) /\ 2 \in 1..(2 + Locals + Len(rs))
    BY <1>1
  <2> QED
    BY <1>4, <1>6, <1>8, <1>12, <2>1
<1>14. \A k \in 1..Len(rs) : b.stack[2 + Locals + k] = Read(a, rs[k], 8)
  <2> SUFFICES ASSUME NEW k \in 1..Len(rs)
               PROVE  b.stack[2 + Locals + k] = Read(a, rs[k], 8)
    OBVIOUS
  <2>1. 2 + Locals + k \in 1..(2 + Locals + Len(rs))
    BY <1>1
  <2>2. q.stack[2 + Locals + k] = Read(r, rs[k], 8)
    BY <1>6, <1>7
  <2>3. Read(r, rs[k], 8) = Read(a, rs[k], 8)
    BY <1>3, <1>5 DEF StackOnly, Read
  <2> QED
    BY <1>12, <2>1, <2>2, <2>3
<1>15. /\ Ready(b) /\ b.val = a.val /\ b.bytes = a.bytes /\ b.base = 2
  BY <1>3, <1>5, <1>7, <1>9, <1>10 DEF StackOnly, Ready
<1> QED
  BY <1>11, <1>12, <1>13, <1>14, <1>15 DEF Entered

\* The registers of a function that are saved, and those that need not be.
LEMMA OwnEnumerated ==
    ASSUME NEW own, own \subseteq CalleeSaved
    PROVE  /\ Enumerates(SetToSeq(own), own)
           /\ own \subseteq Places /\ own \subseteq Regs
           /\ Caller(own) \subseteq Places
           /\ own \cap Literals = {}
<1>1. CalleeSaved \subseteq Regs /\ IsFiniteSet(Regs) /\ Regs \cap Literals = {}
  BY EmitterAssumption
<1>2. IsFiniteSet(own)
  BY <1>1, FS_Subset
<1> QED
  BY <1>1, <1>2, SetToSeqDoes DEF Places, Caller

LEMMA Entering ==
    ASSUME Ready(m), AtRest(m), NEW own, own \subseteq CalleeSaved, NEW b,
           b = Renamed(Prologue([m EXCEPT !.stack = <<<<"return">>>>], Locals,
                                SetToSeq(own)), own)
    PROVE  Ready(b) /\ InBody(b, own)
<1> DEFINE t == <<<<"return">>>>
           a == [m EXCEPT !.stack = t]
           rs == SetToSeq(own)
           q == Prologue(a, Locals, rs)
<1>1. IsStack(t)
  <2>1. t \in Seq({<<"return">>})
    OBVIOUS
  <2> QED
    BY <2>1 DEF IsStack
<1>2. StackOnly(m, a) /\ a.stack = t
  BY <1>1, StackChanged DEF Ready
<1>3. Ready(a)
  BY <1>2 DEF StackOnly, Ready
<1>4. /\ Enumerates(rs, own) /\ own \subseteq Places
      /\ Caller(own) \subseteq Places /\ own \cap Literals = {}
  BY OwnEnumerated
<1>5. Entered(a, q, rs)
  <2> HIDE DEF a, rs
  <2> QED
    BY <1>2, <1>3, <1>4, PrologueDoes
<1>6. b = Renamed(q, own)
  OBVIOUS
<1> HIDE DEF a, rs, q, t
<1>7. /\ Ready(b) /\ b.stack = q.stack /\ b.base = q.base /\ b.mem = <<>>
      /\ \A p \in Places : b.bytes[p] = 8
      /\ \A p \in Places \ Caller(own) : b.val[p] = <<p>>
      /\ \A p \in Places \cap Caller(own) : b.val[p] = q.val[p]
  <2>1. Ready(q)
    BY <1>5 DEF Entered
  <2> QED
    BY ONLY <1>6, <2>1, RenamedDoes
<1>8. \A p \in CalleeSaved \cup {"rbp"} : a.val[p] = <<"caller", p>> /\ a.bytes[p] = 8
  BY <1>2 DEF StackOnly, AtRest
<1>9. \A k \in 1..Len(rs) : b.stack[2 + Locals + k] = <<"caller", rs[k]>>
  <2> SUFFICES ASSUME NEW k \in 1..Len(rs)
               PROVE  b.stack[2 + Locals + k] = <<"caller", rs[k]>>
    OBVIOUS
  <2>1. rs[k] \in own
    BY <1>4 DEF Enumerates
  <2>2. a.val[rs[k]] = <<"caller", rs[k]>> /\ a.bytes[rs[k]] = 8 /\ rs[k] \notin Literals
    BY <1>4, <1>8, <2>1
  <2>3. Read(a, rs[k], 8) = <<"caller", rs[k]>>
    BY <2>2 DEF Read
  <2> QED
    BY <1>5, <1>7, <2>3 DEF Entered
<1>10. \A p \in Caller(own) : b.val[p] = <<"caller", p>>
  BY <1>4, <1>5, <1>7, <1>8 DEF Entered, Caller
<1>11. b.stack[1] = <<"return">> /\ b.stack[2] = <<"caller", "rbp">>
  BY <1>5, <1>7, <1>8 DEF Entered
<1>12. b.base = 2 /\ Len(b.stack) = 2 + Locals + Len(rs) + Pad(Len(rs))
  BY <1>5, <1>7 DEF Entered
<1>13. Framed(b, own)
  BY <1>9, <1>10, <1>11, <1>12 DEF Framed, rs
<1> QED
  BY <1>7, <1>13 DEF InBody

\* The end of the epilogue: mov rsp, rbp; pop rbp.
Unframed(a, word, n) == [a EXCEPT !.val["rbp"] = word, !.stack = SubSeq(@, 1, n)]

Unwound(a, b, word, n) ==
    /\ Ready(b) /\ b.bytes = a.bytes /\ b.val["rbp"] = word
    /\ \A p \in Places \ {"rbp"} : b.val[p] = a.val[p]
    /\ Len(b.stack) = n /\ \A k \in 1..n : b.stack[k] = a.stack[k]

LEMMA UnframedDoes ==
    ASSUME NEW a, Ready(a), NEW word, NEW n \in Nat, n <= Len(a.stack)
    PROVE  Unwound(a, Unframed(a, word, n), word, n)
<1> DEFINE b == Unframed(a, word, n)
           t == SubSeq(a.stack, 1, n)
           v == [a.val EXCEPT !["rbp"] = word]
<1>1. IsStack(t) /\ Len(t) = n /\ \A k \in 1..n : t[k] = a.stack[k]
  BY CutDoes DEF Ready, IsMachine
<1>2. /\ b = [f \in Fields |-> b[f]]
      /\ b.val = v /\ b.bytes = a.bytes /\ b.busy = a.busy /\ b.stack = t
      /\ b.ok = a.ok
  BY DEF Ready, IsMachine, Fields, Unframed
<1> HIDE DEF b, t
<1>3. "rbp" \in Places
  BY Kinds
<1>4. /\ v["rbp"] = word /\ \A p \in Places \ {"rbp"} : v[p] = a.val[p]
      /\ v = [p \in Places |-> v[p]]
  BY <1>3 DEF Ready, IsMachine
<1> HIDE DEF v
<1>5. Ready(b)
  BY <1>1, <1>2, <1>4 DEF Ready, IsMachine
<1> QED
  BY <1>1, <1>2, <1>4, <1>5 DEF Unwound, b

LEMMA Leaving ==
    ASSUME AtBody
    PROVE  LET b == Epilogue(m, SetToSeq(used)) IN Ready(b) /\ AtRest(b)
<1> DEFINE rs == SetToSeq(used)
           n == 2 + Locals + Len(rs)
           d == Drop(m, Pad(Len(rs)))
           p == PopAll(d, rs)
           b == Unframed(p, m.stack[2], 1)
<1>1. /\ Ready(m) /\ Framed(m, used) /\ used \subseteq CalleeSaved
      /\ \A x \in Places : m.bytes[x] = 8
  BY DEF AtBody, InBody
<1>2. Enumerates(rs, used) /\ used \in SUBSET Places /\ Caller(used) \subseteq Places
  BY <1>1, OwnEnumerated
<1>3. /\ m.base = 2 /\ Len(m.stack) = n + Pad(Len(rs))
      /\ m.stack[1] = <<"return">> /\ m.stack[2] = <<"caller", "rbp">>
      /\ \A k \in 1..Len(rs) : m.stack[2 + Locals + k] = <<"caller", rs[k]>>
      /\ \A x \in Caller(used) : m.val[x] = <<"caller", x>>
  BY <1>1 DEF Framed
<1>4. Locals \in Nat /\ Len(rs) \in Nat /\ DOMAIN rs = 1..Len(rs) /\ Range(rs) = used
  BY <1>2, EmitterAssumption DEF Enumerates
<1>5. Pad(Len(rs)) \in Nat
  BY <1>4, PadDoes
<1>6. Epilogue(m, rs) = b
  <2>1. SubSeq(p.stack, 1, 2 - 1) = SubSeq(p.stack, 1, 1)
    OBVIOUS
  <2> QED
    BY <1>3, <2>1 DEF Epilogue, Unframed
<1> HIDE DEF rs
<1>7. StackOnly(m, d) /\ Shrunk(m, d, Pad(Len(rs)))
  <2>1. Pad(Len(rs)) <= Len(m.stack) /\ IsMachine(m)
    BY <1>1, <1>3, <1>4, <1>5 DEF Ready
  <2> QED
    BY <1>5, <2>1, DropDoes
<1> HIDE DEF d
<1>8. Len(d.stack) = n /\ \A k \in 1..n : d.stack[k] = m.stack[k]
  <2>1. Len(m.stack) = n + Pad(Len(rs)) /\ n \in Nat
    BY <1>3, <1>4
  <2>2. Len(d.stack) = Len(m.stack) - Pad(Len(rs))
    BY <1>7 DEF Shrunk
  <2> HIDE DEF n
  <2>3. Len(d.stack) = n
    BY ONLY <1>5, <2>1, <2>2
  <2> QED
    BY <1>7, <2>3 DEF Shrunk
<1>9. Restored(d, p, rs)
  <2>1. IsMachine(d) /\ Len(rs) <= Len(d.stack)
    BY <1>4, <1>7, <1>8 DEF StackOnly
  <2> QED
    BY ONLY <1>2, <2>1, PopAllDoes
<1> HIDE DEF p
<1>10. Len(p.stack) = 2 + Locals /\ \A k \in 1..(2 + Locals) : p.stack[k] = d.stack[k]
  BY <1>4, <1>8, <1>9 DEF Restored, Shrunk
<1>11. Ready(p)
  BY <1>1, <1>7, <1>9 DEF Restored, StackOnly, Ready
<1>12. /\ Ready(b) /\ b.bytes = p.bytes /\ b.val["rbp"] = m.stack[2]
       /\ \A x \in Places \ {"rbp"} : b.val[x] = p.val[x]
       /\ Len(b.stack) = 1 /\ b.stack[1] = p.stack[1]
  <2>1. 1 \in Nat /\ 1 <= Len(p.stack) /\ 1 \in 1..1
    BY <1>4, <1>10
  <2>2. Unwound(p, b, m.stack[2], 1)
    BY <1>11, <2>1, UnframedDoes
  <2> QED
    BY <2>1, <2>2 DEF Unwound
<1> HIDE DEF b
<1>13. b.stack = <<<<"return">>>>
  <2>1. b.stack[1] = <<"return">>
    BY <1>3, <1>4, <1>8, <1>10, <1>12
  <2>2. b.stack = [k \in 1..1 |-> b.stack[k]]
    BY <1>12, StackLen DEF Ready, IsMachine
  <2> QED
    BY <2>1, <2>2
<1>14. ASSUME NEW x \in used PROVE b.val[x] = <<"caller", x>> /\ b.bytes[x] = 8
  <2>1. PICK k \in 1..Len(rs) : rs[k] = x
    BY <1>4 DEF Range
  <2>2. Len(d.stack) - Len(rs) + k = 2 + Locals + k /\ 2 + Locals + k \in 1..n
    BY <1>4, <1>8
  <2>3. p.val[x] = d.stack[2 + Locals + k] /\ p.bytes[x] = 8
    BY <1>9, <2>1, <2>2 DEF Restored
  <2>4. x # "rbp" /\ x \in Places
    BY <1>1, <1>2, EmitterAssumption
  <2> QED
    BY <1>3, <1>8, <1>12, <2>1, <2>2, <2>3, <2>4
<1>15. ASSUME NEW x \in Caller(used) PROVE b.val[x] = <<"caller", x>> /\ b.bytes[x] = 8
  <2>1. x \in Places /\ x \notin used
    BY <1>1, <1>2, EmitterAssumption DEF Caller
  <2>2. p.val[x] = m.val[x] /\ p.bytes[x] = 8
    BY <1>1, <1>4, <1>7, <1>9, <2>1 DEF Restored, StackOnly
  <2> QED
    BY <1>3, <1>12, <2>1, <2>2
<1> QED
  BY <1>6, <1>12, <1>13, <1>14, <1>15 DEF AtRest, Caller, rs

-----------------------------------------------------------------------------
(* The steps.                                                              *)

LEMMA EmittedKeeps ==
    ASSUME AtBody, NEW i, NEW b, Emit(i, b), ~Dead(b) => Emits(b, i)
    PROVE  IInv' /\ GivesBack
<1>1. ins' = i /\ m' = b /\ used' = used /\ used' \subseteq CalleeSaved
  BY DEF Emit, AtBody
<1>2. CASE b.died
  <2>1. pc' = "dead"
    BY <1>2 DEF Emit
  <2> QED
    BY <1>1, <2>1 DEF IInv, GivesBack
<1>3. CASE ~b.died
  <2>1. pc' = "emitted"
    BY <1>3 DEF Emit
  <2>2. Emits(b, i)
    BY <1>3 DEF Dead
  <2>3. Ready(m') /\ Behind(m', ins', used')
    BY <1>1, <2>2 DEF Emits
  <2>4. m.busy \subseteq m'.busy /\ Cardinality(m'.busy \ m.busy) = Price(ins')
    BY <1>1, <2>2 DEF Emits, Costs
  <2> QED
    BY <1>1, <2>1, <2>3, <2>4 DEF IInv, GivesBack
<1> QED
  BY <1>2, <1>3

LEMMA BodyIs ==
    ASSUME IInv, pc = "body"
    PROVE  AtBody
BY DEF IInv, AtBody

LEMMA EnterKeeps ==
    ASSUME IInv, EnterFunction
    PROVE  IInv'
<1>1. Ready(m) /\ AtRest(m)
  BY DEF IInv, EnterFunction
<1>2. pc' = "body" /\ used' \subseteq CalleeSaved
  BY DEF EnterFunction
<1>3. m' = Renamed(Prologue([m EXCEPT !.stack = <<<<"return">>>>], Locals,
                            SetToSeq(used')), used')
  BY DEF EnterFunction
<1>4. Ready(m') /\ InBody(m', used')
  BY ONLY <1>1, <1>2, <1>3, Entering
<1> QED
  BY <1>2, <1>4 DEF IInv

LEMMA NextInstructionKeeps ==
    ASSUME IInv, NextInstruction
    PROVE  IInv'
<1>1. /\ Ready(m) /\ Behind(m, ins, used) /\ used \subseteq CalleeSaved
      /\ pc' = "body" /\ used' = used /\ m' = Renamed(m, used)
  BY DEF IInv, NextInstruction
<1>2. /\ Ready(m') /\ m'.stack = m.stack /\ m'.base = m.base /\ m'.mem = <<>>
      /\ \A p \in Places : m'.bytes[p] = 8
      /\ \A p \in Places \ Caller(used) : m'.val[p] = <<p>>
      /\ \A p \in Places \cap Caller(used) : m'.val[p] = m.val[p]
  BY ONLY <1>1, RenamedDoes
<1>3. Framed(m, used) /\ Caller(used) \subseteq Places
  BY <1>1, OwnEnumerated DEF Behind
<1>4. Framed(m', used')
  BY <1>1, <1>2, <1>3 DEF Framed
<1> QED
  BY <1>1, <1>2, <1>4 DEF IInv, InBody

LEMMA LeaveKeeps ==
    ASSUME IInv, LeaveFunction
    PROVE  IInv'
<1>1. pc = "body" /\ pc' = "out" /\ used' = used /\ m' = Epilogue(m, SetToSeq(used))
  BY DEF LeaveFunction
<1>2. AtBody
  BY <1>1, BodyIs
<1>3. Ready(m') /\ AtRest(m')
  BY <1>1, <1>2, Leaving
<1> QED
  BY <1>1, <1>2, <1>3 DEF IInv, AtBody

LEMMA MoveStepKeeps ==
    ASSUME IInv, MoveStep
    PROVE  IInv' /\ GivesBack
<1>1. AtBody
  BY BodyIs DEF MoveStep
<1>2. PICK i \in {Instruction("mov", d, a, "none", s, s, s) : s \in Sizes, a \in AnySources \cup Globals, d \in Dests \cup Globals} :
         Emit(i, EmitMove(Before(i), i))
  BY DEF MoveStep
<1>3. PICK s \in Sizes, a \in AnySources \cup Globals, d \in Dests \cup Globals : i = Instruction("mov", d, a, "none", s, s, s)
  BY <1>2
<1>4. Allocated(i)
  BY <1>2 DEF Emit
<1>5. ~Dead(EmitMove(Before(i), i)) => Emits(EmitMove(Before(i), i), i)
  BY ONLY <1>1, <1>3, <1>4, MoveEmits
<1> QED
  BY <1>1, <1>2, <1>5, EmittedKeeps

LEMMA CastStepKeeps ==
    ASSUME IInv, CastStep
    PROVE  IInv' /\ GivesBack
<1>1. AtBody
  BY BodyIs DEF CastStep
<1>2. PICK i \in {Instruction("cast", d, a, "none", s, t, t) : s \in Sizes, t \in Sizes, a \in AnySources, d \in Dests} :
         Emit(i, EmitCast(Before(i), i))
  BY DEF CastStep
<1>3. PICK s \in Sizes, t \in Sizes, a \in AnySources, d \in Dests : i = Instruction("cast", d, a, "none", s, t, t)
  BY <1>2
<1>4. Allocated(i)
  BY <1>2 DEF Emit
<1>5. ~Dead(EmitCast(Before(i), i)) => Emits(EmitCast(Before(i), i), i)
  BY ONLY <1>1, <1>3, <1>4, CastEmits
<1> QED
  BY <1>1, <1>2, <1>5, EmittedKeeps

LEMMA ComparisonStepKeeps ==
    ASSUME IInv, ComparisonStep
    PROVE  IInv' /\ GivesBack
<1>1. AtBody
  BY BodyIs DEF ComparisonStep
<1>2. PICK i \in {Instruction("less", d, a, b, 1, s, s) : s \in Sizes, a \in Sources, b \in Sources, d \in Dests} :
         Emit(i, EmitComparison(Before(i), i))
  BY DEF ComparisonStep
<1>3. PICK s \in Sizes, a \in Sources, b \in Sources, d \in Dests : i = Instruction("less", d, a, b, 1, s, s)
  BY <1>2
<1>4. Allocated(i)
  BY <1>2 DEF Emit
<1>5. ~Dead(EmitComparison(Before(i), i)) => Emits(EmitComparison(Before(i), i), i)
  BY ONLY <1>1, <1>3, <1>4, ComparisonEmits
<1> QED
  BY <1>1, <1>2, <1>5, EmittedKeeps

LEMMA ArithmeticStepKeeps ==
    ASSUME IInv, ArithmeticStep
    PROVE  IInv' /\ GivesBack
<1>1. AtBody
  BY BodyIs DEF ArithmeticStep
<1>2. PICK i \in {Instruction("add", d, a, b, s, s, s) : s \in Sizes, a \in AnySources, b \in Sources, d \in Dests} :
         Emit(i, EmitArithmetic(Before(i), i))
  BY DEF ArithmeticStep
<1>3. PICK s \in Sizes, a \in AnySources, b \in Sources, d \in Dests : i = Instruction("add", d, a, b, s, s, s)
  BY <1>2
<1>4. Allocated(i)
  BY <1>2 DEF Emit
<1>5. ~Dead(EmitArithmetic(Before(i), i)) => Emits(EmitArithmetic(Before(i), i), i)
  BY ONLY <1>1, <1>3, <1>4, ArithmeticEmits
<1> QED
  BY <1>1, <1>2, <1>5, EmittedKeeps

LEMMA MulStepKeeps ==
    ASSUME IInv, MulStep
    PROVE  IInv' /\ GivesBack
<1>1. AtBody
  BY BodyIs DEF MulStep
<1>2. PICK i \in {Instruction("mul", d, a, b, s, s, s) : s \in Sizes, a \in AnySources, b \in Sources, d \in Dests} :
         Emit(i, EmitMul(Before(i), i))
  BY DEF MulStep
<1>3. PICK s \in Sizes, a \in AnySources, b \in Sources, d \in Dests : i = Instruction("mul", d, a, b, s, s, s)
  BY <1>2
<1>4. Allocated(i)
  BY <1>2 DEF Emit
<1>5. ~Dead(EmitMul(Before(i), i)) => Emits(EmitMul(Before(i), i), i)
  BY ONLY <1>1, <1>3, <1>4, MulEmits
<1> QED
  BY <1>1, <1>2, <1>5, EmittedKeeps

LEMMA DivideStepKeeps ==
    ASSUME IInv, DivideStep
    PROVE  IInv' /\ GivesBack
<1>1. AtBody
  BY BodyIs DEF DivideStep
<1>2. PICK i \in {Instruction(op, d, a, b, s, s, s) : op \in Division, s \in Sizes, a \in AnySources, b \in AnySources, d \in Dests} :
         Emit(i, EmitDivide(Before(i), i))
  BY DEF DivideStep
<1>3. PICK op \in Division, s \in Sizes, a \in AnySources, b \in AnySources, d \in Dests : i = Instruction(op, d, a, b, s, s, s)
  BY <1>2
<1>4. Allocated(i)
  BY <1>2 DEF Emit
<1>5. ~Dead(EmitDivide(Before(i), i)) => Emits(EmitDivide(Before(i), i), i)
  BY ONLY <1>1, <1>3, <1>4, DivideEmits
<1> QED
  BY <1>1, <1>2, <1>5, EmittedKeeps

LEMMA ShiftStepKeeps ==
    ASSUME IInv, ShiftStep
    PROVE  IInv' /\ GivesBack
<1>1. AtBody
  BY BodyIs DEF ShiftStep
<1>2. PICK i \in {Instruction("shl", d, a, b, s, s, s) : s \in Sizes, a \in AnySources, b \in Sources, d \in Dests \cap Regs} :
         Emit(i, EmitShift(Before(i), i))
  BY DEF ShiftStep
<1>3. PICK s \in Sizes, a \in AnySources, b \in Sources, d \in Dests \cap Regs : i = Instruction("shl", d, a, b, s, s, s)
  BY <1>2
<1>4. Allocated(i)
  BY <1>2 DEF Emit
<1>5. ~Dead(EmitShift(Before(i), i)) => Emits(EmitShift(Before(i), i), i)
  BY ONLY <1>1, <1>3, <1>4, ShiftEmits
<1> QED
  BY <1>1, <1>2, <1>5, EmittedKeeps

LEMMA UnaryStepKeeps ==
    ASSUME IInv, UnaryStep
    PROVE  IInv' /\ GivesBack
<1>1. AtBody
  BY BodyIs DEF UnaryStep
<1>2. PICK i \in {Instruction("neg", d, a, "none", s, s, s) : s \in Sizes, a \in AnySources, d \in Dests} :
         Emit(i, EmitUnary(Before(i), i))
  BY DEF UnaryStep
<1>3. PICK s \in Sizes, a \in AnySources, d \in Dests : i = Instruction("neg", d, a, "none", s, s, s)
  BY <1>2
<1>4. Allocated(i)
  BY <1>2 DEF Emit
<1>5. ~Dead(EmitUnary(Before(i), i)) => Emits(EmitUnary(Before(i), i), i)
  BY ONLY <1>1, <1>3, <1>4, UnaryEmits
<1> QED
  BY <1>1, <1>2, <1>5, EmittedKeeps

LEMMA AddressOfStepKeeps ==
    ASSUME IInv, AddressOfStep
    PROVE  IInv' /\ GivesBack
<1>1. AtBody
  BY BodyIs DEF AddressOfStep
<1>2. PICK i \in {Instruction("address", d, a, "none", 8, 8, 8) : a \in Memory, d \in Dests} :
         Emit(i, EmitAddressOf(Before(i), i))
  BY DEF AddressOfStep
<1>3. PICK a \in Memory, d \in Dests : i = Instruction("address", d, a, "none", 8, 8, 8)
  BY <1>2
<1>4. Allocated(i)
  BY <1>2 DEF Emit
<1>5. ~Dead(EmitAddressOf(Before(i), i)) => Emits(EmitAddressOf(Before(i), i), i)
  BY ONLY <1>1, <1>3, <1>4, AddressOfEmits
<1> QED
  BY <1>1, <1>2, <1>5, EmittedKeeps

LEMMA DereferenceStepKeeps ==
    ASSUME IInv, DereferenceStep
    PROVE  IInv' /\ GivesBack
<1>1. AtBody
  BY BodyIs DEF DereferenceStep
<1>2. PICK i \in {Instruction("at", d, a, "none", s, 8, 8) : s \in Sizes, a \in Dests, d \in Dests} :
         Emit(i, EmitDereference(Before(i), i))
  BY DEF DereferenceStep
<1>3. PICK s \in Sizes, a \in Dests, d \in Dests : i = Instruction("at", d, a, "none", s, 8, 8)
  BY <1>2
<1>4. Allocated(i)
  BY <1>2 DEF Emit
<1>5. ~Dead(EmitDereference(Before(i), i)) => Emits(EmitDereference(Before(i), i), i)
  BY ONLY <1>1, <1>3, <1>4, DereferenceEmits
<1> QED
  BY <1>1, <1>2, <1>5, EmittedKeeps

LEMMA LoadStepKeeps ==
    ASSUME IInv, LoadStep
    PROVE  IInv' /\ GivesBack
<1>1. AtBody
  BY BodyIs DEF LoadStep
<1>2. PICK i \in {Instruction("load", d, a, "none", s, 8, 8) : s \in Sizes, a \in Dests, d \in Dests \cap Regs} :
         Emit(i, EmitLoad(Before(i), i))
  BY DEF LoadStep
<1>3. PICK s \in Sizes, a \in Dests, d \in Dests \cap Regs : i = Instruction("load", d, a, "none", s, 8, 8)
  BY <1>2
<1>4. Allocated(i)
  BY <1>2 DEF Emit
<1>5. ~Dead(EmitLoad(Before(i), i)) => Emits(EmitLoad(Before(i), i), i)
  BY ONLY <1>1, <1>3, <1>4, LoadEmits
<1> QED
  BY <1>1, <1>2, <1>5, EmittedKeeps

LEMMA StoreIndirectStepKeeps ==
    ASSUME IInv, StoreIndirectStep
    PROVE  IInv' /\ GivesBack
<1>1. AtBody
  BY BodyIs DEF StoreIndirectStep
<1>2. PICK i \in {Instruction("store", d, a, "none", t, s, s) : s \in Sizes, t \in Sizes, a \in AnySources, d \in Dests} :
         (i.as # i.ds => "store" \in Untyped /\ i.a \in Imms) /\ Emit(i, EmitStoreIndirect(Before(i), i))
  BY DEF StoreIndirectStep
<1>3. PICK s \in Sizes, t \in Sizes, a \in AnySources, d \in Dests : i = Instruction("store", d, a, "none", t, s, s)
  BY <1>2
<1>4. Allocated(i)
  BY <1>2 DEF Emit
<1>5. ~Dead(EmitStoreIndirect(Before(i), i)) => Emits(EmitStoreIndirect(Before(i), i), i)
  BY ONLY <1>1, <1>2, <1>3, <1>4, StoreEmits
<1> QED
  BY <1>1, <1>2, <1>5, EmittedKeeps

LEMMA GepStepKeeps ==
    ASSUME IInv, GepStep
    PROVE  IInv' /\ GivesBack
<1>1. AtBody
  BY BodyIs DEF GepStep
<1>2. PICK i \in {Instruction(op, d, a, b, 8, 8, 8) : op \in {"gep_scaled", "gep_wide"}, a \in Dests, b \in Sources, d \in Dests} :
         (i.op = "gep_wide" => i.a \in Regs) /\ Emit(i, EmitGep(Before(i), i))
  BY DEF GepStep
<1>3. PICK op \in {"gep_scaled", "gep_wide"}, a \in Dests, b \in Sources, d \in Dests : i = Instruction(op, d, a, b, 8, 8, 8)
  BY <1>2
<1>4. Allocated(i)
  BY <1>2 DEF Emit
<1>5. ~Dead(EmitGep(Before(i), i)) => Emits(EmitGep(Before(i), i), i)
  BY ONLY <1>1, <1>2, <1>3, <1>4, GepEmits
<1> QED
  BY <1>1, <1>2, <1>5, EmittedKeeps

LEMMA ReturnStepKeeps ==
    ASSUME IInv, ReturnStep
    PROVE  IInv' /\ GivesBack
<1>1. AtBody
  BY BodyIs DEF ReturnStep
<1>2. PICK i \in {Instruction("ret", "rax", a, "none", s, s, s) : s \in Sizes, a \in AnySources} :
         Emit(i, EmitReturn(Before(i), i))
  BY DEF ReturnStep
<1>3. PICK s \in Sizes, a \in AnySources : i = Instruction("ret", "rax", a, "none", s, s, s)
  BY <1>2
<1>4. Allocated(i)
  BY <1>2 DEF Emit
<1>5. ~Dead(EmitReturn(Before(i), i)) => Emits(EmitReturn(Before(i), i), i)
  BY ONLY <1>1, <1>3, <1>4, ReturnEmits
<1> QED
  BY <1>1, <1>2, <1>5, EmittedKeeps

LEMMA CallStepKeeps ==
    ASSUME IInv, CallStep
    PROVE  IInv' /\ GivesBack
<1>1. AtBody
  BY BodyIs DEF CallStep
<1>2. PICK i \in {CallOf(d, s, across, args) : s \in Sizes, across \in Saved, args \in Arguments, d \in Dests} :
         Range(i.args) \cap ({"rax"} \cup (CalleeSaved \ used)) = {} /\ Emit(i, EmitCall(Before(i), i))
  BY DEF CallStep
<1>3. PICK s \in Sizes, across \in Saved, args \in Arguments, d \in Dests : i = CallOf(d, s, across, args)
  BY <1>2
<1>4. Allocated(i)
  BY <1>2 DEF Emit
<1>5. ~Dead(EmitCall(Before(i), i)) => Emits(EmitCall(Before(i), i), i)
  BY ONLY <1>1, <1>2, <1>3, <1>4, CallEmits
<1> QED
  BY <1>1, <1>2, <1>5, EmittedKeeps

LEMMA JumpStepKeeps ==
    ASSUME IInv, JumpStep
    PROVE  IInv' /\ GivesBack
<1>1. AtBody
  BY BodyIs DEF JumpStep
<1>2. PICK i \in {JumpOf("jmp", "none", 8, moves) : moves \in BlockMoves} :
         (\A v \in Range(i.moves) : v[1] \in Dests /\ v[2] \in AnySources) /\ Emit(i, EmitJump(Before(i), i))
  BY DEF JumpStep
<1>3. PICK moves \in BlockMoves : i = JumpOf("jmp", "none", 8, moves)
  BY <1>2
<1>4. Allocated(i)
  BY <1>2 DEF Emit
<1>5. ~Dead(EmitJump(Before(i), i)) => Emits(EmitJump(Before(i), i), i)
  BY ONLY <1>1, <1>2, <1>3, <1>4, JumpEmits
<1> QED
  BY <1>1, <1>2, <1>5, EmittedKeeps

LEMMA BranchStepKeeps ==
    ASSUME IInv, BranchStep
    PROVE  IInv' /\ GivesBack
<1>1. AtBody
  BY BodyIs DEF BranchStep
<1>2. PICK i \in {JumpOf("br", a, s, moves) : s \in Sizes, a \in Dests, moves \in BlockMoves} :
         (\A v \in Range(i.moves) : v[1] \in Dests /\ v[2] \in AnySources) /\ Emit(i, EmitBranch(Before(i), i))
  BY DEF BranchStep
<1>3. PICK s \in Sizes, a \in Dests, moves \in BlockMoves : i = JumpOf("br", a, s, moves)
  BY <1>2
<1>4. Allocated(i)
  BY <1>2 DEF Emit
<1>5. ~Dead(EmitBranch(Before(i), i)) => Emits(EmitBranch(Before(i), i), i)
  <2>1. \A v \in Range(i.moves) : v[1] \in Dests /\ v[2] \in AnySources
    BY <1>2
  <2> QED
    BY ONLY <1>1, <1>3, <2>1, BranchEmits
<1> QED
  BY <1>1, <1>2, <1>5, EmittedKeeps

LEMMA StartsAtRest ==
    ASSUME Init
    PROVE  IInv
<1>1. /\ m.val = [p \in Places |-> <<"caller", p>>] /\ m.bytes = [p \in Places |-> 8]
      /\ m.busy = {} /\ m.stack = <<>> /\ m.ok = TRUE
  BY DEF Init
<1>2. m = [f \in Fields |-> m[f]]
  BY DEF Init, Fields
<1>3. IsStack(m.stack)
  <2>1. <<>> \in Seq({})
    OBVIOUS
  <2> QED
    BY <1>1, <2>1 DEF IsStack
<1>4. m.val = [p \in Places |-> m.val[p]] /\ m.bytes \in [Places -> Nat]
  BY <1>1
<1>5. Ready(m)
  BY <1>1, <1>2, <1>3, <1>4 DEF Ready, IsMachine
<1>6. AtRest(m)
  <2>1. CalleeSaved \cup {"rbp"} \subseteq Places
    BY EmitterAssumption DEF Places
  <2> QED
    BY <1>1, <2>1 DEF AtRest
<1> QED
  BY <1>5, <1>6 DEF Init, IInv

LEMMA StepKeeps ==
    ASSUME IInv, [Next]_vars
    PROVE  IInv' /\ [GivesBack]_vars
<1>1. CASE UNCHANGED vars
  BY <1>1 DEF vars, IInv
<1>2. CASE EnterFunction
  BY <1>2, EnterKeeps DEF EnterFunction, GivesBack
<1>3. CASE NextInstruction
  BY <1>3, NextInstructionKeeps DEF NextInstruction, GivesBack
<1>4. CASE LeaveFunction
  BY <1>4, LeaveKeeps DEF LeaveFunction, GivesBack
<1>5. CASE MoveStep
  BY <1>5, MoveStepKeeps
<1>6. CASE CastStep
  BY <1>6, CastStepKeeps
<1>7. CASE ComparisonStep
  BY <1>7, ComparisonStepKeeps
<1>8. CASE ArithmeticStep
  BY <1>8, ArithmeticStepKeeps
<1>9. CASE MulStep
  BY <1>9, MulStepKeeps
<1>10. CASE DivideStep
  BY <1>10, DivideStepKeeps
<1>11. CASE ShiftStep
  BY <1>11, ShiftStepKeeps
<1>12. CASE UnaryStep
  BY <1>12, UnaryStepKeeps
<1>13. CASE AddressOfStep
  BY <1>13, AddressOfStepKeeps
<1>14. CASE DereferenceStep
  BY <1>14, DereferenceStepKeeps
<1>15. CASE LoadStep
  BY <1>15, LoadStepKeeps
<1>16. CASE StoreIndirectStep
  BY <1>16, StoreIndirectStepKeeps
<1>17. CASE GepStep
  BY <1>17, GepStepKeeps
<1>18. CASE ReturnStep
  BY <1>18, ReturnStepKeeps
<1>19. CASE CallStep
  BY <1>19, CallStepKeeps
<1>20. CASE JumpStep
  BY <1>20, JumpStepKeeps
<1>21. CASE BranchStep
  BY <1>21, BranchStepKeeps
<1> QED
  BY <1>1, <1>2, <1>3, <1>4, <1>5, <1>6, <1>7, <1>8, <1>9, <1>10, <1>11, <1>12,
     <1>13, <1>14, <1>15, <1>16, <1>17, <1>18, <1>19, <1>20, <1>21 DEF Next

-----------------------------------------------------------------------------
(* The theorems.                                                           *)

\* As long as the compiler lives: in front of every instruction what was printed
\* can be assembled, the frame is whole and every place that is not the caller's
\* holds its own value; behind it the frame still is, and so is all that the
\* instruction must leave alone (codegen_build_function, x86_64_emit_instruction).
THEOREM EmitterInvariant == Spec => []IInv
<1>1. Init => IInv
  BY StartsAtRest
<1>2. IInv /\ [Next]_vars => IInv'
  BY StepKeeps
<1> QED
  BY <1>1, <1>2, PTL DEF Spec

\* An instruction gives back every reserved register that it takes but one for each
\* cycle among its moves (x86_64.c:224-253, codegen_utils.c:97).
THEOREM ScratchIsGivenBack == Spec => [][GivesBack]_vars
<1>1. IInv /\ [Next]_vars => [GivesBack]_vars
  BY StepKeeps
<1> QED
  BY <1>1, EmitterInvariant, PTL DEF Spec

\* The code of an instruction leaves alone every place that the allocator may
\* have given to another value (x86_64_emit_instruction, x86_64.c:868-1205).
THEOREM OtherPlacesKept == Spec => []OthersKept
<1>1. IInv => OthersKept
  <2> SUFFICES ASSUME IInv, Emitted PROVE OthersKept
    BY DEF OthersKept
  <2>1. OthersAreKept(m, ins, used)
    BY DEF IInv, Emitted, Behind
  <2> QED
    BY <2>1 DEF OthersAreKept, Lost, OthersKept
<1> QED
  BY <1>1, EmitterInvariant, PTL

\* A callee finds every argument where it looks for it, on a stack that is
\* aligned as the caller's is (x86_64_emit_call, x86_64.c:1077-1130).
THEOREM CalleeFindsArguments == Spec => []ArgumentsArrive
<1>1. IInv => ArgumentsArrive
  <2> SUFFICES ASSUME IInv, Emitted, ins.op = "call" PROVE ArgumentsArrive
    BY DEF ArgumentsArrive
  <2>1. CalleeFinds(m, ins) /\ ins.args \in Seq(Operands)
    BY DEF IInv, Emitted, Behind
  <2>2. DOMAIN ins.args = 1..Len(ins.args)
    BY <2>1
  <2> QED
    BY <2>1, <2>2 DEF CalleeFinds, ArgumentsArrive
<1> QED
  BY <1>1, EmitterInvariant, PTL

\* A function gives back the stack, rbp and the callee-saved registers as it
\* found them (x86_64.c:548-577).
THEOREM CallerIsUnharmed == Spec => []CallerUnharmed
<1>1. IInv => CallerUnharmed
  BY DEF IInv, AtRest, CallerUnharmed
<1> QED
  BY <1>1, EmitterInvariant, PTL

\* What an instruction computes arrives in the place it goes to, in the full
\* width of its type, when literals that are stored have one and no block
\* argument is a slot that another one goes to (x86_64.c:868-1205).
THEOREM ResultsArrive ==
    ASSUME Plain
    PROVE  Spec => []ResultArrives
<1>1. IInv => ResultArrives
  <2> SUFFICES ASSUME IInv, Emitted PROVE ResultArrives
    BY DEF ResultArrives
  <2>1. Arrived(m, ins)
    BY DEF IInv, Emitted, Behind
  <2> QED
    BY <2>1 DEF Arrived, ResultArrives, StoreIsWhole
<1> QED
  BY <1>1, EmitterInvariant, PTL
=============================================================================
