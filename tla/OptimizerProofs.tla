-------------------------- MODULE OptimizerProofs --------------------------
(***************************************************************************)
(* The use lists stay right for every module.  The argument: an entry is   *)
(* taken out of a list only with the instruction that made it, or when the *)
(* instruction is rewritten to read something else; so an instruction that *)
(* still reads an operand is still counted, be it after other instructions *)
(* have been folded, propagated or removed.                                *)
(***************************************************************************)
EXTENDS Optimizer, FiniteSetTheorems, SequenceTheorems, WellFoundedInduction, TLAPS

Chosen == prog \in Programs

\* Instructions are records, and keep what they write but for the address of a
\* store.
Shape ==
    \A j \in 1..Size :
        /\ code[j] = [op |-> code[j].op, dest |-> code[j].dest,
                      args |-> code[j].args, value |-> code[j].value]
        /\ code[j].op = "store" => prog.code[j].op = "store"
        /\ code[j].op \in {"store", "mov", "alu", "neq"} => code[j].dest # None
        /\ prog.code[j].op # "store" => code[j].dest = prog.code[j].dest

IInv == Chosen /\ TypeOK /\ Shape /\ ReadersListed

-----------------------------------------------------------------------------
\* The layout of the module.
LEMMA LayoutFacts ==
    ASSUME Chosen, func \in 1..Len(prog.last)
    PROVE  /\ Size \in Nat
           /\ Len(prog.last) \in Nat
           /\ \A h \in 1..Len(prog.last) : prog.last[h] \in 0..Size
           /\ First(func) \in 1..(Size + 1)
           /\ First(func) - 1 <= prog.last[func]
           /\ Here \subseteq 1..Size
           /\ Listed \subseteq 1..Size
           /\ (1..(First(func) - 1)) \cup Here = 1..prog.last[func]
<1>1. Size \in Nat /\ Len(prog.last) \in Nat
  BY ProgramsAssumption DEF Chosen, Size
<1>2. \A h \in 1..Len(prog.last) : prog.last[h] \in 0..Size
  BY ProgramsAssumption DEF Chosen, Size
<1>3. First(func) \in 1..(Size + 1) /\ First(func) - 1 <= prog.last[func]
  <2>1. CASE func = 1
    BY <1>1, <1>2, <2>1 DEF First
  <2>2. CASE func # 1
    <3>1. func - 1 \in 1..Len(prog.last) /\ func - 1 < func
      BY <1>1, <2>2
    <3>2. prog.last[func - 1] \in 0..Size /\ prog.last[func - 1] <= prog.last[func]
      BY <3>1, <1>2, ProgramsAssumption DEF Chosen
    <3> QED
      BY <1>1, <1>2, <2>2, <3>2 DEF First
  <2> QED
    BY <2>1, <2>2
<1>4. prog.last[func] \in 0..Size
  BY <1>2
<1>5. Here \subseteq 1..Size /\ Listed \subseteq 1..Size
  BY <1>1, <1>3, <1>4 DEF Here, Listed
<1>6. (1..(First(func) - 1)) \cup Here = 1..prog.last[func]
  BY <1>1, <1>3, <1>4 DEF Here
<1> QED
  BY <1>1, <1>2, <1>3, <1>5, <1>6

\* What the instructions of the module are.
LEMMA CodeFacts ==
    ASSUME Chosen, NEW j \in 1..Size
    PROVE  /\ prog.code[j].op \in Operations \ {"nop"}
           /\ prog.code[j].dest \in Operand \cup {None}
           /\ prog.code[j].args \in Seq(Operand)
           /\ prog.code[j].op \in {"store", "mov", "alu", "neq"} => prog.code[j].dest # None
           /\ prog.kind \in [Operand -> Kinds \ {"undefined"}]
  BY ProgramsAssumption DEF Chosen, Size

\* The arguments of an instruction are operands.
LEMMA ArgumentFacts ==
    ASSUME NEW s \in Seq(Operand)
    PROVE  /\ Len(s) \in Nat /\ DOMAIN s = 1..Len(s)
           /\ \A k \in DOMAIN s : s[k] \in Operand
           /\ IsFiniteSet(DOMAIN s)
           /\ s # << >> => 1 \in DOMAIN s
<1>1. Len(s) \in Nat /\ DOMAIN s = 1..Len(s) /\ \A k \in DOMAIN s : s[k] \in Operand
  BY LenProperties, ElementOfSeq
<1>2. IsFiniteSet(DOMAIN s)
  BY <1>1, FS_Interval
<1>3. s # << >> => 1 \in DOMAIN s
  BY <1>1, EmptySeq
<1> QED
  BY <1>1, <1>2, <1>3

\* Replacing arguments in a sequence gives a sequence of operands.
LEMMA ReplacedArguments ==
    ASSUME NEW s \in Seq(Operand), NEW old, NEW new \in Operand
    PROVE  [k \in DOMAIN s |-> IF s[k] = old THEN new ELSE s[k]] \in Seq(Operand)
<1> DEFINE t == [k \in DOMAIN s |-> IF s[k] = old THEN new ELSE s[k]]
<1>1. Len(s) \in Nat /\ DOMAIN s = 1..Len(s) /\ \A k \in DOMAIN s : s[k] \in Operand
  BY ArgumentFacts
<1>2. t = [k \in 1..Len(s) |-> IF s[k] = old THEN new ELSE s[k]]
  BY <1>1
<1>3. \A k \in 1..Len(s) : (IF s[k] = old THEN new ELSE s[k]) \in Operand
  BY <1>1
<1>4. [k \in 1..Len(s) |-> IF s[k] = old THEN new ELSE s[k]] \in Seq(Operand)
  BY <1>1, <1>3, IsASeq
<1> QED
  BY <1>2, <1>4

\* Whoever reads an operand mentions it.
LEMMA MentionsFacts ==
    ASSUME NEW i, i.args \in Seq(Operand), NEW o
    PROVE  /\ Mentions(i, o) \in Nat
           /\ o \in Reads(i) <=> Mentions(i, o) > 0
<1> DEFINE places == {k \in DOMAIN i.args : i.args[k] = o}
           first == IF o \in Arguments(i) THEN Cardinality(places) ELSE 0
           second == IF i.op = "store" /\ i.dest = o THEN 1 ELSE 0
<1>1. IsFiniteSet(DOMAIN i.args)
  BY ArgumentFacts
<1>2. IsFiniteSet(places)
  BY <1>1, FS_Subset
<1>3. Cardinality(places) \in Nat /\ (Cardinality(places) = 0 <=> places = {})
  BY <1>2, FS_CardinalityType, FS_EmptySet
<1>4. o \in Arguments(i) => places # {}
  BY DEF Arguments
<1>5. first \in Nat /\ (first > 0 <=> o \in Arguments(i))
  BY <1>3, <1>4
<1>6. second \in Nat /\ (second > 0 <=> i.op = "store" /\ i.dest = o)
  OBVIOUS
<1>7. Mentions(i, o) = first + second
  BY DEF Mentions
<1>8. o \in Reads(i) <=> o \in Arguments(i) \/ (i.op = "store" /\ i.dest = o)
  BY DEF Reads
<1> HIDE DEF first, second
<1> QED
  BY <1>5, <1>6, <1>7, <1>8

\* Unlisting changes the lists at one instruction, and only downwards.
LEMMA UnlistedFacts ==
    ASSUME NEW sources \in Seq(Operand), NEW j \in 1..Size,
           users \in [Operand -> [1..Size -> Nat]]
    PROVE  /\ Unlisted(sources, j) \in [Operand -> [1..Size -> Nat]]
           /\ \A o \in Operand : \A l \in 1..Size :
                 /\ l # j => Unlisted(sources, j)[o][l] = users[o][l]
                 /\ Unlisted(sources, j)[o][l] <= users[o][l]
<1> DEFINE gone(o) == Cardinality({k \in DOMAIN sources : sources[k] = o})
           left(o) == IF users[o][j] > gone(o) THEN users[o][j] - gone(o) ELSE 0
<1>1. ASSUME NEW o \in Operand PROVE left(o) \in Nat /\ left(o) <= users[o][j]
  <2>1. IsFiniteSet(DOMAIN sources)
    BY ArgumentFacts
  <2>2. IsFiniteSet({k \in DOMAIN sources : sources[k] = o})
    BY <2>1, FS_Subset
  <2>3. gone(o) \in Nat
    BY <2>2, FS_CardinalityType
  <2>4. users[o][j] \in Nat
    OBVIOUS
  <2>5. left(o) = IF users[o][j] > gone(o) THEN users[o][j] - gone(o) ELSE 0
    OBVIOUS
  <2> HIDE DEF gone, left
  <2> QED
    BY <2>3, <2>4, <2>5
<1>2. Unlisted(sources, j) = [o \in Operand |-> [users[o] EXCEPT ![j] = left(o)]]
  BY DEF Unlisted
<1> HIDE DEF left
<1>3. ASSUME NEW o \in Operand
      PROVE  /\ Unlisted(sources, j)[o] \in [1..Size -> Nat]
             /\ \A l \in 1..Size : Unlisted(sources, j)[o][l] = IF l = j THEN left(o) ELSE users[o][l]
  <2>1. Unlisted(sources, j)[o] = [users[o] EXCEPT ![j] = left(o)]
    BY <1>2
  <2>2. users[o] \in [1..Size -> Nat] /\ left(o) \in Nat
    BY <1>1
  <2> QED
    BY <2>1, <2>2
<1>4. Unlisted(sources, j) \in [Operand -> [1..Size -> Nat]]
  BY <1>2, <1>3
<1>5. ASSUME NEW o \in Operand, NEW l \in 1..Size
      PROVE  /\ l # j => Unlisted(sources, j)[o][l] = users[o][l]
             /\ Unlisted(sources, j)[o][l] <= users[o][l]
  <2>1. users[o][l] \in Nat /\ left(o) <= users[o][j]
    BY <1>1
  <2>2. Unlisted(sources, j)[o][l] = IF l = j THEN left(o) ELSE users[o][l]
    BY <1>3
  <2> QED
    BY <2>1, <2>2
<1> QED
  BY <1>4, <1>5

\* What the instructions read are operands.
LEMMA ReadsAreOperands ==
    ASSUME TypeOK, Shape, NEW j \in 1..Size
    PROVE  Reads(code[j]) \subseteq Operand
<1>1. /\ code[j].args \in Seq(Operand) /\ code[j].dest \in Operand \cup {None}
      /\ code[j].op = "store" => code[j].dest # None
  BY DEF TypeOK, Shape
<1>2. Arguments(code[j]) \subseteq Operand
  BY <1>1, ArgumentFacts DEF Arguments
<1> QED
  BY <1>1, <1>2 DEF Reads

\* Replacing one operand by another.
LEMMA ReplacedFacts ==
    ASSUME NEW i, i = [op |-> i.op, dest |-> i.dest, args |-> i.args, value |-> i.value],
           i.args \in Seq(Operand), i.dest \in Operand \cup {None},
           NEW old \in Operand, NEW new \in Operand, old # new
    PROVE  LET r == Replaced(i, old, new)
           IN  /\ r = [op |-> i.op, dest |-> r.dest, args |-> r.args, value |-> i.value]
               /\ r.args \in Seq(Operand)
               /\ r.dest \in {i.dest, new}
               /\ i.op # "store" => r.dest = i.dest
               /\ Reads(r) \subseteq (Reads(i) \ {old}) \cup {new}
               /\ new \in Reads(r) => old \in Reads(i) \/ new \in Reads(i)
               /\ old \in Reads(i) => r # i
<1> DEFINE args == [k \in DOMAIN i.args |-> IF i.args[k] = old THEN new ELSE i.args[k]]
           dest == IF i.op = "store" /\ i.dest = old THEN new ELSE i.dest
           r == Replaced(i, old, new)
<1>1. CASE i.op \in {"alloca", "nop", "asm"}
  <2>1. r = i
    BY <1>1 DEF Replaced
  <2>2. Reads(i) = {}
    BY <1>1 DEF Reads, Arguments
  <2> QED
    BY <2>1, <2>2
<1>2. CASE i.op \notin {"alloca", "nop", "asm"}
  <2>1. r = [i EXCEPT !.args = args, !.dest = dest]
    BY <1>2 DEF Replaced
  <2>2. r = [op |-> i.op, dest |-> dest, args |-> args, value |-> i.value]
    <3> HIDE DEF r, args, dest
    <3> QED
      BY <2>1
  <2>3. args \in Seq(Operand)
    BY ReplacedArguments
  <2>4. r.op = i.op /\ r.args = args /\ r.dest = dest
    <3> HIDE DEF r, args, dest
    <3> QED
      BY <2>2
  <2>5. Arguments(i) = {i.args[k] : k \in DOMAIN i.args} /\ Arguments(r) = {args[k] : k \in DOMAIN args}
    <3> HIDE DEF r, args, dest
    <3> QED
      BY <1>2, <2>4 DEF Arguments
  <2>6. DOMAIN args = DOMAIN i.args
        /\ \A k \in DOMAIN i.args : args[k] = IF i.args[k] = old THEN new ELSE i.args[k]
    OBVIOUS
  <2>7. dest \in {i.dest, new} /\ (i.op # "store" => dest = i.dest)
        /\ (i.op = "store" => dest # old /\ (dest = new => i.dest \in {old, new}))
    OBVIOUS
  <2>8. old \in Reads(i) => r # i
    <3>1. old \in Arguments(i) => args # i.args
      BY <2>5, <2>6
    <3>2. i.op = "store" /\ i.dest = old => dest # i.dest
      OBVIOUS
    <3> HIDE DEF r, args, dest
    <3> QED
      BY <2>4, <3>1, <3>2 DEF Reads
  <2> HIDE DEF r, args, dest
  <2>9. Arguments(r) \subseteq (Arguments(i) \ {old}) \cup {new}
        /\ (new \in Arguments(r) => old \in Arguments(i) \/ new \in Arguments(i))
    BY <2>5, <2>6
  <2>10. Reads(r) \subseteq (Reads(i) \ {old}) \cup {new}
         /\ (new \in Reads(r) => old \in Reads(i) \/ new \in Reads(i))
    BY <2>4, <2>7, <2>9 DEF Reads
  <2>11. r = [op |-> i.op, dest |-> r.dest, args |-> r.args, value |-> i.value]
    BY <2>2, <2>4
  <2>12. r.args \in Seq(Operand) /\ r.dest \in {i.dest, new} /\ (i.op # "store" => r.dest = i.dest)
    BY <2>3, <2>4, <2>7
  <2> QED
    BY <2>8, <2>10, <2>11, <2>12 DEF r
<1> QED
  BY <1>1, <1>2

LEMMA NopFacts ==
    ASSUME NEW i, i = [op |-> i.op, dest |-> i.dest, args |-> i.args, value |-> i.value]
    PROVE  /\ Nop(i) = [op |-> "nop", dest |-> i.dest, args |-> i.args, value |-> i.value]
           /\ Reads(Nop(i)) = {}
<1>1. Nop(i) = [op |-> "nop", dest |-> i.dest, args |-> i.args, value |-> i.value]
  BY DEF Nop
<1>2. Nop(i).op = "nop"
  BY <1>1
<1> QED
  BY <1>1, <1>2 DEF Reads, Arguments

-----------------------------------------------------------------------------
LEMMA InitIInv == Init => IInv
<1> SUFFICES ASSUME Init PROVE IInv
  OBVIOUS
<1>1. Chosen
  BY DEF Init, Chosen
<1>2. Size \in Nat /\ Len(prog.last) \in Nat /\ 1 \in 1..Len(prog.last)
  BY <1>1, ProgramsAssumption DEF Chosen, Size
<1>3. func = 1 /\ First(func) = 1
  BY DEF Init, First
<1>4. \A j \in 1..Size : code[j] = [op |-> prog.code[j].op, dest |-> prog.code[j].dest,
                                    args |-> prog.code[j].args, value |-> Unknown]
  BY DEF Init
<1>5. Shape
  <2> SUFFICES ASSUME NEW j \in 1..Size
               PROVE  /\ code[j] = [op |-> code[j].op, dest |-> code[j].dest,
                                    args |-> code[j].args, value |-> code[j].value]
                      /\ code[j].op = prog.code[j].op
                      /\ code[j].dest = prog.code[j].dest
                      /\ code[j].op \in {"store", "mov", "alu", "neq"} => code[j].dest # None
    BY DEF Shape
  <2>1. code[j] = [op |-> prog.code[j].op, dest |-> prog.code[j].dest,
                   args |-> prog.code[j].args, value |-> Unknown]
    BY <1>4
  <2>2. code[j].op = prog.code[j].op /\ code[j].dest = prog.code[j].dest
    BY <2>1
  <2>3. prog.code[j].op \in {"store", "mov", "alu", "neq"} => prog.code[j].dest # None
    BY <1>1, CodeFacts
  <2> QED
    BY <2>1, <2>2, <2>3
<1>6. TypeOK
  <2>1. DOMAIN code = 1..Size
    BY DEF Init
  <2>2. ASSUME NEW j \in 1..Size
        PROVE  code[j].op \in Operations /\ code[j].dest \in Operand \cup {None} /\ code[j].args \in Seq(Operand)
    <3>1. code[j] = [op |-> prog.code[j].op, dest |-> prog.code[j].dest,
                     args |-> prog.code[j].args, value |-> Unknown]
      BY <1>4
    <3>2. code[j].op = prog.code[j].op /\ code[j].dest = prog.code[j].dest /\ code[j].args = prog.code[j].args
      BY <3>1
    <3>3. /\ prog.code[j].op \in Operations /\ prog.code[j].dest \in Operand \cup {None}
          /\ prog.code[j].args \in Seq(Operand)
      BY <1>1, CodeFacts
    <3> QED
      BY <3>2, <3>3
  <2>3. users \in [Operand -> [1..Size -> Nat]]
    BY DEF Init
  <2>4. kind \in [Operand -> Kinds]
    BY <1>1, ProgramsAssumption DEF Init, Chosen
  <2>5. /\ const \subseteq Operand \cup {None} /\ func \in 1..Len(prog.last)
        /\ at \in 1..(Size + 1) /\ changed \in BOOLEAN
        /\ pc \in {"uses", "fold", "copy", "dce", "done"}
    <3>1. const \subseteq Operand /\ func = 1 /\ at = 1 /\ pc = "uses"
      BY DEF Init
    <3>2. changed \in BOOLEAN
      BY DEF Init
    <3>3. const \subseteq Operand \cup {None} /\ func \in 1..Len(prog.last) /\ at \in 1..(Size + 1)
      BY <1>2, <3>1
    <3> QED
      BY <3>1, <3>2, <3>3
  <2> QED
    BY <2>1, <2>2, <2>3, <2>4, <2>5 DEF TypeOK
<1>7. ReadersListed
  <2>1. Listed = {}
    BY <1>3 DEF Init, Listed
  <2> QED
    BY <2>1 DEF ReadersListed
<1> QED
  BY <1>1, <1>5, <1>6, <1>7 DEF IInv

-----------------------------------------------------------------------------
\* ComputeUses lists the readers of one more function.
LEMMA ComputeUsesIInv == IInv /\ ComputeUses => IInv'
<1> SUFFICES ASSUME IInv, ComputeUses PROVE IInv'
  OBVIOUS
<1>1. prog' = prog /\ code' = code /\ kind' = kind /\ func' = func /\ pc = "uses" /\ pc' = "fold"
  BY DEF ComputeUses
<1>2. Chosen /\ TypeOK /\ Shape /\ ReadersListed /\ func \in 1..Len(prog.last)
  BY DEF IInv, TypeOK
<1>3. Size' = Size /\ First(func)' = First(func) /\ Here' = Here
  BY <1>1 DEF Size, First, Here
<1>4. Listed = 1..(First(func) - 1) /\ Listed' = Listed \cup Here /\ Here \subseteq 1..Size
      /\ First(func) \in 1..(Size + 1) /\ Listed \subseteq 1..Size
  BY <1>1, <1>2, <1>3, LayoutFacts DEF Listed
<1>5. ASSUME NEW o \in Operand, NEW j \in 1..Size
      PROVE  /\ users'[o][j] \in Nat
             /\ users[o][j] <= users'[o][j]
             /\ j \in Here /\ o \in Reads(code[j]) => users'[o][j] > 0
  <2>1. users[o][j] \in Nat /\ code[j].args \in Seq(Operand)
    BY <1>2 DEF TypeOK
  <2>2. Mentions(code[j], o) \in Nat /\ (o \in Reads(code[j]) => Mentions(code[j], o) > 0)
    BY <2>1, MentionsFacts
  <2>3. users'[o][j] = IF j \in Here THEN users[o][j] + Mentions(code[j], o) ELSE users[o][j]
    BY DEF ComputeUses
  <2> QED
    BY <2>1, <2>2, <2>3
<1>6. TypeOK'
  <2>1. users' \in [Operand -> [1..Size -> Nat]]
    <3>1. users' = [o \in Operand |-> [j \in 1..Size |->
                       IF j \in Here THEN users[o][j] + Mentions(code[j], o) ELSE users[o][j]]]
      BY DEF ComputeUses
    <3>2. ASSUME NEW o \in Operand PROVE users'[o] \in [1..Size -> Nat]
      BY <3>1, <1>5
    <3> QED
      BY <3>1, <3>2
  <2>2. const' \subseteq Operand \cup {None}
    <3>1. ConstantDefinitions \subseteq Operand \cup {None}
      BY <1>2, <1>4 DEF ConstantDefinitions, TypeOK
    <3> QED
      BY <1>2, <3>1 DEF ComputeUses, TypeOK
  <2>3. at' \in 1..(Size' + 1)
    BY <1>3, <1>4 DEF ComputeUses
  <2>4. changed' \in BOOLEAN
    BY DEF ComputeUses
  <2> QED
    BY <1>1, <1>2, <1>3, <2>1, <2>2, <2>3, <2>4 DEF TypeOK
<1>7. ReadersListed'
  <2> SUFFICES ASSUME NEW j \in Listed', NEW o \in Reads(code[j]) PROVE users'[o][j] > 0
    BY <1>1 DEF ReadersListed
  <2>1. j \in 1..Size /\ o \in Operand
    <3>1. j \in 1..Size
      BY <1>4
    <3> QED
      BY <1>2, <3>1, ReadsAreOperands
  <2>2. j \in Here => users'[o][j] > 0
    BY <2>1, <1>5
  <2>3. j \in Listed => users'[o][j] > 0
    <3>1. j \in Listed => users[o][j] > 0
      BY <1>2 DEF ReadersListed
    <3>2. users[o][j] \in Nat /\ users'[o][j] \in Nat /\ users[o][j] <= users'[o][j]
      BY <1>2, <1>5, <2>1 DEF TypeOK
    <3> QED
      BY <3>1, <3>2
  <2> QED
    BY <1>4, <2>2, <2>3
<1>8. Chosen' /\ Shape'
  BY <1>1, <1>2, <1>3 DEF Chosen, Shape
<1> QED
  BY <1>6, <1>7, <1>8 DEF IInv

\* What holds wherever a pass is at an instruction.
LEMMA PassFacts ==
    ASSUME IInv, pc \in {"fold", "copy", "dce"}, at \in Here
    PROVE  /\ Size \in Nat
           /\ at \in 1..Size /\ at \in Listed /\ Listed \subseteq 1..Size
           /\ at + 1 \in 1..(Size + 1)
           /\ code[at].args \in Seq(Operand)
           /\ code[at].dest \in Operand \cup {None}
           /\ users \in [Operand -> [1..Size -> Nat]]
           /\ kind \in [Operand -> Kinds]
<1>1. Chosen /\ TypeOK /\ func \in 1..Len(prog.last)
  BY DEF IInv, TypeOK
<1>2. Size \in Nat /\ at \in 1..Size /\ Listed \subseteq 1..Size
  BY <1>1, LayoutFacts
<1>3. at \in Listed
  <2>1. Listed = 1..prog.last[func] /\ 1..prog.last[func] = (1..(First(func) - 1)) \cup Here
    BY <1>1, LayoutFacts DEF Listed
  <2> QED
    BY <2>1
<1>4. at + 1 \in 1..(Size + 1)
  BY <1>2
<1> QED
  BY <1>1, <1>2, <1>3, <1>4 DEF TypeOK

\* A folded instruction reads nothing any more.
LEMMA FoldIInv == IInv /\ Fold => IInv'
<1> SUFFICES ASSUME IInv, Fold PROVE IInv'
  OBVIOUS
<1>1. /\ prog' = prog /\ kind' = kind /\ func' = func /\ pc' = pc /\ pc = "fold"
      /\ at \in Here /\ at' = at + 1
  BY DEF Fold
<1>2. Chosen /\ TypeOK /\ Shape /\ ReadersListed
  BY DEF IInv
<1>3. Size' = Size /\ Listed' = Listed
  BY <1>1 DEF Size, First, Listed
<1>4. /\ at \in 1..Size /\ at \in Listed /\ Listed \subseteq 1..Size /\ at + 1 \in 1..(Size + 1)
      /\ code[at].args \in Seq(Operand) /\ code[at].dest \in Operand \cup {None}
      /\ users \in [Operand -> [1..Size -> Nat]]
  BY <1>1, PassFacts
<1> DEFINE folded == code'[at]
<1>5. /\ folded = [op |-> "mov", dest |-> code[at].dest, args |-> << >>, value |-> folded.value]
      /\ \A j \in 1..Size : j # at => code'[j] = code[j]
      /\ DOMAIN code' = 1..Size
  <2>1. PICK result : code' = [code EXCEPT ![at] =
                          [op |-> "mov", dest |-> code[at].dest, args |-> << >>, value |-> result]]
    BY DEF Fold
  <2>2. DOMAIN code = 1..Size
    BY <1>2 DEF TypeOK
  <2>3. folded = [op |-> "mov", dest |-> code[at].dest, args |-> << >>, value |-> result]
    BY <1>4, <2>1, <2>2
  <2> QED
    BY <2>1, <2>2, <2>3
<1> HIDE DEF folded
<1>6. folded.op = "mov" /\ folded.dest = code[at].dest /\ folded.args = << >>
  BY <1>5
<1>7. /\ users' \in [Operand -> [1..Size -> Nat]]
      /\ \A o \in Operand : \A l \in 1..Size : l # at => users'[o][l] = users[o][l]
  <2>1. users' = Unlisted(code[at].args, at)
    BY DEF Fold
  <2> QED
    BY <1>4, <2>1, UnlistedFacts
<1>8. TypeOK'
  <2>1. ASSUME NEW j \in 1..Size
        PROVE  /\ code'[j].op \in Operations /\ code'[j].dest \in Operand \cup {None}
               /\ code'[j].args \in Seq(Operand)
    <3>1. CASE j = at
      <4>1. << >> \in Seq(Operand)
        BY EmptySeq
      <4> QED
        BY <1>4, <1>6, <3>1, <4>1 DEF folded, Operations
    <3>2. CASE j # at
      BY <1>2, <1>5, <3>2 DEF TypeOK
    <3> QED
      BY <3>1, <3>2
  <2>2. const' \subseteq Operand \cup {None}
    BY <1>2, <1>4 DEF Fold, TypeOK
  <2>3. changed' \in BOOLEAN
    BY DEF Fold
  <2> QED
    BY <1>1, <1>2, <1>3, <1>4, <1>5, <1>7, <2>1, <2>2, <2>3 DEF TypeOK
<1>9. Shape'
  <2> SUFFICES ASSUME NEW j \in 1..Size
               PROVE  /\ code'[j] = [op |-> code'[j].op, dest |-> code'[j].dest,
                                     args |-> code'[j].args, value |-> code'[j].value]
                      /\ code'[j].op = "store" => prog.code[j].op = "store"
                      /\ code'[j].op \in {"store", "mov", "alu", "neq"} => code'[j].dest # None
                      /\ prog.code[j].op # "store" => code'[j].dest = prog.code[j].dest
    BY <1>1, <1>3 DEF Shape
  <2>1. CASE j = at
    <3>1. /\ prog.code[at].op # "store" => code[at].dest = prog.code[at].dest
          /\ code[at].op \in {"alu", "neq"} => code[at].dest # None
      BY <1>2, <1>4 DEF Shape
    <3>2. code[at].op \in {"alu", "neq"}
      BY DEF Fold, Foldable
    <3> QED
      BY <1>5, <1>6, <2>1, <3>1, <3>2 DEF folded
  <2>2. CASE j # at
    BY <1>2, <1>5, <2>2 DEF Shape
  <2> QED
    BY <2>1, <2>2
<1>10. ReadersListed'
  <2> SUFFICES ASSUME NEW j \in Listed, NEW o \in Reads(code'[j]) PROVE users'[o][j] > 0
    BY <1>3 DEF ReadersListed
  <2>1. j # at
    <3>1. Reads(folded) = {}
      BY <1>6 DEF Reads, Arguments
    <3> QED
      BY <3>1 DEF folded
  <2>2. j \in 1..Size /\ code'[j] = code[j] /\ o \in Operand
    BY <1>2, <1>4, <1>5, <2>1, ReadsAreOperands
  <2>3. users[o][j] > 0
    BY <1>2, <2>2 DEF ReadersListed
  <2> QED
    BY <1>7, <2>1, <2>2, <2>3
<1> QED
  BY <1>1, <1>2, <1>8, <1>9, <1>10 DEF IInv, Chosen

\* The two operands of a copy, and what becomes of its readers.
LEMMA PropagateFacts ==
    ASSUME IInv, Propagate
    PROVE  LET copy == code[at].dest
               source == code[at].args[1]
               new(j) == Replaced(code[j], copy, source)
               moved == {j \in Readers(copy) : new(j) # code[j]}
           IN  /\ copy \in Operand /\ source \in Operand /\ copy # source
               /\ kind[source] = "vreg"
               /\ source \in Reads(code[at])
               /\ \A j \in 1..Size :
                     code'[j] = IF j = at THEN Nop(code[j]) ELSE IF j \in moved THEN new(j) ELSE code[j]
               /\ DOMAIN code' = 1..Size
               /\ users' \in [Operand -> [1..Size -> Nat]]
               /\ \A j \in 1..Size : users'[copy][j] = 0
               /\ \A j \in 1..Size : j # at =>
                     users'[source][j] = IF j \in moved THEN users[source][j] + 1 ELSE users[source][j]
               /\ \A o \in Operand \ {copy, source} : \A j \in 1..Size :
                     /\ j # at => users'[o][j] = users[o][j]
                     /\ users'[o][j] <= users[o][j]
<1> DEFINE copy == code[at].dest
           source == code[at].args[1]
           new(j) == Replaced(code[j], copy, source)
           moved == {j \in Readers(copy) : new(j) # code[j]}
           less == Unlisted(<<source>>, at)
<1>1. pc = "copy" /\ at \in Here /\ IsCopy(code[at])
  BY DEF Propagate
<1>2. /\ at \in 1..Size /\ code[at].args \in Seq(Operand) /\ copy \in Operand \cup {None}
      /\ users \in [Operand -> [1..Size -> Nat]] /\ TypeOK /\ Shape
      /\ kind \in [Operand -> Kinds]
  BY <1>1, PassFacts DEF IInv
<1>3. 1 \in DOMAIN code[at].args /\ source \in Operand
  BY <1>1, <1>2, ArgumentFacts DEF IsCopy
<1>4. copy # source /\ kind[source] = "vreg" /\ code[at].op = "mov"
  BY <1>1 DEF IsCopy
<1>5. copy \in Operand
  <2>1. copy # None
    BY <1>2, <1>4 DEF Shape
  <2> QED
    BY <1>2, <2>1
<1>6. source \in Reads(code[at])
  BY <1>3, <1>4 DEF Reads, Arguments
<1>7. DOMAIN code' = 1..Size
      /\ \A j \in 1..Size :
            code'[j] = IF j = at THEN Nop(code[j]) ELSE IF j \in moved THEN new(j) ELSE code[j]
  BY DEF Propagate
<1>8. /\ less \in [Operand -> [1..Size -> Nat]]
      /\ \A o \in Operand : \A l \in 1..Size :
            (l # at => less[o][l] = users[o][l]) /\ less[o][l] <= users[o][l]
  <2>1. <<source>> \in Seq(Operand)
    BY <1>3
  <2> QED
    BY <1>2, <2>1, UnlistedFacts
<1> DEFINE more == [j \in 1..Size |-> IF j \in moved THEN less[source][j] + 1 ELSE less[source][j]]
           none == [j \in 1..Size |-> 0]
<1>9. users' = [[less EXCEPT ![copy] = none] EXCEPT ![source] = more]
  BY <1>4 DEF Propagate
<1>10. more \in [1..Size -> Nat] /\ none \in [1..Size -> Nat]
  <2>1. ASSUME NEW j \in 1..Size PROVE less[source][j] \in Nat
    <3> HIDE DEF less, source
    <3> QED
      BY <1>3, <1>8
  <2>2. ASSUME NEW j \in 1..Size
        PROVE  (IF j \in moved THEN less[source][j] + 1 ELSE less[source][j]) \in Nat
    <3> HIDE DEF moved, less, source
    <3> QED
      BY <2>1
  <2>3. more \in [1..Size -> Nat]
    <3> HIDE DEF moved, less, source
    <3> QED
      BY <2>2
  <2> QED
    BY <2>3
<1>11. users'[copy] = none /\ users'[source] = more /\ users' \in [Operand -> [1..Size -> Nat]]
       /\ \A o \in Operand \ {copy, source} : users'[o] = less[o]
  <2> HIDE DEF more, none, less, copy, source, moved, new
  <2> QED
    BY <1>3, <1>4, <1>5, <1>8, <1>9, <1>10
<1>12. \A j \in 1..Size : j # at =>
          users'[source][j] = IF j \in moved THEN users[source][j] + 1 ELSE users[source][j]
  <2> HIDE DEF less, moved, source
  <2> QED
    BY <1>3, <1>8, <1>11
<1>13. \A o \in Operand \ {copy, source} : \A j \in 1..Size :
          (j # at => users'[o][j] = users[o][j]) /\ users'[o][j] <= users[o][j]
  <2> HIDE DEF less, copy, source
  <2> QED
    BY <1>8, <1>11
<1>14. \A j \in 1..Size : users'[copy][j] = 0
  BY <1>11
<1> QED
  BY <1>3, <1>4, <1>5, <1>6, <1>7, <1>11, <1>12, <1>13, <1>14

\* Readers of the copy become readers of its source, in the code and in the list.
LEMMA PropagateIInv == IInv /\ Propagate => IInv'
<1> SUFFICES ASSUME IInv, Propagate PROVE IInv'
  OBVIOUS
<1> DEFINE copy == code[at].dest
           source == code[at].args[1]
           new(j) == Replaced(code[j], copy, source)
           moved == {j \in Readers(copy) : new(j) # code[j]}
<1>1. /\ prog' = prog /\ kind' = kind /\ const' = const /\ func' = func /\ pc' = pc
      /\ pc = "copy" /\ at \in Here /\ at' = at + 1
  BY DEF Propagate
<1>2. Chosen /\ TypeOK /\ Shape /\ ReadersListed
  BY DEF IInv
<1>3. Size' = Size /\ Listed' = Listed
  BY <1>1 DEF Size, First, Listed
<1>4. at \in 1..Size /\ Listed \subseteq 1..Size /\ at + 1 \in 1..(Size + 1)
  BY <1>1, PassFacts
<1>5. /\ copy \in Operand /\ source \in Operand /\ copy # source
      /\ DOMAIN code' = 1..Size
      /\ users' \in [Operand -> [1..Size -> Nat]]
      /\ \A j \in 1..Size : j # at =>
            users'[source][j] = IF j \in moved THEN users[source][j] + 1 ELSE users[source][j]
      /\ \A o \in Operand \ {copy, source} : \A j \in 1..Size :
            j # at => users'[o][j] = users[o][j]
  BY PropagateFacts
<1>6. \A j \in 1..Size :
          code'[j] = IF j = at THEN Nop(code[j]) ELSE IF j \in moved THEN new(j) ELSE code[j]
  BY PropagateFacts
<1>7. ASSUME NEW j \in 1..Size
      PROVE  /\ code[j] = [op |-> code[j].op, dest |-> code[j].dest, args |-> code[j].args, value |-> code[j].value]
             /\ code[j].op \in Operations
             /\ code[j].args \in Seq(Operand) /\ code[j].dest \in Operand \cup {None}
             /\ code[j].op = "store" => prog.code[j].op = "store"
             /\ code[j].op \in {"store", "mov", "alu", "neq"} => code[j].dest # None
             /\ prog.code[j].op # "store" => code[j].dest = prog.code[j].dest
  BY <1>2 DEF TypeOK, Shape
<1>8. ASSUME NEW j \in 1..Size
      PROVE  /\ new(j) = [op |-> code[j].op, dest |-> new(j).dest, args |-> new(j).args, value |-> code[j].value]
             /\ new(j).args \in Seq(Operand)
             /\ new(j).dest \in {code[j].dest, source}
             /\ code[j].op # "store" => new(j).dest = code[j].dest
             /\ Reads(new(j)) \subseteq (Reads(code[j]) \ {copy}) \cup {source}
             /\ copy \in Reads(code[j]) => new(j) # code[j]
  <2>1. /\ code[j] = [op |-> code[j].op, dest |-> code[j].dest, args |-> code[j].args, value |-> code[j].value]
        /\ code[j].args \in Seq(Operand) /\ code[j].dest \in Operand \cup {None}
    BY <1>7
  <2>2. copy \in Operand /\ source \in Operand /\ copy # source
    BY <1>5
  <2> HIDE DEF copy, source
  <2> DEFINE r == Replaced(code[j], copy, source)
  <2>3. /\ r = [op |-> code[j].op, dest |-> r.dest, args |-> r.args, value |-> code[j].value]
        /\ r.args \in Seq(Operand)
        /\ r.dest \in {code[j].dest, source}
        /\ code[j].op # "store" => r.dest = code[j].dest
        /\ Reads(r) \subseteq (Reads(code[j]) \ {copy}) \cup {source}
        /\ copy \in Reads(code[j]) => r # code[j]
    <3> HIDE DEF r
    <3> QED
      BY <2>1, <2>2, ReplacedFacts DEF r
  <2>4. new(j) = r
    OBVIOUS
  <2> HIDE DEF r
  <2> QED
    BY <2>3, <2>4
<1>9. Nop(code[at]) = [op |-> "nop", dest |-> code[at].dest, args |-> code[at].args, value |-> code[at].value]
  <2> HIDE DEF copy, source, new, moved
  <2> QED
    BY <1>4, <1>7, NopFacts
<1> HIDE DEF copy, source, new, moved
<1>10. ASSUME NEW j \in 1..Size
       PROVE  /\ code'[j] = [op |-> code'[j].op, dest |-> code'[j].dest, args |-> code'[j].args, value |-> code'[j].value]
              /\ code'[j].op \in Operations
              /\ code'[j].args \in Seq(Operand) /\ code'[j].dest \in Operand \cup {None}
              /\ code'[j].op = "store" => prog.code[j].op = "store"
              /\ code'[j].op \in {"store", "mov", "alu", "neq"} => code'[j].dest # None
              /\ prog.code[j].op # "store" => code'[j].dest = prog.code[j].dest
  <2>1. CASE j = at
    <3>1. code'[j] = [op |-> "nop", dest |-> code[j].dest, args |-> code[j].args, value |-> code[j].value]
      BY <1>6, <1>9, <2>1
    <3>2. code'[j].op = "nop" /\ code'[j].dest = code[j].dest /\ code'[j].args = code[j].args
          /\ code'[j].value = code[j].value
      BY <3>1
    <3> QED
      BY <1>7, <3>1, <3>2 DEF Operations
  <2>2. CASE j # at /\ j \in moved
    <3>1. code'[j] = new(j)
      BY <1>6, <2>2
    <3>2. new(j).op = code[j].op /\ new(j).value = code[j].value
      BY <1>8
    <3>3. new(j) = [op |-> new(j).op, dest |-> new(j).dest, args |-> new(j).args, value |-> new(j).value]
      BY <1>8, <3>2
    <3>4. /\ new(j).dest \in Operand \cup {None}
          /\ new(j).op \in {"store", "mov", "alu", "neq"} => new(j).dest # None
          /\ new(j).op = "store" => prog.code[j].op = "store"
          /\ prog.code[j].op # "store" => new(j).dest = prog.code[j].dest
      BY <1>5, <1>7, <1>8, <3>2, ProgramsAssumption
    <3> QED
      BY <1>7, <1>8, <3>1, <3>2, <3>3, <3>4
  <2>3. CASE j # at /\ j \notin moved
    BY <1>6, <1>7, <2>3
  <2> QED
    BY <2>1, <2>2, <2>3
<1>11. TypeOK'
  <2>1. changed' \in BOOLEAN
    BY DEF Propagate
  <2> QED
    BY <1>1, <1>2, <1>3, <1>4, <1>5, <1>10, <2>1 DEF TypeOK
<1>12. Shape'
  BY <1>1, <1>3, <1>10 DEF Shape
<1>13. ReadersListed'
  <2> SUFFICES ASSUME NEW j \in Listed, NEW o \in Reads(code'[j]) PROVE users'[o][j] > 0
    BY <1>3 DEF ReadersListed
  <2>1. j \in 1..Size
    BY <1>4
  <2>2. j # at
    <3>1. code'[at].op = "nop"
      BY <1>4, <1>6, <1>9
    <3>2. Reads(code'[at]) = {}
      BY <3>1 DEF Reads, Arguments
    <3> QED
      BY <3>2
  <2>3. \A x \in Reads(code[j]) : x \in Operand /\ users[x][j] > 0
    BY <1>2, <2>1, ReadsAreOperands DEF ReadersListed
  <2>4. users \in [Operand -> [1..Size -> Nat]]
    BY <1>2 DEF TypeOK
  <2>5. CASE j \in moved
    <3>1. code'[j] = new(j) /\ Reads(new(j)) \subseteq (Reads(code[j]) \ {copy}) \cup {source}
      BY <1>6, <1>8, <2>1, <2>2, <2>5
    <3>2. CASE o = source
      <4>1. users'[source][j] = users[source][j] + 1 /\ users[source][j] \in Nat
        BY <1>5, <2>1, <2>2, <2>4, <2>5
      <4> QED
        BY <3>2, <4>1
    <3>3. CASE o # source
      <4>1. o \in Reads(code[j]) /\ o # copy
        BY <3>1, <3>3
      <4>2. users'[o][j] = users[o][j]
        BY <1>5, <2>1, <2>2, <2>3, <3>3, <4>1
      <4> QED
        BY <2>3, <4>1, <4>2
    <3> QED
      BY <3>2, <3>3
  <2>6. CASE j \notin moved
    <3>1. o \in Reads(code[j])
      BY <1>6, <2>1, <2>2, <2>6
    <3>2. o # copy
      <4>1. SUFFICES ASSUME o = copy PROVE FALSE
        OBVIOUS
      <4>2. new(j) # code[j]
        BY <1>8, <2>1, <3>1, <4>1
      <4>3. j \in Readers(copy)
        BY <2>1, <2>3, <3>1, <4>1 DEF Readers
      <4> QED
        BY <2>6, <4>2, <4>3 DEF moved
    <3>3. users'[o][j] = users[o][j]
      BY <1>5, <2>1, <2>2, <2>3, <2>6, <3>1, <3>2
    <3> QED
      BY <2>3, <3>1, <3>3
  <2> QED
    BY <2>5, <2>6
<1> QED
  BY <1>1, <1>2, <1>11, <1>12, <1>13 DEF IInv, Chosen

\* What removing an instruction changes.
LEMMA RemoveFacts ==
    ASSUME IInv, pc = "dce", at \in Here, NEW dests, Remove(dests)
    PROVE  /\ DOMAIN code' = 1..Size
           /\ code'[at] = Nop(code[at])
           /\ \A j \in 1..Size : j # at => code'[j] = code[j]
           /\ users' = Unlisted(Sources(code[at]), at)
           /\ Sources(code[at]) \in Seq(Operand)
           /\ users' \in [Operand -> [1..Size -> Nat]]
           /\ \A o \in Operand : \A l \in 1..Size :
                 (l # at => users'[o][l] = users[o][l]) /\ users'[o][l] <= users[o][l]
<1>1. at \in 1..Size /\ code[at].args \in Seq(Operand) /\ users \in [Operand -> [1..Size -> Nat]]
  BY PassFacts
<1>2. DOMAIN code = 1..Size
  BY DEF IInv, TypeOK
<1>3. code' = [code EXCEPT ![at] = Nop(@)]
  BY DEF Remove
<1>4. << >> \in Seq(Operand)
  BY EmptySeq
<1>5. Sources(code[at]) \in Seq(Operand)
  BY <1>1, <1>4 DEF Sources
<1>6. users' = Unlisted(Sources(code[at]), at)
  BY DEF Remove
<1>7. DOMAIN code' = 1..Size /\ code'[at] = Nop(code[at]) /\ \A j \in 1..Size : j # at => code'[j] = code[j]
  BY <1>1, <1>2, <1>3
<1> QED
  BY <1>1, <1>5, <1>6, <1>7, UnlistedFacts

\* A removed instruction reads nothing, and the lists of the others stay.
LEMMA RemoveIInv ==
    ASSUME IInv, pc = "dce", at \in Here, NEW dests, Remove(dests)
    PROVE  IInv'
<1>1. /\ prog' = prog /\ const' = const /\ func' = func /\ pc' = pc /\ at' = at + 1
      /\ kind' = KindsWithout(dests)
  BY DEF Remove
<1>2. Chosen /\ TypeOK /\ Shape /\ ReadersListed
  BY DEF IInv
<1>3. Size' = Size /\ Listed' = Listed
  BY <1>1 DEF Size, First, Listed
<1>4. at \in 1..Size /\ Listed \subseteq 1..Size /\ at + 1 \in 1..(Size + 1)
  BY PassFacts
<1>5. /\ DOMAIN code' = 1..Size
      /\ code'[at] = Nop(code[at])
      /\ \A j \in 1..Size : j # at => code'[j] = code[j]
      /\ users' \in [Operand -> [1..Size -> Nat]]
      /\ \A o \in Operand : \A l \in 1..Size : l # at => users'[o][l] = users[o][l]
  BY RemoveFacts
<1>6. /\ Nop(code[at]) = [op |-> "nop", dest |-> code[at].dest, args |-> code[at].args, value |-> code[at].value]
      /\ Reads(Nop(code[at])) = {}
  BY <1>2, <1>4, NopFacts DEF Shape
<1>7. ASSUME NEW j \in 1..Size
      PROVE  /\ code'[j] = [op |-> code'[j].op, dest |-> code'[j].dest, args |-> code'[j].args, value |-> code'[j].value]
             /\ code'[j].op \in Operations
             /\ code'[j].args \in Seq(Operand) /\ code'[j].dest \in Operand \cup {None}
             /\ code'[j].op = "store" => prog.code[j].op = "store"
             /\ code'[j].op \in {"store", "mov", "alu", "neq"} => code'[j].dest # None
             /\ prog.code[j].op # "store" => code'[j].dest = prog.code[j].dest
  <2>1. CASE j = at
    <3>1. code'[j] = [op |-> "nop", dest |-> code[j].dest, args |-> code[j].args, value |-> code[j].value]
      BY <1>5, <1>6, <2>1
    <3>2. code'[j].op = "nop" /\ code'[j].dest = code[j].dest /\ code'[j].args = code[j].args
          /\ code'[j].value = code[j].value
      BY <3>1
    <3>3. /\ code[j].args \in Seq(Operand) /\ code[j].dest \in Operand \cup {None}
          /\ prog.code[j].op # "store" => code[j].dest = prog.code[j].dest
      BY <1>2 DEF TypeOK, Shape
    <3> QED
      BY <3>1, <3>2, <3>3 DEF Operations
  <2>2. CASE j # at
    <3>1. code'[j] = code[j]
      BY <1>5, <2>2
    <3> QED
      BY <1>2, <3>1 DEF TypeOK, Shape
  <2> QED
    BY <2>1, <2>2
<1>8. TypeOK'
  <2>1. kind' \in [Operand -> Kinds]
    <3>1. kind \in [Operand -> Kinds]
      BY <1>2 DEF TypeOK
    <3> QED
      BY <1>1, <3>1 DEF KindsWithout, Kinds
  <2>2. changed' \in BOOLEAN
    BY DEF Remove
  <2> QED
    BY <1>1, <1>2, <1>3, <1>4, <1>5, <1>7, <2>1, <2>2 DEF TypeOK
<1>9. Shape'
  BY <1>1, <1>3, <1>7 DEF Shape
<1>10. ReadersListed'
  <2> SUFFICES ASSUME NEW j \in Listed, NEW o \in Reads(code'[j]) PROVE users'[o][j] > 0
    BY <1>3 DEF ReadersListed
  <2>1. j \in 1..Size /\ j # at
    BY <1>4, <1>5, <1>6
  <2>2. o \in Reads(code[j]) /\ o \in Operand
    BY <1>2, <1>5, <2>1, ReadsAreOperands
  <2> QED
    BY <1>2, <1>5, <2>1, <2>2 DEF ReadersListed
<1> QED
  BY <1>1, <1>2, <1>8, <1>9, <1>10 DEF IInv, Chosen

\* The steps between instructions, passes, rounds and functions leave the code.
LEMMA ControlIInv ==
    ASSUME IInv, Pass \/ NextPass \/ NextRound \/ NextFunction
    PROVE  /\ IInv'
           /\ UNCHANGED <<prog, code, users, kind>>
           /\ Size' = Size /\ Listed' = Listed
<1>1. UNCHANGED <<prog, code, users, kind, const>> /\ Size' = Size
  BY DEF Pass, NextPass, NextRound, NextFunction, Size
<1>2. Chosen /\ TypeOK /\ Shape /\ ReadersListed
  BY DEF IInv
<1>3. /\ Size \in Nat /\ Len(prog.last) \in Nat /\ func \in 1..Len(prog.last)
      /\ First(func) \in 1..(Size + 1)
  BY <1>2, LayoutFacts DEF TypeOK
<1>4. /\ func' \in 1..Len(prog.last) /\ at' \in 1..(Size + 1)
      /\ pc' \in {"uses", "fold", "copy", "dce", "done"}
      /\ Listed' = Listed
  <2>1. CASE Pass
    <3>1. pc \in {"fold", "copy", "dce"} /\ at \in Here /\ func' = func /\ pc' = pc /\ at' = at + 1
      BY <2>1 DEF Pass
    <3>2. at + 1 \in 1..(Size + 1)
      BY <3>1, PassFacts
    <3> QED
      BY <1>1, <1>3, <3>1, <3>2 DEF Listed, First
  <2>2. CASE NextPass \/ NextRound
    <3>1. /\ func' = func /\ at' = First(func)
          /\ pc \in {"fold", "copy", "dce"} /\ pc' \in {"fold", "copy", "dce"}
      BY <2>2 DEF NextPass, NextRound
    <3>2. pc # "uses" /\ pc' # "uses"
      BY <3>1
    <3>3. Listed' = Listed
      BY <1>1, <3>1, <3>2 DEF Listed
    <3> QED
      BY <1>3, <3>1, <3>3
  <2>3. CASE NextFunction
    <3>1. at' = at /\ pc = "dce"
      BY <2>3 DEF NextFunction
    <3>2. at \in 1..(Size + 1)
      BY <1>2 DEF TypeOK
    <3>3. CASE func < Len(prog.last)
      <4>1. func' = func + 1 /\ pc' = "uses"
        BY <2>3, <3>3 DEF NextFunction
      <4>2. First(func + 1) = prog.last[func] + 1 /\ prog.last[func] \in 0..Size
        BY <1>2, <1>3, <3>3, LayoutFacts DEF First, TypeOK
      <4>3. First(func)' = prog.last[func] + 1
        BY <1>1, <1>3, <4>1 DEF First
      <4>4. Listed' = 1..prog.last[func]
        BY <4>1, <4>2, <4>3 DEF Listed
      <4>5. Listed = 1..prog.last[func]
        BY <3>1 DEF Listed
      <4> QED
        BY <1>3, <3>1, <3>2, <3>3, <4>1, <4>4, <4>5
    <3>4. CASE ~(func < Len(prog.last))
      <4>1. func' = func /\ pc' = "done"
        BY <2>3, <3>4 DEF NextFunction
      <4>2. Listed' = Listed
        BY <1>1, <3>1, <4>1 DEF Listed
      <4> QED
        BY <1>3, <3>1, <3>2, <4>1, <4>2
    <3> QED
      BY <3>3, <3>4
  <2> QED
    BY <2>1, <2>2, <2>3
<1>5. changed' \in BOOLEAN
  <2>1. changed \in BOOLEAN
    BY <1>2 DEF TypeOK
  <2> QED
    BY <2>1 DEF Pass, NextPass, NextRound, NextFunction
<1>6. TypeOK' /\ Shape' /\ Chosen'
  <2>1. TypeOK'
    BY <1>1, <1>2, <1>4, <1>5 DEF TypeOK
  <2>2. Shape' /\ Chosen'
    BY <1>1, <1>2 DEF Shape, Chosen
  <2> QED
    BY <2>1, <2>2
<1>7. ReadersListed'
  BY <1>1, <1>2, <1>4 DEF ReadersListed
<1> QED
  BY <1>1, <1>4, <1>6, <1>7 DEF IInv

LEMMA NextIInv == IInv /\ [Next]_vars => IInv'
<1> SUFFICES ASSUME IInv, [Next]_vars PROVE IInv'
  OBVIOUS
<1>1. CASE ComputeUses
  BY <1>1, ComputeUsesIInv
<1>2. CASE Fold
  BY <1>2, FoldIInv
<1>3. CASE Propagate
  BY <1>3, PropagateIInv
<1>4. CASE RemoveUnused
  BY <1>4, RemoveIInv DEF RemoveUnused
<1>5. CASE RemoveUndefined
  BY <1>5, RemoveIInv DEF RemoveUndefined
<1>6. CASE Pass \/ NextPass \/ NextRound \/ NextFunction
  BY <1>6, ControlIInv
<1>7. CASE UNCHANGED vars
  <2>1. UNCHANGED <<prog, code, users, kind, const, func, at, changed, pc>>
    BY <1>7 DEF vars
  <2>2. Size' = Size /\ Listed' = Listed
    BY <2>1 DEF Size, Listed, First
  <2>3. TypeOK' /\ Shape' /\ Chosen' /\ ReadersListed'
    BY <2>1, <2>2 DEF IInv, TypeOK, Shape, Chosen, ReadersListed
  <2> QED
    BY <2>3 DEF IInv
<1> QED
  BY <1>1, <1>2, <1>3, <1>4, <1>5, <1>6, <1>7 DEF Next

LEMMA InvariantHolds == Spec => []IInv
<1> QED
  BY InitIInv, NextIInv, PTL DEF Spec

\* The types hold for every module.
THEOREM TypeCorrect == Spec => []TypeOK
<1>1. IInv => TypeOK
  BY DEF IInv
<1> QED
  BY <1>1, InvariantHolds, PTL

\* Whoever reads an operand is in its use list: an empty list, by which dead code
\* is recognised, always tells the truth about the functions seen so far.
THEOREM ReadersAreListed == Spec => []ReadersListed
<1>1. IInv => ReadersListed
  BY DEF IInv
<1> QED
  BY <1>1, InvariantHolds, PTL

-----------------------------------------------------------------------------
(***************************************************************************)
(* What the optimiser removes.  The argument: no two functions name the    *)
(* same operand, and no step changes that, so whoever reads an operand of  *)
(* the function at hand is in a use list that is computed already.  An     *)
(* operand whose list is empty is therefore read nowhere, and its          *)
(* definition may go; an operand that is read is never taken for undefined.*)
(***************************************************************************)

\* No two functions name the same operand, whatever was propagated.
StayLocal ==
    \A h \in 1..Len(prog.last) :
        \A i \in 1..prog.last[h], j \in (prog.last[h] + 1)..Size :
            Named(code[i]) \cap Named(code[j]) = {}

DInv == IInv /\ StayLocal /\ ReadsAreDefined

-----------------------------------------------------------------------------
\* Whatever is read is named.
LEMMA ReadsAreNamed ==
    ASSUME NEW i, None \notin Reads(i)
    PROVE  Reads(i) \subseteq Named(i)
  BY DEF Reads, Arguments, Named

\* Replacing an operand by another keeps the rest of what is read and named.
LEMMA ReplacedNames ==
    ASSUME NEW i, i = [op |-> i.op, dest |-> i.dest, args |-> i.args, value |-> i.value],
           i.args \in Seq(Operand), i.dest \in Operand \cup {None},
           NEW old \in Operand, NEW new \in Operand, old # new
    PROVE  LET r == Replaced(i, old, new)
           IN  /\ Reads(i) \ {old} \subseteq Reads(r)
               /\ Named(r) \subseteq Named(i) \cup {new}
               /\ new \in Named(r) => old \in Named(i) \/ new \in Named(i)
               /\ i.op = "nop" => r = i
<1> DEFINE args == [k \in DOMAIN i.args |-> IF i.args[k] = old THEN new ELSE i.args[k]]
           dest == IF i.op = "store" /\ i.dest = old THEN new ELSE i.dest
           r == Replaced(i, old, new)
<1>1. CASE i.op \in {"alloca", "nop", "asm"}
  BY <1>1 DEF Replaced
<1>2. CASE i.op \notin {"alloca", "nop", "asm"}
  <2>1. r = [i EXCEPT !.args = args, !.dest = dest]
    BY <1>2 DEF Replaced
  <2>2. r = [op |-> i.op, dest |-> dest, args |-> args, value |-> i.value]
    <3> HIDE DEF r, args, dest
    <3> QED
      BY <2>1
  <2>3. r.op = i.op /\ r.args = args /\ r.dest = dest
    <3> HIDE DEF r, args, dest
    <3> QED
      BY <2>2
  <2>4. DOMAIN args = DOMAIN i.args
        /\ \A k \in DOMAIN i.args : args[k] = IF i.args[k] = old THEN new ELSE i.args[k]
    OBVIOUS
  <2>5. dest = IF i.op = "store" /\ i.dest = old THEN new ELSE i.dest
    OBVIOUS
  <2> HIDE DEF r, args, dest
  <2>6. Reads(i) \ {old} \subseteq Reads(r)
    <3>1. Arguments(i) \ {old} \subseteq Arguments(r)
      BY <1>2, <2>3, <2>4 DEF Arguments
    <3> QED
      BY <2>3, <2>5, <3>1 DEF Reads
  <2>7. Named(r) \subseteq Named(i) \cup {new} /\ (new \in Named(r) => old \in Named(i) \/ new \in Named(i))
    <3>1. old # None /\ new # None
      BY ProgramsAssumption
    <3> QED
      BY <2>3, <2>4, <2>5, <3>1 DEF Named
  <2> QED
    BY <1>2, <2>6, <2>7 DEF r
<1> QED
  BY <1>1, <1>2

\* Where a copy is propagated: whoever read it reads its source.
LEMMA PropagateReads ==
    ASSUME IInv, Propagate, NEW j \in 1..Size
    PROVE  LET copy == code[at].dest
               source == code[at].args[1]
           IN  /\ copy \in Named(code[at]) /\ source \in Named(code[at]) /\ source \in Reads(code[at])
               /\ copy \in Operand /\ source \in Operand /\ kind[source] = "vreg" /\ copy # source
               /\ j = at => /\ code'[j].op = "nop" /\ Reads(code'[j]) = {}
                            /\ code'[j].dest = code[j].dest /\ code'[j].args = code[j].args
               /\ j # at => /\ code'[j].op = code[j].op
                            /\ Reads(code'[j]) \subseteq Reads(code[j]) \cup {source}
                            /\ Reads(code[j]) \ {copy} \subseteq Reads(code'[j])
                            /\ copy \in Reads(code'[j]) => copy \in Reads(code[j]) /\ users[copy][j] = 0
                            /\ Named(code'[j]) \subseteq Named(code[j]) \cup {source}
                            /\ source \in Named(code'[j]) => copy \in Named(code[j]) \/ source \in Named(code[j])
                            /\ code[j].op = "nop" => code'[j] = code[j]
<1> DEFINE copy == code[at].dest
           source == code[at].args[1]
           new == Replaced(code[j], copy, source)
<1>1. pc = "copy" /\ at \in Here /\ IsCopy(code[at])
  BY DEF Propagate
<1>2. /\ at \in 1..Size /\ TypeOK /\ Shape
      /\ users \in [Operand -> [1..Size -> Nat]]
      /\ code[at].args \in Seq(Operand)
  BY <1>1, PassFacts DEF IInv
<1>3. /\ copy \in Operand /\ source \in Operand /\ copy # source /\ kind[source] = "vreg"
      /\ source \in Reads(code[at])
      /\ code'[j] = IF j = at THEN Nop(code[j])
                    ELSE IF j \in Readers(copy) /\ new # code[j] THEN new ELSE code[j]
  BY PropagateFacts
<1>4. copy \in Named(code[at]) /\ source \in Named(code[at])
  <2>1. copy # None /\ source # None
    BY <1>3, ProgramsAssumption
  <2>2. 1 \in DOMAIN code[at].args
    BY <1>1, <1>2, ArgumentFacts DEF IsCopy
  <2> QED
    BY <2>1, <2>2 DEF Named
<1>5. /\ code[j] = [op |-> code[j].op, dest |-> code[j].dest, args |-> code[j].args, value |-> code[j].value]
      /\ code[j].args \in Seq(Operand) /\ code[j].dest \in Operand \cup {None}
  BY <1>2 DEF TypeOK, Shape
<1> HIDE DEF copy, source
<1>6. /\ new = [op |-> code[j].op, dest |-> new.dest, args |-> new.args, value |-> code[j].value]
      /\ Reads(new) \subseteq (Reads(code[j]) \ {copy}) \cup {source}
      /\ copy \in Reads(code[j]) => new # code[j]
      /\ Reads(code[j]) \ {copy} \subseteq Reads(new)
      /\ Named(new) \subseteq Named(code[j]) \cup {source}
      /\ source \in Named(new) => copy \in Named(code[j]) \/ source \in Named(code[j])
      /\ code[j].op = "nop" => new = code[j]
  <2> HIDE DEF new
  <2>1. /\ new = [op |-> code[j].op, dest |-> new.dest, args |-> new.args, value |-> code[j].value]
        /\ Reads(new) \subseteq (Reads(code[j]) \ {copy}) \cup {source}
        /\ copy \in Reads(code[j]) => new # code[j]
    BY <1>3, <1>5, ReplacedFacts DEF new
  <2>2. /\ Reads(code[j]) \ {copy} \subseteq Reads(new)
        /\ Named(new) \subseteq Named(code[j]) \cup {source}
        /\ source \in Named(new) => copy \in Named(code[j]) \/ source \in Named(code[j])
        /\ code[j].op = "nop" => new = code[j]
    BY <1>3, <1>5, ReplacedNames DEF new
  <2> QED
    BY <2>1, <2>2
<1> HIDE DEF new
<1>7. ASSUME j = at
      PROVE  /\ code'[j].op = "nop" /\ Reads(code'[j]) = {}
             /\ code'[j].dest = code[j].dest /\ code'[j].args = code[j].args
  <2>1. code'[j] = Nop(code[j])
    BY <1>3, <1>7
  <2>2. /\ Nop(code[j]) = [op |-> "nop", dest |-> code[j].dest, args |-> code[j].args, value |-> code[j].value]
        /\ Reads(Nop(code[j])) = {}
    BY <1>5, NopFacts
  <2> QED
    BY <2>1, <2>2
<1>8. ASSUME j # at
      PROVE  /\ code'[j].op = code[j].op
             /\ Reads(code'[j]) \subseteq Reads(code[j]) \cup {source}
             /\ Reads(code[j]) \ {copy} \subseteq Reads(code'[j])
             /\ copy \in Reads(code'[j]) => copy \in Reads(code[j]) /\ users[copy][j] = 0
             /\ Named(code'[j]) \subseteq Named(code[j]) \cup {source}
             /\ source \in Named(code'[j]) => copy \in Named(code[j]) \/ source \in Named(code[j])
             /\ code[j].op = "nop" => code'[j] = code[j]
  <2>1. CASE code'[j] = new
    <3>1. new.op = code[j].op
      BY <1>6
    <3>2. copy \notin Reads(new)
      BY <1>3, <1>6
    <3> QED
      BY <1>6, <2>1, <3>1, <3>2
  <2>2. CASE code'[j] = code[j] /\ ~(j \in Readers(copy) /\ new # code[j])
    <3>1. users[copy][j] \in Nat
      BY <1>2, <1>3
    <3>2. copy \in Reads(code[j]) => users[copy][j] = 0
      BY <1>6, <2>2, <3>1 DEF Readers
    <3> QED
      BY <2>2, <3>2
  <2> QED
    BY <1>3, <1>8, <2>1, <2>2
<1> QED
  BY <1>3, <1>4, <1>7, <1>8 DEF copy, source

\* A folded instruction reads nothing; the others stay.
LEMMA FoldReads ==
    ASSUME IInv, Fold, NEW j \in 1..Size
    PROVE  /\ j = at => /\ code'[j].op = "mov" /\ Reads(code'[j]) = {}
                        /\ code'[j].dest = code[j].dest /\ code'[j].args = << >>
                        /\ Named(code'[j]) \subseteq Named(code[j])
                        /\ code[j].op \in {"alu", "neq"}
           /\ j # at => code'[j] = code[j]
<1>1. at \in 1..Size /\ DOMAIN code = 1..Size
  BY PassFacts DEF Fold, IInv, TypeOK
<1>2. PICK result : code' = [code EXCEPT ![at] =
                        [op |-> "mov", dest |-> code[at].dest, args |-> << >>, value |-> result]]
  BY DEF Fold
<1>3. code'[at] = [op |-> "mov", dest |-> code[at].dest, args |-> << >>, value |-> result]
      /\ (j # at => code'[j] = code[j])
  BY <1>1, <1>2
<1>4. code'[at].op = "mov" /\ code'[at].dest = code[at].dest /\ code'[at].args = << >>
  BY <1>3
<1>5. Reads(code'[at]) = {} /\ Named(code'[at]) \subseteq Named(code[at])
  BY <1>4 DEF Reads, Arguments, Named
<1>6. code[at].op \in {"alu", "neq"}
  BY DEF Fold, Foldable
<1> QED
  BY <1>3, <1>4, <1>5, <1>6

\* So does a removed one, which still names what it named.
LEMMA RemoveReads ==
    ASSUME IInv, pc = "dce", at \in Here, NEW dests, Remove(dests), NEW j \in 1..Size
    PROVE  /\ j = at => /\ code'[j].op = "nop" /\ Reads(code'[j]) = {}
                        /\ code'[j].dest = code[j].dest /\ code'[j].args = code[j].args
           /\ j # at => code'[j] = code[j]
<1>1. code'[at] = Nop(code[at]) /\ (j # at => code'[j] = code[j]) /\ at \in 1..Size
  BY RemoveFacts, PassFacts
<1>2. code[at] = [op |-> code[at].op, dest |-> code[at].dest, args |-> code[at].args, value |-> code[at].value]
  BY <1>1 DEF IInv, Shape
<1>3. /\ Nop(code[at]) = [op |-> "nop", dest |-> code[at].dest, args |-> code[at].args, value |-> code[at].value]
      /\ Reads(Nop(code[at])) = {}
  BY <1>2, NopFacts
<1>4. code'[at].op = "nop" /\ code'[at].dest = code[at].dest /\ code'[at].args = code[at].args
  BY <1>1, <1>3
<1> QED
  BY <1>1, <1>3, <1>4

-----------------------------------------------------------------------------
\* An instruction may start to name what the instruction at hand names, if the two
\* named the same operand before: then they are in one function.
LEMMA LocalKept ==
    ASSUME StayLocal, Size \in Nat, Len(prog.last) \in Nat, prog' = prog, at \in 1..Size,
           \A h \in 1..Len(prog.last) : prog.last[h] \in 0..Size,
           \A j \in 1..Size : \A o \in Named(code'[j]) :
               \/ o \in Named(code[j])
               \/ o \in Named(code[at]) /\ \E x \in Named(code[j]) : x \in Named(code[at])
    PROVE  StayLocal'
<1>1. Size' = Size
  BY DEF Size
<1> SUFFICES ASSUME NEW h \in 1..Len(prog.last), NEW i \in 1..prog.last[h],
                    NEW j \in (prog.last[h] + 1)..Size, NEW o \in Named(code'[i]), o \in Named(code'[j])
             PROVE  FALSE
  BY <1>1 DEF StayLocal
<1>2. prog.last[h] \in 0..Size /\ i \in 1..Size /\ j \in 1..Size
  OBVIOUS
<1>3. \A x \in Named(code[i]) : x \notin Named(code[j])
  BY DEF StayLocal
<1>4. CASE at \in 1..prog.last[h]
  <2>1. \A x \in Named(code[at]) : x \notin Named(code[j])
    BY <1>4 DEF StayLocal
  <2> QED
    BY <1>2, <1>3, <2>1
<1>5. CASE at \in (prog.last[h] + 1)..Size
  <2>1. \A x \in Named(code[i]) : x \notin Named(code[at])
    BY <1>5 DEF StayLocal
  <2> QED
    BY <1>2, <1>3, <2>1
<1> QED
  BY <1>2, <1>4, <1>5

\* Whoever reads what the instruction at hand names is in the use lists already.
LEMMA ReadersAreHere ==
    ASSUME IInv, StayLocal, pc \in {"fold", "copy", "dce"}, at \in Here,
           NEW o \in Named(code[at]), NEW j \in 1..Size, o \in Reads(code[j])
    PROVE  j \in Listed /\ users[o][j] > 0 /\ o \in Operand
<1>1. Size \in Nat /\ at \in 1..Size /\ at \in Listed /\ Listed = 1..prog.last[func]
  BY PassFacts DEF Listed
<1>2. func \in 1..Len(prog.last) /\ prog.last[func] \in 0..Size
  BY LayoutFacts DEF IInv, TypeOK
<1>3. o \in Operand /\ o \in Named(code[j])
  <2>1. Reads(code[j]) \subseteq Operand /\ None \notin Operand
    BY ReadsAreOperands, ProgramsAssumption DEF IInv
  <2> QED
    BY <2>1, ReadsAreNamed
<1>4. j \in Listed
  <2>1. SUFFICES ASSUME j \in (prog.last[func] + 1)..Size PROVE FALSE
    BY <1>1, <1>2
  <2>2. Named(code[at]) \cap Named(code[j]) = {}
    BY <1>1, <1>2, <2>1 DEF StayLocal
  <2> QED
    BY <1>3, <2>2
<1> QED
  BY <1>3, <1>4 DEF IInv, ReadersListed

\* The functions keep apart.
LEMMA LocalStep == IInv /\ StayLocal /\ [Next]_vars => StayLocal'
<1> SUFFICES ASSUME IInv, StayLocal, [Next]_vars PROVE StayLocal'
  OBVIOUS
<1>1. /\ Size \in Nat /\ Len(prog.last) \in Nat
      /\ \A h \in 1..Len(prog.last) : prog.last[h] \in 0..Size
  BY LayoutFacts DEF IInv, TypeOK
<1>2. CASE Fold
  <2>1. at \in 1..Size /\ prog' = prog
    BY <1>2, PassFacts DEF Fold
  <2>2. \A j \in 1..Size : Named(code'[j]) \subseteq Named(code[j])
    BY <1>2, FoldReads
  <2> QED
    BY <1>1, <2>1, <2>2, LocalKept
<1>3. CASE Propagate
  <2>1. at \in 1..Size /\ prog' = prog
    BY <1>3, PassFacts DEF Propagate
  <2>2. ASSUME NEW j \in 1..Size, NEW o \in Named(code'[j])
        PROVE  \/ o \in Named(code[j])
               \/ o \in Named(code[at]) /\ \E x \in Named(code[j]) : x \in Named(code[at])
    <3>1. CASE j = at
      <4>1. code'[j].dest = code[j].dest /\ code'[j].args = code[j].args
        BY <1>3, <3>1, PropagateReads
      <4> QED
        BY <4>1 DEF Named
    <3>2. CASE j # at
      BY <1>3, <3>2, PropagateReads
    <3> QED
      BY <3>1, <3>2
  <2> QED
    BY <1>1, <2>1, <2>2, LocalKept
<1>4. ASSUME NEW dests, pc = "dce", at \in Here, Remove(dests) PROVE StayLocal'
  <2>1. at \in 1..Size /\ prog' = prog
    BY <1>4, PassFacts DEF Remove
  <2>2. \A j \in 1..Size : Named(code'[j]) = Named(code[j])
    BY <1>4, RemoveReads DEF Named
  <2> QED
    BY <1>1, <2>1, <2>2, LocalKept
<1>5. CASE RemoveUnused
  BY <1>4, <1>5 DEF RemoveUnused
<1>6. CASE RemoveUndefined
  BY <1>4, <1>6 DEF RemoveUndefined
<1>7. CASE ComputeUses \/ Pass \/ NextPass \/ NextRound \/ NextFunction \/ UNCHANGED vars
  <2>1. prog' = prog /\ code' = code
    BY <1>7 DEF ComputeUses, Pass, NextPass, NextRound, NextFunction, vars
  <2> QED
    BY <2>1 DEF StayLocal, Size
<1> QED
  BY <1>2, <1>3, <1>5, <1>6, <1>7 DEF Next

-----------------------------------------------------------------------------
\* What touches an undefined operand is its own result: sources are read.
LEMMA TouchedResult ==
    ASSUME IInv, ReadsAreDefined, at \in 1..Size, TouchesUndefined(code[at])
    PROVE  /\ code[at].op # "store"
           /\ code[at].dest \in Operand /\ kind[code[at].dest] = "undefined"
<1>1. /\ code[at].dest \in Operand \cup {None}
      /\ code[at].args \in Seq(Operand)
      /\ code[at].op = "store" => code[at].dest # None
  BY DEF IInv, TypeOK, Shape
<1>2. \A o \in Reads(code[at]) : o \in Operand /\ kind[o] # "undefined"
  BY ReadsAreOperands DEF IInv, ReadsAreDefined, UndefinedIsUnused
<1>3. PICK o \in SourceSet(code[at]) \cup ({code[at].dest} \ {None}) : kind[o] = "undefined"
  BY DEF TouchesUndefined
<1>4. SourceSet(code[at]) \subseteq Reads(code[at])
  <2>1. code[at].op \notin {"asm", "nop"}
    BY DEF TouchesUndefined, Examined
  <2>2. CASE code[at].op \in {"call", "purecall", "alloca"}
    BY <2>2 DEF SourceSet, Sources
  <2>3. CASE code[at].op \notin {"call", "purecall", "alloca"}
    BY <2>1, <2>3 DEF SourceSet, Sources, Reads, Arguments
  <2> QED
    BY <2>2, <2>3
<1>5. o = code[at].dest /\ code[at].dest \in Operand
  BY <1>1, <1>2, <1>3, <1>4
<1>6. code[at].op # "store"
  BY <1>2, <1>3, <1>5 DEF Reads
<1> QED
  BY <1>3, <1>5, <1>6

\* Removing an instruction whose result nobody reads.
LEMMA RemoveDefined ==
    ASSUME DInv, pc = "dce", at \in Here, NEW dests, Remove(dests), code[at].dest \in dests,
           \A o \in dests : \A j \in 1..Size : o \notin Reads(code[j])
    PROVE  ReadsAreDefined'
<1>1. IInv /\ IInv' /\ StayLocal
  BY RemoveIInv DEF DInv
<1>2. /\ prog' = prog /\ Size' = Size /\ Listed' = Listed /\ kind' = KindsWithout(dests)
      /\ users' = Unlisted(Sources(code[at]), at)
  BY DEF Remove, Size, Listed, First
<1>3. at \in 1..Size
  BY <1>1, PassFacts
<1>4. \A j \in 1..Size :
          /\ j = at => code'[j].op = "nop" /\ Reads(code'[j]) = {}
          /\ j # at => code'[j] = code[j]
  BY <1>1, RemoveReads
<1>5. DefinitionsStay'
  <2> SUFFICES ASSUME NEW i \in 1..Size, NEW j \in 1..Size, prog.code[j].op # "store",
                      prog.code[j].dest \in Reads(code'[i])
               PROVE  code'[j].op # "nop"
    BY <1>2 DEF DefinitionsStay, Present
  <2>1. i # at /\ prog.code[j].dest \in Reads(code[i])
    BY <1>4
  <2>2. j # at
    <3>1. SUFFICES ASSUME j = at PROVE FALSE
      OBVIOUS
    <3>2. code[at].dest = prog.code[at].dest
      BY <1>1, <1>3, <3>1 DEF IInv, Shape
    <3> QED
      BY <2>1, <3>1, <3>2
  <2>3. code[i].op # "nop"
    BY <2>1 DEF Reads, Arguments
  <2>4. code[j].op # "nop"
    BY <2>1, <2>3 DEF DInv, ReadsAreDefined, DefinitionsStay, Present
  <2> QED
    BY <1>4, <2>2, <2>4
<1>6. UndefinedIsUnused'
  <2> SUFFICES ASSUME NEW o \in Operand, kind'[o] = "undefined", NEW j \in 1..Size, o \in Reads(code'[j])
               PROVE  FALSE
    BY <1>2 DEF UndefinedIsUnused
  <2>1. j # at /\ o \in Reads(code[j])
    BY <1>4
  <2>2. o \notin dests /\ kind[o] # "undefined"
    BY <2>1 DEF DInv, ReadsAreDefined, UndefinedIsUnused
  <2>3. o \in SourceSet(code[at]) /\ users'[o][j] = 0
    BY <1>2, <2>2 DEF KindsWithout
  <2>4. o \in Named(code[at])
    <3>1. SourceSet(code[at]) \subseteq {code[at].args[k] : k \in DOMAIN code[at].args}
      BY DEF SourceSet, Sources
    <3> QED
      BY <2>3, <3>1 DEF Named
  <2>5. j \in Listed
    BY <1>1, <2>1, <2>4, ReadersAreHere
  <2>6. users'[o][j] > 0
    BY <1>1, <1>2, <2>5 DEF IInv, ReadersListed
  <2> QED
    BY <2>3, <2>6
<1> QED
  BY <1>5, <1>6 DEF ReadsAreDefined

\* Propagating a copy: the copy is read by nobody then, and its source is defined
\* because the copy itself read it.
LEMMA PropagateDefined ==
    ASSUME DInv, Propagate
    PROVE  ReadsAreDefined'
<1> DEFINE copy == code[at].dest
           source == code[at].args[1]
<1>1. IInv /\ StayLocal /\ pc = "copy" /\ at \in Here /\ at \in 1..Size
  BY PassFacts DEF DInv, Propagate
<1>2. prog' = prog /\ Size' = Size /\ kind' = kind
  BY DEF Propagate, Size
<1>3. /\ copy \in Named(code[at]) /\ source \in Reads(code[at])
      /\ copy \in Operand /\ source \in Operand /\ kind[source] = "vreg" /\ copy # source
  BY <1>1, PropagateReads
<1>4. ASSUME NEW j \in 1..Size
      PROVE  /\ j = at => Reads(code'[j]) = {}
             /\ j # at => /\ code'[j].op = code[j].op
                          /\ Reads(code'[j]) \subseteq Reads(code[j]) \cup {source}
                          /\ copy \in Reads(code'[j]) => copy \in Reads(code[j]) /\ users[copy][j] = 0
  BY <1>1, PropagateReads
<1> HIDE DEF copy, source
<1>5. ASSUME NEW j \in 1..Size PROVE copy \notin Reads(code'[j])
  <2> SUFFICES ASSUME copy \in Reads(code'[j]) PROVE FALSE
    OBVIOUS
  <2>1. copy \in Reads(code[j]) /\ users[copy][j] = 0
    BY <1>4
  <2>2. users[copy][j] > 0
    BY <1>1, <1>3, <2>1, ReadersAreHere
  <2> QED
    BY <2>1, <2>2
<1>6. ASSUME NEW i \in 1..Size, NEW o \in Reads(code'[i])
      PROVE  o # copy /\ \E k \in 1..Size : o \in Reads(code[k])
  BY <1>1, <1>3, <1>4, <1>5
<1>7. DefinitionsStay'
  <2> SUFFICES ASSUME NEW i \in 1..Size, NEW j \in 1..Size, prog.code[j].op # "store",
                      prog.code[j].dest \in Reads(code'[i])
               PROVE  code'[j].op # "nop"
    BY <1>2 DEF DefinitionsStay, Present
  <2>1. PICK k \in 1..Size : prog.code[j].dest \in Reads(code[k])
    BY <1>6
  <2>2. code[k].op # "nop"
    BY <2>1 DEF Reads, Arguments
  <2>3. code[j].op # "nop"
    BY <2>1, <2>2 DEF DInv, ReadsAreDefined, DefinitionsStay, Present
  <2>4. j # at
    <3>1. j = at => code[j].dest = prog.code[j].dest
      BY <1>1 DEF IInv, Shape
    <3> QED
      BY <1>6, <3>1 DEF copy
  <2> QED
    BY <1>4, <2>3, <2>4
<1>8. UndefinedIsUnused'
  <2> SUFFICES ASSUME NEW o \in Operand, kind[o] = "undefined", NEW j \in 1..Size, o \in Reads(code'[j])
               PROVE  FALSE
    BY <1>2 DEF UndefinedIsUnused
  <2> QED
    BY <1>6 DEF DInv, ReadsAreDefined, UndefinedIsUnused
<1> QED
  BY <1>7, <1>8 DEF ReadsAreDefined

\* A folded instruction stays, with fewer readers.
LEMMA FoldDefined ==
    ASSUME DInv, Fold
    PROVE  ReadsAreDefined'
<1>1. IInv /\ prog' = prog /\ Size' = Size /\ kind' = kind
  BY DEF DInv, Fold, Size
<1>2. ASSUME NEW j \in 1..Size
      PROVE  Reads(code'[j]) \subseteq Reads(code[j]) /\ (code'[j].op = "nop" => code[j].op = "nop")
  BY <1>1, FoldReads
<1>3. DefinitionsStay'
  <2> SUFFICES ASSUME NEW i \in 1..Size, NEW j \in 1..Size, prog.code[j].op # "store",
                      prog.code[j].dest \in Reads(code'[i])
               PROVE  code'[j].op # "nop"
    BY <1>1 DEF DefinitionsStay, Present
  <2>1. prog.code[j].dest \in Reads(code[i]) /\ code[i].op # "nop"
    BY <1>2 DEF Reads, Arguments
  <2> QED
    BY <1>2, <2>1 DEF DInv, ReadsAreDefined, DefinitionsStay, Present
<1>4. UndefinedIsUnused'
  BY <1>1, <1>2 DEF DInv, ReadsAreDefined, UndefinedIsUnused
<1> QED
  BY <1>3, <1>4 DEF ReadsAreDefined

\* An unused result is read by nobody, in no function.
LEMMA UnusedIsUnread ==
    ASSUME IInv, StayLocal, pc = "dce", at \in Here, Unused(code[at]), NEW j \in 1..Size
    PROVE  code[at].dest # None /\ code[at].dest \notin Reads(code[j])
<1>1. code[at].dest # None /\ Readers(code[at].dest) = {}
  BY DEF Unused
<1>2. code[at].dest \in Named(code[at])
  BY <1>1 DEF Named
<1>3. code[at].dest \notin Reads(code[j])
  <2>1. SUFFICES ASSUME code[at].dest \in Reads(code[j]) PROVE FALSE
    OBVIOUS
  <2>2. users[code[at].dest][j] > 0
    BY <1>2, <2>1, ReadersAreHere
  <2> QED
    BY <1>1, <2>2 DEF Readers
<1> QED
  BY <1>1, <1>3

LEMMA DInvStep == DInv /\ [Next]_vars => DInv'
<1> SUFFICES ASSUME DInv, [Next]_vars PROVE DInv'
  OBVIOUS
<1>1. IInv' /\ StayLocal' /\ IInv /\ StayLocal /\ ReadsAreDefined
  BY NextIInv, LocalStep DEF DInv
<1>2. CASE Fold
  BY <1>1, <1>2, FoldDefined DEF DInv
<1>3. CASE Propagate
  BY <1>1, <1>3, PropagateDefined DEF DInv
<1>4. CASE RemoveUnused
  <2>1. pc = "dce" /\ at \in Here /\ Unused(code[at]) /\ Remove({code[at].dest})
    BY <1>4 DEF RemoveUnused
  <2>2. \A j \in 1..Size : code[at].dest \notin Reads(code[j])
    BY <1>1, <2>1, UnusedIsUnread
  <2>3. ReadsAreDefined'
    BY <2>1, <2>2, RemoveDefined
  <2> QED
    BY <1>1, <2>3 DEF DInv
<1>5. CASE RemoveUndefined
  <2>1. pc = "dce" /\ at \in Here /\ TouchesUndefined(code[at]) /\ Remove({code[at].dest} \ {None})
    BY <1>5 DEF RemoveUndefined
  <2>2. at \in 1..Size
    BY <1>1, <2>1, PassFacts
  <2>3. code[at].dest \in Operand /\ kind[code[at].dest] = "undefined" /\ None \notin Operand
    BY <1>1, <2>1, <2>2, TouchedResult, ProgramsAssumption
  <2>4. \A j \in 1..Size : code[at].dest \notin Reads(code[j])
    BY <1>1, <2>3 DEF ReadsAreDefined, UndefinedIsUnused
  <2>5. ReadsAreDefined'
    BY <2>1, <2>3, <2>4, RemoveDefined
  <2> QED
    BY <1>1, <2>5 DEF DInv
<1>6. CASE ComputeUses \/ Pass \/ NextPass \/ NextRound \/ NextFunction \/ UNCHANGED vars
  <2>1. prog' = prog /\ code' = code /\ kind' = kind
    BY <1>6 DEF ComputeUses, Pass, NextPass, NextRound, NextFunction, vars
  <2>2. ReadsAreDefined'
    BY <1>1, <2>1 DEF ReadsAreDefined, DefinitionsStay, UndefinedIsUnused, Present, Size
  <2> QED
    BY <1>1, <2>2 DEF DInv
<1> QED
  BY <1>2, <1>3, <1>4, <1>5, <1>6 DEF Next

LEMMA DInvInit ==
    ASSUME OperandsAreLocal
    PROVE  Init => DInv
<1> SUFFICES ASSUME Init PROVE DInv
  OBVIOUS
<1>1. IInv /\ Chosen /\ prog.kind \in [Operand -> Kinds \ {"undefined"}] /\ Size = Len(prog.code)
  BY InitIInv, ProgramsAssumption DEF IInv, Chosen, Size
<1>2. ASSUME NEW j \in 1..Size
      PROVE  /\ code[j].op = prog.code[j].op /\ code[j].dest = prog.code[j].dest
             /\ code[j].args = prog.code[j].args /\ code[j].op # "nop"
  <2>1. code[j] = [op |-> prog.code[j].op, dest |-> prog.code[j].dest,
                   args |-> prog.code[j].args, value |-> Unknown]
    BY DEF Init
  <2>2. code[j].op = prog.code[j].op /\ code[j].dest = prog.code[j].dest /\ code[j].args = prog.code[j].args
    BY <2>1
  <2> QED
    BY <1>1, <2>2, CodeFacts
<1>3. StayLocal
  <2> SUFFICES ASSUME NEW h \in 1..Len(prog.last), NEW i \in 1..prog.last[h], NEW j \in (prog.last[h] + 1)..Size
               PROVE  Named(code[i]) \cap Named(code[j]) = {}
    BY DEF StayLocal
  <2>1. i \in 1..Size /\ j \in 1..Size
    <3>1. prog.last[h] \in 0..Size /\ Size \in Nat
      BY <1>1, ProgramsAssumption DEF Chosen, Size
    <3> QED
      BY <3>1
  <2>2. Named(code[i]) = Named(prog.code[i]) /\ Named(code[j]) = Named(prog.code[j])
    BY <1>2, <2>1 DEF Named
  <2>3. Named(prog.code[i]) \cap Named(prog.code[j]) = {}
    BY <1>1 DEF OperandsAreLocal, Chosen
  <2> QED
    BY <2>2, <2>3
<1>4. ReadsAreDefined
  <2>1. DefinitionsStay
    BY <1>2 DEF DefinitionsStay, Present
  <2>2. \A o \in Operand : kind[o] # "undefined"
    BY <1>1 DEF Init
  <2> QED
    BY <2>1, <2>2 DEF ReadsAreDefined, UndefinedIsUnused
<1> QED
  BY <1>1, <1>3, <1>4 DEF DInv

LEMMA DInvHolds ==
    ASSUME OperandsAreLocal
    PROVE  Spec => []DInv
<1>1. Init => DInv
  BY DInvInit
<1> QED
  BY <1>1, DInvStep, PTL DEF Spec

\* In a module whose functions share no operand, whatever is read keeps its
\* definition and its kind (opt.c:869-903, 1051-1064).
THEOREM ReadsStayDefined ==
    ASSUME OperandsAreLocal
    PROVE  Spec => []ReadsAreDefined
<1>1. DInv => ReadsAreDefined
  BY DEF DInv
<1> QED
  BY <1>1, DInvHolds, PTL
-----------------------------------------------------------------------------
\* An instruction is what it was, or removed, or folded; a move has at most one
\* argument, a load one.
OpsStay ==
    \A j \in 1..Size :
        /\ \/ code[j].op = prog.code[j].op
           \/ code[j].op = "nop"
           \/ code[j].op = "mov" /\ prog.code[j].op \in {"alu", "neq"}
        /\ code[j].op = "mov" => Len(code[j].args) \in {0, 1}
        /\ code[j].op = "load" => Len(code[j].args) = 1

\* Operands keep their kind or become undefined.
KindsStay == \A o \in Operand : kind[o] \in {prog.kind[o], "undefined"}

IsCall(op) == op \in {"call", "purecall"}

ArgumentsOf(i) == {i.args[k] : k \in DOMAIN i.args}

\* Replacing arguments leaves their number.
LEMMA ReplacedLength ==
    ASSUME NEW i, i = [op |-> i.op, dest |-> i.dest, args |-> i.args, value |-> i.value],
           i.args \in Seq(Operand), NEW old, NEW new \in Operand
    PROVE  Len(Replaced(i, old, new).args) = Len(i.args)
<1> DEFINE args == [k \in DOMAIN i.args |-> IF i.args[k] = old THEN new ELSE i.args[k]]
           dest == IF i.op = "store" /\ i.dest = old THEN new ELSE i.dest
<1>1. CASE i.op \in {"alloca", "nop", "asm"}
  BY <1>1 DEF Replaced
<1>2. CASE i.op \notin {"alloca", "nop", "asm"}
  <2>1. Replaced(i, old, new) = [i EXCEPT !.args = args, !.dest = dest]
    BY <1>2 DEF Replaced
  <2>2. Replaced(i, old, new) = [op |-> i.op, dest |-> dest, args |-> args, value |-> i.value]
    <3> HIDE DEF args, dest
    <3> QED
      BY <2>1
  <2>3. Replaced(i, old, new).args = args
    <3> HIDE DEF args, dest
    <3> QED
      BY <2>2
  <2>4. args \in Seq(Operand) /\ DOMAIN args = DOMAIN i.args
    BY ReplacedArguments
  <2>5. Len(args) \in Nat /\ DOMAIN args = 1..Len(args) /\ Len(i.args) \in Nat /\ DOMAIN i.args = 1..Len(i.args)
    <3> HIDE DEF args
    <3> QED
      BY <2>4, LenProperties
  <2>6. Len(args) = Len(i.args)
    <3> HIDE DEF args
    <3>1. 1..Len(args) = 1..Len(i.args)
      BY <2>4, <2>5
    <3>2. \A k \in Nat : k \in 1..Len(args) <=> k \in 1..Len(i.args)
      BY <3>1
    <3>3. \A m, n \in Nat : (\A k \in Nat : k \in 1..m <=> k \in 1..n) => m = n
      <4> SUFFICES ASSUME NEW m \in Nat, NEW n \in Nat, \A k \in Nat : k \in 1..m <=> k \in 1..n
                   PROVE  m = n
        OBVIOUS
      <4>1. m \in 1..m <=> m \in 1..n
        OBVIOUS
      <4>2. n \in 1..m <=> n \in 1..n
        OBVIOUS
      <4> QED
        BY <4>1, <4>2
    <3> QED
      BY <2>5, <3>2, <3>3
  <2> QED
    BY <2>3, <2>6
<1> QED
  BY <1>1, <1>2

\* What instructions a step leaves as they are.
LEMMA CodeStep ==
    ASSUME IInv, [Next]_vars, NEW j \in 1..Size
    PROVE  /\ prog' = prog /\ Size' = Size
           /\ \/ code'[j].op = code[j].op
              \/ code'[j].op = "nop"
              \/ code'[j].op = "mov" /\ code[j].op \in {"alu", "neq"} /\ Len(code'[j].args) = 0
           /\ code'[j].op = code[j].op => Len(code'[j].args) = Len(code[j].args)
           /\ code[j].op = "nop" => code'[j].op = "nop" /\ code'[j].args = code[j].args
<1>1. CASE Fold
  <2>1. prog' = prog /\ Len(<< >>) = 0
    BY <1>1 DEF Fold
  <2> QED
    BY <1>1, <2>1, FoldReads DEF Size
<1>2. CASE Propagate
  <2>1. prog' = prog /\ at \in 1..Size
    BY <1>2, PassFacts DEF Propagate
  <2> DEFINE copy == code[at].dest
             source == code[at].args[1]
             new == Replaced(code[j], copy, source)
  <2>2. /\ code'[j] = IF j = at THEN Nop(code[j])
                      ELSE IF j \in Readers(copy) /\ new # code[j] THEN new ELSE code[j]
        /\ source \in Operand
    BY <1>2, PropagateFacts
  <2>3. /\ code[j] = [op |-> code[j].op, dest |-> code[j].dest, args |-> code[j].args, value |-> code[j].value]
        /\ code[j].args \in Seq(Operand)
    BY DEF IInv, TypeOK, Shape
  <2>4. Len(new.args) = Len(code[j].args)
    <3> HIDE DEF copy, source
    <3> QED
      BY <2>2, <2>3, ReplacedLength
  <2>5. /\ j = at => code'[j].op = "nop" /\ code'[j].args = code[j].args
        /\ j # at => code'[j].op = code[j].op /\ (code[j].op = "nop" => code'[j] = code[j])
    BY <1>2, PropagateReads
  <2>6. Len(code'[j].args) = Len(code[j].args)
    <3> HIDE DEF new
    <3> QED
      BY <2>2, <2>4, <2>5
  <2> QED
    BY <2>1, <2>5, <2>6 DEF Size
<1>3. CASE RemoveUnused \/ RemoveUndefined
  <2>1. PICK dests : pc = "dce" /\ at \in Here /\ Remove(dests)
    BY <1>3 DEF RemoveUnused, RemoveUndefined
  <2>2. prog' = prog
    BY <2>1 DEF Remove
  <2> QED
    BY <2>1, <2>2, RemoveReads DEF Size
<1>4. CASE ComputeUses \/ Pass \/ NextPass \/ NextRound \/ NextFunction \/ UNCHANGED vars
  BY <1>4 DEF ComputeUses, Pass, NextPass, NextRound, NextFunction, vars, Size
<1> QED
  BY <1>1, <1>2, <1>3, <1>4 DEF Next

LEMMA OpsStayStep == IInv /\ OpsStay /\ [Next]_vars => OpsStay'
<1> SUFFICES ASSUME IInv, OpsStay, [Next]_vars PROVE OpsStay'
  OBVIOUS
<1>1. prog' = prog /\ Size' = Size
  BY DEF Next, vars, ComputeUses, Fold, Propagate, RemoveUnused, RemoveUndefined, Remove, Pass,
         NextPass, NextRound, NextFunction, Size
<1> SUFFICES ASSUME NEW j \in 1..Size
             PROVE  /\ \/ code'[j].op = prog.code[j].op
                       \/ code'[j].op = "nop"
                       \/ code'[j].op = "mov" /\ prog.code[j].op \in {"alu", "neq"}
                    /\ code'[j].op = "mov" => Len(code'[j].args) \in {0, 1}
                    /\ code'[j].op = "load" => Len(code'[j].args) = 1
  BY <1>1 DEF OpsStay
<1>2. /\ \/ code[j].op = prog.code[j].op
         \/ code[j].op = "nop"
         \/ code[j].op = "mov" /\ prog.code[j].op \in {"alu", "neq"}
      /\ code[j].op = "mov" => Len(code[j].args) \in {0, 1}
      /\ code[j].op = "load" => Len(code[j].args) = 1
  BY DEF OpsStay
<1> QED
  BY <1>2, CodeStep

LEMMA KindsStayStep == IInv /\ KindsStay /\ [Next]_vars => KindsStay'
<1> SUFFICES ASSUME IInv, KindsStay, [Next]_vars, NEW o \in Operand
             PROVE  kind'[o] \in {prog'.kind[o], "undefined"}
  BY DEF KindsStay
<1>1. prog' = prog
  BY DEF Next, vars, ComputeUses, Fold, Propagate, RemoveUnused, RemoveUndefined, Remove, Pass,
         NextPass, NextRound, NextFunction
<1>2. kind'[o] \in {kind[o], "undefined"}
  <2>1. CASE RemoveUnused \/ RemoveUndefined
    <3>1. PICK dests : kind' = KindsWithout(dests)
      BY <2>1 DEF RemoveUnused, RemoveUndefined, Remove
    <3> QED
      BY <3>1 DEF KindsWithout
  <2>2. CASE ~(RemoveUnused \/ RemoveUndefined)
    BY <2>2 DEF Next, vars, ComputeUses, Fold, Propagate, Pass, NextPass, NextRound, NextFunction
  <2> QED
    BY <2>1, <2>2
<1> QED
  BY <1>1, <1>2 DEF KindsStay
-----------------------------------------------------------------------------
\* The use lists count what is read now; those of a removed call keep its arguments.
ListedRead ==
    \A o \in Operand : \A j \in 1..Size :
        /\ j \notin Listed => users[o][j] = 0
        /\ Present(j) => users[o][j] <= Mentions(code[j], o)
        /\ ~Present(j) /\ users[o][j] > 0 => IsCall(prog.code[j].op) /\ o \in ArgumentsOf(code[j])

\* How often an operand is an argument.
Times(s, o) == Cardinality({k \in DOMAIN s : s[k] = o})

LEMMA TimesFacts ==
    ASSUME NEW s \in Seq(Operand), NEW o
    PROVE  /\ Times(s, o) \in Nat
           /\ Times(s, o) > 0 <=> \E k \in DOMAIN s : s[k] = o
<1>1. IsFiniteSet({k \in DOMAIN s : s[k] = o})
  BY ArgumentFacts, FS_Subset
<1>2. Times(s, o) \in Nat /\ (Times(s, o) = 0 <=> {k \in DOMAIN s : s[k] = o} = {})
  BY <1>1, FS_CardinalityType, FS_EmptySet DEF Times
<1> QED
  BY <1>2

\* What an instruction mentions, in terms of its arguments.
LEMMA MentionsTimes ==
    ASSUME NEW i, i.args \in Seq(Operand), NEW o
    PROVE  /\ i.op \notin {"alloca", "asm", "nop"} =>
                 Mentions(i, o) = Times(i.args, o) + (IF i.op = "store" /\ i.dest = o THEN 1 ELSE 0)
           /\ i.op \in {"alloca", "asm", "nop"} => Mentions(i, o) = 0
           /\ Mentions(i, o) \in Nat
<1>1. Times(i.args, o) \in Nat /\ (Times(i.args, o) > 0 <=> \E k \in DOMAIN i.args : i.args[k] = o)
  BY TimesFacts
<1>2. CASE i.op \notin {"alloca", "asm", "nop"}
  <2>1. Arguments(i) = {i.args[k] : k \in DOMAIN i.args}
    BY <1>2 DEF Arguments
  <2>2. o \notin Arguments(i) => Times(i.args, o) = 0
    BY <1>1, <2>1
  <2>3. Mentions(i, o) = (IF o \in Arguments(i) THEN Times(i.args, o) ELSE 0)
                             + (IF i.op = "store" /\ i.dest = o THEN 1 ELSE 0)
    BY DEF Mentions, Times
  <2> QED
    BY <1>1, <1>2, <2>2, <2>3
<1>3. CASE i.op \in {"alloca", "asm", "nop"}
  BY <1>3 DEF Mentions, Arguments
<1> QED
  BY <1>2, <1>3, MentionsFacts

\* Unlisting the arguments empties the lists at an instruction.
LEMMA UnlistedAll ==
    ASSUME NEW sources \in Seq(Operand), NEW j \in 1..Size, users \in [Operand -> [1..Size -> Nat]],
           NEW o \in Operand, users[o][j] <= Times(sources, o)
    PROVE  Unlisted(sources, j)[o][j] = 0
<1>1. Times(sources, o) \in Nat /\ users[o][j] \in Nat /\ users[o] \in [1..Size -> Nat]
  BY TimesFacts
<1>2. Unlisted(sources, j)[o] =
          [users[o] EXCEPT ![j] = IF users[o][j] > Times(sources, o) THEN users[o][j] - Times(sources, o) ELSE 0]
  BY DEF Unlisted, Times
<1>3. ~(users[o][j] > Times(sources, o))
  BY <1>1
<1> QED
  BY <1>1, <1>2, <1>3

\* What takes the place of an operand is mentioned once more at least.
LEMMA MentionsReplaced ==
    ASSUME NEW i, i = [op |-> i.op, dest |-> i.dest, args |-> i.args, value |-> i.value],
           i.args \in Seq(Operand), NEW old \in Operand, NEW new \in Operand, old # new, NEW o \in Operand
    PROVE  LET r == Replaced(i, old, new)
           IN  /\ o # old => Mentions(r, o) >= Mentions(i, o)
               /\ old \in Reads(i) => Mentions(r, new) >= Mentions(i, new) + 1
<1> DEFINE args == [k \in DOMAIN i.args |-> IF i.args[k] = old THEN new ELSE i.args[k]]
           dest == IF i.op = "store" /\ i.dest = old THEN new ELSE i.dest
           r == Replaced(i, old, new)
           Stored(d, x) == IF i.op = "store" /\ d = x THEN 1 ELSE 0
<1>1. CASE i.op \in {"alloca", "nop", "asm"}
  <2>1. r = i /\ Reads(i) = {}
    BY <1>1 DEF Replaced, Reads, Arguments
  <2>2. Mentions(i, o) \in Nat
    BY MentionsFacts
  <2> QED
    BY <2>1, <2>2
<1>2. CASE i.op \notin {"alloca", "nop", "asm"}
  <2>1. r = [i EXCEPT !.args = args, !.dest = dest]
    BY <1>2 DEF Replaced
  <2>2. r = [op |-> i.op, dest |-> dest, args |-> args, value |-> i.value]
    <3> HIDE DEF r, args, dest
    <3> QED
      BY <2>1
  <2>3. r.op = i.op /\ r.args = args /\ r.dest = dest
    <3> HIDE DEF r, args, dest
    <3> QED
      BY <2>2
  <2>4. args \in Seq(Operand)
    BY ReplacedArguments
  <2>5. /\ DOMAIN args = DOMAIN i.args
        /\ \A k \in DOMAIN i.args : args[k] = IF i.args[k] = old THEN new ELSE i.args[k]
    OBVIOUS
  <2>6. dest = IF i.op = "store" /\ i.dest = old THEN new ELSE i.dest
    OBVIOUS
  <2> HIDE DEF r, args, dest
  <2>7. \A x : /\ Mentions(i, x) = Times(i.args, x) + Stored(i.dest, x)
               /\ Mentions(r, x) = Times(args, x) + Stored(dest, x)
               /\ Times(i.args, x) \in Nat /\ Times(args, x) \in Nat
    BY <1>2, <2>3, <2>4, MentionsTimes, TimesFacts
  <2>8. ASSUME o # old PROVE Mentions(r, o) >= Mentions(i, o)
    <3> DEFINE was == {k \in DOMAIN i.args : i.args[k] = o}
               is == {k \in DOMAIN args : args[k] = o}
    <3>1. was \subseteq is /\ IsFiniteSet(is)
      <4>1. IsFiniteSet(DOMAIN args)
        BY <2>4, ArgumentFacts
      <4>2. IsFiniteSet(is)
        BY <4>1, FS_Subset
      <4> QED
        BY <2>5, <2>8, <4>2
    <3>2. Times(i.args, o) <= Times(args, o)
      BY <3>1, FS_Subset DEF Times
    <3>3. Stored(i.dest, o) <= Stored(dest, o) /\ Stored(i.dest, o) \in Nat /\ Stored(dest, o) \in Nat
      BY <2>6, <2>8
    <3> HIDE DEF Stored
    <3> QED
      BY <2>7, <3>2, <3>3
  <2>9. ASSUME old \in Reads(i) PROVE Mentions(r, new) >= Mentions(i, new) + 1
    <3> DEFINE were == {k \in DOMAIN i.args : i.args[k] = new}
               gone == {k \in DOMAIN i.args : i.args[k] = old}
               are == {k \in DOMAIN args : args[k] = new}
    <3>1. IsFiniteSet(were) /\ IsFiniteSet(gone) /\ IsFiniteSet(are)
      BY <2>4, ArgumentFacts, FS_Subset
    <3>2. are = were \cup gone /\ were \cap gone = {}
      BY <2>5
    <3>3. Times(args, new) = Times(i.args, new) + Times(i.args, old)
      <4>1. Cardinality({}) = 0
        BY FS_EmptySet
      <4>2. Cardinality(were \cup gone) = Cardinality(were) + Cardinality(gone) - Cardinality(were \cap gone)
        BY <3>1, FS_Union
      <4>3. Cardinality(were) \in Nat /\ Cardinality(gone) \in Nat
        BY <3>1, FS_CardinalityType
      <4>4. Cardinality(are) = Cardinality(were) + Cardinality(gone)
        <5> HIDE DEF are, were, gone
        <5>1. Cardinality(were \cap gone) = 0
          BY <3>2, <4>1
        <5>2. Cardinality(are) = Cardinality(were) + Cardinality(gone) - 0
          BY <3>2, <4>2, <5>1
        <5> QED
          BY <4>3, <5>2
      <4> QED
        BY <4>4 DEF Times
    <3>4. Stored(dest, new) = Stored(i.dest, new) + Stored(i.dest, old)
      BY <2>6
    <3>5. /\ Times(i.args, old) + Stored(i.dest, old) > 0
          /\ Stored(i.dest, old) \in Nat /\ Stored(i.dest, new) \in Nat
      <4>1. Mentions(i, old) > 0
        BY <2>9, MentionsFacts
      <4> QED
        BY <2>7, <4>1
    <3> HIDE DEF Stored
    <3> QED
      BY <2>7, <3>3, <3>4, <3>5
  <2> QED
    BY <2>8, <2>9 DEF r
<1> QED
  BY <1>1, <1>2
\* After the first pass over a function its lists count exactly.
LEMMA ComputeListed == IInv /\ ListedRead /\ ComputeUses => ListedRead'
<1> SUFFICES ASSUME IInv, ListedRead, ComputeUses PROVE ListedRead'
  OBVIOUS
<1>1. prog' = prog /\ code' = code /\ func' = func /\ pc = "uses" /\ pc' = "fold" /\ Size' = Size
  BY DEF ComputeUses, Size
<1>2. /\ Size \in Nat /\ First(func) \in 1..(Size + 1) /\ Here \subseteq 1..Size
      /\ (1..(First(func) - 1)) \cup Here = 1..prog.last[func]
  BY LayoutFacts DEF IInv, TypeOK
<1>3. Listed = 1..(First(func) - 1) /\ Listed' = Listed \cup Here /\ \A j \in Here : j \notin Listed
  BY <1>1, <1>2 DEF Listed, Here
<1> SUFFICES ASSUME NEW o \in Operand, NEW j \in 1..Size
             PROVE  /\ j \notin Listed' => users'[o][j] = 0
                    /\ Present(j) => users'[o][j] <= Mentions(code[j], o)
                    /\ ~Present(j) /\ users'[o][j] > 0 =>
                           IsCall(prog.code[j].op) /\ o \in ArgumentsOf(code[j])
  BY <1>1 DEF ListedRead, Present
<1>4. users'[o][j] = IF j \in Here THEN users[o][j] + Mentions(code[j], o) ELSE users[o][j]
  BY DEF ComputeUses
<1>5. /\ j \notin Listed => users[o][j] = 0
      /\ Present(j) => users[o][j] <= Mentions(code[j], o)
      /\ ~Present(j) /\ users[o][j] > 0 => IsCall(prog.code[j].op) /\ o \in ArgumentsOf(code[j])
  BY DEF ListedRead
<1>6. Mentions(code[j], o) \in Nat /\ (~Present(j) => Mentions(code[j], o) = 0)
  BY MentionsTimes DEF IInv, TypeOK, Present
<1> QED
  BY <1>3, <1>4, <1>5, <1>6

\* A folded instruction is in no list any more.
LEMMA FoldListed == IInv /\ ListedRead /\ Fold => ListedRead'
<1> SUFFICES ASSUME IInv, ListedRead, Fold PROVE ListedRead'
  OBVIOUS
<1>1. /\ prog' = prog /\ Size' = Size /\ Listed' = Listed /\ at \in 1..Size /\ at \in Listed
      /\ users' = Unlisted(code[at].args, at) /\ code[at].args \in Seq(Operand)
      /\ users \in [Operand -> [1..Size -> Nat]]
  BY PassFacts DEF Fold, Size, Listed, First
<1> SUFFICES ASSUME NEW o \in Operand, NEW j \in 1..Size
             PROVE  /\ j \notin Listed => users'[o][j] = 0
                    /\ code'[j].op # "nop" => users'[o][j] <= Mentions(code'[j], o)
                    /\ code'[j].op = "nop" /\ users'[o][j] > 0 =>
                           IsCall(prog.code[j].op) /\ o \in ArgumentsOf(code'[j])
  BY <1>1 DEF ListedRead, Present
<1>2. /\ j \notin Listed => users[o][j] = 0
      /\ code[j].op # "nop" => users[o][j] <= Mentions(code[j], o)
      /\ code[j].op = "nop" /\ users[o][j] > 0 => IsCall(prog.code[j].op) /\ o \in ArgumentsOf(code[j])
  BY DEF ListedRead, Present
<1>3. CASE j = at
  <2>1. code[at].op \in {"alu", "neq"} /\ code'[at].op = "mov" /\ code'[at].args \in Seq(Operand)
    <3>1. << >> \in Seq(Operand)
      BY EmptySeq
    <3> QED
      BY <1>3, <3>1, FoldReads
  <2>2. users[o][at] <= Times(code[at].args, o)
    <3>1. Times(code[at].args, o) \in Nat
      BY <1>1, TimesFacts
    <3>2. Mentions(code[at], o) = Times(code[at].args, o) + 0
      BY <1>1, <2>1, MentionsTimes
    <3> QED
      BY <1>2, <1>3, <2>1, <3>1, <3>2
  <2>3. users'[o][at] = 0
    BY <1>1, <2>2, UnlistedAll
  <2>4. Mentions(code'[at], o) \in Nat
    BY <2>1, MentionsTimes
  <2> QED
    BY <1>1, <1>3, <2>1, <2>3, <2>4
<1>4. CASE j # at
  <2>1. users'[o][j] = users[o][j]
    BY <1>1, <1>4, UnlistedFacts
  <2>2. code'[j] = code[j]
    BY <1>4, FoldReads
  <2> QED
    BY <1>2, <2>1, <2>2
<1> QED
  BY <1>3, <1>4

\* A removed instruction leaves the lists, but for the arguments of a call.
LEMMA RemoveListed ==
    ASSUME IInv, ReadsAreDefined, OpsStay, ListedRead, RemoveUnused \/ RemoveUndefined
    PROVE  ListedRead'
<1>1. PICK dests : pc = "dce" /\ at \in Here /\ Remove(dests)
  BY DEF RemoveUnused, RemoveUndefined
<1>2. /\ prog' = prog /\ Size' = Size /\ Listed' = Listed /\ at \in 1..Size /\ at \in Listed
      /\ users' = Unlisted(Sources(code[at]), at) /\ Sources(code[at]) \in Seq(Operand)
      /\ users' \in [Operand -> [1..Size -> Nat]]
      /\ users \in [Operand -> [1..Size -> Nat]]
      /\ code[at].args \in Seq(Operand)
  BY <1>1, PassFacts, RemoveFacts DEF Remove, Size, Listed, First
<1>3. /\ code[at].op \notin {"store", "jmp", "br", "asm", "nop"}
      /\ code[at].op \in Operations
  <2>1. Examined(code[at]) /\ code[at].op # "store"
    <3>1. CASE RemoveUnused
      BY <3>1 DEF RemoveUnused, Unused, HasSideEffects
    <3>2. CASE RemoveUndefined
      BY <1>2, <3>2, TouchedResult DEF RemoveUndefined, TouchesUndefined
    <3> QED
      BY <3>1, <3>2
  <2> QED
    BY <1>2, <2>1 DEF Examined, IInv, TypeOK
<1> SUFFICES ASSUME NEW o \in Operand, NEW j \in 1..Size
             PROVE  /\ j \notin Listed => users'[o][j] = 0
                    /\ code'[j].op # "nop" => users'[o][j] <= Mentions(code'[j], o)
                    /\ code'[j].op = "nop" /\ users'[o][j] > 0 =>
                           IsCall(prog.code[j].op) /\ o \in ArgumentsOf(code'[j])
  BY <1>2 DEF ListedRead, Present
<1>4. /\ j \notin Listed => users[o][j] = 0
      /\ code[j].op # "nop" => users[o][j] <= Mentions(code[j], o)
      /\ code[j].op = "nop" /\ users[o][j] > 0 => IsCall(prog.code[j].op) /\ o \in ArgumentsOf(code[j])
  BY DEF ListedRead, Present
<1>5. CASE j = at
  <2>1. code'[at].op = "nop" /\ code'[at].args = code[at].args
    BY <1>1, <1>5, RemoveReads
  <2>2. /\ users[o][at] <= Mentions(code[at], o) /\ users[o][at] \in Nat
        /\ users'[o][at] \in Nat /\ users'[o][at] <= users[o][at]
    BY <1>1, <1>2, <1>3, <1>4, <1>5, RemoveFacts
  <2>3. CASE IsCall(code[at].op)
    <3>1. IsCall(prog.code[at].op)
      BY <1>2, <2>3 DEF OpsStay, IsCall
    <3>2. Mentions(code[at], o) > 0 => o \in ArgumentsOf(code[at])
      <4>1. Mentions(code[at], o) > 0 => o \in Reads(code[at])
        BY <1>2, MentionsFacts
      <4> QED
        BY <2>3, <4>1 DEF Reads, Arguments, ArgumentsOf, IsCall
    <3>3. users'[o][at] > 0 => o \in ArgumentsOf(code[at])
      <4>1. Mentions(code[at], o) \in Nat
        BY <1>2, MentionsTimes
      <4> QED
        BY <2>2, <3>2, <4>1
    <3> QED
      BY <1>2, <1>5, <2>1, <3>1, <3>3 DEF ArgumentsOf
  <2>4. CASE code[at].op = "alloca"
    <3>1. Mentions(code[at], o) = 0
      BY <1>2, <2>4, MentionsTimes
    <3>2. users'[o][at] = 0
      BY <2>2, <3>1
    <3> QED
      BY <1>2, <1>5, <2>1, <3>2
  <2>5. CASE ~IsCall(code[at].op) /\ code[at].op # "alloca"
    <3>1. Sources(code[at]) = code[at].args
      BY <2>5 DEF Sources, IsCall
    <3>2. Mentions(code[at], o) = Times(code[at].args, o) /\ Times(code[at].args, o) \in Nat
      BY <1>2, <1>3, <2>5, MentionsTimes, TimesFacts
    <3>3. users'[o][at] = 0
      BY <1>2, <2>2, <3>1, <3>2, UnlistedAll
    <3> QED
      BY <1>2, <1>5, <2>1, <3>3
  <2> QED
    BY <2>3, <2>4, <2>5
<1>6. CASE j # at
  <2>1. users'[o][j] = users[o][j]
    BY <1>1, <1>6, RemoveFacts
  <2>2. code'[j] = code[j]
    BY <1>1, <1>6, RemoveReads
  <2> QED
    BY <1>4, <2>1, <2>2
<1> QED
  BY <1>5, <1>6
\* What a propagated copy rewrites did read it, by the lists.
LEMMA RewrittenReads ==
    ASSUME IInv, ListedRead, Propagate, NEW j \in 1..Size, j # at, code'[j] # code[j]
    PROVE  /\ code[at].dest \in Reads(code[j]) /\ code[at].dest \in Named(code[j])
           /\ code[j].op # "nop"
           /\ code'[j] = Replaced(code[j], code[at].dest, code[at].args[1])
<1> DEFINE copy == code[at].dest
           new == Replaced(code[j], copy, code[at].args[1])
<1>1. code'[j] = (IF j \in Readers(copy) /\ new # code[j] THEN new ELSE code[j]) /\ copy \in Operand
  BY PropagateFacts
<1>2. users[copy][j] > 0 /\ code'[j] = new
  BY <1>1 DEF Readers
<1>3. code[j].op # "nop"
  BY PropagateReads
<1>4. users[copy][j] <= Mentions(code[j], copy) /\ users[copy][j] \in Nat
  BY <1>1, <1>3 DEF ListedRead, Present, IInv, TypeOK
<1>5. code[j].args \in Seq(Operand)
  BY DEF IInv, TypeOK
<1>6. copy \in Reads(code[j])
  <2>1. Mentions(code[j], copy) \in Nat
    BY <1>5, MentionsTimes
  <2>2. Mentions(code[j], copy) > 0
    BY <1>2, <1>4, <2>1
  <2> QED
    BY <1>5, <2>2, MentionsFacts
<1>7. copy \in Named(code[j])
  <2>1. None \notin Reads(code[j])
    BY ReadsAreOperands, ProgramsAssumption DEF IInv
  <2> QED
    BY <1>6, <2>1, ReadsAreNamed
<1> QED
  BY <1>2, <1>3, <1>6, <1>7

\* The copy leaves the lists; whoever read it is counted at its source.
LEMMA PropagateListed == IInv /\ OpsStay /\ ListedRead /\ Propagate => ListedRead'
<1> SUFFICES ASSUME IInv, OpsStay, ListedRead, Propagate PROVE ListedRead'
  OBVIOUS
<1> DEFINE copy == code[at].dest
           source == code[at].args[1]
           new(j) == Replaced(code[j], copy, source)
           moved == {j \in Readers(copy) : new(j) # code[j]}
<1>1. /\ prog' = prog /\ Size' = Size /\ Listed' = Listed /\ at \in 1..Size /\ at \in Listed
      /\ users \in [Operand -> [1..Size -> Nat]] /\ IsCopy(code[at])
      /\ code[at].args \in Seq(Operand)
  BY PassFacts DEF Propagate, Size, Listed, First
<1>2. /\ copy \in Operand /\ source \in Operand /\ copy # source
      /\ \A j \in 1..Size :
            code'[j] = IF j = at THEN Nop(code[j]) ELSE IF j \in moved THEN new(j) ELSE code[j]
      /\ \A j \in 1..Size : users'[copy][j] = 0
      /\ \A j \in 1..Size : j # at =>
            users'[source][j] = IF j \in moved THEN users[source][j] + 1 ELSE users[source][j]
      /\ \A o \in Operand \ {copy, source} : \A j \in 1..Size :
            /\ j # at => users'[o][j] = users[o][j]
            /\ users'[o][j] <= users[o][j]
      /\ users' \in [Operand -> [1..Size -> Nat]]
  BY PropagateFacts
<1> SUFFICES ASSUME NEW o \in Operand, NEW j \in 1..Size
             PROVE  /\ j \notin Listed => users'[o][j] = 0
                    /\ code'[j].op # "nop" => users'[o][j] <= Mentions(code'[j], o)
                    /\ code'[j].op = "nop" /\ users'[o][j] > 0 =>
                           IsCall(prog.code[j].op) /\ o \in ArgumentsOf(code'[j])
  BY <1>1 DEF ListedRead, Present
<1>3. ASSUME NEW x \in Operand
      PROVE  /\ j \notin Listed => users[x][j] = 0
             /\ code[j].op # "nop" => users[x][j] <= Mentions(code[j], x)
             /\ code[j].op = "nop" /\ users[x][j] > 0 => IsCall(prog.code[j].op) /\ x \in ArgumentsOf(code[j])
             /\ users[x][j] \in Nat /\ Mentions(code[j], x) \in Nat
  <2>1. code[j].args \in Seq(Operand)
    BY DEF IInv, TypeOK
  <2>2. Mentions(code[j], x) \in Nat
    BY <2>1, MentionsTimes
  <2> QED
    BY <1>1, <2>2 DEF ListedRead, Present
<1>4. /\ j = at => code'[j].op = "nop"
      /\ j # at => code'[j].op = code[j].op /\ (code[j].op = "nop" => code'[j] = code[j])
  BY PropagateReads
<1>5. CASE j = at
  <2>1. code[at].op = "mov" /\ Len(code[at].args) \in {0, 1} /\ code[at].args # << >>
    BY <1>1 DEF IsCopy, OpsStay
  <2>2. DOMAIN code[at].args = {1}
    <3>1. Len(code[at].args) \in Nat /\ DOMAIN code[at].args = 1..Len(code[at].args) /\ 1 \in DOMAIN code[at].args
      BY <1>1, <2>1, ArgumentFacts
    <3>2. Len(code[at].args) = 1
      BY <2>1, <3>1
    <3>3. 1..1 = {1}
      OBVIOUS
    <3> QED
      BY <3>1, <3>2, <3>3
  <2>3. \A x \in Operand : x # source => Mentions(code[at], x) = 0
    <3>1. Reads(code[at]) = {source}
      BY <2>1, <2>2 DEF Reads, Arguments
    <3> SUFFICES ASSUME NEW x \in Operand, x # source PROVE Mentions(code[at], x) = 0
      OBVIOUS
    <3>2. Mentions(code[at], x) \in Nat /\ ~(Mentions(code[at], x) > 0)
      BY <1>1, <3>1, MentionsFacts
    <3> QED
      BY <3>2
  <2>4. users[copy][at] = 0
    <3>1. users[copy][at] <= 0 /\ users[copy][at] \in Nat
      BY <1>2, <1>3, <1>5, <2>1, <2>3
    <3> QED
      BY <3>1
  <2>5. users'[source][at] = 0
    <3>1. at \notin moved
      BY <2>4 DEF moved, Readers
    <3>2. <<source>> \in Seq(Operand)
      BY <1>2
    <3>3. users'[source][at] = Unlisted(<<source>>, at)[source][at]
      <4> DEFINE less == Unlisted(<<source>>, at)
                 none == [l \in 1..Size |-> 0]
                 more == [l \in 1..Size |-> IF l \in moved THEN less[source][l] + 1 ELSE less[source][l]]
      <4>1. less \in [Operand -> [1..Size -> Nat]]
        BY <1>1, <3>2, UnlistedFacts
      <4>2. users' = [[less EXCEPT ![copy] = none] EXCEPT ![source] = more]
        BY <1>2 DEF Propagate
      <4>3. users'[source] = more
        <5> HIDE DEF less, none, more, copy, source
        <5> QED
          BY <1>2, <4>1, <4>2
      <4>4. more[at] = less[source][at]
        BY <1>1, <3>1
      <4> QED
        BY <4>3, <4>4
    <3>4. users[source][at] <= Times(<<source>>, source)
      <4>1. Times(<<source>>, source) = Times(code[at].args, source)
        <5>1. DOMAIN <<source>> = {1} /\ <<source>>[1] = source
          OBVIOUS
        <5>2. {k \in DOMAIN <<source>> : <<source>>[k] = source} = {1}
          BY <5>1
        <5>3. {k \in DOMAIN code[at].args : code[at].args[k] = source} = {1}
          BY <2>2
        <5> HIDE DEF source
        <5> QED
          BY <5>2, <5>3 DEF Times
      <4>2. Mentions(code[at], source) = Times(code[at].args, source) + 0
        BY <1>1, <2>1, MentionsTimes
      <4>3. Times(code[at].args, source) \in Nat
        BY <1>1, TimesFacts
      <4>4. users[source][at] <= Mentions(code[at], source)
        BY <1>2, <1>3, <1>5, <2>1
      <4> HIDE DEF source
      <4> QED
        BY <4>1, <4>2, <4>3, <4>4
    <3>5. Unlisted(<<source>>, at)[source][at] = 0
      <4> HIDE DEF source
      <4> QED
        BY <1>1, <1>2, <3>2, <3>4, UnlistedAll
    <3> QED
      BY <3>3, <3>5
  <2>6. users'[o][at] = 0
    <3>1. CASE o = copy
      BY <1>1, <1>2, <3>1
    <3>2. CASE o = source
      BY <2>5, <3>2
    <3>3. CASE o \notin {copy, source}
      <4>1. users'[o][at] <= users[o][at] /\ users[o][at] <= 0 /\ users[o][at] \in Nat /\ users'[o][at] \in Nat
        <5> HIDE DEF copy, source, new, moved
        <5>1. users'[o][at] <= users[o][at] /\ users'[o][at] \in Nat
          BY <1>1, <1>2, <3>3
        <5>2. users[o][at] <= Mentions(code[at], o) /\ users[o][at] \in Nat
          BY <1>3, <1>5, <2>1
        <5>3. Mentions(code[at], o) = 0
          BY <2>3, <3>3
        <5> QED
          BY <5>1, <5>2, <5>3
      <4> QED
        BY <4>1
    <3> QED
      BY <3>1, <3>2, <3>3
  <2> QED
    BY <1>1, <1>4, <1>5, <2>6
<1>6. CASE j # at /\ j \in moved
  <2>1. code'[j] = new(j) /\ code'[j] # code[j]
    BY <1>2, <1>6 DEF moved
  <2>2. copy \in Reads(code[j]) /\ code[j].op # "nop"
    BY <1>6, <2>1, RewrittenReads
  <2>3. j \in Listed
    BY <1>2, <1>3, <1>6 DEF moved, Readers
  <2>4. /\ code[j] = [op |-> code[j].op, dest |-> code[j].dest, args |-> code[j].args, value |-> code[j].value]
        /\ code[j].args \in Seq(Operand)
    BY DEF IInv, TypeOK, Shape
  <2>5. /\ o # copy => Mentions(new(j), o) >= Mentions(code[j], o)
        /\ Mentions(new(j), source) >= Mentions(code[j], source) + 1
    <3> HIDE DEF copy, source
    <3> QED
      BY <1>2, <2>2, <2>4, MentionsReplaced
  <2>6. Mentions(new(j), o) \in Nat
    <3>1. code'[j].args \in Seq(Operand)
      <4>1. IInv'
        BY PropagateIInv
      <4> QED
        BY <1>1, <4>1 DEF IInv, TypeOK
    <3> HIDE DEF new
    <3> QED
      BY <2>1, <3>1, MentionsTimes
  <2>7. users'[o][j] <= Mentions(new(j), o)
    <3>1. CASE o = copy
      <4>1. users'[o][j] = 0
        BY <1>2, <3>1
      <4> QED
        BY <2>6, <4>1
    <3>2. CASE o = source
      <4> HIDE DEF new, copy, source, moved
      <4>1. users'[o][j] = users[o][j] + 1 /\ users[o][j] <= Mentions(code[j], o)
            /\ users[o][j] \in Nat /\ Mentions(code[j], o) \in Nat
        BY <1>2, <1>3, <1>6, <2>2, <3>2
      <4>2. Mentions(new(j), o) >= Mentions(code[j], o) + 1
        BY <2>5, <3>2
      <4> QED
        BY <2>6, <4>1, <4>2
    <3>3. CASE o \notin {copy, source}
      <4> HIDE DEF new, copy, source, moved
      <4>1. users'[o][j] = users[o][j] /\ users[o][j] <= Mentions(code[j], o)
            /\ users[o][j] \in Nat /\ Mentions(code[j], o) \in Nat
        BY <1>2, <1>3, <1>6, <2>2, <3>3
      <4>2. Mentions(new(j), o) >= Mentions(code[j], o)
        BY <2>5, <3>3
      <4> QED
        BY <2>6, <4>1, <4>2
    <3> QED
      BY <3>1, <3>2, <3>3
  <2> HIDE DEF new
  <2> QED
    BY <1>4, <1>6, <2>1, <2>2, <2>3, <2>7
<1>7. CASE j # at /\ j \notin moved
  <2>1. code'[j] = code[j]
    BY <1>2, <1>7
  <2>2. users'[o][j] <= users[o][j] /\ users'[o][j] \in Nat
    <3> HIDE DEF new, copy, source, moved
    <3>1. CASE o = copy
      BY <1>2, <1>3, <3>1
    <3>2. CASE o = source
      BY <1>2, <1>3, <1>7, <3>2
    <3>3. CASE o \notin {copy, source}
      BY <1>2, <1>3, <1>7, <3>3
    <3> QED
      BY <3>1, <3>2, <3>3
  <2> QED
    BY <1>3, <2>1, <2>2
<1> QED
  BY <1>5, <1>6, <1>7
LEMMA ListedStep == IInv /\ ReadsAreDefined /\ OpsStay /\ ListedRead /\ [Next]_vars => ListedRead'
<1> SUFFICES ASSUME IInv, ReadsAreDefined, OpsStay, ListedRead, [Next]_vars PROVE ListedRead'
  OBVIOUS
<1>1. CASE ComputeUses
  BY <1>1, ComputeListed
<1>2. CASE Fold
  BY <1>2, FoldListed
<1>3. CASE Propagate
  BY <1>3, PropagateListed
<1>4. CASE RemoveUnused \/ RemoveUndefined
  BY <1>4, RemoveListed
<1>5. CASE Pass \/ NextPass \/ NextRound \/ NextFunction
  <2>1. UNCHANGED <<prog, code, users, kind>> /\ Size' = Size /\ Listed' = Listed
    BY <1>5, ControlIInv
  <2> QED
    BY <2>1 DEF ListedRead, Present
<1>6. CASE UNCHANGED vars
  <2>1. UNCHANGED <<prog, code, users, func, pc>>
    BY <1>6 DEF vars
  <2>2. Size' = Size /\ Listed' = Listed
    BY <2>1 DEF Size, Listed, First
  <2> QED
    BY <2>1, <2>2 DEF ListedRead, Present
<1> QED
  BY <1>1, <1>2, <1>3, <1>4, <1>5, <1>6 DEF Next

-----------------------------------------------------------------------------
\* The pass is in the function or behind its end.
Position == pc \in {"fold", "copy", "dce"} => at \in First(func)..(prog.last[func] + 1)

Ended == pc = "done" => func = Len(prog.last)

\* What the last pass of a round without a change has seen is to stay.
Visited ==
    pc = "dce" /\ ~changed =>
        \A j \in First(func)..(at - 1) : ~Unused(code[j]) /\ ~TouchesUndefined(code[j])

Results == {"mov", "alu", "pure", "load", "purecall"}

\* Somebody reads an operand, or it was an argument of a removed call.
Wanted(o) ==
    \/ \E i \in 1..Size : o \in Reads(code[i])
    \/ \E i \in 1..Size :
          /\ ~Present(i)
          /\ IsCall(prog.code[i].op)
          /\ o \in ArgumentsOf(code[i])

UsefulResult(j) ==
    code[j].op \in Results /\ ~HasSideEffects(code[j]) /\ code[j].dest # None => Wanted(code[j].dest)

\* The functions that are done.
Settled == IF pc = "done" THEN 1..prog.last[func] ELSE 1..(First(func) - 1)

SettledUseful == \A j \in Settled : UsefulResult(j)

LEMMA PositionStep == IInv /\ Position /\ Ended /\ [Next]_vars => Position' /\ Ended'
<1> SUFFICES ASSUME IInv, Position, Ended, [Next]_vars PROVE Position' /\ Ended'
  OBVIOUS
<1>1. prog' = prog
  BY DEF Next, vars, ComputeUses, Fold, Propagate, RemoveUnused, RemoveUndefined, Remove, Pass,
         NextPass, NextRound, NextFunction
<1>2. /\ Size \in Nat /\ Len(prog.last) \in Nat /\ func \in 1..Len(prog.last)
      /\ First(func) \in 1..(Size + 1) /\ First(func) - 1 <= prog.last[func]
      /\ prog.last[func] \in 0..Size
      /\ pc \in {"uses", "fold", "copy", "dce", "done"} /\ at \in 1..(Size + 1)
  BY LayoutFacts DEF IInv, TypeOK
<1>3. CASE ComputeUses \/ NextPass \/ NextRound
  <2>1. func' = func /\ at' = First(func) /\ pc' \in {"fold", "copy", "dce"} /\ First(func)' = First(func)
    BY <1>1, <1>3 DEF ComputeUses, NextPass, NextRound, First
  <2> QED
    BY <1>1, <1>2, <2>1 DEF Position, Ended
<1>4. CASE Fold \/ Propagate \/ RemoveUnused \/ RemoveUndefined \/ Pass
  <2>1. /\ func' = func /\ at' = at + 1 /\ pc' = pc /\ at \in Here /\ First(func)' = First(func)
        /\ pc \in {"fold", "copy", "dce"}
    BY <1>1, <1>4 DEF Fold, Propagate, RemoveUnused, RemoveUndefined, Remove, Pass, First
  <2> QED
    BY <1>1, <1>2, <2>1 DEF Position, Ended, Here
<1>5. CASE NextFunction
  <2>1. pc' \in {"uses", "done"} /\ (pc' = "done" => ~(func < Len(prog.last)) /\ func' = func)
    BY <1>5 DEF NextFunction
  <2> QED
    BY <1>1, <1>2, <2>1 DEF Position, Ended
<1>6. CASE UNCHANGED vars
  BY <1>6 DEF vars, Position, Ended, First
<1> QED
  BY <1>3, <1>4, <1>5, <1>6 DEF Next

LEMMA VisitedStep == IInv /\ Position /\ Visited /\ [Next]_vars => Visited'
<1> SUFFICES ASSUME IInv, Position, Visited, [Next]_vars, pc' = "dce", ~changed',
                    NEW j \in First(func)'..(at' - 1)
             PROVE  ~Unused(code[j])' /\ ~TouchesUndefined(code[j])'
  BY DEF Visited
<1>1. /\ Size \in Nat /\ First(func) \in 1..(Size + 1) /\ at \in 1..(Size + 1)
  BY LayoutFacts DEF IInv, TypeOK
<1>2. CASE Pass
  <2>1. /\ UNCHANGED <<prog, code, users, kind, func>> /\ pc = "dce" /\ ~changed /\ at' = at + 1
        /\ ~Unused(code[at]) /\ ~TouchesUndefined(code[at])
    BY <1>2 DEF Pass
  <2>2. j \in First(func)..(at - 1) \/ j = at
    <3>1. First(func)' = First(func)
      BY <2>1 DEF First
    <3> QED
      BY <1>1, <2>1, <3>1
  <2>3. ~Unused(code[j]) /\ ~TouchesUndefined(code[j])
    BY <2>1, <2>2 DEF Visited
  <2> QED
    BY <2>1, <2>3 DEF Unused, TouchesUndefined, Examined, HasSideEffects, Readers, Size, SourceSet, Sources
<1>3. CASE NextPass
  <2>1. at' = First(func) /\ First(func)' = First(func)
    BY <1>3 DEF NextPass, First
  <2> QED
    BY <1>1, <2>1
<1>4. CASE UNCHANGED vars
  <2>1. UNCHANGED <<prog, code, users, kind, func, at, changed, pc>>
    BY <1>4 DEF vars
  <2>2. j \in First(func)..(at - 1)
    BY <2>1 DEF First
  <2>3. ~Unused(code[j]) /\ ~TouchesUndefined(code[j])
    BY <2>1, <2>2 DEF Visited
  <2> QED
    BY <2>1, <2>3 DEF Unused, TouchesUndefined, Examined, HasSideEffects, Readers, Size, SourceSet, Sources
<1>5. ~(ComputeUses \/ Fold \/ Propagate \/ NextRound \/ NextFunction)
  BY DEF ComputeUses, Fold, Propagate, NextRound, NextFunction
<1>6. ~(RemoveUnused \/ RemoveUndefined)
  BY DEF RemoveUnused, RemoveUndefined, Remove
<1> QED
  BY <1>2, <1>3, <1>4, <1>5, <1>6 DEF Next
\* What an earlier function names, the instruction at hand does not.
LEMMA EarlierApart ==
    ASSUME IInv, StayLocal, at \in Here, NEW j \in 1..(First(func) - 1)
    PROVE  j \in 1..Size /\ j # at /\ Named(code[j]) \cap Named(code[at]) = {}
<1>1. /\ Size \in Nat /\ Len(prog.last) \in Nat /\ func \in 1..Len(prog.last)
      /\ First(func) \in 1..(Size + 1) /\ Here \subseteq 1..Size
      /\ \A h \in 1..Len(prog.last) : prog.last[h] \in 0..Size
  BY LayoutFacts DEF IInv, TypeOK
<1>2. func # 1
  BY <1>1 DEF First
<1>3. func - 1 \in 1..Len(prog.last)
  BY <1>1, <1>2
<1>4. PICK e \in 0..Size : e = prog.last[func - 1]
  BY <1>1, <1>3
<1>5. First(func) = e + 1
  BY <1>2, <1>4 DEF First
<1>6. at \in (e + 1)..Size /\ j \in 1..e
  <2>1. at \in 1..Size /\ at >= First(func)
    BY <1>1 DEF Here
  <2> QED
    BY <1>1, <1>4, <1>5, <2>1
<1>7. Named(code[j]) \cap Named(code[at]) = {}
  BY <1>3, <1>4, <1>6 DEF StayLocal
<1> QED
  BY <1>1, <1>4, <1>6, <1>7

\* What does not name an operand does not stop it from being wanted.
LEMMA WantedKept ==
    ASSUME IInv, at \in Here, Fold \/ Propagate \/ RemoveUnused \/ RemoveUndefined,
           NEW o \in Operand, o \notin Named(code[at]), Wanted(o)
    PROVE  Wanted(o)'
<1>1. prog' = prog /\ Size' = Size /\ pc \in {"fold", "copy", "dce"}
  BY DEF Fold, Propagate, RemoveUnused, RemoveUndefined, Remove, Size
<1>2. at \in 1..Size
  BY <1>1, PassFacts
<1>3. ASSUME NEW i \in 1..Size, i # at
      PROVE  /\ o \in Reads(code[i]) => o \in Reads(code'[i])
             /\ code[i].op = "nop" => code'[i] = code[i]
  <2>1. CASE Fold
    BY <1>3, <2>1, FoldReads
  <2>2. CASE Propagate
    BY <1>3, <2>2, PropagateReads
  <2>3. CASE RemoveUnused \/ RemoveUndefined
    <3>1. PICK dests : pc = "dce" /\ Remove(dests)
      BY <2>3 DEF RemoveUnused, RemoveUndefined
    <3> QED
      BY <1>3, <3>1, RemoveReads
  <2> QED
    BY <2>1, <2>2, <2>3
<1>4. ASSUME NEW i \in 1..Size, o \in Reads(code[i]) PROVE Wanted(o)'
  <2>1. None \notin Reads(code[i])
    BY ReadsAreOperands, ProgramsAssumption DEF IInv
  <2>2. i # at
    BY <1>4, <2>1, ReadsAreNamed
  <2>3. o \in Reads(code'[i])
    BY <1>3, <1>4, <2>2
  <2> QED
    BY <1>1, <2>3 DEF Wanted
<1>5. ASSUME NEW i \in 1..Size, ~Present(i), IsCall(prog.code[i].op), o \in ArgumentsOf(code[i])
      PROVE  Wanted(o)'
  <2>1. code[at].op # "nop"
    BY DEF Fold, Foldable, Propagate, IsCopy, RemoveUnused, RemoveUndefined, Unused, TouchesUndefined, Examined
  <2>2. i # at /\ code'[i] = code[i]
    BY <1>3, <1>5, <2>1 DEF Present
  <2>3. ~Present(i)' /\ o \in ArgumentsOf(code'[i])
    BY <1>5, <2>2 DEF Present
  <2> QED
    BY <1>1, <1>5, <2>3 DEF Wanted
<1> QED
  BY <1>4, <1>5 DEF Wanted

\* A step in one function leaves the results of the earlier ones useful.
LEMMA PassKeepsUseful ==
    ASSUME DInv, DInv', OpsStay, ListedRead, SettledUseful,
           Fold \/ Propagate \/ RemoveUnused \/ RemoveUndefined
    PROVE  SettledUseful'
<1>1. /\ prog' = prog /\ Size' = Size /\ pc \in {"fold", "copy", "dce"} /\ pc' = pc /\ func' = func
      /\ First(func)' = First(func) /\ at \in Here
  BY DEF Fold, Propagate, RemoveUnused, RemoveUndefined, Remove, Size, First
<1>2. IInv /\ StayLocal /\ IInv'
  BY DEF DInv
<1>3. Settled = 1..(First(func) - 1) /\ Settled' = Settled
  BY <1>1 DEF Settled
<1> SUFFICES ASSUME NEW j \in 1..(First(func) - 1),
                    code'[j].op \in Results, ~HasSideEffects(code[j])', code'[j].dest # None
             PROVE  Wanted(code[j].dest)'
  BY <1>1, <1>3 DEF SettledUseful, UsefulResult
<1>4. j \in 1..Size /\ j # at /\ \A o \in Named(code[j]) : o \notin Named(code[at])
  BY <1>1, <1>2, EarlierApart
<1>5. code'[j] = code[j]
  <2>1. CASE Fold
    BY <1>2, <1>4, <2>1, FoldReads
  <2>2. CASE Propagate
    <3>1. code[at].dest \in Named(code[at])
      BY <1>2, <1>4, <2>2, PropagateReads
    <3> QED
      BY <1>2, <1>4, <2>2, <3>1, RewrittenReads
  <2>3. CASE RemoveUnused \/ RemoveUndefined
    <3>1. PICK dests : pc = "dce" /\ Remove(dests)
      BY <2>3 DEF RemoveUnused, RemoveUndefined
    <3> QED
      BY <1>1, <1>2, <1>4, <3>1, RemoveReads
  <2> QED
    BY <2>1, <2>2, <2>3
<1>6. ~HasSideEffects(code[j])
  <2>1. SUFFICES ASSUME HasSideEffects(code[j]) PROVE FALSE
    OBVIOUS
  <2>2. code[j].op = "load" /\ kind[code[j].args[1]] = "global" /\ kind'[code[j].args[1]] # "global"
    BY <1>5, <2>1 DEF HasSideEffects, Results
  <2>3. code[j].args[1] \in Reads(code[j]) /\ code[j].args[1] \in Operand
    <3>1. Len(code[j].args) = 1 /\ code[j].args \in Seq(Operand)
      BY <1>2, <1>4, <2>2 DEF OpsStay, IInv, TypeOK
    <3>2. 1 \in DOMAIN code[j].args /\ code[j].args[1] \in Operand
      BY <3>1, ArgumentFacts
    <3> QED
      BY <2>2, <3>2 DEF Reads, Arguments
  <2>4. kind'[code[j].args[1]] = "undefined"
    <3>1. CASE Fold \/ Propagate
      BY <2>2, <3>1 DEF Fold, Propagate
    <3>2. CASE RemoveUnused \/ RemoveUndefined
      <4>1. PICK dests : kind' = KindsWithout(dests)
        BY <3>2 DEF RemoveUnused, RemoveUndefined, Remove
      <4> QED
        BY <2>2, <2>3, <4>1 DEF KindsWithout
    <3> QED
      BY <3>1, <3>2
  <2>5. \A i \in 1..Size : code[j].args[1] \notin Reads(code'[i])
    BY <1>1, <2>3, <2>4 DEF DInv, ReadsAreDefined, UndefinedIsUnused
  <2> QED
    BY <1>4, <1>5, <2>3, <2>5
<1>7. Wanted(code[j].dest)
  BY <1>3, <1>5, <1>6 DEF SettledUseful, UsefulResult
<1>8. code[j].dest \in Operand /\ code[j].dest \in Named(code[j])
  <2>1. code[j].dest \in Operand \cup {None} /\ code[j].dest # None
    BY <1>2, <1>4, <1>5 DEF IInv, TypeOK
  <2> QED
    BY <2>1 DEF Named
<1>9. Wanted(code[j].dest)'
  <2>1. code[j].dest \notin Named(code[at])
    BY <1>4, <1>8
  <2> QED
    BY <1>1, <1>2, <1>5, <1>7, <1>8, <2>1, WantedKept
<1> QED
  BY <1>9
\* The strengthening of DeadCodeGone.
GInv ==
    /\ DInv
    /\ OpsStay
    /\ KindsStay
    /\ ListedRead
    /\ Position
    /\ Ended
    /\ Visited
    /\ SettledUseful

\* When a round has changed nothing, every result of the function is useful.
LEMMA RoundUseful ==
    ASSUME GInv, pc = "dce", ~changed, at \notin Here, NEW j \in Here
    PROVE  UsefulResult(j)
<1>1. IInv /\ OpsStay /\ KindsStay /\ ListedRead
  BY DEF GInv, DInv
<1>2. /\ Size \in Nat /\ func \in 1..Len(prog.last) /\ First(func) \in 1..(Size + 1)
      /\ prog.last[func] \in 0..Size /\ Here \subseteq 1..Size
  BY <1>1, LayoutFacts DEF IInv, TypeOK
<1>3. at \in First(func)..(prog.last[func] + 1)
  BY DEF GInv, Position
<1>4. at = prog.last[func] + 1 /\ j \in First(func)..(at - 1)
  BY <1>2, <1>3 DEF Here
<1>5. ~Unused(code[j]) /\ ~TouchesUndefined(code[j])
  BY <1>4 DEF GInv, Visited
<1> SUFFICES ASSUME code[j].op \in Results, ~HasSideEffects(code[j]), code[j].dest # None
             PROVE  Wanted(code[j].dest)
  BY DEF UsefulResult
<1>6. Examined(code[j])
  BY DEF Examined, Results
<1>7. j \in 1..Size /\ code[j].dest \in Operand
  BY <1>1, <1>2 DEF IInv, TypeOK
<1>8. kind[code[j].dest] = "vreg"
  <2>1. kind[code[j].dest] # "undefined"
    BY <1>5, <1>6 DEF TouchesUndefined
  <2>2. kind[code[j].dest] = prog.kind[code[j].dest]
    BY <1>1, <1>7, <2>1 DEF KindsStay
  <2>3. prog.code[j].op \notin {"store", "alloca"}
    BY <1>1, <1>7 DEF OpsStay, Results
  <2>4. code[j].dest = prog.code[j].dest
    BY <1>1, <1>7, <2>3 DEF IInv, Shape
  <2>5. prog \in Programs /\ j \in 1..Len(prog.code)
    BY <1>1, <1>7 DEF IInv, Chosen, Size
  <2>6. prog.kind[prog.code[j].dest] = "vreg"
    BY <2>3, <2>4, <2>5, ResultsAssumption
  <2> QED
    BY <2>2, <2>4, <2>6
<1>9. PICK i \in 1..Size : users[code[j].dest][i] > 0
  <2>1. Readers(code[j].dest) # {}
    BY <1>5, <1>6, <1>8 DEF Unused
  <2> QED
    BY <2>1 DEF Readers
<1>10. CASE Present(i)
  <2>1. users[code[j].dest][i] <= Mentions(code[i], code[j].dest) /\ users[code[j].dest][i] \in Nat
    BY <1>1, <1>7, <1>10 DEF ListedRead, IInv, TypeOK
  <2>2. code[i].args \in Seq(Operand)
    BY <1>1 DEF IInv, TypeOK
  <2>3. Mentions(code[i], code[j].dest) \in Nat
    BY <2>2, MentionsTimes
  <2>4. Mentions(code[i], code[j].dest) > 0
    BY <1>9, <2>1, <2>3
  <2>5. code[j].dest \in Reads(code[i])
    BY <2>2, <2>4, MentionsFacts
  <2> QED
    BY <2>5 DEF Wanted
<1>11. CASE ~Present(i)
  <2>1. IsCall(prog.code[i].op) /\ code[j].dest \in ArgumentsOf(code[i])
    BY <1>1, <1>7, <1>9, <1>11 DEF ListedRead
  <2> QED
    BY <1>11, <2>1 DEF Wanted
<1> QED
  BY <1>10, <1>11

LEMMA SettledStep == GInv /\ DInv' /\ [Next]_vars => SettledUseful'
<1> SUFFICES ASSUME GInv, DInv', [Next]_vars PROVE SettledUseful'
  OBVIOUS
<1>1. CASE Fold \/ Propagate \/ RemoveUnused \/ RemoveUndefined
  BY <1>1, PassKeepsUseful DEF GInv
<1>2. ASSUME UNCHANGED <<prog, code, kind>>, NEW j, UsefulResult(j)
      PROVE  UsefulResult(j)'
  BY <1>2 DEF UsefulResult, HasSideEffects, Wanted, Present, Size
<1>3. CASE ComputeUses \/ Pass \/ NextPass \/ NextRound
  <2>1. UNCHANGED <<prog, code, kind, func>> /\ pc # "done" /\ pc' # "done"
    BY <1>3 DEF ComputeUses, Pass, NextPass, NextRound
  <2>2. Settled' = Settled
    BY <2>1 DEF Settled, First
  <2> QED
    BY <1>2, <2>1, <2>2 DEF GInv, SettledUseful
<1>4. CASE NextFunction
  <2>1. UNCHANGED <<prog, code, kind>> /\ pc = "dce" /\ at \notin Here /\ ~changed
    BY <1>4 DEF NextFunction
  <2>2. /\ func \in 1..Len(prog.last) /\ Len(prog.last) \in Nat
        /\ (1..(First(func) - 1)) \cup Here = 1..prog.last[func]
    BY LayoutFacts DEF GInv, DInv, IInv, TypeOK
  <2>3. Settled = 1..(First(func) - 1)
    BY <2>1 DEF Settled
  <2>4. \A j \in 1..prog.last[func] : UsefulResult(j)
    BY <2>1, <2>2, <2>3, RoundUseful DEF GInv, SettledUseful
  <2>5. Settled' = 1..prog.last[func]
    <3>1. CASE func < Len(prog.last)
      <4>1. func' = func + 1 /\ pc' = "uses"
        BY <1>4, <3>1 DEF NextFunction
      <4>2. First(func)' = prog.last[func] + 1
        BY <2>1, <2>2, <4>1 DEF First
      <4>3. prog.last[func] \in Nat
        BY LayoutFacts DEF GInv, DInv, IInv, TypeOK
      <4> QED
        BY <4>1, <4>2, <4>3 DEF Settled
    <3>2. CASE ~(func < Len(prog.last))
      <4>1. func' = func /\ pc' = "done"
        BY <1>4, <3>2 DEF NextFunction
      <4> QED
        BY <2>1, <4>1 DEF Settled
    <3> QED
      BY <3>1, <3>2
  <2> QED
    BY <1>2, <2>1, <2>4, <2>5 DEF SettledUseful
<1>5. CASE UNCHANGED vars
  <2>1. UNCHANGED <<prog, code, kind, func, pc>>
    BY <1>5 DEF vars
  <2>2. Settled' = Settled
    BY <2>1 DEF Settled, First
  <2> QED
    BY <1>2, <2>1, <2>2 DEF GInv, SettledUseful
<1> QED
  BY <1>1, <1>3, <1>4, <1>5 DEF Next

LEMMA GInvStep == GInv /\ [Next]_vars => GInv'
<1> SUFFICES ASSUME GInv, [Next]_vars PROVE GInv'
  OBVIOUS
<1>1. /\ DInv /\ OpsStay /\ KindsStay /\ ListedRead /\ Position /\ Ended /\ Visited /\ SettledUseful
      /\ IInv /\ ReadsAreDefined
  BY DEF GInv, DInv
<1>2. DInv'
  BY <1>1, DInvStep
<1>3. OpsStay' /\ KindsStay'
  BY <1>1, OpsStayStep, KindsStayStep
<1>4. ListedRead'
  BY <1>1, ListedStep
<1>5. Position' /\ Ended'
  BY <1>1, PositionStep
<1>6. Visited'
  BY <1>1, VisitedStep
<1>7. SettledUseful'
  BY <1>2, SettledStep
<1> QED
  BY <1>2, <1>3, <1>4, <1>5, <1>6, <1>7 DEF GInv

LEMMA GInvInit ==
    ASSUME OperandsAreLocal
    PROVE  Init => GInv
<1> SUFFICES ASSUME Init PROVE GInv
  OBVIOUS
<1>1. DInv /\ IInv
  BY DInvInit DEF DInv
<1>2. /\ prog \in Programs /\ Size = Len(prog.code)
      /\ pc = "uses" /\ func = 1 /\ at = 1 /\ kind = prog.kind
  BY DEF Init, Size
<1>3. ASSUME NEW j \in 1..Size
      PROVE  code[j].op = prog.code[j].op /\ code[j].args = prog.code[j].args
  <2>1. code[j] = [op |-> prog.code[j].op, dest |-> prog.code[j].dest,
                   args |-> prog.code[j].args, value |-> Unknown]
    BY DEF Init
  <2> QED
    BY <2>1
<1>4. OpsStay
  <2>1. \A j \in 1..Size : prog.code[j].op \in {"mov", "load"} => Len(prog.code[j].args) = 1
    BY <1>2, ProgramsAssumption
  <2> QED
    BY <1>3, <2>1 DEF OpsStay
<1>5. KindsStay
  BY <1>2 DEF KindsStay
<1>6. ListedRead
  <2> SUFFICES ASSUME NEW o \in Operand, NEW j \in 1..Size
               PROVE  /\ users[o][j] = 0
                      /\ users[o][j] <= Mentions(code[j], o)
    BY DEF ListedRead
  <2>1. users[o][j] = 0
    BY DEF Init
  <2>2. Mentions(code[j], o) \in Nat
    <3>1. code[j].args \in Seq(Operand)
      BY <1>1 DEF IInv, TypeOK
    <3> QED
      BY <3>1, MentionsTimes
  <2> QED
    BY <2>1, <2>2
<1>7. Position /\ Ended /\ Visited
  BY <1>2 DEF Position, Ended, Visited
<1>8. SettledUseful
  BY <1>2 DEF SettledUseful, Settled, First
<1> QED
  BY <1>1, <1>4, <1>5, <1>6, <1>7, <1>8 DEF GInv

LEMMA GInvHolds ==
    ASSUME OperandsAreLocal
    PROVE  Spec => []GInv
<1>1. Init => GInv
  BY GInvInit
<1> QED
  BY <1>1, GInvStep, PTL DEF Spec

\* At the end no result of a pure instruction is unused, but for the arguments of
\* removed calls (opt.c:853): the round that changes nothing has looked at each,
\* and no later function takes a reader away.
THEOREM NoDeadCodeStays ==
    ASSUME OperandsAreLocal
    PROVE  Spec => []DeadCodeGone
<1>1. GInv => DeadCodeGone
  <2> SUFFICES ASSUME GInv, pc = "done", NEW j \in 1..Size,
                      code[j].op \in Results, ~HasSideEffects(code[j]), code[j].dest # None
               PROVE  \/ \E i \in 1..Size : code[j].dest \in Reads(code[i])
                      \/ \E i \in 1..Size :
                            /\ ~Present(i)
                            /\ prog.code[i].op \in {"call", "purecall"}
                            /\ \E a \in DOMAIN code[i].args : code[i].args[a] = code[j].dest
    BY DEF DeadCodeGone, Results
  <2>1. func = Len(prog.last) /\ prog \in Programs
    BY DEF GInv, Ended, DInv, IInv, Chosen
  <2>2. prog.last[func] = Size
    BY <2>1, ProgramsAssumption DEF Size
  <2>3. j \in Settled
    BY <2>2 DEF Settled
  <2>4. Wanted(code[j].dest)
    BY <2>3 DEF GInv, SettledUseful, UsefulResult
  <2> QED
    BY <2>4 DEF Wanted, IsCall, ArgumentsOf
<1> QED
  BY <1>1, GInvHolds, PTL
-----------------------------------------------------------------------------
\* Whatever is read was read in the module that was lowered.
ReadBefore(o) == \E i \in 1..Size : o \in Reads(prog.code[i])

OldReads == \A j \in 1..Size : \A o \in Reads(code[j]) : ReadBefore(o)

\* What is undefined was read once, or is the result of an instruction without effect.
UndefinedBefore ==
    \A o \in Operand : kind[o] = "undefined" =>
        \/ ReadBefore(o)
        \/ \E i \in 1..Size : prog.code[i].dest = o /\ prog.code[i].op \notin Effects

VInv == DInv /\ OpsStay /\ OldReads /\ UndefinedBefore /\ OnlyReadCallsVanish

LEMMA OldReadsStep == IInv /\ OldReads /\ [Next]_vars => OldReads'
<1> SUFFICES ASSUME IInv, OldReads, [Next]_vars PROVE OldReads'
  OBVIOUS
<1>1. prog' = prog /\ Size' = Size
  BY DEF Next, vars, ComputeUses, Fold, Propagate, RemoveUnused, RemoveUndefined, Remove, Pass,
         NextPass, NextRound, NextFunction, Size
<1>2. ASSUME NEW j \in 1..Size, NEW o \in Reads(code'[j])
      PROVE  \E i \in 1..Size : o \in Reads(code[i])
  <2>1. CASE Fold
    BY <1>2, <2>1, FoldReads
  <2>2. CASE Propagate
    <3>1. at \in 1..Size
      BY <2>2, PassFacts DEF Propagate
    <3> QED
      BY <1>2, <2>2, <3>1, PropagateReads
  <2>3. CASE RemoveUnused \/ RemoveUndefined
    <3>1. PICK dests : pc = "dce" /\ at \in Here /\ Remove(dests)
      BY <2>3 DEF RemoveUnused, RemoveUndefined
    <3> QED
      BY <1>2, <3>1, RemoveReads
  <2>4. CASE ComputeUses \/ Pass \/ NextPass \/ NextRound \/ NextFunction \/ UNCHANGED vars
    <3>1. code' = code
      BY <2>4 DEF ComputeUses, Pass, NextPass, NextRound, NextFunction, vars
    <3> QED
      BY <1>2, <3>1
  <2> QED
    BY <2>1, <2>2, <2>3, <2>4 DEF Next
<1> QED
  BY <1>1, <1>2 DEF OldReads, ReadBefore

\* An instruction that dead code elimination removes, and what it was.
LEMMA RemovedBefore ==
    ASSUME VInv, pc = "dce", at \in Here,
           \/ Unused(code[at])
           \/ TouchesUndefined(code[at])
    PROVE  /\ at \in 1..Size /\ Examined(code[at])
           /\ code[at].op \in Operations /\ code[at].op # "store" /\ prog.code[at].op # "store"
           /\ code[at].dest \in Operand /\ prog.code[at].dest = code[at].dest
           /\ prog.code[at].op \in {code[at].op, "alu", "neq"}
           /\ code[at].op \notin Effects \/ code[at].op = "call"
<1>1. at \in 1..Size /\ IInv /\ ReadsAreDefined /\ prog \in Programs
  BY PassFacts DEF VInv, DInv, IInv, Chosen
<1>2. Examined(code[at]) /\ code[at].op # "store" /\ code[at].dest # None
  <2>1. CASE Unused(code[at])
    BY <2>1 DEF Unused, HasSideEffects
  <2>2. CASE TouchesUndefined(code[at])
    <3>1. None \notin Operand
      BY ProgramsAssumption
    <3> QED
      BY <1>1, <2>2, <3>1, TouchedResult DEF TouchesUndefined
  <2> QED
    BY <2>1, <2>2
<1>3. code[at].dest \in Operand \cup {None} /\ code[at].op \in Operations
  BY <1>1 DEF IInv, TypeOK
<1>4. prog.code[at].op \in {code[at].op, "alu", "neq"} /\ prog.code[at].op # "store"
  BY <1>1, <1>2 DEF VInv, OpsStay, Examined
<1>5. prog.code[at].dest = code[at].dest
  BY <1>1, <1>4 DEF IInv, Shape
<1>6. code[at].op # "ret"
  <2>1. prog.code[at].op = "ret" => prog.code[at].dest = None
    BY <1>1, ProgramsAssumption DEF Size
  <2>2. code[at].op = "ret" => prog.code[at].op = "ret"
    BY <1>1 DEF VInv, OpsStay
  <2> QED
    BY <1>2, <1>5, <2>1, <2>2
<1>7. code[at].op \notin Effects \/ code[at].op = "call"
  BY <1>2, <1>6 DEF Examined, Effects
<1> QED
  BY <1>1, <1>2, <1>3, <1>4, <1>5, <1>7

LEMMA UndefinedBeforeStep == VInv /\ [Next]_vars => UndefinedBefore'
<1> SUFFICES ASSUME VInv, [Next]_vars PROVE UndefinedBefore'
  OBVIOUS
<1>1. prog' = prog /\ Size' = Size
  BY DEF Next, vars, ComputeUses, Fold, Propagate, RemoveUnused, RemoveUndefined, Remove, Pass,
         NextPass, NextRound, NextFunction, Size
<1>2. CASE RemoveUnused \/ RemoveUndefined
  <2>1. PICK dests : /\ pc = "dce" /\ at \in Here /\ Remove(dests) /\ dests = {code[at].dest} \ {None}
                     /\ \/ Unused(code[at])
                        \/ TouchesUndefined(code[at]) /\ ~Unused(code[at])
    BY <1>2 DEF RemoveUnused, RemoveUndefined, Unused
  <2>2. /\ at \in 1..Size /\ Examined(code[at])
        /\ code[at].op \in Operations /\ code[at].op # "store"
        /\ code[at].dest \in Operand /\ prog.code[at].dest = code[at].dest
        /\ prog.code[at].op \in {code[at].op, "alu", "neq"}
    BY <2>1, RemovedBefore
  <2> SUFFICES ASSUME NEW o \in Operand, kind'[o] = "undefined"
               PROVE  \/ ReadBefore(o)
                      \/ \E i \in 1..Size : prog.code[i].dest = o /\ prog.code[i].op \notin Effects
    BY <1>1 DEF UndefinedBefore, ReadBefore
  <2>3. o = code[at].dest \/ o \in SourceSet(code[at]) \/ kind[o] = "undefined"
    BY <2>1 DEF Remove, KindsWithout
  <2>4. CASE kind[o] = "undefined"
    BY <2>4 DEF VInv, UndefinedBefore
  <2>5. CASE o \in SourceSet(code[at])
    <3>1. o \in Reads(code[at])
      BY <2>2, <2>5 DEF SourceSet, Sources, Reads, Arguments, Examined
    <3> QED
      BY <2>2, <3>1 DEF VInv, OldReads
  <2>6. CASE o = code[at].dest /\ kind[o] # "undefined"
    <3>1. Unused(code[at])
      <4>1. TouchesUndefined(code[at]) => kind[code[at].dest] = "undefined"
        BY <2>2, TouchedResult DEF VInv, DInv
      <4> QED
        BY <2>1, <2>6, <4>1
    <3>2. prog.code[at].op \notin Effects
      BY <2>2, <3>1 DEF Unused, HasSideEffects, Examined, Effects
    <3> QED
      BY <2>2, <2>6, <3>2
  <2> QED
    BY <2>3, <2>4, <2>5, <2>6
<1>3. CASE ~(RemoveUnused \/ RemoveUndefined)
  <2>1. kind' = kind
    BY <1>3 DEF Next, vars, ComputeUses, Fold, Propagate, Pass, NextPass, NextRound, NextFunction
  <2> QED
    BY <1>1, <2>1 DEF VInv, UndefinedBefore, ReadBefore
<1> QED
  BY <1>2, <1>3

LEMMA VanishStep == VInv /\ [Next]_vars => OnlyReadCallsVanish'
<1> SUFFICES ASSUME VInv, [Next]_vars PROVE OnlyReadCallsVanish'
  OBVIOUS
<1>1. prog' = prog /\ Size' = Size
  BY DEF Next, vars, ComputeUses, Fold, Propagate, RemoveUnused, RemoveUndefined, Remove, Pass,
         NextPass, NextRound, NextFunction, Size
<1>2. IInv /\ ReadsAreDefined /\ prog \in Programs
  BY DEF VInv, DInv, IInv, Chosen
<1> SUFFICES ASSUME NEW j \in 1..Size, prog.code[j].op \in Effects, code'[j].op = "nop", code[j].op # "nop"
             PROVE  prog.code[j].op = "call" /\ ReadBefore(prog.code[j].dest)
  BY <1>1 DEF VInv, OnlyReadCallsVanish, Present, ReadBefore
<1>3. CASE Fold
  BY <1>2, <1>3, FoldReads
<1>4. CASE Propagate
  <2>1. j = at
    BY <1>2, <1>4, PropagateReads
  <2>2. code[j].op = "mov"
    BY <1>4, <2>1 DEF Propagate, IsCopy
  <2> QED
    BY <2>2 DEF VInv, OpsStay, Effects
<1>5. CASE RemoveUnused \/ RemoveUndefined
  <2>1. PICK dests : /\ pc = "dce" /\ at \in Here /\ Remove(dests)
                     /\ \/ Unused(code[at])
                        \/ TouchesUndefined(code[at]) /\ ~Unused(code[at])
    BY <1>5 DEF RemoveUnused, RemoveUndefined
  <2>2. j = at
    BY <1>2, <2>1, RemoveReads
  <2>3. /\ code[at].dest \in Operand /\ prog.code[at].dest = code[at].dest
        /\ prog.code[at].op \in {code[at].op, "alu", "neq"}
        /\ code[at].op \notin Effects \/ code[at].op = "call"
    BY <2>1, RemovedBefore
  <2>4. prog.code[at].op = "call" /\ code[at].op = "call"
    BY <2>2, <2>3 DEF Effects
  <2>5. kind[code[at].dest] = "undefined"
    <3>1. ~Unused(code[at])
      BY <2>4 DEF Unused, HasSideEffects
    <3> QED
      BY <1>2, <2>1, <2>2, <3>1, TouchedResult
  <2>6. ReadBefore(prog.code[at].dest)
    <3>1. SUFFICES ASSUME NEW i \in 1..Size, prog.code[i].dest = prog.code[at].dest,
                          prog.code[i].op \notin Effects
                   PROVE  FALSE
      BY <2>3, <2>5 DEF VInv, UndefinedBefore
    <3>2. prog.code[at].dest # None
      BY <2>3, ProgramsAssumption
    <3>3. i = at
      <4>1. i \in 1..Len(prog.code) /\ at \in 1..Len(prog.code) /\ prog.code[i].op # "store"
        BY <2>2, <3>1 DEF Size, Effects
      <4> QED
        BY <1>2, <2>4, <3>1, <3>2, <4>1, ResultsAssumption
    <3> QED
      BY <2>4, <3>1, <3>3 DEF Effects
  <2> QED
    BY <2>2, <2>4, <2>6
<1>6. CASE ComputeUses \/ Pass \/ NextPass \/ NextRound \/ NextFunction \/ UNCHANGED vars
  <2>1. code' = code
    BY <1>6 DEF ComputeUses, Pass, NextPass, NextRound, NextFunction, vars
  <2> QED
    BY <2>1
<1> QED
  BY <1>3, <1>4, <1>5, <1>6 DEF Next

LEMMA VInvInit ==
    ASSUME OperandsAreLocal
    PROVE  Init => VInv
<1> SUFFICES ASSUME Init PROVE VInv
  OBVIOUS
<1>1. DInv /\ OpsStay
  BY GInvInit DEF GInv
<1>2. ASSUME NEW j \in 1..Size
      PROVE  /\ code[j].op = prog.code[j].op /\ code[j].op # "nop"
             /\ Reads(code[j]) = Reads(prog.code[j])
  <2>1. code[j] = [op |-> prog.code[j].op, dest |-> prog.code[j].dest,
                   args |-> prog.code[j].args, value |-> Unknown]
    BY DEF Init
  <2>2. code[j].op = prog.code[j].op /\ code[j].dest = prog.code[j].dest /\ code[j].args = prog.code[j].args
    BY <2>1
  <2>3. prog.code[j].op # "nop"
    BY CodeFacts DEF Init, Chosen
  <2> QED
    BY <2>2, <2>3 DEF Reads, Arguments
<1>3. OldReads /\ OnlyReadCallsVanish
  BY <1>2 DEF OldReads, ReadBefore, OnlyReadCallsVanish, Present
<1>4. UndefinedBefore
  <2>1. \A o \in Operand : kind[o] # "undefined"
    BY ProgramsAssumption DEF Init
  <2> QED
    BY <2>1 DEF UndefinedBefore
<1> QED
  BY <1>1, <1>3, <1>4 DEF VInv

LEMMA VInvStep == VInv /\ [Next]_vars => VInv'
<1> SUFFICES ASSUME VInv, [Next]_vars PROVE VInv'
  OBVIOUS
<1>1. DInv' /\ OpsStay' /\ OldReads'
  BY DInvStep, OpsStayStep, OldReadsStep DEF VInv, DInv
<1>2. UndefinedBefore' /\ OnlyReadCallsVanish'
  BY UndefinedBeforeStep, VanishStep
<1> QED
  BY <1>1, <1>2 DEF VInv

LEMMA VInvHolds ==
    ASSUME OperandsAreLocal
    PROVE  Spec => []VInv
<1>1. Init => VInv
  BY VInvInit
<1> QED
  BY <1>1, VInvStep, PTL DEF Spec

\* Stores, returns, jumps, inline assembly and calls for their effect alone are never
\* removed; the only effects that go are calls whose result was read (opt.c:890).
THEOREM EffectsThatGo ==
    ASSUME OperandsAreLocal
    PROVE  Spec => []OnlyReadCallsVanish
<1>1. VInv => OnlyReadCallsVanish
  BY DEF VInv
<1> QED
  BY <1>1, VInvHolds, PTL

-----------------------------------------------------------------------------
(***************************************************************************)
(* The optimiser keeps what a module does.  The argument compares the code *)
(* at hand with the values that the operands have when the module runs as  *)
(* it was lowered.  Every pass keeps two facts: an instruction that stays  *)
(* takes operands that hold, wherever it runs, what its first ones held;   *)
(* and a folded one has the value it would have computed.  That a source   *)
(* still holds what its copy holds is where the order of the writes comes  *)
(* in: no path writes the source again and then reads the copy without     *)
(* writing the copy too.  So when both run along a path, whatever still    *)
(* has a definition has the same value in both.                            *)
(*                                                                         *)
(* Induction over a path takes the least place at which something fails;   *)
(* that there is one follows from the order of the finite sets 1..n.       *)
(***************************************************************************)

\* Every set of natural numbers has a least element.
LEMMA Least ==
    ASSUME NEW B \in SUBSET Nat, B # {}
    PROVE  \E n \in B : \A m \in B : n <= m
<1> DEFINE Upto == {1..n : n \in B}
<1>1. Upto \subseteq FiniteSubsetsOf(Nat) /\ Upto # {}
  <2>1. \A n \in B : 1..n \subseteq Nat /\ IsFiniteSet(1..n)
    BY FS_Interval
  <2>2. \A n \in B : 1..n \in FiniteSubsetsOf(Nat)
    BY <2>1 DEF FiniteSubsetsOf
  <2> QED
    BY <2>2
<1>2. PICK x \in Upto : \A y \in Upto : <<y, x>> \notin StrictSubsetOrdering(Nat)
  BY ONLY <1>1, FS_StrictSubsetOrderingWellFounded, WFMin
<1>3. PICK n \in B : x = 1..n
  OBVIOUS
<1>4. ASSUME NEW m \in B, m < n PROVE FALSE
  <2>1. 1..m \in Upto
    OBVIOUS
  <2>2. 1..m \subseteq 1..n /\ 1..m # 1..n
    <3>1. n \in 1..n /\ n \notin 1..m
      BY <1>4
    <3> QED
      BY <1>4, <3>1
  <2>3. <<1..m, 1..n>> \in StrictSubsetOrdering(Nat)
    BY <2>2 DEF StrictSubsetOrdering
  <2> QED
    BY <1>2, <1>3, <2>1, <2>3
<1> QED
  BY <1>4

\* A set of places that ends has a last one.
LEMMA Last ==
    ASSUME NEW n \in Nat, NEW B \in SUBSET (1..n), B # {}
    PROVE  \E m \in B : \A l \in B : l <= m
<1> DEFINE C == {n - m : m \in B}
<1>1. \A m \in B : m \in Nat /\ n - m \in Nat
  OBVIOUS
<1>2. C \in SUBSET Nat /\ C # {}
  BY <1>1
<1>3. PICK c \in C : \A d \in C : c <= d
  <2> HIDE DEF C
  <2> QED
    BY <1>2, Least
<1>4. PICK m \in B : c = n - m
  OBVIOUS
<1>5. ASSUME NEW l \in B PROVE l <= m
  <2>1. n - l \in C
    OBVIOUS
  <2>2. n - m <= n - l
    <3> HIDE DEF C
    <3> QED
      BY <1>3, <1>4, <2>1
  <2>3. l \in Nat /\ m \in Nat
    BY <1>1
  <2> QED
    BY <2>2, <2>3
<1> QED
  BY <1>5

-----------------------------------------------------------------------------
\* Values is a function of the places of the path, and each place follows from the
\* one before.
LEMMA ValuesUnfold ==
    ASSUME NEW p, NEW c, NEW q, Len(q) \in Nat
    PROVE  /\ Values(p, c, q)[0] = AtStart
           /\ \A k \in 1..Len(q) :
                 Values(p, c, q)[k] = After(p, c[q[k]], q[k], k, Values(p, c, q)[k - 1])
<1> DEFINE N == Len(q)
           Step(k, e) == After(p, c[q[k]], q[k], k, e)
           Solves(n, f) == f = [k \in 0..n |-> IF k = 0 THEN AtStart ELSE Step(k, f[k - 1])]
           B == {n \in 0..N : ~ \E f : Solves(n, f)}
<1> HIDE DEF Step
<1>1. B = {}
  <2> SUFFICES ASSUME B # {} PROVE FALSE
    OBVIOUS
  <2>1. PICK n \in B : \A m \in B : n <= m
    <3>1. B \in SUBSET Nat
      OBVIOUS
    <3> HIDE DEF B
    <3> QED
      BY <3>1, Least
  <2>2. n # 0
    <3>1. Solves(0, [k \in 0..0 |-> AtStart])
      OBVIOUS
    <3> HIDE DEF Solves
    <3> QED
      BY <3>1
  <2>3. n \in 0..N /\ n - 1 \in 0..N /\ n - 1 \notin B
    BY <2>1, <2>2
  <2>4. PICK f : Solves(n - 1, f)
    <3> HIDE DEF Solves
    <3> QED
      BY <2>3
  <2> DEFINE g == [k \in 0..n |-> IF k = n THEN Step(n, f[n - 1]) ELSE f[k]]
  <2>5. Solves(n, g)
    <3>1. ASSUME NEW k \in 0..n
          PROVE  g[k] = IF k = 0 THEN AtStart ELSE Step(k, g[k - 1])
      <4>1. CASE k = n
        BY <2>2, <2>3, <4>1
      <4>2. CASE k # n
        <5>1. k \in 0..(n - 1) /\ (k # 0 => k - 1 \in 0..n /\ k - 1 # n)
          BY <2>3, <4>2
        <5>2. g[k] = f[k] /\ (k # 0 => g[k - 1] = f[k - 1])
          BY <4>2, <5>1
        <5>3. f[k] = IF k = 0 THEN AtStart ELSE Step(k, f[k - 1])
          BY <2>4, <5>1
        <5> QED
          BY <5>2, <5>3
      <4> QED
        BY <4>1, <4>2
    <3>2. g = [k \in 0..n |-> g[k]]
      OBVIOUS
    <3> HIDE DEF g
    <3> QED
      BY <3>1, <3>2
  <2> HIDE DEF Solves, g
  <2> QED
    BY <2>1, <2>5
<1>2. \E f : Solves(N, f)
  <2>1. N \in 0..N /\ N \notin B
    BY <1>1
  <2> HIDE DEF Solves
  <2> QED
    BY <2>1
<1>3. Values(p, c, q) = CHOOSE f : Solves(N, f)
  BY DEF Values, Step
<1>4. Solves(N, Values(p, c, q))
  <2> HIDE DEF Solves
  <2> QED
    BY <1>2, <1>3
<1>5. \A k \in 1..N : k \in 0..N /\ k # 0
  OBVIOUS
<1> QED
  BY <1>4, <1>5 DEF Step

-----------------------------------------------------------------------------
\* What instruction j of a module may have become.
Became(p, i, j) ==
    /\ p.code[j].op # "store" => i.dest = p.code[j].dest
    /\ \/ i.op = p.code[j].op
       \/ i.op = "nop"
       \/ i.op = "mov" /\ p.code[j].op = "alu"

\* What the code of a module is.
LEMMA ModuleFacts ==
    ASSUME NEW p \in Programs, NEW j \in 1..Len(p.code)
    PROVE  /\ p.code[j].op \in Operations \ {"nop"}
           /\ p.code[j].dest \in Operand \cup {None}
           /\ p.code[j].args \in Seq(Operand)
           /\ p.code[j].op \in {"jmp", "ret", "br", "asm"} => p.code[j].dest = None
           /\ p.code[j].op \in {"mov", "alu", "load", "store"} => p.code[j].dest # None
           /\ p.code[j].op = "mov" => Len(p.code[j].args) = 1
           /\ p.code[j].op = "asm" => p.code[j].args = << >>
           /\ p.code[j].op = "jmp" => p.code[j].params \in [DOMAIN p.code[j].args -> Operand]
  BY ProgramsAssumption

\* What an instruction writes, whatever kind it is.
LEMMA WritesFacts ==
    ASSUME NEW p \in Programs, NEW j \in 1..Len(p.code)
    PROVE  /\ p.code[j].op = "jmp" =>
                  Writes(p, j) = {p.code[j].params[a] : a \in DOMAIN p.code[j].params}
           /\ p.code[j].op \in {"alloca", "store"} => Writes(p, j) = {}
           /\ p.code[j].op \notin {"alloca", "store", "jmp"} => Writes(p, j) = {p.code[j].dest} \ {None}
           /\ Writes(p, j) \subseteq Operand
<1>1. /\ p.code[j].op = "jmp" =>
             Writes(p, j) = {p.code[j].params[a] : a \in DOMAIN p.code[j].params}
      /\ p.code[j].op \in {"alloca", "store"} => Writes(p, j) = {}
      /\ p.code[j].op \notin {"alloca", "store", "jmp"} => Writes(p, j) = {p.code[j].dest} \ {None}
  BY DEF Writes
<1>2. p.code[j].op = "jmp" => \A a \in DOMAIN p.code[j].params : p.code[j].params[a] \in Operand
  BY ModuleFacts
<1>3. p.code[j].dest \in Operand \cup {None}
  BY ModuleFacts
<1> QED
  BY <1>1, <1>2, <1>3

\* The result of an instruction is a vreg that nothing else writes.
LEMMA OnlyWriter ==
    ASSUME NEW p \in Programs, NEW j \in 1..Len(p.code),
           p.code[j].op \notin {"store", "alloca"}, p.code[j].dest # None
    PROVE  /\ p.code[j].dest \in Operand
           /\ p.kind[p.code[j].dest] = "vreg"
           /\ p.code[j].op # "jmp"
           /\ Writes(p, j) = {p.code[j].dest}
           /\ \A i \in 1..Len(p.code) : p.code[j].dest \in Writes(p, i) => i = j
<1>1. p.code[j].dest \in Operand /\ p.code[j].op # "jmp"
  BY ModuleFacts
<1>2. Writes(p, j) = {p.code[j].dest}
  BY <1>1, WritesFacts
<1>3. ASSUME NEW i \in 1..Len(p.code), p.code[j].dest \in Writes(p, i)
      PROVE  i = j
  <2>1. CASE p.code[i].op = "jmp"
    <3>1. PICK a \in DOMAIN p.code[i].params : p.code[j].dest = p.code[i].params[a]
      BY <1>3, <2>1, WritesFacts
    <3> QED
      BY <2>1, <3>1, ParametersAssumption
  <2>2. CASE p.code[i].op # "jmp"
    <3>1. p.code[i].op # "store" /\ p.code[i].dest = p.code[j].dest
      BY <1>3, <2>2, WritesFacts
    <3> QED
      BY <3>1, ResultsAssumption
  <2> QED
    BY <2>1, <2>2
<1> QED
  BY <1>1, <1>2, <1>3, ResultsAssumption

\* Only vregs are written.
LEMMA WritesAreVregs ==
    ASSUME NEW p \in Programs, NEW j \in 1..Len(p.code), NEW o \in Writes(p, j)
    PROVE  p.kind[o] = "vreg"
<1>1. CASE p.code[j].op = "jmp"
  BY <1>1, WritesFacts, ParametersAssumption
<1>2. CASE p.code[j].op # "jmp"
  <2>1. p.code[j].op \notin {"store", "alloca"} /\ o = p.code[j].dest /\ o # None
    BY <1>2, WritesFacts
  <2> QED
    BY <2>1, OnlyWriter
<1> QED
  BY <1>1, <1>2

-----------------------------------------------------------------------------
\* What an instruction does not write keeps its value.
LEMMA AfterKeeps ==
    ASSUME NEW p \in Programs, NEW j \in 1..Len(p.code), NEW i, Became(p, i, j),
           NEW k, NEW env, NEW o \in Operand, o \notin Writes(p, j)
    PROVE  After(p, i, j, k, env)[o] = env[o]
<1> DEFINE passed == {a \in DOMAIN p.code[j].params : p.code[j].params[a] = o}
<1>1. After(p, i, j, k, env)[o] =
          IF i.op = "jmp" /\ passed # {} THEN env[i.args[CHOOSE a \in passed : TRUE]]
          ELSE IF i.op \notin {"nop", "alloca", "store"} /\ o = i.dest
          THEN Result(i, j, k, Taken(i, env))
          ELSE env[o]
  BY DEF After
<1>2. ~(i.op = "jmp" /\ passed # {})
  <2> SUFFICES ASSUME i.op = "jmp", passed # {} PROVE FALSE
    OBVIOUS
  <2>1. p.code[j].op = "jmp"
    BY DEF Became
  <2>2. PICK a \in DOMAIN p.code[j].params : p.code[j].params[a] = o
    OBVIOUS
  <2> QED
    BY <2>1, <2>2, WritesFacts
<1>3. ~(i.op \notin {"nop", "alloca", "store"} /\ o = i.dest)
  <2> SUFFICES ASSUME i.op \notin {"nop", "alloca", "store"}, o = i.dest PROVE FALSE
    OBVIOUS
  <2>1. p.code[j].op \notin {"alloca", "store"} /\ i.dest = p.code[j].dest
    BY DEF Became
  <2>2. o # None
    BY ProgramsAssumption
  <2> QED
    BY <2>1, <2>2, OnlyWriter
<1> HIDE DEF passed
<1> QED
  BY <1>1, <1>2, <1>3

\* A result is what the instruction makes of its arguments.
LEMMA AfterWrites ==
    ASSUME NEW p \in Programs, NEW j \in 1..Len(p.code), NEW i, Became(p, i, j),
           NEW k, NEW env, NEW o \in Writes(p, j), p.code[j].op # "jmp", i.op # "nop"
    PROVE  After(p, i, j, k, env)[o] = Result(i, j, k, Taken(i, env))
<1> DEFINE passed == {a \in DOMAIN p.code[j].params : p.code[j].params[a] = o}
<1>1. o \in Operand /\ p.code[j].op \notin {"alloca", "store"} /\ o = p.code[j].dest
  BY WritesFacts
<1>2. After(p, i, j, k, env)[o] =
          IF i.op = "jmp" /\ passed # {} THEN env[i.args[CHOOSE a \in passed : TRUE]]
          ELSE IF i.op \notin {"nop", "alloca", "store"} /\ o = i.dest
          THEN Result(i, j, k, Taken(i, env))
          ELSE env[o]
  BY <1>1 DEF After
<1>3. i.op \notin {"jmp", "nop", "alloca", "store"} /\ i.dest = o
  BY <1>1 DEF Became
<1> HIDE DEF passed
<1> QED
  BY <1>2, <1>3

\* A parameter is the argument of the jump.
LEMMA AfterPasses ==
    ASSUME NEW p \in Programs, NEW j \in 1..Len(p.code), NEW i, p.code[j].op = "jmp", i.op = "jmp",
           NEW k, NEW env, NEW a \in DOMAIN p.code[j].params
    PROVE  After(p, i, j, k, env)[p.code[j].params[a]] = env[i.args[a]]
<1> DEFINE o == p.code[j].params[a]
           passed == {b \in DOMAIN p.code[j].params : p.code[j].params[b] = o}
<1>1. o \in Operand
  BY WritesFacts
<1>2. After(p, i, j, k, env)[o] =
          IF i.op = "jmp" /\ passed # {} THEN env[i.args[CHOOSE b \in passed : TRUE]]
          ELSE IF i.op \notin {"nop", "alloca", "store"} /\ o = i.dest
          THEN Result(i, j, k, Taken(i, env))
          ELSE env[o]
  BY <1>1 DEF After
<1>3. \A b \in passed : b = a
  BY ParametersAssumption
<1>4. a \in passed
  OBVIOUS
<1>5. (CHOOSE b \in passed : TRUE) = a
  <2> HIDE DEF passed
  <2> QED
    BY <1>3, <1>4
<1> HIDE DEF passed
<1> QED
  BY <1>2, <1>4, <1>5

-----------------------------------------------------------------------------
\* The values along a path of the module as it was lowered.
Before(p, q) == Values(p, p.code, q)

\* A path is a sequence of instructions.
LEMMA PathFacts ==
    ASSUME NEW p \in Programs, NEW q \in p.paths
    PROVE  /\ Len(q) \in Nat /\ q \in Seq(1..Len(p.code)) /\ DOMAIN q = 1..Len(q)
           /\ \A k \in 1..Len(q) : q[k] \in 1..Len(p.code)
<1>1. q \in Seq(1..Len(p.code))
  BY PathsAssumption
<1> QED
  BY <1>1, LenProperties, ElementOfSeq

\* The values before a path and after each of its places.
LEMMA BeforeFacts ==
    ASSUME NEW p \in Programs, NEW q \in p.paths
    PROVE  /\ \A o \in Operand : Before(p, q)[0][o] = <<o, << >>, 0>>
           /\ \A k \in 1..Len(q) :
                 Before(p, q)[k] = After(p, p.code[q[k]], q[k], k, Before(p, q)[k - 1])
<1>1. Len(q) \in Nat
  BY PathFacts
<1>2. Values(p, p.code, q)[0] = AtStart
  BY <1>1, ValuesUnfold
<1>3. \A k \in 1..Len(q) :
         Values(p, p.code, q)[k] = After(p, p.code[q[k]], q[k], k, Values(p, p.code, q)[k - 1])
  <2> DEFINE c == p.code
  <2>1. \A k \in 1..Len(q) : Values(p, c, q)[k] = After(p, c[q[k]], q[k], k, Values(p, c, q)[k - 1])
    <3> HIDE DEF c
    <3> QED
      BY <1>1, ValuesUnfold
  <2> QED
    BY <2>1
<1>4. \A o \in Operand : AtStart[o] = <<o, << >>, 0>>
  BY DEF AtStart
<1> QED
  BY <1>2, <1>3, <1>4 DEF Before

\* An operand keeps its value as long as nothing writes it.
LEMMA ValueKept ==
    ASSUME NEW p \in Programs, NEW q \in p.paths, NEW o \in Operand,
           NEW w \in 0..Len(q), NEW k \in w..Len(q),
           \A l \in (w + 1)..k : o \notin Writes(p, q[l])
    PROVE  Before(p, q)[k][o] = Before(p, q)[w][o]
<1> DEFINE V(m) == Before(p, q)[m][o]
           B == {m \in w..k : V(m) # V(w)}
<1>1. Len(q) \in Nat /\ \A m \in 1..Len(q) : q[m] \in 1..Len(p.code)
  BY PathFacts
<1>2. B = {}
  <2> SUFFICES ASSUME B # {} PROVE FALSE
    OBVIOUS
  <2>1. PICK m \in B : \A l \in B : m <= l
    <3>1. B \in SUBSET Nat
      BY <1>1
    <3> HIDE DEF B
    <3> QED
      BY <3>1, Least
  <2>2. m \in w..k /\ m # w
    OBVIOUS
  <2>3. m \in (w + 1)..k /\ m - 1 \in w..k /\ m \in 1..Len(q) /\ ~(m <= m - 1)
    BY <1>1, <2>2
  <2>4. V(m - 1) = V(w)
    BY <2>1, <2>3
  <2>5. V(m) = V(m - 1)
    <3>1. o \notin Writes(p, q[m]) /\ q[m] \in 1..Len(p.code)
      BY <1>1, <2>3
    <3>2. Became(p, p.code[q[m]], q[m])
      BY DEF Became
    <3>3. Before(p, q)[m] = After(p, p.code[q[m]], q[m], m, Before(p, q)[m - 1])
      BY <2>3, BeforeFacts
    <3> QED
      BY <3>1, <3>2, <3>3, AfterKeeps
  <2>6. V(m) # V(w)
    OBVIOUS
  <2> QED
    BY <2>4, <2>5, <2>6
<1>3. k \in w..k
  BY <1>1
<1> QED
  BY <1>2, <1>3

\* An operand that nothing writes holds itself.
LEMMA UnwrittenValue ==
    ASSUME NEW p \in Programs, NEW q \in p.paths, NEW o \in Operand, NEW k \in 0..Len(q),
           \A j \in 1..Len(p.code) : o \notin Writes(p, j)
    PROVE  Before(p, q)[k][o] = <<o, << >>, 0>>
<1>1. Len(q) \in Nat /\ \A m \in 1..Len(q) : q[m] \in 1..Len(p.code)
  BY PathFacts
<1>2. 0 \in 0..Len(q) /\ k \in 0..Len(q) /\ \A l \in (0 + 1)..k : l \in 1..Len(q)
  BY <1>1
<1>3. \A l \in (0 + 1)..k : o \notin Writes(p, q[l])
  BY <1>1, <1>2
<1>4. Before(p, q)[k][o] = Before(p, q)[0][o]
  BY <1>2, <1>3, ValueKept
<1> QED
  BY <1>4, BeforeFacts

\* After the last place that writes an operand comes no other.
LEMMA LastWrite ==
    ASSUME NEW p \in Programs, NEW q \in p.paths, NEW k \in 1..Len(q), NEW o \in Operand,
           \E l \in 1..(k - 1) : o \in Writes(p, q[l])
    PROVE  \E l \in 1..(k - 1) :
              /\ o \in Writes(p, q[l])
              /\ \A m \in (l + 1)..(k - 1) : o \notin Writes(p, q[m])
              /\ Before(p, q)[k - 1][o] = Before(p, q)[l][o]
<1> DEFINE B == {l \in 1..(k - 1) : o \in Writes(p, q[l])}
<1>1. Len(q) \in Nat /\ k - 1 \in Nat /\ k - 1 \in 0..Len(q)
  BY PathFacts
<1>2. PICK l \in B : \A m \in B : m <= l
  <2>1. B \in SUBSET (1..(k - 1)) /\ B # {}
    OBVIOUS
  <2> HIDE DEF B
  <2> QED
    BY <1>1, <2>1, Last
<1>3. l \in 1..(k - 1) /\ o \in Writes(p, q[l])
  OBVIOUS
<1>4. \A m \in (l + 1)..(k - 1) : m \in 1..(k - 1) /\ ~(m <= l)
  BY <1>1, <1>3
<1>5. \A m \in (l + 1)..(k - 1) : o \notin Writes(p, q[m])
  BY <1>2, <1>4
<1>6. l \in 0..Len(q) /\ k - 1 \in l..Len(q)
  BY <1>1, <1>3
<1>7. Before(p, q)[k - 1][o] = Before(p, q)[l][o]
  <2> DEFINE end == k - 1
  <2>1. /\ l \in 0..Len(q) /\ end \in l..Len(q)
        /\ \A m \in (l + 1)..end : o \notin Writes(p, q[m])
    BY <1>5, <1>6
  <2>2. Before(p, q)[end][o] = Before(p, q)[l][o]
    <3> HIDE DEF end, B
    <3> QED
      BY <2>1, ValueKept
  <2> QED
    BY <2>2
<1> WITNESS l \in 1..(k - 1)
<1> HIDE DEF B
<1> QED
  BY <1>3, <1>5, <1>7

-----------------------------------------------------------------------------
\* Wherever instruction j runs, operand o was written before, if it ever is.
WrittenBefore(p, o, j) ==
    \/ \A i \in 1..Len(p.code) : o \notin Writes(p, i)
    \/ \A q \in p.paths : \A k \in 1..Len(q) :
          q[k] = j => \E l \in 1..(k - 1) : o \in Writes(p, q[l])

\* The n-th place of r is the k-th of q, without what comes after v up to w.
CutShort(r, n, q, v, w, k) ==
    /\ r[n] = q[k]
    /\ \A l \in 1..(n - 1) : \E m \in (1..v) \cup ((w + 1)..(k - 1)) : r[l] = q[m]

\* Between two writes of an operand a path can be cut short.
LEMMA Shortcut ==
    ASSUME NEW p \in Programs, NEW q \in p.paths, NEW w \in 1..Len(q), NEW v \in 1..w,
           Writes(p, q[v]) \cap Writes(p, q[w]) # {}, NEW k \in (w + 1)..Len(q)
    PROVE  \E r \in p.paths : \E n \in 1..Len(r) : CutShort(r, n, q, v, w, k)
<1> DEFINE S == 1..Len(p.code)
           a == SubSeq(q, 1, v)
           b == SubSeq(q, w + 1, Len(q))
           r == a \o b
           n == v + (k - w)
<1>1. q \in Seq(S) /\ Len(q) \in Nat /\ v \in 1..Len(q) /\ w + 1 \in 1..Len(q)
  BY PathFacts
<1>2. /\ a \in Seq(S) /\ Len(a) = v /\ \A l \in 1..v : a[l] = q[l]
      /\ b \in Seq(S) /\ Len(b) = Len(q) - w /\ \A l \in 1..(Len(q) - w) : b[l] = q[w + l]
  <2>1. /\ v \in Int /\ w + 1 \in Int /\ Len(q) \in Int /\ 1 <= v /\ w + 1 <= Len(q)
        /\ v - 1 + 1 = v /\ Len(q) - (w + 1) + 1 = Len(q) - w
    BY <1>1
  <2>2. (\A l \in 1..v : q[l] \in S) /\ \A l \in (w + 1)..Len(q) : q[l] \in S
    <3>1. \A l \in 1..Len(q) : q[l] \in S
      BY PathFacts
    <3> QED
      BY <1>1, <3>1
  <2>3. a \in Seq(S) /\ Len(a) = v /\ \A l \in 1..v : a[l] = q[l]
    <3>1. /\ a \in Seq(S) /\ Len(a) = v - 1 + 1
          /\ \A l \in 1..(v - 1 + 1) : a[l] = q[1 + l - 1]
      BY <2>1, <2>2, SubSeqProperties
    <3>2. \A l \in 1..v : 1 + l - 1 = l
      OBVIOUS
    <3> HIDE DEF a
    <3> QED
      BY <2>1, <3>1, <3>2
  <2>4. b \in Seq(S) /\ Len(b) = Len(q) - w /\ \A l \in 1..(Len(q) - w) : b[l] = q[w + l]
    <3>1. /\ b \in Seq(S) /\ Len(b) = Len(q) - (w + 1) + 1
          /\ \A l \in 1..(Len(q) - (w + 1) + 1) : b[l] = q[(w + 1) + l - 1]
      BY <2>1, <2>2, SubSeqProperties
    <3>2. \A l \in 1..(Len(q) - w) : (w + 1) + l - 1 = w + l
      OBVIOUS
    <3> HIDE DEF b
    <3> QED
      BY <2>1, <3>1, <3>2
  <2> QED
    BY <2>3, <2>4
<1>3. r \in p.paths
  BY PathsAssumption
<1>4. /\ Len(r) = v + (Len(q) - w)
      /\ \A l \in 1..(v + (Len(q) - w)) : r[l] = IF l <= v THEN q[l] ELSE q[w + (l - v)]
  <2> HIDE DEF a, b, S
  <2>1. /\ Len(r) = Len(a) + Len(b)
        /\ \A l \in 1..(Len(a) + Len(b)) : r[l] = IF l <= Len(a) THEN a[l] ELSE b[l - Len(a)]
    BY <1>2, ConcatProperties
  <2> HIDE DEF r
  <2>2. ASSUME NEW l \in 1..(v + (Len(q) - w))
        PROVE  r[l] = IF l <= v THEN q[l] ELSE q[w + (l - v)]
    <3>1. l <= v => l \in 1..v
      OBVIOUS
    <3>2. ~(l <= v) => l - v \in 1..(Len(q) - w)
      BY <1>1
    <3> QED
      BY <1>2, <2>1, <3>1, <3>2
  <2> QED
    BY <1>2, <2>1, <2>2
<1> HIDE DEF r
<1>5. n \in 1..Len(r) /\ r[n] = q[k]
  <2>1. n \in 1..(v + (Len(q) - w)) /\ ~(n <= v) /\ w + (n - v) = k
    BY <1>1
  <2> QED
    BY <1>4, <2>1
<1>6. ASSUME NEW l \in 1..(n - 1)
      PROVE  \E m \in (1..v) \cup ((w + 1)..(k - 1)) : r[l] = q[m]
  <2>1. l \in 1..(v + (Len(q) - w))
    BY <1>1
  <2>2. CASE l <= v
    BY <1>4, <2>1, <2>2
  <2>3. CASE ~(l <= v)
    <3>1. w + (l - v) \in (w + 1)..(k - 1)
      BY <1>1, <2>3
    <3> QED
      BY <1>4, <2>1, <2>3, <3>1
  <2> QED
    BY <2>2, <2>3
<1>7. CutShort(r, n, q, v, w, k)
  BY <1>5, <1>6 DEF CutShort
<1> HIDE DEF n
<1> QED
  BY <1>3, <1>5, <1>7

\* What moves its source into an operand: between it and whoever reads the operand
\* nothing writes the source, for the shorter path would lack the move.
LEMMA SourceStays ==
    ASSUME NEW p \in Programs, NEW a \in 1..Len(p.code), p.code[a].op = "mov",
           NEW j, NEW source \in Operand,
           WrittenBefore(p, source, a), WrittenBefore(p, p.code[a].dest, j),
           NEW q \in p.paths, NEW k \in 1..Len(q), q[k] = j, NEW l \in 1..(k - 1), q[l] = a,
           \A m \in (l + 1)..(k - 1) : p.code[a].dest \notin Writes(p, q[m])
    PROVE  \A w \in (l + 1)..(k - 1) : source \notin Writes(p, q[w])
<1> DEFINE copy == p.code[a].dest
<1>1. /\ Len(q) \in Nat /\ \A m \in 1..Len(q) : q[m] \in 1..Len(p.code)
      /\ copy \in Writes(p, a) /\ \A i \in 1..Len(p.code) : copy \in Writes(p, i) => i = a
  <2>1. Len(q) \in Nat /\ \A m \in 1..Len(q) : q[m] \in 1..Len(p.code)
    BY PathFacts
  <2>2. copy # None
    BY ModuleFacts
  <2>3. copy \in Writes(p, a) /\ \A i \in 1..Len(p.code) : copy \in Writes(p, i) => i = a
    BY <2>2, OnlyWriter
  <2> QED
    BY <2>1, <2>3
<1> SUFFICES ASSUME NEW w \in (l + 1)..(k - 1), source \in Writes(p, q[w]) PROVE FALSE
  OBVIOUS
<1>2. w \in 1..Len(q) /\ l \in 1..Len(q) /\ k \in (w + 1)..Len(q)
  BY <1>1
<1> DEFINE B == {m \in 1..l : q[m] = a}
<1>3. PICK first \in B : \A m \in B : first <= m
  <2>1. B \in SUBSET Nat /\ l \in B
    BY <1>2
  <2> HIDE DEF B
  <2> QED
    BY <2>1, Least
<1>4. first \in 1..l /\ first \in 1..Len(q) /\ q[first] = a
  BY <1>2
<1>5. PICK v \in 1..(first - 1) : source \in Writes(p, q[v])
  BY <1>1, <1>2, <1>4 DEF WrittenBefore
<1>6. v \in 1..w /\ Writes(p, q[v]) \cap Writes(p, q[w]) # {}
  BY <1>2, <1>4, <1>5
<1>7. PICK r \in p.paths : \E n \in 1..Len(r) : CutShort(r, n, q, v, w, k)
  <2> HIDE DEF B, copy
  <2> QED
    BY <1>2, <1>6, Shortcut
<1>8. PICK n \in 1..Len(r) :
         /\ r[n] = q[k]
         /\ \A x \in 1..(n - 1) : \E m \in (1..v) \cup ((w + 1)..(k - 1)) : r[x] = q[m]
  BY <1>7 DEF CutShort
<1>9. PICK x \in 1..(n - 1) : copy \in Writes(p, r[x])
  BY <1>1, <1>8 DEF WrittenBefore
<1>10. PICK m \in (1..v) \cup ((w + 1)..(k - 1)) : r[x] = q[m]
  BY <1>8, <1>9
<1>11. m \in 1..Len(q) /\ q[m] = a
  <2>1. m \in 1..Len(q)
    BY <1>2, <1>4, <1>10
  <2> QED
    BY <1>1, <1>9, <1>10, <2>1
<1>12. CASE m \in 1..v
  <2>1. m \in 1..l /\ ~(first <= m)
    BY <1>2, <1>4, <1>12
  <2>2. m \in B
    BY <1>11, <2>1
  <2> HIDE DEF B
  <2> QED
    BY <1>3, <2>1, <2>2
<1>13. CASE m \in (w + 1)..(k - 1)
  <2>1. m \in (l + 1)..(k - 1)
    BY <1>2, <1>13
  <2> QED
    BY <1>1, <1>11, <2>1
<1> QED
  BY <1>10, <1>12, <1>13

\* A source still holds what its copy holds wherever the copy is read.
LEMMA CopyHolds ==
    ASSUME NEW p \in Programs, NEW a \in 1..Len(p.code), p.code[a].op = "mov",
           NEW j, NEW source \in Operand, source # p.code[a].dest,
           WrittenBefore(p, source, a), WrittenBefore(p, p.code[a].dest, j),
           \A q \in p.paths : \A l \in 1..Len(q) : q[l] = a =>
              Before(p, q)[l - 1][p.code[a].args[1]] = Before(p, q)[l - 1][source],
           NEW q \in p.paths, NEW k \in 1..Len(q), q[k] = j
    PROVE  Before(p, q)[k - 1][p.code[a].dest] = Before(p, q)[k - 1][source]
<1> DEFINE copy == p.code[a].dest
           i == p.code[a]
           V(m, o) == Before(p, q)[m][o]
<1>1. /\ Len(q) \in Nat /\ \A m \in 1..Len(q) : q[m] \in 1..Len(p.code)
      /\ copy \in Operand /\ Writes(p, a) = {copy}
      /\ \A m \in 1..Len(p.code) : copy \in Writes(p, m) => m = a
      /\ i.args \in Seq(Operand) /\ Len(i.args) = 1
  BY PathFacts, OnlyWriter, ModuleFacts
<1>2. \E l \in 1..(k - 1) : copy \in Writes(p, q[l])
  BY <1>1 DEF WrittenBefore
<1>3. PICK l \in 1..(k - 1) :
         /\ copy \in Writes(p, q[l])
         /\ \A m \in (l + 1)..(k - 1) : copy \notin Writes(p, q[m])
         /\ V(k - 1, copy) = V(l, copy)
  BY <1>1, <1>2, LastWrite
<1>4. l \in 1..Len(q) /\ q[l] = a /\ l \in 0..Len(q) /\ k - 1 \in l..Len(q)
  BY <1>1, <1>3
<1>5. \A w \in (l + 1)..(k - 1) : source \notin Writes(p, q[w])
  BY <1>3, <1>4, SourceStays
<1>6. V(k - 1, source) = V(l, source)
  <2> DEFINE end == k - 1
  <2>1. end \in l..Len(q) /\ \A m \in (l + 1)..end : source \notin Writes(p, q[m])
    BY <1>4, <1>5
  <2>2. V(end, source) = V(l, source)
    <3> HIDE DEF end
    <3> QED
      BY <1>4, <2>1, ValueKept
  <2> QED
    BY <2>2
<1>7. /\ V(l, copy) = Result(i, a, l, Taken(i, Before(p, q)[l - 1]))
      /\ V(l, source) = V(l - 1, source)
  <2>1. Before(p, q)[l] = After(p, i, a, l, Before(p, q)[l - 1])
    BY <1>4, BeforeFacts
  <2>2. Became(p, i, a) /\ i.op # "jmp" /\ i.op # "nop"
    BY DEF Became
  <2>3. copy \in Writes(p, a) /\ source \notin Writes(p, a)
    BY <1>1
  <2> HIDE DEF i
  <2>4. After(p, i, a, l, Before(p, q)[l - 1])[source] = Before(p, q)[l - 1][source]
    BY <2>2, <2>3, AfterKeeps
  <2>5. After(p, i, a, l, Before(p, q)[l - 1])[copy] = Result(i, a, l, Taken(i, Before(p, q)[l - 1]))
    BY <2>2, <2>3, AfterWrites DEF i
  <2> QED
    BY <2>1, <2>4, <2>5
<1>8. Result(i, a, l, Taken(i, Before(p, q)[l - 1])) = V(l - 1, i.args[1])
  <2>1. i.args # << >> /\ 1 \in DOMAIN i.args
    <3> HIDE DEF i
    <3>1. DOMAIN i.args = 1..Len(i.args)
      BY <1>1, ArgumentFacts
    <3>2. 1 \in DOMAIN i.args
      BY <1>1, <3>1
    <3> QED
      BY <3>2
  <2>2. Taken(i, Before(p, q)[l - 1])[1] = Before(p, q)[l - 1][i.args[1]]
    BY <2>1 DEF Taken
  <2> QED
    BY <2>1, <2>2 DEF Result
<1> QED
  BY <1>3, <1>4, <1>6, <1>7, <1>8

-----------------------------------------------------------------------------
\* Whatever is read was written before.
ReadsAreWritten == \A j \in 1..Size : \A o \in Reads(code[j]) : WrittenBefore(prog, o, j)

\* On the values of the module as it was lowered, an instruction that stays hands on
\* what it always did.
SameReads ==
    \A q \in prog.paths : \A k \in 1..Len(q) :
        code[q[k]].op = prog.code[q[k]].op =>
            Handed(code[q[k]], Before(prog, q)[k - 1]) = Handed(prog.code[q[k]], Before(prog, q)[k - 1])

\* A folded instruction has the value that it would compute.
FoldedRight ==
    \A j \in 1..Size : code[j].op = "mov" /\ prog.code[j].op # "mov" =>
        /\ prog.code[j].op = "alu" /\ code[j].args = << >>
        /\ \A q \in prog.paths : \A k \in 1..Len(q) : q[k] = j =>
              code[j].value = <<"pure", Taken(prog.code[j], Before(prog, q)[k - 1]), j>>

\* A constant is an immediate or a text, or moved from an immediate, or folded, as
\* long as it is there.
Settles(j) ==
    code[j].op # "nop" =>
        /\ code[j].op = "mov"
        /\ code[j].args = << >> \/ prog.kind[code[j].args[1]] = "imm"

ConstantsRight ==
    \A o \in const :
        \/ o \in Operand /\ prog.kind[o] \in {"imm", "text"}
        \/ \E j \in 1..Size :
              prog.code[j].op \notin {"store", "alloca"} /\ prog.code[j].dest = o /\ Settles(j)

\* No instruction comes to read a text that it did not read.
NoNewTexts ==
    \A j \in 1..Size : \A o \in Reads(code[j]) :
        prog.kind[o] = "text" => o \in Reads(prog.code[j])

MInv ==
    /\ VInv /\ KindsStay /\ ReadsAreWritten /\ SameReads
    /\ FoldedRight /\ ConstantsRight /\ NoNewTexts

-----------------------------------------------------------------------------
\* What an instruction hands on depends on what it reads.
LEMMA HandedReads ==
    ASSUME NEW i, i.op \notin {"alloca", "asm", "nop"}, NEW env, NEW other,
           \A o \in Reads(i) : env[o] = other[o]
    PROVE  Taken(i, env) = Taken(i, other) /\ Handed(i, env) = Handed(i, other)
<1>1. \A a \in DOMAIN i.args : env[i.args[a]] = other[i.args[a]]
  BY DEF Reads, Arguments
<1>2. Taken(i, env) = Taken(i, other)
  BY <1>1 DEF Taken
<1>3. i.op = "store" => env[i.dest] = other[i.dest]
  BY DEF Reads
<1> QED
  BY <1>2, <1>3 DEF Handed

\* What an instruction takes is part of what it hands on.
LEMMA TakenHanded ==
    ASSUME NEW i, NEW j, NEW env, Handed(i, env) = Handed(j, env)
    PROVE  Taken(i, env) = Taken(j, env)
  BY DEF Handed

LEMMA TakenFacts ==
    ASSUME NEW i, NEW env
    PROVE  /\ DOMAIN Taken(i, env) = DOMAIN i.args
           /\ \A a \in DOMAIN i.args : Taken(i, env)[a] = env[i.args[a]]
  BY DEF Taken

\* Replacing an operand by one of the same value changes nothing.
LEMMA ReplacedHanded ==
    ASSUME NEW i, i = [op |-> i.op, dest |-> i.dest, args |-> i.args, value |-> i.value],
           i.args \in Seq(Operand), i.dest \in Operand \cup {None},
           NEW old \in Operand, NEW new \in Operand, old # new,
           NEW env, old \in Reads(i) => env[old] = env[new]
    PROVE  Handed(Replaced(i, old, new), env) = Handed(i, env)
<1> DEFINE args == [k \in DOMAIN i.args |-> IF i.args[k] = old THEN new ELSE i.args[k]]
           dest == IF i.op = "store" /\ i.dest = old THEN new ELSE i.dest
           r == Replaced(i, old, new)
<1>1. CASE i.op \in {"alloca", "nop", "asm"}
  BY <1>1 DEF Replaced
<1>2. CASE i.op \notin {"alloca", "nop", "asm"}
  <2>1. r = [i EXCEPT !.args = args, !.dest = dest]
    BY <1>2 DEF Replaced
  <2>2. r = [op |-> i.op, dest |-> dest, args |-> args, value |-> i.value]
    <3> HIDE DEF r, args, dest
    <3> QED
      BY <2>1
  <2>3. r.op = i.op /\ r.args = args /\ r.dest = dest
    <3> HIDE DEF r, args, dest
    <3> QED
      BY <2>2
  <2>4. DOMAIN args = DOMAIN i.args
        /\ \A k \in DOMAIN i.args : args[k] = IF i.args[k] = old THEN new ELSE i.args[k]
    OBVIOUS
  <2>5. i.op = "store" => env[dest] = env[i.dest]
    BY DEF Reads
  <2> HIDE DEF r, args, dest
  <2>6. \A k \in DOMAIN i.args : i.args[k] = old => env[old] = env[new]
    BY <1>2 DEF Reads, Arguments
  <2>7. \A k \in DOMAIN i.args : env[args[k]] = env[i.args[k]]
    BY <2>4, <2>6
  <2>8. Taken(r, env) = Taken(i, env)
    <3>1. Taken(r, env) = [a \in DOMAIN args |-> env[args[a]]]
      BY <2>3 DEF Taken
    <3> QED
      BY <2>4, <2>7, <3>1 DEF Taken
  <2>9. Handed(r, env) = Handed(i, env)
    BY <2>3, <2>5, <2>8 DEF Handed
  <2> QED
    BY <2>9 DEF r
<1> QED
  BY <1>1, <1>2

-----------------------------------------------------------------------------
\* The parts of MInv that speak of the code, and what they say of one instruction.
LEMMA MInvFacts ==
    ASSUME MInv
    PROVE  /\ IInv /\ prog \in Programs /\ Size = Len(prog.code)
           /\ \A j \in 1..Size :
                 /\ code[j] = [op |-> code[j].op, dest |-> code[j].dest,
                               args |-> code[j].args, value |-> code[j].value]
                 /\ code[j].args \in Seq(Operand)
                 /\ code[j].dest \in Operand \cup {None}
                 /\ Reads(code[j]) \subseteq Operand
                 /\ Became(prog, code[j], j)
                 /\ Present(j) /\ prog.code[j].op # "alu" => code[j].op = prog.code[j].op
<1>1. IInv /\ OpsStay /\ prog \in Programs /\ Size = Len(prog.code)
  BY DEF MInv, VInv, DInv, IInv, Chosen, Size
<1> SUFFICES ASSUME NEW j \in 1..Size
             PROVE  /\ code[j] = [op |-> code[j].op, dest |-> code[j].dest,
                                  args |-> code[j].args, value |-> code[j].value]
                    /\ code[j].args \in Seq(Operand)
                    /\ code[j].dest \in Operand \cup {None}
                    /\ Reads(code[j]) \subseteq Operand
                    /\ Became(prog, code[j], j)
                    /\ Present(j) /\ prog.code[j].op # "alu" => code[j].op = prog.code[j].op
  BY <1>1
<1>2. /\ code[j] = [op |-> code[j].op, dest |-> code[j].dest,
                    args |-> code[j].args, value |-> code[j].value]
      /\ code[j].args \in Seq(Operand) /\ code[j].dest \in Operand \cup {None}
      /\ prog.code[j].op # "store" => code[j].dest = prog.code[j].dest
  BY <1>1 DEF IInv, TypeOK, Shape
<1>3. Reads(code[j]) \subseteq Operand
  BY <1>1, ReadsAreOperands DEF IInv
<1>4. \/ code[j].op = prog.code[j].op
      \/ code[j].op = "nop"
      \/ code[j].op = "mov" /\ prog.code[j].op = "alu"
  BY <1>1 DEF OpsStay, MInv, FoldedRight
<1> QED
  BY <1>2, <1>3, <1>4 DEF Became, Present

\* The copy and its source hold the same wherever the copy is read.
LEMMA CopyValue ==
    ASSUME MInv, Propagate, NEW j \in 1..Size, code[at].dest \in Reads(code[j]),
           NEW q \in prog.paths, NEW k \in 1..Len(q), q[k] = j
    PROVE  Before(prog, q)[k - 1][code[at].dest] = Before(prog, q)[k - 1][code[at].args[1]]
<1> DEFINE copy == code[at].dest
           source == code[at].args[1]
<1>1. /\ at \in 1..Size /\ code[at].op = "mov" /\ code[at].args # << >>
      /\ copy \in Operand /\ source \in Operand /\ source # copy /\ source \in Reads(code[at])
  BY MInvFacts, PassFacts, PropagateFacts DEF Propagate, IsCopy
<1>2. prog.code[at].op = "mov"
  BY <1>1 DEF MInv, FoldedRight
<1>3. prog.code[at].dest = copy
  BY <1>1, <1>2, MInvFacts DEF Became
<1>4. WrittenBefore(prog, source, at) /\ WrittenBefore(prog, copy, j)
  BY <1>1 DEF MInv, ReadsAreWritten
<1>5. ASSUME NEW r \in prog.paths, NEW l \in 1..Len(r), r[l] = at
      PROVE  Before(prog, r)[l - 1][prog.code[at].args[1]] = Before(prog, r)[l - 1][source]
  <2> DEFINE env == Before(prog, r)[l - 1]
  <2>1. Handed(code[at], env) = Handed(prog.code[at], env)
    BY <1>1, <1>2, <1>5 DEF MInv, SameReads
  <2> HIDE DEF env
  <2>2. Taken(code[at], env) = Taken(prog.code[at], env)
    BY <2>1, TakenHanded
  <2>3. 1 \in DOMAIN code[at].args
    BY <1>1, MInvFacts, ArgumentFacts
  <2>4. env[source] = env[prog.code[at].args[1]]
    BY <2>2, <2>3, TakenFacts
  <2> QED
    BY <2>4 DEF env
<1>6. prog \in Programs /\ at \in 1..Len(prog.code)
  BY <1>1, MInvFacts
<1> HIDE DEF copy, source
<1>7. Before(prog, q)[k - 1][prog.code[at].dest] = Before(prog, q)[k - 1][source]
  BY <1>1, <1>2, <1>3, <1>4, <1>5, <1>6, CopyHolds
<1> QED
  BY <1>3, <1>7 DEF copy, source

\* The steps that change no instruction, and the module in all of them.
LEMMA CodeKept ==
    ASSUME IInv, [Next]_vars
    PROVE  /\ prog' = prog /\ Size' = Size
           /\ \/ Fold
              \/ Propagate
              \/ \E dests : pc = "dce" /\ at \in Here /\ Remove(dests)
              \/ code' = code
<1>1. prog' = prog /\ Size' = Size
  BY DEF Next, vars, ComputeUses, Fold, Propagate, RemoveUnused, RemoveUndefined, Remove, Pass,
         NextPass, NextRound, NextFunction, Size
<1>2. CASE RemoveUnused \/ RemoveUndefined
  <2>1. \E dests : pc = "dce" /\ at \in Here /\ Remove(dests)
    BY <1>2 DEF RemoveUnused, RemoveUndefined
  <2> QED
    BY <1>1, <2>1
<1>3. CASE ComputeUses \/ Pass \/ NextPass \/ NextRound \/ NextFunction \/ UNCHANGED vars
  <2>1. code' = code
    BY <1>3 DEF ComputeUses, Pass, NextPass, NextRound, NextFunction, vars
  <2> QED
    BY <1>1, <2>1
<1> QED
  BY <1>1, <1>2, <1>3 DEF Next

\* What reads the source now did so before, or read the copy and comes after it.
LEMMA WrittenStep == MInv /\ [Next]_vars => ReadsAreWritten'
<1> SUFFICES ASSUME MInv, [Next]_vars PROVE ReadsAreWritten'
  OBVIOUS
<1>1. prog' = prog /\ Size' = Size /\ IInv
  BY CodeKept, MInvFacts
<1> SUFFICES ASSUME NEW j \in 1..Size, NEW o \in Reads(code'[j]) PROVE WrittenBefore(prog, o, j)
  BY <1>1 DEF ReadsAreWritten
<1>2. o \in Reads(code[j]) => WrittenBefore(prog, o, j)
  BY DEF MInv, ReadsAreWritten
<1>3. CASE Fold
  BY <1>1, <1>2, <1>3, FoldReads
<1>4. CASE Propagate
  <2> DEFINE copy == code[at].dest
             source == code[at].args[1]
             new == Replaced(code[j], copy, source)
  <2>1. /\ copy \in Operand /\ source \in Operand /\ copy # source /\ source \in Reads(code[at])
        /\ j # at
        /\ code'[j] = new \/ code'[j] = code[j]
    BY <1>1, <1>4, PropagateFacts, PropagateReads
  <2>2. CASE o \in Reads(code[j])
    BY <1>2, <2>2
  <2>3. CASE o \notin Reads(code[j])
    <3>1. o \in Reads(new)
      BY <2>1, <2>3
    <3>2. o = source /\ copy \in Reads(code[j])
      <4>1. /\ code[j] = [op |-> code[j].op, dest |-> code[j].dest,
                          args |-> code[j].args, value |-> code[j].value]
            /\ code[j].args \in Seq(Operand) /\ code[j].dest \in Operand \cup {None}
        BY MInvFacts
      <4> HIDE DEF copy, source
      <4>2. /\ Reads(new) \subseteq (Reads(code[j]) \ {copy}) \cup {source}
            /\ source \in Reads(new) => copy \in Reads(code[j]) \/ source \in Reads(code[j])
        BY <2>1, <4>1, ReplacedFacts
      <4> QED
        BY <2>3, <3>1, <4>2
    <3>3. /\ at \in 1..Size /\ prog \in Programs /\ Size = Len(prog.code)
          /\ code[at].op = "mov" /\ code[at].args # << >>
      BY <1>1, <1>4, MInvFacts, PassFacts DEF Propagate, IsCopy
    <3>4. prog.code[at].op = "mov"
      BY <3>3 DEF MInv, FoldedRight
    <3>5. prog.code[at].dest = copy
      BY <3>3, <3>4, MInvFacts DEF Became
    <3>6. copy \in Writes(prog, at) /\ \A i \in 1..Size : copy \in Writes(prog, i) => i = at
      <4> HIDE DEF copy
      <4>1. prog.code[at].dest # None
        BY <3>3, <3>4, ModuleFacts
      <4> QED
        BY <3>3, <3>4, <3>5, <4>1, OnlyWriter
    <3>7. WrittenBefore(prog, copy, j) /\ WrittenBefore(prog, source, at)
      BY <2>1, <3>2, <3>3 DEF MInv, ReadsAreWritten
    <3>8. CASE \A i \in 1..Len(prog.code) : source \notin Writes(prog, i)
      BY <3>2, <3>8 DEF WrittenBefore
    <3>9. CASE ~ \A i \in 1..Len(prog.code) : source \notin Writes(prog, i)
      <4> SUFFICES ASSUME NEW q \in prog.paths, NEW k \in 1..Len(q), q[k] = j
                   PROVE  \E l \in 1..(k - 1) : source \in Writes(prog, q[l])
        BY <3>2 DEF WrittenBefore
      <4> HIDE DEF copy, source
      <4>1. PICK l \in 1..(k - 1) : copy \in Writes(prog, q[l])
        BY <3>3, <3>6, <3>7 DEF WrittenBefore
      <4>2. /\ Len(q) \in Nat /\ l \in 1..Len(q) /\ q[l] \in 1..Len(prog.code)
            /\ \A m \in 1..(l - 1) : m \in 1..(k - 1)
        BY <3>3, PathFacts
      <4>3. q[l] = at
        BY <3>3, <3>6, <4>1, <4>2
      <4>4. PICK m \in 1..(l - 1) : source \in Writes(prog, q[m])
        BY <3>7, <3>9, <4>2, <4>3 DEF WrittenBefore
      <4> QED
        BY <4>2, <4>4
    <3> QED
      BY <3>8, <3>9
  <2> QED
    BY <2>2, <2>3
<1>5. CASE \E dests : pc = "dce" /\ at \in Here /\ Remove(dests)
  BY <1>1, <1>2, <1>5, RemoveReads
<1>6. CASE code' = code
  BY <1>2, <1>6
<1> QED
  BY <1>1, <1>3, <1>4, <1>5, <1>6, CodeKept

\* A folded or removed instruction is of another operation; a rewritten one reads a
\* source that holds what the copy holds.
LEMMA SameReadsStep == MInv /\ [Next]_vars => SameReads'
<1> SUFFICES ASSUME MInv, [Next]_vars PROVE SameReads'
  OBVIOUS
<1>1. prog' = prog /\ Size' = Size /\ IInv /\ prog \in Programs /\ Size = Len(prog.code)
  BY CodeKept, MInvFacts
<1> SUFFICES ASSUME NEW q \in prog.paths, NEW k \in 1..Len(q), code'[q[k]].op = prog.code[q[k]].op
             PROVE  Handed(code'[q[k]], Before(prog, q)[k - 1]) =
                        Handed(prog.code[q[k]], Before(prog, q)[k - 1])
  BY <1>1 DEF SameReads
<1> DEFINE j == q[k]
           env == Before(prog, q)[k - 1]
<1>2. j \in 1..Size /\ prog.code[j].op # "nop"
  BY <1>1, PathFacts, ModuleFacts
<1>3. code[j].op = prog.code[j].op => Handed(code[j], env) = Handed(prog.code[j], env)
  BY DEF MInv, SameReads
<1>4. \A o \in Reads(code[j]) : Propagate /\ o = code[at].dest => env[o] = env[code[at].args[1]]
  BY <1>2, CopyValue
<1>5. code'[j].op = prog.code[j].op
  OBVIOUS
<1> HIDE DEF j, env
<1>6. CASE Fold
  <2>1. j # at
    <3>1. j = at => code'[j].op = "mov" /\ code[j].op \in {"alu", "neq"}
      BY <1>1, <1>2, <1>6, FoldReads
    <3>2. j = at => prog.code[j].op # "mov"
      BY <1>2, <3>1, MInvFacts DEF Became
    <3> QED
      BY <1>5, <3>1, <3>2
  <2>2. code'[j] = code[j]
    BY <1>1, <1>2, <1>6, <2>1, FoldReads
  <2> QED
    BY <1>3, <1>5, <2>2 DEF j, env
<1>7. CASE Propagate
  <2> DEFINE copy == code[at].dest
             source == code[at].args[1]
             new == Replaced(code[j], copy, source)
  <2>1. /\ copy \in Operand /\ source \in Operand /\ copy # source
        /\ code'[j] = IF j = at THEN Nop(code[j]) ELSE IF j \in Readers(copy) /\ new # code[j] THEN new ELSE code[j]
    BY <1>1, <1>2, <1>7, PropagateFacts
  <2>2. j # at /\ code[j].op = prog.code[j].op
    BY <1>1, <1>2, <1>5, <1>7, PropagateReads
  <2>3. Handed(new, env) = Handed(code[j], env)
    <3>1. copy \in Reads(code[j]) => env[copy] = env[source]
      BY <1>4, <1>7
    <3>2. /\ code[j] = [op |-> code[j].op, dest |-> code[j].dest,
                        args |-> code[j].args, value |-> code[j].value]
          /\ code[j].args \in Seq(Operand) /\ code[j].dest \in Operand \cup {None}
      BY <1>2, MInvFacts
    <3> HIDE DEF copy, source
    <3> QED
      BY <2>1, <3>1, <3>2, ReplacedHanded
  <2>4. Handed(code'[j], env) = Handed(code[j], env)
    <3> HIDE DEF new
    <3> QED
      BY <2>1, <2>2, <2>3
  <2> QED
    BY <1>3, <2>2, <2>4 DEF j, env
<1>8. CASE \E dests : pc = "dce" /\ at \in Here /\ Remove(dests)
  <2>1. j # at
    BY <1>1, <1>2, <1>5, <1>8, RemoveReads
  <2>2. code'[j] = code[j]
    BY <1>1, <1>2, <1>8, <2>1, RemoveReads
  <2> QED
    BY <1>3, <1>5, <2>2 DEF j, env
<1>9. CASE code' = code
  BY <1>3, <1>5, <1>9 DEF j, env
<1> QED
  BY <1>1, <1>6, <1>7, <1>8, <1>9, CodeKept

-----------------------------------------------------------------------------
\* What folding takes for the value of a constant is its value wherever it is read,
\* but for a text.
LEMMA KnownRight ==
    ASSUME MInv, NEW a \in 1..Size, NEW o \in Reads(code[a]), o \in const,
           prog.kind[o] # "text", NEW q \in prog.paths, NEW k \in 1..Len(q), q[k] = a
    PROVE  Known(o) = Before(prog, q)[k - 1][o]
<1> DEFINE V(m) == Before(prog, q)[m]
<1>1. /\ IInv /\ prog \in Programs /\ Size = Len(prog.code) /\ o \in Operand
      /\ Len(q) \in Nat /\ k - 1 \in 0..Len(q)
      /\ \A m \in 1..Len(q) : q[m] \in 1..Len(prog.code)
  <2>1. IInv /\ prog \in Programs /\ Size = Len(prog.code) /\ o \in Operand
    BY MInvFacts
  <2>2. Len(q) \in Nat /\ \A m \in 1..Len(q) : q[m] \in 1..Len(prog.code)
    BY <2>1, PathFacts
  <2>3. k - 1 \in 0..Len(q)
    BY <2>2
  <2> QED
    BY <2>1, <2>2, <2>3
<1>2. ASSUME NEW x \in Operand, prog.kind[x] = "imm", NEW m \in 0..Len(q)
      PROVE  V(m)[x] = <<x, << >>, 0>>
  <2>1. \A j \in 1..Len(prog.code) : x \notin Writes(prog, j)
    BY <1>1, <1>2, WritesAreVregs
  <2> QED
    BY <1>1, <2>1, UnwrittenValue
<1>3. CASE prog.kind[o] = "imm"
  BY <1>1, <1>2, <1>3 DEF Known
<1>4. CASE prog.kind[o] # "imm"
  <2>1. PICK j \in 1..Size :
           prog.code[j].op \notin {"store", "alloca"} /\ prog.code[j].dest = o /\ Settles(j)
    BY <1>4 DEF MInv, ConstantsRight
  <2>2. Present(j)
    <3>1. DefinitionsStay
      BY DEF MInv, VInv, DInv, ReadsAreDefined
    <3>2. Present(a)
      BY DEF Reads, Arguments, Present
    <3> QED
      BY <2>1, <3>1, <3>2 DEF DefinitionsStay
  <2>3. code[j].op = "mov" /\ (code[j].args = << >> \/ prog.kind[code[j].args[1]] = "imm")
    BY <2>1, <2>2 DEF Settles, Present
  <2>4. Known(o) = IF code[j].args = << >> THEN code[j].value ELSE <<code[j].args[1], << >>, 0>>
    <3> DEFINE d == CHOOSE i \in 1..Size : prog.code[i].op # "store" /\ prog.code[i].dest = o
    <3>1. d \in 1..Size /\ prog.code[d].op # "store" /\ prog.code[d].dest = o
      BY <2>1
    <3>2. o # None
      BY <1>1, ProgramsAssumption
    <3>3. d = j
      <4> HIDE DEF d
      <4> QED
        BY <1>1, <2>1, <3>1, <3>2, ResultsAssumption
    <3>4. Known(o) = IF code[d].op # "mov" THEN Unknown
                     ELSE IF code[d].args = << >> THEN code[d].value ELSE <<code[d].args[1], << >>, 0>>
      BY <1>4 DEF Known
    <3> HIDE DEF d
    <3> QED
      BY <2>3, <3>3, <3>4
  <2>5. /\ o \in Writes(prog, j) /\ Writes(prog, j) = {o} /\ prog.code[j].op # "jmp"
        /\ \A i \in 1..Size : o \in Writes(prog, i) => i = j
    <3>1. prog.code[j].dest # None
      BY <1>1, <2>1, ProgramsAssumption
    <3>2. j \in 1..Len(prog.code)
      BY <1>1
    <3>3. /\ prog.code[j].op # "jmp" /\ Writes(prog, j) = {prog.code[j].dest}
          /\ \A i \in 1..Len(prog.code) : prog.code[j].dest \in Writes(prog, i) => i = j
      BY <1>1, <2>1, <3>1, <3>2, OnlyWriter
    <3> QED
      BY <1>1, <2>1, <3>3
  <2>6. \E l \in 1..(k - 1) : o \in Writes(prog, q[l])
    <3>1. WrittenBefore(prog, o, a)
      BY DEF MInv, ReadsAreWritten
    <3> QED
      BY <1>1, <2>5, <3>1 DEF WrittenBefore
  <2>7. PICK l \in 1..(k - 1) : o \in Writes(prog, q[l]) /\ V(k - 1)[o] = V(l)[o]
    BY <1>1, <2>6, LastWrite
  <2>8. l \in 1..Len(q) /\ l - 1 \in 0..Len(q) /\ q[l] = j
    <3>1. l \in 1..Len(q) /\ l - 1 \in 0..Len(q)
      BY <1>1
    <3> QED
      BY <1>1, <2>5, <2>7, <3>1
  <2> DEFINE env == V(l - 1)
             i == prog.code[j]
  <2>9. V(l)[o] = Result(i, j, l, Taken(i, env))
    <3>1. V(l) = After(prog, i, j, l, env)
      BY <1>1, <2>8, BeforeFacts
    <3>2. Became(prog, i, j) /\ i.op # "nop"
      BY <1>1, ModuleFacts DEF Became
    <3>3. prog.code[j].op # "jmp"
      BY <2>5
    <3> HIDE DEF i, env
    <3>4. After(prog, i, j, l, env)[o] = Result(i, j, l, Taken(i, env))
      BY <1>1, <2>5, <3>2, <3>3, AfterWrites
    <3> QED
      BY <3>1, <3>4
  <2>10. CASE i.op # "mov"
    <3>1. /\ i.op = "alu" /\ code[j].args = << >>
          /\ code[j].value = <<"pure", Taken(i, env), j>>
      BY <2>3, <2>8, <2>10 DEF MInv, FoldedRight
    <3> HIDE DEF i, env
    <3>2. Result(i, j, l, Taken(i, env)) = <<"pure", Taken(i, env), j>>
      BY <3>1 DEF Result
    <3> QED
      BY <2>4, <2>7, <2>9, <3>1, <3>2
  <2>11. CASE i.op = "mov"
    <3>1. Handed(code[j], env) = Handed(i, env)
      BY <2>3, <2>8, <2>11 DEF MInv, SameReads
    <3>2. i.args \in Seq(Operand) /\ Len(i.args) = 1
      BY <1>1, <2>11, ModuleFacts
    <3> HIDE DEF i, env
    <3>3. DOMAIN i.args = 1..1
      BY <3>2, ArgumentFacts
    <3>4. Taken(code[j], env) = Taken(i, env)
      BY <3>1, TakenHanded
    <3>5. DOMAIN code[j].args = 1..1
      BY <3>3, <3>4, TakenFacts
    <3>6. code[j].args # << >> /\ i.args # << >> /\ 1 \in 1..1
      <4>1. 1 \in DOMAIN code[j].args /\ 1 \in DOMAIN i.args /\ 1 \in 1..1
        BY <3>3, <3>5
      <4>2. \A x : 1 \in DOMAIN x => x # << >>
        OBVIOUS
      <4> QED
        BY <4>1, <4>2
    <3>7. Taken(i, env)[1] = env[code[j].args[1]]
      BY <3>4, <3>5, <3>6, TakenFacts
    <3>8. Result(i, j, l, Taken(i, env)) = env[code[j].args[1]]
      BY <2>11, <3>6, <3>7 DEF Result
    <3>9. code[j].args[1] \in Operand
      BY <3>6, MInvFacts, ArgumentFacts
    <3>10. env[code[j].args[1]] = <<code[j].args[1], << >>, 0>>
      BY <1>2, <2>3, <2>8, <3>6, <3>9 DEF env
    <3> QED
      BY <2>4, <2>7, <2>9, <3>6, <3>8, <3>10
  <2> QED
    BY <2>10, <2>11
<1> QED
  BY <1>3, <1>4

-----------------------------------------------------------------------------
\* What was folded from nothing stays so.
LEMMA UnsetStays == IInv /\ FoldedUnset /\ [Next]_vars => FoldedUnset'
<1> SUFFICES ASSUME IInv, FoldedUnset, [Next]_vars PROVE FoldedUnset'
  OBVIOUS
<1>1. prog' = prog /\ Size' = Size
  BY CodeKept
<1>2. PICK j \in 1..Size :
        /\ code[j].args = << >> /\ prog.code[j].args # << >>
        /\ \/ prog.code[j].op = "neq"
           \/ \E o \in Arguments(prog.code[j]) : prog.kind[o] = "text"
  BY DEF FoldedUnset
<1>3. code'[j].args = << >>
  <2>1. CASE Fold
    BY <1>2, <2>1, FoldReads
  <2>2. CASE Propagate
    <3> DEFINE copy == code[at].dest
               source == code[at].args[1]
               new == Replaced(code[j], copy, source)
    <3>1. /\ copy \in Operand /\ source \in Operand /\ copy # source
          /\ code'[j] = IF j = at THEN Nop(code[j])
                        ELSE IF j \in Readers(copy) /\ new # code[j] THEN new ELSE code[j]
      BY <2>2, PropagateFacts
    <3>2. j = at => code'[j].args = code[j].args
      BY <2>2, PropagateReads
    <3>3. new.args = << >>
      <4>1. /\ code[j] = [op |-> code[j].op, dest |-> code[j].dest,
                          args |-> code[j].args, value |-> code[j].value]
            /\ code[j].args \in Seq(Operand) /\ code[j].dest \in Operand \cup {None}
        BY DEF IInv, TypeOK, Shape
      <4>2. new.args \in Seq(Operand) /\ Len(new.args) = Len(code[j].args)
        <5> HIDE DEF copy, source
        <5>1. Len(new.args) = Len(code[j].args)
          BY <3>1, <4>1, ReplacedLength
        <5>2. new.args \in Seq(Operand)
          BY <3>1, <4>1, ReplacedFacts
        <5> QED
          BY <5>1, <5>2
      <4>3. Len(new.args) = 0
        BY <1>2, <4>2
      <4> HIDE DEF new
      <4> QED
        BY <4>2, <4>3
    <3> HIDE DEF new
    <3> QED
      BY <1>2, <3>1, <3>2, <3>3
  <2>3. CASE \E dests : pc = "dce" /\ at \in Here /\ Remove(dests)
    BY <1>2, <2>3, RemoveReads
  <2>4. CASE code' = code
    BY <1>2, <2>4
  <2> QED
    BY <2>1, <2>2, <2>3, <2>4, CodeKept
<1>4. Arguments(prog.code[j])' = Arguments(prog.code[j])
  BY <1>1
<1> QED
  BY <1>1, <1>2, <1>3, <1>4 DEF FoldedUnset

\* Copies are vregs: no text is put where there was none.
LEMMA TextsStep == MInv /\ [Next]_vars => NoNewTexts'
<1> SUFFICES ASSUME MInv, [Next]_vars PROVE NoNewTexts'
  OBVIOUS
<1>1. prog' = prog /\ Size' = Size /\ IInv
  BY CodeKept, MInvFacts
<1> SUFFICES ASSUME NEW j \in 1..Size, NEW o \in Reads(code'[j]), prog.kind[o] = "text"
             PROVE  o \in Reads(prog.code[j])
  BY <1>1 DEF NoNewTexts
<1>2. o \in Reads(code[j]) => o \in Reads(prog.code[j])
  BY DEF MInv, NoNewTexts
<1>3. CASE Fold
  BY <1>1, <1>2, <1>3, FoldReads
<1>4. CASE Propagate
  <2> DEFINE source == code[at].args[1]
  <2>1. source \in Operand /\ kind[source] = "vreg"
    BY <1>1, <1>4, PropagateFacts
  <2>2. o # source
    <3> HIDE DEF source
    <3> QED
      BY <2>1 DEF MInv, KindsStay
  <2> QED
    BY <1>1, <1>2, <1>4, <2>2, PropagateReads
<1>5. CASE \E dests : pc = "dce" /\ at \in Here /\ Remove(dests)
  BY <1>1, <1>2, <1>5, RemoveReads
<1>6. CASE code' = code
  BY <1>2, <1>6
<1> QED
  BY <1>1, <1>3, <1>4, <1>5, <1>6, CodeKept

\* A function with two places is a pair.
LEMMA PairFacts ==
    ASSUME NEW f, f = [a \in 1..2 |-> f[a]]
    PROVE  f = <<f[1], f[2]>>
  OBVIOUS

\* Nothing can be replaced in an instruction without arguments.
LEMMA ReplacedNothing ==
    ASSUME NEW i, i = [op |-> i.op, dest |-> i.dest, args |-> i.args, value |-> i.value],
           i.op = "mov", i.args = << >>, NEW old, NEW new \in Operand
    PROVE  Replaced(i, old, new) = i
<1> DEFINE args == [k \in DOMAIN i.args |-> IF i.args[k] = old THEN new ELSE i.args[k]]
           dest == IF i.op = "store" /\ i.dest = old THEN new ELSE i.dest
<1>1. Replaced(i, old, new) = [i EXCEPT !.args = args, !.dest = dest]
  BY DEF Replaced
<1>2. args = << >> /\ dest = i.dest
  OBVIOUS
<1> HIDE DEF args, dest
<1> QED
  BY <1>1, <1>2

\* An argument that is not the replaced operand stays.
LEMMA ReplacedOther ==
    ASSUME NEW i, i = [op |-> i.op, dest |-> i.dest, args |-> i.args, value |-> i.value],
           i.op = "mov", NEW old, NEW new, NEW k \in DOMAIN i.args, i.args[k] # old
    PROVE  Replaced(i, old, new).args[k] = i.args[k]
<1> DEFINE args == [l \in DOMAIN i.args |-> IF i.args[l] = old THEN new ELSE i.args[l]]
           dest == IF i.op = "store" /\ i.dest = old THEN new ELSE i.dest
<1>1. Replaced(i, old, new) = [i EXCEPT !.args = args, !.dest = dest]
  BY DEF Replaced
<1>2. args[k] = i.args[k]
  OBVIOUS
<1> HIDE DEF args, dest
<1>3. Replaced(i, old, new) = [op |-> i.op, dest |-> dest, args |-> args, value |-> i.value]
  BY <1>1
<1> QED
  BY <1>2, <1>3

\* Folding puts the value that the instruction would compute in its place.
LEMMA FoldedStep == MInv /\ ~FoldedUnset' /\ [Next]_vars => FoldedRight'
<1> SUFFICES ASSUME MInv, ~FoldedUnset', [Next]_vars PROVE FoldedRight'
  OBVIOUS
<1>1. prog' = prog /\ Size' = Size /\ IInv /\ prog \in Programs /\ Size = Len(prog.code)
  BY CodeKept, MInvFacts
<1> DEFINE Computes(v, j) ==
               \A q \in prog.paths : \A k \in 1..Len(q) : q[k] = j =>
                  v = <<"pure", Taken(prog.code[j], Before(prog, q)[k - 1]), j>>
<1> SUFFICES ASSUME NEW j \in 1..Size, code'[j].op = "mov", prog.code[j].op # "mov"
             PROVE  /\ prog.code[j].op = "alu" /\ code'[j].args = << >>
                    /\ Computes(code'[j].value, j)
  BY <1>1 DEF FoldedRight
<1>2. code[j].op = "mov" => /\ prog.code[j].op = "alu" /\ code[j].args = << >>
                            /\ Computes(code[j].value, j)
  BY DEF MInv, FoldedRight
<1>3. CASE Fold /\ j = at
  <2> DEFINE args == code[at].args
             i == prog.code[j]
             result == <<"pure", <<Known(args[1]), Known(args[2])>>, at>>
  <2>1. /\ pc = "fold" /\ at \in Here /\ code[at].op \in {"alu", "neq"}
        /\ args[1] \in const /\ args[2] \in const
    BY <1>3 DEF Fold, Foldable
  <2>2. code[at].op = "alu" /\ \A o \in Arguments(prog.code[at]) : prog.kind[o] # "text"
    <3>1. code'[at].args = << >> /\ at \in 1..Size
      BY <1>1, <1>3, FoldReads
    <3>2. Became(prog, code[at], at) /\ code[at].op = prog.code[at].op
      <4>1. Became(prog, code[at], at)
        BY <3>1, MInvFacts
      <4> QED
        BY <2>1, <4>1 DEF Became
    <3>3. prog.code[at].args # << >>
      <4>1. Len(prog.code[at].args) = 2
        BY <1>1, <2>1, <3>1, <3>2, ProgramsAssumption
      <4> QED
        BY <4>1
    <3>4. Arguments(prog.code[j])' = Arguments(prog.code[j])
      BY <1>1
    <3>5. /\ prog.code[j].op # "neq"
          /\ \A o \in Arguments(prog.code[j]) : prog.kind[o] # "text"
      BY <1>1, <1>3, <3>1, <3>3, <3>4 DEF FoldedUnset
    <3> QED
      BY <1>3, <2>1, <3>2, <3>5
  <2>3. /\ code' = [code EXCEPT ![at] = [op |-> "mov", dest |-> code[at].dest,
                                        args |-> << >>, value |-> result]]
        /\ DOMAIN code = 1..Size
    BY <1>1, <1>3, <2>2 DEF Fold, IInv, TypeOK
  <2>4. i.op = "alu" /\ i.args \in Seq(Operand) /\ Len(i.args) = 2
    <3>1. Became(prog, code[j], j) /\ code[j].op = "alu"
      BY <1>3, <2>2, MInvFacts
    <3>2. i.op = "alu"
      BY <3>1 DEF Became
    <3>3. i.args \in Seq(Operand)
      BY <1>1, ModuleFacts
    <3> QED
      BY <1>1, <3>2, <3>3, ProgramsAssumption
  <2>5. code'[j].args = << >> /\ code'[j].value = result
    <3> HIDE DEF result
    <3>1. code'[j] = [op |-> "mov", dest |-> code[at].dest, args |-> << >>, value |-> result]
      BY <1>3, <2>3
    <3> QED
      BY <3>1
  <2>6. ASSUME NEW q \in prog.paths, NEW k \in 1..Len(q), q[k] = j
        PROVE  result = <<"pure", Taken(i, Before(prog, q)[k - 1]), j>>
    <3> DEFINE env == Before(prog, q)[k - 1]
    <3>1. Handed(code[j], env) = Handed(i, env)
      BY <1>3, <2>2, <2>4, <2>6 DEF MInv, SameReads
    <3>2. ASSUME NEW o \in Reads(code[j]), o \in const
          PROVE  Known(o) = env[o]
      <4>1. prog.kind[o] # "text"
        <5>1. prog.kind[o] = "text" => o \in Reads(prog.code[j])
          BY DEF MInv, NoNewTexts
        <5>2. Reads(prog.code[j]) = Arguments(prog.code[j])
          BY <2>4 DEF Reads
        <5> QED
          BY <1>3, <2>2, <5>1, <5>2
      <4> QED
        BY <2>6, <3>2, <4>1, KnownRight
    <3> HIDE DEF env, i
    <3>3. DOMAIN i.args = 1..2
      BY <2>4, ArgumentFacts
    <3>4. Taken(code[j], env) = Taken(i, env)
      BY <3>1, TakenHanded
    <3>5. DOMAIN args = 1..2
      BY <1>3, <3>3, <3>4, TakenFacts
    <3>6. args[1] \in Reads(code[j]) /\ args[2] \in Reads(code[j])
      BY <1>3, <2>2, <3>5 DEF Reads, Arguments
    <3>7. Known(args[1]) = env[args[1]] /\ Known(args[2]) = env[args[2]]
      BY <2>1, <3>2, <3>6
    <3>8. Taken(code[j], env) = <<env[args[1]], env[args[2]]>>
      <4> DEFINE f == Taken(code[j], env)
      <4>1. f = [a \in 1..2 |-> env[args[a]]]
        BY <1>3, <3>5 DEF Taken
      <4>2. f = [a \in 1..2 |-> f[a]] /\ f[1] = env[args[1]] /\ f[2] = env[args[2]]
        BY <4>1
      <4> HIDE DEF f
      <4>3. f = <<f[1], f[2]>>
        BY <4>2, PairFacts
      <4> QED
        BY <4>2, <4>3 DEF f
    <3> HIDE DEF args
    <3>9. result = <<"pure", Taken(i, env), j>>
      BY <1>3, <3>4, <3>7, <3>8
    <3> QED
      BY <3>9 DEF env
  <2> QED
    BY <2>4, <2>5, <2>6
<1>4. CASE Fold /\ j # at
  <2>1. code'[j] = code[j]
    BY <1>1, <1>4, FoldReads
  <2> QED
    BY <1>2, <2>1
<1>5. CASE Propagate
  <2> DEFINE copy == code[at].dest
             source == code[at].args[1]
             new == Replaced(code[j], copy, source)
  <2>1. /\ copy \in Operand /\ source \in Operand
        /\ code'[j] = IF j = at THEN Nop(code[j]) ELSE IF j \in Readers(copy) /\ new # code[j] THEN new ELSE code[j]
    BY <1>1, <1>5, PropagateFacts
  <2>2. j # at /\ code[j].op = "mov"
    BY <1>1, <1>5, PropagateReads
  <2>3. new = code[j]
    <3>1. code[j] = [op |-> code[j].op, dest |-> code[j].dest,
                     args |-> code[j].args, value |-> code[j].value]
      BY MInvFacts
    <3>2. code[j].args = << >>
      BY <1>2, <2>2
    <3> HIDE DEF copy, source
    <3> QED
      BY <2>1, <2>2, <3>1, <3>2, ReplacedNothing
  <2>4. code'[j] = code[j]
    <3> HIDE DEF new
    <3> QED
      BY <2>1, <2>2, <2>3
  <2> QED
    BY <1>2, <2>2, <2>4
<1>6. CASE \E dests : pc = "dce" /\ at \in Here /\ Remove(dests)
  <2>1. code'[j] = code[j]
    BY <1>1, <1>6, RemoveReads
  <2> QED
    BY <1>2, <2>1
<1>7. CASE code' = code
  BY <1>2, <1>7
<1> QED
  BY <1>1, <1>3, <1>4, <1>5, <1>6, <1>7, CodeKept

\* What makes a constant goes on making it.
LEMMA SettlesStep ==
    ASSUME MInv, [Next]_vars, NEW j \in 1..Size, Settles(j)
    PROVE  code'[j].op # "nop" =>
              /\ code'[j].op = "mov"
              /\ code'[j].args = << >> \/ prog.kind[code'[j].args[1]] = "imm"
<1>1. prog' = prog /\ Size' = Size /\ IInv
  BY CodeKept, MInvFacts
<1>2. CASE Fold
  BY <1>1, <1>2, FoldReads DEF Settles
<1>3. CASE Propagate
  <2> DEFINE copy == code[at].dest
             source == code[at].args[1]
             new == Replaced(code[j], copy, source)
  <2>1. /\ copy \in Operand /\ source \in Operand
        /\ code'[j] = IF j = at THEN Nop(code[j]) ELSE IF j \in Readers(copy) /\ new # code[j] THEN new ELSE code[j]
    BY <1>1, <1>3, PropagateFacts
  <2>2. prog.kind[copy] # "imm"
    <3>1. kind[copy] = "vreg"
      BY <1>3 DEF Propagate, IsCopy
    <3> HIDE DEF copy
    <3> QED
      BY <2>1, <3>1 DEF MInv, KindsStay
  <2>3. CASE j # at /\ code[j].op = "mov"
    <3>1. /\ code[j] = [op |-> code[j].op, dest |-> code[j].dest,
                        args |-> code[j].args, value |-> code[j].value]
          /\ code[j].args \in Seq(Operand)
      BY MInvFacts
    <3>2. code[j].args = << >> \/ prog.kind[code[j].args[1]] = "imm"
      BY <2>3 DEF Settles
    <3>3. code'[j].op = "mov"
      BY <1>1, <1>3, <2>3, PropagateReads
    <3> HIDE DEF copy, source
    <3>4. CASE code[j].args = << >>
      <4>1. new = code[j]
        BY <2>1, <2>3, <3>1, <3>4, ReplacedNothing
      <4> QED
        BY <2>1, <2>3, <3>3, <3>4, <4>1
    <3>5. CASE code[j].args # << >>
      <4>1. 1 \in DOMAIN code[j].args
        BY <3>1, <3>5, ArgumentFacts
      <4>2. code[j].args[1] # copy
        BY <2>2, <3>2, <3>5
      <4>3. new.args[1] = code[j].args[1]
        BY <2>3, <3>1, <4>1, <4>2, ReplacedOther
      <4> HIDE DEF new
      <4>4. code'[j].args[1] = code[j].args[1]
        BY <2>1, <2>3, <4>3
      <4> QED
        BY <3>2, <3>3, <3>5, <4>4
    <3> QED
      BY <3>4, <3>5
  <2>4. CASE j = at
    BY <1>1, <1>3, <2>4, PropagateReads
  <2>5. CASE code[j].op = "nop"
    BY <1>1, <1>3, <2>5, PropagateReads
  <2> QED
    BY <2>3, <2>4, <2>5 DEF Settles
<1>4. CASE \E dests : pc = "dce" /\ at \in Here /\ Remove(dests)
  BY <1>1, <1>4, RemoveReads DEF Settles
<1>5. CASE code' = code
  BY <1>5 DEF Settles
<1> QED
  BY <1>1, <1>2, <1>3, <1>4, <1>5, CodeKept

\* Every new constant is an immediate or has just been seen to be made of one.
LEMMA ConstantsStep == MInv /\ [Next]_vars => ConstantsRight'
<1> SUFFICES ASSUME MInv, [Next]_vars PROVE ConstantsRight'
  OBVIOUS
<1>1. prog' = prog /\ Size' = Size /\ IInv /\ prog \in Programs /\ Size = Len(prog.code)
  BY CodeKept, MInvFacts
<1> DEFINE Made(o) ==
               \E j \in 1..Size :
                  /\ prog.code[j].op \notin {"store", "alloca"} /\ prog.code[j].dest = o
                  /\ code'[j].op # "nop" =>
                        /\ code'[j].op = "mov"
                        /\ code'[j].args = << >> \/ prog.kind[code'[j].args[1]] = "imm"
<1> SUFFICES ASSUME NEW o \in const'
             PROVE  (o \in Operand /\ prog.kind[o] \in {"imm", "text"}) \/ Made(o)
  BY <1>1 DEF ConstantsRight, Settles
<1>2. CASE o \in const
  <2>1. CASE o \in Operand /\ prog.kind[o] \in {"imm", "text"}
    BY <2>1
  <2>2. CASE \E j \in 1..Size :
                prog.code[j].op \notin {"store", "alloca"} /\ prog.code[j].dest = o /\ Settles(j)
    BY <2>2, SettlesStep
  <2> QED
    BY <1>2, <2>1, <2>2 DEF MInv, ConstantsRight
<1>3. CASE o \notin const
  <2>1. CASE ComputeUses
    <3>1. o \in {x \in Operand : kind[x] = "imm"} \cup ConstantDefinitions /\ code' = code
      BY <1>3, <2>1 DEF ComputeUses
    <3>2. CASE o \in Operand /\ kind[o] = "imm"
      <4>1. prog.kind[o] = "imm"
        BY <3>2 DEF MInv, KindsStay
      <4> QED
        BY <3>2, <4>1
    <3>3. CASE o \in ConstantDefinitions
      <4>1. PICK j \in Here : code[j].op = "mov" /\ kind[code[j].args[1]] = "imm" /\ o = code[j].dest
        BY <3>3 DEF ConstantDefinitions
      <4>2. j \in 1..Size
        BY <1>1, LayoutFacts DEF IInv, TypeOK
      <4>3. prog.code[j].op \notin {"store", "alloca"} /\ prog.code[j].dest = o
        BY <4>1, <4>2, MInvFacts DEF Became
      <4>4. code[j].args = << >> \/ prog.kind[code[j].args[1]] = "imm"
        <5> SUFFICES ASSUME code[j].args # << >> PROVE prog.kind[code[j].args[1]] = "imm"
          OBVIOUS
        <5>1. code[j].args[1] \in Operand
          BY <4>2, MInvFacts, ArgumentFacts
        <5> QED
          BY <4>1, <5>1 DEF MInv, KindsStay
      <4> QED
        BY <3>1, <4>1, <4>2, <4>3, <4>4
    <3> QED
      BY <3>1, <3>2, <3>3
  <2>2. CASE Fold
    <3>1. o = code[at].dest /\ at \in 1..Size
      BY <1>1, <1>3, <2>2, PassFacts DEF Fold
    <3>2. code'[at].op = "mov" /\ code'[at].args = << >> /\ code[at].op \in {"alu", "neq"}
      BY <1>1, <2>2, <3>1, FoldReads
    <3>3. prog.code[at].op \notin {"store", "alloca"} /\ prog.code[at].dest = o
      BY <3>1, <3>2, MInvFacts DEF Became
    <3> QED
      BY <3>1, <3>2, <3>3
  <2>3. CASE ~ComputeUses /\ ~Fold
    <3>1. const' = const
      BY <2>3 DEF Next, vars, Propagate, RemoveUnused, RemoveUndefined, Remove, Pass,
             NextPass, NextRound, NextFunction
    <3> QED
      BY <1>3, <3>1
  <2> QED
    BY <2>1, <2>2, <2>3
<1> QED
  BY <1>2, <1>3

\* At first the code is that of the module.
LEMMA MInvInit ==
    ASSUME OperandsAreLocal
    PROVE  Init => MInv
<1> SUFFICES ASSUME Init PROVE MInv
  OBVIOUS
<1>1. VInv /\ KindsStay
  BY VInvInit, GInvInit DEF GInv
<1>2. prog \in Programs /\ Size = Len(prog.code)
  BY DEF Init, Size
<1>3. ASSUME NEW j \in 1..Size
      PROVE  /\ code[j].op = prog.code[j].op /\ code[j].op # "nop"
             /\ Reads(code[j]) = Reads(prog.code[j])
             /\ \A env : Handed(code[j], env) = Handed(prog.code[j], env)
  <2>1. code[j] = [op |-> prog.code[j].op, dest |-> prog.code[j].dest,
                   args |-> prog.code[j].args, value |-> Unknown]
    BY DEF Init
  <2>2. code[j].op = prog.code[j].op /\ code[j].dest = prog.code[j].dest /\ code[j].args = prog.code[j].args
    BY <2>1
  <2>3. prog.code[j].op # "nop"
    BY <1>2, ModuleFacts
  <2>4. \A env : Handed(code[j], env) = Handed(prog.code[j], env)
    BY <2>2 DEF Handed, Taken
  <2> QED
    BY <2>2, <2>3, <2>4 DEF Reads, Arguments
<1>4. ReadsAreWritten
  <2> SUFFICES ASSUME NEW j \in 1..Size, NEW o \in Reads(prog.code[j]),
                      NEW i \in 1..Size, o \in Writes(prog, i),
                      NEW q \in prog.paths, NEW k \in 1..Len(q), q[k] = j
               PROVE  \E l \in 1..(k - 1) : o \in Writes(prog, q[l])
    BY <1>2, <1>3 DEF ReadsAreWritten, WrittenBefore
  <2> QED
    BY <1>2, PathsAssumption
<1>5. SameReads
  BY <1>2, <1>3, PathFacts DEF SameReads
<1>6. FoldedRight
  BY <1>3 DEF FoldedRight
<1>7. ConstantsRight
  BY DEF Init, ConstantsRight
<1>8. NoNewTexts
  BY <1>3 DEF NoNewTexts
<1> QED
  BY <1>1, <1>4, <1>5, <1>6, <1>7, <1>8 DEF MInv

LEMMA MInvStep == MInv /\ ~FoldedUnset' /\ [Next]_vars => MInv'
<1> SUFFICES ASSUME MInv, ~FoldedUnset', [Next]_vars PROVE MInv'
  OBVIOUS
<1>1. VInv' /\ KindsStay'
  BY MInvFacts, VInvStep, KindsStayStep DEF MInv
<1>2. ReadsAreWritten' /\ SameReads' /\ FoldedRight' /\ ConstantsRight' /\ NoNewTexts'
  BY WrittenStep, SameReadsStep, FoldedStep, ConstantsStep, TextsStep
<1> QED
  BY <1>1, <1>2 DEF MInv

-----------------------------------------------------------------------------
\* Nothing that writes the operand is gone.
StillMade(o) == \A i \in 1..Size : o \in Writes(prog, i) => Present(i)

\* So it is with whatever is read.
LEMMA ReadsAreMade ==
    ASSUME MInv, NEW j \in 1..Size, NEW o \in Reads(code[j])
    PROVE  StillMade(o)
<1> SUFFICES ASSUME NEW i \in 1..Size, o \in Writes(prog, i) PROVE Present(i)
  BY DEF StillMade
<1>1. prog \in Programs /\ Size = Len(prog.code)
  BY MInvFacts
<1>2. CASE prog.code[i].op = "jmp"
  BY <1>2 DEF MInv, VInv, OnlyReadCallsVanish, Effects
<1>3. CASE prog.code[i].op # "jmp"
  <2>1. prog.code[i].op # "store" /\ prog.code[i].dest = o
    BY <1>1, <1>3, WritesFacts
  <2>2. Present(j)
    BY DEF Reads, Arguments, Present
  <2>3. DefinitionsStay
    BY DEF MInv, VInv, DInv, ReadsAreDefined
  <2> QED
    BY <2>1, <2>2, <2>3 DEF DefinitionsStay
<1> QED
  BY <1>2, <1>3

\* Two runs agree on an operand that is still made.
Agree(env, other) == \A o \in Operand : StillMade(o) => env[o] = other[o]

LEMMA TakesTheSame ==
    ASSUME MInv, NEW j \in 1..Size, code[j].op \notin {"alloca", "asm", "nop"},
           NEW env, NEW other, Agree(env, other)
    PROVE  /\ Taken(code[j], env) = Taken(code[j], other)
           /\ Handed(code[j], env) = Handed(code[j], other)
<1>1. \A o \in Reads(code[j]) : o \in Operand /\ StillMade(o)
  BY ReadsAreMade, MInvFacts
<1>2. \A o \in Reads(code[j]) : env[o] = other[o]
  BY <1>1 DEF Agree
<1> QED
  BY <1>2, HandedReads

\* An instruction makes of the same values what it made of them at first.
LEMMA AgreeStep ==
    ASSUME MInv, NEW q \in prog.paths, NEW k \in 1..Len(q), NEW env, NEW other,
           other = Before(prog, q)[k - 1], Agree(env, other)
    PROVE  Agree(After(prog, code[q[k]], q[k], k, env), After(prog, prog.code[q[k]], q[k], k, other))
<1> DEFINE j == q[k]
           i == code[j]
           first == prog.code[j]
<1>1. /\ prog \in Programs /\ Size = Len(prog.code) /\ j \in 1..Size /\ j \in 1..Len(prog.code)
      /\ Became(prog, i, j)
  <2>1. prog \in Programs /\ Size = Len(prog.code)
    BY MInvFacts
  <2>2. j \in 1..Size
    BY <2>1, PathFacts
  <2> QED
    BY <2>1, <2>2, MInvFacts
<1> SUFFICES ASSUME NEW o \in Operand, StillMade(o)
             PROVE  After(prog, i, j, k, env)[o] = After(prog, first, j, k, other)[o]
  BY DEF Agree
<1>2. Became(prog, first, j) /\ first.op # "nop"
  BY <1>1, ModuleFacts DEF Became
<1>3. env[o] = other[o]
  BY DEF Agree
<1>4. i.op = first.op => Handed(i, other) = Handed(first, other)
  BY DEF MInv, SameReads
<1>5. CASE o \notin Writes(prog, j)
  <2> HIDE DEF i, first, j
  <2>1. After(prog, i, j, k, env)[o] = env[o]
    BY <1>1, <1>5, AfterKeeps
  <2>2. After(prog, first, j, k, other)[o] = other[o]
    BY <1>1, <1>2, <1>5, AfterKeeps
  <2> QED
    BY <1>3, <2>1, <2>2
<1>6. CASE o \in Writes(prog, j)
  <2>1. i.op # "nop"
    BY <1>1, <1>6 DEF StillMade, Present
  <2>2. first.op \notin {"alloca", "store"}
    BY <1>1, <1>6, WritesFacts
  <2>3. CASE first.op = "jmp"
    <3>1. i.op = "jmp"
      BY <1>1, <2>1, <2>3 DEF Became
    <3>2. PICK a \in DOMAIN first.params : o = first.params[a]
      BY <1>1, <1>6, <2>3, WritesFacts
    <3>3. Taken(i, env) = Taken(first, other)
      <4>1. Taken(i, env) = Taken(i, other)
        BY <1>1, <3>1, TakesTheSame
      <4>2. Taken(i, other) = Taken(first, other)
        BY <1>4, <2>3, <3>1, TakenHanded
      <4> QED
        BY <4>1, <4>2
    <3>4. DOMAIN first.params = DOMAIN first.args
      BY <1>1, <2>3, ModuleFacts
    <3>5. env[i.args[a]] = other[first.args[a]]
      <4> HIDE DEF i, first
      <4>1. DOMAIN i.args = DOMAIN first.args
        BY <3>3, TakenFacts
      <4> QED
        BY <3>2, <3>3, <3>4, <4>1, TakenFacts
    <3> HIDE DEF i
    <3>6. After(prog, i, j, k, env)[first.params[a]] = env[i.args[a]]
      <4> HIDE DEF j
      <4> QED
        BY <1>1, <2>3, <3>1, AfterPasses
    <3>7. After(prog, first, j, k, other)[first.params[a]] = other[first.args[a]]
      <4>1. /\ prog.code[j].op = "jmp" /\ first.op = "jmp"
            /\ a \in DOMAIN prog.code[j].params /\ j \in 1..Len(prog.code)
        BY <1>1, <2>3
      <4> HIDE DEF first, j
      <4>2. After(prog, first, j, k, other)[prog.code[j].params[a]] = other[first.args[a]]
        BY <1>1, <4>1, AfterPasses
      <4> QED
        BY <4>2 DEF first
    <3> HIDE DEF first, j
    <3> QED
      BY <3>2, <3>5, <3>6, <3>7
  <2>4. CASE first.op # "jmp"
    <3>1. After(prog, i, j, k, env)[o] = Result(i, j, k, Taken(i, env))
      BY <1>1, <1>6, <2>1, <2>4, AfterWrites
    <3>2. After(prog, first, j, k, other)[o] = Result(first, j, k, Taken(first, other))
      BY <1>1, <1>2, <1>6, <2>4, AfterWrites
    <3>3. first.op # "asm"
      <4>1. o # None /\ Writes(prog, j) = {first.dest} \ {None}
        BY <1>1, <2>2, <2>4, WritesFacts, ProgramsAssumption
      <4>2. first.op = "asm" => first.dest = None
        BY <1>1, ModuleFacts
      <4> HIDE DEF first, j
      <4> QED
        BY <1>6, <4>1, <4>2
    <3>4. i.op \notin {"alloca", "asm", "nop"}
      BY <1>1, <2>1, <2>2, <3>3 DEF Became
    <3>5. Taken(i, env) = Taken(i, other)
      BY <1>1, <3>4, TakesTheSame
    <3>6. CASE i.op # first.op
      <4>1. first.op = "alu" /\ i.op = "mov"
        BY <1>1, <2>1, <3>6 DEF Became
      <4>2. i.args = << >> /\ i.value = <<"pure", Taken(first, other), j>>
        BY <1>1, <4>1 DEF MInv, FoldedRight
      <4> HIDE DEF i, first
      <4> QED
        BY <3>1, <3>2, <4>1, <4>2 DEF Result
    <3>7. CASE i.op = first.op
      <4>1. Taken(i, env) = Taken(first, other)
        <5> HIDE DEF i, first
        <5> QED
          BY <1>4, <3>5, <3>7, TakenHanded
      <4>2. i.op = "mov" => i.args # << >> /\ first.args # << >>
        <5> SUFFICES ASSUME first.op = "mov" PROVE i.args # << >> /\ first.args # << >>
          BY <3>7
        <5>1. first.args \in Seq(Operand) /\ Len(first.args) = 1
          BY <1>1, ModuleFacts
        <5> HIDE DEF i, first
        <5>2. DOMAIN first.args = 1..1
          BY <5>1, ArgumentFacts
        <5>3. DOMAIN i.args = DOMAIN first.args
          BY <4>1, TakenFacts
        <5>4. \A x : 1 \in DOMAIN x => x # << >>
          OBVIOUS
        <5>5. 1 \in 1..1
          OBVIOUS
        <5> QED
          BY <5>2, <5>3, <5>4, <5>5
      <4> HIDE DEF i, first
      <4> QED
        BY <3>1, <3>2, <3>7, <4>1, <4>2 DEF Result
    <3> QED
      BY <3>6, <3>7
  <2> QED
    BY <2>3, <2>4
<1> QED
  BY <1>5, <1>6

\* So the two runs agree all along a path.
LEMMA Agreement ==
    ASSUME MInv, NEW q \in prog.paths, NEW k \in 0..Len(q)
    PROVE  Agree(Values(prog, code, q)[k], Before(prog, q)[k])
<1> DEFINE N(m) == Values(prog, code, q)[m]
           V(m) == Before(prog, q)[m]
           B == {m \in 0..Len(q) : ~Agree(N(m), V(m))}
<1>1. Len(q) \in Nat /\ prog \in Programs
  BY MInvFacts, PathFacts
<1>2. N(0) = AtStart /\ V(0) = AtStart
  <2>1. N(0) = AtStart
    BY <1>1, ValuesUnfold
  <2>2. Values(prog, prog.code, q)[0] = AtStart
    BY <1>1, ValuesUnfold
  <2> QED
    BY <2>1, <2>2 DEF Before
<1>3. ASSUME NEW m \in 1..Len(q)
      PROVE  /\ N(m) = After(prog, code[q[m]], q[m], m, N(m - 1))
             /\ V(m) = After(prog, prog.code[q[m]], q[m], m, V(m - 1))
  BY <1>1, ValuesUnfold, BeforeFacts
<1> HIDE DEF N, V
<1>4. B = {}
  <2> SUFFICES ASSUME B # {} PROVE FALSE
    OBVIOUS
  <2>1. PICK m \in B : \A l \in B : m <= l
    <3>1. B \in SUBSET Nat
      BY <1>1
    <3> HIDE DEF B
    <3> QED
      BY <3>1, Least
  <2>2. m # 0
    BY <1>2 DEF Agree
  <2>3. m \in 1..Len(q) /\ m - 1 \in 0..Len(q) /\ ~(m <= m - 1)
    BY <1>1, <2>2
  <2>4. Agree(N(m - 1), V(m - 1))
    BY <2>1, <2>3
  <2>5. Agree(N(m), V(m))
    <3>1. V(m - 1) = Before(prog, q)[m - 1]
      BY DEF V
    <3>2. Agree(After(prog, code[q[m]], q[m], m, N(m - 1)), After(prog, prog.code[q[m]], q[m], m, V(m - 1)))
      BY <2>3, <2>4, <3>1, AgreeStep
    <3> QED
      BY <1>3, <2>3, <3>2
  <2> QED
    BY <2>5
<1> QED
  BY <1>4 DEF N, V

\* What is left of the effects takes what it took at first.
LEMMA EffectsAgree == MInv => SameEffects
<1> SUFFICES ASSUME MInv PROVE SameEffects
  OBVIOUS
<1>1. OnlyReadCallsVanish
  BY DEF MInv, VInv
<1>2. prog \in Programs /\ Size = Len(prog.code)
  BY MInvFacts
<1>3. ASSUME NEW q \in prog.paths, NEW k \in 1..Len(q), code[q[k]].op \in Effects
      PROVE  Handed(code[q[k]], Values(prog, code, q)[k - 1]) =
                 Handed(prog.code[q[k]], Values(prog, prog.code, q)[k - 1])
  <2> DEFINE j == q[k]
             env == Values(prog, code, q)[k - 1]
             other == Before(prog, q)[k - 1]
  <2>1. j \in 1..Size /\ k - 1 \in 0..Len(q)
    <3>1. Len(q) \in Nat /\ j \in 1..Size
      BY <1>2, PathFacts
    <3> QED
      BY <3>1
  <2>2. code[j].op = prog.code[j].op
    <3>1. Became(prog, code[j], j)
      BY <2>1, MInvFacts
    <3> QED
      BY <1>3, <3>1 DEF Became, Effects
  <2>3. Handed(code[j], other) = Handed(prog.code[j], other)
    BY <2>2 DEF MInv, SameReads
  <2>4. Agree(env, other)
    BY <2>1, Agreement
  <2>5. Handed(code[j], env) = Handed(code[j], other)
    <3>1. CASE code[j].op # "asm"
      <4>1. code[j].op \notin {"alloca", "asm", "nop"}
        BY <1>3, <3>1 DEF Effects
      <4> HIDE DEF j, env, other
      <4> QED
        BY <2>1, <2>4, <4>1, TakesTheSame
    <3>2. CASE code[j].op = "asm"
      <4>1. prog.code[j].args = << >>
        <5>1. j \in 1..Len(prog.code) /\ prog.code[j].op = "asm"
          BY <1>2, <2>1, <2>2, <3>2
        <5> HIDE DEF j
        <5> QED
          BY <1>2, <5>1, ModuleFacts
      <4> HIDE DEF j, env, other
      <4>2. Taken(code[j], other) = Taken(prog.code[j], other)
        BY <2>3, TakenHanded
      <4>3. DOMAIN code[j].args = {}
        <5>1. DOMAIN prog.code[j].args = {}
          BY <4>1
        <5> QED
          BY <4>2, <5>1, TakenFacts
      <4>4. Taken(code[j], env) = Taken(code[j], other)
        BY <4>3 DEF Taken
      <4> QED
        BY <3>2, <4>4 DEF Handed
    <3> QED
      BY <3>1, <3>2
  <2> QED
    BY <2>3, <2>5 DEF Before
<1>4. EffectsInOrder
  BY <1>3 DEF EffectsInOrder
<1> QED
  BY <1>1, <1>4 DEF SameEffects

\* All that is known when something was folded from nothing.
SInv == VInv /\ (~FoldedUnset => MInv)

LEMMA SInvStep == SInv /\ [Next]_vars => SInv'
<1> SUFFICES ASSUME SInv, [Next]_vars PROVE SInv'
  OBVIOUS
<1>1. VInv'
  BY VInvStep DEF SInv
<1>2. IInv
  BY DEF SInv, VInv, DInv
<1>3. ~FoldedUnset' => MInv'
  BY <1>2, UnsetStays, MInvStep DEF SInv
<1> QED
  BY <1>1, <1>3 DEF SInv

LEMMA SInvEffects == SInv => SameEffects
<1>1. ASSUME VInv, FoldedUnset PROVE SameEffects
  BY <1>1 DEF VInv, SameEffects, EffectsInOrder
<1>2. ASSUME MInv PROVE SameEffects
  BY <1>2, EffectsAgree
<1> QED
  BY <1>1, <1>2 DEF SInv

\* In a module whose functions share no operand the optimised code does what the
\* lowered code does: on every path what is left of the effects happens at the same
\* place with the same values, unless a BANG_EQUAL or an operation on a text was
\* folded, and only calls whose result is read may go (opt.c:209, 890, 970, 1064).
THEOREM EffectsAreKept ==
    ASSUME OperandsAreLocal
    PROVE  Spec => []SameEffects
<1>1. Init => SInv
  <2>1. Init => MInv
    BY MInvInit
  <2> QED
    BY <2>1 DEF SInv, MInv
<1> QED
  BY <1>1, SInvStep, SInvEffects, PTL DEF Spec
=============================================================================
