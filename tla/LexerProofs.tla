---------------------------- MODULE LexerProofs ----------------------------
(***************************************************************************)
(* The tokens of a text are its longest lexemes, proved for every text.    *)
(* The argument: what a turn of the loop takes is the longest lexeme where *)
(* it stands, so what has been read and what is meant from there on        *)
(* (Meant) is at every moment what is meant from the beginning on.         *)
(***************************************************************************)
EXTENDS Lexer, SequenceTheorems, FiniteSetTheorems, WellFoundedInduction, TLAPS

\* What has been read, and what is meant behind it.
ReadIsMeant ==
    NoToken \notin Range(Meant(text)[1]) =>
        /\ pos <= Len(text) + 1
        /\ line = LineOf(text, pos)
        /\ Meant(text)[1] = tokens \o Meant(text)[pos]

IInv ==
    /\ text \in Texts
    /\ pos \in Nat \ {0}
    /\ capacity \in Nat \ {0}
    /\ \E S : tokens \in Seq(S)
    /\ TokensFit
    /\ ReadIsMeant

-----------------------------------------------------------------------------
\* Every set of natural numbers has a least element.
LEMMA Least ==
    ASSUME NEW B \in SUBSET Nat, B # {}
    PROVE  \E n \in B : \A m \in B : n <= m
<1> DEFINE Upto == {1..n : n \in B}
<1>1. Upto \subseteq FiniteSubsetsOf(Nat) /\ Upto # {}
  <2>1. \A n \in B : 1..n \subseteq Nat /\ IsFiniteSet(1..n)
    BY FS_Interval
  <2>2. \A n \in B : 1..n \in FiniteSubsetsOf(Nat)
    BY <2>1 DEF FiniteSubsetsOf
  <2> QED
    BY <2>2
<1>2. PICK x \in Upto : \A y \in Upto : <<y, x>> \notin StrictSubsetOrdering(Nat)
  BY ONLY <1>1, FS_StrictSubsetOrderingWellFounded, WFMin
<1>3. PICK n \in B : x = 1..n
  OBVIOUS
<1>4. ASSUME NEW m \in B, m < n PROVE FALSE
  <2>1. 1..m \in Upto
    OBVIOUS
  <2>2. 1..m \subseteq 1..n /\ 1..m # 1..n
    <3>1. n \in 1..n /\ n \notin 1..m
      BY <1>4
    <3> QED
      BY <1>4, <3>1
  <2>3. <<1..m, 1..n>> \in StrictSubsetOrdering(Nat)
    BY <2>2 DEF StrictSubsetOrdering
  <2> QED
    BY <1>2, <1>3, <2>1, <2>3
<1> QED
  BY <1>4

\* A set of places up to N has a last one.
LEMMA Greatest ==
    ASSUME NEW N \in Nat, NEW B \in SUBSET (0..N), B # {}
    PROVE  \E n \in B : \A m \in B : m <= n
<1> DEFINE C == {N - n : n \in B}
<1>1. C \in SUBSET Nat /\ C # {}
  <2>1. \A n \in B : N - n \in Nat
    OBVIOUS
  <2> QED
    BY <2>1
<1>2. PICK c \in C : \A d \in C : c <= d
  <2> HIDE DEF C
  <2> QED
    BY <1>1, Least
<1>3. PICK n \in B : c = N - n
  OBVIOUS
<1>4. \A m \in B : m <= n
  <2> TAKE m \in B
  <2>1. N - m \in C
    OBVIOUS
  <2> QED
    BY <1>2, <1>3, <2>1
<1> QED
  BY <1>4

\* The least and the greatest member that Min and Max choose.
LEMMA MinIs ==
    ASSUME NEW B \in SUBSET Nat, B # {}
    PROVE  Min(B) \in B /\ \A m \in B : Min(B) <= m
<1>1. \E n \in B : \A m \in B : n <= m
  BY Least
<1> QED
  BY <1>1 DEF Min

LEMMA MaxIs ==
    ASSUME NEW N \in Nat, NEW B \in SUBSET (0..N), B # {}
    PROVE  Max(B) \in B /\ \A m \in B : m <= Max(B)
<1>1. \E n \in B : \A m \in B : n >= m
  BY Greatest
<1> QED
  BY <1>1 DEF Max

-----------------------------------------------------------------------------
(* Texts and their parts.                                                  *)

\* A text is a finite sequence of characters.
LEMMA TextFacts ==
    ASSUME text \in Texts
    PROVE  /\ text \in Seq(Chars) /\ Len(text) \in Nat
           /\ \A p \in 1..Len(text) : text[p] \in Chars
<1>1. text \in Seq(Chars)
  BY LexerAssumption
<1> QED
  BY <1>1

\* The part of a text from place p to place n.
LEMMA PartIs ==
    ASSUME NEW t \in Seq(Chars), NEW p \in 1..Len(t), NEW n \in p..Len(t)
    PROVE  LET s == SubSeq(t, p, n)
           IN  /\ s \in Seq(Chars)
               /\ Len(s) = n - p + 1 /\ DOMAIN s = 1..(n - p + 1)
               /\ \A k \in 1..(n - p + 1) : s[k] = t[p + k - 1]
               /\ Range(s) = {t[q] : q \in p..n}
               /\ s # <<>>
<1> DEFINE s == SubSeq(t, p, n)
<1>1. /\ s \in Seq(Chars)
      /\ Len(s) = n - p + 1 /\ DOMAIN s = 1..(n - p + 1)
      /\ \A k \in 1..(n - p + 1) : s[k] = t[p + k - 1]
  OBVIOUS
<1>2. Range(s) = {t[q] : q \in p..n}
  <2>1. ASSUME NEW k \in 1..(n - p + 1) PROVE s[k] \in {t[q] : q \in p..n}
    BY <1>1
  <2>2. ASSUME NEW q \in p..n PROVE t[q] \in {s[k] : k \in 1..(n - p + 1)}
    <3>1. q - p + 1 \in 1..(n - p + 1) /\ p + (q - p + 1) - 1 = q
      OBVIOUS
    <3> QED
      BY <1>1, <3>1
  <2> QED
    BY <1>1, <2>1, <2>2 DEF Range
<1> QED
  BY <1>1, <1>2

\* The longest lexeme is found by its end.
LEMMA LexemeIs ==
    ASSUME NEW t \in Seq(Chars), NEW p \in 1..Len(t), NEW m \in p..Len(t),
           IsLexeme(SubSeq(t, p, m)),
           \A n \in p..Len(t) : IsLexeme(SubSeq(t, p, n)) => n <= m
    PROVE  Lexeme(t, p) = SubSeq(t, p, m)
<1> DEFINE ends == {n \in p..Len(t) : IsLexeme(SubSeq(t, p, n))}
<1>1. m \in ends /\ ends \in SUBSET (0..Len(t)) /\ Len(t) \in Nat
  OBVIOUS
<1>2. \A n \in ends : n <= m
  OBVIOUS
<1>3. Max(ends) = m
  <2>1. Max(ends) \in ends /\ \A n \in ends : n <= Max(ends)
    <3> HIDE DEF ends
    <3> QED
      BY <1>1, MaxIs
  <2>2. Max(ends) <= m /\ m <= Max(ends) /\ Max(ends) \in Nat
    BY <1>1, <1>2, <2>1
  <2> QED
    BY <2>2
<1> QED
  BY <1>1, <1>3, Zenon DEF Lexeme

\* Where no part of the text is a lexeme, there is none.
LEMMA NoLexemeIs ==
    ASSUME NEW t \in Seq(Chars), NEW p \in 1..Len(t),
           \A n \in p..Len(t) : ~IsLexeme(SubSeq(t, p, n))
    PROVE  Lexeme(t, p) = <<>>
  BY Zenon DEF Lexeme

\* A lexeme that is found is a part of the text that begins at the place.
LEMMA LexemeFound ==
    ASSUME NEW t \in Seq(Chars), NEW p \in 1..Len(t)
    PROVE  \/ Lexeme(t, p) = <<>>
           \/ \E m \in p..Len(t) :
                 /\ Lexeme(t, p) = SubSeq(t, p, m) /\ IsLexeme(SubSeq(t, p, m))
                 /\ Len(Lexeme(t, p)) = m - p + 1 /\ Lexeme(t, p) # <<>>
<1> DEFINE ends == {n \in p..Len(t) : IsLexeme(SubSeq(t, p, n))}
<1>1. CASE ends = {}
  BY <1>1, NoLexemeIs
<1>2. CASE ends # {}
  <2>1. ends \in SUBSET (0..Len(t)) /\ Len(t) \in Nat
    OBVIOUS
  <2>2. Max(ends) \in ends
    <3> HIDE DEF ends
    <3> QED
      BY <1>2, <2>1, MaxIs
  <2>3. Lexeme(t, p) = SubSeq(t, p, Max(ends))
    BY <1>2, Zenon DEF Lexeme
  <2> HIDE DEF ends
  <2>4. PICK m \in p..Len(t) : m = Max(ends) /\ IsLexeme(SubSeq(t, p, m))
    BY <2>2 DEF ends
  <2> QED
    BY <2>3, <2>4, PartIs
<1> QED
  BY <1>1, <1>2

-----------------------------------------------------------------------------
(* What is meant.                                                          *)

\* A token, or none, in front of those that follow.
MeantAt(t, p, behind) ==
    LET s == Lexeme(t, p) IN
    IF s = <<>> THEN <<NoToken>>
    ELSE IF IsBlank(s) THEN behind
    ELSE IF "\n" \in Range(s) THEN <<NoToken>>
    ELSE <<TokenOf(s, LineOf(t, p))>> \o behind

\* A function that gives what is meant from n on.
Solves(t, n, f) ==
    f = [p \in n..Len(t) + 1 |->
            IF p > Len(t) THEN <<>> ELSE MeantAt(t, p, f[p + Len(Lexeme(t, p))])]

\* The recursive definition of Meant has a solution: otherwise there would be a
\* last place from which it had none.
LEMMA SolutionExists ==
    ASSUME NEW t \in Seq(Chars)
    PROVE  \E f : Solves(t, 1, f)
<1> DEFINE N == Len(t)
           B == {n \in 1..N + 1 : ~ \E f : Solves(t, n, f)}
<1>0. N \in Nat
  OBVIOUS
<1>1. B = {}
  <2> SUFFICES ASSUME B # {} PROVE FALSE
    OBVIOUS
  <2>1. PICK n \in B : \A m \in B : m <= n
    <3>1. B \in SUBSET (0..N + 1) /\ N + 1 \in Nat
      BY <1>0
    <3> HIDE DEF B
    <3> QED
      BY <3>1, Greatest
  <2>2. n \in 1..N + 1 /\ ~ \E f : Solves(t, n, f)
    OBVIOUS
  <2> HIDE DEF B
  <2>3. n # N + 1
    <3> SUFFICES ASSUME n = N + 1 PROVE FALSE
      OBVIOUS
    <3> DEFINE g == [p \in n..N + 1 |-> <<>>]
    <3>1. \A p \in n..N + 1 : p > N
      BY <1>0
    <3>2. Solves(t, n, g)
      BY <3>1 DEF Solves
    <3> HIDE DEF g
    <3> QED
      BY <2>2, <3>2
  <2>4. n + 1 \in 1..N + 1 /\ n + 1 \notin B /\ n \in 1..N
    BY <1>0, <2>1, <2>2, <2>3
  <2>5. PICK f : Solves(t, n + 1, f)
    BY <2>4 DEF B
  <2> DEFINE size(p) == Len(Lexeme(t, p))
             g == [p \in n..N + 1 |-> IF p = n THEN MeantAt(t, n, f[n + size(n)]) ELSE f[p]]
  <2>6. ASSUME NEW p \in n..N + 1
        PROVE  g[p] = IF p > N THEN <<>> ELSE MeantAt(t, p, g[p + size(p)])
    <3>1. CASE p > N
      <4>1. p \in (n + 1)..N + 1 /\ p # n
        BY <1>0, <2>4, <3>1
      <4>2. f[p] = <<>>
        BY <2>5, <3>1, <4>1 DEF Solves
      <4> QED
        BY <3>1, <4>1, <4>2
    <3>2. CASE p <= N
      <4>1. p \in 1..Len(t) /\ ~(p > N)
        BY <1>0, <2>4, <3>2
      <4>2. CASE Lexeme(t, p) = <<>>
        <5>1. \A e : MeantAt(t, p, e) = <<NoToken>>
          BY <4>2 DEF MeantAt
        <5>2. CASE p = n
          BY <4>1, <5>1, <5>2
        <5>3. CASE p # n
          <6>1. p \in (n + 1)..N + 1
            BY <1>0, <2>4, <5>3
          <6>2. f[p] = MeantAt(t, p, f[p + size(p)])
            BY <2>5, <4>1, <6>1 DEF Solves
          <6> QED
            BY <4>1, <5>1, <5>3, <6>2
        <5> QED
          BY <5>2, <5>3
      <4>3. CASE Lexeme(t, p) # <<>>
        <5>1. PICK m \in p..Len(t) : size(p) = m - p + 1
          BY <4>1, <4>3, LexemeFound
        <5>2. p + size(p) \in (n + 1)..N + 1 /\ p + size(p) # n
          BY <1>0, <2>4, <4>1, <5>1
        <5> HIDE DEF size
        <5>3. g[p + size(p)] = f[p + size(p)]
          <6>1. p + size(p) \in n..N + 1
            BY <1>0, <2>4, <5>2
          <6> QED
            BY <5>2, <6>1
        <5>4. CASE p = n
          BY <4>1, <5>3, <5>4
        <5>5. CASE p # n
          <6>1. p \in (n + 1)..N + 1
            BY <1>0, <2>4, <5>5
          <6>2. f[p] = MeantAt(t, p, f[p + size(p)])
            BY <2>5, <4>1, <6>1 DEF Solves, size
          <6> QED
            BY <4>1, <5>3, <5>5, <6>2
        <5> QED
          BY <5>4, <5>5
      <4> QED
        BY <4>2, <4>3
    <3> QED
      BY <1>0, <3>1, <3>2
  <2>7. g = [p \in n..N + 1 |-> g[p]]
    OBVIOUS
  <2> HIDE DEF g
  <2>8. g = [p \in n..N + 1 |-> IF p > N THEN <<>> ELSE MeantAt(t, p, g[p + size(p)])]
    BY <2>6, <2>7
  <2>9. Solves(t, n, g)
    BY <2>8 DEF Solves
  <2> QED
    BY <2>2, <2>9
<1>2. 1 \in 1..N + 1
  BY <1>0
<1> QED
  BY <1>1, <1>2, Zenon

\* What is meant from a place on.
LEMMA MeantIs ==
    ASSUME NEW t \in Seq(Chars)
    PROVE  /\ Meant(t)[Len(t) + 1] = <<>>
           /\ \A p \in 1..Len(t) :
                 Meant(t)[p] = MeantAt(t, p, Meant(t)[p + Len(Lexeme(t, p))])
<1> DEFINE F == CHOOSE f : Solves(t, 1, f)
<1>1. Solves(t, 1, F)
  BY SolutionExists
<1>2. Meant(t) = F
  BY Zenon DEF Meant, Solves, MeantAt
<1>3. Len(t) \in Nat
  OBVIOUS
<1> HIDE DEF F
<1>4. \A p \in 1..Len(t) + 1 :
         F[p] = IF p > Len(t) THEN <<>> ELSE MeantAt(t, p, F[p + Len(Lexeme(t, p))])
  BY <1>1 DEF Solves
<1>5. Len(t) + 1 \in 1..Len(t) + 1 /\ Len(t) + 1 > Len(t)
  BY <1>3
<1>6. F[Len(t) + 1] = <<>>
  BY <1>4, <1>5
<1>7. ASSUME NEW p \in 1..Len(t)
      PROVE  F[p] = MeantAt(t, p, F[p + Len(Lexeme(t, p))])
  <2>1. p \in 1..Len(t) + 1 /\ ~(p > Len(t))
    BY <1>3
  <2> QED
    BY <1>4, <2>1
<1> QED
  BY <1>2, <1>6, <1>7

Meanings(t) == {NoToken} \cup {TokenOf(Lexeme(t, p), LineOf(t, p)) : p \in 1..Len(t)}

\* What is meant is a sequence of tokens.
LEMMA MeantType ==
    ASSUME NEW t \in Seq(Chars)
    PROVE  \A p \in 1..Len(t) + 1 : Meant(t)[p] \in Seq(Meanings(t))
<1> DEFINE T == Seq(Meanings(t))
           F == Meant(t)
           B == {p \in 1..Len(t) + 1 : F[p] \notin T}
<1>0. Len(t) \in Nat
  OBVIOUS
<1> SUFFICES ASSUME B # {} PROVE FALSE
  OBVIOUS
<1>1. PICK n \in B : \A m \in B : m <= n
  <2>1. B \in SUBSET (0..Len(t) + 1) /\ Len(t) + 1 \in Nat
    BY <1>0
  <2> HIDE DEF B
  <2> QED
    BY <2>1, Greatest
<1>2. n \in 1..Len(t) + 1 /\ F[n] \notin T
  BY <1>1
<1>3. <<>> \in T /\ <<NoToken>> \in T
  BY DEF Meanings
<1>4. n # Len(t) + 1
  <2> HIDE DEF F
  <2>1. F[Len(t) + 1] = <<>>
    BY MeantIs DEF F
  <2> QED
    BY <1>2, <1>3, <2>1
<1>5. n \in 1..Len(t)
  BY <1>0, <1>2, <1>4
<1>6. F[n] = MeantAt(t, n, F[n + Len(Lexeme(t, n))])
  BY <1>5, MeantIs
<1>7. Lexeme(t, n) # <<>>
  BY <1>2, <1>3, <1>6 DEF MeantAt
<1>8. PICK m \in n..Len(t) : Len(Lexeme(t, n)) = m - n + 1
  BY <1>5, <1>7, LexemeFound
<1>9. n + Len(Lexeme(t, n)) = m + 1 /\ m + 1 \in 1..Len(t) + 1 /\ m + 1 > n
  BY <1>0, <1>5, <1>8
<1>10. F[m + 1] \in T
  BY <1>1, <1>9
<1>11. <<TokenOf(Lexeme(t, n), LineOf(t, n))>> \in T
  BY <1>5 DEF Meanings
<1>12. <<TokenOf(Lexeme(t, n), LineOf(t, n))>> \o F[m + 1] \in T
  BY <1>10, <1>11
<1> HIDE DEF T, F, B
<1> QED
  BY <1>2, <1>3, <1>6, <1>9, <1>10, <1>12, Zenon DEF MeantAt

-----------------------------------------------------------------------------
(* Lines.                                                                  *)

\* Without a line break the line stays the same.
LEMMA LineStays ==
    ASSUME NEW t \in Seq(Chars), NEW p \in 1..Len(t), NEW m \in p..Len(t),
           "\n" \notin Range(SubSeq(t, p, m))
    PROVE  LineOf(t, m + 1) = LineOf(t, p)
<1>1. \A q \in p..m : t[q] # "\n"
  BY PartIs
<1>2. ASSUME NEW k \in 1..(m + 1) - 1, t[k] = "\n" PROVE k \in 1..p - 1
  BY <1>1, <1>2
<1>3. ASSUME NEW k \in 1..p - 1 PROVE k \in 1..(m + 1) - 1
  OBVIOUS
<1>4. {k \in 1..(m + 1) - 1 : t[k] = "\n"} = {k \in 1..p - 1 : t[k] = "\n"}
  BY <1>2, <1>3
<1> QED
  BY <1>4 DEF LineOf

\* One character further on, it is the same or the next.
LEMMA LineNext ==
    ASSUME NEW t \in Seq(Chars), NEW p \in 1..Len(t)
    PROVE  /\ LineOf(t, p) \in Nat
           /\ LineOf(t, p + 1) = IF t[p] = "\n" THEN LineOf(t, p) + 1 ELSE LineOf(t, p)
<1> DEFINE breaks(q) == {k \in 1..q - 1 : t[k] = "\n"}
<1>0. \A q : LineOf(t, q) = 1 + Cardinality(breaks(q))
  BY DEF LineOf
<1>1. IsFiniteSet(breaks(p)) /\ Cardinality(breaks(p)) \in Nat
  <2>1. IsFiniteSet(1..p - 1) /\ breaks(p) \subseteq 1..p - 1
    BY FS_Interval
  <2> QED
    BY <2>1, FS_Subset, FS_CardinalityType
<1>2. CASE t[p] = "\n"
  <2>1. breaks(p + 1) = breaks(p) \cup {p} /\ p \notin breaks(p)
    <3>1. \A k : k \in 1..(p + 1) - 1 <=> k \in 1..p - 1 \/ k = p
      OBVIOUS
    <3> QED
      BY <1>2, <3>1
  <2> HIDE DEF breaks
  <2>2. Cardinality(breaks(p + 1)) = Cardinality(breaks(p)) + 1
    BY <1>1, <2>1, FS_AddElement
  <2> QED
    BY <1>0, <1>1, <1>2, <2>2
<1>3. CASE t[p] # "\n"
  <2>1. breaks(p + 1) = breaks(p)
    <3>1. \A k : k \in 1..(p + 1) - 1 <=> k \in 1..p - 1 \/ k = p
      OBVIOUS
    <3> QED
      BY <1>3, <3>1
  <2> HIDE DEF breaks
  <2>2. LineOf(t, p + 1) = LineOf(t, p) /\ LineOf(t, p) \in Nat
    BY <1>0, <1>1, <2>1
  <2> QED
    BY <1>3, <2>2
<1> QED
  BY <1>2, <1>3

-----------------------------------------------------------------------------
(* Turns of the loop.                                                      *)

\* All lexemes of the text are lexemes without a line break inside.
AllMeant == NoToken \notin Range(Meant(text)[1])

\* The lexeme at the cursor ends at m.
LexemeEnds(m) == m \in pos..Len(text) /\ Lexeme(text, pos) = SubSeq(text, pos, m)

\* Where all is meant, there is a lexeme at the cursor.
LEMMA LexemeThere ==
    ASSUME IInv, AllMeant, More
    PROVE  /\ pos \in 1..Len(text) /\ line = LineOf(text, pos)
           /\ Meant(text)[1] = tokens \o Meant(text)[pos]
           /\ Lexeme(text, pos) # <<>>
           /\ IsBlank(Lexeme(text, pos)) \/ "\n" \notin Range(Lexeme(text, pos))
<1>1. text \in Seq(Chars) /\ Len(text) \in Nat
  BY TextFacts DEF IInv
<1>2. pos \in 1..Len(text)
  BY <1>1 DEF IInv, More
<1>3. line = LineOf(text, pos) /\ Meant(text)[1] = tokens \o Meant(text)[pos]
  BY DEF IInv, ReadIsMeant, AllMeant
<1>4. PICK S : tokens \in Seq(S)
  BY DEF IInv
<1>5. Meant(text)[pos] \in Seq(Meanings(text))
  BY <1>1, <1>2, MeantType
<1>6. Meant(text)[pos] # <<NoToken>>
  <2> SUFFICES ASSUME Meant(text)[pos] = <<NoToken>> PROVE FALSE
    OBVIOUS
  <2> DEFINE n == Len(tokens) + 1
  <2>1. n \in DOMAIN (tokens \o <<NoToken>>) /\ (tokens \o <<NoToken>>)[n] = NoToken
    BY <1>4
  <2> QED
    BY <1>3, <2>1 DEF Range, AllMeant
<1>7. Meant(text)[pos] = MeantAt(text, pos, Meant(text)[pos + Len(Lexeme(text, pos))])
  BY <1>1, <1>2, MeantIs
<1> QED
  BY <1>2, <1>3, <1>6, <1>7, Zenon DEF MeantAt

\* Something between two sequences belongs to the first as well.
LEMMA AppendBetween ==
           \A U : \A s, r \in Seq(U) : \A x \in U : \A all, rest :
              all = s \o rest /\ rest = <<x>> \o r => all = Append(s, x) \o r
<1> SUFFICES ASSUME NEW U, NEW s \in Seq(U), NEW r \in Seq(U), NEW x \in U
             PROVE  s \o (<<x>> \o r) = Append(s, x) \o r
  OBVIOUS
<1> DEFINE a == s \o (<<x>> \o r)
           b == Append(s, x) \o r
<1>1. a \in Seq(U) /\ b \in Seq(U)
  OBVIOUS
<1>2. Len(a) = Len(s) + 1 + Len(r) /\ Len(b) = Len(a)
  OBVIOUS
<1>3. ASSUME NEW k \in 1..Len(a) PROVE a[k] = b[k]
  <2>1. CASE k <= Len(s)
    BY <2>1
  <2>2. CASE k = Len(s) + 1
    BY <2>2
  <2>3. CASE k > Len(s) + 1
    <3>1. k - Len(s) - 1 \in 1..Len(r)
      BY <1>2, <2>3
    <3>2. b[k] = r[k - Len(s) - 1]
      BY <1>2, <2>3, <3>1
    <3>3. (<<x>> \o r)[k - Len(s)] = r[k - Len(s) - 1]
      BY <1>2, <2>3, <3>1
    <3>4. a[k] = (<<x>> \o r)[k - Len(s)]
      BY <1>2, <2>3, <3>1
    <3> QED
      BY <3>2, <3>3, <3>4
  <2> QED
    BY <1>2, <2>1, <2>2, <2>3
<1> HIDE DEF a, b
<1>4. a = b
  BY <1>1, <1>2, <1>3, SeqEqual
<1> QED
  BY <1>4 DEF a, b

\* A turn that takes a lexeme which is not blank and writes its token.
LEMMA TokenTurn ==
    ASSUME IInv, AllMeant, More, NEW m, LexemeEnds(m), ~IsBlank(Lexeme(text, pos)),
           NEW type, NEW view, Put(type, view, m + 1),
           TokenOf(Lexeme(text, pos), line) = [type |-> type, view |-> view, line |-> line]
    PROVE  ReadIsMeant'
<1>1. text \in Seq(Chars) /\ Len(text) \in Nat
  BY TextFacts DEF IInv
<1>2. /\ pos \in 1..Len(text) /\ line = LineOf(text, pos)
      /\ Meant(text)[1] = tokens \o Meant(text)[pos]
      /\ Lexeme(text, pos) # <<>> /\ "\n" \notin Range(Lexeme(text, pos))
  BY LexemeThere
<1>3. m \in pos..Len(text) /\ Lexeme(text, pos) = SubSeq(text, pos, m)
  BY DEF LexemeEnds
<1>4. Len(Lexeme(text, pos)) = m - pos + 1
  BY <1>1, <1>2, <1>3, PartIs
<1>5. pos + Len(Lexeme(text, pos)) = m + 1 /\ m + 1 \in 1..Len(text) + 1
  BY <1>1, <1>2, <1>3, <1>4
<1> DEFINE token == [type |-> type, view |-> view, line |-> line]
           F == Meant(text)
<1>6. F[pos] = <<token>> \o F[m + 1]
  BY <1>1, <1>2, <1>5, MeantIs DEF MeantAt
<1>7. F[m + 1] \in Seq(Meanings(text))
  BY <1>1, <1>5, MeantType
<1>8. PICK S : tokens \in Seq(S)
  BY DEF IInv
<1>9. F[1] = Append(tokens, token) \o F[m + 1]
  <2> DEFINE U == S \cup {token} \cup Meanings(text)
  <2>1. tokens \in Seq(U) /\ token \in U /\ F[m + 1] \in Seq(U)
    <3>1. S \subseteq U /\ Meanings(text) \subseteq U /\ token \in U
      OBVIOUS
    <3> HIDE DEF U, token, F
    <3> QED
      BY <1>7, <1>8, <3>1, SeqMonotonic
  <2> HIDE DEF U, token, F
  <2>2. F[1] = tokens \o F[pos]
    BY <1>2 DEF F
  <2>3. ASSUME NEW r \in Seq(U), NEW rest, NEW all, rest = <<token>> \o r, all = tokens \o rest
        PROVE  all = Append(tokens, token) \o r
    BY ONLY <2>1, <2>3, AppendBetween, SMT
  <2> QED
    BY ONLY <1>6, <2>1, <2>2, <2>3, Zenon
<1>10. line = LineOf(text, m + 1)
  BY <1>1, <1>2, <1>3, LineStays
<1>11. text' = text /\ line' = line /\ pos' = m + 1 /\ tokens' = Append(tokens, token)
  BY DEF Put
<1> HIDE DEF token
<1>12. Meant(text')[1] = tokens' \o Meant(text')[pos']
  BY ONLY <1>9, <1>11, Zenon DEF F
<1>13. line' = LineOf(text', pos')
  BY ONLY <1>10, <1>11, Zenon
<1>14. pos' <= Len(text') + 1
  BY <1>1, <1>5, <1>11
<1> QED
  BY <1>12, <1>13, <1>14 DEF ReadIsMeant

\* A turn that takes a blank.
LEMMA BlankTurn ==
    ASSUME IInv, AllMeant, More, NEW m, LexemeEnds(m), IsBlank(Lexeme(text, pos)),
           text' = text, tokens' = tokens, pos' = m + 1, line' = LineOf(text, m + 1)
    PROVE  ReadIsMeant'
<1>1. text \in Seq(Chars) /\ Len(text) \in Nat
  BY TextFacts DEF IInv
<1>2. /\ pos \in 1..Len(text) /\ line = LineOf(text, pos)
      /\ Meant(text)[1] = tokens \o Meant(text)[pos]
      /\ Lexeme(text, pos) # <<>>
  BY LexemeThere
<1>3. m \in pos..Len(text) /\ Lexeme(text, pos) = SubSeq(text, pos, m)
  BY DEF LexemeEnds
<1>4. Len(Lexeme(text, pos)) = m - pos + 1
  BY <1>1, <1>2, <1>3, PartIs
<1>5. pos + Len(Lexeme(text, pos)) = m + 1 /\ m + 1 \in 1..Len(text) + 1
  BY <1>1, <1>2, <1>3, <1>4
<1>6. Meant(text)[pos] = Meant(text)[m + 1]
  BY <1>1, <1>2, <1>5, MeantIs DEF MeantAt
<1>7. /\ pos' <= Len(text') + 1 /\ line' = LineOf(text', pos')
      /\ Meant(text')[1] = tokens' \o Meant(text')[pos']
  BY <1>1, <1>2, <1>5, <1>6
<1> QED
  BY <1>7 DEF ReadIsMeant

-----------------------------------------------------------------------------
(* Classes of characters, and of lexemes by their first one.               *)

\* The digits, one by one.
LEMMA DigitsAre ==
    /\ DigitsOf(10) = {"0", "1", "2", "3", "4", "5", "6", "7", "8", "9"}
    /\ DigitsOf(16) = DigitsOf(10) \cup {"a", "b", "c", "d", "e", "f"}
<1>1. /\ Hex[1] = "0" /\ Hex[2] = "1" /\ Hex[3] = "2" /\ Hex[4] = "3" /\ Hex[5] = "4"
      /\ Hex[6] = "5" /\ Hex[7] = "6" /\ Hex[8] = "7" /\ Hex[9] = "8" /\ Hex[10] = "9"
      /\ Hex[11] = "a" /\ Hex[12] = "b" /\ Hex[13] = "c" /\ Hex[14] = "d"
      /\ Hex[15] = "e" /\ Hex[16] = "f"
  BY DEF Hex
<1>2. \A k : k \in 1..10 <=> k \in {1, 2, 3, 4, 5, 6, 7, 8, 9, 10}
  OBVIOUS
<1>3. \A k : k \in 1..16 <=> k \in {1, 2, 3, 4, 5, 6, 7, 8, 9, 10, 11, 12, 13, 14, 15, 16}
  OBVIOUS
<1>4. DigitsOf(10) = {"0", "1", "2", "3", "4", "5", "6", "7", "8", "9"}
  <2>1. DigitsOf(10) = {Hex[k] : k \in {1, 2, 3, 4, 5, 6, 7, 8, 9, 10}}
    BY <1>2 DEF DigitsOf
  <2> QED
    BY <1>1, <2>1
<1>5. DigitsOf(16) = {Hex[k] : k \in {1, 2, 3, 4, 5, 6, 7, 8, 9, 10, 11, 12, 13, 14, 15, 16}}
  BY <1>3 DEF DigitsOf
<1> QED
  BY <1>1, <1>4, <1>5

\* The classes of characters are apart from each other.
LEMMA Classes ==
    /\ Letters \cap (Spaces \cup Symbols \cup DigitsOf(10)) = {}
    /\ DigitsOf(10) \cap (Spaces \cup Symbols) = {}
    /\ Spaces \cap Symbols = {}
    /\ NUL \notin Chars
    /\ Letters \subseteq WordChars
    /\ "x" \notin DigitsOf(10) /\ "b" \notin DigitsOf(10)
<1>1. Letters \subseteq Chars \ (Spaces \cup Symbols \cup DigitsOf(10)) /\ NUL \notin Chars
  BY LexerAssumption
<1>2. DigitsOf(10) \cap (Spaces \cup Symbols) = {}
  BY DigitsAre DEF Spaces, Symbols
<1>3. Spaces \cap Symbols = {}
  BY DEF Spaces, Symbols
<1>4. "x" \notin DigitsOf(10) /\ "b" \notin DigitsOf(10)
  BY DigitsAre
<1> QED
  BY <1>1, <1>2, <1>3, <1>4 DEF WordChars

\* What it takes to begin with two slashes.
LEMMA CommentBegins ==
    ASSUME NEW s \in Seq(Chars)
    PROVE  IsPrefix(<<"/", "/">>, s) <=> Len(s) >= 2 /\ s[1] = "/" /\ s[2] = "/"
<1> DEFINE c == <<"/", "/">>
<1>1. c \in Seq({"/"}) /\ Len(c) = 2 /\ c[1] = "/" /\ c[2] = "/"
  OBVIOUS
<1> HIDE DEF c
<1>2. SubSeq(c, 1, Len(c)) = c
  BY <1>1, SubSeqFull
<1>3. CASE Len(s) >= 2
  <2> DEFINE a == SubSeq(s, 1, 2)
  <2>1. /\ a \in Seq(Chars) /\ Len(a) = 2
        /\ a[1] = s[1] /\ a[2] = s[2]
    BY <1>3
  <2>2. \A k : k \in 1..2 <=> k = 1 \/ k = 2
    OBVIOUS
  <2>3. c = a <=> s[1] = "/" /\ s[2] = "/"
    <3> HIDE DEF a
    <3>1. c = a => s[1] = "/" /\ s[2] = "/"
      BY <1>1, <2>1
    <3>2. ASSUME s[1] = "/", s[2] = "/" PROVE c = a
      <4>1. c = [k \in 1..2 |-> c[k]] /\ a = [k \in 1..2 |-> a[k]]
        BY <1>1, <2>1
      <4>2. \A k \in 1..2 : c[k] = a[k]
        BY <1>1, <2>1, <2>2, <3>2
      <4> HIDE DEF c
      <4> QED
        BY <4>1, <4>2
    <3> QED
      BY <3>1, <3>2
  <2> QED
    BY <1>1, <1>2, <1>3, <2>3 DEF IsPrefix
<1>4. CASE ~(Len(s) >= 2)
  <2>1. ~(Len(c) <= Len(s))
    BY <1>1, <1>4
  <2> QED
    BY <1>4, <2>1 DEF IsPrefix
<1> QED
  BY <1>3, <1>4

\* The character that begins and ends a string.
Quote == "\""

\* The quote is a symbol, and none of the others.
LEMMA QuoteIs ==
    /\ {Quote, "'", "/", "=", "!", "<", ">"} \subseteq Symbols
    /\ Quote \notin {"'", "/", "\\", "=", "!", "<", ">"}
<1>1. {Quote, "'", "/", "=", "!", "<", ">"} \subseteq Symbols
  BY Zenon DEF Symbols, Quote
<1>2. Quote \notin {"'", "/", "\\", "=", "!", "<", ">"}
  BY Zenon DEF Quote
<1> QED
  BY <1>1, <1>2

\* The kind of a lexeme decides the class of its first character.
LEMMA FirstCharacters ==
    ASSUME NEW s \in Seq(Chars), s # <<>>
    PROVE  /\ IsWord(s) => s[1] \in Letters
           /\ IsNumber(s) => s[1] \in DigitsOf(10)
           /\ IsString(s) => s[1] = Quote
           /\ IsChar(s) => s[1] = "'"
           /\ IsSymbol(s) => s[1] \in Symbols \ {Quote, "'"}
           /\ IsBlank(s) => s[1] \in Spaces \/ (s[1] = "/" /\ Len(s) >= 2 /\ s[2] = "/")
<1>1. Len(s) \in Nat /\ Len(s) >= 1
  OBVIOUS
<1>2. IsWord(s) => s[1] \in Letters
  BY DEF IsWord
<1>3. ASSUME IsNumber(s) PROVE s[1] \in DigitsOf(10)
  <2>1. PICK n \in 1..Len(s) : Range(SubSeq(s, 1, n)) \subseteq DigitsOf(10)
    BY <1>3 DEF IsNumber
  <2>2. 1 \in DOMAIN SubSeq(s, 1, n) /\ SubSeq(s, 1, n)[1] = s[1]
    BY <1>1
  <2> QED
    BY <2>1, <2>2 DEF Range
<1>4. IsString(s) => s[1] = Quote
  BY Zenon DEF IsString, Quote
<1>5. IsChar(s) => s[1] = "'"
  BY DEF IsChar
<1>6. ASSUME IsSymbol(s) PROVE s[1] \in Symbols \ {Quote, "'"}
  <2>0. IsSymbol(s) <=> s \in Doubles \cup {<<c>> : c \in Symbols \ {Quote, "'"}}
    BY Zenon DEF IsSymbol, Quote
  <2>1. CASE s \in Doubles
    <3>1. s[1] \in {"=", "!", "<", ">"}
      BY <2>1 DEF Doubles
    <3> QED
      BY <3>1, QuoteIs
  <2>2. CASE s \in {<<c>> : c \in Symbols \ {Quote, "'"}}
    <3>1. PICK c \in Symbols \ {Quote, "'"} : s = <<c>>
      BY <2>2
    <3> QED
      BY <3>1
  <2> QED
    BY <1>6, <2>0, <2>1, <2>2
<1>7. ASSUME IsBlank(s) PROVE s[1] \in Spaces \/ (s[1] = "/" /\ Len(s) >= 2 /\ s[2] = "/")
  <2>1. CASE s \in {<<c>> : c \in Spaces}
    <3>1. PICK c \in Spaces : s = <<c>>
      BY <2>1
    <3> QED
      BY <3>1
  <2>2. CASE IsPrefix(<<"/", "/">>, s)
    BY <2>2, CommentBegins
  <2> QED
    BY <1>7, <2>1, <2>2 DEF IsBlank
<1> QED
  BY <1>2, <1>3, <1>4, <1>5, <1>6, <1>7

\* Of which kind a lexeme is, by its first character.
LEMMA KindsApart ==
    ASSUME NEW s \in Seq(Chars), s # <<>>
    PROVE  /\ s[1] \in Letters => (IsLexeme(s) <=> IsWord(s)) /\ ~IsBlank(s)
           /\ s[1] \in DigitsOf(10) =>
                 (IsLexeme(s) <=> IsNumber(s)) /\ ~IsWord(s) /\ ~IsBlank(s)
           /\ s[1] = Quote =>
                 (IsLexeme(s) <=> IsString(s)) /\ ~IsWord(s) /\ ~IsNumber(s) /\ ~IsBlank(s)
           /\ s[1] = "'" =>
                 /\ IsLexeme(s) <=> IsChar(s)
                 /\ ~IsWord(s) /\ ~IsNumber(s) /\ ~IsString(s) /\ ~IsBlank(s)
           /\ s[1] \in Symbols \ {Quote, "'"} =>
                 /\ IsLexeme(s) <=> IsSymbol(s) \/ IsBlank(s)
                 /\ ~IsWord(s) /\ ~IsNumber(s) /\ ~IsString(s) /\ ~IsChar(s)
           /\ s[1] \in Spaces => (IsLexeme(s) <=> IsBlank(s)) /\ ~IsSymbol(s)
           /\ s[1] \notin Spaces \cup Letters \cup DigitsOf(10) \cup Symbols => ~IsLexeme(s)
<1> QED
  BY QuoteIs, FirstCharacters, Classes DEF IsLexeme

-----------------------------------------------------------------------------
(* The ends that the actions find.                                         *)

\* Past finds the first place whose character is not of a set.
LEMMA PastIs ==
    ASSUME text \in Texts, NEW p \in 1..Len(text) + 1, NEW set, NUL \notin set
    PROVE  /\ Past(p, set) \in p..Len(text) + 1
           /\ \A q \in p..Past(p, set) - 1 : q <= Len(text) /\ text[q] \in set
           /\ Past(p, set) <= Len(text) => text[Past(p, set)] \notin set
<1>1. Len(text) \in Nat
  BY TextFacts
<1> DEFINE B == {n \in p..Len(text) + 1 : At(n) \notin set}
<1>2. Len(text) + 1 \in B
  <2>1. At(Len(text) + 1) = NUL
    BY <1>1 DEF At
  <2> QED
    BY <1>1, <2>1
<1>3. Min(B) \in B /\ \A m \in B : Min(B) <= m
  <2>1. B \in SUBSET Nat /\ B # {}
    BY <1>1, <1>2
  <2> HIDE DEF B
  <2> QED
    BY <2>1, MinIs
<1>4. Past(p, set) = Min(B)
  BY DEF Past
<1> DEFINE m == Past(p, set)
<1>5. m \in p..Len(text) + 1 /\ At(m) \notin set
  BY <1>3, <1>4
<1>6. ASSUME NEW q \in p..m - 1 PROVE q <= Len(text) /\ text[q] \in set
  <2>1. q \in p..Len(text) + 1 /\ q < m /\ q <= Len(text)
    BY <1>1, <1>5
  <2>2. q \notin B
    BY <1>3, <1>4, <1>5, <2>1
  <2>3. At(q) \in set
    BY <2>1, <2>2
  <2> QED
    BY <2>1, <2>3 DEF At
<1>7. m <= Len(text) => text[m] \notin set
  BY <1>5 DEF At
<1> QED
  BY <1>5, <1>6, <1>7

\* The parts of the text that begin at the cursor.
LEMMA FromCursor ==
    ASSUME IInv, More
    PROVE  /\ text \in Texts /\ text \in Seq(Chars) /\ Len(text) \in Nat /\ pos \in 1..Len(text)
           /\ At(pos) = text[pos] /\ text[pos] \in Chars
           /\ \A n \in pos..Len(text) :
                 /\ SubSeq(text, pos, n) \in Seq(Chars) /\ SubSeq(text, pos, n) # <<>>
                 /\ SubSeq(text, pos, n)[1] = text[pos]
                 /\ Len(SubSeq(text, pos, n)) = n - pos + 1
<1>1. /\ text \in Texts /\ text \in Seq(Chars) /\ Len(text) \in Nat
      /\ \A p \in 1..Len(text) : text[p] \in Chars
  BY TextFacts DEF IInv
<1>2. pos \in 1..Len(text)
  BY <1>1 DEF IInv, More
<1>3. At(pos) = text[pos]
  BY <1>2 DEF At
<1>4. ASSUME NEW n \in pos..Len(text)
      PROVE  /\ SubSeq(text, pos, n) \in Seq(Chars) /\ SubSeq(text, pos, n) # <<>>
             /\ SubSeq(text, pos, n)[1] = text[pos]
             /\ Len(SubSeq(text, pos, n)) = n - pos + 1
  BY <1>1, <1>2
<1> QED
  BY <1>1, <1>2, <1>3, <1>4

\* A word reaches up to the first character that words do not have.
LEMMA WordEnds ==
    ASSUME IInv, More, At(pos) \in Letters
    PROVE  LET m == Past(pos, WordChars) - 1
           IN  LexemeEnds(m) /\ IsWord(SubSeq(text, pos, m)) /\ ~IsBlank(SubSeq(text, pos, m))
<1> DEFINE m == Past(pos, WordChars) - 1
<1>1. /\ text \in Texts /\ text \in Seq(Chars) /\ Len(text) \in Nat /\ pos \in 1..Len(text)
      /\ At(pos) = text[pos]
  BY FromCursor
<1>2. NUL \notin WordChars
  BY Classes DEF WordChars
<1>3. /\ m \in Int /\ m + 1 \in pos..Len(text) + 1
      /\ \A q \in pos..m : q <= Len(text) /\ text[q] \in WordChars
      /\ m + 1 <= Len(text) => text[m + 1] \notin WordChars
  <2> DEFINE e == Past(pos, WordChars)
  <2>1. /\ e \in pos..Len(text) + 1 /\ \A q \in pos..e - 1 : q <= Len(text) /\ text[q] \in WordChars
        /\ e <= Len(text) => text[e] \notin WordChars
    BY <1>1, <1>2, PastIs
  <2> HIDE DEF e
  <2>2. m = e - 1 /\ m + 1 = e
    BY <1>1, <2>1 DEF e
  <2> QED
    BY <2>1, <2>2
<1> HIDE DEF m
<1>4. m \in pos..Len(text)
  <2>1. text[pos] \in WordChars
    BY <1>1, Classes
  <2> QED
    BY <1>1, <1>3, <2>1
<1>5. \A n \in pos..Len(text) :
         /\ IsLexeme(SubSeq(text, pos, n)) <=> IsWord(SubSeq(text, pos, n))
         /\ ~IsBlank(SubSeq(text, pos, n))
         /\ IsWord(SubSeq(text, pos, n)) <=> \A q \in pos..n : text[q] \in WordChars
  <2> TAKE n \in pos..Len(text)
  <2> DEFINE s == SubSeq(text, pos, n)
  <2>1. s \in Seq(Chars) /\ s # <<>> /\ s[1] = text[pos] /\ s[1] \in Letters
    BY <1>1, FromCursor
  <2>2. Range(s) = {text[q] : q \in pos..n}
    BY <1>1, PartIs
  <2>3. (IsLexeme(s) <=> IsWord(s)) /\ ~IsBlank(s)
    BY <2>1, KindsApart
  <2> HIDE DEF s
  <2>4. IsWord(s) <=> \A q \in pos..n : text[q] \in WordChars
    BY <2>1, <2>2 DEF IsWord
  <2> QED
    BY <2>3, <2>4 DEF s
<1>6. IsWord(SubSeq(text, pos, m)) /\ IsLexeme(SubSeq(text, pos, m)) /\ ~IsBlank(SubSeq(text, pos, m))
  BY <1>3, <1>4, <1>5
<1>7. ASSUME NEW n \in pos..Len(text), IsLexeme(SubSeq(text, pos, n)) PROVE n <= m
  <2>1. \A q \in pos..n : text[q] \in WordChars
    BY <1>5, <1>7
  <2> SUFFICES ASSUME n > m PROVE FALSE
    BY <1>1, <1>4
  <2>2. m + 1 \in pos..n /\ m + 1 <= Len(text)
    BY <1>1, <1>4
  <2> QED
    BY <1>3, <2>1, <2>2
<1>8. Lexeme(text, pos) = SubSeq(text, pos, m)
  BY <1>1, <1>4, <1>6, <1>7, LexemeIs
<1> QED
  BY <1>4, <1>6, <1>8 DEF LexemeEnds, m

\* What a part of a sequence holds.
LEMMA RangeWithin ==
    ASSUME NEW s \in Seq(Chars), NEW i \in 1..Len(s) + 1, NEW j \in (i - 1)..Len(s), NEW A
    PROVE  Range(SubSeq(s, i, j)) \subseteq A <=> \A k \in i..j : s[k] \in A
<1> DEFINE r == SubSeq(s, i, j)
<1>1. DOMAIN r = 1..(j - i + 1) /\ \A k \in 1..(j - i + 1) : r[k] = s[i + k - 1]
  OBVIOUS
<1>2. ASSUME Range(r) \subseteq A, NEW k \in i..j PROVE s[k] \in A
  <2>1. k - i + 1 \in 1..(j - i + 1) /\ i + (k - i + 1) - 1 = k
    OBVIOUS
  <2> HIDE DEF r
  <2>2. r[k - i + 1] = s[k] /\ r[k - i + 1] \in Range(r)
    BY <1>1, <2>1 DEF Range
  <2> QED
    BY <1>2, <2>2
<1>3. ASSUME \A k \in i..j : s[k] \in A PROVE Range(r) \subseteq A
  <2> SUFFICES ASSUME NEW k \in 1..(j - i + 1) PROVE r[k] \in A
    BY <1>1 DEF Range
  <2>1. i + k - 1 \in i..j
    OBVIOUS
  <2> QED
    BY <1>1, <1>3, <2>1
<1> QED
  BY <1>2, <1>3

\* The place of the last decimal digit, and what may follow it.
NumberWith(d, n) ==
    /\ \A q \in pos..d : text[q] \in DigitsOf(10)
    /\ \/ d = n
       \/ text[d + 1] = "x" /\ \A q \in d + 2..n : text[q] \in DigitsOf(16)
       \/ text[d + 1] = "b" /\ \A q \in d + 2..n : text[q] \in DigitsOf(10)

\* A part of the text is a number when its decimal digits end at some place d.
LEMMA NumberIs ==
    ASSUME IInv, More, NEW n \in pos..Len(text)
    PROVE  IsNumber(SubSeq(text, pos, n)) <=> \E d \in pos..n : NumberWith(d, n)
<1> DEFINE s == SubSeq(text, pos, n)
<1>1. text \in Seq(Chars) /\ Len(text) \in Nat /\ pos \in 1..Len(text)
  BY FromCursor
<1>2. s \in Seq(Chars) /\ Len(s) = n - pos + 1 /\ \A k \in 1..(n - pos + 1) : s[k] = text[pos + k - 1]
  BY <1>1, PartIs
<1> HIDE DEF s
<1>0. \A i \in 1..Len(s) + 1 : \A j \in (i - 1)..Len(s) : \A A :
         Range(SubSeq(s, i, j)) \subseteq A <=> \A k \in i..j : s[k] \in A
  BY ONLY <1>2, RangeWithin
<1> DEFINE With(k) ==
             /\ Range(SubSeq(s, 1, k)) \subseteq DigitsOf(10)
             /\ \/ k = Len(s)
                \/ s[k + 1] = "x" /\ Range(SubSeq(s, k + 2, Len(s))) \subseteq DigitsOf(16)
                \/ s[k + 1] = "b" /\ Range(SubSeq(s, k + 2, Len(s))) \subseteq DigitsOf(10)
<1>3. ASSUME NEW k \in 1..Len(s) PROVE With(k) <=> NumberWith(pos + k - 1, n)
  <2> DEFINE d == pos + k - 1
  <2>1. d \in pos..n
    BY <1>1, <1>2
  <2>2. Range(SubSeq(s, 1, k)) \subseteq DigitsOf(10) <=> \A q \in pos..d : text[q] \in DigitsOf(10)
    <3>1. Range(SubSeq(s, 1, k)) \subseteq DigitsOf(10) <=> \A l \in 1..k : s[l] \in DigitsOf(10)
      <4>1. 1 \in 1..Len(s) + 1 /\ k \in (1 - 1)..Len(s)
        BY <1>1, <1>2
      <4> QED
        BY <1>0, <4>1
    <3>2. \A l \in 1..k : s[l] = text[pos + l - 1] /\ pos + l - 1 \in pos..d
      BY <1>1, <1>2
    <3>3. \A q \in pos..d : q - pos + 1 \in 1..k /\ s[q - pos + 1] = text[q]
      BY <1>1, <1>2
    <3> QED
      BY <3>1, <3>2, <3>3
  <2>3. k = Len(s) <=> d = n
    BY <1>1, <1>2
  <2>4. ASSUME k # Len(s), NEW A
        PROVE  /\ s[k + 1] = text[d + 1]
               /\ Range(SubSeq(s, k + 2, Len(s))) \subseteq A <=> \A q \in d + 2..n : text[q] \in A
    <3>1. s[k + 1] = text[d + 1]
      <4>1. k + 1 \in 1..(n - pos + 1) /\ pos + (k + 1) - 1 = d + 1
        BY <1>1, <1>2, <2>4
      <4> QED
        BY <1>2, <4>1
    <3>2. Range(SubSeq(s, k + 2, Len(s))) \subseteq A <=> \A l \in k + 2..Len(s) : s[l] \in A
      <4>1. k + 2 \in 1..Len(s) + 1 /\ Len(s) \in (k + 2 - 1)..Len(s)
        BY <1>1, <1>2, <2>4
      <4> QED
        BY <1>0, <4>1
    <3>3. \A l \in k + 2..Len(s) : s[l] = text[pos + l - 1] /\ pos + l - 1 \in d + 2..n
      BY <1>1, <1>2
    <3>4. \A q \in d + 2..n : q - pos + 1 \in k + 2..Len(s) /\ s[q - pos + 1] = text[q]
      BY <1>1, <1>2
    <3> QED
      BY <3>1, <3>2, <3>3, <3>4
  <2> HIDE DEF d
  <2> QED
    BY <2>2, <2>3, <2>4 DEF NumberWith, d
<1>4. IsNumber(s) <=> \E k \in 1..Len(s) : With(k)
  BY DEF IsNumber
<1>5. ASSUME NEW d \in pos..n, NumberWith(d, n) PROVE \E k \in 1..Len(s) : With(k)
  <2>1. d - pos + 1 \in 1..Len(s) /\ pos + (d - pos + 1) - 1 = d
    BY <1>1, <1>2
  <2> HIDE DEF With
  <2> QED
    BY <1>3, <1>5, <2>1
<1>6. ASSUME NEW k \in 1..Len(s), With(k) PROVE \E d \in pos..n : NumberWith(d, n)
  <2>1. pos + k - 1 \in pos..n
    BY <1>1, <1>2
  <2> HIDE DEF With
  <2> QED
    BY <1>3, <1>6, <2>1
<1> HIDE DEF With
<1> QED
  BY <1>4, <1>5, <1>6 DEF s

\* A number is taken to its end (lexer.c:255-278).
LEMMA NumberEnds ==
    ASSUME IInv, More, At(pos) \in DigitsOf(10)
    PROVE  LET m == NumberEnd(pos) - 1
           IN  /\ LexemeEnds(m) /\ IsNumber(SubSeq(text, pos, m))
               /\ ~IsWord(SubSeq(text, pos, m)) /\ ~IsBlank(SubSeq(text, pos, m))
               /\ NumberEnd(pos) \in Int
<1> DEFINE b == Past(pos, DigitsOf(10))
           e == NumberEnd(pos)
<1>1. /\ text \in Texts /\ text \in Seq(Chars) /\ Len(text) \in Nat /\ pos \in 1..Len(text)
      /\ At(pos) = text[pos]
  BY FromCursor
<1>2. NUL \notin DigitsOf(10) /\ NUL \notin DigitsOf(16)
  BY DigitsAre DEF NUL
<1>3. /\ b \in pos..Len(text) + 1
      /\ \A q \in pos..b - 1 : q <= Len(text) /\ text[q] \in DigitsOf(10)
      /\ b <= Len(text) => text[b] \notin DigitsOf(10)
  BY <1>1, <1>2, PastIs
<1>4. b > pos
  BY <1>1, <1>3
<1>5. At(b) \in {"x", "b"} => b <= Len(text) /\ b + 1 \in 1..Len(text) + 1 /\ At(b) = text[b]
  <2>1. b > Len(text) => At(b) = NUL
    BY <1>1, <1>3 DEF At
  <2>2. NUL \notin {"x", "b"}
    BY DEF NUL
  <2> QED
    BY <1>1, <1>3, <2>1, <2>2 DEF At
<1>6. /\ At(b) = "x" =>
            /\ e \in b + 1..Len(text) + 1
            /\ \A q \in b + 1..e - 1 : q <= Len(text) /\ text[q] \in DigitsOf(16)
            /\ e <= Len(text) => text[e] \notin DigitsOf(16)
      /\ At(b) = "b" =>
            /\ e \in b + 1..Len(text) + 1
            /\ \A q \in b + 1..e - 1 : q <= Len(text) /\ text[q] \in DigitsOf(10)
            /\ e <= Len(text) => text[e] \notin DigitsOf(10)
      /\ At(b) \notin {"x", "b"} => e = b
  <2>1. At(b) = "x" => e = Past(b + 1, DigitsOf(16))
    BY DEF NumberEnd
  <2>2. At(b) = "b" => e = Past(b + 1, DigitsOf(10))
    BY DEF NumberEnd
  <2>3. At(b) \notin {"x", "b"} => e = b
    BY DEF NumberEnd
  <2> HIDE DEF b, e
  <2>4. At(b) = "x" =>
            /\ e \in b + 1..Len(text) + 1
            /\ \A q \in b + 1..e - 1 : q <= Len(text) /\ text[q] \in DigitsOf(16)
            /\ e <= Len(text) => text[e] \notin DigitsOf(16)
    <3> SUFFICES ASSUME At(b) = "x" PROVE
            /\ e \in b + 1..Len(text) + 1
            /\ \A q \in b + 1..e - 1 : q <= Len(text) /\ text[q] \in DigitsOf(16)
            /\ e <= Len(text) => text[e] \notin DigitsOf(16)
      OBVIOUS
    <3> DEFINE r == Past(b + 1, DigitsOf(16))
    <3>1. b + 1 \in 1..Len(text) + 1
      BY <1>5
    <3>2. /\ r \in b + 1..Len(text) + 1
          /\ \A q \in b + 1..r - 1 : q <= Len(text) /\ text[q] \in DigitsOf(16)
          /\ r <= Len(text) => text[r] \notin DigitsOf(16)
      BY <1>1, <1>2, <3>1, PastIs
    <3>3. e = r
      BY <2>1
    <3> HIDE DEF r
    <3> QED
      BY <3>2, <3>3
  <2>5. At(b) = "b" =>
            /\ e \in b + 1..Len(text) + 1
            /\ \A q \in b + 1..e - 1 : q <= Len(text) /\ text[q] \in DigitsOf(10)
            /\ e <= Len(text) => text[e] \notin DigitsOf(10)
    <3> SUFFICES ASSUME At(b) = "b" PROVE
            /\ e \in b + 1..Len(text) + 1
            /\ \A q \in b + 1..e - 1 : q <= Len(text) /\ text[q] \in DigitsOf(10)
            /\ e <= Len(text) => text[e] \notin DigitsOf(10)
      OBVIOUS
    <3> DEFINE r == Past(b + 1, DigitsOf(10))
    <3>1. b + 1 \in 1..Len(text) + 1
      BY <1>5
    <3>2. /\ r \in b + 1..Len(text) + 1
          /\ \A q \in b + 1..r - 1 : q <= Len(text) /\ text[q] \in DigitsOf(10)
          /\ r <= Len(text) => text[r] \notin DigitsOf(10)
      BY <1>1, <1>2, <3>1, PastIs
    <3>3. e = r
      BY <2>2
    <3> HIDE DEF r
    <3> QED
      BY <3>2, <3>3
  <2> QED
    BY <2>3, <2>4, <2>5
<1> HIDE DEF b, e
<1>7. e \in b..Len(text) + 1
  BY <1>1, <1>3, <1>6
<1> DEFINE m == e - 1
<1>8. m \in pos..Len(text) /\ m + 1 = e
  BY <1>1, <1>3, <1>4, <1>7
<1>9. b - 1 \in pos..m /\ (b - 1) + 1 = b /\ (b - 1) + 2 = b + 1
  BY <1>1, <1>3, <1>4, <1>7
<1>10. NumberWith(b - 1, m)
  <2>1. \A q \in pos..b - 1 : text[q] \in DigitsOf(10)
    BY <1>3
  <2>2. CASE At(b) = "x"
    BY <1>5, <1>6, <1>9, <2>1, <2>2 DEF NumberWith
  <2>3. CASE At(b) = "b"
    BY <1>5, <1>6, <1>9, <2>1, <2>3 DEF NumberWith
  <2>4. CASE At(b) \notin {"x", "b"}
    BY <1>6, <1>9, <2>1, <2>4 DEF NumberWith
  <2> QED
    BY <2>2, <2>3, <2>4
<1> HIDE DEF m
<1>11. ASSUME NEW n \in pos..Len(text), NEW d \in pos..n, NumberWith(d, n) PROVE n <= m
  <2>1. \A q \in pos..d : text[q] \in DigitsOf(10)
    BY <1>11 DEF NumberWith
  <2>2. d < b
    <3> SUFFICES ASSUME d >= b PROVE FALSE
      BY <1>1, <1>3
    <3>1. b \in pos..d /\ b <= Len(text)
      BY <1>1, <1>3
    <3> QED
      BY <1>3, <2>1, <3>1
  <2>3. CASE d = n
    BY <1>1, <1>3, <1>7, <1>8, <2>2, <2>3
  <2>4. CASE d # n
    <3>1. /\ d + 1 \in pos..n
          /\ \/ text[d + 1] = "x" /\ \A q \in d + 2..n : text[q] \in DigitsOf(16)
             \/ text[d + 1] = "b" /\ \A q \in d + 2..n : text[q] \in DigitsOf(10)
      BY <1>1, <1>11, <2>4 DEF NumberWith
    <3>2. d + 1 = b
      <4> SUFFICES ASSUME d + 1 < b PROVE FALSE
        BY <1>1, <1>3, <2>2
      <4>1. d + 1 \in pos..b - 1
        BY <1>1, <1>3, <2>2
      <4>2. text[d + 1] \in DigitsOf(10)
        BY <1>3, <4>1
      <4> QED
        BY <3>1, <4>2, Classes
    <3>3. At(b) = text[b] /\ d + 2 = b + 1
      BY <1>1, <1>3, <3>1, <3>2 DEF At
    <3> SUFFICES ASSUME n > m PROVE FALSE
      BY <1>1, <1>8
    <3>4. e <= n /\ e <= Len(text)
      BY <1>1, <1>8
    <3>5. "x" # "b"
      OBVIOUS
    <3>6. e \in b + 1..n
      BY <1>1, <1>6, <3>1, <3>2, <3>3, <3>4
    <3> QED
      BY <1>6, <3>1, <3>2, <3>3, <3>4, <3>5, <3>6
  <2> QED
    BY <2>3, <2>4
<1>12. \A n \in pos..Len(text) :
          /\ IsLexeme(SubSeq(text, pos, n)) <=> IsNumber(SubSeq(text, pos, n))
          /\ ~IsWord(SubSeq(text, pos, n)) /\ ~IsBlank(SubSeq(text, pos, n))
  BY <1>1, FromCursor, KindsApart
<1>13. IsNumber(SubSeq(text, pos, m))
  BY <1>8, <1>9, <1>10, NumberIs
<1>14. \A n \in pos..Len(text) : IsLexeme(SubSeq(text, pos, n)) => n <= m
  BY <1>11, <1>12, NumberIs
<1>15. Lexeme(text, pos) = SubSeq(text, pos, m)
  BY <1>1, <1>8, <1>12, <1>13, <1>14, LexemeIs
<1>16. e \in Int
  BY <1>1, <1>3, <1>7
<1> QED
  BY <1>8, <1>12, <1>13, <1>15, <1>16 DEF LexemeEnds, m, e

-----------------------------------------------------------------------------
(* Strings.                                                                *)

\* The backslashes directly before place k.
Slashes(s, k) == {j \in 1..k - 1 : \A l \in j..k - 1 : s[l] = "\\"}

\* Nothing before place k escapes it.
Even(s, k) == Cardinality(Slashes(s, k)) % 2 = 0

\* One more backslash changes the parity; another character ends the row.
LEMMA SlashesNext ==
    ASSUME NEW s, NEW k \in Nat \ {0}
    PROVE  /\ Even(s, 1)
           /\ s[k] = "\\" => (Even(s, k + 1) <=> ~Even(s, k))
           /\ s[k] # "\\" => Even(s, k + 1)
<1>1. Slashes(s, 1) = {} /\ Even(s, 1)
  <2>1. Slashes(s, 1) = {}
    BY DEF Slashes
  <2> QED
    BY <2>1, FS_EmptySet DEF Even
<1>2. IsFiniteSet(Slashes(s, k)) /\ Cardinality(Slashes(s, k)) \in Nat
  <2>1. IsFiniteSet(1..k - 1) /\ Slashes(s, k) \subseteq 1..k - 1
    BY FS_Interval DEF Slashes
  <2> QED
    BY <2>1, FS_Subset, FS_CardinalityType
<1>3. ASSUME s[k] = "\\" PROVE Even(s, k + 1) <=> ~Even(s, k)
  <2>1. ASSUME NEW j \in 1..k PROVE (\A l \in j..k : s[l] = "\\") <=> j = k \/ \A l \in j..k - 1 : s[l] = "\\"
    <3>1. \A l : l \in j..k <=> l \in j..k - 1 \/ l = k
      OBVIOUS
    <3>2. j = k => j..k - 1 = {}
      OBVIOUS
    <3> QED
      BY <1>3, <3>1, <3>2
  <2>2. Slashes(s, k + 1) = Slashes(s, k) \cup {k}
    <3>1. \A j : j \in 1..(k + 1) - 1 <=> j \in 1..k - 1 \/ j = k
      OBVIOUS
    <3>2. (k + 1) - 1 = k
      OBVIOUS
    <3> QED
      BY <2>1, <3>1, <3>2 DEF Slashes
  <2>3. k \notin Slashes(s, k)
    BY DEF Slashes
  <2>4. Cardinality(Slashes(s, k + 1)) = Cardinality(Slashes(s, k)) + 1
    BY <1>2, <2>2, <2>3, FS_AddElement
  <2> QED
    BY <1>2, <2>4 DEF Even
<1>4. ASSUME s[k] # "\\" PROVE Even(s, k + 1)
  <2>1. ASSUME NEW j \in Slashes(s, k + 1) PROVE FALSE
    <3>1. j \in 1..(k + 1) - 1 /\ \A l \in j..(k + 1) - 1 : s[l] = "\\"
      BY DEF Slashes
    <3>2. k \in j..(k + 1) - 1
      BY <3>1
    <3> QED
      BY <1>4, <3>1, <3>2
  <2>2. Slashes(s, k + 1) = {}
    BY <2>1
  <2> QED
    BY <2>2, FS_EmptySet DEF Even
<1> QED
  BY <1>1, <1>3, <1>4

\* What StringEnd goes through.
StringEnds(n, f) ==
    f = [p \in n..Len(text) + 1 |->
          IF p > Len(text) THEN p
          ELSE IF text[p] = "\\" THEN f[Min({p + 2, Len(text) + 1})]
          ELSE IF text[p] = "\"" THEN p + 1
          ELSE f[p + 1]]

\* The place behind p, or two places behind it at a backslash.
Onward(p) == IF text[p] = "\\" THEN IF p + 2 <= Len(text) + 1 THEN p + 2 ELSE Len(text) + 1 ELSE p + 1

\* Onward stays within the text, and is what StringEnd takes the minimum for.
LEMMA OnwardIs ==
    ASSUME text \in Seq(Chars), NEW p \in 1..Len(text)
    PROVE  /\ Onward(p) \in p + 1..Len(text) + 1
           /\ text[p] = "\\" => Min({p + 2, Len(text) + 1}) = Onward(p)
<1>1. Len(text) \in Nat
  OBVIOUS
<1>2. Onward(p) \in p + 1..Len(text) + 1
  BY <1>1 DEF Onward
<1> DEFINE B == {p + 2, Len(text) + 1}
<1>3. Min(B) \in B /\ \A m \in B : Min(B) <= m
  <2>1. B \in SUBSET Nat /\ B # {}
    BY <1>1
  <2> HIDE DEF B
  <2> QED
    BY <2>1, MinIs
<1>4. text[p] = "\\" => Min(B) = Onward(p)
  BY <1>1, <1>3 DEF Onward
<1> QED
  BY <1>2, <1>4

\* One step of StringEnd; e is what the rest gives.
EndAt(p, e) == IF text[p] # "\\" /\ text[p] = Quote THEN p + 1 ELSE e

\* The two forms of the recursion are the same.
LEMMA StringEndsAre ==
    ASSUME text \in Seq(Chars), NEW n \in 1..Len(text) + 1, NEW f
    PROVE  StringEnds(n, f) <=>
              f = [p \in n..Len(text) + 1 |-> IF p > Len(text) THEN p ELSE EndAt(p, f[Onward(p)])]
<1>1. Len(text) \in Nat
  OBVIOUS
<1>2. ASSUME NEW p \in n..Len(text) + 1
      PROVE  (IF p > Len(text) THEN p
              ELSE IF text[p] = "\\" THEN f[Min({p + 2, Len(text) + 1})]
              ELSE IF text[p] = "\"" THEN p + 1
              ELSE f[p + 1])
             = (IF p > Len(text) THEN p ELSE EndAt(p, f[Onward(p)]))
  <2>1. CASE p > Len(text)
    BY <2>1
  <2>2. CASE ~(p > Len(text)) /\ text[p] = "\\"
    <3>1. p \in 1..Len(text)
      BY <1>1, <2>2
    <3>2. Min({p + 2, Len(text) + 1}) = Onward(p)
      BY <2>2, <3>1, OnwardIs
    <3>3. EndAt(p, f[Onward(p)]) = f[Onward(p)]
      BY <2>2, Zenon DEF EndAt
    <3> QED
      BY <2>2, <3>2, <3>3, Zenon
  <2>3. CASE ~(p > Len(text)) /\ text[p] # "\\"
    <3>1. Onward(p) = p + 1
      BY <2>3, Zenon DEF Onward
    <3> QED
      BY <2>3, <3>1, Zenon DEF EndAt, Quote
  <2> QED
    BY <2>1, <2>2, <2>3
<1> QED
  BY <1>2, Zenon DEF StringEnds

\* The recursion of StringEnd has a solution, by the last place that has none.
LEMMA StringEndsExist ==
    ASSUME text \in Seq(Chars), NEW start \in 1..Len(text) + 1
    PROVE  \E f : StringEnds(start, f)
<1> DEFINE N == Len(text)
           Found(n) == \E f : StringEnds(n, f)
           B == {n \in 1..N + 1 : ~Found(n)}
<1>0. N \in Nat
  OBVIOUS
<1>1. B = {}
  <2> SUFFICES ASSUME B # {} PROVE FALSE
    OBVIOUS
  <2>1. PICK n \in B : \A m \in B : m <= n
    <3>1. B \in SUBSET (0..N + 1) /\ N + 1 \in Nat
      BY <1>0
    <3> HIDE DEF B
    <3> QED
      BY <3>1, Greatest
  <2>2. n \in 1..N + 1 /\ ~Found(n)
    BY <2>1
  <2>3. n # N + 1
    <3> SUFFICES ASSUME n = N + 1 PROVE FALSE
      OBVIOUS
    <3> DEFINE g == [p \in n..N + 1 |-> p]
    <3>1. \A p \in n..N + 1 : p > N
      BY <1>0
    <3>2. g = [p \in n..N + 1 |-> IF p > N THEN p ELSE EndAt(p, g[Onward(p)])]
      BY <3>1
    <3> HIDE DEF g
    <3>3. StringEnds(n, g)
      BY <2>2, <3>2, StringEndsAre
    <3> QED
      BY <2>2, <3>3
  <2>4. n + 1 \in 1..N + 1 /\ n \in 1..N /\ Found(n + 1)
    <3>1. n + 1 \in 1..N + 1 /\ n \in 1..N /\ ~(n + 1 <= n)
      BY <1>0, <2>2, <2>3
    <3> HIDE DEF Found
    <3> QED
      BY <2>1, <3>1
  <2>5. PICK f : StringEnds(n + 1, f)
    BY <2>4
  <2>6. f = [p \in n + 1..N + 1 |-> IF p > N THEN p ELSE EndAt(p, f[Onward(p)])]
    BY <2>4, <2>5, StringEndsAre
  <2> DEFINE g == [p \in n..N + 1 |-> IF p = n THEN EndAt(n, f[Onward(n)]) ELSE f[p]]
  <2>7. ASSUME NEW p \in n..N + 1
        PROVE  g[p] = IF p > N THEN p ELSE EndAt(p, g[Onward(p)])
    <3>1. CASE p > N
      <4>1. p \in n + 1..N + 1 /\ p # n
        BY <1>0, <2>4, <3>1
      <4>2. f[p] = p
        BY <2>6, <3>1, <4>1
      <4> QED
        BY <3>1, <4>1, <4>2
    <3>2. CASE ~(p > N)
      <4>1. p \in 1..N
        BY <1>0, <2>2, <3>2
      <4>2. Onward(p) \in p + 1..N + 1
        BY <4>1, OnwardIs
      <4>3. Onward(p) \in n..N + 1 /\ Onward(p) # n
        BY <1>0, <2>2, <4>2
      <4>4. g[Onward(p)] = f[Onward(p)]
        BY <4>3
      <4>5. CASE p = n
        BY <3>2, <4>4, <4>5
      <4>6. CASE p # n
        <5>1. p \in n + 1..N + 1
          BY <1>0, <2>2, <4>6
        <5>2. f[p] = EndAt(p, f[Onward(p)])
          BY <2>6, <3>2, <5>1
        <5>3. g[p] = f[p]
          BY <4>6
        <5> HIDE DEF g
        <5> QED
          BY <3>2, <4>4, <5>2, <5>3
      <4> QED
        BY <4>5, <4>6
    <3> QED
      BY <3>1, <3>2
  <2>8. g = [p \in n..N + 1 |-> g[p]]
    OBVIOUS
  <2> HIDE DEF g
  <2>9. g = [p \in n..N + 1 |-> IF p > N THEN p ELSE EndAt(p, g[Onward(p)])]
    BY <2>7, <2>8
  <2>10. StringEnds(n, g)
    BY <2>2, <2>9, StringEndsAre
  <2> QED
    BY <2>2, <2>10
<1> HIDE DEF Found
<1>2. Found(start)
  BY <1>1
<1> QED
  BY <1>2 DEF Found

\* A quote that nothing escapes, in the part of the text from the cursor on.
Closing(q) == LET u == SubSeq(text, pos, Len(text))
              IN  text[q] = Quote /\ Even(u, q - pos + 1)

\* The first quote that nothing escapes ends the string.
LEMMA FirstClosing ==
    ASSUME IInv, More, At(pos) = Quote, NEW c \in pos + 1..Len(text), Closing(c),
           \A q \in pos + 1..c - 1 : ~Closing(q)
    PROVE  StringEnd(pos + 1) = c + 1
<1> DEFINE N == Len(text)
           u == SubSeq(text, pos, N)
           start == pos + 1
           F == CHOOSE f : StringEnds(start, f)
           Free(q) == Even(u, q - pos + 1)
           B == {q \in start..c : Free(q) /\ F[q] # c + 1}
<1>1. text \in Seq(Chars) /\ N \in Nat /\ pos \in 1..N /\ At(pos) = text[pos]
  BY FromCursor
<1>2. start \in 1..N + 1 /\ c \in 1..N
  BY <1>1
<1>3. F = [p \in start..N + 1 |-> IF p > N THEN p ELSE EndAt(p, F[Onward(p)])]
  <2>1. StringEnds(start, F)
    BY <1>1, <1>2, StringEndsExist
  <2> HIDE DEF F, start
  <2> QED
    BY <1>1, <1>2, <2>1, StringEndsAre
<1>4. StringEnd(start) = F[start]
  BY Zenon DEF StringEnd, StringEnds
<1> HIDE DEF F
<1>5. \A q \in pos..N : u[q - pos + 1] = text[q] /\ q - pos + 1 \in Nat \ {0}
  BY <1>1, PartIs
<1> HIDE DEF u
<1>6. \A q \in pos..N : /\ text[q] = "\\" => (Free(q + 1) <=> ~Free(q))
                        /\ text[q] # "\\" => Free(q + 1)
  <2> TAKE q \in pos..N
  <2>1. (q - pos + 1) + 1 = (q + 1) - pos + 1
    BY <1>1
  <2> QED
    BY <1>5, <2>1, SlashesNext
<1>7. Quote # "\\"
  BY QuoteIs
<1>8. Free(start)
  BY <1>1, <1>6, <1>7
<1>9. \A q \in pos..N : Closing(q) <=> text[q] = Quote /\ Free(q)
  BY DEF Closing, u
<1> HIDE DEF Free
<1>10. B = {}
  <2> SUFFICES ASSUME B # {} PROVE FALSE
    OBVIOUS
  <2>1. PICK q \in B : \A m \in B : m <= q
    <3>1. B \in SUBSET (0..N)
      BY <1>1, <1>2
    <3> HIDE DEF B
    <3> QED
      BY <1>1, <3>1, Greatest
  <2>2. q \in start..c /\ Free(q) /\ F[q] # c + 1
    BY <2>1
  <2>3. q \in pos..N /\ q \in 1..N /\ q \in start..N + 1 /\ ~(q > N)
    BY <1>1, <1>2, <2>2
  <2>4. F[q] = EndAt(q, F[Onward(q)])
    BY <1>3, <2>3
  <2>5. \A m \in start..c : Free(m) /\ m > q => F[m] = c + 1
    <3> TAKE m \in start..c
    <3> QED
      BY <1>2, <2>1, <2>3
  <2>6. CASE text[q] = "\\"
    <3>1. F[q] = F[Onward(q)]
      BY <1>7, <2>4, <2>6 DEF EndAt
    <3>2. q # c
      BY <1>7, <1>9, <2>3, <2>6
    <3>3. q + 1 \in pos..N /\ q + 1 \in start..c /\ q + 2 <= N + 1
      BY <1>1, <1>2, <2>2, <3>2
    <3>4. Onward(q) = q + 2
      BY <1>1, <2>6, <3>3 DEF Onward
    <3>5. ~Free(q + 1)
      BY <1>6, <2>2, <2>3, <2>6
    <3>6. q + 1 # c
      BY <1>9, <3>3, <3>5
    <3>7. Free((q + 1) + 1) /\ (q + 1) + 1 = q + 2
      BY <1>6, <2>3, <3>3, <3>5
    <3>8. q + 2 \in start..c /\ q + 2 > q /\ Free(q + 2)
      BY <1>2, <2>3, <3>3, <3>6, <3>7
    <3> QED
      BY <2>2, <2>5, <3>1, <3>4, <3>8
  <2>7. CASE text[q] # "\\" /\ text[q] = Quote
    <3>1. F[q] = q + 1
      BY <2>4, <2>7, Zenon DEF EndAt
    <3>2. Closing(q)
      BY <1>9, <2>2, <2>3, <2>7, Zenon
    <3>3. ~(q \in start..c - 1)
      BY <3>2
    <3>4. q = c
      BY <1>1, <1>2, <2>2, <3>3
    <3> QED
      BY <2>2, <3>1, <3>4
  <2>8. CASE text[q] # "\\" /\ text[q] # Quote
    <3>1. Onward(q) = q + 1 /\ F[q] = F[q + 1]
      <4>1. Onward(q) = q + 1
        BY <2>8, Zenon DEF Onward
      <4> QED
        BY <2>4, <2>8, <4>1, Zenon DEF EndAt
    <3>2. Free(q + 1)
      BY <1>6, <2>3, <2>8, Zenon
    <3>3. q # c
      BY <1>9, <2>3, <2>8, Zenon
    <3>4. q + 1 \in start..c /\ q + 1 > q
      BY <1>2, <2>2, <2>3, <3>3
    <3> QED
      BY <2>2, <2>5, <3>1, <3>2, <3>4
  <2> QED
    BY <2>6, <2>7, <2>8, Zenon
<1>11. start \in start..c
  BY <1>1, <1>2
<1> QED
  BY <1>4, <1>8, <1>10, <1>11

\* A string is taken to the quote that closes it.
LEMMA StringEndsAt ==
    ASSUME IInv, More, At(pos) = Quote, Lexeme(text, pos) # <<>>
    PROVE  LET m == StringEnd(pos + 1) - 1
               s == SubSeq(text, pos, m)
           IN  /\ LexemeEnds(m) /\ IsString(s) /\ ~IsWord(s) /\ ~IsNumber(s) /\ ~IsBlank(s)
               /\ SubSeq(s, 2, Len(s) - 1) = SubSeq(text, pos + 1, (m + 1) - 2)
               /\ m + 1 = StringEnd(pos + 1)
<1>1. /\ text \in Seq(Chars) /\ Len(text) \in Nat /\ pos \in 1..Len(text) /\ At(pos) = text[pos]
      /\ \A n \in pos..Len(text) :
            /\ SubSeq(text, pos, n) \in Seq(Chars) /\ SubSeq(text, pos, n) # <<>>
            /\ SubSeq(text, pos, n)[1] = text[pos]
  BY FromCursor
<1>2. PICK m \in pos..Len(text) : Lexeme(text, pos) = SubSeq(text, pos, m)
                                   /\ IsLexeme(SubSeq(text, pos, m))
  BY <1>1, LexemeFound
<1> DEFINE s == SubSeq(text, pos, m)
           u == SubSeq(text, pos, Len(text))
<1>3. s \in Seq(Chars) /\ s # <<>> /\ s[1] = Quote
  BY <1>1, Zenon
<1>4. IsString(s) /\ ~IsWord(s) /\ ~IsNumber(s) /\ ~IsBlank(s)
  BY <1>2, <1>3, KindsApart, Zenon
<1>5. /\ Len(s) = m - pos + 1
      /\ \A k \in 1..(m - pos + 1) : s[k] = text[pos + k - 1]
      /\ \A k \in 1..(m - pos + 1) : u[k] = text[pos + k - 1]
  BY <1>1, PartIs
<1> HIDE DEF s, u
<1>6. \A q \in pos..m : s[q - pos + 1] = text[q] /\ (Even(s, q - pos + 1) <=> Even(u, q - pos + 1))
  <2> TAKE q \in pos..m
  <2>1. q - pos + 1 \in 1..(m - pos + 1) /\ pos + (q - pos + 1) - 1 = q
    BY <1>1
  <2>2. \A l \in 1..q - pos : s[l] = u[l]
    <3>1. \A l \in 1..q - pos : l \in 1..(m - pos + 1)
      BY <1>1
    <3> QED
      BY <1>5, <3>1
  <2>3. Slashes(s, q - pos + 1) = Slashes(u, q - pos + 1)
    <3>1. \A j \in 1..(q - pos + 1) - 1 : \A l \in j..(q - pos + 1) - 1 : s[l] = u[l]
      BY <1>1, <2>2
    <3> QED
      BY <3>1 DEF Slashes
  <2> QED
    BY <1>5, <2>1, <2>3 DEF Even
<1>7. \A q \in pos..m : Closing(q) <=> Closes(s, q - pos + 1)
  <2> TAKE q \in pos..m
  <2>1. Closing(q) <=> text[q] = Quote /\ Even(u, q - pos + 1)
    BY Zenon DEF Closing, u
  <2>2. Closes(s, q - pos + 1) <=> s[q - pos + 1] = Quote /\ Even(s, q - pos + 1)
    BY Zenon DEF Closes, Even, Slashes, Quote
  <2> QED
    BY <1>6, <2>1, <2>2, Zenon
<1>8. {k \in 2..Len(s) : Closes(s, k)} = {Len(s)}
  BY <1>4, Zenon DEF IsString
<1>9. Len(s) \in 2..Len(s) /\ Closes(s, Len(s)) /\ \A k \in 2..Len(s) : Closes(s, k) => k = Len(s)
  BY <1>8
<1>10. m \in pos + 1..Len(text) /\ Closing(m)
  <2>1. m - pos + 1 = Len(s)
    BY <1>5
  <2> QED
    BY <1>1, <1>5, <1>7, <1>9, <2>1
<1>11. \A q \in pos + 1..m - 1 : ~Closing(q)
  <2> TAKE q \in pos + 1..m - 1
  <2>1. q \in pos..m /\ q - pos + 1 \in 2..Len(s) /\ q - pos + 1 # Len(s)
    BY <1>1, <1>5
  <2> QED
    BY <1>7, <1>9, <2>1
<1>12. StringEnd(pos + 1) = m + 1
  BY <1>10, <1>11, FirstClosing
<1>13. StringEnd(pos + 1) - 1 = m
  BY <1>1, <1>12
<1>14. SubSeq(s, 2, Len(s) - 1) = SubSeq(text, pos + 1, (m + 1) - 2)
  <2>1. Len(s) - 1 = m - pos /\ 2 \in 1..Len(s)
    BY <1>1, <1>5, <1>9
  <2>2. (m + 1) - 2 = m - 1
    BY <1>1
  <2> QED
    BY <1>1, <1>10, <2>1, <2>2 DEF s
<1>15. LexemeEnds(m)
  BY <1>2 DEF LexemeEnds
<1> QED
  BY <1>4, <1>12, <1>13, <1>14, <1>15 DEF s

-----------------------------------------------------------------------------
(* Characters, symbols and blanks.                                         *)

\* The text between two places, for one and for two characters.
LEMMA OneOrTwo ==
    ASSUME NEW t \in Seq(Chars), NEW p \in 1..Len(t)
    PROVE  /\ SubSeq(t, p, p) = <<t[p]>>
           /\ p + 1 <= Len(t) => SubSeq(t, p, p + 1) = <<t[p], t[p + 1]>>
<1> DEFINE a == SubSeq(t, p, p)
           b == SubSeq(t, p, p + 1)
<1>1. a = <<t[p]>>
  <2>1. a \in Seq(Chars) /\ Len(a) = 1 /\ a[1] = t[p]
    OBVIOUS
  <2> HIDE DEF a
  <2> QED
    BY <2>1
<1>2. ASSUME p + 1 <= Len(t) PROVE b = <<t[p], t[p + 1]>>
  <2>1. b \in Seq(Chars) /\ Len(b) = 2 /\ b[1] = t[p] /\ b[2] = t[p + 1]
    BY <1>2
  <2> HIDE DEF b
  <2> QED
    BY <2>1
<1> QED
  BY <1>1, <1>2

\* A character is taken with both of its quotes.
LEMMA CharEnds ==
    ASSUME IInv, More, At(pos) = "'", Lexeme(text, pos) # <<>>
    PROVE  LET n == IF At(pos + 1) = "\\" THEN 2 ELSE 1
               m == pos + n + 1
               s == SubSeq(text, pos, m)
           IN  /\ LexemeEnds(m) /\ IsChar(s)
               /\ ~IsWord(s) /\ ~IsNumber(s) /\ ~IsString(s) /\ ~IsBlank(s)
               /\ SubSeq(s, 2, Len(s) - 1) = [k \in 1..n |-> At(pos + k)]
<1> DEFINE n == IF At(pos + 1) = "\\" THEN 2 ELSE 1
<1>1. /\ text \in Seq(Chars) /\ Len(text) \in Nat /\ pos \in 1..Len(text) /\ At(pos) = text[pos]
      /\ \A k \in pos..Len(text) :
            /\ SubSeq(text, pos, k) \in Seq(Chars) /\ SubSeq(text, pos, k) # <<>>
            /\ SubSeq(text, pos, k)[1] = text[pos]
  BY FromCursor
<1>2. PICK m \in pos..Len(text) : Lexeme(text, pos) = SubSeq(text, pos, m)
                                   /\ IsLexeme(SubSeq(text, pos, m))
  BY <1>1, LexemeFound
<1> DEFINE s == SubSeq(text, pos, m)
<1>3. s \in Seq(Chars) /\ s # <<>> /\ s[1] = "'"
  BY <1>1
<1>4. IsChar(s) /\ ~IsWord(s) /\ ~IsNumber(s) /\ ~IsString(s) /\ ~IsBlank(s)
  BY <1>2, <1>3, KindsApart
<1>5. Len(s) = m - pos + 1 /\ \A k \in 1..(m - pos + 1) : s[k] = text[pos + k - 1]
  BY <1>1, PartIs
<1> HIDE DEF s
<1>6. Len(s) > 2 /\ Len(s) = IF s[2] = "\\" THEN 4 ELSE 3
  BY <1>4 DEF IsChar
<1>7. At(pos + 1) = s[2]
  <2>1. 2 \in 1..(m - pos + 1) /\ pos + 2 - 1 = pos + 1 /\ pos + 1 <= Len(text)
    BY <1>1, <1>5, <1>6
  <2> QED
    BY <1>5, <2>1 DEF At
<1>8. n \in 1..2 /\ m = pos + n + 1 /\ Len(s) = n + 2
  <2>1. n \in 1..2 /\ Len(s) = n + 2
    BY <1>6, <1>7
  <2> HIDE DEF n
  <2>2. m \in Int /\ pos \in Int
    BY <1>1
  <2> QED
    BY <1>5, <2>1, <2>2
<1> HIDE DEF n
<1> DEFINE view == SubSeq(s, 2, Len(s) - 1)
<1>9. view = [k \in 1..n |-> At(pos + k)]
  <2>1. DOMAIN view = 1..n /\ \A k \in 1..n : view[k] = s[k + 1]
    BY <1>3, <1>8
  <2>2. \A k \in 1..n : s[k + 1] = At(pos + k)
    <3> TAKE k \in 1..n
    <3>1. k + 1 \in 1..(m - pos + 1) /\ pos + (k + 1) - 1 = pos + k /\ pos + k <= Len(text)
      BY <1>1, <1>8
    <3> QED
      BY <1>5, <3>1 DEF At
  <2>3. view = [k \in 1..n |-> view[k]]
    <3>1. view \in Seq(Chars)
      BY <1>3, <1>8
    <3> HIDE DEF view
    <3> QED
      BY <2>1, <3>1
  <2> HIDE DEF view
  <2> QED
    BY <2>1, <2>2, <2>3
<1>10. LexemeEnds(m)
  BY <1>2 DEF LexemeEnds
<1> QED
  BY <1>4, <1>8, <1>9, <1>10 DEF s, n

\* Of a symbol and a double symbol the longer one is taken.
LEMMA SymbolEnds ==
    ASSUME IInv, More, At(pos) \in Symbols \ {Quote, "'"}, ~AtComment
    PROVE  LET two == <<At(pos), At(pos + 1)>>
               view == IF two \in Doubles THEN two ELSE <<At(pos)>>
           IN  /\ LexemeEnds(pos + Len(view) - 1) /\ Lexeme(text, pos) = view
               /\ ~IsWord(view) /\ ~IsNumber(view) /\ ~IsString(view) /\ ~IsChar(view)
               /\ ~IsBlank(view)
<1> DEFINE two == <<At(pos), At(pos + 1)>>
           view == IF two \in Doubles THEN two ELSE <<At(pos)>>
<1>1. /\ text \in Seq(Chars) /\ Len(text) \in Nat /\ pos \in 1..Len(text) /\ At(pos) = text[pos]
      /\ \A n \in pos..Len(text) :
            /\ SubSeq(text, pos, n) \in Seq(Chars) /\ SubSeq(text, pos, n) # <<>>
            /\ SubSeq(text, pos, n)[1] = text[pos]
            /\ Len(SubSeq(text, pos, n)) = n - pos + 1
  BY FromCursor
<1>2. two \in Doubles => pos + 1 <= Len(text)
  <2> SUFFICES ASSUME two \in Doubles, pos + 1 > Len(text) PROVE FALSE
    BY <1>1
  <2>1. At(pos + 1) = NUL
    BY <1>1 DEF At
  <2>2. At(pos + 1) \in {"=", "<", ">"}
    BY DEF Doubles
  <2> QED
    BY <2>1, <2>2 DEF NUL
<1>3. pos + 1 <= Len(text) => At(pos + 1) = text[pos + 1]
  BY <1>1 DEF At
<1>4. ASSUME NEW n \in pos..Len(text) PROVE ~IsBlank(SubSeq(text, pos, n))
  <2> DEFINE s == SubSeq(text, pos, n)
  <2>1. s \in Seq(Chars) /\ s # <<>> /\ s[1] = text[pos] /\ Len(s) = n - pos + 1
    BY <1>1
  <2>2. s[1] \notin Spaces
    BY <1>1, <2>1, Classes
  <2>3. ASSUME Len(s) >= 2, s[1] = "/", s[2] = "/" PROVE FALSE
    <3>1. pos + 1 <= Len(text) /\ s[2] = text[pos + 1]
      BY <1>1, <2>1, <2>3
    <3> QED
      BY <1>1, <1>3, <2>1, <2>3, <3>1 DEF AtComment
  <2> QED
    BY <2>1, <2>2, <2>3, FirstCharacters
<1>5. ASSUME NEW n \in pos..Len(text)
      PROVE  /\ IsLexeme(SubSeq(text, pos, n)) <=> IsSymbol(SubSeq(text, pos, n))
             /\ ~IsWord(SubSeq(text, pos, n)) /\ ~IsNumber(SubSeq(text, pos, n))
             /\ ~IsString(SubSeq(text, pos, n)) /\ ~IsChar(SubSeq(text, pos, n))
  BY <1>1, <1>4, KindsApart
<1>6. SubSeq(text, pos, pos) = <<At(pos)>> /\ (pos + 1 <= Len(text) => SubSeq(text, pos, pos + 1) = two)
  BY <1>1, <1>3, OneOrTwo
<1>7. \A s : IsSymbol(s) <=> s \in Doubles \cup {<<c>> : c \in Symbols \ {Quote, "'"}}
  BY Zenon DEF IsSymbol, Quote
<1>8. \A d \in Doubles : Len(d) = 2
  BY DEF Doubles
<1>9. CASE two \in Doubles
  <2>1. view = two /\ Len(view) = 2 /\ pos + 1 \in pos..Len(text)
    BY <1>1, <1>2, <1>9
  <2>2. IsSymbol(SubSeq(text, pos, pos + 1))
    BY <1>2, <1>6, <1>7, <1>9
  <2>3. ASSUME NEW n \in pos..Len(text), IsSymbol(SubSeq(text, pos, n)) PROVE n <= pos + 1
    <3> DEFINE s == SubSeq(text, pos, n)
    <3>1. Len(s) = n - pos + 1 /\ IsSymbol(s) /\ n \in Int /\ pos \in Int
      BY <1>1, <2>3
    <3> HIDE DEF s
    <3>2. Len(s) \in {1, 2}
      <4>1. CASE s \in Doubles
        BY <1>8, <4>1
      <4>2. CASE s \in {<<c>> : c \in Symbols \ {Quote, "'"}}
        <5>1. PICK c : s = <<c>>
          BY <4>2
        <5> QED
          BY <5>1
      <4> QED
        BY <1>7, <3>1, <4>1, <4>2
    <3> QED
      BY <3>1, <3>2
  <2>4. Lexeme(text, pos) = SubSeq(text, pos, pos + 1)
    BY <1>1, <1>5, <2>1, <2>2, <2>3, LexemeIs
  <2>5. pos + Len(view) - 1 = pos + 1
    BY <1>1, <2>1
  <2> QED
    BY <1>2, <1>4, <1>5, <1>6, <1>9, <2>1, <2>4, <2>5 DEF LexemeEnds
<1>10. CASE two \notin Doubles
  <2>1. view = <<At(pos)>> /\ Len(view) = 1 /\ pos \in pos..Len(text)
    BY <1>1, <1>10
  <2>2. IsSymbol(SubSeq(text, pos, pos))
    BY <1>6, <1>7
  <2>3. ASSUME NEW n \in pos..Len(text), IsSymbol(SubSeq(text, pos, n)) PROVE n <= pos
    <3> DEFINE s == SubSeq(text, pos, n)
    <3>1. Len(s) = n - pos + 1 /\ IsSymbol(s) /\ n \in Int /\ pos \in Int /\ n <= Len(text)
      BY <1>1, <2>3
    <3>2. n = pos + 1 => s = two
      BY <1>6, <3>1
    <3> HIDE DEF s, two
    <3>3. CASE s \in Doubles
      <4>1. Len(s) = 2
        BY <1>8, <3>3
      <4>2. n = pos + 1
        <5>1. n \in Int /\ pos \in Int
          BY <3>1
        <5>2. n - pos + 1 = 2
          BY ONLY <3>1, <4>1
        <5> QED
          BY ONLY <5>1, <5>2
      <4> QED
        BY <1>10, <3>2, <3>3, <4>2
    <3>4. CASE s \in {<<c>> : c \in Symbols \ {Quote, "'"}}
      <4>1. PICK c : s = <<c>>
        BY <3>4
      <4>2. Len(s) = 1
        BY <4>1
      <4>3. n \in Int /\ pos \in Int
        BY <3>1
      <4>4. n - pos + 1 = 1
        BY ONLY <3>1, <4>2
      <4> QED
        BY ONLY <4>3, <4>4
    <3> QED
      BY <1>7, <3>1, <3>3, <3>4
  <2>4. Lexeme(text, pos) = SubSeq(text, pos, pos)
    BY <1>1, <1>5, <2>1, <2>2, <2>3, LexemeIs
  <2>5. pos + Len(view) - 1 = pos
    BY <1>1, <2>1
  <2> QED
    BY <1>4, <1>5, <1>6, <1>10, <2>1, <2>4, <2>5 DEF LexemeEnds
<1> QED
  BY <1>9, <1>10

\* A comment is taken up to the end of its line.
LEMMA CommentEnds ==
    ASSUME IInv, More, AtComment
    PROVE  LET m == Past(pos, Chars \ {"\n"}) - 1
           IN  /\ LexemeEnds(m) /\ IsBlank(SubSeq(text, pos, m))
               /\ "\n" \notin Range(SubSeq(text, pos, m))
               /\ m + 1 = Past(pos, Chars \ {"\n"})
<1> DEFINE e == Past(pos, Chars \ {"\n"})
<1>1. /\ text \in Texts /\ text \in Seq(Chars) /\ Len(text) \in Nat /\ pos \in 1..Len(text)
      /\ At(pos) = text[pos]
      /\ \A n \in pos..Len(text) :
            /\ SubSeq(text, pos, n) \in Seq(Chars) /\ SubSeq(text, pos, n) # <<>>
            /\ SubSeq(text, pos, n)[1] = text[pos]
            /\ Len(SubSeq(text, pos, n)) = n - pos + 1
  BY FromCursor
<1>2. /\ e \in pos..Len(text) + 1
      /\ \A q \in pos..e - 1 : q <= Len(text) /\ text[q] \in Chars \ {"\n"}
      /\ e <= Len(text) => text[e] \notin Chars \ {"\n"}
  BY <1>1, Classes, PastIs
<1> HIDE DEF e
<1>3. pos + 1 <= Len(text) /\ text[pos] = "/" /\ text[pos + 1] = "/"
  <2>1. At(pos + 1) # NUL
    BY DEF AtComment, NUL
  <2> QED
    BY <1>1, <2>1 DEF At, AtComment
<1>4. \A q \in 1..Len(text) : text[q] \in Chars
  BY <1>1
<1>5. e \in pos + 2..Len(text) + 1
  <2>1. e # pos /\ e # pos + 1
    BY <1>1, <1>2, <1>3, <1>4
  <2> QED
    BY <1>1, <1>2, <2>1
<1>6. e <= Len(text) => text[e] = "\n"
  BY <1>1, <1>2, <1>4, <1>5
<1> DEFINE m == e - 1
<1>7. m \in pos + 1..Len(text) /\ m + 1 = e
  BY <1>1, <1>5
<1> HIDE DEF m
<1>8. ASSUME NEW n \in pos..Len(text)
      PROVE  /\ IsLexeme(SubSeq(text, pos, n)) <=>
                   IsSymbol(SubSeq(text, pos, n)) \/ IsBlank(SubSeq(text, pos, n))
             /\ IsBlank(SubSeq(text, pos, n)) <=>
                   n > pos /\ \A q \in pos..n : text[q] # "\n"
             /\ IsSymbol(SubSeq(text, pos, n)) => n <= pos + 1
  <2> DEFINE s == SubSeq(text, pos, n)
  <2>1. s \in Seq(Chars) /\ s # <<>> /\ s[1] = "/" /\ Len(s) = n - pos + 1
    BY <1>1, <1>3
  <2>2. IsLexeme(s) <=> IsSymbol(s) \/ IsBlank(s)
    BY <2>1, QuoteIs, KindsApart
  <2>3. Range(s) = {text[q] : q \in pos..n}
    BY <1>1, PartIs
  <2>4. n > pos => s[2] = text[pos + 1]
    BY <1>1
  <2> HIDE DEF s
  <2>5. s \notin {<<c>> : c \in Spaces}
    BY <2>1, QuoteIs, Classes
  <2>6. IsPrefix(<<"/", "/">>, s) <=> n > pos
    BY <1>1, <1>3, <2>1, <2>4, CommentBegins
  <2>7. IsBlank(s) <=> n > pos /\ \A q \in pos..n : text[q] # "\n"
    BY <2>3, <2>5, <2>6 DEF IsBlank
  <2>8. ASSUME IsSymbol(s) PROVE n <= pos + 1
    <3>1. IsSymbol(s) <=> s \in Doubles \cup {<<c>> : c \in Symbols \ {Quote, "'"}}
      BY Zenon DEF IsSymbol, Quote
    <3>2. \A d \in Doubles : Len(d) = 2
      BY DEF Doubles
    <3>3. Len(s) \in {1, 2}
      BY <2>8, <3>1, <3>2
    <3> QED
      BY <1>1, <2>1, <3>3
  <2> QED
    BY <2>2, <2>7, <2>8 DEF s
<1>9. \A q \in pos..m : text[q] # "\n"
  <2>1. m = e - 1
    BY <1>1, <1>7
  <2> QED
    BY <1>2, <2>1
<1>10. m \in pos..Len(text) /\ IsBlank(SubSeq(text, pos, m)) /\ IsLexeme(SubSeq(text, pos, m))
  BY <1>1, <1>7, <1>8, <1>9
<1>11. ASSUME NEW n \in pos..Len(text), IsLexeme(SubSeq(text, pos, n)) PROVE n <= m
  <2>1. CASE IsSymbol(SubSeq(text, pos, n))
    BY <1>1, <1>7, <1>8, <2>1
  <2>2. CASE IsBlank(SubSeq(text, pos, n))
    <3>1. \A q \in pos..n : text[q] # "\n"
      BY <1>8, <2>2
    <3> SUFFICES ASSUME n > m PROVE FALSE
      BY <1>1, <1>7
    <3>2. e \in pos..n /\ e <= Len(text)
      BY <1>1, <1>7
    <3> QED
      BY <1>6, <3>1, <3>2
  <2> QED
    BY <1>8, <1>11, <2>1, <2>2
<1>12. Lexeme(text, pos) = SubSeq(text, pos, m)
  BY <1>1, <1>10, <1>11, LexemeIs
<1>13. "\n" \notin Range(SubSeq(text, pos, m))
  BY <1>1, <1>9, <1>10, PartIs
<1>14. LexemeEnds(m)
  BY <1>10, <1>12 DEF LexemeEnds
<1> QED
  BY <1>7, <1>10, <1>13, <1>14 DEF m, e

\* A space is taken alone.
LEMMA SpaceEnds ==
    ASSUME IInv, More, At(pos) \in Spaces
    PROVE  LexemeEnds(pos) /\ IsBlank(SubSeq(text, pos, pos))
<1>1. /\ text \in Seq(Chars) /\ Len(text) \in Nat /\ pos \in 1..Len(text) /\ At(pos) = text[pos]
      /\ \A n \in pos..Len(text) :
            /\ SubSeq(text, pos, n) \in Seq(Chars) /\ SubSeq(text, pos, n) # <<>>
            /\ SubSeq(text, pos, n)[1] = text[pos]
            /\ Len(SubSeq(text, pos, n)) = n - pos + 1
  BY FromCursor
<1>2. SubSeq(text, pos, pos) = <<At(pos)>>
  BY <1>1, OneOrTwo
<1>3. IsBlank(SubSeq(text, pos, pos)) /\ IsLexeme(SubSeq(text, pos, pos))
  <2>1. <<At(pos)>> \in {<<c>> : c \in Spaces}
    OBVIOUS
  <2> QED
    BY <1>2, <2>1, Zenon DEF IsBlank, IsLexeme
<1>4. ASSUME NEW n \in pos..Len(text), IsLexeme(SubSeq(text, pos, n)) PROVE n <= pos
  <2> DEFINE s == SubSeq(text, pos, n)
  <2>1. s \in Seq(Chars) /\ s # <<>> /\ s[1] \in Spaces /\ Len(s) = n - pos + 1
    BY <1>1
  <2>2. IsBlank(s)
    BY <1>4, <2>1, KindsApart
  <2> HIDE DEF s
  <2>3. ~IsPrefix(<<"/", "/">>, s)
    BY <2>1, QuoteIs, Classes, CommentBegins
  <2>4. PICK c \in Spaces : s = <<c>>
    BY <2>2, <2>3 DEF IsBlank
  <2>5. Len(s) = 1
    BY <2>4
  <2>6. n \in Int /\ pos \in Int
    BY <1>1
  <2>7. n - pos + 1 = 1
    BY ONLY <2>1, <2>5
  <2> QED
    BY ONLY <2>6, <2>7
<1>5. Lexeme(text, pos) = SubSeq(text, pos, pos)
  <2>1. pos \in pos..Len(text)
    BY <1>1
  <2> QED
    BY <1>1, <1>3, <1>4, <2>1, LexemeIs
<1> QED
  BY <1>1, <1>3, <1>5 DEF LexemeEnds

\* A character of no class begins no lexeme.
LEMMA NothingThere ==
    ASSUME IInv, More, At(pos) \notin Spaces \cup Letters \cup DigitsOf(10) \cup Symbols
    PROVE  Lexeme(text, pos) = <<>>
  BY FromCursor, KindsApart, NoLexemeIs
\* Whatever a string looks like, reading it ends within the text or just behind it.
LEMMA StringEndType ==
    ASSUME text \in Seq(Chars), pos \in 1..Len(text)
    PROVE  StringEnd(pos + 1) \in 1..Len(text) + 1
<1> DEFINE N == Len(text)
           start == pos + 1
           F == CHOOSE f : StringEnds(start, f)
           B == {q \in start..N + 1 : F[q] \notin 1..N + 1}
<1>1. N \in Nat /\ start \in 1..N + 1
  OBVIOUS
<1>2. F = [p \in start..N + 1 |-> IF p > N THEN p ELSE EndAt(p, F[Onward(p)])]
  <2>1. StringEnds(start, F)
    BY <1>1, StringEndsExist
  <2> HIDE DEF F, start
  <2> QED
    BY <1>1, <2>1, StringEndsAre
<1>3. StringEnd(start) = F[start]
  BY Zenon DEF StringEnd, StringEnds
<1> HIDE DEF F
<1>4. B = {}
  <2> SUFFICES ASSUME B # {} PROVE FALSE
    OBVIOUS
  <2>1. PICK q \in B : \A r \in B : r <= q
    <3>1. B \in SUBSET (0..N + 1) /\ N + 1 \in Nat
      BY <1>1
    <3> HIDE DEF B
    <3> QED
      BY <3>1, Greatest
  <2>2. q \in start..N + 1 /\ F[q] \notin 1..N + 1
    BY <2>1
  <2>3. F[q] = IF q > N THEN q ELSE EndAt(q, F[Onward(q)])
    <3> HIDE DEF start, B
    <3> QED
      BY <1>2, <2>2
  <2>4. q \in 1..N
    BY <1>1, <2>2, <2>3
  <2>5. Onward(q) \in q + 1..N + 1
    BY <2>4, OnwardIs
  <2>6. F[Onward(q)] \in 1..N + 1
    BY <1>1, <2>1, <2>2, <2>5
  <2>7. EndAt(q, F[Onward(q)]) \in 1..N + 1
    BY <2>4, <2>6 DEF EndAt
  <2> HIDE DEF B
  <2> QED
    BY <1>1, <2>2, <2>3, <2>4, <2>7
<1> QED
  BY <1>1, <1>3, <1>4

-----------------------------------------------------------------------------
(* The invariant.                                                          *)

\* Of a text with something else in it nothing is meant.
LEMMA NothingMeant ==
    ASSUME ~AllMeant, text' = text
    PROVE  ReadIsMeant'
  BY DEF ReadIsMeant, AllMeant

\* A turn with a token keeps all but ReadIsMeant, whatever it writes.
LEMMA PutKeeps ==
    ASSUME IInv, NEW type, NEW view, NEW p \in Nat \ {0}, Put(type, view, p), ReadIsMeant'
    PROVE  IInv'
<1> DEFINE token == [type |-> type, view |-> view, line |-> line]
<1>1. text' = text /\ text \in Texts /\ pos' = p /\ tokens' = Append(tokens, token) /\ Grow
  BY DEF Put, IInv
<1> HIDE DEF token
<1>2. PICK S : tokens \in Seq(S)
  BY DEF IInv
<1>3. tokens' \in Seq(S \cup {token}) /\ Len(tokens') = Len(tokens) + 1 /\ Len(tokens) \in Nat
  <2>1. tokens \in Seq(S \cup {token})
    BY <1>2, SeqMonotonic
  <2> QED
    BY <1>1, <2>1
<1>4. capacity \in Nat \ {0} /\ Len(tokens) <= capacity
  BY DEF IInv, TokensFit
<1>5. capacity' \in Nat \ {0} /\ Len(tokens') <= capacity'
  BY <1>1, <1>3, <1>4 DEF Grow
<1>6. \E T : tokens' \in Seq(T)
  BY <1>3
<1> QED
  BY <1>1, <1>5, <1>6 DEF IInv, TokensFit

\* A turn without one does, too.
LEMMA PassKeeps ==
    ASSUME IInv, NEW p \in Nat \ {0}, pos' = p, Grow, text' = text, tokens' = tokens,
           ReadIsMeant'
    PROVE  IInv'
<1>1. PICK S : tokens \in Seq(S)
  BY DEF IInv
<1>2. Len(tokens) \in Nat
  BY <1>1
<1>3. capacity \in Nat \ {0} /\ Len(tokens) <= capacity
  BY DEF IInv, TokensFit
<1>4. capacity' \in Nat \ {0} /\ Len(tokens') <= capacity'
  BY <1>2, <1>3 DEF Grow
<1>5. \E T : tokens' \in Seq(T)
  BY <1>1
<1> QED
  BY <1>4, <1>5 DEF IInv, TokensFit

\* The token of a lexeme; no lexeme is of two kinds.
LEMMA TokenIs ==
    ASSUME NEW s \in Seq(Chars), s # <<>>, NEW n
    PROVE  LET inner == SubSeq(s, 2, Len(s) - 1)
           IN  /\ IsWord(s) => TokenOf(s, n) = [type |-> WordType(s), view |-> s, line |-> n]
               /\ IsNumber(s) => TokenOf(s, n) = [type |-> <<"number">>, view |-> s, line |-> n]
               /\ IsString(s) => TokenOf(s, n) = [type |-> <<"string">>, view |-> inner, line |-> n]
               /\ IsChar(s) => TokenOf(s, n) = [type |-> <<"char">>, view |-> inner, line |-> n]
<1>1. /\ IsWord(s) => s[1] \in Letters
      /\ IsNumber(s) => s[1] \in DigitsOf(10)
      /\ IsString(s) => s[1] = Quote
      /\ IsChar(s) => s[1] = "'"
  BY FirstCharacters
<1>2. /\ IsWord(s) => ~IsNumber(s) /\ ~IsString(s) /\ ~IsChar(s)
      /\ IsNumber(s) => ~IsString(s) /\ ~IsChar(s)
      /\ IsString(s) => ~IsChar(s)
  BY <1>1, Classes, QuoteIs
<1>3. CASE IsWord(s)
  BY <1>2, <1>3, Zenon DEF TokenOf, WordType
<1>4. CASE IsNumber(s)
  BY <1>2, <1>4, Zenon DEF TokenOf
<1>5. CASE IsString(s)
  BY <1>2, <1>5, Zenon DEF TokenOf
<1>6. CASE IsChar(s)
  BY <1>2, <1>6, Zenon DEF TokenOf
<1> QED
  BY <1>3, <1>4, <1>5, <1>6

LEMMA SkipCommentKeeps ==
    ASSUME IInv, SkipComment
    PROVE  IInv'
<1> DEFINE m == Past(pos, Chars \ {"\n"}) - 1
<1>1. More /\ AtComment /\ pos' = Past(pos, Chars \ {"\n"}) /\ Grow
      /\ text' = text /\ line' = line /\ tokens' = tokens
  BY DEF SkipComment
<1>2. /\ LexemeEnds(m) /\ IsBlank(SubSeq(text, pos, m)) /\ "\n" \notin Range(SubSeq(text, pos, m))
      /\ m + 1 = Past(pos, Chars \ {"\n"})
  BY <1>1, CommentEnds
<1> HIDE DEF m
<1>3. text \in Seq(Chars) /\ Len(text) \in Nat /\ pos \in 1..Len(text)
  BY <1>1, FromCursor
<1>4. m \in pos..Len(text) /\ Lexeme(text, pos) = SubSeq(text, pos, m)
  BY <1>2 DEF LexemeEnds
<1>5. pos' = m + 1 /\ m + 1 \in Nat \ {0}
  BY <1>1, <1>2, <1>3, <1>4
<1>6. ASSUME AllMeant PROVE ReadIsMeant'
  <2>1. line' = LineOf(text, m + 1)
    BY <1>1, <1>2, <1>3, <1>4, <1>6, LineStays, LexemeThere
  <2> QED
    BY <1>1, <1>2, <1>4, <1>5, <1>6, <2>1, BlankTurn
<1> QED
  BY <1>1, <1>5, <1>6, NothingMeant, PassKeeps

LEMMA SkipSpaceKeeps ==
    ASSUME IInv, SkipSpace
    PROVE  IInv'
<1>1. /\ More /\ At(pos) \in Spaces /\ pos' = pos + 1 /\ Grow /\ text' = text /\ tokens' = tokens
      /\ line' = IF At(pos) = "\n" THEN line + 1 ELSE line
  BY DEF SkipSpace
<1>2. LexemeEnds(pos) /\ IsBlank(SubSeq(text, pos, pos))
  BY <1>1, SpaceEnds
<1>3. text \in Seq(Chars) /\ Len(text) \in Nat /\ pos \in 1..Len(text) /\ At(pos) = text[pos]
  BY <1>1, FromCursor
<1>4. Lexeme(text, pos) = SubSeq(text, pos, pos)
  BY <1>2 DEF LexemeEnds
<1>5. pos + 1 \in Nat \ {0}
  BY <1>3
<1>6. ASSUME AllMeant PROVE ReadIsMeant'
  <2>1. line = LineOf(text, pos)
    BY <1>1, <1>6, LexemeThere
  <2>2. line' = LineOf(text, pos + 1)
    BY <1>1, <1>3, <2>1, LineNext
  <2> QED
    BY <1>1, <1>2, <1>4, <1>6, <2>2, BlankTurn
<1> QED
  BY <1>1, <1>5, <1>6, NothingMeant, PassKeeps

LEMMA ReadWordKeeps ==
    ASSUME IInv, ReadWord
    PROVE  IInv'
<1> DEFINE end == Past(pos, WordChars)
           m == end - 1
           word == SubSeq(text, pos, m)
<1>1. More /\ At(pos) \in Letters /\ Put(WordType(word), word, end)
  BY DEF ReadWord
<1>2. LexemeEnds(m) /\ IsWord(word) /\ ~IsBlank(word)
  BY <1>1, WordEnds
<1>3. /\ text \in Texts /\ text \in Seq(Chars) /\ Len(text) \in Nat /\ pos \in 1..Len(text)
  BY <1>1, FromCursor
<1>4. end \in pos..Len(text) + 1
  <2>1. NUL \notin WordChars
    BY Classes DEF WordChars
  <2> QED
    BY <1>3, <2>1, PastIs
<1> HIDE DEF end
<1>5. m + 1 = end /\ end \in Nat \ {0}
  BY <1>3, <1>4
<1>6. Lexeme(text, pos) = word
  BY <1>2 DEF LexemeEnds
<1>7. TokenOf(word, line) = [type |-> WordType(word), view |-> word, line |-> line]
  <2>1. word \in Seq(Chars) /\ word # <<>>
    BY <1>1, <1>2, FromCursor DEF LexemeEnds
  <2> HIDE DEF word
  <2> QED
    BY <1>2, <2>1, TokenIs
<1> HIDE DEF m, word
<1>8. ASSUME AllMeant PROVE ReadIsMeant'
  BY <1>1, <1>2, <1>5, <1>6, <1>7, <1>8, TokenTurn
<1>9. ReadIsMeant'
  BY <1>1, <1>8, NothingMeant DEF Put
<1> QED
  BY <1>1, <1>5, <1>9, PutKeeps

LEMMA ReadNumberKeeps ==
    ASSUME IInv, ReadNumber
    PROVE  IInv'
<1> DEFINE end == NumberEnd(pos)
           m == end - 1
           view == SubSeq(text, pos, m)
<1>1. More /\ At(pos) \in DigitsOf(10) /\ Put(<<"number">>, view, end)
  BY DEF ReadNumber
<1>2. LexemeEnds(m) /\ IsNumber(view) /\ ~IsWord(view) /\ ~IsBlank(view)
  BY <1>1, NumberEnds
<1>3. text \in Seq(Chars) /\ Len(text) \in Nat /\ pos \in 1..Len(text)
  BY <1>1, FromCursor
<1>4. m \in pos..Len(text) /\ Lexeme(text, pos) = view
  BY <1>2 DEF LexemeEnds
<1>5. TokenOf(view, line) = [type |-> <<"number">>, view |-> view, line |-> line]
  <2>1. view \in Seq(Chars) /\ view # <<>>
    BY <1>1, <1>4, FromCursor
  <2> HIDE DEF view
  <2> QED
    BY <1>2, <2>1, TokenIs
<1>6. end \in Int
  BY <1>1, NumberEnds
<1> HIDE DEF end
<1>7. m + 1 = end /\ end \in Nat \ {0}
  BY <1>3, <1>4, <1>6
<1> HIDE DEF m, view
<1>8. ASSUME AllMeant PROVE ReadIsMeant'
  BY <1>1, <1>2, <1>4, <1>5, <1>7, <1>8, TokenTurn
<1>9. ReadIsMeant'
  BY <1>1, <1>8, NothingMeant DEF Put
<1> QED
  BY <1>1, <1>7, <1>9, PutKeeps

LEMMA ReadStringKeeps ==
    ASSUME IInv, ReadString
    PROVE  IInv'
<1> DEFINE end == StringEnd(pos + 1)
           view == SubSeq(text, pos + 1, end - 2)
<1>1. More /\ At(pos) = Quote /\ Put(<<"string">>, view, end)
  BY Zenon DEF ReadString, Quote
<1>2. text \in Seq(Chars) /\ Len(text) \in Nat /\ pos \in 1..Len(text)
  BY <1>1, FromCursor
<1>3. end \in 1..Len(text) + 1
  BY <1>2, StringEndType
<1>4. ASSUME AllMeant PROVE ReadIsMeant'
  <2> DEFINE m == end - 1
             s == SubSeq(text, pos, m)
  <2>1. Lexeme(text, pos) # <<>>
    BY <1>1, <1>4, LexemeThere
  <2>2. /\ LexemeEnds(m) /\ IsString(s) /\ ~IsWord(s) /\ ~IsNumber(s) /\ ~IsBlank(s)
        /\ SubSeq(s, 2, Len(s) - 1) = SubSeq(text, pos + 1, (m + 1) - 2) /\ m + 1 = end
    BY <1>1, <2>1, StringEndsAt
  <2>3. Lexeme(text, pos) = s
    BY <2>2 DEF LexemeEnds
  <2>6. s \in Seq(Chars) /\ s # <<>>
    BY <1>1, <2>2, FromCursor DEF LexemeEnds
  <2> HIDE DEF m, s, end
  <2>4. view = SubSeq(s, 2, Len(s) - 1)
    BY <2>2, Zenon
  <2> HIDE DEF view
  <2>5. TokenOf(s, line) = [type |-> <<"string">>, view |-> view, line |-> line]
    BY <2>2, <2>4, <2>6, TokenIs
  <2> QED
    BY <1>1, <1>4, <2>2, <2>3, <2>5, TokenTurn
<1> HIDE DEF view, end
<1>5. ReadIsMeant'
  BY <1>1, <1>4, NothingMeant DEF Put
<1>6. end \in Nat \ {0}
  BY <1>2, <1>3
<1> QED
  BY <1>1, <1>5, <1>6, PutKeeps

LEMMA ReadCharKeeps ==
    ASSUME IInv, ReadChar
    PROVE  IInv'
<1> DEFINE n == IF At(pos + 1) = "\\" THEN 2 ELSE 1
           view == [k \in 1..n |-> At(pos + k)]
<1>1. More /\ At(pos) = "'" /\ Put(<<"char">>, view, pos + n + 2)
  BY DEF ReadChar
<1>2. text \in Seq(Chars) /\ Len(text) \in Nat /\ pos \in 1..Len(text) /\ n \in 1..2
  BY <1>1, FromCursor
<1> DEFINE m == pos + n + 1
           s == SubSeq(text, pos, m)
<1>3. ASSUME AllMeant
      PROVE  /\ LexemeEnds(m) /\ IsChar(s)
             /\ ~IsWord(s) /\ ~IsNumber(s) /\ ~IsString(s) /\ ~IsBlank(s)
             /\ SubSeq(s, 2, Len(s) - 1) = view
  <2>1. Lexeme(text, pos) # <<>>
    BY <1>1, <1>3, LexemeThere
  <2> QED
    BY <1>1, <2>1, CharEnds
<1> HIDE DEF n
<1>4. m + 1 = pos + n + 2 /\ pos + n + 2 \in Nat \ {0}
  BY <1>2
<1> HIDE DEF m, view
<1>5. ASSUME AllMeant PROVE ReadIsMeant'
  <2>1. Lexeme(text, pos) = s
    BY <1>3, <1>5 DEF LexemeEnds
  <2> HIDE DEF s
  <2>2. TokenOf(s, line) = [type |-> <<"char">>, view |-> view, line |-> line]
    BY <1>3, <1>5, Zenon DEF TokenOf
  <2> QED
    BY <1>1, <1>3, <1>4, <1>5, <2>1, <2>2, TokenTurn
<1>6. ReadIsMeant'
  BY <1>1, <1>5, NothingMeant DEF Put
<1> QED
  BY <1>1, <1>4, <1>6, PutKeeps

LEMMA ReadSymbolKeeps ==
    ASSUME IInv, ReadSymbol
    PROVE  IInv'
<1> DEFINE two == <<At(pos), At(pos + 1)>>
           view == IF two \in Doubles THEN two ELSE <<At(pos)>>
           m == pos + Len(view) - 1
<1>1. More /\ At(pos) \in Symbols \ {Quote, "'"} /\ ~AtComment /\ Put(view, view, pos + Len(view))
  BY Zenon DEF ReadSymbol, Quote
<1>2. /\ LexemeEnds(m) /\ Lexeme(text, pos) = view
      /\ ~IsWord(view) /\ ~IsNumber(view) /\ ~IsString(view) /\ ~IsChar(view) /\ ~IsBlank(view)
  BY <1>1, SymbolEnds
<1>3. text \in Seq(Chars) /\ Len(text) \in Nat /\ pos \in 1..Len(text)
  BY <1>1, FromCursor
<1>4. Len(view) \in Nat
  <2>1. \A d \in Doubles : Len(d) = 2
    BY DEF Doubles
  <2>2. Len(<<At(pos)>>) = 1
    OBVIOUS
  <2> QED
    BY <2>1, <2>2
<1> HIDE DEF view
<1>5. m + 1 = pos + Len(view) /\ pos + Len(view) \in Nat \ {0}
  BY <1>3, <1>4
<1>6. TokenOf(view, line) = [type |-> view, view |-> view, line |-> line]
  BY <1>2, Zenon DEF TokenOf
<1> HIDE DEF m
<1>7. ASSUME AllMeant PROVE ReadIsMeant'
  BY <1>1, <1>2, <1>5, <1>6, <1>7, TokenTurn
<1>8. ReadIsMeant'
  BY <1>1, <1>7, NothingMeant DEF Put
<1> QED
  BY <1>1, <1>5, <1>8, PutKeeps

LEMMA SkipUnknownKeeps ==
    ASSUME IInv, SkipUnknown
    PROVE  IInv'
<1>1. /\ More /\ At(pos) \notin Spaces \cup Letters \cup DigitsOf(10) \cup Symbols
      /\ pos' = pos + 1 /\ Grow /\ text' = text /\ line' = line /\ tokens' = tokens
  BY DEF SkipUnknown
<1>2. ~AllMeant
  BY <1>1, NothingThere, LexemeThere
<1>3. pos + 1 \in Nat \ {0}
  BY <1>1, FromCursor
<1> QED
  BY <1>1, <1>2, <1>3, NothingMeant, PassKeeps

LEMMA InitIInv == Init => IInv
<1> SUFFICES ASSUME Init PROVE IInv
  OBVIOUS
<1>1. text \in Texts /\ pos = 1 /\ line = 1 /\ tokens = <<>> /\ capacity = Capacity
  BY DEF Init
<1>2. Capacity \in Nat \ {0}
  BY LexerAssumption
<1>3. text \in Seq(Chars) /\ Len(text) \in Nat
  BY <1>1, TextFacts
<1>4. LineOf(text, 1) = 1
  <2>1. {k \in 1..1 - 1 : text[k] = "\n"} = {}
    OBVIOUS
  <2>2. Cardinality({k \in 1..1 - 1 : text[k] = "\n"}) = 0
    BY <2>1, FS_EmptySet
  <2> QED
    BY <2>2 DEF LineOf
<1>5. Meant(text)[1] = <<>> \o Meant(text)[1]
  <2>1. Meant(text)[1] \in Seq(Meanings(text))
    BY <1>3, MeantType
  <2> DEFINE all == Meant(text)[1]
  <2> HIDE DEF all
  <2>2. all = <<>> \o all
    BY <2>1, ConcatEmptySeq DEF all
  <2> QED
    BY <2>2 DEF all
<1>6. ReadIsMeant
  BY <1>1, <1>3, <1>4, <1>5 DEF ReadIsMeant
<1>7. <<>> \in Seq({}) /\ Len(<<>>) = 0
  OBVIOUS
<1>8. TokensFit /\ \E S : tokens \in Seq(S)
  BY <1>1, <1>2, <1>7 DEF TokensFit
<1> QED
  BY <1>1, <1>2, <1>6, <1>8 DEF IInv

LEMMA NextIInv == IInv /\ [Next]_vars => IInv'
<1> SUFFICES ASSUME IInv, [Next]_vars PROVE IInv'
  OBVIOUS
<1>1. CASE SkipComment
  BY <1>1, SkipCommentKeeps
<1>2. CASE SkipSpace
  BY <1>2, SkipSpaceKeeps
<1>3. CASE ReadWord
  BY <1>3, ReadWordKeeps
<1>4. CASE ReadNumber
  BY <1>4, ReadNumberKeeps
<1>5. CASE ReadString
  BY <1>5, ReadStringKeeps
<1>6. CASE ReadChar
  BY <1>6, ReadCharKeeps
<1>7. CASE ReadSymbol
  BY <1>7, ReadSymbolKeeps
<1>8. CASE SkipUnknown
  BY <1>8, SkipUnknownKeeps
<1>9. CASE UNCHANGED vars
  BY <1>9 DEF vars, IInv, TokensFit, ReadIsMeant
<1> QED
  BY <1>1, <1>2, <1>3, <1>4, <1>5, <1>6, <1>7, <1>8, <1>9 DEF Next

\* At the end there is nothing left to be meant.
LEMMA IInvTextIsRead == IInv => TextIsRead
<1> SUFFICES ASSUME IInv PROVE TextIsRead
  OBVIOUS
<1>1. ASSUME ~More, NoToken \notin Range(Meant(text)[1]) PROVE tokens = Meant(text)[1]
  <2>1. text \in Seq(Chars) /\ Len(text) \in Nat
    BY TextFacts DEF IInv
  <2>2. pos <= Len(text) + 1 /\ Meant(text)[1] = tokens \o Meant(text)[pos]
    BY <1>1 DEF IInv, ReadIsMeant
  <2>3. pos = Len(text) + 1
    BY <1>1, <2>1, <2>2 DEF IInv, More
  <2>4. Meant(text)[pos] = <<>>
    BY <2>1, <2>3, MeantIs
  <2>5. PICK S : tokens \in Seq(S)
    BY DEF IInv
  <2>6. tokens \o <<>> = tokens
    BY <2>5, ConcatEmptySeq
  <2> QED
    BY <2>2, <2>4, <2>6, Zenon
<1> QED
  BY <1>1 DEF IInv, TextIsRead, LexemesComeBack

\* The lexer reads every text: what it has written fits in the array that it
\* has grown (lexer.c:206-224), and a text made of lexemes has given one token
\* for each, the longest that can be read there, at its line (lexer.c:197-338).
THEOREM TextIsReadAlways == Spec => []TextIsRead
<1>1. Init => IInv
  BY InitIInv
<1>2. IInv /\ [Next]_vars => IInv'
  BY NextIInv
<1>3. IInv => TextIsRead
  BY IInvTextIsRead
<1> QED
  BY <1>1, <1>2, <1>3, PTL DEF Spec
=============================================================================
