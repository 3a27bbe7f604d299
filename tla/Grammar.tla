------------------------------- MODULE Grammar ------------------------------
(***************************************************************************)
(* What the parser is to accept, told from the text alone and from no      *)
(* cursor: the tree of an expression, found by cutting it at its loosest   *)
(* operator, and the declarations that a name in a file may mean, found by *)
(* matching braces.                                                        *)
(***************************************************************************)
EXTENDS Parser

Openers == {"(", "[", "{"}
Closers == {")", "]", "}"}

(* How many brackets are open before position k.                           *)
Nesting(s, k) == Cardinality({i \in 1 .. k - 1 : s[i] \in Openers})
                     - Cardinality({i \in 1 .. k - 1 : s[i] \in Closers})

(* The bracket that closes the one at k; the position past the end if none.*)
Match(s, k) ==
    CHOOSE i \in k + 1 .. Len(s) + 1 :
        /\ i <= Len(s) => s[i] \in Closers /\ Nesting(s, i + 1) = Nesting(s, k)
        /\ \A j \in k + 1 .. i - 1 : ~(s[j] \in Closers /\ Nesting(s, j + 1) = Nesting(s, k))

Balanced(s) == /\ \A k \in 1 .. Len(s) + 1 : Nesting(s, k) >= 0
               /\ Nesting(s, Len(s) + 1) = 0
               /\ \A k \in DOMAIN s : s[k] \in Openers =>
                      <<s[k], s[Match(s, k)]>> \in {<<"(", ")">>, <<"[", "]">>, <<"{", "}">>}

-----------------------------------------------------------------------------
(***************************************************************************)
(* The tree of an expression over the names known.                         *)
(***************************************************************************)
(* An operator stands between operands if an operand ends before it.       *)
EndsOperand(token) == token \in Names \cup DOMAIN Literals \cup Texts \cup Chars \cup {")", "]"}

Looseness(token) ==     \* 0 for "=", the level of Operators for the others
    IF token = "=" THEN 0
    ELSE CHOOSE k \in DOMAIN Operators : token \in Operators[k]

Infix == {"="} \cup UNION Range(Operators)

Cuts(s) == {k \in 2 .. Len(s) : /\ s[k] \in Infix
                                /\ Nesting(s, k) = 0
                                /\ EndsOperand(s[k - 1])}

Least(set) == CHOOSE k \in set : \A j \in set : k <= j
Greatest(set) == CHOOSE k \in set : \A j \in set : k >= j

Both(kind, op, left, right) ==
    IF left = Null \/ right = Null THEN Null ELSE Pair(kind, op, left, right)

(* The arguments of a call.  One starts at the beginning, behind a comma,  *)
(* and where an operand starts right behind another, for commas may be     *)
(* missing (parser.c:376).  A comma may also stand behind the last one.    *)
StartsOperand(s, k) ==
    \/ s[k] \in Names \cup DOMAIN Literals \cup Texts \cup Chars \cup (UnaryOperators \ Infix)
    \/ s[k] = "(" /\ s[k - 1] \notin Names

Pieces(s) ==
    LET starts == {k \in DOMAIN s : \/ k = 1
                                    \/ /\ Nesting(s, k) = 0
                                       /\ \/ s[k - 1] = ","
                                          \/ EndsOperand(s[k - 1]) /\ StartsOperand(s, k)}
        at == SetToSortSeq(starts, <)
        end(n) == IF n = Len(at) THEN Len(s) ELSE at[n + 1] - 1
    IN  [n \in DOMAIN at |-> SubSeq(s, at[n], IF s[end(n)] = "," THEN end(n) - 1 ELSE end(n))]

RECURSIVE Tree(_, _)
Tree(s, known) ==
    LET n == Len(s)
        cuts == Cuts(s)
        level == Least({Looseness(s[k]) : k \in cuts})
        sites == {k \in cuts : Looseness(s[k]) = level}
        before(k) == SubSeq(s, 1, k - 1)
        after(k) == SubSeq(s, k + 1, n)
        inside(k) == SubSeq(s, k + 1, n - 1)
        open == {k \in 1 .. n : s[k] \in Openers /\ Match(s, k) = n}
    IN  IF n = 0 \/ ~Balanced(s) THEN Null
        \* an assignment groups to the right, and its target holds no "|"
        ELSE IF cuts # {} /\ level = 0
        THEN LET k == Least(sites)
             IN  IF \E j \in cuts : j < k /\ s[j] = "|" THEN Null
                 ELSE Both("assignment", "=", Tree(before(k), known), Tree(after(k), known))
        \* the other operators group to the left
        ELSE IF cuts # {}
        THEN LET k == Greatest(sites)
             IN  Both("binary", s[k], Tree(before(k), known), Tree(after(k), known))
        ELSE IF s[1] \in UnaryOperators
        THEN LET operand == Tree(Tail(s), known)
             IN  IF operand = Null \/ s[1] = "+" THEN operand
                 ELSE Pair("unary", s[1], Null, operand)
        ELSE IF n = 1
        THEN IF s[1] \in DOMAIN Literals THEN Leaf("number", Literals[s[1]])
             ELSE IF s[1] \in Texts THEN Leaf("text", s[1])
             ELSE IF s[1] \in Chars THEN Leaf("char", s[1])
             ELSE IF s[1] \in known THEN Identifier(s[1], 1)
             ELSE Null
        ELSE IF s[n] = "]" /\ open # {1}
        THEN LET k == CHOOSE k \in open : TRUE
             IN  Both("index", "[", Tree(before(k), known), Tree(inside(k), known))
        ELSE IF s[1] = "(" /\ s[n] = ")" /\ open = {1} THEN Tree(inside(1), known)
        \* a call, whose arguments hold no "|", "^" or "="
        ELSE IF s[1] \in Names /\ s[n] = ")" /\ open = {2}
        THEN LET pieces == Pieces(inside(2))
                 args == [k \in DOMAIN pieces |-> Tree(pieces[k], known)]
                 loose(piece) == {k \in Cuts(piece) : piece[k] \in {"=", "|", "^"}}
             IN  IF \E k \in DOMAIN pieces : args[k] = Null \/ loose(pieces[k]) # {} THEN Null
                 ELSE [kind |-> "call", name |-> s[1], args |-> args]
        ELSE Null

-----------------------------------------------------------------------------
(***************************************************************************)
(* Scopes, over the tokens of a whole file whose variables are vars.       *)
(***************************************************************************)
IsParameter(s, i) == s[i + 1] = ":" /\ s[i - 1] # "var"
Declares(s, i) == i > 1 /\ i < Len(s) /\ s[i + 1] = ":" /\ s[i - 1] \in {"var", "(", ","}

(* A loop's body owns a scope that lasts to the end of its third block;    *)
(* the other two, and a function's body, do not open one of their own.     *)
IsBody(s, b) == b > 1 /\ (s[b - 1] = "loop" \/ (b > 3 /\ s[b - 2] = "approx"))
Owns(s, b) == s[b] = "{" /\ (b > 1 => s[b - 1] \notin {"return", "continue", "="})
End(s, b) == IF IsBody(s, b) THEN Match(s, Match(s, Match(s, b) + 2) + 2) ELSE Match(s, b)

(* The scopes that hold position i, by the brace that opens them; a        *)
(* parameter is in the scope of the next brace.                            *)
ScopesOf(s, i) ==
    {b \in DOMAIN s : /\ Owns(s, b)
                     /\ b < i /\ i < End(s, b)}
        \cup IF Declares(s, i) /\ IsParameter(s, i)
             THEN {Least({b \in i .. Len(s) : s[b] = "{"})} ELSE {}

(* A use is every other place where a variable's name stands.              *)
IsUse(s, variables, j) == s[j] \in variables /\ ~Declares(s, j)

Visible(s, i, j) == i < j /\ ScopesOf(s, i) \subseteq ScopesOf(s, j)

(* Behind "approx" anything may stand; the parser passes it unseen.        *)
Seen(text) == [k \in DOMAIN text |-> IF k > 1 /\ text[k - 1] = "approx" THEN "1" ELSE text[k]]

WellScoped(text, variables) ==
    LET s == Seen(text)
        declared == {i \in DOMAIN s : s[i] \in variables /\ Declares(s, i)}
    IN  /\ \A j \in DOMAIN s : IsUse(s, variables, j) =>
               \E i \in declared : s[i] = s[j] /\ Visible(s, i, j)
        /\ \A i, j \in declared :
               s[i] = s[j] /\ ScopesOf(s, i) = ScopesOf(s, j) => i = j
=============================================================================
