---------------------------- MODULE MCFrontend -----------------------------
(***************************************************************************)
(* Small files for Frontend: every short string of expression tokens and   *)
(* longer ones of every pair of operators, bodies with every nesting of    *)
(* declarations, blocks and loops, whole files with a token lost, doubled  *)
(* or replaced, and files with two macros that use each other.             *)
(***************************************************************************)
EXTENDS Frontend

MCNames == {"a", "b", "f", "int32", "char", "A", "F", "x", "y"}
MCLiterals == [t \in {"1", "2"} |-> IF t = "1" THEN 1 ELSE 2]
MCChars == {"'c'"}
MCTexts == {"\"s\""}
MCEmptyTexts == {"\"\""}
MCBasic == [t \in {"int32", "char"} |-> IF t = "char" THEN 1 ELSE 4]
MCQuoted == [t \in MCTexts \cup MCChars |-> IF t = "'c'" THEN "c" ELSE "s"]
MCKnown == {"a", "b"}

-----------------------------------------------------------------------------
(* Expressions.                                                            *)
Short == {"1", "a", "-", "*", "|", "=", "(", ")", "[", "]"}
OneOfEach == {"=", "|", "^", "&", "<", "<<", "+", "*"}

Cut(o, q) == {<<"a", o, "b", q, "1">>, <<"-", "a", o, "*", "b", q, "1">>,
              <<"(", "a", o, "b", ")", q, "1">>, <<"a", o, "(", "b", q, "1", ")">>,
              <<"a", "[", "b", o, "1", "]", q, "2">>, <<"f", "(", "a", o, "b", ")", q, "1">>,
              <<"a", o, "f", "(", ")", q, "&", "+", "b">>, <<"a", "[", "1", "]", o, "~", "a", "[", "2", "]", q, "b">>}
ThreeOperators == {<<"a", o, "b", q, "1", r, "2">> : o, q, r \in OneOfEach}

\* Argument lists, with commas and without.
InArguments == {"1", "a", "-", "~", "|", ",", "(", ")"}
Calls == {<<"f", "(">> \o args \o <<")">> : args \in UNION {[1 .. n -> InArguments] : n \in 1 .. 4}}

Expressions == UNION {[1 .. n -> Short] : n \in 1 .. 4}
                   \cup UNION {Cut(o, q) : o, q \in OneOfEach} \cup ThreeOperators \cup Calls

-----------------------------------------------------------------------------
(* Bodies of a function.                                                   *)
DeclareA == <<"var", "a", ":", "int32", "=", "1", ";">>
DeclareB == <<"var", "b", ":", "int32", "=", "a", ";">>
UseA == <<"a", ";">>
Braced(s) == <<"{">> \o s \o <<"}">>
Parts == {<<>>, DeclareA, UseA, DeclareA \o UseA, Braced(DeclareA) \o UseA, Braced(UseA \o DeclareA)}

Looped(body, return, continue) ==
    <<"loop">> \o Braced(body) \o <<"return">> \o Braced(return) \o <<"continue">> \o Braced(continue)

Bodies == {Looped(p, q, r) \o s : p, q, r, s \in Parts}
              \cup {p \o Looped(q, r, DeclareB) \o DeclareB : p, q, r \in Parts}
              \cup {p \o Braced(q \o Braced(r)) \o s : p, q, r, s \in Parts}

InFunction(s) == <<"fn", "f", "(", "b", ":", "int32", ")", ":", "int32">> \o Braced(s)

-----------------------------------------------------------------------------
(* Whole files, and their damage.                                          *)
Sound ==
  { <<"var", "b", ":", "*", "*", "char", "unique", "=", "\"s\"", ";",
      "fn", "f", "(", "a", ":", "int32", ",", "x", ":", "*", "char", "unique", ")", ":", "int32", "pure", "{",
          "loop", "approx", "1", "{", "1", ";", "}", "return", "{", "}", "continue", "{", "f", "(", "a", "1", ",", ")", ";", "}",
      "}">>,
    <<"var", "a", ":", "[", "*", "int32", ",", "1", "+", "sizeof", "(", "char", ")", "]", "=", "{", "1", ",", "2", "}", ";",
      "resilient", "{", "asm", "\"\"", ";", "typeof", "(", "a", ")", ";", "}",
      "1", "+", "stof", "(", "*", "a", ")", "-", "alignof", "(", "[", "char", ",", "2", "]", ")", ";">>,
    <<"fn", "f", "(", ")", ":", "int32", "{", "{", "var", "a", ":", "int32", "=", "loop",
          "{", "1", "==", "2", ";", "}", "return", "{", "'c'", ";", "}", "continue", "{", "}", ";", "}",
      "}", "fn", "f", "(", ")", ":", "char", "{", "}">> }

Lost(s, k) == SubSeq(s, 1, k - 1) \o SubSeq(s, k + 1, Len(s))
Damage == {"'c'", ";", "}", "{", "fn", "var", "loop", "*", "["}
Damaged(s) == {Lost(s, k) : k \in DOMAIN s}
                  \cup {SubSeq(s, 1, k) : k \in DOMAIN s}
                  \cup {[s EXCEPT ![k] = d] : k \in DOMAIN s, d \in Damage}
                  \cup {SubSeq(s, 1, k) \o <<d>> \o SubSeq(s, k + 1, Len(s)) : k \in DOMAIN s, d \in Damage}

MCPlainFiles ==
    {Prologue \o e \o <<";">> : e \in Expressions}
        \cup {InFunction(s) : s \in Bodies}
        \cup UNION {Damaged(s) : s \in Sound} \cup Sound

-----------------------------------------------------------------------------
(* Macros: A, perhaps with parameters by accident, and F, of one or two.   *)
MacroBodies == {<<>>, <<"1">>, <<"A">>, <<"F">>, <<"(", "x", ")">>, <<"x", "F", "(", "y", ")">>,
                <<"F", "(", "A", "x", ")">>, <<"A", "y", "x">>}
MacroUses == {<<"A", "F", "(", "A", ")", "1">>, <<"F", "(", "F", "(", "1", ")", ",", "A", ")">>,
              <<"A", "(", "2", ")", "F">>, <<"F", "(", "(", "1", ",", "2", ")", ",", "b", ",", "1", ")">>, <<"F", "(", "1", ",", "A">>}
Parameterlists == {<<>>, <<"(", "x", ")">>, <<"(", "x", ",", "y", ")">>}

LinesOf(ls) == FlattenSeq([n \in DOMAIN ls |-> [k \in DOMAIN ls[n] |-> n]])
File(ls) == [tokens |-> FlattenSeq(ls), lines |-> LinesOf(ls)]

MCMacroFiles ==
    {File(<< <<"#", "define", "A">> \o body \o <<"$">>,
             <<"#", "define", "F">> \o params \o other \o <<"$">>, use >>) :
         body, other \in MacroBodies, params \in Parameterlists, use \in MacroUses}
    \cup {File(<< use, <<"#", "define", "A", "1", "$", "#">>, <<"#", "define", "1", "$">>, <<"#", "define">> >>) :
              use \in MacroUses}
    \cup {File(<< use, <<"#", "define", "A", "1", "$">>, <<"#", "define", "F", "(">>, <<"x", "1">> >>) :
              use \in MacroUses}
=============================================================================
