------------------------- MODULE MCSemanticAnalyzer -------------------------
(***************************************************************************)
(* Small files for SemanticAnalyzer: a function with a variable of every   *)
(* kind of type and one statement, which stores, passes or returns every   *)
(* expression of up to two operators; the same where the type of texts is  *)
(* never spelled, or made on the way; files that take addresses in every   *)
(* nesting of blocks and loops; statements outside of functions.           *)
(***************************************************************************)
EXTENDS SemanticAnalyzer

Types == {"bool", "char", "int8", "int16", "int32", "int64"}
MCNames == Types \cup {"a", "b", "c", "f", "g", "h", "p", "q", "r", "s", "t", "w", "x"}
MCLiterals == [n \in {"1", "2"} |-> IF n = "1" THEN 1 ELSE 2]
MCChars == {"'c'"}
MCTexts == {"\"s\""}
MCBasic == [bool |-> 1, char |-> 1, int8 |-> 1, int16 |-> 2, int32 |-> 4, int64 |-> 8]
MCQuoted == [t \in MCTexts \cup MCChars |-> IF t = "'c'" THEN "c" ELSE "s"]

-----------------------------------------------------------------------------
Global == <<"var", "g", ":", "int16", "=", "1", ";", "var", "q", ":", "*", "*", "char", "=", "2", ";">>
Callee == <<"fn", "f", "(", "x", ":", "int16", ",", "p", ":", "*", "int8", ")", ":", "int16", "{", "x", ";", "}">>
Before == Global \o Callee

Locals ==
    <<"var", "c", ":", "char", "=", "'c'", ";", "var", "s", ":", "int8", "=", "1", ";",
      "var", "w", ":", "int64", "=", "1", ";", "var", "p", ":", "*", "int8", "=", "&", "s", ";",
      "var", "r", ":", "[", "int16", ",", "2", "]", "=", "{", "1", ",", "g", "}", ";">>

PureFunction(type, body) == <<"fn", "h", "(", ")", ":", type>> \o <<"pure", "{">> \o body \o <<"}">>
Body(type, body) == Before \o <<"fn", "h", "(", ")", ":", type, "{">> \o Locals \o body \o <<"}">>

Atoms == {<<"1">>, <<"'c'">>, <<"\"s\"">>, <<"s">>, <<"w">>, <<"p">>, <<"r">>, <<"g">>}
AssignS == <<"&", "(", "s", "=", "1", ")">>
Ones == Atoms \cup {AssignS} \cup {<<o>> \o a : o \in {"-", "*", "&", "!"}, a \in Atoms}
              \cup {a \o <<"[", "1", "]">> : a \in Atoms}
              \cup {<<"f", "(">> \o a \o <<",", "p", ")">> : a \in Atoms}
Places == Atoms \cup {<<"*">> \o a : a \in Atoms} \cup {<<"r", "[", "s", "]">>, <<"p", "[", "s", "]">>}
Twos == {a \o <<o>> \o b : a, b \in Atoms, o \in {"+", "-", "<", "&"}}
            \cup {<<"*">> \o a \o <<o, "(", "-", "s", ")">> : a \in Atoms, o \in {"+", "<<"}}

Targets == {<<"bool">>, <<"char">>, <<"int8">>, <<"int32">>, <<"*", "int8">>, <<"*", "*", "char">>}

Stored ==
    {Body("int8", <<"var", "t", ":">> \o t \o <<"=">> \o e \o <<";", "1", ";">>) : t \in Targets, e \in Ones \cup Twos}
        \cup {Body("int16", l \o <<"=">> \o e \o <<";">>) : l \in Places, e \in Ones}
        \cup {Body(t, e \o <<";">>) : t \in {"bool", "int32"}, e \in Ones \cup Twos}
        \cup {Body("int8", <<"f", "(">> \o e \o <<",">> \o d \o <<")", ";", "s", ";">>) : e \in Ones, d \in Places}
        \cup {Body("int8", <<"f", "(">> \o e \o <<")", ";", "s", ";">>) : e \in Atoms}
        \cup {Body("int8", <<"var", "t", ":", "[", "char", ",", "2", "]", "=", "{">> \o e \o <<"}", ";", "1", ";">>) : e \in Ones}

-----------------------------------------------------------------------------
\* Files that do not spell the type of a text: TakeC makes it in between.
TakeC == <<"&", "c", ";">>
Unspelled(type, body) ==
    SubSeq(Global, 1, 7) \o Callee \o <<"fn", "h", "(", ")", ":", type, "{">> \o Locals \o body \o <<"}">>
StoreT(t, e) == <<"var", "t", ":">> \o t \o <<"=">> \o e \o <<";">>

Texts0 == {<<"\"s\"">>, <<"p">>, <<"s">>}
Textual == Texts0 \cup {<<o>> \o a : o \in {"-", "*", "&", "!"}, a \in Texts0}
               \cup {a \o <<o>> \o b : a, b \in Texts0, o \in {"+", "<", "&"}}
               \cup {<<"\"s\"", "[", "1", "]">>, <<"f", "(", "\"s\"", ",", "p", ")">>}

Untold ==
    {Unspelled("int8", b \o StoreT(t, e) \o a \o <<"1", ";">>) :
         t \in {<<"bool">>, <<"int8">>, <<"*", "int8">>}, e \in Textual, a, b \in {<<>>, TakeC}}
    \cup {Unspelled("int8", l \o <<"=">> \o e \o <<";">>) : l \in Places, e \in Textual}
    \cup {Unspelled("int16", <<"s", "+", "loop", "{">> \o a \o <<"}", "return", "{">> \o b \o
              <<"1", ";", "}", "continue", "{">> \o c \o <<"}", ";", "f", "(", "1", ",", "p", ")", ";">>) :
              a, b, c \in {<<>>, TakeC, StoreT(<<"int8">>, <<"\"s\"">>)}}

-----------------------------------------------------------------------------
DeclareA == <<"var", "a", ":", "int8", "=", "1", ";">>
AddressA == <<"&", "a", ";">>
SetA == <<"&", "(", "a", "=", "2", ")", ";">>
PassA == <<"f", "(", "1", ",", "&", "a", ")", ";">>
StoreA == <<"var", "b", ":", "[", "*", "int8", ",", "1", "]", "=", "{", "&", "a", "}", ";">>
Braced(s) == <<"{">> \o s \o <<"}">>
Parts == {<<>>, DeclareA, AddressA \o DeclareA, SetA, PassA, StoreA, Braced(DeclareA \o AddressA), Braced(StoreA)}
Looped(body, return, continue) ==
    <<"loop">> \o Braced(body) \o <<"return">> \o Braced(return) \o <<"continue">> \o Braced(continue)

Nested == {Before \o <<"fn", "h", "(", "a", ":", "int8", ")", ":", "int8">> \o Braced(s \o <<"1", ";">>) :
              s \in {Looped(a, b, c) : a, b, c \in Parts} \cup {a \o Braced(b \o Braced(c)) : a, b, c \in Parts}}

Pure == {Before \o PureFunction("int16", e \o <<";", "1", ";">>) :
            e \in {<<"f", "(", "1", ",", "1", ")">>, <<"*", "g", "=", "1">>, <<"g", "=", "2">>, <<"asm", "\"s\"">>,
                   <<"g", "=", "f", "(", "1", ",", "1", ")">>, <<"h", "(", ")">>, <<"g", "(", ")">>, <<"x", "(", "1", ")">>}}

Outside == {Before \o e \o <<";">> : e \in Ones \cup {<<"var", "t", ":", "int32", "=">> \o e : e \in Ones}
                \cup {<<"g", "=", "1">>, <<"asm", "\"s\"">>, <<"var", "t", ":", "[", "int8", ",", "1", "]">>}}
           \cup {Before \o Looped(<<"1", ";">>, <<>>, <<>>), Before \o Braced(<<"g", "=", "1", ";">>)}

MCPlainFiles == Stored \cup Untold \cup Nested \cup Pure \cup Outside
=============================================================================
