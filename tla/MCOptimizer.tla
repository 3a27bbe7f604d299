---------------------------- MODULE MCOptimizer ----------------------------
(* Modules in SSA form.  Straight ones have any three instructions and a   *)
(* return, followed by a second function; loops have any two               *)
(* instructions in the body and hand any values to the loop's parameter    *)
(* and to the return.  Texts has the operations on a text, which is the    *)
(* only argument or the first one.  s is a stack slot, k and l are         *)
(* immediates, g is a global, t a text.                                    *)
EXTENDS Optimizer

MCOperand == {"v1", "v2", "v3", "v4", "p", "k", "l", "s", "g", "t"}

MCKind == [o \in MCOperand |->
    IF o \in {"k", "l"} THEN "imm" ELSE IF o = "s" THEN "slot" ELSE IF o = "g" THEN "global"
    ELSE IF o = "t" THEN "text" ELSE "vreg"]

I(op, dest, args) == [op |-> op, dest |-> dest, args |-> args, params |-> << >>]

Jump(args, params) == [I("jmp", None, args) EXCEPT !.params = params]

\* The instructions that define v, or nothing, out of the values vs.
Choices(v, vs) ==
    {I(op, v, <<a>>) : op \in {"mov", "pure", "call", "purecall"}, a \in vs}
    \cup {I("alu", v, <<a, b>>) : a \in vs, b \in vs}
    \cup {I("load", v, <<"s">>), I("call", None, <<"k">>)}
    \cup {I("store", "s", <<a>>) : a \in vs}
    \cup {I("store", a, <<"k">>) : a \in vs \ {"k"}}

\* What is defined after the instructions is.
Defined(is) == {is[j].dest : j \in {j \in 1..Len(is) : is[j].op # "store"}} \ {None}

\* What an instruction reads is defined by those before it.
Triples ==
    {t \in (Choices("v1", {"k"}) \cup {I("load", "v1", <<"g">>)})
             \X Choices("v2", {"k", "v1"}) \X Choices("v3", {"k", "v1", "v2"}) :
        /\ Reads(t[2]) \ {"k", "s"} \subseteq Defined(<<t[1]>>)
        /\ Reads(t[3]) \ {"k", "s"} \subseteq Defined(<<t[1], t[2]>>)}

Straight ==
    {[code |-> <<c[1][1], c[1][2], c[1][3], I("ret", None, <<c[2]>>), I("ret", None, <<"l">>)>>,
      last |-> <<4, 5>>, kind |-> MCKind, paths |-> {<<1, 2, 3, 4>>, <<5>>}] :
        c \in {c \in Triples \X {"v1", "v2", "v3"} : c[2] \in Defined(c[1])}}

Bodies ==
    {t \in Choices("v3", {"v1", "p"}) \X Choices("v4", {"p", "v3"}) :
        "v3" \in Reads(t[2]) => "v3" \in Defined(<<t[1]>>)}

Loops ==
    {[code |-> <<I("mov", "v1", <<"k">>), Jump(<<"v1">>, <<"p">>),
                 I("pure", "v2", <<"p", "k">>), I("br", None, <<"v2">>),
                 c[1][1], c[1][2], Jump(<<c[2]>>, <<"p">>),
                 I("ret", None, <<c[3]>>)>>,
      last |-> <<8>>, kind |-> MCKind,
      paths |-> {<<1, 2, 3, 4, 8>>, <<1, 2, 3, 4, 5, 6, 7, 3, 4, 8>>,
                 <<1, 2, 3, 4, 5, 6, 7, 3, 4, 5, 6, 7, 3, 4, 8>>}] :
        c \in {c \in Bodies \X {"v1", "p", "v3", "v4"} \X {"v1", "p"} :
                 c[2] \in {"v1", "p"} \cup Defined(c[1])}}

\* Two instructions that may take the text, and an operation on what they define
\* or on the text; its result is stored and returned.
Folds(v, as, bs) == {I(op, v, <<a, b>>) : op \in {"alu", "neq"}, a \in as, b \in bs}

TextChoices(v, vs) ==
    Folds(v, {"t", "k"} \cup vs, {"k"} \cup vs)
    \cup {I(op, v, <<a>>) : op \in {"mov", "pure", "load"}, a \in {"t"} \cup vs}

Texts ==
    {[code |-> <<c[1], c[2], c[3], I("store", "s", <<"v3">>), I("ret", None, <<"v3">>)>>,
      last |-> <<5>>, kind |-> MCKind, paths |-> {<<1, 2, 3, 4, 5>>}] :
        c \in TextChoices("v1", {}) \X TextChoices("v2", {"v1"})
                 \X Folds("v3", {"t", "v1", "v2"}, {"v1", "v2"})}

MCPrograms == Straight \cup Loops \cup Texts

\* What the theorems about the passes ask of a module holds of these.
ASSUME LocalAssumption == OperandsAreLocal
=============================================================================
