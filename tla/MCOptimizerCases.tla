------------------------- MODULE MCOptimizerCases --------------------------
(* Two programs of a few lines, as the compiler lowers them.             *)
EXTENDS Optimizer

CaseOperand == {"v1", "v2", "v3", "v4", "w1", "w2", "w3", "w4", "p1", "k", "l", "s", "g"}

CaseKind == [o \in CaseOperand |->
    IF o \in {"k", "l"} THEN "imm" ELSE IF o = "s" THEN "slot" ELSE IF o = "g" THEN "global" ELSE "vreg"]

I(op, dest, args) == [op |-> op, dest |-> dest, args |-> args, params |-> << >>]

Module(is, lasts, paths) == {[code |-> is, last |-> lasts, kind |-> CaseKind, paths |-> paths]}

(* var x = 3; var y = f(&x) + 1; x;      where f stores through its pointer *)
ImpureCall ==
    Module(<<I("alloca", "s", << >>), I("store", "s", <<"k">>), I("pure", "v1", <<"s">>),
             I("call", "v2", <<"v1">>), I("alu", "v3", <<"v2", "k">>),
             I("load", "v4", <<"s">>), I("ret", None, <<"v4">>)>>,
           <<7>>, {<<1, 2, 3, 4, 5, 6, 7>>})

(* var g = 5; fn f(a) { var y = g + 1; a; } fn main() { f(3) + g; }        *)
GlobalTwice ==
    Module(<<I("load", "v1", <<"g">>), I("alu", "v2", <<"v1", "k">>), I("ret", None, <<"p1">>),
             I("call", "w1", <<"l">>), I("load", "w2", <<"g">>), I("alu", "w3", <<"w1", "w2">>),
             I("ret", None, <<"w3">>)>>,
           <<3, 7>>, {<<1, 2, 3>>, <<4, 5, 6, 7>>})
=============================================================================
