---------------------------- MODULE MCLiveRange ----------------------------
(* Control-flow graphs of N blocks and two vregs, of which x is read and   *)
(* written and y is written, and as a parameter read.                      *)
EXTENDS LiveRange, FiniteSets, FiniteSetsExt, Functions

CONSTANTS x, y, N

Op(reads, writes) == [uses |-> reads, defs |-> writes, slotUses |-> {}, slotDefs |-> {}]

\* x is read, or written and read, or both in one instruction; y is read, or
\* written last.
Codes == {<< >>, <<Op({x, y}, {})>>, <<Op({}, {x}), Op({x}, {y})>>, <<Op({x}, {x})>>}

\* A block ends in a branch, a jump or a return; the last one does not branch.
Branches == {s \in SUBSET (1..N) : Cardinality(s) <= 2}

Graphs == {g \in [1..N -> Branches] : Cardinality(g[N]) <= 1}

Number(code) ==
    LET before[c \in 1..N] == IF c = 1 THEN 0 ELSE before[c - 1] + Len(code[c - 1])
    IN [c \in 1..N |-> [j \in 1..Len(code[c]) |-> before[c] + j - 1]]

\* The greatest number in the outermost loop around block c, -1 if it is in none.
LoopEnd(code, succ) ==
    LET id == Number(code)
        tails(c) == {d \in c..N : \E h \in succ[d] : h <= c}
        last(c) == CHOOSE d \in tails(c) : \A e \in tails(c) : e <= d
        numbers(c) == UNION {Range(id[d]) : d \in 1..last(c)}
    IN [c \in 1..N |-> IF tails(c) = {} \/ numbers(c) = {} THEN -1 ELSE Max(numbers(c))]

Functions ==
    {[n |-> N, succ |-> succ, code |-> code, params |-> ps,
      id |-> Number(code), loopEnd |-> LoopEnd(code, succ)] :
        succ \in Graphs, code \in [1..N -> Codes], ps \in {{}, {x, y}}}

MCVreg == {x, y}

-----------------------------------------------------------------------------
(* The control flow of                                                     *)
(*     var u = 5; var i = 0; var acc = 0;                                  *)
(*     loop { i < 3; } return { 0; } continue {                            *)
(*         var x = 1; var p = &x;                                          *)
(*         acc = acc + u;                                                  *)
(*         loop { .. } return { 0; } continue { .. }                       *)
(*         acc = acc + *p; i = i + 1;                                      *)
(*     }                                                                   *)
(*     acc;                                                                *)
(* with the inner loop made one block.  u is the vreg 0, and x, whose      *)
(* address is taken, the stack slot 0.                                     *)
Alloca == [uses |-> {}, defs |-> {}, slotUses |-> {}, slotDefs |-> {0}]
Store == [uses |-> {}, defs |-> {}, slotUses |-> {0}, slotDefs |-> {}]
AddressOf(v) == [uses |-> {}, defs |-> {v}, slotUses |-> {0}, slotDefs |-> {}]

Entry == <<Op({}, {0}), Op({}, {1}), Op({1}, {2, 3})>>
Header == <<Op({3}, {4}), Op({4}, {})>>
Body == <<Alloca, Store, AddressOf(5), Op({0, 2}, {6}), Op({}, {7})>>
Inner == <<Op({7}, {8}), Op({8}, {7})>>
Rest == <<Op({5}, {9}), Op({6, 9}, {10}), Op({3}, {11}), Op({10, 11}, {2, 3})>>
Exit == <<Op({2}, {})>>

TwoLoops ==
    {[n |-> 6, params |-> {},
      code |-> <<Entry, Header, Body, Inner, Rest, Exit>>,
      succ |-> <<{2}, {3, 6}, {4}, {4, 5}, {2}, {}>>,
      id |-> <<<<0, 1, 2>>, <<3, 4>>, <<5, 6, 7, 8, 9>>, <<10, 11>>, <<12, 13, 14, 15>>, <<16>>>>,
      loopEnd |-> <<-1, 9, 9, 11, -1, -1>>]}

TwoLoopsVreg == 0..11
=============================================================================
