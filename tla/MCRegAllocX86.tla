--------------------------- MODULE MCRegAllocX86 ---------------------------
(* The x86-64 registers and two functions of real programs, with the       *)
(* live intervals the compiler computes for them at -O0.                   *)
EXTENDS RegAlloc

rax == 0
rdi == 1
rsi == 2
rdx == 3
rcx == 4
r8 == 5
r9 == 6
r10 == 7
r11 == 8
rbx == 11

\* The array has room for two more registers, which read as 0: rax.
X86Order == <<r8, r9, r10, r11, rdi, rsi, rdx, rcx, rax, rbx,
              12, 13, 14, 15, rax, rax>>
X86ArgReg == <<rdi, rsi, rdx, rcx, r8, r9>>
X86Reserved == {r10, r11}
X86CallerSaved == {rax, rdi, rsi, rdx, rcx, r8, r9, r10, r11}

NoPrefs(n) == [v \in 0..(n - 1) |-> {}]

FromZero(s) == [v \in 0..(Len(s) - 1) |-> s[v + 1]]

\* fn h(a, b, c) { var q = a / b; q + c; }
Divide ==
    [n |-> 6,
     start |-> FromZero(<<0, 0, 0, 0, 1, 2>>),
     end |-> FromZero(<<0, 0, 2, 1, 2, 3>>),
     params |-> <<0, 1, 2>>,
     moves |-> <<<<4, 3>>>>,
     clobber |-> {rax, rdx} \X {0},
     prefs |-> [v \in 0..5 |-> IF v \in {0, 3, 5} THEN {rax} ELSE {}],
     weight |-> FromZero(<<1000, 1000, 500, 1000, 1000, 1000>>),
     calls |-> {},
     writes |-> [t \in 0..2 |-> CASE t = 0 -> 0..3 [] t = 1 -> {4} [] t = 2 -> {5}],
     needed |-> FromZero(<<{}, {}, 0..1, {0}, {1}, {2}>>),
     copies |-> {}]

NestedStart ==
    FromZero(<<0, 1, 2, 3, 3, 3, 4, 6, 7, 8, 8, 9, 11, 12, 13, 14, 16, 17, 18, 19>>)

\* Two nested loops.  The outer body starts with t = s (v7 = v3), the inner loop
\* counts s up (v9) and the outer one adds t at instruction 16.
NestedLoop ==
    [n |-> 20,
     start |-> NestedStart,
     end |-> FromZero(<<3, 3, 3, 20, 21, 20, 8, 16, 8, 20, 15, 15, 15, 15, 15, 15,
                        17, 20, 19, 20>>),
     params |-> << >>,
     moves |-> <<<<3, 0>>, <<4, 2>>, <<5, 1>>, <<7, 3>>, <<9, 3>>, <<10, 8>>,
                 <<13, 12>>, <<15, 14>>, <<9, 13>>, <<10, 15>>, <<17, 16>>,
                 <<19, 18>>, <<3, 9>>, <<4, 17>>, <<5, 19>>>>,
     clobber |-> {},
     prefs |-> [NoPrefs(20) EXCEPT ![4] = {rax}],
     weight |-> FromZero(<<333, 500, 1000, 1294, 666, 1294, 2750, 1100, 11000, 2666,
                          6000, 3500, 5250, 7000, 10500, 21000, 11000, 3666,
                          11000, 11000>>),
     calls |-> {},
     writes |-> [t \in 0..20 |->
        CASE t = 3 \/ t = 20 -> {3, 4, 5}
          [] t = 8 \/ t = 15 -> {9, 10}
          [] OTHER -> {v \in 0..19 : NestedStart[v] = t}],
     needed |-> FromZero(<<
        0..2, 1..2, {2}, 3..7 \cup {20}, 3..15 \cup {20}, 3..17 \cup {20}, {4},
        6..15, {7}, 8..10 \cup 15..19, 8..12 \cup {15}, {9}, {11}, 12..14, {13},
        {14}, {16}, 17..19, {18}, {19}>>),
     copies |-> {<<7, 3, 6>>, <<9, 7, 8>>}]

RealFunctions == {Divide, NestedLoop}
=============================================================================
