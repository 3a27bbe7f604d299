----------------------------- MODULE MCRegAlloc -----------------------------
(* Straight-line functions.  The parameters come first and live from the   *)
(* start; every other vreg is written by one instruction and lives at      *)
(* least that long; a move reads a vreg that is still alive.               *)
EXTENDS RegAlloc, TLC

CONSTANTS N, LastTime, MaxParams

\* rax, an argument register, one the callee keeps, one the compiler reserves.
rax == 0
rdi == 1
rbx == 2
r10 == 3

MCOrderSmall == <<r10, rdi, rax>>
MCArgReg == <<rdi>>
MCReserved == {r10}
MCCallerSaved == {rax, rdi, r10}

V == 0..(N - 1)

\* The time at which vreg v is written when the first p vregs are parameters.
WrittenAt(p, v) == IF v < p THEN 0 ELSE v - p

\* The number of parameters, and the ends of the intervals.  A parameter that is
\* never read has no end.
Intervals ==
    {x \in [p : 0..MaxParams, e : [V -> -1..LastTime]] :
        \A v \in V : x.e[v] >= WrittenAt(x.p, v) \/ (v < x.p /\ x.e[v] = -1)}

\* At most one source for each vreg.
Sources == {m \in [V -> {-1} \cup V] : \A v \in V : m[v] < v}

\* A division or a call, or neither.
Calls == {{}, {LastTime - 1}}

\* Only what an instruction writes has a source, one that is alive.
Choices ==
    {<<x, m, calls>> \in Intervals \X Sources \X Calls :
        \A v \in V : m[v] # -1 => v >= x.p /\ x.e[m[v]] >= WrittenAt(x.p, v)}

RECURSIVE MovesFrom(_, _)
MovesFrom(m, v) ==
    IF v > N - 1 THEN << >>
    ELSE (IF m[v] = -1 THEN << >> ELSE <<<<v, m[v]>>>>) \o MovesFrom(m, v + 1)

\* The last vreg would like rax.
StraightLine ==
    {[n |-> N,
      start |-> [v \in V |-> WrittenAt(c[1].p, v)],
      end |-> c[1].e,
      params |-> [k \in 1..c[1].p |-> k - 1],
      moves |-> MovesFrom(c[2], 0),
      clobber |-> {<<rax, t>> : t \in c[3]},
      prefs |-> [v \in V |-> IF v = N - 1 THEN {rax} ELSE {}],
      weight |-> [v \in V |-> v % 2],
      calls |-> c[3]] : c \in Choices}
=============================================================================
