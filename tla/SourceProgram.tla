--------------------------- MODULE SourceProgram ---------------------------
(***************************************************************************)
(* What a function of the source language does: assignments, uses, and     *)
(* loops of three parts.  The body ends in a condition, which leads to the *)
(* continue part and then back to the body, or to the return part and out. *)
(*                                                                         *)
(* A program is the sequence of steps in which lowering meets it: "set" and*)
(* "use"; "loop" before a body, "continue" between body and continue part, *)
(* "return" between that and the return part, "end" after it; and "exit".  *)
(* A loop step tells how far away its other three steps are, and each of   *)
(* them how far back the loop step is.  The parts of a loop share one      *)
(* scope, but what the continue part declares is only seen there.          *)
(***************************************************************************)
EXTENDS Integers, Sequences, FiniteSetsExt, Functions

CONSTANTS Var, Programs

VARIABLES
    prog,   \* the program
    pos,    \* the step that is next
    env,    \* the value of every variable that is visible there
    seen,   \* what the last use has seen
    flips   \* the steps that have made new values an odd number of times

sourceVars == <<prog, pos, env, seen, flips>>

-----------------------------------------------------------------------------
Loops == {l \in 1..Len(prog.code) : prog.code[l].op = "loop"}

LoopOf(p) == p - prog.code[p].loop

\* The stretches of the program that have variables of their own.
Scopes ==
    {l..(l + prog.code[l].end) : l \in Loops}
    \cup {(l + prog.code[l].cont)..(l + prog.code[l].ret) : l \in Loops}

Visible(p) ==
    Range(prog.params) \cup
    {prog.code[d].var : d \in {d \in 1..(p - 1) :
        prog.code[d].declares /\ \A s \in Scopes : d \in s => p \in s}}
    \cup {v \in Var : prog.kind[v] = "global"}

\* The next step that does something.
Stop(p) == Min({q \in p..Len(prog.code) : prog.code[q].op # "end"})

\* Two executions in a row of the step at p make different values.
NewValue(p) == <<p, p \in flips>>

Flipped(p) == IF p \in flips THEN flips \ {p} ELSE flips \cup {p}

\* The values a function starts with: parameters by their place, globals as 0.
FirstValue(v) ==
    IF prog.kind[v] = "global" THEN <<0, FALSE>>
    ELSE <<-(CHOOSE k \in DOMAIN prog.params : prog.params[k] = v), FALSE>>

SourceInit ==
    /\ prog \in Programs
    /\ pos = Stop(1)
    /\ env = [v \in Visible(pos) |-> FirstValue(v)]
    /\ seen = << >>
    /\ flips = {}

GoTo(p) ==
    /\ pos' = Stop(p)
    /\ env' = [v \in Visible(Stop(p)) |-> env[v]]
    /\ UNCHANGED <<prog, seen, flips>>

Set ==
    LET t == prog.code[pos]
    IN /\ t.op = "set"
       /\ pos' = Stop(pos + 1)
       /\ env' = [v \in Visible(pos') |->
                     IF v # t.var THEN env[v] ELSE IF t.args = << >> THEN NewValue(pos) ELSE env[t.args[1]]]
       /\ flips' = IF t.args = << >> THEN Flipped(pos) ELSE flips
       /\ UNCHANGED <<prog, seen>>

Use ==
    LET t == prog.code[pos]
    IN /\ t.op = "use"
       /\ seen' = [k \in DOMAIN t.args |-> env[t.args[k]]]
       /\ pos' = Stop(pos + 1)
       /\ env' = [v \in Visible(pos') |-> env[v]]
       /\ UNCHANGED <<prog, flips>>

EnterLoop == prog.code[pos].op = "loop" /\ GoTo(pos + 1)

Decide ==
    /\ prog.code[pos].op = "continue"
    /\ \/ GoTo(pos + 1)
       \/ GoTo(LoopOf(pos) + prog.code[LoopOf(pos)].ret + 1)

Repeat == prog.code[pos].op = "return" /\ GoTo(LoopOf(pos) + 1)

SourceNext ==
    \/ Set
    \/ Use
    \/ EnterLoop
    \/ Decide
    \/ Repeat

SourceSpec == SourceInit /\ [][SourceNext]_sourceVars
=============================================================================
