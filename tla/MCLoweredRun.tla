---------------------------- MODULE MCLoweredRun ----------------------------
(* Functions with a parameter x, a variable y, a global g, and a local l   *)
(* of the outer loop's body; x and l are in memory or not.  Every loop may *)
(* change the variables in each of its parts, and may hold another.  What  *)
(* the body declares is not assigned in its continue part, and nothing is  *)
(* assigned to a loop's variable where IRL_find_mutations does not look.   *)
EXTENDS LoweredRun

T(op) == [op |-> op, var |-> None, args |-> << >>, declares |-> FALSE, hidden |-> FALSE,
          loop |-> 0, cont |-> 0, ret |-> 0, end |-> 0]

Put(v, args) == [T("set") EXCEPT !.var = v, !.args = args]

Declare(v, args) == [Put(v, args) EXCEPT !.declares = TRUE]

Seen(vs) == [T("use") EXCEPT !.args = vs]

Loop(body, cont, ret) ==
    LET c == Len(body) + 1
        r == c + Len(cont) + 1
        e == r + Len(ret) + 1
    IN <<[T("loop") EXCEPT !.cont = c, !.ret = r, !.end = e]>> \o body \o
       <<[T("continue") EXCEPT !.loop = c]>> \o cont \o
       <<[T("return") EXCEPT !.loop = r]>> \o ret \o
       <<[T("end") EXCEPT !.loop = e]>>

MCVar == {"x", "y", "l", "g"}

Sets == {<< >>, <<Put("x", << >>)>>, <<Put("y", <<"x">>)>>, <<Put("x", <<"y">>)>>}

InnerLoops(sets) == {Loop(a, b, c) : a \in sets, b \in sets, c \in sets}

Few == {<< >>, <<Put("x", << >>)>>}

\* The local of the body is changed in the body, where the search for changes sees
\* it or not, by a loop in it, or not at all.
Locals ==
    {<< >>, <<Put("l", << >>)>>, <<[Put("l", << >>) EXCEPT !.hidden = TRUE]>>}
    \cup {Loop(<< >>, <<Put("l", <<"x">>)>>, << >>)}

Bodies ==
    {Loop(a, b, c) : a \in Sets, b \in Sets, c \in Sets}
    \cup {Loop(a \o i, b, c) : a \in Few, b \in Few, c \in Few, i \in InnerLoops(Sets)}
    \cup {Loop(a, i \o b, c) : a \in Few, b \in Few, c \in Few, i \in InnerLoops(Sets)}
    \cup {Loop(a, b, i \o c) : a \in Few, b \in Few, c \in Few, i \in InnerLoops(Sets)}
    \cup {Loop(<<Declare("l", <<"x">>)>> \o a \o i, b, c \o <<Put("x", <<"l">>)>>) :
              a \in Few, b \in Few, c \in Few, i \in Locals}
    \cup {Loop(<<Put("g", <<"x">>)>>, << >>, << >>)}

Functions ==
    {[params |-> <<"x">>, kind |-> k,
      code |-> <<Declare("y", <<"x">>)>> \o b \o
                   <<Put("g", <<"y">>), Seen(<<"x", "g", "y">>), T("exit")>>] :
        b \in Bodies,
        k \in {[v \in MCVar |-> IF v = "g" THEN "global" ELSE IF v \in m THEN "stack" ELSE "vreg"] :
                   m \in {{}, {"x", "l"}}}}

\* loop { var l = ..; .. } return { l; } continue { l = ..; }
ExitOnly ==
    {[params |-> <<"x">>, kind |-> [v \in MCVar |-> "vreg"],
      code |-> Loop(<<Declare("l", <<"x">>)>>, <<Put("l", << >>)>>, <<Seen(<<"l">>)>>) \o <<T("exit")>>]}
=============================================================================
