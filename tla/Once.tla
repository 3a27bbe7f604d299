-------------------------------- MODULE Once --------------------------------
(***************************************************************************)
(* TLC evaluates a LET definition, and an operator's argument, again at    *)
(* every use while it builds a next state.  With evaluates it once, by     *)
(* binding it; its meaning is F(v).                                        *)
(***************************************************************************)
With(v, F(_)) == CHOOSE r \in {F(x) : x \in {v}} : TRUE
=============================================================================
