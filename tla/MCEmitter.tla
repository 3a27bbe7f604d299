----------------------------- MODULE MCEmitter -----------------------------
(***************************************************************************)
(* Every instruction with every combination of places: the registers that  *)
(* have a role of their own, one that has none, one to preserve, and two   *)
(* slots.  Two registers carry arguments, so that a call with four has two *)
(* on the stack.                                                           *)
(***************************************************************************)
EXTENDS Emitter

MCArgRegs == <<"rdi", "rcx">>
MCScratch == <<"r10", "r11">>

\* None, one, two or three registers to save, rax (which is masked) among them.
MCSaved == {{}, {"r8"}, {"rdi", "r8"}, {"rax", "rcx", "rdi", "r8"}}

MCArguments ==
    {<<>>, <<"r8">>, <<"rcx", "rdi">>, <<"s1", "i", "r8">>,
     <<"I", "rdi", "s1", "s2">>, <<"rcx", "s2", "rdi", "I">>}

\* No slot parameter is the argument of another parameter.
MCBlockMoves ==
    {<<>>, <<<<"r8", "i">>>>, <<<<"s1", "s2">>>>, <<<<"r8", "rcx">>, <<"rcx", "r8">>>>,
     <<<<"r8", "rcx">>, <<"rcx", "r8">>, <<"rdi", "rdx">>, <<"rdx", "rdi">>>>,
     <<<<"s1", "r8">>, <<"r8", "s2">>>>, <<<<"r8", "rdi">>, <<"s2", "r8">>, <<"s1", "I">>>>}

\* Unless literals without a type are asked for, the run is one of those that
\* ResultsArrive (EmitterProofs) speaks of.
ASSUME PlainAssumption == Untyped = {} => Plain

=============================================================================
