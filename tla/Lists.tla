-------------------------------- MODULE Lists --------------------------------
(***************************************************************************)
(* What vectors and copied strings promise to the rest of the compiler:    *)
(* every one is a sequence of its own, until the arena is reset.           *)
(***************************************************************************)
EXTENDS Integers, Sequences, SequencesExt

CONSTANTS
    Vectors,
    Values,
    Strings,
    None            \* a vector that was not made, or died with its arena

VARIABLES lists, texts

listsVars == <<lists, texts>>

ListsInit ==
    /\ lists = [v \in Vectors |-> None]
    /\ texts = <<>>

Change(v, list) ==
    /\ lists' = [lists EXCEPT ![v] = list]
    /\ UNCHANGED texts

Make(v) == lists[v] = None /\ Change(v, <<>>)
Extend(v, value) == lists[v] # None /\ Change(v, Append(lists[v], value))
Drop(v, k) == lists[v] # None /\ k \in DOMAIN lists[v] /\ Change(v, RemoveAt(lists[v], k))
Pop(v) == lists[v] \notin {None, <<>>} /\ Change(v, Front(lists[v]))
Clear(v) == lists[v] # None /\ Change(v, <<>>)

Copy(text) ==
    /\ texts' = Append(texts, text)
    /\ UNCHANGED lists

Forget == lists' = [v \in Vectors |-> None] /\ texts' = <<>>

ListsNext ==
    \/ \E v \in Vectors :
           \/ Make(v) \/ Pop(v) \/ Clear(v)
           \/ \E value \in Values : Extend(v, value)
           \/ lists[v] # None /\ \E k \in DOMAIN lists[v] : Drop(v, k)
    \/ \E text \in Strings : Copy(text)
    \/ Forget

ListsSpec == ListsInit /\ [][ListsNext]_listsVars
=============================================================================
