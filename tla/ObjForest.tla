------------------------------ MODULE ObjForest ------------------------------
(***************************************************************************)
(* What the object tree promises a story: each object has a list of        *)
(* children, remove_obj takes an object off the list it is on, and         *)
(* insert_obj puts it first on another.                                    *)
(***************************************************************************)
EXTENDS Integers, SequencesExt

CONSTANT Obj

VARIABLE children

Detached(o) == [p \in Obj |-> RemoveFirst(children[p], o)]

RemoveObj(o) == children' = Detached(o)

InsertObj(o, d) == children' = [Detached(o) EXCEPT ![d] = <<o>> \o @]

Init == children = [p \in Obj |-> <<>>]

Next == \E o \in Obj : RemoveObj(o) \/ \E d \in Obj : InsertObj(o, d)

Spec == Init /\ [][Next]_children
=============================================================================
