------------------------------ MODULE ObjTree ------------------------------
(***************************************************************************)
(* The object tree of a story: host/objects.c and lib/zobj.asm, which      *)
(* mirrors it.  Every object has three links, and the children of an       *)
(* object are a list through their sibling links.  The two versions differ *)
(* in what they check (Checked): the reference refuses object 0 and stops  *)
(* when an object cannot be unlinked; the port takes the object numbers on *)
(* trust and inserts an object that it has failed to unlink.  The story    *)
(* does not run during an operation; the search for the object before the  *)
(* one to unlink is one step for each object it passes.                    *)
(***************************************************************************)
EXTENDS Integers, SequencesExt, FiniteSets

CONSTANTS
  Obj,       \* object numbers, 255 of them at most in the code
  Operands,  \* object numbers that a story passes
  Checked    \* TRUE for host/objects.c, FALSE for lib/zobj.asm

ASSUME ObjAssumption == Obj \subseteq Nat \ {0} /\ IsFiniteSet(Obj)
ASSUME OperandsAssumption == Operands \subseteq Obj \cup {0}
ASSUME CheckedAssumption == Checked \in BOOLEAN
ASSUME TrustAssumption == ~ Checked => 0 \notin Operands

VARIABLES
  links,   \* the parent, sibling and child bytes of each object's entry
  op,      \* the operation under way: remove the object, or insert it
  cursor,  \* where the search is
  pc       \* "idle", "search", or "error": the interpreter has stopped

vars == <<links, op, cursor, pc>>

Link == Obj \cup {0}
Operation == [kind : {"remove", "insert"}, object : Obj, destination : Link]
NoOperation == [kind |-> "none", object |-> 0, destination |-> 0]

-----------------------------------------------------------------------------
(* The writes.                                                             *)

(* Definitions named .._mutant are slips that the code does not have; no    *)
(* specification uses them.                                                *)

Relink_mutant(l, o) == [l EXCEPT !.parent[o] = 0]

\* The object, unlinked, keeps neither parent nor sibling.
Relink(l, o) == [l EXCEPT !.parent[o] = 0, !.sibling[o] = 0]

UnlinkFirst_mutant(l, o) == Relink(l, o)

UnlinkFirst(l, o) == Relink([l EXCEPT !.child[l.parent[o]] = l.sibling[o]], o)

UnlinkAfter_mutant(l, previous, o) == Relink([l EXCEPT !.sibling[previous] = 0], o)

UnlinkAfter(l, previous, o) == Relink([l EXCEPT !.sibling[previous] = l.sibling[o]], o)

Attach_mutant(l, o, d) ==
  [l EXCEPT !.child[d] = o, !.parent[o] = d]

\* The object becomes the destination's first child.
Attach(l, o, d) ==
  [l EXCEPT !.sibling[o] = l.child[d], !.child[d] = o, !.parent[o] = d]

\* What is left to do once the object is unlinked.
Complete(l, x) ==
  /\ links' = IF x.kind = "insert" THEN Attach(l, x.object, x.destination) ELSE l
  /\ op' = NoOperation /\ cursor' = 0 /\ pc' = "idle"

Stop == pc' = "error" /\ op' = NoOperation /\ cursor' = 0 /\ UNCHANGED links

-----------------------------------------------------------------------------
(* The operations.                                                         *)

Begin(x) ==
  /\ pc = "idle"
  /\ IF x.object = 0 \/ (x.kind = "insert" /\ x.destination = 0) THEN Stop
     ELSE LET o == x.object
              parent == links.parent[o]
          IN IF parent = 0 THEN Complete(links, x)
             ELSE IF links.child[parent] = o THEN Complete(UnlinkFirst(links, o), x)
             ELSE /\ op' = x /\ cursor' = links.child[parent] /\ pc' = "search"
                  /\ UNCHANGED links

RemoveObj(o) == Begin([kind |-> "remove", object |-> o, destination |-> 0])

InsertObj(o, d) == Begin([kind |-> "insert", object |-> o, destination |-> d])

\* Either the next object is the one to unlink, or the search moves on to it;
\* at its end the parent's list has turned out not to hold the object.
Search ==
  /\ pc = "search"
  /\ IF cursor = 0
     THEN IF ~ Checked /\ op.kind = "insert" THEN Complete(links, op) ELSE Stop
     ELSE IF links.sibling[cursor] = op.object
     THEN Complete(UnlinkAfter(links, cursor, op.object), op)
     ELSE cursor' = links.sibling[cursor] /\ UNCHANGED <<links, op, pc>>

\* A story's objects are laid out by its compiler; insertions can bring about
\* any arrangement from this one.
Init ==
  /\ links = [ parent |-> [o \in Obj |-> 0], sibling |-> [o \in Obj |-> 0],
               child |-> [o \in Obj |-> 0] ]
  /\ op = NoOperation /\ cursor = 0 /\ pc = "idle"

Next ==
  \/ \E o \in Operands : RemoveObj(o)
  \/ \E o, d \in Operands : InsertObj(o, d)
  \/ Search

\* An operation under way runs on: the interpreter does nothing else.
Spec == Init /\ [][Next]_vars /\ WF_vars(Search)

-----------------------------------------------------------------------------
TypeOK ==
  /\ links \in [parent : [Obj -> Link], sibling : [Obj -> Link], child : [Obj -> Link]]
  /\ op \in Operation \cup {NoOperation}
  /\ cursor \in Link
  /\ pc \in {"idle", "search", "error"}

\* The links fit together, whatever a story inserts where, an object into its
\* own descendant or into itself included: a child and a sibling have the
\* parent that the link says, and no object can be reached through two links,
\* so that no two lists meet and none comes back to its start.
ParentsAgree ==
  /\ \A p \in Obj : links.child[p] # 0 => links.parent[links.child[p]] = p
  /\ \A o \in Obj : links.sibling[o] # 0 =>
       links.parent[o] # 0 /\ links.parent[links.sibling[o]] = links.parent[o]

OnePredecessor ==
  /\ \A a, b \in Obj : links.sibling[a] = links.sibling[b] /\ links.sibling[a] # 0 => a = b
  /\ \A a, p \in Obj : links.sibling[a] # 0 => links.sibling[a] # links.child[p]

LinksConsistent == ParentsAgree /\ OnePredecessor

\* Every object that has a parent is found in its parent's list, so that the
\* failure which the port ignores never happens.
NeverLost == pc = "search" => cursor # 0

\* Every search ends: no list of siblings has a cycle.
SearchEnds == pc = "search" ~> pc # "search"

\* The first n objects of the list that starts with o.
ListFrom[n \in 0 .. Cardinality(Obj)] ==
  [o \in Link |->
     IF n = 0 \/ o = 0 THEN <<>> ELSE <<o>> \o ListFrom[n - 1][links.sibling[o]]]

Children == [p \in Obj |-> ListFrom[Cardinality(Obj)][links.child[p]]]

Forest == INSTANCE ObjForest WITH children <- Children

\* The lists of children are what insert_obj and remove_obj promise.
KeepsLists == Forest!Spec
=============================================================================
