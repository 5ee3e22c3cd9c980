--------------------------- MODULE ObjTree_proofs ---------------------------
(***************************************************************************)
(* The links stay consistent and no object is lost from its parent's list, *)
(* for any number of objects, in the reference and in the port.  The       *)
(* argument: every object has a position in its parent's list.  The links  *)
(* lead from each position to the next, no position is taken twice and     *)
(* none is left out, so that a search is always before the object it looks *)
(* for.  The lists that the links stand for change as ObjForest says: the  *)
(* chains of links are followed through unlinking and attaching, and a     *)
(* walk along a chain, which induction over its steps describes, reads it. *)
(***************************************************************************)
EXTENDS ObjTree, SequenceTheorems, FiniteSetTheorems, TLAPS

LinksOK(l) ==
  l \in [parent : [Obj -> Link], sibling : [Obj -> Link], child : [Obj -> Link]]

FirstIsChild(l, pos) ==
  \A p \in Obj : l.child[p] # 0 => l.parent[l.child[p]] = p /\ pos[l.child[p]] = 0

SiblingIsNext(l, pos) ==
  \A a \in Obj : l.sibling[a] # 0 =>
    /\ l.parent[a] # 0 /\ l.parent[l.sibling[a]] = l.parent[a]
    /\ pos[l.sibling[a]] = pos[a] + 1

NoneShared(l, pos) ==
  \A a, b \in Obj :
    l.parent[a] # 0 /\ l.parent[a] = l.parent[b] /\ pos[a] = pos[b] => a = b

ChildIsFirst(l, pos) ==
  \A o \in Obj : l.parent[o] # 0 /\ pos[o] = 0 => l.child[l.parent[o]] = o

HasPrevious(l, pos) ==
  \A o \in Obj : l.parent[o] # 0 /\ pos[o] # 0 => \E a \in Obj : l.sibling[a] = o

NoneLeftOut(l, pos) ==
  \A o \in Obj, k \in Nat :
    l.parent[o] # 0 /\ k < pos[o] => \E a \in Obj : l.parent[a] = l.parent[o] /\ pos[a] = k

Ordered(l, pos) ==
  /\ LinksOK(l) /\ pos \in [Obj -> Nat]
  /\ FirstIsChild(l, pos) /\ SiblingIsNext(l, pos) /\ NoneShared(l, pos)
  /\ ChildIsFirst(l, pos) /\ HasPrevious(l, pos) /\ NoneLeftOut(l, pos)

\* A search is at a sibling before the object.
SearchIsBefore(pos) ==
  pc = "search" =>
    /\ op \in Operation /\ cursor \in Obj
    /\ op.kind = "insert" => op.destination \in Obj
    /\ links.parent[op.object] # 0
    /\ links.parent[cursor] = links.parent[op.object]
    /\ pos[cursor] < pos[op.object]

IInv == TypeOK /\ \E pos \in [Obj -> Nat] : Ordered(links, pos) /\ SearchIsBefore(pos)

-----------------------------------------------------------------------------
LEMMA OrderedIsConsistent ==
  ASSUME NEW pos, Ordered(links, pos) PROVE LinksConsistent
<1> USE DEF Ordered, LinksOK, Link
<1>1. ParentsAgree
  BY DEF ParentsAgree, FirstIsChild, SiblingIsNext
<1>2. ASSUME NEW a \in Obj, NEW b \in Obj, links.sibling[a] = links.sibling[b],
             links.sibling[a] # 0
      PROVE  a = b
  <2>1. /\ links.parent[a] # 0 /\ links.parent[b] = links.parent[a]
        /\ pos[a] + 1 = pos[b] + 1
    BY <1>2 DEF SiblingIsNext
  <2> QED
    BY <2>1 DEF NoneShared
<1>3. ASSUME NEW a \in Obj, NEW p \in Obj, links.sibling[a] # 0
      PROVE  links.sibling[a] # links.child[p]
  BY <1>3 DEF SiblingIsNext, FirstIsChild
<1> QED
  BY <1>1, <1>2, <1>3 DEF LinksConsistent, OnePredecessor

\* n are the links l without o: what led to o leads to its sibling.
Without(l, o, n) ==
  \A x \in Obj :
    /\ n.parent[x] = IF x = o THEN 0 ELSE l.parent[x]
    /\ n.sibling[x] = IF x = o THEN 0
                      ELSE IF l.sibling[x] = o THEN l.sibling[o] ELSE l.sibling[x]
    /\ n.child[x] = IF l.child[x] = o THEN l.sibling[o] ELSE l.child[x]

\* Those behind the object move up by one.
LEMMA UnlinkOrdered ==
  ASSUME NEW l, NEW pos, Ordered(l, pos), NEW o \in Obj, l.parent[o] # 0,
         NEW n, LinksOK(n), Without(l, o, n)
  PROVE  \E new \in [Obj -> Nat] : Ordered(n, new)
<1> USE DEF Without
<1> DEFINE After(x) == l.parent[x] = l.parent[o] /\ pos[x] > pos[o]
           new == [x \in Obj |-> IF After(x) THEN pos[x] - 1 ELSE pos[x]]
<1>0. /\ pos \in [Obj -> Nat] /\ 0 \notin Obj /\ LinksOK(l)
      /\ l.parent \in [Obj -> Link] /\ l.sibling \in [Obj -> Link] /\ l.child \in [Obj -> Link]
  BY ObjAssumption DEF Ordered, LinksOK
<1>1. new \in [Obj -> Nat]
  BY <1>0
<1>2. \A x \in Obj : new[x] = IF After(x) THEN pos[x] - 1 ELSE pos[x]
  OBVIOUS
<1> HIDE DEF new
<1>3. FirstIsChild(n, new)
  <2> SUFFICES ASSUME NEW p \in Obj, n.child[p] # 0
               PROVE  n.parent[n.child[p]] = p /\ new[n.child[p]] = 0
    BY DEF FirstIsChild
  <2>1. CASE l.child[p] = o
    <3>1. n.child[p] = l.sibling[o] /\ l.sibling[o] \in Obj
      BY <2>1, <1>0 DEF Link
    <3>2. l.parent[o] = p /\ pos[o] = 0 /\ l.parent[l.sibling[o]] = p /\ pos[l.sibling[o]] = 1
      BY <2>1, <3>1, <1>0 DEF Ordered, FirstIsChild, SiblingIsNext
    <3> QED
      BY <3>1, <3>2, <1>2
  <2>2. CASE l.child[p] # o
    <3>1. n.child[p] = l.child[p] /\ l.child[p] \in Obj
      BY <2>2, <1>0 DEF Link
    <3>2. l.parent[l.child[p]] = p /\ pos[l.child[p]] = 0
      BY <3>1, <1>0 DEF Ordered, FirstIsChild
    <3> QED
      BY <3>1, <3>2, <2>2, <1>0, <1>2
  <2> QED
    BY <2>1, <2>2
<1>4. SiblingIsNext(n, new)
  <2> SUFFICES ASSUME NEW a \in Obj, n.sibling[a] # 0
               PROVE  /\ n.parent[a] # 0 /\ n.parent[n.sibling[a]] = n.parent[a]
                      /\ new[n.sibling[a]] = new[a] + 1
    BY DEF SiblingIsNext
  <2>1. a # o
    OBVIOUS
  <2>2. CASE l.sibling[a] = o
    <3>1. n.sibling[a] = l.sibling[o] /\ l.sibling[o] \in Obj
      BY <2>1, <2>2, <1>0 DEF Link
    <3>2. /\ l.parent[a] # 0 /\ l.parent[o] = l.parent[a] /\ pos[o] = pos[a] + 1
          /\ l.parent[l.sibling[o]] = l.parent[o] /\ pos[l.sibling[o]] = pos[o] + 1
      BY <2>2, <3>1, <1>0 DEF Ordered, SiblingIsNext
    <3> QED
      BY <3>1, <3>2, <2>1, <1>0, <1>2
  <2>3. CASE l.sibling[a] # o
    <3>1. n.sibling[a] = l.sibling[a] /\ l.sibling[a] \in Obj
      BY <2>1, <2>3, <1>0 DEF Link
    <3>2. /\ l.parent[a] # 0 /\ l.parent[l.sibling[a]] = l.parent[a]
          /\ pos[l.sibling[a]] = pos[a] + 1
      BY <3>1, <1>0 DEF Ordered, SiblingIsNext
    <3>3. l.parent[a] = l.parent[o] => pos[a] # pos[o] /\ pos[l.sibling[a]] # pos[o]
      BY <2>1, <2>3, <3>1, <3>2, <1>0 DEF Ordered, NoneShared
    <3> QED
      BY <3>1, <3>2, <3>3, <2>1, <2>3, <1>0, <1>2
  <2> QED
    BY <2>2, <2>3
<1>5. NoneShared(n, new)
  <2> SUFFICES ASSUME NEW a \in Obj, NEW b \in Obj, n.parent[a] # 0,
                      n.parent[a] = n.parent[b], new[a] = new[b]
               PROVE  a = b
    BY DEF NoneShared
  <2>1. a # o /\ b # o /\ l.parent[a] # 0 /\ l.parent[a] = l.parent[b]
    OBVIOUS
  <2>2. l.parent[a] = l.parent[o] => pos[a] # pos[o] /\ pos[b] # pos[o]
    BY <2>1 DEF Ordered, NoneShared
  <2>3. pos[a] = pos[b]
    BY <2>1, <2>2, <1>0, <1>2
  <2> QED
    BY <2>1, <2>3 DEF Ordered, NoneShared
<1>6. ChildIsFirst(n, new)
  <2> SUFFICES ASSUME NEW x \in Obj, n.parent[x] # 0, new[x] = 0
               PROVE  n.child[n.parent[x]] = x
    BY DEF ChildIsFirst
  <2>1. x # o /\ n.parent[x] = l.parent[x] /\ l.parent[x] \in Obj
    BY <1>0 DEF Link
  <2>2. CASE After(x)
    <3>1. pos[x] = 1 /\ pos[o] = 0
      BY <2>2, <1>0, <1>2
    <3>2. l.child[l.parent[x]] = o
      BY <2>2, <2>1, <3>1 DEF Ordered, ChildIsFirst
    <3>3. PICK a \in Obj : l.sibling[a] = x
      BY <2>1, <3>1 DEF Ordered, HasPrevious
    <3>4. l.parent[a] = l.parent[o] /\ pos[a] = 0 /\ l.parent[a] # 0
      BY <2>2, <3>1, <3>3, <1>0 DEF Ordered, SiblingIsNext
    <3>5. a = o
      BY <3>1, <3>4 DEF Ordered, NoneShared
    <3> QED
      BY <2>1, <3>2, <3>3, <3>5
  <2>3. CASE ~ After(x)
    <3>1. l.child[l.parent[x]] = x
      BY <2>1, <2>3, <1>2 DEF Ordered, ChildIsFirst
    <3> QED
      BY <2>1, <3>1
  <2> QED
    BY <2>2, <2>3
<1>7. HasPrevious(n, new)
  <2> SUFFICES ASSUME NEW x \in Obj, n.parent[x] # 0, new[x] # 0
               PROVE  \E a \in Obj : n.sibling[a] = x
    BY DEF HasPrevious
  <2>1. x # o /\ l.parent[x] # 0 /\ pos[x] # 0
    BY <1>0, <1>2
  <2>2. PICK a \in Obj : l.sibling[a] = x
    BY <2>1 DEF Ordered, HasPrevious
  <2>3. CASE a # o
    BY <2>1, <2>2, <2>3
  <2>4. CASE a = o
    <3>1. l.parent[x] = l.parent[o] /\ pos[x] = pos[o] + 1
      BY <2>1, <2>2, <2>4, <1>0 DEF Ordered, SiblingIsNext
    <3>2. pos[o] # 0
      BY <3>1, <1>0, <1>2
    <3>3. PICK b \in Obj : l.sibling[b] = o
      BY <3>2 DEF Ordered, HasPrevious
    <3>4. b # o
      BY <3>3, <2>1, <2>2, <2>4
    <3> QED
      BY <2>2, <2>4, <3>3, <3>4
  <2> QED
    BY <2>3, <2>4
<1>8. NoneLeftOut(n, new)
  <2> SUFFICES ASSUME NEW x \in Obj, NEW k \in Nat, n.parent[x] # 0, k < new[x]
               PROVE  \E a \in Obj : n.parent[a] = n.parent[x] /\ new[a] = k
    BY DEF NoneLeftOut
  <2>1. x # o /\ n.parent[x] = l.parent[x] /\ l.parent[x] # 0
    OBVIOUS
  <2> DEFINE old == IF l.parent[x] = l.parent[o] /\ k >= pos[o] THEN k + 1 ELSE k
  <2>2. old \in Nat /\ old < pos[x]
    <3>1. l.parent[x] = l.parent[o] => pos[x] # pos[o]
      BY <2>1 DEF Ordered, NoneShared
    <3> QED
      BY <3>1, <1>0, <1>2
  <2>3. PICK a \in Obj : l.parent[a] = l.parent[x] /\ pos[a] = old
    BY <2>1, <2>2 DEF Ordered, NoneLeftOut
  <2>4. a # o
    BY <2>3, <1>0
  <2>5. n.parent[a] = n.parent[x] /\ new[a] = k
    BY <2>1, <2>3, <2>4, <1>0, <1>2
  <2> QED
    BY <2>5
<1> QED
  BY <1>1, <1>3, <1>4, <1>5, <1>6, <1>7, <1>8 DEF Ordered

\* An object that has no parent can be put first on any list.
LEMMA AttachOrdered ==
  ASSUME NEW l, NEW pos, Ordered(l, pos), NEW o \in Obj, l.parent[o] = 0, NEW d \in Obj
  PROVE  \E new \in [Obj -> Nat] : Ordered(Attach(l, o, d), new)
<1> DEFINE n == Attach(l, o, d)
           new == [x \in Obj |-> IF x = o THEN 0
                                 ELSE IF l.parent[x] = d THEN pos[x] + 1 ELSE pos[x]]
<1>0. /\ pos \in [Obj -> Nat] /\ 0 \notin Obj /\ LinksOK(l)
      /\ l.parent \in [Obj -> Link] /\ l.sibling \in [Obj -> Link] /\ l.child \in [Obj -> Link]
  BY ObjAssumption DEF Ordered, LinksOK
<1>1. new \in [Obj -> Nat]
  BY <1>0
<1>2. \A x \in Obj : new[x] = IF x = o THEN 0
                              ELSE IF l.parent[x] = d THEN pos[x] + 1 ELSE pos[x]
  OBVIOUS
<1>3. /\ LinksOK(n)
      /\ n.parent = [l.parent EXCEPT ![o] = d]
      /\ n.sibling = [l.sibling EXCEPT ![o] = l.child[d]]
      /\ n.child = [l.child EXCEPT ![d] = o]
  BY <1>0 DEF Attach, LinksOK, Link
<1>4. /\ \A x \in Obj : n.parent[x] = IF x = o THEN d ELSE l.parent[x]
      /\ \A x \in Obj : n.sibling[x] = IF x = o THEN l.child[d] ELSE l.sibling[x]
      /\ \A x \in Obj : n.child[x] = IF x = d THEN o ELSE l.child[x]
  BY <1>0, <1>3
<1> HIDE DEF new, n
\* Nothing leads to the object.
<1>5. /\ \A p \in Obj : l.child[p] # o
      /\ \A a \in Obj : l.sibling[a] # o
      /\ d # 0
  BY <1>0 DEF Ordered, FirstIsChild, SiblingIsNext
<1>6. FirstIsChild(n, new)
  <2> SUFFICES ASSUME NEW p \in Obj, n.child[p] # 0
               PROVE  n.parent[n.child[p]] = p /\ new[n.child[p]] = 0
    BY DEF FirstIsChild
  <2>1. CASE p = d
    BY <2>1, <1>2, <1>4
  <2>2. CASE p # d
    <3>1. n.child[p] = l.child[p] /\ l.child[p] \in Obj
      BY <2>2, <1>0, <1>4 DEF Link
    <3>2. l.parent[l.child[p]] = p /\ pos[l.child[p]] = 0
      BY <3>1, <1>0 DEF Ordered, FirstIsChild
    <3> QED
      BY <3>1, <3>2, <2>2, <1>2, <1>4, <1>5
  <2> QED
    BY <2>1, <2>2
<1>7. SiblingIsNext(n, new)
  <2> SUFFICES ASSUME NEW a \in Obj, n.sibling[a] # 0
               PROVE  /\ n.parent[a] # 0 /\ n.parent[n.sibling[a]] = n.parent[a]
                      /\ new[n.sibling[a]] = new[a] + 1
    BY DEF SiblingIsNext
  <2>1. CASE a = o
    <3>1. n.sibling[a] = l.child[d] /\ l.child[d] \in Obj
      BY <2>1, <1>0, <1>4 DEF Link
    <3>2. l.parent[l.child[d]] = d /\ pos[l.child[d]] = 0
      BY <3>1, <1>0 DEF Ordered, FirstIsChild
    <3> QED
      BY <3>1, <3>2, <2>1, <1>2, <1>4, <1>5
  <2>2. CASE a # o
    <3>1. n.sibling[a] = l.sibling[a] /\ l.sibling[a] \in Obj
      BY <2>2, <1>0, <1>4 DEF Link
    <3>2. /\ l.parent[a] # 0 /\ l.parent[l.sibling[a]] = l.parent[a]
          /\ pos[l.sibling[a]] = pos[a] + 1
      BY <3>1, <1>0 DEF Ordered, SiblingIsNext
    <3> QED
      BY <3>1, <3>2, <2>2, <1>0, <1>2, <1>4, <1>5
  <2> QED
    BY <2>1, <2>2
<1>8. NoneShared(n, new)
  <2> SUFFICES ASSUME NEW a \in Obj, NEW b \in Obj, n.parent[a] # 0,
                      n.parent[a] = n.parent[b], new[a] = new[b]
               PROVE  a = b
    BY DEF NoneShared
  <2>1. CASE a # o /\ b # o
    <3>1. l.parent[a] # 0 /\ l.parent[a] = l.parent[b] /\ pos[a] = pos[b]
      BY <2>1, <1>0, <1>2, <1>4
    <3> QED
      BY <3>1 DEF Ordered, NoneShared
  <2>2. CASE a = o \/ b = o
    BY <2>2, <1>0, <1>2, <1>4
  <2> QED
    BY <2>1, <2>2
<1>9. ChildIsFirst(n, new)
  BY <1>0, <1>2, <1>4 DEF Ordered, ChildIsFirst, Link
<1>10. HasPrevious(n, new)
  <2> SUFFICES ASSUME NEW x \in Obj, n.parent[x] # 0, new[x] # 0
               PROVE  \E a \in Obj : n.sibling[a] = x
    BY DEF HasPrevious
  <2>1. x # o /\ n.parent[x] = l.parent[x]
    BY <1>2, <1>4
  <2>2. CASE pos[x] = 0
    <3>1. l.parent[x] = d
      BY <2>1, <2>2, <1>2
    <3>2. l.child[d] = x
      BY <2>2, <3>1, <1>5 DEF Ordered, ChildIsFirst
    <3> QED
      BY <3>2, <1>4
  <2>3. CASE pos[x] # 0
    <3>1. PICK a \in Obj : l.sibling[a] = x
      BY <2>1, <2>3 DEF Ordered, HasPrevious
    <3>2. a # o
      BY <3>1, <1>0 DEF Ordered, SiblingIsNext
    <3> QED
      BY <3>1, <3>2, <1>4
  <2> QED
    BY <2>2, <2>3
<1>11. NoneLeftOut(n, new)
  <2> SUFFICES ASSUME NEW x \in Obj, NEW k \in Nat, n.parent[x] # 0, k < new[x]
               PROVE  \E a \in Obj : n.parent[a] = n.parent[x] /\ new[a] = k
    BY DEF NoneLeftOut
  <2>1. x # o /\ n.parent[x] = l.parent[x] /\ l.parent[x] # 0
    BY <1>2, <1>4
  <2>2. CASE l.parent[x] = d /\ k = 0
    BY <2>1, <2>2, <1>2, <1>4
  <2>3. CASE ~ (l.parent[x] = d /\ k = 0)
    <3> DEFINE old == IF l.parent[x] = d THEN k - 1 ELSE k
    <3>1. old \in Nat /\ old < pos[x]
      BY <2>1, <2>3, <1>0, <1>2
    <3>2. PICK a \in Obj : l.parent[a] = l.parent[x] /\ pos[a] = old
      BY <2>1, <3>1 DEF Ordered, NoneLeftOut
    <3>3. a # o
      BY <2>1, <3>2
    <3>4. n.parent[a] = n.parent[x] /\ new[a] = k
      BY <2>1, <3>2, <3>3, <1>0, <1>2, <1>4
    <3> QED
      BY <3>4
  <2> QED
    BY <2>2, <2>3
<1> QED
  BY <1>1, <1>3, <1>6, <1>7, <1>8, <1>9, <1>10, <1>11 DEF Ordered, n

-----------------------------------------------------------------------------
\* The first child is unlinked through its parent's link alone: no sibling
\* link leads to it, and no other child link.
LEMMA UnlinkFirstOrdered ==
  ASSUME NEW l, NEW pos, Ordered(l, pos), NEW o \in Obj, l.parent[o] # 0,
         l.child[l.parent[o]] = o
  PROVE  /\ \E new \in [Obj -> Nat] : Ordered(UnlinkFirst(l, o), new)
         /\ UnlinkFirst(l, o).parent[o] = 0
         /\ LinksOK(UnlinkFirst(l, o)) /\ Without(l, o, UnlinkFirst(l, o))
<1> DEFINE p == l.parent[o]
           n == UnlinkFirst(l, o)
<1>0. /\ pos \in [Obj -> Nat] /\ 0 \notin Obj /\ LinksOK(l) /\ p \in Obj
      /\ l.parent \in [Obj -> Link] /\ l.sibling \in [Obj -> Link] /\ l.child \in [Obj -> Link]
  BY ObjAssumption DEF Ordered, LinksOK, Link
<1>1. /\ LinksOK(n)
      /\ n.parent = [l.parent EXCEPT ![o] = 0]
      /\ n.sibling = [l.sibling EXCEPT ![o] = 0]
      /\ n.child = [l.child EXCEPT ![p] = l.sibling[o]]
  BY <1>0 DEF UnlinkFirst, Relink, LinksOK, Link
<1>2. pos[o] = 0
  BY <1>0 DEF Ordered, FirstIsChild
<1>3. \A a \in Obj : l.sibling[a] # o
  BY <1>0, <1>2 DEF Ordered, SiblingIsNext
<1>4. \A x \in Obj : l.child[x] = o => x = p
  BY <1>0 DEF Ordered, FirstIsChild
<1> HIDE DEF n
<1>5. Without(l, o, n) /\ n.parent[o] = 0
  BY <1>0, <1>1, <1>3, <1>4 DEF Without
<1>6. \E new \in [Obj -> Nat] : Ordered(n, new)
  BY <1>1, <1>5, UnlinkOrdered
<1> QED
  BY <1>1, <1>5, <1>6 DEF n

\* Any other is unlinked through the sibling link that leads to it.
LEMMA UnlinkAfterOrdered ==
  ASSUME NEW l, NEW pos, Ordered(l, pos), NEW o \in Obj, l.parent[o] # 0,
         NEW previous \in Obj, l.sibling[previous] = o
  PROVE  /\ \E new \in [Obj -> Nat] : Ordered(UnlinkAfter(l, previous, o), new)
         /\ UnlinkAfter(l, previous, o).parent[o] = 0
         /\ LinksOK(UnlinkAfter(l, previous, o)) /\ Without(l, o, UnlinkAfter(l, previous, o))
<1> DEFINE n == UnlinkAfter(l, previous, o)
<1>0. /\ pos \in [Obj -> Nat] /\ 0 \notin Obj /\ LinksOK(l)
      /\ l.parent \in [Obj -> Link] /\ l.sibling \in [Obj -> Link] /\ l.child \in [Obj -> Link]
  BY ObjAssumption DEF Ordered, LinksOK, Link
<1>1. /\ LinksOK(n)
      /\ n.parent = [l.parent EXCEPT ![o] = 0]
      /\ n.sibling = [[l.sibling EXCEPT ![previous] = l.sibling[o]] EXCEPT ![o] = 0]
      /\ n.child = l.child
  BY <1>0 DEF UnlinkAfter, Relink, LinksOK, Link
<1>2. l.parent[previous] = l.parent[o] /\ pos[o] = pos[previous] + 1
  BY <1>0 DEF Ordered, SiblingIsNext
<1>3. \A a \in Obj : l.sibling[a] = o => a = previous
  <2> SUFFICES ASSUME NEW a \in Obj, l.sibling[a] = o PROVE a = previous
    OBVIOUS
  <2>1. l.parent[a] # 0 /\ l.parent[a] = l.parent[o] /\ pos[o] = pos[a] + 1
    BY <1>0 DEF Ordered, SiblingIsNext
  <2> QED
    BY <2>1, <1>0, <1>2 DEF Ordered, NoneShared
<1>4. \A x \in Obj : l.child[x] # o
  BY <1>0, <1>2 DEF Ordered, FirstIsChild
<1> HIDE DEF n
<1>5. Without(l, o, n) /\ n.parent[o] = 0
  BY <1>0, <1>1, <1>3, <1>4 DEF Without
<1>6. \E new \in [Obj -> Nat] : Ordered(n, new)
  BY <1>1, <1>5, UnlinkOrdered
<1> QED
  BY <1>1, <1>5, <1>6 DEF n

-----------------------------------------------------------------------------
\* An operation that has unlinked its object, or found it unlinked, completes.
LEMMA CompletePreserves ==
  ASSUME NEW l, NEW pos \in [Obj -> Nat], Ordered(l, pos), NEW x \in Operation,
         l.parent[x.object] = 0, x.kind = "insert" => x.destination \in Obj,
         Complete(l, x)
  PROVE  IInv'
<1>1. x.object \in Obj
  BY DEF Operation
<1>2. \E new \in [Obj -> Nat] : Ordered(links', new)
  <2>1. CASE x.kind = "insert"
    BY <2>1, <1>1, AttachOrdered DEF Complete
  <2>2. CASE x.kind # "insert"
    BY <2>2 DEF Complete
  <2> QED
    BY <2>1, <2>2
<1>3. PICK new \in [Obj -> Nat] : Ordered(links', new)
  BY <1>2
<1>4. op' = NoOperation /\ cursor' = 0 /\ pc' = "idle"
  BY DEF Complete
<1>5. TypeOK'
  BY <1>3, <1>4 DEF TypeOK, Ordered, LinksOK, Link
<1>6. SearchIsBefore(new)'
  BY <1>4 DEF SearchIsBefore
<1> QED
  BY <1>3, <1>5, <1>6 DEF IInv

LEMMA StopPreserves == ASSUME IInv, Stop PROVE IInv'
  BY DEF IInv, Stop, TypeOK, SearchIsBefore, Link

LEMMA BeginPreserves ==
  ASSUME IInv, NEW x \in [kind : {"remove", "insert"}, object : Link, destination : Link],
         Begin(x)
  PROVE  IInv'
<1>1. CASE x.object = 0 \/ (x.kind = "insert" /\ x.destination = 0)
  BY <1>1, StopPreserves DEF Begin
<1>2. CASE ~ (x.object = 0 \/ (x.kind = "insert" /\ x.destination = 0))
  <2> DEFINE o == x.object
             parent == links.parent[o]
  <2>1. /\ x \in Operation /\ o \in Obj /\ 0 \notin Obj
        /\ x.kind = "insert" => x.destination \in Obj
    BY <1>2, ObjAssumption DEF Operation, Link
  <2>2. PICK pos \in [Obj -> Nat] : Ordered(links, pos)
    BY DEF IInv
  <2>3. CASE parent = 0
    BY <1>2, <2>1, <2>2, <2>3, CompletePreserves DEF Begin
  <2>4. CASE parent # 0 /\ links.child[parent] = o
    <3>1. Complete(UnlinkFirst(links, o), x)
      BY <1>2, <2>4 DEF Begin
    <3>2. UnlinkFirst(links, o).parent[o] = 0
      BY <2>1, <2>2, <2>4, UnlinkFirstOrdered
    <3>3. PICK new \in [Obj -> Nat] : Ordered(UnlinkFirst(links, o), new)
      BY <2>1, <2>2, <2>4, UnlinkFirstOrdered
    <3> QED
      BY <2>1, <3>1, <3>2, <3>3, CompletePreserves
  <2>5. CASE parent # 0 /\ links.child[parent] # o
    <3>1. op' = x /\ cursor' = links.child[parent] /\ pc' = "search" /\ links' = links
      BY <1>2, <2>5 DEF Begin
    <3>2. pos[o] > 0
      BY <2>1, <2>2, <2>5 DEF Ordered, ChildIsFirst
    <3>3. PICK a \in Obj : links.parent[a] = parent /\ pos[a] = 0
      BY <2>1, <2>2, <2>5, <3>2 DEF Ordered, NoneLeftOut
    <3>4. links.child[parent] = a
      BY <2>2, <2>5, <3>3 DEF Ordered, ChildIsFirst
    <3>5. TypeOK'
      BY <2>1, <3>1, <3>3, <3>4 DEF IInv, TypeOK, Link
    <3>6. SearchIsBefore(pos)'
      BY <2>1, <2>5, <3>1, <3>2, <3>3, <3>4 DEF SearchIsBefore
    <3> QED
      BY <2>2, <3>1, <3>5, <3>6 DEF IInv
  <2> QED
    BY <2>3, <2>4, <2>5
<1> QED
  BY <1>1, <1>2

\* The next sibling is the object or still before it.
LEMMA SearchPreserves ==
  ASSUME IInv, Search PROVE IInv'
<1>1. PICK pos \in [Obj -> Nat] : Ordered(links, pos) /\ SearchIsBefore(pos)
  BY DEF IInv
<1> DEFINE o == op.object
           next == links.sibling[cursor]
<1>2. /\ op \in Operation /\ o \in Obj /\ cursor \in Obj /\ 0 \notin Obj
      /\ links.parent[o] # 0 /\ links.parent[cursor] = links.parent[o]
      /\ pos[cursor] < pos[o]
  BY <1>1, ObjAssumption DEF Search, SearchIsBefore, Operation
<1>3. CASE next = o
  <2>1. Complete(UnlinkAfter(links, cursor, o), op)
    BY <1>2, <1>3 DEF Search
  <2>2. UnlinkAfter(links, cursor, o).parent[o] = 0
    BY <1>1, <1>2, <1>3, UnlinkAfterOrdered
  <2>3. PICK new \in [Obj -> Nat] : Ordered(UnlinkAfter(links, cursor, o), new)
    BY <1>1, <1>2, <1>3, UnlinkAfterOrdered
  <2>4. op.kind = "insert" => op.destination \in Obj
    BY <1>1 DEF Search, SearchIsBefore
  <2> QED
    BY <1>2, <2>1, <2>2, <2>3, <2>4, CompletePreserves
<1>4. CASE next # o
  <2>1. cursor' = next /\ links' = links /\ op' = op /\ pc' = pc
    BY <1>2, <1>4 DEF Search
  <2>2. pos[cursor] + 1 \in Nat /\ pos[cursor] + 1 <= pos[o]
    BY <1>2
  <2>3. PICK x \in Obj : links.parent[x] = links.parent[o] /\ pos[x] = pos[cursor] + 1
    <3>1. CASE pos[cursor] + 1 = pos[o]
      BY <3>1, <1>2
    <3>2. CASE pos[cursor] + 1 < pos[o]
      BY <3>2, <1>1, <1>2, <2>2 DEF Ordered, NoneLeftOut
    <3> QED
      BY <3>1, <3>2, <2>2, <1>2
  <2>4. PICK a \in Obj : links.sibling[a] = x
    BY <2>3, <1>1, <1>2 DEF Ordered, HasPrevious
  <2>5. links.parent[a] = links.parent[cursor] /\ pos[a] = pos[cursor]
    BY <2>3, <2>4, <1>1, <1>2 DEF Ordered, SiblingIsNext
  <2>6. next = x
    BY <2>4, <2>5, <1>1, <1>2 DEF Ordered, NoneShared
  <2>7. pos[x] < pos[o]
    BY <2>2, <2>3, <2>6, <1>1, <1>2, <1>4 DEF Ordered, NoneShared
  <2>8. TypeOK'
    BY <2>1, <2>6 DEF IInv, TypeOK, Link
  <2>9. SearchIsBefore(pos)'
    BY <2>1, <2>3, <2>6, <2>7, <1>1, <1>2 DEF Search, SearchIsBefore
  <2> QED
    BY <1>1, <2>1, <2>8, <2>9 DEF IInv
<1> QED
  BY <1>3, <1>4

-----------------------------------------------------------------------------
LEMMA Invariance == Spec => []IInv
<1>1. Init => IInv
  <2> SUFFICES ASSUME Init PROVE IInv
    OBVIOUS
  <2> DEFINE pos == [o \in Obj |-> 0]
  <2>1. TypeOK
    BY DEF Init, TypeOK, Link
  <2>2. pos \in [Obj -> Nat] /\ LinksOK(links)
    BY <2>1 DEF TypeOK, LinksOK
  <2>3. \A o \in Obj : links.parent[o] = 0 /\ links.sibling[o] = 0 /\ links.child[o] = 0
    BY DEF Init
  <2>4. Ordered(links, pos)
    BY <2>2, <2>3 DEF Ordered, FirstIsChild, SiblingIsNext, NoneShared, ChildIsFirst,
                      HasPrevious, NoneLeftOut
  <2>5. SearchIsBefore(pos)
    BY DEF Init, SearchIsBefore
  <2> QED
    BY <2>1, <2>2, <2>4, <2>5 DEF IInv
<1>2. IInv /\ [Next]_vars => IInv'
  <2> SUFFICES ASSUME IInv, [Next]_vars PROVE IInv'
    OBVIOUS
  <2>1. CASE \E o \in Operands : RemoveObj(o)
    BY <2>1, BeginPreserves, OperandsAssumption DEF RemoveObj, Link
  <2>2. CASE \E o, d \in Operands : InsertObj(o, d)
    BY <2>2, BeginPreserves, OperandsAssumption DEF InsertObj, Link
  <2>3. CASE Search
    BY <2>3, SearchPreserves
  <2>4. CASE UNCHANGED vars
    BY <2>4 DEF vars, IInv, TypeOK, SearchIsBefore
  <2> QED
    BY <2>1, <2>2, <2>3, <2>4 DEF Next
<1> QED
  BY <1>1, <1>2, PTL DEF Spec

\* Whatever a story removes and inserts, the links fit together: no two lists
\* meet and none comes back to its start.
THEOREM LinksStayConsistent == Spec => []LinksConsistent
<1>1. IInv => LinksConsistent
  BY OrderedIsConsistent DEF IInv
<1> QED
  BY <1>1, Invariance, PTL

\* A search never comes to the end of the list: the failure of zobj_remove,
\* which zobj_insert does not look at, never happens.
THEOREM NothingIsLost == Spec => []NeverLost
<1>1. IInv => NeverLost
  BY ObjAssumption DEF IInv, SearchIsBefore, NeverLost
<1> QED
  BY <1>1, Invariance, PTL

-----------------------------------------------------------------------------
\* Induction over the naturals, for a set: the least number outside it cannot
\* exist.
LEMMA Inductive ==
  ASSUME NEW T, 0 \in T, \A n \in Nat : n \in T => n + 1 \in T
  PROVE  Nat \subseteq T
<1> DEFINE R == OpToRel(<, Nat)
<1>1. IsWellFoundedOn(R, Nat)
  BY NatLessThanWellFounded
<1>2. \A a, b \in Nat : a < b => <<a, b>> \in R
  BY DEF OpToRel
<1> HIDE DEF R
<1>3. SUFFICES ASSUME Nat \ T # {} PROVE FALSE
  OBVIOUS
<1>4. PICK m \in Nat \ T : \A k \in Nat \ T : ~ (<<k, m>> \in R)
  BY <1>1, <1>3, WFMin
<1>5. m - 1 \in Nat
  BY <1>4
<1>6. <<m - 1, m>> \in R
  BY <1>2, <1>4, <1>5
<1>7. m - 1 \in T
  BY <1>4, <1>5, <1>6
<1>8. (m - 1) + 1 = m
  BY <1>4
<1> QED
  BY <1>4, <1>5, <1>7, <1>8

\* A step can be iterated: there is the sequence of its results from a start.
LEMMA Iterates ==
  ASSUME NEW S, NEW a \in S, NEW step \in [S -> S]
  PROVE  \E f \in [Nat -> S] : f[0] = a /\ \A n \in Nat : f[n + 1] = step[f[n]]
<1> DEFINE G(n) == {g \in [0 .. n -> S] : g[0] = a /\ \A k \in Nat : k < n => g[k + 1] = step[g[k]]}
           Some == {n \in Nat : G(n) # {}}
<1>1. Nat \subseteq Some
  <2>1. 0 \in Some
    <3>1. [k \in 0 .. 0 |-> a] \in G(0)
      OBVIOUS
    <3> QED
      BY <3>1
  <2>2. ASSUME NEW n \in Nat, n \in Some PROVE n + 1 \in Some
    <3>1. PICK g \in G(n) : TRUE
      BY <2>2
    <3> DEFINE h == [k \in 0 .. n + 1 |-> IF k = n + 1 THEN step[g[n]] ELSE g[k]]
    <3>2. h \in [0 .. n + 1 -> S]
      BY <3>1
    <3>3. h[0] = a /\ \A k \in Nat : k < n + 1 => h[k + 1] = step[h[k]]
      BY <3>1
    <3> HIDE DEF h
    <3>4. h \in G(n + 1)
      BY <3>2, <3>3
    <3>5. n + 1 \in Nat
      OBVIOUS
    <3> HIDE DEF G
    <3> QED
      BY <3>4, <3>5
  <2> HIDE DEF Some
  <2> QED
    BY <2>1, <2>2, Inductive
<1>2. ASSUME NEW n \in Nat, NEW g \in G(n), NEW h \in G(n + 1) PROVE h[n] = g[n]
  <2> DEFINE T == {k \in Nat : k <= n => g[k] = h[k]}
  <2>1. 0 \in T
    BY <1>2
  <2>2. ASSUME NEW k \in Nat, k \in T PROVE k + 1 \in T
    BY <2>2
  <2> HIDE DEF T
  <2>3. Nat \subseteq T
    BY <2>1, <2>2, Inductive
  <2> QED
    BY <2>3 DEF T
<1> DEFINE g(n) == CHOOSE x \in G(n) : TRUE
           f == [n \in Nat |-> g(n)[n]]
<1>3. \A n \in Nat : g(n) \in G(n)
  <2> HIDE DEF G
  <2> QED BY <1>1
<1> HIDE DEF g
<1>4. f \in [Nat -> S]
  BY <1>3
<1>5. f[0] = a
  BY <1>3
<1>6. ASSUME NEW n \in Nat PROVE f[n + 1] = step[f[n]]
  <2>0. n + 1 \in Nat
    OBVIOUS
  <2>1. g(n) \in G(n) /\ g(n + 1) \in G(n + 1)
    <3> HIDE DEF G
    <3> QED BY <1>3, <2>0
  <2>2. g(n + 1)[n] = g(n)[n]
    BY <1>2, <2>1
  <2>3. g(n + 1)[n + 1] = step[g(n + 1)[n]]
    BY <2>1
  <2> QED
    BY <2>2, <2>3
<1> QED
  BY <1>4, <1>5, <1>6

-----------------------------------------------------------------------------
\* No object is in the sequence twice.
Distinct(s) == \A i, j \in 1 .. Len(s) : s[i] = s[j] => i = j

\* What RemoveFirst leaves of a list that holds the object once, or not at all.
LEMMA RemoveFound ==
  ASSUME NEW s \in Seq(Obj), Distinct(s), NEW k \in 1 .. Len(s)
  PROVE  RemoveFirst(s, s[k]) = SubSeq(s, 1, k - 1) \o SubSeq(s, k + 1, Len(s))
<1> DEFINE I == {i \in 1 .. Len(s) : s[i] = s[k]}
<1>1. I = {k}
  BY DEF Distinct
<1>2. Len(s) \in Nat /\ k \in Nat
  OBVIOUS
<1>3. (CHOOSE x \in {k} : \A y \in {k} : x <= y) = k
  BY <1>2
<1>4. SelectInSeq(s, LAMBDA v : v = s[k]) = k
  BY <1>1, <1>3 DEF SelectInSeq, Min
<1> QED
  BY <1>4 DEF RemoveFirst, RemoveAt

LEMMA RemoveMissing ==
  ASSUME NEW s \in Seq(Obj), NEW o, \A k \in 1 .. Len(s) : s[k] # o
  PROVE  RemoveFirst(s, o) = s
  BY DEF RemoveFirst

\* The links from p through its children are the sequence s.
Chain(l, p, s) ==
  /\ Distinct(s)
  /\ l.child[p] = IF Len(s) = 0 THEN 0 ELSE s[1]
  /\ \A k \in 1 .. Len(s) :
       /\ l.parent[s[k]] = p
       /\ l.sibling[s[k]] = IF k = Len(s) THEN 0 ELSE s[k + 1]

\* ListFrom, of any links.
Walk(l) ==
  CHOOSE f : f = [n \in 0 .. Cardinality(Obj) |->
                    [o \in Link |-> IF n = 0 \/ o = 0 THEN <<>>
                                    ELSE <<o>> \o f[n - 1][l.sibling[o]]]]

\* Its equation has a solution, so that the definition means what it says.
LEMMA WalkIs ==
  ASSUME NEW l, l.sibling \in [Obj -> Link]
  PROVE  \A n \in 0 .. Cardinality(Obj), o \in Link :
           Walk(l)[n][o] = IF n = 0 \/ o = 0 THEN <<>>
                           ELSE <<o>> \o Walk(l)[n - 1][l.sibling[o]]
<1> DEFINE N == Cardinality(Obj)
           S == [Link -> Seq(Obj)]
           start == [o \in Link |-> <<>>]
           step == [g \in S |-> [o \in Link |-> IF o = 0 THEN <<>> ELSE <<o>> \o g[l.sibling[o]]]]
           Rows(f) == [n \in 0 .. N |->
                         [o \in Link |-> IF n = 0 \/ o = 0 THEN <<>>
                                         ELSE <<o>> \o f[n - 1][l.sibling[o]]]]
           Solves(f) == f = Rows(f)
<1>1. Walk(l) = CHOOSE f : Solves(f)
  BY DEF Walk
<1>2. N \in Nat
  BY ObjAssumption, FS_CardinalityType
<1>3. start \in S
  OBVIOUS
<1>4. step \in [S -> S]
  <2> SUFFICES ASSUME NEW g \in S, NEW o \in Link, o # 0 PROVE <<o>> \o g[l.sibling[o]] \in Seq(Obj)
    OBVIOUS
  <2>1. o \in Obj /\ l.sibling[o] \in Link
    BY DEF Link
  <2>2. g[l.sibling[o]] \in Seq(Obj)
    BY <2>1
  <2> QED
    BY <2>1, <2>2
<1>5. \A g \in S, o \in Link : step[g][o] = IF o = 0 THEN <<>> ELSE <<o>> \o g[l.sibling[o]]
  OBVIOUS
<1> HIDE DEF start, step
<1>6. PICK f \in [Nat -> S] : f[0] = start /\ \A n \in Nat : f[n + 1] = step[f[n]]
  <2> HIDE DEF S
  <2> QED BY ONLY <1>3, <1>4, Iterates
<1> DEFINE h == [n \in 0 .. N |-> f[n]]
<1>7. Solves(h)
  <2>1. ASSUME NEW n \in 0 .. N
        PROVE f[n] = [o \in Link |-> IF n = 0 \/ o = 0 THEN <<>> ELSE <<o>> \o h[n - 1][l.sibling[o]]]
    <3>1. CASE n = 0
      BY <3>1, <1>6 DEF start
    <3>2. CASE n # 0
      <4>1. n - 1 \in Nat /\ n - 1 \in 0 .. N /\ (n - 1) + 1 = n
        BY <3>2, <1>2
      <4>2. f[n] = step[f[n - 1]] /\ h[n - 1] = f[n - 1] /\ f[n - 1] \in S
        BY <4>1, <1>6
      <4> HIDE DEF h
      <4>3. step[f[n - 1]] = [o \in Link |-> IF o = 0 THEN <<>> ELSE <<o>> \o f[n - 1][l.sibling[o]]]
        BY <4>2 DEF step
      <4> QED
        BY <4>2, <4>3, <3>2
    <3> QED
      BY <3>1, <3>2
  <2>2. h = [n \in 0 .. N |->
              [o \in Link |-> IF n = 0 \/ o = 0 THEN <<>> ELSE <<o>> \o h[n - 1][l.sibling[o]]]]
    BY <2>1
  <2> HIDE DEF h
  <2> QED
    BY <2>2
<1> HIDE DEF Solves
<1>8. Solves(Walk(l))
  BY <1>1, <1>7
<1> DEFINE w == Walk(l)
<1> HIDE DEF w
<1>9. w = Rows(w)
  BY <1>8 DEF Solves, w
<1>10. \A n \in 0 .. N, o \in Link :
         w[n][o] = IF n = 0 \/ o = 0 THEN <<>> ELSE <<o>> \o w[n - 1][l.sibling[o]]
  <2> SUFFICES ASSUME NEW n \in 0 .. N
               PROVE  w[n] = [o \in Link |-> IF n = 0 \/ o = 0 THEN <<>>
                                             ELSE <<o>> \o w[n - 1][l.sibling[o]]]
    OBVIOUS
  <2> DEFINE Row(k) == [o \in Link |-> IF k = 0 \/ o = 0 THEN <<>>
                                       ELSE <<o>> \o w[k - 1][l.sibling[o]]]
  <2>1. w = [k \in 0 .. N |-> Row(k)]
    BY <1>9
  <2> HIDE DEF Row
  <2>2. w[n] = Row(n)
    BY <2>1
  <2> QED
    BY <2>2 DEF Row
<1> QED
  BY <1>10 DEF w

LEMMA SubSeqUnfolds ==
  ASSUME NEW S, NEW s \in Seq(S), NEW k \in 1 .. Len(s)
  PROVE  SubSeq(s, k, Len(s)) = <<s[k]>> \o SubSeq(s, k + 1, Len(s))
<1> DEFINE m == Len(s)
           t == SubSeq(s, k + 1, m)
           a == <<s[k]>> \o t
           b == SubSeq(s, k, m)
<1>1. m \in Nat /\ k \in Nat /\ k >= 1 /\ k <= m /\ s[k] \in S
  OBVIOUS
<1>2. b \in Seq(S) /\ Len(b) = m + 1 - k /\ \A i \in 1 .. m + 1 - k : b[i] = s[k + i - 1]
  BY <1>1
<1>3. t \in Seq(S) /\ Len(t) = m - k /\ \A i \in 1 .. m - k : t[i] = s[k + i]
  BY <1>1
<1> HIDE DEF m, b, t
<1>4. a \in Seq(S) /\ Len(a) = m + 1 - k
  BY <1>1, <1>3
<1>5. ASSUME NEW i \in 1 .. m + 1 - k PROVE a[i] = b[i]
  <2>1. CASE i = 1
    BY <2>1, <1>1, <1>2, <1>3
  <2>2. CASE i # 1
    <3>1. i - 1 \in 1 .. m - k /\ i \in Nat
      BY <2>2, <1>1
    <3>2. a[i] = t[i - 1]
      BY <2>2, <3>1, <1>1, <1>3
    <3>3. t[i - 1] = s[k + (i - 1)]
      BY <3>1, <1>3
    <3>4. k + (i - 1) = k + i - 1
      BY <3>1, <1>1
    <3> QED
      BY <3>2, <3>3, <3>4, <1>2
  <2> QED
    BY <2>1, <2>2
<1> HIDE DEF a
<1>6. a = b
  BY <1>2, <1>4, <1>5, SeqEqual
<1> QED
  BY <1>6 DEF a, b, t, m

\* The walk from the first child returns the chain: it has no more members than
\* there are objects.
LEMMA ChainIsRead ==
  ASSUME NEW l, l.sibling \in [Obj -> Link], NEW p \in Obj, NEW s \in Seq(Obj), Chain(l, p, s)
  PROVE  Walk(l)[Cardinality(Obj)][l.child[p]] = s
<1> DEFINE N == Cardinality(Obj)
           m == Len(s)
           W(n) == Walk(l)[n]
           At(k) == IF k = m + 1 THEN 0 ELSE s[k]
           Rest(k) == SubSeq(s, k, m)
           Holds(n) == \A k \in 1 .. m + 1 : m + 1 - k <= n => W(n)[At(k)] = Rest(k)
           T == {n \in Nat : n <= N => Holds(n)}
<1>1. N \in Nat /\ m \in Nat /\ 0 \notin Obj /\ \A k \in 1 .. m : s[k] \in Obj
  BY ObjAssumption, FS_CardinalityType
<1>2. m <= N
  <2>1. s \in Injection(1 .. m, Obj)
    BY DEF Chain, Distinct, Injection, IsInjective
  <2>2. Cardinality(1 .. m) <= Cardinality(Obj)
    BY <2>1, ObjAssumption, FS_Injection
  <2>3. Cardinality(1 .. m) = m
    <3> HIDE DEF m, N
    <3>1. 1 \in Int /\ m \in Int
      BY <1>1
    <3>2. Cardinality(1 .. m) = IF 1 > m THEN 0 ELSE m - 1 + 1
      BY ONLY <3>1, FS_Interval
    <3> QED
      BY <3>2, <1>1
  <2> QED
    BY <2>2, <2>3
<1>3. /\ At(m + 1) = 0 /\ Rest(m + 1) = <<>>
      /\ l.child[p] = At(1) /\ Rest(1) = s
  BY <1>1 DEF Chain
<1>4. ASSUME NEW k \in 1 .. m
      PROVE  /\ At(k) \in Obj /\ l.sibling[At(k)] = At(k + 1)
             /\ Rest(k) = <<At(k)>> \o Rest(k + 1)
  <2>1. /\ k # m + 1 /\ At(k) = s[k] /\ s[k] \in Obj /\ k + 1 \in Nat
        /\ k = m => At(k + 1) = 0
        /\ k # m => At(k + 1) = s[k + 1]
    BY <1>1
  <2>2. l.sibling[s[k]] = At(k + 1)
    BY <2>1 DEF Chain
  <2>3. Rest(k) = <<s[k]>> \o Rest(k + 1)
    BY SubSeqUnfolds
  <2> QED
    BY <2>1, <2>2, <2>3
<1>5. \A n \in 0 .. N, o \in Link :
        W(n)[o] = IF n = 0 \/ o = 0 THEN <<>> ELSE <<o>> \o W(n - 1)[l.sibling[o]]
  BY WalkIs
<1> HIDE DEF N, m, W, At, Rest
<1>6. 0 \in T
  <2> SUFFICES ASSUME NEW k \in 1 .. m + 1, m + 1 - k <= 0 PROVE W(0)[At(k)] = Rest(k)
    OBVIOUS
  <2>1. k = m + 1 /\ 0 \in 0 .. N /\ 0 \in Link
    BY <1>1 DEF Link
  <2> QED
    BY <2>1, <1>3, <1>5
<1>7. ASSUME NEW n \in Nat, n \in T PROVE n + 1 \in T
  <2> SUFFICES ASSUME n + 1 <= N, NEW k \in 1 .. m + 1, m + 1 - k <= n + 1
               PROVE  W(n + 1)[At(k)] = Rest(k)
    OBVIOUS
  <2>0. n + 1 \in 0 .. N /\ n + 1 # 0 /\ (n + 1) - 1 = n
    BY <1>1
  <2>1. CASE k = m + 1
    BY <2>0, <2>1, <1>3, <1>5 DEF Link
  <2>2. CASE k # m + 1
    <3>1. k \in 1 .. m /\ k + 1 \in 1 .. m + 1 /\ m + 1 - (k + 1) <= n
      BY <2>2, <1>1
    <3>2. At(k) \in Obj /\ l.sibling[At(k)] = At(k + 1) /\ Rest(k) = <<At(k)>> \o Rest(k + 1)
      BY <3>1, <1>4
    <3>3. At(k) \in Link /\ At(k) # 0
      BY <3>2, <1>1 DEF Link
    <3>4. W(n + 1)[At(k)] = <<At(k)>> \o W(n)[At(k + 1)]
      BY <2>0, <3>2, <3>3, <1>5
    <3>5. Holds(n)
      BY <1>1, <1>7
    <3>6. W(n)[At(k + 1)] = Rest(k + 1)
      BY <3>1, <3>5
    <3> QED
      BY <3>2, <3>4, <3>6
  <2> QED
    BY <2>1, <2>2
<1> HIDE DEF Holds
<1>8. N \in T
  <2> HIDE DEF T
  <2> QED BY <1>1, <1>6, <1>7, Inductive
<1>9. Holds(N)
  BY <1>1, <1>8
<1>10. W(N)[At(1)] = Rest(1)
  BY <1>1, <1>2, <1>9 DEF Holds
<1> QED
  BY <1>3, <1>10 DEF W, N

-----------------------------------------------------------------------------
\* Every object's children are a chain, and an object that has a parent is on
\* its parent's.
Chains(l, c) ==
  /\ c \in [Obj -> Seq(Obj)]
  /\ \A p \in Obj : Chain(l, p, c[p])
  /\ \A o \in Obj : l.parent[o] # 0 =>
       \E k \in 1 .. Len(c[l.parent[o]]) : c[l.parent[o]][k] = o

Kids(l) == [p \in Obj |-> Walk(l)[Cardinality(Obj)][l.child[p]]]

LEMMA ChainsAreRead ==
  ASSUME NEW l, LinksOK(l), NEW c, Chains(l, c)
  PROVE  Kids(l) = c
<1>1. l.sibling \in [Obj -> Link] /\ c \in [Obj -> Seq(Obj)]
  BY DEF LinksOK, Chains
<1>2. ASSUME NEW p \in Obj PROVE Walk(l)[Cardinality(Obj)][l.child[p]] = c[p]
  BY <1>1, ChainIsRead DEF Chains
<1> QED
  BY <1>1, <1>2 DEF Kids

\* To take an object out of the links is to take it off the lists.
LEMMA UnlinkChains ==
  ASSUME NEW l, LinksOK(l), NEW c, Chains(l, c), NEW o \in Obj, l.parent[o] # 0,
         NEW n, LinksOK(n), Without(l, o, n)
  PROVE  Chains(n, [p \in Obj |-> RemoveFirst(c[p], o)])
<1> DEFINE q == l.parent[o]
           new == [p \in Obj |-> RemoveFirst(c[p], o)]
<1>0. /\ 0 \notin Obj /\ q \in Obj /\ c \in [Obj -> Seq(Obj)]
      /\ l.parent \in [Obj -> Link] /\ l.sibling \in [Obj -> Link] /\ l.child \in [Obj -> Link]
      /\ \A x \in Obj :
           /\ n.parent[x] = IF x = o THEN 0 ELSE l.parent[x]
           /\ n.sibling[x] = IF x = o THEN 0
                             ELSE IF l.sibling[x] = o THEN l.sibling[o] ELSE l.sibling[x]
           /\ n.child[x] = IF l.child[x] = o THEN l.sibling[o] ELSE l.child[x]
  BY ObjAssumption DEF LinksOK, Link, Chains, Without
<1>1. ASSUME NEW p \in Obj, p # q
      PROVE  RemoveFirst(c[p], o) = c[p] /\ Chain(n, p, c[p])
  <2> DEFINE r == c[p]
  <2>1. /\ r \in Seq(Obj) /\ Distinct(r)
        /\ l.child[p] = IF Len(r) = 0 THEN 0 ELSE r[1]
        /\ \A k \in 1 .. Len(r) :
             /\ r[k] \in Obj /\ l.parent[r[k]] = p
             /\ l.sibling[r[k]] = IF k = Len(r) THEN 0 ELSE r[k + 1]
    BY <1>0 DEF Chains, Chain
  <2> HIDE DEF r
  <2>2. \A k \in 1 .. Len(r) : r[k] # o
    BY <1>1, <2>1
  <2>3. RemoveFirst(r, o) = r
    BY <2>1, <2>2, RemoveMissing
  <2>4. n.child[p] = IF Len(r) = 0 THEN 0 ELSE r[1]
    BY <1>0, <2>1, <2>2
  <2>5. ASSUME NEW k \in 1 .. Len(r)
        PROVE  n.parent[r[k]] = p /\ n.sibling[r[k]] = IF k = Len(r) THEN 0 ELSE r[k + 1]
    <3>1. r[k] \in Obj /\ r[k] # o /\ l.parent[r[k]] = p
      BY <2>1, <2>2
    <3>2. l.sibling[r[k]] = IF k = Len(r) THEN 0 ELSE r[k + 1]
      BY <2>1
    <3>3. k # Len(r) => k + 1 \in 1 .. Len(r)
      BY <2>1
    <3>4. l.sibling[r[k]] # o
      BY <1>0, <2>2, <3>2, <3>3
    <3> QED
      BY <1>0, <3>1, <3>2, <3>4
  <2>6. Chain(n, p, r)
    BY <2>1, <2>4, <2>5 DEF Chain
  <2> QED
    BY <2>3, <2>6 DEF r
<1> DEFINE s == c[q]
           m == Len(s)
<1>2. /\ s \in Seq(Obj) /\ m \in Nat /\ Len(s) = m /\ Distinct(s)
      /\ \A k, j \in 1 .. m : s[k] = s[j] => k = j
      /\ \A k \in 1 .. m :
           /\ s[k] \in Obj /\ l.parent[s[k]] = q
           /\ l.sibling[s[k]] = IF k = m THEN 0 ELSE s[k + 1]
      /\ l.child[q] = IF m = 0 THEN 0 ELSE s[1]
  <2>1. s \in Seq(Obj) /\ Chain(l, q, s)
    BY <1>0 DEF Chains
  <2> HIDE DEF s
  <2> QED
    BY <2>1 DEF Chain, Distinct
<1>3. PICK i \in 1 .. m : s[i] = o
  BY DEF Chains
<1> HIDE DEF s, m, q
<1> DEFINE t == SubSeq(s, 1, i - 1) \o SubSeq(s, i + 1, m)
<1>4. RemoveFirst(s, o) = t
  <2>1. RemoveFirst(s, s[i]) = SubSeq(s, 1, i - 1) \o SubSeq(s, i + 1, Len(s))
    BY <1>2, RemoveFound
  <2> QED
    BY <2>1, <1>2, <1>3
<1>5. /\ t \in Seq(Obj) /\ Len(t) = m - 1
      /\ \A k \in 1 .. m - 1 : t[k] = IF k < i THEN s[k] ELSE s[k + 1]
  <2> DEFINE a == SubSeq(s, 1, i - 1)
             b == SubSeq(s, i + 1, m)
  <2>1. /\ a \in Seq(Obj) /\ Len(a) = i - 1
        /\ \A k \in 1 .. i - 1 : a[k] = s[k]
    BY <1>2
  <2>2. /\ b \in Seq(Obj) /\ Len(b) = m - i
        /\ \A k \in 1 .. m - i : b[k] = s[i + k]
    BY <1>2
  <2> HIDE DEF a, b
  <2>3. a \o b \in Seq(Obj) /\ Len(a \o b) = m - 1
    BY <2>1, <2>2, <1>2
  <2>4. ASSUME NEW k \in 1 .. m - 1 PROVE (a \o b)[k] = IF k < i THEN s[k] ELSE s[k + 1]
    <3>1. CASE k < i
      BY <3>1, <2>1, <2>2, <1>2
    <3>2. CASE ~ (k < i)
      <4>1. k - (i - 1) \in 1 .. m - i /\ i + (k - (i - 1)) = k + 1 /\ k \in Nat /\ i \in Nat
        BY <3>2, <1>2
      <4>2. (a \o b)[k] = b[k - (i - 1)]
        BY <3>2, <4>1, <2>1, <2>2
      <4>3. b[k - (i - 1)] = s[i + (k - (i - 1))]
        BY <4>1, <2>2
      <4> QED
        BY <3>2, <4>1, <4>2, <4>3
    <3> QED
      BY <3>1, <3>2
  <2> QED
    BY <2>3, <2>4 DEF a, b
<1> HIDE DEF t
<1>6. \A k \in 1 .. m : k # i => s[k] # o
  BY <1>2, <1>3
<1>7. Chain(n, q, t)
  <2>1. Distinct(t)
    <3> SUFFICES ASSUME NEW k \in 1 .. m - 1, NEW j \in 1 .. m - 1, t[k] = t[j] PROVE k = j
      BY <1>5 DEF Distinct
    <3>1. PICK x \in 1 .. m : x = IF k < i THEN k ELSE k + 1
      BY <1>2
    <3>2. PICK y \in 1 .. m : y = IF j < i THEN j ELSE j + 1
      BY <1>2
    <3>3. t[k] = s[x] /\ t[j] = s[y]
      BY <3>1, <3>2, <1>5
    <3>4. x = y
      BY <3>3, <1>2
    <3> QED
      BY <3>1, <3>2, <3>4
  <2>2. n.child[q] = IF m - 1 = 0 THEN 0 ELSE t[1]
    <3>1. l.child[q] = s[1] /\ m # 0 /\ 1 \in 1 .. m /\ m - 1 # 0 => 1 \in 1 .. m - 1
      BY <1>2, <1>3
    <3>2. CASE i = 1
      <4>1. n.child[q] = IF 1 = m THEN 0 ELSE s[2]
        BY <3>1, <3>2, <1>0, <1>2, <1>3
      <4>2. m - 1 # 0 => t[1] = s[2]
        BY <3>1, <3>2, <1>2, <1>5
      <4> QED
        BY <4>1, <4>2, <1>2
    <3>3. CASE i # 1
      <4>1. n.child[q] = s[1]
        BY <3>1, <3>3, <1>0, <1>2, <1>3, <1>6
      <4>2. m - 1 # 0 /\ t[1] = s[1]
        BY <3>1, <3>3, <1>2, <1>5
      <4> QED
        BY <4>1, <4>2
    <3> QED
      BY <3>2, <3>3
  <2>3. ASSUME NEW k \in 1 .. m - 1
        PROVE  n.parent[t[k]] = q /\ n.sibling[t[k]] = IF k = m - 1 THEN 0 ELSE t[k + 1]
    <3>1. PICK j \in 1 .. m : j = IF k < i THEN k ELSE k + 1
      BY <1>2
    <3>2. j # i /\ t[k] = s[j]
      BY <3>1, <1>2, <1>5
    <3>3. s[j] \in Obj /\ s[j] # o /\ l.parent[s[j]] = q
      BY <3>2, <1>2, <1>6
    <3>4. n.parent[t[k]] = q
      BY <3>2, <3>3, <1>0
    <3>5. l.sibling[s[j]] = IF j = m THEN 0 ELSE s[j + 1]
      BY <1>2
    <3>6. CASE j + 1 = i
      <4>1. l.sibling[s[j]] = o /\ n.sibling[s[j]] = l.sibling[o]
        BY <3>2, <3>3, <3>5, <3>6, <1>0, <1>2, <1>3
      <4>2. n.sibling[s[j]] = IF i = m THEN 0 ELSE s[i + 1]
        BY <4>1, <1>2, <1>3
      <4>3. k + 1 = i /\ (i = m => k = m - 1) /\ (i # m => k # m - 1 /\ k + 1 \in 1 .. m - 1)
        BY <3>1, <3>6, <1>2
      <4>4. i # m => t[k + 1] = s[i + 1]
        BY <4>3, <1>2, <1>5
      <4> QED
        BY <3>2, <3>4, <4>2, <4>3, <4>4
    <3>7. CASE j + 1 # i
      <4>1. j # m => j + 1 \in 1 .. m /\ s[j + 1] # o
        BY <3>1, <3>7, <1>2, <1>6
      <4>2. l.sibling[s[j]] # o
        BY <3>5, <4>1, <1>0
      <4>3. n.sibling[s[j]] = IF j = m THEN 0 ELSE s[j + 1]
        BY <3>3, <3>5, <4>2, <1>0
      <4>4. (j = m => k = m - 1) /\ (j # m => k # m - 1 /\ k + 1 \in 1 .. m - 1)
        <5>1. m \in Nat /\ j # i /\ j + 1 # i
          BY <3>2, <3>7, <1>2
        <5>2. CASE k < i
          BY ONLY <5>1, <5>2, <3>1, i \in 1 .. m, k \in 1 .. m - 1, j \in 1 .. m
        <5>3. CASE ~ (k < i)
          BY ONLY <5>1, <5>3, <3>1, i \in 1 .. m, k \in 1 .. m - 1, j \in 1 .. m
        <5> QED
          BY <5>2, <5>3
      <4>5. j # m => t[k + 1] = s[j + 1]
        <5>1. ASSUME j # m PROVE t[k + 1] = IF k + 1 < i THEN s[k + 1] ELSE s[(k + 1) + 1]
          BY <5>1, <4>4, <1>5
        <5>2. (k + 1 < i <=> k < i) /\ (k < i => j = k) /\ (~ (k < i) => j = k + 1)
          BY <3>1, <3>2, <3>7, <1>2
        <5> QED
          BY <5>1, <5>2, <1>2
      <4> QED
        BY <3>2, <3>4, <4>3, <4>4, <4>5
    <3> QED
      BY <3>6, <3>7
  <2> QED
    BY <2>1, <2>2, <2>3, <1>5 DEF Chain
<1>8. new \in [Obj -> Seq(Obj)] /\ new[q] = t /\ \A p \in Obj : p # q => new[p] = c[p]
  BY <1>0, <1>1, <1>4, <1>5 DEF s
<1> HIDE DEF new
<1>9. \A p \in Obj : Chain(n, p, new[p])
  BY <1>1, <1>7, <1>8
<1>10. ASSUME NEW x \in Obj, n.parent[x] # 0
       PROVE  \E k \in 1 .. Len(new[n.parent[x]]) : new[n.parent[x]][k] = x
  <2>1. x # o /\ n.parent[x] = l.parent[x] /\ l.parent[x] # 0 /\ l.parent[x] \in Obj
    BY <1>0, <1>10 DEF Link
  <2>2. PICK k \in 1 .. Len(c[l.parent[x]]) : c[l.parent[x]][k] = x
    BY <2>1 DEF Chains
  <2>3. CASE l.parent[x] = q
    <3>1. k \in 1 .. m /\ s[k] = x /\ k # i
      BY <2>1, <2>2, <2>3, <1>3 DEF s, m
    <3>2. PICK j \in 1 .. m - 1 : j = IF k < i THEN k ELSE k - 1
      BY <3>1, <1>2
    <3>3. t[j] = x
      BY <3>1, <3>2, <1>2, <1>5
    <3> QED
      BY <2>1, <2>3, <3>3, <1>5, <1>8
  <2>4. CASE l.parent[x] # q
    BY <2>1, <2>2, <2>4, <1>8
  <2> QED
    BY <2>3, <2>4
<1> QED
  BY <1>8, <1>9, <1>10 DEF Chains, new

\* To attach an object is to put it first on the list.
LEMMA AttachChains ==
  ASSUME NEW l, LinksOK(l), NEW c, Chains(l, c), NEW o \in Obj, l.parent[o] = 0, NEW d \in Obj
  PROVE  Chains(Attach(l, o, d), [c EXCEPT ![d] = <<o>> \o @])
<1> DEFINE n == Attach(l, o, d)
           new == [c EXCEPT ![d] = <<o>> \o @]
<1>0. /\ 0 \notin Obj /\ c \in [Obj -> Seq(Obj)]
      /\ l.parent \in [Obj -> Link] /\ l.sibling \in [Obj -> Link] /\ l.child \in [Obj -> Link]
  BY ObjAssumption DEF LinksOK, Chains
<1>1. /\ n.parent = [l.parent EXCEPT ![o] = d]
      /\ n.sibling = [l.sibling EXCEPT ![o] = l.child[d]]
      /\ n.child = [l.child EXCEPT ![d] = o]
  BY <1>0 DEF Attach, LinksOK, Link
<1>2. \A x \in Obj :
        /\ n.parent[x] = IF x = o THEN d ELSE l.parent[x]
        /\ n.sibling[x] = IF x = o THEN l.child[d] ELSE l.sibling[x]
        /\ n.child[x] = IF x = d THEN o ELSE l.child[x]
  BY <1>0, <1>1
<1>3. new \in [Obj -> Seq(Obj)] /\ new[d] = <<o>> \o c[d] /\ \A p \in Obj : p # d => new[p] = c[p]
  BY <1>0
<1> HIDE DEF n, new
<1>4. ASSUME NEW p \in Obj
      PROVE  /\ c[p] \in Seq(Obj) /\ Distinct(c[p])
             /\ l.child[p] = IF Len(c[p]) = 0 THEN 0 ELSE c[p][1]
             /\ \A k \in 1 .. Len(c[p]) :
                  /\ c[p][k] \in Obj /\ c[p][k] # o
                  /\ n.parent[c[p][k]] = p
                  /\ n.sibling[c[p][k]] = IF k = Len(c[p]) THEN 0 ELSE c[p][k + 1]
  <2> DEFINE r == c[p]
  <2>1. r \in Seq(Obj) /\ Chain(l, p, r)
    BY <1>0 DEF Chains
  <2>2. \A k \in 1 .. Len(r) : r[k] \in Obj /\ r[k] # o
    <3> SUFFICES ASSUME NEW k \in 1 .. Len(r) PROVE r[k] \in Obj /\ r[k] # o
      OBVIOUS
    <3>1. r[k] \in Obj /\ l.parent[r[k]] = p
      BY <2>1 DEF Chain
    <3> QED
      BY <3>1, <1>0
  <2> QED
    BY <2>1, <2>2, <1>2 DEF Chain
<1>5. \A p \in Obj : p # d => Chain(n, p, new[p])
  <2> SUFFICES ASSUME NEW p \in Obj, p # d PROVE Chain(n, p, c[p])
    BY <1>3
  <2>1. n.child[p] = l.child[p]
    BY <1>2
  <2> QED
    BY <2>1, <1>4 DEF Chain
<1> DEFINE s == c[d]
           m == Len(s)
           t == <<o>> \o s
<1>6. /\ s \in Seq(Obj) /\ m \in Nat /\ Distinct(s)
      /\ l.child[d] = IF m = 0 THEN 0 ELSE s[1]
      /\ \A k \in 1 .. m :
           /\ s[k] \in Obj /\ s[k] # o
           /\ n.parent[s[k]] = d
           /\ n.sibling[s[k]] = IF k = m THEN 0 ELSE s[k + 1]
      /\ \A k, j \in 1 .. m : s[k] = s[j] => k = j
  BY <1>4 DEF Distinct
<1>7. /\ t \in Seq(Obj) /\ Len(t) = m + 1 /\ t[1] = o
      /\ \A k \in 1 .. m : t[k + 1] = s[k]
  <2> HIDE DEF s
  <2> QED BY <1>6
<1>8. new[d] = t
  BY <1>3
<1> HIDE DEF s, m, t
<1>9. Distinct(t)
  <2> SUFFICES ASSUME NEW k \in 1 .. m + 1, NEW j \in 1 .. m + 1, t[k] = t[j] PROVE k = j
    BY <1>7 DEF Distinct
  <2>1. ASSUME NEW i \in 1 .. m + 1, i # 1 PROVE i - 1 \in 1 .. m /\ t[i] = s[i - 1]
    <3>1. i - 1 \in 1 .. m /\ (i - 1) + 1 = i
      BY <2>1, <1>6
    <3> QED
      BY <3>1, <1>7
  <2>2. CASE k = 1 \/ j = 1
    BY <2>1, <2>2, <1>6, <1>7
  <2>3. CASE k # 1 /\ j # 1
    <3>1. k - 1 = j - 1
      BY <2>1, <2>3, <1>6
    <3> QED
      BY <3>1, <1>6
  <2> QED
    BY <2>2, <2>3
<1>10. Chain(n, d, t)
  <2>1. n.child[d] = t[1] /\ Len(t) # 0
    BY <1>2, <1>6, <1>7
  <2>2. ASSUME NEW k \in 1 .. m + 1
        PROVE  n.parent[t[k]] = d /\ n.sibling[t[k]] = IF k = m + 1 THEN 0 ELSE t[k + 1]
    <3>1. CASE k = 1
      <4>1. n.parent[o] = d /\ n.sibling[o] = l.child[d]
        BY <1>2
      <4>2. m # 0 => t[2] = s[1]
        BY <1>6, <1>7
      <4> QED
        BY <3>1, <4>1, <4>2, <1>6, <1>7
    <3>2. CASE k # 1
      <4>1. k - 1 \in 1 .. m /\ (k - 1) + 1 = k /\ (k # m + 1 => k \in 1 .. m)
        BY <3>2, <1>6
      <4>2. t[k] = s[k - 1] /\ (k # m + 1 => t[k + 1] = s[k])
        BY <4>1, <1>7
      <4>3. n.parent[s[k - 1]] = d /\ n.sibling[s[k - 1]] = IF k - 1 = m THEN 0 ELSE s[(k - 1) + 1]
        BY <4>1, <1>6
      <4> QED
        BY <4>1, <4>2, <4>3, <1>6
    <3> QED
      BY <3>1, <3>2
  <2> QED
    BY <2>1, <2>2, <1>7, <1>9 DEF Chain
<1>11. \A p \in Obj : Chain(n, p, new[p])
  BY <1>5, <1>8, <1>10
<1>12. ASSUME NEW x \in Obj, n.parent[x] # 0
       PROVE  \E k \in 1 .. Len(new[n.parent[x]]) : new[n.parent[x]][k] = x
  <2>1. CASE x = o
    <3>1. n.parent[x] = d /\ 1 \in 1 .. m + 1
      BY <2>1, <1>2, <1>6
    <3> QED
      BY <2>1, <3>1, <1>7, <1>8
  <2>2. CASE x # o
    <3>1. n.parent[x] = l.parent[x] /\ l.parent[x] \in Obj
      BY <2>2, <1>0, <1>2, <1>12 DEF Link
    <3>2. PICK k \in 1 .. Len(c[l.parent[x]]) : c[l.parent[x]][k] = x
      BY <3>1, <1>0 DEF Chains
    <3>3. CASE l.parent[x] = d
      <4>1. k \in 1 .. m /\ s[k] = x
        BY <3>2, <3>3 DEF s, m
      <4>2. k + 1 \in 1 .. m + 1 /\ t[k + 1] = x
        BY <4>1, <1>6, <1>7
      <4> QED
        BY <3>1, <3>3, <4>2, <1>7, <1>8
    <3>4. CASE l.parent[x] # d
      BY <3>1, <3>2, <3>4, <1>3
    <3> QED
      BY <3>3, <3>4
  <2> QED
    BY <2>1, <2>2
<1> QED
  BY <1>3, <1>11, <1>12 DEF Chains, n, new

\* The invariant: there are lists, and the links are their chains.
LInv == LinksOK(links) /\ \E c : Chains(links, c)

\* The promise, said of the walk.
LEMMA ChildrenAre ==
  /\ Forest!Init <=> Kids(links) = [p \in Obj |-> <<>>]
  /\ \A o \in Obj :
       /\ Forest!RemoveObj(o) <=>
            Kids(links)' = [p \in Obj |-> RemoveFirst(Kids(links)[p], o)]
       /\ \A d \in Obj : Forest!InsertObj(o, d) <=>
            Kids(links)' = [[p \in Obj |-> RemoveFirst(Kids(links)[p], o)]
                              EXCEPT ![d] = <<o>> \o @]
<1>1. ListFrom = Walk(links)
  BY DEF ListFrom, Walk
<1>2. ListFrom' = Walk(links)'
  BY DEF ListFrom, Walk
<1>3. Children = Kids(links) /\ Children' = Kids(links)'
  BY <1>1, <1>2 DEF Children, Kids
<1>4. ASSUME NEW s, NEW o PROVE Forest!RemoveFirst(s, o) = RemoveFirst(s, o)
  BY DEF Forest!RemoveFirst, Forest!RemoveAt, Forest!SelectInSeq, Forest!Min,
         RemoveFirst, RemoveAt, SelectInSeq, Min
<1>5. ASSUME NEW o \in Obj
      PROVE  Forest!Detached(o) = [p \in Obj |-> RemoveFirst(Kids(links)[p], o)]
  BY <1>3, <1>4 DEF Forest!Detached
<1>6. Forest!Init <=> Kids(links) = [p \in Obj |-> <<>>]
  BY <1>3 DEF Forest!Init
<1> QED
  BY <1>3, <1>5, <1>6 DEF Forest!RemoveObj, Forest!InsertObj

\* One operation of the promise.
ForestStep == \E o \in Obj : Forest!RemoveObj(o) \/ \E d \in Obj : Forest!InsertObj(o, d)

\* An operation that completes from the links without its object is one step.
LEMMA CompleteIsStep ==
  ASSUME NEW l, LinksOK(l), NEW x \in Operation, l.parent[x.object] = 0,
         x.kind = "insert" => x.destination \in Obj,
         Chains(l, [p \in Obj |-> RemoveFirst(Kids(links)[p], x.object)]),
         Complete(l, x), LinksOK(links')
  PROVE  LInv' /\ ForestStep
<1> DEFINE o == x.object
           d == x.destination
           c == [p \in Obj |-> RemoveFirst(Kids(links)[p], o)]
<1>0. o \in Obj
  BY DEF Operation
<1> HIDE DEF c
<1>1. CASE x.kind = "insert"
  <2>1. d \in Obj /\ links' = Attach(l, o, d)
    BY <1>1 DEF Complete
  <2>2. Chains(Attach(l, o, d), [c EXCEPT ![d] = <<o>> \o @])
    BY <2>1, <1>0, AttachChains DEF c
  <2>3. Chains(links', [c EXCEPT ![d] = <<o>> \o @])
    BY <2>1, <2>2
  <2>4. Kids(links') = [c EXCEPT ![d] = <<o>> \o @]
    BY <2>3, ChainsAreRead
  <2>5. Forest!InsertObj(o, d)
    BY <2>1, <2>4, <1>0, ChildrenAre DEF c
  <2> QED
    BY <2>1, <2>3, <2>5, <1>0 DEF LInv, ForestStep
<1>2. CASE x.kind # "insert"
  <2>1. links' = l
    BY <1>2 DEF Complete
  <2>2. Chains(links', c)
    BY <2>1 DEF c
  <2>3. Kids(links') = c
    BY <2>2, ChainsAreRead
  <2>4. Forest!RemoveObj(o)
    BY <2>3, <1>0, ChildrenAre DEF c
  <2> QED
    BY <2>2, <2>4, <1>0 DEF LInv, ForestStep
<1> QED
  BY <1>1, <1>2

LEMMA BeginIsStep ==
  ASSUME IInv, LInv, LinksOK(links'),
         NEW x \in [kind : {"remove", "insert"}, object : Link, destination : Link], Begin(x)
  PROVE  LInv' /\ (ForestStep \/ UNCHANGED links)
<1>0. PICK c : Chains(links, c)
  BY DEF LInv
<1>1. Kids(links) = c /\ c \in [Obj -> Seq(Obj)] /\ LinksOK(links)
  <2>1. LinksOK(links) /\ c \in [Obj -> Seq(Obj)]
    BY <1>0 DEF LInv, Chains
  <2> QED
    BY <1>0, <2>1, ChainsAreRead
<1>2. CASE x.object = 0 \/ (x.kind = "insert" /\ x.destination = 0)
  BY <1>2 DEF Begin, Stop, LInv
<1>3. CASE ~ (x.object = 0 \/ (x.kind = "insert" /\ x.destination = 0))
  <2> DEFINE o == x.object
             parent == links.parent[o]
             gone == [p \in Obj |-> RemoveFirst(c[p], o)]
  <2>1. x \in Operation /\ o \in Obj /\ (x.kind = "insert" => x.destination \in Obj)
    BY <1>3 DEF Operation, Link
  <2>2. PICK pos \in [Obj -> Nat] : Ordered(links, pos)
    BY DEF IInv
  <2>3. CASE parent = 0
    <3>1. ASSUME NEW p \in Obj PROVE RemoveFirst(c[p], o) = c[p]
      <4>1. c[p] \in Seq(Obj) /\ \A k \in 1 .. Len(c[p]) : links.parent[c[p][k]] = p
        BY <1>0 DEF Chains, Chain
      <4>2. \A k \in 1 .. Len(c[p]) : c[p][k] # o
        BY <4>1, <2>3, ObjAssumption
      <4> QED
        BY <4>1, <4>2, RemoveMissing
    <3>2. gone = c
      BY <3>1, <1>1
    <3>3. Complete(links, x)
      BY <1>3, <2>3 DEF Begin
    <3> QED
      BY <3>2, <3>3, <2>1, <2>3, <1>0, <1>1, CompleteIsStep
  <2>4. CASE parent # 0 /\ links.child[parent] = o
    <3> DEFINE n == UnlinkFirst(links, o)
    <3>1. Complete(n, x)
      BY <1>3, <2>4 DEF Begin
    <3>2. n.parent[o] = 0 /\ LinksOK(n) /\ Without(links, o, n)
      BY <2>1, <2>2, <2>4, UnlinkFirstOrdered
    <3> HIDE DEF n
    <3>3. Chains(n, gone)
      BY <3>2, <2>1, <2>4, <1>0, <1>1, UnlinkChains
    <3> QED
      BY <3>1, <3>2, <3>3, <2>1, <1>1, CompleteIsStep
  <2>5. CASE parent # 0 /\ links.child[parent] # o
    BY <1>3, <2>5, <1>0 DEF Begin, LInv
  <2> QED
    BY <2>3, <2>4, <2>5
<1> QED
  BY <1>2, <1>3

LEMMA SearchIsStep ==
  ASSUME IInv, LInv, LinksOK(links'), Search
  PROVE  LInv' /\ (ForestStep \/ UNCHANGED links)
<1>0. PICK c : Chains(links, c)
  BY DEF LInv
<1>1. Kids(links) = c /\ LinksOK(links)
  BY <1>0, ChainsAreRead DEF LInv
<1>2. PICK pos \in [Obj -> Nat] : Ordered(links, pos) /\ SearchIsBefore(pos)
  BY DEF IInv
<1> DEFINE o == op.object
           gone == [p \in Obj |-> RemoveFirst(c[p], o)]
<1>3. /\ op \in Operation /\ o \in Obj /\ cursor \in Obj /\ cursor # 0
      /\ links.parent[o] # 0 /\ (op.kind = "insert" => op.destination \in Obj)
  BY <1>2, ObjAssumption DEF Search, SearchIsBefore, Operation
<1>4. CASE links.sibling[cursor] = o
  <2> DEFINE n == UnlinkAfter(links, cursor, o)
  <2>1. Complete(n, op)
    BY <1>3, <1>4 DEF Search
  <2>2. n.parent[o] = 0 /\ LinksOK(n) /\ Without(links, o, n)
    BY <1>2, <1>3, <1>4, UnlinkAfterOrdered
  <2> HIDE DEF n
  <2>3. Chains(n, gone)
    BY <2>2, <1>0, <1>1, <1>3, UnlinkChains
  <2> QED
    BY <2>1, <2>2, <2>3, <1>1, <1>3, CompleteIsStep
<1>5. CASE links.sibling[cursor] # o
  BY <1>3, <1>5, <1>0 DEF Search, LInv
<1> QED
  BY <1>4, <1>5

\* Whatever the story removes and inserts, the lists that a walk along the
\* links reads are those of ObjForest: an operation changes them in one step,
\* in the reference and in the port.
THEOREM ListsAreKept == Spec => KeepsLists
<1>1. Init => LInv /\ Forest!Init
  <2> SUFFICES ASSUME Init PROVE LInv /\ Forest!Init
    OBVIOUS
  <2> DEFINE c == [p \in Obj |-> <<>>]
  <2>1. LinksOK(links)
    BY DEF Init, LinksOK, Link
  <2>2. Chains(links, c)
    BY DEF Init, Chains, Chain, Distinct
  <2> HIDE DEF c
  <2>3. Kids(links) = c
    BY <2>1, <2>2, ChainsAreRead
  <2> QED
    BY <2>1, <2>2, <2>3, ChildrenAre DEF LInv, c
<1>2. IInv /\ IInv' /\ LInv /\ [Next]_vars => LInv' /\ [Forest!Next]_Children
  <2>0. UNCHANGED links => UNCHANGED Children
    BY DEF Children, ListFrom
  <2> SUFFICES ASSUME IInv, IInv', LInv, [Next]_vars
               PROVE  LInv' /\ (ForestStep \/ UNCHANGED links)
    BY <2>0 DEF ForestStep, Forest!Next
  <2>1. LinksOK(links')
    BY DEF IInv, TypeOK, LinksOK
  <2>2. CASE \E o \in Operands : RemoveObj(o)
    BY <2>1, <2>2, BeginIsStep, OperandsAssumption DEF RemoveObj, Link
  <2>3. CASE \E o, d \in Operands : InsertObj(o, d)
    BY <2>1, <2>3, BeginIsStep, OperandsAssumption DEF InsertObj, Link
  <2>4. CASE Search
    BY <2>1, <2>4, SearchIsStep
  <2>5. CASE UNCHANGED vars
    BY <2>5 DEF vars, LInv
  <2> QED
    BY <2>2, <2>3, <2>4, <2>5 DEF Next
<1> QED
  BY <1>1, <1>2, Invariance, PTL DEF Spec, KeepsLists, Forest!Spec
=============================================================================
