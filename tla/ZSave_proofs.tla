---------------------------- MODULE ZSave_proofs ----------------------------
(***************************************************************************)
(* What a save file holds, proved for stacks anywhere in the address space,*)
(* any stories and any states of play.  The invariant says that SAVE.DAT,  *)
(* whatever failed and wherever power went, is a beginning of the file of  *)
(* the last state saved; that a save under way has written whole sections  *)
(* of it and the interpreter has not moved; and that a restore under way   *)
(* has either put back whole sections or stands at the end of the file.    *)
(***************************************************************************)
EXTENDS ZSave, SequenceTheorems, TLAPS

(* The file of a state of play: where each section starts, which cell is   *)
(* where.                                                                  *)

Evals(v) == Len(v.content["eval"])
Frames(v) == Len(v.content["frames"])
Dyns(v) == Len(v.content["dyn"])

Sec(v, k) ==
  LET of == Layout[k].of
  IN CASE Layout[k].kind = "scalar" -> <<v.scalar[of]>>
       [] Layout[k].kind = "length" -> <<Len(v.content[of])>>
       [] Layout[k].kind = "content" -> v.content[of]

Start(v, k) ==
  IF k <= 5 THEN k - 1
  ELSE IF k = 6 THEN 4 + Evals(v)
  ELSE IF k = 7 THEN 5 + Evals(v)
  ELSE IF k = 8 THEN 5 + Evals(v) + Frames(v)
  ELSE IF k = 9 THEN 6 + Evals(v) + Frames(v)
  ELSE IF k = 10 THEN 7 + Evals(v) + Frames(v)
  ELSE 7 + Evals(v) + Frames(v) + Dyns(v)

CellAt(v, j) ==
  IF j = 1 THEN v.scalar["pc"]
  ELSE IF j = 2 THEN v.scalar["pc_bank"]
  ELSE IF j = 3 THEN v.scalar["globals_base"]
  ELSE IF j = 4 THEN Evals(v)
  ELSE IF j <= 4 + Evals(v) THEN v.content["eval"][j - 4]
  ELSE IF j = 5 + Evals(v) THEN Frames(v)
  ELSE IF j <= 5 + Evals(v) + Frames(v) THEN v.content["frames"][j - (5 + Evals(v))]
  ELSE IF j = 6 + Evals(v) + Frames(v) THEN v.scalar["rand"]
  ELSE IF j = 7 + Evals(v) + Frames(v) THEN Dyns(v)
  ELSE v.content["dyn"][j - (7 + Evals(v) + Frames(v))]

\* A state of play that a file can describe: its lengths are words.
ViewOK(v) ==
  /\ v \in PlayState
  /\ \A r \in Regions : Len(v.content[r]) \in Addr

Fits(v, st) == \A r \in Regions : Len(v.content[r]) <= Capacity(st)[r]

\* The cells are the beginning of that file.
Begins(cells, v) ==
  /\ cells \in Seq(Addr)
  /\ Len(cells) <= Start(v, 11)
  /\ \A j \in 1 .. Len(cells) : cells[j] = CellAt(v, j)

LEMMA LayoutIs ==
  /\ Len(Layout) = 10
  /\ Layout[1].kind = "scalar" /\ Layout[1].of = "pc"
  /\ Layout[2].kind = "scalar" /\ Layout[2].of = "pc_bank"
  /\ Layout[3].kind = "scalar" /\ Layout[3].of = "globals_base"
  /\ Layout[4].kind = "length" /\ Layout[4].of = "eval"
  /\ Layout[5].kind = "content" /\ Layout[5].of = "eval"
  /\ Layout[6].kind = "length" /\ Layout[6].of = "frames"
  /\ Layout[7].kind = "content" /\ Layout[7].of = "frames"
  /\ Layout[8].kind = "scalar" /\ Layout[8].of = "rand"
  /\ Layout[9].kind = "length" /\ Layout[9].of = "dyn"
  /\ Layout[10].kind = "content" /\ Layout[10].of = "dyn"
BY DEF Layout

LEMMA AddrNat == AddrMod \in Nat \ {0} /\ \A a \in Addr : a \in Nat /\ a < AddrMod
BY SizesAssumption DEF Addr

LEMMA ViewFields ==
  ASSUME NEW v, ViewOK(v)
  PROVE  /\ \A s \in Scalars : v.scalar[s] \in Addr
         /\ \A r \in Regions : v.content[r] \in Seq(Addr)
         /\ Evals(v) \in Addr /\ Frames(v) \in Addr /\ Dyns(v) \in Addr
         /\ Evals(v) \in Nat /\ Frames(v) \in Nat /\ Dyns(v) \in Nat
BY AddrNat DEF ViewOK, PlayState, Evals, Frames, Dyns, Regions, Scalars

LEMMA One ==
  ASSUME NEW a \in Addr
  PROVE  <<a>> \in Seq(Addr) /\ Len(<<a>>) = 1 /\ <<a>>[1] = a
OBVIOUS

\* The sections as the layout has them.
LEMMA Sections ==
  ASSUME NEW v
  PROVE  /\ Sec(v, 1) = <<v.scalar["pc"]>> /\ Sec(v, 2) = <<v.scalar["pc_bank"]>>
         /\ Sec(v, 3) = <<v.scalar["globals_base"]>>
         /\ Sec(v, 4) = <<Evals(v)>> /\ Sec(v, 5) = v.content["eval"]
         /\ Sec(v, 6) = <<Frames(v)>> /\ Sec(v, 7) = v.content["frames"]
         /\ Sec(v, 8) = <<v.scalar["rand"]>>
         /\ Sec(v, 9) = <<Dyns(v)>> /\ Sec(v, 10) = v.content["dyn"]
BY LayoutIs DEF Sec, Evals, Frames, Dyns

LEMMA Starting ==
  ASSUME NEW v
  PROVE  /\ Start(v, 1) = 0 /\ Start(v, 2) = 1 /\ Start(v, 3) = 2 /\ Start(v, 4) = 3
         /\ Start(v, 5) = 4
         /\ Start(v, 6) = 4 + Evals(v)
         /\ Start(v, 7) = 5 + Evals(v)
         /\ Start(v, 8) = 5 + Evals(v) + Frames(v)
         /\ Start(v, 9) = 6 + Evals(v) + Frames(v)
         /\ Start(v, 10) = 7 + Evals(v) + Frames(v)
         /\ Start(v, 11) = 7 + Evals(v) + Frames(v) + Dyns(v)
BY DEF Start

\* The cells section by section.
LEMMA CellsOf ==
  ASSUME NEW v, ViewOK(v)
  PROVE  /\ CellAt(v, 1) = v.scalar["pc"] /\ CellAt(v, 2) = v.scalar["pc_bank"]
         /\ CellAt(v, 3) = v.scalar["globals_base"] /\ CellAt(v, 4) = Evals(v)
         /\ \A i \in 1 .. Evals(v) : CellAt(v, 4 + i) = v.content["eval"][i]
         /\ CellAt(v, 5 + Evals(v)) = Frames(v)
         /\ \A i \in 1 .. Frames(v) : CellAt(v, 5 + Evals(v) + i) = v.content["frames"][i]
         /\ CellAt(v, 6 + Evals(v) + Frames(v)) = v.scalar["rand"]
         /\ CellAt(v, 7 + Evals(v) + Frames(v)) = Dyns(v)
         /\ \A i \in 1 .. Dyns(v) :
              CellAt(v, 7 + Evals(v) + Frames(v) + i) = v.content["dyn"][i]
<1> DEFINE e == Evals(v)
           f == Frames(v)
           d == Dyns(v)
           x == v.content["eval"]
           y == v.content["frames"]
           z == v.content["dyn"]
           p == v.scalar["pc"]
           q == v.scalar["pc_bank"]
           r == v.scalar["globals_base"]
           s == v.scalar["rand"]
<1>1. e \in Nat /\ f \in Nat /\ d \in Nat
  BY ViewFields
<1>2. \A j : CellAt(v, j) =
        IF j = 1 THEN p ELSE IF j = 2 THEN q ELSE IF j = 3 THEN r ELSE IF j = 4 THEN e
        ELSE IF j <= 4 + e THEN x[j - 4] ELSE IF j = 5 + e THEN f
        ELSE IF j <= 5 + e + f THEN y[j - (5 + e)] ELSE IF j = 6 + e + f THEN s
        ELSE IF j = 7 + e + f THEN d ELSE z[j - (7 + e + f)]
  BY DEF CellAt
<1> HIDE DEF e, f, d, x, y, z, p, q, r, s
<1>3. /\ CellAt(v, 1) = p /\ CellAt(v, 2) = q /\ CellAt(v, 3) = r /\ CellAt(v, 4) = e
      /\ CellAt(v, 5 + e) = f /\ CellAt(v, 6 + e + f) = s /\ CellAt(v, 7 + e + f) = d
  BY <1>1, <1>2
<1>4. ASSUME NEW i \in 1 .. e
      PROVE  CellAt(v, 4 + i) = x[i]
  <2>1. (4 + i) - 4 = i /\ 4 + i > 4 /\ 4 + i <= 4 + e
    BY <1>1
  <2> QED
    BY <1>1, <1>2, <2>1
<1>5. ASSUME NEW i \in 1 .. f
      PROVE  CellAt(v, 5 + e + i) = y[i]
  <2>1. (5 + e + i) - (5 + e) = i /\ 5 + e + i > 5 + e /\ 5 + e + i <= 5 + e + f
    BY <1>1
  <2> QED
    BY <1>1, <1>2, <2>1
<1>6. ASSUME NEW i \in 1 .. d
      PROVE  CellAt(v, 7 + e + f + i) = z[i]
  <2>1. (7 + e + f + i) - (7 + e + f) = i /\ 7 + e + f + i > 7 + e + f
    BY <1>1
  <2> QED
    BY <1>1, <1>2, <2>1
<1> QED
  BY <1>3, <1>4, <1>5, <1>6 DEF e, f, d, x, y, z, p, q, r, s

LEMMA StartsRise ==
  ASSUME NEW v, ViewOK(v), NEW k \in 1 .. 10
  PROVE  /\ Start(v, k) \in Nat /\ Start(v, k + 1) \in Nat
         /\ Start(v, k) <= Start(v, k + 1) /\ Start(v, k + 1) <= Start(v, 11)
<1>1. Evals(v) \in Nat /\ Frames(v) \in Nat /\ Dyns(v) \in Nat
  BY ViewFields
<1> QED
  BY <1>1 DEF Start

\* What section k, with section n behind it, is in the file.
SecIs(v, k, n) ==
  /\ Sec(v, k) \in Seq(Addr)
  /\ Start(v, k) + Len(Sec(v, k)) = Start(v, n)
  /\ \A i \in 1 .. Len(Sec(v, k)) : Sec(v, k)[i] = CellAt(v, Start(v, k) + i)

LEMMA SingleOK ==
  ASSUME NEW v, NEW k, NEW n, Start(v, k) \in Nat, Start(v, n) = Start(v, k) + 1,
         CellAt(v, Start(v, n)) \in Addr, Sec(v, k) = <<CellAt(v, Start(v, n))>>
  PROVE  SecIs(v, k, n)
<1>1. Sec(v, k) \in Seq(Addr) /\ Len(Sec(v, k)) = 1 /\ Sec(v, k)[1] = CellAt(v, Start(v, n))
  BY One
<1>2. \A i \in 1 .. 1 : i = 1
  OBVIOUS
<1> QED
  BY <1>1, <1>2 DEF SecIs

LEMMA SecCells ==
  ASSUME NEW v, ViewOK(v), NEW k \in 1 .. 10
  PROVE  SecIs(v, k, k + 1)
<1>1. /\ Evals(v) \in Addr /\ Frames(v) \in Addr /\ Dyns(v) \in Addr
      /\ v.scalar["pc"] \in Addr /\ v.scalar["pc_bank"] \in Addr
      /\ v.scalar["globals_base"] \in Addr /\ v.scalar["rand"] \in Addr
      /\ \A r \in Regions : v.content[r] \in Seq(Addr)
  BY ViewFields DEF Scalars
<1>2. Evals(v) \in Nat /\ Frames(v) \in Nat /\ Dyns(v) \in Nat
  BY ViewFields
<1>3. SecIs(v, 1, 2)
  <2>1. CellAt(v, Start(v, 2)) = v.scalar["pc"]
    BY Starting, CellsOf
  <2>2. Sec(v, 1) = <<v.scalar["pc"]>>
    BY Sections
  <2>3. Start(v, 2) = Start(v, 1) + 1 /\ Start(v, 1) \in Nat
    BY <1>2, Starting
  <2> QED
    BY <1>1, <2>1, <2>2, <2>3, SingleOK
<1>4. SecIs(v, 2, 3)
  <2>1. CellAt(v, Start(v, 3)) = v.scalar["pc_bank"]
    BY Starting, CellsOf
  <2>2. Sec(v, 2) = <<v.scalar["pc_bank"]>>
    BY Sections
  <2>3. Start(v, 3) = Start(v, 2) + 1 /\ Start(v, 2) \in Nat
    BY <1>2, Starting
  <2> QED
    BY <1>1, <2>1, <2>2, <2>3, SingleOK
<1>5. SecIs(v, 3, 4)
  <2>1. CellAt(v, Start(v, 4)) = v.scalar["globals_base"]
    BY Starting, CellsOf
  <2>2. Sec(v, 3) = <<v.scalar["globals_base"]>>
    BY Sections
  <2>3. Start(v, 4) = Start(v, 3) + 1 /\ Start(v, 3) \in Nat
    BY <1>2, Starting
  <2> QED
    BY <1>1, <2>1, <2>2, <2>3, SingleOK
<1>6. SecIs(v, 4, 5)
  <2>1. CellAt(v, Start(v, 5)) = Evals(v)
    BY Starting, CellsOf
  <2>2. Sec(v, 4) = <<Evals(v)>>
    BY Sections
  <2>3. Start(v, 5) = Start(v, 4) + 1 /\ Start(v, 4) \in Nat
    BY <1>2, Starting
  <2> QED
    BY <1>1, <2>1, <2>2, <2>3, SingleOK
<1>7. SecIs(v, 5, 6)
  <2>1. Sec(v, 5) = v.content["eval"] /\ Len(Sec(v, 5)) = Evals(v) /\ Sec(v, 5) \in Seq(Addr)
    BY <1>1, Sections DEF Evals, Regions
  <2>2. Start(v, 5) \in Nat /\ Start(v, 6) = Start(v, 5) + Evals(v)
    BY <1>2, Starting
  <2>3. \A i \in 1 .. Evals(v) : CellAt(v, Start(v, 5) + i) = v.content["eval"][i]
    BY Starting, CellsOf
  <2> QED
    BY <2>1, <2>2, <2>3 DEF SecIs
<1>8. SecIs(v, 6, 7)
  <2>1. CellAt(v, Start(v, 7)) = Frames(v)
    BY Starting, CellsOf
  <2>2. Sec(v, 6) = <<Frames(v)>>
    BY Sections
  <2>3. Start(v, 7) = Start(v, 6) + 1 /\ Start(v, 6) \in Nat
    BY <1>2, Starting
  <2> QED
    BY <1>1, <2>1, <2>2, <2>3, SingleOK
<1>9. SecIs(v, 7, 8)
  <2>1. Sec(v, 7) = v.content["frames"] /\ Len(Sec(v, 7)) = Frames(v) /\ Sec(v, 7) \in Seq(Addr)
    BY <1>1, Sections DEF Frames, Regions
  <2>2. Start(v, 7) \in Nat /\ Start(v, 8) = Start(v, 7) + Frames(v)
    BY <1>2, Starting
  <2>3. \A i \in 1 .. Frames(v) : CellAt(v, Start(v, 7) + i) = v.content["frames"][i]
    BY Starting, CellsOf
  <2> QED
    BY <2>1, <2>2, <2>3 DEF SecIs
<1>10. SecIs(v, 8, 9)
  <2>1. CellAt(v, Start(v, 9)) = v.scalar["rand"]
    BY Starting, CellsOf
  <2>2. Sec(v, 8) = <<v.scalar["rand"]>>
    BY Sections
  <2>3. Start(v, 9) = Start(v, 8) + 1 /\ Start(v, 8) \in Nat
    BY <1>2, Starting
  <2> QED
    BY <1>1, <2>1, <2>2, <2>3, SingleOK
<1>11. SecIs(v, 9, 10)
  <2>1. CellAt(v, Start(v, 10)) = Dyns(v)
    BY Starting, CellsOf
  <2>2. Sec(v, 9) = <<Dyns(v)>>
    BY Sections
  <2>3. Start(v, 10) = Start(v, 9) + 1 /\ Start(v, 9) \in Nat
    BY <1>2, Starting
  <2> QED
    BY <1>1, <2>1, <2>2, <2>3, SingleOK
<1>12. SecIs(v, 10, 11)
  <2>1. Sec(v, 10) = v.content["dyn"] /\ Len(Sec(v, 10)) = Dyns(v) /\ Sec(v, 10) \in Seq(Addr)
    BY <1>1, Sections DEF Dyns, Regions
  <2>2. Start(v, 10) \in Nat /\ Start(v, 11) = Start(v, 10) + Dyns(v)
    BY <1>2, Starting
  <2>3. \A i \in 1 .. Dyns(v) : CellAt(v, Start(v, 10) + i) = v.content["dyn"][i]
    BY Starting, CellsOf
  <2> QED
    BY <2>1, <2>2, <2>3 DEF SecIs
<1>13. k = 1 \/ k = 2 \/ k = 3 \/ k = 4 \/ k = 5 \/ k = 6 \/ k = 7 \/ k = 8 \/ k = 9 \/ k = 10
  OBVIOUS
<1>14. /\ 1 + 1 = 2 /\ 2 + 1 = 3 /\ 3 + 1 = 4 /\ 4 + 1 = 5 /\ 5 + 1 = 6 /\ 6 + 1 = 7
       /\ 7 + 1 = 8 /\ 8 + 1 = 9 /\ 9 + 1 = 10 /\ 10 + 1 = 11
  OBVIOUS
<1> QED
  BY <1>3, <1>4, <1>5, <1>6, <1>7, <1>8, <1>9, <1>10, <1>11, <1>12, <1>13, <1>14

-----------------------------------------------------------------------------
(* The file grows section by section and may be cut anywhere.              *)

LEMMA SecOK ==
  ASSUME NEW v, ViewOK(v), NEW k \in 1 .. 10
  PROVE  /\ Sec(v, k) \in Seq(Addr) /\ Len(Sec(v, k)) \in Nat
         /\ Start(v, k) \in Nat /\ Start(v, k) + Len(Sec(v, k)) = Start(v, k + 1)
         /\ Start(v, k + 1) \in Nat /\ Start(v, k + 1) <= Start(v, 11)
         /\ \A i \in 1 .. Len(Sec(v, k)) : Sec(v, k)[i] = CellAt(v, Start(v, k) + i)
<1>1. /\ Sec(v, k) \in Seq(Addr) /\ Start(v, k) + Len(Sec(v, k)) = Start(v, k + 1)
      /\ \A i \in 1 .. Len(Sec(v, k)) : Sec(v, k)[i] = CellAt(v, Start(v, k) + i)
  BY SecCells DEF SecIs
<1>2. /\ Start(v, k) \in Nat /\ Start(v, k + 1) \in Nat
      /\ Start(v, k + 1) <= Start(v, 11)
  BY StartsRise
<1> DEFINE s == Sec(v, k)
<1>3. s \in Seq(Addr)
  BY <1>1
<1> HIDE DEF s
<1>4. Len(s) \in Nat
  BY <1>3
<1> QED
  BY <1>1, <1>2, <1>4 DEF s

LEMMA Appended ==
  ASSUME NEW a \in Seq(Addr), NEW b \in Seq(Addr)
  PROVE  /\ a \o b \in Seq(Addr) /\ Len(a \o b) = Len(a) + Len(b)
         /\ \A j \in 1 .. Len(a) : (a \o b)[j] = a[j]
         /\ \A i \in 1 .. Len(b) : (a \o b)[Len(a) + i] = b[i]
OBVIOUS

LEMMA Cut ==
  ASSUME NEW a \in Seq(Addr), NEW n \in 0 .. Len(a)
  PROVE  /\ SubSeq(a, 1, n) \in Seq(Addr) /\ Len(SubSeq(a, 1, n)) = n
         /\ \A j \in 1 .. n : SubSeq(a, 1, n)[j] = a[j]
OBVIOUS

LEMMA BeginsCut ==
  ASSUME NEW v, ViewOK(v), NEW cells, Begins(cells, v), NEW n \in 0 .. Len(cells)
  PROVE  Begins(SubSeq(cells, 1, n), v)
<1>1. Start(v, 11) \in Nat
  BY StartsRise
<1> QED
  BY <1>1, Cut DEF Begins

LEMMA BeginsMore ==
  ASSUME NEW v, ViewOK(v), NEW cells, Begins(cells, v), NEW k \in 1 .. 10,
         Len(cells) = Start(v, k), NEW n \in 0 .. Len(Sec(v, k))
  PROVE  /\ Begins(cells \o SubSeq(Sec(v, k), 1, n), v)
         /\ Len(cells \o SubSeq(Sec(v, k), 1, n)) = Start(v, k) + n
<1> DEFINE b == SubSeq(Sec(v, k), 1, n)
           g == cells \o b
           o == Len(cells)
<1>1. /\ Sec(v, k) \in Seq(Addr) /\ o \in Nat /\ o + Len(Sec(v, k)) <= Start(v, 11)
      /\ Start(v, 11) \in Nat /\ Len(Sec(v, k)) \in Nat
      /\ \A i \in 1 .. Len(Sec(v, k)) : Sec(v, k)[i] = CellAt(v, o + i)
  <2>1. Start(v, 11) \in Nat
    BY StartsRise
  <2> QED
    BY <2>1, SecOK
<1>2. b \in Seq(Addr) /\ Len(b) = n /\ \A i \in 1 .. n : b[i] = Sec(v, k)[i]
  BY <1>1, Cut
<1>3. cells \in Seq(Addr) /\ \A j \in 1 .. o : cells[j] = CellAt(v, j)
  BY DEF Begins
<1> HIDE DEF b
<1>4. /\ g \in Seq(Addr) /\ Len(g) = o + n
      /\ \A j \in 1 .. o : g[j] = cells[j]
      /\ \A i \in 1 .. n : g[o + i] = b[i]
  BY <1>2, <1>3, Appended
<1> HIDE DEF g, o
<1>5. \A j \in 1 .. Len(g) : g[j] = CellAt(v, j)
  <2> TAKE j \in 1 .. Len(g)
  <2>1. CASE j \in 1 .. o
    BY <1>3, <1>4, <2>1
  <2>2. CASE ~ (j \in 1 .. o)
    <3> DEFINE i == j - o
    <3>1. i \in 1 .. n /\ i \in 1 .. Len(Sec(v, k)) /\ o + i = j
      BY <1>1, <1>4, <2>2
    <3> HIDE DEF i
    <3>2. g[o + i] = CellAt(v, o + i)
      BY <1>1, <1>2, <1>4, <3>1
    <3> QED
      BY <3>1, <3>2
  <2> QED
    BY <2>1, <2>2
<1>6. Len(g) <= Start(v, 11)
  BY <1>1, <1>4
<1> QED
  BY <1>4, <1>5, <1>6 DEF Begins, g, b, o

\* What K_FILE_READ transfers: cells up to the end of the file.
LEMMA MinOf ==
  ASSUME NEW a \in Int, NEW b \in Int
  PROVE  Min({a, b}) = IF a <= b THEN a ELSE b
<1> DEFINE c == IF a <= b THEN a ELSE b
<1>1. c \in {a, b} /\ \A y \in {a, b} : c <= y
  OBVIOUS
<1>2. \A x \in {a, b} : (\A y \in {a, b} : x <= y) => x = c
  OBVIOUS
<1>3. Min({a, b}) \in {a, b} /\ \A y \in {a, b} : Min({a, b}) <= y
  <2> HIDE DEF c
  <2> QED
    BY <1>1 DEF Min
<1> HIDE DEF c
<1>4. Min({a, b}) = c
  BY <1>2, <1>3
<1> QED
  BY <1>4 DEF c

LEMMA CellsAre ==
  ASSUME file \in Seq(Addr), pos \in 0 .. Len(file), NEW n \in Nat
  PROVE  /\ Cells(n) \in Seq(Addr)
         /\ Len(Cells(n)) = IF pos + n <= Len(file) THEN n ELSE Len(file) - pos
         /\ \A i \in 1 .. Len(Cells(n)) : Cells(n)[i] = file[pos + i]
<1>1. pos \in Nat /\ Len(file) \in Nat
  OBVIOUS
<1>2. CASE pos + n <= Len(file)
  <2>1. Cells(n) = SubSeq(file, pos + 1, pos + n)
    BY <1>1, <1>2, MinOf DEF Cells
  <2> QED
    BY <1>1, <1>2, <2>1
<1>3. CASE ~ (pos + n <= Len(file))
  <2>1. Cells(n) = SubSeq(file, pos + 1, Len(file))
    BY <1>1, <1>3, MinOf DEF Cells
  <2> QED
    BY <1>1, <1>3, <2>1
<1> QED
  BY <1>2, <1>3

\* The cells asked for by a section's own length are that section, or the
\* file ends before it does.
LEMMA SectionRead ==
  ASSUME NEW v, ViewOK(v), Begins(file, v), NEW k \in 1 .. 10,
         pos = Start(v, k), pos <= Len(file), NEW n, n = Len(Sec(v, k))
  PROVE  /\ Cells(n) \in Seq(Addr) /\ Len(Cells(n)) <= n
         /\ pos + Len(Cells(n)) \in 0 .. Len(file)
         /\ Len(Cells(n)) < n => pos + Len(Cells(n)) = Len(file)
         /\ ~ (Len(Cells(n)) < n) => Cells(n) = Sec(v, k) /\ pos + Len(Cells(n)) = Start(v, k + 1)
<1> DEFINE c == Cells(n)
           b == Sec(v, k)
<1>1. /\ b \in Seq(Addr) /\ n \in Nat /\ pos \in Nat /\ pos + n = Start(v, k + 1)
      /\ \A i \in 1 .. n : b[i] = CellAt(v, pos + i)
  BY SecOK
<1>2. file \in Seq(Addr) /\ Len(file) \in Nat /\ \A j \in 1 .. Len(file) : file[j] = CellAt(v, j)
  BY DEF Begins
<1>3. /\ c \in Seq(Addr) /\ Len(c) = IF pos + n <= Len(file) THEN n ELSE Len(file) - pos
      /\ \A i \in 1 .. Len(c) : c[i] = file[pos + i]
  <2>1. pos \in 0 .. Len(file)
    BY <1>1, <1>2
  <2> QED
    BY <1>1, <1>2, <2>1, CellsAre
<1>4. Len(b) = n
  OBVIOUS
<1> HIDE DEF c, b
<1>5. /\ Len(c) <= n /\ pos + Len(c) \in 0 .. Len(file)
      /\ Len(c) < n => pos + Len(c) = Len(file)
  BY <1>1, <1>2, <1>3
<1>6. ASSUME ~ (Len(c) < n)
      PROVE  c = b /\ pos + Len(c) = Start(v, k + 1)
  <2>1. Len(c) = n /\ pos + n <= Len(file)
    BY <1>1, <1>2, <1>3, <1>6
  <2>2. \A i \in 1 .. n : c[i] = b[i]
    <3> TAKE i \in 1 .. n
    <3>1. pos + i \in 1 .. Len(file) /\ i \in 1 .. Len(c)
      BY <1>1, <1>2, <2>1
    <3> QED
      BY <1>1, <1>2, <1>3, <3>1
  <2>3. c = b
    <3>1. c \in Seq(Addr) /\ Len(c) = Len(b)
      BY <1>3, <1>4, <2>1
    <3>2. \A i \in 1 .. Len(c) : c[i] = b[i]
      BY <2>1, <2>2
    <3> QED
      BY <1>1, <3>1, <3>2, SeqEqual
  <2> QED
    BY <1>1, <2>1, <2>3
<1> QED
  BY <1>3, <1>5, <1>6 DEF c, b

-----------------------------------------------------------------------------
(* The inductive invariant.                                                *)

\* Interpreter memory under a story: no step changes the size of a region.
Shape(x, st) ==
  /\ x \in [scalar : [Scalars -> Addr], top : [Regions -> Addr], mem : [Regions -> Seq(Addr)]]
  /\ \A r \in Regions : Len(x.mem[r]) = Capacity(st)[r]

MemOK == story \in Stories /\ scratch \in Addr /\ Shape(m, story)

\* The last save was of a state of play that its story's regions hold.
LastOK == last.story \in Stories /\ ViewOK(last.view) /\ Fits(last.view, last.story)

\* Region r of memory x begins with the content that view v has there.
Holds(x, r, v) ==
  \A i \in 1 .. Len(v.content[r]) :
    i \in 1 .. Len(x.mem[r]) => x.mem[r][i] = v.content[r][i]

\* What complete reads of the sections before k have put back of v, in memory x
\* and, between a length and its content, in zds_scratch (s).
PutBack(x, s, v, k) ==
  /\ k >= 2 => x.scalar["pc"] = v.scalar["pc"]
  /\ k >= 3 => x.scalar["pc_bank"] = v.scalar["pc_bank"]
  /\ k >= 4 => x.scalar["globals_base"] = v.scalar["globals_base"]
  /\ k = 5 => s = Base["eval"] + Evals(v)
  /\ k >= 6 => x.top["eval"] = Base["eval"] + Evals(v) /\ Holds(x, "eval", v)
  /\ k = 7 => s = Base["frames"] + Frames(v)
  /\ k >= 8 => x.top["frames"] = Base["frames"] + Frames(v) /\ Holds(x, "frames", v)
  /\ k >= 9 => x.scalar["rand"] = v.scalar["rand"]
  /\ k >= 10 => x.top["dyn"] = Dyns(v)
  /\ k >= 11 => Holds(x, "dyn", v)

FileOK == file = NoFile \/ (LastOK /\ Begins(file, last.view))

\* A save has written the sections before `at', and nothing has moved since it
\* began; a restore has put back the sections before `at', or has met the end
\* of the file and stays there.
Saving ==
  /\ phase = "saving" /\ at \in 1 .. 11 /\ pos = 0 /\ short = FALSE
  /\ LastOK /\ Begins(file, last.view)
  /\ last.story = story /\ WellFormed /\ last.view = View
  /\ Len(file) = Start(last.view, at)

Restoring ==
  /\ phase = "restoring" /\ at \in 1 .. 11 /\ pos \in 0 .. Len(file) /\ short \in BOOLEAN
  /\ LastOK /\ Begins(file, last.view)
  /\ short => pos = Len(file)
  /\ ~ short => pos = Start(last.view, at) /\ PutBack(m, scratch, last.view, at)

Telling == phase = "story" /\ at = 1 /\ pos = 0 /\ short = FALSE

HookOK == Telling \/ Saving \/ Restoring

IInv == MemOK /\ FileOK /\ HookOK

-----------------------------------------------------------------------------
LEMMA OverlayIs ==
  ASSUME NEW a \in Seq(Addr), NEW b \in Seq(Addr)
  PROVE  /\ Overlay(a, b) \in Seq(Addr) /\ Len(Overlay(a, b)) = Len(a)
         /\ \A i \in 1 .. Len(b) : i \in 1 .. Len(a) => Overlay(a, b)[i] = b[i]
<1>1. Len(a) \in Nat /\ Len(b) \in Nat
  OBVIOUS
<1>2. \A i \in 1 .. Len(a) : (IF i <= Len(b) THEN b[i] ELSE a[i]) \in Addr
  <2> TAKE i \in 1 .. Len(a)
  <2>1. a[i] \in Addr
    OBVIOUS
  <2>2. i <= Len(b) => b[i] \in Addr
    BY <1>1
  <2> QED
    BY <2>1, <2>2
<1>3. Overlay(a, b) = [i \in 1 .. Len(a) |-> IF i <= Len(b) THEN b[i] ELSE a[i]]
  BY DEF Overlay
<1> DEFINE o == Overlay(a, b)
<1>4. o \in [1 .. Len(a) -> Addr]
  BY <1>2, <1>3
<1> HIDE DEF o
<1>5. o \in Seq(Addr) /\ Len(o) = Len(a)
  BY <1>1, <1>4
<1>6. \A i \in 1 .. Len(b) : i \in 1 .. Len(a) => o[i] = b[i]
  BY <1>1, <1>3 DEF o
<1> QED
  BY <1>5, <1>6 DEF o

LEMMA AddrMods ==
  /\ 0 \in Addr
  /\ \A x \in Int : x % AddrMod \in Addr
  /\ \A x \in Addr : x % AddrMod = x
BY AddrNat DEF Addr

LEMMA BaseIs ==
  /\ \A r \in Regions : Base[r] \in Addr /\ Base[r] \in Nat
  /\ Base["dyn"] = 0
  /\ \A n \in 0 .. StackCap : Base["eval"] + n \in Addr /\ Base["frames"] + n \in Addr
<1>1. /\ \A r \in Regions : Base[r] \in Addr /\ Base[r] \in Nat
      /\ Base["dyn"] = 0 /\ StackCap \in Nat
  BY BaseAssumption, SizesAssumption, AddrNat
<1>2. /\ Base["eval"] + StackCap < AddrMod /\ Base["frames"] + StackCap < AddrMod
      /\ Base["eval"] \in Nat /\ Base["frames"] \in Nat
  BY <1>1, BaseAssumption DEF Regions
<1>3. \A n \in 0 .. StackCap : Base["eval"] + n \in Addr /\ Base["frames"] + n \in Addr
  BY <1>1, <1>2, AddrNat DEF Addr
<1> QED
  BY <1>1, <1>3

LEMMA Capacities ==
  ASSUME NEW st \in Stories
  PROVE  /\ \A r \in Regions : Capacity(st)[r] \in Nat
         /\ Capacity(st)["eval"] = StackCap /\ Capacity(st)["frames"] = StackCap
         /\ Capacity(st)["dyn"] = DynSize[st] /\ DynSize[st] \in Addr
BY SizesAssumption, AddrNat DEF Capacity, Regions

\* A restarted interpreter, and a story that goes on, has memory of its shape.
LEMMA LoadedOK ==
  ASSUME NEW st \in Stories, NEW v \in Played[st]
  PROVE  Shape(Loaded(st, v), st)
<1>1. v \in PlayState /\ \A r \in Regions : v.content[r] \in Seq(Addr)
  BY PlayedAssumption DEF PlayState
<1>2. v.scalar \in [Scalars -> Addr]
  BY <1>1 DEF PlayState
<1>3. \A r \in Regions : (Base[r] + Len(v.content[r])) % AddrMod \in Addr
  <2> TAKE r \in Regions
  <2>1. Len(v.content[r]) \in Nat /\ Base[r] \in Nat
    BY <1>1, BaseIs
  <2> QED
    BY <2>1, AddrMods
<1>4. \A r \in Regions :
        LET o == Overlay([k \in 1 .. Capacity(st)[r] |-> 0], v.content[r])
        IN o \in Seq(Addr) /\ Len(o) = Capacity(st)[r]
  <2> TAKE r \in Regions
  <2> DEFINE c == Capacity(st)[r]
             z == [k \in 1 .. c |-> 0]
  <2>1. c \in Nat
    BY Capacities
  <2> HIDE DEF c
  <2>2. z \in Seq(Addr) /\ Len(z) = c
    BY <2>1, AddrMods
  <2> HIDE DEF z
  <2>3. Overlay(z, v.content[r]) \in Seq(Addr) /\ Len(Overlay(z, v.content[r])) = c
    BY <1>1, <2>2, OverlayIs
  <2> QED
    BY <2>3 DEF z, c
<1> QED
  BY <1>2, <1>3, <1>4 DEF Loaded, Shape

LEMMA MemFields ==
  ASSUME MemOK
  PROVE  /\ \A s \in Scalars : m.scalar[s] \in Addr
         /\ \A r \in Regions : m.top[r] \in Addr /\ m.mem[r] \in Seq(Addr)
         /\ \A r \in Regions : Len(m.mem[r]) = Capacity(story)[r]
         /\ \A r \in Regions : Length(r) \in Addr /\ Length(r) \in Nat
<1>1. /\ \A s \in Scalars : m.scalar[s] \in Addr
      /\ \A r \in Regions : m.top[r] \in Addr /\ m.mem[r] \in Seq(Addr)
      /\ \A r \in Regions : Len(m.mem[r]) = Capacity(story)[r]
  BY DEF MemOK, Shape
<1>2. \A r \in Regions : m.top[r] - Base[r] \in Int
  BY <1>1, BaseIs, AddrNat
<1>3. \A r \in Regions : Length(r) \in Addr
  BY <1>2, AddrMods DEF Length
<1> QED
  BY <1>1, <1>3, AddrNat

\* What a save writes is the state of play it is called in.
LEMMA ViewIs ==
  ASSUME MemOK, WellFormed
  PROVE  /\ ViewOK(View) /\ Fits(View, story)
         /\ \A k \in 1 .. 10 : Section(k) = Sec(View, k)
<1> DEFINE w == View
<1>1. \A r \in Regions : /\ w.content[r] = SubSeq(m.mem[r], 1, Length(r))
                          /\ w.content[r] \in Seq(Addr) /\ Len(w.content[r]) = Length(r)
  <2> TAKE r \in Regions
  <2>1. w.content[r] = SubSeq(m.mem[r], 1, Length(r))
    BY DEF View
  <2>2. m.mem[r] \in Seq(Addr) /\ Length(r) \in 0 .. Len(m.mem[r])
    <3>1. /\ Length(r) \in Nat /\ Len(m.mem[r]) = Capacity(story)[r]
          /\ m.mem[r] \in Seq(Addr)
      BY MemFields
    <3>2. Length(r) <= Capacity(story)[r]
      BY DEF WellFormed
    <3>3. Len(m.mem[r]) \in Nat
      BY <3>1
    <3> QED
      BY <3>1, <3>2, <3>3
  <2> QED
    BY <2>1, <2>2, Cut
<1>2. w.scalar = m.scalar /\ w.scalar \in [Scalars -> Addr]
  BY DEF View, MemOK, Shape
<1>3. w \in PlayState
  <2>1. [r \in Regions |-> SubSeq(m.mem[r], 1, Length(r))] \in [Regions -> Seq(Addr)]
    BY <1>1
  <2> QED
    BY <1>2, <2>1 DEF View, PlayState
<1>4. ViewOK(w)
  BY <1>1, <1>3, MemFields DEF ViewOK
<1>5. Fits(w, story)
  BY <1>1 DEF Fits, WellFormed
<1>6. \A k \in 1 .. 10 : Section(k) = Sec(w, k)
  <2> TAKE k \in 1 .. 10
  <2>1. Layout[k].of \in Scalars \/ Layout[k].of \in Regions
    BY LayoutIs DEF Scalars, Regions
  <2>2. Layout[k].kind # "scalar" => Layout[k].of \in Regions
    BY LayoutIs DEF Regions
  <2> HIDE DEF w
  <2>3. CASE Layout[k].kind = "scalar"
    BY <1>2, <2>3 DEF Section, Sec
  <2>4. CASE Layout[k].kind = "length"
    BY <1>1, <2>2, <2>4 DEF Section, Sec
  <2>5. CASE Layout[k].kind = "content"
    BY <1>1, <2>2, <2>5 DEF Section, Sec
  <2>6. Layout[k].kind \in {"scalar", "length", "content"}
    BY LayoutIs
  <2> QED
    BY <2>3, <2>4, <2>5, <2>6
<1> QED
  BY <1>4, <1>5, <1>6

\* Nothing but the memory and the story file says what a save would write, and
\* whether the story may go on.
LEMMA SameView ==
  ASSUME UNCHANGED <<m, story, overrun>>
  PROVE  /\ View' = View /\ (WellFormed' <=> WellFormed)
BY DEF View, WellFormed, Length

LEMMA Whole ==
  ASSUME NEW a \in Seq(Addr)
  PROVE  SubSeq(a, 1, Len(a)) = a /\ Len(a) \in 0 .. Len(a)
OBVIOUS

\* A file that is complete up to section k, with section k behind it, is
\* complete up to section n.
LEMMA OneMore ==
  ASSUME NEW v, ViewOK(v), NEW cells, Begins(cells, v), NEW k \in 1 .. 10,
         Len(cells) = Start(v, k)
  PROVE  /\ Begins(cells \o Sec(v, k), v)
         /\ Len(cells \o Sec(v, k)) = Start(v, k + 1)
<1> DEFINE s == Sec(v, k)
<1>1. s \in Seq(Addr) /\ Start(v, k) + Len(s) = Start(v, k + 1)
  BY SecOK
<1>2. SubSeq(s, 1, Len(s)) = s /\ Len(s) \in 0 .. Len(s)
  <2> HIDE DEF s
  <2> QED
    BY <1>1, Whole
<1>3. /\ Begins(cells \o SubSeq(s, 1, Len(s)), v)
      /\ Len(cells \o SubSeq(s, 1, Len(s))) = Start(v, k) + Len(s)
  <2> DEFINE n == Len(s)
  <2>1. n \in 0 .. Len(Sec(v, k))
    BY <1>2
  <2> HIDE DEF n
  <2>2. /\ Begins(cells \o SubSeq(Sec(v, k), 1, n), v)
        /\ Len(cells \o SubSeq(Sec(v, k), 1, n)) = Start(v, k) + n
    BY <2>1, BeginsMore
  <2> QED
    BY <2>2 DEF n
<1> QED
  BY <1>1, <1>2, <1>3

\* Two files of one state of play that are equally long are the same.
LEMMA SameFile ==
  ASSUME NEW v, NEW a, NEW b, Begins(a, v), Begins(b, v), Len(a) = Len(b)
  PROVE  a = b
<1>1. a \in Seq(Addr) /\ b \in Seq(Addr) /\ \A j \in 1 .. Len(a) : a[j] = b[j]
  BY DEF Begins
<1> QED
  BY <1>1, SeqEqual

LEMMA Empty ==
  ASSUME NEW v, ViewOK(v)
  PROVE  Begins(<<>>, v) /\ Len(<<>>) = Start(v, 1)
<1>1. Start(v, 11) \in Nat
  BY StartsRise
<1> QED
  BY <1>1, Starting DEF Begins

\* The whole file of a state of play, section by section.
LEMMA WholeFile ==
  ASSUME NEW v, ViewOK(v)
  PROVE  LET f == Sec(v, 1) \o Sec(v, 2) \o Sec(v, 3) \o Sec(v, 4) \o Sec(v, 5) \o Sec(v, 6)
                    \o Sec(v, 7) \o Sec(v, 8) \o Sec(v, 9) \o Sec(v, 10)
         IN Begins(f, v) /\ Len(f) = Start(v, 11)
<1> DEFINE UpTo(f, k) == Begins(f, v) /\ Len(f) = Start(v, k)
<1>1. ASSUME NEW f, NEW k \in 1 .. 10, UpTo(f, k)
      PROVE  UpTo(f \o Sec(v, k), k + 1)
  BY <1>1, OneMore
<1>2. UpTo(Sec(v, 1), 2)
  <2>1. UpTo(<<>>, 1)
    BY Empty
  <2>2. <<>> \o Sec(v, 1) = Sec(v, 1)
    <3>1. Sec(v, 1) \in Seq(Addr)
      BY SecOK
    <3> QED
      BY <3>1
  <2> HIDE DEF UpTo
  <2>3. \A f : UpTo(f, 1) => UpTo(f \o Sec(v, 1), 1 + 1)
    BY <1>1
  <2>4. 1 + 1 = 2
    OBVIOUS
  <2> DEFINE z == <<>>
  <2>5. UpTo(z, 1) /\ z \o Sec(v, 1) = Sec(v, 1)
    BY <2>1, <2>2
  <2> HIDE DEF z
  <2> QED
    BY <2>3, <2>4, <2>5
<1> DEFINE f2 == Sec(v, 1) \o Sec(v, 2)
           f3 == f2 \o Sec(v, 3)
           f4 == f3 \o Sec(v, 4)
           f5 == f4 \o Sec(v, 5)
           f6 == f5 \o Sec(v, 6)
           f7 == f6 \o Sec(v, 7)
           f8 == f7 \o Sec(v, 8)
           f9 == f8 \o Sec(v, 9)
           f10 == f9 \o Sec(v, 10)
<1> HIDE DEF UpTo
<1>3. UpTo(f2, 2 + 1)
  BY <1>1, <1>2
<1>4. UpTo(f3, 3 + 1)
  <2> HIDE DEF f2
  <2> QED
    BY <1>1, <1>3
<1>5. UpTo(f4, 4 + 1)
  <2> HIDE DEF f3
  <2> QED
    BY <1>1, <1>4
<1>6. UpTo(f5, 5 + 1)
  <2> HIDE DEF f4
  <2> QED
    BY <1>1, <1>5
<1>7. UpTo(f6, 6 + 1)
  <2> HIDE DEF f5
  <2> QED
    BY <1>1, <1>6
<1>8. UpTo(f7, 7 + 1)
  <2> HIDE DEF f6
  <2> QED
    BY <1>1, <1>7
<1>9. UpTo(f8, 8 + 1)
  <2> HIDE DEF f7
  <2> QED
    BY <1>1, <1>8
<1>10. UpTo(f9, 9 + 1)
  <2> HIDE DEF f8
  <2> QED
    BY <1>1, <1>9
<1>11. UpTo(f10, 10 + 1)
  <2> HIDE DEF f9
  <2> QED
    BY <1>1, <1>10
<1> HIDE DEF f10
<1>12. UpTo(f10, 11)
  BY <1>11
<1> QED
  BY <1>12 DEF UpTo, f10

-----------------------------------------------------------------------------
(* The steps of a story and of a save.                                     *)

LEMMA InitHolds == Init => IInv
<1> SUFFICES ASSUME Init
             PROVE  IInv
  OBVIOUS
<1>1. MemOK
  <2>1. story \in Stories /\ scratch \in Addr
    BY GarbageAssumption DEF Init
  <2>2. PICK v \in Played[story] : m = Loaded(story, v)
    BY DEF Init
  <2> QED
    BY <2>1, <2>2, LoadedOK DEF MemOK
<1>2. FileOK /\ Telling
  BY DEF Init, FileOK, Telling
<1> QED
  BY <1>1, <1>2 DEF IInv, HookOK

LEMMA Resting ==
  ASSUME MemOK', FileOK', Idle
  PROVE  IInv'
<1>1. Telling'
  BY DEF Idle, Telling
<1> QED
  BY <1>1 DEF IInv, HookOK

LEMMA SameFileOK ==
  ASSUME FileOK, UNCHANGED <<file, last>>
  PROVE  FileOK'
BY DEF FileOK, LastOK

LEMMA CutFileOK ==
  ASSUME LastOK, Begins(file, last.view), UNCHANGED last,
         NEW n \in 0 .. Len(file), file' = SubSeq(file, 1, n)
  PROVE  FileOK'
<1>1. LastOK'
  BY DEF LastOK
<1>2. Begins(SubSeq(file, 1, n), last.view)
  BY BeginsCut DEF LastOK
<1> QED
  BY <1>1, <1>2 DEF FileOK

LEMMA SameMemOK ==
  ASSUME MemOK, UNCHANGED <<m, story>>, scratch' \in Addr
  PROVE  MemOK'
BY DEF MemOK

LEMMA PhaseIs ==
  ASSUME HookOK
  PROVE  /\ phase = "story" => Telling
         /\ phase = "saving" => Saving
         /\ phase = "restoring" => Restoring
BY DEF HookOK, Telling, Saving, Restoring

LEMMA PlayHolds ==
  ASSUME IInv, Play
  PROVE  IInv'
<1>1. MemOK'
  <2>1. PICK v \in Played[story] : m' = Loaded(story, v)
    BY DEF Play
  <2>2. story' = story /\ scratch' = scratch /\ story \in Stories /\ scratch \in Addr
    BY DEF Play, IInv, MemOK
  <2> QED
    BY <2>1, <2>2, LoadedOK DEF MemOK
<1>2. FileOK'
  BY SameFileOK DEF IInv, Play
<1>3. Telling'
  BY PhaseIs DEF IInv, Play, hook, Telling
<1> QED
  BY <1>1, <1>2, <1>3 DEF IInv, HookOK

LEMMA PowerLossHolds ==
  ASSUME IInv, PowerLoss
  PROVE  IInv'
<1>1. MemOK'
  <2>1. PICK v \in Played[story'] : m' = Loaded(story', v)
    BY DEF PowerLoss
  <2>2. story' \in Stories /\ scratch' \in Addr
    BY GarbageAssumption DEF PowerLoss
  <2> DEFINE st == story'
  <2>3. st \in Stories /\ v \in Played[st] /\ m' = Loaded(st, v)
    BY <2>1, <2>2
  <2> HIDE DEF st
  <2>4. Shape(m', st)
    BY <2>3, LoadedOK
  <2> QED
    BY <2>2, <2>4 DEF MemOK, st
<1>2. FileOK'
  <2>1. CASE phase # "saving" /\ file' = file
    BY <2>1, SameFileOK DEF IInv, PowerLoss
  <2>2. CASE phase = "saving" /\ \E n \in 0 .. Len(file) : file' = SubSeq(file, 1, n)
    <3>1. LastOK /\ Begins(file, last.view)
      BY <2>2, PhaseIs DEF IInv, Saving
    <3> QED
      BY <2>2, <3>1, CutFileOK DEF PowerLoss
  <2> QED
    BY <2>1, <2>2 DEF PowerLoss
<1> QED
  BY <1>1, <1>2, Resting DEF PowerLoss

LEMMA SaveOpenHolds ==
  ASSUME IInv, SaveOpen
  PROVE  IInv'
<1>1. MemOK /\ WellFormed /\ Telling
  BY PhaseIs DEF IInv, SaveOpen
<1>2. /\ m' = m /\ story' = story /\ scratch' = scratch
      /\ phase' = "saving" /\ at' = 1 /\ pos' = 0 /\ short' = FALSE
      /\ file' = <<>> /\ last'.story = story /\ last'.view = View
      /\ overrun' = overrun
  BY <1>1 DEF SaveOpen, machine, Telling
<1>3. MemOK'
  BY <1>1, <1>2 DEF MemOK
<1>4. /\ story \in Stories /\ ViewOK(View) /\ Fits(View, story)
      /\ Begins(<<>>, View) /\ Len(<<>>) = Start(View, 1)
  BY <1>1, ViewIs, Empty DEF MemOK
<1>5. View' = View /\ WellFormed'
  BY <1>1, <1>2, SameView
<1> DEFINE w == View
<1>6. /\ last'.view = w /\ View' = w /\ ViewOK(w) /\ Fits(w, story)
      /\ Begins(<<>>, w) /\ Len(<<>>) = Start(w, 1)
  BY <1>2, <1>4, <1>5
<1> HIDE DEF w
<1>7. LastOK' /\ Begins(file', last'.view) /\ Len(file') = Start(last'.view, at')
  BY <1>2, <1>4, <1>6 DEF LastOK
<1>8. Saving' /\ FileOK'
  BY <1>2, <1>5, <1>6, <1>7 DEF Saving, FileOK
<1> QED
  BY <1>3, <1>8 DEF IInv, HookOK

\* While saving: what section `at' is, and where its length passes through.
LEMMA SavingFacts ==
  ASSUME IInv, phase = "saving", at <= Len(Layout),
         scratch' = IF ThroughScratch(at) THEN Length(Layout[at].of) ELSE scratch
  PROVE  /\ MemOK /\ Saving /\ at \in 1 .. 10 /\ ViewOK(last.view)
         /\ Section(at) = Sec(last.view, at) /\ scratch' \in Addr
<1>1. MemOK /\ Saving
  BY PhaseIs DEF IInv
<1>2. at \in 1 .. 10
  BY <1>1, LayoutIs DEF Saving
<1>3. ViewOK(last.view) /\ Section(at) = Sec(last.view, at)
  BY <1>1, <1>2, ViewIs DEF Saving
<1>4. ThroughScratch(at) => Layout[at].of \in Regions
  BY <1>2, LayoutIs DEF ThroughScratch, Regions
<1>5. scratch' \in Addr
  BY <1>1, <1>4, MemFields DEF MemOK
<1> QED
  BY <1>1, <1>2, <1>3, <1>5

LEMMA SaveWriteHolds ==
  ASSUME IInv, SaveWrite
  PROVE  IInv'
<1>1. /\ MemOK /\ Saving /\ at \in 1 .. 10 /\ ViewOK(last.view)
      /\ Section(at) = Sec(last.view, at) /\ scratch' \in Addr
  BY SavingFacts DEF SaveWrite
<1>2. MemOK'
  BY <1>1, SameMemOK DEF SaveWrite
<1>3. /\ m' = m /\ story' = story /\ last' = last /\ phase' = phase /\ pos' = pos
      /\ short' = short /\ at' = at + 1 /\ file' = file \o Section(at)
      /\ overrun' = overrun
  BY DEF SaveWrite
<1>4. View' = View /\ WellFormed'
  BY <1>1, <1>3, SameView DEF Saving
<1>5. /\ Begins(file \o Sec(last.view, at), last.view)
      /\ Len(file \o Sec(last.view, at)) = Start(last.view, at + 1)
  BY <1>1, OneMore DEF Saving
<1>6. Begins(file', last'.view) /\ Len(file') = Start(last'.view, at')
  BY <1>1, <1>3, <1>5
<1>7. LastOK'
  BY <1>1, <1>3 DEF Saving, LastOK
<1>8. at' \in 1 .. 11
  BY <1>1, <1>3
<1>9. Saving' /\ FileOK'
  BY <1>1, <1>3, <1>4, <1>6, <1>7, <1>8 DEF Saving, FileOK
<1> QED
  BY <1>2, <1>9 DEF IInv, HookOK

LEMMA SaveFailHolds ==
  ASSUME IInv, SaveFail
  PROVE  IInv'
<1>1. /\ MemOK /\ Saving /\ at \in 1 .. 10 /\ ViewOK(last.view)
      /\ Section(at) = Sec(last.view, at) /\ scratch' \in Addr
  BY SavingFacts DEF SaveFail
<1>2. MemOK'
  BY <1>1, SameMemOK DEF SaveFail
<1>3. PICK n \in 0 .. Len(Sec(last.view, at)) :
        file' = file \o SubSeq(Sec(last.view, at), 1, n)
  BY <1>1 DEF SaveFail
<1>4. Begins(file \o SubSeq(Sec(last.view, at), 1, n), last.view)
  BY <1>1, BeginsMore DEF Saving
<1>5. LastOK' /\ last' = last
  BY <1>1 DEF Saving, LastOK, SaveFail
<1>6. FileOK'
  BY <1>3, <1>4, <1>5 DEF FileOK
<1> QED
  BY <1>2, <1>6, Resting DEF SaveFail

LEMMA SaveCloseHolds ==
  ASSUME IInv, SaveClose \/ SaveCloseFail
  PROVE  IInv'
<1>1. MemOK'
  BY DEF IInv, MemOK, SaveClose, SaveCloseFail, machine
<1>2. FileOK'
  <2>1. CASE SaveClose
    BY <2>1, SameFileOK DEF IInv, SaveClose
  <2>2. CASE SaveCloseFail
    <3>1. LastOK /\ Begins(file, last.view)
      BY <2>2, PhaseIs DEF IInv, Saving, SaveCloseFail
    <3> QED
      BY <2>2, <3>1, CutFileOK DEF SaveCloseFail
  <2> QED
    BY <2>1, <2>2
<1> QED
  BY <1>1, <1>2, Resting DEF SaveClose, SaveCloseFail

LEMMA RestoreOpenHolds ==
  ASSUME IInv, RestoreOpen
  PROVE  IInv'
<1>1. Telling /\ LastOK /\ Begins(file, last.view)
  BY PhaseIs DEF IInv, FileOK, RestoreOpen
<1>2. MemOK'
  BY DEF IInv, MemOK, RestoreOpen, machine
<1>3. /\ phase' = "restoring" /\ at' = 1 /\ pos' = 0 /\ short' = FALSE
      /\ file' = file /\ last' = last
  BY <1>1 DEF RestoreOpen, Telling
<1>4. pos' \in 0 .. Len(file') /\ at' \in 1 .. 11
  BY <1>1, <1>3 DEF Begins
<1>5. pos' = Start(last'.view, at')
  BY <1>3, Starting
<1>6. PutBack(m, scratch, last.view, at)'
  BY <1>3 DEF PutBack
<1>7. LastOK' /\ Begins(file', last'.view)
  BY <1>1, <1>3 DEF LastOK
<1>8. Restoring' /\ FileOK'
  BY <1>3, <1>4, <1>5, <1>6, <1>7 DEF Restoring, FileOK
<1> QED
  BY <1>2, <1>8 DEF IInv, HookOK

-----------------------------------------------------------------------------
(* The steps of a restore.                                                 *)

LEMMA LayoutKinds ==
  ASSUME NEW k \in 1 .. 10
  PROVE  /\ Layout[k].kind \in {"scalar", "length", "content"}
         /\ Layout[k].kind = "scalar" => Layout[k].of \in Scalars /\ k \in {1, 2, 3, 8}
         /\ Layout[k].kind = "length" => Layout[k].of \in Regions /\ k \in {4, 6, 9}
         /\ Layout[k].kind = "content" => Layout[k].of \in Regions /\ k \in {5, 7, 10}
BY LayoutIs DEF Scalars, Regions

\* What reading cells into a section's place changes of the memory.
LEMMA PutIs ==
  ASSUME MemOK, NEW k \in 1 .. 10, NEW cells \in Seq(Addr)
  PROVE  /\ Shape(Put(k, cells), story)
         /\ Layout[k].kind = "length" => Put(k, cells) = m
         /\ Layout[k].kind = "scalar" /\ cells # <<>> =>
              /\ Put(k, cells).scalar = [m.scalar EXCEPT ![Layout[k].of] = cells[1]]
              /\ Put(k, cells).top = m.top /\ Put(k, cells).mem = m.mem
         /\ Layout[k].kind = "content" =>
              /\ Put(k, cells).scalar = m.scalar /\ Put(k, cells).top = m.top
              /\ Put(k, cells).mem =
                   [m.mem EXCEPT ![Layout[k].of] = Overlay(m.mem[Layout[k].of], cells)]
<1> DEFINE of == Layout[k].of
<1>1. /\ m \in [scalar : [Scalars -> Addr], top : [Regions -> Addr], mem : [Regions -> Seq(Addr)]]
      /\ \A r \in Regions : Len(m.mem[r]) = Capacity(story)[r]
  BY DEF MemOK, Shape
<1>2. CASE Layout[k].kind = "length"
  <2>1. Put(k, cells) = m
    BY <1>2 DEF Put
  <2> QED
    BY <1>1, <1>2, <2>1 DEF Shape
<1>3. CASE Layout[k].kind = "scalar" /\ cells = <<>>
  <2>1. Put(k, cells) = m
    BY <1>3 DEF Put
  <2> QED
    BY <1>1, <1>3, <2>1 DEF Shape
<1>4. CASE Layout[k].kind = "scalar" /\ cells # <<>>
  <2>1. Put(k, cells) = [m EXCEPT !.scalar[of] = cells[1]]
    BY <1>4 DEF Put
  <2>2. of \in Scalars /\ cells[1] \in Addr
    BY <1>4, LayoutKinds
  <2> HIDE DEF of
  <2>3. Shape([m EXCEPT !.scalar[of] = cells[1]], story)
    BY <1>1, <2>2 DEF Shape
  <2> QED
    BY <1>1, <1>4, <2>1, <2>3 DEF of
<1>5. CASE Layout[k].kind = "content"
  <2>1. Put(k, cells) = [m EXCEPT !.mem[of] = Overlay(m.mem[of], cells)]
    BY <1>1, <1>5 DEF Put
  <2>2. of \in Regions
    BY <1>5, LayoutKinds
  <2> DEFINE o == Overlay(m.mem[of], cells)
  <2>3. o \in Seq(Addr) /\ Len(o) = Len(m.mem[of])
    <3>1. m.mem[of] \in Seq(Addr)
      BY <1>1, <2>2
    <3> QED
      BY <3>1, OverlayIs
  <2> HIDE DEF of, o
  <2>4. Shape([m EXCEPT !.mem[of] = o], story)
    BY <1>1, <2>2, <2>3 DEF Shape
  <2>5. /\ [m EXCEPT !.mem[of] = o].scalar = m.scalar /\ [m EXCEPT !.mem[of] = o].top = m.top
        /\ [m EXCEPT !.mem[of] = o].mem = [m.mem EXCEPT ![of] = o]
    BY <1>1
  <2> QED
    BY <1>5, <2>1, <2>4, <2>5 DEF of, o
<1> QED
  BY <1>2, <1>3, <1>4, <1>5, LayoutKinds

\* Setting the top of a region.
LEMMA TopIs ==
  ASSUME NEW x, NEW st, Shape(x, st), NEW r \in Regions, NEW a \in Addr
  PROVE  /\ Shape([x EXCEPT !.top[r] = a], st)
         /\ [x EXCEPT !.top[r] = a].scalar = x.scalar
         /\ [x EXCEPT !.top[r] = a].mem = x.mem
         /\ [x EXCEPT !.top[r] = a].top = [x.top EXCEPT ![r] = a]
BY DEF Shape

\* Putting back one more scalar.
LEMMA BackScalar ==
  ASSUME MemOK, NEW v, NEW k \in 1 .. 10, Layout[k].kind = "scalar",
         PutBack(m, scratch, v, k), NEW x,
         x.scalar = [m.scalar EXCEPT ![Layout[k].of] = v.scalar[Layout[k].of]],
         x.top = m.top, x.mem = m.mem
  PROVE  PutBack(x, scratch, v, k + 1)
<1>1. m.scalar \in [Scalars -> Addr]
  BY DEF MemOK, Shape
<1>2. \A r : Holds(m, r, v) => Holds(x, r, v)
  BY DEF Holds
<1>3. CASE k = 1
  <2>1. x.scalar["pc"] = v.scalar["pc"]
    BY <1>1, <1>3, LayoutIs DEF Scalars
  <2> QED
    BY <1>3, <2>1 DEF PutBack
<1>4. CASE k = 2
  <2>1. x.scalar["pc_bank"] = v.scalar["pc_bank"] /\ x.scalar["pc"] = m.scalar["pc"]
    BY <1>1, <1>4, LayoutIs DEF Scalars
  <2> QED
    BY <1>4, <2>1 DEF PutBack
<1>5. CASE k = 3
  <2>1. /\ x.scalar["globals_base"] = v.scalar["globals_base"]
        /\ x.scalar["pc"] = m.scalar["pc"] /\ x.scalar["pc_bank"] = m.scalar["pc_bank"]
    BY <1>1, <1>5, LayoutIs DEF Scalars
  <2> QED
    BY <1>5, <2>1 DEF PutBack
<1>6. CASE k = 8
  <2>1. /\ x.scalar["rand"] = v.scalar["rand"] /\ x.scalar["pc"] = m.scalar["pc"]
        /\ x.scalar["pc_bank"] = m.scalar["pc_bank"]
        /\ x.scalar["globals_base"] = m.scalar["globals_base"]
    BY <1>1, <1>6, LayoutIs DEF Scalars
  <2> QED
    BY <1>2, <1>6, <2>1 DEF PutBack
<1> QED
  BY <1>3, <1>4, <1>5, <1>6, LayoutKinds

\* A stack's length becomes the pointer to set later, that of dynamic memory is
\* set at once.
LEMMA BackLength ==
  ASSUME MemOK, NEW v, NEW st \in Stories, ViewOK(v), Fits(v, st), NEW k \in 1 .. 10,
         Layout[k].kind = "length", PutBack(m, scratch, v, k),
         NEW x, NEW s, s = (Base[Layout[k].of] + Len(v.content[Layout[k].of])) % AddrMod,
         x.scalar = m.scalar, x.mem = m.mem,
         IF Layout[k].of = "dyn" THEN x.top = [m.top EXCEPT !["dyn"] = Dyns(v)] ELSE x.top = m.top
  PROVE  PutBack(x, s, v, k + 1)
<1>1. m.top \in [Regions -> Addr]
  BY DEF MemOK, Shape
<1>2. \A r : Holds(m, r, v) => Holds(x, r, v)
  BY DEF Holds
<1>3. Evals(v) \in 0 .. StackCap /\ Frames(v) \in 0 .. StackCap
  <2>1. Evals(v) \in Nat /\ Frames(v) \in Nat
    BY ViewFields
  <2>2. Evals(v) <= StackCap /\ Frames(v) <= StackCap
    BY Capacities DEF Fits, Evals, Frames, Regions
  <2> QED
    BY <2>1, <2>2, SizesAssumption
<1>4. /\ (Base["eval"] + Evals(v)) % AddrMod = Base["eval"] + Evals(v)
      /\ (Base["frames"] + Frames(v)) % AddrMod = Base["frames"] + Frames(v)
  BY <1>3, BaseIs, AddrMods
<1>5. CASE k = 4
  <2>1. s = Base["eval"] + Evals(v) /\ x.top = m.top
    BY <1>4, <1>5, LayoutIs DEF Evals
  <2> QED
    BY <1>5, <2>1 DEF PutBack
<1>6. CASE k = 6
  <2>1. s = Base["frames"] + Frames(v) /\ x.top = m.top
    BY <1>4, <1>6, LayoutIs DEF Frames
  <2> QED
    BY <1>2, <1>6, <2>1 DEF PutBack
<1>7. CASE k = 9
  <2>1. /\ x.top["dyn"] = Dyns(v) /\ x.top["eval"] = m.top["eval"]
        /\ x.top["frames"] = m.top["frames"]
    BY <1>1, <1>7, LayoutIs DEF Regions
  <2> QED
    BY <1>2, <1>7, <2>1 DEF PutBack
<1> QED
  BY <1>5, <1>6, <1>7, LayoutKinds

\* A content goes into its region, and only there; a stack's pointer follows.
LEMMA BackContent ==
  ASSUME MemOK, NEW v, ViewOK(v), NEW k \in 1 .. 10, Layout[k].kind = "content",
         PutBack(m, scratch, v, k), NEW x, x.scalar = m.scalar,
         x.mem = [m.mem EXCEPT ![Layout[k].of] =
                    Overlay(m.mem[Layout[k].of], v.content[Layout[k].of])],
         IF Layout[k].of = "dyn" THEN x.top = m.top
         ELSE x.top = [m.top EXCEPT ![Layout[k].of] = scratch]
  PROVE  PutBack(x, scratch, v, k + 1)
<1> DEFINE of == Layout[k].of
<1>1. /\ m.top \in [Regions -> Addr] /\ m.mem \in [Regions -> Seq(Addr)]
      /\ of \in Regions
  BY LayoutKinds DEF MemOK, Shape
<1>2. Holds(x, of, v)
  <2> DEFINE a == m.mem[of]
             b == v.content[of]
  <2>1. a \in Seq(Addr) /\ b \in Seq(Addr)
    BY <1>1, ViewFields
  <2>2. x.mem[of] = Overlay(a, b)
    BY <1>1
  <2> HIDE DEF a
  <2>3. \A i \in 1 .. Len(b) : i \in 1 .. Len(Overlay(a, b)) => Overlay(a, b)[i] = b[i]
    BY <2>1, OverlayIs
  <2> QED
    BY <2>2, <2>3 DEF Holds
<1>3. \A r \in Regions \ {of} : Holds(m, r, v) => Holds(x, r, v)
  <2> TAKE r \in Regions \ {of}
  <2>1. x.mem[r] = m.mem[r]
    BY <1>1
  <2> QED
    BY <2>1 DEF Holds
<1>4. CASE k = 5
  <2>1. x.top["eval"] = Base["eval"] + Evals(v) /\ of = "eval"
    BY <1>1, <1>4, LayoutIs DEF PutBack, Regions
  <2> QED
    BY <1>2, <1>4, <2>1 DEF PutBack
<1>5. CASE k = 7
  <2>1. /\ x.top["frames"] = Base["frames"] + Frames(v) /\ x.top["eval"] = m.top["eval"]
        /\ of = "frames"
    <3>1. scratch = Base["frames"] + Frames(v)
      BY <1>5 DEF PutBack
    <3>2. of = "frames"
      BY <1>5, LayoutIs
    <3>3. x.top = [m.top EXCEPT !["frames"] = scratch]
      BY <3>2
    <3> QED
      BY <1>1, <3>1, <3>2, <3>3 DEF Regions
  <2>2. Holds(m, "eval", v) => Holds(x, "eval", v)
    BY <1>3, <2>1 DEF Regions
  <2> HIDE DEF of
  <2> QED
    BY <1>2, <1>5, <2>1, <2>2 DEF PutBack
<1>6. CASE k = 10
  <2>1. x.top = m.top /\ of = "dyn"
    BY <1>6, LayoutIs
  <2>2. /\ Holds(m, "eval", v) => Holds(x, "eval", v)
        /\ Holds(m, "frames", v) => Holds(x, "frames", v)
    BY <1>3, <2>1 DEF Regions
  <2> HIDE DEF of
  <2> QED
    BY <1>2, <1>6, <2>1, <2>2 DEF PutBack
<1> QED
  BY <1>4, <1>5, <1>6, LayoutKinds

\* While restoring: what the next file call may transfer.
LEMMA RestoringFacts ==
  ASSUME IInv, phase = "restoring", at <= Len(Layout)
  PROVE  /\ MemOK /\ Restoring /\ at \in 1 .. 10
         /\ LastOK /\ ViewOK(last.view) /\ Fits(last.view, last.story)
         /\ file \in Seq(Addr) /\ pos \in 0 .. Len(file) /\ Len(file) \in Nat
         /\ Wanted(at) \in Nat
<1>1. MemOK /\ Restoring
  BY PhaseIs DEF IInv
<1>2. at \in 1 .. 10
  BY <1>1, LayoutIs DEF Restoring
<1>3. /\ LastOK /\ ViewOK(last.view) /\ Fits(last.view, last.story)
      /\ file \in Seq(Addr) /\ pos \in 0 .. Len(file)
  BY <1>1 DEF Restoring, LastOK, Begins
<1>4. Wanted(at) \in Nat
  <2> DEFINE of == Layout[at].of
  <2>1. CASE Layout[at].kind # "content"
    BY <2>1 DEF Wanted
  <2>2. CASE Layout[at].kind = "content"
    <3>1. of \in Regions
      BY <1>2, <2>2, LayoutKinds
    <3>2. m.top[of] \in Addr /\ scratch \in Addr /\ Base[of] \in Addr
      BY <1>1, <3>1, MemFields, BaseIs DEF MemOK
    <3>3. Wanted(at) = IF of = "dyn" THEN m.top[of] ELSE (scratch - Base[of]) % AddrMod
      BY <2>2 DEF Wanted
    <3> HIDE DEF of
    <3>4. scratch - Base[of] \in Int
      BY <3>2, AddrNat
    <3>5. Wanted(at) \in Addr
      BY <3>2, <3>3, <3>4, AddrMods
    <3> QED
      BY <3>5, AddrNat
  <2> QED
    BY <2>1, <2>2
<1>5. Len(file) \in Nat
  BY <1>3
<1> QED
  BY <1>1, <1>2, <1>3, <1>4, <1>5

\* After complete reads so far, a file call asks for the section's own length.
LEMMA WantedIs ==
  ASSUME MemOK, NEW v, NEW st \in Stories, ViewOK(v), Fits(v, st), NEW k \in 1 .. 10,
         PutBack(m, scratch, v, k)
  PROVE  Wanted(k) = Len(Sec(v, k))
<1>1. CASE Layout[k].kind = "scalar"
  <2>1. Sec(v, k) = <<v.scalar[Layout[k].of]>>
    BY <1>1 DEF Sec
  <2>2. v.scalar[Layout[k].of] \in Addr
    BY <1>1, LayoutKinds, ViewFields
  <2>3. Wanted(k) = 1
    BY <1>1 DEF Wanted
  <2> QED
    BY <2>1, <2>2, <2>3, One
<1>2. CASE Layout[k].kind = "length"
  <2>1. Sec(v, k) = <<Len(v.content[Layout[k].of])>>
    BY <1>2 DEF Sec
  <2>2. Wanted(k) = 1
    BY <1>2 DEF Wanted
  <2> QED
    BY <2>1, <2>2
<1>3. CASE Layout[k].kind = "content"
  <2> DEFINE of == Layout[k].of
  <2>1. /\ Sec(v, k) = v.content[of]
        /\ Wanted(k) = IF of = "dyn" THEN m.top[of] ELSE (scratch - Base[of]) % AddrMod
    BY <1>3 DEF Sec, Wanted
  <2>2. /\ Evals(v) \in Addr /\ Frames(v) \in Addr /\ Evals(v) \in Nat /\ Frames(v) \in Nat
        /\ Base["eval"] \in Nat /\ Base["frames"] \in Nat
    BY ViewFields, BaseIs DEF Regions
  <2>3. CASE k = 5
    <3>1. of = "eval" /\ scratch = Base["eval"] + Evals(v)
      BY <2>3, LayoutIs DEF PutBack
    <3>2. scratch - Base["eval"] = Evals(v)
      BY <2>2, <3>1
    <3>3. Wanted(k) = Evals(v) % AddrMod
      BY <2>1, <3>1, <3>2
    <3> QED
      BY <2>1, <2>2, <3>1, <3>3, AddrMods DEF Evals
  <2>4. CASE k = 7
    <3>1. of = "frames" /\ scratch = Base["frames"] + Frames(v)
      BY <2>4, LayoutIs DEF PutBack
    <3>2. scratch - Base["frames"] = Frames(v)
      BY <2>2, <3>1
    <3>3. Wanted(k) = Frames(v) % AddrMod
      BY <2>1, <3>1, <3>2
    <3> QED
      BY <2>1, <2>2, <3>1, <3>3, AddrMods DEF Frames
  <2>5. CASE k = 10
    <3>1. of = "dyn" /\ m.top["dyn"] = Dyns(v)
      BY <2>5, LayoutIs DEF PutBack
    <3> QED
      BY <2>1, <3>1 DEF Dyns
  <2> QED
    BY <1>3, <2>3, <2>4, <2>5, LayoutKinds
<1> QED
  BY <1>1, <1>2, <1>3, LayoutKinds

\* A read that transfers what there is: either the section is complete, as all
\* before it were, or the file is at its end.
LEMMA ReadIs ==
  ASSUME IInv, phase = "restoring", at <= Len(Layout), NEW c, c = Cells(Wanted(at))
  PROVE  /\ c \in Seq(Addr) /\ Len(c) \in Nat /\ pos + Len(c) \in 0 .. Len(file)
         /\ short => Len(c) = 0 /\ pos + Len(c) = Len(file)
         /\ Len(c) < Wanted(at) => pos + Len(c) = Len(file)
         /\ ~ short => Len(c) <= Len(Sec(last.view, at))
         /\ ~ short /\ ~ (Len(c) < Wanted(at)) =>
              c = Sec(last.view, at) /\ pos + Len(c) = Start(last.view, at + 1)
<1> DEFINE v == last.view
           n == Wanted(at)
<1>1. /\ MemOK /\ Restoring /\ at \in 1 .. 10
      /\ LastOK /\ ViewOK(v) /\ Fits(v, last.story)
      /\ file \in Seq(Addr) /\ pos \in 0 .. Len(file) /\ Len(file) \in Nat /\ n \in Nat
  BY RestoringFacts
<1>2. /\ Begins(file, v)
      /\ short => pos = Len(file)
      /\ ~ short => pos = Start(v, at) /\ PutBack(m, scratch, v, at)
      /\ last.story \in Stories /\ short \in BOOLEAN
  BY <1>1 DEF Restoring, LastOK
<1> HIDE DEF n
<1>3. c = Cells(n)
  BY DEF n
<1>4. /\ c \in Seq(Addr) /\ Len(c) = (IF pos + n <= Len(file) THEN n ELSE Len(file) - pos)
  BY <1>1, <1>3, CellsAre
<1>5. /\ Len(c) \in Nat /\ pos + Len(c) \in 0 .. Len(file)
      /\ Len(c) < n => pos + Len(c) = Len(file)
  BY <1>1, <1>4
<1>6. ASSUME short
      PROVE  Len(c) = 0 /\ pos + Len(c) = Len(file)
  <2>1. pos = Len(file)
    BY <1>2, <1>6
  <2> QED
    BY <1>1, <1>5, <2>1
<1>7. ASSUME ~ short
      PROVE  /\ Len(c) <= Len(Sec(v, at))
             /\ ~ (Len(c) < n) => c = Sec(v, at) /\ pos + Len(c) = Start(v, at + 1)
  <2>1. pos = Start(v, at) /\ PutBack(m, scratch, v, at)
    BY <1>2, <1>7
  <2>2. n = Len(Sec(v, at))
    BY <1>1, <1>2, <2>1, WantedIs DEF n
  <2>3. pos <= Len(file)
    BY <1>1
  <2> HIDE DEF v
  <2>4. /\ Len(Cells(n)) <= n
        /\ ~ (Len(Cells(n)) < n) =>
             Cells(n) = Sec(v, at) /\ pos + Len(Cells(n)) = Start(v, at + 1)
    BY <1>1, <1>2, <2>1, <2>2, <2>3, SectionRead
  <2> QED
    BY <1>3, <2>2, <2>4
<1> QED
  BY <1>4, <1>5, <1>6, <1>7 DEF n

LEMMA Advanced ==
  ASSUME IInv, phase = "restoring", at <= Len(Layout), NEW c, c = Cells(Wanted(at)),
         Transfer(at, c), at' = at + 1, UNCHANGED <<story, phase, file, last>>, MemOK',
         ~ short /\ ~ (Len(c) < Wanted(at)) => PutBack(m', scratch', last.view, at + 1)
  PROVE  IInv'
<1>1. /\ Restoring /\ LastOK /\ at \in 1 .. 10
  BY RestoringFacts
<1>2. /\ pos + Len(c) \in 0 .. Len(file)
      /\ short => pos + Len(c) = Len(file)
      /\ Len(c) < Wanted(at) => pos + Len(c) = Len(file)
      /\ ~ short /\ ~ (Len(c) < Wanted(at)) => pos + Len(c) = Start(last.view, at + 1)
  BY ReadIs
<1>3. pos' = pos + Len(c) /\ short' = (short \/ Len(c) < Wanted(at))
  BY DEF Transfer
<1>4. short' \in BOOLEAN
  BY <1>1, <1>3 DEF Restoring
<1>5. short' => pos' = Len(file)
  BY <1>2, <1>3
<1>6. ~ short' => pos' = Start(last.view, at + 1) /\ PutBack(m', scratch', last.view, at + 1)
  BY <1>2, <1>3
<1>7. at' \in 1 .. 11 /\ pos' \in 0 .. Len(file)
  BY <1>1, <1>2, <1>3
<1>8. LastOK' /\ Begins(file', last'.view)
  BY <1>1 DEF Restoring, LastOK
<1>9. Restoring'
  BY <1>4, <1>5, <1>6, <1>7, <1>8 DEF Restoring
<1>10. FileOK'
  BY <1>8 DEF FileOK
<1> QED
  BY <1>9, <1>10 DEF IInv, HookOK

LEMMA ReadScalarHolds ==
  ASSUME IInv, ReadScalar
  PROVE  IInv'
<1> DEFINE c == Cells(1)
           v == last.view
<1>1. /\ phase = "restoring" /\ at <= Len(Layout) /\ Layout[at].kind = "scalar"
      /\ Transfer(at, c) /\ m' = Put(at, c) /\ at' = at + 1 /\ scratch' = scratch
      /\ UNCHANGED <<story, phase, file, last>>
  BY DEF ReadScalar
<1>2. Wanted(at) = 1
  BY <1>1 DEF Wanted
<1>3. MemOK /\ Restoring /\ at \in 1 .. 10 /\ ViewOK(v)
  BY <1>1, RestoringFacts
<1>4. /\ c \in Seq(Addr)
      /\ ~ short /\ ~ (Len(c) < 1) => c = Sec(v, at)
  BY <1>1, <1>2, ReadIs
<1>5. MemOK'
  <2>1. Shape(m', story)
    BY <1>1, <1>3, <1>4, PutIs
  <2> QED
    BY <1>1, <1>3, <2>1 DEF MemOK
<1>6. ASSUME ~ short, ~ (Len(c) < 1)
      PROVE  PutBack(m', scratch', v, at + 1)
  <2>1. c = <<v.scalar[Layout[at].of]>>
    BY <1>1, <1>4, <1>6 DEF Sec
  <2>2. c # <<>> /\ c[1] = v.scalar[Layout[at].of]
    BY <2>1
  <2>3. PutBack(m, scratch, v, at)
    BY <1>3, <1>6 DEF Restoring
  <2> HIDE DEF c, v
  <2>4. /\ m'.scalar = [m.scalar EXCEPT ![Layout[at].of] = v.scalar[Layout[at].of]]
        /\ m'.top = m.top /\ m'.mem = m.mem
    BY <1>1, <1>3, <1>4, <2>2, PutIs
  <2>5. PutBack(m', scratch, v, at + 1)
    BY <1>1, <1>3, <2>3, <2>4, BackScalar
  <2> QED
    BY <1>1, <2>5
<1> HIDE DEF c
<1>7. c = Cells(Wanted(at))
  BY <1>2 DEF c
<1> QED
  BY <1>1, <1>2, <1>5, <1>6, <1>7, Advanced

LEMMA ReadLengthHolds ==
  ASSUME IInv, ReadLength
  PROVE  IInv'
<1> DEFINE c == Cells(1)
           v == last.view
           of == Layout[at].of
           length == IF c = <<>> THEN scratch ELSE c[1]
<1>1. /\ phase = "restoring" /\ at <= Len(Layout) /\ Layout[at].kind = "length"
      /\ Transfer(at, c) /\ scratch' = (Base[of] + length) % AddrMod
      /\ m' = IF of = "dyn" THEN [m EXCEPT !.top[of] = length] ELSE m
      /\ at' = at + 1 /\ UNCHANGED <<story, phase, file, last>>
  BY DEF ReadLength
<1>2. Wanted(at) = 1
  BY <1>1 DEF Wanted
<1>3. /\ MemOK /\ Restoring /\ at \in 1 .. 10 /\ ViewOK(v) /\ Fits(v, last.story)
      /\ last.story \in Stories
  BY <1>1, RestoringFacts DEF LastOK
<1>4. /\ c \in Seq(Addr)
      /\ ~ short /\ ~ (Len(c) < 1) => c = Sec(v, at)
  BY <1>1, <1>2, ReadIs
<1>5. of \in Regions /\ length \in Addr /\ scratch' \in Addr
  <2>1. of \in Regions
    BY <1>1, <1>3, LayoutKinds
  <2>2. length \in Addr
    <3> HIDE DEF c
    <3> QED
      BY <1>3, <1>4 DEF MemOK
  <2> HIDE DEF of, length
  <2>3. Base[of] + length \in Int
    BY <2>1, <2>2, BaseIs, AddrNat
  <2> QED
    BY <1>1, <2>1, <2>2, <2>3, AddrMods
<1>6. MemOK'
  <2> HIDE DEF of, length
  <2>1. Shape(m', story)
    BY <1>1, <1>3, <1>5, TopIs DEF MemOK
  <2> QED
    BY <1>1, <1>3, <1>5, <2>1 DEF MemOK
<1>7. ASSUME ~ short, ~ (Len(c) < 1)
      PROVE  PutBack(m', scratch', v, at + 1)
  <2>1. c = <<Len(v.content[of])>>
    BY <1>1, <1>4, <1>7 DEF Sec
  <2> DEFINE a == Len(v.content[of])
  <2>2. length = a
    <3>1. c = <<a>>
      BY <2>1
    <3> HIDE DEF a, c
    <3> QED
      BY <3>1
  <2>3. PutBack(m, scratch, v, at)
    BY <1>3, <1>7 DEF Restoring
  <2> HIDE DEF c, v, length
  <2>4. /\ m'.scalar = m.scalar /\ m'.mem = m.mem
        /\ IF of = "dyn" THEN m'.top = [m.top EXCEPT !["dyn"] = Dyns(v)] ELSE m'.top = m.top
    <3>1. CASE of = "dyn"
      <4>1. Shape(m, story) /\ m' = [m EXCEPT !.top["dyn"] = length] /\ length = Dyns(v)
        BY <1>1, <1>3, <2>2, <3>1 DEF MemOK, Dyns
      <4> QED
        BY <1>5, <3>1, <4>1, TopIs
    <3>2. CASE of # "dyn"
      BY <1>1, <3>2
    <3> QED
      BY <3>1, <3>2
  <2>5. scratch' = (Base[of] + Len(v.content[of])) % AddrMod
    BY <1>1, <2>2
  <2>6. PutBack(m', scratch', v, at + 1)
    BY <1>1, <1>3, <2>3, <2>4, <2>5, BackLength
  <2> QED
    BY <2>6
<1> HIDE DEF c, of, length
<1>8. c = Cells(Wanted(at))
  BY <1>2 DEF c
<1> QED
  BY <1>1, <1>2, <1>6, <1>7, <1>8, Advanced

LEMMA ReadContentHolds ==
  ASSUME IInv, ReadContent
  PROVE  IInv'
<1> DEFINE c == Cells(Wanted(at))
           v == last.view
           of == Layout[at].of
           filled == Put(at, c)
<1>1. /\ phase = "restoring" /\ at <= Len(Layout) /\ Layout[at].kind = "content"
      /\ Transfer(at, c) /\ scratch' = scratch
      /\ m' = IF of = "dyn" THEN filled ELSE [filled EXCEPT !.top[of] = scratch]
      /\ at' = at + 1 /\ UNCHANGED <<story, phase, file, last>>
  BY DEF ReadContent
<1>2. /\ MemOK /\ Restoring /\ at \in 1 .. 10 /\ ViewOK(v) /\ scratch \in Addr
  BY <1>1, RestoringFacts DEF MemOK
<1>3. /\ c \in Seq(Addr)
      /\ ~ short /\ ~ (Len(c) < Wanted(at)) => c = Sec(v, at)
  BY <1>1, ReadIs
<1>4. of \in Regions
  BY <1>1, <1>2, LayoutKinds
<1> HIDE DEF c
<1>5. /\ Shape(filled, story) /\ filled.scalar = m.scalar /\ filled.top = m.top
      /\ filled.mem = [m.mem EXCEPT ![of] = Overlay(m.mem[of], c)]
  BY <1>1, <1>2, <1>3, PutIs
<1> HIDE DEF filled, of
<1>6. MemOK'
  <2>1. Shape(m', story)
    BY <1>1, <1>2, <1>4, <1>5, TopIs
  <2> QED
    BY <1>1, <1>2, <2>1 DEF MemOK
<1>7. ASSUME ~ short, ~ (Len(c) < Wanted(at))
      PROVE  PutBack(m', scratch', v, at + 1)
  <2>1. c = v.content[of]
    BY <1>1, <1>3, <1>7 DEF Sec, of
  <2>2. PutBack(m, scratch, v, at)
    BY <1>2, <1>7 DEF Restoring
  <2> HIDE DEF v
  <2>3. /\ m'.scalar = m.scalar
        /\ m'.mem = [m.mem EXCEPT ![of] = Overlay(m.mem[of], v.content[of])]
        /\ IF of = "dyn" THEN m'.top = m.top ELSE m'.top = [m.top EXCEPT ![of] = scratch]
    <3>1. CASE of = "dyn"
      BY <1>1, <1>5, <2>1, <3>1
    <3>2. CASE of # "dyn"
      <4>1. m' = [filled EXCEPT !.top[of] = scratch]
        BY <1>1, <3>2
      <4>2. m'.scalar = filled.scalar /\ m'.mem = filled.mem /\ m'.top = [filled.top EXCEPT ![of] = scratch]
        BY <1>2, <1>4, <1>5, <4>1, TopIs
      <4> QED
        BY <1>5, <2>1, <3>2, <4>2
    <3> QED
      BY <3>1, <3>2
  <2>4. PutBack(m', scratch, v, at + 1)
    BY <1>1, <1>2, <2>2, <2>3, BackContent DEF of
  <2> QED
    BY <1>1, <2>4
<1>8. c = Cells(Wanted(at))
  BY DEF c
<1> QED
  BY <1>1, <1>6, <1>7, <1>8, Advanced

LEMMA RestoreFailHolds ==
  ASSUME IInv, RestoreFail
  PROVE  IInv'
<1>1. phase = "restoring" /\ at <= Len(Layout) /\ UNCHANGED <<story, file, last>> /\ Idle
  BY DEF RestoreFail
<1>2. PICK n \in 0 .. Len(Cells(Wanted(at))) :
        /\ m' = Put(at, Cells(n))
        /\ scratch' = IF Layout[at].kind = "length" /\ n = 1 THEN Cells(1)[1] ELSE scratch
  BY DEF RestoreFail
<1>3. /\ MemOK /\ at \in 1 .. 10 /\ file \in Seq(Addr) /\ pos \in 0 .. Len(file)
  BY <1>1, RestoringFacts
<1>4. Len(Cells(Wanted(at))) \in Nat
  BY <1>1, ReadIs
<1>5. Cells(n) \in Seq(Addr) /\ Cells(1) \in Seq(Addr)
  BY <1>3, <1>4, CellsAre
<1>6. Shape(m', story)
  BY <1>2, <1>3, <1>5, PutIs
<1>7. scratch' \in Addr
  <2>1. CASE Layout[at].kind = "length" /\ n = 1
    <3>1. Wanted(at) = 1
      BY <2>1 DEF Wanted
    <3>2. 1 <= Len(Cells(1))
      BY <1>4, <2>1, <3>1
    <3> DEFINE c == Cells(1)
    <3>3. c \in Seq(Addr) /\ 1 <= Len(c) /\ scratch' = c[1]
      BY <1>2, <1>5, <2>1, <3>2
    <3> HIDE DEF c
    <3> QED
      BY <3>3
  <2>2. CASE ~ (Layout[at].kind = "length" /\ n = 1)
    BY <1>2, <1>3, <2>2 DEF MemOK
  <2> QED
    BY <2>1, <2>2
<1>8. MemOK'
  BY <1>1, <1>3, <1>6, <1>7 DEF MemOK
<1>9. FileOK'
  BY <1>1, SameFileOK DEF IInv
<1> QED
  BY <1>1, <1>8, <1>9, Resting

LEMMA RestoreCloseHolds ==
  ASSUME IInv, RestoreClose
  PROVE  IInv'
<1>1. MemOK'
  BY DEF IInv, MemOK, RestoreClose, machine
<1>2. FileOK'
  BY SameFileOK DEF IInv, RestoreClose
<1> QED
  BY <1>1, <1>2, Resting DEF RestoreClose

LEMMA StutterHolds ==
  ASSUME IInv, UNCHANGED vars
  PROVE  IInv'
<1>1. /\ m' = m /\ story' = story /\ scratch' = scratch /\ phase' = phase /\ at' = at
      /\ pos' = pos /\ short' = short /\ file' = file /\ last' = last
      /\ overrun' = overrun
  BY DEF vars, machine, hook
<1>2. MemOK' /\ FileOK'
  BY <1>1 DEF IInv, MemOK, FileOK, LastOK
<1>3. View' = View /\ (WellFormed' <=> WellFormed)
  BY <1>1, SameView
<1>4. HookOK'
  BY <1>1, <1>3 DEF IInv, HookOK, Telling, Saving, Restoring, LastOK
<1> QED
  BY <1>2, <1>4 DEF IInv

LEMMA StepsHold == IInv /\ [Next]_vars => IInv'
<1> SUFFICES ASSUME IInv, [Next]_vars
             PROVE  IInv'
  OBVIOUS
<1>1. CASE Play
  BY <1>1, PlayHolds
<1>2. CASE SaveOpen
  BY <1>2, SaveOpenHolds
<1>3. CASE SaveWrite
  BY <1>3, SaveWriteHolds
<1>4. CASE SaveFail
  BY <1>4, SaveFailHolds
<1>5. CASE SaveClose \/ SaveCloseFail
  BY <1>5, SaveCloseHolds
<1>6. CASE RestoreOpen
  BY <1>6, RestoreOpenHolds
<1>7. CASE ReadLength
  BY <1>7, ReadLengthHolds
<1>8. CASE ReadContent
  BY <1>8, ReadContentHolds
<1>9. CASE ReadScalar
  BY <1>9, ReadScalarHolds
<1>10. CASE RestoreFail
  BY <1>10, RestoreFailHolds
<1>11. CASE RestoreClose
  BY <1>11, RestoreCloseHolds
<1>12. CASE PowerLoss
  BY <1>12, PowerLossHolds
<1>13. CASE UNCHANGED vars
  BY <1>13, StutterHolds
<1> QED
  BY <1>1, <1>2, <1>3, <1>4, <1>5, <1>6, <1>7, <1>8, <1>9, <1>10, <1>11, <1>12, <1>13 DEF Next

LEMMA Inductive == Spec => []IInv
BY InitHolds, StepsHold, PTL DEF Spec

-----------------------------------------------------------------------------
LEMMA CompleteStep ==
  ASSUME IInv, SaveClose
  PROVE  /\ last.view = View
         /\ file' = Section(1) \o Section(2) \o Section(3) \o Section(4) \o Section(5)
                      \o Section(6) \o Section(7) \o Section(8) \o Section(9) \o Section(10)
<1>1. MemOK /\ Saving /\ at = 11 /\ file' = file
  <2>1. Saving /\ at > 10
    BY PhaseIs, LayoutIs DEF IInv, SaveClose
  <2> QED
    BY <2>1 DEF IInv, SaveClose, Saving
<1>2. /\ ViewOK(View) /\ \A k \in 1 .. 10 : Section(k) = Sec(View, k)
      /\ last.view = View /\ Begins(file, View) /\ Len(file) = Start(View, 11)
  BY <1>1, ViewIs DEF Saving
<1> DEFINE w == View
           f == Sec(w, 1) \o Sec(w, 2) \o Sec(w, 3) \o Sec(w, 4) \o Sec(w, 5)
                  \o Sec(w, 6) \o Sec(w, 7) \o Sec(w, 8) \o Sec(w, 9) \o Sec(w, 10)
<1>3. Begins(f, w) /\ Len(f) = Start(w, 11)
  <2> HIDE DEF w
  <2> QED
    BY <1>2, WholeFile DEF w
<1>4. file = f
  <2> HIDE DEF f
  <2> QED
    BY <1>2, <1>3, SameFile
<1>5. /\ Section(1) = Sec(w, 1) /\ Section(2) = Sec(w, 2) /\ Section(3) = Sec(w, 3)
      /\ Section(4) = Sec(w, 4) /\ Section(5) = Sec(w, 5) /\ Section(6) = Sec(w, 6)
      /\ Section(7) = Sec(w, 7) /\ Section(8) = Sec(w, 8) /\ Section(9) = Sec(w, 9)
      /\ Section(10) = Sec(w, 10)
  <2> HIDE DEF w
  <2> QED
    BY <1>2 DEF w
<1> HIDE DEF w
<1> QED
  BY <1>1, <1>2, <1>4, <1>5 DEF f

\* A save that reports success has left the whole state of play in the file,
\* section after section, whatever saves and restores failed before it and
\* wherever in the address space the stacks are.
THEOREM SavedIsComplete == Spec => SaveIsComplete
<1>1. IInv /\ [Next]_vars
        => [SaveClose => /\ last.view = View
                         /\ file' = Section(1) \o Section(2) \o Section(3) \o Section(4)
                                      \o Section(5) \o Section(6) \o Section(7)
                                      \o Section(8) \o Section(9) \o Section(10)]_vars
  BY CompleteStep
<1> QED
  BY <1>1, Inductive, PTL DEF Spec, SaveIsComplete

LEMMA ExactStep ==
  ASSUME IInv, RestoreClose, ~ short, last.story = story
  PROVE  View = last.view
<1> DEFINE v == last.view
<1>1. /\ MemOK /\ ViewOK(v) /\ Fits(v, story) /\ PutBack(m, scratch, v, 11) /\ story \in Stories
  <2>1. Restoring /\ at > 10 /\ MemOK
    BY PhaseIs, LayoutIs DEF IInv, RestoreClose
  <2>2. at = 11
    BY <2>1 DEF Restoring
  <2> QED
    BY <2>1, <2>2 DEF Restoring, LastOK, MemOK
<1> HIDE DEF v
<1>2. /\ v \in PlayState /\ Evals(v) \in Addr /\ Frames(v) \in Addr /\ Dyns(v) \in Addr
      /\ Evals(v) \in Nat /\ Frames(v) \in Nat /\ Dyns(v) \in Nat
      /\ Base["eval"] \in Nat /\ Base["frames"] \in Nat /\ Base["dyn"] = 0
  BY <1>1, ViewFields, BaseIs DEF ViewOK, Regions
<1>3. m.scalar = v.scalar
  <2>1. m.scalar \in [Scalars -> Addr] /\ v.scalar \in [Scalars -> Addr]
    BY <1>1, <1>2 DEF MemOK, Shape, PlayState
  <2>2. \A s \in Scalars : m.scalar[s] = v.scalar[s]
    BY <1>1 DEF PutBack, Scalars
  <2> QED
    BY <2>1, <2>2
<1>4. \A r \in Regions : Length(r) = Len(v.content[r]) /\ Holds(m, r, v)
  <2>1. /\ m.top["eval"] = Base["eval"] + Evals(v) /\ m.top["frames"] = Base["frames"] + Frames(v)
        /\ m.top["dyn"] = Dyns(v)
        /\ Holds(m, "eval", v) /\ Holds(m, "frames", v) /\ Holds(m, "dyn", v)
    BY <1>1 DEF PutBack
  <2>2. /\ m.top["eval"] - Base["eval"] = Evals(v) /\ m.top["frames"] - Base["frames"] = Frames(v)
        /\ m.top["dyn"] - Base["dyn"] = Dyns(v)
    BY <1>2, <2>1
  <2>3. Length("eval") = Evals(v) /\ Length("frames") = Frames(v) /\ Length("dyn") = Dyns(v)
    BY <1>2, <2>2, AddrMods DEF Length
  <2> QED
    BY <2>1, <2>3 DEF Regions, Evals, Frames, Dyns
<1>5. \A r \in Regions : SubSeq(m.mem[r], 1, Length(r)) = v.content[r]
  <2> TAKE r \in Regions
  <2> DEFINE a == m.mem[r]
             b == v.content[r]
  <2>1. a \in Seq(Addr) /\ b \in Seq(Addr) /\ Len(b) <= Len(a) /\ Length(r) = Len(b)
    BY <1>1, <1>4, MemFields, ViewFields DEF Fits
  <2>2. \A i \in 1 .. Len(b) : i \in 1 .. Len(a) => a[i] = b[i]
    BY <1>4 DEF Holds
  <2> HIDE DEF a, b
  <2>3. Len(b) \in 0 .. Len(a) /\ \A i \in 1 .. Len(b) : a[i] = b[i]
    BY <2>1, <2>2
  <2>4. SubSeq(a, 1, Len(b)) = b
    BY <2>1, <2>3, Cut, SeqEqual
  <2> QED
    BY <2>1, <2>4 DEF a, b
<1>6. View = [scalar |-> v.scalar, content |-> v.content]
  <2>1. v.content \in [Regions -> Seq(Addr)]
    BY <1>2 DEF PlayState
  <2>2. [r \in Regions |-> SubSeq(m.mem[r], 1, Length(r))] = v.content
    BY <1>5, <2>1
  <2> QED
    BY <1>3, <2>2 DEF View
<1>7. v = [scalar |-> v.scalar, content |-> v.content]
  BY <1>2 DEF PlayState
<1> QED
  BY <1>6, <1>7 DEF v

\* A restore that reports success after complete reads leaves the interpreter in
\* exactly the state the last save was called in, whatever it held before.
THEOREM RestoredIsExact == Spec => RestoreIsExact
<1>1. IInv /\ [Next]_vars
        => [RestoreClose /\ ~ short /\ last.story = story => View = last.view]_vars
  BY ExactStep
<1> QED
  BY <1>1, Inductive, PTL DEF Spec, RestoreIsExact

-----------------------------------------------------------------------------
\* What a read transfers that is too much for its region: dynamic memory of
\* another story, that the last save was of.
LEMMA FitsInside ==
  ASSUME IInv, phase = "restoring", at <= Len(Layout), Layout[at].kind = "content",
         NEW n \in 0 .. Len(Cells(Wanted(at))), n > Capacity(story)[Layout[at].of]
  PROVE  Layout[at].of = "dyn" /\ DynSize[last.story] > DynSize[story]
<1> DEFINE c == Cells(Wanted(at))
           of == Layout[at].of
           v == last.view
<1>1. /\ MemOK /\ Restoring /\ at \in 1 .. 10 /\ ViewOK(v) /\ Fits(v, last.story)
      /\ last.story \in Stories /\ story \in Stories
  BY RestoringFacts DEF LastOK, MemOK
<1>2. of \in Regions
  BY <1>1, LayoutKinds
<1>3. ~ short => Len(c) <= Len(Sec(v, at))
  BY ReadIs
<1>4. Len(c) \in Nat
  BY ReadIs
<1>5. Capacity(story)[of] \in Nat /\ Capacity(last.story)[of] \in Nat
  BY <1>1, <1>2, Capacities
<1>6. ~ short
  <2>1. short => Len(c) = 0
    BY ReadIs
  <2> QED
    BY <1>5, <2>1
<1>7. n <= Capacity(last.story)[of]
  <2>1. Sec(v, at) = v.content[of]
    BY DEF Sec
  <2>2. Len(c) <= Len(v.content[of]) /\ Len(v.content[of]) <= Capacity(last.story)[of]
    BY <1>1, <1>2, <1>3, <1>6, <2>1 DEF Fits
  <2>3. Len(v.content[of]) \in Nat
    <3>1. v.content[of] \in Seq(Addr)
      BY <1>1, <1>2, ViewFields
    <3> HIDE DEF of, v
    <3> QED
      BY <3>1
  <2> HIDE DEF c, of, v
  <2>4. n \in Nat /\ n <= Len(c)
    BY <1>4 DEF c
  <2> QED
    BY <1>4, <1>5, <2>2, <2>3, <2>4
<1>8. n > Capacity(story)[of] /\ n \in Nat
  BY <1>4
<1> HIDE DEF of
<1>9. Capacity(last.story)[of] > Capacity(story)[of]
  BY <1>5, <1>7, <1>8
<1>10. of = "dyn"
  <2>1. \A st \in Stories : Capacity(st)["eval"] = StackCap /\ Capacity(st)["frames"] = StackCap
    BY Capacities
  <2>2. StackCap \in Nat
    BY SizesAssumption
  <2> QED
    BY <1>1, <1>2, <1>9, <2>1, <2>2 DEF Regions
<1>11. DynSize[last.story] > DynSize[story]
  BY <1>1, <1>9, <1>10, Capacities
<1> QED
  BY <1>10, <1>11 DEF of

LEMMA OverrunIs ==
  ASSUME IInv, phase = "restoring", at <= Len(Layout),
         NEW n \in 0 .. Len(Cells(Wanted(at)))
  PROVE  /\ Overrun(at, n) \subseteq {"dyn"}
         /\ Overrun(at, n) # {} => DynSize[last.story] > DynSize[story]
<1>1. ASSUME NEW r \in Overrun(at, n)
      PROVE  r = "dyn" /\ DynSize[last.story] > DynSize[story]
  <2>1. /\ Layout[at].kind = "content" /\ Layout[at].of = r
        /\ n > Capacity(story)[Layout[at].of]
    BY DEF Overrun
  <2> QED
    BY <2>1, FitsInside
<1> QED
  BY <1>1

LEMMA InsideStep ==
  ASSUME IInv, ReadsStayInside, [Next]_vars
  PROVE  ReadsStayInside'
<1>1. ASSUME NEW n \in 0 .. Len(Cells(Wanted(at))), overrun' = overrun \cup Overrun(at, n),
             phase = "restoring", at <= Len(Layout), UNCHANGED <<story, last>>
      PROVE  ReadsStayInside'
  <2>1. /\ Overrun(at, n) \subseteq {"dyn"}
        /\ Overrun(at, n) # {} => DynSize[last.story] > DynSize[story]
    BY <1>1, OverrunIs
  <2> QED
    BY <1>1, <2>1 DEF ReadsStayInside
<1>2. ASSUME NEW c, c = Cells(Wanted(at)), Transfer(at, c), phase = "restoring",
             at <= Len(Layout), UNCHANGED <<story, last>>
      PROVE  ReadsStayInside'
  <2>1. Len(c) \in Nat
    BY <1>2, ReadIs
  <2>2. Len(c) \in 0 .. Len(Cells(Wanted(at)))
    BY <1>2, <2>1
  <2>3. overrun' = overrun \cup Overrun(at, Len(c))
    BY <1>2 DEF Transfer
  <2> QED
    BY <1>1, <1>2, <2>2, <2>3
<1>3. CASE ReadScalar
  <2>1. Wanted(at) = 1
    BY <1>3 DEF ReadScalar, Wanted
  <2> QED
    BY <1>2, <1>3, <2>1 DEF ReadScalar
<1>4. CASE ReadLength
  <2>1. Wanted(at) = 1
    BY <1>4 DEF ReadLength, Wanted
  <2> QED
    BY <1>2, <1>4, <2>1 DEF ReadLength
<1>5. CASE ReadContent
  BY <1>2, <1>5 DEF ReadContent
<1>6. CASE RestoreFail
  <2>1. PICK n \in 0 .. Len(Cells(Wanted(at))) : overrun' = overrun \cup Overrun(at, n)
    BY <1>6 DEF RestoreFail
  <2> QED
    BY <1>1, <1>6, <2>1 DEF RestoreFail
<1>7. CASE SaveOpen \/ PowerLoss
  <2>1. overrun' = {}
    BY <1>7 DEF SaveOpen, PowerLoss, WellFormed
  <2> QED
    BY <2>1 DEF ReadsStayInside
<1>8. CASE \/ Play \/ SaveWrite \/ SaveFail \/ SaveClose \/ SaveCloseFail
           \/ RestoreOpen \/ RestoreClose \/ UNCHANGED vars
  <2>1. UNCHANGED <<story, last, overrun>>
    BY <1>8 DEF Play, SaveWrite, SaveFail, SaveClose, SaveCloseFail, RestoreOpen,
                RestoreClose, machine, vars
  <2> QED
    BY <2>1 DEF ReadsStayInside
<1> QED
  BY <1>3, <1>4, <1>5, <1>6, <1>7, <1>8 DEF Next

\* Whatever stories the interpreter is started with and whichever of them
\* SAVE.DAT is of, whole or the rest of a save that did not finish, a restore
\* never writes past the end of a stack's region; and it writes past the end of
\* dynamic memory only with the file of a story that has more of it.
THEOREM ReadsAreInside == Spec => []ReadsStayInside
<1>1. Init => ReadsStayInside
  BY DEF Init, ReadsStayInside
<1>2. IInv /\ ReadsStayInside /\ [Next]_vars => ReadsStayInside'
  BY InsideStep
<1> QED
  BY <1>1, <1>2, Inductive, PTL DEF Spec
=============================================================================
