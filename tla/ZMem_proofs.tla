----------------------------- MODULE ZMem_proofs -----------------------------
(***************************************************************************)
(* The window never lies, for every story, window and size of a bank.  The *)
(* invariant says that a window marked valid holds the bytes of the file   *)
(* at its base, that a bank is selected only while an instruction is being *)
(* decoded, and that the copy loop's cursor is as far from its start as it *)
(* has copied bytes.                                                       *)
(***************************************************************************)
EXTENDS ZMem, SequenceTheorems, TLAPS

(* Arithmetic of offsets.                                                  *)

LEMMA WindowMod ==
  ASSUME NEW a \in Nat
  PROVE  a % Window \in 0 .. Window - 1 /\ a % Window <= a
<1>1. Window \in Nat \ {0}
  BY SizesAssumption
<1>2. a % Window \in 0 .. Window - 1
  BY <1>1
<1>3. a = Window * (a \div Window) + (a % Window) /\ a \div Window \in Nat
  BY <1>1
<1>4. Window * (a \div Window) \in Nat
  BY <1>1, <1>3
<1> QED
  BY <1>2, <1>3, <1>4

LEMMA DivUnique ==
  ASSUME NEW s \in Nat \ {0}, NEW x \in Int, NEW m \in Int,
         NEW r \in 0 .. s - 1, x = m * s + r
  PROVE  x % s = r /\ x \div s = m
  BY SMT

LEMMA OffsetNat ==
  ASSUME NEW hi \in Nat
  PROVE  hi * AddrMod \in Nat /\ (hi # 0 => hi * AddrMod >= AddrMod)
<1>1. AddrMod \in Nat \ {0}
  BY SizesAssumption
<1> QED
  BY <1>1

LEMMA NextAddr ==
  ASSUME NEW hi \in Nat, NEW lo \in Addr
  PROVE  /\ (lo + 1) % AddrMod \in Addr /\ hi + (lo + 1) \div AddrMod \in Nat
         /\ (hi + (lo + 1) \div AddrMod) * AddrMod + ((lo + 1) % AddrMod) = hi * AddrMod + lo + 1
<1>1. AddrMod \in Nat \ {0}
  BY SizesAssumption
<1>2. CASE lo + 1 < AddrMod
  <2>1. (lo + 1) % AddrMod = lo + 1 /\ (lo + 1) \div AddrMod = 0
    <3>1. lo + 1 \in 0 .. AddrMod - 1 /\ lo + 1 = 0 * AddrMod + (lo + 1)
      BY <1>1, <1>2 DEF Addr
    <3> QED
      BY <1>1, <3>1, DivUnique
  <2> QED
    BY <1>1, <1>2, <2>1 DEF Addr
<1>3. CASE lo + 1 = AddrMod
  <2>1. (lo + 1) % AddrMod = 0 /\ (lo + 1) \div AddrMod = 1
    <3>1. lo + 1 = 1 * AddrMod + 0 /\ 0 \in 0 .. AddrMod - 1
      BY <1>1, <1>3
    <3> QED
      BY <1>1, <3>1, DivUnique
  <2>2. (hi + 1) * AddrMod = hi * AddrMod + AddrMod
    BY <1>1
  <2>3. lo \in Nat
    BY DEF Addr
  <2>4. (hi + (lo + 1) \div AddrMod) * AddrMod + ((lo + 1) % AddrMod) = (hi + 1) * AddrMod
    BY <1>1, <2>1
  <2>5. 0 \in Addr
    BY <1>1 DEF Addr
  <2>6. hi * AddrMod + AddrMod = hi * AddrMod + lo + 1
    <3> DEFINE o == hi * AddrMod
    <3>1. o \in Nat
      BY OffsetNat
    <3> HIDE DEF o
    <3>2. o + AddrMod = o + lo + 1
      BY <1>1, <1>3, <2>3, <3>1
    <3> QED
      BY <3>2 DEF o
  <2> QED
    BY <1>1, <2>1, <2>2, <2>3, <2>4, <2>5, <2>6
<1> QED
  BY <1>1, <1>2, <1>3 DEF Addr


-----------------------------------------------------------------------------
(* The window.                                                             *)

CacheType(c) ==
  /\ c = [ zcbase_hi |-> c.zcbase_hi, zcbase_lo |-> c.zcbase_lo, zcvalid |-> c.zcvalid,
           zccount |-> c.zccount, zcbuf |-> c.zcbuf, rc |-> c.rc ]
  /\ c.zcbase_hi \in Nat /\ c.zcbase_lo \in Addr
  /\ c.zcvalid \in BOOLEAN /\ c.zccount \in 0 .. Window /\ c.rc \in Byte
  /\ c.zcbuf \in [1 .. Window -> Byte]

\* The n bytes of the buffer are the file's at that offset.
Holds(buffer, offset, n) ==
  /\ offset + n <= Len(Story)
  /\ \A k \in 1 .. n : buffer[k] = Story[offset + k]

CacheOK(c) ==
  /\ CacheType(c)
  /\ c.zcvalid => Holds(c.zcbuf, c.zcbase_hi * AddrMod + c.zcbase_lo, c.zccount)

LEMMA SectorOK ==
  ASSUME NEW offset \in Nat
  PROVE  /\ Sector(offset) \in Seq(Byte) /\ Len(Sector(offset)) \in 0 .. Window
         /\ offset <= Len(Story) =>
              /\ offset + Len(Sector(offset)) <= Len(Story)
              /\ \A k \in 1 .. Len(Sector(offset)) : Sector(offset)[k] = Story[offset + k]
              /\ \A k \in 1 .. Window :
                   offset + k <= Len(Story) => k <= Len(Sector(offset))
<1>1. Story \in Seq(Byte) /\ Len(Story) \in Nat /\ Window \in Nat \ {0}
  BY StoryAssumption, SizesAssumption
<1>2. CASE offset + Window <= Len(Story)
  <2>1. Sector(offset) = SubSeq(Story, offset + 1, offset + Window)
    BY <1>2 DEF Sector
  <2> QED
    BY <1>1, <1>2, <2>1
<1>3. CASE ~ (offset + Window <= Len(Story))
  <2>1. Sector(offset) = SubSeq(Story, offset + 1, Len(Story))
    BY <1>3 DEF Sector
  <2> QED
    BY <1>1, <1>3, <2>1
<1> QED
  BY <1>2, <1>3

LEMMA OverwrittenOK ==
  ASSUME NEW b \in [1 .. Window -> Byte], NEW q \in Seq(Byte)
  PROVE  /\ Overwritten(b, q) \in [1 .. Window -> Byte]
         /\ \A k \in 1 .. Window : k <= Len(q) => Overwritten(b, q)[k] = q[k]
<1>1. \A k \in 1 .. Window : k <= Len(q) => q[k] \in Byte
  OBVIOUS
<1> QED
  BY <1>1 DEF Overwritten

\* A read that fails leaves a window that nothing is taken from.
LEMMA FailsOK ==
  ASSUME NEW c, CacheType(c), NEW hi \in Nat, NEW base \in Addr,
         NEW f \in ReadFails(c, hi, base)
  PROVE  CacheOK(f)
<1> DEFINE sector == Sector(hi * AddrMod + base)
<1>1. sector \in Seq(Byte) /\ Len(sector) \in Nat
  <2>1. hi * AddrMod + base \in Nat
    BY OffsetNat, SizesAssumption DEF Addr
  <2> QED
    BY <2>1, SectorOK
<1>2. PICK n \in 0 .. Len(sector) :
        f = [c EXCEPT !.zcbase_hi = hi, !.zcbase_lo = base, !.zcvalid = FALSE,
                      !.zcbuf = Overwritten(c.zcbuf, SubSeq(sector, 1, n))]
  <2> HIDE DEF sector
  <2>1. ReadFails(c, hi, base) =
          {[c EXCEPT !.zcbase_hi = hi, !.zcbase_lo = base, !.zcvalid = FALSE,
                     !.zcbuf = Overwritten(c.zcbuf, SubSeq(sector, 1, n))] :
             n \in 0 .. Len(sector)}
    BY Zenon DEF ReadFails, sector
  <2> QED
    BY <2>1, Zenon
<1> HIDE DEF sector
<1>3. SubSeq(sector, 1, n) \in Seq(Byte)
  BY <1>1, <1>2
<1> DEFINE b == Overwritten(c.zcbuf, SubSeq(sector, 1, n))
<1>4. b \in [1 .. Window -> Byte]
  BY <1>3, OverwrittenOK DEF CacheType
<1> HIDE DEF b
<1>5. f = [ zcbase_hi |-> hi, zcbase_lo |-> base, zcvalid |-> FALSE,
            zccount |-> c.zccount, zcbuf |-> b, rc |-> c.rc ]
  BY <1>2 DEF CacheType, b
<1> QED
  BY <1>4, <1>5 DEF CacheOK, CacheType

LEMMA WorksOK ==
  ASSUME NEW c, CacheType(c), NEW hi \in Nat, NEW base \in Addr,
         hi * AddrMod + base <= Len(Story)
  PROVE  LET offset == hi * AddrMod + base
             f == ReadWorks(c, hi, base)
         IN /\ CacheOK(f)
            /\ f.zccount = Len(Sector(offset))
            /\ f.zcbuf = Overwritten(c.zcbuf, Sector(offset))
<1> DEFINE offset == hi * AddrMod + base
           sector == Sector(offset)
           b == Overwritten(c.zcbuf, sector)
           f == ReadWorks(c, hi, base)
<1>1. offset \in Nat /\ ByteMod \in Nat \ {0}
  BY OffsetNat, SizesAssumption DEF Addr
<1>2. /\ sector \in Seq(Byte) /\ Len(sector) \in 0 .. Window
      /\ offset + Len(sector) <= Len(Story)
      /\ \A k \in 1 .. Len(sector) : sector[k] = Story[offset + k]
  BY <1>1, SectorOK
<1>3. f = [ zcbase_hi |-> hi, zcbase_lo |-> base, zcvalid |-> TRUE,
            zccount |-> Len(sector), zcbuf |-> b, rc |-> Len(sector) % ByteMod ]
  BY DEF ReadWorks
<1> HIDE DEF sector, b, f
<1>4. b \in [1 .. Window -> Byte] /\ \A k \in 1 .. Window : k <= Len(sector) => b[k] = sector[k]
  BY <1>2, OverwrittenOK DEF CacheType, b
<1>5. Len(sector) % ByteMod \in Byte
  BY <1>1, <1>2, SizesAssumption DEF Byte
<1>6. CacheType(f)
  BY <1>2, <1>3, <1>4, <1>5 DEF CacheType
<1>7. /\ f.zcbuf = b /\ f.zccount = Len(sector)
      /\ f.zcbase_hi * AddrMod + f.zcbase_lo = offset
  BY <1>3
<1>8. Holds(b, offset, Len(sector))
  <2> HIDE DEF offset
  <2>1. Window \in Nat
    BY SizesAssumption
  <2>2. \A k \in 1 .. Len(sector) : b[k] = Story[offset + k]
    BY <1>2, <1>4, <2>1
  <2> QED
    BY <1>2, <2>2 DEF Holds
<1> QED
  BY <1>6, <1>7, <1>8 DEF CacheOK, f, b, sector

\* An outcome r of a read at that offset.
Right(r, offset) ==
  /\ CacheOK(r.vm)
  /\ r.ok => offset < Len(Story) /\ r.value = Story[offset + 1] /\ r.value \in Byte

LEMMA Outcomes ==
  ASSUME NEW c, NEW v
  PROVE  /\ Value(c, v).ok /\ Value(c, v).vm = c /\ Value(c, v).value = v
         /\ ~ Fail(c).ok /\ Fail(c).vm = c
BY DEF Value, Fail

LEMMA StoryLength == Len(Story) \in Nat
BY StoryAssumption

\* What Holds says of a single byte.
LEMMA HeldByte ==
  ASSUME NEW b, NEW offset \in Nat, NEW n \in Nat, Holds(b, offset, n)
  PROVE  \A d \in 0 .. n - 1 :
           /\ offset + d < Len(Story) /\ b[d + 1] = Story[(offset + d) + 1]
           /\ Story[(offset + d) + 1] \in Byte
<1> TAKE d \in 0 .. n - 1
<1>1. d + 1 \in 1 .. n /\ offset + (d + 1) = (offset + d) + 1
  OBVIOUS
<1>2. b[d + 1] = Story[(offset + d) + 1] /\ offset + n <= Len(Story)
  BY <1>1 DEF Holds
<1>3. offset + d < Len(Story) /\ (offset + d) + 1 \in 1 .. Len(Story)
  BY <1>2, StoryLength
<1> QED
  BY <1>2, <1>3, StoryAssumption

LEMMA MissOK ==
  ASSUME NEW c, CacheOK(c), NEW hi \in Nat, NEW lo \in Addr, NEW r \in zcmiss(c, hi, lo)
  PROVE  Right(r, hi * AddrMod + lo)
<1> DEFINE base == lo - (lo % Window)
           filled == ReadWorks(c, hi, base)
           o == hi * AddrMod
<1>1. o \in Nat /\ base \in Addr /\ lo - base \in Nat /\ lo \in Nat
  BY OffsetNat, WindowMod, SizesAssumption DEF Addr
<1>2. CacheType(c)
  BY DEF CacheOK
<1>3. \/ \E f \in ReadFails(c, hi, base) : r = Fail(f)
      \/ /\ ~ (o + base > Len(Story))
         /\ \/ lo - base < filled.zccount /\ r = Value(filled, filled.zcbuf[lo - base + 1])
            \/ r = Fail(filled)
  <2> HIDE DEF base, filled
  <2>1. zcmiss(c, hi, lo) =
          {Fail(f) : f \in ReadFails(c, hi, base)} \cup
            (IF hi * AddrMod + base > Len(Story) THEN {}
             ELSE IF lo - base < filled.zccount
             THEN {Value(filled, filled.zcbuf[lo - base + 1])}
             ELSE {Fail(filled)})
    BY Zenon DEF zcmiss, base, filled
  <2> QED
    BY <2>1
<1>4. ASSUME NEW f \in ReadFails(c, hi, base), r = Fail(f)
      PROVE  Right(r, o + lo)
  <2> HIDE DEF base, o
  <2>1. CacheOK(f)
    BY <1>1, <1>2, <1>4, FailsOK
  <2> QED
    BY <1>4, <2>1, Outcomes DEF Right
<1>5. ASSUME ~ (o + base > Len(Story))
      PROVE  /\ CacheOK(filled)
             /\ lo - base < filled.zccount /\ r = Value(filled, filled.zcbuf[lo - base + 1])
                  => Right(r, o + lo)
  <2>1. o + base <= Len(Story)
    <3> HIDE DEF o, base
    <3>1. base \in Nat
      BY <1>1, SizesAssumption DEF Addr
    <3> QED
      BY <1>1, <1>5, <3>1, StoryLength
  <2>2. CacheOK(filled) /\ filled.zccount = Len(Sector(o + base))
        /\ filled.zcbase_hi = hi /\ filled.zcbase_lo = base /\ filled.zcvalid
    BY <1>1, <1>2, <2>1, WorksOK DEF ReadWorks
  <2> HIDE DEF filled, base
  <2>3. Holds(filled.zcbuf, o + base, filled.zccount) /\ filled.zccount \in Nat
    BY <2>2, SizesAssumption DEF CacheOK, CacheType
  <2> HIDE DEF o
  <2>4. ASSUME lo - base < filled.zccount, r = Value(filled, filled.zcbuf[lo - base + 1])
        PROVE  Right(r, o + lo)
    <3> DEFINE d == lo - base
    <3>1. o + base \in Nat /\ o + lo \in Nat /\ d \in Nat /\ (o + base) + d = o + lo
          /\ d < filled.zccount
      BY <1>1, <2>4, SizesAssumption DEF Addr
    <3>2. r = Value(filled, filled.zcbuf[d + 1])
      BY <2>4
    <3> DEFINE b == filled.zcbuf
               e == o + base
               n == filled.zccount
               p == o + lo
    <3>3. Holds(b, e, n) /\ n \in Nat /\ e \in Nat /\ p \in Nat /\ d \in Nat /\ e + d = p /\ d < n
      BY <2>3, <3>1
    <3> HIDE DEF d, b, e, n, p
    <3>4. d \in 0 .. n - 1
      BY <3>3
    <3>5. /\ e + d < Len(Story) /\ b[d + 1] = Story[(e + d) + 1]
         /\ Story[(e + d) + 1] \in Byte
      BY <3>3, <3>4, HeldByte
    <3>6. p < Len(Story) /\ b[d + 1] = Story[p + 1] /\ Story[p + 1] \in Byte
      BY <3>3, <3>5
    <3> QED
      BY <2>2, <3>2, <3>6, Outcomes DEF Right, b, p
  <2> QED
    BY <2>2, <2>4
<1> HIDE DEF filled, base, o
<1>6. Right(r, o + lo)
  BY <1>3, <1>4, <1>5, Outcomes DEF Right
<1> QED
  BY <1>6 DEF o

\* What the cache answers is what the file holds there.
LEMMA CachedOK ==
  ASSUME NEW c, CacheOK(c), NEW hi \in Nat, NEW lo \in Addr, NEW r \in zcread(c, hi, lo)
  PROVE  Right(r, hi * AddrMod + lo)
<1> DEFINE hit == /\ c.zcvalid /\ hi = c.zcbase_hi /\ lo >= c.zcbase_lo
                  /\ lo - c.zcbase_lo < c.zccount
<1>1. zcread(c, hi, lo) =
        IF hit THEN {Value(c, c.zcbuf[lo - c.zcbase_lo + 1])} ELSE zcmiss(c, hi, lo)
  BY DEF zcread
<1>2. CASE ~ hit
  <2>1. r \in zcmiss(c, hi, lo)
    BY <1>1, <1>2
  <2> QED
    BY <2>1, MissOK
<1>3. CASE hit
  <2> DEFINE b == c.zcbuf
             d == lo - c.zcbase_lo
             e == hi * AddrMod + c.zcbase_lo
             n == c.zccount
             p == hi * AddrMod + lo
  <2>1. r = Value(c, b[d + 1])
    BY <1>1, <1>3
  <2>2. Holds(b, e, n) /\ n \in Nat /\ c.zcbase_lo \in Nat /\ lo \in Nat
    BY <1>3, SizesAssumption DEF CacheOK, CacheType, Addr
  <2>3. e \in Nat /\ p \in Nat /\ d \in Nat /\ e + d = p /\ d < n
    <3> DEFINE o == hi * AddrMod
    <3>1. o \in Nat
      BY OffsetNat
    <3> HIDE DEF o
    <3>2. o + c.zcbase_lo \in Nat /\ o + lo \in Nat /\ d \in Nat
          /\ (o + c.zcbase_lo) + d = o + lo /\ d < n
      BY <1>3, <2>2, <3>1
    <3> QED
      BY <3>2 DEF o
  <2> HIDE DEF b, d, e, n, p
  <2>4. d \in 0 .. n - 1
    BY <2>2, <2>3
  <2>5. /\ e + d < Len(Story) /\ b[d + 1] = Story[(e + d) + 1]
       /\ Story[(e + d) + 1] \in Byte
    BY <2>2, <2>3, <2>4, HeldByte
  <2>6. p < Len(Story) /\ b[d + 1] = Story[p + 1] /\ Story[p + 1] \in Byte
    BY <2>3, <2>5
  <2> QED
    BY <2>1, <2>6, Outcomes DEF Right, p
<1> QED
  BY <1>2, <1>3

-----------------------------------------------------------------------------
(* Memory: an outcome r of a read at that offset of the story's image.     *)

Seen(r, offset) ==
  /\ CacheOK(r.vm)
  /\ r.ok => offset < Len(Story) /\ r.value = Image[offset] /\ r.value \in Byte

DynType == dyn \in [0 .. ZmEnd - 1 -> Byte]

LEMMA ImageAt ==
  ASSUME NEW o \in Nat, o < Len(Story)
  PROVE  Image[o] = IF o < ZmEnd THEN dyn[o] ELSE Story[o + 1]
<1>1. o \in 0 .. Len(Story) - 1
  BY StoryLength
<1> QED
  BY <1>1 DEF Image

LEMMA RightSeen ==
  ASSUME NEW r, NEW o \in Nat, o >= ZmEnd, Right(r, o)
  PROVE  Seen(r, o)
BY ImageAt, ZmEndAssumption DEF Right, Seen

LEMMA ReadSeen ==
  ASSUME DynType, NEW c, CacheOK(c), NEW bank \in Nat, NEW a \in Addr,
         NEW r \in zmread(c, bank, a)
  PROVE  Seen(r, bank * AddrMod + a)
<1> DEFINE o == bank * AddrMod
<1>1. o \in Nat /\ (bank # 0 => o >= AddrMod) /\ (bank = 0 => o = 0)
  BY OffsetNat, SizesAssumption
<1>2. a \in Nat
  BY SizesAssumption DEF Addr
<1>3. CASE bank = 0 /\ a < ZmEnd
  <2>1. r = Value(c, dyn[a])
    BY <1>3 DEF zmread
  <2>2. dyn[a] \in Byte /\ a < Len(Story) /\ o + a = a
    BY <1>1, <1>2, <1>3, ZmEndAssumption, StoryLength DEF DynType
  <2>3. Image[a] = dyn[a]
    BY <1>2, <1>3, <2>2, ImageAt
  <2> HIDE DEF o
  <2>4. Seen(r, o + a)
    BY <2>1, <2>2, <2>3, Outcomes DEF Seen
  <2> QED
    BY <2>4 DEF o
<1>4. CASE ~ (bank = 0 /\ a < ZmEnd)
  <2>1. r \in zcread(c, bank, a)
    BY <1>4 DEF zmread
  <2>2. Right(r, o + a)
    BY <2>1, CachedOK
  <2> HIDE DEF o
  <2>3. o + a \in Nat /\ o + a >= ZmEnd
    BY <1>1, <1>2, <1>4, ZmEndAssumption, SizesAssumption
  <2>4. Seen(r, o + a)
    BY <2>2, <2>3, RightSeen
  <2> QED
    BY <2>4 DEF o
<1> QED
  BY <1>3, <1>4

LEMMA WideSeen ==
  ASSUME DynType, zm_bank = 0, NEW c, CacheOK(c), NEW hi \in Nat, NEW lo \in Addr,
         NEW r \in zmread_wide(c, hi, lo)
  PROVE  Seen(r, hi * AddrMod + lo)
<1>1. CASE hi = 0
  BY <1>1, ReadSeen DEF zmread_wide
<1>2. CASE hi # 0
  <2>1. r \in zmread(c, hi, lo)
    BY <1>2 DEF zmread_wide, zmread
  <2> QED
    BY <2>1, ReadSeen
<1> QED
  BY <1>1, <1>2

\* The register that the high byte waits in is no part of the window.
LEMMA SetRc ==
  ASSUME NEW c, CacheOK(c), NEW byte \in Byte
  PROVE  CacheOK([c EXCEPT !.rc = byte])
BY DEF CacheOK, CacheType

LEMMA SettledOK ==
  ASSUME NEW c, CacheOK(c)
  PROVE  CacheOK(Settled(c))
<1>1. 0 \in Byte
  BY SizesAssumption DEF Byte
<1> QED
  BY <1>1, SetRc DEF Settled

LEMMA NextAddress ==
  ASSUME NEW a \in Addr
  PROVE  (a + 1) % AddrMod \in Addr
<1>1. AddrMod \in Nat \ {0} /\ a + 1 \in Nat
  BY SizesAssumption DEF Addr
<1> QED
  BY <1>1 DEF Addr

LEMMA Read16OK ==
  ASSUME DynType, zm_bank \in Nat, NEW c, CacheOK(c), NEW a \in Addr,
         NEW r \in zmread16(c, a)
  PROVE  CacheOK(r.vm)
<1> DEFINE b == (a + 1) % AddrMod
           Low(high) == zmread([high.vm EXCEPT !.rc = high.value], zm_bank, b)
<1>1. b \in Addr
  BY NextAddress
<1>2. zmread16(c, a) =
        UNION {IF high.ok
               THEN UNION {IF low.ok
                           THEN {Value(low.vm, ByteMod * low.vm.rc + low.value)}
                           ELSE {low} : low \in Low(high)}
               ELSE {high} : high \in zmread(c, zm_bank, a)}
  BY DEF zmread16, AndThen
<1>3. PICK high \in zmread(c, zm_bank, a) :
        r \in IF high.ok
              THEN UNION {IF low.ok
                          THEN {Value(low.vm, ByteMod * low.vm.rc + low.value)}
                          ELSE {low} : low \in Low(high)}
              ELSE {high}
  <2> HIDE DEF Low
  <2> QED
    BY <1>2
<1>4. CacheOK(high.vm) /\ (high.ok => high.value \in Byte)
  BY ReadSeen DEF Seen
<1>5. CASE ~ high.ok
  BY <1>3, <1>4, <1>5
<1>6. CASE high.ok
  <2>1. PICK low \in Low(high) :
          r \in IF low.ok THEN {Value(low.vm, ByteMod * low.vm.rc + low.value)} ELSE {low}
    <3> HIDE DEF Low
    <3> QED
      BY <1>3, <1>6
  <2>2. CacheOK([high.vm EXCEPT !.rc = high.value])
    BY <1>4, <1>6, SetRc
  <2> HIDE DEF b
  <2>3. CacheOK(low.vm)
    BY <1>1, <2>2, ReadSeen DEF Seen
  <2> QED
    BY <2>1, <2>3, Outcomes
<1> QED
  BY <1>5, <1>6

-----------------------------------------------------------------------------
(* The steps.  The inductive invariant is TypeOK with WindowIsFile, and    *)
(* for zmread_bytes where its cursor stands.                               *)

StateOK ==
  /\ CacheOK(zc) /\ DynType
  /\ zm_bank \in Bank
  /\ phase \in {"exec", "decode", "bytes", "stopped"}
  /\ phase \in {"exec", "bytes"} => zm_bank = 0

LEMMA StateOKMeans == StateOK <=> TypeOK /\ WindowIsFile
BY DEF StateOK, CacheOK, CacheType, Holds, DynType, TypeOK, WindowOK, WindowIsFile

\* The cursor is as far from where it started as there are bytes copied.
CopyOK ==
  phase = "bytes" =>
    /\ zmb = [ hi |-> zmb.hi, lo |-> zmb.lo, count |-> zmb.count,
               orig_count |-> zmb.orig_count, start |-> zmb.start, dest |-> zmb.dest ]
    /\ zmb.hi \in Nat /\ zmb.lo \in Addr /\ zmb.count \in Nat /\ zmb.orig_count \in Nat
    /\ zmb.start \in Nat /\ zmb.dest \in Seq(Byte)
    /\ Len(zmb.dest) = zmb.orig_count - zmb.count
    /\ zmb.hi * AddrMod + zmb.lo = zmb.start + Len(zmb.dest)
    /\ \A k \in 1 .. Len(zmb.dest) : zmb.dest[k] = Image[zmb.start + k - 1]

LEMMA InitOK == Init => StateOK /\ CopyOK
<1> SUFFICES ASSUME Init
             PROVE  StateOK /\ CopyOK
  OBVIOUS
<1>1. 0 \in Addr /\ 0 \in Byte /\ 0 \in Bank /\ 0 \in 0 .. Window
  BY SizesAssumption DEF Addr, Byte, Bank
<1>2. CacheOK(zc)
  BY <1>1 DEF Init, CacheOK, CacheType
<1>3. DynType
  <2>1. \A a \in 0 .. ZmEnd - 1 : Story[a + 1] \in Byte
    BY StoryAssumption, ZmEndAssumption, StoryLength
  <2> QED
    BY <2>1 DEF Init, DynType
<1> QED
  BY <1>1, <1>2, <1>3 DEF Init, StateOK, CopyOK

LEMMA DecodeOK ==
  ASSUME StateOK, CopyOK, (\E bank \in Bank : BeginDecode(bank)) \/ EndDecode
  PROVE  StateOK' /\ CopyOK'
<1>1. 0 \in Bank
  BY SizesAssumption DEF Bank
<1> QED
  BY <1>1 DEF StateOK, CopyOK, DynType, BeginDecode, EndDecode

LEMMA ReadOK ==
  ASSUME StateOK, CopyOK, NEW a \in Addr, Read(a) \/ Read16(a)
  PROVE  StateOK' /\ CopyOK'
<1>0. zm_bank \in Nat
  BY SizesAssumption DEF StateOK, Bank
<1>1. PICK r : r \in zmread(zc, zm_bank, a) \cup zmread16(zc, a)
               /\ zc' = Settled(r.vm) /\ phase' = PhaseAfter(r)
  BY DEF Read, Read16
<1>2. CacheOK(r.vm)
  BY <1>0, <1>1, ReadSeen, Read16OK DEF Seen, StateOK
<1>3. CacheOK(zc')
  BY <1>1, <1>2, SettledOK
<1>4. /\ UNCHANGED <<dyn, zm_bank, zmb>> /\ phase \in {"exec", "decode"}
      /\ phase' \in {phase, "stopped"}
  BY <1>1 DEF Read, Read16, PhaseAfter
<1> QED
  BY <1>3, <1>4 DEF StateOK, CopyOK, DynType

LEMMA WriteOK ==
  ASSUME DynType, NEW d, d \in [0 .. ZmEnd - 1 -> Byte], NEW a \in Addr, NEW byte \in WriteBytes
  PROVE  zmwrite(d, a, byte).vm \in [0 .. ZmEnd - 1 -> Byte]
<1>1. byte \in Byte
  BY WriteBytesAssumption
<1>2. zmwrite(d, a, byte).vm \in {d, [d EXCEPT ![a] = byte]}
  BY DEF zmwrite, Fail, Done, Value
<1> QED
  BY <1>1, <1>2

LEMMA WritesOK ==
  ASSUME StateOK, CopyOK, NEW a \in Addr, NEW high \in WriteBytes, NEW low \in WriteBytes,
         Write(a, high) \/ Write16(a, high, low)
  PROVE  StateOK' /\ CopyOK'
<1> DEFINE r == zmwrite(dyn, a, high)
           q == zmwrite(r.vm, (a + 1) % AddrMod, low)
<1>1. r.vm \in [0 .. ZmEnd - 1 -> Byte]
  BY WriteOK DEF StateOK, DynType
<1>2. q.vm \in [0 .. ZmEnd - 1 -> Byte]
  <2> HIDE DEF r
  <2> QED
    BY <1>1, NextAddress, WriteOK DEF StateOK
<1>3. dyn' \in {r.vm, q.vm}
  <2>1. zmwrite16(dyn, a, high, low) = IF r.ok THEN q ELSE r
    BY DEF zmwrite16, Then
  <2> HIDE DEF r, q
  <2> QED
    BY <2>1 DEF Write, Write16, r
<1> HIDE DEF r, q
<1>4. /\ UNCHANGED <<zc, zm_bank, zmb>> /\ phase = "exec" /\ phase' \in {phase, "stopped"}
  BY DEF Write, Write16, PhaseAfter
<1> QED
  BY <1>1, <1>2, <1>3, <1>4 DEF StateOK, CopyOK, DynType

LEMMA BeginBytesOK ==
  ASSUME StateOK, CopyOK, NEW hi \in Bank, NEW lo \in Addr, NEW count \in 1 .. MaxBytes,
         BeginBytes(hi, lo, count)
  PROVE  StateOK' /\ CopyOK'
<1>1. hi \in Nat /\ lo \in Nat /\ count \in Nat /\ hi * AddrMod + lo \in Nat
  <2>1. hi \in Nat /\ lo \in Nat /\ count \in Nat
    BY SizesAssumption DEF Bank, Addr
  <2>2. hi * AddrMod \in Nat
    BY <2>1, OffsetNat
  <2> QED
    BY <2>1, <2>2
<1>2. zmb' = [ hi |-> hi, lo |-> lo, count |-> count, orig_count |-> count,
               start |-> hi * AddrMod + lo, dest |-> <<>> ]
      /\ UNCHANGED <<zc, dyn, zm_bank>> /\ phase = "exec" /\ phase' = "bytes"
  BY DEF BeginBytes
<1>3. CopyOK'
  <2> DEFINE start == hi * AddrMod + lo
  <2>1. start \in Nat /\ hi * AddrMod + lo = start /\ start + 0 = start
    BY <1>1
  <2>2. zmb' = [ hi |-> hi, lo |-> lo, count |-> count, orig_count |-> count,
                 start |-> start, dest |-> <<>> ]
    BY <1>2
  <2> HIDE DEF start
  <2> QED
    BY <1>1, <2>1, <2>2 DEF CopyOK
<1> QED
  BY <1>2, <1>3 DEF StateOK, DynType

\* One byte more, across the end of a bank or not.
LEMMA NextByteOK ==
  ASSUME StateOK, CopyOK, NextByte
  PROVE  StateOK' /\ CopyOK'
<1>1. phase = "bytes" /\ zmb.count > 0 /\ UNCHANGED <<dyn, zm_bank, phase>>
  BY DEF NextByte
<1>2. PICK r \in zmread_wide(zc, zmb.hi, zmb.lo) :
        /\ r.ok /\ zc' = Settled(r.vm)
        /\ zmb' = [zmb EXCEPT !.hi = @ + (zmb.lo + 1) \div AddrMod,
                              !.lo = (@ + 1) % AddrMod, !.count = @ - 1,
                              !.dest = Append(@, r.value)]
  BY Zenon DEF NextByte
<1> DEFINE z == zmb
           n == Len(z.dest)
           hi == z.hi + ((z.lo + 1) \div AddrMod)
           lo == (z.lo + 1) % AddrMod
           d == Append(z.dest, r.value)
           o == z.start + n
<1>3. /\ z = [ hi |-> z.hi, lo |-> z.lo, count |-> z.count,
               orig_count |-> z.orig_count, start |-> z.start, dest |-> z.dest ]
      /\ z.hi \in Nat /\ z.lo \in Addr /\ z.count \in Nat /\ z.orig_count \in Nat
      /\ z.start \in Nat /\ z.dest \in Seq(Byte) /\ n \in Nat
      /\ n = z.orig_count - z.count
      /\ z.hi * AddrMod + z.lo = o
      /\ \A k \in 1 .. n : z.dest[k] = Image[z.start + k - 1]
  BY <1>1 DEF CopyOK
<1>4. Seen(r, z.hi * AddrMod + z.lo)
  BY <1>1, <1>3, WideSeen DEF StateOK
<1>5. CacheOK(zc') /\ r.value = Image[o] /\ r.value \in Byte
  BY <1>2, <1>3, <1>4, SettledOK DEF Seen
<1>6. /\ lo \in Addr /\ hi \in Nat
      /\ hi * AddrMod + lo = z.hi * AddrMod + z.lo + 1
  BY <1>3, NextAddr
<1>7. hi * AddrMod + lo = z.start + (n + 1)
  <2> DEFINE e == z.hi * AddrMod
             g == hi * AddrMod + lo
  <2>1. e \in Nat /\ z.lo \in Nat /\ g = e + z.lo + 1 /\ e + z.lo = o
    BY <1>3, <1>6, OffsetNat, SizesAssumption DEF Addr
  <2> HIDE DEF e, g
  <2>2. g = z.start + (n + 1)
    BY <1>3, <2>1
  <2> QED
    BY <2>2 DEF g
<1>8. zmb' = [ hi |-> hi, lo |-> lo, count |-> z.count - 1,
               orig_count |-> z.orig_count, start |-> z.start, dest |-> d ]
  BY <1>2, <1>3
<1>9. /\ d \in Seq(Byte) /\ Len(d) = n + 1
      /\ \A k \in 1 .. n : d[k] = z.dest[k]
      /\ d[n + 1] = r.value
  <2> DEFINE e == z.dest
             v == r.value
  <2>1. e \in Seq(Byte) /\ v \in Byte
    BY <1>3, <1>5
  <2> HIDE DEF e, v
  <2>2. /\ Append(e, v) \in Seq(Byte) /\ Len(Append(e, v)) = Len(e) + 1
        /\ \A k \in 1 .. Len(e) : Append(e, v)[k] = e[k]
        /\ Append(e, v)[Len(e) + 1] = v
    BY <2>1
  <2> QED
    BY <2>2 DEF e, v
<1>10. Image' = Image
  BY <1>1 DEF Image
<1> HIDE DEF z, n, hi, lo, d
<1>11. n \in Nat /\ z.start \in Nat
  BY <1>3
<1>12. \A k \in 1 .. n + 1 : d[k] = Image[z.start + k - 1]
  <2> TAKE k \in 1 .. n + 1
  <2>1. CASE k \in 1 .. n
    BY <1>3, <1>9, <2>1
  <2>2. CASE k = n + 1
    <3>1. z.start + k - 1 = o
      BY <1>11, <2>2
    <3> QED
      BY <1>5, <1>9, <2>2, <3>1
  <2> QED
    BY <1>11, <2>1, <2>2
<1>13. z.count - 1 \in Nat /\ n + 1 = z.orig_count - (z.count - 1)
  BY <1>1, <1>3 DEF z
<1>14. CopyOK'
  BY <1>3, <1>6, <1>7, <1>8, <1>9, <1>10, <1>12, <1>13 DEF CopyOK
<1> QED
  BY <1>1, <1>5, <1>14 DEF StateOK, DynType

LEMMA EndBytesOK ==
  ASSUME StateOK, CopyOK, StopBytes \/ EndBytes
  PROVE  StateOK' /\ CopyOK'
<1>1. CASE StopBytes
  <2>1. PICK r \in zmread_wide(zc, zmb.hi, zmb.lo) : ~ r.ok /\ zc' = Settled(r.vm)
    BY <1>1 DEF StopBytes
  <2>2. Seen(r, zmb.hi * AddrMod + zmb.lo)
    BY <1>1, WideSeen DEF StopBytes, StateOK, CopyOK
  <2>3. CacheOK(zc')
    BY <2>1, <2>2, SettledOK DEF Seen
  <2>4. UNCHANGED <<dyn, zm_bank>> /\ phase = "bytes" /\ phase' \in {"exec", "stopped"}
    BY <1>1 DEF StopBytes
  <2> QED
    BY <2>3, <2>4 DEF StateOK, CopyOK, DynType
<1>2. CASE EndBytes
  BY <1>2 DEF EndBytes, StateOK, CopyOK, DynType
<1> QED
  BY <1>1, <1>2

LEMMA StepOK == StateOK /\ CopyOK /\ [Next]_vars => StateOK' /\ CopyOK'
<1> SUFFICES ASSUME StateOK, CopyOK, [Next]_vars
             PROVE  StateOK' /\ CopyOK'
  OBVIOUS
<1>1. CASE UNCHANGED vars
  <2>1. Image' = Image
    BY <1>1 DEF vars, Image
  <2> QED
    BY <1>1, <2>1 DEF vars, StateOK, CopyOK, DynType
<1>2. ASSUME NEW a \in Addr, NEW byte \in WriteBytes, Write(a, byte)
      PROVE  StateOK' /\ CopyOK'
  BY <1>2, WritesOK
<1> QED
  BY <1>1, <1>2, DecodeOK, ReadOK, WritesOK, BeginBytesOK, NextByteOK, EndBytesOK DEF Next

LEMMA Inductive == Spec => [](StateOK /\ CopyOK)
BY InitOK, StepOK, PTL DEF Spec

\* Every cell of the memory routines keeps its range in every order of reads,
\* writes and copies, and a bank other than 0 is only ever set while an
\* instruction is decoded, so that no operand is read from another bank.
THEOREM TypeCorrect == Spec => []TypeOK
BY Inductive, StateOKMeans, PTL

\* Whatever sequence of hits, misses, short reads and failing calls of the
\* kernel came before, a window that counts as valid holds the bytes of the
\* file at its base, for every file, window and size of a bank.
THEOREM WindowHoldsFile == Spec => []WindowIsFile
BY Inductive, StateOKMeans, PTL

\* No read returns a byte that is not the story's at that address, whichever
\* bank it names and whatever is in the window.
THEOREM ReadsAreTheImage == Spec => []ReadsAreImage
<1>1. StateOK => ReadsAreImage
  <2> SUFFICES ASSUME StateOK
               PROVE  ReadsAreImage
    OBVIOUS
  <2>1. /\ CacheOK(zc) /\ DynType /\ zm_bank \in Nat
        /\ phase \in {"exec", "bytes"} => zm_bank = 0
    BY SizesAssumption DEF StateOK, Bank
  <2>2. \A a \in Addr : \A r \in zmread(zc, zm_bank, a) : Seen(r, zm_bank * AddrMod + a)
    BY <2>1, ReadSeen
  <2>3. phase \in {"exec", "bytes"} =>
          \A hi \in Bank, lo \in Addr : \A r \in zmread_wide(zc, hi, lo) :
            Seen(r, hi * AddrMod + lo)
    <3>1. \A hi \in Bank : hi \in Nat
      BY SizesAssumption DEF Bank
    <3> QED
      BY <2>1, <3>1, WideSeen
  <2> QED
    BY <2>2, <2>3 DEF ReadsAreImage, Seen
<1> QED
  BY <1>1, Inductive, PTL

\* zmread_bytes copies the story's bytes from its start address on, without a
\* gap or a repetition where the address carries into the next bank, and
\* nothing the routine does in between changes what it has copied.
THEOREM BytesAreTheImage == Spec => []BytesAreImage
<1>1. CopyOK => BytesAreImage
  BY DEF CopyOK, BytesAreImage
<1> QED
  BY <1>1, Inductive, PTL

\* As long as the kernel answers, each byte of the story can be read.
THEOREM InsideStaysReadable == Spec => []InsideIsReadable
<1>1. ASSUME StateOK, NEW hi \in Nat, NEW lo \in Addr, hi * AddrMod + lo < Len(Story)
      PROVE  \E r \in zcread(zc, hi, lo) : r.ok
  <2> DEFINE o == hi * AddrMod
             base == lo - (lo % Window)
             filled == ReadWorks(zc, hi, base)
  <2>1. /\ o \in Nat /\ lo \in Nat /\ base \in Nat /\ base <= lo /\ lo - base < Window
        /\ base \in Addr /\ lo - base \in Nat
    BY OffsetNat, WindowMod, SizesAssumption DEF Addr
  <2>2. CacheType(zc)
    BY <1>1 DEF StateOK, CacheOK
  <2>3. zcmiss(zc, hi, lo) =
          {Fail(f) : f \in ReadFails(zc, hi, base)} \cup
            (IF o + base > Len(Story) THEN {}
             ELSE IF lo - base < filled.zccount
             THEN {Value(filled, filled.zcbuf[lo - base + 1])}
             ELSE {Fail(filled)})
    BY DEF zcmiss
  <2>4. o + lo < Len(Story)
    BY <1>1
  <2>5. ~ (o + base > Len(Story)) /\ lo - base < filled.zccount
    <3>1. o + base <= Len(Story)
      <4> HIDE DEF o, base
      <4> QED
        BY <2>1, <2>4, StoryLength
    <3>2. filled.zccount = Len(Sector(o + base))
      BY <2>1, <2>2, <3>1, WorksOK
    <3> DEFINE k == (lo - base) + 1
               e == o + base
    <3>3. e \in Nat /\ k \in 1 .. Window /\ e + k <= Len(Story) /\ e <= Len(Story)
      <4> HIDE DEF o, base
      <4> QED
        BY <2>1, <2>4, <3>1, SizesAssumption, StoryLength
    <3> HIDE DEF e, k
    <3>4. k <= Len(Sector(e)) /\ Len(Sector(e)) \in Nat
      BY <3>3, SectorOK, SizesAssumption
    <3> HIDE DEF o, base, filled
    <3> QED
      BY <2>1, <3>1, <3>2, <3>4, StoryLength DEF e, k
  <2> HIDE DEF o, base, filled
  <2>6. Value(filled, filled.zcbuf[lo - base + 1]) \in zcmiss(zc, hi, lo)
    BY <2>3, <2>5
  <2>7. \E r \in zcmiss(zc, hi, lo) : r.ok
    BY <2>6, Outcomes
  <2> QED
    BY <2>7, Outcomes DEF zcread
<1>2. StateOK => InsideIsReadable
  <2> SUFFICES ASSUME StateOK, NEW hi \in Bank, NEW lo \in Addr,
                      phase \in {"exec", "bytes"}, hi * AddrMod + lo < Len(Story)
               PROVE  \E r \in zmread_wide(zc, hi, lo) : r.ok
    BY DEF InsideIsReadable
  <2>1. hi \in Nat /\ zm_bank = 0
    BY SizesAssumption DEF Bank, StateOK
  <2>2. zmread_wide(zc, hi, lo) = zmread(zc, hi, lo)
    BY <2>1 DEF zmread_wide, zmread
  <2>3. \E r \in zcread(zc, hi, lo) : r.ok
    BY <1>1, <2>1
  <2>4. \E r \in zmread(zc, hi, lo) : r.ok
    BY <2>3, Outcomes DEF zmread
  <2> QED
    BY <2>2, <2>4
<1> QED
  BY <1>2, Inductive, PTL
=============================================================================
