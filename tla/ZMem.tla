-------------------------------- MODULE ZMem --------------------------------
(***************************************************************************)
(* Story memory on the port: lib/zmem.asm and lib/zcache.asm.  Dynamic     *)
(* memory is resident; everything behind it is read from the story file    *)
(* through one window.  A routine yields the set of its outcomes, since    *)
(* each of the kernel's file calls may fail; the machine an outcome leaves *)
(* behind is the window.  The kernel is modelled from its use and from     *)
(* include/kernel_api.inc.                                                 *)
(***************************************************************************)
EXTENDS Integers, SequencesExt, FiniteSetsExt, StoryMem

CONSTANTS
  ByteMod,     \* 2^8 in the code
  AddrMod,     \* 2^16 in the code
  Banks,       \* how many banks of AddrMod bytes are read from
  Window,      \* 512 in the code: bytes of the cache's one buffer
  Story,       \* the story file, a sequence of bytes
  ZmEnd,       \* zmend: how many bytes are dynamic
  WriteBytes,  \* bytes a story writes
  MaxBytes     \* bound on the count of zmread_bytes

Byte == 0 .. ByteMod - 1
Addr == 0 .. AddrMod - 1
Bank == 0 .. Banks - 1

ASSUME SizesAssumption ==
  /\ ByteMod \in Nat \ {0} /\ Window \in Nat \ {0} /\ Banks \in Nat \ {0}
  /\ AddrMod \in Nat \ {0} /\ AddrMod % Window = 0 /\ MaxBytes \in Nat
ASSUME StoryAssumption == Story \in Seq(Byte)
ASSUME ZmEndAssumption == ZmEnd \in Nat /\ ZmEnd <= Len(Story) /\ ZmEnd < AddrMod
ASSUME WriteBytesAssumption == WriteBytes \subseteq Byte

VARIABLES
  zc,       \* the cache and the byte of the register RC that zmread16 uses
  dyn,      \* resident dynamic memory
  zm_bank,  \* the bank of zmread's addresses behind dynamic memory
  zmb,      \* zmread_bytes: where it is, and what it has copied
  phase     \* "exec", "decode", "bytes", or "stopped" by a failure

vars == <<zc, dyn, zm_bank, zmb, phase>>

\* One routine after another; a failure of the first is the failure of both.
AndThen(outcomes, Next1(_)) == UNION {IF r.ok THEN Next1(r) ELSE {r} : r \in outcomes}

-----------------------------------------------------------------------------
(* The cache.                                                              *)

\* K_FILE_READ at that offset: a full window, or what there is of one.
Sector(offset) ==
  SubSeq(Story, offset + 1, IF offset + Window <= Len(Story)
                            THEN offset + Window ELSE Len(Story))

Overwritten(buffer, cells) ==
  [k \in 1 .. Window |-> IF k <= Len(cells) THEN cells[k] ELSE buffer[k]]

(* Definitions named .._mutant are slips that the code does not have; no    *)
(* specification uses them.                                                *)

ReadFails_mutant(c, hi, base) ==
  {[c EXCEPT !.zcbase_hi = hi, !.zcbase_lo = base]}

\* The seek or the read fails, the read possibly with part of the buffer
\* overwritten; the base has moved already, so the window is given up.
ReadFails(c, hi, base) ==
  LET sector == Sector(hi * AddrMod + base)
  IN {[c EXCEPT !.zcbase_hi = hi, !.zcbase_lo = base, !.zcvalid = FALSE,
                !.zcbuf = Overwritten(c.zcbuf, SubSeq(sector, 1, n))] :
        n \in 0 .. Len(sector)}

ReadWorks(c, hi, base) ==
  LET sector == Sector(hi * AddrMod + base)
  IN [ zcbase_hi |-> hi, zcbase_lo |-> base, zcvalid |-> TRUE,
       zccount |-> Len(sector), zcbuf |-> Overwritten(c.zcbuf, sector),
       rc |-> Len(sector) % ByteMod ]

zcmiss_mutant(c, hi, lo) ==
  LET base == lo - (lo % Window)
      filled == ReadWorks(c, hi, base)
  IN {Fail(f) : f \in ReadFails(c, hi, base)} \cup
       (IF hi * AddrMod + base > Len(Story) THEN {}
        ELSE IF lo - base < c.zccount THEN {Value(filled, filled.zcbuf[lo - base + 1])}
        ELSE {Fail(filled)})

\* The offset is compared once more, and a byte behind the end of the file is
\* not there.  The kernel refuses to seek behind the end.
zcmiss(c, hi, lo) ==
  LET base == lo - (lo % Window)
      filled == ReadWorks(c, hi, base)
  IN {Fail(f) : f \in ReadFails(c, hi, base)} \cup
       (IF hi * AddrMod + base > Len(Story) THEN {}
        ELSE IF lo - base < filled.zccount
        THEN {Value(filled, filled.zcbuf[lo - base + 1])}
        ELSE {Fail(filled)})

zcread(c, hi, lo) ==
  IF /\ c.zcvalid /\ hi = c.zcbase_hi /\ lo >= c.zcbase_lo
     /\ lo - c.zcbase_lo < c.zccount
  THEN {Value(c, c.zcbuf[lo - c.zcbase_lo + 1])}
  ELSE zcmiss(c, hi, lo)

-----------------------------------------------------------------------------
(* Memory.                                                                 *)

zmread_mutant(c, bank, a) ==
  IF a < ZmEnd THEN {Value(c, dyn[a])} ELSE zcread(c, bank, a)

zmread(c, bank, a) ==
  IF bank = 0 /\ a < ZmEnd THEN {Value(c, dyn[a])} ELSE zcread(c, bank, a)

\* With a high word of 0, bank and all, zmread's address.
zmread_wide(c, hi, lo) ==
  IF hi = 0 THEN zmread(c, zm_bank, lo) ELSE zcread(c, hi, lo)

\* The high byte waits in RC for the low byte to be read.
zmread16(c, a) ==
  AndThen(zmread(c, zm_bank, a), LAMBDA high :
    AndThen(zmread([high.vm EXCEPT !.rc = high.value], zm_bank, (a + 1) % AddrMod),
            LAMBDA low : {Value(low.vm, ByteMod * low.vm.rc + low.value)}))

\* Here what is left behind is dynamic memory; zm_bank is not looked at.
zmwrite(d, a, byte) ==
  IF a >= ZmEnd THEN Fail(d) ELSE Done([d EXCEPT ![a] = byte])

\* The high byte stays written when the low one cannot be.
zmwrite16(d, a, high, low) ==
  Then(zmwrite(d, a, high), LAMBDA r : zmwrite(r.vm, (a + 1) % AddrMod, low))

-----------------------------------------------------------------------------
(* A failed read or write stops the interpreter, except in zmread_bytes.   *)
(* RC is a scratch register: the model forgets it between two routines.    *)
Settled(c) == [c EXCEPT !.rc = 0]
PhaseAfter(r) == IF r.ok THEN phase ELSE "stopped"
NoBytes == [hi |-> 0, lo |-> 0, count |-> 0, orig_count |-> 0, start |-> 0, dest |-> <<>>]

\* zdisp_step around zdecode_instruction: only there is zm_bank not 0.
BeginDecode(bank) ==
  /\ phase = "exec"
  /\ phase' = "decode" /\ zm_bank' = bank
  /\ UNCHANGED <<zc, dyn, zmb>>

EndDecode_mutant ==
  /\ phase = "decode"
  /\ phase' = "exec"
  /\ UNCHANGED <<zc, dyn, zm_bank, zmb>>

EndDecode ==
  /\ phase = "decode"
  /\ phase' = "exec" /\ zm_bank' = 0
  /\ UNCHANGED <<zc, dyn, zmb>>

Read(a) ==
  /\ phase \in {"exec", "decode"}
  /\ \E r \in zmread(zc, zm_bank, a) : zc' = Settled(r.vm) /\ phase' = PhaseAfter(r)
  /\ UNCHANGED <<dyn, zm_bank, zmb>>

Read16(a) ==
  /\ phase = "exec"
  /\ \E r \in zmread16(zc, a) : zc' = Settled(r.vm) /\ phase' = PhaseAfter(r)
  /\ UNCHANGED <<dyn, zm_bank, zmb>>

Write(a, byte) ==
  /\ phase = "exec"
  /\ LET r == zmwrite(dyn, a, byte) IN dyn' = r.vm /\ phase' = PhaseAfter(r)
  /\ UNCHANGED <<zc, zm_bank, zmb>>

Write16(a, high, low) ==
  /\ phase = "exec"
  /\ LET r == zmwrite16(dyn, a, high, low) IN dyn' = r.vm /\ phase' = PhaseAfter(r)
  /\ UNCHANGED <<zc, zm_bank, zmb>>

BeginBytes(hi, lo, count) ==
  /\ phase = "exec"
  /\ zmb' = [ hi |-> hi, lo |-> lo, count |-> count, orig_count |-> count,
              start |-> hi * AddrMod + lo, dest |-> <<>> ]
  /\ phase' = "bytes"
  /\ UNCHANGED <<zc, dyn, zm_bank>>

NextByte_mutant ==
  /\ phase = "bytes" /\ zmb.count > 0
  /\ \E r \in zmread_wide(zc, zmb.hi, zmb.lo) :
       /\ r.ok /\ zc' = Settled(r.vm)
       /\ zmb' = [zmb EXCEPT !.lo = (@ + 1) % AddrMod, !.count = @ - 1,
                             !.dest = Append(@, r.value)]
  /\ UNCHANGED <<dyn, zm_bank, phase>>

\* A carry out of the address goes into its high word.
NextByte ==
  /\ phase = "bytes" /\ zmb.count > 0
  /\ \E r \in zmread_wide(zc, zmb.hi, zmb.lo) :
       /\ r.ok /\ zc' = Settled(r.vm)
       /\ zmb' = [zmb EXCEPT !.hi = @ + (zmb.lo + 1) \div AddrMod,
                             !.lo = (@ + 1) % AddrMod, !.count = @ - 1,
                             !.dest = Append(@, r.value)]
  /\ UNCHANGED <<dyn, zm_bank, phase>>

\* The routine ends when a byte cannot be read, and fails if it was the first.
StopBytes ==
  /\ phase = "bytes" /\ zmb.count > 0
  /\ \E r \in zmread_wide(zc, zmb.hi, zmb.lo) : ~ r.ok /\ zc' = Settled(r.vm)
  /\ phase' = IF zmb.orig_count - zmb.count = 0 THEN "stopped" ELSE "exec"
  /\ zmb' = NoBytes
  /\ UNCHANGED <<dyn, zm_bank>>

EndBytes ==
  /\ phase = "bytes" /\ zmb.count = 0
  /\ phase' = "exec" /\ zmb' = NoBytes
  /\ UNCHANGED <<zc, dyn, zm_bank>>

\* After zminit and zcinit; the buffer is whatever the heap block held.
Init ==
  /\ zc = [ zcbase_hi |-> 0, zcbase_lo |-> 0, zcvalid |-> FALSE, zccount |-> 0,
            zcbuf |-> [k \in 1 .. Window |-> 0], rc |-> 0 ]
  /\ dyn = [a \in 0 .. ZmEnd - 1 |-> Story[a + 1]]
  /\ zm_bank = 0 /\ zmb = NoBytes /\ phase = "exec"

Next ==
  \/ \E bank \in Bank : BeginDecode(bank)
  \/ EndDecode
  \/ \E a \in Addr : Read(a) \/ Read16(a)
  \/ \E a \in Addr, byte \in WriteBytes : Write(a, byte)
  \/ \E a \in Addr, high, low \in WriteBytes : Write16(a, high, low)
  \/ \E hi \in Bank, lo \in Addr, count \in 1 .. MaxBytes : BeginBytes(hi, lo, count)
  \/ NextByte \/ StopBytes \/ EndBytes

Spec == Init /\ [][Next]_vars

-----------------------------------------------------------------------------
\* What the story sees: the file with the changes made to dynamic memory.
Image ==
  [offset \in 0 .. Len(Story) - 1 |->
     IF offset < ZmEnd THEN dyn[offset] ELSE Story[offset + 1]]

WindowOK ==
  /\ zc.zcbase_hi \in Nat /\ zc.zcbase_lo \in Addr
  /\ zc.zcvalid \in BOOLEAN /\ zc.zccount \in 0 .. Window /\ zc.rc \in Byte
  /\ zc.zcbuf \in [1 .. Window -> Byte]

\* Every cell stays in its range, and bytes are copied from where the caller
\* said.
TypeOK ==
  /\ zc = [ zcbase_hi |-> zc.zcbase_hi, zcbase_lo |-> zc.zcbase_lo,
            zcvalid |-> zc.zcvalid, zccount |-> zc.zccount,
            zcbuf |-> zc.zcbuf, rc |-> zc.rc ]
  /\ WindowOK
  /\ dyn \in [0 .. ZmEnd - 1 -> Byte]
  /\ zm_bank \in Bank
  /\ phase \in {"exec", "decode", "bytes", "stopped"}
  /\ phase \in {"exec", "bytes"} => zm_bank = 0

\* A window taken for valid holds, up to its count, the file's bytes at its
\* base, whatever sequence of hits, misses, short and failed reads came before.
WindowIsFile ==
  zc.zcvalid =>
    LET base == zc.zcbase_hi * AddrMod + zc.zcbase_lo
    IN /\ base + zc.zccount <= Len(Story)
       /\ \A k \in 1 .. zc.zccount : zc.zcbuf[k] = Story[base + k]

\* No read ever returns a byte that is not the story's at that address: not
\* dynamic memory for an address in another bank, not the file's copy of
\* dynamic memory, not the rest of an older window.
ReadsAreImage ==
  /\ \A a \in Addr : \A r \in zmread(zc, zm_bank, a) :
       r.ok => /\ zm_bank * AddrMod + a < Len(Story)
               /\ r.value = Image[zm_bank * AddrMod + a]
  /\ phase \in {"exec", "bytes"} =>
       \A hi \in Bank, lo \in Addr : \A r \in zmread_wide(zc, hi, lo) :
         r.ok => /\ hi * AddrMod + lo < Len(Story)
                 /\ r.value = Image[hi * AddrMod + lo]

\* What zmread_bytes has copied is what the story holds from the start address
\* on, without a gap at the boundary of a bank.
BytesAreImage ==
  phase = "bytes" =>
    /\ Len(zmb.dest) = zmb.orig_count - zmb.count
    /\ \A k \in 1 .. Len(zmb.dest) : zmb.dest[k] = Image[zmb.start + k - 1]

\* As long as the kernel's calls succeed, each byte of the story can be read,
\* whatever is in the window: the cache never reports the end of the file
\* before it.
InsideIsReadable ==
  \A hi \in Bank, lo \in Addr :
    phase \in {"exec", "bytes"} /\ hi * AddrMod + lo < Len(Story) =>
      \E r \in zmread_wide(zc, hi, lo) : r.ok

\* lib/zmem.asm on zmread16: "Returns RF = big-endian word", which is what the
\* reference returns.
WordsAreImage ==
  LET host == [a \in {x \in Addr : x < Len(Story)} |-> Image[a]]
  IN phase = "exec" =>
       \A a \in 0 .. AddrMod - 2 : \A r \in zmread16(zc, a) :
         r.ok => r.value = story_mem_read16(host, AddrMod - 1, a, ByteMod).value
=============================================================================
