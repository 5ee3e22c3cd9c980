------------------------------ MODULE ZLoad ------------------------------
(***************************************************************************)
(* zload_story, with zheader_parse, zdict_init and the bump allocator: the *)
(* story file is opened, its dynamic memory read into a block of the arena *)
(* and its dictionary into another, with any kernel call allowed to fail   *)
(* and the file any length.  zload_fail_stage, which the code sets before  *)
(* everything that can fail, is where the loader is.  The headers of file  *)
(* and dictionary are what the loader's buffers hold once read: of a file  *)
(* too short for them, the rest is whatever was there.                     *)
(***************************************************************************)
EXTENDS HeapBump, Sequences

CONSTANTS
  Stories,     \* story files: header, dictionary and length
  LoaderArgs,  \* what the kernel's loader leaves to the program
  HeaderSize,  \* 64 in the code
  GlobalsMin,  \* 12
  StackSize,   \* 512
  FramesSize,  \* 592
  PrefixSize   \* 16

Header == [ is_v3 : BOOLEAN, high_memory : Word, dictionary : Word, object_table : Word,
            globals : Word, dynamic_end : Word, abbrev_table : Word ]
DictHeader == [separators : Nat, entry_length : Nat, entry_count : Word]
Story == [header : Header, dict : DictHeader, length : Nat]
Block == [at : Word, size : Word]
NoDict == [entries |-> 0, entry_length |-> 0, entry_count |-> 0]

ASSUME SizesAssumption ==
  /\ HeaderSize \in Nat /\ GlobalsMin \in Nat
  /\ StackSize \in Word /\ FramesSize \in Word /\ PrefixSize \in Word \ {0}
ASSUME StoriesAssumption == Stories \subseteq Story
ASSUME ArgsAssumption ==
  LoaderArgs \subseteq { a \in [mem_base : Word \ {0}, mem_top : Word] : a.mem_base <= a.mem_top }

VARIABLES
  story,             \* the file on the disk
  args,              \* the bounds of the arena, both usable
  bump_next,         \* the first byte of it that is still free
  zload_fail_stage,
  outcome,           \* "loading", "loaded" or "failed"
  zload_fcb,         \* "closed" or "open"
  granted,           \* blocks for dynamic memory, stack, frames, dictionary
  filled,            \* bytes of dynamic memory that came from the file
  zdi                \* zdict_init's view of the dictionary in its block

vars == <<story, args, bump_next, zload_fail_stage, outcome, zload_fcb, granted, filled, zdi>>
given == <<story, args>>

header == story.header
DictBlock == granted[4]

-----------------------------------------------------------------------------
\* The place of the dictionary is not checked.
zheader_parse(h) ==
  /\ h.is_v3
  /\ h.dynamic_end >= HeaderSize
  /\ h.high_memory >= h.dynamic_end
  /\ h.object_table < h.dynamic_end
  /\ h.globals >= GlobalsMin /\ h.globals < h.dynamic_end
  /\ h.abbrev_table < h.dynamic_end

\* zmread gets a byte from the block below dynamic_end, whether the file
\* filled it or not, and from the file above.
Readable(at) == at < header.dynamic_end \/ at < story.length

CanRead_mutant(count) == count = 0 \/ Readable(header.dictionary)

\* zmread_bytes returns fewer bytes without a failure, which the loader sees.
CanRead(count) == \A i \in 0 .. count - 1 : Readable(header.dictionary + i)

\* A negative count says that the entries are not sorted.
Magnitude(count) == IF 2 * count >= WordMod THEN WordMod - count ELSE count

DictTotal_mutant(d) == (4 + Magnitude(d.entry_count) * d.entry_length) % WordMod

DictTotal(d) ==
  (4 + d.separators + Magnitude(d.entry_count) * d.entry_length) % WordMod

\* The prefix holds the dictionary's header up to its entry count.
PrefixHolds(d) == d.separators + 4 <= PrefixSize

-----------------------------------------------------------------------------
At(stage) == outcome = "loading" /\ zload_fail_stage = stage

Proceed == zload_fail_stage' = zload_fail_stage + 1 /\ UNCHANGED <<given, outcome, zdi>>

zls_fail ==
  /\ outcome' = "failed" /\ zload_fcb' = "closed"
  /\ UNCHANGED <<given, zload_fail_stage, granted, filled, zdi>>

\* Some of the bytes that the dictionary's read wants are behind dynamic memory.
FromFile(count) == count > 0 /\ header.dictionary + count > header.dynamic_end

\* The kernel call of the stage fails, or one that zmread makes.
KernelFails ==
  /\ outcome = "loading"
  /\ \/ zload_fail_stage \in {1, 2, 5, 6}
     \/ zload_fail_stage = 9 /\ FromFile(PrefixSize)
     \/ zload_fail_stage = 11 /\ FromFile(DictBlock.size)
  /\ zls_fail /\ UNCHANGED bump_next

Open == At(1) /\ Proceed /\ zload_fcb' = "open" /\ UNCHANGED <<bump_next, granted, filled>>

\* The count of bytes read is not looked at.
ReadHeader == At(2) /\ Proceed /\ UNCHANGED <<bump_next, zload_fcb, granted, filled>>

ParseHeader ==
  /\ At(3) /\ UNCHANGED bump_next
  /\ IF zheader_parse(header) THEN Proceed /\ UNCHANGED <<zload_fcb, granted, filled>>
     ELSE zls_fail

\* bump_alloc returns 0 for a refusal, and a block at address 0 looks like one.
bump_alloc(size) ==
  IF Fits(bump_next, args.mem_top, size)
  THEN /\ bump_next' = Behind(bump_next, size)
       /\ IF bump_next = 0 THEN zls_fail
          ELSE /\ granted' = Append(granted, [at |-> bump_next, size |-> size])
               /\ Proceed /\ UNCHANGED <<zload_fcb, filled>>
  ELSE zls_fail /\ UNCHANGED bump_next

AllocDynbuf == At(4) /\ bump_alloc(header.dynamic_end)

SeekStart == At(5) /\ Proceed /\ UNCHANGED <<bump_next, zload_fcb, granted, filled>>

\* The count of bytes read is not looked at here either.
ReadDynbuf ==
  /\ At(6) /\ Proceed /\ UNCHANGED <<bump_next, zload_fcb, granted>>
  /\ filled' = IF story.length < header.dynamic_end THEN story.length ELSE header.dynamic_end

AllocStack == At(7) /\ bump_alloc(StackSize)

AllocFrames == At(8) /\ bump_alloc(FramesSize)

ReadPrefix ==
  /\ At(9) /\ UNCHANGED bump_next
  /\ IF CanRead(PrefixSize) THEN Proceed /\ UNCHANGED <<zload_fcb, granted, filled>>
     ELSE zls_fail

\* With more separators than the prefix holds, length and count are bytes of
\* the loader's own variables, and the total is anything.
AllocDict ==
  /\ At(10)
  /\ \E total \in IF PrefixHolds(story.dict) THEN {DictTotal(story.dict)} ELSE Word :
       bump_alloc(total)

\* The whole table, then zdict_init and the initial program counter.
ReadDict ==
  /\ At(11) /\ UNCHANGED bump_next
  /\ IF CanRead(DictBlock.size)
     THEN /\ outcome' = "loaded"
          /\ zdi' = [ entries |-> DictBlock.at + 4 + story.dict.separators,
                      entry_length |-> story.dict.entry_length,
                      entry_count |-> story.dict.entry_count ]
          /\ UNCHANGED <<given, zload_fail_stage, zload_fcb, granted, filled>>
     ELSE zls_fail

Init ==
  /\ story \in Stories /\ args \in LoaderArgs
  /\ bump_next = args.mem_base
  /\ zload_fail_stage = 1 /\ outcome = "loading" /\ zload_fcb = "closed"
  /\ granted = <<>> /\ filled = 0 /\ zdi = NoDict

Next ==
  \/ Open \/ ReadHeader \/ ParseHeader \/ AllocDynbuf \/ SeekStart \/ ReadDynbuf
  \/ AllocStack \/ AllocFrames \/ ReadPrefix \/ AllocDict \/ ReadDict \/ KernelFails

Spec == Init /\ [][Next]_vars

-----------------------------------------------------------------------------
TypeOK ==
  /\ story \in Story /\ args \in LoaderArgs /\ bump_next \in Word
  /\ zload_fail_stage \in 1 .. 11
  /\ outcome \in {"loading", "loaded", "failed"} /\ zload_fcb \in {"closed", "open"}
  /\ granted \in Seq(Block) /\ Len(granted) <= 4
  /\ filled \in Nat
  /\ zdi \in [entries : Nat, entry_length : Nat, entry_count : Word]

Inside(b) == args.mem_base <= b.at /\ b.at + b.size <= args.mem_top + 1
UsesUp(b) == b.at + b.size = args.mem_top + 1
Apart(b, c) == b.at + b.size <= c.at

\* A block that bump_alloc grants lies in the arena, behind all those granted
\* before it, as long as none of them used the arena up to its last byte.
BlocksApart ==
  \A i \in 1 .. Len(granted) :
    (\A j \in 1 .. i - 1 : ~ UsesUp(granted[j]))
      => /\ Inside(granted[i])
         /\ \A j \in 1 .. i - 1 : Apart(granted[j], granted[i])

\* What lib/heap_bump.asm says of bump_alloc, that it refuses when there is
\* not enough room left: no block ever reaches out of the arena.
ArenaNeverLeft == \A i \in 1 .. Len(granted) : Inside(granted[i])

\* A story that is loaded was not cut short within dynamic memory, although
\* nobody looks at that read's count, if any byte of its dictionary lies behind
\* dynamic memory: the reads of the dictionary have found it in the file.
LoadedIsWhole ==
  outcome = "loaded" /\ header.dictionary + DictBlock.size > header.dynamic_end
    => filled = header.dynamic_end

\* The entries as zdict_init sees them lie in the block whose size zload_story
\* had computed from the prefix, unless the prefix was too short to hold the
\* dictionary's header or the sum was too large for a word.
DictInside ==
  outcome = "loaded" /\ PrefixHolds(story.dict) =>
    LET size == Magnitude(zdi.entry_count) * zdi.entry_length
    IN  4 + story.dict.separators + size < WordMod
          => zdi.entries + size <= DictBlock.at + DictBlock.size
=============================================================================
