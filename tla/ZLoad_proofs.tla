---------------------------- MODULE ZLoad_proofs ----------------------------
(***************************************************************************)
(* The loader's blocks lie apart and inside the arena, for every story,    *)
(* arena and size, until one of them uses the arena up.                    *)
(***************************************************************************)
EXTENDS ZLoad, SequenceTheorems, TLAPS

\* bump_alloc, with room between next and top, grants what ends at top or
\* before, and only then; next is then behind the block, unless the block has
\* taken the last byte.
LEMMA GrantStaysInside ==
  ASSUME NEW next \in Word, NEW top \in Word, NEW size \in Word, next <= top
  PROVE  /\ Fits(next, top, size) <=> next + size <= top + 1
         /\ next + size < top + 1 => Behind(next, size) = next + size
<1>1. Remaining(next, top) = top - next
  BY WordModAssumption DEF Remaining, Word
<1>2. next + size < WordMod => (next + size) % WordMod = next + size
  BY WordModAssumption DEF Word
<1> QED
  BY <1>1, <1>2, WordModAssumption DEF Fits, Behind, Word

\* What a block may ask for is a word.
LEMMA TotalIsWord == ASSUME NEW d \in DictHeader PROVE DictTotal(d) \in Word
<1>1. Magnitude(d.entry_count) \in Int
  BY WordModAssumption DEF Magnitude, DictHeader, Word
<1>2. d.entry_length \in Int /\ d.separators \in Int
  BY DEF DictHeader
<1> DEFINE product == Magnitude(d.entry_count) * d.entry_length
<1>3. product \in Int
  BY <1>1, <1>2
<1> HIDE DEF product
<1>4. DictTotal(d) = (4 + d.separators + product) % WordMod
  BY DEF DictTotal, product
<1> QED
  BY <1>2, <1>3, <1>4, WordModAssumption DEF Word

NotUsedUp == \A j \in 1 .. Len(granted) : ~ UsesUp(granted[j])

Types ==
  /\ story \in Stories /\ args \in LoaderArgs
  /\ bump_next \in Word /\ granted \in Seq(Block)

\* As long as the arena is not used up, bump_next is in it, behind every block.
NextIsBehind ==
  NotUsedUp => /\ args.mem_base <= bump_next /\ bump_next <= args.mem_top
               /\ \A j \in 1 .. Len(granted) : granted[j].at + granted[j].size <= bump_next

IInv == Types /\ NextIsBehind /\ BlocksApart

\* The properties look at the arena and the blocks only.
LEMMA SameArena ==
  ASSUME IInv, UNCHANGED <<given, bump_next, granted>> PROVE IInv'
  BY DEF IInv, Types, NextIsBehind, NotUsedUp, BlocksApart, Inside, UsesUp, Apart, given

LEMMA GrantPreserves ==
  ASSUME IInv, NEW size \in Word, bump_alloc(size) PROVE IInv'
<1> USE DEF IInv
<1>0. args \in [mem_base : Word \ {0}, mem_top : Word] /\ args.mem_base <= args.mem_top
  BY ArgsAssumption DEF Types
<1>1. UNCHANGED given
  BY DEF bump_alloc, Proceed, zls_fail
<1>2. CASE ~ Fits(bump_next, args.mem_top, size)
  BY <1>1, <1>2, SameArena DEF bump_alloc, zls_fail
<1>3. CASE Fits(bump_next, args.mem_top, size) /\ bump_next = 0
  <2>1. bump_next' \in Word /\ granted' = granted
    BY <1>3, WordModAssumption DEF bump_alloc, zls_fail, Behind, Word, Types
  <2>2. ~ NotUsedUp
    BY <1>0, <1>3 DEF NextIsBehind, Word
  <2> QED
    BY <1>1, <2>1, <2>2
    DEF Types, NextIsBehind, NotUsedUp, BlocksApart, Inside, UsesUp, Apart, given
<1>4. CASE Fits(bump_next, args.mem_top, size) /\ bump_next # 0
  <2> DEFINE b == [at |-> bump_next, size |-> size]
             n == Len(granted) + 1
  <2>1. /\ granted' = Append(granted, b) /\ bump_next' = Behind(bump_next, size)
        /\ args' = args /\ story' = story
    BY <1>4, <1>1 DEF bump_alloc, given
  <2>2. b \in Block /\ bump_next' \in Word
    BY <2>1, WordModAssumption DEF Block, Behind, Word, Types
  <2>3. /\ granted' \in Seq(Block) /\ Len(granted') = n /\ granted'[n] = b
        /\ \A j \in 1 .. n - 1 : granted'[j] = granted[j]
        /\ n - 1 = Len(granted) /\ n \in Nat
    BY <2>1, <2>2 DEF Types
  <2>4. Types'
    BY <2>1, <2>2, <2>3 DEF Types
  <2> HIDE DEF n, b
  <2>5. CASE NotUsedUp
    <3>1. /\ args.mem_base <= bump_next /\ bump_next <= args.mem_top
          /\ \A j \in 1 .. n - 1 : Apart(granted[j], b)
      BY <2>5, <2>3 DEF NextIsBehind, Apart, b
    <3>2. b.at = bump_next /\ b.size = size
      BY DEF b
    <3>3. bump_next + size <= args.mem_top + 1
      BY <1>0, <1>4, <3>1, GrantStaysInside DEF Types
    <3>4. bump_next + size < args.mem_top + 1 => bump_next' = bump_next + size
      BY <1>0, <2>1, <3>1, GrantStaysInside DEF Types
    <3>5. Inside(b) /\ (UsesUp(b) <=> bump_next + size = args.mem_top + 1)
      BY <3>1, <3>2, <3>3 DEF Inside, UsesUp
    <3>6. BlocksApart'
      BY <2>1, <2>3, <3>1, <3>5 DEF BlocksApart, Inside, UsesUp, Apart
    <3>7. ASSUME NotUsedUp' PROVE NextIsBehind'
      <4>1. bump_next + size < args.mem_top + 1 /\ bump_next' = bump_next + size
        <5>1. ~ UsesUp(b)
          BY <3>7, <2>1, <2>3 DEF NotUsedUp, UsesUp
        <5> QED
          BY <5>1, <3>3, <3>4, <3>5, <1>0, <2>4 DEF Word, Types
      <4>2. \A j \in 1 .. n - 1 : granted[j].at + granted[j].size <= bump_next
        BY <3>1, <3>2 DEF Apart
      <4>3. \A j \in 1 .. n - 1 : granted[j] \in Block
        BY <2>3 DEF Types
      <4>4. ASSUME NEW j \in 1 .. n PROVE granted'[j].at + granted'[j].size <= bump_next'
        <5>1. CASE j = n
          BY <5>1, <2>3, <3>2, <4>1 DEF Types, Word
        <5>2. CASE j # n
          <6>1. j \in 1 .. n - 1
            BY <5>2, <2>3
          <6>2. granted'[j] = granted[j] /\ granted[j] \in Block
            BY <6>1, <2>3, <4>3
          <6>3. granted[j].at + granted[j].size <= bump_next
            BY <6>1, <4>2
          <6>4. granted[j].at + granted[j].size \in Int
            BY <6>2, WordModAssumption DEF Block, Word
          <6> QED
            BY <6>2, <6>3, <6>4, <4>1, WordModAssumption DEF Types, Word
        <5> QED
          BY <5>1, <5>2
      <4> QED
        BY <1>0, <2>1, <2>3, <3>1, <4>1, <4>4 DEF NextIsBehind, Word, Types
    <3> QED
      BY <2>4, <3>6, <3>7 DEF NextIsBehind
  <2>6. CASE ~ NotUsedUp
    <3>1. PICK k \in 1 .. n - 1 : UsesUp(granted[k])
      BY <2>6, <2>3 DEF NotUsedUp
    <3>2. granted'[k] = granted[k] /\ k \in 1 .. Len(granted') /\ args' = args
      BY <2>1, <2>3
    <3>3. ~ NotUsedUp'
      BY <3>1, <3>2 DEF NotUsedUp, UsesUp
    <3>4. BlocksApart'
      BY <3>1, <2>1, <2>3 DEF BlocksApart, Inside, UsesUp, Apart
    <3> QED
      BY <2>4, <3>3, <3>4 DEF NextIsBehind
  <2> QED
    BY <2>5, <2>6
<1> QED
  BY <1>2, <1>3, <1>4

LEMMA Inductive == Spec => []IInv
<1>1. Init => IInv
  <2> SUFFICES ASSUME Init PROVE IInv
    OBVIOUS
  <2>1. args \in [mem_base : Word \ {0}, mem_top : Word] /\ args.mem_base <= args.mem_top
    BY ArgsAssumption DEF Init
  <2>2. granted = <<>> /\ Len(granted) = 0
    BY DEF Init
  <2>3. Types
    BY <2>1, <2>2 DEF Init, Types, Word
  <2>4. NextIsBehind
    BY <2>1, <2>2, WordModAssumption DEF Init, NextIsBehind, Word
  <2>5. BlocksApart
    BY <2>2 DEF BlocksApart
  <2> QED
    BY <2>3, <2>4, <2>5 DEF IInv
<1>2. IInv /\ [Next]_vars => IInv'
  <2> SUFFICES ASSUME IInv, [Next]_vars PROVE IInv'
    OBVIOUS
  <2>0. story \in Story
    BY StoriesAssumption DEF IInv, Types
  <2>1. CASE Open \/ ReadHeader \/ ParseHeader \/ SeekStart \/ ReadDynbuf
    BY <2>1, SameArena
    DEF Open, ReadHeader, ParseHeader, SeekStart, ReadDynbuf, Proceed, zls_fail
  <2>2. CASE ReadPrefix \/ ReadDict \/ KernelFails
    BY <2>2, SameArena DEF ReadPrefix, ReadDict, KernelFails, Proceed, zls_fail
  <2>3. CASE AllocDynbuf
    <3>1. header.dynamic_end \in Word
      BY <2>0 DEF Story, Header, header
    <3> QED
      BY <2>3, <3>1, GrantPreserves DEF AllocDynbuf
  <2>4. CASE AllocStack \/ AllocFrames
    BY <2>4, GrantPreserves, SizesAssumption DEF AllocStack, AllocFrames
  <2>5. CASE AllocDict
    <3>1. story.dict \in DictHeader
      BY <2>0 DEF Story
    <3>2. PICK total \in Word : bump_alloc(total)
      BY <2>5, <3>1, TotalIsWord DEF AllocDict
    <3> QED
      BY <3>2, GrantPreserves
  <2>6. CASE UNCHANGED vars
    BY <2>6, SameArena DEF vars, given
  <2> QED
    BY <2>1, <2>2, <2>3, <2>4, <2>5, <2>6 DEF Next
<1> QED
  BY <1>1, <1>2, PTL DEF Spec

\* Every block granted lies in the arena, behind those granted before, until
\* one of them has used the arena up.
THEOREM BlocksStayApart == Spec => []BlocksApart
<1>1. IInv => BlocksApart
  BY DEF IInv
<1> QED
  BY <1>1, Inductive, PTL

-----------------------------------------------------------------------------
(* What the stages have done so far, of which the code keeps no record but  *)
(* the stage itself.                                                       *)

Blocks(stage) ==
  IF stage <= 4 THEN 0 ELSE IF stage <= 7 THEN 1
  ELSE IF stage = 8 THEN 2 ELSE IF stage <= 10 THEN 3 ELSE 4

Filled == IF story.length < header.dynamic_end THEN story.length ELSE header.dynamic_end

Entries ==
  [ entries |-> DictBlock.at + 4 + story.dict.separators,
    entry_length |-> story.dict.entry_length, entry_count |-> story.dict.entry_count ]

SoFar ==
  /\ zload_fail_stage \in 1 .. 11
  /\ Len(granted) = Blocks(zload_fail_stage)
  /\ zload_fail_stage >= 7 => filled = Filled
  /\ zload_fail_stage >= 10 => CanRead(PrefixSize)
  /\ zload_fail_stage = 11 /\ PrefixHolds(story.dict) =>
       DictBlock.size = DictTotal(story.dict)

Stages ==
  /\ outcome \in {"loading", "loaded", "failed"}
  /\ outcome # "failed" => SoFar
  /\ outcome = "loaded" => zload_fail_stage = 11 /\ CanRead(DictBlock.size) /\ zdi = Entries

\* A stage that only goes on.
LEMMA GoesOn ==
  ASSUME SoFar, outcome = "loading", Proceed, granted' = granted, filled' = filled,
         Blocks(zload_fail_stage + 1) = Blocks(zload_fail_stage), zload_fail_stage # 6,
         zload_fail_stage <= 8 \/ (zload_fail_stage = 9 /\ CanRead(PrefixSize))
  PROVE  Stages'
<1>1. /\ zload_fail_stage' = zload_fail_stage + 1 /\ story' = story /\ outcome' = "loading"
      /\ zload_fail_stage \in 1 .. 9
  BY DEF Proceed, given, SoFar
<1>2. header' = header /\ (CanRead(PrefixSize)' <=> CanRead(PrefixSize)) /\ Filled' = Filled
  BY <1>1 DEF header, CanRead, Readable, Filled
<1>3. zload_fail_stage' \in 1 .. 10
  BY <1>1
<1>4. Len(granted)' = Blocks(zload_fail_stage)'
  BY <1>1 DEF SoFar, Blocks
<1>5. zload_fail_stage' >= 7 => filled' = Filled'
  BY <1>1, <1>2 DEF SoFar
<1>6. zload_fail_stage' >= 10 => CanRead(PrefixSize)'
  BY <1>1, <1>2
<1>7. SoFar'
  BY <1>3, <1>4, <1>5, <1>6 DEF SoFar
<1> QED
  BY <1>1, <1>7 DEF Stages

LEMMA Failing ==
  ASSUME zls_fail
  PROVE  Stages'
BY DEF zls_fail, Stages

\* A stage that asks for a block.
LEMMA Allocates ==
  ASSUME SoFar, outcome = "loading", NEW size \in Word, bump_alloc(size), Types,
         zload_fail_stage \in {4, 7, 8, 10},
         zload_fail_stage = 10 /\ PrefixHolds(story.dict) => size = DictTotal(story.dict)
  PROVE  Stages'
<1>1. CASE zls_fail
  BY <1>1, Failing
<1>2. CASE ~ zls_fail
  <2> DEFINE b == [at |-> bump_next, size |-> size]
             n == Len(granted)
  <2>1. /\ granted' = Append(granted, b) /\ filled' = filled
        /\ zload_fail_stage' = zload_fail_stage + 1 /\ story' = story /\ outcome' = "loading"
    BY <1>2 DEF bump_alloc, Proceed, given
  <2>2. header' = header /\ (CanRead(PrefixSize)' <=> CanRead(PrefixSize)) /\ Filled' = Filled
    BY <2>1 DEF header, CanRead, Readable, Filled
  <2>3. granted \in Seq(Block) /\ b \in Block
    BY DEF Types, Block
  <2>4. n = Blocks(zload_fail_stage) /\ b.size = size
    BY DEF SoFar
  <2> HIDE DEF b
  <2>5. Len(granted') = n + 1 /\ granted'[n + 1] = b
    BY <2>1, <2>3
  <2> HIDE DEF n
  <2>6. Len(granted)' = Blocks(zload_fail_stage)'
    BY <2>1, <2>4, <2>5 DEF Blocks
  <2>7. zload_fail_stage' \in 1 .. 11
    BY <2>1
  <2>8. zload_fail_stage' >= 7 => filled' = Filled'
    BY <2>1, <2>2 DEF SoFar
  <2>9. zload_fail_stage' >= 10 => CanRead(PrefixSize)'
    BY <2>1, <2>2 DEF SoFar
  <2>10. ASSUME zload_fail_stage' = 11, PrefixHolds(story.dict)'
         PROVE  DictBlock.size' = DictTotal(story.dict)'
    <3>1. zload_fail_stage = 10
      BY <2>1, <2>10
    <3>2. n + 1 = 4 /\ size = DictTotal(story.dict)
      BY <2>1, <2>4, <2>10, <3>1 DEF Blocks, PrefixHolds
    <3>3. DictBlock' = b
      BY <2>5, <3>2 DEF DictBlock
    <3> QED
      BY <2>1, <2>4, <3>2, <3>3
  <2>11. SoFar'
    BY <2>6, <2>7, <2>8, <2>9, <2>10 DEF SoFar
  <2> QED
    BY <2>1, <2>11 DEF Stages
<1> QED
  BY <1>1, <1>2

LEMMA SameStages ==
  ASSUME Stages, UNCHANGED vars
  PROVE  Stages'
BY DEF vars, given, Stages, SoFar, Entries, Filled, header, DictBlock, CanRead, Readable

LEMMA StagesKept ==
  ASSUME Types, Stages, [Next]_vars
  PROVE  Stages'
<1>0. story \in Story
  BY StoriesAssumption DEF Types
<1>1. CASE Open \/ ReadHeader \/ SeekStart
  BY <1>1, GoesOn DEF Open, ReadHeader, SeekStart, At, Blocks, Stages
<1>2. CASE ParseHeader
  BY <1>2, GoesOn, Failing DEF ParseHeader, At, Blocks, Stages
<1>3. CASE ReadPrefix
  BY <1>3, GoesOn, Failing DEF ReadPrefix, At, Blocks, Stages
<1>4. CASE ReadDynbuf
  <2>1. /\ zload_fail_stage = 6 /\ zload_fail_stage' = 7 /\ story' = story
        /\ outcome' = "loading" /\ granted' = granted /\ filled' = Filled /\ SoFar
    BY <1>4 DEF ReadDynbuf, At, Proceed, given, Stages, Filled
  <2>2. Filled' = Filled
    BY <2>1 DEF Filled, header
  <2>3. SoFar'
    BY <2>1, <2>2 DEF SoFar, Blocks
  <2> QED
    BY <2>1, <2>3 DEF Stages
<1>5. CASE AllocDynbuf
  <2>1. header.dynamic_end \in Word
    BY <1>0 DEF Story, Header, header
  <2> QED
    BY <1>5, <2>1, Allocates DEF AllocDynbuf, At, Stages
<1>6. CASE AllocStack \/ AllocFrames
  BY <1>6, Allocates, SizesAssumption DEF AllocStack, AllocFrames, At, Stages
<1>7. CASE AllocDict
  <2>1. story.dict \in DictHeader
    BY <1>0 DEF Story
  <2>2. PICK total \in Word :
          bump_alloc(total) /\ (PrefixHolds(story.dict) => total = DictTotal(story.dict))
    BY <1>7, <2>1, TotalIsWord DEF AllocDict
  <2>3. zload_fail_stage = 10 /\ outcome = "loading" /\ SoFar
    BY <1>7 DEF AllocDict, At, Stages
  <2> QED
    BY <2>2, <2>3, Allocates
<1>8. CASE ReadDict
  <2>1. CASE ~ CanRead(DictBlock.size)
    BY <1>8, <2>1, Failing DEF ReadDict
  <2>2. CASE CanRead(DictBlock.size)
    <3>1. /\ outcome' = "loaded" /\ zdi' = Entries /\ zload_fail_stage = 11 /\ SoFar
          /\ UNCHANGED <<story, zload_fail_stage, granted, filled>>
      BY <1>8, <2>2 DEF ReadDict, At, Stages, Entries, given
    <3>2. /\ Entries' = Entries /\ header' = header /\ DictBlock' = DictBlock
          /\ Filled' = Filled /\ (CanRead(PrefixSize)' <=> CanRead(PrefixSize))
          /\ CanRead(DictBlock.size)'
      BY <2>2, <3>1 DEF Entries, header, DictBlock, Filled, CanRead, Readable
    <3>3. SoFar'
      BY <3>1, <3>2 DEF SoFar
    <3> QED
      BY <3>1, <3>2, <3>3 DEF Stages
  <2> QED
    BY <2>1, <2>2
<1>9. CASE KernelFails
  BY <1>9, Failing DEF KernelFails
<1>10. CASE UNCHANGED vars
  BY <1>10, SameStages
<1> QED
  BY <1>1, <1>2, <1>3, <1>4, <1>5, <1>6, <1>7, <1>8, <1>9, <1>10 DEF Next

LEMMA FourthIsBlock ==
  ASSUME Types, Len(granted) = 4
  PROVE  DictBlock \in Block
<1>1. granted \in Seq(Block) /\ 4 \in 1 .. Len(granted)
  BY DEF Types
<1> QED
  BY <1>1, ElementOfSeq DEF DictBlock

LEMMA StagesHold == Spec => [](Types /\ Stages)
<1>1. Init => Stages
  BY DEF Init, Stages, SoFar, Blocks
<1>2. IInv /\ Stages /\ [Next]_vars => Stages'
  BY StagesKept DEF IInv
<1>3. IInv => Types
  BY DEF IInv
<1> QED
  BY <1>1, <1>2, <1>3, Inductive, PTL DEF Spec

\* The last byte of the dictionary that lies behind dynamic memory was found in
\* the file, so all of dynamic memory had been there to read: a story that is
\* cut short is never started, although no count of its read is looked at.
THEOREM WholeWhenLoaded == Spec => []LoadedIsWhole
<1>1. Types /\ Stages => LoadedIsWhole
  <2> SUFFICES ASSUME Types, Stages, outcome = "loaded",
                      header.dictionary + DictBlock.size > header.dynamic_end
               PROVE  filled = header.dynamic_end
    BY DEF LoadedIsWhole
  <2> DEFINE d == header.dictionary
             e == header.dynamic_end
             s == DictBlock.size
  <2>1. /\ zload_fail_stage = 11 /\ SoFar /\ CanRead(PrefixSize) /\ CanRead(s)
        /\ filled = Filled /\ Len(granted) = 4
    BY DEF Stages, SoFar, Blocks
  <2>2. d \in Nat /\ e \in Nat /\ story.length \in Nat
    BY StoriesAssumption DEF Types, Story, Header, header, Word
  <2>3. s \in Nat
    <3>1. DictBlock \in Block
      BY <2>1, FourthIsBlock
    <3> QED
      BY <3>1 DEF Block, Word
  <2>4. PrefixSize \in Nat /\ PrefixSize > 0
    BY SizesAssumption DEF Word
  <2>5. d + s > e
    OBVIOUS
  <2>6. /\ \A i \in 0 .. PrefixSize - 1 : d + i < e \/ d + i < story.length
        /\ \A i \in 0 .. s - 1 : d + i < e \/ d + i < story.length
    BY <2>1 DEF CanRead, Readable
  <2> HIDE DEF d, e, s
  <2>7. CASE s = 0
    <3>1. 0 \in 0 .. PrefixSize - 1
      BY <2>4
    <3>2. d + 0 < e \/ d + 0 < story.length
      BY <2>6, <3>1
    <3>3. ~ (story.length < e)
      BY <2>2, <2>5, <2>7, <3>2
    <3> QED
      BY <2>1, <3>3 DEF Filled, e
  <2>8. CASE s > 0
    <3>1. s - 1 \in 0 .. s - 1
      BY <2>3, <2>8
    <3>2. d + (s - 1) < e \/ d + (s - 1) < story.length
      BY <2>6, <3>1
    <3>3. ~ (story.length < e)
      BY <2>2, <2>3, <2>5, <3>2
    <3> QED
      BY <2>1, <3>3 DEF Filled, e
  <2> QED
    BY <2>3, <2>7, <2>8
<1> QED
  BY <1>1, StagesHold, PTL

\* What zdict_init computes from the dictionary's header lies in the block that
\* zload_story had measured from the prefix, for any separators that the prefix
\* holds and any table whose size is a word.
THEOREM DictStaysInside == Spec => []DictInside
<1>1. Types /\ Stages => DictInside
  <2> DEFINE product == Magnitude(zdi.entry_count) * zdi.entry_length
             sep == story.dict.separators
             at == DictBlock.at
  <2> SUFFICES ASSUME Types, Stages, outcome = "loaded", PrefixHolds(story.dict),
                      4 + sep + product < WordMod
               PROVE  zdi.entries + product <= at + DictBlock.size
    BY DEF DictInside
  <2>1. /\ zload_fail_stage = 11 /\ SoFar /\ zdi = Entries /\ Len(granted) = 4
        /\ DictBlock.size = DictTotal(story.dict)
    BY DEF Stages, SoFar, Blocks
  <2>2. story.dict \in DictHeader /\ sep \in Nat
    BY StoriesAssumption DEF Types, Story, DictHeader
  <2>3. at \in Nat
    <3>1. DictBlock \in Block
      BY <2>1, FourthIsBlock
    <3> QED
      BY <3>1 DEF Block, Word
  <2>4. DictTotal(story.dict) = (4 + sep + product) % WordMod
    BY <2>1 DEF DictTotal, Entries
  <2>5. product \in Nat
    <3> DEFINE x == Magnitude(zdi.entry_count)
               y == zdi.entry_length
    <3>1. x \in Nat /\ y \in Nat
      BY <2>1, <2>2, WordModAssumption DEF Entries, DictHeader, Magnitude, Word
    <3> HIDE DEF x, y
    <3>2. x * y \in Nat
      BY <3>1
    <3> QED
      BY <3>2 DEF x, y
  <2>6. zdi.entries = at + 4 + sep
    BY <2>1 DEF Entries
  <2> HIDE DEF product, sep, at
  <2>7. (4 + sep + product) % WordMod = 4 + sep + product
    BY <2>2, <2>5, WordModAssumption
  <2> QED
    BY <2>1, <2>2, <2>3, <2>4, <2>5, <2>6, <2>7
<1> QED
  BY <1>1, StagesHold, PTL
=============================================================================
