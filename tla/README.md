# ZRUN3 in TLA+

ZRUN3 is an interpreter for version 3 Z-machine stories.  It exists twice in
this repository: as a portable reference in C (`host/`) and as a port to the
1802 processor under ELF-DOS (`lib/z*.asm`, `zrun3_main.asm`) that mirrors the
reference routine by routine.  This directory holds TLA+ models of both, the TLC
runs that check them on small instances, and TLAPS proofs for every instance.

    tlc -config vm_step.cfg MCVm.tla        one run; the table below lists all
    tlapm ObjTree_proofs.tla                one proof module

## The system

| component | state it keeps | operations | talks to |
|---|---|---|---|
| instruction decoder (`host/decode.c`, `lib/zdecode.asm`) | none; fills one `struct instruction` | decode at an address | story memory |
| dispatcher (`host/dispatch.c`, `lib/zdispatch.asm`) | program counter, hooks; in the port the scratch words `zdisp_value`, `zdisp_value2`, `zm_bank` | one step: operands, opcode, store, branch | all others |
| stacks and variables (`host/vm_state.c`, `lib/zstack.asm`, `lib/zvar.asm`) | evaluation stack, call frames, base of the globals | push, pop, frame push and pop, direct and indirect variable access | dispatcher, story memory |
| story memory (`host/story_mem.c`, `lib/zmem.asm`, `lib/zcache.asm`) | resident dynamic memory, one 512-byte window on the file | read and write bytes and words, copy runs of bytes | kernel file calls |
| loader and heap (`lib/zload.asm`, `lib/zheader.asm`, `lib/heap_bump.asm`, `host/story_header.c`) | bump pointer, open file, header fields, failure stage | load a story, allocate | kernel, every `*_init` |
| object tree (`host/objects.c`, `lib/zobj.asm`) and properties (`host/properties.c`, `lib/zprop.asm`) | links, attributes and property lists in dynamic memory | remove, insert, test and set attributes, find, get and put properties | story memory |
| save and restore (`lib/zdispsave.asm`) | `SAVE.DAT`, `zds_scratch` | save, restore, through hooks of the dispatcher | everything, kernel |
| text, dictionary, parser (`ztext.c`, `dictionary.c`, `parser.c`; `zdec`, `zdict`, `zparse`) | alphabet state while decoding; parse buffer | decode, encode, look up, split a line | story memory |
| arithmetic helpers (in `lib/zdispatch.asm`, `host/vm_state.c`) | random state | multiply, divide, random | dispatcher |
| terminal, status line, main (`zterm`, `zinputl`, `zstatus`, `zdispemit`, `zdispread`, `zrun3_main.asm`) | cursor, line buffer | print, read a line | kernel console |

Nothing runs concurrently: one thread executes one instruction after another.
What is hard is elsewhere: long sequences of legal instructions that leave
stacks, frames or links in a bad state; file calls that fail half way, short
reads and power loss; state kept from before a call and used after it (registers
and scratch words shared by routines); arithmetic on words and banks at its
boundaries; and two implementations that have to stay the same machine.

What makes each part correct:

* stacks and dispatcher: no array is left; each instruction moves the stack by
  what it says; callers' words and frames survive what a routine does; the port
  does what the reference does, saves and later restores included.
* story memory: every read returns the byte of the story, dynamic changes
  included, whatever was cached before and whichever call failed.
* save file: a save that succeeds has written a complete file; a restore that
  succeeds after complete reads has put back one state that was saved; and no
  file makes a restore write over what it does not restore, unless it is of a
  story with more dynamic memory (finding below).
* object tree: lists of children never meet or loop, nothing falls off a list,
  every walk ends, and the lists are what insertion and removal promise.
* loader: blocks lie apart, inside the arena; a story that is cut short is
  noticed; sizes computed in one place fit what another place reads.
* decoder, text, dictionary, properties: what the interpreter reads is what the
  author of the story wrote, and nothing is read that is not in the story.
* arithmetic: the port's loops compute what the operators of C compute.
* the interpreter's inner loops come to an end whatever the story holds, as long
  as it leaves room behind it in the address space (finding below).

## Modules

| module | models | state and actions |
|---|---|---|
| `ZInstr` | `host/decode.h` | the instruction record; an opcode's data part is abstracted to its result, its truth value and the globals it writes |
| `Outcome` | the codes' way to fail (`VM_ERROR`, DF=1) | a result record, and running one routine after another |
| `VmState` | `host/vm_state.c` | operators for every primitive, on a machine record of `eval`, `frames`, `globals`, `pc` |
| `VmDispatch` | `host/dispatch.c` | `vm`, `slot` (what the platform's save callback keeps), `status`; one action per opcode, all through `vm_step`, the whole of the C function |
| `ZVar` | `lib/zstack.asm`, `lib/zvar.asm` | stack memory with its pointer, stale words above it, frames with a bank byte |
| `ZDispatch` | `lib/zdispatch.asm` | the machine record `z` with the scratch words; one action per opcode through `zdisp_step` |
| `ZRefinesVm` | the relation of the two | the refinement mapping, `INSTANCE VmDispatch` |
| `ZSave` | `lib/zdispsave.asm` | one action per file call, success and failure apart; `PowerLoss` |
| `StoryMem`, `ZMem` | `host/story_mem.c`; `lib/zmem.asm`, `lib/zcache.asm` | the window `zc`, dynamic memory, the bank, the copy loop of `zmread_bytes`; routines yield the set of their outcomes |
| `ObjForest`, `ObjTree` | what the tree promises; `host/objects.c`, `lib/zobj.asm` | links, and the search for an object's predecessor one sibling per step; `Checked` selects the reference or the port |
| `HeapBump`, `ZLoad` | `lib/heap_bump.asm`; `lib/zload.asm`, `lib/zheader.asm` | the arena; one action per stage, the failing ones in `KernelFails` |
| `ZArith` | `zds_mul`, `zds_div`, `zds_mod` and the division routines of `lib/zdispatch.asm` | the registers; one action per pass of a loop |
| `ZDecode` | `host/decode.c` | operators that move a cursor and fail at a missing byte |
| `ZText` | `host/ztext.c` | a stack of streams, one step per z-char; encoding |
| `ZParse` | `host/dictionary.c`, `host/parser.c` | lookup; one step per pass of the tokenizer |
| `ZProp` | `host/properties.c`, the rest of `host/objects.c` | attributes, names and property lists in the image |
| `ZAsm` | no code: the compiler's side | how text, instructions and objects are written down; the reference that reading is compared with |
| `ZStory` | `host/dispatch.c` on the bytes of a story, with the five above | `story`, `vm` (image, stack, `pc`, output, stream 3's table), `job` (the loop under way), `status`, the ghosts `world` and `hidden`, and `ZArith`'s registers beside it |
| `MC*` | | the values TLC gives the constants; `MCStory` lays out the stories |
| `*_proofs` | | theorems and their proofs |

`ZDispatch` uses `ZVar`, `VmDispatch` uses `VmState`, and `ZRefinesVm` composes
the two dispatchers.  `ObjTree` implements `ObjForest`.  `ZStory` composes the
reference's decoder, text, dictionary, tokenizer and properties with the data
part of its dispatcher, and runs the port's arithmetic beside it.  Definitions named
`.._mutant` are slips the code does not have; nothing uses them, and putting one
in the place of its original breaks the property that `PROJECT.json` pairs it
with.

### Abstractions worth knowing

* A story may execute any instruction of the constant `Instrs` at any time.
  Every story is one way of choosing them, self-modifying ones included, so a
  safety property holds of every story built from those instructions.
* `StackDiscipline` says whether stories are assumed not to take more words from
  the evaluation stack than their routine put there.  The code does not enforce
  it, and the reference's stack properties assume it.  The two versions part
  company without it: on a return `zvar_frame_pop` sets the pointer to
  `stack_base`, which may raise it over stale words, and `vm_frame_pop` only
  ever lowers it.  The refinement does not assume it; the model of the port sets
  `astray` when a routine returns like that, and nothing is claimed from there on.
* Stack capacities, frames and widths differ between the versions (1024 words,
  64 frames and a 16-bit counter in C; 256 words, 16 frames of 37 bytes and a
  bank byte in the port).  The refinement gives both the same ones.
* In `ZDispatch` the save and restore hooks are atomic and do what they say.
  What they really do, file call by file call, is `ZSave`.
* `VmDispatch` and `ZStory` divide `host/dispatch.c` between them.  The first has
  the machine (calls, frames, branches that return, saves) and takes what an
  opcode computes from memory as an input; the second has memory, byte by byte,
  and no calls.  `insert_obj` and `remove_obj` are `ObjTree`'s.
* In `ZStory` a story goes on at any of its instructions, so that every order
  of them is covered.  `ZAsm` assembles the stories from what their author
  means.  The two ghosts keep that up to date: `world` is changed by set_attr,
  clear_attr and put_prop as the author understands them, `hidden` collects what
  is printed while output stream 3 is on.  No action reads a ghost except to
  update it.
* Bytes and words of `ZStory` have their 8 and 16 bits.  Only the address space
  is smaller, `AddrMod` bytes instead of 65536, so that a story can fill it.
* A read of memory that was never written (an operand the instruction lacks, a
  byte behind the image) gives no value at all: the status becomes "undefined"
  and nothing follows.  `StaysDefined` lists when that can happen.
* A loop of the reference that is never left, the decoder's over a text without
  an end or the walk over a property list whose entries lead back to each other,
  is one step to the status "endless", and nothing follows.  `InstructionsEnd`
  says which stories can bring it about.
* A random number is any number of its range.  `read_line` gives any of a
  story's lines or fails.
* The kernel (`K_FILE_*`) is external and modelled from `include/kernel_api.inc`
  and from its use: a write is complete or an error, a read at the end of a file
  is short without an error, a seek behind the end is an error, opening for
  writing truncates, and power loss leaves a prefix of what was written.
* In `ZLoad` the header's fields are what the loader's buffer holds after the
  read, of a file that is too short for a header as well.

## Runs

| run | asks | instance | shows |
|---|---|---|---|
| `vm_step` | do the reference's stacks stay sound under every opcode, restarts and refused saves included? | words mod 4, 2 words of stack, 2 frames, one local, one global | `TypeOK`, `StackAccounting`, `FramesNested`, `CallerStackIntact`, `CallersIntact` |
| `z_calls` | is the port the reference on calls, returns and stack traffic? | 2 frames, 2 words | `TypeOK`, `InstructionsAgree` |
| `z_data` | ... and on every other opcode? | 1 frame, 2 words | `InstructionsAgree` |
| `z_pc_save` | ... and across banks, saves included? | words mod 8, two banks, all jump distances | `InstructionsAgree`, `Implements` |
| `zsave` | is a save file all or nothing, and what can a restore overwrite? | words mod 16, one word of stack, a story in two states of play and one with more dynamic memory, every failure, power loss and a change of story at any time | `ReadsStayInside`, `SaveIsComplete`, `RestoreIsExact` |
| `zmem` | does the window ever lie? | two banks of two windows, a file that ends inside the last, all reads | `TypeOK`, `WindowIsFile`, `ReadsAreImage`, `BytesAreImage`, `InsideIsReadable` |
| `zobj` | can a story spoil the object tree? | four objects, the port's unchecked operations, all pairs | `LinksConsistent`, `NeverLost`, `SearchEnds`, `KeepsLists` |
| `zstory` | does the reference read a story as it was written? | 693 stories in an address space of 256 bytes, one word of stack | `TypeOK`, `DecodedAsAssembled`, `TextIsMeasured`, `PrintsWhatIsWritten`, `StreamKeepsText`, `ParsedAsTyped`, `InputStaysInside`, `ObjectsAreMeant`, `ObjectReadsExact`, `DivisionExact`, `PortAgrees`, `StaysDefined`, `InstructionsEnd` |
| `zload` | what can loading get wrong? | words mod 32, arenas that end at any of 12 places, stories of 8 lengths | `BlocksApart`, `LoadedIsWhole`, `DictInside` |
| `z_save_undo` | violated | | a failed save whose branch says return resumes at address 0 or 1 |
| `zmem_words` | violated | | a word across a window boundary loses its high byte |
| `zload_arena` | violated | | an arena handed out exactly is left by the next request |

Why the bounds are enough.  Two frames and two words are the least with a
caller, a callee and a word of each on the stack, and both ways to overflow; a
third adds only repetitions.  Words modulo 4 have a sign bit, a wrap and a value
that is neither 0 nor 1.  One local and one global tell the three kinds of
variables apart.  Two banks with words modulo 8 let every branch, call, return
and save lie on either side of the boundary and across it.  The window run has
an address space of sixteen bytes, four windows, one of them across the end of
dynamic memory and one across the end of the file.  Four objects give a list of
three siblings, so an object in the middle, and depth.  The loader's arenas end
inside, exactly behind and after every block.  The save run has a file of each
story restored into the other, a stack that is full and one that is empty, and a
`zds_scratch` that holds more than a region before anything is read.

The stories of `zstory` are of these kinds.  31 instructions, of every form and
every kind of operand, store and branch data, each whole and cut off after every
byte.  All texts of up to two tokens, and those of three from four kinds (letters
of both cases, a mark, an abbreviation), which give every shift, every padding
and a reference in every place of a word; texts that refer to nothing, refer to
themselves through an abbreviation, or leave the image.  Ten factors around 0,
the middle and the end of a word, in all pairs.  Two objects with lists of two
and three properties, in every order of writes to attributes and properties.  All
lines of up to three characters over six (two letters, a separator, a space, a
capital, a character without a z-char) and ten longer ones, each with the parse
buffer large, nearly full, or empty, dictionaries sorted, unsorted and damaged.
One byte more than a table or buffer holds is always among the cases.  Four
stories fill the address space, or all of it but less than an entry of a property
list: one whose text loses its end to a storeb, and three that look for a property
in a list that leads back to its start, one for each opcode that does.

`CHECK_DEADLOCK FALSE` is set where the system really stops: an interpreter ends
by `quit` or by an error, a loader by loading or failing, the memory model after
a failed read.  `zobj` checks for deadlock.

Fairness.  `ObjTree` states weak fairness of `Search`, and `ZStory` of its loops
(`TextStep`, `ParseStep`, `PortLoop`): a loop of the interpreter is one thread
that nothing interrupts, so it takes its next pass.  `SearchEnds` and
`InstructionsEnd` say that the passes come to an end; the loops that the model
takes in one step count as never left when the status is "endless".  Elsewhere there is nothing
that must eventually happen.  A story may loop for ever or wait for input, and the
file operations are finite sequences.

## Proofs

Every theorem is about the specification of a component, for every value of its
constants, and is proved from an invariant that one step preserves.  Lemmas say
what each operator does; the step of each action follows from them.

| theorem | module | states | for |
|---|---|---|---|
| `TypeCorrect` | `VmDispatch_proofs` | `TypeOK` | every width, stack size, frame count, routine table, set of instructions |
| `StackCounts`, `CallersKept` | | `StackAccounting`, `CallersIntact` | the same |
| `FramesStayNested`, `CallerStackKept` | | `FramesNested`, `CallerStackIntact` | the same, if `StackDiscipline` |
| `TypeCorrect` | `ZDispatch_proofs` | `TypeOK` | the same, and every number of banks |
| `SltIsSigned`, `BankedIsFlat` | | arithmetic | all words of an even number of values, all banks |
| `InstructionsStayAgreed`, `PortImplementsHost` | `ZRefinesVm_proofs` | `InstructionsAgree`, `Implements` | the same, if `SavesGoOn` |
| `TypeCorrect`, `WindowHoldsFile`, `ReadsAreTheImage`, `BytesAreTheImage`, `InsideStaysReadable` | `ZMem_proofs` | `TypeOK`, `WindowIsFile`, `ReadsAreImage`, `BytesAreImage`, `InsideIsReadable` | every story, window, bank size, end of dynamic memory |
| `SavedIsComplete`, `RestoredIsExact` | `ZSave_proofs` | `SaveIsComplete`, `RestoreIsExact` | stacks anywhere, any stories, any states of play |
| `ReadsAreInside` | | `ReadsStayInside` | the same |
| `LinksStayConsistent`, `NothingIsLost`, `ListsAreKept` | `ObjTree_proofs` | `LinksConsistent`, `NeverLost`, `KeepsLists` | any number of objects, both versions of the code |
| `BlocksStayApart`, `WholeWhenLoaded`, `DictStaysInside` | `ZLoad_proofs` | `BlocksApart`, `LoadedIsWhole`, `DictInside` | every arena, story and size |
| `ArithmeticExact` | `ZStory_proofs` | `DivisionExact` (and the product) | every width, all operands |
| `MachineIsTyped`, `OnlyLostBytesAreUsed`, `InputIsConfined` | | `TypeOK`, `StaysDefined`, `InputStaysInside` | every story, typed line and address space |
| `InlineTextsEndTogether`, `DecoderReadsInstructions` | | `TextIsMeasured`, `DecodedAsAssembled` | the same |
| `PortComputesAsC` | | `PortAgrees` | all words of 16 bits |

### What is assumed

The assumptions on constants are named `..Assumption` in the modules that declare
them.  Those that are more than a type:

* `WordModAssumption`: words have an even number of values, so that half of them
  are negative.  `BankAssumption`: a bank is a byte.
* `InstrsAssumption`, `ZeroOpAssumption`: an instruction has as many operands as
  its handler reads (the findings say what happens otherwise), and one of the
  zero-operand form has none, as `decode_instruction` sets `operand_count` to 0.
* `HeaderAssumption`: with more than one bank, the length of a routine's header
  is a word without its sign bit, since the port adds it as a signed word.
  With 15 locals it is 31 bytes of 65536.
* `NoSaveAssumption`, `HostNoSaveAssumption`: the mark for "nothing saved" is no
  machine.
* In `ZLoad`, `SizesAssumption`: the prefix read of the dictionary is not empty.
  In `ZSave`, `BaseAssumption`: dynamic memory starts at 0 and the stacks do not
  run over the end of the address space; `PlayedAssumption`: what is on them fits.
* In `ZArith`, `Pow2Assumption`: the table holds the powers of two.
* `ObjAssumption`: there are finitely many objects.  `TrustAssumption`: in the port,
  which does not check them, a story names no object 0 (finding below).
* `PrintAssumption`: in the port, no text goes to memory, since it lacks output
  stream 3; in the reference `print_ret` may write there.
* In `ZDecode`, `AddrModAssumption`: the address space has an even number of bytes,
  65536 at most, so that a word's bytes wrap together.  In `ZStory`, `WidthIs16`:
  words have 16 bits; `StoriesAssumption`: a story is a finite file of bytes, none
  of them out of reach of an address.
* `CodeAssumption`: the instructions that a story lists as its code are where it
  says, byte for byte (`AsWritten`), as far as its file goes; they are of a form the
  version 3 decoder knows, their operands and distances fit the bytes that are for
  them, and no word of one has its bytes at both ends of the address space.  This is
  what an assembler does, and `DecodedAsAssembled` speaks of nothing else.

Two hypotheses are made by some theorems only.

* `StackDiscipline`: no routine takes words it did not push.  A return sets the
  stack back to where the routine found it, and if the routine has taken words of
  its caller they are gone; the code does not check it.  The other three theorems
  of the reference do without.
* `SavesGoOn`: no save has a branch that says return.  It is where the two versions
  differ (finding 1, and the failure of the branch that the port does not look at);
  run `z_save_undo` shows what happens without it.

### The arguments

*Reference stacks.*  `TypeOK` is inductive as it stands.  For the others one lemma
per primitive and per opcode says what it `Does`: by how much it moves the top of
the stack, and which frames it leaves alone.  `StackAccounting` follows from
`TypeOK` and these; the frames' nesting is inductive, and with it a returning
routine truncates the stack exactly to its caller's words.

*Port's bounds.*  The same invariant for the port's arrays, program counter and
bank.  A routine is `Kept` if it leads from a well-formed machine to one, and
`Quiet` if it leaves the program counter and the scratch words alone besides.  The
opcodes of `zdisp_step` are sequences of those, also where one fails half way.

*The port implements the reference.*  `View` reads a machine of the port as one of
the reference, with any program counter, since the port moves it before the
operands are read and the reference after.  From one machine, each routine of
`zstack.asm` and `zvar.asm` gives the `Same` as its counterpart of `vm_state.c`:
failure or success, value, and machine.  Only `zvar_frame_pop` needs a condition,
that the top is not under the routine's base; where that does not hold the model
sets `astray`.  `Agree` is `Same` up to that, and the dispatchers' helpers
(operands, store, branch, call, return) and opcodes agree one by one; the branch
needs `BankedIsFlat`, the comparisons `SltIsSigned`.  The scratch words of the
port (`zdisp_value`, `zdisp_value2`) are given to one routine and read by the next;
the lemmas of the helpers say which survive, and that is where `SavesGoOn` is
needed.  An action of the port is then the reference's action of that opcode, or
it stops where the reference may stop too or the port lacks the opcode
(`HostStops`); that the two fail on the same instructions is `InstructionsAgree`.

*Memory.*  The invariant `StateOK /\ CopyOK`: a window marked valid holds the
file's bytes at its base, a bank other than 0 is selected only during decoding,
and the loop of `zmread_bytes` stands as far behind its start as it has copied
bytes, which are the story's.  `StateOK` is `TypeOK /\ WindowIsFile`, so those are
inductive; what the reads return follows in each state.  A miss marks the window
invalid before the file is touched, and this is what carries the proof over
failing calls.

*Save file.*  `IInv` joins three parts.  `MemOK`: stacks and dynamic memory are in
their regions.  `FileOK`: whatever failed, `SAVE.DAT` is a beginning of the file
of the last state a save began to write.  `HookOK`: a save under way has written
whole sections of the state that still is the interpreter's, and a restore under
way has put back whole sections, or has come to the end of the file and is
`short`.  A section's length is read before its content, so that a restore places
each section where the save took it from.  It follows for what a read transfers:
no more than the last save had in that region, which is the capacity of a stack,
the same for all stories, or the dynamic memory of that save's story; and nothing
once the file has come to its end, when `zds_scratch` may ask for anything.

*Object tree.*  Consistency alone is not inductive: a list could have lost its
head, and a search would then come to its end and the port would insert an object
that is still linked elsewhere.  The invariant adds that there is a function `pos`
from objects to their place in their parent's list such that links lead from each
place to the next (`FirstIsChild`, `SiblingIsNext`), no place is shared
(`NoneShared`), and none is left out (`ChildIsFirst`, `HasPrevious`,
`NoneLeftOut`).  A search is always before the object it looks for
(`SearchIsBefore`), hence never at the end.  Unlinking moves those behind it up by
one, attaching moves all down by one.  For `KeepsLists` the lists are followed as
chains: a sequence of objects without repetition that the links lead through.
Unlinking takes one out of a chain and attaching puts one before it; that the walk
along the links, a recursive function, reads just the chain is shown by the least
step at which it would not (`WFMin`, the library's theorem that a well-founded set
has a minimum).

*Loader.*  As long as no block ends at the arena's last byte, `bump_next` is in the
arena and behind every block.  `GrantStaysInside` is the arithmetic of `bump_alloc`
without a wrap; it needs `next <= top`, which is just what an exactly exhausted
arena breaks.  `Stages` says what is known at each stage: how many blocks there
are, how much of dynamic memory was read, that the prefix and later the whole
dictionary lay inside the file.  If the dictionary reaches behind dynamic memory
its last byte was there to be read, and so was all that lies before it.

*Arithmetic.*  The loops' invariants: dividend = (quotient so far * divisor +
remainder) * 2^rb + low, where `low` is what `rb` passes have still to shift in,
which sits in the upper bits of `r7`; and product so far + `ra` * `r9` = product,
modulo the size of a word.  The remainder is always smaller than the divisor,
which is at most 2^(Width-1), the magnitude of the most negative word: that is why
the carry that `zud_loop` loses would be 0.

*The story's bytes.*  The loops over bytes are recursive functions, and a property
that one pass keeps is kept by all (`Inductive`, again from `WFMin`).  The routines
of the reference yield outcomes, of which a lemma says what they `Yield`: a value of
its kind, and a machine whose image, stack, program counter and table are in their
ranges.  `StoryInv` says the same of the machine between two passes of a job, and
that a text under way reads from a stream in a set that reading on and shifts do not
leave (`Closed`), with at most an abbreviation on top of it, which lies inside the
image (`Safe`); that is why `StaysDefined` need only list the texts that may start
outside of those.  The writes of
`sread` and the tokenizer are confined piece by piece: the characters, the
terminator, the parse entry, the count.  The port's results are those of C because
division truncated toward zero is unique: quotient and remainder are determined by
the sum, the bound on the remainder and its sign.

*Texts and the decoder.*  `TextInv`: while an inline text is read it still is what
the decoder measured, and what is left to read of it reaches to the next
instruction, with no word before that saying that it is the last (`InlineStreams`).
For the decoder, `ReadsBack` says of one piece of an instruction (opcode, operand types,
operands, store, branch, text) that it is read from the bytes it was assembled to,
or refused if one of them is missing, and `ReadsOn` puts one behind another.

### Only model-checked

* `SearchEnds` and `InstructionsEnd`: liveness is out of the prover's reach.
* `PrintsWhatIsWritten`, `StreamKeepsText`, `ParsedAsTyped`, `ObjectsAreMeant`,
  `ObjectReadsExact`: each compares what is read with what an author meant, over the
  whole of a text, a line, a dictionary or a property list.  What the recursive
  functions on both sides compute for every input takes an induction over data for
  each of them; the proofs above do that for the decoder only.
* The three runs that show a deviation.

## Findings

Three runs show the code doing other than its comments say (`findings` in
`PROJECT.json`):

1. `zds_save` (`lib/zdispatch.asm:2321`) keeps the fallthrough address in
   `zdisp_value`/`zdisp_value2` across `zdisp_branch`, and `zdisp_return` uses
   `zdisp_value` for the value returned.
2. `zmread16` (`lib/zmem.asm:236`) keeps the high byte in RC.0 across a read
   that may miss the window, which loads RC for `K_FILE_READ`.
3. `bump_alloc` (`lib/heap_bump.asm:90`) grants anything once the arena has been
   handed out exactly.

Met while reading or modelling, without a run of their own:

* The cursor of `host/decode.c` is 16 bits wide: in a story of 64K it goes on at
  address 0 behind the last byte, where `host/decode.h:59` promises -1, and
  `print` then reads text behind the image.
* Two loops of the reference may go round the address space for ever in a story
  that leaves no room behind it: that for the end of an inline text
  (`host/decode.c:277`), and the walk to a property (`host/properties.c:58`, `:144`)
  when the entries lead back to each other across the end.  `zstory` reaches all of
  them, and `InstructionsEnd` shows that nothing else does not end.
* `print_ztext_at` and abbreviations compute the bytes left in 16 bits; at
  address 0 of a story of 64K there are none, and the text is empty.
* `print_obj` does not compare the length of a name with the image.
* Handlers read operands without counting them: an instruction of the variable
  form with too few operands uses uninitialised memory in the reference, and the
  operands of the instruction before in the port.
* A typed character without a z-char among the first six of a word makes `sread`
  fail, and so stops the interpreter, in both versions, where an unknown word
  only gets dictionary entry 0.
* `put_prop`, `storew` and the tokenizer leave what they have written when a
  later byte is refused.
* `lib/zdec.asm:5` says that the port mirrors `host/ztext.c`, the ZSCII escape
  unimplemented in both.  The port implements it, and the reference prints a
  space and goes on with the two z-chars as text.  The reference has no limit on
  a text; the port cuts abbreviations at 64 bytes.
* A property's size byte with number 0 and a length ends a list for the
  reference only.  The port's writes do not compare addresses with the end of
  dynamic memory.

* `step_0op` takes the branch of `save` before calling back and restores only
  `pc` if the callback fails: a branch that says return has popped its frame
  (`host/dispatch.c:529`, comment at 533).  The port notes the limitation.
* Without a save callback the reference stops with `VM_ERROR`;
  `host/dispatch.h:53` says it behaves as a save that always fails.
* `zds_save` does not look at a failure of `zdisp_branch`, where the reference
  returns `VM_ERROR`.
* No read of `zdisp_restore_game` looks at the count of bytes (RC): a truncated
  file restores with success (`lib/zdispsave.asm:33` counts on a failure), with
  what was in memory for the part that is missing.  `RestoreIsExact` is
  therefore stated for complete reads.
* The save file names no story (`docs/ARCHITECTURE.md:45` wants release, serial,
  checksum and length), and the length of dynamic memory in it is taken as is: the
  file of a story with more of it overwrites what lies behind the buffer.
  `ReadsStayInside` says that this is the only overrun.
* A failed restore leaves the state half overwritten, `zdisp_pc` among it; the
  comment at `lib/zdispatch.asm:2378` speaks of an unchanged one.
* `restart`, `show_status` and output stream 3 stop the port.
* A jump by the two most negative distances wraps to a jump forward; the port
  is not followed from there (`astray`).
* `zmread16` at 65535 wraps to 0 where the reference fails; an instruction that
  straddles a bank boundary is decoded with `zm_bank` fixed.
* `zmread_bytes` reports a failing file call like the end of the file, as a
  short count; the loader takes both for failures.
* With more than 12 separators the dictionary's header does not fit the prefix
  that the loader reads, and its length and count come from the loader's own
  variables; the size of the dictionary is a word and wraps.
* The loader does not look at the count when it reads the header and dynamic
  memory.  `LoadedIsWhole` says when that is found out all the same.
* The port validates no object number: object 0 reads and writes the property
  defaults, and attributes above 31 reach the link bytes.  `lib/zobj.asm`
  demands that callers validate; the dispatcher does not.  `ObjTree` offers the
  port object numbers that exist.

## Plan

Done: the dispatchers with their refinement, save and restore, memory, the
object tree, the loader, the reference on the bytes of a story, the port's
arithmetic; proofs of every safety property of the dispatchers, their refinement,
memory, save file, loader, arithmetic and object tree, of that tree's refinement,
and of the bounds of the reference on the bytes of a story.  What would come next:

1. the port's decoder (`zdecode.asm`) on a story of two banks, compared with
   `ZDecode` on the flat image: the bank stays fixed while it decodes;
2. the port's text, dictionary and tokenizer (`zdec`, `zdict`, `zparse`) as
   refinements of `ZText` and `ZParse`, with their buffers of fixed size, and
   its property lists (`zprop`) as one of `ZProp`;
3. the refinement without `SavesGoOn`: a save whose branch says return agrees
   with the reference in all but the resumption after a failed save;
4. proofs of what `zstory` says about texts, lines and property lists, with an
   induction over data for each, as the decoder's reading back is proved now.

## Not modelled

* The terminal, the status line and the command line: formatting and console
  calls.
* The generators of random numbers: a number of the range is all that a story
  sees.  The reference's tests seed it, and no property tells its values apart.
* `bump_mark` and `bump_release`, which ZRUN3 never calls.
* The SDK snapshot in `lib/`, which comes from another repository and is mostly
  not linked; diagnostics, tests and build tools.
