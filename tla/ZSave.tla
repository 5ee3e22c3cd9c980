-------------------------------- MODULE ZSave --------------------------------
(***************************************************************************)
(* What save and restore do on ELF-DOS: lib/zdispsave.asm.  The state is   *)
(* written to, and read from, one file section by section, each with a     *)
(* file call of its own that may fail; power may go at any time.  A cell   *)
(* stands for one scalar or one word of a region.  The kernel's file calls *)
(* are modelled from their use and from include/kernel_api.inc: a write is *)
(* complete or fails, a read at the end of the file transfers what is left *)
(* and does not fail, and what a file opened for writing held is gone.     *)
(***************************************************************************)
EXTENDS Integers, SequencesExt, FiniteSetsExt

CONSTANTS
  AddrMod,   \* 2^16 in the code: addresses and lengths are words
  Base,      \* region -> its address: zsbase, zv_frame_base; dyn counts from 0
  StackCap,  \* capacity of the two stacks' regions
  Stories,   \* the story files one may start the interpreter with
  DynSize,   \* story -> the size of its dynamic memory
  Played,    \* story -> the states of play in which it may save or restore
  Garbage,   \* what zds_scratch may hold before it is first written
  NoFile     \* there is no SAVE.DAT

VARIABLES
  m,        \* the interpreter's memory: scalars, regions, tops of the regions
  story,    \* the story file that is loaded
  scratch,  \* zds_scratch
  file,     \* SAVE.DAT, a sequence of cells
  phase,    \* "story", "saving" or "restoring"
  at,       \* the section the next file call is for
  pos,      \* how much of the file has been read
  \* what only the properties look at:
  last,     \* the state of play that the last save began to write
  short,    \* this restore has had a read with fewer cells than asked for
  overrun   \* the regions past whose end a read has written

machine == <<m, story, scratch>>
hook == <<phase, at, pos, short>>
vars == <<machine, hook, file, last, overrun>>

Scalars == {"pc", "pc_bank", "globals_base", "rand"}
Regions == {"eval", "frames", "dyn"}
Addr == 0 .. AddrMod - 1

\* The file's layout: one element for each K_FILE_WRITE and K_FILE_READ.
Layout ==
  << [kind |-> "scalar", of |-> "pc"], [kind |-> "scalar", of |-> "pc_bank"],
     [kind |-> "scalar", of |-> "globals_base"],
     [kind |-> "length", of |-> "eval"], [kind |-> "content", of |-> "eval"],
     [kind |-> "length", of |-> "frames"], [kind |-> "content", of |-> "frames"],
     [kind |-> "scalar", of |-> "rand"],
     [kind |-> "length", of |-> "dyn"], [kind |-> "content", of |-> "dyn"] >>

Capacity(st) ==
  [r \in Regions |-> IF r = "dyn" THEN DynSize[st] ELSE StackCap]

\* A state of play: what a save has to keep of the interpreter's memory.
PlayState == [scalar : [Scalars -> Addr], content : [Regions -> Seq(Addr)]]

ASSUME SizesAssumption ==
  AddrMod \in Nat \ {0} /\ StackCap \in Nat /\ DynSize \in [Stories -> Addr]
ASSUME BaseAssumption ==
  /\ Base \in [Regions -> Addr] /\ Base["dyn"] = 0
  /\ \A r \in Regions \ {"dyn"} : Base[r] + StackCap < AddrMod
ASSUME PlayedAssumption ==
  \A st \in Stories : \A v \in Played[st] :
    /\ v \in PlayState
    /\ \A r \in Regions : Len(v.content[r]) <= Capacity(st)[r]
    /\ Len(v.content["dyn"]) = DynSize[st]
ASSUME GarbageAssumption == Garbage \subseteq Addr

Length(r) == (m.top[r] - Base[r]) % AddrMod

\* cells laid over memory from its start on; what does not fit is not kept.
Overlay(memory, cells) ==
  [k \in 1 .. Len(memory) |-> IF k <= Len(cells) THEN cells[k] ELSE memory[k]]

\* Interpreter memory in state of play v.
Loaded(st, v) ==
  [ scalar |-> v.scalar,
    top |-> [r \in Regions |-> (Base[r] + Len(v.content[r])) % AddrMod],
    mem |-> [r \in Regions |->
               Overlay([k \in 1 .. Capacity(st)[r] |-> 0], v.content[r])] ]

\* The state of play that the pointers delimit, if they lie in their regions.
WellFormed == overrun = {} /\ \A r \in Regions : Length(r) <= Capacity(story)[r]
View ==
  [ scalar |-> m.scalar,
    content |-> [r \in Regions |-> SubSeq(m.mem[r], 1, Length(r))] ]

Idle == /\ phase' = "story" /\ at' = 1 /\ pos' = 0
        /\ short' = FALSE

\* The story goes on; the model stops following one whose stacks are broken or
\* that has had the memory behind a region overwritten, and forgets the words
\* above the tops of the stacks.
Play ==
  /\ phase = "story" /\ WellFormed
  /\ \E v \in Played[story] : m' = Loaded(story, v)
  /\ UNCHANGED <<story, scratch, hook, file, last, overrun>>

-----------------------------------------------------------------------------
(* zdisp_save_game                                                         *)

SaveOpen ==
  /\ phase = "story" /\ WellFormed
  /\ phase' = "saving"
  /\ file' = <<>> /\ last' = [story |-> story, view |-> View]
  /\ UNCHANGED <<machine, at, pos, short, overrun>>

\* What the section's file call writes.
Section(k) ==
  LET of == Layout[k].of
  IN CASE Layout[k].kind = "scalar" -> <<m.scalar[of]>>
       [] Layout[k].kind = "length" -> <<Length(of)>>
       [] Layout[k].kind = "content" -> SubSeq(m.mem[of], 1, Length(of))

\* A length goes through zds_scratch, that of dynamic memory excepted.
ThroughScratch(k) == Layout[k].kind = "length" /\ Layout[k].of # "dyn"

SaveWrite ==
  /\ phase = "saving" /\ at <= Len(Layout)
  /\ file' = file \o Section(at)
  /\ scratch' = IF ThroughScratch(at) THEN Length(Layout[at].of) ELSE scratch
  /\ at' = at + 1
  /\ UNCHANGED <<m, story, phase, pos, short, last, overrun>>

(* Definitions named .._mutant are slips that the code does not have; no    *)
(* specification uses them.                                                *)

SaveFail_mutant ==
  /\ phase = "saving" /\ at <= Len(Layout)
  /\ \E n \in 0 .. Len(Section(at)) : file' = file \o SubSeq(Section(at), 1, n)
  /\ scratch' = IF ThroughScratch(at) THEN Length(Layout[at].of) ELSE scratch
  /\ at' = at + 1
  /\ UNCHANGED <<m, story, phase, pos, short, last, overrun>>

\* A write that fails may have put part of its cells there.  The save has failed,
\* so that nothing depends on whether the close after it succeeds: it is part of
\* this step, and its outcome is not looked at.
SaveFail ==
  /\ phase = "saving" /\ at <= Len(Layout)
  /\ \E n \in 0 .. Len(Section(at)) : file' = file \o SubSeq(Section(at), 1, n)
  /\ scratch' = IF ThroughScratch(at) THEN Length(Layout[at].of) ELSE scratch
  /\ Idle
  /\ UNCHANGED <<m, story, last, overrun>>

\* The save succeeds if the file closes.
SaveClose ==
  /\ phase = "saving" /\ at > Len(Layout)
  /\ Idle
  /\ UNCHANGED <<machine, file, last, overrun>>

\* A close that fails may have lost the end of the file.
SaveCloseFail ==
  /\ phase = "saving" /\ at > Len(Layout)
  /\ \E n \in 0 .. Len(file) : file' = SubSeq(file, 1, n)
  /\ Idle
  /\ UNCHANGED <<machine, last, overrun>>

-----------------------------------------------------------------------------
(* zdisp_restore_game: each section is read into its place in the running  *)
(* interpreter.  How many cells came back (RC) is never looked at.         *)

RestoreOpen ==
  /\ phase = "story" /\ WellFormed /\ file # NoFile
  /\ phase' = "restoring"
  /\ UNCHANGED <<machine, at, pos, short, file, last, overrun>>

Wanted_mutant(k) ==
  LET of == Layout[k].of
  IN IF Layout[k].kind # "content" THEN 1
     ELSE IF of = "dyn" THEN m.top[of] ELSE ((scratch - Base[of]) % AddrMod) + 1

\* How many cells the section's file call asks for.
Wanted(k) ==
  LET of == Layout[k].of
  IN IF Layout[k].kind # "content" THEN 1
     ELSE IF of = "dyn" THEN m.top[of] ELSE (scratch - Base[of]) % AddrMod

\* The next n cells of the file, or as many as there are.
Cells(n) == SubSeq(file, pos + 1, Min({pos + n, Len(file)}))

\* The cells in the place they are read into.
Put(k, cells) ==
  LET of == Layout[k].of
  IN CASE Layout[k].kind = "scalar" /\ cells # <<>> -> [m EXCEPT !.scalar[of] = cells[1]]
       [] Layout[k].kind = "content" -> [m EXCEPT !.mem[of] = Overlay(@, cells)]
       [] OTHER -> m

\* The region, if any, that n cells are too many for.
Overrun(k, n) ==
  {r \in Regions : Layout[k].kind = "content" /\ Layout[k].of = r /\ n > Capacity(story)[r]}

Transfer(k, cells) ==
  /\ pos' = pos + Len(cells)
  /\ short' = (short \/ Len(cells) < Wanted(k))
  /\ overrun' = overrun \cup Overrun(k, Len(cells))

\* A length read is turned into the pointer to set when the content is in;
\* zmend is set at once.
ReadLength ==
  /\ phase = "restoring" /\ at <= Len(Layout) /\ Layout[at].kind = "length"
  /\ LET cells == Cells(1)
         of == Layout[at].of
         length == IF cells = <<>> THEN scratch ELSE cells[1]
     IN /\ Transfer(at, cells)
        /\ scratch' = (Base[of] + length) % AddrMod
        /\ m' = IF of = "dyn" THEN [m EXCEPT !.top[of] = length] ELSE m
  /\ at' = at + 1
  /\ UNCHANGED <<story, phase, file, last>>

ReadContent_mutant ==
  /\ phase = "restoring" /\ at <= Len(Layout) /\ Layout[at].kind = "content"
  /\ LET cells == Cells(Wanted(at)) IN Transfer(at, cells) /\ m' = Put(at, cells)
  /\ at' = at + 1
  /\ UNCHANGED <<story, scratch, phase, file, last>>

ReadContent ==
  /\ phase = "restoring" /\ at <= Len(Layout) /\ Layout[at].kind = "content"
  /\ LET cells == Cells(Wanted(at))
         of == Layout[at].of
         filled == Put(at, cells)
     IN /\ Transfer(at, cells)
        /\ m' = IF of = "dyn" THEN filled
                ELSE [filled EXCEPT !.top[of] = scratch]
  /\ at' = at + 1
  /\ UNCHANGED <<story, scratch, phase, file, last>>

ReadScalar ==
  /\ phase = "restoring" /\ at <= Len(Layout) /\ Layout[at].kind = "scalar"
  /\ LET cells == Cells(1) IN Transfer(at, cells) /\ m' = Put(at, cells)
  /\ at' = at + 1
  /\ UNCHANGED <<story, scratch, phase, file, last>>

\* A read that fails may have transferred part of its cells; the file is
\* closed, and what has been overwritten so far stays so.
RestoreFail ==
  /\ phase = "restoring" /\ at <= Len(Layout)
  /\ \E n \in 0 .. Len(Cells(Wanted(at))) :
       /\ m' = Put(at, Cells(n))
       /\ scratch' = IF Layout[at].kind = "length" /\ n = 1
                     THEN Cells(1)[1] ELSE scratch
       /\ overrun' = overrun \cup Overrun(at, n)
  /\ Idle
  /\ UNCHANGED <<story, file, last>>

\* The close decides; with everything read already, it changes nothing more.
RestoreClose ==
  /\ phase = "restoring" /\ at > Len(Layout)
  /\ Idle
  /\ UNCHANGED <<machine, file, last, overrun>>

-----------------------------------------------------------------------------
\* The machine goes down; the interpreter is started again with some story.
\* The end of a file that was not closed may be lost.
PowerLoss ==
  /\ story' \in Stories
  /\ \E v \in Played[story'] : m' = Loaded(story', v)
  /\ scratch' \in Garbage
  /\ \/ phase # "saving" /\ file' = file
     \/ phase = "saving" /\ \E n \in 0 .. Len(file) : file' = SubSeq(file, 1, n)
  /\ Idle /\ overrun' = {}
  /\ UNCHANGED last

Init ==
  /\ story \in Stories
  /\ \E v \in Played[story] : m = Loaded(story, v)
  /\ scratch \in Garbage
  /\ file = NoFile /\ last = NoFile
  /\ phase = "story" /\ at = 1 /\ pos = 0
  /\ short = FALSE /\ overrun = {}

Next ==
  \/ Play \/ SaveOpen \/ SaveWrite \/ SaveFail \/ SaveClose \/ SaveCloseFail
  \/ RestoreOpen \/ ReadLength \/ ReadContent \/ ReadScalar \/ RestoreFail
  \/ RestoreClose \/ PowerLoss

Spec == Init /\ [][Next]_vars

-----------------------------------------------------------------------------
\* A save that reports success leaves in the file every section of the state
\* it was called in, whatever failed before it: another save, a restore.
SaveIsComplete ==
  [][SaveClose => /\ last.view = View
                  /\ file' = Section(1) \o Section(2) \o Section(3) \o Section(4)
                               \o Section(5) \o Section(6) \o Section(7) \o Section(8)
                               \o Section(9) \o Section(10)]_vars

\* A restore that reports success after complete reads puts the interpreter in
\* the state one save was called in, the last that began: no part of it is
\* left from the game under way, from an older save or from a failed restore.
RestoreIsExact ==
  [][RestoreClose /\ ~ short /\ last.story = story => View = last.view]_vars

\* A restore writes past the end of dynamic memory only, and only when SAVE.DAT
\* is of a story that has more of it than the one that is loaded: the file does
\* not name its story and no length is compared with anything.  The stacks are
\* safe from every file, also from the rest of a save that never finished.
ReadsStayInside ==
  /\ overrun \subseteq {"dyn"}
  /\ overrun # {} => DynSize[last.story] > DynSize[story]
=============================================================================
