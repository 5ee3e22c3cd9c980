----------------------------- MODULE HeapBump -----------------------------
(***************************************************************************)
(* lib/heap_bump.asm: an arena handed out from the front.  next is the     *)
(* first free byte and top the last usable one; both are words, and the    *)
(* arithmetic on them wraps.                                               *)
(***************************************************************************)
EXTENDS Integers

CONSTANT WordMod  \* 65536 in the code

ASSUME WordModAssumption == WordMod \in Nat \ {0}

Word == 0 .. WordMod - 1

\* What is left, less one as both bounds are usable; WordMod - 1 when next has
\* passed a top that was just handed out.
Remaining(next, top) == (top - next) % WordMod

Fits_mutant(next, top, size) == size = 0 \/ Remaining(next, top) + 1 >= size - 1

Fits(next, top, size) == size = 0 \/ Remaining(next, top) >= size - 1

\* The block starts at next and the rest of the arena behind it.
Behind(next, size) == (next + size) % WordMod
=============================================================================
