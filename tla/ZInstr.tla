------------------------------- MODULE ZInstr -------------------------------
(***************************************************************************)
(* What a decoded V3 instruction is to the dispatchers: the record that    *)
(* host/decode.h declares as struct instruction and include/zdecode.inc    *)
(* lays out in memory as zdisp_instr.  The data part of an opcode (which   *)
(* number it adds, which property it reads) is abstracted: an instruction  *)
(* carries the result its data part computes, the truth value its test     *)
(* computes and the globals its writes to dynamic memory reach, and a      *)
(* specification lets the story run any instruction of Instrs at any time. *)
(* Every story file is one way of choosing them, and so is a story that    *)
(* rewrites its own code in dynamic memory.                                *)
(***************************************************************************)
EXTENDS Integers, SequencesExt

CONSTANTS
  WordMod,       \* 2^16 in the code: words wrap modulo WordMod
  ByteMod,       \* 2^8 in the code: a variable number is one byte
  Banks,         \* number of WordMod-sized banks a program counter spans
  LocalLimit,    \* 15 in the code: variables 1..LocalLimit are locals
  Globals,       \* the global variables whose word lies in dynamic memory
  RoutineHeader, \* packed address -> default values of a routine's locals
  Instrs         \* the instructions a story may execute

Word == 0 .. WordMod - 1
Var == 0 .. ByteMod - 1
PcSpace == WordMod * Banks
Pc == 0 .. PcSpace - 1

\* DECODE_MAX_OPERANDS
MaxOperands == 4

Opcodes ==
  { "je", "jz", "test", "store", "result", "result_branch", "inc", "dec",
    "inc_chk", "dec_chk", "load", "jump", "call", "ret", "rtrue", "rfalse",
    "ret_popped", "pop", "push", "pull", "print_ret", "effect", "show_status",
    "save", "restore", "restart", "quit", "bad" }

Operand == [type: {"constant", "variable"}, raw: Word]

Instr ==
  [ op: Opcodes, operands: Seq(Operand), store: Var, on_true: BOOLEAN,
    offset: Int, length: Word, result: Word, cond: BOOLEAN,
    writes: UNION {[S -> Word] : S \in SUBSET Globals} ]

\* How many operands the form of an opcode guarantees to its handler.
Arity(op) ==
  CASE op \in {"store", "inc_chk", "dec_chk", "je"} -> 2
    [] op \in {"jz", "inc", "dec", "load", "jump", "call", "ret", "push",
               "pull"} -> 1
    [] OTHER -> 0

\* The 0OP form encodes no operands.
ZeroOp ==
  { "rtrue", "rfalse", "print_ret", "save", "restore", "restart", "ret_popped",
    "pop", "quit", "show_status" }

ASSUME WordModAssumption == WordMod \in Nat \ {0} /\ WordMod % 2 = 0
ASSUME ByteModAssumption == ByteMod \in Nat \ {0} /\ ByteMod <= WordMod
ASSUME BanksAssumption == Banks \in Nat \ {0}
ASSUME LocalLimitAssumption == LocalLimit \in Nat
ASSUME GlobalsAssumption == Globals \subseteq Var \ (0 .. LocalLimit)
ASSUME RoutineAssumption ==
  \A p \in DOMAIN RoutineHeader : RoutineHeader[p] \in Seq(Word)
ASSUME InstrsAssumption ==
  \A i \in Instrs : /\ i \in Instr
                    /\ Len(i.operands) \in Arity(i.op) .. MaxOperands
ASSUME ZeroOpAssumption == \A i \in Instrs : i.op \in ZeroOp => i.operands = <<>>

\* A word as the two's complement number jl, jg, inc_chk, dec_chk and jump
\* take it for.
Signed(w) == IF 2 * w >= WordMod THEN w - WordMod ELSE w

\* Dynamic memory as the globals see it, after an instruction's writes.
Written(globals, i) ==
  [g \in Globals |-> IF g \in DOMAIN i.writes THEN i.writes[g] ELSE globals[g]]

\* The low byte of a word: an operand that names a variable is cut to it.
VarOf(w) == w % ByteMod

\* V3 packed routine address, and the address of the first instruction: one
\* byte of local count and a word for each local's default come before it.
RoutineEntry(packed, n) == (2 * packed + 1 + 2 * n) % PcSpace
=============================================================================
