------------------------------- MODULE ZVar -------------------------------
(***************************************************************************)
(* The 1802 port's stacks and variables: lib/zstack.asm and lib/zvar.asm.  *)
(* The evaluation stack is a region of memory with a pointer into it, so a *)
(* word that has been popped is still there; pointers count words from     *)
(* zsbase.  A program counter is a byte that selects a bank and a word     *)
(* within it.  A frame record keeps the whole address.                     *)
(***************************************************************************)
EXTENDS ZInstr, Outcome

CONSTANTS
  EvalMax,   \* (zstop - zsbase) / 2
  FrameMax   \* (zv_frame_top - zv_frame_base) / FRAME_SIZE

ASSUME EvalMaxAssumption == EvalMax \in Nat
ASSUME FrameMaxAssumption == FrameMax \in Nat
\* zdisp_pc_bank is one byte.
ASSUME BankAssumption == Banks <= ByteMod

Bank == 0 .. Banks - 1

ZFrame ==
  [ return_pc: Word, return_pc_bank: Bank, store_variable: Var,
    locals: Seq(Word), stack_base: 0 .. EvalMax ]

(* zdisp_value and zdisp_value2 are the dispatcher's scratch words, which  *)
(* its routines share.  astray is no part of the port: it is set when the  *)
(* story does what the port's comments say no story does.                  *)
ZMachine ==
  [ zsmem: Seq(Word), zsptr: 0 .. EvalMax, frames: Seq(ZFrame),
    globals: [Globals -> Word], zdisp_pc: Word, zdisp_pc_bank: Bank,
    zdisp_value: Word, zdisp_value2: Word, astray: BOOLEAN ]

(* Definitions named .._mutant are slips that the code does not have; no    *)
(* specification uses them.                                                *)

zstack_push_mutant(z, v) ==
  IF z.zsptr > EvalMax THEN Fail(z)
  ELSE Done([z EXCEPT !.zsmem = [z.zsmem EXCEPT ![z.zsptr + 1] = v],
                      !.zsptr = z.zsptr + 1])

zstack_push(z, v) ==
  IF z.zsptr + 1 > EvalMax THEN Fail(z)
  ELSE Done([z EXCEPT !.zsmem = [z.zsmem EXCEPT ![z.zsptr + 1] = v],
                      !.zsptr = z.zsptr + 1])

zstack_pop(z) ==
  IF z.zsptr = 0 THEN Fail(z)
  ELSE Value([z EXCEPT !.zsptr = z.zsptr - 1], z.zsmem[z.zsptr])

zvar_frame_push(z, pc, bank, store_variable, locals) ==
  IF Len(locals) > LocalLimit \/ Len(z.frames) + 1 > FrameMax THEN Fail(z)
  ELSE Done([z EXCEPT !.frames = Append(z.frames,
              [ return_pc |-> pc, return_pc_bank |-> bank,
                store_variable |-> store_variable, locals |-> locals,
                stack_base |-> z.zsptr ])])

zvar_frame_pop_mutant(z) ==
  IF Len(z.frames) = 0 THEN Fail(z)
  ELSE Value([z EXCEPT !.frames = Front(z.frames)], Last(z.frames))

\* The stack pointer goes back to stack_base from wherever it is.
zvar_frame_pop(z) ==
  IF Len(z.frames) = 0 THEN Fail(z)
  ELSE LET frame == Last(z.frames)
       IN Value([z EXCEPT !.frames = Front(z.frames), !.zsptr = frame.stack_base,
                          !.astray = z.astray \/ z.zsptr < frame.stack_base],
                frame)

\* Is there an active frame with a local of that number?
HasLocal(z, v) == Len(z.frames) # 0 /\ v <= Len(Last(z.frames).locals)

zv_local_or_global_read(z, v) ==
  IF v <= LocalLimit
  THEN IF HasLocal(z, v) THEN Value(z, Last(z.frames).locals[v]) ELSE Fail(z)
  ELSE IF v \in Globals THEN Value(z, z.globals[v]) ELSE Fail(z)

zv_local_or_global_write(z, v, value) ==
  IF v <= LocalLimit
  THEN LET frame == Last(z.frames)
           locals == [frame.locals EXCEPT ![v] = value]
       IN IF HasLocal(z, v)
          THEN Done([z EXCEPT !.frames =
                       WithTop(z.frames, [frame EXCEPT !.locals = locals])])
          ELSE Fail(z)
  ELSE IF v \in Globals
       THEN Done([z EXCEPT !.globals = [z.globals EXCEPT ![v] = value]])
       ELSE Fail(z)

zvar_read(z, v) ==
  IF v = 0 THEN zstack_pop(z) ELSE zv_local_or_global_read(z, v)

zvar_write(z, v, value) ==
  IF v = 0 THEN zstack_push(z, value) ELSE zv_local_or_global_write(z, v, value)

\* Variable 0, indirectly: the word under the pointer, which stays put.
zvar_read_indirect(z, v) ==
  IF v # 0 THEN zv_local_or_global_read(z, v)
  ELSE IF z.zsptr = 0 THEN Fail(z) ELSE Value(z, z.zsmem[z.zsptr])

zvar_write_indirect(z, v, value) ==
  IF v # 0 THEN zv_local_or_global_write(z, v, value)
  ELSE IF z.zsptr = 0 THEN Fail(z)
  ELSE Done([z EXCEPT !.zsmem = [z.zsmem EXCEPT ![z.zsptr] = value]])
=============================================================================
