------------------------------ MODULE VmState ------------------------------
(***************************************************************************)
(* The state of the reference interpreter and its primitives:              *)
(* host/vm_state.c.  A machine is a record of the evaluation stack, the    *)
(* call frames, the global variables and the program counter.              *)
(***************************************************************************)
EXTENDS ZInstr, Outcome

CONSTANTS
  EvalMax,   \* VM_EVAL_STACK_MAX
  FrameMax   \* VM_FRAMES_MAX

ASSUME EvalMaxAssumption == EvalMax \in Nat
ASSUME FrameMaxAssumption == FrameMax \in Nat

Frame ==
  [ return_pc: Pc, store_variable: Var, locals: Seq(Word),
    stack_base: 0 .. EvalMax ]

Machine ==
  [ eval: Seq(Word), frames: Seq(Frame), globals: [Globals -> Word], pc: Pc ]

(* Definitions named .._mutant are slips that the code does not have; no    *)
(* specification uses them.                                                *)

vm_push_mutant(s, v) ==
  IF Len(s.eval) > EvalMax THEN Fail(s)
  ELSE Done([s EXCEPT !.eval = Append(s.eval, v)])

vm_push(s, v) ==
  IF Len(s.eval) >= EvalMax THEN Fail(s)
  ELSE Done([s EXCEPT !.eval = Append(s.eval, v)])

vm_pop(s) ==
  IF Len(s.eval) = 0 THEN Fail(s)
  ELSE Value([s EXCEPT !.eval = Front(s.eval)], Last(s.eval))

vm_frame_push_mutant(s, return_pc, store_variable, locals) ==
  IF Len(locals) > LocalLimit \/ Len(s.frames) >= FrameMax THEN Fail(s)
  ELSE Done([s EXCEPT !.frames = Append(s.frames,
              [ return_pc |-> return_pc, store_variable |-> store_variable,
                locals |-> locals, stack_base |-> 0 ])])

vm_frame_push(s, return_pc, store_variable, locals) ==
  IF Len(locals) > LocalLimit \/ Len(s.frames) >= FrameMax THEN Fail(s)
  ELSE Done([s EXCEPT !.frames = Append(s.frames,
              [ return_pc |-> return_pc, store_variable |-> store_variable,
                locals |-> locals, stack_base |-> Len(s.eval) ])])

vm_frame_pop_mutant(s) ==
  IF Len(s.frames) = 0 THEN Fail(s)
  ELSE Value([s EXCEPT !.frames = Front(s.frames), !.eval = <<>>], Last(s.frames))

\* Discards what the routine left on the stack, if it left anything.
vm_frame_pop(s) ==
  IF Len(s.frames) = 0 THEN Fail(s)
  ELSE LET frame == Last(s.frames)
           eval == IF Len(s.eval) > frame.stack_base
                   THEN Prefix(s.eval, frame.stack_base) ELSE s.eval
       IN Value([s EXCEPT !.frames = Front(s.frames), !.eval = eval], frame)

\* Variable v names a local of the routine that is running.
IsLocal(s, v) ==
  /\ v \in 1 .. LocalLimit
  /\ Len(s.frames) > 0
  /\ v <= Len(Last(s.frames).locals)

\* Locals and globals: what direct and indirect access share.
NamedRead(s, v) ==
  IF IsLocal(s, v) THEN Value(s, Last(s.frames).locals[v])
  ELSE IF v \in Globals THEN Value(s, s.globals[v]) ELSE Fail(s)

NamedWrite_mutant(s, v, value) ==
  IF IsLocal(s, v)
  THEN Done([s EXCEPT !.frames = [s.frames EXCEPT ![1].locals[v] = value]])
  ELSE IF v \in Globals THEN Done([s EXCEPT !.globals = [s.globals EXCEPT ![v] = value]])
  ELSE Fail(s)

NamedWrite(s, v, value) ==
  IF IsLocal(s, v)
  THEN LET frame == Last(s.frames)
       IN Done([s EXCEPT !.frames = WithTop(s.frames,
                 [frame EXCEPT !.locals = [frame.locals EXCEPT ![v] = value]])])
  ELSE IF v \in Globals THEN Done([s EXCEPT !.globals = [s.globals EXCEPT ![v] = value]])
  ELSE Fail(s)

vm_read_variable(s, v) == IF v = 0 THEN vm_pop(s) ELSE NamedRead(s, v)

vm_write_variable(s, v, value) ==
  IF v = 0 THEN vm_push(s, value) ELSE NamedWrite(s, v, value)

vm_read_variable_indirect_mutant(s, v) == vm_read_variable(s, v)

\* Indirect access to variable 0 works on the top of the stack in place.
vm_read_variable_indirect(s, v) ==
  IF v # 0 THEN NamedRead(s, v)
  ELSE IF Len(s.eval) = 0 THEN Fail(s) ELSE Value(s, Last(s.eval))

vm_write_variable_indirect(s, v, value) ==
  IF v # 0 THEN NamedWrite(s, v, value)
  ELSE IF Len(s.eval) = 0 THEN Fail(s)
  ELSE Done([s EXCEPT !.eval = WithTop(s.eval, value)])
=============================================================================
