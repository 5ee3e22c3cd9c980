-------------------------- MODULE VmDispatch_proofs --------------------------
(***************************************************************************)
(* The reference's stacks, for every width, stack size and set of          *)
(* instructions: they stay in their arrays; each instruction moves the top *)
(* by the words it names (Does); it changes frames at their top only; and  *)
(* the segments of the frames stay nested, callers' words under them       *)
(* untouched, when routines keep to the words they pushed.                 *)
(***************************************************************************)
EXTENDS VmDispatch, SequenceTheorems, FiniteSetTheorems, TLAPS

FramesOK(f) ==
  /\ f \in Seq(Frame)
  /\ Len(f) <= FrameMax
  /\ \A k \in 1 .. Len(f) : Len(f[k].locals) <= LocalLimit

LEMMA Fields ==
  ASSUME NEW s, MachineOK(s)
  PROVE  /\ s.eval \in Seq(Word) /\ Len(s.eval) <= EvalMax
         /\ FramesOK(s.frames)
         /\ s.globals \in [Globals -> Word]
         /\ s.pc \in Pc
         /\ s = [eval |-> s.eval, frames |-> s.frames, globals |-> s.globals, pc |-> s.pc]
BY DEF MachineOK, Machine, FramesOK

LEMMA SetEval ==
  ASSUME NEW s, MachineOK(s), NEW e \in Seq(Word), Len(e) <= EvalMax
  PROVE  MachineOK([s EXCEPT !.eval = e])
BY DEF MachineOK, Machine

LEMMA SetFrames ==
  ASSUME NEW s, MachineOK(s), NEW f, FramesOK(f)
  PROVE  MachineOK([s EXCEPT !.frames = f])
BY DEF MachineOK, Machine, FramesOK

LEMMA SetPc ==
  ASSUME NEW s, MachineOK(s), NEW p \in Pc
  PROVE  MachineOK([s EXCEPT !.pc = p])
BY DEF MachineOK, Machine

LEMMA SetGlobals ==
  ASSUME NEW s, MachineOK(s), NEW g \in [Globals -> Word]
  PROVE  MachineOK([s EXCEPT !.globals = g])
BY DEF MachineOK, Machine

LEMMA PrefixSeq ==
  ASSUME NEW S, NEW q \in Seq(S), NEW n \in 0 .. Len(q)
  PROVE  /\ Prefix(q, n) \in Seq(S) /\ Len(Prefix(q, n)) = n
         /\ \A k \in 1 .. n : Prefix(q, n)[k] = q[k]
BY DEF Prefix

LEMMA AppendSeq ==
  ASSUME NEW S, NEW q \in Seq(S), NEW e \in S
  PROVE  /\ Append(q, e) \in Seq(S) /\ Len(Append(q, e)) = Len(q) + 1
         /\ \A k \in 1 .. Len(q) : Append(q, e)[k] = q[k]
         /\ Append(q, e)[Len(q) + 1] = e
OBVIOUS

LEMMA FrontSeq ==
  ASSUME NEW S, NEW q \in Seq(S), Len(q) # 0
  PROVE  /\ Front(q) \in Seq(S) /\ Len(Front(q)) = Len(q) - 1
         /\ Last(q) \in S
         /\ \A k \in 1 .. Len(q) - 1 : Front(q)[k] = q[k]
<1>2. Last(q) \in S
  BY DEF Last
<1>3. Front(q) = Prefix(q, Len(q) - 1)
  BY DEF Front, Prefix
<1>4. Len(q) - 1 \in 0 .. Len(q)
  OBVIOUS
<1> QED
  BY <1>2, <1>3, <1>4, PrefixSeq

LEMMA WithTopSeq ==
  ASSUME NEW S, NEW q \in Seq(S), NEW e \in S, Len(q) # 0
  PROVE  /\ WithTop(q, e) \in Seq(S) /\ Len(WithTop(q, e)) = Len(q)
         /\ Last(q) \in S
         /\ Last(WithTop(q, e)) = e
         /\ \A k \in 1 .. Len(q) - 1 : WithTop(q, e)[k] = q[k]
BY DEF WithTop, Last

\* What a primitive may leave behind, whether it succeeds or fails.
StepOK(r) == MachineOK(r.vm)

LEMMA Results ==
  ASSUME NEW s, NEW v
  PROVE  /\ Value(s, v).ok /\ Value(s, v).vm = s /\ Value(s, v).value = v
         /\ Done(s).ok /\ Done(s).vm = s /\ Done(s).value = 0
         /\ ~ Fail(s).ok /\ Fail(s).vm = s /\ Fail(s).value = 0
BY DEF Value, Done, Fail

LEMMA PushOK ==
  ASSUME NEW s, MachineOK(s), NEW v \in Word
  PROVE  StepOK(vm_push(s, v))
<1>1. CASE Len(s.eval) >= EvalMax
  BY <1>1, Results DEF vm_push, StepOK
<1>2. CASE ~ (Len(s.eval) >= EvalMax)
  <2>1. /\ Append(s.eval, v) \in Seq(Word)
        /\ Len(Append(s.eval, v)) <= EvalMax
    BY <1>2, Fields, AppendSeq, EvalMaxAssumption
  <2>2. MachineOK([s EXCEPT !.eval = Append(s.eval, v)])
    BY <2>1, SetEval
  <2> QED
    BY <1>2, <2>2, Results DEF vm_push, StepOK
<1> QED
  BY <1>1, <1>2

LEMMA PopOK ==
  ASSUME NEW s, MachineOK(s)
  PROVE  StepOK(vm_pop(s)) /\ (vm_pop(s).ok => vm_pop(s).value \in Word)
<1>1. CASE Len(s.eval) = 0
  BY <1>1, Results DEF vm_pop, StepOK
<1>2. CASE Len(s.eval) # 0
  <2>1. /\ Front(s.eval) \in Seq(Word)
        /\ Len(Front(s.eval)) <= EvalMax
        /\ Last(s.eval) \in Word
    BY <1>2, Fields, FrontSeq, EvalMaxAssumption
  <2>2. MachineOK([s EXCEPT !.eval = Front(s.eval)])
    BY <2>1, SetEval
  <2> QED
    BY <1>2, <2>1, <2>2, Results DEF vm_pop, StepOK
<1> QED
  BY <1>1, <1>2

LEMMA FramesTop ==
  ASSUME NEW f, FramesOK(f), Len(f) # 0
  PROVE  /\ FramesOK(Front(f))
         /\ Last(f) \in Frame
         /\ Len(Last(f).locals) <= LocalLimit
<1>1. f \in Seq(Frame) /\ Len(f) \in Nat
  BY DEF FramesOK
<1>2. Last(f) \in Frame /\ Len(Last(f).locals) <= LocalLimit
  BY <1>1, FrontSeq DEF FramesOK, Last
<1>3. Front(f) \in Seq(Frame) /\ Len(Front(f)) = Len(f) - 1
  BY <1>1, FrontSeq
<1>4. \A k \in 1 .. Len(Front(f)) : Len(Front(f)[k].locals) <= LocalLimit
  <2> TAKE k \in 1 .. Len(Front(f))
  <2>1. k \in 1 .. Len(f) - 1
    BY <1>3
  <2>2. Front(f)[k] = f[k]
    BY <1>1, <2>1, FrontSeq
  <2>3. k \in 1 .. Len(f)
    BY <1>1, <2>1
  <2> QED
    BY <2>2, <2>3 DEF FramesOK
<1>5. Len(Front(f)) <= FrameMax
  BY <1>1, <1>3, FrameMaxAssumption DEF FramesOK
<1> QED
  BY <1>2, <1>3, <1>4, <1>5 DEF FramesOK

LEMMA FramesWithTop ==
  ASSUME NEW f, FramesOK(f), Len(f) # 0,
         NEW g \in Frame, Len(g.locals) <= LocalLimit
  PROVE  FramesOK(WithTop(f, g))
<1>1. f \in Seq(Frame) /\ Len(f) \in Nat
  BY DEF FramesOK
<1>2. WithTop(f, g) \in Seq(Frame) /\ Len(WithTop(f, g)) = Len(f)
  BY <1>1, WithTopSeq
<1>3. \A k \in 1 .. Len(f) : WithTop(f, g)[k] = IF k = Len(f) THEN g ELSE f[k]
  BY <1>1 DEF WithTop
<1> QED
  BY <1>1, <1>2, <1>3 DEF FramesOK

LEMMA FramePushOK ==
  ASSUME NEW s, MachineOK(s), NEW pc \in Pc, NEW v \in Var, NEW l \in Seq(Word)
  PROVE  StepOK(vm_frame_push(s, pc, v, l))
<1> DEFINE frame == [ return_pc |-> pc, store_variable |-> v, locals |-> l,
                      stack_base |-> Len(s.eval) ]
<1>1. CASE Len(l) > LocalLimit \/ Len(s.frames) >= FrameMax
  BY <1>1, Results DEF vm_frame_push, StepOK
<1>2. CASE ~ (Len(l) > LocalLimit \/ Len(s.frames) >= FrameMax)
  <2>1. frame \in Frame /\ Len(frame.locals) <= LocalLimit
    BY <1>2, Fields, EvalMaxAssumption, LocalLimitAssumption DEF Frame
  <2>2. s.frames \in Seq(Frame) /\ Len(s.frames) + 1 <= FrameMax
    BY <1>2, Fields, FrameMaxAssumption DEF FramesOK
  <2>3. FramesOK(Append(s.frames, frame))
    <3> HIDE DEF frame
    <3> QED
      BY <2>1, <2>2, Fields, AppendSeq DEF FramesOK
  <2>4. MachineOK([s EXCEPT !.frames = Append(s.frames, frame)])
    BY <2>3, SetFrames
  <2> QED
    BY <1>2, <2>4, Results DEF vm_frame_push, StepOK
<1> QED
  BY <1>1, <1>2

LEMMA FramePopOK ==
  ASSUME NEW s, MachineOK(s)
  PROVE  /\ StepOK(vm_frame_pop(s))
         /\ vm_frame_pop(s).ok => vm_frame_pop(s).value \in Frame
<1>1. CASE Len(s.frames) = 0
  BY <1>1, Results DEF vm_frame_pop, StepOK
<1>2. CASE Len(s.frames) # 0
  <2> DEFINE frame == Last(s.frames)
             eval == IF Len(s.eval) > frame.stack_base
                     THEN Prefix(s.eval, frame.stack_base) ELSE s.eval
             popped == Front(s.frames)
  <2>1. frame \in Frame
    BY <1>2, Fields, FrontSeq DEF FramesOK
  <2>2. FramesOK(popped)
    BY <1>2, Fields, FramesTop
  <2>3. eval \in Seq(Word) /\ Len(eval) <= EvalMax
    <3>1. frame.stack_base \in Nat
      BY <2>1, EvalMaxAssumption DEF Frame
    <3> QED
      BY <3>1, Fields, PrefixSeq, EvalMaxAssumption
  <2>4. MachineOK([[s EXCEPT !.frames = popped] EXCEPT !.eval = eval])
    <3> HIDE DEF eval, popped
    <3>1. MachineOK([s EXCEPT !.frames = popped])
      BY <2>2, SetFrames
    <3> QED
      BY <3>1, <2>3, SetEval
  <2>5. [[s EXCEPT !.frames = popped] EXCEPT !.eval = eval]
          = [s EXCEPT !.frames = popped, !.eval = eval]
    OBVIOUS
  <2>6. vm_frame_pop(s) = Value([s EXCEPT !.frames = popped, !.eval = eval], frame)
    BY <1>2 DEF vm_frame_pop
  <2> QED
    <3> HIDE DEF frame, eval, popped
    <3> QED
      BY <2>1, <2>4, <2>5, <2>6, Results DEF StepOK
<1> QED
  BY <1>1, <1>2
LEMMA NamedReadOK ==
  ASSUME NEW s, MachineOK(s), NEW v \in Var
  PROVE  /\ StepOK(NamedRead(s, v))
         /\ NamedRead(s, v).ok => NamedRead(s, v).value \in Word
<1>1. CASE IsLocal(s, v)
  <2>1. Last(s.frames) \in Frame
    BY <1>1, Fields, FramesTop DEF IsLocal
  <2>2. Last(s.frames).locals[v] \in Word
    BY <1>1, <2>1 DEF IsLocal, Frame
  <2> QED
    BY <1>1, <2>2, Results DEF NamedRead, StepOK
<1>2. CASE ~ IsLocal(s, v) /\ v \in Globals
  BY <1>2, Fields, Results DEF NamedRead, StepOK
<1>3. CASE ~ IsLocal(s, v) /\ v \notin Globals
  BY <1>3, Results DEF NamedRead, StepOK
<1> QED
  BY <1>1, <1>2, <1>3

LEMMA NamedWriteOK ==
  ASSUME NEW s, MachineOK(s), NEW v \in Var, NEW w \in Word
  PROVE  StepOK(NamedWrite(s, v, w))
<1>1. CASE IsLocal(s, v)
  <2> DEFINE frame == Last(s.frames)
             written == [frame EXCEPT !.locals = [frame.locals EXCEPT ![v] = w]]
  <2>1. frame \in Frame /\ Len(frame.locals) <= LocalLimit
    BY <1>1, Fields, FramesTop DEF IsLocal
  <2>2. /\ [frame.locals EXCEPT ![v] = w] \in Seq(Word)
        /\ Len([frame.locals EXCEPT ![v] = w]) = Len(frame.locals)
    <3>1. frame.locals \in Seq(Word)
      BY <2>1 DEF Frame
    <3>2. v \in 1 .. Len(frame.locals)
      BY <1>1, <3>1 DEF IsLocal
    <3> HIDE DEF frame
    <3> QED
      BY <3>1, <3>2, ExceptSeq
  <2>3. written \in Frame /\ Len(written.locals) <= LocalLimit
    BY <2>1, <2>2 DEF Frame
  <2>4. FramesOK(WithTop(s.frames, written))
    <3> HIDE DEF written
    <3> QED
      BY <1>1, <2>3, Fields, FramesWithTop DEF IsLocal
  <2>5. MachineOK([s EXCEPT !.frames = WithTop(s.frames, written)])
    BY <2>4, SetFrames
  <2> QED
    BY <1>1, <2>5, Results DEF NamedWrite, StepOK
<1>2. CASE ~ IsLocal(s, v) /\ v \in Globals
  <2>1. [s.globals EXCEPT ![v] = w] \in [Globals -> Word]
    BY Fields
  <2>2. MachineOK([s EXCEPT !.globals = [s.globals EXCEPT ![v] = w]])
    BY <2>1, SetGlobals
  <2> QED
    BY <1>2, <2>2, Results DEF NamedWrite, StepOK
<1>3. CASE ~ IsLocal(s, v) /\ v \notin Globals
  BY <1>3, Results DEF NamedWrite, StepOK
<1> QED
  BY <1>1, <1>2, <1>3

LEMMA ReadOK ==
  ASSUME NEW s, MachineOK(s), NEW v \in Var
  PROVE  /\ StepOK(vm_read_variable(s, v))
         /\ vm_read_variable(s, v).ok => vm_read_variable(s, v).value \in Word
BY PopOK, NamedReadOK DEF vm_read_variable

LEMMA WriteOK ==
  ASSUME NEW s, MachineOK(s), NEW v \in Var, NEW w \in Word
  PROVE  StepOK(vm_write_variable(s, v, w))
BY PushOK, NamedWriteOK DEF vm_write_variable

LEMMA ReadIndirectOK ==
  ASSUME NEW s, MachineOK(s), NEW v \in Var
  PROVE  /\ StepOK(vm_read_variable_indirect(s, v))
         /\ vm_read_variable_indirect(s, v).ok =>
              vm_read_variable_indirect(s, v).value \in Word
<1>1. Len(s.eval) # 0 => Last(s.eval) \in Word
  BY Fields, FrontSeq
<1> QED
  BY <1>1, NamedReadOK, Results DEF vm_read_variable_indirect, StepOK

LEMMA WriteIndirectOK ==
  ASSUME NEW s, MachineOK(s), NEW v \in Var, NEW w \in Word
  PROVE  StepOK(vm_write_variable_indirect(s, v, w))
<1>1. CASE v = 0 /\ Len(s.eval) # 0
  <2>1. WithTop(s.eval, w) \in Seq(Word) /\ Len(WithTop(s.eval, w)) <= EvalMax
    <3>1. s.eval \in Seq(Word) /\ Len(s.eval) # 0 /\ Len(s.eval) <= EvalMax
      BY <1>1, Fields
    <3> QED
      BY <3>1, WithTopSeq
  <2>2. MachineOK([s EXCEPT !.eval = WithTop(s.eval, w)])
    BY <2>1, SetEval
  <2> QED
    BY <1>1, <2>2, Results DEF vm_write_variable_indirect, StepOK
<1>2. CASE v = 0 /\ Len(s.eval) = 0
  BY <1>2, Results DEF vm_write_variable_indirect, StepOK
<1>3. CASE v # 0
  BY <1>3, NamedWriteOK DEF vm_write_variable_indirect
<1> QED
  BY <1>1, <1>2, <1>3
-----------------------------------------------------------------------------
(* Address arithmetic stays in the program counter's range.                *)

LEMMA PcSpaceNat == PcSpace \in Nat \ {0}
BY WordModAssumption, BanksAssumption DEF PcSpace

LEMMA WrapOK ==
  ASSUME NEW p \in Int
  PROVE  p % PcSpace \in Pc
BY PcSpaceNat DEF Pc

LEMMA WordWrapOK ==
  ASSUME NEW w \in Int
  PROVE  w % WordMod \in Word
BY WordModAssumption DEF Word

LEMMA VarOfOK ==
  ASSUME NEW w \in Word
  PROVE  VarOf(w) \in Var
BY ByteModAssumption, WordModAssumption DEF Word, Var, VarOf

LEMMA SignedInt ==
  ASSUME NEW w \in Word
  PROVE  Signed(w) \in Int
BY WordModAssumption DEF Word, Signed

LEMMA SmallWords == 0 \in Word /\ 1 \in Word
BY WordModAssumption DEF Word

LEMMA ArityNat == \A op \in Opcodes : Arity(op) \in 0 .. 2
BY DEF Arity

LEMMA InstrFields ==
  ASSUME NEW i \in Instrs
  PROVE  /\ i.op \in Opcodes /\ i.operands \in Seq(Operand)
         /\ Len(i.operands) \in 0 .. 4 /\ Len(i.operands) >= Arity(i.op)
         /\ i.store \in Var /\ i.offset \in Int /\ i.length \in Nat
         /\ i.result \in Word
<1>1. i \in Instr /\ Len(i.operands) \in Arity(i.op) .. MaxOperands
  BY InstrsAssumption
<1>2. i.op \in Opcodes
  BY <1>1 DEF Instr
<1>3. Arity(i.op) \in 0 .. 2
  BY <1>2, ArityNat
<1>4. Len(i.operands) \in 0 .. 4 /\ Len(i.operands) >= Arity(i.op)
  <2> DEFINE n == Len(i.operands)
             a == Arity(i.op)
  <2> SUFFICES n \in 0 .. 4 /\ n >= a
    OBVIOUS
  <2>1. n \in a .. 4 /\ a \in 0 .. 2
    BY <1>1, <1>3 DEF MaxOperands
  <2> HIDE DEF n, a
  <2> QED
    BY <2>1
<1> QED
  <2>1. i.length \in Nat
    BY <1>1, WordModAssumption DEF Instr, Word
  <2> QED
    BY <1>1, <1>2, <1>4, <2>1 DEF Instr

-----------------------------------------------------------------------------
(* The helpers of the dispatcher.                                          *)

\* What k operands resolved so far amount to.
ResolvedOK(r, i, k) ==
  /\ StepOK(r)
  /\ r.ok => /\ r.value \in Seq(Word)
             /\ Len(r.value) = IF k <= Len(i.operands) THEN k ELSE Len(i.operands)

LEMMA ResolveOneOK ==
  ASSUME NEW r, NEW i \in Instrs, NEW k \in Nat, ResolvedOK(r, i, k)
  PROVE  ResolvedOK(ResolveOne(r, i, k + 1), i, k + 1)
<1> DEFINE operand == i.operands[k + 1]
           read == IF operand.type = "variable"
                   THEN vm_read_variable(r.vm, VarOf(operand.raw))
                   ELSE Value(r.vm, operand.raw)
<1>0. Len(i.operands) \in Nat
  BY InstrFields
<1>1. CASE ~ r.ok \/ k + 1 > Len(i.operands)
  BY <1>0, <1>1 DEF ResolveOne, ResolvedOK
<1>2. CASE r.ok /\ k + 1 <= Len(i.operands)
  <2>1. operand \in Operand
    BY <1>0, <1>2, InstrFields
  <2>2. operand.raw \in Word
    BY <2>1 DEF Operand
  <2>3. VarOf(operand.raw) \in Var
    BY <2>2, VarOfOK
  <2>4. MachineOK(r.vm) /\ r.value \in Seq(Word) /\ Len(r.value) = k
    BY <1>0, <1>2 DEF ResolvedOK, StepOK
  <2>5. StepOK(read) /\ (read.ok => read.value \in Word)
    BY <2>2, <2>3, <2>4, ReadOK, Results DEF StepOK
  <2>6. ResolveOne(r, i, k + 1) =
          IF read.ok THEN Value(read.vm, Append(r.value, read.value)) ELSE read
    BY <1>0, <1>2 DEF ResolveOne, Then
  <2> HIDE DEF operand, read
  <2>7. CASE read.ok
    <3>1. /\ Append(r.value, read.value) \in Seq(Word)
          /\ Len(Append(r.value, read.value)) = k + 1
      BY <2>4, <2>5, <2>7, AppendSeq
    <3>2. Len(Append(r.value, read.value)) =
            IF k + 1 <= Len(i.operands) THEN k + 1 ELSE Len(i.operands)
      BY <1>2, <3>1
    <3>3. ResolveOne(r, i, k + 1) = Value(read.vm, Append(r.value, read.value))
      BY <2>6, <2>7
    <3> DEFINE a == Append(r.value, read.value)
               q == ResolveOne(r, i, k + 1)
    <3>8. q = Value(read.vm, a)
      BY <3>3
    <3> HIDE DEF a, q
    <3>4. q.vm = read.vm /\ q.value = a
      BY <3>8, Results
    <3>5. StepOK(q)
      BY <2>5, <3>4 DEF StepOK
    <3>6. /\ q.value \in Seq(Word)
          /\ Len(q.value) = IF k + 1 <= Len(i.operands) THEN k + 1 ELSE Len(i.operands)
      BY <3>1, <3>2, <3>4 DEF a
    <3>7. ResolvedOK(q, i, k + 1)
      BY <3>5, <3>6 DEF ResolvedOK
    <3> QED
      BY <3>7 DEF q
  <2>8. CASE ~ read.ok
    BY <2>5, <2>6, <2>8 DEF ResolvedOK
  <2> QED
    BY <2>7, <2>8
<1> QED
  BY <1>0, <1>1, <1>2

LEMMA ResolveOK ==
  ASSUME NEW s, MachineOK(s), NEW i \in Instrs
  PROVE  /\ StepOK(resolve_operands(s, i))
         /\ resolve_operands(s, i).ok =>
              /\ resolve_operands(s, i).value \in Seq(Word)
              /\ Len(resolve_operands(s, i).value) = Len(i.operands)
<1> DEFINE r0 == Value(s, <<>>)
           r1 == ResolveOne(r0, i, 1)
           r2 == ResolveOne(r1, i, 2)
           r3 == ResolveOne(r2, i, 3)
           r4 == ResolveOne(r3, i, 4)
<1>0. Len(i.operands) \in 0 .. 4
  BY InstrFields
<1>1. ResolvedOK(r0, i, 0)
  <2>1. r0.ok /\ r0.vm = s /\ r0.value = <<>>
    BY Results
  <2> HIDE DEF r0
  <2>2. r0.value \in Seq(Word) /\ Len(r0.value) = 0
    BY <2>1
  <2> QED
    BY <1>0, <2>1, <2>2 DEF ResolvedOK, StepOK
<1>2. resolve_operands(s, i) = r4
  BY DEF resolve_operands
<1> HIDE DEF r0
<1>3. ResolvedOK(r1, i, 1)
  BY <1>1, ResolveOneOK, 0 + 1 = 1
<1> HIDE DEF r1
<1>4. ResolvedOK(r2, i, 2)
  BY <1>3, ResolveOneOK, 1 + 1 = 2
<1> HIDE DEF r2
<1>5. ResolvedOK(r3, i, 3)
  BY <1>4, ResolveOneOK, 2 + 1 = 3
<1> HIDE DEF r3
<1>6. ResolvedOK(r4, i, 4)
  BY <1>5, ResolveOneOK, 3 + 1 = 4
<1> HIDE DEF r4
<1>7. (IF 4 <= Len(i.operands) THEN 4 ELSE Len(i.operands)) = Len(i.operands)
  <2> DEFINE n == Len(i.operands)
  <2> SUFFICES (IF 4 <= n THEN 4 ELSE n) = n
    OBVIOUS
  <2>1. n \in 0 .. 4
    BY <1>0
  <2> HIDE DEF n
  <2> QED
    BY <2>1
<1>8. StepOK(r4) /\ (r4.ok => r4.value \in Seq(Word) /\ Len(r4.value) = Len(i.operands))
  BY <1>6, <1>7 DEF ResolvedOK
<1> QED
  BY <1>2, <1>8

LEMMA ReturnOK ==
  ASSUME NEW s, MachineOK(s), NEW v \in Word
  PROVE  StepOK(do_return(s, v))
<1> DEFINE r == vm_frame_pop(s)
           q == [r.vm EXCEPT !.pc = r.value.return_pc]
<1>1. StepOK(r) /\ (r.ok => r.value \in Frame)
  BY FramePopOK
<1>2. CASE r.ok
  <2>1. r.value.return_pc \in Pc /\ r.value.store_variable \in Var
    BY <1>1, <1>2 DEF Frame
  <2>2. MachineOK(q)
    BY <1>1, <2>1, SetPc DEF StepOK
  <2>3. do_return(s, v) = vm_write_variable(q, r.value.store_variable, v)
    BY <1>2 DEF do_return, Then
  <2> QED
    BY <2>1, <2>2, <2>3, WriteOK
<1>3. CASE ~ r.ok
  BY <1>1, <1>3 DEF do_return, Then
<1> QED
  BY <1>2, <1>3

LEMMA BranchOK ==
  ASSUME NEW s, MachineOK(s), NEW i \in Instrs, NEW c
  PROVE  StepOK(do_branch(s, i, c))
<1>1. CASE c # i.on_true
  BY <1>1, Results DEF do_branch, StepOK
<1>2. CASE c = i.on_true /\ i.offset \in {0, 1}
  BY <1>2, ReturnOK, SmallWords DEF do_branch
<1>3. CASE c = i.on_true /\ i.offset \notin {0, 1}
  <2>1. (s.pc + i.offset - 2) % PcSpace \in Pc
    <3>1. s.pc + i.offset - 2 \in Int
      BY InstrFields, Fields DEF Pc
    <3> QED
      BY <3>1, WrapOK
  <2> QED
    BY <1>3, <2>1, SetPc, Results DEF do_branch, StepOK
<1> QED
  BY <1>1, <1>2, <1>3
LEMMA CallLocalsOK ==
  ASSUME NEW h \in Seq(Word), NEW x \in Seq(Word)
  PROVE  CallLocals(h, x) \in Seq(Word) /\ Len(CallLocals(h, x)) = Len(h)
<1>1. \A k \in 1 .. Len(h) : (IF k + 1 <= Len(x) THEN x[k + 1] ELSE h[k]) \in Word
  OBVIOUS
<1>2. CallLocals(h, x) \in [1 .. Len(h) -> Word]
  BY <1>1 DEF CallLocals
<1> QED
  BY <1>2

LEMMA CallOK ==
  ASSUME NEW s, MachineOK(s), NEW i \in Instrs, NEW x \in Seq(Word), Len(x) >= 1
  PROVE  StepOK(do_call(s, i, x))
<1>1. CASE x[1] = 0
  BY <1>1, WriteOK, InstrFields, SmallWords DEF do_call
<1>2. CASE x[1] # 0 /\ x[1] \notin DOMAIN RoutineHeader
  BY <1>2, Results DEF do_call, StepOK
<1>3. CASE x[1] # 0 /\ x[1] \in DOMAIN RoutineHeader
  <2> DEFINE header == RoutineHeader[x[1]]
             r == vm_frame_push(s, s.pc, i.store, CallLocals(header, x))
             pc == RoutineEntry(x[1], Len(header))
  <2>1. header \in Seq(Word)
    BY <1>3, RoutineAssumption
  <2>2. StepOK(r)
    BY <2>1, CallLocalsOK, FramePushOK, Fields, InstrFields
  <2>3. pc \in Pc
    <3>1. x[1] \in Nat /\ Len(header) \in Nat
      BY <2>1, WordModAssumption DEF Word
    <3>2. 2 * x[1] + 1 + 2 * Len(header) \in Int
      BY <3>1
    <3> QED
      BY <3>2, WrapOK DEF RoutineEntry
  <2>4. do_call(s, i, x) = IF r.ok THEN Done([r.vm EXCEPT !.pc = pc]) ELSE r
    BY <1>3 DEF do_call, Then
  <2> HIDE DEF r, pc
  <2>5. MachineOK([r.vm EXCEPT !.pc = pc])
    BY <2>2, <2>3, SetPc DEF StepOK
  <2> QED
    BY <2>2, <2>4, <2>5, Results DEF StepOK
<1> QED
  BY <1>1, <1>2, <1>3

LEMMA AddIndirectOK ==
  ASSUME NEW s, MachineOK(s), NEW v \in Var, NEW d \in Int
  PROVE  /\ StepOK(AddIndirect(s, v, d))
         /\ AddIndirect(s, v, d).ok => AddIndirect(s, v, d).value \in Word
<1> DEFINE r == vm_read_variable_indirect(s, v)
           updated == (r.value + d) % WordMod
           w == vm_write_variable_indirect(r.vm, v, updated)
<1>1. StepOK(r) /\ (r.ok => r.value \in Word)
  BY ReadIndirectOK
<1>2. AddIndirect(s, v, d) =
        IF r.ok THEN (IF w.ok THEN Value(w.vm, updated) ELSE w) ELSE r
  BY DEF AddIndirect, Then
<1>3. CASE r.ok
  <2>1. r.value + d \in Int
    BY <1>1, <1>3, WordModAssumption DEF Word
  <2>2. updated \in Word
    BY <2>1, WordWrapOK
  <2>3. StepOK(w)
    BY <1>1, <2>2, WriteIndirectOK DEF StepOK
  <2> HIDE DEF r, updated, w
  <2>4. CASE w.ok
    BY <1>2, <1>3, <2>2, <2>3, <2>4, Results DEF StepOK
  <2>5. CASE ~ w.ok
    BY <1>2, <1>3, <2>3, <2>5
  <2> QED
    BY <2>4, <2>5
<1>4. CASE ~ r.ok
  BY <1>1, <1>2, <1>4
<1> QED
  BY <1>3, <1>4
-----------------------------------------------------------------------------
(* The opcodes.  Good(i, x) is what a handler may count on: its operands    *)
(* are words, and at least as many as the form of the opcode guarantees.    *)

Good(i, x) == i \in Instrs /\ x \in Seq(Word) /\ Len(x) >= Arity(i.op)

LEMMA OperandsOK ==
  ASSUME NEW i, NEW x, Good(i, x)
  PROVE  /\ Arity(i.op) >= 1 => x[1] \in Word /\ VarOf(x[1]) \in Var
         /\ Arity(i.op) >= 2 => x[2] \in Word
<1>1. x \in Seq(Word) /\ Len(x) \in Nat /\ Len(x) >= Arity(i.op)
  BY DEF Good
<1>2. Arity(i.op) \in 0 .. 2
  BY ArityNat, InstrFields DEF Good
<1>3. \A k \in 1 .. Len(x) : x[k] \in Word
  BY <1>1
<1>4. Arity(i.op) >= 1 => 1 \in 1 .. Len(x)
  BY <1>1, <1>2
<1>5. Arity(i.op) >= 2 => 2 \in 1 .. Len(x)
  BY <1>1, <1>2
<1> QED
  BY <1>3, <1>4, <1>5, VarOfOK

LEMMA WrittenOK ==
  ASSUME NEW g \in [Globals -> Word], NEW i \in Instrs
  PROVE  Written(g, i) \in [Globals -> Word]
<1>1. i.writes \in UNION {[S -> Word] : S \in SUBSET Globals}
  BY InstrsAssumption DEF Instr
<1>2. PICK S \in SUBSET Globals : i.writes \in [S -> Word]
  BY <1>1
<1> QED
  BY <1>2 DEF Written

LEMMA HandlersOK ==
  ASSUME NEW s, MachineOK(s), NEW i, NEW x, Good(i, x)
  PROVE  StepOK(step(s, i, x))
<1>0. i \in Instrs /\ x \in Seq(Word) /\ i.store \in Var /\ i.result \in Word
  BY InstrFields DEF Good
<1>1. i.op \in {"store", "inc_chk", "dec_chk", "je"} => x[2] \in Word
  BY OperandsOK DEF Arity
<1>2. i.op \in {"store", "inc_chk", "dec_chk", "je", "jz", "inc", "dec", "load",
                "jump", "call", "ret", "push", "pull"} =>
        x[1] \in Word /\ VarOf(x[1]) \in Var
  BY OperandsOK DEF Arity
<1>3. i.op = "je" => StepOK(step_je(s, i, x))
  BY <1>0, BranchOK DEF step_je
<1>4. i.op = "jz" => StepOK(step_jz(s, i, x))
  BY <1>0, BranchOK DEF step_jz
<1>5. StepOK(step_test(s, i, x))
  BY <1>0, BranchOK DEF step_test
<1>6. i.op = "store" => StepOK(step_store(s, i, x))
  BY <1>1, <1>2, WriteIndirectOK DEF step_store
<1>7. StepOK(step_result(s, i, x))
  BY <1>0, WriteOK DEF step_result
<1>8. StepOK(step_result_branch(s, i, x))
  <2>1. StepOK(vm_write_variable(s, i.store, i.result))
    BY <1>0, WriteOK
  <2> QED
    BY <1>0, <2>1, BranchOK DEF step_result_branch, Then, StepOK
<1>9. i.op = "inc" => StepOK(step_inc(s, i, x))
  BY <1>2, AddIndirectOK DEF step_inc
<1>10. i.op = "dec" => StepOK(step_dec(s, i, x))
  <2>1. -1 \in Int
    OBVIOUS
  <2> QED
    BY <1>2, <2>1, AddIndirectOK DEF step_dec
<1>11. i.op = "inc_chk" => StepOK(step_inc_chk(s, i, x))
  BY <1>0, <1>2, AddIndirectOK, BranchOK DEF step_inc_chk, Then, StepOK
<1>12. i.op = "dec_chk" => StepOK(step_dec_chk(s, i, x))
  <2>1. -1 \in Int
    OBVIOUS
  <2> QED
    BY <1>0, <1>2, <2>1, AddIndirectOK, BranchOK DEF step_dec_chk, Then, StepOK
<1>13. i.op = "load" => StepOK(step_load(s, i, x))
  BY <1>0, <1>2, ReadIndirectOK, WriteOK DEF step_load, Then, StepOK
<1>14. i.op = "jump" => StepOK(step_jump(s, i, x))
  <2> SUFFICES ASSUME x[1] \in Word
               PROVE  StepOK(step_jump(s, i, x))
    BY <1>2
  <2>1. s.pc + Signed(x[1]) - 2 \in Int
    BY SignedInt, Fields DEF Pc
  <2>2. MachineOK([s EXCEPT !.pc = (s.pc + Signed(x[1]) - 2) % PcSpace])
    BY <2>1, WrapOK, SetPc
  <2> QED
    BY <2>2, Results DEF step_jump, StepOK
<1>15. i.op = "call" => StepOK(step_call(s, i, x))
  <2>1. i.op = "call" => Len(x) >= 1
    BY DEF Good, Arity
  <2> QED
    BY <1>0, <2>1, CallOK DEF step_call
<1>16. i.op = "ret" => StepOK(step_ret(s, i, x))
  BY <1>2, ReturnOK DEF step_ret
<1>17. StepOK(step_rtrue(s, i, x)) /\ StepOK(step_rfalse(s, i, x))
  BY ReturnOK, SmallWords DEF step_rtrue, step_rfalse
<1>18. StepOK(step_ret_popped(s, i, x))
  BY PopOK, ReturnOK DEF step_ret_popped, Then, StepOK
<1>19. StepOK(step_pop(s, i, x))
  BY PopOK DEF step_pop
<1>20. i.op = "push" => StepOK(step_push(s, i, x))
  BY <1>2, PushOK DEF step_push
<1>21. i.op = "pull" => StepOK(step_pull(s, i, x))
  BY <1>2, PopOK, WriteIndirectOK DEF step_pull, Then, StepOK
<1>22. StepOK(step_show_status(s, i, x)) /\ StepOK(step_bad(s, i, x))
  BY Results DEF step_show_status, step_bad, StepOK
<1>25. MachineOK([s EXCEPT !.globals = Written(s.globals, i)])
  <2>1. s.globals \in [Globals -> Word]
    BY DEF MachineOK, Machine
  <2> QED
    BY <1>0, <2>1, WrittenOK, SetGlobals
<1>26. StepOK(step_print_ret(s, i, x))
  BY <1>25, ReturnOK, SmallWords DEF step_print_ret
<1>23. StepOK(step_save(s, i, x))
  BY <1>0, BranchOK, Results DEF step_save, StepOK
<1>24. StepOK(step_effect(s, i, x))
  BY <1>25, Results DEF step_effect, StepOK
<1> QED
  BY <1>3, <1>4, <1>5, <1>6, <1>7, <1>8, <1>9, <1>10, <1>11, <1>12, <1>13, <1>14,
     <1>15, <1>16, <1>17, <1>18, <1>19, <1>20, <1>21, <1>22, <1>23, <1>24, <1>26 DEF step

\* Operands, program counter and opcode together.
LEMMA VmStepOK ==
  ASSUME NEW s, MachineOK(s), NEW i \in Instrs
  PROVE  StepOK(vm_step(s, i))
<1> DEFINE r == resolve_operands(s, i)
           t == [r.vm EXCEPT !.pc = NextPc(s, i)]
<1>1. CASE r.ok
  <2>1. NextPc(s, i) \in Pc
    <3>1. s.pc + i.length \in Int
      BY Fields, InstrFields DEF Pc
    <3> QED
      BY <3>1, WrapOK DEF NextPc
  <2>2. MachineOK(t)
    BY <2>1, ResolveOK, SetPc DEF StepOK
  <2>3. r.value \in Seq(Word) /\ Len(r.value) = Len(i.operands)
    BY <1>1, ResolveOK
  <2>4. Good(i, r.value)
    BY <2>3, InstrFields DEF Good
  <2>5. vm_step(s, i) = step(t, i, r.value)
    BY <1>1 DEF vm_step, Then
  <2> HIDE DEF r, t
  <2> QED
    BY <2>2, <2>4, <2>5, HandlersOK
<1>2. CASE ~ r.ok
  <2>1. vm_step(s, i) = r
    BY <1>2 DEF vm_step, Then
  <2> QED
    BY <2>1, ResolveOK
<1> QED
  BY <1>1, <1>2

LEMMA OfferedOK ==
  ASSUME NEW op \in Opcodes, NEW i \in Offered(op)
  PROVE  i \in Instrs /\ i.op = op
BY DEF Offered, InstrsOf

LEMMA PerformOK ==
  ASSUME TypeOK, NEW op \in Opcodes, Perform(op)
  PROVE  TypeOK'
<1>1. PICK i \in Offered(op) :
        vm' = vm_step(vm, i).vm /\ status' = StatusAfter(vm_step(vm, i))
  BY DEF Perform
<1>2. StepOK(vm_step(vm, i))
  BY OfferedOK, VmStepOK DEF TypeOK
<1>3. MachineOK(vm') /\ status' \in {"running", "error", "quit"}
  BY <1>1, <1>2 DEF StepOK, StatusAfter
<1> QED
  BY <1>3 DEF TypeOK, Perform

LEMMA InitialVmOK == MachineOK(InitialVm)
<1>1. InitialVm \in Machine
  BY InitialPcAssumption, InitialGlobalsAssumption DEF InitialVm, Machine
<1> QED
  BY <1>1, EvalMaxAssumption, FrameMaxAssumption DEF InitialVm, MachineOK

LEMMA NextPcOK ==
  ASSUME NEW s, MachineOK(s), NEW i \in Instrs
  PROVE  MachineOK([s EXCEPT !.pc = NextPc(s, i)])
<1>1. s.pc + i.length \in Int
  BY Fields, InstrFields DEF Pc
<1> QED
  BY <1>1, WrapOK, SetPc DEF NextPc

LEMMA SaveOK ==
  ASSUME TypeOK, Save
  PROVE  TypeOK'
<1>1. PICK i \in Offered("save") :
        LET r == vm_step(vm, i)
        IN /\ status' = StatusAfter(r)
           /\ \/ ~ r.ok /\ vm' = r.vm /\ slot' = slot
              \/ r.ok /\ vm' = r.vm /\ slot' = r.vm
              \/ /\ r.ok /\ vm' = [r.vm EXCEPT !.pc = NextPc(vm, i)]
                /\ slot' \in {slot, NoSave}
  BY DEF Save
<1> DEFINE r == vm_step(vm, i)
<1>2. i \in Instrs
  BY OfferedOK DEF Opcodes
<1>3. MachineOK(r.vm)
  BY <1>2, VmStepOK DEF TypeOK, StepOK
<1>4. NextPc(vm, i) \in Pc
  <2>1. vm.pc + i.length \in Int
    BY <1>2, Fields, InstrFields DEF Pc, TypeOK
  <2> QED
    BY <2>1, WrapOK DEF NextPc
<1>5. MachineOK([r.vm EXCEPT !.pc = NextPc(vm, i)])
  BY <1>3, <1>4, SetPc
<1> HIDE DEF r
<1>6. /\ status' = StatusAfter(r)
      /\ \/ ~ r.ok /\ vm' = r.vm /\ slot' = slot
         \/ r.ok /\ vm' = r.vm /\ slot' = r.vm
         \/ /\ r.ok /\ vm' = [r.vm EXCEPT !.pc = NextPc(vm, i)]
            /\ slot' \in {slot, NoSave}
  BY <1>1 DEF r
<1>7. status' \in {"running", "error", "quit"}
  BY <1>6 DEF StatusAfter
<1> QED
  BY <1>3, <1>5, <1>6, <1>7 DEF TypeOK

\* Restore, restart and quit read no operand.
LEMMA ReloadOK ==
  ASSUME TypeOK, Reload \/ Quit
  PROVE  TypeOK'
<1>1. CASE Restore
  <2>1. PICK i \in Offered("restore") :
          \/ slot # NoSave /\ vm' = slot
          \/ vm' = [vm EXCEPT !.pc = NextPc(vm, i)]
    BY <1>1 DEF Restore
  <2>2. MachineOK(vm')
    BY <2>1, OfferedOK, NextPcOK DEF TypeOK, Opcodes
  <2> QED
    BY <1>1, <2>2 DEF Restore, TypeOK
<1>2. CASE Restart
  <2>1. PICK i \in Offered("restart") :
          \/ vm' = InitialVm /\ status' = "running"
          \/ vm' = [vm EXCEPT !.pc = NextPc(vm, i)] /\ status' = "error"
    BY <1>2 DEF Restart
  <2>2. MachineOK(vm')
    BY <2>1, OfferedOK, NextPcOK, InitialVmOK DEF TypeOK, Opcodes
  <2> QED
    BY <1>2, <2>1, <2>2 DEF Restart, TypeOK
<1>3. CASE Quit
  <2>1. PICK i \in Offered("quit") : vm' = [vm EXCEPT !.pc = NextPc(vm, i)]
    BY <1>3 DEF Quit
  <2>2. MachineOK(vm')
    BY <2>1, OfferedOK, NextPcOK DEF TypeOK, Opcodes
  <2> QED
    BY <1>3, <2>2 DEF Quit, TypeOK
<1> QED
  BY <1>1, <1>2, <1>3 DEF Reload

LEMMA NextOK == TypeOK /\ [Next]_vars => TypeOK'
<1> SUFFICES ASSUME TypeOK, [Next]_vars
             PROVE  TypeOK'
  OBVIOUS
<1>1. CASE Execute /\ ~ Quit
  <2>1. PICK op \in Opcodes : Perform(op)
    BY <1>1 DEF Execute, Opcodes, Je, Jz, Test, Store, Result, ResultBranch,
      Inc, Dec, IncChk, DecChk, Load, Jump, Call, Ret, Rtrue, Rfalse,
      RetPopped, Pop, Push, Pull, PrintRet, Effect, ShowStatus, Bad
  <2> QED
    BY <2>1, PerformOK
<1>2. CASE Save
  BY <1>2, SaveOK
<1>3. CASE Reload \/ Quit
  BY <1>3, ReloadOK
<1>4. CASE UNCHANGED vars
  BY <1>4 DEF vars, TypeOK
<1> QED
  BY <1>1, <1>2, <1>3, <1>4 DEF Next

\* Neither array of the interpreter state is ever overrun, whatever the story
\* executes: every push, call and return of host/vm_state.c keeps the
\* evaluation stack within VM_EVAL_STACK_MAX, the frames within VM_FRAMES_MAX
\* and the locals of a frame within 15, in the running machine and in the
\* saved copy, also when an instruction fails half way.
THEOREM TypeCorrect == Spec => []TypeOK
<1>1. Init => TypeOK
  BY InitialVmOK DEF Init, TypeOK
<1> QED
  BY <1>1, NextOK, PTL DEF Spec

-----------------------------------------------------------------------------
(* What a step does to the stacks.  Every primitive keeps the frames as    *)
(* they are but for the running routine's locals (SameFrames) and the      *)
(* words under its reach (KeepsWords); a handler may also return or call.  *)

\* The same calls are active; at most the running routine's locals differ.
SameFrames(f, g) ==
  /\ Len(g) = Len(f)
  /\ \A k \in 1 .. Len(f) - 1 : g[k] = f[k]
  /\ Len(f) # 0 => Last(g).stack_base = Last(f).stack_base

\* The lowest b words are there, and unchanged.
KeepsWords(e, d, b) == Len(d) >= b /\ \A k \in 1 .. b : d[k] = e[k]

Returns(s, t) == Len(s.frames) # 0 /\ SameFrames(Front(s.frames), t.frames)
Calls(s, t) ==
  /\ Len(t.frames) = Len(s.frames) + 1
  /\ SameFrames(s.frames, Front(t.frames))
  /\ Last(t.frames).stack_base = Len(t.eval)

\* r is the outcome of a primitive run on s that takes at most u words off the
\* stack, leaves those under them alone, and ends with n words on it.
Stays(s, r, b, u, n) ==
  /\ StepOK(r)
  /\ SameFrames(s.frames, r.vm.frames)
  /\ b + u <= Len(s.eval) => KeepsWords(s.eval, r.vm.eval, b)
  /\ r.ok => Len(r.vm.eval) = n

\* The same of a handler, which may also return from a routine or call one.
Does(s, r, b, u, n) ==
  /\ StepOK(r)
  /\ \/ SameFrames(s.frames, r.vm.frames)
     \/ Returns(s, r.vm)
     \/ Calls(s, r.vm)
  /\ b + u <= Len(s.eval) => KeepsWords(s.eval, r.vm.eval, b)
  /\ r.ok /\ Len(r.vm.frames) = Len(s.frames) => Len(r.vm.eval) = n

LEMMA Lengths ==
  ASSUME NEW s, MachineOK(s)
  PROVE  Len(s.eval) \in Nat /\ Len(s.frames) \in Nat
BY Fields DEF FramesOK

LEMMA SameRefl ==
  ASSUME NEW f
  PROVE  SameFrames(f, f)
BY DEF SameFrames

LEMMA SameTrans ==
  ASSUME NEW f \in Seq(Frame), NEW g, NEW h, SameFrames(f, g), SameFrames(g, h)
  PROVE  SameFrames(f, h)
BY DEF SameFrames

LEMMA KeepsRefl ==
  ASSUME NEW e \in Seq(Word), NEW b \in Nat, b <= Len(e)
  PROVE  KeepsWords(e, e, b)
BY DEF KeepsWords

LEMMA KeepsTrans ==
  ASSUME NEW e, NEW d, NEW c, NEW b \in Nat, KeepsWords(e, d, b), KeepsWords(d, c, b)
  PROVE  KeepsWords(e, c, b)
BY DEF KeepsWords

LEMMA BaseNat ==
  ASSUME NEW s, MachineOK(s)
  PROVE  StackBase(s) \in Nat
<1>1. CASE Len(s.frames) = 0
  BY <1>1 DEF StackBase
<1>2. CASE Len(s.frames) # 0
  <2>1. Last(s.frames) \in Frame
    BY <1>2, Fields, FramesTop
  <2> QED
    BY <1>2, <2>1, EvalMaxAssumption DEF StackBase, Frame
<1> QED
  BY <1>1, <1>2

\* A stack changed nowhere but above word b.
LEMMA Unchanged ==
  ASSUME NEW s, MachineOK(s), NEW r, StepOK(r), NEW b \in Nat, NEW u \in Nat,
         r.vm.frames = s.frames, r.vm.eval = s.eval
  PROVE  Stays(s, r, b, u, Len(s.eval))
<1>1. b + u <= Len(s.eval) => b <= Len(s.eval)
  BY Lengths
<1> QED
  BY <1>1, SameRefl, KeepsRefl, Fields DEF Stays

LEMMA PushStays ==
  ASSUME NEW s, MachineOK(s), NEW v \in Word, NEW b \in Nat
  PROVE  Stays(s, vm_push(s, v), b, 0, Len(s.eval) + 1)
<1>1. StepOK(vm_push(s, v))
  BY PushOK
<1>2. CASE Len(s.eval) >= EvalMax
  <2>1. ~ vm_push(s, v).ok /\ vm_push(s, v).vm = s
    BY <1>2, Results DEF vm_push
  <2> QED
    BY <1>1, <2>1, Unchanged DEF Stays
<1>3. CASE ~ (Len(s.eval) >= EvalMax)
  <2>1. vm_push(s, v).vm = [s EXCEPT !.eval = Append(s.eval, v)]
    BY <1>3, Results DEF vm_push
  <2>2. vm_push(s, v).vm.frames = s.frames /\ vm_push(s, v).vm.eval = Append(s.eval, v)
    BY <2>1, Fields
  <2>3. Len(Append(s.eval, v)) = Len(s.eval) + 1
    BY Fields, AppendSeq
  <2>4. b + 0 <= Len(s.eval) => KeepsWords(s.eval, Append(s.eval, v), b)
    BY <2>3, Fields, Lengths, AppendSeq DEF KeepsWords
  <2> QED
    BY <1>1, <2>2, <2>3, <2>4, SameRefl DEF Stays
<1> QED
  BY <1>2, <1>3

LEMMA PopStays ==
  ASSUME NEW s, MachineOK(s), NEW b \in Nat
  PROVE  Stays(s, vm_pop(s), b, 1, Len(s.eval) - 1)
<1>1. StepOK(vm_pop(s))
  BY PopOK
<1>2. CASE Len(s.eval) = 0
  <2>1. ~ vm_pop(s).ok /\ vm_pop(s).vm = s
    BY <1>2, Results DEF vm_pop
  <2> QED
    BY <1>1, <2>1, Unchanged DEF Stays
<1>3. CASE Len(s.eval) # 0
  <2>1. vm_pop(s).vm = [s EXCEPT !.eval = Front(s.eval)]
    BY <1>3, Results DEF vm_pop
  <2>2. vm_pop(s).vm.frames = s.frames /\ vm_pop(s).vm.eval = Front(s.eval)
    BY <2>1, Fields
  <2>3. Len(Front(s.eval)) = Len(s.eval) - 1
    BY <1>3, Fields, FrontSeq
  <2>4. b + 1 <= Len(s.eval) => KeepsWords(s.eval, Front(s.eval), b)
    <3> SUFFICES ASSUME b + 1 <= Len(s.eval)
                 PROVE  KeepsWords(s.eval, Front(s.eval), b)
      OBVIOUS
    <3>1. Len(s.eval) \in Nat /\ Len(Front(s.eval)) >= b
      BY <2>3, Lengths
    <3>2. \A k \in 1 .. b : k \in 1 .. Len(s.eval) - 1
      BY <3>1
    <3>3. \A k \in 1 .. Len(s.eval) - 1 : Front(s.eval)[k] = s.eval[k]
      BY <1>3, Fields, FrontSeq
    <3> QED
      BY <3>1, <3>2, <3>3 DEF KeepsWords
  <2> QED
    BY <1>1, <2>2, <2>3, <2>4, SameRefl DEF Stays
<1> QED
  BY <1>2, <1>3

LEMMA NamedReadStays ==
  ASSUME NEW s, MachineOK(s), NEW v \in Var, NEW b \in Nat, NEW u \in Nat
  PROVE  Stays(s, NamedRead(s, v), b, u, Len(s.eval))
<1>1. NamedRead(s, v).vm = s
  BY Results DEF NamedRead
<1> QED
  BY <1>1, NamedReadOK, Unchanged

LEMMA NamedWriteStays ==
  ASSUME NEW s, MachineOK(s), NEW v \in Var, NEW w \in Word, NEW b \in Nat, NEW u \in Nat
  PROVE  Stays(s, NamedWrite(s, v, w), b, u, Len(s.eval))
<1> DEFINE r == NamedWrite(s, v, w)
<1>1. StepOK(r)
  BY NamedWriteOK
<1>2. CASE IsLocal(s, v)
  <2> DEFINE frame == Last(s.frames)
             written == [frame EXCEPT !.locals = [frame.locals EXCEPT ![v] = w]]
  <2>1. r.vm = [s EXCEPT !.frames = WithTop(s.frames, written)]
    BY <1>2, Results DEF NamedWrite
  <2>2. r.vm.frames = WithTop(s.frames, written) /\ r.vm.eval = s.eval
    BY <2>1, Fields
  <2>3. s.frames \in Seq(Frame) /\ Len(s.frames) # 0 /\ frame \in Frame
    BY <1>2, Fields, FramesTop DEF IsLocal, FramesOK
  <2>4. written.stack_base = frame.stack_base
    BY <2>3 DEF Frame
  <2>5. SameFrames(s.frames, WithTop(s.frames, written))
    <3> HIDE DEF written, frame
    <3>1. /\ Len(WithTop(s.frames, written)) = Len(s.frames)
          /\ \A k \in 1 .. Len(s.frames) - 1 : WithTop(s.frames, written)[k] = s.frames[k]
          /\ Last(WithTop(s.frames, written)) = written
      BY <2>3 DEF WithTop, Last
    <3> QED
      BY <2>4, <3>1 DEF SameFrames, frame
  <2>6. b + u <= Len(s.eval) => b <= Len(s.eval)
    BY Lengths
  <2> QED
    BY <1>1, <2>2, <2>5, <2>6, KeepsRefl, Fields DEF Stays
<1>3. CASE ~ IsLocal(s, v) /\ v \in Globals
  <2>1. r.vm = [s EXCEPT !.globals = [s.globals EXCEPT ![v] = w]]
    BY <1>3, Results DEF NamedWrite
  <2>2. r.vm.frames = s.frames /\ r.vm.eval = s.eval
    BY <2>1, Fields
  <2> QED
    BY <1>1, <2>2, Unchanged
<1>4. CASE ~ IsLocal(s, v) /\ v \notin Globals
  <2>1. r.vm = s
    BY <1>4, Results DEF NamedWrite
  <2> QED
    BY <1>1, <2>1, Unchanged
<1> QED
  BY <1>2, <1>3, <1>4

\* Whether a variable number names the stack, as a number of words.
OnStack(v) == IF v = 0 THEN 1 ELSE 0

LEMMA ReadStays ==
  ASSUME NEW s, MachineOK(s), NEW v \in Var, NEW b \in Nat
  PROVE  Stays(s, vm_read_variable(s, v), b, OnStack(v), Len(s.eval) - OnStack(v))
<1>1. Len(s.eval) - 0 = Len(s.eval)
  BY Lengths
<1> QED
  BY <1>1, PopStays, NamedReadStays DEF vm_read_variable, OnStack

LEMMA WriteStays ==
  ASSUME NEW s, MachineOK(s), NEW v \in Var, NEW w \in Word, NEW b \in Nat
  PROVE  Stays(s, vm_write_variable(s, v, w), b, 0, Len(s.eval) + OnStack(v))
<1>1. Len(s.eval) + 0 = Len(s.eval)
  BY Lengths
<1> QED
  BY <1>1, PushStays, NamedWriteStays DEF vm_write_variable, OnStack

LEMMA ReadIndirectStays ==
  ASSUME NEW s, MachineOK(s), NEW v \in Var, NEW b \in Nat
  PROVE  Stays(s, vm_read_variable_indirect(s, v), b, OnStack(v), Len(s.eval))
<1>1. vm_read_variable_indirect(s, v).vm = s
  BY Results DEF vm_read_variable_indirect, NamedRead
<1>2. OnStack(v) \in Nat
  BY DEF OnStack
<1> QED
  BY <1>1, <1>2, ReadIndirectOK, Unchanged

LEMMA WriteIndirectStays ==
  ASSUME NEW s, MachineOK(s), NEW v \in Var, NEW w \in Word, NEW b \in Nat
  PROVE  Stays(s, vm_write_variable_indirect(s, v, w), b, OnStack(v), Len(s.eval))
<1> DEFINE r == vm_write_variable_indirect(s, v, w)
<1>1. StepOK(r)
  BY WriteIndirectOK
<1>2. CASE v # 0
  BY <1>2, NamedWriteStays DEF vm_write_variable_indirect, OnStack
<1>3. CASE v = 0 /\ Len(s.eval) = 0
  <2>1. r.vm = s
    BY <1>3, Results DEF vm_write_variable_indirect
  <2> QED
    BY <1>1, <1>3, <2>1, Unchanged DEF OnStack
<1>4. CASE v = 0 /\ Len(s.eval) # 0
  <2>1. r.vm = [s EXCEPT !.eval = WithTop(s.eval, w)]
    BY <1>4, Results DEF vm_write_variable_indirect
  <2>2. r.vm.frames = s.frames /\ r.vm.eval = WithTop(s.eval, w)
    BY <2>1, Fields
  <2>3. /\ Len(WithTop(s.eval, w)) = Len(s.eval)
        /\ \A k \in 1 .. Len(s.eval) - 1 : WithTop(s.eval, w)[k] = s.eval[k]
    <3> DEFINE e == s.eval
    <3>1. e \in Seq(Word) /\ Len(e) # 0
      BY <1>4, Fields
    <3> HIDE DEF e
    <3>2. /\ Len(WithTop(e, w)) = Len(e)
          /\ \A k \in 1 .. Len(e) - 1 : WithTop(e, w)[k] = e[k]
      BY <3>1, WithTopSeq
    <3> QED
      BY <3>2 DEF e
  <2>4. b + 1 <= Len(s.eval) => KeepsWords(s.eval, WithTop(s.eval, w), b)
    <3> DEFINE n == Len(s.eval)
               d == WithTop(s.eval, w)
    <3>1. n \in Nat /\ Len(d) = n /\ \A k \in 1 .. n - 1 : d[k] = s.eval[k]
      BY <2>3, Lengths
    <3> HIDE DEF n, d
    <3>2. b + 1 <= n => KeepsWords(s.eval, d, b)
      BY <3>1 DEF KeepsWords
    <3> QED
      BY <3>2 DEF n, d
  <2> QED
    BY <1>1, <1>4, <2>2, <2>3, <2>4, SameRefl DEF Stays, OnStack
<1> QED
  BY <1>2, <1>3, <1>4

-----------------------------------------------------------------------------
(* One routine after another.                                              *)

\* Only what r leaves is known to the second routine; v covers both.
LEMMA ThenStays ==
  ASSUME NEW s, MachineOK(s), NEW r, NEW q, NEW b \in Nat, NEW u \in Nat,
         NEW w \in Nat, NEW n \in Int, NEW m \in Int, NEW v \in Nat,
         Stays(s, r, b, u, n), r.ok, Stays(r.vm, q, b, w, m),
         u <= v, b + v <= Len(s.eval) => b + w <= n
  PROVE  Stays(s, q, b, v, m)
<1>1. SameFrames(s.frames, q.vm.frames)
  BY Fields, SameTrans DEF Stays, FramesOK
<1>2. b + v <= Len(s.eval) => b + u <= Len(s.eval) /\ b + w <= Len(r.vm.eval)
  BY Lengths DEF Stays
<1>3. b + v <= Len(s.eval) => KeepsWords(s.eval, q.vm.eval, b)
  BY <1>2, KeepsTrans DEF Stays
<1> QED
  BY <1>1, <1>3 DEF Stays

LEMMA SameBase ==
  ASSUME NEW s, NEW t, SameFrames(s.frames, t.frames)
  PROVE  StackBase(t) = StackBase(s)
BY DEF SameFrames, StackBase

LEMMA FrontSame ==
  ASSUME NEW f, NEW g, FramesOK(f), FramesOK(g), SameFrames(f, g), Len(g) # 0
  PROVE  SameFrames(Front(f), Front(g))
<1>1. f \in Seq(Frame) /\ g \in Seq(Frame) /\ Len(f) = Len(g) /\ Len(f) \in Nat
  BY DEF FramesOK, SameFrames
<1>2. Len(Front(f)) = Len(f) - 1 /\ Len(Front(g)) = Len(f) - 1
  BY <1>1, FrontSeq
<1>3. \A k \in 1 .. Len(f) - 1 : Front(g)[k] = Front(f)[k]
  <2>1. \A k \in 1 .. Len(f) - 1 : g[k] = f[k]
    BY DEF SameFrames
  <2>2. \A k \in 1 .. Len(f) - 1 : Front(f)[k] = f[k]
    BY <1>1, FrontSeq
  <2>3. \A k \in 1 .. Len(g) - 1 : Front(g)[k] = g[k]
    BY <1>1, FrontSeq
  <2> QED
    BY <1>1, <2>1, <2>2, <2>3
<1> QED
  BY <1>1, <1>2, <1>3 DEF SameFrames, Last

LEMMA ThenDoes ==
  ASSUME NEW s, MachineOK(s), NEW r, NEW q, NEW b \in Nat, NEW u \in Nat,
         NEW w \in Nat, NEW n \in Int, NEW m \in Int, NEW v \in Nat,
         Stays(s, r, b, u, n), r.ok, Does(r.vm, q, b, w, m),
         u <= v, b + v <= Len(s.eval) => b + w <= n
  PROVE  Does(s, q, b, v, m)
<1> DEFINE t == r.vm
<1>1. MachineOK(t) /\ SameFrames(s.frames, t.frames)
  BY DEF Stays, StepOK
<1>2. Len(t.frames) = Len(s.frames)
  BY <1>1 DEF SameFrames
<1>3. b + v <= Len(s.eval) => KeepsWords(s.eval, q.vm.eval, b)
  <2>1. b + v <= Len(s.eval) => b + u <= Len(s.eval) /\ b + w <= Len(t.eval)
    BY Lengths DEF Stays
  <2> QED
    BY <2>1, KeepsTrans DEF Stays, Does
<1>4. SameFrames(t.frames, q.vm.frames) => SameFrames(s.frames, q.vm.frames)
  BY <1>1, Fields, SameTrans DEF FramesOK
<1>5. Returns(t, q.vm) => Returns(s, q.vm)
  <2> SUFFICES ASSUME Returns(t, q.vm)
               PROVE  Returns(s, q.vm)
    OBVIOUS
  <2>1. FramesOK(s.frames) /\ FramesOK(t.frames) /\ Len(t.frames) # 0
    BY <1>1, Fields DEF Returns
  <2>2. SameFrames(Front(s.frames), Front(t.frames))
    BY <1>1, <2>1, FrontSame
  <2>3. Front(s.frames) \in Seq(Frame)
    BY <1>2, <2>1, FramesTop DEF FramesOK
  <2> QED
    BY <1>2, <2>1, <2>2, <2>3, SameTrans DEF Returns
<1>6. Calls(t, q.vm) => Calls(s, q.vm)
  BY <1>1, <1>2, Fields, SameTrans DEF Calls, FramesOK
<1> QED
  BY <1>2, <1>3, <1>4, <1>5, <1>6 DEF Does

LEMMA StaysDoes ==
  ASSUME NEW s, MachineOK(s), NEW r, NEW b \in Nat, NEW u \in Nat, NEW n, NEW v \in Nat,
         NEW m, Stays(s, r, b, u, n), u <= v, r.ok => m = n
  PROVE  Does(s, r, b, v, m)
<1>1. b + v <= Len(s.eval) => b + u <= Len(s.eval)
  BY Lengths
<1> QED
  BY <1>1 DEF Stays, Does

LEMMA StaysIsDoes ==
  ASSUME NEW s, NEW r, NEW b, NEW u, NEW n, Stays(s, r, b, u, n)
  PROVE  Does(s, r, b, u, n)
BY DEF Stays, Does

LEMMA AddIndirectStays ==
  ASSUME NEW s, MachineOK(s), NEW v \in Var, NEW d \in Int, NEW b \in Nat
  PROVE  Stays(s, AddIndirect(s, v, d), b, OnStack(v), Len(s.eval))
<1> DEFINE r == vm_read_variable_indirect(s, v)
           updated == (r.value + d) % WordMod
           w == vm_write_variable_indirect(r.vm, v, updated)
<1>1. StepOK(r) /\ (r.ok => r.value \in Word)
  BY ReadIndirectOK
<1>2. AddIndirect(s, v, d) =
        IF r.ok THEN (IF w.ok THEN Value(w.vm, updated) ELSE w) ELSE r
  BY DEF AddIndirect, Then
<1>3. Stays(s, r, b, OnStack(v), Len(s.eval))
  BY ReadIndirectStays
<1>4. CASE r.ok
  <2>1. r.value + d \in Int
    BY <1>1, <1>4, WordModAssumption DEF Word
  <2>2. updated \in Word
    BY <2>1, WordWrapOK
  <2>3. r.vm = s
    BY Results DEF vm_read_variable_indirect, NamedRead
  <2>4. Stays(s, w, b, OnStack(v), Len(s.eval))
    BY <2>2, <2>3, WriteIndirectStays
  <2> HIDE DEF r, updated, w
  <2>5. Value(w.vm, updated).vm = w.vm /\ Value(w.vm, updated).ok
    BY Results
  <2> QED
    BY <1>2, <1>4, <2>4, <2>5 DEF Stays, StepOK
<1>5. CASE ~ r.ok
  BY <1>2, <1>3, <1>5
<1> QED
  BY <1>4, <1>5

LEMMA SetPcFields ==
  ASSUME NEW s, MachineOK(s), NEW p
  PROVE  [s EXCEPT !.pc = p].eval = s.eval /\ [s EXCEPT !.pc = p].frames = s.frames
BY Fields

\* What a return leaves: the words up to the routine's base, if there are as
\* many, and its result on top of them or in a variable of its caller.
LEMMA ReturnDoes ==
  ASSUME NEW s, MachineOK(s), NEW v \in Word, NEW b \in Nat, b <= StackBase(s),
         NEW u \in Nat, NEW n
  PROVE  Does(s, do_return(s, v), b, u, n)
<1> DEFINE r == vm_frame_pop(s)
           q == [r.vm EXCEPT !.pc = r.value.return_pc]
           d == do_return(s, v)
<1>1. StepOK(r) /\ StepOK(d) /\ (r.ok => r.value \in Frame)
  BY FramePopOK, ReturnOK
<1>2. CASE Len(s.frames) = 0
  <2>1. ~ r.ok /\ r.vm = s /\ d = r
    BY <1>2, Results DEF vm_frame_pop, do_return, Then
  <2>2. b + u <= Len(s.eval) => b <= Len(s.eval)
    BY Lengths
  <2> QED
    BY <1>1, <2>1, <2>2, SameRefl, KeepsRefl, Fields DEF Does
<1>3. CASE Len(s.frames) # 0
  <2> DEFINE frame == Last(s.frames)
             eval == IF Len(s.eval) > frame.stack_base
                     THEN Prefix(s.eval, frame.stack_base) ELSE s.eval
  <2>1. r = Value([s EXCEPT !.frames = Front(s.frames), !.eval = eval], frame)
    BY <1>3 DEF vm_frame_pop
  <2>2. r.ok /\ r.vm.frames = Front(s.frames) /\ r.vm.eval = eval
    <3> HIDE DEF r, eval, frame
    <3>1. r.ok /\ r.vm = [s EXCEPT !.frames = Front(s.frames), !.eval = eval]
      BY <2>1, Results
    <3> QED
      BY <3>1, Fields
  <2>3. frame.stack_base \in Nat /\ b <= frame.stack_base
    BY <1>1, <1>3, <2>1, <2>2, Results, BaseNat DEF StackBase
  <2>4. b <= Len(s.eval) => b <= Len(eval) /\ KeepsWords(s.eval, eval, b)
    <3>1. CASE Len(s.eval) > frame.stack_base
      <4>1. frame.stack_base \in 0 .. Len(s.eval)
        BY <2>3, <3>1, Lengths
      <4> HIDE DEF frame
      <4>2. /\ Len(Prefix(s.eval, frame.stack_base)) = frame.stack_base
            /\ \A k \in 1 .. frame.stack_base :
                 Prefix(s.eval, frame.stack_base)[k] = s.eval[k]
        BY <4>1, PrefixSeq, Fields
      <4> QED
        BY <2>3, <3>1, <4>2 DEF KeepsWords
    <3>2. CASE ~ (Len(s.eval) > frame.stack_base)
      BY <3>2, KeepsRefl, Fields
    <3> QED
      BY <3>1, <3>2
  <2>5. MachineOK(q) /\ q.frames = Front(s.frames) /\ q.eval = eval
    <3> HIDE DEF r
    <3>1. r.value.return_pc \in Pc
      BY <1>1, <2>2 DEF Frame
    <3> QED
      BY <1>1, <2>2, <3>1, SetPc, SetPcFields DEF StepOK
  <2>6. d = vm_write_variable(q, r.value.store_variable, v)
    BY <2>2 DEF do_return, Then
  <2>7. r.value.store_variable \in Var
    BY <1>1, <2>2 DEF Frame
  <2> HIDE DEF q, r, eval
  <2>8. Stays(q, d, b, 0, Len(q.eval) + OnStack(r.value.store_variable))
    BY <2>5, <2>6, <2>7, WriteStays
  <2>9. Len(d.vm.frames) # Len(s.frames) /\ Returns(s, d.vm)
    <3>1. Len(Front(s.frames)) = Len(s.frames) - 1
      BY <1>3, Fields, FrontSeq DEF FramesOK
    <3>2. SameFrames(Front(s.frames), d.vm.frames)
      BY <2>5, <2>8 DEF Stays
    <3>3. Len(d.vm.frames) # Len(s.frames)
      BY <3>1, <3>2, Lengths DEF SameFrames
    <3> QED
      BY <1>3, <3>2, <3>3 DEF Returns
  <2>10. b + u <= Len(s.eval) => KeepsWords(s.eval, d.vm.eval, b)
    <3>1. b + u <= Len(s.eval) => b <= Len(s.eval)
      BY Lengths
    <3>2. b <= Len(s.eval) => b + 0 <= Len(q.eval)
      BY <2>4, <2>5
    <3> QED
      BY <2>4, <2>5, <2>8, <3>1, <3>2, KeepsTrans DEF Stays
  <2> QED
    BY <1>1, <2>9, <2>10 DEF Does
<1> QED
  BY <1>2, <1>3

LEMMA BranchDoes ==
  ASSUME NEW s, MachineOK(s), NEW i \in Instrs, NEW c, NEW b \in Nat, b <= StackBase(s)
  PROVE  Does(s, do_branch(s, i, c), b, 0, Len(s.eval))
<1> DEFINE r == do_branch(s, i, c)
<1>1. StepOK(r)
  BY BranchOK
<1>2. CASE c # i.on_true
  <2>1. r.vm = s
    BY <1>2, Results DEF do_branch
  <2>2. Stays(s, r, b, 0, Len(s.eval))
    BY <1>1, <2>1, Unchanged
  <2> QED
    BY <2>2, StaysIsDoes
<1>3. CASE c = i.on_true /\ i.offset \in {0, 1}
  BY <1>3, ReturnDoes, SmallWords DEF do_branch
<1>4. CASE c = i.on_true /\ i.offset \notin {0, 1}
  <2>1. r.vm = [s EXCEPT !.pc = (s.pc + i.offset - 2) % PcSpace]
    BY <1>4, Results DEF do_branch
  <2>2. Stays(s, r, b, 0, Len(s.eval))
    BY <1>1, <2>1, SetPcFields, Unchanged, ZenonT(40)
  <2> QED
    BY <2>2, StaysIsDoes
<1> QED
  BY <1>2, <1>3, <1>4

LEMMA CallDoes ==
  ASSUME NEW s, MachineOK(s), NEW i \in Instrs, NEW x \in Seq(Word), Len(x) >= 1,
         NEW b \in Nat
  PROVE  Does(s, do_call(s, i, x), b, 0, Len(s.eval) + OnStack(i.store))
<1> DEFINE c == do_call(s, i, x)
<1>1. StepOK(c)
  BY CallOK
<1>2. CASE x[1] = 0
  <2>1. Stays(s, c, b, 0, Len(s.eval) + OnStack(i.store))
    BY <1>2, WriteStays, InstrFields, SmallWords DEF do_call
  <2> QED
    BY <2>1, StaysDoes, SMTT(30)
<1>3. CASE x[1] # 0 /\ x[1] \notin DOMAIN RoutineHeader
  <2>1. ~ c.ok /\ c.vm = s
    BY <1>3, Results DEF do_call
  <2> QED
    BY <1>1, <2>1, Unchanged, StaysDoes
<1>4. CASE x[1] # 0 /\ x[1] \in DOMAIN RoutineHeader
  <2> DEFINE header == RoutineHeader[x[1]]
             locals == CallLocals(header, x)
             r == vm_frame_push(s, s.pc, i.store, locals)
             pc == RoutineEntry(x[1], Len(header))
             frame == [ return_pc |-> s.pc, store_variable |-> i.store,
                        locals |-> locals, stack_base |-> Len(s.eval) ]
  <2>1. c = IF r.ok THEN Done([r.vm EXCEPT !.pc = pc]) ELSE r
    BY <1>4 DEF do_call, Then
  <2>2. CASE Len(locals) > LocalLimit \/ Len(s.frames) >= FrameMax
    <3>1. ~ c.ok /\ c.vm = s
      BY <2>1, <2>2, Results DEF vm_frame_push
    <3> QED
      BY <1>1, <3>1, Unchanged, StaysDoes
  <2>3. CASE ~ (Len(locals) > LocalLimit \/ Len(s.frames) >= FrameMax)
    <3>1. r.ok /\ r.vm = [s EXCEPT !.frames = Append(s.frames, frame)]
      BY <2>3, Results DEF vm_frame_push
    <3>2. r.vm.frames = Append(s.frames, frame) /\ r.vm.eval = s.eval
      BY <3>1, Fields
    <3>3. MachineOK(r.vm)
      BY <2>1, FramePushOK, Fields, InstrFields, CallLocalsOK, RoutineAssumption, <1>4
         DEF StepOK
    <3> HIDE DEF r, frame, pc
    <3>4. c.vm.frames = Append(s.frames, frame) /\ c.vm.eval = s.eval
      <4>1. c = Done([r.vm EXCEPT !.pc = pc])
        BY <2>1, <3>1
      <4>2. c.vm = [r.vm EXCEPT !.pc = pc]
        BY <4>1, Results
      <4> QED
        BY <3>2, <3>3, <4>2, SetPcFields
    <3>5. s.frames \in Seq(Frame) /\ c.vm.frames \in Seq(Frame)
      BY <1>1, Fields DEF FramesOK, StepOK
    <3>6. /\ Len(c.vm.frames) = Len(s.frames) + 1
          /\ Front(c.vm.frames) = s.frames
          /\ Last(c.vm.frames) = frame
      <4> DEFINE f == s.frames
                 g == Append(f, frame)
      <4>1. f \in Seq(Frame) /\ g \in Seq(Frame)
        BY <3>4, <3>5
      <4>2. frame \in Frame
        BY <4>1
      <4> HIDE DEF f
      <4>3. Len(g) = Len(f) + 1 /\ Front(g) = f /\ Last(g) = frame
        BY <4>1, <4>2 DEF Front, Last
      <4> QED
        BY <3>4, <4>3 DEF f
    <3>7. Calls(s, c.vm)
      BY <3>4, <3>6, SameRefl DEF Calls, frame
    <3>8. Len(c.vm.frames) # Len(s.frames)
      BY <3>6, Lengths
    <3>9. b + 0 <= Len(s.eval) => KeepsWords(s.eval, c.vm.eval, b)
      BY <3>4, KeepsRefl, Fields
    <3> QED
      BY <1>1, <3>7, <3>8, <3>9 DEF Does
  <2> QED
    BY <2>2, <2>3
<1> QED
  BY <1>2, <1>3, <1>4

-----------------------------------------------------------------------------
(* The operands.                                                           *)

\* How many of the first k operands are popped off the stack.
Popped(i, k) == Cardinality({j \in StackOperands(i) : j <= k})

LEMMA PoppedCounts ==
  ASSUME NEW i \in Instrs
  PROVE  /\ Popped(i, 0) = 0
         /\ \A k \in Nat : Popped(i, k) \in Nat
         /\ \A k \in 1 .. Len(i.operands) :
              Popped(i, k) = Popped(i, k - 1) +
                IF i.operands[k].type = "variable" THEN OnStack(VarOf(i.operands[k].raw)) ELSE 0
         /\ \A k \in Nat : k > Len(i.operands) => Popped(i, k) = Popped(i, k - 1)
         /\ Popped(i, 4) = Cardinality(StackOperands(i))
<1> DEFINE S(k) == {j \in StackOperands(i) : j <= k}
<1>0. Len(i.operands) \in 0 .. 4
  BY InstrFields
<1>1. StackOperands(i) \subseteq 1 .. Len(i.operands)
  BY DEF StackOperands
<1>2. S(0) = {} /\ S(4) = StackOperands(i)
  <2>1. \A j \in StackOperands(i) : j \in Int /\ 1 <= j /\ j <= 4
    <3> DEFINE n == Len(i.operands)
    <3>1. n \in 0 .. 4 /\ StackOperands(i) \subseteq 1 .. n
      BY <1>0, <1>1
    <3> HIDE DEF n
    <3> QED
      BY <3>1
  <2> QED
    BY <2>1
<1>3. \A k \in Nat : IsFiniteSet(S(k)) /\ Cardinality(S(k)) \in Nat
  <2> TAKE k \in Nat
  <2>1. S(k) \subseteq 1 .. Len(i.operands)
    BY <1>1
  <2>2. IsFiniteSet(1 .. Len(i.operands))
    BY <1>0, FS_Interval
  <2>3. IsFiniteSet(S(k))
    BY <2>1, <2>2, FS_Subset
  <2> QED
    BY <2>3, FS_CardinalityType
<1>4. \A k \in 1 .. Len(i.operands) :
        Popped(i, k) = Popped(i, k - 1) +
          IF i.operands[k].type = "variable" THEN OnStack(VarOf(i.operands[k].raw)) ELSE 0
  <2> TAKE k \in 1 .. Len(i.operands)
  <2>0. k - 1 \in Nat /\ k \in Nat /\ k \in 1 .. Len(i.operands)
    BY <1>0
  <2>1. CASE k \in StackOperands(i)
    <3>1. S(k) = S(k - 1) \cup {k} /\ k \notin S(k - 1)
      BY <1>0, <1>1, <2>0, <2>1
    <3>2. Cardinality(S(k)) = Cardinality(S(k - 1)) + 1
      BY <1>3, <2>0, <3>1, FS_AddElement
    <3>3. i.operands[k].type = "variable" /\ VarOf(i.operands[k].raw) = 0
      BY <2>1 DEF StackOperands
    <3> QED
      BY <3>2, <3>3 DEF Popped, OnStack
  <2>2. CASE k \notin StackOperands(i)
    <3>1. S(k) = S(k - 1)
      BY <1>0, <1>1, <2>0, <2>2
    <3>2. ~ (i.operands[k].type = "variable" /\ VarOf(i.operands[k].raw) = 0)
      BY <2>0, <2>2 DEF StackOperands
    <3>3. Popped(i, k) = Popped(i, k - 1) /\ Popped(i, k - 1) \in Nat
      BY <1>3, <2>0, <3>1 DEF Popped
    <3> QED
      BY <3>2, <3>3 DEF OnStack
  <2> QED
    BY <2>1, <2>2
<1>5. \A k \in Nat : k > Len(i.operands) => Popped(i, k) = Popped(i, k - 1)
  <2> SUFFICES ASSUME NEW k \in Nat, k > Len(i.operands)
               PROVE  S(k) = S(k - 1)
    BY DEF Popped
  <2> QED
    BY <1>0, <1>1
<1> QED
  BY <1>2, <1>3, <1>4, <1>5, FS_EmptySet DEF Popped

\* What k operands resolved so far have done to the machine; a constant
\* operand is its own value.
ResolvedStays(s, r, i, k, b) ==
  /\ ResolvedOK(r, i, k)
  /\ Stays(s, r, b, Popped(i, k), Len(s.eval) - Popped(i, k))
  /\ r.ok => \A j \in 1 .. Len(i.operands) :
       j <= k /\ i.operands[j].type = "constant" => r.value[j] = i.operands[j].raw

LEMMA ResolveOneStays ==
  ASSUME NEW s, MachineOK(s), NEW r, NEW i \in Instrs, NEW k \in Nat, NEW b \in Nat,
         ResolvedStays(s, r, i, k, b)
  PROVE  ResolvedStays(s, ResolveOne(r, i, k + 1), i, k + 1, b)
<1> DEFINE operand == i.operands[k + 1]
           read == IF operand.type = "variable"
                   THEN vm_read_variable(r.vm, VarOf(operand.raw))
                   ELSE Value(r.vm, operand.raw)
           taken == IF operand.type = "variable" THEN OnStack(VarOf(operand.raw)) ELSE 0
           q == ResolveOne(r, i, k + 1)
<1>0. /\ Len(i.operands) \in Nat /\ ResolvedOK(q, i, k + 1)
      /\ Popped(i, k) \in Nat /\ Popped(i, k + 1) \in Nat
  <2>1. Len(i.operands) \in Nat
    BY InstrFields
  <2>2. ResolvedOK(q, i, k + 1)
    BY ResolveOneOK DEF ResolvedStays
  <2>3. k + 1 \in Nat
    OBVIOUS
  <2> QED
    BY <2>1, <2>2, <2>3, PoppedCounts
<1>1. CASE k + 1 > Len(i.operands)
  <2>1. q = r
    BY <1>1 DEF ResolveOne
  <2>2. Popped(i, k + 1) = Popped(i, k)
    <3>1. (k + 1) - 1 = k /\ k + 1 \in Nat
      OBVIOUS
    <3> QED
      BY <1>1, <3>1, PoppedCounts
  <2>3. \A j \in 1 .. Len(i.operands) : j <= k + 1 => j <= k
    BY <1>0, <1>1
  <2> QED
    BY <1>0, <2>1, <2>2, <2>3 DEF ResolvedStays
<1>2. CASE ~ r.ok /\ k + 1 <= Len(i.operands)
  <2>1. q = r
    BY <1>2 DEF ResolveOne
  <2>2. Popped(i, k + 1) >= Popped(i, k)
    <3>1. (k + 1) - 1 = k /\ k + 1 \in 1 .. Len(i.operands)
      BY <1>0, <1>2
    <3>2. Popped(i, k + 1) = Popped(i, k) + taken
      BY <3>1, PoppedCounts
    <3>3. taken \in Nat
      BY DEF OnStack
    <3> HIDE DEF taken
    <3> QED
      BY <1>0, <3>2, <3>3
  <2>3. b + Popped(i, k + 1) <= Len(s.eval) => b + Popped(i, k) <= Len(s.eval)
    BY <1>0, <2>2, Lengths
  <2> QED
    BY <1>0, <1>2, <2>1, <2>3 DEF ResolvedStays, Stays
<1>3. CASE r.ok /\ k + 1 <= Len(i.operands)
  <2>1. operand \in Operand
    BY <1>0, <1>3, InstrFields
  <2>2. operand.raw \in Word
    BY <2>1 DEF Operand
  <2>3. VarOf(operand.raw) \in Var
    BY <2>2, VarOfOK
  <2>4. MachineOK(r.vm) /\ r.value \in Seq(Word) /\ Len(r.value) = k
    BY <1>0, <1>3 DEF ResolvedStays, ResolvedOK, StepOK
  <2>5. Popped(i, k + 1) = Popped(i, k) + taken
    <3>1. (k + 1) - 1 = k /\ k + 1 \in 1 .. Len(i.operands)
      BY <1>0, <1>3
    <3> QED
      BY <3>1, PoppedCounts
  <2>6. taken \in Nat
    BY DEF OnStack
  <2>7. Stays(r.vm, read, b, taken, Len(r.vm.eval) - taken)
    <3>1. CASE operand.type = "variable"
      BY <2>3, <2>4, <3>1, ReadStays
    <3>2. CASE operand.type # "variable"
      <4>1. Len(r.vm.eval) - 0 = Len(r.vm.eval)
        BY <2>4, Lengths
      <4>2. read.vm = r.vm /\ StepOK(read)
        BY <2>4, <3>2, Results DEF StepOK
      <4>3. Stays(r.vm, read, b, 0, Len(r.vm.eval))
        BY <2>4, <4>2, Unchanged
      <4> QED
        BY <3>2, <4>1, <4>3
    <3> QED
      BY <3>1, <3>2
  <2>8. q = IF read.ok THEN Value(read.vm, Append(r.value, read.value)) ELSE read
    BY <1>0, <1>3, SMTT(30) DEF ResolveOne, Then
  <2>9. read.ok /\ operand.type = "constant" => read.value = operand.raw
    BY Results
  <2> HIDE DEF read, taken, q
  <2>10. Len(r.vm.eval) = Len(s.eval) - Popped(i, k)
    BY <1>3 DEF ResolvedStays, Stays
  <2>11. Stays(s, read, b, Popped(i, k + 1), Len(s.eval) - Popped(i, k + 1))
    <3>1. Len(s.eval) - Popped(i, k) \in Int /\ Len(r.vm.eval) - taken \in Int
      BY <1>0, <2>4, <2>6, Lengths
    <3>2. Popped(i, k) <= Popped(i, k + 1)
      BY <1>0, <2>5, <2>6
    <3>3. b + Popped(i, k + 1) <= Len(s.eval) => b + taken <= Len(s.eval) - Popped(i, k)
      BY <1>0, <2>5, <2>6, Lengths
    <3>4. Len(r.vm.eval) - taken = Len(s.eval) - Popped(i, k + 1)
      BY <1>0, <2>5, <2>6, <2>10, Lengths
    <3>5. Stays(s, r, b, Popped(i, k), Len(s.eval) - Popped(i, k))
      BY DEF ResolvedStays
    <3>6. Stays(s, read, b, Popped(i, k + 1), Len(r.vm.eval) - taken)
      BY <1>0, <1>3, <2>6, <2>7, <3>1, <3>2, <3>3, <3>5, ThenStays, SMTT(30)
    <3> QED
      BY <3>4, <3>6
  <2>12. Stays(s, q, b, Popped(i, k + 1), Len(s.eval) - Popped(i, k + 1))
    <3>1. q.vm = read.vm /\ q.ok = read.ok
      BY <2>8, <1>0, Results
    <3> QED
      BY <2>11, <3>1 DEF Stays, StepOK
  <2>13. q.ok => \A j \in 1 .. Len(i.operands) :
           j <= k + 1 /\ i.operands[j].type = "constant" => q.value[j] = i.operands[j].raw
    <3> SUFFICES ASSUME q.ok, NEW j \in 1 .. Len(i.operands), j <= k + 1,
                        i.operands[j].type = "constant"
                 PROVE  q.value[j] = i.operands[j].raw
      OBVIOUS
    <3>1. read.ok /\ q.value = Append(r.value, read.value)
      <4>1. read.ok
        BY <2>8
      <4>2. q = Value(read.vm, Append(r.value, read.value))
        BY <2>8, <4>1
      <4> DEFINE a == Append(r.value, read.value)
      <4>3. q = Value(read.vm, a)
        BY <4>2
      <4> HIDE DEF a
      <4>4. q.value = a
        BY <4>3, Results
      <4> QED
        BY <4>1, <4>4 DEF a
    <3>2. CASE j <= k
      <4>1. q.value[j] = r.value[j]
        BY <1>0, <2>4, <3>1, <3>2
      <4> QED
        BY <1>3, <3>2, <4>1 DEF ResolvedStays
    <3>3. CASE j = k + 1
      <4>1. q.value[j] = read.value
        BY <1>0, <2>4, <3>1, <3>3
      <4> QED
        BY <2>9, <3>1, <3>3, <4>1
    <3> QED
      BY <1>0, <3>2, <3>3
  <2> QED
    BY <1>0, <2>12, <2>13 DEF ResolvedStays, q
<1> QED
  BY <1>0, <1>1, <1>2, <1>3

LEMMA ResolveStays ==
  ASSUME NEW s, MachineOK(s), NEW i \in Instrs, NEW b \in Nat
  PROVE  LET r == resolve_operands(s, i)
             n == Cardinality(StackOperands(i))
         IN /\ n \in Nat
            /\ Stays(s, r, b, n, Len(s.eval) - n)
            /\ r.ok /\ Len(i.operands) >= 1 /\ i.operands[1].type = "constant" =>
                 r.value[1] = i.operands[1].raw
<1> DEFINE r0 == Value(s, <<>>)
           r1 == ResolveOne(r0, i, 1)
           r2 == ResolveOne(r1, i, 2)
           r3 == ResolveOne(r2, i, 3)
           r4 == ResolveOne(r3, i, 4)
<1>0. Len(i.operands) \in 0 .. 4
  BY InstrFields
<1>1. ResolvedStays(s, r0, i, 0, b)
  <2>1. r0.ok /\ r0.vm = s /\ r0.value = <<>>
    BY Results
  <2> HIDE DEF r0
  <2>2. r0.value \in Seq(Word) /\ Len(r0.value) = 0
    BY <2>1
  <2>3. ResolvedOK(r0, i, 0)
    BY <1>0, <2>1, <2>2 DEF ResolvedOK, StepOK
  <2>4. Popped(i, 0) = 0 /\ Len(s.eval) - 0 = Len(s.eval)
    BY PoppedCounts, Lengths
  <2>5. Stays(s, r0, b, 0, Len(s.eval))
    BY <2>1, <2>3, Unchanged DEF ResolvedOK
  <2> QED
    BY <1>0, <2>3, <2>4, <2>5 DEF ResolvedStays
<1>2. resolve_operands(s, i) = r4
  BY DEF resolve_operands
<1> HIDE DEF r0
<1>3. ResolvedStays(s, r1, i, 1, b)
  BY <1>1, ResolveOneStays, 0 + 1 = 1
<1> HIDE DEF r1
<1>4. ResolvedStays(s, r2, i, 2, b)
  BY <1>3, ResolveOneStays, 1 + 1 = 2
<1> HIDE DEF r2
<1>5. ResolvedStays(s, r3, i, 3, b)
  BY <1>4, ResolveOneStays, 2 + 1 = 3
<1> HIDE DEF r3
<1>6. ResolvedStays(s, r4, i, 4, b)
  BY <1>5, ResolveOneStays, 3 + 1 = 4
<1> HIDE DEF r4
<1> QED
  BY <1>0, <1>2, <1>6, PoppedCounts DEF ResolvedStays

-----------------------------------------------------------------------------
(* The handlers.  Uses and Moved are StackUse and StackEffect without the   *)
(* operands, which are resolved by then.                                   *)

Uses(i, x) ==
  (IF i.op \in {"pop", "pull", "ret_popped"} THEN 1 ELSE 0)
    + (IF i.op \in {"store", "inc", "dec", "inc_chk", "dec_chk", "load", "pull"}
       THEN OnStack(VarOf(x[1])) ELSE 0)

Moved(i) ==
  (IF i.op = "push" THEN 1 ELSE 0)
    + (IF i.op \in {"result", "result_branch", "load", "call"} THEN OnStack(i.store) ELSE 0)
    - (IF i.op \in {"pop", "pull"} THEN 1 ELSE 0)

\* What a handler does to the stacks.
HandlerDoes(s, i, x, b, r) == Does(s, r, b, Uses(i, x), Len(s.eval) + Moved(i))

LEMMA OnStackNat == \A v : OnStack(v) \in 0 .. 1
BY DEF OnStack

\* pc and globals play no part in it.
LEMMA OthersDoes ==
  ASSUME NEW s, MachineOK(s), NEW r, StepOK(r), NEW b \in Nat,
         r.vm.frames = s.frames, r.vm.eval = s.eval
  PROVE  Does(s, r, b, 0, Len(s.eval))
BY Unchanged, StaysIsDoes

LEMMA BranchingDoes ==
  ASSUME NEW s, MachineOK(s), NEW i, NEW x, Good(i, x), NEW b \in Nat, b <= StackBase(s),
         i.op \in {"je", "jz", "test", "save", "jump", "effect", "show_status", "bad",
                   "restore", "restart", "quit"}
  PROVE  HandlerDoes(s, i, x, b, step(s, i, x))
<1> DEFINE r == step(s, i, x)
<1>1. i \in Instrs /\ StepOK(r)
  BY HandlersOK DEF Good
<1>2. Uses(i, x) = 0 /\ Len(s.eval) + Moved(i) = Len(s.eval)
  BY Lengths DEF Uses, Moved
<1>3. \A c : Does(s, do_branch(s, i, c), b, 0, Len(s.eval))
  BY <1>1, BranchDoes
<1>4. CASE i.op \in {"je", "jz", "test"}
  BY <1>2, <1>3, <1>4 DEF step, step_je, step_jz, step_test, HandlerDoes
<1>5. CASE i.op = "save" /\ SaveConfigured
  BY <1>2, <1>3, <1>5 DEF step, step_save, HandlerDoes
<1>6. CASE i.op = "jump"
  <2>1. r.vm = [s EXCEPT !.pc = (s.pc + Signed(x[1]) - 2) % PcSpace]
    BY <1>6, Results DEF step, step_jump
  <2> QED
    <3>1. r.vm.frames = s.frames /\ r.vm.eval = s.eval
      BY <2>1, SetPcFields
    <3>2. Does(s, r, b, 0, Len(s.eval))
      BY <1>1, <3>1, OthersDoes
    <3> QED
      BY <1>2, <3>2 DEF HandlerDoes
<1>7. CASE i.op = "effect"
  <2>1. r.vm = [s EXCEPT !.globals = Written(s.globals, i)]
    BY <1>7, Results DEF step, step_effect
  <2>2. r.vm.frames = s.frames /\ r.vm.eval = s.eval
    BY <2>1, Fields
  <2> QED
    BY <1>1, <1>2, <2>2, OthersDoes DEF HandlerDoes
<1>8. CASE \/ i.op = "save" /\ ~ SaveConfigured
           \/ i.op \in {"show_status", "bad", "restore", "restart", "quit"}
  <2>1. r.vm = s
    BY <1>8, Results DEF step, step_save, step_show_status, step_bad
  <2> QED
    BY <1>1, <1>2, <2>1, OthersDoes DEF HandlerDoes
<1> QED
  BY <1>4, <1>5, <1>6, <1>7, <1>8

LEMMA ReturningDoes ==
  ASSUME NEW s, MachineOK(s), NEW i, NEW x, Good(i, x), NEW b \in Nat, b <= StackBase(s),
         i.op \in {"ret", "rtrue", "rfalse", "print_ret", "ret_popped", "call"}
  PROVE  HandlerDoes(s, i, x, b, step(s, i, x))
<1>1. i \in Instrs /\ x \in Seq(Word)
  BY DEF Good
<1>2. CASE i.op \in {"rtrue", "rfalse"}
  <2>1. Uses(i, x) = 0
    BY <1>2 DEF Uses
  <2>2. PICK w \in Word : step(s, i, x) = do_return(s, w)
    BY <1>2, SmallWords DEF step, step_rtrue, step_rfalse
  <2>3. Does(s, do_return(s, w), b, 0, Len(s.eval) + Moved(i))
    BY ReturnDoes
  <2> QED
    BY <2>1, <2>2, <2>3 DEF HandlerDoes
<1>3. CASE i.op = "ret"
  <2>1. x[1] \in Word
    BY <1>3, OperandsOK DEF Arity
  <2>2. Uses(i, x) = 0
    BY <1>3 DEF Uses
  <2> QED
    <3>1. step(s, i, x) = do_return(s, x[1])
      BY <1>3 DEF step, step_ret
    <3>2. Does(s, do_return(s, x[1]), b, 0, Len(s.eval) + Moved(i))
      BY <2>1, ReturnDoes
    <3> QED
      BY <2>2, <3>1, <3>2 DEF HandlerDoes
<1>4. CASE i.op = "ret_popped"
  <2> DEFINE r == vm_pop(s)
             q == do_return(r.vm, r.value)
             m == Len(s.eval) + Moved(i)
  <2>1. step(s, i, x) = IF r.ok THEN q ELSE r
    BY <1>4 DEF step, step_ret_popped, Then
  <2>2. Uses(i, x) = 1 /\ Moved(i) = 0 /\ m \in Int /\ Len(s.eval) - 1 \in Int
    BY <1>4, Lengths DEF Uses, Moved
  <2>3. Stays(s, r, b, 1, Len(s.eval) - 1) /\ StepOK(r) /\ (r.ok => r.value \in Word)
    BY PopStays, PopOK
  <2>4. CASE r.ok
    <3>1. b <= StackBase(r.vm)
      BY <2>3, SameBase DEF Stays
    <3>2. Does(r.vm, q, b, 0, m)
      BY <2>3, <2>4, <3>1, ReturnDoes DEF StepOK
    <3>3. b + 1 <= Len(s.eval) => b + 0 <= Len(s.eval) - 1
      BY Lengths
    <3> HIDE DEF r, q, m
    <3>4. Does(s, q, b, 1, m)
      BY <2>2, <2>3, <2>4, <3>2, <3>3, ThenDoes
    <3> QED
      BY <2>1, <2>2, <2>4, <3>4 DEF HandlerDoes, m
  <2>5. CASE ~ r.ok
    <3> HIDE DEF r, m
    <3>1. Does(s, r, b, 1, m)
      BY <2>3, <2>5, StaysDoes
    <3> QED
      BY <2>1, <2>2, <2>5, <3>1 DEF HandlerDoes, m
  <2> QED
    BY <2>4, <2>5
<1>5. CASE i.op = "call"
  <2>1. Len(x) >= 1
    BY <1>5 DEF Good, Arity
  <2>2. Uses(i, x) = 0 /\ Moved(i) = OnStack(i.store)
    BY <1>5, OnStackNat DEF Uses, Moved
  <2> QED
    <3>1. step(s, i, x) = do_call(s, i, x)
      BY <1>5 DEF step, step_call
    <3>2. Does(s, do_call(s, i, x), b, 0, Len(s.eval) + OnStack(i.store))
      BY <1>1, <2>1, CallDoes
    <3> QED
      BY <2>2, <3>1, <3>2 DEF HandlerDoes
<1>6. CASE i.op = "print_ret"
  <2> DEFINE t == [s EXCEPT !.globals = Written(s.globals, i)]
             d == do_return(t, 1)
  <2>1. Uses(i, x) = 0 /\ step(s, i, x) = d
    BY <1>6 DEF Uses, step, step_print_ret
  <2>2. MachineOK(t)
    <3>1. s.globals \in [Globals -> Word]
      BY DEF MachineOK, Machine
    <3> QED
      BY <1>1, <3>1, WrittenOK, SetGlobals
  <2>3. t.frames = s.frames /\ t.eval = s.eval
    BY Fields
  <2> HIDE DEF t
  <2>4. StackBase(t) = StackBase(s)
    BY <2>3 DEF StackBase
  <2>5. Does(t, d, b, 0, Len(s.eval) + Moved(i))
    BY <2>2, <2>4, SmallWords, ReturnDoes
  <2> HIDE DEF d
  <2>6. Does(s, d, b, 0, Len(s.eval) + Moved(i))
    BY <2>3, <2>5 DEF Does, Returns, Calls
  <2> QED
    BY <2>1, <2>6 DEF HandlerDoes
<1> QED
  BY <1>2, <1>3, <1>4, <1>5, <1>6

LEMMA WritingDoes ==
  ASSUME NEW s, MachineOK(s), NEW i, NEW x, Good(i, x), NEW b \in Nat, b <= StackBase(s),
         i.op \in {"store", "result", "inc", "dec", "pop", "push"}
  PROVE  HandlerDoes(s, i, x, b, step(s, i, x))
<1>0. i \in Instrs /\ i.store \in Var /\ i.result \in Word /\ Len(s.eval) \in Nat
  BY InstrFields, Lengths DEF Good
<1>1. CASE i.op = "store"
  <2>1. x[1] \in Word /\ VarOf(x[1]) \in Var /\ x[2] \in Word
    BY <1>1, OperandsOK DEF Arity
  <2>2. Uses(i, x) = OnStack(VarOf(x[1])) /\ Len(s.eval) + Moved(i) = Len(s.eval)
    BY <1>0, <1>1, OnStackNat DEF Uses, Moved
  <2> QED
    BY <1>1, <2>1, <2>2, WriteIndirectStays, StaysIsDoes DEF step, step_store, HandlerDoes
<1>2. CASE i.op = "result"
  <2>1. Uses(i, x) = 0 /\ Moved(i) = OnStack(i.store)
    BY <1>0, <1>2, OnStackNat DEF Uses, Moved
  <2> QED
    <3>1. step(s, i, x) = vm_write_variable(s, i.store, i.result)
      BY <1>2 DEF step, step_result
    <3>2. Stays(s, vm_write_variable(s, i.store, i.result), b, 0,
                Len(s.eval) + OnStack(i.store))
      BY <1>0, WriteStays
    <3> QED
      BY <2>1, <3>1, <3>2, StaysIsDoes DEF HandlerDoes
<1>3. CASE i.op \in {"inc", "dec"}
  <2>1. x[1] \in Word /\ VarOf(x[1]) \in Var
    BY <1>3, OperandsOK DEF Arity
  <2>2. Uses(i, x) = OnStack(VarOf(x[1])) /\ Len(s.eval) + Moved(i) = Len(s.eval)
    BY <1>0, <1>3, OnStackNat DEF Uses, Moved
  <2>3. PICK d \in Int : step(s, i, x) = AddIndirect(s, VarOf(x[1]), d)
    <3>1. 1 \in Int /\ -1 \in Int
      OBVIOUS
    <3>2. i.op = "inc" => step(s, i, x) = AddIndirect(s, VarOf(x[1]), 1)
      BY DEF step, step_inc
    <3>3. i.op = "dec" => step(s, i, x) = AddIndirect(s, VarOf(x[1]), -1)
      BY DEF step, step_dec
    <3> QED
      BY <1>3, <3>1, <3>2, <3>3
  <2>4. Stays(s, AddIndirect(s, VarOf(x[1]), d), b, OnStack(VarOf(x[1])), Len(s.eval))
    BY <2>1, AddIndirectStays
  <2> QED
    BY <2>2, <2>3, <2>4, StaysIsDoes DEF HandlerDoes
<1>4. CASE i.op = "pop"
  <2>1. Uses(i, x) = 1 /\ Len(s.eval) + Moved(i) = Len(s.eval) - 1
    BY <1>0, <1>4 DEF Uses, Moved
  <2> QED
    BY <1>4, <2>1, PopStays, StaysIsDoes DEF step, step_pop, HandlerDoes
<1>5. CASE i.op = "push"
  <2>1. x[1] \in Word
    BY <1>5, OperandsOK DEF Arity
  <2>2. Uses(i, x) = 0 /\ Moved(i) = 1
    BY <1>5 DEF Uses, Moved
  <2> QED
    BY <1>5, <2>1, <2>2, PushStays, StaysIsDoes DEF step, step_push, HandlerDoes
<1> QED
  BY <1>1, <1>2, <1>3, <1>4, <1>5

LEMMA CheckingDoes ==
  ASSUME NEW s, MachineOK(s), NEW i, NEW x, Good(i, x), NEW b \in Nat, b <= StackBase(s),
         i.op \in {"inc_chk", "dec_chk"}
  PROVE  HandlerDoes(s, i, x, b, step(s, i, x))
<1>0. i \in Instrs /\ Len(s.eval) \in Nat
  BY Lengths DEF Good
<1>1. x[1] \in Word /\ VarOf(x[1]) \in Var
  BY OperandsOK DEF Arity
<1>2. Uses(i, x) = OnStack(VarOf(x[1])) /\ Len(s.eval) + Moved(i) = Len(s.eval)
  BY <1>0, OnStackNat DEF Uses, Moved
<1> DEFINE d == IF i.op = "inc_chk" THEN 1 ELSE -1
           r == AddIndirect(s, VarOf(x[1]), d)
           c == IF i.op = "inc_chk" THEN Signed(r.value) > Signed(x[2])
                ELSE Signed(r.value) < Signed(x[2])
           q == do_branch(r.vm, i, c)
           u == OnStack(VarOf(x[1]))
<1>3. step(s, i, x) = IF r.ok THEN q ELSE r
  <2>1. CASE i.op = "inc_chk"
    BY <2>1 DEF step, step_inc_chk, Then
  <2>2. CASE i.op = "dec_chk"
    BY <2>2 DEF step, step_dec_chk, Then
  <2> QED
    BY <2>1, <2>2
<1>4. d \in Int
  OBVIOUS
<1> HIDE DEF d
<1>5. Stays(s, r, b, u, Len(s.eval))
  BY <1>1, <1>4, AddIndirectStays
<1>6. u \in Nat
  BY OnStackNat
<1> HIDE DEF r, c, u
<1>7. CASE r.ok
  <2>1. b <= StackBase(r.vm) /\ MachineOK(r.vm) /\ Len(r.vm.eval) = Len(s.eval)
    BY <1>5, <1>7, SameBase DEF Stays, StepOK
  <2>2. Does(r.vm, q, b, 0, Len(s.eval))
    BY <1>0, <2>1, BranchDoes
  <2>3. b + u <= Len(s.eval) => b + 0 <= Len(s.eval)
    BY <1>0, <1>6
  <2> HIDE DEF q
  <2>4. Does(s, q, b, u, Len(s.eval))
    BY <1>0, <1>5, <1>6, <1>7, <2>2, <2>3, ThenDoes
  <2> QED
    BY <1>2, <1>3, <1>7, <2>4 DEF HandlerDoes, u
<1>8. CASE ~ r.ok
  BY <1>2, <1>3, <1>5, <1>8, StaysIsDoes DEF HandlerDoes, u
<1> QED
  BY <1>7, <1>8

LEMMA PassingDoes ==
  ASSUME NEW s, MachineOK(s), NEW i, NEW x, Good(i, x), NEW b \in Nat, b <= StackBase(s),
         i.op \in {"load", "pull", "result_branch"}
  PROVE  HandlerDoes(s, i, x, b, step(s, i, x))
<1>0. i \in Instrs /\ i.store \in Var /\ i.result \in Word /\ Len(s.eval) \in Nat
  BY InstrFields, Lengths DEF Good
<1>1. CASE i.op = "load"
  <2>1. x[1] \in Word /\ VarOf(x[1]) \in Var
    BY <1>1, OperandsOK DEF Arity
  <2> DEFINE r == vm_read_variable_indirect(s, VarOf(x[1]))
             q == vm_write_variable(r.vm, i.store, r.value)
             u == OnStack(VarOf(x[1]))
             m == Len(s.eval) + OnStack(i.store)
  <2>2. step(s, i, x) = IF r.ok THEN q ELSE r
    BY <1>1 DEF step, step_load, Then
  <2>3. Uses(i, x) = u /\ Len(s.eval) + Moved(i) = m /\ u \in Nat /\ m \in Int
    BY <1>0, <1>1, OnStackNat DEF Uses, Moved
  <2>4. Stays(s, r, b, u, Len(s.eval)) /\ StepOK(r) /\ (r.ok => r.value \in Word)
    BY <2>1, ReadIndirectStays, ReadIndirectOK
  <2>5. r.ok => Stays(r.vm, q, b, 0, m)
    BY <1>0, <2>4, WriteStays DEF Stays, StepOK
  <2>6. b + u <= Len(s.eval) => b + 0 <= Len(s.eval)
    BY <1>0, <2>3
  <2> HIDE DEF r, q, u, m
  <2>7. r.ok => Stays(s, q, b, u, m)
    BY <1>0, <2>3, <2>4, <2>5, <2>6, ThenStays
  <2>8. ~ r.ok => Does(s, r, b, u, m)
    BY <2>3, <2>4, StaysDoes
  <2> QED
    BY <2>2, <2>3, <2>7, <2>8, StaysIsDoes DEF HandlerDoes
<1>2. CASE i.op = "pull"
  <2>1. x[1] \in Word /\ VarOf(x[1]) \in Var
    BY <1>2, OperandsOK DEF Arity
  <2> DEFINE r == vm_pop(s)
             q == vm_write_variable_indirect(r.vm, VarOf(x[1]), r.value)
             u == 1 + OnStack(VarOf(x[1]))
             m == Len(s.eval) - 1
  <2>2. step(s, i, x) = IF r.ok THEN q ELSE r
    BY <1>2 DEF step, step_pull, Then
  <2>3. Uses(i, x) = u /\ Len(s.eval) + Moved(i) = m /\ u \in Nat /\ m \in Int /\ 1 <= u
    BY <1>0, <1>2, OnStackNat DEF Uses, Moved
  <2>4. Stays(s, r, b, 1, m) /\ StepOK(r) /\ (r.ok => r.value \in Word)
    BY PopStays, PopOK
  <2>5. r.ok => Stays(r.vm, q, b, OnStack(VarOf(x[1])), m)
    BY <2>1, <2>4, WriteIndirectStays DEF Stays, StepOK
  <2>6. /\ b + u <= Len(s.eval) => b + OnStack(VarOf(x[1])) <= m
        /\ OnStack(VarOf(x[1])) \in Nat
    BY <1>0, OnStackNat
  <2> HIDE DEF r, q, u, m
  <2>7. r.ok => Stays(s, q, b, u, m)
    BY <2>3, <2>4, <2>5, <2>6, ThenStays
  <2>8. ~ r.ok => Does(s, r, b, u, m)
    BY <2>3, <2>4, StaysDoes
  <2> QED
    BY <2>2, <2>3, <2>7, <2>8, StaysIsDoes DEF HandlerDoes
<1>3. CASE i.op = "result_branch"
  <2> DEFINE r == vm_write_variable(s, i.store, i.result)
             q == do_branch(r.vm, i, i.result # 0)
             m == Len(s.eval) + OnStack(i.store)
  <2>1. step(s, i, x) = IF r.ok THEN q ELSE r
    BY <1>3 DEF step, step_result_branch, Then
  <2>2. Uses(i, x) = 0 /\ Len(s.eval) + Moved(i) = m /\ m \in Int
    BY <1>0, <1>3, OnStackNat DEF Uses, Moved
  <2>3. Stays(s, r, b, 0, m)
    BY <1>0, WriteStays
  <2>4. r.ok => Does(r.vm, q, b, 0, m)
    <3> SUFFICES ASSUME r.ok
                 PROVE  Does(r.vm, q, b, 0, m)
      OBVIOUS
    <3>1. b <= StackBase(r.vm) /\ MachineOK(r.vm) /\ Len(r.vm.eval) = m
      BY <2>3, SameBase DEF Stays, StepOK
    <3> QED
      BY <1>0, <3>1, BranchDoes
  <2>5. b + 0 <= Len(s.eval) => b + 0 <= m
    BY <1>0, OnStackNat
  <2> HIDE DEF r, q, m
  <2>6. r.ok => Does(s, q, b, 0, m)
    BY <2>2, <2>3, <2>4, <2>5, ThenDoes
  <2>7. ~ r.ok => Does(s, r, b, 0, m)
    BY <2>3, StaysIsDoes
  <2> QED
    BY <2>1, <2>2, <2>6, <2>7 DEF HandlerDoes
<1> QED
  BY <1>1, <1>2, <1>3

LEMMA HandlersDo ==
  ASSUME NEW s, MachineOK(s), NEW i, NEW x, Good(i, x), NEW b \in Nat, b <= StackBase(s)
  PROVE  HandlerDoes(s, i, x, b, step(s, i, x))
<1>1. i.op \in Opcodes
  BY InstrFields DEF Good
<1> QED
  BY <1>1, BranchingDoes, ReturningDoes, WritingDoes, CheckingDoes, PassingDoes DEF Opcodes

\* A whole instruction, operands included.
LEMMA VmStepDoes ==
  ASSUME NEW s, MachineOK(s), NEW i \in Instrs, NEW b \in Nat, b <= StackBase(s)
  PROVE  Does(s, vm_step(s, i), b, StackUse(i), Len(s.eval) + StackEffect(i))
<1> DEFINE r == resolve_operands(s, i)
           t == [r.vm EXCEPT !.pc = NextPc(s, i)]
           x == r.value
           q == step(t, i, x)
           n == Cardinality(StackOperands(i))
           v == StackUse(i)
           m == Len(s.eval) + StackEffect(i)
<1>1. vm_step(s, i) = IF r.ok THEN q ELSE r
  BY DEF vm_step, Then
<1>2. /\ n \in Nat /\ Stays(s, r, b, n, Len(s.eval) - n) /\ StepOK(r)
      /\ r.ok /\ Len(i.operands) >= 1 /\ i.operands[1].type = "constant" =>
           x[1] = i.operands[1].raw
  BY ResolveStays, ResolveOK
<1>3. v \in Nat /\ n <= v /\ m \in Int /\ Len(s.eval) \in Nat
  BY <1>2, Lengths DEF StackUse, StackEffect
<1>4. CASE r.ok
  <2>1. t.eval = r.vm.eval /\ t.frames = r.vm.frames /\ MachineOK(t)
    <3>1. s.pc + i.length \in Int
      BY Fields, InstrFields DEF Pc
    <3>2. NextPc(s, i) \in Pc
      BY <3>1, WrapOK DEF NextPc
    <3> QED
      BY <1>2, <3>2, SetPc, SetPcFields DEF StepOK
  <2>2. Good(i, x)
    BY <1>4, ResolveOK, InstrFields DEF Good
  <2>3. Uses(i, x) \in Nat /\ n + Uses(i, x) <= v
    <3>1. i.op \in {"store", "inc", "dec", "inc_chk", "dec_chk", "load", "pull"} =>
            Len(i.operands) >= 1
      BY InstrFields DEF Arity
    <3> DEFINE y == x[1]
               z == i.operands[1]
    <3>2. i.op \in {"store", "inc", "dec", "inc_chk", "dec_chk", "load", "pull"}
          /\ z.type = "constant" => y = z.raw
      BY <1>2, <1>4, <3>1
    <3> HIDE DEF y, z
    <3>3. OnStack(VarOf(y)) # 0 => VarOf(y) = 0
      BY DEF OnStack
    <3>4. i.op \in {"store", "inc", "dec", "inc_chk", "dec_chk", "load", "pull"}
          /\ OnStack(VarOf(y)) # 0 => MayNameStack(i)
      BY <3>2, <3>3 DEF MayNameStack, z
    <3>5. OnStack(VarOf(y)) \in 0 .. 1
      BY OnStackNat
    <3>6. Uses(i, x) =
            (IF i.op \in {"pop", "pull", "ret_popped"} THEN 1 ELSE 0)
              + (IF i.op \in {"store", "inc", "dec", "inc_chk", "dec_chk", "load", "pull"}
                 THEN OnStack(VarOf(y)) ELSE 0)
      BY DEF Uses, y
    <3>7. v = n + (IF i.op \in {"pop", "pull", "ret_popped"} THEN 1 ELSE 0)
                + (IF MayNameStack(i) THEN 1 ELSE 0)
      BY DEF StackUse
    <3> HIDE DEF x, n, v
    <3> QED
      BY <1>2, <3>4, <3>5, <3>6, <3>7
  <2>4. Len(t.eval) + Moved(i) = m
    <3>1. Len(t.eval) = Len(s.eval) - n
      BY <1>2, <1>4, <2>1 DEF Stays
    <3> DEFINE up == IF i.op = "push" THEN 1 ELSE 0
               st == IF i.op \in {"result", "result_branch", "load", "call"} /\ i.store = 0
                     THEN 1 ELSE 0
               dn == IF i.op \in {"pop", "pull"} THEN 1 ELSE 0
    <3>2. StackEffect(i) = up + st - dn - n
      BY DEF StackEffect
    <3>3. Moved(i) = up + st - dn
      BY DEF Moved, OnStack
    <3>4. up \in Int /\ st \in Int /\ dn \in Int
      OBVIOUS
    <3> HIDE DEF up, st, dn, n, t, r
    <3> QED
      BY <1>2, <1>3, <3>1, <3>2, <3>3, <3>4
  <2>5. Stays(s, Done(t), b, n, Len(s.eval) - n) /\ Done(t).ok /\ Done(t).vm = t
    BY <1>2, <1>4, <2>1, Results DEF Stays, StepOK
  <2>6. b <= StackBase(t)
    BY <2>5, SameBase DEF Stays
  <2>7. Does(t, q, b, Uses(i, x), m)
    BY <2>1, <2>2, <2>4, <2>6, HandlersDo DEF HandlerDoes
  <2>8. b + v <= Len(s.eval) => b + Uses(i, x) <= Len(s.eval) - n
    BY <1>2, <1>3, <2>3
  <2> HIDE DEF r, t, x, q, n, v, m
  <2>9. Len(s.eval) - n \in Int
    BY <1>2, <1>3
  <2>10. Does(s, q, b, v, m)
    BY <1>2, <1>3, <2>3, <2>5, <2>7, <2>8, <2>9, ThenDoes
  <2> QED
    BY <1>1, <1>4, <2>10 DEF v, m
<1>5. CASE ~ r.ok
  <2> HIDE DEF r, n, v, m
  <2>1. Does(s, r, b, v, m)
    BY <1>2, <1>3, <1>5, StaysDoes
  <2> QED
    BY <1>1, <1>5, <2>1 DEF v, m
<1> QED
  BY <1>4, <1>5

(* The steps.                                                              *)

Shape(s, t) == SameFrames(s.frames, t.frames) \/ Returns(s, t) \/ Calls(s, t)

\* What one instruction does to the stacks of the machine s.
Moves(s, t) ==
  /\ Shape(s, t)
  /\ StackDiscipline => KeepsWords(s.eval, t.eval, StackBase(s))

\* The program counter and the globals play no part in it.
LEMMA MovesStacks ==
  ASSUME NEW s, NEW t, NEW q, Moves(s, t), q.eval = t.eval, q.frames = t.frames
  PROVE  Moves(s, q)
BY DEF Moves, Shape, Returns, Calls

LEMMA OfferedMoves ==
  ASSUME TypeOK, NEW op \in Opcodes, NEW i \in Offered(op)
  PROVE  Moves(vm, vm_step(vm, i).vm)
<1> DEFINE r == vm_step(vm, i)
           b == StackBase(vm)
           u == StackUse(i)
           m == Len(vm.eval) + StackEffect(i)
<1>1. MachineOK(vm) /\ i \in Instrs /\ b \in Nat
  BY OfferedOK, BaseNat DEF TypeOK
<1>2. StackDiscipline => b + u <= Len(vm.eval)
  BY DEF Offered
<1>3. b <= StackBase(vm)
  BY <1>1
<1>4. Does(vm, r, b, u, m)
  BY <1>1, <1>3, VmStepDoes
<1> HIDE DEF r, u, m
<1>5. /\ Shape(vm, r.vm)
      /\ b + u <= Len(vm.eval) => KeepsWords(vm.eval, r.vm.eval, b)
  BY <1>4 DEF Does, Shape
<1> QED
  BY <1>2, <1>5 DEF Moves, r

\* Nothing moves when nothing happens.
LEMMA StillMoves ==
  ASSUME NEW s, MachineOK(s), NEW t, t.eval = s.eval, t.frames = s.frames,
         StackDiscipline => StackBase(s) <= Len(s.eval)
  PROVE  Moves(s, t)
<1>1. StackDiscipline => KeepsWords(s.eval, t.eval, StackBase(s))
  BY BaseNat, KeepsRefl, Fields
<1> QED
  BY <1>1, SameRefl DEF Moves, Shape

LEMMA QuitMoves ==
  ASSUME TypeOK, NEW op \in {"restart", "quit", "restore"}, NEW i \in Offered(op),
         vm' = [vm EXCEPT !.pc = NextPc(vm, i)]
  PROVE  Moves(vm, vm')
<1>1. MachineOK(vm) /\ i \in Instrs /\ Len(vm.eval) \in Nat /\ StackBase(vm) \in Nat
  BY OfferedOK, Lengths, BaseNat DEF TypeOK, Opcodes
<1>2. vm'.eval = vm.eval /\ vm'.frames = vm.frames
  BY <1>1, SetPcFields, NextPcOK
<1>3. StackUse(i) \in Nat
  BY <1>1, ResolveStays DEF StackUse
<1>4. StackDiscipline => StackBase(vm) + StackUse(i) <= Len(vm.eval)
  BY DEF Offered
<1>5. StackDiscipline => StackBase(vm) <= Len(vm.eval)
  BY <1>1, <1>3, <1>4
<1> QED
  BY <1>1, <1>2, <1>5, StillMoves

\* Every step but restore and restart.
LEMMA StepMoves ==
  ASSUME TypeOK, Execute \/ Save
  PROVE  Moves(vm, vm')
<1>1. CASE Execute /\ ~ Quit
  <2>1. PICK op \in Opcodes : Perform(op)
    BY <1>1 DEF Execute, Opcodes, Je, Jz, Test, Store, Result, ResultBranch,
      Inc, Dec, IncChk, DecChk, Load, Jump, Call, Ret, Rtrue, Rfalse,
      RetPopped, Pop, Push, Pull, PrintRet, Effect, ShowStatus, Bad
  <2>2. PICK i \in Offered(op) : vm' = vm_step(vm, i).vm
    BY <2>1 DEF Perform
  <2> QED
    BY <2>2, OfferedMoves
<1>2. CASE Save
  <2>1. PICK i \in Offered("save") :
          vm' = vm_step(vm, i).vm \/ vm' = [vm_step(vm, i).vm EXCEPT !.pc = NextPc(vm, i)]
    BY <1>2 DEF Save
  <2> DEFINE t == vm_step(vm, i).vm
  <2>2. Moves(vm, t)
    BY OfferedMoves DEF Opcodes
  <2>3. MachineOK(t)
    BY OfferedOK, VmStepOK DEF TypeOK, StepOK, Opcodes
  <2> HIDE DEF t
  <2>4. [t EXCEPT !.pc = NextPc(vm, i)].eval = t.eval
        /\ [t EXCEPT !.pc = NextPc(vm, i)].frames = t.frames
    BY <2>3, SetPcFields
  <2>5. vm' = t \/ vm' = [t EXCEPT !.pc = NextPc(vm, i)]
    BY <2>1 DEF t
  <2> QED
    BY <2>2, <2>4, <2>5, MovesStacks
<1>3. CASE Quit
  BY <1>3, QuitMoves DEF Quit
<1> QED
  BY <1>1, <1>2, <1>3 DEF Execute

\* What it leaves of the frames.
LEMMA SameBases ==
  ASSUME NEW f, NEW g, FramesOK(f), FramesOK(g), SameFrames(f, g)
  PROVE  Len(f) = Len(g) /\ \A k \in 1 .. Len(f) : g[k].stack_base = f[k].stack_base
<1>1. f \in Seq(Frame) /\ g \in Seq(Frame) /\ Len(f) \in Nat /\ Len(g) \in Nat
  BY DEF FramesOK
<1>2. /\ Len(g) = Len(f)
      /\ \A k \in 1 .. Len(f) - 1 : g[k] = f[k]
      /\ Len(f) # 0 => g[Len(g)].stack_base = f[Len(f)].stack_base
  BY DEF SameFrames, Last
<1> QED
  BY <1>1, <1>2

LEMMA FramesCut ==
  ASSUME NEW f, FramesOK(f), Len(f) # 0
  PROVE  /\ FramesOK(Front(f)) /\ Len(Front(f)) = Len(f) - 1
         /\ \A k \in 1 .. Len(f) - 1 : Front(f)[k] = f[k]
         /\ Last(f) = f[Len(f)]
BY FramesTop, FrontSeq DEF FramesOK, Last

LEMMA BasesNat ==
  ASSUME NEW f, FramesOK(f), NEW k \in 1 .. Len(f)
  PROVE  f[k].stack_base \in Nat
<1>1. f[k] \in Frame
  BY DEF FramesOK
<1>2. f[k].stack_base \in 0 .. EvalMax
  BY <1>1 DEF Frame
<1> QED
  BY <1>2, EvalMaxAssumption

\* Bases that rise from frame to frame, none above h.
Rising(f, h) ==
  /\ \A k \in 1 .. Len(f) : f[k].stack_base <= h
  /\ \A j, k \in 1 .. Len(f) : j <= k => f[j].stack_base <= f[k].stack_base

LEMMA RisingTop ==
  ASSUME NEW f, FramesOK(f), NEW h \in Nat, Rising(f, h), Len(f) # 0
  PROVE  Rising(f, Last(f).stack_base) /\ Last(f).stack_base <= h
<1>1. f \in Seq(Frame) /\ Len(f) \in Nat /\ Len(f) \in 1 .. Len(f) /\ Last(f) = f[Len(f)]
  BY DEF FramesOK, Last
<1> QED
  BY <1>1 DEF Rising

LEMMA RisingSame ==
  ASSUME NEW f, NEW g, FramesOK(f), FramesOK(g), SameFrames(f, g), NEW h, Rising(f, h)
  PROVE  Rising(g, h)
BY SameBases DEF Rising

LEMMA NestedMoves ==
  ASSUME StackDiscipline, NEW s, NEW t, MachineOK(s), MachineOK(t), Moves(s, t), Nested(s)
  PROVE  Nested(t)
<1> DEFINE f == s.frames
           g == t.frames
           b == StackBase(s)
           n == Len(t.eval)
<1>1. FramesOK(f) /\ FramesOK(g) /\ n \in Nat /\ Len(s.eval) \in Nat
      /\ Len(f) \in Nat /\ Len(g) \in Nat /\ b \in Nat
  BY Fields, Lengths, BaseNat
<1>2. b <= n
  BY DEF Moves, KeepsWords
<1>3. Rising(f, b) /\ (Len(f) = 0 => b = 0)
  <2>1. Rising(f, Len(s.eval))
    BY DEF Nested, Rising
  <2>2. CASE Len(f) # 0
    BY <1>1, <2>1, <2>2, RisingTop DEF StackBase
  <2>3. CASE Len(f) = 0
    BY <1>1, <2>3 DEF Rising, StackBase
  <2> QED
    BY <2>2, <2>3
<1>4. Rising(g, n) => Nested(t)
  BY DEF Rising, Nested
<1>5. ASSUME NEW e, FramesOK(e), Rising(e, b)
      PROVE  Rising(e, n)
  <2>1. \A k \in 1 .. Len(e) : e[k].stack_base \in Nat
    BY <1>5, BasesNat
  <2> HIDE DEF b, n
  <2> QED
    BY <1>1, <1>2, <1>5, <2>1 DEF Rising
<1>6. CASE SameFrames(f, g)
  BY <1>1, <1>3, <1>4, <1>5, <1>6, RisingSame
<1>7. CASE Returns(s, t)
  <2>1. Len(f) # 0 /\ SameFrames(Front(f), g)
    BY <1>7 DEF Returns
  <2>2. FramesOK(Front(f)) /\ Rising(Front(f), b)
    <3>1. /\ FramesOK(Front(f)) /\ Len(Front(f)) = Len(f) - 1
          /\ \A k \in 1 .. Len(f) - 1 : Front(f)[k] = f[k]
      BY <1>1, <2>1, FramesCut
    <3>2. Rising(f, b)
      BY <1>3
    <3> DEFINE e == Front(f)
    <3>3. \A k \in 1 .. Len(e) : k \in 1 .. Len(f) /\ e[k] = f[k]
      BY <1>1, <3>1
    <3> HIDE DEF e, f, b
    <3>4. Rising(e, b)
      BY <3>2, <3>3 DEF Rising
    <3> QED
      BY <3>1, <3>4 DEF e
  <2> QED
    BY <1>1, <1>4, <1>5, <2>1, <2>2, RisingSame
<1>8. CASE Calls(s, t)
  <2>1. Len(g) = Len(f) + 1 /\ SameFrames(f, Front(g)) /\ Last(g).stack_base = n
    BY <1>8 DEF Calls
  <2>2. /\ FramesOK(Front(g)) /\ Len(Front(g)) = Len(g) - 1
        /\ \A k \in 1 .. Len(g) - 1 : Front(g)[k] = g[k]
        /\ Last(g) = g[Len(g)]
    <3>1. FramesOK(g) /\ Len(g) # 0
      BY <1>1, <2>1
    <3> HIDE DEF g
    <3> QED
      BY <3>1, FramesCut
  <2>3. Rising(Front(g), n)
    BY <1>1, <1>3, <1>5, <2>1, <2>2, RisingSame
  <2> HIDE DEF f, g, n
  <2>4. \A k \in 1 .. Len(g) : g[k].stack_base <= n
    BY <1>1, <2>1, <2>2, <2>3 DEF Rising
  <2>5. ASSUME NEW j \in 1 .. Len(g), NEW k \in 1 .. Len(g), j <= k
        PROVE  g[j].stack_base <= g[k].stack_base
    BY <1>1, <2>1, <2>2, <2>3, <2>4, <2>5 DEF Rising
  <2> QED
    BY <1>4, <2>4, <2>5 DEF Rising, g, n
<1> QED
  BY <1>6, <1>7, <1>8 DEF Moves, Shape

\* Every instruction moves the top of the stack by what its operands, its
\* result and its opcode say, whichever of the primitives of
\* host/vm_state.c it goes through, unless it changes the active routine.
THEOREM StackCounts == Spec => []StackAccounting
<1>1. TypeOK => StackAccounting
  <2> SUFFICES ASSUME TypeOK, NEW i \in Instrs,
                      vm_step(vm, i).ok, Len(vm_step(vm, i).vm.frames) = Len(vm.frames)
               PROVE  Len(vm_step(vm, i).vm.eval) = Len(vm.eval) + StackEffect(i)
    BY DEF StackAccounting
  <2>1. MachineOK(vm) /\ 0 \in Nat /\ 0 <= StackBase(vm)
    BY BaseNat DEF TypeOK
  <2>2. Does(vm, vm_step(vm, i), 0, StackUse(i), Len(vm.eval) + StackEffect(i))
    BY <2>1, VmStepDoes
  <2> QED
    BY <2>2 DEF Does
<1> QED
  BY <1>1, TypeCorrect, PTL

\* One instruction changes the frame stack at its top only: it never touches
\* a frame that is not the running routine's or, on return, its caller's.
\* This holds whatever the story does to the evaluation stack.
THEOREM CallersKept == Spec => CallersIntact
<1>1. TypeOK /\ [Next]_vars =>
        [~ Reload =>
           LET deep == Len(vm.frames) - 2
           IN /\ Len(vm'.frames) \in Len(vm.frames) - 1 .. Len(vm.frames) + 1
              /\ deep > 0 => Prefix(vm'.frames, deep) = Prefix(vm.frames, deep)
              /\ Len(vm'.frames) >= Len(vm.frames) /\ deep >= 0 =>
                   Prefix(vm'.frames, deep + 1) = Prefix(vm.frames, deep + 1)]_vars
  <2> DEFINE f == vm.frames
             g == vm'.frames
             deep == Len(f) - 2
  <2> SUFFICES ASSUME TypeOK, Next, ~ Reload, TypeOK'
               PROVE  /\ Len(g) \in Len(f) - 1 .. Len(f) + 1
                      /\ deep > 0 => Prefix(g, deep) = Prefix(f, deep)
                      /\ Len(g) >= Len(f) /\ deep >= 0 =>
                           Prefix(g, deep + 1) = Prefix(f, deep + 1)
    BY NextOK
  <2>1. FramesOK(f) /\ FramesOK(g)
    BY Fields DEF TypeOK
  <2>2. Len(f) \in Nat /\ Len(g) \in Nat
    BY <2>1 DEF FramesOK
  <2>3. Shape(vm, vm')
    BY StepMoves DEF Next, Moves
  <2>4. /\ Len(g) \in Len(f) - 1 .. Len(f) + 1
        /\ \A k \in 1 .. Len(f) - 2 : k \in 1 .. Len(g) /\ g[k] = f[k]
        /\ Len(g) >= Len(f) =>
             \A k \in 1 .. Len(f) - 1 : k \in 1 .. Len(g) /\ g[k] = f[k]
    <3>1. CASE SameFrames(f, g)
      <4>1. Len(g) = Len(f) /\ \A k \in 1 .. Len(f) - 1 : g[k] = f[k]
        BY <3>1 DEF SameFrames
      <4> HIDE DEF f, g
      <4> QED
        BY <2>2, <4>1
    <3>2. CASE Returns(vm, vm')
      <4>1. Len(f) # 0 /\ SameFrames(Front(f), g)
        BY <3>2 DEF Returns
      <4>2. /\ FramesOK(Front(f)) /\ Len(Front(f)) = Len(f) - 1
            /\ \A k \in 1 .. Len(f) - 1 : Front(f)[k] = f[k]
        BY <2>1, <4>1, FramesCut
      <4> HIDE DEF f, g
      <4> QED
        BY <2>2, <4>1, <4>2 DEF SameFrames
    <3>3. CASE Calls(vm, vm')
      <4>1. Len(g) = Len(f) + 1 /\ SameFrames(f, Front(g))
        BY <3>3 DEF Calls
      <4>2. /\ FramesOK(Front(g)) /\ Len(Front(g)) = Len(g) - 1
            /\ \A k \in 1 .. Len(g) - 1 : Front(g)[k] = g[k]
        <5>1. FramesOK(g) /\ Len(g) # 0
          BY <2>1, <2>2, <4>1
        <5> HIDE DEF g
        <5> QED
          BY <5>1, FramesCut
      <4> HIDE DEF f, g
      <4> QED
        BY <2>2, <4>1, <4>2 DEF SameFrames
    <3> QED
      BY <2>3, <3>1, <3>2, <3>3 DEF Shape
  <2> HIDE DEF f, g
  <2>5. ASSUME NEW n \in Nat, \A k \in 1 .. n : k \in 1 .. Len(g) /\ g[k] = f[k],
               n <= Len(f), n <= Len(g)
        PROVE  Prefix(g, n) = Prefix(f, n)
    BY <2>1, <2>5 DEF FramesOK, Prefix
  <2>6. ASSUME deep > 0
        PROVE  Prefix(g, deep) = Prefix(f, deep)
    <3>1. deep \in Nat /\ deep <= Len(f) /\ deep <= Len(g)
      BY <2>2, <2>4, <2>6
    <3>2. \A k \in 1 .. deep : k \in 1 .. Len(g) /\ g[k] = f[k]
      BY <2>4
    <3> HIDE DEF deep
    <3> QED
      BY <2>5, <3>1, <3>2
  <2>7. ASSUME Len(g) >= Len(f), deep >= 0
        PROVE  Prefix(g, deep + 1) = Prefix(f, deep + 1)
    <3> DEFINE n == deep + 1
    <3>1. n \in Nat /\ n <= Len(f) /\ n <= Len(g) /\ n = Len(f) - 1
      BY <2>2, <2>7
    <3>2. \A k \in 1 .. n : k \in 1 .. Len(g) /\ g[k] = f[k]
      BY <2>4, <2>7, <3>1
    <3> HIDE DEF n
    <3>3. Prefix(g, n) = Prefix(f, n)
      BY <2>5, <3>1, <3>2
    <3> QED
      BY <3>3 DEF n
  <2> QED
    BY <2>4, <2>6, <2>7
<1> QED
  BY <1>1, TypeCorrect, PTL DEF Spec, CallersIntact

LEMMA InitialVmNested == Nested(InitialVm)
BY DEF Nested, InitialVm

\* Where the machine of the next state comes from, and its saved copy.
LEMMA NextMoves ==
  ASSUME TypeOK, [Next]_vars
  PROVE  /\ \/ vm' \in {vm, InitialVm}
            \/ slot # NoSave /\ vm' = slot
            \/ Moves(vm, vm')
         /\ slot' \in {slot, NoSave, vm'}
<1>1. CASE Execute \/ Save
  <2>1. Execute => slot' = slot
    BY DEF Execute, Perform, Je, Jz, Test, Store, Result, ResultBranch, Inc,
      Dec, IncChk, DecChk, Load, Jump, Call, Ret, Rtrue, Rfalse, RetPopped, Pop,
      Push, Pull, PrintRet, Effect, ShowStatus, Bad, Quit
  <2>2. Save => slot' \in {slot, NoSave, vm'}
    BY DEF Save
  <2> QED
    BY <1>1, <2>1, <2>2, StepMoves
<1>2. CASE Restore
  <2>1. PICK i \in Offered("restore") :
          \/ slot # NoSave /\ vm' = slot
          \/ vm' = [vm EXCEPT !.pc = NextPc(vm, i)]
    BY <1>2 DEF Restore
  <2> QED
    BY <1>2, <2>1, QuitMoves DEF Restore
<1>3. CASE Restart
  <2>1. PICK i \in Offered("restart") :
          \/ vm' = InitialVm
          \/ vm' = [vm EXCEPT !.pc = NextPc(vm, i)]
    BY <1>3 DEF Restart
  <2> QED
    BY <1>3, <2>1, QuitMoves DEF Restart
<1>4. CASE UNCHANGED vars
  BY <1>4 DEF vars
<1> QED
  BY <1>1, <1>2, <1>3, <1>4 DEF Next, Reload

\* The frames of host/vm_state.c cut the evaluation stack into nested
\* segments, in the running machine and in the saved copy, whatever calls,
\* returns, saves and restores a story executes: the base that a return
\* truncates to never lies above the top, nor under its own caller's, as long
\* as no routine takes words that are not its own.
THEOREM FramesStayNested ==
  ASSUME StackDiscipline
  PROVE  Spec => []FramesNested
<1>1. Init => FramesNested
  BY InitialVmNested DEF Init, FramesNested
<1>2. TypeOK /\ TypeOK' /\ FramesNested /\ [Next]_vars => FramesNested'
  <2> SUFFICES ASSUME TypeOK, TypeOK', FramesNested, [Next]_vars
               PROVE  FramesNested'
    OBVIOUS
  <2>1. MachineOK(vm) /\ MachineOK(vm') /\ Nested(vm) /\ (slot # NoSave => Nested(slot))
    BY DEF TypeOK, FramesNested
  <2>2. Nested(vm')
    BY <2>1, NextMoves, NestedMoves, InitialVmNested
  <2>3. slot' \in {slot, NoSave, vm'}
    BY NextMoves
  <2> QED
    BY <2>1, <2>2, <2>3 DEF FramesNested
<1> QED
  BY <1>1, <1>2, TypeCorrect, PTL DEF Spec

\* A routine never loses a word of its callers, and starts with the whole
\* stack for them: no step of one moves or changes anything under its base,
\* the returning step included, as long as it keeps to what it pushed itself.
THEOREM CallerStackKept ==
  ASSUME StackDiscipline
  PROVE  Spec => CallerStackIntact
<1>1. TypeOK /\ TypeOK' /\ FramesNested /\ [Next]_vars =>
        [~ Reload =>
           /\ Len(vm'.eval) >= StackBase(vm)
           /\ Prefix(vm'.eval, StackBase(vm)) = Prefix(vm.eval, StackBase(vm))
           /\ Len(vm'.frames) > Len(vm.frames) => StackBase(vm') = Len(vm'.eval)]_vars
  <2> DEFINE e == vm.eval
             d == vm'.eval
             b == StackBase(vm)
             f == vm.frames
             g == vm'.frames
  <2> SUFFICES ASSUME TypeOK, TypeOK', FramesNested, Next, ~ Reload
               PROVE  /\ Len(d) >= b /\ Prefix(d, b) = Prefix(e, b)
                      /\ Len(g) > Len(f) => StackBase(vm') = Len(d)
    OBVIOUS
  <2>1. MachineOK(vm) /\ MachineOK(vm') /\ b \in Nat /\ e \in Seq(Word) /\ d \in Seq(Word)
        /\ FramesOK(f) /\ FramesOK(g) /\ Len(f) \in Nat /\ Len(g) \in Nat
    BY BaseNat, Fields, Lengths DEF TypeOK
  <2>2. Moves(vm, vm')
    BY StepMoves DEF Next
  <2>3. Len(d) >= b /\ \A k \in 1 .. b : d[k] = e[k]
    BY <2>2 DEF Moves, KeepsWords
  <2>4. b <= Len(e)
    <3>1. CASE Len(f) # 0
      <4>1. Last(f) = f[Len(f)] /\ Len(f) \in 1 .. Len(f)
        BY <2>1, <3>1 DEF Last
      <4> QED
        BY <3>1, <4>1 DEF FramesNested, Nested, StackBase
    <3>2. CASE Len(f) = 0
      BY <2>1, <3>2 DEF StackBase
    <3> QED
      BY <3>1, <3>2
  <2>5. Prefix(d, b) = Prefix(e, b)
    <3> HIDE DEF e, d, b
    <3> QED
      BY <2>1, <2>3, <2>4 DEF Prefix
  <2>6. Len(g) > Len(f) => StackBase(vm') = Len(d)
    <3> SUFFICES ASSUME Len(g) > Len(f)
                 PROVE  StackBase(vm') = Len(d)
      OBVIOUS
    <3>1. ~ SameFrames(f, g)
      BY <2>1 DEF SameFrames
    <3>2. ~ Returns(vm, vm')
      <4> SUFFICES ASSUME Returns(vm, vm')
                   PROVE  FALSE
        OBVIOUS
      <4>1. Len(f) # 0 /\ Len(g) = Len(Front(f))
        BY DEF Returns, SameFrames
      <4> QED
        BY <2>1, <4>1, FramesCut
    <3>3. Calls(vm, vm')
      BY <2>2, <3>1, <3>2 DEF Moves, Shape
    <3> QED
      BY <2>1, <3>3 DEF Calls, StackBase
  <2> QED
    BY <2>3, <2>5, <2>6
<1> QED
  BY <1>1, TypeCorrect, FramesStayNested, PTL DEF Spec, CallerStackIntact
=============================================================================
