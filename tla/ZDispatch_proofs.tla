-------------------------- MODULE ZDispatch_proofs --------------------------
(***************************************************************************)
(* The port's machine stays in its bounds, for every width, number of      *)
(* banks, stack size and set of instructions: each routine of the stack,   *)
(* the variables and the dispatcher keeps a well-formed machine (Kept),    *)
(* and most of them leave the program counter alone (Quiet).  Before that, *)
(* two pieces of arithmetic: the signed comparison, and addresses kept as  *)
(* a bank and an offset.                                                   *)
(***************************************************************************)
EXTENDS ZDispatch, SequenceTheorems, TLAPS

\* Flipping the sign bits turns the signed order into the unsigned one, for
\* words of different sign as well.
THEOREM SltIsSigned ==
  ASSUME NEW a \in Word, NEW b \in Word
  PROVE  zdisp_slt(a, b) <=> Signed(a) < Signed(b)
<1>1. PICK h \in Nat : WordMod = 2 * h /\ WordMod \div 2 = h
  BY WordModAssumption
<1>2. ASSUME NEW w \in Word PROVE Biased(w) = Signed(w) + h
  <2>1. CASE w < h
    <3>1. w + h < WordMod /\ (w + h) % WordMod = w + h
      BY <1>1, <2>1 DEF Word
    <3> QED
      BY <1>1, <2>1, <3>1 DEF Biased, Signed, Word
  <2>2. CASE w >= h
    <3>1. (w + h) % WordMod = w + h - WordMod
      BY <1>1, <2>2, WordModAssumption DEF Word
    <3> QED
      BY <1>1, <2>2, <3>1 DEF Biased, Signed, Word
  <2> QED
    BY <2>1, <2>2, <1>1 DEF Word
<1>3. Signed(a) \in Int /\ Signed(b) \in Int
  BY WordModAssumption DEF Signed, Word
<1> QED
  BY <1>2, <1>3 DEF zdisp_slt

LEMMA Division ==
  ASSUME NEW t \in Int, NEW n \in Nat \ {0}
  PROVE  t \div n \in Int /\ t % n \in 0 .. n - 1 /\ t = n * (t \div n) + (t % n)
OBVIOUS

\* The address in one number.
Flat(bank, offset) == bank * WordMod + offset

\* Adding to a banked address is adding to the address, backwards as well,
\* around the end of the last bank.
THEOREM BankedIsFlat ==
  ASSUME NEW bank \in 0 .. Banks - 1, NEW offset \in Word, NEW delta \in Word
  PROVE  LET to == zwide_add_signed(bank, offset, delta)
         IN  /\ to.offset \in Word /\ to.bank \in 0 .. Banks - 1
             /\ \E turns \in Int :
                  Flat(to.bank, to.offset) =
                    Flat(bank, offset) + Signed(delta) + turns * (Banks * WordMod)
<1> DEFINE sum == offset + Signed(delta)
           q == sum \div WordMod
           r == sum % WordMod
           t == bank + q
           tq == t \div Banks
           tr == t % Banks
<1>0. WordMod \in Nat \ {0} /\ Banks \in Nat \ {0}
  BY WordModAssumption, BanksAssumption
<1>1. sum \in Int
  BY <1>0 DEF Signed, Word
<1>2. q \in Int /\ r \in Word /\ sum = WordMod * q + r
  BY <1>0, <1>1, Division DEF Word
<1>3. t \in Int
  BY <1>2
<1>4. tq \in Int /\ tr \in 0 .. Banks - 1 /\ t = Banks * tq + tr
  BY <1>0, <1>3, Division
<1>5. /\ zwide_add_signed(bank, offset, delta).offset = r
      /\ zwide_add_signed(bank, offset, delta).bank = tr
  BY DEF zwide_add_signed
<1> HIDE DEF sum, q, r, t, tq, tr
<1>6. tr = bank + q - Banks * tq
  BY <1>2, <1>3, <1>4, <1>0 DEF t
<1>7. Flat(tr, r) = Flat(bank, offset) + Signed(delta) + (- tq) * (Banks * WordMod)
  <2>1. tr * WordMod = bank * WordMod + q * WordMod - tq * (Banks * WordMod)
    BY <1>6, <1>0, <1>2, <1>4
  <2>2. Signed(delta) \in Int /\ sum = offset + Signed(delta)
    BY <1>0 DEF Signed, Word, sum
  <2> QED
    BY <2>1, <2>2, <1>0, <1>1, <1>2, <1>4 DEF Flat, Word
<1> QED
  BY <1>2, <1>4, <1>5, <1>7

-----------------------------------------------------------------------------
(* The port's machine keeps its shape: its fields, and what may be put     *)
(* into each.                                                              *)

ZFramesOK(f) ==
  /\ f \in Seq(ZFrame)
  /\ Len(f) <= FrameMax
  /\ \A k \in 1 .. Len(f) : Len(f[k].locals) <= LocalLimit

ZMemOK(e) == e \in Seq(Word) /\ Len(e) = EvalMax

LEMMA ZFields ==
  ASSUME NEW s, ZMachineOK(s)
  PROVE  /\ ZMemOK(s.zsmem) /\ s.zsptr \in 0 .. EvalMax /\ ZFramesOK(s.frames)
         /\ s.globals \in [Globals -> Word] /\ s.zdisp_pc \in Word /\ s.zdisp_pc_bank \in Bank
         /\ s.zdisp_value \in Word /\ s.zdisp_value2 \in Word /\ s.astray \in BOOLEAN
         /\ s \in ZMachine
BY DEF ZMachineOK, ZMachine, ZFramesOK, ZMemOK

LEMMA PutStack ==
  ASSUME NEW s, ZMachineOK(s), NEW e, ZMemOK(e), NEW p \in 0 .. EvalMax
  PROVE  ZMachineOK([s EXCEPT !.zsmem = e, !.zsptr = p])
BY DEF ZMachineOK, ZMachine, ZMemOK

LEMMA PutPtr ==
  ASSUME NEW s, ZMachineOK(s), NEW p \in 0 .. EvalMax
  PROVE  ZMachineOK([s EXCEPT !.zsptr = p])
BY DEF ZMachineOK, ZMachine

LEMMA PutMem ==
  ASSUME NEW s, ZMachineOK(s), NEW e, ZMemOK(e)
  PROVE  ZMachineOK([s EXCEPT !.zsmem = e])
BY DEF ZMachineOK, ZMachine, ZMemOK

LEMMA PutFrames ==
  ASSUME NEW s, ZMachineOK(s), NEW f, ZFramesOK(f)
  PROVE  ZMachineOK([s EXCEPT !.frames = f])
BY DEF ZMachineOK, ZMachine, ZFramesOK

LEMMA PutPopped ==
  ASSUME NEW s, ZMachineOK(s), NEW f, ZFramesOK(f), NEW p \in 0 .. EvalMax, NEW a \in BOOLEAN
  PROVE  ZMachineOK([s EXCEPT !.frames = f, !.zsptr = p, !.astray = a])
BY DEF ZMachineOK, ZMachine, ZFramesOK

LEMMA PutGlobals ==
  ASSUME NEW s, ZMachineOK(s), NEW g \in [Globals -> Word]
  PROVE  ZMachineOK([s EXCEPT !.globals = g])
BY DEF ZMachineOK, ZMachine

LEMMA PutPc ==
  ASSUME NEW s, ZMachineOK(s), NEW p \in Word, NEW b \in Bank
  PROVE  ZMachineOK([s EXCEPT !.zdisp_pc = p, !.zdisp_pc_bank = b])
BY DEF ZMachineOK, ZMachine

LEMMA PutJump ==
  ASSUME NEW s, ZMachineOK(s), NEW p \in Word, NEW b \in Bank, NEW a \in BOOLEAN
  PROVE  ZMachineOK([s EXCEPT !.zdisp_pc = p, !.zdisp_pc_bank = b, !.astray = a])
BY DEF ZMachineOK, ZMachine

LEMMA PutValue ==
  ASSUME NEW s, ZMachineOK(s), NEW v \in Word
  PROVE  ZMachineOK([s EXCEPT !.zdisp_value = v])
BY DEF ZMachineOK, ZMachine

LEMMA PutValue2 ==
  ASSUME NEW s, ZMachineOK(s), NEW v \in Word
  PROVE  ZMachineOK([s EXCEPT !.zdisp_value2 = v])
BY DEF ZMachineOK, ZMachine

LEMMA PutScratch ==
  ASSUME NEW s, ZMachineOK(s), NEW v \in Word, NEW w \in Word
  PROVE  ZMachineOK([s EXCEPT !.zdisp_value = v, !.zdisp_value2 = w])
BY DEF ZMachineOK, ZMachine

-----------------------------------------------------------------------------
(* Sequences, words and instructions.                                      *)

LEMMA AppendSeq ==
  ASSUME NEW S, NEW q \in Seq(S), NEW e \in S
  PROVE  /\ Append(q, e) \in Seq(S) /\ Len(Append(q, e)) = Len(q) + 1
         /\ \A k \in 1 .. Len(q) : Append(q, e)[k] = q[k]
         /\ Append(q, e)[Len(q) + 1] = e
OBVIOUS

LEMMA PrefixSeq ==
  ASSUME NEW S, NEW q \in Seq(S), NEW n \in 0 .. Len(q)
  PROVE  /\ Prefix(q, n) \in Seq(S) /\ Len(Prefix(q, n)) = n
         /\ \A k \in 1 .. n : Prefix(q, n)[k] = q[k]
BY DEF Prefix

LEMMA FrontSeq ==
  ASSUME NEW S, NEW q \in Seq(S), Len(q) # 0
  PROVE  /\ Front(q) \in Seq(S) /\ Len(Front(q)) = Len(q) - 1
         /\ Last(q) \in S /\ Last(q) = q[Len(q)]
         /\ \A k \in 1 .. Len(q) - 1 : Front(q)[k] = q[k]
<1>1. Last(q) \in S /\ Last(q) = q[Len(q)]
  BY DEF Last
<1>2. Front(q) = Prefix(q, Len(q) - 1)
  BY DEF Front, Prefix
<1>3. Len(q) - 1 \in 0 .. Len(q)
  OBVIOUS
<1> QED
  BY <1>1, <1>2, <1>3, PrefixSeq

LEMMA WithTopSeq ==
  ASSUME NEW S, NEW q \in Seq(S), NEW e \in S, Len(q) # 0
  PROVE  /\ WithTop(q, e) \in Seq(S) /\ Len(WithTop(q, e)) = Len(q)
         /\ \A k \in 1 .. Len(q) : WithTop(q, e)[k] = IF k = Len(q) THEN e ELSE q[k]
BY DEF WithTop

LEMMA Results ==
  ASSUME NEW s, NEW v
  PROVE  /\ Value(s, v).ok /\ Value(s, v).vm = s /\ Value(s, v).value = v
         /\ Done(s).ok /\ Done(s).vm = s /\ Done(s).value = 0
         /\ ~ Fail(s).ok /\ Fail(s).vm = s /\ Fail(s).value = 0
BY DEF Value, Done, Fail

LEMMA WordWrapOK ==
  ASSUME NEW w \in Int
  PROVE  w % WordMod \in Word /\ w \div WordMod \in Int
BY WordModAssumption DEF Word

LEMMA BankWrapOK ==
  ASSUME NEW b \in Int
  PROVE  b % Banks \in Bank
BY BanksAssumption DEF Bank

LEMMA BankWord == Bank \subseteq Word
BY BankAssumption, BanksAssumption, ByteModAssumption, WordModAssumption DEF Bank, Word

LEMMA VarOfOK ==
  ASSUME NEW w \in Word
  PROVE  VarOf(w) \in Var
BY ByteModAssumption, WordModAssumption DEF Word, Var, VarOf

LEMMA SignedInt ==
  ASSUME NEW w \in Word
  PROVE  Signed(w) \in Int
BY WordModAssumption DEF Word, Signed

LEMMA SmallWords == 0 \in Word /\ 1 \in Word
BY WordModAssumption DEF Word

LEMMA ArityNat == \A op \in Opcodes : Arity(op) \in 0 .. 2
BY DEF Arity

LEMMA InstrFields ==
  ASSUME NEW i \in Instrs
  PROVE  /\ i.op \in Opcodes /\ i.operands \in Seq(Operand)
         /\ Len(i.operands) \in 0 .. 4 /\ Len(i.operands) >= Arity(i.op)
         /\ i.store \in Var /\ i.offset \in Int /\ i.length \in Nat
         /\ i.result \in Word
<1>1. i \in Instr /\ Len(i.operands) \in Arity(i.op) .. MaxOperands
  BY InstrsAssumption
<1>2. i.op \in Opcodes /\ i.length \in Nat
  BY <1>1, WordModAssumption DEF Instr, Word
<1> DEFINE n == Len(i.operands)
           a == Arity(i.op)
<1>3. n \in a .. 4 /\ a \in 0 .. 2
  BY <1>1, <1>2, ArityNat DEF MaxOperands
<1>4. n \in 0 .. 4 /\ n >= a
  <2> HIDE DEF n, a
  <2> QED
    BY <1>3
<1> QED
  BY <1>1, <1>2, <1>4 DEF Instr

-----------------------------------------------------------------------------
(* What a routine may leave behind, whether it succeeds or fails: a         *)
(* machine, and astray if it was before.  The stack and variable routines   *)
(* leave program counter and scratch words alone.                          *)

Kept(s, r) == ZMachineOK(r.vm) /\ (s.astray => r.vm.astray)

Quiet(s, r) ==
  /\ Kept(s, r)
  /\ r.vm.zdisp_pc = s.zdisp_pc /\ r.vm.zdisp_pc_bank = s.zdisp_pc_bank
  /\ r.vm.zdisp_value = s.zdisp_value /\ r.vm.zdisp_value2 = s.zdisp_value2

LEMMA Unchanged ==
  ASSUME NEW s, ZMachineOK(s), NEW v
  PROVE  Quiet(s, Fail(s)) /\ Quiet(s, Done(s)) /\ Quiet(s, Value(s, v))
BY Results DEF Quiet, Kept

LEMMA ZPushOK ==
  ASSUME NEW s, ZMachineOK(s), NEW v \in Word
  PROVE  Quiet(s, zstack_push(s, v))
<1>1. CASE s.zsptr + 1 > EvalMax
  BY <1>1, Unchanged DEF zstack_push
<1>2. CASE ~ (s.zsptr + 1 > EvalMax)
  <2> DEFINE e == [s.zsmem EXCEPT ![s.zsptr + 1] = v]
             p == s.zsptr + 1
             t == [s EXCEPT !.zsmem = e, !.zsptr = p]
  <2>1. ZMemOK(e) /\ p \in 0 .. EvalMax
    <3>1. s.zsmem \in Seq(Word) /\ Len(s.zsmem) = EvalMax /\ p \in 1 .. EvalMax
      BY <1>2, ZFields, EvalMaxAssumption DEF ZMemOK
    <3> HIDE DEF p
    <3>2. [s.zsmem EXCEPT ![p] = v] \in Seq(Word) /\ Len([s.zsmem EXCEPT ![p] = v]) = EvalMax
      BY <3>1, ExceptSeq
    <3> QED
      BY <3>1, <3>2 DEF ZMemOK, p
  <2>2. zstack_push(s, v) = Done(t)
    BY <1>2 DEF zstack_push
  <2> HIDE DEF e, p
  <2>3. ZMachineOK(t)
    <3>1. ZMachineOK([s EXCEPT !.zsmem = e, !.zsptr = p])
      BY <2>1, PutStack, Zenon
    <3> QED
      BY <3>1
  <2>4. /\ t.astray = s.astray /\ t.zdisp_pc = s.zdisp_pc /\ t.zdisp_pc_bank = s.zdisp_pc_bank
        /\ t.zdisp_value = s.zdisp_value /\ t.zdisp_value2 = s.zdisp_value2
    BY ZFields DEF ZMachine
  <2> HIDE DEF t
  <2> QED
    BY <2>2, <2>3, <2>4, Results DEF Quiet, Kept
<1> QED
  BY <1>1, <1>2

LEMMA ZPopOK ==
  ASSUME NEW s, ZMachineOK(s)
  PROVE  Quiet(s, zstack_pop(s)) /\ (zstack_pop(s).ok => zstack_pop(s).value \in Word)
<1>1. CASE s.zsptr = 0
  BY <1>1, Unchanged, Results DEF zstack_pop
<1>2. CASE s.zsptr # 0
  <2> DEFINE p == s.zsptr - 1
             t == [s EXCEPT !.zsptr = p]
             w == s.zsmem[s.zsptr]
  <2>1. p \in 0 .. EvalMax /\ w \in Word
    BY <1>2, ZFields, EvalMaxAssumption DEF ZMemOK
  <2>2. zstack_pop(s) = Value(t, w)
    BY <1>2 DEF zstack_pop
  <2> HIDE DEF p, w
  <2>3. ZMachineOK(t)
    <3>1. ZMachineOK([s EXCEPT !.zsptr = p])
      BY <2>1, PutPtr
    <3> QED
      BY <3>1
  <2>4. /\ t.astray = s.astray /\ t.zdisp_pc = s.zdisp_pc /\ t.zdisp_pc_bank = s.zdisp_pc_bank
        /\ t.zdisp_value = s.zdisp_value /\ t.zdisp_value2 = s.zdisp_value2
    BY ZFields DEF ZMachine
  <2> HIDE DEF t
  <2> QED
    BY <2>1, <2>2, <2>3, <2>4, Results DEF Quiet, Kept
<1> QED
  BY <1>1, <1>2

LEMMA ZFramesTop ==
  ASSUME NEW f, ZFramesOK(f), Len(f) # 0
  PROVE  ZFramesOK(Front(f)) /\ Last(f) \in ZFrame /\ Len(Last(f).locals) <= LocalLimit
<1>1. f \in Seq(ZFrame) /\ Len(f) \in Nat
  BY DEF ZFramesOK
<1>2. Last(f) \in ZFrame /\ Len(Last(f).locals) <= LocalLimit
  BY <1>1, FrontSeq DEF ZFramesOK, Last
<1>3. Front(f) \in Seq(ZFrame) /\ Len(Front(f)) = Len(f) - 1
  BY <1>1, FrontSeq
<1>4. \A k \in 1 .. Len(Front(f)) : Len(Front(f)[k].locals) <= LocalLimit
  <2> TAKE k \in 1 .. Len(Front(f))
  <2>1. k \in 1 .. Len(f) - 1
    BY <1>3
  <2>2. Front(f)[k] = f[k]
    BY <1>1, <2>1, FrontSeq
  <2>3. k \in 1 .. Len(f)
    BY <1>1, <2>1
  <2> QED
    BY <2>2, <2>3 DEF ZFramesOK
<1>5. Len(Front(f)) <= FrameMax
  BY <1>1, <1>3, FrameMaxAssumption DEF ZFramesOK
<1> QED
  BY <1>2, <1>3, <1>4, <1>5 DEF ZFramesOK

LEMMA ZFramesWithTop ==
  ASSUME NEW f, ZFramesOK(f), Len(f) # 0, NEW g \in ZFrame, Len(g.locals) <= LocalLimit
  PROVE  ZFramesOK(WithTop(f, g))
<1>1. f \in Seq(ZFrame) /\ Len(f) \in Nat
  BY DEF ZFramesOK
<1>2. WithTop(f, g) \in Seq(ZFrame) /\ Len(WithTop(f, g)) = Len(f)
  BY <1>1, WithTopSeq
<1>3. \A k \in 1 .. Len(f) : WithTop(f, g)[k] = IF k = Len(f) THEN g ELSE f[k]
  BY <1>1, WithTopSeq
<1> QED
  BY <1>1, <1>2, <1>3 DEF ZFramesOK

LEMMA ZFramePushOK ==
  ASSUME NEW s, ZMachineOK(s), NEW pc \in Word, NEW bank \in Bank, NEW v \in Var,
         NEW l \in Seq(Word)
  PROVE  Quiet(s, zvar_frame_push(s, pc, bank, v, l))
<1> DEFINE frame == [ return_pc |-> pc, return_pc_bank |-> bank, store_variable |-> v,
                      locals |-> l, stack_base |-> s.zsptr ]
           f == Append(s.frames, frame)
           t == [s EXCEPT !.frames = f]
<1>1. CASE Len(l) > LocalLimit \/ Len(s.frames) + 1 > FrameMax
  BY <1>1, Unchanged DEF zvar_frame_push
<1>2. CASE ~ (Len(l) > LocalLimit \/ Len(s.frames) + 1 > FrameMax)
  <2>1. frame \in ZFrame /\ Len(frame.locals) <= LocalLimit
    BY <1>2, ZFields, LocalLimitAssumption DEF ZFrame
  <2>2. s.frames \in Seq(ZFrame) /\ Len(s.frames) + 1 <= FrameMax
    BY <1>2, ZFields, FrameMaxAssumption DEF ZFramesOK
  <2>3. zvar_frame_push(s, pc, bank, v, l) = Done(t)
    BY <1>2 DEF zvar_frame_push
  <2> HIDE DEF frame
  <2>4. ZFramesOK(f)
    BY <2>1, <2>2, ZFields, AppendSeq DEF ZFramesOK
  <2> HIDE DEF f
  <2>5. ZMachineOK(t)
    BY <2>4, PutFrames
  <2>6. /\ t.astray = s.astray /\ t.zdisp_pc = s.zdisp_pc /\ t.zdisp_pc_bank = s.zdisp_pc_bank
        /\ t.zdisp_value = s.zdisp_value /\ t.zdisp_value2 = s.zdisp_value2
    BY ZFields DEF ZMachine
  <2> HIDE DEF t
  <2> QED
    BY <2>3, <2>5, <2>6, Results DEF Quiet, Kept
<1> QED
  BY <1>1, <1>2

LEMMA ZFramePopOK ==
  ASSUME NEW s, ZMachineOK(s)
  PROVE  /\ Quiet(s, zvar_frame_pop(s))
         /\ zvar_frame_pop(s).ok => zvar_frame_pop(s).value \in ZFrame
<1>1. CASE Len(s.frames) = 0
  BY <1>1, Unchanged, Results DEF zvar_frame_pop
<1>2. CASE Len(s.frames) # 0
  <2> DEFINE frame == Last(s.frames)
             f == Front(s.frames)
             p == frame.stack_base
             a == s.astray \/ s.zsptr < frame.stack_base
             t == [s EXCEPT !.frames = f, !.zsptr = p, !.astray = a]
  <2>1. ZFramesOK(f) /\ frame \in ZFrame
    BY <1>2, ZFields, ZFramesTop
  <2>2. p \in 0 .. EvalMax /\ a \in BOOLEAN /\ (s.astray => a)
    BY <2>1, ZFields DEF ZFrame
  <2>3. zvar_frame_pop(s) = Value(t, frame)
    BY <1>2 DEF zvar_frame_pop
  <2> HIDE DEF frame, f, p, a
  <2>4. ZMachineOK(t)
    <3>1. ZMachineOK([s EXCEPT !.frames = f, !.zsptr = p, !.astray = a])
      BY <2>1, <2>2, PutPopped, Zenon
    <3> QED
      BY <3>1
  <2>5. /\ t.astray = a /\ t.zdisp_pc = s.zdisp_pc /\ t.zdisp_pc_bank = s.zdisp_pc_bank
        /\ t.zdisp_value = s.zdisp_value /\ t.zdisp_value2 = s.zdisp_value2
    BY ZFields DEF ZMachine
  <2> HIDE DEF t
  <2> QED
    BY <2>1, <2>2, <2>3, <2>4, <2>5, Results DEF Quiet, Kept
<1> QED
  BY <1>1, <1>2

LEMMA LocalOrGlobalReadOK ==
  ASSUME NEW s, ZMachineOK(s), NEW v \in Var, v # 0
  PROVE  /\ Quiet(s, zv_local_or_global_read(s, v))
         /\ zv_local_or_global_read(s, v).ok => zv_local_or_global_read(s, v).value \in Word
<1>0. v \in Nat \ {0}
  BY ByteModAssumption DEF Var
<1>1. CASE v <= LocalLimit /\ HasLocal(s, v)
  <2>1. Last(s.frames) \in ZFrame
    BY <1>1, ZFields, ZFramesTop DEF HasLocal
  <2>2. Last(s.frames).locals[v] \in Word
    BY <1>0, <1>1, <2>1 DEF HasLocal, ZFrame
  <2> QED
    BY <1>1, <2>2, Unchanged, Results DEF zv_local_or_global_read
<1>2. CASE ~ (v <= LocalLimit) /\ v \in Globals
  <2>1. s.globals[v] \in Word
    BY <1>2, ZFields
  <2> QED
    BY <1>2, <2>1, Unchanged, Results DEF zv_local_or_global_read
<1>3. CASE ~ (v <= LocalLimit /\ HasLocal(s, v)) /\ ~ (~ (v <= LocalLimit) /\ v \in Globals)
  BY <1>3, Unchanged, Results DEF zv_local_or_global_read
<1> QED
  BY <1>1, <1>2, <1>3

LEMMA LocalOrGlobalWriteOK ==
  ASSUME NEW s, ZMachineOK(s), NEW v \in Var, v # 0, NEW w \in Word
  PROVE  Quiet(s, zv_local_or_global_write(s, v, w))
<1>0. v \in Nat \ {0}
  BY ByteModAssumption DEF Var
<1>1. CASE v <= LocalLimit /\ HasLocal(s, v)
  <2> DEFINE frame == Last(s.frames)
             locals == [frame.locals EXCEPT ![v] = w]
             g == [frame EXCEPT !.locals = locals]
             f == WithTop(s.frames, g)
             t == [s EXCEPT !.frames = f]
  <2>1. frame \in ZFrame /\ Len(frame.locals) <= LocalLimit /\ Len(s.frames) # 0
    BY <1>1, ZFields, ZFramesTop DEF HasLocal
  <2>2. locals \in Seq(Word) /\ Len(locals) = Len(frame.locals)
    <3>1. frame.locals \in Seq(Word)
      BY <2>1 DEF ZFrame
    <3>2. v \in 1 .. Len(frame.locals)
      BY <1>0, <1>1, <3>1 DEF HasLocal
    <3> HIDE DEF frame
    <3> QED
      BY <3>1, <3>2, ExceptSeq
  <2>3. zv_local_or_global_write(s, v, w) = Done(t)
    BY <1>1 DEF zv_local_or_global_write
  <2>4. g \in ZFrame /\ Len(g.locals) <= LocalLimit
    <3> HIDE DEF frame, locals
    <3> QED
      BY <2>1, <2>2 DEF ZFrame
  <2> HIDE DEF frame, locals, g
  <2>5. ZFramesOK(f)
    BY <2>1, <2>4, ZFields, ZFramesWithTop
  <2> HIDE DEF f
  <2>6. ZMachineOK(t)
    BY <2>5, PutFrames
  <2>7. /\ t.astray = s.astray /\ t.zdisp_pc = s.zdisp_pc /\ t.zdisp_pc_bank = s.zdisp_pc_bank
        /\ t.zdisp_value = s.zdisp_value /\ t.zdisp_value2 = s.zdisp_value2
    BY ZFields DEF ZMachine
  <2> HIDE DEF t
  <2> QED
    BY <2>3, <2>6, <2>7, Results DEF Quiet, Kept
<1>2. CASE ~ (v <= LocalLimit) /\ v \in Globals
  <2> DEFINE g == [s.globals EXCEPT ![v] = w]
             t == [s EXCEPT !.globals = g]
  <2>1. g \in [Globals -> Word]
    BY ZFields
  <2>2. zv_local_or_global_write(s, v, w) = Done(t)
    BY <1>2 DEF zv_local_or_global_write
  <2> HIDE DEF g
  <2>3. ZMachineOK(t)
    BY <2>1, PutGlobals
  <2>4. /\ t.astray = s.astray /\ t.zdisp_pc = s.zdisp_pc /\ t.zdisp_pc_bank = s.zdisp_pc_bank
        /\ t.zdisp_value = s.zdisp_value /\ t.zdisp_value2 = s.zdisp_value2
    BY ZFields DEF ZMachine
  <2> HIDE DEF t
  <2> QED
    BY <2>2, <2>3, <2>4, Results DEF Quiet, Kept
<1>3. CASE ~ (v <= LocalLimit /\ HasLocal(s, v)) /\ ~ (~ (v <= LocalLimit) /\ v \in Globals)
  BY <1>3, Unchanged DEF zv_local_or_global_write
<1> QED
  BY <1>1, <1>2, <1>3

LEMMA ZReadOK ==
  ASSUME NEW s, ZMachineOK(s), NEW v \in Var
  PROVE  /\ Quiet(s, zvar_read(s, v))
         /\ zvar_read(s, v).ok => zvar_read(s, v).value \in Word
BY ZPopOK, LocalOrGlobalReadOK DEF zvar_read

LEMMA ZWriteOK ==
  ASSUME NEW s, ZMachineOK(s), NEW v \in Var, NEW w \in Word
  PROVE  Quiet(s, zvar_write(s, v, w))
BY ZPushOK, LocalOrGlobalWriteOK DEF zvar_write

LEMMA ZReadIndirectOK ==
  ASSUME NEW s, ZMachineOK(s), NEW v \in Var
  PROVE  /\ Quiet(s, zvar_read_indirect(s, v))
         /\ zvar_read_indirect(s, v).ok => zvar_read_indirect(s, v).value \in Word
<1>1. s.zsptr # 0 => s.zsmem[s.zsptr] \in Word
  BY ZFields, EvalMaxAssumption DEF ZMemOK
<1> QED
  BY <1>1, LocalOrGlobalReadOK, Unchanged, Results DEF zvar_read_indirect

LEMMA ZWriteIndirectOK ==
  ASSUME NEW s, ZMachineOK(s), NEW v \in Var, NEW w \in Word
  PROVE  Quiet(s, zvar_write_indirect(s, v, w))
<1>1. CASE v # 0
  BY <1>1, LocalOrGlobalWriteOK DEF zvar_write_indirect
<1>2. CASE v = 0 /\ s.zsptr = 0
  BY <1>2, Unchanged DEF zvar_write_indirect
<1>3. CASE v = 0 /\ s.zsptr # 0
  <2> DEFINE e == [s.zsmem EXCEPT ![s.zsptr] = w]
             t == [s EXCEPT !.zsmem = e]
  <2>1. ZMemOK(e)
    <3>1. s.zsmem \in Seq(Word) /\ Len(s.zsmem) = EvalMax /\ s.zsptr \in 1 .. EvalMax
      BY <1>3, ZFields, EvalMaxAssumption DEF ZMemOK
    <3> QED
      BY <3>1, ExceptSeq DEF ZMemOK
  <2>2. zvar_write_indirect(s, v, w) = Done(t)
    BY <1>3 DEF zvar_write_indirect
  <2> HIDE DEF e
  <2>3. ZMachineOK(t)
    BY <2>1, PutMem
  <2>4. /\ t.astray = s.astray /\ t.zdisp_pc = s.zdisp_pc /\ t.zdisp_pc_bank = s.zdisp_pc_bank
        /\ t.zdisp_value = s.zdisp_value /\ t.zdisp_value2 = s.zdisp_value2
    BY ZFields DEF ZMachine
  <2> HIDE DEF t
  <2> QED
    BY <2>2, <2>3, <2>4, Results DEF Quiet, Kept
<1> QED
  BY <1>1, <1>2, <1>3

-----------------------------------------------------------------------------
(* The helpers of the dispatcher.                                          *)

LEMMA KeptOn ==
  ASSUME NEW s, NEW r, NEW q, Kept(s, r), Kept(r.vm, q)
  PROVE  Kept(s, q)
BY DEF Kept

LEMMA QuietOn ==
  ASSUME NEW s, NEW r, NEW q, Quiet(s, r), Quiet(r.vm, q)
  PROVE  Quiet(s, q)
BY DEF Quiet, Kept

LEMMA FallthroughOK ==
  ASSUME NEW s, ZMachineOK(s), NEW i \in Instrs
  PROVE  ZMachineOK(Fallthrough(s, i)) /\ Fallthrough(s, i).astray = s.astray
<1> DEFINE sum == s.zdisp_pc + i.length
           p == sum % WordMod
           b == (s.zdisp_pc_bank + sum \div WordMod) % Banks
<1>1. sum \in Int
  BY ZFields, InstrFields DEF Word
<1>2. Fallthrough(s, i) = [s EXCEPT !.zdisp_pc = p, !.zdisp_pc_bank = b]
  BY DEF Fallthrough
<1>3. p \in Word /\ b \in Bank
  <2> HIDE DEF sum
  <2>1. p \in Word /\ sum \div WordMod \in Int
    BY <1>1, WordWrapOK
  <2>2. s.zdisp_pc_bank + sum \div WordMod \in Int
    BY <2>1, ZFields, BanksAssumption DEF Bank
  <2> QED
    BY <2>1, <2>2, BankWrapOK
<1> HIDE DEF p, b
<1>4. ZMachineOK([s EXCEPT !.zdisp_pc = p, !.zdisp_pc_bank = b])
  BY <1>3, PutPc, Zenon
<1> QED
  BY <1>2, <1>4, ZFields DEF ZMachine

LEMMA WideOK ==
  ASSUME NEW bank \in Int, NEW offset \in Int, NEW delta \in Int
  PROVE  /\ zwide_add_signed(bank, offset, delta).offset \in Word
         /\ zwide_add_signed(bank, offset, delta).bank \in Bank
<1> DEFINE sum == offset + Signed(delta)
<1>1. sum \in Int
  BY WordModAssumption DEF Signed
<1>2. /\ zwide_add_signed(bank, offset, delta).offset = sum % WordMod
      /\ zwide_add_signed(bank, offset, delta).bank = (bank + sum \div WordMod) % Banks
  BY DEF zwide_add_signed
<1> HIDE DEF sum
<1>3. sum % WordMod \in Word /\ bank + sum \div WordMod \in Int
  BY <1>1, WordWrapOK
<1> QED
  BY <1>2, <1>3, BankWrapOK

LEMMA JumpByOK ==
  ASSUME NEW s, ZMachineOK(s), NEW delta \in Int
  PROVE  Kept(s, Done(JumpBy(s, delta))) /\ JumpBy(s, delta).zdisp_value2 = s.zdisp_value2
<1> DEFINE word == (delta - 2) % WordMod
           target == zwide_add_signed(s.zdisp_pc_bank, s.zdisp_pc, word)
           p == target.offset
           b == target.bank
           a == s.astray \/ Signed(word) # delta - 2
           t == [s EXCEPT !.zdisp_pc = p, !.zdisp_pc_bank = b, !.astray = a]
<1>1. word \in Int /\ s.zdisp_pc_bank \in Int /\ s.zdisp_pc \in Int
  BY WordWrapOK, WordModAssumption, BanksAssumption, ZFields DEF Word, Bank
<1>2. JumpBy(s, delta) = t
  BY DEF JumpBy
<1>3. a \in BOOLEAN /\ (s.astray => a)
  BY ZFields
<1> HIDE DEF word, a
<1>4. p \in Word /\ b \in Bank
  BY <1>1, WideOK
<1> HIDE DEF target, p, b
<1>5. ZMachineOK([s EXCEPT !.zdisp_pc = p, !.zdisp_pc_bank = b, !.astray = a])
  BY <1>3, <1>4, PutJump, Zenon
<1>6. t.astray = a /\ t.zdisp_value2 = s.zdisp_value2
  BY ZFields DEF ZMachine
<1>7. ZMachineOK(t)
  BY <1>5
<1> HIDE DEF t
<1> QED
  BY <1>2, <1>3, <1>6, <1>7, Results DEF Kept

\* What k operands resolved so far amount to.
ZResolvedOK(s, r, i, k) ==
  /\ Quiet(s, r)
  /\ r.ok => /\ r.value \in Seq(Word)
             /\ Len(r.value) = IF k <= Len(i.operands) THEN k ELSE Len(i.operands)

LEMMA ZResolveOneOK ==
  ASSUME NEW s, NEW r, NEW i \in Instrs, NEW k \in Nat, ZResolvedOK(s, r, i, k)
  PROVE  ZResolvedOK(s, ResolveOne(r, i, k + 1), i, k + 1)
<1> DEFINE operand == i.operands[k + 1]
           read == IF operand.type = "variable"
                   THEN zvar_read(r.vm, VarOf(operand.raw))
                   ELSE Value(r.vm, operand.raw)
           a == Append(r.value, read.value)
           q == Value(read.vm, a)
           n == Len(i.operands)
<1>0. n \in Nat
  BY InstrFields
<1>1. CASE ~ r.ok \/ k + 1 > n
  BY <1>0, <1>1 DEF ResolveOne, ZResolvedOK
<1>2. CASE r.ok /\ k + 1 <= n
  <2>1. operand \in Operand
    BY <1>0, <1>2, InstrFields
  <2>2. operand.raw \in Word /\ VarOf(operand.raw) \in Var
    BY <2>1, VarOfOK DEF Operand
  <2>3. ZMachineOK(r.vm) /\ r.value \in Seq(Word) /\ Len(r.value) = k
    BY <1>0, <1>2 DEF ZResolvedOK, Quiet, Kept
  <2>4. Quiet(r.vm, read) /\ (read.ok => read.value \in Word)
    BY <2>2, <2>3, ZReadOK, Unchanged, Results
  <2>5. ResolveOne(r, i, k + 1) = IF read.ok THEN q ELSE read
    BY <1>0, <1>2 DEF ResolveOne, Then
  <2> HIDE DEF operand, read, n
  <2>6. CASE read.ok
    <3>1. a \in Seq(Word) /\ Len(a) = k + 1
      <4> DEFINE l == r.value
                 e == read.value
      <4>1. l \in Seq(Word) /\ Len(l) = k /\ e \in Word
        BY <2>3, <2>4, <2>6
      <4> HIDE DEF l, e
      <4>2. Append(l, e) \in Seq(Word) /\ Len(Append(l, e)) = k + 1
        BY <4>1, AppendSeq
      <4> QED
        BY <4>2 DEF l, e
    <3>3. ResolveOne(r, i, k + 1) = q
      BY <2>5, <2>6
    <3> HIDE DEF a
    <3>2. q.ok /\ q.vm = read.vm /\ q.value = a
      BY Results
    <3> HIDE DEF q
    <3>4. Quiet(s, q)
      BY <2>4, <3>2 DEF ZResolvedOK, Quiet, Kept
    <3>5. Len(q.value) = IF k + 1 <= n THEN k + 1 ELSE n
      BY <1>2, <3>1, <3>2
    <3> QED
      BY <3>1, <3>2, <3>3, <3>4, <3>5 DEF ZResolvedOK, n
  <2>7. CASE ~ read.ok
    BY <2>4, <2>5, <2>7, QuietOn DEF ZResolvedOK
  <2> QED
    BY <2>6, <2>7
<1> QED
  BY <1>0, <1>1, <1>2

LEMMA ZResolveOK ==
  ASSUME NEW s, ZMachineOK(s), NEW i \in Instrs
  PROVE  /\ Quiet(s, zds_resolve_loop(s, i))
         /\ zds_resolve_loop(s, i).ok =>
              /\ zds_resolve_loop(s, i).value \in Seq(Word)
              /\ Len(zds_resolve_loop(s, i).value) = Len(i.operands)
<1> DEFINE r0 == Value(s, <<>>)
           r1 == ResolveOne(r0, i, 1)
           r2 == ResolveOne(r1, i, 2)
           r3 == ResolveOne(r2, i, 3)
           r4 == ResolveOne(r3, i, 4)
           n == Len(i.operands)
<1>0. n \in 0 .. 4
  BY InstrFields
<1>1. ZResolvedOK(s, r0, i, 0)
  <2>1. r0.ok /\ r0.vm = s /\ r0.value = <<>> /\ Quiet(s, r0)
    BY Results, Unchanged
  <2> HIDE DEF r0
  <2>2. r0.value \in Seq(Word) /\ Len(r0.value) = 0
    BY <2>1
  <2> QED
    BY <1>0, <2>1, <2>2 DEF ZResolvedOK
<1>2. zds_resolve_loop(s, i) = r4
  BY DEF zds_resolve_loop
<1> HIDE DEF r0
<1>3. ZResolvedOK(s, r1, i, 1)
  BY <1>1, ZResolveOneOK, 0 + 1 = 1
<1> HIDE DEF r1
<1>4. ZResolvedOK(s, r2, i, 2)
  BY <1>3, ZResolveOneOK, 1 + 1 = 2
<1> HIDE DEF r2
<1>5. ZResolvedOK(s, r3, i, 3)
  BY <1>4, ZResolveOneOK, 2 + 1 = 3
<1> HIDE DEF r3
<1>6. ZResolvedOK(s, r4, i, 4)
  BY <1>5, ZResolveOneOK, 3 + 1 = 4
<1> HIDE DEF r4
<1>7. (IF 4 <= n THEN 4 ELSE n) = n
  <2> HIDE DEF n
  <2> QED
    BY <1>0
<1> QED
  BY <1>2, <1>6, <1>7 DEF ZResolvedOK

LEMMA ZReturnOK ==
  ASSUME NEW s, ZMachineOK(s), NEW v \in Word
  PROVE  /\ Kept(s, zdisp_return(s, v))
         /\ zdisp_return(s, v).vm.zdisp_value2 = s.zdisp_value2
<1> DEFINE u == [s EXCEPT !.zdisp_value = v]
           r == zvar_frame_pop(u)
           p == r.value.return_pc
           b == r.value.return_pc_bank
           q == [r.vm EXCEPT !.zdisp_pc = p, !.zdisp_pc_bank = b]
<1>1. /\ ZMachineOK(u) /\ u.astray = s.astray /\ u.zdisp_value = v
      /\ u.zdisp_value2 = s.zdisp_value2
  BY PutValue, ZFields DEF ZMachine
<1> HIDE DEF u
<1>2. Quiet(u, r) /\ (r.ok => r.value \in ZFrame)
  BY <1>1, ZFramePopOK
<1>3. zdisp_return(s, v) =
        IF r.ok THEN zvar_write(q, r.value.store_variable, r.vm.zdisp_value) ELSE r
  BY DEF zdisp_return, Then, u
<1> HIDE DEF r
<1>4. CASE r.ok
  <2>1. p \in Word /\ b \in Bank /\ r.value.store_variable \in Var
    BY <1>2, <1>4 DEF ZFrame
  <2>2. ZMachineOK(r.vm) /\ r.vm.zdisp_value = v /\ (s.astray => r.vm.astray)
    BY <1>1, <1>2 DEF Quiet, Kept
  <2> HIDE DEF p, b
  <2>3. ZMachineOK([r.vm EXCEPT !.zdisp_pc = p, !.zdisp_pc_bank = b])
    BY <2>1, <2>2, PutPc, Zenon
  <2>4. q.astray = r.vm.astray /\ q.zdisp_value2 = r.vm.zdisp_value2
    BY <2>2, ZFields DEF ZMachine
  <2>5. ZMachineOK(q)
    BY <2>3
  <2> HIDE DEF q
  <2>6. Quiet(q, zvar_write(q, r.value.store_variable, v))
    BY <2>1, <2>5, ZWriteOK
  <2> QED
    BY <1>1, <1>2, <1>3, <1>4, <2>2, <2>4, <2>6 DEF Quiet, Kept
<1>5. CASE ~ r.ok
  BY <1>1, <1>2, <1>3, <1>5 DEF Quiet, Kept
<1> QED
  BY <1>4, <1>5

LEMMA ZBranchOK ==
  ASSUME NEW s, ZMachineOK(s), NEW i \in Instrs, NEW c
  PROVE  /\ Kept(s, zdisp_branch(s, i, c))
         /\ zdisp_branch(s, i, c).vm.zdisp_value2 = s.zdisp_value2
<1>1. CASE c # i.on_true
  BY <1>1, Unchanged, Results DEF zdisp_branch, Quiet
<1>2. CASE c = i.on_true /\ i.offset \in {0, 1}
  BY <1>2, ZReturnOK, SmallWords DEF zdisp_branch
<1>3. CASE c = i.on_true /\ i.offset \notin {0, 1}
  <2> DEFINE t == JumpBy(s, i.offset)
  <2>1. Kept(s, Done(t)) /\ t.zdisp_value2 = s.zdisp_value2
    BY JumpByOK, InstrFields
  <2>2. zdisp_branch(s, i, c) = Done(t)
    BY <1>3 DEF zdisp_branch
  <2> HIDE DEF t
  <2> QED
    BY <2>1, <2>2, Results
<1> QED
  BY <1>1, <1>2, <1>3

LEMMA CallLocalsOK ==
  ASSUME NEW h \in Seq(Word), NEW x \in Seq(Word)
  PROVE  CallLocals(h, x) \in Seq(Word) /\ Len(CallLocals(h, x)) = Len(h)
<1>1. \A k \in 1 .. Len(h) : (IF k < Len(x) THEN x[k + 1] ELSE h[k]) \in Word
  OBVIOUS
<1>2. CallLocals(h, x) \in [1 .. Len(h) -> Word]
  BY <1>1 DEF CallLocals
<1> QED
  BY <1>2

LEMMA ZCallOK ==
  ASSUME NEW s, ZMachineOK(s), NEW i \in Instrs, NEW x \in Seq(Word), Len(x) >= 1
  PROVE  Kept(s, zdisp_do_call(s, i, x))
<1>1. CASE x[1] = 0
  BY <1>1, ZWriteOK, InstrFields, SmallWords DEF zdisp_do_call, Quiet
<1>2. CASE x[1] # 0 /\ x[1] \notin DOMAIN RoutineHeader
  BY <1>2, Unchanged DEF zdisp_do_call, Quiet
<1>3. CASE x[1] # 0 /\ x[1] \in DOMAIN RoutineHeader
  <2> DEFINE header == RoutineHeader[x[1]]
             r == zvar_frame_push(s, s.zdisp_pc, s.zdisp_pc_bank, i.store,
                                  CallLocals(header, x))
             entry == zwide_add_signed((2 * x[1]) \div WordMod, (2 * x[1]) % WordMod,
                                       1 + 2 * Len(header))
             p == entry.offset
             b == entry.bank
             t == [r.vm EXCEPT !.zdisp_pc = p, !.zdisp_pc_bank = b]
  <2>1. header \in Seq(Word)
    BY <1>3, RoutineAssumption
  <2>2. Quiet(s, r)
    BY <2>1, CallLocalsOK, ZFramePushOK, ZFields, InstrFields
  <2>3. p \in Word /\ b \in Bank
    <3> DEFINE m == 2 * x[1]
    <3>1. m \in Int /\ 1 + 2 * Len(header) \in Int
      BY <2>1, WordModAssumption DEF Word
    <3> HIDE DEF m
    <3>2. m \div WordMod \in Int /\ m % WordMod \in Int
      BY <3>1, WordWrapOK, WordModAssumption DEF Word
    <3> QED
      BY <3>1, <3>2, WideOK DEF m
  <2>4. zdisp_do_call(s, i, x) = IF r.ok THEN Done(t) ELSE r
    BY <1>3 DEF zdisp_do_call, Then
  <2> HIDE DEF r, entry, p, b
  <2>5. ZMachineOK([r.vm EXCEPT !.zdisp_pc = p, !.zdisp_pc_bank = b])
    BY <2>2, <2>3, PutPc, Zenon DEF Quiet, Kept
  <2>6. t.astray = r.vm.astray
    BY <2>2, ZFields DEF ZMachine, Quiet, Kept
  <2>7. ZMachineOK(t)
    BY <2>5
  <2> HIDE DEF t
  <2> QED
    BY <2>2, <2>4, <2>6, <2>7, Results DEF Quiet, Kept
<1> QED
  BY <1>1, <1>2, <1>3

LEMMA ZAddIndirectOK ==
  ASSUME NEW s, ZMachineOK(s), NEW v \in Var, NEW d \in Int
  PROVE  Kept(s, AddIndirect(s, v, d))
<1> DEFINE r == zvar_read_indirect(s, v)
           w == (r.value + d) % WordMod
           u == [r.vm EXCEPT !.zdisp_value = w]
<1>1. Quiet(s, r) /\ (r.ok => r.value \in Word)
  BY ZReadIndirectOK
<1>2. AddIndirect(s, v, d) = IF r.ok THEN zvar_write_indirect(u, v, w) ELSE r
  BY DEF AddIndirect, Then
<1> HIDE DEF r
<1>3. CASE r.ok
  <2>1. r.value + d \in Int
    BY <1>1, <1>3, WordModAssumption DEF Word
  <2>2. w \in Word /\ ZMachineOK(r.vm) /\ (s.astray => r.vm.astray)
    BY <1>1, <2>1, WordWrapOK DEF Quiet, Kept
  <2> HIDE DEF w
  <2>3. ZMachineOK(u) /\ u.astray = r.vm.astray
    BY <2>2, PutValue, ZFields DEF ZMachine
  <2> HIDE DEF u
  <2> QED
    BY <1>2, <1>3, <2>2, <2>3, ZWriteIndirectOK DEF Quiet, Kept
<1>4. CASE ~ r.ok
  BY <1>1, <1>2, <1>4 DEF Quiet
<1> QED
  BY <1>3, <1>4

-----------------------------------------------------------------------------
(* The opcodes.  Good(i, x) is what a handler may count on: its operands    *)
(* are words, and at least as many as the form of the opcode guarantees.    *)

Good(i, x) == i \in Instrs /\ x \in Seq(Word) /\ Len(x) >= Arity(i.op)

LEMMA OperandsOK ==
  ASSUME NEW i, NEW x, Good(i, x)
  PROVE  /\ Arity(i.op) >= 1 => x[1] \in Word /\ VarOf(x[1]) \in Var
         /\ Arity(i.op) >= 2 => x[2] \in Word
<1>1. x \in Seq(Word) /\ Len(x) \in Nat /\ Len(x) >= Arity(i.op)
  BY DEF Good
<1>2. Arity(i.op) \in 0 .. 2
  BY ArityNat, InstrFields DEF Good
<1>3. \A k \in 1 .. Len(x) : x[k] \in Word
  BY <1>1
<1>4. Arity(i.op) >= 1 => 1 \in 1 .. Len(x)
  BY <1>1, <1>2
<1>5. Arity(i.op) >= 2 => 2 \in 1 .. Len(x)
  BY <1>1, <1>2
<1> QED
  BY <1>3, <1>4, <1>5, VarOfOK

LEMMA WrittenOK ==
  ASSUME NEW g \in [Globals -> Word], NEW i \in Instrs
  PROVE  Written(g, i) \in [Globals -> Word]
<1>1. i.writes \in UNION {[S -> Word] : S \in SUBSET Globals}
  BY InstrsAssumption DEF Instr
<1>2. PICK S \in SUBSET Globals : i.writes \in [S -> Word]
  BY <1>1
<1> QED
  BY <1>2 DEF Written

\* inc_chk and dec_chk: whatever the comparison comes to.
LEMMA CheckedOK ==
  ASSUME NEW s, ZMachineOK(s), NEW i \in Instrs, NEW v \in Var, NEW w \in Word,
         NEW d \in Int
  PROVE  LET r == AddIndirect([s EXCEPT !.zdisp_value2 = w], v, d)
         IN  \A c : Kept(s, IF r.ok THEN zdisp_branch(r.vm, i, c) ELSE r)
<1> DEFINE u == [s EXCEPT !.zdisp_value2 = w]
           r == AddIndirect(u, v, d)
<1>1. ZMachineOK(u) /\ u.astray = s.astray
  BY PutValue2, ZFields DEF ZMachine
<1> HIDE DEF u
<1>2. Kept(u, r)
  BY <1>1, ZAddIndirectOK
<1> HIDE DEF r
<1>3. \A c : Kept(s, IF r.ok THEN zdisp_branch(r.vm, i, c) ELSE r)
  BY <1>1, <1>2, ZBranchOK DEF Kept
<1> QED
  BY <1>3 DEF r, u

LEMMA StoreAndBranchOK ==
  ASSUME NEW s, ZMachineOK(s), NEW i \in Instrs, NEW w \in Word
  PROVE  Kept(s, zdisp_store_and_branch_nonzero(s, i, w))
<1> DEFINE u == [s EXCEPT !.zdisp_value = w]
           r == zvar_write(u, i.store, w)
<1>1. ZMachineOK(u) /\ u.astray = s.astray
  BY PutValue, ZFields DEF ZMachine
<1> HIDE DEF u
<1>2. Kept(u, r)
  BY <1>1, ZWriteOK, InstrFields DEF Quiet
<1> HIDE DEF r
<1>3. zdisp_store_and_branch_nonzero(s, i, w) =
        IF r.ok THEN zdisp_branch(r.vm, i, r.vm.zdisp_value # 0) ELSE r
  BY DEF zdisp_store_and_branch_nonzero, Then, r, u
<1> QED
  BY <1>1, <1>2, <1>3, ZBranchOK DEF Kept

LEMMA LoadOK ==
  ASSUME NEW s, ZMachineOK(s), NEW v \in Var, NEW st \in Var
  PROVE  LET r == zvar_read_indirect(s, v)
         IN  Kept(s, IF r.ok THEN zvar_write(r.vm, st, r.value) ELSE r)
<1> DEFINE r == zvar_read_indirect(s, v)
<1>1. Quiet(s, r) /\ (r.ok => r.value \in Word)
  BY ZReadIndirectOK
<1> HIDE DEF r
<1>2. Kept(s, IF r.ok THEN zvar_write(r.vm, st, r.value) ELSE r)
  BY <1>1, ZWriteOK DEF Quiet, Kept
<1> QED
  BY <1>2 DEF r

LEMMA PoppedOK ==
  ASSUME NEW s, ZMachineOK(s)
  PROVE  LET r == zvar_read(s, 0)
         IN  /\ Kept(s, r)
             /\ Kept(s, IF r.ok THEN zdisp_return(r.vm, r.value) ELSE r)
             /\ \A v \in Var :
                  Kept(s, IF r.ok
                          THEN zvar_write_indirect([r.vm EXCEPT !.zdisp_value = r.value],
                                                   v, r.value)
                          ELSE r)
<1> DEFINE r == zvar_read(s, 0)
           w == r.value
           u == [r.vm EXCEPT !.zdisp_value = w]
<1>1. Quiet(s, r) /\ (r.ok => r.value \in Word)
  <2>1. 0 \in Var
    BY ByteModAssumption DEF Var
  <2> QED
    BY <2>1, ZReadOK
<1> HIDE DEF r
<1>2. Kept(s, IF r.ok THEN zdisp_return(r.vm, r.value) ELSE r)
  BY <1>1, ZReturnOK DEF Quiet, Kept
<1>3. ASSUME NEW v \in Var, r.ok
      PROVE  Kept(s, zvar_write_indirect(u, v, w))
  <2>1. w \in Word /\ ZMachineOK(r.vm)
    BY <1>1, <1>3 DEF Quiet, Kept
  <2> HIDE DEF w
  <2>2. ZMachineOK(u) /\ u.astray = r.vm.astray
    BY <2>1, PutValue, ZFields DEF ZMachine
  <2> HIDE DEF u
  <2> QED
    BY <1>1, <2>1, <2>2, ZWriteIndirectOK DEF Quiet, Kept
<1> QED
  BY <1>1, <1>2, <1>3 DEF r, Quiet

LEMMA ZHandlersOK ==
  ASSUME NEW s, ZMachineOK(s), NEW i, NEW x, Good(i, x)
  PROVE  Kept(s, Handle(s, i, x))
<1>0. i \in Instrs /\ x \in Seq(Word) /\ i.store \in Var /\ i.result \in Word
  BY InstrFields DEF Good
<1>1. i.op \in {"store", "inc_chk", "dec_chk", "je"} => x[2] \in Word
  BY OperandsOK DEF Arity
<1>2. i.op \in {"store", "inc_chk", "dec_chk", "je", "jz", "inc", "dec", "load",
                "jump", "call", "ret", "push", "pull"} =>
        x[1] \in Word /\ VarOf(x[1]) \in Var
  BY OperandsOK DEF Arity
<1>3. Kept(s, zds_je(s, i, x)) /\ Kept(s, zds_jz(s, i, x)) /\ Kept(s, zds_test(s, i, x))
  BY <1>0, ZBranchOK DEF zds_je, zds_jz, zds_test
<1>4. i.op = "store" => Kept(s, zds_store(s, i, x))
  BY <1>1, <1>2, ZWriteIndirectOK DEF zds_store, Quiet
<1>5. Kept(s, zds_result(s, i, x))
  BY <1>0, ZWriteOK DEF zds_result, Quiet
<1>6. Kept(s, zds_get_sibling(s, i, x))
  BY <1>0, StoreAndBranchOK DEF zds_get_sibling
<1>7. i.op = "inc" => Kept(s, zds_inc(s, i, x))
  BY <1>2, ZAddIndirectOK DEF zds_inc
<1>8. i.op = "dec" => Kept(s, zds_dec(s, i, x))
  <2>1. -1 \in Int
    OBVIOUS
  <2> QED
    BY <1>2, <2>1, ZAddIndirectOK DEF zds_dec
<1>9. i.op = "inc_chk" => Kept(s, zds_inc_chk(s, i, x))
  <2>1. 1 \in Int
    OBVIOUS
  <2> QED
    BY <1>0, <1>1, <1>2, <2>1, CheckedOK DEF zds_inc_chk, Then
<1>10. i.op = "dec_chk" => Kept(s, zds_dec_chk(s, i, x))
  <2>1. -1 \in Int
    OBVIOUS
  <2> QED
    BY <1>0, <1>1, <1>2, <2>1, CheckedOK DEF zds_dec_chk, Then
<1>11. i.op = "load" => Kept(s, zds_load(s, i, x))
  BY <1>0, <1>2, LoadOK DEF zds_load, Then
<1>12. i.op = "jump" => Kept(s, zds_jump(s, i, x))
  BY <1>2, SignedInt, JumpByOK DEF zds_jump
<1>13. i.op = "call" => Kept(s, zds_call(s, i, x))
  <2>1. i.op = "call" => Len(x) >= 1
    BY DEF Good, Arity
  <2> QED
    BY <1>0, <2>1, ZCallOK DEF zds_call
<1>14. i.op = "ret" => Kept(s, zds_ret(s, i, x))
  BY <1>2, ZReturnOK DEF zds_ret
<1>15. /\ Kept(s, zds_rtrue(s, i, x)) /\ Kept(s, zds_rfalse(s, i, x))
       /\ Kept(s, zds_print_ret(s, i, x))
  BY ZReturnOK, SmallWords DEF zds_rtrue, zds_rfalse, zds_print_ret
<1>16. Kept(s, zds_ret_popped(s, i, x)) /\ Kept(s, zds_pop(s, i, x))
  BY PoppedOK DEF zds_ret_popped, zds_pop, Then
<1>17. i.op = "push" => Kept(s, zds_push(s, i, x))
  BY <1>2, ZPushOK DEF zds_push, zvar_write, Quiet
<1>18. i.op = "pull" => Kept(s, zds_pull(s, i, x))
  BY <1>2, PoppedOK DEF zds_pull, Then
<1>19. Kept(s, zds_quit(s, i, x)) /\ Kept(s, zds_error(s, i, x))
  BY Unchanged DEF zds_quit, zds_error, Quiet
<1>20. Kept(s, zds_save(s, i, x))
  <2> DEFINE v == s.zdisp_pc
             w == s.zdisp_pc_bank
             u == [s EXCEPT !.zdisp_value = v, !.zdisp_value2 = w]
             r == zdisp_branch(u, i, TRUE)
  <2>1. ZMachineOK(u) /\ u.astray = s.astray
    <3>1. v \in Word /\ w \in Word
      BY ZFields, BankWord
    <3> HIDE DEF v, w
    <3>2. ZMachineOK([s EXCEPT !.zdisp_value = v, !.zdisp_value2 = w])
      BY <3>1, PutScratch, Zenon
    <3> QED
      BY <3>2, ZFields DEF ZMachine
  <2>2. zds_save(s, i, x) = Done(r.vm)
    BY DEF zds_save
  <2> HIDE DEF v, w, u
  <2>3. Kept(u, r)
    BY <1>0, <2>1, ZBranchOK
  <2> HIDE DEF r
  <2> QED
    BY <2>1, <2>2, <2>3, Results DEF Kept
<1>21. Kept(s, zds_effect(s, i, x))
  <2> DEFINE g == Written(s.globals, i)
             t == [s EXCEPT !.globals = g]
  <2>1. g \in [Globals -> Word]
    BY <1>0, WrittenOK, ZFields
  <2>2. zds_effect(s, i, x) = Done(t)
    BY DEF zds_effect
  <2> HIDE DEF g
  <2>3. ZMachineOK(t) /\ t.astray = s.astray
    BY <2>1, PutGlobals, ZFields DEF ZMachine
  <2> HIDE DEF t
  <2> QED
    BY <2>2, <2>3, Results DEF Kept
<1> QED
  BY <1>3, <1>4, <1>5, <1>6, <1>7, <1>8, <1>9, <1>10, <1>11, <1>12, <1>13, <1>14,
     <1>15, <1>16, <1>17, <1>18, <1>19, <1>20, <1>21 DEF Handle

\* Default program counter, operands and opcode together.
LEMMA ZStepOK ==
  ASSUME NEW s, ZMachineOK(s), NEW i \in Instrs
  PROVE  Kept(s, zdisp_step(s, i))
<1> DEFINE f == Fallthrough(s, i)
           r == zds_resolve_loop(f, i)
<1>1. ZMachineOK(f) /\ f.astray = s.astray
  BY FallthroughOK
<1> HIDE DEF f
<1>2. Quiet(f, r) /\ (r.ok => r.value \in Seq(Word) /\ Len(r.value) = Len(i.operands))
  BY <1>1, ZResolveOK
<1> HIDE DEF r
<1>3. zdisp_step(s, i) = IF r.ok THEN Handle(r.vm, i, r.value) ELSE r
  BY DEF zdisp_step, Then, r, f
<1>4. CASE r.ok
  <2>1. Good(i, r.value) /\ ZMachineOK(r.vm)
    BY <1>2, <1>4, InstrFields DEF Good, Quiet, Kept
  <2>2. Kept(r.vm, Handle(r.vm, i, r.value))
    BY <2>1, ZHandlersOK
  <2> QED
    BY <1>1, <1>2, <1>3, <1>4, <2>2 DEF Quiet, Kept
<1>5. CASE ~ r.ok
  BY <1>1, <1>2, <1>3, <1>5 DEF Quiet, Kept
<1> QED
  BY <1>4, <1>5

LEMMA SettledOK ==
  ASSUME NEW s, ZMachineOK(s)
  PROVE  ZMachineOK(Settled(s))
<1> DEFINE v == 0
<1>1. v \in Word
  BY SmallWords
<1>2. Settled(s) = [s EXCEPT !.zdisp_value = v, !.zdisp_value2 = v]
  BY DEF Settled
<1> HIDE DEF v
<1>3. ZMachineOK([s EXCEPT !.zdisp_value = v, !.zdisp_value2 = v])
  BY <1>1, PutScratch, Zenon
<1> QED
  BY <1>2, <1>3

LEMMA NoOperands ==
  ASSUME NEW s, NEW i \in Instrs, i.op \in ZeroOp
  PROVE  zds_resolve_loop(s, i) = Value(s, <<>>) /\ Good(i, <<>>)
<1> DEFINE r == Value(s, <<>>)
           e == <<>>
<1>1. r.ok /\ i.operands = e /\ Len(e) = 0
  BY Results, ZeroOpAssumption
<1> HIDE DEF r, e
<1>2. \A k \in 1 .. 4 : ResolveOne(r, i, k) = r
  BY <1>1 DEF ResolveOne
<1>3. zds_resolve_loop(s, i) = r
  BY <1>2 DEF zds_resolve_loop, r
<1>4. Good(i, e)
  <2>1. e \in Seq(Word)
    BY DEF e
  <2>2. Arity(i.op) = 0
    BY DEF ZeroOp, Arity
  <2> QED
    BY <1>1, <2>1, <2>2 DEF Good
<1> QED
  BY <1>3, <1>4 DEF r, e

\* A save that fails takes program counter and bank from the scratch words that
\* save filled, of which the branch may have overwritten the first.
LEMMA SaveUndoOK ==
  ASSUME NEW s, ZMachineOK(s), NEW i \in Instrs, i.op = "save"
  PROVE  ZMachineOK(zds_save_undo(zdisp_step(s, i).vm))
<1> DEFINE f == Fallthrough(s, i)
           v == f.zdisp_pc
           w == f.zdisp_pc_bank
           u == [f EXCEPT !.zdisp_value = v, !.zdisp_value2 = w]
           r == zdisp_branch(u, i, TRUE)
           t == zdisp_step(s, i).vm
           p == t.zdisp_value
           b == t.zdisp_value2
<1>1. ZMachineOK(f)
  BY FallthroughOK
<1>2. t = r.vm
  <2>1. zds_resolve_loop(f, i) = Value(f, <<>>)
    BY NoOperands DEF ZeroOp
  <2> HIDE DEF f
  <2>2. zdisp_step(s, i) = Handle(f, i, <<>>)
    BY <2>1 DEF zdisp_step, Then, Value, f
  <2>3. Handle(f, i, <<>>) = zds_save(f, i, <<>>)
    BY DEF Handle
  <2>4. zds_save(f, i, <<>>) = Done(r.vm)
    BY DEF zds_save
  <2> HIDE DEF r
  <2> QED
    BY <2>2, <2>3, <2>4, Results
<1>3. ZMachineOK(t) /\ p \in Word
  BY ZStepOK, ZFields DEF Kept
<1>4. b \in Bank
  <2> HIDE DEF f
  <2>1. v \in Word /\ w \in Bank /\ w \in Word
    BY <1>1, ZFields, BankWord
  <2>2. u.zdisp_value2 = w
    BY <1>1, ZFields DEF ZMachine
  <2> HIDE DEF v, w
  <2>3. ZMachineOK([f EXCEPT !.zdisp_value = v, !.zdisp_value2 = w])
    BY <1>1, <2>1, PutScratch, Zenon
  <2>4. ZMachineOK(u)
    BY <2>3
  <2> HIDE DEF u, t
  <2> QED
    BY <1>2, <2>1, <2>2, <2>4, ZBranchOK
<1>5. zds_save_undo(t) = [t EXCEPT !.zdisp_pc = p, !.zdisp_pc_bank = b]
  BY DEF zds_save_undo
<1> HIDE DEF t, p, b
<1>6. ZMachineOK([t EXCEPT !.zdisp_pc = p, !.zdisp_pc_bank = b])
  BY <1>3, <1>4, PutPc, Zenon
<1> QED
  BY <1>5, <1>6 DEF t

LEMMA ZPerformOK ==
  ASSUME TypeOK, NEW op \in Opcodes, Perform(op)
  PROVE  TypeOK'
<1>1. PICK i \in InstrsOf[op] :
        z' = Settled(zdisp_step(z, i).vm) /\ status' = StatusAfter(zdisp_step(z, i))
  BY DEF Perform
<1>2. i \in Instrs
  BY DEF InstrsOf
<1>3. ZMachineOK(zdisp_step(z, i).vm)
  BY <1>2, ZStepOK DEF TypeOK, Kept
<1>4. ZMachineOK(z') /\ status' \in {"running", "error", "quit"}
  BY <1>1, <1>3, SettledOK DEF StatusAfter
<1> QED
  BY <1>4 DEF TypeOK, Perform

LEMMA ZSaveOK ==
  ASSUME TypeOK, Save
  PROVE  TypeOK'
<1>1. PICK i \in InstrsOf["save"] :
        /\ status' = StatusAfter(zdisp_step(z, i))
        /\ \/ z' = Settled(zdisp_step(z, i).vm) /\ slot' = Settled(zdisp_step(z, i).vm)
           \/ z' = Settled(zds_save_undo(zdisp_step(z, i).vm)) /\ slot' \in {slot, NoSave}
  BY DEF Save
<1>2. i \in Instrs /\ i.op = "save"
  BY DEF InstrsOf, Opcodes
<1> DEFINE t == zdisp_step(z, i).vm
<1>3. ZMachineOK(t) /\ ZMachineOK(zds_save_undo(t))
  BY <1>2, ZStepOK, SaveUndoOK DEF TypeOK, Kept
<1>4. status' \in {"running", "error", "quit"}
  BY <1>1 DEF StatusAfter
<1>5. \/ z' = Settled(t) /\ slot' = Settled(t)
      \/ z' = Settled(zds_save_undo(t)) /\ slot' \in {slot, NoSave}
  BY <1>1
<1> HIDE DEF t
<1> QED
  BY <1>3, <1>4, <1>5, SettledOK DEF TypeOK

LEMMA ZInitOK == Init => TypeOK
<1> SUFFICES ASSUME Init PROVE TypeOK
  OBVIOUS
<1>1. PICK memory \in [1 .. EvalMax -> Garbage] :
        z = [ zsmem |-> memory, zsptr |-> 0, frames |-> <<>>,
              globals |-> InitialGlobals, zdisp_pc |-> InitialPc,
              zdisp_pc_bank |-> 0, zdisp_value |-> 0, zdisp_value2 |-> 0,
              astray |-> FALSE ]
  BY DEF Init
<1>2. memory \in Seq(Word) /\ Len(memory) = EvalMax
  <2>1. memory \in [1 .. EvalMax -> Word]
    BY GarbageAssumption
  <2> QED
    BY <2>1, EvalMaxAssumption
<1>3. 0 \in 0 .. EvalMax /\ 0 \in Bank
  BY EvalMaxAssumption, BanksAssumption DEF Bank
<1>4. z \in ZMachine
  BY <1>1, <1>2, <1>3, SmallWords, InitialPcAssumption, InitialGlobalsAssumption
     DEF ZMachine
<1>5. ZMachineOK(z)
  BY <1>1, <1>2, <1>4, FrameMaxAssumption DEF ZMachineOK
<1> QED
  BY <1>5 DEF Init, TypeOK

LEMMA ZNextOK == TypeOK /\ [Next]_vars => TypeOK'
<1> SUFFICES ASSUME TypeOK, [Next]_vars
             PROVE  TypeOK'
  OBVIOUS
<1>1. CASE Save
  BY <1>1, ZSaveOK
<1>2. CASE Restore
  <2>1. PICK i \in InstrsOf["restore"] :
          \/ slot # NoSave /\ z' = slot
          \/ z' = Fallthrough(z, i)
    BY <1>2 DEF Restore
  <2>2. ZMachineOK(z')
    BY <2>1, FallthroughOK DEF TypeOK, InstrsOf, Opcodes
  <2> QED
    BY <1>2, <2>2 DEF Restore, TypeOK
<1>3. CASE Quit
  <2>1. PICK i \in InstrsOf["quit"] : z' = Fallthrough(z, i)
    BY <1>3 DEF Quit
  <2>2. ZMachineOK(z')
    BY <2>1, FallthroughOK DEF TypeOK, InstrsOf, Opcodes
  <2> QED
    BY <1>3, <2>2 DEF Quit, TypeOK
<1>4. CASE Next /\ ~ Save /\ ~ Restore /\ ~ Quit
  <2>1. PICK op \in Opcodes : Perform(op)
    BY <1>4 DEF Next, Opcodes, Je, Jz, Test, Store, Result, ResultBranch,
      Inc, Dec, IncChk, DecChk, Load, Jump, Call, Ret, Rtrue, Rfalse,
      RetPopped, Pop, Push, Pull, PrintRet, Effect, ShowStatus, Bad, Restart
  <2> QED
    BY <2>1, ZPerformOK
<1>5. CASE UNCHANGED vars
  BY <1>5 DEF vars, TypeOK
<1> QED
  BY <1>1, <1>2, <1>3, <1>4, <1>5

\* The 1802's stack pointer never leaves the region between zsbase and zstop,
\* the frame pointer never leaves its own, no frame has more locals than its
\* record has room for, and the program counter is a word in a bank there is:
\* in the running machine and in the saved copy, whatever the story executes,
\* also when an instruction fails half way or a save is undone.
THEOREM TypeCorrect == Spec => []TypeOK
BY ZInitOK, ZNextOK, PTL DEF Spec
=============================================================================
