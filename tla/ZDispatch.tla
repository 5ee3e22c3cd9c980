----------------------------- MODULE ZDispatch -----------------------------
(***************************************************************************)
(* The 1802 port's dispatcher, lib/zdispatch.asm, which mirrors            *)
(* host/dispatch.c opcode by opcode.  It differs in what it keeps where: a *)
(* program counter of bank and offset that is moved past the instruction   *)
(* before the operands are read, and scratch words its routines share.     *)
(* The save and restore hooks are taken at their word here (ZSave is what  *)
(* they do).                                                               *)
(***************************************************************************)
EXTENDS ZVar

CONSTANTS
  InitialPc,       \* where the story header starts execution
  InitialGlobals,  \* the global variables as the story file has them
  Garbage,         \* what a word of fresh memory may hold
  NoSave           \* content of the slot before the first save

ASSUME InitialPcAssumption == InitialPc \in Word
ASSUME InitialGlobalsAssumption == InitialGlobals \in [Globals -> Word]
ASSUME GarbageAssumption == Garbage \subseteq Word
ASSUME NoSaveAssumption == NoSave \notin ZMachine
\* The longest routine header, taken for a signed word, is itself.
ASSUME HeaderAssumption == Banks = 1 \/ 2 * (1 + 2 * LocalLimit) < WordMod

VARIABLES z, slot, status

vars == <<z, slot, status>>

-----------------------------------------------------------------------------
(* Addresses.                                                              *)

\* The default next_pc: a carry out of the offset goes into the bank.
Fallthrough(s, i) ==
  LET sum == s.zdisp_pc + i.length
  IN [s EXCEPT !.zdisp_pc = sum % WordMod,
               !.zdisp_pc_bank = (s.zdisp_pc_bank + sum \div WordMod) % Banks]

zwide_add_signed_mutant(bank, offset, delta) ==
  LET sum == offset + Signed(delta)
  IN [offset |-> sum % WordMod,
      bank |-> IF sum < 0 THEN bank ELSE (bank + sum \div WordMod) % Banks]

\* Bank and offset, delta bytes on; a negative delta may borrow from the bank.
zwide_add_signed(bank, offset, delta) ==
  LET sum == offset + Signed(delta)
  IN [offset |-> sum % WordMod, bank |-> (bank + sum \div WordMod) % Banks]

\* addr + length + delta - 2 for branches and jump, delta - 2 taken as a word.
JumpBy(s, delta) ==
  LET word == (delta - 2) % WordMod
      target == zwide_add_signed(s.zdisp_pc_bank, s.zdisp_pc, word)
  IN [s EXCEPT !.zdisp_pc = target.offset, !.zdisp_pc_bank = target.bank,
               !.astray = s.astray \/ Signed(word) # delta - 2]

-----------------------------------------------------------------------------
(* The routines the handlers share.                                        *)

ResolveOne(r, i, k) ==
  IF ~ r.ok \/ k > Len(i.operands) THEN r
  ELSE LET operand == i.operands[k]
           read == IF operand.type = "variable"
                   THEN zvar_read(r.vm, VarOf(operand.raw))
                   ELSE Value(r.vm, operand.raw)
       IN Then(read, LAMBDA q : Value(q.vm, Append(r.value, q.value)))

zds_resolve_loop(s, i) ==
  ResolveOne(ResolveOne(ResolveOne(ResolveOne(
    Value(s, <<>>), i, 1), i, 2), i, 3), i, 4)

zdisp_return(s, value) ==
  Then(zvar_frame_pop([s EXCEPT !.zdisp_value = value]), LAMBDA r :
    zvar_write([r.vm EXCEPT !.zdisp_pc = r.value.return_pc,
                            !.zdisp_pc_bank = r.value.return_pc_bank],
               r.value.store_variable, r.vm.zdisp_value))

zdisp_branch(s, i, condition) ==
  IF condition # i.on_true THEN Done(s)
  ELSE IF i.offset = 0 THEN zdisp_return(s, 0)
  ELSE IF i.offset = 1 THEN zdisp_return(s, 1)
  ELSE Done(JumpBy(s, i.offset))

\* Local k is the argument for it, if the call has one, or else its default.
CallLocals(header, x) ==
  [k \in 1 .. Len(header) |-> IF k < Len(x) THEN x[k + 1] ELSE header[k]]

\* The packed address doubled: its 17th bit selects the bank.
zdisp_do_call(s, i, x) ==
  IF x[1] = 0 THEN zvar_write(s, i.store, 0)
  ELSE IF x[1] \notin DOMAIN RoutineHeader THEN Fail(s)
  ELSE LET header == RoutineHeader[x[1]]
           locals == CallLocals(header, x)
           entry == zwide_add_signed((2 * x[1]) \div WordMod,
                                     (2 * x[1]) % WordMod, 1 + 2 * Len(header))
       IN Then(zvar_frame_push(s, s.zdisp_pc, s.zdisp_pc_bank, i.store, locals),
               LAMBDA r : Done([r.vm EXCEPT !.zdisp_pc = entry.offset,
                                            !.zdisp_pc_bank = entry.bank]))

\* Reads a variable indirectly, adds delta, writes it back: inc and dec, and
\* the first half of inc_chk and dec_chk.
AddIndirect(s, v, delta) ==
  Then(zvar_read_indirect(s, v), LAMBDA r :
    LET updated == (r.value + delta) % WordMod
    IN zvar_write_indirect([r.vm EXCEPT !.zdisp_value = updated], v, updated))

\* Signed less-than: an unsigned comparison with the sign bits flipped.
Biased(w) == (w + WordMod \div 2) % WordMod
zdisp_slt_mutant(a, b) == a < b
zdisp_slt(a, b) == Biased(a) < Biased(b)

zdisp_store_and_branch_nonzero(s, i, value) ==
  Then(zvar_write([s EXCEPT !.zdisp_value = value], i.store, value), LAMBDA r :
    zdisp_branch(r.vm, i, r.vm.zdisp_value # 0))

-----------------------------------------------------------------------------
(* The opcodes.                                                            *)

zds_je(s, i, x) == zdisp_branch(s, i, \E k \in 2 .. Len(x) : x[k] = x[1])
zds_jz(s, i, x) == zdisp_branch(s, i, x[1] = 0)
\* jl, jg, jin, test, test_attr: the test itself is data.
zds_test(s, i, x) == zdisp_branch(s, i, i.cond)
zds_store(s, i, x) == zvar_write_indirect(s, VarOf(x[1]), x[2])
\* add .. not, loadw, get_prop, random ...: the result itself is data.
zds_result(s, i, x) == zvar_write(s, i.store, i.result)
\* get_sibling and get_child
zds_get_sibling(s, i, x) == zdisp_store_and_branch_nonzero(s, i, i.result)
zds_inc(s, i, x) == AddIndirect(s, VarOf(x[1]), 1)
zds_dec(s, i, x) == AddIndirect(s, VarOf(x[1]), -1)
zds_inc_chk(s, i, x) ==
  Then(AddIndirect([s EXCEPT !.zdisp_value2 = x[2]], VarOf(x[1]), 1), LAMBDA r :
    zdisp_branch(r.vm, i, zdisp_slt(r.vm.zdisp_value2, r.vm.zdisp_value)))
zds_dec_chk(s, i, x) ==
  Then(AddIndirect([s EXCEPT !.zdisp_value2 = x[2]], VarOf(x[1]), -1), LAMBDA r :
    zdisp_branch(r.vm, i, zdisp_slt(r.vm.zdisp_value, r.vm.zdisp_value2)))
zds_load(s, i, x) ==
  Then(zvar_read_indirect(s, VarOf(x[1])), LAMBDA r :
    zvar_write(r.vm, i.store, r.value))
zds_jump(s, i, x) == Done(JumpBy(s, Signed(x[1])))
zds_call(s, i, x) == zdisp_do_call(s, i, x)
zds_ret(s, i, x) == zdisp_return(s, x[1])
zds_rtrue(s, i, x) == zdisp_return(s, 1)
zds_rfalse(s, i, x) == zdisp_return(s, 0)
zds_ret_popped(s, i, x) ==
  Then(zvar_read(s, 0), LAMBDA r : zdisp_return(r.vm, r.value))
zds_pop(s, i, x) == zvar_read(s, 0)
zds_push(s, i, x) == zvar_write(s, 0, x[1])
zds_pull(s, i, x) ==
  Then(zvar_read(s, 0), LAMBDA r :
    zvar_write_indirect([r.vm EXCEPT !.zdisp_value = r.value],
                        VarOf(x[1]), r.value))
\* Without output stream 3 (zds_output_stream) no text goes to memory.
zds_print_ret(s, i, x) == zdisp_return(s, 1)
\* Output, input, objects, properties, memory: the globals lie in the memory
\* that storew, storeb, put_prop and sread write to.
zds_effect(s, i, x) == Done([s EXCEPT !.globals = Written(s.globals, i)])
zds_quit(s, i, x) == Done(s)
\* An opcode missing from the dispatch tables, or whose data part fails.
zds_error(s, i, x) == Fail(s)
\* The fallthrough is kept in the scratch words; whether the branch worked
\* out is not looked at.
zds_save(s, i, x) ==
  Done(zdisp_branch([s EXCEPT !.zdisp_value = s.zdisp_pc,
                              !.zdisp_value2 = s.zdisp_pc_bank], i, TRUE).vm)
zds_save_undo_mutant(s) == s
\* save, when the hook has failed.
zds_save_undo(s) ==
  [s EXCEPT !.zdisp_pc = s.zdisp_value, !.zdisp_pc_bank = s.zdisp_value2]

\* The dispatch tables; 0OP 12, show_status, is not in them.
Handle(s, i, x) ==
  CASE i.op = "je" -> zds_je(s, i, x)
    [] i.op = "jz" -> zds_jz(s, i, x)
    [] i.op = "test" -> zds_test(s, i, x)
    [] i.op = "store" -> zds_store(s, i, x)
    [] i.op = "result" -> zds_result(s, i, x)
    [] i.op = "result_branch" -> zds_get_sibling(s, i, x)
    [] i.op = "inc" -> zds_inc(s, i, x)
    [] i.op = "dec" -> zds_dec(s, i, x)
    [] i.op = "inc_chk" -> zds_inc_chk(s, i, x)
    [] i.op = "dec_chk" -> zds_dec_chk(s, i, x)
    [] i.op = "load" -> zds_load(s, i, x)
    [] i.op = "jump" -> zds_jump(s, i, x)
    [] i.op = "call" -> zds_call(s, i, x)
    [] i.op = "ret" -> zds_ret(s, i, x)
    [] i.op = "rtrue" -> zds_rtrue(s, i, x)
    [] i.op = "rfalse" -> zds_rfalse(s, i, x)
    [] i.op = "ret_popped" -> zds_ret_popped(s, i, x)
    [] i.op = "pop" -> zds_pop(s, i, x)
    [] i.op = "push" -> zds_push(s, i, x)
    [] i.op = "pull" -> zds_pull(s, i, x)
    [] i.op = "print_ret" -> zds_print_ret(s, i, x)
    [] i.op = "save" -> zds_save(s, i, x)
    [] i.op = "effect" -> zds_effect(s, i, x)
    [] i.op \in {"restore", "quit"} -> zds_quit(s, i, x)
    [] OTHER -> zds_error(s, i, x)

\* A whole step: default program counter, operands, then the opcode.
zdisp_step(s, i) ==
  Then(zds_resolve_loop(Fallthrough(s, i), i), LAMBDA r : Handle(r.vm, i, r.value))

-----------------------------------------------------------------------------
(* Between two steps the scratch words hold nothing that a later step      *)
(* reads before it writes them; the model forgets them there.              *)
Settled(s) == [s EXCEPT !.zdisp_value = 0, !.zdisp_value2 = 0]

InstrsOf == [op \in Opcodes |-> {i \in Instrs : i.op = op}]
StatusAfter(r) == IF r.ok THEN "running" ELSE "error"

\* The model follows a story for as long as it is not astray.
Running == status = "running" /\ ~ z.astray

Perform(op) ==
  /\ Running
  /\ \E i \in InstrsOf[op] :
       LET r == zdisp_step(z, i)
       IN z' = Settled(r.vm) /\ status' = StatusAfter(r)
  /\ UNCHANGED slot

Je == Perform("je")
Jz == Perform("jz")
Test == Perform("test")
Store == Perform("store")
Result == Perform("result")
ResultBranch == Perform("result_branch")
Inc == Perform("inc")
Dec == Perform("dec")
IncChk == Perform("inc_chk")
DecChk == Perform("dec_chk")
Load == Perform("load")
Jump == Perform("jump")
Call == Perform("call")
Ret == Perform("ret")
Rtrue == Perform("rtrue")
Rfalse == Perform("rfalse")
RetPopped == Perform("ret_popped")
Pop == Perform("pop")
Push == Perform("push")
Pull == Perform("pull")
PrintRet == Perform("print_ret")
Effect == Perform("effect")
ShowStatus == Perform("show_status")
Bad == Perform("bad")
Restart == Perform("restart")

\* The hook keeps a copy, or fails and may have lost the one it kept.
Save ==
  /\ Running
  /\ \E i \in InstrsOf["save"] :
       LET r == zdisp_step(z, i)
       IN /\ status' = StatusAfter(r)
          /\ \/ z' = Settled(r.vm) /\ slot' = Settled(r.vm)
             \/ z' = Settled(zds_save_undo(r.vm)) /\ slot' \in {slot, NoSave}

\* The hook puts the copy back, or fails and leaves the machine alone.
Restore ==
  /\ Running
  /\ \E i \in InstrsOf["restore"] :
       \/ slot # NoSave /\ z' = slot
       \/ z' = Fallthrough(z, i)
  /\ UNCHANGED <<slot, status>>

Quit ==
  /\ Running
  /\ \E i \in InstrsOf["quit"] : z' = Fallthrough(z, i)
  /\ status' = "quit"
  /\ UNCHANGED slot

-----------------------------------------------------------------------------
\* The words of the evaluation stack are whatever the heap block held.
Init ==
  /\ \E memory \in [1 .. EvalMax -> Garbage] :
       z = [ zsmem |-> memory, zsptr |-> 0, frames |-> <<>>,
             globals |-> InitialGlobals, zdisp_pc |-> InitialPc,
             zdisp_pc_bank |-> 0, zdisp_value |-> 0, zdisp_value2 |-> 0,
             astray |-> FALSE ]
  /\ slot = NoSave
  /\ status = "running"

Next ==
  \/ Je \/ Jz \/ Test \/ Store \/ Result \/ ResultBranch \/ Inc \/ Dec
  \/ IncChk \/ DecChk \/ Load \/ Jump \/ Call \/ Ret \/ Rtrue \/ Rfalse
  \/ RetPopped \/ Pop \/ Push \/ Pull \/ PrintRet \/ Effect \/ ShowStatus
  \/ Bad \/ Restart \/ Save \/ Restore \/ Quit

Spec == Init /\ [][Next]_vars

-----------------------------------------------------------------------------
\* Every cell of the port's state stays in its range: neither pointer leaves
\* its region and the bank stays a byte.
ZMachineOK(s) ==
  /\ s \in ZMachine
  /\ Len(s.zsmem) = EvalMax
  /\ Len(s.frames) <= FrameMax
  /\ \A k \in 1 .. Len(s.frames) : Len(s.frames[k].locals) <= LocalLimit

TypeOK ==
  /\ ZMachineOK(z)
  /\ slot = NoSave \/ ZMachineOK(slot)
  /\ status \in {"running", "error", "quit"}
=============================================================================
