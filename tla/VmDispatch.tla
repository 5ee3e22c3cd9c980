----------------------------- MODULE VmDispatch -----------------------------
(***************************************************************************)
(* The reference interpreter, host/dispatch.c: one action per group of     *)
(* opcodes that treat the machine alike.  A step resolves the operands     *)
(* from left to right, moves the program counter past the instruction and  *)
(* runs the opcode; a failure anywhere stops the interpreter.  The save,   *)
(* restore and restart callbacks are the platform's and configured: they   *)
(* keep or fail to keep one copy of the machine, slot.                     *)
(***************************************************************************)
EXTENDS VmState, FiniteSets

CONSTANTS
  InitialPc,       \* where the story header starts execution
  InitialGlobals,  \* the global variables as the story file has them
  NoSave,          \* content of the slot before the first save
  SaveConfigured,  \* has the platform given a save callback?
  StackDiscipline  \* do routines keep to the words they pushed themselves?

ASSUME InitialPcAssumption == InitialPc \in Pc
ASSUME InitialGlobalsAssumption == InitialGlobals \in [Globals -> Word]
ASSUME NoSaveAssumption == NoSave \notin Machine
ASSUME SaveConfiguredAssumption == SaveConfigured \in BOOLEAN
ASSUME StackDisciplineAssumption == StackDiscipline \in BOOLEAN

VARIABLES vm, slot, status

vars == <<vm, slot, status>>

InitialVm ==
  [eval |-> <<>>, frames |-> <<>>, globals |-> InitialGlobals, pc |-> InitialPc]

-----------------------------------------------------------------------------
(* The helpers every opcode is built from.                                 *)

\* Operand k, if there is one: its value is appended to those before it.
ResolveOne(r, i, k) ==
  IF ~ r.ok \/ k > Len(i.operands) THEN r
  ELSE LET operand == i.operands[k]
           read == IF operand.type = "variable"
                   THEN vm_read_variable(r.vm, VarOf(operand.raw))
                   ELSE Value(r.vm, operand.raw)
       IN Then(read, LAMBDA q : Value(q.vm, Append(r.value, q.value)))

resolve_operands(s, i) ==
  ResolveOne(ResolveOne(ResolveOne(ResolveOne(
    Value(s, <<>>), i, 1), i, 2), i, 3), i, 4)

NextPc(s, i) == (s.pc + i.length) % PcSpace

do_return(s, value) ==
  Then(vm_frame_pop(s), LAMBDA r :
    vm_write_variable([r.vm EXCEPT !.pc = r.value.return_pc],
                      r.value.store_variable, value))

\* s.pc is already the address after the branching instruction.
do_branch(s, i, condition) ==
  IF condition # i.on_true THEN Done(s)
  ELSE IF i.offset \in {0, 1} THEN do_return(s, i.offset)
  ELSE Done([s EXCEPT !.pc = (s.pc + i.offset - 2) % PcSpace])

\* Arguments override the routine's own defaults; extra ones are dropped.
CallLocals(header, x) ==
  [k \in 1 .. Len(header) |-> IF k + 1 <= Len(x) THEN x[k + 1] ELSE header[k]]

do_call(s, i, x) ==
  IF x[1] = 0 THEN vm_write_variable(s, i.store, 0)
  ELSE IF x[1] \notin DOMAIN RoutineHeader THEN Fail(s)
  ELSE LET header == RoutineHeader[x[1]]
       IN Then(vm_frame_push(s, s.pc, i.store, CallLocals(header, x)), LAMBDA r :
            Done([r.vm EXCEPT !.pc = RoutineEntry(x[1], Len(header))]))

\* inc and dec, and the first half of inc_chk and dec_chk.
AddIndirect(s, v, delta) ==
  Then(vm_read_variable_indirect(s, v), LAMBDA r :
    LET updated == (r.value + delta) % WordMod
    IN Then(vm_write_variable_indirect(r.vm, v, updated), LAMBDA w :
         Value(w.vm, updated)))

-----------------------------------------------------------------------------
(* The opcodes.                                                            *)

\* je: does any later operand equal the first?
step_je(s, i, x) == do_branch(s, i, \E k \in 2 .. Len(x) : x[k] = x[1])
step_jz(s, i, x) == do_branch(s, i, x[1] = 0)
\* jl, jg, jin, test, test_attr: the test itself is data.
step_test(s, i, x) == do_branch(s, i, i.cond)
step_store(s, i, x) == vm_write_variable_indirect(s, VarOf(x[1]), x[2])
\* add .. not, loadw, get_prop, random ...: the result itself is data.
step_result(s, i, x) == vm_write_variable(s, i.store, i.result)
\* get_sibling and get_child
step_result_branch(s, i, x) ==
  Then(vm_write_variable(s, i.store, i.result), LAMBDA r :
    do_branch(r.vm, i, i.result # 0))
step_inc(s, i, x) == AddIndirect(s, VarOf(x[1]), 1)
step_dec(s, i, x) == AddIndirect(s, VarOf(x[1]), -1)
step_inc_chk(s, i, x) ==
  Then(AddIndirect(s, VarOf(x[1]), 1), LAMBDA r :
    do_branch(r.vm, i, Signed(r.value) > Signed(x[2])))
step_dec_chk(s, i, x) ==
  Then(AddIndirect(s, VarOf(x[1]), -1), LAMBDA r :
    do_branch(r.vm, i, Signed(r.value) < Signed(x[2])))
step_load(s, i, x) ==
  Then(vm_read_variable_indirect(s, VarOf(x[1])), LAMBDA r :
    vm_write_variable(r.vm, i.store, r.value))
step_jump(s, i, x) ==
  Done([s EXCEPT !.pc = (s.pc + Signed(x[1]) - 2) % PcSpace])
step_call(s, i, x) == do_call(s, i, x)
step_ret(s, i, x) == do_return(s, x[1])
step_rtrue(s, i, x) == do_return(s, 1)
step_rfalse(s, i, x) == do_return(s, 0)
step_ret_popped(s, i, x) ==
  Then(vm_pop(s), LAMBDA r : do_return(r.vm, r.value))
step_pop(s, i, x) == vm_pop(s)
step_push(s, i, x) == vm_push(s, x[1])
step_pull(s, i, x) ==
  Then(vm_pop(s), LAMBDA r :
    vm_write_variable_indirect(r.vm, VarOf(x[1]), r.value))
\* The text goes to memory while output stream 3 is on; only then do_return.
step_print_ret(s, i, x) == do_return([s EXCEPT !.globals = Written(s.globals, i)], 1)
\* Output, input, objects, properties, memory: the globals lie in the memory
\* that storew, storeb, put_prop and sread write to.
step_effect(s, i, x) == Done([s EXCEPT !.globals = Written(s.globals, i)])
\* Left to the platform's terminal.
step_show_status(s, i, x) == Done(s)
\* An opcode that is not implemented, or whose data part fails.
step_bad(s, i, x) == Fail(s)
\* save: taken first, so that the state handed to the callback resumes behind
\* the branch.
step_save(s, i, x) == IF SaveConfigured THEN do_branch(s, i, TRUE) ELSE Fail(s)

\* step_2op, step_1op, step_0op and step_var: which handler runs.
step(s, i, x) ==
  CASE i.op = "je" -> step_je(s, i, x)
    [] i.op = "jz" -> step_jz(s, i, x)
    [] i.op = "test" -> step_test(s, i, x)
    [] i.op = "store" -> step_store(s, i, x)
    [] i.op = "result" -> step_result(s, i, x)
    [] i.op = "result_branch" -> step_result_branch(s, i, x)
    [] i.op = "inc" -> step_inc(s, i, x)
    [] i.op = "dec" -> step_dec(s, i, x)
    [] i.op = "inc_chk" -> step_inc_chk(s, i, x)
    [] i.op = "dec_chk" -> step_dec_chk(s, i, x)
    [] i.op = "load" -> step_load(s, i, x)
    [] i.op = "jump" -> step_jump(s, i, x)
    [] i.op = "call" -> step_call(s, i, x)
    [] i.op = "ret" -> step_ret(s, i, x)
    [] i.op = "rtrue" -> step_rtrue(s, i, x)
    [] i.op = "rfalse" -> step_rfalse(s, i, x)
    [] i.op = "ret_popped" -> step_ret_popped(s, i, x)
    [] i.op = "pop" -> step_pop(s, i, x)
    [] i.op = "push" -> step_push(s, i, x)
    [] i.op = "pull" -> step_pull(s, i, x)
    [] i.op = "print_ret" -> step_print_ret(s, i, x)
    [] i.op = "save" -> step_save(s, i, x)
    [] i.op = "effect" -> step_effect(s, i, x)
    [] i.op = "bad" -> step_bad(s, i, x)
    [] OTHER -> step_show_status(s, i, x)

\* A whole step: operands, default program counter, then the opcode.
vm_step(s, i) ==
  Then(resolve_operands(s, i), LAMBDA r :
    step([r.vm EXCEPT !.pc = NextPc(s, i)], i, r.value))

-----------------------------------------------------------------------------
(* What a story may execute next.  The Z-machine leaves it to the compiler *)
(* that a routine takes no more words off the stack than it put there; the *)
(* interpreter does not check it.  StackUse counts the words under the top *)
(* that an instruction reads, removes or replaces.                         *)

StackBase(s) == IF Len(s.frames) = 0 THEN 0 ELSE Last(s.frames).stack_base

StackOperands(i) ==
  {k \in 1 .. Len(i.operands) :
     i.operands[k].type = "variable" /\ VarOf(i.operands[k].raw) = 0}

\* The operand names a variable, and that may be the stack.
MayNameStack(i) ==
  /\ i.op \in {"store", "inc", "dec", "inc_chk", "dec_chk", "load", "pull"}
  /\ i.operands[1].type = "constant" => VarOf(i.operands[1].raw) = 0

StackUse(i) ==
  Cardinality(StackOperands(i))
    + (IF i.op \in {"pop", "pull", "ret_popped"} THEN 1 ELSE 0)
    + (IF MayNameStack(i) THEN 1 ELSE 0)

InstrsOf == [op \in Opcodes |-> {i \in Instrs : i.op = op}]

Offered(op) ==
  {i \in InstrsOf[op] :
     StackDiscipline => StackBase(vm) + StackUse(i) <= Len(vm.eval)}

StatusAfter(r) == IF r.ok THEN "running" ELSE "error"

Perform(op) ==
  /\ status = "running"
  /\ \E i \in Offered(op) :
       LET r == vm_step(vm, i)
       IN vm' = r.vm /\ status' = StatusAfter(r)
  /\ UNCHANGED slot

Je == Perform("je")
Jz == Perform("jz")
Test == Perform("test")
Store == Perform("store")
Result == Perform("result")
ResultBranch == Perform("result_branch")
Inc == Perform("inc")
Dec == Perform("dec")
IncChk == Perform("inc_chk")
DecChk == Perform("dec_chk")
Load == Perform("load")
Jump == Perform("jump")
Call == Perform("call")
Ret == Perform("ret")
Rtrue == Perform("rtrue")
Rfalse == Perform("rfalse")
RetPopped == Perform("ret_popped")
Pop == Perform("pop")
Push == Perform("push")
Pull == Perform("pull")
PrintRet == Perform("print_ret")
Effect == Perform("effect")
ShowStatus == Perform("show_status")
Bad == Perform("bad")

\* If the callback fails, the program counter is put back, and only that;
\* the copy kept before may be gone by then.
Save ==
  /\ status = "running"
  /\ \E i \in Offered("save") :
       LET r == vm_step(vm, i)
       IN /\ status' = StatusAfter(r)
          /\ \/ ~ r.ok /\ vm' = r.vm /\ slot' = slot
             \/ r.ok /\ vm' = r.vm /\ slot' = r.vm
             \/ /\ r.ok /\ vm' = [r.vm EXCEPT !.pc = NextPc(vm, i)]
                /\ slot' \in {slot, NoSave}

\* Restore never fails as an instruction: without a copy it falls through.
Restore ==
  /\ status = "running"
  /\ \E i \in Offered("restore") :
       \/ slot # NoSave /\ vm' = slot
       \/ vm' = [vm EXCEPT !.pc = NextPc(vm, i)]
  /\ UNCHANGED <<slot, status>>

Restart ==
  /\ status = "running"
  /\ \E i \in Offered("restart") :
       \/ vm' = InitialVm /\ status' = "running"
       \/ vm' = [vm EXCEPT !.pc = NextPc(vm, i)] /\ status' = "error"
  /\ UNCHANGED slot

Quit ==
  /\ status = "running"
  /\ \E i \in Offered("quit") :
       vm' = [vm EXCEPT !.pc = NextPc(vm, i)]
  /\ status' = "quit"
  /\ UNCHANGED slot

-----------------------------------------------------------------------------
Init == vm = InitialVm /\ slot = NoSave /\ status = "running"

Execute ==
  \/ Je \/ Jz \/ Test \/ Store \/ Result \/ ResultBranch \/ Inc \/ Dec
  \/ IncChk \/ DecChk \/ Load \/ Jump \/ Call \/ Ret \/ Rtrue \/ Rfalse
  \/ RetPopped \/ Pop \/ Push \/ Pull \/ PrintRet \/ Effect \/ ShowStatus
  \/ Bad \/ Quit

Reload == Restore \/ Restart

Next == Execute \/ Save \/ Reload

Spec == Init /\ [][Next]_vars

-----------------------------------------------------------------------------
\* Every part of the machine and of the saved copy stays in its range: the
\* stacks never outgrow their arrays and no frame has more than 15 locals.
MachineOK(s) ==
  /\ s \in Machine
  /\ Len(s.eval) <= EvalMax
  /\ Len(s.frames) <= FrameMax
  /\ \A k \in 1 .. Len(s.frames) : Len(s.frames[k].locals) <= LocalLimit

TypeOK ==
  /\ MachineOK(vm)
  /\ slot = NoSave \/ MachineOK(slot)
  /\ status \in {"running", "error", "quit"}

\* The frames cut the evaluation stack into consecutive segments, the last
\* of them the running routine's: no frame's stack_base lies above a later
\* frame's or above the top of the stack.  Holds for stories that keep the
\* discipline; the interpreter itself never enforces it.
Nested(s) ==
  /\ \A k \in 1 .. Len(s.frames) : s.frames[k].stack_base <= Len(s.eval)
  /\ \A j, k \in 1 .. Len(s.frames) :
       j <= k => s.frames[j].stack_base <= s.frames[k].stack_base

FramesNested == Nested(vm) /\ (slot # NoSave => Nested(slot))

\* A routine starts with all the words on the stack its callers', and whatever
\* it executes they are still there, in place, when the step is over; that
\* includes the step that returns.
CallerStackIntact ==
  [][~ Reload =>
       /\ Len(vm'.eval) >= StackBase(vm)
       /\ Prefix(vm'.eval, StackBase(vm)) = Prefix(vm.eval, StackBase(vm))
       /\ Len(vm'.frames) > Len(vm.frames) => StackBase(vm') = Len(vm'.eval)]_vars

\* One step changes the frame stack at its top only: the caller of the
\* running routine may receive a result in one of its locals when the routine
\* returns, and no frame deeper than that ever changes.
CallersIntact ==
  [][~ Reload =>
       LET deep == Len(vm.frames) - 2
       IN /\ Len(vm'.frames) \in Len(vm.frames) - 1 .. Len(vm.frames) + 1
          /\ deep > 0 => Prefix(vm'.frames, deep) = Prefix(vm.frames, deep)
          /\ Len(vm'.frames) >= Len(vm.frames) /\ deep >= 0 =>
               Prefix(vm'.frames, deep + 1) = Prefix(vm.frames, deep + 1)]_vars

\* How far an instruction moves the top of the stack when no routine starts or
\* ends: one word down for each operand taken from it and for pop and pull,
\* one word up for push and for a result stored in variable 0.  An operand
\* that names variable 0 indirectly moves nothing.
StackEffect(i) ==
  (IF i.op = "push" THEN 1 ELSE 0)
    + (IF i.op \in {"result", "result_branch", "load", "call"} /\ i.store = 0
       THEN 1 ELSE 0)
    - (IF i.op \in {"pop", "pull"} THEN 1 ELSE 0)
    - Cardinality(StackOperands(i))

\* Direct access to variable 0 pops or pushes and indirect access works in
\* place (vm_read_variable, vm_read_variable_indirect and their writing
\* counterparts), for every opcode that reaches the stack through them.
StackAccounting ==
  status = "running" =>
    \A i \in Instrs :
      LET r == vm_step(vm, i)
      IN r.ok /\ Len(r.vm.frames) = Len(vm.frames)
           => Len(r.vm.eval) = Len(vm.eval) + StackEffect(i)
=============================================================================
