----------------------------- MODULE ZRefinesVm -----------------------------
(***************************************************************************)
(* The port implements the reference interpreter.  Its memory up to the    *)
(* stack pointer is the reference's evaluation stack, and a bank and an    *)
(* offset are one address.  The reference counts addresses modulo 2^16; it *)
(* is taken here with as many banks as the port.                           *)
(***************************************************************************)
EXTENDS ZDispatch

Address(bank, offset) == bank * WordMod + offset

HostFrame(f) ==
  [ return_pc |-> Address(f.return_pc_bank, f.return_pc),
    store_variable |-> f.store_variable, locals |-> f.locals,
    stack_base |-> f.stack_base ]

HostVm(s) ==
  [ eval |-> Prefix(s.zsmem, s.zsptr),
    frames |-> [k \in 1 .. Len(s.frames) |-> HostFrame(s.frames[k])],
    globals |-> s.globals,
    pc |-> Address(s.zdisp_pc_bank, s.zdisp_pc) ]

HostSlot == IF slot = NoSave THEN NoSave ELSE HostVm(slot)

Host == INSTANCE VmDispatch WITH
          vm <- HostVm(z), slot <- HostSlot, SaveConfigured <- TRUE,
          StackDiscipline <- FALSE

ASSUME HostNoSaveAssumption == NoSave \notin Host!Machine

\* The port has no output stream 3, which sends text to the globals' memory.
ASSUME PrintAssumption == \A i \in Instrs : i.op = "print_ret" => DOMAIN i.writes = {}

\* Nor has it a story to start again from, or a status line.
Unsupported == {"restart", "show_status"}

\* Both interpreters run instruction i from the same state: they fail on the
\* same instructions and otherwise reach the same state, stale words above the
\* stack pointer, scratch words and banks notwithstanding.
StepAgrees(s, i) ==
  LET port == zdisp_step(s, i)
      host == Host!vm_step(HostVm(s), i)
  IN ~ port.vm.astray =>
       /\ port.ok = host.ok
       /\ port.ok => HostVm(port.vm) = host.vm

\* In every state a story can bring the port to, each instruction it might
\* execute next does in lib/zdispatch.asm what it does in host/dispatch.c.
InstructionsAgree ==
  z.astray \/ \A i \in Instrs : i.op \in Unsupported \/ StepAgrees(z, i)

\* The reference fails as well, or goes on where the port has no such opcode.
HostStops ==
  /\ status = "running" /\ status' = "error" /\ slot' = slot
  /\ \E i \in Instrs : i.op \in Unsupported \/ ~ Host!vm_step(HostVm(z), i).ok

\* The port as a whole, saves and restores included, is the reference: its
\* start is the reference's and each of its steps is one of the reference's,
\* for as long as the story is not astray.
Implements ==
  Host!Init /\ [][z'.astray \/ Host!Next \/ HostStops]_vars

\* lib/zdispatch.asm on save: "then undone (zdisp_pc reset to the fallthrough
\* zdisp_step already committed before dispatch) only if zdisp_save_game
\* actually fails".
FailedSaveFallsThrough ==
  [][Save /\ z.frames # <<>> /\ slot' \in {slot, NoSave} /\ slot' # z' =>
       \E i \in InstrsOf["save"] :
         LET next == Fallthrough(z, i)
         IN z'.zdisp_pc = next.zdisp_pc /\ z'.zdisp_pc_bank = next.zdisp_pc_bank]_vars
=============================================================================
