------------------------------- MODULE ZStory -------------------------------
(***************************************************************************)
(* The reference interpreter on stories as they are, byte by byte: the     *)
(* instructions of host/dispatch.c whose data VmDispatch leaves open.      *)
(* The interpreter decodes an instruction from the story's bytes, resolves *)
(* its operands and runs it.  Text, tokens and the port's multiplication   *)
(* and division, which runs beside the reference's, are jobs of one step   *)
(* for each pass of the loop.  A story goes on at any of its instructions  *)
(* (its calls and returns are VmDispatch's).  Stories are what ZAsm        *)
(* assembles, and ghost variables keep what their authors mean.            *)
(***************************************************************************)
EXTENDS ZProp, ZArith, ZAsm

CONSTANTS
  Stories,    \* the stories, each with the code and objects it was made from
  StackLimit  \* 1024 in the code: words of the evaluation stack

\* Bytes make words of 16 bits, and a story is a file of bytes, none of which is
\* out of reach of an address.
ASSUME WidthIs16 == Width = 16
ASSUME StackLimitAssumption == StackLimit \in Nat
ASSUME StoriesAssumption ==
  \A s \in Stories :
    /\ s.image \in [0 .. Cardinality(DOMAIN s.image) - 1 -> Byte]
    /\ IsFiniteSet(DOMAIN s.image) /\ Cardinality(DOMAIN s.image) <= AddrMod
    /\ {s.dyn, s.globals, s.objects, s.abbreviations, s.dictionary} \subseteq Nat
    /\ DOMAIN s.code \subseteq Nat /\ s.lines \subseteq Seq(Byte)

VARIABLES
  story,   \* the story that is played
  vm,      \* the machine: image, eval, pc, out (what the instruction has
           \* printed) and table (where output stream 3 goes)
  job,     \* the loop under way
  status,  \* "running", "error", "undefined": what was read is no value, or
           \* "endless": in a loop that is never left
  done,    \* the instruction executed last, its operands and its result
  world,   \* ghost: the objects as the story's author sees them
  hidden   \* ghost: what should be in the table of output stream 3

vars == <<story, vm, job, status, done, world, hidden, arith>>

NoJob == [kind |-> "none"]
NoInstr == [category |-> "none", opcode |-> 0]
Busy == job # NoJob \/ phase \in {"mul", "div"} \/ status = "endless"
Ready == status = "running" /\ ~ Busy

-----------------------------------------------------------------------------
(* Operands, variables and results.  No routine is ever called here, so    *)
(* that a local variable and a return are errors.                          *)

GlobalAddress(v) == story.globals + (v - 16) * 2

\* An outcome on the image is one on the machine.
On(s, r) == [r EXCEPT !.vm = [s EXCEPT !.image = r.vm]]

vm_read_variable(s, v) ==
  CASE v = 0 -> IF s.eval = <<>> THEN Fail(s)
                ELSE Value([s EXCEPT !.eval = Front(s.eval)], Last(s.eval))
    [] v \in 1 .. 15 -> Fail(s)
    [] OTHER -> On(s, read16(s.image, GlobalAddress(v)))

vm_write_variable_mutant(s, v, w) ==
  CASE v = 0 -> IF Len(s.eval) > StackLimit THEN Fail(s)
                ELSE Done([s EXCEPT !.eval = Append(s.eval, w)])
    [] v \in 1 .. 15 -> Fail(s)
    [] OTHER -> On(s, WriteBytes(s.image, story.dyn, GlobalAddress(v),
                                 <<ByteOf(w, 1), ByteOf(w, 0)>>))

vm_write_variable(s, v, w) ==
  CASE v = 0 -> IF Len(s.eval) >= StackLimit THEN Fail(s)
                ELSE Done([s EXCEPT !.eval = Append(s.eval, w)])
    [] v \in 1 .. 15 -> Fail(s)
    [] OTHER -> On(s, WriteBytes(s.image, story.dyn, GlobalAddress(v),
                                 <<ByteOf(w, 1), ByteOf(w, 0)>>))

resolve_operands(s, i) ==
  AllOf(Value(s, <<>>), Len(i.types), LAMBDA q, k :
    IF i.types[k] = "variable"
    THEN AndThen(vm_read_variable(q.vm, i.operands[k]), LAMBDA x :
           Value(x.vm, Append(q.value, x.value)))
    ELSE Value(q.vm, Append(q.value, i.operands[k])))

do_branch(s, i, condition) ==
  IF condition # i.branch.on_true THEN Done(s)
  ELSE IF i.branch.offset \in {0, 1} THEN Fail(s)
  ELSE Done([s EXCEPT !.pc = (s.pc + i.branch.offset - 2) % AddrMod])

-----------------------------------------------------------------------------
(* What an instruction computes: outcomes on the image.                    *)

\* Division and remainder of C: toward zero.
Sign(n) == IF n < 0 THEN -1 ELSE 1
Quotient(a, b) == Sign(a) * Sign(b) * (Abs(a) \div Abs(b))
Remainder(a, b) == a - b * Quotient(a, b)

\* The operators | and & of C.
BitsOf(w) == {n \in 0 .. Width - 1 : (w \div Pow2[n]) % 2 = 1}
WordWith(bits) ==
  LET low[n \in 0 .. Width] ==
        IF n = 0 THEN 0 ELSE low[n - 1] + (IF n - 1 \in bits THEN Pow2[n - 1] ELSE 0)
  IN low[Width]

ResultOpcodes ==
  [two |-> {8, 9} \cup 15 .. 21, one |-> {3, 4, 15}, zero |-> {}, var |-> {}]
ArithmeticOpcodes == [two |-> 22 .. 24, one |-> {}, zero |-> {}, var |-> {}]

\* mul, div and mod
Arithmetic(image, i, x) ==
  LET a == AsSigned(x[1])
      b == AsSigned(x[2])
  IN IF i.opcode = 22 THEN Value(image, (a * b) % Size)
     ELSE IF b = 0 THEN Fail(image)
     ELSE Value(image, (IF i.opcode = 23 THEN Quotient(a, b) ELSE Remainder(a, b)) % Size)

Result(image, i, x) ==
  LET objects == story.objects
      o == x[1] % 256
      p == x[2] % 256
      code == <<i.category, i.opcode>>
  IN CASE code = <<"two", 8>> -> Value(image, WordWith(BitsOf(x[1]) \cup BitsOf(x[2])))
       [] code = <<"two", 9>> -> Value(image, WordWith(BitsOf(x[1]) \cap BitsOf(x[2])))
       [] code = <<"two", 15>> -> read16(image, x[1] + 2 * x[2])
       [] code = <<"two", 16>> -> read8(image, x[1] + x[2])
       [] code = <<"two", 17>> -> prop_get(image, objects, o, p)
       [] code = <<"two", 18>> -> prop_get_addr(image, objects, o, p)
       [] code = <<"two", 19>> -> prop_get_next(image, objects, o, p)
       [] code = <<"two", 20>> -> Value(image, (x[1] + x[2]) % Size)
       [] code = <<"two", 21>> -> Value(image, (x[1] - x[2]) % Size)
       [] code = <<"one", 3>> -> obj_get_parent(image, objects, o)
       [] code = <<"one", 4>> -> prop_get_len(image, x[1])
       [] OTHER -> Value(image, Size - 1 - x[1])

TestOpcodes == [two |-> {1, 2, 3, 6, 7, 10}, one |-> {0}, zero |-> {}, var |-> {}]

\* je with one operand or none compares nothing.
TestOf(image, i, x) ==
  LET code == <<i.category, i.opcode>>
  IN CASE code = <<"two", 1>> -> Value(image, \E k \in 2 .. Len(x) : x[k] = x[1])
       [] code = <<"two", 2>> -> Value(image, AsSigned(x[1]) < AsSigned(x[2]))
       [] code = <<"two", 3>> -> Value(image, AsSigned(x[1]) > AsSigned(x[2]))
       [] code = <<"two", 6>> ->
            AndThen(obj_get_parent(image, story.objects, x[1] % 256), LAMBDA r :
              Value(image, r.value = x[2] % 256))
       [] code = <<"two", 7>> -> Value(image, BitsOf(x[2]) \subseteq BitsOf(x[1]))
       [] code = <<"two", 10>> ->
            obj_test_attr(image, story.objects, x[1] % 256, x[2] % 256)
       [] OTHER -> Value(image, x[1] = 0)

EffectOpcodes == [two |-> {11, 12}, one |-> {}, zero |-> {}, var |-> {1, 2, 3}]

\* set_attr, clear_attr, storew, storeb and put_prop
Effect(image, i, x) ==
  LET dyn == story.dyn
      o == x[1] % 256
      p == x[2] % 256
      code == <<i.category, i.opcode>>
  IN CASE code = <<"two", 11>> -> obj_write_attr(image, dyn, story.objects, o, p, 1)
       [] code = <<"two", 12>> -> obj_write_attr(image, dyn, story.objects, o, p, 0)
       [] code = <<"var", 1>> ->
            WriteBytes(image, dyn, x[1] + 2 * x[2], <<ByteOf(x[3], 1), ByteOf(x[3], 0)>>)
       [] code = <<"var", 2>> -> write8(image, dyn, x[1] + x[2], ByteOf(x[3], 0))
       [] OTHER -> prop_put(image, dyn, story.objects, o, p, x[3])

\* What the author makes of the same instruction.
WorldAfter(i, x) ==
  LET code == <<i.category, i.opcode>>
      data == DataOf(world.properties[x[1]], x[2])
      new == IF Len(data) = 1 THEN <<ByteOf(x[3], 0)>> ELSE <<ByteOf(x[3], 1), ByteOf(x[3], 0)>>
  IN CASE code = <<"two", 11>> -> [world EXCEPT !.attributes[x[1]] = @ \cup {x[2]}]
       [] code = <<"two", 12>> -> [world EXCEPT !.attributes[x[1]] = @ \ {x[2]}]
       [] code = <<"var", 3>> ->
            [world EXCEPT !.properties[x[1]][PlaceOf(world.properties[x[1]], x[2])].data = new]
       [] OTHER -> world

-----------------------------------------------------------------------------
(* Output.                                                                 *)

\* One place for everything that is printed: to the table or to the screen.
vm_emit(s, c) ==
  IF s.table.active
  THEN AndThen(On(s, write8(s.image, story.dyn, s.table.at + 2 + s.table.count, c)), LAMBDA r :
         Done([r.vm EXCEPT !.table.count = (@ + 1) % Size]))
  ELSE Done([s EXCEPT !.out = Append(s.out, c)])

EmitAll(s, chars) == AllOf(Done(s), Len(chars), LAMBDA q, k : vm_emit(q.vm, chars[k]))

\* The digits of a number, found from the last to the first.
emit_decimal(s, value) ==
  LET magnitude == Abs(value)
      count == 1 + Passes(4, LAMBDA n : magnitude < 10 ^ (n + 1))
      digit(k) == 48 + ((magnitude \div (10 ^ (count - k))) % 10)
  IN EmitAll(s, (IF value < 0 THEN <<45>> ELSE <<>>) \o [k \in 1 .. count |-> digit(k)])

PrintOpcodes == [two |-> {}, one |-> {}, zero |-> {11}, var |-> {5, 6}]

\* new_line, print_char and print_num
print_chars(s, i, x) ==
  IF i.category = "zero" THEN vm_emit(s, 10)
  ELSE IF i.opcode = 5 THEN vm_emit(s, x[1] % 256)
  ELSE emit_decimal(s, AsSigned(x[1]))

output_stream_mutant(s, i, x) ==
  LET number == AsSigned(x[1])
      table == s.table
  IN CASE number = 3 ->
            IF table.active \/ Len(x) < 2 THEN Fail(s)
            ELSE Done([s EXCEPT !.table.active = TRUE, !.table.at = x[2]])
       [] number = -3 ->
            IF ~ table.active THEN Fail(s)
            ELSE AndThen(On(s, WriteBytes(s.image, story.dyn, table.at,
                                          <<ByteOf(table.count, 1), ByteOf(table.count, 0)>>)),
                   LAMBDA r : Done([r.vm EXCEPT !.table.active = FALSE]))
       [] OTHER -> Done(s)

output_stream(s, i, x) ==
  LET number == AsSigned(x[1])
      table == s.table
  IN CASE number = 3 ->
            IF table.active \/ Len(x) < 2 THEN Fail(s)
            ELSE Done([s EXCEPT !.table = [active |-> TRUE, at |-> x[2], count |-> 0]])
       [] number = -3 ->
            IF ~ table.active THEN Fail(s)
            ELSE AndThen(On(s, WriteBytes(s.image, story.dyn, table.at,
                                          <<ByteOf(table.count, 1), ByteOf(table.count, 0)>>)),
                   LAMBDA r : Done([r.vm EXCEPT !.table.active = FALSE]))
       [] OTHER -> Done(s)

\* Where a text to print starts and how many bytes of it may be read; print's
\* own is what the decoder has measured.
TextOpcodes == [two |-> {}, one |-> {7, 10, 13}, zero |-> {2}, var |-> {}]

print_ztext_at(s, a) ==
  IF a > Cardinality(DOMAIN s.image) THEN Fail(s)
  ELSE Value(s, zchar_stream_init(a, Remaining(s.image, a)))

TextOf(s, i, x) ==
  IF i.category = "zero" THEN Value(s, zchar_stream_init(i.addr + 1, i.length - 1))
  ELSE IF i.opcode = 7 THEN print_ztext_at(s, x[1])
  ELSE IF i.opcode = 13 THEN print_ztext_at(s, (x[1] * 2) % AddrMod)
  ELSE AndThen(On(s, obj_short_name(s.image, story.objects, x[1] % 256)), LAMBDA r :
         Value(s, zchar_stream_init(r.value.at, r.value.length)))

-----------------------------------------------------------------------------
(* Steps.                                                                  *)

\* How many operands the handler reads without looking at their number.
Needed(i) ==
  CASE i.category = "two" -> IF i.opcode \in 2 .. 24 THEN 2 ELSE 0
    [] i.category = "var" /\ i.opcode \in 1 .. 3 -> 3
    [] i.category = "var" /\ i.opcode = 4 -> 2
    [] i.category = "var" /\ i.opcode \in {5, 6, 7, 19} -> 1
    [] OTHER -> 0

StreamOpcodes == [two |-> {}, one |-> {}, zero |-> {}, var |-> {19}]
ReadOpcodes == [two |-> {}, one |-> {}, zero |-> {}, var |-> {4}]
RandomOpcodes == [two |-> {}, one |-> {}, zero |-> {}, var |-> {7}]
LinkOpcodes == [two |-> {}, one |-> {1, 2}, zero |-> {}, var |-> {}]
\* show_status is the platform's, and there is one input stream.
IdleOpcodes == [two |-> {}, one |-> {}, zero |-> {12}, var |-> {20}]

Shown(a) == story.code[a].says

\* What the story prints goes where output stream 3 says.
Printed(s, chars) == IF s.table.active THEN hidden \o chars ELSE hidden

\* Decoding, operands and the program counter behind the instruction.
Fetch(a) ==
  LET d == decode_instruction(vm.image, a)
      r == resolve_operands([vm EXCEPT !.out = <<>>], d.value)
  IN IF ~ d.ok THEN [d EXCEPT !.vm = vm]
     ELSE AndThen(r, LAMBDA q :
            Value([q.vm EXCEPT !.pc = (a + d.value.length) % AddrMod],
                  [i |-> d.value, x |-> q.value]))

StatusAfter(r) == IF r.ok THEN "running" ELSE IF r = Endless(r.vm) THEN "endless" ELSE "error"

\* The end of an instruction: its outcome, what it is and what it computed.
Finish(r, f, result) ==
  /\ vm' = r.vm /\ status' = StatusAfter(r)
  /\ done' = [i |-> f.i, x |-> f.x, result |-> IF r.ok THEN <<result>> ELSE <<>>]

\* An instruction of the given opcodes; f is its outcome so far.
Execute(opcodes, Run(_)) ==
  /\ Ready
  /\ \E a \in DOMAIN story.code : \E f \in {Fetch(a)} :
       /\ f.ok /\ f.value.i.opcode \in opcodes[f.value.i.category]
       /\ Len(f.value.x) >= Needed(f.value.i)
       /\ Run(f)
  /\ UNCHANGED story

Store ==
  /\ Execute(ResultOpcodes, LAMBDA f :
       LET r == Result(f.vm.image, f.value.i, f.value.x)
       IN Finish(AndThen(On(f.vm, r), LAMBDA q : vm_write_variable(q.vm, f.value.i.store, r.value)),
                 f.value, r.value))
  /\ UNCHANGED <<job, world, hidden, arith>>

\* The port's loop takes the same operands.
Compute ==
  /\ Execute(ArithmeticOpcodes, LAMBDA f :
       LET i == f.value.i
           x == f.value.x
           r == Arithmetic(f.vm.image, i, x)
       IN /\ Finish(AndThen(On(f.vm, r), LAMBDA q : vm_write_variable(q.vm, i.store, r.value)),
                    f.value, r.value)
          /\ IF i.opcode = 22 THEN zds_mul(x[1], x[2]) ELSE zds_div(x[1], x[2]))
  /\ UNCHANGED <<job, world, hidden>>

Branch ==
  /\ Execute(TestOpcodes, LAMBDA f :
       LET r == TestOf(f.vm.image, f.value.i, f.value.x)
       IN Finish(AndThen(On(f.vm, r), LAMBDA q : do_branch(q.vm, f.value.i, r.value)),
                 f.value, r.value))
  /\ UNCHANGED <<job, world, hidden, arith>>

\* get_sibling and get_child
StoreAndBranch ==
  /\ Execute(LinkOpcodes, LAMBDA f :
       LET i == f.value.i
           o == f.value.x[1] % 256
           r == IF i.opcode = 1 THEN obj_get_sibling(f.vm.image, story.objects, o)
                ELSE obj_get_child(f.vm.image, story.objects, o)
       IN Finish(AndThen(On(f.vm, r), LAMBDA q :
                   AndThen(vm_write_variable(q.vm, i.store, r.value), LAMBDA w :
                     do_branch(w.vm, i, r.value # 0))),
                 f.value, r.value))
  /\ UNCHANGED <<job, world, hidden, arith>>

Change ==
  /\ Execute(EffectOpcodes, LAMBDA f :
       LET r == Effect(f.vm.image, f.value.i, f.value.x)
       IN /\ Finish(On(f.vm, r), f.value, 0)
          /\ world' = IF r.ok THEN WorldAfter(f.value.i, f.value.x) ELSE world)
  /\ UNCHANGED <<job, hidden, arith>>

\* 1 + a remainder of the generator's next number; a range that is not
\* positive seeds it and gives 0.
Random ==
  /\ Execute(RandomOpcodes, LAMBDA f :
       LET range == AsSigned(f.value.x[1])
       IN \E n \in IF range > 0 THEN 1 .. range ELSE {0} :
            Finish(vm_write_variable(f.vm, f.value.i.store, n), f.value, n))
  /\ UNCHANGED <<job, world, hidden, arith>>

PrintShort ==
  /\ Execute(PrintOpcodes, LAMBDA f :
       /\ Finish(print_chars(f.vm, f.value.i, f.value.x), f.value, 0)
       /\ hidden' = Printed(f.vm, Shown(f.value.i.addr)))
  /\ UNCHANGED <<job, world, arith>>

OutputStream ==
  /\ Execute(StreamOpcodes, LAMBDA f :
       /\ Finish(output_stream(f.vm, f.value.i, f.value.x), f.value, 0)
       /\ hidden' = IF AsSigned(f.value.x[1]) = 3 THEN <<>> ELSE hidden)
  /\ UNCHANGED <<job, world, arith>>

Nothing ==
  /\ Execute(IdleOpcodes, LAMBDA f : Finish(Done(f.vm), f.value, 0))
  /\ UNCHANGED <<job, world, hidden, arith>>

\* Opcodes that version 3 does not have, or that this interpreter refuses.
Refused ==
  [two |-> {0} \cup 25 .. 31, one |-> {8}, zero |-> {4} \cup 13 .. 15, var |-> 10 .. 18 \cup 21 .. 31]

\* Bytes that are no instruction, operands that cannot be read.
Halt ==
  /\ Ready
  /\ \E a \in DOMAIN story.code : \E f \in {Fetch(a)} :
       /\ f.ok => f.value.i.opcode \in Refused[f.value.i.category]
       /\ vm' = f.vm /\ status' = IF f.ok THEN "error" ELSE StatusAfter(f)
  /\ UNCHANGED <<story, job, done, world, hidden, arith>>

\* The handler reads an operand that the instruction does not have.
MissingOperand ==
  /\ Ready
  /\ \E a \in DOMAIN story.code : \E f \in {Fetch(a)} :
       /\ f.ok /\ Len(f.value.x) < Needed(f.value.i)
       /\ vm' = f.vm /\ done' = [i |-> f.value.i, x |-> f.value.x, result |-> <<>>]
  /\ status' = "undefined" /\ UNCHANGED <<story, job, world, hidden, arith>>

-----------------------------------------------------------------------------
(* Jobs.                                                                   *)

PrintText ==
  /\ Execute(TextOpcodes, LAMBDA f :
       LET r == TextOf(f.vm, f.value.i, f.value.x)
       IN /\ Finish(r, f.value, r.value)
          /\ job' = IF r.ok THEN [kind |-> "text", streams |-> <<r.value>>] ELSE NoJob)
  /\ UNCHANGED <<world, hidden, arith>>

TextStep ==
  /\ status = "running" /\ job.kind = "text"
  /\ LET t == ztext_decode_step(vm.image, story.abbreviations, job.streams)
         r == EmitAll(vm, t.chars)
     IN /\ vm' = r.vm
        /\ status' = IF ~ r.ok \/ t.how = "error" THEN "error"
                     ELSE IF t.how = "undefined" THEN "undefined"
                     ELSE "running"
        /\ job' = IF r.ok /\ t.how = "more" THEN [job EXCEPT !.streams = t.streams] ELSE NoJob
        /\ hidden' = IF r.ok /\ t.how = "end" THEN Printed(vm, Shown(done.i.addr)) ELSE hidden
        /\ done' = IF t.how = "end" THEN [done EXCEPT !.result = <<Last(job.streams)>>] ELSE done
  /\ UNCHANGED <<story, world, arith>>

Lowercase(c) == IF c \in 65 .. 90 THEN c + 32 ELSE c

Sread_mutant ==
  /\ Execute(ReadOpcodes, LAMBDA f :
       LET text == f.value.x[1]
           limit == read8(f.vm.image, text)
       IN \E line \in story.lines :
            LET typed == [k \in DOMAIN line |-> Lowercase(line[k])]
            IN \E r \in { AndThen(limit, LAMBDA n :
                          AndThen(WriteBytes(n.vm, story.dyn, text + 1, Append(typed, 0)),
                            LAMBDA w : StartParse(w.vm, text + 1, Len(line), f.value.x[2]))) } :
                 /\ Finish(On(f.vm, r), f.value, line)
                 /\ job' = IF r.ok THEN [kind |-> "parse", at |-> r.value] ELSE NoJob)
  /\ UNCHANGED <<world, hidden, arith>>

\* The line is written in lower case and ended with a zero, then tokenized.
\* read_line is the platform's: a line, of which all must fit, or an error.
Sread ==
  /\ Execute(ReadOpcodes, LAMBDA f :
       LET text == f.value.x[1]
           limit == read8(f.vm.image, text)
       IN \/ \E line \in story.lines :
               LET typed == [k \in DOMAIN line |-> Lowercase(line[k])]
               IN \E r \in { AndThen(limit, LAMBDA n :
                             AndThen(IF n.value = 0 \/ Len(line) > n.value THEN Fail(n.vm)
                                     ELSE WriteBytes(n.vm, story.dyn, text + 1, Append(typed, 0)),
                                     LAMBDA w : StartParse(w.vm, text + 1, Len(line), f.value.x[2]))) } :
                    /\ Finish(On(f.vm, r), f.value, line)
                    /\ job' = IF r.ok THEN [kind |-> "parse", at |-> r.value] ELSE NoJob
          \/ Finish(Fail(f.vm), f.value, 0) /\ job' = NoJob)
  /\ UNCHANGED <<world, hidden, arith>>

ParseStep ==
  /\ status = "running" /\ job.kind = "parse"
  /\ \E r \in { IF ParseAtEnd(job.at) THEN ParseEnd(vm.image, story.dyn, job.at)
               ELSE ParsePass(vm.image, story.dyn, story.dictionary, job.at) } :
       /\ vm' = [vm EXCEPT !.image = r.vm]
       /\ status' = IF r.ok THEN "running" ELSE "error"
       /\ job' = IF r.ok /\ ~ ParseAtEnd(job.at) THEN [job EXCEPT !.at = r.value] ELSE NoJob
  /\ UNCHANGED <<story, done, world, hidden, arith>>

PortLoop == ArithLoop /\ UNCHANGED <<story, vm, job, status, done, world, hidden>>

-----------------------------------------------------------------------------
Init ==
  /\ story \in Stories
  /\ vm = [ image |-> story.image, eval |-> <<>>, pc |-> 0, out |-> <<>>,
            table |-> [active |-> FALSE, at |-> 0, count |-> 0] ]
  /\ job = NoJob /\ status = "running" /\ world = story.world /\ hidden = <<>>
  /\ done = [i |-> NoInstr, x |-> <<>>, result |-> <<>>]
  /\ ArithInit

Next ==
  \/ Store \/ Compute \/ Branch \/ StoreAndBranch \/ Change \/ Random \/ PrintShort
  \/ OutputStream \/ Nothing \/ Halt \/ MissingOperand
  \/ PrintText \/ TextStep \/ Sread \/ ParseStep \/ PortLoop

\* A loop of the interpreter is left by nothing but its own steps.
Spec == Init /\ [][Next]_vars /\ WF_vars(TextStep \/ ParseStep \/ PortLoop)

-----------------------------------------------------------------------------
TypeOK ==
  /\ vm.image \in [DOMAIN story.image -> Byte] /\ vm.pc \in 0 .. AddrMod - 1
  /\ vm.eval \in Seq(Bits) /\ Len(vm.eval) <= StackLimit
  /\ vm.out \in Seq(Byte) /\ vm.table \in [active : BOOLEAN, at : Bits, count : Bits]
  /\ ArithTypeOK
  /\ status \in {"running", "error", "undefined", "endless"}
  /\ job.kind \in {"none", "text", "parse"}

Ran(category, opcode) == done.i.category = category /\ done.i.opcode = opcode
Source == story.code[done.i.addr]

\* What a compiler can write: instructions of the shapes that host/decode.c knows,
\* the operands, variables and distances of which fit the bytes that are for them.
FormFits(i) ==
  /\ \/ /\ i.form = "long" /\ i.category = "two" /\ Len(i.types) = 2
        /\ \A k \in {1, 2} : i.types[k] # "large"
     \/ /\ i.form = "short" /\ i.opcode <= 15 /\ Len(i.types) <= 1
        /\ i.category = IF i.types = <<>> THEN "zero" ELSE "one"
     \/ i.form = "variable" /\ i.category \in {"two", "var"} /\ Len(i.types) <= 4
  /\ i.opcode \in 0 .. 31 /\ i.fill \in 0 .. 3
OperandsFit(i) ==
  /\ i.types \in Seq({"large", "small", "variable"}) /\ i.operands \in Seq(Bits)
  /\ Len(i.operands) = Len(i.types)
  /\ \A k \in DOMAIN i.types : i.types[k] # "large" => i.operands[k] \in Byte
Distances(wide) == IF wide THEN -8192 .. 8191 ELSE 0 .. 63
BranchFits(i) ==
  i.wide \in BOOLEAN /\ i.branch \in [on_true : BOOLEAN, offset : Distances(i.wide)]
WellFormed(i) ==
  /\ FormFits(i) /\ OperandsFit(i)
  /\ i.stores <=> i.opcode \in Stores[i.category]
  /\ i.stores => i.store \in Byte
  /\ i.branches <=> i.opcode \in Branches[i.category]
  /\ i.branches => BranchFits(i)
  /\ i.inline <=> i.opcode \in HasText[i.category]
  /\ i.inline => AllWritten(i.text) \in Seq(0 .. 31)

\* Where the words of an instruction are in its bytes: large operands, and text.
WordPlaces(i) ==
  LET before(k) ==
        OperandBytes([types |-> Prefix(i.types, k - 1), operands |-> i.operands])
      large == {k \in DOMAIN i.types : i.types[k] = "large"}
      words == IF i.inline THEN Len(Packed(AllWritten(i.text))) \div 2 ELSE 0
  IN {Len(OpcodeBytes(i)) + Len(before(k)) : k \in large}
       \cup {Len(Assembled(i)) - 2 * m : m \in 1 .. words}

\* As far as a story's image goes, its instructions are there as they were
\* assembled.  One may go on at the other end of the address space, but none of
\* its words may: the interpreter does not read such a word.
AsWritten(s) ==
  \A a \in DOMAIN s.code :
    LET i == s.code[a]
        bytes == Assembled(i)
        at(n) == (a + n) % AddrMod
    IN /\ WellFormed(i) /\ Len(bytes) < AddrMod
       /\ i.whole <=> \A n \in 0 .. Len(bytes) - 1 : at(n) \in DOMAIN s.image
       /\ \A n \in 0 .. Len(bytes) - 1 :
            at(n) \in DOMAIN s.image => s.image[at(n)] = bytes[n + 1]
       /\ \A n \in WordPlaces(i) : at(n) # AddrMod - 1

ASSUME CodeAssumption == \A s \in Stories : AsWritten(s)

\* host/decode.c: from the bytes of every form of instruction the decoder takes
\* what the compiler put there, to the byte, and an instruction of which any
\* byte is missing is refused.
DecodedAsAssembled ==
  done.i = NoInstr =>
  \A a \in DOMAIN story.code :
    LET i == story.code[a]
        d == decode_instruction(vm.image, a)
        v == d.value
    IN IF ~ i.whole THEN ~ d.ok
       ELSE /\ d.ok /\ v.category = i.category /\ v.opcode = i.opcode
            /\ v.types = i.types /\ v.operands = i.operands
            /\ i.stores => v.store = i.store
            /\ i.branches => v.branch = i.branch
            /\ v.length = Len(Assembled(i))

\* host/decode.c measures an inline text, host/ztext.c reads it: it ends with the
\* word that says so and where the next instruction starts, whatever
\* abbreviations the text goes through.  The text must not be written to while
\* it is printed, nor take up the whole address space, which makes it measure 0.
TextIsMeasured ==
  /\ Ready /\ Ran("zero", 2) /\ done.i.length > 1
  /\ vm.table.active => story.dyn <= done.i.addr
  => done.result[1].final /\ done.result[1].at % AddrMod = vm.pc

\* host/ztext.c, vm_emit and emit_decimal: what appears is what was written,
\* alphabets, shifts, padding and abbreviations (the last z-char of a text
\* included), and never anything while output stream 3 is on.
PrintsWhatIsWritten ==
  done.i # NoInstr =>
    /\ Ready /\ Source.sound => vm.out = IF vm.table.active THEN <<>> ELSE Source.says
    /\ status = "error" /\ done.i.opcode \in TextOpcodes[done.i.category] =>
         ~ Source.sound \/ vm.table.active

\* vm_emit: the table of output stream 3 gets what would have been printed,
\* from its third byte on, and its length when it is closed.
TableBytes(from, n) == [k \in 1 .. n |-> vm.image[(vm.table.at + from + (k - 1)) % AddrMod]]

StreamKeepsText ==
  Ready =>
    /\ vm.table.active =>
         vm.table.count = Len(hidden) /\ TableBytes(2, Len(hidden)) = hidden
    /\ Ran("var", 19) /\ AsSigned(done.x[1]) = -3 =>
         TableBytes(0, 2 + Len(hidden)) = <<Len(hidden) \div 256, Len(hidden) % 256>> \o hidden

-----------------------------------------------------------------------------
\* The words of a line: where each starts, and the place behind it.
Apart(c) == c = 32 \/ c \in story.separators
Begins(line, p) ==
  line[p] # 32 /\ (p = 1 \/ line[p] \in story.separators \/ Apart(line[p - 1]))
PlaceBehind(line, p) ==
  IF line[p] \in story.separators THEN p + 1
  ELSE CHOOSE q \in p + 1 .. Len(line) + 1 :
         (\A r \in p .. q - 1 : ~ Apart(line[r])) /\ (q <= Len(line) => Apart(line[q]))
StartsOf(line) == SelectSeq([p \in DOMAIN line |-> p], LAMBDA p : Begins(line, p))
WordsOf(line) ==
  [k \in DOMAIN StartsOf(line) |->
     SubSeq(line, StartsOf(line)[k], PlaceBehind(line, StartsOf(line)[k]) - 1)]

\* A character without z-char matters if it comes before the six are full.
Unwritable(word) ==
  \E k \in DOMAIN word :
    /\ ~ HasZchar(word[k]) /\ \A m \in 1 .. k - 1 : HasZchar(word[m])
    /\ Len(AllWritten(SubSeq(word, 1, k - 1))) < 6

\* The first of the dictionary's words with the same six z-chars.
Known(word) ==
  LET same == {k \in DOMAIN story.words : SixZchars(story.words[k]) = SixZchars(word)}
  IN IF same = {} THEN 0 ELSE story.entries + (Earliest(same) - 1) * story.entry_length

ParseEntry(word, start) ==
  <<Known(word) \div 256, Known(word) % 256, Len(word), start>>

\* host/parser.c and host/dictionary.c: the parse buffer holds the words of the
\* line, as many as it has room for, each with its place, its length and its
\* dictionary entry, the one whose six z-chars are those of the typed word.
\* The interpreter stops only at a word that cannot be written in z-chars.
ParsedAsTyped ==
  Ran("var", 4) /\ done.result # <<>> =>
    LET line == [k \in DOMAIN done.result[1] |-> Lowercase(done.result[1][k])]
        buffer == done.x[2]
        words == WordsOf(line)
        count == Smaller(Len(words), vm.image[buffer])
        bytes == FlattenSeq([k \in 1 .. count |-> ParseEntry(words[k], StartsOf(line)[k])])
    IN /\ status = "error" =>
            ~ story.sound \/ \E k \in 1 .. count : Unwritable(words[k])
       /\ Ready =>
            /\ \A k \in 1 .. count : ~ Unwritable(words[k])
            /\ [k \in 1 .. 4 * count + 1 |-> vm.image[buffer + k]] = <<count>> \o bytes

\* sread: no line, however long, changes a byte outside the two buffers that the
\* instruction names, the terminating zero included: first the text buffer,
\* whose first byte says how long a line may be, then word after word the parse
\* buffer, whose first byte said how many words it has room for.
BytesBehind(a, n) == {(a + k) % AddrMod : k \in 1 .. n}
ReadBuffer ==
  IF job.kind = "parse" THEN BytesBehind(done.x[2], 1 + 4 * job.at.limit)
  ELSE BytesBehind(done'.x[1], 1 + vm.image[done'.x[1] % AddrMod])

InputStaysInside ==
  [][Ran("var", 4)' =>
       \A a \in DOMAIN vm.image : vm'.image[a] # vm.image[a] => a \in ReadBuffer]_vars

-----------------------------------------------------------------------------
\* host/objects.c, host/properties.c: writing an attribute or a property changes
\* that one, of that object, and no other byte of the objects: they stay what
\* the author means.
ObjectsAreMeant ==
  \A o \in DOMAIN world.attributes :
    LET entry == obj_entry_addr(story.objects, o)
        properties == PropertyTable(story.names[o], world.properties[o])
    IN /\ \A n \in 0 .. 3 : vm.image[entry + n] = AttributesByte(world.attributes[o], n)
       /\ \A n \in 4 .. 8 : vm.image[entry + n] = story.image[entry + n]
       /\ \A k \in DOMAIN properties : vm.image[story.tables[o] + k - 1] = properties[k]

WordOrByte(data) == IF Len(data) = 1 THEN data[1] ELSE 256 * data[1] + data[2]

\* The results of test_attr, get_prop, get_next_prop, put_prop on objects.
AttributeMeant(o, a) == IF o = 0 \/ a > 31 THEN <<>> ELSE <<a \in world.attributes[o]>>
PropertyMeant(o, p) ==
  IF o = 0 \/ p \notin 1 .. 31 THEN <<>>
  ELSE IF HasProperty(world.properties[o], p) THEN <<WordOrByte(DataOf(world.properties[o], p))>>
  ELSE <<story.defaults[p]>>
NextMeant(o, p) ==
  LET list == world.properties[o]
      k == IF p = 0 THEN 1 ELSE PlaceOf(list, p) + 1
  IN IF o = 0 \/ (p # 0 /\ ~ HasProperty(list, p)) THEN <<>>
     ELSE IF k > Len(list) THEN <<0>>
     ELSE <<list[k].number>>
PutMeant(o, p) ==
  IF o # 0 /\ HasProperty(world.properties[o], p)
       /\ Len(DataOf(world.properties[o], p)) <= 2
  THEN <<0>> ELSE <<>>

\* host/properties.c: every read finds the author's value, the default of a
\* property that the object does not have, all the properties in their order
\* and their data where get_prop_addr says, and fails for what does not exist.
ObjectReadsExact ==
  LET o == done.x[1]
      p == done.x[2]
      list == world.properties[o]
  IN done.i # NoInstr /\ world.attributes # <<>> =>
     /\ Ran("two", 10) => done.result = AttributeMeant(o, p)
     /\ Ran("two", 17) => done.result = PropertyMeant(o, p)
     /\ Ran("two", 19) => done.result = NextMeant(o, p)
     /\ Ran("var", 3) => done.result = PutMeant(o, p)
     /\ Ran("two", 18) /\ o # 0 /\ p \in 1 .. 31 =>
          IF HasProperty(list, p)
          THEN LET data == DataOf(list, p)
                   at == done.result[1]
               IN /\ [k \in DOMAIN data |-> vm.image[at + k - 1]] = data
                  /\ prop_get_len(vm.image, at).value = Len(data)
          ELSE done.result = <<0>>

-----------------------------------------------------------------------------
\* lib/zdispatch.asm's loops and the operators of C in host/dispatch.c give the
\* same product, quotient and remainder, and fail for the same divisor.  What
\* fails besides is only the result's variable.
PortAgrees ==
  LET answer == IF phase = "product" \/ done.i.opcode = 23 THEN rd ELSE rc
  IN /\ done.i # NoInstr /\ done.i.opcode \in ArithmeticOpcodes[done.i.category]
     /\ ~ Busy /\ status # "undefined"
     => \/ phase # "fail" /\ done.result = <<answer>>
        \/ /\ done.result = <<>>
           /\ phase = "fail" \/ ~ vm_write_variable(vm, done.i.store, 0).ok

\* No value is used that was never written: neither an operand that an
\* instruction lacks nor a byte behind the image.  The code does not see to this
\* where an instruction in the variable form lacks operands, where an inline
\* text runs across the end of the address space, and where a name is longer
\* than the image.  Texts at addresses and abbreviations are safe, whatever the
\* story contains.
StaysDefined ==
  status = "undefined" =>
    \/ Len(done.x) < Needed(done.i)
    \/ /\ Ran("zero", 2) \/ Ran("one", 10)
       /\ done.result[1].at + done.result[1].left > Cardinality(DOMAIN vm.image)

\* No text, no line and no operands keep a loop of the interpreter going for
\* ever, with two exceptions: host/decode.c may look for the end of an inline
\* text, and host/properties.c for a property, round and round the address
\* space, if the story leaves no room behind it for a property's entry.
LongestEntry == 9
FillsMemory == Cardinality(DOMAIN story.image) + LongestEntry > AddrMod
InstructionsEnd == Busy ~> (~ Busy \/ (status = "endless" /\ FillsMemory))
=============================================================================
