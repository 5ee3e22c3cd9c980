------------------------------ MODULE ZDecode ------------------------------
(***************************************************************************)
(* The reference decoder, host/decode.c: from the bytes at an address to   *)
(* an instruction.  Every routine moves a cursor, which is the state of    *)
(* its outcome, and fails if a byte that it needs is not in the story.     *)
(* Addresses wrap after AddrMod, so that the cursor may pass the end of an *)
(* image that fills the address space; bytes and words keep their width.   *)
(***************************************************************************)
EXTENDS StoryMem, FiniteSets

CONSTANT AddrMod  \* 2^16 in the code: addresses wrap modulo AddrMod

ASSUME AddrModAssumption == AddrMod \in 2 .. 2 ^ 16 /\ AddrMod % 2 = 0

Byte == 0 .. 255

Earliest(S) == CHOOSE n \in S : \A m \in S : n <= m

\* How many passes a loop makes before the one that leaves it, n at most.
Passes(n, Leaves(_)) ==
  CHOOSE k \in 0 .. n : (k = n \/ Leaves(k)) /\ \A m \in 0 .. k - 1 : ~ Leaves(m)

\* Byte n of a number, and bit n of a byte.
ByteOf(w, n) == (w \div 256 ^ n) % 256
Bit(b, n) == (b \div 2 ^ n) % 2

\* Then, for outcomes that cost much to work out: r is worked out once.
AndThen(r, Op(_)) == CHOOSE o \in {Then(q, Op) : q \in {r}} : TRUE

\* Op for 1 to n, one after another, until one fails.
AllOf(r, n, Op(_, _)) ==
  LET To[k \in 0 .. n] == IF k = 0 THEN r ELSE AndThen(To[k - 1], LAMBDA q : Op(q, k))
  IN To[n]

\* A loop that would never be left: no outcome that the code ever reports.
Endless(s) == [ok |-> FALSE, vm |-> s, value |-> 1]

read8(image, a) == story_mem_read8(image, a % AddrMod)
read16(image, a) == story_mem_read16(image, AddrMod - 1, a % AddrMod, 256)

-----------------------------------------------------------------------------
(* Definitions named .._mutant are slips that the code does not have; no    *)
(* specification uses them.                                                *)

Advance(at, n, r) == IF r.ok THEN Value((at + n) % AddrMod, r.value) ELSE Fail(at)

read_byte(image, at) == Advance(at, 1, read8(image, at))
read_word(image, at) == Advance(at, 2, read16(image, at))

decode_operand_type(bits) ==
  CASE bits = 0 -> "large" [] bits = 1 -> "small" [] OTHER -> "variable"

TypeField(types, k) == (types \div 4 ^ (4 - k)) % 4

VarTypes_mutant(types) ==
  LET given == SelectSeq(<<1, 2, 3, 4>>, LAMBDA k : TypeField(types, k) # 3)
  IN [k \in 1 .. Len(given) |-> decode_operand_type(TypeField(types, given[k]))]

\* The first field that says "omitted" ends the list.
VarTypes(types) ==
  LET last == Passes(4, LAMBDA k : TypeField(types, k + 1) = 3)
  IN [k \in 1 .. last |-> decode_operand_type(TypeField(types, k))]

SmallOr(variable) == IF variable = 1 THEN "variable" ELSE "small"

\* The form that the top two bits of the opcode byte give: category, opcode and
\* the types of the operands, for which the variable form reads one more byte.
DecodeForm(image, at, b) ==
  IF b >= 192
  THEN AndThen(read_byte(image, at), LAMBDA t :
         Value(t.vm, [ category |-> IF Bit(b, 5) = 1 THEN "var" ELSE "two",
                       opcode |-> b % 32, types |-> VarTypes(t.value) ]))
  ELSE IF b >= 128
  THEN LET bits == (b \div 16) % 4
       IN Value(at, [ category |-> IF bits = 3 THEN "zero" ELSE "one", opcode |-> b % 16,
                      types |-> IF bits = 3 THEN <<>> ELSE <<decode_operand_type(bits)>> ])
  ELSE Value(at, [ category |-> "two", opcode |-> b % 32,
                   types |-> <<SmallOr(Bit(b, 6)), SmallOr(Bit(b, 5))>> ])

read_operand(image, at, type) ==
  IF type = "large" THEN read_word(image, at) ELSE read_byte(image, at)

ReadOperands(image, at, types) ==
  AllOf(Value(at, <<>>), Len(types), LAMBDA q, k :
    AndThen(read_operand(image, q.vm, types[k]), LAMBDA x :
      Value(x.vm, Append(q.value, x.value))))

\* shape_2op, shape_1op, shape_0op, shape_var: what comes after the operands.
Stores ==
  [two |-> {8, 9} \cup 15 .. 24, one |-> {1, 2, 3, 4, 14, 15}, zero |-> {}, var |-> {0, 7}]
Branches == [two |-> 1 .. 7 \cup {10}, one |-> 0 .. 2, zero |-> {5, 6, 13}, var |-> {}]
HasText == [two |-> {}, one |-> {}, zero |-> {2, 3}, var |-> {}]

NoBranch == [on_true |-> FALSE, offset |-> 0]

\* Six bits without a sign in one byte, or fourteen with one in two.
ReadBranch(image, at) ==
  AndThen(read_byte(image, at), LAMBDA b :
    LET on_true == Bit(b.value, 7) = 1
        high == b.value % 64
    IN IF Bit(b.value, 6) = 1 THEN Value(b.vm, [on_true |-> on_true, offset |-> high])
       ELSE AndThen(read_byte(image, b.vm), LAMBDA c :
              LET offset == 256 * high + c.value
              IN Value(c.vm, [ on_true |-> on_true,
                               offset |-> IF high >= 32 THEN offset - 2 ^ 14 ELSE offset ])))

SkipText_mutant(image, at) ==
  LET word(k) == read_word(image, (at + 2 * k) % AddrMod)
      k == Passes(AddrMod, LAMBDA m : ~ word(m).ok \/ word(m).value >= 2 ^ 15)
  IN IF k = AddrMod THEN Endless(at)
     ELSE IF ~ word(k).ok THEN Fail(at) ELSE Done((at + 2 * k) % AddrMod)

\* Words up to the one that has its top bit set.  In a story that fills the
\* address space without such a word the loop of the code does not end.
SkipText(image, at) ==
  LET word(k) == read_word(image, (at + 2 * k) % AddrMod)
      k == Passes(AddrMod, LAMBDA m : ~ word(m).ok \/ word(m).value >= 2 ^ 15)
  IN IF k = AddrMod THEN Endless(at) ELSE word(k)

decode_instruction(image, addr) ==
  AndThen(read_byte(image, addr), LAMBDA b :
  AndThen(DecodeForm(image, b.vm, b.value), LAMBDA f :
  LET has(shape) == f.value.opcode \in shape[f.value.category] IN
  AndThen(ReadOperands(image, f.vm, f.value.types), LAMBDA x :
  AndThen(IF has(Stores) THEN read_byte(image, x.vm) ELSE Value(x.vm, 0), LAMBDA s :
  AndThen(IF has(Branches) THEN ReadBranch(image, s.vm) ELSE Value(s.vm, NoBranch), LAMBDA c :
  AndThen(IF has(HasText) THEN SkipText(image, c.vm) ELSE Done(c.vm), LAMBDA t :
    Value(t.vm, [ addr |-> addr, category |-> f.value.category, opcode |-> f.value.opcode,
                  types |-> f.value.types, operands |-> x.value, store |-> s.value,
                  branch |-> c.value, length |-> (t.vm - addr) % AddrMod ])))))))
=============================================================================
