-------------------------------- MODULE ZAsm --------------------------------
(***************************************************************************)
(* What the authors of a story mean and how a compiler writes it down: the *)
(* reference definitions that the interpreter's reading is compared with.  *)
(* Text is a sequence of character codes, in which 256 + n stands for      *)
(* abbreviation n.  None of this is code of the interpreter.               *)
(***************************************************************************)
EXTENDS Integers, SequencesExt, FiniteSets

-----------------------------------------------------------------------------
(* Text.                                                                   *)

Punctuation == <<46, 44, 33, 63, 95, 35, 39, 34, 47, 92, 45, 58, 40, 41>>

Written(token) ==
  CASE token >= 256 -> <<1 + ((token - 256) \div 32), (token - 256) % 32>>
    [] token = 32 -> <<0>>
    [] token = 10 -> <<5, 7>>
    [] token \in 97 .. 122 -> <<token - 91>>
    [] token \in 65 .. 90 -> <<4, token - 59>>
    [] token \in 48 .. 57 -> <<5, token - 40>>
    [] OTHER -> <<5, 17 + CHOOSE k \in DOMAIN Punctuation : Punctuation[k] = token>>

AllWritten(text) == FlattenSeq([k \in DOMAIN text |-> Written(text[k])])

\* z is padded with 5s to a number of words, the last of which is marked.
Packed(z) ==
  LET words == IF z = <<>> THEN 1 ELSE (Len(z) + 2) \div 3
      at(k) == IF k <= Len(z) THEN z[k] ELSE 5
      word(n) == 1024 * at(3 * n - 2) + 32 * at(3 * n - 1) + at(3 * n)
                   + (IF n = words THEN 2 ^ 15 ELSE 0)
  IN FlattenSeq([n \in 1 .. words |-> <<word(n) \div 256, word(n) % 256>>])

\* What the reader sees: a text with its abbreviations written out.
Spelled(text, abbreviations) ==
  FlattenSeq([k \in DOMAIN text |->
                IF text[k] >= 256 THEN abbreviations[text[k] - 256] ELSE <<text[k]>>])

\* Characters that have a z-char, and the six of a word in the dictionary.
HasZchar(c) ==
  c \in {32} \cup 48 .. 57 \cup 65 .. 90 \cup 97 .. 122 \cup ToSet(Punctuation)

SixZchars(text) ==
  LET z == AllWritten(SelectSeq(text, HasZchar)) IN [k \in 1 .. 6 |-> IF k <= Len(z) THEN z[k] ELSE 5]

Spell[n \in Nat] == IF n < 10 THEN <<48 + n>> ELSE Append(Spell[n \div 10], 48 + (n % 10))

\* A word printed as a signed decimal number.
Decimal(w) == IF w >= 2 ^ 15 THEN <<45>> \o Spell[2 ^ 16 - w] ELSE Spell[w]

-----------------------------------------------------------------------------
(* Instructions.  fill is what a compiler leaves in the type fields behind  *)
(* the first one that says "omitted", and wide asks for a branch of two     *)
(* bytes.                                                                  *)

TypeBits(type) == CASE type = "large" -> 0 [] type = "small" -> 1 [] OTHER -> 2

OpcodeBytes(i) ==
  LET bits(k) == CASE k <= Len(i.types) -> TypeBits(i.types[k])
                   [] k = Len(i.types) + 1 -> 3
                   [] OTHER -> i.fill
      isVar(k) == IF i.types[k] = "variable" THEN 1 ELSE 0
  IN CASE i.form = "long" -> <<64 * isVar(1) + 32 * isVar(2) + i.opcode>>
       [] i.form = "short" ->
            <<128 + 16 * (IF i.types = <<>> THEN 3 ELSE bits(1)) + i.opcode>>
       [] OTHER -> << 192 + (IF i.category = "var" THEN 32 ELSE 0) + i.opcode,
                      64 * bits(1) + 16 * bits(2) + 4 * bits(3) + bits(4) >>

OperandBytes(i) ==
  FlattenSeq([k \in DOMAIN i.types |->
    IF i.types[k] = "large" THEN <<i.operands[k] \div 256, i.operands[k] % 256>>
    ELSE <<i.operands[k]>>])

BranchBytes(i) ==
  LET sense == IF i.branch.on_true THEN 128 ELSE 0
      offset == i.branch.offset % 2 ^ 14
  IN IF i.wide THEN <<sense + (offset \div 256), offset % 256>> ELSE <<sense + 64 + offset>>

Assembled(i) ==
  OpcodeBytes(i) \o OperandBytes(i)
    \o (IF i.stores THEN <<i.store>> ELSE <<>>)
    \o (IF i.branches THEN BranchBytes(i) ELSE <<>>)
    \o (IF i.inline THEN Packed(AllWritten(i.text)) ELSE <<>>)

-----------------------------------------------------------------------------
(* Objects: attributes, links and properties, each a number and its data.  *)

\* Attribute numbers of one byte of an entry; 0 is the top bit of the first.
AttributesByte(attributes, n) ==
  LET value(a) == IF a \in attributes THEN 2 ^ (7 - (a - 8 * n)) ELSE 0
  IN FoldLeft(+, 0, [k \in 1 .. 8 |-> value(8 * n + k - 1)])

PropertyBytes(properties) ==
  FlattenSeq([k \in DOMAIN properties |->
    <<32 * (Len(properties[k].data) - 1) + properties[k].number>> \o properties[k].data])

\* The bytes from the start of an object's properties.
PropertyTable(name, properties) ==
  <<Len(Packed(AllWritten(name))) \div 2>> \o Packed(AllWritten(name))
    \o PropertyBytes(properties) \o <<0>>

HasProperty(properties, p) == \E k \in DOMAIN properties : properties[k].number = p
PlaceOf(properties, p) == CHOOSE k \in DOMAIN properties : properties[k].number = p
DataOf(properties, p) == properties[PlaceOf(properties, p)].data
=============================================================================
