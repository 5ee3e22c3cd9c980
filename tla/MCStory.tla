------------------------------ MODULE MCStory ------------------------------
(***************************************************************************)
(* Small stories for ZStory.  The address space has 256 bytes, so that a   *)
(* story can fill it; bytes and words are those of the code.  A story is   *)
(* laid out from pieces, pairs of an address and the bytes there, and its  *)
(* code is one instruction after another from an address on.               *)
(***************************************************************************)
EXTENDS ZStory

Pow2Values == [k \in 0 .. 16 |-> 2 ^ k]

-----------------------------------------------------------------------------
(* Instructions.                                                           *)

Small(x) == [type |-> "small", value |-> x]
Large(x) == [type |-> "large", value |-> x]
Global(x) == [type |-> "variable", value |-> x]
Stack == Global(0)

Plain(form, category, opcode, x) ==
  [ form |-> form, category |-> category, opcode |-> opcode,
    types |-> [k \in DOMAIN x |-> x[k].type], operands |-> [k \in DOMAIN x |-> x[k].value],
    store |-> 16, stores |-> FALSE, branch |-> NoBranch, branches |-> FALSE, wide |-> FALSE,
    fill |-> 3, inline |-> FALSE, text |-> <<>>, says |-> <<>>, sound |-> TRUE,
    whole |-> TRUE ]

Storing(i, v) == [i EXCEPT !.stores = TRUE, !.store = v]
Branching(i, on_true, offset, wide) ==
  [i EXCEPT !.branches = TRUE, !.branch = [on_true |-> on_true, offset |-> offset], !.wide = wide]
Saying(i, chars) == [i EXCEPT !.says = chars]

Two(opcode, a, b) == Plain("long", "two", opcode, <<a, b>>)
TwoVariable(opcode, x) == Plain("variable", "two", opcode, x)
One(opcode, a) == Plain("short", "one", opcode, <<a>>)
Zero(opcode) == Plain("short", "zero", opcode, <<>>)
Many(opcode, x) == Plain("variable", "var", opcode, x)
Inline(text, says) == [Zero(2) EXCEPT !.inline = TRUE, !.text = text, !.says = says]

AddressOf(base, code, k) ==
  base + FoldLeft(+, 0, [m \in 1 .. k - 1 |-> Len(Assembled(code[m]))])

CodeFrom(base, code) ==
  LET at == [k \in DOMAIN code |-> AddressOf(base, code, k)]
  IN [a \in Range(at) |-> code[CHOOSE k \in DOMAIN code : at[k] = a]]

CodeBytes(code) == FlattenSeq([k \in DOMAIN code |-> Assembled(code[k])])

\* Pieces may run across the end of the address space.
Image(size, pieces) ==
  [a \in 0 .. size - 1 |->
     LET holds(p) == (a - p[1]) % 256 < Len(p[2])
         here == {k \in DOMAIN pieces : holds(pieces[k])}
     IN IF here = {} THEN 0
        ELSE LET p == pieces[Earliest(here)] IN p[2][((a - p[1]) % 256) + 1]]

NoWorld == [attributes |-> <<>>, properties |-> <<>>]

\* A story of size bytes with code at base.
MadeOf(size, dyn, base, code, pieces) ==
  [ image |-> Image(size, pieces \o << <<base, CodeBytes(code)>> >>), dyn |-> dyn,
    code |-> CodeFrom(base, code), globals |-> 0, objects |-> 0, abbreviations |-> 0,
    dictionary |-> 0, lines |-> {}, world |-> NoWorld, names |-> <<>>, tables |-> <<>>,
    defaults |-> <<>>, words |-> <<>>, entries |-> 0, entry_length |-> 0, separators |-> {},
    sound |-> TRUE ]

-----------------------------------------------------------------------------
(* Every form of instruction, whole and cut off after each of its bytes.   *)

Samples ==
  { Storing(Two(20, Small(1), Small(255)), 0), Storing(Two(21, Small(0), Small(1)), 16),
    Branching(Two(2, Small(1), Small(2)), TRUE, 63, FALSE),
    Branching(Two(3, Small(1), Small(2)), FALSE, -8192, TRUE),
    Branching(TwoVariable(1, <<Large(258), Small(2), Large(258)>>), TRUE, 2, FALSE),
    Branching([TwoVariable(1, <<Small(7)>>) EXCEPT !.fill = 0], TRUE, 8191, TRUE),
    Branching(TwoVariable(2, <<Large(32768), Large(32767)>>), TRUE, 64, TRUE),
    Storing(TwoVariable(8, <<Large(61680), Small(15)>>), 17),
    Storing([TwoVariable(9, <<Small(9)>>) EXCEPT !.fill = 1], 16),
    Storing(TwoVariable(8, <<>>), 16), Branching(Two(7, Small(6), Small(4)), FALSE, 5, FALSE),
    Storing(Two(15, Small(0), Global(16)), 16), Storing(Two(16, Stack, Small(0)), 16),
    Branching(One(0, Large(0)), TRUE, -1, TRUE), Branching(One(0, Small(1)), FALSE, 1, FALSE),
    Storing(One(15, Large(255)), 0), One(8, Small(1)), Zero(12), Zero(4), Zero(11),
    Many(20, <<Small(0)>>), Many(19, <<Small(2)>>), Many(19, <<Small(3)>>),
    Many(19, <<Large(65533)>>), Many(1, <<Small(0), Small(0), Large(4660)>>),
    Many(2, <<Large(65535), Small(2), Small(7)>>), [Many(2, <<Small(0)>>) EXCEPT !.fill = 2],
    Storing(Many(7, <<Small(3)>>), 16), Storing(Many(7, <<Large(65535)>>), 0),
    Many(5, <<Global(17)>>), Many(10, <<Small(1), Small(2), Small(3), Small(4)>>),
    Inline(<<97, 98, 99, 100>>, <<97, 98, 99, 100>>), Two(0, Global(1), Small(0)) }

\* What the samples print.  print_char takes the global's value; it is 0 until
\* the story writes to it.
Spoken(i) ==
  CASE i = Zero(11) -> Saying(i, <<10>>)
    [] i = Many(5, <<Global(17)>>) -> Saying(i, <<0>>)
    [] OTHER -> i

Wholes(i) ==
  LET n == Len(Assembled(i))
  IN { [MadeOf(size, 4, 4, <<[i EXCEPT !.whole = (size = 4 + n)]>>, <<>>)
          EXCEPT !.code = [a \in {4} |-> [i EXCEPT !.whole = (size = 4 + n)]]]
       : size \in 5 .. 4 + n }
DecodeStories == UNION {Wholes(Spoken(i)) : i \in Samples}

-----------------------------------------------------------------------------
(* Text: in the code, at an address, at a packed address, as a name.       *)

Abbreviations == [n \in {5, 33} |-> IF n = 5 THEN <<116, 104, 101>> ELSE <<66, 46, 32>>]
Tokens == {32, 97, 90, 46, 10, 48, 261, 289}
Texts ==
  UNION {[1 .. n -> Tokens] : n \in 0 .. 2} \cup [1 .. 3 -> {97, 90, 46, 261}]
    \cup { Punctuation, [k \in 1 .. 10 |-> 47 + k], <<97, 98, 99, 100, 101, 102, 103, 104, 105>>,
           <<261, 289, 32, 261>>, <<90, 57, 122, 41, 65>> }

TextPieces(text) ==
  << <<10, <<0, 10>> >>, <<66, <<0, 15>> >>,
     <<20, Packed(AllWritten(Abbreviations[5]))>>, <<30, Packed(AllWritten(Abbreviations[33]))>>,
     <<109, <<0, 112>> >>, <<112, PropertyTable(text, <<>>)>>,
     <<150, Packed(AllWritten(text))>> >>

TextStory(text) ==
  LET says == Spelled(text, Abbreviations)
      code == << Saying(One(7, Small(150)), says), Saying(One(13, Small(75)), says),
                 Saying(One(10, Small(1)), says), Inline(text, says) >>
      n == Len(CodeBytes(code))
  IN [MadeOf(180 + n, 0, 180, code, TextPieces(text)) EXCEPT !.objects = 40]

\* Texts that are cut off, that refer to what is not there or that leave the
\* image: raw z-chars.
BrokenStory(size, code, pieces) == MadeOf(size, 0, 60, code, pieces)

Unsound(i) == [i EXCEPT !.sound = FALSE]

BrokenStories ==
  { \* no index; nested; entry behind the image; target behind it; no end; object 0
    BrokenStory(64, <<Unsound(One(7, Small(20)))>>, << <<20, Packed(<<6, 7, 1>>)>> >>),
    BrokenStory(64, <<Unsound(One(7, Small(20)))>>,
      << <<0, <<0, 15>> >>, <<20, Packed(<<1, 0>>)>>, <<30, Packed(<<6, 1, 0>>)>> >>),
    BrokenStory(64, <<Unsound(One(7, Small(20)))>>, << <<20, Packed(<<2, 0>>)>> >>),
    BrokenStory(65, <<Unsound(One(7, Small(20)))>>, << <<0, <<0, 40>> >>, <<20, Packed(<<1, 0>>)>> >>),
    BrokenStory(63, <<Unsound(One(7, Small(61)))>>, <<>>),
    BrokenStory(62, <<Unsound(One(13, Small(32)))>>, <<>>),
    BrokenStory(62, <<Unsound(One(10, Small(0)))>>, <<>>),
    \* a name longer than the image
    [BrokenStory(128, <<Unsound(One(10, Small(1)))>>, << <<109, <<0, 112>> >>, <<112, <<255>> >> >>)
       EXCEPT !.objects = 40],
    \* an address space without an end: text and code across it
    MadeOf(256, 0, 253, <<Unsound(Inline(<<97, 98, 99, 100>>, <<>>))>>, <<>>),
    MadeOf(256, 0, 120, <<Unsound(One(7, Small(0)))>>, << <<0, Packed(<<6>>)>> >>),
    MadeOf(256, 16, 254, <<Storing(Two(20, Small(1), Small(2)), 20)>>, <<>>),
    MadeOf(256, 16, 255, <<Storing(TwoVariable(8, <<Large(1), Large(2)>>), 20)>>, <<>>) }

\* Loops that never end: a text without an end in a story that fills the address
\* space, once its end has been written over, and entries of properties that
\* lead back to each other, the last of them across the end of the story.
EndlessText ==
  MadeOf(256, 256, 101,
    << Unsound(Inline(<<97>>, <<97>>)), Two(0, Small(0), Small(0)),
       Many(2, <<Small(102), Small(0), Small(0)>>) >>, <<>>)
EndlessList(i) ==
  MadeOf(248, 0, 230, <<i>>,
    << <<69, <<0, 3>> >>, <<0, <<65>> >> >> \o [k \in 1 .. 28 |-> <<9 * k - 5, <<225>> >>])

EndlessStories ==
  { EndlessText, EndlessList(Storing(Two(17, Small(1), Small(5)), 16)),
    EndlessList(Storing(Two(19, Small(1), Small(5)), 16)),
    EndlessList(Many(3, <<Small(1), Small(5), Small(2)>>)) }

\* Numbers, and the table of output stream 3 in the last bytes that may be
\* written.
Numbers == {0, 7, 10, 100, 32767, 32768, 32769, 65535, 54321}
NumberStories == {MadeOf(64, 0, 20, <<Saying(Many(6, <<Large(w)>>), Decimal(w))>>, <<>>) : w \in Numbers}

StreamStory(dyn, table) ==
  MadeOf(80, dyn, 20,
    << Saying(Many(5, <<Small(97)>>), <<97>>), Saying(Many(6, <<Small(7)>>), <<55>>),
       Inline(<<72, 105>>, <<72, 105>>), Saying(Zero(11), <<10>>),
       Many(19, <<Small(3), Small(table)>>), Many(19, <<Large(65533)>>), Many(19, <<Small(2)>>) >>,
    <<>>)
StreamStories == {StreamStory(13, 8), StreamStory(4, 255)}

-----------------------------------------------------------------------------
(* Arithmetic.                                                             *)

Factors == {0, 1, 2, 3, 7, 10, 32767, 32768, 32769, 65535}
ArithmeticStories ==
  { MadeOf(64, 2, 2, << Storing(TwoVariable(22, <<Large(a), Large(b)>>), 16),
                        Storing(TwoVariable(23, <<Large(a), Large(b)>>), 16),
                        Storing(TwoVariable(24, <<Large(a), Large(b)>>), 16) >>, <<>>)
    : a, b \in Factors }

-----------------------------------------------------------------------------
(* Objects: the table at 0, two entries at 62, the properties behind them.  *)

Property(number, data) == [number |-> number, data |-> data]

ObjectWorld ==
  [ attributes |-> <<{7, 8}, {}>>,
    properties |-> << <<Property(31, <<1>>), Property(18, <<2, 3>>), Property(5, <<4, 5, 6>>)>>,
                      <<Property(18, <<9, 9>>), Property(1, <<8>>)>> >> ]
ObjectNames == << <<97, 98>>, <<>> >>
Tables ==
  << 80, 80 + Len(PropertyTable(ObjectNames[1], ObjectWorld.properties[1])) >>
ObjectBytes(o) ==
  [n \in 1 .. 4 |-> AttributesByte(ObjectWorld.attributes[o], n - 1)]
    \o (IF o = 1 THEN <<0, 0, 2>> ELSE <<1, 0, 0>>) \o <<0, Tables[o]>>
Defaults == [p \in 1 .. 31 |-> 256 * (p % 2) + p]

ObjectStory(base, code) ==
  [ MadeOf(base + Len(CodeBytes(code)), base, base, code,
      << <<0, FlattenSeq([p \in 1 .. 31 |-> <<p % 2, p>>])>>,
         <<62, ObjectBytes(1) \o ObjectBytes(2)>>,
         <<Tables[1], PropertyTable(ObjectNames[1], ObjectWorld.properties[1])>>,
         <<Tables[2], PropertyTable(ObjectNames[2], ObjectWorld.properties[2])>> >>)
    EXCEPT !.globals = base - 2, !.world = ObjectWorld, !.names = ObjectNames,
           !.tables = Tables, !.defaults = Defaults ]

\* All instructions F(o, p) for some objects and numbers.
ForAll(F(_, _), objects, numbers) ==
  FlattenSeq([k \in DOMAIN objects |-> [m \in DOMAIN numbers |-> F(objects[k], numbers[m])]])

Attributes == <<0, 7, 31>>
AttributeCode ==
  ForAll(LAMBDA o, a : Two(11, Small(o), Small(a)), <<1, 2>>, Attributes)
    \o ForAll(LAMBDA o, a : Two(12, Small(o), Small(a)), <<1, 2>>, Tail(Attributes))
AttributeTests ==
  ForAll(LAMBDA o, a : Branching(Two(10, Small(o), Small(a)), TRUE, 5, FALSE), <<0, 1, 2>>, <<7, 31, 32>>)

Properties == <<0, 1, 5, 18, 31, 32>>
PropertyCode ==
  ForAll(LAMBDA o, p : Storing(Two(17, Small(o), Small(p)), 16), <<1, 2>>, Properties)
    \o ForAll(LAMBDA o, p : Storing(Two(19, Small(o), Small(p)), 16), <<1, 2>>, Properties)
    \o ForAll(LAMBDA o, p : Many(3, <<Small(o), Small(p), Large(515)>>), <<1, 2>>, <<1, 18, 31>>)
PropertyAddresses ==
  ForAll(LAMBDA o, p : Storing(Two(18, Small(o), Small(p)), 16), <<0, 1, 2>>, Properties)
    \o << Many(3, <<Small(1), Small(5), Large(258)>>), Storing(Two(17, Small(0), Small(1)), 16),
          Storing(One(4, Global(16)), 0), Storing(One(3, Small(2)), 0),
          Branching(Storing(One(1, Small(1)), 16), TRUE, 9, FALSE),
          Branching(Storing(One(2, Small(1)), 16), TRUE, 9, FALSE),
          Branching(Two(6, Small(2), Small(1)), TRUE, 9, FALSE),
          [Zero(12) EXCEPT !.whole = TRUE] >>

ObjectStories ==
  { ObjectStory(114, AttributeCode \o AttributeTests), ObjectStory(114, PropertyCode),
    ObjectStory(114, PropertyAddresses) }

-----------------------------------------------------------------------------
(* Input: text buffer at 4, parse buffer at 16, dictionary at 40.          *)

Words == << <<97>>, <<97, 98, 97, 98, 97, 98>>, <<44>>, <<98>>, <<97, 98>>, <<98>>,
            <<97, 98, 97, 98, 97, 49>> >>

Dictionary(separators, length, count, words) ==
  <<Len(separators)>> \o separators \o <<length, (count % 2 ^ 16) \div 256, count % 256>>
    \o FlattenSeq([k \in DOMAIN words |->
         Packed(SixZchars(words[k])) \o SubSeq(<<255, 255, 255, 255>>, 1, length - 4)])

InputStory(lines, limit, room, size, separators, length, count) ==
  LET n == IF count = -(2 ^ 15) THEN 0 ELSE Abs(count)
      words == SubSeq(Words, 1, n)
      code == <<Many(4, <<Small(4), Small(16)>>)>>
  IN [ MadeOf(size, 36, 36, code,
         << <<4, <<limit>> >>, <<16, <<room>> >>,
            <<45, Dictionary(separators, length, count, words)>> >>)
       EXCEPT !.dictionary = 45, !.lines = lines, !.words = words, !.entry_length = length,
              !.entries = 49 + Len(separators), !.separators = ToSet(separators),
              !.sound = length >= 4 /\ size >= 49 + Len(separators) + n * length ]

Characters == {97, 98, 44, 32, 65, 64}
ShortLines == UNION {[1 .. n -> Characters] : n \in 0 .. 3}
LongLines ==
  { <<97, 98, 97, 98, 97, 98, 97>>, <<97, 66, 97, 98, 97, 49, 64>>, <<32, 97, 32, 32, 98, 32>>,
    <<44, 44, 97, 44, 98>>, <<97, 98, 97, 98, 97, 98, 64>>, <<97, 32, 97, 32, 97, 32, 97>>,
    <<97, 44, 97, 98, 32, 97, 98, 98>>, <<49, 49, 49, 64>>, [k \in 1 .. 8 |-> 98], [k \in 1 .. 11 |-> 98] }

InputStories ==
  {InputStory({line}, 8, 4, 120, <<44, 46>>, 7, 7) : line \in ShortLines \cup LongLines}
    \cup {InputStory({line, <<97, 32, 98>>}, 8, 3, 120, <<44>>, 4, -6) : line \in LongLines}
    \cup {InputStory({line}, 8, 0, 120, <<>>, 5, 4) : line \in {<<97>>, <<64>>, <<>>}}
    \cup {InputStory({<<97>>}, 8, 4, 120, <<44>>, 5, -(2 ^ 15)),
          InputStory({<<97>>, <<98, 98>>}, 8, 4, 60, <<44>>, 5, 4),
          InputStory({<<97>>, <<98>>}, 8, 4, 48, <<44>>, 3, 2),
          InputStory({<<>>, <<97>>}, 8, 4, 45, <<44>>, 4, 2),
          InputStory({<<>>}, 0, 4, 120, <<44>>, 4, 2)}

-----------------------------------------------------------------------------
StoriesValue ==
  DecodeStories \cup {TextStory(text) : text \in Texts} \cup BrokenStories \cup EndlessStories
    \cup NumberStories \cup StreamStories \cup ArithmeticStories \cup ObjectStories
    \cup InputStories
=============================================================================
