------------------------------- MODULE ZText -------------------------------
(***************************************************************************)
(* Packed text, host/ztext.c.  Decoding is a loop over z-chars: its state  *)
(* is a stack of the streams being read, the text itself and at most one   *)
(* abbreviation that it refers to.  One step takes one z-char, or the two  *)
(* of a reference to an abbreviation.  Encoding serves the dictionary.     *)
(* Decoding reads the image without a test of the address, so a stream may *)
(* leave it; what is read from there is undefined.                         *)
(***************************************************************************)
EXTENDS ZDecode

\* Alphabet A2 from z-char 6 on; a space holds the place of the escape.
AlphabetA2 ==
  <<32, 10>> \o [k \in 1 .. 10 |-> 47 + k]
             \o <<46, 44, 33, 63, 95, 35, 39, 34, 47, 92, 45, 58, 40, 41>>

Letter(shift, zchar) ==
  CASE shift = 0 -> 97 + zchar - 6
    [] shift = 1 -> 65 + zchar - 6
    [] OTHER -> AlphabetA2[zchar - 5]

-----------------------------------------------------------------------------
(* Definitions named .._mutant are slips that the code does not have; no    *)
(* specification uses them.                                                *)

\* left counts the bytes that may still be fetched.
zchar_stream_init(at, left) ==
  [at |-> at, left |-> left, word |-> 0, pos |-> 3, final |-> FALSE, shift |-> 0]

\* Between two words, with none to come.
Exhausted(s) == s.pos = 3 /\ (s.final \/ s.left = 0)

Readable(image, s) == s.pos < 3 \/ {s.at, s.at + 1} \subseteq DOMAIN image

\* With the next word fetched if the last one is used up.
Refill(image, s) ==
  IF s.pos < 3 THEN s
  ELSE LET word == 256 * image[s.at] + image[s.at + 1]
       IN [s EXCEPT !.at = s.at + 2, !.left = s.left - 2, !.word = word, !.pos = 0,
                    !.final = word >= 2 ^ 15]

Zchar(image, s) == LET t == Refill(image, s) IN (t.word \div (32 ^ (2 - t.pos))) % 32
Behind(image, s) == LET t == Refill(image, s) IN [t EXCEPT !.pos = t.pos + 1]

\* How a step ends: with the streams, the characters it has emitted, and
\* whether decoding goes on.
Outcomes == {"more", "end", "error", "undefined"}
Step(how, streams, chars) == [how |-> how, streams |-> streams, chars |-> chars]
WithShift(streams, s, shift) == WithTop(streams, [s EXCEPT !.shift = shift])

\* What is left of the story behind an address, cut to even and to a word.
Remaining(image, at) ==
  (2 * ((Cardinality(DOMAIN image) - at) \div 2)) % AddrMod

OpenAbbreviation_mutant(image, table, streams, bank, index) ==
  LET size == Cardinality(DOMAIN image)
      entry == (table + 2 * (32 * (bank - 1) + index)) % AddrMod
      target == (2 * (256 * image[entry] + image[entry + 1])) % AddrMod
  IN IF entry + 1 >= size THEN Step("error", streams, <<>>)
     ELSE Step("more", Append(streams, zchar_stream_init(target, Remaining(image, target))), <<>>)

\* A reference: z-chars bank and index name an entry in the table, which holds
\* half the address of the text.
OpenAbbreviation(image, table, streams, bank, index) ==
  LET size == Cardinality(DOMAIN image)
      entry == (table + 2 * (32 * (bank - 1) + index)) % AddrMod
      target == (2 * (256 * image[entry] + image[entry + 1])) % AddrMod
  IN IF entry + 1 >= size \/ target > size THEN Step("error", streams, <<>>)
     ELSE Step("more", Append(streams, zchar_stream_init(target, Remaining(image, target))), <<>>)

\* A 5 at the very end taken for padding.
Reference_mutant(image, table, streams, bank) ==
  LET s == Last(streams)
      t == Behind(image, s)
  IN IF Len(streams) > 1 \/ Exhausted(s) THEN Step("error", streams, <<>>)
     ELSE IF ~ Readable(image, s) THEN Step("undefined", streams, <<>>)
     ELSE IF Zchar(image, s) = 5 /\ t.final /\ t.pos = 3 THEN Step("error", streams, <<>>)
     ELSE OpenAbbreviation(image, table, WithTop(streams, t), bank, Zchar(image, s))

\* The z-char behind the one that refers is always an index.
Reference(image, table, streams, bank) ==
  LET s == Last(streams)
  IN IF Len(streams) > 1 \/ Exhausted(s) THEN Step("error", streams, <<>>)
     ELSE IF ~ Readable(image, s) THEN Step("undefined", streams, <<>>)
     ELSE OpenAbbreviation(image, table, WithTop(streams, Behind(image, s)), bank,
                           Zchar(image, s))

\* A shift lasts until the next letter, over spaces and references.
ztext_decode_step(image, table, streams) ==
  LET s == Last(streams)
      z == Zchar(image, s)
      t == Behind(image, s)
  IN IF Exhausted(s)
     THEN Step(IF Len(streams) = 1 THEN "end" ELSE "more", Front(streams), <<>>)
     ELSE IF ~ Readable(image, s) THEN Step("undefined", streams, <<>>)
     ELSE IF z = 0 THEN Step("more", WithTop(streams, t), <<32>>)
     ELSE IF z \in 1 .. 3 THEN Reference(image, table, WithTop(streams, t), z)
     ELSE IF z \in {4, 5} THEN Step("more", WithShift(streams, t, z - 3), <<>>)
     ELSE Step("more", WithShift(streams, t, 0), <<Letter(t.shift, z)>>)

-----------------------------------------------------------------------------
(* Encoding a typed word.                                                  *)

\* The z-chars of a character, none if it has none.
ZcharsOf(c) ==
  LET places == {k \in 3 .. Len(AlphabetA2) : AlphabetA2[k] = c}
  IN CASE c = 32 -> <<0>>
       [] c \in 97 .. 122 -> <<6 + c - 97>>
       [] c \in 65 .. 90 -> <<4, 6 + c - 65>>
       [] OTHER -> IF places = {} THEN <<>> ELSE <<5, 5 + Earliest(places)>>

WordOf(z) == 1024 * z[1] + 32 * z[2] + z[3]

\* The four bytes of a dictionary entry, of six z-chars padded with 5s.
Encoded(z) ==
  LET zchar(k) == IF k <= Len(z) THEN z[k] ELSE 5
      word1 == WordOf([k \in 1 .. 3 |-> zchar(k)])
      word2 == 2 ^ 15 + WordOf([k \in 1 .. 3 |-> zchar(k + 3)])
  IN <<ByteOf(word1, 1), ByteOf(word1, 0), ByteOf(word2, 1), ByteOf(word2, 0)>>

\* One character after another until the places are taken or one has no room;
\* a character without z-chars is an error.
ztext_encode(text) ==
  LET From[k \in 1 .. Len(text) + 1, z \in Seq(0 .. 31)] ==
        IF k > Len(text) \/ Len(z) = 6 THEN Value(text, Encoded(z))
        ELSE LET more == ZcharsOf(text[k])
             IN CASE more = <<>> -> Fail(text)
                  [] Len(z \o more) > 6 -> Value(text, Encoded(z))
                  [] OTHER -> From[k + 1, z \o more]
  IN From[1, <<>>]
=============================================================================
