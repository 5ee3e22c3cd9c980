------------------------------- MODULE ZParse -------------------------------
(***************************************************************************)
(* The dictionary and the tokenizer: host/dictionary.c, host/parser.c.     *)
(* The tokenizer is a loop over the typed line; a pass skips a space or    *)
(* takes one word and writes its entry to the parse buffer, and a failure  *)
(* leaves what has been written.  Its state is a record: where the line    *)
(* and the parse buffer are, the place in the line and the words so far.   *)
(***************************************************************************)
EXTENDS ZText

\* story_mem_write8: only dynamic memory, which ends before dyn, is written.
write8(image, dyn, a, b) ==
  IF a % AddrMod < dyn THEN Done([image EXCEPT ![a % AddrMod] = b]) ELSE Fail(image)

\* Bytes one after another until one cannot be written.
WriteBytes(image, dyn, a, bytes) ==
  LET n == Passes(Len(bytes), LAMBDA k : (a + k) % AddrMod >= dyn)
      new == [x \in DOMAIN image |-> LET k == 1 + ((x - a) % AddrMod)
                                     IN IF k <= n /\ x < AddrMod THEN bytes[k] ELSE image[x]]
  IN IF n = Len(bytes) THEN Done(new) ELSE Fail(new)

\* A search along items 1 to n of memory: the outcome of the first item that
\* is found or cannot be read, and 0 if there is none.
FirstFound(image, n, Read(_), Found(_)) ==
  AndThen(Value(image, Passes(n, LAMBDA m :
            \E item \in {Read(m + 1)} : ~ item.ok \/ Found(item.value))), LAMBDA p :
    IF p.value = n THEN Value(image, 0)
    ELSE AndThen(Read(p.value + 1), LAMBDA item : Value(image, p.value + 1)))

-----------------------------------------------------------------------------
(* Definitions named .._mutant are slips that the code does not have; no    *)
(* specification uses them.                                                *)

EncodedLength == 4

Abs(n) == IF n < 0 THEN -n ELSE n

\* A negative count of entries says that they are not sorted.
dict_parse_header(image, dict) ==
  AndThen(read8(image, dict), LAMBDA separators :
  LET at == dict + 1 + separators.value IN
  AndThen(read8(image, at), LAMBDA length :
  AndThen(IF length.value < EncodedLength THEN Fail(image) ELSE read16(image, at + 1), LAMBDA n :
    Value(image, [ length |-> length.value, entries |-> (at + 3) % AddrMod,
                   count |-> IF n.value >= 2 ^ 15 THEN n.value - 2 ^ 16 ELSE n.value ]))))

ReadEncoded(image, at) ==
  LET bytes == [k \in 1 .. EncodedLength |-> read8(image, at + k - 1)]
  IN IF \A k \in DOMAIN bytes : bytes[k].ok
     THEN Value(image, [k \in DOMAIN bytes |-> bytes[k].value])
     ELSE Fail(image)

dict_lookup_mutant(image, header, encoded) ==
  LET entry(k) == (header.entries + (k - 1) * EncodedLength) % AddrMod
  IN AndThen(FirstFound(image, Abs(header.count), LAMBDA k : ReadEncoded(image, entry(k)),
                        LAMBDA e : e = encoded),
             LAMBDA r : Value(image, IF r.value = 0 THEN 0 ELSE entry(r.value)))

\* One entry after another, sorted or not; 0 is the address of no entry.  The
\* count that has no positive counterpart in 16 bits stands for no entries.
dict_lookup(image, header, encoded) ==
  LET entry(k) == (header.entries + (k - 1) * header.length) % AddrMod
      count == IF header.count = - (2 ^ 15) THEN 0 ELSE Abs(header.count)
  IN AndThen(FirstFound(image, count, LAMBDA k : ReadEncoded(image, entry(k)),
                        LAMBDA e : e = encoded),
             LAMBDA r : Value(image, IF r.value = 0 THEN 0 ELSE entry(r.value)))

dict_find_word(image, dict, text) ==
  LET encoded == ztext_encode(text)
  IN IF ~ encoded.ok THEN Fail(image)
     ELSE AndThen(dict_parse_header(image, dict), LAMBDA h :
            dict_lookup(image, h.value, encoded.value))

-----------------------------------------------------------------------------
is_separator(image, dict, c) ==
  AndThen(read8(image, dict), LAMBDA n :
  AndThen(FirstFound(image, n.value, LAMBDA k : read8(image, dict + k), LAMBDA s : s = c),
    LAMBDA r : Value(image, r.value # 0)))

StartParse(image, text, length, buffer) ==
  AndThen(read8(image, buffer), LAMBDA limit :
    Value(image, [ text |-> text, length |-> length, buffer |-> buffer, limit |-> limit.value,
                   pos |-> 0, words |-> 0 ]))

\* The characters from p on that belong to the word there: a separator alone,
\* or everything up to a space, a separator or the end of the line.
WordLength(image, dict, p) ==
  LET char(k) == read8(image, p.text + p.pos + k - 1)
      sep(k) == AndThen(char(k), LAMBDA c : is_separator(image, dict, c.value))
      stop(k) == AndThen(sep(k), LAMBDA s : Value(image, s.value \/ char(k).value = 32))
  IN AndThen(sep(1), LAMBDA s :
       IF s.value THEN Value(image, 1)
       ELSE AndThen(FirstFound(image, p.length - p.pos, stop, LAMBDA ends : ends),
              LAMBDA r : Value(image, IF r.value = 0 THEN p.length - p.pos ELSE r.value - 1)))

Smaller(a, b) == IF a < b THEN a ELSE b

\* The entry of a word: where the dictionary has it, its length and its offset,
\* the first character of the line being at offset 1.
TakeWord(image, dyn, dict, p) ==
  AndThen(WordLength(image, dict, p), LAMBDA n :
  LET chars == [k \in 1 .. Smaller(n.value, 6) |-> image[(p.text + p.pos + k - 1) % AddrMod]] IN
  AndThen(dict_find_word(image, dict, chars), LAMBDA e :
  AndThen(WriteBytes(image, dyn, p.buffer + 2 + 4 * p.words,
                     <<ByteOf(e.value, 1), ByteOf(e.value, 0), n.value, (1 + p.pos) % 256>>),
    LAMBDA w : Value(w.vm, [p EXCEPT !.pos = p.pos + n.value, !.words = p.words + 1]))))

\* The line is used up, or the parse buffer has no room for another word.
ParseAtEnd(p) == p.pos >= p.length \/ p.words >= p.limit

ParsePass_mutant(image, dyn, dict, p) ==
  AndThen(read8(image, p.text + p.pos), LAMBDA c :
    IF c.value = 32 THEN Value(image, p) ELSE TakeWord(image, dyn, dict, p))

ParsePass(image, dyn, dict, p) ==
  AndThen(read8(image, p.text + p.pos), LAMBDA c :
    IF c.value = 32 THEN Value(image, [p EXCEPT !.pos = p.pos + 1])
    ELSE TakeWord(image, dyn, dict, p))

\* The count of words is written last.
ParseEnd(image, dyn, p) == write8(image, dyn, p.buffer + 1, p.words)
=============================================================================
