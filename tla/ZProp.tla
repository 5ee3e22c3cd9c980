------------------------------- MODULE ZProp -------------------------------
(***************************************************************************)
(* Objects and properties of the reference as bytes of the story:          *)
(* host/properties.c and what host/objects.c has besides the links'        *)
(* rewriting.  The table is 31 words of defaults and then nine bytes for   *)
(* each object: four of attributes, three links, and the address of its    *)
(* properties.  These are the object's name and a list of entries, each a  *)
(* byte of number and size and then the data.                              *)
(***************************************************************************)
EXTENDS ZParse

(* Definitions named .._mutant are slips that the code does not have; no    *)
(* specification uses them.                                                *)

DefaultsSize == 62
EntrySize == 9

\* Object numbers are not compared with anything, 0 excepted.
obj_entry_addr(table, o) == (table + DefaultsSize + (o - 1) * EntrySize) % AddrMod

\* A byte of an object's entry, if there can be one.
EntryByte(image, table, o, offset) ==
  IF o = 0 THEN Fail(image) ELSE read8(image, obj_entry_addr(table, o) + offset)

obj_get_parent(image, table, o) == EntryByte(image, table, o, 4)
obj_get_sibling(image, table, o) == EntryByte(image, table, o, 5)
obj_get_child(image, table, o) == EntryByte(image, table, o, 6)

AttributeByte(image, table, o, attribute) ==
  IF attribute >= 32 THEN Fail(image) ELSE EntryByte(image, table, o, attribute \div 8)

\* Attribute 0 is the top bit of the first byte.
AttributeBit(attribute) == 7 - (attribute % 8)

obj_test_attr(image, table, o, attribute) ==
  AndThen(AttributeByte(image, table, o, attribute), LAMBDA b :
    Value(image, Bit(b.value, AttributeBit(attribute)) = 1))

obj_write_attr_mutant(image, dyn, table, o, attribute, bit) ==
  AndThen(AttributeByte(image, table, o, attribute), LAMBDA b :
    write8(image, dyn, obj_entry_addr(table, o) + attribute \div 8,
           IF bit = 1 THEN (b.value + 2 ^ AttributeBit(attribute)) % 256
           ELSE b.value - Bit(b.value, AttributeBit(attribute)) * 2 ^ AttributeBit(attribute)))

obj_write_attr(image, dyn, table, o, attribute, bit) ==
  AndThen(AttributeByte(image, table, o, attribute), LAMBDA b :
    LET n == AttributeBit(attribute)
    IN write8(image, dyn, obj_entry_addr(table, o) + attribute \div 8,
              b.value + (bit - Bit(b.value, n)) * 2 ^ n))

\* The name comes first in the properties: its words are counted, then given.
obj_short_name(image, table, o) ==
  IF o = 0 THEN Fail(image)
  ELSE AndThen(read16(image, obj_entry_addr(table, o) + 7), LAMBDA at :
       AndThen(read8(image, at.value), LAMBDA words :
         Value(image, [at |-> (at.value + 1) % AddrMod, length |-> 2 * words.value])))

-----------------------------------------------------------------------------
(* Property lists.                                                         *)

NumberOf(size) == size % 32
LengthOf(size) == (size \div 32) + 1

NextEntry(image, at) == (at + 1 + LengthOf(image[at])) % AddrMod

\* The outcome of looking for a property's entry: its address, or that of the
\* terminator, which has number 0.  In a story that fills the address space, but
\* for less than an entry, the entries may lead back to each other, and then the
\* loop of the code does not end.
FindEntry(image, from, property) ==
  LET At[n \in 0 .. AddrMod] == IF n = 0 THEN from ELSE NextEntry(image, At[n - 1])
      back(n) == \E m \in 0 .. n - 1 : At[m] = At[n]
      found(size) == NumberOf(size) \in {0, property}
      n == Passes(AddrMod, LAMBDA m :
             LET size == read8(image, At[m]) IN back(m) \/ ~ size.ok \/ found(size.value))
  IN IF n = AddrMod \/ back(n) THEN Endless(image)
     ELSE IF ~ read8(image, At[n]).ok THEN Fail(image) ELSE Value(image, At[n])

Number(image, at) == NumberOf(image[at])

prop_list_start(image, table, o) ==
  AndThen(obj_short_name(image, table, o), LAMBDA n :
    Value(image, (n.value.at + n.value.length) % AddrMod))

\* The address of a property's data, 0 if the object does not have it.
prop_get_addr(image, table, o, property) ==
  IF property \notin 1 .. 31 THEN Fail(image)
  ELSE AndThen(prop_list_start(image, table, o), LAMBDA start :
       AndThen(FindEntry(image, start.value, property), LAMBDA e :
         Value(image, IF Number(image, e.value) = 0 THEN 0 ELSE (e.value + 1) % AddrMod)))

prop_get_len(image, a) ==
  IF a = 0 THEN Value(image, 0)
  ELSE AndThen(read8(image, a - 1), LAMBDA size : Value(image, LengthOf(size.value)))

\* A property of one byte is that byte, a longer one its first word.
prop_get(image, table, o, property) ==
  AndThen(prop_get_addr(image, table, o, property), LAMBDA a :
    IF a.value = 0 THEN read16(image, table + (property - 1) * 2)
    ELSE AndThen(prop_get_len(image, a.value), LAMBDA n :
           IF n.value = 1 THEN read8(image, a.value) ELSE read16(image, a.value)))

prop_get_next_mutant(image, table, o, property) ==
  IF property > 31 THEN Fail(image)
  ELSE AndThen(prop_list_start(image, table, o), LAMBDA start :
       IF property = 0
       THEN AndThen(read8(image, start.value), LAMBDA size : Value(image, NumberOf(size.value)))
       ELSE AndThen(FindEntry(image, start.value, property), LAMBDA e :
              Value(image, Number(image, e.value))))

\* The first property for 0, else the one behind the property given, which the
\* object has to have.  0 says that there is none.
prop_get_next(image, table, o, property) ==
  IF property > 31 THEN Fail(image)
  ELSE AndThen(prop_list_start(image, table, o), LAMBDA start :
       IF property = 0
       THEN AndThen(read8(image, start.value), LAMBDA size : Value(image, NumberOf(size.value)))
       ELSE AndThen(FindEntry(image, start.value, property), LAMBDA e :
              IF Number(image, e.value) = 0 THEN Fail(image)
              ELSE AndThen(read8(image, NextEntry(image, e.value)), LAMBDA size :
                     Value(image, NumberOf(size.value)))))

prop_put(image, dyn, table, o, property, value) ==
  AndThen(prop_get_addr(image, table, o, property), LAMBDA a :
    IF a.value = 0 THEN Fail(image)
    ELSE AndThen(prop_get_len(image, a.value), LAMBDA n :
           CASE n.value = 1 -> write8(image, dyn, a.value, ByteOf(value, 0))
             [] n.value = 2 ->
                  WriteBytes(image, dyn, a.value, <<ByteOf(value, 1), ByteOf(value, 0)>>)
             [] OTHER -> Fail(image)))
=============================================================================
