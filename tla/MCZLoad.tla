------------------------------ MODULE MCZLoad ------------------------------
(* The loader, in a word of 32 values: a header of 4 bytes, a stack of 3,   *)
(* frames of 2 and a prefix of 5, which holds one separator.                *)
EXTENDS ZLoad

MCHeader(dynamic_end, dictionary) ==
  [ is_v3 |-> TRUE, high_memory |-> 8, dictionary |-> dictionary, object_table |-> 3,
    globals |-> 2, dynamic_end |-> dynamic_end, abbrev_table |-> 1 ]

MCDicts ==
  [separators : {0, 1, 2}, entry_length : {0, 2}, entry_count : {0, 2, 3, 29, 16}]

\* Well-formed stories, their dictionary in, across and behind dynamic memory.
MCGood ==
  [ header : {MCHeader(5, at) : at \in {0, 3, 5, 6}} \cup {MCHeader(7, 6)}, dict : MCDicts,
    length : {0, 3, 4, 5, 6, 11, 13, 20} ]

\* Headers with one thing wrong.
MCBad ==
  { [header |-> h, dict |-> [separators |-> 0, entry_length |-> 0, entry_count |-> 0], length |-> 20] :
    h \in { [MCHeader(5, 6) EXCEPT !.is_v3 = FALSE], [MCHeader(5, 6) EXCEPT !.high_memory = 4],
            [MCHeader(5, 6) EXCEPT !.object_table = 5], [MCHeader(5, 6) EXCEPT !.globals = 0],
            [MCHeader(5, 6) EXCEPT !.globals = 5], [MCHeader(5, 6) EXCEPT !.abbrev_table = 5],
            MCHeader(3, 6) } }

MCStories == MCGood \cup MCBad

\* Arenas that end anywhere between the first block and behind the last, the
\* end of memory included.
MCArgs == [mem_base : {2}, mem_top : {5, 6, 8, 9, 11, 12, 15, 16, 17, 20, 22}] \cup
          [mem_base : {20, 22, 25}, mem_top : {31}]
=============================================================================
