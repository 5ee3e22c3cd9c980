------------------------------- MODULE MCZSave -------------------------------
(* A story in two states of play, and one with more dynamic memory.         *)
EXTENDS ZSave

MCBase == [eval |-> 3, frames |-> 9, dyn |-> 0]
MCDynSize == [small |-> 1, large |-> 2]
MCGarbage == {6}
BothStories == {"small", "large"}

\* States of play with little and with much on the stacks.
State(pc, base, eval, frames, dyn) ==
  [ scalar |-> [pc |-> pc, pc_bank |-> 0, globals_base |-> base, rand |-> pc + 1],
    content |-> [eval |-> eval, frames |-> frames, dyn |-> dyn] ]
MCPlayed ==
  [ small |-> {State(1, 7, <<>>, <<2>>, <<1>>), State(3, 7, <<3>>, <<>>, <<3>>)},
    large |-> {State(3, 7, <<3>>, <<>>, <<3, 3>>)} ]
=============================================================================
