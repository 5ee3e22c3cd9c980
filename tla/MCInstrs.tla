----------------------------- MODULE MCInstrs -----------------------------
(* The instructions TLC offers to the interpreters: words modulo 4,         *)
(* variable 0 the stack, variable 1 a local, variable 2 a global.           *)
EXTENDS ZInstr, TLC

MCGlobals == {2}
MCInitialGlobals == [g \in MCGlobals |-> 0]
MCGarbage == {3}
\* Packed address 1 has a routine with one local, 2 one with too many.
MCRoutines == (1 :> <<2>>) @@ (2 :> <<0, 0>>)

Const(w) == [type |-> "constant", raw |-> w]
Variable(w) == [type |-> "variable", raw |-> w]
Ins(op, operands, store) ==
  [ op |-> op, operands |-> operands, store |-> store, on_true |-> TRUE,
    offset |-> 0, length |-> 2, result |-> 1, cond |-> TRUE, writes |-> <<>> ]
Branches(i, offsets) ==
  {[i EXCEPT !.on_true = b, !.offset = o] : b \in BOOLEAN, o \in offsets}
AnyOperand == {Const(1), Variable(0), Variable(1), Variable(2)}

\* Calls, returns and everything that moves words on the stack.
CallInstrs ==
  {Ins("call", <<Const(1)>> \o args, st) :
     args \in {<<>>, <<Variable(0), Const(1)>>}, st \in {0, 1}}
  \cup {Ins("call", <<Const(p)>>, 0) : p \in {0, 2, 3}}
  \cup {Ins("ret", <<x>>, 0) : x \in {Variable(0), Variable(1)}}
  \cup {Ins("ret_popped", <<>>, 0), Ins("pop", <<>>, 0), Ins("print_ret", <<>>, 0)}
  \cup {Ins("push", <<Variable(1)>>, 0)}
  \cup {Ins("pull", <<Const(v)>>, 0) : v \in {0, 1}}
  \cup {Ins("store", <<Const(0), Variable(0)>>, 0)}

\* Every other opcode, on a machine with a single frame.
DataInstrs ==
  UNION {Branches(Ins("je", <<x, Const(1), Const(2)>>, 0), {0}) : x \in AnyOperand}
  \cup Branches(Ins("inc_chk", <<Const(0), Variable(0)>>, 0), {4})
  \cup Branches(Ins("dec_chk", <<Const(1), Variable(0)>>, 0), {1})
  \cup Branches(Ins("jz", <<Variable(0)>>, 0), {0})
  \cup Branches([Ins("test", <<>>, 0) EXCEPT !.cond = FALSE], {0, 4})
  \cup {Ins("store", <<x, y>>, 0) :
          x \in {Const(0), Const(1)}, y \in {Const(1), Variable(0)}}
  \cup {Ins("inc", <<Const(1)>>, 0), Ins("dec", <<Const(0)>>, 0)}
  \cup {Ins("pull", <<Const(0)>>, 0), Ins("pull", <<Const(2)>>, 0)}
  \cup {Ins("push", <<Variable(1)>>, 0), Ins("push", <<Variable(2)>>, 0)}
  \cup {Ins("ret", <<x>>, 0) : x \in {Const(1), Variable(0)}}
  \cup {Ins("jump", <<Const(0)>>, 0)}
  \cup {Ins("load", <<Const(v)>>, 0) : v \in {0, 1}}
  \cup {Ins("result", <<Variable(0), Variable(2)>>, st) : st \in {0, 1, 2}}
  \cup Branches(Ins("result_branch", <<Variable(2)>>, 2), {0})
  \cup {Ins("call", <<Const(1), Variable(0)>>, 0)}
  \cup {Ins(op, <<>>, 0) : op \in {"rtrue", "rfalse", "ret_popped", "pop",
                                   "show_status", "bad", "quit"}}
  \cup {[Ins("effect", <<>>, 0) EXCEPT !.writes = 2 :> 3], Ins("effect", <<Variable(0)>>, 0)}

\* Calls together with every other opcode, on words that count one or two.
StepInstrs ==
  (CallInstrs \ {Ins("call", <<Const(1)>>, 1)})
  \cup Branches(Ins("je", <<Variable(1), Const(1), Variable(0)>>, 0), {0})
  \cup {[Ins("inc_chk", <<Const(0), Variable(0)>>, 0) EXCEPT !.offset = 4]}
  \cup {[Ins("test", <<>>, 0) EXCEPT !.on_true = FALSE, !.cond = FALSE, !.offset = o] :
           o \in {0, 4}}
  \cup {Ins("jz", <<Variable(0)>>, 0), Ins("dec_chk", <<Const(1), Variable(0)>>, 0)}
  \cup {Ins("inc", <<Const(0)>>, 0), Ins("dec", <<Const(0)>>, 0)}
  \cup {Ins("load", <<Const(v)>>, 0) : v \in {0, 1}}
  \cup {Ins("result", <<Variable(0), Variable(2)>>, 0), Ins("result_branch", <<>>, 0)}
  \cup {Ins(op, <<>>, 0) : op \in {"rtrue", "rfalse", "show_status", "bad", "quit",
                                   "save", "restore", "restart"}}
  \cup {Ins("jump", <<Const(0)>>, 0), Ins("effect", <<Variable(0)>>, 0)}

\* Saving and restoring in and out of a routine.
SaveInstrs ==
  {Ins("restore", <<>>, 0), Ins("restart", <<>>, 0)}
  \cup {Ins("call", <<Const(1)>>, 0), Ins("rtrue", <<>>, 0)}
  \cup {Ins("push", <<Const(1)>>, 0), Ins("pull", <<Const(1)>>, 0)}
  \cup Branches(Ins("save", <<>>, 0), {0, 1, 3})

\* Everything that moves the program counter, across the boundary between two
\* banks and both ways, with saves that go on in the routine they are in.  All
\* distances are even, so that the addresses outside of routines are.
PcInstrs ==
  {[Ins("jump", <<Const(w)>>, 0) EXCEPT !.length = 4] : w \in {x \in Word : x % 2 = 0}}
  \cup Branches(Ins("test", <<>>, 0), {2 - WordMod \div 2})
  \cup {[Ins("call", <<Const(p)>>, 2) EXCEPT !.length = WordMod - 2] : p \in {1, 5}}
  \cup {Ins(op, <<>>, 0) : op \in {"rtrue", "restore", "show_status", "restart"}}
  \cup {[Ins("save", <<>>, 0) EXCEPT !.on_true = b, !.offset = 2 - WordMod \div 2] :
          b \in BOOLEAN}
\* A routine in the first bank and one in the second; their results are ones.
PcRoutines == (1 :> <<2>>) @@ (5 :> <<>>)
PcInitialGlobals == [g \in MCGlobals |-> 1]
=============================================================================
