------------------------------ MODULE Outcome ------------------------------
(***************************************************************************)
(* How the routines of both interpreters report: a C function returns an   *)
(* error code and an 1802 routine sets DF.  Every primitive of a machine   *)
(* yields an outcome: whether it succeeded, the machine it leaves behind   *)
(* (a failing one may have changed it already) and a value.                *)
(***************************************************************************)
EXTENDS Integers, SequencesExt

Value(s, v) == [ok |-> TRUE, vm |-> s, value |-> v]
Done(s) == Value(s, 0)
Fail(s) == [ok |-> FALSE, vm |-> s, value |-> 0]

\* "if (step(...) != 0) return VM_ERROR;" and "call step / lbdf zds_error",
\* before the next step.
Then(r, Next(_)) == IF r.ok THEN Next(r) ELSE r

\* The two things a machine does to a stack besides pushing and popping.
Prefix(seq, n) == SubSeq(seq, 1, n)
WithTop(seq, v) == [seq EXCEPT ![Len(seq)] = v]
=============================================================================
