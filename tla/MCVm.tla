------------------------------- MODULE MCVm -------------------------------
(* The reference interpreter, on small machines.                            *)
EXTENDS VmDispatch, MCInstrs
=============================================================================
