------------------------------- MODULE MCObj -------------------------------
(* The object tree, on few objects.                                         *)
EXTENDS ObjTree

MCObjects == 1 .. 4
=============================================================================
