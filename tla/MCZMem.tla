------------------------------- MODULE MCZMem -------------------------------
(* Two banks of two windows each; the file ends in the last of the windows. *)
EXTENDS ZMem

MCStory == <<0, 1, 2, 3,  3, 1, 0, 2,  1, 3, 3, 0,  2>>
=============================================================================
