-------------------------------- MODULE MCZ --------------------------------
(* The port, on small machines.                                             *)
EXTENDS ZRefinesVm, MCInstrs
=============================================================================
