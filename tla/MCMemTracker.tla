---------------------------- MODULE MCMemTracker ----------------------------
(***************************************************************************)
(* Instance: two threads over three addresses, so that a freed address is  *)
(* soon reused by the other thread, with another size.                     *)
(***************************************************************************)
EXTENDS MemTracker

CONSTANTS p, q, a, b, c

MCCallers == {p, q}
MCAddrs == {a, b, c}
=============================================================================
