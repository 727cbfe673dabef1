----------------------------- MODULE MCHashRing -----------------------------
(* Three nodes of four make the ring; all may leave and come back. *)
EXTENDS HashRing

CONSTANTS a, b, c, d

Three == <<a, b, c>>
=============================================================================
