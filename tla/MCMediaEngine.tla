---------------------------- MODULE MCMediaEngine ----------------------------
(* MediaEngine for TLC. *)
EXTENDS MediaEngine

CONSTANTS p1, p2

=============================================================================
