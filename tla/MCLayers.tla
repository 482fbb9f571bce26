------------------------------ MODULE MCLayers ------------------------------
(* Layers for TLC. *)
EXTENDS Layers
CONSTANTS c1, c2
MCCreators == {c1, c2}
=============================================================================
