--------------------------- MODULE MCTileNetwork ----------------------------
(* Instances of TileNetwork for TLC. *)
EXTENDS TileNetwork

CONSTANTS c1, c2

Two == {c1, c2}

One == {c1}

NoClients == {}

=============================================================================
