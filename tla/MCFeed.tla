------------------------------ MODULE MCFeed ------------------------------
(* Two rows, a ring of three frames and a bus of one: a session falls      *)
(* behind the bus, the ring and the done window in a few steps.            *)
EXTENDS Feed
CONSTANTS a, b
MCItems == {a, b}
Alike == Permutations(MCItems)
=============================================================================
