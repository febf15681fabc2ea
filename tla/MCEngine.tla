----------------------------- MODULE MCEngine -----------------------------
(***************************************************************************)
(* Instances of the queue engine for TLC: one row with everything that can *)
(* happen to it, and rows that compete for slots.                          *)
(***************************************************************************)
EXTENDS Engine

(* One subscription row that a playlist or an add may create.              *)
MCOneRow     == {1}
MCOneOrd     == [i \in {1} |-> i]
MCOneOrigin  == [i \in {1} |-> "bulk"]
MCOneRoute   == [i \in {1} |-> "web"]
MCGlobalOnly == [p \in {"web"} |-> 0]

(* An interactive row and a playlist's child on the global pool, and a     *)
(* child of a provider that brings one slot of its own.                    *)
MCRows   == 1..3
MCOrd    == [i \in 1..3 |-> i]
MCOrigin == <<"interactive", "bulk", "bulk">>
MCRoute  == <<"web", "web", "sc">>
MCPools  == [p \in {"web", "sc"} |-> IF p = "sc" THEN 1 ELSE 0]
===========================================================================
