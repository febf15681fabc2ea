----------------------------- MODULE Lifecycle ----------------------------
(***************************************************************************)
(* What a client may rely on about a row, whatever the engine, its tasks   *)
(* and its restarts do: the states it is seen in between two commands, and *)
(* the moves between them.  A queued row that waits for a user's start is  *)
(* parked.  Several rows may move in one step.                             *)
(***************************************************************************)
CONSTANT Items
VARIABLES node, alive
vars == <<node, alive>>

Jobs  == {"preparing", "downloading", "postprocessing"}
Over  == {"finished", "error", "canceled"}
Nodes == {"new", "resolving", "parked", "queued", "gone"} \cup Jobs \cup Over

(* A row that is listed may be started, or refused, within the same step.  *)
Listed == {"queued", "preparing", "error"}

Created  == {"new"} \X ({"resolving", "parked"} \cup Listed)
Resolves == {"resolving"} \X ({"parked"} \cup Listed)
Starts   == {"queued", "parked"} \X ({"resolving"} \cup Listed)
Parks    == ({"queued"} \cup Jobs) \X {"parked"}
Advances == {<<"preparing", "downloading">>, <<"preparing", "postprocessing">>,
             <<"downloading", "postprocessing">>}
Ends     == Jobs \X {"finished", "error", "queued"}
Cancels  == (Nodes \ ({"new", "gone"} \cup Over)) \X {"canceled"}
Revives  == {"error", "canceled"} \X ({"resolving"} \cup Listed)
Removals == (Nodes \ {"new"}) \X {"gone"}

Moves == Created \cup Resolves \cup Starts \cup Parks \cup Advances \cup Ends
         \cup Cancels \cup Revives \cup Removals

(* What was interrupted is handed to the next boot, which lists it again.  *)
Interrupted == ({"resolving"} \cup Jobs) \X {"queued", "parked"}
Resumes     == ({"resolving", "queued"} \cup Jobs) \X ({"resolving", "parked"} \cup Listed)

Step(R) == \A i \in Items : node'[i] = node[i] \/ <<node[i], node'[i]>> \in R

Init == node = [i \in Items |-> "new"] /\ alive = TRUE
Next == /\ node' \in [Items -> Nodes]
        /\ \/ alive /\ alive' /\ Step(Moves)
           \/ alive /\ ~alive' /\ Step(Interrupted)
           \/ ~alive /\ alive' /\ Step(Resumes)
Spec == Init /\ [][Next]_vars
===========================================================================
