------------------------------ MODULE Status ------------------------------
(***************************************************************************)
(* The status vocabulary of a queue row and the guard of its writes: the   *)
(* transition table of aulos-core/src/status.rs and the engine's           *)
(* status_chain, which lets one write take several hops of the happy path. *)
(* Pure operators: the queue modules build on this one.                    *)
(***************************************************************************)
EXTENDS Naturals

Running  == {"preparing", "downloading", "postprocessing"}
Terminal == {"finished", "error", "canceled"}
Statuses == {"queued", "resolving"} \cup Running \cup Terminal

(* A node of the table: the flag auto_start tells two `queued` nodes apart *)
(* and is ignored everywhere else (effective_auto_start).                  *)
Edge(s, a) == [status |-> s, auto |-> a]
Node(e)    == <<e.status, e.status = "queued" => e.auto>>

Table ==
  ({"resolving", "queued", "error", "canceled"} \X {"queued"})
  \cup ({"queued"} \X {"resolving", "preparing"})
  \cup {<<"preparing", "downloading">>, <<"downloading", "postprocessing">>,
        <<"postprocessing", "finished">>}
  \cup ((Running \cup {"resolving", "queued"}) \X {"error"})

CanTransition(from, to) ==
  \/ Node(from) = Node(to)
  \/ to.status = "canceled" /\ from.status \notin Terminal
  \/ from.status \in Running /\ to.status = "queued" /\ ~to.auto
  \/ <<from.status, to.status>> \in Table

(* The happy path, and the place of a status on it (0 for one that is not  *)
(* on it).                                                                 *)
Path == <<"preparing", "downloading", "postprocessing", "finished">>
Place == [preparing |-> 1, downloading |-> 2, postprocessing |-> 3, finished |-> 4]
Position(s) == IF s \in Running \cup {"finished"} THEN Place[s] ELSE 0

(* Every hop of the forward run is legal from the one before it.           *)
ForwardRun(from, to) ==
  LET start == Position(from.status) + 1
      Hop(k) == Edge(Path[k], TRUE)
  IN  /\ start <= Position(to.status)
      /\ CanTransition(from, Hop(start))
      /\ \A k \in start..(Position(to.status) - 1) : CanTransition(Hop(k), Hop(k + 1))

(* A write is accepted when the table has its edge, or the forward run     *)
(* leads there.                                                            *)
Writable(from, to) == CanTransition(from, to) \/ ForwardRun(from, to)

(* A stage frame that is behind its row keeps the row's status.            *)
Clamped(stage, status) ==
  IF {stage, status} \subseteq Running /\ Position(stage) < Position(status)
  THEN status ELSE stage
===========================================================================
