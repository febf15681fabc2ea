---------------------------- MODULE EngineProofs ----------------------------
(***************************************************************************)
(* The safety of the queue engine for any set of rows, any pools and any   *)
(* bounds, as long as no stage frame outlives its run and the auto-clear   *)
(* sweep meets no live row (the two orders the engine gets wrong); then    *)
(* what a step may do to a row: only users revive and unpark, every row    *)
(* keeps to the lifecycle a client relies on, and no permit is left idle.  *)
(***************************************************************************)
EXTENDS Engine, FiniteSetTheorems, TLAPS

----------------------------------------------------------------------------
(* The inductive invariant.                                                *)

(* A row between two operations of a handler, while the process is up.     *)
Base(r) ==
  /\ r \in Row
  /\ r.jobs = IF r.slot = "none" THEN 0 ELSE 1
  /\ r.status \in Running <=> r.slot = "held" \/ r.hooks
  /\ r.hooks => r.status = "postprocessing" /\ r.slot = "none"
  /\ r.status = "queued" /\ r.auto => r.ready # "none" \/ r.timer \/ Settled(r)
  /\ r.ready # "none" => r.status = "queued" /\ r.resolved
  /\ r.status = "resolving" => "own" \in r.tasks
  /\ r.resolving <=> r.status = "resolving"
  /\ r.slot # "none" /\ Known(r) => r.resolved

(* Between two handlers no frame of an earlier run waits for a queued row. *)
Idle(r)  == Base(r) /\ (r.status = "queued" /\ r.slot = "none" => r.frames = {})

(* What a process that is gone left.                                       *)
Left(r) ==
  /\ r \in Row /\ r.slot = "none" /\ r.jobs = 0 /\ r.ready = "none"
  /\ ~r.hooks /\ ~r.timer /\ ~r.resolving /\ r.frames = {}

IInv ==
  /\ row \in [Items -> Row] /\ up \in BOOLEAN
  /\ degraded \subseteq Providers /\ boots \in 0..MaxBoots
  /\ \A i \in Items : IF up THEN Idle(row[i]) ELSE Left(row[i])
----------------------------------------------------------------------------
(* Writes the engine counts on: the table has the edge.                    *)

(* A running row may be parked, its job's report may finish it or open its *)
(* hook window, and a queued row may be started.                           *)
LEMMA WritableEdges ==
  /\ \A s \in Running : \A a \in BOOLEAN : Writable(Edge(s, a), Edge("queued", FALSE))
  /\ \A a \in BOOLEAN : Writable(Edge("queued", a), Edge("preparing", a))
  /\ \A s \in Running : \A a \in BOOLEAN : Writable(Edge(s, a), Edge("finished", a))
  /\ \A s \in Statuses \ Terminal : \A a \in BOOLEAN :
       Writable(Edge(s, a), Edge("canceled", a)) /\ Writable(Edge(s, a), Edge("error", a))
<1>1. \A s \in Running : \A a \in BOOLEAN : CanTransition(Edge(s, a), Edge("queued", FALSE))
  BY DEF CanTransition, Edge, Running
<1>2. \A a \in BOOLEAN : CanTransition(Edge("queued", a), Edge("preparing", a))
  BY DEF CanTransition, Edge, Table
<1>3. \A s \in Statuses \ Terminal : \A a \in BOOLEAN :
        CanTransition(Edge(s, a), Edge("canceled", a)) /\ CanTransition(Edge(s, a), Edge("error", a))
  BY DEF CanTransition, Edge, Table, Statuses, Terminal, Running
<1>4. \A s \in Running : \A a \in BOOLEAN : Writable(Edge(s, a), Edge("finished", a))
  <2>. SUFFICES ASSUME NEW s \in Running, NEW a \in BOOLEAN
                PROVE  ForwardRun(Edge(s, a), Edge("finished", a))
    BY DEF Writable
  <2>. USE DEF ForwardRun, CanTransition, Edge, Node, Table, Place, Position, Path, Running
  <2>1. CASE s = "preparing"
    BY <2>1
  <2>2. CASE s = "downloading"
    BY <2>2
  <2>3. CASE s = "postprocessing"
    BY <2>3
  <2>. QED  BY <2>1, <2>2, <2>3
<1>. QED  BY <1>1, <1>2, <1>3, <1>4 DEF Writable

----------------------------------------------------------------------------
(* One row, one operation.                                                 *)

(* What a handler may make of a row: it keeps the invariant and takes no   *)
(* slot.                                                                   *)
Kept(r, q) == Base(q) /\ (q.slot = "held" => r.slot = "held")

(* The attempt counter stays within its bound.                             *)
LEMMA BumpType == \A n \in 0..MaxAttempt : Bump(n) \in 0..MaxAttempt
BY BoundAssumption DEF Bump

(* Disowning answers yields answers.                                       *)
LEMMA DisownedType ==
  \A ts \in SUBSET Task : Disowned(ts) \in SUBSET Task /\ Disowned(ts) \cup {"own"} \in SUBSET Task
BY DEF Disowned, Task

(* A live row can always be cancelled or failed: the write is accepted.    *)
LEMMA TerminateLive ==
  ASSUME NEW r \in Row, r.status \in Statuses \ Terminal,
         NEW s \in {"canceled", "error"}
  PROVE  Terminate(r, s) = [r EXCEPT !.status = s, !.wait = FALSE,
                              !.clear = @ \/ (Clearing /\ s \in {"finished", "error"})]
BY WritableEdges DEF Terminate, Row, Known, Statuses, Terminal

(* A running row is parked: its slot is settled, its window closed, and    *)
(* its job still has to report.                                            *)
LEMMA ParkKept ==
  ASSUME NEW r, Base(r), r.status \in Running
  PROVE  Kept(r, ParkRunning(r))
<1>1. Write(Settle(CloseWindow(r), "paused"), "queued", FALSE)
        = [Settle(CloseWindow(r), "paused") EXCEPT !.status = "queued", !.auto = FALSE]
  BY WritableEdges DEF Write, Settle, CloseWindow, Known, Statuses, Base, Row
<1>. DEFINE q == ParkRunning(r)
<1>2. q = [r EXCEPT !.hooks = FALSE, !.slot = IF @ = "none" THEN "none" ELSE "paused",
                    !.status = "queued", !.auto = FALSE, !.ready = "none"]
  BY <1>1 DEF ParkRunning, Settle, CloseWindow, Base, Row
<1>3. q \in Row
  BY ZenonT(60), <1>2 DEF Base, Row, Statuses
<1>4. /\ q.status = "queued" /\ ~q.auto /\ ~q.hooks /\ q.ready = "none"
      /\ q.slot = (IF r.slot = "none" THEN "none" ELSE "paused")
      /\ q.jobs = r.jobs /\ q.resolving = r.resolving /\ q.resolved = r.resolved
  BY <1>2 DEF Base, Row
<1>. HIDE DEF q
<1>5. Kept(r, q)
  BY <1>3, <1>4 DEF Kept, Base, Known, Statuses, Running, Settled
<1>. QED  BY <1>5 DEF q

(* A cancel closes the window, settles the slot and takes the row off      *)
(* every list, whatever state it was in.                                   *)
LEMMA CancelKept ==
  ASSUME NEW r \in Row, r.status \in Statuses \ Terminal,
         r.jobs = IF r.slot = "none" THEN 0 ELSE 1, r.slot # "none" => r.resolved
  PROVE  Kept(r, CancelOne(r)) /\ CancelOne(r).status = "canceled"
<1>. DEFINE b == Settle(CloseWindow(r), "canceled")
            q == CancelOne(r)
<1>1. /\ b \in Row /\ b.status = r.status /\ ~b.hooks /\ b.jobs = r.jobs /\ b.resolved = r.resolved
      /\ b.slot = IF r.slot = "none" THEN "none" ELSE "canceled"
  BY ZenonT(60) DEF Settle, CloseWindow, Row
<1>2. q = [Terminate(b, "canceled") EXCEPT !.ready = "none", !.timer = FALSE, !.resolving = FALSE,
             !.tasks = IF r.resolving THEN Disowned(@) ELSE @]
  BY DEF CancelOne
<1>. HIDE DEF b, q
<1>3. Terminate(b, "canceled") = [b EXCEPT !.status = "canceled", !.wait = FALSE,
                                    !.clear = @ \/ (Clearing /\ "canceled" \in {"finished", "error"})]
  BY <1>1, TerminateLive
<1>4. q \in Row
  <2>1. b.tasks \in SUBSET Task /\ Disowned(b.tasks) \in SUBSET Task
    BY <1>1, DisownedType DEF Row
  <2>2. Terminate(b, "canceled") \in Row /\ Terminate(b, "canceled").tasks = b.tasks
    BY ZenonT(60), <1>1, <1>3, SwitchAssumption DEF Row, Statuses, Terminal
  <2>. DEFINE t == Terminate(b, "canceled")
              D == IF r.resolving THEN Disowned(b.tasks) ELSE b.tasks
  <2>3. D \in SUBSET Task
    BY <2>1
  <2>4. q = [t EXCEPT !.ready = "none", !.timer = FALSE, !.resolving = FALSE, !.tasks = D]
    BY <1>2, <2>2 DEF Row
  <2>. HIDE DEF t, D
  <2>5. t \in Row
    BY <2>2 DEF t
  <2>. QED  BY ZenonT(60), <2>3, <2>4, <2>5 DEF Row
<1>5. /\ q.status = "canceled" /\ ~q.hooks /\ q.ready = "none" /\ ~q.resolving
      /\ q.slot = b.slot /\ q.jobs = b.jobs /\ q.resolved = b.resolved
  BY <1>1, <1>2, <1>3 DEF Row
<1>6. Kept(r, q) /\ q.status = "canceled"
  BY <1>1, <1>4, <1>5 DEF Kept, Base, Known, Running, Statuses
<1>. QED  BY <1>6 DEF q

(* Listing a queued row that may be waiting for the job it replaces.       *)
Listable(q) ==
  /\ q \in Row /\ q.status = "queued" /\ ~q.resolving /\ ~q.hooks /\ q.slot # "held"
  /\ q.jobs = IF q.slot = "none" THEN 0 ELSE 1
  /\ q.slot # "none" => q.resolved

(* Listing a resolved row that waits keeps the invariant.                  *)
LEMMA EnqueueKept ==
  ASSUME NEW i \in Items, NEW q, Listable(q), q.resolved
  PROVE  Kept(q, Enqueue(i, q))
<1>. DEFINE e == Enqueue(i, q)
<1>1. e.ready \in Classes
  BY RoutingAssumption DEF Enqueue, Listable, Row, Classes, Ranked
<1>2. /\ e \in Row /\ e.status = "queued" /\ ~e.resolving /\ ~e.hooks /\ e.slot = q.slot
      /\ e.jobs = q.jobs /\ e.resolved
  BY <1>1 DEF Enqueue, Listable, Row
<1>3. "none" \notin Classes
  BY DEF Classes, Ranked
<1>. HIDE DEF e
<1>4. Kept(q, e)
  BY <1>1, <1>2, <1>3 DEF Kept, Base, Listable, Known, Running
<1>. QED  BY <1>4 DEF e

(* A row that waits and is not resolved is resolved again; a task that     *)
(* will answer exists from then on.                                        *)
LEMMA RestartKept ==
  ASSUME NEW q, Listable(q), ~q.resolved
  PROVE  Kept(q, RestartResolution(q))
<1>. DEFINE e == RestartResolution(q)
<1>1. e = [q EXCEPT !.ready = "none", !.status = "resolving", !.wait = FALSE, !.resolving = TRUE,
                    !.hops = 0, !.tasks = Disowned(@) \cup {"own"}]
  BY DEF RestartResolution, Spawn, Listable, Row
<1>2. e \in Row
  <2>1. Disowned(q.tasks) \cup {"own"} \in SUBSET Task
    BY DisownedType DEF Listable, Row
  <2>. DEFINE w == [q EXCEPT !.ready = "none", !.status = "resolving", !.wait = FALSE, !.resolving = TRUE]
  <2>2. w \in Row
    BY DEF Listable, Row, Statuses
  <2>3. 0 \in 0..MaxHops
    BY BoundAssumption
  <2>4. [w EXCEPT !.hops = 0, !.tasks = Disowned(q.tasks) \cup {"own"}] \in Row
    BY ZenonT(60), <2>1, <2>2, <2>3 DEF Row
  <2>. QED  BY <1>1, <2>4 DEF Listable, Row
<1>3. /\ e.status = "resolving" /\ ~e.hooks /\ e.slot = "none" /\ e.jobs = 0 /\ e.ready = "none"
      /\ e.resolving /\ "own" \in e.tasks
  BY <1>1 DEF Listable, Row
<1>. HIDE DEF e
<1>4. Kept(q, e)
  BY <1>2, <1>3 DEF Kept, Base, Running
<1>. QED  BY <1>4 DEF e

(* What a retry, a start, a timer and a boot all end in.                   *)
LEMMA ListKept ==
  ASSUME NEW i \in Items, NEW q, Listable(q)
  PROVE  Kept(q, IF q.resolved THEN Enqueue(i, q) ELSE RestartResolution(q))
BY EnqueueKept, RestartKept DEF Listable, Row

(* Leaving a row alone keeps the invariant.                                *)
LEMMA SameKept == ASSUME NEW r, Base(r) PROVE Kept(r, r)
BY DEF Kept

(* A retry of a failed or cancelled row, by the user or by start.          *)
LEMMA RetryKept ==
  ASSUME NEW i \in Items, NEW r, Base(r), r.status \in {"error", "canceled"}
  PROVE  Kept(r, RetryOne(i, r))
<1>. DEFINE q == [r EXCEPT !.status = "queued", !.auto = TRUE, !.wait = FALSE, !.attempt = Bump(@)]
<1>1. Bump(r.attempt) \in 0..MaxAttempt
  BY BumpType DEF Base, Row
<1>2. Listable(q) /\ q.slot = r.slot
  BY ZenonT(60), <1>1 DEF Listable, Base, Row, Known, Statuses, Running, Terminal
<1>3. RetryOne(i, r) = IF q.resolved THEN Enqueue(i, q) ELSE RestartResolution(q)
  BY DEF RetryOne
<1>. HIDE DEF q
<1>. QED  BY <1>2, <1>3, ListKept DEF Kept

(* handle_start on a row, whatever its status.                             *)
LEMMA StartKept ==
  ASSUME NEW i \in Items, NEW r, Base(r), Known(r)
  PROVE  Kept(r, StartOne(i, r))
<1>. DEFINE q == [r EXCEPT !.auto = TRUE]
<1>1. CASE r.status = "resolving"
  <2>1. StartOne(i, r) = q
    BY <1>1 DEF StartOne
  <2>. QED  BY ZenonT(60), <1>1, <2>1 DEF Kept, Base, Row, Known, Settled, Running
<1>2. CASE r.status = "queued" /\ r.wait
  <2>1. StartOne(i, r) = [q EXCEPT !.timer = TRUE]
    BY <1>2 DEF StartOne
  <2>. QED  BY ZenonT(60), <1>2, <2>1 DEF Kept, Base, Row, Known, Settled, Running
<1>3. CASE r.status = "queued" /\ ~r.wait
  <2>1. StartOne(i, r) = IF q.resolved THEN Enqueue(i, q) ELSE RestartResolution(q)
    BY <1>3 DEF StartOne, Base, Row
  <2>2. Listable(q) /\ q.slot = r.slot
    BY <1>3 DEF Listable, Base, Row, Known, Statuses, Running
  <2>. HIDE DEF q
  <2>. QED  BY <2>1, <2>2, ListKept DEF Kept
<1>4. CASE r.status \in {"error", "canceled"}
  <2>1. StartOne(i, r) = RetryOne(i, r)
    BY <1>4 DEF StartOne
  <2>. QED  BY <1>4, <2>1, RetryKept
<1>5. CASE r.status \notin {"resolving", "queued", "error", "canceled"}
  <2>1. StartOne(i, r) = r
    BY <1>5 DEF StartOne
  <2>. QED  BY <2>1, SameKept
<1>. QED  BY <1>1, <1>2, <1>3, <1>4, <1>5

(* handle_pause on a row, whatever its status.                             *)
LEMMA PauseKept ==
  ASSUME NEW i \in Items, NEW r, Base(r), Known(r)
  PROVE  Kept(r, PauseOne(i, r))
<1>1. CASE r.status = "queued" /\ r.auto
  <2>1. PauseOne(i, r) = [r EXCEPT !.auto = FALSE, !.ready = "none", !.timer = FALSE]
    BY <1>1 DEF PauseOne, Running
  <2>. DEFINE q == [r EXCEPT !.auto = FALSE, !.ready = "none", !.timer = FALSE]
  <2>2. q \in Row
    BY DEF Base, Row
  <2>3. /\ q.status = "queued" /\ ~q.auto /\ q.ready = "none" /\ q.hooks = r.hooks /\ q.slot = r.slot
        /\ q.jobs = r.jobs /\ q.resolving = r.resolving /\ q.resolved = r.resolved
    BY <1>1 DEF Base, Row
  <2>. HIDE DEF q
  <2>4. Kept(r, q)
    BY <1>1, <2>2, <2>3 DEF Kept, Base, Known, Statuses, Running
  <2>. QED  BY <2>1, <2>4 DEF q
<1>2. CASE r.status \in Running
  <2>1. PauseOne(i, r) = ParkRunning(r)
    BY <1>2 DEF PauseOne, Running
  <2>. QED  BY <1>2, <2>1, ParkKept
<1>3. CASE ~(r.status = "queued" /\ r.auto) /\ r.status \notin Running
  <2>1. PauseOne(i, r) = r
    BY <1>3 DEF PauseOne
  <2>. QED  BY <2>1, SameKept
<1>. QED  BY <1>1, <1>2, <1>3

(* handle_cancel on a row, whatever its status.                            *)
LEMMA CancelRowKept ==
  ASSUME NEW i \in Items, NEW r, Base(r), Known(r)
  PROVE  Kept(r, CancelRow(i, r)) /\ CancelRow(i, r).status \in Terminal
<1>1. CASE Ended(r)
  BY <1>1, SameKept DEF CancelRow, Ended
<1>2. CASE ~Ended(r)
  BY <1>2, CancelKept DEF CancelRow, Ended, Known, Base, Terminal
<1>. QED  BY <1>1, <1>2

(* handle_retry on a row, whatever its status.                             *)
LEMMA RetryRowKept ==
  ASSUME NEW i \in Items, NEW r, Base(r), Known(r)
  PROVE  Kept(r, RetryRow(i, r))
BY RetryKept, SameKept DEF RetryRow

(* Forgetting a row whose download is over leaves nothing that counts.     *)
LEMMA ForgetKept ==
  ASSUME NEW r, Base(r), r.status \in Terminal
  PROVE  Kept(r, Forget(r))
<1>. DEFINE q == Forget(r)
<1>1. q = [r EXCEPT !.hooks = FALSE, !.status = "gone", !.auto = FALSE, !.resolved = FALSE,
             !.attempt = 0, !.clear = FALSE, !.wait = FALSE, !.ready = "none", !.timer = FALSE]
  BY DEF Forget, CloseWindow
<1>2. q \in Row
  <2>1. 0 \in 0..MaxAttempt
    BY BoundAssumption
  <2>. DEFINE w == [r EXCEPT !.hooks = FALSE, !.status = "gone", !.auto = FALSE, !.resolved = FALSE]
  <2>2. w \in Row
    BY DEF Base, Row
  <2>3. [w EXCEPT !.attempt = 0, !.clear = FALSE, !.wait = FALSE, !.ready = "none", !.timer = FALSE] \in Row
    BY ZenonT(60), <2>1, <2>2 DEF Row
  <2>. QED  BY <1>1, <2>3
<1>3. /\ q.status = "gone" /\ ~q.hooks /\ q.slot = r.slot /\ q.jobs = r.jobs /\ q.ready = "none"
      /\ q.resolving = r.resolving
  BY <1>1 DEF Base, Row
<1>. HIDE DEF q
<1>4. Kept(r, q)
  BY <1>2, <1>3 DEF Kept, Base, Known, Statuses, Running, Terminal
<1>. QED  BY <1>4 DEF q

(* handle_delete on a row: what is cancelled first is forgotten then.      *)
LEMMA DeleteKept ==
  ASSUME NEW i \in Items, NEW r, Base(r), Known(r)
  PROVE  Kept(r, DeleteRow(i, r))
BY CancelRowKept, ForgetKept DEF DeleteRow, Kept

(* A resolving row whose answer has been taken off the channel.            *)
Answering(r) ==
  /\ r \in Row /\ r.status = "resolving" /\ ~r.resolving /\ ~r.hooks /\ r.ready = "none"
  /\ r.slot # "held" /\ r.jobs = IF r.slot = "none" THEN 0 ELSE 1
  /\ r.slot # "none" => r.resolved

(* A row that waits for a premiere has a timer, if it is to start at all.  *)
LEMMA WaitKept ==
  ASSUME NEW r \in Row, r.status \in Statuses, ~r.resolving, ~r.hooks, r.ready = "none", r.slot # "held",
         r.jobs = IF r.slot = "none" THEN 0 ELSE 1, r.slot # "none" => r.resolved
  PROVE  Kept(r, WaitForVideo(r))
<1>. DEFINE q == WaitForVideo(r)
<1>1. /\ q \in Row /\ q.status = "queued" /\ q.auto = r.auto /\ (q.auto => q.timer) /\ q.ready = "none"
      /\ q.hooks = r.hooks /\ q.slot = r.slot /\ q.jobs = r.jobs /\ q.resolving = r.resolving
      /\ q.resolved = r.resolved
  BY ZenonT(60) DEF WaitForVideo, Row, Statuses
<1>. HIDE DEF q
<1>2. Kept(r, q)
  BY <1>1 DEF Kept, Base, Known, Running
<1>. QED  BY <1>2 DEF q

(* A row without a job or a window is failed or cancelled.                 *)
LEMMA EndKept ==
  ASSUME NEW r \in Row, r.status \in Statuses \ Terminal, ~r.resolving, ~r.hooks, r.ready = "none",
         r.slot # "held", r.jobs = IF r.slot = "none" THEN 0 ELSE 1, r.slot # "none" => r.resolved,
         NEW s \in {"canceled", "error"}
  PROVE  Kept(r, Terminate(r, s))
<1>. DEFINE q == Terminate(r, s)
            c == r.clear \/ (Clearing /\ s \in {"finished", "error"})
<1>1. q = [r EXCEPT !.status = s, !.wait = FALSE, !.clear = c]
  BY TerminateLive
<1>0. c \in BOOLEAN
  OBVIOUS
<1>. HIDE DEF q, c
<1>4. q \in Row
  BY <1>0, <1>1 DEF Row, Statuses, Terminal
<1>2. /\ q.status = s /\ q.ready = "none"
      /\ q.hooks = r.hooks /\ q.slot = r.slot /\ q.jobs = r.jobs /\ q.resolving = r.resolving
      /\ q.resolved = r.resolved
  BY <1>1 DEF Row
<1>3. Kept(r, q)
  BY <1>2, <1>4 DEF Kept, Base, Known, Running
<1>. QED  BY <1>3 DEF q

(* Every outcome of a resolution leaves the row listed, parked, waiting,   *)
(* over, or with another task that will answer.                            *)
LEMMA OutcomeKept ==
  ASSUME NEW i \in Items, NEW r, Answering(r), NEW o \in Outcomes
  PROVE  Kept(r, OnOutcome(i, r, o))
<1>. DEFINE named == [r EXCEPT !.resolved = TRUE]
<1>0. Answering(named) /\ named.slot = r.slot /\ named.resolved /\ named.auto = r.auto
  BY DEF Answering, Row
<1>6. ASSUME NEW q, q = [named EXCEPT !.status = "queued", !.wait = FALSE]
      PROVE  Listable(q) /\ q.resolved /\ q.slot = r.slot /\ q.auto = r.auto /\ q.ready = "none"
  <2>. HIDE DEF named
  <2>1. q \in Row
    BY ZenonT(60), <1>0, <1>6 DEF Answering, Row, Statuses
  <2>. QED  BY <1>0, <1>6, <2>1 DEF Listable, Answering, Row
<1>1. CASE o = "video"
  <2>. DEFINE q == [named EXCEPT !.status = "queued", !.wait = FALSE]
  <2>1. OnOutcome(i, r, o) = IF r.auto THEN Enqueue(i, q) ELSE q
    BY <1>1 DEF OnOutcome
  <2>2. Listable(q) /\ q.resolved /\ q.slot = r.slot /\ q.auto = r.auto /\ q.ready = "none"
    BY <1>6
  <2>. HIDE DEF q
  <2>3. CASE r.auto
    BY <2>1, <2>2, <2>3, EnqueueKept DEF Kept
  <2>4. CASE ~r.auto
    BY <2>1, <2>2, <2>4 DEF Kept, Base, Listable, Known, Running
  <2>. QED  BY <2>3, <2>4
<1>2. CASE o = "pre_error"
  <2>. DEFINE w == [named EXCEPT !.status = "queued", !.wait = FALSE]
              q == [named EXCEPT !.status = "queued", !.auto = FALSE, !.wait = FALSE]
  <2>1. OnOutcome(i, r, o) = q
    BY <1>2 DEF OnOutcome
  <2>3. Listable(w) /\ w.resolved /\ w.slot = r.slot /\ w.ready = "none"
    BY <1>6
  <2>4. q = [w EXCEPT !.auto = FALSE]
    BY <1>0 DEF Answering, Row
  <2>. HIDE DEF w, q
  <2>2. Listable(q) /\ q.resolved /\ q.slot = r.slot /\ ~q.auto /\ q.ready = "none"
    BY <2>3, <2>4 DEF Listable, Row
  <2>. QED  BY <2>1, <2>2 DEF Kept, Base, Listable, Known, Running
<1>3. CASE o \in {"upcoming", "not_yet_live"} /\ i \in Subs
  <2>1. OnOutcome(i, r, o) \in {WaitForVideo(named), WaitForVideo(r)}
    BY <1>3 DEF OnOutcome
  <2>2. Kept(r, WaitForVideo(r)) /\ Kept(named, WaitForVideo(named))
    BY <1>0, WaitKept DEF Answering, Statuses
  <2>. QED  BY <1>0, <2>1, <2>2 DEF Kept
<1>4. CASE o = "redirect" /\ r.hops < MaxHops
  <2>. DEFINE q == Spawn(r, r.hops + 1)
  <2>1. OnOutcome(i, r, o) = q
    BY <1>4 DEF OnOutcome
  <2>2. q = [r EXCEPT !.resolving = TRUE, !.hops = r.hops + 1, !.tasks = Disowned(r.tasks) \cup {"own"}]
    BY DEF Spawn
  <2>3. r.hops + 1 \in 0..MaxHops
    BY <1>4, BoundAssumption DEF Answering, Row
  <2>4. Disowned(r.tasks) \cup {"own"} \in SUBSET Task
    BY DisownedType DEF Answering, Row
  <2>5. q \in Row
    BY ZenonT(60), <2>2, <2>3, <2>4 DEF Answering, Row
  <2>. HIDE DEF q
  <2>6. /\ q.status = "resolving" /\ ~q.hooks /\ q.ready = "none" /\ q.slot = r.slot /\ q.jobs = r.jobs
        /\ q.resolved = r.resolved /\ q.resolving /\ q.tasks = Disowned(r.tasks) \cup {"own"}
    BY <2>2 DEF Answering, Row
  <2>. QED  BY <2>1, <2>5, <2>6 DEF Kept, Base, Answering, Known, Running
<1>5. CASE /\ o \notin {"video", "pre_error"} /\ ~(o = "redirect" /\ r.hops < MaxHops)
           /\ ~(o \in {"upcoming", "not_yet_live"} /\ i \in Subs)
  <2>1. OnOutcome(i, r, o) = Terminate(r, "error")
    BY <1>5 DEF OnOutcome
  <2>2. r.status \in Statuses \ Terminal
    BY DEF Answering, Statuses, Terminal
  <2>3. Kept(r, Terminate(r, "error"))
    BY <2>2, EndKept DEF Answering
  <2>. QED  BY <2>1, <2>3
<1>. QED  BY <1>1, <1>2, <1>3, <1>4, <1>5

(* A row stays a row when its status and its flag are written.             *)
LEMMA WrittenRow ==
  ASSUME NEW q \in Row, NEW s \in Statuses, NEW a \in BOOLEAN
  PROVE  [q EXCEPT !.status = s, !.auto = a] \in Row
BY DEF Row

(* A stage frame the engine does not refuse finds a running row, and       *)
(* leaves it running: it never revives one.                                *)
LEMMA StageKept ==
  ASSUME NEW r, Idle(r), NEW s \in r.frames, NEW q, q = [r EXCEPT !.frames = @ \ {s}]
  PROVE  Kept(r, IF StageRefused(q) THEN q ELSE Write(q, Clamped(s, q.status), q.auto))
<1>1. /\ q \in Row /\ q.status = r.status /\ q.auto = r.auto /\ q.ready = r.ready /\ q.timer = r.timer
      /\ q.hooks = r.hooks /\ q.slot = r.slot /\ q.jobs = r.jobs /\ q.resolving = r.resolving
      /\ q.resolved = r.resolved /\ q.tasks = r.tasks
  BY DEF Idle, Base, Row
<1>2. Kept(r, q)
  BY <1>1 DEF Idle, Kept, Base, Known, Settled
<1>3. CASE StageRefused(q)
  BY <1>2, <1>3
<1>4. CASE ~StageRefused(q)
  <2>1. q.slot \in {"none", "held"} /\ ~q.hooks /\ q.status \in Statuses \ Terminal
    BY <1>1, <1>4 DEF StageRefused, Known, Ended, Settled, Row
  <2>2. CASE q.slot = "held"
    <3>1. q.status \in Running /\ s \in Running
      BY <1>1, <2>2 DEF Idle, Base, Row
    <3>2. Clamped(s, q.status) \in Running
      BY <3>1 DEF Clamped
    <3>. DEFINE w == Write(q, Clamped(s, q.status), q.auto)
    <3>3. w = q \/ w = [q EXCEPT !.status = Clamped(s, q.status), !.auto = q.auto]
      BY DEF Write
    <3>. HIDE DEF w
    <3>4. w = q \/ Kept(r, w)
      <4>. SUFFICES ASSUME w = [q EXCEPT !.status = Clamped(s, q.status), !.auto = q.auto]
                    PROVE  Kept(r, w)
        BY <3>3
      <4>1. w \in Row
        <5>1. q.auto \in BOOLEAN /\ Clamped(s, q.status) \in Statuses
          BY <1>1, <3>2 DEF Row, Statuses
        <5>. QED  BY <1>1, <5>1, WrittenRow
      <4>2. /\ w.status = Clamped(s, q.status) /\ w.auto = q.auto /\ w.ready = q.ready
            /\ w.hooks = q.hooks /\ w.slot = q.slot /\ w.jobs = q.jobs /\ w.resolving = q.resolving
            /\ w.resolved = q.resolved
        BY <1>1 DEF Row
      <4>3. w.status \in Running
        BY <3>2, <4>2
      <4>. QED  BY <1>1, <2>1, <2>2, <3>1, <4>1, <4>2, <4>3 DEF Idle, Kept, Base, Known, Statuses, Running
    <3>. QED  BY <1>2, <1>4, <3>4 DEF w
  <2>3. CASE q.slot = "none"
    <3>1. q.status = "resolving"
      BY <1>1, <2>1, <2>3 DEF Idle, Base, Statuses, Running
    <3>2. Write(q, Clamped(s, q.status), q.auto) = q
      <4>1. s \in Running
        BY DEF Idle, Base, Row
      <4>2. Clamped(s, q.status) = s
        BY <3>1 DEF Clamped, Running
      <4>3. ~Writable(Edge("resolving", q.auto), Edge(s, q.auto))
        BY <4>1 DEF Writable, ForwardRun, CanTransition, Edge, Node, Table, Place, Position, Path, Running, Terminal
      <4>. QED  BY <3>1, <4>2, <4>3 DEF Write
    <3>. QED  BY <1>2, <1>4, <3>2
  <2>. QED  BY <2>1, <2>2, <2>3
<1>. QED  BY <1>3, <1>4

(* The report of a job drops the slot: what is left of the row is neither  *)
(* a base row nor far from one.                                            *)
LEMMA ReportedRow ==
  ASSUME NEW r, Base(r), r.jobs > 0, NEW q, q = Reported(r)
  PROVE  /\ q \in Row /\ q.slot = "none" /\ q.jobs = 0 /\ r.slot # "none" /\ ~q.hooks
         /\ q.status = r.status /\ q.auto = r.auto /\ q.ready = r.ready
         /\ q.timer = r.timer /\ q.resolving = r.resolving /\ q.resolved = r.resolved
         /\ q.tasks = r.tasks /\ q.attempt = r.attempt
<1>1. r \in Row /\ r.slot # "none" /\ r.jobs = 1 /\ ~r.hooks
  BY DEF Base, Row
<1>2. q = [r EXCEPT !.jobs = 0, !.slot = "none"]
  BY <1>1 DEF Reported
<1>3. q \in Row
  <2>1. [r EXCEPT !.jobs = 0] \in Row
    BY <1>1 DEF Row
  <2>. QED  BY ZenonT(60), <1>2, <2>1 DEF Row
<1>4. /\ q.slot = "none" /\ q.jobs = 0 /\ q.hooks = r.hooks
      /\ q.status = r.status /\ q.auto = r.auto /\ q.ready = r.ready
      /\ q.timer = r.timer /\ q.resolving = r.resolving /\ q.resolved = r.resolved
      /\ q.tasks = r.tasks /\ q.attempt = r.attempt
  BY <1>1, <1>2 DEF Row
<1>. QED  BY <1>1, <1>3, <1>4

(* The settled job's report: the row that waited for it is listed.         *)
LEMMA ReleaseKept ==
  ASSUME NEW i \in Items, NEW r, Base(r), r.jobs > 0, Settled(r)
  PROVE  Kept(r, Release(i, r))
<1>. DEFINE q == Reported(r)
<1>1. /\ q \in Row /\ q.slot = "none" /\ q.jobs = 0 /\ r.slot # "none" /\ ~q.hooks
      /\ q.status = r.status /\ q.auto = r.auto /\ q.ready = r.ready
      /\ q.timer = r.timer /\ q.resolving = r.resolving /\ q.resolved = r.resolved
      /\ q.tasks = r.tasks
  BY ReportedRow
<1>2. Release(i, r) = IF Known(q) /\ q.status = "queued" /\ q.auto THEN Enqueue(i, q) ELSE q
  BY DEF Release
<1>. HIDE DEF q
<1>3. CASE q.status = "queued" /\ q.auto
  <2>1. Listable(q) /\ q.resolved
    BY <1>1, <1>3 DEF Listable, Base, Known, Statuses
  <2>2. Release(i, r) = Enqueue(i, q)
    BY <1>2, <1>3 DEF Known, Statuses
  <2>. QED  BY <1>1, <2>1, <2>2, EnqueueKept DEF Kept
<1>4. CASE ~(q.status = "queued" /\ q.auto)
  <2>1. Release(i, r) = q
    BY <1>2, <1>4
  <2>2. Kept(r, q)
    BY <1>1, <1>4 DEF Kept, Base, Settled
  <2>. QED  BY <2>1, <2>2
<1>. QED  BY <1>3, <1>4

(* A report nobody waits for.                                              *)
LEMMA ReportedKept ==
  ASSUME NEW r, Base(r), r.jobs > 0, ~Settled(r), ~Known(r) \/ Ended(r)
  PROVE  Kept(r, Reported(r))
<1>. DEFINE q == Reported(r)
<1>1. /\ q \in Row /\ q.slot = "none" /\ q.jobs = 0 /\ r.slot # "none" /\ ~q.hooks
      /\ q.status = r.status /\ q.auto = r.auto /\ q.ready = r.ready
      /\ q.timer = r.timer /\ q.resolving = r.resolving /\ q.resolved = r.resolved
      /\ q.tasks = r.tasks
  BY ReportedRow
<1>. HIDE DEF q
<1>2. Kept(r, q)
  BY <1>1 DEF Kept, Base, Settled, Known, Ended, Statuses, Running, Terminal
<1>. QED  BY <1>2 DEF q

(* A running row with neither a slot nor a window may be finished.         *)
LEMMA FinaliseKept ==
  ASSUME NEW r \in Row, r.status \in Running, r.slot = "none", r.jobs = 0, ~r.hooks,
         r.ready = "none", ~r.resolving
  PROVE  Kept(r, FinaliseSuccess(r))
<1>. DEFINE q == FinaliseSuccess(r)
            c == r.clear \/ (Clearing /\ "finished" \in {"finished", "error"})
<1>1. q = [r EXCEPT !.status = "finished", !.wait = FALSE, !.clear = c]
  BY WritableEdges DEF FinaliseSuccess, Terminate, Known, Ended, Row, Statuses, Running, Terminal
<1>2. c \in BOOLEAN
  OBVIOUS
<1>. HIDE DEF q, c
<1>3. q \in Row
  BY ZenonT(60), <1>1, <1>2 DEF Row, Statuses, Terminal
<1>4. /\ q.status = "finished" /\ q.slot = "none" /\ q.jobs = 0 /\ ~q.hooks /\ q.ready = "none" /\ ~q.resolving
  BY <1>1 DEF Row
<1>5. Kept(r, q)
  BY <1>3, <1>4 DEF Kept, Base, Running
<1>. QED  BY <1>5 DEF q

(* What the report of an unsettled job is about: a running row.            *)
LEMMA UnsettledRow ==
  ASSUME NEW r, Base(r), r.jobs > 0, ~Settled(r), Known(r), ~Ended(r), NEW q, q = Reported(r)
  PROVE  /\ q \in Row /\ q.status \in Running /\ q.slot = "none" /\ q.jobs = 0 /\ ~q.hooks
         /\ q.ready = "none" /\ ~q.resolving
<1>1. r.slot = "held" /\ r.status \in Running
  BY DEF Base, Row, Settled
<1>. QED  BY <1>1, ReportedRow DEF Base, Running

(* The report of a download whose hooks are still to run: the slot is      *)
(* free, and the open window owns the row.                                 *)
LEMMA OpenWindowKept ==
  ASSUME NEW q \in Row, q.status \in Running, q.slot = "none", q.jobs = 0, ~q.hooks,
         q.ready = "none", ~q.resolving, NEW delivered \in BOOLEAN
  PROVE  Kept(q, OpenWindow(q, delivered))
<1>. DEFINE w == Write(q, "postprocessing", q.auto)
            o == OpenWindow(q, delivered)
            n == IF q.own /\ w.stale < MaxStale THEN w.stale + 1 ELSE w.stale
<1>1. w = q \/ w = [q EXCEPT !.status = "postprocessing", !.auto = q.auto]
  BY DEF Write
<1>2. /\ w \in Row /\ w.slot = "none" /\ w.jobs = 0 /\ ~w.hooks /\ w.ready = "none" /\ ~w.resolving
  BY ZenonT(60), <1>1 DEF Row, Statuses, Running
<1>3. CASE w.status # "postprocessing"
  <2>1. o = FinaliseSuccess(q)
    BY <1>3 DEF OpenWindow
  <2>. QED  BY <2>1, FinaliseKept
<1>4. CASE w.status = "postprocessing"
  <2>1. o = [w EXCEPT !.hooks = TRUE, !.own = delivered, !.stale = n]
    BY <1>4 DEF OpenWindow
  <2>. HIDE DEF w
  <2>2. n \in 0..MaxStale
    BY <1>2, BoundAssumption DEF Row
  <2>. HIDE DEF n, o
  <2>3. o \in Row
    BY ZenonT(60), <1>2, <2>1, <2>2 DEF Row
  <2>4. /\ o.status = "postprocessing" /\ o.slot = "none" /\ o.jobs = 0 /\ o.hooks /\ o.ready = "none" /\ ~o.resolving
    BY <1>2, <1>4, <2>1 DEF Row
  <2>5. Kept(q, o)
    BY <2>3, <2>4 DEF Kept, Base, Running
  <2>. QED  BY <2>5 DEF o
<1>. QED  BY <1>3, <1>4

(* The report of a failed download that is tried again after a delay.      *)
LEMMA AutoRetryKept ==
  ASSUME NEW q \in Row, q.status \in Running, q.slot = "none", q.jobs = 0, ~q.hooks,
         q.ready = "none", ~q.resolving
  PROVE  Kept(q, ArmAutoRetry(q))
<1>. DEFINE o == ArmAutoRetry(q)
<1>1. Bump(q.attempt) \in 0..MaxAttempt
  BY BumpType DEF Row
<1>2. o = [q EXCEPT !.status = "queued", !.auto = TRUE, !.wait = FALSE, !.attempt = Bump(q.attempt), !.timer = TRUE]
  BY DEF ArmAutoRetry
<1>. HIDE DEF o
<1>3. o \in Row
  BY ZenonT(60), <1>1, <1>2 DEF Row, Statuses
<1>4. /\ o.status = "queued" /\ o.slot = "none" /\ o.jobs = 0 /\ ~o.hooks /\ o.timer /\ o.ready = "none" /\ ~o.resolving
  BY <1>2 DEF Row
<1>5. Kept(q, o)
  BY <1>3, <1>4 DEF Kept, Base, Running
<1>. QED  BY <1>5 DEF o

(* A hook answer, of this window or of an earlier one.                     *)
LEMMA AnsweredKept ==
  ASSUME NEW r, Base(r)
  PROVE  Kept(r, Answered(r)) /\ (r.hooks => Kept(r, FinaliseSuccess(CloseWindow(r))))
<1>1. CASE r.hooks
  <2>. DEFINE q == CloseWindow(r)
  <2>1. /\ q \in Row /\ q.status \in Running /\ q.slot = "none" /\ q.jobs = 0 /\ ~q.hooks
        /\ q.ready = "none" /\ ~q.resolving
    BY <1>1 DEF Base, Row, CloseWindow, Running
  <2>. HIDE DEF q
  <2>2. Kept(q, FinaliseSuccess(q))
    BY <2>1, FinaliseKept
  <2>. QED  BY <1>1, <2>1, <2>2 DEF q, Answered, Kept
<1>2. CASE ~r.hooks
  BY <1>2, SameKept DEF Answered
<1>. QED  BY <1>1, <1>2

(* A retry timer that is due.                                              *)
LEMMA ReleaseOneKept ==
  ASSUME NEW i \in Items, NEW r, Base(r)
  PROVE  Kept(r, ReleaseOne(i, r))
<1>. DEFINE q == [r EXCEPT !.timer = FALSE]
<1>1. /\ q \in Row /\ q.status = r.status /\ q.auto = r.auto /\ q.ready = r.ready /\ ~q.timer
      /\ q.hooks = r.hooks /\ q.slot = r.slot /\ q.jobs = r.jobs /\ q.resolving = r.resolving
      /\ q.resolved = r.resolved /\ q.tasks = r.tasks
  BY ZenonT(60) DEF Base, Row
<1>2. ReleaseOne(i, r) = IF r.status # "queued" \/ ~r.auto THEN q
                         ELSE IF r.resolved THEN Enqueue(i, q) ELSE RestartResolution(q)
  BY DEF ReleaseOne
<1>. HIDE DEF q
<1>3. CASE r.status # "queued" \/ ~r.auto
  BY <1>1, <1>2, <1>3 DEF Kept, Base, Known
<1>4. CASE r.status = "queued" /\ r.auto
  <2>1. Listable(q)
    BY <1>1, <1>4 DEF Listable, Base, Known, Statuses, Running
  <2>2. ReleaseOne(i, r) = IF q.resolved THEN Enqueue(i, q) ELSE RestartResolution(q)
    BY <1>1, <1>2, <1>4
  <2>. QED  BY <1>1, <2>1, <2>2, ListKept DEF Kept
<1>. QED  BY <1>3, <1>4

(* The row before it is minted is a row.                                   *)
LEMMA NewRow == New \in Row
<1>1. ASSUME NEW z, z \in 0..MaxAttempt, z \in 0..MaxHops, z \in 0..MaxStale, z \in Nat
      PROVE  [status |-> "new", auto |-> FALSE, resolved |-> FALSE, attempt |-> z,
              clear |-> FALSE, wait |-> FALSE, ready |-> "none", timer |-> FALSE,
              resolving |-> FALSE, slot |-> "none", hooks |-> FALSE, jobs |-> z, tasks |-> {},
              hops |-> z, frames |-> {}, own |-> FALSE, stale |-> z, cut |-> FALSE] \in Row
  BY <1>1 DEF Row
<1>2. 0 \in 0..MaxAttempt /\ 0 \in 0..MaxHops /\ 0 \in 0..MaxStale /\ 0 \in Nat
  BY BoundAssumption
<1>. QED  BY <1>1, <1>2 DEF New

(* Going down keeps the columns only, coming back lists what was waiting.  *)
LEMMA PersistedLeft ==
  ASSUME NEW r \in Row
  PROVE  Left(Persisted(r))
<1>. DEFINE q == Persisted(r)
<1>2. New \in Row
  BY NewRow
<1>3. /\ New.slot = "none" /\ New.jobs = 0 /\ New.ready = "none" /\ ~New.hooks /\ ~New.timer
      /\ ~New.resolving /\ New.frames = {}
  BY DEF New
<1>5. q = [New EXCEPT !.status = r.status, !.auto = r.auto, !.resolved = r.resolved,
                      !.attempt = r.attempt, !.clear = r.clear, !.wait = r.wait]
  BY DEF Persisted
<1>. HIDE DEF q
<1>6. q \in Row
  <2>. DEFINE w == [New EXCEPT !.status = r.status, !.auto = r.auto, !.resolved = r.resolved]
  <2>1. w \in Row
    BY <1>2 DEF Row
  <2>2. [w EXCEPT !.attempt = r.attempt, !.clear = r.clear, !.wait = r.wait] \in Row
    BY ZenonT(60), <2>1 DEF Row
  <2>. QED  BY <1>5, <2>2
<1>7. /\ q.slot = "none" /\ q.jobs = 0 /\ q.ready = "none" /\ ~q.hooks /\ ~q.timer
      /\ ~q.resolving /\ q.frames = {}
  BY <1>2, <1>3, <1>5 DEF Row
<1>4. Left(q)
  BY <1>6, <1>7 DEF Left
<1>. QED  BY <1>4 DEF q

(* What a shutdown writes of a row is a row.                               *)
LEMMA HandedOverRow ==
  ASSUME NEW r \in Row, NEW resume \in BOOLEAN
  PROVE  HandedOver(r, resume) \in Row
<1>1. CASE r.slot # "none"
  <2>1. HandedOver(r, resume) = [r EXCEPT !.status = "queued", !.auto = resume]
    BY <1>1 DEF HandedOver
  <2>. QED  BY ZenonT(60), <2>1 DEF Row, Statuses
<1>2. CASE r.slot = "none" /\ r.resolving
  <2>1. HandedOver(r, resume) = [r EXCEPT !.status = "queued", !.auto = r.auto /\ resume]
    BY <1>2 DEF HandedOver
  <2>2. (r.auto /\ resume) \in BOOLEAN
    OBVIOUS
  <2>. QED  BY ZenonT(60), <2>1, <2>2 DEF Row, Statuses
<1>3. CASE r.slot = "none" /\ ~r.resolving
  BY <1>3 DEF HandedOver
<1>. QED  BY <1>1, <1>2, <1>3

(* A row that was left, in any of the states a boot finds.                 *)
Recoverable(r) == Left(r) /\ r.status \notin Running \cup {"resolving"}

(* What recovery makes of a persisted row.                                 *)
LEMMA RecoveredRow ==
  ASSUME NEW r, Left(r), NEW resume \in BOOLEAN
  PROVE  Recoverable(Recovered(r, resume))
<1>. DEFINE q == Recovered(r, resume)
<1>1. CASE r.status = "resolving"
  <2>. DEFINE a == r.auto /\ resume
  <2>1. q = [r EXCEPT !.status = "queued", !.auto = a]
    BY <1>1 DEF Recovered, Running, Ended, Terminal
  <2>2. a \in BOOLEAN
    OBVIOUS
  <2>. HIDE DEF a
  <2>. QED  BY ZenonT(60), <2>1, <2>2 DEF Recoverable, Left, Row, Statuses, Running
<1>2. CASE r.status \in Running
  <2>1. q = [r EXCEPT !.status = "queued", !.auto = resume, !.attempt = Bump(r.attempt)]
    BY <1>2 DEF Recovered, Running, Ended, Terminal
  <2>2. Bump(r.attempt) \in 0..MaxAttempt
    BY BumpType DEF Left, Row
  <2>. HIDE DEF q
  <2>3. q \in Row
    BY ZenonT(60), <2>1, <2>2 DEF Left, Row, Statuses
  <2>4. /\ q.status = "queued" /\ q.slot = "none" /\ q.jobs = 0 /\ q.ready = "none" /\ ~q.hooks
        /\ ~q.timer /\ ~q.resolving /\ q.frames = {}
    BY <2>1 DEF Left, Row
  <2>5. Recoverable(q)
    BY <2>3, <2>4 DEF Recoverable, Left, Running
  <2>. QED  BY <2>5 DEF q
<1>3. CASE Ended(r)
  <2>. DEFINE c == r.clear \/ Clearing
  <2>1. q = [r EXCEPT !.clear = c]
    BY <1>3 DEF Recovered, Running, Ended, Terminal
  <2>2. c \in BOOLEAN
    OBVIOUS
  <2>. HIDE DEF c
  <2>. QED  BY <1>3, <2>1, <2>2 DEF Recoverable, Left, Row, Ended, Running, Terminal
<1>4. CASE r.status \notin Running \cup {"resolving"} /\ ~Ended(r)
  <2>1. q = r
    BY <1>4 DEF Recovered
  <2>. QED  BY <1>4, <2>1 DEF Recoverable
<1>. QED  BY <1>1, <1>2, <1>3, <1>4

(* Recovery lists, resolves again or times every row that is to start.     *)
LEMMA RequeuedBase ==
  ASSUME NEW i \in Items, NEW r, Recoverable(r)
  PROVE  Base(Requeued(i, r)) /\ Requeued(i, r).slot = "none"
<1>1. CASE r.status # "queued" \/ ~r.auto
  <2>1. Requeued(i, r) = r
    BY <1>1 DEF Requeued
  <2>. QED  BY <1>1, <2>1 DEF Recoverable, Left, Base, Known
<1>2. CASE r.status = "queued" /\ r.auto /\ r.wait
  <2>. DEFINE q == [r EXCEPT !.timer = TRUE]
  <2>1. Requeued(i, r) = q
    BY <1>2 DEF Requeued
  <2>2. /\ q \in Row /\ q.status = "queued" /\ q.timer /\ q.slot = "none" /\ q.jobs = 0 /\ ~q.hooks
        /\ q.ready = "none" /\ ~q.resolving
    BY ZenonT(60), <1>2 DEF Recoverable, Left, Row
  <2>. HIDE DEF q
  <2>. QED  BY <2>1, <2>2 DEF Base, Known, Running
<1>3. CASE r.status = "queued" /\ r.auto /\ ~r.wait
  <2>1. Requeued(i, r) = IF r.resolved THEN Enqueue(i, r) ELSE RestartResolution(r)
    BY <1>3 DEF Requeued
  <2>2. Listable(r) /\ r.slot = "none"
    BY <1>3 DEF Recoverable, Left, Listable
  <2>3. Kept(r, Requeued(i, r))
    BY <2>1, <2>2, ListKept
  <2>4. Requeued(i, r).slot = "none"
    BY <2>1, <2>2 DEF Enqueue, RestartResolution, Spawn, Listable, Row
  <2>. QED  BY <2>3, <2>4 DEF Kept
<1>. QED  BY <1>1, <1>2, <1>3

----------------------------------------------------------------------------
(* What schedule() makes of a row.                                         *)

(* schedule() on one row: what it starts takes one slot and has one job,   *)
(* and what it drops or fails had no claim.                                *)
LEMMA AfterKept ==
  ASSUME NEW f, NEW S \in SUBSET Items, NEW i \in Items, Base(f[i]), S \subseteq Candidates(f)
  PROVE  /\ Base(After(f, S, i))
         /\ i \notin S => (After(f, S, i).slot = "held" => f[i].slot = "held")
<1>. DEFINE r == f[i]
            q == After(f, S, i)
<1>1. CASE i \in S
  <2>1. r.status = "queued" /\ r.auto /\ r.slot = "none" /\ r.resolved
    BY <1>1 DEF Candidates, Wanted
  <2>2. q = [r EXCEPT !.status = "preparing", !.auto = r.auto, !.ready = "none", !.slot = "held",
                      !.jobs = r.jobs + 1]
    <3>1. Write(r, "preparing", r.auto) = [r EXCEPT !.status = "preparing", !.auto = r.auto]
      BY <2>1, WritableEdges DEF Write, Known, Statuses, Base, Row
    <3>. QED  BY <1>1, <3>1 DEF After, StartJob, Base, Row
  <2>3. r.jobs = 0 /\ ~r.hooks /\ ~r.resolving /\ r \in Row
    BY <2>1 DEF Base
  <2>. HIDE DEF r, q
  <2>6. q \in Row
    <3>. DEFINE w == [r EXCEPT !.jobs = r.jobs + 1]
    <3>1. w \in Row
      BY <2>3 DEF Row
    <3>2. q = [w EXCEPT !.status = "preparing", !.auto = r.auto, !.ready = "none", !.slot = "held"]
      BY <2>2, <2>3 DEF Row
    <3>3. r.auto \in BOOLEAN
      BY <2>3 DEF Row
    <3>. HIDE DEF w
    <3>. QED  BY <3>1, <3>2, <3>3 DEF Row, Statuses, Running
  <2>4. /\ q.status = "preparing" /\ q.slot = "held" /\ q.jobs = 1 /\ ~q.hooks
        /\ q.ready = "none" /\ ~q.resolving /\ q.resolved
    BY <2>1, <2>2, <2>3 DEF Row
  <2>5. Base(q)
    BY <2>4, <2>6 DEF Base, Running
  <2>. QED  BY <1>1, <2>5 DEF q
<1>2. CASE i \notin S /\ (r.ready = "none" \/ Waits(f, S, i) \/ ~Reached(f, S, i))
  BY <1>2 DEF After
<1>3. CASE /\ i \notin S /\ r.ready # "none" /\ ~Waits(f, S, i) /\ Reached(f, S, i)
           /\ Wanted(r) /\ r.resolved
  <2>1. q = [Terminate(r, "error") EXCEPT !.ready = "none"]
    BY SMTT(30), <1>3 DEF After
  <2>. DEFINE c == r.clear \/ (Clearing /\ "error" \in {"finished", "error"})
  <2>2. Terminate(r, "error") = [r EXCEPT !.status = "error", !.wait = FALSE, !.clear = c]
    BY <1>3, TerminateLive DEF Wanted, Base, Statuses, Terminal
  <2>3. c \in BOOLEAN
    OBVIOUS
  <2>4. r \in Row /\ r.status = "queued" /\ ~r.hooks /\ ~r.resolving /\ r.slot # "held"
    BY <1>3 DEF Base, Wanted, Running
  <2>. HIDE DEF c, q
  <2>5. q = [r EXCEPT !.status = "error", !.wait = FALSE, !.clear = c, !.ready = "none"]
    BY <2>1, <2>2
  <2>6. q \in Row
    BY ZenonT(60), <2>3, <2>4, <2>5 DEF Row, Statuses, Terminal
  <2>7. /\ q.status = "error" /\ ~q.hooks /\ ~q.resolving /\ q.slot = r.slot /\ q.jobs = r.jobs
        /\ q.ready = "none" /\ q.resolved = r.resolved
    BY <2>4, <2>5 DEF Row
  <2>8. Base(q) /\ q.slot # "held"
    BY <1>3, <2>4, <2>6, <2>7 DEF Base, Known, Running
  <2>. QED  BY <2>8 DEF q
<1>4. CASE /\ i \notin S /\ r.ready # "none" /\ ~Waits(f, S, i) /\ Reached(f, S, i)
           /\ ~(Wanted(r) /\ r.resolved)
  <2>1. q = [r EXCEPT !.ready = "none"]
    BY <1>4 DEF After
  <2>2. r \in Row /\ r.status = "queued" /\ ~r.hooks /\ ~r.resolving /\ r.slot # "held" /\ (~r.auto \/ r.timer)
    BY <1>4 DEF Base, Wanted, Running
  <2>. HIDE DEF q
  <2>3. /\ q \in Row /\ q.status = "queued" /\ ~q.hooks /\ ~q.resolving /\ q.slot = r.slot /\ q.jobs = r.jobs
        /\ q.ready = "none" /\ q.resolved = r.resolved /\ q.auto = r.auto /\ q.timer = r.timer
    BY <2>1, <2>2 DEF Row
  <2>4. Base(q) /\ q.slot # "held"
    BY <1>4, <2>2, <2>3 DEF Base, Known, Running
  <2>. QED  BY <2>4 DEF q
<1>. QED  BY <1>1, <1>2, <1>3, <1>4

(* Without late frames, a handler leaves no frame of an earlier run for a  *)
(* row that waits.                                                         *)
LEMMA DeliveredIdle ==
  ASSUME NEW r, Base(r), "late_frame" \notin Faults
  PROVE  Idle(Delivered(r)) /\ Delivered(r).slot = r.slot
<1>. DEFINE q == Delivered(r)
<1>1. CASE r.status = "queued" /\ r.slot = "none"
  <2>1. q = [r EXCEPT !.frames = {}]
    BY <1>1 DEF Delivered
  <2>. HIDE DEF q
  <2>2. /\ q \in Row /\ q.status = r.status /\ q.auto = r.auto /\ q.ready = r.ready /\ q.timer = r.timer
        /\ q.hooks = r.hooks /\ q.slot = r.slot /\ q.jobs = r.jobs /\ q.resolving = r.resolving
        /\ q.resolved = r.resolved /\ q.tasks = r.tasks /\ q.frames = {}
    BY <2>1 DEF Base, Row
  <2>3. Idle(q)
    BY <2>2 DEF Idle, Base, Known, Settled
  <2>. QED  BY <2>2, <2>3 DEF q
<1>2. CASE ~(r.status = "queued" /\ r.slot = "none")
  BY <1>2 DEF Delivered, Idle
<1>. QED  BY <1>1, <1>2

----------------------------------------------------------------------------
(* What a handler makes of all rows.                                       *)

Good(f) == \A i \in Items : Kept(row[i], f[i])
IdleRows == row \in [Items -> Row] /\ \A i \in Items : Idle(row[i])

(* A handler that schedules nobody keeps every row's invariant.            *)
LEMMA PutInv ==
  ASSUME "late_frame" \notin Faults, NEW f, Good(f), Put(f)
  PROVE  IdleRows'
<1>1. \A i \in Items : row'[i] = Delivered(f[i])
  BY DEF Put
<1>2. \A i \in Items : Idle(row'[i])
  BY <1>1, DeliveredIdle DEF Good, Kept
<1>3. row' \in [Items -> Row]
  <2>1. \A i \in Items : Delivered(f[i]) \in Row
    BY <1>1, <1>2 DEF Idle, Base
  <2>. QED  BY <2>1 DEF Put
<1>. QED  BY <1>2, <1>3 DEF IdleRows

(* So does one that schedules: whom it starts is prepared with a slot.     *)
LEMMA ScheduleInv ==
  ASSUME "late_frame" \notin Faults, NEW f, Good(f), Schedule(f)
  PROVE  IdleRows'
<1>1. PICK S \in SUBSET Items : Admitted(f, S) /\ Put([i \in Items |-> After(f, S, i)])
  BY DEF Schedule
<1>2. S \subseteq Candidates(f)
  BY <1>1 DEF Admitted
<1>3. \A i \in Items : row'[i] = Delivered(After(f, S, i))
  BY <1>1 DEF Put
<1>4. \A i \in Items : Base(After(f, S, i))
  BY <1>2, AfterKept DEF Good, Kept
<1>5. \A i \in Items : Idle(row'[i])
  BY <1>3, <1>4, DeliveredIdle
<1>6. row' \in [Items -> Row]
  <2>1. \A i \in Items : Delivered(After(f, S, i)) \in Row
    BY <1>3, <1>5 DEF Idle, Base
  <2>2. row' = [i \in Items |-> Delivered(After(f, S, i))]
    BY <1>1 DEF Put
  <2>. QED  BY <2>1, <2>2
<1>. QED  BY <1>5, <1>6 DEF IdleRows

(* A handler that changes one row, and may schedule then.                  *)
LEMMA OneInv ==
  ASSUME "late_frame" \notin Faults, IdleRows, NEW i \in Items, NEW q, Kept(row[i], q),
         PutOne(i, q) \/ ScheduleOne(i, q)
  PROVE  IdleRows'
<1>1. Good([row EXCEPT ![i] = q])
  BY SameKept DEF IdleRows, Good, Idle
<1>. QED  BY <1>1, PutInv, ScheduleInv DEF IdleRows, PutOne, ScheduleOne

(* Removing rows, by clear or by the sweep.                                *)
LEMMA RemoveInv ==
  ASSUME "late_frame" \notin Faults, IdleRows, NEW S, \A i \in S \cap Items : Ended(row[i]), Remove(S)
  PROVE  IdleRows'
<1>1. Good([i \in Items |-> IF i \in S THEN Forget(row[i]) ELSE row[i]])
  BY ForgetKept, SameKept DEF IdleRows, Good, Idle, Ended
<1>. QED  BY <1>1, PutInv DEF Remove, IdleRows

(* Each user command.                                                      *)
LEMMA CommandInv ==
  ASSUME "late_frame" \notin Faults, IdleRows, Command
  PROVE  Live /\ IdleRows'
<1>1. PICK S \in SUBSET Items : Start(S) \/ Pause(S) \/ Cancel(S) \/ Retry(S) \/ Delete(S)
  BY DEF Command
<1>2. CASE Start(S)
  <2>1. Good(Change(S, StartOne))
    BY StartKept, SameKept DEF IdleRows, Good, Change, Idle
  <2>. QED  BY <1>2, <2>1, ScheduleInv DEF Start, IdleRows
<1>3. CASE Pause(S)
  <2>1. Good(Change(S, PauseOne))
    BY PauseKept, SameKept DEF IdleRows, Good, Change, Idle
  <2>. QED  BY <1>3, <2>1, ScheduleInv DEF Pause, IdleRows
<1>4. CASE Cancel(S)
  <2>1. Good(Change(S, CancelRow))
    BY CancelRowKept, SameKept DEF IdleRows, Good, Change, Idle
  <2>. QED  BY <1>4, <2>1, ScheduleInv DEF Cancel, IdleRows
<1>5. CASE Retry(S)
  <2>1. Good(Change(S, RetryRow))
    BY RetryRowKept, SameKept DEF IdleRows, Good, Change, Idle
  <2>. QED  BY <1>5, <2>1, ScheduleInv DEF Retry, IdleRows
<1>6. CASE Delete(S)
  <2>1. Good(Change(S, DeleteRow))
    BY DeleteKept, SameKept DEF IdleRows, Good, Change, Idle
  <2>. QED  BY <1>6, <2>1, ScheduleInv DEF Delete, IdleRows
<1>. QED  BY <1>1, <1>2, <1>3, <1>4, <1>5, <1>6

(* A row that has been added is resolving, and its task will answer.       *)
LEMMA AddedBase ==
  ASSUME NEW a \in BOOLEAN, NEW q, q = Spawn([New EXCEPT !.status = "resolving", !.auto = a], 0)
  PROVE  Base(q) /\ q.status = "resolving" /\ q.slot = "none" /\ q.ready = "none"
<1>0. /\ New \in Row /\ New.slot = "none" /\ New.jobs = 0 /\ New.ready = "none" /\ ~New.hooks
      /\ New.tasks = {}
  BY NewRow DEF New
<1>. DEFINE D == Disowned({}) \cup {"own"}
<1>2. D \in SUBSET Task
  BY DisownedType
<1>3. q = [New EXCEPT !.status = "resolving", !.auto = a, !.resolving = TRUE, !.hops = 0, !.tasks = D]
  BY <1>0 DEF Spawn, Row
<1>. DEFINE w == [New EXCEPT !.status = "resolving", !.auto = a, !.resolving = TRUE]
<1>4. w \in Row
  BY ZenonT(60), <1>0 DEF Row, Statuses
<1>5. 0 \in 0..MaxHops
  BY BoundAssumption
<1>6. "own" \in D
  OBVIOUS
<1>. HIDE DEF D
<1>7. q \in Row
  <2>1. [w EXCEPT !.hops = 0, !.tasks = D] \in Row
    BY ZenonT(60), <1>2, <1>4, <1>5 DEF Row
  <2>. QED  BY <1>3, <2>1
<1>8. q.status = "resolving" /\ q.slot = "none" /\ q.jobs = 0 /\ ~q.hooks /\ q.ready = "none" /\ q.resolving /\ q.tasks = D
  BY <1>0, <1>3 DEF Row
<1>. QED  BY <1>6, <1>7, <1>8 DEF Base, Running

(* A playlist's child is listed, or parked.                                *)
LEMMA ChildBase ==
  ASSUME NEW i \in Items, NEW a \in BOOLEAN,
         NEW r, r = [New EXCEPT !.status = "queued", !.auto = a, !.resolved = TRUE],
         NEW q, q = IF a THEN Enqueue(i, r) ELSE r
  PROVE  Base(q) /\ q.status = "queued" /\ q.slot = "none"
<1>0. /\ New \in Row /\ New.slot = "none" /\ New.jobs = 0 /\ New.ready = "none" /\ ~New.hooks /\ ~New.resolving
  BY NewRow DEF New
<1>1. Listable(r) /\ r.resolved /\ r.slot = "none" /\ r.ready = "none" /\ r.auto = a
  BY ZenonT(60), <1>0 DEF Row, Statuses, Listable
<1>2. CASE a
  <2>1. Kept(r, q)
    BY <1>1, <1>2, EnqueueKept
  <2>2. q.status = "queued" /\ q.slot = "none"
    BY <1>1, <1>2 DEF Enqueue, Listable, Row
  <2>. QED  BY <2>1, <2>2 DEF Kept
<1>3. CASE ~a
  BY <1>1, <1>3 DEF Base, Listable, Known, Running
<1>. QED  BY <1>2, <1>3

(* A new row, from an add or from the expansion of a playlist.             *)
LEMMA AddInv ==
  ASSUME "late_frame" \notin Faults, IdleRows, NEW i \in Items, Add(i) \/ AddChild(i)
  PROVE  Live /\ IdleRows'
<1>1. CASE Add(i)
  <2>1. PICK a \in BOOLEAN : PutOne(i, Spawn([New EXCEPT !.status = "resolving", !.auto = a], 0))
    BY <1>1 DEF Add
  <2>2. Kept(row[i], Spawn([New EXCEPT !.status = "resolving", !.auto = a], 0))
    BY AddedBase DEF Kept
  <2>. QED  BY <1>1, <2>1, <2>2, OneInv DEF Add
<1>2. CASE AddChild(i)
  <2>1. PICK a \in BOOLEAN :
          LET r == [New EXCEPT !.status = "queued", !.auto = a, !.resolved = TRUE]
          IN  ScheduleOne(i, IF a THEN Enqueue(i, r) ELSE r)
    BY <1>2 DEF AddChild
  <2>. DEFINE r == [New EXCEPT !.status = "queued", !.auto = a, !.resolved = TRUE]
              q == IF a THEN Enqueue(i, r) ELSE r
  <2>2. Kept(row[i], q)
    BY ChildBase DEF Kept
  <2>3. ScheduleOne(i, q)
    BY <2>1
  <2>. HIDE DEF q
  <2>. QED  BY <1>2, <2>2, <2>3, OneInv DEF AddChild
<1>. QED  BY <1>1, <1>2

(* Answers of resolutions.                                                 *)
LEMMA ResolvedInv ==
  ASSUME "late_frame" \notin Faults, IdleRows, NEW i \in Items, Resolved(i)
  PROVE  Live /\ IdleRows'
<1>1. PICK t \in row[i].tasks, o \in Outcomes :
        LET r == [row[i] EXCEPT !.tasks = @ \ {t}, !.resolving = FALSE]
        IN  IF r.status # "resolving" THEN PutOne(i, r)
            ELSE IF t = "doomed" THEN PutOne(i, CancelOne(r))
            ELSE ScheduleOne(i, OnOutcome(i, r, o))
  BY DEF Resolved
<1>. DEFINE r == [row[i] EXCEPT !.tasks = @ \ {t}, !.resolving = FALSE]
<1>2. Base(row[i])
  BY DEF IdleRows, Idle
<1>3. /\ r \in Row /\ r.status = row[i].status /\ r.auto = row[i].auto /\ r.ready = row[i].ready
      /\ r.timer = row[i].timer /\ r.hooks = row[i].hooks /\ r.slot = row[i].slot
      /\ r.jobs = row[i].jobs /\ ~r.resolving /\ r.resolved = row[i].resolved
  BY <1>2 DEF Base, Row
<1>4. /\ r.status # "resolving" => PutOne(i, r)
      /\ r.status = "resolving" => PutOne(i, CancelOne(r)) \/ ScheduleOne(i, OnOutcome(i, r, o))
  BY <1>1
<1>. HIDE DEF r
<1>5. CASE r.status # "resolving"
  <2>1. Kept(row[i], r)
    BY <1>2, <1>3, <1>5 DEF Kept, Base, Known, Settled
  <2>. QED  BY <1>4, <1>5, <2>1, OneInv DEF Resolved
<1>6. CASE r.status = "resolving"
  <2>1. Answering(r)
    BY <1>2, <1>3, <1>6 DEF Answering, Base, Known, Statuses, Running
  <2>2. Kept(row[i], OnOutcome(i, r, o))
    BY <1>3, <2>1, OutcomeKept DEF Kept
  <2>3. Kept(row[i], CancelOne(r))
    <3>1. r.status \in Statuses \ Terminal
      BY <1>6 DEF Statuses, Terminal
    <3>. QED  BY <1>3, <2>1, <3>1, CancelKept DEF Kept, Answering
  <2>. QED  BY <1>4, <1>6, <2>2, <2>3, OneInv DEF Resolved
<1>. QED  BY <1>5, <1>6

(* A cancel of every resolution condemns the answers that are out.         *)
LEMMA CancelResolveInv ==
  ASSUME "late_frame" \notin Faults, IdleRows, CancelResolve
  PROVE  Live /\ IdleRows'
<1>. DEFINE Op(i) == LET r == [row[i] EXCEPT !.tasks = Condemned(@)]
                     IN  IF r.resolving THEN CancelOne(r) ELSE r
            f == [i \in Items |-> Op(i)]
<1>1. Schedule(f)
  BY DEF CancelResolve
<1>2. ASSUME NEW i \in Items
      PROVE  Kept(row[i], Op(i))
  <2>. DEFINE r == [row[i] EXCEPT !.tasks = Condemned(@)]
  <2>1. Base(row[i])
    BY DEF IdleRows, Idle
  <2>2. Condemned(row[i].tasks) \in SUBSET Task
    BY DEF Condemned, Task
  <2>3. /\ r \in Row /\ r.status = row[i].status /\ r.auto = row[i].auto /\ r.ready = row[i].ready
        /\ r.timer = row[i].timer /\ r.hooks = row[i].hooks /\ r.slot = row[i].slot
        /\ r.jobs = row[i].jobs /\ r.resolving = row[i].resolving /\ r.resolved = row[i].resolved
    BY <2>1, <2>2 DEF Base, Row
  <2>4. Op(i) = IF r.resolving THEN CancelOne(r) ELSE r
    OBVIOUS
  <2>. HIDE DEF r, Op
  <2>5. CASE r.resolving
    <3>1. r.status \in Statuses \ Terminal
      BY <2>1, <2>3, <2>5 DEF Base, Statuses, Terminal
    <3>2. r.jobs = (IF r.slot = "none" THEN 0 ELSE 1) /\ (r.slot # "none" => r.resolved)
      BY <2>1, <2>3, <3>1 DEF Base, Known
    <3>. QED  BY <2>3, <2>4, <2>5, <3>1, <3>2, CancelKept DEF Kept
  <2>6. CASE ~r.resolving
    <3>1. r.status # "resolving"
      BY <2>1, <2>3, <2>6 DEF Base
    <3>2. Kept(row[i], r)
      BY <2>1, <2>3, <2>6, <3>1 DEF Kept, Base, Known, Settled
    <3>. QED  BY <2>4, <2>6, <3>2
  <2>. QED  BY <2>5, <2>6
<1>. HIDE DEF Op
<1>3. Good(f)
  BY <1>2 DEF Good
<1>. QED  BY <1>1, <1>3, ScheduleInv DEF CancelResolve, IdleRows

(* Reports of jobs.                                                        *)
LEMMA ReportInv ==
  ASSUME "late_frame" \notin Faults, IdleRows, NEW i \in Items,
         JobOver(i) \/ HandleFinished(i) \/ HandleFailed(i)
  PROVE  Live /\ IdleRows'
<1>. DEFINE r == row[i]
            q == Reported(row[i])
<1>1. Base(r)
  BY DEF IdleRows, Idle
<1>2. CASE JobOver(i)
  <2>1. CASE Settled(r) /\ ScheduleOne(i, Release(i, r))
    <3>1. Kept(r, Release(i, r))
      BY <1>1, <1>2, <2>1, ReleaseKept DEF JobOver
    <3>. QED  BY <1>2, <2>1, <3>1, OneInv DEF JobOver
  <2>2. CASE ~Settled(r) /\ (~Known(r) \/ Ended(r)) /\ PutOne(i, q)
    <3>1. Kept(r, q)
      BY <1>1, <1>2, <2>2, ReportedKept DEF JobOver
    <3>. QED  BY <1>2, <2>2, <3>1, OneInv DEF JobOver
  <2>. QED  BY <1>2, <2>1, <2>2 DEF JobOver
<1>3. CASE HandleFinished(i) \/ HandleFailed(i)
  <2>1. Unsettled(i) /\ Live
    BY <1>3 DEF HandleFinished, HandleFailed, Unsettled
  <2>2. /\ q \in Row /\ q.status \in Running /\ q.slot = "none" /\ q.jobs = 0 /\ ~q.hooks
        /\ q.ready = "none" /\ ~q.resolving
    BY <1>1, <2>1, UnsettledRow DEF Unsettled
  <2>. HIDE DEF q
  <2>3. ASSUME NEW o, Kept(q, o)
        PROVE  Kept(r, o)
    BY <2>2, <2>3 DEF Kept
  <2>4. CASE HandleFinished(i)
    <3>1. \/ \E delivered \in BOOLEAN : ScheduleOne(i, OpenWindow(q, delivered))
          \/ ScheduleOne(i, FinaliseSuccess(q))
      BY <2>4 DEF HandleFinished, q
    <3>2. CASE ScheduleOne(i, FinaliseSuccess(q))
      BY <2>1, <2>2, <2>3, <3>2, FinaliseKept, OneInv
    <3>3. CASE \E delivered \in BOOLEAN : ScheduleOne(i, OpenWindow(q, delivered))
      <4>1. PICK delivered \in BOOLEAN : ScheduleOne(i, OpenWindow(q, delivered))
        BY <3>3
      <4>2. Kept(r, OpenWindow(q, delivered))
        BY <2>2, <2>3, OpenWindowKept
      <4>. QED  BY <2>1, <4>1, <4>2, OneInv
    <3>. QED  BY <3>1, <3>2, <3>3
  <2>5. CASE HandleFailed(i)
    <3>1. \/ \E s \in {"canceled", "error"} : ScheduleOne(i, Terminate(q, s))
          \/ ScheduleOne(i, ArmAutoRetry(q))
          \/ ScheduleOne(i, WaitForVideo(q))
      BY <2>5 DEF HandleFailed, q
    <3>0. q.status \in Statuses \ Terminal /\ q.slot # "held" /\ q.jobs = IF q.slot = "none" THEN 0 ELSE 1
      BY <2>2 DEF Statuses, Running, Terminal
    <3>2. ASSUME NEW s \in {"canceled", "error"}, ScheduleOne(i, Terminate(q, s))
          PROVE  IdleRows'
      <4>1. Kept(q, Terminate(q, s))
        BY <2>2, <3>0, EndKept
      <4>. QED  BY <2>3, <3>2, <4>1, OneInv
    <3>3. CASE ScheduleOne(i, ArmAutoRetry(q))
      BY <2>1, <2>2, <2>3, <3>3, AutoRetryKept, OneInv
    <3>4. CASE ScheduleOne(i, WaitForVideo(q))
      <4>1. Kept(q, WaitForVideo(q))
        BY <2>2, <3>0, WaitKept
      <4>. QED  BY <2>1, <2>3, <3>4, <4>1, OneInv
    <3>. QED  BY <2>1, <3>1, <3>2, <3>3, <3>4
  <2>. QED  BY <1>3, <2>4, <2>5
<1>. QED  BY <1>2, <1>3

(* Frames, hook answers, timers: what only changes one row a little.       *)
LEMMA RowInv ==
  ASSUME "late_frame" \notin Faults, IdleRows, NEW i \in Items,
         \/ ResolveAborted(i) \/ EmitStage(i) \/ HandleStage(i) \/ WatchdogFires(i) \/ HandleCut(i)
         \/ HooksFinished(i) \/ ExpireHooks(i) \/ ReleaseRetry(i) \/ VideoDue(i)
  PROVE  Live /\ IdleRows'
<1>. DEFINE r == row[i]
<1>1. Idle(r) /\ Base(r)
  BY DEF IdleRows, Idle
<1>2. ASSUME NEW q, q \in Row, q.status = r.status, q.auto = r.auto, q.ready = r.ready, q.timer = r.timer,
             q.hooks = r.hooks, q.slot = r.slot, q.jobs = r.jobs, q.resolving = r.resolving,
             q.resolved = r.resolved, "own" \in r.tasks => "own" \in q.tasks
      PROVE  Kept(r, q)
  BY <1>1, <1>2 DEF Kept, Base, Known, Settled
<1>3. CASE ResolveAborted(i)
  <2>1. PICK t \in r.tasks \ {"own"} : PutOne(i, [r EXCEPT !.tasks = @ \ {t}])
    BY <1>3 DEF ResolveAborted
  <2>2. Kept(r, [r EXCEPT !.tasks = @ \ {t}])
    BY <1>1, <1>2 DEF Base, Row
  <2>. QED  BY <1>3, <2>1, <2>2, OneInv DEF ResolveAborted
<1>4. CASE EmitStage(i)
  <2>1. PICK s \in Running : PutOne(i, [r EXCEPT !.frames = @ \cup {s}])
    BY <1>4 DEF EmitStage
  <2>2. Kept(r, [r EXCEPT !.frames = @ \cup {s}])
    BY <1>1, <1>2 DEF Base, Row
  <2>. QED  BY <1>4, <2>1, <2>2, OneInv DEF EmitStage
<1>5. CASE HandleStage(i)
  <2>1. PICK s \in r.frames :
          LET q == [r EXCEPT !.frames = @ \ {s}]
          IN  PutOne(i, IF StageRefused(q) THEN q ELSE Write(q, Clamped(s, q.status), q.auto))
    BY <1>5 DEF HandleStage
  <2>. DEFINE q == [r EXCEPT !.frames = @ \ {s}]
              o == IF StageRefused(q) THEN q ELSE Write(q, Clamped(s, q.status), q.auto)
  <2>2. Kept(r, o)
    BY <1>1, StageKept
  <2>3. PutOne(i, o)
    BY <2>1
  <2>. HIDE DEF o
  <2>. QED  BY <1>5, <2>2, <2>3, OneInv DEF HandleStage
<1>6. CASE WatchdogFires(i)
  <2>. DEFINE q == [r EXCEPT !.cut = TRUE]
  <2>1. /\ q \in Row
        /\ q.status = r.status /\ q.auto = r.auto /\ q.ready = r.ready /\ q.timer = r.timer
        /\ q.hooks = r.hooks /\ q.slot = r.slot /\ q.jobs = r.jobs /\ q.resolving = r.resolving
        /\ q.resolved = r.resolved /\ q.tasks = r.tasks
    BY <1>1 DEF Base, Row
  <2>2. PutOne(i, q)
    BY <1>6 DEF WatchdogFires
  <2>. HIDE DEF q
  <2>. QED  BY <1>2, <1>6, <2>1, <2>2, OneInv DEF WatchdogFires
<1>7. CASE HandleCut(i)
  <2>. DEFINE q == [r EXCEPT !.cut = FALSE]
              o == IF Known(q) THEN CancelRow(i, q) ELSE q
  <2>4. /\ q \in Row
        /\ q.status = r.status /\ q.auto = r.auto /\ q.ready = r.ready /\ q.timer = r.timer
        /\ q.hooks = r.hooks /\ q.slot = r.slot /\ q.jobs = r.jobs /\ q.resolving = r.resolving
        /\ q.resolved = r.resolved /\ q.tasks = r.tasks
    BY ZenonT(60), <1>1 DEF Base, Row
  <2>2. ScheduleOne(i, o)
    BY <1>7 DEF HandleCut
  <2>. HIDE DEF q
  <2>1. Kept(r, q)
    BY <1>2, <2>4
  <2>3. Kept(r, o)
    BY <2>1, CancelRowKept DEF Kept
  <2>. HIDE DEF o
  <2>. QED  BY <1>7, <2>2, <2>3, OneInv DEF HandleCut
<1>8. CASE HooksFinished(i)
  <2>1. \/ PutOne(i, Answered([r EXCEPT !.own = FALSE]))
        \/ r.stale > 0 /\ PutOne(i, Answered([r EXCEPT !.stale = @ - 1]))
    BY <1>8 DEF HooksFinished
  <2>2. CASE PutOne(i, Answered([r EXCEPT !.own = FALSE]))
    <3>. DEFINE q == [r EXCEPT !.own = FALSE]
    <3>3. /\ q \in Row
          /\ q.status = r.status /\ q.auto = r.auto /\ q.ready = r.ready /\ q.timer = r.timer
          /\ q.hooks = r.hooks /\ q.slot = r.slot /\ q.jobs = r.jobs /\ q.resolving = r.resolving
          /\ q.resolved = r.resolved /\ q.tasks = r.tasks
      BY <1>1 DEF Base, Row
    <3>. HIDE DEF q
    <3>1. Kept(r, q)
      BY <1>2, <3>3
    <3>2. Kept(r, Answered(q))
      BY <3>1, AnsweredKept DEF Kept
    <3>. QED  BY <1>8, <2>2, <3>2, OneInv DEF HooksFinished, q
  <2>3. CASE r.stale > 0 /\ PutOne(i, Answered([r EXCEPT !.stale = @ - 1]))
    <3>. DEFINE q == [r EXCEPT !.stale = @ - 1]
    <3>1. Kept(r, q)
      <4>1. r.stale - 1 \in 0..MaxStale
        BY <1>1, <2>3, BoundAssumption DEF Base, Row
      <4>2. q \in Row
        BY <1>1, <4>1 DEF Base, Row
      <4>3. /\ q.status = r.status /\ q.auto = r.auto /\ q.ready = r.ready /\ q.timer = r.timer
            /\ q.hooks = r.hooks /\ q.slot = r.slot /\ q.jobs = r.jobs /\ q.resolving = r.resolving
            /\ q.resolved = r.resolved /\ q.tasks = r.tasks
        BY <1>1 DEF Base, Row
      <4>. HIDE DEF q
      <4>. QED  BY <1>2, <4>2, <4>3
    <3>. HIDE DEF q
    <3>2. Kept(r, Answered(q))
      BY <3>1, AnsweredKept DEF Kept
    <3>. QED  BY <1>8, <2>3, <3>2, OneInv DEF HooksFinished, q
  <2>. QED  BY <2>1, <2>2, <2>3
<1>9. CASE ExpireHooks(i)
  BY <1>1, <1>9, AnsweredKept, OneInv DEF ExpireHooks
<1>10. CASE ReleaseRetry(i)
  BY <1>1, <1>10, ReleaseOneKept, OneInv DEF ReleaseRetry
<1>11. CASE VideoDue(i)
  <2>. DEFINE q == [r EXCEPT !.wait = FALSE]
  <2>1. /\ q \in Row
        /\ q.status = r.status /\ q.auto = r.auto /\ q.ready = r.ready /\ q.timer = r.timer
        /\ q.hooks = r.hooks /\ q.slot = r.slot /\ q.jobs = r.jobs /\ q.resolving = r.resolving
        /\ q.resolved = r.resolved /\ q.tasks = r.tasks
    BY <1>1 DEF Base, Row
  <2>2. PutOne(i, q)
    BY <1>11 DEF VideoDue
  <2>. HIDE DEF q
  <2>. QED  BY <1>2, <1>11, <2>1, <2>2, OneInv DEF VideoDue
<1>. QED  BY <1>3, <1>4, <1>5, <1>6, <1>7, <1>8, <1>9, <1>10, <1>11

----------------------------------------------------------------------------
(* The inductive invariant is one.                                         *)

(* The two orders of events the engine does not survive are left out.      *)
Orderly == "late_frame" \notin Faults /\ "sweep_live" \notin Faults

(* The empty queue.                                                        *)
LEMMA InitInv == Init => IInv
<1>. SUFFICES ASSUME Init PROVE IInv
  OBVIOUS
<1>1. /\ New \in Row /\ New.slot = "none" /\ New.jobs = 0 /\ New.ready = "none" /\ ~New.hooks
      /\ ~New.resolving /\ New.frames = {} /\ New.status = "new"
  BY NewRow DEF New
<1>2. \A i \in Items : row[i] = New
  BY DEF Init
<1>3. \A i \in Items : Idle(row[i])
  <2>1. Idle(New)
    BY <1>1 DEF Idle, Base, Known, Statuses, Running, Terminal
  <2>. QED  BY <1>2, <2>1
<1>4. row \in [Items -> Row]
  BY <1>1 DEF Init
<1>6. up = TRUE /\ degraded = {} /\ boots = 0
  BY DEF Init
<1>. QED  BY <1>3, <1>4, <1>6, BoundAssumption DEF IInv

(* A step that leaves the process up keeps the invariant once it keeps     *)
(* that of the rows.                                                       *)
LEMMA LiveStep ==
  ASSUME IInv, Live, IdleRows'
  PROVE  IInv'
BY DEF IInv, Live, IdleRows

(* A shutdown or a crash leaves only what is persisted.                    *)
LEMMA DownStep ==
  ASSUME IInv, boots < MaxBoots, Down, NEW f, \A i \in Items : f[i] \in Row,
         row' = [i \in Items |-> Persisted(f[i])]
  PROVE  IInv'
<1>1. \A i \in Items : Left(row'[i])
  BY PersistedLeft
<1>2. row' \in [Items -> Row]
  BY PersistedLeft DEF Left
<1>4. boots' \in 0..MaxBoots /\ up' = FALSE /\ degraded' = {}
  BY BoundAssumption DEF IInv, Down
<1>. QED  BY <1>1, <1>2, <1>4 DEF IInv

(* A boot lists what it finds in the table, and schedules.                 *)
LEMMA RecoverStep ==
  ASSUME "late_frame" \notin Faults, IInv, Recover
  PROVE  IInv'
<1>1. PICK policy \in Policies :
        Schedule([i \in Items |-> Requeued(i, Recovered(row[i], policy = "resume"))])
  BY DEF Recover
<1>. DEFINE resume == policy = "resume"
            f == [i \in Items |-> Requeued(i, Recovered(row[i], resume))]
<1>2. resume \in BOOLEAN
  OBVIOUS
<1>. HIDE DEF resume
<1>3. \A i \in Items : Left(row[i])
  BY DEF IInv, Recover
<1>4. \A i \in Items : Base(f[i]) /\ f[i].slot = "none"
  BY <1>2, <1>3, RecoveredRow, RequeuedBase
<1>5. Good(f)
  BY <1>4 DEF Good, Kept
<1>6. Schedule(f)
  BY <1>1 DEF resume
<1>. HIDE DEF f
<1>7. IdleRows'
  BY <1>5, <1>6, ScheduleInv DEF IInv
<1>. QED  BY <1>7 DEF IInv, IdleRows, Recover

(* Every step keeps the invariant.                                         *)
LEMMA NextInv ==
  ASSUME Orderly, IInv, [Next]_vars
  PROVE  IInv'
<1>1. ASSUME up
      PROVE  IdleRows
  BY <1>1 DEF IInv, IdleRows
<1>2. ASSUME NEW i \in Items,
             \/ Add(i) \/ AddChild(i)
             \/ Resolved(i) \/ ResolveAborted(i)
             \/ EmitStage(i) \/ HandleStage(i)
             \/ JobOver(i) \/ HandleFinished(i) \/ HandleFailed(i)
             \/ WatchdogFires(i) \/ HandleCut(i) \/ HooksFinished(i) \/ ExpireHooks(i)
             \/ ReleaseRetry(i) \/ VideoDue(i)
      PROVE  IInv'
  <2>1. up
    BY <1>2 DEF Add, AddChild, Resolved, ResolveAborted, EmitStage, HandleStage, JobOver, HandleFinished,
                HandleFailed, Unsettled, WatchdogFires, HandleCut, HooksFinished, ExpireHooks, ReleaseRetry,
                VideoDue, Live
  <2>2. Live /\ IdleRows'
    BY <1>1, <1>2, <2>1, AddInv, ResolvedInv, ReportInv, RowInv DEF Orderly
  <2>. QED  BY SMTT(30), <2>2, LiveStep
<1>3. CASE Command
  <2>1. up
    BY <1>3 DEF Command, Start, Pause, Cancel, Retry, Delete, Live
  <2>. QED  BY <1>1, <1>3, <2>1, CommandInv, LiveStep DEF Orderly
<1>4. CASE Clear
  <2>1. IdleRows'
    BY <1>1, <1>4, RemoveInv DEF Clear, Live, Orderly
  <2>. QED  BY <1>4, <2>1, LiveStep DEF Clear
<1>5. CASE CancelResolve
  BY <1>1, <1>5, CancelResolveInv, LiveStep DEF CancelResolve, Live, Orderly
<1>6. CASE SweepClears
  <2>1. PICK S \in SUBSET Items : (\A i \in S : Ended(row[i])) /\ Remove(S)
    BY <1>6 DEF SweepClears, Orderly
  <2>2. IdleRows'
    BY <1>1, <1>6, <2>1, RemoveInv DEF SweepClears, Live, Orderly
  <2>. QED  BY <1>6, <2>2, LiveStep DEF SweepClears
<1>7. CASE ProviderHealth
  <2>1. UNCHANGED <<row, up, boots>>
    BY <1>7 DEF ProviderHealth
  <2>2. degraded' \subseteq Providers
    BY <1>7, SwitchAssumption DEF ProviderHealth, IInv
  <2>. QED  BY <2>1, <2>2 DEF IInv
<1>8. CASE Shutdown
  <2>. DEFINE lost == \E i \in Items : ~Known(row[i]) /\ (row[i].slot # "none" \/ row[i].resolving)
  <2>1. PICK policy \in Policies :
          row' = [i \in Items |-> Persisted(IF lost THEN row[i] ELSE HandedOver(row[i], policy = "resume"))]
    BY <1>8 DEF Shutdown
  <2>. DEFINE f == [i \in Items |-> IF lost THEN row[i] ELSE HandedOver(row[i], policy = "resume")]
  <2>. HIDE DEF lost
  <2>2. (policy = "resume") \in BOOLEAN
    OBVIOUS
  <2>3. \A i \in Items : row[i] \in Row
    BY DEF IInv
  <2>4. \A i \in Items : f[i] \in Row
    BY <2>2, <2>3, HandedOverRow
  <2>5. row' = [i \in Items |-> Persisted(f[i])]
    BY <2>1
  <2>. HIDE DEF f
  <2>. QED  BY <1>8, <2>4, <2>5, DownStep DEF Shutdown
<1>9. CASE Crash
  <2>1. \A i \in Items : row[i] \in Row
    BY DEF IInv
  <2>. QED  BY <1>9, <2>1, DownStep DEF Crash
<1>10. CASE Recover
  BY <1>10, RecoverStep DEF Orderly
<1>11. CASE UNCHANGED vars
  BY <1>11 DEF vars, IInv
<1>. QED  BY <1>2, <1>3, <1>4, <1>5, <1>6, <1>7, <1>8, <1>9, <1>10, <1>11 DEF Next

----------------------------------------------------------------------------
(* The inductive invariant holds of every execution: every row has an      *)
(* owner while it runs, and a place in line or a timer while it waits.     *)
THEOREM Invariance == Orderly => (Spec => []IInv)
<1>. SUFFICES ASSUME Orderly PROVE Spec => []IInv
  OBVIOUS
<1>1. IInv /\ [Next]_vars => IInv'
  BY NextInv
<1>. QED  BY <1>1, InitInv, PTL DEF Spec

(* Every row the engine keeps, in memory and persisted, has its type.      *)
THEOREM Typed == Orderly => (Spec => []TypeOK)
<1>1. IInv => TypeOK
  BY DEF IInv, TypeOK
<1>. QED  BY <1>1, Invariance, PTL

(* A row reads as running exactly as long as an unsettled job or an open   *)
(* hook window owns it, for any number of rows.                            *)
THEOREM RunningOwned == Orderly => (Spec => []RunningHasOwner)
<1>1. IInv => RunningHasOwner
  BY DEF IInv, Idle, Base, RunningHasOwner
<1>. QED  BY <1>1, Invariance, PTL

(* No row ever has two download tasks, nor a slot without one.             *)
THEOREM OneJob == Orderly => (Spec => []OneJobPerRow)
<1>1. IInv => OneJobPerRow
  BY DEF IInv, Idle, Base, Left, OneJobPerRow
<1>. QED  BY <1>1, Invariance, PTL

(* A row that asked to start is on a deque, has a timer or waits for the   *)
(* job it replaces.                                                        *)
THEOREM NothingStranded == Orderly => (Spec => []NoStrandedRow)
<1>1. IInv => NoStrandedRow
  BY DEF IInv, Idle, Base, NoStrandedRow
<1>. QED  BY <1>1, Invariance, PTL

(* A row reads as resolving only while its own task is to answer.          *)
THEOREM AnswersComing == Orderly => (Spec => []ResolvingHasAnswer)
<1>1. IInv => ResolvingHasAnswer
  BY DEF IInv, Idle, Base, ResolvingHasAnswer
<1>. QED  BY <1>1, Invariance, PTL

-----------------------------------------------------------------------------
(* The moves of the lifecycle, seen from one row.                          *)

Move(a, b) ==
  \/ a = "new" /\ b \in {"resolving", "parked", "queued", "preparing", "error"}
  \/ a = "resolving" /\ b \in {"parked", "queued", "preparing", "error"}
  \/ a \in {"queued", "parked"} /\ b \in {"resolving", "queued", "preparing", "error"}
  \/ a \in Running \cup {"queued"} /\ b = "parked"
  \/ a = "preparing" /\ b \in {"downloading", "postprocessing"}
  \/ a = "downloading" /\ b = "postprocessing"
  \/ a \in Running /\ b \in {"finished", "error", "queued"}
  \/ a \in Running \cup {"resolving", "parked", "queued"} /\ b = "canceled"
  \/ a \in {"error", "canceled"} /\ b \in {"resolving", "queued", "preparing", "error"}
  \/ a \in Running \cup Terminal \cup {"resolving", "parked", "queued", "gone"} /\ b = "gone"

(* They are the lifecycle's.                                               *)
LEMMA MovesListed == \A a, b : Move(a, b) => <<a, b>> \in L!Moves
BY DEF Move, Running, Terminal, L!Moves, L!Created, L!Resolves, L!Starts, L!Parks, L!Advances, L!Ends, L!Cancels,
       L!Revives, L!Removals, L!Listed, L!Jobs, L!Over, L!Nodes

(* What an operation makes of a row is a move, and stays one when the      *)
(* scheduler starts or refuses the row in the same step.                   *)
Fit(r, q) ==
  \/ Seen(q) = Seen(r)
  \/ Move(Seen(r), Seen(q)) /\ (Seen(q) = "queued" => q.ready = "none" \/ Seen(r) \notin Running)

(* It neither revives the row nor unparks it.                              *)
Rests(r, q)  == Ended(r) => Ended(q) \/ ~Known(q)
Parks(r, q)  == Parked(r) => Parked(q) \/ q.status \in {"canceled", "gone"}
Quiet(r, q)  == Fit(r, q) /\ Rests(r, q) /\ Parks(r, q)

LEMMA SameQuiet ==
  ASSUME NEW r, NEW q, q.status = r.status, q.auto = r.auto PROVE Quiet(r, q)
BY DEF Quiet, Fit, Rests, Parks, Seen, Parked, Ended, Known

----------------------------------------------------------------------------
(* One row, one operation.                                                 *)

LEMMA TerminateSees ==
  ASSUME NEW r \in Row, r.status \in Statuses \ Terminal, NEW s \in {"canceled", "error"}
  PROVE  Terminate(r, s).status = s
<1>. DEFINE c == r.clear \/ (Clearing /\ s \in {"finished", "error"})
<1>1. Terminate(r, s) = [r EXCEPT !.status = s, !.wait = FALSE, !.clear = c]
  BY TerminateLive
<1>. HIDE DEF c
<1>. QED  BY <1>1 DEF Row

LEMMA ParkSees ==
  ASSUME NEW r, Base(r), r.status \in Running
  PROVE  ParkRunning(r).status = "queued" /\ ~ParkRunning(r).auto
BY WritableEdges DEF ParkRunning, Write, Settle, CloseWindow, Known, Statuses, Base, Row

LEMMA EnqueueSees ==
  ASSUME NEW i, NEW q \in Row
  PROVE  Enqueue(i, q).status = q.status /\ Enqueue(i, q).auto = q.auto
BY DEF Enqueue, Row

LEMMA RestartSees ==
  ASSUME NEW q \in Row, ~q.resolving
  PROVE  RestartResolution(q).status = "resolving" /\ RestartResolution(q).auto = q.auto
BY DEF RestartResolution, Spawn, Row

(* Listing a row, or resolving it again.                                   *)
LEMMA ListSees ==
  ASSUME NEW i \in Items, NEW q, Listable(q),
         NEW e, e = IF q.resolved THEN Enqueue(i, q) ELSE RestartResolution(q)
  PROVE  \/ e.status = "queued" /\ e.auto = q.auto
         \/ e.status = "resolving"
BY EnqueueSees, RestartSees DEF Listable

LEMMA RetrySees ==
  ASSUME NEW i \in Items, NEW r, Base(r), r.status \in {"error", "canceled"}
  PROVE  /\ Seen(RetryOne(i, r)) \in {"queued", "resolving"}
         /\ Fit(r, RetryOne(i, r))
<1>. DEFINE q == [r EXCEPT !.status = "queued", !.auto = TRUE, !.wait = FALSE, !.attempt = Bump(@)]
            e == RetryOne(i, r)
<1>1. Bump(r.attempt) \in 0..MaxAttempt
  BY BumpType DEF Base, Row
<1>2. Listable(q) /\ q.auto
  BY ZenonT(60), <1>1 DEF Listable, Base, Row, Known, Statuses, Running, Terminal
<1>3. e = IF q.resolved THEN Enqueue(i, q) ELSE RestartResolution(q)
  BY DEF RetryOne
<1>. HIDE DEF q, e
<1>4. (e.status = "queued" /\ e.auto) \/ e.status = "resolving"
  BY <1>2, <1>3, ListSees
<1>5. Seen(e) \in {"queued", "resolving"} /\ Fit(r, e)
  BY <1>4 DEF Seen, Parked, Fit, Move, Running
<1>. QED  BY <1>5 DEF e

LEMMA StartSees ==
  ASSUME NEW i \in Items, NEW r, Base(r), Known(r)
  PROVE  Fit(r, StartOne(i, r))
<1>. DEFINE q == [r EXCEPT !.auto = TRUE]
            e == StartOne(i, r)
<1>1. CASE r.status = "resolving"
  <2>1. e = q
    BY <1>1 DEF StartOne
  <2>2. e.status = "resolving"
    BY <1>1, <2>1 DEF Base, Row
  <2>. HIDE DEF e
  <2>3. Fit(r, e)
    BY <1>1, <2>2 DEF Fit, Seen, Parked
  <2>. QED  BY <2>3 DEF e
<1>2. CASE r.status = "queued" /\ r.wait
  <2>1. e = [q EXCEPT !.timer = TRUE]
    BY <1>2 DEF StartOne
  <2>2. e.status = "queued" /\ e.auto
    BY <1>2, <2>1 DEF Base, Row
  <2>. HIDE DEF e
  <2>3. Fit(r, e)
    BY <1>2, <2>2 DEF Fit, Seen, Parked, Move, Running
  <2>. QED  BY <2>3 DEF e
<1>3. CASE r.status = "queued" /\ ~r.wait
  <2>1. e = IF q.resolved THEN Enqueue(i, q) ELSE RestartResolution(q)
    BY <1>3 DEF StartOne, Base, Row
  <2>2. Listable(q) /\ q.auto
    BY <1>3 DEF Listable, Base, Row, Known, Statuses, Running
  <2>. HIDE DEF q, e
  <2>3. (e.status = "queued" /\ e.auto) \/ e.status = "resolving"
    BY <2>1, <2>2, ListSees
  <2>4. Fit(r, e)
    BY <1>3, <2>3 DEF Fit, Seen, Parked, Move, Running
  <2>. QED  BY <2>4 DEF e
<1>4. CASE r.status \in {"error", "canceled"}
  BY <1>4, RetrySees DEF StartOne
<1>5. CASE r.status \notin {"resolving", "queued", "error", "canceled"}
  <2>1. e = r
    BY <1>5 DEF StartOne
  <2>. QED  BY <2>1 DEF Fit
<1>. QED  BY <1>1, <1>2, <1>3, <1>4, <1>5

LEMMA PauseQuiet ==
  ASSUME NEW i \in Items, NEW r, Base(r), Known(r)
  PROVE  Quiet(r, PauseOne(i, r))
<1>. DEFINE q == PauseOne(i, r)
<1>1. CASE (r.status = "queued" /\ r.auto) \/ r.status \in Running
  <2>1. q.status = "queued" /\ ~q.auto
    <3>1. CASE r.status = "queued" /\ r.auto
      <4>1. q = [r EXCEPT !.auto = FALSE, !.ready = "none", !.timer = FALSE]
        BY <3>1 DEF PauseOne, Running
      <4>. QED  BY <3>1, <4>1 DEF Base, Row
    <3>2. CASE r.status \in Running
      <4>1. q = ParkRunning(r)
        BY <3>2 DEF PauseOne, Running
      <4>. QED  BY <3>2, <4>1, ParkSees
    <3>. QED  BY <1>1, <3>1, <3>2
  <2>. HIDE DEF q
  <2>2. Quiet(r, q)
    BY <1>1, <2>1 DEF Quiet, Fit, Rests, Parks, Seen, Parked, Move, Running, Ended, Terminal
  <2>. QED  BY <2>2 DEF q
<1>2. CASE ~((r.status = "queued" /\ r.auto) \/ r.status \in Running)
  <2>1. q = r
    BY <1>2 DEF PauseOne
  <2>. QED  BY <2>1, SameQuiet
<1>. QED  BY <1>1, <1>2

(* A cancel of a row that is not over.                                     *)
LEMMA CancelledQuiet ==
  ASSUME NEW r, NEW q, r.status \in Statuses \ Terminal, q.status = "canceled"
  PROVE  Quiet(r, q)
BY DEF Quiet, Fit, Rests, Parks, Seen, Parked, Move, Statuses, Running, Ended, Terminal

LEMMA CancelOneQuiet ==
  ASSUME NEW r, Base(r), r.status \in Statuses \ Terminal
  PROVE  Quiet(r, CancelOne(r))
<1>1. CancelOne(r).status = "canceled"
  BY CancelKept DEF Base, Known
<1>. QED  BY <1>1, CancelledQuiet

LEMMA CancelRowQuiet ==
  ASSUME NEW i \in Items, NEW r, Base(r), Known(r)
  PROVE  Quiet(r, CancelRow(i, r))
<1>1. CASE Ended(r)
  BY <1>1, SameQuiet DEF CancelRow
<1>2. CASE ~Ended(r)
  BY <1>2, CancelOneQuiet DEF CancelRow, Ended, Known
<1>. QED  BY <1>1, <1>2

(* A retry revives, and parks nothing.                                     *)
LEMMA RetryRowFits ==
  ASSUME NEW i \in Items, NEW r, Base(r), Known(r)
  PROVE  Fit(r, RetryRow(i, r)) /\ Parks(r, RetryRow(i, r))
<1>1. CASE r.status \in {"error", "canceled"}
  BY <1>1, RetrySees DEF RetryRow, Parks, Parked
<1>2. CASE r.status \notin {"error", "canceled"}
  BY <1>2, SameQuiet DEF RetryRow, Quiet
<1>. QED  BY <1>1, <1>2

LEMMA GoneQuiet ==
  ASSUME NEW r, Known(r), NEW q, q.status = "gone"
  PROVE  Quiet(r, q)
BY DEF Quiet, Fit, Rests, Parks, Seen, Parked, Move, Statuses, Running, Ended, Known, Terminal

LEMMA ForgetSees ==
  ASSUME NEW r \in Row PROVE Forget(r).status = "gone"
BY DEF Forget, CloseWindow, Row

LEMMA DeleteQuiet ==
  ASSUME NEW i \in Items, NEW r, Base(r), Known(r)
  PROVE  Quiet(r, DeleteRow(i, r))
<1>1. CancelRow(i, r) \in Row
  BY CancelRowKept DEF Kept, Base
<1>2. DeleteRow(i, r).status = "gone"
  BY <1>1, ForgetSees DEF DeleteRow
<1>. QED  BY <1>2, GoneQuiet

(* Answers of a resolution: a row that reads as resolving is parked,       *)
(* listed, waits, is over, or goes on resolving.                           *)
LEMMA OutcomeQuiet ==
  ASSUME NEW i \in Items, NEW r, Answering(r), NEW o \in Outcomes
  PROVE  Quiet(r, OnOutcome(i, r, o))
<1>. DEFINE e == OnOutcome(i, r, o)
<1>1. Kept(r, e)
  BY OutcomeKept
<1>2. e.status \in {"queued", "resolving", "error"}
  <2>. DEFINE named == [r EXCEPT !.resolved = TRUE]
              q == [named EXCEPT !.status = "queued", !.wait = FALSE]
  <2>0. r \in Row /\ named \in Row /\ q \in Row /\ q.status = "queued"
    BY ZenonT(60) DEF Answering, Row, Statuses
  <2>1. CASE o = "video"
    <3>1. e = IF r.auto THEN Enqueue(i, q) ELSE q
      BY <2>1 DEF OnOutcome
    <3>. HIDE DEF e, q
    <3>. QED  BY <2>0, <3>1, EnqueueSees
  <2>2. CASE o = "pre_error"
    <3>1. e = [named EXCEPT !.status = "queued", !.auto = FALSE, !.wait = FALSE]
      BY <2>2 DEF OnOutcome
    <3>. QED  BY <2>0, <3>1 DEF Row
  <2>3. CASE o \in {"upcoming", "not_yet_live"} /\ i \in Subs
    <3>1. e \in {WaitForVideo(named), WaitForVideo(r)}
      BY <2>3 DEF OnOutcome
    <3>2. WaitForVideo(named).status = "queued" /\ WaitForVideo(r).status = "queued"
      BY <2>0 DEF WaitForVideo, Row
    <3>. QED  BY <3>1, <3>2
  <2>4. CASE o = "redirect" /\ r.hops < MaxHops
    <3>1. e = Spawn(r, r.hops + 1)
      BY <2>4 DEF OnOutcome
    <3>2. Spawn(r, r.hops + 1).status = r.status
      BY <2>0 DEF Spawn, Row
    <3>. QED  BY <3>1, <3>2 DEF Answering
  <2>5. CASE /\ o \notin {"video", "pre_error"} /\ ~(o = "redirect" /\ r.hops < MaxHops)
             /\ ~(o \in {"upcoming", "not_yet_live"} /\ i \in Subs)
    <3>1. e = Terminate(r, "error")
      BY <2>5 DEF OnOutcome
    <3>2. r.status \in Statuses \ Terminal
      BY DEF Answering, Statuses, Terminal
    <3>. QED  BY <2>0, <3>1, <3>2, TerminateSees
  <2>. QED  BY <2>1, <2>2, <2>3, <2>4, <2>5
<1>. HIDE DEF e
<1>3. Quiet(r, e)
  BY <1>2 DEF Answering, Quiet, Fit, Rests, Parks, Seen, Parked, Move, Running, Ended, Terminal
<1>. QED  BY <1>3 DEF e
(* A stage frame moves a running row forward only.                         *)
LEMMA StageQuiet ==
  ASSUME NEW r, Idle(r), NEW s \in r.frames, NEW q, q = [r EXCEPT !.frames = @ \ {s}]
  PROVE  Quiet(r, IF StageRefused(q) THEN q ELSE Write(q, Clamped(s, q.status), q.auto))
<1>. DEFINE w == Write(q, Clamped(s, q.status), q.auto)
<1>1. /\ q \in Row /\ q.status = r.status /\ q.auto = r.auto /\ s \in Running /\ r \in Row
      /\ q.slot = r.slot /\ q.hooks = r.hooks
  BY DEF Idle, Base, Row
<1>2. Quiet(r, q)
  BY <1>1, SameQuiet
<1>3. w = q \/ w = [q EXCEPT !.status = Clamped(s, q.status), !.auto = q.auto]
  BY DEF Write
<1>4. CASE StageRefused(q) \/ w = q
  BY <1>2, <1>4
<1>5. CASE ~StageRefused(q) /\ w # q
  <2>1. w.status = Clamped(s, r.status) /\ w.auto = r.auto
    <3>1. w = [q EXCEPT !.status = Clamped(s, q.status), !.auto = q.auto]
      BY <1>3, <1>5
    <3>. HIDE DEF w
    <3>. QED  BY <1>1, <3>1 DEF Row
  <2>2. r.status \in Running
    <3>1. q.slot \in {"none", "held"} /\ ~q.hooks /\ q.status \in Statuses \ Terminal
      BY <1>1, <1>5 DEF StageRefused, Known, Ended, Settled, Row
    <3>2. CASE r.slot = "held"
      BY <3>2 DEF Idle, Base
    <3>3. CASE r.slot = "none"
      <4>1. q.status = "resolving"
        BY <1>1, <3>1, <3>3 DEF Idle, Base, Statuses, Running
      <4>2. Clamped(s, q.status) = s
        BY <4>1 DEF Clamped, Running
      <4>3. ~Writable(Edge("resolving", q.auto), Edge(s, q.auto))
        BY <1>1 DEF Writable, ForwardRun, CanTransition, Edge, Node, Table, Place, Position, Path, Running, Terminal
      <4>. QED  BY <1>5, <4>1, <4>2, <4>3 DEF Write
    <3>. QED  BY <1>1, <3>1, <3>2, <3>3
  <2>3. w.status \in Running /\ (w.status # r.status => Move(r.status, w.status))
    BY <1>1, <2>1, <2>2 DEF Clamped, Position, Place, Move, Running
  <2>. HIDE DEF w
  <2>4. Quiet(r, w)
    BY <2>1, <2>2, <2>3 DEF Quiet, Fit, Rests, Parks, Seen, Parked, Running, Ended, Terminal
  <2>. QED  BY <1>5, <2>4 DEF w
<1>. QED  BY <1>4, <1>5

(* What a running row may become without a user: it goes on, is parked, or *)
(* ends; if it waits for another try, it is not on a deque yet.            *)
LEMMA RunningQuiet ==
  ASSUME NEW r, r.status \in Running, NEW q,
         \/ q.status \in {"finished", "error", "canceled", "postprocessing", r.status}
         \/ q.status = "queued" /\ q.ready = "none"
  PROVE  Quiet(r, q)
BY DEF Quiet, Fit, Rests, Parks, Seen, Parked, Move, Running, Ended, Terminal

(* The end of a row that is running, with or without its hooks.            *)
LEMMA FinaliseSees ==
  ASSUME NEW q \in Row, q.status \in Running
  PROVE  FinaliseSuccess(q).status = "finished"
<1>. DEFINE c == q.clear \/ (Clearing /\ "finished" \in {"finished", "error"})
<1>1. FinaliseSuccess(q) = [q EXCEPT !.status = "finished", !.wait = FALSE, !.clear = c]
  BY WritableEdges DEF FinaliseSuccess, Terminate, Known, Ended, Row, Statuses, Running, Terminal
<1>. HIDE DEF c
<1>. QED  BY <1>1 DEF Row

LEMMA WindowSees ==
  ASSUME NEW q \in Row, q.status \in Running, NEW delivered \in BOOLEAN
  PROVE  OpenWindow(q, delivered).status \in {"finished", "postprocessing"}
<1>. DEFINE w == Write(q, "postprocessing", q.auto)
            n == IF q.own /\ w.stale < MaxStale THEN w.stale + 1 ELSE w.stale
<1>1. w = q \/ w = [q EXCEPT !.status = "postprocessing", !.auto = q.auto]
  BY DEF Write
<1>2. w \in Row
  <2>. HIDE DEF w
  <2>1. "postprocessing" \in Statuses /\ q.auto \in BOOLEAN
    BY DEF Row, Statuses, Running
  <2>2. [q EXCEPT !.status = "postprocessing", !.auto = q.auto] \in Row
    BY <2>1, WrittenRow
  <2>. QED  BY <1>1, <2>2
<1>3. CASE w.status # "postprocessing"
  BY <1>3, FinaliseSees DEF OpenWindow
<1>4. CASE w.status = "postprocessing"
  <2>1. OpenWindow(q, delivered) = [w EXCEPT !.hooks = TRUE, !.own = delivered, !.stale = n]
    BY <1>4 DEF OpenWindow
  <2>. HIDE DEF w, n
  <2>. QED  BY <1>2, <1>4, <2>1 DEF Row
<1>. QED  BY <1>3, <1>4

(* The report of a job.                                                    *)
LEMMA ReleaseQuiet ==
  ASSUME NEW i \in Items, NEW r, Base(r), r.jobs > 0
  PROVE  Quiet(r, Release(i, r)) /\ Quiet(r, Reported(r))
<1>. DEFINE q == Reported(r)
<1>1. q \in Row /\ q.status = r.status /\ q.auto = r.auto
  BY ReportedRow
<1>2. Release(i, r) \in {q, Enqueue(i, q)}
  BY DEF Release
<1>. HIDE DEF q
<1>3. Release(i, r).status = r.status /\ Release(i, r).auto = r.auto
  BY <1>1, <1>2, EnqueueSees
<1>. QED  BY <1>1, <1>3, SameQuiet DEF q

LEMMA ReportQuiet ==
  ASSUME NEW r, Base(r), r.jobs > 0, ~Settled(r), Known(r), ~Ended(r), NEW q, q = Reported(r)
  PROVE  /\ \A delivered \in BOOLEAN : Quiet(r, OpenWindow(q, delivered))
         /\ Quiet(r, FinaliseSuccess(q))
         /\ \A s \in {"canceled", "error"} : Quiet(r, Terminate(q, s))
         /\ Quiet(r, ArmAutoRetry(q)) /\ Quiet(r, WaitForVideo(q))
<1>1. q \in Row /\ q.status \in Running /\ q.ready = "none" /\ q.status = r.status
  BY UnsettledRow, ReportedRow
<1>2. \A delivered \in BOOLEAN : Quiet(r, OpenWindow(q, delivered))
  BY <1>1, WindowSees, RunningQuiet
<1>3. Quiet(r, FinaliseSuccess(q))
  BY <1>1, FinaliseSees, RunningQuiet
<1>4. \A s \in {"canceled", "error"} : Quiet(r, Terminate(q, s))
  <2>1. q.status \in Statuses \ Terminal
    BY <1>1 DEF Statuses, Running, Terminal
  <2>. QED  BY <1>1, <2>1, TerminateSees, RunningQuiet
<1>5. Quiet(r, ArmAutoRetry(q))
  <2>1. ArmAutoRetry(q).status = "queued" /\ ArmAutoRetry(q).ready = "none"
    BY <1>1 DEF ArmAutoRetry, Row
  <2>. QED  BY <1>1, <2>1, RunningQuiet
<1>6. Quiet(r, WaitForVideo(q))
  <2>1. WaitForVideo(q).status = "queued" /\ WaitForVideo(q).ready = "none"
    BY <1>1 DEF WaitForVideo, Row
  <2>. QED  BY <1>1, <2>1, RunningQuiet
<1>. QED  BY <1>2, <1>3, <1>4, <1>5, <1>6

(* A hook answer, or the deadline of one.                                  *)
LEMMA AnsweredQuiet ==
  ASSUME NEW r, Base(r)
  PROVE  Quiet(r, Answered(r)) /\ (r.hooks => Quiet(r, FinaliseSuccess(CloseWindow(r))))
<1>1. CASE r.hooks
  <2>1. CloseWindow(r) \in Row /\ CloseWindow(r).status = "postprocessing" /\ r.status = "postprocessing"
    BY <1>1 DEF Base, Row, CloseWindow
  <2>2. FinaliseSuccess(CloseWindow(r)).status = "finished"
    BY <2>1, FinaliseSees DEF Running
  <2>3. Quiet(r, FinaliseSuccess(CloseWindow(r)))
    BY <2>1, <2>2, RunningQuiet DEF Running
  <2>. QED  BY <1>1, <2>3 DEF Answered
<1>2. CASE ~r.hooks
  BY <1>2, SameQuiet DEF Answered
<1>. QED  BY <1>1, <1>2

(* A timer that is due.                                                    *)
LEMMA ReleaseOneQuiet ==
  ASSUME NEW i \in Items, NEW r, Base(r)
  PROVE  Quiet(r, ReleaseOne(i, r))
<1>. DEFINE q == [r EXCEPT !.timer = FALSE]
<1>1. /\ q \in Row /\ q.status = r.status /\ q.auto = r.auto /\ q.slot = r.slot /\ q.jobs = r.jobs
      /\ q.resolving = r.resolving /\ q.resolved = r.resolved /\ q.hooks = r.hooks
  BY ZenonT(60) DEF Base, Row
<1>2. ReleaseOne(i, r) = IF r.status # "queued" \/ ~r.auto THEN q
                         ELSE IF r.resolved THEN Enqueue(i, q) ELSE RestartResolution(q)
  BY DEF ReleaseOne
<1>. HIDE DEF q
<1>3. CASE r.status # "queued" \/ ~r.auto
  BY <1>1, <1>2, <1>3, SameQuiet
<1>4. CASE r.status = "queued" /\ r.auto
  <2>1. Listable(q)
    BY <1>1, <1>4 DEF Listable, Base, Known, Statuses, Running
  <2>. DEFINE e == ReleaseOne(i, r)
  <2>2. e = IF q.resolved THEN Enqueue(i, q) ELSE RestartResolution(q)
    BY <1>1, <1>2, <1>4
  <2>3. (e.status = "queued" /\ e.auto = q.auto) \/ e.status = "resolving"
    BY <2>1, <2>2, ListSees
  <2>. HIDE DEF e
  <2>4. Quiet(r, e)
    BY <1>1, <1>4, <2>3 DEF Quiet, Fit, Rests, Parks, Seen, Parked, Move, Ended, Terminal
  <2>. QED  BY <2>4 DEF e
<1>. QED  BY <1>3, <1>4
----------------------------------------------------------------------------
(* A handler, from the row before it to the row after its schedule().      *)

(* What the scheduler makes of what an operation left.                     *)
Later(q, p) ==
  \/ Seen(p) = Seen(q)
  \/ Seen(q) = "queued" /\ q.ready # "none" /\ Seen(p) \in {"preparing", "error"}

Moved(r, p) == Seen(p) = Seen(r) \/ Move(Seen(r), Seen(p))
Step(r, p)  == Moved(r, p) /\ Rests(r, p) /\ Parks(r, p)

(* Whether a row has ended, is known or is parked can be seen.             *)
LEMMA SeenTells ==
  \A r \in Row : /\ Ended(r) <=> Seen(r) \in Terminal
                 /\ Known(r) <=> Seen(r) \notin {"new", "gone"}
                 /\ Parked(r) <=> Seen(r) = "parked"
                 /\ r.status \in {"canceled", "gone"} <=> Seen(r) \in {"canceled", "gone"}
BY DEF Row, Ended, Known, Parked, Seen, Statuses, Running, Terminal

LEMMA LaterMoved ==
  ASSUME NEW r, NEW q, NEW p, Fit(r, q), Later(q, p)
  PROVE  Moved(r, p)
BY DEF Fit, Later, Moved, Move, Running, Terminal

LEMMA LaterRests ==
  ASSUME NEW r \in Row, NEW q \in Row, NEW p \in Row, Rests(r, q), Later(q, p)
  PROVE  Rests(r, p)
<1>. Ended(q) \/ ~Known(q) => Seen(p) = Seen(q)
  BY SeenTells DEF Later, Terminal
<1>. QED  BY SeenTells DEF Rests

LEMMA LaterParks ==
  ASSUME NEW r \in Row, NEW q \in Row, NEW p \in Row, Parks(r, q), Later(q, p)
  PROVE  Parks(r, p)
<1>. Parked(q) \/ q.status \in {"canceled", "gone"} => Seen(p) = Seen(q)
  BY SeenTells DEF Later
<1>. QED  BY SeenTells DEF Parks

(* schedule() on one row.                                                  *)
LEMMA AfterLater ==
  ASSUME NEW f, NEW S \in SUBSET Items, NEW i \in Items, Base(f[i]), S \subseteq Candidates(f)
  PROVE  Later(f[i], After(f, S, i))
<1>. DEFINE r == f[i]
            q == After(f, S, i)
<1>1. CASE i \in S
  <2>1. r.status = "queued" /\ r.auto /\ r.ready # "none"
    BY <1>1 DEF Candidates, Wanted, Listed
  <2>2. q.status = "preparing"
    <3>1. Write(r, "preparing", r.auto) = [r EXCEPT !.status = "preparing", !.auto = r.auto]
      BY <2>1, WritableEdges DEF Write, Known, Statuses, Base, Row
    <3>. QED  BY <1>1, <3>1 DEF After, StartJob, Base, Row
  <2>. HIDE DEF q
  <2>3. Later(r, q)
    BY <2>1, <2>2 DEF Later, Seen, Parked
  <2>. QED  BY <2>3 DEF q
<1>2. CASE i \notin S /\ (r.ready = "none" \/ Waits(f, S, i) \/ ~Reached(f, S, i))
  BY <1>2 DEF After, Later
<1>3. CASE /\ i \notin S /\ r.ready # "none" /\ ~Waits(f, S, i) /\ Reached(f, S, i)
           /\ Wanted(r) /\ r.resolved
  <2>0. Terminate(r, "error") \in Row /\ Terminate(r, "error").status = "error"
    <3>1. r \in Row /\ r.status \in Statuses \ Terminal
      BY <1>3 DEF Wanted, Base, Statuses, Terminal
    <3>. DEFINE c == r.clear \/ (Clearing /\ "error" \in {"finished", "error"})
    <3>2. Terminate(r, "error") = [r EXCEPT !.status = "error", !.wait = FALSE, !.clear = c]
      BY <3>1, TerminateLive
    <3>3. c \in BOOLEAN
      OBVIOUS
    <3>. HIDE DEF c
    <3>. QED  BY <3>1, <3>2, <3>3 DEF Row, Statuses, Terminal
  <2>1. q = [Terminate(r, "error") EXCEPT !.ready = "none"]
    BY SMTT(30), <1>3 DEF After
  <2>2. q.status = "error"
    BY <2>0, <2>1 DEF Row
  <2>. HIDE DEF q
  <2>3. Later(r, q)
    BY <1>3, <2>2 DEF Later, Seen, Parked, Wanted
  <2>. QED  BY <2>3 DEF q
<1>4. CASE /\ i \notin S /\ r.ready # "none" /\ ~Waits(f, S, i) /\ Reached(f, S, i)
           /\ ~(Wanted(r) /\ r.resolved)
  <2>1. q = [r EXCEPT !.ready = "none"]
    BY <1>4 DEF After
  <2>2. q.status = r.status /\ q.auto = r.auto
    BY <2>1 DEF Base, Row
  <2>. HIDE DEF q
  <2>3. Later(r, q)
    BY <2>2 DEF Later, Seen, Parked
  <2>. QED  BY <2>3 DEF q
<1>. QED  BY <1>1, <1>2, <1>3, <1>4

LEMMA DeliveredSees ==
  ASSUME NEW r, Base(r)
  PROVE  Seen(Delivered(r)) = Seen(r) /\ Delivered(r) \in Row
<1>1. Delivered(r) \in Row /\ Delivered(r).status = r.status /\ Delivered(r).auto = r.auto
  BY DEF Delivered, Base, Row
<1>. QED  BY <1>1 DEF Seen, Parked

(* What a handler leaves of a row, up to its schedule().                   *)
LEMMA HandlerLater ==
  ASSUME NEW f, \A i \in Items : Base(f[i]), Put(f) \/ Schedule(f), NEW i \in Items
  PROVE  row'[i] \in Row /\ Later(f[i], row'[i])
<1>1. CASE Put(f)
  <2>1. row'[i] = Delivered(f[i])
    BY <1>1 DEF Put
  <2>. QED  BY <2>1, DeliveredSees DEF Later
<1>2. CASE Schedule(f)
  <2>1. PICK S \in SUBSET Items : Admitted(f, S) /\ Put([j \in Items |-> After(f, S, j)])
    BY <1>2 DEF Schedule
  <2>2. S \subseteq Candidates(f)
    BY <2>1 DEF Admitted
  <2>3. row'[i] = Delivered(After(f, S, i))
    BY <2>1 DEF Put
  <2>4. Base(After(f, S, i)) /\ Later(f[i], After(f, S, i))
    BY <2>2, AfterKept, AfterLater
  <2>5. Seen(row'[i]) = Seen(After(f, S, i)) /\ row'[i] \in Row
    BY <2>3, <2>4, DeliveredSees
  <2>. QED  BY <2>4, <2>5 DEF Later
<1>. QED  BY <1>1, <1>2

LEMMA HandlerStep ==
  ASSUME NEW f, \A i \in Items : Base(f[i]), Put(f) \/ Schedule(f), NEW i \in Items, row[i] \in Row
  PROVE  /\ Fit(row[i], f[i]) => Moved(row[i], row'[i])
         /\ Rests(row[i], f[i]) => Rests(row[i], row'[i])
         /\ Parks(row[i], f[i]) => Parks(row[i], row'[i])
         /\ Quiet(row[i], f[i]) => Step(row[i], row'[i])
<1>1. row'[i] \in Row /\ Later(f[i], row'[i]) /\ f[i] \in Row
  BY HandlerLater DEF Base
<1>. QED  BY <1>1, LaterMoved, LaterRests, LaterParks DEF Quiet, Step

----------------------------------------------------------------------------
(* What every handler that no user's start or retry causes does.           *)

(* A resolved row that wants to start, has no timer and no job to wait     *)
(* for: all it lacks is a permit, and a provider that answers.             *)
Claim(r) == r.ready # "none" /\ Wanted(r) /\ r.slot = "none" /\ r.resolved

(* A handler that does not schedule() frees nothing and lists nobody.      *)
Calm(r, q) ==
  /\ q.ready = r.ready /\ (Claim(q) => Claim(r))
  /\ r.slot = "held" => q.slot = "held"

Handles(f) ==
  /\ \A i \in Items : Base(f[i])
  /\ Schedule(f) \/ (Put(f) /\ \A i \in Items : Calm(row[i], f[i]))

(* The same, of a handler that changes one row.                            *)
Does(i) ==
  \E q : /\ Base(q) /\ Quiet(row[i], q)
         /\ ScheduleOne(i, q) \/ (PutOne(i, q) /\ Calm(row[i], q))

LEMMA SameCalm == \A r : Calm(r, r)
BY DEF Calm

LEMMA DoesHandles ==
  ASSUME IdleRows, NEW i \in Items, Does(i)
  PROVE  \E f : Handles(f) /\ \A j \in Items : Quiet(row[j], f[j])
<1>1. PICK q : /\ Base(q) /\ Quiet(row[i], q)
               /\ ScheduleOne(i, q) \/ (PutOne(i, q) /\ Calm(row[i], q))
  BY DEF Does
<1>. DEFINE f == [row EXCEPT ![i] = q]
<1>2. \A j \in Items : f[j] = IF j = i THEN q ELSE row[j]
  BY DEF IdleRows
<1>3. Schedule(f) \/ (Put(f) /\ Calm(row[i], q))
  BY <1>1 DEF ScheduleOne, PutOne
<1>. HIDE DEF f
<1>4. \A j \in Items : Base(f[j]) /\ Quiet(row[j], f[j])
  BY <1>1, <1>2, SameQuiet DEF IdleRows, Idle
<1>5. Handles(f)
  BY <1>1, <1>2, <1>3, <1>4, SameCalm DEF Handles
<1>. QED  BY <1>4, <1>5

(* Changing only what is outstanding of a row.                             *)
LEMMA AlikeDoes ==
  ASSUME NEW r, Base(r), NEW q, q \in Row, q.status = r.status, q.auto = r.auto, q.ready = r.ready,
         q.timer = r.timer, q.hooks = r.hooks, q.slot = r.slot, q.jobs = r.jobs,
         q.resolving = r.resolving, q.resolved = r.resolved, "own" \in r.tasks => "own" \in q.tasks
  PROVE  Base(q) /\ Quiet(r, q) /\ Calm(r, q)
<1>1. Base(q)
  BY DEF Base, Known, Settled
<1>2. Calm(r, q)
  BY DEF Calm, Claim, Wanted
<1>. QED  BY <1>1, <1>2, SameQuiet

(* A row nobody has added yet.                                             *)
LEMMA NewQuiet ==
  ASSUME NEW r, r.status = "new", NEW q, q.status \in {"resolving", "queued"}
  PROVE  Quiet(r, q)
BY DEF Quiet, Fit, Rests, Parks, Seen, Parked, Move, Ended, Terminal, Running

LEMMA AddDoes ==
  ASSUME IdleRows, NEW i \in Items, Add(i) \/ AddChild(i)
  PROVE  Does(i)
<1>0. row[i].status = "new" /\ Base(row[i])
  BY DEF Add, AddChild, IdleRows, Idle
<1>1. CASE Add(i)
  <2>1. PICK a \in BOOLEAN : PutOne(i, Spawn([New EXCEPT !.status = "resolving", !.auto = a], 0))
    BY <1>1 DEF Add
  <2>. DEFINE q == Spawn([New EXCEPT !.status = "resolving", !.auto = a], 0)
  <2>2. Base(q) /\ q.status = "resolving" /\ q.slot = "none" /\ q.ready = "none"
    BY AddedBase
  <2>3. PutOne(i, q)
    BY <2>1
  <2>. HIDE DEF q
  <2>4. row[i].ready = "none" /\ row[i].slot # "held"
    BY <1>0 DEF Base, Running
  <2>5. Calm(row[i], q) /\ Quiet(row[i], q)
    BY <1>0, <2>2, <2>4, NewQuiet DEF Calm, Claim
  <2>. QED  BY <2>2, <2>3, <2>5 DEF Does
<1>2. CASE AddChild(i)
  <2>1. PICK a \in BOOLEAN :
          LET r == [New EXCEPT !.status = "queued", !.auto = a, !.resolved = TRUE]
          IN  ScheduleOne(i, IF a THEN Enqueue(i, r) ELSE r)
    BY <1>2 DEF AddChild
  <2>. DEFINE r == [New EXCEPT !.status = "queued", !.auto = a, !.resolved = TRUE]
              q == IF a THEN Enqueue(i, r) ELSE r
  <2>2. Base(q) /\ q.status = "queued"
    BY ChildBase
  <2>3. ScheduleOne(i, q)
    BY <2>1
  <2>. HIDE DEF q
  <2>. QED  BY <1>0, <2>2, <2>3, NewQuiet DEF Does
<1>. QED  BY <1>1, <1>2

LEMMA ResolvedDoes ==
  ASSUME IdleRows, NEW i \in Items, Resolved(i)
  PROVE  Does(i)
<1>1. PICK t \in row[i].tasks, o \in Outcomes :
        LET r == [row[i] EXCEPT !.tasks = @ \ {t}, !.resolving = FALSE]
        IN  IF r.status # "resolving" THEN PutOne(i, r)
            ELSE IF t = "doomed" THEN PutOne(i, CancelOne(r))
            ELSE ScheduleOne(i, OnOutcome(i, r, o))
  BY DEF Resolved
<1>. DEFINE r == [row[i] EXCEPT !.tasks = @ \ {t}, !.resolving = FALSE]
<1>2. Base(row[i])
  BY DEF IdleRows, Idle
<1>3. /\ r \in Row /\ r.status = row[i].status /\ r.auto = row[i].auto /\ r.ready = row[i].ready
      /\ r.timer = row[i].timer /\ r.hooks = row[i].hooks /\ r.slot = row[i].slot
      /\ r.jobs = row[i].jobs /\ ~r.resolving /\ r.resolved = row[i].resolved
  BY <1>2 DEF Base, Row
<1>4. /\ r.status # "resolving" => PutOne(i, r)
      /\ r.status = "resolving" => PutOne(i, CancelOne(r)) \/ ScheduleOne(i, OnOutcome(i, r, o))
  BY <1>1
<1>. HIDE DEF r
<1>5. CASE r.status # "resolving"
  <2>1. Base(r)
    BY <1>2, <1>3, <1>5 DEF Base, Known, Settled
  <2>2. Quiet(row[i], r) /\ Calm(row[i], r)
    BY <1>3, SameQuiet DEF Calm, Claim, Wanted
  <2>. QED  BY <1>4, <1>5, <2>1, <2>2 DEF Does
<1>6. CASE r.status = "resolving"
  <2>1. Answering(r)
    BY <1>2, <1>3, <1>6 DEF Answering, Base, Known, Statuses, Running
  <2>0. r.status \in Statuses \ Terminal
    BY <1>6 DEF Statuses, Terminal
  <2>2. CASE ScheduleOne(i, OnOutcome(i, r, o))
    <3>. DEFINE q == OnOutcome(i, r, o)
    <3>1. Base(q) /\ Quiet(r, q)
      BY <2>1, OutcomeKept, OutcomeQuiet DEF Kept
    <3>2. ScheduleOne(i, q)
      BY <2>2
    <3>. HIDE DEF q
    <3>3. Quiet(row[i], q)
      BY <1>3, <3>1 DEF Quiet, Fit, Rests, Parks, Seen, Parked, Ended
    <3>. QED  BY <3>1, <3>2, <3>3 DEF Does
  <2>3. CASE PutOne(i, CancelOne(r))
    <3>. DEFINE q == CancelOne(r)
    <3>1. Kept(r, q) /\ q.status = "canceled"
      BY <1>3, <2>0, <2>1, CancelKept DEF Answering
    <3>2. PutOne(i, q)
      BY <2>3
    <3>. HIDE DEF q
    <3>3. Quiet(row[i], q)
      BY <1>3, <2>0, <3>1, CancelledQuiet
    <3>4. Calm(row[i], q)
      BY <1>3, <2>1, <3>1 DEF Calm, Claim, Kept, Base, Answering
    <3>. QED  BY <3>1, <3>2, <3>3, <3>4 DEF Does, Kept
  <2>. QED  BY <1>4, <1>6, <2>2, <2>3
<1>. QED  BY <1>5, <1>6

LEMMA ReportDoes ==
  ASSUME IdleRows, NEW i \in Items, JobOver(i) \/ HandleFinished(i) \/ HandleFailed(i)
  PROVE  Does(i)
<1>. DEFINE r == row[i]
            q == Reported(row[i])
<1>1. Base(r)
  BY DEF IdleRows, Idle
<1>2. CASE JobOver(i)
  <2>1. r.jobs > 0
    BY <1>2 DEF JobOver
  <2>2. CASE Settled(r) /\ ScheduleOne(i, Release(i, r))
    <3>. DEFINE e == Release(i, r)
    <3>1. Base(e) /\ Quiet(r, e)
      BY <1>1, <2>1, <2>2, ReleaseKept, ReleaseQuiet DEF Kept
    <3>2. ScheduleOne(i, e)
      BY <2>2
    <3>. HIDE DEF e
    <3>. QED  BY <3>1, <3>2 DEF Does
  <2>3. CASE ~Settled(r) /\ (~Known(r) \/ Ended(r))
    <3>1. r.slot = "held" /\ r.status \in Running
      BY <1>1, <2>1, <2>3 DEF Base, Row, Settled
    <3>. QED  BY <2>3, <3>1 DEF Known, Ended, Statuses, Running, Terminal
  <2>. QED  BY <1>2, <2>2, <2>3 DEF JobOver
<1>3. CASE HandleFinished(i) \/ HandleFailed(i)
  <2>1. r.jobs > 0 /\ ~Settled(r) /\ Known(r) /\ ~Ended(r)
    BY <1>3 DEF HandleFinished, HandleFailed, Unsettled
  <2>2. /\ q \in Row /\ q.status \in Running /\ q.slot = "none" /\ q.jobs = 0 /\ ~q.hooks
        /\ q.ready = "none" /\ ~q.resolving
    BY <1>1, <2>1, UnsettledRow
  <2>3. /\ \A delivered \in BOOLEAN : Quiet(r, OpenWindow(q, delivered))
        /\ Quiet(r, FinaliseSuccess(q))
        /\ \A s \in {"canceled", "error"} : Quiet(r, Terminate(q, s))
        /\ Quiet(r, ArmAutoRetry(q)) /\ Quiet(r, WaitForVideo(q))
    BY <1>1, <2>1, ReportQuiet
  <2>4. \/ \E delivered \in BOOLEAN : ScheduleOne(i, OpenWindow(q, delivered))
        \/ ScheduleOne(i, FinaliseSuccess(q))
        \/ \E s \in {"canceled", "error"} : ScheduleOne(i, Terminate(q, s))
        \/ ScheduleOne(i, ArmAutoRetry(q))
        \/ ScheduleOne(i, WaitForVideo(q))
    BY <1>3 DEF HandleFinished, HandleFailed
  <2>. HIDE DEF q
  <2>5. ASSUME NEW delivered \in BOOLEAN, ScheduleOne(i, OpenWindow(q, delivered))
        PROVE  Does(i)
    BY <2>2, <2>3, <2>5, OpenWindowKept DEF Kept, Does
  <2>6. CASE ScheduleOne(i, FinaliseSuccess(q))
    BY <2>2, <2>3, <2>6, FinaliseKept DEF Kept, Does
  <2>7. ASSUME NEW s \in {"canceled", "error"}, ScheduleOne(i, Terminate(q, s))
        PROVE  Does(i)
    <3>1. q.status \in Statuses \ Terminal /\ q.slot # "held" /\ q.jobs = IF q.slot = "none" THEN 0 ELSE 1
      BY <2>2 DEF Statuses, Running, Terminal
    <3>2. Kept(q, Terminate(q, s))
      BY <2>2, <3>1, EndKept
    <3>. QED  BY <2>3, <2>7, <3>2 DEF Kept, Does
  <2>8. CASE ScheduleOne(i, ArmAutoRetry(q))
    BY <2>2, <2>3, <2>8, AutoRetryKept DEF Kept, Does
  <2>9. CASE ScheduleOne(i, WaitForVideo(q))
    <3>1. q.status \in Statuses /\ q.slot # "held" /\ q.jobs = IF q.slot = "none" THEN 0 ELSE 1
      BY <2>2 DEF Statuses
    <3>2. Kept(q, WaitForVideo(q))
      BY <2>2, <3>1, WaitKept
    <3>. QED  BY <2>3, <2>9, <3>2 DEF Kept, Does
  <2>. QED  BY <2>4, <2>5, <2>6, <2>7, <2>8, <2>9
<1>. QED  BY <1>2, <1>3

(* Quiet looks at what is seen of the row before.                          *)
LEMMA QuietOn ==
  ASSUME NEW r, NEW q, q.status = r.status, q.auto = r.auto, NEW p, Quiet(q, p)
  PROVE  Quiet(r, p)
BY DEF Quiet, Fit, Rests, Parks, Seen, Parked, Ended

(* Frames, hook answers, timers: what only changes one row a little.       *)
LEMMA RowDoes ==
  ASSUME IdleRows, NEW i \in Items,
         \/ ResolveAborted(i) \/ EmitStage(i) \/ HandleStage(i) \/ WatchdogFires(i) \/ HandleCut(i)
         \/ HooksFinished(i) \/ ExpireHooks(i) \/ ReleaseRetry(i) \/ VideoDue(i)
  PROVE  Does(i)
<1>. DEFINE r == row[i]
<1>1. Idle(r) /\ Base(r) /\ r \in Row
  BY DEF IdleRows, Idle, Base
<1>2. ASSUME NEW q, PutOne(i, q), Base(q), Quiet(r, q), Calm(r, q)
      PROVE  Does(i)
  BY <1>2 DEF Does
<1>3. CASE ResolveAborted(i)
  <2>1. PICK t \in r.tasks \ {"own"} : PutOne(i, [r EXCEPT !.tasks = @ \ {t}])
    BY <1>3 DEF ResolveAborted
  <2>. DEFINE q == [r EXCEPT !.tasks = @ \ {t}]
  <2>2. Base(q) /\ Quiet(r, q) /\ Calm(r, q)
    BY <1>1, AlikeDoes DEF Row
  <2>. QED  BY <1>2, <2>1, <2>2
<1>4. CASE EmitStage(i)
  <2>1. PICK s \in Running : PutOne(i, [r EXCEPT !.frames = @ \cup {s}])
    BY <1>4 DEF EmitStage
  <2>. DEFINE q == [r EXCEPT !.frames = @ \cup {s}]
  <2>2. Base(q) /\ Quiet(r, q) /\ Calm(r, q)
    BY <1>1, AlikeDoes DEF Row
  <2>. QED  BY <1>2, <2>1, <2>2
<1>5. CASE HandleStage(i)
  <2>1. PICK s \in r.frames :
          LET q == [r EXCEPT !.frames = @ \ {s}]
          IN  PutOne(i, IF StageRefused(q) THEN q ELSE Write(q, Clamped(s, q.status), q.auto))
    BY <1>5 DEF HandleStage
  <2>. DEFINE q == [r EXCEPT !.frames = @ \ {s}]
              o == IF StageRefused(q) THEN q ELSE Write(q, Clamped(s, q.status), q.auto)
  <2>2. Base(o) /\ Quiet(r, o)
    BY <1>1, StageKept, StageQuiet DEF Kept
  <2>3. PutOne(i, o)
    BY <2>1
  <2>4. Calm(r, o)
    <3>1. /\ q \in Row /\ q.status = r.status /\ q.auto = r.auto /\ q.ready = r.ready /\ q.timer = r.timer
          /\ q.slot = r.slot /\ q.resolved = r.resolved
      BY <1>1 DEF Row
    <3>2. o = q \/ o = [q EXCEPT !.status = Clamped(s, q.status), !.auto = q.auto]
      BY DEF Write
    <3>. HIDE DEF q, o
    <3>3. o.ready = r.ready /\ o.slot = r.slot /\ o.auto = r.auto /\ o.timer = r.timer /\ o.resolved = r.resolved
      BY <3>1, <3>2 DEF Row
    <3>. QED  BY <1>1, <3>3 DEF Calm, Claim, Wanted, Base
  <2>. HIDE DEF o
  <2>. QED  BY <1>2, <2>2, <2>3, <2>4
<1>6. CASE WatchdogFires(i)
  <2>. DEFINE q == [r EXCEPT !.cut = TRUE]
  <2>1. PutOne(i, q)
    BY <1>6 DEF WatchdogFires
  <2>2. Base(q) /\ Quiet(r, q) /\ Calm(r, q)
    BY <1>1, AlikeDoes DEF Row
  <2>. QED  BY <1>2, <2>1, <2>2
<1>7. CASE HandleCut(i)
  <2>. DEFINE q == [r EXCEPT !.cut = FALSE]
              o == IF Known(q) THEN CancelRow(i, q) ELSE q
  <2>1. ScheduleOne(i, o)
    BY <1>7 DEF HandleCut
  <2>2. Base(q) /\ Quiet(r, q) /\ q.status = r.status /\ q.auto = r.auto
    BY <1>1, AlikeDoes DEF Row
  <2>. HIDE DEF q
  <2>3. Base(o) /\ Quiet(r, o)
    BY <2>2, CancelRowKept, CancelRowQuiet, QuietOn DEF Kept
  <2>. HIDE DEF o
  <2>. QED  BY <2>1, <2>3 DEF Does
<1>8. CASE HooksFinished(i)
  <2>1. \/ PutOne(i, Answered([r EXCEPT !.own = FALSE]))
        \/ r.stale > 0 /\ PutOne(i, Answered([r EXCEPT !.stale = @ - 1]))
    BY <1>8 DEF HooksFinished
  <2>2. ASSUME NEW q, q \in {[r EXCEPT !.own = FALSE], [r EXCEPT !.stale = @ - 1]}, q \in Row,
               PutOne(i, Answered(q))
        PROVE  Does(i)
    <3>1. Base(q) /\ q.status = r.status /\ q.auto = r.auto /\ Calm(r, q)
      BY <1>1, <2>2, AlikeDoes DEF Row
    <3>2. Base(Answered(q)) /\ Quiet(r, Answered(q))
      BY <3>1, AnsweredKept, AnsweredQuiet, QuietOn DEF Kept
    <3>3. Calm(r, Answered(q))
      <4>1. CASE q.hooks
        <5>1. Answered(q).status = "finished" /\ Answered(q).ready = "none"
          <6>1. CloseWindow(q) \in Row /\ CloseWindow(q).status \in Running /\ Answered(q) = FinaliseSuccess(CloseWindow(q))
            BY <3>1, <4>1 DEF Base, Row, CloseWindow, Running, Answered
          <6>. QED  BY <3>2, <6>1, FinaliseSees DEF Base
        <5>2. q.ready = "none" /\ q.slot = "none"
          BY <3>1, <4>1 DEF Base
        <5>. QED  BY <3>1, <5>1, <5>2 DEF Calm, Claim
      <4>2. CASE ~q.hooks
        BY <3>1, <4>2 DEF Answered
      <4>. QED  BY <4>1, <4>2
    <3>. QED  BY <1>2, <2>2, <3>2, <3>3
  <2>3. [r EXCEPT !.own = FALSE] \in Row /\ (r.stale > 0 => [r EXCEPT !.stale = @ - 1] \in Row)
    <3>1. r.stale > 0 => r.stale - 1 \in 0..MaxStale
      BY <1>1, BoundAssumption DEF Row
    <3>. QED  BY <1>1, <3>1 DEF Row
  <2>. QED  BY <2>1, <2>2, <2>3
<1>9. CASE ExpireHooks(i)
  <2>. DEFINE q == FinaliseSuccess(CloseWindow(r))
  <2>1. r.hooks /\ PutOne(i, q)
    BY <1>9 DEF ExpireHooks
  <2>2. Base(q) /\ Quiet(r, q)
    BY <1>1, <2>1, AnsweredKept, AnsweredQuiet DEF Kept
  <2>3. q.status = "finished"
    <3>1. CloseWindow(r) \in Row /\ CloseWindow(r).status \in Running
      BY <1>1, <2>1 DEF Base, Row, CloseWindow, Running
    <3>. QED  BY <3>1, FinaliseSees
  <2>. HIDE DEF q
  <2>4. Calm(r, q)
    BY <1>1, <2>1, <2>2, <2>3 DEF Calm, Claim, Base
  <2>. QED  BY <1>2, <2>1, <2>2, <2>4
<1>10. CASE ReleaseRetry(i)
  <2>. DEFINE q == ReleaseOne(i, r)
  <2>1. ScheduleOne(i, q)
    BY <1>10 DEF ReleaseRetry
  <2>2. Base(q) /\ Quiet(r, q)
    BY <1>1, ReleaseOneKept, ReleaseOneQuiet DEF Kept
  <2>. HIDE DEF q
  <2>. QED  BY <2>1, <2>2 DEF Does
<1>11. CASE VideoDue(i)
  <2>. DEFINE q == [r EXCEPT !.wait = FALSE]
  <2>1. PutOne(i, q)
    BY <1>11 DEF VideoDue
  <2>2. Base(q) /\ Quiet(r, q) /\ Calm(r, q)
    BY <1>1, AlikeDoes DEF Row
  <2>. QED  BY <1>2, <2>1, <2>2
<1>. QED  BY <1>3, <1>4, <1>5, <1>6, <1>7, <1>8, <1>9, <1>10, <1>11

----------------------------------------------------------------------------
(* Handlers that change several rows.                                      *)

(* A command that is neither a start nor a retry, for the rows it names.   *)
LEMMA CommandHandles ==
  ASSUME IdleRows, NEW S \in SUBSET Items, Pause(S) \/ Cancel(S) \/ Delete(S)
  PROVE  \E f : Handles(f) /\ \A j \in Items : Quiet(row[j], f[j])
<1>1. \A j \in Items : Base(row[j])
  BY DEF IdleRows, Idle
<1>2. CASE Pause(S)
  <2>. DEFINE f == Change(S, PauseOne)
  <2>1. \A j \in Items : Base(f[j]) /\ Quiet(row[j], f[j])
    BY <1>1, PauseKept, PauseQuiet, SameQuiet DEF Change, Kept
  <2>2. Schedule(f)
    BY <1>2 DEF Pause
  <2>. HIDE DEF f
  <2>. QED  BY <2>1, <2>2 DEF Handles
<1>3. CASE Cancel(S)
  <2>. DEFINE f == Change(S, CancelRow)
  <2>1. \A j \in Items : Base(f[j]) /\ Quiet(row[j], f[j])
    BY <1>1, CancelRowKept, CancelRowQuiet, SameQuiet DEF Change, Kept
  <2>2. Schedule(f)
    BY <1>3 DEF Cancel
  <2>. HIDE DEF f
  <2>. QED  BY <2>1, <2>2 DEF Handles
<1>4. CASE Delete(S)
  <2>. DEFINE f == Change(S, DeleteRow)
  <2>1. \A j \in Items : Base(f[j]) /\ Quiet(row[j], f[j])
    BY <1>1, DeleteKept, DeleteQuiet, SameQuiet DEF Change, Kept
  <2>2. Schedule(f)
    BY <1>4 DEF Delete
  <2>. HIDE DEF f
  <2>. QED  BY <2>1, <2>2 DEF Handles
<1>. QED  BY <1>2, <1>3, <1>4

(* Rows that are over are removed.                                         *)
LEMMA RemoveHandles ==
  ASSUME IdleRows, NEW S, \A i \in S \cap Items : Ended(row[i]), Remove(S)
  PROVE  \E f : Handles(f) /\ \A j \in Items : Quiet(row[j], f[j])
<1>. DEFINE f == [j \in Items |-> IF j \in S THEN Forget(row[j]) ELSE row[j]]
<1>1. Put(f)
  BY DEF Remove
<1>2. ASSUME NEW j \in Items
      PROVE  Base(f[j]) /\ Quiet(row[j], f[j]) /\ Calm(row[j], f[j])
  <2>1. Base(row[j])
    BY DEF IdleRows, Idle
  <2>2. CASE j \in S
    <3>. DEFINE q == Forget(row[j])
    <3>1. row[j].status \in Terminal /\ row[j].slot # "held" /\ row[j].ready = "none" /\ Known(row[j])
      BY <2>1, <2>2 DEF Ended, Base, Terminal, Running, Known, Statuses
    <3>2. Base(q) /\ q.status = "gone"
      BY <2>1, <3>1, ForgetKept, ForgetSees DEF Kept, Base
    <3>3. f[j] = q
      BY <2>2
    <3>. HIDE DEF q, f
    <3>4. Quiet(row[j], q)
      BY <3>1, <3>2, GoneQuiet
    <3>5. Calm(row[j], q)
      BY <3>1, <3>2 DEF Calm, Claim, Base
    <3>. QED  BY <3>2, <3>3, <3>4, <3>5
  <2>3. CASE j \notin S
    BY <2>1, <2>3, SameQuiet, SameCalm
  <2>. QED  BY <2>2, <2>3
<1>. HIDE DEF f
<1>. QED  BY <1>1, <1>2 DEF Handles

(* A cancel of every resolution.                                           *)
LEMMA CancelResolveHandles ==
  ASSUME IdleRows, CancelResolve
  PROVE  \E f : Handles(f) /\ \A j \in Items : Quiet(row[j], f[j])
<1>. DEFINE Op(i) == LET r == [row[i] EXCEPT !.tasks = Condemned(@)]
                     IN  IF r.resolving THEN CancelOne(r) ELSE r
            f == [i \in Items |-> Op(i)]
<1>1. Schedule(f)
  BY DEF CancelResolve
<1>2. ASSUME NEW i \in Items
      PROVE  Base(Op(i)) /\ Quiet(row[i], Op(i))
  <2>. DEFINE r == [row[i] EXCEPT !.tasks = Condemned(@)]
  <2>1. Base(row[i])
    BY DEF IdleRows, Idle
  <2>2. Condemned(row[i].tasks) \in SUBSET Task
    BY DEF Condemned, Task
  <2>3. /\ r \in Row /\ r.status = row[i].status /\ r.auto = row[i].auto /\ r.ready = row[i].ready
        /\ r.timer = row[i].timer /\ r.hooks = row[i].hooks /\ r.slot = row[i].slot
        /\ r.jobs = row[i].jobs /\ r.resolving = row[i].resolving /\ r.resolved = row[i].resolved
    BY <2>1, <2>2 DEF Base, Row
  <2>4. Op(i) = IF r.resolving THEN CancelOne(r) ELSE r
    OBVIOUS
  <2>. HIDE DEF r, Op
  <2>5. CASE r.resolving
    <3>1. r.status \in Statuses \ Terminal /\ row[i].status \in Statuses \ Terminal
      BY <2>1, <2>3, <2>5 DEF Base, Statuses, Terminal
    <3>2. r.jobs = (IF r.slot = "none" THEN 0 ELSE 1) /\ (r.slot # "none" => r.resolved)
      BY <2>1, <2>3, <3>1 DEF Base, Known
    <3>3. Base(Op(i)) /\ Op(i).status = "canceled"
      BY <2>3, <2>4, <2>5, <3>1, <3>2, CancelKept DEF Kept
    <3>. QED  BY <3>1, <3>3, CancelledQuiet
  <2>6. CASE ~r.resolving
    <3>1. Base(r)
      BY <2>1, <2>3, <2>6 DEF Base, Known, Settled
    <3>. QED  BY <2>3, <2>4, <2>6, <3>1, SameQuiet
  <2>. QED  BY <2>5, <2>6
<1>. HIDE DEF Op
<1>3. Handles(f)
  BY <1>1, <1>2 DEF Handles
<1>. QED  BY <1>2, <1>3

----------------------------------------------------------------------------
(* A step of the running process.                                          *)

Revived(j)  == \E S \in SUBSET Items : j \in S /\ (Start(S) \/ Retry(S))
Unparked(j) == \E S \in SUBSET Items : j \in S /\ Start(S)

(* What the step does to a row is a move; it revives or unparks the row    *)
(* only as a user's command on it.                                         *)
Heeds(j, q) ==
  /\ Fit(row[j], q)
  /\ Rests(row[j], q) \/ Revived(j)
  /\ Parks(row[j], q) \/ Unparked(j)

LEMMA QuietHeeds == ASSUME NEW j, NEW q, Quiet(row[j], q) PROVE Heeds(j, q)
BY DEF Quiet, Heeds

LEMMA StartHandles ==
  ASSUME IdleRows, NEW S \in SUBSET Items, Start(S)
  PROVE  \E f : Handles(f) /\ \A j \in Items : Heeds(j, f[j])
<1>. DEFINE f == Change(S, StartOne)
<1>1. ASSUME NEW j \in Items PROVE Base(f[j]) /\ Heeds(j, f[j])
  <2>1. Base(row[j])
    BY DEF IdleRows, Idle
  <2>2. CASE j \in S /\ Known(row[j])
    <3>1. f[j] = StartOne(j, row[j])
      BY <2>2 DEF Change
    <3>2. Unparked(j) /\ Revived(j)
      BY <2>2 DEF Unparked, Revived
    <3>. QED  BY <2>1, <2>2, <3>1, <3>2, StartKept, StartSees DEF Kept, Heeds
  <2>3. CASE ~(j \in S /\ Known(row[j]))
    <3>1. f[j] = row[j]
      BY <2>3 DEF Change
    <3>. QED  BY <2>1, <3>1, SameQuiet, QuietHeeds
  <2>. QED  BY <2>2, <2>3
<1>2. Schedule(f)
  BY DEF Start
<1>. HIDE DEF f
<1>. QED  BY <1>1, <1>2 DEF Handles

LEMMA RetryHandles ==
  ASSUME IdleRows, NEW S \in SUBSET Items, Retry(S)
  PROVE  \E f : Handles(f) /\ \A j \in Items : Heeds(j, f[j])
<1>. DEFINE f == Change(S, RetryRow)
<1>1. ASSUME NEW j \in Items PROVE Base(f[j]) /\ Heeds(j, f[j])
  <2>1. Base(row[j])
    BY DEF IdleRows, Idle
  <2>2. CASE j \in S /\ Known(row[j])
    <3>1. f[j] = RetryRow(j, row[j])
      BY <2>2 DEF Change
    <3>2. Revived(j)
      BY <2>2 DEF Revived
    <3>. QED  BY <2>1, <2>2, <3>1, <3>2, RetryRowKept, RetryRowFits DEF Kept, Heeds
  <2>3. CASE ~(j \in S /\ Known(row[j]))
    <3>1. f[j] = row[j]
      BY <2>3 DEF Change
    <3>. QED  BY <2>1, <3>1, SameQuiet, QuietHeeds
  <2>. QED  BY <2>2, <2>3
<1>2. Schedule(f)
  BY DEF Retry
<1>. HIDE DEF f
<1>. QED  BY <1>1, <1>2 DEF Handles

(* Every step between two commands of a running process is a handler that  *)
(* heeds the user, or leaves the rows alone.                               *)
LEMMA LiveHandles ==
  ASSUME Orderly, IInv, Next, up, up'
  PROVE  \/ \E f : Handles(f) /\ \A j \in Items : Heeds(j, f[j])
         \/ UNCHANGED row
<1>0. IdleRows
  BY DEF IInv, IdleRows
<1>1. ASSUME NEW i \in Items,
             \/ Add(i) \/ AddChild(i)
             \/ Resolved(i) \/ ResolveAborted(i)
             \/ EmitStage(i) \/ HandleStage(i)
             \/ JobOver(i) \/ HandleFinished(i) \/ HandleFailed(i)
             \/ WatchdogFires(i) \/ HandleCut(i) \/ HooksFinished(i) \/ ExpireHooks(i)
             \/ ReleaseRetry(i) \/ VideoDue(i)
      PROVE  \E f : Handles(f) /\ \A j \in Items : Heeds(j, f[j])
  <2>1. Does(i)
    BY <1>0, <1>1, AddDoes, ResolvedDoes, ReportDoes, RowDoes
  <2>. QED  BY <1>0, <2>1, DoesHandles, QuietHeeds
<1>2. CASE Command
  <2>1. PICK S \in SUBSET Items : Start(S) \/ Pause(S) \/ Cancel(S) \/ Retry(S) \/ Delete(S)
    BY <1>2 DEF Command
  <2>2. CASE Pause(S) \/ Cancel(S) \/ Delete(S)
    BY <1>0, <2>2, CommandHandles, QuietHeeds
  <2>. QED  BY <1>0, <2>1, <2>2, StartHandles, RetryHandles
<1>3. CASE Clear
  BY <1>0, <1>3, RemoveHandles, QuietHeeds DEF Clear
<1>4. CASE CancelResolve
  BY <1>0, <1>4, CancelResolveHandles, QuietHeeds
<1>5. CASE SweepClears
  <2>1. PICK S \in SUBSET Items : (\A i \in S : Ended(row[i])) /\ Remove(S)
    BY <1>5 DEF SweepClears, Orderly
  <2>. QED  BY <1>0, <2>1, RemoveHandles, QuietHeeds
<1>6. CASE ProviderHealth
  BY <1>6 DEF ProviderHealth
<1>7. ~Shutdown /\ ~Crash /\ ~Recover
  BY DEF Shutdown, Crash, Recover, Down
<1>. QED  BY <1>1, <1>2, <1>3, <1>4, <1>5, <1>6, <1>7 DEF Next

(* So much for the rows of a running process.                              *)
LEMMA RunningStep ==
  ASSUME Orderly, IInv, Next, up, up', NEW j \in Items
  PROVE  /\ Moved(row[j], row'[j])
         /\ Rests(row[j], row'[j]) \/ Revived(j)
         /\ Parks(row[j], row'[j]) \/ Unparked(j)
<1>0. row[j] \in Row
  BY DEF IInv
<1>1. CASE UNCHANGED row
  <2>1. Quiet(row[j], row'[j])
    BY <1>1, SameQuiet
  <2>. QED  BY <1>1, <2>1 DEF Quiet, Moved
<1>2. CASE \E f : Handles(f) /\ \A i \in Items : Heeds(i, f[i])
  <2>1. PICK f : Handles(f) /\ \A i \in Items : Heeds(i, f[i])
    BY <1>2
  <2>2. (\A i \in Items : Base(f[i])) /\ (Put(f) \/ Schedule(f))
    BY <2>1 DEF Handles
  <2>3. /\ Fit(row[j], f[j]) => Moved(row[j], row'[j])
        /\ Rests(row[j], f[j]) => Rests(row[j], row'[j])
        /\ Parks(row[j], f[j]) => Parks(row[j], row'[j])
    BY <1>0, <2>2, HandlerStep
  <2>. QED  BY <2>1, <2>3 DEF Heeds
<1>. QED  BY <1>1, <1>2, LiveHandles

----------------------------------------------------------------------------
(* Going down and coming back.                                             *)

(* Besides the two orders that keep the engine's books from being kept, a  *)
(* shutdown within the grace of a settled job is left out here: it hands   *)
(* over a row the user had cancelled or parked.                            *)
Graceful == Orderly /\ "shutdown_in_grace" \notin Faults

LEMMA PersistedSees ==
  ASSUME NEW r \in Row
  PROVE  Persisted(r).status = r.status /\ Persisted(r).auto = r.auto
<1>1. New \in Row
  BY NewRow
<1>. HIDE DEF New
<1>. QED  BY <1>1 DEF Persisted, Row

(* What is handed over was resolving, or running.                          *)
LEMMA HandedOverSees ==
  ASSUME NEW r, Base(r), ~Settled(r), NEW resume \in BOOLEAN, NEW h, h = HandedOver(r, resume)
  PROVE  h = r \/ (r.status \in Running \cup {"resolving"} /\ h.status = "queued")
<1>1. CASE r.slot # "none"
  <2>1. r.slot = "held" /\ r.status \in Running
    BY <1>1 DEF Base, Row, Settled
  <2>2. HandedOver(r, resume) = [r EXCEPT !.status = "queued", !.auto = resume]
    BY <1>1 DEF HandedOver
  <2>. QED  BY <2>1, <2>2 DEF Base, Row
<1>2. CASE r.slot = "none" /\ r.resolving
  <2>1. HandedOver(r, resume) = [r EXCEPT !.status = "queued", !.auto = r.auto /\ resume]
    BY <1>2 DEF HandedOver
  <2>. QED  BY <1>2, <2>1 DEF Base, Row
<1>3. CASE r.slot = "none" /\ ~r.resolving
  BY <1>3 DEF HandedOver
<1>. QED  BY <1>1, <1>2, <1>3

(* A process that ends hands a row on as it is, or as interrupted.         *)
LEMMA EndingStep ==
  ASSUME Graceful, IInv, Shutdown \/ Crash, NEW j \in Items
  PROVE  /\ up /\ ~up'
         /\ \/ Seen(row'[j]) = Seen(row[j])
            \/ Seen(row[j]) \in Running \cup {"resolving"} /\ Seen(row'[j]) \in {"queued", "parked"}
<1>0. row[j] \in Row /\ up /\ ~up' /\ Base(row[j])
  BY DEF IInv, Shutdown, Crash, Down, Idle
<1>1. CASE Crash
  <2>1. row'[j] = Persisted(row[j])
    BY <1>1 DEF Crash
  <2>. QED  BY <1>0, <2>1, PersistedSees DEF Seen, Parked
<1>2. CASE Shutdown
  <2>. DEFINE lost == \E i \in Items : ~Known(row[i]) /\ (row[i].slot # "none" \/ row[i].resolving)
  <2>1. PICK policy \in Policies :
          row' = [i \in Items |-> Persisted(IF lost THEN row[i] ELSE HandedOver(row[i], policy = "resume"))]
    BY <1>2 DEF Shutdown
  <2>. DEFINE resume == policy = "resume"
              h == IF lost THEN row[j] ELSE HandedOver(row[j], resume)
  <2>2. row'[j] = Persisted(h)
    BY <2>1
  <2>3. ~Settled(row[j])
    BY <1>2 DEF Shutdown, Graceful
  <2>4. resume \in BOOLEAN
    OBVIOUS
  <2>. HIDE DEF lost, resume
  <2>5. h \in Row
    BY <1>0, <2>4, HandedOverRow
  <2>6. h = row[j] \/ (row[j].status \in Running \cup {"resolving"} /\ h.status = "queued")
    <3>. DEFINE g == HandedOver(row[j], resume)
    <3>1. g = row[j] \/ (row[j].status \in Running \cup {"resolving"} /\ g.status = "queued")
      BY <1>0, <2>3, <2>4, HandedOverSees
    <3>2. h = row[j] \/ h = g
      OBVIOUS
    <3>. HIDE DEF g, h
    <3>. QED  BY <3>1, <3>2
  <2>. HIDE DEF h
  <2>7. row'[j].status = h.status /\ row'[j].auto = h.auto
    BY <2>2, <2>5, PersistedSees
  <2>. QED  BY <1>0, <2>6, <2>7 DEF Seen, Parked, Running
<1>. QED  BY <1>1, <1>2

(* What a boot finds interrupted or waiting is listed, resolved again or   *)
(* parked; a parked row stays parked, and what is over stays over.         *)
LEMMA RequeuedSees ==
  ASSUME NEW i \in Items, NEW r, Left(r), NEW resume \in BOOLEAN,
         NEW q, q = Requeued(i, Recovered(r, resume))
  PROVE  \/ Seen(q) = Seen(r)
         \/ /\ Seen(r) \in Running \cup {"resolving", "queued"}
            /\ Seen(q) \in {"resolving", "parked", "queued"}
<1>. DEFINE p == Recovered(r, resume)
<1>1. Recoverable(p) /\ p \in Row
  BY RecoveredRow DEF Recoverable, Left
<1>2. \/ r.status \in Running \cup {"resolving"} /\ p.status = "queued"
      \/ r.status \notin Running \cup {"resolving"} /\ p.status = r.status /\ p.auto = r.auto
  <2>1. CASE r.status = "resolving"
    <3>. DEFINE a == r.auto /\ resume
    <3>1. p = [r EXCEPT !.status = "queued", !.auto = a]
      BY <2>1 DEF Recovered, Running, Ended, Terminal
    <3>. HIDE DEF p, a
    <3>. QED  BY <2>1, <3>1 DEF Left, Row
  <2>2. CASE r.status \in Running
    <3>1. p = [r EXCEPT !.status = "queued", !.auto = resume, !.attempt = Bump(r.attempt)]
      BY <2>2 DEF Recovered, Running, Ended, Terminal
    <3>. HIDE DEF p
    <3>. QED  BY <2>2, <3>1 DEF Left, Row
  <2>3. CASE Ended(r)
    <3>. DEFINE c == r.clear \/ Clearing
    <3>1. p = [r EXCEPT !.clear = c]
      BY <2>3 DEF Recovered, Running, Ended, Terminal
    <3>. HIDE DEF p, c
    <3>. QED  BY <2>3, <3>1 DEF Left, Row, Ended, Running, Terminal
  <2>4. CASE r.status \notin Running \cup {"resolving"} /\ ~Ended(r)
    BY <2>4 DEF Recovered
  <2>. QED  BY <2>1, <2>2, <2>3, <2>4
<1>3. q = Requeued(i, p)
  OBVIOUS
<1>. HIDE DEF p
<1>4. CASE p.status # "queued" \/ ~p.auto
  <2>1. q = p
    BY <1>3, <1>4 DEF Requeued
  <2>. QED  BY <1>2, <1>4, <2>1 DEF Seen, Parked, Running
<1>5. CASE p.status = "queued" /\ p.auto /\ p.wait
  <2>1. q = [p EXCEPT !.timer = TRUE]
    BY <1>3, <1>5 DEF Requeued
  <2>2. q.status = "queued" /\ q.auto
    BY <1>1, <1>5, <2>1 DEF Row
  <2>. QED  BY <1>2, <1>5, <2>2 DEF Seen, Parked, Running
<1>6. CASE p.status = "queued" /\ p.auto /\ ~p.wait
  <2>1. q = IF p.resolved THEN Enqueue(i, p) ELSE RestartResolution(p)
    BY <1>3, <1>6 DEF Requeued
  <2>2. Listable(p)
    BY <1>1, <1>6 DEF Recoverable, Left, Listable
  <2>3. (q.status = "queued" /\ q.auto = p.auto) \/ q.status = "resolving"
    BY <2>1, <2>2, ListSees
  <2>. QED  BY <1>2, <1>6, <2>3 DEF Seen, Parked, Running
<1>. QED  BY <1>4, <1>5, <1>6

LEMMA BootStep ==
  ASSUME IInv, Recover, NEW j \in Items
  PROVE  /\ ~up /\ up'
         /\ row'[j] \in Row
         /\ \/ Seen(row'[j]) = Seen(row[j])
            \/ /\ Seen(row[j]) \in Running \cup {"resolving", "queued"}
               /\ Seen(row'[j]) \in {"resolving", "parked", "queued", "preparing", "error"}
<1>1. PICK policy \in Policies :
        Schedule([i \in Items |-> Requeued(i, Recovered(row[i], policy = "resume"))])
  BY DEF Recover
<1>. DEFINE resume == policy = "resume"
            f == [i \in Items |-> Requeued(i, Recovered(row[i], resume))]
<1>2. resume \in BOOLEAN /\ Schedule(f)
  BY <1>1
<1>. HIDE DEF resume
<1>3. \A i \in Items : Left(row[i])
  BY DEF IInv, Recover
<1>4. \A i \in Items : Base(f[i])
  BY <1>2, <1>3, RecoveredRow, RequeuedBase
<1>5. \/ Seen(f[j]) = Seen(row[j])
      \/ /\ Seen(row[j]) \in Running \cup {"resolving", "queued"}
         /\ Seen(f[j]) \in {"resolving", "parked", "queued"}
  BY <1>2, <1>3, RequeuedSees
<1>. HIDE DEF f
<1>6. row'[j] \in Row /\ Later(f[j], row'[j])
  BY <1>2, <1>4, HandlerLater
<1>7. ~up /\ up'
  BY DEF Recover
<1>. QED  BY <1>5, <1>6, <1>7 DEF Later

(* Every step, from a running process or to one.                           *)
LEMMA StepKinds ==
  ASSUME [Next]_vars, IInv
  PROVE  \/ up /\ up' /\ Next
         \/ Shutdown \/ Crash \/ Recover
         \/ UNCHANGED vars
<1>1. ASSUME NEW i \in Items,
             \/ Add(i) \/ AddChild(i)
             \/ Resolved(i) \/ ResolveAborted(i)
             \/ EmitStage(i) \/ HandleStage(i)
             \/ JobOver(i) \/ HandleFinished(i) \/ HandleFailed(i)
             \/ WatchdogFires(i) \/ HandleCut(i) \/ HooksFinished(i) \/ ExpireHooks(i)
             \/ ReleaseRetry(i) \/ VideoDue(i)
      PROVE  Live
  BY <1>1 DEF Add, AddChild, Resolved, ResolveAborted, EmitStage, HandleStage, JobOver, HandleFinished,
              HandleFailed, Unsettled, WatchdogFires, HandleCut, HooksFinished, ExpireHooks, ReleaseRetry,
              VideoDue
<1>2. Command \/ Clear \/ CancelResolve \/ SweepClears => Live
  BY DEF Command, Start, Pause, Cancel, Retry, Delete, Clear, CancelResolve, SweepClears
<1>3. Live \/ ProviderHealth => up /\ up'
  BY DEF Live, ProviderHealth
<1>. QED  BY <1>1, <1>2, <1>3 DEF Next

----------------------------------------------------------------------------
(* Whatever a step is, it revives and unparks nothing on its own.          *)
LEMMA AnyStep ==
  ASSUME Graceful, IInv, IInv', [Next]_vars, NEW j \in Items
  PROVE  /\ Rests(row[j], row'[j]) \/ Revived(j)
         /\ Parks(row[j], row'[j]) \/ Unparked(j)
<1>0. row[j] \in Row /\ row'[j] \in Row
  BY DEF IInv
<1>1. CASE up /\ up' /\ Next
  BY <1>1, RunningStep DEF Graceful
<1>2. CASE Shutdown \/ Crash \/ Recover
  <2>1. \/ Seen(row'[j]) = Seen(row[j])
        \/ Seen(row[j]) \in Running \cup {"resolving", "queued"}
    BY <1>2, EndingStep, BootStep
  <2>2. Rests(row[j], row'[j]) /\ Parks(row[j], row'[j])
    BY <1>0, <2>1, SeenTells DEF Rests, Parks, Running, Terminal
  <2>. QED  BY <2>2
<1>3. CASE UNCHANGED vars
  BY <1>3, SameQuiet DEF vars, Quiet
<1>. QED  BY <1>1, <1>2, <1>3, StepKinds

(* What failed or was cancelled runs again only when a user says so: no    *)
(* order of late answers, timers, sweeps, crashes and boots revives it.    *)
THEOREM UserRevives == Graceful => (Spec => OnlyUserRevives)
<1>. SUFFICES ASSUME Graceful PROVE Spec => OnlyUserRevives
  OBVIOUS
<1>1. IInv /\ IInv' /\ [Next]_vars =>
        [\A i \in Items :
           Ended(row[i]) /\ Known(row'[i]) /\ ~Ended(row'[i])
             => \E S \in SUBSET Items : i \in S /\ (Start(S) \/ Retry(S))]_vars
  BY AnyStep DEF Rests, Revived, Known, Ended
<1>2. Spec => []IInv
  BY Invariance DEF Graceful
<1>. QED  BY <1>1, <1>2, PTL DEF Spec, OnlyUserRevives

(* A parked row stays parked until a user starts, cancels or removes it,   *)
(* across crashes and boots.                                               *)
THEOREM StartUnparks == Graceful => (Spec => OnlyStartUnparks)
<1>. SUFFICES ASSUME Graceful PROVE Spec => OnlyStartUnparks
  OBVIOUS
<1>1. IInv /\ IInv' /\ [Next]_vars =>
        [\A i \in Items :
           Parked(row[i]) /\ row'[i].status \notin {"canceled", "gone"} /\ ~Parked(row'[i])
             => \E S \in SUBSET Items : i \in S /\ Start(S)]_vars
  BY AnyStep DEF Parks, Unparked
<1>2. Spec => []IInv
  BY Invariance DEF Graceful
<1>. QED  BY <1>1, <1>2, PTL DEF Spec, OnlyStartUnparks

----------------------------------------------------------------------------
(* The engine implements the lifecycle.                                    *)

(* What is seen of a row is a node of it.                                  *)
LEMMA SeenType == \A r \in Row : Seen(r) \in L!Nodes
BY DEF Seen, Parked, Row, Statuses, Running, Terminal, L!Nodes, L!Jobs, L!Over

LEMMA InitMaps == Init => L!Init
BY DEF Init, L!Init, New, Seen, Parked

(* Every step of the engine is one of the lifecycle, or changes nothing    *)
(* that is seen.                                                           *)
LEMMA StepMaps ==
  ASSUME Graceful, IInv, IInv', [Next]_vars
  PROVE  [L!Next]_(L!vars)
<1>. DEFINE n == [i \in Items |-> Seen(row[i])]
            m == [i \in Items |-> Seen(row'[i])]
<1>1. m \in [Items -> L!Nodes]
  BY SeenType DEF IInv
<1>2. CASE up /\ up' /\ Next
  <2>1. ASSUME NEW i \in Items
        PROVE  m[i] = n[i] \/ <<n[i], m[i]>> \in L!Moves
    BY <1>2, RunningStep, MovesListed DEF Graceful, Moved
  <2>2. L!Step(L!Moves)
    BY <2>1 DEF L!Step
  <2>. QED  BY <1>1, <1>2, <2>2 DEF L!Next
<1>3. CASE Shutdown \/ Crash
  <2>1. ASSUME NEW i \in Items
        PROVE  m[i] = n[i] \/ <<n[i], m[i]>> \in L!Interrupted
    BY <1>3, EndingStep DEF L!Interrupted, L!Jobs, Running
  <2>2. L!Step(L!Interrupted)
    BY <2>1 DEF L!Step
  <2>3. up /\ ~up'
    BY <1>3 DEF Shutdown, Crash, Down
  <2>. QED  BY <1>1, <2>2, <2>3 DEF L!Next
<1>4. CASE Recover
  <2>1. ASSUME NEW i \in Items
        PROVE  m[i] = n[i] \/ <<n[i], m[i]>> \in L!Resumes
    BY <1>4, BootStep DEF L!Resumes, L!Jobs, L!Listed, Running
  <2>2. L!Step(L!Resumes)
    BY <2>1 DEF L!Step
  <2>3. ~up /\ up'
    BY <1>4 DEF Recover
  <2>. QED  BY <1>1, <2>2, <2>3 DEF L!Next
<1>5. CASE UNCHANGED vars
  BY <1>5 DEF vars, L!vars
<1>. QED  BY <1>2, <1>3, <1>4, <1>5, StepKinds

(* For any set of rows, whatever the users, the tasks, the hooks and the   *)
(* restarts do, a client sees each row in the states of the lifecycle, and *)
(* sees it move only along its moves.                                      *)
THEOREM LifecycleImplemented == Graceful => (Spec => ImplementsLifecycle)
<1>. SUFFICES ASSUME Graceful PROVE Spec => ImplementsLifecycle
  OBVIOUS
<1>1. IInv /\ IInv' /\ [Next]_vars => [L!Next]_(L!vars)
  BY StepMaps
<1>2. Spec => []IInv
  BY Invariance DEF Graceful
<1>. QED  BY <1>1, <1>2, InitMaps, PTL DEF Spec, ImplementsLifecycle, L!Spec

----------------------------------------------------------------------------
(* The permits: none idles while a row within the lookahead could use it.  *)
----------------------------------------------------------------------------
(* The inductive invariant.  It does not look at `degraded`, which changes *)
(* between two passes: a row that claims a permit was a candidate of the   *)
(* last pass, or stood behind a full window of rows that wait.             *)

Peers(f, i) == {j \in Ahead(f, i) : f[j].ready = f[i].ready}
Served(f, i) == Cardinality(Holders(f, PoolOf(i))) >= Permits(PoolOf(i))
AllServed(f) == \A i \in Items : Claim(f[i]) /\ Cardinality(Peers(f, i)) < Window => Served(f, i)
ServedInv == up => AllServed(row)

(* Every pool has a number of permits.                                     *)
LEMMA PermitsType == \A p \in Providers \cup {"global"} : Permits(p) \in Nat
BY BoundAssumption, RoutingAssumption DEF Permits

(* The holders of a pool can be counted.                                   *)
LEMMA HoldersFinite == \A f, p : IsFiniteSet(Holders(f, p)) /\ Cardinality(Holders(f, p)) \in Nat
<1>. TAKE f, p
<1>1. Holders(f, p) \subseteq Items
  BY DEF Holders
<1>. QED  BY <1>1, SetAssumption, FS_Subset, FS_CardinalityType

----------------------------------------------------------------------------
(* What one pass makes of a row.                                           *)

(* A row that is still listed after the pass is as it was, was not         *)
(* started, and waits or was not reached.                                  *)
LEMMA StillListed ==
  ASSUME NEW f, NEW S \in SUBSET Items, NEW i \in Items, Base(f[i]), S \subseteq Candidates(f),
         After(f, S, i).ready # "none"
  PROVE  /\ After(f, S, i) = f[i] /\ i \notin S
         /\ Waits(f, S, i) \/ ~Reached(f, S, i)
<1>. DEFINE r == f[i]
<1>0. r \in Row
  BY DEF Base
<1>1. CASE i \in S
  <2>1. r.status = "queued" /\ r.auto
    BY <1>1 DEF Candidates, Wanted
  <2>2. Write(r, "preparing", r.auto) = [r EXCEPT !.status = "preparing", !.auto = r.auto]
    BY <2>1, WritableEdges DEF Write, Known, Statuses, Base, Row
  <2>3. After(f, S, i).ready = "none"
    BY <1>0, <1>1, <2>2 DEF After, StartJob, Row
  <2>. QED  BY <2>3
<1>2. CASE i \notin S /\ r.ready # "none" /\ ~Waits(f, S, i) /\ Reached(f, S, i)
  <2>. DEFINE t == Terminate(r, "error")
  <2>1. After(f, S, i) = [t EXCEPT !.ready = "none"] \/ After(f, S, i) = [r EXCEPT !.ready = "none"]
    BY SMTT(30), <1>2 DEF After
  <2>2. t = r \/ t = [r EXCEPT !.status = "error", !.wait = FALSE,
                               !.clear = @ \/ (Clearing /\ "error" \in {"finished", "error"})]
    BY DEF Terminate
  <2>3. "ready" \in DOMAIN r /\ DOMAIN t = DOMAIN r
    BY <1>0, <2>2 DEF Row
  <2>. HIDE DEF t
  <2>4. After(f, S, i).ready = "none"
    BY <2>1, <2>3
  <2>. QED  BY <2>4
<1>3. CASE i \notin S /\ (r.ready = "none" \/ Waits(f, S, i) \/ ~Reached(f, S, i))
  <2>1. After(f, S, i) = r
    BY <1>3 DEF After
  <2>. QED  BY <1>3, <2>1
<1>. QED  BY <1>1, <1>2, <1>3

(* A row that waits is left as it is.                                      *)
LEMMA WaitsStays ==
  ASSUME NEW f, NEW S \in SUBSET Items, NEW j \in Items, S \subseteq Candidates(f), Waits(f, S, j)
  PROVE  After(f, S, j) = f[j]
<1>1. j \notin S
  BY DEF Waits, Candidates
<1>. QED  BY <1>1 DEF After

(* What is started holds a permit, and what held one keeps it.             *)
LEMMA AfterHolds ==
  ASSUME NEW f, NEW S \in SUBSET Items, NEW i \in Items, Base(f[i]), S \subseteq Candidates(f),
         i \in S \/ f[i].slot = "held"
  PROVE  After(f, S, i).slot = "held"
<1>. DEFINE r == f[i]
<1>0. r \in Row
  BY DEF Base
<1>1. CASE i \in S
  <2>1. r.status = "queued" /\ r.auto
    BY <1>1 DEF Candidates, Wanted
  <2>2. Write(r, "preparing", r.auto) = [r EXCEPT !.status = "preparing", !.auto = r.auto]
    BY <2>1, WritableEdges DEF Write, Known, Statuses, Base, Row
  <2>. QED  BY <1>0, <1>1, <2>2 DEF After, StartJob, Row
<1>2. CASE i \notin S /\ r.slot = "held"
  <2>1. r.ready = "none"
    BY <1>2 DEF Base, Running
  <2>2. After(f, S, i) = r
    BY <1>2, <2>1 DEF After
  <2>. QED  BY <1>2, <2>2
<1>. QED  BY <1>1, <1>2

(* Delivering the frames changes nothing else of a row.                    *)
LEMMA DeliveredSame ==
  ASSUME NEW r \in Row
  PROVE  LET q == Delivered(r)
         IN  /\ q.status = r.status /\ q.auto = r.auto /\ q.ready = r.ready /\ q.timer = r.timer
             /\ q.slot = r.slot /\ q.resolved = r.resolved
BY DEF Delivered, Row

(* Sets of rows can be counted.                                            *)
LEMMA CountRows ==
  /\ \A A \in SUBSET Items : IsFiniteSet(A) /\ Cardinality(A) \in Nat
  /\ \A A, B \in SUBSET Items : A \subseteq B => Cardinality(A) <= Cardinality(B)
BY SetAssumption, FS_Subset, FS_CardinalityType

LEMMA WindowType == Window \in Nat
BY BoundAssumption DEF Window

----------------------------------------------------------------------------
(* After a pass every row that claims a permit is served, or behind a full *)
(* window.                                                                 *)
LEMMA ScheduleServes ==
  ASSUME NEW f, \A i \in Items : Base(f[i]), Schedule(f)
  PROVE  AllServed(row')
<1>1. PICK S \in SUBSET Items : Admitted(f, S) /\ Put([i \in Items |-> After(f, S, i)])
  BY DEF Schedule
<1>2. S \subseteq Candidates(f) /\ Greedy(f, S)
  BY <1>1 DEF Admitted
<1>3. \A j \in Items : row'[j] = Delivered(After(f, S, j))
  BY <1>1 DEF Put
<1>4. ASSUME NEW j \in Items
      PROVE  LET q == After(f, S, j)
                 p == row'[j]
             IN  /\ p.status = q.status /\ p.auto = q.auto /\ p.ready = q.ready /\ p.timer = q.timer
                 /\ p.slot = q.slot /\ p.resolved = q.resolved
  <2>1. After(f, S, j) \in Row
    BY <1>2, AfterKept DEF Base
  <2>. QED  BY <1>3, <2>1, DeliveredSame
<1>. SUFFICES ASSUME NEW i \in Items, Claim(row'[i]), Cardinality(Peers(row', i)) < Window
              PROVE  Served(row', i)
  BY DEF AllServed
<1>. DEFINE p == PoolOf(i)
            W == {j \in Ahead(f, i) : f[j].ready = f[i].ready /\ Waits(f, S, j)}
            T == {j \in S \cap Ahead(f, i) : PoolOf(j) = p}
<1>5. /\ After(f, S, i) = f[i] /\ i \notin S /\ Claim(f[i])
      /\ Waits(f, S, i) \/ ~Reached(f, S, i)
  <2>1. Claim(After(f, S, i))
    BY <1>4 DEF Claim, Wanted
  <2>2. After(f, S, i).ready # "none"
    BY <2>1 DEF Claim
  <2>. QED  BY <1>2, <2>1, <2>2, StillListed
<1>6. W \subseteq Peers(row', i)
  <2>. SUFFICES ASSUME NEW j \in W PROVE j \in Peers(row', i)
    OBVIOUS
  <2>1. j \in Items /\ j \in Listed(f) /\ f[j].ready = f[i].ready /\ Waits(f, S, j)
    BY DEF Ahead, Listed
  <2>2. row'[j].ready = f[j].ready /\ row'[i].ready = f[i].ready
    BY <1>2, <1>4, <1>5, <2>1, WaitsStays
  <2>. QED  BY <2>1, <2>2 DEF Peers, Ahead, Listed
<1>7. Reached(f, S, i)
  <2>1. W \subseteq Items /\ Peers(row', i) \subseteq Items
    BY DEF Peers, Ahead, Listed
  <2>2. Cardinality(W) <= Cardinality(Peers(row', i)) /\ Cardinality(W) \in Nat /\ Cardinality(Peers(row', i)) \in Nat
    BY <1>6, <2>1, CountRows
  <2>3. Cardinality(W) < Window
    BY <2>2, WindowType
  <2>. QED  BY <2>3 DEF Reached
<1>8. Cardinality(Holders(f, p)) + Cardinality(T) >= Permits(p)
  <2>1. i \in Candidates(f) \ S
    BY <1>5, <1>7 DEF Waits, Claim
  <2>. QED  BY <1>2, <1>7, <2>1 DEF Greedy
<1>9. Holders(f, p) \cup T \subseteq Holders(row', p)
  BY <1>2, <1>4, AfterHolds DEF Holders, Ahead, Listed
<1>10. Holders(f, p) \cap T = {}
  BY <1>2 DEF Holders, Candidates
<1>11. Cardinality(Holders(row', p)) >= Cardinality(Holders(f, p)) + Cardinality(T)
  <2>1. Holders(f, p) \subseteq Items /\ T \subseteq Items /\ Holders(row', p) \subseteq Items
    BY DEF Holders
  <2>. HIDE DEF T
  <2>2. IsFiniteSet(Holders(f, p)) /\ IsFiniteSet(T)
    BY <2>1, CountRows
  <2>3. Cardinality(Holders(f, p) \cup T)
          = Cardinality(Holders(f, p)) + Cardinality(T) - Cardinality(Holders(f, p) \cap T)
    BY <2>2, FS_Union
  <2>4. Cardinality(Holders(f, p) \cap T) = 0
    BY <1>10, FS_EmptySet
  <2>5. Cardinality(Holders(f, p) \cup T) <= Cardinality(Holders(row', p))
    BY <1>9, <2>1, CountRows
  <2>. QED  BY <2>1, <2>3, <2>4, <2>5, CountRows
<1>12. p \in Providers \cup {"global"}
  BY RoutingAssumption DEF PoolOf
<1>. HIDE DEF T, p
<1>13. Cardinality(Holders(row', p)) >= Permits(p)
  <2>1. /\ Cardinality(Holders(row', p)) \in Nat /\ Cardinality(Holders(f, p)) \in Nat
        /\ Cardinality(T) \in Nat /\ Permits(p) \in Nat
    <3>1. T \subseteq Items
      BY DEF T
    <3>. QED  BY <1>12, <3>1, CountRows, HoldersFinite, PermitsType
  <2>. QED  BY <1>8, <1>11, <2>1
<1>. QED  BY <1>13 DEF Served, p

(* A handler that does not schedule leaves that as it was.                 *)
LEMMA CalmServes ==
  ASSUME AllServed(row), NEW f, \A i \in Items : Base(f[i]), Put(f), \A i \in Items : Calm(row[i], f[i])
  PROVE  AllServed(row')
<1>1. ASSUME NEW j \in Items
      PROVE  /\ row'[j].ready = row[j].ready /\ (Claim(row'[j]) => Claim(row[j]))
             /\ row[j].slot = "held" => row'[j].slot = "held"
  <2>1. row'[j] = Delivered(f[j]) /\ f[j] \in Row
    BY DEF Put, Base
  <2>2. /\ row'[j].status = f[j].status /\ row'[j].auto = f[j].auto /\ row'[j].ready = f[j].ready
        /\ row'[j].timer = f[j].timer /\ row'[j].slot = f[j].slot /\ row'[j].resolved = f[j].resolved
    BY <2>1, DeliveredSame
  <2>. QED  BY <2>2 DEF Calm, Claim, Wanted
<1>. SUFFICES ASSUME NEW i \in Items, Claim(row'[i]), Cardinality(Peers(row', i)) < Window
              PROVE  Served(row', i)
  BY DEF AllServed
<1>2. Peers(row', i) = Peers(row, i)
  BY <1>1 DEF Peers, Ahead, Listed
<1>3. Served(row, i)
  BY <1>1, <1>2 DEF AllServed
<1>. DEFINE p == PoolOf(i)
<1>4. Cardinality(Holders(row, p)) <= Cardinality(Holders(row', p))
  <2>1. Holders(row, p) \subseteq Holders(row', p) /\ Holders(row', p) \subseteq Items
    BY <1>1 DEF Holders
  <2>. QED  BY <2>1, CountRows
<1>5. p \in Providers \cup {"global"}
  BY RoutingAssumption DEF PoolOf
<1>. HIDE DEF p
<1>6. Cardinality(Holders(row, p)) >= Permits(p) => Cardinality(Holders(row', p)) >= Permits(p)
  BY <1>4, <1>5, HoldersFinite, PermitsType
<1>. QED  BY <1>3, <1>6 DEF Served, p

(* It holds from the start, and every step keeps it.                       *)
LEMMA InitServed == Init => ServedInv
<1>1. New.ready = "none"
  BY DEF New
<1>. QED  BY <1>1 DEF Init, ServedInv, AllServed, Claim

LEMMA NextServed ==
  ASSUME Orderly, IInv, ServedInv, [Next]_vars
  PROVE  ServedInv'
<1>1. CASE up /\ up' /\ Next
  <2>1. CASE UNCHANGED row
    BY <1>1, <2>1 DEF ServedInv, AllServed, Served, Peers, Ahead, Listed, Holders
  <2>2. CASE \E f : Handles(f) /\ \A j \in Items : Heeds(j, f[j])
    <3>1. PICK f : Handles(f)
      BY <2>2
    <3>2. AllServed(row')
      BY <1>1, <3>1, ScheduleServes, CalmServes DEF Handles, ServedInv
    <3>. QED  BY <3>2 DEF ServedInv
  <2>. QED  BY <1>1, <2>1, <2>2, LiveHandles
<1>2. CASE Shutdown \/ Crash
  BY <1>2 DEF Shutdown, Crash, Down, ServedInv
<1>3. CASE Recover
  <2>1. PICK policy \in Policies :
          Schedule([i \in Items |-> Requeued(i, Recovered(row[i], policy = "resume"))])
    BY <1>3 DEF Recover
  <2>. DEFINE resume == policy = "resume"
              f == [i \in Items |-> Requeued(i, Recovered(row[i], resume))]
  <2>2. resume \in BOOLEAN /\ Schedule(f)
    BY <2>1
  <2>. HIDE DEF resume
  <2>3. \A i \in Items : Left(row[i])
    BY <1>3 DEF IInv, Recover
  <2>4. \A i \in Items : Base(f[i])
    BY <2>2, <2>3, RecoveredRow, RequeuedBase
  <2>. HIDE DEF f
  <2>5. AllServed(row')
    BY <2>2, <2>4, ScheduleServes
  <2>. QED  BY <2>5 DEF ServedInv
<1>4. CASE UNCHANGED vars
  BY <1>4 DEF vars, ServedInv, AllServed, Served, Peers, Ahead, Listed, Holders
<1>. QED  BY <1>1, <1>2, <1>3, <1>4, StepKinds

(* No permit idles while a row that could take it stands within the        *)
(* lookahead of its class: every handler that frees a permit or lists a    *)
(* row schedules before it returns, and none that does not lists or frees. *)
THEOREM NonePassedOver == Orderly => (Spec => []NoIdlePermit)
<1>. SUFFICES ASSUME Orderly PROVE Spec => []NoIdlePermit
  OBVIOUS
<1>1. Spec => []IInv
  BY Invariance
<1>2. IInv /\ ServedInv /\ [Next]_vars => ServedInv'
  BY NextServed
<1>3. ServedInv => NoIdlePermit
  BY DEF ServedInv, AllServed, Served, Peers, NoIdlePermit, Candidates, Listed, Claim
<1>. QED  BY <1>1, <1>2, <1>3, InitServed, PTL DEF Spec
=============================================================================
