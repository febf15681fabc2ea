------------------------------- MODULE Groups -------------------------------
(***************************************************************************)
(* aulos-queue, one playlist: its row, the rows of its children, and what  *)
(* the engine keeps in memory of them.  The engine handles one command at  *)
(* a time; a command that names the group works through the children, one  *)
(* target after the other, and may fail or crash at each.                  *)
(*                                                                         *)
(* Abstracted: which slot a child runs in and why its job ends (module     *)
(* Engine), the bytes and percent of the roll-up, and the frames.  The     *)
(* three running statuses are one; a paused or waiting child is queued.    *)
(* Of the rest of the queue only that it fills the done window counts.     *)
(* Once the group's row is deleted it is not followed any more.            *)
(***************************************************************************)
EXTENDS Integers, Sequences, FiniteSets, Lists

CONSTANTS
  GrChildren,    \* entries the playlist has
  GrBatch,       \* CHILD_BATCH
  GrWindow,      \* AULOS_MEM_DONE_ITEMS, less the places of other playlists that are kept
  GrCommands,    \* bound: commands of users, rows of others that end
  GrFaults       \* bound: failed writes and crashes

ASSUME GrAssumption ==
  GrChildren \in Nat /\ GrBatch \in Nat \ {0} /\ GrWindow \in Nat /\ GrCommands \in Nat /\ GrFaults \in Nat

Children == 1..GrChildren
Group == 0                     \* the group's row is older than every child's
Other == GrChildren + 1
RowStatus == {"queued", "running", "finished", "error", "canceled"}
Over == {"finished", "error", "canceled"}

VARIABLES
  gr,           \* the rows and the engine's memory of them, see GroupsTypeOK
  grNext,       \* the expansion's next index, 0 when there is no expansion
  grAsked,      \* an ExpandNext is in the command channel
  grCmd,        \* the command being handled: its targets left, and those to remove
  grCommands, grFaults,   \* count what bounds them
  \* history
  grGivenUp,    \* the expansion was cancelled, or a write or the process failed
  grLoose       \* the group's status was not written by its roll-up

grVars == <<gr, grNext, grAsked, grCmd, grCommands, grFaults, grGivenUp, grLoose>>

NoAcc == [live |-> FALSE, count |-> [s \in RowStatus |-> 0], resolved |-> 0]
NewAcc == [NoAcc EXCEPT !.live = TRUE]
NoCmd == [op |-> "none", rest |-> <<>>, doomed |-> {}]

GroupsInit ==
  /\ gr = [group |-> "queued", child |-> [c \in Children |-> "none"], here |-> TRUE, cached |-> {},
           acc |-> NewAcc, done |-> <<>>, ghosts |-> [s \in RowStatus |-> 0]]
  /\ grNext = 1 /\ grAsked = FALSE /\ grCmd = [NoCmd EXCEPT !.op = "promote"]
  /\ grCommands \in 0..GrCommands /\ grFaults \in 0..GrFaults /\ grGivenUp = FALSE /\ grLoose = FALSE

----------------------------------------------------------------------------
(* What the steps are made of: functions from a state x of gr to the next. *)

Stored(x) == {c \in Children : x.child[c] \in RowStatus}
Live(x) == {c \in Stored(x) : x.child[c] \notin Over}
Under(ids, child, s) == Cardinality({c \in ids : child[c] = s})
Tally(child) == [s \in RowStatus |-> Under(Children, child, s)]
ByAge(ids) == Sans([i \in 1..Other |-> i - 1], 0..GrChildren \ ids)

Listed(x) == {x.done[i] : i \in DOMAIN x.done}

(* mark_done: the oldest rows leave the window, the group not before its   *)
(* children.                                                               *)
Evicted(x) ==
  LET excess == IF Len(x.done) > GrWindow THEN Len(x.done) - GrWindow ELSE 0
      stays == x.acc.live /\ \E i \in 1..excess :
                 x.done[i] = Group /\ x.cached \ {x.done[j] : j \in 1..(i - 1)} # {}
      order == IF stays THEN Sans(x.done, {Group}) ELSE x.done
      out == {order[i] : i \in 1..(IF excess < Len(order) THEN excess ELSE Len(order))}
  IN  [x EXCEPT !.done = (IF stays THEN <<Group>> ELSE <<>>) \o SubSeq(order, excess + 1, Len(order)),
                !.cached = @ \ out,
                !.here = @ /\ Group \notin out, !.acc = IF Group \in out THEN NoAcc ELSE @]

MarkDone(x, id) ==
  IF id # Other /\ id \in Listed(x) THEN x ELSE Evicted([x EXCEPT !.done = Append(@, id)])

RollUpBug(count) ==
  IF count["error"] > 0 THEN "error" ELSE IF count["running"] > 0 THEN "running"
  ELSE IF count["queued"] > 0 THEN "queued" ELSE IF count["canceled"] > 0 THEN "canceled" ELSE "finished"
RollUp(count) ==
  CASE \A s \in RowStatus : count[s] = 0 -> "queued"
    [] count["running"] > 0 -> "running"
    [] count["running"] = 0 /\ count["queued"] > 0 -> "queued"
    [] OTHER -> IF count["error"] > 0 THEN "error" ELSE IF count["canceled"] > 0 THEN "canceled" ELSE "finished"

Less(n, k) == IF n < k THEN 0 ELSE n - k
Added(x, s, n) ==
  IF x.acc.live THEN [x EXCEPT !.acc.count[s] = @ + n, !.acc.resolved = @ + n] ELSE x
Removed(x, ids) ==
  IF x.acc.live
  THEN [x EXCEPT !.acc.count = [s \in RowStatus |-> Less(@[s], Under(ids, x.child, s))],
                 !.acc.resolved = Less(@, Cardinality(ids))]
  ELSE x
MovedBug(x, from, to) == IF x.acc.live THEN [x EXCEPT !.acc.count[to] = @ + 1] ELSE x
Moved(x, from, to) ==
  IF x.acc.live /\ from # to THEN [x EXCEPT !.acc.count[from] = Less(@, 1), !.acc.count[to] = @ + 1] ELSE x

(* sync_group_status, and whether its write came through.                  *)
Rolls(x) == x.acc.live /\ x.here /\ x.group # RollUp(x.acc.count)
SyncedBug(x, ok) ==
  LET to == RollUp(x.acc.count) IN
  IF ~Rolls(x) \/ ~ok \/ x.group \in Over THEN x
  ELSE IF to \in Over THEN MarkDone([x EXCEPT !.group = to], Group) ELSE [x EXCEPT !.group = to]
Synced(x, ok) ==
  LET to == RollUp(x.acc.count)
      y == [x EXCEPT !.group = to]
  IN  IF ~Rolls(x) \/ ~ok THEN x ELSE IF to \in Over THEN MarkDone(y, Group) ELSE y

(* write_status of a cached child.  The row takes its place in the done    *)
(* window before on_child_status looks it up: when the window lets it out  *)
(* at once, the accumulator does not hear of it.                           *)
WriteStatus(x, c, to) ==
  LET y == [x EXCEPT !.child[c] = to]
      z == IF to \in Over THEN MarkDone(y, c) ELSE y
  IN  IF c \in z.cached THEN Moved(z, x.child[c], to) ELSE z

WithoutDone(x, ids) == [x EXCEPT !.done = Sans(@, ids)]

(* retry_one: the row may have to be fetched from SQLite.                  *)
RetriedBug(x, c) == Moved(WithoutDone([x EXCEPT !.child[c] = "queued"], {c}), x.child[c], "queued")
Retried(x, c) ==
  LET y == [x EXCEPT !.child[c] = "queued", !.cached = @ \cup {c}] IN
  Moved(WithoutDone(y, {c}), x.child[c], "queued")

(* forget, of some children: those that are cached are taken out of the    *)
(* accumulator.                                                            *)
Gone(x, ids) ==
  [x EXCEPT !.cached = @ \ ids, !.child = [c \in Children |-> IF c \in ids THEN "gone" ELSE @[c]],
            !.ghosts = [s \in RowStatus |-> @[s] + IF x.acc.live THEN Under(ids \ x.cached, x.child, s) ELSE 0]]
ForgetBug(x, ids) == Gone(x, ids)
Forget(x, ids) == Gone(Removed(x, ids \cap x.cached), ids)

(* Deleting the group's row cascades in SQLite.                            *)
RemovedRows(x, ids) ==
  IF Group \in ids THEN [x EXCEPT !.group = "gone", !.here = FALSE, !.acc = NoAcc, !.done = <<>>, !.cached = {},
                                  !.child = [c \in Children |-> IF c \in Stored(x) THEN "gone" ELSE x.child[c]]]
  ELSE WithoutDone(Forget(x, ids), ids)

----------------------------------------------------------------------------
Mishap(happens) ==
  IF happens THEN grFaults < GrFaults /\ grFaults' = grFaults + 1 ELSE UNCHANGED grFaults

(* What follows a change of the children to y: the roll-up is synchronised *)
(* and, unless its write fails, is what the group's row says.              *)
RollsUp(next, synced) ==
  \E y \in {next} :
    /\ gr' = Synced(y, synced)
    /\ synced \/ Rolls(y)
    /\ grLoose' = IF y.acc.live /\ y.here THEN ~synced ELSE grLoose

(* write_status, and the roll-up of a child that is still cached.          *)
Writes(c, to, synced) ==
  \E y \in {WriteStatus(gr, c, to)} :
    IF c \in y.cached THEN RollsUp(y, synced) ELSE gr' = y /\ UNCHANGED grLoose /\ synced

Ready == grCmd.op = "none" /\ gr.group # "gone"

----------------------------------------------------------------------------
(* The expansion.                                                          *)

Batch == grNext..(IF grNext + GrBatch - 1 < GrChildren THEN grNext + GrBatch - 1 ELSE GrChildren)
AfterPastEndBug == grNext + GrBatch
AfterBatchBug == IF grNext + GrBatch < GrChildren THEN grNext + GrBatch ELSE 0
AfterBatch == IF grNext + GrBatch <= GrChildren THEN grNext + GrBatch ELSE 0

ExpandNext(ok, synced) ==
  LET new == [gr EXCEPT !.child = [c \in Children |-> IF c \in Batch THEN "queued" ELSE gr.child[c]],
                        !.cached = @ \cup Batch]
  IN
  /\ grCmd.op = "promote" \/ (Ready /\ grAsked)
  /\ grCmd' = NoCmd
  /\ IF grNext = 0 \/ ~gr.here \/ ~ok
       THEN /\ grNext' = 0 /\ grAsked' = FALSE /\ synced
            /\ ok \/ (grNext # 0 /\ gr.here /\ Batch # {})
            /\ grGivenUp' = (grGivenUp \/ grNext # 0)
            /\ UNCHANGED <<gr, grLoose>>
       ELSE /\ grNext' = AfterBatch /\ grAsked' = (AfterBatch # 0)
            /\ RollsUp(Added(new, "queued", Cardinality(Batch)), synced) /\ UNCHANGED grGivenUp
  /\ Mishap(~(ok /\ synced))
  /\ UNCHANGED grCommands

----------------------------------------------------------------------------
(* The jobs of the children, and the rest of the queue.                    *)

ChildStarts(c, synced) ==
  /\ Ready /\ gr.child[c] = "queued" /\ c \in gr.cached
  /\ Writes(c, "running", synced) /\ Mishap(~synced)
  /\ UNCHANGED <<grNext, grAsked, grCmd, grCommands, grGivenUp>>

ChildEnds(c, to, synced) ==
  /\ Ready /\ gr.child[c] = "running" /\ c \in gr.cached
  /\ Writes(c, to, synced) /\ Mishap(~synced)
  /\ UNCHANGED <<grNext, grAsked, grCmd, grCommands, grGivenUp>>

OtherEnds ==
  /\ Ready /\ grCommands < GrCommands /\ grCommands' = grCommands + 1
  /\ gr' = MarkDone(gr, Other)
  /\ UNCHANGED <<grNext, grAsked, grCmd, grFaults, grGivenUp, grLoose>>

(* recompute_group: a cache that cannot see every child says nothing.      *)
Drift ==
  LET count == [s \in RowStatus |-> Under(gr.cached, gr.child, s)] IN
  /\ Ready /\ gr.acc.live /\ Cardinality(gr.cached) >= gr.acc.resolved
  /\ gr' = [gr EXCEPT !.acc.count = count, !.acc.resolved = Cardinality(gr.cached),
                      !.ghosts = [s \in RowStatus |-> 0]]
  /\ UNCHANGED <<grNext, grAsked, grCmd, grCommands, grFaults, grGivenUp, grLoose>>

----------------------------------------------------------------------------
(* The commands.                                                           *)

Found(id) == IF id = Group THEN gr.here \/ gr.group \in Over ELSE id \in gr.cached \/ gr.child[id] \in Over
ExpandTargets(id) == IF id = Group THEN ByAge(Stored(gr)) \o <<Group>> ELSE <<id>>

Command(op, id) ==
  /\ Ready /\ grCommands < GrCommands /\ grCommands' = grCommands + 1 /\ Found(id)
  /\ grCmd' = [op |-> op, rest |-> ExpandTargets(id), doomed |-> {}]
  /\ UNCHANGED <<gr, grNext, grAsked, grFaults, grGivenUp, grLoose>>

(* The target t of the command is dealt with; a delete remembers it.       *)
Handling(ops, t) ==
  /\ grCmd.op \in ops /\ grCmd.rest # <<>> /\ t = Head(grCmd.rest)
  /\ grCmd' = IF grCmd.op = "delete"
                THEN [grCmd EXCEPT !.rest = Tail(@), !.doomed = IF Found(t) THEN @ \cup {t} ELSE @]
                ELSE IF Len(grCmd.rest) = 1 THEN NoCmd ELSE [grCmd EXCEPT !.rest = Tail(@)]
  /\ UNCHANGED <<grAsked, grCommands>>

StatusOf(id) == IF id = Group THEN gr.group ELSE gr.child[id]
Works(op, id) ==
  Found(id) /\ CASE op \in {"cancel", "delete"} -> StatusOf(id) \notin Over
                 [] op = "pause" -> StatusOf(id) = "running"
                 [] op = "retry" -> StatusOf(id) \in {"error", "canceled"}

Skips ==
  /\ grCmd.rest # <<>> /\ ~Works(grCmd.op, Head(grCmd.rest))
  /\ Handling({"cancel", "pause", "retry", "delete"}, Head(grCmd.rest))
  /\ UNCHANGED <<gr, grNext, grFaults, grGivenUp, grLoose>>

CancelChild(c, ok, synced) ==
  /\ Handling({"cancel", "delete"}, c) /\ Works(grCmd.op, c)
  /\ IF ok THEN Writes(c, "canceled", synced) ELSE UNCHANGED <<gr, grLoose>> /\ synced
  /\ Mishap(~(ok /\ synced)) /\ UNCHANGED <<grNext, grGivenUp>>

PauseChild(c, ok, synced) ==
  /\ Handling({"pause"}, c) /\ Works("pause", c)
  /\ IF ok THEN Writes(c, "queued", synced) ELSE UNCHANGED <<gr, grLoose>> /\ synced
  /\ Mishap(~(ok /\ synced)) /\ UNCHANGED <<grNext, grGivenUp>>

RetryChild(c, ok, synced) ==
  /\ Handling({"retry"}, c) /\ Works("retry", c)
  /\ IF ok THEN RollsUp(Retried(gr, c), synced) ELSE UNCHANGED <<gr, grLoose>> /\ synced
  /\ Mishap(~(ok /\ synced)) /\ UNCHANGED <<grNext, grGivenUp>>

(* The group's own row is a target like any other, the last one.           *)
CancelGroup(ok) ==
  /\ Handling({"cancel", "delete"}, Group) /\ Works(grCmd.op, Group)
  /\ grNext' = 0 /\ grGivenUp' = TRUE
  /\ IF ok THEN gr' = MarkDone([gr EXCEPT !.group = "canceled"], Group) /\ grLoose' = TRUE
     ELSE UNCHANGED <<gr, grLoose>>
  /\ Mishap(~ok)

PauseGroup(ok) ==
  /\ Handling({"pause"}, Group) /\ Works("pause", Group)
  /\ IF ok THEN gr' = [gr EXCEPT !.group = "queued"] /\ grLoose' = TRUE ELSE UNCHANGED <<gr, grLoose>>
  /\ Mishap(~ok) /\ UNCHANGED <<grNext, grGivenUp>>

RetryGroup(ok) ==
  /\ Handling({"retry"}, Group) /\ Works("retry", Group)
  /\ IF ok THEN gr' = WithoutDone([gr EXCEPT !.group = "queued", !.here = TRUE], {Group}) /\ grLoose' = TRUE
     ELSE UNCHANGED <<gr, grLoose>>
  /\ Mishap(~ok) /\ UNCHANGED <<grNext, grGivenUp>>

(* remove_rows, for a delete, for the auto-clear sweep of rows that are    *)
(* finished or failed, and for a clear of every terminal row.              *)
Removes(ids, ok, synced) ==
  /\ IF ok THEN IF Group \in ids THEN gr' = RemovedRows(gr, ids) /\ UNCHANGED grLoose /\ synced
                ELSE IF ids \cap gr.cached # {} THEN RollsUp(RemovedRows(gr, ids), synced)
                ELSE gr' = RemovedRows(gr, ids) /\ UNCHANGED grLoose /\ synced
     ELSE UNCHANGED <<gr, grLoose>> /\ synced
  /\ grNext' = IF ok /\ Group \in ids THEN 0 ELSE grNext
  /\ grGivenUp' = (grGivenUp \/ (ok /\ Group \in ids))
  /\ Mishap(~(ok /\ synced))
  /\ UNCHANGED grAsked

DeleteRows(ok, synced) ==
  /\ grCmd.op = "delete" /\ grCmd.rest = <<>> /\ grCmd' = NoCmd
  /\ Removes(grCmd.doomed, ok, synced) /\ UNCHANGED grCommands

Sweep(ids, ok, synced) ==
  /\ Ready /\ ids # {} /\ \A c \in ids : gr.child[c] \in {"finished", "error"}
  /\ grCommands < GrCommands /\ grCommands' = grCommands + 1
  /\ Removes(ids, ok, synced) /\ UNCHANGED grCmd

Clear(ok, synced) ==
  LET ids == {id \in Children \cup {Group} : StatusOf(id) \in Over} IN
  /\ Ready /\ ids # {} /\ grCommands < GrCommands /\ grCommands' = grCommands + 1
  /\ Removes(ids, ok, synced) /\ UNCHANGED grCmd

(* CancelResolve: the entries not inserted yet never are.                  *)
CancelResolve(ok) ==
  /\ Ready /\ grNext # 0 /\ grCommands < GrCommands /\ grCommands' = grCommands + 1
  /\ grNext' = 0 /\ grGivenUp' = TRUE
  /\ IF gr.cached # {} THEN RollsUp(gr, ok)
     ELSE IF ok THEN gr' = MarkDone([gr EXCEPT !.group = "canceled"], Group) /\ grLoose' = TRUE
     ELSE UNCHANGED <<gr, grLoose>>
  /\ Mishap(~ok) /\ UNCHANGED <<grAsked, grCmd>>

----------------------------------------------------------------------------
(* A crash and the boot after it: what was live is back in memory, of the  *)
(* rest the newest rows that the window has room for, other rows being     *)
(* among them; the accumulators are counted from the store.                *)
Recover(room) ==
  LET child == [c \in Children |-> IF gr.child[c] = "running" THEN "queued" ELSE gr.child[c]]
      group == IF gr.group = "running" THEN "queued" ELSE gr.group
      over == {id \in Children \cup {Group} : StatusOf(id) \in Over}
      window == {id \in over : Cardinality({o \in over : o > id}) < room}
      here == group \notin Over \/ Group \in window
      stored == Cardinality(Stored([gr EXCEPT !.child = child]))
  IN
  /\ gr.group # "gone" /\ Mishap(TRUE)
  /\ gr' = [group |-> group, child |-> child, here |-> here,
            cached |-> Live([gr EXCEPT !.child = child]) \cup (window \ {Group}),
            acc |-> IF here THEN [live |-> TRUE, count |-> Tally(child), resolved |-> stored] ELSE NoAcc,
            done |-> ByAge(window), ghosts |-> [s \in RowStatus |-> 0]]
  /\ grCmd' = NoCmd /\ grNext' = 0 /\ grAsked' = FALSE
  /\ grGivenUp' = TRUE
  /\ grLoose' = (grLoose \/ ~gr.acc.live \/ \E s \in RowStatus : gr.ghosts[s] > 0)
  /\ UNCHANGED grCommands

----------------------------------------------------------------------------
Jobs(synced) ==
  \E c \in Children : ChildStarts(c, synced) \/ \E to \in {"queued", "finished", "error"} : ChildEnds(c, to, synced)
Commands(ok, synced) ==
  \/ \E c \in Children : CancelChild(c, ok, synced) \/ PauseChild(c, ok, synced) \/ RetryChild(c, ok, synced)
  \/ DeleteRows(ok, synced)
  \/ synced /\ (CancelGroup(ok) \/ PauseGroup(ok) \/ RetryGroup(ok) \/ (ok /\ Skips))

(* Both writes of a step may go well, or one of them fail.                 *)
Outcomes ==
  {<<TRUE, TRUE>>} \cup (IF grFaults < GrFaults THEN {<<FALSE, TRUE>>, <<TRUE, FALSE>>} ELSE {})

GroupsNext ==
  \/ \E o \in Outcomes :
       \/ ExpandNext(o[1], o[2]) \/ Commands(o[1], o[2])
       \/ \E ids \in SUBSET Children : Sweep(ids, o[1], o[2])
       \/ Clear(o[1], o[2])
       \/ o[1] /\ Jobs(o[2])
       \/ o[2] /\ CancelResolve(o[1])
  \/ OtherEnds \/ Drift
  \/ \E op \in {"cancel", "pause", "retry", "delete"}, id \in Children \cup {Group} : Command(op, id)
  \/ \E room \in 0..GrWindow : Recover(room)

(* The engine handles the next command.                                    *)
GroupsFairness == WF_grVars(ExpandNext(TRUE, TRUE)) /\ WF_grVars(Commands(TRUE, TRUE))
GroupsSpec == GroupsInit /\ [][GroupsNext]_grVars /\ GroupsFairness

----------------------------------------------------------------------------
GroupsTypeOK ==
  /\ gr \in [group : RowStatus \cup {"gone"}, child : [Children -> RowStatus \cup {"none", "gone"}],
             here : BOOLEAN, cached : SUBSET Children,
             acc : [live : BOOLEAN, count : [RowStatus -> Nat], resolved : Nat],
             done : Seq(0..Other), ghosts : [RowStatus -> Nat]]
  /\ grNext \in 0..GrChildren \cup {1} /\ grAsked \in BOOLEAN
  /\ grCmd.op \in {"promote", "none", "cancel", "pause", "retry", "delete"}
  /\ grCmd.rest \in Seq(Children \cup {Group}) /\ grCmd.doomed \subseteq Children \cup {Group}

(* What the engine remembers of a playlist is true: it holds every row     *)
(* that is not terminal and only stored rows, and the accumulator counts   *)
(* the stored children, each under its status, and besides them only       *)
(* children that were removed after they had left the done window.         *)
GroupsMemoryIsTrue ==
  /\ gr.group # "gone" => Live(gr) \subseteq gr.cached /\ gr.cached \subseteq Stored(gr)
  /\ gr.acc.live => \A s \in RowStatus :
       gr.acc.count[s] = Tally(gr.child)[s] + gr.ghosts[s]

(* The group's row says what its stored children add up to, whatever       *)
(* order they started, ended, were retried or went in, unless a write of   *)
(* the roll-up failed, the row was made to say something else, or it left  *)
(* memory before its children came back.                                   *)
GroupsRollUpIsTrue ==
  LET count == [s \in RowStatus |-> Tally(gr.child)[s] + gr.ghosts[s]] IN
  gr.acc.live /\ gr.here /\ ~grLoose => gr.group = RollUp(count)

(* Memory, counters and the group's row all say what is stored.            *)
GroupsAreTrue == GroupsMemoryIsTrue /\ GroupsRollUpIsTrue

(* A child that is still to run, or running, goes by a delete alone: no    *)
(* clear and no sweep cascades over it, unless the group's row had left    *)
(* memory or was not written by its roll-up.                               *)
GroupsSparesLive ==
  [][\A c \in Children :
       gr.child[c] \in {"queued", "running"} /\ gr'.child[c] = "gone"
         => grCmd.op = "delete" \/ ~gr.acc.live \/ grLoose]_grVars

(* Every entry of the playlist gets its row, unless the expansion is       *)
(* cancelled, a write fails or the process stops.                          *)
GroupsExpands == []<>(grGivenUp \/ gr.group = "gone" \/ \A c \in Children : gr.child[c] # "none")

(* The counts stay true, rows come until all are there, and a live one     *)
(* goes only on demand.                                                    *)
GroupsKeepAndExpand == [][GroupsAreTrue']_grVars /\ GroupsSparesLive /\ GroupsExpands
=============================================================================
