------------------------------- MODULE Feed -------------------------------
(***************************************************************************)
(* The realtime feed: the aggregator, which turns the engine's events into *)
(* batches of frames and a published generation; the hub, which numbers    *)
(* the frames, keeps the last ones in a ring and broadcasts them; and one  *)
(* WebSocket session of a client that connects, resumes, falls behind and  *)
(* goes away.  The aggregator and the session are two tasks: a flush is    *)
(* cut at every frame it publishes, a connection at every await.           *)
(***************************************************************************)
EXTENDS Integers, FiniteSets, Frames

CONSTANTS
  Items,        \* the rows of the queue, none of them a group
  Values,       \* what the other fields of a row can read
  Seed,         \* the first frame number of this boot
  LeftMin,      \* rows the last process has left, at least
  RingFrames,   \* AULOS_WS_REPLAY_FRAMES
  Capacity,     \* BROADCAST_CAPACITY
  MemDone,      \* AULOS_MEM_DONE_ITEMS
  DeltaBudget,  \* AULOS_WS_MAX_DELTAS_PER_FRAME * MAX_DELTA_FRAMES_PER_FLUSH
  BurstMax,     \* assumption: rows that end between two flushes
  LeadMax,      \* assumption: frames the published generation may be behind
  MaxSeq,       \* bound: no frame is numbered beyond it
  MaxEvents     \* bound: how many events the engine publishes

ASSUME FeedAssumption ==
  /\ IsFiniteSet(Items)
  /\ {Seed, LeftMin, MemDone, BurstMax, LeadMax, MaxSeq, MaxEvents} \subseteq Nat
  /\ {RingFrames, Capacity, DeltaBudget} \subseteq Nat \ {0}

VARIABLES
  boot,           \* recovery is to come; the listener waits; it is bound
  born, truth, events, \* the ids the engine has announced; its rows, as its events tell them
  ending,         \* rows announced as ended, whose Completed event is the next one
  agg,            \* the aggregator's maps and queues
  flushing, outbox,  \* a flush under way, and the frames it has not published yet
  next, ring, floor, \* the hub: the next number, the retained frames, the last evicted one
  published,      \* the generation behind the StateView
  pc, rx, lagged, cursor,  \* the session
  held, client,   \* the client: its cursor and its rows
  told            \* history: the rows of a client that heard every frame of this boot
engine == <<born, truth, events, ending>>
hub == <<next, ring, floor, told, rx, lagged>>
session == <<pc, cursor, held, client>>
vars == <<boot, engine, agg, flushing, outbox, hub, published, session>>

NoSeq == -1
Row == [status : {"live", "done"}, value : Values]
Rows == UNION {[S -> Row] : S \in SUBSET Items}

Init ==
  /\ boot = "recover"
  /\ born = {} /\ truth = <<>> /\ events = 0 /\ ending = {}
  /\ agg = [current |-> <<>>, last_sent |-> <<>>, dirty |-> <<>>, added |-> <<>>,
            completed |-> {}, removed |-> {}, done |-> <<>>, stale |-> TRUE]
  /\ flushing = FALSE /\ outbox = <<>>
  /\ next = Seed /\ ring = <<>> /\ floor = IF Seed = 0 THEN 0 ELSE Seed - 1
  /\ published = [seq |-> 0, rows |-> <<>>]
  /\ pc = "off" /\ rx = <<>> /\ lagged = FALSE /\ cursor = NoSeq
  /\ held = NoSeq /\ client = <<>> /\ told = <<>>

-----------------------------------------------------------------------------
(* The aggregator's own state, one row at a time.                          *)

DroppedBug(a, S) ==  \* the baseline of an evicted row stays
  [a EXCEPT !.current = Without(@, S), !.dirty = Sans(@, S)]
Dropped(a, S) ==
  [a EXCEPT !.current = Without(@, S), !.last_sent = Without(@, S),
            !.dirty = Sans(@, S)]

EnterDone(a, i) ==
  IF i \in ToSet(a.done) THEN a
  ELSE LET queue == Append(a.done, i)
           over  == IF Len(queue) > MemDone THEN Len(queue) - MemDone ELSE 0
       IN Dropped([a EXCEPT !.done = SubSeq(queue, over + 1, Len(queue))],
                  ToSet(SubSeq(queue, 1, over)))

\* install, store_view and reindex
Install(a, i, r) ==
  LET was  == IF i \in DOMAIN a.current THEN a.current[i].status ELSE "absent"
      kept == [a EXCEPT !.current = Put(@, i, r), !.stale = TRUE]
      seen == IF r.status = "live" THEN [kept EXCEPT !.done = Sans(@, {i})]
              ELSE IF was = "done" THEN kept ELSE EnterDone(kept, i)
  IN IF i \in DOMAIN a.current /\ a.current[i] = r THEN a
     ELSE [seen EXCEPT !.dirty = IF i \in ToSet(@) THEN @ ELSE Append(@, i)]

\* the rows of one event, one after the other
Installed(a, ids, rows) ==
  LET f[k \in 0..Len(ids)] == IF k = 0 THEN a ELSE Install(f[k - 1], ids[k], rows[ids[k]])
  IN f[Len(ids)]

ForgetBug(a, S) ==   \* no frame for a row that has left the done window
  [Dropped(a, S) EXCEPT !.done = Sans(@, S),
                        !.removed = @ \cup (S \cap DOMAIN a.current), !.stale = TRUE]
Forget(a, S) ==
  [Dropped(a, S) EXCEPT !.done = Sans(@, S),
                        !.removed = @ \cup S, !.stale = TRUE]

-----------------------------------------------------------------------------
(* What one flush sends, in its fixed order, and what it leaves behind.    *)

Views(a, S) == Restrict(a.current, S \cap DOMAIN a.current)
Changed(old, new) == Restrict(new, {f \in DOMAIN new : old[f] # new[f]})

\* A dirty row that was never sent goes out whole, as an `added`.
OrphansBug(a) == {}   \* the row waits for a baseline it never gets
Orphans(a) ==
  {i \in ToSet(a.dirty) \cap DOMAIN a.current :
     i \notin DOMAIN a.last_sent \cup a.completed \cup UNION ToSet(a.added)}
Announced(a) ==
  IF Orphans(a) = {} THEN a.added ELSE Append(a.added, Orphans(a))
Whole(a) == Views(a, a.completed \cup UNION ToSet(Announced(a)))
Rebased(a, rows) ==
  [a EXCEPT !.last_sent = Atop(rows, @), !.dirty = Sans(@, DOMAIN rows)]

Drained(a) ==
  LET left == Rebased(a, Whole(a)).dirty
  IN ToSet(SubSeq(left, 1, IF Len(left) < DeltaBudget THEN Len(left) ELSE DeltaBudget))
Held(a) == Drained(a) \cap DOMAIN a.current \cap DOMAIN a.last_sent
Patches(a) ==
  LET diff == [i \in Held(a) |-> Changed(a.last_sent[i], a.current[i])]
  IN Restrict(diff, {i \in DOMAIN diff : diff[i] # <<>>})

Batch(a) == Carrying(
  [g \in DOMAIN Announced(a) |-> Body("added", Views(a, Announced(a)[g]))]
  \o <<Body("completed", Views(a, a.completed)),
       Body("removed", [i \in a.removed |-> <<>>]),
       Body("delta", Patches(a))>>)

Flushed(a) ==
  [Rebased(a, Atop(Whole(a), Views(a, Held(a))))
     EXCEPT !.added = <<>>, !.completed = {}, !.removed = {},
            !.dirty = Sans(@, Drained(a))]

-----------------------------------------------------------------------------
(* The events of the engine, applied in order, one at a time.  No event    *)
(* gets between the two that end a row; a flush may.                       *)

Listening == ~flushing /\ ending = {} /\ events < MaxEvents /\ events' = events + 1

(* await_first_publish: the listener is not bound before the rows recovery *)
(* loaded are published, unless there are none; the ceiling of ten seconds *)
(* is longer than any period of a flush.                                   *)
Awaited(rows) == boot' = IF rows = <<>> THEN "bound" ELSE "wait"

\* Recovery announces what the last process left, history included.
Recover(rows) ==
  /\ Listening /\ boot = "recover" /\ Awaited(rows)
  /\ Cardinality(DOMAIN rows) >= LeftMin
  /\ Cardinality({i \in DOMAIN rows : rows[i].status = "done"}) <= MemDone
  /\ born' = DOMAIN rows /\ truth' = rows
  /\ \E ids \in SetToSeqs(DOMAIN rows) :
       agg' = [Installed(agg, ids, rows) EXCEPT !.added = Append(@, DOMAIN rows)]
  /\ UNCHANGED <<ending, flushing, outbox, hub, published, session>>

Added(i, v) ==
  /\ Listening /\ boot # "recover" /\ i \notin born
  /\ LET r == [status |-> "live", value |-> v]
     IN /\ born' = born \cup {i} /\ truth' = Put(truth, i, r)
        /\ agg' = [Install(agg, i, r) EXCEPT !.added = Append(@, {i})]
  /\ UNCHANGED <<boot, ending, flushing, outbox, hub, published, session>>

\* A persisted change, a progress report, or the retry of an ended row.
StatusChanged(i, v) ==
  /\ Listening /\ i \in DOMAIN truth
  /\ LET r == [status |-> "live", value |-> v]
     IN truth' = [truth EXCEPT ![i] = r] /\ agg' = Install(agg, i, r)
  /\ UNCHANGED <<boot, born, ending, flushing, outbox, hub, published, session>>

Ended(i, v) ==
  /\ Listening /\ i \in DOMAIN truth /\ truth[i].status = "live"
  /\ Cardinality(agg.completed \cup {i}) <= BurstMax
  /\ LET r == [status |-> "done", value |-> v]
     IN truth' = [truth EXCEPT ![i] = r] /\ agg' = Install(agg, i, r)
  /\ ending' = {i}
  /\ UNCHANGED <<boot, born, flushing, outbox, hub, published, session>>

Completed(i) ==
  /\ ~flushing /\ i \in ending /\ ending' = {}
  /\ agg' = [Install(agg, i, truth[i]) EXCEPT !.completed = @ \cup {i}]
  /\ UNCHANGED <<boot, born, truth, events, flushing, outbox, hub, published, session>>

Removed(S) ==
  /\ Listening /\ S # {} /\ S \subseteq DOMAIN truth
  /\ truth' = Without(truth, S) /\ agg' = Forget(agg, S)
  /\ UNCHANGED <<boot, born, ending, flushing, outbox, hub, published, session>>

-----------------------------------------------------------------------------
(* The hub: publish_frame, under the one lock, and resume.                 *)

Newest == IF next = Seed THEN (IF Seed = 0 THEN 0 ELSE Seed - 1) ELSE next - 1

\* The frames of this boot that the published generation does not contain.
Lead == Newest - (IF published.seq + 1 < Seed THEN Seed - 1 ELSE published.seq)

PublishBug(body) ==
  LET entry == [seq |-> next, body |-> body]
      full  == Len(ring) > RingFrames   \* one frame too many is kept
      late  == Len(rx) = Capacity
  IN /\ next' = next + 1
     /\ ring' = Append(IF full THEN Tail(ring) ELSE ring, entry)
     /\ floor' = IF full THEN Head(ring).seq ELSE floor
     /\ told' = Apply(told, body)
     /\ IF pc = "off" THEN UNCHANGED <<rx, lagged>>
        ELSE /\ rx' = Append(IF late THEN Tail(rx) ELSE rx, entry)
             /\ lagged' = (lagged \/ late)
Publish(body) ==
  LET entry == [seq |-> next, body |-> body]
      full  == Len(ring) = RingFrames
      late  == Len(rx) = Capacity
  IN /\ next' = next + 1
     /\ ring' = Append(IF full THEN Tail(ring) ELSE ring, entry)
     /\ floor' = IF full THEN Head(ring).seq ELSE floor
     /\ told' = Apply(told, body)
     /\ IF pc = "off" THEN UNCHANGED <<rx, lagged>>
        ELSE /\ rx' = Append(IF late THEN Tail(rx) ELSE rx, entry)
             /\ lagged' = (lagged \/ late)

\* The bounds: a generation clients may be handed is not too far behind, and
\* before the bind a frame without rows leaves numbers for the first batch.
Room(n) == next + n - 1 <= MaxSeq /\ (boot = "bound" => Lead + n <= LeadMax)
Spare(n) == Room(IF boot = "bound" THEN n ELSE n + MaxEvents)

Window(since) == LET entries == Sans(ring, {e \in ToSet(ring) : e.seq <= since})
                 IN [k \in DOMAIN entries |-> entries[k].body]
Behind(since) == since # Newest /\ (since > Newest \/ since < floor)  \* worth a snapshot
Answered(rows, since) == IF since = Newest THEN rows ELSE ApplyAll(rows, MergeAll(Window(since)))

(* One batch: decided at once, published frame by frame, and the new       *)
(* generation last.  A flush with nothing to do is left out.               *)
Flush ==
  LET batch == Batch(agg) IN
  /\ ~flushing /\ (batch # <<>> \/ agg.dirty # <<>> \/ agg.stale)
  /\ Room(Len(batch))
  /\ flushing' = TRUE /\ outbox' = batch /\ agg' = Flushed(agg)
  /\ UNCHANGED <<boot, engine, hub, published, session>>

Emit ==
  /\ flushing /\ outbox # <<>>
  /\ Publish(Head(outbox)) /\ outbox' = Tail(outbox)
  /\ UNCHANGED <<boot, engine, agg, flushing, published, session>>

Republish ==
  /\ flushing /\ outbox = <<>> /\ flushing' = FALSE
  /\ IF agg.stale THEN /\ published' = [seq |-> Newest, rows |-> agg.current]
                       /\ agg' = [agg EXCEPT !.stale = FALSE]
                       /\ boot' = IF boot = "wait" THEN "bound" ELSE boot
     ELSE UNCHANGED <<boot, published, agg>>
  /\ UNCHANGED <<engine, outbox, hub, session>>

\* A frame that carries no row: from the aggregator's events or a handler.
Notice ==
  /\ boot # "recover" /\ Spare(1 + Len(outbox))
  /\ Publish(Body("other", <<>>))
  /\ UNCHANGED <<boot, engine, agg, flushing, outbox, published, session>>
\* A health transition, which is the aggregator's and marks the generation.
Health ==
  /\ ~flushing /\ Spare(1)
  /\ Publish(Body("other", <<>>)) /\ agg' = [agg EXCEPT !.stale = TRUE]
  /\ UNCHANGED <<boot, engine, flushing, outbox, published, session>>

-----------------------------------------------------------------------------
(* The session, cut at its awaits.                                         *)

Serving == UNCHANGED <<boot, engine, agg, flushing, outbox, next, ring, floor, told, published>>

\* Subscribe first; `?since=` when the client has a cursor.
Connect ==
  /\ boot = "bound" /\ pc = "off" /\ rx' = <<>> /\ lagged' = FALSE /\ cursor' = NoSeq
  /\ pc' \in IF held = NoSeq THEN {"snapshot"} ELSE {"snapshot", "resume"}
  /\ Serving /\ UNCHANGED <<held, client>>

\* The client replaces its rows by the snapshot's.
SendSnapshot ==
  /\ pc = "snapshot" /\ pc' = "catch_up"
  /\ cursor' = IF published.seq = 0 /\ published.rows = <<>> THEN NoSeq ELSE published.seq
  /\ held' = published.seq /\ client' = published.rows
  /\ Serving /\ UNCHANGED <<rx, lagged>>

CatchUpBug ==   \* "subscribe first, snapshot second", and nothing else
  /\ pc = "catch_up" /\ pc' = "open"
  /\ Serving /\ UNCHANGED <<rx, lagged, cursor, held, client>>
CatchUp ==
  LET seen == IF cursor = NoSeq THEN 0 ELSE cursor IN
  /\ pc = "catch_up" /\ pc' = "open"
  /\ IF Newest <= seen \/ Behind(seen) THEN UNCHANGED <<cursor, held, client>>
     ELSE /\ client' = Answered(client, seen)
          /\ cursor' = Newest /\ held' = Newest
  /\ Serving /\ UNCHANGED <<rx, lagged>>

Resume ==
  /\ pc = "resume"
  /\ IF Behind(held) THEN pc' = "snapshot" /\ UNCHANGED <<cursor, held, client>>
     ELSE /\ client' = Answered(client, held)
          /\ cursor' = Newest /\ held' = Newest /\ pc' = "open"
  /\ Serving /\ UNCHANGED <<rx, lagged>>

\* A frame of the bus, unless the snapshot or the fold contained it.
Forward ==
  /\ pc = "open" /\ ~lagged /\ rx # <<>> /\ rx' = Tail(rx)
  /\ LET f == Head(rx) IN
     IF f.seq > cursor THEN /\ cursor' = f.seq /\ held' = f.seq
                            /\ client' = Apply(client, f.body)
     ELSE UNCHANGED <<cursor, held, client>>
  /\ Serving /\ UNCHANGED <<pc, lagged>>

\* RecvError::Lagged: one snapshot, or the end of a client beyond its LAG_BUDGET.
Lag ==
  /\ pc = "open" /\ lagged /\ pc' = "snapshot" /\ lagged' = FALSE
  /\ Serving /\ UNCHANGED <<rx, cursor, held, client>>

\* The client's `resume` frame, on an open socket.
AskResume ==
  /\ pc = "open" /\ pc' = "resume"
  /\ Serving /\ UNCHANGED <<rx, lagged, cursor, held, client>>

\* The network, the client, a send timeout, one lag too many: the client keeps
\* what it has.
Disconnect ==
  /\ pc # "off" /\ pc' = "off" /\ rx' = <<>> /\ lagged' = FALSE /\ cursor' = NoSeq
  /\ Serving /\ UNCHANGED <<held, client>>

Next ==
  \/ \E rows \in Rows : Recover(rows)
  \/ \E i \in Items : Completed(i) \/ \E v \in Values : Added(i, v) \/ StatusChanged(i, v) \/ Ended(i, v)
  \/ \E S \in SUBSET Items : Removed(S)
  \/ Flush \/ Emit \/ Republish \/ Notice \/ Health
  \/ Connect \/ SendSnapshot \/ CatchUp \/ Resume \/ Forward \/ Lag \/ AskResume \/ Disconnect

Spec == Init /\ [][Next]_vars

-----------------------------------------------------------------------------
(* Properties                                                              *)

IsEntry(e) ==
  /\ e.seq \in Nat /\ Ids(e.body) \subseteq Items
  /\ e.body.kind \in {"added", "completed", "removed", "delta", "other"}

(* The variables hold what the aggregator, the hub and the session hold.   *)
TypeOK ==
  /\ boot \in {"recover", "wait", "bound"}
  /\ born \subseteq Items /\ {truth, told, client, published.rows} \subseteq Rows
  /\ DOMAIN truth \subseteq born /\ ending \subseteq DOMAIN truth
  /\ {agg.current, agg.last_sent} \subseteq Rows
  /\ agg.dirty \in Seq(Items) /\ agg.added \in Seq(SUBSET Items) /\ agg.done \in Seq(Items)
  /\ agg.completed \subseteq Items /\ agg.removed \subseteq Items /\ agg.stale \in BOOLEAN
  /\ flushing \in BOOLEAN /\ lagged \in BOOLEAN
  /\ Len(ring) <= RingFrames /\ Len(rx) <= Capacity
  /\ \A e \in ToSet(ring) \cup ToSet(rx) : IsEntry(e)
  /\ {next, floor, published.seq} \subseteq Nat /\ {cursor, held} \subseteq Nat \cup {NoSeq}
  /\ pc \in {"off", "snapshot", "catch_up", "resume", "open"}

Quiet ==
  /\ ~flushing /\ ending = {} /\ agg.dirty = <<>> /\ agg.added = <<>>
  /\ agg.completed = {} /\ agg.removed = {}

(* Once the aggregator has nothing left to send, the frames of this boot   *)
(* have told a client every row the aggregator tracks, and nothing that is *)
(* not what the engine last said: no ended row is stranded as running, and *)
(* no removed row is left behind, whatever shared a batch with what.       *)
FramesAreTrue ==
  Quiet => /\ \A i \in DOMAIN told : i \in DOMAIN truth /\ told[i] = truth[i]
           /\ DOMAIN agg.current \subseteq DOMAIN told

(* A connected client that applies what the bus still holds for it has the *)
(* rows of a client that heard every frame: nothing is lost between the    *)
(* snapshot, the catch-up or the resume, and the subscription.             *)
NoFrameLost ==
  pc = "open" /\ ~lagged /\ ~flushing =>
    LET unseen == Sans(rx, {e \in ToSet(rx) : e.seq <= cursor})
        seen   == ApplyAll(client, [k \in DOMAIN unseen |-> unseen[k].body])
    IN /\ \A i \in DOMAIN seen : i \in DOMAIN told /\ seen[i] = told[i]
       /\ DOMAIN told \cap DOMAIN agg.last_sent \subseteq DOMAIN seen

(* The published generation is never newer than the wire: a REST reader    *)
(* sees no row in a state that no frame has carried.                       *)
GenerationIsTold ==
  ~flushing /\ published.seq = Newest =>
    \A i \in DOMAIN published.rows : i \in DOMAIN told /\ told[i] = published.rows[i]

(* What the clients were told, by frames or by the published generation.   *)
ToldIsTruth == FramesAreTrue /\ GenerationIsTold

(* When a session is about to be answered, folding a window and replaying  *)
(* it frame by frame leave its client with the same rows, from whatever    *)
(* cursor the ring still covers.                                           *)
FoldIsReplay ==
  pc \in {"resume", "catch_up"} =>
    \A since \in floor..Newest, rows \in {client, told} :
      ApplyAll(rows, MergeAll(Window(since))) = ApplyAll(rows, Window(since))

(* A delta patches only rows its reader holds, also when the row had left  *)
(* the done window before that reader connected and came back since.       *)
DeltaKnowsItsRow ==
  [][rx # <<>> /\ rx' = Tail(rx) /\ held' # held /\ held' = Head(rx).seq /\ Head(rx).body.kind = "delta"
       => Ids(Head(rx).body) \subseteq DOMAIN client]_vars
=============================================================================
