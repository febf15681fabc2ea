------------------------------ MODULE Engine ------------------------------
(***************************************************************************)
(* The queue engine of aulos-queue: one task that owns every row and       *)
(* handles one command at a time, against the tasks it has spawned         *)
(* (resolutions, downloads, watchdogs), the hook dispatcher and the        *)
(* aggregator, whose answers come back as commands on the same channel.    *)
(*                                                                         *)
(* A handler runs to completion before the next command, so one action is  *)
(* one handler, the trailing schedule() included.  What interleaves is     *)
(* what is outstanding: answers of tasks that were aborted too late, stage *)
(* frames that travel through the aggregator, hook answers of a run that   *)
(* was parked, a watchdog's cancel, crashes and restarts.                  *)
(***************************************************************************)
EXTENDS Status, FiniteSets

CONSTANTS
  Items,          \* the ids rows are minted under
  Ord,            \* Ord[i]: the row's place in insertion order (next_ord)
  Origin,         \* Origin[i]: the priority class of a first attempt
  Subs,           \* rows whose source is a subscription
  Hooked,         \* rows a pre-terminal hook has a label for
  Providers, ProviderOf, \* the provider resolution names for a row
  OwnSlots,       \* OwnSlots[p]: its own permits, 0 for the global pool
  Flaky,          \* providers whose preflight may degrade
  MaxConcurrent,  \* MAX_CONCURRENT_DOWNLOADS
  Lookahead,      \* AULOS_SCHED_LOOKAHEAD
  AutoRetryMax,   \* AULOS_AUTO_RETRY_MAX
  Policies,       \* the values of AULOS_RESTART_POLICY a process may run under
  Clearing,       \* CLEAR_COMPLETED_AFTER > 0
  HardTimeout,    \* AULOS_JOB_TIMEOUT_SECS > 0
  MaxHops,        \* AULOS_RESOLVE_MAX_DEPTH redirects and one fall-through
  MaxAttempt,     \* bound: where `attempt` saturates
  MaxFrames,      \* bound: stage frames of one row on their way at once
  MaxStale,       \* bound: hook answers of closed windows on their way
  MaxBoots,       \* bound: how often the process goes down
  Commands,       \* the user commands this instance presses
  Faults          \* the orders of events this instance lets happen

Ranked  == <<"retry", "interactive", "subscription", "bulk">>   \* Priority::ALL
Classes == {Ranked[k] : k \in 1..4}
Task    == {"own", "stale", "doomed"}   \* the last one spawned, and answers of earlier ones

ASSUME OrdAssumption ==
  Ord \in [Items -> Nat] /\ \A i, j \in Items : Ord[i] = Ord[j] => i = j
ASSUME RoutingAssumption ==
  /\ Origin \in [Items -> Classes] /\ ProviderOf \in [Items -> Providers]
  /\ OwnSlots \in [Providers -> Nat] /\ "global" \notin Providers
ASSUME SetAssumption == IsFiniteSet(Items) /\ Subs \subseteq Items /\ Hooked \subseteq Items
ASSUME BoundAssumption ==
  /\ MaxConcurrent \in Nat /\ Lookahead \in Nat /\ AutoRetryMax \in Nat
  /\ MaxHops \in Nat /\ MaxAttempt \in Nat /\ MaxFrames \in Nat /\ MaxStale \in Nat
  /\ MaxBoots \in Nat
ASSUME SwitchAssumption ==
  /\ Policies \subseteq {"resume", "pause"} /\ Clearing \in BOOLEAN
  /\ HardTimeout \in BOOLEAN /\ Flaky \subseteq Providers

VARIABLES row, up, degraded, boots
vars == <<row, up, degraded, boots>>

(***************************************************************************)
(* What is known of one id.  The first line is the persisted row, the      *)
(* second the engine's own maps, the third what is outstanding outside it: *)
(* job tasks that have not reported, resolution answers, stage frames, the *)
(* hook answer of the open window and those of closed ones, and a          *)
(* watchdog's cancel.  `wait` is a not_yet_live error whose retry_at is    *)
(* still ahead.                                                            *)
(***************************************************************************)
Row == [status : Statuses \cup {"new", "gone"}, auto : BOOLEAN, resolved : BOOLEAN,
        attempt : 0..MaxAttempt, clear : BOOLEAN, wait : BOOLEAN,
        ready : Classes \cup {"none"}, timer : BOOLEAN, resolving : BOOLEAN,
        slot : {"none", "held", "paused", "canceled"}, hooks : BOOLEAN,
        jobs : Nat, tasks : SUBSET Task, hops : 0..MaxHops, frames : SUBSET Running,
        own : BOOLEAN, stale : 0..MaxStale, cut : BOOLEAN]

New == [status |-> "new", auto |-> FALSE, resolved |-> FALSE, attempt |-> 0,
        clear |-> FALSE, wait |-> FALSE, ready |-> "none", timer |-> FALSE,
        resolving |-> FALSE, slot |-> "none", hooks |-> FALSE, jobs |-> 0,
        tasks |-> {}, hops |-> 0, frames |-> {}, own |-> FALSE, stale |-> 0, cut |-> FALSE]

Init == row = [i \in Items |-> New] /\ up = TRUE /\ degraded = {} /\ boots = 0

Known(r)   == r.status \in Statuses
Ended(r)   == r.status \in Terminal
Settled(r) == r.slot \in {"paused", "canceled"}

----------------------------------------------------------------------------
(* One row, one operation.                                                 *)

Write(r, s, a) ==                                     \* write_status
  IF Known(r) /\ Writable(Edge(r.status, r.auto), Edge(s, a))
  THEN [r EXCEPT !.status = s, !.auto = a] ELSE r

Terminate(r, s) ==
  IF Known(r) /\ Writable(Edge(r.status, r.auto), Edge(s, r.auto))
  THEN [r EXCEPT !.status = s, !.wait = FALSE,
                 !.clear = @ \/ (Clearing /\ s \in {"finished", "error"})]
  ELSE r

BumpBug(n) == n + 1                 \* a counter that does not saturate
Bump(n) == IF n < MaxAttempt THEN n + 1 ELSE n

Enqueue(i, r) == [r EXCEPT !.ready = IF r.attempt > 0 THEN "retry" ELSE Origin[i]]

CloseWindow(r) == [r EXCEPT !.hooks = FALSE]

(* An aborted task may have sent its answer already; CancelScope::All      *)
(* condemns the answers that are out, by the epoch they carry.             *)
Disowned(ts) == IF "own" \in ts THEN (ts \ {"own"}) \cup {"stale"} ELSE ts
Condemned(ts) == IF ts = {} THEN {} ELSE {"doomed"}

(* The redirects are counted for the last task; those of a task it         *)
(* replaced no longer matter.                                              *)
Spawn(r, hops) ==                                     \* spawn_resolve
  [r EXCEPT !.resolving = TRUE, !.hops = hops, !.tasks = Disowned(@) \cup {"own"}]

RestartResolution(r) ==
  IF r.resolving THEN r
  ELSE Spawn([r EXCEPT !.ready = "none", !.status = "resolving", !.wait = FALSE], 0)

Settle(r, how) ==
  [r EXCEPT !.slot = IF @ = "none" THEN "none" ELSE how]

CancelOne(r) ==
  LET s == Terminate(Settle(CloseWindow(r), "canceled"), "canceled")
  IN  [s EXCEPT !.ready = "none", !.timer = FALSE, !.resolving = FALSE,
                !.tasks = IF r.resolving THEN Disowned(@) ELSE @]

ParkRunning(r) ==
  [Write(Settle(CloseWindow(r), "paused"), "queued", FALSE) EXCEPT !.ready = "none"]

RetryOne(i, r) ==
  LET q == [r EXCEPT !.status = "queued", !.auto = TRUE, !.wait = FALSE, !.attempt = Bump(@)]
  IN  IF q.resolved THEN Enqueue(i, q) ELSE RestartResolution(q)

WaitForVideo(r) ==
  [r EXCEPT !.status = "queued", !.wait = TRUE, !.timer = @ \/ r.auto]

ArmAutoRetry(r) ==
  [r EXCEPT !.status = "queued", !.auto = TRUE, !.wait = FALSE,
            !.attempt = Bump(@), !.timer = TRUE]

FinaliseSuccess(r) == IF Known(r) /\ ~Ended(r) THEN Terminate(r, "finished") ELSE r

(* forget(): the row leaves every index but `running` and `resolving`.     *)
Forget(r) ==
  [CloseWindow(r) EXCEPT !.status = "gone", !.auto = FALSE, !.resolved = FALSE,
     !.attempt = 0, !.clear = FALSE, !.wait = FALSE, !.ready = "none", !.timer = FALSE]

(* What a process that is gone leaves of a row: its columns.               *)
Persisted(r) ==
  [New EXCEPT !.status = r.status, !.auto = r.auto, !.resolved = r.resolved,
              !.attempt = r.attempt, !.clear = r.clear, !.wait = r.wait]

----------------------------------------------------------------------------
(***************************************************************************)
(* schedule(): the four classes in rank order, each scanned from its       *)
(* oldest entry until Lookahead entries had to wait.  An entry is dropped, *)
(* failed, started or left waiting; only the last kind counts.             *)
(***************************************************************************)
Rank(c) == CHOOSE k \in 1..4 : Ranked[k] = c
PoolOf(i) == IF OwnSlots[ProviderOf[i]] > 0 THEN ProviderOf[i] ELSE "global"
Permits(p) == LET n == IF p = "global" THEN MaxConcurrent ELSE OwnSlots[p]
              IN  IF n = 0 THEN 1 ELSE n
Holders(f, p) == {i \in Items : PoolOf(i) = p /\ f[i].slot = "held"}

Listed(f)  == {i \in Items : f[i].ready # "none"}
Wanted(r)  == r.status = "queued" /\ r.auto /\ ~r.timer
CandidatesBug(f) ==                 \* `running` is not looked at
  {i \in Listed(f) : Wanted(f[i]) /\ f[i].resolved /\ ProviderOf[i] \notin degraded}
Candidates(f) ==
  {i \in Listed(f) : /\ Wanted(f[i]) /\ f[i].slot = "none" /\ f[i].resolved
                     /\ ProviderOf[i] \notin degraded}

Ahead(f, i) ==                  \* the entries scanned before i
  {j \in Listed(f) : \/ Rank(f[j].ready) < Rank(f[i].ready)
                     \/ f[j].ready = f[i].ready /\ Ord[j] < Ord[i]}
Waits(f, S, j) ==
  Wanted(f[j]) /\ (f[j].slot # "none" \/ j \in Candidates(f) \ S)
Window == IF Lookahead = 0 THEN 1 ELSE Lookahead
Reached(f, S, i) ==
  Cardinality({j \in Ahead(f, i) : f[j].ready = f[i].ready /\ Waits(f, S, j)}) < Window

(* S is what one pass starts: candidates it reaches, never more of a pool  *)
(* than it has left, and nobody passed over while their pool had a permit. *)
Fits(f, S) ==
  \A p \in Providers \cup {"global"} :
    LET started == {i \in S : PoolOf(i) = p}
    IN  started # {} =>
          Cardinality(Holders(f, p)) + Cardinality(started) <= Permits(p)
Greedy(f, S) ==
  \A i \in Candidates(f) \ S : Reached(f, S, i) =>
    Cardinality(Holders(f, PoolOf(i)))
      + Cardinality({j \in S \cap Ahead(f, i) : PoolOf(j) = PoolOf(i)}) >= Permits(PoolOf(i))
Admitted(f, S) ==
  S \subseteq {i \in Candidates(f) : Reached(f, S, i)} /\ Fits(f, S) /\ Greedy(f, S)

StartJob(r) ==
  [Write(r, "preparing", r.auto) EXCEPT !.ready = "none", !.slot = "held", !.jobs = @ + 1]

After(f, S, i) ==
  LET r == f[i]
  IN  IF i \in S THEN StartJob(r)
      ELSE IF r.ready = "none" \/ Waits(f, S, i) \/ ~Reached(f, S, i) THEN r
      ELSE IF Wanted(r) /\ r.resolved
      THEN [Terminate(r, "error") EXCEPT !.ready = "none"]     \* fail_degraded
      ELSE [r EXCEPT !.ready = "none"]

(* Unless this instance lets a stage frame be late, the frames of a run    *)
(* have all been handled by the time its row waits in the queue again.     *)
Delivered(r) ==
  IF "late_frame" \notin Faults /\ r.status = "queued" /\ r.slot = "none"
  THEN [r EXCEPT !.frames = {}] ELSE r

Put(f) == row' = [i \in Items |-> Delivered(f[i])]
PutOne(i, r) == Put([row EXCEPT ![i] = r])
(* One pass over what f has become; the singleton computes it once.        *)
Schedule(f) ==
  \E g \in {f}, S \in SUBSET Items : Admitted(g, S) /\ Put([i \in Items |-> After(g, S, i)])
ScheduleOne(i, r) == Schedule([row EXCEPT ![i] = r])
Live == up /\ UNCHANGED <<up, degraded, boots>>

----------------------------------------------------------------------------
(***************************************************************************)
(* User commands.  A command names several ids, runs one after the other   *)
(* on each, and schedules once at the end.                                 *)
(***************************************************************************)
Change(S, Op(_, _)) ==
  [i \in Items |-> IF i \in S /\ Known(row[i]) THEN Op(i, row[i]) ELSE row[i]]

Add(i) ==
  /\ Live /\ row[i].status = "new"
  /\ \E a \in BOOLEAN : PutOne(i, Spawn([New EXCEPT !.status = "resolving", !.auto = a], 0))

(* A playlist's expansion mints a row that is resolved already.            *)
AddChild(i) ==
  /\ Live /\ row[i].status = "new" /\ Origin[i] = "bulk"
  /\ \E a \in BOOLEAN :
       LET r == [New EXCEPT !.status = "queued", !.auto = a, !.resolved = TRUE]
       IN  ScheduleOne(i, IF a THEN Enqueue(i, r) ELSE r)

StartOne(i, r) ==
  LET q == [r EXCEPT !.auto = TRUE]
  IN  CASE r.status = "resolving" -> q
        [] r.status = "queued" /\ r.wait      -> [q EXCEPT !.timer = TRUE]
        [] r.status = "queued" /\ ~r.wait     ->
             IF r.resolved THEN Enqueue(i, q) ELSE RestartResolution(q)
        [] r.status \in {"error", "canceled"} -> RetryOne(i, r)
        [] OTHER -> r

PauseOne(i, r) ==
  CASE r.status = "queued" /\ r.auto ->
         [r EXCEPT !.auto = FALSE, !.ready = "none", !.timer = FALSE]
    [] r.status \in Running -> ParkRunning(r)
    [] OTHER -> r

CancelRow(i, r) == IF Ended(r) THEN r ELSE CancelOne(r)
RetryRowBug(i, r) == IF Ended(r) THEN RetryOne(i, r) ELSE r   \* any terminal row
RetryRow(i, r)  == IF r.status \in {"error", "canceled"} THEN RetryOne(i, r) ELSE r
DeleteRow(i, r) == Forget(CancelRow(i, r))

Start(S)  == Live /\ "start"  \in Commands /\ Schedule(Change(S, StartOne))
PauseBug(S) == Live /\ "pause" \in Commands /\ Put(Change(S, PauseOne))  \* no schedule()
Pause(S)  == Live /\ "pause"  \in Commands /\ Schedule(Change(S, PauseOne))
Cancel(S) == Live /\ "cancel" \in Commands /\ Schedule(Change(S, CancelRow))
Retry(S)  == Live /\ "retry"  \in Commands /\ Schedule(Change(S, RetryRow))
Delete(S) == Live /\ "delete" \in Commands /\ Schedule(Change(S, DeleteRow))

Remove(S) == Put([i \in Items |-> IF i \in S THEN Forget(row[i]) ELSE row[i]])
Clear     == Live /\ "clear" \in Commands /\ Remove({i \in Items : Ended(row[i])})

(* CancelScope::All moves the epoch on, which condemns every resolution    *)
(* that is still out.                                                      *)
CancelResolve ==
  /\ Live /\ "cancel_resolve" \in Commands
  /\ Schedule([i \in Items |->
       LET r == [row[i] EXCEPT !.tasks = Condemned(@)]
       IN  IF r.resolving THEN CancelOne(r) ELSE r])

----------------------------------------------------------------------------
(***************************************************************************)
(* Resolution.  The answer of a task is handled whoever it belongs to: the *)
(* row's status and the epoch are all that is looked at.                   *)
(***************************************************************************)
Outcomes == {"video", "pre_error", "upcoming", "redirect", "not_yet_live", "failed"}

OnOutcomeBug(i, r, o) ==            \* a redirect past the cap ends nothing
  IF o = "redirect" THEN IF r.hops < MaxHops THEN Spawn(r, r.hops + 1) ELSE r
  ELSE IF o = "video" THEN Enqueue(i, [r EXCEPT !.resolved = TRUE, !.status = "queued"])
  ELSE Terminate(r, "error")

OnOutcome(i, r, o) ==
  LET named == [r EXCEPT !.resolved = TRUE]
  IN  CASE o = "video" ->
             LET q == [named EXCEPT !.status = "queued", !.wait = FALSE]
             IN  IF r.auto THEN Enqueue(i, q) ELSE q
        [] o = "pre_error" -> [named EXCEPT !.status = "queued", !.auto = FALSE, !.wait = FALSE]
        [] o = "upcoming" /\ i \in Subs     -> WaitForVideo(named)
        [] o = "not_yet_live" /\ i \in Subs -> WaitForVideo(r)
        [] o = "redirect" /\ r.hops < MaxHops -> Spawn(r, r.hops + 1)
        [] OTHER -> Terminate(r, "error")

Resolved(i) ==
  /\ Live
  /\ \E t \in row[i].tasks, o \in Outcomes :
       LET r == [row[i] EXCEPT !.tasks = @ \ {t}, !.resolving = FALSE]
       IN  IF r.status # "resolving" THEN PutOne(i, r)
           ELSE IF t = "doomed" THEN PutOne(i, CancelOne(r))
           ELSE ScheduleOne(i, OnOutcome(i, r, o))

(* An aborted task that had not sent its answer yet never will.            *)
ResolveAborted(i) ==
  /\ Live
  /\ \E t \in row[i].tasks \ {"own"} : PutOne(i, [row[i] EXCEPT !.tasks = @ \ {t}])

----------------------------------------------------------------------------
(* Downloads.                                                              *)

EmitStage(i) ==
  /\ Live /\ row[i].jobs > 0 /\ Cardinality(row[i].frames) < MaxFrames
  /\ \E s \in Running \ row[i].frames : PutOne(i, [row[i] EXCEPT !.frames = @ \cup {s}])

(* Refused once the provider no longer owns the row.                       *)
StageRefusedBug(r) == ~Known(r) \/ Ended(r) \/ r.hooks     \* frames of a settled job pass
StageRefused(r) == ~Known(r) \/ Ended(r) \/ Settled(r) \/ r.hooks
HandleStage(i) ==
  /\ Live
  /\ \E s \in row[i].frames :
       LET r == [row[i] EXCEPT !.frames = @ \ {s}]
       IN  PutOne(i, IF StageRefused(r) THEN r ELSE Write(r, Clamped(s, r.status), r.auto))

(* release_job: the report of a settled job frees what it still holds, and *)
(* the row it could not start meanwhile is listed again.                   *)
ReportedBug(r) == [r EXCEPT !.jobs = @ - 1]                 \* the slot is not dropped
Reported(r) == [r EXCEPT !.jobs = @ - 1, !.slot = "none"]
Release(i, r) ==
  LET q == Reported(r)
  IN  IF Known(q) /\ q.status = "queued" /\ q.auto THEN Enqueue(i, q) ELSE q

(* The Finishing event a hook waits for is dropped when the dispatcher's   *)
(* inbox is full; the deadline is then the only way on.  An answer that is *)
(* still out belongs to an earlier window from here on, and does not say.  *)
OpenWindow(r, delivered) ==
  LET w == Write(r, "postprocessing", r.auto)
  IN  IF w.status # "postprocessing" THEN FinaliseSuccess(r)
      ELSE [w EXCEPT !.hooks = TRUE, !.own = delivered,
                     !.stale = IF r.own /\ @ < MaxStale THEN @ + 1 ELSE @]

(* The report of a job the engine has settled, or whose row is no more.    *)
JobOver(i) ==
  /\ Live /\ row[i].jobs > 0
  /\ \/ Settled(row[i]) /\ ScheduleOne(i, Release(i, row[i]))
     \/ /\ ~Settled(row[i]) /\ (~Known(row[i]) \/ Ended(row[i]))
        /\ PutOne(i, Reported(row[i]))

UnsettledBug(i) == Live /\ row[i].jobs > 0 /\ Known(row[i])  \* a late report counts
Unsettled(i) ==
  Live /\ row[i].jobs > 0 /\ ~Settled(row[i]) /\ Known(row[i]) /\ ~Ended(row[i])

HandleFinished(i) ==
  /\ Unsettled(i)
  /\ IF i \in Hooked
     THEN \E delivered \in BOOLEAN : ScheduleOne(i, OpenWindow(Reported(row[i]), delivered))
     ELSE ScheduleOne(i, FinaliseSuccess(Reported(row[i])))

HandleFailed(i) ==
  /\ Unsettled(i)
  /\ LET r == Reported(row[i])
     IN  \/ \E s \in {"canceled", "error"} : ScheduleOne(i, Terminate(r, s))
         \/ r.attempt < AutoRetryMax /\ ScheduleOne(i, ArmAutoRetry(r))
         \/ i \in Subs /\ ScheduleOne(i, WaitForVideo(r))

(* The hard timeout asks for a cancel through the channel everyone uses.   *)
WatchdogFires(i) ==
  /\ Live /\ HardTimeout /\ row[i].slot = "held" /\ ~row[i].cut
  /\ PutOne(i, [row[i] EXCEPT !.cut = TRUE])
HandleCut(i) ==
  /\ Live /\ row[i].cut
  /\ LET r == [row[i] EXCEPT !.cut = FALSE]
     IN  ScheduleOne(i, IF Known(r) THEN CancelRow(i, r) ELSE r)

Answered(r) == IF r.hooks THEN FinaliseSuccess(CloseWindow(r)) ELSE r
HooksFinished(i) ==
  /\ Live
  /\ \/ row[i].own /\ PutOne(i, Answered([row[i] EXCEPT !.own = FALSE]))
     \/ row[i].stale > 0 /\ PutOne(i, Answered([row[i] EXCEPT !.stale = @ - 1]))

ExpireHooks(i) ==
  Live /\ row[i].hooks /\ PutOne(i, FinaliseSuccess(CloseWindow(row[i])))

----------------------------------------------------------------------------
(* Time.                                                                   *)

ReleaseOneBug(i, r) ==              \* an unresolved row is dropped from its timer
  LET q == [r EXCEPT !.timer = FALSE]
  IN  IF r.status # "queued" \/ ~r.auto \/ ~r.resolved THEN q ELSE Enqueue(i, q)
ReleaseOne(i, r) ==
  LET q == [r EXCEPT !.timer = FALSE]
  IN  IF r.status # "queued" \/ ~r.auto THEN q
      ELSE IF r.resolved THEN Enqueue(i, q) ELSE RestartResolution(q)
ReleaseRetry(i) ==
  Live /\ row[i].timer /\ ~row[i].wait /\ ScheduleOne(i, ReleaseOne(i, row[i]))
VideoDue(i) == Live /\ row[i].wait /\ PutOne(i, [row[i] EXCEPT !.wait = FALSE])

(* A retry leaves clear_after armed, and the sweep does not look at the    *)
(* status; this instance may assume it never comes due in that state.      *)
SweepClears ==
  /\ Live /\ Clearing
  /\ \E S \in SUBSET {i \in Items : row[i].clear} \ {{}} :
       /\ "sweep_live" \in Faults \/ \A i \in S : Ended(row[i])
       /\ Remove(S)

ProviderHealth ==
  /\ up /\ UNCHANGED <<row, up, boots>>
  /\ \E p \in Flaky : degraded' = IF p \in degraded THEN degraded \ {p} ELSE degraded \cup {p}

----------------------------------------------------------------------------
(* Going down and coming back.                                             *)

(* handle_shutdown hands every id in `running` and `resolving` to the next *)
(* boot in one batch, which fails whole when one of the rows is gone.      *)
HandedOver(r, resume) ==
  CASE r.slot # "none" -> [r EXCEPT !.status = "queued", !.auto = resume]
    [] r.slot = "none" /\ r.resolving -> [r EXCEPT !.status = "queued", !.auto = @ /\ resume]
    [] OTHER -> r
Down == up' = FALSE /\ boots' = boots + 1 /\ degraded' = {}
Shutdown ==
  /\ up /\ boots < MaxBoots /\ Down
  /\ "shutdown_in_grace" \in Faults \/ \A i \in Items : ~Settled(row[i])
  /\ LET lost == \E i \in Items : ~Known(row[i]) /\ (row[i].slot # "none" \/ row[i].resolving)
     IN  \E policy \in Policies :
           row' = [i \in Items |->
                    Persisted(IF lost THEN row[i] ELSE HandedOver(row[i], policy = "resume"))]
Crash ==
  up /\ boots < MaxBoots /\ Down /\ row' = [i \in Items |-> Persisted(row[i])]

RecoveredBug(r, resume) ==          \* every waiting row takes the policy's flag
  IF r.status \in Statuses \ Terminal
  THEN [r EXCEPT !.status = "queued", !.auto = resume] ELSE r
Recovered(r, resume) ==
  CASE r.status = "resolving" -> [r EXCEPT !.status = "queued", !.auto = @ /\ resume]
    [] r.status \in Running ->
         [r EXCEPT !.status = "queued", !.auto = resume, !.attempt = Bump(@)]
    [] Ended(r) -> [r EXCEPT !.clear = @ \/ Clearing]
    [] OTHER -> r
RequeuedBug(i, r) ==                \* a premiere's timer is not restored
  IF r.status # "queued" \/ ~r.auto \/ r.wait THEN r
  ELSE IF r.resolved THEN Enqueue(i, r) ELSE RestartResolution(r)
Requeued(i, r) ==
  IF r.status # "queued" \/ ~r.auto THEN r
  ELSE IF r.wait THEN [r EXCEPT !.timer = TRUE]
  ELSE IF r.resolved THEN Enqueue(i, r) ELSE RestartResolution(r)
Recover ==
  /\ ~up /\ up' = TRUE /\ UNCHANGED <<degraded, boots>>
  /\ \E policy \in Policies :
       Schedule([i \in Items |-> Requeued(i, Recovered(row[i], policy = "resume"))])

----------------------------------------------------------------------------
Command == \E S \in SUBSET Items \ {{}} :
             Start(S) \/ Pause(S) \/ Cancel(S) \/ Retry(S) \/ Delete(S)
Next ==
  \/ \E i \in Items :
       \/ Add(i) \/ AddChild(i)
       \/ Resolved(i) \/ ResolveAborted(i)
       \/ EmitStage(i) \/ HandleStage(i)
       \/ JobOver(i) \/ HandleFinished(i) \/ HandleFailed(i)
       \/ WatchdogFires(i) \/ HandleCut(i) \/ HooksFinished(i) \/ ExpireHooks(i)
       \/ ReleaseRetry(i) \/ VideoDue(i)
  \/ Command \/ Clear \/ CancelResolve \/ SweepClears \/ ProviderHealth
  \/ Shutdown \/ Crash \/ Recover

Spec == Init /\ [][Next]_vars

(* Every task reports in the end, the channel is drained, the 1 Hz tick    *)
(* keeps coming and whatever supervises the process starts it again.       *)
Fairness ==
  /\ \A i \in Items :
       /\ WF_vars(Resolved(i))
       /\ WF_vars(JobOver(i) \/ HandleFinished(i) \/ HandleFailed(i))
       /\ WF_vars(ExpireHooks(i)) /\ WF_vars(ReleaseRetry(i)) /\ WF_vars(VideoDue(i))
  /\ WF_vars(Recover)
FairSpec == Spec /\ Fairness

----------------------------------------------------------------------------
(* Every row is one of the columns, maps and outstanding answers above; in *)
(* particular `attempt` saturates instead of running off.                  *)
TypeOK == row \in [Items -> Row] /\ up \in BOOLEAN /\ degraded \subseteq Providers /\ boots \in 0..MaxBoots

(* While the process is up a row reads as running exactly as long as a job *)
(* it did not settle holds its slot, or its hook window is open.           *)
RunningHasOwner ==
  up => \A i \in Items :
    row[i].status \in Running <=> row[i].slot = "held" \/ row[i].hooks

(* One job task per slot: no order of pause, start, cancel and retry runs  *)
(* two downloads of one row, nor leaves a slot nobody will report on.      *)
OneJobPerRow ==
  \A i \in Items : row[i].jobs = IF row[i].slot = "none" THEN 0 ELSE 1

(* A row that asked to start is never forgotten: it is on a deque, has a   *)
(* timer, or waits for the job it replaces to be killed.                   *)
NoStrandedRow ==
  up => \A i \in Items :
    row[i].status = "queued" /\ row[i].auto
      => row[i].ready # "none" \/ row[i].timer \/ Settled(row[i])

(* A row reads as resolving only while the task it spawned last will       *)
(* answer, and that answer is not condemned.                               *)
ResolvingHasAnswer ==
  up => \A i \in Items :
    row[i].status = "resolving" => "own" \in row[i].tasks

(* No permit idles while a row that could take it stands within the        *)
(* lookahead of its class: every handler that frees one, or lists a row,   *)
(* schedules before it returns.                                            *)
NoIdlePermit ==
  up => \A i \in Candidates(row) :
    Cardinality({j \in Ahead(row, i) : row[j].ready = row[i].ready}) < Window
      => Cardinality(Holders(row, PoolOf(i))) >= Permits(PoolOf(i))

(* What failed or was cancelled runs again only when a user says so.       *)
OnlyUserRevives ==
  [][\A i \in Items :
      Ended(row[i]) /\ Known(row'[i]) /\ ~Ended(row'[i])
        => \E S \in SUBSET Items : i \in S /\ (Start(S) \/ Retry(S))]_vars

Parked(r) == r.status = "queued" /\ ~r.auto

(* A parked row stays parked until a user starts, cancels or removes it.   *)
OnlyStartUnparks ==
  [][\A i \in Items :
      Parked(row[i]) /\ row'[i].status \notin {"canceled", "gone"} /\ ~Parked(row'[i])
        => \E S \in SUBSET Items : i \in S /\ Start(S)]_vars

(* The auto-clear sweep takes rows whose download is over.                 *)
SweepTakesTheSettled ==
  [][\A i \in Items :
      row[i].status \in Statuses \ Terminal /\ row'[i].status = "gone"
        => \E S \in SUBSET Items : i \in S /\ Delete(S)]_vars

(* While the hooks of this run are still to answer, the row is finished    *)
(* only by their answer or by the deadline.                                *)
OwnHooksFinalise ==
  [][\A i \in Items :
      row[i].hooks /\ row[i].own /\ row'[i].status = "finished"
        => ~row'[i].own \/ ExpireHooks(i)]_vars

Seen(r) == IF Parked(r) THEN "parked" ELSE r.status
L == INSTANCE Lifecycle WITH node <- [i \in Items |-> Seen(row[i])], alive <- up

(* The engine shows a row only in the states of the lifecycle, and moves   *)
(* it only along its moves.                                                *)
ImplementsLifecycle == L!Spec

(* Whatever is accepted ends, is parked, or waits for a premiere.          *)
EventuallySettles ==
  \A i \in Items :
    []<>(Known(row[i]) => Ended(row[i]) \/ Parked(row[i]) \/ row[i].wait)
===========================================================================
