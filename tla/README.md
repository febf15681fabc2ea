# Aulos in TLA+

Aulos is a download server: clients add URLs, the server resolves them into media, downloads them
through providers (yt-dlp, StreamingCommunity, command plugins) under a concurrency limit, runs
hooks on the result and streams every change to its clients. This directory models its core and the
services around it, checks the models with TLC and proves their safety with TLAPS. Paths below are
relative to `src/`; the crates are `crates/aulos-*`.

## The system

| Component | State | Operations | Hard behaviour | Module |
|---|---|---|---|---|
| Queue engine (`aulos-queue`: engine, run, cancel, resolve, add, recovery, clear, slots, priority, watchdog) | the rows (`items`), `ready` deques, `running` slots, `resolving` tasks, `retries` timers, `pending_hooks`, semaphores | user commands, answers of tasks, 1 Hz tick, shutdown, recovery | one task owns all of it, but everything it spawns answers later, out of order, or after it was cancelled; a crash at any command; early release of permits, a decision that is stale when it is handled | `Engine` |
| Files of a row (`run`, `cancel`, `recovery`, the NFO hook) | what is on disk, what the row names | download, report, cancel, delete, unlink | unlinks that nobody waits for, against reports, retries and failed writes | `Files` |
| Groups, expansion (`groups`, `resolve`) | `GroupAcc` counters, pending expansion | child added, moved, removed; expand next | counters kept by deltas; commands of many targets that fail in the middle | `Groups` |
| Dedupe (`dedupe`) | map from keys to rows | lookup, insert, remove, rebuild | keys of rows that end, resolve, come back | `Dedupe` |
| Aggregator, hub (`aggregator`, `hub`, `ring`, `ws`) | progress cells, published generation, replay ring, head | domain events, flush, publish, resume | clients that lag or resume while frames are evicted | `Frames`, `Feed` |
| Durable counters (`aulos-store/alloc`) | `meta.ord_hwm`, `meta.seq_hwm`, witness, a block in memory | `next`, `reserve`, `open` | crash inside a reservation, failing reservations, mark behind the table | `HiLo` |
| Store, writer (`aulos-store/actor`) | SQLite tables, a batch of jobs | batched writes, checkpoint, close | lost batches, replay of a failed batch, power loss | `Writer`, `Table` |
| Legacy import (`aulos-store/import`, `import_cmd`) | JSON files, marker, database | import, take back, boot check | two commands at once, failure half way | `Import` |
| Hook dispatcher (`aulos-hooks`) | event inbox, chains, a debounced worker | Finishing, Completed, shutdown | full inboxes, batches, cancellation | `Hooks` |
| Built-in hooks (`jellyfin`, `manifest_hook`) | one invocation, its attempts | request, wait, fall back | the dispatcher's bound against the retries | `HookRuns` |
| Subscriptions (`aulos-subscriptions`) | the table, a watch cell and a task per subscription | subscribe, check, update, delete | crash between queueing and marking; requests that race | `Subs` |
| Providers (`aulos-provider*`) | a job and its process groups | spawn, read, cancel, kill | helpers that keep pipes, exits that race the last lines | `Jobs` |
| Push notifications (`aulos-apns`) | tracks, registrations, throttles | start, update, end | an update after the end, a registration that comes late | `Apns` |
| Telegram board (`aulos-telegram`) | a message per burst of downloads | draw, edit, close | calls lost, refused, throttled while events come | `Board` |
| API reads (`aulos-api/v2`) | tags, cursors | poll, page | requests that span changes | `Reads` |
| yt-dlp options (`config_watch`, `cookies`, `meta`) | a snapshot that several tasks copy and store | reload, upload, remove, poll | lost updates, lost edits | `Options` |
| POT sidecar (`aulos-server/pot`) | a child, its probes, a restart budget | spawn, probe, restart, give up | a window of restarts, stale health | `Pot` |
| Wiring, signals (`wiring`, `signals`) | tasks, tokens, channels | boot, drain, close | who waits for whom | `Shutdown` |

The engine is reached by one bounded channel. Commands of users come from the API, the bot and the
subscriptions; `Resolved`, `Finished` and `Failed` come from the tasks the engine spawned; `Stage`
comes from the job by way of the aggregator, so it may overtake or be overtaken by the outcome;
`HooksFinished` comes from the dispatcher; a watchdog sends an ordinary `Cancel`. The engine writes
through the store's writer, which draws `ord` from the counters; the hub draws `seq`. The engine's
events go through a router to the aggregator, the dispatcher, the notifier and the bot, each with an
inbox that drops what does not fit. `wiring.rs` starts all of them and decides who is stopped first.

What has to be true, component by component:

- engine: a row reads as running exactly while something runs it; never two jobs for one row; a
  row that is to start is never forgotten; only a user revives what ended or unparks what was
  parked; no permit is idle behind the lookahead; everything accepted settles in the end;
- files: removed with their row and only then; partial files survive what may be resumed;
- groups: counters equal the children, the group's row says what they add up to, every entry gets
  its row; dedupe: a key points at a live row and a live row is found;
- hub: what a resuming client is given equals what it missed; reads: a client holds what its tag or
  cursor names, a listing skips nothing;
- counters: never an `ord` twice in the table, never a `seq` twice on the wire; writer: each write
  whole or not at all, in order, and an answered `Sync` write survives; import: once;
- dispatcher: an answer for every `Finishing`, each event in one batch, nothing lost at the end;
  hooks: every promised attempt, and a failure that shows;
- subscriptions: an upload is queued once and none skipped; providers: a true report, and no
  process after it; notifications: one activity, the newest view, nothing after the end; board: it
  says what the engine says and is closed; options: the file and the jar are both in force;
- sidecar: no more starts than the budget, health of this very child; shutdown: it ends, the store
  last.

## Modules

| Module | What it is |
|---|---|
| `Status` | the transition table (`can_transition`), `status_chain`, the clamp of a late stage: pure operators |
| `Lifecycle` | abstract specification: the states a client sees of a row and the moves between them |
| `Engine`, `MCEngine` | the queue engine, one action per handler; one row with everything, three rows that compete |
| `EngineProofs` | its inductive invariant; what a step may do and the refinement of `Lifecycle`; the idle permit |
| `HiLo` | the two durable counters |
| `Lists`, `ListProofs` | the sequence operator that feed and store share; what it returns, and induction up to a number and over the prefixes of a sequence |
| `Frames`, `Feed`, `MCFeed` | frames, what a client does with one, the fold of a window; aggregator, hub and one session; their instance |
| `FeedProofs` | the fold is the replay; the types of the feed; the frames and the generation tell the truth; nothing is lost on the way |
| `Table`, `Writer` | abstract specification of the store; the writer thread that implements it |
| `StoreProofs` | theorems of `Writer`, and the refinement of `Table` |
| `Subs`, `Hooks`, `Dedupe`, `Pot`, `Jobs`, `Options`, `MCServices` | services, and with `Writer` one instance of all |
| `ServiceProofs` | theorems of `Dedupe`, `Pot`, `Subs`, `Options` and `Jobs`, and of `MCServices` |
| `Apns`, `Groups`, `Board`, `Shutdown`, `MCServer` | the server's outer parts and one instance of all |
| `ServerProofs` | theorems of `Apns`, `Board`, `Groups` and `Shutdown`, and of `MCServer` |
| `Import`, `Reads`, `Files`, `HookRuns`, `MCHiLo` | parts of which only safety is claimed, and with `HiLo` one instance of all |
| `ReadsProofs`, `HookProofs` | theorems of `Reads`, `Files`, `Import`, `HiLo` and `HookRuns`; of `Hooks` |

The composites (`MCServices`, `MCServer`, `MCHiLo`) put components side by side that share no state.
A variable `scene` says which of them runs; the others stay where they begin, where nothing is due
of them. Some scenes narrow the inputs of their component, which the module says; an unnarrowed
instance of each component has the same questions and more states. What a component assumes of its
neighbours is in its own module: events may come whenever the neighbour may send them.

### Engine

`row[i]` is all that is known of an id. Its first fields are the persisted columns (`status`,
`auto_start`, whether it is resolved, `attempt`, whether `clear_after` is set, whether it waits for
a premiere). The next are the engine's maps: `ready` (the deque it is on, if any), `timer` (an entry
of `retries`), `resolving`, `slot` (the `RunSlot`: `held`, or settled by a pause or a cancel),
`hooks` (an entry of `pending_hooks`). The rest is outstanding outside the engine: `jobs` that
have not reported, resolution answers (`tasks`: of the task spawned last, of an earlier one, or of
one a blanket cancel condemned), stage `frames`, the hook answer of the open window (`own`) and of
closed windows (`stale`), a watchdog's cancel (`cut`).

A handler runs to completion on the engine's task, so an action is a whole handler including its
trailing `schedule()`; a handler of several ids applies its operation to each and schedules once.
`Schedule(f)` is one pass over the deques. It is stated declaratively (`Admitted`): the started
rows are reachable within the lookahead of their class, fit their pools, and nobody was passed over
while its pool had a permit. Permits are not counted: what is left of a pool is its size less the slots
that are held, so the semaphore is taken at its word, and that it is never overdrawn is the guard
`Fits` and no result. Any order of events the channel allows is an interleaving of actions.

What the model merges or bounds:

- the end of a job and the report of its end are one step: until it is handled, the job counts;
- frames of one row are a set of at most `MaxFrames`, handled in any order; hook answers of closed
  windows are counted to `MaxStale`; redirects to `MaxHops`, which also stands for the one
  fall-through to the next provider; `attempt` saturates at `MaxAttempt` instead of at 65535;
  the process goes down `MaxBoots` times;
- an aborted resolution may have answered already, or never answer (`ResolveAborted`);
- time is a choice: a timer, a deadline or a sweep is taken when it is enabled;
- the restart policy is chosen anew by every shutdown and boot; a missing provider is treated as a
  degraded one, as `schedule()` does;
- a batch `Add` is several `Add`s.

`Faults` names orders of events an instance lets happen. Three of them break a promise of the code
or its documentation, and each has a run of its own that shows it: `late_frame`, `sweep_live`,
`shutdown_in_grace`. The passing runs leave them out, so that what they check is not drowned by a
known fault.

### HiLo

`hwm` and `witness` are the columns of `meta`, `stored` the `ord`s of the table, `pending` those
on their way to the writer, `cursor[c]` the block in memory. `next()` is three actions: a value of
the block, a reservation and its first value, or a failed reservation. A reservation commits before
its first value is handed out; `CrashInReserve` is the crash between the two. `issued` and `failed`
are history. An absent mark is 0, an absent witness -1; an unparseable mark and a poisoned mutex are
not modelled. The cursor of a dead process is kept, and never read by `Open`, so that
`BootSkipsOneBlock` can compare it with the next one.

### Frames and Feed

A set of rows is a function from ids to records, a patch a record of some fields, a frame body a
kind with rows, patches or ids. `Apply` is what a client does with a frame (the oracle of
`tests/realtime.rs`, which is `docs/PROTOCOL.md` section 7); `Merge` is one turn of the loop of
`Ring::merge_after`, `MergeAll` the frames `encode_fold` sends. What runs over a sequence (`ApplyAll`,
`Folded`, `Sans`, `Installed`) is a recursive function on the prefixes, so that it can be proved about.

In `Feed`, `agg` is the aggregator: `current`, `last_sent`, `dirty`, the three pending queues,
`done` (`done_queue`) and `stale` (`state_dirty`). `next`, `ring`, `floor` are the hub; `published`
the generation behind the `StateView`; `rx`, `lagged`, `cursor`, `pc` the session, cut at its awaits;
`held` and `client` the cursor and the rows of the client, which outlive its connections. `truth` is
what the engine's events say, `told` (history) the rows of a client that heard every frame. `boot`
is the order `wiring.rs` starts things in: recovery first, then the bind, which waits until the
recovered rows are published (`Awaited`, `await_first_publish`) and does not wait when there are none;
no client connects before it. `Seed` is the boot's first frame number, `LeftMin` the rows it recovers
at least.

The aggregator takes one event at a time. `flush()` decides its batch from its own state (`Batch`,
`Flushed`), and then publishes frame by frame (`Emit`) and republishes last (`Republish`), because
sessions and handlers run beside it. `publish_frame` holds the ring's lock from the number to the
broadcast and is one step. Two events end a row, `StatusChanged` and `Completed`; no event of the
engine comes between them, a flush may.

Left out or merged: `Added`, `Completed` and `Removed` frames have no reason and are not chunked; the
ring is bounded in frames, not in bytes; no groups, no `done=false`; a cursor of another boot, which
is answered with a snapshot like one above the head; a frame that fails to encode. Progress reports
are `StatusChanged`. What is sent to the client arrives at once, or the connection is over
(`Disconnect`, at any await); `LAG_BUDGET` is one of the reasons for that. The kinds that carry no
row (`Notice`) are published by the aggregator's events and by API handlers, at any time.

Three constants are assumptions on the load and not limits of the code: `BurstMax` (rows that end
between two flushes, at most the done window), `LeadMax` (frames of this boot that a generation
clients may be handed lacks; with the bus it stays within the ring, 512 frames against a bus of 256), and `DeltaBudget` (800
dirty rows per flush by default). What happens beyond each is among the disagreements below.

### Writer and Table

A call of `Store::write` waits for a permit, is sent, and is answered. The thread is `wrPhase`: it
receives a job, extends the batch for the window, drains what is there already, commits, replays a
failed batch job by job, and does the checkpoint or close it came upon. `wrCommits` is the database
after each commit, `wrSafe` how much of it is on the platter. SQLite is taken at its word: a
transaction is whole, and a FULL commit or a checkpoint makes everything before it safe. A power loss
goes back to any commit from `wrSafe` on. `Table` is what callers are promised; `T!TableSpec` is the
refinement, with the rows after each commit as its states and the jobs sent and not answered as its
pending writes.

### Subs, Hooks, Dedupe, Pot, Jobs, Options

`Subs`: the manager's maps (`subKnown`, `subIndex`, `subSlot`, `subPending`), the store's rows
(`subUrl`, `subEnabled`, `subSeen`), and for every subscription its watch cell and its task, cut at
its awaits: due, permit, probe, read of the seen, queue, report. A command on a subscription is one
step of the manager; the write in it may fail. `subExcuse` records the orders in which the code
queues an upload twice.

`Hooks`: the inbox of the dispatcher, a task per `Finishing`, chains behind a semaphore, and the
worker of the debounced hook, which gathers events for a window with a cap and fires them a few
batches at a time. That a hook succeeds, fails, panics or times out comes to the same.

`Dedupe`: rows numbered in the order of their `ord`, the key of the URL and the key of the resolved
media, and which rows are in memory. `ddLoose` are the live rows the code does not keep under their
URL: retried ones, twins of one batch, those unresolved at a boot.

`Pot`: the supervisor's loop, with time in ticks, the age of each restart inside the window, and the
published status. History `ptStarts` is the age of each start, against which the budget is checked.

`Jobs`: one download of one of four kinds. A tool is a process group of a leader and helpers, which
may outlive it and hold its pipes. The job reads lines, looks at its token where the code does, and
kills with SIGTERM, grace, SIGKILL; the drop guard's late SIGKILL is `jbLate`. Faults: a dropped
task, a failed spawn, a failed read. No process owes a step.

`Options`: one snapshot that the watcher, SIGHUP, the reload route and the cookie routes copy, change
and store, cut between copy and store; three kinds of file backend; boots. `opLost` and `opRaced`
record an edit nobody looks for and changes that overlapped.

### Apns, Groups, Board, Shutdown

`Apns`: one item, its events in order, and tasks for start, completion and the throttled trailing
edge, each cut where it awaits the store or Apple. A push is claimed under its token; `alloc_ts`
makes the last claimed one win on the phone. `apExcuse` records lost events and refused tasks.

`Groups`: the group's row, the children's rows, the accumulator, the done window and the expansion.
A command that names the group works through its targets one after the other and may fail or crash at
each. `grLoose` says that the group's row was not written by its roll-up, `ghosts` are the children
that the code can no longer subtract. A playlist may be empty: a plugin's `group` frame without entries
is promoted all the same.

`Board`: one chat. The actor is deaf while it waits for Telegram (`bdCall`); calls are lost, refused
or throttled. `bdMissed` are jobs of which the inbox dropped an event, `bdUntold` jobs of a board
given up before it was ever drawn; a message carries whether the board knows its text (`known`) and
its id (`ours`).

`Shutdown`: the main function's steps, each task with the channels whose senders it holds, and the
ceilings. A task that can end does so before a ceiling, unless it is the slow one. It has no
parameters: the state space is the code's.

### Import, Reads, Files, HookRuns

`Import`: databases are numbered, so that one taken away and one created anew are told apart. A
command is cut between the check of the path, opening, reading, writing, the marker and the taking
back.

`Reads`: a client polls by tag or by cursor while the aggregator sends frames and publishes a
generation last; another client pages through the rows. What an answer will carry is decided before
its body is completed. Contents are numbers, each new one different.

`Files`: one row, five kinds of file. Unlinks of one removal are one step of a task nobody waits for;
subtitle frames and the report reach the engine in either order. `flSetup` (kind of provider,
whether orphans are cleaned) does not change. `flLost` records the failures that may leave a file.

`HookRuns`: one invocation after another. An attempt takes any time up to its timeout, a killed
command up to the grace more; `Bound` is the time the dispatcher allows.

## Runs

| Run | Distinct states | Shows |
|---|---|---|
| `engine_row` | 25,296 | one subscription row with hooks, every command, two policies, one restart: type, ownership, one job, nothing stranded, answers, who may revive and unpark, refinement of `Lifecycle`, everything settles |
| `engine_slots` | 21,804 | three rows, a global pool of one, a provider with one own slot that may degrade, lookahead 1: no permit idle, nobody starves |
| `hilo` | 795,694 | counters, import, polls, pages, files and hook runs, one at a time |
| `feed` | 679,525 | two rows, three events, five frames, a boot that recovers a row: the frames tell what the engine said, a session that connects, resumes, lags or goes away in the middle of a flush misses nothing, a fold equals the replay, a delta meets its row |
| `services` | 182,992 | subscriptions, dispatcher, dedupe, writer, sidecar, jobs, options, one at a time |
| `server` | 280,025 | notifications, playlists, board, shutdown, one at a time |
| `engine_late_frame` | | violated: `RunningHasOwner`, frames may be late |
| `engine_sweep_live` | | violated: `SweepTakesTheSettled`, the sweep may come after a retry |
| `engine_shutdown_in_grace` | | violated: `OnlyStartUnparks`, shutdown during the kill grace |
| `engine_stale_hooks` | | violated: `OwnHooksFinalise` |
| `hilo_reissue` | | violated: `AboveWitness` |
| `feed_boot` | | violated: `NoFrameLost`, a boot that recovers nothing and whose first frame is number 2 |

### Bounds

- Engine. Rows meet only in the scheduler and in the batch a shutdown writes, so one row is enough
  for everything else, and `engine_slots` gives the scheduler two rows on one pool and one on
  another, in two classes, with a lookahead that one waiting row uses up. One restart is enough
  because what survives is the columns, and every combination of them is reached before it.
  `MaxAttempt` 1 is `AutoRetryMax`: the automatic retry, the user's retry and the saturated counter
  all happen, and no branch reads more of the counter.
- Feed. Rows meet only in a batch, so two of them give every mixture of kinds in one; a ring of
  three and a bus of one are both overrun by the five frames, and three events let a row end, leave
  the done window and come back, or be added and removed in one batch. The boot counts from 2: any
  number but 0 is like it, since nothing looks at more than whether a number is below another. It
  recovers a row (`LeftMin` 1), so that the bind waits; the boots that recover none are those of
  `feed_boot`, and of a fresh database, which counts from 0.
- Counters. Values up to 3 in blocks of 2 and 3, and two restarts: a counter exhausts a block, is
  interrupted in a reservation and comes back twice.
- Import: two commands, one failure, three records of two URLs. Reads: a ring of 2, three changes,
  two boots; four rows, pages of 1 and 2, one row that starts or stops to match. Files: two
  downloads, two failures. Hook runs: timeouts of 1 and 10 seconds, 0 to 3 retries, two invocations.
- Subscriptions: two ids, three spellings of two URLs, two uploads, one permit, one command or fault.
  Dispatcher: three items, inboxes of two, one chain, one flight, a window of 1 with a cap of 2.
  Dedupe: two rows, two keys of each kind, two retries or restarts. Writer: an insert, a `Sync`
  change and a write that fails half way on one row, two permits, batches of two, one fault. Sidecar:
  a budget of 2 in a window of 3, two probes, pauses of 1 and 2, four restarts. Jobs: four kinds,
  three lines, a budget of two, one fault. Options: three backends, two edits, two boots.
- Notifications: an inbox of two, four events, one fault, two devices. Playlists: two entries in
  batches of one, a done window of two (the group and another row can fill it, and it is the least the
  property holds with), three commands with one fault or one with two. Board: two jobs, an inbox of two, three messages, five turns of the engine (three for two jobs), one fault.

Most of these bounds let each limit of the code be met once and then exceeded (an inbox, a window, a
budget, a batch); the theorems below do not depend on them.

### Fairness

A spawned task reports (`RunJob` has a drop guard; resolutions have a timeout), the 1 Hz tick keeps
coming (`ExpireHooks`, `ReleaseRetry`), a premiere's hour comes (`VideoDue`), and whatever supervises
the process starts it again (`Recover`). No fairness is assumed of users, of hook answers or of
stage frames. `EventuallySettles` then says that an accepted row ends, is parked by a user or by the
policy, or waits for a premiere.

In the services: the runtime polls every task that is ready (weak fairness of each task's next step,
`SubTaskStep`, `SubManagerStep`, `DispatcherStep`, `WorkerStep`, `JobStep`, `LoopStep`, `OnEvent`,
`MainSteps` and their neighbours), time passes (`DueComes`, `Tick`, `CacheAges`, `WindowPasses`,
`Poll`), and a hook, a probe and a call end, by their timeout if by nothing else. Strong fairness is
assumed of one step only, `Acquire` of a subscription: tokio's semaphore is first come, first served.
No process of a job owes a step, nobody need edit, reload or retry, and of the shutdown's tasks only
those that are not slow end by themselves. `Feed` has no liveness property: a flush is due when the
clock says so, and a client may never connect. `Writer`, `Dedupe`, `Pot`, `Import`, `Reads`, `Files`
and `HookRuns` have none either; what must come about in them is an answer to a call, and which one
it is, is what their safety says.

Deadlock is checked in the engine and the feed, which never stop. The other instances may: all values
are handed out, a call was made, a server has exited.

## Disagreements between the code and what is said of it

Six have a run that shows them:

- *Late frames* (`engine_late_frame`). `handle_stage` refuses a frame of a terminal, settled or
  hook-waiting row. A frame that arrives after the settled slot was released finds none of the
  three, and `status_chain(queued, downloading)` is legal: the row reads as downloading, with no job.
- *Auto-clear after a retry* (`engine_sweep_live`). Neither retry clears `clear_after`, and
  `due_clears` does not look at the status: a retried row is removed while its job runs.
- *Shutdown in the kill grace* (`engine_shutdown_in_grace`). `running` keeps a paused or cancelled
  row until its process is dead, and a shutdown hands all of `running` over as scheduled.
- *Hook answers name no run* (`engine_stale_hooks`). The answer of a run that was paused in its hook
  window finalises the next run while its own hooks are still at work.
- *Failed reservations* (`hilo_reissue`). After one, the last frame number before a graceful shutdown
  is the first of the next boot; after a crash, all numbers handed out from memory come again.
- *The first flush of a boot* (`feed_boot`). A boot that recovers no row binds at once, with the empty
  generation of `seq` 0, and the ring's floor is where the allocator stands. A client that connects
  between the `added` frame of the first row and the republish of that flush is caught up from 0,
  which is below the floor: `catch_up` gives up and the frame is lost, although the ring holds it. The
  run uses a boot that starts at 2; every boot that finds a used database with no rows left in it is
  like it. Where rows are recovered the bind comes after their generation, and `feed` passes.

The others were met while the modules were written. Each is excused by name in the property it would
break, so that the rest of the property is still checked, or lies outside the model; `PROJECT.json`
quotes code and text of each.

- Engine: recovery arms `clear_after` for cancelled rows, which the running engine never does; a
  retry does not put the row's dedupe keys back; the label of the pre-terminal hook is asked for with
  a view that has no filename yet, so the audio-sync window never opens.
- Feed: frame number 0 of a fresh database is never replayed (`Seed` 0 with `LeftMin` 0 violates
  `NoFrameLost`); after more row-less frames than the ring holds `catch_up` gives up in a flush
  (`LeadMax` above `RingFrames`); a row that the done window evicts before its flush is never announced
  as completed (`BurstMax` above `MemDone` violates `ToldIsTruth`); with more dirty rows than a flush may
  patch the generation holds states no frame carried (`DeltaBudget` 1 violates `ToldIsTruth`).
- Writer: a `Sync` job taken after the window is committed at NORMAL and acknowledged (`wrDrained`);
  of two checkpoints in one batch the first is told the store is closed.
- Boot: after a crash with a job under way `await_first_publish` counts the requeued row twice and waits
  its whole ceiling of ten seconds.
- Groups: a child that ends in a done window without room for it is dropped from memory before it is
  counted, and its group is not rolled up (`GrWindow` 1 violates `GroupsKeepAndExpand`);
  cancelling a group does not cancel its expansion once the last child rolled it up; a child
  deleted after it left the done window stays counted for ever; a retried child of a group that left
  the window runs without it, and may be cascaded over; a crash between a child's write and the
  roll-up leaves the group queued; a group without children reads queued, also when all were removed;
  a group cancelled before its first child stays queued when retried; entries not yet inserted are
  lost in a crash.
- Dedupe: two requests of one batch with one key both become rows; the key of a resolved media id
  replaces whatever is there.
- Subscriptions: a check that is asked for during a check may start before the first one's marks are
  written, and queues uploads twice; a `check_now` that was acknowledged may be overwritten; a task
  that waits for a permit is checked although it was paused; pruning forgets ids still in the feed; a
  check that panics is never made again.
- Dispatcher and hooks: the debounced hook may fire before the chain that its documentation puts
  first; the bound of a manifest's invocation is too short for more than two retries, or for two that
  have to be killed.
- Providers: a helper that keeps a pipe, or a child that never reads its parameters, holds the job
  beyond its token and deadlines (`Wedged`); `cooperative` is followed by a SIGKILL and `none` by a
  SIGTERM; `kill_group` spares a helper that ignores SIGTERM; the mux does not hear a cancel; the
  shim's loop sees neither its child's exit nor its stderr.
- Notifications: a trailing edge that the full task set refuses stays armed for ever, and a refused
  completion is never sent; a late completion ends the item of a retry; a device that registers during
  the removal gets no end; a dead token's pruning removes the device's new one; a timer pushes the
  view instead of the event's status; a dropped start edge mutes a whole run.
- Board: an edit whose answer is lost leaves a text the board does not know; a board that was never
  drawn retires in silence; events dropped during a 429 leave a board open; `Limiter::forget` has no
  caller.
- Options: an edit between reload and fingerprint, or before the first fingerprint, is not seen
  (`opLost`); the four writers of the snapshot can undo each other (`opRaced`); the reload route does
  not repair the component; the message of a failed reload is read under a key nobody writes; busy
  directories starve the poll.
- Files: unlinks precede the delete that may fail; a failed read of the evicted rows leaves their
  files; a failed write of `start_job` or `finalise_success` strands a row; frames and reports of
  a deleted row leave files in no record; the NFO hook may write after the deletion.
- Reads: subscriptions and options do not change the tag while the queue is idle (`SubsUntold`); a
  client that polls by cursor never hears of them; total and page are two statements.
- Sidecar: the back-off is reset by uptime, healthy or not; the last restart of the budget is counted
  and not made. Wiring: the sidecar and any open session keep the drain waiting to its ceiling; no
  session is sent 1001; after an engine's panic the signal task keeps the tracker waiting; consumers
  are detached, not aborted.
- Import: it does not run from the boot; `meta.imported_at` cannot guard against a deleted database;
  a failing import takes back a database others have written to; records are placed by the first
  record of their URL.

## Proofs

All theorems are about the specifications the runs check, for every value of the constants that the
modules' named assumptions admit; TLC evaluates those assumptions in the runs. Each follows from an
inductive invariant that TLC checked first.

`EngineProofs` proves, for any finite set of rows, any pools and any bounds, the type invariant and
`RunningHasOwner`, `OneJobPerRow`, `NoStrandedRow` and `ResolvingHasAnswer`, under
`Orderly`: no late frames and no sweep of a live row (the two faults that break them). They follow
from `IInv`. Its core, `Base`, ties the fields of one row together: a slot has exactly one job; a row
is running exactly when its slot is held or its window is open; a window is open only in
`postprocessing`, after the slot is gone; a listed row waits and is resolved; a resolving row is in
`resolving` and its last task has not answered. The listed properties alone are not inductive:
without the clause on listed rows, for example, `schedule()` might start a row that is not resolved,
and without the one on windows a cancel would leave one behind. `Idle` adds that no frame of an
earlier run is left when a row waits, `Left` says what a dead process leaves.

It also proves what a step may do: `OnlyUserRevives`, `OnlyStartUnparks` and the refinement
`ImplementsLifecycle`. A handler is, row by row, an operation followed by a schedule or by nothing
(`Handles`). `Quiet` says of an operation that it is a move of the lifecycle and neither revives nor
unparks the row, `Heeds` that it does so only at the user's word, `Later` what the scheduler makes of
the result; there is one lemma per handler that its operation is one of these. The hypothesis is `Graceful`: `Orderly`,
and no shutdown in the grace of a settled job. The three excluded orders are those of the violation
runs, which show that none of them can be dropped.

And it proves `NoIdlePermit`. Its invariant, `ServedInv`, says of every row with a claim to a
permit that its pool is full or the rows ahead of it in its class fill the lookahead. It does not
mention which providers are degraded, because that changes between two passes. A handler that does
not schedule is `Calm`: it lists no row and frees no permit.

`StoreProofs` proves `SyncIsSafe` of the writer. `SyncInv` adds to the property what the thread keeps
(`Kept`, the types) and what it holds (`Holds`: a Sync job in the batch has raised `wrSync`, or was
drained); a commit under `wrSync` moves `wrSafe` to the end.

And it proves that the writer implements the table (`WriterImplementsTable`), for any calls with any
operations. The table's `pending` is the batch followed by the jobs of the channel (`Pend`).
`TableInv` adds to `SyncInv` that the calls in `Pend` are those that were sent, each once (`SentOnce`),
that a thread that is gone leaves none, and that no commit is without rows (`RowsLeft`). Then a message
that the thread takes changes nothing a caller sees (`Unseen`); a batch that commits is the table's
`Decide` of so many of the oldest calls, because a transaction that works is one in which the table
takes every call (`AllTaken`, by induction over the batch on the two recursive functions); one job of
the replay is a `Decide` of one, refused when the fault was not its own; a close is a `TurnAway` of
what is left, a power loss a `Lose`.

And the writer's types (`WriterTypesHold`), with two limits in them: the calls that have been sent and
not answered are at most the permits, and a batch at most what a transaction may hold (`Limits`). The
first needs `TableInv`, because a permit is only free again once the call that held it has left `Pend`.

`ServiceProofs` proves `DedupeFindsLive` and `PotIsHonest`. For the index: minted rows have a URL,
and every live row is in memory, so that an entry found is a live duplicate exactly when there is
one. For the sidecar: start *n* is followed by restart *n + 1*, noted no later than the start is
forgotten; so the starts of a window inject into the noted restarts and one more.

Of the other services it proves the types and the safety half of what the runs check, step by step
(`[][...]_vars`); the other half is liveness.

- *Subscriptions* (`SubsStayTrue`). What the manager serves is what a boot would load, at most one
  subscription has a URL, and no upload is queued twice without its excuse. `SubsInv` follows a mark
  on its way: of what was queued for a subscription, each upload is in the row, in a message of the
  channel, with the task, or excused (`Marks`), so that a check that has read the row has only excused
  ones before it again. `Announced` does the same for the flag that a check runs: the last message of
  a subscription says whether it checks now, and the slot does when there is none.
- *Options* (`JarStaysNamed`). The options in force name the cookie jar exactly when there is one,
  unless two changes overlapped. `JarHeld`: without an overlap one cookie route at most is half way,
  the jar is as it left it, and none is half way before the boot.
- *Jobs* (`ReportsAreTrue`). No success without the tool's work, and no failure of a plugin or shim
  that did its work and that nothing made the job end. `JobsInv` says at each place of the job what
  has been read of the lines (`JobsPlaced`), that the shim's lines read so far were not refused
  (`JobsAccepts`), and that a tool on which a report rests is over (`JobsTold`).

`ServerProofs` does the same for the two clients, for playlists and for the shutdown.

- *Notifications* (`EndsAreLast`). An end is the last word to its activity, and a download starts one,
  unless it began while the end of its last run was on its way. `ApnsInv`: the events come in order
  and no start is younger than what is still to come (`ApnsOrdered`); where an item has been started no
  end is on its way, nor where a start of this run is (`ApnsStarted`).
- *Board* (`BoardStaysTrue`). Between two events the actor watches the jobs that are not over, its rows
  say what the engine says, no message is left under a live header, and the end of a job is on a
  board or on one that was closed. `BoardInv` says why the events that are still to come make it so:
  of a job that no event was dropped of, each goes on where the one before it ended, and an end is
  followed by its `completed` (`Chain`); the last one ends where the engine is, and the actor knows
  what the first one begins with (`BoardTold`). `ChainGrows` and `ChainShrinks` move it along with the
  inbox.
- *Playlists* (`GroupsStayTrue`, `GroupsSpareLive`), for any number of entries, size of a batch, commands
  and crashes, and a done window of two or more (`GrWindow > 1`). Memory holds the live children, the
  accumulator counts the stored ones, the group's row is what they add up to, and no clear or sweep takes
  a child that is still to run. The property alone is not inductive; `GroupsInv` adds three things.
  `InMemory`: the rows of the done window are over, so that an eviction takes no live child out of
  memory, and an accumulator lives only as long as the group's row is in memory; the group is in the
  window once at most, so that a child that has just ended finds a place (`NewestStays`), which is what
  the hypothesis is for. `Counted`: the total is the sum of the counts, which is why a drift check that
  sees as many children in memory as were counted sees all of them. `NextFree`: the entries from the next
  index on have no rows, so that a batch is counted once. The accumulator subtracts with saturation; that
  it never saturates is what `RemovedIs` and `MovedIs` show. The functions from a state to the next have
  one lemma each (`EvictedTrims`, `WriteStatusIs`, `RetriedIs`, `ForgetIs`, `SyncedIs`), counting rests
  on three on disjoint sets (`Marked`, `ByStatus`, `UnderParts`), and there is one lemma per action.
  `GroupsSpareLive` then follows from the roll-up: a group that reads over has no queued or running child
  (`OverSpares`).
- *Shutdown* (`ShutdownOrderly`), whichever optional tasks run and whichever task is slow. `ShutdownInv`
  says, at each of the steps of the boot and of the drain, which tasks have been spawned
  (`SpawnedSoFar`), which senders are held (`HeldSoFar`), which tokens are cut (`CutSoFar`) and who is
  over by then (`OverSoFar`).

The two instances that run several components get their types from all the invariants together
(`ServicesTypesHold`, `ServerTypesHold`): a step of the one whose scene it is is a step of its own and a
stutter of the rest. In `MCServer` a playlist and a shutdown whose scene it is not begin outside their
`Init`, as a playlist that was deleted and a server that has exited; `GoneIsFine` and `ExitedIsFine` show
that their invariants hold there too.

`HookProofs` proves the types and limits of the dispatcher (`HooksTyped`) and that each event is in one
batch at most (`BatchedOnce`: `HooksBatchOnce`, the safety half of `HooksDeliver`, at every step).
`HooksInv` adds that the completed events in the inbox, the worker's queue and the batch under way are
different ones (`EventsOnce`, `PlacedOnce`), and that the first of a batch does not wait beyond the cap
(`WaitsWithin`).

`ReadsProofs` proves `FilesFollowTheRow` and `ReadsHold`. For the files, `FilesInv` says that at most
one report is under way and which slot it finds (`JobKnown`), that what the row names, or what a
report is about to name, is on the disk until it is to be removed (`NamesHold`), and that every output
on the disk is named, announced or being unlinked (`OutputsKnown`, `ScratchKnown`). One lemma per
action shows that it keeps this; `Excuses` that a step leaves a file without a record only in the
cases the property names.

For the reads, `PollsInv` says that the published generation is what the frames up
to its number say of the rows, that whatever is not published is due, and that a client of this boot
holds the rows of its number; a client that polls by tag is never ahead of the generation, and at its
number the health it does not know is still to come. The rows of a number are those of the last frame
about rows up to it: the lemmas on the maximum of a set of frame numbers (`LastOf`, `Grown`,
`SameRows`, `LaterRows`) say how that moves with one more frame and with a resume. `PagesInv` says
that a row selected all the time has been returned or lies beyond the cursor.

And it proves `ImportHolds`, in two parts. What a batch carries is a matter of operators: `Kept` says,
prefix by prefix of the records, that what `ResolveDuplicates` has kept is of each URL the earliest of
the most advanced records so far, at the place of the URL's first record (`TakeKeeps`,
`DuplicatesResolved`); `BatchIsRight` follows with the numbers of the records (`StagedOrdered`). What
commands do to the databases is `ImportInv`: until a failed command has taken away a database that
another process had met, every open command and the server hold the database at the path (`AtPath`);
of two that hold one database, a command has met the other (`Meets`); a database that a command
created and nobody else met is empty until that command has written (`Untouched`); a database has no
more batches than commands have committed to it (`Counted`); and without force and without a meeting,
a command past the check finds neither a marker nor rows (`Passed`), so that a second batch takes a
deleted database whose import had left no marker (`OnlyOne`). One lemma per action.

It proves of the counters, for every block size, that inserts never collide, whatever failed (`InsertsAlwaysSucceed`), that crashes alone never repeat a value (`NothingReissued`), and that
a boot skips at most a block (`BootsSkipLittle`). The invariant: rows lie below the block, and, while
no reservation failed, the mark covers the block and everything handed out. That `MAX(ord)` exists
for a bounded set is proved from the well-foundedness of inclusion on finite sets.

Of one invocation of a hook it proves `HookRunsHold`. The time spent is at most the attempts made, each
at its longest, with the waits between them, a kill's grace each, and a whole first round when the hook
fell back to the global scan. Compared with `Bound` it follows that the dispatcher's limit cuts off no scan, and no
manifest of two retries, or of one when its command has to be killed: exactly the line that
`KeepsItsTries` draws, and the finding lies beyond it.

`FeedProofs` proves five things of the feed, for any finite set of rows and any sizes.

*The fold is the replay* (`MergeIsReplay`, and `ResumeIsReplay` for the states a session is answered
in). The library's induction theorems cannot be instantiated here, but the well-foundedness of the
natural numbers is a first-order fact: `UpTo` derives from it that what holds at 0 and is kept by one
more holds up to *n*, `SeqInduction` the same over the prefixes of a sequence. `Effect` says what the
frames of a fold leave of a client's rows; one turn of `Merge` has the effect of one `Apply`
(`MergeHasEffect`), and frames without a row have none (`CarryingIsEnough`).

*Types* (`FeedTypeOK`). `FeedTyped` also types each frame in the outbox, the ring and the bus.

*The frames tell the truth* (`FramesTellTruth`). Told that nothing is left to send, a client agrees with
the engine; the invariant, `FrameInv`, says what it may be wrong about before. It speaks of `Heard`, the
rows of a client that has also heard the frames of the flush under way, so that publishing them
changes nothing. `Sound`: the tables hold what the engine says, a row not dirty is at its baseline,
the done window holds ended rows, each once. `Honest`: the client has every baseline; a row the
aggregator has let go is as the engine left it, or its removal is due. The hard case is the eviction: a
row pushed out of the done window takes its baseline and its dirt with it, and no frame would ever
correct a client with an old state of it. `Tidy` says why there is none: from the first row of the
window that a client has an old state of (`Late`), all rows are in the next `completed` frame or are
about to be. They are at most `BurstMax`, so that a window at least as long evicts none of them
(`FewAreLate`, `DoneHonest`). `BatchTells` says what the batch tells in its order, added, completed,
removed, delta; `FlushHonest` that the baselines a flush leaves are what was told.

*The generation is told* (`ToldTruth`). `GenInv` adds that a flush leaves nothing dirty, which takes the
second hypothesis, and that the generation is no newer than the newest frame. The hypotheses are
two of the assumptions on the load: `BurstMax <= MemDone`, and `DeltaBudget` at least the number of
rows. Beyond each the property fails (see the disagreements above).

*Nothing is lost* (`NothingIsLost`, `DeltasKnowTheirRows`). `NoFrameLost` and `DeltaKnowsItsRow` are
about one client and come from one invariant, `LostInv`, on what lies between the aggregator and it:

- `Numbered`, `Heads`: the ring holds the numbers from its floor to the head without a gap, and the
  receiver holds the last of those frames;
- `Led`, `Cursors`: the generation lacks at most `LeadMax` frames, and a client that has not lagged is
  not further behind than its receiver, so that the ring covers both;
- `Caught`, of the client and of the published generation: with the frames of the ring behind its
  number applied, it has the rows of a client that heard everything, but for rows that have a
  baseline and are still to come whole from the outbox; and each delta among those frames finds its row;
- `Ends`: a delta is the last frame of a batch, and patches rows with a baseline.

A snapshot hands the second `Caught` to the client, a resume and a catch-up shorten the tail that the
first one applies (by `MergeHasEffect`, the fold does what the frames do), a frame from the bus takes the
first of it, and `PublishLost` appends one to both. A row with a baseline that is still to come whole
is what a snapshot in the middle of a flush lacks; the session is owed it until the outbox is empty.
Besides the two hypotheses of `ToldTruth` it takes `LeadMax + Capacity <= RingFrames`, which is why the
ring is longer than the bus, `Seed # 0`, and `LeftMin # 0`: the boot recovers some row. `BootInv` is
what the last one gives: while the listener waits no session has begun, and once it is bound the
generation reaches up to where the boot's numbers begin. Without it no row need be recovered, the listener is bound to the
generation of `seq` 0, and `feed_boot` shows what happens.

Only model-checked: liveness (`EventuallySettles`, `HooksAnswered`, `HooksFlushed`, `SubsCheckedAgain`,
`JobsEnd`, `OptionsFollow`, `ApnsLatestIsShown`, `GroupsExpands`, `BoardSettles`, `ShutdownEnds`), which is
out of the prover's reach. What is safety in them (the right reports of a job, the one batch of an
event) is proved above.

## Not modelled, and the plan

Not modelled in the engine: `HookWrite`, panics of resolution tasks and the capacity of the command
channel (a row whose task is gone waits for the next boot), the resolve semaphore. In the aggregator:
progress cells, byte budgets, chunks, group roll-ups. In the store: migrations, row codecs. In the
hooks: naming of the NFO, audio sync's own work. In the server: configuration, templates and
manifests of plugins, re-scan of plugins, probes of tools, rendering, metrics, TLS, the commands and
settings of the bot, routing of pushes to devices and their encryption. These are parsing, formatting
or calls of external programs, or have no state that outlives a call.
