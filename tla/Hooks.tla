-------------------------------- MODULE Hooks --------------------------------
(***************************************************************************)
(* aulos-hooks, the dispatcher.  It takes the engine's Finishing and       *)
(* Completed events in order.  A Finishing starts a task that runs the     *)
(* pre-terminal hooks and then answers the engine; a Completed starts a    *)
(* chain of post-terminal hooks, a few chains at a time, and goes to the   *)
(* worker of the debounced hook, which gathers events into batches.  When  *)
(* the engine is gone the tail is flushed and everything is waited for.    *)
(*                                                                         *)
(* Abstracted: which hooks apply to an item, and what a hook does; that it *)
(* succeeds, fails, panics or runs into its timeout comes to the same.     *)
(***************************************************************************)
EXTENDS Integers, Sequences, FiniteSets

CONSTANTS
  HkItem,        \* downloads, each of which finishes or fails once
  HkPre,         \* pre-terminal hooks that apply
  HkInbox,       \* the dispatcher's place in the event router, in events
  HkJobs,        \* HOOK_INBOX, the worker's inbox
  HkChains,      \* CHAIN_CONCURRENCY
  HkFlights,     \* DEBOUNCE_CONCURRENCY
  HkWindow, HkMaxWait   \* the debounce window and its cap, in ticks

ASSUME HkAssumption ==
  /\ {HkPre, HkInbox, HkJobs} \subseteq Nat /\ {HkChains, HkFlights, HkWindow} \subseteq Nat \ {0}
  /\ HkMaxWait \in Nat /\ HkMaxWait >= HkWindow

NoTimer == -1

VARIABLES
  hkPhase,     \* engine: hkPhase[i] is "active", "finishing" or "completed"
  hkEngine,    \* engine: whether it still holds its end of the router
  hkCancel,    \* the shutdown grace has run out
  hkEvents,    \* the dispatcher's inbox, oldest first
  hkLoop,      \* the dispatcher: "run", "join" once its inbox is closed, then "done"
  hkTasks,     \* pre-terminal tasks, with the hooks each has left to run
  hkWaiting,   \* chains that wait for a permit, first come first
  hkRunning,   \* items whose chain runs
  hkJobs,      \* the worker's inbox
  hkBatch,     \* the worker: the events it has gathered, oldest first
  hkFirst,     \* the worker: the representative of the batch, if any
  hkAge,       \* the worker: ticks since the first event of the batch
  hkDue,       \* the worker: ticks until it fires, or NoTimer
  hkFiring,    \* the worker: the batch that waits for a place in flight
  hkWorker,    \* the worker: "select", "fire", "last" (the flush), "join", "done"
  hkFlight,    \* the invocations in flight, as batches
  \* history
  hkAnswers,   \* hkAnswers[i]: how often the engine was told that the hooks of i are done
  hkHeard,     \* Finishing events the dispatcher took
  hkAccepted,  \* Completed events the worker accepted
  hkFired,     \* batches fired, with the representative of each
  hkDropped    \* events the worker gave up at a cancelled shutdown

hkOut == <<hkPhase, hkEngine, hkCancel>>
hkChainVars == <<hkWaiting, hkRunning>>
hkWorkerVars == <<hkJobs, hkBatch, hkFirst, hkAge, hkDue, hkFiring, hkWorker, hkFlight>>
hkHistory == <<hkHeard, hkAccepted, hkFired, hkDropped>>
hkVars == <<hkOut, hkEvents, hkLoop, hkTasks, hkChainVars, hkWorkerVars, hkAnswers, hkHistory>>

HooksInit ==
  /\ hkPhase \in [HkItem -> {"active", "completed"}] /\ hkEngine = TRUE /\ hkCancel = FALSE
  /\ hkEvents = <<>> /\ hkLoop = "run" /\ hkTasks = {} /\ hkWaiting = <<>> /\ hkRunning = {}
  /\ hkJobs = <<>> /\ hkBatch = <<>> /\ hkFirst = {} /\ hkAge = 0 /\ hkDue = NoTimer
  /\ hkFiring = <<>> /\ hkWorker = "select" /\ hkFlight = {}
  /\ hkAnswers = [i \in HkItem |-> 0]
  /\ hkHeard = {} /\ hkAccepted = {} /\ hkFired = {} /\ hkDropped = {}

----------------------------------------------------------------------------
(* The engine.  It completes a finishing item when it is answered, or when *)
(* its hook deadline passes.  The router drops the newest event when the   *)
(* dispatcher's inbox is full.                                             *)

Routed(kind, i) ==
  hkEvents' = IF Len(hkEvents) < HkInbox THEN Append(hkEvents, [kind |-> kind, item |-> i]) ELSE hkEvents

Finishes(i) ==
  /\ hkEngine /\ hkPhase[i] = "active"
  /\ hkPhase' = [hkPhase EXCEPT ![i] = "finishing"] /\ Routed("finishing", i)
  /\ UNCHANGED <<hkEngine, hkCancel, hkLoop, hkTasks, hkChainVars, hkWorkerVars, hkAnswers, hkHistory>>

Completes(i) ==
  /\ hkEngine /\ hkPhase[i] # "completed"
  /\ hkPhase' = [hkPhase EXCEPT ![i] = "completed"] /\ Routed("completed", i)
  /\ UNCHANGED <<hkEngine, hkCancel, hkLoop, hkTasks, hkChainVars, hkWorkerVars, hkAnswers, hkHistory>>

EngineGone ==
  /\ hkEngine /\ hkEngine' = FALSE
  /\ UNCHANGED <<hkPhase, hkCancel, hkEvents, hkLoop, hkTasks, hkChainVars, hkWorkerVars, hkAnswers, hkHistory>>

Cancel ==
  /\ ~hkEngine /\ ~hkCancel /\ hkCancel' = TRUE
  /\ UNCHANGED <<hkPhase, hkEngine, hkEvents, hkLoop, hkTasks, hkChainVars, hkWorkerVars, hkAnswers, hkHistory>>

----------------------------------------------------------------------------
(* The dispatcher's loop.                                                  *)

HookEvent(kind) == hkLoop = "run" /\ hkEvents # <<>> /\ Head(hkEvents).kind = kind /\ hkEvents' = Tail(hkEvents)

OnFinishing ==
  LET i == Head(hkEvents).item IN
  /\ HookEvent("finishing")
  /\ hkTasks' = hkTasks \cup {[item |-> i, left |-> HkPre]} /\ hkHeard' = hkHeard \cup {i}
  /\ UNCHANGED <<hkOut, hkLoop, hkChainVars, hkWorkerVars, hkAnswers, hkAccepted, hkFired, hkDropped>>

(* A full worker inbox skips the event; the chain is started either way.   *)
OnCompleted ==
  LET i == Head(hkEvents).item
      room == Len(hkJobs) < HkJobs
  IN
  /\ HookEvent("completed")
  /\ hkJobs' = IF room THEN Append(hkJobs, i) ELSE hkJobs
  /\ hkAccepted' = IF room THEN hkAccepted \cup {i} ELSE hkAccepted
  /\ hkWaiting' = Append(hkWaiting, i)
  /\ UNCHANGED <<hkOut, hkLoop, hkTasks, hkRunning, hkBatch, hkFirst, hkAge, hkDue, hkFiring, hkWorker, hkFlight,
                 hkAnswers, hkHeard, hkFired, hkDropped>>

InboxCloses ==
  /\ hkLoop = "run" /\ hkEvents = <<>> /\ ~hkEngine /\ hkLoop' = "join"
  /\ UNCHANGED <<hkOut, hkEvents, hkTasks, hkChainVars, hkWorkerVars, hkAnswers, hkHistory>>

Stops ==
  /\ hkLoop = "join" /\ hkWorker = "done" /\ hkTasks = {} /\ hkWaiting = <<>> /\ hkRunning = {}
  /\ hkLoop' = "done"
  /\ UNCHANGED <<hkOut, hkEvents, hkTasks, hkChainVars, hkWorkerVars, hkAnswers, hkHistory>>

----------------------------------------------------------------------------
(* pre_terminal and post_terminal.                                         *)

AnswersBug(t, ok) == t.left = 0 /\ ok
Answers(t, ok) == t.left = 0

(* One hook of the task ends, well or not; after the last the engine is    *)
(* told.                                                                   *)
PreTerminal(t, ok) ==
  /\ hkTasks' = (hkTasks \ {t}) \cup IF t.left > 0 THEN {[t EXCEPT !.left = @ - 1]} ELSE {}
  /\ hkAnswers' = IF Answers(t, ok) THEN [hkAnswers EXCEPT ![t.item] = @ + 1] ELSE hkAnswers
  /\ UNCHANGED <<hkOut, hkEvents, hkLoop, hkChainVars, hkWorkerVars, hkHistory>>

ChainStarts ==
  /\ hkWaiting # <<>> /\ Cardinality(hkRunning) < HkChains
  /\ hkRunning' = hkRunning \cup {Head(hkWaiting)} /\ hkWaiting' = Tail(hkWaiting)
  /\ UNCHANGED <<hkOut, hkEvents, hkLoop, hkTasks, hkWorkerVars, hkAnswers, hkHistory>>

ChainEnds(i) ==
  /\ i \in hkRunning /\ hkRunning' = hkRunning \ {i}
  /\ UNCHANGED <<hkOut, hkEvents, hkLoop, hkTasks, hkWaiting, hkWorkerVars, hkAnswers, hkHistory>>

----------------------------------------------------------------------------
(* debounce_worker.                                                        *)

DeadlineBug(age) == HkWindow
Deadline(age) == IF HkWindow < HkMaxWait - age THEN HkWindow ELSE HkMaxWait - age

Gathers ==
  LET age == IF hkBatch = <<>> THEN 0 ELSE hkAge IN
  /\ hkWorker = "select" /\ hkJobs # <<>>
  /\ hkJobs' = Tail(hkJobs) /\ hkBatch' = Append(hkBatch, Head(hkJobs))
  /\ hkFirst' = IF hkBatch = <<>> THEN {Head(hkJobs)} ELSE hkFirst
  /\ hkAge' = age /\ hkDue' = Deadline(age)
  /\ UNCHANGED <<hkOut, hkEvents, hkLoop, hkTasks, hkChainVars, hkFiring, hkWorker, hkFlight, hkAnswers, hkHistory>>

(* Time passes while the batch waits; a timer that is due is not left.     *)
Tick ==
  /\ hkWorker = "select" /\ hkDue > 0 /\ hkDue' = hkDue - 1 /\ hkAge' = hkAge + 1
  /\ UNCHANGED <<hkOut, hkEvents, hkLoop, hkTasks, hkChainVars, hkJobs, hkBatch, hkFirst, hkFiring, hkWorker, hkFlight,
                 hkAnswers, hkHistory>>

(* fire: the batch is taken at once and may then wait for a place.         *)
TakeBatch(next) ==
  /\ hkFiring' = hkBatch /\ hkBatch' = <<>> /\ hkAge' = 0 /\ hkDue' = NoTimer /\ hkWorker' = next
  /\ hkFired' = IF hkBatch = <<>> THEN hkFired ELSE hkFired \cup {[first |-> hkFirst, items |-> hkBatch]}
  /\ hkFirst' = {}

TimerFires ==
  /\ hkWorker = "select" /\ hkDue = 0 /\ TakeBatch("fire")
  /\ UNCHANGED <<hkOut, hkEvents, hkLoop, hkTasks, hkChainVars, hkJobs, hkFlight, hkAnswers, hkHeard, hkAccepted, hkDropped>>

FlushesBug(cancelled) == FALSE
Flushes(cancelled) == ~cancelled

Closed ==
  /\ hkWorker = "select" /\ hkLoop = "join" /\ hkJobs = <<>>
  /\ IF Flushes(hkCancel)
       THEN TakeBatch("last") /\ UNCHANGED hkDropped
       ELSE /\ hkDropped' = hkDropped \cup {hkBatch[j] : j \in DOMAIN hkBatch} /\ hkWorker' = "join"
            /\ hkBatch' = <<>> /\ hkFirst' = {} /\ hkAge' = 0 /\ hkDue' = NoTimer
            /\ UNCHANGED <<hkFiring, hkFired>>
  /\ UNCHANGED <<hkOut, hkEvents, hkLoop, hkTasks, hkChainVars, hkJobs, hkFlight, hkAnswers, hkHeard, hkAccepted>>

Launch ==
  /\ hkWorker \in {"fire", "last"} /\ (hkFiring = <<>> \/ Cardinality(hkFlight) < HkFlights)
  /\ hkFlight' = IF hkFiring = <<>> THEN hkFlight ELSE hkFlight \cup {hkFiring}
  /\ hkFiring' = <<>> /\ hkWorker' = IF hkWorker = "fire" THEN "select" ELSE "join"
  /\ UNCHANGED <<hkOut, hkEvents, hkLoop, hkTasks, hkChainVars, hkJobs, hkBatch, hkFirst, hkAge, hkDue, hkAnswers, hkHistory>>

Lands(b) ==
  /\ b \in hkFlight /\ hkFlight' = hkFlight \ {b}
  /\ UNCHANGED <<hkOut, hkEvents, hkLoop, hkTasks, hkChainVars, hkJobs, hkBatch, hkFirst, hkAge, hkDue, hkFiring, hkWorker,
                 hkAnswers, hkHistory>>

WorkerEnds ==
  /\ hkWorker = "join" /\ hkFlight = {} /\ hkWorker' = "done"
  /\ UNCHANGED <<hkOut, hkEvents, hkLoop, hkTasks, hkChainVars, hkJobs, hkBatch, hkFirst, hkAge, hkDue, hkFiring, hkFlight,
                 hkAnswers, hkHistory>>

----------------------------------------------------------------------------
DispatcherStep == OnFinishing \/ OnCompleted \/ InboxCloses \/ Stops
WorkerStep == Gathers \/ TimerFires \/ Closed \/ Launch \/ WorkerEnds

HooksNext ==
  \/ \E i \in HkItem : Finishes(i) \/ Completes(i) \/ ChainEnds(i)
  \/ EngineGone \/ Cancel \/ DispatcherStep \/ ChainStarts \/ WorkerStep \/ Tick
  \/ \E t \in hkTasks, ok \in BOOLEAN : PreTerminal(t, ok)
  \/ \E b \in hkFlight : Lands(b)

(* Every hook ends, by its timeout if by nothing else; tasks that are      *)
(* ready are polled, and time passes.                                      *)
HooksFairness ==
  /\ WF_hkVars(DispatcherStep) /\ WF_hkVars(WorkerStep) /\ WF_hkVars(Tick) /\ WF_hkVars(ChainStarts)
  /\ \A i \in HkItem : /\ WF_hkVars(ChainEnds(i))
                       /\ WF_hkVars(\E t \in hkTasks, ok \in BOOLEAN : t.item = i /\ PreTerminal(t, ok))
  /\ WF_hkVars(\E b \in hkFlight : Lands(b))
HooksSpec == HooksInit /\ [][HooksNext]_hkVars /\ HooksFairness

----------------------------------------------------------------------------
HooksTypeOK ==
  /\ hkPhase \in [HkItem -> {"active", "finishing", "completed"}] /\ hkEngine \in BOOLEAN /\ hkCancel \in BOOLEAN
  /\ hkEvents \in Seq([kind : {"finishing", "completed"}, item : HkItem]) /\ Len(hkEvents) <= HkInbox
  /\ hkLoop \in {"run", "join", "done"} /\ hkTasks \subseteq [item : HkItem, left : 0..HkPre]
  /\ hkWaiting \in Seq(HkItem) /\ hkRunning \subseteq HkItem /\ Cardinality(hkRunning) <= HkChains
  /\ hkJobs \in Seq(HkItem) /\ Len(hkJobs) <= HkJobs /\ hkBatch \in Seq(HkItem) /\ hkFirst \subseteq HkItem
  /\ hkAge \in Nat /\ hkDue \in Int /\ hkFiring \in Seq(HkItem) /\ Cardinality(hkFlight) <= HkFlights
  /\ hkWorker \in {"select", "fire", "last", "join", "done"} /\ hkAnswers \in [HkItem -> Nat]

ItemsOf(s) == {s[j] : j \in DOMAIN s}

(* Every event the worker accepted is in exactly one place: its inbox, the *)
(* batch it gathers, one fired batch, or given up at a cancelled shutdown. *)
(* A batch is fired under the name of its first event, and none is kept    *)
(* back longer than the cap, however fast events follow each other.        *)
HooksBatchOnce ==
  /\ hkAccepted = ItemsOf(hkJobs) \cup ItemsOf(hkBatch) \cup hkDropped \cup UNION {ItemsOf(b.items) : b \in hkFired}
  /\ \A b, c \in hkFired : b # c => ItemsOf(b.items) \cap ItemsOf(c.items) = {}
  /\ \A b \in hkFired : b.first = {b.items[1]} /\ ItemsOf(b.items) \cap (ItemsOf(hkJobs \o hkBatch) \cup hkDropped) = {}
  /\ hkAge <= HkMaxWait

(* The engine is told exactly once that the hooks of an item are done, for *)
(* every Finishing the dispatcher took, however the hooks ended and even   *)
(* while the server shuts down.                                            *)
HooksAnswered == []<>(\A i \in hkHeard : hkAnswers[i] = 1)

(* When the engine is gone the dispatcher stops, and unless the grace ran  *)
(* out first it has fired everything that the worker accepted.             *)
HooksFlushed ==
  []<>(\/ hkEngine
       \/ hkLoop = "done" /\ (hkCancel \/ hkAccepted \subseteq UNION {ItemsOf(b.items) : b \in hkFired}))

(* What the dispatcher owes: each event in one batch, every answer, and at *)
(* the end every item.                                                     *)
HooksDeliver == [][HooksBatchOnce']_hkVars /\ HooksAnswered /\ HooksFlushed
=============================================================================
