-------------------------------- MODULE Apns --------------------------------
(***************************************************************************)
(* aulos-apns, the notifier's memory of one item and of the Live           *)
(* Activities that follow it.  The events of the item arrive one by one    *)
(* and are handled in order; starting, ending and the throttled trailing   *)
(* edge run in tasks of their own, so any of them may be late.             *)
(*                                                                         *)
(* Abstracted: which device a push is routed to (source, install, topic),  *)
(* the completion alert, and the numbers in a view: of what is shown only  *)
(* its status counts, and whether it is the newest.  A timestamp is left   *)
(* out because alloc_ts makes each newer than every earlier one of its     *)
(* token: the last push claimed for a token is the one a phone keeps.      *)
(***************************************************************************)
EXTENDS Integers, Sequences, FiniteSets

CONSTANTS
  Token,         \* update tokens, each minted by one activity on a device
  Owner,         \* Owner[t]: the device whose activity minted t
  ApInbox,       \* the notifier's place in the event router, in events
  ApEvents,      \* bound: events of the item
  ApFaults       \* bound: refused tasks, failed reads and writes, dead tokens, lost events

ASSUME ApAssumption ==
  ApInbox \in Nat \ {0} /\ ApEvents \in Nat /\ ApFaults \in Nat /\ DOMAIN Owner = Token

Shown == {"waiting", "running", "over"}
Reason == {"lost", "refused", "unread", "behind", "overlap"}
TaskKind == {"start", "complete", "timer"}

NotSent == [status |-> "none", newest |-> FALSE, recent |-> FALSE]
NoTrack == [live |-> FALSE, records |-> {}, fresh |-> FALSE, sent |-> [t \in Token |-> NotSent],
            pending |-> "none", armed |-> FALSE]
Idle == [pc |-> "idle", n |-> 0, status |-> "none", got |-> FALSE, records |-> {}]

VARIABLES
  apStatus,    \* the engine: what the item is doing
  apSeen,      \* the engine: events published so far
  apQueue,     \* the notifier's inbox, oldest first
  apReg,       \* store: the update tokens registered for the item
  apMinted,    \* tokens registered so far
  apStarted, apOver,   \* `started` and `ended` hold the item
  apTrack,     \* `items`: the item's Track, NoTrack when there is none
  apHandler,   \* the event loop: idle, or before its step
  apTasks,     \* the tasks it has spawned, named by the event that spawned them
  apFaults,    \* counts what ApFaults bounds
  \* history
  apTop,       \* apTop[t]: the newest push claimed for t
  apEndSent,   \* tokens an end was claimed for since the last start edge
  apStarts,    \* start pushes claimed in this run, by a task of this run
  apRunAt,     \* the event that ended the previous run
  apExcuse     \* what has gone wrong so far

apHistory == <<apTop, apEndSent, apStarts, apRunAt>>
apMemory == <<apStarted, apOver, apTrack, apHandler, apTasks>>
apEngine == <<apStatus, apSeen, apReg, apMinted>>
apVars == <<apEngine, apQueue, apMemory, apFaults, apHistory, apExcuse>>

ApnsInit ==
  /\ apStatus = "waiting" /\ apSeen \in 0..ApEvents /\ apQueue = <<>>
  /\ apReg = {} /\ apMinted = {} /\ apStarted = FALSE /\ apOver = FALSE
  /\ apTrack = NoTrack /\ apHandler = Idle /\ apTasks = {} /\ apFaults \in 0..ApFaults
  /\ apTop = [t \in Token |-> "none"] /\ apEndSent = {} /\ apStarts = 0 /\ apRunAt = 0
  /\ apExcuse = {}

(* What goes well costs nothing, what goes wrong a fault and, where it     *)
(* excuses something, a reason.                                            *)
Fine == UNCHANGED <<apFaults, apExcuse>>
Wrong(why) == apFaults < ApFaults /\ apFaults' = apFaults + 1 /\ apExcuse' = apExcuse \cup why

----------------------------------------------------------------------------
(* The engine, the phone and the snapshot.                                 *)

Moves == {<<"waiting", "running">>, <<"running", "waiting">>, <<"running", "running">>,
          <<"running", "over">>, <<"over", "waiting">>,
          <<"waiting", "gone">>, <<"running", "gone">>, <<"over", "gone">>}

(* An item that ends is told twice, as a change and as completed; the      *)
(* router drops what finds the inbox full.                                 *)
Emit(to) ==
  LET told == [e \in 1..(IF to = "over" THEN 2 ELSE 1) |->
                 [n |-> apSeen + 1, from |-> apStatus, to |-> IF e = 1 THEN to ELSE "done"]]
      room == ApInbox - Len(apQueue)
  IN
  /\ <<apStatus, to>> \in Moves /\ apSeen < ApEvents
  /\ apStatus' = to /\ apSeen' = apSeen + 1
  /\ apQueue' = apQueue \o SubSeq(told, 1, IF room < Len(told) THEN room ELSE Len(told))
  /\ IF Len(told) <= room THEN Fine ELSE Wrong({"lost"})
  /\ apReg' = IF to = "gone" THEN {} ELSE apReg     \* DeleteItems sweeps them
  /\ UNCHANGED <<apMinted, apMemory, apHistory>>

Register(t) ==
  /\ t \notin apMinted /\ apMinted' = apMinted \cup {t}
  /\ apReg' = {u \in apReg : Owner[u] # Owner[t]} \cup {t}
  /\ UNCHANGED <<apStatus, apSeen, apQueue, apMemory, apFaults, apHistory, apExcuse>>

(* A push to t came back as 410 or as a bad token: the registration of its *)
(* device for the item goes, whichever token that holds by now.            *)
Prune(t) ==
  /\ apTop[t] # "none" /\ Wrong({})
  /\ apReg' = {u \in apReg : Owner[u] # Owner[t]}
  /\ apTrack' = [apTrack EXCEPT !.fresh = FALSE]
  /\ UNCHANGED <<apStatus, apSeen, apMinted, apQueue, apStarted, apOver, apHandler, apTasks, apHistory>>

(* The throttle window of a token, which is also the age at which the      *)
(* cached registrations are read again.                                    *)
WindowPasses(t) ==
  /\ apTrack.sent[t].recent /\ apTrack' = [apTrack EXCEPT !.sent[t].recent = FALSE]
  /\ UNCHANGED <<apEngine, apQueue, apStarted, apOver, apHandler, apTasks, apFaults, apHistory, apExcuse>>
CacheAges ==
  /\ apTrack.fresh /\ apTrack' = [apTrack EXCEPT !.fresh = FALSE]
  /\ UNCHANGED <<apEngine, apQueue, apStarted, apOver, apHandler, apTasks, apFaults, apHistory, apExcuse>>

----------------------------------------------------------------------------
(* What a pass over the track decides.                                     *)

StoreRecords(tr, got, records) ==
  IF ~got THEN tr
  ELSE [tr EXCEPT !.live = TRUE, !.records = records, !.fresh = TRUE,
                  !.sent = [t \in Token |-> IF t \in records THEN tr.sent[t] ELSE NotSent]]

(* A new view makes every registration out of date.                        *)
Pending(tr, incoming) ==
  IF incoming = "none" THEN tr
  ELSE [tr EXCEPT !.pending = incoming, !.sent = [t \in Token |-> [tr.sent[t] EXCEPT !.newest = FALSE]]]

Owing(tr) == {t \in tr.records : ~tr.sent[t].newest}
Throttled(tr, t) == tr.sent[t].status = tr.pending /\ tr.sent[t].recent
Targets(tr) == IF tr.live /\ tr.pending # "none" THEN {t \in Owing(tr) : ~Throttled(tr, t)} ELSE {}

(* There is more to do: a token waits for its window, or the numbers move  *)
(* on and must be pulled again.                                            *)
MoreBug(tr) == tr.live /\ Owing(tr) \ Targets(tr) # {}
More(tr) == tr.live /\ (tr.pending = "running" \/ (tr.pending # "none" /\ Owing(tr) \ Targets(tr) # {}))

Stepped(tr, timer) ==
  LET sent == [t \in Token |-> IF t \in Targets(tr) THEN [status |-> tr.pending, newest |-> TRUE, recent |-> TRUE]
                               ELSE tr.sent[t]]
  IN  IF ~tr.live THEN tr
      ELSE [tr EXCEPT !.sent = sent, !.pending = IF More(tr) THEN @ ELSE "none",
                      !.armed = More(tr) \/ (@ /\ ~timer)]

(* claim_updates: nothing for an item that has ended.                      *)
ClaimedBug(tr) == Targets(tr)
Claimed(tr) == IF apOver THEN {} ELSE Targets(tr)
Push(tokens, kind) == apTop' = [t \in Token |-> IF t \in tokens THEN kind ELSE apTop[t]]

NewTask(n, kind) == [n |-> n, kind |-> kind, pc |-> "begin", got |-> FALSE, records |-> {}]

----------------------------------------------------------------------------
(* The event loop.                                                         *)

Takes(next) ==
  /\ apQueue # <<>> /\ Head(apQueue).to \in next /\ apQueue' = Tail(apQueue)
  /\ apHandler.pc = "idle"
StartEdge(ev) == ev.from = "waiting" /\ ev.to = "running"
Ending == \E k \in apTasks : k.kind = "complete"

(* Whether the task set had a place for the start, and the registrations   *)
(* could be read where the cache is too old.                               *)
TakeChanged(room, readable) ==
  LET ev == Head(apQueue)
      edge == StartEdge(ev)
  IN
  /\ Takes(Shown)
  /\ apOver' = (apOver /\ ~edge)
  /\ apEndSent' = IF edge THEN {} ELSE apEndSent
  /\ apTasks' = IF edge /\ ~apStarted /\ room THEN apTasks \cup {NewTask(ev.n, "start")} ELSE apTasks
  /\ room \/ (edge /\ ~apStarted)
  /\ readable \/ ~apTrack.fresh
  /\ apHandler' = IF readable THEN [pc |-> "step", n |-> ev.n, status |-> ev.to, got |-> ~apTrack.fresh,
                                    records |-> IF apTrack.fresh THEN {} ELSE apReg]
                  ELSE Idle
  /\ LET overlap == IF edge /\ Ending THEN {"overlap"} ELSE {} IN
     IF room /\ readable THEN UNCHANGED apFaults /\ apExcuse' = apExcuse \cup overlap
     ELSE Wrong(overlap \cup IF readable THEN {} ELSE {"unread"})
  /\ UNCHANGED <<apEngine, apStarted, apTrack, apTop, apStarts, apRunAt>>

TakeCompleted(room) ==
  LET ev == Head(apQueue) IN
  /\ Takes({"done"})
  /\ apOver' = TRUE /\ apStarts' = 0 /\ apRunAt' = ev.n
  /\ apTasks' = IF room THEN apTasks \cup {NewTask(ev.n, "complete")} ELSE apTasks
  /\ IF room THEN Fine ELSE Wrong({"refused"})
  /\ UNCHANGED <<apEngine, apStarted, apTrack, apHandler, apTop, apEndSent>>

TakeRemoved ==
  /\ Takes({"gone"})
  /\ apStarted' = FALSE /\ apTrack' = NoTrack /\ apStarts' = 0 /\ apRunAt' = Head(apQueue).n
  /\ UNCHANGED <<apEngine, apOver, apHandler, apTasks, apFaults, apTop, apEndSent, apExcuse>>

HandlerStep(room) ==
  /\ apHandler.pc = "step" /\ apHandler' = Idle
  /\ \E tr \in {Pending(StoreRecords(apTrack, apHandler.got, apHandler.records), apHandler.status)} :
       LET arms == More(tr) /\ ~tr.armed IN
       /\ apTrack' = IF tr.live THEN Stepped(tr, FALSE) ELSE apTrack
       /\ apTasks' = IF arms /\ room THEN apTasks \cup {NewTask(apHandler.n, "timer")} ELSE apTasks
       /\ Push(IF room THEN Claimed(tr) ELSE {}, "update")
       /\ IF room THEN Fine ELSE (arms \/ Claimed(tr) # {}) /\ Wrong({"refused"})
  /\ UNCHANGED <<apEngine, apQueue, apStarted, apOver, apEndSent, apStarts, apRunAt>>

----------------------------------------------------------------------------
(* The tasks.                                                              *)

Becomes(k, next) == apTasks' = (apTasks \ {k}) \cup next

(* push_to_start: the devices are read, and the first task to find one     *)
(* that can be started claims the item.                                    *)
MayStartBug == TRUE
MayStart == ~apStarted

StartPush(k, targets, room) ==
  /\ k.kind = "start" /\ Becomes(k, {})
  /\ IF targets /\ MayStart
       THEN apStarted' = TRUE /\ apStarts' = apStarts + (IF room /\ k.n > apRunAt THEN 1 ELSE 0)
       ELSE UNCHANGED <<apStarted, apStarts>>
  /\ IF room THEN Fine ELSE Wrong({})
  /\ UNCHANGED <<apEngine, apQueue, apOver, apTrack, apHandler, apTop, apEndSent, apRunAt>>

(* complete: the end goes to every registration, or to those cached when   *)
(* they cannot be read; then they are removed and the item is forgotten.   *)
EndRead(k, readable) ==
  /\ k.kind = "complete" /\ k.pc = "begin" /\ apOver' = TRUE
  /\ Becomes(k, {[k EXCEPT !.pc = "claim", !.got = readable, !.records = IF readable THEN apReg ELSE apTrack.records]})
  /\ IF readable THEN Fine ELSE Wrong({})
  /\ UNCHANGED <<apEngine, apQueue, apStarted, apTrack, apHandler, apHistory>>

EndClaim(k, room) ==
  /\ k.kind = "complete" /\ k.pc = "claim" /\ Becomes(k, {[k EXCEPT !.pc = "remove"]})
  /\ apOver' = (apOver \/ k.records # {})
  /\ Push(IF room THEN k.records ELSE {}, "end")
  /\ apEndSent' = IF room THEN apEndSent \cup k.records ELSE apEndSent
  /\ IF room THEN Fine ELSE k.records # {} /\ Wrong({"refused"})
  /\ UNCHANGED <<apEngine, apQueue, apStarted, apTrack, apHandler, apStarts, apRunAt>>

EndForget(k, cleared) ==
  /\ k.kind = "complete" /\ k.pc = "remove" /\ Becomes(k, {})
  /\ apReg' = IF cleared /\ (k.records # {} \/ ~k.got) THEN {} ELSE apReg
  /\ IF cleared \/ k.got THEN apStarted' = FALSE /\ apTrack' = NoTrack ELSE UNCHANGED <<apStarted, apTrack>>
  /\ IF cleared THEN Fine ELSE (k.records # {} \/ ~k.got) /\ Wrong({})
  /\ UNCHANGED <<apStatus, apSeen, apMinted, apQueue, apOver, apHandler, apHistory>>

(* The trailing edge: sleep, read what is registered, step, repeat.        *)
TimerWakes(k, readable) ==
  /\ k.kind = "timer" /\ k.pc = "begin" /\ (readable \/ ~apTrack.fresh)
  /\ Becomes(k, {[k EXCEPT !.pc = "step", !.got = readable /\ ~apTrack.fresh,
                           !.records = IF readable /\ ~apTrack.fresh THEN apReg ELSE {}]})
  /\ IF readable THEN Fine ELSE Wrong({})
  /\ UNCHANGED <<apEngine, apQueue, apStarted, apOver, apTrack, apHandler, apHistory>>

(* While the item runs the view may be pulled anew from the snapshot that  *)
(* the aggregator publishes, with the status it has there: the aggregator  *)
(* is another subscriber, and may be a step behind.                        *)
Snapshots == {apStatus} \cup {x \in {"waiting", "running"} : <<x, apStatus>> \in Moves}

TimerStep(k, pulled, room) ==
  /\ k.kind = "timer" /\ k.pc = "step"
  /\ \E held \in {StoreRecords(apTrack, k.got, k.records)} :
       LET behind == IF pulled \in {"waiting", "over"} THEN {"behind"} ELSE {} IN
       /\ pulled # "none" => held.live /\ held.pending = "running" /\ pulled \in Snapshots \cap Shown
       /\ \E tr \in {Pending(held, pulled)} :
            /\ apTrack' = Stepped(tr, TRUE)
            /\ Becomes(k, IF More(tr) THEN {NewTask(k.n, "timer")} ELSE {})
            /\ Push(IF room THEN Claimed(tr) ELSE {}, "update")
            /\ IF room THEN UNCHANGED apFaults /\ apExcuse' = apExcuse \cup behind
               ELSE Claimed(tr) # {} /\ Wrong(behind \cup {"refused"})
  /\ UNCHANGED <<apEngine, apQueue, apStarted, apOver, apHandler, apEndSent, apStarts, apRunAt>>

----------------------------------------------------------------------------
TaskStep(k, ok) ==
  (\E targets \in BOOLEAN : StartPush(k, targets, ok)) \/ EndRead(k, ok) \/ EndClaim(k, ok) \/ EndForget(k, ok)
  \/ TimerWakes(k, ok)
LoopStep(room, readable) ==
  \/ TakeChanged(room, readable)
  \/ readable /\ (TakeCompleted(room) \/ HandlerStep(room) \/ (room /\ TakeRemoved))

ApnsNext ==
  \/ \E to \in Shown \cup {"gone"} : Emit(to)
  \/ \E t \in Token : Register(t) \/ Prune(t) \/ WindowPasses(t)
  \/ CacheAges
  \/ \E room, readable \in BOOLEAN : LoopStep(room, readable)
  \/ \E k \in apTasks, ok \in BOOLEAN :
       TaskStep(k, ok) \/ \E pulled \in Shown \cup {"none"} : TimerStep(k, pulled, ok)

(* The runtime polls every task that is ready, and time passes.            *)
ApnsFairness ==
  /\ WF_apVars(LoopStep(TRUE, TRUE)) /\ WF_apVars(CacheAges) /\ \A t \in Token : WF_apVars(WindowPasses(t))
  /\ \A kind \in TaskKind : 
       WF_apVars(\E k \in apTasks : k.kind = kind /\ (TaskStep(k, TRUE) \/ TimerStep(k, "none", TRUE)))
ApnsSpec == ApnsInit /\ [][ApnsNext]_apVars /\ ApnsFairness

----------------------------------------------------------------------------
SentType == [status : Shown \cup {"none"}, newest : BOOLEAN, recent : BOOLEAN]
ApnsTypeOK ==
  /\ apStatus \in Shown \cup {"gone"} /\ apSeen \in 0..ApEvents
  /\ apQueue \in Seq([n : 1..ApEvents, from : Shown, to : Shown \cup {"gone", "done"}])
  /\ apReg \subseteq apMinted /\ apMinted \subseteq Token
  /\ \A t, u \in apReg : Owner[t] = Owner[u] => t = u
  /\ apStarted \in BOOLEAN /\ apOver \in BOOLEAN
  /\ apTrack \in [live : BOOLEAN, records : SUBSET Token, fresh : BOOLEAN, sent : [Token -> SentType],
                  pending : Shown \cup {"none"}, armed : BOOLEAN]
  /\ apTrack.live \/ apTrack = NoTrack
  /\ apHandler \in [pc : {"idle", "step"}, n : 0..ApEvents, status : Shown \cup {"none"}, got : BOOLEAN,
                    records : SUBSET Token]
  /\ apTasks \subseteq [n : 1..ApEvents, kind : TaskKind, pc : {"begin", "step", "claim", "remove"}, got : BOOLEAN,
                        records : SUBSET Token]
  /\ apTop \in [Token -> {"none", "update", "end"}] /\ apExcuse \subseteq Reason

(* An end is the last word to its activity: whatever timer, handler or     *)
(* earlier end is still on its way, no update is claimed after it until    *)
(* the item starts again.  And a download starts one activity, however     *)
(* often it is paused and resumed, unless it began while the end of its    *)
(* previous run was still on its way.                                      *)
ApnsOneLife ==
  /\ \A t \in apEndSent : apTop[t] = "end"
  /\ apStarts <= 1 \/ "overlap" \in apExcuse

(* While the item runs, each of its registrations is sent the newest view, *)
(* one that came late and one whose window held it back included.          *)
ApnsLatestIsShown ==
  \A t \in Token : []<>
    (t \in apReg /\ apStatus = "running" /\ apExcuse = {}
       => apTop[t] = "update" /\ apTrack.sent[t].newest /\ apTrack.sent[t].status = "running")

(* One activity to a download and nothing after its end, and the newest    *)
(* view on every screen.                                                   *)
ApnsFollow == [][ApnsOneLife']_apVars /\ ApnsLatestIsShown
=============================================================================
