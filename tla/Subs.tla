-------------------------------- MODULE Subs --------------------------------
(***************************************************************************)
(* aulos-subscriptions.  One manager task owns the table of subscriptions  *)
(* and every write about them; each subscription has a task of its own     *)
(* that sleeps until its check is due, takes a permit, lists the feed,     *)
(* reads what was seen, queues what is new and reports.  The two talk over *)
(* a watch cell (manager to task) and one channel (tasks to manager).      *)
(***************************************************************************)
EXTENDS Integers, FiniteSets, Sequences

CONSTANTS
  Sub,           \* ids of subscriptions, each minted once
  RawUrl,        \* URLs as a user types them
  Canon,         \* Canon[r]: the parsed form of r, the column that is UNIQUE
  Media,         \* ids of the uploads a feed may list
  SubPermits,    \* sub_check_concurrency
  SubKeep,       \* subscription_max_seen_ids
  SubAsks,       \* bound: requests to subscribe
  SubFaults      \* bound: commands on a subscription, failed writes, timeouts and restarts

NoUrl == "-"    \* of a subscription without a row

ASSUME SubAssumption ==
  SubPermits \in Nat \ {0} /\ SubKeep \in Nat /\ SubAsks \in Nat /\ SubFaults \in Nat /\
  Canon \in [RawUrl -> RawUrl] /\ NoUrl \notin RawUrl

Due == {"later", "past"}
Pc == {"none", "idle", "permit", "probe", "read", "queue"}
NoSlot == [enabled |-> FALSE, checking |-> FALSE]
NoTask == [pc |-> "none", enabled |-> FALSE, due |-> "later", feed |-> {}, todo |-> {}, queued |-> {}]
Quiet == [enabled |-> FALSE, due |-> "later", fresh |-> FALSE]

VARIABLES
  subUrl,      \* store: subUrl[s] is the url column of subscription s, NoUrl when there is no row
  subEnabled,  \* store: the enabled column
  subSeen,     \* store: the rows of subscription_seen
  subKnown,    \* manager: the keys of `subs`
  subIndex,    \* manager: url_index, as pairs <<key, id>>
  subSlot,     \* manager: subSlot[s], the record and the checking flag of a known subscription
  subPending,  \* manager: pending_urls, each with what its probe has found or "asked"
  subWatch,    \* subWatch[s]: the watch cell, Quiet once the task has taken what it holds
  subTask,     \* subTask[s]: the task of s
  subInbox,    \* the channel of CheckMsg
  subListing,  \* the feeds: what is published so far
  subUsed,     \* ids minted so far
  subAsks, subFaults,   \* count what SubAsks and SubFaults bound
  \* history
  subBefore,   \* subBefore[s]: what its feed listed when it was probed
  subQueued,   \* subQueued[s]: what the engine accepted from s
  subAgain,    \* subAgain[s]: what it accepted from s more than once
  subExcuse    \* subExcuse[s]: the mark was lost, or a check began before it was written

subStore == <<subUrl, subEnabled, subSeen>>
subHistory == <<subBefore, subQueued, subAgain, subExcuse>>
subVars == <<subStore, subKnown, subIndex, subSlot, subPending, subWatch, subTask, subInbox,
             subListing, subUsed, subAsks, subFaults, subHistory>>

SubsInit ==
  /\ subUrl = [s \in Sub |-> NoUrl] /\ subEnabled = [s \in Sub |-> FALSE]
  /\ subSeen = [s \in Sub |-> {}]
  /\ subKnown = {} /\ subIndex = {} /\ subSlot = [s \in Sub |-> NoSlot] /\ subPending = {}
  /\ subWatch = [s \in Sub |-> Quiet] /\ subTask = [s \in Sub |-> NoTask] /\ subInbox = <<>>
  /\ subListing \in SUBSET Media /\ subUsed \in SUBSET Sub /\ subFaults \in 0..SubFaults /\ subAsks \in 0..SubAsks
  /\ subBefore = [s \in Sub |-> {}] /\ subQueued = [s \in Sub |-> {}]
  /\ subAgain = [s \in Sub |-> {}] /\ subExcuse = [s \in Sub |-> {}]

Fault == subFaults < SubFaults /\ subFaults' = subFaults + 1

(* A write of the manager succeeds, or fails within the bound.             *)
Wrote(ok) == IF ok THEN UNCHANGED subFaults ELSE Fault

----------------------------------------------------------------------------
(* The feeds, and time.                                                    *)

Publish(m) ==
  /\ m \notin subListing /\ subListing' = subListing \cup {m}
  /\ UNCHANGED <<subStore, subKnown, subIndex, subSlot, subPending, subWatch, subTask, subInbox,
                 subAsks, subUsed, subFaults, subHistory>>

DueComes(s) ==
  /\ subTask[s].pc = "idle" /\ subTask[s].due = "later"
  /\ subTask' = [subTask EXCEPT ![s].due = "past"]
  /\ UNCHANGED <<subStore, subKnown, subIndex, subSlot, subPending, subWatch, subInbox, subListing, subAsks,
                 subUsed, subFaults, subHistory>>

----------------------------------------------------------------------------
(* The manager: subscribing.  The probe runs beside the manager and        *)
(* answers with a feed or with a failure.                                  *)

SubIndexed(r) == \E s \in Sub : <<r, s>> \in subIndex

BeginSubscribe(r) ==
  /\ ~SubIndexed(r) /\ \A p \in subPending : p.url # r
  /\ subAsks < SubAsks /\ subAsks' = subAsks + 1
  /\ subPending' = subPending \cup {[url |-> r, state |-> "asked", feed |-> {}]}
  /\ UNCHANGED <<subStore, subKnown, subIndex, subSlot, subWatch, subTask, subInbox, subListing,
                 subUsed, subFaults, subHistory>>

ProbeEnds(p, found) ==
  /\ p.state = "asked"
  /\ IF found THEN UNCHANGED subFaults ELSE Fault
  /\ subPending' = (subPending \ {p}) \cup
       {[p EXCEPT !.state = IF found THEN "found" ELSE "failed", !.feed = IF found THEN subListing ELSE {}]}
  /\ UNCHANGED <<subStore, subKnown, subIndex, subSlot, subWatch, subTask, subInbox, subListing, subAsks,
                 subUsed, subHistory>>

(* insert: a watch cell with the schedule, and a task that starts on it.   *)
Spawned(enabled) == [NoTask EXCEPT !.pc = "idle", !.enabled = enabled]
Keys(r, s) == {<<r, s>>, <<Canon[r], s>>}

(* MarkSeen and PruneSeen: the newest SubKeep stay.  When each was first   *)
(* sighted is not kept, so which of the older ones goes is any choice.     *)
Marked(old, new) ==
  {kept \in SUBSET (old \cup new) :
     /\ Cardinality(old \cup new) <= SubKeep => kept = old \cup new
     /\ Cardinality(old \cup new) > SubKeep => Cardinality(kept) = SubKeep
     /\ (new \ old) \subseteq kept \/ kept \subseteq (new \ old)}

(* UNIQUE(url): the row is refused when another one has the canonical URL. *)
AdmitsBug(r) == \A t \in Sub : subUrl[t] # r
Admits(r) == \A t \in Sub : subUrl[t] # Canon[r]

OnProbed(p, s, upcoming, ok) ==
  /\ p.state # "asked" /\ subPending' = subPending \ {p}
  /\ IF p.state = "failed" \/ SubIndexed(p.url) \/ ~Admits(p.url)
       THEN UNCHANGED <<subStore, subKnown, subIndex, subSlot, subWatch, subTask, subUsed, subFaults, subBefore>>
       ELSE /\ s \notin subUsed /\ Wrote(ok)
            /\ IF ok
                 THEN /\ subUsed' = subUsed \cup {s}
                      /\ subUrl' = [subUrl EXCEPT ![s] = Canon[p.url]]
                      /\ subEnabled' = [subEnabled EXCEPT ![s] = TRUE]
                      /\ \E kept \in Marked({}, p.feed \ upcoming) : subSeen' = [subSeen EXCEPT ![s] = kept]
                      /\ subKnown' = subKnown \cup {s}
                      /\ subIndex' = subIndex \cup Keys(p.url, s)
                      /\ subSlot' = [subSlot EXCEPT ![s].enabled = TRUE]
                      /\ subWatch' = [subWatch EXCEPT ![s] = Quiet]
                      /\ subTask' = [subTask EXCEPT ![s] = Spawned(TRUE)]
                      /\ subBefore' = [subBefore EXCEPT ![s] = p.feed]
                 ELSE UNCHANGED <<subStore, subKnown, subIndex, subSlot, subWatch, subTask, subUsed, subBefore>>
  /\ UNCHANGED <<subInbox, subListing, subAsks, subQueued, subAgain, subExcuse>>

----------------------------------------------------------------------------
(* The manager: update, delete, check.  Each writes first, and changes     *)
(* nothing when the write fails.  The due time of an update is the one it  *)
(* was, whether past or not, or that of the new interval.                  *)

Send(s, enabled, due) == subWatch' = [subWatch EXCEPT ![s] = [enabled |-> enabled, due |-> due, fresh |-> TRUE]]

Update(s, enabled, due, ok) ==
  /\ s \in subKnown /\ Fault
  /\ IF ok THEN /\ subEnabled' = [subEnabled EXCEPT ![s] = enabled]
                /\ subSlot' = [subSlot EXCEPT ![s].enabled = enabled]
                /\ Send(s, enabled, due)
           ELSE UNCHANGED <<subEnabled, subSlot, subWatch>>
  /\ UNCHANGED <<subUrl, subSeen, subKnown, subIndex, subPending, subTask, subInbox, subListing, subAsks, subUsed, subHistory>>

(* Deleting aborts the task where it stands; the cascade takes the seen.   *)
Delete(s, ok) ==
  /\ s \in subKnown /\ Fault
  /\ IF ok
       THEN /\ subUrl' = [subUrl EXCEPT ![s] = NoUrl]
            /\ subEnabled' = [subEnabled EXCEPT ![s] = FALSE]
            /\ subSeen' = [subSeen EXCEPT ![s] = {}]
            /\ subKnown' = subKnown \ {s}
            /\ subIndex' = {k \in subIndex : k[2] # s}
            /\ subSlot' = [subSlot EXCEPT ![s] = NoSlot]
            /\ subTask' = [subTask EXCEPT ![s] = NoTask]
            /\ subWatch' = [subWatch EXCEPT ![s] = Quiet]
       ELSE UNCHANGED <<subStore, subKnown, subIndex, subSlot, subTask, subWatch>>
  /\ UNCHANGED <<subPending, subInbox, subListing, subAsks, subUsed, subHistory>>

CheckNow(s) ==
  /\ s \in subKnown /\ Fault
  /\ Send(s, TRUE, "past")
  /\ UNCHANGED <<subStore, subKnown, subIndex, subSlot, subPending, subTask, subInbox, subListing, subAsks, subUsed, subHistory>>

----------------------------------------------------------------------------
(* The task of a subscription.                                             *)

TaskOnly(s, t) ==
  /\ subTask' = [subTask EXCEPT ![s] = t]
  /\ UNCHANGED <<subStore, subKnown, subIndex, subSlot, subPending, subListing, subAsks, subUsed, subBefore>>

(* A change of the cell restarts the wait, and is looked at before the     *)
(* timer.                                                                  *)
Reschedule(s) ==
  LET w == subWatch[s] IN
  /\ subTask[s].pc = "idle" /\ w.fresh
  /\ TaskOnly(s, [NoTask EXCEPT !.pc = "idle", !.enabled = w.enabled, !.due = w.due])
  /\ subWatch' = [subWatch EXCEPT ![s] = Quiet]
  /\ UNCHANGED <<subInbox, subFaults, subQueued, subAgain, subExcuse>>

WakeUp(s) ==
  /\ subTask[s].pc = "idle" /\ ~subWatch[s].fresh
  /\ subTask[s].enabled /\ subTask[s].due = "past"
  /\ TaskOnly(s, [subTask[s] EXCEPT !.pc = "permit"])
  /\ UNCHANGED <<subWatch, subInbox, subFaults, subQueued, subAgain, subExcuse>>

Holding == {s \in Sub : subTask[s].pc \in {"probe", "read", "queue"}}

(* What a report that waits in the channel says of s.                      *)
Reported(s) == UNION {subInbox[i].queued : i \in {j \in DOMAIN subInbox : subInbox[j].sub = s}}

Started(s) == [sub |-> s, kind |-> "started", queued |-> {}]
Done(s, queued) == [sub |-> s, kind |-> "done", queued |-> queued]

AcquireBug(s) ==
  /\ subTask[s].pc = "permit" /\ Cardinality(Holding) <= SubPermits
  /\ TaskOnly(s, [subTask[s] EXCEPT !.pc = "probe"])
  /\ subInbox' = Append(subInbox, Started(s))
  /\ UNCHANGED <<subWatch, subFaults, subQueued, subAgain, subExcuse>>
Acquire(s) ==
  /\ subTask[s].pc = "permit" /\ Cardinality(Holding) < SubPermits
  /\ TaskOnly(s, [subTask[s] EXCEPT !.pc = "probe"])
  /\ subInbox' = Append(subInbox, Started(s))
  /\ UNCHANGED <<subWatch, subFaults, subQueued, subAgain, subExcuse>>

ListFeed(s) ==
  /\ subTask[s].pc = "probe"
  /\ TaskOnly(s, [subTask[s] EXCEPT !.pc = "read", !.feed = subListing])
  /\ UNCHANGED <<subWatch, subInbox, subFaults, subQueued, subAgain, subExcuse>>

(* The feed was listed before the seen are read.                           *)
ReadSeen(s) ==
  /\ subTask[s].pc = "read"
  /\ TaskOnly(s, [subTask[s] EXCEPT !.pc = "queue", !.feed = {}, !.todo = subTask[s].feed \ subSeen[s]])
  /\ subExcuse' = [subExcuse EXCEPT ![s] = @ \cup Reported(s)]
  /\ UNCHANGED <<subWatch, subInbox, subFaults, subQueued, subAgain>>

(* One chunk is handed to the engine; it takes `taken` of it and refuses   *)
(* the rest.                                                               *)
RecordedRefusedBug(t, chunk, taken) == t.queued \cup chunk
RecordedLastBug(t, chunk, taken) == taken
Recorded(t, chunk, taken) == t.queued \cup taken

AddChunk(s, chunk, taken) ==
  LET t == subTask[s] IN
  /\ t.pc = "queue" /\ chunk # {} /\ chunk \subseteq t.todo /\ taken \subseteq chunk
  /\ TaskOnly(s, [t EXCEPT !.todo = @ \ chunk, !.queued = Recorded(t, chunk, taken)])
  /\ subQueued' = [subQueued EXCEPT ![s] = @ \cup taken]
  /\ subAgain' = [subAgain EXCEPT ![s] = @ \cup (taken \cap subQueued[s])]
  /\ IF taken = chunk THEN UNCHANGED subFaults ELSE Fault
  /\ UNCHANGED <<subWatch, subInbox, subExcuse>>

(* The check ends: with its report, or cut off by the timeout or a failure *)
(* that leaves nothing of it.  The permit is dropped, the report is sent,  *)
(* and the task waits for the cell to change, whatever its timer says.     *)
EndsBug(s, report) ==
  /\ TaskOnly(s, [NoTask EXCEPT !.pc = "idle"])
  /\ subInbox' = IF report = {} THEN subInbox ELSE Append(subInbox, Done(s, report))
  /\ UNCHANGED <<subWatch, subQueued, subAgain>>
Ends(s, report) ==
  /\ TaskOnly(s, [NoTask EXCEPT !.pc = "idle"])
  /\ subInbox' = Append(subInbox, Done(s, report))
  /\ UNCHANGED <<subWatch, subQueued, subAgain>>

CheckEnds(s) ==
  /\ subTask[s].pc = "queue" /\ subTask[s].todo = {}
  /\ Ends(s, subTask[s].queued) /\ UNCHANGED <<subFaults, subExcuse>>

CutOff(s) ==
  /\ s \in Holding /\ Fault
  /\ Ends(s, {})
  /\ subExcuse' = [subExcuse EXCEPT ![s] = @ \cup subTask[s].queued]

----------------------------------------------------------------------------
(* The manager handles what the tasks report, in the order it was sent.    *)

OnStarted ==
  LET s == Head(subInbox).sub IN
  /\ subInbox # <<>> /\ Head(subInbox).kind = "started"
  /\ subInbox' = Tail(subInbox)
  /\ subSlot' = IF s \in subKnown THEN [subSlot EXCEPT ![s].checking = TRUE] ELSE subSlot
  /\ UNCHANGED <<subStore, subKnown, subIndex, subPending, subWatch, subTask, subListing, subAsks, subUsed,
                 subFaults, subHistory>>

FinishedSlotBug(s, ok) == [subSlot[s] EXCEPT !.checking = @ /\ ~ok]
FinishedSlot(s, ok) == [subSlot[s] EXCEPT !.checking = FALSE]

(* A failed write is logged: the schedule goes on in memory, and the marks *)
(* are lost.                                                               *)
FinishCheck(ok) ==
  LET m == Head(subInbox)
      s == m.sub IN
  /\ subInbox # <<>> /\ m.kind = "done"
  /\ subInbox' = Tail(subInbox)
  /\ IF s \notin subKnown
       THEN ok /\ UNCHANGED <<subSeen, subSlot, subWatch, subFaults, subExcuse>>
       ELSE /\ Wrote(ok)
            /\ \E kept \in IF ok /\ m.queued # {} THEN Marked(subSeen[s], m.queued) ELSE {subSeen[s]} :
                 /\ subSeen' = [subSeen EXCEPT ![s] = kept]
                 /\ subExcuse' = [subExcuse EXCEPT ![s] = @ \cup ((subSeen[s] \cup m.queued) \ kept)]
            /\ subSlot' = [subSlot EXCEPT ![s] = FinishedSlot(s, ok)]
            /\ Send(s, subSlot[s].enabled, "later")
  /\ UNCHANGED <<subUrl, subEnabled, subKnown, subIndex, subPending, subTask, subListing, subAsks, subUsed,
                 subBefore, subQueued, subAgain>>

(* The process ends and comes back: load() reads the table, and the first  *)
(* check of each is a while after the boot.                                *)
Restart ==
  LET stored == {s \in Sub : subUrl[s] # NoUrl} IN
  /\ Fault
  /\ subKnown' = stored /\ subIndex' = {<<subUrl[s], s>> : s \in stored}
  /\ subSlot' = [s \in Sub |-> [NoSlot EXCEPT !.enabled = subEnabled[s]]]
  /\ subWatch' = [s \in Sub |-> Quiet]
  /\ subTask' = [s \in Sub |-> IF s \in stored THEN Spawned(subEnabled[s]) ELSE NoTask]
  /\ subPending' = {} /\ subInbox' = <<>>
  /\ subExcuse' = [s \in Sub |-> subExcuse[s] \cup subTask[s].queued \cup Reported(s)]
  /\ UNCHANGED <<subStore, subListing, subAsks, subUsed, subBefore, subQueued, subAgain>>

----------------------------------------------------------------------------
SubTaskStep(s) == Reschedule(s) \/ WakeUp(s) \/ ListFeed(s) \/ ReadSeen(s) \/ CheckEnds(s)
                  \/ AddChunk(s, subTask[s].todo, subTask[s].todo)
SubManagerStep == OnStarted \/ FinishCheck(TRUE)

SubsNext ==
  \/ \E m \in Media : Publish(m)
  \/ \E r \in RawUrl : BeginSubscribe(r)
  \/ \E p \in subPending, found \in BOOLEAN : ProbeEnds(p, found)
  \/ \E p \in subPending, s \in Sub, upcoming \in SUBSET Media, ok \in BOOLEAN : OnProbed(p, s, upcoming, ok)
  \/ \E s \in Sub, ok, enabled \in BOOLEAN, due \in Due : Update(s, enabled, due, ok)
  \/ \E s \in Sub, ok \in BOOLEAN : Delete(s, ok)
  \/ \E s \in Sub : CheckNow(s) \/ DueComes(s) \/ Acquire(s) \/ CutOff(s) \/ SubTaskStep(s)
  \/ \E s \in Sub, chunk, taken \in SUBSET Media : AddChunk(s, chunk, taken)
  \/ OnStarted
  \/ \E ok \in BOOLEAN : FinishCheck(ok)
  \/ Restart

(* The runtime polls every task that is ready and timers run out; a check  *)
(* ends, by its timeout if by nothing else.  The semaphore is first come,  *)
(* first served.                                                           *)
SubsFairness ==
  /\ \A s \in Sub : /\ WF_subVars(SubTaskStep(s)) /\ WF_subVars(DueComes(s))
                    /\ SF_subVars(Acquire(s))
  /\ WF_subVars(SubManagerStep)
SubsSpec == SubsInit /\ [][SubsNext]_subVars /\ SubsFairness

----------------------------------------------------------------------------
SubsTypeOK ==
  /\ subUrl \in [Sub -> RawUrl \cup {NoUrl}] /\ subEnabled \in [Sub -> BOOLEAN]
  /\ subSeen \in [Sub -> SUBSET Media]
  /\ subKnown \subseteq Sub /\ subIndex \subseteq RawUrl \X Sub
  /\ subSlot \in [Sub -> [enabled : BOOLEAN, checking : BOOLEAN]]
  /\ subWatch \in [Sub -> [enabled : BOOLEAN, due : Due, fresh : BOOLEAN]]
  /\ subTask \in [Sub -> [pc : Pc, enabled : BOOLEAN, due : Due, feed : SUBSET Media,
                          todo : SUBSET Media, queued : SUBSET Media]]
  /\ subInbox \in Seq([sub : Sub, kind : {"started", "done"}, queued : SUBSET Media])
  /\ subListing \subseteq Media /\ subUsed \subseteq Sub
  /\ Cardinality(Holding) <= SubPermits

(* What the manager serves is true: its subscriptions are those a boot     *)
(* would load, paused or not alike, one to a feed, whatever write failed   *)
(* and however requests for one feed raced; and `checking` is shown of the *)
(* checks that run, once what the tasks sent has been handled.             *)
SubsServedIsTrue ==
  /\ subKnown = {s \in Sub : subUrl[s] # NoUrl}
  /\ \A s \in subKnown : subSlot[s].enabled = subEnabled[s]
  /\ \A s, t \in subKnown : subUrl[s] = subUrl[t] => s = t
  /\ subInbox = <<>> => \A s \in subKnown : subSlot[s].checking <=> s \in Holding

(* An upload is recorded as seen only when it was queued, or was already   *)
(* listed when the subscription was made: none is skipped for ever.  And   *)
(* it is queued twice only when its mark was lost (a timeout, a restart, a *)
(* failed write) or not written yet when another check of the same         *)
(* subscription read the seen.                                             *)
SubsTakesOnce ==
  \A s \in Sub : subSeen[s] \subseteq subQueued[s] \cup subBefore[s] /\ subAgain[s] \subseteq subExcuse[s]

(* What is served, and what was queued and recorded, are true together.    *)
SubsAreTrue == SubsServedIsTrue /\ SubsTakesOnce

(* An enabled subscription is checked again and again: no change of the    *)
(* cell is missed, and no report leaves a task waiting for ever.           *)
SubsCheckedAgain ==
  \A s \in Sub : []<>(s \in Holding \/ s \notin subKnown \/ ~subSlot[s].enabled)

(* What the manager serves, takes and records stays true, and it goes on   *)
(* checking.                                                               *)
SubsFollow == [][SubsAreTrue']_subVars /\ SubsCheckedAgain
=============================================================================
