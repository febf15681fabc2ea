-------------------------------- MODULE Board --------------------------------
(***************************************************************************)
(* aulos-telegram: the board, one message per burst of downloads, edited   *)
(* until all its jobs are over and then closed.  The actor takes the       *)
(* events of its inbox one at a time and is deaf while it waits for        *)
(* Telegram, which loses calls, refuses them and asks it to wait.          *)
(*                                                                         *)
(* One chat, every job its own.  A row is a status; a text is the rows and *)
(* whether the header is the closing one.  Abstracted: percentages, the    *)
(* two watchdogs' marks, commands and settings, the other chats' share of  *)
(* the global budget.                                                      *)
(***************************************************************************)
EXTENDS Integers, Sequences, FiniteSets

CONSTANTS
  BdJob,        \* items
  BdInbox,      \* the inbox's capacity
  BdMessages,   \* bound: messages sent to the chat
  BdTurns,      \* bound: what the engine does
  BdFaults      \* bound: failed calls, messages deleted by the user

ASSUME BdAssumption == BdInbox \in Nat \ {0} /\ {BdMessages, BdTurns, BdFaults} \subseteq Nat

VARIABLES
  bdJob,        \* the engine's status of each item: "none", "queued", "running", "ended", "gone",
                \* or "old", of one that ended before the boot
  bdInbox,      \* events on their way
  bdWatch,      \* WatchRegistry.jobs
  bdRows,       \* ChatBoard.jobs, "absent" where there is none
  bdBoard,      \* the rest of ChatBoard, see Board
  bdBudget,     \* the limiter lets a call through
  bdCall,       \* the call the tick waits for: "none", "draw", "close"
  bdChat,       \* the messages in the chat, in order
  bdTurns, bdFaults,
  bdMissed,     \* history: jobs of which an event was dropped
  bdUntold      \* history: jobs of a board that was given up before it was ever drawn

bdActor == <<bdWatch, bdRows, bdBoard>>
bdVars == <<bdJob, bdInbox, bdActor, bdBudget, bdCall, bdChat, bdTurns, bdFaults, bdMissed, bdUntold>>

Statuses == {"absent", "queued", "running", "ended"}
NoRows == [j \in BdJob |-> "absent"]

(* idle: idle_since, "no", "set", or "tried" when a tick has had its turn  *)
(* to draw since.  last: the rows of last_rendered, <<>> when it is empty. *)
Board == [up : BOOLEAN, dirty : BOOLEAN, idle : {"no", "set", "tried"}, drawn : BOOLEAN,
          msg : 0..BdMessages, last : {<<>>} \cup [BdJob -> Statuses]]
NoBoard == [up |-> FALSE, dirty |-> FALSE, idle |-> "no", drawn |-> FALSE, msg |-> 0, last |-> <<>>]

(* After a boot, which knows no board: an item is new or history.          *)
Event(kind, j, from, to) == [kind |-> kind, job |-> j, from |-> from, to |-> to]
BoardInit ==
  /\ bdJob \in [BdJob -> {"none", "old"}]
  /\ bdInbox = <<>> /\ bdWatch = {} /\ bdRows = NoRows /\ bdBoard = NoBoard
  /\ bdBudget = TRUE /\ bdCall = "none" /\ bdChat = <<>> /\ bdTurns = 0 /\ bdFaults = 0
  /\ bdMissed = {} /\ bdUntold = {}

----------------------------------------------------------------------------
(* The engine, and the router's DropNewest.                                *)
Alive(status) == status \in {"queued", "running"}
Publish(events, j) ==
  LET room == BdInbox - Len(bdInbox) IN
  IF Len(events) <= room THEN bdInbox' = bdInbox \o events /\ UNCHANGED bdMissed
  ELSE bdInbox' = bdInbox \o SubSeq(events, 1, room) /\ bdMissed' = bdMissed \cup {j}

Turn(j, status, events) ==
  /\ bdTurns < BdTurns /\ bdTurns' = bdTurns + 1
  /\ bdJob' = [bdJob EXCEPT ![j] = status] /\ Publish(events, j)
  /\ UNCHANGED <<bdActor, bdBudget, bdCall, bdChat, bdFaults, bdUntold>>
Changed(j, to) == Event("changed", j, bdJob[j], to)

Add(j)     == bdJob[j] = "none" /\ Turn(j, "queued", <<Event("added", j, "none", "queued")>>)
TakesOver(j) == bdJob[j] = "none" /\ bdTurns = 0 /\ Turn(j, "queued", <<Event("recovered", j, "none", "queued")>>)
Run(j)     == bdJob[j] = "queued" /\ Turn(j, "running", <<Changed(j, "running")>>)
End(j)     == Alive(bdJob[j]) /\ Turn(j, "ended", <<Changed(j, "ended"), Event("completed", j, "ended", "ended")>>)
Retry(j)   == bdJob[j] \in {"ended", "old"} /\ Turn(j, "queued", <<Changed(j, "queued")>>)
Erases(j)  == bdJob[j] \notin {"none", "gone"} /\ Turn(j, "gone", <<Event("removed", j, bdJob[j], "gone")>>)

----------------------------------------------------------------------------
(* on_event.                                                               *)
Upsert(j, status) ==
  /\ bdRows' = [bdRows EXCEPT ![j] = status]
  /\ bdBoard' = [bdBoard EXCEPT !.up = TRUE, !.dirty = TRUE, !.idle = IF status = "ended" THEN @ ELSE "no"]

OnAdded(j) == bdWatch' = bdWatch \cup {j} /\ Upsert(j, "queued")
OnRecovered(j) == bdWatch' = bdWatch \cup {j} /\ UNCHANGED <<bdRows, bdBoard>>

(* A job that starts over is watched again.                                *)
BegunAgainBug(e) == FALSE
BegunAgain(e) == e.from \in {"ended", "old"} /\ Alive(e.to) /\ e.job \notin bdWatch
OnChanged(e) ==
  IF e.job \in bdWatch \/ BegunAgain(e)
  THEN bdWatch' = bdWatch \cup {e.job} /\ Upsert(e.job, e.to)
  ELSE UNCHANGED bdActor

(* on_completed: the last row to end starts the clock.                     *)
AnyActive(rows) == \E j \in BdJob : Alive(rows[j])
OnCompleted(j) ==
  IF j \notin bdWatch THEN UNCHANGED bdActor
  ELSE LET rows == [bdRows EXCEPT ![j] = "ended"] IN
       /\ bdWatch' = bdWatch \ {j} /\ bdRows' = rows
       /\ bdBoard' = [bdBoard EXCEPT !.up = TRUE, !.dirty = TRUE,
                                     !.idle = IF @ = "no" /\ ~AnyActive(rows) THEN "set" ELSE @]
OnRemoved(j) ==
  /\ bdWatch' = bdWatch \ {j} /\ bdRows' = [bdRows EXCEPT ![j] = "absent"]
  /\ bdBoard' = [bdBoard EXCEPT !.dirty = @ \/ bdRows[j] # "absent"]

OnEvent ==
  /\ bdCall = "none" /\ bdInbox # <<>> /\ bdInbox' = Tail(bdInbox)
  /\ LET e == Head(bdInbox) IN
     CASE e.kind = "added"     -> OnAdded(e.job)
       [] e.kind = "recovered" -> OnRecovered(e.job)
       [] e.kind = "changed"   -> OnChanged(e)
       [] e.kind = "completed" -> OnCompleted(e.job)
       [] e.kind = "removed"   -> OnRemoved(e.job)
  /\ UNCHANGED <<bdJob, bdBudget, bdCall, bdChat, bdTurns, bdFaults, bdMissed, bdUntold>>

----------------------------------------------------------------------------
(* on_tick.  A board whose jobs are over for RETIRE_AFTER is closed; that  *)
(* is long after the chat's interval, so a tick has had its turn to draw.  *)
IdleTick == IF AnyActive(bdRows) THEN "no" ELSE "set"
HasRows == bdRows # NoRows
Stale == bdBoard.dirty /\ HasRows /\ bdRows # bdBoard.last

(* redraw, when the budget allows; a text as the last one costs no call.   *)
TickRedraw ==
  /\ bdCall = "none" /\ bdBoard.up
  /\ IF Stale THEN bdBudget /\ bdCall' = "draw" ELSE UNCHANGED bdCall
  /\ bdBoard' = [bdBoard EXCEPT !.idle = IF IdleTick = "no" THEN "no" ELSE "tried",
                                !.dirty = @ /\ (Stale \/ ~HasRows)]
  /\ UNCHANGED <<bdJob, bdInbox, bdWatch, bdRows, bdBudget, bdChat, bdTurns, bdFaults, bdMissed, bdUntold>>
TickLooks ==
  /\ bdCall = "none" /\ bdBoard.up /\ Stale /\ ~bdBudget
  /\ bdBoard' = [bdBoard EXCEPT !.idle = IF IdleTick = "no" THEN "no" ELSE IF @ = "no" THEN "set" ELSE @]
  /\ UNCHANGED <<bdJob, bdInbox, bdWatch, bdRows, bdBudget, bdCall, bdChat, bdTurns, bdFaults, bdMissed, bdUntold>>

(* retire: a board that was never drawn says nothing; the other is asked   *)
(* to close, when the budget allows.                                       *)
Drops == bdRows' = NoRows /\ bdBoard' = NoBoard
TickRetire ==
  /\ bdCall = "none" /\ bdBoard.up /\ bdBoard.idle = "tried" /\ IdleTick # "no"
  /\ IF ~bdBoard.drawn THEN Drops /\ bdUntold' = bdUntold \cup {j \in BdJob : bdRows[j] # "absent"} /\ UNCHANGED bdCall
     ELSE bdBudget /\ bdCall' = "close" /\ UNCHANGED <<bdRows, bdBoard, bdUntold>>
  /\ UNCHANGED <<bdJob, bdInbox, bdWatch, bdBudget, bdChat, bdTurns, bdFaults, bdMissed>>

(* The interval of the chat, or the wait that Telegram asked for, is over. *)
BudgetBack ==
  /\ ~bdBudget /\ bdCall = "none" /\ bdBudget' = TRUE
  /\ UNCHANGED <<bdJob, bdInbox, bdActor, bdCall, bdChat, bdTurns, bdFaults, bdMissed, bdUntold>>

----------------------------------------------------------------------------
(* The call's answer.  A message: what it shows, whether it is "live",     *)
(* "closed" or was "deleted" by the user, whether the actor ever held its  *)
(* id and was not refused an edit of it, and whether it knows the text.    *)
Text == [rows |-> bdRows, state |-> IF bdCall = "close" THEN "closed" ELSE "live"]
Message(ours, known) == [rows |-> Text.rows, state |-> Text.state, ours |-> ours, known |-> known]
OnScreen == bdChat[bdBoard.msg]
Edited(known) == [bdChat EXCEPT ![bdBoard.msg] = Message(TRUE, known)]
Sent(ours) == Append(bdChat, Message(ours, ours))

(* The text arrived: the board remembers it, or is forgotten with it.      *)
Landed(id) ==
  IF bdCall = "close" THEN Drops
  ELSE /\ bdBoard' = [bdBoard EXCEPT !.msg = id, !.last = bdRows, !.dirty = FALSE, !.drawn = TRUE]
       /\ UNCHANGED bdRows
Arrives ==
  /\ IF bdBoard.msg # 0 THEN OnScreen.state # "deleted" /\ bdChat' = Edited(TRUE) /\ Landed(bdBoard.msg)
     ELSE Len(bdChat) < BdMessages /\ bdChat' = Sent(TRUE) /\ Landed(Len(bdChat) + 1)
  /\ UNCHANGED bdFaults

(* An edit is refused, of a message that is deleted or for another reason: *)
(* its id is forgotten and the rows are kept.  A refused send is dropped.  *)
ForgottenBug == bdBoard
Forgotten == [bdBoard EXCEPT !.msg = 0, !.last = <<>>, !.dirty = TRUE]
Refused ==
  /\ IF bdBoard.msg = 0 THEN UNCHANGED <<bdChat, bdBoard>>
     ELSE bdBoard' = Forgotten /\ bdChat' = [bdChat EXCEPT ![bdBoard.msg].ours = FALSE]
  /\ IF bdBoard.msg # 0 /\ OnScreen.state = "deleted" THEN UNCHANGED bdFaults
     ELSE bdFaults < BdFaults /\ bdFaults' = bdFaults + 1
  /\ UNCHANGED bdRows

(* The network fails, of an edit three times, with or without the text     *)
(* having arrived; the edit is dropped and the board is as it was.         *)
NotClosedBug == IF bdCall = "close" THEN Drops ELSE UNCHANGED <<bdRows, bdBoard>>
NotClosed == UNCHANGED <<bdRows, bdBoard>>
Lost(arrived) ==
  /\ bdFaults < BdFaults /\ bdFaults' = bdFaults + 1 /\ NotClosed
  /\ IF ~arrived THEN UNCHANGED bdChat
     ELSE IF bdBoard.msg # 0 THEN OnScreen.state # "deleted" /\ bdChat' = Edited(FALSE)
     ELSE Len(bdChat) < BdMessages /\ bdChat' = Sent(FALSE)

(* A text that went out costs the chat's interval, and a 429 a longer one. *)
Answer ==
  /\ bdCall # "none" /\ bdCall' = "none"
  /\ \/ Arrives /\ bdBudget' = FALSE
     \/ Refused /\ UNCHANGED bdBudget
     \/ \E arrived \in BOOLEAN : Lost(arrived) /\ UNCHANGED bdBudget
     \/ Lost(FALSE) /\ bdBudget' = FALSE
  /\ UNCHANGED <<bdJob, bdInbox, bdWatch, bdTurns, bdMissed, bdUntold>>

(* The user deletes a message.                                             *)
Deletes(m) ==
  /\ bdChat[m].state # "deleted" /\ bdFaults < BdFaults /\ bdFaults' = bdFaults + 1
  /\ bdChat' = [bdChat EXCEPT ![m].state = "deleted"]
  /\ UNCHANGED <<bdJob, bdInbox, bdActor, bdBudget, bdCall, bdTurns, bdMissed, bdUntold>>

----------------------------------------------------------------------------
Engine == \E j \in BdJob : Add(j) \/ TakesOver(j) \/ Run(j) \/ End(j) \/ Retry(j) \/ Erases(j)
BoardNext ==
  \/ Engine \/ OnEvent \/ TickRedraw \/ TickLooks \/ TickRetire \/ BudgetBack \/ Answer
  \/ \E m \in DOMAIN bdChat : Deletes(m)

(* The loop turns, a call is answered, and after it an interval ends.      *)
BoardFairness ==
  /\ WF_bdVars(OnEvent) /\ WF_bdVars(TickRedraw) /\ WF_bdVars(TickRetire)
  /\ WF_bdVars(BudgetBack \/ Answer)
BoardSpec == BoardInit /\ [][BoardNext]_bdVars /\ BoardFairness

BoardTypeOK ==
  /\ bdJob \in [BdJob -> {"none", "old", "queued", "running", "ended", "gone"}]
  /\ Len(bdInbox) <= BdInbox /\ bdWatch \subseteq BdJob /\ bdRows \in [BdJob -> Statuses]
  /\ bdBoard \in Board /\ bdBudget \in BOOLEAN /\ bdCall \in {"none", "draw", "close"}
  /\ Len(bdChat) <= BdMessages /\ bdTurns \in 0..BdTurns /\ bdFaults \in 0..BdFaults
  /\ bdMissed \subseteq BdJob /\ bdUntold \subseteq BdJob

(* watch, finish, board_upsert: between two events the actor watches the   *)
(* jobs that are not over, and its rows say what the engine says, of every *)
(* job it was told everything of: a recovered one, a retried one, one that *)
(* ended while the actor waited for Telegram.                              *)
BoardFollows ==
  bdInbox = <<>> => \A j \in BdJob \ bdMissed :
    /\ j \in bdWatch <=> Alive(bdJob[j])
    /\ bdRows[j] # "absent" => bdRows[j] = bdJob[j]

(* edit and retire: no message is left behind under a live header, unless  *)
(* Telegram refused an edit of it or never gave its id; and the end of a   *)
(* job is on the board or was on one that was closed.                      *)
BoardReceipts ==
  /\ \A m \in DOMAIN bdChat : bdChat[m].state = "live" /\ bdChat[m].ours => bdBoard.up /\ bdBoard.msg = m
  /\ \A j \in BdJob \ (bdMissed \cup bdUntold) : bdInbox = <<>> /\ bdJob[j] = "ended" =>
       \/ bdRows[j] = "ended"
       \/ \E m \in DOMAIN bdChat : bdChat[m].rows[j] = "ended" /\ bdChat[m].state # "live"

BoardIsTrue == BoardFollows /\ BoardReceipts

(* redraw and retire: while jobs run, the chat shows their rows; when they *)
(* are over the board is closed, whatever calls failed or were refused.    *)
(* A board of which an event was dropped may stay for ever; a message that *)
(* the user deleted is missed at the next change; and an edit that arrived *)
(* while its answer was lost stands until a text differs from last_rendered*)
UpToDate == bdBoard.msg # 0 /\ (OnScreen.state = "deleted" \/ ~OnScreen.known \/ OnScreen.rows = bdRows)
BoardSettles ==
  []<>(\/ bdMissed # {} \/ Len(bdChat) = BdMessages
       \/ IF AnyActive(bdRows) THEN UpToDate ELSE ~bdBoard.up)

(* The board says what the engine says, leaves no message behind, and      *)
(* comes to show it and to be closed.                                      *)
BoardFollowsJobs == [][BoardIsTrue']_bdVars /\ BoardSettles
=============================================================================
