------------------------------ MODULE Shutdown ------------------------------
(***************************************************************************)
(* The boot and the shutdown of the server: which task waits for which     *)
(* channel, who still holds a sender of it, and the ceilings the main      *)
(* function puts on its own waits.  A task that could end is taken to do   *)
(* so before a ceiling is reached, unless it is one of the slow ones.      *)
(***************************************************************************)
EXTENDS Naturals, FiniteSets

VARIABLES
  sdOn,     \* the optional tasks the configuration turns on
  sdSlow,   \* the tasks that may take longer than any ceiling
  sdStep,   \* where the main function is
  sdTask,   \* of every task: not spawned, running or over
  sdCut,    \* the tokens that are cancelled
  sdHeld,   \* the channels the main function holds a sender of
  sdAsked,  \* the engine was sent its Shutdown command
  sdStore,  \* the store: none, open or closed
  sdRow,    \* the stored status of the row the job downloads
  sdPanic,  \* the engine panicked; "seen" when that is why the server stops
  sdSpent,  \* history: of each ceiling that was reached, the tasks then running
  sdCode    \* the exit code

sdVars == <<sdOn, sdSlow, sdStep, sdTask, sdCut, sdHeld, sdAsked, sdStore, sdRow, sdPanic, sdSpent, sdCode>>

(* "watchers" are the file watcher, the two reload signals, the retries of *)
(* the tools, the checkpoint and the bot's poller, which all end by the    *)
(* first token; "notifiers" the bot and the push loop.                     *)
Tracked   == {"signal", "pot", "panics", "manager", "watchers", "router", "health"}
Consumers == {"aggregator", "dispatcher", "notifiers"}
SdTask    == Tracked \cup Consumers \cup {"engine", "served", "job", "session"}
Optional  == {"pot", "notifiers"}
Channel   == {"events", "progress", "subs"}
Ceiling   == {"unwind", "command", "serve", "engine", "drain", "tracker"}
BootStep  == {"dirs", "store", "probes", "recovery", "bind"}
SdStep    == BootStep \cup Ceiling \cup {"serving", "grace", "close", "exit"}

(* The senders each task keeps until it is over.  A session keeps the      *)
(* state of the API, and with it a handle of the subscriptions.            *)
Holds(t) ==
  CASE t = "engine" -> {"events", "progress"}
    [] t = "health" -> {"events", "progress", "subs"}
    [] t \in {"pot", "manager", "watchers"} -> {"events"}
    [] t \in {"job", "dispatcher"} -> {"progress"}
    [] t \in {"served", "session"} -> {"subs"}
    [] OTHER -> {}

(* Who writes to the store.                                                *)
Writers == {"engine", "dispatcher", "notifiers", "manager", "watchers", "served", "session"}

Runs(t) == sdTask[t] = "runs"
Held(c) == c \in sdHeld \/ \E t \in SdTask : Runs(t) /\ c \in Holds(t)

ShutdownInit ==
  /\ sdOn \in SUBSET Optional
  /\ sdSlow \in SUBSET {"engine", "job", "dispatcher", "served"} /\ Cardinality(sdSlow) <= 1
  /\ sdStep = "dirs" /\ sdTask = [t \in SdTask |-> IF t = "signal" THEN "runs" ELSE "none"]
  /\ sdCut = {} /\ sdHeld = {} /\ sdAsked = FALSE /\ sdStore = "none" /\ sdRow = "queued"
  /\ sdPanic = "no" /\ sdSpent = [c \in Ceiling |-> {}] /\ sdCode = "none"

(* The tasks a step of the boot leaves running: the sidecar's before the   *)
(* recovery, all others after it, and the listener last.                   *)
TurnedOn(ts) == {t \in ts : t \in Optional => t \in sdOn}
Spawned(s) ==
  CASE s = "probes" -> {"pot"}
    [] s = "recovery" -> (Tracked \ {"signal", "pot"}) \cup Consumers \cup {"engine"}
    [] s = "bind" -> {"served"}
    [] OTHER -> {}
Started(s) == [t \in SdTask |-> IF t \in TurnedOn(Spawned(s)) THEN "runs" ELSE sdTask[t]]
Opened(s) == IF s = "store" THEN "open" ELSE sdStore
NextStep(s) ==
  CASE s = "dirs" -> "store" [] s = "store" -> "probes" [] s = "probes" -> "recovery"
    [] s = "recovery" -> "bind" [] s = "bind" -> "serving"

(* A step of the boot, and the look at the token behind it: before the     *)
(* tasks are spawned a cancelled boot unwinds, after that it only does     *)
(* not bind.                                                               *)
BootCutsBug(s) == {}  \* the sidecar is forgotten
BootCuts(s) == IF s = "recovery" THEN {"pot"} ELSE {}
BootSteps ==
  /\ sdStep \in BootStep
  /\ \/ /\ "http" \notin sdCut
        /\ sdTask' = Started(sdStep) /\ sdStep' = NextStep(sdStep) /\ UNCHANGED sdCut
     \/ /\ "http" \in sdCut /\ sdStep # "bind"
        /\ sdCut' = sdCut \cup BootCuts(sdStep) /\ sdStep' = "unwind" /\ UNCHANGED sdTask
     \/ /\ "http" \in sdCut /\ sdStep = "bind"
        /\ sdStep' = "serving" /\ UNCHANGED <<sdTask, sdCut>>
  /\ sdStore' = Opened(sdStep)
  /\ sdHeld' = IF sdStep' = "bind" THEN Channel ELSE sdHeld
  /\ UNCHANGED <<sdOn, sdSlow, sdAsked, sdRow, sdPanic, sdSpent, sdCode>>

(* The two ways the server is asked to stop: a signal, or the end of the   *)
(* engine without its last word.                                           *)
SignalComes ==
  /\ Runs("signal") /\ sdStep # "exit"
  /\ sdTask' = [sdTask EXCEPT !["signal"] = "over"] /\ sdCut' = sdCut \cup {"http"}
  /\ UNCHANGED <<sdOn, sdSlow, sdStep, sdHeld, sdAsked, sdStore, sdRow, sdPanic, sdSpent, sdCode>>
EngineDies ==
  /\ Runs("engine") /\ ~sdAsked /\ sdPanic = "no" /\ sdStep # "exit"
  /\ sdTask' = [sdTask EXCEPT !["engine"] = "over"] /\ sdPanic' = "yes"
  /\ UNCHANGED <<sdOn, sdSlow, sdStep, sdCut, sdHeld, sdAsked, sdStore, sdRow, sdSpent, sdCode>>

(* The engine starts a job; the job ends by itself, and while the engine   *)
(* takes commands its report is written.                                   *)
JobStarts ==
  /\ Runs("engine") /\ ~sdAsked /\ sdTask["job"] = "none" /\ sdStep # "exit"
  /\ sdTask' = [sdTask EXCEPT !["job"] = "runs"] /\ sdRow' = "downloading"
  /\ UNCHANGED <<sdOn, sdSlow, sdStep, sdCut, sdHeld, sdAsked, sdStore, sdPanic, sdSpent, sdCode>>
JobEnds ==
  /\ Runs("job") /\ sdStep # "exit"
  /\ sdTask' = [sdTask EXCEPT !["job"] = "over"]
  /\ sdRow' = IF Runs("engine") /\ ~sdAsked THEN "finished" ELSE sdRow
  /\ UNCHANGED <<sdOn, sdSlow, sdStep, sdCut, sdHeld, sdAsked, sdStore, sdPanic, sdSpent, sdCode>>

(* The answer to Shutdown: the rows whose report was not handled yet are   *)
(* written, the jobs are cancelled, and the loop ends.                     *)
RowHandedOverBug == sdRow  \* no hand-over
RowHandedOver == IF sdRow = "downloading" THEN "queued" ELSE sdRow
EngineAnswers ==
  /\ Runs("engine") /\ sdAsked /\ sdStep # "exit"
  /\ sdTask' = [sdTask EXCEPT !["engine"] = "over"] /\ sdRow' = RowHandedOver
  /\ UNCHANGED <<sdOn, sdSlow, sdStep, sdCut, sdHeld, sdAsked, sdStore, sdPanic, sdSpent, sdCode>>

(* A client's session begins while the listener accepts, and ends when the *)
(* client goes: nothing the server does reaches it.                        *)
SessionOpens ==
  /\ Runs("served") /\ "http" \notin sdCut /\ sdTask["session"] = "none"
  /\ sdTask' = [sdTask EXCEPT !["session"] = "runs"]
  /\ UNCHANGED <<sdOn, sdSlow, sdStep, sdCut, sdHeld, sdAsked, sdStore, sdRow, sdPanic, sdSpent, sdCode>>
SessionLeaves ==
  /\ Runs("session") /\ sdStep # "exit"
  /\ sdTask' = [sdTask EXCEPT !["session"] = "over"]
  /\ UNCHANGED <<sdOn, sdSlow, sdStep, sdCut, sdHeld, sdAsked, sdStore, sdRow, sdPanic, sdSpent, sdCode>>

(* When a task's loop is told to return.                                   *)
Told(t) ==
  CASE t = "panics" -> ~Runs("engine")
    [] t = "pot" -> "pot" \in sdCut
    [] t \in {"watchers", "health", "served"} -> "http" \in sdCut
    [] t = "manager" -> ~Held("subs")
    [] t = "router" -> ~Held("events")
    [] t \in {"dispatcher", "notifiers"} -> ~Runs("router")
    [] t = "aggregator" -> ~Runs("router") /\ ~Held("progress")
    [] t = "job" -> "jobs" \in sdCut \/ (sdAsked /\ ~Runs("engine"))
    [] t = "engine" -> sdAsked
    [] OTHER -> FALSE
Ends(t) == Runs(t) /\ Told(t)

(* The task that watches the engine stops the server if nobody did yet.    *)
PanicIsSeenBug == FALSE  \* nobody stops the server
PanicIsSeen == sdPanic = "yes" /\ "http" \notin sdCut
TaskEnds(t) ==
  /\ Ends(t) /\ t # "engine" /\ sdStep # "exit"
  /\ sdTask' = [sdTask EXCEPT ![t] = "over"]
  /\ IF t = "panics" /\ PanicIsSeen THEN sdPanic' = "seen" /\ sdCut' = sdCut \cup {"http"}
     ELSE UNCHANGED <<sdPanic, sdCut>>
  /\ UNCHANGED <<sdOn, sdSlow, sdStep, sdHeld, sdAsked, sdStore, sdRow, sdSpent, sdCode>>
-----------------------------------------------------------------------------
(* What the main function waits for at a step, and the tasks it stops      *)
(* itself when the ceiling is reached: a join handle is aborted or dropped.*)
AwaitedAt(s) ==
  CASE s \in {"unwind", "tracker"} -> Tracked
    [] s = "command" -> {"engine"}
    [] s = "serve" -> {"served"}
    [] s = "engine" -> {"engine"}
    [] s = "drain" -> Consumers
Aborted(s) == IF s \in {"serve", "engine"} THEN AwaitedAt(s) ELSE {}

(* What it does when the wait is over.                                     *)
Then(s) ==
  CASE s \in {"unwind", "tracker"} -> "close" [] s = "command" -> "serve" [] s = "serve" -> "engine"
    [] s = "engine" -> "drain" [] s = "drain" -> "tracker"
Cuts(s) == CASE s = "command" -> {"jobs"} [] s = "drain" -> {"pot"} [] OTHER -> {}
DroppedBug(s) == IF s = "serve" THEN {"progress"} ELSE {}  \* two senders are kept
Dropped(s) == IF s = "serve" THEN Channel ELSE {}

Quiet == \A t \in SdTask \ sdSlow : ~Ends(t)
MainWaits ==
  /\ sdStep \in Ceiling
  /\ \/ /\ \A t \in AwaitedAt(sdStep) : ~Runs(t)
        /\ UNCHANGED <<sdTask, sdSpent>>
     \/ /\ Quiet /\ \E t \in AwaitedAt(sdStep) : Runs(t)
        /\ sdSpent' = [sdSpent EXCEPT ![sdStep] = {t \in SdTask : Runs(t)}]
        /\ sdTask' = [t \in SdTask |-> IF t \in Aborted(sdStep) /\ Runs(t) THEN "over" ELSE sdTask[t]]
  /\ sdStep' = Then(sdStep) /\ sdCut' = sdCut \cup Cuts(sdStep) /\ sdHeld' = sdHeld \ Dropped(sdStep)
  /\ UNCHANGED <<sdOn, sdSlow, sdAsked, sdStore, sdRow, sdPanic, sdCode>>

ServingEnds ==
  /\ sdStep = "serving" /\ "http" \in sdCut /\ sdStep' = "grace"
  /\ UNCHANGED <<sdOn, sdSlow, sdTask, sdCut, sdHeld, sdAsked, sdStore, sdRow, sdPanic, sdSpent, sdCode>>
GraceEnds ==
  /\ sdStep = "grace" /\ sdStep' = "command" /\ sdAsked' = TRUE
  /\ UNCHANGED <<sdOn, sdSlow, sdTask, sdCut, sdHeld, sdStore, sdRow, sdPanic, sdSpent, sdCode>>
StoreCloses ==
  /\ sdStep = "close" /\ sdStep' = "exit"
  /\ sdStore' = IF sdStore = "open" THEN "closed" ELSE sdStore
  /\ sdCode' = IF sdPanic = "seen" THEN "failed" ELSE "ok"
  /\ UNCHANGED <<sdOn, sdSlow, sdTask, sdCut, sdHeld, sdAsked, sdRow, sdPanic, sdSpent>>
MainSteps == BootSteps \/ ServingEnds \/ GraceEnds \/ MainWaits \/ StoreCloses

(* The process has ended.                                                  *)
Exited == sdStep = "exit" /\ UNCHANGED sdVars

ShutdownNext ==
  \/ Exited
  \/ MainSteps \/ EngineAnswers \/ \E t \in SdTask : TaskEnds(t)
  \/ SignalComes \/ EngineDies \/ JobStarts \/ JobEnds \/ SessionOpens \/ SessionLeaves
ShutdownFairness ==
  /\ WF_sdVars(MainSteps) /\ WF_sdVars(\E t \in SdTask \ sdSlow : TaskEnds(t))
  /\ WF_sdVars("engine" \notin sdSlow /\ EngineAnswers)
ShutdownSpec == ShutdownInit /\ [][ShutdownNext]_sdVars /\ ShutdownFairness
-----------------------------------------------------------------------------
ShutdownTypeOK ==
  /\ sdOn \subseteq Optional /\ sdSlow \subseteq SdTask /\ sdStep \in SdStep
  /\ sdTask \in [SdTask -> {"none", "runs", "over"}] /\ sdCut \subseteq {"http", "jobs", "pot"}
  /\ sdHeld \subseteq Channel /\ sdAsked \in BOOLEAN /\ sdStore \in {"none", "open", "closed"}
  /\ sdRow \in {"queued", "downloading", "finished"} /\ sdPanic \in {"no", "yes", "seen"}
  /\ sdSpent \in [Ceiling -> SUBSET SdTask] /\ sdCode \in {"none", "ok", "failed"}

(* Who may keep the main function at a step until the ceiling: the slow    *)
(* tasks, and three the order of the code does not stop in time.  The      *)
(* sidecar's supervisor is told only after the drain, a session keeps the  *)
(* subscriptions and so the events open, and the signal task knows no      *)
(* other end than a signal.                                                *)
MayKeep(c) ==
  CASE c \in {"command", "engine"} -> {"engine"} \cap sdSlow
    [] c = "serve" -> {"served"} \cap sdSlow
    [] c = "drain" -> {"pot", "session"} \cup (sdSlow \cap {"job", "dispatcher"})
    [] c = "tracker" -> {"signal", "session"}
    [] c = "unwind" -> {}
Kept == \E c \in Ceiling : sdSpent[c] # {}

(* A ceiling is only ever reached for one of those reasons; without one,   *)
(* the store is closed after its last writer is over; the sidecar is       *)
(* stopped before the process ends; a row is left downloading only by an   *)
(* engine that panicked or did not answer in time; and the exit code says  *)
(* whether the engine's panic stopped the server.                          *)
ShutdownIsOrderly ==
  /\ \A c \in Ceiling : sdSpent[c] # {} => sdSpent[c] \cap MayKeep(c) # {}
  /\ sdStore = "closed" /\ ~Kept => \A t \in Writers : ~Runs(t)
  /\ sdStep = "exit" => /\ ~Runs("pot")
                        /\ sdStore # "open"
                        /\ sdRow = "downloading" => sdPanic # "no" \/ "engine" \in sdSlow
                        /\ sdCode = "failed" <=> sdPanic = "seen"

(* A server that is asked to stop, or whose engine died, comes to its end. *)
ShutdownEnds == ("http" \in sdCut \/ sdPanic # "no") ~> sdStep = "exit"
=============================================================================
