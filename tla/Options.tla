------------------------------- MODULE Options -------------------------------
(***************************************************************************)
(* The yt-dlp options in force: one ArcSwap that the file watcher, SIGHUP, *)
(* the reload route and the cookie routes each copy, change and store.     *)
(*                                                                         *)
(* An edit of YTDL_OPTIONS_FILE is a version that parses or does not; the  *)
(* runtime overrides are one, the cookie jar's.  Abstracted: the contents, *)
(* a second file (the presets, watched alike), the frames that announce a  *)
(* reload.  Time is a choice: a debounce or a poll ends when it may.       *)
(***************************************************************************)
EXTENDS Integers, FiniteSets

CONSTANTS
  OpBackends,   \* of "works" (inotify tells of every edit), "deaf" (it never does: a network
                \* mount), "absent" (it could not be built: only the poll is left)
  OpCalls,      \* of "hup", "api" (reloads), "upload", "remove" (cookies): each at most once
  OpEdits,      \* bound: edits of the file
  OpBoots       \* bound: starts of the process

ASSUME OpAssumption ==
  /\ OpBackends \subseteq {"works", "deaf", "absent"} /\ OpBackends # {}
  /\ OpCalls \subseteq {"hup", "api", "upload", "remove"}
  /\ OpEdits \in Nat /\ OpBoots \in Nat

VARIABLES
  opNative,     \* the backend of notify
  opFile,       \* the file on disk: its version, and whether it parses
  opJar,        \* whether cookies.txt exists
  opSwap,       \* the snapshot in force: the version read, whether the jar's override is set
  opHealth,     \* components.ytdl_options: whether it is ok, and of which version
  opUp,         \* "down", "boot" (options loaded), "start" (the watcher spawned), "up"
  opBoots,
  opBell,       \* an accepted event of the backend is in rx
  opArmed,      \* pending: the debounce runs
  opPrints,     \* the version fingerprinted last
  opTask,       \* what each task is doing: see Tasks
  opLost,       \* history: an edit came where nothing looks for it any more
  opRaced       \* history: two changes of the snapshot or of the jar overlapped, or a cookie route was cut short

Loaders == {"watch", "hup", "api"}
Clerks == {"upload", "remove"}
Tasks == {"watch"} \cup OpCalls

opWatcher == <<opBell, opArmed, opPrints>>
opHistory == <<opLost, opRaced>>
opVars == <<opNative, opFile, opJar, opSwap, opHealth, opUp, opBoots, opWatcher, opTask, opHistory>>

(* "off": the watcher before its task runs, or a call not made.  "read":   *)
(* it has read the file; "filed": it has changed the jar on disk; "copied":*)
(* it holds the snapshot it will store a successor of; "stored"; "told".   *)
Task(pc, seen, copy) == [pc |-> pc, seen |-> seen, copy |-> copy]
Nowhere == [ver |-> 0, ok |-> TRUE]
Rest(pc) == Task(pc, Nowhere, [ver |-> 0, jar |-> FALSE])

OptionsInit ==
  /\ opNative \in OpBackends /\ opFile = [ver |-> 0, ok |-> TRUE] /\ opJar \in BOOLEAN
  /\ opSwap = [ver |-> 0, jar |-> FALSE] /\ opHealth = [ver |-> 0, ok |-> TRUE]
  /\ opUp = "down" /\ opBoots = 0 /\ opBell = FALSE /\ opArmed = FALSE /\ opPrints = 0
  /\ opTask = [t \in Tasks |-> Rest("off")] /\ opLost = FALSE /\ opRaced = FALSE

Stands(t, pc) == opTask[t].pc = pc
Moves(t, pc) == opTask' = [opTask EXCEPT ![t].pc = pc]
Rests(t, pc) == opTask' = [opTask EXCEPT ![t] = Rest(pc)]

----------------------------------------------------------------------------
(* The outside: an edit, complete at once; the backend tells of it from    *)
(* the moment the directory is watched.                                    *)
Watched == opNative = "works" /\ opUp \in {"start", "up"}
Edit(ok) ==
  /\ opFile.ver < OpEdits /\ opFile' = [ver |-> opFile.ver + 1, ok |-> ok]
  /\ opBell' = (opBell \/ Watched)
  /\ UNCHANGED <<opNative, opJar, opSwap, opHealth, opUp, opBoots, opArmed, opPrints, opTask, opHistory>>

(* The process ends at any moment.                                         *)
Crash ==
  /\ opUp # "down" /\ opBoots < OpBoots /\ opUp' = "down"
  /\ opTask' = [t \in Tasks |-> IF Stands(t, "off") THEN opTask[t] ELSE Rest("gone")]
  /\ opBell' = FALSE /\ opArmed' = FALSE /\ UNCHANGED <<opNative, opFile, opJar, opSwap, opHealth, opBoots, opPrints, opHistory>>

----------------------------------------------------------------------------
(* load_ytdl_options adopts a jar it finds; a file that does not parse     *)
(* ends the boot.                                                          *)
AdoptedBug == FALSE
Adopted == opJar
FirstLoad ==
  /\ opUp = "down" /\ opBoots < OpBoots /\ opFile.ok /\ opUp' = "boot" /\ opBoots' = opBoots + 1
  /\ opSwap' = [ver |-> opFile.ver, jar |-> Adopted] /\ opTask' = [opTask EXCEPT !["watch"] = Rest("off")]
  /\ opHealth' = [ver |-> opFile.ver, ok |-> TRUE] /\ opLost' = FALSE /\ opRaced' = FALSE
  /\ UNCHANGED <<opNative, opFile, opJar, opWatcher>>

(* ConfigWatcher::start: the directory is watched from here, and the task  *)
(* takes its first fingerprint when it runs.                               *)
Start ==
  /\ opUp = "boot" /\ opUp' = "start"
  /\ UNCHANGED <<opNative, opFile, opJar, opSwap, opHealth, opBoots, opWatcher, opTask, opHistory>>
Heard == opBell \/ opArmed
Baseline ==
  /\ opUp \in {"start", "up"} /\ Stands("watch", "off") /\ Moves("watch", "told") /\ opPrints' = opFile.ver
  /\ opLost' = (opLost \/ (~Heard /\ (opFile.ver # opSwap.ver \/ opFile # opHealth)))
  /\ UNCHANGED <<opNative, opFile, opJar, opSwap, opHealth, opUp, opBoots, opBell, opArmed, opRaced>>

(* The boot's own value of the component, after the watcher was spawned.   *)
Announce ==
  /\ opUp = "start" /\ opUp' = "up" /\ opHealth' = [ver |-> opSwap.ver, ok |-> TRUE]
  /\ opLost' = (opLost \/ ~opHealth.ok)
  /\ UNCHANGED <<opNative, opFile, opJar, opSwap, opBoots, opWatcher, opTask, opRaced>>

----------------------------------------------------------------------------
(* The watcher's select loop.                                              *)
Ring ==
  /\ Stands("watch", "told") /\ opBell /\ opBell' = FALSE /\ opArmed' = TRUE
  /\ UNCHANGED <<opNative, opFile, opJar, opSwap, opHealth, opUp, opBoots, opPrints, opTask, opHistory>>

(* A poll that sees a change goes through the debounce, unless there is no *)
(* backend: then rx is closed and its arm polls and reloads by itself.     *)
PollArmedBug == opArmed
PollArmed == TRUE
Reads(t) == opTask' = [opTask EXCEPT ![t] = Task("read", opFile, @.copy)]
Poll ==
  /\ Stands("watch", "told") /\ opPrints # opFile.ver /\ opPrints' = opFile.ver
  /\ IF opNative = "absent" THEN Reads("watch") /\ UNCHANGED opArmed
     ELSE opArmed' = PollArmed /\ UNCHANGED opTask
  /\ UNCHANGED <<opNative, opFile, opJar, opSwap, opHealth, opUp, opBoots, opBell, opHistory>>

Fire ==
  /\ Stands("watch", "told") /\ opArmed /\ opArmed' = FALSE /\ Reads("watch")
  /\ UNCHANGED <<opNative, opFile, opJar, opSwap, opHealth, opUp, opBoots, opBell, opPrints, opHistory>>

(* SIGHUP, or POST ytdl-options/reload.                                    *)
Reload(c) ==
  /\ c \in OpCalls \cap Loaders /\ opUp = "up" /\ Stands(c, "off") /\ Reads(c)
  /\ UNCHANGED <<opNative, opFile, opJar, opSwap, opHealth, opUp, opBoots, opWatcher, opHistory>>

(* reload_options, and the route's own: what does not parse changes        *)
(* nothing; what does takes over the overrides of the snapshot in force.   *)
Refuse(l) ==
  /\ l \in Loaders /\ Stands(l, "read") /\ ~opTask[l].seen.ok /\ Moves(l, "stored")
  /\ UNCHANGED <<opNative, opFile, opJar, opSwap, opHealth, opUp, opBoots, opWatcher, opHistory>>
Copy(t) ==
  /\ \/ t \in Loaders /\ Stands(t, "read") /\ opTask[t].seen.ok
     \/ t \in Clerks /\ Stands(t, "filed")
  /\ opTask' = [opTask EXCEPT ![t] = Task("copied", @.seen, opSwap)]
  /\ UNCHANGED <<opNative, opFile, opJar, opSwap, opHealth, opUp, opBoots, opWatcher, opHistory>>

InheritedBug(t) == [ver |-> opTask[t].seen.ver, jar |-> FALSE]
Inherited(t) == [ver |-> opTask[t].seen.ver, jar |-> opTask[t].copy.jar]
Store(l) ==
  /\ l \in Loaders /\ Stands(l, "copied") /\ opSwap' = Inherited(l) /\ Moves(l, "stored")
  /\ opLost' = (opLost \/ opTask[l].seen.ver < opSwap.ver)
  /\ opRaced' = (opRaced \/ opTask[l].copy.jar # opSwap.jar)
  /\ UNCHANGED <<opNative, opFile, opJar, opHealth, opUp, opBoots, opWatcher>>

(* The component and the event, which the route does not set; then the     *)
(* watcher takes the fingerprint of what is on disk by now.                *)
OutcomeBug(l) == [ver |-> opTask[l].seen.ver, ok |-> opTask[l].seen.ok /\ opHealth.ok]
Outcome(l) == opTask[l].seen
Tell(l) ==
  LET seen == opTask[l].seen
      newest == seen = opFile /\ (seen.ok => opSwap.ver = seen.ver) IN
  /\ l \in Loaders /\ Stands(l, "stored")
  /\ CASE l # "watch" -> Rests(l, "gone")
       [] l = "watch" /\ opNative = "absent" -> Rests(l, "told")
       [] l = "watch" /\ opNative # "absent" -> Moves(l, "print")
  /\ IF l = "api" THEN UNCHANGED <<opHealth, opLost>>
     ELSE /\ opHealth' = Outcome(l)
          /\ opLost' = (seen.ver < opHealth.ver \/ (opLost /\ ~newest))
  /\ UNCHANGED <<opNative, opFile, opJar, opSwap, opUp, opBoots, opWatcher, opRaced>>
Fingerprint ==
  /\ Stands("watch", "print") /\ Rests("watch", "told") /\ opPrints' = opFile.ver
  /\ opLost' = (opLost \/ (opTask["watch"].seen.ver # opFile.ver /\ ~Heard))
  /\ UNCHANGED <<opNative, opFile, opJar, opSwap, opHealth, opUp, opBoots, opBell, opArmed, opRaced>>

----------------------------------------------------------------------------
(* The cookie routes: the file first, then the override.                   *)
Busy(t) == opTask[t].pc \in {"filed", "copied"}
FileJar(c) ==
  /\ c \in OpCalls \cap Clerks /\ opUp = "up" /\ Stands(c, "off")
  /\ (c = "remove" => opJar) /\ opJar' = (c = "upload") /\ Moves(c, "filed")
  /\ opRaced' = (opRaced \/ \E d \in OpCalls \cap Clerks : Busy(d))
  /\ UNCHANGED <<opNative, opFile, opSwap, opHealth, opUp, opBoots, opWatcher, opLost>>
(* set_cookiefile stores the snapshot it copied, changed.                  *)
SetJar(c) ==
  /\ c \in Clerks /\ Stands(c, "copied") /\ Rests(c, "gone")
  /\ opSwap' = [opTask[c].copy EXCEPT !.jar = (c = "upload")]
  /\ opLost' = (opLost \/ opTask[c].copy.ver # opSwap.ver)
  /\ UNCHANGED <<opNative, opFile, opJar, opHealth, opUp, opBoots, opWatcher, opRaced>>

(* The client hangs up while the file is renamed or removed: the handler   *)
(* is dropped, and what it asked the file system for goes through.         *)
HangsUp(c) ==
  /\ c \in Clerks /\ Stands(c, "filed") /\ Rests(c, "gone") /\ opRaced' = TRUE
  /\ UNCHANGED <<opNative, opFile, opJar, opSwap, opHealth, opUp, opBoots, opWatcher, opLost>>

----------------------------------------------------------------------------
Step(t) == opTask[t].pc # "gone" /\ (Refuse(t) \/ Copy(t) \/ Store(t) \/ Tell(t) \/ SetJar(t))
Watching == Baseline \/ Ring \/ Fire \/ Fingerprint
OptionsNext ==
  \/ \E ok \in BOOLEAN : Edit(ok)
  \/ \E c \in OpCalls : Reload(c) \/ FileJar(c) \/ HangsUp(c)
  \/ \E t \in Tasks : Step(t)
  \/ Crash \/ FirstLoad \/ Start \/ Announce \/ Watching \/ Poll

(* The boot goes on, the watcher runs, a poll ends, and a call that was    *)
(* made, once each, comes to its end.  Nothing says that somebody edits,   *)
(* reloads or starts again.                                                *)
OptionsFairness ==
  /\ WF_opVars(Start \/ Announce) /\ WF_opVars(Watching \/ Step("watch")) /\ WF_opVars(Poll)
  /\ WF_opVars(\E c \in OpCalls : Step(c))
OptionsSpec == OptionsInit /\ [][OptionsNext]_opVars /\ OptionsFairness

OptionsTypeOK ==
  /\ opNative \in OpBackends /\ opFile \in [ver : 0..OpEdits, ok : BOOLEAN] /\ opJar \in BOOLEAN
  /\ opSwap \in [ver : 0..OpEdits, jar : BOOLEAN] /\ opHealth \in [ver : 0..OpEdits, ok : BOOLEAN]
  /\ opUp \in {"down", "boot", "start", "up"} /\ opBoots \in 0..OpBoots
  /\ {opBell, opArmed, opLost, opRaced} \subseteq BOOLEAN /\ opPrints \in 0..OpEdits
  /\ DOMAIN opTask = Tasks

(* What reload_options, load_ytdl_options and set_cookiefile keep between  *)
(* them: when no cookie route is half way, the snapshot names the jar      *)
(* exactly when there is one, through reloads, failures and restarts,      *)
(* unless two changes overlapped or a cookie route was cut short.          *)
OptionsKeepJar ==
  opUp # "down" /\ ~opRaced /\ (\A c \in OpCalls \cap Clerks : ~Busy(c)) => opSwap.jar = opJar

(* ConfigWatcher: an edit comes into force, and the component says whether *)
(* the file is good, whatever reloads, fails or polls beside it, unless    *)
(* the edit fell where nothing looks (opLost): between the boot's load and *)
(* the watch, between a reload and the fingerprint without a backend that  *)
(* tells, or under a reload that had read an older file.                   *)
Follows == IF opFile.ok THEN opSwap.ver = opFile.ver /\ opHealth.ok ELSE ~opHealth.ok
OptionsFollow == []<>(opLost \/ opUp = "down" \/ Follows)

(* What the loaders and the cookie routes owe each other: no step leaves   *)
(* the jar unnamed, and none the file unread.                              *)
OptionsHold == [][OptionsKeepJar']_opVars /\ OptionsFollow
=============================================================================
