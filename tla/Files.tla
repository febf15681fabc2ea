------------------------------- MODULE Files -------------------------------
(***************************************************************************)
(* The files of one row: what its download leaves in the output and in the *)
(* scratch directory, what the row says of them, and who removes them: the *)
(* engine's handlers, the job itself, a task of unlinks that nobody waits  *)
(* for, the NFO hook and the boot.  A write to the store may fail, and the *)
(* process may die, at any of these steps.                                 *)
(***************************************************************************)
EXTENDS Naturals

CONSTANTS
  FlStarts, \* bound on the downloads of the row
  FlFaults  \* bound on the failed calls and the crashes together

ASSUME FlAssumption == FlStarts \in Nat /\ FlFaults \in Nat

VARIABLES
  flRow,    \* its status, whether it is ready to be scheduled and in memory, the files it names
  flJob,    \* its download, and the slot the engine keeps for it
  flMail,   \* what the job sent and the engine has not handled
  flDisk,   \* the files there are
  flUnlink, \* the files a removal handed to the blocking pool
  flHook,   \* the NFO hook
  flGone,   \* whether the row was removed, with its files or without
  flSetup,  \* the kind of provider; whether a boot cleans what it finds
  flStarts, flFaults, \* counts
  flLost    \* history: what went wrong for the files
flVars == <<flRow, flJob, flMail, flDisk, flUnlink, flHook, flGone, flSetup, flStarts, flFaults, flLost>>

Outputs  == {"media", "info", "nfo", "subs"}
File     == Outputs \cup {"scratch"}
Terminal == {"finished", "error", "canceled"}
NoJob    == [pc |-> "off", slot |-> "none"]
Listed   == flGone = "no"
Sc       == flSetup.sc

FilesInit ==
  /\ flRow = [st |-> "queued", waits |-> TRUE, cached |-> TRUE, names |-> {}]
  /\ flJob = NoJob /\ flMail = {} /\ flDisk = {} /\ flUnlink = {} /\ flHook = "off" /\ flGone = "no"
  /\ flSetup \in [sc : BOOLEAN, cleans : BOOLEAN] /\ flStarts = 0 /\ flFaults = 0 /\ flLost = {}

(* The n-th of a handler's writes fails; with 0 none does.                 *)
Fails(n) == IF n = 0 THEN UNCHANGED flFaults ELSE flFaults < FlFaults /\ flFaults' = flFaults + 1
Losing(reason) == flLost' = flLost \cup {reason}
Move(st, waits) == flRow' = [flRow EXCEPT !.st = st, !.waits = waits]
-----------------------------------------------------------------------------
(* schedule takes the row off its deque whether or not the job starts: a   *)
(* write that fails leaves it queued where nobody looks.                   *)
StartJob(n) ==
  /\ Listed /\ flRow.st = "queued" /\ flRow.waits /\ flJob.slot = "none" /\ flStarts < FlStarts
  /\ Fails(n) /\ flStarts' = flStarts + 1
  /\ IF n = 0 THEN Move("active", FALSE) /\ flJob' = [pc |-> "runs", slot |-> "held"]
     ELSE Move("queued", FALSE) /\ UNCHANGED flJob
  /\ UNCHANGED <<flMail, flDisk, flUnlink, flHook, flGone, flSetup, flLost>>

(* The job, until its processes are gone; a directory that was removed     *)
(* under it comes back.  The sidecar comes with the media.                 *)
JobWrites ==
  /\ flJob.pc = "runs" /\ flDisk' = flDisk \cup {"scratch"}
  /\ UNCHANGED <<flRow, flJob, flMail, flUnlink, flHook, flGone, flSetup, flStarts, flFaults, flLost>>
JobSubs ==
  /\ flJob.pc = "runs" /\ flDisk' = flDisk \cup {"subs"} /\ flMail' = flMail \cup {"subs"}
  /\ UNCHANGED <<flRow, flJob, flUnlink, flHook, flGone, flSetup, flStarts, flFaults, flLost>>
JobMoves ==
  /\ flJob.pc = "runs" /\ flJob' = [flJob EXCEPT !.pc = "moved"]
  /\ flDisk' = flDisk \cup (IF Sc THEN {"media"} ELSE {"media", "info"})
  /\ UNCHANGED <<flRow, flMail, flUnlink, flHook, flGone, flSetup, flStarts, flFaults, flLost>>
JobEnds ==
  /\ flJob.pc \in {"runs", "moved"} /\ flJob' = [flJob EXCEPT !.pc = "off"]
  /\ flMail' = flMail \cup {IF flJob.pc = "moved" THEN "finished" ELSE "failed"}
  /\ flDisk' = IF Sc THEN flDisk \ {"scratch"} ELSE flDisk
  /\ UNCHANGED <<flRow, flUnlink, flHook, flGone, flSetup, flStarts, flFaults, flLost>>
-----------------------------------------------------------------------------
(* A file the aggregator forwards, before the report or after it.          *)
HandleFile(n) ==
  /\ "subs" \in flMail /\ flMail' = flMail \ {"subs"} /\ Fails(n)
  /\ n = 1 => Listed /\ flRow.cached
  /\ IF Listed /\ flRow.cached /\ n = 0
     THEN flRow' = [flRow EXCEPT !.names = @ \cup {"subs"}] /\ UNCHANGED flLost
     ELSE UNCHANGED flRow /\ IF Listed /\ "subs" \in flRow.names THEN UNCHANGED flLost ELSE Losing("untold")
  /\ UNCHANGED <<flJob, flDisk, flUnlink, flHook, flGone, flSetup, flStarts>>

(* cleanup_partials: always for a job of StreamingCommunity.               *)
CleanedBug(all) == IF all THEN flDisk \ {"scratch", "media"} ELSE flDisk  \* the output is not protected
Cleaned(all) == IF all \/ (Sc /\ Listed) THEN flDisk \ {"scratch"} ELSE flDisk

(* A slot the engine settled itself: the report is dropped, what the job   *)
(* wrote after the cancel goes, and a start pressed meanwhile counts.      *)
ReleasedBug == flDisk  \* the eager cleanup has to be enough
Released == Cleaned(flJob.slot = "canceled")
HandleSettled(report) ==
  /\ report \in flMail \ {"subs"} /\ flMail' = flMail \ {report}
  /\ flJob.slot \in {"canceled", "paused"} /\ flJob' = NoJob
  /\ flDisk' = Released
  /\ Move(flRow.st, flRow.waits \/ (Listed /\ flRow.st = "queued"))
  /\ IF report = "finished" THEN Losing("untold") ELSE UNCHANGED flLost
  /\ UNCHANGED <<flUnlink, flHook, flGone, flSetup, flStarts, flFaults>>

(* SetOutput, then the terminal write.                                     *)
HandleFinished(n) ==
  /\ "finished" \in flMail /\ flMail' = flMail \ {"finished"}
  /\ flJob.slot = "held" /\ flJob' = NoJob /\ flDisk' = Cleaned(TRUE) /\ Fails(n)
  /\ flRow' = [flRow EXCEPT !.names = IF n = 1 THEN @ ELSE @ \cup {"media"}, !.st = IF n = 0 THEN "finished" ELSE @]
  /\ flHook' = IF n = 0 THEN "due" ELSE flHook
  /\ IF n = 1 THEN Losing("untold") ELSE UNCHANGED flLost
  /\ UNCHANGED <<flUnlink, flGone, flSetup, flStarts>>

(* An error that may pass puts the row back, its partial files kept.       *)
HandleFailed(n, again) ==
  /\ "failed" \in flMail /\ flMail' = flMail \ {"failed"}
  /\ flJob.slot = "held" /\ flJob' = NoJob /\ Fails(n)
  /\ IF again THEN UNCHANGED flDisk ELSE flDisk' = Cleaned(TRUE)
  /\ CASE n = 1 -> UNCHANGED flRow
       [] n = 0 /\ again -> Move("queued", TRUE)
       [] n = 0 /\ ~again -> Move("error", FALSE)
  /\ UNCHANGED <<flUnlink, flHook, flGone, flSetup, flStarts, flLost>>
-----------------------------------------------------------------------------
(* The user's commands.  A running job is asked to stop and keeps its slot *)
(* until it reports.                                                       *)
Settled(why) == IF flJob.slot = "none" THEN flJob ELSE [flJob EXCEPT !.slot = why]

Pause(n) ==
  /\ Listed /\ flRow.st \in {"queued", "active"} /\ Fails(n)
  /\ IF flRow.st = "active" THEN flJob' = Settled("paused") /\ flDisk' = Cleaned(FALSE) ELSE UNCHANGED <<flJob, flDisk>>
  /\ IF n = 0 THEN Move("parked", FALSE) ELSE Move(flRow.st, flRow.waits /\ flRow.st = "queued")
  /\ UNCHANGED <<flMail, flUnlink, flHook, flGone, flSetup, flStarts, flLost>>
StartAgain ==
  /\ Listed /\ flRow.st \in {"parked", "queued"} /\ Move("queued", TRUE)
  /\ UNCHANGED <<flJob, flMail, flDisk, flUnlink, flHook, flGone, flSetup, flStarts, flFaults, flLost>>
Retry ==
  /\ Listed /\ flRow.st \in {"error", "canceled"}
  /\ flRow' = [flRow EXCEPT !.st = "queued", !.waits = TRUE, !.cached = TRUE]
  /\ UNCHANGED <<flJob, flMail, flDisk, flUnlink, flHook, flGone, flSetup, flStarts, flFaults, flLost>>

(* cancel_one ends with a cleanup, whether or not the write succeeded.     *)
Cancel(n) ==
  /\ Listed /\ flRow.st \notin Terminal /\ Fails(n)
  /\ flJob' = Settled("canceled") /\ flDisk' = Cleaned(TRUE)
  /\ Move(IF n = 0 THEN "canceled" ELSE flRow.st, FALSE)
  /\ UNCHANGED <<flMail, flUnlink, flHook, flGone, flSetup, flStarts, flLost>>

(* What the row names, and the siblings of the media.                      *)
FilesOfBug(names) == names  \* the siblings are forgotten
FilesOf(names) == (IF "media" \in names THEN {"media", "info", "nfo"} ELSE {}) \cup (names \cap {"subs"})

(* A row that is no longer in memory is read from the store.               *)
ToRemoveBug(files) ==  \* what is in memory only
  IF flRow.cached THEN {"scratch"} \cup (IF files THEN FilesOf(flRow.names) ELSE {}) ELSE {}
ToRemove(files) == {"scratch"} \cup (IF files THEN FilesOf(flRow.names) ELSE {})

(* Delete, clear and the sweep: the unlinks are handed over before the     *)
(* row's own deletion is written.  The first write is the cancel's, the    *)
(* second the deletion; the third call is the read of an evicted row.      *)
Delete(files, n) ==
  /\ Listed /\ Fails(n)
  /\ LET live == flRow.st \notin Terminal
         left == IF n = 3 THEN {} ELSE ToRemove(files)
     IN  /\ n = 1 => live
         /\ n = 3 => ~flRow.cached
         /\ flJob' = IF live THEN Settled("canceled") ELSE flJob
         /\ flDisk' = IF live THEN Cleaned(TRUE) ELSE flDisk
         /\ flUnlink' = flUnlink \cup left
         /\ flGone' = IF n = 2 THEN "no" ELSE IF files THEN "files" ELSE "record"
         /\ Move(IF live /\ n # 1 THEN "canceled" ELSE flRow.st, FALSE)
         /\ flLost' = flLost \cup (IF n = 2 /\ files THEN {"undeleted"} ELSE {})
                             \cup (IF n = 3 THEN {"unread"} ELSE {})
                             \cup (IF flHook # "off" THEN {"late"} ELSE {})
  /\ UNCHANGED <<flMail, flHook, flSetup, flStarts>>
-----------------------------------------------------------------------------
(* The row falls out of the window of ended rows.                          *)
Evict ==
  /\ Listed /\ flRow.st \in Terminal /\ flRow.cached /\ flRow' = [flRow EXCEPT !.cached = FALSE]
  /\ UNCHANGED <<flJob, flMail, flDisk, flUnlink, flHook, flGone, flSetup, flStarts, flFaults, flLost>>
UnlinkRuns ==
  /\ flUnlink # {} /\ flDisk' = flDisk \ flUnlink /\ flUnlink' = {}
  /\ UNCHANGED <<flRow, flJob, flMail, flHook, flGone, flSetup, flStarts, flFaults, flLost>>

(* The hook reads the stored entry or the sidecar, and writes beside the   *)
(* media without looking whether it is there.                              *)
HookReads ==
  /\ flHook = "due" /\ flHook' = IF (Sc /\ Listed) \/ "info" \in flDisk THEN "reads" ELSE "off"
  /\ UNCHANGED <<flRow, flJob, flMail, flDisk, flUnlink, flGone, flSetup, flStarts, flFaults, flLost>>
HookWrites ==
  /\ flHook = "reads" /\ flHook' = "off" /\ flDisk' = (flDisk \cup {"nfo"}) \ {"info"}
  /\ UNCHANGED <<flRow, flJob, flMail, flUnlink, flGone, flSetup, flStarts, flFaults, flLost>>

(* The process dies and boots: an interrupted row is queued again, or      *)
(* parked; scratch no live row owns is removed if the boot is told to.     *)
OrphansBug == IF flSetup.cleans THEN flDisk \ {"scratch"} ELSE flDisk  \* a live row's too
Orphans == IF flSetup.cleans /\ (~Listed \/ flRow.st \in Terminal) THEN flDisk \ {"scratch"} ELSE flDisk
Dies(resume, cached) ==
  /\ Fails(1) /\ flDisk' = Orphans
  /\ LET st == IF flRow.st = "active" THEN IF resume THEN "queued" ELSE "parked" ELSE flRow.st
     IN  flRow' = [flRow EXCEPT !.st = st, !.waits = st = "queued" /\ Listed, !.cached = cached \/ st \notin Terminal]
  /\ IF flJob # NoJob \/ flMail # {} \/ flUnlink # {} THEN Losing("crash") ELSE UNCHANGED flLost
  /\ flJob' = NoJob /\ flMail' = {} /\ flUnlink' = {} /\ flHook' = "off"
  /\ UNCHANGED <<flGone, flSetup, flStarts>>

FilesNext ==
  \/ \E n \in {0, 1} : StartJob(n) \/ HandleFile(n) \/ Pause(n) \/ Cancel(n) \/ \E again \in BOOLEAN : HandleFailed(n, again)
  \/ JobWrites \/ JobSubs \/ JobMoves \/ JobEnds
  \/ \E report \in {"finished", "failed"} : HandleSettled(report)
  \/ \E n \in 0..2 : HandleFinished(n)
  \/ \E files \in BOOLEAN, n \in 0..3 : Delete(files, n)
  \/ StartAgain \/ Retry \/ Evict \/ UnlinkRuns \/ HookReads \/ HookWrites
  \/ \E resume, cached \in BOOLEAN : Dies(resume, cached)
FilesSpec == FilesInit /\ [][FilesNext]_flVars
-----------------------------------------------------------------------------
FilesTypeOK ==
  /\ flRow.st \in Terminal \cup {"queued", "parked", "active"} /\ flRow.names \subseteq {"media", "subs"}
  /\ flRow.waits \in BOOLEAN /\ flRow.cached \in BOOLEAN
  /\ flJob.pc \in {"off", "runs", "moved"} /\ flJob.slot \in {"none", "held", "paused", "canceled"}
  /\ flMail \subseteq {"subs", "finished", "failed"} /\ flDisk \subseteq File /\ flUnlink \subseteq File
  /\ flHook \in {"off", "due", "reads"} /\ flGone \in {"no", "files", "record"}
  /\ flStarts \in 0..FlStarts /\ flFaults \in 0..FlFaults
  /\ flLost \subseteq {"untold", "undeleted", "unread", "late", "crash"}

Quiet == flJob = NoJob /\ flMail = {} /\ flUnlink = {} /\ flHook = "off"

(* What each thing that went wrong may leave behind.                       *)
Leaves(reason) ==
  CASE reason = "late" -> {"nfo"}
    [] reason = "untold" -> Outputs
    [] reason = "unread" -> Outputs
    [] reason = "crash" -> IF flSetup.cleans THEN Outputs ELSE File
    [] OTHER -> {}
Excused == UNION {Leaves(reason) : reason \in flLost}

(* Once a row is gone with its files and nothing of it is under way, no    *)
(* file is left but those of a failure above.                              *)
NothingIsLeft == flGone = "files" /\ Quiet => flDisk \subseteq Excused

(* The scratch directory does not outlive its row's end, except a crash.   *)
ScratchGoes == (~Listed \/ flRow.st \in Terminal) /\ Quiet /\ "scratch" \in flDisk => "scratch" \in Excused

(* A finished row's files are there, and those of a row that was removed   *)
(* without them stay.                                                      *)
NamedIsThere ==
  (Listed /\ flRow.st = "finished") \/ flGone = "record" => flRow.names \subseteq flDisk \/ "undeleted" \in flLost

FilesAreSafe == NothingIsLeft /\ ScratchGoes /\ NamedIsThere

(* The partial files of a row that will run again are kept, by a pause, an *)
(* error that may pass and a boot, until somebody cancels it; only the     *)
(* unlinks of a deletion that failed may still take them.                  *)
Resumable == Listed /\ ~Sc /\ flRow.st \notin Terminal
KeepsPartials ==
  Resumable /\ Resumable' /\ flRow'.st # "active" /\ "scratch" \in flDisk /\ "scratch" \notin flDisk' =>
    flJob.slot = "canceled" \/ Cancel(1) \/ UnlinkRuns

(* Files are removed with the row they belong to, and only then.           *)
FilesFollowTheRow == [][FilesTypeOK' /\ FilesAreSafe' /\ KeepsPartials]_flVars
=============================================================================
