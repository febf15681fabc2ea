-------------------------------- MODULE Jobs --------------------------------
(***************************************************************************)
(* One download and the child processes it runs: a plugin (aulos-provider, *)
(* command/provider.rs), the yt-dlp shim (aulos-provider-ytdlp, runner.rs) *)
(* or the StreamingCommunity tools (aulos-provider-sc): N_m3u8DL-RE, the   *)
(* mux of its segments, and ffmpeg when those fail.                        *)
(*                                                                         *)
(* A tool is a process group: a leader, which the job waits for, and       *)
(* helpers, which may outlive it and keep its pipes open (`held`).  Any    *)
(* process may exit at any time, and need not: a SIGTERM is only a reason  *)
(* to, a SIGKILL ends the group.  What a tool prints is a sequence of      *)
(* lines: the result, the shim's goodbye, and notes, which stand for       *)
(* progress on stdout or stderr.  A timer may fire whenever the code       *)
(* would look at it.                                                       *)
(***************************************************************************)
EXTENDS Naturals, Sequences, SequencesExt

CONSTANTS
  JbKinds,  \* what the job may be
  JbLines,  \* lines a tool prints at most
  JbBudget, \* limits.max_output_bytes, in lines
  JbFaults  \* failed spawns and reads, and dropped tasks

ASSUME JbAssumption ==
  JbKinds \subseteq {"plugin", "shim", "nm3u8", "ffmpeg"} /\ {JbLines, JbBudget, JbFaults} \subseteq Nat

VARIABLES
  jbKind,   \* the tool the job is at; the mux too
  jbPolite, \* capabilities.cancel of the plugin's manifest is not "none"
  jbPc,     \* where the job is
  jbTool,   \* the present tool's process group
  jbLines,  \* what it printed
  jbRead,   \* how many of the lines the job has read
  jbCancel, \* the item's cancellation token
  jbWhy,    \* what made the job end it, "none" while nothing did
  jbLate,   \* the drop guard's SIGKILL is still to come
  jbReport, \* what the engine is told
  jbFaults

jbVars == <<jbKind, jbPolite, jbPc, jbTool, jbLines, jbRead, jbCancel, jbWhy, jbLate, jbReport, jbFaults>>
jbTheirs == <<jbKind, jbPolite, jbPc, jbRead, jbCancel, jbWhy, jbReport, jbFaults>>

(* `reads` is false of a leader that never takes what of its parameters    *)
(* does not fit into the pipe at once.                                     *)
Tools == [lead : {"alive", "exited", "reaped"}, ok : BOOLEAN, reads : BOOLEAN, held : BOOLEAN]
NoTool == [lead |-> "reaped", ok |-> FALSE, reads |-> TRUE, held |-> FALSE]
OfSc == jbKind \in {"nm3u8", "mux", "ffmpeg"}
Prints == CASE jbKind = "shim" -> {"note", "result", "bye"} [] jbKind = "plugin" -> {"note", "result"} [] OTHER -> {}

JobsInit ==
  /\ jbKind \in JbKinds /\ jbPolite \in BOOLEAN /\ (jbKind # "plugin" => jbPolite)
  /\ jbPc = "idle" /\ jbTool = NoTool /\ jbLines = <<>> /\ jbRead = 0
  /\ jbCancel = FALSE /\ jbWhy = "none" /\ jbLate = FALSE /\ jbReport = "none" /\ jbFaults = JbFaults

(* The types of the job and its process group.                             *)
JobsTypeOK ==
  /\ jbKind \in {"plugin", "shim", "nm3u8", "mux", "ffmpeg"} /\ jbPolite \in BOOLEAN
  /\ jbPc \in {"idle", "gate", "stdin", "loop", "term", "kill", "tail", "errtail", "reap", "done"}
  /\ jbTool \in Tools /\ jbLines \in Seq({"note", "result", "bye"}) /\ Len(jbLines) <= JbLines /\ jbRead \in 0..Len(jbLines)
  /\ jbCancel \in BOOLEAN /\ jbWhy \in {"none", "cancel", "timeout", "budget", "contract", "read", "dropped"}
  /\ jbLate \in BOOLEAN /\ jbReport \in {"none", "ok", "failed", "canceled"} /\ jbFaults \in 0..JbFaults

----------------------------------------------------------------------------
(* The processes and the token.                                            *)

Unread == jbRead < Len(jbLines)
(* The pipe has a writer.                                                  *)
PipeOpen == jbTool.lead = "alive" \/ jbTool.held
KillGroup(tool) == [tool EXCEPT !.lead = IF @ = "alive" THEN "exited" ELSE @, !.ok = @ /\ tool.lead # "alive", !.held = FALSE]

Writes ==
  /\ jbTool.lead = "alive" /\ jbPc \notin {"reap", "done"} /\ (jbPc = "stdin" => jbKind = "plugin")
  /\ Len(jbLines) < JbLines /\ \E line \in Prints : jbLines' = Append(jbLines, line)
  /\ UNCHANGED <<jbTool, jbLate, jbTheirs>>
LeaderExits ==
  /\ jbTool.lead = "alive" /\ \E ok \in BOOLEAN : jbTool' = [jbTool EXCEPT !.lead = "exited", !.ok = ok]
  /\ UNCHANGED <<jbLines, jbLate, jbTheirs>>
HelpersExit == jbTool.held /\ jbTool' = [jbTool EXCEPT !.held = FALSE] /\ UNCHANGED <<jbLines, jbLate, jbTheirs>>
(* The second half of the drop guard, on a task of its own.                *)
LateKill == jbLate /\ jbLate' = FALSE /\ jbTool' = KillGroup(jbTool) /\ UNCHANGED <<jbLines, jbTheirs>>
CancelsJob ==
  /\ jbPc \notin {"idle", "done"} /\ ~jbCancel /\ jbCancel' = TRUE
  /\ UNCHANGED <<jbKind, jbPolite, jbPc, jbTool, jbLines, jbRead, jbWhy, jbLate, jbReport, jbFaults>>

----------------------------------------------------------------------------
(* How a job ends.                                                         *)

At(pc) == jbPc = pc /\ UNCHANGED <<jbPolite, jbLines, jbCancel>>
Calm == UNCHANGED <<jbKind, jbTool, jbWhy, jbLate, jbReport, jbFaults>>
Faulty == jbFaults > 0 /\ jbFaults' = jbFaults - 1

(* The job ends with `tool` in its hands: the readers of its pipes go, and *)
(* Child's drop guard sees to the rest.                                    *)
LetGo(tool) == jbTool' = [tool EXCEPT !.reads = TRUE, !.held = FALSE]
DropsNoKillBug(tool) == LetGo(tool) /\ UNCHANGED jbLate
Drops(tool) == LetGo(tool) /\ jbLate' = (jbLate \/ tool.lead # "reaped")

(* A failure of N_m3u8DL-RE or of its mux is retried with ffmpeg.          *)
EndsJob(report, tool) ==
  /\ Drops(tool)
  /\ IF report = "failed" /\ jbKind \in {"nm3u8", "mux"}
     THEN jbPc' = "gate" /\ jbKind' = "ffmpeg" /\ jbWhy' = "none" /\ UNCHANGED jbReport
     ELSE jbPc' = "done" /\ jbReport' = report /\ UNCHANGED <<jbKind, jbWhy>>

(* kill_group: a SIGTERM, and the leader is waited for; after the grace a  *)
(* SIGKILL, and it is waited for again.                                    *)
Kills(why) == jbPc' = "term" /\ jbWhy' = why /\ UNCHANGED <<jbKind, jbTool, jbLate, jbReport>>
GraceEndsNoKillBug ==
  /\ At("term") /\ jbTool.lead = "alive" /\ jbPc' = "kill"
  /\ UNCHANGED <<jbKind, jbTool, jbRead, jbWhy, jbLate, jbReport, jbFaults>>
GraceEnds ==
  /\ At("term") /\ jbTool.lead = "alive" /\ jbTool' = KillGroup(jbTool) /\ jbPc' = "kill"
  /\ UNCHANGED <<jbKind, jbRead, jbWhy, jbLate, jbReport, jbFaults>>
KillReaps ==
  /\ At("term") \/ At("kill")
  /\ jbTool.lead = "exited" /\ EndsJob(IF jbWhy = "cancel" THEN "canceled" ELSE "failed", [jbTool EXCEPT !.lead = "reaped"])
  /\ UNCHANGED <<jbRead, jbFaults>>

(* The task is dropped where it stands: a panic, or the runtime's end.     *)
TaskDropped ==
  /\ Faulty /\ jbPc \notin {"idle", "done"} /\ At(jbPc)
  /\ Drops(jbTool) /\ jbPc' = "done" /\ jbReport' = "failed" /\ jbWhy' = "dropped" /\ UNCHANGED <<jbKind, jbRead>>

----------------------------------------------------------------------------
(* The job.  A plugin waits at the gate for its own permit and politeness, *)
(* the StreamingCommunity tools for the page or the probe.                 *)
JobStarts == At("idle") /\ jbPc' = "gate" /\ UNCHANGED jbRead /\ Calm
GateCanceled == At("gate") /\ OfSc /\ jbCancel /\ EndsJob("canceled", jbTool) /\ UNCHANGED <<jbRead, jbFaults>>

SpawnsTool(pc) ==
  /\ \E reads, held \in BOOLEAN :
       (OfSc => reads) /\ jbTool' = [lead |-> "alive", ok |-> FALSE, reads |-> reads, held |-> held]
  /\ jbPc' = pc /\ UNCHANGED <<jbRead, jbWhy, jbLate, jbReport, jbFaults>>
JobSpawns == At("gate") /\ ~(OfSc /\ jbCancel) /\ UNCHANGED jbKind /\ SpawnsTool(IF OfSc THEN "loop" ELSE "stdin")
SpawnFails == Faulty /\ At("gate") /\ EndsJob("failed", jbTool) /\ UNCHANGED jbRead

(* The parameters go to the leader before the loop begins.  A broken pipe  *)
(* is the shim's end and nothing to a plugin.                              *)
StdinWritten ==
  /\ At("stdin") /\ (IF jbTool.lead = "alive" THEN jbTool.reads ELSE jbKind = "plugin")
  /\ jbPc' = "loop" /\ jbTool' = [jbTool EXCEPT !.reads = TRUE] /\ UNCHANGED <<jbKind, jbRead, jbWhy, jbLate, jbReport, jbFaults>>
StdinBroken == At("stdin") /\ jbKind = "shim" /\ jbTool.lead = "exited" /\ EndsJob("failed", jbTool) /\ UNCHANGED <<jbRead, jbFaults>>

(* Consumer::accept refuses a line after the goodbye, and any but the      *)
(* goodbye after the result.                                               *)
Refused(n) ==
  LET before == SubSeq(jbLines, 1, n - 1)
  IN Contains(before, "bye") \/ (Contains(before, "result") /\ jbLines[n] # "bye")
OverBudget(n) == jbKind = "plugin" /\ n > JbBudget

LoopCanceled ==
  /\ At("loop") /\ jbKind # "mux" /\ jbCancel /\ UNCHANGED <<jbRead, jbFaults>>
  /\ IF jbPolite THEN Kills("cancel") ELSE EndsJob("canceled", jbTool)
LoopReads ==
  /\ At("loop") /\ ~jbCancel /\ Unread /\ jbRead' = jbRead + 1
  /\ IF OverBudget(jbRead') THEN Kills("budget") /\ UNCHANGED jbFaults
     ELSE IF jbKind = "shim" /\ Refused(jbRead') THEN Kills("contract") /\ UNCHANGED jbFaults
     ELSE UNCHANGED jbPc /\ Calm
(* The timers: a plugin's come last in its select!, the shim's is looked   *)
(* at before its lines, and the mux has nothing else.                      *)
LoopStallsMuxOnlyBug ==
  /\ At("loop") /\ jbKind = "mux" /\ jbTool.lead = "alive" /\ Kills("timeout") /\ UNCHANGED <<jbRead, jbFaults>>
LoopStalls ==
  /\ At("loop") /\ jbKind \in {"plugin", "mux"} /\ jbTool.lead = "alive" /\ ~Unread /\ (jbCancel => jbKind = "mux")
  /\ Kills("timeout") /\ UNCHANGED <<jbRead, jbFaults>>
ShimDeadline == At("loop") /\ jbKind = "shim" /\ ~jbCancel /\ Kills("timeout") /\ UNCHANGED <<jbRead, jbFaults>>
ReadFails == Faulty /\ At("loop") /\ ~OfSc /\ ~jbCancel /\ Kills("read") /\ UNCHANGED jbRead

(* The leader's exit, whatever is still in the pipe.                       *)
PluginExitedNoTailBug ==
  /\ At("loop") /\ jbKind = "plugin" /\ ~jbCancel /\ jbTool.lead = "exited"
  /\ jbTool' = [jbTool EXCEPT !.lead = "reaped"] /\ jbPc' = "errtail" /\ UNCHANGED <<jbKind, jbRead, jbWhy, jbLate, jbReport, jbFaults>>
PluginExited ==
  /\ At("loop") /\ jbKind = "plugin" /\ ~jbCancel /\ jbTool.lead = "exited"
  /\ jbTool' = [jbTool EXCEPT !.lead = "reaped"] /\ jbPc' = "tail" /\ UNCHANGED <<jbKind, jbRead, jbWhy, jbLate, jbReport, jbFaults>>
(* The StreamingCommunity tools: no file means the mux, or a failure.      *)
ScExited ==
  /\ At("loop") /\ OfSc /\ (jbCancel => jbKind = "mux") /\ jbTool.lead = "exited" /\ UNCHANGED <<jbRead, jbFaults>>
  /\ \/ jbTool.ok /\ EndsJob("ok", [jbTool EXCEPT !.lead = "reaped"])
     \/ EndsJob("failed", [jbTool EXCEPT !.lead = "reaped"])
     \/ jbTool.ok /\ jbKind = "nm3u8" /\ jbKind' = "mux" /\ SpawnsTool("loop")

(* What the plugin wrote before its exit is read to the end of the pipes,  *)
(* first stdout's and then stderr's: no token, no timer.                   *)
TailReads ==
  /\ At("tail") /\ Unread /\ jbRead' = jbRead + 1
  /\ jbPc' = (IF OverBudget(jbRead') THEN "errtail" ELSE "tail") /\ Calm
TailEnds == At("tail") /\ ~Unread /\ ~PipeOpen /\ jbPc' = "errtail" /\ UNCHANGED jbRead /\ Calm
ResultSeen(n) == Contains(SubSeq(jbLines, 1, n), "result")
PluginEnds ==
  /\ At("errtail") /\ ~PipeOpen /\ UNCHANGED <<jbRead, jbFaults>>
  /\ EndsJob(IF jbTool.ok /\ ResultSeen(IF OverBudget(jbRead) THEN JbBudget ELSE jbRead) THEN "ok" ELSE "failed", jbTool)

(* The shim's transcript ends with its pipe, which a leader may close      *)
(* before it exits: it is then waited for, for REAP_TIMEOUT.               *)
ShimEof ==
  /\ At("loop") /\ jbKind = "shim" /\ ~jbCancel /\ ~Unread /\ (jbTool.lead = "alive" => ~jbTool.held) /\ (jbTool.lead # "alive" => ~PipeOpen)
  /\ jbPc' = "reap" /\ UNCHANGED jbRead /\ Calm
FinishAnyBug(n) == ResultSeen(n)
Finish(n) == ResultSeen(n) /\ Contains(SubSeq(jbLines, 1, n), "bye")
ShimEnds ==
  /\ At("reap") /\ UNCHANGED <<jbRead, jbFaults>>
  /\ EndsJob(IF Finish(jbRead) THEN "ok" ELSE "failed", [jbTool EXCEPT !.lead = IF @ = "exited" THEN "reaped" ELSE @])

ProcessStep == Writes \/ LeaderExits \/ HelpersExit
JobStep ==
  \/ GateCanceled \/ JobSpawns \/ StdinWritten \/ StdinBroken \/ LoopCanceled \/ LoopReads \/ LoopStalls
  \/ PluginExited \/ ScExited \/ TailReads \/ TailEnds \/ PluginEnds \/ (ShimEof /\ ~PipeOpen) \/ ShimEnds
  \/ GraceEnds \/ KillReaps
JobsNext ==
  \/ ProcessStep \/ CancelsJob \/ LateKill \/ JobStarts \/ JobStep
  \/ ShimEof \/ ShimDeadline \/ SpawnFails \/ ReadFails \/ TaskDropped

(* The runtime polls the job's task and the drop guard's.  No process owes *)
(* a step.                                                                 *)
JobsFairness == WF_jbVars(JobStep) /\ WF_jbVars(LateKill)
JobsSpec == JobsInit /\ [][JobsNext]_jbVars /\ JobsFairness

----------------------------------------------------------------------------
(* A tool that did its work: a plugin that named its result within its     *)
(* budget and exited well, a shim whose transcript is whole.               *)
Proper ==
  CASE jbKind = "plugin" -> jbTool.ok /\ \E i \in 1..Len(jbLines) : i <= JbBudget /\ jbLines[i] = "result"
    [] jbKind = "shim" -> \E n \in 0..JbLines : jbLines = [i \in 1..n |-> "note"] \o <<"result", "bye">>
    [] OTHER -> jbTool.ok

(* A job is reported finished only when its tool did its work, however the *)
(* exit raced the last lines; and a plugin or shim that did its work, and  *)
(* that nothing made the job end, is never reported as a failure.          *)
JobsReportIsTrue ==
  /\ jbReport = "ok" => Proper
  /\ jbReport = "failed" /\ jbWhy = "none" /\ ~OfSc => ~Proper

(* The two places where a job waits for a process without looking at its   *)
(* token: a helper that keeps a plugin's pipe open, parameters that are    *)
(* never read.                                                             *)
Wedged ==
  \/ jbPc \in {"tail", "errtail"} /\ jbTool.held
  \/ jbPc = "stdin" /\ jbTool.lead = "alive" /\ ~jbTool.reads

(* A canceled job reports, whatever its processes do, and so does a plugin *)
(* that nobody cancels, because it stalls at last: unless the job waits at *)
(* one of the two places for good.  And no leader outlives the report.     *)
Answered == jbCancel \/ (jbKind = "plugin" /\ jbPc # "idle") => jbReport # "none" \/ Wedged
NoneIsLeft == jbReport # "none" => jbTool.lead # "alive"
JobsEnd == []<>(Answered /\ NoneIsLeft)

(* A job reports what its tool did, and comes to an end with its processes.*)
JobsReportAndEnd == [][JobsReportIsTrue']_jbVars /\ JobsEnd
=============================================================================
