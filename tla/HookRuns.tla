------------------------------ MODULE HookRuns ------------------------------
(***************************************************************************)
(* One invocation of a hook that talks to the world outside: the library   *)
(* scan of Jellyfin, targeted when the path map allows it, and the request *)
(* or command of a plugin's manifest.  Attempts, the wait between them and *)
(* the bound the dispatcher puts around the whole, in seconds.             *)
(***************************************************************************)
EXTENDS Naturals, Sequences

CONSTANTS
  HrTimeouts, \* the timeouts one attempt may be given
  HrRetries,  \* the retries a manifest may ask for
  HrRuns      \* bound on the invocations, one after the other

ASSUME HrAssumption == HrTimeouts \subseteq Nat /\ HrRetries \subseteq Nat /\ HrRuns \in Nat

VARIABLES
  hrHook,   \* what the hook is configured to do
  hrRun,    \* the invocation: its phase, its attempts, the time it spent
  hrLast,   \* the last request, as the health page shows it
  hrAsked,  \* history: what the outside accepted during this invocation
  hrDone    \* how many invocations there were

hrVars == <<hrHook, hrRun, hrLast, hrAsked, hrDone>>

Attempts  == 3            \* of the scan, always
Backoff   == <<2, 8>>
Slack     == 5
KillGrace == 5            \* between the two signals to a command's processes
Kinds     == {"jellyfin", "http", "command"}

(* A path the batch produced: covered by the map, not covered, or none.    *)
Path     == {"mapped", "foreign", "absent"}
NoHook   == [kind |-> "jellyfin", map |-> FALSE, timeout |-> 0, retries |-> 0]
NoRun    == [phase |-> "idle", paths |-> {}, try |-> 0, spent |-> 0, error |-> "none", killed |-> FALSE]
NoLast   == [mode |-> "none", ok |-> FALSE]

Hook == {[kind |-> "jellyfin", map |-> m, timeout |-> t, retries |-> 0] : m \in BOOLEAN, t \in HrTimeouts}
        \cup {[kind |-> k, map |-> FALSE, timeout |-> t, retries |-> r] : k \in Kinds \ {"jellyfin"}, t \in HrTimeouts, r \in HrRetries}

HookRunsInit == hrHook \in Hook /\ hrRun = NoRun /\ hrLast = NoLast /\ hrAsked = {} /\ hrDone = 0
-----------------------------------------------------------------------------
Scans == hrHook.kind = "jellyfin"
Tries == IF Scans THEN Attempts ELSE hrHook.retries + 1
Waits == Backoff[1] + Backoff[2]

(* What the dispatcher allows the invocation: every attempt at its full    *)
(* timeout, the waits and a little more; twice if there is a fallback.     *)
BoundBug == Tries * hrHook.timeout + Waits + Slack  \* one round only
Bound ==
  LET round == Tries * hrHook.timeout + Waits
  IN  (IF Scans /\ hrHook.map THEN 2 * round ELSE round) + Slack

(* The wait after the i-th failed attempt; the last one repeats.           *)
Wait(i) == IF i <= Len(Backoff) THEN Backoff[i] ELSE IF Scans THEN 0 ELSE Backoff[2]

(* The notification is for a batch the map covers as a whole.              *)
CoversBug(paths) == "mapped" \in paths  \* names the paths it can
Covers(paths) == paths # {} /\ paths \subseteq {"mapped"}
Targets(paths) == Scans /\ hrHook.map /\ Covers(paths)

Start(paths) ==
  /\ hrRun.phase \in {"idle", "ended"} /\ hrDone < HrRuns
  /\ hrRun' = [NoRun EXCEPT !.phase = IF Targets(paths) THEN "notify" ELSE "act", !.paths = paths]
  /\ hrAsked' = {} /\ hrDone' = hrDone + 1 /\ UNCHANGED <<hrHook, hrLast>>

(* What a template cannot render fails before the first attempt.           *)
RendersNot ==
  /\ hrRun.phase = "act" /\ hrRun.try = 0 /\ ~Scans
  /\ hrRun' = [hrRun EXCEPT !.phase = "ended", !.error = "template"]
  /\ UNCHANGED <<hrHook, hrLast, hrAsked, hrDone>>
-----------------------------------------------------------------------------
(* The outcomes of an attempt, and those another attempt may mend.         *)
Outcomes == CASE hrHook.kind = "command" -> {"ok", "exit", "timeout", "missing"}
              [] OTHER -> {"ok", "refused", "busy", "transport"}
Retryable(e) == e \in {"busy", "transport", "exit", "timeout"}

(* An answer comes at once or at the last moment; a command that is killed *)
(* may take as long again to be gone.                                      *)
Spends(e) ==
  CASE e = "timeout" -> {hrHook.timeout, hrHook.timeout + KillGrace}
    [] e = "missing" -> {0}
    [] OTHER -> {0, hrHook.timeout}

Record(mode, ok) == hrLast' = IF Scans THEN [mode |-> mode, ok |-> ok] ELSE hrLast
Mode == IF hrRun.phase = "notify" THEN "media_updated" ELSE "global_scan"

(* A failed notification falls back to the scan, whatever failed it.       *)
FallsBackBug(e) == hrRun.phase = "notify" /\ e = "refused"  \* only if it was refused
FallsBack(e) == hrRun.phase = "notify"

RecordFailureBug == UNCHANGED hrLast
RecordFailure == Record(Mode, FALSE)

Attempt(e, d) ==
  /\ hrRun.phase \in {"notify", "act"} /\ hrRun.spent + d <= Bound
  /\ hrRun.error \notin Outcomes \ {"ok"}
  /\ LET i == hrRun.try + 1
         ran == [hrRun EXCEPT !.try = i, !.spent = @ + d, !.killed = @ \/ d > hrHook.timeout]
     IN  IF e = "ok"
         THEN /\ hrRun' = [ran EXCEPT !.phase = "ended", !.error = "none"]
              /\ hrAsked' = hrAsked \cup {Mode} /\ Record(Mode, TRUE)
         ELSE IF Retryable(e) /\ i < Tries
         THEN hrRun' = [ran EXCEPT !.error = e] /\ UNCHANGED <<hrAsked, hrLast>>
         ELSE /\ UNCHANGED hrAsked
              /\ IF FallsBack(e)
                 THEN hrRun' = [ran EXCEPT !.phase = "act", !.try = 0, !.error = "none"] /\ UNCHANGED hrLast
                 ELSE hrRun' = [ran EXCEPT !.phase = "ended", !.error = e] /\ RecordFailure
  /\ UNCHANGED <<hrHook, hrDone>>

(* Between two attempts.                                                   *)
Sleep ==
  /\ hrRun.phase \in {"notify", "act"} /\ hrRun.error \in Outcomes \ {"ok"}
  /\ hrRun.spent + Wait(hrRun.try) <= Bound
  /\ hrRun' = [hrRun EXCEPT !.spent = @ + Wait(hrRun.try), !.error = "none"]
  /\ UNCHANGED <<hrHook, hrLast, hrAsked, hrDone>>

(* The shutdown is looked for before an attempt and during a wait, and by  *)
(* a command while it runs.  A cancelled notification does not fall back.  *)
CancelRun ==
  /\ hrRun.phase \in {"notify", "act"}
  /\ hrRun' = [hrRun EXCEPT !.phase = "ended", !.error = "canceled"]
  /\ IF hrRun.phase = "act" THEN RecordFailure ELSE UNCHANGED hrLast
  /\ UNCHANGED <<hrHook, hrAsked, hrDone>>

(* The dispatcher's bound: whatever the invocation was doing is dropped.   *)
Overruns ==
  \/ hrRun.error \in Outcomes \ {"ok"} /\ hrRun.spent + Wait(hrRun.try) > Bound
  \/ hrRun.error \notin Outcomes \ {"ok"} /\ \E e \in Outcomes : \E d \in Spends(e) : hrRun.spent + d > Bound
CutOff ==
  /\ hrRun.phase \in {"notify", "act"} /\ Overruns
  /\ hrRun' = [hrRun EXCEPT !.phase = "ended", !.spent = Bound, !.error = "cut off"]
  /\ UNCHANGED <<hrHook, hrLast, hrAsked, hrDone>>

HookRunsNext ==
  \/ \E paths \in SUBSET Path : Start(paths)
  \/ \E e \in Outcomes : \E d \in Spends(e) : Attempt(e, d)
  \/ RendersNot \/ Sleep \/ CancelRun \/ CutOff
HookRunsSpec == HookRunsInit /\ [][HookRunsNext]_hrVars
-----------------------------------------------------------------------------
Ended == hrRun.phase = "ended"
HookRunsTypeOK ==
  /\ hrHook \in Hook /\ hrDone \in 0..HrRuns /\ hrAsked \subseteq {"global_scan", "media_updated"}
  /\ hrRun.phase \in {"idle", "notify", "act", "ended"} /\ hrRun.paths \subseteq Path
  /\ hrRun.try \in 0..Tries /\ hrRun.spent \in 0..Bound /\ hrRun.killed \in BOOLEAN
  /\ hrRun.error \in Outcomes \cup {"none", "template", "canceled", "cut off"}
  /\ hrLast.mode \in {"none", "global_scan", "media_updated"} /\ hrLast.ok \in BOOLEAN

(* A scan that succeeds was asked for every path of the batch: a global    *)
(* one was accepted, or a notification of a batch the map covers.          *)
AsksForAll ==
  Scans /\ Ended /\ hrRun.error = "none" =>
    "global_scan" \in hrAsked \/ ("media_updated" \in hrAsked /\ hrRun.paths = {"mapped"})

(* A scan that fails has tried the global one, as often as documented or   *)
(* until it was refused.                                                   *)
TriesTheScan ==
  Scans /\ Ended /\ Retryable(hrRun.error) => hrLast.mode = "global_scan" /\ hrRun.try = Attempts

(* The bound never takes an attempt away from a scan, nor from a manifest  *)
(* of two retries: it may from one of more, whose every wait is the longer *)
(* one, and from a command of two that has to be killed each time.         *)
KeepsItsTries ==
  Ended /\ hrRun.error = "cut off" => ~Scans /\ hrHook.retries > IF hrRun.killed THEN 1 ELSE 2

(* After a scan failed the health page does not show a success.            *)
ShowsTheFailure == Scans /\ Ended /\ hrRun.error \in Outcomes \cup {"cut off"} => ~hrLast.ok

(* An invocation of a hook asks for what it reports, tries as often as it  *)
(* documents and shows how it ended.                                       *)
HookRunsAreTrue == AsksForAll /\ TriesTheScan /\ KeepsItsTries /\ ShowsTheFailure

(* It does, and its bookkeeping is of its types.                           *)
HookRunsHold == HookRunsTypeOK /\ HookRunsAreTrue
=============================================================================
