--------------------------------- MODULE Pot ---------------------------------
(***************************************************************************)
(* aulos-server, the supervisor of the bgutil-pot sidecar.  It starts the  *)
(* child, probes it, and starts it again when it exits or when three       *)
(* probes in a row fail, after a pause that grows; when the budget of      *)
(* restarts inside a window is used up it stops for good.                  *)
(*                                                                         *)
(* Time is counted in ticks.  Abstracted: the length of a probe and of a   *)
(* kill, the jitter, the child's output, all texts of the published state. *)
(***************************************************************************)
EXTENDS Integers, Sequences, FiniteSets

CONSTANTS
  PtMax,        \* AULOS_POT_MAX_RESTARTS
  PtProbes,     \* PROBE_FAILURES_BEFORE_RESTART
  PtWindow,     \* RESTART_WINDOW
  PtHealthy,    \* HEALTHY_UPTIME
  PtDelays,     \* PtDelays[n]: the n-th backoff_delay, the last is BACKOFF_MAX
  PtRestarts    \* bound: restarts counted

ASSUME PtAssumption ==
  /\ {PtMax, PtRestarts} \subseteq Nat /\ {PtProbes, PtWindow, PtHealthy} \subseteq Nat \ {0}
  /\ PtDelays \in Seq(Nat) /\ PtDelays # <<>>

VARIABLES
  ptPhase,      \* "spawn", "watch", "kill", "pause" between two children, "unspawned"
                \* (the pause after a failed spawn), "failed", "stopped"
  ptChild,      \* the process: "none", "alive", "dead" and not waited for
  ptFails,      \* consecutive failures of the probe
  ptAnswers,    \* what the probes of this child said last: "none", "ok", "bad"
  ptUptime,     \* of this child, up to PtHealthy
  ptStep,       \* consecutive_backoff, up to the length of PtDelays
  ptWait,       \* ticks left of a pause
  ptWindow,     \* restarts_in_window: the age of each restart, by its number
  ptRestarts,   \* total_restarts
  ptShutdown,   \* the token
  ptShown,      \* the published status and whether it names a pid
  ptStarts      \* history: the age of each start up to PtWindow, by the restarts before it

ptProbe == <<ptFails, ptAnswers>>
ptBackoff == <<ptStep, ptWait, ptWindow, ptRestarts>>
ptVars == <<ptPhase, ptChild, ptProbe, ptUptime, ptBackoff, ptShutdown, ptShown, ptStarts>>

Shows(status, pid) == [status |-> status, pid |-> pid]

PotInit ==
  /\ ptPhase = "spawn" /\ ptChild = "none" /\ ptFails = 0 /\ ptAnswers = "none" /\ ptUptime = 0
  /\ ptStep = 1 /\ ptWait = 0 /\ ptWindow = <<>> /\ ptRestarts = 0 /\ ptShutdown = FALSE
  /\ ptShown = Shows("starting", FALSE) /\ ptStarts = <<>>

----------------------------------------------------------------------------
(* budget_exhausted, of the window that has just got one more restart.     *)
Noted(ages, n) == [m \in DOMAIN ages \cup {n} |-> IF m = n THEN 0 ELSE ages[m]]
InWindow(ages) == [n \in {m \in DOMAIN ages : ages[m] <= PtWindow} |-> ages[n]]
PtBudget == IF PtMax > 1 THEN PtMax ELSE 1
ExhaustedBug(ages) == Cardinality(DOMAIN ages) > PtBudget
Exhausted(ages) == Cardinality(DOMAIN ages) >= PtBudget

(* A restart is counted; then the supervisor gives up or goes on.          *)
Restarts(next, shown) ==
  LET ages == InWindow(Noted(ptWindow, ptRestarts + 1)) IN
  /\ ptRestarts < PtRestarts /\ ptRestarts' = ptRestarts + 1 /\ ptWindow' = ages
  /\ ptPhase' = IF Exhausted(ages) THEN "failed" ELSE next
  /\ ptShown' = IF Exhausted(ages) THEN Shows("failed", FALSE) ELSE shown

NextStep(n) == IF n < Len(PtDelays) THEN n + 1 ELSE n

Spawn(ok) ==
  /\ ptPhase = "spawn" /\ ~ptShutdown
  /\ IF ok THEN /\ ptPhase' = "watch" /\ ptChild' = "alive" /\ ptShown' = Shows("starting", TRUE)
                /\ ptFails' = 0 /\ ptAnswers' = "none" /\ ptUptime' = 0 /\ ptStarts' = Noted(ptStarts, ptRestarts)
                /\ UNCHANGED ptWait
     ELSE /\ ptPhase' = "unspawned" /\ ptShown' = Shows("down", FALSE) /\ ptWait' = PtDelays[ptStep]
          /\ UNCHANGED <<ptChild, ptProbe, ptUptime, ptStarts>>
  /\ UNCHANGED <<ptStep, ptWindow, ptRestarts, ptShutdown>>

(* A failed spawn is counted after its pause, and has no second one.       *)
SpawnAgain ==
  /\ ptPhase = "unspawned" /\ ptWait = 0 /\ ptStep' = NextStep(ptStep) /\ Restarts("spawn", ptShown)
  /\ UNCHANGED <<ptChild, ptProbe, ptUptime, ptWait, ptShutdown, ptStarts>>

----------------------------------------------------------------------------
(* watch, which gives its result to the loop of run.                       *)

Probe(ok) ==
  /\ ptPhase = "watch"
  /\ ptFails' = IF ok THEN 0 ELSE ptFails + 1
  /\ ptAnswers' = IF ok THEN "ok" ELSE "bad"
  /\ ptShown' = Shows(IF ok THEN "up" ELSE "degraded", TRUE)
  /\ ptPhase' = IF ptFails' >= PtProbes THEN "kill" ELSE "watch"
  /\ UNCHANGED <<ptChild, ptUptime, ptBackoff, ptShutdown, ptStarts>>

ChildExits ==
  /\ ptChild = "alive" /\ ptChild' = "dead"
  /\ UNCHANGED <<ptPhase, ptProbe, ptUptime, ptBackoff, ptShutdown, ptShown, ptStarts>>

(* The child is waited for, after a kill if need be.  A child that stayed  *)
(* up long enough starts the ladder of pauses anew.                        *)
ChildReaped ==
  LET n == IF ptUptime >= PtHealthy THEN 1 ELSE ptStep IN
  /\ ptPhase \in {"watch", "kill"} /\ (ptChild = "dead" \/ ptPhase = "kill") /\ ptChild' = "none"
  /\ Restarts("pause", Shows("down", FALSE))
  /\ ptWait' = IF ptPhase' = "failed" THEN 0 ELSE PtDelays[n]
  /\ ptStep' = IF ptPhase' = "failed" THEN n ELSE NextStep(n)
  /\ UNCHANGED <<ptProbe, ptUptime, ptShutdown, ptStarts>>

PauseOver ==
  /\ ptPhase = "pause" /\ ptWait = 0 /\ ptPhase' = "spawn"
  /\ UNCHANGED <<ptChild, ptProbe, ptUptime, ptBackoff, ptShutdown, ptShown, ptStarts>>

----------------------------------------------------------------------------
Shutdown ==
  /\ ~ptShutdown /\ ptShutdown' = TRUE
  /\ UNCHANGED <<ptPhase, ptChild, ptProbe, ptUptime, ptBackoff, ptShown, ptStarts>>

(* The shutdown is seen between two children and while one is watched,     *)
(* where the child is killed; a pause says nothing more.                   *)
PotStops ==
  /\ ptShutdown /\ ptPhase \in {"spawn", "watch", "pause", "unspawned"}
  /\ ptPhase' = "stopped" /\ ptChild' = "none"
  /\ ptShown' = IF ptPhase \in {"spawn", "watch"} THEN Shows("down", FALSE) ELSE ptShown
  /\ UNCHANGED <<ptProbe, ptUptime, ptBackoff, ptShutdown, ptStarts>>

Older(ages) == [n \in DOMAIN ages |-> IF ages[n] <= PtWindow THEN ages[n] + 1 ELSE ages[n]]
PotTick ==
  /\ ptPhase \in {"watch", "pause", "unspawned"} /\ (ptPhase # "watch" => ptWait > 0)
  /\ ptWait' = IF ptPhase = "watch" THEN ptWait ELSE ptWait - 1
  /\ ptUptime' = IF ptPhase = "watch" /\ ptUptime < PtHealthy THEN ptUptime + 1 ELSE ptUptime
  /\ ptWindow' = Older(ptWindow) /\ ptStarts' = InWindow(Older(ptStarts))
  /\ UNCHANGED <<ptPhase, ptChild, ptProbe, ptStep, ptRestarts, ptShutdown, ptShown>>

----------------------------------------------------------------------------
PotNext ==
  \/ \E ok \in BOOLEAN : Spawn(ok) \/ Probe(ok)
  \/ SpawnAgain \/ ChildExits \/ ChildReaped \/ PauseOver \/ Shutdown \/ PotStops \/ PotTick
PotSpec == PotInit /\ [][PotNext]_ptVars

----------------------------------------------------------------------------
PotTypeOK ==
  /\ ptPhase \in {"spawn", "watch", "kill", "pause", "unspawned", "failed", "stopped"}
  /\ ptChild \in {"none", "alive", "dead"} /\ ptFails \in 0..PtProbes /\ ptAnswers \in {"none", "ok", "bad"}
  /\ ptUptime \in 0..PtHealthy /\ ptStep \in DOMAIN PtDelays /\ ptWait \in Nat
  /\ ptWindow \in [DOMAIN ptWindow -> 0..(PtWindow + 1)] /\ DOMAIN ptWindow \subseteq 1..ptRestarts
  /\ ptRestarts \in 0..PtRestarts /\ ptShutdown \in BOOLEAN
  /\ ptShown \in [status : {"starting", "up", "degraded", "down", "failed"}, pid : BOOLEAN]
  /\ ptStarts \in [DOMAIN ptStarts -> 0..PtWindow] /\ DOMAIN ptStarts \subseteq 0..ptRestarts

(* No more children are started inside any window than the budget allows,  *)
(* though the window is looked at when one has ended; the health says what *)
(* the last probe of this very child said, and names a process exactly     *)
(* while one is there, so none is left by a supervisor that gave up.       *)
PotIsHonest ==
  /\ Cardinality(DOMAIN ptStarts) <= PtBudget
  /\ ptShown.pid <=> ptChild # "none"
  /\ ptShown.status = "up" => ptAnswers = "ok"
  /\ ptShown.status = "starting" => ptAnswers = "none"
=============================================================================
