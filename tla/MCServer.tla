------------------------------ MODULE MCServer ------------------------------
(***************************************************************************)
(* The push notifications of an item, a chat's board, a playlist, and the  *)
(* boot and the shutdown of the server, side by side: they share no state, *)
(* so a behaviour is one component's.  A playlist that is not the scene's  *)
(* is a deleted one, a server that is not has exited.                      *)
(***************************************************************************)
EXTENDS Apns, Groups, Board, Shutdown

CONSTANTS t1, t2
VARIABLE scene

MCOwner == [t \in {t1, t2} |-> t]

(* A whole run of an item, a fault in the middle of one, or two devices;   *)
(* three commands on a playlist with one fault, or one with two.           *)
ApnsScene ==
  CASE scene = "apns: run" -> apSeen = 0 /\ apFaults = ApFaults
    [] scene = "apns: fault" -> apSeen = 2 /\ apFaults = ApFaults - 1
    [] OTHER -> apSeen = 2 /\ apFaults = ApFaults
GroupsScene ==
  IF scene \in {"groups: commands", "groups: faults"}
  THEN GroupsInit /\ IF scene = "groups: commands" THEN grCommands = 0 /\ grFaults = GrFaults - 1
                     ELSE grCommands = GrCommands - 1 /\ grFaults = 0
  ELSE /\ gr = [group |-> "gone", child |-> [c \in Children |-> "gone"], here |-> FALSE, cached |-> {},
                acc |-> NoAcc, done |-> <<>>, ghosts |-> [s \in RowStatus |-> 0]]
       /\ grNext = 0 /\ grAsked = FALSE /\ grCmd = NoCmd /\ grCommands = 0 /\ grFaults = 0
       /\ grGivenUp = FALSE /\ grLoose = FALSE

(* One download from its add to a retry, or two shorter ones on one board. *)
BoardScene ==
  CASE scene = "board: one" -> bdJob[2] = "none"
    [] scene = "board: two" -> TRUE
    [] OTHER -> \A j \in BdJob : bdJob[j] = "none"

(* One task at a time is slow beside the usual ones; or all of them are in *)
(* time and the sidecar runs too.                                          *)
ShutdownScene ==
  CASE scene = "shutdown: slow" -> ShutdownInit /\ sdOn = {"notifiers"}
    [] scene = "shutdown: sidecar" -> ShutdownInit /\ sdOn = Optional /\ sdSlow = {}
    [] OTHER ->
         /\ sdOn = {} /\ sdSlow = {} /\ sdStep = "exit" /\ sdTask = [t \in SdTask |-> "over"]
         /\ sdCut = {} /\ sdHeld = {} /\ sdAsked = TRUE /\ sdStore = "closed" /\ sdRow = "finished"
         /\ sdPanic = "no" /\ sdSpent = [c \in Ceiling |-> {}] /\ sdCode = "ok"

MCInit ==
  /\ scene \in {"apns: run", "apns: fault", "apns: two", "groups: commands", "groups: faults",
                "board: one", "board: two", "shutdown: slow", "shutdown: sidecar"}
  /\ ApnsInit /\ ApnsScene /\ GroupsScene /\ BoardInit /\ BoardScene /\ ShutdownScene

MCApns ==
  /\ scene \in {"apns: run", "apns: fault", "apns: two"} /\ ApnsNext /\ UNCHANGED <<grVars, bdVars, sdVars>>
  /\ scene = "apns: run" => /\ apStatus' # "gone" /\ (apSeen' # apSeen => apStatus' # apStatus)
                            /\ apMinted' # apMinted => apSeen = 1
  /\ scene = "apns: two" => apStatus' # "over"
  /\ scene # "apns: two" => t2 \notin apMinted'
MCGroups == scene \in {"groups: commands", "groups: faults"} /\ GroupsNext /\ UNCHANGED <<apVars, bdVars, sdVars>>
MCBoard ==
  /\ scene \in {"board: one", "board: two"} /\ BoardNext /\ UNCHANGED <<apVars, grVars, sdVars>>
  /\ scene = "board: one" => bdJob'[2] = "none"
  /\ scene = "board: two" => bdTurns' <= 3
MCShutdown ==
  scene \in {"shutdown: slow", "shutdown: sidecar"} /\ ShutdownNext /\ UNCHANGED <<apVars, grVars, bdVars>>
MCNext == UNCHANGED scene /\ (MCApns \/ MCGroups \/ MCBoard \/ MCShutdown)

MCSpec ==
  /\ MCInit /\ [][MCNext]_<<scene, apVars, grVars, bdVars, sdVars>>
  /\ ApnsFairness /\ GroupsFairness /\ BoardFairness /\ ShutdownFairness

(* The types of the four components.                                       *)
ServerTypeOK == ApnsTypeOK /\ GroupsTypeOK /\ BoardTypeOK /\ ShutdownTypeOK
=============================================================================
