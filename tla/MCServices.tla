----------------------------- MODULE MCServices -----------------------------
(***************************************************************************)
(* The services around the engine, side by side: subscriptions, hooks, the *)
(* dedupe index, the store's writer, the sidecar's supervisor, a job's     *)
(* processes and the options in force.  They share no state, so a          *)
(* behaviour is one component's: the others stay where they begin, where   *)
(* nothing is due.                                                         *)
(***************************************************************************)
EXTENDS Subs, Hooks, Dedupe, Writer, Pot, Jobs, Options

CONSTANTS s1, s2, m1, m2
VARIABLE scene

MCCanon == [raw \in {"a", "A", "b"} |-> IF raw = "A" THEN "a" ELSE raw]

(* An insert, a change of the same row, and a write that fails half way.   *)
Op(kind) == [kind |-> kind, row |-> "r"]
MCOps == [a |-> <<Op("insert")>>, b |-> <<Op("change")>>, c |-> <<Op("delete"), Op("change")>>]
MCDelays == <<1, 2>>

(* Two subscriptions of one upload, or one that is asked for one more time *)
(* and sees two; two items that finish with hooks, or three without.       *)
SubsScene ==
  /\ subListing = {}
  /\ IF scene = "subs: two" THEN subUsed = {} /\ subFaults = SubFaults /\ subAsks = 0
     ELSE subUsed = {s2} /\ subFaults = 0 /\ subAsks = 1
HooksScene ==
  hkPhase = [i \in HkItem |-> IF i = 3 /\ scene # "hooks: three" THEN "completed" ELSE "active"]
JobsScene == scene = "jobs" \/ jbKind = "shim"

(* A signal and two edits; an upload and a delete of the cookies, with a   *)
(* restart; an upload beside the reload route.                             *)
OptionsScenes == {"options: hup", "options: cookies", "options: api"}
OptionsScene == IF scene \in OptionsScenes THEN opJar = (scene = "options: hup") ELSE opNative = "deaf" /\ ~opJar
Callers ==
  CASE scene = "options: hup" -> {"hup"}
    [] scene = "options: cookies" -> {"upload", "remove"}
    [] scene = "options: api" -> {"upload", "api"}

MCInit ==
  /\ scene \in {"subs: two", "subs: one", "hooks: two", "hooks: three", "dedupe", "writer", "pot", "jobs"} \cup OptionsScenes
  /\ SubsInit /\ SubsScene /\ HooksInit /\ HooksScene /\ DedupeInit /\ WriterInit /\ PotInit /\ JobsInit /\ JobsScene
  /\ OptionsInit /\ OptionsScene

MCSubs ==
  /\ scene \in {"subs: two", "subs: one"} /\ SubsNext /\ UNCHANGED <<hkVars, ddVars, wrVars, ptVars, jbVars, opVars>>
  /\ scene = "subs: two" => m2 \notin subListing'
MCHooks ==
  /\ scene \in {"hooks: two", "hooks: three"} /\ HooksNext /\ UNCHANGED <<subVars, ddVars, wrVars, ptVars, jbVars, opVars>>
  /\ scene = "hooks: three" => \A i \in HkItem : hkPhase'[i] # "finishing"
MCDedupe == scene = "dedupe" /\ DedupeNext /\ UNCHANGED <<subVars, hkVars, wrVars, ptVars, jbVars, opVars>>
MCWriter == scene = "writer" /\ WriterNext /\ UNCHANGED <<subVars, hkVars, ddVars, ptVars, jbVars, opVars>>
MCPot    == scene = "pot" /\ PotNext /\ UNCHANGED <<subVars, hkVars, ddVars, wrVars, jbVars, opVars>>
MCJobs   == scene = "jobs" /\ JobsNext /\ UNCHANGED <<subVars, hkVars, ddVars, wrVars, ptVars, opVars>>
MCOptions ==
  /\ scene \in OptionsScenes /\ OptionsNext /\ UNCHANGED <<subVars, hkVars, ddVars, wrVars, ptVars, jbVars>>
  /\ \A c \in OpCalls \ Callers : opTask'[c].pc \in {"off", "gone"}
  /\ scene = "options: hup" \/ opFile'.ver <= 1
  /\ scene = "options: cookies" \/ opBoots' <= 1
MCNext == UNCHANGED scene /\ (MCSubs \/ MCHooks \/ MCDedupe \/ MCWriter \/ MCPot \/ MCJobs \/ MCOptions)

MCSpec ==
  /\ MCInit /\ [][MCNext]_<<scene, subVars, hkVars, ddVars, wrVars, ptVars, jbVars, opVars>>
  /\ SubsFairness /\ HooksFairness /\ JobsFairness /\ OptionsFairness

(* The types of the seven components.                                      *)
ServicesTypeOK == SubsTypeOK /\ HooksTypeOK /\ DedupeTypeOK /\ WriterTypeOK /\ PotTypeOK /\ JobsTypeOK /\ OptionsTypeOK
=============================================================================
