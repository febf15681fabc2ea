------------------------------ MODULE MCHiLo ------------------------------
(***************************************************************************)
(* The store's durable counters and the parts around it of which only      *)
(* safety is claimed: the import, the reads of several requests, the files *)
(* of a row and the runs of a hook.  They share no state, so a behaviour   *)
(* is one of them: the others stay where they begin.                       *)
(***************************************************************************)
EXTENDS HiLo, Import, Reads, Files, HookRuns

VARIABLE scene

(* Blocks of two and three values: small enough to exhaust several.        *)
MCBlock == [ord |-> 2, seq |-> 3]

(* Three records of two URLs, of any kind, or no files at all.             *)
Three(urls, kinds) == [i \in 1..3 |-> [url |-> urls[i], kind |-> kinds[i], no |-> i]]
MCLegacies ==
  {<<>>} \cup {Three(<<"u", v, w>>, kinds) : v, w \in {"u", "v"}, kinds \in [1..3 -> LegacyKind]}
OneLegacy == Three(<<"u", "v", "u">>, <<"pending", "finished", "finished">>)

(* One command over any files; or two beside a corrupt file and the        *)
(* server, the second of which skips the file.                             *)
ImportScenes == {"import: one", "import: two"}
ImportScene ==
  CASE scene = "import: one" -> TRUE
    [] scene = "import: two" -> imLegacy = OneLegacy /\ imBad
    [] OTHER -> imLegacy = OneLegacy /\ ~imBad

(* A component that does not run begins in one state only.                 *)
ReadsScene == scene = "polls" \/ rdClient.mode = "tag"
FilesScene == scene = "files" \/ flSetup = [sc |-> FALSE, cleans |-> FALSE]
RunsScene  == scene = "hook runs" \/ hrHook = [kind |-> "jellyfin", map |-> FALSE, timeout |-> 1, retries |-> 0]

MCInit ==
  /\ scene \in ImportScenes \cup {"counters", "polls", "pages", "files", "hook runs"}
  /\ Init /\ ImportInit /\ ImportScene /\ ReadsInit /\ ReadsScene /\ FilesInit /\ FilesScene /\ HookRunsInit /\ RunsScene

MCCounters == scene = "counters" /\ Next /\ UNCHANGED <<imVars, rdVars, flVars, hrVars>>
MCImport ==
  /\ scene \in ImportScenes /\ ImportNext /\ UNCHANGED <<vars, rdVars, flVars, hrVars>>
  /\ scene = "import: one" => /\ imCmd'[2].pc = "off" /\ imServer' = 0 /\ ~imCmd'[1].force
                              /\ imFaults' = 0 /\ ~imWiped'
  /\ imCmd'[2].pc # "off" => imCmd'[2].skip /\ ~imCmd'[2].force
MCReads ==
  /\ UNCHANGED <<vars, imVars, flVars, hrVars>>
  /\ \/ scene = "polls" /\ PollsNext
     \/ scene = "pages" /\ PagesNext
MCFiles    == scene = "files" /\ FilesNext /\ UNCHANGED <<vars, imVars, rdVars, hrVars>>
MCHookRuns == scene = "hook runs" /\ HookRunsNext /\ UNCHANGED <<vars, imVars, rdVars, flVars>>
MCNext == UNCHANGED scene /\ (MCCounters \/ MCImport \/ MCReads \/ MCFiles \/ MCHookRuns)
MCSpec == MCInit /\ [][MCNext]_<<scene, vars, imVars, rdVars, flVars, hrVars>>
===========================================================================
