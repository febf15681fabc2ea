------------------------------- MODULE Import -------------------------------
(***************************************************************************)
(* The one-shot import of the legacy JSON files: the command that runs it, *)
(* the database it may have to create and take back, the marker it leaves, *)
(* and the boot of the server, which refuses to run beside files that were *)
(* not imported.  Several commands and the server may use the same path.   *)
(***************************************************************************)
EXTENDS FiniteSets, Lists

CONSTANTS
  ImCmd,      \* the import commands an operator runs
  ImLegacies, \* the contents the legacy files may have
  ImFaults    \* bound on the writes that fail and the commands that crash

LegacyKind == {"finished", "error", "downloading", "pending"}
Completed  == {"finished", "error"}

(* Legacy records are numbered in the order of their timestamps.           *)
ASSUME ImAssumption ==
  /\ IsFiniteSet(ImCmd) /\ ImFaults \in Nat
  /\ \A records \in ImLegacies :
       /\ records \in Seq({records[i] : i \in DOMAIN records})
       /\ \A i \in DOMAIN records : records[i].no = i /\ records[i].kind \in LegacyKind

VARIABLES
  imLegacy, \* the legacy records in the order of their timestamps
  imBad,    \* completed.json cannot be parsed
  imDbs,    \* every database ever created: its imports, the rows added since
  imLive,   \* the database at the path; 0 when there is none
  imMarker, \* the marker file is there
  imCmd,    \* of each command: where it is, its options and its database
  imServer, \* the database the server has open; 0 when it does not run
  imFaults,
  imWiped,  \* history: the operator deleted a database
  imNoMark  \* history: the marker of an import was not written

imVars == <<imLegacy, imBad, imDbs, imLive, imMarker, imCmd, imServer, imFaults, imWiped, imNoMark>>

EmptyDb    == [batches |-> <<>>, adds |-> 0]
Idle       == [pc |-> "off", fresh |-> FALSE, force |-> FALSE, skip |-> FALSE, db |-> 0, met |-> FALSE]

ImportInit ==
  /\ imLegacy \in ImLegacies /\ imBad \in BOOLEAN
  /\ imDbs = <<>> /\ imLive = 0 /\ imMarker = FALSE /\ imServer = 0
  /\ imCmd = [c \in ImCmd |-> Idle] /\ imFaults = 0
  /\ imWiped = FALSE /\ imNoMark = FALSE
-----------------------------------------------------------------------------
(* What is imported of a collection: of the records of one URL the most    *)
(* advanced, the earlier of two alike, at the place of the first.          *)
Advancement(kind) == IF kind \in Completed THEN 3 ELSE IF kind = "downloading" THEN 2 ELSE 1
MapStatus(kind) == IF kind \in Completed THEN kind ELSE "queued"
WinsBug(new, old) == Advancement(new.kind) >= Advancement(old.kind)  \* the later of two alike
Wins(new, old) == Advancement(new.kind) > Advancement(old.kind)
Take(kept, r) ==
  IF \A i \in DOMAIN kept : kept[i].url # r.url THEN Append(kept, r)
  ELSE [i \in DOMAIN kept |-> IF kept[i].url = r.url /\ Wins(r, kept[i]) THEN r ELSE kept[i]]
ResolveDuplicates(records) ==
  LET kept[k \in 0..Len(records)] == IF k = 0 THEN <<>> ELSE Take(kept[k - 1], records[k])
  IN  kept[Len(records)]

(* A file that cannot be parsed holds no records.                          *)
Unread == {i \in DOMAIN imLegacy : imBad /\ imLegacy[i].kind \in Completed}
Staged == Sans(imLegacy, {imLegacy[i] : i \in Unread})
Batch == LET kept == ResolveDuplicates(Staged)
         IN  [i \in DOMAIN kept |-> [url |-> kept[i].url, no |-> kept[i].no, status |-> MapStatus(kept[i].kind)]]
-----------------------------------------------------------------------------
Opened(n) == n \in DOMAIN imDbs
Imported(n) == imDbs[n].batches # <<>>
Holding(n) == \E k \in DOMAIN imDbs[n].batches : imDbs[n].batches[k] # <<>>
HasItems(n) == imDbs[n].adds > 0 \/ Holding(n)
HasJson == imLegacy # <<>> \/ imBad

Running(c) == imCmd[c].pc \notin {"off", "refused", "failed", "done", "dead"}
(* A process that opens the path creates the database if there is none,    *)
(* and every command that has it open has met it.                          *)
OpenDb == IF imLive = 0 THEN Len(imDbs) + 1 ELSE imLive
Created == IF imLive = 0 THEN Append(imDbs, EmptyDb) ELSE imDbs
Met(c) == imCmd[c].met \/ (Running(c) /\ imCmd[c].db = OpenDb)
Meet == [c \in ImCmd |-> [imCmd[c] EXCEPT !.met = Met(c)]]

(* Whether the path exists is asked before the store is opened.            *)
Begin(c, force, skip) ==
  /\ imCmd[c].pc = "off"
  /\ imCmd' = [imCmd EXCEPT ![c] = [Idle EXCEPT !.pc = "asked", !.fresh = (imLive = 0), !.force = force, !.skip = skip]]
  /\ UNCHANGED <<imLegacy, imBad, imDbs, imLive, imMarker, imServer, imFaults, imWiped, imNoMark>>
Shared(c) ==
  \/ imServer = OpenDb \/ \E d \in ImCmd : Running(d) /\ imCmd[d].db = OpenDb
  \/ imCmd[c].fresh /\ imLive # 0
OpenStore(c) ==
  /\ imCmd[c].pc = "asked"
  /\ imDbs' = Created /\ imLive' = OpenDb
  /\ imCmd' = [Meet EXCEPT ![c] = [@ EXCEPT !.pc = "opened", !.db = OpenDb, !.met = Shared(c)]]
  /\ UNCHANGED <<imLegacy, imBad, imMarker, imServer, imFaults, imWiped, imNoMark>>

AlreadyImportedBug(n) == imMarker  \* the database is not asked
AlreadyImported(n) == imMarker \/ Imported(n) \/ HasItems(n)
Check(c) ==
  /\ imCmd[c].pc = "opened"
  /\ imCmd' = [imCmd EXCEPT ![c].pc = IF ~imCmd[c].force /\ AlreadyImported(imCmd[c].db) THEN "refused" ELSE "reading"]
  /\ UNCHANGED <<imLegacy, imBad, imDbs, imLive, imMarker, imServer, imFaults, imWiped, imNoMark>>

(* A file error ends the command unless it skips corrupt files.            *)
ReadFiles(c) ==
  /\ imCmd[c].pc = "reading"
  /\ imCmd' = [imCmd EXCEPT ![c].pc = IF imBad /\ ~imCmd[c].skip THEN "taking back" ELSE "writing"]
  /\ UNCHANGED <<imLegacy, imBad, imDbs, imLive, imMarker, imServer, imFaults, imWiped, imNoMark>>

(* One transaction for all rows and the provenance keys.                   *)
Commit(c) ==
  /\ imCmd[c].pc = "writing"
  /\ imDbs' = [imDbs EXCEPT ![imCmd[c].db].batches = Append(@, Batch)]
  /\ imCmd' = [imCmd EXCEPT ![c].pc = "marking"]
  /\ UNCHANGED <<imLegacy, imBad, imLive, imMarker, imServer, imFaults, imWiped, imNoMark>>
WriteFails(c) ==
  /\ imCmd[c].pc = "writing" /\ imFaults < ImFaults
  /\ imCmd' = [imCmd EXCEPT ![c].pc = "taking back"] /\ imFaults' = imFaults + 1
  /\ UNCHANGED <<imLegacy, imBad, imDbs, imLive, imMarker, imServer, imWiped, imNoMark>>

(* The marker comes last; that it could not be written is only logged.     *)
Mark(c) ==
  /\ imCmd[c].pc = "marking" /\ imCmd' = [imCmd EXCEPT ![c].pc = "done"]
  /\ \/ imMarker' = TRUE /\ UNCHANGED <<imFaults, imNoMark>>
     \/ /\ imFaults < ImFaults /\ imFaults' = imFaults + 1
        /\ imNoMark' = TRUE /\ UNCHANGED imMarker
  /\ UNCHANGED <<imLegacy, imBad, imDbs, imLive, imServer, imWiped>>

(* A failed import takes the database at the path back if the path was     *)
(* free when the command began.                                            *)
DeletesBug(c) == TRUE  \* whoever created it
Deletes(c) == imCmd[c].fresh
TakeBack(c) ==
  /\ imCmd[c].pc = "taking back" /\ imCmd' = [imCmd EXCEPT ![c].pc = "failed"]
  /\ imLive' = IF Deletes(c) THEN 0 ELSE imLive
  /\ UNCHANGED <<imLegacy, imBad, imDbs, imMarker, imServer, imFaults, imWiped, imNoMark>>

CommandDies(c) ==
  /\ Running(c) /\ imFaults < ImFaults
  /\ imCmd' = [imCmd EXCEPT ![c].pc = "dead"] /\ imFaults' = imFaults + 1
  /\ imNoMark' = (imNoMark \/ imCmd[c].pc = "marking")
  /\ UNCHANGED <<imLegacy, imBad, imDbs, imLive, imMarker, imServer, imWiped>>
-----------------------------------------------------------------------------
(* The server opens the path too, and does not run over JSON files nobody  *)
(* imported.                                                               *)
RefusesBug == HasJson /\ ~imMarker /\ ~Opened(imLive)  \* any database will do
Refuses ==
  /\ HasJson /\ ~imMarker
  /\ Opened(imLive) => ~Imported(imLive) /\ ~HasItems(imLive)
Boots ==
  /\ imServer = 0
  /\ imDbs' = Created /\ imLive' = OpenDb
  /\ IF Refuses THEN UNCHANGED <<imServer, imCmd>> ELSE imServer' = OpenDb /\ imCmd' = Meet
  /\ UNCHANGED <<imLegacy, imBad, imMarker, imFaults, imWiped, imNoMark>>
Adds ==
  /\ imServer # 0 /\ imDbs[imServer].adds = 0
  /\ imDbs' = [imDbs EXCEPT ![imServer].adds = 1]
  /\ UNCHANGED <<imLegacy, imBad, imLive, imMarker, imCmd, imServer, imFaults, imWiped, imNoMark>>
Stops ==
  /\ imServer # 0 /\ imServer' = 0
  /\ UNCHANGED <<imLegacy, imBad, imDbs, imLive, imMarker, imCmd, imFaults, imWiped, imNoMark>>

(* An operator deletes the database while nothing uses it.                 *)
Wipe ==
  /\ imLive # 0 /\ imServer = 0 /\ ~imWiped /\ \A c \in ImCmd : ~Running(c)
  /\ imLive' = 0 /\ imWiped' = TRUE
  /\ UNCHANGED <<imLegacy, imBad, imDbs, imMarker, imCmd, imServer, imFaults, imNoMark>>

ImportNext ==
  \/ \E c \in ImCmd : \/ \E force, skip \in BOOLEAN : Begin(c, force, skip)
                      \/ OpenStore(c) \/ Check(c) \/ ReadFiles(c) \/ Commit(c) \/ WriteFails(c)
                      \/ Mark(c) \/ TakeBack(c) \/ CommandDies(c)
  \/ Boots \/ Adds \/ Stops \/ Wipe
ImportSpec == ImportInit /\ [][ImportNext]_imVars
-----------------------------------------------------------------------------
ImportTypeOK ==
  /\ {imLegacy[i].kind : i \in DOMAIN imLegacy} \subseteq LegacyKind /\ imBad \in BOOLEAN /\ imMarker \in BOOLEAN
  /\ \A n \in DOMAIN imDbs : imDbs[n].adds \in 0..1 /\ Len(imDbs[n].batches) <= Cardinality(ImCmd)
  /\ imLive \in 0..Len(imDbs) /\ imServer \in 0..Len(imDbs) /\ imFaults \in 0..ImFaults
  /\ \A c \in ImCmd : /\ imCmd[c].pc \in {"off", "asked", "opened", "reading", "writing", "marking", "taking back",
                                          "refused", "failed", "done", "dead"}
                      /\ imCmd[c].db \in 0..Len(imDbs)
                      /\ {imCmd[c].fresh, imCmd[c].force, imCmd[c].skip, imCmd[c].met} \subseteq BOOLEAN
  /\ {imWiped, imNoMark} \subseteq BOOLEAN

(* The rows an import should leave: one for each URL, in the order the     *)
(* URLs first appear, its record the earliest of the most advanced.        *)
Best(r) == \A j \in DOMAIN Staged :
             Staged[j].url = r.url => \/ Advancement(Staged[j].kind) < Advancement(r.kind)
                                      \/ Advancement(Staged[j].kind) = Advancement(r.kind) /\ Staged[j].no >= r.no
First(url) == CHOOSE i \in DOMAIN Staged : Staged[i].url = url /\ \A j \in 1..(i - 1) : Staged[j].url # url
IsRight(batch) ==
  /\ {batch[i].no : i \in DOMAIN batch} = {Staged[i].no : i \in {j \in DOMAIN Staged : Best(Staged[j])}}
  /\ \A i, j \in DOMAIN batch : i < j => First(batch[i].url) < First(batch[j].url)
  /\ \A i \in DOMAIN batch : \E j \in DOMAIN Staged :
       /\ Staged[j].url = batch[i].url /\ Staged[j].no = batch[i].no
       /\ Staged[j].kind \in Completed => batch[i].status = Staged[j].kind
       /\ Staged[j].kind \notin Completed => batch[i].status = "queued"

Imports == {i \in (DOMAIN imDbs) \X (1..Cardinality(ImCmd)) : i[2] \in DOMAIN imDbs[i[1]].batches}
Gone == {n \in DOMAIN imDbs : n # imLive /\ (Imported(n) \/ HasItems(n))}
Forced == \E c \in ImCmd : imCmd[c].force
Overlap == \E c \in ImCmd : imCmd[c].met

(* What an import leaves is right; it is done twice only if an operator    *)
(* forced it, ran two at once, or deleted the database when no marker was  *)
(* written; only a failed command that found the path free and then met    *)
(* another process takes a database away with something in it; there is a  *)
(* marker only after an import, so a failed one never blocks the next; and *)
(* the server serves an empty queue beside JSON files only when the        *)
(* imported database was taken away.                                       *)
ImportIsSafe ==
  /\ \A n \in DOMAIN imDbs : \A k \in DOMAIN imDbs[n].batches : IsRight(imDbs[n].batches[k])
  /\ Cardinality(Imports) > 1 => Forced \/ Overlap \/ (imWiped /\ imNoMark)
  /\ Gone # {} => imWiped \/ \E c \in ImCmd : imCmd[c].pc = "failed" /\ imCmd[c].fresh /\ imCmd[c].met
  /\ imMarker => Imports # {}
  /\ imServer # 0 /\ HasJson /\ ~Imported(imServer) /\ ~HasItems(imServer) => Gone # {}

(* The types of the import, and that it is safe.                           *)
ImportHolds == ImportTypeOK /\ ImportIsSafe
=============================================================================
