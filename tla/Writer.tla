------------------------------- MODULE Writer -------------------------------
(***************************************************************************)
(* aulos-store, the writer thread.  Callers wait for a permit, send their  *)
(* job and wait for the answer.  The thread gathers jobs into a batch: for *)
(* the length of a window that a Sync job cuts short, and then whatever is *)
(* there already.  A batch is one transaction; when that fails it is       *)
(* replayed job by job.                                                    *)
(*                                                                         *)
(* SQLite is what the code takes it for: a transaction is whole, and a     *)
(* commit under synchronous = FULL or a checkpoint is on the platter with  *)
(* all commits before it.  Abstracted: what an operation does to its row.  *)
(***************************************************************************)
EXTENDS Integers, Sequences, FiniteSets, Lists

CONSTANTS
  WrCall,        \* the calls of Store::write, each at most once
  WrOps,         \* WrOps[c]: the operations of the call
  WrSyncs,       \* calls that ask for Durability::Sync
  WrRow,         \* rows
  WrPermits,     \* WRITE_INFLIGHT
  WrBatch,       \* MAX_BATCH
  WrWindow,      \* whether AULOS_DB_FLUSH_MS is above 0
  WrFaults       \* bound: transactions that fail for no fault of a job, crashes, checkpoints

ASSUME WrAssumption ==
  /\ WrPermits \in Nat \ {0} /\ WrBatch \in Nat \ {0} /\ WrWindow \in BOOLEAN /\ WrFaults \in Nat
  /\ WrSyncs \subseteq WrCall /\ {"close", "checkpoint"} \cap WrCall = {} /\ WrRow # {}

VARIABLES
  wrCall,       \* wrCall[c]: "none", "waits" for a permit, "sent", or how it was answered
  wrWaits,      \* calls that wait for a permit, first come first
  wrChan,       \* the channel: calls, "close", "checkpoint"
  wrPhase,      \* the thread: "recv", "extend", "drain", "commit", "replay", "after", "gone"
  wrBatch,      \* the jobs it holds
  wrSync,       \* sync_now
  wrEnd,        \* what it took besides jobs: "none", "checkpoint", "close"
  wrCommits,    \* the commits of the database: its rows after each, and the calls in it
  wrSafe,       \* how many of them are on the platter
  wrOpen,       \* whether a close was asked for
  wrFaults,     \* counts what WrFaults bounds
  \* history
  wrDrained,    \* Sync jobs taken after the window had ended
  wrRefused     \* jobs refused for no fault of their own

wrOut == <<wrCall, wrWaits, wrOpen>>
wrDisk == <<wrCommits, wrSafe>>
wrHistory == <<wrDrained, wrRefused>>
wrVars == <<wrOut, wrChan, wrPhase, wrBatch, wrSync, wrEnd, wrDisk, wrFaults, wrHistory>>

(* What the callers are promised, module Table: of a job they know whether *)
(* it was asked for, and how it was answered.                              *)
T == INSTANCE Table WITH
  Call <- WrCall, OpsOf <- WrOps, Row <- WrRow,
  states <- [n \in DOMAIN wrCommits |-> wrCommits[n].rows],
  pending <- wrBatch \o Sans(wrChan, {"close", "checkpoint"}),
  outcome <- [c \in WrCall |-> IF wrCall[c] \in {"waits", "sent"} THEN "asked" ELSE wrCall[c]],
  refusals <- wrRefused

WriterInit ==
  /\ wrCall = [c \in WrCall |-> "none"] /\ wrWaits = <<>> /\ wrChan = <<>>
  /\ wrPhase = "recv" /\ wrBatch = <<>> /\ wrSync = FALSE /\ wrEnd = "none"
  /\ wrCommits = <<[rows |-> [r \in WrRow |-> T!Absent], calls |-> {}]>> /\ wrSafe = 1
  /\ wrOpen = TRUE /\ wrFaults = 0 /\ wrDrained = {} /\ wrRefused = 0

Permitted == {c \in WrCall : wrCall[c] = "sent"}
Counted(happens) ==
  IF happens THEN wrFaults < WrFaults /\ wrFaults' = wrFaults + 1 ELSE UNCHANGED wrFaults

----------------------------------------------------------------------------
(* Store::write, Store::checkpoint and Store::close.                       *)

Write(c) ==
  /\ wrCall[c] = "none" /\ wrCall' = [wrCall EXCEPT ![c] = "waits"] /\ wrWaits' = Append(wrWaits, c)
  /\ UNCHANGED <<wrOpen, wrChan, wrPhase, wrBatch, wrSync, wrEnd, wrDisk, wrFaults, wrHistory>>

(* The permit comes, and the job is sent; nobody receives it any more when *)
(* the thread is gone, and the permits are closed then.                    *)
Permit ==
  LET c == Head(wrWaits) IN
  /\ wrWaits # <<>> /\ Cardinality(Permitted) < WrPermits /\ wrWaits' = Tail(wrWaits)
  /\ IF wrPhase = "gone" THEN wrCall' = [wrCall EXCEPT ![c] = "closed"] /\ UNCHANGED wrChan
     ELSE wrCall' = [wrCall EXCEPT ![c] = "sent"] /\ wrChan' = Append(wrChan, c)
  /\ UNCHANGED <<wrOpen, wrPhase, wrBatch, wrSync, wrEnd, wrDisk, wrFaults, wrHistory>>

AskCheckpoint ==
  /\ wrPhase # "gone" /\ Counted(TRUE) /\ wrChan' = Append(wrChan, "checkpoint")
  /\ UNCHANGED <<wrOut, wrPhase, wrBatch, wrSync, wrEnd, wrDisk, wrHistory>>

AskClose ==
  /\ wrOpen /\ wrOpen' = FALSE /\ wrChan' = Append(wrChan, "close")
  /\ UNCHANGED <<wrCall, wrWaits, wrPhase, wrBatch, wrSync, wrEnd, wrDisk, wrFaults, wrHistory>>

----------------------------------------------------------------------------
(* The thread.                                                             *)

(* A message is taken: a job joins the batch, the others end it.           *)
Takes(m, sync, phase) ==
  /\ wrChan' = Tail(wrChan)
  /\ IF m \in WrCall THEN wrBatch' = Append(wrBatch, m) /\ wrSync' = sync /\ UNCHANGED wrEnd
     ELSE wrEnd' = (IF wrEnd = "close" THEN wrEnd ELSE m) /\ UNCHANGED <<wrBatch, wrSync>>
  /\ wrPhase' = phase
  /\ UNCHANGED <<wrOut, wrDisk, wrFaults, wrRefused>>

Recv ==
  LET m == Head(wrChan) IN
  /\ wrPhase = "recv" /\ wrChan # <<>>
  /\ Takes(m, m \in WrSyncs, IF m # "close" /\ WrWindow THEN "extend" ELSE "drain")
  /\ UNCHANGED wrDrained

(* The window: until a Sync job, a full batch, or the time is up.          *)
WindowOpen == Len(wrBatch) < WrBatch /\ ~wrSync
ExtendSync(m) == wrSync \/ m \in WrSyncs

Extend ==
  LET m == Head(wrChan) IN
  /\ wrPhase = "extend" /\ WindowOpen /\ wrChan # <<>>
  /\ Takes(m, ExtendSync(m), IF m \in WrCall THEN "extend" ELSE "drain")
  /\ UNCHANGED wrDrained

WindowEnds ==
  /\ wrPhase = "extend" /\ wrPhase' = "drain"
  /\ UNCHANGED <<wrOut, wrChan, wrBatch, wrSync, wrEnd, wrDisk, wrFaults, wrHistory>>

(* What is there already: a Sync job among it does not set sync_now.       *)
Drain ==
  LET m == Head(wrChan) IN
  /\ wrPhase = "drain" /\ Len(wrBatch) < WrBatch /\ wrChan # <<>>
  /\ Takes(m, wrSync, IF m \in WrCall THEN "drain" ELSE "commit")
  /\ wrDrained' = wrDrained \cup ({m} \cap WrSyncs)

Drained ==
  /\ wrPhase = "drain" /\ (Len(wrBatch) = WrBatch \/ wrChan = <<>>) /\ wrPhase' = "commit"
  /\ UNCHANGED <<wrOut, wrChan, wrBatch, wrSync, wrEnd, wrDisk, wrFaults, wrHistory>>

(* commit_batch and commit_one: the rows after all operations of the jobs, *)
(* in order, or an error and then nothing of them.                         *)
InTransaction(jobs) ==
  LET Rows[n \in 0..Len(jobs)] ==
        IF n = 0 THEN wrCommits[Len(wrCommits)].rows
        ELSE IF Rows[n - 1] = T!Error THEN T!Error ELSE T!Written(Rows[n - 1], jobs[n])
  IN  Rows[Len(jobs)]

FullBug == wrSync /\ wrPhase = "commit"
Full == wrSync

Committed(jobs) ==
  /\ wrCommits' = Append(wrCommits, [rows |-> InTransaction(jobs), calls |-> {jobs[j] : j \in DOMAIN jobs}])
  /\ wrSafe' = IF Full THEN Len(wrCommits) + 1 ELSE wrSafe

(* The batch as one transaction, which may fail.                           *)
Commit(ok) ==
  LET works == wrBatch = <<>> \/ (ok /\ InTransaction(wrBatch) # T!Error) IN
  /\ wrPhase = "commit" /\ wrPhase' = IF works THEN "after" ELSE "replay"
  /\ IF works /\ wrBatch # <<>>
       THEN /\ Committed(wrBatch) /\ wrBatch' = <<>>
            /\ wrCall' = [c \in WrCall |-> IF \E j \in DOMAIN wrBatch : wrBatch[j] = c THEN "ok" ELSE wrCall[c]]
       ELSE UNCHANGED <<wrDisk, wrBatch, wrCall>>
  /\ Counted(~ok) /\ UNCHANGED <<wrWaits, wrOpen, wrChan, wrSync, wrEnd, wrHistory>>

(* The replay, one job and one transaction at a time.                      *)
NextJobBug == Len(wrBatch)
NextJob == 1

Replay(ok) ==
  LET job == wrBatch[NextJob]
      works == ok /\ InTransaction(<<job>>) # T!Error
  IN
  /\ wrPhase = "replay" /\ wrBatch # <<>>
  /\ IF works THEN Committed(<<job>>) ELSE UNCHANGED wrDisk
  /\ wrCall' = [wrCall EXCEPT ![job] = IF works THEN "ok" ELSE "error"]
  /\ wrBatch' = [j \in 1..(Len(wrBatch) - 1) |-> IF j < NextJob THEN wrBatch[j] ELSE wrBatch[j + 1]]
  /\ wrRefused' = wrRefused + (IF ok THEN 0 ELSE 1) /\ Counted(~ok)
  /\ UNCHANGED <<wrWaits, wrOpen, wrChan, wrPhase, wrSync, wrEnd, wrDrained>>

Replayed ==
  /\ wrPhase = "replay" /\ wrBatch = <<>> /\ wrPhase' = "after"
  /\ UNCHANGED <<wrOut, wrChan, wrBatch, wrSync, wrEnd, wrDisk, wrFaults, wrHistory>>

(* A checkpoint, and the one of the close, may find the database busy.     *)
(* With the thread goes the channel: what is left in it is not done.       *)
EndOfBatch(ok) ==
  /\ wrPhase = "after" /\ wrSync' = FALSE /\ wrEnd' = "none"
  /\ (ok \/ wrEnd # "none") /\ wrSafe' = IF wrEnd # "none" /\ ok THEN Len(wrCommits) ELSE wrSafe
  /\ IF wrEnd = "close"
       THEN /\ wrPhase' = "gone" /\ wrChan' = <<>>
            /\ wrCall' = [c \in WrCall |-> IF wrCall[c] = "sent" THEN "closed" ELSE wrCall[c]]
       ELSE wrPhase' = "recv" /\ UNCHANGED <<wrChan, wrCall>>
  /\ UNCHANGED <<wrWaits, wrOpen, wrBatch, wrCommits, wrFaults, wrHistory>>

----------------------------------------------------------------------------
(* The process is killed, or the machine: then commits that are not on the *)
(* platter may be lost, the last ones first.  The store is opened again.   *)
Killed(n) ==
  /\ Counted(TRUE) /\ n \in wrSafe..Len(wrCommits)
  /\ wrCommits' = SubSeq(wrCommits, 1, n) /\ wrSafe' = IF n < Len(wrCommits) THEN n ELSE wrSafe
  /\ wrCall' = [c \in WrCall |-> IF wrCall[c] \in {"waits", "sent"} THEN "lost" ELSE wrCall[c]]
  /\ wrWaits' = <<>> /\ wrChan' = <<>> /\ wrBatch' = <<>> /\ wrPhase' = "recv" /\ wrSync' = FALSE
  /\ wrEnd' = "none" /\ wrOpen' = TRUE /\ UNCHANGED wrHistory

----------------------------------------------------------------------------
ThreadStep ==
  \/ Recv \/ Extend \/ WindowEnds \/ Drain \/ Drained \/ Replayed
  \/ \E ok \in BOOLEAN : Commit(ok) \/ Replay(ok) \/ EndOfBatch(ok)

WriterNext ==
  \/ \E c \in WrCall : Write(c)
  \/ Permit \/ AskCheckpoint \/ AskClose \/ ThreadStep
  \/ \E n \in wrSafe..Len(wrCommits) : Killed(n)

WriterSpec == WriterInit /\ [][WriterNext]_wrVars

----------------------------------------------------------------------------
WriterTypeOK ==
  /\ wrCall \in [WrCall -> {"none", "waits", "sent", "ok", "error", "closed", "lost"}]
  /\ wrWaits \in Seq(WrCall) /\ wrChan \in Seq(WrCall \cup {"close", "checkpoint"})
  /\ wrPhase \in {"recv", "extend", "drain", "commit", "replay", "after", "gone"}
  /\ wrBatch \in Seq(WrCall) /\ Len(wrBatch) <= WrBatch /\ wrSync \in BOOLEAN
  /\ wrEnd \in {"none", "checkpoint", "close"} /\ wrSafe \in 1..Len(wrCommits) /\ wrOpen \in BOOLEAN
  /\ Cardinality(Permitted) <= WrPermits /\ wrDrained \subseteq WrSyncs

(* Whatever shares a batch, fails in one or is replayed, a caller sees a   *)
(* table that takes each write whole or not at all, in the order they were *)
(* sent, and refuses only what cannot be done or what a fault hit.  No     *)
(* call is dropped without an answer, what is behind a close included.     *)
WriterIsTable == T!TableSpec

(* A Sync write that was answered survives the loss of the machine, unless *)
(* the thread came upon it after the window of its batch had ended.        *)
WriterSyncIsSafe ==
  \A c \in WrSyncs \ wrDrained :
    wrCall[c] = "ok" => \E n \in 1..wrSafe : c \in wrCommits[n].calls
=============================================================================
