---------------------------- MODULE StoreProofs -----------------------------
(***************************************************************************)
(* What TLAPS proves about aulos-store's writer, for any calls,            *)
(* operations, permits, batch size and window: what a Sync write is worth, *)
(* that its callers see a table that takes each write whole or not at all  *)
(* (WriterIsTable), and that it holds no more than its limits allow.       *)
(***************************************************************************)
EXTENDS Writer, ListProofs

-----------------------------------------------------------------------------
(* The writer: what a Sync write is worth.                                 *)

IsSequence(s) == \E S : s \in Seq(S)

LEMMA Appended ==
  ASSUME NEW s, IsSequence(s), NEW e
  PROVE  /\ IsSequence(Append(s, e)) /\ Len(s) \in Nat /\ Len(Append(s, e)) = Len(s) + 1
         /\ \A i \in 1..Len(s) : Append(s, e)[i] = s[i]
         /\ Append(s, e)[Len(s) + 1] = e
<1>1. PICK S : s \in Seq(S) BY DEF IsSequence
<1>2. s \in Seq(S \cup {e}) /\ e \in S \cup {e} BY <1>1
<1>3. Append(s, e) \in Seq(S \cup {e}) BY <1>2
<1> QED BY <1>2, <1>3 DEF IsSequence

LEMMA CutAt ==
  ASSUME NEW s, IsSequence(s), NEW n \in 1..Len(s)
  PROVE  /\ IsSequence(SubSeq(s, 1, n)) /\ Len(SubSeq(s, 1, n)) = n
         /\ \A i \in 1..n : SubSeq(s, 1, n)[i] = s[i]
<1>1. PICK S : s \in Seq(S) BY DEF IsSequence
<1>2. Len(s) \in Nat /\ \A i \in 1..n : s[i] \in S BY <1>1
<1>3. SubSeq(s, 1, n) = [i \in 1..n |-> s[i]] BY <1>1, <1>2
<1>4. SubSeq(s, 1, n) \in Seq(S) BY <1>2, <1>3
<1> QED BY <1>3, <1>4 DEF IsSequence

----------------------------------------------------------------------------
(* The strengthening: the thread holds jobs only between taking the first  *)
(* and answering the last, and a Sync job that was not drained has set     *)
(* sync_now, which stays set until the batch is over.                      *)
Holds ==
  /\ wrBatch \in Seq(WrCall)
  /\ wrPhase \in {"recv", "after", "gone"} => wrBatch = <<>>
  /\ \A j \in 1..Len(wrBatch) : wrBatch[j] \in WrSyncs \ wrDrained => wrSync

Kept ==
  /\ wrCall \in [WrCall -> {"none", "waits", "sent", "ok", "error", "closed", "lost"}]
  /\ IsSequence(wrCommits) /\ wrSafe \in 1..Len(wrCommits)
  /\ wrSync \in BOOLEAN
  /\ wrPhase \in {"recv", "extend", "drain", "commit", "replay", "after", "gone"}

SyncInv == Kept /\ Holds /\ WriterSyncIsSafe

LEMMA SyncStarts == WriterInit => SyncInv
<1> SUFFICES ASSUME WriterInit PROVE SyncInv OBVIOUS
<1> DEFINE first == [rows |-> [r \in WrRow |-> T!Absent], calls |-> {}]
<1>1. /\ wrCommits = <<first>> /\ wrSafe = 1 /\ wrCall = [c \in WrCall |-> "none"]
      /\ wrBatch = <<>> /\ wrSync = FALSE /\ wrPhase = "recv" /\ wrDrained = {}
  BY DEF WriterInit
<1> HIDE DEF first
<1>2. wrCommits \in Seq({first}) /\ Len(wrCommits) = 1 BY <1>1
<1>3. IsSequence(wrCommits) BY <1>2 DEF IsSequence
<1>3a. wrSafe \in 1..Len(wrCommits) BY <1>1, <1>2
<1>3b. Kept BY <1>1, <1>3, <1>3a DEF Kept
<1>4. Holds BY <1>1 DEF Holds
<1>5. WriterSyncIsSafe BY <1>1, WrAssumption DEF WriterSyncIsSafe
<1> QED BY <1>3b, <1>4, <1>5 DEF SyncInv

(* A commit of jobs under sync_now is on the platter with all before it.   *)
LEMMA CommitKeeps ==
  ASSUME Kept, NEW jobs \in Seq(WrCall), Committed(jobs),
         NEW c, (wrCall[c] = "ok" /\ \E n \in 1..wrSafe : c \in wrCommits[n].calls)
                \/ (wrSync /\ \E j \in 1..Len(jobs) : jobs[j] = c)
  PROVE  \E n \in 1..wrSafe' : c \in wrCommits'[n].calls
<1> USE DEF Kept, Committed, Full
<1> DEFINE new == [rows |-> InTransaction(jobs), calls |-> {jobs[j] : j \in DOMAIN jobs}]
<1>0. new.calls = {jobs[j] : j \in DOMAIN jobs} OBVIOUS
<1> HIDE DEF new
<1>1. wrCommits' = Append(wrCommits, new) BY DEF new
<1>2. /\ \A i \in 1..Len(wrCommits) : wrCommits'[i] = wrCommits[i]
      /\ wrCommits'[Len(wrCommits) + 1] = new /\ Len(wrCommits) \in Nat
  BY <1>1, Appended
<1>3. CASE wrCall[c] = "ok" /\ \E n \in 1..wrSafe : c \in wrCommits[n].calls
  <2>1. PICK n \in 1..wrSafe : c \in wrCommits[n].calls BY <1>3
  <2>2. n \in 1..wrSafe' /\ n \in 1..Len(wrCommits) BY <1>2
  <2> QED BY <1>2, <2>1, <2>2
<1>4. CASE wrSync /\ \E j \in 1..Len(jobs) : jobs[j] = c
  <2>1. wrSafe' = Len(wrCommits) + 1 BY <1>4
  <2>2. c \in new.calls BY <1>0, <1>4
  <2> QED BY <1>2, <2>1, <2>2
<1> QED BY <1>3, <1>4

LEMMA CommitTypes ==
  ASSUME Kept, NEW jobs, Committed(jobs)
  PROVE  IsSequence(wrCommits') /\ wrSafe' \in 1..Len(wrCommits')
<1> DEFINE new == [rows |-> InTransaction(jobs), calls |-> {jobs[j] : j \in DOMAIN jobs}]
<1>1. wrCommits' = Append(wrCommits, new) BY DEF Committed
<1> HIDE DEF new
<1>2. IsSequence(wrCommits') /\ Len(wrCommits') = Len(wrCommits) + 1 /\ Len(wrCommits) \in Nat
  BY <1>1, Appended DEF Kept
<1> QED BY <1>2 DEF Kept, Committed

(* A step that leaves the disk alone and answers nothing with ok.          *)
LEMMA DiskAlone ==
  ASSUME SyncInv, UNCHANGED wrCommits, wrSafe' \in wrSafe..Len(wrCommits), wrDrained \subseteq wrDrained',
         wrCall' \in [WrCall -> {"none", "waits", "sent", "ok", "error", "closed", "lost"}],
         \A c \in WrCall : wrCall'[c] = "ok" => wrCall[c] = "ok"
  PROVE  WriterSyncIsSafe' /\ wrSafe' \in 1..Len(wrCommits')
<1>1. Len(wrCommits) \in Nat
  <2>1. PICK S : wrCommits \in Seq(S) BY DEF SyncInv, Kept, IsSequence
  <2> QED BY <2>1
<1>2. 1..wrSafe \subseteq 1..wrSafe' BY <1>1 DEF SyncInv, Kept
<1> QED BY <1>1, <1>2, WrAssumption DEF SyncInv, Kept, WriterSyncIsSafe

----------------------------------------------------------------------------
(* The steps that touch neither the batch nor the disk.                    *)
LEMMA AsideKeeps ==
  ASSUME SyncInv, UNCHANGED <<wrBatch, wrSync, wrDisk, wrDrained>>,
         wrPhase' \in {"recv", "extend", "drain", "commit", "replay", "after", "gone"},
         wrPhase' \in {"recv", "after", "gone"} => wrBatch = <<>>,
         wrCall' \in [WrCall -> {"none", "waits", "sent", "ok", "error", "closed", "lost"}],
         \A c \in WrCall : wrCall'[c] = "ok" => wrCall[c] = "ok"
  PROVE  SyncInv'
<1>1. UNCHANGED <<wrCommits, wrSafe>> BY DEF wrDisk
<1>2. wrSafe' \in wrSafe..Len(wrCommits) BY <1>1 DEF SyncInv, Kept
<1>3. WriterSyncIsSafe' /\ wrSafe' \in 1..Len(wrCommits') BY <1>1, <1>2, DiskAlone
<1>4. Holds' BY DEF SyncInv, Holds
<1>5. Kept' BY <1>1, <1>3 DEF SyncInv, Kept
<1> QED BY <1>3, <1>4, <1>5 DEF SyncInv

LEMMA CallersKeep ==
  ASSUME SyncInv,
         (\E c \in WrCall : Write(c)) \/ Permit \/ AskCheckpoint \/ AskClose \/ UNCHANGED wrVars
  PROVE  SyncInv'
<1> USE DEF SyncInv, Kept
<1>1. ASSUME NEW c \in WrCall, Write(c) PROVE SyncInv'
  <2>1. /\ UNCHANGED <<wrBatch, wrSync, wrDisk, wrDrained, wrPhase>>
        /\ wrCall' = [wrCall EXCEPT ![c] = "waits"]
    BY <1>1 DEF Write, wrHistory
  <2> QED BY <2>1, AsideKeeps DEF Holds
<1>2. CASE Permit
  <2>1. /\ UNCHANGED <<wrBatch, wrSync, wrDisk, wrDrained, wrPhase>>
        /\ \/ wrCall' = [wrCall EXCEPT ![Head(wrWaits)] = "closed"]
           \/ wrCall' = [wrCall EXCEPT ![Head(wrWaits)] = "sent"]
    BY <1>2 DEF Permit, wrHistory
  <2> QED BY <2>1, AsideKeeps DEF Holds
<1>3. CASE AskCheckpoint \/ AskClose \/ UNCHANGED wrVars
  <2>1. UNCHANGED <<wrBatch, wrSync, wrDisk, wrDrained, wrPhase, wrCall>>
    BY <1>3 DEF AskCheckpoint, AskClose, wrVars, wrOut, wrHistory
  <2> QED BY <2>1, AsideKeeps DEF Holds
<1> QED BY <1>1, <1>2, <1>3

(* The three ways a message is taken.                                      *)
LEMMA TakesKeeps ==
  ASSUME SyncInv, NEW m, NEW sync \in BOOLEAN, NEW phase, Takes(m, sync, phase),
         phase \in {"extend", "drain", "commit"},
         wrDrained \subseteq wrDrained', wrSync => sync,
         m \in WrSyncs \ wrDrained' => sync
  PROVE  SyncInv'
<1>1. /\ UNCHANGED <<wrCall, wrCommits, wrSafe>> /\ wrPhase' = phase
      /\ IF m \in WrCall THEN wrBatch' = Append(wrBatch, m) /\ wrSync' = sync
         ELSE UNCHANGED <<wrBatch, wrSync>>
  BY DEF Takes, wrOut, wrDisk
<1>2. wrSafe' \in wrSafe..Len(wrCommits) BY <1>1 DEF SyncInv, Kept
<1>3. WriterSyncIsSafe' /\ wrSafe' \in 1..Len(wrCommits')
  BY <1>1, <1>2, DiskAlone DEF SyncInv, Kept
<1>4. Kept' BY <1>1, <1>3 DEF SyncInv, Kept
<1>5. Holds'
  <2>1. CASE m \in WrCall
    <3>1. wrBatch' = Append(wrBatch, m) /\ wrSync' = sync BY <1>1, <2>1
    <3>2. wrBatch \in Seq(WrCall) BY DEF SyncInv, Holds
    <3>3. /\ wrBatch' \in Seq(WrCall) /\ Len(wrBatch) \in Nat /\ Len(wrBatch') = Len(wrBatch) + 1
          /\ wrBatch'[Len(wrBatch) + 1] = m
          /\ \A j \in 1..Len(wrBatch) : wrBatch'[j] = wrBatch[j]
      BY <2>1, <3>1, <3>2
    <3>4. \A j \in 1..Len(wrBatch') : j \in 1..Len(wrBatch) \/ j = Len(wrBatch) + 1 BY <3>3
    <3>5. \A j \in 1..Len(wrBatch') : wrBatch'[j] \in WrSyncs \ wrDrained' => wrSync'
      BY <3>1, <3>3, <3>4 DEF SyncInv, Holds
    <3> QED BY <1>1, <3>3, <3>5 DEF Holds
  <2>2. CASE m \notin WrCall BY <1>1, <2>2 DEF SyncInv, Holds
  <2> QED BY <2>1, <2>2
<1> QED BY <1>3, <1>4, <1>5 DEF SyncInv

LEMMA GathersKeep ==
  ASSUME SyncInv, Recv \/ Extend \/ WindowEnds \/ Drain \/ Drained \/ Replayed
  PROVE  SyncInv'
<1>0. wrSync \in BOOLEAN BY DEF SyncInv, Kept
<1>1. CASE Recv
  <2> DEFINE m == Head(wrChan)
  <2>1. Takes(m, m \in WrSyncs, IF m # "close" /\ WrWindow THEN "extend" ELSE "drain") /\ UNCHANGED wrDrained
    BY <1>1 DEF Recv
  <2>2. wrPhase = "recv" BY <1>1 DEF Recv
  <2>3. CASE m \in WrSyncs
    <3>1. Takes(m, TRUE, IF m # "close" /\ WrWindow THEN "extend" ELSE "drain") BY <2>1, <2>3
    <3> QED BY <2>1, <3>1, TakesKeeps
  <2>4. CASE m \notin WrSyncs
    <3>1. /\ UNCHANGED <<wrCall, wrCommits, wrSafe>> /\ wrPhase' \in {"extend", "drain"}
          /\ IF m \in WrCall THEN wrBatch' = Append(wrBatch, m) /\ wrSync' = FALSE
             ELSE UNCHANGED <<wrBatch, wrSync>>
      <4> DEFINE sync == m \in WrSyncs
      <4>1. sync = FALSE BY <2>4
      <4> HIDE DEF m
      <4>2. /\ UNCHANGED <<wrCall, wrCommits, wrSafe>> /\ wrPhase' \in {"extend", "drain"}
            /\ IF m \in WrCall THEN wrBatch' = Append(wrBatch, m) /\ wrSync' = sync
               ELSE UNCHANGED <<wrBatch, wrSync>>
        BY <2>1 DEF Takes, wrOut, wrDisk
      <4> HIDE DEF sync
      <4> QED BY <4>1, <4>2
    <3>2. wrBatch = <<>> BY <2>2 DEF SyncInv, Holds
    <3>3. wrSafe' \in wrSafe..Len(wrCommits) BY <3>1 DEF SyncInv, Kept
    <3>4. WriterSyncIsSafe' /\ wrSafe' \in 1..Len(wrCommits')
      BY <2>1, <3>1, <3>3, DiskAlone DEF SyncInv, Kept
    <3>5. Kept' BY <3>1, <3>4 DEF SyncInv, Kept
    <3>6. Holds'
      <4>1. CASE m \in WrCall
        <5>1. wrBatch' = <<m>> BY <3>1, <3>2, <4>1
        <5> QED BY <2>4, <3>1, <4>1, <5>1 DEF Holds
      <4>2. CASE m \notin WrCall BY <3>1, <3>2, <4>2 DEF Holds
      <4> QED BY <4>1, <4>2
    <3> QED BY <3>4, <3>5, <3>6 DEF SyncInv
  <2> QED BY <2>3, <2>4
<1>2. CASE Extend
  <2> DEFINE m == Head(wrChan)
  <2>1. Takes(m, ExtendSync(m), IF m \in WrCall THEN "extend" ELSE "drain") /\ UNCHANGED wrDrained
    BY <1>2 DEF Extend
  <2>2. /\ ExtendSync(m) \in BOOLEAN
        /\ wrSync => ExtendSync(m)
        /\ m \in WrSyncs => ExtendSync(m)
    BY <1>0 DEF ExtendSync
  <2> DEFINE sync == ExtendSync(m)
             phase == IF m \in WrCall THEN "extend" ELSE "drain"
  <2>3. phase \in {"extend", "drain", "commit"} OBVIOUS
  <2>4. sync \in BOOLEAN /\ (wrSync => sync) /\ (m \in WrSyncs \ wrDrained' => sync) BY <2>2
  <2> HIDE DEF m, sync, phase
  <2>5. Takes(m, sync, phase) BY <2>1 DEF m, sync, phase
  <2> QED BY <2>1, <2>3, <2>4, <2>5, TakesKeeps
<1>3. CASE Drain
  <2> DEFINE m == Head(wrChan)
  <2>1. /\ Takes(m, wrSync, IF m \in WrCall THEN "drain" ELSE "commit")
        /\ wrDrained' = wrDrained \cup ({m} \cap WrSyncs)
    BY <1>3 DEF Drain
  <2> QED BY <1>0, <2>1, TakesKeeps
<1>4. CASE WindowEnds \/ Drained \/ Replayed
  <2>1. /\ UNCHANGED <<wrBatch, wrSync, wrDisk, wrDrained, wrCall>>
        /\ \/ wrPhase' \in {"drain", "commit"}
           \/ wrPhase' = "after" /\ wrBatch = <<>>
    BY <1>4 DEF WindowEnds, Drained, Replayed, wrOut, wrHistory
  <2> QED BY <2>1, AsideKeeps DEF SyncInv, Kept
<1> QED BY <1>1, <1>2, <1>3, <1>4

----------------------------------------------------------------------------
LEMMA CommitStep ==
  ASSUME SyncInv, NEW ok \in BOOLEAN, Commit(ok)
  PROVE  SyncInv'
<1>1. UNCHANGED <<wrSync, wrDrained>> /\ wrPhase' \in {"after", "replay"}
  BY DEF Commit, wrHistory
<1>2. CASE UNCHANGED <<wrDisk, wrBatch, wrCall>> /\ (wrPhase' = "after" => wrBatch = <<>>)
  BY <1>1, <1>2, AsideKeeps DEF SyncInv, Kept
<1>3. CASE /\ Committed(wrBatch) /\ wrBatch' = <<>>
           /\ wrCall' = [c \in WrCall |-> IF \E j \in DOMAIN wrBatch : wrBatch[j] = c THEN "ok" ELSE wrCall[c]]
  <2>1. wrBatch \in Seq(WrCall) /\ DOMAIN wrBatch = 1..Len(wrBatch) BY DEF SyncInv, Holds
  <2>2. Kept BY DEF SyncInv
  <2>3. IsSequence(wrCommits') /\ wrSafe' \in 1..Len(wrCommits') BY <1>3, <2>2, CommitTypes
  <2>4. Kept'
    <3>1. wrCall' \in [WrCall -> {"none", "waits", "sent", "ok", "error", "closed", "lost"}]
      BY <1>3, <2>2 DEF Kept
    <3> QED BY <1>1, <2>2, <2>3, <3>1 DEF Kept
  <2>5. Holds' BY <1>3 DEF Holds
  <2>6. ASSUME NEW c \in WrSyncs \ wrDrained', wrCall'[c] = "ok"
        PROVE  \E n \in 1..wrSafe' : c \in wrCommits'[n].calls
    <3>1. c \in WrCall /\ c \in WrSyncs \ wrDrained BY <1>1, <2>6, WrAssumption
    <3>2. CASE \E j \in DOMAIN wrBatch : wrBatch[j] = c
      <4>1. wrSync /\ \E j \in 1..Len(wrBatch) : wrBatch[j] = c
        BY <2>1, <3>1, <3>2 DEF SyncInv, Holds
      <4> QED BY <1>3, <2>1, <2>2, <4>1, CommitKeeps
    <3>3. CASE ~\E j \in DOMAIN wrBatch : wrBatch[j] = c
      <4>1. wrCall[c] = "ok" BY <1>3, <2>6, <3>1, <3>3
      <4>2. \E n \in 1..wrSafe : c \in wrCommits[n].calls
        BY <3>1, <4>1 DEF SyncInv, WriterSyncIsSafe
      <4> QED BY <1>3, <2>1, <2>2, <4>1, <4>2, CommitKeeps
    <3> QED BY <3>2, <3>3
  <2>7. WriterSyncIsSafe' BY <2>6 DEF WriterSyncIsSafe
  <2> QED BY <2>4, <2>5, <2>7 DEF SyncInv
<1> QED BY <1>2, <1>3 DEF Commit

LEMMA ReplayStep ==
  ASSUME SyncInv, NEW ok \in BOOLEAN, Replay(ok)
  PROVE  SyncInv'
<1> DEFINE job == wrBatch[1]
<1>1. Kept /\ wrBatch \in Seq(WrCall) /\ wrBatch # <<>> /\ wrPhase = "replay"
  BY DEF SyncInv, Holds, Replay
<1>2. Len(wrBatch) \in Nat \ {0} /\ job \in WrCall /\ <<job>> \in Seq(WrCall) /\ Len(<<job>>) = 1 /\ <<job>>[1] = job
  BY <1>1
<1>3. /\ wrBatch' = [j \in 1..(Len(wrBatch) - 1) |-> wrBatch[j + 1]]
      /\ UNCHANGED <<wrSync, wrDrained, wrPhase>>
  <2>1. /\ wrBatch' = [j \in 1..(Len(wrBatch) - 1) |-> IF j < 1 THEN wrBatch[j] ELSE wrBatch[j + 1]]
        /\ UNCHANGED <<wrSync, wrDrained, wrPhase>>
    BY DEF Replay, NextJob
  <2> QED BY <1>2, <2>1
<1>4. \/ Committed(<<job>>) /\ wrCall' = [wrCall EXCEPT ![job] = "ok"]
      \/ UNCHANGED <<wrCommits, wrSafe>> /\ wrCall' = [wrCall EXCEPT ![job] = "error"]
  BY DEF Replay, NextJob, wrDisk
<1>5. wrCall' \in [WrCall -> {"none", "waits", "sent", "ok", "error", "closed", "lost"}]
  BY <1>1, <1>2, <1>4 DEF Kept
<1>6. Holds'
  <2>1. /\ wrBatch' \in Seq(WrCall) /\ Len(wrBatch') = Len(wrBatch) - 1
        /\ \A j \in 1..Len(wrBatch') : wrBatch'[j] = wrBatch[j + 1] /\ j + 1 \in 1..Len(wrBatch)
    BY <1>1, <1>2, <1>3
  <2>2. \A j \in 1..Len(wrBatch') : wrBatch'[j] \in WrSyncs \ wrDrained' => wrSync'
    BY <1>3, <2>1 DEF SyncInv, Holds
  <2> QED BY <1>1, <1>3, <2>1, <2>2 DEF Holds
<1>7. CASE UNCHANGED <<wrCommits, wrSafe>> /\ wrCall' = [wrCall EXCEPT ![job] = "error"]
  <2>1. wrSafe' \in wrSafe..Len(wrCommits) BY <1>1, <1>7 DEF Kept
  <2>2. \A c \in WrCall : wrCall'[c] = "ok" => wrCall[c] = "ok" BY <1>1, <1>2, <1>7 DEF Kept
  <2>3. WriterSyncIsSafe' /\ wrSafe' \in 1..Len(wrCommits')
    BY <1>3, <1>5, <1>7, <2>1, <2>2, DiskAlone
  <2>4. Kept' BY <1>1, <1>3, <1>5, <1>7, <2>3 DEF Kept
  <2> QED BY <1>6, <2>3, <2>4 DEF SyncInv
<1>8. CASE Committed(<<job>>) /\ wrCall' = [wrCall EXCEPT ![job] = "ok"]
  <2>1. IsSequence(wrCommits') /\ wrSafe' \in 1..Len(wrCommits') BY <1>1, <1>8, CommitTypes
  <2>2. Kept' BY <1>1, <1>3, <1>5, <2>1 DEF Kept
  <2>3. ASSUME NEW c \in WrSyncs \ wrDrained', wrCall'[c] = "ok"
        PROVE  \E n \in 1..wrSafe' : c \in wrCommits'[n].calls
    <3>1. c \in WrCall /\ c \in WrSyncs \ wrDrained BY <1>3, <2>3, WrAssumption
    <3>2. CASE c = job
      <4>1. wrSync BY <1>2, <3>1, <3>2 DEF SyncInv, Holds
      <4>2. \E j \in 1..Len(<<job>>) : <<job>>[j] = c BY <1>2, <3>2
      <4> HIDE DEF job
      <4> QED BY <1>1, <1>2, <1>8, <4>1, <4>2, CommitKeeps
    <3>3. CASE c # job
      <4>1. wrCall[c] = "ok" BY <1>1, <1>2, <1>8, <2>3, <3>1, <3>3 DEF Kept
      <4>2. \E n \in 1..wrSafe : c \in wrCommits[n].calls
        BY <3>1, <4>1 DEF SyncInv, WriterSyncIsSafe
      <4> HIDE DEF job
      <4> QED BY <1>1, <1>2, <1>8, <4>1, <4>2, CommitKeeps
    <3> QED BY <3>2, <3>3
  <2>4. WriterSyncIsSafe' BY <2>3 DEF WriterSyncIsSafe
  <2> QED BY <1>6, <2>2, <2>4 DEF SyncInv
<1> QED BY <1>4, <1>7, <1>8

LEMMA EndOfBatchStep ==
  ASSUME SyncInv, NEW ok \in BOOLEAN, EndOfBatch(ok)
  PROVE  SyncInv'
<1>1. /\ wrPhase = "after" /\ wrPhase' \in {"recv", "gone"} /\ wrSync' = FALSE
      /\ UNCHANGED <<wrBatch, wrCommits, wrDrained>>
      /\ wrSafe' = Len(wrCommits) \/ wrSafe' = wrSafe
      /\ wrCall' = wrCall \/ wrCall' = [c \in WrCall |-> IF wrCall[c] = "sent" THEN "closed" ELSE wrCall[c]]
  BY DEF EndOfBatch, wrHistory
<1>2. Len(wrCommits) \in Nat
  <2>1. PICK S : wrCommits \in Seq(S) BY DEF SyncInv, Kept, IsSequence
  <2> QED BY <2>1
<1>3. wrSafe' \in wrSafe..Len(wrCommits) BY <1>1, <1>2 DEF SyncInv, Kept
<1>4. /\ wrCall' \in [WrCall -> {"none", "waits", "sent", "ok", "error", "closed", "lost"}]
      /\ \A c \in WrCall : wrCall'[c] = "ok" => wrCall[c] = "ok"
  BY <1>1 DEF SyncInv, Kept
<1>5. WriterSyncIsSafe' /\ wrSafe' \in 1..Len(wrCommits') BY <1>1, <1>3, <1>4, DiskAlone
<1>6. wrBatch = <<>> BY <1>1 DEF SyncInv, Holds
<1>7. Holds' BY <1>1, <1>6 DEF Holds
<1>8. Kept' BY <1>1, <1>4, <1>5 DEF SyncInv, Kept
<1> QED BY <1>5, <1>7, <1>8 DEF SyncInv

(* Whatever commits are lost with the machine, those that are safe stay.   *)
LEMMA KilledStep ==
  ASSUME SyncInv, NEW n \in wrSafe..Len(wrCommits), Killed(n)
  PROVE  SyncInv'
<1>1. /\ wrCommits' = SubSeq(wrCommits, 1, n) /\ wrSafe' = IF n < Len(wrCommits) THEN n ELSE wrSafe
      /\ wrCall' = [c \in WrCall |-> IF wrCall[c] \in {"waits", "sent"} THEN "lost" ELSE wrCall[c]]
      /\ wrBatch' = <<>> /\ wrPhase' = "recv" /\ wrSync' = FALSE /\ UNCHANGED wrDrained
  BY DEF Killed, wrHistory
<1>2. Kept /\ IsSequence(wrCommits) /\ wrSafe \in 1..Len(wrCommits) BY DEF SyncInv, Kept
<1>3. Len(wrCommits) \in Nat
  <2>1. PICK S : wrCommits \in Seq(S) BY <1>2 DEF IsSequence
  <2> QED BY <2>1
<1>4. n \in 1..Len(wrCommits) /\ wrSafe <= n BY <1>2, <1>3
<1>5. /\ IsSequence(wrCommits') /\ Len(wrCommits') = n
      /\ \A i \in 1..n : wrCommits'[i] = wrCommits[i]
  BY <1>1, <1>2, <1>4, CutAt
<1>6. wrSafe' \in wrSafe..n /\ wrSafe' \in 1..Len(wrCommits') BY <1>1, <1>2, <1>3, <1>4, <1>5
<1>7. /\ wrCall' \in [WrCall -> {"none", "waits", "sent", "ok", "error", "closed", "lost"}]
      /\ \A c \in WrCall : wrCall'[c] = "ok" => wrCall[c] = "ok"
  BY <1>1, <1>2 DEF Kept
<1>8. Kept' BY <1>1, <1>5, <1>6, <1>7 DEF Kept
<1>9. Holds' BY <1>1 DEF Holds
<1>10. ASSUME NEW c \in WrSyncs \ wrDrained', wrCall'[c] = "ok"
       PROVE  \E i \in 1..wrSafe' : c \in wrCommits'[i].calls
  <2>1. c \in WrCall /\ c \in WrSyncs \ wrDrained BY <1>1, <1>10, WrAssumption
  <2>2. wrCall[c] = "ok" BY <1>7, <1>10, <2>1
  <2>3. PICK i \in 1..wrSafe : c \in wrCommits[i].calls
    BY <2>1, <2>2 DEF SyncInv, WriterSyncIsSafe
  <2>4. i \in 1..wrSafe' /\ i \in 1..n BY <1>2, <1>3, <1>4, <1>6
  <2> QED BY <1>5, <2>3, <2>4
<1>11. WriterSyncIsSafe' BY <1>10 DEF WriterSyncIsSafe
<1> QED BY <1>8, <1>9, <1>11 DEF SyncInv

----------------------------------------------------------------------------
LEMMA SyncKeeps == SyncInv /\ [WriterNext]_wrVars => SyncInv'
<1> SUFFICES ASSUME SyncInv, [WriterNext]_wrVars PROVE SyncInv' OBVIOUS
<1>1. CASE (\E c \in WrCall : Write(c)) \/ Permit \/ AskCheckpoint \/ AskClose \/ UNCHANGED wrVars
  BY <1>1, CallersKeep
<1>2. CASE ThreadStep
  <2>1. CASE Recv \/ Extend \/ WindowEnds \/ Drain \/ Drained \/ Replayed BY <2>1, GathersKeep
  <2>2. ASSUME NEW ok \in BOOLEAN, Commit(ok) \/ Replay(ok) \/ EndOfBatch(ok) PROVE SyncInv'
    BY <2>2, CommitStep, ReplayStep, EndOfBatchStep
  <2> QED BY <1>2, <2>1, <2>2 DEF ThreadStep
<1>3. ASSUME NEW n \in wrSafe..Len(wrCommits), Killed(n) PROVE SyncInv'
  BY <1>3, KilledStep
<1> QED BY <1>1, <1>2, <1>3 DEF WriterNext

(* A Sync write that was answered and was not drained is on the platter,   *)
(* for any number of callers, permits, faults and any batch size: no       *)
(* batch, failed batch, replay, checkpoint, close or power loss undoes it. *)
THEOREM SyncIsSafe == WriterSpec => []WriterSyncIsSafe
<1>1. WriterInit => SyncInv BY SyncStarts
<1>2. SyncInv /\ [WriterNext]_wrVars => SyncInv' BY SyncKeeps
<1>3. SyncInv => WriterSyncIsSafe BY DEF SyncInv
<1> QED BY <1>1, <1>2, <1>3, PTL DEF WriterSpec

-----------------------------------------------------------------------------
(* The writer as the table its callers see.                                *)

Controls == {"close", "checkpoint"}
Pend  == wrBatch \o Sans(wrChan, Controls)
Held(s) == {s[j] : j \in DOMAIN s}

(* The strengthening of WriterIsTable: a call that was sent is in the      *)
(* batch or in the channel, and nothing else is; a call that waits for its *)
(* permit is in that queue; a thread that is gone leaves no call behind;   *)
(* and every commit left rows.                                             *)
QueuesTyped ==
  /\ wrWaits \in Seq(WrCall) /\ wrChan \in Seq(WrCall \cup Controls) /\ wrBatch \in Seq(WrCall)
  /\ wrRefused \in Nat
SentOnce ==
  /\ Once(Pend) /\ Held(Pend) = {c \in WrCall : wrCall[c] = "sent"}
  /\ Once(wrWaits) /\ Held(wrWaits) = {c \in WrCall : wrCall[c] = "waits"}
  /\ wrPhase = "gone" => Pend = <<>>
RowsLeft == \A n \in 1..Len(wrCommits) : wrCommits[n].rows # T!Error

TableInv == SyncInv /\ QueuesTyped /\ SentOnce /\ RowsLeft
(* The rows after the first jobs of a transaction, and what the table      *)
(* makes of the same calls.                                                *)
Transacted(f, jobs, m) ==
  f = [k \in 0..m |-> IF k = 0 THEN wrCommits[Len(wrCommits)].rows
                      ELSE IF f[k - 1] = T!Error THEN T!Error ELSE T!Written(f[k - 1], jobs[k])]
Taken(f, rows, jobs, refused, m) ==
  f = [k \in 0..m |-> IF k = 0 THEN rows
                      ELSE IF T!Takes(f[k - 1], jobs[k], refused) THEN T!Written(f[k - 1], jobs[k]) ELSE f[k - 1]]

LEMMA TransactionRuns ==
  ASSUME NEW S, NEW jobs \in Seq(S)
  PROVE  \E f : Transacted(f, jobs, Len(jobs)) /\ InTransaction(jobs) = f[Len(jobs)]
<1> DEFINE n == Len(jobs)
           R(f, m) == Transacted(f, jobs, m)
           Good == {m \in 0..n : \E g : R(g, m)}
<1>1. n \in Nat
  OBVIOUS
<1>2. 0 \in Good
  <2> DEFINE g == [k \in 0..0 |-> wrCommits[Len(wrCommits)].rows]
  <2>1. R(g, 0)
    BY DEF Transacted
  <2> HIDE DEF g, R
  <2>2. \E x : R(x, 0)
    BY <2>1
  <2> QED BY <1>1, <2>2
<1>3. ASSUME NEW m \in 1..n, m - 1 \in Good PROVE m \in Good
  <2>1. PICK g : R(g, m - 1)
    BY <1>3
  <2> DEFINE last == IF g[m - 1] = T!Error THEN T!Error ELSE T!Written(g[m - 1], jobs[m])
             h == [j \in 0..m |-> IF j = m THEN last ELSE g[j]]
  <2> HIDE DEF last
  <2>2. ASSUME NEW j \in 0..m PROVE h[j] = IF j = 0 THEN wrCommits[Len(wrCommits)].rows ELSE IF h[j - 1] = T!Error THEN T!Error ELSE T!Written(h[j - 1], jobs[j])
    <3>1. CASE j = 0
      BY <1>1, <2>1, <3>1 DEF Transacted
    <3>2. CASE j = m
      <4>1. j # 0 /\ h[j - 1] = g[m - 1] /\ h[j] = last
        BY <1>1, <3>2
      <4> QED BY <3>2, <4>1 DEF last
    <3>3. CASE j # 0 /\ j # m
      <4>1. j \in 0..(m - 1) /\ j - 1 \in 0..(m - 1)
        BY <1>1, <3>3
      <4>2. g[j] = IF g[j - 1] = T!Error THEN T!Error ELSE T!Written(g[j - 1], jobs[j])
        BY <2>1, <3>3, <4>1 DEF Transacted
      <4> QED BY <3>3, <4>1, <4>2
    <3> QED BY <3>1, <3>2, <3>3
  <2>3. R(h, m)
    BY <2>2 DEF Transacted
  <2> HIDE DEF h, R
  <2>4. \E x : R(x, m)
    BY <2>3
  <2> QED BY <1>1, <2>4
<1> HIDE DEF Good
<1>4. \A k \in 0..n : k \in Good
  BY <1>1, <1>2, <1>3, UpTo
<1>5. \E g : R(g, n)
  BY <1>1, <1>4 DEF Good
<1>6. PICK f : f = CHOOSE g : R(g, n)
  OBVIOUS
<1>7. R(f, n)
  BY <1>5, <1>6
<1>8. InTransaction(jobs) = f[Len(jobs)]
  BY <1>6 DEF InTransaction, Transacted
<1> QED BY <1>7, <1>8

LEMMA TableRuns ==
  ASSUME NEW S, NEW jobs \in Seq(S), NEW rows, NEW refused
  PROVE  \E f : Taken(f, rows, jobs, refused, Len(jobs)) /\ T!After(rows, jobs, refused) = f
<1> DEFINE n == Len(jobs)
           R(f, m) == Taken(f, rows, jobs, refused, m)
           Good == {m \in 0..n : \E g : R(g, m)}
<1>1. n \in Nat
  OBVIOUS
<1>2. 0 \in Good
  <2> DEFINE g == [k \in 0..0 |-> rows]
  <2>1. R(g, 0)
    BY DEF Taken
  <2> HIDE DEF g, R
  <2>2. \E x : R(x, 0)
    BY <2>1
  <2> QED BY <1>1, <2>2
<1>3. ASSUME NEW m \in 1..n, m - 1 \in Good PROVE m \in Good
  <2>1. PICK g : R(g, m - 1)
    BY <1>3
  <2> DEFINE last == IF T!Takes(g[m - 1], jobs[m], refused) THEN T!Written(g[m - 1], jobs[m]) ELSE g[m - 1]
             h == [j \in 0..m |-> IF j = m THEN last ELSE g[j]]
  <2> HIDE DEF last
  <2>2. ASSUME NEW j \in 0..m PROVE h[j] = IF j = 0 THEN rows ELSE IF T!Takes(h[j - 1], jobs[j], refused) THEN T!Written(h[j - 1], jobs[j]) ELSE h[j - 1]
    <3>1. CASE j = 0
      BY <1>1, <2>1, <3>1 DEF Taken
    <3>2. CASE j = m
      <4>1. j # 0 /\ h[j - 1] = g[m - 1] /\ h[j] = last
        BY <1>1, <3>2
      <4> QED BY <3>2, <4>1 DEF last
    <3>3. CASE j # 0 /\ j # m
      <4>1. j \in 0..(m - 1) /\ j - 1 \in 0..(m - 1)
        BY <1>1, <3>3
      <4>2. g[j] = IF T!Takes(g[j - 1], jobs[j], refused) THEN T!Written(g[j - 1], jobs[j]) ELSE g[j - 1]
        BY <2>1, <3>3, <4>1 DEF Taken
      <4> QED BY <3>3, <4>1, <4>2
    <3> QED BY <3>1, <3>2, <3>3
  <2>3. R(h, m)
    BY <2>2 DEF Taken
  <2> HIDE DEF h, R
  <2>4. \E x : R(x, m)
    BY <2>3
  <2> QED BY <1>1, <2>4
<1> HIDE DEF Good
<1>4. \A k \in 0..n : k \in Good
  BY <1>1, <1>2, <1>3, UpTo
<1>5. \E g : R(g, n)
  BY <1>1, <1>4 DEF Good
<1>6. PICK f : f = CHOOSE g : R(g, n)
  OBVIOUS
<1>7. R(f, n)
  BY <1>5, <1>6
<1>8. T!After(rows, jobs, refused) = f
  BY <1>6 DEF T!After, Taken
<1> QED BY <1>7, <1>8
(* A transaction that works is one in which the table takes every call.    *)
LEMMA AllTaken ==
  ASSUME NEW S, NEW jobs \in Seq(S), NEW rows, rows = wrCommits[Len(wrCommits)].rows, InTransaction(jobs) # T!Error
  PROVE  /\ \A n \in 1..Len(jobs) : T!Takes(T!After(rows, jobs, {})[n - 1], jobs[n], {})
         /\ T!After(rows, jobs, {})[Len(jobs)] = InTransaction(jobs)
<1> DEFINE n == Len(jobs)
           f == T!After(rows, jobs, {})
<1>1. n \in Nat
  OBVIOUS
<1>2. PICK g : Transacted(g, jobs, n) /\ InTransaction(jobs) = g[n]
  BY TransactionRuns
<1>3. Taken(f, rows, jobs, {}, n)
  BY TableRuns
<1> HIDE DEF f
<1>4. ASSUME NEW j \in 0..n, g[j] = T!Error PROVE FALSE
  <2> DEFINE Good == {k \in 0..n : k >= j => g[k] = T!Error}
  <2>1. 0 \in Good
    BY <1>1, <1>4
  <2>2. ASSUME NEW k \in 1..n, k - 1 \in Good PROVE k \in Good
    <3>1. CASE k <= j
      BY <1>1, <1>4, <3>1
    <3>2. CASE k > j
      <4>1. g[k - 1] = T!Error /\ k \in 0..n /\ k # 0
        BY <1>1, <1>4, <2>2, <3>2
      <4>2. g[k] = T!Error
        BY <1>2, <4>1 DEF Transacted
      <4> QED BY <4>1, <4>2
    <3> QED BY <1>1, <1>4, <3>1, <3>2
  <2> HIDE DEF Good
  <2>3. \A k \in 0..n : k \in Good
    BY <1>1, <2>1, <2>2, UpTo
  <2>4. g[n] = T!Error
    BY <1>1, <1>4, <2>3 DEF Good
  <2> QED BY <1>2, <2>4
<1> DEFINE Same == {k \in 0..n : f[k] = g[k]}
<1>5. 0 \in Same
  BY <1>1, <1>2, <1>3 DEF Transacted, Taken
<1>6. ASSUME NEW k \in 1..n, f[k - 1] = g[k - 1] PROVE T!Takes(f[k - 1], jobs[k], {}) /\ f[k] = g[k]
  <2>1. k \in 0..n /\ k # 0 /\ k - 1 \in 0..n
    BY <1>1
  <2>2. g[k] = T!Written(g[k - 1], jobs[k]) /\ g[k] # T!Error
    BY <1>2, <1>4, <2>1 DEF Transacted
  <2>3. T!Takes(f[k - 1], jobs[k], {})
    BY <1>6, <2>2 DEF T!Takes, T!Error
  <2>4. f[k] = T!Written(f[k - 1], jobs[k])
    BY <1>3, <2>1, <2>3 DEF Taken
  <2> QED BY <1>6, <2>2, <2>3, <2>4
<1>7. ASSUME NEW k \in 1..n, k - 1 \in Same PROVE k \in Same
  BY <1>6, <1>7
<1>8. \A k \in 0..n : k \in Same
  <2> HIDE DEF Same
  <2> QED BY <1>1, <1>5, <1>7, UpTo
<1>9. \A k \in 1..n : k - 1 \in 0..n /\ k - 1 \in Same
  BY <1>1, <1>8
<1>10. n \in Same
  BY <1>1, <1>8
<1> QED BY <1>2, <1>6, <1>9, <1>10 DEF f

(* One job alone.                                                          *)
LEMMA OneTaken ==
  ASSUME NEW job, NEW rows, rows = wrCommits[Len(wrCommits)].rows, rows # T!Error, NEW refused
  PROVE  /\ InTransaction(<<job>>) = T!Written(rows, job)
         /\ T!After(rows, <<job>>, refused)[0] = rows
         /\ T!After(rows, <<job>>, refused)[1] = IF T!Takes(rows, job, refused) THEN T!Written(rows, job) ELSE rows
<1>1. <<job>> \in Seq({job}) /\ Len(<<job>>) = 1 /\ <<job>>[1] = job
  OBVIOUS
<1>2. PICK g : Transacted(g, <<job>>, 1) /\ InTransaction(<<job>>) = g[1]
  BY <1>1, TransactionRuns
<1>3. PICK f : Taken(f, rows, <<job>>, refused, 1) /\ T!After(rows, <<job>>, refused) = f
  BY <1>1, TableRuns
<1>4. 0 \in 0..1 /\ 1 \in 0..1 /\ 1 # 0 /\ 1 - 1 = 0
  OBVIOUS
<1>5. g[0] = rows /\ g[1] = IF g[1 - 1] = T!Error THEN T!Error ELSE T!Written(g[1 - 1], <<job>>[1])
  BY <1>2, <1>4 DEF Transacted
<1>6. f[0] = rows /\ f[1] = IF T!Takes(f[1 - 1], <<job>>[1], refused) THEN T!Written(f[1 - 1], <<job>>[1]) ELSE f[1 - 1]
  BY <1>3, <1>4 DEF Taken
<1> QED BY <1>1, <1>2, <1>3, <1>4, <1>5, <1>6

(* What the sequence of calls under way is after a message is taken, and   *)
(* after one is sent.                                                      *)
LEMMA MessageTaken ==
  ASSUME QueuesTyped, wrChan # <<>>
  PROVE  /\ Head(wrChan) \in WrCall \cup Controls /\ Tail(wrChan) \in Seq(WrCall \cup Controls)
         /\ Head(wrChan) \in WrCall => Append(wrBatch, Head(wrChan)) \o Sans(Tail(wrChan), Controls) = Pend
         /\ Head(wrChan) \notin WrCall => wrBatch \o Sans(Tail(wrChan), Controls) = Pend
<1>1. Head(wrChan) \in WrCall \cup Controls /\ Tail(wrChan) \in Seq(WrCall \cup Controls)
  BY DEF QueuesTyped
<1>2. PICK h : h = Head(wrChan)
  OBVIOUS
<1>3. PICK rest : rest = Sans(Tail(wrChan), Controls)
  OBVIOUS
<1>4. rest \in Seq((WrCall \cup Controls) \ Controls)
  BY <1>1, <1>3, SansSeq
<1>5. (WrCall \cup Controls) \ Controls = WrCall
  BY WrAssumption DEF Controls
<1>6. Sans(wrChan, Controls) = IF h \in Controls THEN rest ELSE <<h>> \o rest
  BY <1>2, <1>3, SansFirst DEF QueuesTyped
<1>7. h \in WrCall <=> h \notin Controls
  BY <1>1, <1>2, <1>5
<1>8. ASSUME h \in WrCall PROVE Append(wrBatch, h) \o rest = wrBatch \o (<<h>> \o rest)
  BY <1>4, <1>5, <1>8, Seam DEF QueuesTyped
<1> QED BY <1>1, <1>2, <1>3, <1>6, <1>7, <1>8 DEF Pend

LEMMA PendTyped == ASSUME QueuesTyped PROVE Pend \in Seq(WrCall) /\ Sans(wrChan, Controls) \in Seq(WrCall)
<1>1. (WrCall \cup Controls) \ Controls = WrCall
  BY WrAssumption DEF Controls
<1>2. Sans(wrChan, Controls) \in Seq((WrCall \cup Controls) \ Controls)
  BY SansSeq DEF QueuesTyped
<1> QED BY <1>1, <1>2 DEF Pend, QueuesTyped

LEMMA MessageSent ==
  ASSUME QueuesTyped, NEW m \in WrCall \cup Controls
  PROVE  /\ Append(wrChan, m) \in Seq(WrCall \cup Controls)
         /\ wrBatch \o Sans(Append(wrChan, m), Controls) = IF m \in WrCall THEN Append(Pend, m) ELSE Pend
<1>1. Sans(Append(wrChan, m), Controls) = IF m \in Controls THEN Sans(wrChan, Controls) ELSE Append(Sans(wrChan, Controls), m)
  BY SansMore DEF QueuesTyped
<1>2. PICK rest : rest = Sans(wrChan, Controls)
  OBVIOUS
<1>3. rest \in Seq(WrCall)
  BY <1>2, PendTyped
<1>4. m \in WrCall <=> m \notin Controls
  BY WrAssumption DEF Controls
<1>5. ASSUME m \in WrCall PROVE wrBatch \o Append(rest, m) = Append(wrBatch \o rest, m)
  BY <1>3, <1>5, Seam DEF QueuesTyped
<1>6. Append(wrChan, m) \in Seq(WrCall \cup Controls)
  BY DEF QueuesTyped
<1> QED BY <1>1, <1>2, <1>4, <1>5, <1>6 DEF Pend
(* A queue of distinct elements that grows by one, or loses its first.     *)
LEMMA QueueGrows ==
  ASSUME NEW S, NEW s \in Seq(S), NEW e \in S \ Held(s), Once(s)
  PROVE  Append(s, e) \in Seq(S) /\ Once(Append(s, e)) /\ Held(Append(s, e)) = Held(s) \cup {e}
<1>1. PICK t : t = Append(s, e)
  OBVIOUS
<1>2. t \in Seq(S) /\ Len(t) = Len(s) + 1 /\ t[Len(s) + 1] = e /\ (\A j \in 1..Len(s) : t[j] = s[j]) /\ Len(s) \in Nat
  BY <1>1
<1>3. DOMAIN t = 1..(Len(s) + 1) /\ DOMAIN s = 1..Len(s)
  BY <1>2
<1>4. \A j \in 1..Len(s) : s[j] \in Held(s) /\ s[j] # e
  BY <1>3 DEF Held
<1>5. Once(t)
  <2> SUFFICES ASSUME NEW j \in 1..(Len(s) + 1), NEW k \in 1..(Len(s) + 1), t[j] = t[k] PROVE j = k
    BY <1>3 DEF Once
  <2>1. j \in 1..Len(s) \/ j = Len(s) + 1
    BY <1>2
  <2>2. k \in 1..Len(s) \/ k = Len(s) + 1
    BY <1>2
  <2> QED BY <1>2, <1>3, <1>4, <2>1, <2>2 DEF Once
<1>6. Held(t) = Held(s) \cup {e}
  <2>1. ASSUME NEW j \in 1..(Len(s) + 1) PROVE t[j] \in Held(s) \cup {e}
    <3>1. j \in 1..Len(s) \/ j = Len(s) + 1
      BY <1>2
    <3> QED BY <1>2, <1>4, <3>1
  <2>2. e = t[Len(s) + 1] /\ Len(s) + 1 \in 1..(Len(s) + 1) /\ \A j \in 1..Len(s) : j \in 1..(Len(s) + 1)
    BY <1>2
  <2> QED BY <1>2, <1>3, <2>1, <2>2 DEF Held
<1> QED BY <1>1, <1>2, <1>5, <1>6

LEMMA QueueMoves ==
  ASSUME NEW S, NEW s \in Seq(S), s # <<>>, Once(s)
  PROVE  /\ Head(s) \in S /\ Head(s) \in Held(s)
         /\ Tail(s) \in Seq(S) /\ Once(Tail(s)) /\ Held(Tail(s)) = Held(s) \ {Head(s)}
<1>1. PICK t : t = Tail(s)
  OBVIOUS
<1>2. PICK h : h = Head(s)
  OBVIOUS
<1>3. h = s[1] /\ h \in S /\ t \in Seq(S) /\ Len(s) \in Nat \ {0} /\ Len(t) = Len(s) - 1 /\ \A j \in 1..Len(t) : t[j] = s[j + 1]
  BY <1>1, <1>2
<1>4. DOMAIN t = 1..Len(t) /\ DOMAIN s = 1..Len(s)
  BY <1>3
<1>5. \A j \in 1..Len(t) : j + 1 \in 1..Len(s) /\ j + 1 # 1
  BY <1>3
<1>6. 1 \in 1..Len(s)
  BY <1>3
<1>7. Once(t)
  <2> SUFFICES ASSUME NEW j \in 1..Len(t), NEW k \in 1..Len(t), t[j] = t[k] PROVE j = k
    BY <1>4 DEF Once
  <2>1. s[j + 1] = s[k + 1]
    BY <1>3
  <2>2. j + 1 = k + 1
    BY <1>4, <1>5, <2>1 DEF Once
  <2> QED BY <2>2
<1>8. \A x \in Held(t) : x \in Held(s) /\ x # h
  <2> SUFFICES ASSUME NEW j \in 1..Len(t) PROVE s[j + 1] \in Held(s) /\ s[j + 1] # s[1]
    BY <1>3, <1>4 DEF Held
  <2> QED BY <1>4, <1>5, <1>6 DEF Held, Once
<1>9. \A x \in Held(s) : x = h \/ x \in Held(t)
  <2> SUFFICES ASSUME NEW j \in 1..Len(s), j # 1 PROVE s[j] \in Held(t)
    BY <1>3, <1>4 DEF Held
  <2>1. j - 1 \in 1..Len(t)
    BY <1>3
  <2>2. t[j - 1] = s[j]
    BY <1>3, <2>1
  <2> QED BY <1>4, <2>1, <2>2 DEF Held
<1>10. h \in Held(s)
  BY <1>3, <1>4, <1>6 DEF Held
<1> QED BY <1>1, <1>2, <1>3, <1>7, <1>8, <1>9, <1>10
(* What is decided leaves the sequence of calls under way at its head.     *)
LEMMA HeadDecided ==
  ASSUME TableInv, NEW n \in 1..Len(Pend), Pend' = SubSeq(Pend, n + 1, Len(Pend)),
         wrCall' \in [WrCall -> {"none", "waits", "sent", "ok", "error", "closed", "lost"}],
         \A c \in WrCall : IF \E j \in 1..n : Pend[j] = c THEN wrCall'[c] \in {"ok", "error"} ELSE wrCall'[c] = wrCall[c],
         UNCHANGED wrWaits, wrPhase' # "gone"
  PROVE  SentOnce'
<1>1. Pend \in Seq(WrCall) /\ Once(Pend) /\ Held(Pend) = {c \in WrCall : wrCall[c] = "sent"}
  BY PendTyped DEF TableInv, SentOnce
<1>2. PICK p : p = Pend
  OBVIOUS
<1>3. PICK q : q = Pend'
  OBVIOUS
<1>4. q \in Seq(WrCall) /\ Len(q) = Len(p) - n /\ \A k \in 1..Len(q) : q[k] = p[n + k]
  BY <1>1, <1>2, <1>3
<1>5. \A j, k \in 1..Len(p) : p[j] = p[k] => j = k
  BY <1>1, <1>2 DEF Once
<1>6. Once(q)
  <2> SUFFICES ASSUME NEW j \in 1..Len(q), NEW k \in 1..Len(q), q[j] = q[k] PROVE j = k
    BY <1>4 DEF Once
  <2>1. n + j \in 1..Len(p) /\ n + k \in 1..Len(p) /\ p[n + j] = p[n + k]
    BY <1>1, <1>2, <1>4
  <2>2. n + j = n + k
    BY <1>5, <2>1
  <2> QED BY <2>2, <1>4, <1>1
<1>7. ASSUME NEW c \in Held(q) PROVE c \in Held(p) /\ \A j \in 1..n : p[j] # c
  <2>1. PICK k \in 1..Len(q) : c = q[k]
    BY <1>4 DEF Held
  <2>2. n + k \in 1..Len(p) /\ q[k] = p[n + k] /\ \A j \in 1..n : j \in 1..Len(p) /\ j # n + k
    BY <1>1, <1>2, <1>4
  <2>3. c \in Held(p)
    BY <1>1, <1>2, <2>1, <2>2 DEF Held
  <2> QED BY <1>5, <2>1, <2>2, <2>3
<1>8. \A c \in Held(p) : (\E j \in 1..n : p[j] = c) \/ c \in Held(q)
  <2> SUFFICES ASSUME NEW j \in 1..Len(p), j \notin 1..n PROVE p[j] \in Held(q)
    BY <1>1, <1>2 DEF Held
  <2>1. j - n \in 1..Len(q) /\ q[j - n] = p[j]
    BY <1>1, <1>2, <1>4
  <2> QED BY <1>4, <2>1 DEF Held
<1>9. Held(q) \subseteq WrCall
  BY <1>4 DEF Held
<1>10. Held(q) = {c \in WrCall : wrCall'[c] = "sent"}
  <2>1. ASSUME NEW c \in Held(q) PROVE wrCall'[c] = "sent"
    BY <1>1, <1>2, <1>7, <1>9, <2>1
  <2>2. ASSUME NEW c \in WrCall, wrCall'[c] = "sent" PROVE c \in Held(q)
    <3>1. ~\E j \in 1..n : p[j] = c
      BY <1>2, <2>2
    <3>2. c \in Held(p)
      BY <1>1, <1>2, <2>2, <3>1
    <3> QED BY <1>8, <3>1, <3>2
  <2> QED BY <1>9, <2>1, <2>2
<1>11. \A j \in 1..n : wrCall[Pend[j]] = "sent"
  BY <1>1 DEF Held
<1>12. {c \in WrCall : wrCall'[c] = "waits"} = {c \in WrCall : wrCall[c] = "waits"}
  BY <1>11
<1> QED BY <1>3, <1>6, <1>10, <1>12 DEF SentOnce, TableInv

(* The table's contents.                                                   *)
Contents(commits) == [n \in DOMAIN commits |-> commits[n].rows]
LEMMA ContentsGrow ==
  ASSUME NEW s, IsSequence(s), Len(s) \in Nat \ {0}
  PROVE  /\ Len(Contents(s)) = Len(s) /\ DOMAIN Contents(s) = 1..Len(s) /\ Contents(s)[Len(Contents(s))] = s[Len(s)].rows
         /\ \A e : Contents(Append(s, e)) = Append(Contents(s), e.rows)
         /\ \A n \in 1..Len(s) : Contents(SubSeq(s, 1, n)) = SubSeq(Contents(s), 1, n)
<1>1. PICK S : s \in Seq(S)
  BY DEF IsSequence
<1>2. PICK R : R = {s[n].rows : n \in 1..Len(s)}
  OBVIOUS
<1>3. PICK c : c = Contents(s)
  OBVIOUS
<1>4. c \in Seq(R) /\ Len(c) = Len(s) /\ DOMAIN c = 1..Len(s) /\ \A n \in 1..Len(s) : c[n] = s[n].rows
  <2>1. DOMAIN s = 1..Len(s)
    BY <1>1
  <2>2. c = [n \in 1..Len(s) |-> s[n].rows]
    BY <1>3, <2>1 DEF Contents
  <2>3. c \in [1..Len(s) -> R]
    BY <1>2, <2>2
  <2> QED BY <2>2, <2>3
<1>5. ASSUME NEW e PROVE Contents(Append(s, e)) = Append(c, e.rows)
  <2>1. PICK t : t = Append(s, e)
    OBVIOUS
  <2>2. t \in Seq(S \cup {e}) /\ Len(t) = Len(s) + 1 /\ t[Len(s) + 1] = e /\ \A n \in 1..Len(s) : t[n] = s[n]
    <3>1. s \in Seq(S \cup {e}) /\ e \in S \cup {e}
      BY <1>1
    <3> QED BY <2>1, <3>1
  <2>3. PICK u : u = Append(c, e.rows)
    OBVIOUS
  <2>4. PICK x : x = e.rows
    OBVIOUS
  <2>5. c \in Seq(R \cup {x}) /\ x \in R \cup {x}
    BY <1>4
  <2>6. u \in Seq(R \cup {x}) /\ Len(u) = Len(s) + 1 /\ u[Len(s) + 1] = x /\ \A n \in 1..Len(s) : u[n] = c[n]
    BY <1>4, <2>3, <2>4, <2>5
  <2>7. Contents(t) = [n \in 1..(Len(s) + 1) |-> t[n].rows]
    BY <2>2 DEF Contents
  <2>8. \A n \in 1..(Len(s) + 1) : t[n].rows = u[n]
    <3> SUFFICES ASSUME NEW n \in 1..(Len(s) + 1) PROVE t[n].rows = u[n]
      OBVIOUS
    <3>1. CASE n = Len(s) + 1
      BY <2>2, <2>4, <2>6, <3>1
    <3>2. CASE n # Len(s) + 1
      <4>1. n \in 1..Len(s)
        BY <3>2
      <4> QED BY <1>4, <2>2, <2>6, <4>1
    <3> QED BY <3>1, <3>2
  <2>9. u = [n \in 1..(Len(s) + 1) |-> u[n]]
    BY <2>6
  <2>10. Contents(t) = u
    BY <2>7, <2>8, <2>9
  <2> QED BY <2>1, <2>3, <2>10
<1>6. ASSUME NEW n \in 1..Len(s) PROVE Contents(SubSeq(s, 1, n)) = SubSeq(c, 1, n)
  <2>1. SubSeq(s, 1, n) = [i \in 1..n |-> s[i]] /\ SubSeq(c, 1, n) = [i \in 1..n |-> c[i]]
    BY <1>1, <1>4
  <2>2. Contents([i \in 1..n |-> s[i]]) = [i \in 1..n |-> s[i].rows]
    BY DEF Contents
  <2>3. \A i \in 1..n : c[i] = s[i].rows
    BY <1>4
  <2> QED BY <2>1, <2>2, <2>3
<1> QED BY <1>3, <1>4, <1>5, <1>6
LEMMA TableInvStarts == WriterInit => TableInv /\ T!TableInit
<1> SUFFICES ASSUME WriterInit PROVE TableInv /\ T!TableInit
  OBVIOUS
<1> DEFINE first == [rows |-> [r \in WrRow |-> T!Absent], calls |-> {}]
<1>1. /\ wrCommits = <<first>> /\ wrSafe = 1 /\ wrCall = [c \in WrCall |-> "none"] /\ wrWaits = <<>> /\ wrChan = <<>>
      /\ wrBatch = <<>> /\ wrPhase = "recv" /\ wrRefused = 0
  BY DEF WriterInit
<1>2. PICK nil : nil = <<>>
  OBVIOUS
<1>3. nil \in Seq(WrCall) /\ nil \in Seq(WrCall \cup Controls) /\ DOMAIN nil = {} /\ nil \o nil = nil /\ Sans(nil, Controls) = nil
  BY <1>2, SansNone
<1>4. QueuesTyped
  BY <1>1, <1>2, <1>3 DEF QueuesTyped
<1>5. Pend = nil
  BY <1>1, <1>2, <1>3 DEF Pend
<1>6. SentOnce
  BY <1>1, <1>2, <1>3, <1>5 DEF SentOnce, Once, Held
<1>7. first.rows # T!Error
  <2>1. first.rows = [r \in WrRow |-> T!Absent]
    OBVIOUS
  <2>2. DOMAIN first.rows = WrRow /\ DOMAIN nil = {}
    BY <1>3, <2>1
  <2> QED BY <1>2, <2>2, WrAssumption DEF T!Error
<1> HIDE DEF first
<1>8. wrCommits \in Seq({first}) /\ Len(wrCommits) = 1 /\ wrCommits[1] = first
  BY <1>1
<1>9. RowsLeft
  BY <1>7, <1>8 DEF RowsLeft
<1>10. Contents(wrCommits) = <<[r \in WrRow |-> T!Absent]>>
  <2>1. DOMAIN wrCommits = 1..1
    BY <1>8
  <2>2. Contents(wrCommits) = [n \in 1..1 |-> first.rows]
    BY <1>8, <2>1 DEF Contents
  <2> QED BY <2>2 DEF first
<1>11. T!TableInit
  BY <1>1, <1>2, <1>5, <1>10 DEF T!TableInit, Contents, Pend, Controls
<1> QED BY <1>4, <1>6, <1>9, <1>11, SyncStarts DEF TableInv

(* What the table shows of the writer, under short names.                  *)
Out == [c \in WrCall |-> IF wrCall[c] \in {"waits", "sent"} THEN "asked" ELSE wrCall[c]]
Shown == <<Contents(wrCommits), Pend, Out, wrRefused>>
LEMMA Stutters == UNCHANGED Shown => UNCHANGED T!tableVars
BY DEF Shown, Contents, Pend, Out, Controls, T!tableVars

(* The facts a step starts from.                                           *)
LEMMA TableFacts ==
  ASSUME TableInv
  PROVE  /\ QueuesTyped /\ wrCall \in [WrCall -> {"none", "waits", "sent", "ok", "error", "closed", "lost"}]
         /\ Once(wrWaits) /\ Held(wrWaits) = {d \in WrCall : wrCall[d] = "waits"}
         /\ Once(Pend) /\ Held(Pend) = {d \in WrCall : wrCall[d] = "sent"} /\ (wrPhase = "gone" => Pend = <<>>)
         /\ Pend \in Seq(WrCall) /\ wrWaits \in Seq(WrCall)
BY PendTyped DEF TableInv, SyncInv, Kept, SentOnce, QueuesTyped

LEMMA WriteTells == ASSUME TableInv, NEW c \in WrCall, Write(c) PROVE QueuesTyped' /\ SentOnce' /\ RowsLeft' /\ T!Ask(c)
<1>1. wrCall[c] = "none" /\ wrCall' = [wrCall EXCEPT ![c] = "waits"] /\ wrWaits' = Append(wrWaits, c)
      /\ UNCHANGED <<wrChan, wrBatch, wrPhase, wrCommits, wrRefused>>
  BY DEF Write, wrDisk, wrHistory
<1>2. c \in WrCall \ Held(wrWaits)
  BY <1>1, TableFacts
<1>3. wrWaits' \in Seq(WrCall) /\ Once(wrWaits') /\ Held(wrWaits') = Held(wrWaits) \cup {c}
  BY <1>1, <1>2, TableFacts, QueueGrows
<1>4. Pend' = Pend
  BY <1>1 DEF Pend
<1>5. QueuesTyped'
  BY <1>1, <1>3, TableFacts DEF QueuesTyped
<1>6. SentOnce'
  BY <1>1, <1>3, <1>4, TableFacts DEF SentOnce
<1>7. RowsLeft'
  BY <1>1 DEF TableInv, RowsLeft
<1>8. Out[c] = "none" /\ Out' = [Out EXCEPT ![c] = "asked"]
  BY <1>1, TableFacts DEF Out
<1>9. T!Ask(c)
  BY <1>1, <1>4, <1>8 DEF T!Ask, Out, Pend, Controls
<1> QED BY <1>5, <1>6, <1>7, <1>9

LEMMA PermitTells == ASSUME TableInv, Permit PROVE QueuesTyped' /\ SentOnce' /\ RowsLeft' /\ T!TableNext
<1> DEFINE c == Head(wrWaits)
<1>1. wrWaits # <<>> /\ wrWaits' = Tail(wrWaits) /\ UNCHANGED <<wrBatch, wrPhase, wrCommits, wrRefused>>
      /\ IF wrPhase = "gone" THEN wrCall' = [wrCall EXCEPT ![c] = "closed"] /\ wrChan' = wrChan
         ELSE wrCall' = [wrCall EXCEPT ![c] = "sent"] /\ wrChan' = Append(wrChan, c)
  BY DEF Permit, wrDisk, wrHistory
<1>2. /\ c \in WrCall /\ c \in Held(wrWaits) /\ wrWaits' \in Seq(WrCall)
      /\ Once(wrWaits') /\ Held(wrWaits') = Held(wrWaits) \ {c}
  BY <1>1, TableFacts, QueueMoves
<1> HIDE DEF c
<1>3. wrCall[c] = "waits" /\ c \in WrCall \ Held(Pend)
  BY <1>2, TableFacts
<1>4. RowsLeft' /\ Contents(wrCommits)' = Contents(wrCommits)
  BY <1>1 DEF TableInv, RowsLeft
<1>5. \A j \in DOMAIN Pend : Pend[j] # c
  BY <1>3 DEF Held
<1>6. CASE wrPhase = "gone"
  <2>1. wrCall' = [wrCall EXCEPT ![c] = "closed"] /\ wrChan' = wrChan /\ Pend' = Pend
    BY <1>1, <1>6 DEF Pend
  <2>2. QueuesTyped'
    BY <1>1, <1>2, <2>1, TableFacts DEF QueuesTyped
  <2>3. SentOnce'
    BY <1>1, <1>2, <1>3, <2>1, TableFacts DEF SentOnce
  <2>4. PICK gone \in SUBSET WrCall : gone = {c}
    BY <1>2
  <2>5. Out' = [d \in WrCall |-> IF d \in gone THEN "closed" ELSE Out[d]]
    BY <1>2, <1>3, <2>1, <2>4, TableFacts DEF Out
  <2>6. T!TurnAway(gone)
    <3>1. /\ gone # {} /\ \A d \in gone : Out[d] = "asked"
          /\ (\A j \in DOMAIN Pend : Pend[j] \notin gone) /\ Pend' = Pend
          /\ Contents(wrCommits)' = Contents(wrCommits) /\ wrRefused' = wrRefused
      BY <1>1, <1>2, <1>3, <1>4, <1>5, <2>1, <2>4 DEF Out
    <3> QED BY <2>5, <3>1 DEF T!TurnAway, Out, Pend, Controls, Contents
  <2> QED BY <1>4, <2>2, <2>3, <2>6 DEF T!TableNext
<1>7. CASE wrPhase # "gone"
  <2>1. wrCall' = [wrCall EXCEPT ![c] = "sent"] /\ wrChan' = Append(wrChan, c)
    BY <1>1, <1>7
  <2>2. wrChan' \in Seq(WrCall \cup Controls) /\ Pend' = Append(Pend, c)
    BY <1>1, <1>2, <2>1, TableFacts, MessageSent DEF Pend
  <2>3. QueuesTyped'
    BY <1>1, <1>2, <2>2, TableFacts DEF QueuesTyped
  <2>4. Once(Pend') /\ Held(Pend') = Held(Pend) \cup {c}
    BY <1>3, <2>2, TableFacts, QueueGrows
  <2>5. SentOnce'
    BY <1>1, <1>2, <1>3, <1>7, <2>1, <2>4, TableFacts DEF SentOnce
  <2>6. Out[c] = "asked" /\ Out' = Out
    BY <1>2, <1>3, <2>1, TableFacts DEF Out
  <2>7. T!Send(c)
    BY <1>1, <1>4, <1>5, <2>2, <2>6 DEF T!Send, Out, Pend, Controls, Contents
  <2> QED BY <1>2, <1>4, <2>3, <2>5, <2>7 DEF T!TableNext
<1> QED BY <1>6, <1>7

(* Steps that a caller does not see: a question for a checkpoint or the    *)
(* close, and what the thread takes from its channel.                      *)
LEMMA Unseen ==
  ASSUME TableInv, QueuesTyped', Pend' = Pend, UNCHANGED <<wrCall, wrWaits, wrCommits, wrRefused>>,
         wrPhase' = "gone" => wrPhase = "gone"
  PROVE  SentOnce' /\ RowsLeft' /\ UNCHANGED T!tableVars
<1>1. SentOnce'
  BY DEF TableInv, SentOnce
<1>2. RowsLeft'
  BY DEF TableInv, RowsLeft
<1>3. UNCHANGED Shown
  BY DEF Shown, Contents, Out
<1> QED BY <1>1, <1>2, <1>3, Stutters

LEMMA AskTells ==
  ASSUME TableInv, AskCheckpoint \/ AskClose
  PROVE  QueuesTyped' /\ SentOnce' /\ RowsLeft' /\ UNCHANGED T!tableVars
<1>1. PICK m \in Controls :
        wrChan' = Append(wrChan, m) /\ UNCHANGED <<wrCall, wrWaits, wrBatch, wrPhase, wrCommits, wrRefused>>
  BY DEF AskCheckpoint, AskClose, wrOut, wrDisk, wrHistory, Controls
<1>2. QueuesTyped /\ m \notin WrCall
  BY WrAssumption DEF TableInv, Controls
<1>3. wrChan' \in Seq(WrCall \cup Controls) /\ Pend' = Pend
  BY <1>1, <1>2, MessageSent DEF Pend
<1>4. QueuesTyped'
  BY <1>1, <1>2, <1>3 DEF QueuesTyped
<1> QED BY <1>1, <1>3, <1>4, Unseen

LEMMA TakenTells ==
  ASSUME TableInv, wrChan # <<>>, NEW sync, NEW phase, phase # "gone", Takes(Head(wrChan), sync, phase)
  PROVE  QueuesTyped' /\ SentOnce' /\ RowsLeft' /\ UNCHANGED T!tableVars
<1> DEFINE m == Head(wrChan)
<1>1. /\ wrChan' = Tail(wrChan) /\ wrPhase' = phase /\ UNCHANGED <<wrCall, wrWaits, wrCommits, wrRefused>>
      /\ IF m \in WrCall THEN wrBatch' = Append(wrBatch, m) ELSE wrBatch' = wrBatch
  BY DEF Takes, wrOut, wrDisk
<1>2. QueuesTyped
  BY DEF TableInv
<1>3. /\ m \in WrCall \cup Controls /\ Tail(wrChan) \in Seq(WrCall \cup Controls)
      /\ m \in WrCall => Append(wrBatch, m) \o Sans(Tail(wrChan), Controls) = Pend
      /\ m \notin WrCall => wrBatch \o Sans(Tail(wrChan), Controls) = Pend
  BY <1>2, MessageTaken
<1> HIDE DEF m
<1>4. Pend' = Pend
  BY <1>1, <1>3 DEF Pend
<1>5. wrBatch' \in Seq(WrCall)
  <2>1. wrBatch \in Seq(WrCall)
    BY <1>2 DEF QueuesTyped
  <2>2. CASE m \in WrCall
    BY <1>1, <2>1, <2>2
  <2>3. CASE m \notin WrCall
    BY <1>1, <2>1, <2>3
  <2> QED BY <2>2, <2>3
<1>6. QueuesTyped'
  BY <1>1, <1>2, <1>3, <1>5 DEF QueuesTyped
<1> QED BY <1>1, <1>4, <1>6, Unseen

LEMMA GatherTells ==
  ASSUME TableInv, Recv \/ Extend \/ WindowEnds \/ Drain \/ Drained \/ Replayed
  PROVE  QueuesTyped' /\ SentOnce' /\ RowsLeft' /\ UNCHANGED T!tableVars
<1>1. CASE Recv
  <2>1. PICK phase : phase = IF Head(wrChan) # "close" /\ WrWindow THEN "extend" ELSE "drain"
    OBVIOUS
  <2>2. wrChan # <<>> /\ Takes(Head(wrChan), Head(wrChan) \in WrSyncs, phase)
    BY <1>1, <2>1 DEF Recv
  <2>3. phase # "gone"
    BY <2>1
  <2>4. PICK sync : sync = (Head(wrChan) \in WrSyncs)
    OBVIOUS
  <2> QED BY <2>2, <2>3, <2>4, TakenTells
<1>2. CASE Extend
  <2>1. PICK phase : phase = IF Head(wrChan) \in WrCall THEN "extend" ELSE "drain"
    OBVIOUS
  <2>2. wrChan # <<>> /\ Takes(Head(wrChan), ExtendSync(Head(wrChan)), phase)
    BY <1>2, <2>1 DEF Extend
  <2>3. phase # "gone"
    BY <2>1
  <2> QED BY <2>2, <2>3, TakenTells
<1>3. CASE Drain
  <2>1. PICK phase : phase = IF Head(wrChan) \in WrCall THEN "drain" ELSE "commit"
    OBVIOUS
  <2>2. wrChan # <<>> /\ Takes(Head(wrChan), wrSync, phase)
    BY <1>3, <2>1 DEF Drain
  <2>3. phase # "gone"
    BY <2>1
  <2> QED BY <2>2, <2>3, TakenTells
<1>4. CASE WindowEnds \/ Drained \/ Replayed
  <2>1. UNCHANGED <<wrCall, wrWaits, wrChan, wrBatch, wrCommits, wrRefused>> /\ wrPhase' # "gone"
    BY <1>4 DEF WindowEnds, Drained, Replayed, wrOut, wrDisk, wrHistory
  <2>2. Pend' = Pend
    BY <2>1 DEF Pend
  <2>3. QueuesTyped'
    BY <2>1 DEF TableInv, QueuesTyped
  <2> QED BY <2>1, <2>2, <2>3, Unseen
<1> QED BY <1>1, <1>2, <1>3, <1>4

(* Where the batch ends and the channel begins.                            *)
LEMMA Cut ==
  ASSUME NEW S, NEW a \in Seq(S), NEW b \in Seq(S)
  PROVE  /\ Len(a \o b) = Len(a) + Len(b) /\ SubSeq(a \o b, 1, Len(a)) = a
         /\ SubSeq(a \o b, Len(a) + 1, Len(a \o b)) = b /\ <<>> \o b = b
<1>1. PICK c : c = a \o b
  OBVIOUS
<1>2. /\ c \in Seq(S) /\ Len(c) = Len(a) + Len(b) /\ Len(a) \in Nat /\ Len(b) \in Nat
      /\ (\A j \in 1..Len(a) : c[j] = a[j]) /\ \A j \in 1..Len(b) : c[Len(a) + j] = b[j]
  BY <1>1
<1>3. SubSeq(c, 1, Len(a)) = a
  <2>1. SubSeq(c, 1, Len(a)) = [j \in 1..Len(a) |-> c[j]]
    BY <1>2
  <2>2. a = [j \in 1..Len(a) |-> a[j]]
    OBVIOUS
  <2> QED BY <1>2, <2>1, <2>2
<1>4. SubSeq(c, Len(a) + 1, Len(c)) = b
  <2>1. PICK d : d = SubSeq(c, Len(a) + 1, Len(c))
    OBVIOUS
  <2>2. d \in Seq(S) /\ Len(d) = Len(b) /\ \A j \in 1..Len(b) : d[j] = c[Len(a) + j]
    BY <1>2, <2>1
  <2>3. d = [j \in 1..Len(b) |-> d[j]] /\ b = [j \in 1..Len(b) |-> b[j]]
    BY <2>2
  <2>4. \A j \in 1..Len(b) : d[j] = b[j]
    BY <1>2, <2>2
  <2> QED BY <2>1, <2>3, <2>4
<1>5. <<>> \o b = b
  OBVIOUS
<1> QED BY <1>1, <1>2, <1>3, <1>4, <1>5

LEMMA CutFirst ==
  ASSUME NEW S, NEW a \in Seq(S), NEW b \in Seq(S), a # <<>>, NEW t, t = [j \in 1..(Len(a) - 1) |-> a[j + 1]]
  PROVE  /\ t \in Seq(S) /\ t \o b = SubSeq(a \o b, 2, Len(a \o b))
         /\ Len(a \o b) \in Nat \ {0} /\ (a \o b)[1] = a[1] /\ SubSeq(a \o b, 1, 1) = <<a[1]>>
<1>1. PICK c : c = a \o b
  OBVIOUS
<1>2. /\ c \in Seq(S) /\ Len(c) = Len(a) + Len(b) /\ Len(a) \in Nat \ {0} /\ Len(b) \in Nat
      /\ (\A j \in 1..Len(a) : c[j] = a[j]) /\ \A j \in 1..Len(b) : c[Len(a) + j] = b[j]
  BY <1>1
<1>3. t \in Seq(S) /\ Len(t) = Len(a) - 1 /\ \A j \in 1..Len(t) : t[j] = a[j + 1]
  BY <1>2
<1>4. PICK d : d = t \o b
  OBVIOUS
<1>5. PICK e : e = SubSeq(c, 2, Len(c))
  OBVIOUS
<1>6. d \in Seq(S) /\ Len(d) = Len(c) - 1 /\ e \in Seq(S) /\ Len(e) = Len(c) - 1
  BY <1>2, <1>3, <1>4, <1>5
<1>7. ASSUME NEW j \in 1..Len(d) PROVE d[j] = e[j]
  <2>1. e[j] = c[j + 1] /\ j + 1 \in 1..Len(c)
    <3>1. e = [i \in 1..(Len(c) - 1) |-> c[i + 1]]
      BY <1>2, <1>5
    <3> QED BY <1>2, <1>6, <3>1
  <2>2. CASE j <= Len(a) - 1
    <3>1. j \in 1..Len(t) /\ j + 1 \in 1..Len(a)
      BY <1>2, <1>3, <1>6, <2>2
    <3>2. d[j] = t[j]
      BY <1>3, <1>4, <3>1
    <3> QED BY <1>2, <1>3, <2>1, <3>1, <3>2
  <2>3. CASE j > Len(a) - 1
    <3>1. j - Len(t) \in 1..Len(b) /\ j = Len(t) + (j - Len(t)) /\ j + 1 = Len(a) + (j - Len(t))
      BY <1>2, <1>3, <1>6, <2>3
    <3>2. d[Len(t) + (j - Len(t))] = b[j - Len(t)]
      BY <1>3, <1>4, <3>1
    <3>3. c[Len(a) + (j - Len(t))] = b[j - Len(t)]
      BY <1>2, <3>1
    <3> QED BY <2>1, <3>1, <3>2, <3>3
  <2> QED BY <1>2, <1>6, <2>2, <2>3
<1>8. d = [j \in 1..Len(d) |-> d[j]] /\ e = [j \in 1..Len(d) |-> e[j]]
  <2>1. d \in Seq(S) /\ e \in Seq(S) /\ Len(e) = Len(d)
    BY <1>6
  <2> QED BY <2>1
<1>9. d = e
  BY <1>7, <1>8
<1>10. SubSeq(c, 1, 1) = <<a[1]>> /\ c[1] = a[1]
  <2>1. 1 \in 1..Len(a) /\ c[1] = a[1]
    BY <1>2
  <2>2. SubSeq(c, 1, 1) = [j \in 1..1 |-> c[j]]
    BY <1>2
  <2>3. <<c[1]>> = [j \in 1..1 |-> c[j]]
    OBVIOUS
  <2> QED BY <2>1, <2>2, <2>3
<1> QED BY <1>1, <1>2, <1>3, <1>4, <1>5, <1>9, <1>10

(* A step that decides the oldest calls, in the table's words.             *)
Deciding(n, calls, refused, rows) ==
  /\ calls = SubSeq(Pend, 1, n) /\ refused \in {{}} \cup {{Pend[j]} : j \in 1..n}
  /\ rows = T!After(Contents(wrCommits)[Len(Contents(wrCommits))], calls, refused)
  /\ Pend' = SubSeq(Pend, n + 1, Len(Pend))
  /\ Out' = [c \in WrCall |->
       IF \E j \in 1..n : calls[j] = c
         THEN IF \E j \in 1..n : calls[j] = c /\ T!Takes(rows[j - 1], c, refused) THEN "ok" ELSE "error"
         ELSE Out[c]]
  /\ Contents(wrCommits)' = IF \E j \in 1..n : Out'[calls[j]] = "ok"
                              THEN Append(Contents(wrCommits), rows[n]) ELSE Contents(wrCommits)
  /\ wrRefused' = wrRefused + IF refused = {} THEN 0 ELSE 1

LEMMA Decides ==
  ASSUME Pend \in Seq(WrCall), NEW n \in 1..Len(Pend), NEW calls, NEW refused, NEW rows, Deciding(n, calls, refused, rows)
  PROVE  T!TableNext
<1> USE DEF Deciding
<1>1. rows = T!After(T!Now, SubSeq(Pend, 1, n), refused)
  BY DEF T!Now, Contents
<1>2. n \in 1..Len(Pend) /\ refused \in {{}} \cup {{Pend[j]} : j \in 1..n}
  OBVIOUS
<1>3. Out' = [c \in WrCall |->
               IF \E j \in 1..n : SubSeq(Pend, 1, n)[j] = c
                 THEN IF \E j \in 1..n : /\ SubSeq(Pend, 1, n)[j] = c
                                        /\ T!Takes(T!After(T!Now, SubSeq(Pend, 1, n), refused)[j - 1], c, refused)
                        THEN "ok" ELSE "error"
                 ELSE Out[c]]
  BY <1>1
<1>4. Contents(wrCommits)' = IF \E j \in 1..n : Out'[SubSeq(Pend, 1, n)[j]] = "ok"
                              THEN Append(Contents(wrCommits), T!After(T!Now, SubSeq(Pend, 1, n), refused)[n])
                              ELSE Contents(wrCommits)
  BY <1>1
<1>5. T!Decide(n, refused)
  BY <1>2, <1>3, <1>4 DEF T!Decide, Contents, Pend, Out, Controls
<1>6. n \in DOMAIN Pend /\ refused \in {{}} \cup {{c} : c \in WrCall}
  <2>1. DOMAIN Pend = 1..Len(Pend) /\ \A k \in 1..Len(Pend) : Pend[k] \in WrCall
    OBVIOUS
  <2>2. \A j \in 1..n : Pend[j] \in WrCall
    BY <2>1
  <2>3. refused = {} \/ \E j \in 1..n : refused = {Pend[j]}
    OBVIOUS
  <2>4. refused \in {{c} : c \in WrCall} \/ refused = {}
    <3> SUFFICES ASSUME NEW j \in 1..n, refused = {Pend[j]} PROVE \E c \in WrCall : refused = {c}
      BY <2>3
    <3> QED BY <2>2
  <2>5. n \in DOMAIN Pend
    BY <2>1
  <2> QED BY <2>4, <2>5
<1> QED BY <1>5, <1>6 DEF T!TableNext, Pend, Controls

LEMMA CommitTells ==
  ASSUME TableInv, SyncInv', NEW ok \in BOOLEAN, Commit(ok)
  PROVE  QueuesTyped' /\ SentOnce' /\ RowsLeft' /\ [T!TableNext]_(T!tableVars)
<1>1. UNCHANGED <<wrWaits, wrChan, wrRefused>> /\ wrPhase' # "gone"
  BY DEF Commit, wrHistory
<1>2. CASE UNCHANGED <<wrCommits, wrBatch, wrCall>>
  <2>1. Pend' = Pend
    BY <1>1, <1>2 DEF Pend
  <2>2. QueuesTyped'
    BY <1>1, <1>2 DEF TableInv, QueuesTyped
  <2> QED BY <1>1, <1>2, <2>1, <2>2, Unseen
<1>3. CASE /\ wrBatch # <<>> /\ InTransaction(wrBatch) # T!Error /\ Committed(wrBatch) /\ wrBatch' = <<>>
           /\ wrCall' = [c \in WrCall |-> IF \E j \in DOMAIN wrBatch : wrBatch[j] = c THEN "ok" ELSE wrCall[c]]
  <2> DEFINE n == Len(wrBatch)
             rows == T!After(wrCommits[Len(wrCommits)].rows, wrBatch, {})
             new == [rows |-> InTransaction(wrBatch), calls |-> {wrBatch[j] : j \in DOMAIN wrBatch}]
  <2>1. wrBatch \in Seq(WrCall) /\ n \in Nat \ {0} /\ DOMAIN wrBatch = 1..n
    BY <1>3 DEF TableInv, QueuesTyped
  <2>2. PICK rest \in Seq(WrCall) : rest = Sans(wrChan, Controls) /\ Pend = wrBatch \o rest
    BY PendTyped DEF TableInv, Pend
  <2>3. /\ SubSeq(Pend, 1, n) = wrBatch /\ SubSeq(Pend, n + 1, Len(Pend)) = rest
        /\ Len(Pend) = n + Len(rest) /\ <<>> \o rest = rest
    BY <2>1, <2>2, Cut
  <2>4. Pend' = rest
    BY <1>1, <1>3, <2>2, <2>3 DEF Pend
  <2>5. n \in 1..Len(Pend) /\ \A j \in 1..n : Pend[j] = wrBatch[j]
    BY <2>1, <2>2
  <2>6. /\ \A j \in 1..n : T!Takes(rows[j - 1], wrBatch[j], {})
        /\ rows[n] = InTransaction(wrBatch)
    BY <1>3, <2>1, AllTaken
  <2>7. new.rows = InTransaction(wrBatch)
    OBVIOUS
  <2> HIDE DEF rows, new
  <2>8. wrCommits' = Append(wrCommits, new)
    BY <1>3 DEF Committed, new
  <2>9. /\ IsSequence(wrCommits) /\ Len(wrCommits) \in Nat \ {0}
        /\ wrCall \in [WrCall -> {"none", "waits", "sent", "ok", "error", "closed", "lost"}]
        /\ wrCall' \in [WrCall -> {"none", "waits", "sent", "ok", "error", "closed", "lost"}]
    <3>1. IsSequence(wrCommits) /\ wrSafe \in 1..Len(wrCommits)
      BY DEF TableInv, SyncInv, Kept
    <3>2. PICK S : wrCommits \in Seq(S)
      BY <3>1 DEF IsSequence
    <3> QED BY <3>1, <3>2 DEF TableInv, SyncInv, Kept
  <2>10. /\ Contents(wrCommits)[Len(Contents(wrCommits))] = wrCommits[Len(wrCommits)].rows
         /\ Contents(wrCommits)' = Append(Contents(wrCommits), rows[n])
    BY <2>6, <2>7, <2>8, <2>9, ContentsGrow
  <2>11. RowsLeft'
    <3>1. /\ \A i \in 1..Len(wrCommits) : wrCommits'[i] = wrCommits[i]
          /\ wrCommits'[Len(wrCommits) + 1] = new /\ Len(wrCommits') = Len(wrCommits) + 1
      BY <2>8, <2>9, Appended
    <3>2. ASSUME NEW i \in 1..Len(wrCommits') PROVE wrCommits'[i].rows # T!Error
      <4>1. i \in 1..Len(wrCommits) \/ i = Len(wrCommits) + 1
        BY <2>9, <3>1
      <4> QED BY <1>3, <2>7, <3>1, <4>1 DEF TableInv, RowsLeft
    <3> QED BY <3>2 DEF RowsLeft
  <2>12. SentOnce'
    <3>1. \A c \in WrCall : IF \E j \in 1..n : Pend[j] = c THEN wrCall'[c] \in {"ok", "error"} ELSE wrCall'[c] = wrCall[c]
      BY <1>3, <2>1, <2>5
    <3> QED BY <1>1, <2>3, <2>4, <2>5, <2>9, <3>1, HeadDecided
  <2>13. QueuesTyped'
    BY <1>1, <1>3 DEF TableInv, QueuesTyped
  <2>14. \A c \in WrCall : Out'[c] = IF \E j \in 1..n : wrBatch[j] = c THEN "ok" ELSE Out[c]
    BY <1>3, <2>1 DEF Out
  <2>15. T!TableNext
    <3>1. Out' = [c \in WrCall |->
                   IF \E j \in 1..n : wrBatch[j] = c
                     THEN IF \E j \in 1..n : wrBatch[j] = c /\ T!Takes(rows[j - 1], c, {}) THEN "ok" ELSE "error"
                     ELSE Out[c]]
      <4>1. \A c \in WrCall : (\E j \in 1..n : wrBatch[j] = c) =>
                              \E j \in 1..n : wrBatch[j] = c /\ T!Takes(rows[j - 1], c, {})
        BY <2>6
      <4>2. Out' = [c \in WrCall |-> Out'[c]]
        BY DEF Out
      <4> QED BY <2>14, <4>1, <4>2
    <3>2. \E j \in 1..n : Out'[wrBatch[j]] = "ok"
      <4>1. 1 \in 1..n /\ wrBatch[1] \in WrCall
        BY <2>1
      <4> QED BY <2>14, <4>1
    <3>3. wrRefused' = wrRefused + IF {} = {} THEN 0 ELSE 1
      BY <1>1 DEF TableInv, QueuesTyped
    <3>4. rows = T!After(Contents(wrCommits)[Len(Contents(wrCommits))], wrBatch, {})
      BY <2>10 DEF rows
    <3>5. Pend \in Seq(WrCall) /\ Pend' = SubSeq(Pend, n + 1, Len(Pend)) /\ wrBatch = SubSeq(Pend, 1, n)
      BY <2>1, <2>2, <2>3, <2>4
    <3>6. Contents(wrCommits)' = IF \E j \in 1..n : Out'[wrBatch[j]] = "ok"
                                  THEN Append(Contents(wrCommits), rows[n]) ELSE Contents(wrCommits)
      BY <2>10, <3>2
    <3>7. {} \in {{}} \cup {{Pend[j]} : j \in 1..n}
      OBVIOUS
    <3> HIDE DEF n
    <3>8. Deciding(n, wrBatch, {}, rows)
      BY <3>1, <3>3, <3>4, <3>5, <3>6, <3>7 DEF Deciding
    <3> QED BY <2>5, <3>5, <3>8, Decides
  <2> QED BY <2>11, <2>12, <2>13, <2>15
<1> QED BY <1>2, <1>3 DEF Commit, wrDisk

LEMMA ReplayTells ==
  ASSUME TableInv, SyncInv', NEW ok \in BOOLEAN, Replay(ok)
  PROVE  QueuesTyped' /\ SentOnce' /\ RowsLeft' /\ [T!TableNext]_(T!tableVars)
<1> DEFINE job == wrBatch[1]
           refused == IF ok THEN {} ELSE {job}
           now == wrCommits[Len(wrCommits)].rows
           rows == T!After(now, <<job>>, refused)
           works == T!Takes(now, job, refused)
           new == [rows |-> InTransaction(<<job>>), calls |-> {<<job>>[j] : j \in DOMAIN <<job>>}]
<1>1. /\ UNCHANGED <<wrWaits, wrChan, wrPhase>> /\ wrPhase = "replay" /\ wrBatch # <<>>
      /\ wrBatch' = [j \in 1..(Len(wrBatch) - 1) |-> IF j < 1 THEN wrBatch[j] ELSE wrBatch[j + 1]]
      /\ wrRefused' = wrRefused + (IF ok THEN 0 ELSE 1)
  BY DEF Replay, NextJob
<1>2. wrBatch \in Seq(WrCall) /\ Len(wrBatch) \in Nat \ {0} /\ job \in WrCall
  BY <1>1 DEF TableInv, QueuesTyped
<1>3. wrBatch' = [j \in 1..(Len(wrBatch) - 1) |-> wrBatch[j + 1]]
  BY <1>1, <1>2
<1>4. PICK rest \in Seq(WrCall) : rest = Sans(wrChan, Controls) /\ Pend = wrBatch \o rest
  BY PendTyped DEF TableInv, Pend
<1>5. /\ wrBatch' \in Seq(WrCall) /\ wrBatch' \o rest = SubSeq(Pend, 2, Len(Pend))
      /\ Len(Pend) \in Nat \ {0} /\ Pend[1] = job /\ SubSeq(Pend, 1, 1) = <<job>>
  <2>1. PICK b : b = wrBatch
    OBVIOUS
  <2>0. b \in Seq(WrCall) /\ b # <<>>
    BY <1>1, <1>2, <2>1
  <2>2. PICK t : t = [j \in 1..(Len(b) - 1) |-> b[j + 1]]
    OBVIOUS
  <2>3. /\ t \in Seq(WrCall) /\ t \o rest = SubSeq(b \o rest, 2, Len(b \o rest))
        /\ Len(b \o rest) \in Nat \ {0} /\ (b \o rest)[1] = b[1] /\ SubSeq(b \o rest, 1, 1) = <<b[1]>>
    BY <2>0, <2>2, CutFirst
  <2>4. wrBatch' = t /\ Pend = b \o rest
    BY <1>3, <1>4, <2>1, <2>2
  <2> QED BY <2>1, <2>3, <2>4
<1>6. Pend' = SubSeq(Pend, 1 + 1, Len(Pend)) /\ 1 \in 1..Len(Pend) /\ Pend \in Seq(WrCall)
  <2>1. Pend' = wrBatch' \o rest
    BY <1>1, <1>4 DEF Pend
  <2>2. Pend \in Seq(WrCall)
    BY TableFacts
  <2> QED BY <1>5, <2>1, <2>2
<1>7. /\ IsSequence(wrCommits) /\ Len(wrCommits) \in Nat \ {0}
      /\ wrCall \in [WrCall -> {"none", "waits", "sent", "ok", "error", "closed", "lost"}]
      /\ wrCall' \in [WrCall -> {"none", "waits", "sent", "ok", "error", "closed", "lost"}]
  <2>1. IsSequence(wrCommits) /\ wrSafe \in 1..Len(wrCommits)
    BY DEF TableInv, SyncInv, Kept
  <2>2. PICK S : wrCommits \in Seq(S)
    BY <2>1 DEF IsSequence
  <2> QED BY <2>1, <2>2 DEF TableInv, SyncInv, Kept
<1>8. now # T!Error
  BY <1>7 DEF TableInv, RowsLeft
<1> HIDE DEF now
<1>9. /\ InTransaction(<<job>>) = T!Written(now, job)
      /\ rows[0] = now /\ rows[1] = IF works THEN T!Written(now, job) ELSE now
  <2> HIDE DEF job, refused
  <2> QED BY <1>8, OneTaken DEF now
<1>10. works <=> ok /\ InTransaction(<<job>>) # T!Error
  BY <1>9 DEF T!Takes
<1>11. new.rows = InTransaction(<<job>>)
  OBVIOUS
<1>12. /\ wrCall' = [wrCall EXCEPT ![job] = IF works THEN "ok" ELSE "error"]
       /\ IF works THEN wrCommits' = Append(wrCommits, new) ELSE wrCommits' = wrCommits
  <2>1. CASE works
    <3>1. Committed(<<job>>) /\ wrCall' = [wrCall EXCEPT ![job] = "ok"]
      BY <1>10, <2>1 DEF Replay, NextJob
    <3> QED BY <2>1, <3>1 DEF Committed
  <2>2. CASE ~works
    <3>1. UNCHANGED wrDisk /\ wrCall' = [wrCall EXCEPT ![job] = "error"]
      BY <1>10, <2>2 DEF Replay, NextJob
    <3> QED BY <2>2, <3>1 DEF wrDisk
  <2> QED BY <2>1, <2>2
<1>13. QueuesTyped'
  BY <1>1, <1>5 DEF TableInv, QueuesTyped
<1>14. SentOnce'
  <2>1. \A c \in WrCall : IF \E j \in 1..1 : Pend[j] = c THEN wrCall'[c] \in {"ok", "error"} ELSE wrCall'[c] = wrCall[c]
    <3> SUFFICES ASSUME NEW c \in WrCall PROVE IF c = job THEN wrCall'[c] \in {"ok", "error"} ELSE wrCall'[c] = wrCall[c]
      BY <1>5
    <3> HIDE DEF works, job
    <3> QED BY <1>2, <1>7, <1>12
  <2> QED BY <1>1, <1>6, <1>7, <2>1, HeadDecided
<1> HIDE DEF new, rows, works
<1>15. RowsLeft'
  <2>1. CASE works
    <3>1. wrCommits' = Append(wrCommits, new)
      BY <1>12, <2>1
    <3>2. /\ \A i \in 1..Len(wrCommits) : wrCommits'[i] = wrCommits[i]
          /\ wrCommits'[Len(wrCommits) + 1] = new /\ Len(wrCommits') = Len(wrCommits) + 1
      BY <1>7, <3>1, Appended
    <3>3. ASSUME NEW i \in 1..Len(wrCommits') PROVE wrCommits'[i].rows # T!Error
      <4>1. i \in 1..Len(wrCommits) \/ i = Len(wrCommits) + 1
        BY <1>7, <3>2
      <4> QED BY <1>10, <1>11, <2>1, <3>2, <4>1 DEF TableInv, RowsLeft
    <3> QED BY <3>3 DEF RowsLeft
  <2>2. CASE ~works
    <3>1. wrCommits' = wrCommits
      BY <1>12, <2>2
    <3> QED BY <3>1 DEF TableInv, RowsLeft
  <2> QED BY <2>1, <2>2
<1>16. Contents(wrCommits)' = IF works THEN Append(Contents(wrCommits), rows[1]) ELSE Contents(wrCommits)
  <2>1. CASE works
    <3>1. wrCommits' = Append(wrCommits, new) /\ new.rows = rows[1]
      BY <1>9, <1>11, <1>12, <2>1
    <3> QED BY <1>7, <2>1, <3>1, ContentsGrow
  <2>2. CASE ~works
    <3>1. wrCommits' = wrCommits
      BY <1>12, <2>2
    <3> QED BY <2>2, <3>1
  <2> QED BY <2>1, <2>2
<1>17. \A c \in WrCall : Out'[c] = IF c = job THEN (IF works THEN "ok" ELSE "error") ELSE Out[c]
  <2> HIDE DEF job
  <2> QED BY <1>2, <1>7, <1>12 DEF Out
<1>18. <<job>>[1] = job /\ \A j \in 1..1 : j = 1 /\ j - 1 = 0
  OBVIOUS
<1>19. Deciding(1, <<job>>, refused, rows)
  <2>1. refused \in {{}} \cup {{Pend[j]} : j \in 1..1}
    <3>1. 1 \in 1..1 /\ refused \in {{}, {Pend[1]}}
      BY <1>5
    <3> QED BY <3>1
  <2>2. rows = T!After(Contents(wrCommits)[Len(Contents(wrCommits))], <<job>>, refused)
    BY <1>7, ContentsGrow DEF rows, now
  <2>3. wrRefused' = wrRefused + IF refused = {} THEN 0 ELSE 1
    BY <1>1
  <2> HIDE DEF job, refused
  <2>4. Out' = [c \in WrCall |->
          IF \E j \in 1..1 : <<job>>[j] = c
            THEN IF \E j \in 1..1 : <<job>>[j] = c /\ T!Takes(rows[j - 1], c, refused) THEN "ok" ELSE "error"
            ELSE Out[c]]
    <3>1. Out' = [c \in WrCall |-> Out'[c]]
      BY DEF Out
    <3>2. \A c \in WrCall : (\E j \in 1..1 : <<job>>[j] = c) <=> c = job
      BY <1>18
    <3>3. (\E j \in 1..1 : <<job>>[j] = job /\ T!Takes(rows[j - 1], job, refused)) <=> works
      BY <1>9, <1>18 DEF works
    <3> QED BY <1>17, <3>1, <3>2, <3>3
  <2>5. (\E j \in 1..1 : Out'[<<job>>[j]] = "ok") <=> works
    BY <1>2, <1>17, <1>18
  <2> QED BY <1>5, <1>6, <1>16, <2>1, <2>2, <2>3, <2>4, <2>5 DEF Deciding
<1>20. T!TableNext
  <2> HIDE DEF job, refused
  <2> QED BY <1>6, <1>19, Decides
<1> QED BY <1>13, <1>14, <1>15, <1>20

LEMMA EndTells ==
  ASSUME TableInv, NEW ok \in BOOLEAN, EndOfBatch(ok)
  PROVE  QueuesTyped' /\ SentOnce' /\ RowsLeft' /\ [T!TableNext]_(T!tableVars)
<1>1. /\ UNCHANGED <<wrWaits, wrBatch, wrCommits, wrRefused>>
      /\ \/ wrChan' = <<>> /\ wrCall' = [c \in WrCall |-> IF wrCall[c] = "sent" THEN "closed" ELSE wrCall[c]]
         \/ wrPhase' = "recv" /\ UNCHANGED <<wrChan, wrCall>>
  BY DEF EndOfBatch, wrHistory
<1>2. wrBatch = <<>>
  BY DEF EndOfBatch, TableInv, SyncInv, Holds
<1>3. CASE wrPhase' = "recv" /\ UNCHANGED <<wrChan, wrCall>>
  <2>1. Pend' = Pend
    BY <1>1, <1>3 DEF Pend
  <2>2. QueuesTyped'
    BY <1>1, <1>3 DEF TableInv, QueuesTyped
  <2> QED BY <1>1, <1>3, <2>1, <2>2, Unseen
<1>4. CASE wrChan' = <<>> /\ wrCall' = [c \in WrCall |-> IF wrCall[c] = "sent" THEN "closed" ELSE wrCall[c]]
  <2>1. PICK nil : nil = <<>>
    OBVIOUS
  <2>2. nil \in Seq(WrCall) /\ nil \in Seq(WrCall \cup Controls) /\ DOMAIN nil = {} /\ nil \o nil = nil /\ Sans(nil, Controls) = nil
    BY <2>1, SansNone
  <2>3. Pend' = nil
    BY <1>1, <1>2, <1>4, <2>1, <2>2 DEF Pend
  <2>4. QueuesTyped'
    BY <1>1, <1>4, <2>1, <2>2 DEF TableInv, QueuesTyped
  <2>5. SentOnce'
    <3>1. Once(nil) /\ Held(nil) = {}
      BY <2>2 DEF Once, Held
    <3>2. /\ {c \in WrCall : wrCall'[c] = "sent"} = {}
          /\ {c \in WrCall : wrCall'[c] = "waits"} = {c \in WrCall : wrCall[c] = "waits"}
      BY <1>4
    <3> QED BY <1>1, <2>1, <2>3, <3>1, <3>2, TableFacts DEF SentOnce
  <2>6. RowsLeft' /\ Contents(wrCommits)' = Contents(wrCommits)
    BY <1>1 DEF TableInv, RowsLeft
  <2>7. Out' = [c \in WrCall |-> IF c \in Held(Pend) THEN "closed" ELSE Out[c]]
    BY <1>4, TableFacts DEF Out
  <2>8. CASE Held(Pend) = {}
    <3>1. Pend = nil
      <4>1. Pend \in Seq(WrCall) /\ \A j \in 1..Len(Pend) : Pend[j] \in Held(Pend)
        BY TableFacts DEF Held
      <4>2. Len(Pend) = 0
        BY <2>8, <4>1
      <4> QED BY <2>1, <4>1, <4>2
    <3>2. Out' = Out
      BY <2>7, <2>8 DEF Out
    <3>3. UNCHANGED Shown
      BY <1>1, <2>3, <2>6, <3>1, <3>2 DEF Shown
    <3> QED BY <2>4, <2>5, <2>6, <3>3, Stutters
  <2>9. CASE Held(Pend) # {}
    <3>1. PICK gone \in SUBSET WrCall : gone = Held(Pend)
      BY TableFacts
    <3>2. /\ gone # {} /\ \A c \in gone : Out[c] = "asked"
          /\ \A j \in DOMAIN Pend : Pend[j] \in gone
      BY <2>9, <3>1, TableFacts DEF Out, Held
    <3>3. Pend' = <<>> /\ Out' = [c \in WrCall |-> IF c \in gone THEN "closed" ELSE Out[c]]
      BY <2>1, <2>3, <2>7, <3>1
    <3>4. T!TurnAway(gone)
      BY <1>1, <2>6, <3>2, <3>3 DEF T!TurnAway, Out, Pend, Controls, Contents
    <3> QED BY <2>4, <2>5, <2>6, <3>4 DEF T!TableNext
  <2> QED BY <2>8, <2>9
<1> QED BY <1>1, <1>3, <1>4

LEMMA KilledTells ==
  ASSUME TableInv, NEW n \in wrSafe..Len(wrCommits), Killed(n)
  PROVE  QueuesTyped' /\ SentOnce' /\ RowsLeft' /\ T!TableNext
<1>1. /\ wrCommits' = SubSeq(wrCommits, 1, n) /\ wrRefused' = wrRefused
      /\ wrCall' = [c \in WrCall |-> IF wrCall[c] \in {"waits", "sent"} THEN "lost" ELSE wrCall[c]]
      /\ wrWaits' = <<>> /\ wrChan' = <<>> /\ wrBatch' = <<>> /\ wrPhase' = "recv"
  BY DEF Killed, wrHistory
<1>2. IsSequence(wrCommits) /\ Len(wrCommits) \in Nat \ {0} /\ n \in 1..Len(wrCommits)
  <2>1. IsSequence(wrCommits) /\ wrSafe \in 1..Len(wrCommits)
    BY DEF TableInv, SyncInv, Kept
  <2>2. PICK S : wrCommits \in Seq(S)
    BY <2>1 DEF IsSequence
  <2> QED BY <2>1, <2>2
<1>3. PICK nil : nil = <<>>
  OBVIOUS
<1>4. nil \in Seq(WrCall) /\ nil \in Seq(WrCall \cup Controls) /\ DOMAIN nil = {} /\ nil \o nil = nil /\ Sans(nil, Controls) = nil
  BY <1>3, SansNone
<1>5. Pend' = nil
  BY <1>1, <1>3, <1>4 DEF Pend
<1>6. QueuesTyped'
  BY <1>1, <1>3, <1>4 DEF TableInv, QueuesTyped
<1>7. SentOnce'
  <2>1. Once(nil) /\ Held(nil) = {}
    BY <1>4 DEF Once, Held
  <2>2. {c \in WrCall : wrCall'[c] = "sent"} = {} /\ {c \in WrCall : wrCall'[c] = "waits"} = {}
    BY <1>1
  <2> QED BY <1>1, <1>3, <1>5, <2>1, <2>2 DEF SentOnce
<1>8. RowsLeft'
  <2>1. Len(wrCommits') = n /\ \A i \in 1..n : wrCommits'[i] = wrCommits[i] /\ i \in 1..Len(wrCommits)
    BY <1>1, <1>2, CutAt
  <2> QED BY <2>1 DEF TableInv, RowsLeft
<1>9. n \in DOMAIN Contents(wrCommits) /\ Contents(wrCommits)' = SubSeq(Contents(wrCommits), 1, n)
  BY <1>1, <1>2, ContentsGrow
<1>10. Out' = [c \in WrCall |-> IF Out[c] = "asked" THEN "lost" ELSE Out[c]]
  BY <1>1, TableFacts DEF Out
<1>11. Pend' = <<>>
  BY <1>3, <1>5
<1>12. T!Lose(n)
  BY <1>1, <1>9, <1>10, <1>11 DEF T!Lose, Out, Pend, Controls, Contents
<1> QED BY <1>6, <1>7, <1>8, <1>9, <1>12 DEF T!TableNext, Contents

LEMMA TableKeeps == TableInv /\ [WriterNext]_wrVars => TableInv' /\ [T!TableNext]_(T!tableVars)
<1> SUFFICES ASSUME TableInv, [WriterNext]_wrVars
             PROVE  TableInv' /\ [T!TableNext]_(T!tableVars)
  OBVIOUS
<1>1. SyncInv'
  BY SyncKeeps DEF TableInv
<1> SUFFICES QueuesTyped' /\ SentOnce' /\ RowsLeft' /\ [T!TableNext]_(T!tableVars)
  BY <1>1 DEF TableInv
<1>2. ASSUME NEW c \in WrCall, Write(c) PROVE QueuesTyped' /\ SentOnce' /\ RowsLeft' /\ T!TableNext
  BY <1>2, WriteTells DEF T!TableNext
<1>3. CASE Permit
  BY <1>3, PermitTells
<1>4. CASE AskCheckpoint \/ AskClose
  BY <1>4, AskTells
<1>5. CASE ThreadStep
  <2>1. CASE Recv \/ Extend \/ WindowEnds \/ Drain \/ Drained \/ Replayed
    BY <2>1, GatherTells
  <2>2. ASSUME NEW ok \in BOOLEAN, Commit(ok) \/ Replay(ok) \/ EndOfBatch(ok)
        PROVE  QueuesTyped' /\ SentOnce' /\ RowsLeft' /\ [T!TableNext]_(T!tableVars)
    BY <1>1, <2>2, CommitTells, ReplayTells, EndTells
  <2> QED BY <1>5, <2>1, <2>2 DEF ThreadStep
<1>6. ASSUME NEW n \in wrSafe..Len(wrCommits), Killed(n) PROVE QueuesTyped' /\ SentOnce' /\ RowsLeft' /\ T!TableNext
  BY <1>6, KilledTells
<1>7. CASE UNCHANGED wrVars
  <2>1. UNCHANGED <<wrCall, wrWaits, wrChan, wrBatch, wrCommits, wrRefused, wrPhase>>
    BY <1>7 DEF wrVars, wrOut, wrDisk, wrHistory
  <2>2. Pend' = Pend
    BY <2>1 DEF Pend
  <2>3. QueuesTyped'
    BY <2>1 DEF TableInv, QueuesTyped
  <2> QED BY <2>1, <2>2, <2>3, Unseen
<1> QED BY <1>2, <1>3, <1>4, <1>5, <1>6, <1>7 DEF WriterNext

(* The writer implements the table, for any calls, operations, permits,    *)
(* batch size and faults, and whatever the window does: batching, the      *)
(* replay of a failed batch, checkpoints, the close and a power loss never *)
(* show a caller half a write, a reordered one, one refused without cause  *)
(* or one left without an answer.                                          *)
THEOREM WriterImplementsTable == WriterSpec => WriterIsTable
<1>1. WriterInit => TableInv /\ T!TableInit
  BY TableInvStarts
<1>2. TableInv /\ [WriterNext]_wrVars => TableInv' /\ [T!TableNext]_(T!tableVars)
  BY TableKeeps
<1> QED BY <1>1, <1>2, PTL DEF WriterSpec, WriterIsTable, T!TableSpec

-----------------------------------------------------------------------------
(* What the writer holds at once.                                          *)
Few(S) == IsFiniteSet(S) /\ Cardinality(S) <= WrPermits
Limits ==
  /\ Few(Permitted) /\ Len(wrBatch) <= WrBatch /\ wrEnd \in {"none", "checkpoint", "close"}
  /\ wrOpen \in BOOLEAN /\ wrDrained \subseteq WrSyncs

LEMMA FewLess == ASSUME NEW S, Few(S), NEW U, U \subseteq S PROVE Few(U)
<1>1. IsFiniteSet(U) /\ Cardinality(U) <= Cardinality(S) /\ Cardinality(U) \in Nat /\ Cardinality(S) \in Nat
  BY FS_Subset, FS_CardinalityType DEF Few
<1> QED BY <1>1, WrAssumption DEF Few

LEMMA LimitsStart == WriterInit => Limits
<1> SUFFICES ASSUME WriterInit PROVE Limits
  OBVIOUS
<1>1. Permitted = {}
  BY DEF WriterInit, Permitted
<1>2. Few({})
  BY FS_EmptySet, WrAssumption DEF Few
<1> QED BY <1>1, <1>2, WrAssumption DEF Limits, WriterInit

(* A message that is taken is a job, or ends the batch.                    *)
LEMMA TakesWithin ==
  ASSUME TableInv, Limits, wrChan # <<>>, NEW sync, NEW phase, Takes(Head(wrChan), sync, phase), Len(wrBatch) < WrBatch
  PROVE  Len(wrBatch') <= WrBatch /\ wrEnd' \in {"none", "checkpoint", "close"} /\ UNCHANGED wrOut
<1>1. wrBatch \in Seq(WrCall) /\ wrChan \in Seq(WrCall \cup Controls)
  BY DEF TableInv, QueuesTyped
<1>2. PICK S, q : S = WrCall \cup Controls /\ q = wrChan
  OBVIOUS
<1>3. Head(wrChan) \in WrCall \cup Controls
  <2>1. q \in Seq(S) /\ q # <<>>
    BY <1>1, <1>2
  <2>2. Head(q) \in S
    BY <2>1
  <2> QED BY <1>2, <2>2
<1>4. CASE Head(wrChan) \in WrCall
  <2>1. wrBatch' = Append(wrBatch, Head(wrChan)) /\ wrEnd' = wrEnd
    BY <1>4 DEF Takes
  <2>2. Len(wrBatch') = Len(wrBatch) + 1 /\ Len(wrBatch) \in Nat
    BY <1>1, <2>1
  <2> QED BY <2>1, <2>2, WrAssumption DEF Takes, Limits
<1>5. CASE Head(wrChan) \notin WrCall
  BY <1>3, <1>5 DEF Takes, Limits, Controls
<1> QED BY <1>4, <1>5

LEMMA PermitWithin == ASSUME TableInv, Limits, Permit PROVE Few(Permitted')
<1>1. PICK c : c = Head(wrWaits)
  OBVIOUS
<1>2. /\ Cardinality(Permitted) < WrPermits
      /\ wrCall' = [wrCall EXCEPT ![c] = "closed"] \/ wrCall' = [wrCall EXCEPT ![c] = "sent"]
  BY <1>1 DEF Permit
<1>3. Permitted' \subseteq Permitted \cup {c}
  BY <1>2 DEF Permitted, TableInv, SyncInv, Kept
<1>4. IsFiniteSet(Permitted) /\ Cardinality(Permitted) \in Nat
  BY FS_CardinalityType DEF Limits, Few
<1>5. IsFiniteSet(Permitted \cup {c}) /\ Cardinality(Permitted \cup {c}) <= Cardinality(Permitted) + 1
  BY <1>4, FS_AddElement
<1>6. Few(Permitted \cup {c})
  <2>1. Cardinality(Permitted \cup {c}) \in Nat
    BY <1>5, FS_CardinalityType
  <2> QED BY <1>2, <1>4, <1>5, <2>1, WrAssumption DEF Few
<1> QED BY <1>3, <1>6, FewLess

LEMMA LimitsKeep == ASSUME TableInv, Limits, [WriterNext]_wrVars PROVE Limits'
<1> DEFINE Less == \A c \in WrCall : wrCall'[c] = "sent" => wrCall[c] = "sent"
           Rest == wrDrained' \subseteq WrSyncs
           Within == Len(wrBatch') <= WrBatch
           Ends == wrEnd' \in {"none", "checkpoint", "close"}
<1>1. Less => Few(Permitted')
  <2>1. Less => Permitted' \subseteq Permitted
    BY DEF Permitted
  <2> QED BY <2>1, FewLess DEF Limits
<1>2. /\ wrBatch \in Seq(WrCall) /\ Len(wrBatch) \in Nat /\ WrBatch \in Nat \ {0} /\ Len(wrBatch) <= WrBatch
      /\ wrCall \in [WrCall -> {"none", "waits", "sent", "ok", "error", "closed", "lost"}]
      /\ wrPhase \in {"recv", "after", "gone"} => wrBatch = <<>>
      /\ wrEnd \in {"none", "checkpoint", "close"} /\ wrOpen \in BOOLEAN /\ wrDrained \subseteq WrSyncs
  BY WrAssumption DEF TableInv, SyncInv, Kept, QueuesTyped, Holds, Limits
<1>3. ASSUME NEW c \in WrCall, Write(c) PROVE Limits'
  BY <1>1, <1>2, <1>3 DEF Write, Limits, wrHistory
<1>4. CASE Permit
  BY <1>2, <1>4, PermitWithin DEF Permit, Limits, wrHistory
<1>5. CASE AskCheckpoint \/ AskClose
  BY <1>1, <1>2, <1>5 DEF AskCheckpoint, AskClose, wrOut, wrHistory, Limits
<1>6. CASE Recv
  <2>1. Len(wrBatch) < WrBatch
    BY <1>2, <1>6 DEF Recv
  <2>2. Within /\ Ends /\ UNCHANGED wrOut
    BY <1>6, <2>1, TakesWithin DEF Recv
  <2> QED BY <1>1, <1>2, <1>6, <2>2 DEF Recv, Limits, wrOut
<1>7. CASE Extend
  <2>1. Within /\ Ends /\ UNCHANGED wrOut
    BY <1>7, TakesWithin DEF Extend, WindowOpen
  <2> QED BY <1>1, <1>2, <1>7, <2>1 DEF Extend, Limits, wrOut
<1>8. CASE Drain
  <2>1. Within /\ Ends /\ UNCHANGED wrOut
    BY <1>8, TakesWithin DEF Drain
  <2> QED BY <1>1, <1>2, <1>8, <2>1 DEF Drain, Limits, wrOut
<1>9. CASE WindowEnds \/ Drained \/ Replayed \/ UNCHANGED wrVars
  BY <1>1, <1>2, <1>9 DEF WindowEnds, Drained, Replayed, wrVars, wrOut, wrHistory, Limits
<1>10. ASSUME NEW ok \in BOOLEAN, Commit(ok) PROVE Limits'
  <2>1. Less /\ UNCHANGED <<wrOpen, wrEnd, wrDrained>>
    BY <1>2, <1>10 DEF Commit, wrHistory
  <2>2. wrBatch' = <<>> \/ wrBatch' = wrBatch
    BY <1>10 DEF Commit
  <2> QED BY <1>1, <1>2, <2>1, <2>2 DEF Limits
<1>11. ASSUME NEW ok \in BOOLEAN, Replay(ok) PROVE Limits'
  <2>1. Less /\ UNCHANGED <<wrOpen, wrEnd, wrDrained>>
    BY <1>2, <1>11 DEF Replay
  <2>2. wrBatch' = [j \in 1..(Len(wrBatch) - 1) |-> IF j < NextJob THEN wrBatch[j] ELSE wrBatch[j + 1]] /\ wrBatch # <<>>
    BY <1>11 DEF Replay
  <2>3. Len(wrBatch) >= 1
    BY <1>2, <2>2
  <2>4. Len(wrBatch') = Len(wrBatch) - 1
    BY <1>2, <2>2, <2>3
  <2> QED BY <1>1, <1>2, <2>1, <2>4 DEF Limits
<1>12. ASSUME NEW ok \in BOOLEAN, EndOfBatch(ok) PROVE Limits'
  <2>1. Less /\ UNCHANGED <<wrOpen, wrBatch, wrDrained>> /\ wrEnd' = "none"
    BY <1>2, <1>12 DEF EndOfBatch, wrHistory
  <2> QED BY <1>1, <1>2, <2>1 DEF Limits
<1>13. ASSUME NEW n, Killed(n) PROVE Limits'
  <2>1. Less /\ wrOpen' = TRUE /\ wrBatch' = <<>> /\ wrDrained' = wrDrained /\ wrEnd' = "none"
    BY <1>2, <1>13 DEF Killed, wrHistory
  <2> QED BY <1>1, <1>2, <2>1 DEF Limits
<1> QED BY <1>3, <1>4, <1>5, <1>6, <1>7, <1>8, <1>9, <1>10, <1>11, <1>12, <1>13 DEF WriterNext, ThreadStep

LEMMA WriterStep == ASSUME TableInv, Limits, [WriterNext]_wrVars PROVE TableInv' /\ Limits'
BY TableKeeps, LimitsKeep

LEMMA LimitsTyped == TableInv /\ Limits => WriterTypeOK
BY DEF TableInv, SyncInv, Kept, QueuesTyped, Controls, Limits, Few, WriterTypeOK

(* The writer's queues keep their types, no more calls have been sent and  *)
(* not answered than there are permits, and no batch holds more jobs than  *)
(* a transaction may.                                                      *)
THEOREM WriterTypesHold == WriterSpec => []WriterTypeOK
<1>1. TableInv /\ Limits => WriterTypeOK
  BY LimitsTyped
<1>2. TableInv /\ Limits /\ [WriterNext]_wrVars => TableInv' /\ Limits'
  BY WriterStep
<1>3. WriterInit => TableInv /\ Limits
  BY TableInvStarts, LimitsStart
<1> QED BY <1>1, <1>2, <1>3, PTL DEF WriterSpec
=============================================================================
