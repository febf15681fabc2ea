---------------------------- MODULE ServerProofs ----------------------------
(***************************************************************************)
(* What TLAPS proves about the parts of the server that wait for others:   *)
(* the push notifications, for any activities, tokens and batches; the     *)
(* board of the Telegram bot, for any jobs, inbox and number of failed     *)
(* calls; a playlist, for any number of entries, batch size, window of     *)
(* terminal rows, commands and crashes; the shutdown, whichever tasks run  *)
(* and are slow; and the types of the instance that joins the four.        *)
(***************************************************************************)
EXTENDS MCServer, ListProofs, SequenceTheorems

-----------------------------------------------------------------------------
(* The strengthening of ApnsOneLife: the events come in the order they     *)
(* were told, no start is younger than what is still to come; and where an *)
(* item has been started no end is on its way, nor where a start of this   *)
(* run is.                                                                 *)
ApEvent == [n : 1..ApEvents, from : Shown, to : Shown \cup {"gone", "done"}]
ApTrack == [live : BOOLEAN, records : SUBSET Token, fresh : BOOLEAN, sent : [Token -> SentType],
            pending : Shown \cup {"none"}, armed : BOOLEAN]
ApTask == [n : 1..ApEvents, kind : TaskKind, pc : {"begin", "step", "claim", "remove"}, got : BOOLEAN, records : SUBSET Token]
ApnsOrdered ==
  /\ Len(apQueue) <= ApInbox
  /\ apHandler.pc = "step" => apHandler.n \in 1..ApEvents
  /\ \A i, j \in 1..Len(apQueue) : i <= j => apQueue[i].n <= apQueue[j].n
  /\ \A i \in 1..Len(apQueue) : apQueue[i].n <= apSeen /\ \A k \in apTasks : k.kind = "start" => k.n <= apQueue[i].n
  /\ \A k \in apTasks : k.kind = "start" => k.n <= apSeen
ApnsStarted ==
  "overlap" \notin apExcuse =>
    /\ apStarts = 0 \/ (apStarts = 1 /\ apStarted /\ ~Ending)
    /\ \A k \in apTasks : k.kind = "start" /\ k.n > apRunAt => ~Ending
ApnsEnded == (apEndSent # {} => apOver) /\ \A t \in apEndSent : apTop[t] = "end"
ApnsInv == ApnsTypeOK /\ ApnsOrdered /\ apRunAt \in 0..ApEvents /\ ApnsStarted /\ apEndSent \subseteq Token /\ ApnsEnded

LEMMA ApnsTypes ==
  ASSUME ApnsInv
  PROVE  /\ apStatus \in Shown \cup {"gone"} /\ apSeen \in 0..ApEvents /\ apSeen \in Nat /\ ApEvents \in Nat /\ ApInbox \in Nat \ {0}
         /\ apQueue \in Seq(ApEvent) /\ Len(apQueue) \in Nat
         /\ apReg \subseteq apMinted /\ apMinted \subseteq Token /\ apReg \subseteq Token
         /\ \A t, u \in apReg : Owner[t] = Owner[u] => t = u
         /\ apStarted \in BOOLEAN /\ apOver \in BOOLEAN
         /\ apTrack \in ApTrack /\ (apTrack.live \/ apTrack = NoTrack)
         /\ apHandler \in [pc : {"idle", "step"}, n : 0..ApEvents, status : Shown \cup {"none"}, got : BOOLEAN, records : SUBSET Token]
         /\ apTasks \subseteq ApTask
         /\ apTop \in [Token -> {"none", "update", "end"}] /\ apExcuse \subseteq Reason
BY ApAssumption DEF ApnsInv, ApnsTypeOK, ApEvent, ApTrack, ApTask

LEMMA NoTrackTyped == NoTrack \in ApTrack /\ NotSent \in SentType /\ ~NoTrack.live /\ NoTrack.pending = "none" /\ NoTrack.records = {}
<1>1. NotSent \in SentType
  BY DEF NotSent, SentType
<1>2. [t \in Token |-> NotSent] \in [Token -> SentType]
  BY <1>1
<1> QED BY <1>1, <1>2 DEF NoTrack, ApTrack

LEMMA ApnsStarts == ApnsInit => ApnsInv
<1> SUFFICES ASSUME ApnsInit PROVE ApnsInv
  OBVIOUS
<1>1. ApnsTypeOK
  <2>1. Idle \in [pc : {"idle", "step"}, n : 0..ApEvents, status : Shown \cup {"none"}, got : BOOLEAN, records : SUBSET Token]
    BY ApAssumption DEF Idle
  <2>2. apTop \in [Token -> {"none", "update", "end"}] /\ apQueue \in Seq([n : 1..ApEvents, from : Shown, to : Shown \cup {"gone", "done"}])
    BY DEF ApnsInit
  <2>3. apTrack \in ApTrack
    BY NoTrackTyped DEF ApnsInit
  <2> QED BY <2>1, <2>2, <2>3, ApAssumption DEF ApnsInit, ApnsTypeOK, ApTrack, Shown
<1>2. ApnsOrdered
  <2>1. Len(apQueue) = 0 /\ apTasks = {} /\ apHandler.pc = "idle"
    BY DEF ApnsInit, Idle
  <2> QED BY <2>1, ApAssumption DEF ApnsOrdered
<1>3. apRunAt \in 0..ApEvents /\ apEndSent \subseteq Token /\ ApnsEnded
  BY ApAssumption DEF ApnsInit, ApnsEnded
<1>4. ApnsStarted
  BY DEF ApnsInit, ApnsStarted
<1> QED BY <1>1, <1>2, <1>3, <1>4 DEF ApnsInv

-----------------------------------------------------------------------------
(* What a pass over the track makes of it.                                 *)
LEMMA StoreRecordsIs ==
  ASSUME NEW tr \in ApTrack, NEW got \in BOOLEAN, NEW records \in SUBSET Token, tr.live \/ tr = NoTrack
  PROVE  StoreRecords(tr, got, records) \in ApTrack
         /\ (StoreRecords(tr, got, records).live \/ StoreRecords(tr, got, records) = NoTrack)
<1>1. CASE ~got
  BY <1>1 DEF StoreRecords
<1>2. CASE got
  <2> DEFINE sent == [t \in Token |-> IF t \in records THEN tr.sent[t] ELSE NotSent]
  <2>1. sent \in [Token -> SentType]
    BY NoTrackTyped DEF ApTrack
  <2> HIDE DEF sent
  <2>2. StoreRecords(tr, got, records) = [tr EXCEPT !.live = TRUE, !.records = records, !.fresh = TRUE, !.sent = sent]
    BY <1>2 DEF StoreRecords, sent
  <2> QED BY <2>1, <2>2 DEF ApTrack
<1> QED BY <1>1, <1>2

LEMMA PendingIs ==
  ASSUME NEW tr \in ApTrack, NEW incoming \in Shown \cup {"none"}
  PROVE  Pending(tr, incoming) \in ApTrack /\ Pending(tr, incoming).live = tr.live
         /\ (incoming = "none" => Pending(tr, incoming) = tr)
<1>1. CASE incoming = "none"
  BY <1>1 DEF Pending
<1>2. CASE incoming # "none"
  <2> DEFINE sent == [t \in Token |-> [tr.sent[t] EXCEPT !.newest = FALSE]]
  <2>1. sent \in [Token -> SentType]
    BY DEF ApTrack, SentType
  <2> HIDE DEF sent
  <2>2. Pending(tr, incoming) = [tr EXCEPT !.pending = incoming, !.sent = sent]
    BY <1>2 DEF Pending, sent
  <2> QED BY <1>2, <2>1, <2>2 DEF ApTrack
<1> QED BY <1>1, <1>2

LEMMA SteppedIs ==
  ASSUME NEW tr \in ApTrack, NEW timer \in BOOLEAN
  PROVE  Stepped(tr, timer) \in ApTrack /\ Stepped(tr, timer).live = tr.live
         /\ (~tr.live => Stepped(tr, timer) = tr)
<1>1. CASE ~tr.live
  BY <1>1 DEF Stepped
<1>2. CASE tr.live
  <2> DEFINE sent == [t \in Token |-> IF t \in Targets(tr) THEN [status |-> tr.pending, newest |-> TRUE, recent |-> TRUE]
                               ELSE tr.sent[t]]
             more == More(tr)
             armed == (more \/ (tr.armed /\ ~timer))
  <2>1. sent \in [Token -> SentType]
    BY DEF ApTrack, SentType
  <2>2. armed \in BOOLEAN
    OBVIOUS
  <2>3. Stepped(tr, timer) = [tr EXCEPT !.sent = sent, !.pending = IF more THEN tr.pending ELSE "none", !.armed = armed]
    BY <1>2 DEF Stepped
  <2> HIDE DEF sent, more, armed
  <2>4. (IF more THEN tr.pending ELSE "none") \in Shown \cup {"none"}
    BY DEF ApTrack
  <2> QED BY <1>2, <2>1, <2>2, <2>3, <2>4 DEF ApTrack
<1> QED BY <1>1, <1>2

LEMMA TargetsIs == ASSUME NEW tr \in ApTrack PROVE Targets(tr) \subseteq Token
BY DEF Targets, Owing, ApTrack

LEMMA PushIs ==
  ASSUME ApnsInv, NEW tokens \in SUBSET Token, NEW kind \in {"update", "end"}, Push(tokens, kind)
  PROVE  /\ apTop' \in [Token -> {"none", "update", "end"}]
         /\ \A t \in Token : apTop'[t] = IF t \in tokens THEN kind ELSE apTop[t]
BY ApnsTypes DEF Push

LEMMA NewTaskIs ==
  ASSUME NEW n \in 1..ApEvents, NEW kind \in TaskKind
  PROVE  NewTask(n, kind) \in ApTask /\ NewTask(n, kind).kind = kind /\ NewTask(n, kind).n = n
BY DEF NewTask, ApTask

(* What a fault, and what none, leaves of what went wrong.                 *)
LEMMA FineIs == ASSUME ApnsInv, Fine PROVE apExcuse' \subseteq Reason /\ ("overlap" \in apExcuse <=> "overlap" \in apExcuse')
BY ApnsTypes DEF Fine
LEMMA WrongIs ==
  ASSUME ApnsInv, NEW why \in SUBSET Reason, Wrong(why)
  PROVE  apExcuse' \subseteq Reason /\ ("overlap" \in apExcuse => "overlap" \in apExcuse')
BY ApnsTypes DEF Wrong

-----------------------------------------------------------------------------
(* What a step keeps when it leaves what matters alone.                    *)
StartTask(k) == k.kind = "start"

LEMMA TypedKept ==
  ASSUME ApnsInv, apStatus' \in Shown \cup {"gone"}, apSeen' \in 0..ApEvents, apQueue' \in Seq(ApEvent),
         apReg' \subseteq apMinted', apMinted' \subseteq Token, \A t, u \in apReg' : Owner[t] = Owner[u] => t = u,
         apStarted' \in BOOLEAN, apOver' \in BOOLEAN, apTrack' \in ApTrack, apTrack'.live \/ apTrack' = NoTrack,
         apHandler' \in [pc : {"idle", "step"}, n : 0..ApEvents, status : Shown \cup {"none"}, got : BOOLEAN, records : SUBSET Token],
         apTasks' \subseteq ApTask, apTop' \in [Token -> {"none", "update", "end"}], apExcuse' \subseteq Reason
  PROVE  ApnsTypeOK'
BY DEF ApnsTypeOK, ApEvent, ApTrack, ApTask

LEMMA OrderedKept ==
  ASSUME ApnsInv, apQueue' = apQueue, apSeen' = apSeen, \A k \in apTasks' : StartTask(k) => k \in apTasks,
         apHandler'.pc = "step" => apHandler'.n \in 1..ApEvents
  PROVE  ApnsOrdered'
BY DEF ApnsInv, ApnsOrdered, StartTask

LEMMA OrderedTail ==
  ASSUME ApnsInv, apQueue # <<>>, apQueue' = Tail(apQueue), apSeen' = apSeen,
         \A k \in apTasks' : StartTask(k) => k \in apTasks \/ k.n = Head(apQueue).n,
         apHandler'.pc = "step" => apHandler'.n \in 1..ApEvents
  PROVE  ApnsOrdered' /\ apQueue' \in Seq(ApEvent) /\ Head(apQueue) \in ApEvent
<1>1. /\ apQueue \in Seq(ApEvent) /\ Len(apQueue) \in Nat /\ Len(apQueue) > 0
  BY ApnsTypes
<1>2. /\ apQueue' \in Seq(ApEvent) /\ Len(apQueue') = Len(apQueue) - 1 /\ Head(apQueue) = apQueue[1]
      /\ \A i \in 1..Len(apQueue') : apQueue'[i] = apQueue[i + 1]
  BY <1>1, HeadTailProperties
<1>3. \A i \in 1..Len(apQueue') : i + 1 \in 1..Len(apQueue)
  BY <1>1, <1>2
<1>4. Head(apQueue) \in ApEvent /\ 1 \in 1..Len(apQueue)
  BY <1>1, <1>2
<1>5. \A i, j \in 1..Len(apQueue') : i <= j => apQueue'[i].n <= apQueue'[j].n
  <2> SUFFICES ASSUME NEW i \in 1..Len(apQueue'), NEW j \in 1..Len(apQueue'), i <= j PROVE apQueue'[i].n <= apQueue'[j].n
    OBVIOUS
  <2>1. i + 1 <= j + 1
    BY <1>1, <1>2
  <2> QED BY <1>2, <1>3, <2>1 DEF ApnsInv, ApnsOrdered
<1>6. ASSUME NEW i \in 1..Len(apQueue'), NEW k \in apTasks', StartTask(k) PROVE k.n <= apQueue'[i].n
  <2>1. apQueue[1].n <= apQueue[i + 1].n
    <3>1. 1 <= i + 1
      BY <1>1, <1>2
    <3> QED BY <1>3, <1>4, <3>1 DEF ApnsInv, ApnsOrdered
  <2>2. k \in apTasks => k.n <= apQueue[i + 1].n
    BY <1>3, <1>6 DEF ApnsInv, ApnsOrdered, StartTask
  <2> QED BY <1>2, <1>6, <2>1, <2>2
<1>7. \A i \in 1..Len(apQueue') : apQueue'[i].n <= apSeen'
  BY <1>2, <1>3 DEF ApnsInv, ApnsOrdered
<1>8. ASSUME NEW k \in apTasks', StartTask(k) PROVE k.n <= apSeen'
  BY <1>2, <1>4, <1>8 DEF ApnsInv, ApnsOrdered, StartTask
<1>9. Len(apQueue') <= ApInbox
  BY <1>1, <1>2, ApnsTypes DEF ApnsInv, ApnsOrdered
<1> QED BY <1>2, <1>4, <1>5, <1>6, <1>7, <1>8, <1>9 DEF ApnsOrdered, StartTask

LEMMA StartedKept ==
  ASSUME ApnsInv, "overlap" \in apExcuse => "overlap" \in apExcuse', apStarts' = apStarts, apRunAt' = apRunAt,
         apStarted => apStarted', \A k \in apTasks' : StartTask(k) => k \in apTasks,
         \A k \in apTasks' : k.kind = "complete" => Ending
  PROVE  ApnsStarted'
<1>1. Ending' => Ending
  BY DEF Ending
<1> QED BY <1>1 DEF ApnsInv, ApnsStarted, StartTask

LEMMA EndedKept ==
  ASSUME ApnsInv, apEndSent' = apEndSent, apOver => apOver', \A t \in apEndSent : apTop'[t] = apTop[t]
  PROVE  ApnsEnded' /\ apEndSent' \subseteq Token
BY DEF ApnsInv, ApnsEnded

(* The engine, the phone and the snapshot.                                 *)
LEMMA EmitKeeps == ASSUME ApnsInv, NEW to \in Shown \cup {"gone"}, Emit(to) PROVE ApnsInv'
<1> DEFINE size == IF to = "over" THEN 2 ELSE 1
           told == [e \in 1..size |-> [n |-> apSeen + 1, from |-> apStatus, to |-> IF e = 1 THEN to ELSE "done"]]
           room == ApInbox - Len(apQueue)
           many == IF room < Len(told) THEN room ELSE Len(told)
           kept == SubSeq(told, 1, many)
<1>1. /\ <<apStatus, to>> \in Moves /\ apSeen < ApEvents /\ apStatus' = to /\ apSeen' = apSeen + 1
      /\ apQueue' = apQueue \o kept /\ (IF Len(told) <= room THEN Fine ELSE Wrong({"lost"}))
      /\ apReg' = (IF to = "gone" THEN {} ELSE apReg) /\ apMinted' = apMinted
      /\ apStarted' = apStarted /\ apOver' = apOver /\ apTrack' = apTrack /\ apHandler' = apHandler /\ apTasks' = apTasks
      /\ apTop' = apTop /\ apEndSent' = apEndSent /\ apStarts' = apStarts /\ apRunAt' = apRunAt
  BY DEF Emit, apMemory, apHistory
<1>2. apStatus \in Shown /\ apSeen + 1 \in 1..ApEvents /\ apSeen \in Nat /\ apSeen + 1 \in 0..ApEvents
  BY <1>1, ApnsTypes DEF Moves, Shown
<1>3. told \in Seq(ApEvent) /\ Len(told) = size /\ size \in Nat
  BY <1>2 DEF ApEvent
<1>4. \A e \in 1..size : told[e].n = apSeen + 1
  OBVIOUS
<1> HIDE DEF told, size
<1>5. /\ kept \in Seq(ApEvent) /\ Len(kept) \in Nat /\ Len(kept) <= room /\ \A e \in 1..Len(kept) : kept[e].n = apSeen + 1
  <2>1. room \in Nat
    BY ApnsTypes DEF ApnsInv, ApnsOrdered
  <2>2. many \in Nat /\ many <= size /\ many <= room
    BY <1>3, <2>1
  <2> HIDE DEF many
  <2>3. CASE many = 0
    <3>1. kept = <<>>
      BY <2>3, SubSeqEmpty
    <3> HIDE DEF kept, room
    <3>2. Len(kept) = 0 /\ kept \in Seq(ApEvent)
      BY <3>1
    <3> QED BY <2>1, <3>2
  <2>4. CASE many >= 1
    <3>1. many \in 1..Len(told)
      BY <1>3, <2>2, <2>4
    <3>2. /\ kept \in Seq(ApEvent) /\ Len(kept) = many
          /\ \A e \in 1..many : kept[e] = told[e]
      BY <1>3, <3>1
    <3>3. many \in Nat /\ \A e \in 1..many : e \in 1..size
      BY <1>3, <2>2, <2>4
    <3> QED BY <1>4, <2>2, <3>2, <3>3
  <2> QED BY <2>2, <2>3, <2>4
<1> HIDE DEF kept, room
<1>6. apQueue \in Seq(ApEvent) /\ Len(apQueue) \in Nat
  BY ApnsTypes
<1>7. /\ apQueue' \in Seq(ApEvent) /\ Len(apQueue') = Len(apQueue) + Len(kept)
      /\ \A i \in 1..(Len(apQueue) + Len(kept)) : apQueue'[i] = IF i <= Len(apQueue) THEN apQueue[i] ELSE kept[i - Len(apQueue)]
  BY <1>1, <1>5, <1>6, ConcatProperties
<1>8. \A i \in 1..Len(apQueue') : (i <= Len(apQueue) /\ i \in 1..Len(apQueue) /\ apQueue'[i] = apQueue[i])
                                   \/ (i > Len(apQueue) /\ apQueue'[i].n = apSeen + 1)
  <2> SUFFICES ASSUME NEW i \in 1..Len(apQueue')
               PROVE (i <= Len(apQueue) /\ i \in 1..Len(apQueue) /\ apQueue'[i] = apQueue[i])
                                   \/ (i > Len(apQueue) /\ apQueue'[i].n = apSeen + 1)
    OBVIOUS
  <2>1. CASE i <= Len(apQueue)
    BY <1>6, <1>7, <2>1
  <2>2. CASE ~(i <= Len(apQueue))
    <3>1. i - Len(apQueue) \in 1..Len(kept)
      BY <1>5, <1>6, <1>7, <2>2
    <3> QED BY <1>5, <1>6, <1>7, <2>2, <3>1
  <2> QED BY <2>1, <2>2
<1>9. apExcuse' \subseteq Reason /\ ("overlap" \in apExcuse => "overlap" \in apExcuse')
  BY <1>1, FineIs, WrongIs DEF Reason
<1>10. ApnsTypeOK'
  <2>1. apReg' \subseteq apMinted' /\ apMinted' \subseteq Token /\ \A t, u \in apReg' : Owner[t] = Owner[u] => t = u
    BY <1>1, ApnsTypes
  <2>2. apTrack' \in ApTrack /\ (apTrack'.live \/ apTrack' = NoTrack)
    BY <1>1, ApnsTypes
  <2>3. /\ apStarted' \in BOOLEAN /\ apOver' \in BOOLEAN /\ apTasks' \subseteq ApTask /\ apTop' \in [Token -> {"none", "update", "end"}]
        /\ apStatus' \in Shown \cup {"gone"} /\ apSeen' \in 0..ApEvents
    BY <1>1, <1>2, ApnsTypes
  <2>4. apHandler' \in [pc : {"idle", "step"}, n : 0..ApEvents, status : Shown \cup {"none"}, got : BOOLEAN, records : SUBSET Token]
    BY <1>1, ApnsTypes
  <2> QED BY <1>7, <1>9, <2>1, <2>2, <2>3, <2>4, TypedKept
<1>11. ApnsOrdered'
  <2>0. Len(apQueue') <= ApInbox
    <3>1. room = ApInbox - Len(apQueue)
      BY DEF room
    <3> QED BY <1>5, <1>6, <1>7, <3>1, ApnsTypes
  <2>1. \A i \in 1..Len(apQueue) : apQueue[i].n <= apSeen /\ apQueue[i].n \in Nat
    <3> SUFFICES ASSUME NEW i \in 1..Len(apQueue) PROVE apQueue[i].n <= apSeen /\ apQueue[i].n \in Nat
      OBVIOUS
    <3>1. apQueue[i] \in ApEvent
      BY <1>6
    <3>2. apQueue[i].n \in Nat
      BY <3>1, ApnsTypes DEF ApEvent
    <3> QED BY <3>2 DEF ApnsInv, ApnsOrdered
  <2>2. \A i, j \in 1..Len(apQueue') : i <= j => apQueue'[i].n <= apQueue'[j].n
    <3> SUFFICES ASSUME NEW i \in 1..Len(apQueue'), NEW j \in 1..Len(apQueue'), i <= j PROVE apQueue'[i].n <= apQueue'[j].n
      OBVIOUS
    <3>1. CASE j <= Len(apQueue)
      <4>1. i \in 1..Len(apQueue) /\ j \in 1..Len(apQueue) /\ apQueue'[i] = apQueue[i] /\ apQueue'[j] = apQueue[j]
        BY <1>6, <1>8, <3>1
      <4> QED BY <4>1 DEF ApnsInv, ApnsOrdered
    <3>2. CASE ~(j <= Len(apQueue))
      <4>1. apQueue'[j].n = apSeen + 1
        BY <1>8, <3>2
      <4>2. apQueue'[i].n <= apSeen + 1
        BY <1>2, <1>8, <2>1
      <4> QED BY <4>1, <4>2
    <3> QED BY <3>1, <3>2
  <2>3. ASSUME NEW k \in apTasks, k.kind = "start"
        PROVE  k.n <= apSeen + 1 /\ \A i \in 1..Len(apQueue') : k.n <= apQueue'[i].n
    <3>1. k.n <= apSeen /\ k.n \in Nat /\ \A i \in 1..Len(apQueue) : k.n <= apQueue[i].n
      BY <2>3, ApnsTypes DEF ApnsInv, ApnsOrdered, ApTask
    <3> QED BY <1>2, <1>8, <3>1
  <2>4. \A i \in 1..Len(apQueue') : apQueue'[i].n <= apSeen + 1
    BY <1>2, <1>8, <2>1
  <2> QED BY <1>1, <2>0, <2>2, <2>3, <2>4 DEF ApnsInv, ApnsOrdered
<1>12. ApnsStarted'
  BY <1>1, <1>9, StartedKept DEF Ending
<1>13. ApnsEnded' /\ apEndSent' \subseteq Token
  BY <1>1, EndedKept
<1> QED BY <1>1, <1>10, <1>11, <1>12, <1>13 DEF ApnsInv

(* A step that touches no more than the registrations, the track's throttle*)
(* and the count of faults.                                                *)
LEMMA PhoneKeeps ==
  ASSUME ApnsInv, apStatus' = apStatus, apSeen' = apSeen, apQueue' = apQueue, apStarted' = apStarted, apOver' = apOver,
         apHandler' = apHandler, apTasks' = apTasks, apHistory' = apHistory,
         apReg' \subseteq apMinted', apMinted' \subseteq Token, \A t, u \in apReg' : Owner[t] = Owner[u] => t = u,
         apTrack' \in ApTrack, apTrack'.live \/ apTrack' = NoTrack,
         apExcuse' \subseteq Reason, "overlap" \in apExcuse => "overlap" \in apExcuse'
  PROVE  ApnsInv'
<1> USE DEF apHistory
<1>1. ApnsTypeOK'
  BY ApnsTypes, TypedKept
<1>2. ApnsOrdered'
  BY OrderedKept DEF ApnsInv, ApnsOrdered
<1>3. ApnsStarted'
  BY StartedKept DEF Ending
<1>4. ApnsEnded' /\ apEndSent' \subseteq Token
  BY EndedKept
<1> QED BY <1>1, <1>2, <1>3, <1>4 DEF ApnsInv

LEMMA RegisterKeeps == ASSUME ApnsInv, NEW t \in Token, Register(t) PROVE ApnsInv'
<1>1. /\ apStatus' = apStatus /\ apSeen' = apSeen /\ apQueue' = apQueue /\ apStarted' = apStarted /\ apOver' = apOver
      /\ apHandler' = apHandler /\ apTasks' = apTasks /\ apHistory' = apHistory /\ apTrack' = apTrack /\ apExcuse' = apExcuse
      /\ apMinted' = apMinted \cup {t} /\ apReg' = {u \in apReg : Owner[u] # Owner[t]} \cup {t}
  BY DEF Register, apMemory
<1>2. apReg' \subseteq apMinted' /\ apMinted' \subseteq Token /\ \A u, v \in apReg' : Owner[u] = Owner[v] => u = v
  BY <1>1, ApnsTypes
<1> QED BY <1>1, <1>2, ApnsTypes, PhoneKeeps

LEMMA PruneKeeps == ASSUME ApnsInv, NEW t \in Token, Prune(t) PROVE ApnsInv'
<1>1. /\ apStatus' = apStatus /\ apSeen' = apSeen /\ apQueue' = apQueue /\ apStarted' = apStarted /\ apOver' = apOver
      /\ apHandler' = apHandler /\ apTasks' = apTasks /\ apHistory' = apHistory /\ apMinted' = apMinted
      /\ apTrack' = [apTrack EXCEPT !.fresh = FALSE]
      /\ apReg' = {u \in apReg : Owner[u] # Owner[t]} /\ Wrong({})
  BY DEF Prune
<1>2. apReg' \subseteq apMinted' /\ apMinted' \subseteq Token /\ \A u, v \in apReg' : Owner[u] = Owner[v] => u = v
  BY <1>1, ApnsTypes
<1>3. apTrack' \in ApTrack /\ (apTrack'.live \/ apTrack' = NoTrack)
  <2>1. apTrack \in ApTrack /\ (apTrack.live \/ apTrack = NoTrack)
    BY ApnsTypes
  <2>2. apTrack' \in ApTrack /\ apTrack'.live = apTrack.live
    BY <1>1, <2>1 DEF ApTrack
  <2>3. apTrack = NoTrack => apTrack' = NoTrack
    <3> SUFFICES ASSUME apTrack = NoTrack PROVE apTrack' = NoTrack
      OBVIOUS
    <3>1. apTrack.fresh = FALSE
      BY DEF NoTrack
    <3>2. /\ apTrack'.live = apTrack.live /\ apTrack'.records = apTrack.records /\ apTrack'.fresh = apTrack.fresh
          /\ apTrack'.sent = apTrack.sent /\ apTrack'.pending = apTrack.pending /\ apTrack'.armed = apTrack.armed
      BY <1>1, <2>1, <3>1 DEF ApTrack
    <3> HIDE DEF NoTrack
    <3>3. apTrack' = apTrack
      BY <2>1, <2>2, <3>2 DEF ApTrack
    <3> QED BY <3>3
  <2> QED BY <2>1, <2>2, <2>3
<1>4. apExcuse' \subseteq Reason /\ ("overlap" \in apExcuse => "overlap" \in apExcuse')
  BY <1>1, WrongIs
<1> QED BY <1>1, <1>2, <1>3, <1>4, PhoneKeeps

LEMMA TimePassesKeeps == ASSUME ApnsInv, CacheAges \/ \E t \in Token : WindowPasses(t) PROVE ApnsInv'
<1>1. /\ apEngine' = apEngine /\ apQueue' = apQueue /\ apStarted' = apStarted /\ apOver' = apOver
      /\ apHandler' = apHandler /\ apTasks' = apTasks /\ apHistory' = apHistory /\ apExcuse' = apExcuse
  BY DEF CacheAges, WindowPasses
<1>2. apTrack \in ApTrack /\ (apTrack.live \/ apTrack = NoTrack)
  BY ApnsTypes
<1>3. apTrack' \in ApTrack /\ (apTrack'.live \/ apTrack' = NoTrack)
  <2>1. CASE CacheAges
    <3>1. apTrack' = [apTrack EXCEPT !.fresh = FALSE] /\ apTrack.fresh
      BY <2>1 DEF CacheAges
    <3>2. apTrack' \in ApTrack /\ apTrack'.live = apTrack.live
      BY <1>2, <3>1 DEF ApTrack
    <3>3. apTrack # NoTrack
      BY <3>1 DEF NoTrack
    <3> QED BY <1>2, <3>2, <3>3
  <2>2. ASSUME NEW t \in Token, WindowPasses(t) PROVE apTrack' \in ApTrack /\ (apTrack'.live \/ apTrack' = NoTrack)
    <3>1. apTrack' = [apTrack EXCEPT !.sent[t].recent = FALSE] /\ apTrack.sent[t].recent
      BY <2>2 DEF WindowPasses
    <3>2. apTrack.sent \in [Token -> SentType]
      BY <1>2 DEF ApTrack
    <3> DEFINE sent == [apTrack.sent EXCEPT ![t].recent = FALSE]
    <3>3. sent \in [Token -> SentType]
      BY <3>2 DEF SentType
    <3> HIDE DEF sent
    <3>4. apTrack' = [apTrack EXCEPT !.sent = sent]
      BY <3>1 DEF sent
    <3>5. apTrack' \in ApTrack /\ apTrack'.live = apTrack.live
      BY <1>2, <3>3, <3>4 DEF ApTrack
    <3>6. apTrack # NoTrack
      BY <3>1 DEF NoTrack, NotSent
    <3> QED BY <1>2, <3>5, <3>6
  <2> QED BY <2>1, <2>2
<1> QED BY <1>1, <1>3, ApnsTypes, PhoneKeeps DEF apEngine

-----------------------------------------------------------------------------
(* The event loop.                                                         *)
LEMMA TakeChangedKeeps == ASSUME ApnsInv, NEW room \in BOOLEAN, NEW readable \in BOOLEAN, TakeChanged(room, readable) PROVE ApnsInv'
<1> DEFINE ev == Head(apQueue)
           edge == StartEdge(ev)
           start == NewTask(ev.n, "start")
<1>1. /\ apQueue # <<>> /\ apQueue' = Tail(apQueue) /\ ev.to \in Shown
      /\ apOver' = (apOver /\ ~edge) /\ apEndSent' = (IF edge THEN {} ELSE apEndSent)
      /\ apTasks' = (IF edge /\ ~apStarted /\ room THEN apTasks \cup {start} ELSE apTasks)
      /\ apHandler' = (IF readable THEN [pc |-> "step", n |-> ev.n, status |-> ev.to, got |-> ~apTrack.fresh,
                                         records |-> IF apTrack.fresh THEN {} ELSE apReg] ELSE Idle)
      /\ apStatus' = apStatus /\ apSeen' = apSeen /\ apReg' = apReg /\ apMinted' = apMinted
      /\ apStarted' = apStarted /\ apTrack' = apTrack /\ apTop' = apTop /\ apStarts' = apStarts /\ apRunAt' = apRunAt
  BY DEF TakeChanged, Takes, apEngine
<1>2. ev \in ApEvent
  <2>1. apQueue \in Seq(ApEvent) /\ Len(apQueue) > 0
    BY <1>1, ApnsTypes
  <2> QED BY <2>1, HeadTailProperties
<1>3. start \in ApTask /\ start.kind = "start" /\ start.n = ev.n
  BY <1>2, NewTaskIs DEF ApEvent, TaskKind
<1>4. /\ apExcuse' \subseteq Reason /\ ("overlap" \in apExcuse => "overlap" \in apExcuse')
      /\ (edge /\ Ending => "overlap" \in apExcuse')
  <2> DEFINE overlap == IF edge /\ Ending THEN {"overlap"} ELSE {}
             why == overlap \cup IF readable THEN {} ELSE {"unread"}
  <2>1. overlap \subseteq Reason /\ why \subseteq Reason /\ overlap \subseteq why /\ (edge /\ Ending => "overlap" \in overlap)
    BY DEF Reason
  <2>2. IF room /\ readable THEN apFaults' = apFaults /\ apExcuse' = apExcuse \cup overlap ELSE Wrong(why)
    BY DEF TakeChanged
  <2> HIDE DEF overlap, why
  <2>3. CASE room /\ readable
    BY <2>1, <2>2, <2>3, ApnsTypes
  <2>4. CASE ~(room /\ readable)
    <3>1. Wrong(why) /\ apExcuse' = apExcuse \cup why
      BY <2>2, <2>4 DEF Wrong
    <3> QED BY <2>1, <3>1, ApnsTypes
  <2> QED BY <2>3, <2>4
<1>5. apHandler' \in [pc : {"idle", "step"}, n : 0..ApEvents, status : Shown \cup {"none"}, got : BOOLEAN, records : SUBSET Token]
      /\ (apHandler'.pc = "step" => apHandler'.n \in 1..ApEvents)
  <2>1. CASE ~readable
    BY <1>1, <2>1, ApnsTypes DEF Idle
  <2>2. CASE readable
    <3>1. (~apTrack.fresh) \in BOOLEAN /\ (IF apTrack.fresh THEN {} ELSE apReg) \in SUBSET Token
      BY ApnsTypes
    <3>2. ev.n \in 1..ApEvents /\ ev.n \in 0..ApEvents /\ ev.to \in Shown \cup {"none"}
      BY <1>1, <1>2, ApnsTypes DEF ApEvent
    <3> HIDE DEF ev
    <3> QED BY <1>1, <2>2, <3>1, <3>2
  <2> QED BY <2>1, <2>2
<1> HIDE DEF start, edge
<1>6. apTasks' \subseteq ApTask /\ \A k \in apTasks' : k \in apTasks \/ (k = start /\ edge)
  BY <1>1, <1>3, ApnsTypes
<1>7. ApnsOrdered' /\ apQueue' \in Seq(ApEvent)
  BY <1>1, <1>3, <1>5, <1>6, OrderedTail
<1>8. ApnsTypeOK'
  <2>1. apOver' \in BOOLEAN
    <3>1. (apOver /\ ~edge) \in BOOLEAN
      OBVIOUS
    <3> QED BY <1>1, <3>1
  <2>2. apReg' \subseteq apMinted' /\ apMinted' \subseteq Token /\ \A t, u \in apReg' : Owner[t] = Owner[u] => t = u
    BY <1>1, ApnsTypes
  <2>3. apTrack' \in ApTrack /\ (apTrack'.live \/ apTrack' = NoTrack) /\ apStarted' \in BOOLEAN
    BY <1>1, ApnsTypes
  <2>4. apTop' \in [Token -> {"none", "update", "end"}] /\ apStatus' \in Shown \cup {"gone"} /\ apSeen' \in 0..ApEvents
    BY <1>1, ApnsTypes
  <2> QED BY <1>4, <1>5, <1>6, <1>7, <2>1, <2>2, <2>3, <2>4, TypedKept
<1>9. ApnsStarted'
  <2> SUFFICES ASSUME "overlap" \notin apExcuse'
               PROVE  /\ apStarts' = 0 \/ (apStarts' = 1 /\ apStarted' /\ ~Ending')
                      /\ \A k \in apTasks' : k.kind = "start" /\ k.n > apRunAt' => ~Ending'
    BY DEF ApnsStarted
  <2>1. Ending' => Ending
    <3> SUFFICES ASSUME NEW k \in apTasks', k.kind = "complete" PROVE Ending
      BY DEF Ending
    <3> QED BY <1>3, <1>6 DEF Ending
  <2>2. "overlap" \notin apExcuse /\ (edge => ~Ending)
    BY <1>4
  <2>3. ASSUME NEW k \in apTasks', k.kind = "start", k.n > apRunAt' PROVE ~Ending'
    BY <1>1, <1>6, <2>1, <2>2, <2>3 DEF ApnsInv, ApnsStarted
  <2> QED BY <1>1, <2>1, <2>2, <2>3 DEF ApnsInv, ApnsStarted
<1>10. ApnsEnded' /\ apEndSent' \subseteq Token
  <2>1. CASE edge
    BY <1>1, <2>1 DEF ApnsEnded
  <2>2. CASE ~edge
    BY <1>1, <2>2 DEF ApnsInv, ApnsEnded
  <2> QED BY <2>1, <2>2
<1>11. apRunAt' \in 0..ApEvents
  BY <1>1 DEF ApnsInv
<1> QED BY <1>7, <1>8, <1>9, <1>10, <1>11 DEF ApnsInv

LEMMA TakeCompletedKeeps == ASSUME ApnsInv, NEW room \in BOOLEAN, TakeCompleted(room) PROVE ApnsInv'
<1> DEFINE ev == Head(apQueue)
           end == NewTask(ev.n, "complete")
<1>1. /\ apQueue # <<>> /\ apQueue' = Tail(apQueue)
      /\ apOver' = TRUE /\ apStarts' = 0 /\ apRunAt' = ev.n
      /\ apTasks' = (IF room THEN apTasks \cup {end} ELSE apTasks)
      /\ (IF room THEN Fine ELSE Wrong({"refused"}))
      /\ apStatus' = apStatus /\ apSeen' = apSeen /\ apReg' = apReg /\ apMinted' = apMinted
      /\ apStarted' = apStarted /\ apTrack' = apTrack /\ apHandler' = apHandler /\ apTop' = apTop /\ apEndSent' = apEndSent
  BY DEF TakeCompleted, Takes, apEngine
<1>2. ev \in ApEvent
  <2>1. apQueue \in Seq(ApEvent) /\ Len(apQueue) > 0
    BY <1>1, ApnsTypes
  <2> QED BY <2>1, HeadTailProperties
<1>3. end \in ApTask /\ end.kind = "complete"
  BY <1>2, NewTaskIs DEF ApEvent, TaskKind
<1>4. apExcuse' \subseteq Reason /\ ("overlap" \in apExcuse => "overlap" \in apExcuse')
  BY <1>1, FineIs, WrongIs DEF Reason
<1> HIDE DEF end
<1>5. apTasks' \subseteq ApTask /\ \A k \in apTasks' : StartTask(k) => k \in apTasks
  BY <1>1, <1>3, ApnsTypes DEF StartTask
<1>6. ApnsOrdered' /\ apQueue' \in Seq(ApEvent)
  BY <1>1, <1>5, OrderedTail DEF ApnsInv, ApnsOrdered
<1>7. ApnsTypeOK'
  <2>2. apReg' \subseteq apMinted' /\ apMinted' \subseteq Token /\ \A t, u \in apReg' : Owner[t] = Owner[u] => t = u
    BY <1>1, ApnsTypes
  <2>3. apTrack' \in ApTrack /\ (apTrack'.live \/ apTrack' = NoTrack) /\ apStarted' \in BOOLEAN /\ apOver' \in BOOLEAN
    BY <1>1, ApnsTypes
  <2>4. apTop' \in [Token -> {"none", "update", "end"}] /\ apStatus' \in Shown \cup {"gone"} /\ apSeen' \in 0..ApEvents
    BY <1>1, ApnsTypes
  <2>5. apHandler' \in [pc : {"idle", "step"}, n : 0..ApEvents, status : Shown \cup {"none"}, got : BOOLEAN, records : SUBSET Token]
    BY <1>1, ApnsTypes
  <2> QED BY <1>4, <1>5, <1>6, <2>2, <2>3, <2>4, <2>5, TypedKept
<1>8. ApnsStarted'
  <2>1. ASSUME NEW k \in apTasks', k.kind = "start" PROVE ~(k.n > apRunAt')
    <3>1. k \in apTasks /\ k \in ApTask
      BY <1>5, <2>1 DEF StartTask
    <3>2. 1 \in 1..Len(apQueue) /\ ev = apQueue[1]
      BY <1>1, ApnsTypes
    <3>3. k.n <= ev.n
      BY <2>1, <3>1, <3>2 DEF ApnsInv, ApnsOrdered
    <3>4. k.n \in Nat /\ ev.n \in Nat
      BY <1>2, <3>1, ApnsTypes DEF ApTask, ApEvent
    <3> QED BY <1>1, <3>3, <3>4
  <2> QED BY <1>1, <2>1 DEF ApnsStarted
<1>9. ApnsEnded' /\ apEndSent' \subseteq Token
  BY <1>1, EndedKept
<1>10. apRunAt' \in 0..ApEvents
  BY <1>1, <1>2, ApnsTypes DEF ApEvent
<1> QED BY <1>6, <1>7, <1>8, <1>9, <1>10 DEF ApnsInv

LEMMA TakeRemovedKeeps == ASSUME ApnsInv, TakeRemoved PROVE ApnsInv'
<1> DEFINE ev == Head(apQueue)
<1>1. /\ apQueue # <<>> /\ apQueue' = Tail(apQueue)
      /\ apStarted' = FALSE /\ apTrack' = NoTrack /\ apStarts' = 0 /\ apRunAt' = ev.n
      /\ apStatus' = apStatus /\ apSeen' = apSeen /\ apReg' = apReg /\ apMinted' = apMinted /\ apOver' = apOver
      /\ apHandler' = apHandler /\ apTasks' = apTasks /\ apTop' = apTop /\ apEndSent' = apEndSent /\ apExcuse' = apExcuse
  BY DEF TakeRemoved, Takes, apEngine
<1>2. ev \in ApEvent
  <2>1. apQueue \in Seq(ApEvent) /\ Len(apQueue) > 0
    BY <1>1, ApnsTypes
  <2> QED BY <2>1, HeadTailProperties
<1>3. ApnsOrdered' /\ apQueue' \in Seq(ApEvent)
  BY <1>1, OrderedTail DEF ApnsInv, ApnsOrdered
<1>4. ApnsTypeOK'
  <2>2. apReg' \subseteq apMinted' /\ apMinted' \subseteq Token /\ \A t, u \in apReg' : Owner[t] = Owner[u] => t = u
    BY <1>1, ApnsTypes
  <2>3. apTrack' \in ApTrack /\ (apTrack'.live \/ apTrack' = NoTrack) /\ apStarted' \in BOOLEAN /\ apOver' \in BOOLEAN
    BY <1>1, ApnsTypes, NoTrackTyped
  <2>4. apTop' \in [Token -> {"none", "update", "end"}] /\ apStatus' \in Shown \cup {"gone"} /\ apSeen' \in 0..ApEvents
    BY <1>1, ApnsTypes
  <2>5. /\ apHandler' \in [pc : {"idle", "step"}, n : 0..ApEvents, status : Shown \cup {"none"}, got : BOOLEAN, records : SUBSET Token]
        /\ apTasks' \subseteq ApTask /\ apExcuse' \subseteq Reason
    BY <1>1, ApnsTypes
  <2> QED BY <1>3, <2>2, <2>3, <2>4, <2>5, TypedKept
<1>5. ApnsStarted'
  <2>1. ASSUME NEW k \in apTasks', k.kind = "start" PROVE ~(k.n > apRunAt')
    <3>1. k \in apTasks /\ k \in ApTask
      BY <1>1, <2>1, ApnsTypes
    <3>2. 1 \in 1..Len(apQueue) /\ ev = apQueue[1]
      BY <1>1, ApnsTypes
    <3>3. k.n <= ev.n
      BY <2>1, <3>1, <3>2 DEF ApnsInv, ApnsOrdered
    <3>4. k.n \in Nat /\ ev.n \in Nat
      BY <1>2, <3>1, ApnsTypes DEF ApTask, ApEvent
    <3> QED BY <1>1, <3>3, <3>4
  <2> QED BY <1>1, <2>1 DEF ApnsStarted
<1>6. ApnsEnded' /\ apEndSent' \subseteq Token
  BY <1>1, EndedKept
<1>7. apRunAt' \in 0..ApEvents
  BY <1>1, <1>2, ApnsTypes DEF ApEvent
<1> QED BY <1>3, <1>4, <1>5, <1>6, <1>7 DEF ApnsInv

(* No update is claimed for an item that has ended.                        *)
LEMMA UpdatesKeep ==
  ASSUME ApnsInv, NEW tr \in ApTrack, NEW room \in BOOLEAN, Push(IF room THEN Claimed(tr) ELSE {}, "update"),
         apEndSent' = apEndSent, apOver' = apOver
  PROVE  apTop' \in [Token -> {"none", "update", "end"}] /\ ApnsEnded' /\ apEndSent' \subseteq Token
<1> DEFINE tokens == IF room THEN Claimed(tr) ELSE {}
<1>1. tokens \subseteq Token /\ (apOver => tokens = {})
  BY TargetsIs DEF Claimed
<1> HIDE DEF tokens
<1>2. Push(tokens, "update")
  BY DEF tokens
<1>3. apTop' \in [Token -> {"none", "update", "end"}] /\ \A t \in Token : apTop'[t] = IF t \in tokens THEN "update" ELSE apTop[t]
  BY <1>1, <1>2, PushIs
<1>4. \A t \in apEndSent : apTop'[t] = apTop[t]
  BY <1>1, <1>3 DEF ApnsInv, ApnsEnded
<1> QED BY <1>3, <1>4, EndedKept

LEMMA HandlerStepKeeps == ASSUME ApnsInv, NEW room \in BOOLEAN, HandlerStep(room) PROVE ApnsInv'
<1>1. /\ apHandler.pc = "step" /\ apHandler' = Idle /\ apStatus' = apStatus /\ apSeen' = apSeen /\ apReg' = apReg /\ apMinted' = apMinted
      /\ apQueue' = apQueue /\ apStarted' = apStarted /\ apOver' = apOver /\ apEndSent' = apEndSent /\ apStarts' = apStarts /\ apRunAt' = apRunAt
  BY DEF HandlerStep, apEngine
<1> DEFINE held == StoreRecords(apTrack, apHandler.got, apHandler.records)
           tr == Pending(held, apHandler.status)
           arms == More(tr) /\ ~tr.armed
           timer == NewTask(apHandler.n, "timer")
<1>2. /\ apTrack' = (IF tr.live THEN Stepped(tr, FALSE) ELSE apTrack)
      /\ apTasks' = (IF arms /\ room THEN apTasks \cup {timer} ELSE apTasks)
      /\ Push(IF room THEN Claimed(tr) ELSE {}, "update")
      /\ (IF room THEN Fine ELSE (arms \/ Claimed(tr) # {}) /\ Wrong({"refused"}))
  BY DEF HandlerStep
<1>3. apHandler.got \in BOOLEAN /\ apHandler.records \in SUBSET Token /\ apHandler.status \in Shown \cup {"none"} /\ apHandler.n \in 1..ApEvents
  BY <1>1, ApnsTypes DEF ApnsInv, ApnsOrdered
<1>4. held \in ApTrack
  BY <1>3, ApnsTypes, StoreRecordsIs
<1> HIDE DEF held
<1>5. tr \in ApTrack
  BY <1>3, <1>4, PendingIs
<1>6. timer \in ApTask /\ timer.kind = "timer"
  BY <1>3, NewTaskIs DEF TaskKind
<1> HIDE DEF tr, timer, arms
<1>7. apTrack' \in ApTrack /\ (apTrack'.live \/ apTrack' = NoTrack)
  <2>1. CASE tr.live
    <3>1. Stepped(tr, FALSE) \in ApTrack /\ Stepped(tr, FALSE).live = tr.live
      BY <1>5, SteppedIs
    <3> QED BY <1>2, <2>1, <3>1
  <2>2. CASE ~tr.live
    BY <1>2, <2>2, ApnsTypes
  <2> QED BY <2>1, <2>2
<1>8. apTasks' \subseteq ApTask /\ \A k \in apTasks' : k \in apTasks \/ k.kind = "timer"
  BY <1>2, <1>6, ApnsTypes
<1>9. apExcuse' \subseteq Reason /\ ("overlap" \in apExcuse => "overlap" \in apExcuse')
  BY <1>2, FineIs, WrongIs DEF Reason
<1>10. apTop' \in [Token -> {"none", "update", "end"}] /\ ApnsEnded' /\ apEndSent' \subseteq Token
  BY <1>1, <1>2, <1>5, UpdatesKeep
<1>11. apHandler' \in [pc : {"idle", "step"}, n : 0..ApEvents, status : Shown \cup {"none"}, got : BOOLEAN, records : SUBSET Token]
       /\ apHandler'.pc = "idle"
  BY <1>1, ApnsTypes DEF Idle
<1>12. ApnsTypeOK'
  <2>1. apReg' \subseteq apMinted' /\ apMinted' \subseteq Token /\ \A t, u \in apReg' : Owner[t] = Owner[u] => t = u
    BY <1>1, ApnsTypes
  <2>2. apStarted' \in BOOLEAN /\ apOver' \in BOOLEAN /\ apStatus' \in Shown \cup {"gone"} /\ apSeen' \in 0..ApEvents /\ apQueue' \in Seq(ApEvent)
    BY <1>1, ApnsTypes
  <2> QED BY <1>7, <1>8, <1>9, <1>10, <1>11, <2>1, <2>2, TypedKept
<1>13. ApnsOrdered'
  BY <1>1, <1>8, <1>11, OrderedKept DEF StartTask
<1>14. ApnsStarted'
  BY <1>1, <1>8, <1>9, StartedKept DEF StartTask, Ending
<1> QED BY <1>1, <1>10, <1>12, <1>13, <1>14 DEF ApnsInv

-----------------------------------------------------------------------------
(* The tasks.                                                              *)
LEMMA TaskTyped ==
  ASSUME ApnsInv, NEW k \in apTasks
  PROVE  k \in ApTask /\ k.n \in 1..ApEvents /\ k.kind \in TaskKind /\ k.got \in BOOLEAN /\ k.records \in SUBSET Token
BY ApnsTypes DEF ApTask

LEMMA StartPushKeeps ==
  ASSUME ApnsInv, NEW k \in apTasks, NEW targets \in BOOLEAN, NEW room \in BOOLEAN, StartPush(k, targets, room)
  PROVE  ApnsInv'
<1> DEFINE starts == targets /\ ~apStarted
           counts == room /\ k.n > apRunAt
<1>1. /\ k.kind = "start" /\ apTasks' = apTasks \ {k} /\ (IF room THEN Fine ELSE Wrong({}))
      /\ apStatus' = apStatus /\ apSeen' = apSeen /\ apReg' = apReg /\ apMinted' = apMinted
      /\ apQueue' = apQueue /\ apOver' = apOver /\ apTrack' = apTrack /\ apHandler' = apHandler /\ apTop' = apTop
      /\ apEndSent' = apEndSent /\ apRunAt' = apRunAt
      /\ starts => apStarted' = TRUE /\ apStarts' = apStarts + (IF counts THEN 1 ELSE 0)
      /\ ~starts => apStarted' = apStarted /\ apStarts' = apStarts
  BY DEF StartPush, Becomes, MayStart, apEngine
<1>2. apExcuse' \subseteq Reason /\ ("overlap" \in apExcuse => "overlap" \in apExcuse')
  BY <1>1, FineIs, WrongIs
<1> HIDE DEF starts, counts
<1>3. ApnsTypeOK'
  <2>1. apReg' \subseteq apMinted' /\ apMinted' \subseteq Token /\ \A t, u \in apReg' : Owner[t] = Owner[u] => t = u
    BY <1>1, ApnsTypes
  <2>2. apTrack' \in ApTrack /\ (apTrack'.live \/ apTrack' = NoTrack) /\ apStarted' \in BOOLEAN /\ apOver' \in BOOLEAN
    BY <1>1, ApnsTypes
  <2>3. apTop' \in [Token -> {"none", "update", "end"}] /\ apStatus' \in Shown \cup {"gone"} /\ apSeen' \in 0..ApEvents
        /\ apQueue' \in Seq(ApEvent) /\ apTasks' \subseteq ApTask
    BY <1>1, ApnsTypes
  <2>4. apHandler' \in [pc : {"idle", "step"}, n : 0..ApEvents, status : Shown \cup {"none"}, got : BOOLEAN, records : SUBSET Token]
    BY <1>1, ApnsTypes
  <2> QED BY <1>2, <2>1, <2>2, <2>3, <2>4, TypedKept
<1>4. ApnsOrdered'
  BY <1>1, OrderedKept DEF ApnsInv, ApnsOrdered
<1>5. ApnsStarted'
  <2> SUFFICES ASSUME "overlap" \notin apExcuse'
               PROVE  /\ apStarts' = 0 \/ (apStarts' = 1 /\ apStarted' /\ ~Ending')
                      /\ \A j \in apTasks' : j.kind = "start" /\ j.n > apRunAt' => ~Ending'
    BY DEF ApnsStarted
  <2>1. Ending' => Ending
    BY <1>1 DEF Ending
  <2>2. "overlap" \notin apExcuse
    BY <1>2
  <2>3. apStarts = 0 \/ (apStarts = 1 /\ apStarted /\ ~Ending)
    BY <2>2 DEF ApnsInv, ApnsStarted
  <2>4. \A j \in apTasks' : j.kind = "start" /\ j.n > apRunAt' => ~Ending'
    BY <1>1, <2>1, <2>2 DEF ApnsInv, ApnsStarted
  <2>5. CASE ~starts
    BY <1>1, <2>1, <2>3, <2>4, <2>5
  <2>6. CASE starts
    <3>1. apStarts = 0 /\ apStarted' = TRUE
      BY <1>1, <2>3, <2>6 DEF starts
    <3>2. CASE counts
      <4>1. ~Ending
        BY <1>1, <2>2, <3>2 DEF ApnsInv, ApnsStarted, counts
      <4> QED BY <1>1, <2>1, <2>4, <2>6, <3>1, <3>2, <4>1
    <3>3. CASE ~counts
      BY <1>1, <2>4, <2>6, <3>1, <3>3
    <3> QED BY <3>2, <3>3
  <2> QED BY <2>5, <2>6
<1>6. ApnsEnded' /\ apEndSent' \subseteq Token
  BY <1>1, EndedKept
<1> QED BY <1>1, <1>3, <1>4, <1>5, <1>6 DEF ApnsInv

(* A step of a task that starts nothing, and that ends where it is and     *)
(* goes on as what it was.                                                 *)
LEMMA TaskKeeps ==
  ASSUME ApnsInv, NEW k \in apTasks, NEW next \in SUBSET ApTask, Becomes(k, next),
         k.kind # "start", \A j \in next : j.kind = k.kind,
         apStatus' = apStatus, apSeen' = apSeen, apQueue' = apQueue, apHandler' = apHandler,
         apReg' \subseteq apReg, apMinted' = apMinted, apStarts' = apStarts, apRunAt' = apRunAt,
         apStarted' \in BOOLEAN, apStarted => apStarted' \/ k.kind = "complete", apOver' \in BOOLEAN,
         apTrack' \in ApTrack, apTrack'.live \/ apTrack' = NoTrack, apTop' \in [Token -> {"none", "update", "end"}],
         apExcuse' \subseteq Reason, "overlap" \in apExcuse => "overlap" \in apExcuse',
         ApnsEnded', apEndSent' \subseteq Token
  PROVE  ApnsInv'
<1>1. apTasks' = (apTasks \ {k}) \cup next
  BY DEF Becomes
<1>2. apTasks' \subseteq ApTask /\ \A j \in apTasks' : j \in apTasks \/ j.kind = k.kind
  BY <1>1, ApnsTypes
<1>3. ApnsTypeOK'
  <2>1. apReg' \subseteq apMinted' /\ apMinted' \subseteq Token /\ \A t, u \in apReg' : Owner[t] = Owner[u] => t = u
    BY ApnsTypes
  <2>2. apHandler' \in [pc : {"idle", "step"}, n : 0..ApEvents, status : Shown \cup {"none"}, got : BOOLEAN, records : SUBSET Token]
    BY ApnsTypes
  <2> QED BY <1>2, <2>1, <2>2, ApnsTypes, TypedKept
<1>4. ApnsOrdered'
  BY <1>2, OrderedKept DEF StartTask, ApnsInv, ApnsOrdered
<1>5. ApnsStarted'
  <2>1. Ending' => Ending
    BY <1>2 DEF Ending
  <2>2. k.kind = "complete" => Ending
    BY DEF Ending
  <2> QED BY <1>2, <2>1, <2>2 DEF ApnsInv, ApnsStarted
<1> QED BY <1>3, <1>4, <1>5 DEF ApnsInv

LEMMA EndReadKeeps == ASSUME ApnsInv, NEW k \in apTasks, NEW readable \in BOOLEAN, EndRead(k, readable) PROVE ApnsInv'
<1> DEFINE records == IF readable THEN apReg ELSE apTrack.records
           j == [k EXCEPT !.pc = "claim", !.got = readable, !.records = records]
<1>1. /\ k.kind = "complete" /\ apOver' = TRUE /\ Becomes(k, {j}) /\ (IF readable THEN Fine ELSE Wrong({}))
      /\ apStatus' = apStatus /\ apSeen' = apSeen /\ apReg' = apReg /\ apMinted' = apMinted
      /\ apQueue' = apQueue /\ apStarted' = apStarted /\ apTrack' = apTrack /\ apHandler' = apHandler /\ apTop' = apTop
      /\ apEndSent' = apEndSent /\ apStarts' = apStarts /\ apRunAt' = apRunAt
  BY DEF EndRead, apEngine, apHistory
<1>2. records \in SUBSET Token
  BY ApnsTypes DEF ApTrack
<1> HIDE DEF records
<1>3. j \in ApTask /\ j.kind = k.kind
  BY <1>2, TaskTyped DEF ApTask
<1>4. apExcuse' \subseteq Reason /\ ("overlap" \in apExcuse => "overlap" \in apExcuse')
  BY <1>1, FineIs, WrongIs
<1>5. ApnsEnded' /\ apEndSent' \subseteq Token
  BY <1>1, EndedKept
<1> HIDE DEF j
<1>6. /\ apTrack' \in ApTrack /\ (apTrack'.live \/ apTrack' = NoTrack) /\ apTop' \in [Token -> {"none", "update", "end"}]
      /\ apStarted' \in BOOLEAN /\ apOver' \in BOOLEAN
  BY <1>1, ApnsTypes
<1>7. {j} \in SUBSET ApTask /\ \A i \in {j} : i.kind = k.kind
  BY <1>3
<1>8. k.kind # "start"
  BY <1>1
<1> QED BY <1>1, <1>4, <1>5, <1>6, <1>7, <1>8, TaskKeeps

LEMMA EndClaimKeeps == ASSUME ApnsInv, NEW k \in apTasks, NEW room \in BOOLEAN, EndClaim(k, room) PROVE ApnsInv'
<1> DEFINE j == [k EXCEPT !.pc = "remove"]
           tokens == IF room THEN k.records ELSE {}
           some == k.records # {}
<1>1. /\ k.kind = "complete" /\ apOver' = (apOver \/ some) /\ Becomes(k, {j}) /\ Push(tokens, "end")
      /\ apEndSent' = apEndSent \cup tokens
      /\ (IF room THEN Fine ELSE k.records # {} /\ Wrong({"refused"}))
      /\ apStatus' = apStatus /\ apSeen' = apSeen /\ apReg' = apReg /\ apMinted' = apMinted
      /\ apQueue' = apQueue /\ apStarted' = apStarted /\ apTrack' = apTrack /\ apHandler' = apHandler
      /\ apStarts' = apStarts /\ apRunAt' = apRunAt
  BY DEF EndClaim, apEngine
<1>2. j \in ApTask /\ j.kind = k.kind
  BY TaskTyped DEF ApTask
<1>3. tokens \in SUBSET Token /\ (tokens # {} => some)
  BY TaskTyped
<1>4. apExcuse' \subseteq Reason /\ ("overlap" \in apExcuse => "overlap" \in apExcuse')
  BY <1>1, FineIs, WrongIs DEF Reason
<1>5. apOver' \in BOOLEAN
  <2>1. (apOver \/ some) \in BOOLEAN
    OBVIOUS
  <2> QED BY <1>1, <2>1
<1> HIDE DEF j, tokens, some
<1>6. apTop' \in [Token -> {"none", "update", "end"}] /\ \A t \in Token : apTop'[t] = IF t \in tokens THEN "end" ELSE apTop[t]
  BY <1>1, <1>3, PushIs
<1>7. ApnsEnded' /\ apEndSent' \subseteq Token
  <2>1. apEndSent' # {} => apOver'
    BY <1>1, <1>3 DEF ApnsInv, ApnsEnded
  <2>2. \A t \in apEndSent' : apTop'[t] = "end"
    BY <1>1, <1>3, <1>6 DEF ApnsInv, ApnsEnded
  <2> QED BY <1>1, <1>3, <2>1, <2>2 DEF ApnsInv, ApnsEnded
<1>8. {j} \in SUBSET ApTask /\ \A i \in {j} : i.kind = k.kind
  BY <1>2
<1>9. k.kind # "start" /\ apTrack' \in ApTrack /\ (apTrack'.live \/ apTrack' = NoTrack) /\ apStarted' \in BOOLEAN
  BY <1>1, ApnsTypes
<1> QED BY <1>1, <1>4, <1>5, <1>6, <1>7, <1>8, <1>9, TaskKeeps

LEMMA EndForgetKeeps == ASSUME ApnsInv, NEW k \in apTasks, NEW cleared \in BOOLEAN, EndForget(k, cleared) PROVE ApnsInv'
<1>1. /\ k.kind = "complete" /\ Becomes(k, {}) /\ apReg' \subseteq apReg
      /\ (IF cleared THEN Fine ELSE (k.records # {} \/ ~k.got) /\ Wrong({}))
      /\ apStatus' = apStatus /\ apSeen' = apSeen /\ apMinted' = apMinted
      /\ apQueue' = apQueue /\ apOver' = apOver /\ apHandler' = apHandler /\ apTop' = apTop
      /\ apEndSent' = apEndSent /\ apStarts' = apStarts /\ apRunAt' = apRunAt
  BY DEF EndForget, apHistory
<1>2. (apStarted' = FALSE /\ apTrack' = NoTrack) \/ (apStarted' = apStarted /\ apTrack' = apTrack)
  BY DEF EndForget
<1>3. apExcuse' \subseteq Reason /\ ("overlap" \in apExcuse => "overlap" \in apExcuse')
  BY <1>1, FineIs, WrongIs
<1>4. ApnsEnded' /\ apEndSent' \subseteq Token
  BY <1>1, EndedKept
<1>5. /\ apTrack' \in ApTrack /\ (apTrack'.live \/ apTrack' = NoTrack) /\ apTop' \in [Token -> {"none", "update", "end"}]
      /\ apStarted' \in BOOLEAN /\ apOver' \in BOOLEAN
  BY <1>1, <1>2, ApnsTypes, NoTrackTyped
<1>6. {} \in SUBSET ApTask /\ k.kind # "start" /\ \A i \in {} : i.kind = k.kind
  BY <1>1
<1> QED BY <1>1, <1>3, <1>4, <1>5, <1>6, TaskKeeps

LEMMA TimerWakesKeeps == ASSUME ApnsInv, NEW k \in apTasks, NEW readable \in BOOLEAN, TimerWakes(k, readable) PROVE ApnsInv'
<1> DEFINE got == readable /\ ~apTrack.fresh
           records == IF readable /\ ~apTrack.fresh THEN apReg ELSE {}
           j == [k EXCEPT !.pc = "step", !.got = got, !.records = records]
<1>1. /\ k.kind = "timer" /\ Becomes(k, {j}) /\ (IF readable THEN Fine ELSE Wrong({}))
      /\ apStatus' = apStatus /\ apSeen' = apSeen /\ apReg' = apReg /\ apMinted' = apMinted
      /\ apQueue' = apQueue /\ apStarted' = apStarted /\ apOver' = apOver /\ apTrack' = apTrack /\ apHandler' = apHandler /\ apTop' = apTop
      /\ apEndSent' = apEndSent /\ apStarts' = apStarts /\ apRunAt' = apRunAt
  BY DEF TimerWakes, apEngine, apHistory
<1>2. records \in SUBSET Token /\ got \in BOOLEAN
  BY ApnsTypes
<1> HIDE DEF records, got
<1>3. j \in ApTask /\ j.kind = k.kind
  BY <1>2, TaskTyped DEF ApTask
<1>4. apExcuse' \subseteq Reason /\ ("overlap" \in apExcuse => "overlap" \in apExcuse')
  BY <1>1, FineIs, WrongIs
<1>5. ApnsEnded' /\ apEndSent' \subseteq Token
  BY <1>1, EndedKept
<1> HIDE DEF j
<1>6. /\ apTrack' \in ApTrack /\ (apTrack'.live \/ apTrack' = NoTrack) /\ apTop' \in [Token -> {"none", "update", "end"}]
      /\ apStarted' \in BOOLEAN /\ apOver' \in BOOLEAN
  BY <1>1, ApnsTypes
<1>7. {j} \in SUBSET ApTask /\ (\A i \in {j} : i.kind = k.kind) /\ k.kind # "start"
  BY <1>1, <1>3
<1> QED BY <1>1, <1>4, <1>5, <1>6, <1>7, TaskKeeps

LEMMA TimerStepKeeps ==
  ASSUME ApnsInv, NEW k \in apTasks, NEW pulled \in Shown \cup {"none"}, NEW room \in BOOLEAN, TimerStep(k, pulled, room)
  PROVE  ApnsInv'
<1> DEFINE held == StoreRecords(apTrack, k.got, k.records)
           tr == Pending(held, pulled)
           behind == IF pulled \in {"waiting", "over"} THEN {"behind"} ELSE {}
           next == IF More(tr) THEN {NewTask(k.n, "timer")} ELSE {}
<1>1. /\ k.kind = "timer" /\ apStatus' = apStatus /\ apSeen' = apSeen /\ apReg' = apReg /\ apMinted' = apMinted
      /\ apQueue' = apQueue /\ apStarted' = apStarted /\ apOver' = apOver /\ apHandler' = apHandler
      /\ apEndSent' = apEndSent /\ apStarts' = apStarts /\ apRunAt' = apRunAt
  BY DEF TimerStep, apEngine
<1>2. /\ pulled # "none" => held.live
      /\ apTrack' = Stepped(tr, TRUE) /\ Becomes(k, next) /\ Push(IF room THEN Claimed(tr) ELSE {}, "update")
      /\ IF room THEN apFaults' = apFaults /\ apExcuse' = apExcuse \cup behind
         ELSE Claimed(tr) # {} /\ Wrong(behind \cup {"refused"})
  BY DEF TimerStep
<1>3. k.got \in BOOLEAN /\ k.records \in SUBSET Token /\ k.n \in 1..ApEvents
  BY TaskTyped
<1>4. held \in ApTrack /\ (held.live \/ held = NoTrack)
  BY <1>3, ApnsTypes, StoreRecordsIs
<1> HIDE DEF held
<1>5. tr \in ApTrack /\ tr.live = held.live /\ (pulled = "none" => tr = held)
  BY <1>4, PendingIs
<1>6. NewTask(k.n, "timer") \in ApTask /\ NewTask(k.n, "timer").kind = "timer"
  BY <1>3, NewTaskIs DEF TaskKind
<1>7. next \in SUBSET ApTask /\ (\A j \in next : j.kind = k.kind) /\ k.kind # "start"
  BY <1>1, <1>6
<1>8. apExcuse' \subseteq Reason /\ ("overlap" \in apExcuse => "overlap" \in apExcuse')
  <2>1. behind \subseteq Reason /\ behind \cup {"refused"} \subseteq Reason
    BY DEF Reason
  <2> HIDE DEF behind, tr, next
  <2>2. CASE room
    BY <1>2, <2>1, <2>2, ApnsTypes
  <2>3. CASE ~room
    BY <1>2, <2>1, <2>3, WrongIs
  <2> QED BY <2>2, <2>3
<1> HIDE DEF tr, next, behind
<1>9. apTrack' \in ApTrack /\ (apTrack'.live \/ apTrack' = NoTrack)
  <2>1. Stepped(tr, TRUE) \in ApTrack /\ Stepped(tr, TRUE).live = tr.live /\ (~tr.live => Stepped(tr, TRUE) = tr)
    BY <1>5, SteppedIs
  <2>2. ~tr.live => tr = NoTrack
    BY <1>2, <1>4, <1>5
  <2> QED BY <1>2, <2>1, <2>2
<1>10. apTop' \in [Token -> {"none", "update", "end"}] /\ ApnsEnded' /\ apEndSent' \subseteq Token
  BY <1>1, <1>2, <1>5, UpdatesKeep
<1>11. apStarted' \in BOOLEAN /\ apOver' \in BOOLEAN
  BY <1>1, ApnsTypes
<1> QED BY <1>1, <1>2, <1>7, <1>8, <1>9, <1>10, <1>11, TaskKeeps

LEMMA ApnsSteps == ASSUME ApnsInv, [ApnsNext]_apVars PROVE ApnsInv'
<1>1. CASE UNCHANGED apVars
  <2>1. /\ apStatus' = apStatus /\ apSeen' = apSeen /\ apQueue' = apQueue /\ apStarted' = apStarted /\ apOver' = apOver
        /\ apHandler' = apHandler /\ apTasks' = apTasks /\ apHistory' = apHistory /\ apReg' = apReg /\ apMinted' = apMinted
        /\ apTrack' = apTrack /\ apExcuse' = apExcuse
    BY <1>1 DEF apVars, apEngine, apMemory, apHistory
  <2> QED BY <2>1, ApnsTypes, PhoneKeeps
<1>2. CASE ApnsNext
  <2>1. CASE \E to \in Shown \cup {"gone"} : Emit(to)
    BY <2>1, EmitKeeps
  <2>2. CASE \E t \in Token : Register(t) \/ Prune(t) \/ WindowPasses(t)
    BY <2>2, RegisterKeeps, PruneKeeps, TimePassesKeeps
  <2>3. CASE CacheAges
    BY <2>3, TimePassesKeeps
  <2>4. CASE \E room, readable \in BOOLEAN : LoopStep(room, readable)
    BY <2>4, TakeChangedKeeps, TakeCompletedKeeps, HandlerStepKeeps, TakeRemovedKeeps DEF LoopStep
  <2>5. ASSUME NEW k \in apTasks, NEW ok \in BOOLEAN, TaskStep(k, ok) \/ \E pulled \in Shown \cup {"none"} : TimerStep(k, pulled, ok)
        PROVE  ApnsInv'
    BY <2>5, StartPushKeeps, EndReadKeeps, EndClaimKeeps, EndForgetKeeps, TimerWakesKeeps, TimerStepKeeps DEF TaskStep
  <2> QED BY <1>2, <2>1, <2>2, <2>3, <2>4, <2>5 DEF ApnsNext
<1> QED BY <1>1, <1>2

(* The types of the notifier's memory of an item (aulos-apns).             *)
THEOREM ApnsTypesHold == ApnsSpec => []ApnsTypeOK
<1>1. ApnsInv => ApnsTypeOK
  BY DEF ApnsInv
<1> QED BY ApnsStarts, ApnsSteps, <1>1, PTL DEF ApnsSpec

(* An end is the last word to its activity until the item starts again,    *)
(* whatever task was still on its way, and a download starts one activity  *)
(* unless it began while the end of its previous run was on its way: the   *)
(* safety half of ApnsFollow, however many devices and events there are.   *)
THEOREM EndsAreLast == ApnsSpec => [][ApnsOneLife']_apVars
<1>1. ApnsInv => ApnsOneLife
  BY DEF ApnsInv, ApnsStarted, ApnsEnded, ApnsOneLife
<1>2. ApnsInv /\ [ApnsNext]_apVars => [ApnsOneLife']_apVars
  <2> SUFFICES ASSUME ApnsInv, [ApnsNext]_apVars PROVE ApnsOneLife'
    OBVIOUS
  <2>1. ApnsInv'
    BY ApnsSteps
  <2> QED BY <2>1 DEF ApnsInv, ApnsStarted, ApnsEnded, ApnsOneLife
<1> QED BY ApnsStarts, ApnsSteps, <1>2, PTL DEF ApnsSpec

-----------------------------------------------------------------------------
(* The events of an item that are still to come: each goes on where the    *)
(* one before it ended, the last one where the engine is, and the actor    *)
(* knows what the first one begins with.                                   *)
BdShape(e) ==
  \/ e.kind \in {"added", "recovered"} /\ e.from = "none" /\ e.to = "queued"
  \/ e.kind = "changed" /\ e.from = "queued" /\ e.to = "running"
  \/ e.kind = "changed" /\ e.from \in {"queued", "running"} /\ e.to = "ended"
  \/ e.kind = "changed" /\ e.from \in {"ended", "old"} /\ e.to = "queued"
  \/ e.kind = "completed" /\ e.from = "ended" /\ e.to = "ended"
  \/ e.kind = "removed" /\ e.from \in {"old", "queued", "running", "ended"} /\ e.to = "gone"
BdEvents ==
  {e \in [kind : {"added", "recovered", "changed", "completed", "removed"}, job : BdJob,
          from : {"none", "old", "queued", "running", "ended", "gone"}, to : {"none", "old", "queued", "running", "ended", "gone"}] :
     BdShape(e)}

MineIn(q, j) == {i \in 1..Len(q) : q[i].job = j}
Oldest(q, j, i) == i \in MineIn(q, j) /\ \A k \in MineIn(q, j) : i <= k
Newest(q, j, i) == i \in MineIn(q, j) /\ \A k \in MineIn(q, j) : k <= i
Linked(q, j, i, k) ==
  i \in MineIn(q, j) /\ k \in MineIn(q, j) /\ i < k /\ \A n \in MineIn(q, j) : ~(i < n /\ n < k)
(* The end of a job whose completed event is still to come.                *)
Half(e) == e.kind = "changed" /\ e.to = "ended"
Chain(q, j) ==
  \A i, k \in 1..Len(q) : Linked(q, j, i, k) => q[k].from = q[i].to /\ (q[k].kind = "completed" <=> Half(q[i]))

(* Events of other jobs change nothing.                                    *)
SameOfOther(q, p, j, r) ==
  /\ r \in Seq(BdEvents) /\ Len(r) = Len(q) + Len(p) /\ MineIn(r, j) = MineIn(q, j)
  /\ \A i \in MineIn(q, j) : r[i] = q[i]
  /\ Chain(q, j) => Chain(r, j)

LEMMA ChainOther ==
  ASSUME NEW q \in Seq(BdEvents), NEW p \in Seq(BdEvents), NEW j, \A n \in 1..Len(p) : p[n].job # j
  PROVE  SameOfOther(q, p, j, q \o p)
<1> DEFINE r == q \o p
<1>1. /\ r \in Seq(BdEvents) /\ Len(r) = Len(q) + Len(p) /\ Len(q) \in Nat /\ Len(p) \in Nat
      /\ \A i \in 1..(Len(q) + Len(p)) : r[i] = IF i <= Len(q) THEN q[i] ELSE p[i - Len(q)]
  BY ConcatProperties
<1> HIDE DEF r
<1>2. \A i \in 1..Len(q) : i \in 1..Len(r) /\ r[i] = q[i]
  BY <1>1
<1>3. \A i \in 1..Len(r) : i \in 1..Len(q) \/ r[i].job # j
  <2> SUFFICES ASSUME NEW i \in 1..Len(r), i \notin 1..Len(q) PROVE r[i].job # j
    OBVIOUS
  <2>1. i - Len(q) \in 1..Len(p) /\ ~(i <= Len(q)) /\ i \in 1..(Len(q) + Len(p))
    BY <1>1
  <2> QED BY <1>1, <2>1
<1>4. MineIn(r, j) = MineIn(q, j)
  BY <1>2, <1>3 DEF MineIn
<1>5. \A i \in MineIn(q, j) : r[i] = q[i]
  BY <1>2 DEF MineIn
<1>6. ASSUME Chain(q, j) PROVE Chain(r, j)
  <2>2. ASSUME NEW i \in 1..Len(r), NEW k \in 1..Len(r), Linked(r, j, i, k)
        PROVE  r[k].from = r[i].to /\ (r[k].kind = "completed" <=> Half(r[i]))
    <3>1. Linked(q, j, i, k) /\ i \in 1..Len(q) /\ k \in 1..Len(q)
      BY <1>4, <2>2 DEF Linked, MineIn
    <3>2. r[i] = q[i] /\ r[k] = q[k]
      BY <1>2, <3>1
    <3> QED BY <1>6, <3>1, <3>2 DEF Chain
  <2> QED BY <2>2 DEF Chain
<1>7. SameOfOther(q, p, j, r)
  BY <1>1, <1>4, <1>5, <1>6 DEF SameOfOther
<1> QED BY <1>7 DEF r

(* One more event goes on where the last one ended.                        *)
GoesOn(q, j, e) == \A i \in 1..Len(q) : Newest(q, j, i) => e.from = q[i].to /\ (e.kind = "completed" <=> Half(q[i]))

Grown(q, e, j, r) ==
  /\ r \in Seq(BdEvents) /\ Len(r) = Len(q) + 1 /\ Chain(r, j)
  /\ \A i \in 1..Len(r) : Newest(r, j, i) => i = Len(q) + 1
  /\ MineIn(r, j) = MineIn(q, j) \cup {Len(q) + 1}
  /\ \A i \in MineIn(q, j) : r[i] = q[i]
  /\ r[Len(q) + 1] = e

LEMMA ChainGrows ==
  ASSUME NEW q \in Seq(BdEvents), NEW e \in BdEvents, NEW j, e.job = j, Chain(q, j), GoesOn(q, j, e)
  PROVE  Grown(q, e, j, Append(q, e))
<1> DEFINE r == Append(q, e)
           z == Len(q) + 1
<1>1. /\ r \in Seq(BdEvents) /\ Len(r) = z /\ Len(q) \in Nat /\ z \in Nat /\ r[z] = e
      /\ \A i \in 1..Len(q) : r[i] = q[i] /\ i < z
  BY AppendProperties
<1>2. \A i \in 1..Len(r) : i = z \/ (i \in 1..Len(q) /\ i < z /\ r[i] = q[i])
  BY <1>1
<1>3. z \in 1..Len(r) /\ \A i \in 1..Len(q) : i \in 1..Len(r)
  BY <1>1
<1> HIDE DEF r, z
<1>4. MineIn(r, j) = MineIn(q, j) \cup {z}
  BY <1>1, <1>2, <1>3 DEF MineIn
<1>5. \A i \in MineIn(q, j) : r[i] = q[i] /\ i < z /\ i \in 1..Len(q)
  BY <1>1 DEF MineIn
<1>6. ASSUME NEW i, Newest(r, j, i) PROVE i = z
  <2>1. z <= i /\ i \in 1..Len(r)
    BY <1>4, <1>6 DEF Newest, MineIn
  <2> QED BY <1>1, <1>2, <2>1
<1>7. ASSUME NEW i \in 1..Len(r), NEW k \in 1..Len(r), Linked(r, j, i, k)
      PROVE  r[k].from = r[i].to /\ (r[k].kind = "completed" <=> Half(r[i]))
  <2>1. i \in MineIn(r, j) /\ k \in MineIn(r, j) /\ i < k /\ \A n \in MineIn(r, j) : ~(i < n /\ n < k)
    BY <1>7 DEF Linked
  <2>2. i # z
    BY <1>1, <1>2, <2>1
  <2>3. i \in MineIn(q, j) /\ i \in 1..Len(q) /\ r[i] = q[i]
    BY <1>4, <1>5, <2>1, <2>2
  <2>4. CASE k = z
    <3>1. \A n \in MineIn(q, j) : n <= i
      <4> SUFFICES ASSUME NEW n \in MineIn(q, j), i < n PROVE FALSE
        BY <1>1, <1>5, <2>3
      <4> QED BY <1>4, <1>5, <2>1, <2>4
    <3>2. Newest(q, j, i)
      BY <2>3, <3>1 DEF Newest
    <3> QED BY <1>1, <2>3, <2>4, <3>2 DEF GoesOn
  <2>5. CASE k # z
    <3>1. k \in MineIn(q, j) /\ k \in 1..Len(q) /\ r[k] = q[k]
      BY <1>4, <1>5, <2>1, <2>5
    <3>2. Linked(q, j, i, k)
      BY <1>4, <2>1, <2>3, <3>1 DEF Linked
    <3> QED BY <2>3, <3>1, <3>2 DEF Chain
  <2> QED BY <2>4, <2>5
<1>8. Chain(r, j)
  BY <1>7 DEF Chain
<1>9. Grown(q, e, j, r)
  BY <1>1, <1>4, <1>5, <1>6, <1>8 DEF Grown, z
<1> QED BY <1>9 DEF r

(* What is left once the first event is taken.                             *)
LEMMA ChainShrinks ==
  ASSUME NEW q \in Seq(BdEvents), q # <<>>, NEW j, Chain(q, j)
  PROVE  /\ Tail(q) \in Seq(BdEvents) /\ Len(Tail(q)) = Len(q) - 1 /\ Head(q) \in BdEvents /\ Head(q) = q[1] /\ Len(q) \in Nat \ {0}
         /\ Chain(Tail(q), j) /\ \A i \in 1..Len(Tail(q)) : Newest(Tail(q), j, i) => Newest(q, j, i + 1)
         /\ \A i \in 1..Len(Tail(q)) : i + 1 \in 1..Len(q) /\ Tail(q)[i] = q[i + 1]
         /\ Head(q).job # j => /\ MineIn(Tail(q), j) = {} => MineIn(q, j) = {}
                               /\ \A i \in 1..Len(Tail(q)) : Oldest(Tail(q), j, i) => Oldest(q, j, i + 1)
         /\ Head(q).job = j => /\ Oldest(q, j, 1)
                               /\ MineIn(Tail(q), j) = {} => Newest(q, j, 1)
                               /\ \A i \in 1..Len(Tail(q)) : Oldest(Tail(q), j, i) =>
                                    Tail(q)[i].from = Head(q).to /\ (Tail(q)[i].kind = "completed" <=> Half(Head(q)))
<1> DEFINE r == Tail(q)
<1>1. Len(q) \in Nat /\ Len(q) > 0
  OBVIOUS
<1>2. /\ r \in Seq(BdEvents) /\ Len(r) = Len(q) - 1 /\ Head(q) = q[1] /\ \A i \in 1..Len(r) : r[i] = q[i + 1]
  BY <1>1, HeadTailProperties
<1> HIDE DEF r
<1>3. 1 \in 1..Len(q) /\ \A i \in 1..Len(r) : i + 1 \in 1..Len(q) /\ i + 1 > 1 /\ i \in Nat
  BY <1>1, <1>2
<1>4. Head(q) \in BdEvents
  BY <1>1, <1>2, <1>3
<1>5. \A i \in 1..Len(r) : i \in MineIn(r, j) <=> i + 1 \in MineIn(q, j)
  BY <1>2, <1>3 DEF MineIn
<1>6. \A i \in MineIn(q, j) : i = 1 \/ (i - 1 \in 1..Len(r) /\ i - 1 \in MineIn(r, j) /\ i \in Nat)
  <2> SUFFICES ASSUME NEW i \in MineIn(q, j), i # 1 PROVE i - 1 \in 1..Len(r) /\ i - 1 \in MineIn(r, j) /\ i \in Nat
    OBVIOUS
  <2>1. i \in 1..Len(q)
    BY DEF MineIn
  <2>2. i - 1 \in 1..Len(r) /\ i - 1 + 1 = i
    BY <1>1, <1>2, <2>1
  <2> QED BY <1>5, <2>1, <2>2
<1>7. \A i \in MineIn(r, j) : i \in 1..Len(r) /\ i + 1 \in MineIn(q, j)
  BY <1>5 DEF MineIn
<1>8. ASSUME NEW i \in 1..Len(r), Newest(r, j, i) PROVE Newest(q, j, i + 1)
  <2>1. i + 1 \in MineIn(q, j) /\ \A k \in MineIn(q, j) : k <= i + 1
    <3> SUFFICES ASSUME NEW k \in MineIn(q, j) PROVE k <= i + 1
      BY <1>7, <1>8 DEF Newest
    <3>1. CASE k = 1
      BY <1>3, <3>1
    <3>2. CASE k # 1
      <4>1. k - 1 <= i /\ k \in Nat
        BY <1>6, <1>8, <3>2 DEF Newest
      <4> QED BY <1>3, <4>1
    <3> QED BY <3>1, <3>2
  <2> QED BY <2>1 DEF Newest
<1>9. ASSUME NEW i \in 1..Len(r), NEW k \in 1..Len(r), Linked(r, j, i, k)
      PROVE  r[k].from = r[i].to /\ (r[k].kind = "completed" <=> Half(r[i]))
  <2>1. i + 1 \in MineIn(q, j) /\ k + 1 \in MineIn(q, j) /\ i + 1 < k + 1
    BY <1>3, <1>7, <1>9 DEF Linked
  <2>2. ASSUME NEW n \in MineIn(q, j), i + 1 < n, n < k + 1 PROVE FALSE
    <3>1. n # 1
      BY <1>3, <2>2
    <3>2. n - 1 \in MineIn(r, j) /\ i < n - 1 /\ n - 1 < k
      BY <1>3, <1>6, <2>2, <3>1
    <3> QED BY <1>9, <3>2 DEF Linked
  <2>3. Linked(q, j, i + 1, k + 1)
    BY <2>1, <2>2 DEF Linked
  <2>4. i + 1 \in 1..Len(q) /\ k + 1 \in 1..Len(q) /\ r[i] = q[i + 1] /\ r[k] = q[k + 1]
    BY <1>2, <1>3
  <2>5. q[k + 1].from = q[i + 1].to /\ (q[k + 1].kind = "completed" <=> Half(q[i + 1]))
    BY <2>3, <2>4 DEF Chain
  <2> QED BY <2>4, <2>5
<1>10. Chain(r, j)
  BY <1>9 DEF Chain
<1>11. ASSUME q[1].job # j
       PROVE  /\ MineIn(r, j) = {} => MineIn(q, j) = {}
              /\ \A i \in 1..Len(r) : Oldest(r, j, i) => Oldest(q, j, i + 1)
  <2>1. 1 \notin MineIn(q, j)
    BY <1>11 DEF MineIn
  <2>2. ASSUME NEW i \in 1..Len(r), Oldest(r, j, i) PROVE Oldest(q, j, i + 1)
    <3>1. i + 1 \in MineIn(q, j)
      BY <1>7, <2>2 DEF Oldest
    <3>2. \A k \in MineIn(q, j) : i + 1 <= k
      <4> SUFFICES ASSUME NEW k \in MineIn(q, j) PROVE i + 1 <= k
        OBVIOUS
      <4>1. i <= k - 1 /\ k \in Nat
        BY <1>6, <2>1, <2>2 DEF Oldest
      <4> QED BY <1>3, <4>1
    <3> QED BY <3>1, <3>2 DEF Oldest
  <2> QED BY <1>6, <2>1, <2>2
<1>12. ASSUME q[1].job = j
       PROVE  /\ Oldest(q, j, 1)
              /\ MineIn(r, j) = {} => Newest(q, j, 1)
              /\ \A i \in 1..Len(r) : Oldest(r, j, i) => r[i].from = q[1].to /\ (r[i].kind = "completed" <=> Half(q[1]))
  <2>1. 1 \in MineIn(q, j)
    BY <1>3, <1>12 DEF MineIn
  <2>2. Oldest(q, j, 1)
    <3> SUFFICES ASSUME NEW k \in MineIn(q, j) PROVE 1 <= k
      BY <2>1 DEF Oldest
    <3>1. k \in 1..Len(q)
      BY DEF MineIn
    <3> QED BY <1>1, <3>1
  <2>3. ASSUME MineIn(r, j) = {} PROVE Newest(q, j, 1)
    <3>1. \A k \in MineIn(q, j) : k <= 1
      BY <1>6, <2>3
    <3> QED BY <2>1, <3>1 DEF Newest
  <2>4. ASSUME NEW i \in 1..Len(r), Oldest(r, j, i) PROVE r[i].from = q[1].to /\ (r[i].kind = "completed" <=> Half(q[1]))
    <3>1. i + 1 \in MineIn(q, j) /\ 1 < i + 1
      BY <1>3, <1>7, <2>4 DEF Oldest
    <3>2. ASSUME NEW n \in MineIn(q, j), 1 < n, n < i + 1 PROVE FALSE
      <4>1. n - 1 \in MineIn(r, j) /\ n - 1 < i
        BY <1>3, <1>6, <3>2
      <4>2. i <= n - 1 /\ n \in Nat
        BY <1>6, <2>4, <3>2, <4>1 DEF Oldest
      <4> QED BY <1>3, <4>1, <4>2
    <3>3. Linked(q, j, 1, i + 1)
      BY <2>1, <3>1, <3>2 DEF Linked
    <3>4. q[i + 1].from = q[1].to /\ (q[i + 1].kind = "completed" <=> Half(q[1]))
      BY <1>3, <3>3 DEF Chain
    <3> QED BY <1>2, <3>4
  <2> QED BY <2>2, <2>3, <2>4
<1> QED BY <1>1, <1>2, <1>3, <1>4, <1>8, <1>10, <1>11, <1>12 DEF r

-----------------------------------------------------------------------------
(* The strengthening of BoardIsTrue: what is still to come of every job    *)
(* that the actor was told everything of takes its rows to where the       *)
(* engine is, and a message that is live and the actor's is the board's.   *)
BdText == [rows : [BdJob -> Statuses], state : {"live", "closed", "deleted"}, ours : BOOLEAN, known : BOOLEAN]
Receipt(j) ==
  \/ bdRows[j] = "ended"
  \/ \E m \in 1..Len(bdChat) : m # bdBoard.msg /\ bdChat[m].rows[j] = "ended" /\ bdChat[m].state # "live"
Knows(j, status, kind) ==
  /\ j \in bdWatch <=> (Alive(status) \/ kind = "completed")
  /\ bdRows[j] # "absent" => bdRows[j] = status
  /\ status = "ended" /\ j \notin bdUntold => Receipt(j)
BoardTold == \A j \in BdJob \ bdMissed :
  /\ Chain(bdInbox, j)
  /\ \A i \in 1..Len(bdInbox) : Newest(bdInbox, j, i) => bdInbox[i].to = bdJob[j] /\ ~Half(bdInbox[i])
  /\ MineIn(bdInbox, j) = {} => Knows(j, bdJob[j], "none")
  /\ \A i \in 1..Len(bdInbox) : Oldest(bdInbox, j, i) => Knows(j, bdInbox[i].from, bdInbox[i].kind)
BoardShown ==
  /\ bdBoard.msg # 0 => bdBoard.up /\ bdBoard.drawn
  /\ bdBoard.msg <= Len(bdChat)
  /\ bdCall # "none" => bdBoard.up
  /\ \A m \in 1..Len(bdChat) : bdChat[m].state = "live" /\ bdChat[m].ours => bdBoard.msg = m
BoardInv == BoardTypeOK /\ bdInbox \in Seq(BdEvents) /\ bdChat \in Seq(BdText) /\ BoardShown /\ BoardTold

LEMMA BoardTypes ==
  ASSUME BoardInv
  PROVE  /\ bdJob \in [BdJob -> {"none", "old", "queued", "running", "ended", "gone"}]
         /\ bdInbox \in Seq(BdEvents) /\ Len(bdInbox) \in Nat /\ Len(bdInbox) <= BdInbox /\ BdInbox \in Nat
         /\ bdWatch \subseteq BdJob /\ bdRows \in [BdJob -> Statuses]
         /\ bdBoard \in Board /\ bdBudget \in BOOLEAN /\ bdCall \in {"none", "draw", "close"}
         /\ bdChat \in Seq(BdText) /\ Len(bdChat) \in Nat /\ Len(bdChat) <= BdMessages /\ BdMessages \in Nat
         /\ bdTurns \in 0..BdTurns /\ BdTurns \in Nat /\ bdFaults \in 0..BdFaults /\ BdFaults \in Nat
         /\ bdMissed \subseteq BdJob /\ bdUntold \subseteq BdJob
         /\ bdBoard.msg \in 0..BdMessages /\ bdBoard.msg \in Nat
BY BdAssumption DEF BoardInv, BoardTypeOK, Board

LEMMA NoBoardTyped == NoBoard \in Board /\ NoRows \in [BdJob -> Statuses] /\ NoBoard.msg = 0
BY BdAssumption DEF NoBoard, NoRows, Board, Statuses

LEMMA BoardStarts == BoardInit => BoardInv
<1> SUFFICES ASSUME BoardInit PROVE BoardInv
  OBVIOUS
<1>1. bdInbox = <<>> /\ Len(bdInbox) = 0 /\ bdChat = <<>> /\ Len(bdChat) = 0
  BY DEF BoardInit
<1>2. bdInbox \in Seq(BdEvents) /\ bdChat \in Seq(BdText)
  BY <1>1
<1>3. bdJob \in [BdJob -> {"none", "old", "queued", "running", "ended", "gone"}]
  BY DEF BoardInit
<1>4. BoardTypeOK
  BY <1>1, <1>3, NoBoardTyped, BdAssumption DEF BoardInit, BoardTypeOK
<1>5. BoardShown
  BY <1>1, NoBoardTyped DEF BoardInit, BoardShown
<1>6. BoardTold
  <2> SUFFICES ASSUME NEW j \in BdJob PROVE Chain(bdInbox, j) /\ Knows(j, bdJob[j], "none")
    BY <1>1 DEF BoardTold
  <2>1. Chain(bdInbox, j)
    BY <1>1 DEF Chain
  <2>2. bdJob[j] \in {"none", "old"} /\ bdRows[j] = "absent" /\ bdWatch = {}
    BY DEF BoardInit, NoRows
  <2>3. ~Alive(bdJob[j]) /\ bdJob[j] # "ended" /\ j \notin bdWatch
    BY <2>2 DEF Alive
  <2>4. Knows(j, bdJob[j], "none")
    BY <2>2, <2>3 DEF Knows
  <2> QED BY <2>1, <2>4
<1> QED BY <1>2, <1>4, <1>5, <1>6 DEF BoardInv

-----------------------------------------------------------------------------
(* The engine's turns.                                                     *)
LEMMA KnowsSame ==
  ASSUME bdActor' = bdActor, bdChat' = bdChat, bdUntold' = bdUntold, NEW j, NEW status, NEW kind
  PROVE  Knows(j, status, kind)' <=> Knows(j, status, kind)
BY DEF Knows, Receipt, bdActor

(* A turn publishes one event, or the two of an end.                       *)
EventOf(e, j) == e \in BdEvents /\ e.job = j
OneEvent(events, j, status) ==
  \E e \in BdEvents : events = <<e>> /\ e.job = j /\ e.from = bdJob[j] /\ e.to = status /\ e.kind # "completed" /\ ~Half(e)
TwoEvents(events, j, status) ==
  \E e, c \in BdEvents :
    /\ events = <<e, c>> /\ e.job = j /\ e.from = bdJob[j] /\ e.kind # "completed" /\ Half(e)
    /\ c.job = j /\ c.kind = "completed" /\ c.from = e.to /\ c.to = status

LEMMA PublishIs ==
  ASSUME BoardInv, NEW j \in BdJob, NEW events \in Seq(BdEvents), \A n \in 1..Len(events) : events[n].job = j, Publish(events, j)
  PROVE  \E p \in Seq(BdEvents) :
           /\ bdInbox' = bdInbox \o p /\ Len(bdInbox) + Len(p) <= BdInbox /\ Len(p) \in Nat
           /\ \A n \in 1..Len(p) : p[n].job = j
           /\ (p = events /\ bdMissed' = bdMissed) \/ bdMissed' = bdMissed \cup {j}
<1> DEFINE room == BdInbox - Len(bdInbox)
<1>1. room \in Nat /\ Len(events) \in Nat
  BY BoardTypes
<1>2. CASE Len(events) <= room
  <2>1. bdInbox' = bdInbox \o events /\ bdMissed' = bdMissed
    BY <1>2 DEF Publish
  <2>2. Len(bdInbox) + Len(events) <= BdInbox
    BY <1>1, <1>2, BoardTypes
  <2> QED BY <1>1, <2>1, <2>2
<1>3. CASE ~(Len(events) <= room)
  <2> DEFINE p == SubSeq(events, 1, room)
  <2>1. bdInbox' = bdInbox \o p /\ bdMissed' = bdMissed \cup {j}
    BY <1>3 DEF Publish
  <2>2. p \in Seq(BdEvents) /\ Len(p) = room /\ \A n \in 1..room : p[n] = events[n]
    <3>1. \A n \in 1..room : n \in 1..Len(events) /\ events[n] \in BdEvents
      BY <1>1, <1>3
    <3>2. p \in Seq(BdEvents) /\ Len(p) = (IF 1 <= room THEN room - 1 + 1 ELSE 0)
          /\ \A n \in 1..(room - 1 + 1) : p[n] = events[1 + n - 1]
      <4> HIDE DEF room
      <4> QED BY <1>1, <3>1, SubSeqProperties
    <3> HIDE DEF p, room
    <3>3. room - 1 + 1 = room /\ (IF 1 <= room THEN room - 1 + 1 ELSE 0) = room /\ \A n \in 1..room : 1 + n - 1 = n
      BY <1>1
    <3> QED BY <3>2, <3>3
  <2> HIDE DEF p
  <2>3. Len(bdInbox) + Len(p) <= BdInbox
    BY <1>1, <2>2, BoardTypes
  <2>4. \A n \in 1..Len(p) : p[n].job = j
    <3> SUFFICES ASSUME NEW n \in 1..Len(p) PROVE p[n].job = j
      OBVIOUS
    <3>1. n \in 1..Len(events) /\ p[n] = events[n]
      BY <1>1, <1>3, <2>2
    <3> QED BY <3>1
  <2> QED BY <1>1, <2>1, <2>2, <2>3, <2>4
<1> QED BY <1>2, <1>3

LEMMA TurnKeeps ==
  ASSUME BoardInv, NEW j \in BdJob, NEW status \in {"queued", "running", "ended", "gone"}, NEW events,
         OneEvent(events, j, status) \/ TwoEvents(events, j, status), Turn(j, status, events)
  PROVE  BoardInv'
<1>1. /\ bdTurns < BdTurns /\ bdTurns' = bdTurns + 1 /\ bdJob' = [bdJob EXCEPT ![j] = status] /\ Publish(events, j)
      /\ bdActor' = bdActor /\ bdBudget' = bdBudget /\ bdCall' = bdCall /\ bdChat' = bdChat /\ bdFaults' = bdFaults /\ bdUntold' = bdUntold
  BY DEF Turn
<1>2. events \in Seq(BdEvents) /\ \A n \in 1..Len(events) : events[n].job = j
  <2>1. CASE OneEvent(events, j, status)
    BY <2>1 DEF OneEvent
  <2>2. CASE TwoEvents(events, j, status)
    <3>1. PICK e, c \in BdEvents : events = <<e, c>> /\ e.job = j /\ c.job = j
      BY <2>2 DEF TwoEvents
    <3> QED BY <3>1
  <2> QED BY <2>1, <2>2
<1>3. PICK p \in Seq(BdEvents) :
        /\ bdInbox' = bdInbox \o p /\ Len(bdInbox) + Len(p) <= BdInbox /\ Len(p) \in Nat
        /\ \A n \in 1..Len(p) : p[n].job = j
        /\ (p = events /\ bdMissed' = bdMissed) \/ bdMissed' = bdMissed \cup {j}
  BY <1>1, <1>2, PublishIs
<1>4. bdInbox \in Seq(BdEvents) /\ bdInbox' \in Seq(BdEvents) /\ Len(bdInbox') = Len(bdInbox) + Len(p) /\ Len(bdInbox) \in Nat
  BY <1>3, BoardTypes, ConcatProperties
<1>5. bdJob' \in [BdJob -> {"none", "old", "queued", "running", "ended", "gone"}] /\ bdJob'[j] = status
      /\ \A i \in BdJob : i # j => bdJob'[i] = bdJob[i]
  BY <1>1, BoardTypes
<1>6. BoardTypeOK'
  <2>1. Len(bdInbox') <= BdInbox /\ bdTurns' \in 0..BdTurns /\ bdMissed' \subseteq BdJob
    BY <1>1, <1>3, <1>4, BoardTypes
  <2> QED BY <1>1, <1>5, <2>1 DEF BoardInv, BoardTypeOK, bdActor
<1>7. BoardShown' /\ bdChat' \in Seq(BdText)
  BY <1>1 DEF BoardInv, BoardShown, bdActor
<1>8. ASSUME NEW i \in BdJob \ bdMissed', i # j
      PROVE  /\ Chain(bdInbox', i)
             /\ \A n \in 1..Len(bdInbox') : Newest(bdInbox', i, n) => bdInbox'[n].to = bdJob'[i] /\ ~Half(bdInbox'[n])
             /\ MineIn(bdInbox', i) = {} => Knows(i, bdJob'[i], "none")
             /\ \A n \in 1..Len(bdInbox') : Oldest(bdInbox', i, n) => Knows(i, bdInbox'[n].from, bdInbox'[n].kind)
  <2>1. i \in BdJob \ bdMissed /\ (\A n \in 1..Len(p) : p[n].job # i) /\ bdJob'[i] = bdJob[i]
    BY <1>3, <1>5, <1>8
  <2> DEFINE r == bdInbox \o p
  <2>2. MineIn(r, i) = MineIn(bdInbox, i) /\ (\A n \in MineIn(bdInbox, i) : r[n] = bdInbox[n]) /\ (Chain(bdInbox, i) => Chain(r, i))
    <3>1. SameOfOther(bdInbox, p, i, r)
      BY <1>4, <2>1, ChainOther
    <3> HIDE DEF r
    <3> QED BY <3>1 DEF SameOfOther
  <2> HIDE DEF r
  <2>3. bdInbox' = r
    BY <1>3 DEF r
  <2>4. /\ Chain(bdInbox, i)
        /\ \A n \in 1..Len(bdInbox) : Newest(bdInbox, i, n) => bdInbox[n].to = bdJob[i] /\ ~Half(bdInbox[n])
        /\ MineIn(bdInbox, i) = {} => Knows(i, bdJob[i], "none")
        /\ \A n \in 1..Len(bdInbox) : Oldest(bdInbox, i, n) => Knows(i, bdInbox[n].from, bdInbox[n].kind)
    BY <2>1 DEF BoardInv, BoardTold
  <2>5. \A n : (Newest(r, i, n) => Newest(bdInbox, i, n) /\ n \in 1..Len(bdInbox) /\ r[n] = bdInbox[n])
               /\ (Oldest(r, i, n) => Oldest(bdInbox, i, n) /\ n \in 1..Len(bdInbox) /\ r[n] = bdInbox[n])
    BY <2>2 DEF Newest, Oldest, MineIn
  <2>6. /\ Chain(r, i)
        /\ \A n \in 1..Len(r) : Newest(r, i, n) => r[n].to = bdJob[i] /\ ~Half(r[n])
        /\ MineIn(r, i) = {} => Knows(i, bdJob[i], "none")
        /\ \A n \in 1..Len(r) : Oldest(r, i, n) => Knows(i, r[n].from, r[n].kind)
    BY <2>2, <2>4, <2>5
  <2> QED BY <2>1, <2>3, <2>6
<1>9. ASSUME j \notin bdMissed'
      PROVE  /\ Chain(bdInbox', j) /\ MineIn(bdInbox', j) # {}
             /\ \A n \in 1..Len(bdInbox') : Newest(bdInbox', j, n) => bdInbox'[n].to = status /\ ~Half(bdInbox'[n])
             /\ \A n \in 1..Len(bdInbox') : Oldest(bdInbox', j, n) => Knows(j, bdInbox'[n].from, bdInbox'[n].kind)
  <2>1. j \in BdJob \ bdMissed /\ bdInbox' = bdInbox \o events
    BY <1>3, <1>9
  <2>2. /\ Chain(bdInbox, j)
        /\ \A n \in 1..Len(bdInbox) : Newest(bdInbox, j, n) => bdInbox[n].to = bdJob[j] /\ ~Half(bdInbox[n])
        /\ MineIn(bdInbox, j) = {} => Knows(j, bdJob[j], "none")
        /\ \A i \in 1..Len(bdInbox) : Oldest(bdInbox, j, i) => Knows(j, bdInbox[i].from, bdInbox[i].kind)
    BY <2>1 DEF BoardInv, BoardTold
  <2>3. PICK e \in BdEvents :
          /\ e.job = j /\ e.from = bdJob[j] /\ e.kind # "completed"
          /\ \/ events = <<e>> /\ e.to = status /\ ~Half(e)
             \/ \E c \in BdEvents : events = <<e, c>> /\ Half(e) /\ c.job = j /\ c.kind = "completed" /\ c.from = e.to /\ c.to = status
    BY DEF OneEvent, TwoEvents
  <2> DEFINE q == Append(bdInbox, e)
             z == Len(bdInbox) + 1
  <2>4. /\ q \in Seq(BdEvents) /\ Len(q) = z /\ Chain(q, j) /\ (\A i \in 1..Len(q) : Newest(q, j, i) => i = z)
        /\ MineIn(q, j) = MineIn(bdInbox, j) \cup {z}
        /\ (\A i \in MineIn(bdInbox, j) : q[i] = bdInbox[i]) /\ q[z] = e
    <3>1. GoesOn(bdInbox, j, e)
      BY <2>2, <2>3 DEF GoesOn
    <3>2. e \in BdEvents /\ e.job = j /\ bdInbox \in Seq(BdEvents) /\ Chain(bdInbox, j)
      BY <1>4, <2>2, <2>3
    <3>3. Grown(bdInbox, e, j, q)
      BY <3>1, <3>2, ChainGrows
    <3> HIDE DEF q
    <3> QED BY <3>3 DEF Grown
  <2> HIDE DEF q
  <2>5. z \in Nat /\ z \in 1..Len(q) /\ \A i \in MineIn(bdInbox, j) : i < z /\ i \in 1..Len(bdInbox) /\ i \in 1..Len(q)
    BY <1>4, <2>4 DEF MineIn
  <2>6. ASSUME NEW n, Oldest(q, j, n) PROVE Knows(j, q[n].from, q[n].kind)
    <3>1. CASE MineIn(bdInbox, j) = {}
      <4>1. n = z /\ q[n] = e
        BY <2>4, <2>6, <3>1 DEF Oldest
      <4>2. Knows(j, e.from, "none") /\ e.kind # "completed"
        BY <2>2, <2>3, <3>1
      <4>3. Knows(j, e.from, e.kind)
        BY <4>2 DEF Knows
      <4> QED BY <4>1, <4>3
    <3>2. CASE MineIn(bdInbox, j) # {}
      <4>1. n \in MineIn(bdInbox, j) /\ n \in 1..Len(bdInbox) /\ q[n] = bdInbox[n]
        <5>1. n # z
          BY <2>4, <2>5, <2>6, <3>2 DEF Oldest
        <5> QED BY <2>4, <2>5, <2>6, <5>1 DEF Oldest
      <4>2. Oldest(bdInbox, j, n)
        BY <2>4, <2>6, <4>1 DEF Oldest
      <4>3. Knows(j, bdInbox[n].from, bdInbox[n].kind)
        BY <2>2, <4>1, <4>2
      <4> QED BY <4>1, <4>3
    <3> QED BY <3>1, <3>2
  <2>7. ASSUME events = <<e>>, e.to = status, ~Half(e)
        PROVE  /\ Chain(bdInbox', j) /\ MineIn(bdInbox', j) # {}
               /\ \A n \in 1..Len(bdInbox') : Newest(bdInbox', j, n) => bdInbox'[n].to = status /\ ~Half(bdInbox'[n])
               /\ \A n \in 1..Len(bdInbox') : Oldest(bdInbox', j, n) => Knows(j, bdInbox'[n].from, bdInbox'[n].kind)
    <3>1. bdInbox' = q
      BY <1>4, <2>1, <2>7 DEF q
    <3>2. \A n \in 1..Len(q) : Newest(q, j, n) => q[n].to = status /\ ~Half(q[n])
      BY <2>4, <2>7
    <3> QED BY <2>4, <2>6, <3>1, <3>2
  <2>8. ASSUME NEW c \in BdEvents, events = <<e, c>>, Half(e), c.job = j, c.kind = "completed", c.from = e.to, c.to = status
        PROVE  /\ Chain(bdInbox', j) /\ MineIn(bdInbox', j) # {}
               /\ \A n \in 1..Len(bdInbox') : Newest(bdInbox', j, n) => bdInbox'[n].to = status /\ ~Half(bdInbox'[n])
               /\ \A n \in 1..Len(bdInbox') : Oldest(bdInbox', j, n) => Knows(j, bdInbox'[n].from, bdInbox'[n].kind)
    <3> DEFINE r == Append(q, c)
               y == Len(q) + 1
    <3>0. GoesOn(q, j, c)
      BY <2>4, <2>8 DEF GoesOn
    <3>9. q \in Seq(BdEvents) /\ Chain(q, j)
      BY <2>4
    <3>10. Grown(q, c, j, r)
      BY <2>8, <3>0, <3>9, ChainGrows
    <3>1. /\ r \in Seq(BdEvents) /\ Chain(r, j) /\ (\A i \in 1..Len(r) : Newest(r, j, i) => i = y) /\ MineIn(r, j) = MineIn(q, j) \cup {y}
          /\ (\A i \in MineIn(q, j) : r[i] = q[i]) /\ r[y] = c
      <4> HIDE DEF r
      <4> QED BY <3>10 DEF Grown
    <3>2. bdInbox' = r
      BY <1>4, <2>1, <2>8 DEF q
    <3> HIDE DEF r
    <3>3. \A n \in 1..Len(r) : Newest(r, j, n) => r[n].to = status /\ ~Half(r[n])
      BY <2>8, <3>1 DEF Half
    <3>4. ASSUME NEW n, Oldest(r, j, n) PROVE Oldest(q, j, n) /\ r[n] = q[n]
      <4>1. z \in MineIn(q, j) /\ z < Len(q) + 1
        BY <2>4, <2>5
      <4>2. n <= z /\ n # Len(q) + 1
        BY <2>4, <2>5, <3>1, <3>4, <4>1 DEF Oldest
      <4> QED BY <3>1, <3>4, <4>2 DEF Oldest
    <3> QED BY <2>4, <2>6, <3>1, <3>2, <3>3, <3>4
  <2> QED BY <2>3, <2>7, <2>8
<1>10. BoardTold'
  <2> SUFFICES ASSUME NEW i \in BdJob \ bdMissed'
               PROVE  /\ Chain(bdInbox', i)
                      /\ \A n \in 1..Len(bdInbox') : Newest(bdInbox', i, n) => bdInbox'[n].to = bdJob'[i] /\ ~Half(bdInbox'[n])
                      /\ MineIn(bdInbox', i) = {} => Knows(i, bdJob'[i], "none")
                      /\ \A n \in 1..Len(bdInbox') : Oldest(bdInbox', i, n) => Knows(i, bdInbox'[n].from, bdInbox'[n].kind)
    BY <1>1, KnowsSame DEF BoardTold
  <2>1. CASE i = j
    BY <1>5, <1>9, <2>1
  <2>2. CASE i # j
    BY <1>8, <2>2
  <2> QED BY <2>1, <2>2
<1> QED BY <1>4, <1>6, <1>7, <1>10 DEF BoardInv

-----------------------------------------------------------------------------
LEMMA EngineKeepsBoard ==
  ASSUME BoardInv, Engine
  PROVE  BoardInv'
<1>1. PICK j \in BdJob : Add(j) \/ TakesOver(j) \/ Run(j) \/ End(j) \/ Retry(j) \/ Erases(j)
  BY DEF Engine
<1>2. bdJob[j] \in {"none", "old", "queued", "running", "ended", "gone"}
  BY BoardTypes
<1>3. CASE Add(j)
  <2> DEFINE e == Event("added", j, "none", "queued")
  <2>1. e \in BdEvents /\ e.job = j /\ e.from = bdJob[j] /\ e.to = "queued" /\ e.kind # "completed" /\ ~Half(e)
    BY <1>3 DEF Add, Event, BdEvents, BdShape, Half
  <2>2. OneEvent(<<e>>, j, "queued")
    BY <2>1 DEF OneEvent
  <2> QED BY <1>3, <2>2, TurnKeeps DEF Add
<1>4. CASE TakesOver(j)
  <2> DEFINE e == Event("recovered", j, "none", "queued")
  <2>1. e \in BdEvents /\ e.job = j /\ e.from = bdJob[j] /\ e.to = "queued" /\ e.kind # "completed" /\ ~Half(e)
    BY <1>4 DEF TakesOver, Event, BdEvents, BdShape, Half
  <2>2. OneEvent(<<e>>, j, "queued")
    BY <2>1 DEF OneEvent
  <2> QED BY <1>4, <2>2, TurnKeeps DEF TakesOver
<1>5. CASE Run(j)
  <2> DEFINE e == Changed(j, "running")
  <2>1. e \in BdEvents /\ e.job = j /\ e.from = bdJob[j] /\ e.to = "running" /\ e.kind # "completed" /\ ~Half(e)
    BY <1>5 DEF Run, Changed, Event, BdEvents, BdShape, Half
  <2>2. OneEvent(<<e>>, j, "running")
    BY <2>1 DEF OneEvent
  <2> QED BY <1>5, <2>2, TurnKeeps DEF Run
<1>6. CASE End(j)
  <2> DEFINE e == Changed(j, "ended")
             c == Event("completed", j, "ended", "ended")
  <2>1. e \in BdEvents /\ e.job = j /\ e.from = bdJob[j] /\ e.to = "ended" /\ e.kind # "completed" /\ Half(e)
    BY <1>6 DEF End, Alive, Changed, Event, BdEvents, BdShape, Half
  <2>2. c \in BdEvents /\ c.job = j /\ c.kind = "completed" /\ c.from = "ended" /\ c.to = "ended"
    BY DEF Event, BdEvents, BdShape
  <2>3. TwoEvents(<<e, c>>, j, "ended")
    BY <2>1, <2>2 DEF TwoEvents
  <2> QED BY <1>6, <2>3, TurnKeeps DEF End
<1>7. CASE Retry(j)
  <2> DEFINE e == Changed(j, "queued")
  <2>1. e \in BdEvents /\ e.job = j /\ e.from = bdJob[j] /\ e.to = "queued" /\ e.kind # "completed" /\ ~Half(e)
    BY <1>7 DEF Retry, Changed, Event, BdEvents, BdShape, Half
  <2>2. OneEvent(<<e>>, j, "queued")
    BY <2>1 DEF OneEvent
  <2> QED BY <1>7, <2>2, TurnKeeps DEF Retry
<1>8. CASE Erases(j)
  <2> DEFINE e == Event("removed", j, bdJob[j], "gone")
  <2>1. e \in BdEvents /\ e.job = j /\ e.from = bdJob[j] /\ e.to = "gone" /\ e.kind # "completed" /\ ~Half(e)
    BY <1>2, <1>8 DEF Erases, Event, BdEvents, BdShape, Half
  <2>2. OneEvent(<<e>>, j, "gone")
    BY <2>1 DEF OneEvent
  <2> QED BY <1>8, <2>2, TurnKeeps DEF Erases
<1> QED BY <1>1, <1>3, <1>4, <1>5, <1>6, <1>7, <1>8

-----------------------------------------------------------------------------
(* The actor takes an event.                                               *)
Took(e) ==
  CASE e.kind = "added"     -> OnAdded(e.job)
    [] e.kind = "recovered" -> OnRecovered(e.job)
    [] e.kind = "changed"   -> OnChanged(e)
    [] e.kind = "completed" -> OnCompleted(e.job)
    [] e.kind = "removed"   -> OnRemoved(e.job)

LEMMA TookIs ==
  ASSUME NEW e \in BdEvents, Took(e)
  PROVE  \/ e.kind = "added" /\ OnAdded(e.job)
         \/ e.kind = "recovered" /\ OnRecovered(e.job)
         \/ e.kind = "changed" /\ OnChanged(e)
         \/ e.kind = "completed" /\ OnCompleted(e.job)
         \/ e.kind = "removed" /\ OnRemoved(e.job)
<1>1. e.kind \in {"added", "recovered", "changed", "completed", "removed"}
  BY DEF BdEvents
<1> QED BY <1>1 DEF Took

LEMMA EventIs ==
  ASSUME NEW e \in BdEvents
  PROVE  BdShape(e) /\ e.job \in BdJob
BY DEF BdEvents

LEMMA UpsertKeeps ==
  ASSUME BoardInv, NEW j \in BdJob, NEW status \in {"queued", "running", "ended"}, Upsert(j, status)
  PROVE  /\ bdRows' \in [BdJob -> Statuses] /\ bdRows'[j] = status /\ \A i \in BdJob : i # j => bdRows'[i] = bdRows[i]
         /\ bdBoard' \in Board /\ bdBoard'.msg = bdBoard.msg /\ bdBoard'.drawn = bdBoard.drawn /\ bdBoard'.up
BY BoardTypes DEF Upsert, Statuses, Board

LEMMA TookKeeps ==
  ASSUME BoardInv, NEW e \in BdEvents, Took(e)
  PROVE  /\ bdRows' \in [BdJob -> Statuses] /\ bdWatch' \subseteq BdJob
         /\ \A i \in BdJob : i # e.job => bdRows'[i] = bdRows[i] /\ (i \in bdWatch' <=> i \in bdWatch)
         /\ bdBoard' \in Board /\ bdBoard'.msg = bdBoard.msg /\ bdBoard'.drawn = bdBoard.drawn /\ (bdBoard.up => bdBoard'.up)
<1> DEFINE j == e.job
<1>1. j \in BdJob /\ BdShape(e)
  BY EventIs
<1>2. CASE e.kind = "added" /\ OnAdded(e.job)
  BY <1>1, <1>2, BoardTypes, UpsertKeeps DEF OnAdded
<1>3. CASE e.kind = "recovered" /\ OnRecovered(e.job)
  BY <1>1, <1>3, BoardTypes DEF OnRecovered
<1>4. CASE e.kind = "changed" /\ OnChanged(e)
  <2>1. e.to \in {"queued", "running", "ended"}
    BY <1>1, <1>4 DEF BdShape
  <2>2. CASE UNCHANGED bdActor
    BY <2>2, BoardTypes DEF bdActor
  <2>3. CASE bdWatch' = bdWatch \cup {e.job} /\ Upsert(e.job, e.to)
    BY <1>1, <2>1, <2>3, BoardTypes, UpsertKeeps
  <2> QED BY <1>4, <2>2, <2>3 DEF OnChanged
<1>5. CASE e.kind = "completed" /\ OnCompleted(e.job)
  <2>1. CASE UNCHANGED bdActor
    BY <2>1, BoardTypes DEF bdActor
  <2>2. CASE j \in bdWatch
    <3>1. /\ bdWatch' = bdWatch \ {j} /\ bdRows' = [bdRows EXCEPT ![j] = "ended"]
          /\ \E idle \in {"no", "set", "tried"} : bdBoard' = [bdBoard EXCEPT !.up = TRUE, !.dirty = TRUE, !.idle = idle]
      <4>1. bdBoard.idle \in {"no", "set", "tried"}
        BY BoardTypes DEF Board
      <4> QED BY <1>5, <2>2, <4>1 DEF OnCompleted
    <3> QED BY <1>1, <3>1, BoardTypes DEF Statuses, Board
  <2> QED BY <1>5, <2>1, <2>2 DEF OnCompleted
<1>6. CASE e.kind = "removed" /\ OnRemoved(e.job)
  <2>1. /\ bdWatch' = bdWatch \ {j} /\ bdRows' = [bdRows EXCEPT ![j] = "absent"]
        /\ \E dirty \in BOOLEAN : bdBoard' = [bdBoard EXCEPT !.dirty = dirty]
    <3>1. bdBoard.dirty \in BOOLEAN
      BY BoardTypes DEF Board
    <3> QED BY <1>6, <3>1 DEF OnRemoved
  <2> QED BY <1>1, <2>1, BoardTypes DEF Statuses, Board
<1> QED BY <1>2, <1>3, <1>4, <1>5, <1>6, TookIs

(* The actor knows what the event ends with.                               *)
LEMMA TookTeaches ==
  ASSUME BoardInv, NEW e \in BdEvents, Took(e), Knows(e.job, e.from, e.kind), NEW kind, kind = "completed" <=> Half(e)
  PROVE  Knows(e.job, e.to, kind)'
<1> DEFINE j == e.job
<1>1. j \in BdJob /\ BdShape(e) /\ bdRows[j] \in Statuses /\ bdWatch \subseteq BdJob /\ bdRows \in [BdJob -> Statuses]
  BY EventIs, BoardTypes
<1>2. /\ j \in bdWatch <=> (Alive(e.from) \/ e.kind = "completed")
      /\ bdRows[j] # "absent" => bdRows[j] = e.from
  BY DEF Knows
<1>3. SUFFICES /\ j \in bdWatch' <=> (Alive(e.to) \/ kind = "completed")
               /\ bdRows'[j] # "absent" => bdRows'[j] = e.to
               /\ e.to = "ended" => bdRows'[j] = "ended"
  BY DEF Knows, Receipt
<1>4. CASE e.kind = "added" /\ OnAdded(e.job)
  <2>1. e.to = "queued" /\ ~Half(e) /\ bdWatch' = bdWatch \cup {j} /\ Upsert(j, "queued")
    BY <1>1, <1>4 DEF BdShape, Half, OnAdded
  <2>2. bdRows'[j] = "queued"
    BY <1>1, <2>1, UpsertKeeps
  <2> QED BY <2>1, <2>2 DEF Alive
<1>5. CASE e.kind = "recovered" /\ OnRecovered(e.job)
  <2>1. e.from = "none" /\ e.to = "queued" /\ ~Half(e) /\ bdWatch' = bdWatch \cup {j} /\ bdRows' = bdRows
    BY <1>1, <1>5 DEF BdShape, Half, OnRecovered
  <2>2. bdRows[j] = "absent"
    BY <1>1, <1>2, <2>1 DEF Statuses
  <2> QED BY <2>1, <2>2 DEF Alive
<1>6. CASE e.kind = "changed" /\ OnChanged(e)
  <2>1. /\ e.from \in {"queued", "running", "ended", "old"} /\ e.to \in {"queued", "running", "ended"}
        /\ e.from \in {"ended", "old"} => e.to = "queued"
    BY <1>1, <1>6 DEF BdShape
  <2>2. j \in bdWatch \/ BegunAgain(e)
    BY <1>2, <1>6, <2>1 DEF Alive, BegunAgain
  <2>3. bdWatch' = bdWatch \cup {j} /\ Upsert(j, e.to)
    BY <1>6, <2>2 DEF OnChanged
  <2>4. bdRows'[j] = e.to
    BY <1>1, <2>1, <2>3, UpsertKeeps
  <2>5. Alive(e.to) \/ kind = "completed"
    BY <1>6, <2>1 DEF Alive, Half
  <2> QED BY <2>3, <2>4, <2>5
<1>7. CASE e.kind = "completed" /\ OnCompleted(e.job)
  <2>1. e.to = "ended" /\ kind # "completed"
    BY <1>1, <1>7 DEF BdShape, Half
  <2>2. bdWatch' = bdWatch \ {j} /\ bdRows' = [bdRows EXCEPT ![j] = "ended"]
    BY <1>2, <1>7 DEF OnCompleted
  <2>3. bdRows'[j] = "ended"
    BY <1>1, <2>2
  <2> QED BY <2>1, <2>2, <2>3 DEF Alive
<1>8. CASE e.kind = "removed" /\ OnRemoved(e.job)
  <2>1. e.to = "gone" /\ kind # "completed"
    BY <1>1, <1>8 DEF BdShape, Half
  <2>2. bdWatch' = bdWatch \ {j} /\ bdRows' = [bdRows EXCEPT ![j] = "absent"]
    BY <1>8 DEF OnRemoved
  <2>3. bdRows'[j] = "absent"
    BY <1>1, <2>2
  <2> QED BY <2>1, <2>2, <2>3 DEF Alive
<1> QED BY <1>4, <1>5, <1>6, <1>7, <1>8, TookIs

LEMMA OnEventKeeps ==
  ASSUME BoardInv, OnEvent
  PROVE  BoardInv'
<1> DEFINE e == Head(bdInbox)
<1>1. /\ bdCall = "none" /\ bdInbox # <<>> /\ bdInbox' = Tail(bdInbox) /\ Took(e)
      /\ UNCHANGED <<bdJob, bdBudget, bdCall, bdChat, bdTurns, bdFaults, bdMissed, bdUntold>>
  BY DEF OnEvent, Took
<1>2. bdInbox' \in Seq(BdEvents) /\ Len(bdInbox') = Len(bdInbox) - 1 /\ e \in BdEvents /\ Len(bdInbox) \in Nat
  <2>1. bdInbox \in Seq(BdEvents) /\ Len(bdInbox) \in Nat
    BY BoardTypes
  <2>2. Len(bdInbox) > 0
    BY <1>1, <2>1
  <2> QED BY <1>1, <2>1, <2>2, HeadTailProperties
<1> HIDE DEF e
<1>3. /\ bdRows' \in [BdJob -> Statuses] /\ bdWatch' \subseteq BdJob
      /\ \A i \in BdJob : i # e.job => bdRows'[i] = bdRows[i] /\ (i \in bdWatch' <=> i \in bdWatch)
      /\ bdBoard' \in Board /\ bdBoard'.msg = bdBoard.msg /\ bdBoard'.drawn = bdBoard.drawn /\ (bdBoard.up => bdBoard'.up)
  BY <1>1, <1>2, TookKeeps
<1>4. BoardTypeOK'
  <2>1. Len(bdInbox') <= BdInbox
    BY <1>2, BoardTypes
  <2> QED BY <1>1, <1>3, <2>1 DEF BoardInv, BoardTypeOK
<1>5. BoardShown' /\ bdChat' \in Seq(BdText)
  BY <1>1, <1>3 DEF BoardInv, BoardShown
<1>6. ASSUME NEW i \in BdJob, i # e.job, NEW status, NEW kind, Knows(i, status, kind)
      PROVE  Knows(i, status, kind)'
  BY <1>1, <1>3, <1>6 DEF Knows, Receipt
<1>7. BoardTold'
  <2> SUFFICES ASSUME NEW i \in BdJob \ bdMissed
               PROVE  /\ Chain(bdInbox', i)
                      /\ \A n \in 1..Len(bdInbox') : Newest(bdInbox', i, n) => bdInbox'[n].to = bdJob[i] /\ ~Half(bdInbox'[n])
                      /\ MineIn(bdInbox', i) = {} => \A f : f = bdJob[i] => Knows(i, f, "none")'
                      /\ \A n \in 1..Len(bdInbox') : Oldest(bdInbox', i, n) =>
                           \A f, k : f = bdInbox'[n].from /\ k = bdInbox'[n].kind => Knows(i, f, k)'
    <3>1. bdJob' = bdJob /\ bdMissed' = bdMissed
      BY <1>1
    <3> QED BY <3>1 DEF BoardTold, Knows, Receipt
  <2> DEFINE r == Tail(bdInbox)
  <2>1. /\ Chain(bdInbox, i)
        /\ \A n \in 1..Len(bdInbox) : Newest(bdInbox, i, n) => bdInbox[n].to = bdJob[i] /\ ~Half(bdInbox[n])
        /\ MineIn(bdInbox, i) = {} => Knows(i, bdJob[i], "none")
        /\ \A n \in 1..Len(bdInbox) : Oldest(bdInbox, i, n) => Knows(i, bdInbox[n].from, bdInbox[n].kind)
    BY DEF BoardInv, BoardTold
  <2>2. /\ e = bdInbox[1] /\ 1 \in 1..Len(bdInbox) /\ Chain(r, i)
        /\ \A n \in 1..Len(r) : n + 1 \in 1..Len(bdInbox) /\ r[n] = bdInbox[n + 1]
        /\ \A n \in 1..Len(r) : Newest(r, i, n) => Newest(bdInbox, i, n + 1)
        /\ e.job # i => /\ MineIn(r, i) = {} => MineIn(bdInbox, i) = {}
                        /\ \A n \in 1..Len(r) : Oldest(r, i, n) => Oldest(bdInbox, i, n + 1)
        /\ e.job = i => /\ Oldest(bdInbox, i, 1)
                        /\ MineIn(r, i) = {} => Newest(bdInbox, i, 1)
                        /\ \A n \in 1..Len(r) : Oldest(r, i, n) =>
                             r[n].from = e.to /\ (r[n].kind = "completed" <=> Half(e))
    <3>1. bdInbox \in Seq(BdEvents)
      BY BoardTypes
    <3>2. e = Head(bdInbox)
      BY DEF e
    <3>3. bdInbox # <<>>
      BY <1>1
    <3> HIDE DEF e
    <3> QED BY <2>1, <3>1, <3>2, <3>3, ChainShrinks
  <2> HIDE DEF r
  <2>3. bdInbox' = r
    BY <1>1 DEF r
  <2>4. \A n \in 1..Len(r) : Newest(r, i, n) => r[n].to = bdJob[i] /\ ~Half(r[n])
    BY <2>1, <2>2
  <2>5. CASE e.job # i
    <3>1. ASSUME MineIn(r, i) = {}, NEW f, f = bdJob[i] PROVE Knows(i, f, "none")'
      <4>1. Knows(i, f, "none")
        BY <2>1, <2>2, <2>5, <3>1
      <4> QED BY <1>6, <2>5, <4>1
    <3>2. ASSUME NEW n \in 1..Len(r), Oldest(r, i, n), NEW f, NEW k, f = r[n].from, k = r[n].kind PROVE Knows(i, f, k)'
      <4>1. Knows(i, bdInbox[n + 1].from, bdInbox[n + 1].kind) /\ bdInbox[n + 1] = r[n]
        BY <2>1, <2>2, <2>5, <3>2
      <4>2. Knows(i, f, k)
        BY <3>2, <4>1
      <4> QED BY <1>6, <2>5, <4>2
    <3> QED BY <2>2, <2>3, <2>4, <3>1, <3>2
  <2>6. CASE e.job = i
    <3>1. Knows(e.job, e.from, e.kind)
      BY <2>1, <2>2, <2>6
    <3>2. PICK d : d = e
      OBVIOUS
    <3>3. ASSUME NEW k, k = "completed" <=> Half(d) PROVE Knows(d.job, d.to, k)'
      BY <1>1, <1>2, <3>1, <3>2, <3>3, TookTeaches
    <3>4. ASSUME MineIn(r, i) = {}, NEW f, f = bdJob[i] PROVE Knows(i, f, "none")'
      <4>1. f = d.to /\ ~Half(d)
        BY <2>1, <2>2, <2>6, <3>2, <3>4
      <4>2. Knows(d.job, d.to, "none")'
        BY <3>3, <4>1
      <4> QED BY <2>6, <3>2, <4>1, <4>2
    <3>5. ASSUME NEW n \in 1..Len(r), Oldest(r, i, n), NEW f, NEW k, f = r[n].from, k = r[n].kind PROVE Knows(i, f, k)'
      <4>1. f = d.to /\ (k = "completed" <=> Half(d))
        BY <2>2, <2>6, <3>2, <3>5
      <4>2. Knows(d.job, d.to, k)'
        BY <3>3, <4>1
      <4> QED BY <2>6, <3>2, <4>1, <4>2
    <3> QED BY <2>2, <2>3, <2>4, <3>4, <3>5
  <2> QED BY <2>5, <2>6
<1> QED BY <1>2, <1>4, <1>5, <1>7 DEF BoardInv

-----------------------------------------------------------------------------
(* The rest of the actor: rows go only when the board does, and then the   *)
(* ends they showed are on a message that is closed, or nobody saw them.   *)
LEMMA ToldStays ==
  ASSUME BoardInv, bdInbox' = bdInbox, bdJob' = bdJob, bdMissed' = bdMissed, bdWatch' = bdWatch,
         bdUntold \subseteq bdUntold',
         \A i \in BdJob : bdRows'[i] \in {bdRows[i], "absent"} /\ (Receipt(i) /\ i \notin bdUntold' => Receipt(i)')
  PROVE  BoardTold'
<1>1. ASSUME NEW i \in BdJob, NEW f, NEW k, Knows(i, f, k) PROVE Knows(i, f, k)'
  BY <1>1 DEF Knows
<1> SUFFICES ASSUME NEW i \in BdJob \ bdMissed
             PROVE  /\ Chain(bdInbox, i)
                    /\ \A n \in 1..Len(bdInbox) : Newest(bdInbox, i, n) => bdInbox[n].to = bdJob[i] /\ ~Half(bdInbox[n])
                    /\ MineIn(bdInbox, i) = {} => \A f : f = bdJob[i] => Knows(i, f, "none")'
                    /\ \A n \in 1..Len(bdInbox) : Oldest(bdInbox, i, n) =>
                         \A f, k : f = bdInbox[n].from /\ k = bdInbox[n].kind => Knows(i, f, k)'
  BY DEF BoardTold, Knows, Receipt
<1>2. /\ Chain(bdInbox, i)
      /\ \A n \in 1..Len(bdInbox) : Newest(bdInbox, i, n) => bdInbox[n].to = bdJob[i] /\ ~Half(bdInbox[n])
      /\ MineIn(bdInbox, i) = {} => Knows(i, bdJob[i], "none")
      /\ \A n \in 1..Len(bdInbox) : Oldest(bdInbox, i, n) => Knows(i, bdInbox[n].from, bdInbox[n].kind)
  BY DEF BoardInv, BoardTold
<1>3. ASSUME MineIn(bdInbox, i) = {}, NEW f, f = bdJob[i] PROVE Knows(i, f, "none")'
  <2>1. Knows(i, f, "none")
    BY <1>2, <1>3
  <2> QED BY <1>1, <2>1
<1>4. ASSUME NEW n \in 1..Len(bdInbox), Oldest(bdInbox, i, n), NEW f, NEW k, f = bdInbox[n].from, k = bdInbox[n].kind
      PROVE  Knows(i, f, k)'
  <2>1. Knows(i, f, k)
    BY <1>2, <1>4
  <2> QED BY <1>1, <2>1
<1> QED BY <1>2, <1>3, <1>4

LEMMA RedrawKeeps ==
  ASSUME BoardInv, TickRedraw \/ TickLooks
  PROVE  BoardInv'
<1>1. /\ UNCHANGED <<bdJob, bdInbox, bdWatch, bdRows, bdBudget, bdChat, bdTurns, bdFaults, bdMissed, bdUntold>>
      /\ bdCall' \in {"none", "draw"} /\ bdBoard.up
  BY DEF TickRedraw, TickLooks
<1>2. \E idle \in {"no", "set", "tried"}, dirty \in BOOLEAN : bdBoard' = [bdBoard EXCEPT !.idle = idle, !.dirty = dirty]
  <2>1. bdBoard.dirty \in BOOLEAN /\ bdBoard.idle \in {"no", "set", "tried"} /\ bdBoard = [bdBoard EXCEPT !.dirty = bdBoard.dirty]
    BY BoardTypes DEF Board
  <2>2. CASE TickRedraw
    <3> DEFINE idle == IF IdleTick = "no" THEN "no" ELSE "tried"
               dirty == bdBoard.dirty /\ (Stale \/ ~HasRows)
    <3>1. bdBoard' = [bdBoard EXCEPT !.idle = idle, !.dirty = dirty]
      BY <2>2 DEF TickRedraw
    <3>2. dirty \in BOOLEAN
      BY <2>1
    <3>3. idle \in {"no", "set", "tried"}
      OBVIOUS
    <3> HIDE DEF idle, dirty
    <3> QED BY <3>1, <3>2, <3>3
  <2>3. CASE TickLooks
    <3> DEFINE idle == IF IdleTick = "no" THEN "no" ELSE IF bdBoard.idle = "no" THEN "set" ELSE bdBoard.idle
    <3>1. bdBoard' = [bdBoard EXCEPT !.idle = idle]
      BY <2>3 DEF TickLooks
    <3>2. idle \in {"no", "set", "tried"}
      BY <2>1
    <3> HIDE DEF idle
    <3>3. [bdBoard EXCEPT !.idle = idle] = [bdBoard EXCEPT !.idle = idle, !.dirty = bdBoard.dirty]
      BY BoardTypes DEF Board
    <3> QED BY <2>1, <3>1, <3>2, <3>3
  <2> QED BY <2>2, <2>3
<1>3. bdBoard' \in Board /\ bdBoard'.msg = bdBoard.msg /\ bdBoard'.drawn = bdBoard.drawn /\ bdBoard'.up = bdBoard.up
  BY <1>2, BoardTypes DEF Board
<1>4. BoardTypeOK' /\ bdInbox' \in Seq(BdEvents) /\ bdChat' \in Seq(BdText)
  BY <1>1, <1>3 DEF BoardInv, BoardTypeOK
<1>5. BoardShown'
  BY <1>1, <1>3 DEF BoardInv, BoardShown
<1>6. \A i \in BdJob : bdRows'[i] = bdRows[i] /\ (Receipt(i) => Receipt(i)')
  BY <1>1, <1>3 DEF Receipt
<1>7. BoardTold'
  BY <1>1, <1>6, ToldStays
<1> QED BY <1>4, <1>5, <1>7 DEF BoardInv

LEMMA DropsIs ==
  ASSUME Drops
  PROVE  /\ bdRows' \in [BdJob -> Statuses] /\ bdBoard' \in Board /\ bdBoard'.msg = 0 /\ \A i \in BdJob : bdRows'[i] = "absent"
BY NoBoardTyped DEF Drops, NoRows

LEMMA RetireKeeps ==
  ASSUME BoardInv, TickRetire
  PROVE  BoardInv'
<1>1. UNCHANGED <<bdJob, bdInbox, bdWatch, bdBudget, bdChat, bdTurns, bdFaults, bdMissed>> /\ bdBoard.up
  BY DEF TickRetire
<1>2. CASE ~bdBoard.drawn
  <2>1. Drops /\ bdUntold' = bdUntold \cup {j \in BdJob : bdRows[j] # "absent"} /\ bdCall' = bdCall /\ bdCall = "none"
    BY <1>2 DEF TickRetire
  <2>2. bdRows' \in [BdJob -> Statuses] /\ bdBoard' \in Board /\ bdBoard'.msg = 0 /\ \A i \in BdJob : bdRows'[i] = "absent"
    BY <2>1, DropsIs
  <2>3. bdBoard.msg = 0
    BY <1>2 DEF BoardInv, BoardShown
  <2>4. BoardTypeOK' /\ bdInbox' \in Seq(BdEvents) /\ bdChat' \in Seq(BdText)
    BY <1>1, <2>1, <2>2 DEF BoardInv, BoardTypeOK
  <2>5. BoardShown'
    BY <1>1, <2>1, <2>2, <2>3, BoardTypes DEF BoardInv, BoardShown
  <2>6. ASSUME NEW i \in BdJob, Receipt(i), i \notin bdUntold' PROVE Receipt(i)'
    <3>1. bdRows[i] = "absent"
      BY <2>1, <2>6
    <3> QED BY <1>1, <2>2, <2>3, <2>6, <3>1 DEF Receipt
  <2>7. BoardTold'
    BY <1>1, <2>1, <2>2, <2>6, ToldStays
  <2> QED BY <2>4, <2>5, <2>7 DEF BoardInv
<1>3. CASE bdBoard.drawn
  <2>1. bdCall' = "close" /\ UNCHANGED <<bdRows, bdBoard, bdUntold>>
    BY <1>3 DEF TickRetire
  <2>2. BoardTypeOK' /\ bdInbox' \in Seq(BdEvents) /\ bdChat' \in Seq(BdText) /\ BoardShown'
    BY <1>1, <2>1 DEF BoardInv, BoardTypeOK, BoardShown
  <2>3. \A i \in BdJob : Receipt(i) => Receipt(i)'
    BY <1>1, <2>1 DEF Receipt
  <2>4. BoardTold'
    BY <1>1, <2>1, <2>3, ToldStays
  <2> QED BY <2>2, <2>4 DEF BoardInv
<1> QED BY <1>2, <1>3

LEMMA BudgetBackKeeps ==
  ASSUME BoardInv, BudgetBack \/ UNCHANGED bdVars
  PROVE  BoardInv'
<1>1. UNCHANGED <<bdJob, bdInbox, bdActor, bdCall, bdChat, bdTurns, bdFaults, bdMissed, bdUntold>> /\ bdBudget' \in BOOLEAN
  BY BoardTypes DEF BudgetBack, bdVars
<1>2. BoardTypeOK' /\ bdInbox' \in Seq(BdEvents) /\ bdChat' \in Seq(BdText) /\ BoardShown'
  BY <1>1 DEF BoardInv, BoardTypeOK, BoardShown, bdActor
<1>3. \A i \in BdJob : Receipt(i) => Receipt(i)'
  BY <1>1 DEF Receipt, bdActor
<1>4. BoardTold'
  BY <1>1, <1>3, ToldStays DEF bdActor
<1> QED BY <1>2, <1>4 DEF BoardInv

-----------------------------------------------------------------------------
(* The answers.                                                            *)
LEMMA MessageIs ==
  ASSUME BoardInv, NEW ours \in BOOLEAN, NEW known \in BOOLEAN
  PROVE  /\ Message(ours, known) \in BdText /\ Message(ours, known).ours = ours
         /\ Message(ours, known).rows = bdRows
         /\ Message(ours, known).state = IF bdCall = "close" THEN "closed" ELSE "live"
BY BoardTypes DEF Message, Text, BdText

LEMMA ExceptText ==
  ASSUME NEW T, NEW s \in Seq(T), NEW n \in 1..Len(s), NEW t \in T
  PROVE  LET r == [s EXCEPT ![n] = t] IN
         r \in Seq(T) /\ Len(r) = Len(s) /\ r[n] = t /\ \A m \in 1..Len(s) : m # n => r[m] = s[m]
OBVIOUS

LEMMA EditedIs ==
  ASSUME BoardInv, bdBoard.msg # 0, NEW known \in BOOLEAN, bdChat' = Edited(known)
  PROVE  /\ bdChat' \in Seq(BdText) /\ Len(bdChat') = Len(bdChat) /\ bdBoard.msg \in 1..Len(bdChat)
         /\ bdChat'[bdBoard.msg].rows = bdRows /\ bdChat'[bdBoard.msg].ours = TRUE
         /\ bdChat'[bdBoard.msg].state = IF bdCall = "close" THEN "closed" ELSE "live"
         /\ \A m \in 1..Len(bdChat) : m # bdBoard.msg => bdChat'[m] = bdChat[m]
<1> DEFINE t == Message(TRUE, known)
           b == bdBoard.msg
<1>1. t \in BdText /\ t.ours = TRUE /\ t.rows = bdRows /\ t.state = IF bdCall = "close" THEN "closed" ELSE "live"
  BY MessageIs
<1>2. b \in 1..Len(bdChat) /\ bdChat \in Seq(BdText)
  BY BoardTypes DEF BoardInv, BoardShown
<1>3. bdChat' = [bdChat EXCEPT ![b] = t]
  BY DEF Edited
<1> HIDE DEF t, b
<1>4. bdChat' \in Seq(BdText) /\ Len(bdChat') = Len(bdChat) /\ bdChat'[b] = t /\ \A m \in 1..Len(bdChat) : m # b => bdChat'[m] = bdChat[m]
  BY <1>1, <1>2, <1>3, ExceptText
<1> QED BY <1>1, <1>2, <1>4 DEF b

LEMMA SentIs ==
  ASSUME BoardInv, NEW ours \in BOOLEAN, Len(bdChat) < BdMessages, bdChat' = Sent(ours)
  PROVE  /\ bdChat' \in Seq(BdText) /\ Len(bdChat') = Len(bdChat) + 1 /\ Len(bdChat') <= BdMessages
         /\ bdChat'[Len(bdChat) + 1].rows = bdRows /\ bdChat'[Len(bdChat) + 1].ours = ours
         /\ bdChat'[Len(bdChat) + 1].state = IF bdCall = "close" THEN "closed" ELSE "live"
         /\ \A m \in 1..Len(bdChat) : bdChat'[m] = bdChat[m]
<1> DEFINE t == Message(ours, ours)
<1>1. t \in BdText /\ t.ours = ours /\ t.rows = bdRows /\ t.state = IF bdCall = "close" THEN "closed" ELSE "live"
  BY MessageIs
<1>2. bdChat \in Seq(BdText) /\ Len(bdChat) \in Nat /\ BdMessages \in Nat
  BY BoardTypes
<1>3. bdChat' = Append(bdChat, t)
  BY DEF Sent
<1> HIDE DEF t
<1>4. /\ bdChat' \in Seq(BdText) /\ Len(bdChat') = Len(bdChat) + 1 /\ bdChat'[Len(bdChat) + 1] = t
      /\ \A m \in 1..Len(bdChat) : bdChat'[m] = bdChat[m]
  BY <1>1, <1>2, <1>3, AppendProperties
<1> QED BY <1>1, <1>2, <1>4

AnswerRest == UNCHANGED <<bdJob, bdInbox, bdWatch, bdTurns, bdMissed, bdUntold>>

LEMMA AnswerTypes ==
  ASSUME BoardInv, AnswerRest, bdCall' = "none", bdBudget' \in BOOLEAN, bdFaults' \in 0..BdFaults,
         bdRows' \in [BdJob -> Statuses], bdBoard' \in Board, bdChat' \in Seq(BdText), Len(bdChat') <= BdMessages
  PROVE  BoardTypeOK' /\ bdInbox' \in Seq(BdEvents) /\ bdChat' \in Seq(BdText)
BY DEF BoardInv, BoardTypeOK, AnswerRest

LEMMA ArrivesKeeps ==
  ASSUME BoardInv, AnswerRest, bdCall # "none", bdCall' = "none", Arrives, bdBudget' = FALSE
  PROVE  BoardInv'
<1> DEFINE id == IF bdBoard.msg # 0 THEN bdBoard.msg ELSE Len(bdChat) + 1
<1>1. /\ bdChat' \in Seq(BdText) /\ id \in 1..Len(bdChat') /\ Len(bdChat') <= BdMessages /\ Len(bdChat') \in Nat
      /\ bdChat'[id].rows = bdRows /\ bdChat'[id].state = (IF bdCall = "close" THEN "closed" ELSE "live")
      /\ \A m \in 1..Len(bdChat) : m # id => m \in 1..Len(bdChat') /\ bdChat'[m] = bdChat[m]
      /\ \A m \in 1..Len(bdChat') : m # id => m \in 1..Len(bdChat)
      /\ Landed(id) /\ bdFaults' = bdFaults
  <2>1. CASE bdBoard.msg # 0
    <3>1. bdChat' = Edited(TRUE) /\ Landed(bdBoard.msg) /\ bdFaults' = bdFaults
      BY <2>1 DEF Arrives
    <3> QED BY <2>1, <3>1, EditedIs, BoardTypes
  <2>2. CASE bdBoard.msg = 0
    <3>1. Len(bdChat) < BdMessages /\ bdChat' = Sent(TRUE) /\ Landed(Len(bdChat) + 1) /\ bdFaults' = bdFaults
      BY <2>2 DEF Arrives
    <3>2. /\ bdChat' \in Seq(BdText) /\ Len(bdChat') = Len(bdChat) + 1 /\ Len(bdChat') <= BdMessages
          /\ bdChat'[Len(bdChat) + 1].rows = bdRows
          /\ bdChat'[Len(bdChat) + 1].state = (IF bdCall = "close" THEN "closed" ELSE "live")
          /\ \A m \in 1..Len(bdChat) : bdChat'[m] = bdChat[m]
      BY <3>1, SentIs
    <3>3. id = Len(bdChat) + 1 /\ Len(bdChat) \in Nat
      BY <2>2, BoardTypes
    <3> HIDE DEF id
    <3>4. id \in 1..Len(bdChat') /\ Len(bdChat') \in Nat
      BY <3>2, <3>3
    <3>5. \A m \in 1..Len(bdChat') : m # id => m \in 1..Len(bdChat)
      BY <3>2, <3>3
    <3>6. \A m \in 1..Len(bdChat) : m \in 1..Len(bdChat')
      BY <3>2, <3>3
    <3> QED BY <3>1, <3>2, <3>3, <3>4, <3>5, <3>6
  <2> QED BY <2>1, <2>2
<1> HIDE DEF id
<1>2. bdBoard.msg # 0 => bdBoard.msg = id
  BY DEF id
<1>3. CASE bdCall = "close"
  <2>1. bdRows' \in [BdJob -> Statuses] /\ bdBoard' \in Board /\ bdBoard'.msg = 0 /\ \A i \in BdJob : bdRows'[i] = "absent"
    BY <1>1, <1>3, DropsIs DEF Landed
  <2>2. BoardTypeOK' /\ bdInbox' \in Seq(BdEvents) /\ bdChat' \in Seq(BdText)
    BY <1>1, <2>1, AnswerTypes, BoardTypes
  <2>3. BoardShown'
    <3>1. ASSUME NEW m \in 1..Len(bdChat'), bdChat'[m].state = "live", bdChat'[m].ours PROVE FALSE
      <4>1. m # id /\ m \in 1..Len(bdChat) /\ bdChat'[m] = bdChat[m]
        BY <1>1, <1>3, <3>1
      <4>2. bdBoard.msg = m
        BY <3>1, <4>1 DEF BoardInv, BoardShown
      <4> QED BY <1>2, <4>1, <4>2
    <3> QED BY <1>1, <2>1, <3>1 DEF BoardShown
  <2>4. ASSUME NEW i \in BdJob, Receipt(i) PROVE Receipt(i)'
    <3>1. CASE bdRows[i] = "ended"
      BY <1>1, <1>3, <2>1, <3>1 DEF Receipt
    <3>2. CASE bdRows[i] # "ended"
      <4>1. PICK m \in 1..Len(bdChat) : m # bdBoard.msg /\ bdChat[m].rows[i] = "ended" /\ bdChat[m].state # "live"
        BY <2>4, <3>2 DEF Receipt
      <4>2. m # id
        BY <1>1, <4>1, BoardTypes DEF id
      <4> QED BY <1>1, <2>1, <4>1, <4>2 DEF Receipt
    <3> QED BY <3>1, <3>2
  <2>5. BoardTold'
    BY <2>1, <2>4, ToldStays DEF AnswerRest
  <2> QED BY <2>2, <2>3, <2>5 DEF BoardInv
<1>4. CASE bdCall # "close"
  <2>1. bdRows' = bdRows /\ bdBoard' = [bdBoard EXCEPT !.msg = id, !.last = bdRows, !.dirty = FALSE, !.drawn = TRUE]
    BY <1>1, <1>4 DEF Landed
  <2>2. bdBoard' \in Board /\ bdBoard'.msg = id /\ bdBoard'.drawn /\ bdBoard'.up = bdBoard.up /\ bdBoard.up
    <3>1. id \in 0..BdMessages /\ bdRows \in [BdJob -> Statuses] /\ bdBoard \in Board
      BY <1>1, BoardTypes
    <3>2. bdBoard.up
      BY DEF BoardInv, BoardShown
    <3> QED BY <2>1, <3>1, <3>2 DEF Board
  <2>3. BoardTypeOK' /\ bdInbox' \in Seq(BdEvents) /\ bdChat' \in Seq(BdText)
    BY <1>1, <2>1, <2>2, AnswerTypes, BoardTypes
  <2>4. BoardShown'
    <3>1. ASSUME NEW m \in 1..Len(bdChat'), bdChat'[m].state = "live", bdChat'[m].ours, m # id PROVE FALSE
      <4>1. m \in 1..Len(bdChat) /\ bdChat'[m] = bdChat[m]
        BY <1>1, <3>1
      <4>2. bdBoard.msg = m
        BY <3>1, <4>1 DEF BoardInv, BoardShown
      <4> QED BY <1>2, <3>1, <4>1, <4>2
    <3> QED BY <1>1, <2>2, <3>1 DEF BoardShown
  <2>5. ASSUME NEW i \in BdJob, Receipt(i) PROVE Receipt(i)'
    <3>1. CASE bdRows[i] = "ended"
      BY <2>1, <3>1 DEF Receipt
    <3>2. CASE bdRows[i] # "ended"
      <4>1. PICK m \in 1..Len(bdChat) : m # bdBoard.msg /\ bdChat[m].rows[i] = "ended" /\ bdChat[m].state # "live"
        BY <2>5, <3>2 DEF Receipt
      <4>2. m # id
        BY <1>1, <4>1, BoardTypes DEF id
      <4> QED BY <1>1, <2>2, <4>1, <4>2 DEF Receipt
    <3> QED BY <3>1, <3>2
  <2>6. BoardTold'
    BY <2>1, <2>5, ToldStays DEF AnswerRest
  <2> QED BY <2>3, <2>4, <2>6 DEF BoardInv
<1> QED BY <1>3, <1>4

-----------------------------------------------------------------------------
LEMMA ReceiptStays ==
  ASSUME BoardInv, bdRows' = bdRows, NEW i \in BdJob, Receipt(i),
         \A m \in 1..Len(bdChat) : m # bdBoard.msg /\ bdChat[m].state # "live" =>
           m \in 1..Len(bdChat') /\ m # bdBoard'.msg /\ bdChat'[m].rows = bdChat[m].rows /\ bdChat'[m].state # "live"
  PROVE  Receipt(i)'
BY DEF Receipt

LEMMA RefusedKeeps ==
  ASSUME BoardInv, AnswerRest, bdCall # "none", bdCall' = "none", Refused, bdBudget' = bdBudget
  PROVE  BoardInv'
<1>1. bdRows' = bdRows /\ bdFaults' \in 0..BdFaults /\ bdBudget' \in BOOLEAN /\ bdRows \in [BdJob -> Statuses]
  BY BoardTypes DEF Refused
<1>2. CASE bdBoard.msg = 0
  <2>1. bdChat' = bdChat /\ bdBoard' = bdBoard
    BY <1>2 DEF Refused
  <2>2. BoardTypeOK' /\ bdInbox' \in Seq(BdEvents) /\ bdChat' \in Seq(BdText)
    BY <1>1, <2>1, AnswerTypes, BoardTypes
  <2>3. BoardShown'
    BY <2>1 DEF BoardInv, BoardShown
  <2>4. \A i \in BdJob : Receipt(i) => Receipt(i)'
    BY <1>1, <2>1 DEF Receipt
  <2>5. BoardTold'
    BY <1>1, <2>4, ToldStays DEF AnswerRest
  <2> QED BY <2>2, <2>3, <2>5 DEF BoardInv
<1>3. CASE bdBoard.msg # 0
  <2> DEFINE b == bdBoard.msg
  <2>1. bdBoard' = Forgotten /\ bdChat' = [bdChat EXCEPT ![b].ours = FALSE]
    BY <1>3 DEF Refused
  <2>2. bdBoard' \in Board /\ bdBoard'.msg = 0 /\ bdBoard'.up = bdBoard.up
    <3> DEFINE none == <<>>
    <3>1. bdBoard' = [bdBoard EXCEPT !.msg = 0, !.last = none, !.dirty = TRUE]
      BY <2>1 DEF Forgotten
    <3>2. none \in {<<>>} \cup [BdJob -> Statuses]
      OBVIOUS
    <3>3. bdBoard \in Board /\ 0 \in 0..BdMessages
      BY BoardTypes
    <3> DEFINE lasts == {<<>>} \cup [BdJob -> Statuses]
    <3>4. bdBoard \in [up : BOOLEAN, dirty : BOOLEAN, idle : {"no", "set", "tried"}, drawn : BOOLEAN,
                       msg : 0..BdMessages, last : lasts]
      BY <3>3 DEF Board
    <3> HIDE DEF none, lasts
    <3>5. bdBoard' \in [up : BOOLEAN, dirty : BOOLEAN, idle : {"no", "set", "tried"}, drawn : BOOLEAN,
                        msg : 0..BdMessages, last : lasts]
      BY <3>1, <3>2, <3>3, <3>4 DEF lasts
    <3>6. bdBoard'.msg = 0 /\ bdBoard'.up = bdBoard.up
      BY <3>1, <3>4
    <3> QED BY <3>5, <3>6 DEF lasts, Board
  <2>3. b \in 1..Len(bdChat) /\ bdChat \in Seq(BdText) /\ Len(bdChat) \in Nat /\ Len(bdChat) <= BdMessages
    BY <1>3, BoardTypes DEF BoardInv, BoardShown
  <2> DEFINE t == [bdChat[b] EXCEPT !.ours = FALSE]
  <2>4. t \in BdText /\ t.ours = FALSE /\ bdChat' = [bdChat EXCEPT ![b] = t]
    <3>1. bdChat[b] \in BdText
      BY <2>3
    <3>2. t \in BdText /\ t.ours = FALSE
      BY <3>1 DEF BdText
    <3>3. bdChat' = [bdChat EXCEPT ![b] = t]
      BY <2>1, <2>3
    <3> QED BY <3>2, <3>3
  <2> HIDE DEF t, b
  <2>5. bdChat' \in Seq(BdText) /\ Len(bdChat') = Len(bdChat) /\ bdChat'[b] = t /\ \A m \in 1..Len(bdChat) : m # b => bdChat'[m] = bdChat[m]
    BY <2>3, <2>4, ExceptText
  <2>6. BoardTypeOK' /\ bdInbox' \in Seq(BdEvents) /\ bdChat' \in Seq(BdText)
    BY <1>1, <2>2, <2>3, <2>5, AnswerTypes
  <2>7. BoardShown'
    <3>1. ASSUME NEW m \in 1..Len(bdChat'), bdChat'[m].state = "live", bdChat'[m].ours PROVE FALSE
      <4>1. m # b /\ m \in 1..Len(bdChat) /\ bdChat'[m] = bdChat[m]
        BY <2>4, <2>5, <3>1
      <4>2. bdBoard.msg = m
        BY <3>1, <4>1 DEF BoardInv, BoardShown
      <4> QED BY <4>1, <4>2 DEF b
    <3> QED BY <2>2, <2>3, <2>5, <3>1 DEF BoardShown
  <2>8. ASSUME NEW i \in BdJob, Receipt(i) PROVE Receipt(i)'
    <3>1. \A m \in 1..Len(bdChat) : m # bdBoard.msg => m \in 1..Len(bdChat') /\ m # bdBoard'.msg /\ bdChat'[m] = bdChat[m]
      BY <2>2, <2>3, <2>5 DEF b
    <3> QED BY <1>1, <2>8, <3>1, ReceiptStays
  <2>9. BoardTold'
    BY <1>1, <2>8, ToldStays DEF AnswerRest
  <2> QED BY <2>6, <2>7, <2>9 DEF BoardInv
<1> QED BY <1>2, <1>3

LEMMA LostKeeps ==
  ASSUME BoardInv, AnswerRest, bdCall # "none", bdCall' = "none", NEW arrived \in BOOLEAN, Lost(arrived), bdBudget' \in BOOLEAN
  PROVE  BoardInv'
<1>1. bdRows' = bdRows /\ bdBoard' = bdBoard /\ bdFaults' \in 0..BdFaults /\ bdRows \in [BdJob -> Statuses] /\ bdBoard \in Board
  BY BoardTypes DEF Lost, NotClosed
<1>2. CASE ~arrived
  <2>1. bdChat' = bdChat
    BY <1>2 DEF Lost
  <2>2. BoardTypeOK' /\ bdInbox' \in Seq(BdEvents) /\ bdChat' \in Seq(BdText)
    BY <1>1, <2>1, AnswerTypes, BoardTypes
  <2>3. BoardShown'
    BY <1>1, <2>1 DEF BoardInv, BoardShown
  <2>4. \A i \in BdJob : Receipt(i) => Receipt(i)'
    BY <1>1, <2>1 DEF Receipt
  <2>5. BoardTold'
    BY <1>1, <2>4, ToldStays DEF AnswerRest
  <2> QED BY <2>2, <2>3, <2>5 DEF BoardInv
<1>3. CASE arrived /\ bdBoard.msg # 0
  <2>1. bdChat' = Edited(FALSE)
    BY <1>3 DEF Lost
  <2>2. /\ bdChat' \in Seq(BdText) /\ Len(bdChat') = Len(bdChat) /\ bdBoard.msg \in 1..Len(bdChat)
        /\ \A m \in 1..Len(bdChat) : m # bdBoard.msg => bdChat'[m] = bdChat[m]
    BY <1>3, <2>1, EditedIs
  <2>3. BoardTypeOK' /\ bdInbox' \in Seq(BdEvents) /\ bdChat' \in Seq(BdText)
    BY <1>1, <2>2, AnswerTypes, BoardTypes
  <2>4. BoardShown'
    BY <1>1, <2>2 DEF BoardInv, BoardShown
  <2>5. ASSUME NEW i \in BdJob, Receipt(i) PROVE Receipt(i)'
    BY <1>1, <2>2, <2>5, ReceiptStays
  <2>6. BoardTold'
    BY <1>1, <2>5, ToldStays DEF AnswerRest
  <2> QED BY <2>3, <2>4, <2>6 DEF BoardInv
<1>4. CASE arrived /\ bdBoard.msg = 0
  <2>1. Len(bdChat) < BdMessages /\ bdChat' = Sent(FALSE)
    BY <1>4 DEF Lost
  <2>2. /\ bdChat' \in Seq(BdText) /\ Len(bdChat') = Len(bdChat) + 1 /\ Len(bdChat') <= BdMessages /\ Len(bdChat) \in Nat
        /\ bdChat'[Len(bdChat) + 1].ours = FALSE
        /\ \A m \in 1..Len(bdChat) : bdChat'[m] = bdChat[m]
    BY <2>1, SentIs, BoardTypes
  <2>3. BoardTypeOK' /\ bdInbox' \in Seq(BdEvents) /\ bdChat' \in Seq(BdText)
    BY <1>1, <2>2, AnswerTypes
  <2>4. BoardShown'
    <3>1. ASSUME NEW m \in 1..Len(bdChat'), bdChat'[m].state = "live", bdChat'[m].ours PROVE bdBoard.msg = m
      <4>1. m \in 1..Len(bdChat) /\ bdChat'[m] = bdChat[m]
        BY <2>2, <3>1
      <4> QED BY <3>1, <4>1 DEF BoardInv, BoardShown
    <3> QED BY <1>1, <1>4, <2>2, <3>1 DEF BoardInv, BoardShown
  <2>5. ASSUME NEW i \in BdJob, Receipt(i) PROVE Receipt(i)'
    <3>1. \A m \in 1..Len(bdChat) : m \in 1..Len(bdChat') /\ bdChat'[m] = bdChat[m]
      BY <2>2
    <3> QED BY <1>1, <2>5, <3>1, ReceiptStays
  <2>6. BoardTold'
    BY <1>1, <2>5, ToldStays DEF AnswerRest
  <2> QED BY <2>3, <2>4, <2>6 DEF BoardInv
<1> QED BY <1>2, <1>3, <1>4

LEMMA AnswerKeeps ==
  ASSUME BoardInv, Answer
  PROVE  BoardInv'
<1>1. bdCall # "none" /\ bdCall' = "none" /\ AnswerRest /\ bdBudget \in BOOLEAN
  BY BoardTypes DEF Answer, AnswerRest
<1>2. CASE Arrives /\ bdBudget' = FALSE
  BY <1>1, <1>2, ArrivesKeeps
<1>3. CASE Refused /\ bdBudget' = bdBudget
  BY <1>1, <1>3, RefusedKeeps
<1>4. CASE \E arrived \in BOOLEAN : Lost(arrived) /\ bdBudget' \in BOOLEAN
  BY <1>1, <1>4, LostKeeps
<1> QED BY <1>1, <1>2, <1>3, <1>4 DEF Answer

LEMMA DeletesKeeps ==
  ASSUME BoardInv, NEW m \in DOMAIN bdChat, Deletes(m)
  PROVE  BoardInv'
<1> DEFINE t == [bdChat[m] EXCEPT !.state = "deleted"]
<1>1. m \in 1..Len(bdChat) /\ bdChat \in Seq(BdText) /\ Len(bdChat) \in Nat /\ Len(bdChat) <= BdMessages
  BY BoardTypes
<1>2. t \in BdText /\ t.state = "deleted" /\ t.rows = bdChat[m].rows /\ bdChat' = [bdChat EXCEPT ![m] = t]
  <2>1. bdChat[m] \in BdText
    BY <1>1
  <2>2. t \in BdText /\ t.state = "deleted" /\ t.rows = bdChat[m].rows
    BY <2>1 DEF BdText
  <2>3. bdChat' = [bdChat EXCEPT ![m] = t]
    BY <1>1 DEF Deletes
  <2> QED BY <2>2, <2>3
<1> HIDE DEF t
<1>3. bdChat' \in Seq(BdText) /\ Len(bdChat') = Len(bdChat) /\ bdChat'[m] = t /\ \A n \in 1..Len(bdChat) : n # m => bdChat'[n] = bdChat[n]
  BY <1>1, <1>2, ExceptText
<1>4. UNCHANGED <<bdJob, bdInbox, bdWatch, bdRows, bdBoard, bdBudget, bdCall, bdTurns, bdMissed, bdUntold>> /\ bdFaults' \in 0..BdFaults
  BY BoardTypes DEF Deletes, bdActor
<1>5. BoardTypeOK' /\ bdInbox' \in Seq(BdEvents)
  BY <1>1, <1>3, <1>4 DEF BoardInv, BoardTypeOK
<1>6. BoardShown'
  <2>1. ASSUME NEW n \in 1..Len(bdChat'), bdChat'[n].state = "live", bdChat'[n].ours PROVE bdBoard.msg = n
    <3>1. n \in 1..Len(bdChat) /\ n # m /\ bdChat'[n] = bdChat[n]
      BY <1>2, <1>3, <2>1
    <3> QED BY <2>1, <3>1 DEF BoardInv, BoardShown
  <2> QED BY <1>3, <1>4, <2>1 DEF BoardInv, BoardShown
<1>7. ASSUME NEW i \in BdJob, Receipt(i) PROVE Receipt(i)'
  <2>1. \A n \in 1..Len(bdChat) : n \in 1..Len(bdChat') /\ bdChat'[n].rows = bdChat[n].rows
                                  /\ (bdChat[n].state # "live" => bdChat'[n].state # "live")
    BY <1>2, <1>3
  <2> QED BY <1>4, <1>7, <2>1, ReceiptStays
<1>8. BoardTold'
  BY <1>4, <1>7, ToldStays
<1> QED BY <1>3, <1>5, <1>6, <1>8 DEF BoardInv

LEMMA BoardStep ==
  ASSUME BoardInv, [BoardNext]_bdVars
  PROVE  BoardInv'
BY EngineKeepsBoard, OnEventKeeps, RedrawKeeps, RetireKeeps, BudgetBackKeeps, AnswerKeeps, DeletesKeeps DEF BoardNext

LEMMA BoardShows == BoardInv => BoardIsTrue
<1> SUFFICES ASSUME BoardInv PROVE BoardIsTrue
  OBVIOUS
<1>1. bdInbox = <<>> => \A j \in BdJob \ bdMissed : Knows(j, bdJob[j], "none")
  BY DEF BoardInv, BoardTold, MineIn
<1>2. BoardFollows
  BY <1>1 DEF BoardFollows, Knows
<1>3. DOMAIN bdChat = 1..Len(bdChat) /\ Len(bdChat) \in Nat
  BY BoardTypes
<1>4. \A m \in DOMAIN bdChat : bdChat[m].state = "live" /\ bdChat[m].ours => bdBoard.up /\ bdBoard.msg = m
  BY <1>3 DEF BoardInv, BoardShown
<1>5. BoardReceipts
  BY <1>1, <1>3, <1>4 DEF BoardReceipts, Knows, Receipt
<1> QED BY <1>2, <1>5 DEF BoardIsTrue

(* The variables of the board keep their types, and what is still to come  *)
(* of each job takes its rows to where the engine is.                      *)
THEOREM BoardTypesHold == BoardSpec => []BoardTypeOK
<1>1. BoardInv => BoardTypeOK
  BY DEF BoardInv
<1> QED BY <1>1, BoardStarts, BoardStep, PTL DEF BoardSpec

(* Between two events the actor watches the jobs that are not over and its *)
(* rows say what the engine says, no message is left behind under a live   *)
(* header, and the end of a job is on the board or was on one that was     *)
(* closed.                                                                 *)
THEOREM BoardStaysTrue == BoardSpec => [][BoardIsTrue']_bdVars
<1>1. BoardInv /\ [BoardNext]_bdVars => [BoardIsTrue']_bdVars
  BY BoardStep, BoardShows, PTL
<1> QED BY <1>1, BoardStarts, BoardStep, PTL DEF BoardSpec

-----------------------------------------------------------------------------
(* The strengthening of GroupsAreTrue, of a state x of gr: memory is as    *)
(* the invariant says and the rows of the done window are over, the        *)
(* group's in it once at most; the accumulator's total is what its counts  *)
(* add up to, and it lives no longer than the group's row in memory; the   *)
(* entries that the expansion has not reached have no rows.  The counts    *)
(* and the roll-up are true of a window with room for a child beside the   *)
(* group only.                                                             *)
Roomy == GrWindow > 1
GrAcc == [live : BOOLEAN, count : [RowStatus -> Nat], resolved : Nat]
GrState == [group : RowStatus \cup {"gone"}, child : [Children -> RowStatus \cup {"none", "gone"}],
            here : BOOLEAN, cached : SUBSET Children, acc : GrAcc,
            done : Seq(0..Other), ghosts : [RowStatus -> Nat]]
GrCmd == [op : {"promote", "none", "cancel", "pause", "retry", "delete"},
          rest : Seq(Children \cup {Group}), doomed : SUBSET (Children \cup {Group})]
Total(count) == count["queued"] + count["running"] + count["finished"] + count["error"] + count["canceled"]
DoneOver(x) ==
  /\ \A i \in 1..Len(x.done) : x.done[i] \in Children => x.child[x.done[i]] \in Over
  /\ Single(x.done, Group)
InMemory(x) == x \in GrState /\ Live(x) \subseteq x.cached /\ x.cached \subseteq Stored(x) /\ DoneOver(x) /\ (x.acc.live => x.here)
Counted(x) ==
  Roomy /\ x.acc.live =>
    /\ \A s \in RowStatus : x.acc.count[s] = Under(Children, x.child, s) + x.ghosts[s]
    /\ x.acc.resolved = Total(x.acc.count)
Rolled(x) == Roomy /\ x.acc.live /\ x.here => x.group = RollUp(x.acc.count)
NextFree == grNext # 0 => \A c \in Children : c >= grNext => gr.child[c] \notin RowStatus
GroupsInv ==
  /\ InMemory(gr) /\ Counted(gr) /\ (~grLoose => Rolled(gr)) /\ NextFree
  /\ grNext \in 0..GrChildren \cup {1} /\ grAsked \in BOOLEAN /\ grCmd \in GrCmd /\ grLoose \in BOOLEAN

-----------------------------------------------------------------------------
(* Counting children.                                                      *)
GrMap == [Children -> RowStatus \cup {"none", "gone"}]

LEMMA ChildrenFinite == IsFiniteSet(Children) /\ \A ids : IsFiniteSet(ids \cap Children)
<1>1. IsFiniteSet(Children)
  BY FS_Interval, GrAssumption DEF Children
<1>2. ASSUME NEW ids PROVE IsFiniteSet(ids \cap Children)
  BY <1>1, FS_Intersection
<1> QED BY <1>1, <1>2

LEMMA UnderIs ==
  ASSUME NEW ids \in SUBSET Children, NEW child, NEW s
  PROVE  /\ IsFiniteSet(ids) /\ Cardinality(ids) \in Nat
         /\ IsFiniteSet({c \in ids : child[c] = s}) /\ Under(ids, child, s) \in Nat
         /\ (Under(ids, child, s) = 0 <=> \A c \in ids : child[c] # s)
<1>1. IsFiniteSet(ids) /\ IsFiniteSet({c \in ids : child[c] = s})
  BY ChildrenFinite, FS_Subset
<1>2. Cardinality(ids) \in Nat /\ Cardinality({c \in ids : child[c] = s}) \in Nat
  BY <1>1, FS_CardinalityType
<1>3. Cardinality({c \in ids : child[c] = s}) = 0 <=> {c \in ids : child[c] = s} = {}
  BY <1>1, FS_EmptySet
<1> QED BY <1>1, <1>2, <1>3 DEF Under

(* Two disjoint parts.                                                     *)
LEMMA Apart ==
  ASSUME NEW S, NEW T, IsFiniteSet(S), IsFiniteSet(T), S \cap T = {}
  PROVE  IsFiniteSet(S \cup T) /\ Cardinality(S \cup T) = Cardinality(S) + Cardinality(T)
<1>1. Cardinality(S) \in Nat /\ Cardinality(T) \in Nat /\ Cardinality({}) = 0
  BY FS_CardinalityType, FS_EmptySet
<1>2. Cardinality(S \cup T) = Cardinality(S) + Cardinality(T) - Cardinality(S \cap T) /\ IsFiniteSet(S \cup T)
  BY FS_Union
<1>3. Cardinality(S \cap T) = 0
  BY <1>1
<1> QED BY <1>1, <1>2, <1>3

LEMMA UnderLess ==
  ASSUME NEW child, NEW ids \in SUBSET Children, NEW s
  PROVE  Under(ids, child, s) <= Under(Children, child, s)
<1>1. {c \in ids : child[c] = s} \subseteq {c \in Children : child[c] = s} /\ IsFiniteSet({c \in Children : child[c] = s})
  BY UnderIs
<1>2. Cardinality({c \in ids : child[c] = s}) <= Cardinality({c \in Children : child[c] = s})
  BY <1>1, FS_Subset
<1> QED BY <1>2 DEF Under

(* What a count is once the children in ids are all under v.               *)
Marks(new, child, ids, v) == \A c \in Children : new[c] = IF c \in ids THEN v ELSE child[c]
Counts(new, child, ids, v, s) ==
  Under(Children, new, s) = Under(Children, child, s) - Under(ids, child, s) + IF s = v THEN Cardinality(ids) ELSE 0

LEMMA Marked ==
  ASSUME NEW child, NEW ids \in SUBSET Children, NEW v, NEW s, NEW new, Marks(new, child, ids, v)
  PROVE  Counts(new, child, ids, v, s)
<1> DEFINE all == {c \in Children : child[c] = s}
           mine == {c \in ids : child[c] = s}
           now == {c \in Children : new[c] = s}
           add == IF s = v THEN ids ELSE {}
<1>1. /\ IsFiniteSet(all) /\ IsFiniteSet(mine) /\ IsFiniteSet(add) /\ IsFiniteSet(all \ mine)
      /\ Cardinality(all) \in Nat /\ Cardinality(mine) \in Nat
      /\ Cardinality(add) = IF s = v THEN Cardinality(ids) ELSE 0
  <2>1. IsFiniteSet(all) /\ IsFiniteSet(mine) /\ IsFiniteSet(ids)
    BY UnderIs
  <2> QED BY <2>1, FS_EmptySet, FS_CardinalityType, FS_Difference
<1>2. mine \subseteq all /\ all \cap mine = mine
  OBVIOUS
<1>3. Cardinality(all \ mine) = Cardinality(all) - Cardinality(mine) /\ Cardinality(mine) <= Cardinality(all)
  <2>1. Cardinality(all \ mine) = Cardinality(all) - Cardinality(all \cap mine)
    BY <1>1, FS_Difference
  <2>2. Cardinality(mine) <= Cardinality(all)
    BY <1>1, <1>2, FS_Subset
  <2> QED BY <2>1, <2>2, <1>2
<1>4. now = (all \ mine) \cup add /\ (all \ mine) \cap add = {}
  BY DEF Marks
<1>5. Cardinality(now) = Cardinality(all \ mine) + Cardinality(add)
  BY <1>1, <1>4, Apart
<1> QED BY <1>1, <1>3, <1>5 DEF Under, Counts

(* One child that changes from one status to another.                      *)
LEMMA MovedOne ==
  ASSUME NEW child \in GrMap, NEW c \in Children, NEW to, child[c] # to
  PROVE  LET new == [child EXCEPT ![c] = to] IN
         \A s : /\ Under(Children, new, s) = Under(Children, child, s) - (IF s = child[c] THEN 1 ELSE 0) + (IF s = to THEN 1 ELSE 0)
                /\ s = child[c] => Under(Children, child, s) >= 1
<1> SUFFICES ASSUME NEW s PROVE /\ Under(Children, [child EXCEPT ![c] = to], s) = Under(Children, child, s) - (IF s = child[c] THEN 1 ELSE 0) + (IF s = to THEN 1 ELSE 0)
                                /\ s = child[c] => Under(Children, child, s) >= 1
  OBVIOUS
<1>2. Cardinality({c}) = 1 /\ {c} \in SUBSET Children /\ Cardinality({}) = 0
  BY FS_Singleton, FS_EmptySet
<1>3. Under({c}, child, s) = IF s = child[c] THEN 1 ELSE 0
  <2>1. CASE s = child[c]
    <3>1. {d \in {c} : child[d] = s} = {c}
      BY <2>1
    <3> QED BY <3>1, <2>1, <1>2 DEF Under
  <2>2. CASE s # child[c]
    <3>1. {d \in {c} : child[d] = s} = {}
      BY <2>2
    <3> QED BY <3>1, <2>2, <1>2 DEF Under
  <2> QED BY <2>1, <2>2
<1>4. /\ Under(Children, [child EXCEPT ![c] = to], s)
           = Under(Children, child, s) - Under({c}, child, s) + (IF s = to THEN Cardinality({c}) ELSE 0)
      /\ Under({c}, child, s) <= Under(Children, child, s)
  <2>1. PICK new, ids : new = [child EXCEPT ![c] = to] /\ ids = {c}
    OBVIOUS
  <2>2. ids \in SUBSET Children /\ Marks(new, child, ids, to)
    BY <2>1 DEF GrMap, Marks
  <2>3. Counts(new, child, ids, to, s) /\ Under(ids, child, s) <= Under(Children, child, s)
    BY <2>2, Marked, UnderLess
  <2> QED BY <2>1, <2>3 DEF Counts
<1>5. Under(Children, child, s) \in Nat
  BY UnderIs
<1> QED BY <1>2, <1>3, <1>4, <1>5

(* The children in ids that have a row, by status.                         *)
Having(child, ids) == {c \in ids : child[c] \in RowStatus}

LEMMA ByStatus ==
  ASSUME NEW child, NEW ids \in SUBSET Children
  PROVE  Cardinality(Having(child, ids))
           = Under(ids, child, "queued") + Under(ids, child, "running") + Under(ids, child, "finished")
             + Under(ids, child, "error") + Under(ids, child, "canceled")
<1> DEFINE A(s) == {c \in ids : child[c] = s}
           A2 == A("queued") \cup A("running")
           A3 == A2 \cup A("finished")
           A4 == A3 \cup A("error")
           A5 == A4 \cup A("canceled")
<1>1. \A s : IsFiniteSet(A(s)) /\ Under(ids, child, s) \in Nat /\ Under(ids, child, s) = Cardinality(A(s))
  <2>1. \A s : Under(ids, child, s) = Cardinality(A(s))
    BY DEF Under
  <2> QED BY <2>1, UnderIs
<1>2. A("queued") \cap A("running") = {} /\ A2 \cap A("finished") = {} /\ A3 \cap A("error") = {} /\ A4 \cap A("canceled") = {}
  OBVIOUS
<1>3. Having(child, ids) = A5
  BY DEF RowStatus, Having
<1> HIDE DEF A
<1>4. IsFiniteSet(A2) /\ Cardinality(A2) = Cardinality(A("queued")) + Cardinality(A("running"))
  BY <1>1, <1>2, Apart
<1> HIDE DEF A2
<1>5. IsFiniteSet(A3) /\ Cardinality(A3) = Cardinality(A2) + Cardinality(A("finished"))
  BY <1>1, <1>2, <1>4, Apart
<1> HIDE DEF A3
<1>6. IsFiniteSet(A4) /\ Cardinality(A4) = Cardinality(A3) + Cardinality(A("error"))
  BY <1>1, <1>2, <1>5, Apart
<1> HIDE DEF A4
<1>7. IsFiniteSet(A5) /\ Cardinality(A5) = Cardinality(A4) + Cardinality(A("canceled"))
  BY <1>1, <1>2, <1>6, Apart
<1>8. \A s \in RowStatus : Cardinality(A(s)) = Under(ids, child, s)
  BY <1>1
<1>9. Cardinality(A5) = Under(ids, child, "queued") + Under(ids, child, "running") + Under(ids, child, "finished")
             + Under(ids, child, "error") + Under(ids, child, "canceled")
  BY <1>4, <1>5, <1>6, <1>7, <1>8 DEF RowStatus
<1> QED BY <1>3, <1>9

(* Two parts of a set of children.                                         *)
LEMMA UnderParts ==
  ASSUME NEW child, NEW here \in SUBSET Children, NEW there \in SUBSET Children, here \cap there = {},
         NEW ids, ids = here \cup there, NEW s
  PROVE  Under(ids, child, s) = Under(here, child, s) + Under(there, child, s)
<1> DEFINE A(q) == {c \in q : child[c] = s}
<1>1. A(ids) = A(here) \cup A(there) /\ A(here) \cap A(there) = {}
  OBVIOUS
<1>2. IsFiniteSet(A(here)) /\ IsFiniteSet(A(there))
  BY UnderIs
<1> QED BY <1>1, <1>2, Apart DEF Under

-----------------------------------------------------------------------------
(* The done window.                                                        *)
LEMMA NoAccTyped == NoAcc \in GrAcc /\ ~NoAcc.live
BY DEF NoAcc, GrAcc

(* Nothing but the window, what is cached, and the accumulator with the    *)
(* group's row differs.                                                    *)
Like(x, y) ==
  /\ y.group = x.group /\ y.child = x.child /\ y.ghosts = x.ghosts
  /\ (y.acc = x.acc /\ y.here = x.here) \/ (~y.acc.live /\ ~y.here)
Trimmed(x, y) ==
  /\ y \in GrState /\ Like(x, y) /\ y.cached \subseteq x.cached /\ x.cached \subseteq y.cached \cup Listed(x)
  /\ Listed(y) \subseteq Listed(x) /\ (Single(x.done, Group) => Single(y.done, Group))

LEMMA SeqHas == ASSUME NEW S, NEW T, NEW s \in Seq(S), \A i \in 1..Len(s) : s[i] \in T PROVE s \in Seq(T)
<1>1. Len(s) \in Nat /\ s = [i \in 1..Len(s) |-> s[i]]
  OBVIOUS
<1>2. [i \in 1..Len(s) |-> s[i]] \in Seq(T)
  BY <1>1
<1> QED BY <1>1, <1>2

LEMMA SeqWiden == ASSUME NEW S, NEW T, S \subseteq T, NEW s \in Seq(S) PROVE s \in Seq(T)
<1>1. \A i \in 1..Len(s) : s[i] \in T
  BY ElementOfSeq
<1> QED BY <1>1, SeqHas

LEMMA ListedIs ==
  ASSUME NEW x \in GrState
  PROVE  /\ x.done \in Seq(Listed(x)) /\ Listed(x) \subseteq 0..Other /\ Len(x.done) \in Nat
         /\ Listed(x) = {x.done[i] : i \in 1..Len(x.done)}
<1>1. x.done \in Seq(0..Other) /\ DOMAIN x.done = 1..Len(x.done) /\ Len(x.done) \in Nat
  BY DEF GrState
<1>2. Listed(x) = {x.done[i] : i \in 1..Len(x.done)}
  BY <1>1 DEF Listed
<1>3. x.done \in Seq(Listed(x))
  <2>1. \A i \in 1..Len(x.done) : x.done[i] \in Listed(x)
    BY <1>2
  <2>2. PICK s : s = x.done
    OBVIOUS
  <2>3. PICK T : T = Listed(x)
    OBVIOUS
  <2>4. s \in Seq(0..Other) /\ \A i \in 1..Len(s) : s[i] \in T
    BY <1>1, <2>1, <2>2, <2>3
  <2>5. s \in Seq(T)
    BY <2>4, SeqHas
  <2> QED BY <2>2, <2>3, <2>5
<1>4. Listed(x) \subseteq 0..Other
  BY <1>1, <1>2, ElementOfSeq
<1> QED BY <1>1, <1>2, <1>3, <1>4

LEMMA EvictedTrims ==
  ASSUME NEW x \in GrState
  PROVE  Trimmed(x, Evicted(x))
<1> DEFINE excess == IF Len(x.done) > GrWindow THEN Len(x.done) - GrWindow ELSE 0
           stays == x.acc.live /\ \E i \in 1..excess :
                      x.done[i] = Group /\ x.cached \ {x.done[j] : j \in 1..(i - 1)} # {}
           order == IF stays THEN Sans(x.done, {Group}) ELSE x.done
           cut == IF excess < Len(order) THEN excess ELSE Len(order)
           out == {order[i] : i \in 1..cut}
           first == IF stays THEN <<Group>> ELSE <<>>
           rest == SubSeq(order, excess + 1, Len(order))
           y == Evicted(x)
<1>1. /\ x.done \in Seq(Listed(x)) /\ Listed(x) \subseteq 0..Other /\ Len(x.done) \in Nat
      /\ Listed(x) = {x.done[i] : i \in 1..Len(x.done)} /\ excess \in 0..Len(x.done)
  <2>1. Len(x.done) \in Nat /\ GrWindow \in Nat
    BY ListedIs, GrAssumption
  <2>2. excess \in 0..Len(x.done)
    BY <2>1
  <2> QED BY <2>1, <2>2, ListedIs
<1>2. stays => Group \in Listed(x)
  <2>1. SUFFICES ASSUME NEW i \in 1..excess, x.done[i] = Group PROVE Group \in Listed(x)
    OBVIOUS
  <2>2. i \in 1..Len(x.done)
    BY <1>1
  <2> QED BY <1>1, <2>1, <2>2
<1>3. order \in Seq(Listed(x))
  <2>1. Sans(x.done, {Group}) \in Seq(Listed(x) \ {Group})
    BY <1>1, SansSeq
  <2>2. Sans(x.done, {Group}) \in Seq(Listed(x))
    BY <2>1
  <2> QED BY <1>1, <2>2
<1>4. y = [x EXCEPT !.done = first \o rest, !.cached = x.cached \ out,
                    !.here = x.here /\ Group \notin out, !.acc = IF Group \in out THEN NoAcc ELSE x.acc]
  BY DEF Evicted
<1>16. stays => Lacks(order, Group)
  <2> SUFFICES ASSUME stays PROVE Lacks(order, Group)
    OBVIOUS
  <2>1. PICK q : q = order
    OBVIOUS
  <2>2. q \in Seq(Listed(x) \ {Group})
    BY <1>1, <2>1, SansSeq
  <2>3. \A i \in 1..Len(q) : q[i] # Group
    BY <2>2, ElementOfSeq
  <2> QED BY <2>1, <2>3 DEF Lacks
<1>17. ~stays => order = x.done
  OBVIOUS
<1> HIDE DEF order, excess, stays
<1>18. Single(x.done, Group) => Single(first \o rest, Group)
  <2> SUFFICES ASSUME Single(x.done, Group) PROVE Single(first \o rest, Group)
    OBVIOUS
  <2>1. PICK q, S, n : q = order /\ S = Listed(x) /\ n = excess
    OBVIOUS
  <2>2. q \in Seq(S) /\ n \in Nat
    BY <1>1, <1>3, <2>1
  <2>3. SubSeq(q, n + 1, Len(q)) \in Seq(S)
    BY <2>2
  <2>4. CASE stays
    <3>1. Lacks(SubSeq(q, n + 1, Len(q)), Group)
      BY <1>16, <2>1, <2>2, <2>4, TailSingle
    <3>2. Single(<<Group>> \o SubSeq(q, n + 1, Len(q)), Group)
      BY <1>2, <2>1, <2>3, <2>4, <3>1, AheadSingle
    <3> QED BY <2>1, <2>4, <3>2
  <2>5. CASE ~stays
    <3>1. Single(SubSeq(q, n + 1, Len(q)), Group)
      BY <1>17, <2>1, <2>2, <2>5, TailSingle
    <3>2. first \o rest = SubSeq(q, n + 1, Len(q))
      <4>1. \A t \in Seq(S) : <<>> \o t = t
        OBVIOUS
      <4> QED BY <2>1, <2>3, <2>5, <4>1
    <3> QED BY <3>1, <3>2
  <2> QED BY <2>4, <2>5
<1>5. Len(order) \in Nat /\ cut \in 0..Len(order)
  BY <1>1, <1>3
<1>6. out \subseteq Listed(x)
  BY <1>3, <1>5
<1>7. first \in Seq(Listed(x)) /\ rest \in Seq(Listed(x))
  <2>1. first \in Seq(Listed(x))
    BY <1>2
  <2>2. rest \in Seq(Listed(x))
    <3>1. \A S : \A q \in Seq(S) : \A n \in Nat : SubSeq(q, n + 1, Len(q)) \in Seq(S)
      OBVIOUS
    <3>2. excess \in Nat
      BY <1>1
    <3> QED BY <1>3, <3>1, <3>2
  <2> QED BY <2>1, <2>2
<1>8. first \o rest \in Seq(Listed(x))
  BY <1>7
<1> HIDE DEF out, first, rest, y
<1>9. PICK all : all = first \o rest
  OBVIOUS
<1>10. /\ y.done = all /\ y.cached = x.cached \ out /\ y.group = x.group /\ y.child = x.child /\ y.ghosts = x.ghosts
       /\ y.here = (x.here /\ Group \notin out) /\ y.acc = IF Group \in out THEN NoAcc ELSE x.acc
       /\ all \in Seq(Listed(x)) /\ all \in Seq(0..Other)
  <2>1. all \in Seq(Listed(x)) /\ all \in Seq(0..Other)
    BY <1>1, <1>8, <1>9, SeqWiden
  <2> QED BY <1>4, <1>9, <2>1 DEF GrState
<1>11. y \in GrState
  <2>1. y.acc \in GrAcc /\ y.here \in BOOLEAN /\ y.cached \in SUBSET Children
    BY <1>10, NoAccTyped DEF GrState
  <2>2. y = [x EXCEPT !.done = all, !.cached = y.cached, !.here = y.here, !.acc = y.acc]
    BY <1>4, <1>9, <1>10
  <2> QED BY <2>1, <2>2, <1>10 DEF GrState
<1>12. Listed(y) \subseteq Listed(x)
  <2>1. Listed(y) = {all[i] : i \in 1..Len(all)}
    BY <1>10, <1>11, ListedIs
  <2>2. \A i \in 1..Len(all) : all[i] \in Listed(x)
    BY <1>10, ElementOfSeq
  <2>3. PICK T : T = {all[i] : i \in 1..Len(all)}
    OBVIOUS
  <2>4. T \subseteq Listed(x)
    BY <2>2, <2>3
  <2> QED BY <2>1, <2>3, <2>4
<1>13. Like(x, y)
  <2>1. x.here \in BOOLEAN
    BY DEF GrState
  <2> QED BY <2>1, <1>10, NoAccTyped DEF Like
<1>14. y.cached \subseteq x.cached /\ x.cached \subseteq y.cached \cup Listed(x)
  BY <1>10, <1>6
<1>19. Single(x.done, Group) => Single(y.done, Group)
  BY <1>9, <1>10, <1>18
<1>15. Trimmed(x, y)
  BY <1>11, <1>12, <1>13, <1>14, <1>19 DEF Trimmed
<1> QED BY <1>15 DEF y

LEMMA TrimmedHeld ==
  ASSUME NEW x \in GrState, NEW y, Trimmed(x, y), InMemory(x)
  PROVE  InMemory(y)
<1>1. /\ y \in GrState /\ y.child = x.child /\ y.cached \subseteq x.cached /\ x.cached \subseteq y.cached \cup Listed(x)
      /\ Listed(y) \subseteq Listed(x) /\ (y.acc.live => y.here)
  BY DEF Trimmed, Like, InMemory
<1>2. /\ Listed(x) = {x.done[i] : i \in 1..Len(x.done)} /\ Listed(y) = {y.done[i] : i \in 1..Len(y.done)}
  BY <1>1, ListedIs
<1>3. \A c \in Listed(x) : c \in Children => x.child[c] \in Over
  BY <1>2 DEF InMemory, DoneOver
<1>6. Single(y.done, Group)
  BY DEF Trimmed, InMemory, DoneOver
<1>4. DoneOver(y)
  BY <1>1, <1>2, <1>3, <1>6 DEF DoneOver
<1>5. Live(y) = Live(x) /\ Stored(y) = Stored(x) /\ Live(x) \subseteq Children /\ Live(x) \cap Listed(x) = {}
  BY <1>1, <1>3 DEF Live, Stored
<1> QED BY <1>1, <1>4, <1>5 DEF InMemory

LEMMA LikeCounted ==
  ASSUME NEW x, NEW y, Like(x, y), Counted(x)
  PROVE  Counted(y)
BY DEF Like, Counted

LEMMA MarkDoneIs ==
  ASSUME NEW x, InMemory(x), NEW id \in 0..Other, id \in Children => x.child[id] \in Over
  PROVE  InMemory(MarkDone(x, id)) /\ Like(x, MarkDone(x, id))
<1>1. x \in GrState
  BY DEF InMemory
<1>2. CASE id # Other /\ id \in Listed(x)
  BY <1>2 DEF MarkDone, Like
<1>3. CASE ~(id # Other /\ id \in Listed(x))
  <2> DEFINE longer == Append(x.done, id)
             z == [x EXCEPT !.done = longer]
  <2>1. MarkDone(x, id) = Evicted(z)
    BY <1>3 DEF MarkDone
  <2>2. longer \in Seq(0..Other) /\ Len(longer) = Len(x.done) + 1 /\ Len(x.done) \in Nat
        /\ \A i \in 1..Len(longer) : longer[i] = IF i = Len(x.done) + 1 THEN id ELSE x.done[i]
    BY <1>1 DEF GrState
  <2> HIDE DEF longer
  <2>3. /\ z \in GrState /\ z.done = longer /\ z.group = x.group /\ z.child = x.child /\ z.ghosts = x.ghosts
        /\ z.here = x.here /\ z.acc = x.acc /\ z.cached = x.cached
    BY <1>1, <2>2 DEF GrState
  <2> HIDE DEF z
  <2>9. Single(z.done, Group)
    <3>1. x.done \in Seq(0..Other) /\ Single(x.done, Group)
      BY <1>1 DEF GrState, InMemory, DoneOver
    <3>2. id = Group => Lacks(x.done, Group)
      <4>1. Group # Other
        BY GrAssumption DEF Group, Other
      <4>2. Listed(x) = {x.done[i] : i \in 1..Len(x.done)}
        BY <1>1, ListedIs
      <4> QED BY <1>3, <4>1, <4>2 DEF Lacks
    <3>3. Single(Append(x.done, id), Group)
      BY <3>1, <3>2, AppendSingle
    <3> QED BY <2>3, <3>3 DEF longer
  <2>4. DoneOver(z)
    BY <2>2, <2>3, <2>9 DEF InMemory, DoneOver
  <2>5. InMemory(z)
    BY <2>3, <2>4 DEF InMemory, Live, Stored
  <2>6. Trimmed(z, Evicted(z))
    BY <2>3, EvictedTrims
  <2>7. InMemory(Evicted(z))
    BY <2>3, <2>5, <2>6, TrimmedHeld
  <2>8. Like(x, Evicted(z))
    BY <2>3, <2>6 DEF Trimmed, Like
  <2> QED BY <2>1, <2>7, <2>8
<1> QED BY <1>2, <1>3

LEMMA WithoutDoneIs ==
  ASSUME NEW x \in GrState, NEW ids
  PROVE  LET z == WithoutDone(x, ids) IN
         /\ z \in GrState /\ Listed(z) \subseteq Listed(x) \ ids
         /\ z.group = x.group /\ z.child = x.child /\ z.ghosts = x.ghosts
         /\ z.here = x.here /\ z.acc = x.acc /\ z.cached = x.cached
         /\ Single(x.done, Group) => Single(z.done, Group)
<1> DEFINE z == WithoutDone(x, ids)
<1>1. PICK all : all = Sans(x.done, ids)
  OBVIOUS
<1>2. x.done \in Seq(Listed(x)) /\ Listed(x) \subseteq 0..Other
  BY ListedIs
<1>3. all \in Seq(Listed(x) \ ids)
  BY <1>1, <1>2, SansSeq
<1>4. all \in Seq(0..Other)
  BY <1>2, <1>3, SeqWiden
<1>5. z = [x EXCEPT !.done = all]
  BY <1>1 DEF WithoutDone
<1> HIDE DEF z
<1>6. /\ z \in GrState /\ z.done = all /\ z.group = x.group /\ z.child = x.child /\ z.ghosts = x.ghosts
      /\ z.here = x.here /\ z.acc = x.acc /\ z.cached = x.cached
  BY <1>4, <1>5 DEF GrState
<1>7. Listed(z) \subseteq Listed(x) \ ids
  <2>1. Listed(z) = {all[i] : i \in 1..Len(all)}
    BY <1>6, ListedIs
  <2>2. \A i \in 1..Len(all) : all[i] \in Listed(x) \ ids
    BY <1>3, ElementOfSeq
  <2>3. PICK T : T = {all[i] : i \in 1..Len(all)}
    OBVIOUS
  <2>4. T \subseteq Listed(x) \ ids
    BY <2>2, <2>3
  <2> QED BY <2>1, <2>3, <2>4
<1>8. WithoutDone(x, ids) = z
  BY DEF z
<1>9. Single(x.done, Group) => Single(z.done, Group)
  BY <1>1, <1>2, <1>6, SansSingle
<1> QED BY <1>6, <1>7, <1>8, <1>9

LEMMA DoneOverIs ==
  ASSUME NEW x \in GrState
  PROVE  DoneOver(x) <=> Single(x.done, Group) /\ \A c \in Listed(x) \cap Children : x.child[c] \in Over
<1>1. Listed(x) = {x.done[i] : i \in 1..Len(x.done)}
  BY ListedIs
<1> QED BY <1>1 DEF DoneOver

(* A child that has just ended is the newest row of a window with room for *)
(* it beside the group, and stays.                                         *)
LEMMA NewestStays ==
  ASSUME Roomy, NEW x, InMemory(x), NEW c \in x.cached, c \notin Listed(x)
  PROVE  c \in MarkDone(x, c).cached
<1> DEFINE done == Append(x.done, c)
           excess == IF Len(done) > GrWindow THEN Len(done) - GrWindow ELSE 0
           kept == Sans(x.done, {Group})
<1>1. /\ x \in GrState /\ x.cached \subseteq Children /\ c \in Children /\ c # Group /\ c \in 0..Other
      /\ x.done \in Seq(0..Other) /\ Single(x.done, Group)
  BY GrAssumption DEF InMemory, DoneOver, GrState, Children, Group, Other
<1>2. /\ Len(x.done) \in Nat /\ Len(done) = Len(x.done) + 1 /\ done[Len(x.done) + 1] = c /\ done \in Seq(0..Other)
      /\ \A i \in 1..Len(x.done) : done[i] = x.done[i] /\ x.done[i] # c
  <2>1. \A i \in 1..Len(x.done) : x.done[i] # c
    <3>1. Listed(x) = {x.done[i] : i \in 1..Len(x.done)}
      BY <1>1, ListedIs
    <3> QED BY <3>1
  <2> QED BY <1>1, <2>1
<1>3. kept \in Seq(0..Other) /\ Len(kept) \in Nat /\ Len(kept) >= Len(x.done) - 1 /\ \A i \in 1..Len(kept) : kept[i] # c
  <2>1. x.done \in Seq(Listed(x))
    BY <1>1, ListedIs
  <2>2. PICK q : q = kept
    OBVIOUS
  <2>3. q \in Seq(Listed(x) \ {Group})
    BY <2>1, <2>2, SansSeq
  <2>4. \A i \in 1..Len(q) : q[i] # c
    BY <2>3, ElementOfSeq
  <2>5. Listed(x) \subseteq 0..Other
    BY <1>1, ListedIs
  <2>6. q \in Seq(0..Other)
    <3>1. Listed(x) \ {Group} \subseteq 0..Other
      BY <2>5
    <3> QED BY <2>3, <3>1, SeqWiden
  <2>7. Len(kept) \in Nat /\ Len(kept) >= Len(x.done) - 1
    BY <1>1, SansOne
  <2> QED BY <2>2, <2>4, <2>6, <2>7
<1>4. Sans(done, {Group}) = Append(kept, c)
  <2>1. PICK Out : Out = {Group}
    OBVIOUS
  <2>2. PICK S, s : S = 0..Other /\ s = x.done
    OBVIOUS
  <2>3. s \in Seq(S) /\ c \in S /\ c \notin Out
    BY <1>1, <2>1, <2>2
  <2>4. Sans(Append(s, c), Out) = Append(Sans(s, Out), c)
    BY <2>3, SansMore
  <2> QED BY <2>1, <2>2, <2>4
<1>5. excess \in Nat /\ (excess = 0 \/ excess < Len(done) - 1)
  BY <1>2, GrAssumption DEF Roomy
<1> HIDE DEF kept
<1>6. \A order \in {done, Append(kept, c)} : \A i \in 1..(IF excess < Len(order) THEN excess ELSE Len(order)) : order[i] # c
  <2>1. \A i \in 1..excess : i \in 1..Len(x.done)
    BY <1>2, <1>5
  <2>2. \A i \in 1..excess : i \in 1..Len(kept)
    BY <1>2, <1>3, <1>5
  <2>3. \A i \in 1..Len(kept) : Append(kept, c)[i] = kept[i]
    BY <1>1, <1>3
  <2>4. excess < Len(done) /\ excess < Len(Append(kept, c)) 
    BY <1>1, <1>2, <1>3, <1>5
  <2> HIDE DEF done, excess
  <2> QED BY <1>2, <1>3, <2>1, <2>2, <2>3, <2>4
<1>7. PICK z : z = [x EXCEPT !.done = Append(@, c)]
  OBVIOUS
<1>8. z.done = done /\ z.cached = x.cached /\ z \in GrState
  BY <1>1, <1>2, <1>7 DEF GrState
<1>9. MarkDone(x, c) = Evicted(z)
  BY <1>7 DEF MarkDone
<1>10. \E order \in {done, Append(kept, c)} :
         Evicted(z).cached = x.cached \ {order[i] : i \in 1..(IF excess < Len(order) THEN excess ELSE Len(order))}
  <2> DEFINE stays == z.acc.live /\ \E i \in 1..excess : z.done[i] = Group /\ z.cached \ {z.done[j] : j \in 1..(i - 1)} # {}
             order == IF stays THEN Sans(z.done, {Group}) ELSE z.done
             out == {order[i] : i \in 1..(IF excess < Len(order) THEN excess ELSE Len(order))}
  <2>1. Evicted(z) = [z EXCEPT !.done = (IF stays THEN <<Group>> ELSE <<>>) \o SubSeq(order, excess + 1, Len(order)),
                               !.cached = @ \ out, !.here = @ /\ Group \notin out, !.acc = IF Group \in out THEN NoAcc ELSE @]
    BY <1>8 DEF Evicted
  <2>2. order \in {done, Append(kept, c)}
    BY <1>4, <1>8
  <2> HIDE DEF stays, order, excess, done
  <2>3. Evicted(z).cached = x.cached \ out
    BY <1>8, <2>1 DEF GrState
  <2> QED BY <2>2, <2>3
<1> HIDE DEF done, excess
<1> QED BY <1>6, <1>9, <1>10

-----------------------------------------------------------------------------
(* The roll-up.                                                            *)
LEMMA RollUpIs ==
  ASSUME NEW count \in [RowStatus -> Nat]
  PROVE  /\ RollUp(count) \in RowStatus
         /\ RollUp(count) = "running" <=> count["running"] > 0
         /\ RollUp(count) \in Over => count["running"] = 0 /\ count["queued"] = 0
         /\ count["running"] = 0 /\ count["queued"] > 0 => RollUp(count) = "queued"
<1>1. \A s \in RowStatus : count[s] \in Nat
  OBVIOUS
<1>2. CASE \A s \in RowStatus : count[s] = 0
  BY <1>2 DEF RollUp, RowStatus, Over
<1>3. CASE ~(\A s \in RowStatus : count[s] = 0)
  BY <1>1, <1>3 DEF RollUp, RowStatus, Over
<1> QED BY <1>2, <1>3

LEMMA RollUpSame ==
  ASSUME NEW a, NEW b, \A s \in RowStatus : a[s] = b[s]
  PROVE  RollUp(a) = RollUp(b)
<1>1. (\A s \in RowStatus : a[s] = 0) <=> (\A s \in RowStatus : b[s] = 0)
  OBVIOUS
<1>2. a["running"] = b["running"] /\ a["queued"] = b["queued"] /\ a["error"] = b["error"] /\ a["canceled"] = b["canceled"]
  BY DEF RowStatus
<1> QED BY <1>1, <1>2 DEF RollUp

LEMMA SyncedIs ==
  ASSUME NEW x, InMemory(x), Counted(x), NEW ok \in BOOLEAN
  PROVE  LET y == Synced(x, ok) IN
         InMemory(y) /\ Counted(y) /\ y.child = x.child /\ (ok => Rolled(y)) /\ (~ok => y = x)
<1> DEFINE to == RollUp(x.acc.count)
           z == [x EXCEPT !.group = to]
<1>1. x \in GrState /\ x.acc.count \in [RowStatus -> Nat]
  BY DEF InMemory, GrState, GrAcc
<1>2. CASE ~Rolls(x) \/ ~ok
  BY <1>2 DEF Synced, Rolls, Rolled
<1>3. CASE Rolls(x) /\ ok
  <2>1. to \in RowStatus
    BY <1>1, RollUpIs
  <2>2. Synced(x, ok) = IF to \in Over THEN MarkDone(z, Group) ELSE z
    BY <1>3 DEF Synced
  <2> HIDE DEF to
  <2>3. /\ z \in GrState /\ z.group = to /\ z.child = x.child /\ z.ghosts = x.ghosts /\ z.done = x.done
        /\ z.here = x.here /\ z.acc = x.acc /\ z.cached = x.cached
    BY <1>1, <2>1 DEF GrState
  <2> HIDE DEF z
  <2>4. InMemory(z)
    BY <2>3 DEF InMemory, Live, Stored, DoneOver
  <2>5. Counted(z)
    BY <2>3 DEF Counted
  <2>6. Rolled(z)
    BY <2>3 DEF Rolled, to
  <2>7. CASE to \in Over
    <3>1. Group \in 0..Other /\ Group \notin Children
      BY GrAssumption DEF Group, Other, Children
    <3>2. InMemory(MarkDone(z, Group)) /\ Like(z, MarkDone(z, Group))
      BY <2>4, <3>1, MarkDoneIs
    <3>3. Counted(MarkDone(z, Group))
      BY <2>5, <3>2, LikeCounted
    <3>4. PICK y : y = MarkDone(z, Group)
      OBVIOUS
    <3>5. y.child = x.child /\ Rolled(y)
      BY <2>3, <2>6, <3>2, <3>4 DEF Like, Rolled
    <3> QED BY <1>3, <2>2, <2>7, <3>2, <3>3, <3>4, <3>5
  <2>8. CASE to \notin Over
    BY <1>3, <2>2, <2>3, <2>4, <2>5, <2>6, <2>8
  <2> QED BY <2>7, <2>8
<1> QED BY <1>2, <1>3

LEMMA RollsUpKeeps ==
  ASSUME NEW x, InMemory(x), Counted(x), NEW synced \in BOOLEAN, RollsUp(x, synced), grLoose \in BOOLEAN
  PROVE  /\ InMemory(gr') /\ Counted(gr') /\ (~grLoose' => Rolled(gr')) /\ grLoose' \in BOOLEAN
         /\ gr'.child = x.child
<1>1. gr' = Synced(x, synced) /\ grLoose' = IF x.acc.live /\ x.here THEN ~synced ELSE grLoose
  BY DEF RollsUp
<1>2. InMemory(gr') /\ Counted(gr') /\ gr'.child = x.child /\ (synced => Rolled(gr')) /\ (~synced => gr' = x)
  BY <1>1, SyncedIs
<1>3. ~grLoose' => Rolled(gr')
  BY <1>1, <1>2 DEF Rolled
<1> QED BY <1>1, <1>2, <1>3

-----------------------------------------------------------------------------
(* One child.                                                              *)

(* The accumulator of z counts the children as old has them.               *)
CountsOld(z, old) ==
  Roomy /\ z.acc.live =>
    /\ \A s \in RowStatus : z.acc.count[s] = Under(Children, old, s) + z.ghosts[s]
    /\ z.acc.resolved = Total(z.acc.count)

LEMMA AccIs ==
  ASSUME NEW x \in GrState
  PROVE  /\ x.acc \in GrAcc /\ x.acc.count \in [RowStatus -> Nat] /\ x.acc.resolved \in Nat /\ x.acc.live \in BOOLEAN
         /\ \A s \in RowStatus : x.acc.count[s] \in Nat /\ x.ghosts[s] \in Nat
         /\ x.child \in GrMap /\ x.here \in BOOLEAN /\ x.cached \subseteq Children /\ x.ghosts \in [RowStatus -> Nat]
BY DEF GrState, GrAcc, GrMap

LEMMA NewAccIs ==
  ASSUME NEW x \in GrState, NEW acc \in GrAcc
  PROVE  LET z == [x EXCEPT !.acc = acc] IN
         /\ z \in GrState /\ z.group = x.group /\ z.child = x.child /\ z.ghosts = x.ghosts
         /\ z.here = x.here /\ z.acc = acc /\ z.cached = x.cached /\ z.done = x.done
BY DEF GrState

LEMMA NewAccHeld ==
  ASSUME NEW x, InMemory(x), NEW acc \in GrAcc, acc.live => x.acc.live
  PROVE  InMemory([x EXCEPT !.acc = acc])
<1>1. PICK z : z = [x EXCEPT !.acc = acc]
  OBVIOUS
<1>2. /\ z \in GrState /\ z.child = x.child /\ z.here = x.here /\ z.acc = acc /\ z.cached = x.cached /\ z.done = x.done
  BY <1>1, NewAccIs DEF InMemory
<1>3. InMemory(z)
  BY <1>2 DEF InMemory, Live, Stored, DoneOver
<1> QED BY <1>1, <1>3

LEMMA MovedIs ==
  ASSUME NEW z, InMemory(z), NEW c \in Children, NEW old \in GrMap, NEW to \in RowStatus, old[c] \in RowStatus, old[c] # to,
         z.child = [old EXCEPT ![c] = to], CountsOld(z, old)
  PROVE  LET w == Moved(z, old[c], to) IN InMemory(w) /\ Counted(w) /\ w.child = z.child /\ w.cached = z.cached
<1> DEFINE from == old[c]
           count == [[z.acc.count EXCEPT ![from] = Less(@, 1)] EXCEPT ![to] = @ + 1]
           acc == [z.acc EXCEPT !.count = count]
<1>1. z \in GrState
  BY DEF InMemory
<1>2. CASE ~z.acc.live
  BY <1>2 DEF Moved, Counted
<1>3. CASE z.acc.live
  <2>1. Moved(z, from, to) = [z EXCEPT !.acc = acc]
    <3>1. Moved(z, from, to) = [z EXCEPT !.acc.count[from] = Less(@, 1), !.acc.count[to] = @ + 1]
      BY <1>3 DEF Moved
    <3>2. z.acc \in GrAcc /\ z.acc.count \in [RowStatus -> Nat]
      BY <1>1, AccIs
    <3> QED BY <3>1, <3>2, <1>1 DEF GrState, GrAcc
  <2>2. z.acc.count \in [RowStatus -> Nat] /\ z.acc \in GrAcc /\ \A s \in RowStatus : z.acc.count[s] \in Nat /\ z.ghosts[s] \in Nat
    BY <1>1, AccIs
  <2>3. from # to /\ from \in RowStatus /\ count \in [RowStatus -> Nat]
    <3>1. Less(z.acc.count[from], 1) \in Nat
      BY <2>2 DEF Less
    <3> QED BY <2>2, <3>1
  <2>4. count[from] = Less(z.acc.count[from], 1) /\ count[to] = z.acc.count[to] + 1
        /\ \A s \in RowStatus \ {from, to} : count[s] = z.acc.count[s]
    BY <2>2, <2>3
  <2> HIDE DEF count
  <2>7. acc \in GrAcc /\ acc.live = z.acc.live /\ acc.count = count /\ acc.resolved = z.acc.resolved
    BY <2>2, <2>3 DEF GrAcc
  <2> HIDE DEF acc
  <2>8. PICK w : w = [z EXCEPT !.acc = acc]
    OBVIOUS
  <2>9. w.child = z.child /\ w.ghosts = z.ghosts /\ w.acc = acc /\ w.cached = z.cached
    BY <1>1, <2>7, <2>8, NewAccIs
  <2>10. InMemory(w)
    BY <2>7, <2>8, NewAccHeld
  <2>5. CASE Roomy
    <3>1. \A s \in RowStatus : /\ Under(Children, z.child, s) = Under(Children, old, s) - (IF s = from THEN 1 ELSE 0) + (IF s = to THEN 1 ELSE 0)
                               /\ s = from => Under(Children, old, s) >= 1
                               /\ Under(Children, old, s) \in Nat
      <4>1. \A s : /\ Under(Children, [old EXCEPT ![c] = to], s) = Under(Children, old, s) - (IF s = from THEN 1 ELSE 0) + (IF s = to THEN 1 ELSE 0)
                   /\ s = from => Under(Children, old, s) >= 1
        BY MovedOne
      <4>2. \A s : Under(Children, old, s) \in Nat
        BY UnderIs
      <4> QED BY <4>1, <4>2
    <3>2. z.acc.count[from] >= 1
      BY <1>3, <2>2, <2>3, <2>5, <3>1 DEF CountsOld
    <3>3. count[from] = z.acc.count[from] - 1
      BY <2>2, <2>3, <2>4, <3>2 DEF Less
    <3>4. Total(count) = Total(z.acc.count)
      BY <2>2, <2>3, <2>4, <3>2, <3>3 DEF Total, RowStatus
    <3>5. \A s \in RowStatus : w.acc.count[s] = Under(Children, w.child, s) + w.ghosts[s]
      <4> SUFFICES ASSUME NEW s \in RowStatus PROVE count[s] = Under(Children, z.child, s) + z.ghosts[s]
        BY <2>7, <2>9
      <4>1. z.acc.count[s] = Under(Children, old, s) + z.ghosts[s] /\ z.ghosts[s] \in Nat /\ Under(Children, old, s) \in Nat
        BY <1>3, <2>2, <2>5, <3>1 DEF CountsOld
      <4>2. Under(Children, z.child, s) = Under(Children, old, s) - (IF s = from THEN 1 ELSE 0) + (IF s = to THEN 1 ELSE 0)
        BY <3>1
      <4>3. count[s] = z.acc.count[s] - (IF s = from THEN 1 ELSE 0) + (IF s = to THEN 1 ELSE 0)
        BY <2>2, <2>3, <2>4, <3>3
      <4> QED BY <4>1, <4>2, <4>3
    <3>6. w.acc.resolved = Total(w.acc.count)
      BY <1>3, <2>5, <2>7, <2>9, <3>4 DEF CountsOld
    <3>7. Counted(w)
      BY <3>5, <3>6 DEF Counted
    <3> QED BY <2>1, <2>8, <2>9, <2>10, <3>7
  <2>6. CASE ~Roomy
    BY <2>1, <2>6, <2>8, <2>9, <2>10 DEF Counted
  <2> QED BY <2>5, <2>6
<1> QED BY <1>2, <1>3

LEMMA OneMarked == ASSUME NEW child \in GrMap, NEW c \in Children, NEW to \in RowStatus PROVE [child EXCEPT ![c] = to] \in GrMap
BY DEF GrMap

LEMMA WriteStatusIs ==
  ASSUME NEW x, InMemory(x), Counted(x), NEW c \in x.cached, x.child[c] \notin Over, NEW to \in RowStatus, x.child[c] # to
  PROVE  LET w == WriteStatus(x, c, to) IN
         /\ InMemory(w) /\ Counted(w) /\ w.child = [x.child EXCEPT ![c] = to] /\ c \in Stored(x)
         /\ Roomy => c \in w.cached
<1> DEFINE y == [x EXCEPT !.child[c] = to]
           z == IF to \in Over THEN MarkDone(y, c) ELSE y
<1>1. x \in GrState /\ x.child \in GrMap /\ x.cached \subseteq Children /\ c \in Children /\ c \in Stored(x)
  BY AccIs DEF InMemory
<1>2. x.child[c] \in RowStatus
  BY <1>1 DEF Stored
<1>3. /\ y \in GrState /\ y.child = [x.child EXCEPT ![c] = to] /\ y.cached = x.cached
      /\ y.ghosts = x.ghosts /\ y.done = x.done /\ y.acc = x.acc /\ y.here = x.here
  <2>1. PICK m : m = [x.child EXCEPT ![c] = to]
    OBVIOUS
  <2>2. m \in GrMap /\ x.cached \subseteq Children
    BY <1>1, <1>2, <2>1, OneMarked
  <2>3. y = [x EXCEPT !.child = m, !.cached = x.cached]
    BY <1>1, <2>1 DEF GrState
  <2> HIDE DEF y
  <2>4. PICK cached : cached = x.cached
    OBVIOUS
  <2>5. cached \in SUBSET Children /\ y = [x EXCEPT !.child = m, !.cached = cached]
    BY <2>2, <2>3, <2>4
  <2>6. /\ y \in GrState /\ y.child = m /\ y.cached = cached
        /\ y.ghosts = x.ghosts /\ y.done = x.done /\ y.acc = x.acc /\ y.here = x.here
    BY <1>1, <2>2, <2>5 DEF GrState, GrMap
  <2> QED BY <2>1, <2>4, <2>6
<1> HIDE DEF y
<1>4. y.child[c] = to /\ \A d \in Children \ {c} : y.child[d] = x.child[d]
  BY <1>1, <1>3 DEF GrMap
<1>5. InMemory(y)
  <2>1. Stored(y) = Stored(x) /\ Live(y) \subseteq Live(x) \cup {c}
    BY <1>1, <1>2, <1>4 DEF Stored, Live
  <2>2. DoneOver(y)
    BY <1>1, <1>3, <1>4 DEF InMemory, DoneOver
  <2> QED BY <1>3, <2>1, <2>2 DEF InMemory
<1>6. InMemory(z) /\ Like(y, z)
  <2>1. CASE to \in Over
    <3>1. c \in 0..Other
      BY <1>1, GrAssumption DEF Children, Other
    <3> QED BY <1>4, <1>5, <2>1, <3>1, MarkDoneIs
  <2>2. CASE to \notin Over
    BY <1>5, <2>2 DEF Like
  <2> QED BY <2>1, <2>2
<1>11. Roomy => c \in z.cached
  <2>1. c \notin Listed(x)
    BY <1>1, DoneOverIs DEF InMemory
  <2>2. Listed(y) = Listed(x) /\ c \in y.cached
    BY <1>3 DEF Listed
  <2> QED BY <1>5, <2>1, <2>2, NewestStays
<1> HIDE DEF z
<1>7. z.child = [x.child EXCEPT ![c] = to] /\ CountsOld(z, x.child)
  BY <1>3, <1>6 DEF Like, Counted, CountsOld
<1>8. WriteStatus(x, c, to) = IF c \in z.cached THEN Moved(z, x.child[c], to) ELSE z
  BY DEF WriteStatus, z, y
<1>9. CASE c \in z.cached
  BY <1>1, <1>2, <1>6, <1>7, <1>8, <1>9, MovedIs
<1>10. CASE c \notin z.cached
  <2>1. ~Roomy
    BY <1>10, <1>11
  <2>2. WriteStatus(x, c, to) = z
    BY <1>8, <1>10
  <2>3. Counted(z) /\ InMemory(z) /\ z.child = [x.child EXCEPT ![c] = to] /\ c \in Stored(x)
    BY <1>1, <1>6, <1>7, <2>1 DEF Counted
  <2> QED BY <2>1, <2>2, <2>3
<1> QED BY <1>9, <1>10

LEMMA RetriedIs ==
  ASSUME NEW x, InMemory(x), Counted(x), NEW c \in Children, x.child[c] \in {"error", "canceled"}
  PROVE  LET w == Retried(x, c) IN InMemory(w) /\ Counted(w) /\ w.child = [x.child EXCEPT ![c] = "queued"]
<1> DEFINE y == [x EXCEPT !.child[c] = "queued", !.cached = @ \cup {c}]
           z == WithoutDone(y, {c})
<1>1. x \in GrState /\ x.child \in GrMap /\ x.cached \subseteq Children
  BY AccIs DEF InMemory
<1>2. x.child[c] \in RowStatus /\ "queued" \in RowStatus /\ "queued" \notin Over /\ x.child[c] # "queued"
  BY DEF RowStatus, Over
<1>3. /\ y \in GrState /\ y.child = [x.child EXCEPT ![c] = "queued"] /\ y.cached = x.cached \cup {c}
      /\ y.ghosts = x.ghosts /\ y.done = x.done /\ y.acc = x.acc /\ y.here = x.here
  <2>1. PICK m : m = [x.child EXCEPT ![c] = "queued"]
    OBVIOUS
  <2>2. m \in GrMap /\ x.cached \cup {c} \subseteq Children
    BY <1>1, <1>2, <2>1, OneMarked
  <2>3. y = [x EXCEPT !.child = m, !.cached = x.cached \cup {c}]
    BY <1>1, <2>1 DEF GrState
  <2> HIDE DEF y
  <2>4. PICK cached : cached = x.cached \cup {c}
    OBVIOUS
  <2>5. cached \in SUBSET Children /\ y = [x EXCEPT !.child = m, !.cached = cached]
    BY <2>2, <2>3, <2>4
  <2>6. /\ y \in GrState /\ y.child = m /\ y.cached = cached
        /\ y.ghosts = x.ghosts /\ y.done = x.done /\ y.acc = x.acc /\ y.here = x.here
    BY <1>1, <2>2, <2>5 DEF GrState, GrMap
  <2> QED BY <2>1, <2>4, <2>6
<1> HIDE DEF y
<1>4. y.child[c] = "queued" /\ \A d \in Children \ {c} : y.child[d] = x.child[d]
  BY <1>1, <1>3 DEF GrMap
<1>5. /\ z \in GrState /\ Listed(z) \subseteq Listed(y) \ {c} /\ z.child = y.child /\ z.ghosts = y.ghosts
      /\ z.here = y.here /\ z.acc = y.acc /\ z.cached = y.cached
      /\ Single(y.done, Group) => Single(z.done, Group)
  BY <1>3, WithoutDoneIs
<1> HIDE DEF z
<1>6. InMemory(z)
  <2>1. Stored(z) = Stored(x) /\ Live(z) = Live(x) \cup {c} /\ c \in Stored(x)
    BY <1>1, <1>2, <1>4, <1>5 DEF Stored, Live
  <2>2. Listed(y) = Listed(x)
    BY <1>3 DEF Listed
  <2>3. Single(z.done, Group) /\ \A d \in Listed(x) \cap Children : x.child[d] \in Over
    <3>1. DoneOver(x)
      BY DEF InMemory
    <3> QED BY <1>1, <1>3, <1>5, <3>1, DoneOverIs
  <2>4. \A d \in Listed(z) \cap Children : z.child[d] \in Over
    BY <1>4, <1>5, <2>2, <2>3
  <2>5. DoneOver(z)
    BY <1>5, <2>3, <2>4, DoneOverIs
  <2> QED BY <1>3, <1>5, <2>1, <2>5 DEF InMemory
<1>7. z.child = [x.child EXCEPT ![c] = "queued"] /\ CountsOld(z, x.child)
  BY <1>3, <1>5 DEF Counted, CountsOld
<1>8. Retried(x, c) = Moved(z, x.child[c], "queued")
  BY DEF Retried, z, y
<1> QED BY <1>1, <1>2, <1>6, <1>7, <1>8, MovedIs

-----------------------------------------------------------------------------
(* Several children.                                                       *)
Mark(x, ids, v) == [c \in Children |-> IF c \in ids THEN v ELSE x.child[c]]

LEMMA MarkIs ==
  ASSUME NEW x \in GrState, NEW ids, NEW v \in RowStatus \cup {"none", "gone"}
  PROVE  Mark(x, ids, v) \in GrMap
<1>1. x.child \in GrMap
  BY AccIs
<1> QED BY <1>1 DEF Mark, GrMap

LEMMA AddedIs ==
  ASSUME NEW x, InMemory(x), Counted(x), NEW ids \in SUBSET Children, \A c \in ids : x.child[c] \notin RowStatus
  PROVE  LET w == Added([x EXCEPT !.child = Mark(x, ids, "queued"), !.cached = @ \cup ids], "queued", Cardinality(ids)) IN
         InMemory(w) /\ Counted(w) /\ w.child = Mark(x, ids, "queued")
<1> DEFINE m == Mark(x, ids, "queued")
           n == Cardinality(ids)
           z == [x EXCEPT !.child = m, !.cached = @ \cup ids]
           count == [z.acc.count EXCEPT !["queued"] = @ + n]
           acc == [z.acc EXCEPT !.count = count, !.resolved = @ + n]
           w == Added(z, "queued", n)
<1>1. x \in GrState /\ x.cached \subseteq Children /\ x.child \in GrMap
  BY AccIs DEF InMemory
<1>2. m \in GrMap /\ \A c \in Children : m[c] = IF c \in ids THEN "queued" ELSE x.child[c]
  BY <1>1, MarkIs DEF Mark, RowStatus
<1>3. n \in Nat /\ "queued" \in RowStatus /\ "queued" \notin Over
  BY UnderIs DEF RowStatus, Over
<1>4. \A s \in RowStatus : Under(Children, m, s) = Under(Children, x.child, s) + IF s = "queued" THEN n ELSE 0
  <2> SUFFICES ASSUME NEW s \in RowStatus PROVE Under(Children, m, s) = Under(Children, x.child, s) + IF s = "queued" THEN n ELSE 0
    OBVIOUS
  <2>1. Under(Children, m, s) = Under(Children, x.child, s) - Under(ids, x.child, s) + (IF s = "queued" THEN n ELSE 0)
    <3>1. PICK child, new : child = x.child /\ new = m
      OBVIOUS
    <3>2. Marks(new, child, ids, "queued")
      BY <1>2, <3>1 DEF Marks
    <3>3. Counts(new, child, ids, "queued", s)
      BY <3>2, Marked
    <3> QED BY <3>1, <3>3 DEF Counts, n
  <2>2. Under(ids, x.child, s) = 0 /\ Under(Children, x.child, s) \in Nat
    <3>1. \A c \in ids : x.child[c] # s
      OBVIOUS
    <3>2. PICK child : child = x.child
      OBVIOUS
    <3>3. Under(ids, child, s) = 0 /\ Under(Children, child, s) \in Nat
      BY <3>1, <3>2, UnderIs
    <3> QED BY <3>2, <3>3
  <2> QED BY <1>3, <2>1, <2>2
<1> HIDE DEF m, n
<1>5. /\ z \in GrState /\ z.child = m /\ z.cached = x.cached \cup ids /\ z.ghosts = x.ghosts /\ z.done = x.done
      /\ z.acc = x.acc /\ z.here = x.here
  BY <1>1, <1>2 DEF GrState, GrMap
<1> HIDE DEF z
<1>6. InMemory(z)
  <2>1. Stored(z) = Stored(x) \cup ids /\ Live(z) \subseteq Live(x) \cup ids
    BY <1>2, <1>3, <1>5 DEF Stored, Live
  <2>2. DoneOver(z)
    <3>1. Over \subseteq RowStatus
      BY DEF Over, RowStatus
    <3> QED BY <1>2, <1>5, <3>1 DEF InMemory, DoneOver
  <2> QED BY <1>5, <2>1, <2>2 DEF InMemory
<1>7. CASE ~z.acc.live
  <2>1. w = z
    BY <1>7 DEF Added
  <2> HIDE DEF w
  <2>2. InMemory(w) /\ Counted(w) /\ w.child = m
    BY <1>5, <1>6, <1>7, <2>1 DEF Counted
  <2> QED BY <2>2 DEF w, z, m, n
<1>8. CASE z.acc.live
  <2>1. z.acc \in GrAcc /\ z.acc.count \in [RowStatus -> Nat] /\ z.acc.resolved \in Nat
        /\ \A s \in RowStatus : z.acc.count[s] \in Nat /\ z.ghosts[s] \in Nat /\ Under(Children, x.child, s) \in Nat
    BY <1>5, AccIs, UnderIs
  <2>2. w = [z EXCEPT !.acc = acc]
    <3>1. w = [z EXCEPT !.acc.count["queued"] = @ + n, !.acc.resolved = @ + n]
      BY <1>8 DEF Added
    <3> QED BY <3>1, <2>1, <1>3, <1>5 DEF GrState, GrAcc
  <2>3. count \in [RowStatus -> Nat] /\ \A s \in RowStatus : count[s] = z.acc.count[s] + IF s = "queued" THEN n ELSE 0
    BY <1>3, <2>1
  <2> HIDE DEF count
  <2>4. Total(count) = Total(z.acc.count) + n
    <3>1. PICK old : old = z.acc.count
      OBVIOUS
    <3>2. /\ count["queued"] = old["queued"] + n /\ count["running"] = old["running"] /\ count["finished"] = old["finished"]
          /\ count["error"] = old["error"] /\ count["canceled"] = old["canceled"]
      BY <2>1, <2>3, <3>1 DEF RowStatus
    <3>3. /\ old["queued"] \in Nat /\ old["running"] \in Nat /\ old["finished"] \in Nat
          /\ old["error"] \in Nat /\ old["canceled"] \in Nat
      BY <2>1, <3>1 DEF RowStatus
    <3>4. Total(count) = Total(old) + n
      BY <1>3, <3>2, <3>3 DEF Total
    <3> QED BY <3>1, <3>4
  <2>5. acc \in GrAcc /\ acc.live = z.acc.live /\ acc.count = count /\ acc.resolved = z.acc.resolved + n
    <3>1. PICK a : a = z.acc
      OBVIOUS
    <3>2. PICK k : k = a.resolved + n
      OBVIOUS
    <3>3. a \in GrAcc /\ k \in Nat
      BY <1>3, <2>1, <3>1, <3>2
    <3>4. acc = [a EXCEPT !.count = count, !.resolved = k]
      BY <3>1, <3>2
    <3> HIDE DEF acc
    <3>5. acc \in GrAcc /\ acc.live = a.live /\ acc.count = count /\ acc.resolved = k
      BY <2>3, <3>3, <3>4 DEF GrAcc
    <3> QED BY <3>1, <3>2, <3>5
  <2> HIDE DEF acc, w
  <2>6. w.child = z.child /\ w.ghosts = z.ghosts /\ w.acc = acc
    BY <1>5, <2>2, <2>5, NewAccIs
  <2>7. InMemory(w)
    BY <1>6, <2>2, <2>5, NewAccHeld
  <2>8. Roomy => \A s \in RowStatus : x.acc.count[s] = Under(Children, x.child, s) + x.ghosts[s]
    BY <1>5, <1>8 DEF Counted
  <2>9. Roomy => \A s \in RowStatus : w.acc.count[s] = Under(Children, w.child, s) + w.ghosts[s]
    <3> SUFFICES ASSUME Roomy, NEW s \in RowStatus PROVE count[s] = Under(Children, m, s) + z.ghosts[s]
      BY <2>5, <2>6, <1>5
    <3>1. z.acc.count[s] = Under(Children, x.child, s) + z.ghosts[s]
      BY <1>5, <2>8
    <3> QED BY <3>1, <1>3, <1>4, <2>1, <2>3
  <2>10. Roomy => w.acc.resolved = Total(w.acc.count)
    BY <1>5, <1>8, <2>4, <2>5, <2>6 DEF Counted
  <2>11. Counted(w) /\ w.child = m
    BY <2>6, <2>9, <2>10, <1>5 DEF Counted
  <2> QED BY <2>7, <2>11 DEF w, z, m, n
<1> QED BY <1>7, <1>8 DEF w, z, m, n

LEMMA RemovedIs ==
  ASSUME NEW x, InMemory(x), Counted(x), NEW ids \in SUBSET x.cached
  PROVE  LET z == Removed(x, ids) IN
         /\ z \in GrState /\ z.group = x.group /\ z.child = x.child /\ z.ghosts = x.ghosts /\ z.done = x.done
         /\ z.here = x.here /\ z.cached = x.cached /\ z.acc.live = x.acc.live
         /\ Roomy /\ x.acc.live =>
              /\ \A s \in RowStatus : z.acc.count[s] = x.acc.count[s] - Under(ids, x.child, s)
              /\ z.acc.resolved = Total(z.acc.count)
         /\ ids = {} => \A s \in RowStatus : z.acc.count[s] = x.acc.count[s]
<1>1. x \in GrState /\ x.cached \subseteq Children /\ ids \in SUBSET Children
  BY AccIs DEF InMemory
<1>2. CASE ~x.acc.live
  BY <1>1, <1>2 DEF Removed
<1>3. CASE x.acc.live
  <2> DEFINE count == [s \in RowStatus |-> Less(x.acc.count[s], Under(ids, x.child, s))]
             acc == [x.acc EXCEPT !.count = count, !.resolved = Less(@, Cardinality(ids))]
  <2>1. x.acc \in GrAcc /\ x.acc.count \in [RowStatus -> Nat] /\ x.acc.resolved \in Nat
        /\ \A s \in RowStatus : x.acc.count[s] \in Nat /\ x.ghosts[s] \in Nat
    BY <1>1, AccIs
  <2>2. Removed(x, ids) = [x EXCEPT !.acc = acc]
    <3>1. Removed(x, ids) = [x EXCEPT !.acc.count = [s \in RowStatus |-> Less(@[s], Under(ids, x.child, s))],
                                      !.acc.resolved = Less(@, Cardinality(ids))]
      BY <1>3 DEF Removed
    <3> QED BY <3>1, <1>1, <2>1 DEF GrState, GrAcc
  <2>3. Cardinality(ids) \in Nat /\ \A s \in RowStatus : Under(ids, x.child, s) \in Nat
    BY <1>1, UnderIs
  <2>4. /\ count \in [RowStatus -> Nat] /\ \A s \in RowStatus : count[s] = Less(x.acc.count[s], Under(ids, x.child, s))
        /\ Less(x.acc.resolved, Cardinality(ids)) \in Nat
    BY <2>1, <2>3 DEF Less
  <2> HIDE DEF count
  <2>5. acc \in GrAcc /\ acc.live = x.acc.live /\ acc.count = count /\ acc.resolved = Less(x.acc.resolved, Cardinality(ids))
    BY <2>1, <2>4 DEF GrAcc
  <2> HIDE DEF acc
  <2>6. PICK z : z = Removed(x, ids)
    OBVIOUS
  <2>7. /\ z \in GrState /\ z.group = x.group /\ z.child = x.child /\ z.ghosts = x.ghosts /\ z.done = x.done
        /\ z.here = x.here /\ z.cached = x.cached /\ z.acc = acc
    <3>1. z = [x EXCEPT !.acc = acc]
      BY <2>2, <2>6
    <3> QED BY <1>1, <2>5, <3>1, NewAccIs
  <2>8. ids = {} => \A s \in RowStatus : count[s] = x.acc.count[s]
    <3>1. ids = {} => \A s \in RowStatus : Under(ids, x.child, s) = 0
      BY <1>1, UnderIs
    <3> QED BY <2>1, <2>4, <3>1 DEF Less
  <2>9. Roomy => /\ \A s \in RowStatus : count[s] = x.acc.count[s] - Under(ids, x.child, s)
                 /\ acc.resolved = Total(count)
    <3> SUFFICES ASSUME Roomy PROVE /\ \A s \in RowStatus : count[s] = x.acc.count[s] - Under(ids, x.child, s)
                                    /\ acc.resolved = Total(count)
      OBVIOUS
    <3>1. \A s \in RowStatus : Under(ids, x.child, s) <= x.acc.count[s]
      <4> SUFFICES ASSUME NEW s \in RowStatus PROVE Under(ids, x.child, s) <= x.acc.count[s]
        OBVIOUS
      <4>1. Under(ids, x.child, s) \in Nat /\ Under(Children, x.child, s) \in Nat
        BY <1>1, UnderIs
      <4>2. Under(ids, x.child, s) <= Under(Children, x.child, s)
        BY <1>1, UnderLess
      <4>3. x.acc.count[s] = Under(Children, x.child, s) + x.ghosts[s]
        BY <1>3 DEF Counted
      <4> QED BY <2>1, <4>1, <4>2, <4>3
    <3>2. \A s \in RowStatus : count[s] = x.acc.count[s] - Under(ids, x.child, s)
      BY <2>1, <2>3, <2>4, <3>1 DEF Less
    <3>3. Cardinality(ids) = Under(ids, x.child, "queued") + Under(ids, x.child, "running") + Under(ids, x.child, "finished")
               + Under(ids, x.child, "error") + Under(ids, x.child, "canceled")
      <4>1. Having(x.child, ids) = ids
        BY DEF InMemory, Stored, Having
      <4> QED BY <1>1, <4>1, ByStatus
    <3>4. x.acc.resolved = Total(x.acc.count)
      BY <1>3 DEF Counted
    <3>5. Total(count) = Total(x.acc.count) - Cardinality(ids) /\ Total(count) \in Nat
      BY <2>1, <2>3, <2>4, <3>1, <3>2, <3>3 DEF Total, RowStatus
    <3>6. Less(x.acc.resolved, Cardinality(ids)) = Total(count)
      BY <2>1, <2>3, <3>4, <3>5 DEF Less
    <3> QED BY <2>5, <3>2, <3>6
  <2> QED BY <2>5, <2>6, <2>7, <2>8, <2>9
<1> QED BY <1>2, <1>3

LEMMA ForgetIs ==
  ASSUME NEW x, InMemory(x), Counted(x), NEW ids \in SUBSET Children
  PROVE  LET w == RemovedRows(x, ids) IN
         /\ InMemory(w) /\ Counted(w) /\ w.child = Mark(x, ids, "gone") /\ w.group = x.group /\ w.here = x.here
         /\ w.acc.live = x.acc.live
         /\ ids \cap x.cached = {} => \A s \in RowStatus : w.acc.count[s] = x.acc.count[s]
<1>0. PICK here, there : here = ids \cap x.cached /\ there = ids \ x.cached
  OBVIOUS
<1> DEFINE m == Mark(x, ids, "gone")
           y == Removed(x, here)
           more == [s \in RowStatus |-> y.ghosts[s] + IF y.acc.live THEN Under(ids \ y.cached, y.child, s) ELSE 0]
           z == Gone(y, ids)
           w == WithoutDone(z, ids)
<1>1. x \in GrState /\ x.cached \subseteq Children /\ x.child \in GrMap
  BY AccIs DEF InMemory
<1>2. /\ y \in GrState /\ y.group = x.group /\ y.child = x.child /\ y.ghosts = x.ghosts /\ y.done = x.done
      /\ y.here = x.here /\ y.cached = x.cached /\ y.acc.live = x.acc.live
      /\ Roomy /\ x.acc.live =>
           /\ \A s \in RowStatus : y.acc.count[s] = x.acc.count[s] - Under(here, x.child, s)
           /\ y.acc.resolved = Total(y.acc.count)
      /\ here = {} => \A s \in RowStatus : y.acc.count[s] = x.acc.count[s]
  <2>1. here \in SUBSET x.cached /\ y = Removed(x, here)
    BY <1>0
  <2> HIDE DEF y
  <2> QED BY <2>1, RemovedIs
<1> HIDE DEF y
<1>3. m \in GrMap /\ \A c \in Children : m[c] = IF c \in ids THEN "gone" ELSE x.child[c]
  BY <1>1, MarkIs DEF Mark
<1>4. /\ more = [s \in RowStatus |-> x.ghosts[s] + IF x.acc.live THEN Under(there, x.child, s) ELSE 0]
      /\ \A s \in RowStatus : more[s] = x.ghosts[s] + IF x.acc.live THEN Under(there, x.child, s) ELSE 0
  <2>1. there = ids \ y.cached /\ y.child = x.child
    BY <1>0, <1>2
  <2>2. more = [s \in RowStatus |-> x.ghosts[s] + IF x.acc.live THEN Under(there, x.child, s) ELSE 0]
    BY <1>2, <2>1
  <2> HIDE DEF more
  <2> QED BY <2>2
<1>5. \A s \in RowStatus : /\ Under(there, x.child, s) \in Nat /\ Under(Children, x.child, s) \in Nat
                           /\ Under(here, x.child, s) \in Nat /\ x.ghosts[s] \in Nat /\ x.acc.count[s] \in Nat
  <2>1. here \in SUBSET Children /\ there \in SUBSET Children
    BY <1>0
  <2>3. \A s : Under(here, x.child, s) \in Nat /\ Under(there, x.child, s) \in Nat /\ Under(Children, x.child, s) \in Nat
    <3>1. \A old, s : Under(here, old, s) \in Nat /\ Under(there, old, s) \in Nat /\ Under(Children, old, s) \in Nat
      BY <2>1, UnderIs
    <3> QED BY <3>1
  <2>4. \A s \in RowStatus : x.ghosts[s] \in Nat /\ x.acc.count[s] \in Nat
    BY <1>1, AccIs
  <2>5. ASSUME NEW s \in RowStatus
        PROVE  /\ Under(there, x.child, s) \in Nat /\ Under(Children, x.child, s) \in Nat
               /\ Under(here, x.child, s) \in Nat /\ x.ghosts[s] \in Nat /\ x.acc.count[s] \in Nat
    BY <2>3, <2>4
  <2> QED BY <2>5
<1>6. more \in [RowStatus -> Nat]
  <2> HIDE DEF more
  <2>1. \A s \in RowStatus : x.ghosts[s] + (IF x.acc.live THEN Under(there, x.child, s) ELSE 0) \in Nat
    BY <1>5
  <2> QED BY <1>4, <2>1
<1>7. z = [y EXCEPT !.cached = y.cached \ ids, !.child = m, !.ghosts = more]
  <2>1. m = [c \in Children |-> IF c \in ids THEN "gone" ELSE y.child[c]]
    BY <1>2 DEF Mark
  <2>2. z = [y EXCEPT !.cached = y.cached \ ids, !.child = [c \in Children |-> IF c \in ids THEN "gone" ELSE y.child[c]], !.ghosts = more]
    BY <1>2 DEF Gone, GrState
  <2> QED BY <2>1, <2>2
<1> HIDE DEF m, more
<1>8. /\ z \in GrState /\ z.cached = x.cached \ ids /\ z.child = m /\ z.ghosts = more /\ z.acc = y.acc /\ z.here = x.here
      /\ z.group = x.group /\ z.done = x.done
  <2>1. PICK cached : cached = y.cached \ ids /\ cached \in SUBSET Children
    BY <1>1, <1>2
  <2> HIDE DEF z
  <2>2. z = [y EXCEPT !.cached = cached, !.child = m, !.ghosts = more]
    BY <1>7, <2>1
  <2> QED BY <1>2, <1>3, <1>6, <2>1, <2>2 DEF GrState, GrMap
<1> HIDE DEF z
<1>9. /\ w \in GrState /\ Listed(w) \subseteq Listed(z) \ ids /\ w.group = z.group /\ w.child = z.child /\ w.ghosts = z.ghosts
      /\ w.here = z.here /\ w.acc = z.acc /\ w.cached = z.cached
      /\ Single(z.done, Group) => Single(w.done, Group)
  BY <1>8, WithoutDoneIs
<1> HIDE DEF w
<1>10. InMemory(w)
  <2>1. Stored(w) = Stored(x) \ ids /\ Live(w) = Live(x) \ ids
    <3>1. "gone" \notin RowStatus
      BY DEF RowStatus
    <3> QED BY <1>3, <1>8, <1>9, <3>1 DEF Stored, Live
  <2>2. Listed(w) \subseteq Listed(x) \ ids
    BY <1>8, <1>9 DEF Listed
  <2>3. DoneOver(w)
    BY <1>1, <1>3, <1>8, <1>9, <2>2, DoneOverIs DEF InMemory
  <2> QED BY <1>2, <1>8, <1>9, <2>1, <2>3 DEF InMemory
<1>11. ASSUME NEW s \in RowStatus
       PROVE  Under(Children, m, s) = Under(Children, x.child, s) - Under(here, x.child, s) - Under(there, x.child, s)
  <2>1. PICK old, new : old = x.child /\ new = m
    OBVIOUS
  <2>2. /\ here \in SUBSET Children /\ there \in SUBSET Children /\ here \cap there = {} /\ ids = here \cup there
        /\ Marks(new, old, ids, "gone")
    BY <1>0, <1>3, <2>1 DEF Marks
  <2>3. Counts(new, old, ids, "gone", s)
    BY <2>2, Marked
  <2>4. s # "gone"
    BY DEF RowStatus
  <2>5. Under(ids, old, s) = Under(here, old, s) + Under(there, old, s)
    BY <2>2, UnderParts
  <2>6. Under(here, old, s) \in Nat /\ Under(there, old, s) \in Nat /\ Under(ids, old, s) \in Nat /\ Under(Children, old, s) \in Nat
    BY <2>2, UnderIs
  <2>7. Under(Children, new, s) = Under(Children, old, s) - Under(here, old, s) - Under(there, old, s)
    BY <2>3, <2>4, <2>5, <2>6 DEF Counts
  <2> QED BY <2>1, <2>7
<1>13. Counted(w)
  <2>1. CASE ~(Roomy /\ x.acc.live)
    BY <1>2, <1>8, <1>9, <2>1 DEF Counted
  <2>2. CASE Roomy /\ x.acc.live
    <3>1. \A s \in RowStatus : w.acc.count[s] = x.acc.count[s] - Under(here, x.child, s)
      BY <1>2, <1>8, <1>9, <2>2
    <3>2. \A s \in RowStatus : w.ghosts[s] = x.ghosts[s] + Under(there, x.child, s)
      BY <1>4, <1>8, <1>9, <2>2
    <3>3. \A s \in RowStatus : x.acc.count[s] = Under(Children, x.child, s) + x.ghosts[s]
      BY <2>2 DEF Counted
    <3>4. \A s \in RowStatus : w.acc.count[s] = Under(Children, w.child, s) + w.ghosts[s]
      BY <1>5, <1>8, <1>9, <1>11, <3>1, <3>2, <3>3
    <3>5. w.acc.resolved = Total(w.acc.count)
      BY <1>2, <1>8, <1>9, <2>2
    <3> QED BY <3>4, <3>5 DEF Counted
  <2> QED BY <2>1, <2>2
<1>12. RemovedRows(x, ids) = w
  <2>1. Group \notin ids
    BY DEF Group, Children
  <2> QED BY <1>0, <2>1 DEF RemovedRows, Forget, w, z, y
<1> QED BY <1>0, <1>2, <1>8, <1>9, <1>10, <1>12, <1>13 DEF m

LEMMA CascadeIs ==
  ASSUME NEW x, InMemory(x), NEW ids, Group \in ids
  PROVE  LET w == RemovedRows(x, ids) IN
         /\ InMemory(w) /\ Counted(w) /\ Rolled(w)
         /\ \A c \in Children : w.child[c] = IF c \in Stored(x) THEN "gone" ELSE x.child[c]
<1> DEFINE m == Mark(x, Stored(x), "gone")
<1>1. x \in GrState
  BY DEF InMemory
<1>2. m \in GrMap /\ m = [c \in Children |-> IF c \in Stored(x) THEN "gone" ELSE x.child[c]]
  BY <1>1, MarkIs DEF Mark
<1>3. PICK w : w = RemovedRows(x, ids)
  OBVIOUS
<1>4. w = [x EXCEPT !.group = "gone", !.here = FALSE, !.acc = NoAcc, !.done = <<>>, !.cached = {}, !.child = m]
  BY <1>2, <1>3 DEF RemovedRows
<1> HIDE DEF m
<1>5. w \in GrState /\ w.done = <<>> /\ w.cached = {} /\ w.child = m /\ w.acc = NoAcc
  <2>1. <<>> \in Seq(0..Other) /\ {} \in SUBSET Children /\ FALSE \in BOOLEAN
    OBVIOUS
  <2> QED BY <1>1, <1>2, <1>4, <2>1, NoAccTyped DEF GrState, GrMap
<1>6. Stored(w) = {} /\ Live(w) = {}
  <2>1. "gone" \notin RowStatus
    BY DEF RowStatus
  <2> QED BY <1>2, <1>5, <2>1 DEF Stored, Live
<1>7. DoneOver(w)
  BY <1>5 DEF DoneOver, Single
<1>8. InMemory(w) /\ Counted(w) /\ Rolled(w)
  BY <1>5, <1>6, <1>7, NoAccTyped DEF InMemory, Counted, Rolled
<1> QED BY <1>2, <1>3, <1>5, <1>8

-----------------------------------------------------------------------------
(* The corrected accumulator.                                              *)
LEMMA DriftTyped ==
  ASSUME NEW x, InMemory(x), NEW w,
         w = [x EXCEPT !.acc.count = [s \in RowStatus |-> Under(x.cached, x.child, s)],
                       !.acc.resolved = Cardinality(x.cached), !.ghosts = [s \in RowStatus |-> 0]]
  PROVE  InMemory(w) /\ w.child = x.child
<1> DEFINE count == [s \in RowStatus |-> Under(x.cached, x.child, s)]
           none == [s \in RowStatus |-> 0]
           n == Cardinality(x.cached)
           acc == [x.acc EXCEPT !.count = count, !.resolved = n]
<1>1. x \in GrState /\ x.cached \in SUBSET Children /\ x.acc \in GrAcc
  BY AccIs DEF InMemory
<1>2. n \in Nat /\ \A s : Under(x.cached, x.child, s) \in Nat
  <2>1. PICK child, cached : child = x.child /\ cached = x.cached
    OBVIOUS
  <2> QED BY <1>1, <2>1, UnderIs
<1>3. count \in [RowStatus -> Nat] /\ none \in [RowStatus -> Nat]
  BY <1>2
<1>4. w = [x EXCEPT !.acc = acc, !.ghosts = none]
  BY <1>1 DEF GrState, GrAcc
<1> HIDE DEF count, none, n
<1>5. acc \in GrAcc /\ acc.live = x.acc.live
  BY <1>1, <1>2, <1>3 DEF GrAcc
<1> HIDE DEF acc
<1>6. /\ w \in GrState /\ w.acc = acc /\ w.child = x.child /\ w.cached = x.cached /\ w.done = x.done /\ w.here = x.here
  BY <1>1, <1>3, <1>4, <1>5 DEF GrState
<1> QED BY <1>5, <1>6 DEF InMemory, Live, Stored, DoneOver

LEMMA DriftIs ==
  ASSUME Roomy, NEW x, InMemory(x), Counted(x), x.acc.live = TRUE, Cardinality(x.cached) >= x.acc.resolved,
         NEW w, w = [x EXCEPT !.acc.count = [s \in RowStatus |-> Under(x.cached, x.child, s)],
                              !.acc.resolved = Cardinality(x.cached), !.ghosts = [s \in RowStatus |-> 0]]
  PROVE  Counted(w) /\ (Rolled(x) => Rolled(w))
<1> DEFINE g == x.ghosts
           count == [s \in RowStatus |-> Under(x.cached, x.child, s)]
           none == [s \in RowStatus |-> 0]
           n == Cardinality(x.cached)
           acc == [x.acc EXCEPT !.count = count, !.resolved = n]
<1>1. x \in GrState /\ x.cached \in SUBSET Children /\ x.acc \in GrAcc /\ x.acc.count \in [RowStatus -> Nat]
      /\ (\A s \in RowStatus : g[s] \in Nat /\ x.acc.count[s] \in Nat)
  BY AccIs DEF InMemory
<1>2. PICK child, cached : child = x.child /\ cached = x.cached
  OBVIOUS
<1>3. IsFiniteSet(cached) /\ n \in Nat /\ IsFiniteSet(Children)
      /\ \A s : Under(cached, child, s) \in Nat /\ Under(Children, child, s) \in Nat
  BY <1>1, <1>2, UnderIs, ChildrenFinite
<1>4. /\ \A s \in RowStatus : x.acc.count[s] = Under(Children, child, s) + g[s]
      /\ x.acc.resolved = Total(x.acc.count)
  BY <1>2 DEF Counted
<1> HIDE DEF g
<1>5. cached = Having(child, Children) /\ \A s \in RowStatus : g[s] = 0
  <2> DEFINE stored == Having(child, Children)
  <2>1. stored = Stored(x) /\ cached \subseteq stored /\ stored \subseteq Children
    BY <1>2 DEF InMemory, Stored, Having
  <2>2. IsFiniteSet(stored)
    BY <1>3, <2>1, FS_Subset
  <2>3. Cardinality(stored) = Under(Children, child, "queued") + Under(Children, child, "running") + Under(Children, child, "finished")
             + Under(Children, child, "error") + Under(Children, child, "canceled")
    BY ByStatus
  <2> HIDE DEF stored
  <2>4. Cardinality(cached) <= Cardinality(stored) /\ (Cardinality(stored) = Cardinality(cached) => stored = cached)
    BY <2>1, <2>2, FS_Subset
  <2>5. Cardinality(cached) \in Nat /\ Cardinality(stored) \in Nat
    BY <1>3, <2>2, FS_CardinalityType
  <2>6. x.acc.resolved = Under(Children, child, "queued") + g["queued"] + Under(Children, child, "running") + g["running"]
          + Under(Children, child, "finished") + g["finished"] + Under(Children, child, "error") + g["error"]
          + Under(Children, child, "canceled") + g["canceled"]
    <3>1. PICK old : old = x.acc.count
      OBVIOUS
    <3>2. \A s \in RowStatus : old[s] = Under(Children, child, s) + g[s] /\ Under(Children, child, s) \in Nat /\ g[s] \in Nat
      BY <1>1, <1>3, <1>4, <3>1
    <3>3. x.acc.resolved = Total(old)
      BY <1>4, <3>1
    <3> QED BY <3>2, <3>3 DEF Total, RowStatus
  <2>7. \A s \in RowStatus : Under(Children, child, s) \in Nat /\ g[s] \in Nat
    BY <1>1, <1>3
  <2>8. Cardinality(cached) >= x.acc.resolved
    BY <1>2
  <2>9. Cardinality(stored) = Cardinality(cached)
        /\ g["queued"] = 0 /\ g["running"] = 0 /\ g["finished"] = 0 /\ g["error"] = 0 /\ g["canceled"] = 0
    <3>1. PICK uq, ur, uf, ue, uc : /\ uq = Under(Children, child, "queued") /\ ur = Under(Children, child, "running")
                                    /\ uf = Under(Children, child, "finished") /\ ue = Under(Children, child, "error")
                                    /\ uc = Under(Children, child, "canceled")
      OBVIOUS
    <3>2. PICK gq, grn, gf, ge, gc : gq = g["queued"] /\ grn = g["running"] /\ gf = g["finished"] /\ ge = g["error"] /\ gc = g["canceled"]
      OBVIOUS
    <3>3. /\ uq \in Nat /\ ur \in Nat /\ uf \in Nat /\ ue \in Nat /\ uc \in Nat
          /\ gq \in Nat /\ grn \in Nat /\ gf \in Nat /\ ge \in Nat /\ gc \in Nat
      BY <2>7, <3>1, <3>2 DEF RowStatus
    <3>4. Cardinality(stored) = uq + ur + uf + ue + uc
      BY <2>3, <3>1
    <3>5. x.acc.resolved = uq + gq + ur + grn + uf + gf + ue + ge + uc + gc
      BY <2>6, <3>1, <3>2
    <3>6. Cardinality(stored) = Cardinality(cached) /\ gq = 0 /\ grn = 0 /\ gf = 0 /\ ge = 0 /\ gc = 0
      <4>1. PICK have, kept, most : have = Cardinality(stored) /\ kept = Cardinality(cached) /\ most = x.acc.resolved
        OBVIOUS
      <4>2. have \in Nat /\ kept \in Nat /\ kept <= have /\ kept >= most /\ have = uq + ur + uf + ue + uc
        BY <2>4, <2>5, <2>8, <3>4, <4>1
      <4>3. most = uq + gq + ur + grn + uf + gf + ue + ge + uc + gc
        BY <3>5, <4>1
      <4>4. have = kept /\ gq = 0 /\ grn = 0 /\ gf = 0 /\ ge = 0 /\ gc = 0
        BY <3>3, <4>2, <4>3
      <4> QED BY <4>1, <4>4
    <3> QED BY <3>2, <3>6
  <2> QED BY <2>4, <2>9 DEF stored, RowStatus
<1>6. \A s \in RowStatus : count[s] = Under(Children, child, s) /\ x.acc.count[s] = count[s]
  <2> SUFFICES ASSUME NEW s \in RowStatus PROVE count[s] = Under(Children, child, s) /\ x.acc.count[s] = count[s]
    OBVIOUS
  <2>1. {c \in cached : child[c] = s} = {c \in Children : child[c] = s}
    BY <1>5 DEF Having
  <2>2. Under(cached, child, s) = Under(Children, child, s)
    BY <2>1 DEF Under
  <2> QED BY <1>2, <1>3, <1>4, <1>5, <2>2
<1>7. count \in [RowStatus -> Nat]
  BY <1>2, <1>3
<1>8. n = Total(count)
  <2>1. n = Under(Children, child, "queued") + Under(Children, child, "running") + Under(Children, child, "finished")
             + Under(Children, child, "error") + Under(Children, child, "canceled")
    BY <1>2, <1>5, ByStatus
  <2> HIDE DEF count
  <2> QED BY <1>6, <2>1 DEF Total, RowStatus
<1>9. w = [x EXCEPT !.acc = acc, !.ghosts = none]
  BY <1>1 DEF GrState, GrAcc
<1> HIDE DEF count, n
<1>10. acc \in GrAcc /\ acc.live = x.acc.live /\ acc.count = count /\ acc.resolved = n
  BY <1>1, <1>3, <1>7 DEF GrAcc
<1>11. none \in [RowStatus -> Nat] /\ \A s \in RowStatus : none[s] = 0
  OBVIOUS
<1> HIDE DEF acc, none
<1>12. /\ w \in GrState /\ w.acc = acc /\ w.ghosts = none /\ w.child = x.child /\ w.cached = x.cached
       /\ w.done = x.done /\ w.here = x.here /\ w.group = x.group
  BY <1>1, <1>9, <1>10, <1>11 DEF GrState
<1>14. \A s \in RowStatus : w.acc.count[s] = Under(Children, w.child, s) + w.ghosts[s]
  BY <1>2, <1>3, <1>6, <1>10, <1>11, <1>12
<1>15. Counted(w)
  BY <1>8, <1>10, <1>12, <1>14 DEF Counted
<1>16. RollUp(count) = RollUp(x.acc.count)
  BY <1>6, RollUpSame
<1>17. Rolled(x) => Rolled(w)
  BY <1>10, <1>12, <1>16 DEF Rolled
<1> QED BY <1>15, <1>17

-----------------------------------------------------------------------------
(* The boot.                                                               *)
LEMMA ByAgeIs ==
  ASSUME NEW ids, ids \subseteq 0..GrChildren
  PROVE  ByAge(ids) \in Seq(ids) /\ Single(ByAge(ids), Group)
<1>1. PICK all, out : all = [i \in 1..Other |-> i - 1] /\ out = 0..GrChildren \ ids
  OBVIOUS
<1>2. all \in Seq(0..GrChildren)
  <2>1. Other \in Nat /\ Other = GrChildren + 1
    BY GrAssumption DEF Other
  <2>2. \A i \in 1..Other : i - 1 \in 0..GrChildren
    BY <2>1, GrAssumption
  <2>3. [i \in 1..Other |-> i - 1] \in Seq(0..GrChildren)
    <3>1. [i \in 1..Other |-> i - 1] \in [1..Other -> 0..GrChildren]
      BY <2>2
    <3>2. PICK n, f, S : n = Other /\ f = [i \in 1..Other |-> i - 1] /\ S = 0..GrChildren
      OBVIOUS
    <3>3. n \in Nat /\ f \in [1..n -> S]
      BY <2>1, <3>1, <3>2
    <3>4. f \in Seq(S)
      BY <3>3
    <3> QED BY <3>2, <3>4
  <2> QED BY <1>1, <2>3
<1>3. Sans(all, out) \in Seq(0..GrChildren \ out)
  BY <1>2, SansSeq
<1>4. 0..GrChildren \ out = ids
  BY <1>1
<1>5. Single(Sans(all, out), Group)
  <2>1. Len(all) = Other /\ \A i \in 1..Len(all) : all[i] = i - 1
    BY <1>1, GrAssumption DEF Other
  <2>2. Single(all, Group)
    BY <2>1, GrAssumption DEF Single, Group, Other
  <2> QED BY <1>2, <2>2, SansSingle
<1> QED BY <1>1, <1>3, <1>4, <1>5 DEF ByAge

LEMMA NoCmdTyped == NoCmd \in GrCmd /\ [NoCmd EXCEPT !.op = "promote"] \in GrCmd
<1>1. <<>> \in Seq(Children \cup {Group}) /\ {} \in SUBSET (Children \cup {Group})
  OBVIOUS
<1> QED BY <1>1 DEF NoCmd, GrCmd

LEMMA RecoverKeeps ==
  ASSUME GroupsInv, NEW room \in 0..GrWindow, Recover(room)
  PROVE  GroupsInv' /\ gr'.child \in GrMap /\ \A c \in Children : gr'.child[c] = "gone" => gr.child[c] = "gone"
<1> DEFINE child == [c \in Children |-> IF gr.child[c] = "running" THEN "queued" ELSE gr.child[c]]
           group == IF gr.group = "running" THEN "queued" ELSE gr.group
           over == {id \in Children \cup {Group} : StatusOf(id) \in Over}
           window == {id \in over : Cardinality({o \in over : o > id}) < room}
           here == group \notin Over \/ Group \in window
           stored == Cardinality(Stored([gr EXCEPT !.child = child]))
           cached == Live([gr EXCEPT !.child = child]) \cup (window \ {Group})
           acc == IF here THEN [live |-> TRUE, count |-> Tally(child), resolved |-> stored] ELSE NoAcc
           done == ByAge(window)
           none == [s \in RowStatus |-> 0]
<1>1. /\ gr' = [group |-> group, child |-> child, here |-> here, cached |-> cached, acc |-> acc, done |-> done, ghosts |-> none]
      /\ grCmd' = NoCmd /\ grNext' = 0 /\ grAsked' = FALSE
      /\ grLoose' = (grLoose \/ ~gr.acc.live \/ \E s \in RowStatus : gr.ghosts[s] > 0)
  BY DEF Recover
<1>2. gr \in GrState /\ gr.child \in GrMap /\ InMemory(gr) /\ Counted(gr) /\ (~grLoose => Rolled(gr)) /\ grLoose \in BOOLEAN
      /\ gr.acc.live \in BOOLEAN /\ gr.acc.count \in [RowStatus -> Nat] /\ (gr.acc.live => gr.here)
      /\ \A s \in RowStatus : gr.ghosts[s] \in Nat
  BY AccIs DEF GroupsInv, InMemory
<1>3. /\ child \in GrMap /\ \A c \in Children : child[c] = IF gr.child[c] = "running" THEN "queued" ELSE gr.child[c]
      /\ \A c \in Children : gr.child[c] \in RowStatus \cup {"none", "gone"} /\ child[c] \in RowStatus \cup {"none", "gone"}
  BY <1>2 DEF GrMap, RowStatus
<1>4. "running" \in RowStatus /\ "queued" \in RowStatus /\ "running" \notin Over /\ "queued" \notin Over /\ Over \subseteq RowStatus
  BY DEF RowStatus, Over
<1>5. group \in RowStatus \cup {"gone"}
  BY <1>2, <1>4 DEF GrState
<1>6. [gr EXCEPT !.child = child].child = child
  BY <1>2 DEF GrState
<1> HIDE DEF child
<1>7. Stored([gr EXCEPT !.child = child]) = Having(child, Children)
      /\ Live([gr EXCEPT !.child = child]) = {c \in Having(child, Children) : child[c] \notin Over}
  BY <1>6 DEF Stored, Live, Having
<1>8. window \subseteq over /\ \A c \in window \ {Group} : c \in Children /\ gr.child[c] \in Over
  BY DEF StatusOf
<1>9. cached \subseteq Having(child, Children) /\ \A c \in Having(child, Children) : child[c] \notin Over => c \in cached
  BY <1>3, <1>4, <1>7, <1>8 DEF Having
<1>10. done \in Seq(window) /\ window \subseteq 0..Other /\ Single(done, Group)
  <2>1. window \subseteq 0..GrChildren
    BY <1>8, GrAssumption DEF Children, Group
  <2> HIDE DEF window
  <2>2. done \in Seq(window) /\ Single(done, Group)
    BY <2>1, ByAgeIs
  <2> QED BY <2>1, <2>2, GrAssumption DEF Other
<1> HIDE DEF window, done
<1>11. done \in Seq(0..Other) /\ \A i \in 1..Len(done) : done[i] \in window
  BY <1>10, SeqWiden, ElementOfSeq
<1>13. /\ Tally(child) \in [RowStatus -> Nat] /\ \A s \in RowStatus : Tally(child)[s] = Under(Children, child, s)
       /\ \A s : Under(Children, child, s) \in Nat
  <2>1. \A s : Under(Children, child, s) \in Nat
    BY UnderIs
  <2> QED BY <2>1 DEF Tally
<1>14. stored = Total(Tally(child)) /\ stored \in Nat
  <2>1. stored = Under(Children, child, "queued") + Under(Children, child, "running") + Under(Children, child, "finished")
             + Under(Children, child, "error") + Under(Children, child, "canceled")
    BY <1>7, ByStatus
  <2> QED BY <1>13, <2>1 DEF Total, RowStatus
<1> HIDE DEF cached, group, here, stored
<1>15. acc \in GrAcc /\ acc.live = here /\ here \in BOOLEAN
       /\ (here => acc.count = Tally(child) /\ acc.resolved = stored)
  <2>1. here \in BOOLEAN
    BY DEF here
  <2>2. CASE here
    <3>1. acc = [live |-> TRUE, count |-> Tally(child), resolved |-> stored]
      BY <2>2
    <3> HIDE DEF acc
    <3>2. acc \in GrAcc /\ acc.live = TRUE /\ acc.count = Tally(child) /\ acc.resolved = stored
      BY <3>1, <1>13, <1>14 DEF GrAcc
    <3> QED BY <2>1, <2>2, <3>2
  <2>3. CASE ~here
    BY <2>1, <2>3, NoAccTyped DEF NoAcc
  <2> QED BY <2>2, <2>3
<1>16. none \in [RowStatus -> Nat] /\ \A s \in RowStatus : none[s] = 0
  OBVIOUS
<1> HIDE DEF acc, none
<1>17. PICK w : w = gr'
  OBVIOUS
<1>18. /\ w \in GrState /\ w.group = group /\ w.child = child /\ w.here = here /\ w.cached = cached /\ w.acc = acc
       /\ w.done = done /\ w.ghosts = none
  <2>1. cached \in SUBSET Children
    BY <1>9 DEF Having
  <2>2. w = [group |-> group, child |-> child, here |-> here, cached |-> cached, acc |-> acc, done |-> done, ghosts |-> none]
    BY <1>1, <1>17
  <2> QED BY <1>3, <1>5, <1>11, <1>15, <1>16, <2>1, <2>2 DEF GrState, GrMap
<1>19. InMemory(w)
  <2>1. Stored(w) = Having(child, Children) /\ Live(w) = {c \in Having(child, Children) : child[c] \notin Over}
    BY <1>18 DEF Stored, Live, Having
  <2>2. DoneOver(w)
    <3> SUFFICES ASSUME NEW i \in 1..Len(done), done[i] \in Children PROVE child[done[i]] \in Over
      BY <1>10, <1>18 DEF DoneOver
    <3>1. done[i] \in window \ {Group}
      BY <1>11 DEF Children, Group
    <3> QED BY <3>1, <1>3, <1>4, <1>8
  <2> QED BY <1>9, <1>15, <1>18, <2>1, <2>2 DEF InMemory
<1>20. Counted(w)
  BY <1>13, <1>14, <1>15, <1>16, <1>18 DEF Counted
<1>21. ~grLoose' => Rolled(w)
  <2> SUFFICES ASSUME Roomy, ~grLoose', here = TRUE PROVE group = RollUp(Tally(child))
    BY <1>15, <1>18 DEF Rolled
  <2>1. ~grLoose /\ gr.acc.live /\ \A s \in RowStatus : ~(gr.ghosts[s] > 0)
    BY <1>1
  <2>2. \A s \in RowStatus : gr.ghosts[s] = 0 /\ gr.acc.count[s] = Under(Children, gr.child, s)
    <3>1. \A s \in RowStatus : gr.ghosts[s] = 0
      BY <1>2, <2>1
    <3>2. \A s \in RowStatus : gr.acc.count[s] = Under(Children, gr.child, s) + gr.ghosts[s]
      BY <1>2, <2>1 DEF Counted
    <3>3. \A s : Under(Children, gr.child, s) \in Nat
      BY UnderIs
    <3> QED BY <3>1, <3>2, <3>3
  <2>3. gr.group = RollUp(gr.acc.count)
    BY <1>2, <2>1 DEF Rolled
  <2>4. CASE gr.acc.count["running"] > 0
    <3>1. gr.group = "running" /\ group = "queued"
      BY <1>2, <2>3, <2>4, RollUpIs DEF group
    <3>2. Under(Children, gr.child, "running") # 0
      BY <1>2, <1>4, <2>2, <2>4
    <3>3. PICK c \in Children : gr.child[c] = "running"
      BY <3>2, UnderIs
    <3>4. child[c] = "queued" /\ \A d \in Children : child[d] # "running"
      BY <1>3, <3>3
    <3>5. Under(Children, child, "queued") # 0 /\ Under(Children, child, "running") = 0
      BY <3>4, UnderIs
    <3>6. Tally(child)["queued"] > 0 /\ Tally(child)["running"] = 0
      BY <1>4, <1>13, <3>5
    <3> QED BY <1>13, <3>1, <3>6, RollUpIs
  <2>5. CASE ~(gr.acc.count["running"] > 0)
    <3>1. gr.group # "running" /\ group = gr.group
      BY <1>2, <2>3, <2>5, RollUpIs DEF group
    <3>2. Under(Children, gr.child, "running") = 0
      <4>1. gr.acc.count["running"] \in Nat
        BY <1>2, <1>4
      <4> QED BY <1>4, <2>2, <2>5, <4>1
    <3>3. \A c \in Children : gr.child[c] # "running"
      BY <3>2, UnderIs
    <3>4. child = gr.child
      BY <1>2, <1>3, <3>3 DEF GrMap
    <3>5. \A s \in RowStatus : gr.acc.count[s] = Tally(child)[s]
      BY <1>13, <2>2, <3>4
    <3> QED BY <2>3, <3>1, <3>5, RollUpSame
  <2> QED BY <2>4, <2>5
<1>22. grLoose' \in BOOLEAN /\ grCmd' \in GrCmd /\ grNext' \in 0..GrChildren \cup {1} /\ grAsked' \in BOOLEAN /\ NextFree'
  <2>1. grLoose' \in BOOLEAN
    BY <1>1
  <2>2. grCmd' \in GrCmd /\ grAsked' \in BOOLEAN
    BY <1>1, NoCmdTyped
  <2>3. grNext' \in 0..GrChildren \cup {1}
    BY <1>1, GrAssumption
  <2>4. NextFree'
    BY <1>1 DEF NextFree
  <2> QED BY <2>1, <2>2, <2>3, <2>4
<1>23. GroupsInv'
  BY <1>17, <1>19, <1>20, <1>21, <1>22 DEF GroupsInv
<1> QED BY <1>3, <1>17, <1>18, <1>23

-----------------------------------------------------------------------------
(* The steps: each keeps the invariant, and takes a live child only when   *)
(* GroupsSparesLive lets it.                                               *)
Spares ==
  Roomy => \A c \in Children :
    gr.child[c] \in {"queued", "running"} /\ gr'.child[c] = "gone" => grCmd.op = "delete" \/ ~gr.acc.live \/ grLoose
Fresh == \A c \in Children : gr'.child[c] \in RowStatus => gr.child[c] \in RowStatus
Stays == \A c \in Children : gr'.child[c] = "gone" => gr.child[c] = "gone"

LEMMA GroupsTypes ==
  ASSUME GroupsInv
  PROVE  /\ InMemory(gr) /\ Counted(gr) /\ gr \in GrState /\ gr.child \in GrMap /\ gr.cached \subseteq Children
         /\ gr.acc.live \in BOOLEAN /\ gr.here \in BOOLEAN /\ (gr.acc.live => gr.here)
         /\ gr.acc.count \in [RowStatus -> Nat]
         /\ (~grLoose => Rolled(gr)) /\ NextFree
         /\ grNext \in 0..GrChildren \cup {1} /\ grNext \in Nat /\ grAsked \in BOOLEAN /\ grCmd \in GrCmd /\ grLoose \in BOOLEAN
<1>1. gr \in GrState
  BY DEF GroupsInv, InMemory
<1>2. grNext \in Nat
  BY GrAssumption DEF GroupsInv
<1> QED BY <1>1, <1>2, AccIs DEF GroupsInv, InMemory

LEMMA Together ==
  ASSUME GroupsInv, InMemory(gr'), Counted(gr'), ~grLoose' => Rolled(gr'), grLoose' \in BOOLEAN, Fresh,
         grNext' = 0 \/ grNext' = grNext, grAsked' \in BOOLEAN, grCmd' \in GrCmd
  PROVE  GroupsInv'
<1>1. NextFree' /\ grNext' \in 0..GrChildren \cup {1}
  BY GrAssumption DEF GroupsInv, NextFree, Fresh
<1> QED BY <1>1 DEF GroupsInv

LEMMA SameRows ==
  ASSUME GroupsInv, UNCHANGED <<gr, grLoose>>, grNext' = 0 \/ grNext' = grNext, grAsked' \in BOOLEAN, grCmd' \in GrCmd
  PROVE  GroupsInv' /\ Stays
<1>1. InMemory(gr') /\ Counted(gr') /\ (~grLoose' => Rolled(gr')) /\ grLoose' \in BOOLEAN
  BY DEF GroupsInv
<1>2. Fresh /\ Stays
  BY DEF Fresh, Stays
<1> QED BY <1>1, <1>2, Together

LEMMA StaysSpares == ASSUME Stays PROVE Spares
BY DEF Stays, Spares

(* The children as x has them, rolled up.                                  *)
LEMMA RolledStep ==
  ASSUME GroupsInv, NEW x, InMemory(x), Counted(x), NEW synced \in BOOLEAN, RollsUp(x, synced),
         \A c \in Children : x.child[c] \in RowStatus => gr.child[c] \in RowStatus,
         grNext' = 0 \/ grNext' = grNext, grAsked' \in BOOLEAN, grCmd' \in GrCmd
  PROVE  GroupsInv' /\ gr'.child = x.child
<1>1. grLoose \in BOOLEAN
  BY DEF GroupsInv
<1>2. /\ InMemory(gr') /\ Counted(gr') /\ (~grLoose' => Rolled(gr')) /\ grLoose' \in BOOLEAN
      /\ gr'.child = x.child
  BY <1>1, RollsUpKeeps
<1>3. Fresh
  BY <1>2 DEF Fresh
<1> QED BY <1>2, <1>3, Together

LEMMA WrittenStep ==
  ASSUME GroupsInv, NEW c \in gr.cached, gr.child[c] \notin Over, NEW to \in RowStatus, gr.child[c] # to,
         NEW synced \in BOOLEAN, Writes(c, to, synced),
         grNext' = grNext, grAsked' \in BOOLEAN, grCmd' \in GrCmd
  PROVE  GroupsInv' /\ Stays
<1>1. InMemory(gr) /\ Counted(gr) /\ gr.child \in GrMap /\ gr.cached \subseteq Children
  BY GroupsTypes
<1>2. PICK w : w = WriteStatus(gr, c, to)
  OBVIOUS
<1>3. InMemory(w) /\ Counted(w) /\ w.child = [gr.child EXCEPT ![c] = to] /\ c \in Stored(gr)
  BY <1>1, <1>2, WriteStatusIs
<1>4. gr.child[c] \in RowStatus /\ to # "gone" /\ \A d \in Children : w.child[d] = IF d = c THEN to ELSE gr.child[d]
  BY <1>1, <1>3 DEF Stored, GrMap, RowStatus
<1>5. \A d \in Children : w.child[d] \in RowStatus => gr.child[d] \in RowStatus
  BY <1>4
<1>6. IF c \in w.cached THEN RollsUp(w, synced) ELSE gr' = w /\ UNCHANGED grLoose
  BY <1>2 DEF Writes
<1>7. GroupsInv' /\ gr'.child = w.child
  <2>1. CASE c \in w.cached
    BY <1>3, <1>5, <1>6, <2>1, RolledStep
  <2>2. CASE c \notin w.cached
    <3>1. ~Roomy
      BY <1>1, <1>2, <2>2, WriteStatusIs
    <3>2. gr' = w /\ grLoose' \in BOOLEAN
      BY <1>6, <2>2, GroupsTypes
    <3>3. Fresh /\ Rolled(w)
      BY <1>5, <3>1, <3>2 DEF Fresh, Rolled
    <3> QED BY <1>3, <3>2, <3>3, Together
  <2> QED BY <2>1, <2>2
<1>8. Stays
  BY <1>4, <1>7 DEF Stays
<1> QED BY <1>7, <1>8

LEMMA GroupsStarts == GroupsInit => GroupsInv
<1> SUFFICES ASSUME GroupsInit PROVE GroupsInv
  OBVIOUS
<1> DEFINE child == [c \in Children |-> "none"]
           none == [s \in RowStatus |-> 0]
<1>1. gr = [group |-> "queued", child |-> child, here |-> TRUE, cached |-> {}, acc |-> NewAcc, done |-> <<>>, ghosts |-> none]
      /\ grNext = 1 /\ grAsked = FALSE /\ grCmd = [NoCmd EXCEPT !.op = "promote"] /\ grLoose = FALSE
  BY DEF GroupsInit
<1>2. none \in [RowStatus -> Nat] /\ (\A s \in RowStatus : none[s] = 0)
      /\ child \in GrMap /\ (\A c \in Children : child[c] = "none") /\ "none" \notin RowStatus
  <2>1. "none" \notin RowStatus
    BY DEF RowStatus
  <2>2. child \in GrMap
    BY DEF GrMap
  <2>3. none \in [RowStatus -> Nat] /\ \A s \in RowStatus : none[s] = 0
    OBVIOUS
  <2>4. \A c \in Children : child[c] = "none"
    OBVIOUS
  <2> HIDE DEF child, none
  <2> QED BY <2>1, <2>2, <2>3, <2>4
<1>3. NewAcc \in GrAcc /\ NewAcc.live = TRUE /\ NewAcc.count = none /\ NewAcc.resolved = 0
  <2>1. NoAcc = [live |-> FALSE, count |-> none, resolved |-> 0]
    BY DEF NoAcc
  <2> HIDE DEF none
  <2>2. NoAcc.count = none /\ NoAcc.resolved = 0 /\ NoAcc \in GrAcc
    BY <2>1, NoAccTyped
  <2> QED BY <2>2 DEF NewAcc, GrAcc
<1> HIDE DEF child, none
<1>5. <<>> \in Seq(0..Other) /\ Len(<<>>) = 0
  OBVIOUS
<1>6. /\ gr \in GrState /\ gr.group = "queued" /\ gr.child = child /\ gr.here = TRUE /\ gr.cached = {} /\ gr.acc = NewAcc
      /\ gr.done = <<>> /\ gr.ghosts = none
  BY <1>1, <1>2, <1>3, <1>5 DEF GrState, GrMap, RowStatus
<1>7. Stored(gr) = {} /\ Live(gr) = {}
  BY <1>2, <1>6 DEF Stored, Live
<1>8. InMemory(gr)
  BY <1>5, <1>6, <1>7 DEF InMemory, DoneOver, Single
<1>9. Counted(gr)
  <2>1. \A s \in RowStatus : Under(Children, child, s) = 0
    <3>1. \A s \in RowStatus : \A c \in Children : child[c] # s
      BY <1>2
    <3> QED BY <3>1, UnderIs
  <2>2. Total(none) = 0
    <3>1. none["queued"] = 0 /\ none["running"] = 0 /\ none["finished"] = 0 /\ none["error"] = 0 /\ none["canceled"] = 0
      BY <1>2 DEF RowStatus
    <3> QED BY <3>1 DEF Total
  <2>3. gr.acc.count = none /\ gr.acc.resolved = 0 /\ gr.child = child /\ gr.ghosts = none
    BY <1>3, <1>6
  <2>4. \A s \in RowStatus : gr.acc.count[s] = Under(Children, gr.child, s) + gr.ghosts[s]
    BY <1>2, <2>1, <2>3
  <2>5. gr.acc.resolved = Total(gr.acc.count)
    BY <2>2, <2>3
  <2> QED BY <2>4, <2>5 DEF Counted
<1>10. Rolled(gr)
  <2>1. RollUp(none) = "queued"
    BY <1>2 DEF RollUp, RowStatus
  <2> QED BY <1>3, <1>6, <2>1 DEF Rolled
<1>11. NextFree /\ grNext \in 0..GrChildren \cup {1}
  BY <1>1, <1>2, <1>6, GrAssumption DEF NextFree
<1> QED BY <1>1, <1>8, <1>9, <1>10, <1>11, NoCmdTyped DEF GroupsInv

LEMMA ExpandNextKeeps ==
  ASSUME GroupsInv, NEW ok \in BOOLEAN, NEW synced \in BOOLEAN, ExpandNext(ok, synced)
  PROVE  GroupsInv' /\ Stays
<1> DEFINE new == [gr EXCEPT !.child = [c \in Children |-> IF c \in Batch THEN "queued" ELSE gr.child[c]],
                             !.cached = @ \cup Batch]
<1>1. InMemory(gr) /\ Counted(gr) /\ gr \in GrState /\ gr.child \in GrMap /\ NextFree /\ grNext \in 0..GrChildren \cup {1} /\ grNext \in Nat
  BY GroupsTypes
<1>2. grCmd' = NoCmd /\ grCmd' \in GrCmd
  BY NoCmdTyped DEF ExpandNext
<1>3. CASE grNext = 0 \/ ~gr.here \/ ~ok
  <2>1. UNCHANGED <<gr, grLoose>> /\ grNext' = 0 /\ grAsked' = FALSE
    BY <1>3 DEF ExpandNext
  <2>2. grAsked' \in BOOLEAN
    BY <2>1
  <2> QED BY <1>2, <2>1, <2>2, SameRows
<1>4. CASE ~(grNext = 0 \/ ~gr.here \/ ~ok)
  <2>1. grNext' = AfterBatch /\ grAsked' = (AfterBatch # 0) /\ RollsUp(Added(new, "queued", Cardinality(Batch)), synced)
    BY <1>4 DEF ExpandNext
  <2>2. PICK ids : ids = Batch
    OBVIOUS
  <2>3. /\ ids \in SUBSET Children /\ \A c \in ids : c >= grNext
        /\ AfterBatch \in 0..GrChildren
        /\ AfterBatch # 0 => \A c \in Children : c >= AfterBatch => c \notin ids /\ c >= grNext
    BY <1>1, <1>4, <2>2, GrAssumption DEF Batch, AfterBatch, Children
  <2>4. \A c \in ids : gr.child[c] \notin RowStatus
    BY <1>1, <1>4, <2>3 DEF NextFree
  <2>5. PICK w : w = Added([gr EXCEPT !.child = Mark(gr, ids, "queued"), !.cached = @ \cup ids], "queued", Cardinality(ids))
    OBVIOUS
  <2>6. RollsUp(w, synced)
    BY <2>1, <2>2, <2>5 DEF Mark
  <2>7. InMemory(w) /\ Counted(w) /\ w.child = Mark(gr, ids, "queued")
    BY <1>1, <2>3, <2>4, <2>5, AddedIs
  <2>8. \A c \in Children : w.child[c] = IF c \in ids THEN "queued" ELSE gr.child[c]
    BY <2>7 DEF Mark
  <2>9. /\ InMemory(gr') /\ Counted(gr') /\ (~grLoose' => Rolled(gr')) /\ grLoose' \in BOOLEAN
        /\ gr'.child = w.child
    BY <2>6, <2>7, RollsUpKeeps, GroupsTypes
  <2>10. NextFree'
    <3> SUFFICES ASSUME AfterBatch # 0, NEW c \in Children, c >= AfterBatch PROVE gr'.child[c] \notin RowStatus
      BY <2>1 DEF NextFree
    <3>1. c \notin ids /\ c >= grNext
      BY <2>3
    <3> QED BY <1>1, <1>4, <2>8, <2>9, <3>1 DEF NextFree
  <2>11. Stays
    BY <2>8, <2>9 DEF Stays
  <2>12. grNext' \in 0..GrChildren \cup {1} /\ grAsked' \in BOOLEAN
    BY <2>1, <2>3
  <2> QED BY <1>2, <2>9, <2>10, <2>11, <2>12 DEF GroupsInv
<1> QED BY <1>3, <1>4

LEMMA StatusIs ==
  /\ "queued" \in RowStatus /\ "running" \in RowStatus /\ "finished" \in RowStatus /\ "error" \in RowStatus /\ "canceled" \in RowStatus
  /\ "queued" \notin Over /\ "running" \notin Over /\ Over = {"finished", "error", "canceled"} /\ Over \subseteq RowStatus /\ "gone" \notin RowStatus
BY DEF RowStatus, Over

LEMMA ChildStartsKeeps ==
  ASSUME GroupsInv, NEW c \in Children, NEW synced \in BOOLEAN, ChildStarts(c, synced)
  PROVE  GroupsInv' /\ Stays
<1>1. /\ gr.child[c] = "queued" /\ c \in gr.cached /\ Writes(c, "running", synced)
      /\ grNext' = grNext /\ grAsked' = grAsked /\ grCmd' = grCmd
  BY DEF ChildStarts
<1>2. grAsked' \in BOOLEAN /\ grCmd' \in GrCmd
  BY <1>1 DEF GroupsInv
<1> QED BY <1>1, <1>2, StatusIs, WrittenStep

LEMMA ChildEndsKeeps ==
  ASSUME GroupsInv, NEW c \in Children, NEW to \in {"queued", "finished", "error"}, NEW synced \in BOOLEAN, ChildEnds(c, to, synced)
  PROVE  GroupsInv' /\ Stays
<1>1. /\ gr.child[c] = "running" /\ c \in gr.cached /\ Writes(c, to, synced)
      /\ grNext' = grNext /\ grAsked' = grAsked /\ grCmd' = grCmd
  BY DEF ChildEnds
<1>2. grAsked' \in BOOLEAN /\ grCmd' \in GrCmd
  BY <1>1 DEF GroupsInv
<1>3. to \in RowStatus /\ gr.child[c] # to /\ gr.child[c] \notin Over
  BY <1>1, StatusIs
<1> QED BY <1>1, <1>2, <1>3, WrittenStep

LEMMA OtherEndsKeeps == ASSUME GroupsInv, OtherEnds PROVE GroupsInv' /\ Stays
<1>1. gr' = MarkDone(gr, Other) /\ UNCHANGED <<grNext, grAsked, grCmd, grLoose>>
  BY DEF OtherEnds
<1>2. Other \in 0..Other /\ Other \notin Children
  BY GrAssumption DEF Other, Children
<1>3. InMemory(gr) /\ Counted(gr) /\ (~grLoose => Rolled(gr))
  BY GroupsTypes
<1>4. PICK w : w = MarkDone(gr, Other)
  OBVIOUS
<1>5. InMemory(w) /\ Like(gr, w)
  BY <1>2, <1>3, <1>4, MarkDoneIs
<1>6. Counted(w) /\ (~grLoose => Rolled(w)) /\ w.child = gr.child
  BY <1>3, <1>5, LikeCounted DEF Like, Rolled
<1>7. Fresh /\ Stays
  BY <1>1, <1>4, <1>6 DEF Fresh, Stays
<1>8. grLoose' \in BOOLEAN /\ grAsked' \in BOOLEAN /\ grCmd' \in GrCmd
  BY <1>1 DEF GroupsInv
<1> QED BY <1>1, <1>4, <1>5, <1>6, <1>7, <1>8, Together

LEMMA DriftKeeps == ASSUME GroupsInv, Drift PROVE GroupsInv' /\ Stays
<1>1. /\ gr.acc.live /\ Cardinality(gr.cached) >= gr.acc.resolved /\ UNCHANGED <<grNext, grAsked, grCmd, grLoose>>
      /\ gr' = [gr EXCEPT !.acc.count = [s \in RowStatus |-> Under(gr.cached, gr.child, s)],
                          !.acc.resolved = Cardinality(gr.cached), !.ghosts = [s \in RowStatus |-> 0]]
  BY DEF Drift
<1>2. InMemory(gr) /\ Counted(gr) /\ (~grLoose => Rolled(gr)) /\ gr.acc.live = TRUE
  BY <1>1, GroupsTypes
<1>3. PICK x, w : x = gr /\ w = gr'
  OBVIOUS
<1>4. /\ InMemory(x) /\ Counted(x) /\ x.acc.live = TRUE /\ Cardinality(x.cached) >= x.acc.resolved
      /\ w = [x EXCEPT !.acc.count = [s \in RowStatus |-> Under(x.cached, x.child, s)],
                       !.acc.resolved = Cardinality(x.cached), !.ghosts = [s \in RowStatus |-> 0]]
  BY <1>1, <1>2, <1>3
<1>5. InMemory(w) /\ Counted(w) /\ w.child = x.child /\ (Rolled(x) => Rolled(w))
  <2>1. InMemory(w) /\ w.child = x.child
    BY <1>4, DriftTyped
  <2>2. CASE Roomy
    BY <1>4, <2>1, <2>2, DriftIs
  <2>3. CASE ~Roomy
    BY <2>1, <2>3 DEF Counted, Rolled
  <2> QED BY <2>2, <2>3
<1>6. Fresh /\ Stays
  BY <1>3, <1>5 DEF Fresh, Stays
<1>7. grLoose' \in BOOLEAN /\ grAsked' \in BOOLEAN /\ grCmd' \in GrCmd
  BY <1>1 DEF GroupsInv
<1> QED BY <1>1, <1>2, <1>3, <1>5, <1>6, <1>7, Together

-----------------------------------------------------------------------------
(* The commands.                                                           *)
LEMMA CmdIs ==
  ASSUME NEW cmd \in GrCmd
  PROVE  /\ cmd.rest \in Seq(Children \cup {Group}) /\ cmd.doomed \subseteq Children \cup {Group}
         /\ cmd.rest # <<>> => Head(cmd.rest) \in Children \cup {Group} /\ Tail(cmd.rest) \in Seq(Children \cup {Group})
<1>1. cmd.rest \in Seq(Children \cup {Group}) /\ cmd.doomed \subseteq Children \cup {Group}
  BY DEF GrCmd
<1>2. PICK S, q : S = Children \cup {Group} /\ q = cmd.rest
  OBVIOUS
<1>3. q \in Seq(S)
  BY <1>1, <1>2
<1>4. q # <<>> => Head(q) \in S /\ Tail(q) \in Seq(S)
  BY <1>3
<1> QED BY <1>1, <1>2, <1>4

LEMMA HandlingIs ==
  ASSUME GroupsInv, NEW ops, NEW t, Handling(ops, t)
  PROVE  grCmd' \in GrCmd /\ grAsked' \in BOOLEAN /\ t \in Children \cup {Group} /\ grCmd.op \in ops
<1>1. grCmd \in GrCmd /\ grAsked \in BOOLEAN
  BY GroupsTypes
<1>2. grCmd.op \in ops /\ grCmd.rest # <<>> /\ t = Head(grCmd.rest) /\ grAsked' = grAsked
  BY DEF Handling
<1>3. PICK tail : tail = Tail(grCmd.rest)
  OBVIOUS
<1>4. tail \in Seq(Children \cup {Group}) /\ t \in Children \cup {Group} /\ grCmd.doomed \subseteq Children \cup {Group}
  BY <1>1, <1>2, <1>3, CmdIs
<1>5. PICK doomed : doomed = IF Found(t) THEN grCmd.doomed \cup {t} ELSE grCmd.doomed
  OBVIOUS
<1>6. doomed \in SUBSET (Children \cup {Group})
  BY <1>4, <1>5
<1>7. [grCmd EXCEPT !.rest = tail, !.doomed = doomed] \in GrCmd /\ [grCmd EXCEPT !.rest = tail] \in GrCmd
  BY <1>1, <1>4, <1>6 DEF GrCmd
<1>8. grCmd' = IF grCmd.op = "delete" THEN [grCmd EXCEPT !.rest = tail, !.doomed = doomed]
               ELSE IF Len(grCmd.rest) = 1 THEN NoCmd ELSE [grCmd EXCEPT !.rest = tail]
  BY <1>1, <1>3, <1>5 DEF Handling, GrCmd
<1> QED BY <1>1, <1>2, <1>4, <1>7, <1>8, NoCmdTyped

LEMMA CommandKeeps ==
  ASSUME GroupsInv, NEW op \in {"cancel", "pause", "retry", "delete"}, NEW id \in Children \cup {Group}, Command(op, id)
  PROVE  GroupsInv' /\ Stays
<1>1. grCmd' = [op |-> op, rest |-> ExpandTargets(id), doomed |-> {}] /\ UNCHANGED <<gr, grNext, grAsked, grLoose>>
  BY DEF Command
<1>2. ExpandTargets(id) \in Seq(Children \cup {Group})
  <2>1. Stored(gr) \subseteq Children /\ Stored(gr) \subseteq 0..GrChildren
    BY GrAssumption DEF Stored, Children
  <2>2. PICK a, S : a = ByAge(Stored(gr)) /\ S = Children \cup {Group}
    OBVIOUS
  <2>3. a \in Seq(S) /\ Group \in S /\ id \in S
    BY <2>1, <2>2, ByAgeIs, SeqWiden
  <2>4. a \o <<Group>> \in Seq(S) /\ <<id>> \in Seq(S)
    BY <2>3
  <2> QED BY <2>2, <2>4 DEF ExpandTargets
<1>3. grCmd' \in GrCmd
  <2>1. {} \in SUBSET (Children \cup {Group})
    OBVIOUS
  <2> QED BY <1>1, <1>2, <2>1 DEF GrCmd
<1>4. grAsked' \in BOOLEAN
  BY <1>1 DEF GroupsInv
<1> QED BY <1>1, <1>3, <1>4, SameRows

LEMMA SkipsKeeps == ASSUME GroupsInv, Skips PROVE GroupsInv' /\ Stays
<1>1. PICK t : t = Head(grCmd.rest)
  OBVIOUS
<1>2. Handling({"cancel", "pause", "retry", "delete"}, t) /\ UNCHANGED <<gr, grNext, grLoose>>
  BY <1>1 DEF Skips
<1> QED BY <1>2, HandlingIs, SameRows

(* Which rows a command works at.                                          *)
LEMMA WorksIs ==
  ASSUME GroupsInv, NEW op, NEW c \in Children, Works(op, c)
  PROVE  /\ op \in {"cancel", "delete"} => c \in gr.cached /\ gr.child[c] \notin Over
         /\ op = "pause" => c \in gr.cached /\ gr.child[c] = "running"
         /\ op = "retry" => gr.child[c] \in {"error", "canceled"}
<1>1. c # Group
  BY DEF Children, Group
<1>2. (c \in gr.cached \/ gr.child[c] \in Over) /\ Found(c)
  BY <1>1 DEF Works, Found
<1>3. /\ op \in {"cancel", "delete"} => gr.child[c] \notin Over
      /\ op = "pause" => gr.child[c] = "running"
      /\ op = "retry" => gr.child[c] \in {"error", "canceled"}
  BY <1>1 DEF Works, StatusOf
<1> QED BY <1>2, <1>3, StatusIs

LEMMA CancelChildKeeps ==
  ASSUME GroupsInv, NEW c \in Children, NEW ok \in BOOLEAN, NEW synced \in BOOLEAN, CancelChild(c, ok, synced)
  PROVE  GroupsInv' /\ Stays
<1>1. Handling({"cancel", "delete"}, c) /\ Works(grCmd.op, c) /\ grNext' = grNext
  BY DEF CancelChild
<1>2. grCmd' \in GrCmd /\ grAsked' \in BOOLEAN /\ grCmd.op \in {"cancel", "delete"}
  BY <1>1, HandlingIs
<1>3. CASE ok
  <2>1. c \in gr.cached /\ gr.child[c] \notin Over /\ gr.child[c] # "canceled"
    BY <1>1, <1>2, WorksIs, StatusIs
  <2>2. Writes(c, "canceled", synced)
    BY <1>3 DEF CancelChild
  <2> QED BY <1>1, <1>2, <2>1, <2>2, StatusIs, WrittenStep
<1>4. CASE ~ok
  <2>1. UNCHANGED <<gr, grLoose>>
    BY <1>4 DEF CancelChild
  <2> QED BY <1>1, <1>2, <2>1, SameRows
<1> QED BY <1>3, <1>4

LEMMA PauseChildKeeps ==
  ASSUME GroupsInv, NEW c \in Children, NEW ok \in BOOLEAN, NEW synced \in BOOLEAN, PauseChild(c, ok, synced)
  PROVE  GroupsInv' /\ Stays
<1>1. Handling({"pause"}, c) /\ Works("pause", c) /\ grNext' = grNext
  BY DEF PauseChild
<1>2. grCmd' \in GrCmd /\ grAsked' \in BOOLEAN
  BY <1>1, HandlingIs
<1>3. CASE ok
  <2>1. c \in gr.cached /\ gr.child[c] \notin Over /\ gr.child[c] # "queued"
    BY <1>1, WorksIs, StatusIs
  <2>2. Writes(c, "queued", synced)
    BY <1>3 DEF PauseChild
  <2> QED BY <1>1, <1>2, <2>1, <2>2, StatusIs, WrittenStep
<1>4. CASE ~ok
  <2>1. UNCHANGED <<gr, grLoose>>
    BY <1>4 DEF PauseChild
  <2> QED BY <1>1, <1>2, <2>1, SameRows
<1> QED BY <1>3, <1>4

LEMMA RetryChildKeeps ==
  ASSUME GroupsInv, NEW c \in Children, NEW ok \in BOOLEAN, NEW synced \in BOOLEAN, RetryChild(c, ok, synced)
  PROVE  GroupsInv' /\ Stays
<1>1. Handling({"retry"}, c) /\ Works("retry", c) /\ grNext' = grNext
  BY DEF RetryChild
<1>2. grCmd' \in GrCmd /\ grAsked' \in BOOLEAN
  BY <1>1, HandlingIs
<1>3. CASE ok
  <2>1. gr.child[c] \in {"error", "canceled"} /\ gr.child[c] \in RowStatus
    BY <1>1, WorksIs, StatusIs
  <2>2. PICK w : w = Retried(gr, c)
    OBVIOUS
  <2>3. RollsUp(w, synced)
    BY <1>3, <2>2 DEF RetryChild
  <2>4. InMemory(gr) /\ Counted(gr) /\ gr.child \in GrMap
    BY GroupsTypes
  <2>5. InMemory(w) /\ Counted(w) /\ w.child = [gr.child EXCEPT ![c] = "queued"]
    BY <2>1, <2>2, <2>4, RetriedIs
  <2>6. \A d \in Children : w.child[d] = IF d = c THEN "queued" ELSE gr.child[d]
    BY <2>4, <2>5 DEF GrMap
  <2>7. \A d \in Children : w.child[d] \in RowStatus => gr.child[d] \in RowStatus
    BY <2>1, <2>6
  <2>8. GroupsInv' /\ gr'.child = w.child
    BY <1>1, <1>2, <2>3, <2>5, <2>7, RolledStep
  <2>9. Stays
    BY <2>6, <2>8 DEF Stays
  <2> QED BY <2>8, <2>9
<1>4. CASE ~ok
  <2>1. UNCHANGED <<gr, grLoose>>
    BY <1>4 DEF RetryChild
  <2> QED BY <1>1, <1>2, <2>1, SameRows
<1> QED BY <1>3, <1>4

(* The group's own row, which no roll-up wrote.                            *)
LEMMA GroupRowIs ==
  ASSUME NEW x, InMemory(x), Counted(x), NEW to \in RowStatus, NEW here \in BOOLEAN, x.here => here
  PROVE  LET y == [x EXCEPT !.group = to, !.here = here] IN
         InMemory(y) /\ Counted(y) /\ y \in GrState /\ y.child = x.child /\ y.done = x.done
<1>1. x \in GrState
  BY DEF InMemory
<1>2. PICK y : y = [x EXCEPT !.group = to, !.here = here]
  OBVIOUS
<1>3. /\ y \in GrState /\ y.child = x.child /\ y.ghosts = x.ghosts /\ y.done = x.done
      /\ y.here = here /\ y.acc = x.acc /\ y.cached = x.cached
  BY <1>1, <1>2 DEF GrState
<1>4. InMemory(y)
  BY <1>3 DEF InMemory, Live, Stored, DoneOver
<1>5. Counted(y)
  BY <1>3 DEF Counted
<1> QED BY <1>2, <1>3, <1>4, <1>5

LEMMA GroupWritten ==
  ASSUME NEW x, InMemory(x), Counted(x), NEW to \in RowStatus
  PROVE  LET y == [x EXCEPT !.group = to] IN InMemory(y) /\ Counted(y) /\ y.child = x.child
<1>1. x \in GrState /\ x.here \in BOOLEAN
  BY DEF InMemory, GrState
<1>2. [x EXCEPT !.group = to] = [x EXCEPT !.group = to, !.here = x.here]
  BY <1>1 DEF GrState
<1>3. PICK here : here = x.here /\ here \in BOOLEAN
  BY <1>1
<1>4. PICK y : y = [x EXCEPT !.group = to, !.here = here]
  OBVIOUS
<1>5. InMemory(y) /\ Counted(y) /\ y.child = x.child
  BY <1>3, <1>4, GroupRowIs
<1> QED BY <1>2, <1>3, <1>4, <1>5

LEMMA GroupCanceled ==
  ASSUME GroupsInv, gr' = MarkDone([gr EXCEPT !.group = "canceled"], Group), grLoose' = TRUE,
         grNext' = 0, grAsked' \in BOOLEAN, grCmd' \in GrCmd
  PROVE  GroupsInv' /\ Stays
<1>1. InMemory(gr) /\ Counted(gr)
  BY GroupsTypes
<1>2. PICK y : y = [gr EXCEPT !.group = "canceled"]
  OBVIOUS
<1>3. InMemory(y) /\ Counted(y) /\ y.child = gr.child
  BY <1>1, <1>2, StatusIs, GroupWritten
<1>4. Group \in 0..Other /\ Group \notin Children
  BY GrAssumption DEF Group, Other, Children
<1>5. PICK w : w = MarkDone(y, Group)
  OBVIOUS
<1>6. InMemory(w) /\ Like(y, w)
  BY <1>3, <1>4, <1>5, MarkDoneIs
<1>7. Counted(w) /\ w.child = gr.child
  BY <1>3, <1>6, LikeCounted DEF Like
<1>8. gr' = w
  BY <1>2, <1>5
<1>9. Fresh /\ Stays
  BY <1>7, <1>8 DEF Fresh, Stays
<1> QED BY <1>6, <1>7, <1>8, <1>9, Together

LEMMA CancelGroupKeeps == ASSUME GroupsInv, NEW ok \in BOOLEAN, CancelGroup(ok) PROVE GroupsInv' /\ Stays
<1>1. Handling({"cancel", "delete"}, Group) /\ grNext' = 0
  BY DEF CancelGroup
<1>2. grCmd' \in GrCmd /\ grAsked' \in BOOLEAN
  BY <1>1, HandlingIs
<1>3. CASE ok
  <2>1. gr' = MarkDone([gr EXCEPT !.group = "canceled"], Group) /\ grLoose' = TRUE
    BY <1>3 DEF CancelGroup
  <2> QED BY <1>1, <1>2, <2>1, GroupCanceled
<1>4. CASE ~ok
  <2>1. UNCHANGED <<gr, grLoose>>
    BY <1>4 DEF CancelGroup
  <2> QED BY <1>1, <1>2, <2>1, SameRows
<1> QED BY <1>3, <1>4

LEMMA PauseGroupKeeps == ASSUME GroupsInv, NEW ok \in BOOLEAN, PauseGroup(ok) PROVE GroupsInv' /\ Stays
<1>1. Handling({"pause"}, Group) /\ grNext' = grNext
  BY DEF PauseGroup
<1>2. grCmd' \in GrCmd /\ grAsked' \in BOOLEAN
  BY <1>1, HandlingIs
<1>3. CASE ok
  <2>1. gr' = [gr EXCEPT !.group = "queued"] /\ grLoose' = TRUE
    BY <1>3 DEF PauseGroup
  <2>2. PICK y : y = [gr EXCEPT !.group = "queued"]
    OBVIOUS
  <2>3. InMemory(y) /\ Counted(y) /\ y.child = gr.child
    BY <2>2, StatusIs, GroupsTypes, GroupWritten
  <2>4. Fresh /\ Stays
    BY <2>1, <2>2, <2>3 DEF Fresh, Stays
  <2> QED BY <1>1, <1>2, <2>1, <2>2, <2>3, <2>4, Together
<1>4. CASE ~ok
  <2>1. UNCHANGED <<gr, grLoose>>
    BY <1>4 DEF PauseGroup
  <2> QED BY <1>1, <1>2, <2>1, SameRows
<1> QED BY <1>3, <1>4

LEMMA RetryGroupKeeps == ASSUME GroupsInv, NEW ok \in BOOLEAN, RetryGroup(ok) PROVE GroupsInv' /\ Stays
<1>1. Handling({"retry"}, Group) /\ grNext' = grNext
  BY DEF RetryGroup
<1>2. grCmd' \in GrCmd /\ grAsked' \in BOOLEAN
  BY <1>1, HandlingIs
<1>3. CASE ok
  <2>1. gr' = WithoutDone([gr EXCEPT !.group = "queued", !.here = TRUE], {Group}) /\ grLoose' = TRUE
    BY <1>3 DEF RetryGroup
  <2>2. PICK y : y = [gr EXCEPT !.group = "queued", !.here = TRUE]
    OBVIOUS
  <2>3. InMemory(y) /\ Counted(y) /\ y \in GrState /\ y.child = gr.child
    BY <2>2, StatusIs, GroupsTypes, GroupRowIs
  <2>4. PICK w : w = WithoutDone(y, {Group})
    OBVIOUS
  <2>5. /\ w \in GrState /\ Listed(w) \subseteq Listed(y) /\ w.child = y.child /\ w.ghosts = y.ghosts
        /\ w.here = y.here /\ w.acc = y.acc /\ w.cached = y.cached
        /\ Single(y.done, Group) => Single(w.done, Group)
    BY <2>3, <2>4, WithoutDoneIs
  <2>6. InMemory(w)
    <3>1. DoneOver(w)
      BY <2>3, <2>5, DoneOverIs DEF InMemory
    <3> QED BY <2>3, <2>5, <3>1 DEF InMemory, Live, Stored
  <2>7. Counted(w)
    BY <2>3, <2>5 DEF Counted
  <2>8. gr' = w
    BY <2>1, <2>2, <2>4
  <2>9. Fresh /\ Stays
    BY <2>3, <2>5, <2>8 DEF Fresh, Stays
  <2> QED BY <1>1, <1>2, <2>1, <2>6, <2>7, <2>8, <2>9, Together
<1>4. CASE ~ok
  <2>1. UNCHANGED <<gr, grLoose>>
    BY <1>4 DEF RetryGroup
  <2> QED BY <1>1, <1>2, <2>1, SameRows
<1> QED BY <1>3, <1>4

LEMMA CancelResolveKeeps == ASSUME GroupsInv, NEW ok \in BOOLEAN, CancelResolve(ok) PROVE GroupsInv' /\ Stays
<1>1. grNext' = 0 /\ UNCHANGED <<grAsked, grCmd>>
  BY DEF CancelResolve
<1>2. grCmd' \in GrCmd /\ grAsked' \in BOOLEAN
  BY <1>1 DEF GroupsInv
<1>3. CASE gr.cached # {}
  <2>1. RollsUp(gr, ok)
    BY <1>3 DEF CancelResolve
  <2>2. InMemory(gr) /\ Counted(gr)
    BY GroupsTypes
  <2>3. GroupsInv' /\ gr'.child = gr.child
    BY <1>1, <1>2, <2>1, <2>2, RolledStep
  <2> QED BY <2>3 DEF Stays
<1>4. CASE gr.cached = {} /\ ok
  <2>1. gr' = MarkDone([gr EXCEPT !.group = "canceled"], Group) /\ grLoose' = TRUE
    BY <1>4 DEF CancelResolve
  <2> QED BY <1>1, <1>2, <2>1, GroupCanceled
<1>5. CASE gr.cached = {} /\ ~ok
  <2>1. UNCHANGED <<gr, grLoose>>
    BY <1>5 DEF CancelResolve
  <2> QED BY <1>1, <1>2, <2>1, SameRows
<1> QED BY <1>3, <1>4, <1>5

LEMMA RemovesKeeps ==
  ASSUME GroupsInv, NEW ids, ids \subseteq Children \cup {Group}, NEW ok \in BOOLEAN, NEW synced \in BOOLEAN,
         Removes(ids, ok, synced), grCmd' \in GrCmd
  PROVE  /\ GroupsInv'
         /\ \A c \in Children : gr'.child[c] = "gone" => gr.child[c] = "gone" \/ c \in ids \/ Group \in ids
<1>1. /\ grNext' = (IF ok /\ Group \in ids THEN 0 ELSE grNext) /\ grAsked' = grAsked
  BY DEF Removes
<1>2. InMemory(gr) /\ Counted(gr) /\ (~grLoose => Rolled(gr)) /\ grLoose \in BOOLEAN /\ grAsked' \in BOOLEAN
      /\ (grNext' = 0 \/ grNext' = grNext)
  BY <1>1, GroupsTypes
<1>3. CASE ~ok
  <2>1. UNCHANGED <<gr, grLoose>>
    BY <1>3 DEF Removes
  <2>2. GroupsInv' /\ Stays
    BY <1>2, <2>1, SameRows
  <2> QED BY <2>2 DEF Stays
<1>4. CASE ok /\ Group \in ids
  <2>1. PICK w : w = RemovedRows(gr, ids)
    OBVIOUS
  <2>2. gr' = w /\ grLoose' = grLoose
    BY <1>4, <2>1 DEF Removes
  <2>3. /\ InMemory(w) /\ Counted(w) /\ Rolled(w)
        /\ \A c \in Children : w.child[c] = IF c \in Stored(gr) THEN "gone" ELSE gr.child[c]
    BY <1>2, <1>4, <2>1, CascadeIs
  <2>4. Fresh
    BY <2>2, <2>3, StatusIs DEF Fresh, Stored
  <2>5. GroupsInv'
    BY <1>2, <2>2, <2>3, <2>4, Together
  <2> QED BY <1>4, <2>5
<1>5. CASE ok /\ Group \notin ids
  <2>1. ids \in SUBSET Children
    BY <1>5
  <2>2. PICK w : w = RemovedRows(gr, ids)
    OBVIOUS
  <2>3. /\ InMemory(w) /\ Counted(w) /\ w.child = Mark(gr, ids, "gone") /\ w.group = gr.group /\ w.here = gr.here
        /\ w.acc.live = gr.acc.live
        /\ ids \cap gr.cached = {} => \A s \in RowStatus : w.acc.count[s] = gr.acc.count[s]
    BY <1>2, <2>1, <2>2, ForgetIs
  <2>4. \A c \in Children : w.child[c] = IF c \in ids THEN "gone" ELSE gr.child[c]
    BY <2>3 DEF Mark
  <2>5. \A c \in Children : w.child[c] \in RowStatus => gr.child[c] \in RowStatus
    BY <2>4, StatusIs
  <2>6. CASE ids \cap gr.cached # {}
    <3>1. RollsUp(w, synced)
      BY <1>5, <2>2, <2>6 DEF Removes
    <3>2. GroupsInv' /\ gr'.child = w.child
      BY <1>2, <2>3, <2>5, <3>1, RolledStep
    <3> QED BY <2>4, <3>2
  <2>7. CASE ids \cap gr.cached = {}
    <3>1. gr' = w /\ grLoose' = grLoose
      BY <1>5, <2>2, <2>7 DEF Removes
    <3>2. RollUp(w.acc.count) = RollUp(gr.acc.count)
      BY <2>3, <2>7, RollUpSame
    <3>3. ~grLoose => Rolled(w)
      BY <1>2, <2>3, <3>2 DEF Rolled
    <3>4. Fresh
      BY <2>5, <3>1 DEF Fresh
    <3>5. GroupsInv'
      BY <1>2, <2>3, <3>1, <3>3, <3>4, Together
    <3> QED BY <2>4, <3>1, <3>5
  <2> QED BY <2>6, <2>7
<1> QED BY <1>3, <1>4, <1>5

LEMMA DeleteRowsKeeps ==
  ASSUME GroupsInv, NEW ok \in BOOLEAN, NEW synced \in BOOLEAN, DeleteRows(ok, synced)
  PROVE  GroupsInv' /\ Spares
<1>1. grCmd.op = "delete" /\ grCmd' = NoCmd /\ Removes(grCmd.doomed, ok, synced)
  BY DEF DeleteRows
<1>2. grCmd.doomed \subseteq Children \cup {Group}
  BY CmdIs, GroupsTypes
<1> QED BY <1>1, <1>2, NoCmdTyped, RemovesKeeps DEF Spares

LEMMA SweepKeeps ==
  ASSUME GroupsInv, NEW ids \in SUBSET Children, NEW ok \in BOOLEAN, NEW synced \in BOOLEAN, Sweep(ids, ok, synced)
  PROVE  GroupsInv' /\ Spares
<1>1. (\A c \in ids : gr.child[c] \in {"finished", "error"}) /\ Removes(ids, ok, synced) /\ grCmd' = grCmd
  BY DEF Sweep
<1>2. grCmd' \in GrCmd /\ ids \subseteq Children \cup {Group} /\ Group \notin ids
  BY <1>1 DEF GroupsInv, Group, Children
<1>3. /\ GroupsInv'
      /\ \A c \in Children : gr'.child[c] = "gone" => gr.child[c] = "gone" \/ c \in ids \/ Group \in ids
  BY <1>1, <1>2, RemovesKeeps
<1> QED BY <1>1, <1>2, <1>3 DEF Spares

(* A group whose roll-up is over has no live child to cascade over.        *)
LEMMA OverSpares ==
  ASSUME Roomy, GroupsInv, gr.group \in Over, gr.acc.live, ~grLoose, NEW c \in Children
  PROVE  gr.child[c] \notin {"queued", "running"}
<1>1. Counted(gr) /\ gr.acc.count \in [RowStatus -> Nat] /\ gr.here /\ Rolled(gr) /\ gr \in GrState
  BY GroupsTypes
<1>2. gr.acc.count["running"] = 0 /\ gr.acc.count["queued"] = 0
  BY <1>1, RollUpIs DEF Rolled
<1>3. \A s \in RowStatus : gr.acc.count[s] = Under(Children, gr.child, s) + gr.ghosts[s] /\ gr.ghosts[s] \in Nat
  BY <1>1, AccIs DEF Counted
<1>4. \A s : Under(Children, gr.child, s) \in Nat
  BY UnderIs
<1>5. Under(Children, gr.child, "running") = 0 /\ Under(Children, gr.child, "queued") = 0
  BY <1>2, <1>3, <1>4, StatusIs
<1> QED BY <1>5, UnderIs

LEMMA ClearKeeps ==
  ASSUME GroupsInv, NEW ok \in BOOLEAN, NEW synced \in BOOLEAN, Clear(ok, synced)
  PROVE  GroupsInv' /\ Spares
<1>1. PICK ids : ids = {id \in Children \cup {Group} : StatusOf(id) \in Over}
  OBVIOUS
<1>2. Removes(ids, ok, synced) /\ grCmd' = grCmd
  BY <1>1 DEF Clear
<1>3. grCmd' \in GrCmd /\ ids \subseteq Children \cup {Group}
  BY <1>1, <1>2 DEF GroupsInv
<1>4. /\ GroupsInv'
      /\ \A c \in Children : gr'.child[c] = "gone" => gr.child[c] = "gone" \/ c \in ids \/ Group \in ids
  BY <1>2, <1>3, RemovesKeeps
<1>5. \A c \in Children : c \in ids => gr.child[c] \notin {"queued", "running"}
  BY <1>1, StatusIs DEF StatusOf, Group, Children
<1>6. Group \in ids => gr.group \in Over
  BY <1>1 DEF StatusOf
<1>7. Spares
  <2> SUFFICES ASSUME Roomy, NEW c \in Children, gr.child[c] \in {"queued", "running"}, gr'.child[c] = "gone"
               PROVE  ~gr.acc.live \/ grLoose
    BY DEF Spares
  <2>1. Group \in ids
    BY <1>4, <1>5
  <2> QED BY <1>6, <2>1, OverSpares
<1> QED BY <1>4, <1>7

LEMMA CommandsKeep ==
  ASSUME GroupsInv, NEW ok \in BOOLEAN, NEW synced \in BOOLEAN, Commands(ok, synced)
  PROVE  GroupsInv' /\ Spares
<1>1. CASE \E c \in Children : CancelChild(c, ok, synced) \/ PauseChild(c, ok, synced) \/ RetryChild(c, ok, synced)
  BY <1>1, CancelChildKeeps, PauseChildKeeps, RetryChildKeeps, StaysSpares
<1>2. CASE DeleteRows(ok, synced)
  BY <1>2, DeleteRowsKeeps
<1>3. CASE CancelGroup(ok) \/ PauseGroup(ok) \/ RetryGroup(ok) \/ Skips
  BY <1>3, CancelGroupKeeps, PauseGroupKeeps, RetryGroupKeeps, SkipsKeeps, StaysSpares
<1> QED BY <1>1, <1>2, <1>3 DEF Commands

LEMMA GroupsStep ==
  ASSUME GroupsInv, [GroupsNext]_grVars
  PROVE  GroupsInv' /\ Spares
<1>1. CASE \E o \in Outcomes :
             \/ ExpandNext(o[1], o[2]) \/ Commands(o[1], o[2])
             \/ \E ids \in SUBSET Children : Sweep(ids, o[1], o[2])
             \/ Clear(o[1], o[2])
             \/ o[1] /\ Jobs(o[2])
             \/ o[2] /\ CancelResolve(o[1])
  <2>1. \A o \in Outcomes : o[1] \in BOOLEAN /\ o[2] \in BOOLEAN
    <3>1. \A o \in Outcomes : o = <<TRUE, TRUE>> \/ o = <<FALSE, TRUE>> \/ o = <<TRUE, FALSE>>
      <4>1. CASE grFaults < GrFaults
        <5>1. Outcomes = {<<TRUE, TRUE>>} \cup {<<FALSE, TRUE>>, <<TRUE, FALSE>>}
          BY <4>1 DEF Outcomes
        <5> QED BY <5>1, Zenon
      <4>2. CASE ~(grFaults < GrFaults)
        <5>1. Outcomes = {<<TRUE, TRUE>>} \cup {}
          BY <4>2 DEF Outcomes
        <5> QED BY <5>1, Zenon
      <4> QED BY <4>1, <4>2
    <3>2. /\ <<TRUE, TRUE>>[1] = TRUE /\ <<TRUE, TRUE>>[2] = TRUE /\ <<FALSE, TRUE>>[1] = FALSE
          /\ <<FALSE, TRUE>>[2] = TRUE /\ <<TRUE, FALSE>>[1] = TRUE /\ <<TRUE, FALSE>>[2] = FALSE
      OBVIOUS
    <3> SUFFICES ASSUME NEW o \in Outcomes PROVE o[1] \in BOOLEAN /\ o[2] \in BOOLEAN
      OBVIOUS
    <3>3. CASE o = <<TRUE, TRUE>>
      BY <3>2, <3>3, Zenon
    <3>4. CASE o = <<FALSE, TRUE>>
      BY <3>2, <3>4, Zenon
    <3>5. CASE o = <<TRUE, FALSE>>
      BY <3>2, <3>5, Zenon
    <3> QED BY <3>1, <3>3, <3>4, <3>5, Zenon
  <2>2. PICK ok \in BOOLEAN, synced \in BOOLEAN :
             \/ ExpandNext(ok, synced) \/ Commands(ok, synced)
             \/ \E ids \in SUBSET Children : Sweep(ids, ok, synced)
             \/ Clear(ok, synced) \/ Jobs(synced) \/ CancelResolve(ok)
    BY <1>1, <2>1
  <2>3. CASE ExpandNext(ok, synced) \/ CancelResolve(ok)
    BY <2>3, ExpandNextKeeps, CancelResolveKeeps, StaysSpares
  <2>4. CASE Commands(ok, synced)
    BY <2>4, CommandsKeep
  <2>5. CASE Clear(ok, synced) \/ \E ids \in SUBSET Children : Sweep(ids, ok, synced)
    BY <2>5, ClearKeeps, SweepKeeps
  <2>6. CASE Jobs(synced)
    BY <2>6, ChildStartsKeeps, ChildEndsKeeps, StaysSpares DEF Jobs
  <2> QED BY <2>2, <2>3, <2>4, <2>5, <2>6
<1>2. CASE OtherEnds \/ Drift
  BY <1>2, OtherEndsKeeps, DriftKeeps, StaysSpares
<1>3. CASE \E op \in {"cancel", "pause", "retry", "delete"}, id \in Children \cup {Group} : Command(op, id)
  BY <1>3, CommandKeeps, StaysSpares
<1>4. CASE \E room \in 0..GrWindow : Recover(room)
  BY <1>4, RecoverKeeps, StaysSpares DEF Stays
<1>5. CASE UNCHANGED grVars
  <2>1. UNCHANGED <<gr, grLoose>> /\ grNext' = grNext /\ grAsked' \in BOOLEAN /\ grCmd' \in GrCmd
    BY <1>5 DEF grVars, GroupsInv
  <2> QED BY <2>1, SameRows, StaysSpares
<1> QED BY <1>1, <1>2, <1>3, <1>4, <1>5 DEF GroupsNext

LEMMA GroupsShow == GroupsInv => GroupsTypeOK /\ (Roomy => GroupsAreTrue)
<1> SUFFICES ASSUME GroupsInv PROVE GroupsTypeOK /\ (Roomy => GroupsAreTrue)
  OBVIOUS
<1>1. GroupsTypeOK
  <2>1. gr \in GrState /\ grCmd \in GrCmd /\ grNext \in 0..GrChildren \cup {1} /\ grAsked \in BOOLEAN
    BY GroupsTypes
  <2>2. /\ grCmd.op \in {"promote", "none", "cancel", "pause", "retry", "delete"}
        /\ grCmd.rest \in Seq(Children \cup {Group}) /\ grCmd.doomed \subseteq Children \cup {Group}
    BY <2>1 DEF GrCmd
  <2> QED BY <2>1, <2>2 DEF GroupsTypeOK, GrState, GrAcc
<1>2. InMemory(gr) /\ Counted(gr) /\ (~grLoose => Rolled(gr))
  BY GroupsTypes
<1>3. PICK tally : tally = Tally(gr.child)
  OBVIOUS
<1>4. \A s \in RowStatus : tally[s] = Under(Children, gr.child, s)
  BY <1>3 DEF Tally
<1>5. Roomy => GroupsMemoryIsTrue
  BY <1>2, <1>3, <1>4 DEF GroupsMemoryIsTrue, InMemory, Counted
<1>6. Roomy => GroupsRollUpIsTrue
  <2>1. PICK count : count = [s \in RowStatus |-> Tally(gr.child)[s] + gr.ghosts[s]]
    OBVIOUS
  <2>2. SUFFICES ASSUME Roomy, gr.acc.live, gr.here, ~grLoose PROVE gr.group = RollUp(count)
    BY <2>1 DEF GroupsRollUpIsTrue
  <2>3. \A s \in RowStatus : count[s] = gr.acc.count[s]
    BY <1>2, <1>3, <1>4, <2>1, <2>2 DEF Counted
  <2>4. RollUp(count) = RollUp(gr.acc.count)
    BY <2>3, RollUpSame
  <2> QED BY <1>2, <2>2, <2>4 DEF Rolled
<1> QED BY <1>1, <1>5, <1>6 DEF GroupsAreTrue

(* The rows of a playlist, what the engine keeps of them in memory and the *)
(* command it works through keep their types.                              *)
THEOREM GroupsTypesHold == GroupsSpec => []GroupsTypeOK
<1>1. GroupsInv => GroupsTypeOK
  BY GroupsShow
<1>2. GroupsInv /\ [GroupsNext]_grVars => GroupsInv'
  BY GroupsStep
<1> QED BY <1>1, <1>2, GroupsStarts, PTL DEF GroupsSpec

(* Whatever order the children of a playlist start, end, are retried,      *)
(* evicted, cleared or deleted in, and across restarts, memory holds the   *)
(* live rows, the accumulator counts the stored ones, and the row of the   *)
(* group says what they add up to: where the done window has room for a    *)
(* child beside the group.                                                 *)
THEOREM GroupsStayTrue ==
  ASSUME GrWindow > 1
  PROVE  GroupsSpec => [][GroupsAreTrue']_grVars
<1>1. GroupsInv => GroupsAreTrue
  BY GroupsShow DEF Roomy
<1>2. GroupsInv /\ [GroupsNext]_grVars => GroupsInv'
  BY GroupsStep
<1>3. GroupsInv /\ [GroupsNext]_grVars => [GroupsAreTrue']_grVars
  BY <1>1, <1>2, PTL
<1> QED BY <1>2, <1>3, GroupsStarts, PTL DEF GroupsSpec

(* A child that is queued or running goes by a delete alone: no clear and  *)
(* no sweep cascades over it while the group is in memory and its row was  *)
(* written by its roll-up, in a window of that size.                       *)
THEOREM GroupsSpareLive ==
  ASSUME GrWindow > 1
  PROVE  GroupsSpec => GroupsSparesLive
<1>1. GroupsInv /\ [GroupsNext]_grVars => GroupsInv'
  BY GroupsStep
<1>2. GroupsInv /\ [GroupsNext]_grVars
        => [\A c \in Children :
              gr.child[c] \in {"queued", "running"} /\ gr'.child[c] = "gone"
                => grCmd.op = "delete" \/ ~gr.acc.live \/ grLoose]_grVars
  BY GroupsStep DEF Spares, Roomy
<1> QED BY <1>1, <1>2, GroupsStarts, PTL DEF GroupsSpec, GroupsSparesLive

-----------------------------------------------------------------------------
(* How far the main function is: before the tasks are spawned, and behind  *)
(* each of its waits.                                                      *)
EarlyBoot  == {"dirs", "store", "probes", "recovery"}
PastServe  == {"engine", "drain", "tracker", "close", "exit"}
PastEngine == {"drain", "tracker", "close", "exit"}
PastDrain  == {"tracker", "close", "exit"}
PastWaits  == {"close", "exit"}
Stopping   == {"grace", "command", "serve", "engine", "drain", "tracker"}

(* What the boot and the shutdown have set up or taken down so far.        *)
SpawnedSoFar ==
  /\ sdStep \in EarlyBoot \cup {"unwind"} => \A t \in SdTask \ {"signal", "pot"} : sdTask[t] = "none"
  /\ sdStep \in {"dirs", "store", "probes"} => sdTask["pot"] = "none"
  /\ sdStep \in EarlyBoot \cup {"bind"} => sdTask["served"] = "none" /\ ~sdAsked
  /\ sdStep = "bind" => sdTask["manager"] # "none"
  /\ sdTask["manager"] = "none" => sdTask["session"] = "none" /\ sdTask["served"] = "none" /\ sdTask["health"] = "none"
  /\ sdStep \in EarlyBoot \cup {"unwind"} /\ "http" \in sdCut => sdTask["signal"] = "over"
HeldSoFar ==
  /\ sdStep \in {"bind", "serving", "grace", "command", "serve"} => sdHeld = Channel
  /\ sdStep \in EarlyBoot \cup {"unwind"} \cup PastServe => sdHeld = {}
  /\ sdTask["manager"] = "over" => ~Held("subs")
CutSoFar ==
  /\ sdStep \in Stopping \cup {"unwind"} => "http" \in sdCut
  /\ sdStep \in Stopping \ {"grace"} => sdAsked
  /\ sdStep \in {"serve", "engine", "drain", "tracker"} => "jobs" \in sdCut
  /\ sdStep = "tracker" => "pot" \in sdCut
  /\ sdStep = "unwind" /\ Runs("pot") => "pot" \in sdCut
OverSoFar ==
  /\ sdStep \in PastServe => ~Runs("served")
  /\ sdStep \in PastEngine => ~Runs("engine")
  /\ sdStep \in PastDrain /\ ~Kept => \A t \in Consumers : ~Runs(t)
  /\ sdStep \in PastWaits => ~Runs("pot")
  /\ sdStep \in PastWaits /\ ~Kept => ~Runs("manager") /\ ~Runs("watchers")
RowSoFar ==
  /\ sdSlow \subseteq {"engine", "job", "dispatcher", "served"}
  /\ sdStep = "exit" \/ sdStore # "closed"
  /\ sdRow = "downloading" => Runs("engine") \/ sdPanic # "no" \/ "engine" \in sdSlow

(* The strengthening of ShutdownIsOrderly.                                 *)
ShutdownInv ==
  ShutdownTypeOK /\ SpawnedSoFar /\ HeldSoFar /\ CutSoFar /\ OverSoFar /\ RowSoFar /\ ShutdownIsOrderly

LEMMA ShutdownStarts == ShutdownInit => ShutdownInv
BY DEF ShutdownInit, ShutdownInv, ShutdownTypeOK, SpawnedSoFar, HeldSoFar, CutSoFar, OverSoFar,
    RowSoFar,
       ShutdownIsOrderly, Kept, Runs, Held, EarlyBoot, PastServe, PastEngine, PastDrain, PastWaits, Stopping,
       SdStep, BootStep, SdTask, Tracked, Consumers, Channel, Ceiling, Optional

(* A task other than the engine returns, and nothing else happens but that *)
(* a job may leave its row finished or queued.                             *)
LEMMA TasksEnd ==
  ASSUME ShutdownInv, NEW t \in SdTask, Runs(t), sdStep # "exit",
         sdTask' = [sdTask EXCEPT ![t] = "over"],
         UNCHANGED <<sdOn, sdSlow, sdStep, sdCut, sdHeld, sdAsked, sdStore, sdPanic, sdSpent, sdCode>>,
         t = "manager" => ~Held("subs"),
         t = "engine" => FALSE,
         sdRow' \in {"queued", "downloading", "finished"},
         sdRow' = "downloading" => sdRow = "downloading"
  PROVE  ShutdownInv'
<1> USE DEF ShutdownInv
<1>0. sdTask' \in [SdTask -> {"none", "runs", "over"}] /\ \A u \in SdTask : sdTask'[u] = IF u = t THEN "over" ELSE sdTask[u]
  BY DEF ShutdownTypeOK
<1>a. \A u \in SdTask : Runs(u)' <=> Runs(u) /\ u # t BY <1>0 DEF Runs
<1>b. \A c \in Channel : Held(c)' => Held(c) BY <1>a DEF Held
<1>1. ShutdownTypeOK' BY <1>0 DEF ShutdownTypeOK
<1>2. SpawnedSoFar' BY <1>0 DEF SpawnedSoFar, Runs, SdTask, Tracked, Consumers
<1>3. HeldSoFar' BY <1>0, <1>a, <1>b DEF HeldSoFar, Channel, SdTask, Tracked
<1>4. CutSoFar' BY <1>a DEF CutSoFar, SdTask, Tracked
<1>5. OverSoFar' BY <1>a DEF OverSoFar, Kept, SdTask, Tracked, Consumers
<1>6. RowSoFar' BY <1>a DEF RowSoFar, SdTask
<1>7. ShutdownIsOrderly' BY <1>a DEF ShutdownIsOrderly, Kept, Writers, RowSoFar, MayKeep
<1> QED BY <1>1, <1>2, <1>3, <1>4, <1>5, <1>6, <1>7

(* A download ends, or a session closes.                                   *)
LEMMA TaskStepsKeep == ASSUME ShutdownInv, JobEnds \/ SessionLeaves PROVE ShutdownInv'
<1>1. CASE JobEnds
  BY <1>1, TasksEnd DEF JobEnds, SdTask, Tracked, Consumers, ShutdownInv, ShutdownTypeOK
<1>2. CASE SessionLeaves
  BY <1>2, TasksEnd DEF SessionLeaves, SdTask, Tracked, Consumers, ShutdownInv, ShutdownTypeOK
<1> QED BY <1>1, <1>2

(* The task that waits for a signal hears one, and the server is told.     *)
LEMMA SignalComesKeeps == ASSUME ShutdownInv, SignalComes PROVE ShutdownInv'
<1> USE DEF ShutdownInv, SignalComes
<1>0. sdTask' \in [SdTask -> {"none", "runs", "over"}]
      /\ \A u \in SdTask : sdTask'[u] = IF u = "signal" THEN "over" ELSE sdTask[u]
  BY DEF ShutdownTypeOK
<1>a. \A u \in SdTask : Runs(u)' <=> Runs(u) /\ u # "signal" BY <1>0 DEF Runs
<1>b. \A c \in Channel : Held(c)' => Held(c) BY <1>a DEF Held
<1>1. ShutdownTypeOK' BY <1>0 DEF ShutdownTypeOK
<1>2. SpawnedSoFar' BY <1>0 DEF SpawnedSoFar, Runs, SdTask, Tracked, Consumers
<1>3. HeldSoFar' BY <1>0, <1>a, <1>b DEF HeldSoFar, Channel, SdTask, Tracked
<1>4. CutSoFar' BY <1>a DEF CutSoFar, SdTask, Tracked
<1>5. OverSoFar' BY <1>a DEF OverSoFar, Kept, SdTask, Tracked, Consumers
<1>6. RowSoFar' BY <1>a DEF RowSoFar, SdTask
<1>7. ShutdownIsOrderly' BY <1>a DEF ShutdownIsOrderly, Kept, Writers, RowSoFar, MayKeep
<1> QED BY <1>1, <1>2, <1>3, <1>4, <1>5, <1>6, <1>7

(* The engine's two ends: a panic, which the row's status survives, and    *)
(* the answer to Shutdown, which hands the row over.                       *)
LEMMA EngineEndsKeeps == ASSUME ShutdownInv, EngineDies \/ EngineAnswers PROVE ShutdownInv'
<1> USE DEF ShutdownInv
<1>0. /\ sdTask' \in [SdTask -> {"none", "runs", "over"}] /\ Runs("engine")
      /\ \A u \in SdTask : sdTask'[u] = IF u = "engine" THEN "over" ELSE sdTask[u]
  BY DEF ShutdownTypeOK, EngineDies, EngineAnswers
<1>a. \A u \in SdTask : Runs(u)' <=> Runs(u) /\ u # "engine" BY <1>0 DEF Runs
<1>b. \A c \in Channel : Held(c)' => Held(c)
  BY <1>a DEF Held, EngineDies, EngineAnswers
<1>1. ShutdownTypeOK' BY <1>0 DEF ShutdownTypeOK, EngineDies, EngineAnswers, RowHandedOver
<1>2. SpawnedSoFar'
  BY <1>0 DEF SpawnedSoFar, Runs, SdTask, Tracked, Consumers, EngineDies, EngineAnswers
<1>3. HeldSoFar' BY <1>0, <1>a, <1>b DEF HeldSoFar, Channel, SdTask, Tracked, EngineDies, EngineAnswers
<1>4. CutSoFar' BY <1>a DEF CutSoFar, SdTask, Tracked, EngineDies, EngineAnswers
<1>5. OverSoFar' BY <1>a DEF OverSoFar, Kept, SdTask, Tracked, Consumers, EngineDies, EngineAnswers
<1>6. RowSoFar' BY <1>a DEF RowSoFar, SdTask, EngineDies, EngineAnswers, RowHandedOver
<1>7. ShutdownIsOrderly'
  BY <1>a DEF ShutdownIsOrderly, Kept, Writers, RowSoFar, MayKeep, EngineDies, EngineAnswers
<1> QED BY <1>1, <1>2, <1>3, <1>4, <1>5, <1>6, <1>7

(* A job needs a running engine, a session a running listener: neither     *)
(* comes behind the main function's wait for them.                         *)
LEMMA BeginningsKeep == ASSUME ShutdownInv, JobStarts \/ SessionOpens PROVE ShutdownInv'
<1> USE DEF ShutdownInv
<1>1. PICK t \in {"job", "session"} :
        /\ sdTask' = [sdTask EXCEPT ![t] = "runs"]
        /\ t = "session" => Runs("served")
        /\ t = "job" => Runs("engine")
        /\ t = "session" => sdRow' = sdRow
        /\ sdRow' \in {sdRow, "downloading"}
        /\ UNCHANGED <<sdOn, sdSlow, sdStep, sdCut, sdHeld, sdAsked, sdStore, sdPanic, sdSpent, sdCode>>
  BY DEF JobStarts, SessionOpens
<1>2. /\ sdTask' \in [SdTask -> {"none", "runs", "over"}]
      /\ \A u \in SdTask : sdTask'[u] = IF u = t THEN "runs" ELSE sdTask[u]
  BY <1>1 DEF ShutdownTypeOK
<1>3. \A u \in SdTask : Runs(u)' <=> Runs(u) \/ u = t BY <1>2 DEF Runs
<1>4. sdStep # "exit" BY <1>1 DEF OverSoFar, PastServe, PastEngine
<1>5. Held("subs")' => Held("subs")
  BY <1>1, <1>3 DEF Held, Holds, SdTask, Consumers, Tracked
<1>6. ShutdownTypeOK' BY <1>1, <1>2 DEF ShutdownTypeOK
<1>7. SpawnedSoFar'
  BY <1>1, <1>2 DEF SpawnedSoFar, Runs, SdTask, Tracked, Consumers, EarlyBoot
<1>8. HeldSoFar' BY <1>1, <1>2, <1>5 DEF HeldSoFar, SdTask, Tracked
<1>9. CutSoFar' BY <1>1, <1>3 DEF CutSoFar, SdTask, Tracked
<1>10. OverSoFar' BY <1>1, <1>3 DEF OverSoFar, Kept, SdTask, Tracked, Consumers
<1>11. RowSoFar' BY <1>1, <1>3 DEF RowSoFar, SdTask
<1>12. ShutdownIsOrderly' BY <1>1, <1>4 DEF ShutdownIsOrderly, Kept, RowSoFar, MayKeep
<1> QED BY <1>6, <1>7, <1>8, <1>9, <1>10, <1>11, <1>12

(* A task that is told returns; the one that watches the engine may stop   *)
(* the server as it does.                                                  *)
LEMMA TaskEndsKeeps == ASSUME ShutdownInv, NEW t \in SdTask, TaskEnds(t) PROVE ShutdownInv'
<1> USE DEF ShutdownInv, TaskEnds
<1>0. /\ sdTask' \in [SdTask -> {"none", "runs", "over"}] /\ Runs(t) /\ t # "engine" /\ sdStep # "exit"
      /\ \A u \in SdTask : sdTask'[u] = IF u = t THEN "over" ELSE sdTask[u]
  BY DEF ShutdownTypeOK, Ends
<1>a. \A u \in SdTask : Runs(u)' <=> Runs(u) /\ u # t BY <1>0 DEF Runs
<1>b. \A c \in Channel : Held(c)' => Held(c) BY <1>a DEF Held
<1>c. sdCut \subseteq sdCut' /\ sdCut' \subseteq sdCut \cup {"http"} OBVIOUS
<1>d. sdPanic' \in {sdPanic, "seen"} /\ (sdPanic' # "no" <=> sdPanic # "no") BY DEF PanicIsSeen
<1>e. t = "manager" => ~Held("subs") BY DEF Ends, Told
<1>f. "http" \in sdCut' \ sdCut => sdStep \notin EarlyBoot \cup {"unwind"}
  BY <1>0 DEF SpawnedSoFar, SdTask, Tracked, Runs
<1>1. ShutdownTypeOK' BY <1>0, <1>c, <1>d DEF ShutdownTypeOK
<1>2. SpawnedSoFar' BY <1>0, <1>c, <1>f DEF SpawnedSoFar, Runs, SdTask, Tracked, Consumers
<1>3. HeldSoFar' BY <1>0, <1>a, <1>b, <1>e DEF HeldSoFar, Channel, SdTask, Tracked
<1>4. CutSoFar' BY <1>a, <1>c DEF CutSoFar, SdTask, Tracked
<1>5. OverSoFar' BY <1>a DEF OverSoFar, Kept, SdTask, Tracked, Consumers
<1>6. RowSoFar' BY <1>0, <1>a, <1>d DEF RowSoFar, SdTask
<1>7. ShutdownIsOrderly' BY <1>0 DEF ShutdownIsOrderly, Kept, RowSoFar, MayKeep
<1> QED BY <1>1, <1>2, <1>3, <1>4, <1>5, <1>6, <1>7

(* The boot.  A cancelled boot that unwinds has spawned the sidecar at     *)
(* most, and then told it to end.                                          *)
LEMMA BootKeeps == ASSUME ShutdownInv, BootSteps PROVE ShutdownInv'
<1> USE DEF ShutdownInv
<1>0. /\ sdStep \in BootStep
      /\ UNCHANGED <<sdOn, sdSlow, sdAsked, sdRow, sdPanic, sdSpent, sdCode>>
      /\ sdStore' = Opened(sdStep) /\ sdHeld' = IF sdStep' = "bind" THEN Channel ELSE sdHeld
  BY DEF BootSteps
<1>t. /\ sdStore = "closed" <=> sdStore' = "closed" 
      /\ sdStore' \in {"none", "open", "closed"}
  BY <1>0 DEF Opened, RowSoFar, ShutdownTypeOK, BootStep
<1>1. CASE /\ "http" \notin sdCut
           /\ sdTask' = Started(sdStep) /\ sdStep' = NextStep(sdStep) /\ UNCHANGED sdCut
  <2>0. /\ sdTask' \in [SdTask -> {"none", "runs", "over"}]
        /\ \A u \in SdTask : sdTask'[u] = IF u \in TurnedOn(Spawned(sdStep)) THEN "runs" ELSE sdTask[u]
    BY <1>1 DEF Started, ShutdownTypeOK
  <2>a. /\ sdStep = "dirs" => sdStep' = "store" /\ TurnedOn(Spawned(sdStep)) = {}
        /\ sdStep = "store" => sdStep' = "probes" /\ TurnedOn(Spawned(sdStep)) = {}
        /\ sdStep = "probes" => sdStep' = "recovery" /\ TurnedOn(Spawned(sdStep)) \subseteq {"pot"}
        /\ sdStep = "recovery" => 
             /\ sdStep' = "bind" /\ TurnedOn(Spawned(sdStep)) \subseteq SdTask \ {"signal", "pot", "served", "job", "session"}
             /\ {"manager", "health", "engine"} \subseteq TurnedOn(Spawned(sdStep))
        /\ sdStep = "bind" => sdStep' = "serving" /\ TurnedOn(Spawned(sdStep)) = {"served"}
    BY <1>0, <1>1 DEF NextStep, BootStep, TurnedOn, Spawned, Optional, SdTask, Tracked, Consumers
  <2>1. ShutdownTypeOK' BY <1>0, <1>1, <1>t, <2>0, <2>a DEF ShutdownTypeOK, BootStep, SdStep, Channel
  <2>2. SpawnedSoFar'
    BY <1>0, <1>1, <2>0, <2>a DEF SpawnedSoFar, SdTask, Tracked, Consumers, EarlyBoot, BootStep
  <2>3. HeldSoFar'
    BY <1>0, <1>1, <2>0, <2>a DEF HeldSoFar, SpawnedSoFar, Held, Holds, Runs, SdTask, Tracked,
        Consumers, EarlyBoot, BootStep,
       PastServe, Channel
  <2>4. CutSoFar' BY <1>0, <1>1, <2>a DEF CutSoFar, BootStep, Stopping
  <2>5. OverSoFar' BY <1>0, <2>a DEF OverSoFar, BootStep, PastServe, PastEngine, PastDrain, PastWaits
  <2>6. RowSoFar' BY <1>0, <1>t, <2>0, <2>a DEF RowSoFar, BootStep, Runs, SdTask
  <2>7. ShutdownIsOrderly' BY <1>0, <1>t, <2>a DEF ShutdownIsOrderly, RowSoFar, BootStep, Kept, MayKeep
  <2> QED BY <2>1, <2>2, <2>3, <2>4, <2>5, <2>6, <2>7
<1>2. CASE /\ "http" \in sdCut /\ sdStep # "bind"
           /\ sdCut' = sdCut \cup BootCuts(sdStep) /\ sdStep' = "unwind" /\ UNCHANGED sdTask
  <2>a. sdStep \in EarlyBoot BY <1>0, <1>2 DEF EarlyBoot, BootStep
  <2>b. sdCut' = IF sdStep = "recovery" THEN sdCut \cup {"pot"} ELSE sdCut BY <1>2 DEF BootCuts
  <2>1. ShutdownTypeOK' BY <1>0, <1>2, <1>t, <2>b DEF ShutdownTypeOK, SdStep, Ceiling
  <2>2. SpawnedSoFar' BY <1>0, <1>2, <2>a, <2>b DEF SpawnedSoFar, EarlyBoot
  <2>3. HeldSoFar' BY <1>0, <1>2, <2>a DEF HeldSoFar, Held, Runs, EarlyBoot, PastServe
  <2>4. CutSoFar' BY <1>0, <1>2, <2>a, <2>b DEF CutSoFar, SpawnedSoFar, Runs, EarlyBoot, Stopping
  <2>5. OverSoFar' BY <1>2 DEF OverSoFar, PastServe, PastEngine, PastDrain, PastWaits
  <2>6. RowSoFar' BY <1>0, <1>t, <1>2 DEF RowSoFar, Runs, BootStep
  <2>7. ShutdownIsOrderly' BY <1>0, <1>t, <1>2 DEF ShutdownIsOrderly, RowSoFar, BootStep, Kept, MayKeep
  <2> QED BY <2>1, <2>2, <2>3, <2>4, <2>5, <2>6, <2>7
<1>3. CASE /\ "http" \in sdCut /\ sdStep = "bind"
           /\ sdStep' = "serving" /\ UNCHANGED <<sdTask, sdCut>>
  <2>1. ShutdownTypeOK' BY <1>0, <1>3, <1>t DEF ShutdownTypeOK, SdStep
  <2>2. SpawnedSoFar' BY <1>0, <1>3 DEF SpawnedSoFar, EarlyBoot
  <2>3. HeldSoFar' BY <1>0, <1>3 DEF HeldSoFar, Held, Runs, EarlyBoot, PastServe
  <2>4. CutSoFar' BY <1>0, <1>3 DEF CutSoFar, Stopping
  <2>5. OverSoFar' BY <1>3 DEF OverSoFar, PastServe, PastEngine, PastDrain, PastWaits
  <2>6. RowSoFar' BY <1>0, <1>t, <1>3 DEF RowSoFar, Runs, BootStep
  <2>7. ShutdownIsOrderly' BY <1>0, <1>t, <1>3 DEF ShutdownIsOrderly, RowSoFar, BootStep, Kept, MayKeep
  <2> QED BY <2>1, <2>2, <2>3, <2>4, <2>5, <2>6, <2>7
<1> QED BY <1>1, <1>2, <1>3 DEF BootSteps

(* The server stops serving, and asks the engine to end.                   *)
LEMMA StopKeeps == ASSUME ShutdownInv, ServingEnds \/ GraceEnds PROVE ShutdownInv'
<1> USE DEF ShutdownInv
<1>0. /\ \/ sdStep = "serving" /\ "http" \in sdCut /\ sdStep' = "grace" /\ sdAsked' = sdAsked
         \/ sdStep = "grace" /\ sdStep' = "command" /\ sdAsked' = TRUE
      /\ UNCHANGED <<sdOn, sdSlow, sdTask, sdCut, sdHeld, sdStore, sdRow, sdPanic, sdSpent, sdCode>>
  BY DEF ServingEnds, GraceEnds
<1>1. ShutdownTypeOK' BY <1>0 DEF ShutdownTypeOK, SdStep, Ceiling
<1>2. SpawnedSoFar' BY <1>0 DEF SpawnedSoFar, EarlyBoot
<1>3. HeldSoFar' BY <1>0 DEF HeldSoFar, Held, Runs, EarlyBoot, PastServe
<1>4. CutSoFar' BY <1>0 DEF CutSoFar, Stopping, Runs
<1>5. OverSoFar' BY <1>0 DEF OverSoFar, PastServe, PastEngine, PastDrain, PastWaits
<1>6. RowSoFar' BY <1>0 DEF RowSoFar, Runs
<1>7. ShutdownIsOrderly' BY <1>0 DEF ShutdownIsOrderly, RowSoFar, Kept, MayKeep
<1> QED BY <1>1, <1>2, <1>3, <1>4, <1>5, <1>6, <1>7

(* The store is closed, behind every wait.                                 *)
LEMMA StoreClosesKeeps == ASSUME ShutdownInv, StoreCloses PROVE ShutdownInv'
<1> USE DEF ShutdownInv, StoreCloses
<1>1. ShutdownTypeOK' BY DEF ShutdownTypeOK, SdStep
<1>2. SpawnedSoFar' BY DEF SpawnedSoFar, EarlyBoot
<1>3. HeldSoFar' BY DEF HeldSoFar, Held, Runs, EarlyBoot, PastServe
<1>4. CutSoFar' BY DEF CutSoFar, Stopping, Runs
<1>5. OverSoFar' BY DEF OverSoFar, PastServe, PastEngine, PastDrain, PastWaits, Runs, Kept
<1>6. RowSoFar' BY DEF RowSoFar, Runs
<1>7. ~Kept => ~Runs("session")
  BY DEF HeldSoFar, OverSoFar, SpawnedSoFar, ShutdownTypeOK, Held, Holds, Runs, PastWaits, SdTask,
      Tracked
<1>8. ~Kept => \A t \in Writers : ~Runs(t)
  BY <1>7 DEF OverSoFar, Writers, PastServe, PastEngine, PastDrain, PastWaits, Consumers
<1>9. ShutdownIsOrderly'
  BY <1>8 DEF ShutdownIsOrderly, RowSoFar, OverSoFar, PastEngine, PastWaits, Kept, MayKeep, Runs,
      ShutdownTypeOK
<1> QED BY <1>1, <1>2, <1>3, <1>4, <1>5, <1>6, <1>9

(* Why a wait can last until its ceiling.  What the main function waits    *)
(* for is told by then, or it waits for a channel that a session keeps     *)
(* open, for a slow task, for the sidecar before its time, or for a signal.*)
LEMMA WaitsEnd ==
  ASSUME ShutdownInv, sdStep \in Ceiling, Quiet, NEW t \in AwaitedAt(sdStep), Runs(t)
  PROVE  {u \in SdTask : Runs(u)} \cap MayKeep(sdStep) # {}
<1> USE DEF ShutdownInv
<1>q. \A u \in SdTask : Runs(u) /\ Told(u) => u \in sdSlow BY DEF Quiet, Ends
<1>r. sdSlow \subseteq {"engine", "job", "dispatcher", "served"} BY DEF RowSoFar
<1>t. t \in SdTask BY DEF AwaitedAt, SdTask, Ceiling
<1> DEFINE late == sdStep \in {"drain", "tracker"}
<1>s. late => sdHeld = {} /\ ~Runs("engine") /\ ~Runs("served") /\ "http" \in sdCut /\ "jobs" \in sdCut
  BY DEF HeldSoFar, OverSoFar, CutSoFar, PastServe, PastEngine, Stopping
<1>w. late => ~Runs("watchers") /\ ~Runs("health")
  BY <1>q, <1>r, <1>s DEF Told, SdTask, Tracked
<1>j. late /\ Runs("job") => "job" \in sdSlow BY <1>q, <1>s DEF Told, SdTask
<1>m. late /\ Runs("manager") => Runs("session")
  BY <1>q, <1>r, <1>s, <1>w DEF Told, Held, Holds, SdTask, Tracked, Consumers
<1>e. late /\ Runs("router") => Runs("session") \/ Runs("pot")
  BY <1>q, <1>r, <1>s, <1>w, <1>m DEF Told, Held, Holds, SdTask, Tracked, Consumers
<1>d. late /\ Runs("dispatcher") => Runs("router") \/ "dispatcher" \in sdSlow
  BY <1>q DEF Told, SdTask, Consumers
<1>n. late /\ Runs("notifiers") => Runs("router")
  BY <1>q, <1>r DEF Told, SdTask, Consumers
<1>a. late /\ Runs("aggregator") => Runs("router") \/ Runs("job") \/ Runs("dispatcher")
  BY <1>q, <1>r, <1>s, <1>w DEF Told, Held, Holds, SdTask, Tracked, Consumers
<1> HIDE DEF late
<1>1. CASE sdStep \in {"command", "engine"}
  BY <1>1, <1>q, <1>t DEF AwaitedAt, Told, MayKeep, CutSoFar, Stopping
<1>2. CASE sdStep = "serve"
  BY <1>2, <1>q, <1>t DEF AwaitedAt, Told, MayKeep, CutSoFar, Stopping
<1>3. CASE sdStep = "drain"
  <2>1. late /\ t \in Consumers BY <1>3 DEF late, AwaitedAt
  <2>2. \E u \in {"pot", "session"} \cup (sdSlow \cap {"job", "dispatcher"}) : Runs(u)
    BY <2>1, <1>e, <1>d, <1>n, <1>a, <1>j DEF Consumers
  <2> QED BY <2>2, <1>3 DEF MayKeep, SdTask, Tracked, Consumers
<1>4. CASE sdStep = "tracker"
  <2>1. late /\ t \in Tracked BY <1>4 DEF late, AwaitedAt
  <2>2. ~Runs("pot") /\ ~Runs("panics")
    BY <1>4, <2>1, <1>q, <1>r, <1>s DEF Told, SdTask, Tracked, CutSoFar
  <2>3. Runs("signal") \/ Runs("session")
    BY <2>1, <2>2, <1>m, <1>e, <1>w DEF Tracked
  <2> QED BY <2>3, <1>4 DEF MayKeep, SdTask, Tracked
<1>5. CASE sdStep = "unwind"
  <2>1. t \in {"signal", "pot"} BY <1>5, <1>t DEF SpawnedSoFar, Runs
  <2>2. "http" \in sdCut /\ sdTask["signal"] = "over" BY <1>5 DEF CutSoFar, SpawnedSoFar
  <2>3. Runs("pot") BY <2>1, <2>2 DEF Runs
  <2>4. Told("pot") BY <1>5, <2>3 DEF Told, CutSoFar
  <2> QED BY <2>3, <2>4, <1>q, <1>r DEF SdTask, Tracked
<1> QED BY <1>1, <1>2, <1>3, <1>4, <1>5 DEF Ceiling

(* A wait of the main function is over, or its ceiling is reached.         *)
LEMMA WaitsKeep == ASSUME ShutdownInv, MainWaits PROVE ShutdownInv'
<1> USE DEF ShutdownInv
<1>0. /\ sdStep \in Ceiling /\ sdStep' = Then(sdStep)
      /\ sdCut' = sdCut \cup Cuts(sdStep) /\ sdHeld' = sdHeld \ Dropped(sdStep)
      /\ UNCHANGED <<sdOn, sdSlow, sdAsked, sdStore, sdRow, sdPanic, sdCode>>
  BY DEF MainWaits
<1>a. /\ sdTask' \in [SdTask -> {"none", "runs", "over"}] /\ sdSpent' \in [Ceiling -> SUBSET SdTask]
      /\ \A u \in SdTask : sdTask'[u] = IF u \in Aborted(sdStep) /\ Runs(u) THEN "over" ELSE sdTask[u]
      /\ \A c \in Ceiling \ {sdStep} : sdSpent'[c] = sdSpent[c]
      /\ \/ sdSpent' = sdSpent /\ \A u \in AwaitedAt(sdStep) : ~Runs(u)
         \/ /\ Quiet /\ \E u \in AwaitedAt(sdStep) : Runs(u)
            /\ sdSpent'[sdStep] = {u \in SdTask : Runs(u)}
  <2>1. CASE (\A u \in AwaitedAt(sdStep) : ~Runs(u)) /\ UNCHANGED <<sdTask, sdSpent>>
    BY <2>1 DEF ShutdownTypeOK, Aborted
  <2>2. CASE /\ Quiet /\ \E u \in AwaitedAt(sdStep) : Runs(u)
             /\ sdSpent' = [sdSpent EXCEPT ![sdStep] = {u \in SdTask : Runs(u)}]
             /\ sdTask' = [u \in SdTask |-> IF u \in Aborted(sdStep) /\ Runs(u) THEN "over" ELSE sdTask[u]]
    BY <2>2, <1>0 DEF ShutdownTypeOK
  <2> QED BY <2>1, <2>2 DEF MainWaits
<1>b. \A u \in SdTask : Runs(u)' <=> Runs(u) /\ u \notin Aborted(sdStep) BY <1>a DEF Runs
<1>c. \/ /\ sdSpent' = sdSpent /\ \A u \in AwaitedAt(sdStep) : ~Runs(u) 
      \/ /\ Kept' /\ sdSpent'[sdStep] \cap MayKeep(sdStep) # {}
         /\ sdStep = "engine" => Runs("engine") /\ "engine" \in sdSlow
         /\ sdStep \in {"unwind", "tracker"} => ~Runs("pot")
  <2> SUFFICES ASSUME NEW t \in AwaitedAt(sdStep), Runs(t), Quiet, sdSpent'[sdStep] = {u \in SdTask : Runs(u)}
               PROVE  /\ Kept' /\ sdSpent'[sdStep] \cap MayKeep(sdStep) # {}
                      /\ sdStep = "engine" => Runs("engine") /\ "engine" \in sdSlow
                      /\ sdStep \in {"unwind", "tracker"} => ~Runs("pot")
    BY <1>a
  <2>1. sdSpent'[sdStep] \cap MayKeep(sdStep) # {} BY <1>0, WaitsEnd
  <2>2. Kept' BY <2>1, <1>0 DEF Kept
  <2>3. sdStep = "engine" => Runs("engine") /\ "engine" \in sdSlow BY <2>1 DEF MayKeep, AwaitedAt
  <2>4. sdStep \in {"unwind", "tracker"} => ~Runs("pot")
    BY DEF Quiet, Ends, Told, CutSoFar, RowSoFar, SdTask, Tracked
  <2> QED BY <2>1, <2>2, <2>3, <2>4
<1>d. Kept => Kept' BY <1>a, <1>c DEF Kept
<1>e. \A c \in Channel : Held(c)' => Held(c) BY <1>0, <1>b DEF Held
<1>f. sdStep' \in PastServe \cup {"serve"}
  BY <1>0 DEF Ceiling, Then, PastServe
<1>1. ShutdownTypeOK' BY <1>0, <1>a, <1>f DEF ShutdownTypeOK, Cuts, SdStep, Ceiling, PastServe
<1>2. SpawnedSoFar'
  BY <1>0, <1>a, <1>f DEF SpawnedSoFar, EarlyBoot, PastServe, Runs, SdTask, Tracked, Aborted, AwaitedAt
<1>3. HeldSoFar'
  BY <1>0, <1>a, <1>e DEF HeldSoFar, Ceiling, Then, Dropped, PastServe, EarlyBoot, Channel, Aborted,
      AwaitedAt, SdTask, Tracked
<1>4. CutSoFar' BY <1>0, <1>b DEF CutSoFar, Ceiling, Then, Cuts, Stopping
<1>5. OverSoFar'
  <2>1. sdStep' \in PastServe => ~Runs("served")'
    BY <1>0, <1>b, <1>a DEF OverSoFar, SpawnedSoFar, Runs, PastServe, Then, Ceiling, AwaitedAt,
        Aborted, SdTask
  <2>2. sdStep' \in PastEngine => ~Runs("engine")'
    BY <1>0, <1>b, <1>a DEF OverSoFar, SpawnedSoFar, Runs, PastEngine, Then, Ceiling, AwaitedAt,
        Aborted, SdTask
  <2>3. sdStep' \in PastDrain /\ ~Kept' => \A t \in Consumers : ~Runs(t)'
    BY <1>0, <1>b, <1>c, <1>d DEF OverSoFar, SpawnedSoFar, Runs, PastDrain, Then, Ceiling, AwaitedAt,
        SdTask, Consumers, Tracked
  <2>4. sdStep' \in PastWaits => ~Runs("pot")'
    BY <1>0, <1>b, <1>c DEF PastWaits, Then, Ceiling, AwaitedAt, SdTask, Tracked
  <2>5. sdStep' \in PastWaits /\ ~Kept' => ~Runs("manager")' /\ ~Runs("watchers")'
    BY <1>0, <1>b, <1>c DEF PastWaits, Then, Ceiling, AwaitedAt, SdTask, Tracked
  <2> QED BY <2>1, <2>2, <2>3, <2>4, <2>5 DEF OverSoFar
<1>6. RowSoFar'
  BY <1>0, <1>b, <1>c, <1>f DEF RowSoFar, Aborted, AwaitedAt, Ceiling, SdTask
<1>7. ShutdownIsOrderly'
  <2>1. \A c \in Ceiling : sdSpent'[c] # {} => sdSpent'[c] \cap MayKeep(c) # {}
    BY <1>a, <1>c DEF ShutdownIsOrderly
  <2>2. \A c \in Ceiling : MayKeep(c)' = MayKeep(c) BY <1>0 DEF MayKeep
  <2>3. sdStep' # "exit" BY <1>0 DEF Then, Ceiling
  <2>4. sdStore' # "closed" BY <1>0 DEF RowSoFar, Ceiling
  <2> QED BY <2>1, <2>2, <2>3, <2>4 DEF ShutdownIsOrderly
<1> QED BY <1>1, <1>2, <1>3, <1>4, <1>5, <1>6, <1>7

LEMMA ShutdownSteps == ASSUME ShutdownInv, [ShutdownNext]_sdVars PROVE ShutdownInv'
<1>1. CASE UNCHANGED sdVars
  <2> USE <1>1 DEF sdVars, ShutdownInv
  <2>1. ShutdownTypeOK' BY DEF ShutdownTypeOK
  <2>2. SpawnedSoFar' /\ HeldSoFar' BY DEF SpawnedSoFar, HeldSoFar, Held, Runs
  <2>3. CutSoFar' /\ OverSoFar' /\ RowSoFar' BY DEF CutSoFar, OverSoFar, RowSoFar, Kept, Runs
  <2>4. ShutdownIsOrderly' BY DEF ShutdownIsOrderly, Kept, Runs, MayKeep
  <2> QED BY <2>1, <2>2, <2>3, <2>4
<1>2. CASE MainSteps
  BY <1>2, BootKeeps, StopKeeps, StoreClosesKeeps, WaitsKeep DEF MainSteps
<1>3. ASSUME NEW t \in SdTask, TaskEnds(t) PROVE ShutdownInv' BY <1>3, TaskEndsKeeps
<1> QED
  BY <1>1, <1>2, <1>3, SignalComesKeeps, EngineEndsKeeps, BeginningsKeep, TaskStepsKeep
      DEF ShutdownNext, Exited

(* The shutdown is orderly, whatever ends early, late or never, whichever  *)
(* optional tasks run and whichever task is slow.                          *)
THEOREM ShutdownOrderly == ShutdownSpec => []ShutdownIsOrderly
<1>1. ShutdownInv => ShutdownIsOrderly BY DEF ShutdownInv
<1> QED BY <1>1, ShutdownStarts, ShutdownSteps, PTL DEF ShutdownSpec

-----------------------------------------------------------------------------
(* The four parts side by side.  A part whose scene it is not rests: a     *)
(* playlist as one that was deleted, a server as one that has exited.      *)
ServerInv == ApnsInv /\ GroupsInv /\ BoardInv /\ ShutdownInv

LEMMA GoneIsFine == GroupsScene => GroupsInv
<1> SUFFICES ASSUME GroupsScene PROVE GroupsInv
  OBVIOUS
<1>1. CASE GroupsInit
  BY <1>1, GroupsStarts
<1>2. CASE ~GroupsInit
  <2> DEFINE gone == [group |-> "gone", child |-> [c \in Children |-> "gone"], here |-> FALSE, cached |-> {},
                      acc |-> NoAcc, done |-> <<>>, ghosts |-> [s \in RowStatus |-> 0]]
  <2>1. gr = gone /\ grNext = 0 /\ grAsked = FALSE /\ grCmd = NoCmd /\ grLoose = FALSE
    BY <1>2 DEF GroupsScene
  <2>2. gone \in GrState
    <3>1. [c \in Children |-> "gone"] \in [Children -> RowStatus \cup {"none", "gone"}] /\ {} \in SUBSET Children
      OBVIOUS
    <3>2. [s \in RowStatus |-> 0] \in [RowStatus -> Nat] /\ <<>> \in Seq(0..Other)
      OBVIOUS
    <3> QED BY <3>1, <3>2, NoAccTyped DEF GrState
  <2>3. /\ gone.done = <<>> /\ Len(gone.done) = 0 /\ gone.acc = NoAcc /\ \A c \in Children : gone.child[c] = "gone"
        /\ gone.cached = {}
    OBVIOUS
  <2> HIDE DEF gone
  <2>4. Stored(gr) = {} /\ Live(gr) = {}
    BY <2>1, <2>3, StatusIs DEF Stored, Live
  <2>5. InMemory(gr)
    <3>1. DoneOver(gr)
      BY <2>1, <2>3 DEF DoneOver, Single
    <3>2. gr.acc.live => gr.here
      BY <2>1, <2>3, NoAccTyped
    <3> QED BY <2>1, <2>2, <2>3, <2>4, <3>1, <3>2 DEF InMemory
  <2>6. Counted(gr) /\ Rolled(gr) /\ NextFree
    BY <2>1, <2>3, NoAccTyped DEF Counted, Rolled, NextFree
  <2>7. grNext \in 0..GrChildren
    BY <2>1, GrAssumption
  <2> QED BY <2>1, <2>5, <2>6, <2>7, NoCmdTyped DEF GroupsInv
<1> QED BY <1>1, <1>2

LEMMA ExitedIsFine == ShutdownScene => ShutdownInv
<1> SUFFICES ASSUME ShutdownScene PROVE ShutdownInv
  OBVIOUS
<1>1. CASE ShutdownInit
  BY <1>1, ShutdownStarts
<1>2. CASE ~ShutdownInit
  <2>1. /\ sdOn = {} /\ sdSlow = {} /\ sdStep = "exit" /\ sdTask = [t \in SdTask |-> "over"]
        /\ sdCut = {} /\ sdHeld = {} /\ sdAsked = TRUE /\ sdStore = "closed" /\ sdRow = "finished"
        /\ sdPanic = "no" /\ sdSpent = [c \in Ceiling |-> {}] /\ sdCode = "ok"
    BY <1>2 DEF ShutdownScene
  <2>2. ShutdownTypeOK
    BY <2>1 DEF ShutdownTypeOK, SdStep
  <2>3. \A t \in SdTask : sdTask[t] = "over"
    BY <2>1
  <2>4. \A t \in SdTask : ~Runs(t)
    BY <2>3 DEF Runs
  <2>5. {"signal", "pot", "manager", "watchers", "served", "session", "health", "engine"} \subseteq SdTask /\ Consumers \subseteq SdTask
    BY DEF SdTask, Tracked, Consumers
  <2>6. SpawnedSoFar /\ HeldSoFar /\ CutSoFar
    BY <2>1, <2>3, <2>4, <2>5 DEF SpawnedSoFar, HeldSoFar, CutSoFar, EarlyBoot, PastServe, Stopping, Held
  <2>7. OverSoFar /\ RowSoFar
    BY <2>1, <2>4, <2>5 DEF OverSoFar, RowSoFar
  <2>8. ShutdownIsOrderly
    <3>1. Writers \subseteq SdTask
      BY DEF Writers, SdTask, Tracked, Consumers
    <3>2. \A c \in Ceiling : sdSpent[c] = {}
      BY <2>1
    <3> QED BY <2>1, <2>4, <2>5, <3>1, <3>2 DEF ShutdownIsOrderly
  <2> QED BY <2>2, <2>6, <2>7, <2>8 DEF ShutdownInv
<1> QED BY <1>1, <1>2

LEMMA ServerStarts == MCInit => ServerInv
BY ApnsStarts, GoneIsFine, BoardStarts, ExitedIsFine DEF MCInit, ServerInv

LEMMA ServerSteps ==
  ASSUME ServerInv, [MCNext]_<<scene, apVars, grVars, bdVars, sdVars>>
  PROVE  ServerInv'
<1>1. [ApnsNext]_apVars
  BY DEF MCNext, MCApns, MCGroups, MCBoard, MCShutdown
<1>2. [GroupsNext]_grVars
  BY DEF MCNext, MCApns, MCGroups, MCBoard, MCShutdown
<1>3. [BoardNext]_bdVars
  BY DEF MCNext, MCApns, MCGroups, MCBoard, MCShutdown
<1>4. [ShutdownNext]_sdVars
  BY DEF MCNext, MCApns, MCGroups, MCBoard, MCShutdown
<1> QED BY <1>1, <1>2, <1>3, <1>4, ApnsSteps, GroupsStep, BoardStep, ShutdownSteps DEF ServerInv

(* Side by side the four parts keep their types, whichever of them the     *)
(* scene lets run.                                                         *)
THEOREM ServerTypesHold == MCSpec => []ServerTypeOK
<1>1. ServerInv => ServerTypeOK
  BY GroupsShow DEF ServerInv, ServerTypeOK, ApnsInv, BoardInv, ShutdownInv
<1> QED BY <1>1, ServerStarts, ServerSteps, PTL DEF MCSpec
=============================================================================
