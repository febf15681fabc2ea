---------------------------- MODULE ReadsProofs -----------------------------
(***************************************************************************)
(* What TLAPS proves about the two reads of the API that span several      *)
(* requests, for any ring, any page size and any number of changes; about  *)
(* the files of a row, for any number of downloads, failed calls and       *)
(* crashes; about the import, for any legacy records and any number of     *)
(* commands and failures; about the durable counters, for any block size;  *)
(* and about one invocation of a hook, for any timeout and number of       *)
(* tries.                                                                  *)
(***************************************************************************)
EXTENDS HiLo, Reads, Files, Import, HookRuns, ListProofs, SequenceTheorems

(* The hub and what its frames say of the rows, as values.                 *)
FrameRec == [kind : {"rows", "subs", "health", "other"}, id : Nat]
HubRec == [boot : 1..RdBoots, base : Nat, rows : Nat, frames : Seq(FrameRec)]
HeadIn(hub) == hub.base + Len(hub.frames)
AboutRows(hub, n) == {k \in hub.base + 1..n : hub.frames[k - hub.base].kind = "rows"}
RowsIn(hub, n) ==
  IF AboutRows(hub, n) = {} THEN hub.rows ELSE hub.frames[Max(AboutRows(hub, n)) - hub.base].id
SubsIn(hub, n) == \E k \in n + 1..HeadIn(hub) : hub.frames[k - hub.base].kind = "subs"
Here(hub, n) == hub.base <= n /\ n <= HeadIn(hub)

PollsTyped ==
  /\ rdHub \in HubRec /\ rdPub \in [seq : Nat, rows : Nat]
  /\ rdNow \in [rows : Nat, subs : Nat, health : Nat]
  /\ rdDue \subseteq {"rows", "health", "generation"} /\ rdFlush \in BOOLEAN /\ rdIds \in 0..RdChanges
  /\ rdPoll \in [plan : {"none", "snapshot", "merged"}, seq : Nat, rows : Nat, boot : Nat]
  /\ rdClient \in [mode : {"tag", "cursor"}, boot : Nat, seq : Nat, rows : Nat, subs : Nat, health : Nat, same : BOOLEAN]

(* What the aggregator published is what its frames say, and anything that *)
(* is not is due.                                                          *)
Generations ==
  /\ Here(rdHub, rdPub.seq) /\ rdPub.rows = RowsIn(rdHub, rdPub.seq)
  /\ "rows" \in rdDue => "generation" \in rdDue
  /\ "rows" \notin rdDue => RowsIn(rdHub, HeadIn(rdHub)) = rdNow.rows
  /\ "generation" \notin rdDue => rdPub.rows = rdNow.rows

(* The answer that is on its way has the rows of its number.               *)
Pending ==
  rdPoll # NoPoll =>
    /\ rdPoll.boot = rdHub.boot /\ Here(rdHub, rdPoll.seq) /\ rdPoll.rows = RowsIn(rdHub, rdPoll.seq)
    /\ rdPoll.plan \in {"snapshot", "merged"}
    /\ rdClient.mode = "tag" => rdPoll.plan = "snapshot" /\ rdPoll.seq <= rdPub.seq

(* A client of this boot has the rows of its number.  One that polls by    *)
(* tag is not ahead of the generation; at its number the health it does    *)
(* not know is still to come, and so are the subscriptions.                *)
Answered ==
  /\ rdClient.boot <= rdHub.boot
  /\ rdClient.boot = rdHub.boot =>
       /\ Here(rdHub, rdClient.seq) /\ rdClient.rows = RowsIn(rdHub, rdClient.seq)
       /\ rdClient.mode = "tag" => rdClient.seq <= rdPub.seq
       /\ rdClient.mode = "tag" /\ rdClient.seq = rdPub.seq =>
            /\ \/ rdClient.health = rdNow.health \/ "health" \in rdDue
               \/ "generation" \in rdDue /\ HeadIn(rdHub) > rdPub.seq
            /\ SubsIn(rdHub, rdPub.seq) \/ rdClient.subs = rdNow.subs

(* The strengthening of the part of ReadsFit that is about polls.          *)
PollsInv == PollsTyped /\ Generations /\ Pending /\ Answered

(* The last of some numbers.                                               *)
LEMMA LastOf ==
  ASSUME NEW a \in Nat, NEW b \in Nat, NEW S \in SUBSET (a..b), S # {}
  PROVE  Max(S) \in S /\ \A n \in S : n <= Max(S)
<1> DEFINE U == {n..b : n \in S}
<1>1. \A n \in S : n \in Nat /\ a <= n /\ n <= b OBVIOUS
<1>2. \A n \in S : n..b \in SUBSET (a..b) /\ IsFiniteSet(n..b) BY <1>1, FS_Interval
<1>3. U \subseteq FiniteSubsetsOf(a..b) /\ U # {} BY <1>2 DEF FiniteSubsetsOf
<1>4. PICK m \in U : \A y \in U : ~(<<y, m>> \in StrictSubsetOrdering(a..b))
  BY <1>3, WFMin, FS_StrictSubsetOrderingWellFounded
<1>5. PICK n \in S : m = n..b OBVIOUS
<1>6. ASSUME NEW o \in S, n < o PROVE FALSE
  <2>1. o..b \subseteq n..b /\ n \in n..b /\ n \notin o..b BY <1>1, <1>6
  <2>2. <<o..b, m>> \in StrictSubsetOrdering(a..b) BY <1>2, <1>5, <2>1 DEF StrictSubsetOrdering
  <2> QED BY <1>4, <2>2
<1>7. \A o \in S : n >= o BY <1>1, <1>6
<1>8. Max(S) \in S /\ \A y \in S : Max(S) >= y BY <1>7 DEF Max
<1> QED BY <1>1, <1>8

(* The rows as of a number are those of the last frame about rows.         *)
LEMMA LastAbout ==
  ASSUME NEW hub \in HubRec, NEW n \in Nat, AboutRows(hub, n) # {}
  PROVE  /\ Max(AboutRows(hub, n)) \in AboutRows(hub, n)
         /\ \A k \in AboutRows(hub, n) : k <= Max(AboutRows(hub, n))
<1>1. hub.base + 1 \in Nat BY DEF HubRec
<1>2. AboutRows(hub, n) \in SUBSET ((hub.base + 1)..n) BY DEF AboutRows
<1> HIDE DEF AboutRows
<1> QED BY <1>1, <1>2, LastOf

(* One more frame in the hub.                                              *)
Longer(hub, next, kind, id) ==
  /\ next.base = hub.base /\ next.rows = hub.rows
  /\ Len(hub.frames) \in Nat /\ Len(next.frames) = Len(hub.frames) + 1
  /\ \A i \in 1..Len(hub.frames) : next.frames[i] = hub.frames[i]
  /\ next.frames[Len(hub.frames) + 1].kind = kind /\ next.frames[Len(hub.frames) + 1].id = id
LEMMA Appended ==
  ASSUME NEW hub \in HubRec, NEW kind \in {"rows", "subs", "health", "other"}, NEW id \in Nat
  PROVE  LET next == [hub EXCEPT !.frames = Append(@, [kind |-> kind, id |-> id])]
         IN  next \in HubRec /\ next.boot = hub.boot /\ Longer(hub, next, kind, id)
<1> DEFINE old == hub.frames
           rec == [kind |-> kind, id |-> id]
           new == Append(old, rec)
<1>1. old \in Seq(FrameRec) /\ hub.base \in Nat /\ hub.boot \in 1..RdBoots /\ hub.rows \in Nat
  BY DEF HubRec
<1>2. rec \in FrameRec /\ rec.kind = kind /\ rec.id = id BY DEF FrameRec
<1>3. /\ new \in Seq(FrameRec) /\ Len(old) \in Nat /\ Len(new) = Len(old) + 1
      /\ \A i \in 1..Len(old) : new[i] = old[i]
      /\ new[Len(old) + 1] = rec
  BY <1>1, <1>2, AppendProperties, LenProperties
<1> HIDE DEF new, rec
<1> DEFINE next == [hub EXCEPT !.frames = new]
<1>4. /\ next \in HubRec /\ next.boot = hub.boot /\ next.base = hub.base /\ next.rows = hub.rows
      /\ next.frames = new
  BY <1>1, <1>3 DEF HubRec
<1> HIDE DEF next
<1>5. next \in HubRec /\ next.boot = hub.boot /\ Longer(hub, next, kind, id)
  BY <1>2, <1>3, <1>4 DEF Longer
<1> QED BY <1>5, Zenon DEF next, new, rec

LEMMA HeadGrows ==
  ASSUME NEW hub \in HubRec
  PROVE  /\ HeadIn(hub) \in Nat /\ hub.base \in Nat /\ HeadIn(hub) = hub.base + Len(hub.frames)
         /\ \A next, kind, id : Longer(hub, next, kind, id) => HeadIn(next) = HeadIn(hub) + 1
<1>1. hub.base \in Nat /\ Len(hub.frames) \in Nat BY LenProperties DEF HubRec
<1>2. HeadIn(hub) \in Nat /\ HeadIn(hub) = hub.base + Len(hub.frames) BY <1>1 DEF HeadIn
<1>3. ASSUME NEW next, NEW kind, NEW id, Longer(hub, next, kind, id) PROVE HeadIn(next) = HeadIn(hub) + 1
  <2>1. next.base = hub.base /\ Len(next.frames) = Len(hub.frames) + 1 BY <1>3 DEF Longer
  <2>2. HeadIn(next) = hub.base + (Len(hub.frames) + 1) BY <2>1 DEF HeadIn
  <2> QED BY <1>1, <1>2, <2>2
<1> QED BY <1>1, <1>2, <1>3

(* It changes nothing of what the others said.                             *)
LEMMA Grown ==
  ASSUME NEW hub \in HubRec, NEW next \in HubRec, NEW kind, NEW id, Longer(hub, next, kind, id),
         NEW h \in Nat, HeadIn(hub) = h
  PROVE  /\ HeadIn(next) = h + 1
         /\ \A n \in Nat : n <= h => RowsIn(next, n) = RowsIn(hub, n)
         /\ RowsIn(next, h + 1) = IF kind = "rows" THEN id ELSE RowsIn(hub, h)
         /\ \A n \in Nat : hub.base <= n /\ SubsIn(hub, n) => SubsIn(next, n)
         /\ kind = "subs" => \A n \in Nat : n <= h => SubsIn(next, n)
<1>1. hub.base \in Nat BY DEF HubRec
<1>5. next.base = hub.base /\ next.rows = hub.rows /\ next.base \in Nat BY <1>1 DEF Longer
<1>6. HeadIn(next) = h + 1 /\ h = hub.base + Len(hub.frames) BY HeadGrows
<1>7. /\ \A k \in hub.base + 1..h : next.frames[k - hub.base] = hub.frames[k - hub.base]
      /\ next.frames[h + 1 - hub.base].kind = kind /\ next.frames[h + 1 - hub.base].id = id
  <2>1. \A k \in hub.base + 1..h : k - hub.base \in 1..Len(hub.frames) BY <1>1, <1>6 DEF Longer
  <2>2. h + 1 - hub.base = Len(hub.frames) + 1 BY <1>1, <1>6 DEF Longer
  <2> QED BY <2>1, <2>2 DEF Longer
<1>8. ASSUME NEW n \in Nat, n <= h PROVE AboutRows(next, n) = AboutRows(hub, n)
  <2>1. \A k \in hub.base + 1..n : next.frames[k - hub.base] = hub.frames[k - hub.base]
    BY <1>1, <1>6, <1>7, <1>8
  <2> QED BY <1>5, <2>1 DEF AboutRows
<1>9. ASSUME NEW n \in Nat, n <= h PROVE RowsIn(next, n) = RowsIn(hub, n)
  <2>1. AboutRows(next, n) = AboutRows(hub, n) BY <1>8, <1>9
  <2>2. CASE AboutRows(hub, n) = {} BY <1>5, <2>1, <2>2 DEF RowsIn
  <2>3. CASE AboutRows(hub, n) # {}
    <3>1. Max(AboutRows(hub, n)) \in hub.base + 1..h
      <4>1. Max(AboutRows(hub, n)) \in AboutRows(hub, n) BY <2>3, LastAbout
      <4>2. Max(AboutRows(hub, n)) \in hub.base + 1..n BY <4>1 DEF AboutRows
      <4> QED BY <1>1, <1>6, <1>9, <4>2
    <3> QED BY <1>5, <1>7, <2>1, <2>3, <3>1 DEF RowsIn
  <2> QED BY <2>2, <2>3
<1>10. ASSUME kind = "rows" PROVE RowsIn(next, h + 1) = id
  <2>1. h + 1 \in AboutRows(next, h + 1)
    <3>1. h + 1 \in next.base + 1..h + 1 BY <1>1, <1>5, <1>6
    <3>2. next.frames[h + 1 - next.base].kind = "rows" BY <1>5, <1>7, <1>10
    <3> QED BY <1>5, <3>1, <3>2 DEF AboutRows
  <2>2. \A k \in AboutRows(next, h + 1) : k \in Int /\ k <= h + 1 BY <1>1, <1>5, <1>6 DEF AboutRows
  <2>3. Max(AboutRows(next, h + 1)) = h + 1
    <3>1. Max(AboutRows(next, h + 1)) \in AboutRows(next, h + 1) /\ h + 1 <= Max(AboutRows(next, h + 1))
      BY <1>5, <1>6, <2>1, LastAbout
    <3>2. Max(AboutRows(next, h + 1)) <= h + 1 /\ Max(AboutRows(next, h + 1)) \in Int BY <2>2, <3>1
    <3> QED BY <1>6, <3>1, <3>2
  <2>4. RowsIn(next, h + 1) = next.frames[h + 1 - next.base].id BY <1>5, <2>1, <2>3 DEF RowsIn
  <2> QED BY <1>5, <1>6, <1>7, <1>10, <2>4
<1>11. ASSUME kind # "rows" PROVE RowsIn(next, h + 1) = RowsIn(hub, h)
  <2>1. AboutRows(next, h + 1) = AboutRows(next, h)
    <3>1. next.frames[h + 1 - next.base].kind # "rows" BY <1>5, <1>7, <1>11
    <3>2. \A k \in next.base + 1..h + 1 : k \in next.base + 1..h \/ k = h + 1 BY <1>1, <1>5, <1>6
    <3>3. \A k \in next.base + 1..h : k \in next.base + 1..h + 1 BY <1>1, <1>5, <1>6
    <3> QED BY <1>5, <3>1, <3>2, <3>3 DEF AboutRows
  <2>2. RowsIn(next, h + 1) = RowsIn(next, h) BY <2>1 DEF RowsIn
  <2>3. RowsIn(next, h) = RowsIn(hub, h) BY <1>6, <1>9
  <2> QED BY <1>6, <1>11, <2>2, <2>3
<1>12. ASSUME NEW n \in Nat, hub.base <= n, SubsIn(hub, n) PROVE SubsIn(next, n)
  <2>1. PICK k \in n + 1..h : hub.frames[k - hub.base].kind = "subs" BY <1>12 DEF SubsIn
  <2>2. k \in hub.base + 1..h /\ k \in n + 1..HeadIn(next) BY <1>1, <1>6, <1>12
  <2>3. next.frames[k - next.base].kind = "subs" BY <1>5, <1>7, <2>1, <2>2
  <2> QED BY <2>2, <2>3 DEF SubsIn
<1>13. ASSUME kind = "subs", NEW n \in Nat, n <= h PROVE SubsIn(next, n)
  <2>1. h + 1 \in n + 1..HeadIn(next) BY <1>6, <1>13
  <2>2. next.frames[h + 1 - next.base].kind = "subs" BY <1>5, <1>7, <1>13
  <2> QED BY <1>5, <2>1, <2>2 DEF SubsIn
<1> QED BY <1>1, <1>6, <1>9, <1>10, <1>11, <1>12, <1>13

(* Nothing about rows after a number: the rows of the head are its own.    *)
LEMMA SameRows ==
  ASSUME NEW hub \in HubRec, NEW n \in Nat, Here(hub, n), \A k \in AboutRows(hub, HeadIn(hub)) : ~(k > n)
  PROVE  RowsIn(hub, HeadIn(hub)) = RowsIn(hub, n)
<1>1. hub.base \in Nat /\ HeadIn(hub) \in Nat BY HeadGrows
<1>2. AboutRows(hub, HeadIn(hub)) = AboutRows(hub, n) BY <1>1 DEF AboutRows, Here
<1> QED BY <1>2 DEF RowsIn

(* Otherwise they are those of the last of them, which is the last of all. *)
LEMMA LaterRows ==
  ASSUME NEW hub \in HubRec, NEW n \in Nat, Here(hub, n),
         NEW told, told = {k \in AboutRows(hub, HeadIn(hub)) : k > n}, told # {}
  PROVE  RowsIn(hub, HeadIn(hub)) = hub.frames[Max(told) - hub.base].id /\ RowsIn(hub, HeadIn(hub)) \in Nat
<1> DEFINE all == AboutRows(hub, HeadIn(hub))
<1>1. hub.base \in Nat /\ HeadIn(hub) \in Nat /\ HeadIn(hub) = hub.base + Len(hub.frames) BY HeadGrows
<1>2. all # {} /\ all \subseteq (hub.base + 1)..HeadIn(hub) BY DEF AboutRows
<1>3. Max(all) \in all /\ \A k \in all : k <= Max(all) BY <1>1, <1>2, LastAbout
<1>4. told \in SUBSET ((hub.base + 1)..HeadIn(hub)) BY <1>2
<1>5. Max(told) \in told /\ \A k \in told : k <= Max(told)
  <2>1. hub.base + 1 \in Nat BY <1>1
  <2> QED BY <1>1, <1>4, <2>1, LastOf
<1>6. Max(all) = Max(told)
  <2>1. PICK k \in told : TRUE BY <1>5
  <2>2. k \in all /\ k > n /\ k \in Int /\ Max(all) \in Int /\ Max(told) \in all
    BY <1>1, <1>2, <1>3, <1>5, <2>1
  <2>3. Max(all) > n BY <1>3, <2>2
  <2>4. Max(all) \in told BY <1>3, <2>3
  <2> QED BY <1>1, <1>3, <1>4, <1>5, <2>2, <2>4
<1>7. RowsIn(hub, HeadIn(hub)) = hub.frames[Max(told) - hub.base].id BY <1>2, <1>6 DEF RowsIn
<1>8. Max(told) - hub.base \in 1..Len(hub.frames)
  <2>1. Max(told) \in (hub.base + 1)..HeadIn(hub) BY <1>4, <1>5
  <2>2. Len(hub.frames) \in Nat BY LenProperties DEF HubRec
  <2> QED BY <1>1, <2>1, <2>2
<1>9. hub.frames[Max(told) - hub.base] \in FrameRec
  <2>1. hub.frames \in Seq(FrameRec) BY DEF HubRec
  <2> QED BY <1>8, <2>1, ElementOfSeq
<1> QED BY <1>7, <1>9 DEF FrameRec

(* The rows of any number of this boot are a content.                      *)
LEMMA RowsTyped ==
  ASSUME NEW hub \in HubRec, NEW n \in Nat, Here(hub, n)
  PROVE  RowsIn(hub, n) \in Nat
<1>1. hub.base \in Nat /\ HeadIn(hub) = hub.base + Len(hub.frames) /\ Len(hub.frames) \in Nat
  BY HeadGrows, LenProperties DEF HubRec
<1>2. CASE AboutRows(hub, n) = {} BY <1>2 DEF RowsIn, HubRec
<1>3. CASE AboutRows(hub, n) # {}
  <2>1. Max(AboutRows(hub, n)) \in AboutRows(hub, n) BY <1>3, LastAbout
  <2>2. Max(AboutRows(hub, n)) \in (hub.base + 1)..n BY <2>1 DEF AboutRows
  <2>3. Max(AboutRows(hub, n)) - hub.base \in 1..Len(hub.frames) BY <1>1, <2>2 DEF Here
  <2>4. hub.frames \in Seq(FrameRec) BY DEF HubRec
  <2>5. hub.frames[Max(AboutRows(hub, n)) - hub.base] \in FrameRec BY <2>3, <2>4, ElementOfSeq
  <2> QED BY <1>3, <2>5 DEF RowsIn, FrameRec
<1> QED BY <1>2, <1>3

-----------------------------------------------------------------------------
(* What the module says of the hub, in the words of the lemmas.            *)
LEMMA InWords ==
  /\ HeadSeq = HeadIn(rdHub) /\ SubsUntold = SubsIn(rdHub, rdPub.seq)
  /\ \A n : RowFrames(n) = AboutRows(rdHub, n) /\ RowsAt(n) = RowsIn(rdHub, n) /\ FrameAt(n) = rdHub.frames[n - rdHub.base]
<1>1. HeadSeq = HeadIn(rdHub) BY DEF HeadSeq, HeadIn
<1>2. \A n : RowFrames(n) = AboutRows(rdHub, n) /\ FrameAt(n) = rdHub.frames[n - rdHub.base]
  BY DEF RowFrames, AboutRows, FrameAt
<1>3. \A n : RowsAt(n) = RowsIn(rdHub, n) BY <1>2 DEF RowsAt, RowsIn
<1>4. SubsUntold = SubsIn(rdHub, rdPub.seq) BY <1>1, <1>2 DEF SubsUntold, SubsIn
<1> QED BY <1>1, <1>2, <1>3, <1>4

LEMMA Starts == PollsInit => PollsInv
<1> SUFFICES ASSUME PollsInit PROVE PollsInv OBVIOUS
<1>1. /\ rdHub = [boot |-> 1, base |-> 0, rows |-> 0, frames |-> <<>>] /\ rdPub = [seq |-> 0, rows |-> 0]
      /\ rdNow = [rows |-> 0, subs |-> 0, health |-> 0] /\ rdDue = {} /\ rdFlush = FALSE /\ rdIds = 0
      /\ rdPoll = [plan |-> "none", seq |-> 0, rows |-> 0, boot |-> 0]
  BY DEF PollsInit, Head0, NoPoll
<1>2. PICK mode \in {"tag", "cursor"} :
        rdClient = [mode |-> mode, boot |-> 0, seq |-> 0, rows |-> 0, subs |-> 0, health |-> 0, same |-> FALSE]
  BY DEF PollsInit
<1>3. 1 \in 1..RdBoots /\ 0 \in 0..RdChanges BY RdAssumption
<1>4. rdHub \in HubRec
  <2>1. <<>> \in Seq(FrameRec) BY EmptySeq
  <2> QED BY <1>1, <1>3, <2>1 DEF HubRec
<1>5. PollsTyped BY <1>1, <1>2, <1>3, <1>4 DEF PollsTyped
<1>6. HeadIn(rdHub) = 0 /\ RowsIn(rdHub, 0) = 0 /\ rdHub.base = 0
  <2>1. HeadIn(rdHub) = 0 + Len(<<>>) BY <1>1 DEF HeadIn
  <2>2. Len(<<>>) = 0 BY EmptySeq
  <2>3. AboutRows(rdHub, 0) = {} BY <1>1 DEF AboutRows
  <2> QED BY <1>1, <2>1, <2>2, <2>3 DEF RowsIn
<1>7. Generations BY <1>1, <1>6 DEF Generations, Here
<1>8. Pending BY <1>1 DEF Pending, NoPoll
<1>9. Answered BY <1>1, <1>2 DEF Answered
<1> QED BY <1>5, <1>7, <1>8, <1>9 DEF PollsInv

(* What a frame leaves of the invariant, whatever it is about: the rest of *)
(* the step is what the aggregator knows of it.                            *)
LEMMA FrameSent ==
  ASSUME PollsInv, NEW kind \in {"rows", "subs", "health", "other"}, NEW id \in Nat, Frame(kind, id)
  PROVE  /\ rdHub' \in HubRec /\ rdHub'.boot = rdHub.boot /\ rdHub'.base = rdHub.base
         /\ HeadIn(rdHub) \in Nat /\ rdHub.base \in Nat /\ HeadIn(rdHub') = HeadIn(rdHub) + 1
         /\ \A n \in Nat : n <= HeadIn(rdHub) => RowsIn(rdHub', n) = RowsIn(rdHub, n)
         /\ RowsIn(rdHub', HeadIn(rdHub')) = IF kind = "rows" THEN id ELSE RowsIn(rdHub, HeadIn(rdHub))
         /\ \A n \in Nat : Here(rdHub, n) => Here(rdHub', n) /\ (SubsIn(rdHub, n) => SubsIn(rdHub', n))
         /\ kind = "subs" => \A n \in Nat : Here(rdHub, n) => SubsIn(rdHub', n)
<1>1. rdHub \in HubRec BY DEF PollsInv, PollsTyped
<1>2. rdHub' = [rdHub EXCEPT !.frames = Append(@, [kind |-> kind, id |-> id])] BY DEF Frame
<1>3. rdHub' \in HubRec /\ rdHub'.boot = rdHub.boot /\ Longer(rdHub, rdHub', kind, id)
  BY <1>1, <1>2, Appended, Zenon
<1>4. HeadIn(rdHub) \in Nat /\ rdHub.base \in Nat BY <1>1, HeadGrows
<1>5. PICK h \in Nat : HeadIn(rdHub) = h BY <1>4
<1>6. /\ HeadIn(rdHub') = h + 1
      /\ \A n \in Nat : n <= h => RowsIn(rdHub', n) = RowsIn(rdHub, n)
      /\ RowsIn(rdHub', h + 1) = IF kind = "rows" THEN id ELSE RowsIn(rdHub, h)
      /\ \A n \in Nat : rdHub.base <= n /\ SubsIn(rdHub, n) => SubsIn(rdHub', n)
      /\ kind = "subs" => \A n \in Nat : n <= h => SubsIn(rdHub', n)
  BY <1>1, <1>3, <1>5, Grown
<1>7. rdHub'.base = rdHub.base BY <1>3 DEF Longer
<1>8. \A n \in Nat : Here(rdHub, n) => Here(rdHub', n) BY <1>4, <1>5, <1>6, <1>7 DEF Here
<1>9. \A n \in Nat : Here(rdHub, n) => rdHub.base <= n /\ n <= h BY <1>5 DEF Here
<1> QED BY <1>3, <1>4, <1>5, <1>6, <1>7, <1>8, <1>9

(* A frame takes nothing from the generation, the answer on its way or the *)
(* client: they are of numbers before it.                                  *)
LEMMA Carried ==
  ASSUME PollsInv, NEW kind \in {"rows", "subs", "health", "other"}, NEW id \in Nat, Frame(kind, id),
         rdPub' = rdPub, rdPoll' = rdPoll, rdClient' = rdClient
  PROVE  /\ Here(rdHub', rdPub.seq) /\ rdPub.rows = RowsIn(rdHub', rdPub.seq) /\ HeadIn(rdHub') > rdPub.seq
         /\ Pending'
         /\ rdClient.boot <= rdHub'.boot
         /\ rdClient.boot = rdHub'.boot =>
              /\ Here(rdHub', rdClient.seq) /\ rdClient.rows = RowsIn(rdHub', rdClient.seq)
              /\ rdClient.mode = "tag" => rdClient.seq <= rdPub.seq
<1>1. rdPub.seq \in Nat /\ rdPoll.seq \in Nat /\ rdClient.seq \in Nat BY DEF PollsInv, PollsTyped
<1>2. /\ rdHub'.boot = rdHub.boot /\ HeadIn(rdHub) \in Nat /\ HeadIn(rdHub') = HeadIn(rdHub) + 1
      /\ \A n \in Nat : n <= HeadIn(rdHub) => RowsIn(rdHub', n) = RowsIn(rdHub, n)
      /\ \A n \in Nat : Here(rdHub, n) => Here(rdHub', n)
  BY FrameSent
<1>3. \A n \in Nat : Here(rdHub, n) => Here(rdHub', n) /\ RowsIn(rdHub', n) = RowsIn(rdHub, n) /\ HeadIn(rdHub') > n
  BY <1>2 DEF Here
<1>4. Here(rdHub, rdPub.seq) /\ rdPub.rows = RowsIn(rdHub, rdPub.seq) BY DEF PollsInv, Generations
<1>5. Pending' BY <1>1, <1>2, <1>3 DEF PollsInv, Pending
<1>6. /\ rdClient.boot <= rdHub.boot
      /\ rdClient.boot = rdHub.boot =>
           /\ Here(rdHub, rdClient.seq) /\ rdClient.rows = RowsIn(rdHub, rdClient.seq)
           /\ rdClient.mode = "tag" => rdClient.seq <= rdPub.seq
  BY DEF PollsInv, Answered
<1> QED BY <1>1, <1>2, <1>3, <1>4, <1>5, <1>6

LEMMA NewIds == ASSUME PollsInv, NewId PROVE rdIds' \in 0..RdChanges /\ rdIds' \in Nat
<1>1. rdIds \in Nat /\ RdChanges \in Nat BY RdAssumption DEF PollsInv, PollsTyped
<1> QED BY <1>1 DEF NewId

LEMMA RowsChangeKeeps == ASSUME PollsInv, RowsChange PROVE PollsInv'
<1>1. /\ rdIds' \in 0..RdChanges /\ rdIds' \in Nat /\ rdDue' = rdDue \cup {"rows", "generation"}
      /\ rdNow' = [rdNow EXCEPT !.rows = rdIds'] /\ UNCHANGED <<rdHub, rdPub, rdFlush, rdPoll, rdClient>>
  BY NewIds DEF RowsChange
<1>2. rdNow' \in [rows : Nat, subs : Nat, health : Nat] /\ rdNow'.subs = rdNow.subs /\ rdNow'.health = rdNow.health
  BY <1>1 DEF PollsInv, PollsTyped
<1>3. PollsTyped' BY <1>1, <1>2 DEF PollsInv, PollsTyped
<1>4. Generations' BY <1>1 DEF PollsInv, Generations
<1>5. Pending' BY <1>1 DEF PollsInv, Pending
<1>6. Answered' BY <1>1, <1>2 DEF PollsInv, Answered
<1> QED BY <1>3, <1>4, <1>5, <1>6 DEF PollsInv

LEMMA FlushBeginsKeeps == ASSUME PollsInv, FlushBegins PROVE PollsInv'
BY DEF FlushBegins, PollsInv, PollsTyped, Generations, Pending, Answered

LEMMA FlushTellsKeeps == ASSUME PollsInv, FlushTells PROVE PollsInv'
<1>1. /\ "rows" \in rdDue /\ Frame("rows", rdNow.rows) /\ rdDue' = rdDue \ {"rows"}
      /\ UNCHANGED <<rdPub, rdNow, rdFlush, rdPoll, rdClient, rdIds>>
  BY DEF FlushTells
<1>2. rdNow.rows \in Nat /\ rdPub.seq \in Nat BY DEF PollsInv, PollsTyped
<1>3. /\ rdHub' \in HubRec /\ HeadIn(rdHub) \in Nat /\ HeadIn(rdHub') = HeadIn(rdHub) + 1
      /\ RowsIn(rdHub', HeadIn(rdHub')) = rdNow.rows /\ rdHub'.boot = rdHub.boot
      /\ \A n \in Nat : Here(rdHub, n) /\ SubsIn(rdHub, n) => SubsIn(rdHub', n)
  BY <1>1, <1>2, FrameSent
<1>4. PollsTyped' BY <1>1, <1>3 DEF PollsInv, PollsTyped
<1>5. Generations' BY <1>1, <1>2, <1>3, Carried DEF PollsInv, Generations
<1>6. Pending' BY <1>1, <1>2, Carried
<1>7. Answered' BY <1>1, <1>2, <1>3, Carried DEF PollsInv, Answered, Generations
<1> QED BY <1>4, <1>5, <1>6, <1>7 DEF PollsInv

LEMMA OtherFrameKeeps == ASSUME PollsInv, OtherFrame PROVE PollsInv'
<1>1. /\ Frame("other", rdIds') /\ rdIds' \in 0..RdChanges /\ rdIds' \in Nat
      /\ UNCHANGED <<rdPub, rdNow, rdDue, rdFlush, rdPoll, rdClient>>
  BY NewIds DEF OtherFrame
<1>2. PICK i \in Nat : rdIds' = i BY <1>1
<1>3. rdPub.seq \in Nat BY DEF PollsInv, PollsTyped
<1>4. /\ rdHub' \in HubRec /\ HeadIn(rdHub) \in Nat /\ HeadIn(rdHub') = HeadIn(rdHub) + 1
      /\ RowsIn(rdHub', HeadIn(rdHub')) = RowsIn(rdHub, HeadIn(rdHub)) /\ rdHub'.boot = rdHub.boot
      /\ \A n \in Nat : Here(rdHub, n) /\ SubsIn(rdHub, n) => SubsIn(rdHub', n)
  BY <1>1, <1>2, FrameSent
<1>5. PollsTyped' BY <1>1, <1>4 DEF PollsInv, PollsTyped
<1>6. Generations' BY <1>1, <1>2, <1>4, Carried DEF PollsInv, Generations
<1>7. Pending' BY <1>1, <1>2, Carried
<1>8. Answered' BY <1>1, <1>2, <1>3, <1>4, Carried DEF PollsInv, Answered, Generations
<1> QED BY <1>5, <1>6, <1>7, <1>8 DEF PollsInv

LEMMA SubsChangeKeeps == ASSUME PollsInv, SubsChange PROVE PollsInv'
<1>1. /\ Frame("subs", rdIds') /\ rdIds' \in 0..RdChanges /\ rdIds' \in Nat /\ rdNow' = [rdNow EXCEPT !.subs = rdIds']
      /\ UNCHANGED <<rdPub, rdDue, rdFlush, rdPoll, rdClient>>
  BY NewIds DEF SubsChange
<1>2. PICK i \in Nat : rdIds' = i BY <1>1
<1>3. rdPub.seq \in Nat BY DEF PollsInv, PollsTyped
<1>4. /\ rdHub' \in HubRec /\ HeadIn(rdHub) \in Nat /\ HeadIn(rdHub') = HeadIn(rdHub) + 1
      /\ RowsIn(rdHub', HeadIn(rdHub')) = RowsIn(rdHub, HeadIn(rdHub)) /\ rdHub'.boot = rdHub.boot
      /\ \A n \in Nat : Here(rdHub, n) => SubsIn(rdHub', n)
  BY <1>1, <1>2, FrameSent
<1>5. rdNow' \in [rows : Nat, subs : Nat, health : Nat] /\ rdNow'.rows = rdNow.rows /\ rdNow'.health = rdNow.health
  BY <1>1 DEF PollsInv, PollsTyped
<1>6. PollsTyped' BY <1>1, <1>4, <1>5 DEF PollsInv, PollsTyped
<1>7. Generations' BY <1>1, <1>2, <1>4, <1>5, Carried DEF PollsInv, Generations
<1>8. Pending' BY <1>1, <1>2, Carried
<1>9. Answered' BY <1>1, <1>2, <1>3, <1>4, <1>5, Carried DEF PollsInv, Answered, Generations
<1> QED BY <1>6, <1>7, <1>8, <1>9 DEF PollsInv

LEMMA HealthMovesKeeps == ASSUME PollsInv, HealthMoves PROVE PollsInv'
<1>1. /\ rdIds' \in 0..RdChanges /\ rdIds' \in Nat /\ rdDue' = rdDue \cup {"health"}
      /\ rdNow' = [rdNow EXCEPT !.health = rdIds'] /\ UNCHANGED <<rdHub, rdPub, rdFlush, rdPoll, rdClient>>
  BY NewIds DEF HealthMoves
<1>2. rdNow' \in [rows : Nat, subs : Nat, health : Nat] /\ rdNow'.subs = rdNow.subs /\ rdNow'.rows = rdNow.rows
  BY <1>1 DEF PollsInv, PollsTyped
<1>3. PollsTyped' BY <1>1, <1>2 DEF PollsInv, PollsTyped
<1>4. Generations' BY <1>1, <1>2 DEF PollsInv, Generations
<1>5. Pending' BY <1>1 DEF PollsInv, Pending
<1>6. Answered' BY <1>1, <1>2 DEF PollsInv, Answered
<1> QED BY <1>3, <1>4, <1>5, <1>6 DEF PollsInv

(* Its event asks for a generation, and its frame is after the last one.   *)
LEMMA OnHealthKeeps == ASSUME PollsInv, OnHealth PROVE PollsInv'
<1>1. /\ Frame("health", rdNow.health) /\ rdDue' = (rdDue \ {"health"}) \cup {"generation"}
      /\ UNCHANGED <<rdPub, rdNow, rdFlush, rdPoll, rdClient, rdIds>>
  BY DEF OnHealth, HealthDue
<1>2. rdNow.health \in Nat /\ rdPub.seq \in Nat BY DEF PollsInv, PollsTyped
<1>3. /\ rdHub' \in HubRec /\ HeadIn(rdHub) \in Nat /\ HeadIn(rdHub') = HeadIn(rdHub) + 1
      /\ RowsIn(rdHub', HeadIn(rdHub')) = RowsIn(rdHub, HeadIn(rdHub)) /\ rdHub'.boot = rdHub.boot
      /\ \A n \in Nat : Here(rdHub, n) /\ SubsIn(rdHub, n) => SubsIn(rdHub', n)
  BY <1>1, <1>2, FrameSent
<1>4. PollsTyped' BY <1>1, <1>3 DEF PollsInv, PollsTyped
<1>5. Generations' BY <1>1, <1>2, <1>3, Carried DEF PollsInv, Generations
<1>6. Pending' BY <1>1, <1>2, Carried
<1>7. Answered' BY <1>1, <1>2, <1>3, Carried DEF PollsInv, Answered, Generations
<1> QED BY <1>4, <1>5, <1>6, <1>7 DEF PollsInv

(* The generation catches up with the frames: a client of its number has   *)
(* heard of everything before it.                                          *)
LEMMA RepublishKeeps == ASSUME PollsInv, Republish PROVE PollsInv'
<1>1. /\ "rows" \notin rdDue /\ rdFlush' = FALSE /\ rdDue' = rdDue \ {"generation"}
      /\ rdPub' = [seq |-> HeadIn(rdHub), rows |-> rdNow.rows]
      /\ UNCHANGED <<rdHub, rdNow, rdPoll, rdClient, rdIds>>
  BY InWords DEF Republish
<1>2. HeadIn(rdHub) \in Nat /\ rdHub.base \in Nat /\ Here(rdHub, HeadIn(rdHub))
  <2>1. rdHub \in HubRec BY DEF PollsInv, PollsTyped
  <2>2. HeadIn(rdHub) \in Nat /\ rdHub.base \in Nat /\ HeadIn(rdHub) = rdHub.base + Len(rdHub.frames)
    BY <2>1, HeadGrows
  <2>3. Len(rdHub.frames) \in Nat BY <2>1, LenProperties DEF HubRec
  <2> QED BY <2>2, <2>3 DEF Here
<1>3. rdNow.rows \in Nat /\ rdPub.seq \in Nat /\ rdPoll.seq \in Nat /\ rdClient.seq \in Nat
  BY DEF PollsInv, PollsTyped
<1>4. PollsTyped' BY <1>1, <1>2, <1>3 DEF PollsInv, PollsTyped
<1>5. Generations' BY <1>1, <1>2 DEF PollsInv, Generations
<1>6. Pending' BY <1>1, <1>2, <1>3 DEF PollsInv, Pending, Here
<1>7. Answered'
  <2>1. SUFFICES ASSUME rdClient.boot = rdHub.boot, rdClient.mode = "tag"
        PROVE  /\ rdClient.seq <= HeadIn(rdHub)
               /\ rdClient.seq = HeadIn(rdHub) =>
                    (rdClient.health = rdNow.health \/ "health" \in rdDue) /\ rdClient.subs = rdNow.subs
    BY <1>1 DEF PollsInv, Answered
  <2>2. rdClient.seq <= rdPub.seq /\ rdPub.seq <= HeadIn(rdHub)
    BY <2>1 DEF PollsInv, Answered, Generations, Here
  <2>3. rdClient.seq <= HeadIn(rdHub) BY <1>2, <1>3, <2>2
  <2>4. ASSUME rdClient.seq = HeadIn(rdHub) PROVE rdPub.seq = HeadIn(rdHub) BY <1>2, <1>3, <2>2, <2>4
  <2>5. ~SubsIn(rdHub, HeadIn(rdHub)) BY <1>2 DEF SubsIn
  <2> QED BY <1>2, <1>3, <2>1, <2>3, <2>4, <2>5 DEF PollsInv, Answered
<1> QED BY <1>4, <1>5, <1>6, <1>7 DEF PollsInv

(* A boot begins with what it recovered, and no client of it yet.          *)
LEMMA RebootKeeps ==
  ASSUME PollsInv, NEW base, NEW rows, Reboot(base, rows)
  PROVE  PollsInv'
<1>1. /\ rdHub.boot < RdBoots /\ rdDue = {} /\ rdPoll = NoPoll
      /\ rdHub' = [boot |-> rdHub.boot + 1, base |-> base, rows |-> rows, frames |-> <<>>]
      /\ rdPub' = [seq |-> base, rows |-> rows] /\ rdNow' = [rdNow EXCEPT !.rows = rows]
      /\ UNCHANGED <<rdDue, rdFlush, rdPoll, rdClient, rdIds>>
  BY DEF Reboot
<1>2. rdHub \in HubRec /\ rdNow \in [rows : Nat, subs : Nat, health : Nat] /\ rdClient.boot \in Nat
  BY DEF PollsInv, PollsTyped
<1>3. base \in Nat /\ rows \in Nat
  <2>1. HeadSeq \in Nat BY <1>2, HeadGrows, InWords
  <2> QED BY <1>2, <2>1 DEF Reboot
<1>4. rdHub.boot \in 1..RdBoots /\ RdBoots \in Nat BY <1>2, RdAssumption DEF HubRec
<1>5. rdHub.boot + 1 \in 1..RdBoots BY <1>1, <1>4
<1>6. rdHub' \in HubRec
  <2>1. <<>> \in Seq(FrameRec) BY EmptySeq
  <2> QED BY <1>1, <1>3, <1>5, <2>1 DEF HubRec
<1>7. HeadIn(rdHub') = base /\ RowsIn(rdHub', base) = rows /\ Here(rdHub', base)
  <2>1. HeadIn(rdHub') = base + Len(<<>>) /\ rdHub'.base = base /\ rdHub'.rows = rows BY <1>1 DEF HeadIn
  <2>2. Len(<<>>) = 0 BY EmptySeq
  <2>3. AboutRows(rdHub', base) = {} BY <1>3, <2>1 DEF AboutRows
  <2>4. HeadIn(rdHub') = base BY <1>3, <2>1, <2>2
  <2> QED BY <1>3, <2>1, <2>3, <2>4 DEF RowsIn, Here
<1>8. rdNow' \in [rows : Nat, subs : Nat, health : Nat] /\ rdNow'.rows = rows BY <1>1, <1>2, <1>3
<1>9. PollsTyped' BY <1>1, <1>3, <1>6, <1>8 DEF PollsInv, PollsTyped
<1>10. Generations' BY <1>1, <1>7, <1>8 DEF Generations
<1>11. Pending' BY <1>1 DEF Pending, NoPoll
<1>12. Answered'
  <2>1. rdClient.boot <= rdHub.boot BY DEF PollsInv, Answered
  <2>2. rdClient.boot <= rdHub.boot + 1 /\ rdClient.boot # rdHub.boot + 1 BY <1>2, <1>4, <2>1
  <2> QED BY <1>1, <2>2 DEF Answered
<1> QED BY <1>9, <1>10, <1>11, <1>12 DEF PollsInv

(* What a request decides carries the rows of its number: the published    *)
(* ones, or those of the head put together from the client's and the       *)
(* frames after its cursor.                                                *)
Fits(plan) ==
  /\ plan \in [plan : {"snapshot", "merged", "same"}, seq : Nat, rows : Nat, boot : Nat]
  /\ plan.boot = rdHub.boot /\ Here(rdHub, plan.seq) /\ plan.rows = RowsIn(rdHub, plan.seq)
LEMMA SnapshotFits == ASSUME PollsInv PROVE Fits(Snapshot) /\ Snapshot.plan = "snapshot" /\ Snapshot.seq = rdPub.seq
<1>1. rdHub \in HubRec /\ rdPub \in [seq : Nat, rows : Nat] BY DEF PollsInv, PollsTyped
<1>2. rdHub.boot \in Nat BY <1>1, RdAssumption DEF HubRec
<1>3. Snapshot \in [plan : {"snapshot", "merged", "same"}, seq : Nat, rows : Nat, boot : Nat]
  BY <1>1, <1>2 DEF Snapshot
<1>4. /\ Snapshot.plan = "snapshot" /\ Snapshot.seq = rdPub.seq /\ Snapshot.rows = rdPub.rows
      /\ Snapshot.boot = rdHub.boot
  BY DEF Snapshot
<1> QED BY <1>3, <1>4 DEF PollsInv, Generations, Fits

LEMMA ResumeFits ==
  ASSUME PollsInv
  PROVE  Fits(Resume(rdClient.seq, rdClient.boot))
<1> DEFINE since == rdClient.seq
           told == {n \in AboutRows(rdHub, HeadIn(rdHub)) : n > since}
           word == IF since = HeadIn(rdHub) THEN "same" ELSE "merged"
           rows == IF told = {} THEN rdClient.rows ELSE rdHub.frames[Max(told) - rdHub.base].id
           plan == [plan |-> word, seq |-> HeadIn(rdHub), boot |-> rdHub.boot, rows |-> rows]
<1>1. CASE ~Confirmed(rdClient.boot) \/ since > HeadSeq \/ since < Floor
  BY <1>1, SnapshotFits DEF Resume
<1>2. CASE ~(~Confirmed(rdClient.boot) \/ since > HeadSeq \/ since < Floor)
  <2>1. Resume(since, rdClient.boot) = plan BY <1>2, InWords DEF Resume
  <2>2. rdClient.boot = rdHub.boot BY <1>2 DEF Confirmed
  <2>3. Here(rdHub, since) /\ rdClient.rows = RowsIn(rdHub, since) BY <2>2 DEF PollsInv, Answered
  <2>4. rdHub \in HubRec /\ since \in Nat BY DEF PollsInv, PollsTyped
  <2>5. HeadIn(rdHub) \in Nat /\ rdHub.boot \in Nat BY <2>4, HeadGrows, RdAssumption DEF HubRec
  <2>6. rows = RowsIn(rdHub, HeadIn(rdHub)) /\ rows \in Nat
    <3>1. CASE told = {}
      <4>1. \A k \in AboutRows(rdHub, HeadIn(rdHub)) : ~(k > since) BY <3>1
      <4>2. RowsIn(rdHub, HeadIn(rdHub)) = RowsIn(rdHub, since) BY <2>3, <2>4, <4>1, SameRows
      <4>3. RowsIn(rdHub, since) \in Nat BY <2>3, <2>4, RowsTyped
      <4> QED BY <2>3, <3>1, <4>2, <4>3
    <3>2. CASE told # {}
      <4> HIDE DEF since
      <4>1. PICK t : t = told OBVIOUS
      <4>2. RowsIn(rdHub, HeadIn(rdHub)) = rdHub.frames[Max(t) - rdHub.base].id /\ RowsIn(rdHub, HeadIn(rdHub)) \in Nat
        BY <2>3, <2>4, <3>2, <4>1, LaterRows
      <4> QED BY <3>2, <4>1, <4>2
    <3> QED BY <3>1, <3>2
  <2>7. Here(rdHub, HeadIn(rdHub)) BY <2>3, <2>4, <2>5, HeadGrows DEF Here
  <2>8. word \in {"snapshot", "merged", "same"} OBVIOUS
  <2> HIDE DEF word, rows
  <2>9. /\ plan \in [plan : {"snapshot", "merged", "same"}, seq : Nat, rows : Nat, boot : Nat]
        /\ plan.boot = rdHub.boot /\ plan.seq = HeadIn(rdHub) /\ plan.rows = rows
    BY <2>5, <2>6, <2>8
  <2>10. Fits(plan) BY <2>6, <2>7, <2>9 DEF Fits
  <2> QED BY <2>1, <2>10
<1> QED BY <1>1, <1>2

LEMMA DecideKeeps == ASSUME PollsInv, Decide PROVE PollsInv'
<1> DEFINE byCursor == Holds /\ rdClient.mode = "cursor"
           plan == IF byCursor THEN Resume(rdClient.seq, rdClient.boot) ELSE Snapshot
           same == Holds /\ rdClient.mode = "tag" /\ Tag(plan) = <<rdClient.boot, rdClient.seq>>
<1>1. /\ rdPoll = NoPoll /\ UNCHANGED <<rdHub, rdPub, rdNow, rdDue, rdFlush, rdIds>>
      /\ IF same \/ plan.plan = "same" THEN rdClient' = [rdClient EXCEPT !.same = TRUE] /\ UNCHANGED rdPoll
         ELSE rdPoll' = [plan EXCEPT !.seq = Tag(plan)[2]] /\ rdClient' = [rdClient EXCEPT !.same = FALSE]
  BY DEF Decide
<1>2. Fits(plan) BY SnapshotFits, ResumeFits
<1>3. rdClient.mode = "tag" => plan.plan = "snapshot" /\ plan.seq = rdPub.seq BY SnapshotFits
<1>4. Tag(plan)[2] = plan.seq BY DEF Tag
<1> HIDE DEF plan, same
<1>5. \E told \in BOOLEAN : rdClient' = [rdClient EXCEPT !.same = told] BY <1>1
<1>6. rdClient \in [mode : {"tag", "cursor"}, boot : Nat, seq : Nat, rows : Nat, subs : Nat, health : Nat, same : BOOLEAN]
  BY DEF PollsInv, PollsTyped
<1>7. /\ rdClient' \in [mode : {"tag", "cursor"}, boot : Nat, seq : Nat, rows : Nat, subs : Nat, health : Nat, same : BOOLEAN]
      /\ rdClient'.mode = rdClient.mode /\ rdClient'.boot = rdClient.boot /\ rdClient'.seq = rdClient.seq
      /\ rdClient'.rows = rdClient.rows /\ rdClient'.subs = rdClient.subs /\ rdClient'.health = rdClient.health
  BY <1>5, <1>6
<1>8. rdPoll' = rdPoll \/ (rdPoll' = plan /\ plan.plan # "same")
  <2>1. [plan EXCEPT !.seq = plan.seq] = plan BY <1>2 DEF Fits
  <2> QED BY <1>1, <1>4, <2>1
<1>9. PollsTyped' BY <1>1, <1>2, <1>7, <1>8 DEF PollsInv, PollsTyped, Fits
<1>10. Generations' BY <1>1 DEF PollsInv, Generations
<1>11. Pending'
  <2>1. CASE rdPoll' = rdPoll BY <1>1, <2>1 DEF Pending
  <2>2. CASE rdPoll' = plan /\ plan.plan # "same"
    <3>1. rdPub.seq \in Nat /\ rdPub' = rdPub /\ rdHub' = rdHub BY <1>1 DEF PollsInv, PollsTyped
    <3>2. plan.plan \in {"snapshot", "merged"} BY <1>2, <2>2 DEF Fits
    <3> QED BY <1>2, <1>3, <1>7, <2>2, <3>1, <3>2 DEF Pending, Fits
  <2> QED BY <1>8, <2>1, <2>2
<1>12. Answered' BY <1>1, <1>7 DEF PollsInv, Answered
<1> QED BY <1>9, <1>10, <1>11, <1>12 DEF PollsInv

(* The answer's rows are of its number, its health and subscriptions of    *)
(* now, which is no earlier.                                               *)
LEMMA AnswerKeeps == ASSUME PollsInv, Answer PROVE PollsInv'
<1> DEFINE full == rdPoll.plan = "snapshot"
           subs == IF full THEN rdNow.subs ELSE rdClient.subs
           health == IF full THEN rdNow.health ELSE rdClient.health
<1>1. /\ rdPoll # NoPoll /\ rdPoll' = NoPoll /\ UNCHANGED <<rdHub, rdPub, rdNow, rdDue, rdFlush, rdIds>>
      /\ rdClient' = [rdClient EXCEPT !.boot = rdPoll.boot, !.seq = rdPoll.seq, !.rows = rdPoll.rows,
                        !.subs = subs, !.health = health]
  BY DEF Answer
<1>2. /\ rdPoll \in [plan : {"none", "snapshot", "merged"}, seq : Nat, rows : Nat, boot : Nat]
      /\ rdClient \in [mode : {"tag", "cursor"}, boot : Nat, seq : Nat, rows : Nat, subs : Nat, health : Nat, same : BOOLEAN]
      /\ rdNow \in [rows : Nat, subs : Nat, health : Nat]
  BY DEF PollsInv, PollsTyped
<1>3. subs \in Nat /\ health \in Nat BY <1>2
<1>4. full => subs = rdNow.subs /\ health = rdNow.health OBVIOUS
<1> HIDE DEF subs, health
<1>5. /\ rdClient' \in [mode : {"tag", "cursor"}, boot : Nat, seq : Nat, rows : Nat, subs : Nat, health : Nat, same : BOOLEAN]
      /\ rdClient'.mode = rdClient.mode /\ rdClient'.boot = rdPoll.boot /\ rdClient'.seq = rdPoll.seq
      /\ rdClient'.rows = rdPoll.rows /\ rdClient'.subs = subs /\ rdClient'.health = health
  BY <1>1, <1>2, <1>3
<1>6. /\ rdPoll.boot = rdHub.boot /\ Here(rdHub, rdPoll.seq) /\ rdPoll.rows = RowsIn(rdHub, rdPoll.seq)
      /\ rdClient.mode = "tag" => rdPoll.plan = "snapshot" /\ rdPoll.seq <= rdPub.seq
  BY <1>1 DEF PollsInv, Pending
<1>7. PollsTyped'
  <2>1. NoPoll \in [plan : {"none", "snapshot", "merged"}, seq : Nat, rows : Nat, boot : Nat]
    BY DEF NoPoll
  <2> QED BY <1>1, <1>5, <2>1 DEF PollsInv, PollsTyped
<1>8. Generations' BY <1>1 DEF PollsInv, Generations
<1>9. Pending' BY <1>1 DEF Pending
<1>10. Answered'
  <2>1. rdHub.boot <= rdHub.boot
    <3>1. rdHub.boot \in 1..RdBoots BY DEF PollsInv, PollsTyped, HubRec
    <3> QED BY <3>1
  <2> QED BY <1>1, <1>4, <1>5, <1>6, <2>1 DEF Answered
<1> QED BY <1>7, <1>8, <1>9, <1>10 DEF PollsInv

LEMMA PollsKeep == ASSUME PollsInv, [PollsNext]_rdVars PROVE PollsInv'
<1>1. CASE PollsNext
  BY <1>1, RowsChangeKeeps, FlushBeginsKeeps, FlushTellsKeeps, RepublishKeeps, SubsChangeKeeps,
      OtherFrameKeeps,
     HealthMovesKeeps, OnHealthKeeps, RebootKeeps, DecideKeeps, AnswerKeeps, Zenon DEF PollsNext
<1>2. CASE UNCHANGED rdVars
  BY <1>2 DEF rdVars, pollVars, PollsInv, PollsTyped, Generations, Pending, Answered
<1> QED BY <1>1, <1>2

(* What the invariant is for.                                              *)
LEMMA PollsFit == ASSUME PollsInv PROVE HoldsWhatItNames /\ SameMeansSame
<1>1. HoldsWhatItNames BY InWords DEF HoldsWhatItNames, PollsInv, Answered
<1>2. SameMeansSame
  <2>1. SUFFICES ASSUME rdDue = {}, rdClient.boot = rdHub.boot,
                        rdClient.seq = IF rdClient.mode = "tag" THEN rdPub.seq ELSE HeadIn(rdHub)
        PROVE  /\ rdClient.rows = rdNow.rows
               /\ rdClient.mode = "tag" =>
                    rdClient.health = rdNow.health /\ (SubsIn(rdHub, rdPub.seq) \/ rdClient.subs = rdNow.subs)
    BY InWords DEF SameMeansSame
  <2>2. rdClient.rows = RowsIn(rdHub, rdClient.seq) BY <2>1 DEF PollsInv, Answered
  <2>3. RowsIn(rdHub, rdPub.seq) = rdNow.rows /\ RowsIn(rdHub, HeadIn(rdHub)) = rdNow.rows
    BY <2>1 DEF PollsInv, Generations
  <2> QED BY <2>1, <2>2, <2>3 DEF PollsInv, Answered
<1> QED BY <1>1, <1>2

-----------------------------------------------------------------------------
(* The pages: a row the filter selects all the time is one the listing has *)
(* returned, or one its cursor has not reached.                            *)
PagesTyped ==
  /\ DOMAIN rdRows \subseteq 1..RdOrds /\ rdOrd \in 0..RdOrds /\ rdFlips \in 0..RdFlips
  /\ rdList \in [pc : {"off", "count", "fetch", "end"}, after : Nat, limit : 1..RdLimit, got : Seq(1..RdOrds), total : Nat]
Reached ==
  /\ InOrder(rdList.got) /\ \A o \in Range(rdList.got) : o <= rdList.after /\ o \in rdEver
  /\ rdList.pc # "off" => rdStay \subseteq Selected(rdRows) /\ Selected(rdRows) \subseteq rdEver
  /\ rdList.pc # "off" => \A o \in rdStay : o <= rdList.after => o \in Range(rdList.got)
  /\ rdList.pc = "off" => rdList.got = <<>> /\ rdList.after = NoCursor
  /\ rdList.pc = "end" => rdStay \subseteq Range(rdList.got)
PagesInv == PagesTyped /\ Reached

(* What comes after everything in a sequence goes at its end.              *)
LEMMA GoesOn ==
  ASSUME NEW S \in SUBSET Nat, NEW a \in Seq(S), NEW b \in Seq(S), InOrder(a), InOrder(b),
         NEW m \in Nat, \A o \in Range(a) : o <= m, \A o \in Range(b) : m < o
  PROVE  a \o b \in Seq(S) /\ InOrder(a \o b) /\ Range(a \o b) = Range(a) \cup Range(b)
<1>1. /\ Len(a) \in Nat /\ DOMAIN a = 1..Len(a) /\ \A i \in 1..Len(a) : a[i] \in S
      /\ Len(b) \in Nat /\ DOMAIN b = 1..Len(b) /\ \A i \in 1..Len(b) : b[i] \in S
  BY LenProperties
<1>2. PICK la \in Nat, lb \in Nat : la = Len(a) /\ lb = Len(b) BY <1>1
<1>3. /\ a \o b \in Seq(S) /\ Len(a \o b) = la + lb
      /\ \A i \in 1..la + lb : (a \o b)[i] = IF i <= la THEN a[i] ELSE b[i - la]
  BY <1>2, ConcatProperties
<1>4. DOMAIN (a \o b) = 1..la + lb BY <1>3, LenProperties
<1>5. PICK c : c = a \o b OBVIOUS
<1>6. /\ DOMAIN c = 1..la + lb
      /\ \A i \in 1..la : c[i] = a[i]
      /\ \A i \in 1..lb : c[la + i] = b[i]
      /\ \A i \in la + 1..la + lb : i - la \in 1..lb /\ c[i] = b[i - la]
  BY <1>2, <1>3, <1>4, <1>5
<1>7. /\ \A i \in 1..la : a[i] \in Nat /\ a[i] <= m
      /\ \A i \in 1..lb : b[i] \in Nat /\ m < b[i]
  BY <1>1, <1>2 DEF Range
<1>8. InOrder(c)
  <2> SUFFICES ASSUME NEW i \in 1..la + lb, NEW j \in 1..la + lb, i < j PROVE c[i] < c[j]
    BY <1>6 DEF InOrder
  <2>1. CASE j <= la
    <3>1. i \in 1..la /\ j \in 1..la BY <2>1
    <3> QED BY <1>1, <1>2, <1>6, <3>1 DEF InOrder
  <2>2. CASE i <= la /\ j > la
    <3>1. i \in 1..la /\ j - la \in 1..lb BY <2>2
    <3>2. j \in la + 1..la + lb BY <2>2
    <3>3. c[i] = a[i] /\ c[j] = b[j - la] BY <1>6, <3>1, <3>2
    <3>4. a[i] \in Nat /\ a[i] <= m /\ b[j - la] \in Nat /\ m < b[j - la] BY <1>7, <3>1
    <3> QED BY <3>3, <3>4
  <2>3. CASE i > la
    <3>1. i \in la + 1..la + lb /\ j \in la + 1..la + lb /\ i - la < j - la BY <2>3
    <3>2. i - la \in 1..lb /\ j - la \in 1..lb BY <1>6, <3>1
    <3>3. b[i - la] < b[j - la] BY <1>1, <1>2, <3>1, <3>2 DEF InOrder
    <3> QED BY <1>6, <3>1, <3>3
  <2> QED BY <2>1, <2>2, <2>3
<1>9. Range(c) = Range(a) \cup Range(b)
  <2>1. ASSUME NEW i \in 1..la + lb PROVE c[i] \in Range(a) \cup Range(b)
    <3>1. CASE i <= la BY <1>1, <1>2, <1>6, <2>1, <3>1 DEF Range
    <3>2. CASE i > la
      <4>1. i \in la + 1..la + lb BY <2>1, <3>2
      <4> QED BY <1>1, <1>2, <1>6, <4>1 DEF Range
    <3> QED BY <2>1, <3>1, <3>2
  <2>2. ASSUME NEW i \in 1..la PROVE a[i] \in Range(c)
    <3>1. i \in 1..la + lb BY <2>2
    <3> QED BY <1>6, <2>2, <3>1 DEF Range
  <2>3. ASSUME NEW i \in 1..lb PROVE b[i] \in Range(c)
    <3>1. la + i \in 1..la + lb BY <2>3
    <3> QED BY <1>6, <2>3, <3>1 DEF Range
  <2>4. \A o \in Range(c) : \E i \in 1..la + lb : o = c[i] BY <1>6 DEF Range
  <2>5. \A o \in Range(a) : \E i \in 1..la : o = a[i] BY <1>1, <1>2 DEF Range
  <2>6. \A o \in Range(b) : \E i \in 1..lb : o = b[i] BY <1>1, <1>2 DEF Range
  <2> QED BY <2>1, <2>2, <2>3, <2>4, <2>5, <2>6
<1> QED BY <1>3, <1>5, <1>8, <1>9

(* A page is a sequence of the rows it is a page of.                       *)
LEMMA PageIsSeq ==
  ASSUME NEW S, NEW n \in Nat, NEW page \in BoundedSeq(S, n)
  PROVE  page \in Seq(S) /\ \A T : S \subseteq T => page \in Seq(T)
<1>1. PICK m \in 0..n : page \in [1..m -> S] BY DEF BoundedSeq, SeqOf
<1>2. page \in Seq(S) BY <1>1
<1>3. ASSUME NEW T, S \subseteq T PROVE page \in Seq(T)
  <2>1. page \in [1..m -> T] BY <1>1, <1>3
  <2> QED BY <1>1, <2>1
<1> QED BY <1>2, <1>3

LEMMA PagesStart == PagesInit => PagesInv
<1> SUFFICES ASSUME PagesInit PROVE PagesInv OBVIOUS
<1>1. /\ rdRows = [o \in 1..3 |-> TRUE] /\ rdOrd = 3 /\ rdFlips = 0
      /\ rdList = [pc |-> "off", after |-> 0, limit |-> 1, got |-> <<>>, total |-> 0]
  BY DEF PagesInit, NoCursor
<1>2. RdOrds \in Nat /\ 3 <= RdOrds /\ RdFlips \in Nat BY RdAssumption
<1>3. <<>> \in Seq(1..RdOrds) /\ Range(<<>>) = {} /\ DOMAIN <<>> = {}
  BY EmptySeq, LenProperties DEF Range
<1>4. PagesTyped
  <2>1. 3 \in 0..RdOrds /\ 0 \in 0..RdFlips /\ 1 \in 1..RdLimit BY <1>2, RdAssumption
  <2>2. DOMAIN rdRows = 1..3 BY <1>1
  <2>3. DOMAIN rdRows \subseteq 1..RdOrds BY <1>2, <2>2
  <2>4. rdList \in [pc : {"off", "count", "fetch", "end"}, after : Nat, limit : 1..RdLimit, got : Seq(1..RdOrds), total : Nat]
    BY <1>1, <1>3, <2>1
  <2> QED BY <1>1, <2>1, <2>3, <2>4 DEF PagesTyped
<1>5. Reached BY <1>1, <1>3 DEF Reached, InOrder, NoCursor
<1> QED BY <1>4, <1>5 DEF PagesInv

(* A change of the rows leaves selected all the time only rows selected    *)
(* after it, and none that was not before it.                              *)
LEMMA Remembered ==
  ASSUME PagesInv, Remembers, rdList' = rdList
  PROVE  Reached'
<1>1. rdList.pc # "off" =>
        /\ rdStay' = rdStay \cap Selected(rdRows') /\ rdEver' = rdEver \cup Selected(rdRows')
  BY DEF Remembers
<1>2. rdList.pc = "off" => rdStay' = rdStay /\ rdEver' = rdEver BY DEF Remembers
<1>3. CASE rdList.pc = "off" BY <1>2, <1>3 DEF PagesInv, Reached
<1>4. CASE rdList.pc # "off"
  <2> HIDE DEF Selected
  <2> QED BY <1>1, <1>4 DEF PagesInv, Reached
<1> QED BY <1>3, <1>4

LEMMA InsertKeeps == ASSUME PagesInv, Insert PROVE PagesInv'
<1>1. /\ rdOrd < RdOrds /\ rdOrd' = rdOrd + 1 /\ Remembers /\ UNCHANGED <<rdList, rdFlips>>
      /\ DOMAIN rdRows' = DOMAIN rdRows \cup {rdOrd'}
  BY DEF Insert
<1>2. rdOrd \in 0..RdOrds /\ RdOrds \in Nat BY RdAssumption DEF PagesInv, PagesTyped
<1>3. rdOrd' \in 1..RdOrds BY <1>1, <1>2
<1>4. rdOrd' \in 0..RdOrds BY <1>3
<1>5. PagesTyped' BY <1>1, <1>3, <1>4 DEF PagesInv, PagesTyped
<1>6. Reached' BY <1>1, Remembered
<1> QED BY <1>5, <1>6 DEF PagesInv

LEMMA DeleteRowKeeps == ASSUME PagesInv, NEW o \in 1..RdOrds, DeleteRow(o) PROVE PagesInv'
<1>1. /\ DOMAIN rdRows' = DOMAIN rdRows \ {o} /\ Remembers /\ UNCHANGED <<rdOrd, rdList, rdFlips>>
  BY DEF DeleteRow
<1>2. PagesTyped' BY <1>1 DEF PagesInv, PagesTyped
<1>3. Reached' BY <1>1, Remembered
<1> QED BY <1>2, <1>3 DEF PagesInv

LEMMA FlipKeeps == ASSUME PagesInv, NEW o \in 1..RdOrds, Flip(o) PROVE PagesInv'
<1>1. /\ DOMAIN rdRows' = DOMAIN rdRows /\ Remembers /\ UNCHANGED <<rdOrd, rdList>>
      /\ rdFlips < RdFlips /\ rdFlips' = rdFlips + 1
  BY DEF Flip
<1>2. rdFlips' \in 0..RdFlips BY <1>1, RdAssumption DEF PagesInv, PagesTyped
<1>3. PagesTyped' BY <1>1, <1>2 DEF PagesInv, PagesTyped
<1>4. Reached' BY <1>1, Remembered
<1> QED BY <1>3, <1>4 DEF PagesInv

(* A listing begins with nothing returned and everything ahead of it.      *)
LEMMA OpenListKeeps == ASSUME PagesInv, NEW limit \in 1..RdLimit, OpenList(limit) PROVE PagesInv'
<1>1. /\ rdList.pc = "off" /\ rdList' = [rdList EXCEPT !.pc = "count", !.limit = limit]
      /\ rdStay' = Selected(rdRows) /\ rdEver' = Selected(rdRows) /\ UNCHANGED <<rdRows, rdOrd, rdFlips>>
  BY DEF OpenList
<1>2. /\ rdList \in [pc : {"off", "count", "fetch", "end"}, after : Nat, limit : 1..RdLimit, got : Seq(1..RdOrds), total : Nat]
      /\ rdList.got = <<>> /\ rdList.after = 0
  BY <1>1 DEF PagesInv, PagesTyped, Reached, NoCursor
<1>3. /\ rdList' \in [pc : {"off", "count", "fetch", "end"}, after : Nat, limit : 1..RdLimit, got : Seq(1..RdOrds), total : Nat]
      /\ rdList'.pc = "count" /\ rdList'.got = <<>> /\ rdList'.after = 0
  BY <1>1, <1>2
<1>4. PagesTyped' BY <1>1, <1>3 DEF PagesInv, PagesTyped
<1>5. Range(<<>>) = {} /\ DOMAIN <<>> = {} BY EmptySeq, LenProperties DEF Range
<1>6. \A o \in Selected(rdRows) : ~(o <= 0)
  <2>1. \A o \in DOMAIN rdRows : o \in 1..RdOrds BY DEF PagesInv, PagesTyped
  <2> QED BY <2>1, RdAssumption DEF Selected
<1>7. Selected(rdRows)' = Selected(rdRows) BY <1>1 DEF Selected
<1>8. Reached' BY <1>1, <1>3, <1>5, <1>6, <1>7 DEF Reached, InOrder
<1> QED BY <1>4, <1>8 DEF PagesInv

LEMMA CountKeeps == ASSUME PagesInv, Count PROVE PagesInv'
<1>1. /\ rdList.pc = "count" /\ rdList' = [rdList EXCEPT !.pc = "fetch", !.total = Cardinality(Selected(rdRows))]
      /\ UNCHANGED <<rdRows, rdOrd, rdFlips, rdStay, rdEver>>
  BY DEF Count
<1>2. Cardinality(Selected(rdRows)) \in Nat
  <2>1. Selected(rdRows) \subseteq 1..RdOrds BY DEF Selected, PagesInv, PagesTyped
  <2>2. IsFiniteSet(1..RdOrds) BY FS_Interval, RdAssumption
  <2> QED BY <2>1, <2>2, FS_Subset, FS_CardinalityType
<1>3. rdList \in [pc : {"off", "count", "fetch", "end"}, after : Nat, limit : 1..RdLimit, got : Seq(1..RdOrds), total : Nat]
  BY DEF PagesInv, PagesTyped
<1>4. /\ rdList' \in [pc : {"off", "count", "fetch", "end"}, after : Nat, limit : 1..RdLimit, got : Seq(1..RdOrds), total : Nat]
      /\ rdList'.pc = "fetch" /\ rdList'.got = rdList.got /\ rdList'.after = rdList.after
  BY <1>1, <1>2, <1>3
<1>5. PagesTyped' BY <1>1, <1>4 DEF PagesInv, PagesTyped
<1>6. Selected(rdRows)' = Selected(rdRows) BY <1>1 DEF Selected
<1>7. Reached' BY <1>1, <1>4, <1>6 DEF PagesInv, Reached
<1> QED BY <1>5, <1>7 DEF PagesInv

(* The page goes on where the cursor stands, and what it leaves out is     *)
(* beyond its last row.                                                    *)
LEMMA FetchKeeps == ASSUME PagesInv, Fetch PROVE PagesInv'
<1> DEFINE S == After(rdList.after)
           List == [pc : {"off", "count", "fetch", "end"}, after : Nat, limit : 1..RdLimit, got : Seq(1..RdOrds), total : Nat]
<1>1. rdList.pc = "fetch" /\ UNCHANGED <<rdRows, rdOrd, rdFlips, rdStay, rdEver>> BY DEF Fetch
<1>2. PICK page \in PagesOf(S) :
        rdList' = [rdList EXCEPT !.got = @ \o page,
                     !.pc = IF Len(page) >= rdList.limit THEN "count" ELSE "end",
                     !.after = IF page = <<>> THEN @ ELSE Last(page)]
  BY DEF Fetch
<1>3. rdList \in List BY DEF PagesInv, PagesTyped
<1>4. S \subseteq 1..RdOrds /\ \A o \in S : o \in Nat /\ rdList.after < o /\ o \in Selected(rdRows)
  <2>1. \A o \in DOMAIN rdRows : o \in 1..RdOrds BY DEF PagesInv, PagesTyped
  <2> QED BY <1>3, <2>1, RdAssumption DEF After, Selected
<1> HIDE DEF S
<1>5. /\ page \in Seq(S) /\ page \in Seq(1..RdOrds) /\ InOrder(page)
      /\ \A o \in S \ Range(page) : Len(page) = rdList.limit /\ \A k \in DOMAIN page : page[k] < o
  <2>1. rdList.limit \in Nat BY <1>3, RdAssumption
  <2>2. /\ page \in BoundedSeq(S, rdList.limit) /\ InOrder(page)
        /\ \A o \in S \ Range(page) : Len(page) = rdList.limit /\ \A k \in DOMAIN page : page[k] < o
    BY <1>2, Zenon DEF PagesOf
  <2>3. page \in Seq(S) /\ page \in Seq(1..RdOrds) BY <1>4, <2>1, <2>2, PageIsSeq, Zenon
  <2> QED BY <2>2, <2>3
<1>6. PICK n \in Nat : n = Len(page)
  <2>1. Len(page) \in Nat BY <1>5, LenProperties
  <2> QED BY <2>1
<1>7. DOMAIN page = 1..n /\ \A k \in 1..n : page[k] \in S BY <1>5, <1>6, LenProperties
<1>8. \A o \in Range(page) : o \in S /\ \E k \in 1..n : o = page[k] BY <1>7 DEF Range
<1>9. PICK old : old = rdList.got /\ old \in Seq(1..RdOrds) BY <1>3
<1>10. PICK after : after = IF page = <<>> THEN rdList.after ELSE Last(page) OBVIOUS
<1>11. PICK pc : pc = IF Len(page) >= rdList.limit THEN "count" ELSE "end" OBVIOUS
<1>12. PICK got : got = rdList.got \o page OBVIOUS
<1>13. /\ got \in Seq(1..RdOrds) /\ InOrder(got) /\ Range(got) = Range(rdList.got) \cup Range(page)
  <2>1. 1..RdOrds \in SUBSET Nat BY RdAssumption
  <2>2. \A o \in Range(page) : rdList.after < o BY <1>4, <1>8
  <2>3. InOrder(old) /\ \A o \in Range(old) : o <= rdList.after BY <1>9 DEF PagesInv, Reached
  <2>4. PICK m \in Nat : m = rdList.after BY <1>3
  <2>5. PICK rows : rows = 1..RdOrds OBVIOUS
  <2>6. rows \in SUBSET Nat /\ old \in Seq(rows) /\ page \in Seq(rows) BY <1>5, <1>9, <2>1, <2>5
  <2>7. (\A o \in Range(old) : o <= m) /\ (\A o \in Range(page) : m < o) BY <2>2, <2>3, <2>4
  <2>8. old \o page \in Seq(rows) /\ InOrder(old \o page) /\ Range(old \o page) = Range(old) \cup Range(page)
    BY <1>5, <2>3, <2>6, <2>7, GoesOn
  <2> QED BY <1>9, <1>12, <2>5, <2>8
<1>14. /\ after \in Nat /\ rdList.after <= after /\ \A o \in Range(page) : o <= after
       /\ after = rdList.after \/ \E k \in 1..n : after = page[k]
  <2>1. CASE page = <<>>
    <3>1. Range(page) = {} BY <1>6, <1>8, <2>1, EmptySeq
    <3> QED BY <1>3, <1>10, <2>1, <3>1
  <2>2. CASE page # <<>>
    <3>1. n # 0 BY <1>5, <1>6, <2>2
    <3>2. n \in 1..n /\ after = page[n] BY <1>6, <1>10, <2>2, <3>1 DEF Last
    <3>3. page[n] \in Nat /\ rdList.after < page[n] BY <1>4, <1>7, <3>2
    <3>4. \A k \in 1..n : page[k] \in Nat /\ page[k] <= page[n]
      <4> SUFFICES ASSUME NEW k \in 1..n PROVE page[k] \in Nat /\ page[k] <= page[n] OBVIOUS
      <4>1. page[k] \in Nat BY <1>4, <1>7
      <4>2. k < n => page[k] < page[n] BY <1>5, <1>7, <3>2 DEF InOrder
      <4>3. k < n \/ k = n OBVIOUS
      <4> QED BY <3>3, <4>1, <4>2, <4>3
    <3> QED BY <1>3, <1>8, <3>2, <3>3, <3>4
  <2> QED BY <2>1, <2>2
<1>15. pc \in {"count", "end"} /\ (pc = "end" => Len(page) # rdList.limit)
  <2>1. rdList.limit \in Nat BY <1>3, RdAssumption
  <2> QED BY <1>6, <1>11, <2>1
<1>16. rdList' \in List /\ rdList'.pc = pc /\ rdList'.got = got /\ rdList'.after = after
  <2>1. rdList' = [rdList EXCEPT !.got = got, !.pc = pc, !.after = after] BY <1>2, <1>10, <1>11, <1>12
  <2> QED BY <1>3, <1>13, <1>14, <1>15, <2>1
<1>17. PagesTyped' BY <1>1, <1>16 DEF PagesInv, PagesTyped
<1>18. Selected(rdRows)' = Selected(rdRows) BY <1>1 DEF Selected
<1>19. rdStay \subseteq Selected(rdRows) /\ Selected(rdRows) \subseteq rdEver
  BY <1>1 DEF PagesInv, Reached
<1>20. \A o \in Range(got) : o <= after /\ o \in rdEver
  <2>1. ASSUME NEW o \in Range(rdList.got) PROVE o <= after /\ o \in rdEver
    <3>1. o <= rdList.after /\ o \in rdEver BY DEF PagesInv, Reached
    <3>2. o \in 1..RdOrds
      <4>1. PICK k \in DOMAIN old : o = old[k] BY <1>9 DEF Range
      <4>2. k \in 1..Len(old) BY <1>9, <4>1, LenProperties
      <4> QED BY <1>9, <4>1, <4>2, ElementOfSeq
    <3>3. o \in Nat BY <3>2, RdAssumption
    <3> QED BY <1>3, <1>14, <3>1, <3>3
  <2>2. ASSUME NEW o \in Range(page) PROVE o <= after /\ o \in rdEver BY <1>4, <1>8, <1>14, <1>19
  <2> QED BY <1>13, <2>1, <2>2
<1>21. ASSUME NEW o \in rdStay PROVE o \in Range(got) \/ (o > after /\ Len(page) = rdList.limit)
  <2>1. o \in Selected(rdRows) /\ o \in DOMAIN rdRows BY <1>19 DEF Selected
  <2>2. o \in Nat
    <3>1. o \in 1..RdOrds BY <2>1 DEF PagesInv, PagesTyped
    <3> QED BY <3>1, RdAssumption
  <2>3. CASE o <= rdList.after BY <1>1, <1>13, <2>3 DEF PagesInv, Reached
  <2>4. CASE rdList.after < o /\ o \notin Range(page)
    <3>1. o \in S \ Range(page) BY <2>1, <2>4 DEF S, After
    <3>2. Len(page) = rdList.limit /\ \A k \in 1..n : page[k] < o BY <1>5, <1>7, <3>1
    <3>3. after < o BY <1>14, <2>4, <3>2
    <3> QED BY <1>14, <2>2, <3>2, <3>3
  <2>5. CASE o \in Range(page) BY <1>13, <2>5
  <2> QED BY <1>3, <2>2, <2>3, <2>4, <2>5
<1>22. \A o \in rdStay : o <= after => o \in Range(got)
  <2>1. \A o \in rdStay : o \in Nat
    <3>1. \A o \in rdStay : o \in 1..RdOrds BY <1>19 DEF Selected, PagesInv, PagesTyped
    <3> QED BY <3>1, RdAssumption
  <2> QED BY <1>14, <1>21, <2>1
<1>23. pc = "end" => rdStay \subseteq Range(got) BY <1>15, <1>21
<1>24. Reached' BY <1>1, <1>13, <1>15, <1>16, <1>18, <1>19, <1>20, <1>22, <1>23 DEF Reached
<1> QED BY <1>17, <1>24 DEF PagesInv

LEMMA PagesKeep == ASSUME PagesInv, [PagesNext]_rdVars PROVE PagesInv'
<1>1. CASE PagesNext
  BY <1>1, InsertKeeps, DeleteRowKeeps, FlipKeeps, OpenListKeeps, CountKeeps, FetchKeeps, Zenon
      DEF PagesNext
<1>2. CASE UNCHANGED rdVars
  BY <1>2 DEF rdVars, pageVars, PagesInv, PagesTyped, Reached, Selected
<1> QED BY <1>1, <1>2

LEMMA PagesFit == ASSUME PagesInv PROVE ListsAll
BY DEF PagesInv, Reached, ListsAll

-----------------------------------------------------------------------------
LEMMA ReadsTyped == ASSUME PollsInv, PagesInv PROVE ReadsTypeOK
<1>1. rdHub \in HubRec /\ rdPub.seq \in Nat /\ rdClient.boot \in Nat BY DEF PollsInv, PollsTyped
<1>2. rdHub.boot \in 1..RdBoots /\ rdHub.boot \in Nat BY <1>1, RdAssumption DEF HubRec
<1>3. rdPub.seq \in 0..HeadSeq
  <2>1. HeadIn(rdHub) \in Nat /\ HeadSeq = HeadIn(rdHub) BY <1>1, HeadGrows, InWords
  <2>2. rdPub.seq <= HeadIn(rdHub) BY DEF PollsInv, Generations, Here
  <2> QED BY <1>1, <2>1, <2>2
<1>4. rdClient.boot \in 0..rdHub.boot
  <2>1. rdClient.boot <= rdHub.boot BY DEF PollsInv, Answered
  <2> QED BY <1>1, <1>2, <2>1
<1>5. Range(rdList.got) \subseteq 1..RdOrds
  <2>1. PICK got \in Seq(1..RdOrds) : got = rdList.got BY DEF PagesInv, PagesTyped
  <2>2. \A k \in DOMAIN got : got[k] \in 1..RdOrds BY LenProperties, ElementOfSeq
  <2> QED BY <2>1, <2>2 DEF Range
<1>6. /\ rdIds \in 0..RdChanges /\ rdFlush \in BOOLEAN
      /\ rdDue \subseteq {"rows", "health", "generation"} /\ rdPoll.plan \in {"none", "snapshot", "merged"}
      /\ rdClient.mode \in {"tag", "cursor"} /\ rdClient.same \in BOOLEAN
  BY DEF PollsInv, PollsTyped
<1>7. /\ DOMAIN rdRows \subseteq 1..RdOrds /\ rdOrd \in 0..RdOrds /\ rdFlips \in 0..RdFlips
      /\ rdList.pc \in {"off", "count", "fetch", "end"} /\ rdList.limit \in 1..RdLimit
  BY DEF PagesInv, PagesTyped
<1> QED BY <1>2, <1>3, <1>4, <1>5, <1>6, <1>7 DEF ReadsTypeOK

(* A poll touches no page, a page no poll.                                 *)
LEMMA ReadsKeep == ASSUME PollsInv, PagesInv, [ReadsNext]_rdVars PROVE PollsInv' /\ PagesInv'
<1>1. CASE PollsNext
  <2>1. UNCHANGED <<rdRows, rdOrd, rdList, rdFlips, rdStay, rdEver>> BY <1>1 DEF PollsNext, pageVars
  <2>2. PagesInv' BY <2>1 DEF PagesInv, PagesTyped, Reached, Selected
  <2> QED BY <1>1, <2>2, PollsKeep
<1>2. CASE PagesNext
  <2>1. UNCHANGED <<rdHub, rdPub, rdNow, rdDue, rdFlush, rdPoll, rdClient, rdIds>>
    BY <1>2 DEF PagesNext, pollVars
  <2>2. PollsInv' BY <2>1 DEF PollsInv, PollsTyped, Generations, Pending, Answered
  <2> QED BY <1>2, <2>2, PagesKeep
<1>3. CASE UNCHANGED rdVars BY <1>3, PollsKeep, PagesKeep
<1> QED BY <1>1, <1>2, <1>3 DEF ReadsNext

(* What several requests tell a client fits together: the rows a client    *)
(* holds are those its number names, one that is told nothing changed      *)
(* holds what is true now (but for subscriptions that make no generation), *)
(* and a listing that ended skipped none of the rows the filter selected   *)
(* all the time and returned none twice.                                   *)
THEOREM ReadsFitTogether == ReadsSpec => []ReadsHold
<1>1. ReadsInit => PollsInv /\ PagesInv BY Starts, PagesStart DEF ReadsInit
<1>2. PollsInv /\ PagesInv /\ [ReadsNext]_rdVars => PollsInv' /\ PagesInv' BY ReadsKeep
<1>3. PollsInv /\ PagesInv => ReadsHold BY ReadsTyped, PollsFit, PagesFit DEF ReadsHold, ReadsFit
<1> QED BY <1>1, <1>2, <1>3, PTL DEF ReadsSpec

-----------------------------------------------------------------------------
(* What has gone wrong so that outputs may stay behind.                    *)
Spoilt == flLost \cap {"untold", "unread", "crash"} # {}
Reports == flMail \cap {"finished", "failed"}
Over == ~Listed \/ flRow.st \in Terminal

Rows  == [st : Terminal \cup {"queued", "parked", "active"}, waits : BOOLEAN, cached : BOOLEAN,
          names : SUBSET {"media", "subs"}]
Slots == [pc : {"off", "runs", "moved"}, slot : {"none", "held", "paused", "canceled"}]
FilesTyped ==
  /\ flRow \in Rows /\ flJob \in Slots
  /\ flSetup \in [sc : BOOLEAN, cleans : BOOLEAN]
  /\ flMail \subseteq {"subs", "finished", "failed"} /\ flDisk \subseteq File /\ flUnlink \subseteq File
  /\ flHook \in {"off", "due", "reads"} /\ flGone \in {"no", "files", "record"}
  /\ flStarts \in 0..FlStarts /\ flFaults \in 0..FlFaults
  /\ flLost \subseteq {"untold", "undeleted", "unread", "late", "crash"}

(* One job and at most one report, which finds its slot; the engine keeps  *)
(* the slot of a running row, and of a row that is over it only knows that *)
(* the job was canceled.                                                   *)
JobKnown ==
  /\ flJob.pc # "off" => flJob.slot # "none" /\ Reports = {}
  /\ Reports # {} => flJob.slot # "none"
  /\ ~({"finished", "failed"} \subseteq flMail)
  /\ flJob.slot = "held" => flRow.st = "active" /\ Listed
  /\ Over => flJob.slot \in {"none", "canceled"}

(* The hook runs for a finished row, and a deletion that met it is noted.  *)
HookKnown == flHook # "off" => "media" \in flRow.names /\ (flGone = "files" => "late" \in flLost)

(* Until files are to be removed, what the row names or will name is there.*)
NamesHold ==
  flGone # "files" /\ "undeleted" \notin flLost =>
    /\ flUnlink \subseteq {"scratch"} /\ flRow.names \subseteq flDisk
    /\ "subs" \in flMail => "subs" \in flDisk
    /\ flJob.pc = "moved" \/ "finished" \in flMail => "media" \in flDisk

(* Every output on the disk is named, or will be by a report on its way;   *)
(* once the row is gone with its files, it is being removed instead.       *)
Coming == flJob.pc = "moved" \/ "finished" \in flMail
OutputsKnown ==
  ~Spoilt =>
    /\ flGone # "files" =>
         /\ flDisk \cap {"media", "info"} # {} => "media" \in flRow.names \/ Coming
         /\ "nfo" \in flDisk => "media" \in flRow.names
         /\ "subs" \in flDisk => "subs" \in flRow.names \/ "subs" \in flMail
    /\ flGone = "files" =>
         /\ \A f \in flDisk \cap {"media", "info"} : f \in flUnlink \/ Coming
         /\ "nfo" \in flDisk => "nfo" \in flUnlink \/ "late" \in flLost
         /\ "subs" \in flDisk => "subs" \in flUnlink \/ "subs" \in flMail

(* The scratch directory of a row that is over waits for the canceled job, *)
(* or for the unlinks.                                                     *)
ScratchKnown ==
  Over /\ "scratch" \in flDisk =>
    flJob.slot = "canceled" \/ "scratch" \in flUnlink \/ ("crash" \in flLost /\ ~flSetup.cleans)

FilesInv == FilesTyped /\ JobKnown /\ HookKnown /\ NamesHold /\ OutputsKnown /\ ScratchKnown
(* What a write to the row leaves of its fields.                           *)
LEMMA Moved ==
  ASSUME flRow \in Rows, NEW st \in Terminal \cup {"queued", "parked", "active"}, NEW waits \in BOOLEAN, Move(st, waits)
  PROVE  /\ flRow' \in Rows /\ flRow'.st = st /\ flRow'.waits = waits
         /\ flRow'.cached = flRow.cached /\ flRow'.names = flRow.names
<1> DEFINE r == [flRow EXCEPT !.st = st]
<1>1. r \in Rows /\ r.st = st /\ r.waits = flRow.waits /\ r.cached = flRow.cached /\ r.names = flRow.names
  BY DEF Rows
<1>2. flRow' = [r EXCEPT !.waits = waits]
  BY <1>1 DEF Move, Rows
<1> HIDE DEF r
<1> QED BY <1>1, <1>2 DEF Rows

(* The report of a success names the media and ends the row.               *)
LEMMA Renamed ==
  ASSUME flRow \in Rows, NEW st \in Terminal \cup {"queued", "parked", "active"}, NEW names \in SUBSET {"media", "subs"},
         flRow' = [flRow EXCEPT !.names = names, !.st = st]
  PROVE  /\ flRow' \in Rows /\ flRow'.st = st /\ flRow'.names = names
         /\ flRow'.waits = flRow.waits /\ flRow'.cached = flRow.cached
<1> DEFINE r == [flRow EXCEPT !.names = names]
<1>1. r \in Rows /\ r.names = names /\ r.waits = flRow.waits /\ r.cached = flRow.cached /\ r.st = flRow.st
  BY DEF Rows
<1>2. flRow' = [r EXCEPT !.st = st]
  BY <1>1 DEF Rows
<1> HIDE DEF r
<1> QED BY <1>1, <1>2 DEF Rows

(* A retry, or a boot, brings the row back into memory.                    *)
LEMMA Revived ==
  ASSUME flRow \in Rows, NEW st \in Terminal \cup {"queued", "parked", "active"}, NEW waits \in BOOLEAN, NEW cached \in BOOLEAN,
         flRow' = [flRow EXCEPT !.st = st, !.waits = waits, !.cached = cached]
  PROVE  /\ flRow' \in Rows /\ flRow'.st = st /\ flRow'.waits = waits
         /\ flRow'.cached = cached /\ flRow'.names = flRow.names
<1> DEFINE r == [flRow EXCEPT !.st = st]
           q == [r EXCEPT !.waits = waits]
<1>1. r \in Rows /\ r.st = st /\ r.waits = flRow.waits /\ r.cached = flRow.cached /\ r.names = flRow.names
  BY DEF Rows
<1>2. flRow' = [q EXCEPT !.cached = cached]
  BY <1>1 DEF Rows
<1> HIDE DEF r
<1>3. q \in Rows /\ q.st = st /\ q.waits = waits /\ q.cached = flRow.cached /\ q.names = flRow.names
  BY <1>1 DEF Rows
<1> HIDE DEF q
<1> QED BY <1>2, <1>3 DEF Rows

(* A row that waits is started, or its write fails and it does not wait.   *)
LEMMA StartJobKeeps == ASSUME FilesInv, NEW n \in {0, 1}, StartJob(n) PROVE FilesInv'
<1> USE FlAssumption DEF FilesInv, FilesTyped, Rows, Slots, NoJob, Listed, Terminal
<1>0. Listed /\ flRow.st = "queued" /\ flJob.slot = "none"
  BY DEF StartJob
<1>1. /\ flRow' \in Rows /\ flRow'.names = flRow.names /\ flRow'.st \in {"queued", "active"}
      /\ flJob' \in Slots /\ flJob'.slot \in {"none", "held"}
      /\ flJob'.slot = "held" => flRow'.st = "active"
      /\ flJob'.pc # "off" => flJob'.pc = "runs" /\ flJob'.slot = "held"
  <2>1. CASE n = 0
    <3>1. Move("active", FALSE) /\ flJob' = [pc |-> "runs", slot |-> "held"]
      BY <2>1 DEF StartJob
    <3>2. flRow' \in Rows /\ flRow'.names = flRow.names /\ flRow'.st = "active"
      BY <3>1, Moved
    <3> QED BY <3>1, <3>2
  <2>2. CASE n = 1
    <3>1. Move("queued", FALSE) /\ flJob' = flJob
      BY <2>2 DEF StartJob, Move
    <3>2. flRow' \in Rows /\ flRow'.names = flRow.names /\ flRow'.st = "queued"
      BY <3>1, Moved
    <3> QED BY <1>0, <3>1, <3>2 DEF JobKnown
  <2> QED BY <2>1, <2>2
<1>2. UNCHANGED <<flMail, flDisk, flUnlink, flHook, flGone, flSetup, flLost>> /\ flStarts < FlStarts /\ flStarts' = flStarts + 1
  BY DEF StartJob
<1>3. flFaults' \in 0..FlFaults
  BY DEF StartJob, Fails
<1>4. FilesTyped'
  BY <1>1, <1>2, <1>3
<1>5. JobKnown'
  BY <1>0, <1>1, <1>2 DEF JobKnown, Reports, Over
<1>6. HookKnown'
  BY <1>1, <1>2 DEF HookKnown
<1>7. NamesHold'
  BY <1>0, <1>1, <1>2 DEF NamesHold
<1>8. OutputsKnown'
  BY <1>0, <1>1, <1>2 DEF OutputsKnown, JobKnown, Spoilt, Coming
<1>9. ScratchKnown'
  BY <1>0, <1>1, <1>2 DEF ScratchKnown, Over
<1> QED BY <1>4, <1>5, <1>6, <1>7, <1>8, <1>9
(* What the job does to the disk on its own.                               *)
LEMMA JobWritesKeeps == ASSUME FilesInv, JobWrites PROVE FilesInv'
<1> USE FlAssumption DEF FilesInv, FilesTyped, Rows, Slots, NoJob, Listed, Terminal
<1>1. FilesTyped'
  BY DEF File, JobWrites
<1>2. JobKnown'
  BY DEF JobKnown, Reports, Over, JobWrites
<1>3. HookKnown'
  BY DEF HookKnown, JobWrites
<1>4. NamesHold'
  BY DEF NamesHold, JobWrites
<1>5. OutputsKnown'
  BY DEF OutputsKnown, Spoilt, Coming, JobWrites
<1>6. ScratchKnown'
  BY DEF ScratchKnown, JobKnown, Over, JobWrites
<1> QED BY <1>1, <1>2, <1>3, <1>4, <1>5, <1>6

LEMMA JobSubsKeeps == ASSUME FilesInv, JobSubs PROVE FilesInv'
<1> USE FlAssumption DEF FilesInv, FilesTyped, Rows, Slots, NoJob, Listed, Terminal
<1>1. FilesTyped'
  BY DEF File, Outputs, JobSubs
<1>2. JobKnown'
  BY DEF JobKnown, Reports, Over, JobSubs
<1>3. HookKnown'
  BY DEF HookKnown, JobSubs
<1>4. NamesHold'
  BY DEF NamesHold, JobSubs
<1>5. OutputsKnown'
  BY DEF OutputsKnown, Spoilt, Coming, JobSubs
<1>6. ScratchKnown'
  BY DEF ScratchKnown, Over, JobSubs
<1> QED BY <1>1, <1>2, <1>3, <1>4, <1>5, <1>6

LEMMA JobMovesKeeps == ASSUME FilesInv, JobMoves PROVE FilesInv'
<1> USE FlAssumption DEF FilesInv, FilesTyped, Rows, Slots, NoJob, Listed, Terminal
<1>1. FilesTyped'
  BY DEF File, Outputs, JobMoves
<1>2. JobKnown'
  BY DEF JobKnown, Reports, Over, JobMoves
<1>3. HookKnown'
  BY DEF HookKnown, JobMoves
<1>4. NamesHold'
  BY DEF NamesHold, JobMoves
<1>5. OutputsKnown'
  BY DEF OutputsKnown, Spoilt, Coming, JobMoves
<1>6. ScratchKnown'
  BY DEF ScratchKnown, Over, JobMoves
<1> QED BY <1>1, <1>2, <1>3, <1>4, <1>5, <1>6

LEMMA JobEndsKeeps == ASSUME FilesInv, JobEnds PROVE FilesInv'
<1> USE FlAssumption DEF FilesInv, FilesTyped, Rows, Slots, NoJob, Listed, Terminal
<1>1. FilesTyped'
  BY DEF JobEnds
<1>2. JobKnown'
  BY DEF JobKnown, Reports, Over, JobEnds
<1>3. HookKnown'
  BY DEF HookKnown, JobEnds
<1>4. NamesHold'
  BY DEF NamesHold, JobEnds
<1>5. OutputsKnown'
  BY DEF OutputsKnown, Spoilt, Coming, JobEnds
<1>6. ScratchKnown'
  BY DEF ScratchKnown, Over, JobEnds
<1> QED BY <1>1, <1>2, <1>3, <1>4, <1>5, <1>6

(* What the engine does with the job's messages.                           *)
LEMMA HandleFileKeeps == ASSUME FilesInv, NEW n \in 0..3, HandleFile(n) PROVE FilesInv'
<1> USE FlAssumption DEF FilesInv, FilesTyped, Rows, Slots, NoJob, Listed, Terminal
<1>1. flRow' \in Rows /\ flRow'.st = flRow.st /\ flRow'.names = (IF Listed /\ flRow.cached /\ n = 0 THEN flRow.names \cup {"subs"} ELSE flRow.names)
  <2> HIDE DEF Listed, NoJob, Terminal
  <2> QED BY DEF HandleFile, Losing
<1>2. FilesTyped'
  BY <1>1 DEF HandleFile, Fails, Losing
<1>3. JobKnown'
  BY <1>1 DEF JobKnown, Reports, Over, HandleFile
<1>4. HookKnown'
  BY <1>1 DEF HookKnown, HandleFile, Losing
<1>5. NamesHold'
  BY <1>1 DEF NamesHold, HandleFile, Losing
<1>6. OutputsKnown'
  BY <1>1 DEF OutputsKnown, Spoilt, Coming, HandleFile, Losing
<1>7. ScratchKnown'
  BY <1>1 DEF ScratchKnown, Over, HandleFile, Losing
<1> QED BY <1>2, <1>3, <1>4, <1>5, <1>6, <1>7

LEMMA HandleSettledKeeps == ASSUME FilesInv, NEW report \in {"finished", "failed"}, HandleSettled(report) PROVE FilesInv'
<1> USE FlAssumption DEF FilesInv, FilesTyped, Rows, Slots, NoJob, Listed, Terminal
<1>1. /\ flRow' \in Rows /\ flRow'.st = flRow.st /\ flRow'.names = flRow.names
  <2> DEFINE st    == flRow.st
             waits == flRow.waits \/ (Listed /\ flRow.st = "queued")
  <2>1. Move(st, waits) /\ flRow \in Rows
    BY DEF HandleSettled
  <2>2. st \in Terminal \cup {"queued", "parked", "active"} /\ waits \in BOOLEAN
    BY <2>1
  <2>3. flRow' \in Rows /\ flRow'.st = st /\ flRow'.names = flRow.names
    <3> HIDE DEF st, waits
    <3> QED BY <2>1, <2>2, Moved
  <2> QED BY <2>3
<1>2. FilesTyped'
  BY <1>1 DEF HandleSettled, Losing, Released, Cleaned
<1>3. JobKnown'
  BY <1>1 DEF JobKnown, Reports, HandleSettled
<1>4. HookKnown'
  BY <1>1 DEF HookKnown, HandleSettled, Losing
<1>5. NamesHold'
  BY <1>1 DEF NamesHold, HandleSettled, Losing, Released, Cleaned
<1>6. OutputsKnown'
  BY <1>1 DEF OutputsKnown, JobKnown, Spoilt, Coming, Reports, HandleSettled, Losing, Released, Cleaned
<1>7. ScratchKnown'
  BY <1>1 DEF ScratchKnown, Over, HandleSettled, Losing, Released, Cleaned
<1> QED BY <1>2, <1>3, <1>4, <1>5, <1>6, <1>7

LEMMA HandleFinishedKeeps == ASSUME FilesInv, NEW n \in 0..3, HandleFinished(n) PROVE FilesInv'
<1> USE FlAssumption DEF FilesInv, FilesTyped, Rows, Slots, NoJob, Listed, Terminal
<1>1. flRow' \in Rows /\ flRow'.st = (IF n = 0 THEN "finished" ELSE flRow.st) /\ flRow'.names = (IF n = 1 THEN flRow.names ELSE flRow.names \cup {"media"})
  BY Renamed DEF HandleFinished
<1>2. FilesTyped'
  BY <1>1 DEF HandleFinished, Fails, Losing, Cleaned
<1>3. JobKnown'
  BY <1>1 DEF JobKnown, Reports, HandleFinished
<1>4. HookKnown'
  BY <1>1 DEF HookKnown, JobKnown, HandleFinished
<1>5. NamesHold'
  BY <1>1 DEF NamesHold, HandleFinished, Losing, Cleaned
<1>6. OutputsKnown'
  BY <1>1 DEF OutputsKnown, JobKnown, Spoilt, HandleFinished, Losing, Cleaned
<1>7. ScratchKnown'
  BY <1>1 DEF ScratchKnown, HandleFinished, Cleaned
<1> QED BY <1>2, <1>3, <1>4, <1>5, <1>6, <1>7

(* The user's commands.                                                    *)
LEMMA StartAgainKeeps == ASSUME FilesInv, StartAgain PROVE FilesInv'
<1> USE FlAssumption DEF FilesInv, FilesTyped, Rows, Slots, NoJob, Listed, Terminal
<1>1. flRow' \in Rows /\ flRow'.st = "queued" /\ flRow'.names = flRow.names
  BY Moved DEF StartAgain
<1>2. FilesTyped'
  BY <1>1 DEF StartAgain
<1>3. JobKnown'
  BY <1>1 DEF JobKnown, Reports, Over, StartAgain
<1>4. HookKnown'
  BY <1>1 DEF HookKnown, StartAgain
<1>5. NamesHold'
  BY <1>1 DEF NamesHold, StartAgain
<1>6. OutputsKnown'
  BY <1>1 DEF OutputsKnown, Spoilt, Coming, StartAgain
<1>7. ScratchKnown'
  BY <1>1 DEF ScratchKnown, Over, StartAgain
<1> QED BY <1>2, <1>3, <1>4, <1>5, <1>6, <1>7

LEMMA RetryKeeps == ASSUME FilesInv, Retry PROVE FilesInv'
<1> USE FlAssumption DEF FilesInv, FilesTyped, Rows, Slots, NoJob, Listed, Terminal
<1>1. flRow' \in Rows /\ flRow'.st = "queued" /\ flRow'.names = flRow.names
  BY Revived DEF Retry
<1>2. FilesTyped'
  BY <1>1 DEF Retry
<1>3. JobKnown'
  BY <1>1 DEF JobKnown, Reports, Over, Retry
<1>4. HookKnown'
  BY <1>1 DEF HookKnown, Retry
<1>5. NamesHold'
  BY <1>1 DEF NamesHold, Retry
<1>6. OutputsKnown'
  BY <1>1 DEF OutputsKnown, Spoilt, Coming, Retry
<1>7. ScratchKnown'
  BY <1>1 DEF ScratchKnown, Over, Retry
<1> QED BY <1>2, <1>3, <1>4, <1>5, <1>6, <1>7

LEMMA CancelKeeps == ASSUME FilesInv, NEW n \in 0..3, Cancel(n) PROVE FilesInv'
<1> USE FlAssumption DEF FilesInv, FilesTyped, Rows, Slots, NoJob, Listed, Terminal
<1>1. flRow' \in Rows /\ flRow'.st = (IF n = 0 THEN "canceled" ELSE flRow.st) /\ flRow'.names = flRow.names
  BY Moved DEF Cancel
<1>2. FilesTyped'
  BY <1>1 DEF Cancel, Fails, Settled, Cleaned
<1>3. JobKnown'
  BY <1>1 DEF JobKnown, Reports, Cancel, Settled
<1>4. HookKnown'
  BY <1>1 DEF HookKnown, Cancel
<1>5. NamesHold'
  BY <1>1 DEF NamesHold, Cancel, Settled, Cleaned
<1>6. OutputsKnown'
  BY <1>1 DEF OutputsKnown, Spoilt, Coming, Cancel, Settled, Cleaned
<1>7. ScratchKnown'
  BY <1>1 DEF ScratchKnown, Cancel, Cleaned
<1> QED BY <1>2, <1>3, <1>4, <1>5, <1>6, <1>7

LEMMA DeleteKeeps == ASSUME FilesInv, NEW files \in BOOLEAN, NEW n \in 0..3, Delete(files, n) PROVE FilesInv'
<1> USE FlAssumption DEF FilesInv, FilesTyped, Rows, Slots, NoJob, Listed, Terminal
<1>1. flRow' \in Rows /\ flRow'.st = (IF flRow.st \notin Terminal /\ n # 1 THEN "canceled" ELSE flRow.st) /\ flRow'.names = flRow.names
  BY Moved DEF Delete
<1>2. FilesTyped'
  BY <1>1 DEF File, Outputs, Delete, Fails, Settled, Cleaned, ToRemove, FilesOf
<1>3. JobKnown'
  BY <1>1 DEF JobKnown, Reports, Over, Delete, Settled
<1>4. HookKnown'
  BY <1>1 DEF HookKnown, Delete
<1>5. NamesHold'
  BY <1>1 DEF NamesHold, Delete, Settled, Cleaned, ToRemove
<1>6. OutputsKnown'
  BY <1>1 DEF OutputsKnown, Spoilt, Coming, Delete, Settled, Cleaned, ToRemove, FilesOf
<1>7. ScratchKnown'
  BY <1>1 DEF ScratchKnown, Over, Delete, Cleaned
<1> QED BY <1>2, <1>3, <1>4, <1>5, <1>6, <1>7

(* The window of ended rows, the unlinks and the hook.                     *)
LEMMA EvictKeeps == ASSUME FilesInv, Evict PROVE FilesInv'
<1> USE FlAssumption DEF FilesInv, FilesTyped, Rows, Slots, NoJob, Listed, Terminal
<1>1. flRow' \in Rows /\ flRow'.st = flRow.st /\ flRow'.names = flRow.names
  BY DEF Evict
<1>2. FilesTyped'
  BY <1>1 DEF Evict
<1>3. JobKnown'
  BY <1>1 DEF JobKnown, Reports, Over, Evict
<1>4. HookKnown'
  BY <1>1 DEF HookKnown, Evict
<1>5. NamesHold'
  BY <1>1 DEF NamesHold, Evict
<1>6. OutputsKnown'
  BY <1>1 DEF OutputsKnown, Spoilt, Coming, Evict
<1>7. ScratchKnown'
  BY <1>1 DEF ScratchKnown, Over, Evict
<1> QED BY <1>2, <1>3, <1>4, <1>5, <1>6, <1>7

LEMMA UnlinkRunsKeeps == ASSUME FilesInv, UnlinkRuns PROVE FilesInv'
<1> USE FlAssumption DEF FilesInv, FilesTyped, Rows, Slots, NoJob, Listed, Terminal
<1>1. FilesTyped'
  BY DEF UnlinkRuns
<1>2. JobKnown'
  BY DEF JobKnown, Reports, Over, UnlinkRuns
<1>3. HookKnown'
  BY DEF HookKnown, UnlinkRuns
<1>4. NamesHold'
  BY DEF NamesHold, UnlinkRuns
<1>5. OutputsKnown'
  BY DEF OutputsKnown, Spoilt, Coming, UnlinkRuns
<1>6. ScratchKnown'
  BY DEF ScratchKnown, Over, UnlinkRuns
<1> QED BY <1>1, <1>2, <1>3, <1>4, <1>5, <1>6

LEMMA HookReadsKeeps == ASSUME FilesInv, HookReads PROVE FilesInv'
<1> USE FlAssumption DEF FilesInv, FilesTyped, Rows, Slots, NoJob, Listed, Terminal
<1>1. FilesTyped'
  BY DEF HookReads
<1>2. JobKnown'
  BY DEF JobKnown, Reports, Over, HookReads
<1>3. HookKnown'
  BY DEF HookKnown, HookReads
<1>4. NamesHold'
  BY DEF NamesHold, HookReads
<1>5. OutputsKnown'
  BY DEF OutputsKnown, Spoilt, Coming, HookReads
<1>6. ScratchKnown'
  BY DEF ScratchKnown, Over, HookReads
<1> QED BY <1>1, <1>2, <1>3, <1>4, <1>5, <1>6

LEMMA HookWritesKeeps == ASSUME FilesInv, HookWrites PROVE FilesInv'
<1> USE FlAssumption DEF FilesInv, FilesTyped, Rows, Slots, NoJob, Listed, Terminal
<1>1. FilesTyped'
  BY DEF File, Outputs, HookWrites
<1>2. JobKnown'
  BY DEF JobKnown, Reports, Over, HookWrites
<1>3. HookKnown'
  BY DEF HookKnown, HookWrites
<1>4. NamesHold'
  BY DEF NamesHold, HookWrites
<1>5. OutputsKnown'
  BY DEF OutputsKnown, HookKnown, Spoilt, Coming, HookWrites
<1>6. ScratchKnown'
  BY DEF ScratchKnown, Over, HookWrites
<1> QED BY <1>1, <1>2, <1>3, <1>4, <1>5, <1>6

(* The process dies with everything it had in memory, and boots.           *)
LEMMA DiesKeeps == ASSUME FilesInv, NEW resume \in BOOLEAN, NEW cached \in BOOLEAN, Dies(resume, cached) PROVE FilesInv'
<1> USE FlAssumption DEF FilesInv, FilesTyped, Rows, Slots, NoJob, Listed, Terminal
<1>1. flRow' \in Rows /\ flRow'.st = (IF flRow.st # "active" THEN flRow.st ELSE IF resume THEN "queued" ELSE "parked") /\ flRow'.names = flRow.names
  <2> DEFINE st == IF flRow.st = "active" THEN IF resume THEN "queued" ELSE "parked" ELSE flRow.st
  <2>1. flRow' = [flRow EXCEPT !.st = st, !.waits = st = "queued" /\ Listed, !.cached = cached \/ st \notin Terminal] /\ flRow \in Rows
    BY DEF Dies
  <2>2. st \in Terminal \cup {"queued", "parked", "active"} /\ (st = "queued" /\ Listed) \in BOOLEAN /\ (cached \/ st \notin Terminal) \in BOOLEAN
    BY <2>1
  <2> HIDE DEF st
  <2>3. flRow' \in Rows /\ flRow'.st = st /\ flRow'.names = flRow.names
    BY <2>1, <2>2, Revived
  <2> QED BY <2>3 DEF st
<1>2. FilesTyped'
  BY <1>1 DEF Dies, Fails, Losing, Orphans
<1>3. JobKnown'
  BY <1>1 DEF JobKnown, Reports, Dies
<1>4. HookKnown'
  BY <1>1 DEF HookKnown, Dies
<1>5. NamesHold'
  BY <1>1 DEF NamesHold, Dies, Losing, Orphans
<1>6. OutputsKnown'
  BY <1>1 DEF OutputsKnown, Spoilt, Coming, Dies, Losing, Orphans
<1>7. ScratchKnown'
  BY <1>1 DEF ScratchKnown, Over, Dies, Losing, Orphans
<1> QED BY <1>2, <1>3, <1>4, <1>5, <1>6, <1>7
(* A pause keeps the slot of a running row until its job reports.          *)
LEMMA PauseKeeps == ASSUME FilesInv, NEW n \in {0, 1}, Pause(n) PROVE FilesInv'
<1> USE FlAssumption DEF FilesInv, FilesTyped, Rows, Slots, NoJob, Listed, Terminal
<1>1. Listed /\ flRow.st \in {"queued", "active"} /\ flFaults' \in 0..FlFaults
      /\ UNCHANGED <<flMail, flUnlink, flHook, flGone, flSetup, flStarts, flLost>>
  BY DEF Pause, Fails
<1>2. flRow' \in Rows /\ flRow'.names = flRow.names /\ flRow'.st = (IF n = 0 THEN "parked" ELSE flRow.st)
  <2> DEFINE st    == IF n = 0 THEN "parked" ELSE flRow.st
             waits == IF n = 0 THEN FALSE ELSE flRow.waits /\ flRow.st = "queued"
  <2>1. Move(st, waits) /\ flRow \in Rows
    BY DEF Pause
  <2>2. st \in Terminal \cup {"queued", "parked", "active"} /\ waits \in BOOLEAN
    BY <2>1
  <2>3. flRow' \in Rows /\ flRow'.names = flRow.names /\ flRow'.st = st
    <3> HIDE DEF st, waits
    <3> QED BY <2>1, <2>2, Moved
  <2> QED BY <2>3
<1>3. CASE flRow.st = "active"
  <2>1. flJob' = Settled("paused") /\ flDisk' = Cleaned(FALSE)
    BY <1>3 DEF Pause
  <2>2. FilesTyped'
    BY <1>1, <1>2, <2>1, <1>3 DEF Settled, Cleaned
  <2>3. JobKnown'
    BY <1>1, <1>2, <2>1, <1>3 DEF JobKnown, Reports, Over, Settled
  <2>4. HookKnown'
    BY <1>1, <1>2, <2>1, <1>3 DEF HookKnown
  <2>5. NamesHold'
    BY <1>1, <1>2, <2>1, <1>3 DEF NamesHold, Settled, Cleaned
  <2>6. OutputsKnown'
    BY <1>1, <1>2, <2>1, <1>3 DEF OutputsKnown, Spoilt, Coming, Settled, Cleaned
  <2>7. ScratchKnown'
    BY <1>1, <1>2, <2>1, <1>3 DEF ScratchKnown, Over
  <2> QED BY <2>2, <2>3, <2>4, <2>5, <2>6, <2>7
<1>4. CASE flRow.st # "active"
  <2>1. UNCHANGED <<flJob, flDisk>>
    BY <1>4 DEF Pause
  <2>2. FilesTyped'
    BY <1>1, <1>2, <2>1, <1>4
  <2>3. JobKnown'
    BY <1>1, <1>2, <2>1, <1>4 DEF JobKnown, Reports, Over
  <2>4. HookKnown'
    BY <1>1, <1>2, <2>1, <1>4 DEF HookKnown
  <2>5. NamesHold'
    BY <1>1, <1>2, <2>1, <1>4 DEF NamesHold
  <2>6. OutputsKnown'
    BY <1>1, <1>2, <2>1, <1>4 DEF OutputsKnown, Spoilt, Coming
  <2>7. ScratchKnown'
    BY <1>1, <1>2, <2>1, <1>4 DEF ScratchKnown, Over
  <2> QED BY <2>2, <2>3, <2>4, <2>5, <2>6, <2>7
<1> QED BY <1>3, <1>4

(* A failure that may pass queues the row again, any other ends it.        *)
LEMMA HandleFailedKeeps == ASSUME FilesInv, NEW n \in {0, 1}, NEW again \in BOOLEAN, HandleFailed(n, again) PROVE FilesInv'
<1> USE FlAssumption DEF FilesInv, FilesTyped, Rows, Slots, NoJob, Listed, Terminal
<1>1. /\ "failed" \in flMail /\ flMail' = flMail \ {"failed"} /\ flJob.slot = "held" /\ flJob' = NoJob /\ flFaults' \in 0..FlFaults
      /\ UNCHANGED <<flUnlink, flHook, flGone, flSetup, flStarts, flLost>>
  BY DEF HandleFailed, Fails
<1>2. /\ flRow' \in Rows /\ flRow'.names = flRow.names
      /\ flRow'.st = (IF n = 1 THEN flRow.st ELSE IF again THEN "queued" ELSE "error")
  <2>1. CASE n = 1
    <3>1. flRow' = flRow
      BY <2>1 DEF HandleFailed
    <3> QED BY <2>1, <3>1
  <2>2. CASE n = 0 /\ again
    <3>1. Move("queued", TRUE)
      BY <2>2 DEF HandleFailed, Move
    <3>2. flRow' \in Rows /\ flRow'.names = flRow.names /\ flRow'.st = "queued"
      BY <3>1, Moved
    <3> QED BY <2>2, <3>2
  <2>3. CASE n = 0 /\ ~again
    <3>1. Move("error", FALSE)
      BY <2>3 DEF HandleFailed, Move
    <3>2. flRow' \in Rows /\ flRow'.names = flRow.names /\ flRow'.st = "error"
      BY <3>1, Moved
    <3> QED BY <2>3, <3>2
  <2> QED BY <2>1, <2>2, <2>3
<1>3. flDisk' \in {flDisk, flDisk \ {"scratch"}} /\ (~again => flDisk' = flDisk \ {"scratch"})
  BY DEF HandleFailed, Cleaned
<1>4. FilesTyped'
  BY <1>1, <1>2, <1>3
<1>5. JobKnown'
  BY <1>1, <1>2, <1>3 DEF JobKnown, Reports
<1>6. HookKnown'
  BY <1>1, <1>2, <1>3 DEF HookKnown
<1>7. NamesHold'
  BY <1>1, <1>2, <1>3 DEF NamesHold
<1>8. OutputsKnown'
  BY <1>1, <1>2, <1>3 DEF OutputsKnown, JobKnown, Spoilt, Coming, Reports
<1>9. ScratchKnown'
  BY <1>1, <1>2, <1>3 DEF ScratchKnown, Over
<1> QED BY <1>4, <1>5, <1>6, <1>7, <1>8, <1>9
(* A new row has no files.                                                 *)
LEMMA FilesStart == FilesInit => FilesInv
BY FlAssumption DEF FilesInit, FilesInv, FilesTyped, Rows, Slots, JobKnown, HookKnown, NamesHold,
    OutputsKnown, ScratchKnown,
  NoJob, Listed, Reports, Over, Terminal, Coming, Spoilt

(* Every step of the files keeps it.                                       *)
LEMMA FilesStep == FilesInv /\ [FilesNext]_flVars => FilesInv'
<1> SUFFICES ASSUME FilesInv, [FilesNext]_flVars PROVE FilesInv'
  OBVIOUS
<1>1. ASSUME NEW n \in {0, 1}, StartJob(n) \/ HandleFile(n) \/ Pause(n) \/ Cancel(n) PROVE FilesInv'
  BY <1>1, StartJobKeeps, HandleFileKeeps, PauseKeeps, CancelKeeps
<1>2. ASSUME NEW n \in {0, 1}, NEW again \in BOOLEAN, HandleFailed(n, again) PROVE FilesInv'
  BY <1>2, HandleFailedKeeps
<1>3. CASE JobWrites \/ JobSubs \/ JobMoves \/ JobEnds
  BY <1>3, JobWritesKeeps, JobSubsKeeps, JobMovesKeeps, JobEndsKeeps
<1>4. ASSUME NEW report \in {"finished", "failed"}, HandleSettled(report) PROVE FilesInv'
  BY <1>4, HandleSettledKeeps
<1>5. ASSUME NEW n \in 0..2, HandleFinished(n) PROVE FilesInv'
  BY <1>5, HandleFinishedKeeps
<1>6. ASSUME NEW files \in BOOLEAN, NEW n \in 0..3, Delete(files, n) PROVE FilesInv'
  BY <1>6, DeleteKeeps
<1>7. CASE StartAgain \/ Retry \/ Evict \/ UnlinkRuns \/ HookReads \/ HookWrites
  BY <1>7, StartAgainKeeps, RetryKeeps, EvictKeeps, UnlinkRunsKeeps, HookReadsKeeps, HookWritesKeeps
<1>8. ASSUME NEW resume \in BOOLEAN, NEW cached \in BOOLEAN, Dies(resume, cached) PROVE FilesInv'
  BY <1>8, DiesKeeps
<1>9. CASE UNCHANGED flVars
  BY <1>9 DEF flVars, FilesInv, FilesTyped, JobKnown, HookKnown, NamesHold, OutputsKnown, ScratchKnown,
      Listed, Reports, Over, Coming, Spoilt
<1> QED BY <1>1, <1>2, <1>3, <1>4, <1>5, <1>6, <1>7, <1>8, <1>9 DEF FilesNext

(* What the reasons on record excuse.                                      *)
LEMMA Excuses ==
  /\ Spoilt => Outputs \subseteq Excused
  /\ "late" \in flLost => "nfo" \in Excused
  /\ "crash" \in flLost /\ ~flSetup.cleans => "scratch" \in Excused
<1>1. \A reason \in flLost : Leaves(reason) \subseteq Excused
  BY DEF Excused
<1>2. Leaves("late") = {"nfo"} /\ Leaves("untold") = Outputs /\ Leaves("unread") = Outputs /\ Outputs \subseteq Leaves("crash")
      /\ (~flSetup.cleans => "scratch" \in Leaves("crash"))
  BY DEF Leaves, File, Outputs
<1> QED BY <1>1, <1>2 DEF Spoilt

(* The invariant gives the three promises about the files.                 *)
LEMMA FilesSafe == FilesInv => FilesTypeOK /\ FilesAreSafe
<1> SUFFICES ASSUME FilesInv PROVE FilesTypeOK /\ FilesAreSafe
  OBVIOUS
<1>1. FilesTypeOK
  BY DEF FilesInv, FilesTyped, Rows, Slots, FilesTypeOK
<1>2. NothingIsLeft
  <2> SUFFICES ASSUME flGone = "files", Quiet, NEW f \in flDisk, f \notin Excused PROVE FALSE
    BY DEF NothingIsLeft
  <2>1. Over /\ flUnlink = {} /\ flMail = {} /\ flJob = NoJob
    BY DEF Quiet, Over, Listed
  <2>2. ~Spoilt \/ f = "scratch"
    BY Excuses DEF FilesInv, FilesTyped, File
  <2>3. CASE f = "scratch"
    BY <2>1, <2>3, Excuses DEF FilesInv, ScratchKnown, NoJob
  <2>4. CASE f # "scratch"
    BY <2>1, <2>2, <2>4, Excuses DEF FilesInv, FilesTyped, File, Outputs, OutputsKnown, NoJob, Coming
  <2> QED BY <2>3, <2>4
<1>3. ScratchGoes
  BY Excuses DEF FilesInv, ScratchKnown, ScratchGoes, Over, Quiet, NoJob
<1>4. NamedIsThere
  BY DEF FilesInv, NamesHold, NamedIsThere, Listed
<1> QED BY <1>1, <1>2, <1>3, <1>4 DEF FilesAreSafe

(* Whoever takes the scratch directory of a row that will run again was    *)
(* asked to, or is an unlink handed over before.                           *)
LEMMA PartialsKept == FilesInv /\ [FilesNext]_flVars => KeepsPartials
<1> SUFFICES ASSUME FilesInv, [FilesNext]_flVars, Resumable, Resumable', flRow'.st # "active",
                    "scratch" \in flDisk, "scratch" \notin flDisk', flJob.slot # "canceled", ~Cancel(1), ~UnlinkRuns
             PROVE  FALSE
  BY DEF KeepsPartials
<1>1. /\ Listed /\ ~Sc /\ flRow.st \notin Terminal /\ Listed' /\ flRow'.st \notin Terminal
      /\ flRow \in Rows /\ (flJob.slot = "held" => flRow.st = "active")
  BY DEF Resumable, FilesInv, FilesTyped, JobKnown
<1>2. ASSUME NEW n \in {0, 1}, StartJob(n) \/ HandleFile(n) PROVE FALSE
  BY <1>2 DEF StartJob, HandleFile
<1>3. ASSUME NEW n \in {0, 1}, Pause(n) PROVE FALSE
  BY <1>1, <1>3 DEF Pause, Cleaned
<1>4. ASSUME NEW n \in {0, 1}, Cancel(n) PROVE FALSE
  <2>1. n = 0
    BY <1>4
  <2>2. Move("canceled", FALSE)
    BY <1>4, <2>1 DEF Cancel
  <2> QED BY <1>1, <2>2, Moved DEF Terminal
<1>5. ASSUME NEW n \in {0, 1}, NEW again \in BOOLEAN, HandleFailed(n, again) PROVE FALSE
  <2>1. ~again /\ flRow.st = "active"
    BY <1>1, <1>5 DEF HandleFailed
  <2>2. CASE n = 1
    <3>1. flRow' = flRow
      BY <1>5, <2>2 DEF HandleFailed, Move
    <3> QED BY <2>1, <3>1
  <2>3. CASE n = 0
    <3>1. Move("error", FALSE)
      BY <1>5, <2>1, <2>3 DEF HandleFailed, Move
    <3> QED BY <1>1, <3>1, Moved DEF Terminal
  <2> QED BY <2>2, <2>3
<1>6. CASE JobWrites \/ JobSubs \/ JobMoves \/ JobEnds
  BY <1>1, <1>6 DEF JobWrites, JobSubs, JobMoves, JobEnds
<1>7. ASSUME NEW report \in {"finished", "failed"}, HandleSettled(report) PROVE FALSE
  BY <1>1, <1>7 DEF HandleSettled, Released, Cleaned
<1>8. ASSUME NEW n \in 0..2, HandleFinished(n) PROVE FALSE
  <2>1. flRow.st = "active" /\ flRow' = [flRow EXCEPT !.names = IF n = 1 THEN @ ELSE @ \cup {"media"}, !.st = IF n = 0 THEN "finished" ELSE @]
    BY <1>1, <1>8 DEF HandleFinished
  <2>2. flRow'.st \in {"finished", "active"}
    BY <1>1, <2>1 DEF Rows
  <2> QED BY <1>1, <2>2 DEF Terminal
<1>9. ASSUME NEW files \in BOOLEAN, NEW n \in 0..3, Delete(files, n) PROVE FALSE
  <2>1. n = 2
    BY <1>1, <1>9 DEF Delete, Listed
  <2>2. Move("canceled", FALSE)
    BY <1>1, <1>9, <2>1 DEF Delete, Move
  <2> QED BY <1>1, <2>2, Moved DEF Terminal
<1>10. CASE StartAgain \/ Retry \/ Evict \/ HookReads \/ HookWrites
  BY <1>10 DEF StartAgain, Retry, Evict, HookReads, HookWrites
<1>11. ASSUME NEW resume \in BOOLEAN, NEW cached \in BOOLEAN, Dies(resume, cached) PROVE FALSE
  BY <1>1, <1>11 DEF Dies, Orphans
<1>12. CASE UNCHANGED flVars
  BY <1>12 DEF flVars
<1> QED BY <1>2, <1>3, <1>4, <1>5, <1>6, <1>7, <1>8, <1>9, <1>10, <1>11, <1>12 DEF FilesNext

(* Files are removed with the row they belong to, and only then: at no step*)
(* does FilesFollowTheRow fail.                                            *)
THEOREM FilesFollow == FilesSpec => FilesFollowTheRow
<1>1. FilesInv /\ [FilesNext]_flVars => [FilesTypeOK' /\ FilesAreSafe' /\ KeepsPartials]_flVars
  <2> SUFFICES ASSUME FilesInv, [FilesNext]_flVars PROVE FilesTypeOK' /\ FilesAreSafe' /\ KeepsPartials
    OBVIOUS
  <2>1. FilesInv'
    BY FilesStep
  <2>2. FilesTypeOK' /\ FilesAreSafe'
    BY <2>1, FilesSafe, PTL
  <2> QED BY <2>2, PartialsKept
<1> QED BY <1>1, FilesStart, FilesStep, PTL DEF FilesSpec, FilesFollowTheRow

-----------------------------------------------------------------------------
(* The import.  First what it makes of the legacy files, whatever they     *)
(* hold: the batch.                                                        *)

(* What the files hold is in the order of the timestamps.                  *)
Ordered(records, k) ==
  /\ \A i \in DOMAIN records : records[i].no \in 1..k
  /\ \A i, j \in DOMAIN records : i < j => records[i].no < records[j].no

LEMMA StagedOrdered ==
  ASSUME imLegacy \in ImLegacies
  PROVE  /\ Staged \in Seq({imLegacy[i] : i \in DOMAIN imLegacy})
         /\ \A i \in DOMAIN Staged : Staged[i].no \in Nat
         /\ \A i, j \in DOMAIN Staged : i < j => Staged[i].no < Staged[j].no
<1> DEFINE S == {imLegacy[i] : i \in DOMAIN imLegacy}
           n == Len(imLegacy)
           Prefix(k) == SubSeq(imLegacy, 1, k)
           Out == {imLegacy[i] : i \in Unread}
           Good == {k \in 0..n : Ordered(Sans(Prefix(k), Out), k)}
<1>a. imLegacy \in Seq(S) /\ \A i \in DOMAIN imLegacy : imLegacy[i].no = i
  BY ImAssumption
<1> HIDE DEF S, Out
<1>1. imLegacy \in Seq(S) /\ n \in Nat /\ DOMAIN imLegacy = 1..n /\ \A i \in 1..n : imLegacy[i].no = i
  BY <1>a
<1>2. 0 \in Good
  <2>1. Prefix(0) = <<>>
    BY <1>1
  <2>2. PICK none : none = Sans(Prefix(0), Out) /\ none \in Seq({}) 
    <3>1. Sans(Prefix(0), Out) = <<>>
      BY <2>1, SansNone
    <3>2. <<>> \in Seq({})
      OBVIOUS
    <3> QED BY <3>1, <3>2
  <2> QED BY <1>1, <2>2 DEF Ordered
<1>3. ASSUME NEW k \in 1..n, k - 1 \in Good PROVE k \in Good
  <2>1. PICK t : t = Prefix(k - 1)
    OBVIOUS
  <2>2. t \in Seq(S) /\ imLegacy[k] \in S /\ Prefix(k) = Append(t, imLegacy[k])
    <3>1. t \in Seq(S) /\ imLegacy[k] \in S
      BY <1>1, <2>1
    <3>2. Prefix(k) = Append(t, imLegacy[k])
      BY <1>1, <2>1
    <3> QED BY <3>1, <3>2
  <2>3. Sans(Prefix(k), Out) = IF imLegacy[k] \in Out THEN Sans(t, Out) ELSE Append(Sans(t, Out), imLegacy[k])
    <3>1. ASSUME NEW x \in S PROVE Sans(Append(t, x), Out) = IF x \in Out THEN Sans(t, Out) ELSE Append(Sans(t, Out), x)
      BY <2>2, SansMore
    <3> QED BY <2>2, <3>1
  <2>4. PICK kept : kept = Sans(t, Out) /\ kept \in Seq(S) /\ Ordered(kept, k - 1)
    <3>1. Sans(t, Out) \in Seq(S \ Out)
      BY <2>2, SansSeq
    <3>2. Seq(S \ Out) \subseteq Seq(S)
      OBVIOUS
    <3> QED BY <1>3, <2>1, <3>1, <3>2
  <2>5. CASE imLegacy[k] \in Out
    BY <1>1, <2>3, <2>4, <2>5 DEF Ordered
  <2>6. CASE imLegacy[k] \notin Out
    <3>1. PICK more : more = Append(kept, imLegacy[k])
      OBVIOUS
    <3>2. /\ DOMAIN more = 1..(Len(kept) + 1) /\ DOMAIN kept = 1..Len(kept)
          /\ \A i \in DOMAIN kept : more[i] = kept[i]
          /\ more[Len(kept) + 1] = imLegacy[k]
      BY <2>2, <2>4, <3>1
    <3>3. ASSUME NEW i \in DOMAIN more PROVE more[i].no \in 1..k /\ (i \in DOMAIN kept => more[i].no < k) /\ (i \notin DOMAIN kept => more[i].no = k)
      BY <1>1, <2>4, <3>2 DEF Ordered
    <3>4. ASSUME NEW i \in DOMAIN more, NEW j \in DOMAIN more, i < j PROVE more[i].no < more[j].no
      <4>1. i \in DOMAIN kept
        BY <2>4, <3>2, <3>4
      <4>2. CASE j \in DOMAIN kept
        BY <2>4, <3>2, <3>4, <4>1, <4>2 DEF Ordered
      <4> QED BY <3>3, <4>1, <4>2
    <3>5. Ordered(more, k)
      BY <3>3, <3>4 DEF Ordered
    <3>6. Sans(Prefix(k), Out) = more
      BY <2>3, <2>4, <2>6, <3>1
    <3> QED BY <3>5, <3>6
  <2> QED BY <2>5, <2>6
<1>4. n \in Good
  <2> HIDE DEF Good
  <2>1. \A k \in 0..n : k \in Good
    BY <1>1, <1>2, <1>3, UpTo
  <2> QED BY <1>1, <2>1
<1>5. Prefix(n) = imLegacy
  BY <1>1
<1>6. Ordered(Staged, n)
  BY <1>4, <1>5 DEF Staged, Out
<1>7. Staged \in Seq(S)
  <2>1. Sans(imLegacy, Out) \in Seq(S \ Out)
    BY <1>1, SansSeq
  <2> QED BY <2>1 DEF Staged, Out
<1> QED BY <1>6, <1>7 DEF Ordered, S

-----------------------------------------------------------------------------
(* What the first k records leave.                                         *)
Winner(records, m, k) ==
  \A j \in 1..k : records[j].url = records[m].url =>
    \/ Advancement(records[j].kind) < Advancement(records[m].kind)
    \/ Advancement(records[j].kind) = Advancement(records[m].kind) /\ j >= m
Debut(records, m) == \A j \in 1..(m - 1) : records[j].url # records[m].url
Kept(records, kept, k) ==
  /\ kept \in Seq({records[i] : i \in DOMAIN records})
  /\ \A i, j \in DOMAIN kept : kept[i].url = kept[j].url => i = j
  /\ \A i \in DOMAIN kept : \E m \in 1..k : kept[i] = records[m] /\ Winner(records, m, k)
  /\ \A j \in 1..k : \E i \in DOMAIN kept : kept[i].url = records[j].url
  /\ \A i \in DOMAIN kept : \E m \in 1..k : records[m].url = kept[i].url /\ Debut(records, m)
  /\ \A i, j \in DOMAIN kept, m, o \in 1..k :
       /\ i < j 
       /\ records[m].url = kept[i].url /\ Debut(records, m)
       /\ records[o].url = kept[j].url /\ Debut(records, o)
       => m < o

LEMMA AdvancementRange == \A kind : Advancement(kind) \in {1, 2, 3}
BY DEF Advancement

LEMMA TakeKeeps ==
  ASSUME NEW S, NEW records \in Seq(S), NEW k \in 1..Len(records), NEW kept, Kept(records, kept, k - 1)
  PROVE  Kept(records, Take(kept, records[k]), k)
<1> DEFINE R == {records[i] : i \in DOMAIN records}
           n == Len(kept)
           next == Take(kept, records[k])
<1>0. /\ kept \in Seq(R) /\ n \in Nat /\ DOMAIN kept = 1..n /\ DOMAIN records = 1..Len(records) /\ Len(records) \in Nat
      /\ k \in Nat /\ k # 0 /\ records[k] \in R
  BY DEF Kept
<1> HIDE DEF R
<1>1. CASE \A i \in DOMAIN kept : kept[i].url # records[k].url
  <2>1. /\ next \in Seq(R) /\ DOMAIN next = 1..(n + 1) /\ next[n + 1] = records[k]
        /\ \A i \in 1..n : next[i] = kept[i]
    BY <1>0, <1>1 DEF Take
  <2>2. \A j \in 1..(k - 1) : records[j].url # records[k].url
    <3>1. \A j \in 1..(k - 1) : \E i \in DOMAIN kept : kept[i].url = records[j].url
      BY DEF Kept
    <3> QED BY <1>1, <3>1
  <2> HIDE DEF next
  <2>3. ASSUME NEW i \in DOMAIN next, NEW j \in DOMAIN next, next[i].url = next[j].url PROVE i = j
    <3>1. (i \in 1..n \/ i = n + 1) /\ (j \in 1..n \/ j = n + 1)
      BY <1>0, <2>1
    <3>2. CASE i \in 1..n /\ j \in 1..n
      <4>1. kept[i].url = kept[j].url
        BY <2>1, <2>3, <3>2
      <4> QED BY <1>0, <3>2, <4>1 DEF Kept
    <3> QED BY <1>0, <1>1, <2>1, <2>3, <3>1, <3>2
  <2>4. ASSUME NEW i \in DOMAIN next PROVE \E m \in 1..k : next[i] = records[m] /\ Winner(records, m, k)
    <3>1. CASE i = n + 1
      <4>1. Winner(records, k, k)
        BY <1>0, <2>2 DEF Winner
      <4> QED BY <1>0, <2>1, <3>1, <4>1
    <3>2. CASE i \in 1..n
      <4>1. PICK m \in 1..(k - 1) : kept[i] = records[m] /\ Winner(records, m, k - 1)
        BY <1>0, <3>2 DEF Kept
      <4>2. records[k].url # records[m].url
        BY <1>0, <1>1, <3>2, <4>1
      <4>3. Winner(records, m, k)
        BY <1>0, <4>1, <4>2 DEF Winner
      <4>4. next[i] = records[m] /\ m \in 1..k
        <5>1. next[i] = kept[i]
          BY <2>1, <3>2
        <5> QED BY <1>0, <4>1, <5>1
      <4> QED BY <4>3, <4>4
    <3> QED BY <1>0, <2>1, <3>1, <3>2
  <2>5. ASSUME NEW j \in 1..k PROVE \E i \in DOMAIN next : next[i].url = records[j].url
    <3>1. CASE j = k
      BY <1>0, <2>1, <3>1
    <3>2. CASE j # k
      <4>1. PICK i \in DOMAIN kept : kept[i].url = records[j].url
        BY <1>0, <3>2 DEF Kept
      <4> QED BY <1>0, <2>1, <4>1
    <3> QED BY <3>1, <3>2
  <2>6. ASSUME NEW i \in DOMAIN next PROVE \E m \in 1..k : records[m].url = next[i].url /\ Debut(records, m)
    <3>1. CASE i = n + 1
      BY <1>0, <2>1, <2>2, <3>1 DEF Debut
    <3>2. CASE i \in 1..n
      <4>1. PICK m \in 1..(k - 1) : records[m].url = kept[i].url /\ Debut(records, m)
        BY <1>0, <3>2 DEF Kept
      <4> QED BY <1>0, <2>1, <3>2, <4>1
    <3> QED BY <1>0, <2>1, <3>1, <3>2
  <2>7. ASSUME NEW i \in DOMAIN next, NEW j \in DOMAIN next, NEW m \in 1..k, NEW o \in 1..k, i < j,
               records[m].url = next[i].url, Debut(records, m), records[o].url = next[j].url, Debut(records, o)
        PROVE  m < o
    <3>1. i \in 1..n /\ next[i] = kept[i] /\ m # k
      BY <1>0, <1>1, <2>1, <2>7
    <3>2. CASE j = n + 1
      <4>1. o = k
        <5>1. records[o].url = records[k].url
          BY <2>1, <2>7, <3>2
        <5> QED BY <1>0, <2>2, <5>1
      <4> QED BY <1>0, <3>1, <4>1
    <3>3. CASE j # n + 1
      <4>0. j \in 1..n /\ next[j] = kept[j]
        BY <1>0, <2>1, <3>3
      <4>1. j \in 1..n /\ next[j] = kept[j] /\ o # k
        BY <1>0, <1>1, <2>7, <4>0
      <4>2. m \in 1..(k - 1) /\ o \in 1..(k - 1)
        BY <1>0, <3>1, <4>1
      <4> QED BY <1>0, <2>7, <3>1, <4>1, <4>2 DEF Kept
    <3> QED BY <3>2, <3>3
  <2> QED BY <2>1, <2>3, <2>4, <2>5, <2>6, <2>7 DEF Kept, next, R
<1>2. CASE \E i \in DOMAIN kept : kept[i].url = records[k].url
  <2>1. PICK a \in 1..n : kept[a].url = records[k].url
    BY <1>0, <1>2
  <2>2. \A i \in 1..n : kept[i].url = records[k].url => i = a
    BY <1>0, <2>1 DEF Kept
  <2>3. next = [i \in DOMAIN kept |-> IF kept[i].url = records[k].url /\ Wins(records[k], kept[i]) THEN records[k] ELSE kept[i]]
    BY <1>2 DEF Take
  <2>4. /\ next \in Seq(R) /\ DOMAIN next = 1..n /\ \A i \in 1..n : next[i].url = kept[i].url
        /\ \A i \in 1..n : i # a => next[i] = kept[i]
        /\ next[a] = IF Wins(records[k], kept[a]) THEN records[k] ELSE kept[a]
    <3>1. \A i \in 1..n : next[i] \in R /\ next[i].url = kept[i].url
      BY <1>0, <2>3
    <3>2. DOMAIN next = 1..n
      BY <1>0, <2>3
    <3>3. next \in [1..n -> R]
      <4> HIDE DEF next
      <4> QED BY <1>0, <2>3, <3>1
    <3>4. next \in Seq(R)
      <4> HIDE DEF next
      <4> QED BY <1>0, <3>3
    <3> QED BY <1>0, <2>1, <2>2, <2>3, <3>1, <3>2, <3>4
  <2> HIDE DEF next
  <2>5. \A i, j \in DOMAIN next : next[i].url = next[j].url => i = j
    BY <1>0, <2>4 DEF Kept
  <2>6. ASSUME NEW i \in DOMAIN next PROVE \E m \in 1..k : next[i] = records[m] /\ Winner(records, m, k)
    <3>1. PICK m \in 1..(k - 1) : kept[i] = records[m] /\ Winner(records, m, k - 1)
      BY <1>0, <2>4 DEF Kept
    <3>2. CASE i # a
      <4>1. records[k].url # records[m].url
        BY <1>0, <2>2, <2>4, <3>1, <3>2
      <4>2. Winner(records, m, k)
        BY <1>0, <3>1, <4>1 DEF Winner
      <4>3. next[i] = records[m] /\ m \in 1..k
        BY <1>0, <2>4, <3>1, <3>2
      <4> QED BY <4>2, <4>3
    <3>3. CASE i = a /\ Wins(records[k], kept[a])
      <4>1. Winner(records, k, k)
        <5>1. ASSUME NEW j \in 1..k, records[j].url = records[k].url
              PROVE  \/ Advancement(records[j].kind) < Advancement(records[k].kind)
                     \/ Advancement(records[j].kind) = Advancement(records[k].kind) /\ j >= k
          <6>1. CASE j = k
            BY <1>0, <6>1
          <6>2. CASE j # k
            <7>1. j \in 1..(k - 1) /\ records[j].url = records[m].url
              BY <1>0, <2>1, <3>1, <3>3, <5>1, <6>2
            <7>2. \/ Advancement(records[j].kind) < Advancement(records[m].kind)
                  \/ Advancement(records[j].kind) = Advancement(records[m].kind)
              BY <3>1, <7>1 DEF Winner
            <7>3. Advancement(records[k].kind) > Advancement(records[m].kind)
              BY <3>1, <3>3 DEF Wins
            <7> QED BY <7>2, <7>3, AdvancementRange
          <6> QED BY <6>1, <6>2
        <5> QED BY <5>1 DEF Winner
      <4> QED BY <1>0, <2>4, <3>3, <4>1
    <3>4. CASE i = a /\ ~Wins(records[k], kept[a])
      <4>1. ~(Advancement(records[k].kind) > Advancement(records[m].kind))
        BY <3>1, <3>4 DEF Wins
      <4>2. \/ Advancement(records[k].kind) < Advancement(records[m].kind)
            \/ Advancement(records[k].kind) = Advancement(records[m].kind) /\ k >= m
        BY <1>0, <4>1, AdvancementRange
      <4>3. Winner(records, m, k)
        BY <1>0, <3>1, <4>2 DEF Winner
      <4> QED BY <1>0, <2>4, <3>1, <3>4, <4>3
    <3> QED BY <3>2, <3>3, <3>4
  <2>7. ASSUME NEW j \in 1..k PROVE \E i \in DOMAIN next : next[i].url = records[j].url
    <3>1. CASE j = k
      BY <2>1, <2>4, <3>1
    <3>2. CASE j # k
      <4>1. PICK i \in DOMAIN kept : kept[i].url = records[j].url
        BY <1>0, <3>2 DEF Kept
      <4> QED BY <1>0, <2>4, <4>1
    <3> QED BY <3>1, <3>2
  <2>8. \A i \in DOMAIN next : \E m \in 1..k : records[m].url = next[i].url /\ Debut(records, m)
    <3>1. SUFFICES ASSUME NEW i \in 1..n PROVE \E m \in 1..k : records[m].url = next[i].url /\ Debut(records, m)
      BY <2>4
    <3>2. PICK m \in 1..(k - 1) : records[m].url = kept[i].url /\ Debut(records, m)
      BY <1>0 DEF Kept
    <3> QED BY <1>0, <2>4, <3>2
  <2>9. \A m \in 1..k : Debut(records, m) => m \in 1..(k - 1)
    <3>1. PICK p \in 1..(k - 1) : records[p].url = kept[a].url
      BY <1>0, <2>1 DEF Kept
    <3>2. ~Debut(records, k)
      BY <2>1, <3>1 DEF Debut
    <3> QED BY <1>0, <3>2
  <2>10. ASSUME NEW i \in DOMAIN next, NEW j \in DOMAIN next, NEW m \in 1..k, NEW o \in 1..k, i < j,
               records[m].url = next[i].url, Debut(records, m), records[o].url = next[j].url, Debut(records, o)
        PROVE  m < o
    <3>1. m \in 1..(k - 1) /\ o \in 1..(k - 1) /\ i \in 1..n /\ j \in 1..n
      BY <2>4, <2>9, <2>10
    <3> QED BY <1>0, <2>4, <2>10, <3>1 DEF Kept
  <2> QED BY <2>4, <2>5, <2>6, <2>7, <2>8, <2>10 DEF Kept, next, R
<1> QED BY <1>1, <1>2


(* Each prefix of the records leaves the winners of it.                    *)
LEMMA DuplicatesResolved ==
  ASSUME NEW S, NEW records \in Seq(S)
  PROVE  Kept(records, ResolveDuplicates(records), Len(records))
<1> DEFINE n == Len(records)
           Fold(f, m) == f = [k \in 0..m |-> IF k = 0 THEN <<>> ELSE Take(f[k - 1], records[k])]
           Good == {m \in 0..n : \E g : Fold(g, m) /\ Kept(records, g[m], m)}
<1>1. n \in Nat
  OBVIOUS
<1>2. 0 \in Good
  <2> DEFINE g == [k \in 0..0 |-> <<>>]
  <2>1. Fold(g, 0)
    OBVIOUS
  <2>2. PICK none : none = g[0] /\ none \in Seq({records[i] : i \in DOMAIN records}) /\ DOMAIN none = {}
    <3>1. ASSUME NEW T PROVE g[0] \in Seq(T) /\ DOMAIN g[0] = {}
      OBVIOUS
    <3> QED BY <3>1
  <2>3. Kept(records, none, 0)
    BY <2>2 DEF Kept
  <2> HIDE DEF g, Fold
  <2>4. \E x : Fold(x, 0) /\ Kept(records, x[0], 0)
    BY <2>1, <2>2, <2>3
  <2> QED BY <1>1, <2>4
<1>3. ASSUME NEW m \in 1..n, m - 1 \in Good PROVE m \in Good
  <2>1. PICK g : Fold(g, m - 1) /\ Kept(records, g[m - 1], m - 1)
    BY <1>3
  <2> DEFINE last == Take(g[m - 1], records[m])
             h == [j \in 0..m |-> IF j = m THEN last ELSE g[j]]
  <2>2. Kept(records, last, m)
    BY <2>1, TakeKeeps
  <2> HIDE DEF last
  <2>3. ASSUME NEW j \in 0..m PROVE h[j] = IF j = 0 THEN <<>> ELSE Take(h[j - 1], records[j])
    <3>1. CASE j = 0
      BY <1>1, <2>1, <3>1
    <3>2. CASE j = m
      <4>1. j # 0 /\ h[j - 1] = g[m - 1] /\ h[j] = last
        BY <1>1, <3>2
      <4> QED BY <3>2, <4>1 DEF last
    <3>3. CASE j # 0 /\ j # m
      <4>1. j \in 0..(m - 1) /\ j - 1 \in 0..(m - 1)
        BY <1>1, <3>3
      <4>2. g[j] = IF j = 0 THEN <<>> ELSE Take(g[j - 1], records[j])
        BY <2>1, <4>1
      <4> QED BY <3>3, <4>1, <4>2
    <3> QED BY <3>1, <3>2, <3>3
  <2>4. Fold(h, m)
    BY <2>3
  <2>5. h[m] = last
    BY <1>1
  <2> HIDE DEF h, Fold
  <2>6. \E x : Fold(x, m) /\ Kept(records, x[m], m)
    BY <2>2, <2>4, <2>5
  <2> QED BY <1>1, <2>6
<1> HIDE DEF Good
<1>4. \A k \in 0..n : k \in Good
  BY <1>1, <1>2, <1>3, UpTo
<1>5. PICK g : Fold(g, n) /\ Kept(records, g[n], n)
  BY <1>1, <1>4 DEF Good
<1>6. PICK f : f = CHOOSE x : Fold(x, n)
  OBVIOUS
<1>7. Fold(f, n)
  BY <1>5, <1>6
<1>8. ResolveDuplicates(records) = f[n]
  BY <1>6 DEF ResolveDuplicates
<1> DEFINE Same == {k \in 0..n : f[k] = g[k]}
<1>9. \A k \in 0..n : k \in Same
  <2>1. 0 \in Same
    BY <1>1, <1>5, <1>7
  <2>2. ASSUME NEW k \in 1..n, k - 1 \in Same PROVE k \in Same
    <3>1. k \in 0..n /\ k # 0 /\ f[k - 1] = g[k - 1]
      BY <1>1, <2>2
    <3>2. f[k] = Take(f[k - 1], records[k]) /\ g[k] = Take(g[k - 1], records[k])
      BY <1>5, <1>7, <3>1
    <3> QED BY <3>1, <3>2
  <2> HIDE DEF Same
  <2> QED BY <1>1, <2>1, <2>2, UpTo
<1>10. f[n] = g[n]
  BY <1>1, <1>9
<1> QED BY <1>5, <1>8, <1>10

(* A batch is always right: of each URL the winner, in the order of the    *)
(* URLs' first records.                                                    *)
LEMMA BatchIsRight ==
  ASSUME imLegacy \in ImLegacies
  PROVE  IsRight(Batch)
<1> DEFINE S == {imLegacy[i] : i \in DOMAIN imLegacy}
<1>1. PICK records : records = Staged
  OBVIOUS
<1>2. /\ records \in Seq(S) /\ \A i \in DOMAIN records : records[i].no \in Nat
      /\ \A i, j \in DOMAIN records : i < j => records[i].no < records[j].no
  BY <1>1, StagedOrdered
<1> DEFINE n == Len(records)
<1> HIDE DEF S
<1>3. n \in Nat /\ DOMAIN records = 1..n
  BY <1>2
<1>4. PICK kept : kept = ResolveDuplicates(records) /\ Kept(records, kept, n)
  BY <1>2, DuplicatesResolved
<1>5. kept \in Seq({records[i] : i \in DOMAIN records}) /\ DOMAIN kept = 1..Len(kept)
  BY <1>4 DEF Kept
<1>6. PICK batch : batch = Batch
  OBVIOUS
<1>7. /\ DOMAIN batch = DOMAIN kept
      /\ \A i \in DOMAIN kept : /\ batch[i].url = kept[i].url /\ batch[i].no = kept[i].no
                                /\ batch[i].status = MapStatus(kept[i].kind)
  BY <1>1, <1>4, <1>6 DEF Batch
<1>8. \A i, j \in 1..n : records[j].no >= records[i].no <=> j >= i
  BY <1>2, <1>3
<1>9. ASSUME NEW m \in 1..n PROVE Winner(records, m, n) <=> Best(records[m])
  BY <1>1, <1>3, <1>8 DEF Winner, Best
<1>10. ASSUME NEW i \in DOMAIN kept PROVE \E m \in 1..n : kept[i] = records[m] /\ Best(records[m])
  BY <1>4, <1>9, <1>10 DEF Kept
<1>11. ASSUME NEW j \in 1..n, Best(records[j]) PROVE \E i \in DOMAIN kept : kept[i].no = records[j].no
  <2>1. PICK i \in DOMAIN kept : kept[i].url = records[j].url
    BY <1>4 DEF Kept
  <2>2. PICK m \in 1..n : kept[i] = records[m] /\ Best(records[m])
    BY <1>10
  <2>3. /\ Advancement(records[j].kind) = Advancement(records[m].kind)
        /\ records[j].no >= records[m].no /\ records[m].no >= records[j].no
    <3>1. \/ Advancement(records[j].kind) < Advancement(records[m].kind)
          \/ Advancement(records[j].kind) = Advancement(records[m].kind) /\ records[j].no >= records[m].no
      BY <1>1, <1>3, <2>1, <2>2 DEF Best
    <3>2. \/ Advancement(records[m].kind) < Advancement(records[j].kind)
          \/ Advancement(records[m].kind) = Advancement(records[j].kind) /\ records[m].no >= records[j].no
      BY <1>1, <1>3, <1>11, <2>1, <2>2 DEF Best
    <3> QED BY <3>1, <3>2, AdvancementRange
  <2> QED BY <1>2, <1>3, <2>2, <2>3
<1>12. {batch[i].no : i \in DOMAIN batch} = {Staged[i].no : i \in {j \in DOMAIN Staged : Best(Staged[j])}}
  <2>1. ASSUME NEW i \in DOMAIN batch PROVE \E m \in DOMAIN Staged : Best(Staged[m]) /\ batch[i].no = Staged[m].no
    BY <1>1, <1>3, <1>7, <1>10
  <2>2. ASSUME NEW j \in DOMAIN Staged, Best(Staged[j]) PROVE \E i \in DOMAIN batch : batch[i].no = Staged[j].no
    BY <1>1, <1>3, <1>7, <1>11, <2>2
  <2> QED BY <2>1, <2>2
<1>13. ASSUME NEW m \in 1..n, Debut(records, m) PROVE First(records[m].url) = m
  <2> DEFINE Is(i) == Staged[i].url = records[m].url /\ \A j \in 1..(i - 1) : Staged[j].url # records[m].url
  <2>1. m \in DOMAIN Staged /\ Is(m)
    BY <1>1, <1>3, <1>13 DEF Debut
  <2>2. ASSUME NEW i \in DOMAIN Staged, Is(i) PROVE i = m
    <3>1. i \in 1..n
      BY <1>1, <1>3
    <3>2. ~(i < m)
      BY <1>1, <1>3, <2>1, <2>2, <3>1
    <3>3. ~(m < i)
      BY <1>1, <1>3, <2>1, <2>2, <3>1
    <3> QED BY <1>3, <3>1, <3>2, <3>3
  <2>3. First(records[m].url) = CHOOSE i \in DOMAIN Staged : Is(i)
    BY DEF First
  <2> HIDE DEF Is
  <2> QED BY <2>1, <2>2, <2>3
<1>14. ASSUME NEW i \in DOMAIN batch, NEW j \in DOMAIN batch, i < j PROVE First(batch[i].url) < First(batch[j].url)
  <2>1. PICK m \in 1..n : records[m].url = kept[i].url /\ Debut(records, m)
    BY <1>4, <1>7 DEF Kept
  <2>2. PICK o \in 1..n : records[o].url = kept[j].url /\ Debut(records, o)
    BY <1>4, <1>7 DEF Kept
  <2>3. m < o
    BY <1>4, <1>7, <1>14, <2>1, <2>2 DEF Kept
  <2>4. First(records[m].url) = m /\ First(records[o].url) = o
    BY <1>13, <2>1, <2>2
  <2> QED BY <1>7, <2>1, <2>2, <2>3, <2>4
<1>15. ASSUME NEW i \in DOMAIN batch
       PROVE  \E j \in DOMAIN Staged :
                /\ Staged[j].url = batch[i].url /\ Staged[j].no = batch[i].no
                /\ Staged[j].kind \in Completed => batch[i].status = Staged[j].kind
                /\ Staged[j].kind \notin Completed => batch[i].status = "queued"
  <2>1. PICK m \in 1..n : kept[i] = records[m]
    BY <1>7, <1>10
  <2> QED BY <1>1, <1>3, <1>7, <2>1 DEF MapStatus
<1> QED BY <1>6, <1>12, <1>14, <1>15 DEF IsRight

-----------------------------------------------------------------------------
(* The strengthening of ImportIsSafe.  A command that has the database     *)
(* open has the one at the path, unless a failed command that had met      *)
(* another took that away; two that have one open have met; and what a     *)
(* command that met nobody found empty has stayed empty.                   *)
Opener == {"opened", "reading", "writing", "marking", "taking back"}
HasOpen(c) == imCmd[c].pc \in Opener
TookAway == \E c \in ImCmd : imCmd[c].pc = "failed" /\ imCmd[c].fresh /\ imCmd[c].met
Brings(d) == d.batches # <<>>
Fills(d) == d.batches # <<>> \/ d.adds > 0 \/ \E k \in DOMAIN d.batches : d.batches[k] # <<>>
Committed(n) == {c \in ImCmd : imCmd[c].db = n /\ imCmd[c].pc \in {"marking", "done", "dead"}}
Places == Opener \cup {"off", "asked", "refused", "failed", "done", "dead"}
Command(n) == [pc : Places, fresh : BOOLEAN, force : BOOLEAN, skip : BOOLEAN, db : 0..n, met : BOOLEAN]
USE DEF Command
Dbs == [batches : Seq({Batch}), adds : 0..1]

ImportTyped ==
  /\ imLegacy \in ImLegacies /\ imBad \in BOOLEAN
  /\ imDbs \in Seq(Dbs)
  /\ imLive \in 0..Len(imDbs) /\ imServer \in 0..Len(imDbs) /\ imFaults \in 0..ImFaults
  /\ imCmd \in [ImCmd -> Command(Len(imDbs))]
  /\ imMarker \in BOOLEAN /\ imWiped \in BOOLEAN /\ imNoMark \in BOOLEAN
Counted == \A n \in DOMAIN imDbs : Len(imDbs[n].batches) <= Cardinality(Committed(n))
Begun ==
  \A c \in ImCmd : /\ imCmd[c].pc = "off" => ~imCmd[c].force /\ ~imCmd[c].met
                   /\ imCmd[c].pc = "asked" => imCmd[c].db = 0 /\ ~imCmd[c].met
                   /\ HasOpen(c) => imCmd[c].db # 0
AtPath ==
  ~TookAway => /\ \A c \in ImCmd : HasOpen(c) => imCmd[c].db = imLive
               /\ imServer # 0 => imServer = imLive
Meets ==
  \A c \in ImCmd : HasOpen(c) =>
    /\ imCmd[c].db = imServer => imCmd[c].met
    /\ \A d \in ImCmd : d # c /\ HasOpen(d) /\ imCmd[d].db = imCmd[c].db => imCmd[c].met
Untouched ==
  \A c \in ImCmd : HasOpen(c) /\ imCmd[c].pc # "marking" /\ imCmd[c].fresh /\ ~imCmd[c].met
                   => ~Fills(imDbs[imCmd[c].db])
Wrote == \A c \in ImCmd : imCmd[c].pc = "marking" => Brings(imDbs[imCmd[c].db])
Passed ==
  ~Forced /\ ~Overlap => \A c \in ImCmd : imCmd[c].pc \in {"reading", "writing"} =>
                           ~imMarker /\ ~Fills(imDbs[imCmd[c].db])
Told ==
  (\E n \in DOMAIN imDbs : Brings(imDbs[n])) => imMarker \/ imNoMark \/ \E c \in ImCmd : imCmd[c].pc = "marking"
OnlyOne ==
  ~Forced /\ ~Overlap /\ ~(imWiped /\ imNoMark) =>
    \A n, m \in DOMAIN imDbs : Brings(imDbs[n]) /\ Brings(imDbs[m]) => n = m /\ Len(imDbs[n].batches) = 1
Missing == \A n \in DOMAIN imDbs : n # imLive /\ Fills(imDbs[n]) => imWiped \/ TookAway
Marked == imMarker => \E n \in DOMAIN imDbs : Brings(imDbs[n])
Served ==
  imServer # 0 /\ HasJson /\ ~Fills(imDbs[imServer]) => \E n \in DOMAIN imDbs : n # imLive /\ Fills(imDbs[n])
ImportInv ==
  /\ ImportTyped /\ Counted /\ Begun /\ AtPath /\ Meets /\ Untouched /\ Wrote
  /\ Passed /\ Told /\ OnlyOne /\ Missing /\ Marked /\ Served

(* What a database holds.                                                  *)
LEMMA Holdings ==
  /\ EmptyDb \in Dbs /\ ~Brings(EmptyDb) /\ ~Fills(EmptyDb) /\ Len(EmptyDb.batches) = 0
  /\ \A d \in Dbs : /\ d.batches \in Seq({Batch}) /\ Len(d.batches) \in Nat
                    /\ Brings(d) => Fills(d)
                    /\ Brings(d) <=> Len(d.batches) > 0
BY DEF EmptyDb, Dbs, Brings, Fills

LEMMA ImportStarts == ImportInit => ImportInv
<1> SUFFICES ASSUME ImportInit PROVE ImportInv
  OBVIOUS
<1>1. DOMAIN imDbs = {} /\ Len(imDbs) = 0 /\ imDbs \in Seq(Dbs)
  BY DEF ImportInit
<1>2. imLive = 0 /\ imServer = 0 /\ imFaults = 0 /\ imMarker = FALSE /\ imWiped = FALSE /\ imNoMark = FALSE
  BY DEF ImportInit
<1>3. \A c \in ImCmd : imCmd[c] = Idle
  BY DEF ImportInit
<1>4. ImportTyped
  <2>1. imCmd \in [ImCmd -> Command(Len(imDbs))]
    <3>1. 0 \in 0..Len(imDbs)
      BY <1>1
    <3>2. Idle \in Command(Len(imDbs))
      BY <3>1 DEF Idle, Places
    <3> QED BY <3>2 DEF ImportInit
  <2>2. imLegacy \in ImLegacies /\ imBad \in BOOLEAN
    BY DEF ImportInit
  <2>3. imLive \in 0..Len(imDbs) /\ imServer \in 0..Len(imDbs) /\ imFaults \in 0..ImFaults
    BY <1>1, <1>2, ImAssumption
  <2> QED BY <1>1, <1>2, <2>1, <2>2, <2>3 DEF ImportTyped
<1>5. \A c \in ImCmd : imCmd[c].pc = "off" /\ ~imCmd[c].force /\ ~imCmd[c].met
  BY <1>3 DEF Idle
<1>6. Counted /\ Begun /\ AtPath /\ Meets
  BY <1>1, <1>2, <1>5 DEF Counted, Begun, AtPath, Meets, HasOpen, Opener
<1>7. Untouched /\ Wrote /\ Passed
  BY <1>5 DEF Untouched, Wrote, Passed, HasOpen, Opener
<1>8. Told /\ OnlyOne /\ Missing /\ Marked /\ Served
  BY <1>1, <1>2 DEF Told, OnlyOne, Missing, Marked, Served
<1> QED BY <1>4, <1>6, <1>7, <1>8 DEF ImportInv

LEMMA OpenHere == ASSUME ImportInv PROVE \A c \in ImCmd : HasOpen(c) => imCmd[c].db \in DOMAIN imDbs
<1>1. /\ imCmd \in [ImCmd -> Command(Len(imDbs))]
      /\ DOMAIN imDbs = 1..Len(imDbs) /\ Len(imDbs) \in Nat
  BY DEF ImportInv, ImportTyped
<1>2. \A c \in ImCmd : imCmd[c].db \in 0..Len(imDbs)
  BY <1>1
<1> QED BY <1>1, <1>2 DEF ImportInv, Begun

(* What each command that only moves on leaves.                            *)
MovesOn(c, q) ==
  /\ Running(c) /\ q \in Places \ {"off", "asked"}
  /\ q \in Opener => HasOpen(c) /\ q # "marking" /\ imCmd[c].pc # "marking"
  /\ imCmd[c].pc = "marking" => q \in {"done", "dead"} /\ (imMarker' \/ imNoMark')
  /\ imCmd' = [imCmd EXCEPT ![c].pc = q]
  /\ imDbs' = imDbs /\ imServer' = imServer /\ imLegacy' = imLegacy /\ imBad' = imBad /\ imWiped' = imWiped
  /\ imLive' \in {0, imLive}
  /\ imFaults' \in 0..ImFaults /\ imMarker' \in BOOLEAN /\ imNoMark' \in BOOLEAN
  /\ (imMarker => imMarker') /\ (imNoMark => imNoMark')

LEMMA CommandsFinite == \A n : IsFiniteSet(Committed(n)) /\ Cardinality(Committed(n)) \in Nat /\ Committed(n) \subseteq ImCmd
BY ImAssumption, FS_Subset, FS_CardinalityType DEF Committed

LEMMA SameFiles == imLegacy' = imLegacy /\ imBad' = imBad => Batch' = Batch /\ Dbs' = Dbs /\ HasJson' = HasJson
BY DEF Batch, Staged, Unread, Dbs, HasJson

LEMMA MoveKeeps ==
  ASSUME ImportInv, NEW c \in ImCmd, NEW q, MovesOn(c, q)
  PROVE  /\ imCmd'[c].pc = q /\ \A d \in ImCmd : d # c => imCmd'[d] = imCmd[d]
         /\ \A d \in ImCmd : /\ imCmd'[d].db = imCmd[d].db /\ imCmd'[d].fresh = imCmd[d].fresh
                             /\ imCmd'[d].met = imCmd[d].met /\ imCmd'[d].force = imCmd[d].force
         /\ Forced' = Forced /\ Overlap' = Overlap /\ (TookAway => TookAway')
         /\ ImportTyped' /\ Counted' /\ Begun' /\ Meets' /\ Untouched' /\ Wrote' /\ Told' /\ OnlyOne' /\ Served'
<1>1. /\ imCmd \in [ImCmd -> Command(Len(imDbs))]
      /\ imDbs \in Seq(Dbs) /\ imLive \in 0..Len(imDbs) /\ Len(imDbs) \in Nat /\ DOMAIN imDbs = 1..Len(imDbs)
  BY DEF ImportInv, ImportTyped
<1>2. imCmd'[c].pc = q /\ \A d \in ImCmd : d # c => imCmd'[d] = imCmd[d]
  BY <1>1 DEF MovesOn
<1>3. \A d \in ImCmd : /\ imCmd'[d].db = imCmd[d].db /\ imCmd'[d].fresh = imCmd[d].fresh
                       /\ imCmd'[d].met = imCmd[d].met /\ imCmd'[d].force = imCmd[d].force
  BY <1>1 DEF MovesOn
<1>4. Forced' = Forced /\ Overlap' = Overlap
  BY <1>3 DEF Forced, Overlap
<1>5. imCmd[c].pc \notin {"off", "refused", "failed", "done", "dead"}
  BY DEF MovesOn, Running
<1>6. TookAway => TookAway'
  BY <1>2, <1>3, <1>5 DEF TookAway
<1>7. imDbs' = imDbs /\ imServer' = imServer /\ Batch' = Batch /\ Dbs' = Dbs /\ HasJson' = HasJson
  BY SameFiles DEF MovesOn
<1>8. \A d \in ImCmd : HasOpen(d)' => HasOpen(d) /\ (imCmd'[d].pc # "marking" => imCmd[d].pc # "marking")
  BY <1>2 DEF MovesOn, HasOpen
<1>9. \A d \in ImCmd : imCmd'[d].pc = "marking" => imCmd[d].pc = "marking"
  BY <1>2 DEF MovesOn, Opener
<1>10. ImportTyped'
  <2>1. imCmd' \in [ImCmd -> Command(Len(imDbs))]
    BY <1>1 DEF MovesOn
  <2>2. imLive' \in 0..Len(imDbs)
    BY <1>1 DEF MovesOn
  <2> QED BY <1>1, <1>7, <2>1, <2>2 DEF MovesOn, ImportInv, ImportTyped
<1>11. Counted'
  <2>1. \A n : Committed(n) \subseteq Committed(n)'
    BY <1>2, <1>3, <1>5 DEF MovesOn, Committed
  <2>2. \A n : IsFiniteSet(Committed(n)') /\ Cardinality(Committed(n)') \in Nat
    <3>1. \A n : Committed(n)' \subseteq ImCmd
      BY DEF Committed
    <3> QED BY <3>1, ImAssumption, FS_Subset, FS_CardinalityType
  <2>3. \A n : Cardinality(Committed(n)) <= Cardinality(Committed(n)')
    BY <2>1, <2>2, FS_Subset
  <2>4. SUFFICES ASSUME NEW n \in DOMAIN imDbs PROVE Len(imDbs[n].batches) <= Cardinality(Committed(n)')
    BY <1>7 DEF Counted
  <2>5. Len(imDbs[n].batches) \in Nat /\ Len(imDbs[n].batches) <= Cardinality(Committed(n))
    <3>1. imDbs[n] \in Dbs
      BY <1>1
    <3> QED BY <3>1, Holdings DEF ImportInv, Counted
  <2> QED BY <2>2, <2>3, <2>5, CommandsFinite
<1>12. Begun'
  BY <1>2, <1>3, <1>8 DEF MovesOn, ImportInv, Begun
<1>13. Meets'
  BY <1>3, <1>7, <1>8 DEF ImportInv, Meets
<1>14. Untouched'
  BY <1>3, <1>7, <1>8 DEF ImportInv, Untouched
<1>15. Wrote'
  BY <1>3, <1>7, <1>9 DEF ImportInv, Wrote
<1>16. Told'
  BY <1>2, <1>7 DEF MovesOn, ImportInv, Told
<1>17. OnlyOne'
  BY <1>4, <1>7 DEF MovesOn, ImportInv, OnlyOne
<1>18. Served'
  BY <1>1, <1>7 DEF MovesOn, ImportInv, Served
<1> QED BY <1>2, <1>3, <1>4, <1>6, <1>10, <1>11, <1>12, <1>13, <1>14, <1>15, <1>16, <1>17, <1>18


LEMMA BeginKeeps ==
  ASSUME ImportInv, NEW c \in ImCmd, NEW force \in BOOLEAN, NEW skip \in BOOLEAN, Begin(c, force, skip)
  PROVE  ImportInv'
<1>1. /\ imCmd \in [ImCmd -> Command(Len(imDbs))]
      /\ imDbs \in Seq(Dbs) /\ imLive \in 0..Len(imDbs) /\ Len(imDbs) \in Nat /\ DOMAIN imDbs = 1..Len(imDbs)
  BY DEF ImportInv, ImportTyped
<1>2. /\ imCmd'[c].pc = "asked" /\ imCmd'[c].db = 0 /\ imCmd'[c].met = FALSE /\ imCmd[c].pc = "off"
      /\ ~imCmd[c].met /\ ~imCmd[c].force /\ \A d \in ImCmd : d # c => imCmd'[d] = imCmd[d]
  BY <1>1 DEF Begin, Idle, ImportInv, Begun
<1>3. (Forced => Forced') /\ (Overlap => Overlap') /\ (TookAway => TookAway')
  BY <1>2 DEF Forced, Overlap, TookAway
<1>4. /\ imDbs' = imDbs /\ imLive' = imLive /\ imServer' = imServer /\ imMarker' = imMarker
      /\ imWiped' = imWiped /\ imNoMark' = imNoMark /\ Batch' = Batch /\ Dbs' = Dbs /\ HasJson' = HasJson
  BY SameFiles DEF Begin
<1>5. \A d \in ImCmd : (imCmd'[d].pc \in Opener \cup {"failed", "marking", "done", "dead"} \/ imCmd[d].pc \in Opener \cup {"failed", "marking", "done", "dead"}) => d # c /\ imCmd'[d] = imCmd[d]
  BY <1>2 DEF Opener
<1>6. \A n : Committed(n)' = Committed(n)
  BY <1>5 DEF Committed
<1>7. ImportTyped'
  <2>1. imCmd' \in [ImCmd -> Command(Len(imDbs))]
    <3> DEFINE begun == [Idle EXCEPT !.pc = "asked", !.fresh = (imLive = 0), !.force = force, !.skip = skip]
    <3>1. 0 \in 0..Len(imDbs) /\ (imLive = 0) \in BOOLEAN
      BY <1>1
    <3>2. begun \in Command(Len(imDbs))
      BY <3>1 DEF Idle, Places
    <3>3. imCmd' = [imCmd EXCEPT ![c] = begun]
      BY DEF Begin
    <3> HIDE DEF begun
    <3> QED BY <1>1, <3>2, <3>3
  <2> QED BY <1>4, <2>1 DEF Begin, ImportInv, ImportTyped
<1>8. Counted' /\ Wrote'
  BY <1>4, <1>5, <1>6 DEF ImportInv, Counted, Wrote
<1>9. Begun'
  BY <1>2, <1>5 DEF ImportInv, Begun, HasOpen, Opener
<1>10. AtPath' /\ Meets' /\ Untouched'
  BY <1>3, <1>4, <1>5 DEF ImportInv, AtPath, Meets, Untouched, HasOpen
<1>11. Passed'
  BY <1>3, <1>4, <1>5 DEF ImportInv, Passed, Opener
<1>12. Told' /\ OnlyOne' /\ Missing' /\ Marked' /\ Served'
  BY <1>3, <1>4, <1>5 DEF ImportInv, Told, OnlyOne, Missing, Marked, Served, Opener
<1> QED BY <1>7, <1>8, <1>9, <1>10, <1>11, <1>12 DEF ImportInv

(* A process that opens the path finds the database there, or creates an   *)
(* empty one.                                                              *)
PathOpened == imDbs' = Created /\ imLive' = OpenDb
LEMMA DatabaseOpened ==
  ASSUME ImportInv, PathOpened, imLegacy' = imLegacy, imBad' = imBad
  PROVE  /\ imDbs \in Seq(Dbs) /\ Len(imDbs) \in Nat /\ DOMAIN imDbs = 1..Len(imDbs) /\ imLive \in 0..Len(imDbs)
         /\ imDbs' \in Seq(Dbs)' /\ Len(imDbs') \in Nat /\ DOMAIN imDbs' = 1..Len(imDbs') /\ Len(imDbs) <= Len(imDbs')
         /\ OpenDb \in 1..Len(imDbs') /\ (imLive # 0 => OpenDb = imLive) /\ (imLive = 0 => OpenDb \notin DOMAIN imDbs)
         /\ \A n \in DOMAIN imDbs : n \in DOMAIN imDbs' /\ imDbs'[n] = imDbs[n]
         /\ \A n \in DOMAIN imDbs' : n \notin DOMAIN imDbs => n = OpenDb /\ imLive = 0 /\ imDbs'[n] = EmptyDb
<1>1. imDbs \in Seq(Dbs) /\ Len(imDbs) \in Nat /\ DOMAIN imDbs = 1..Len(imDbs) /\ imLive \in 0..Len(imDbs)
  BY DEF ImportInv, ImportTyped
<1>2. Dbs' = Dbs /\ Seq(Dbs)' = Seq(Dbs) /\ EmptyDb \in Dbs
  BY SameFiles, Holdings
<1> QED BY <1>1, <1>2 DEF PathOpened, Created, OpenDb

LEMMA OpenedKeeps ==
  ASSUME ImportInv, PathOpened, imLegacy' = imLegacy, imBad' = imBad, imMarker' = imMarker, imWiped' = imWiped,
         imNoMark' = imNoMark, Forced => Forced', Overlap => Overlap', TookAway => TookAway',
         \A c \in ImCmd : imCmd'[c].pc \in {"marking", "done", "dead"} \/ imCmd[c].pc \in {"marking", "done", "dead"} =>
                           imCmd'[c].pc = imCmd[c].pc /\ imCmd'[c].db = imCmd[c].db
  PROVE  Counted' /\ Wrote' /\ Told' /\ OnlyOne' /\ Missing' /\ Marked'
<1>1. /\ imDbs \in Seq(Dbs) /\ Len(imDbs) \in Nat /\ DOMAIN imDbs = 1..Len(imDbs) /\ imLive \in 0..Len(imDbs)
      /\ OpenDb \in 1..Len(imDbs') /\ (imLive # 0 => OpenDb = imLive) /\ (imLive = 0 => OpenDb \notin DOMAIN imDbs)
      /\ \A n \in DOMAIN imDbs : n \in DOMAIN imDbs' /\ imDbs'[n] = imDbs[n]
      /\ \A n \in DOMAIN imDbs' : n \notin DOMAIN imDbs => n = OpenDb /\ imLive = 0 /\ imDbs'[n] = EmptyDb
  BY DatabaseOpened
<1>2. \A n : Committed(n)' = Committed(n)
  BY DEF Committed
<1>3. Counted'
  <2>1. SUFFICES ASSUME NEW n \in DOMAIN imDbs' PROVE Len(imDbs'[n].batches) <= Cardinality(Committed(n)')
    BY DEF Counted
  <2>2. CASE n \in DOMAIN imDbs
    BY <1>1, <1>2, <2>2 DEF ImportInv, Counted
  <2>3. CASE n \notin DOMAIN imDbs
    <3>1. Len(imDbs'[n].batches) = 0 /\ Cardinality(Committed(n)') \in Nat
      BY <1>1, <1>2, <2>3, Holdings, CommandsFinite
    <3> QED BY <3>1
  <2> QED BY <2>2, <2>3
<1>4. Wrote'
  <2>1. ASSUME NEW c \in ImCmd, imCmd'[c].pc = "marking" PROVE Brings(imDbs'[imCmd'[c].db])
    <3>1. imCmd[c].pc = "marking" /\ imCmd'[c].db = imCmd[c].db
      BY <2>1
    <3>2. imCmd[c].db \in 0..Len(imDbs) /\ imCmd[c].db # 0 /\ Brings(imDbs[imCmd[c].db])
      BY <3>1 DEF ImportInv, ImportTyped, Begun, HasOpen, Opener, Wrote
    <3> QED BY <1>1, <3>1, <3>2
  <2> QED BY <2>1 DEF Wrote
<1>5. \A n \in DOMAIN imDbs' : Fills(imDbs'[n]) \/ Brings(imDbs'[n]) => n \in DOMAIN imDbs /\ imDbs'[n] = imDbs[n]
  BY <1>1, Holdings
<1>6. Told' /\ Marked'
  BY <1>1, <1>5 DEF ImportInv, Told, Marked
<1>7. OnlyOne'
  BY <1>5 DEF ImportInv, OnlyOne
<1>8. Missing'
  BY <1>1, <1>5 DEF PathOpened, ImportInv, Missing
<1> QED BY <1>3, <1>4, <1>6, <1>7, <1>8

LEMMA OpenStoreKeeps == ASSUME ImportInv, NEW c \in ImCmd, OpenStore(c) PROVE ImportInv'
<1>1. /\ imCmd \in [ImCmd -> Command(Len(imDbs))]
      /\ imServer \in 0..Len(imDbs)
  BY DEF ImportInv, ImportTyped
<1>2. PathOpened /\ imLegacy' = imLegacy /\ imBad' = imBad /\ imMarker' = imMarker /\ imWiped' = imWiped
      /\ imNoMark' = imNoMark /\ imServer' = imServer /\ imFaults' = imFaults /\ imCmd[c].pc = "asked"
  BY DEF OpenStore, PathOpened
<1>3. /\ imDbs \in Seq(Dbs) /\ Len(imDbs) \in Nat /\ DOMAIN imDbs = 1..Len(imDbs) /\ imLive \in 0..Len(imDbs)
      /\ imDbs' \in Seq(Dbs)' /\ Len(imDbs') \in Nat /\ DOMAIN imDbs' = 1..Len(imDbs') /\ Len(imDbs) <= Len(imDbs')
      /\ OpenDb \in 1..Len(imDbs') /\ (imLive # 0 => OpenDb = imLive) /\ (imLive = 0 => OpenDb \notin DOMAIN imDbs)
      /\ \A n \in DOMAIN imDbs : n \in DOMAIN imDbs' /\ imDbs'[n] = imDbs[n]
      /\ \A n \in DOMAIN imDbs' : n \notin DOMAIN imDbs => n = OpenDb /\ imLive = 0 /\ imDbs'[n] = EmptyDb
  BY <1>2, DatabaseOpened
<1>4. /\ imCmd'[c].pc = "opened" /\ imCmd'[c].db = OpenDb /\ imCmd'[c].met = Shared(c)
      /\ imCmd'[c].fresh = imCmd[c].fresh /\ imCmd'[c].force = imCmd[c].force /\ ~imCmd[c].met
  BY <1>1 DEF OpenStore, Meet, ImportInv, Begun
<1>5. ASSUME NEW d \in ImCmd, d # c
      PROVE  /\ imCmd'[d].pc = imCmd[d].pc /\ imCmd'[d].db = imCmd[d].db /\ imCmd'[d].met = Met(d)
             /\ imCmd'[d].fresh = imCmd[d].fresh /\ imCmd'[d].force = imCmd[d].force
  BY <1>1, <1>5 DEF OpenStore, Meet
<1>6. \A d \in ImCmd : imCmd[d].met => d # c /\ imCmd'[d].met
  BY <1>4, <1>5 DEF Met
<1>7. (Forced => Forced') /\ (Overlap => Overlap') /\ (TookAway => TookAway')
  <2>1. Forced => Forced'
    BY <1>4, <1>5 DEF Forced
  <2>2. Overlap => Overlap'
    BY <1>6 DEF Overlap
  <2>3. TookAway => TookAway'
    BY <1>5, <1>6 DEF TookAway
  <2> QED BY <2>1, <2>2, <2>3
<1>8. Counted' /\ Wrote' /\ Told' /\ OnlyOne' /\ Missing' /\ Marked'
  <2>1. \A d \in ImCmd : imCmd'[d].pc \in {"marking", "done", "dead"} \/ imCmd[d].pc \in {"marking", "done", "dead"} =>
                           imCmd'[d].pc = imCmd[d].pc /\ imCmd'[d].db = imCmd[d].db
    BY <1>2, <1>4, <1>5
  <2> QED BY <1>2, <1>7, <2>1, OpenedKeeps
<1>9. ImportTyped'
  <2>1. imCmd' \in [ImCmd -> Command(Len(imDbs'))]
    <3>1. \A d \in ImCmd : Met(d) \in BOOLEAN /\ Shared(d) \in BOOLEAN /\ imCmd[d].db \in 0..Len(imDbs')
      BY <1>1, <1>3 DEF Met, Shared
    <3>2. OpenDb \in 0..Len(imDbs')
      BY <1>3
    <3>3. Meet \in [ImCmd -> Command(Len(imDbs'))]
      BY <1>1, <3>1 DEF Meet
    <3>4. imCmd' = [Meet EXCEPT ![c] = [@ EXCEPT !.pc = "opened", !.db = OpenDb, !.met = Shared(c)]]
      BY DEF OpenStore
    <3> HIDE DEF Meet
    <3> QED BY <3>1, <3>2, <3>3, <3>4 DEF Places, Opener
  <2>2. imLive' \in 0..Len(imDbs') /\ imServer' \in 0..Len(imDbs')
    BY <1>1, <1>2, <1>3 DEF PathOpened
  <2> QED BY <1>2, <1>3, <2>1, <2>2 DEF ImportInv, ImportTyped
<1>10. Begun'
  <2>1. ASSUME NEW d \in ImCmd, imCmd[d].pc \in {"off", "asked"}, d # c PROVE ~Met(d)
    <3>1. OpenDb # 0 /\ ~imCmd[d].met
      BY <1>3, <2>1 DEF ImportInv, Begun
    <3>2. CASE imCmd[d].pc = "off"
      BY <3>1, <3>2 DEF Met, Running
    <3>3. CASE imCmd[d].pc = "asked"
      BY <3>1, <3>3 DEF Met, ImportInv, Begun
    <3> QED BY <2>1, <3>2, <3>3
  <2>2. SUFFICES ASSUME NEW d \in ImCmd
                 PROVE  /\ imCmd'[d].pc = "off" => ~imCmd'[d].force /\ ~imCmd'[d].met
                        /\ imCmd'[d].pc = "asked" => imCmd'[d].db = 0 /\ ~imCmd'[d].met
                        /\ HasOpen(d)' => imCmd'[d].db # 0
    BY DEF Begun
  <2>3. CASE d = c
    BY <1>3, <1>4, <2>3
  <2>4. CASE d # c
    <3>1. /\ imCmd[d].pc = "off" => ~imCmd[d].force
          /\ imCmd[d].pc = "asked" => imCmd[d].db = 0
          /\ HasOpen(d) => imCmd[d].db # 0
      BY DEF ImportInv, Begun
    <3> QED BY <1>5, <2>1, <2>4, <3>1 DEF HasOpen
  <2> QED BY <2>3, <2>4
<1>11. AtPath'
  BY <1>2, <1>3, <1>4, <1>5, <1>7 DEF PathOpened, ImportInv, AtPath, Begun, HasOpen, Opener
<1>12. \A d \in ImCmd : HasOpen(d) => Running(d)
  BY DEF HasOpen, Opener, Running
<1>13. Meets'
  <2>1. SUFFICES ASSUME NEW d \in ImCmd, HasOpen(d)'
                 PROVE  /\ imCmd'[d].db = imServer' => imCmd'[d].met
                        /\ \A e \in ImCmd : e # d /\ HasOpen(e)' /\ imCmd'[e].db = imCmd'[d].db => imCmd'[d].met
    BY DEF Meets
  <2>2. CASE d = c
    BY <1>2, <1>4, <1>5, <1>12, <2>2 DEF Shared, HasOpen
  <2>3. CASE d # c
    <3>1. HasOpen(d) /\ \A e \in ImCmd : e # c => (HasOpen(e)' <=> HasOpen(e)) /\ imCmd'[e].db = imCmd[e].db
      BY <1>5, <2>1, <2>3 DEF HasOpen
    <3>2. imCmd[d].db = OpenDb => imCmd'[d].met
      BY <1>5, <1>12, <2>3, <3>1 DEF Met
    <3>3. imCmd[d].met => imCmd'[d].met
      BY <1>6
    <3> QED BY <1>2, <1>4, <2>3, <3>1, <3>2, <3>3 DEF ImportInv, Meets
  <2> QED BY <2>2, <2>3
<1>14. Untouched'
  <2>1. SUFFICES ASSUME NEW d \in ImCmd, HasOpen(d)', imCmd'[d].pc # "marking", imCmd'[d].fresh, ~imCmd'[d].met
                 PROVE  ~Fills(imDbs'[imCmd'[d].db])
    BY DEF Untouched
  <2>2. CASE d = c
    <3>1. imLive = 0
      BY <1>4, <2>1, <2>2 DEF Shared
    <3> QED BY <1>3, <1>4, <2>2, <3>1, Holdings
  <2>3. CASE d # c
    <3>1. HasOpen(d) /\ imCmd[d].pc # "marking" /\ imCmd[d].fresh /\ ~imCmd[d].met /\ imCmd[d].db \in DOMAIN imDbs
      BY <1>1, <1>3, <1>5, <1>6, <2>1, <2>3 DEF HasOpen, ImportInv, Begun
    <3> QED BY <1>3, <1>5, <2>3, <3>1 DEF ImportInv, Untouched
  <2> QED BY <2>2, <2>3
<1>15. Passed'
  <2>1. SUFFICES ASSUME ~Forced', ~Overlap', NEW d \in ImCmd, imCmd'[d].pc \in {"reading", "writing"}
                 PROVE  ~imMarker' /\ ~Fills(imDbs'[imCmd'[d].db])
    BY DEF Passed
  <2>2. d # c /\ imCmd[d].pc \in {"reading", "writing"} /\ imCmd'[d].db = imCmd[d].db
    BY <1>4, <1>5, <2>1
  <2>3. ~imMarker /\ ~Fills(imDbs[imCmd[d].db]) /\ imCmd[d].db \in DOMAIN imDbs
    <3>1. ~Forced /\ ~Overlap
      BY <1>7, <2>1
    <3>2. ~imMarker /\ ~Fills(imDbs[imCmd[d].db])
      BY <2>2, <3>1 DEF ImportInv, Passed
    <3>3. imCmd[d].db \in DOMAIN imDbs
      BY <2>2, OpenHere DEF HasOpen, Opener
    <3> QED BY <3>2, <3>3
  <2> QED BY <1>2, <1>3, <2>2, <2>3
<1>16. Served'
  <2>1. HasJson' = HasJson
    BY <1>2, SameFiles
  <2>2. ASSUME NEW n \in DOMAIN imDbs, n # imLive PROVE n # imLive'
    BY <1>2, <1>3, <2>2 DEF PathOpened
  <2> QED BY <1>1, <1>2, <1>3, <2>1, <2>2 DEF ImportInv, Served
<1> QED BY <1>8, <1>9, <1>10, <1>11, <1>13, <1>14, <1>15, <1>16 DEF ImportInv


LEMMA BootsKeeps == ASSUME ImportInv, Boots PROVE ImportInv'
<1>1. /\ imCmd \in [ImCmd -> Command(Len(imDbs))]
      /\ imServer = 0
  BY DEF ImportInv, ImportTyped, Boots
<1>2. PathOpened /\ imLegacy' = imLegacy /\ imBad' = imBad /\ imMarker' = imMarker /\ imWiped' = imWiped
      /\ imNoMark' = imNoMark /\ imFaults' = imFaults
  BY DEF Boots, PathOpened
<1>3. /\ imDbs \in Seq(Dbs) /\ Len(imDbs) \in Nat /\ DOMAIN imDbs = 1..Len(imDbs) /\ imLive \in 0..Len(imDbs)
      /\ imDbs' \in Seq(Dbs)' /\ Len(imDbs') \in Nat /\ DOMAIN imDbs' = 1..Len(imDbs') /\ Len(imDbs) <= Len(imDbs')
      /\ OpenDb \in 1..Len(imDbs') /\ (imLive # 0 => OpenDb = imLive) /\ (imLive = 0 => OpenDb \notin DOMAIN imDbs)
      /\ \A n \in DOMAIN imDbs : n \in DOMAIN imDbs' /\ imDbs'[n] = imDbs[n]
      /\ \A n \in DOMAIN imDbs' : n \notin DOMAIN imDbs => n = OpenDb /\ imLive = 0 /\ imDbs'[n] = EmptyDb
  BY <1>2, DatabaseOpened
<1>4. \/ Refuses /\ imServer' = 0 /\ imCmd' = imCmd
      \/ ~Refuses /\ imServer' = OpenDb /\ imCmd' = Meet
  BY <1>1 DEF Boots
<1>5. \A d \in ImCmd : /\ imCmd'[d].pc = imCmd[d].pc /\ imCmd'[d].db = imCmd[d].db
                       /\ imCmd'[d].fresh = imCmd[d].fresh /\ imCmd'[d].force = imCmd[d].force
                       /\ imCmd[d].met => imCmd'[d].met
                       /\ imCmd'[d].met => Met(d)
  BY <1>1, <1>4 DEF Meet, Met
<1>6. \A d \in ImCmd : HasOpen(d)' = HasOpen(d) /\ (HasOpen(d) => Running(d) /\ imCmd[d].db \in DOMAIN imDbs)
  BY <1>5, OpenHere DEF HasOpen, Opener, Running
<1>7. (Forced => Forced') /\ (Overlap => Overlap') /\ (TookAway => TookAway')
  <2>1. Forced => Forced'
    BY <1>5 DEF Forced
  <2>2. Overlap => Overlap'
    BY <1>5 DEF Overlap
  <2>3. TookAway => TookAway'
    BY <1>5 DEF TookAway
  <2> QED BY <2>1, <2>2, <2>3
<1>8. Counted' /\ Wrote' /\ Told' /\ OnlyOne' /\ Missing' /\ Marked'
  BY <1>2, <1>5, <1>7, OpenedKeeps
<1>9. ImportTyped'
  <2>1. imCmd' \in [ImCmd -> Command(Len(imDbs'))]
    <3>1. \A d \in ImCmd : Met(d) \in BOOLEAN /\ imCmd[d].db \in 0..Len(imDbs')
      BY <1>1, <1>3 DEF Met
    <3>2. Meet \in [ImCmd -> Command(Len(imDbs'))]
      BY <1>1, <3>1 DEF Meet
    <3>3. imCmd \in [ImCmd -> Command(Len(imDbs'))]
      BY <1>1, <3>1
    <3> QED BY <1>4, <3>2, <3>3
  <2>2. imLive' \in 0..Len(imDbs') /\ imServer' \in 0..Len(imDbs')
    BY <1>2, <1>3, <1>4 DEF PathOpened
  <2> QED BY <1>2, <1>3, <2>1, <2>2 DEF ImportInv, ImportTyped
<1>10. Begun'
  <2>1. SUFFICES ASSUME NEW d \in ImCmd
                 PROVE  /\ imCmd'[d].pc = "off" => ~imCmd'[d].force /\ ~imCmd'[d].met
                        /\ imCmd'[d].pc = "asked" => imCmd'[d].db = 0 /\ ~imCmd'[d].met
                        /\ HasOpen(d)' => imCmd'[d].db # 0
    BY DEF Begun
  <2>2. /\ imCmd[d].pc = "off" => ~imCmd[d].force /\ ~imCmd[d].met
        /\ imCmd[d].pc = "asked" => imCmd[d].db = 0 /\ ~imCmd[d].met
        /\ HasOpen(d) => imCmd[d].db # 0
    BY DEF ImportInv, Begun
  <2>3. imCmd[d].pc \in {"off", "asked"} => ~Met(d)
    BY <1>3, <2>2 DEF Met, Running
  <2> QED BY <1>5, <1>6, <2>2, <2>3
<1>11. AtPath'
  <2>1. SUFFICES ASSUME ~TookAway' PROVE (\A d \in ImCmd : HasOpen(d)' => imCmd'[d].db = imLive') /\ (imServer' # 0 => imServer' = imLive')
    BY DEF AtPath
  <2>2. \A d \in ImCmd : HasOpen(d) => imCmd[d].db = imLive /\ imLive # 0
    BY <1>3, <1>6, <1>7, <2>1 DEF ImportInv, AtPath
  <2> QED BY <1>2, <1>3, <1>4, <1>5, <1>6, <2>2 DEF PathOpened
<1>12. Meets'
  <2>1. SUFFICES ASSUME NEW d \in ImCmd, HasOpen(d)'
                 PROVE  /\ imCmd'[d].db = imServer' => imCmd'[d].met
                        /\ \A e \in ImCmd : e # d /\ HasOpen(e)' /\ imCmd'[e].db = imCmd'[d].db => imCmd'[d].met
    BY DEF Meets
  <2>2. imCmd'[d].db = imServer' => imCmd'[d].met
    <3>1. CASE imServer' = 0
      BY <1>3, <1>5, <1>6, <2>1, <3>1
    <3>2. CASE imServer' = OpenDb /\ imCmd' = Meet
      <4>1. imCmd'[d].met = Met(d)
        BY <1>1, <3>2 DEF Meet
      <4> QED BY <1>5, <1>6, <2>1, <3>2, <4>1 DEF Met
    <3> QED BY <1>4, <3>1, <3>2
  <2> QED BY <1>5, <1>6, <2>1, <2>2 DEF ImportInv, Meets
<1>13. Untouched'
  BY <1>3, <1>5, <1>6 DEF ImportInv, Untouched
<1>14. Passed'
  <2>1. SUFFICES ASSUME ~Forced', ~Overlap', NEW d \in ImCmd, imCmd'[d].pc \in {"reading", "writing"}
                 PROVE  ~imMarker' /\ ~Fills(imDbs'[imCmd'[d].db])
    BY DEF Passed
  <2>2. ~imMarker /\ ~Fills(imDbs[imCmd[d].db])
    BY <1>5, <1>7, <2>1 DEF ImportInv, Passed
  <2>3. imCmd[d].db \in DOMAIN imDbs
    BY <1>5, <2>1, OpenHere DEF HasOpen, Opener
  <2> QED BY <1>2, <1>3, <1>5, <2>2, <2>3
<1>15. Served'
  <2>1. SUFFICES ASSUME imServer' # 0, HasJson', ~Fills(imDbs'[imServer'])
                 PROVE  \E n \in DOMAIN imDbs' : n # imLive' /\ Fills(imDbs'[n])
    BY DEF Served
  <2>2. ~Refuses /\ imServer' = OpenDb /\ imLive' = OpenDb /\ HasJson
    BY <1>2, <1>4, <2>1, SameFiles DEF PathOpened
  <2>3. imMarker
    <3>1. imLive \in DOMAIN imDbs => imDbs'[OpenDb] = imDbs[imLive]
      BY <1>3
    <3> QED BY <2>1, <2>2, <3>1 DEF Refuses, Opened, Imported, HasItems, Holding, Fills
  <2>4. PICK n \in DOMAIN imDbs : Brings(imDbs[n])
    BY <2>3 DEF ImportInv, Marked
  <2>5. Fills(imDbs'[n]) /\ n \in DOMAIN imDbs'
    <3>1. imDbs[n] \in Dbs
      BY <1>3
    <3> QED BY <1>3, <2>4, <3>1, Holdings
  <2> QED BY <2>1, <2>2, <2>5
<1> QED BY <1>8, <1>9, <1>10, <1>11, <1>12, <1>13, <1>14, <1>15 DEF ImportInv

LEMMA CommandStays ==
  ASSUME ImportInv, NEW c \in ImCmd, NEW q, MovesOn(c, q), imLive' = imLive, imMarker' = imMarker,
         q \in {"reading", "writing"} =>
           imCmd[c].pc \in {"reading", "writing"} \/ imCmd[c].force \/ (~imMarker /\ ~Fills(imDbs[imCmd[c].db]))
  PROVE  ImportInv'
<1>1. /\ imCmd'[c].pc = q /\ \A d \in ImCmd : d # c => imCmd'[d] = imCmd[d]
      /\ \A d \in ImCmd : /\ imCmd'[d].db = imCmd[d].db /\ imCmd'[d].fresh = imCmd[d].fresh
                          /\ imCmd'[d].met = imCmd[d].met /\ imCmd'[d].force = imCmd[d].force
      /\ Forced' = Forced /\ Overlap' = Overlap /\ (TookAway => TookAway')
      /\ ImportTyped' /\ Counted' /\ Begun' /\ Meets' /\ Untouched' /\ Wrote' /\ Told' /\ OnlyOne' /\ Served'
  BY MoveKeeps
<1>2. imDbs' = imDbs /\ imServer' = imServer /\ imWiped' = imWiped /\ (HasOpen(c)' => HasOpen(c))
  BY <1>1 DEF MovesOn, HasOpen
<1>3. AtPath'
  BY <1>1, <1>2 DEF ImportInv, AtPath, HasOpen
<1>4. Passed'
  <2>1. SUFFICES ASSUME ~Forced, ~Overlap, NEW d \in ImCmd, imCmd'[d].pc \in {"reading", "writing"}
                 PROVE  ~imMarker /\ ~Fills(imDbs[imCmd[d].db])
    BY <1>1, <1>2 DEF Passed
  <2>2. imCmd[d].pc \in {"reading", "writing"} => ~imMarker /\ ~Fills(imDbs[imCmd[d].db])
    BY <2>1 DEF ImportInv, Passed
  <2>3. ~imCmd[c].force
    BY <2>1 DEF Forced
  <2> QED BY <1>1, <2>1, <2>2, <2>3
<1>5. Missing' /\ Marked'
  BY <1>1, <1>2 DEF ImportInv, Missing, Marked
<1> QED BY <1>1, <1>3, <1>4, <1>5 DEF ImportInv

LEMMA HoldsSome == \A n : Fills(imDbs[n]) <=> Imported(n) \/ HasItems(n)
BY DEF Fills, Imported, HasItems, Holding

LEMMA FlagsTyped ==
  ASSUME ImportInv
  PROVE  /\ ImFaults \in Nat /\ imFaults \in 0..ImFaults /\ (imFaults < ImFaults => imFaults + 1 \in 0..ImFaults)
         /\ imMarker \in BOOLEAN /\ imNoMark \in BOOLEAN /\ imLive \in {0, imLive}
<1>1. ImFaults \in Nat
  BY ImAssumption
<1> QED BY <1>1 DEF ImportInv, ImportTyped

LEMMA CheckKeeps == ASSUME ImportInv, NEW c \in ImCmd, Check(c) PROVE ImportInv'
<1>1. PICK q : q = IF ~imCmd[c].force /\ AlreadyImported(imCmd[c].db) THEN "refused" ELSE "reading"
  OBVIOUS
<1>2. MovesOn(c, q) /\ imLive' = imLive /\ imMarker' = imMarker
  BY <1>1, FlagsTyped DEF Check, MovesOn, Running, Places, Opener, HasOpen
<1>3. q = "reading" /\ ~imCmd[c].force => ~imMarker /\ ~Fills(imDbs[imCmd[c].db])
  BY <1>1, HoldsSome DEF AlreadyImported
<1> QED BY <1>1, <1>2, <1>3, CommandStays

LEMMA ReadFilesKeeps == ASSUME ImportInv, NEW c \in ImCmd, ReadFiles(c) PROVE ImportInv'
<1>1. PICK q : q = IF imBad /\ ~imCmd[c].skip THEN "taking back" ELSE "writing"
  OBVIOUS
<1>2. MovesOn(c, q) /\ imLive' = imLive /\ imMarker' = imMarker /\ imCmd[c].pc = "reading"
  BY <1>1, FlagsTyped DEF ReadFiles, MovesOn, Running, Places, Opener, HasOpen
<1> QED BY <1>2, CommandStays

LEMMA WriteFailsKeeps == ASSUME ImportInv, NEW c \in ImCmd, WriteFails(c) PROVE ImportInv'
<1>1. imFaults' \in 0..ImFaults
  BY FlagsTyped DEF WriteFails
<1>2. MovesOn(c, "taking back") /\ imLive' = imLive /\ imMarker' = imMarker
  BY <1>1, FlagsTyped DEF WriteFails, MovesOn, Running, Places, Opener, HasOpen
<1> QED BY <1>2, CommandStays

LEMMA CommandDiesKeeps == ASSUME ImportInv, NEW c \in ImCmd, CommandDies(c) PROVE ImportInv'
<1>1. imFaults' \in 0..ImFaults
  BY FlagsTyped DEF CommandDies
<1>2. imNoMark' \in BOOLEAN /\ (imNoMark => imNoMark') /\ (imCmd[c].pc = "marking" => imNoMark')
  BY FlagsTyped DEF CommandDies
<1>3. MovesOn(c, "dead") /\ imLive' = imLive /\ imMarker' = imMarker
  BY <1>1, <1>2, FlagsTyped DEF CommandDies, MovesOn, Places, Opener
<1> QED BY <1>3, CommandStays

(* Commands that have the database at the path open have met.              *)
LEMMA Alone ==
  ASSUME ImportInv, ~Overlap, NEW c \in ImCmd, NEW d \in ImCmd, HasOpen(c), HasOpen(d)
  PROVE  c = d /\ imCmd[c].db = imLive /\ imServer = 0
<1>1. ~TookAway /\ ~imCmd[c].met
  BY DEF Overlap, TookAway
<1>2. imCmd[c].db = imLive /\ imCmd[d].db = imLive /\ (imServer # 0 => imServer = imLive)
  BY <1>1 DEF ImportInv, AtPath
<1> QED BY <1>1, <1>2 DEF ImportInv, Meets

LEMMA MarkKeeps == ASSUME ImportInv, NEW c \in ImCmd, Mark(c) PROVE ImportInv'
<1>1. /\ imFaults' \in 0..ImFaults /\ imMarker' \in BOOLEAN /\ imNoMark' \in BOOLEAN
      /\ (imMarker => imMarker') /\ (imNoMark => imNoMark') /\ (imMarker' \/ imNoMark')
  <2>1. CASE imMarker' = TRUE /\ imFaults' = imFaults /\ imNoMark' = imNoMark
    BY <2>1, FlagsTyped
  <2>2. CASE imFaults < ImFaults /\ imFaults' = imFaults + 1 /\ imNoMark' = TRUE /\ imMarker' = imMarker
    BY <2>2, FlagsTyped
  <2> QED BY <2>1, <2>2 DEF Mark
<1>2. MovesOn(c, "done") /\ imLive' = imLive /\ imCmd[c].pc = "marking"
  BY <1>1, FlagsTyped DEF Mark, MovesOn, Running, Places, Opener
<1>3. /\ imCmd'[c].pc = "done" /\ \A d \in ImCmd : d # c => imCmd'[d] = imCmd[d]
      /\ Forced' = Forced /\ Overlap' = Overlap /\ (TookAway => TookAway')
      /\ ImportTyped' /\ Counted' /\ Begun' /\ Meets' /\ Untouched' /\ Wrote' /\ Told' /\ OnlyOne' /\ Served'
  BY <1>2, MoveKeeps
<1>4. imDbs' = imDbs /\ imServer' = imServer /\ imWiped' = imWiped
  BY <1>2 DEF MovesOn
<1>5. AtPath'
  BY <1>2, <1>3, <1>4 DEF ImportInv, AtPath, HasOpen, Opener
<1>6. Passed'
  <2>1. SUFFICES ASSUME ~Overlap, NEW d \in ImCmd, imCmd'[d].pc \in {"reading", "writing"} PROVE FALSE
    BY <1>3 DEF Passed
  <2>2. d # c /\ HasOpen(c) /\ HasOpen(d)
    BY <1>2, <1>3, <2>1 DEF HasOpen, Opener
  <2> QED BY <2>1, <2>2, Alone
<1>7. Missing'
  BY <1>2, <1>3, <1>4 DEF ImportInv, Missing
<1>8. Marked'
  BY <1>2, <1>4, OpenHere DEF ImportInv, Wrote, Marked, HasOpen, Opener
<1> QED BY <1>3, <1>5, <1>6, <1>7, <1>8 DEF ImportInv


LEMMA TakeBackKeeps == ASSUME ImportInv, NEW c \in ImCmd, TakeBack(c) PROVE ImportInv'
<1>1. imLive' = (IF imCmd[c].fresh THEN 0 ELSE imLive) /\ imCmd[c].pc = "taking back" /\ imMarker' = imMarker
  BY DEF TakeBack, Deletes
<1>2. MovesOn(c, "failed")
  <2>1. imLive' \in {0, imLive}
    BY <1>1
  <2>2. /\ imCmd' = [imCmd EXCEPT ![c].pc = "failed"] /\ imDbs' = imDbs /\ imServer' = imServer /\ imLegacy' = imLegacy
        /\ imBad' = imBad /\ imWiped' = imWiped /\ imMarker' = imMarker /\ imNoMark' = imNoMark /\ imFaults' = imFaults
    BY DEF TakeBack
  <2>3. Running(c) /\ "failed" \in Places \ {"off", "asked"} /\ "failed" \notin Opener
    BY <1>1 DEF Running, Places, Opener
  <2>4. imCmd[c].pc = "taking back" /\ imFaults \in 0..ImFaults /\ imMarker \in BOOLEAN /\ imNoMark \in BOOLEAN
    BY <1>1, FlagsTyped
  <2> QED BY <2>1, <2>2, <2>3, <2>4 DEF MovesOn
<1>3. /\ imCmd'[c].pc = "failed" /\ \A d \in ImCmd : d # c => imCmd'[d] = imCmd[d]
      /\ imCmd'[c].fresh = imCmd[c].fresh /\ imCmd'[c].met = imCmd[c].met
      /\ Forced' = Forced /\ Overlap' = Overlap /\ (TookAway => TookAway')
      /\ ImportTyped' /\ Counted' /\ Begun' /\ Meets' /\ Untouched' /\ Wrote' /\ Told' /\ OnlyOne' /\ Served'
  BY <1>2, MoveKeeps
<1>4. imDbs' = imDbs /\ imServer' = imServer /\ imWiped' = imWiped
  BY <1>2 DEF MovesOn
<1>5. HasOpen(c)
  BY <1>1 DEF HasOpen, Opener
<1>6. ~TookAway' /\ imCmd[c].fresh => ~imCmd[c].met
  BY <1>3 DEF TookAway
<1>7. AtPath'
  <2>1. SUFFICES ASSUME ~TookAway' PROVE (\A d \in ImCmd : HasOpen(d)' => imCmd'[d].db = imLive') /\ (imServer' # 0 => imServer' = imLive')
    BY DEF AtPath
  <2>2. (\A d \in ImCmd : HasOpen(d) => imCmd[d].db = imLive) /\ (imServer # 0 => imServer = imLive)
    BY <1>3, <2>1 DEF ImportInv, AtPath
  <2>3. \A d \in ImCmd : HasOpen(d)' => d # c /\ HasOpen(d) /\ imCmd'[d] = imCmd[d]
    BY <1>3 DEF HasOpen, Opener
  <2>4. CASE ~imCmd[c].fresh
    BY <1>1, <1>4, <2>2, <2>3, <2>4
  <2>5. CASE imCmd[c].fresh
    <3>1. ~imCmd[c].met /\ imLive # 0
      BY <1>5, <1>6, <2>1, <2>2, <2>5 DEF ImportInv, Begun
    <3>2. imServer = 0 /\ \A d \in ImCmd : d # c => ~HasOpen(d)
      BY <1>5, <2>2, <3>1 DEF ImportInv, Meets
    <3> QED BY <1>4, <2>3, <3>2
  <2> QED BY <2>4, <2>5
<1>8. Passed'
  BY <1>1, <1>3, <1>4 DEF ImportInv, Passed
<1>9. Missing'
  <2>1. SUFFICES ASSUME NEW n \in DOMAIN imDbs, n # imLive', Fills(imDbs[n]), ~TookAway' PROVE imWiped
    BY <1>4 DEF Missing
  <2>2. ~TookAway
    BY <1>3, <2>1
  <2>3. CASE n # imLive
    BY <2>1, <2>2, <2>3 DEF ImportInv, Missing
  <2>4. CASE n = imLive
    <3>1. imCmd[c].fresh /\ ~imCmd[c].met
      BY <1>1, <1>6, <2>1, <2>4
    <3>2. imCmd[c].db = n
      BY <1>5, <2>2, <2>4 DEF ImportInv, AtPath
    <3> QED BY <1>1, <1>5, <2>1, <3>1, <3>2 DEF ImportInv, Untouched
  <2> QED BY <2>3, <2>4
<1>10. Marked'
  BY <1>1, <1>4 DEF ImportInv, Marked
<1> QED BY <1>3, <1>7, <1>8, <1>9, <1>10 DEF ImportInv

LEMMA CommitKeeps == ASSUME ImportInv, NEW c \in ImCmd, Commit(c) PROVE ImportInv'
<1>0. PICK to : to = imCmd[c].db
  OBVIOUS
<1>1. /\ imCmd \in [ImCmd -> Command(Len(imDbs))]
      /\ imDbs \in Seq(Dbs) /\ imLive \in 0..Len(imDbs) /\ Len(imDbs) \in Nat /\ DOMAIN imDbs = 1..Len(imDbs)
  BY DEF ImportInv, ImportTyped
<1>2. /\ imLive' = imLive /\ imServer' = imServer /\ imMarker' = imMarker /\ imFaults' = imFaults
      /\ imWiped' = imWiped /\ imNoMark' = imNoMark /\ imLegacy' = imLegacy /\ imBad' = imBad
      /\ imCmd[c].pc = "writing"
  BY DEF Commit
<1>3. Batch' = Batch /\ Dbs' = Dbs /\ HasJson' = HasJson /\ Seq(Dbs)' = Seq(Dbs)
  BY <1>2, SameFiles
<1>4. HasOpen(c) /\ to \in DOMAIN imDbs
  BY <1>0, <1>2, OpenHere DEF HasOpen, Opener
<1>5. /\ imCmd'[c].pc = "marking" /\ \A d \in ImCmd : d # c => imCmd'[d] = imCmd[d]
      /\ \A d \in ImCmd : /\ imCmd'[d].db = imCmd[d].db /\ imCmd'[d].fresh = imCmd[d].fresh
                          /\ imCmd'[d].met = imCmd[d].met /\ imCmd'[d].force = imCmd[d].force
  BY <1>1 DEF Commit
<1>6. Forced' = Forced /\ Overlap' = Overlap /\ (TookAway => TookAway')
  BY <1>2, <1>5 DEF Forced, Overlap, TookAway
<1> DEFINE more == [imDbs[to] EXCEPT !.batches = Append(@, Batch)]
<1>7. imDbs[to] \in Dbs /\ imDbs[to].batches \in Seq({Batch})
  BY <1>1, <1>4, Holdings
<1>8. more \in Dbs /\ Len(more.batches) = Len(imDbs[to].batches) + 1
  <2>1. Append(imDbs[to].batches, Batch) \in Seq({Batch}) /\ Len(Append(imDbs[to].batches, Batch)) = Len(imDbs[to].batches) + 1
    BY <1>7
  <2>2. more.batches = Append(imDbs[to].batches, Batch)
    BY <1>7 DEF Dbs
  <2>3. more \in Dbs
    BY <1>7, <2>1 DEF Dbs
  <2> QED BY <2>1, <2>2, <2>3
<1>9. imDbs' = [imDbs EXCEPT ![to] = more]
  BY <1>0 DEF Commit
<1> HIDE DEF more
<1>10. /\ imDbs' \in Seq(Dbs) /\ Len(imDbs') = Len(imDbs) /\ DOMAIN imDbs' = DOMAIN imDbs
       /\ imDbs'[to] = more /\ \A n \in DOMAIN imDbs : n # to => imDbs'[n] = imDbs[n]
  BY <1>1, <1>4, <1>8, <1>9
<1>11. Brings(more) /\ Fills(more)
  BY <1>7, <1>8, Holdings
<1>12. \A n \in DOMAIN imDbs : (Fills(imDbs[n]) => Fills(imDbs'[n])) /\ (Brings(imDbs[n]) => Brings(imDbs'[n]))
  BY <1>10, <1>11
<1>13. ImportTyped'
  <2>1. imCmd' \in [ImCmd -> Command(Len(imDbs'))]
    <3>1. imCmd' = [imCmd EXCEPT ![c].pc = "marking"] /\ "marking" \in Places
      BY DEF Commit, Places, Opener
    <3> QED BY <1>1, <1>10, <3>1
  <2> QED BY <1>2, <1>3, <1>10, <2>1 DEF ImportInv, ImportTyped
<1>14. Counted'
  <2>1. \A n : n # to => Committed(n)' = Committed(n)
    BY <1>0, <1>2, <1>5 DEF Committed
  <2>2. Committed(to)' = Committed(to) \cup {c} /\ c \notin Committed(to)
    BY <1>0, <1>2, <1>5 DEF Committed
  <2>3. Cardinality(Committed(to)') = Cardinality(Committed(to)) + 1
    BY <2>2, CommandsFinite, FS_AddElement
  <2>4. SUFFICES ASSUME NEW n \in DOMAIN imDbs PROVE Len(imDbs'[n].batches) <= Cardinality(Committed(n)')
    BY <1>10 DEF Counted
  <2>5. Len(imDbs[n].batches) <= Cardinality(Committed(n))
    BY DEF ImportInv, Counted
  <2>6. CASE n = to
    <3>1. Len(imDbs[to].batches) \in Nat /\ Cardinality(Committed(to)) \in Nat
      BY <1>7, CommandsFinite
    <3> QED BY <1>8, <1>10, <2>3, <2>5, <2>6, <3>1
  <2>7. CASE n # to
    BY <1>10, <2>1, <2>5, <2>7
  <2> QED BY <2>6, <2>7
<1>15. \A d \in ImCmd : HasOpen(d)' = HasOpen(d)
  <2>1. HasOpen(c) /\ HasOpen(c)'
    BY <1>2, <1>5 DEF HasOpen, Opener
  <2>2. \A d \in ImCmd : d # c => HasOpen(d)' = HasOpen(d)
    BY <1>5 DEF HasOpen
  <2> QED BY <2>1, <2>2 DEF HasOpen
<1>16. Begun' /\ AtPath' /\ Meets'
  <2>1. Begun'
    BY <1>4, <1>5, <1>15 DEF ImportInv, Begun
  <2>2. AtPath'
    BY <1>2, <1>5, <1>6, <1>15 DEF ImportInv, AtPath
  <2>3. Meets'
    BY <1>2, <1>5, <1>15 DEF ImportInv, Meets
  <2> QED BY <2>1, <2>2, <2>3
<1>17. Untouched'
  <2>1. SUFFICES ASSUME NEW d \in ImCmd, HasOpen(d)', imCmd'[d].pc # "marking", imCmd'[d].fresh, ~imCmd'[d].met
                 PROVE  ~Fills(imDbs'[imCmd'[d].db])
    BY DEF Untouched
  <2>2. d # c /\ HasOpen(d) /\ imCmd[d].db \in DOMAIN imDbs /\ imCmd[d].db # to
    BY <1>0, <1>4, <1>5, <1>15, <2>1, OpenHere DEF ImportInv, Meets
  <2> QED BY <1>5, <1>10, <2>1, <2>2 DEF ImportInv, Untouched
<1>18. Wrote'
  <2>1. SUFFICES ASSUME NEW d \in ImCmd, imCmd'[d].pc = "marking" PROVE Brings(imDbs'[imCmd'[d].db])
    BY DEF Wrote
  <2>2. CASE d = c
    BY <1>0, <1>5, <1>10, <1>11, <2>2
  <2>3. CASE d # c
    <3>1. imCmd[d].pc = "marking" /\ imCmd[d].db \in DOMAIN imDbs
      BY <1>5, <2>1, <2>3, OpenHere DEF HasOpen, Opener
    <3> QED BY <1>5, <1>12, <3>1 DEF ImportInv, Wrote
  <2> QED BY <2>2, <2>3
<1>19. Passed'
  <2>1. SUFFICES ASSUME ~Overlap, NEW d \in ImCmd, imCmd'[d].pc \in {"reading", "writing"} PROVE FALSE
    BY <1>6 DEF Passed
  <2>2. d # c /\ HasOpen(d)
    BY <1>5, <1>15, <2>1 DEF HasOpen, Opener
  <2> QED BY <1>4, <2>1, <2>2, Alone
<1>20. Told'
  BY <1>5 DEF Told
<1>21. OnlyOne'
  <2>1. SUFFICES ASSUME ~Forced, ~Overlap, ~(imWiped /\ imNoMark), NEW n \in DOMAIN imDbs, Brings(imDbs'[n])
                 PROVE  n = to /\ Len(imDbs'[n].batches) = 1
    BY <1>2, <1>6, <1>10 DEF OnlyOne
  <2>2. ~imMarker /\ ~Fills(imDbs[to]) /\ to = imLive /\ ~TookAway
    BY <1>0, <1>2, <1>4, <2>1, Alone DEF ImportInv, Passed, Overlap, TookAway
  <2>3. \A m \in DOMAIN imDbs : ~Brings(imDbs[m])
    <3>1. SUFFICES ASSUME NEW m \in DOMAIN imDbs, Brings(imDbs[m]) PROVE FALSE
      OBVIOUS
    <3>2. imDbs[m] \in Dbs
      BY <1>1
    <3>3. Fills(imDbs[m]) /\ m # imLive
      BY <2>2, <3>1, <3>2, Holdings
    <3>4. imWiped
      BY <2>2, <3>3 DEF ImportInv, Missing
    <3>5. PICK d \in ImCmd : imCmd[d].pc = "marking"
      BY <2>1, <2>2, <3>1, <3>4 DEF ImportInv, Told
    <3>6. HasOpen(d) /\ d # c
      BY <1>2, <3>5 DEF HasOpen, Opener
    <3> QED BY <1>4, <2>1, <3>6, Alone
  <2>4. n = to
    BY <1>10, <2>1, <2>3
  <2>5. Len(imDbs[to].batches) = 0
    <3>1. ~Brings(imDbs[to]) /\ Len(imDbs[to].batches) \in Nat
      BY <1>4, <1>7, <2>3
    <3> QED BY <1>7, <3>1, Holdings
  <2> QED BY <1>8, <1>10, <2>4, <2>5
<1>22. Missing'
  <2>1. SUFFICES ASSUME NEW n \in DOMAIN imDbs, n # imLive, Fills(imDbs'[n]), ~TookAway PROVE imWiped
    BY <1>2, <1>6, <1>10 DEF Missing
  <2>2. n # to
    BY <1>0, <1>4, <2>1 DEF ImportInv, AtPath
  <2> QED BY <1>10, <2>1, <2>2 DEF ImportInv, Missing
<1>23. Marked'
  BY <1>2, <1>10, <1>12 DEF ImportInv, Marked
<1>24. Served'
  <2>1. SUFFICES ASSUME imServer # 0, HasJson, ~Fills(imDbs'[imServer])
                 PROVE  \E n \in DOMAIN imDbs : n # imLive /\ Fills(imDbs'[n])
    BY <1>2, <1>3, <1>10 DEF Served
  <2>2. imServer \in DOMAIN imDbs
    BY <1>1, <2>1 DEF ImportInv, ImportTyped
  <2> QED BY <1>12, <2>1, <2>2 DEF ImportInv, Served
<1> QED BY <1>13, <1>14, <1>16, <1>17, <1>18, <1>19, <1>20, <1>21, <1>22, <1>23, <1>24 DEF ImportInv

LEMMA AddsKeeps == ASSUME ImportInv, Adds PROVE ImportInv'
<1> DEFINE more == [imDbs[imServer] EXCEPT !.adds = 1]
<1>1. /\ imDbs \in Seq(Dbs) /\ imLive \in 0..Len(imDbs) /\ Len(imDbs) \in Nat /\ DOMAIN imDbs = 1..Len(imDbs)
      /\ imServer \in DOMAIN imDbs /\ imServer # 0
  BY DEF Adds, ImportInv, ImportTyped
<1>2. /\ imLive' = imLive /\ imServer' = imServer /\ imMarker' = imMarker /\ imFaults' = imFaults /\ imCmd' = imCmd
      /\ imWiped' = imWiped /\ imNoMark' = imNoMark /\ imLegacy' = imLegacy /\ imBad' = imBad
  BY DEF Adds
<1>3. Batch' = Batch /\ Dbs' = Dbs /\ HasJson' = HasJson /\ Seq(Dbs)' = Seq(Dbs)
  BY <1>2, SameFiles
<1>4. more \in Dbs /\ more.batches = imDbs[imServer].batches /\ more.adds = 1
  <2>1. imDbs[imServer] \in Dbs
    BY <1>1
  <2> QED BY <2>1 DEF Dbs
<1>5. imDbs' = [imDbs EXCEPT ![imServer] = more]
  BY DEF Adds
<1>6. Fills(more) /\ Brings(more) = Brings(imDbs[imServer])
  BY <1>4 DEF Fills, Brings
<1> HIDE DEF more
<1>7. /\ imDbs' \in Seq(Dbs) /\ Len(imDbs') = Len(imDbs) /\ DOMAIN imDbs' = DOMAIN imDbs
      /\ imDbs'[imServer] = more /\ \A n \in DOMAIN imDbs : n # imServer => imDbs'[n] = imDbs[n]
  BY <1>1, <1>4, <1>5
<1>8. \A n \in DOMAIN imDbs : /\ Fills(imDbs[n]) => Fills(imDbs'[n])
                              /\ Brings(imDbs'[n]) <=> Brings(imDbs[n])
                              /\ imDbs'[n].batches = imDbs[n].batches
  BY <1>4, <1>6, <1>7
<1>9. ImportTyped'
  <2>1. ImportTyped
    BY DEF ImportInv
  <2> QED BY <1>2, <1>3, <1>7, <2>1 DEF ImportTyped
<1>10. Counted'
  <2>1. \A n : Committed(n)' = Committed(n)
    BY <1>2 DEF Committed
  <2>2. SUFFICES ASSUME NEW n \in DOMAIN imDbs PROVE Len(imDbs'[n].batches) <= Cardinality(Committed(n)')
    BY <1>7 DEF Counted
  <2>3. Len(imDbs[n].batches) <= Cardinality(Committed(n))
    BY DEF ImportInv, Counted
  <2> QED BY <1>8, <2>1, <2>3
<1>11. Begun' /\ AtPath' /\ Meets'
  BY <1>2 DEF ImportInv, Begun, AtPath, Meets, HasOpen, TookAway
<1>12. Untouched'
  <2>1. SUFFICES ASSUME NEW d \in ImCmd, HasOpen(d), imCmd[d].pc # "marking", imCmd[d].fresh, ~imCmd[d].met
                 PROVE  ~Fills(imDbs'[imCmd[d].db])
    BY <1>2 DEF Untouched, HasOpen
  <2>2. imCmd[d].db \in DOMAIN imDbs /\ imCmd[d].db # imServer
    BY <2>1, OpenHere DEF ImportInv, Meets
  <2> QED BY <1>7, <2>1, <2>2 DEF ImportInv, Untouched
<1>13. Wrote'
  <2>1. SUFFICES ASSUME NEW d \in ImCmd, imCmd[d].pc = "marking" PROVE Brings(imDbs'[imCmd[d].db])
    BY <1>2 DEF Wrote
  <2>2. imCmd[d].db \in DOMAIN imDbs
    BY <2>1, OpenHere DEF HasOpen, Opener
  <2>3. Brings(imDbs[imCmd[d].db])
    BY <2>1 DEF ImportInv, Wrote
  <2> QED BY <1>8, <2>2, <2>3
<1>14. Passed'
  <2>1. SUFFICES ASSUME ~Overlap, NEW d \in ImCmd, imCmd[d].pc \in {"reading", "writing"} PROVE FALSE
    BY <1>2 DEF Passed, Overlap
  <2>2. HasOpen(d)
    BY <2>1 DEF HasOpen, Opener
  <2> QED BY <1>1, <2>1, <2>2, Alone
<1>15. Told' /\ OnlyOne' /\ Marked'
  <2>1. (\E n \in DOMAIN imDbs : Brings(imDbs[n])) <=> (\E n \in DOMAIN imDbs' : Brings(imDbs'[n]))
    BY <1>7, <1>8
  <2>2. Told' /\ Marked'
    BY <1>2, <2>1 DEF ImportInv, Told, Marked
  <2>3. Forced' = Forced /\ Overlap' = Overlap
    BY <1>2 DEF Forced, Overlap
  <2>4. OnlyOne'
    <3>1. SUFFICES ASSUME ~Forced, ~Overlap, ~(imWiped /\ imNoMark), NEW n \in DOMAIN imDbs, NEW m \in DOMAIN imDbs,
                          Brings(imDbs'[n]), Brings(imDbs'[m])
                   PROVE  n = m /\ Len(imDbs'[n].batches) = 1
      BY <1>2, <1>7, <2>3 DEF OnlyOne
    <3>2. Brings(imDbs[n]) /\ Brings(imDbs[m])
      BY <1>8, <3>1
    <3>3. n = m /\ Len(imDbs[n].batches) = 1
      BY <3>1, <3>2 DEF ImportInv, OnlyOne
    <3> QED BY <1>8, <3>3
  <2> QED BY <2>2, <2>4
<1>16. Missing'
  <2>1. SUFFICES ASSUME NEW n \in DOMAIN imDbs, n # imLive, Fills(imDbs'[n]), ~TookAway PROVE imWiped
    BY <1>2, <1>7 DEF Missing, TookAway
  <2>2. n # imServer
    BY <1>1, <2>1 DEF ImportInv, AtPath
  <2> QED BY <1>7, <2>1, <2>2 DEF ImportInv, Missing
<1>17. Served'
  BY <1>2, <1>6, <1>7 DEF Served
<1> QED BY <1>9, <1>10, <1>11, <1>12, <1>13, <1>14, <1>15, <1>16, <1>17 DEF ImportInv

LEMMA StopsKeeps == ASSUME ImportInv, Stops PROVE ImportInv'
<1>1. /\ imDbs' = imDbs /\ imLive' = imLive /\ imServer' = 0 /\ imMarker' = imMarker /\ imFaults' = imFaults
      /\ imCmd' = imCmd /\ imWiped' = imWiped /\ imNoMark' = imNoMark /\ imLegacy' = imLegacy /\ imBad' = imBad
  BY DEF Stops
<1>2. Dbs' = Dbs /\ Seq(Dbs)' = Seq(Dbs) /\ HasJson' = HasJson /\ \A n : Committed(n)' = Committed(n)
  BY <1>1, SameFiles DEF Committed
<1>3. ImportTyped /\ 0 \in 0..Len(imDbs)
  BY DEF ImportInv, ImportTyped
<1>4. ImportTyped'
  BY <1>1, <1>2, <1>3 DEF ImportTyped
<1>5. Counted' /\ Begun' /\ Untouched' /\ Wrote' /\ Passed'
  BY <1>1, <1>2 DEF ImportInv, Counted, Begun, Untouched, Wrote, Passed, HasOpen, Forced, Overlap
<1>6. AtPath' /\ Meets'
  BY <1>1 DEF ImportInv, AtPath, Meets, Begun, HasOpen, TookAway
<1>7. Told' /\ OnlyOne' /\ Missing' /\ Marked' /\ Served'
  BY <1>1 DEF ImportInv, Told, OnlyOne, Missing, Marked, Served, TookAway, Forced, Overlap
<1> QED BY <1>4, <1>5, <1>6, <1>7 DEF ImportInv

LEMMA WipeKeeps == ASSUME ImportInv, Wipe PROVE ImportInv'
<1>1. /\ imDbs' = imDbs /\ imLive' = 0 /\ imServer' = imServer /\ imServer = 0 /\ imMarker' = imMarker
      /\ imFaults' = imFaults /\ imCmd' = imCmd /\ imWiped' = TRUE /\ imNoMark' = imNoMark /\ imLegacy' = imLegacy
      /\ imBad' = imBad
  BY DEF Wipe
<1>2. Dbs' = Dbs /\ Seq(Dbs)' = Seq(Dbs) /\ HasJson' = HasJson /\ \A n : Committed(n)' = Committed(n)
  BY <1>1, SameFiles DEF Committed
<1>3. ImportTyped /\ 0 \in 0..Len(imDbs)
  BY DEF ImportInv, ImportTyped
<1>4. ImportTyped'
  BY <1>1, <1>2, <1>3 DEF ImportTyped
<1>5. Counted' /\ Begun' /\ Untouched' /\ Wrote' /\ Passed' /\ Meets'
  BY <1>1, <1>2 DEF ImportInv, Counted, Begun, Untouched, Wrote, Passed, Meets, HasOpen, Forced, Overlap
<1>6. AtPath'
  BY <1>1 DEF Wipe, AtPath, HasOpen, Opener, Running
<1>7. Told' /\ OnlyOne' /\ Missing' /\ Marked' /\ Served'
  BY <1>1 DEF ImportInv, Told, OnlyOne, Missing, Marked, Served, Forced, Overlap
<1> QED BY <1>4, <1>5, <1>6, <1>7 DEF ImportInv

LEMMA ImportSteps == ImportInv /\ [ImportNext]_imVars => ImportInv'
<1> SUFFICES ASSUME ImportInv, [ImportNext]_imVars PROVE ImportInv'
  OBVIOUS
<1>1. CASE UNCHANGED imVars
  <2>1. /\ imDbs' = imDbs /\ imLive' = imLive /\ imServer' = imServer /\ imMarker' = imMarker /\ imFaults' = imFaults
        /\ imCmd' = imCmd /\ imWiped' = imWiped /\ imNoMark' = imNoMark /\ imLegacy' = imLegacy /\ imBad' = imBad
    BY <1>1 DEF imVars
  <2>2. Dbs' = Dbs /\ Seq(Dbs)' = Seq(Dbs) /\ HasJson' = HasJson /\ \A n : Committed(n)' = Committed(n)
    BY <2>1, SameFiles DEF Committed
  <2>3. ImportTyped' /\ Counted' /\ Begun' /\ AtPath' /\ Meets' /\ Untouched'
    BY <2>1, <2>2 DEF ImportInv, ImportTyped, Counted, Begun, AtPath, Meets, Untouched, HasOpen,
        TookAway
  <2>4. Wrote' /\ Passed' /\ Told' /\ OnlyOne' /\ Missing' /\ Marked' /\ Served'
    BY <2>1, <2>2 DEF ImportInv, Wrote, Passed, Told, OnlyOne, Missing, Marked, Served, TookAway,
        Forced, Overlap
  <2> QED BY <2>3, <2>4 DEF ImportInv
<1>2. ASSUME NEW c \in ImCmd, NEW force \in BOOLEAN, NEW skip \in BOOLEAN, Begin(c, force, skip) PROVE ImportInv'
  BY <1>2, BeginKeeps
<1>3. ASSUME NEW c \in ImCmd, OpenStore(c) \/ Check(c) \/ ReadFiles(c) \/ Commit(c) PROVE ImportInv'
  BY <1>3, OpenStoreKeeps, CheckKeeps, ReadFilesKeeps, CommitKeeps
<1>4. ASSUME NEW c \in ImCmd, WriteFails(c) \/ Mark(c) \/ TakeBack(c) \/ CommandDies(c) PROVE ImportInv'
  BY <1>4, WriteFailsKeeps, MarkKeeps, TakeBackKeeps, CommandDiesKeeps
<1>5. CASE Boots \/ Adds \/ Stops \/ Wipe
  BY <1>5, BootsKeeps, AddsKeeps, StopsKeeps, WipeKeeps
<1> QED BY <1>1, <1>2, <1>3, <1>4, <1>5 DEF ImportNext

(* What the invariant says of the imports.                                 *)
LEMMA InvMeansHolds ==
  ASSUME ImportInv, IsRight(Batch)
  PROVE  ImportHolds
<1>1. ImportTyped /\ imDbs \in Seq(Dbs) /\ DOMAIN imDbs = 1..Len(imDbs) /\ Len(imDbs) \in Nat
  BY DEF ImportInv, ImportTyped
<1>2. ImportTypeOK
  <2>1. {imLegacy[i].kind : i \in DOMAIN imLegacy} \subseteq LegacyKind
    <3>1. imLegacy \in ImLegacies
      BY <1>1 DEF ImportTyped
    <3>2. \A i \in DOMAIN imLegacy : imLegacy[i].kind \in LegacyKind
      BY <3>1, ImAssumption
    <3> QED BY <3>2
  <2>2. ASSUME NEW n \in DOMAIN imDbs PROVE imDbs[n].adds \in 0..1 /\ Len(imDbs[n].batches) <= Cardinality(ImCmd)
    <3>1. imDbs[n] \in Dbs
      BY <1>1
    <3>2. Cardinality(Committed(n)) <= Cardinality(ImCmd) /\ Cardinality(ImCmd) \in Nat /\ Cardinality(Committed(n)) \in Nat
      BY CommandsFinite, ImAssumption, FS_Subset, FS_CardinalityType
    <3>3. Len(imDbs[n].batches) <= Cardinality(Committed(n)) /\ Len(imDbs[n].batches) \in Nat
      BY <3>1, Holdings DEF ImportInv, Counted
    <3>4. imDbs[n].adds \in 0..1
      BY <3>1 DEF Dbs
    <3> QED BY <3>2, <3>3, <3>4
  <2>3. ASSUME NEW c \in ImCmd
        PROVE  /\ imCmd[c].pc \in {"off", "asked", "opened", "reading", "writing", "marking", "taking back",
                                   "refused", "failed", "done", "dead"}
               /\ imCmd[c].db \in 0..Len(imDbs)
               /\ {imCmd[c].fresh, imCmd[c].force, imCmd[c].skip, imCmd[c].met} \subseteq BOOLEAN
    BY <1>1 DEF ImportTyped, Places, Opener
  <2> QED BY <1>1, <2>1, <2>2, <2>3 DEF ImportTypeOK, ImportTyped
<1>3. \A n \in DOMAIN imDbs : \A k \in DOMAIN imDbs[n].batches : IsRight(imDbs[n].batches[k])
  <2>1. SUFFICES ASSUME NEW n \in DOMAIN imDbs, NEW k \in DOMAIN imDbs[n].batches PROVE imDbs[n].batches[k] = Batch
    OBVIOUS
  <2>2. imDbs[n].batches \in Seq({Batch})
    BY <1>1, Holdings
  <2> QED BY <2>2
<1>4. ASSUME NEW n \in DOMAIN imDbs
      PROVE  /\ imDbs[n].batches \in Seq({Batch}) /\ Len(imDbs[n].batches) \in Nat /\ DOMAIN imDbs[n].batches = 1..Len(imDbs[n].batches)
             /\ Len(imDbs[n].batches) <= Cardinality(ImCmd) /\ (Brings(imDbs[n]) <=> Len(imDbs[n].batches) > 0)
  <2>1. imDbs[n] \in Dbs
    BY <1>1
  <2>2. imDbs[n].batches \in Seq({Batch}) /\ (Brings(imDbs[n]) <=> Len(imDbs[n].batches) > 0)
    BY <2>1, Holdings
  <2>3. Len(imDbs[n].batches) \in Nat /\ DOMAIN imDbs[n].batches = 1..Len(imDbs[n].batches)
    BY <2>2
  <2>4. Len(imDbs[n].batches) <= Cardinality(ImCmd)
    BY <1>2 DEF ImportTypeOK
  <2> QED BY <2>2, <2>3, <2>4
<1>5. Cardinality(ImCmd) \in Nat
  BY ImAssumption, FS_CardinalityType
<1>6. \A x \in Imports : x[1] \in DOMAIN imDbs /\ x[2] \in 1..Len(imDbs[x[1]].batches) /\ x = <<x[1], x[2]>> /\ Brings(imDbs[x[1]])
  BY <1>4 DEF Imports
<1>7. Cardinality(Imports) > 1 => Forced \/ Overlap \/ (imWiped /\ imNoMark)
  <2>1. SUFFICES ASSUME ~Forced, ~Overlap, ~(imWiped /\ imNoMark) PROVE ~(Cardinality(Imports) > 1)
    OBVIOUS
  <2>2. ASSUME NEW x \in Imports, NEW y \in Imports PROVE x = y
    <3>0. x[1] \in DOMAIN imDbs /\ y[1] \in DOMAIN imDbs /\ Brings(imDbs[x[1]]) /\ Brings(imDbs[y[1]])
      BY <1>6
    <3>1. x[1] = y[1] /\ Len(imDbs[x[1]].batches) = 1
      <4>1. PICK n \in DOMAIN imDbs, m \in DOMAIN imDbs : n = x[1] /\ m = y[1] /\ Brings(imDbs[n]) /\ Brings(imDbs[m])
        BY <3>0
      <4>2. n = m /\ Len(imDbs[n].batches) = 1
        BY <2>1, <4>1 DEF ImportInv, OnlyOne
      <4> QED BY <4>1, <4>2
    <3>2. x[2] = 1 /\ y[2] = 1
      <4>1. x[2] \in 1..Len(imDbs[x[1]].batches) /\ y[2] \in 1..Len(imDbs[y[1]].batches)
        BY <1>6
      <4> QED BY <3>1, <4>1
    <3> QED BY <1>6, <3>1, <3>2
  <2>3. CASE Imports = {}
    <3>1. Cardinality(Imports) = 0
      BY <2>3, FS_EmptySet
    <3> QED BY <3>1
  <2>4. CASE Imports # {}
    <3>1. PICK x \in Imports : Imports = {x}
      BY <2>2, <2>4
    <3>2. Cardinality(Imports) = 1
      BY <3>1, FS_Singleton
    <3> QED BY <3>2
  <2> QED BY <2>3, <2>4
<1>8. \A n \in Gone : n \in DOMAIN imDbs /\ n # imLive /\ Fills(imDbs[n])
  BY HoldsSome DEF Gone
<1>9. \A n \in DOMAIN imDbs : n # imLive /\ Fills(imDbs[n]) => n \in Gone
  BY HoldsSome DEF Gone
<1>10. Gone # {} => imWiped \/ TookAway
  BY <1>8 DEF ImportInv, Missing
<1>11. imMarker => Imports # {}
  <2>1. SUFFICES ASSUME imMarker PROVE Imports # {}
    OBVIOUS
  <2>2. PICK n \in DOMAIN imDbs : Brings(imDbs[n])
    BY <2>1 DEF ImportInv, Marked
  <2>3. <<n, 1>> \in Imports
    BY <1>4, <1>5, <2>2 DEF Imports
  <2> QED BY <2>3
<1>12. imServer # 0 /\ HasJson /\ ~Imported(imServer) /\ ~HasItems(imServer) => Gone # {}
  BY <1>9, HoldsSome DEF ImportInv, Served
<1>13. ImportIsSafe
  BY <1>3, <1>7, <1>10, <1>11, <1>12 DEF ImportIsSafe, TookAway
<1> QED BY <1>2, <1>13 DEF ImportHolds

LEMMA ImportInvAlways == ImportSpec => []ImportInv
BY ImportStarts, ImportSteps, PTL DEF ImportSpec

(* Whatever the files, the commands and the faults: every import leaves of *)
(* each URL the most advanced record in the order of the URLs, there is a  *)
(* second one only by force, by two commands at once or after a wipe with  *)
(* no marker, and rows are lost only to a command that met another.        *)
THEOREM ImportSafe == ImportSpec => []ImportHolds
<1>1. ImportInv => IsRight(Batch)
  BY BatchIsRight DEF ImportInv, ImportTyped
<1>2. ImportInv => ImportHolds
  BY <1>1, InvMeansHolds
<1> QED BY <1>2, ImportInvAlways, PTL

-----------------------------------------------------------------------------
(* The counters.                                                           *)

(* The block in memory is well formed, and it lies above every row: those  *)
(* of the table, and those that wait for the writer.                       *)
Above ==
  /\ \A c \in Counters : /\ cursor[c].last = cursor[c].next - 1
                         /\ cursor[c].next <= cursor[c].limit
  /\ \A v \in stored \cup pending : v < cursor["ord"].next
  /\ pending \cap stored = {}
  /\ ~up => pending = {}

(* While every reservation succeeded, the mark covers the block, and with  *)
(* it everything that was handed out.                                      *)
Covered ==
  /\ witness < hwm["seq"]
  /\ \A c \in Counters :
       /\ cursor[c].next <= hwm[c] /\ hwm[c] <= cursor[c].next + Block[c]
       /\ \A v \in issued[c] : v < hwm[c]
       /\ up => /\ hwm[c] = cursor[c].limit
                /\ \A v \in issued[c] : v < cursor[c].next

IInv == TypeOK /\ Above /\ (~failed => Covered)

----------------------------------------------------------------------------
(* A bounded set of numbers that is not empty has a largest one, so the    *)
(* MAX(ord) that open() selects exists: the sets of what lies above a      *)
(* member are finite, and the smallest of them is empty.                   *)
LEMMA LargestExists ==
  ASSUME NEW S \in SUBSET Nat, S # {}, NEW b \in Nat, \A v \in S : v < b
  PROVE  \E m \in S : \A w \in S : w <= m
<1> DEFINE Beyond(v) == {w \in S : v < w}
           Vs == {Beyond(v) : v \in S}
<1>1. IsFiniteSet(S)
  BY FS_BoundedSetOfNaturals
<1>2. Vs \subseteq FiniteSubsetsOf(S) /\ Vs # {}
  <2>1. \A v \in S : Beyond(v) \in SUBSET S
    OBVIOUS
  <2>2. \A v \in S : IsFiniteSet(Beyond(v))
    BY <1>1, <2>1, FS_Subset
  <2> QED BY <2>1, <2>2 DEF FiniteSubsetsOf
<1>3. \E X \in Vs : \A Y \in Vs : ~(<<Y, X>> \in StrictSubsetOrdering(S))
  <2> HIDE DEF Vs
  <2> QED BY <1>2, FS_StrictSubsetOrderingWellFounded, WFMin
<1>4. PICK m \in S : \A Y \in Vs : ~(<<Y, Beyond(m)>> \in StrictSubsetOrdering(S))
  BY <1>3
<1>5. \A w \in S : w <= m
  <2> SUFFICES ASSUME NEW w \in S, m < w PROVE FALSE
    OBVIOUS
  <2>1. m \in Nat /\ w \in Nat /\ \A x \in S : w < x => m < x
    OBVIOUS
  <2>2. Beyond(w) \subseteq Beyond(m)
    BY <2>1
  <2>3. w \in Beyond(m) /\ w \notin Beyond(w)
    BY <2>1
  <2>4. Beyond(w) \in Vs /\ Beyond(m) \in SUBSET S /\ Beyond(w) \in SUBSET S
    OBVIOUS
  <2> QED BY <2>2, <2>3, <2>4, <1>4 DEF StrictSubsetOrdering
<1> QED BY <1>5

(* Needed is the number after the largest `ord` of the table.              *)
LEMMA NeededAbove ==
  ASSUME stored \in SUBSET Nat, NEW b \in Nat, \A v \in stored : v < b
  PROVE  Needed \in Nat /\ Needed <= b /\ \A v \in stored : v < Needed
<1>1. CASE stored = {}
  BY <1>1 DEF Needed
<1>2. CASE stored # {}
  <2> DEFINE m == CHOOSE v \in stored : \A w \in stored : w <= v
  <2>1. m \in stored /\ \A w \in stored : w <= m
    BY <1>2, LargestExists
  <2>2. Needed = 1 + m
    BY <1>2 DEF Needed
  <2> HIDE DEF m
  <2> QED BY <2>1, <2>2
<1> QED BY <1>1, <1>2

(* What open() seeds a counter with is at least the mark, and at least the *)
(* candidate of the counter.                                               *)
LEMMA SeedBounds ==
  ASSUME IInv
  PROVE  /\ Seed("ord") \in Nat /\ Seed("seq") \in Nat
         /\ Seed("ord") >= hwm["ord"] /\ Seed("seq") >= hwm["seq"]
         /\ \A v \in stored : v < Seed("ord")
         /\ Covered => Seed("ord") = hwm["ord"] /\ Seed("seq") = hwm["seq"]
<1>1. hwm["ord"] \in Nat /\ hwm["seq"] \in Nat /\ witness \in Nat \cup {-1}
  BY DEF IInv, TypeOK, Counters
<1>2. cursor["ord"].next \in Nat
  BY DEF IInv, TypeOK, Counters, Cursor
<1>3. Needed \in Nat /\ Needed <= cursor["ord"].next /\ \A v \in stored : v < Needed
  BY <1>2, NeededAbove DEF IInv, TypeOK, Above
<1>4. Covered => cursor["ord"].next <= hwm["ord"] /\ witness < hwm["seq"]
  BY DEF Covered, Counters
<1>5. stored \subseteq Nat
  BY DEF IInv, TypeOK
<1> QED BY <1>1, <1>2, <1>3, <1>4, <1>5 DEF Seed, Larger

(* A counter starts with an empty block and an empty table.                *)
LEMMA InitInv == Init => IInv
<1> SUFFICES ASSUME Init PROVE IInv
  OBVIOUS
<1>1. Block["ord"] \in Nat /\ Block["seq"] \in Nat /\ MaxBoots \in Nat
  BY BlockAssumption, HiLoBounds DEF Counters
<1>2. Seeded(0) \in Cursor /\ Seeded(0).last = Seeded(0).next - 1
      /\ Seeded(0).next = 0 /\ Seeded(0).limit = 0
  BY DEF Seeded, Cursor
<1>3. TypeOK
  <2>1. cursor \in [Counters -> Cursor]
    <3> DEFINE block == Seeded(0)
    <3>1. block \in Cursor /\ cursor = [c \in Counters |-> block]
      BY <1>2 DEF Init
    <3> HIDE DEF block
    <3> QED BY <3>1
  <2>2. /\ hwm \in [Counters -> Nat] /\ issued \in [Counters -> SUBSET Nat]
        /\ boots \in 0..MaxBoots /\ witness \in Nat \cup {-1}
    BY <1>1 DEF Init
  <2>3. stored = {} /\ pending = {} /\ up = TRUE /\ failed = FALSE
    BY DEF Init
  <2> QED BY <2>1, <2>2, <2>3 DEF TypeOK
<1>4. Above
  BY <1>2 DEF Init, Above, Counters
<1>5. Covered
  BY <1>1, <1>2 DEF Init, Covered, Counters
<1> QED BY <1>3, <1>4, <1>5 DEF IInv

----------------------------------------------------------------------------
(* What a step that hands out `v` of a block that ends at `limit` leaves.   *)
Handed(c, v, limit) ==
  /\ Above'
  /\ stored' \subseteq Nat /\ pending' \subseteq Nat /\ witness' = witness
  /\ cursor' \in [Counters -> Cursor] /\ issued' \in [Counters -> SUBSET Nat]
  /\ up' = up /\ boots' = boots
  /\ cursor'[c].next = v + 1 /\ cursor'[c].limit = limit
  /\ issued'[c] = issued[c] \cup {v}
  /\ \A d \in Counters \ {c} : cursor'[d] = cursor[d] /\ issued'[d] = issued[d]

(* Handing out `v` from a block that ends at `limit` keeps what the rows   *)
(* rely on, when `v` is not below the cursor.                              *)
LEMMA HandOutAbove ==
  ASSUME IInv, up, NEW c \in Counters, NEW v \in Nat, NEW limit \in Nat,
         cursor[c].next <= v, v < limit, HandOut(c, v, limit)
  PROVE  Handed(c, v, limit)
<1> DEFINE block == [next |-> v + 1, limit |-> limit, last |-> v]
<1>1. block \in Cursor
  BY DEF Cursor
<1>2. cursor \in [Counters -> Cursor] /\ issued \in [Counters -> SUBSET Nat]
  BY DEF IInv, TypeOK
<1>3. cursor' = [cursor EXCEPT ![c] = block]
  BY DEF HandOut
<1>4. cursor'[c] = block /\ \A d \in Counters \ {c} : cursor'[d] = cursor[d]
  BY <1>2, <1>3
<1>5. block.next = v + 1 /\ block.limit = limit /\ block.last = v
  OBVIOUS
<1> HIDE DEF block
<1>6. cursor' \in [Counters -> Cursor]
  BY <1>1, <1>2, <1>3
<1>7. /\ issued' \in [Counters -> SUBSET Nat] /\ issued'[c] = issued[c] \cup {v}
      /\ \A d \in Counters \ {c} : issued'[d] = issued[d]
  BY <1>2 DEF HandOut
<1>8. /\ stored' = stored /\ witness' = witness /\ up' = up /\ boots' = boots
      /\ pending' = IF c = "ord" THEN pending \cup {v} ELSE pending
  BY DEF HandOut
<1>9. stored \subseteq Nat /\ pending \subseteq Nat
  BY DEF IInv, TypeOK
<1>10. /\ \A d \in Counters : cursor[d].last = cursor[d].next - 1
                              /\ cursor[d].next <= cursor[d].limit
       /\ \A w \in stored \cup pending : w < cursor["ord"].next
       /\ pending \cap stored = {}
  BY DEF IInv, Above
<1>11. \A d \in Counters : cursor[d].next \in Nat /\ cursor'[d].next \in Nat
  BY <1>2, <1>6 DEF Cursor
<1>12. \A d \in Counters : cursor'[d].last = cursor'[d].next - 1
                           /\ cursor'[d].next <= cursor'[d].limit
  BY <1>4, <1>5, <1>10
<1>13. \A w \in stored' \cup pending' : w < cursor'["ord"].next
  <2>1. CASE c = "ord"
    BY <2>1, <1>4, <1>5, <1>8, <1>9, <1>10, <1>11
  <2>2. CASE c # "ord"
    BY <2>2, <1>4, <1>8, <1>10 DEF Counters
  <2> QED BY <2>1, <2>2
<1>14. pending' \cap stored' = {}
  <2>1. CASE c = "ord"
    <3>1. v \notin stored
      BY <2>1, <1>9, <1>10, <1>11
    <3> QED BY <3>1, <1>8, <1>10
  <2>2. CASE c # "ord"
    BY <2>2, <1>8, <1>10
  <2> QED BY <2>1, <2>2
<1>15. Above'
  BY <1>8, <1>12, <1>13, <1>14 DEF Above
<1>16. stored' \subseteq Nat /\ pending' \subseteq Nat
  BY <1>8, <1>9
<1> QED BY <1>4, <1>5, <1>6, <1>7, <1>8, <1>15, <1>16 DEF Handed

(* A value of the block at hand.                                           *)
LEMMA InBlockInv == ASSUME IInv, NEW c \in Counters, InBlock(c) PROVE IInv'
<1> DEFINE v == cursor[c].next
           limit == cursor[c].limit
<1>1. v \in Nat /\ limit \in Nat /\ v < limit /\ up /\ HandOut(c, v, limit)
  BY DEF InBlock, IInv, TypeOK, Cursor
<1>2. Handed(c, v, limit)
  <2>1. cursor[c].next <= v
    BY <1>1
  <2> QED BY <1>1, <2>1, HandOutAbove
<1> USE DEF Handed
<1>3. hwm' = hwm /\ failed' = failed
  BY DEF InBlock
<1>4. TypeOK'
  BY <1>2, <1>3 DEF IInv, TypeOK
<1>5. ASSUME ~failed' PROVE Covered'
  <2>1. Covered
    BY <1>3, <1>5 DEF IInv
  <2>2. witness' < hwm'["seq"]
    BY <1>2, <1>3, <2>1 DEF Covered
  <2>3. ASSUME NEW d \in Counters
        PROVE  /\ cursor'[d].next <= hwm'[d] /\ hwm'[d] <= cursor'[d].next + Block[d]
               /\ \A w \in issued'[d] : w < hwm'[d]
               /\ hwm'[d] = cursor'[d].limit
               /\ \A w \in issued'[d] : w < cursor'[d].next
    <3>1. /\ cursor[d].next <= hwm[d] /\ hwm[d] <= cursor[d].next + Block[d]
          /\ hwm[d] = cursor[d].limit
          /\ \A w \in issued[d] : w < cursor[d].next /\ w < hwm[d]
      BY <1>1, <2>1 DEF Covered
    <3>2. Block[d] \in Nat /\ hwm[d] \in Nat /\ issued[d] \subseteq Nat
      BY BlockAssumption DEF IInv, TypeOK
    <3>3. CASE d = c
      BY <3>1, <3>2, <3>3, <1>1, <1>2, <1>3
    <3>4. CASE d # c
      BY <3>1, <3>4, <1>2, <1>3
    <3> QED BY <3>3, <3>4
  <2> QED BY <2>2, <2>3 DEF Covered
<1> QED BY <1>2, <1>4, <1>5 DEF IInv

(* The first value of a new block: the mark is written before.             *)
LEMMA ReserveInv == ASSUME IInv, NEW c \in Counters, Reserve(c) PROVE IInv'
<1> DEFINE v == ReservedEnd(c) - Block[c]
           limit == ReservedEnd(c)
<1>1. /\ hwm[c] \in Nat /\ cursor[c].next \in Nat /\ cursor[c].limit \in Nat
      /\ Block[c] \in Nat \ {0}
  BY BlockAssumption DEF IInv, TypeOK, Cursor
<1>2. /\ v \in Nat /\ limit \in Nat /\ limit = v + Block[c]
      /\ cursor[c].next <= v /\ hwm[c] <= v /\ (v = hwm[c] \/ v = cursor[c].next)
  BY <1>1 DEF ReservedEnd, Larger
<1>3. up /\ HandOut(c, v, limit) /\ hwm' = [hwm EXCEPT ![c] = limit] /\ failed' = failed
  BY DEF Reserve, Exhausted
<1>4. Handed(c, v, limit)
  <2>1. v < limit
    BY <1>1, <1>2
  <2> QED BY <1>2, <1>3, <2>1, HandOutAbove
<1> HIDE DEF v, limit
<1> USE DEF Handed
<1>5. /\ hwm' \in [Counters -> Nat] /\ hwm'[c] = limit
      /\ \A d \in Counters \ {c} : hwm'[d] = hwm[d]
  BY <1>2, <1>3 DEF IInv, TypeOK
<1>6. TypeOK'
  BY <1>3, <1>4, <1>5 DEF IInv, TypeOK
<1>7. ASSUME ~failed' PROVE Covered'
  <2>1. Covered
    BY <1>3, <1>7 DEF IInv
  <2>2. witness' < hwm'["seq"]
    <3>1. witness \in Int /\ hwm["seq"] \in Nat /\ witness < hwm["seq"]
      BY <2>1 DEF Covered, IInv, TypeOK, Counters
    <3>2. hwm["seq"] <= hwm'["seq"]
      BY <1>1, <1>2, <1>5, <3>1 DEF Counters
    <3>3. hwm'["seq"] \in Nat
      BY <1>5 DEF Counters
    <3> QED BY <3>1, <3>2, <3>3, <1>4
  <2>3. ASSUME NEW d \in Counters
        PROVE  /\ cursor'[d].next <= hwm'[d] /\ hwm'[d] <= cursor'[d].next + Block[d]
               /\ \A w \in issued'[d] : w < hwm'[d]
               /\ hwm'[d] = cursor'[d].limit
               /\ \A w \in issued'[d] : w < cursor'[d].next
    <3>1. /\ cursor[d].next <= hwm[d] /\ hwm[d] <= cursor[d].next + Block[d]
          /\ hwm[d] = cursor[d].limit
          /\ \A w \in issued[d] : w < cursor[d].next /\ w < hwm[d]
      BY <1>3, <2>1 DEF Covered
    <3>2. hwm[d] \in Nat /\ issued[d] \subseteq Nat
      BY DEF IInv, TypeOK
    <3>3. CASE d = c
      BY <3>1, <3>2, <3>3, <1>1, <1>2, <1>4, <1>5
    <3>4. CASE d # c
      BY <3>1, <3>4, <1>4, <1>5
    <3> QED BY <3>3, <3>4
  <2> QED BY <2>2, <2>3 DEF Covered
<1> QED BY <1>4, <1>6, <1>7 DEF IInv

(* A failed reservation: the counter goes on in memory, and the mark no    *)
(* longer covers what is handed out.                                       *)
LEMMA ReserveFailedInv ==
  ASSUME IInv, NEW c \in Counters, ReserveFailed(c) PROVE IInv'
<1> DEFINE v == cursor[c].next
           limit == cursor[c].next + Block[c]
<1>1. v \in Nat /\ Block[c] \in Nat \ {0}
  BY BlockAssumption DEF IInv, TypeOK, Cursor
<1>2. v \in Nat /\ limit \in Nat /\ cursor[c].next <= v /\ v < limit
  BY <1>1
<1>3. up /\ HandOut(c, v, limit) /\ hwm' = hwm /\ failed' = TRUE
  BY DEF ReserveFailed, Exhausted
<1>4. Handed(c, v, limit)
  BY <1>2, <1>3, HandOutAbove
<1> HIDE DEF v, limit
<1> USE DEF Handed
<1>5. TypeOK'
  BY <1>3, <1>4 DEF IInv, TypeOK
<1> QED BY <1>3, <1>4, <1>5 DEF IInv

----------------------------------------------------------------------------
(* The writer commits, loses or deletes a row.                             *)
LEMMA RowsInv ==
  ASSUME IInv, NEW v, Inserted(v) \/ Dropped(v) \/ Deleted(v)
  PROVE  IInv'
<1>1. /\ UNCHANGED <<hwm, witness, cursor, up, boots, issued, failed>>
      /\ up /\ pending' \subseteq pending
      /\ stored' \cup pending' \subseteq stored \cup pending
      /\ pending \cap stored = {} => pending' \cap stored' = {}
  BY DEF Inserted, Dropped, Deleted, disk
<1>2. TypeOK'
  <2>1. stored' \subseteq Nat /\ pending' \subseteq Nat
    BY <1>1 DEF IInv, TypeOK
  <2> QED BY <1>1, <2>1 DEF IInv, TypeOK
<1>3. Above'
  BY <1>1 DEF IInv, Above
<1>4. ~failed' => Covered'
  BY <1>1 DEF IInv, Covered
<1> QED BY <1>2, <1>3, <1>4 DEF IInv

(* A graceful shutdown records the last frame number, which the mark       *)
(* covers; a crash records nothing.                                        *)
LEMMA DownInv == ASSUME IInv, Shutdown \/ Crash PROVE IInv'
<1>1. /\ UNCHANGED <<hwm, stored, cursor, issued, failed>> /\ up /\ up' = FALSE
      /\ pending' = {} /\ boots' = boots + 1 /\ boots < MaxBoots
      /\ witness' = cursor["seq"].last \/ witness' = witness
  BY DEF Shutdown, Crash, Down, disk
<1>2. cursor["seq"].last \in Nat \cup {-1} /\ cursor["seq"].last = cursor["seq"].next - 1
      /\ cursor["seq"].next \in Nat /\ hwm["seq"] \in Nat
  BY DEF IInv, TypeOK, Above, Cursor, Counters
<1>3. TypeOK'
  <2>1. boots' \in 0..MaxBoots
    BY <1>1, HiLoBounds DEF IInv, TypeOK
  <2>2. witness' \in Nat \cup {-1}
    BY <1>1, <1>2 DEF IInv, TypeOK
  <2> QED BY <1>1, <2>1, <2>2 DEF IInv, TypeOK
<1>4. Above'
  BY <1>1 DEF IInv, Above
<1>5. ASSUME ~failed' PROVE Covered'
  <2>1. Covered
    BY <1>1, <1>5 DEF IInv
  <2>2. witness' < hwm'["seq"]
    <3>1. cursor["seq"].next <= hwm["seq"] /\ witness < hwm["seq"]
      BY <2>1 DEF Covered, Counters
    <3> QED BY <3>1, <1>1, <1>2
  <2> QED BY <1>1, <2>1, <2>2 DEF Covered
<1> QED BY <1>3, <1>4, <1>5 DEF IInv

(* The mark is durable before the first value of its block: a crash        *)
(* between the two skips the block.                                        *)
LEMMA CrashInReserveInv ==
  ASSUME IInv, NEW c \in Counters, CrashInReserve(c) PROVE IInv'
<1> DEFINE end == ReservedEnd(c)
<1>1. /\ UNCHANGED <<witness, stored, cursor, issued, failed>> /\ up /\ up' = FALSE
      /\ pending' = {} /\ boots' = boots + 1 /\ boots < MaxBoots
      /\ hwm' = [hwm EXCEPT ![c] = end] /\ cursor[c].next >= cursor[c].limit
  BY DEF CrashInReserve, Exhausted, Down
<1>2. /\ hwm \in [Counters -> Nat] /\ cursor[c].next \in Nat /\ cursor[c].limit \in Nat
      /\ Block[c] \in Nat \ {0} /\ cursor[c].next <= cursor[c].limit
  BY BlockAssumption DEF IInv, TypeOK, Above, Cursor
<1>3. end \in Nat /\ hwm[c] \in Nat /\ hwm[c] <= end
      /\ (hwm[c] = cursor[c].limit => end = cursor[c].next + Block[c])
  BY <1>1, <1>2 DEF ReservedEnd, Larger
<1> HIDE DEF end
<1>4. /\ hwm' \in [Counters -> Nat] /\ hwm'[c] = end
      /\ \A d \in Counters \ {c} : hwm'[d] = hwm[d]
  BY <1>1, <1>2, <1>3
<1>5. TypeOK'
  <2>1. boots' \in 0..MaxBoots
    BY <1>1, HiLoBounds DEF IInv, TypeOK
  <2> QED BY <1>1, <1>4, <2>1 DEF IInv, TypeOK
<1>6. Above'
  BY <1>1 DEF IInv, Above
<1>7. ASSUME ~failed' PROVE Covered'
  <2>1. Covered
    BY <1>1, <1>7 DEF IInv
  <2>2. ASSUME NEW d \in Counters
        PROVE  /\ cursor[d].next <= hwm'[d] /\ hwm'[d] <= cursor[d].next + Block[d]
               /\ hwm[d] <= hwm'[d] /\ hwm'[d] \in Nat /\ hwm[d] \in Nat
               /\ \A w \in issued[d] : w < hwm'[d]
    <3>1. /\ cursor[d].next <= hwm[d] /\ hwm[d] <= cursor[d].next + Block[d]
          /\ hwm[d] = cursor[d].limit /\ \A w \in issued[d] : w < hwm[d]
      BY <1>1, <2>1 DEF Covered
    <3>2. hwm[d] \in Nat /\ hwm'[d] \in Nat /\ issued[d] \subseteq Nat
      BY <1>2, <1>4 DEF IInv, TypeOK
    <3>3. CASE d = c
      BY <3>1, <3>2, <3>3, <1>2, <1>3, <1>4
    <3>4. CASE d # c
      BY <3>1, <3>2, <3>4, <1>4
    <3> QED BY <3>3, <3>4
  <2>3. witness' < hwm'["seq"]
    <3>1. witness \in Int /\ witness < hwm["seq"]
      BY <2>1 DEF Covered, IInv, TypeOK
    <3>2. hwm["seq"] <= hwm'["seq"] /\ hwm["seq"] \in Nat /\ hwm'["seq"] \in Nat
      BY <2>2 DEF Counters
    <3> QED BY <3>1, <3>2, <1>1
  <2> QED BY <1>1, <2>2, <2>3 DEF Covered
<1> QED BY <1>5, <1>6, <1>7 DEF IInv

(* A boot starts both counters above the table and above the mark.         *)
LEMMA OpenInv == ASSUME IInv, Open PROVE IInv'
<1>1. /\ ~up /\ up' = TRUE /\ hwm' = [c \in Counters |-> Seed(c)]
      /\ cursor' = [c \in Counters |-> Seeded(Seed(c))]
      /\ UNCHANGED <<witness, stored, pending, boots, issued, failed>>
  BY DEF Open
<1>2. \A c \in Counters : Seed(c) \in Nat /\ Seed(c) >= hwm[c] /\ hwm[c] \in Nat
  BY SeedBounds DEF Counters, IInv, TypeOK
<1>3. \A c \in Counters : /\ cursor'[c] \in Cursor /\ cursor'[c].next = Seed(c)
                          /\ cursor'[c].limit = Seed(c)
                          /\ cursor'[c].last = Seed(c) - 1 /\ hwm'[c] = Seed(c)
  BY <1>1, <1>2 DEF Seeded, Cursor
<1>4. TypeOK'
  BY <1>1, <1>2, <1>3 DEF IInv, TypeOK
<1>5. Above'
  <2>1. pending' = {} /\ stored' = stored
    BY <1>1 DEF IInv, Above
  <2>2. \A v \in stored : v < cursor'["ord"].next
    BY <1>3, SeedBounds DEF Counters
  <2>3. \A c \in Counters : /\ cursor'[c].last = cursor'[c].next - 1
                            /\ cursor'[c].next <= cursor'[c].limit
    BY <1>2, <1>3
  <2> QED BY <2>1, <2>2, <2>3 DEF Above
<1>6. ASSUME ~failed' PROVE Covered'
  <2>1. Covered /\ \A c \in Counters : Seed(c) = hwm[c]
    BY <1>1, <1>6, SeedBounds DEF IInv, Counters
  <2>2. \A c \in Counters : \A w \in issued[c] : w < hwm[c]
    BY <2>1 DEF Covered
  <2>3. \A c \in Counters : Block[c] \in Nat
    BY BlockAssumption
  <2>4. witness' < hwm'["seq"]
    BY <1>1, <1>3, <2>1 DEF Covered, Counters
  <2> QED BY <1>1, <1>2, <1>3, <2>1, <2>2, <2>3, <2>4 DEF Covered
<1> QED BY <1>4, <1>5, <1>6 DEF IInv

(* Every step keeps the invariant.                                         *)
LEMMA NextInv == IInv /\ [Next]_vars => IInv'
<1> SUFFICES ASSUME IInv, [Next]_vars PROVE IInv'
  OBVIOUS
<1>1. CASE UNCHANGED vars
  BY <1>1 DEF vars, disk, IInv, TypeOK, Above, Covered
<1>2. ASSUME NEW c \in Counters,
             InBlock(c) \/ Reserve(c) \/ ReserveFailed(c) \/ CrashInReserve(c)
      PROVE  IInv'
  BY <1>2, InBlockInv, ReserveInv, ReserveFailedInv, CrashInReserveInv
<1>3. ASSUME NEW v, Inserted(v) \/ Dropped(v) \/ Deleted(v) PROVE IInv'
  BY <1>3, RowsInv
<1> QED BY <1>1, <1>2, <1>3, DownInv, OpenInv DEF Next

(* The inductive invariant holds of every execution.                       *)
THEOREM Invariance == Spec => []IInv
<1> QED BY InitInv, NextInv, PTL DEF Spec

(* The durable marks, the blocks in memory and the tables keep their       *)
(* types.                                                                  *)
THEOREM Typed == Spec => []TypeOK
<1>1. IInv => TypeOK
  BY DEF IInv
<1> QED BY <1>1, Invariance, PTL

(* No insert of a row dies on the UNIQUE index of items.ord, after any     *)
(* number of crashes and of failed reservations.                           *)
THEOREM InsertsAlwaysSucceed == Spec => []InsertsSucceed
<1>1. IInv => InsertsSucceed
  BY DEF IInv, Above, InsertsSucceed
<1> QED BY <1>1, Invariance, PTL

(* Crashes alone never make a counter hand out a value twice.              *)
THEOREM NothingReissued == Spec => []NeverReissued
<1>1. IInv => NeverReissued
  BY DEF IInv, Covered, NeverReissued
<1> QED BY <1>1, Invariance, PTL

(* A boot skips at most one block of each counter.                         *)
THEOREM BootsSkipLittle == Spec => BootSkipsOneBlock
<1>1. ASSUME IInv, [Next]_vars
      PROVE  [~up /\ up' /\ ~failed =>
                \A c \in Counters : cursor'[c].next - cursor[c].next \in 0..Block[c]]_vars
  <2> SUFFICES ASSUME Next, ~up, up', ~failed, NEW c \in Counters
               PROVE  cursor'[c].next - cursor[c].next \in 0..Block[c]
    BY <1>1
  <2>1. Open
    BY <1>1 DEF Next, InBlock, Reserve, ReserveFailed, CrashInReserve, Exhausted, Inserted,
                Dropped, Deleted, Shutdown, Crash, Down
  <2>2. Covered /\ Seed(c) = hwm[c]
    BY <1>1, SeedBounds DEF IInv, Counters
  <2>3. cursor'[c].next = hwm[c]
    BY <2>1, <2>2 DEF Open, Seeded
  <2>4. cursor[c].next <= hwm[c] /\ hwm[c] <= cursor[c].next + Block[c]
    BY <2>2 DEF Covered
  <2>5. cursor[c].next \in Nat /\ hwm[c] \in Nat /\ Block[c] \in Nat
    BY <1>1, BlockAssumption DEF IInv, TypeOK, Cursor
  <2> QED BY <2>3, <2>4, <2>5
<1> QED BY <1>1, Invariance, PTL DEF Spec, BootSkipsOneBlock

----------------------------------------------------------------------------
(* The strengthening of HookRunsHold: what an invocation has spent is made *)
(* of the attempts and the waits it has had, each at its longest, and of   *)
(* the whole first round when a notification fell back to the scan.        *)
RunRec ==
  [phase : {"idle", "notify", "act", "ended"}, paths : SUBSET Path, try : Nat, spent : Nat,
   error : {"ok", "exit", "timeout", "missing", "refused", "busy", "transport",
            "none", "template", "canceled", "cut off"}, killed : BOOLEAN]
LastRec == [mode : {"none", "global_scan", "media_updated"}, ok : BOOLEAN]

Going   == hrRun.phase \in {"notify", "act"}
Waiting == hrRun.error \in Outcomes \ {"ok"}
Slept   == IF Waiting THEN hrRun.try - 1 ELSE hrRun.try
Times(n, d) == IF n = 0 THEN 0 ELSE IF n = 1 THEN d ELSE 2 * d
WaitsOf(n)  == IF n = 0 THEN 0 ELSE IF n = 1 THEN 2 ELSE 10
Fell == IF Scans /\ hrHook.map /\ hrRun.phase = "act" THEN 3 * hrHook.timeout + 10 ELSE 0
Grace == IF hrRun.killed THEN Times(hrRun.try, 5) ELSE 0

RunTimed ==
  Going => /\ hrRun.try < Tries /\ (Waiting => hrRun.try > 0)
           /\ Tries <= 3 =>
                hrRun.spent <= Fell + Times(hrRun.try, hrHook.timeout) + WaitsOf(Slept) + Grace
RunTypes ==
  /\ hrHook \in Hook /\ hrDone \in 0..HrRuns /\ hrAsked \subseteq {"global_scan", "media_updated"}
  /\ hrRun \in RunRec /\ hrLast \in LastRec
  /\ hrRun.try <= Tries /\ hrRun.spent <= Bound
  /\ hrRun.error \in Outcomes \cup {"none", "template", "canceled", "cut off"}
RunsInv ==
  /\ RunTypes /\ HookRunsAreTrue
  /\ hrRun.phase = "notify" => Targets(hrRun.paths)
  /\ hrRun.killed => hrHook.kind = "command"
  /\ RunTimed

(* What the hook is configured to do, and the bound that follows from it.  *)
LEMMA Configured ==
  ASSUME hrHook \in Hook
  PROVE  /\ hrHook.timeout \in Nat /\ hrHook.retries \in Nat
         /\ hrHook.kind \in Kinds
         /\ Tries \in Nat /\ Tries >= 1
<1>0. (\A t \in HrTimeouts : t \in Nat) /\ (\A r \in HrRetries : r \in Nat) BY HrAssumption
<1>1. hrHook.timeout \in HrTimeouts /\ hrHook.kind \in Kinds BY DEF Hook, Kinds
<1>3. hrHook.retries \in HrRetries \/ hrHook.retries = 0 BY DEF Hook
<1>4. hrHook.timeout \in Nat /\ hrHook.retries \in Nat BY <1>0, <1>1, <1>3
<1> QED BY <1>1, <1>4 DEF Tries, Scans, Attempts

LEMMA Bounded ==
  ASSUME hrHook \in Hook
  PROVE  /\ Bound \in Nat
         /\ Tries = 1 => Bound >= hrHook.timeout + 15
         /\ Tries = 2 => Bound >= 2 * hrHook.timeout + 15
         /\ Tries = 3 => Bound >= 3 * hrHook.timeout + 15
         /\ Scans /\ hrHook.map => Bound = 6 * hrHook.timeout + 25
<1>1. Waits = 10 BY DEF Waits, Backoff
<1>2. Tries * hrHook.timeout \in Nat BY Configured
<1>3. Tries * hrHook.timeout = IF Tries = 1 THEN hrHook.timeout ELSE IF Tries = 2 THEN 2 * hrHook.timeout
                              ELSE IF Tries = 3 THEN 3 * hrHook.timeout ELSE Tries * hrHook.timeout
  BY Configured
<1>4. CASE Scans /\ hrHook.map
  <2>1. Tries = 3 BY <1>4 DEF Tries, Attempts
  <2>2. Bound = 2 * (Tries * hrHook.timeout + 10) + 5 BY <1>1, <1>4 DEF Bound, Slack
  <2> QED BY <1>2, <1>3, <2>1, <2>2, Configured
<1>5. CASE ~(Scans /\ hrHook.map)
  <2>2. Bound = Tries * hrHook.timeout + 10 + 5 BY <1>1, <1>5 DEF Bound, Slack
  <2> QED BY <1>2, <1>3, <1>5, <2>2, Configured
<1> QED BY <1>4, <1>5

(* The outcomes are among those a run may show.                            *)
LEMMA Known ==
  /\ Outcomes \subseteq {"ok", "exit", "timeout", "missing", "refused", "busy", "transport"}
  /\ "none" \notin Outcomes /\ "template" \notin Outcomes
  /\ "canceled" \notin Outcomes /\ "cut off" \notin Outcomes
BY DEF Outcomes

(* An attempt takes its timeout at most, unless a command has to be killed *)
(* and takes its time to go.                                               *)
LEMMA Spent ==
  ASSUME hrHook \in Hook, NEW e \in Outcomes, NEW d \in Spends(e)
  PROVE  /\ d \in Nat /\ d <= hrHook.timeout + 5
         /\ d > hrHook.timeout => hrHook.kind = "command" /\ e = "timeout"
<1>1. CASE e = "timeout"
  <2>1. hrHook.kind = "command" BY <1>1 DEF Outcomes
  <2>2. d \in {hrHook.timeout, hrHook.timeout + 5} BY <1>1 DEF Spends, KillGrace
  <2> QED BY <1>1, <2>1, <2>2, Configured
<1>2. CASE e = "missing"
  <2>1. d = 0 BY <1>2 DEF Spends
  <2> QED BY <2>1, Configured
<1>3. CASE e \notin {"timeout", "missing"}
  <2>1. d \in {0, hrHook.timeout} BY <1>3 DEF Spends
  <2> QED BY <2>1, Configured
<1> QED BY <1>1, <1>2, <1>3

LEMMA RunsStart == HookRunsInit => RunsInv
<1> SUFFICES ASSUME HookRunsInit PROVE RunsInv OBVIOUS
<1>1. hrHook \in Hook /\ hrRun = NoRun /\ hrLast = NoLast /\ hrAsked = {} /\ hrDone = 0
  BY DEF HookRunsInit
<1>2. hrRun \in RunRec BY <1>1 DEF NoRun, RunRec
<1>3. hrLast \in LastRec BY <1>1 DEF NoLast, LastRec
<1>4. RunTypes BY <1>1, <1>2, <1>3, HrAssumption, Configured, Bounded DEF RunTypes, NoRun
<1>5. hrRun.phase = "idle" BY <1>1 DEF NoRun
<1>6. HookRunsAreTrue
  BY <1>5 DEF HookRunsAreTrue, AsksForAll, TriesTheScan, KeepsItsTries, ShowsTheFailure, Ended
<1>7. ~hrRun.killed BY <1>1 DEF NoRun
<1> QED BY <1>4, <1>5, <1>6, <1>7 DEF RunsInv, RunTimed, Going

(* The types the property names follow from the inductive ones.            *)
LEMMA TypesHold == RunTypes => HookRunsTypeOK
<1> SUFFICES ASSUME RunTypes PROVE HookRunsTypeOK OBVIOUS
<1>1. /\ hrRun.phase \in {"idle", "notify", "act", "ended"} /\ hrRun.paths \subseteq Path
      /\ hrRun.try \in Nat /\ hrRun.spent \in Nat
  BY DEF RunTypes, RunRec
<1>2. hrRun.killed \in BOOLEAN BY Zenon DEF RunTypes, RunRec
<1>3. hrLast.mode \in {"none", "global_scan", "media_updated"} BY DEF RunTypes, LastRec
<1>4. hrLast.ok \in BOOLEAN BY Zenon DEF RunTypes, LastRec
<1>5. hrRun.try \in 0..Tries /\ hrRun.spent \in 0..Bound
  <2>1. hrHook \in Hook /\ hrRun.try <= Tries /\ hrRun.spent <= Bound BY DEF RunTypes
  <2>2. Tries \in Nat /\ Bound \in Nat BY <2>1, Configured, Bounded
  <2> QED BY <1>1, <2>1, <2>2
<1> QED BY <1>1, <1>2, <1>3, <1>4, <1>5 DEF HookRunsTypeOK, RunTypes

LEMMA StartKeeps ==
  ASSUME RunsInv, NEW paths \in SUBSET Path, Start(paths)
  PROVE  RunsInv'
<1> DEFINE p == IF Targets(paths) THEN "notify" ELSE "act"
<1>1. /\ hrRun' = [phase |-> p, paths |-> paths, try |-> 0, spent |-> 0, error |-> "none", killed |-> FALSE]
      /\ hrHook' = hrHook /\ hrLast' = hrLast /\ hrAsked' = {} /\ hrDone' = hrDone + 1 /\ hrDone < HrRuns
  BY DEF Start, NoRun
<1>2. hrRun' \in RunRec BY <1>1 DEF RunRec
<1>3. RunTypes'
  <2>1. hrHook' = hrHook /\ Tries' = Tries /\ Bound' = Bound /\ Outcomes' = Outcomes
    BY <1>1 DEF Tries, Bound, Scans, Outcomes
  <2>2. Tries \in Nat /\ Bound \in Nat BY Configured, Bounded DEF RunsInv, RunTypes
  <2>3. hrDone' \in 0..HrRuns
    <3>1. hrDone \in 0..HrRuns BY DEF RunsInv, RunTypes
    <3>2. HrRuns \in Nat BY HrAssumption
    <3> QED BY <1>1, <3>1, <3>2
  <2>4. hrRun'.try = 0 /\ hrRun'.spent = 0 /\ hrRun'.error = "none" BY <1>1
  <2>5. hrHook' \in Hook /\ hrAsked' \subseteq {"global_scan", "media_updated"} /\ hrLast' \in LastRec
    BY <1>1 DEF RunsInv, RunTypes
  <2> QED BY <1>2, <2>1, <2>2, <2>3, <2>4, <2>5 DEF RunTypes
<1>4. hrRun'.phase # "ended" BY <1>1
<1>5. HookRunsAreTrue'
  BY <1>4 DEF HookRunsAreTrue, AsksForAll, TriesTheScan, KeepsItsTries, ShowsTheFailure, Ended
<1>6. (hrRun.phase = "notify" => Targets(hrRun.paths))' BY <1>1 DEF Targets, Scans
<1>7. ~hrRun'.killed BY <1>1
<1>8. RunTimed'
  <2>1. ~Waiting' BY <1>1, Known DEF Waiting, Outcomes
  <2>2. hrRun'.try = 0 /\ hrRun'.spent = 0 BY <1>1
  <2>3. Tries' = Tries /\ Tries >= 1 /\ hrHook'.timeout \in Nat
    BY <1>1, Configured DEF RunsInv, RunTypes, Tries, Scans
  <2>4. Fell' = 0 \/ Fell' = 3 * hrHook'.timeout + 10 BY DEF Fell
  <2>5. Grace' = 0 BY <1>7 DEF Grace
  <2>6. Slept' = 0 BY <2>1, <2>2 DEF Slept
  <2>7. Times(0, hrHook'.timeout) = 0 /\ WaitsOf(0) = 0 BY DEF Times, WaitsOf
  <2>8. hrRun'.spent <= Fell' + Times(hrRun'.try, hrHook'.timeout) + WaitsOf(Slept') + Grace'
    BY <2>2, <2>3, <2>4, <2>5, <2>6, <2>7
  <2>9. hrRun'.try < Tries'
    <3>1. Tries \in Nat BY Configured DEF RunsInv, RunTypes
    <3> QED BY <2>2, <2>3, <3>1
  <2> HIDE DEF p
  <2> QED BY <2>1, <2>8, <2>9, Zenon DEF RunTimed
<1> QED BY <1>3, <1>5, <1>6, <1>7, <1>8 DEF RunsInv

(* An invocation that ends leaves nothing to be said of its time but that  *)
(* it is within the bound.                                                 *)
LEMMA EndKeeps ==
  ASSUME RunsInv, hrHook' = hrHook, RunTypes', HookRunsAreTrue', hrRun'.phase = "ended",
         hrRun'.killed => hrHook.kind = "command"
  PROVE  RunsInv'
BY DEF RunsInv, RunTimed, Going

LEMMA RendersNotKeeps == ASSUME RunsInv, RendersNot PROVE RunsInv'
<1>1. /\ hrRun' = [hrRun EXCEPT !.phase = "ended", !.error = "template"] /\ ~Scans
      /\ UNCHANGED <<hrHook, hrLast, hrAsked, hrDone>>
  BY DEF RendersNot
<1>2. hrRun \in RunRec BY DEF RunsInv, RunTypes
<1>3. hrRun' \in RunRec BY <1>1, <1>2 DEF RunRec
<1>4. /\ hrRun'.phase = "ended" /\ hrRun'.error = "template" /\ hrRun'.killed = hrRun.killed
      /\ hrRun'.try = hrRun.try /\ hrRun'.spent = hrRun.spent
  BY <1>1, <1>2 DEF RunRec
<1>5. RunTypes' BY <1>1, <1>3, <1>4 DEF RunsInv, RunTypes, Tries, Bound, Scans, Outcomes
<1>6. HookRunsAreTrue'
  BY <1>1, <1>4, Known DEF HookRunsAreTrue, AsksForAll, TriesTheScan, KeepsItsTries, ShowsTheFailure,
      Scans, Outcomes,
     Retryable
<1> QED BY <1>1, <1>4, <1>5, <1>6, EndKeeps DEF RunsInv

(* What is recorded of the last request is a record of its type.           *)
LEMMA Recorded ==
  ASSUME RunTypes, RecordFailure
  PROVE  hrLast' \in LastRec /\ (Scans => hrLast'.mode = Mode /\ ~hrLast'.ok)
<1>1. Mode \in {"global_scan", "media_updated"} BY DEF Mode
<1>2. [mode |-> Mode, ok |-> FALSE] \in LastRec BY <1>1 DEF LastRec
<1>3. hrLast' = IF Scans THEN [mode |-> Mode, ok |-> FALSE] ELSE hrLast BY DEF RecordFailure, Record
<1> QED BY <1>2, <1>3 DEF RunTypes

LEMMA CancelRunKeeps == ASSUME RunsInv, CancelRun PROVE RunsInv'
<1>1. /\ hrRun' = [hrRun EXCEPT !.phase = "ended", !.error = "canceled"]
      /\ UNCHANGED <<hrHook, hrAsked, hrDone>>
  BY DEF CancelRun
<1>2. hrRun \in RunRec /\ hrLast \in LastRec BY DEF RunsInv, RunTypes
<1>3. hrRun' \in RunRec BY <1>1, <1>2 DEF RunRec
<1>4. /\ hrRun'.phase = "ended" /\ hrRun'.error = "canceled" /\ hrRun'.killed = hrRun.killed
      /\ hrRun'.try = hrRun.try /\ hrRun'.spent = hrRun.spent
  BY <1>1, <1>2 DEF RunRec
<1>5. hrLast' \in LastRec BY <1>2, Recorded DEF CancelRun, RunsInv
<1>6. RunTypes' BY <1>1, <1>3, <1>4, <1>5 DEF RunsInv, RunTypes, Tries, Bound, Scans, Outcomes
<1>7. HookRunsAreTrue'
  BY <1>1, <1>4, Known DEF HookRunsAreTrue, AsksForAll, TriesTheScan, KeepsItsTries, ShowsTheFailure,
      Scans, Outcomes,
     Retryable
<1> QED BY <1>1, <1>4, <1>6, <1>7, EndKeeps DEF RunsInv

(* The wait that was due is counted, and the attempt after it is allowed.  *)
LEMMA SleepKeeps == ASSUME RunsInv, Sleep PROVE RunsInv'
<1> DEFINE w == Wait(hrRun.try)
<1>1. /\ hrRun' = [hrRun EXCEPT !.spent = @ + w, !.error = "none"]
      /\ hrRun.spent + w <= Bound /\ Going /\ Waiting
      /\ UNCHANGED <<hrHook, hrLast, hrAsked, hrDone>>
  BY DEF Sleep, Going, Waiting
<1>2. hrRun \in RunRec BY DEF RunsInv, RunTypes
<1>3. hrRun.try \in Nat /\ hrRun.try > 0 /\ hrRun.try < Tries /\ Tries \in Nat /\ hrRun.spent \in Nat
  BY <1>1, <1>2, Configured DEF RunsInv, RunTimed, RunRec, RunTypes
<1>4. w \in Nat /\ (hrRun.try = 1 => w = 2) /\ (hrRun.try = 2 => w = 8) BY <1>3 DEF Wait, Backoff
<1>5. hrRun' \in RunRec
  <2>1. \A s \in Nat : [hrRun EXCEPT !.spent = s, !.error = "none"] \in RunRec BY <1>2 DEF RunRec
  <2>2. hrRun.spent + w \in Nat BY <1>3, <1>4
  <2> QED BY <1>1, <2>1, <2>2
<1>6. /\ hrRun'.phase = hrRun.phase /\ hrRun'.error = "none" /\ hrRun'.killed = hrRun.killed
      /\ hrRun'.try = hrRun.try /\ hrRun'.spent = hrRun.spent + w /\ hrRun'.paths = hrRun.paths
  BY <1>1, <1>2 DEF RunRec
<1>7. RunTypes' BY <1>1, <1>5, <1>6 DEF RunsInv, RunTypes, Tries, Bound, Scans, Outcomes
<1>8. hrRun'.phase # "ended" BY <1>1, <1>6 DEF Going
<1>9. HookRunsAreTrue'
  BY <1>8 DEF HookRunsAreTrue, AsksForAll, TriesTheScan, KeepsItsTries, ShowsTheFailure, Ended
<1>10. RunTimed'
  <2>1. ~Waiting' BY <1>6, Known DEF Waiting, Outcomes
  <2>2. Slept' = hrRun.try /\ Slept = hrRun.try - 1 BY <1>1, <1>6, <2>1 DEF Slept
  <2>3. Tries' = Tries /\ Fell' = Fell /\ Grace' = Grace /\ hrHook' = hrHook
    BY <1>1, <1>6 DEF Tries, Fell, Grace, Scans
  <2>4. Tries <= 3 => WaitsOf(hrRun.try) = WaitsOf(hrRun.try - 1) + w BY <1>3, <1>4 DEF WaitsOf
  <2>5. Tries <= 3 => hrRun.spent <= Fell + Times(hrRun.try, hrHook.timeout) + WaitsOf(hrRun.try - 1) + Grace
    BY <1>1, <2>2 DEF RunsInv, RunTimed
  <2>6. hrHook.timeout \in Nat /\ Fell \in Nat
    <3>1. Fell = 0 \/ Fell = 3 * hrHook.timeout + 10 BY DEF Fell
    <3>2. hrHook.timeout \in Nat BY Configured DEF RunsInv, RunTypes
    <3> QED BY <3>1, <3>2
  <2>7. Grace \in Nat BY <1>3 DEF Grace, Times
  <2>8. Times(hrRun.try, hrHook.timeout) \in Nat BY <1>3, <2>6 DEF Times
  <2>9. WaitsOf(hrRun.try - 1) \in Nat BY DEF WaitsOf
  <2>10. Tries <= 3 => hrRun.spent + w <= Fell + Times(hrRun.try, hrHook.timeout) + WaitsOf(hrRun.try) + Grace
    BY <1>3, <1>4, <2>4, <2>5, <2>6, <2>7, <2>8, <2>9
  <2> QED BY <1>3, <1>6, <2>1, <2>2, <2>3, <2>10 DEF RunTimed
<1> QED BY <1>1, <1>6, <1>7, <1>9, <1>10 DEF RunsInv, Targets, Scans

(* What an invocation of three tries at most has spent before an attempt   *)
(* or a wait, in numbers.                                                  *)
LEMMA SpentSoFar ==
  ASSUME RunsInv, Going, Tries <= 3
  PROVE  /\ hrRun.try \in {0, 1, 2} /\ hrRun.try < Tries /\ hrHook.timeout \in Nat
         /\ Fell \in Nat /\ Grace \in Nat /\ hrRun.spent \in Nat
         /\ ~Waiting => hrRun.spent <= Fell + Times(hrRun.try, hrHook.timeout) + WaitsOf(hrRun.try) + Grace
         /\ Waiting => /\ hrRun.try > 0
                       /\ hrRun.spent <= Fell + Times(hrRun.try, hrHook.timeout) + WaitsOf(hrRun.try - 1) + Grace
<1>1. hrHook \in Hook /\ hrRun \in RunRec BY DEF RunsInv, RunTypes
<1>2. hrHook.timeout \in Nat /\ Tries \in Nat BY <1>1, Configured
<1>3. hrRun.try \in Nat /\ hrRun.spent \in Nat BY <1>1 DEF RunRec
<1>4. /\ hrRun.try < Tries /\ (Waiting => hrRun.try > 0)
      /\ hrRun.spent <= Fell + Times(hrRun.try, hrHook.timeout) + WaitsOf(Slept) + Grace
  BY DEF RunsInv, RunTimed
<1>5. Fell = 0 \/ Fell = 3 * hrHook.timeout + 10 BY DEF Fell
<1>6. Grace = 0 \/ Grace = Times(hrRun.try, 5) BY DEF Grace
<1>7. hrRun.try \in {0, 1, 2} BY <1>2, <1>3, <1>4
<1>8. Times(hrRun.try, 5) \in Nat BY <1>3 DEF Times
<1>9. Fell \in Nat /\ Grace \in Nat BY <1>2, <1>5, <1>6, <1>8
<1>10. (Waiting => Slept = hrRun.try - 1) /\ (~Waiting => Slept = hrRun.try) BY DEF Slept
<1> QED BY <1>2, <1>3, <1>4, <1>7, <1>9, <1>10

(* The bound leaves room for the first round of a scan that falls back.    *)
LEMMA Rounds ==
  ASSUME RunsInv, Going, Scans
  PROVE  /\ Tries = 3 /\ Grace = 0 /\ Fell + 3 * hrHook.timeout + 15 <= Bound
         /\ hrHook.timeout \in Nat /\ Bound \in Nat
<1>1. Tries = 3 BY DEF Tries, Attempts
<1>2. hrHook.timeout \in Nat BY Configured DEF RunsInv, RunTypes
<1>3. Grace = 0
  <2>1. ~hrRun.killed BY DEF RunsInv, Scans
  <2> QED BY <2>1 DEF Grace
<1>4. CASE hrHook.map
  <2>1. Bound = 6 * hrHook.timeout + 25 BY <1>4, Bounded DEF RunsInv, RunTypes
  <2>2. Fell = 0 \/ Fell = 3 * hrHook.timeout + 10 BY DEF Fell
  <2> QED BY <1>1, <1>2, <1>3, <2>1, <2>2
<1>5. CASE ~hrHook.map
  <2>1. Bound \in Nat /\ Bound >= 3 * hrHook.timeout + 15 BY <1>1, Bounded DEF RunsInv, RunTypes
  <2>2. Fell = 0 BY <1>5 DEF Fell
  <2> QED BY <1>1, <1>2, <1>3, <2>1, <2>2
<1> QED BY <1>4, <1>5

(* The bound cuts off no scan, and no manifest before it had its tries.    *)
LEMMA NotCutOff ==
  ASSUME RunsInv, CutOff
  PROVE  ~Scans /\ hrHook.retries > IF hrRun.killed THEN 1 ELSE 2
<1>1. Going /\ Overruns /\ hrHook \in Hook BY DEF CutOff, Going, RunsInv, RunTypes
<1>2. hrHook.timeout \in Nat /\ Bound \in Nat /\ hrHook.retries \in Nat BY <1>1, Configured, Bounded
<1>3. CASE Waiting
  <2>1. hrRun.spent \in Nat /\ Wait(hrRun.try) \in Nat
    <3>1. hrRun.spent \in Nat /\ hrRun.try \in Nat BY DEF RunsInv, RunTypes, RunRec
    <3>2. hrRun.try > 0 BY <1>1, <1>3 DEF RunsInv, RunTimed
    <3> QED BY <3>1, <3>2 DEF Wait, Backoff
  <2>2. hrRun.spent + Wait(hrRun.try) > Bound BY <1>1, <1>3 DEF Overruns, Waiting
  <2>3. hrRun.try \in {1, 2} => Wait(hrRun.try) = IF hrRun.try = 1 THEN 2 ELSE 8 BY DEF Wait, Backoff
  <2>4. ASSUME Tries <= 3
        PROVE  hrRun.spent + Wait(hrRun.try) <= Fell + 2 * hrHook.timeout + 10 + Grace
    <3>1. hrRun.try \in {1, 2} BY <1>1, <1>3, <2>4, SpentSoFar
    <3>2. hrRun.spent <= Fell + Times(hrRun.try, hrHook.timeout) + WaitsOf(hrRun.try - 1) + Grace
      BY <1>1, <1>3, <2>4, SpentSoFar
    <3>3. Fell \in Nat /\ Grace \in Nat /\ hrRun.spent \in Nat BY <1>1, <2>4, SpentSoFar
    <3> QED BY <1>2, <2>3, <3>1, <3>2, <3>3 DEF Times, WaitsOf
  <2>5. ~Scans
    <3> SUFFICES ASSUME Scans PROVE FALSE OBVIOUS
    <3>1. Tries = 3 /\ Grace = 0 /\ Fell + 3 * hrHook.timeout + 15 <= Bound BY <1>1, Rounds
    <3>2. Fell \in Nat /\ hrRun.spent \in Nat BY <1>1, <3>1, SpentSoFar
    <3>3. hrRun.spent + Wait(hrRun.try) <= Fell + 2 * hrHook.timeout + 10
      <4>1. hrRun.spent + Wait(hrRun.try) <= Fell + 2 * hrHook.timeout + 10 + Grace BY <2>4, <3>1
      <4> QED BY <1>2, <2>1, <3>1, <3>2, <4>1
    <3> QED BY <1>2, <2>2, <2>1, <3>1, <3>2, <3>3
  <2>6. ASSUME hrHook.retries <= 2, hrHook.retries = 2 => ~hrRun.killed
        PROVE  hrRun.spent + Wait(hrRun.try) <= Bound
    <3>1. Tries = hrHook.retries + 1 /\ Fell = 0 BY <2>5 DEF Tries, Fell
    <3>2. Tries \in {1, 2, 3} BY <1>2, <2>6, <3>1
    <3>3. hrRun.try \in {1, 2} /\ hrRun.try < Tries BY <1>1, <1>3, <3>2, SpentSoFar
    <3>4. /\ hrRun.spent <= Times(hrRun.try, hrHook.timeout) + WaitsOf(hrRun.try - 1) + Grace
          /\ Grace \in Nat /\ hrRun.spent \in Nat
      <4>1. /\ hrRun.spent <= Fell + Times(hrRun.try, hrHook.timeout) + WaitsOf(hrRun.try - 1) + Grace
            /\ Grace \in Nat /\ hrRun.spent \in Nat
        BY <1>1, <1>3, <3>2, SpentSoFar
      <4>2. Times(hrRun.try, hrHook.timeout) \in Nat BY <1>2, <3>3 DEF Times
      <4> QED BY <3>1, <4>1, <4>2
    <3>5. CASE Tries = 2
      <4>1. Bound >= 2 * hrHook.timeout + 15 BY <1>1, <3>5, Bounded
      <4>2. hrRun.try = 1 BY <3>3, <3>5
      <4>3. Grace = 0 \/ Grace = 5 BY <4>2 DEF Grace, Times
      <4>4. hrRun.spent <= hrHook.timeout + 5 BY <1>2, <3>4, <4>2, <4>3 DEF Times, WaitsOf
      <4>5. Wait(hrRun.try) = 2 BY <2>3, <4>2
      <4> QED BY <1>2, <3>4, <4>1, <4>4, <4>5
    <3>6. CASE Tries = 3
      <4>1. Bound >= 3 * hrHook.timeout + 15 BY <1>1, <3>6, Bounded
      <4>2. Grace = 0
        <5>1. hrHook.retries = 2 BY <1>2, <3>1, <3>6
        <5>2. ~hrRun.killed BY <2>6, <5>1
        <5> QED BY <5>2 DEF Grace
      <4>3. hrRun.spent + Wait(hrRun.try) <= 2 * hrHook.timeout + 10
        BY <1>2, <2>3, <3>3, <3>4, <4>2 DEF Times, WaitsOf
      <4> QED BY <1>2, <2>3, <3>3, <3>4, <4>1, <4>3
    <3> QED BY <3>2, <3>3, <3>5, <3>6
  <2>7. Bound \in Nat /\ hrRun.spent + Wait(hrRun.try) > Bound BY <1>2, <2>2
  <2>8. ~(hrHook.retries <= 2 /\ (hrHook.retries = 2 => ~hrRun.killed)) BY <2>6, <2>7, <2>1
  <2>9. CASE hrRun.killed
    <3>1. ~(hrHook.retries <= 1) BY <1>2, <2>8, <2>9
    <3> QED BY <1>2, <2>5, <2>9, <3>1
  <2>10. CASE ~hrRun.killed
    <3>1. ~(hrHook.retries <= 2) BY <1>2, <2>8, <2>10
    <3> QED BY <1>2, <2>5, <2>10, <3>1
  <2> QED BY <2>9, <2>10
<1>4. CASE ~Waiting
  <2>1. PICK e \in Outcomes : \E d \in Spends(e) : hrRun.spent + d > Bound
    BY <1>1, <1>4 DEF Overruns, Waiting
  <2>2. PICK d \in Spends(e) : hrRun.spent + d > Bound BY <2>1
  <2>3. d \in Nat /\ d <= hrHook.timeout + 5 /\ (d > hrHook.timeout => hrHook.kind = "command")
    BY <1>1, Spent
  <2>4. hrRun.spent \in Nat BY DEF RunsInv, RunTypes, RunRec
  <2>5. ~Scans
    <3> SUFFICES ASSUME Scans PROVE FALSE OBVIOUS
    <3>1. Tries = 3 /\ Grace = 0 /\ Fell + 3 * hrHook.timeout + 15 <= Bound BY <1>1, Rounds
    <3>2. hrRun.try \in {0, 1, 2} /\ Fell \in Nat BY <1>1, <3>1, SpentSoFar
    <3>3. hrRun.spent <= Fell + Times(hrRun.try, hrHook.timeout) + WaitsOf(hrRun.try)
      <4>1. hrRun.spent <= Fell + Times(hrRun.try, hrHook.timeout) + WaitsOf(hrRun.try) + Grace
        BY <1>1, <1>4, <3>1, SpentSoFar
      <4>2. Times(hrRun.try, hrHook.timeout) \in Nat /\ WaitsOf(hrRun.try) \in Nat
        BY <1>2, <3>2 DEF Times, WaitsOf
      <4> QED BY <3>1, <3>2, <4>1, <4>2
    <3>4. d <= hrHook.timeout BY <1>2, <2>3 DEF Scans
    <3>5. hrRun.spent <= Fell + 2 * hrHook.timeout + 10 BY <1>2, <2>4, <3>2, <3>3 DEF Times, WaitsOf
    <3> QED BY <1>2, <2>2, <2>3, <2>4, <3>1, <3>2, <3>4, <3>5
  <2>6. ASSUME hrHook.retries <= 2, hrHook.retries = 2 => ~hrRun.killed PROVE FALSE
    <3>1. Tries = hrHook.retries + 1 /\ Fell = 0 BY <2>5 DEF Tries, Fell
    <3>2. Tries \in {1, 2, 3} BY <1>2, <2>6, <3>1
    <3>3. hrRun.try \in {0, 1, 2} /\ hrRun.try < Tries BY <1>1, <3>2, SpentSoFar
    <3>4. /\ hrRun.spent <= Times(hrRun.try, hrHook.timeout) + WaitsOf(hrRun.try) + Grace
          /\ Grace \in Nat
      <4>1. /\ hrRun.spent <= Fell + Times(hrRun.try, hrHook.timeout) + WaitsOf(hrRun.try) + Grace
            /\ Grace \in Nat
        BY <1>1, <1>4, <3>2, SpentSoFar
      <4>2. Times(hrRun.try, hrHook.timeout) \in Nat /\ WaitsOf(hrRun.try) \in Nat
        BY <1>2, <3>3 DEF Times, WaitsOf
      <4> QED BY <3>1, <4>1, <4>2
    <3>5. CASE Tries = 1
      <4>1. Bound >= hrHook.timeout + 15 BY <1>1, <3>5, Bounded
      <4>2. hrRun.try = 0 BY <3>3, <3>5
      <4>3. Grace = 0 BY <4>2 DEF Grace, Times
      <4>4. hrRun.spent = 0 BY <2>4, <3>4, <4>2, <4>3 DEF Times, WaitsOf
      <4> QED BY <1>2, <2>2, <2>3, <4>1, <4>4
    <3>6. CASE Tries = 2
      <4>1. Bound >= 2 * hrHook.timeout + 15 BY <1>1, <3>6, Bounded
      <4>2. hrRun.try \in {0, 1} BY <3>3, <3>6
      <4>3. Grace <= 5 
        <5>1. Grace = 0 \/ Grace = Times(hrRun.try, 5) BY DEF Grace
        <5> QED BY <4>2, <5>1 DEF Times
      <4>4. hrRun.spent <= hrHook.timeout + 7 BY <1>2, <2>4, <3>4, <4>2, <4>3 DEF Times, WaitsOf
      <4> QED BY <1>2, <2>2, <2>3, <2>4, <4>1, <4>4
    <3>7. CASE Tries = 3
      <4>1. Bound >= 3 * hrHook.timeout + 15 BY <1>1, <3>7, Bounded
      <4>2. Grace = 0
        <5>1. hrHook.retries = 2 BY <1>2, <3>1, <3>7
        <5>2. ~hrRun.killed BY <2>6, <5>1
        <5> QED BY <5>2 DEF Grace
      <4>3. hrRun.spent <= 2 * hrHook.timeout + 10
        BY <1>2, <2>4, <3>3, <3>4, <4>2 DEF Times, WaitsOf
      <4> QED BY <1>2, <2>2, <2>3, <2>4, <4>1, <4>3
    <3> QED BY <3>2, <3>5, <3>6, <3>7
  <2>7. CASE hrRun.killed
    <3>1. ~(hrHook.retries <= 1) BY <1>2, <2>6, <2>7
    <3> QED BY <1>2, <2>5, <2>7, <3>1
  <2>8. CASE ~hrRun.killed
    <3>1. ~(hrHook.retries <= 2) BY <1>2, <2>6, <2>8
    <3> QED BY <1>2, <2>5, <2>8, <3>1
  <2> QED BY <2>7, <2>8
<1> QED BY <1>3, <1>4

LEMMA CutOffKeeps == ASSUME RunsInv, CutOff PROVE RunsInv'
<1>1. /\ hrRun' = [hrRun EXCEPT !.phase = "ended", !.spent = Bound, !.error = "cut off"]
      /\ UNCHANGED <<hrHook, hrLast, hrAsked, hrDone>>
  BY DEF CutOff
<1>2. hrRun \in RunRec /\ hrHook \in Hook BY DEF RunsInv, RunTypes
<1>3. Bound \in Nat BY <1>2, Bounded
<1>4. hrRun' \in RunRec
  <2>1. \A s \in Nat : [hrRun EXCEPT !.phase = "ended", !.spent = s, !.error = "cut off"] \in RunRec
    BY <1>2 DEF RunRec
  <2> QED BY <1>1, <1>3, <2>1
<1>5. /\ hrRun'.phase = "ended" /\ hrRun'.error = "cut off" /\ hrRun'.killed = hrRun.killed
      /\ hrRun'.try = hrRun.try /\ hrRun'.spent = Bound
  BY <1>1, <1>2 DEF RunRec
<1>6. RunTypes'
  <2>1. Tries' = Tries /\ Bound' = Bound BY <1>1 DEF Tries, Bound, Scans
  <2>2. hrRun'.try <= Tries' BY <1>5, <2>1 DEF RunsInv, RunTypes
  <2>3. hrRun'.spent <= Bound'
    <3>1. hrRun'.spent = Bound /\ Bound' = Bound BY <1>5, <2>1
    <3> QED BY <1>3, <3>1
  <2>4. /\ hrHook' \in Hook /\ hrDone' \in 0..HrRuns /\ hrLast' \in LastRec
        /\ hrAsked' \subseteq {"global_scan", "media_updated"}
    BY <1>1 DEF RunsInv, RunTypes
  <2>5. hrRun'.error \in Outcomes' \cup {"none", "template", "canceled", "cut off"} BY <1>5
  <2> QED BY <1>4, <2>2, <2>3, <2>4, <2>5 DEF RunTypes
<1>7. HookRunsAreTrue'
  <2>1. ~Scans' BY <1>1, NotCutOff DEF Scans
  <2>2. KeepsItsTries' BY <1>1, <1>5, NotCutOff DEF KeepsItsTries, Scans
  <2> QED BY <2>1, <2>2 DEF HookRunsAreTrue, AsksForAll, TriesTheScan, ShowsTheFailure
<1> QED BY <1>1, <1>5, <1>6, <1>7, EndKeeps DEF RunsInv

(* How an attempt may leave the invocation: asked and done, waiting for    *)
(* the next try, fallen back to the scan, or failed.                       *)
Succeeds(e) == e = "ok" /\ hrRun'.phase = "ended" /\ hrRun'.error = "none" /\ hrRun'.try = hrRun.try + 1
               /\ hrAsked' = hrAsked \cup {Mode} /\ Record(Mode, TRUE)
Again(e) == e # "ok" /\ hrRun.try + 1 < Tries /\ hrRun'.phase = hrRun.phase /\ hrRun'.error = e
            /\ hrRun'.try = hrRun.try + 1 /\ UNCHANGED <<hrAsked, hrLast>>
Falls == hrRun.phase = "notify" /\ hrRun'.phase = "act" /\ hrRun'.error = "none" /\ hrRun'.try = 0
         /\ UNCHANGED <<hrAsked, hrLast>>
GivesUp(e) == e # "ok" /\ hrRun.phase = "act" /\ hrRun'.phase = "ended" /\ hrRun'.error = e /\ hrRun'.try = hrRun.try + 1
            /\ (Retryable(e) => ~(hrRun.try + 1 < Tries)) /\ hrAsked' = hrAsked /\ RecordFailure

(* What an attempt leaves as the error of the invocation.                  *)
Errors == {"ok", "exit", "timeout", "missing", "refused", "busy", "transport", "none"}
LEMMA Attempted ==
  ASSUME RunsInv, NEW e \in Outcomes, NEW d \in Spends(e), Attempt(e, d)
  PROVE  /\ hrRun' \in RunRec /\ hrHook' = hrHook /\ hrDone' = hrDone /\ Going /\ ~Waiting
         /\ hrRun'.spent = hrRun.spent + d /\ hrRun.spent + d <= Bound /\ hrRun'.paths = hrRun.paths
         /\ hrRun'.killed = (hrRun.killed \/ d > hrHook.timeout)
         /\ Succeeds(e) \/ Again(e) \/ Falls \/ GivesUp(e)
<1> DEFINE k == hrRun.killed \/ d > hrHook.timeout
           t == hrRun.try + 1
           s == hrRun.spent + d
           ends(x) == [hrRun EXCEPT !.try = t, !.spent = s, !.killed = k, !.phase = "ended", !.error = x]
           waits == [hrRun EXCEPT !.try = t, !.spent = s, !.killed = k, !.error = e]
           falls == [hrRun EXCEPT !.try = 0, !.spent = s, !.killed = k, !.phase = "act", !.error = "none"]
<1>1. /\ hrRun \in RunRec /\ hrRun.phase \in {"notify", "act"} /\ hrRun.spent + d <= Bound
      /\ hrHook' = hrHook /\ hrDone' = hrDone /\ ~Waiting /\ Going
  BY DEF RunsInv, RunTypes, Attempt, Waiting, Going
<1>2. hrRun.try \in Nat /\ hrRun.spent \in Nat BY <1>1 DEF RunRec
<1>3. d \in Nat BY Spent DEF RunsInv, RunTypes
<1>4. t \in Nat /\ s \in Nat BY <1>2, <1>3
<1>5. k \in BOOLEAN BY Zenon
<1>6. e \in Errors /\ "none" \in Errors BY Known DEF Errors
<1>7. \/ e = "ok" /\ hrRun' = ends("none") /\ hrAsked' = hrAsked \cup {Mode} /\ Record(Mode, TRUE)
      \/ e # "ok" /\ t < Tries /\ hrRun' = waits /\ UNCHANGED <<hrAsked, hrLast>>
      \/ hrRun.phase = "notify" /\ hrRun' = falls /\ UNCHANGED <<hrAsked, hrLast>>
      \/ e # "ok" /\ hrRun.phase = "act" /\ hrRun' = ends(e)
         /\ (Retryable(e) => ~(t < Tries)) /\ hrAsked' = hrAsked /\ RecordFailure
  BY <1>1 DEF Attempt, FallsBack, RunRec
<1> HIDE DEF k, s, t
<1>8. CASE e = "ok" /\ hrRun' = ends("none") /\ hrAsked' = hrAsked \cup {Mode} /\ Record(Mode, TRUE)
  <2>1. hrRun' \in RunRec /\ hrRun'.phase = "ended" /\ hrRun'.error = "none" /\ hrRun'.try = t
        /\ hrRun'.spent = s /\ hrRun'.paths = hrRun.paths /\ hrRun'.killed = k
    BY <1>1, <1>4, <1>5, <1>6, <1>8 DEF RunRec, Errors
  <2> QED BY <1>1, <1>8, <2>1 DEF Succeeds, s, t, k
<1>9. CASE e # "ok" /\ t < Tries /\ hrRun' = waits /\ UNCHANGED <<hrAsked, hrLast>>
  <2>1. hrRun' \in RunRec /\ hrRun'.phase = hrRun.phase /\ hrRun'.error = e /\ hrRun'.try = t
        /\ hrRun'.spent = s /\ hrRun'.paths = hrRun.paths /\ hrRun'.killed = k
    BY <1>1, <1>4, <1>5, <1>6, <1>9 DEF RunRec, Errors
  <2> QED BY <1>1, <1>9, <2>1 DEF Again, s, t, k
<1>10. CASE hrRun.phase = "notify" /\ hrRun' = falls /\ UNCHANGED <<hrAsked, hrLast>>
  <2>1. hrRun' \in RunRec /\ hrRun'.phase = "act" /\ hrRun'.error = "none" /\ hrRun'.try = 0
        /\ hrRun'.spent = s /\ hrRun'.paths = hrRun.paths /\ hrRun'.killed = k
    BY <1>1, <1>4, <1>5, <1>10 DEF RunRec, Errors
  <2> QED BY <1>1, <1>10, <2>1 DEF Falls, s, k
<1>11. CASE e # "ok" /\ hrRun.phase = "act" /\ hrRun' = ends(e)
            /\ (Retryable(e) => ~(t < Tries)) /\ hrAsked' = hrAsked /\ RecordFailure
  <2>1. hrRun' \in RunRec /\ hrRun'.phase = "ended" /\ hrRun'.error = e /\ hrRun'.try = t
        /\ hrRun'.spent = s /\ hrRun'.paths = hrRun.paths /\ hrRun'.killed = k
    BY <1>1, <1>4, <1>5, <1>6, <1>11 DEF RunRec, Errors
  <2> QED BY <1>1, <1>11, <2>1 DEF GivesUp, s, t, k
<1> QED BY <1>7, <1>8, <1>9, <1>10, <1>11

(* What every attempt keeps of the types, whatever came of it.             *)
LEMMA AttemptTyped ==
  ASSUME RunsInv, NEW e \in Outcomes, NEW d \in Spends(e), Attempt(e, d),
         hrRun'.try <= Tries, hrAsked' \subseteq {"global_scan", "media_updated"}, hrLast' \in LastRec,
         hrRun'.error \in Outcomes \cup {"none"}
  PROVE  RunTypes' /\ (hrRun'.killed => hrHook.kind = "command")
<1>1. Tries' = Tries /\ Bound' = Bound /\ Outcomes' = Outcomes
  BY Attempted DEF Tries, Bound, Scans, Outcomes
<1>2. hrRun'.spent <= Bound BY Attempted
<1>3. hrRun' \in RunRec /\ hrHook' \in Hook /\ hrDone' \in 0..HrRuns BY Attempted DEF RunsInv, RunTypes
<1>4. hrRun'.error \in Outcomes' \cup {"none", "template", "canceled", "cut off"} BY <1>1
<1>5. RunTypes' BY <1>1, <1>2, <1>3, <1>4 DEF RunTypes
<1>6. hrRun'.killed => hrHook.kind = "command"
  <2>1. hrRun.killed => hrHook.kind = "command" BY DEF RunsInv
  <2>2. d > hrHook.timeout => hrHook.kind = "command" BY Spent DEF RunsInv, RunTypes
  <2> QED BY <2>1, <2>2, Attempted
<1> QED BY <1>5, <1>6

LEMMA SucceedsKeeps ==
  ASSUME RunsInv, NEW e \in Outcomes, NEW d \in Spends(e), Attempt(e, d), Succeeds(e)
  PROVE  RunsInv'
<1>1. /\ hrRun'.phase = "ended" /\ hrRun'.error = "none" /\ hrRun'.try = hrRun.try + 1
      /\ hrAsked' = hrAsked \cup {Mode} /\ hrLast' = IF Scans THEN [mode |-> Mode, ok |-> TRUE] ELSE hrLast
  BY DEF Succeeds, Record
<1>2. Going /\ hrHook' = hrHook /\ hrRun'.paths = hrRun.paths BY Attempted
<1>3. Mode \in {"global_scan", "media_updated"} BY DEF Mode
<1>4. hrRun'.try <= Tries
  <2>1. hrRun.try \in Nat /\ hrRun.try < Tries /\ Tries \in Nat
    BY <1>2, Configured DEF RunsInv, RunTimed, RunTypes, RunRec
  <2> QED BY <1>1, <2>1
<1>5. hrLast' \in LastRec
  <2>1. [mode |-> Mode, ok |-> TRUE] \in LastRec BY <1>3 DEF LastRec
  <2> QED BY <1>1, <2>1 DEF RunsInv, RunTypes
<1>6. hrAsked' \subseteq {"global_scan", "media_updated"} BY <1>1, <1>3 DEF RunsInv, RunTypes
<1>7. RunTypes' /\ (hrRun'.killed => hrHook.kind = "command") BY <1>1, <1>4, <1>5, <1>6, AttemptTyped
<1>8. HookRunsAreTrue'
  <2>1. AsksForAll'
    <3>1. CASE hrRun.phase = "act" BY <1>1, <3>1 DEF AsksForAll, Mode
    <3>2. CASE hrRun.phase = "notify"
      <4>1. hrRun.paths = {"mapped"} BY <3>2 DEF RunsInv, Targets, Covers
      <4> QED BY <1>1, <1>2, <3>2, <4>1 DEF AsksForAll, Mode
    <3> QED BY <1>2, <3>1, <3>2 DEF Going
  <2>2. TriesTheScan' BY <1>1 DEF TriesTheScan, Retryable
  <2>3. KeepsItsTries' BY <1>1 DEF KeepsItsTries
  <2>4. ShowsTheFailure' BY <1>1 DEF ShowsTheFailure, Outcomes
  <2> QED BY <2>1, <2>2, <2>3, <2>4 DEF HookRunsAreTrue
<1> QED BY <1>1, <1>2, <1>7, <1>8, EndKeeps

(* A scan or a request that fails for good has had its tries.              *)
LEMMA FailsKeeps ==
  ASSUME RunsInv, NEW e \in Outcomes, NEW d \in Spends(e), Attempt(e, d), GivesUp(e)
  PROVE  RunsInv'
<1>1. /\ e # "ok" /\ hrRun.phase = "act" /\ hrRun'.phase = "ended" /\ hrRun'.error = e /\ hrRun'.try = hrRun.try + 1
      /\ (Retryable(e) => ~(hrRun.try + 1 < Tries)) /\ hrAsked' = hrAsked /\ RecordFailure
  BY DEF GivesUp
<1>2. Going /\ hrHook' = hrHook BY Attempted
<1>3. hrRun.try \in Nat /\ hrRun.try < Tries /\ Tries \in Nat
  BY <1>2, Configured DEF RunsInv, RunTimed, RunTypes, RunRec
<1>4. hrRun'.try <= Tries BY <1>1, <1>3
<1>5. hrLast' \in LastRec /\ (Scans => hrLast'.mode = Mode /\ ~hrLast'.ok) BY <1>1, Recorded DEF RunsInv
<1>6. RunTypes' /\ (hrRun'.killed => hrHook.kind = "command")
  BY <1>1, <1>4, <1>5, AttemptTyped DEF RunsInv, RunTypes
<1>7. HookRunsAreTrue'
  <2>1. AsksForAll' BY <1>1, Known DEF AsksForAll
  <2>2. TriesTheScan'
    <3>1. SUFFICES ASSUME Scans, Retryable(e) PROVE hrLast'.mode = "global_scan" /\ hrRun'.try = Attempts
      BY <1>1, <1>2 DEF TriesTheScan, Scans, Retryable
    <3>2. Tries = 3 BY <3>1 DEF Tries, Attempts
    <3>3. hrRun'.try = 3 BY <1>1, <1>3, <3>1, <3>2
    <3> QED BY <1>1, <1>5, <3>1, <3>3 DEF Attempts, Mode
  <2>3. KeepsItsTries' BY <1>1, Known DEF KeepsItsTries
  <2>4. ShowsTheFailure' BY <1>2, <1>5 DEF ShowsTheFailure, Scans
  <2> QED BY <2>1, <2>2, <2>3, <2>4 DEF HookRunsAreTrue
<1> QED BY <1>1, <1>2, <1>6, <1>7, EndKeeps

(* The next try starts from what this one took, its wait still to come.    *)
LEMMA AgainKeeps ==
  ASSUME RunsInv, NEW e \in Outcomes, NEW d \in Spends(e), Attempt(e, d), Again(e)
  PROVE  RunsInv'
<1>1. /\ e # "ok" /\ hrRun.try + 1 < Tries /\ hrRun'.phase = hrRun.phase /\ hrRun'.error = e
      /\ hrRun'.try = hrRun.try + 1 /\ UNCHANGED <<hrAsked, hrLast>>
  BY DEF Again
<1>2. /\ Going /\ ~Waiting /\ hrHook' = hrHook /\ hrRun'.paths = hrRun.paths
      /\ hrRun'.spent = hrRun.spent + d /\ hrRun'.killed = (hrRun.killed \/ d > hrHook.timeout)
  BY Attempted
<1>3. hrRun.try \in Nat /\ Tries \in Nat /\ hrHook.timeout \in Nat /\ hrRun.spent \in Nat
  BY Configured DEF RunsInv, RunTypes, RunRec
<1>4. hrRun'.try <= Tries BY <1>1, <1>3
<1>5. RunTypes' /\ (hrRun'.killed => hrHook.kind = "command")
  BY <1>1, <1>4, AttemptTyped DEF RunsInv, RunTypes
<1>6. hrRun'.phase # "ended" BY <1>1, <1>2 DEF Going
<1>7. HookRunsAreTrue'
  BY <1>6 DEF HookRunsAreTrue, AsksForAll, TriesTheScan, KeepsItsTries, ShowsTheFailure, Ended
<1>8. RunTimed'
  <2>1. Tries' = Tries /\ Outcomes' = Outcomes /\ Fell' = Fell
    BY <1>1, <1>2 DEF Tries, Outcomes, Fell, Scans
  <2>2. Waiting' /\ Slept' = hrRun.try
    <3>1. Waiting' BY <1>1, <2>1 DEF Waiting
    <3> QED BY <1>1, <1>3, <3>1 DEF Slept
  <2>3. ASSUME Tries <= 3
        PROVE  hrRun'.spent <= Fell + Times(hrRun.try + 1, hrHook.timeout) + WaitsOf(hrRun.try) + Grace'
    <3>1. hrRun.try \in {0, 1} BY <1>1, <1>3, <2>3
    <3>2. /\ hrRun.spent <= Fell + Times(hrRun.try, hrHook.timeout) + WaitsOf(hrRun.try) + Grace
          /\ Fell \in Nat /\ Grace \in Nat
      BY <1>2, <2>3, SpentSoFar
    <3>3. d \in Nat /\ d <= hrHook.timeout + 5 BY Spent DEF RunsInv, RunTypes
    <3>4. Grace + d <= Grace' + hrHook.timeout /\ Grace' \in Nat
      <4>1. CASE d > hrHook.timeout
        <5>1. hrRun'.killed BY <1>2, <4>1
        <5>2. Grace' = Times(hrRun.try + 1, 5) BY <1>1, <5>1 DEF Grace
        <5>3. Grace = 0 \/ Grace = Times(hrRun.try, 5) BY DEF Grace
        <5> QED BY <1>3, <3>1, <3>3, <5>2, <5>3 DEF Times
      <4>2. CASE ~(d > hrHook.timeout) /\ hrRun.killed
        <5>1. hrRun'.killed BY <1>2, <4>2
        <5>2. Grace' = Times(hrRun.try + 1, 5) BY <1>1, <5>1 DEF Grace
        <5>3. Grace = Times(hrRun.try, 5) BY <4>2 DEF Grace
        <5> QED BY <1>3, <3>1, <3>3, <4>2, <5>2, <5>3 DEF Times
      <4>3. CASE ~(d > hrHook.timeout) /\ ~hrRun.killed
        <5>1. ~hrRun'.killed BY <1>2, <4>3
        <5>2. Grace' = 0 /\ Grace = 0 BY <4>3, <5>1 DEF Grace
        <5> QED BY <1>3, <3>3, <4>3, <5>2
      <4> QED BY <4>1, <4>2, <4>3
    <3>5. hrRun'.spent = hrRun.spent + d BY <1>2
    <3> QED BY <1>3, <3>1, <3>2, <3>3, <3>4, <3>5 DEF Times, WaitsOf
  <2>4. hrRun'.try < Tries' /\ hrRun'.try > 0 BY <1>1, <1>3, <2>1
  <2> QED BY <1>1, <1>2, <2>1, <2>2, <2>3, <2>4 DEF RunTimed
<1>9. (hrRun.phase = "notify" => Targets(hrRun.paths))' BY <1>1, <1>2 DEF RunsInv, Targets, Scans
<1> QED BY <1>2, <1>5, <1>7, <1>8, <1>9 DEF RunsInv

(* The whole first round is spent when a notification falls back, at most. *)
LEMMA FallsKeeps ==
  ASSUME RunsInv, NEW e \in Outcomes, NEW d \in Spends(e), Attempt(e, d), Falls
  PROVE  RunsInv'
<1>1. /\ hrRun.phase = "notify" /\ hrRun'.phase = "act" /\ hrRun'.error = "none" /\ hrRun'.try = 0
      /\ UNCHANGED <<hrAsked, hrLast>>
  BY DEF Falls
<1>2. /\ Going /\ ~Waiting /\ hrHook' = hrHook
      /\ hrRun'.spent = hrRun.spent + d /\ hrRun'.killed = (hrRun.killed \/ d > hrHook.timeout)
  BY Attempted
<1>3. Scans /\ hrHook.map BY <1>1 DEF RunsInv, Targets
<1>4. hrRun.spent \in Nat /\ hrHook.timeout \in Nat BY Configured DEF RunsInv, RunTypes, RunRec
<1>5. Tries = 3 /\ Grace = 0 /\ Tries' = 3
  BY <1>2, <1>3, Rounds DEF Tries, Scans, Attempts
<1>6. RunTypes' /\ (hrRun'.killed => hrHook.kind = "command")
  <2>1. hrRun'.try <= Tries BY <1>1, <1>5
  <2>2. hrAsked' \subseteq {"global_scan", "media_updated"} /\ hrLast' \in LastRec
    BY <1>1 DEF RunsInv, RunTypes
  <2> QED BY <1>1, <2>1, <2>2, AttemptTyped
<1>7. HookRunsAreTrue'
  BY <1>1 DEF HookRunsAreTrue, AsksForAll, TriesTheScan, KeepsItsTries, ShowsTheFailure, Ended
<1>8. RunTimed'
  <2>1. ~Waiting' BY <1>1 DEF Waiting, Outcomes
  <2>2. ~hrRun'.killed BY <1>3, <1>6 DEF Scans
  <2>3. Slept' = 0 /\ Grace' = 0 BY <1>1, <2>1, <2>2 DEF Slept, Grace
  <2>4. Fell' = 3 * hrHook.timeout + 10 BY <1>1, <1>2, <1>3 DEF Fell, Scans
  <2>5. Fell = 0 BY <1>1 DEF Fell
  <2>6. hrRun.try \in {0, 1, 2} BY <1>2, <1>5, SpentSoFar
  <2>7. hrRun.spent <= Times(hrRun.try, hrHook.timeout) + WaitsOf(hrRun.try)
    <3>1. hrRun.spent <= Fell + Times(hrRun.try, hrHook.timeout) + WaitsOf(hrRun.try) + Grace
      BY <1>2, <1>5, SpentSoFar
    <3> QED BY <1>4, <1>5, <2>5, <2>6, <3>1 DEF Times, WaitsOf
  <2>8. d \in Nat /\ d <= hrHook.timeout
    <3>1. d \in Nat /\ (d > hrHook.timeout => hrHook.kind = "command") BY Spent DEF RunsInv, RunTypes
    <3> QED BY <1>3, <1>4, <3>1 DEF Scans
  <2>9. hrRun'.spent <= 3 * hrHook.timeout + 10
    <3>1. hrRun'.spent = hrRun.spent + d BY <1>2
    <3> QED BY <1>4, <2>6, <2>7, <2>8, <3>1 DEF Times, WaitsOf
  <2>10. hrRun'.spent <= Fell' + Times(hrRun'.try, hrHook'.timeout) + WaitsOf(Slept') + Grace'
    <3>1. hrRun'.spent \in Nat /\ Times(0, hrHook'.timeout) = 0 /\ WaitsOf(0) = 0
      BY <1>2, <1>4, <2>8 DEF Times, WaitsOf
    <3> QED BY <1>1, <1>4, <2>3, <2>4, <2>9, <3>1
  <2>11. hrRun'.try < Tries' BY <1>1, <1>5
  <2> QED BY <2>1, <2>10, <2>11 DEF RunTimed
<1> QED BY <1>1, <1>2, <1>6, <1>7, <1>8 DEF RunsInv

LEMMA RunsKept == RunsInv /\ [HookRunsNext]_hrVars => RunsInv'
<1> SUFFICES ASSUME RunsInv, [HookRunsNext]_hrVars PROVE RunsInv' OBVIOUS
<1>1. ASSUME NEW paths \in SUBSET Path, Start(paths) PROVE RunsInv' BY <1>1, StartKeeps
<1>2. ASSUME NEW e \in Outcomes, NEW d \in Spends(e), Attempt(e, d) PROVE RunsInv'
  BY <1>2, Attempted, SucceedsKeeps, AgainKeeps, FallsKeeps, FailsKeeps
<1>3. CASE RendersNot BY <1>3, RendersNotKeeps
<1>4. CASE Sleep BY <1>4, SleepKeeps
<1>5. CASE CancelRun BY <1>5, CancelRunKeeps
<1>6. CASE CutOff BY <1>6, CutOffKeeps
<1>7. CASE UNCHANGED hrVars
  BY <1>7 DEF hrVars, RunsInv, RunTypes, HookRunsAreTrue, AsksForAll, TriesTheScan, KeepsItsTries,
      ShowsTheFailure, RunTimed,
     Ended, Going, Waiting, Slept, Fell, Grace, Targets, Scans, Tries, Bound, Outcomes
<1> QED BY <1>1, <1>2, <1>3, <1>4, <1>5, <1>6, <1>7 DEF HookRunsNext

(* Whatever the timeouts and the retries: a scan that succeeds was asked   *)
(* for everything, one that fails had its tries and shows it, and the      *)
(* bound around an invocation takes no try away that is promised.          *)
THEOREM InvocationsHold == HookRunsSpec => []HookRunsHold
<1>1. RunsInv => HookRunsHold BY TypesHold DEF RunsInv, HookRunsHold
<1> QED BY <1>1, RunsStart, RunsKept, PTL DEF HookRunsSpec
=============================================================================
