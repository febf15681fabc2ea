------------------------------- MODULE Reads -------------------------------
(***************************************************************************)
(* The two reads of the REST API that span several requests.  A client     *)
(* polls the state, with the tag or the cursor of its last answer, while   *)
(* the aggregator publishes frames first and the generation last.  A       *)
(* client pages through the rows of the store while they come, go and      *)
(* change.                                                                 *)
(***************************************************************************)
EXTENDS Naturals, Sequences, FiniteSets, SequencesExt, FiniteSetsExt

CONSTANTS
  RdRing,    \* the frames the hub keeps
  RdChanges, \* bound on the changes the client may have to hear of
  RdBoots,   \* bound on the boots of the server
  RdOrds,    \* bound on the rows ever added
  RdLimit,   \* the biggest page a client asks for
  RdFlips    \* bound on the rows that start or stop to match

ASSUME RdAssumption ==
  /\ RdRing \in Nat /\ RdChanges \in Nat /\ RdFlips \in Nat
  /\ RdBoots \in Nat \ {0} /\ RdLimit \in Nat \ {0} /\ RdOrds \in Nat \ 0..2

VARIABLES
  rdHub,    \* the frames of this boot, from a first number and rows on
  rdPub,    \* the published generation
  rdNow,    \* what is true: the rows, the subscriptions, the health
  rdDue,    \* what the aggregator still has to do: "rows", "health", "generation"
  rdFlush,  \* a flush is under way
  rdPoll,   \* the request being answered
  rdClient, \* what the client holds, and whether it was told nothing changed
  rdIds     \* how many contents there ever were: each has its own number
pollVars == <<rdHub, rdPub, rdNow, rdDue, rdFlush, rdPoll, rdClient, rdIds>>

VARIABLES
  rdRows,  \* the rows of the store in their order: whether the filter selects them
  rdOrd,   \* the last order value given out
  rdList,  \* the listing: its phase, cursor, page size and what it returned
  rdFlips,
  rdStay,  \* history: the rows the filter selected ever since the listing began
  rdEver   \* history: the rows it selected at any time since
pageVars == <<rdRows, rdOrd, rdList, rdFlips, rdStay, rdEver>>
rdVars == <<pollVars, pageVars>>

Head0 == [boot |-> 1, base |-> 0, rows |-> 0, frames |-> <<>>]
NoPoll == [plan |-> "none", seq |-> 0, rows |-> 0, boot |-> 0]

PollsInit ==
  /\ rdHub = Head0 /\ rdPub = [seq |-> 0, rows |-> 0]
  /\ rdNow = [rows |-> 0, subs |-> 0, health |-> 0] /\ rdDue = {} /\ rdFlush = FALSE
  /\ rdPoll = NoPoll /\ rdIds = 0
  /\ \E mode \in {"tag", "cursor"} :
       rdClient = [mode |-> mode, boot |-> 0, seq |-> 0, rows |-> 0, subs |-> 0, health |-> 0, same |-> FALSE]
-----------------------------------------------------------------------------
(* The hub.                                                                *)
HeadSeq == rdHub.base + Len(rdHub.frames)
Floor == IF Len(rdHub.frames) > RdRing THEN HeadSeq - RdRing ELSE rdHub.base
Frame(kind, id) == rdHub' = [rdHub EXCEPT !.frames = Append(@, [kind |-> kind, id |-> id])]
FrameAt(n) == rdHub.frames[n - rdHub.base]

(* The rows as of a number: those of the last frame about rows up to it.   *)
RowFrames(n) == {k \in rdHub.base + 1..n : FrameAt(k).kind = "rows"}
RowsAt(n) == IF RowFrames(n) = {} THEN rdHub.rows ELSE FrameAt(Max(RowFrames(n))).id

NewId == rdIds < RdChanges /\ rdIds' = rdIds + 1
RowsChange ==
  /\ NewId /\ ~rdFlush /\ rdDue' = rdDue \cup {"rows", "generation"} /\ rdNow' = [rdNow EXCEPT !.rows = rdIds']
  /\ UNCHANGED <<rdHub, rdPub, rdFlush, rdPoll, rdClient>>

(* A flush tells the rows first and swaps the generation last.             *)
FlushBegins ==
  /\ ~rdFlush /\ "generation" \in rdDue /\ rdFlush' = TRUE
  /\ UNCHANGED <<rdHub, rdPub, rdNow, rdDue, rdPoll, rdClient, rdIds>>
FlushTells ==
  /\ rdFlush /\ "rows" \in rdDue /\ Frame("rows", rdNow.rows) /\ rdDue' = rdDue \ {"rows"}
  /\ UNCHANGED <<rdPub, rdNow, rdFlush, rdPoll, rdClient, rdIds>>
Republish ==
  /\ rdFlush /\ "rows" \notin rdDue /\ rdFlush' = FALSE /\ rdDue' = rdDue \ {"generation"}
  /\ rdPub' = [seq |-> HeadSeq, rows |-> rdNow.rows]
  /\ UNCHANGED <<rdHub, rdNow, rdPoll, rdClient, rdIds>>

(* What is passed on as it comes: subscriptions by the aggregator, other   *)
(* kinds by request handlers too.  Health is read where it lives, its      *)
(* event comes later, and only it asks for a new generation.               *)
SubsChange ==
  /\ NewId /\ ~rdFlush /\ Frame("subs", rdIds') /\ rdNow' = [rdNow EXCEPT !.subs = rdIds']
  /\ UNCHANGED <<rdPub, rdDue, rdFlush, rdPoll, rdClient>>
OtherFrame ==
  /\ NewId /\ Frame("other", rdIds')
  /\ UNCHANGED <<rdPub, rdNow, rdDue, rdFlush, rdPoll, rdClient>>
HealthMoves ==
  /\ NewId /\ "health" \notin rdDue /\ rdNow' = [rdNow EXCEPT !.health = rdIds'] /\ rdDue' = rdDue \cup {"health"}
  /\ UNCHANGED <<rdHub, rdPub, rdFlush, rdPoll, rdClient>>
HealthDueBug == rdDue \ {"health"}  \* an idle queue keeps its generation
HealthDue == (rdDue \ {"health"}) \cup {"generation"}
OnHealth ==
  /\ ~rdFlush /\ "health" \in rdDue /\ Frame("health", rdNow.health) /\ rdDue' = HealthDue
  /\ UNCHANGED <<rdPub, rdNow, rdFlush, rdPoll, rdClient, rdIds>>

(* Another boot: over the same database, or over an older one, whose       *)
(* numbers begin again.                                                    *)
Reboot(base, rows) ==
  /\ rdHub.boot < RdBoots /\ ~rdFlush /\ rdDue = {} /\ rdPoll = NoPoll
  /\ \/ base = HeadSeq + 1 /\ rows = rdNow.rows
     \/ base = 0 /\ rows = 0
  /\ rdHub' = [boot |-> rdHub.boot + 1, base |-> base, rows |-> rows, frames |-> <<>>]
  /\ rdPub' = [seq |-> base, rows |-> rows] /\ rdNow' = [rdNow EXCEPT !.rows = rows]
  /\ UNCHANGED <<rdDue, rdFlush, rdPoll, rdClient, rdIds>>
-----------------------------------------------------------------------------
(* One request: what the answer will carry is decided first, the tag comes *)
(* from that, and the body may be completed later.                         *)
Snapshot == [plan |-> "snapshot", seq |-> rdPub.seq, rows |-> rdPub.rows, boot |-> rdHub.boot]
ConfirmedBug(boot) == TRUE  \* a cursor of any boot
Confirmed(boot) == boot = rdHub.boot
Resume(since, boot) ==
  IF ~Confirmed(boot) \/ since > HeadSeq \/ since < Floor THEN Snapshot
  ELSE LET told == {n \in RowFrames(HeadSeq) : n > since}
       IN  [plan |-> IF since = HeadSeq THEN "same" ELSE "merged", seq |-> HeadSeq, boot |-> rdHub.boot,
            rows |-> IF told = {} THEN rdClient.rows ELSE FrameAt(Max(told)).id]
TagBug(plan) == <<rdHub.boot, HeadSeq>>  \* the hub is read a second time
Tag(plan) == <<plan.boot, plan.seq>>

Holds == rdClient.boot # 0
Decide ==
  /\ rdPoll = NoPoll
  /\ LET plan == IF Holds /\ rdClient.mode = "cursor" THEN Resume(rdClient.seq, rdClient.boot) ELSE Snapshot
         same == Holds /\ rdClient.mode = "tag" /\ Tag(plan) = <<rdClient.boot, rdClient.seq>>
     IN  IF same \/ plan.plan = "same" THEN rdClient' = [rdClient EXCEPT !.same = TRUE] /\ UNCHANGED rdPoll
         ELSE /\ rdPoll' = [plan EXCEPT !.seq = Tag(plan)[2]]
              /\ rdClient' = [rdClient EXCEPT !.same = FALSE]
  /\ UNCHANGED <<rdHub, rdPub, rdNow, rdDue, rdFlush, rdIds>>

(* The subscriptions and the health are those of the moment; a delta has   *)
(* no place for either.                                                    *)
Answer ==
  /\ rdPoll # NoPoll /\ rdPoll' = NoPoll
  /\ rdClient' = [rdClient EXCEPT !.boot = rdPoll.boot, !.seq = rdPoll.seq, !.rows = rdPoll.rows,
                    !.subs = IF rdPoll.plan = "snapshot" THEN rdNow.subs ELSE @,
                    !.health = IF rdPoll.plan = "snapshot" THEN rdNow.health ELSE @]
  /\ UNCHANGED <<rdHub, rdPub, rdNow, rdDue, rdFlush, rdIds>>

PollsNext ==
  /\ UNCHANGED pageVars
  /\ \/ RowsChange \/ FlushBegins \/ FlushTells \/ Republish \/ SubsChange \/ OtherFrame \/ HealthMoves \/ OnHealth
     \/ \E base \in {0, HeadSeq + 1}, rows \in {0, rdNow.rows} : Reboot(base, rows)
     \/ Decide \/ Answer
-----------------------------------------------------------------------------
NoCursor == 0
PagesInit ==
  /\ rdRows = [o \in 1..3 |-> TRUE] /\ rdOrd = 3 /\ rdFlips = 0 /\ rdStay = {} /\ rdEver = {}
  /\ rdList = [pc |-> "off", after |-> NoCursor, limit |-> 1, got |-> <<>>, total |-> 0]

Selected(rows) == {o \in DOMAIN rows : rows[o]}
Remembers ==
  IF rdList.pc = "off" THEN UNCHANGED <<rdStay, rdEver>>
  ELSE rdStay' = rdStay \cap Selected(rdRows') /\ rdEver' = rdEver \cup Selected(rdRows')
Insert ==
  /\ rdOrd < RdOrds /\ rdOrd' = rdOrd + 1
  /\ \E yes \in BOOLEAN : rdRows' = [o \in DOMAIN rdRows \cup {rdOrd'} |-> IF o = rdOrd' THEN yes ELSE rdRows[o]]
  /\ Remembers /\ UNCHANGED <<rdList, rdFlips>>
DeleteRow(o) ==
  /\ o \in DOMAIN rdRows /\ rdRows' = [p \in DOMAIN rdRows \ {o} |-> rdRows[p]]
  /\ Remembers /\ UNCHANGED <<rdOrd, rdList, rdFlips>>
Flip(o) ==
  /\ o \in DOMAIN rdRows /\ rdFlips < RdFlips /\ rdFlips' = rdFlips + 1
  /\ rdRows' = [rdRows EXCEPT ![o] = ~@] /\ Remembers /\ UNCHANGED <<rdOrd, rdList>>

OpenList(limit) ==
  /\ rdList.pc = "off" /\ rdList' = [rdList EXCEPT !.pc = "count", !.limit = limit]
  /\ rdStay' = Selected(rdRows) /\ rdEver' = Selected(rdRows) /\ UNCHANGED <<rdRows, rdOrd, rdFlips>>

(* The total and the page are two queries, with no transaction around.     *)
Count ==
  /\ rdList.pc = "count" /\ rdList' = [rdList EXCEPT !.pc = "fetch", !.total = Cardinality(Selected(rdRows))]
  /\ UNCHANGED <<rdRows, rdOrd, rdFlips, rdStay, rdEver>>

AfterBug(after) ==  \* as many rows as were read are skipped
  {o \in Selected(rdRows) : Cardinality({p \in Selected(rdRows) : p < o}) >= Len(rdList.got)}
After(after) == {o \in Selected(rdRows) : o > after}
InOrder(rows) == \A i, j \in DOMAIN rows : i < j => rows[i] < rows[j]

(* The first of the rows, in order: as many as the client asked for, or    *)
(* all there are.                                                          *)
PagesOf(S) ==
  {page \in BoundedSeq(S, rdList.limit) :
     /\ InOrder(page)
     /\ \A o \in S \ Range(page) : Len(page) = rdList.limit /\ \A k \in DOMAIN page : page[k] < o}
Fetch ==
  /\ rdList.pc = "fetch"
  /\ \E page \in PagesOf(After(rdList.after)) :
         rdList' = [rdList EXCEPT !.got = @ \o page,
                      !.pc = IF Len(page) >= rdList.limit THEN "count" ELSE "end",
                      !.after = IF page = <<>> THEN @ ELSE Last(page)]
  /\ UNCHANGED <<rdRows, rdOrd, rdFlips, rdStay, rdEver>>

PagesNext ==
  /\ UNCHANGED pollVars
  /\ \/ Insert \/ Count \/ Fetch
     \/ \E o \in 1..RdOrds : DeleteRow(o) \/ Flip(o)
     \/ \E limit \in 1..RdLimit : OpenList(limit)

ReadsInit == PollsInit /\ PagesInit
ReadsNext == PollsNext \/ PagesNext
ReadsSpec == ReadsInit /\ [][ReadsNext]_rdVars
-----------------------------------------------------------------------------
ReadsTypeOK ==
  /\ rdHub.boot \in 1..RdBoots /\ rdIds \in 0..RdChanges /\ rdFlush \in BOOLEAN
  /\ rdDue \subseteq {"rows", "health", "generation"} /\ rdPub.seq \in 0..HeadSeq
  /\ rdPoll.plan \in {"none", "snapshot", "merged"} /\ rdClient.mode \in {"tag", "cursor"}
  /\ rdClient.boot \in 0..rdHub.boot /\ rdClient.same \in BOOLEAN
  /\ DOMAIN rdRows \subseteq 1..RdOrds /\ rdOrd \in 0..RdOrds /\ rdFlips \in 0..RdFlips
  /\ rdList.pc \in {"off", "count", "fetch", "end"} /\ rdList.limit \in 1..RdLimit /\ Range(rdList.got) \subseteq 1..RdOrds

(* A client holds the rows its number stands for.                          *)
HoldsWhatItNames ==
  rdClient.boot = rdHub.boot /\ rdClient.seq >= rdHub.base => rdClient.rows = RowsAt(rdClient.seq)

(* The subscriptions changed after the published generation: nothing makes *)
(* a new one, and the tag stays what it was.                               *)
SubsUntold == \E n \in rdPub.seq + 1..HeadSeq : FrameAt(n).kind = "subs"

(* A client that is told nothing changed, by a server that is done telling,*)
(* holds the rows of now; one that polls by tag also the health of now,    *)
(* and the subscriptions unless they are untold.                           *)
SameMeansSame ==
  rdClient.same /\ rdDue = {} /\ rdClient.boot = rdHub.boot
    /\ rdClient.seq = (IF rdClient.mode = "tag" THEN rdPub.seq ELSE HeadSeq) =>
    /\ rdClient.rows = rdNow.rows
    /\ rdClient.mode = "tag" => rdClient.health = rdNow.health /\ (SubsUntold \/ rdClient.subs = rdNow.subs)

(* A listing that has come to its end returned in order, once each, rows   *)
(* the filter selected, and every row it selected all the time.            *)
ListsAll ==
  /\ InOrder(rdList.got)
  /\ Range(rdList.got) \subseteq rdEver
  /\ rdList.pc = "end" => rdStay \subseteq Range(rdList.got)

(* What several requests tell a client fits together.                      *)
ReadsFit == HoldsWhatItNames /\ SameMeansSame /\ ListsAll

(* What the reads promise, with the types of what they keep.               *)
ReadsHold == ReadsTypeOK /\ ReadsFit
=============================================================================
