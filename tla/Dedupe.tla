------------------------------- MODULE Dedupe -------------------------------
(***************************************************************************)
(* aulos-queue, the index that keeps a URL from being queued twice: from   *)
(* the key of a URL, and from the key a resolved row has by its media, to  *)
(* the row.  A key stands for what it is computed from together with the   *)
(* selection.  The mode is `active`: a duplicate is reported, not refused. *)
(***************************************************************************)
EXTENDS Integers, Sequences

CONSTANTS
  DdRows,        \* bound: rows minted, numbered in the order of their ord
  DdUrl,         \* the keys of URLs
  DdMedia,       \* the keys of resolved media
  DdSteps        \* bound: rows brought back by a retry, and restarts

ASSUME DdAssumption == DdRows \in Nat /\ DdSteps \in Nat /\ DdUrl \cap DdMedia = {}

DdRow == 1..DdRows
NoRow == 0
Alive == {"resolving", "queued"}

VARIABLES
  ddStatus,    \* the rows: not minted, live, over, a group, gone
  ddUrl,       \* the key of the row's own URL
  ddMedia,     \* its canonical_key once resolved, "none" before
  ddCached,    \* rows in the engine's memory
  ddIndex,     \* the index: the row of each key, or NoRow
  ddSteps,     \* counts what DdSteps bounds
  ddLoose      \* history: live rows that are not, or not for certain, found under their URL

ddVars == <<ddStatus, ddUrl, ddMedia, ddCached, ddIndex, ddSteps, ddLoose>>

DedupeInit ==
  /\ ddStatus = [r \in DdRow |-> "none"] /\ ddUrl = [r \in DdRow |-> "none"]
  /\ ddMedia = [r \in DdRow |-> "none"] /\ ddCached = {} /\ ddIndex = [k \in DdUrl \cup DdMedia |-> NoRow]
  /\ ddSteps = 0 /\ ddLoose = {}

Minted == {r \in DdRow : ddStatus[r] # "none"}
Alives == {r \in DdRow : ddStatus[r] \in Alive}

(* live_duplicate: a row that is over takes no part.                       *)
LiveDuplicate(k) ==
  ddIndex[k] # NoRow /\ ddIndex[k] \in ddCached /\ ddStatus[ddIndex[k]] # "over"

(* drop_dedupe scans the values: a row may own two keys.                   *)
DropBug(r) == [k \in DOMAIN ddIndex |-> IF k = ddMedia[r] THEN NoRow ELSE ddIndex[k]]
Drop(r) == [k \in DOMAIN ddIndex |-> IF ddIndex[k] = r THEN NoRow ELSE ddIndex[k]]

----------------------------------------------------------------------------
(* handle_add: each URL of a batch is looked up in the index as it was     *)
(* before the batch; what is no duplicate is minted, indexed in order.     *)
NewOf(batch) == {j \in DOMAIN batch : ~LiveDuplicate(batch[j])}

(* The new rows come after all minted ones, in the order of the batch.     *)
Rows(new) ==
  {row \in [new -> DdRow \ Minted] :
     /\ \A i, j \in new : i < j => row[i] < row[j]
     /\ \A j \in new, o \in Minted : o < row[j]}

(* The last of the batch that has the key: it is the one the index keeps.  *)
IsLast(batch, j, k) == batch[j] = k /\ \A l \in NewOf(batch) : batch[l] = k => l <= j

Add(batch) ==
  \E row \in Rows(NewOf(batch)) :
  LET new == NewOf(batch)
      Owned(r) == CHOOSE j \in new : row[j] = r
      At(k) == CHOOSE j \in new : IsLast(batch, j, k)
      rows == {row[j] : j \in new}
  IN
  /\ new # {}
  /\ ddStatus' = [r \in DdRow |-> IF r \in rows THEN "resolving" ELSE ddStatus[r]]
  /\ ddUrl' = [r \in DdRow |-> IF r \in rows THEN batch[Owned(r)] ELSE ddUrl[r]]
  /\ ddCached' = ddCached \cup rows
  /\ ddIndex' = [k \in DOMAIN ddIndex |-> IF \E j \in new : batch[j] = k THEN row[At(k)] ELSE ddIndex[k]]
  /\ ddLoose' = ddLoose \cup {row[j] : j \in {i \in new : ~IsLast(batch, i, batch[i])}}
  /\ UNCHANGED <<ddMedia, ddSteps>>

(* resolve_single: the key of the media is added, whoever had it.  The     *)
(* status is a second write, which may fail.                               *)
ResolveSingle(r, m, written) ==
  /\ ddStatus[r] = "resolving"
  /\ ddMedia' = [ddMedia EXCEPT ![r] = m] /\ ddIndex' = [ddIndex EXCEPT ![m] = r]
  /\ ddStatus' = IF written THEN [ddStatus EXCEPT ![r] = "queued"] ELSE ddStatus
  /\ UNCHANGED <<ddUrl, ddCached, ddSteps, ddLoose>>

(* promote: a group is in no index.                                        *)
Promote(r) ==
  /\ ddStatus[r] = "resolving" /\ ddStatus' = [ddStatus EXCEPT ![r] = "group"] /\ ddIndex' = Drop(r)
  /\ ddLoose' = ddLoose \ {r} /\ UNCHANGED <<ddUrl, ddMedia, ddCached, ddSteps>>

(* terminate, by whatever way the row ends.                                *)
Terminate(r) ==
  /\ ddStatus[r] \in Alive /\ ddStatus' = [ddStatus EXCEPT ![r] = "over"] /\ ddIndex' = Drop(r)
  /\ ddLoose' = ddLoose \ {r} /\ UNCHANGED <<ddUrl, ddMedia, ddCached, ddSteps>>

(* mark_done: the row leaves the done window, and forget: it is deleted.   *)
LeavesWindow(r) ==
  /\ ddStatus[r] = "over" /\ r \in ddCached /\ ddCached' = ddCached \ {r} /\ ddIndex' = Drop(r)
  /\ UNCHANGED <<ddStatus, ddUrl, ddMedia, ddSteps, ddLoose>>
ForgetRow(r) ==
  /\ ddStatus[r] \in Alive \cup {"over"} /\ ddStatus' = [ddStatus EXCEPT ![r] = "gone"]
  /\ ddCached' = ddCached \ {r} /\ ddIndex' = Drop(r) /\ ddLoose' = ddLoose \ {r}
  /\ UNCHANGED <<ddUrl, ddMedia, ddSteps>>

(* retry_one: the row is live again, its keys stay out of the index.       *)
RetryOne(r) ==
  /\ ddStatus[r] = "over" /\ ddSteps < DdSteps /\ ddSteps' = ddSteps + 1
  /\ ddStatus' = [ddStatus EXCEPT ![r] = IF ddMedia[r] = "none" THEN "resolving" ELSE "queued"]
  /\ ddCached' = ddCached \cup {r} /\ ddLoose' = ddLoose \cup {r}
  /\ UNCHANGED <<ddUrl, ddMedia, ddIndex>>

(* The boot: absorb indexes the live rows that were resolved, both keys,   *)
(* in the order of ord; the others resolve again without any.              *)
Boot ==
  LET resolved == {r \in Alives : ddMedia[r] # "none"}
      Owners(k) == {r \in resolved : k \in {ddUrl[r], ddMedia[r]}}
      Newest(rs) == CHOOSE r \in rs : \A o \in rs : o <= r
      index == [k \in DOMAIN ddIndex |-> IF Owners(k) = {} THEN NoRow ELSE Newest(Owners(k))]
  IN
  /\ ddSteps < DdSteps /\ ddSteps' = ddSteps + 1
  /\ ddIndex' = index /\ ddCached' = {r \in DdRow : ddStatus[r] \notin {"none", "gone"}}
  /\ ddStatus' = [r \in DdRow |-> IF r \in resolved THEN "queued" ELSE ddStatus[r]]
  /\ ddLoose' = {r \in Alives : index[ddUrl[r]] # r}
  /\ UNCHANGED <<ddUrl, ddMedia>>

DedupeNext ==
  \/ \E u, v \in DdUrl : Add(<<u>>) \/ Add(<<u, v>>)
  \/ \E r \in DdRow : \/ Promote(r) \/ Terminate(r) \/ LeavesWindow(r) \/ ForgetRow(r) \/ RetryOne(r)
                      \/ \E m \in DdMedia, written \in BOOLEAN : ResolveSingle(r, m, written)
  \/ Boot
DedupeSpec == DedupeInit /\ [][DedupeNext]_ddVars

----------------------------------------------------------------------------
DedupeTypeOK ==
  /\ ddStatus \in [DdRow -> Alive \cup {"none", "over", "group", "gone"}]
  /\ ddUrl \in [DdRow -> DdUrl \cup {"none"}] /\ ddMedia \in [DdRow -> DdMedia \cup {"none"}]
  /\ ddCached \subseteq DdRow /\ ddIndex \in [DdUrl \cup DdMedia -> DdRow \cup {NoRow}]
  /\ ddSteps \in 0..DdSteps /\ ddLoose \subseteq DdRow

(* The index holds live rows that are in memory and nothing else, however  *)
(* a row came to be there or to end; and a live row is found under its own *)
(* URL, so that adding it again makes no twin, unless the row was retried, *)
(* was added together with its twin, or had not been resolved at a boot.   *)
DedupeFindsLive ==
  /\ \A k \in DOMAIN ddIndex : ddIndex[k] # NoRow => ddIndex[k] \in Alives \cap ddCached
  /\ \A r \in Alives \ ddLoose : ddIndex[ddUrl[r]] = r
=============================================================================
