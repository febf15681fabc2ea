---------------------------- MODULE ServiceProofs ----------------------------
(***************************************************************************)
(* What TLAPS proves about the services around the engine, for any rows,   *)
(* keys and batches of one or two URLs (the dedupe index), any budgets,    *)
(* windows and pauses (the supervisor of the sidecar), any subscriptions,  *)
(* URLs and number of failures (the subscriptions), any key, cookie jars   *)
(* and saved values (the options), and any lines, files and number of      *)
(* children (a run of the command plugin or of yt-dlp); and the types of   *)
(* the instance that joins them with the hooks and the writer.             *)
(***************************************************************************)
EXTENDS MCServices, HookProofs, StoreProofs, SequenceTheorems

----------------------------------------------------------------------------
(* The strengthening of DedupeFindsLive: a minted row has a URL, and a     *)
(* live row is in memory, so the entry of a key is a duplicate exactly     *)
(* when there is one.                                                      *)
DedupeInv ==
  /\ DedupeTypeOK
  /\ \A r \in Minted : ddUrl[r] \in DdUrl
  /\ Alives \subseteq ddCached
  /\ DedupeFindsLive

LEMMA DedupeStarts == DedupeInit => DedupeInv
BY DdAssumption DEF DedupeInit, DedupeInv, DedupeTypeOK, Minted, Alives, Alive, DedupeFindsLive, DdRow,
    NoRow

(* A row that leaves the index, by whatever operation, leaves every key of *)
(* it and no other row's.                                                  *)
LEMMA Dropped ==
  ASSUME DedupeInv, NEW r \in DdRow
  PROVE  /\ Drop(r) \in [DdUrl \cup DdMedia -> DdRow \cup {NoRow}]
         /\ \A k \in DdUrl \cup DdMedia : Drop(r)[k] # NoRow => Drop(r)[k] = ddIndex[k] /\ ddIndex[k] # r
         /\ \A o \in Alives \ ddLoose : o # r => Drop(r)[ddUrl[o]] = o
<1>1. DOMAIN ddIndex = DdUrl \cup DdMedia BY DEF DedupeInv, DedupeTypeOK
<1>2. \A o \in Alives \ ddLoose : ddUrl[o] \in DdUrl /\ ddIndex[ddUrl[o]] = o
  BY DEF DedupeInv, DedupeFindsLive, Alives, Minted, Alive
<1> QED BY <1>1, <1>2 DEF Drop, DedupeInv, DedupeTypeOK, NoRow

(* The biggest row of some.                                                *)
LEMMA NewestOf ==
  ASSUME NEW rs \in SUBSET DdRow, rs # {}
  PROVE  \E r \in rs : \A o \in rs : o <= r
<1> DEFINE U == {1..(DdRows - r) : r \in rs}
<1>1. \A r \in rs : r \in 1..DdRows BY DEF DdRow
<1>2. \A r \in rs : 1..(DdRows - r) \in SUBSET (1..DdRows) /\ IsFiniteSet(1..(DdRows - r))
  BY <1>1, DdAssumption, FS_Interval
<1>3. U \subseteq FiniteSubsetsOf(1..DdRows) /\ U # {} BY <1>2 DEF FiniteSubsetsOf
<1>4. PICK m \in U : \A y \in U : ~(<<y, m>> \in StrictSubsetOrdering(1..DdRows))
  BY <1>3, WFMin, FS_StrictSubsetOrderingWellFounded
<1>5. PICK r \in rs : m = 1..(DdRows - r) OBVIOUS
<1>6. ASSUME NEW o \in rs, r < o PROVE FALSE
  <2>1. /\ 1..(DdRows - o) \subseteq 1..(DdRows - r)
        /\ DdRows - r \in 1..(DdRows - r) /\ DdRows - r \notin 1..(DdRows - o)
    BY <1>1, <1>6, DdAssumption
  <2>2. <<1..(DdRows - o), m>> \in StrictSubsetOrdering(1..DdRows)
    BY <1>2, <1>5, <2>1 DEF StrictSubsetOrdering
  <2> QED BY <1>4, <2>2
<1> QED BY <1>1, <1>6, DdAssumption

(* What the index says of a key before an add: it has a live row, or none. *)
LEMMA Duplicates ==
  ASSUME DedupeInv, NEW k \in DdUrl \cup DdMedia
  PROVE  LiveDuplicate(k) <=> ddIndex[k] # NoRow
<1>1. DOMAIN ddIndex = DdUrl \cup DdMedia BY DEF DedupeInv, DedupeTypeOK
<1>2. ddIndex[k] # NoRow => ddIndex[k] \in Alives \cap ddCached BY <1>1 DEF DedupeInv, DedupeFindsLive
<1> QED BY <1>2 DEF LiveDuplicate, Alives, Alive

(* Of the new rows with one URL there is a last, which the index keeps;    *)
(* the others are loose.                                                   *)
LEMMA LastOf ==
  ASSUME NEW batch, DOMAIN batch \subseteq {1, 2},
         NEW k, \E j \in NewOf(batch) : batch[j] = k
  PROVE  \E j \in NewOf(batch) : IsLast(batch, j, k)
<1>1. NewOf(batch) \subseteq {1, 2} BY DEF NewOf
<1>2. CASE 2 \in NewOf(batch) /\ batch[2] = k BY <1>1, <1>2 DEF IsLast
<1>3. CASE ~(2 \in NewOf(batch) /\ batch[2] = k) BY <1>1, <1>3 DEF IsLast
<1> QED BY <1>2, <1>3

LEMMA AddKeeps ==
  ASSUME DedupeInv, NEW batch \in Seq(DdUrl), DOMAIN batch \subseteq {1, 2}, Add(batch)
  PROVE  DedupeInv'
<1> DEFINE new == NewOf(batch)
           NewAt(k) == CHOOSE j \in new : IsLast(batch, j, k)
<1>1. PICK row \in Rows(new) :
        LET Owned(r) == CHOOSE j \in new : row[j] = r
            rows == {row[j] : j \in new}
        IN
        /\ ddStatus' = [r \in DdRow |-> IF r \in rows THEN "resolving" ELSE ddStatus[r]]
        /\ ddUrl' = [r \in DdRow |-> IF r \in rows THEN batch[Owned(r)] ELSE ddUrl[r]]
        /\ ddCached' = ddCached \cup rows
        /\ ddIndex' = [k \in DOMAIN ddIndex |-> IF \E j \in new : batch[j] = k THEN row[NewAt(k)] ELSE ddIndex[k]]
        /\ ddLoose' = ddLoose \cup {row[j] : j \in {i \in new : ~IsLast(batch, i, batch[i])}}
        /\ UNCHANGED <<ddMedia, ddSteps>>
  BY DEF Add
<1> DEFINE rows == {row[j] : j \in new}
           Owned(r) == CHOOSE j \in new : row[j] = r
<1>2. /\ row \in [new -> DdRow \ Minted]
      /\ \A i, j \in new : i < j => row[i] < row[j]
  BY <1>1 DEF Rows
<1>3. new \subseteq {1, 2} /\ \A j \in new : batch[j] \in DdUrl /\ ~LiveDuplicate(batch[j])
  BY DEF NewOf
<1>4. \A i, j \in new : row[i] = row[j] => i = j
  <2> SUFFICES ASSUME NEW i \in new, NEW j \in new, row[i] = row[j] PROVE i = j OBVIOUS
  <2>1. row[i] \in Int /\ row[j] \in Int BY <1>2 DEF DdRow
  <2>2. i < j => row[i] < row[j] BY <1>2
  <2>3. j < i => row[j] < row[i] BY <1>2
  <2> QED BY <1>3, <2>1, <2>2, <2>3
<1>5. \A j \in new : Owned(row[j]) = j BY <1>4
<1>6. \A k : (\E j \in new : batch[j] = k) => NewAt(k) \in new /\ IsLast(batch, NewAt(k), k)
  BY LastOf
<1>7. rows \subseteq DdRow \ Minted BY <1>2
<1> HIDE DEF Owned, NewAt
<1>8. \A j \in new : row[j] \in DdRow /\ ddUrl'[row[j]] = batch[j] /\ ddStatus'[row[j]] = "resolving"
  BY <1>1, <1>5, <1>7 DEF Owned
<1>9. \A r \in DdRow \ rows : ddUrl'[r] = ddUrl[r] /\ ddStatus'[r] = ddStatus[r] BY <1>1
<1>10. DOMAIN ddIndex = DdUrl \cup DdMedia BY DEF DedupeInv, DedupeTypeOK
<1>11. \A k \in DdUrl \cup DdMedia :
         \/ (\E j \in new : batch[j] = k) /\ NewAt(k) \in new /\ IsLast(batch, NewAt(k), k) /\ ddIndex'[k] = row[NewAt(k)] /\ ddIndex[k] = NoRow
         \/ ~(\E j \in new : batch[j] = k) /\ ddIndex'[k] = ddIndex[k]
  BY <1>1, <1>3, <1>6, <1>10, Duplicates DEF NewAt
<1>12. DedupeTypeOK'
  <2>1. ddStatus' \in [DdRow -> Alive \cup {"none", "over", "group", "gone"}]
    BY <1>1, <1>7 DEF DedupeInv, DedupeTypeOK, Alive
  <2>2. ddUrl' \in [DdRow -> DdUrl \cup {"none"}]
    <3>1. \A r \in DdRow : ddUrl'[r] \in DdUrl \cup {"none"}
      BY <1>3, <1>8, <1>9 DEF DedupeInv, DedupeTypeOK
    <3> QED BY <1>1, <3>1
  <2>3. ddIndex' \in [DdUrl \cup DdMedia -> DdRow \cup {NoRow}]
    <3>1. \A k \in DdUrl \cup DdMedia : ddIndex'[k] \in DdRow \cup {NoRow}
      BY <1>8, <1>11 DEF DedupeInv, DedupeTypeOK
    <3> QED BY <1>1, <1>10, <3>1
  <2>4. ddLoose' \subseteq DdRow /\ ddCached' \subseteq DdRow BY <1>1, <1>2 DEF DedupeInv, DedupeTypeOK
  <2> QED BY <1>1, <2>1, <2>2, <2>3, <2>4 DEF DedupeInv, DedupeTypeOK
<1>13. \A r \in Minted' : ddUrl'[r] \in DdUrl
  BY <1>3, <1>8, <1>9 DEF Minted, DedupeInv
<1>14. Alives' \subseteq ddCached'
  BY <1>1, <1>9 DEF Alives, DedupeInv
<1>15. DedupeFindsLive'
  <2>1. ASSUME NEW k \in DdUrl \cup DdMedia, ddIndex'[k] # NoRow PROVE ddIndex'[k] \in Alives' \cap ddCached'
    <3>1. CASE \E j \in new : batch[j] = k
      <4>1. PICK j \in new : ddIndex'[k] = row[j] BY <1>11, <3>1
      <4>2. row[j] \in Alives' BY <1>8 DEF Alives, Alive
      <4>3. row[j] \in rows OBVIOUS
      <4>4. row[j] \in ddCached' BY <1>1, <4>3
      <4> QED BY <4>1, <4>2, <4>4
    <3>2. CASE ~\E j \in new : batch[j] = k
      <4>1. ddIndex[k] \in Alives \cap ddCached /\ ddIndex'[k] = ddIndex[k]
        BY <1>10, <1>11, <2>1, <3>2 DEF DedupeInv, DedupeFindsLive
      <4>2. ddIndex[k] \notin rows BY <1>7, <4>1 DEF Alives, Minted, Alive
      <4> QED BY <1>1, <1>9, <4>1, <4>2 DEF Alives
    <3> QED BY <3>1, <3>2
  <2>2. ASSUME NEW r \in Alives' \ ddLoose' PROVE ddIndex'[ddUrl'[r]] = r
    <3>1. CASE r \in rows
      <4>1. PICK j \in new : r = row[j] BY <3>1
      <4>2. IsLast(batch, j, batch[j]) /\ ddUrl'[r] = batch[j] BY <1>1, <1>8, <2>2, <4>1
      <4>3. NewAt(batch[j]) = j BY <1>3, <1>6, <4>2 DEF IsLast
      <4> QED BY <1>3, <1>11, <4>1, <4>2, <4>3
    <3>2. CASE r \notin rows
      <4>1. r \in Alives \ ddLoose /\ ddUrl'[r] = ddUrl[r] BY <1>1, <1>9, <2>2, <3>2 DEF Alives
      <4>2. ddUrl[r] \in DdUrl /\ ddIndex[ddUrl[r]] = r
        BY <4>1 DEF DedupeInv, DedupeFindsLive, Alives, Minted, Alive
      <4>3. r # NoRow BY <4>1 DEF Alives, DdRow, NoRow
      <4> QED BY <1>11, <4>1, <4>2, <4>3
    <3> QED BY <3>1, <3>2
  <2> QED BY <1>1, <1>10, <2>1, <2>2 DEF DedupeFindsLive
<1> QED BY <1>12, <1>13, <1>14, <1>15 DEF DedupeInv

LEMMA ResolveKeeps ==
  ASSUME DedupeInv, NEW r \in DdRow, NEW m \in DdMedia, NEW written \in BOOLEAN, ResolveSingle(r, m, written)
  PROVE  DedupeInv'
<1>1. DOMAIN ddIndex = DdUrl \cup DdMedia /\ r \in Alives
  BY DEF DedupeInv, DedupeTypeOK, ResolveSingle, Alives, Alive
<1>2. DedupeTypeOK'
  BY DEF DedupeInv, DedupeTypeOK, ResolveSingle, Alive
<1>3. Alives' = Alives /\ Minted' = Minted
  BY DEF ResolveSingle, Alives, Minted, Alive, DedupeInv, DedupeTypeOK
<1>4. UNCHANGED <<ddUrl, ddCached, ddLoose>> BY DEF ResolveSingle
<1>5. \A k \in DdUrl \cup DdMedia : ddIndex'[k] = IF k = m THEN r ELSE ddIndex[k]
  BY <1>1 DEF ResolveSingle, DedupeInv, DedupeTypeOK
<1>6. \A k \in DdUrl \cup DdMedia : ddIndex'[k] # NoRow => ddIndex'[k] \in Alives \cap ddCached
  BY <1>1, <1>5 DEF DedupeInv, DedupeFindsLive
<1>7. ASSUME NEW o \in Alives \ ddLoose PROVE ddIndex'[ddUrl[o]] = o
  <2>1. ddUrl[o] \in DdUrl /\ ddIndex[ddUrl[o]] = o
    BY DEF DedupeInv, DedupeFindsLive, Alives, Minted, Alive
  <2>2. ddUrl[o] # m BY <2>1, DdAssumption
  <2> QED BY <1>5, <2>1, <2>2
<1>8. DOMAIN ddIndex' = DdUrl \cup DdMedia BY <1>2 DEF DedupeTypeOK
<1>9. DedupeFindsLive' BY <1>3, <1>4, <1>6, <1>7, <1>8 DEF DedupeFindsLive
<1> QED BY <1>2, <1>3, <1>4, <1>9 DEF DedupeInv

(* A row that stops being live or in memory and leaves the index with it.  *)
LEMMA LeavingKeeps ==
  ASSUME DedupeInv, NEW r \in DdRow, ddIndex' = Drop(r), DedupeTypeOK',
         ddUrl' = ddUrl, \A o \in DdRow \ {r} : ddStatus'[o] = ddStatus[o],
         ddStatus[r] # "none", ddStatus'[r] \notin Alive,
         ddCached \ {r} \subseteq ddCached', ddLoose \ {r} \subseteq ddLoose'
  PROVE  DedupeInv'
<1>1. Alives' = Alives \ {r} /\ Minted' \subseteq Minted BY DEF Alives, Minted
<1>2. DOMAIN ddIndex' = DdUrl \cup DdMedia /\ DOMAIN ddIndex = DdUrl \cup DdMedia
  BY DEF DedupeInv, DedupeTypeOK
<1>3. \A k \in DdUrl \cup DdMedia : ddIndex'[k] # NoRow => ddIndex'[k] \in (Alives \ {r}) \cap (ddCached \ {r})
  BY <1>2, Dropped DEF DedupeInv, DedupeFindsLive
<1>4. \A o \in Alives' \ ddLoose' : ddIndex'[ddUrl'[o]] = o
  BY <1>1, Dropped
<1>5. DedupeFindsLive' BY <1>1, <1>2, <1>3, <1>4 DEF DedupeFindsLive
<1>6. Alives' \subseteq ddCached' BY <1>1 DEF DedupeInv
<1> QED BY <1>1, <1>5, <1>6 DEF DedupeInv

LEMMA RetryKeeps ==
  ASSUME DedupeInv, NEW r \in DdRow, RetryOne(r)
  PROVE  DedupeInv'
<1>1. DedupeTypeOK' BY DdAssumption DEF DedupeInv, DedupeTypeOK, RetryOne, Alive
<1>2. Alives' = Alives \cup {r} /\ Minted' = Minted
  BY DEF RetryOne, Alives, Minted, Alive, DedupeInv, DedupeTypeOK
<1>3. ddCached' = ddCached \cup {r} /\ ddLoose' = ddLoose \cup {r} /\ UNCHANGED <<ddUrl, ddIndex>>
  BY DEF RetryOne
<1>4. DedupeFindsLive' BY <1>2, <1>3 DEF DedupeInv, DedupeFindsLive
<1> QED BY <1>1, <1>2, <1>3, <1>4 DEF DedupeInv

LEMMA BootKeeps ==
  ASSUME DedupeInv, Boot
  PROVE  DedupeInv'
<1> DEFINE resolved == {r \in Alives : ddMedia[r] # "none"}
           Owners(k) == {r \in resolved : k \in {ddUrl[r], ddMedia[r]}}
           Newest(rs) == CHOOSE r \in rs : \A o \in rs : o <= r
           index == [k \in DOMAIN ddIndex |-> IF Owners(k) = {} THEN NoRow ELSE Newest(Owners(k))]
<1>1. /\ ddSteps < DdSteps /\ ddSteps' = ddSteps + 1
      /\ ddIndex' = index /\ ddCached' = {r \in DdRow : ddStatus[r] \notin {"none", "gone"}}
      /\ ddStatus' = [r \in DdRow |-> IF r \in resolved THEN "queued" ELSE ddStatus[r]]
      /\ ddLoose' = {r \in Alives : index[ddUrl[r]] # r}
      /\ UNCHANGED <<ddUrl, ddMedia>>
  BY DEF Boot
<1>2. DOMAIN ddIndex = DdUrl \cup DdMedia BY DEF DedupeInv, DedupeTypeOK
<1>3. ASSUME NEW k \in DdUrl \cup DdMedia PROVE index[k] \in Alives \cup {NoRow}
  <2>1. Owners(k) \in SUBSET DdRow /\ Owners(k) \subseteq Alives BY DEF Alives
  <2> HIDE DEF Owners
  <2>2. Owners(k) # {} => Newest(Owners(k)) \in Owners(k)
    <3>1. Owners(k) # {} => \E r \in Owners(k) : \A o \in Owners(k) : o <= r BY <2>1, NewestOf
    <3> QED BY <3>1
  <2> QED BY <1>2, <2>1, <2>2
<1> HIDE DEF index
<1>4. Alives' = Alives /\ Minted' = Minted BY <1>1 DEF Alives, Minted, Alive
<1>5. Alives' \subseteq ddCached' BY <1>1, <1>4 DEF Alives, Alive
<1>6. DedupeTypeOK'
  <2>1. index \in [DdUrl \cup DdMedia -> DdRow \cup {NoRow}] BY <1>2, <1>3 DEF index, Alives
  <2>2. ddStatus' \in [DdRow -> Alive \cup {"none", "over", "group", "gone"}]
    BY <1>1 DEF DedupeInv, DedupeTypeOK, Alive
  <2>3. ddSteps' \in 0..DdSteps /\ ddLoose' \subseteq DdRow /\ ddCached' \subseteq DdRow
    BY <1>1, DdAssumption DEF DedupeInv, DedupeTypeOK, Alives
  <2> QED BY <1>1, <2>1, <2>2, <2>3 DEF DedupeInv, DedupeTypeOK
<1>7. DedupeFindsLive'
  <2>1. \A k \in DOMAIN ddIndex' : ddIndex'[k] # NoRow => ddIndex'[k] \in Alives' \cap ddCached'
    BY <1>1, <1>2, <1>3, <1>4, <1>5, <1>6 DEF DedupeTypeOK
  <2>2. \A r \in Alives' \ ddLoose' : ddIndex'[ddUrl'[r]] = r BY <1>1, <1>4
  <2> QED BY <2>1, <2>2 DEF DedupeFindsLive
<1> QED BY <1>1, <1>4, <1>5, <1>6, <1>7 DEF DedupeInv

LEMMA DedupeSteps == DedupeInv /\ [DedupeNext]_ddVars => DedupeInv'
<1> SUFFICES ASSUME DedupeInv, [DedupeNext]_ddVars PROVE DedupeInv' OBVIOUS
<1>1. ASSUME NEW u \in DdUrl, NEW v \in DdUrl, Add(<<u>>) \/ Add(<<u, v>>) PROVE DedupeInv'
  <2>1. <<u>> \in Seq(DdUrl) /\ DOMAIN <<u>> \subseteq {1, 2} OBVIOUS
  <2>2. <<u, v>> \in Seq(DdUrl) /\ DOMAIN <<u, v>> \subseteq {1, 2} OBVIOUS
  <2> QED BY <1>1, <2>1, <2>2, AddKeeps
<1>2. ASSUME NEW r \in DdRow, Promote(r) PROVE DedupeInv'
  <2>1. DedupeTypeOK' BY <1>2, Dropped DEF Promote, DedupeInv, DedupeTypeOK, Alive
  <2> QED BY <1>2, <2>1, LeavingKeeps DEF Promote, Alive, DedupeInv, DedupeTypeOK
<1>3. ASSUME NEW r \in DdRow, Terminate(r) PROVE DedupeInv'
  <2>1. DedupeTypeOK' BY <1>3, Dropped DEF Terminate, DedupeInv, DedupeTypeOK, Alive
  <2> QED BY <1>3, <2>1, LeavingKeeps DEF Terminate, Alive, DedupeInv, DedupeTypeOK
<1>4. ASSUME NEW r \in DdRow, LeavesWindow(r) PROVE DedupeInv'
  <2>1. DedupeTypeOK' BY <1>4, Dropped DEF LeavesWindow, DedupeInv, DedupeTypeOK
  <2> QED BY <1>4, <2>1, LeavingKeeps DEF LeavesWindow, Alive, DedupeInv
<1>5. ASSUME NEW r \in DdRow, ForgetRow(r) PROVE DedupeInv'
  <2>1. DedupeTypeOK' BY <1>5, Dropped DEF ForgetRow, DedupeInv, DedupeTypeOK, Alive
  <2> QED BY <1>5, <2>1, LeavingKeeps DEF ForgetRow, Alive, DedupeInv, DedupeTypeOK
<1>6. CASE UNCHANGED ddVars
  BY <1>6 DEF ddVars, DedupeInv, DedupeTypeOK, DedupeFindsLive, Alives, Minted
<1> QED BY <1>1, <1>2, <1>3, <1>4, <1>5, <1>6, RetryKeeps, ResolveKeeps, BootKeeps DEF DedupeNext

LEMMA DedupeInvAlways == DedupeSpec => []DedupeInv
BY DedupeStarts, DedupeSteps, PTL DEF DedupeSpec

(* Every reachable index has the shape its lookups rely on, whatever came  *)
(* before: batches with twins, resolutions that failed half way, retries,  *)
(* rows leaving the memory and restarts.                                   *)
THEOREM IndexTyped == DedupeSpec => []DedupeTypeOK
BY DedupeInvAlways, PTL DEF DedupeInv

(* live_duplicate never sends an add to a row that is over or forgotten,   *)
(* and finds every live row that was neither retried, added beside its     *)
(* twin nor unresolved at a boot.                                          *)
THEOREM IndexFindsLive == DedupeSpec => []DedupeFindsLive
BY DedupeInvAlways, PTL DEF DedupeInv

----------------------------------------------------------------------------
(* The strengthening of PotIsHonest.  A start is followed by a restart     *)
(* that is noted no later than it is forgotten; the supervisor goes on     *)
(* only with room for one more; a child is there while it is watched.      *)
Noticed ==
  \A n \in DOMAIN ptStarts : n < ptRestarts => n + 1 \in DOMAIN ptWindow /\ ptWindow[n + 1] <= ptStarts[n]
HasRoom == ptPhase \notin {"failed", "stopped"} => Cardinality(DOMAIN ptWindow) < PtBudget
NotStarted == ptPhase \in {"spawn", "pause", "unspawned"} => ptRestarts \notin DOMAIN ptStarts
Attended ==
  /\ ptChild = "none" <=> ptPhase \notin {"watch", "kill"}
  /\ ptPhase = "watch" => ptFails < PtProbes
PotInv == PotTypeOK /\ Noticed /\ HasRoom /\ NotStarted /\ Attended /\ PotIsHonest

LEMMA Parameters ==
  /\ PtMax \in Nat /\ PtRestarts \in Nat
  /\ PtProbes \in Nat \ {0} /\ PtWindow \in Nat \ {0} /\ PtHealthy \in Nat \ {0}
BY PtAssumption

LEMMA Budget == PtBudget \in Nat \ {0} /\ 1 \in DOMAIN PtDelays
BY PtAssumption DEF PtBudget

LEMMA Showable ==
  \A status \in {"starting", "up", "degraded", "down", "failed"}, pid \in BOOLEAN :
    Shows(status, pid) \in [status : {"starting", "up", "degraded", "down", "failed"}, pid : BOOLEAN]
BY DEF Shows

LEMMA Pauses ==
  ASSUME NEW n \in DOMAIN PtDelays
  PROVE  PtDelays[n] \in Nat /\ NextStep(n) \in DOMAIN PtDelays
<1>1. DOMAIN PtDelays = 1..Len(PtDelays) /\ Len(PtDelays) \in Nat BY PtAssumption
<1>2. PtDelays[n] \in Nat BY PtAssumption
<1>3. NextStep(n) \in 1..Len(PtDelays) BY <1>1 DEF NextStep
<1> QED BY <1>1, <1>2, <1>3

LEMMA PotStarts == PotInit => PotInv
<1> SUFFICES ASSUME PotInit PROVE PotInv OBVIOUS
<1>1. DOMAIN ptWindow = {} /\ DOMAIN ptStarts = {} BY DEF PotInit
<1>2. Cardinality({}) = 0 BY FS_EmptySet
<1>3. ptWindow = [n \in {} |-> 0] /\ ptStarts = [n \in {} |-> 0] BY DEF PotInit
<1>4. ptWindow \in [{} -> 0..(PtWindow + 1)] /\ ptStarts \in [{} -> 0..PtWindow] BY <1>3
<1>5. ptStep \in DOMAIN PtDelays BY Budget DEF PotInit
<1>6. (ptRestarts = 0 /\ ptFails = 0 /\ ptUptime = 0 /\ ptWait = 0) /\ ptShutdown = FALSE BY DEF PotInit
<1>7. /\ ptRestarts \in 0..PtRestarts /\ ptFails \in 0..PtProbes /\ ptUptime \in 0..PtHealthy
       /\ ptWait \in Nat
  BY <1>6, Parameters
<1>8. ptShutdown \in BOOLEAN BY <1>6
<1>9. ptShown \in [status : {"starting", "up", "degraded", "down", "failed"}, pid : BOOLEAN]
  BY DEF PotInit, Shows
<1>10. PotTypeOK
  <2> HIDE DEF PotInit
  <2>1. ptPhase = "spawn" /\ ptChild = "none" /\ ptAnswers = "none" BY DEF PotInit
  <2> QED BY <1>1, <1>4, <1>5, <1>7, <1>9, <1>8, <2>1 DEF PotTypeOK
<1>11. HasRoom /\ PotIsHonest BY <1>1, <1>2, Budget DEF PotInit, HasRoom, PotIsHonest, Shows
<1>12. Noticed /\ NotStarted BY <1>1 DEF Noticed, NotStarted
<1>13. Attended BY PtAssumption DEF PotInit, Attended
<1> QED BY <1>10, <1>11, <1>12, <1>13 DEF PotInv

(* What is counted is finite.                                              *)
LEMMA AgesFinite ==
  ASSUME PotTypeOK
  PROVE  /\ IsFiniteSet(DOMAIN ptWindow) /\ Cardinality(DOMAIN ptWindow) \in Nat
         /\ IsFiniteSet(DOMAIN ptStarts) /\ Cardinality(DOMAIN ptStarts) \in Nat
<1>1. ptRestarts \in Int BY DEF PotTypeOK
<1>2. IsFiniteSet(1..ptRestarts) /\ IsFiniteSet(0..ptRestarts) BY <1>1, FS_Interval
<1>3. DOMAIN ptWindow \in SUBSET (1..ptRestarts) /\ DOMAIN ptStarts \in SUBSET (0..ptRestarts)
  BY DEF PotTypeOK
<1>4. IsFiniteSet(DOMAIN ptWindow) /\ IsFiniteSet(DOMAIN ptStarts) BY <1>2, <1>3, FS_Subset
<1> QED BY <1>4, FS_CardinalityType

(* A child that is started fits into the budget: every start before it is  *)
(* injected into the restarts of the window, of which there are fewer.     *)
LEMMA RoomForOne ==
  ASSUME PotInv, ptPhase = "spawn"
  PROVE  Cardinality(DOMAIN ptStarts \cup {ptRestarts}) <= PtBudget
<1> DEFINE next == [n \in DOMAIN ptStarts |-> n + 1]
<1>1. \A n \in DOMAIN ptStarts : n \in Int /\ n < ptRestarts BY DEF PotInv, PotTypeOK, NotStarted
<1>2. \A n \in DOMAIN ptStarts : n + 1 \in DOMAIN ptWindow BY <1>1 DEF PotInv, Noticed
<1>3. /\ next \in [DOMAIN ptStarts -> DOMAIN ptWindow]
      /\ \A m, n \in DOMAIN ptStarts : m # n => next[m] # next[n]
  BY <1>1, <1>2
<1> HIDE DEF next
<1>4. Cardinality(DOMAIN ptStarts) <= Cardinality(DOMAIN ptWindow)
  <2>1. ~(Cardinality(DOMAIN ptWindow) < Cardinality(DOMAIN ptStarts))
    BY <1>3, AgesFinite, FS_PigeonHole DEF PotInv
  <2> QED BY <2>1, AgesFinite DEF PotInv
<1>5. Cardinality(DOMAIN ptWindow) < PtBudget BY DEF PotInv, HasRoom
<1>6. IsFiniteSet(DOMAIN ptStarts) /\ Cardinality(DOMAIN ptStarts) \in Nat BY AgesFinite DEF PotInv
<1>7. Cardinality(DOMAIN ptStarts \cup {ptRestarts}) =
         IF ptRestarts \in DOMAIN ptStarts THEN Cardinality(DOMAIN ptStarts) ELSE Cardinality(DOMAIN ptStarts) + 1
  BY <1>6, FS_AddElement
<1>8. Cardinality(DOMAIN ptStarts \cup {ptRestarts}) <= Cardinality(DOMAIN ptStarts) + 1
  BY <1>6, <1>7
<1>9. IsFiniteSet(DOMAIN ptStarts \cup {ptRestarts}) BY AgesFinite, FS_AddElement DEF PotInv
<1>10. Cardinality(DOMAIN ptStarts \cup {ptRestarts}) \in Nat BY <1>9, FS_CardinalityType
<1> QED BY <1>4, <1>5, <1>8, <1>10, AgesFinite, Budget DEF PotInv

(* A restart is noted beside the ones still in the window: what was noted  *)
(* after a start that is remembered stays, and the start before this       *)
(* restart has it behind itself too.                                       *)
LEMMA RestartNoted ==
  ASSUME PotInv, NEW next, NEW shown, Restarts(next, shown), UNCHANGED ptStarts,
         next \in {"spawn", "pause"}
  PROVE  /\ ptWindow' \in [DOMAIN ptWindow' -> 0..(PtWindow + 1)] /\ DOMAIN ptWindow' \subseteq 1..ptRestarts'
         /\ ptRestarts' \in 0..PtRestarts
         /\ ptPhase' \in {next, "failed"} /\ ptShown' \in {shown, Shows("failed", FALSE)}
         /\ Noticed' /\ HasRoom' /\ NotStarted'
         /\ ptStarts' \in [DOMAIN ptStarts' -> 0..PtWindow] /\ DOMAIN ptStarts' \subseteq 0..ptRestarts'
<1> DEFINE ages == InWindow(Noted(ptWindow, ptRestarts + 1))
<1>1. /\ ptRestarts < PtRestarts /\ ptRestarts' = ptRestarts + 1 /\ ptWindow' = ages
      /\ ptPhase' = IF Exhausted(ages) THEN "failed" ELSE next
      /\ ptShown' = IF Exhausted(ages) THEN Shows("failed", FALSE) ELSE shown
  BY DEF Restarts
<1>2. /\ ptRestarts \in 0..PtRestarts /\ DOMAIN ptWindow \subseteq 1..ptRestarts
      /\ \A n \in DOMAIN ptWindow : ptWindow[n] \in 0..(PtWindow + 1)
      /\ DOMAIN ptStarts \subseteq 0..ptRestarts /\ \A n \in DOMAIN ptStarts : ptStarts[n] \in 0..PtWindow
      /\ ptStarts \in [DOMAIN ptStarts -> 0..PtWindow]
  BY DEF PotInv, PotTypeOK
<1>3. /\ DOMAIN ages \subseteq DOMAIN ptWindow \cup {ptRestarts + 1}
      /\ \A n \in DOMAIN ages : ages[n] = IF n = ptRestarts + 1 THEN 0 ELSE ptWindow[n]
      /\ \A n \in DOMAIN ptWindow : ptWindow[n] <= PtWindow /\ n # ptRestarts + 1 => n \in DOMAIN ages
      /\ ptRestarts + 1 \in DOMAIN ages
      /\ ages = [n \in DOMAIN ages |-> ages[n]]
  BY Parameters DEF InWindow, Noted
<1> HIDE DEF ages
<1>4. DOMAIN ages \subseteq 1..(ptRestarts + 1) /\ \A n \in DOMAIN ages : ages[n] \in 0..(PtWindow + 1)
  BY <1>2, <1>3, Parameters
<1>5. ages \in [DOMAIN ages -> 0..(PtWindow + 1)] BY <1>3, <1>4
<1>6. Noticed'
  <2> SUFFICES ASSUME NEW n \in DOMAIN ptStarts, n < ptRestarts + 1
               PROVE  n + 1 \in DOMAIN ages /\ ages[n + 1] <= ptStarts[n]
    BY <1>1 DEF Noticed
  <2>1. CASE n < ptRestarts
    <3>1. n + 1 \in DOMAIN ptWindow /\ ptWindow[n + 1] <= ptStarts[n] BY <2>1 DEF PotInv, Noticed
    <3>2. n \in Int /\ ptWindow[n + 1] <= PtWindow /\ n + 1 # ptRestarts + 1
      BY <1>2, <2>1, <3>1, Parameters
    <3> QED BY <1>3, <3>1, <3>2
  <2>2. CASE n = ptRestarts BY <1>2, <1>3, <2>2
  <2> QED BY <1>2, <2>1, <2>2
<1>7. HasRoom'
  <2>1. IsFiniteSet(DOMAIN ages)
    <3>1. ptRestarts + 1 \in Int /\ 1 \in Int BY <1>2
    <3>2. IsFiniteSet(1..(ptRestarts + 1)) BY <3>1, FS_Interval
    <3> QED BY <1>4, <3>2, FS_Subset
  <2>2. Cardinality(DOMAIN ages) \in Nat BY <2>1, FS_CardinalityType
  <2>3. ~Exhausted(ages) => Cardinality(DOMAIN ages) < PtBudget BY <2>2, Budget DEF Exhausted
  <2> QED BY <1>1, <2>3 DEF HasRoom, PtBudget
<1>8. NotStarted' BY <1>1, <1>2 DEF NotStarted
<1>9. /\ ptRestarts' \in 0..PtRestarts /\ DOMAIN ptStarts' \subseteq 0..ptRestarts'
      /\ ptStarts' \in [DOMAIN ptStarts' -> 0..PtWindow]
  BY <1>1, <1>2, Parameters
<1> QED BY <1>1, <1>4, <1>5, <1>6, <1>7, <1>8, <1>9

(* What stays when neither a start nor a restart is counted or ages.       *)
LEMMA CountsStay ==
  ASSUME PotInv, UNCHANGED <<ptWindow, ptRestarts, ptStarts>>,
         ptPhase' \in {"spawn", "pause", "unspawned"} => ptPhase \in {"spawn", "pause", "unspawned"},
         ptPhase \in {"failed", "stopped"} => ptPhase' \in {"failed", "stopped"}
  PROVE  /\ Noticed' /\ HasRoom' /\ NotStarted'
         /\ ptWindow' \in [DOMAIN ptWindow' -> 0..(PtWindow + 1)] /\ DOMAIN ptWindow' \subseteq 1..ptRestarts'
         /\ ptRestarts' \in 0..PtRestarts
         /\ ptStarts' \in [DOMAIN ptStarts' -> 0..PtWindow] /\ DOMAIN ptStarts' \subseteq 0..ptRestarts'
         /\ Cardinality(DOMAIN ptStarts') <= PtBudget
BY DEF PotInv, PotTypeOK, PotIsHonest, Noticed, HasRoom, NotStarted, PtBudget

LEMMA SpawnKeeps ==
  ASSUME PotInv, NEW ok \in BOOLEAN, Spawn(ok)
  PROVE  PotInv'
<1>1. CASE ~ok
  <2>1. /\ ptPhase = "spawn" /\ ptPhase' = "unspawned" /\ ptShown' = Shows("down", FALSE)
        /\ ptWait' = PtDelays[ptStep]
        /\ UNCHANGED <<ptChild, ptFails, ptAnswers, ptUptime, ptStarts, ptStep, ptWindow, ptRestarts, ptShutdown>>
    BY <1>1 DEF Spawn, ptProbe
  <2>2. PtDelays[ptStep] \in Nat BY PtAssumption DEF PotInv, PotTypeOK
  <2>3. PotTypeOK' BY <2>1, <2>2, CountsStay DEF PotInv, PotTypeOK, Shows
  <2>4. PotIsHonest' BY <2>1, CountsStay DEF PotInv, PotIsHonest, Attended, Shows
  <2>5. Attended' BY <2>1 DEF PotInv, Attended
  <2> QED BY <2>1, <2>3, <2>4, <2>5, CountsStay DEF PotInv
<1>2. CASE ok
  <2>1. /\ ptPhase = "spawn" /\ ptPhase' = "watch" /\ ptChild' = "alive" /\ ptShown' = Shows("starting", TRUE)
        /\ ptFails' = 0 /\ ptAnswers' = "none" /\ ptUptime' = 0 /\ ptStarts' = Noted(ptStarts, ptRestarts)
        /\ UNCHANGED <<ptWait, ptStep, ptWindow, ptRestarts, ptShutdown>>
    BY <1>2 DEF Spawn
  <2>2. /\ DOMAIN ptStarts' = DOMAIN ptStarts \cup {ptRestarts}
        /\ ptStarts'[ptRestarts] = 0
        /\ \A n \in DOMAIN ptStarts \ {ptRestarts} : ptStarts'[n] = ptStarts[n]
        /\ ptStarts' = [n \in DOMAIN ptStarts' |-> ptStarts'[n]]
    BY <2>1 DEF Noted
  <2>3. ptStarts' \in [DOMAIN ptStarts' -> 0..PtWindow] /\ DOMAIN ptStarts' \subseteq 0..ptRestarts
    <3>1. ptRestarts \in Nat /\ DOMAIN ptStarts \subseteq 0..ptRestarts
          /\ \A n \in DOMAIN ptStarts : ptStarts[n] \in 0..PtWindow
      BY DEF PotInv, PotTypeOK
    <3>2. \A n \in DOMAIN ptStarts' : ptStarts'[n] \in 0..PtWindow BY <2>2, <3>1, Parameters
    <3> QED BY <2>2, <3>1, <3>2
  <2>4. PotTypeOK' BY <2>1, <2>3, Parameters DEF PotInv, PotTypeOK, Shows
  <2>5. Noticed'
    <3>1. \A n \in DOMAIN ptStarts : n < ptRestarts => n \in DOMAIN ptStarts \ {ptRestarts}
      BY DEF PotInv, PotTypeOK
    <3>2. ptRestarts \in Nat BY DEF PotInv, PotTypeOK
    <3> QED BY <2>1, <2>2, <3>1, <3>2 DEF PotInv, Noticed
  <2>6. HasRoom' /\ NotStarted' BY <2>1 DEF PotInv, HasRoom, NotStarted, PtBudget
  <2>7. Attended' BY <2>1, Parameters DEF Attended
  <2>8. PotIsHonest' BY <2>1, <2>2, RoomForOne DEF PotIsHonest, Shows, PtBudget
  <2> QED BY <2>4, <2>5, <2>6, <2>7, <2>8 DEF PotInv
<1> QED BY <1>1, <1>2

LEMMA SpawnAgainKeeps ==
  ASSUME PotInv, SpawnAgain
  PROVE  PotInv'
<1>1. /\ ptPhase = "unspawned" /\ ptStep' = NextStep(ptStep) /\ Restarts("spawn", ptShown)
      /\ UNCHANGED <<ptChild, ptFails, ptAnswers, ptUptime, ptWait, ptShutdown, ptStarts>>
  BY DEF SpawnAgain, ptProbe
<1>2. ptStep' \in DOMAIN PtDelays BY <1>1, PtAssumption DEF PotInv, PotTypeOK, NextStep
<1>3. ptPhase' \in {"spawn", "failed"} /\ ptShown' \in {ptShown, Shows("failed", FALSE)}
  BY <1>1, RestartNoted
<1>4. PotTypeOK'
  <2>1. ptShown' \in [status : {"starting", "up", "degraded", "down", "failed"}, pid : BOOLEAN]
    <3>1. ptShown \in [status : {"starting", "up", "degraded", "down", "failed"}, pid : BOOLEAN]
      BY DEF PotInv, PotTypeOK
    <3> QED BY <1>3, <3>1, Showable, Zenon
  <2>2. ptShutdown' \in BOOLEAN /\ ptFails' \in 0..PtProbes /\ ptUptime' \in 0..PtHealthy /\ ptWait' \in Nat
    BY <1>1 DEF PotInv, PotTypeOK
  <2>3. ptPhase' \in {"spawn", "pause", "failed"} /\ ptChild' \in {"none", "alive", "dead"} /\ ptAnswers' \in {"none", "ok", "bad"}
    BY <1>1, <1>3 DEF PotInv, PotTypeOK
  <2> QED BY <1>1, <1>2, <2>1, <2>2, <2>3, RestartNoted DEF PotTypeOK
<1>5. Attended' BY <1>1, <1>3 DEF PotInv, Attended
<1>6. PotIsHonest' BY <1>1, <1>3 DEF PotInv, PotIsHonest, Attended, Shows, PtBudget
<1> QED BY <1>1, <1>4, <1>5, <1>6, RestartNoted DEF PotInv

LEMMA ReapedKeeps ==
  ASSUME PotInv, ChildReaped
  PROVE  PotInv'
<1> DEFINE n == IF ptUptime >= PtHealthy THEN 1 ELSE ptStep
<1>1. /\ ptPhase \in {"watch", "kill"} /\ ptChild' = "none"
      /\ Restarts("pause", Shows("down", FALSE))
      /\ ptWait' = IF ptPhase' = "failed" THEN 0 ELSE PtDelays[n]
      /\ ptStep' = IF ptPhase' = "failed" THEN n ELSE NextStep(n)
      /\ UNCHANGED <<ptFails, ptAnswers, ptUptime, ptShutdown, ptStarts>>
  BY DEF ChildReaped, ptProbe
<1>2. n \in DOMAIN PtDelays BY Budget DEF PotInv, PotTypeOK
<1> HIDE DEF n
<1>3. ptWait' \in Nat /\ ptStep' \in DOMAIN PtDelays
  <2>1. PtDelays[n] \in Nat /\ NextStep(n) \in DOMAIN PtDelays BY <1>2, Pauses
  <2> QED BY <1>1, <1>2, <2>1
<1>4. ptPhase' \in {"pause", "failed"} /\ ptShown' \in {Shows("down", FALSE), Shows("failed", FALSE)}
  BY <1>1, RestartNoted
<1>5. PotTypeOK'
  <2>1. ptShown' \in [status : {"starting", "up", "degraded", "down", "failed"}, pid : BOOLEAN]
    <3>1. ptShown \in [status : {"starting", "up", "degraded", "down", "failed"}, pid : BOOLEAN]
      BY DEF PotInv, PotTypeOK
    <3> QED BY <1>4, <3>1, Showable, Zenon
  <2>2. ptShutdown' \in BOOLEAN /\ ptFails' \in 0..PtProbes /\ ptUptime' \in 0..PtHealthy /\ ptWait' \in Nat
    BY <1>1, <1>3 DEF PotInv, PotTypeOK
  <2>3. ptPhase' \in {"spawn", "pause", "failed"} /\ ptChild' \in {"none", "alive", "dead"} /\ ptAnswers' \in {"none", "ok", "bad"}
    BY <1>1, <1>4 DEF PotInv, PotTypeOK
  <2> QED BY <1>1, <1>3, <2>1, <2>2, <2>3, RestartNoted DEF PotTypeOK
<1>6. Attended' BY <1>1, <1>4 DEF Attended
<1>7. PotIsHonest' BY <1>1, <1>4 DEF PotInv, PotIsHonest, Shows, PtBudget
<1> QED BY <1>1, <1>5, <1>6, <1>7, RestartNoted DEF PotInv

(* The steps that count nothing.                                           *)
LEMMA ProbeKeeps ==
  ASSUME PotInv, NEW ok \in BOOLEAN, Probe(ok)
  PROVE  PotInv'
<1>1. /\ ptPhase = "watch"
      /\ UNCHANGED <<ptChild, ptUptime, ptStep, ptWait, ptWindow, ptRestarts, ptShutdown, ptStarts>>
  BY DEF Probe, ptBackoff
<1>2. /\ ptFails' = IF ok THEN 0 ELSE ptFails + 1
      /\ ptPhase' = IF ptFails' >= PtProbes THEN "kill" ELSE "watch"
  BY DEF Probe
<1>3. /\ ptAnswers' = IF ok THEN "ok" ELSE "bad"
      /\ ptShown' = Shows(IF ok THEN "up" ELSE "degraded", TRUE)
  BY DEF Probe
<1>4. ptFails \in Nat /\ ptFails < PtProbes /\ ptChild # "none" BY <1>1 DEF PotInv, PotTypeOK, Attended
<1>5. ptFails' \in 0..PtProbes /\ ptPhase' \in {"watch", "kill"} /\ (ptPhase' = "watch" => ptFails' < PtProbes)
  BY <1>2, <1>4, Parameters
<1>6. PotTypeOK' BY <1>1, <1>3, <1>5, CountsStay DEF PotInv, PotTypeOK, Shows
<1>7. Attended' BY <1>1, <1>4, <1>5 DEF Attended
<1>8. PotIsHonest' BY <1>1, <1>3, <1>4, CountsStay, <1>5 DEF PotIsHonest, Shows, PtBudget
<1> QED BY <1>1, <1>5, <1>6, <1>7, <1>8, CountsStay DEF PotInv

LEMMA OthersKeep ==
  ASSUME PotInv, ChildExits \/ PauseOver \/ Shutdown \/ PotStops
  PROVE  PotInv'
<1>1. CASE ChildExits
  <2>1. /\ ptChild = "alive" /\ ptChild' = "dead"
        /\ UNCHANGED <<ptPhase, ptFails, ptAnswers, ptUptime, ptStep, ptWait, ptWindow, ptRestarts, ptShutdown, ptShown, ptStarts>>
    BY <1>1 DEF ChildExits, ptProbe, ptBackoff
  <2>2. PotTypeOK' BY <2>1, CountsStay DEF PotInv, PotTypeOK
  <2>3. Attended' /\ PotIsHonest' BY <2>1, CountsStay DEF PotInv, Attended, PotIsHonest, PtBudget
  <2> QED BY <2>1, <2>2, <2>3, CountsStay DEF PotInv
<1>2. CASE PauseOver
  <2>1. /\ ptPhase = "pause" /\ ptPhase' = "spawn"
        /\ UNCHANGED <<ptChild, ptFails, ptAnswers, ptUptime, ptStep, ptWait, ptWindow, ptRestarts, ptShutdown, ptShown, ptStarts>>
    BY <1>2 DEF PauseOver, ptProbe, ptBackoff
  <2>2. PotTypeOK' BY <2>1, CountsStay DEF PotInv, PotTypeOK
  <2>3. Attended' /\ PotIsHonest' BY <2>1, CountsStay DEF PotInv, Attended, PotIsHonest, PtBudget
  <2> QED BY <2>1, <2>2, <2>3, CountsStay DEF PotInv
<1>3. CASE Shutdown
  <2>1. UNCHANGED <<ptPhase, ptChild, ptFails, ptAnswers, ptUptime, ptStep, ptWait, ptWindow, ptRestarts, ptShown, ptStarts>>
    BY <1>3 DEF Shutdown, ptProbe, ptBackoff
  <2>2. ptShutdown' \in BOOLEAN BY <1>3 DEF Shutdown
  <2>3. PotTypeOK' BY <2>1, <2>2, CountsStay DEF PotInv, PotTypeOK
  <2>4. Attended' /\ PotIsHonest' BY <2>1, CountsStay DEF PotInv, Attended, PotIsHonest, PtBudget
  <2> QED BY <2>1, <2>3, <2>4, CountsStay DEF PotInv
<1>4. CASE PotStops
  <2>1. /\ ptPhase \in {"spawn", "watch", "pause", "unspawned"} /\ ptPhase' = "stopped" /\ ptChild' = "none"
        /\ ptShown' = IF ptPhase \in {"spawn", "watch"} THEN Shows("down", FALSE) ELSE ptShown
        /\ UNCHANGED <<ptFails, ptAnswers, ptUptime, ptStep, ptWait, ptWindow, ptRestarts, ptShutdown, ptStarts>>
    BY <1>4 DEF PotStops, ptProbe, ptBackoff
  <2>2. PotTypeOK' BY <2>1, CountsStay DEF PotInv, PotTypeOK, Shows
  <2>3. Attended' /\ PotIsHonest' BY <2>1, CountsStay DEF PotInv, Attended, PotIsHonest, PtBudget, Shows
  <2> QED BY <2>1, <2>2, <2>3, CountsStay DEF PotInv
<1> QED BY <1>1, <1>2, <1>3, <1>4

(* A tick: what is remembered gets older by one tick, a start and the      *)
(* restart behind it together, until the start is too old.                 *)
LEMMA TickKeeps ==
  ASSUME PotInv, PotTick
  PROVE  PotInv'
<1>1. /\ ptPhase \in {"watch", "pause", "unspawned"} /\ (ptPhase # "watch" => ptWait > 0)
      /\ ptWait' = IF ptPhase = "watch" THEN ptWait ELSE ptWait - 1
      /\ ptUptime' = IF ptPhase = "watch" /\ ptUptime < PtHealthy THEN ptUptime + 1 ELSE ptUptime
      /\ ptWindow' = Older(ptWindow) /\ ptStarts' = InWindow(Older(ptStarts))
  BY DEF PotTick
<1>2. UNCHANGED <<ptPhase, ptChild, ptFails, ptAnswers, ptStep, ptRestarts, ptShutdown, ptShown>>
  BY DEF PotTick, ptProbe
<1>3. /\ ptRestarts \in Nat /\ ptWait \in Nat /\ ptUptime \in 0..PtHealthy
      /\ DOMAIN ptWindow \subseteq 1..ptRestarts /\ DOMAIN ptStarts \subseteq 0..ptRestarts
      /\ \A n \in DOMAIN ptWindow : ptWindow[n] \in 0..(PtWindow + 1)
      /\ \A n \in DOMAIN ptStarts : ptStarts[n] \in 0..PtWindow
  BY DEF PotInv, PotTypeOK
<1>4. /\ DOMAIN ptWindow' = DOMAIN ptWindow
      /\ \A n \in DOMAIN ptWindow : ptWindow'[n] = IF ptWindow[n] <= PtWindow THEN ptWindow[n] + 1 ELSE ptWindow[n]
      /\ ptWindow' = [n \in DOMAIN ptWindow' |-> ptWindow'[n]]
  BY <1>1 DEF Older
<1>5. /\ DOMAIN ptStarts' \subseteq DOMAIN ptStarts
      /\ \A n \in DOMAIN ptStarts' : ptStarts'[n] = ptStarts[n] + 1 /\ ptStarts'[n] <= PtWindow
      /\ ptStarts' = [n \in DOMAIN ptStarts' |-> ptStarts'[n]]
  BY <1>1, <1>3 DEF Older, InWindow
<1>6. ptWindow' \in [DOMAIN ptWindow' -> 0..(PtWindow + 1)]
  <2>1. \A n \in DOMAIN ptWindow' : ptWindow'[n] \in 0..(PtWindow + 1) BY <1>3, <1>4, Parameters
  <2> QED BY <1>4, <2>1
<1>7. ptStarts' \in [DOMAIN ptStarts' -> 0..PtWindow]
  <2>1. \A n \in DOMAIN ptStarts' : ptStarts'[n] \in 0..PtWindow BY <1>3, <1>5, Parameters
  <2> QED BY <1>5, <2>1
<1>8. PotTypeOK'
  <2>1. ptWait' \in Nat /\ ptUptime' \in 0..PtHealthy BY <1>1, <1>3, Parameters
  <2>2. DOMAIN ptWindow' \subseteq 1..ptRestarts' /\ DOMAIN ptStarts' \subseteq 0..ptRestarts'
    BY <1>2, <1>3, <1>4, <1>5
  <2> QED BY <1>2, <1>6, <1>7, <2>1, <2>2 DEF PotInv, PotTypeOK
<1>9. Noticed'
  <2> SUFFICES ASSUME NEW n \in DOMAIN ptStarts', n < ptRestarts
               PROVE  n + 1 \in DOMAIN ptWindow' /\ ptWindow'[n + 1] <= ptStarts'[n]
    BY <1>2 DEF Noticed
  <2>1. n + 1 \in DOMAIN ptWindow /\ ptWindow[n + 1] <= ptStarts[n] /\ ptStarts[n] \in 0..PtWindow
    BY <1>3, <1>5 DEF PotInv, Noticed
  <2>2. ptWindow[n + 1] \in 0..(PtWindow + 1) BY <1>3, <2>1
  <2> QED BY <1>4, <1>5, <2>1, <2>2, Parameters
<1>10. HasRoom' BY <1>2, <1>4 DEF PotInv, HasRoom, PtBudget
<1>11. NotStarted' BY <1>2, <1>5 DEF PotInv, NotStarted
<1>12. Attended' BY <1>2 DEF PotInv, Attended
<1>13. PotIsHonest'
  <2>1. Cardinality(DOMAIN ptStarts') <= Cardinality(DOMAIN ptStarts)
    BY <1>5, AgesFinite, FS_Subset DEF PotInv
  <2>2. IsFiniteSet(DOMAIN ptStarts') BY <1>5, AgesFinite, FS_Subset DEF PotInv
  <2>3. Cardinality(DOMAIN ptStarts') \in Nat BY <2>2, FS_CardinalityType
  <2>4. Cardinality(DOMAIN ptStarts) \in Nat /\ Cardinality(DOMAIN ptStarts) <= PtBudget
    BY AgesFinite DEF PotInv, PotIsHonest
  <2>5. Cardinality(DOMAIN ptStarts') <= PtBudget BY <2>1, <2>3, <2>4, Budget
  <2> QED BY <1>2, <2>5 DEF PotInv, PotIsHonest, PtBudget
<1> QED BY <1>8, <1>9, <1>10, <1>11, <1>12, <1>13 DEF PotInv

LEMMA PotSteps == PotInv /\ [PotNext]_ptVars => PotInv'
<1> SUFFICES ASSUME PotInv, [PotNext]_ptVars PROVE PotInv' OBVIOUS
<1>1. CASE UNCHANGED ptVars
  <2>1. UNCHANGED <<ptPhase, ptChild, ptFails, ptAnswers, ptUptime, ptStep, ptWait, ptWindow, ptRestarts, ptShutdown, ptShown, ptStarts>>
    BY <1>1 DEF ptVars, ptProbe, ptBackoff
  <2>2. PotTypeOK' BY <2>1 DEF PotInv, PotTypeOK
  <2>3. Noticed' /\ HasRoom' /\ NotStarted' BY <2>1 DEF PotInv, Noticed, HasRoom, NotStarted, PtBudget
  <2>4. Attended' /\ PotIsHonest' BY <2>1 DEF PotInv, Attended, PotIsHonest, PtBudget
  <2> QED BY <2>2, <2>3, <2>4 DEF PotInv
<1> QED BY <1>1, SpawnKeeps, ProbeKeeps, SpawnAgainKeeps, ReapedKeeps, OthersKeep, TickKeeps DEF PotNext

LEMMA PotInvAlways == PotSpec => []PotInv
BY PotStarts, PotSteps, PTL DEF PotSpec

(* The supervisor's bookkeeping keeps its shape for any budget and window. *)
THEOREM SupervisorTyped == PotSpec => []PotTypeOK
BY PotInvAlways, PTL DEF PotInv

(* No more children are started inside one window than the budget allows,  *)
(* and the published health is about the very child that is there.         *)
THEOREM SupervisorHonest == PotSpec => []PotIsHonest
BY PotInvAlways, PTL DEF PotInv

-----------------------------------------------------------------------------
(* The strengthening of SubsAreTrue.  A known subscription has a task and  *)
(* a minted id, an unknown one nothing that could report or be shown; the  *)
(* last message of a subscription in the channel says whether it checks    *)
(* now, and its slot says so when there is none; and of what was queued,   *)
(* the mark is written, waits in the channel or with the task, or is       *)
(* excused, so that a check that has read the seen has only excused ones   *)
(* before it a second time.                                                *)
SubsTyped ==
  /\ SubsTypeOK /\ IsFiniteSet(Holding)
  /\ subPending \subseteq [url : RawUrl, state : {"asked", "found", "failed"}, feed : SUBSET Media]
  /\ subAgain \in [Sub -> SUBSET Media] /\ subExcuse \in [Sub -> SUBSET Media]
  /\ subBefore \in [Sub -> SUBSET Media] /\ subQueued \in [Sub -> SUBSET Media]
Rowed ==
  /\ \A s \in Sub : s \in subKnown <=> subUrl[s] # NoUrl
  /\ \A s \in subKnown : subSlot[s].enabled = subEnabled[s]
  /\ \A s, t \in subKnown : subUrl[s] = subUrl[t] => s = t
Tasked ==
  /\ \A s \in Sub : s \in subKnown <=> subTask[s].pc # "none"
  /\ subKnown \subseteq subUsed
  /\ \A s \in Sub \ subKnown : subSlot[s] = NoSlot /\ ~subEnabled[s]
  /\ \A s \in Sub \ subUsed : subQueued[s] = {}
  /\ \A j \in DOMAIN subInbox : subInbox[j].sub \in subUsed
LatestOf(s, j) == subInbox[j].sub = s /\ \A k \in DOMAIN subInbox : subInbox[k].sub = s => k <= j
Announced ==
  \A s \in subKnown :
    /\ (\A j \in DOMAIN subInbox : subInbox[j].sub # s) => (subSlot[s].checking <=> s \in Holding)
    /\ \A j \in DOMAIN subInbox : LatestOf(s, j) => (subInbox[j].kind = "started" <=> s \in Holding)
Marks ==
  /\ \A j \in DOMAIN subInbox : subInbox[j].queued \subseteq subQueued[subInbox[j].sub]
  /\ \A j \in DOMAIN subInbox : subInbox[j].kind = "started" => subInbox[j].queued = {}
  /\ \A s \in Sub : subTask[s].queued \subseteq subQueued[s] /\ subTask[s].todo \cap subQueued[s] \subseteq subExcuse[s]
  /\ \A s \in Sub : subTask[s].pc # "queue" => subTask[s].queued = {} /\ subTask[s].todo = {}
  /\ \A s \in subKnown : subQueued[s] \subseteq subSeen[s] \cup Reported(s) \cup subTask[s].queued \cup subExcuse[s]
SubsInv == SubsTyped /\ Rowed /\ Tasked /\ Announced /\ Marks /\ SubsTakesOnce

Messages == [sub : Sub, kind : {"started", "done"}, queued : SUBSET Media]
SubTasks == [pc : Pc, enabled : BOOLEAN, due : Due, feed : SUBSET Media, todo : SUBSET Media, queued : SUBSET Media]
Checking == {"probe", "read", "queue"}

LEMMA ReportedIs ==
  ASSUME NEW s
  PROVE  \A x : x \in Reported(s) <=> \E j \in DOMAIN subInbox : subInbox[j].sub = s /\ x \in subInbox[j].queued
BY DEF Reported

LEMMA ReportedNext ==
  ASSUME NEW s
  PROVE  \A x : x \in Reported(s)' <=> \E j \in DOMAIN subInbox' : subInbox'[j].sub = s /\ x \in subInbox'[j].queued
BY DEF Reported

(* The channel, with one message more at its end or one less at its head.  *)
LEMMA InboxGrows ==
  ASSUME SubsTyped, NEW m \in Messages, subInbox' = Append(subInbox, m)
  PROVE  /\ subInbox' \in Seq(Messages) /\ Len(subInbox) \in Nat /\ DOMAIN subInbox = 1..Len(subInbox)
         /\ DOMAIN subInbox' = 1..(Len(subInbox) + 1) /\ subInbox'[Len(subInbox) + 1] = m
         /\ \A j \in 1..Len(subInbox) : subInbox'[j] = subInbox[j]
BY DEF SubsTyped, SubsTypeOK, Messages

LEMMA InboxShrinks ==
  ASSUME SubsTyped, subInbox # <<>>, subInbox' = Tail(subInbox)
  PROVE  /\ subInbox' \in Seq(Messages) /\ Len(subInbox) \in Nat /\ Len(subInbox) >= 1
         /\ DOMAIN subInbox = 1..Len(subInbox) /\ DOMAIN subInbox' = 1..(Len(subInbox) - 1)
         /\ Head(subInbox) = subInbox[1] /\ Head(subInbox) \in Messages
         /\ \A j \in 1..(Len(subInbox) - 1) : subInbox'[j] = subInbox[j + 1]
<1>1. subInbox \in Seq(Messages)
  BY DEF SubsTyped, SubsTypeOK, Messages
<1>2. /\ subInbox' \in Seq(Messages) /\ Len(subInbox) \in Nat /\ Len(subInbox) >= 1
      /\ DOMAIN subInbox = 1..Len(subInbox) /\ Len(subInbox') = Len(subInbox) - 1
      /\ Head(subInbox) = subInbox[1]
  BY <1>1
<1>3. DOMAIN subInbox' = 1..(Len(subInbox) - 1)
  BY <1>2
<1>4. Head(subInbox) \in Messages
  BY <1>1, <1>2
<1>5. \A j \in 1..(Len(subInbox) - 1) : subInbox'[j] = subInbox[j + 1]
  BY <1>1
<1> QED BY <1>2, <1>3, <1>4, <1>5

LEMMA SubsStarts == SubsInit => SubsInv
<1> SUFFICES ASSUME SubsInit PROVE SubsInv
  OBVIOUS
<1>1. /\ subUrl = [s \in Sub |-> NoUrl] /\ subEnabled = [s \in Sub |-> FALSE] /\ subSeen = [s \in Sub |-> {}]
      /\ subKnown = {} /\ subIndex = {} /\ subSlot = [s \in Sub |-> NoSlot] /\ subPending = {}
      /\ subWatch = [s \in Sub |-> Quiet] /\ subTask = [s \in Sub |-> NoTask] /\ subInbox = <<>>
      /\ subListing \subseteq Media /\ subUsed \subseteq Sub
      /\ subBefore = [s \in Sub |-> {}] /\ subQueued = [s \in Sub |-> {}]
      /\ subAgain = [s \in Sub |-> {}] /\ subExcuse = [s \in Sub |-> {}]
  BY DEF SubsInit
<1>2. Holding = {}
  BY <1>1 DEF Holding, NoTask
<1>3. DOMAIN subInbox = {} /\ subInbox \in Seq(Messages)
  BY <1>1
<1>4. SubsTyped
  <2>1. IsFiniteSet(Holding) /\ Cardinality(Holding) <= SubPermits
    BY <1>2, FS_EmptySet, SubAssumption
  <2> QED BY <1>1, <1>3, <2>1 DEF SubsTyped, SubsTypeOK, NoSlot, NoTask, Quiet, Due, Pc, Messages
<1>5. Rowed /\ Tasked
  BY <1>1, <1>3 DEF Rowed, Tasked, NoTask
<1>6. Announced /\ Marks /\ SubsTakesOnce
  BY <1>1, <1>3 DEF Announced, Marks, SubsTakesOnce, NoTask
<1> QED BY <1>4, <1>5, <1>6 DEF SubsInv

(* Steps that leave the tables, the channel and the history alone, and of  *)
(* a task whether it exists, checks, and what it has before it.            *)
LEMMA SameKept ==
  ASSUME SubsInv, UNCHANGED <<subUrl, subEnabled, subSeen, subKnown, subSlot, subInbox, subUsed, subHistory>>,
         \A s \in Sub : /\ subTask'[s].pc = "none" <=> subTask[s].pc = "none"
                        /\ subTask'[s].pc \in Checking <=> subTask[s].pc \in Checking
                        /\ subTask[s].pc = "queue" => subTask'[s].pc = "queue"
                        /\ subTask'[s].todo = subTask[s].todo /\ subTask'[s].queued = subTask[s].queued
  PROVE  Holding' = Holding /\ Rowed' /\ Tasked' /\ Announced' /\ Marks' /\ SubsTakesOnce'
<1>1. /\ subUrl' = subUrl /\ subEnabled' = subEnabled /\ subSeen' = subSeen /\ subKnown' = subKnown /\ subSlot' = subSlot
      /\ subInbox' = subInbox /\ subUsed' = subUsed /\ subBefore' = subBefore /\ subQueued' = subQueued
      /\ subAgain' = subAgain /\ subExcuse' = subExcuse
  BY DEF subHistory
<1>2. Holding' = Holding
  BY DEF Holding, Checking
<1>3. Rowed' /\ SubsTakesOnce'
  BY <1>1 DEF SubsInv, Rowed, SubsTakesOnce
<1>4. Tasked'
  <2>1. \A s \in Sub : s \in subKnown' <=> subTask'[s].pc # "none"
    BY <1>1 DEF SubsInv, Tasked
  <2> QED BY <1>1, <2>1 DEF SubsInv, Tasked
<1>5. Announced'
  BY <1>1, <1>2 DEF SubsInv, Announced, LatestOf
<1>6. Marks'
  <2>1. \A s \in Sub : subTask'[s].pc # "queue" => subTask'[s].queued = {} /\ subTask'[s].todo = {}
    BY DEF SubsInv, Marks
  <2>2. \A s \in Sub : Reported(s)' = Reported(s)
    BY <1>1 DEF Reported
  <2>3. subKnown \subseteq Sub
    BY DEF SubsInv, SubsTyped, SubsTypeOK
  <2> QED BY <1>1, <2>1, <2>2, <2>3 DEF SubsInv, Marks
<1> QED BY <1>2, <1>3, <1>4, <1>5, <1>6

-----------------------------------------------------------------------------
(* The steps that change neither the tables nor the channel.               *)
LEMMA CalmTyped ==
  ASSUME SubsInv, UNCHANGED <<subUrl, subEnabled, subSeen, subKnown, subIndex, subSlot, subInbox, subUsed, subHistory>>,
         Holding' = Holding, subListing' \subseteq Media,
         subWatch' \in [Sub -> [enabled : BOOLEAN, due : Due, fresh : BOOLEAN]], subTask' \in [Sub -> SubTasks],
         subPending' \subseteq [url : RawUrl, state : {"asked", "found", "failed"}, feed : SUBSET Media]
  PROVE  SubsTyped'
BY DEF SubsInv, SubsTyped, SubsTypeOK, subHistory, SubTasks

LEMMA CalmKeeps ==
  ASSUME SubsInv,
         \/ \E m \in Media : Publish(m)
         \/ \E r \in RawUrl : BeginSubscribe(r)
         \/ \E p \in subPending, found \in BOOLEAN : ProbeEnds(p, found)
         \/ \E s \in Sub : CheckNow(s)
  PROVE  SubsInv'
<1>1. UNCHANGED <<subUrl, subEnabled, subSeen, subKnown, subIndex, subSlot, subInbox, subUsed, subHistory, subTask>>
  BY DEF Publish, BeginSubscribe, ProbeEnds, CheckNow, subStore
<1>2. Holding' = Holding /\ Rowed' /\ Tasked' /\ Announced' /\ Marks' /\ SubsTakesOnce'
  BY <1>1, SameKept
<1>3. /\ subListing \subseteq Media /\ subTask \in [Sub -> SubTasks]
      /\ subWatch \in [Sub -> [enabled : BOOLEAN, due : Due, fresh : BOOLEAN]]
      /\ subPending \subseteq [url : RawUrl, state : {"asked", "found", "failed"}, feed : SUBSET Media]
  BY DEF SubsInv, SubsTyped, SubsTypeOK, SubTasks
<1>4. subListing' \subseteq Media
  <2>1. CASE \E m \in Media : Publish(m)
    BY <1>3, <2>1 DEF Publish
  <2>2. CASE ~\E m \in Media : Publish(m)
    <3>1. subListing' = subListing
      BY <2>2 DEF BeginSubscribe, ProbeEnds, CheckNow
    <3> QED BY <1>3, <3>1
  <2> QED BY <2>1, <2>2
<1>5. subWatch' \in [Sub -> [enabled : BOOLEAN, due : Due, fresh : BOOLEAN]]
  <2>1. CASE \E s \in Sub : CheckNow(s)
    <3>1. PICK s \in Sub : subWatch' = [subWatch EXCEPT ![s] = [enabled |-> TRUE, due |-> "past", fresh |-> TRUE]]
      BY <2>1 DEF CheckNow, Send
    <3> QED BY <1>3, <3>1 DEF Due
  <2>2. CASE ~\E s \in Sub : CheckNow(s)
    <3>1. subWatch' = subWatch
      BY <2>2 DEF Publish, BeginSubscribe, ProbeEnds
    <3> QED BY <1>3, <3>1
  <2> QED BY <2>1, <2>2
<1>6. subPending' \subseteq [url : RawUrl, state : {"asked", "found", "failed"}, feed : SUBSET Media]
  <2>1. CASE \E r \in RawUrl : BeginSubscribe(r)
    BY <1>3, <2>1 DEF BeginSubscribe
  <2>2. CASE \E p \in subPending, found \in BOOLEAN : ProbeEnds(p, found)
    <3>1. PICK p \in subPending, found \in BOOLEAN : ProbeEnds(p, found)
      BY <2>2
    <3> DEFINE q == [p EXCEPT !.state = IF found THEN "found" ELSE "failed", !.feed = IF found THEN subListing ELSE {}]
    <3>2. q \in [url : RawUrl, state : {"asked", "found", "failed"}, feed : SUBSET Media]
      BY <1>3
    <3>3. subPending' = (subPending \ {p}) \cup {q}
      BY <3>1 DEF ProbeEnds
    <3> HIDE DEF q
    <3> QED BY <1>3, <3>2, <3>3
  <2>3. CASE (\E m \in Media : Publish(m)) \/ \E s \in Sub : CheckNow(s)
    <3>1. subPending' = subPending
      BY <2>3 DEF Publish, CheckNow
    <3> QED BY <1>3, <3>1
  <2> QED BY <2>1, <2>2, <2>3
<1>7. SubsTyped'
  BY <1>1, <1>2, <1>3, <1>4, <1>5, <1>6, CalmTyped
<1> QED BY <1>2, <1>7 DEF SubsInv

(* A task that goes on without a word.                                     *)
LEMMA WaitsKeep ==
  ASSUME SubsInv, NEW s \in Sub, DueComes(s) \/ Reschedule(s) \/ WakeUp(s) \/ ListFeed(s)
  PROVE  SubsInv'
<1>1. UNCHANGED <<subUrl, subEnabled, subSeen, subKnown, subIndex, subSlot, subPending, subInbox, subListing, subUsed, subHistory>>
  BY DEF DueComes, Reschedule, WakeUp, ListFeed, TaskOnly, subStore, subHistory
<1>2. /\ subListing \subseteq Media /\ subTask \in [Sub -> SubTasks]
      /\ subWatch \in [Sub -> [enabled : BOOLEAN, due : Due, fresh : BOOLEAN]]
      /\ subPending \subseteq [url : RawUrl, state : {"asked", "found", "failed"}, feed : SUBSET Media]
  BY DEF SubsInv, SubsTyped, SubsTypeOK, SubTasks
<1>3. PICK t : /\ subTask' = [subTask EXCEPT ![s] = t] /\ t \in SubTasks /\ t.pc # "none" /\ subTask[s].pc \notin {"none", "queue"}
               /\ t.pc \in Checking <=> subTask[s].pc \in Checking
               /\ t.pc # "queue" /\ t.todo = subTask[s].todo /\ t.queued = subTask[s].queued
  <2>1. subTask[s] \in SubTasks
    BY <1>2
  <2>2. subTask[s].pc # "queue" => subTask[s].queued = {} /\ subTask[s].todo = {}
    BY DEF SubsInv, Marks
  <2>3. CASE DueComes(s)
    <3> DEFINE t == [subTask[s] EXCEPT !.due = "past"]
    <3>1. subTask' = [subTask EXCEPT ![s] = t] /\ subTask[s].pc = "idle"
      BY <2>3 DEF DueComes
    <3>2. t \in SubTasks /\ t.pc = "idle" /\ t.todo = subTask[s].todo /\ t.queued = subTask[s].queued
      BY <2>1, <3>1 DEF SubTasks, Due
    <3> QED BY <3>1, <3>2 DEF Checking
  <2>4. CASE Reschedule(s)
    <3> DEFINE t == [NoTask EXCEPT !.pc = "idle", !.enabled = subWatch[s].enabled, !.due = subWatch[s].due]
    <3>1. subTask' = [subTask EXCEPT ![s] = t] /\ subTask[s].pc = "idle"
      BY <2>4 DEF Reschedule, TaskOnly
    <3>2. t \in SubTasks /\ t.pc = "idle" /\ t.todo = {} /\ t.queued = {}
      BY <1>2 DEF SubTasks, NoTask, Pc
    <3> QED BY <2>2, <3>1, <3>2 DEF Checking
  <2>5. CASE WakeUp(s)
    <3> DEFINE t == [subTask[s] EXCEPT !.pc = "permit"]
    <3>1. subTask' = [subTask EXCEPT ![s] = t] /\ subTask[s].pc = "idle"
      BY <2>5 DEF WakeUp, TaskOnly
    <3>2. t \in SubTasks /\ t.pc = "permit" /\ t.todo = subTask[s].todo /\ t.queued = subTask[s].queued
      BY <2>1 DEF SubTasks, Pc
    <3> QED BY <3>1, <3>2 DEF Checking
  <2>6. CASE ListFeed(s)
    <3> DEFINE t == [subTask[s] EXCEPT !.pc = "read", !.feed = subListing]
    <3>1. subTask' = [subTask EXCEPT ![s] = t] /\ subTask[s].pc = "probe"
      BY <2>6 DEF ListFeed, TaskOnly
    <3>2. t \in SubTasks /\ t.pc = "read" /\ t.todo = subTask[s].todo /\ t.queued = subTask[s].queued
      BY <1>2, <2>1 DEF SubTasks, Pc
    <3> QED BY <3>1, <3>2 DEF Checking
  <2> QED BY <2>3, <2>4, <2>5, <2>6
<1>4. \A o \in Sub : /\ subTask'[o].pc = "none" <=> subTask[o].pc = "none"
                     /\ subTask'[o].pc \in Checking <=> subTask[o].pc \in Checking
                     /\ subTask[o].pc = "queue" => subTask'[o].pc = "queue"
                     /\ subTask'[o].todo = subTask[o].todo /\ subTask'[o].queued = subTask[o].queued
  BY <1>2, <1>3
<1>5. Holding' = Holding /\ Rowed' /\ Tasked' /\ Announced' /\ Marks' /\ SubsTakesOnce'
  BY <1>1, <1>4, SameKept
<1>6. subTask' \in [Sub -> SubTasks] /\ subWatch' \in [Sub -> [enabled : BOOLEAN, due : Due, fresh : BOOLEAN]]
  <2>1. subTask' \in [Sub -> SubTasks]
    BY <1>2, <1>3
  <2>2. subWatch' \in [Sub -> [enabled : BOOLEAN, due : Due, fresh : BOOLEAN]]
    <3>1. Quiet \in [enabled : BOOLEAN, due : Due, fresh : BOOLEAN]
      BY DEF Quiet, Due
    <3>2. subWatch' = subWatch \/ subWatch' = [subWatch EXCEPT ![s] = Quiet]
      BY DEF DueComes, Reschedule, WakeUp, ListFeed
    <3> QED BY <1>2, <3>1, <3>2
  <2> QED BY <2>1, <2>2
<1>7. SubsTyped'
  BY <1>1, <1>2, <1>5, <1>6, CalmTyped
<1> QED BY <1>5, <1>7 DEF SubsInv

(* What the manager writes of a subscription it knows.                     *)
LEMMA UpdateKeeps ==
  ASSUME SubsInv, NEW s \in Sub, NEW ok \in BOOLEAN, NEW enabled \in BOOLEAN, NEW due \in Due, Update(s, enabled, due, ok)
  PROVE  SubsInv'
<1>1. CASE ~ok
  <2>1. UNCHANGED <<subUrl, subEnabled, subSeen, subKnown, subIndex, subSlot, subPending, subInbox, subListing, subUsed, subHistory,
                    subTask, subWatch>>
    BY <1>1 DEF Update, subStore
  <2>2. Holding' = Holding /\ Rowed' /\ Tasked' /\ Announced' /\ Marks' /\ SubsTakesOnce'
    BY <2>1, SameKept
  <2>3. /\ subListing \subseteq Media /\ subTask \in [Sub -> SubTasks]
        /\ subWatch \in [Sub -> [enabled : BOOLEAN, due : Due, fresh : BOOLEAN]]
        /\ subPending \subseteq [url : RawUrl, state : {"asked", "found", "failed"}, feed : SUBSET Media]
    BY DEF SubsInv, SubsTyped, SubsTypeOK, SubTasks
  <2> QED BY <2>1, <2>2, <2>3, CalmTyped DEF SubsInv
<1>2. CASE ok
  <2>1. /\ s \in subKnown /\ subEnabled' = [subEnabled EXCEPT ![s] = enabled]
        /\ subSlot' = [subSlot EXCEPT ![s].enabled = enabled]
        /\ subWatch' = [subWatch EXCEPT ![s] = [enabled |-> enabled, due |-> due, fresh |-> TRUE]]
        /\ subUrl' = subUrl /\ subSeen' = subSeen /\ subKnown' = subKnown /\ subIndex' = subIndex /\ subPending' = subPending
        /\ subTask' = subTask /\ subInbox' = subInbox /\ subListing' = subListing /\ subUsed' = subUsed
        /\ subBefore' = subBefore /\ subQueued' = subQueued /\ subAgain' = subAgain /\ subExcuse' = subExcuse
    BY <1>2 DEF Update, Send, subHistory
  <2>2. Holding' = Holding
    BY <2>1 DEF Holding
  <2>3. subSlot \in [Sub -> [enabled : BOOLEAN, checking : BOOLEAN]] /\ subEnabled \in [Sub -> BOOLEAN]
    BY DEF SubsInv, SubsTyped, SubsTypeOK
  <2>4. \A o \in Sub : subSlot'[o].checking = subSlot[o].checking
    BY <2>1, <2>3
  <2>5. SubsTyped'
    BY <2>1, <2>2 DEF SubsInv, SubsTyped, SubsTypeOK
  <2>6. Rowed'
    BY <2>1, <2>3 DEF SubsInv, Rowed, SubsTyped, SubsTypeOK
  <2>7. Tasked'
    BY <2>1, <2>3 DEF SubsInv, Tasked
  <2>8. Announced'
    BY <2>1, <2>2, <2>4 DEF SubsInv, Announced, LatestOf, SubsTyped, SubsTypeOK
  <2>9. Marks' /\ SubsTakesOnce'
    BY <2>1 DEF SubsInv, Marks, Reported, SubsTakesOnce
  <2> QED BY <2>5, <2>6, <2>7, <2>8, <2>9 DEF SubsInv
<1> QED BY <1>1, <1>2

LEMMA DeleteKeeps ==
  ASSUME SubsInv, NEW s \in Sub, NEW ok \in BOOLEAN, Delete(s, ok)
  PROVE  SubsInv'
<1>1. CASE ~ok
  <2>1. UNCHANGED <<subUrl, subEnabled, subSeen, subKnown, subIndex, subSlot, subPending, subInbox, subListing, subUsed, subHistory,
                    subTask, subWatch>>
    BY <1>1 DEF Delete, subStore
  <2>2. Holding' = Holding /\ Rowed' /\ Tasked' /\ Announced' /\ Marks' /\ SubsTakesOnce'
    BY <2>1, SameKept
  <2>3. /\ subListing \subseteq Media /\ subTask \in [Sub -> SubTasks]
        /\ subWatch \in [Sub -> [enabled : BOOLEAN, due : Due, fresh : BOOLEAN]]
        /\ subPending \subseteq [url : RawUrl, state : {"asked", "found", "failed"}, feed : SUBSET Media]
    BY DEF SubsInv, SubsTyped, SubsTypeOK, SubTasks
  <2> QED BY <2>1, <2>2, <2>3, CalmTyped DEF SubsInv
<1>2. CASE ok
  <2>1. /\ s \in subKnown /\ subUrl' = [subUrl EXCEPT ![s] = NoUrl] /\ subEnabled' = [subEnabled EXCEPT ![s] = FALSE]
        /\ subSeen' = [subSeen EXCEPT ![s] = {}] /\ subKnown' = subKnown \ {s}
        /\ subIndex' = {k \in subIndex : k[2] # s} /\ subSlot' = [subSlot EXCEPT ![s] = NoSlot]
        /\ subTask' = [subTask EXCEPT ![s] = NoTask] /\ subWatch' = [subWatch EXCEPT ![s] = Quiet]
        /\ subPending' = subPending /\ subInbox' = subInbox /\ subListing' = subListing /\ subUsed' = subUsed
        /\ subBefore' = subBefore /\ subQueued' = subQueued /\ subAgain' = subAgain /\ subExcuse' = subExcuse
    BY <1>2 DEF Delete, subHistory
  <2>2. /\ subSlot \in [Sub -> [enabled : BOOLEAN, checking : BOOLEAN]] /\ subEnabled \in [Sub -> BOOLEAN]
        /\ subUrl \in [Sub -> RawUrl \cup {NoUrl}] /\ subSeen \in [Sub -> SUBSET Media] /\ subTask \in [Sub -> SubTasks]
        /\ subWatch \in [Sub -> [enabled : BOOLEAN, due : Due, fresh : BOOLEAN]] /\ subKnown \subseteq Sub
    BY DEF SubsInv, SubsTyped, SubsTypeOK, SubTasks
  <2>3. NoTask.pc = "none" /\ NoTask.todo = {} /\ NoTask.queued = {} /\ NoTask \in SubTasks
    BY DEF NoTask, SubTasks, Pc, Due
  <2>4. Holding' = Holding \ {s}
    BY <2>1, <2>2, <2>3 DEF Holding
  <2>5. IsFiniteSet(Holding') /\ Cardinality(Holding') <= SubPermits
    <3>1. IsFiniteSet(Holding) /\ Cardinality(Holding) <= SubPermits
      BY DEF SubsInv, SubsTyped, SubsTypeOK
    <3>2. IsFiniteSet(Holding') /\ Cardinality(Holding') <= Cardinality(Holding)
      BY <2>4, <3>1, FS_Subset
    <3>3. Cardinality(Holding) \in Nat /\ Cardinality(Holding') \in Nat
      BY <3>1, <3>2, FS_CardinalityType
    <3> QED BY <3>1, <3>2, <3>3, SubAssumption
  <2>6. SubsTyped'
    BY <2>1, <2>2, <2>3, <2>5 DEF SubsInv, SubsTyped, SubsTypeOK, NoSlot, Quiet, Due, SubTasks
  <2>7. Rowed'
    BY <2>1, <2>2 DEF SubsInv, Rowed
  <2>8. Tasked'
    BY <2>1, <2>2, <2>3 DEF SubsInv, Tasked
  <2>9. Announced'
    BY <2>1, <2>2, <2>4 DEF SubsInv, Announced, LatestOf
  <2>10. Marks'
    <3>1. \A o \in Sub : Reported(o)' = Reported(o)
      BY <2>1 DEF Reported
    <3>2. \A o \in Sub : o # s => subTask'[o] = subTask[o] /\ subSeen'[o] = subSeen[o]
      BY <2>1, <2>2
    <3>3. subTask'[s] = NoTask
      BY <2>1, <2>2
    <3> QED BY <2>1, <2>2, <2>3, <3>1, <3>2, <3>3 DEF SubsInv, Marks
  <2>11. SubsTakesOnce'
    BY <2>1, <2>2 DEF SubsInv, SubsTakesOnce
  <2> QED BY <2>6, <2>7, <2>8, <2>9, <2>10, <2>11 DEF SubsInv
<1> QED BY <1>1, <1>2

-----------------------------------------------------------------------------
LEMMA SubsTypes ==
  ASSUME SubsInv
  PROVE  /\ subUrl \in [Sub -> RawUrl \cup {NoUrl}] /\ subEnabled \in [Sub -> BOOLEAN] /\ subSeen \in [Sub -> SUBSET Media]
         /\ subKnown \subseteq Sub /\ subIndex \subseteq RawUrl \X Sub
         /\ subSlot \in [Sub -> [enabled : BOOLEAN, checking : BOOLEAN]]
         /\ subWatch \in [Sub -> [enabled : BOOLEAN, due : Due, fresh : BOOLEAN]]
         /\ subTask \in [Sub -> SubTasks] /\ subInbox \in Seq(Messages)
         /\ subListing \subseteq Media /\ subUsed \subseteq Sub /\ IsFiniteSet(Holding) /\ Cardinality(Holding) <= SubPermits
         /\ subPending \subseteq [url : RawUrl, state : {"asked", "found", "failed"}, feed : SUBSET Media]
         /\ subAgain \in [Sub -> SUBSET Media] /\ subExcuse \in [Sub -> SUBSET Media]
         /\ subBefore \in [Sub -> SUBSET Media] /\ subQueued \in [Sub -> SUBSET Media]
BY DEF SubsInv, SubsTyped, SubsTypeOK, SubTasks, Messages

(* What a write of marks keeps was there or is new.                        *)
LEMMA MarkedKeeps ==
  ASSUME NEW old, NEW new, NEW kept \in Marked(old, new)
  PROVE  kept \subseteq old \cup new
BY DEF Marked

(* A subscription is made of an answer to a probe, or refused.             *)
LEMMA OnProbedKeeps ==
  ASSUME SubsInv, NEW p \in subPending, NEW s \in Sub, NEW upcoming \in SUBSET Media, NEW ok \in BOOLEAN,
         OnProbed(p, s, upcoming, ok)
  PROVE  SubsInv'
<1>1. /\ subPending' = subPending \ {p} /\ subInbox' = subInbox /\ subListing' = subListing
      /\ subQueued' = subQueued /\ subAgain' = subAgain /\ subExcuse' = subExcuse
  BY DEF OnProbed
<1>2. CASE UNCHANGED <<subStore, subKnown, subIndex, subSlot, subWatch, subTask, subUsed, subBefore>>
  <2>1. UNCHANGED <<subUrl, subEnabled, subSeen, subKnown, subIndex, subSlot, subInbox, subListing, subUsed, subHistory,
                    subTask, subWatch>>
    BY <1>1, <1>2 DEF subStore, subHistory
  <2>2. Holding' = Holding /\ Rowed' /\ Tasked' /\ Announced' /\ Marks' /\ SubsTakesOnce'
    BY <2>1, SameKept
  <2> QED BY <1>1, <2>1, <2>2, CalmTyped, SubsTypes DEF SubsInv
<1>3. CASE ~UNCHANGED <<subStore, subKnown, subIndex, subSlot, subWatch, subTask, subUsed, subBefore>>
  <2>1. /\ s \notin subUsed /\ ~SubIndexed(p.url) /\ Admits(p.url)
        /\ subUsed' = subUsed \cup {s} /\ subUrl' = [subUrl EXCEPT ![s] = Canon[p.url]]
        /\ subEnabled' = [subEnabled EXCEPT ![s] = TRUE]
        /\ subKnown' = subKnown \cup {s} /\ subIndex' = subIndex \cup Keys(p.url, s)
        /\ subSlot' = [subSlot EXCEPT ![s].enabled = TRUE] /\ subWatch' = [subWatch EXCEPT ![s] = Quiet]
        /\ subTask' = [subTask EXCEPT ![s] = Spawned(TRUE)] /\ subBefore' = [subBefore EXCEPT ![s] = p.feed]
        /\ \E kept \in Marked({}, p.feed \ upcoming) : subSeen' = [subSeen EXCEPT ![s] = kept]
    BY <1>3 DEF OnProbed
  <2>2. PICK kept \in Marked({}, p.feed \ upcoming) : subSeen' = [subSeen EXCEPT ![s] = kept]
    BY <2>1
  <2>3. kept \subseteq p.feed /\ p.feed \subseteq Media /\ p.url \in RawUrl /\ Canon[p.url] \in RawUrl
    <3>1. kept \subseteq {} \cup (p.feed \ upcoming)
      BY MarkedKeeps
    <3>2. p \in [url : RawUrl, state : {"asked", "found", "failed"}, feed : SUBSET Media]
      BY SubsTypes
    <3> QED BY <3>1, <3>2, SubAssumption
  <2>4. Canon[p.url] # NoUrl /\ \A t \in Sub : subUrl[t] # Canon[p.url]
    BY <2>1, <2>3, SubAssumption DEF Admits
  <2>5. Spawned(TRUE) \in SubTasks /\ Spawned(TRUE).pc = "idle" /\ Spawned(TRUE).todo = {} /\ Spawned(TRUE).queued = {}
        /\ Quiet \in [enabled : BOOLEAN, due : Due, fresh : BOOLEAN]
    BY DEF Spawned, NoTask, SubTasks, Pc, Due, Quiet
  <2>6. /\ s \notin subKnown /\ subTask[s].pc = "none" /\ subSlot[s] = NoSlot /\ subQueued[s] = {}
        /\ \A j \in DOMAIN subInbox : subInbox[j].sub # s
    BY <2>1 DEF SubsInv, Tasked
  <2>7. Holding' = Holding
    BY <2>1, <2>5, <2>6, SubsTypes DEF Holding
  <2>8. subSlot' \in [Sub -> [enabled : BOOLEAN, checking : BOOLEAN]] /\ subSlot'[s].enabled = TRUE /\ subSlot'[s].checking = FALSE
        /\ \A o \in Sub : o # s => subSlot'[o] = subSlot[o]
    <3> DEFINE q == [subSlot[s] EXCEPT !.enabled = TRUE]
    <3>1. subSlot[s] \in [enabled : BOOLEAN, checking : BOOLEAN] /\ subSlot[s].checking = FALSE
      BY <2>6, SubsTypes DEF NoSlot
    <3>2. q \in [enabled : BOOLEAN, checking : BOOLEAN] /\ q.enabled = TRUE /\ q.checking = FALSE
      BY <3>1
    <3>3. subSlot' = [subSlot EXCEPT ![s] = q]
      BY <2>1
    <3> HIDE DEF q
    <3> QED BY <3>2, <3>3, SubsTypes
  <2>9. SubsTyped'
    <3>1. subIndex' \subseteq RawUrl \X Sub
      BY <2>1, <2>3, SubsTypes DEF Keys
    <3>2. subSeen' \in [Sub -> SUBSET Media] /\ subBefore' \in [Sub -> SUBSET Media]
      BY <2>1, <2>2, <2>3, SubsTypes
    <3>3. subUrl' \in [Sub -> RawUrl \cup {NoUrl}] /\ subEnabled' \in [Sub -> BOOLEAN]
      BY <2>1, <2>3, SubsTypes
    <3>4. subTask' \in [Sub -> SubTasks] /\ subWatch' \in [Sub -> [enabled : BOOLEAN, due : Due, fresh : BOOLEAN]]
      BY <2>1, <2>5, SubsTypes
    <3>5. subKnown' \subseteq Sub /\ subUsed' \subseteq Sub
      BY <2>1, SubsTypes
    <3> QED BY <1>1, <2>7, <2>8, <3>1, <3>2, <3>3, <3>4, <3>5, SubsTypes DEF SubsTyped, SubsTypeOK, SubTasks, Messages
  <2>10. Rowed'
    <3>1. \A o \in Sub : o # s => subUrl'[o] = subUrl[o] /\ subEnabled'[o] = subEnabled[o]
      BY <2>1, SubsTypes
    <3>2. subUrl'[s] = Canon[p.url] /\ subEnabled'[s] = TRUE
      BY <2>1, SubsTypes
    <3>3. \A o \in Sub : o \in subKnown' <=> subUrl'[o] # NoUrl
      BY <2>1, <2>4, <3>1, <3>2 DEF SubsInv, Rowed
    <3>4. \A o \in subKnown' : subSlot'[o].enabled = subEnabled'[o]
      BY <2>1, <2>8, <3>1, <3>2, SubsTypes DEF SubsInv, Rowed
    <3>5. ASSUME NEW a \in subKnown', NEW b \in subKnown', subUrl'[a] = subUrl'[b] PROVE a = b
      <4>1. a \in Sub /\ b \in Sub /\ (a \in subKnown \/ a = s) /\ (b \in subKnown \/ b = s)
        BY <2>1, SubsTypes
      <4>2. CASE a = s \/ b = s
        BY <2>4, <3>1, <3>2, <3>5, <4>1, <4>2
      <4>3. CASE a # s /\ b # s
        BY <3>1, <3>5, <4>1, <4>3 DEF SubsInv, Rowed
      <4> QED BY <4>2, <4>3
    <3> QED BY <3>3, <3>4, <3>5 DEF Rowed
  <2>11. Tasked'
    BY <1>1, <2>1, <2>5, <2>8, SubsTypes DEF SubsInv, Tasked
  <2>12. Announced'
    <3>1. s \notin Holding'
      BY <2>6, <2>7 DEF Holding
    <3> QED BY <1>1, <2>1, <2>6, <2>7, <2>8, <3>1, SubsTypes DEF SubsInv, Announced, LatestOf
  <2>13. Marks'
    <3>1. \A o \in Sub : Reported(o)' = Reported(o)
      BY <1>1 DEF Reported
    <3>2. \A o \in Sub : o # s => subTask'[o] = subTask[o] /\ subSeen'[o] = subSeen[o]
      BY <2>1, <2>2, SubsTypes
    <3>3. subTask'[s] = Spawned(TRUE)
      BY <2>1, SubsTypes
    <3> QED BY <1>1, <2>1, <2>5, <2>6, <3>1, <3>2, <3>3, SubsTypes DEF SubsInv, Marks
  <2>14. SubsTakesOnce'
    <3>1. \A o \in Sub : o # s => subBefore'[o] = subBefore[o] /\ subSeen'[o] = subSeen[o]
      BY <2>1, <2>2, SubsTypes
    <3>2. subBefore'[s] = p.feed /\ subSeen'[s] = kept
      BY <2>1, <2>2, SubsTypes
    <3> QED BY <1>1, <2>3, <3>1, <3>2 DEF SubsInv, SubsTakesOnce
  <2> QED BY <2>9, <2>10, <2>11, <2>12, <2>13, <2>14 DEF SubsInv
<1> QED BY <1>2, <1>3

-----------------------------------------------------------------------------
(* A message more at the end of the channel: it is the last of its sender, *)
(* and what it brings is reported.                                         *)
LEMMA AnnouncedGrows ==
  ASSUME SubsInv, NEW m \in Messages, subInbox' = Append(subInbox, m), subKnown' = subKnown, subSlot' = subSlot,
         \A o \in Sub : o # m.sub => (o \in Holding' <=> o \in Holding), m.kind = "started" <=> m.sub \in Holding'
  PROVE  Announced'
<1>1. /\ DOMAIN subInbox = 1..Len(subInbox) /\ Len(subInbox) \in Nat
      /\ DOMAIN subInbox' = 1..(Len(subInbox) + 1) /\ subInbox'[Len(subInbox) + 1] = m
      /\ \A j \in 1..Len(subInbox) : subInbox'[j] = subInbox[j]
  BY InboxGrows DEF SubsInv
<1> SUFFICES ASSUME NEW o \in subKnown'
             PROVE  /\ (\A j \in DOMAIN subInbox' : subInbox'[j].sub # o) => (subSlot'[o].checking <=> o \in Holding')
                    /\ \A j \in DOMAIN subInbox' : LatestOf(o, j)' => (subInbox'[j].kind = "started" <=> o \in Holding')
  BY DEF Announced
<1>2. o \in subKnown /\ o \in Sub
  BY SubsTypes
<1>3. CASE o = m.sub
  <2>1. \A j \in DOMAIN subInbox' : LatestOf(o, j)' => j = Len(subInbox) + 1
    BY <1>1, <1>3 DEF LatestOf
  <2> QED BY <1>1, <1>3, <2>1
<1>4. CASE o # m.sub
  <2>1. \A j \in DOMAIN subInbox' : subInbox'[j].sub = o => j \in DOMAIN subInbox
    BY <1>1, <1>4
  <2>2. \A j \in DOMAIN subInbox' : LatestOf(o, j)' => LatestOf(o, j) /\ j \in DOMAIN subInbox
    BY <1>1, <2>1 DEF LatestOf
  <2>3. (\A j \in DOMAIN subInbox' : subInbox'[j].sub # o) => \A j \in DOMAIN subInbox : subInbox[j].sub # o
    BY <1>1
  <2> QED BY <1>1, <1>2, <1>4, <2>2, <2>3 DEF SubsInv, Announced
<1> QED BY <1>3, <1>4

LEMMA MarksGrow ==
  ASSUME SubsInv, NEW m \in Messages, subInbox' = Append(subInbox, m), subKnown' = subKnown,
         subSeen' = subSeen, subQueued' = subQueued,
         m.queued \subseteq subQueued[m.sub], m.kind = "started" => m.queued = {},
         \A o \in Sub : /\ subExcuse[o] \subseteq subExcuse'[o]
                        /\ subTask'[o].queued \subseteq subTask[o].queued /\ subTask'[o].todo \subseteq subTask[o].todo
                        /\ subTask'[o].pc # "queue" => subTask'[o].queued = {} /\ subTask'[o].todo = {}
                        /\ subTask[o].queued \subseteq subTask'[o].queued \cup subExcuse'[o] \cup
                             (IF o = m.sub THEN m.queued ELSE {})
  PROVE  Marks'
<1>1. /\ DOMAIN subInbox = 1..Len(subInbox) /\ Len(subInbox) \in Nat
      /\ DOMAIN subInbox' = 1..(Len(subInbox) + 1) /\ subInbox'[Len(subInbox) + 1] = m
      /\ \A j \in 1..Len(subInbox) : subInbox'[j] = subInbox[j]
  BY InboxGrows DEF SubsInv
<1>2. \A j \in DOMAIN subInbox' : \/ j \in DOMAIN subInbox /\ subInbox'[j] = subInbox[j]
                                \/ subInbox'[j] = m
  BY <1>1
<1>3. /\ \A j \in DOMAIN subInbox' : subInbox'[j].queued \subseteq subQueued'[subInbox'[j].sub]
      /\ \A j \in DOMAIN subInbox' : subInbox'[j].kind = "started" => subInbox'[j].queued = {}
  BY <1>2 DEF SubsInv, Marks
<1>4. \A o \in Sub : Reported(o) \cup (IF o = m.sub THEN m.queued ELSE {}) \subseteq Reported(o)'
  <2> SUFFICES ASSUME NEW o \in Sub, NEW x \in Reported(o) \cup (IF o = m.sub THEN m.queued ELSE {})
               PROVE  x \in Reported(o)'
    OBVIOUS
  <2>1. CASE x \in Reported(o)
    <3>1. PICK j \in DOMAIN subInbox : subInbox[j].sub = o /\ x \in subInbox[j].queued
      BY <2>1, ReportedIs
    <3>2. j \in DOMAIN subInbox' /\ subInbox'[j] = subInbox[j]
      BY <1>1
    <3> QED BY <3>1, <3>2, ReportedNext
  <2>2. CASE x \notin Reported(o)
    <3>1. o = m.sub /\ x \in m.queued /\ Len(subInbox) + 1 \in DOMAIN subInbox'
      BY <1>1, <2>2
    <3> QED BY <1>1, <3>1, ReportedNext
  <2> QED BY <2>1, <2>2
<1>5. \A o \in Sub : /\ subTask'[o].queued \subseteq subQueued'[o]
                     /\ subTask'[o].todo \cap subQueued'[o] \subseteq subExcuse'[o]
  BY DEF SubsInv, Marks
<1>6. ASSUME NEW o \in subKnown'
      PROVE  subQueued'[o] \subseteq subSeen'[o] \cup Reported(o)' \cup subTask'[o].queued \cup subExcuse'[o]
  <2>1. o \in subKnown /\ o \in Sub
    BY SubsTypes
  <2>2. subQueued[o] \subseteq subSeen[o] \cup Reported(o) \cup subTask[o].queued \cup subExcuse[o]
    BY <2>1 DEF SubsInv, Marks
  <2> QED BY <1>4, <2>1, <2>2
<1> QED BY <1>3, <1>5, <1>6 DEF Marks

(* A check takes a permit and says that it has begun.                      *)
LEMMA AcquireKeeps ==
  ASSUME SubsInv, NEW s \in Sub, Acquire(s)
  PROVE  SubsInv'
<1> DEFINE t == [subTask[s] EXCEPT !.pc = "probe"]
           m == Started(s)
<1>1. /\ subTask[s].pc = "permit" /\ Cardinality(Holding) < SubPermits /\ subTask' = [subTask EXCEPT ![s] = t]
      /\ subInbox' = Append(subInbox, m)
      /\ subUrl' = subUrl /\ subEnabled' = subEnabled /\ subSeen' = subSeen /\ subKnown' = subKnown /\ subIndex' = subIndex
      /\ subSlot' = subSlot /\ subPending' = subPending /\ subListing' = subListing /\ subUsed' = subUsed /\ subWatch' = subWatch
      /\ subBefore' = subBefore /\ subQueued' = subQueued /\ subAgain' = subAgain /\ subExcuse' = subExcuse
  BY DEF Acquire, TaskOnly, subStore
<1>2. t \in SubTasks /\ t.pc = "probe" /\ t.todo = subTask[s].todo /\ t.queued = subTask[s].queued
  <2>1. subTask[s] \in SubTasks
    BY SubsTypes
  <2> QED BY <2>1 DEF SubTasks, Pc
<1>3. m \in Messages /\ m.sub = s /\ m.kind = "started" /\ m.queued = {}
  BY DEF Started, Messages
<1> HIDE DEF t, m
<1>4. subTask'[s] = t /\ \A o \in Sub : o # s => subTask'[o] = subTask[o]
  BY <1>1, SubsTypes
<1>5. s \notin Holding /\ Holding' = Holding \cup {s}
  BY <1>1, <1>2, <1>4 DEF Holding
<1>6. IsFiniteSet(Holding') /\ Cardinality(Holding') <= SubPermits
  <2>1. IsFiniteSet(Holding') /\ Cardinality(Holding') = Cardinality(Holding) + 1
    BY <1>5, SubsTypes, FS_AddElement
  <2>2. Cardinality(Holding) \in Nat
    BY SubsTypes, FS_CardinalityType
  <2> QED BY <1>1, <2>1, <2>2, SubAssumption
<1>7. /\ subInbox' \in Seq(Messages) /\ Len(subInbox) \in Nat /\ DOMAIN subInbox = 1..Len(subInbox)
      /\ DOMAIN subInbox' = 1..(Len(subInbox) + 1) /\ subInbox'[Len(subInbox) + 1] = m
      /\ \A j \in 1..Len(subInbox) : subInbox'[j] = subInbox[j]
  BY <1>1, <1>3, InboxGrows DEF SubsInv
<1>8. s \in subKnown /\ s \in subUsed
  BY <1>1 DEF SubsInv, Tasked
<1>9. SubsTyped'
  <2>1. subTask' \in [Sub -> SubTasks]
    BY <1>1, <1>2, SubsTypes
  <2> QED BY <1>1, <1>6, <1>7, <2>1, SubsTypes DEF SubsTyped, SubsTypeOK, SubTasks, Messages
<1>10. Rowed' /\ SubsTakesOnce'
  BY <1>1 DEF SubsInv, Rowed, SubsTakesOnce
<1>11. Tasked'
  <2>1. \A o \in Sub : o \in subKnown' <=> subTask'[o].pc # "none"
    BY <1>1, <1>2, <1>4, <1>8 DEF SubsInv, Tasked
  <2>2. \A j \in DOMAIN subInbox' : subInbox'[j].sub \in subUsed'
    <3> SUFFICES ASSUME NEW j \in DOMAIN subInbox' PROVE subInbox'[j].sub \in subUsed'
      OBVIOUS
    <3>1. j \in DOMAIN subInbox \/ j = Len(subInbox) + 1
      BY <1>7
    <3> QED BY <1>1, <1>3, <1>7, <1>8, <3>1 DEF SubsInv, Tasked
  <2> QED BY <1>1, <2>1, <2>2 DEF SubsInv, Tasked
<1>12. Announced'
  <2>1. \A o \in Sub : o # m.sub => (o \in Holding' <=> o \in Holding)
    BY <1>3, <1>5
  <2>2. m.kind = "started" <=> m.sub \in Holding'
    BY <1>3, <1>5
  <2> QED BY <1>1, <1>3, <2>1, <2>2, AnnouncedGrows
<1>13. Marks'
  <2>1. ASSUME NEW o \in Sub
        PROVE  /\ subTask'[o].queued = subTask[o].queued /\ subTask'[o].todo = subTask[o].todo
               /\ subTask'[o].pc # "queue" => subTask'[o].queued = {} /\ subTask'[o].todo = {}
    <3>1. /\ subTask'[o].queued = subTask[o].queued /\ subTask'[o].todo = subTask[o].todo
          /\ subTask'[o].pc # "queue" => subTask[o].pc # "queue"
      BY <1>1, <1>2, <1>4
    <3> QED BY <3>1 DEF SubsInv, Marks
  <2>2. m.queued \subseteq subQueued[m.sub] /\ (m.kind = "started" => m.queued = {})
    BY <1>3
  <2> QED BY <1>1, <1>3, <2>1, <2>2, MarksGrow
<1> QED BY <1>9, <1>10, <1>11, <1>12, <1>13 DEF SubsInv

(* The engine takes part of what the check has before it.                  *)
LEMMA AddChunkKeeps ==
  ASSUME SubsInv, NEW s \in Sub, NEW chunk \in SUBSET Media, NEW taken \in SUBSET Media, AddChunk(s, chunk, taken)
  PROVE  SubsInv'
<1> DEFINE t == [subTask[s] EXCEPT !.todo = @ \ chunk, !.queued = subTask[s].queued \cup taken]
<1>1. /\ subTask[s].pc = "queue" /\ chunk \subseteq subTask[s].todo /\ taken \subseteq chunk
      /\ subTask' = [subTask EXCEPT ![s] = t]
      /\ subQueued' = [subQueued EXCEPT ![s] = @ \cup taken]
      /\ subAgain' = [subAgain EXCEPT ![s] = @ \cup (taken \cap subQueued[s])]
      /\ subUrl' = subUrl /\ subEnabled' = subEnabled /\ subSeen' = subSeen /\ subKnown' = subKnown /\ subIndex' = subIndex
      /\ subSlot' = subSlot /\ subPending' = subPending /\ subListing' = subListing /\ subUsed' = subUsed /\ subWatch' = subWatch
      /\ subBefore' = subBefore /\ subInbox' = subInbox /\ subExcuse' = subExcuse
  BY DEF AddChunk, TaskOnly, Recorded, subStore
<1>2. t \in SubTasks /\ t.pc = "queue" /\ t.todo = subTask[s].todo \ chunk /\ t.queued = subTask[s].queued \cup taken
  <2>1. subTask[s] \in SubTasks
    BY SubsTypes
  <2> QED BY <1>1, <2>1 DEF SubTasks, Pc
<1> HIDE DEF t
<1>3. subTask'[s] = t /\ \A o \in Sub : o # s => subTask'[o] = subTask[o]
  BY <1>1, SubsTypes
<1>4. subQueued'[s] = subQueued[s] \cup taken /\ \A o \in Sub : o # s => subQueued'[o] = subQueued[o]
  BY <1>1, SubsTypes
<1>5. subAgain'[s] = subAgain[s] \cup (taken \cap subQueued[s]) /\ \A o \in Sub : o # s => subAgain'[o] = subAgain[o]
  BY <1>1, SubsTypes
<1>6. Holding' = Holding
  BY <1>1, <1>2, <1>3 DEF Holding
<1>7. s \in subKnown /\ s \in subUsed
  BY <1>1 DEF SubsInv, Tasked
<1>8. SubsTyped'
  <2>1. subTask' \in [Sub -> SubTasks] /\ subQueued' \in [Sub -> SUBSET Media] /\ subAgain' \in [Sub -> SUBSET Media]
    BY <1>1, <1>2, SubsTypes
  <2> QED BY <1>1, <1>6, <2>1, SubsTypes DEF SubsTyped, SubsTypeOK, SubTasks, Messages
<1>9. Rowed'
  BY <1>1 DEF SubsInv, Rowed
<1>10. Tasked'
  <2>1. \A o \in Sub : o \in subKnown' <=> subTask'[o].pc # "none"
    BY <1>1, <1>2, <1>3, <1>7 DEF SubsInv, Tasked
  <2>2. \A o \in Sub \ subUsed' : subQueued'[o] = {}
    BY <1>1, <1>4, <1>7 DEF SubsInv, Tasked
  <2> QED BY <1>1, <2>1, <2>2 DEF SubsInv, Tasked
<1>11. Announced'
  BY <1>1, <1>6 DEF SubsInv, Announced, LatestOf
<1>12. Marks'
  <2>1. \A o \in Sub : subQueued[o] \subseteq subQueued'[o]
    BY <1>4
  <2>2. \A j \in DOMAIN subInbox' : subInbox'[j].sub \in Sub
    <3>1. \A j \in DOMAIN subInbox : subInbox[j] \in Messages
      BY SubsTypes
    <3> QED BY <1>1, <3>1 DEF Messages
  <2>3. /\ \A j \in DOMAIN subInbox' : subInbox'[j].queued \subseteq subQueued'[subInbox'[j].sub]
        /\ \A j \in DOMAIN subInbox' : subInbox'[j].kind = "started" => subInbox'[j].queued = {}
    BY <1>1, <2>1, <2>2 DEF SubsInv, Marks
  <2>4. ASSUME NEW o \in Sub
        PROVE  /\ subTask'[o].queued \subseteq subQueued'[o] /\ subTask'[o].todo \cap subQueued'[o] \subseteq subExcuse'[o]
               /\ subTask'[o].pc # "queue" => subTask'[o].queued = {} /\ subTask'[o].todo = {}
    <3>1. CASE o = s
      BY <1>1, <1>2, <1>3, <1>4, <3>1 DEF SubsInv, Marks
    <3>2. CASE o # s
      BY <1>1, <1>3, <1>4, <3>2 DEF SubsInv, Marks
    <3> QED BY <3>1, <3>2
  <2>5. ASSUME NEW o \in subKnown'
        PROVE  subQueued'[o] \subseteq subSeen'[o] \cup Reported(o)' \cup subTask'[o].queued \cup subExcuse'[o]
    <3>1. o \in subKnown /\ o \in Sub
      BY <1>1, SubsTypes
    <3>2. subQueued[o] \subseteq subSeen[o] \cup Reported(o) \cup subTask[o].queued \cup subExcuse[o]
      BY <3>1 DEF SubsInv, Marks
    <3>3. Reported(o)' = Reported(o)
      BY <1>1 DEF Reported
    <3>4. CASE o = s
      BY <1>1, <1>2, <1>3, <1>4, <3>2, <3>3, <3>4
    <3>5. CASE o # s
      BY <1>1, <1>3, <1>4, <3>1, <3>2, <3>3, <3>5
    <3> QED BY <3>4, <3>5
  <2> QED BY <2>3, <2>4, <2>5 DEF Marks
<1>13. SubsTakesOnce'
  <2> SUFFICES ASSUME NEW o \in Sub
               PROVE  subSeen'[o] \subseteq subQueued'[o] \cup subBefore'[o] /\ subAgain'[o] \subseteq subExcuse'[o]
    BY DEF SubsTakesOnce
  <2>1. subSeen[o] \subseteq subQueued[o] \cup subBefore[o] /\ subAgain[o] \subseteq subExcuse[o]
    BY DEF SubsInv, SubsTakesOnce
  <2>2. taken \cap subQueued[s] \subseteq subExcuse[s]
    BY <1>1 DEF SubsInv, Marks
  <2>3. CASE o = s
    BY <1>1, <1>4, <1>5, <2>1, <2>2, <2>3
  <2>4. CASE o # s
    BY <1>1, <1>4, <1>5, <2>1, <2>4
  <2> QED BY <2>3, <2>4
<1> QED BY <1>8, <1>9, <1>10, <1>11, <1>12, <1>13 DEF SubsInv

(* A check that reads the seen has what is neither seen nor reported, or   *)
(* excused, before it.                                                     *)
LEMMA ReadSeenKeeps ==
  ASSUME SubsInv, NEW s \in Sub, ReadSeen(s)
  PROVE  SubsInv'
<1> DEFINE t == [subTask[s] EXCEPT !.pc = "queue", !.feed = {}, !.todo = subTask[s].feed \ subSeen[s]]
<1>1. /\ subTask[s].pc = "read" /\ subTask' = [subTask EXCEPT ![s] = t]
      /\ subExcuse' = [subExcuse EXCEPT ![s] = @ \cup Reported(s)]
      /\ subUrl' = subUrl /\ subEnabled' = subEnabled /\ subSeen' = subSeen /\ subKnown' = subKnown /\ subIndex' = subIndex
      /\ subSlot' = subSlot /\ subPending' = subPending /\ subListing' = subListing /\ subUsed' = subUsed /\ subWatch' = subWatch
      /\ subBefore' = subBefore /\ subInbox' = subInbox /\ subQueued' = subQueued /\ subAgain' = subAgain
  BY DEF ReadSeen, TaskOnly, subStore
<1>2. t \in SubTasks /\ t.pc = "queue" /\ t.todo = subTask[s].feed \ subSeen[s] /\ t.queued = subTask[s].queued
  <2>1. subTask[s] \in SubTasks
    BY SubsTypes
  <2>2. subTask[s].feed \ subSeen[s] \in SUBSET Media
    BY <2>1 DEF SubTasks
  <2> QED BY <2>1, <2>2 DEF SubTasks, Pc
<1> HIDE DEF t
<1>3. subTask'[s] = t /\ \A o \in Sub : o # s => subTask'[o] = subTask[o]
  BY <1>1, SubsTypes
<1>4. subExcuse'[s] = subExcuse[s] \cup Reported(s) /\ \A o \in Sub : o # s => subExcuse'[o] = subExcuse[o]
  BY <1>1, SubsTypes
<1>5. Holding' = Holding
  BY <1>1, <1>2, <1>3 DEF Holding
<1>6. s \in subKnown /\ subTask[s].queued = {}
  BY <1>1 DEF SubsInv, Tasked, Marks
<1>7. SubsTyped'
  <2>1. Reported(s) \subseteq Media
    <3>1. \A j \in DOMAIN subInbox : subInbox[j].queued \subseteq Media
      <4>1. \A j \in DOMAIN subInbox : subInbox[j] \in Messages
        BY SubsTypes
      <4> QED BY <4>1 DEF Messages
    <3> QED BY <3>1, ReportedIs
  <2>2. subTask' \in [Sub -> SubTasks] /\ subExcuse' \in [Sub -> SUBSET Media]
    BY <1>1, <1>2, <2>1, SubsTypes
  <2> QED BY <1>1, <1>5, <2>2, SubsTypes DEF SubsTyped, SubsTypeOK, SubTasks, Messages
<1>8. Rowed'
  BY <1>1 DEF SubsInv, Rowed
<1>9. Tasked'
  <2>1. \A o \in Sub : o \in subKnown' <=> subTask'[o].pc # "none"
    BY <1>1, <1>2, <1>3, <1>6 DEF SubsInv, Tasked
  <2> QED BY <1>1, <2>1 DEF SubsInv, Tasked
<1>10. Announced'
  BY <1>1, <1>5 DEF SubsInv, Announced, LatestOf
<1>11. Marks'
  <2>1. \A o \in Sub : Reported(o)' = Reported(o)
    BY <1>1 DEF Reported
  <2>2. subQueued[s] \subseteq subSeen[s] \cup Reported(s) \cup subExcuse[s]
    BY <1>6 DEF SubsInv, Marks
  <2>3. ASSUME NEW o \in Sub
        PROVE  /\ subTask'[o].queued \subseteq subQueued'[o] /\ subTask'[o].todo \cap subQueued'[o] \subseteq subExcuse'[o]
               /\ subTask'[o].pc # "queue" => subTask'[o].queued = {} /\ subTask'[o].todo = {}
    <3>1. CASE o = s
      BY <1>1, <1>2, <1>3, <1>4, <1>6, <2>2, <3>1
    <3>2. CASE o # s
      BY <1>1, <1>3, <1>4, <3>2 DEF SubsInv, Marks
    <3> QED BY <3>1, <3>2
  <2>4. ASSUME NEW o \in subKnown'
        PROVE  subQueued'[o] \subseteq subSeen'[o] \cup Reported(o)' \cup subTask'[o].queued \cup subExcuse'[o]
    <3>1. o \in subKnown /\ o \in Sub
      BY <1>1, SubsTypes
    <3>2. subQueued[o] \subseteq subSeen[o] \cup Reported(o) \cup subTask[o].queued \cup subExcuse[o]
      BY <3>1 DEF SubsInv, Marks
    <3>3. subTask'[o].queued = subTask[o].queued /\ subExcuse[o] \subseteq subExcuse'[o]
      BY <1>2, <1>3, <1>4, <3>1
    <3> QED BY <1>1, <2>1, <3>1, <3>2, <3>3
  <2>5. /\ \A j \in DOMAIN subInbox' : subInbox'[j].queued \subseteq subQueued'[subInbox'[j].sub]
        /\ \A j \in DOMAIN subInbox' : subInbox'[j].kind = "started" => subInbox'[j].queued = {}
    BY <1>1 DEF SubsInv, Marks
  <2> QED BY <2>3, <2>4, <2>5 DEF Marks
<1>12. SubsTakesOnce'
  <2>1. \A o \in Sub : subExcuse[o] \subseteq subExcuse'[o]
    BY <1>4
  <2> QED BY <1>1, <2>1 DEF SubsInv, SubsTakesOnce
<1> QED BY <1>7, <1>8, <1>9, <1>10, <1>11, <1>12 DEF SubsInv

-----------------------------------------------------------------------------
(* The check ends with a report of all it queued, or is cut off and what   *)
(* it queued is excused.                                                   *)
LEMMA EndsKeeps ==
  ASSUME SubsInv, NEW s \in Sub, CheckEnds(s) \/ CutOff(s)
  PROVE  SubsInv'
<1> DEFINE t == [NoTask EXCEPT !.pc = "idle"]
           report == IF CheckEnds(s) THEN subTask[s].queued ELSE {}
           m == Done(s, report)
<1>1. /\ s \in Holding /\ subTask' = [subTask EXCEPT ![s] = t] /\ subInbox' = Append(subInbox, m)
      /\ subUrl' = subUrl /\ subEnabled' = subEnabled /\ subSeen' = subSeen /\ subKnown' = subKnown /\ subIndex' = subIndex
      /\ subSlot' = subSlot /\ subPending' = subPending /\ subListing' = subListing /\ subUsed' = subUsed /\ subWatch' = subWatch
      /\ subBefore' = subBefore /\ subQueued' = subQueued /\ subAgain' = subAgain
  <2>1. CASE CheckEnds(s)
    BY <2>1 DEF CheckEnds, Ends, TaskOnly, subStore, Holding
  <2>2. CASE ~CheckEnds(s)
    BY <2>2 DEF CutOff, Ends, TaskOnly, subStore, Holding
  <2> QED BY <2>1, <2>2
<1>2. t \in SubTasks /\ t.pc = "idle" /\ t.todo = {} /\ t.queued = {}
  BY DEF NoTask, SubTasks, Pc, Due
<1>3. subTask[s] \in SubTasks /\ subTask[s].queued \subseteq Media /\ report \subseteq subTask[s].queued
  BY SubsTypes DEF SubTasks
<1>4. m \in Messages /\ m.sub = s /\ m.kind = "done" /\ m.queued = report
  BY <1>3 DEF Done, Messages
<1>5. /\ subExcuse' \in [Sub -> SUBSET Media]
      /\ \A o \in Sub : subExcuse[o] \subseteq subExcuse'[o]
      /\ subTask[s].queued \subseteq report \cup subExcuse'[s]
  <2>1. CASE CheckEnds(s)
    BY <2>1, SubsTypes DEF CheckEnds
  <2>2. CASE ~CheckEnds(s)
    <3>1. subExcuse' = [subExcuse EXCEPT ![s] = @ \cup subTask[s].queued]
      BY <2>2 DEF CutOff
    <3> QED BY <1>3, <3>1, SubsTypes
  <2> QED BY <2>1, <2>2
<1>6. subTask'[s] = t /\ \A o \in Sub : o # s => subTask'[o] = subTask[o]
  BY <1>1, SubsTypes
<1> HIDE DEF t, m, report
<1>7. Holding' = Holding \ {s}
  BY <1>1, <1>2, <1>6 DEF Holding
<1>8. IsFiniteSet(Holding') /\ Cardinality(Holding') <= SubPermits
  <2>1. IsFiniteSet(Holding') /\ Cardinality(Holding') <= Cardinality(Holding)
    BY <1>7, SubsTypes, FS_Subset
  <2>2. Cardinality(Holding) \in Nat /\ Cardinality(Holding') \in Nat
    BY <2>1, SubsTypes, FS_CardinalityType
  <2> QED BY <2>1, <2>2, SubsTypes, SubAssumption
<1>9. /\ subInbox' \in Seq(Messages) /\ Len(subInbox) \in Nat /\ DOMAIN subInbox = 1..Len(subInbox)
      /\ DOMAIN subInbox' = 1..(Len(subInbox) + 1) /\ subInbox'[Len(subInbox) + 1] = m
      /\ \A j \in 1..Len(subInbox) : subInbox'[j] = subInbox[j]
  BY <1>1, <1>4, InboxGrows DEF SubsInv
<1>10. s \in subKnown /\ s \in subUsed
  BY <1>1 DEF SubsInv, Tasked, Holding
<1>11. SubsTyped'
  <2>1. subTask' \in [Sub -> SubTasks]
    BY <1>1, <1>2, SubsTypes
  <2> QED BY <1>1, <1>5, <1>8, <1>9, <2>1, SubsTypes DEF SubsTyped, SubsTypeOK, SubTasks, Messages
<1>12. Rowed'
  BY <1>1 DEF SubsInv, Rowed
<1>13. Tasked'
  <2>1. \A o \in Sub : o \in subKnown' <=> subTask'[o].pc # "none"
    BY <1>1, <1>2, <1>6, <1>10 DEF SubsInv, Tasked
  <2>2. \A j \in DOMAIN subInbox' : subInbox'[j].sub \in subUsed'
    <3> SUFFICES ASSUME NEW j \in DOMAIN subInbox' PROVE subInbox'[j].sub \in subUsed'
      OBVIOUS
    <3>1. j \in DOMAIN subInbox \/ j = Len(subInbox) + 1
      BY <1>9
    <3> QED BY <1>1, <1>4, <1>9, <1>10, <3>1 DEF SubsInv, Tasked
  <2> QED BY <1>1, <2>1, <2>2 DEF SubsInv, Tasked
<1>14. Announced'
  <2>1. \A o \in Sub : o # m.sub => (o \in Holding' <=> o \in Holding)
    BY <1>4, <1>7
  <2>2. m.kind = "started" <=> m.sub \in Holding'
    BY <1>4, <1>7
  <2> QED BY <1>1, <1>4, <2>1, <2>2, AnnouncedGrows
<1>15. Marks'
  <2>1. ASSUME NEW o \in Sub
        PROVE  /\ subTask'[o].queued \subseteq subTask[o].queued /\ subTask'[o].todo \subseteq subTask[o].todo
               /\ subTask'[o].pc # "queue" => subTask'[o].queued = {} /\ subTask'[o].todo = {}
               /\ subTask[o].queued \subseteq subTask'[o].queued \cup subExcuse'[o] \cup (IF o = m.sub THEN m.queued ELSE {})
    <3>1. CASE o = s
      BY <1>2, <1>4, <1>5, <1>6, <3>1
    <3>2. CASE o # s
      BY <1>6, <3>2 DEF SubsInv, Marks
    <3> QED BY <3>1, <3>2
  <2>2. m.queued \subseteq subQueued[m.sub] /\ (m.kind = "started" => m.queued = {})
    BY <1>3, <1>4 DEF SubsInv, Marks
  <2> QED BY <1>1, <1>4, <1>5, <2>1, <2>2, MarksGrow
<1>16. SubsTakesOnce'
  BY <1>1, <1>5 DEF SubsInv, SubsTakesOnce
<1> QED BY <1>11, <1>12, <1>13, <1>14, <1>15, <1>16 DEF SubsInv

(* The message at the head is handled: its slot shows what it said, which  *)
(* counts when it was the last of its sender.                              *)
LEMMA AnnouncedShrinks ==
  ASSUME SubsInv, subInbox # <<>>, subInbox' = Tail(subInbox), subKnown' = subKnown, Holding' = Holding,
         \A o \in subKnown :
           /\ o = Head(subInbox).sub => (subSlot'[o].checking <=> Head(subInbox).kind = "started")
           /\ o # Head(subInbox).sub => (subSlot'[o].checking <=> subSlot[o].checking)
  PROVE  Announced'
<1>1. /\ Len(subInbox) \in Nat /\ Len(subInbox) >= 1
      /\ DOMAIN subInbox = 1..Len(subInbox) /\ DOMAIN subInbox' = 1..(Len(subInbox) - 1)
      /\ Head(subInbox) = subInbox[1]
      /\ \A j \in 1..(Len(subInbox) - 1) : subInbox'[j] = subInbox[j + 1]
  BY InboxShrinks DEF SubsInv
<1> SUFFICES ASSUME NEW o \in subKnown'
             PROVE  /\ (\A j \in DOMAIN subInbox' : subInbox'[j].sub # o) => (subSlot'[o].checking <=> o \in Holding')
                    /\ \A j \in DOMAIN subInbox' : LatestOf(o, j)' => (subInbox'[j].kind = "started" <=> o \in Holding')
  BY DEF Announced
<1>2. o \in subKnown
  OBVIOUS
<1>3. \A k \in DOMAIN subInbox : k # 1 => k - 1 \in DOMAIN subInbox' /\ subInbox'[k - 1] = subInbox[k]
  BY <1>1
<1>4. ASSUME \A j \in DOMAIN subInbox' : subInbox'[j].sub # o
      PROVE  subSlot'[o].checking <=> o \in Holding'
  <2>1. \A k \in DOMAIN subInbox : subInbox[k].sub = o => k = 1
    BY <1>3, <1>4
  <2>2. CASE o = Head(subInbox).sub
    <3>1. LatestOf(o, 1) /\ 1 \in DOMAIN subInbox
      BY <1>1, <2>1, <2>2 DEF LatestOf
    <3>2. Head(subInbox).kind = "started" <=> o \in Holding
      BY <1>1, <1>2, <3>1 DEF SubsInv, Announced
    <3> QED BY <1>2, <2>2, <3>2
  <2>3. CASE o # Head(subInbox).sub
    <3>1. \A k \in DOMAIN subInbox : subInbox[k].sub # o
      BY <1>1, <2>1, <2>3
    <3> QED BY <1>2, <2>3, <3>1 DEF SubsInv, Announced
  <2> QED BY <2>2, <2>3
<1>5. ASSUME NEW j \in DOMAIN subInbox', LatestOf(o, j)'
      PROVE  subInbox'[j].kind = "started" <=> o \in Holding'
  <2>1. j + 1 \in DOMAIN subInbox /\ subInbox'[j] = subInbox[j + 1] /\ j \in Nat
    BY <1>1
  <2>2. \A k \in DOMAIN subInbox : subInbox[k].sub = o => k <= j + 1
    <3> SUFFICES ASSUME NEW k \in DOMAIN subInbox, subInbox[k].sub = o PROVE k <= j + 1
      OBVIOUS
    <3>1. CASE k = 1
      BY <2>1, <3>1
    <3>2. CASE k # 1
      <4>1. k - 1 \in DOMAIN subInbox' /\ subInbox'[k - 1].sub = o
        BY <1>3, <3>2
      <4>2. k - 1 <= j
        BY <1>5, <4>1 DEF LatestOf
      <4> QED BY <1>1, <2>1, <4>2
    <3> QED BY <3>1, <3>2
  <2>3. LatestOf(o, j + 1)
    BY <1>5, <2>1, <2>2 DEF LatestOf
  <2> QED BY <1>2, <2>1, <2>3 DEF SubsInv, Announced
<1> QED BY <1>4, <1>5

LEMMA ReportedShrinks ==
  ASSUME SubsInv, subInbox # <<>>, subInbox' = Tail(subInbox), NEW o \in Sub
  PROVE  Reported(o) \subseteq Reported(o)' \cup (IF o = Head(subInbox).sub THEN Head(subInbox).queued ELSE {})
<1>1. /\ Len(subInbox) \in Nat /\ Len(subInbox) >= 1
      /\ DOMAIN subInbox = 1..Len(subInbox) /\ DOMAIN subInbox' = 1..(Len(subInbox) - 1)
      /\ Head(subInbox) = subInbox[1]
      /\ \A j \in 1..(Len(subInbox) - 1) : subInbox'[j] = subInbox[j + 1]
  BY InboxShrinks DEF SubsInv
<1> SUFFICES ASSUME NEW x \in Reported(o)
             PROVE  x \in Reported(o)' \cup (IF o = Head(subInbox).sub THEN Head(subInbox).queued ELSE {})
  OBVIOUS
<1>2. PICK k \in DOMAIN subInbox : subInbox[k].sub = o /\ x \in subInbox[k].queued
  BY ReportedIs
<1>3. CASE k = 1
  BY <1>1, <1>2, <1>3
<1>4. CASE k # 1
  <2>1. k - 1 \in DOMAIN subInbox' /\ subInbox'[k - 1] = subInbox[k]
    BY <1>1, <1>4
  <2>2. x \in Reported(o)'
    BY <1>2, <2>1, ReportedNext
  <2> QED BY <2>2
<1> QED BY <1>3, <1>4

(* The messages that stay are messages that were.                          *)
LEMMA InboxKept ==
  ASSUME SubsInv, subInbox # <<>>, subInbox' = Tail(subInbox)
  PROVE  \A j \in DOMAIN subInbox' : \E k \in DOMAIN subInbox : subInbox'[j] = subInbox[k]
<1>1. /\ Len(subInbox) \in Nat /\ Len(subInbox) >= 1
      /\ DOMAIN subInbox = 1..Len(subInbox) /\ DOMAIN subInbox' = 1..(Len(subInbox) - 1)
      /\ \A j \in 1..(Len(subInbox) - 1) : subInbox'[j] = subInbox[j + 1]
  BY InboxShrinks DEF SubsInv
<1> SUFFICES ASSUME NEW j \in DOMAIN subInbox' PROVE \E k \in DOMAIN subInbox : subInbox'[j] = subInbox[k]
  OBVIOUS
<1>2. j + 1 \in DOMAIN subInbox /\ subInbox'[j] = subInbox[j + 1]
  BY <1>1
<1> QED BY <1>2

LEMMA OnStartedKeeps == SubsInv /\ OnStarted => SubsInv'
<1> SUFFICES ASSUME SubsInv, OnStarted PROVE SubsInv'
  OBVIOUS
<1> DEFINE s == Head(subInbox).sub
<1>1. /\ subInbox # <<>> /\ Head(subInbox).kind = "started" /\ subInbox' = Tail(subInbox)
      /\ subSlot' = IF s \in subKnown THEN [subSlot EXCEPT ![s].checking = TRUE] ELSE subSlot
      /\ subUrl' = subUrl /\ subEnabled' = subEnabled /\ subSeen' = subSeen /\ subKnown' = subKnown /\ subIndex' = subIndex
      /\ subTask' = subTask /\ subPending' = subPending /\ subListing' = subListing /\ subUsed' = subUsed /\ subWatch' = subWatch
      /\ subBefore' = subBefore /\ subQueued' = subQueued /\ subAgain' = subAgain /\ subExcuse' = subExcuse
  BY DEF OnStarted, subStore, subHistory
<1>2. /\ subInbox' \in Seq(Messages) /\ Len(subInbox) \in Nat /\ Len(subInbox) >= 1
      /\ DOMAIN subInbox = 1..Len(subInbox) /\ Head(subInbox) = subInbox[1] /\ Head(subInbox) \in Messages
  BY <1>1, InboxShrinks DEF SubsInv
<1>3. s \in Sub /\ Head(subInbox).queued = {}
  BY <1>1, <1>2 DEF Messages, SubsInv, Marks
<1> HIDE DEF s
<1>4. Holding' = Holding
  BY <1>1 DEF Holding
<1>5. /\ subSlot' \in [Sub -> [enabled : BOOLEAN, checking : BOOLEAN]]
      /\ \A o \in Sub : subSlot'[o].enabled = subSlot[o].enabled
      /\ \A o \in Sub \ subKnown : subSlot'[o] = subSlot[o]
      /\ \A o \in subKnown : subSlot'[o].checking = IF o = s THEN TRUE ELSE subSlot[o].checking
  BY <1>1, <1>3, SubsTypes
<1>6. SubsTyped'
  BY <1>1, <1>2, <1>4, <1>5, SubsTypes DEF SubsTyped, SubsTypeOK, SubTasks, Messages
<1>7. Rowed' /\ SubsTakesOnce'
  BY <1>1, <1>5, SubsTypes DEF SubsInv, Rowed, SubsTakesOnce
<1>8. Tasked'
  <2>1. \A j \in DOMAIN subInbox' : subInbox'[j].sub \in subUsed'
    BY <1>1, InboxKept DEF SubsInv, Tasked
  <2> QED BY <1>1, <1>5, <2>1 DEF SubsInv, Tasked
<1>9. Announced'
  <2>1. \A o \in subKnown :
           /\ o = s => (subSlot'[o].checking <=> Head(subInbox).kind = "started")
           /\ o # s => (subSlot'[o].checking <=> subSlot[o].checking)
    BY <1>1, <1>5
  <2> QED BY <1>1, <1>4, <2>1, AnnouncedShrinks DEF s
<1>10. Marks'
  <2>1. \A o \in Sub : Reported(o) \subseteq Reported(o)'
    BY <1>1, <1>3, ReportedShrinks
  <2>2. /\ \A j \in DOMAIN subInbox' : subInbox'[j].queued \subseteq subQueued'[subInbox'[j].sub]
        /\ \A j \in DOMAIN subInbox' : subInbox'[j].kind = "started" => subInbox'[j].queued = {}
    BY <1>1, InboxKept DEF SubsInv, Marks
  <2>3. \A o \in subKnown' : subQueued'[o] \subseteq subSeen'[o] \cup Reported(o)' \cup subTask'[o].queued \cup subExcuse'[o]
    BY <1>1, <2>1, SubsTypes DEF SubsInv, Marks
  <2> QED BY <1>1, <2>2, <2>3 DEF SubsInv, Marks
<1> QED BY <1>6, <1>7, <1>8, <1>9, <1>10 DEF SubsInv

-----------------------------------------------------------------------------
(* A report of a subscription that was deleted meanwhile is not heard.     *)
LEMMA UnheardKeeps ==
  ASSUME SubsInv, subInbox # <<>>, subInbox' = Tail(subInbox), Head(subInbox).sub \notin subKnown,
         UNCHANGED <<subUrl, subEnabled, subSeen, subKnown, subIndex, subSlot, subPending, subListing, subUsed, subTask, subWatch>>,
         UNCHANGED <<subBefore, subQueued, subAgain, subExcuse>>
  PROVE  SubsInv'
<1>1. Holding' = Holding
  BY DEF Holding
<1>2. SubsTyped'
  <2>1. subInbox' \in Seq(Messages)
    BY InboxShrinks DEF SubsInv
  <2> QED BY <1>1, <2>1, SubsTypes DEF SubsTyped, SubsTypeOK, SubTasks, Messages
<1>3. Rowed' /\ SubsTakesOnce'
  BY DEF SubsInv, Rowed, SubsTakesOnce
<1>4. Tasked'
  BY InboxKept DEF SubsInv, Tasked
<1>5. Announced'
  BY <1>1, AnnouncedShrinks
<1>6. Marks'
  <2>1. /\ \A j \in DOMAIN subInbox' : subInbox'[j].queued \subseteq subQueued'[subInbox'[j].sub]
        /\ \A j \in DOMAIN subInbox' : subInbox'[j].kind = "started" => subInbox'[j].queued = {}
    BY InboxKept DEF SubsInv, Marks
  <2>2. \A o \in subKnown : Reported(o) \subseteq Reported(o)'
    BY ReportedShrinks, SubsTypes
  <2>3. \A o \in subKnown' : subQueued'[o] \subseteq subSeen'[o] \cup Reported(o)' \cup subTask'[o].queued \cup subExcuse'[o]
    BY <2>2, SubsTypes DEF SubsInv, Marks
  <2> QED BY <2>1, <2>3 DEF SubsInv, Marks
<1> QED BY <1>2, <1>3, <1>4, <1>5, <1>6 DEF SubsInv

(* The report of a check is written, or its marks are lost and excused.    *)
LEMMA FinishCheckKeeps ==
  ASSUME SubsInv, NEW ok \in BOOLEAN, FinishCheck(ok)
  PROVE  SubsInv'
<1> DEFINE m == Head(subInbox)
           s == m.sub
<1>1. /\ subInbox # <<>> /\ m.kind = "done" /\ subInbox' = Tail(subInbox)
      /\ subUrl' = subUrl /\ subEnabled' = subEnabled /\ subKnown' = subKnown /\ subIndex' = subIndex
      /\ subTask' = subTask /\ subPending' = subPending /\ subListing' = subListing /\ subUsed' = subUsed
      /\ subBefore' = subBefore /\ subQueued' = subQueued /\ subAgain' = subAgain
  BY DEF FinishCheck
<1>2. /\ subInbox' \in Seq(Messages) /\ Len(subInbox) \in Nat /\ Len(subInbox) >= 1
      /\ DOMAIN subInbox = 1..Len(subInbox) /\ m = subInbox[1] /\ m \in Messages
  BY <1>1, InboxShrinks DEF SubsInv
<1>3. s \in Sub /\ m.queued \subseteq Media /\ m.queued \subseteq subQueued[s]
  BY <1>1, <1>2 DEF Messages, SubsInv, Marks
<1>4. CASE s \notin subKnown
  <2>1. subSeen' = subSeen /\ subSlot' = subSlot /\ subWatch' = subWatch /\ subExcuse' = subExcuse
    BY <1>4 DEF FinishCheck
  <2>2. s \notin subKnown
    BY <1>4
  <2> HIDE DEF s
  <2> QED BY <1>1, <1>2, <2>1, <2>2, UnheardKeeps DEF s
<1>5. CASE s \in subKnown
  <2>1. /\ subSlot' = [subSlot EXCEPT ![s] = FinishedSlot(s, ok)]
        /\ subWatch' = [subWatch EXCEPT ![s] = [enabled |-> subSlot[s].enabled, due |-> "later", fresh |-> TRUE]]
        /\ \E kept \in IF ok /\ m.queued # {} THEN Marked(subSeen[s], m.queued) ELSE {subSeen[s]} :
             /\ subSeen' = [subSeen EXCEPT ![s] = kept]
             /\ subExcuse' = [subExcuse EXCEPT ![s] = @ \cup ((subSeen[s] \cup m.queued) \ kept)]
    BY <1>5 DEF FinishCheck, Send
  <2>2. PICK kept \in IF ok /\ m.queued # {} THEN Marked(subSeen[s], m.queued) ELSE {subSeen[s]} :
             /\ subSeen' = [subSeen EXCEPT ![s] = kept]
             /\ subExcuse' = [subExcuse EXCEPT ![s] = @ \cup ((subSeen[s] \cup m.queued) \ kept)]
    BY <2>1
  <2>3. kept \subseteq subSeen[s] \cup m.queued
    <3>1. CASE ok /\ m.queued # {}
      BY <2>2, <3>1, MarkedKeeps
    <3>2. CASE ~(ok /\ m.queued # {})
      BY <2>2, <3>2
    <3> QED BY <3>1, <3>2
  <2>4. /\ subSlot' \in [Sub -> [enabled : BOOLEAN, checking : BOOLEAN]]
        /\ subSlot'[s].enabled = subSlot[s].enabled /\ subSlot'[s].checking = FALSE
        /\ \A o \in Sub : o # s => subSlot'[o] = subSlot[o]
    <3> DEFINE q == [subSlot[s] EXCEPT !.checking = FALSE]
    <3>1. subSlot[s] \in [enabled : BOOLEAN, checking : BOOLEAN]
      BY <1>3, SubsTypes
    <3>2. q \in [enabled : BOOLEAN, checking : BOOLEAN] /\ q.enabled = subSlot[s].enabled /\ q.checking = FALSE
      BY <3>1
    <3>3. subSlot' = [subSlot EXCEPT ![s] = q]
      BY <2>1 DEF FinishedSlot
    <3> HIDE DEF q, s, m
    <3> QED BY <1>3, <3>2, <3>3, SubsTypes
  <2>5. subWatch' \in [Sub -> [enabled : BOOLEAN, due : Due, fresh : BOOLEAN]]
    <3>1. subSlot[s].enabled \in BOOLEAN
      BY <1>3, SubsTypes
    <3>2. [enabled |-> subSlot[s].enabled, due |-> "later", fresh |-> TRUE] \in [enabled : BOOLEAN, due : Due, fresh : BOOLEAN]
      BY <3>1 DEF Due
    <3> QED BY <2>1, <3>2, SubsTypes
  <2> HIDE DEF s, m
  <2>6. /\ subSeen' \in [Sub -> SUBSET Media] /\ subExcuse' \in [Sub -> SUBSET Media]
        /\ subSeen'[s] = kept /\ subExcuse'[s] = subExcuse[s] \cup ((subSeen[s] \cup m.queued) \ kept)
        /\ \A o \in Sub : o # s => subSeen'[o] = subSeen[o] /\ subExcuse'[o] = subExcuse[o]
    <3>1. subSeen[s] \subseteq Media
      BY <1>3, SubsTypes
    <3> QED BY <1>3, <2>2, <2>3, <3>1, SubsTypes
  <2>7. Holding' = Holding
    BY <1>1 DEF Holding
  <2>8. SubsTyped'
    BY <1>1, <1>2, <2>4, <2>5, <2>6, <2>7, SubsTypes DEF SubsTyped, SubsTypeOK, SubTasks, Messages
  <2>9. Rowed'
    <3>1. \A o \in Sub : subSlot'[o].enabled = subSlot[o].enabled
      BY <2>4
    <3> QED BY <1>1, <3>1, SubsTypes DEF SubsInv, Rowed
  <2>10. Tasked'
    <3>1. \A j \in DOMAIN subInbox' : subInbox'[j].sub \in subUsed'
      BY <1>1, InboxKept DEF SubsInv, Tasked, m
    <3> QED BY <1>1, <1>5, <2>4, <3>1 DEF SubsInv, Tasked
  <2>11. Announced'
    <3>1. \A o \in subKnown :
            /\ o = s => (subSlot'[o].checking <=> m.kind = "started")
            /\ o # s => (subSlot'[o].checking <=> subSlot[o].checking)
      BY <1>1, <2>4, SubsTypes
    <3> QED BY <1>1, <2>7, <3>1, AnnouncedShrinks DEF s, m
  <2>12. Marks'
    <3>1. \A o \in Sub : Reported(o) \subseteq Reported(o)' \cup (IF o = s THEN m.queued ELSE {})
      BY <1>1, ReportedShrinks DEF s, m
    <3>2. /\ \A j \in DOMAIN subInbox' : subInbox'[j].queued \subseteq subQueued'[subInbox'[j].sub]
          /\ \A j \in DOMAIN subInbox' : subInbox'[j].kind = "started" => subInbox'[j].queued = {}
      BY <1>1, InboxKept DEF SubsInv, Marks, m
    <3>3. \A o \in Sub : subExcuse[o] \subseteq subExcuse'[o]
      BY <2>6
    <3>4. ASSUME NEW o \in subKnown'
          PROVE  subQueued'[o] \subseteq subSeen'[o] \cup Reported(o)' \cup subTask'[o].queued \cup subExcuse'[o]
      <4>1. o \in subKnown /\ o \in Sub
        BY <1>1, SubsTypes
      <4>2. subQueued[o] \subseteq subSeen[o] \cup Reported(o) \cup subTask[o].queued \cup subExcuse[o]
        BY <4>1 DEF SubsInv, Marks
      <4>3. CASE o = s
        <5>1. subSeen[s] \cup m.queued \subseteq subSeen'[s] \cup subExcuse'[s]
          BY <2>6
        <5>2. Reported(o) \subseteq Reported(o)' \cup m.queued
          BY <3>1, <4>1, <4>3
        <5> QED BY <1>1, <3>3, <4>1, <4>2, <4>3, <5>1, <5>2
      <4>4. CASE o # s
        <5>1. Reported(o) \subseteq Reported(o)'
          BY <3>1, <4>1, <4>4
        <5> QED BY <1>1, <2>6, <4>1, <4>2, <4>4, <5>1
      <4> QED BY <4>3, <4>4
    <3>5. \A o \in Sub : /\ subTask'[o].queued \subseteq subQueued'[o]
                         /\ subTask'[o].todo \cap subQueued'[o] \subseteq subExcuse'[o]
                         /\ subTask'[o].pc # "queue" => subTask'[o].queued = {} /\ subTask'[o].todo = {}
      BY <1>1, <3>3 DEF SubsInv, Marks
    <3> QED BY <3>2, <3>4, <3>5 DEF Marks
  <2>13. SubsTakesOnce'
    <3> SUFFICES ASSUME NEW o \in Sub
                 PROVE  subSeen'[o] \subseteq subQueued'[o] \cup subBefore'[o] /\ subAgain'[o] \subseteq subExcuse'[o]
      BY DEF SubsTakesOnce
    <3>1. subSeen[o] \subseteq subQueued[o] \cup subBefore[o] /\ subAgain[o] \subseteq subExcuse[o]
      BY DEF SubsInv, SubsTakesOnce
    <3>2. CASE o = s
      BY <1>1, <1>3, <2>3, <2>6, <3>1, <3>2
    <3>3. CASE o # s
      BY <1>1, <2>6, <3>1, <3>3
    <3> QED BY <3>2, <3>3
  <2> QED BY <2>8, <2>9, <2>10, <2>11, <2>12, <2>13 DEF SubsInv
<1> QED BY <1>4, <1>5

(* The process ends: what no check will report any more is excused.        *)
LEMMA RestartKeeps == SubsInv /\ Restart => SubsInv'
<1> SUFFICES ASSUME SubsInv, Restart PROVE SubsInv'
  OBVIOUS
<1>1. /\ subKnown' = {s \in Sub : subUrl[s] # NoUrl}
      /\ subIndex' = {<<subUrl[s], s>> : s \in {x \in Sub : subUrl[x] # NoUrl}}
      /\ subSlot' = [s \in Sub |-> [NoSlot EXCEPT !.enabled = subEnabled[s]]]
      /\ subWatch' = [s \in Sub |-> Quiet]
      /\ subTask' = [s \in Sub |-> IF s \in {x \in Sub : subUrl[x] # NoUrl} THEN Spawned(subEnabled[s]) ELSE NoTask]
      /\ subPending' = {} /\ subInbox' = <<>>
      /\ subExcuse' = [s \in Sub |-> subExcuse[s] \cup subTask[s].queued \cup Reported(s)]
      /\ subUrl' = subUrl /\ subEnabled' = subEnabled /\ subSeen' = subSeen /\ subListing' = subListing /\ subUsed' = subUsed
      /\ subBefore' = subBefore /\ subQueued' = subQueued /\ subAgain' = subAgain
  BY DEF Restart, subStore
<1>2. subKnown' = subKnown
  BY <1>1, SubsTypes DEF SubsInv, Rowed
<1>3. DOMAIN subInbox' = {} /\ subInbox' \in Seq(Messages)
  BY <1>1
<1>4. \A s \in Sub : LET q == [NoSlot EXCEPT !.enabled = subEnabled[s]] IN
        q \in [enabled : BOOLEAN, checking : BOOLEAN] /\ q.enabled = subEnabled[s] /\ q.checking = FALSE
  BY SubsTypes DEF NoSlot
<1>5. \A s \in Sub : subSlot'[s].enabled = subEnabled[s] /\ subSlot'[s].checking = FALSE
  BY <1>1, <1>4
<1>6. \A s \in Sub \ subKnown : subSlot'[s] = NoSlot
  <2> SUFFICES ASSUME NEW s \in Sub \ subKnown PROVE subSlot'[s] = NoSlot
    OBVIOUS
  <2>1. subEnabled[s] = FALSE
    BY SubsTypes DEF SubsInv, Tasked
  <2> QED BY <1>1, <2>1 DEF NoSlot
<1>7. \A s \in Sub : LET t == Spawned(subEnabled[s]) IN t \in SubTasks /\ t.pc = "idle" /\ t.todo = {} /\ t.queued = {}
  BY SubsTypes DEF Spawned, NoTask, SubTasks, Pc, Due
<1>8. NoTask \in SubTasks /\ NoTask.pc = "none" /\ NoTask.todo = {} /\ NoTask.queued = {}
  BY DEF NoTask, SubTasks, Pc, Due
<1>9. \A s \in Sub : /\ subTask'[s] \in SubTasks /\ subTask'[s].todo = {} /\ subTask'[s].queued = {}
                     /\ subTask'[s].pc = IF s \in subKnown THEN "idle" ELSE "none"
  BY <1>1, <1>2, <1>7, <1>8
<1>10. Holding' = {}
  BY <1>9 DEF Holding
<1>11. \A s \in Sub : Reported(s) \subseteq Media /\ subTask[s].queued \subseteq Media
  <2>1. \A j \in DOMAIN subInbox : subInbox[j] \in Messages
    BY SubsTypes
  <2>2. \A j \in DOMAIN subInbox : subInbox[j].queued \subseteq Media
    BY <2>1 DEF Messages
  <2> QED BY <2>2, ReportedIs, SubsTypes DEF SubTasks
<1>12. SubsTyped'
  <2>1. IsFiniteSet(Holding') /\ Cardinality(Holding') <= SubPermits
    BY <1>10, FS_EmptySet, SubAssumption
  <2>2. subIndex' \subseteq RawUrl \X Sub
    <3>1. \A s \in Sub : subUrl[s] # NoUrl => subUrl[s] \in RawUrl
      BY SubsTypes
    <3> QED BY <1>1, <3>1
  <2>3. subExcuse' \in [Sub -> SUBSET Media]
    BY <1>1, <1>11, SubsTypes
  <2>4. subTask' \in [Sub -> SubTasks]
    BY <1>1, <1>9
  <2>5. subWatch' \in [Sub -> [enabled : BOOLEAN, due : Due, fresh : BOOLEAN]]
    <3>1. Quiet \in [enabled : BOOLEAN, due : Due, fresh : BOOLEAN]
      BY DEF Quiet, Due
    <3> QED BY <1>1, <3>1
  <2>6. subSlot' \in [Sub -> [enabled : BOOLEAN, checking : BOOLEAN]]
    BY <1>1, <1>4
  <2>7. subPending' \subseteq [url : RawUrl, state : {"asked", "found", "failed"}, feed : SUBSET Media]
    BY <1>1
  <2> QED BY <1>1, <1>2, <1>3, <2>1, <2>2, <2>3, <2>4, <2>5, <2>6, <2>7, SubsTypes DEF SubsTyped, SubsTypeOK, SubTasks, Messages
<1>13. Rowed'
  BY <1>1, <1>2, <1>5, SubsTypes DEF SubsInv, Rowed
<1>14. Tasked'
  BY <1>1, <1>2, <1>3, <1>6, <1>9 DEF SubsInv, Tasked
<1>15. Announced'
  BY <1>2, <1>3, <1>5, <1>10, SubsTypes DEF Announced
<1>16. Marks' /\ SubsTakesOnce'
  <2>1. \A s \in Sub : subExcuse'[s] = subExcuse[s] \cup subTask[s].queued \cup Reported(s)
    BY <1>1
  <2>2. SubsTakesOnce'
    BY <1>1, <2>1 DEF SubsInv, SubsTakesOnce
  <2>3. ASSUME NEW s \in subKnown'
        PROVE  subQueued'[s] \subseteq subSeen'[s] \cup Reported(s)' \cup subTask'[s].queued \cup subExcuse'[s]
    <3>1. s \in subKnown /\ s \in Sub
      BY <1>2, SubsTypes
    <3> QED BY <1>1, <2>1, <3>1 DEF SubsInv, Marks
  <2>4. Marks'
    BY <1>3, <1>9, <2>3 DEF Marks
  <2> QED BY <2>2, <2>4
<1> QED BY <1>12, <1>13, <1>14, <1>15, <1>16 DEF SubsInv

LEMMA SubsSteps == SubsInv /\ [SubsNext]_subVars => SubsInv'
<1> SUFFICES ASSUME SubsInv, [SubsNext]_subVars PROVE SubsInv'
  OBVIOUS
<1>1. CASE UNCHANGED subVars
  <2>1. UNCHANGED <<subUrl, subEnabled, subSeen, subKnown, subIndex, subSlot, subPending, subInbox, subListing, subUsed, subHistory,
                    subTask, subWatch>>
    BY <1>1 DEF subVars, subStore
  <2>2. Holding' = Holding /\ Rowed' /\ Tasked' /\ Announced' /\ Marks' /\ SubsTakesOnce'
    BY <2>1, SameKept
  <2> QED BY <2>1, <2>2, CalmTyped, SubsTypes DEF SubsInv
<1>2. CASE \/ \E m \in Media : Publish(m)
           \/ \E r \in RawUrl : BeginSubscribe(r)
           \/ \E p \in subPending, found \in BOOLEAN : ProbeEnds(p, found)
           \/ \E s \in Sub : CheckNow(s)
  BY <1>2, CalmKeeps
<1>3. CASE \E p \in subPending, s \in Sub, upcoming \in SUBSET Media, ok \in BOOLEAN : OnProbed(p, s, upcoming, ok)
  BY <1>3, OnProbedKeeps
<1>4. CASE \E s \in Sub, ok, enabled \in BOOLEAN, due \in Due : Update(s, enabled, due, ok)
  BY <1>4, UpdateKeeps
<1>5. CASE \E s \in Sub, ok \in BOOLEAN : Delete(s, ok)
  BY <1>5, DeleteKeeps
<1>6. CASE \E s \in Sub : DueComes(s) \/ Reschedule(s) \/ WakeUp(s) \/ ListFeed(s)
  BY <1>6, WaitsKeep
<1>7. CASE \E s \in Sub : Acquire(s)
  BY <1>7, AcquireKeeps
<1>8. CASE \E s \in Sub : CheckEnds(s) \/ CutOff(s)
  BY <1>8, EndsKeeps
<1>9. CASE \E s \in Sub : ReadSeen(s)
  BY <1>9, ReadSeenKeeps
<1>10. CASE \E s \in Sub : AddChunk(s, subTask[s].todo, subTask[s].todo)
  <2>1. PICK s \in Sub : AddChunk(s, subTask[s].todo, subTask[s].todo)
    BY <1>10
  <2>2. subTask[s].todo \in SUBSET Media
    BY SubsTypes DEF SubTasks
  <2> QED BY <2>1, <2>2, AddChunkKeeps
<1>11. CASE \E s \in Sub, chunk, taken \in SUBSET Media : AddChunk(s, chunk, taken)
  BY <1>11, AddChunkKeeps
<1>12. CASE OnStarted
  BY <1>12, OnStartedKeeps
<1>13. CASE \E ok \in BOOLEAN : FinishCheck(ok)
  BY <1>13, FinishCheckKeeps
<1>14. CASE Restart
  BY <1>14, RestartKeeps
<1> QED BY <1>1, <1>2, <1>3, <1>4, <1>5, <1>6, <1>7, <1>8, <1>9, <1>10, <1>11, <1>12, <1>13, <1>14 DEF SubsNext, SubTaskStep

(* What the invariant says of what is served and recorded.                 *)
LEMMA SubsSay == SubsInv => SubsAreTrue
<1> SUFFICES ASSUME SubsInv PROVE SubsAreTrue
  OBVIOUS
<1>1. subKnown = {s \in Sub : subUrl[s] # NoUrl}
  BY SubsTypes DEF SubsInv, Rowed
<1>2. subInbox = <<>> => \A s \in subKnown : subSlot[s].checking <=> s \in Holding
  <2>1. subInbox = <<>> => DOMAIN subInbox = {}
    OBVIOUS
  <2> QED BY <2>1 DEF SubsInv, Announced
<1> QED BY <1>1, <1>2 DEF SubsInv, Rowed, SubsAreTrue, SubsServedIsTrue

(* Type correctness of the subscriptions, the bound of the permits with it.*)
THEOREM SubsTypesHold == SubsSpec => []SubsTypeOK
<1>1. SubsInv => SubsTypeOK
  BY DEF SubsInv, SubsTyped
<1> QED BY <1>1, SubsStarts, SubsSteps, PTL DEF SubsSpec

(* What the manager serves is what a boot would load, and checking is      *)
(* shown of the checks that run; nothing is seen that was not queued or    *)
(* listed before, and nothing is queued twice without its excuse.          *)
THEOREM SubsStayTrue == SubsSpec => [][SubsAreTrue']_subVars
<1>1. SubsInv /\ SubsInv' /\ [SubsNext]_subVars => [SubsAreTrue']_subVars
  <2>1. SubsInv' => SubsAreTrue'
    BY SubsSay, PTL
  <2> QED BY <2>1
<1> QED BY <1>1, SubsStarts, SubsSteps, PTL DEF SubsSpec

-----------------------------------------------------------------------------
(* The strengthening of OptionsKeepJar: unless two changes overlapped, one *)
(* cookie route at most is half way, the jar is as it left it, and what it *)
(* will store says so; and none is half way before the boot.               *)
OpPc == {"off", "read", "filed", "copied", "stored", "print", "told", "gone"}
OpTasks == [pc : OpPc, seen : [ver : 0..OpEdits, ok : BOOLEAN], copy : [ver : 0..OpEdits, jar : BOOLEAN]]
OptionsTyped == OptionsTypeOK /\ opTask \in [Tasks -> OpTasks]
Cookies == OpCalls \cap Clerks
JarHeld ==
  /\ \A c \in Cookies : Busy(c) /\ ~opRaced => opJar = (c = "upload") /\ \A d \in Cookies : Busy(d) => d = c
  /\ opUp \in {"down", "boot", "start"} => \A c \in Cookies : ~Busy(c)
OptionsInv == OptionsTyped /\ JarHeld /\ OptionsKeepJar

LEMMA OpRest == ASSUME NEW pc \in OpPc PROVE Rest(pc) \in OpTasks /\ Rest(pc).pc = pc
BY OpAssumption DEF Rest, Task, Nowhere, OpTasks

LEMMA OptionsStarts == OptionsInit => OptionsInv
<1> SUFFICES ASSUME OptionsInit PROVE OptionsInv
  OBVIOUS
<1>1. opTask \in [Tasks -> OpTasks] /\ \A t \in Tasks : opTask[t].pc = "off"
  <2>1. Rest("off") \in OpTasks /\ Rest("off").pc = "off"
    BY OpRest DEF OpPc
  <2> QED BY <2>1 DEF OptionsInit
<1>2. OptionsTyped
  <2>1. 0 \in 0..OpEdits /\ 0 \in 0..OpBoots
    BY OpAssumption
  <2>2. opNative \in OpBackends /\ opJar \in BOOLEAN /\ opUp = "down" /\ opBoots = 0 /\ opPrints = 0
        /\ opBell = FALSE /\ opArmed = FALSE /\ opLost = FALSE /\ opRaced = FALSE
    BY DEF OptionsInit
  <2>3. opFile \in [ver : 0..OpEdits, ok : BOOLEAN] /\ opHealth \in [ver : 0..OpEdits, ok : BOOLEAN]
    BY <2>1 DEF OptionsInit
  <2>4. opSwap \in [ver : 0..OpEdits, jar : BOOLEAN]
    BY <2>1 DEF OptionsInit
  <2> QED BY <1>1, <2>1, <2>2, <2>3, <2>4 DEF OptionsTyped, OptionsTypeOK
<1>3. JarHeld /\ OptionsKeepJar
  BY <1>1 DEF OptionsInit, JarHeld, Cookies, Tasks, Busy, OptionsKeepJar
<1> QED BY <1>2, <1>3 DEF OptionsInv

LEMMA OptionsTypes ==
  ASSUME OptionsInv
  PROVE  /\ opNative \in OpBackends /\ opFile \in [ver : 0..OpEdits, ok : BOOLEAN] /\ opJar \in BOOLEAN
         /\ opSwap \in [ver : 0..OpEdits, jar : BOOLEAN] /\ opHealth \in [ver : 0..OpEdits, ok : BOOLEAN]
         /\ opUp \in {"down", "boot", "start", "up"} /\ opBoots \in 0..OpBoots
         /\ opBell \in BOOLEAN /\ opArmed \in BOOLEAN /\ opLost \in BOOLEAN /\ opRaced \in BOOLEAN /\ opPrints \in 0..OpEdits
         /\ opTask \in [Tasks -> OpTasks] /\ Cookies \subseteq Tasks /\ OpEdits \in Nat /\ OpBoots \in Nat
         /\ \A t \in Cookies : t \in Clerks /\ t \notin Loaders
BY OpAssumption DEF OptionsInv, OptionsTyped, OptionsTypeOK, Cookies, Tasks, Clerks, Loaders

(* A step that leaves the jar, the snapshot's word on it, and the cookie   *)
(* routes alone.                                                           *)
LEMMA JarKept ==
  ASSUME OptionsInv, opJar' = opJar, opRaced \/ opSwap'.jar = opSwap.jar, opRaced' = opRaced,
         opUp' = opUp \/ (opUp' \in {"start", "up"} /\ opUp \in {"boot", "start"}),
         \A c \in Cookies : Busy(c)' <=> Busy(c)
  PROVE  JarHeld' /\ OptionsKeepJar'
<1>1. JarHeld'
  BY OptionsTypes DEF OptionsInv, JarHeld, Cookies
<1>2. OptionsKeepJar'
  BY OptionsTypes DEF OptionsInv, OptionsKeepJar, Cookies
<1> QED BY <1>1, <1>2

LEMMA EditKeeps == ASSUME OptionsInv, NEW ok \in BOOLEAN, Edit(ok) PROVE OptionsInv'
<1>1. /\ opFile.ver < OpEdits /\ opFile' = [ver |-> opFile.ver + 1, ok |-> ok] /\ opBell' = (opBell \/ Watched)
      /\ UNCHANGED <<opNative, opJar, opSwap, opHealth, opUp, opBoots, opArmed, opPrints, opTask, opLost, opRaced>>
  BY DEF Edit, opHistory
<1>2. opFile' \in [ver : 0..OpEdits, ok : BOOLEAN] /\ opBell' \in BOOLEAN
  BY <1>1, OptionsTypes DEF Watched
<1>3. OptionsTyped'
  BY <1>1, <1>2, OptionsTypes DEF OptionsTyped, OptionsTypeOK
<1>4. JarHeld' /\ OptionsKeepJar'
  BY <1>1, JarKept DEF Busy
<1> QED BY <1>3, <1>4 DEF OptionsInv

LEMMA CrashKeeps == OptionsInv /\ Crash => OptionsInv'
<1> SUFFICES ASSUME OptionsInv, Crash PROVE OptionsInv'
  OBVIOUS
<1>1. /\ opUp' = "down" /\ opBell' = FALSE /\ opArmed' = FALSE
      /\ opTask' = [t \in Tasks |-> IF Stands(t, "off") THEN opTask[t] ELSE Rest("gone")]
      /\ UNCHANGED <<opNative, opFile, opJar, opSwap, opHealth, opBoots, opPrints, opLost, opRaced>>
  BY DEF Crash, opHistory
<1>2. opTask' \in [Tasks -> OpTasks] /\ \A t \in Tasks : opTask'[t].pc \in {"off", "gone"}
  BY <1>1, OptionsTypes, OpRest DEF Stands, OpPc
<1>3. OptionsTyped'
  BY <1>1, <1>2, OptionsTypes DEF OptionsTyped, OptionsTypeOK
<1>4. JarHeld' /\ OptionsKeepJar'
  BY <1>1, <1>2, OptionsTypes DEF JarHeld, OptionsKeepJar, Cookies, Busy
<1> QED BY <1>3, <1>4 DEF OptionsInv

LEMMA FirstLoadKeeps == OptionsInv /\ FirstLoad => OptionsInv'
<1> SUFFICES ASSUME OptionsInv, FirstLoad PROVE OptionsInv'
  OBVIOUS
<1>1. /\ opUp = "down" /\ opBoots < OpBoots /\ opUp' = "boot" /\ opBoots' = opBoots + 1
      /\ opSwap' = [ver |-> opFile.ver, jar |-> opJar] /\ opTask' = [opTask EXCEPT !["watch"] = Rest("off")]
      /\ opHealth' = [ver |-> opFile.ver, ok |-> TRUE] /\ opLost' = FALSE /\ opRaced' = FALSE
      /\ UNCHANGED <<opNative, opFile, opJar, opBell, opArmed, opPrints>>
  BY DEF FirstLoad, Adopted, opWatcher
<1>2. opTask' \in [Tasks -> OpTasks] /\ \A c \in Cookies : opTask'[c] = opTask[c]
  <2>1. Rest("off") \in OpTasks
    BY OpRest DEF OpPc
  <2>2. "watch" \notin Cookies
    BY DEF Cookies, Clerks
  <2> QED BY <1>1, <2>1, <2>2, OptionsTypes
<1>3. OptionsTyped'
  <2>1. opBoots' \in 0..OpBoots
    BY <1>1, OptionsTypes
  <2>2. opSwap' \in [ver : 0..OpEdits, jar : BOOLEAN] /\ opHealth' \in [ver : 0..OpEdits, ok : BOOLEAN]
    BY <1>1, OptionsTypes
  <2> QED BY <1>1, <1>2, <2>1, <2>2, OptionsTypes DEF OptionsTyped, OptionsTypeOK
<1>4. \A c \in Cookies : ~Busy(c) /\ ~Busy(c)'
  BY <1>1, <1>2 DEF OptionsInv, JarHeld, Busy
<1>5. JarHeld' /\ OptionsKeepJar'
  BY <1>1, <1>4 DEF JarHeld, OptionsKeepJar, Cookies
<1> QED BY <1>3, <1>5 DEF OptionsInv

(* The boot goes on, and the watcher looks about.                          *)
LEMMA WatcherKeeps ==
  ASSUME OptionsInv, Start \/ Announce \/ Baseline \/ Ring \/ Poll \/ Fire \/ Fingerprint
  PROVE  OptionsInv'
<1>1. /\ UNCHANGED <<opNative, opFile, opJar, opSwap, opBoots, opRaced>>
      /\ opUp' = opUp \/ (opUp' \in {"start", "up"} /\ opUp \in {"boot", "start"})
  BY DEF Start, Announce, Baseline, Ring, Poll, Fire, Fingerprint, opHistory
<1>2. opUp' \in {"down", "boot", "start", "up"}
  BY <1>1, OptionsTypes
<1>3. opPrints' \in 0..OpEdits
  <2>1. opPrints' = opPrints \/ opPrints' = opFile.ver
    BY DEF Start, Announce, Baseline, Ring, Poll, Fire, Fingerprint, opWatcher
  <2> QED BY <2>1, OptionsTypes
<1>4. opHealth' \in [ver : 0..OpEdits, ok : BOOLEAN]
  <2>1. opHealth' = opHealth \/ opHealth' = [ver |-> opSwap.ver, ok |-> TRUE]
    BY DEF Start, Announce, Baseline, Ring, Poll, Fire, Fingerprint
  <2>2. [ver |-> opSwap.ver, ok |-> TRUE] \in [ver : 0..OpEdits, ok : BOOLEAN]
    BY OptionsTypes
  <2> QED BY <2>1, <2>2, OptionsTypes
<1>5. opBell' \in BOOLEAN /\ opArmed' \in BOOLEAN
  BY OptionsTypes DEF Start, Announce, Baseline, Ring, Poll, Fire, Fingerprint, opWatcher, PollArmed
<1>6. opLost' \in BOOLEAN
  <2>1. CASE Start \/ Ring \/ Poll \/ Fire
    BY <2>1, OptionsTypes DEF Start, Ring, Poll, Fire, opHistory
  <2>2. CASE Announce
    BY <2>2 DEF Announce
  <2>3. CASE Baseline
    BY <2>3 DEF Baseline
  <2>4. CASE Fingerprint
    BY <2>4 DEF Fingerprint
  <2> QED BY <2>1, <2>2, <2>3, <2>4
<1>7. /\ opTask' \in [Tasks -> OpTasks]
      /\ \A t \in Tasks : t # "watch" => opTask'[t] = opTask[t]
  <2>1. "watch" \in Tasks /\ opTask["watch"] \in OpTasks
    BY OptionsTypes DEF Tasks
  <2>2. CASE opTask' = opTask
    BY <2>2, OptionsTypes
  <2>3. CASE Baseline
    <3> DEFINE t == [opTask["watch"] EXCEPT !.pc = "told"]
    <3>1. opTask' = [opTask EXCEPT !["watch"] = t]
      BY <2>3 DEF Baseline, Moves
    <3>2. t \in OpTasks
      BY <2>1 DEF OpTasks, OpPc
    <3> HIDE DEF t
    <3> QED BY <3>1, <3>2, OptionsTypes
  <2>4. CASE Poll \/ Fire
    <3> DEFINE t == Task("read", opFile, opTask["watch"].copy)
    <3>1. opTask' = opTask \/ opTask' = [opTask EXCEPT !["watch"] = t]
      BY <2>4 DEF Poll, Fire, Reads
    <3>2. t \in OpTasks
      BY <2>1, OptionsTypes DEF OpTasks, OpPc, Task
    <3> HIDE DEF t
    <3> QED BY <3>1, <3>2, OptionsTypes
  <2>5. CASE Fingerprint
    <3>1. opTask' = [opTask EXCEPT !["watch"] = Rest("told")]
      BY <2>5 DEF Fingerprint, Rests
    <3> QED BY <3>1, OpRest, OptionsTypes DEF OpPc
  <2>6. CASE Start \/ Announce \/ Ring
    <3>1. opTask' = opTask
      BY <2>6 DEF Start, Announce, Ring
    <3> QED BY <2>2, <3>1
  <2> QED BY <2>3, <2>4, <2>5, <2>6
<1>8. OptionsTyped'
  BY <1>1, <1>2, <1>3, <1>4, <1>5, <1>6, <1>7, OptionsTypes DEF OptionsTyped, OptionsTypeOK
<1>9. \A c \in Cookies : Busy(c)' <=> Busy(c)
  BY <1>7, OptionsTypes DEF Busy, Loaders
<1>10. JarHeld' /\ OptionsKeepJar'
  BY <1>1, <1>9, JarKept
<1> QED BY <1>8, <1>10 DEF OptionsInv

(* Of a task, only where it stands changes, or it rests.                   *)
LEMMA TaskMoves ==
  ASSUME OptionsInv, NEW t \in Tasks, NEW pc \in OpPc, Moves(t, pc) \/ Rests(t, pc)
  PROVE  opTask' \in [Tasks -> OpTasks] /\ opTask'[t].pc = pc /\ \A o \in Tasks : o # t => opTask'[o] = opTask[o]
<1>1. opTask[t] \in OpTasks
  BY OptionsTypes
<1>2. CASE Moves(t, pc)
  <2> DEFINE n == [opTask[t] EXCEPT !.pc = pc]
  <2>1. opTask' = [opTask EXCEPT ![t] = n]
    BY <1>2 DEF Moves
  <2>2. n \in OpTasks /\ n.pc = pc
    BY <1>1 DEF OpTasks
  <2> HIDE DEF n
  <2> QED BY <2>1, <2>2, OptionsTypes
<1>3. CASE Rests(t, pc)
  <2>1. opTask' = [opTask EXCEPT ![t] = Rest(pc)]
    BY <1>3 DEF Rests
  <2>2. Rest(pc) \in OpTasks /\ Rest(pc).pc = pc
    BY OpRest
  <2> QED BY <2>1, <2>2, OptionsTypes
<1> QED BY <1>2, <1>3

LEMMA ReloadKeeps == ASSUME OptionsInv, NEW c \in OpCalls, Reload(c) PROVE OptionsInv'
<1> DEFINE n == Task("read", opFile, opTask[c].copy)
<1>1. /\ c \in Loaders /\ c \in Tasks /\ opTask' = [opTask EXCEPT ![c] = n]
      /\ UNCHANGED <<opNative, opFile, opJar, opSwap, opHealth, opUp, opBoots, opBell, opArmed, opPrints, opLost, opRaced>>
  BY DEF Reload, Reads, opWatcher, opHistory, Tasks
<1>2. n \in OpTasks
  <2>1. opTask[c] \in OpTasks
    BY <1>1, OptionsTypes
  <2> QED BY <2>1, OptionsTypes DEF OpTasks, OpPc, Task
<1> HIDE DEF n
<1>3. opTask' \in [Tasks -> OpTasks] /\ \A t \in Cookies : opTask'[t] = opTask[t]
  BY <1>1, <1>2, OptionsTypes
<1>4. OptionsTyped'
  BY <1>1, <1>3, OptionsTypes DEF OptionsTyped, OptionsTypeOK
<1>5. JarHeld' /\ OptionsKeepJar'
  BY <1>1, <1>3, JarKept DEF Busy
<1> QED BY <1>4, <1>5 DEF OptionsInv

LEMMA RefuseKeeps == ASSUME OptionsInv, NEW t \in Tasks, Refuse(t) PROVE OptionsInv'
<1>1. /\ t \in Loaders /\ Moves(t, "stored")
      /\ UNCHANGED <<opNative, opFile, opJar, opSwap, opHealth, opUp, opBoots, opBell, opArmed, opPrints, opLost, opRaced>>
  BY DEF Refuse, opWatcher, opHistory
<1>2. opTask' \in [Tasks -> OpTasks] /\ \A c \in Cookies : opTask'[c] = opTask[c]
  BY <1>1, TaskMoves, OptionsTypes DEF OpPc
<1>3. OptionsTyped'
  BY <1>1, <1>2, OptionsTypes DEF OptionsTyped, OptionsTypeOK
<1>4. JarHeld' /\ OptionsKeepJar'
  BY <1>1, <1>2, JarKept DEF Busy
<1> QED BY <1>3, <1>4 DEF OptionsInv

LEMMA CopyKeeps == ASSUME OptionsInv, NEW t \in Tasks, Copy(t) PROVE OptionsInv'
<1> DEFINE n == Task("copied", opTask[t].seen, opSwap)
<1>1. /\ t \in Loaders \/ (t \in Clerks /\ opTask[t].pc = "filed")
      /\ opTask' = [opTask EXCEPT ![t] = n]
      /\ UNCHANGED <<opNative, opFile, opJar, opSwap, opHealth, opUp, opBoots, opBell, opArmed, opPrints, opLost, opRaced>>
  BY DEF Copy, opWatcher, opHistory, Stands
<1>2. n \in OpTasks /\ n.pc = "copied"
  <2>1. opTask[t] \in OpTasks
    BY OptionsTypes
  <2> QED BY <2>1, OptionsTypes DEF OpTasks, OpPc, Task
<1> HIDE DEF n
<1>3. opTask' \in [Tasks -> OpTasks] /\ opTask'[t] = n /\ \A o \in Tasks : o # t => opTask'[o] = opTask[o]
  BY <1>1, <1>2, OptionsTypes
<1>4. OptionsTyped'
  BY <1>1, <1>3, OptionsTypes DEF OptionsTyped, OptionsTypeOK
<1>5. \A c \in Cookies : Busy(c)' <=> Busy(c)
  BY <1>1, <1>2, <1>3, OptionsTypes DEF Busy
<1>6. JarHeld' /\ OptionsKeepJar'
  BY <1>1, <1>5, JarKept
<1> QED BY <1>4, <1>6 DEF OptionsInv

LEMMA StoreKeeps == ASSUME OptionsInv, NEW t \in Tasks, Store(t) PROVE OptionsInv'
<1>1. /\ t \in Loaders /\ Moves(t, "stored") /\ opSwap' = Inherited(t)
      /\ opLost' = (opLost \/ opTask[t].seen.ver < opSwap.ver)
      /\ opRaced' = (opRaced \/ opTask[t].copy.jar # opSwap.jar)
      /\ UNCHANGED <<opNative, opFile, opJar, opHealth, opUp, opBoots, opBell, opArmed, opPrints>>
  BY DEF Store, opWatcher
<1>2. opTask' \in [Tasks -> OpTasks] /\ \A c \in Cookies : opTask'[c] = opTask[c]
  BY <1>1, TaskMoves, OptionsTypes DEF OpPc
<1>3. opSwap' \in [ver : 0..OpEdits, jar : BOOLEAN] /\ opSwap'.jar = opTask[t].copy.jar
  <2>1. opTask[t] \in OpTasks
    BY OptionsTypes
  <2> QED BY <1>1, <2>1 DEF Inherited, OpTasks
<1>4. opLost' \in BOOLEAN /\ opRaced' \in BOOLEAN
  BY <1>1
<1>5. OptionsTyped'
  BY <1>1, <1>2, <1>3, <1>4, OptionsTypes DEF OptionsTyped, OptionsTypeOK
<1>6. \A c \in Cookies : Busy(c)' <=> Busy(c)
  BY <1>2 DEF Busy
<1>7. ASSUME opRaced' PROVE JarHeld' /\ OptionsKeepJar'
  BY <1>1, <1>6, <1>7 DEF OptionsInv, JarHeld, OptionsKeepJar, Cookies
<1>8. ASSUME ~opRaced' PROVE JarHeld' /\ OptionsKeepJar'
  <2>1. opRaced' = opRaced /\ opSwap'.jar = opSwap.jar
    BY <1>1, <1>3, <1>8, OptionsTypes
  <2> QED BY <1>1, <1>6, <2>1, JarKept
<1>9. JarHeld' /\ OptionsKeepJar'
  BY <1>7, <1>8
<1> QED BY <1>5, <1>9 DEF OptionsInv

LEMMA TellKeeps == ASSUME OptionsInv, NEW t \in Tasks, Tell(t) PROVE OptionsInv'
<1>1. /\ t \in Loaders /\ \E pc \in OpPc : Moves(t, pc) \/ Rests(t, pc)
      /\ UNCHANGED <<opNative, opFile, opJar, opSwap, opUp, opBoots, opBell, opArmed, opPrints, opRaced>>
  BY DEF Tell, opWatcher, OpPc
<1>2. opTask' \in [Tasks -> OpTasks] /\ \A c \in Cookies : opTask'[c] = opTask[c]
  BY <1>1, TaskMoves, OptionsTypes
<1>3. opHealth' \in [ver : 0..OpEdits, ok : BOOLEAN]
  <2>1. opHealth' = opHealth \/ opHealth' = opTask[t].seen
    BY DEF Tell, Outcome
  <2>2. opTask[t] \in OpTasks
    BY OptionsTypes
  <2> QED BY <2>1, <2>2, OptionsTypes DEF OpTasks
<1>4. opLost' \in BOOLEAN
  BY OptionsTypes DEF Tell
<1>5. OptionsTyped'
  BY <1>1, <1>2, <1>3, <1>4, OptionsTypes DEF OptionsTyped, OptionsTypeOK
<1>6. JarHeld' /\ OptionsKeepJar'
  BY <1>1, <1>2, JarKept DEF Busy
<1> QED BY <1>5, <1>6 DEF OptionsInv

(* The cookie routes.                                                      *)
LEMMA FileJarKeeps == ASSUME OptionsInv, NEW c \in OpCalls, FileJar(c) PROVE OptionsInv'
<1>1. /\ c \in Cookies /\ opUp = "up" /\ Stands(c, "off") /\ opJar' = (c = "upload") /\ Moves(c, "filed")
      /\ opRaced' = (opRaced \/ \E d \in Cookies : Busy(d))
      /\ UNCHANGED <<opNative, opFile, opSwap, opHealth, opUp, opBoots, opBell, opArmed, opPrints, opLost>>
  BY DEF FileJar, opWatcher, Cookies
<1>2. opTask' \in [Tasks -> OpTasks] /\ opTask'[c].pc = "filed" /\ \A o \in Tasks : o # c => opTask'[o] = opTask[o]
  BY <1>1, TaskMoves, OptionsTypes DEF OpPc
<1>3. opJar' \in BOOLEAN /\ opRaced' \in BOOLEAN
  BY <1>1
<1>4. OptionsTyped'
  BY <1>1, <1>2, <1>3, OptionsTypes DEF OptionsTyped, OptionsTypeOK
<1>5. Busy(c)' /\ \A d \in Cookies : d # c => (Busy(d)' <=> Busy(d))
  BY <1>1, <1>2, OptionsTypes DEF Busy
<1>6. JarHeld'
  BY <1>1, <1>5 DEF JarHeld, Cookies
<1>7. OptionsKeepJar'
  BY <1>1, <1>5 DEF OptionsKeepJar, Cookies
<1> QED BY <1>4, <1>6, <1>7 DEF OptionsInv

LEMMA SetJarKeeps == ASSUME OptionsInv, NEW c \in Tasks, SetJar(c) PROVE OptionsInv'
<1>1. /\ c \in Cookies /\ Stands(c, "copied") /\ Rests(c, "gone")
      /\ opSwap' = [opTask[c].copy EXCEPT !.jar = (c = "upload")]
      /\ opLost' = (opLost \/ opTask[c].copy.ver # opSwap.ver)
      /\ UNCHANGED <<opNative, opFile, opJar, opHealth, opUp, opBoots, opBell, opArmed, opPrints, opRaced>>
  BY DEF SetJar, opWatcher, Cookies, Tasks, Clerks
<1>2. opTask' \in [Tasks -> OpTasks] /\ opTask'[c].pc = "gone" /\ \A o \in Tasks : o # c => opTask'[o] = opTask[o]
  BY <1>1, TaskMoves, OptionsTypes DEF OpPc
<1>3. opSwap' \in [ver : 0..OpEdits, jar : BOOLEAN] /\ opSwap'.jar = (c = "upload")
  <2>1. opTask[c] \in OpTasks
    BY OptionsTypes
  <2>2. opTask[c].copy \in [ver : 0..OpEdits, jar : BOOLEAN]
    BY <2>1 DEF OpTasks
  <2> QED BY <1>1, <2>2
<1>4. opLost' \in BOOLEAN
  BY <1>1
<1>5. OptionsTyped'
  BY <1>1, <1>2, <1>3, <1>4, OptionsTypes DEF OptionsTyped, OptionsTypeOK
<1>6. Busy(c) /\ ~Busy(c)' /\ \A d \in Cookies : d # c => (Busy(d)' <=> Busy(d))
  BY <1>1, <1>2, OptionsTypes DEF Busy, Stands
<1>7. JarHeld'
  BY <1>1, <1>6, OptionsTypes DEF OptionsInv, JarHeld, Cookies
<1>8. OptionsKeepJar'
  <2>1. ~opRaced => opJar = (c = "upload")
    BY <1>1, <1>6 DEF OptionsInv, JarHeld
  <2> QED BY <1>1, <1>3, <2>1, OptionsTypes DEF OptionsKeepJar
<1> QED BY <1>5, <1>7, <1>8 DEF OptionsInv

LEMMA HangsUpKeeps == ASSUME OptionsInv, NEW c \in OpCalls, HangsUp(c) PROVE OptionsInv'
<1>1. /\ c \in Cookies /\ Rests(c, "gone") /\ opRaced' = TRUE
      /\ UNCHANGED <<opNative, opFile, opJar, opSwap, opHealth, opUp, opBoots, opBell, opArmed, opPrints, opLost>>
  BY DEF HangsUp, opWatcher, Cookies
<1>2. opTask' \in [Tasks -> OpTasks] /\ opTask'[c].pc = "gone" /\ \A o \in Tasks : o # c => opTask'[o] = opTask[o]
  BY <1>1, TaskMoves, OptionsTypes DEF OpPc
<1>3. OptionsTyped'
  BY <1>1, <1>2, OptionsTypes DEF OptionsTyped, OptionsTypeOK
<1>4. \A d \in Cookies : Busy(d)' => Busy(d)
  BY <1>1, <1>2, OptionsTypes DEF Busy
<1>5. JarHeld' /\ OptionsKeepJar'
  BY <1>1, <1>4 DEF OptionsInv, JarHeld, OptionsKeepJar
<1> QED BY <1>3, <1>5 DEF OptionsInv

LEMMA OptionsSteps == OptionsInv /\ [OptionsNext]_opVars => OptionsInv'
<1> SUFFICES ASSUME OptionsInv, [OptionsNext]_opVars PROVE OptionsInv'
  OBVIOUS
<1>1. CASE UNCHANGED opVars
  <2>1. OptionsTyped'
    BY <1>1 DEF OptionsInv, OptionsTyped, OptionsTypeOK, opVars, opWatcher, opHistory
  <2>2. JarHeld' /\ OptionsKeepJar'
    BY <1>1, JarKept DEF opVars, opWatcher, opHistory, Busy
  <2> QED BY <2>1, <2>2 DEF OptionsInv
<1>2. CASE \E ok \in BOOLEAN : Edit(ok)
  BY <1>2, EditKeeps
<1>3. CASE \E c \in OpCalls : Reload(c) \/ FileJar(c) \/ HangsUp(c)
  BY <1>3, ReloadKeeps, FileJarKeeps, HangsUpKeeps
<1>4. CASE \E t \in Tasks : Step(t)
  BY <1>4, RefuseKeeps, CopyKeeps, StoreKeeps, TellKeeps, SetJarKeeps DEF Step
<1>5. CASE Crash
  BY <1>5, CrashKeeps
<1>6. CASE FirstLoad
  BY <1>6, FirstLoadKeeps
<1>7. CASE Start \/ Announce \/ Watching \/ Poll
  BY <1>7, WatcherKeeps DEF Watching
<1> QED BY <1>1, <1>2, <1>3, <1>4, <1>5, <1>6, <1>7 DEF OptionsNext

(* The types of the options' tasks, the snapshot and the component.        *)
THEOREM OptionsTypesHold == OptionsSpec => []OptionsTypeOK
<1>1. OptionsInv => OptionsTypeOK
  BY DEF OptionsInv, OptionsTyped
<1> QED BY <1>1, OptionsStarts, OptionsSteps, PTL DEF OptionsSpec

(* The snapshot in force names the cookie jar exactly when there is one.   *)
THEOREM JarStaysNamed == OptionsSpec => [][OptionsKeepJar']_opVars
<1>1. OptionsInv' /\ [OptionsNext]_opVars => [OptionsKeepJar']_opVars
  BY DEF OptionsInv
<1> QED BY <1>1, OptionsStarts, OptionsSteps, PTL DEF OptionsSpec

-----------------------------------------------------------------------------
(* The strengthening of JobsReportIsTrue: what of the tool's lines was     *)
(* read where the job is, that the shim's read lines were not refused,     *)
(* that whoever is killed had a reason to be, and that a tool a report     *)
(* rests on is over.                                                       *)
Before == {"idle", "gate", "stdin", "loop", "reap"}
JobsPlaced ==
  /\ jbPc \in {"idle", "gate"} /\ ~OfSc => jbTool = NoTool /\ jbLines = <<>>
  /\ jbPc = "stdin" => ~OfSc
  /\ jbPc = "stdin" /\ jbKind = "shim" => jbLines = <<>>
  /\ jbPc \in {"tail", "errtail"} => jbKind = "plugin" /\ jbTool.lead = "reaped"
  /\ jbPc = "errtail" => jbRead = Len(jbLines) \/ jbRead > JbBudget
  /\ jbPc = "reap" => jbKind = "shim" /\ jbRead = Len(jbLines)
  /\ jbPc \in {"term", "kill"} => jbWhy # "none"
JobsAccepts == jbKind = "shim" /\ jbPc \in Before => \A n \in 1..jbRead : ~Refused(n)
JobsTold ==
  /\ jbReport # "none" => jbPc = "done"
  /\ jbReport = "ok" /\ jbKind # "shim" => jbTool.lead # "alive"
  /\ jbReport = "failed" /\ jbWhy = "none" /\ jbKind = "plugin" => jbTool.lead # "alive"
JobsInv == JobsTypeOK /\ JobsPlaced /\ JobsAccepts /\ JobsTold /\ JobsReportIsTrue

Line == {"note", "result", "bye"}

LEMMA JobsStarts == JobsInit => JobsInv
<1> SUFFICES ASSUME JobsInit PROVE JobsInv
  OBVIOUS
<1>1. JobsTypeOK
  <2>1. NoTool \in Tools
    BY DEF NoTool, Tools
  <2>2. jbLines \in Seq(Line) /\ Len(jbLines) = 0
    BY DEF JobsInit, Line
  <2>3. jbRead \in 0..Len(jbLines) /\ Len(jbLines) <= JbLines /\ jbFaults \in 0..JbFaults
    BY <2>2, JbAssumption DEF JobsInit
  <2>4. jbKind \in {"plugin", "shim", "nm3u8", "mux", "ffmpeg"} /\ jbPolite \in BOOLEAN
    BY JbAssumption DEF JobsInit
  <2> QED BY <2>1, <2>2, <2>3, <2>4 DEF JobsInit, JobsTypeOK, Line
<1>2. JobsPlaced /\ JobsAccepts /\ JobsTold /\ JobsReportIsTrue
  BY DEF JobsInit, JobsPlaced, JobsAccepts, JobsTold, JobsReportIsTrue, OfSc
<1> QED BY <1>1, <1>2 DEF JobsInv

LEMMA JobsTypes ==
  ASSUME JobsInv
  PROVE  /\ jbKind \in {"plugin", "shim", "nm3u8", "mux", "ffmpeg"} /\ jbPolite \in BOOLEAN
         /\ jbPc \in {"idle", "gate", "stdin", "loop", "term", "kill", "tail", "errtail", "reap", "done"}
         /\ jbTool \in Tools /\ jbLines \in Seq(Line) /\ Len(jbLines) <= JbLines /\ jbRead \in 0..Len(jbLines)
         /\ Len(jbLines) \in Nat /\ DOMAIN jbLines = 1..Len(jbLines) /\ jbRead \in Nat /\ jbRead <= Len(jbLines)
         /\ jbCancel \in BOOLEAN /\ jbWhy \in {"none", "cancel", "timeout", "budget", "contract", "read", "dropped"}
         /\ jbLate \in BOOLEAN /\ jbReport \in {"none", "ok", "failed", "canceled"} /\ jbFaults \in 0..JbFaults
         /\ JbLines \in Nat /\ JbBudget \in Nat /\ JbFaults \in Nat
BY JbAssumption DEF JobsInv, JobsTypeOK, Line

(* What a prefix of a sequence of lines contains.                          *)
LEMMA PrefixHas ==
  ASSUME NEW q \in Seq(Line), NEW n \in 0..Len(q), NEW e
  PROVE  Contains(SubSeq(q, 1, n), e) <=> \E i \in 1..n : q[i] = e
<1>1. /\ Len(SubSeq(q, 1, n)) = n /\ \A i \in 1..n : SubSeq(q, 1, n)[i] = q[i]
  OBVIOUS
<1> QED BY <1>1 DEF Contains

(* Accepted lines end in a result and a goodbye only when the rest are     *)
(* notes: the transcript is whole.                                         *)
LEMMA AcceptedIsProper ==
  ASSUME JobsInv, jbKind = "shim", jbPc = "reap"
  PROVE  Finish(jbRead) <=> Proper
<1> DEFINE n == jbRead
<1>1. n = Len(jbLines) /\ n \in Nat /\ jbLines \in Seq(Line) /\ n <= JbLines /\ JbLines \in Nat
  BY JobsTypes DEF JobsInv, JobsPlaced
<1>2. Finish(n) <=> (\E i \in 1..n : jbLines[i] = "result") /\ (\E i \in 1..n : jbLines[i] = "bye")
  BY <1>1, PrefixHas DEF Finish, ResultSeen
<1>3. ASSUME NEW i \in 1..n, NEW j \in 1..n, i < j
      PROVE  jbLines[i] # "bye" /\ (jbLines[i] = "result" => jbLines[j] = "bye")
  <2>1. ~Refused(j)
    BY <1>1 DEF JobsInv, JobsAccepts, Before
  <2>2. j - 1 \in 0..Len(jbLines) /\ i \in 1..(j - 1)
    BY <1>1, <1>3
  <2>3. Contains(SubSeq(jbLines, 1, j - 1), jbLines[i])
    BY <1>1, <2>2, PrefixHas
  <2> QED BY <2>1, <2>3 DEF Refused
<1>4. ASSUME Finish(n) PROVE Proper
  <2>1. PICK i \in 1..n : jbLines[i] = "result"
    BY <1>2, <1>4
  <2>2. PICK j \in 1..n : jbLines[j] = "bye"
    BY <1>2, <1>4
  <2>3. i < j
    BY <1>3, <2>1, <2>2
  <2>4. j = n
    BY <1>1, <1>3, <2>2
  <2>5. i = n - 1
    <3>1. i <= n - 1
      BY <1>1, <2>3, <2>4
    <3>2. ASSUME i # n - 1 PROVE FALSE
      <4>1. i < n - 1 /\ n - 1 \in 1..n /\ n - 1 < n
        BY <1>1, <3>1, <3>2
      <4>2. jbLines[n - 1] = "bye"
        BY <1>3, <2>1, <4>1
      <4> QED BY <1>1, <1>3, <4>1, <4>2
    <3> QED BY <3>2
  <2>6. n - 2 \in 0..JbLines
    BY <1>1, <2>5
  <2>7. \A k \in 1..(n - 2) : jbLines[k] = "note"
    <3> SUFFICES ASSUME NEW k \in 1..(n - 2) PROVE jbLines[k] = "note"
      OBVIOUS
    <3>1. k \in 1..n /\ k < i /\ jbLines[k] \in Line
      BY <1>1, <2>5
    <3>2. jbLines[k] # "bye" /\ (jbLines[k] = "result" => jbLines[i] = "bye")
      BY <1>3, <3>1
    <3> QED BY <2>1, <3>1, <3>2 DEF Line
  <2>8. jbLines = [k \in 1..(n - 2) |-> "note"] \o <<"result", "bye">>
    <3> DEFINE a == [k \in 1..(n - 2) |-> "note"]
               b == <<"result", "bye">>
    <3>1. a \in Seq(Line) /\ Len(a) = n - 2 /\ b \in Seq(Line) /\ Len(b) = 2 /\ b[1] = "result" /\ b[2] = "bye"
      BY <2>6 DEF Line
    <3> HIDE DEF a, b
    <3>2. /\ a \o b \in Seq(Line) /\ Len(a \o b) = n
          /\ \A k \in 1..n : (a \o b)[k] = IF k <= n - 2 THEN a[k] ELSE b[k - (n - 2)]
      <4>1. Len(a) + Len(b) = n
        BY <1>1, <2>6, <3>1
      <4>2. /\ a \o b \in Seq(Line) /\ Len(a \o b) = Len(a) + Len(b)
            /\ \A k \in 1..(Len(a) + Len(b)) : (a \o b)[k] = IF k <= Len(a) THEN a[k] ELSE b[k - Len(a)]
        BY <3>1, ConcatProperties
      <4> QED BY <3>1, <4>1, <4>2
    <3>3. \A k \in 1..n : (a \o b)[k] = jbLines[k]
      <4> SUFFICES ASSUME NEW k \in 1..n PROVE (a \o b)[k] = jbLines[k]
        OBVIOUS
      <4>1. CASE k <= n - 2
        <5>1. k \in 1..(n - 2)
          BY <1>1, <4>1
        <5>2. a[k] = "note"
          BY <5>1 DEF a
        <5> QED BY <2>7, <3>2, <4>1, <5>1, <5>2
      <4>2. CASE k = n - 1
        <5>1. ~(k <= n - 2) /\ k - (n - 2) = 1
          BY <1>1, <4>2
        <5> QED BY <2>1, <2>5, <3>1, <3>2, <4>2, <5>1
      <4>3. CASE k = n
        <5>1. ~(k <= n - 2) /\ k - (n - 2) = 2
          BY <1>1, <4>3
        <5> QED BY <2>2, <2>4, <3>1, <3>2, <4>3, <5>1
      <4>4. k <= n - 2 \/ k = n - 1 \/ k = n
        BY <1>1
      <4> QED BY <4>1, <4>2, <4>3, <4>4
    <3>4. a \o b = jbLines
      BY <1>1, <3>2, <3>3, SeqEqual
    <3> QED BY <3>4 DEF a, b
  <2> QED BY <2>6, <2>8 DEF Proper
<1>5. ASSUME Proper PROVE Finish(n)
  <2>1. PICK k \in 0..JbLines : jbLines = [i \in 1..k |-> "note"] \o <<"result", "bye">>
    BY <1>5 DEF Proper
  <2> DEFINE a == [i \in 1..k |-> "note"]
             b == <<"result", "bye">>
  <2>2. a \in Seq(Line) /\ Len(a) = k /\ b \in Seq(Line) /\ Len(b) = 2 /\ b[1] = "result" /\ b[2] = "bye"
    BY <1>1 DEF Line
  <2> HIDE DEF a, b
  <2>3. Len(jbLines) = k + 2 /\ jbLines[k + 1] = "result" /\ jbLines[k + 2] = "bye"
    <3>1. jbLines = a \o b
      BY <2>1 DEF a, b
    <3>2. /\ Len(a \o b) = Len(a) + Len(b)
          /\ \A i \in 1..Len(a) + Len(b) : (a \o b)[i] = IF i <= Len(a) THEN a[i] ELSE b[i - Len(a)]
      BY <2>2, ConcatProperties
    <3>3. k + 1 \in 1..Len(a) + Len(b) /\ k + 2 \in 1..Len(a) + Len(b) /\ k + 1 - Len(a) = 1 /\ k + 2 - Len(a) = 2
          /\ ~(k + 1 <= Len(a)) /\ ~(k + 2 <= Len(a))
      BY <2>2
    <3>4. (a \o b)[k + 1] = "result" /\ (a \o b)[k + 2] = "bye" /\ Len(a \o b) = k + 2
      BY <2>2, <3>2, <3>3
    <3> QED BY <3>1, <3>4
  <2>4. k + 1 \in 1..n /\ k + 2 \in 1..n
    BY <1>1, <2>3
  <2> QED BY <1>2, <2>3, <2>4
<1> QED BY <1>4, <1>5

-----------------------------------------------------------------------------
(* A process group after its leader's state or its helpers changed.        *)
LEMMA ToolsAre ==
  ASSUME NEW tool \in Tools
  PROVE  /\ tool.lead \in {"alive", "exited", "reaped"} /\ tool.ok \in BOOLEAN /\ tool.reads \in BOOLEAN /\ tool.held \in BOOLEAN
         /\ \A lead \in {"alive", "exited", "reaped"}, ok \in BOOLEAN :
              [tool EXCEPT !.lead = lead, !.ok = ok] \in Tools
         /\ \A lead \in {"alive", "exited", "reaped"} :
              /\ [tool EXCEPT !.lead = lead] \in Tools
              /\ [tool EXCEPT !.lead = lead].lead = lead
              /\ [tool EXCEPT !.lead = lead].ok = tool.ok
         /\ [tool EXCEPT !.held = FALSE] \in Tools
         /\ [tool EXCEPT !.reads = TRUE] \in Tools
         /\ KillGroup(tool) \in Tools
         /\ tool.lead # "alive" => KillGroup(tool).lead = tool.lead /\ KillGroup(tool).ok = tool.ok
         /\ KillGroup(tool).lead # "alive"
BY DEF Tools, KillGroup

(* What was accepted stays accepted while the lines and what was read of   *)
(* them stay.                                                              *)
LEMMA AcceptsKept ==
  ASSUME JobsAccepts, jbLines' = jbLines, jbRead' = jbRead,
         jbKind' = "shim" => jbKind = "shim", jbKind' = "shim" /\ jbPc' \in Before => jbPc \in Before
  PROVE  JobsAccepts'
BY DEF JobsAccepts, Refused

(* A step of a process, that the job does not see.                         *)
LEMMA ProcessKeeps ==
  ASSUME JobsInv, jbTheirs' = jbTheirs, jbLines' = jbLines, jbLate' \in BOOLEAN, jbTool' \in Tools,
         jbTool # NoTool, jbTool.lead = "reaped" => jbTool'.lead = "reaped",
         jbTool.lead # "alive" => jbTool'.lead # "alive" /\ jbTool'.ok = jbTool.ok
  PROVE  JobsInv'
<1> USE DEF jbTheirs
<1>1. JobsTypeOK'
  BY DEF JobsInv, JobsTypeOK
<1>2. JobsPlaced'
  BY DEF JobsInv, JobsPlaced, OfSc
<1>3. JobsAccepts'
  BY AcceptsKept DEF JobsInv
<1>4. JobsTold'
  BY DEF JobsInv, JobsTold
<1>5. JobsReportIsTrue'
  <2>1. jbTool.lead # "alive" => (Proper' <=> Proper)
    BY DEF Proper
  <2>2. jbKind = "shim" => (Proper' <=> Proper)
    BY DEF Proper
  <2>3. jbReport = "ok" => jbKind = "shim" \/ jbTool.lead # "alive"
    BY DEF JobsInv, JobsTold
  <2>4. jbReport = "failed" /\ jbWhy = "none" /\ ~OfSc => jbKind = "shim" \/ jbTool.lead # "alive"
    BY JobsTypes DEF JobsInv, JobsTold, OfSc
  <2> QED BY <2>1, <2>2, <2>3, <2>4 DEF JobsInv, JobsReportIsTrue, OfSc
<1> QED BY <1>1, <1>2, <1>3, <1>4, <1>5 DEF JobsInv

LEMMA LeaderExitsKeeps == ASSUME JobsInv, LeaderExits PROVE JobsInv'
<1>1. PICK ok \in BOOLEAN : jbTool' = [jbTool EXCEPT !.lead = "exited", !.ok = ok]
  BY DEF LeaderExits
<1>2. jbTool \in Tools /\ jbTool.lead = "alive" /\ jbTheirs' = jbTheirs /\ jbLines' = jbLines /\ jbLate' \in BOOLEAN
  BY JobsTypes DEF LeaderExits
<1>3. jbTool # NoTool
  BY <1>2 DEF NoTool
<1>4. jbTool' \in Tools
  <2> DEFINE gone == [jbTool EXCEPT !.lead = "exited", !.ok = ok]
  <2>1. gone \in Tools
    BY <1>2, ToolsAre
  <2> HIDE DEF gone
  <2>2. jbTool' = gone
    BY <1>1 DEF gone
  <2> QED BY <2>1, <2>2
<1> QED BY <1>2, <1>3, <1>4, ProcessKeeps

LEMMA HelpersExitKeeps == ASSUME JobsInv, HelpersExit PROVE JobsInv'
<1>1. jbTool \in Tools /\ jbTool.held /\ jbTheirs' = jbTheirs /\ jbLines' = jbLines /\ jbLate' \in BOOLEAN
  BY JobsTypes DEF HelpersExit
<1>2. jbTool' = [jbTool EXCEPT !.held = FALSE]
  BY DEF HelpersExit
<1>3. jbTool # NoTool
  BY <1>1 DEF NoTool
<1>4. jbTool' \in Tools /\ jbTool'.lead = jbTool.lead /\ jbTool'.ok = jbTool.ok
  BY <1>1, <1>2 DEF Tools
<1> QED BY <1>1, <1>3, <1>4, ProcessKeeps

LEMMA LateKillKeeps == ASSUME JobsInv, LateKill PROVE JobsInv'
<1>1. jbTool \in Tools /\ jbTheirs' = jbTheirs /\ jbLines' = jbLines /\ jbLate' = FALSE /\ jbTool' = KillGroup(jbTool)
  BY JobsTypes DEF LateKill
<1>2. jbTool' \in Tools /\ (jbTool.lead # "alive" => jbTool'.lead = jbTool.lead /\ jbTool'.ok = jbTool.ok) /\ jbTool'.lead # "alive"
  <2> DEFINE killed == KillGroup(jbTool)
  <2>1. killed \in Tools /\ (jbTool.lead # "alive" => killed.lead = jbTool.lead /\ killed.ok = jbTool.ok) /\ killed.lead # "alive"
    BY <1>1, ToolsAre
  <2> HIDE DEF killed
  <2>2. jbTool' = killed
    BY <1>1 DEF killed
  <2> QED BY <2>1, <2>2
<1>3. CASE jbTool = NoTool
  <2>1. jbTool' = jbTool
    <3> DEFINE no == (NoTool.ok /\ NoTool.lead # "alive")
    <3>1. no = FALSE
      BY DEF NoTool
    <3>2. KillGroup(NoTool) = [NoTool EXCEPT !.lead = IF NoTool.lead = "alive" THEN "exited" ELSE NoTool.lead, !.ok = no, !.held = FALSE]
      BY DEF KillGroup
    <3> HIDE DEF no
    <3>3. KillGroup(NoTool) = [NoTool EXCEPT !.lead = "reaped", !.ok = FALSE, !.held = FALSE]
      BY <3>1, <3>2 DEF NoTool
    <3>4. KillGroup(NoTool) = NoTool
      BY <3>3 DEF NoTool
    <3> QED BY <1>1, <1>3, <3>4
  <2>2. JobsTypeOK'
    BY <1>1, <2>1 DEF JobsInv, JobsTypeOK, jbTheirs
  <2>3. JobsPlaced' /\ JobsTold'
    BY <1>1, <2>1 DEF JobsInv, JobsPlaced, JobsTold, OfSc, jbTheirs
  <2>4. JobsAccepts'
    BY <1>1, AcceptsKept DEF JobsInv, jbTheirs
  <2>5. JobsReportIsTrue'
    BY <1>1, <2>1 DEF JobsInv, JobsReportIsTrue, Proper, OfSc, jbTheirs
  <2> QED BY <2>2, <2>3, <2>4, <2>5 DEF JobsInv
<1>4. CASE jbTool # NoTool
  BY <1>1, <1>2, <1>4, ProcessKeeps
<1> QED BY <1>3, <1>4

LEMMA WritesKeeps == ASSUME JobsInv, Writes PROVE JobsInv'
<1>1. PICK line \in Prints : jbLines' = Append(jbLines, line)
  BY DEF Writes
<1>2. /\ jbTool.lead = "alive" /\ jbPc \notin {"reap", "done"} /\ Len(jbLines) < JbLines
      /\ jbPc = "stdin" => jbKind = "plugin"
      /\ jbTool' = jbTool /\ jbLate' = jbLate /\ jbTheirs' = jbTheirs
  BY DEF Writes
<1>3. line \in Line
  BY <1>1 DEF Prints, Line
<1>4. /\ jbLines \in Seq(Line) /\ Len(jbLines) \in Nat /\ JbLines \in Nat
      /\ jbRead \in 0..Len(jbLines) /\ jbTool # NoTool
  BY <1>2, JobsTypes DEF NoTool
<1>5. /\ jbLines' \in Seq(Line) /\ Len(jbLines') = Len(jbLines) + 1
      /\ \A i \in 1..Len(jbLines) : jbLines'[i] = jbLines[i]
  BY <1>1, <1>3, <1>4, AppendProperties
<1>6. JobsTypeOK'
  <2>1. jbRead' \in 0..Len(jbLines') /\ Len(jbLines') <= JbLines
    BY <1>2, <1>4, <1>5 DEF jbTheirs
  <2> QED BY <1>2, <1>5, <2>1 DEF JobsInv, JobsTypeOK, jbTheirs, Line
<1>7. jbReport = "none"
  BY <1>2 DEF JobsInv, JobsTold
<1>8. JobsPlaced'
  <2>1. jbPc \in {"idle", "gate"} => OfSc
    BY <1>2, <1>4 DEF JobsInv, JobsPlaced
  <2>2. jbPc \notin {"tail", "errtail"}
    BY <1>2 DEF JobsInv, JobsPlaced
  <2> QED BY <1>2, <2>1, <2>2 DEF JobsInv, JobsPlaced, OfSc, jbTheirs
<1>9. JobsAccepts'
  <2> SUFFICES ASSUME jbKind = "shim", jbPc \in Before, NEW n \in 1..jbRead PROVE ~Refused(n)'
    BY <1>2 DEF JobsAccepts, jbTheirs
  <2>1. ~Refused(n)
    BY DEF JobsInv, JobsAccepts
  <2>2. n - 1 \in 0..Len(jbLines) /\ n - 1 \in 0..Len(jbLines') /\ n \in 1..Len(jbLines)
    BY <1>4, <1>5
  <2>3. \A e : Contains(SubSeq(jbLines, 1, n - 1), e) <=> \E i \in 1..(n - 1) : jbLines[i] = e
    BY <1>4, <2>2, PrefixHas
  <2>4. \A e : Contains(SubSeq(jbLines', 1, n - 1), e) <=> \E i \in 1..(n - 1) : jbLines'[i] = e
    BY <1>5, <2>2, PrefixHas
  <2>5. \A i \in 1..(n - 1) : jbLines'[i] = jbLines[i]
    BY <1>5, <2>2
  <2>6. Contains(SubSeq(jbLines', 1, n - 1), "bye") <=> Contains(SubSeq(jbLines, 1, n - 1), "bye")
    BY <2>3, <2>4, <2>5
  <2>7. Contains(SubSeq(jbLines', 1, n - 1), "result") <=> Contains(SubSeq(jbLines, 1, n - 1), "result")
    BY <2>3, <2>4, <2>5
  <2>8. jbLines'[n] = jbLines[n]
    BY <1>5, <2>2
  <2> QED BY <2>1, <2>6, <2>7, <2>8 DEF Refused
<1>10. JobsTold' /\ JobsReportIsTrue'
  BY <1>2, <1>7 DEF JobsInv, JobsTold, JobsReportIsTrue, jbTheirs
<1> QED BY <1>6, <1>8, <1>9, <1>10 DEF JobsInv

-----------------------------------------------------------------------------
(* The token, and the start of the job.                                    *)
LEMMA CancelsJobKeeps == ASSUME JobsInv, CancelsJob PROVE JobsInv'
<1> USE DEF CancelsJob
<1>1. JobsTypeOK'
  BY DEF JobsInv, JobsTypeOK
<1>2. JobsPlaced' /\ JobsTold'
  BY DEF JobsInv, JobsPlaced, JobsTold, OfSc
<1>3. JobsAccepts'
  BY AcceptsKept DEF JobsInv
<1>4. JobsReportIsTrue'
  BY DEF JobsInv, JobsReportIsTrue, Proper, OfSc
<1> QED BY <1>1, <1>2, <1>3, <1>4 DEF JobsInv

LEMMA JobStartsKeeps == ASSUME JobsInv, JobStarts PROVE JobsInv'
<1> USE DEF JobStarts, At, Calm
<1>1. JobsTypeOK'
  BY DEF JobsInv, JobsTypeOK
<1>2. JobsPlaced' /\ JobsTold'
  BY DEF JobsInv, JobsPlaced, JobsTold, OfSc
<1>3. JobsAccepts'
  BY AcceptsKept DEF JobsInv, Before
<1>4. JobsReportIsTrue'
  BY DEF JobsInv, JobsReportIsTrue, Proper, OfSc
<1> QED BY <1>1, <1>2, <1>3, <1>4 DEF JobsInv

(* A job that is not done has told nothing.                                *)
LEMMA NothingTold == ASSUME JobsInv, jbPc # "done" PROVE jbReport = "none"
BY DEF JobsInv, JobsTold

(* The end of a job, of which the report is true: an "ok" of a tool that   *)
(* did its work, a "failed" of one that did not.                           *)
LEMMA EndsKeep ==
  ASSUME JobsInv, jbPc # "done", NEW tool \in Tools, NEW report \in {"ok", "failed", "canceled"}, EndsJob(report, tool),
         jbPolite' = jbPolite, jbLines' = jbLines, jbCancel' = jbCancel, jbRead' = jbRead, jbFaults' \in 0..JbFaults,
         tool.ok = jbTool.ok,
         report = "ok" => Proper /\ (jbKind # "shim" => tool.lead = "reaped"),
         report = "failed" /\ jbWhy = "none" /\ ~OfSc => ~Proper /\ (jbKind = "plugin" => tool.lead = "reaped")
  PROVE  JobsInv'
<1>1. jbTool' \in Tools /\ jbTool'.ok = tool.ok /\ jbTool'.lead = tool.lead
  BY DEF EndsJob, Drops, LetGo, Tools
<1>2. jbLate' \in BOOLEAN
  <2>1. jbLate' = (jbLate \/ tool.lead # "reaped")
    BY DEF EndsJob, Drops
  <2>2. (jbLate \/ tool.lead # "reaped") \in BOOLEAN
    OBVIOUS
  <2> HIDE DEF JobsInv
  <2> QED BY <2>1, <2>2
<1>3. /\ jbPolite \in BOOLEAN /\ jbLines \in Seq(Line) /\ Len(jbLines) <= JbLines /\ jbRead \in 0..Len(jbLines) /\ jbCancel \in BOOLEAN
      /\ jbKind \in {"plugin", "shim", "nm3u8", "mux", "ffmpeg"}
      /\ jbWhy \in {"none", "cancel", "timeout", "budget", "contract", "read", "dropped"}
      /\ jbReport = "none"
  BY JobsTypes, NothingTold
<1>4. CASE report = "failed" /\ jbKind \in {"nm3u8", "mux"}
  <2>1. jbPc' = "gate" /\ jbKind' = "ffmpeg" /\ jbWhy' = "none" /\ jbReport' = "none"
    BY <1>3, <1>4 DEF EndsJob
  <2>2. JobsTypeOK'
    BY <1>1, <1>2, <1>3, <2>1 DEF JobsTypeOK, Line
  <2>3. JobsPlaced' /\ JobsTold' /\ JobsReportIsTrue'
    BY <2>1 DEF JobsPlaced, JobsTold, JobsReportIsTrue, OfSc
  <2>4. JobsAccepts'
    BY <2>1 DEF JobsAccepts
  <2> QED BY <2>2, <2>3, <2>4 DEF JobsInv
<1>5. CASE ~(report = "failed" /\ jbKind \in {"nm3u8", "mux"})
  <2>1. jbPc' = "done" /\ jbReport' = report /\ jbKind' = jbKind /\ jbWhy' = jbWhy
    BY <1>5 DEF EndsJob
  <2>2. JobsTypeOK'
    BY <1>1, <1>2, <1>3, <2>1 DEF JobsTypeOK, Line
  <2>3. JobsPlaced' /\ JobsAccepts'
    BY <2>1 DEF JobsPlaced, JobsAccepts, Before
  <2>4. Proper' <=> Proper
    BY <1>1, <2>1 DEF Proper
  <2>5. JobsTold'
    BY <1>1, <2>1 DEF JobsTold, OfSc
  <2>6. JobsReportIsTrue'
    BY <2>1, <2>4 DEF JobsReportIsTrue, OfSc
  <2> QED BY <2>2, <2>3, <2>5, <2>6 DEF JobsInv
<1> QED BY <1>4, <1>5

(* The loop gives up for a reason, and kills.                              *)
LEMMA KillsKeep ==
  ASSUME JobsInv, jbPc = "loop", NEW why \in {"cancel", "timeout", "budget", "contract", "read"}, Kills(why),
         jbPolite' = jbPolite, jbLines' = jbLines, jbCancel' = jbCancel, jbRead' \in 0..Len(jbLines), jbFaults' \in 0..JbFaults
  PROVE  JobsInv'
<1>1. jbPc' = "term" /\ jbWhy' = why /\ jbKind' = jbKind /\ jbTool' = jbTool /\ jbLate' = jbLate /\ jbReport' = jbReport
  BY DEF Kills
<1>2. JobsTypeOK'
  BY <1>1 DEF JobsInv, JobsTypeOK
<1>3. JobsPlaced' /\ JobsAccepts'
  BY <1>1 DEF JobsPlaced, JobsAccepts, Before
<1>4. JobsTold' /\ JobsReportIsTrue'
  BY <1>1, NothingTold DEF JobsTold, JobsReportIsTrue
<1> QED BY <1>2, <1>3, <1>4 DEF JobsInv

(* A step from a place to another, that tells nothing.                     *)
LEMMA MovesKeep ==
  ASSUME JobsInv, jbPc # "done", jbReport' = jbReport,
         jbKind' \in {"plugin", "shim", "nm3u8", "mux", "ffmpeg"}, jbPc' \in {"stdin", "loop", "kill", "tail", "errtail", "reap"},
         jbTool' \in Tools, jbPolite' = jbPolite, jbLines' = jbLines, jbCancel' = jbCancel, jbRead' \in 0..Len(jbLines),
         jbWhy' = jbWhy, jbLate' = jbLate, jbFaults' = jbFaults, JobsPlaced', JobsAccepts'
  PROVE  JobsInv'
<1>1. JobsTypeOK'
  BY DEF JobsInv, JobsTypeOK
<1>2. JobsTold' /\ JobsReportIsTrue'
  BY NothingTold DEF JobsTold, JobsReportIsTrue
<1> QED BY <1>1, <1>2 DEF JobsInv

-----------------------------------------------------------------------------
(* The job's own steps.                                                    *)
LEMMA GateCanceledKeeps == ASSUME JobsInv, GateCanceled PROVE JobsInv'
<1>1. /\ jbPc = "gate" /\ EndsJob("canceled", jbTool) /\ jbTool \in Tools
      /\ jbPolite' = jbPolite /\ jbLines' = jbLines /\ jbCancel' = jbCancel /\ jbRead' = jbRead /\ jbFaults' \in 0..JbFaults
  BY JobsTypes DEF GateCanceled, At
<1> QED BY <1>1, EndsKeep

LEMMA JobSpawnsKeeps == ASSUME JobsInv, JobSpawns PROVE JobsInv'
<1>1. /\ jbPc = "gate" /\ jbKind' = jbKind /\ jbPolite' = jbPolite /\ jbLines' = jbLines /\ jbCancel' = jbCancel
      /\ jbRead' = jbRead /\ jbWhy' = jbWhy /\ jbLate' = jbLate /\ jbReport' = jbReport /\ jbFaults' = jbFaults
      /\ jbPc' = (IF OfSc THEN "loop" ELSE "stdin")
  BY DEF JobSpawns, At, SpawnsTool
<1>2. PICK reads, held \in BOOLEAN : jbTool' = [lead |-> "alive", ok |-> FALSE, reads |-> reads, held |-> held]
  BY DEF JobSpawns, SpawnsTool
<1>3. jbTool' \in Tools
  BY <1>2 DEF Tools
<1>4. JobsPlaced'
  BY <1>1 DEF JobsInv, JobsPlaced, OfSc
<1>5. JobsAccepts'
  BY <1>1, AcceptsKept DEF JobsInv, Before
<1>6. jbKind' \in {"plugin", "shim", "nm3u8", "mux", "ffmpeg"} /\ jbRead' \in 0..Len(jbLines)
  BY <1>1, JobsTypes
<1> QED BY <1>1, <1>3, <1>4, <1>5, <1>6, MovesKeep

(* A transcript that is empty is not whole.                                *)
LEMMA EmptyIsNotProper == ASSUME JobsInv, jbKind = "shim", jbLines = <<>> PROVE ~Proper
<1> SUFFICES ASSUME Proper PROVE FALSE
  OBVIOUS
<1>1. PICK n \in 0..JbLines : jbLines = [i \in 1..n |-> "note"] \o <<"result", "bye">>
  BY DEF Proper
<1> DEFINE a == [i \in 1..n |-> "note"]
           b == <<"result", "bye">>
<1>2. a \in Seq(Line) /\ Len(a) = n /\ b \in Seq(Line) /\ Len(b) = 2 /\ n \in Nat
  BY JobsTypes DEF Line
<1> HIDE DEF a, b
<1>3. Len(a \o b) = Len(a) + Len(b)
  BY <1>2, ConcatProperties
<1>4. Len(jbLines) = 0
  OBVIOUS
<1>5. jbLines = a \o b
  BY <1>1 DEF a, b
<1> QED BY <1>2, <1>3, <1>4, <1>5

LEMMA SpawnFailsKeeps == ASSUME JobsInv, SpawnFails PROVE JobsInv'
<1>1. /\ jbPc = "gate" /\ EndsJob("failed", jbTool) /\ jbTool \in Tools /\ JbFaults \in Nat /\ jbFaults \in 0..JbFaults
      /\ jbPolite' = jbPolite /\ jbLines' = jbLines /\ jbCancel' = jbCancel /\ jbRead' = jbRead
      /\ jbFaults > 0 /\ jbFaults' = jbFaults - 1
  BY JobsTypes DEF SpawnFails, At, Faulty
<1>2. jbFaults' \in 0..JbFaults
  BY <1>1
<1>3. ASSUME ~OfSc PROVE ~Proper /\ jbTool.lead = "reaped"
  <2>1. jbTool = NoTool /\ jbLines = <<>> /\ jbKind \in {"plugin", "shim"}
    BY <1>1, <1>3, JobsTypes DEF JobsInv, JobsPlaced, OfSc
  <2>2. CASE jbKind = "plugin"
    BY <2>1, <2>2 DEF Proper, NoTool
  <2>3. CASE jbKind = "shim"
    BY <2>1, <2>3, EmptyIsNotProper DEF NoTool
  <2> QED BY <2>1, <2>2, <2>3
<1> QED BY <1>1, <1>2, <1>3, EndsKeep

LEMMA StdinWrittenKeeps == ASSUME JobsInv, StdinWritten PROVE JobsInv'
<1>1. /\ jbPc = "stdin" /\ jbPc' = "loop" /\ jbKind' = jbKind /\ jbPolite' = jbPolite /\ jbLines' = jbLines /\ jbCancel' = jbCancel
      /\ jbRead' = jbRead /\ jbWhy' = jbWhy /\ jbLate' = jbLate /\ jbReport' = jbReport /\ jbFaults' = jbFaults
      /\ jbTool' = [jbTool EXCEPT !.reads = TRUE]
  BY DEF StdinWritten, At
<1>2. jbTool' \in Tools
  BY <1>1, JobsTypes DEF Tools
<1>3. JobsPlaced'
  BY <1>1 DEF JobsPlaced
<1>4. JobsAccepts'
  BY <1>1, AcceptsKept DEF JobsInv, Before
<1>5. jbKind' \in {"plugin", "shim", "nm3u8", "mux", "ffmpeg"} /\ jbRead' \in 0..Len(jbLines)
  BY <1>1, JobsTypes
<1> QED BY <1>1, <1>2, <1>3, <1>4, <1>5, MovesKeep

LEMMA StdinBrokenKeeps == ASSUME JobsInv, StdinBroken PROVE JobsInv'
<1>1. /\ jbPc = "stdin" /\ jbKind = "shim" /\ EndsJob("failed", jbTool) /\ jbTool \in Tools
      /\ jbPolite' = jbPolite /\ jbLines' = jbLines /\ jbCancel' = jbCancel /\ jbRead' = jbRead /\ jbFaults' \in 0..JbFaults
  BY JobsTypes DEF StdinBroken, At
<1>2. ~Proper
  BY <1>1, EmptyIsNotProper DEF JobsInv, JobsPlaced
<1> QED BY <1>1, <1>2, EndsKeep

LEMMA LoopCanceledKeeps == ASSUME JobsInv, LoopCanceled PROVE JobsInv'
<1>1. /\ jbPc = "loop" /\ jbTool \in Tools
      /\ jbPolite' = jbPolite /\ jbLines' = jbLines /\ jbCancel' = jbCancel /\ jbRead' = jbRead /\ jbFaults' \in 0..JbFaults
      /\ jbRead' \in 0..Len(jbLines)
  BY JobsTypes DEF LoopCanceled, At
<1>2. CASE jbPolite
  BY <1>1, <1>2, KillsKeep DEF LoopCanceled
<1>3. CASE ~jbPolite
  BY <1>1, <1>3, EndsKeep DEF LoopCanceled
<1> QED BY <1>2, <1>3

LEMMA LoopReadsKeeps == ASSUME JobsInv, LoopReads PROVE JobsInv'
<1>1. /\ jbPc = "loop" /\ Unread /\ jbRead' = jbRead + 1 /\ jbPolite' = jbPolite /\ jbLines' = jbLines /\ jbCancel' = jbCancel
  BY DEF LoopReads, At
<1>2. jbRead' \in 0..Len(jbLines) /\ jbRead \in Nat /\ Len(jbLines) \in Nat
  BY <1>1, JobsTypes DEF Unread
<1>3. CASE OverBudget(jbRead')
  <2>1. Kills("budget") /\ jbFaults' \in 0..JbFaults
    BY <1>3, JobsTypes DEF LoopReads
  <2> QED BY <1>1, <1>2, <2>1, KillsKeep
<1>4. CASE ~OverBudget(jbRead') /\ jbKind = "shim" /\ Refused(jbRead')
  <2>1. Kills("contract") /\ jbFaults' \in 0..JbFaults
    BY <1>4, JobsTypes DEF LoopReads
  <2> QED BY <1>1, <1>2, <2>1, KillsKeep
<1>5. CASE ~OverBudget(jbRead') /\ ~(jbKind = "shim" /\ Refused(jbRead'))
  <2>1. /\ jbPc' = jbPc /\ jbKind' = jbKind /\ jbTool' = jbTool /\ jbWhy' = jbWhy /\ jbLate' = jbLate
        /\ jbReport' = jbReport /\ jbFaults' = jbFaults
    BY <1>5 DEF LoopReads, Calm
  <2>2. JobsPlaced'
    BY <1>1, <2>1 DEF JobsPlaced
  <2>3. JobsAccepts'
    <3> SUFFICES ASSUME jbKind = "shim", NEW n \in 1..(jbRead + 1) PROVE ~Refused(n)'
      BY <1>1, <2>1 DEF JobsAccepts
    <3>1. Refused(n)' <=> Refused(n)
      BY <1>1 DEF Refused
    <3>2. n \in 1..jbRead \/ n = jbRead + 1
      BY <1>2
    <3>3. \A m \in 1..jbRead : ~Refused(m)
      BY <1>1 DEF JobsInv, JobsAccepts, Before
    <3>4. ~Refused(jbRead + 1)
      BY <1>1, <1>5
    <3> QED BY <3>1, <3>2, <3>3, <3>4
  <2>4. jbKind' \in {"plugin", "shim", "nm3u8", "mux", "ffmpeg"} /\ jbTool' \in Tools
    BY <2>1, JobsTypes
  <2> QED BY <1>1, <1>2, <2>1, <2>2, <2>3, <2>4, MovesKeep
<1> QED BY <1>3, <1>4, <1>5

LEMMA LoopStallsKeeps == ASSUME JobsInv, LoopStalls \/ ShimDeadline PROVE JobsInv'
<1>1. /\ jbPc = "loop" /\ Kills("timeout") /\ jbPolite' = jbPolite /\ jbLines' = jbLines /\ jbCancel' = jbCancel
      /\ jbRead' = jbRead /\ jbFaults' = jbFaults
  BY DEF LoopStalls, ShimDeadline, At
<1>2. jbRead' \in 0..Len(jbLines) /\ jbFaults' \in 0..JbFaults
  BY <1>1, JobsTypes
<1> QED BY <1>1, <1>2, KillsKeep

LEMMA ReadFailsKeeps == ASSUME JobsInv, ReadFails PROVE JobsInv'
<1>1. /\ jbPc = "loop" /\ Kills("read") /\ jbPolite' = jbPolite /\ jbLines' = jbLines /\ jbCancel' = jbCancel
      /\ jbRead' = jbRead /\ jbFaults > 0 /\ jbFaults' = jbFaults - 1
  BY DEF ReadFails, At, Faulty
<1>2. jbRead' \in 0..Len(jbLines) /\ jbFaults \in 0..JbFaults /\ JbFaults \in Nat
  BY <1>1, JobsTypes
<1>3. jbFaults' \in 0..JbFaults
  BY <1>1, <1>2
<1> QED BY <1>1, <1>2, <1>3, KillsKeep

-----------------------------------------------------------------------------
LEMMA PluginExitedKeeps == ASSUME JobsInv, PluginExited PROVE JobsInv'
<1>1. /\ jbPc = "loop" /\ jbKind = "plugin" /\ jbPc' = "tail" /\ jbKind' = jbKind /\ jbPolite' = jbPolite /\ jbLines' = jbLines
      /\ jbCancel' = jbCancel /\ jbRead' = jbRead /\ jbWhy' = jbWhy /\ jbLate' = jbLate /\ jbReport' = jbReport /\ jbFaults' = jbFaults
      /\ jbTool' = [jbTool EXCEPT !.lead = "reaped"]
  BY DEF PluginExited, At
<1>2. jbTool' \in Tools /\ jbTool'.lead = "reaped"
  BY <1>1, JobsTypes DEF Tools
<1>3. JobsPlaced' /\ JobsAccepts'
  BY <1>1, <1>2 DEF JobsPlaced, JobsAccepts
<1>4. jbKind' \in {"plugin", "shim", "nm3u8", "mux", "ffmpeg"} /\ jbRead' \in 0..Len(jbLines)
  BY <1>1, JobsTypes
<1> QED BY <1>1, <1>2, <1>3, <1>4, MovesKeep

LEMMA ScExitedKeeps == ASSUME JobsInv, ScExited PROVE JobsInv'
<1> DEFINE tool == [jbTool EXCEPT !.lead = "reaped"]
<1>1. /\ jbPc = "loop" /\ OfSc /\ jbPolite' = jbPolite /\ jbLines' = jbLines /\ jbCancel' = jbCancel
      /\ jbRead' = jbRead /\ jbFaults' = jbFaults
  BY DEF ScExited, At
<1>2. jbRead' \in 0..Len(jbLines) /\ jbFaults' \in 0..JbFaults
  BY <1>1, JobsTypes
<1>3. tool \in Tools /\ tool.ok = jbTool.ok /\ tool.lead = "reaped"
  BY JobsTypes DEF Tools
<1>4. ASSUME jbTool.ok PROVE Proper
  BY <1>1, <1>4 DEF Proper, OfSc
<1>5. \/ jbTool.ok /\ EndsJob("ok", tool)
      \/ EndsJob("failed", tool)
      \/ jbTool.ok /\ jbKind = "nm3u8" /\ jbKind' = "mux" /\ SpawnsTool("loop")
  BY DEF ScExited
<1> HIDE DEF tool
<1>6. CASE jbTool.ok /\ EndsJob("ok", tool)
  BY <1>1, <1>2, <1>3, <1>4, <1>6, EndsKeep
<1>7. CASE EndsJob("failed", tool)
  BY <1>1, <1>2, <1>3, <1>7, EndsKeep
<1>8. CASE jbTool.ok /\ jbKind = "nm3u8" /\ jbKind' = "mux" /\ SpawnsTool("loop")
  <2>1. /\ jbPc' = "loop" /\ jbWhy' = jbWhy /\ jbLate' = jbLate /\ jbReport' = jbReport
    BY <1>8 DEF SpawnsTool
  <2>2. PICK reads, held \in BOOLEAN : jbTool' = [lead |-> "alive", ok |-> FALSE, reads |-> reads, held |-> held]
    BY <1>8 DEF SpawnsTool
  <2>3. jbTool' \in Tools
    BY <2>2 DEF Tools
  <2>4. JobsPlaced' /\ JobsAccepts'
    BY <1>8, <2>1 DEF JobsPlaced, JobsAccepts
  <2> QED BY <1>1, <1>2, <1>8, <2>1, <2>3, <2>4, MovesKeep
<1> QED BY <1>5, <1>6, <1>7, <1>8

LEMMA TailReadsKeeps == ASSUME JobsInv, TailReads PROVE JobsInv'
<1>1. /\ jbPc = "tail" /\ Unread /\ jbRead' = jbRead + 1 /\ jbPolite' = jbPolite /\ jbLines' = jbLines /\ jbCancel' = jbCancel
      /\ jbPc' = (IF OverBudget(jbRead + 1) THEN "errtail" ELSE "tail")
      /\ jbKind' = jbKind /\ jbTool' = jbTool /\ jbWhy' = jbWhy /\ jbLate' = jbLate /\ jbReport' = jbReport /\ jbFaults' = jbFaults
  BY DEF TailReads, At, Calm
<1>2. jbRead' \in 0..Len(jbLines) /\ jbTool' \in Tools /\ jbKind' \in {"plugin", "shim", "nm3u8", "mux", "ffmpeg"}
  BY <1>1, JobsTypes DEF Unread
<1>3. jbKind = "plugin" /\ jbTool.lead = "reaped"
  BY <1>1 DEF JobsInv, JobsPlaced
<1>4. JobsPlaced'
  BY <1>1, <1>3 DEF JobsPlaced, OverBudget
<1>5. JobsAccepts'
  BY <1>1, <1>3 DEF JobsAccepts
<1> QED BY <1>1, <1>2, <1>4, <1>5, MovesKeep

LEMMA TailEndsKeeps == ASSUME JobsInv, TailEnds PROVE JobsInv'
<1>1. /\ jbPc = "tail" /\ ~Unread /\ jbRead' = jbRead /\ jbPolite' = jbPolite /\ jbLines' = jbLines /\ jbCancel' = jbCancel
      /\ jbPc' = "errtail"
      /\ jbKind' = jbKind /\ jbTool' = jbTool /\ jbWhy' = jbWhy /\ jbLate' = jbLate /\ jbReport' = jbReport /\ jbFaults' = jbFaults
  BY DEF TailEnds, At, Calm
<1>2. jbRead' \in 0..Len(jbLines) /\ jbTool' \in Tools /\ jbKind' \in {"plugin", "shim", "nm3u8", "mux", "ffmpeg"} /\ jbRead' = Len(jbLines)
  BY <1>1, JobsTypes DEF Unread
<1>3. jbKind = "plugin" /\ jbTool.lead = "reaped"
  BY <1>1 DEF JobsInv, JobsPlaced
<1>4. JobsPlaced'
  BY <1>1, <1>2, <1>3 DEF JobsPlaced
<1>5. JobsAccepts'
  BY <1>1, <1>3 DEF JobsAccepts
<1> QED BY <1>1, <1>2, <1>4, <1>5, MovesKeep

LEMMA PluginEndsKeeps == ASSUME JobsInv, PluginEnds PROVE JobsInv'
<1> DEFINE n == IF OverBudget(jbRead) THEN JbBudget ELSE jbRead
           fine == jbTool.ok /\ ResultSeen(n)
<1>1. /\ jbPc = "errtail" /\ EndsJob(IF fine THEN "ok" ELSE "failed", jbTool) /\ jbTool \in Tools
      /\ jbPolite' = jbPolite /\ jbLines' = jbLines /\ jbCancel' = jbCancel /\ jbRead' = jbRead /\ jbFaults' \in 0..JbFaults
  BY JobsTypes DEF PluginEnds, At
<1>2. jbKind = "plugin" /\ jbTool.lead = "reaped" /\ (jbRead = Len(jbLines) \/ jbRead > JbBudget)
  BY <1>1 DEF JobsInv, JobsPlaced
<1>3. n \in 0..Len(jbLines) /\ jbLines \in Seq(Line) /\ Len(jbLines) \in Nat /\ JbBudget \in Nat
  BY <1>2, JobsTypes DEF OverBudget
<1>4. \A i \in 1..Len(jbLines) : i <= n <=> i <= JbBudget /\ i <= n
  BY <1>2, <1>3, JobsTypes DEF OverBudget
<1>5. \A i \in 1..Len(jbLines) : i <= JbBudget => i <= n
  BY <1>2, <1>3, JobsTypes DEF OverBudget
<1>6. ResultSeen(n) <=> \E i \in 1..n : jbLines[i] = "result"
  BY <1>3, PrefixHas DEF ResultSeen
<1>7. fine <=> Proper
  <2> HIDE DEF n
  <2>1. (\E i \in 1..n : jbLines[i] = "result") <=> \E i \in 1..Len(jbLines) : i <= JbBudget /\ jbLines[i] = "result"
    <3>1. \A i : i \in 1..n => i \in 1..Len(jbLines) /\ i <= n
      BY <1>3
    <3>2. \A i \in 1..Len(jbLines) : i <= n => i \in 1..n
      BY <1>3
    <3> QED BY <1>4, <1>5, <3>1, <3>2
  <2> QED BY <1>2, <1>6, <2>1 DEF Proper
<1> HIDE DEF fine
<1> QED BY <1>1, <1>2, <1>7, EndsKeep

LEMMA ShimEofKeeps == ASSUME JobsInv, ShimEof PROVE JobsInv'
<1>1. /\ jbPc = "loop" /\ jbKind = "shim" /\ ~Unread /\ jbRead' = jbRead /\ jbPolite' = jbPolite /\ jbLines' = jbLines /\ jbCancel' = jbCancel
      /\ jbPc' = "reap"
      /\ jbKind' = jbKind /\ jbTool' = jbTool /\ jbWhy' = jbWhy /\ jbLate' = jbLate /\ jbReport' = jbReport /\ jbFaults' = jbFaults
  BY DEF ShimEof, At, Calm
<1>2. jbRead' \in 0..Len(jbLines) /\ jbTool' \in Tools /\ jbKind' \in {"plugin", "shim", "nm3u8", "mux", "ffmpeg"} /\ jbRead' = Len(jbLines)
  BY <1>1, JobsTypes DEF Unread
<1>3. JobsPlaced'
  BY <1>1, <1>2 DEF JobsPlaced
<1>4. JobsAccepts'
  BY <1>1, AcceptsKept DEF JobsInv, Before
<1> QED BY <1>1, <1>2, <1>3, <1>4, MovesKeep

LEMMA ShimEndsKeeps == ASSUME JobsInv, ShimEnds PROVE JobsInv'
<1> DEFINE tool == [jbTool EXCEPT !.lead = IF @ = "exited" THEN "reaped" ELSE @]
<1>1. /\ jbPc = "reap" /\ EndsJob(IF Finish(jbRead) THEN "ok" ELSE "failed", tool)
      /\ jbPolite' = jbPolite /\ jbLines' = jbLines /\ jbCancel' = jbCancel /\ jbRead' = jbRead /\ jbFaults' \in 0..JbFaults
  BY JobsTypes DEF ShimEnds, At
<1>2. tool \in Tools /\ tool.ok = jbTool.ok
  BY JobsTypes DEF Tools
<1>3. jbKind = "shim"
  BY <1>1 DEF JobsInv, JobsPlaced
<1>4. Finish(jbRead) <=> Proper
  BY <1>1, <1>3, AcceptedIsProper
<1> HIDE DEF tool
<1> QED BY <1>1, <1>2, <1>3, <1>4, EndsKeep

LEMMA GraceEndsKeeps == ASSUME JobsInv, GraceEnds PROVE JobsInv'
<1>1. /\ jbPc = "term" /\ jbPc' = "kill" /\ jbKind' = jbKind /\ jbPolite' = jbPolite /\ jbLines' = jbLines /\ jbCancel' = jbCancel
      /\ jbRead' = jbRead /\ jbWhy' = jbWhy /\ jbLate' = jbLate /\ jbReport' = jbReport /\ jbFaults' = jbFaults
      /\ jbTool' = KillGroup(jbTool)
  BY DEF GraceEnds, At
<1>2. jbTool' \in Tools
  BY <1>1, JobsTypes, ToolsAre
<1>3. JobsPlaced' /\ JobsAccepts'
  BY <1>1 DEF JobsInv, JobsPlaced, JobsAccepts, Before
<1>4. jbKind' \in {"plugin", "shim", "nm3u8", "mux", "ffmpeg"} /\ jbRead' \in 0..Len(jbLines)
  BY <1>1, JobsTypes
<1> QED BY <1>1, <1>2, <1>3, <1>4, MovesKeep

LEMMA KillReapsKeeps == ASSUME JobsInv, KillReaps PROVE JobsInv'
<1> DEFINE tool == [jbTool EXCEPT !.lead = "reaped"]
<1>1. /\ jbPc \in {"term", "kill"} /\ EndsJob(IF jbWhy = "cancel" THEN "canceled" ELSE "failed", tool)
      /\ jbPolite' = jbPolite /\ jbLines' = jbLines /\ jbCancel' = jbCancel /\ jbRead' = jbRead /\ jbFaults' \in 0..JbFaults
  BY JobsTypes DEF KillReaps, At
<1>2. tool \in Tools /\ tool.ok = jbTool.ok
  BY JobsTypes DEF Tools
<1>3. jbWhy # "none"
  BY <1>1 DEF JobsInv, JobsPlaced
<1> HIDE DEF tool
<1>4. PICK report \in {"canceled", "failed"} : EndsJob(report, tool)
  BY <1>1
<1> QED BY <1>1, <1>2, <1>3, <1>4, EndsKeep

LEMMA TaskDroppedKeeps == ASSUME JobsInv, TaskDropped PROVE JobsInv'
<1>1. /\ jbPc # "done" /\ jbPc' = "done" /\ jbReport' = "failed" /\ jbWhy' = "dropped" /\ jbKind' = jbKind /\ jbRead' = jbRead
      /\ jbPolite' = jbPolite /\ jbLines' = jbLines /\ jbCancel' = jbCancel /\ jbFaults > 0 /\ jbFaults' = jbFaults - 1
      /\ jbTool' = [jbTool EXCEPT !.reads = TRUE, !.held = FALSE]
      /\ jbLate' = (jbLate \/ jbTool.lead # "reaped")
  BY DEF TaskDropped, At, Faulty, Drops, LetGo
<1>2. jbTool' \in Tools
  BY <1>1, JobsTypes DEF Tools
<1>3. jbLate' \in BOOLEAN
  <2>1. (jbLate \/ jbTool.lead # "reaped") \in BOOLEAN
    OBVIOUS
  <2> QED BY <1>1, <2>1
<1>4. jbFaults' \in 0..JbFaults
  BY <1>1, JobsTypes
<1>5. JobsTypeOK'
  BY <1>1, <1>2, <1>3, <1>4 DEF JobsInv, JobsTypeOK
<1>6. JobsPlaced' /\ JobsAccepts' /\ JobsTold' /\ JobsReportIsTrue'
  BY <1>1 DEF JobsPlaced, JobsAccepts, JobsTold, JobsReportIsTrue, Before
<1> QED BY <1>5, <1>6 DEF JobsInv

LEMMA JobsSteps == ASSUME JobsInv, [JobsNext]_jbVars PROVE JobsInv'
<1>1. CASE UNCHANGED jbVars
  <2> USE <1>1 DEF jbVars
  <2>1. JobsTypeOK' /\ JobsPlaced' /\ JobsTold'
    BY DEF JobsInv, JobsTypeOK, JobsPlaced, JobsTold, OfSc
  <2>2. JobsAccepts'
    BY AcceptsKept DEF JobsInv
  <2>3. JobsReportIsTrue'
    BY DEF JobsInv, JobsReportIsTrue, Proper, OfSc
  <2> QED BY <2>1, <2>2, <2>3 DEF JobsInv
<1>2. CASE JobsNext
  <2>1. CASE ProcessStep \/ CancelsJob \/ LateKill \/ JobStarts
    BY <2>1, WritesKeeps, LeaderExitsKeeps, HelpersExitKeeps, CancelsJobKeeps, LateKillKeeps, JobStartsKeeps DEF ProcessStep
  <2>2. CASE JobStep
    BY <2>2, GateCanceledKeeps, JobSpawnsKeeps, StdinWrittenKeeps, StdinBrokenKeeps, LoopCanceledKeeps, LoopReadsKeeps,
       LoopStallsKeeps, PluginExitedKeeps, ScExitedKeeps, TailReadsKeeps, TailEndsKeeps, PluginEndsKeeps, ShimEofKeeps,
       ShimEndsKeeps, GraceEndsKeeps, KillReapsKeeps DEF JobStep
  <2>3. CASE ShimEof \/ ShimDeadline \/ SpawnFails \/ ReadFails \/ TaskDropped
    BY <2>3, ShimEofKeeps, LoopStallsKeeps, SpawnFailsKeeps, ReadFailsKeeps, TaskDroppedKeeps
  <2> QED BY <1>2, <2>1, <2>2, <2>3 DEF JobsNext
<1> QED BY <1>1, <1>2

(* The types of the job and its process group (aulos-provider,             *)
(* command/provider.rs; aulos-provider-ytdlp, runner.rs;                   *)
(* aulos-provider-sc).                                                     *)
THEOREM JobsTypesHold == JobsSpec => []JobsTypeOK
<1>1. JobsInv => JobsTypeOK
  BY DEF JobsInv
<1> QED BY JobsStarts, JobsSteps, <1>1, PTL DEF JobsSpec

(* No job is reported finished whose tool did not do its work, however the *)
(* exit raced the last lines, and no plugin or shim that did its work, and *)
(* that nothing made the job end, is reported as a failure: the safety     *)
(* half of JobsReportAndEnd.                                               *)
THEOREM ReportsAreTrue == JobsSpec => [][JobsReportIsTrue']_jbVars
<1>1. JobsInv /\ [JobsNext]_jbVars => [JobsReportIsTrue']_jbVars
  BY JobsSteps DEF JobsInv
<1> QED BY JobsStarts, JobsSteps, <1>1, PTL DEF JobsSpec
-----------------------------------------------------------------------------
(* The seven services side by side.  What one of them does leaves the      *)
(* others alone, so the strengthenings of all are kept together.           *)
ServicesInv ==
  /\ SubsInv /\ HooksInv /\ DedupeInv /\ PotInv /\ JobsInv /\ OptionsInv
  /\ TableInv /\ Limits
ServicesVars == <<scene, subVars, hkVars, ddVars, wrVars, ptVars, jbVars, opVars>>

LEMMA ServicesStart == MCInit => ServicesInv
BY SubsStarts, HooksStart, DedupeStarts, TableInvStarts, LimitsStart, PotStarts, JobsStarts, OptionsStarts
DEF MCInit, ServicesInv

LEMMA ServicesStep ==
  ASSUME ServicesInv, [MCNext]_ServicesVars
  PROVE  ServicesInv'
<1>1. [SubsNext]_subVars
  BY DEF ServicesVars, MCNext, MCSubs, MCHooks, MCDedupe, MCWriter, MCPot, MCJobs, MCOptions
<1>2. [HooksNext]_hkVars
  BY DEF ServicesVars, MCNext, MCSubs, MCHooks, MCDedupe, MCWriter, MCPot, MCJobs, MCOptions
<1>3. [DedupeNext]_ddVars
  BY DEF ServicesVars, MCNext, MCSubs, MCHooks, MCDedupe, MCWriter, MCPot, MCJobs, MCOptions
<1>4. [WriterNext]_wrVars
  BY DEF ServicesVars, MCNext, MCSubs, MCHooks, MCDedupe, MCWriter, MCPot, MCJobs, MCOptions
<1>5. [PotNext]_ptVars
  BY DEF ServicesVars, MCNext, MCSubs, MCHooks, MCDedupe, MCWriter, MCPot, MCJobs, MCOptions
<1>6. [JobsNext]_jbVars
  BY DEF ServicesVars, MCNext, MCSubs, MCHooks, MCDedupe, MCWriter, MCPot, MCJobs, MCOptions
<1>7. [OptionsNext]_opVars
  BY DEF ServicesVars, MCNext, MCSubs, MCHooks, MCDedupe, MCWriter, MCPot, MCJobs, MCOptions
<1>8. SubsInv' /\ HooksInv' /\ DedupeInv' /\ PotInv'
  BY <1>1, <1>2, <1>3, <1>5, SubsSteps, HooksStep, DedupeSteps, PotSteps DEF ServicesInv
<1>9. JobsInv' /\ OptionsInv'
  BY <1>6, <1>7, JobsSteps, OptionsSteps DEF ServicesInv
<1>10. TableInv' /\ Limits'
  BY <1>4, WriterStep DEF ServicesInv
<1> QED BY <1>8, <1>9, <1>10 DEF ServicesInv

(* Side by side the seven services keep their types and their limits,      *)
(* whichever of them the scene lets run.                                   *)
THEOREM ServicesTypesHold == MCSpec => []ServicesTypeOK
<1>1. ServicesInv => ServicesTypeOK
  BY LimitsTyped DEF ServicesInv, ServicesTypeOK, SubsInv, SubsTyped, HooksInv, DedupeInv, PotInv, JobsInv, OptionsInv, OptionsTyped
<1> QED BY ServicesStart, ServicesStep, <1>1, PTL DEF MCSpec, ServicesVars
=============================================================================
