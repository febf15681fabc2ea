----------------------------- MODULE HookProofs -----------------------------
(***************************************************************************)
(* What TLAPS proves about the dispatcher that fires the hooks, for any    *)
(* downloads, windows, limits and faults: that a completed download is     *)
(* fired once at most.                                                     *)
(***************************************************************************)
EXTENDS Hooks, ListProofs, SequenceTheorems

-----------------------------------------------------------------------------
(* The items of the batches that have been fired.                          *)
Fired == UNION {ItemsOf(b.items) : b \in hkFired}

(* The strengthening of HooksBatchOnce.  A download completes once, so its *)
(* event is at one place of the dispatcher's inbox at most, and before it  *)
(* is taken the worker has not seen it; from the worker's inbox on it is   *)
(* at one place as well.  The batch goes by its first event, and the time  *)
(* it has waited and the time it will wait are together within the cap.    *)
EventsOnce ==
  /\ \A j \in DOMAIN hkEvents : hkEvents[j].kind = "completed" =>
       /\ hkPhase[hkEvents[j].item] = "completed" /\ hkEvents[j].item \notin hkAccepted
       /\ \A k \in DOMAIN hkEvents : hkEvents[k] = hkEvents[j] => k = j
  /\ hkAccepted \subseteq HkItem /\ \A i \in hkAccepted : hkPhase[i] = "completed"
Led == hkBatch # <<>> => hkFirst = {hkBatch[1]}
PlacedOnce ==
  /\ hkAccepted = ItemsOf(hkJobs) \cup ItemsOf(hkBatch) \cup hkDropped \cup Fired
  /\ Once(hkJobs) /\ ItemsOf(hkJobs) \cap ItemsOf(hkBatch) = {}
  /\ hkDropped \cap (ItemsOf(hkJobs) \cup ItemsOf(hkBatch)) = {}
  /\ Fired \cap (ItemsOf(hkJobs) \cup ItemsOf(hkBatch) \cup hkDropped) = {}
  /\ \A b, c \in hkFired : b # c => ItemsOf(b.items) \cap ItemsOf(c.items) = {}
  /\ \A b \in hkFired : b.first = {b.items[1]}
  /\ Led
WaitsWithin ==
  /\ hkDue # NoTimer => hkDue \in Nat /\ hkAge + hkDue <= HkMaxWait
  /\ hkDue = NoTimer => hkAge = 0
HooksFinite == IsFiniteSet(hkRunning) /\ IsFiniteSet(hkFlight)
HooksInv == HooksTypeOK /\ HooksFinite /\ EventsOnce /\ PlacedOnce /\ WaitsWithin

(* What ItemsOf says of the operations on sequences.                       *)
LEMMA NoItems == ItemsOf(<<>>) = {} /\ Once(<<>>)
BY DEF ItemsOf, Once

LEMMA ItemsAppended ==
  ASSUME NEW S, NEW s \in Seq(S), NEW x \in S
  PROVE  /\ Append(s, x) \in Seq(S) /\ Len(Append(s, x)) = Len(s) + 1 /\ Append(s, x) # <<>>
         /\ ItemsOf(Append(s, x)) = ItemsOf(s) \cup {x}
         /\ Once(s) /\ x \notin ItemsOf(s) => Once(Append(s, x))
         /\ Append(s, x)[1] = IF s = <<>> THEN x ELSE s[1]
<1>1. /\ Append(s, x) \in Seq(S) /\ Len(Append(s, x)) = Len(s) + 1 /\ Append(s, x) # <<>>
      /\ DOMAIN s = 1..Len(s) /\ DOMAIN Append(s, x) = 1..(Len(s) + 1) /\ Len(s) \in Nat
      /\ \A j \in 1..Len(s) : Append(s, x)[j] = s[j]
      /\ Append(s, x)[Len(s) + 1] = x
  BY AppendProperties, LenProperties
<1>2. ItemsOf(Append(s, x)) = ItemsOf(s) \cup {x}
  <2>1. ASSUME NEW y \in ItemsOf(Append(s, x)) PROVE y \in ItemsOf(s) \cup {x}
    <3>1. PICK j \in 1..(Len(s) + 1) : y = Append(s, x)[j] BY <2>1, <1>1 DEF ItemsOf
    <3>2. j \in 1..Len(s) \/ j = Len(s) + 1 BY <1>1
    <3> QED BY <3>1, <3>2, <1>1 DEF ItemsOf
  <2>2. ASSUME NEW y \in ItemsOf(s) PROVE y \in ItemsOf(Append(s, x))
    <3>1. PICK j \in 1..Len(s) : y = s[j] BY <2>2, <1>1 DEF ItemsOf
    <3>2. j \in 1..(Len(s) + 1) BY <1>1
    <3> QED BY <3>1, <3>2, <1>1 DEF ItemsOf
  <2>3. x \in ItemsOf(Append(s, x))
    <3>1. Len(s) + 1 \in 1..(Len(s) + 1) BY <1>1
    <3> QED BY <3>1, <1>1 DEF ItemsOf
  <2> QED BY <2>1, <2>2, <2>3
<1>3. ASSUME Once(s), x \notin ItemsOf(s) PROVE Once(Append(s, x))
  <2> SUFFICES ASSUME NEW j \in 1..(Len(s) + 1), NEW k \in 1..(Len(s) + 1), Append(s, x)[j] = Append(s, x)[k] PROVE j = k
    BY <1>1 DEF Once
  <2>1. \A m \in 1..(Len(s) + 1) : m \in 1..Len(s) \/ m = Len(s) + 1 BY <1>1
  <2>2. \A m \in 1..Len(s) : s[m] # x BY <1>1, <1>3 DEF ItemsOf
  <2> QED BY <2>1, <2>2, <1>1, <1>3 DEF Once
<1>4. Append(s, x)[1] = IF s = <<>> THEN x ELSE s[1]
  <2>1. CASE Len(s) = 0 BY <2>1, <1>1, EmptySeq
  <2>2. CASE Len(s) # 0
    <3>1. 1 \in 1..Len(s) BY <2>2, <1>1
    <3>2. s # <<>> BY <2>2, EmptySeq
    <3> QED BY <3>1, <3>2, <1>1
  <2> QED BY <2>1, <2>2
<1> QED BY <1>1, <1>2, <1>3, <1>4

LEMMA ItemsTaken ==
  ASSUME NEW S, NEW s \in Seq(S), s # <<>>
  PROVE  /\ Head(s) \in S /\ Tail(s) \in Seq(S) /\ Len(Tail(s)) = Len(s) - 1 /\ Len(s) \in Nat \ {0}
         /\ Head(s) = s[1] /\ \A j \in 1..(Len(s) - 1) : Tail(s)[j] = s[j + 1]
         /\ ItemsOf(s) = {Head(s)} \cup ItemsOf(Tail(s))
         /\ Once(s) => Once(Tail(s)) /\ Head(s) \notin ItemsOf(Tail(s))
<1>1. /\ Head(s) \in S /\ Tail(s) \in Seq(S) /\ Len(Tail(s)) = Len(s) - 1 /\ Len(s) \in Nat \ {0}
      /\ Head(s) = s[1] /\ \A j \in 1..(Len(s) - 1) : Tail(s)[j] = s[j + 1]
      /\ DOMAIN s = 1..Len(s) /\ DOMAIN Tail(s) = 1..(Len(s) - 1)
  BY HeadTailProperties, LenProperties, EmptySeq, ElementOfSeq
<1>2. ItemsOf(s) = {Head(s)} \cup ItemsOf(Tail(s))
  <2>1. ASSUME NEW y \in ItemsOf(s) PROVE y \in {Head(s)} \cup ItemsOf(Tail(s))
    <3>1. PICK j \in 1..Len(s) : y = s[j] BY <2>1, <1>1 DEF ItemsOf
    <3>2. CASE j = 1 BY <3>1, <3>2, <1>1
    <3>3. CASE j # 1
      <4>1. j - 1 \in 1..(Len(s) - 1) /\ (j - 1) + 1 = j BY <3>3, <1>1
      <4>2. Tail(s)[j - 1] = y BY <4>1, <3>1, <1>1
      <4> QED BY <4>1, <4>2, <1>1 DEF ItemsOf
    <3> QED BY <3>2, <3>3
  <2>2. ASSUME NEW y \in ItemsOf(Tail(s)) PROVE y \in ItemsOf(s)
    <3>1. PICK j \in 1..(Len(s) - 1) : y = Tail(s)[j] BY <2>2, <1>1 DEF ItemsOf
    <3>2. j + 1 \in 1..Len(s) /\ y = s[j + 1] BY <3>1, <1>1
    <3> QED BY <3>2, <1>1 DEF ItemsOf
  <2>3. Head(s) \in ItemsOf(s)
    <3>1. 1 \in 1..Len(s) BY <1>1
    <3> QED BY <3>1, <1>1 DEF ItemsOf
  <2> QED BY <2>1, <2>2, <2>3
<1>3. ASSUME Once(s) PROVE Once(Tail(s)) /\ Head(s) \notin ItemsOf(Tail(s))
  <2>1. \A j \in 1..(Len(s) - 1) : j + 1 \in 1..Len(s) /\ Tail(s)[j] = s[j + 1] /\ j + 1 # 1 BY <1>1
  <2>2. \A j, k \in 1..(Len(s) - 1) : j + 1 = k + 1 => j = k BY <1>1
  <2>3. Once(Tail(s)) BY <2>1, <2>2, <1>1, <1>3 DEF Once
  <2>4. 1 \in 1..Len(s) BY <1>1
  <2>5. Head(s) \notin ItemsOf(Tail(s)) BY <2>1, <2>4, <1>1, <1>3 DEF Once, ItemsOf
  <2> QED BY <2>3, <2>5
<1> QED BY <1>1, <1>2, <1>3

(* The empty sequence, under a name.                                       *)
LEMMA Nothing ==
  \E e : /\ e = <<>> /\ e \in Seq(HkItem) /\ e \in Seq([kind : {"finishing", "completed"}, item : HkItem])
        /\ Len(e) = 0 /\ DOMAIN e = {} /\ ItemsOf(e) = {} /\ Once(e)
<1>1. /\ <<>> \in Seq(HkItem) /\ <<>> \in Seq([kind : {"finishing", "completed"}, item : HkItem])
      /\ Len(<<>>) = 0 /\ DOMAIN <<>> = {} /\ ItemsOf(<<>>) = {} /\ Once(<<>>)
  BY NoItems
<1> QED BY <1>1

LEMMA HooksStart == HooksInit => HooksInv
<1> SUFFICES ASSUME HooksInit PROVE HooksInv
  OBVIOUS
<1>e. PICK e : e = <<>> /\ e \in Seq(HkItem) /\ e \in Seq([kind : {"finishing", "completed"}, item : HkItem])
               /\ Len(e) = 0 /\ DOMAIN e = {} /\ ItemsOf(e) = {} /\ Once(e)
  BY Nothing
<1>a. /\ hkPhase \in [HkItem -> {"active", "completed"}] /\ hkEngine = TRUE /\ hkCancel = FALSE
      /\ hkLoop = "run" /\ hkTasks = {} /\ hkFirst = {} /\ hkAge = 0 /\ hkDue = NoTimer
      /\ hkWorker = "select" /\ hkAnswers = [i \in HkItem |-> 0]
      /\ hkAccepted = {} /\ hkFired = {} /\ hkDropped = {}
  BY DEF HooksInit
<1>0. hkEvents = e /\ hkJobs = e /\ hkBatch = e /\ hkWaiting = e /\ hkFiring = e /\ hkFlight = {} /\ hkRunning = {}
  BY <1>e DEF HooksInit
<1>1. HooksTypeOK
  <2>1. Cardinality({}) = 0 BY FS_EmptySet
  <2>2. Len(e) <= HkInbox /\ Len(e) <= HkJobs /\ 0 <= HkChains /\ 0 <= HkFlights BY <1>e, HkAssumption
  <2>3. /\ hkPhase \in [HkItem -> {"active", "finishing", "completed"}] /\ hkAnswers \in [HkItem -> Nat]
    BY <1>a
  <2>4. Cardinality(hkRunning) <= HkChains /\ Cardinality(hkFlight) <= HkFlights BY <1>0, <2>1, <2>2
  <2>5. hkEvents \in Seq([kind : {"finishing", "completed"}, item : HkItem]) /\ Len(hkEvents) <= HkInbox
    BY <1>0, <1>e, <2>2
  <2>6. /\ hkWaiting \in Seq(HkItem) /\ hkJobs \in Seq(HkItem) /\ Len(hkJobs) <= HkJobs
        /\ hkBatch \in Seq(HkItem) /\ hkFiring \in Seq(HkItem)
    BY <1>0, <1>e, <2>2
  <2>7. hkAge \in Nat /\ hkDue \in Int /\ hkTasks \subseteq [item : HkItem, left : 0..HkPre]
    BY <1>a DEF NoTimer
  <2> QED BY <1>0, <1>a, <2>3, <2>4, <2>5, <2>6, <2>7 DEF HooksTypeOK
<1>2. HooksFinite BY <1>0, FS_EmptySet DEF HooksFinite
<1>3. EventsOnce BY <1>0, <1>a, <1>e DEF EventsOnce
<1>4. PlacedOnce
  <2>1. hkBatch = <<>> BY <1>0, <1>e
  <2>2. Led BY <2>1 DEF Led
  <2> QED BY <1>0, <1>a, <1>e, <2>2 DEF PlacedOnce, Fired
<1>5. WaitsWithin BY <1>a DEF WaitsWithin
<1> QED BY <1>1, <1>2, <1>3, <1>4, <1>5 DEF HooksInv

(* The parts of the invariant a step does not touch.                       *)
LEMMA Untouched ==
  ASSUME HooksInv
  PROVE  /\ UNCHANGED <<hkEvents, hkPhase, hkAccepted>> => EventsOnce'
         /\ UNCHANGED <<hkAccepted, hkJobs, hkBatch, hkFirst, hkDropped, hkFired>> => PlacedOnce'
         /\ UNCHANGED <<hkDue, hkAge>> => WaitsWithin'
         /\ UNCHANGED <<hkRunning, hkFlight>> => HooksFinite'
<1>1. UNCHANGED <<hkEvents, hkPhase, hkAccepted>> => EventsOnce' BY DEF HooksInv, EventsOnce
<1>2. UNCHANGED <<hkAccepted, hkJobs, hkBatch, hkFirst, hkDropped, hkFired>> => PlacedOnce'
  BY DEF HooksInv, PlacedOnce, Fired, Led
<1>3. UNCHANGED <<hkDue, hkAge>> => WaitsWithin' BY DEF HooksInv, WaitsWithin
<1>4. UNCHANGED <<hkRunning, hkFlight>> => HooksFinite' BY DEF HooksInv, HooksFinite
<1> QED BY <1>1, <1>2, <1>3, <1>4

LEMMA EngineEventsKeep ==
  ASSUME HooksInv, NEW i \in HkItem, Finishes(i) \/ Completes(i)
  PROVE  HooksInv'
<1> DEFINE kind == IF Completes(i) THEN "completed" ELSE "finishing"
           x == [kind |-> kind, item |-> i]
           Ev == [kind : {"finishing", "completed"}, item : HkItem]
<1>0. /\ hkPhase[i] # "completed" /\ Routed(kind, i)
      /\ hkPhase' = [hkPhase EXCEPT ![i] = kind] \/ hkPhase' = [hkPhase EXCEPT ![i] = "completed"]
      /\ kind = "completed" => hkPhase' = [hkPhase EXCEPT ![i] = "completed"]
      /\ UNCHANGED <<hkEngine, hkCancel, hkLoop, hkTasks, hkChainVars, hkWorkerVars, hkAnswers, hkHistory>>
  BY DEF Finishes, Completes
<1>1. hkEvents \in Seq(Ev) /\ Len(hkEvents) <= HkInbox /\ hkPhase \in [HkItem -> {"active", "finishing", "completed"}]
  BY DEF HooksInv, HooksTypeOK
<1>2. x \in Ev /\ kind \in {"finishing", "completed"} /\ x.kind = kind /\ x.item = i OBVIOUS
<1> HIDE DEF kind, x, Ev
<1>3. hkEvents' = (IF Len(hkEvents) < HkInbox THEN Append(hkEvents, x) ELSE hkEvents)
  BY <1>0 DEF Routed, x
<1>4. /\ Append(hkEvents, x) \in Seq(Ev) /\ Len(Append(hkEvents, x)) = Len(hkEvents) + 1
      /\ DOMAIN hkEvents = 1..Len(hkEvents) /\ DOMAIN Append(hkEvents, x) = 1..(Len(hkEvents) + 1)
      /\ \A j \in 1..Len(hkEvents) : Append(hkEvents, x)[j] = hkEvents[j]
      /\ Append(hkEvents, x)[Len(hkEvents) + 1] = x /\ Len(hkEvents) \in Nat
      /\ \A j \in 1..Len(hkEvents) : hkEvents[j] \in Ev
  BY <1>1, <1>2, AppendProperties, LenProperties, ElementOfSeq
<1>5. hkEvents' \in Seq(Ev) /\ Len(hkEvents') <= HkInbox BY <1>1, <1>3, <1>4, HkAssumption
<1>6. HooksTypeOK'
  BY <1>0, <1>1, <1>2, <1>5 DEF HooksInv, HooksTypeOK, hkChainVars, hkWorkerVars, hkHistory, Ev
<1>7. EventsOnce'
  <2>1. \A o \in HkItem : hkPhase[o] = "completed" => hkPhase'[o] = "completed" BY <1>0, <1>1
  <2>2. hkPhase[i] # "completed" /\ i \notin hkAccepted /\ hkAccepted' = hkAccepted
    BY <1>0 DEF HooksInv, EventsOnce, hkHistory
  <2>4. \A o \in hkAccepted : hkPhase'[o] = "completed"
    BY <1>0, <1>1 DEF HooksInv, EventsOnce
  <2>5. ASSUME Len(hkEvents) < HkInbox,
               NEW j \in 1..(Len(hkEvents) + 1), Append(hkEvents, x)[j].kind = "completed"
        PROVE  /\ hkPhase'[Append(hkEvents, x)[j].item] = "completed" /\ Append(hkEvents, x)[j].item \notin hkAccepted
               /\ \A k \in 1..(Len(hkEvents) + 1) : Append(hkEvents, x)[k] = Append(hkEvents, x)[j] => k = j
    <3>1. \A k \in 1..(Len(hkEvents) + 1) : k \in 1..Len(hkEvents) \/ k = Len(hkEvents) + 1 BY <1>4
    <3>2. \A k \in 1..Len(hkEvents) : hkEvents[k].kind = "completed" =>
             /\ hkPhase[hkEvents[k].item] = "completed" /\ hkEvents[k].item \notin hkAccepted /\ hkEvents[k].item \in HkItem
             /\ \A l \in 1..Len(hkEvents) : hkEvents[l] = hkEvents[k] => l = k
      BY <1>4 DEF HooksInv, EventsOnce, Ev
    <3>3. kind = "completed" => hkPhase'[i] = "completed" BY <1>0, <1>1
    <3> QED BY <3>1, <3>2, <3>3, <2>1, <2>2, <2>5, <1>2, <1>4
  <2> QED BY <2>1, <2>2, <2>4, <2>5, <1>3, <1>4 DEF HooksInv, EventsOnce, Ev
<1> QED BY <1>0, <1>6, <1>7, Untouched DEF HooksInv, hkChainVars, hkWorkerVars, hkHistory

LEMMA QuietStepsKeep ==
  ASSUME HooksInv, EngineGone \/ Cancel \/ InboxCloses \/ Stops \/ WorkerEnds \/ UNCHANGED hkVars
  PROVE  HooksInv'
<1>1. UNCHANGED <<hkPhase, hkEvents, hkTasks, hkWaiting, hkRunning, hkJobs, hkBatch, hkFirst, hkAge, hkDue, hkFiring, hkFlight,
                  hkAnswers, hkHeard, hkAccepted, hkFired, hkDropped>>
  BY DEF EngineGone, Cancel, InboxCloses, Stops, WorkerEnds, hkVars, hkOut, hkChainVars, hkWorkerVars,
      hkHistory
<1>2. hkEngine' \in BOOLEAN /\ hkCancel' \in BOOLEAN /\ hkLoop' \in {"run", "join", "done"}
      /\ hkWorker' \in {"select", "fire", "last", "join", "done"}
  BY DEF HooksInv, HooksTypeOK, EngineGone, Cancel, InboxCloses, Stops, WorkerEnds, hkVars, hkOut,
      hkChainVars, hkWorkerVars, hkHistory
<1>3. HooksTypeOK' BY <1>1, <1>2 DEF HooksInv, HooksTypeOK
<1> QED BY <1>1, <1>3, Untouched DEF HooksInv

LEMMA PreTerminalKeeps ==
  ASSUME HooksInv, NEW t \in hkTasks, NEW ok \in BOOLEAN, PreTerminal(t, ok)
  PROVE  HooksInv'
<1>1. t \in [item : HkItem, left : 0..HkPre] /\ HkPre \in Nat BY HkAssumption DEF HooksInv, HooksTypeOK
<1>2. hkTasks' \subseteq [item : HkItem, left : 0..HkPre]
  <2>1. t.left > 0 => t.left - 1 \in 0..HkPre BY <1>1
  <2>2. t.left > 0 => [t EXCEPT !.left = @ - 1] \in [item : HkItem, left : 0..HkPre] BY <1>1, <2>1
  <2> QED BY <2>2 DEF PreTerminal, HooksInv, HooksTypeOK
<1>3. hkAnswers' \in [HkItem -> Nat] BY <1>1 DEF PreTerminal, HooksInv, HooksTypeOK
<1>4. HooksTypeOK'
  BY <1>2, <1>3 DEF PreTerminal, HooksInv, HooksTypeOK, hkOut, hkChainVars, hkWorkerVars, hkHistory
<1> QED BY <1>4, Untouched DEF PreTerminal, HooksInv, hkOut, hkChainVars, hkWorkerVars, hkHistory

LEMMA OnFinishingKeeps == ASSUME HooksInv, OnFinishing PROVE HooksInv'
<1> DEFINE Ev == [kind : {"finishing", "completed"}, item : HkItem]
<1>1. /\ hkEvents \in Seq(Ev) /\ hkEvents # <<>> /\ Head(hkEvents).kind = "finishing" /\ hkEvents' = Tail(hkEvents)
      /\ Len(hkEvents) <= HkInbox
      /\ hkTasks' = hkTasks \cup {[item |-> Head(hkEvents).item, left |-> HkPre]}
  BY DEF OnFinishing, HookEvent, HooksInv, HooksTypeOK
<1> HIDE DEF Ev
<1>2. /\ Head(hkEvents) \in Ev /\ Tail(hkEvents) \in Seq(Ev) /\ Len(Tail(hkEvents)) = Len(hkEvents) - 1
      /\ \A j \in 1..(Len(hkEvents) - 1) : Tail(hkEvents)[j] = hkEvents[j + 1]
      /\ DOMAIN hkEvents = 1..Len(hkEvents) /\ DOMAIN Tail(hkEvents) = 1..(Len(hkEvents) - 1) /\ Len(hkEvents) \in Nat \ {0}
  BY <1>1, ItemsTaken, LenProperties
<1>3. HooksTypeOK'
  <2>1. [item |-> Head(hkEvents).item, left |-> HkPre] \in [item : HkItem, left : 0..HkPre]
    BY <1>2, HkAssumption DEF Ev
  <2>2. hkEvents' \in Seq(Ev) /\ Len(hkEvents') <= HkInbox BY <1>1, <1>2, HkAssumption
  <2> QED BY <1>1, <2>1, <2>2 DEF Ev, OnFinishing, HooksInv, HooksTypeOK, hkOut, hkChainVars,
      hkWorkerVars
<1>4. EventsOnce'
  <2>1. \A j \in 1..(Len(hkEvents) - 1) : j + 1 \in 1..Len(hkEvents) BY <1>2
  <2>2. \A j, k \in 1..(Len(hkEvents) - 1) : j + 1 = k + 1 => j = k BY <1>2
  <2>3. hkPhase' = hkPhase /\ hkAccepted' = hkAccepted BY DEF OnFinishing, hkOut
  <2> QED BY <1>1, <1>2, <2>1, <2>2, <2>3 DEF HooksInv, EventsOnce
<1> QED BY <1>3, <1>4, Untouched DEF OnFinishing, HooksInv, hkOut, hkChainVars, hkWorkerVars

LEMMA OnCompletedKeeps == ASSUME HooksInv, OnCompleted PROVE HooksInv'
<1> DEFINE Ev == [kind : {"finishing", "completed"}, item : HkItem]
           i == Head(hkEvents).item
<1>1. /\ hkEvents \in Seq(Ev) /\ hkEvents # <<>> /\ Head(hkEvents).kind = "completed" /\ hkEvents' = Tail(hkEvents)
      /\ Len(hkEvents) <= HkInbox
      /\ \/ Len(hkJobs) < HkJobs /\ hkJobs' = Append(hkJobs, i) /\ hkAccepted' = hkAccepted \cup {i}
         \/ UNCHANGED <<hkJobs, hkAccepted>>
      /\ hkWaiting' = Append(hkWaiting, i)
      /\ UNCHANGED <<hkOut, hkLoop, hkTasks, hkRunning, hkBatch, hkFirst, hkAge, hkDue, hkFiring, hkWorker, hkFlight,
                     hkAnswers, hkHeard, hkFired, hkDropped>>
  BY DEF OnCompleted, HookEvent, HooksInv, HooksTypeOK
<1> HIDE DEF Ev, i
<1>2. /\ Head(hkEvents) \in Ev /\ Tail(hkEvents) \in Seq(Ev) /\ Len(Tail(hkEvents)) = Len(hkEvents) - 1
      /\ Head(hkEvents) = hkEvents[1]
      /\ \A j \in 1..(Len(hkEvents) - 1) : Tail(hkEvents)[j] = hkEvents[j + 1]
      /\ DOMAIN hkEvents = 1..Len(hkEvents) /\ DOMAIN Tail(hkEvents) = 1..(Len(hkEvents) - 1) /\ Len(hkEvents) \in Nat \ {0}
      /\ \A j \in 1..Len(hkEvents) : hkEvents[j] \in Ev
  BY <1>1, ItemsTaken, LenProperties, ElementOfSeq
<1>3. i \in HkItem /\ i \notin hkAccepted /\ hkPhase[i] = "completed"
  <2>1. 1 \in 1..Len(hkEvents) BY <1>2
  <2> QED BY <1>1, <1>2, <2>1 DEF HooksInv, EventsOnce, Ev, i
<1>4. /\ hkJobs \in Seq(HkItem) /\ Append(hkJobs, i) \in Seq(HkItem) /\ Len(Append(hkJobs, i)) = Len(hkJobs) + 1
      /\ ItemsOf(Append(hkJobs, i)) = ItemsOf(hkJobs) \cup {i} /\ Len(hkJobs) \in Nat
      /\ Once(hkJobs) /\ i \notin ItemsOf(hkJobs) => Once(Append(hkJobs, i))
      /\ Append(hkWaiting, i) \in Seq(HkItem)
  <2>1. hkJobs \in Seq(HkItem) /\ hkWaiting \in Seq(HkItem) BY DEF HooksInv, HooksTypeOK
  <2>2. Append(hkWaiting, i) \in Seq(HkItem) BY <2>1, <1>3, ItemsAppended
  <2>3. Len(hkJobs) \in Nat BY <2>1, LenProperties
  <2>4. /\ Append(hkJobs, i) \in Seq(HkItem) /\ Len(Append(hkJobs, i)) = Len(hkJobs) + 1
        /\ ItemsOf(Append(hkJobs, i)) = ItemsOf(hkJobs) \cup {i}
        /\ Once(hkJobs) /\ i \notin ItemsOf(hkJobs) => Once(Append(hkJobs, i))
    BY <2>1, <1>3, ItemsAppended
  <2> QED BY <2>1, <2>2, <2>3, <2>4
<1>5. HooksTypeOK'
  <2>1. hkEvents' \in Seq(Ev) /\ Len(hkEvents') <= HkInbox BY <1>1, <1>2, HkAssumption
  <2>2. hkJobs' \in Seq(HkItem) /\ Len(hkJobs') <= HkJobs
    <3>1. HkJobs \in Nat /\ Len(hkJobs) <= HkJobs BY HkAssumption DEF HooksInv, HooksTypeOK
    <3>2. hkJobs' = hkJobs \/ (Len(hkJobs) < HkJobs /\ hkJobs' = Append(hkJobs, i)) BY <1>1
    <3>3. Len(hkJobs) < HkJobs => Len(Append(hkJobs, i)) <= HkJobs
      <4>1. \A m, n \in Nat : m < n => m + 1 <= n OBVIOUS
      <4> QED BY <4>1, <3>1, <1>4
    <3>4. hkJobs \in Seq(HkItem) /\ Append(hkJobs, i) \in Seq(HkItem) BY <1>4
    <3> QED BY <3>1, <3>2, <3>3, <3>4
  <2> QED BY <1>1, <1>4, <2>1, <2>2 DEF Ev, HooksInv, HooksTypeOK, hkOut
<1>6. EventsOnce'
  <2>1. \A j \in 1..(Len(hkEvents) - 1) : j + 1 \in 1..Len(hkEvents) /\ j + 1 # 1 BY <1>2
  <2>2. \A j, k \in 1..(Len(hkEvents) - 1) : j + 1 = k + 1 => j = k BY <1>2
  <2>3. hkPhase' = hkPhase /\ hkAccepted' \subseteq hkAccepted \cup {i} BY <1>1 DEF hkOut
  <2>4. ASSUME NEW j \in 1..(Len(hkEvents) - 1), hkEvents[j + 1].kind = "completed" PROVE hkEvents[j + 1].item # i
    <3>1. hkEvents[j + 1] \in Ev /\ hkEvents[1] \in Ev /\ 1 \in 1..Len(hkEvents) BY <2>1, <1>2
    <3>2. ASSUME hkEvents[j + 1].item = i PROVE hkEvents[j + 1] = hkEvents[1]
      BY <3>1, <3>2, <2>4, <1>1, <1>2 DEF Ev, i
    <3> QED BY <3>1, <3>2, <2>1, <1>1, <1>2 DEF HooksInv, EventsOnce
  <2>5. hkAccepted' \subseteq HkItem /\ \A o \in hkAccepted' : hkPhase'[o] = "completed"
    BY <2>3, <1>3 DEF HooksInv, EventsOnce
  <2>6. ASSUME NEW j \in 1..(Len(hkEvents) - 1), hkEvents'[j].kind = "completed"
        PROVE  /\ hkPhase'[hkEvents'[j].item] = "completed" /\ hkEvents'[j].item \notin hkAccepted'
               /\ \A k \in 1..(Len(hkEvents) - 1) : hkEvents'[k] = hkEvents'[j] => k = j
    <3>1. hkEvents'[j] = hkEvents[j + 1] /\ j + 1 \in 1..Len(hkEvents) BY <1>1, <1>2, <2>1
    <3>2. \A k \in 1..(Len(hkEvents) - 1) : hkEvents'[k] = hkEvents[k + 1] /\ k + 1 \in 1..Len(hkEvents)
      BY <1>1, <1>2, <2>1
    <3>3. hkEvents[j + 1].kind = "completed" BY <2>6, <3>1
    <3>4. /\ hkPhase[hkEvents[j + 1].item] = "completed" /\ hkEvents[j + 1].item \notin hkAccepted
          /\ \A k \in 1..Len(hkEvents) : hkEvents[k] = hkEvents[j + 1] => k = j + 1
      BY <3>1, <3>3, <1>2 DEF HooksInv, EventsOnce
    <3>5. hkEvents[j + 1].item # i BY <3>3, <2>4
    <3>6. \A k \in 1..(Len(hkEvents) - 1) : hkEvents[k + 1] = hkEvents[j + 1] => k + 1 = j + 1
      BY <3>2, <3>4
    <3> QED BY <3>1, <3>2, <3>4, <3>5, <3>6, <2>2, <2>3
  <2>7. DOMAIN hkEvents' = 1..(Len(hkEvents) - 1) BY <1>1, <1>2
  <2>8. \A j \in DOMAIN hkEvents' : hkEvents'[j].kind = "completed" =>
          /\ hkPhase'[hkEvents'[j].item] = "completed" /\ hkEvents'[j].item \notin hkAccepted'
          /\ \A k \in DOMAIN hkEvents' : hkEvents'[k] = hkEvents'[j] => k = j
    BY <2>6, <2>7
  <2> QED BY <2>5, <2>8 DEF EventsOnce
<1>7. PlacedOnce'
  <2>1. CASE hkJobs' = Append(hkJobs, i) /\ hkAccepted' = hkAccepted \cup {i}
    <3>1. Led' BY <1>1 DEF HooksInv, PlacedOnce, Led
    <3>2. Once(hkJobs)' /\ ItemsOf(hkJobs)' = ItemsOf(hkJobs) \cup {i} /\ ItemsOf(hkBatch)' = ItemsOf(hkBatch) /\ Fired' = Fired
      <4>1. i \notin ItemsOf(hkJobs) /\ Once(hkJobs) BY <1>3 DEF HooksInv, PlacedOnce
      <4> QED BY <4>1, <2>1, <1>1, <1>4 DEF Fired
    <3>3. i \notin ItemsOf(hkBatch) \cup hkDropped \cup Fired BY <1>3 DEF HooksInv, PlacedOnce
    <3>4. hkFired' = hkFired /\ hkDropped' = hkDropped BY <1>1
    <3> QED BY <2>1, <3>1, <3>2, <3>3, <3>4 DEF HooksInv, PlacedOnce
  <2> QED BY <2>1, <1>1, Untouched
<1> QED BY <1>1, <1>5, <1>6, <1>7, Untouched DEF HooksInv

LEMMA ChainsKeep == ASSUME HooksInv, ChainStarts \/ \E i \in HkItem : ChainEnds(i) PROVE HooksInv'
<1>1. CASE ChainStarts
  <2>1. hkWaiting \in Seq(HkItem) /\ hkWaiting # <<>> BY <1>1 DEF ChainStarts, HooksInv, HooksTypeOK
  <2>2. Head(hkWaiting) \in HkItem /\ Tail(hkWaiting) \in Seq(HkItem) BY <2>1, ItemsTaken
  <2>3. IsFiniteSet(hkRunning) /\ Cardinality(hkRunning) < HkChains /\ hkRunning' = hkRunning \cup {Head(hkWaiting)}
    BY <1>1 DEF ChainStarts, HooksInv, HooksFinite
  <2>4. IsFiniteSet(hkRunning') /\ Cardinality(hkRunning') <= HkChains
    <3>1. Cardinality(hkRunning) \in Nat /\ HkChains \in Nat BY <2>3, FS_CardinalityType, HkAssumption
    <3>2. IsFiniteSet(hkRunning') /\ Cardinality(hkRunning') \in {Cardinality(hkRunning), Cardinality(hkRunning) + 1}
      BY <2>3, FS_AddElement
    <3> QED BY <2>3, <3>1, <3>2
  <2>5. HooksTypeOK'
    BY <1>1, <2>2, <2>3, <2>4 DEF ChainStarts, HooksInv, HooksTypeOK, hkOut, hkWorkerVars, hkHistory
  <2>6. HooksFinite' BY <1>1, <2>4 DEF ChainStarts, HooksInv, HooksFinite, hkWorkerVars
  <2> QED BY <1>1, <2>5, <2>6, Untouched DEF ChainStarts, HooksInv, hkOut, hkWorkerVars, hkHistory
<1>2. ASSUME NEW i \in HkItem, ChainEnds(i) PROVE HooksInv'
  <2>1. IsFiniteSet(hkRunning) /\ Cardinality(hkRunning) <= HkChains /\ hkRunning' = hkRunning \ {i}
    BY <1>2 DEF ChainEnds, HooksInv, HooksFinite, HooksTypeOK
  <2>2. IsFiniteSet(hkRunning') /\ Cardinality(hkRunning') <= HkChains
    <3>1. Cardinality(hkRunning) \in Nat /\ HkChains \in Nat BY <2>1, FS_CardinalityType, HkAssumption
    <3>2. IsFiniteSet(hkRunning') /\ Cardinality(hkRunning') \in {Cardinality(hkRunning), Cardinality(hkRunning) - 1}
      BY <2>1, FS_RemoveElement
    <3> QED BY <2>1, <3>1, <3>2
  <2>3. HooksTypeOK'
    BY <1>2, <2>1, <2>2 DEF ChainEnds, HooksInv, HooksTypeOK, hkOut, hkWorkerVars, hkHistory
  <2>4. HooksFinite' BY <1>2, <2>2 DEF ChainEnds, HooksInv, HooksFinite, hkWorkerVars
  <2> QED BY <1>2, <2>3, <2>4, Untouched DEF ChainEnds, HooksInv, hkOut, hkWorkerVars, hkHistory
<1> QED BY <1>1, <1>2

LEMMA GathersKeeps == ASSUME HooksInv, Gathers PROVE HooksInv'
<1> DEFINE x == Head(hkJobs)
<1>1. hkJobs \in Seq(HkItem) /\ hkJobs # <<>> /\ hkBatch \in Seq(HkItem) /\ Len(hkJobs) <= HkJobs /\ HkJobs \in Nat
  BY HkAssumption DEF Gathers, HooksInv, HooksTypeOK
<1>2. /\ x \in HkItem /\ Tail(hkJobs) \in Seq(HkItem) /\ Len(Tail(hkJobs)) = Len(hkJobs) - 1 /\ Len(hkJobs) \in Nat
      /\ ItemsOf(hkJobs) = {x} \cup ItemsOf(Tail(hkJobs))
      /\ Once(hkJobs) => Once(Tail(hkJobs)) /\ x \notin ItemsOf(Tail(hkJobs))
  BY <1>1, ItemsTaken
<1>3. /\ Append(hkBatch, x) \in Seq(HkItem) /\ Append(hkBatch, x) # <<>>
      /\ ItemsOf(Append(hkBatch, x)) = ItemsOf(hkBatch) \cup {x}
      /\ Append(hkBatch, x)[1] = IF hkBatch = <<>> THEN x ELSE hkBatch[1]
  BY <1>1, <1>2, ItemsAppended
<1>4. /\ hkJobs' = Tail(hkJobs) /\ hkBatch' = Append(hkBatch, x)
      /\ UNCHANGED <<hkOut, hkEvents, hkLoop, hkTasks, hkChainVars, hkFiring, hkWorker, hkFlight, hkAnswers, hkHistory>>
  BY DEF Gathers
<1>5. hkFirst' = {hkBatch'[1]}
  <2>1. CASE hkBatch = <<>> BY <2>1, <1>3, <1>4 DEF Gathers
  <2>2. CASE hkBatch # <<>> BY <2>2, <1>3, <1>4 DEF Gathers, HooksInv, PlacedOnce, Led
  <2> QED BY <2>1, <2>2
<1>6. hkAge' \in Nat /\ hkDue' \in Nat /\ hkAge' + hkDue' <= HkMaxWait
  <2>1. hkAge \in Nat /\ hkAge <= HkMaxWait /\ HkWindow \in Nat /\ HkMaxWait \in Nat /\ HkWindow <= HkMaxWait
    BY HkAssumption DEF HooksInv, HooksTypeOK, WaitsWithin, NoTimer
  <2>2. \E age \in {0, hkAge} : hkAge' = age /\ hkDue' = Deadline(age) BY DEF Gathers
  <2> QED BY <2>1, <2>2 DEF Deadline
<1> HIDE DEF x
<1>7. HooksTypeOK'
  <2>1. hkFirst' \subseteq HkItem
    <3>1. x \in HkItem /\ hkFirst \subseteq HkItem BY <1>2 DEF HooksInv, HooksTypeOK
    <3> QED BY <3>1 DEF Gathers, x
  <2>2. hkJobs' \in Seq(HkItem) /\ Len(hkJobs') <= HkJobs /\ hkBatch' \in Seq(HkItem)
    BY <1>1, <1>2, <1>3, <1>4
  <2>3. UNCHANGED <<hkPhase, hkEngine, hkCancel, hkEvents, hkLoop, hkTasks, hkWaiting, hkRunning, hkFiring, hkWorker, hkFlight, hkAnswers>>
    BY <1>4 DEF hkOut, hkChainVars
  <2> QED BY <1>6, <2>1, <2>2, <2>3 DEF HooksInv, HooksTypeOK
<1>8. PlacedOnce'
  <2>1. Led' BY <1>5 DEF Led
  <2>2. /\ Fired' = Fired /\ hkFired' = hkFired /\ hkDropped' = hkDropped /\ hkAccepted' = hkAccepted
        /\ ItemsOf(hkJobs)' = ItemsOf(hkJobs') /\ ItemsOf(hkBatch)' = ItemsOf(hkBatch') /\ Once(hkJobs)' = Once(hkJobs')
    BY <1>4 DEF Fired, hkHistory
  <2> QED BY <1>2, <1>3, <1>4, <2>1, <2>2 DEF HooksInv, PlacedOnce
<1>9. WaitsWithin' BY <1>6 DEF WaitsWithin, NoTimer
<1> QED BY <1>4, <1>7, <1>8, <1>9, Untouched DEF HooksInv, hkOut, hkChainVars, hkHistory

LEMMA HooksTickKeeps == ASSUME HooksInv, Tick PROVE HooksInv'
<1>1. /\ hkDue > 0 /\ hkDue' = hkDue - 1 /\ hkAge' = hkAge + 1 /\ hkAge \in Nat /\ hkDue \in Int
      /\ UNCHANGED <<hkOut, hkEvents, hkLoop, hkTasks, hkChainVars, hkJobs, hkBatch, hkFirst, hkFiring, hkWorker, hkFlight,
                     hkAnswers, hkHistory>>
  BY DEF Tick, HooksInv, HooksTypeOK
<1>2. HooksTypeOK' BY <1>1 DEF HooksInv, HooksTypeOK, hkOut, hkChainVars, hkHistory
<1>3. WaitsWithin'
  <2>1. hkDue \in Nat /\ hkAge + hkDue <= HkMaxWait /\ HkMaxWait \in Nat
    BY <1>1, HkAssumption DEF HooksInv, WaitsWithin, NoTimer
  <2> QED BY <1>1, <2>1 DEF WaitsWithin, NoTimer
<1> QED BY <1>1, <1>2, <1>3, Untouched DEF HooksInv, hkOut, hkChainVars, hkHistory

(* The batch is fired: its items leave the batch for hkFired.              *)
LEMMA BatchTaken ==
  ASSUME HooksInv, NEW next \in {"fire", "last"}, TakeBatch(next),
         UNCHANGED <<hkPhase, hkEngine, hkCancel, hkEvents, hkLoop, hkTasks, hkChainVars, hkJobs, hkFlight, hkAnswers, hkHeard,
                     hkAccepted, hkDropped>>
  PROVE  HooksInv'
<1>1. PICK e : e = <<>> /\ e \in Seq(HkItem) /\ ItemsOf(e) = {} BY Nothing
<1>2. /\ hkFiring' = hkBatch /\ hkBatch' = e /\ hkAge' = 0 /\ hkDue' = NoTimer /\ hkWorker' = next /\ hkFirst' = {}
      /\ \/ hkBatch = e /\ hkFired' = hkFired
         \/ hkFired' = hkFired \cup {[first |-> hkFirst, items |-> hkBatch]} /\ hkFirst = {hkBatch[1]}
  BY <1>1 DEF TakeBatch, HooksInv, PlacedOnce, Led
<1>3. HooksTypeOK'
  <2>1. hkBatch' \in Seq(HkItem) /\ hkFiring' \in Seq(HkItem) BY <1>1, <1>2 DEF HooksInv, HooksTypeOK
  <2> QED BY <1>2, <2>1 DEF HooksInv, HooksTypeOK, hkChainVars, NoTimer
<1>4. PlacedOnce'
  <2>1. Led' BY <1>1, <1>2 DEF Led
  <2>2. ItemsOf(hkBatch)' = {} /\ ItemsOf(hkJobs)' = ItemsOf(hkJobs) /\ Once(hkJobs)' = Once(hkJobs)
    BY <1>1, <1>2
  <2>3. Fired' = Fired \cup ItemsOf(hkBatch)
    <3>1. CASE hkBatch = e /\ hkFired' = hkFired BY <3>1, <1>1 DEF Fired
    <3>2. CASE hkFired' = hkFired \cup {[first |-> hkFirst, items |-> hkBatch]}
      <4> DEFINE r == [first |-> hkFirst, items |-> hkBatch]
      <4>1. r.items = hkBatch OBVIOUS
      <4>2. hkFired' = hkFired \cup {r} BY <3>2
      <4> HIDE DEF r
      <4> QED BY <4>1, <4>2 DEF Fired
    <3> QED BY <3>1, <3>2, <1>2
  <2>4. \A b \in hkFired' : b \in hkFired \/ (b.items = hkBatch /\ b.first = {hkBatch[1]} /\ b = [first |-> hkFirst, items |-> hkBatch])
    BY <1>2
  <2>5. \A b \in hkFired : ItemsOf(b.items) \subseteq Fired BY DEF Fired
  <2>6. \A b \in hkFired : ItemsOf(b.items) \cap ItemsOf(hkBatch) = {} BY <2>5 DEF HooksInv, PlacedOnce
  <2>7. \A b, c \in hkFired' : b # c => ItemsOf(b.items) \cap ItemsOf(c.items) = {}
    BY <2>4, <2>6 DEF HooksInv, PlacedOnce
  <2>8. \A b \in hkFired' : b.first = {b.items[1]} BY <2>4 DEF HooksInv, PlacedOnce
  <2>9. hkAccepted' = hkAccepted /\ hkDropped' = hkDropped OBVIOUS
  <2> QED BY <2>1, <2>2, <2>3, <2>7, <2>8, <2>9 DEF HooksInv, PlacedOnce
<1>5. WaitsWithin' BY <1>2 DEF WaitsWithin, NoTimer
<1> QED BY <1>3, <1>4, <1>5, Untouched DEF HooksInv, hkChainVars

LEMMA TimerFiresKeeps == ASSUME HooksInv, TimerFires PROVE HooksInv'
BY BatchTaken DEF TimerFires, hkOut

LEMMA ClosedKeeps == ASSUME HooksInv, Closed PROVE HooksInv'
<1>1. CASE TakeBatch("last") /\ UNCHANGED hkDropped BY <1>1, BatchTaken DEF Closed, hkOut
<1>2. CASE ~Flushes(hkCancel)
  <2>1. PICK e : e = <<>> /\ e \in Seq(HkItem) /\ ItemsOf(e) = {} BY Nothing
  <2>2. /\ hkDropped' = hkDropped \cup ItemsOf(hkBatch) /\ hkWorker' = "join"
        /\ hkBatch' = e /\ hkFirst' = {} /\ hkAge' = 0 /\ hkDue' = NoTimer
        /\ UNCHANGED <<hkFiring, hkFired>>
        /\ UNCHANGED <<hkOut, hkEvents, hkLoop, hkTasks, hkChainVars, hkJobs, hkFlight, hkAnswers, hkHeard, hkAccepted>>
    BY <1>2, <2>1 DEF Closed, ItemsOf
  <2>3. HooksTypeOK' BY <2>1, <2>2 DEF HooksInv, HooksTypeOK, hkOut, hkChainVars, NoTimer
  <2>4. PlacedOnce'
    <3>1. Led' BY <2>1, <2>2 DEF Led
    <3>2. ItemsOf(hkBatch)' = {} /\ ItemsOf(hkJobs)' = ItemsOf(hkJobs) /\ Once(hkJobs)' = Once(hkJobs) /\ Fired' = Fired
      BY <2>1, <2>2 DEF Fired
    <3> QED BY <3>1, <3>2, <2>2 DEF HooksInv, PlacedOnce
  <2>5. WaitsWithin' BY <2>2 DEF WaitsWithin, NoTimer
  <2> QED BY <2>2, <2>3, <2>4, <2>5, Untouched DEF HooksInv, hkOut, hkChainVars
<1> QED BY <1>1, <1>2 DEF Closed

LEMMA FlightsKeep == ASSUME HooksInv, Launch \/ \E b \in hkFlight : Lands(b) PROVE HooksInv'
<1>1. CASE Launch
  <2>1. PICK e : e = <<>> /\ e \in Seq(HkItem) BY Nothing
  <2>2. /\ \/ hkFlight' = hkFlight
           \/ Cardinality(hkFlight) < HkFlights /\ hkFlight' = hkFlight \cup {hkFiring}
        /\ hkFiring' = e /\ hkWorker' \in {"select", "join"}
        /\ UNCHANGED <<hkOut, hkEvents, hkLoop, hkTasks, hkChainVars, hkJobs, hkBatch, hkFirst, hkAge, hkDue, hkAnswers, hkHistory>>
    BY <1>1, <2>1 DEF Launch
  <2>3. IsFiniteSet(hkFlight) /\ Cardinality(hkFlight) <= HkFlights /\ HkFlights \in Nat /\ Cardinality(hkFlight) \in Nat
    BY HkAssumption, FS_CardinalityType DEF HooksInv, HooksFinite, HooksTypeOK
  <2>4. IsFiniteSet(hkFlight') /\ Cardinality(hkFlight') <= HkFlights
    <3>1. /\ IsFiniteSet(hkFlight \cup {hkFiring})
          /\ Cardinality(hkFlight \cup {hkFiring}) \in {Cardinality(hkFlight), Cardinality(hkFlight) + 1}
      BY <2>3, FS_AddElement
    <3>2. CASE hkFlight' = hkFlight BY <3>2, <2>3
    <3>3. CASE Cardinality(hkFlight) < HkFlights /\ hkFlight' = hkFlight \cup {hkFiring}
      <4>1. Cardinality(hkFlight) + 1 <= HkFlights BY <3>3, <2>3
      <4> QED BY <3>1, <3>3, <4>1, <2>3
    <3> QED BY <2>2, <3>2, <3>3
  <2>5. HooksTypeOK' BY <2>1, <2>2, <2>4 DEF HooksInv, HooksTypeOK, hkOut, hkChainVars, hkHistory
  <2>6. HooksFinite' BY <2>2, <2>4 DEF HooksInv, HooksFinite, hkChainVars
  <2> QED BY <2>2, <2>5, <2>6, Untouched DEF HooksInv, hkOut, hkChainVars, hkHistory
<1>2. ASSUME NEW b \in hkFlight, Lands(b) PROVE HooksInv'
  <2>1. IsFiniteSet(hkFlight) /\ Cardinality(hkFlight) <= HkFlights /\ hkFlight' = hkFlight \ {b}
    BY <1>2 DEF Lands, HooksInv, HooksFinite, HooksTypeOK
  <2>2. IsFiniteSet(hkFlight') /\ Cardinality(hkFlight') <= HkFlights
    <3>1. Cardinality(hkFlight) \in Nat /\ HkFlights \in Nat BY <2>1, FS_CardinalityType, HkAssumption
    <3>2. IsFiniteSet(hkFlight') /\ Cardinality(hkFlight') \in {Cardinality(hkFlight), Cardinality(hkFlight) - 1}
      BY <2>1, FS_RemoveElement
    <3> QED BY <2>1, <3>1, <3>2
  <2>3. HooksTypeOK' BY <1>2, <2>1, <2>2 DEF Lands, HooksInv, HooksTypeOK, hkOut, hkChainVars, hkHistory
  <2>4. HooksFinite' BY <1>2, <2>2 DEF Lands, HooksInv, HooksFinite, hkChainVars
  <2> QED BY <1>2, <2>3, <2>4, Untouched DEF Lands, HooksInv, hkOut, hkChainVars, hkHistory
<1> QED BY <1>1, <1>2

LEMMA HooksStep == HooksInv /\ [HooksNext]_hkVars => HooksInv'
<1> SUFFICES ASSUME HooksInv, [HooksNext]_hkVars PROVE HooksInv'
  OBVIOUS
<1>1. CASE UNCHANGED hkVars BY <1>1, QuietStepsKeep
<1>2. ASSUME NEW i \in HkItem, Finishes(i) \/ Completes(i) \/ ChainEnds(i) PROVE HooksInv'
  BY <1>2, EngineEventsKeep, ChainsKeep
<1>3. CASE DispatcherStep BY <1>3, OnFinishingKeeps, OnCompletedKeeps, QuietStepsKeep DEF DispatcherStep
<1>4. CASE WorkerStep
  BY <1>4, GathersKeeps, TimerFiresKeeps, ClosedKeeps, FlightsKeep, QuietStepsKeep DEF WorkerStep
<1>5. ASSUME NEW t \in hkTasks, NEW ok \in BOOLEAN, PreTerminal(t, ok) PROVE HooksInv'
  BY <1>5, PreTerminalKeeps
<1>6. CASE EngineGone \/ Cancel \/ ChainStarts \/ Tick \/ \E b \in hkFlight : Lands(b)
  BY <1>6, QuietStepsKeep, ChainsKeep, HooksTickKeeps, FlightsKeep
<1> QED BY <1>1, <1>2, <1>3, <1>4, <1>5, <1>6 DEF HooksNext

LEMMA InvBatchesOnce == HooksInv => HooksBatchOnce
<1> SUFFICES ASSUME HooksInv PROVE HooksBatchOnce
  OBVIOUS
<1>1. hkAge <= HkMaxWait BY HkAssumption DEF HooksInv, HooksTypeOK, WaitsWithin, NoTimer
<1>2. hkJobs \in Seq(HkItem) /\ hkBatch \in Seq(HkItem) BY DEF HooksInv, HooksTypeOK
<1>3. ItemsOf(hkJobs \o hkBatch) \subseteq ItemsOf(hkJobs) \cup ItemsOf(hkBatch)
  <2>1. /\ DOMAIN (hkJobs \o hkBatch) = 1..(Len(hkJobs) + Len(hkBatch)) /\ Len(hkJobs) \in Nat /\ Len(hkBatch) \in Nat
        /\ DOMAIN hkJobs = 1..Len(hkJobs) /\ DOMAIN hkBatch = 1..Len(hkBatch)
        /\ \A j \in 1..(Len(hkJobs) + Len(hkBatch)) :
             (hkJobs \o hkBatch)[j] = IF j <= Len(hkJobs) THEN hkJobs[j] ELSE hkBatch[j - Len(hkJobs)]
    BY <1>2, ConcatProperties, LenProperties
  <2>2. ASSUME NEW j \in 1..(Len(hkJobs) + Len(hkBatch)) 
        PROVE  (hkJobs \o hkBatch)[j] \in ItemsOf(hkJobs) \cup ItemsOf(hkBatch)
    <3>1. CASE j <= Len(hkJobs)
      <4>1. j \in 1..Len(hkJobs) BY <3>1, <2>1
      <4> QED BY <4>1, <3>1, <2>1 DEF ItemsOf
    <3>2. CASE ~(j <= Len(hkJobs))
      <4>1. j - Len(hkJobs) \in 1..Len(hkBatch) BY <3>2, <2>1
      <4> QED BY <4>1, <3>2, <2>1 DEF ItemsOf
    <3> QED BY <3>1, <3>2
  <2> QED BY <2>1, <2>2 DEF ItemsOf
<1>4. \A b \in hkFired : ItemsOf(b.items) \subseteq Fired BY DEF Fired
<1>5. \A b \in hkFired : ItemsOf(b.items) \cap (ItemsOf(hkJobs \o hkBatch) \cup hkDropped) = {}
  BY <1>3, <1>4 DEF HooksInv, PlacedOnce
<1> QED BY <1>1, <1>5 DEF HooksBatchOnce, HooksInv, PlacedOnce, Fired

(* The dispatcher keeps its types and its limits.                          *)
THEOREM HooksTyped == HooksSpec => []HooksTypeOK
<1>1. HooksInv => HooksTypeOK BY DEF HooksInv
<1> QED BY <1>1, HooksStart, HooksStep, PTL DEF HooksSpec

(* A download that completed is in one place of the dispatcher at most and *)
(* fires in one batch at most, which goes by its first event; see          *)
(* HooksBatchOnce.  No step breaks it.                                     *)
THEOREM BatchedOnce == HooksSpec => [][HooksBatchOnce']_hkVars
BY InvBatchesOnce, HooksStart, HooksStep, PTL DEF HooksSpec
=============================================================================
