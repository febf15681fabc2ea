------------------------------ MODULE Frames ------------------------------
(***************************************************************************)
(* The item frames of the realtime feed and what the replay ring folds     *)
(* them into (aulos-queue/src/ring.rs).  A set of rows is a function from  *)
(* ids to rows, a row a record of its fields, a patch a record of some of  *)
(* them.  What the provers reason about is written as recursive functions. *)
(***************************************************************************)
EXTENDS Naturals, Sequences, SequencesExt, Lists

\* p written over q: one row or one set of rows; two sets of patches, row by row
Atop(p, q) == [x \in DOMAIN p \cup DOMAIN q |-> IF x \in DOMAIN p THEN p[x] ELSE q[x]]
Over(p, q) == [i \in DOMAIN p \cup DOMAIN q |->
                 IF i \notin DOMAIN q THEN p[i] ELSE IF i \notin DOMAIN p THEN q[i] ELSE Atop(p[i], q[i])]
Put(rows, i, r) == [x \in DOMAIN rows \cup {i} |-> IF x = i THEN r ELSE rows[x]]
Without(rows, S) == Restrict(rows, DOMAIN rows \ S)

\* A frame body: its kind and the rows, ids or patches it carries.
Body(kind, rows) == [kind |-> kind, rows |-> rows]
Ids(body) == DOMAIN body.rows
Carrying(bodies) == Sans(bodies, {b \in ToSet(bodies) : b.rows = <<>>})

(* What a client does with a frame (PROTOCOL section 7): upsert, delete,   *)
(* patch the rows it knows, and nothing on a frame that carries no row.    *)
Apply(rows, body) ==
  CASE body.kind \in {"added", "completed"} -> Atop(body.rows, rows)
    [] body.kind = "removed" -> Without(rows, Ids(body))
    [] body.kind = "delta"   -> Over(Restrict(body.rows, Ids(body) \cap DOMAIN rows), rows)
    [] body.kind = "other"   -> rows
ApplyAll(rows, bodies) ==
  LET f[k \in 0..Len(bodies)] == IF k = 0 THEN rows ELSE Apply(f[k - 1], bodies[k])
  IN f[Len(bodies)]

-----------------------------------------------------------------------------
(* Ring::merge_after: what the frames of a window have come to, by kind.   *)
EmptyFold == [added |-> <<>>, completed |-> <<>>, removed |-> {}, delta |-> <<>>]

\* A frame that replaces or removes rows cancels what was said of them before.
SupersededBug(fold, ids) ==  \* the older patches are kept, and sent after the row
  [added |-> Without(fold.added, ids), completed |-> Without(fold.completed, ids),
   removed |-> fold.removed \ ids, delta |-> fold.delta]
Superseded(fold, ids) ==
  [added |-> Without(fold.added, ids), completed |-> Without(fold.completed, ids),
   removed |-> fold.removed \ ids, delta |-> Without(fold.delta, ids)]

Merge(fold, body) ==
  CASE body.kind \in {"added", "completed"} ->
         [Superseded(fold, Ids(body)) EXCEPT ![body.kind] = Atop(body.rows, @)]
    [] body.kind = "removed" -> [Superseded(fold, Ids(body)) EXCEPT !.removed = @ \cup Ids(body)]
    [] body.kind = "delta" -> [fold EXCEPT !.delta = Over(Without(body.rows, fold.removed), @)]
    [] body.kind = "other" -> fold

\* The frames a resume sends, in the one order of encode_fold.
Encode(fold) == Carrying(<<
  Body("added", fold.added), Body("completed", fold.completed),
  Body("removed", [i \in fold.removed |-> <<>>]), Body("delta", fold.delta)>>)

Folded(bodies) ==
  LET f[k \in 0..Len(bodies)] == IF k = 0 THEN EmptyFold ELSE Merge(f[k - 1], bodies[k])
  IN f[Len(bodies)]
MergeAll(bodies) == Encode(Folded(bodies))
=============================================================================
