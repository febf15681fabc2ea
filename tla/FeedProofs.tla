---------------------------- MODULE FeedProofs ----------------------------
(***************************************************************************)
(* Proofs about the realtime feed, for any rows, any sizes of the ring and *)
(* of the bus and any number of events:                                    *)
(*   - folding a window of frames leaves a client with the rows it has     *)
(*     when it applies them one by one (MergeIsReplay, ResumeIsReplay);    *)
(*   - the types of the aggregator, the hub and the session, and of every  *)
(*     frame on its way (FeedTypeOK);                                      *)
(*   - once everything is sent, the frames have told the truth, and the    *)
(*     published generation is never newer than they are (ToldTruth);      *)
(*   - a client of an open session has lost no frame, however it connected *)
(*     or resumed, and has every row it is sent a delta of (NothingIsLost).*)
(* What is recursive is a recursive function, whose value at k + 1 is told *)
(* from the one at k; the induction over it is that of module ListProofs.  *)
(***************************************************************************)
EXTENDS Feed, ListProofs

-----------------------------------------------------------------------------
(* The folds of module Frames, one element at a time.                      *)

(* The rows after the first frames, applied in order. *)
Applied(f, rows, bodies, m) ==
  f = [k \in 0..m |-> IF k = 0 THEN rows ELSE Apply(f[k - 1], bodies[k])]
(* What a client has after each frame of a sequence.                       *)
LEMMA ApplyAllRuns ==
  ASSUME NEW rows, NEW S, NEW bodies \in Seq(S)
  PROVE  \E f : Applied(f, rows, bodies, Len(bodies)) /\ ApplyAll(rows, bodies) = f[Len(bodies)]
<1> DEFINE n == Len(bodies)
           R(f, m) == Applied(f, rows, bodies, m)
           Good == {m \in 0..n : \E g : R(g, m)}
<1>1. n \in Nat
  OBVIOUS
<1>2. 0 \in Good
  <2> DEFINE g == [k \in 0..0 |-> rows]
  <2>1. R(g, 0)
    BY DEF Applied
  <2> HIDE DEF g, R
  <2>2. \E x : R(x, 0)
    BY <2>1
  <2> QED BY <1>1, <2>2
<1>3. ASSUME NEW m \in 1..n, m - 1 \in Good PROVE m \in Good
  <2>1. PICK g : R(g, m - 1)
    BY <1>3
  <2> DEFINE k == m
             f == g
             last == Apply(f[k - 1], bodies[k])
             h == [j \in 0..m |-> IF j = m THEN last ELSE g[j]]
  <2> HIDE DEF last
  <2>2. ASSUME NEW j \in 0..m PROVE h[j] = IF j = 0 THEN rows ELSE Apply(h[j - 1], bodies[j])
    <3>1. CASE j = 0
      BY <1>1, <2>1, <3>1 DEF Applied
    <3>2. CASE j = m
      <4>1. j # 0 /\ h[j - 1] = g[m - 1] /\ h[j] = last
        BY <1>1, <3>2
      <4> QED BY <3>2, <4>1 DEF last
    <3>3. CASE j # 0 /\ j # m
      <4>1. j \in 0..(m - 1) /\ j - 1 \in 0..(m - 1)
        BY <1>1, <3>3
      <4>2. g[j] = Apply(g[j - 1], bodies[j])
        BY <2>1, <3>3, <4>1 DEF Applied
      <4> QED BY <3>3, <4>1, <4>2
    <3> QED BY <3>1, <3>2, <3>3
  <2>3. R(h, m)
    BY <2>2 DEF Applied
  <2> HIDE DEF h, R
  <2>4. \E x : R(x, m)
    BY <2>3
  <2> QED BY <1>1, <2>4
<1> HIDE DEF Good
<1>4. \A k \in 0..n : k \in Good
  BY <1>1, <1>2, <1>3, UpTo
<1>5. \E g : R(g, n)
  BY <1>1, <1>4 DEF Good
<1>6. PICK f : f = CHOOSE g : R(g, n)
  OBVIOUS
<1>7. R(f, n)
  BY <1>5, <1>6
<1>8. ApplyAll(rows, bodies) = f[n]
  BY <1>6 DEF ApplyAll, Applied
<1> QED BY <1>7, <1>8

LEMMA ApplyAllNone ==
  ASSUME NEW rows
  PROVE  ApplyAll(rows, <<>>) = rows
<1>1. <<>> \in Seq({}) /\ Len(<<>>) = 0
  OBVIOUS
<1>2. PICK f : Applied(f, rows, <<>>, 0) /\ ApplyAll(rows, <<>>) = f[0]
  BY <1>1, ApplyAllRuns
<1> QED BY <1>2 DEF Applied

LEMMA ApplyAllMore ==
  ASSUME NEW rows, NEW S, NEW bodies \in Seq(S), NEW x \in S
  PROVE  ApplyAll(rows, Append(bodies, x)) = Apply(ApplyAll(rows, bodies), x)
<1> DEFINE n == Len(bodies)
           longer == Append(bodies, x)
<1>1. n \in Nat /\ longer \in Seq(S) /\ Len(longer) = n + 1 /\ longer[n + 1] = x
  OBVIOUS
<1>2. \A k \in 1..n : longer[k] = bodies[k]
  OBVIOUS
<1> HIDE DEF longer
<1>3. PICK f : Applied(f, rows, bodies, n) /\ ApplyAll(rows, bodies) = f[n]
  BY ApplyAllRuns
<1>4. PICK g : Applied(g, rows, longer, n + 1) /\ ApplyAll(rows, longer) = g[n + 1]
  BY <1>1, ApplyAllRuns
<1> DEFINE Good == {k \in 0..n : f[k] = g[k]}
<1>5. 0 \in Good
  BY <1>1, <1>3, <1>4 DEF Applied
<1>6. ASSUME NEW k \in 1..n, k - 1 \in Good PROVE k \in Good
  <2>1. k \in 0..n /\ k - 1 \in 0..n /\ k \in 0..(n + 1) /\ k # 0 /\ f[k - 1] = g[k - 1]
    BY <1>1, <1>6
  <2>2. f[k] = Apply(f[k - 1], bodies[k])
    BY <1>3, <2>1 DEF Applied
  <2>3. g[k] = Apply(g[k - 1], longer[k])
    BY <1>4, <2>1 DEF Applied
  <2> QED BY <1>2, <2>1, <2>2, <2>3
<1> HIDE DEF Good
<1>7. \A k \in 0..n : k \in Good
  BY <1>1, <1>5, <1>6, UpTo
<1>8. f[n] = g[n]
  BY <1>1, <1>7 DEF Good
<1>9. g[n + 1] = Apply(g[n], x)
  <2>1. n + 1 \in 0..(n + 1) /\ n + 1 # 0 /\ (n + 1) - 1 = n
    BY <1>1
  <2>2. g[n + 1] = Apply(g[(n + 1) - 1], longer[n + 1])
    BY <1>4, <2>1 DEF Applied
  <2> QED BY <1>1, <2>1, <2>2
<1> QED BY <1>1, <1>3, <1>4, <1>8, <1>9 DEF longer

(* What the first frames of a window come to. *)
Folding(f, bodies, m) ==
  f = [k \in 0..m |-> IF k = 0 THEN EmptyFold ELSE Merge(f[k - 1], bodies[k])]
(* What a window has folded into after each of its frames.                 *)
LEMMA FoldedRuns ==
  ASSUME NEW S, NEW bodies \in Seq(S)
  PROVE  \E f : Folding(f, bodies, Len(bodies)) /\ Folded(bodies) = f[Len(bodies)]
<1> DEFINE n == Len(bodies)
           R(f, m) == Folding(f, bodies, m)
           Good == {m \in 0..n : \E g : R(g, m)}
<1>1. n \in Nat
  OBVIOUS
<1>2. 0 \in Good
  <2> DEFINE g == [k \in 0..0 |-> EmptyFold]
  <2>1. R(g, 0)
    BY DEF Folding
  <2> HIDE DEF g, R
  <2>2. \E x : R(x, 0)
    BY <2>1
  <2> QED BY <1>1, <2>2
<1>3. ASSUME NEW m \in 1..n, m - 1 \in Good PROVE m \in Good
  <2>1. PICK g : R(g, m - 1)
    BY <1>3
  <2> DEFINE k == m
             f == g
             last == Merge(f[k - 1], bodies[k])
             h == [j \in 0..m |-> IF j = m THEN last ELSE g[j]]
  <2> HIDE DEF last
  <2>2. ASSUME NEW j \in 0..m PROVE h[j] = IF j = 0 THEN EmptyFold ELSE Merge(h[j - 1], bodies[j])
    <3>1. CASE j = 0
      BY <1>1, <2>1, <3>1 DEF Folding
    <3>2. CASE j = m
      <4>1. j # 0 /\ h[j - 1] = g[m - 1] /\ h[j] = last
        BY <1>1, <3>2
      <4> QED BY <3>2, <4>1 DEF last
    <3>3. CASE j # 0 /\ j # m
      <4>1. j \in 0..(m - 1) /\ j - 1 \in 0..(m - 1)
        BY <1>1, <3>3
      <4>2. g[j] = Merge(g[j - 1], bodies[j])
        BY <2>1, <3>3, <4>1 DEF Folding
      <4> QED BY <3>3, <4>1, <4>2
    <3> QED BY <3>1, <3>2, <3>3
  <2>3. R(h, m)
    BY <2>2 DEF Folding
  <2> HIDE DEF h, R
  <2>4. \E x : R(x, m)
    BY <2>3
  <2> QED BY <1>1, <2>4
<1> HIDE DEF Good
<1>4. \A k \in 0..n : k \in Good
  BY <1>1, <1>2, <1>3, UpTo
<1>5. \E g : R(g, n)
  BY <1>1, <1>4 DEF Good
<1>6. PICK f : f = CHOOSE g : R(g, n)
  OBVIOUS
<1>7. R(f, n)
  BY <1>5, <1>6
<1>8. Folded(bodies) = f[n]
  BY <1>6 DEF Folded, Folding
<1> QED BY <1>7, <1>8

LEMMA FoldedNone ==
  Folded(<<>>) = EmptyFold
<1>1. <<>> \in Seq({}) /\ Len(<<>>) = 0
  OBVIOUS
<1>2. PICK f : Folding(f, <<>>, 0) /\ Folded(<<>>) = f[0]
  BY <1>1, FoldedRuns
<1> QED BY <1>2 DEF Folding

LEMMA FoldedMore ==
  ASSUME NEW S, NEW bodies \in Seq(S), NEW x \in S
  PROVE  Folded(Append(bodies, x)) = Merge(Folded(bodies), x)
<1> DEFINE n == Len(bodies)
           longer == Append(bodies, x)
<1>1. n \in Nat /\ longer \in Seq(S) /\ Len(longer) = n + 1 /\ longer[n + 1] = x
  OBVIOUS
<1>2. \A k \in 1..n : longer[k] = bodies[k]
  OBVIOUS
<1> HIDE DEF longer
<1>3. PICK f : Folding(f, bodies, n) /\ Folded(bodies) = f[n]
  BY FoldedRuns
<1>4. PICK g : Folding(g, longer, n + 1) /\ Folded(longer) = g[n + 1]
  BY <1>1, FoldedRuns
<1> DEFINE Good == {k \in 0..n : f[k] = g[k]}
<1>5. 0 \in Good
  BY <1>1, <1>3, <1>4 DEF Folding
<1>6. ASSUME NEW k \in 1..n, k - 1 \in Good PROVE k \in Good
  <2>1. k \in 0..n /\ k - 1 \in 0..n /\ k \in 0..(n + 1) /\ k # 0 /\ f[k - 1] = g[k - 1]
    BY <1>1, <1>6
  <2>2. f[k] = Merge(f[k - 1], bodies[k])
    BY <1>3, <2>1 DEF Folding
  <2>3. g[k] = Merge(g[k - 1], longer[k])
    BY <1>4, <2>1 DEF Folding
  <2> QED BY <1>2, <2>1, <2>2, <2>3
<1> HIDE DEF Good
<1>7. \A k \in 0..n : k \in Good
  BY <1>1, <1>5, <1>6, UpTo
<1>8. f[n] = g[n]
  BY <1>1, <1>7 DEF Good
<1>9. g[n + 1] = Merge(g[n], x)
  <2>1. n + 1 \in 0..(n + 1) /\ n + 1 # 0 /\ (n + 1) - 1 = n
    BY <1>1
  <2>2. g[n + 1] = Merge(g[(n + 1) - 1], longer[n + 1])
    BY <1>4, <2>1 DEF Folding
  <2> QED BY <1>1, <2>1, <2>2
<1> QED BY <1>1, <1>3, <1>4, <1>8, <1>9 DEF longer

(* Rows stay rows, and a frame that carries none does nothing.             *)
LEMMA ApplyIsFcn ==
  ASSUME NEW rows, IsFcn(rows), NEW body, body.kind \in BodyKinds
  PROVE  /\ IsFcn(Apply(rows, body))
         /\ body.rows = <<>> => Apply(rows, body) = rows
<1>1. \A p, q : IsFcn(Atop(p, q))
  BY DEF IsFcn, Atop
<1>2. \A p, q : IsFcn(Over(p, q))
  BY DEF IsFcn, Over
<1>3. \A p, S : IsFcn(Without(p, S))
  BY DEF IsFcn, Without, Restrict
<1>4. DOMAIN <<>> = {}
  OBVIOUS
<1>5. Atop(<<>>, rows) = rows
  BY <1>4 DEF IsFcn, Atop
<1>6. Without(rows, {}) = rows
  BY DEF IsFcn, Without, Restrict
<1>7. ASSUME NEW p, DOMAIN p = {} PROVE Over(p, rows) = rows
  BY <1>7 DEF IsFcn, Over
<1>8. ASSUME NEW p PROVE DOMAIN Restrict(p, {}) = {}
  BY DEF Restrict
<1>9. CASE body.kind \in {"added", "completed"}
  BY <1>1, <1>5, <1>9 DEF Apply
<1>10. CASE body.kind = "removed"
  BY <1>3, <1>4, <1>6, <1>10 DEF Apply, Ids
<1>11. CASE body.kind = "delta"
  <2>1. Apply(rows, body) = Over(Restrict(body.rows, Ids(body) \cap DOMAIN rows), rows)
    BY <1>11 DEF Apply
  <2>2. body.rows = <<>> => Ids(body) \cap DOMAIN rows = {}
    BY <1>4 DEF Ids
  <2> QED BY <1>2, <1>7, <1>8, <2>1, <2>2
<1>12. CASE body.kind = "other"
  BY <1>12 DEF Apply
<1> QED BY <1>9, <1>10, <1>11, <1>12 DEF BodyKinds

(* A client of no empty frames has the rows of a client of all frames.     *)
LEMMA CarryingIsEnough ==
  ASSUME NEW rows, IsFcn(rows), NEW B, \A b \in B : b.kind \in BodyKinds, NEW bodies \in Seq(B)
  PROVE  ApplyAll(rows, Carrying(bodies)) = ApplyAll(rows, bodies) /\ IsFcn(ApplyAll(rows, bodies))
<1> DEFINE Out == {b \in ToSet(bodies) : b.rows = <<>>}
           Good == {t \in Seq(B) : /\ IsFcn(ApplyAll(rows, t))
                                   /\ ApplyAll(rows, Sans(t, Out)) = ApplyAll(rows, t)}
<1> HIDE DEF Out
<1>a. ASSUME NEW t \in Seq(B), NEW x \in B
      PROVE  ApplyAll(rows, Append(t, x)) = Apply(ApplyAll(rows, t), x)
  BY ApplyAllMore
<1>b. ASSUME NEW t \in Seq(B), NEW x \in B
      PROVE  Sans(Append(t, x), Out) = IF x \in Out THEN Sans(t, Out) ELSE Append(Sans(t, Out), x)
  BY SansMore
<1>1. <<>> \in Good
  <2>1. Sans(<<>>, Out) = <<>> /\ ApplyAll(rows, <<>>) = rows
    BY SansNone, ApplyAllNone
  <2> QED BY <2>1
<1>2. ASSUME NEW t \in Seq(B), NEW x \in B, t \in Good PROVE Append(t, x) \in Good
  <2>1. Append(t, x) \in Seq(B)
    OBVIOUS
  <2>2. PICK all : all = ApplyAll(rows, t)
    OBVIOUS
  <2>3. PICK some : some = Sans(t, Out)
    OBVIOUS
  <2>4. IsFcn(all) /\ ApplyAll(rows, some) = all
    BY <1>2, <2>2, <2>3
  <2>5. ApplyAll(rows, Append(t, x)) = Apply(all, x)
    BY <1>a, <2>2
  <2>6. IsFcn(Apply(all, x)) /\ (x.rows = <<>> => Apply(all, x) = all)
    BY <2>4, ApplyIsFcn
  <2>7. some \in Seq(B)
    <3>1. some \in Seq(B \ Out)
      BY <2>3, SansSeq
    <3> QED BY <3>1
  <2>8. ApplyAll(rows, Sans(Append(t, x), Out)) = Apply(all, x)
    <3>1. CASE x \in Out
      <4>1. Sans(Append(t, x), Out) = some
        BY <1>b, <2>3, <3>1
      <4>2. x.rows = <<>>
        BY <3>1 DEF Out
      <4> QED BY <2>4, <2>6, <4>1, <4>2
    <3>2. CASE x \notin Out
      <4>1. Sans(Append(t, x), Out) = Append(some, x)
        BY <1>b, <2>3, <3>2
      <4>2. ApplyAll(rows, Append(some, x)) = Apply(ApplyAll(rows, some), x)
        BY <1>a, <2>7
      <4> QED BY <2>4, <4>1, <4>2
    <3> QED BY <3>1, <3>2
  <2> QED BY <2>1, <2>5, <2>6, <2>8
<1> HIDE DEF Good, Out
<1>3. bodies \in Good
  BY <1>1, <1>2, SeqInduction
<1>4. Carrying(bodies) = Sans(bodies, Out)
  BY DEF Carrying, Out
<1> QED BY <1>3, <1>4 DEF Good

(* The rows a resume leaves a client with.                                 *)
Kept(rows, fold) == Without(Atop(fold.completed, Atop(fold.added, rows)), fold.removed)
Effect(rows, fold) == Over(Restrict(fold.delta, DOMAIN fold.delta \cap DOMAIN Kept(rows, fold)), Kept(rows, fold))
IsFold(fold) ==
  fold = [added |-> fold.added, completed |-> fold.completed, removed |-> fold.removed, delta |-> fold.delta]

(* The frames of a fold, empty ones included, have its effect.             *)
LEMMA EncodeHasEffect ==
  ASSUME NEW rows, IsFcn(rows), NEW fold
  PROVE  ApplyAll(rows, Encode(fold)) = Effect(rows, fold)
<1> DEFINE a == Body("added", fold.added)
           c == Body("completed", fold.completed)
           r == Body("removed", [i \in fold.removed |-> <<>>])
           d == Body("delta", fold.delta)
           B == {a, c, r, d}
           s0 == <<>>
           s1 == Append(s0, a)
           s2 == Append(s1, c)
           s3 == Append(s2, r)
           s4 == Append(s3, d)
<1>1. \A b \in B : b.kind \in BodyKinds
  BY DEF Body, BodyKinds
<1>2. /\ a \in B /\ c \in B /\ r \in B /\ d \in B
      /\ s0 \in Seq(B) /\ s1 \in Seq(B) /\ s2 \in Seq(B) /\ s3 \in Seq(B) /\ s4 \in Seq(B)
  OBVIOUS
<1>3. Apply(rows, a) = Atop(fold.added, rows)
  BY DEF Apply, Body
<1>4. \A m : Apply(m, c) = Atop(fold.completed, m)
  BY DEF Apply, Body
<1>5. \A m : Apply(m, r) = Without(m, fold.removed)
  <2>1. r.kind = "removed" /\ Ids(r) = fold.removed
    BY DEF Ids, Body
  <2> QED BY <2>1 DEF Apply
<1>6. \A m : Apply(m, d) = Over(Restrict(fold.delta, DOMAIN fold.delta \cap DOMAIN m), m)
  BY DEF Apply, Body, Ids
<1>7. Encode(fold) = Carrying(s4)
  <2>1. <<a, c, r, d>> = s4
    OBVIOUS
  <2> QED BY <2>1 DEF Encode
<1>0. ApplyAll(rows, s0) = rows
  BY ApplyAllNone
<1> HIDE DEF a, c, r, d, B, s0
<1>8. ApplyAll(rows, Carrying(s4)) = ApplyAll(rows, s4)
  BY <1>1, <1>2, CarryingIsEnough
<1>9. ApplyAll(rows, s1) = Apply(rows, a)
  <2>1. ApplyAll(rows, s1) = Apply(ApplyAll(rows, s0), a)
    BY <1>2, ApplyAllMore
  <2> QED BY <1>0, <2>1
<1>10. ApplyAll(rows, s2) = Apply(ApplyAll(rows, s1), c)
  BY <1>2, ApplyAllMore
<1>11. ApplyAll(rows, s3) = Apply(ApplyAll(rows, s2), r)
  BY <1>2, ApplyAllMore
<1>12. ApplyAll(rows, s4) = Apply(ApplyAll(rows, s3), d)
  BY <1>2, ApplyAllMore
<1>13. ApplyAll(rows, s3) = Kept(rows, fold)
  BY <1>3, <1>4, <1>5, <1>9, <1>10, <1>11 DEF Kept
<1> QED BY <1>6, <1>7, <1>8, <1>12, <1>13 DEF Effect

(* Nothing to send leaves the rows as they are.                            *)
LEMMA EmptyHasNoEffect ==
  ASSUME NEW rows, IsFcn(rows)
  PROVE  Effect(rows, EmptyFold) = rows /\ IsFold(EmptyFold)
<1>1. DOMAIN <<>> = {}
  OBVIOUS
<1>2. Atop(<<>>, rows) = rows
  BY <1>1 DEF Atop, IsFcn
<1>3. Without(rows, {}) = rows
  BY DEF Without, Restrict, IsFcn
<1>4. Kept(rows, EmptyFold) = rows
  BY <1>2, <1>3 DEF Kept, EmptyFold
<1>5. \A p : DOMAIN p = {} => Over(p, rows) = rows
  BY DEF Over, IsFcn
<1>6. DOMAIN Restrict(EmptyFold.delta, DOMAIN EmptyFold.delta \cap DOMAIN rows) = {}
  BY <1>1 DEF EmptyFold, Restrict
<1>7. IsFold(EmptyFold)
  BY DEF IsFold, EmptyFold
<1> QED BY <1>4, <1>5, <1>6, <1>7 DEF Effect

(* The effect of a fold, row by row: k is kept, e the effect.              *)
RowByRow(rows, fold, k, e) ==
  /\ DOMAIN k = (DOMAIN fold.completed \cup DOMAIN fold.added \cup DOMAIN rows) \ fold.removed
  /\ \A i \in DOMAIN k :
       k[i] = IF i \in DOMAIN fold.completed THEN fold.completed[i]
              ELSE IF i \in DOMAIN fold.added THEN fold.added[i] ELSE rows[i]
  /\ IsFcn(e) /\ DOMAIN e = DOMAIN k
  /\ \A i \in DOMAIN k : e[i] = IF i \in DOMAIN fold.delta THEN Atop(fold.delta[i], k[i]) ELSE k[i]
(* The row a fold leaves, for one id.                                      *)
LEMMA EffectAt ==
  ASSUME NEW rows, NEW fold
  PROVE  RowByRow(rows, fold, Kept(rows, fold), Effect(rows, fold))
<1>1. /\ DOMAIN Kept(rows, fold) = (DOMAIN fold.completed \cup DOMAIN fold.added \cup DOMAIN rows) \ fold.removed
      /\ \A i \in DOMAIN Kept(rows, fold) :
           Kept(rows, fold)[i] = IF i \in DOMAIN fold.completed THEN fold.completed[i]
                                 ELSE IF i \in DOMAIN fold.added THEN fold.added[i] ELSE rows[i]
  BY DEF Kept, Without, Restrict, Atop
<1>2. PICK k : k = Kept(rows, fold)
  OBVIOUS
<1>3. PICK d : d = fold.delta
  OBVIOUS
<1>4. PICK p : p = Restrict(d, DOMAIN d \cap DOMAIN k)
  OBVIOUS
<1>5. DOMAIN p = DOMAIN d \cap DOMAIN k /\ \A i \in DOMAIN p : p[i] = d[i]
  BY <1>4 DEF Restrict
<1>6. Effect(rows, fold) = Over(p, k)
  BY <1>2, <1>3, <1>4 DEF Effect
<1>7. /\ IsFcn(Over(p, k)) /\ DOMAIN Over(p, k) = DOMAIN k
      /\ \A i \in DOMAIN k : Over(p, k)[i] = IF i \in DOMAIN p THEN Atop(p[i], k[i]) ELSE k[i]
  BY <1>5 DEF Over, IsFcn
<1> QED BY <1>1, <1>2, <1>3, <1>5, <1>6, <1>7 DEF RowByRow

(* Functions of one domain that agree on it; and what is written last wins.*)
LEMMA FcnEqual ==
  ASSUME NEW f, NEW g, IsFcn(f), IsFcn(g), DOMAIN f = DOMAIN g, \A x \in DOMAIN f : f[x] = g[x]
  PROVE  f = g
<1>1. [x \in DOMAIN f |-> f[x]] = [x \in DOMAIN g |-> g[x]]
  OBVIOUS
<1> QED BY <1>1 DEF IsFcn

(* Writing over twice is writing over once.                                *)
LEMMA AtopAtop ==
  ASSUME NEW p, NEW q, NEW r
  PROVE  Atop(p, Atop(q, r)) = Atop(Atop(p, q), r)
BY DEF Atop

(* A frame merged into a fold does to a client what the frame would have   *)
(* done after the fold, whatever the client's rows are.                    *)
LEMMA MergeHasEffect ==
  ASSUME NEW rows, NEW fold, IsFold(fold), NEW body, body.kind \in BodyKinds
  PROVE  /\ IsFold(Merge(fold, body))
         /\ Effect(rows, Merge(fold, body)) = Apply(Effect(rows, fold), body)
<1>1. PICK e : e = Effect(rows, fold)
  OBVIOUS
<1>2. PICK new : new = Merge(fold, body)
  OBVIOUS
<1>3. PICK k : k = Kept(rows, fold)
  OBVIOUS
<1>4. PICK l : l = Kept(rows, new)
  OBVIOUS
<1>5. PICK B : B = body.rows
  OBVIOUS
<1>6. /\ DOMAIN k = (DOMAIN fold.completed \cup DOMAIN fold.added \cup DOMAIN rows) \ fold.removed
      /\ \A i \in DOMAIN k :
           k[i] = IF i \in DOMAIN fold.completed THEN fold.completed[i]
                  ELSE IF i \in DOMAIN fold.added THEN fold.added[i] ELSE rows[i]
      /\ IsFcn(e) /\ DOMAIN e = DOMAIN k
      /\ \A i \in DOMAIN k : e[i] = IF i \in DOMAIN fold.delta THEN Atop(fold.delta[i], k[i]) ELSE k[i]
  <2>1. RowByRow(rows, fold, k, e)
    BY <1>1, <1>3, EffectAt
  <2> QED BY <2>1 DEF RowByRow
<1>7. PICK f : f = Effect(rows, new)
  OBVIOUS
<1>8. /\ DOMAIN l = (DOMAIN new.completed \cup DOMAIN new.added \cup DOMAIN rows) \ new.removed
      /\ \A i \in DOMAIN l :
           l[i] = IF i \in DOMAIN new.completed THEN new.completed[i]
                  ELSE IF i \in DOMAIN new.added THEN new.added[i] ELSE rows[i]
      /\ IsFcn(f) /\ DOMAIN f = DOMAIN l
      /\ \A i \in DOMAIN l : f[i] = IF i \in DOMAIN new.delta THEN Atop(new.delta[i], l[i]) ELSE l[i]
  <2>1. RowByRow(rows, new, l, f)
    BY <1>4, <1>7, EffectAt
  <2> QED BY <2>1 DEF RowByRow
<1>9. PICK g : g = Apply(e, body)
  OBVIOUS
<1>10. IsFcn(g)
  BY <1>6, <1>9, ApplyIsFcn
<1>11. PICK cut : cut = Superseded(fold, DOMAIN B)
  OBVIOUS
<1>12. /\ cut = [added |-> cut.added, completed |-> cut.completed, removed |-> cut.removed, delta |-> cut.delta]
       /\ DOMAIN cut.added = DOMAIN fold.added \ DOMAIN B
       /\ \A i \in DOMAIN cut.added : cut.added[i] = fold.added[i]
       /\ DOMAIN cut.completed = DOMAIN fold.completed \ DOMAIN B
       /\ \A i \in DOMAIN cut.completed : cut.completed[i] = fold.completed[i]
       /\ cut.removed = fold.removed \ DOMAIN B
       /\ DOMAIN cut.delta = DOMAIN fold.delta \ DOMAIN B
       /\ \A i \in DOMAIN cut.delta : cut.delta[i] = fold.delta[i]
  BY <1>11 DEF Superseded, Without, Restrict
<1>13. \A q : /\ DOMAIN Atop(B, q) = DOMAIN B \cup DOMAIN q
              /\ \A i \in DOMAIN B \cup DOMAIN q : Atop(B, q)[i] = IF i \in DOMAIN B THEN B[i] ELSE q[i]
  BY DEF Atop
<1>14. Ids(body) = DOMAIN B
  BY <1>5 DEF Ids
<1>15. ASSUME body.kind \in {"added", "completed"}
       PROVE  IsFold(new) /\ f = g
  <2>1. g = Atop(B, e)
    BY <1>5, <1>9, <1>15 DEF Apply
  <2>2. DOMAIN g = DOMAIN B \cup DOMAIN e /\ \A i \in DOMAIN g : g[i] = IF i \in DOMAIN B THEN B[i] ELSE e[i]
    BY <1>13, <2>1
  <2>3. CASE body.kind = "added"
    <3>1. new = [added |-> Atop(B, cut.added), completed |-> cut.completed, removed |-> cut.removed, delta |-> cut.delta]
      BY <1>2, <1>5, <1>11, <1>12, <1>14, <2>3 DEF Merge
    <3>2. PICK a : a = Atop(B, cut.added)
      OBVIOUS
    <3>3. /\ DOMAIN a = DOMAIN B \cup DOMAIN cut.added
          /\ \A i \in DOMAIN a : a[i] = IF i \in DOMAIN B THEN B[i] ELSE cut.added[i]
      BY <1>13, <3>2
    <3>4. IsFold(new) /\ new.added = a /\ new.completed = cut.completed /\ new.removed = cut.removed /\ new.delta = cut.delta
      BY <3>1, <3>2 DEF IsFold
    <3>5. DOMAIN f = DOMAIN g
      BY <1>6, <1>8, <1>12, <2>2, <3>3, <3>4
    <3>6. ASSUME NEW i \in DOMAIN f PROVE f[i] = g[i]
      BY <1>6, <1>8, <1>12, <2>2, <3>3, <3>4, <3>5
    <3> QED BY <1>8, <1>10, <3>4, <3>5, <3>6, FcnEqual
  <2>4. CASE body.kind = "completed"
    <3>1. new = [added |-> cut.added, completed |-> Atop(B, cut.completed), removed |-> cut.removed, delta |-> cut.delta]
      BY <1>2, <1>5, <1>11, <1>12, <1>14, <2>4 DEF Merge
    <3>2. PICK c : c = Atop(B, cut.completed)
      OBVIOUS
    <3>3. /\ DOMAIN c = DOMAIN B \cup DOMAIN cut.completed
          /\ \A i \in DOMAIN c : c[i] = IF i \in DOMAIN B THEN B[i] ELSE cut.completed[i]
      BY <1>13, <3>2
    <3>4. IsFold(new) /\ new.added = cut.added /\ new.completed = c /\ new.removed = cut.removed /\ new.delta = cut.delta
      BY <3>1, <3>2 DEF IsFold
    <3>5. DOMAIN f = DOMAIN g
      BY <1>6, <1>8, <1>12, <2>2, <3>3, <3>4
    <3>6. ASSUME NEW i \in DOMAIN f PROVE f[i] = g[i]
      BY <1>6, <1>8, <1>12, <2>2, <3>3, <3>4, <3>5
    <3> QED BY <1>8, <1>10, <3>4, <3>5, <3>6, FcnEqual
  <2> QED BY <1>15, <2>3, <2>4
<1>16. ASSUME body.kind = "removed"
       PROVE  IsFold(new) /\ f = g
  <2>1. new = [added |-> cut.added, completed |-> cut.completed, removed |-> cut.removed \cup DOMAIN B, delta |-> cut.delta]
    BY <1>2, <1>11, <1>12, <1>14, <1>16 DEF Merge
  <2>2. IsFold(new) /\ new.added = cut.added /\ new.completed = cut.completed
        /\ new.removed = cut.removed \cup DOMAIN B /\ new.delta = cut.delta
    BY <2>1 DEF IsFold
  <2>3. g = Without(e, DOMAIN B)
    BY <1>9, <1>14, <1>16 DEF Apply
  <2>4. DOMAIN g = DOMAIN e \ DOMAIN B /\ \A i \in DOMAIN g : g[i] = e[i]
    BY <2>3 DEF Without, Restrict
  <2>5. DOMAIN f = DOMAIN g
    BY <1>6, <1>8, <1>12, <2>2, <2>4
  <2>6. ASSUME NEW i \in DOMAIN f PROVE f[i] = g[i]
    BY <1>6, <1>8, <1>12, <2>2, <2>4, <2>5
  <2> QED BY <1>8, <1>10, <2>2, <2>5, <2>6, FcnEqual
<1>17. ASSUME body.kind = "delta"
       PROVE  IsFold(new) /\ f = g
  <2>1. new = [added |-> fold.added, completed |-> fold.completed, removed |-> fold.removed,
               delta |-> Over(Without(B, fold.removed), fold.delta)]
    BY <1>2, <1>5, <1>17 DEF Merge, IsFold
  <2>2. PICK w : w = Without(B, fold.removed)
    OBVIOUS
  <2>3. DOMAIN w = DOMAIN B \ fold.removed /\ \A i \in DOMAIN w : w[i] = B[i]
    BY <2>2 DEF Without, Restrict
  <2>4. PICK d : d = Over(w, fold.delta)
    OBVIOUS
  <2>5. /\ DOMAIN d = DOMAIN w \cup DOMAIN fold.delta
        /\ \A i \in DOMAIN d :
             d[i] = IF i \notin DOMAIN fold.delta THEN w[i] ELSE IF i \notin DOMAIN w THEN fold.delta[i]
                    ELSE Atop(w[i], fold.delta[i])
    BY <2>4 DEF Over
  <2>6. IsFold(new) /\ new.added = fold.added /\ new.completed = fold.completed
        /\ new.removed = fold.removed /\ new.delta = d
    BY <2>1, <2>2, <2>4 DEF IsFold
  <2>7. PICK p : p = Restrict(B, DOMAIN B \cap DOMAIN e)
    OBVIOUS
  <2>8. DOMAIN p = DOMAIN B \cap DOMAIN e /\ \A i \in DOMAIN p : p[i] = B[i]
    BY <2>7 DEF Restrict
  <2>9. g = Over(p, e)
    BY <1>5, <1>9, <1>14, <1>17, <2>7 DEF Apply
  <2>10. DOMAIN g = DOMAIN e /\ \A i \in DOMAIN g : g[i] = IF i \in DOMAIN p THEN Atop(p[i], e[i]) ELSE e[i]
    BY <2>8, <2>9 DEF Over
  <2>11. DOMAIN f = DOMAIN g /\ DOMAIN l = DOMAIN k /\ \A i \in DOMAIN l : l[i] = k[i]
    BY <1>6, <1>8, <2>6, <2>10
  <2>12. ASSUME NEW i \in DOMAIN f PROVE f[i] = g[i]
    <3>1. i \in DOMAIN k /\ i \in DOMAIN l /\ i \in DOMAIN e /\ i \in DOMAIN g /\ i \notin fold.removed /\ l[i] = k[i]
      BY <1>6, <1>8, <2>11
    <3>2. CASE i \in DOMAIN B /\ i \in DOMAIN fold.delta
      <4>1. f[i] = Atop(Atop(B[i], fold.delta[i]), k[i])
        BY <1>8, <2>3, <2>5, <2>6, <3>1, <3>2
      <4>2. g[i] = Atop(B[i], Atop(fold.delta[i], k[i]))
        BY <1>6, <2>8, <2>10, <3>1, <3>2
      <4> QED BY <4>1, <4>2, AtopAtop
    <3>3. CASE i \in DOMAIN B /\ i \notin DOMAIN fold.delta
      <4>1. f[i] = Atop(B[i], k[i])
        BY <1>8, <2>3, <2>5, <2>6, <3>1, <3>3
      <4>2. g[i] = Atop(B[i], k[i])
        BY <1>6, <2>8, <2>10, <3>1, <3>3
      <4> QED BY <4>1, <4>2
    <3>4. CASE i \notin DOMAIN B /\ i \in DOMAIN fold.delta
      <4>1. f[i] = Atop(fold.delta[i], k[i])
        BY <1>8, <2>3, <2>5, <2>6, <3>1, <3>4
      <4>2. g[i] = Atop(fold.delta[i], k[i])
        BY <1>6, <2>8, <2>10, <3>1, <3>4
      <4> QED BY <4>1, <4>2
    <3>5. CASE i \notin DOMAIN B /\ i \notin DOMAIN fold.delta
      BY <1>6, <1>8, <2>3, <2>5, <2>6, <2>8, <2>10, <3>1, <3>5
    <3> QED BY <3>2, <3>3, <3>4, <3>5
  <2> QED BY <1>8, <1>10, <2>6, <2>11, <2>12, FcnEqual
<1>18. ASSUME body.kind = "other"
       PROVE  IsFold(new) /\ f = g
  BY <1>1, <1>2, <1>7, <1>9, <1>18 DEF Merge, Apply
<1> QED BY <1>1, <1>2, <1>7, <1>9, <1>15, <1>16, <1>17, <1>18 DEF BodyKinds

(* The theorem of the ring: folding a window and replaying it frame by     *)
(* frame leave a client with the same rows.                                *)
THEOREM MergeIsReplay ==
  ASSUME NEW rows, IsFcn(rows), NEW B, \A b \in B : b.kind \in BodyKinds, NEW bodies \in Seq(B)
  PROVE  ApplyAll(rows, MergeAll(bodies)) = ApplyAll(rows, bodies)
<1> DEFINE Good == {t \in Seq(B) : /\ IsFold(Folded(t))
                                   /\ Effect(rows, Folded(t)) = ApplyAll(rows, t)}
<1>1. <<>> \in Good
  <2>1. Folded(<<>>) = EmptyFold /\ ApplyAll(rows, <<>>) = rows
    BY FoldedNone, ApplyAllNone
  <2>2. <<>> \in Seq(B)
    OBVIOUS
  <2> QED BY <2>1, <2>2, EmptyHasNoEffect
<1>2. ASSUME NEW t \in Seq(B), NEW x \in B, t \in Good PROVE Append(t, x) \in Good
  <2>1. PICK fold : fold = Folded(t)
    OBVIOUS
  <2>2. IsFold(fold) /\ Effect(rows, fold) = ApplyAll(rows, t)
    BY <1>2, <2>1
  <2>3. Folded(Append(t, x)) = Merge(fold, x)
    BY <2>1, FoldedMore
  <2>4. ApplyAll(rows, Append(t, x)) = Apply(ApplyAll(rows, t), x)
    BY ApplyAllMore
  <2>5. IsFold(Merge(fold, x)) /\ Effect(rows, Merge(fold, x)) = Apply(Effect(rows, fold), x)
    BY <2>2, MergeHasEffect
  <2> QED BY <2>2, <2>3, <2>4, <2>5
<1> HIDE DEF Good
<1>3. bodies \in Good
  BY <1>1, <1>2, SeqInduction
<1>4. Effect(rows, Folded(bodies)) = ApplyAll(rows, bodies)
  BY <1>3 DEF Good
<1>5. ApplyAll(rows, Encode(Folded(bodies))) = Effect(rows, Folded(bodies))
  BY EncodeHasEffect
<1> QED BY <1>4, <1>5 DEF MergeAll

-----------------------------------------------------------------------------
(* The types of the aggregator's state and of the frames.                  *)
Fcns(D, V) == UNION {[S -> V] : S \in SUBSET D}
Patch == {p \in Fcns({"status", "value"}, {"live", "done"} \cup Values) :
            /\ "status" \in DOMAIN p => p["status"] \in {"live", "done"}
            /\ "value" \in DOMAIN p => p["value"] \in Values}
Frame ==
  [kind : {"added", "completed"}, rows : Rows] \cup [kind : {"removed"}, rows : Fcns(Items, {<<>>})]
  \cup [kind : {"delta"}, rows : Fcns(Items, Patch)] \cup [kind : {"other"}, rows : {<<>>}]
Aggregator ==
  [current : Rows, last_sent : Rows, dirty : Seq(Items), added : Seq(SUBSET Items),
   completed : SUBSET Items, removed : SUBSET Items, done : Seq(Items), stale : BOOLEAN]

(* The functions on a subset of a set.                                     *)
LEMMA FcnsAre ==
  ASSUME NEW D, NEW V, NEW f
  PROVE  f \in Fcns(D, V) <=> IsFcn(f) /\ DOMAIN f \subseteq D /\ \A x \in DOMAIN f : f[x] \in V
<1>1. ASSUME f \in Fcns(D, V) PROVE IsFcn(f) /\ DOMAIN f \subseteq D /\ \A x \in DOMAIN f : f[x] \in V
  <2>1. PICK S \in SUBSET D : f \in [S -> V]
    BY <1>1 DEF Fcns
  <2> QED BY <2>1 DEF IsFcn
<1>2. ASSUME IsFcn(f), DOMAIN f \subseteq D, \A x \in DOMAIN f : f[x] \in V PROVE f \in Fcns(D, V)
  <2>1. f \in [DOMAIN f -> V]
    BY <1>2 DEF IsFcn
  <2> QED BY <1>2, <2>1 DEF Fcns
<1> QED BY <1>1, <1>2

LEMMA RowsAre == Rows = Fcns(Items, Row)
BY DEF Rows, Fcns

(* Rows written over rows, and some of some rows, are rows.                *)
LEMMA AtopRows ==
  ASSUME NEW f \in Rows, NEW g \in Rows
  PROVE  Atop(f, g) \in Rows /\ DOMAIN Atop(f, g) = DOMAIN f \cup DOMAIN g
<1>1. \A h \in Rows : IsFcn(h) /\ DOMAIN h \subseteq Items /\ \A x \in DOMAIN h : h[x] \in Row
  BY FcnsAre, RowsAre
<1>2. PICK h : h = Atop(f, g)
  OBVIOUS
<1>3. /\ IsFcn(h) /\ DOMAIN h = DOMAIN f \cup DOMAIN g
      /\ \A x \in DOMAIN h : h[x] = IF x \in DOMAIN f THEN f[x] ELSE g[x]
  BY <1>2 DEF Atop, IsFcn
<1>4. h \in Rows
  BY <1>1, <1>3, FcnsAre, RowsAre
<1> QED BY <1>2, <1>3, <1>4

LEMMA PutRows ==
  ASSUME NEW f \in Rows, NEW i \in Items, NEW r \in Row
  PROVE  Put(f, i, r) \in Rows /\ DOMAIN Put(f, i, r) = DOMAIN f \cup {i}
<1>1. \A h \in Rows : IsFcn(h) /\ DOMAIN h \subseteq Items /\ \A x \in DOMAIN h : h[x] \in Row
  BY FcnsAre, RowsAre
<1>2. PICK h : h = Put(f, i, r)
  OBVIOUS
<1>3. IsFcn(h) /\ DOMAIN h = DOMAIN f \cup {i} /\ \A x \in DOMAIN h : h[x] = IF x = i THEN r ELSE f[x]
  BY <1>2 DEF Put, IsFcn
<1>4. h \in Rows
  BY <1>1, <1>3, FcnsAre, RowsAre
<1> QED BY <1>2, <1>3, <1>4

LEMMA WithoutRows ==
  ASSUME NEW f \in Rows, NEW S
  PROVE  Without(f, S) \in Rows /\ DOMAIN Without(f, S) = DOMAIN f \ S
<1>1. \A h \in Rows : IsFcn(h) /\ DOMAIN h \subseteq Items /\ \A x \in DOMAIN h : h[x] \in Row
  BY FcnsAre, RowsAre
<1>2. PICK h : h = Without(f, S)
  OBVIOUS
<1>3. IsFcn(h) /\ DOMAIN h = DOMAIN f \ S /\ \A x \in DOMAIN h : h[x] = f[x]
  BY <1>2 DEF Without, Restrict, IsFcn
<1>4. h \in Rows
  BY <1>1, <1>3, FcnsAre, RowsAre
<1> QED BY <1>2, <1>3, <1>4

LEMMA RestrictRows ==
  ASSUME NEW f \in Rows, NEW S, S \subseteq DOMAIN f
  PROVE  Restrict(f, S) \in Rows /\ DOMAIN Restrict(f, S) = S
<1>1. \A h \in Rows : IsFcn(h) /\ DOMAIN h \subseteq Items /\ \A x \in DOMAIN h : h[x] \in Row
  BY FcnsAre, RowsAre
<1>2. PICK h : h = Restrict(f, S)
  OBVIOUS
<1>3. IsFcn(h) /\ DOMAIN h = S /\ \A x \in DOMAIN h : h[x] = f[x]
  BY <1>2 DEF Restrict, IsFcn
<1>4. h \in Rows
  BY <1>1, <1>3, FcnsAre, RowsAre
<1> QED BY <1>2, <1>3, <1>4

(* A patched row is a row.                                                 *)
LEMMA PatchedRow ==
  ASSUME NEW p \in Patch, NEW r \in Row
  PROVE  Atop(p, r) \in Row
<1>1. DOMAIN r = {"status", "value"} /\ r.status \in {"live", "done"} /\ r.value \in Values
  BY DEF Row
<1>2. DOMAIN p \subseteq {"status", "value"}
  BY FcnsAre DEF Patch
<1>3. /\ "status" \in DOMAIN p => p["status"] \in {"live", "done"}
      /\ "value" \in DOMAIN p => p["value"] \in Values
  BY DEF Patch
<1>4. PICK a : a = Atop(p, r)
  OBVIOUS
<1>5. a = [x \in {"status", "value"} |-> IF x \in DOMAIN p THEN p[x] ELSE r[x]]
  BY <1>1, <1>2, <1>4 DEF Atop
<1>6. a = [status |-> a.status, value |-> a.value]
  BY <1>5
<1>7. a.status \in {"live", "done"} /\ a.value \in Values
  BY <1>1, <1>3, <1>5
<1> QED BY <1>4, <1>6, <1>7 DEF Row

(* A frame is of one of the five kinds.                                    *)
LEMMA FrameKinds ==
  ASSUME NEW b \in Frame
  PROVE  /\ b.kind \in BodyKinds /\ Ids(b) \subseteq Items
         /\ b.kind \in {"added", "completed"} => b.rows \in Rows
         /\ b.kind = "delta" => b.rows \in Fcns(Items, Patch)
         /\ b.kind = "other" => b.rows = <<>>
<1>1. /\ b.kind \in BodyKinds
      /\ b.kind \in {"added", "completed"} => b.rows \in Rows
      /\ b.kind = "removed" => b.rows \in Fcns(Items, {<<>>})
      /\ b.kind = "delta" => b.rows \in Fcns(Items, Patch)
      /\ b.kind = "other" => b.rows = <<>>
  BY DEF Frame, BodyKinds
<1>2. \A V : b.rows \in Fcns(Items, V) => DOMAIN b.rows \subseteq Items
  BY FcnsAre
<1>3. DOMAIN <<>> = {}
  OBVIOUS
<1> QED BY <1>1, <1>2, <1>3, RowsAre DEF Ids, BodyKinds

(* A frame turns rows into rows, and so do many.                           *)
LEMMA ApplyTyped ==
  ASSUME NEW rows \in Rows, NEW b \in Frame
  PROVE  Apply(rows, b) \in Rows
<1>1. b.kind \in BodyKinds
  BY FrameKinds
<1>2. CASE b.kind \in {"added", "completed"}
  BY <1>2, FrameKinds, AtopRows DEF Apply
<1>3. CASE b.kind = "removed"
  BY <1>3, WithoutRows DEF Apply
<1>4. CASE b.kind = "delta"
  <2>1. PICK p : p = Restrict(b.rows, Ids(b) \cap DOMAIN rows)
    OBVIOUS
  <2>2. DOMAIN p \subseteq DOMAIN rows /\ \A i \in DOMAIN p : p[i] \in Patch
    <3>1. \A i \in DOMAIN b.rows : b.rows[i] \in Patch
      BY <1>4, FrameKinds, FcnsAre
    <3> QED BY <2>1, <3>1 DEF Restrict, Ids
  <2>3. PICK h : h = Over(p, rows)
    OBVIOUS
  <2>4. /\ IsFcn(h) /\ DOMAIN h = DOMAIN rows
        /\ \A i \in DOMAIN h : h[i] = IF i \in DOMAIN p THEN Atop(p[i], rows[i]) ELSE rows[i]
    BY <2>2, <2>3 DEF Over, IsFcn
  <2>5. DOMAIN rows \subseteq Items /\ \A i \in DOMAIN rows : rows[i] \in Row
    BY FcnsAre, RowsAre
  <2>6. \A i \in DOMAIN h : h[i] \in Row
    BY <2>2, <2>4, <2>5, PatchedRow
  <2>7. h \in Rows
    BY <2>4, <2>5, <2>6, FcnsAre, RowsAre
  <2>8. Apply(rows, b) = h
    BY <1>4, <2>1, <2>3 DEF Apply
  <2> QED BY <2>7, <2>8
<1>5. CASE b.kind = "other"
  BY <1>5 DEF Apply
<1> QED BY <1>1, <1>2, <1>3, <1>4, <1>5 DEF BodyKinds

LEMMA ApplyAllTyped ==
  ASSUME NEW rows \in Rows, NEW bodies \in Seq(Frame)
  PROVE  ApplyAll(rows, bodies) \in Rows /\ ApplyAll(rows, MergeAll(bodies)) = ApplyAll(rows, bodies)
<1> DEFINE Good == {t \in Seq(Frame) : ApplyAll(rows, t) \in Rows}
<1>1. <<>> \in Good
  <2>1. ApplyAll(rows, <<>>) = rows
    BY ApplyAllNone
  <2>2. <<>> \in Seq(Frame)
    OBVIOUS
  <2> QED BY <2>1, <2>2
<1>2. ASSUME NEW t \in Seq(Frame), NEW x \in Frame, t \in Good PROVE Append(t, x) \in Good
  <2>1. ApplyAll(rows, Append(t, x)) = Apply(ApplyAll(rows, t), x)
    BY ApplyAllMore
  <2>2. ApplyAll(rows, Append(t, x)) \in Rows
    BY <1>2, <2>1, ApplyTyped
  <2> QED BY <2>2
<1> HIDE DEF Good
<1>3. bodies \in Good
  BY <1>1, <1>2, SeqInduction
<1>4. IsFcn(rows)
  BY FcnsAre, RowsAre
<1>5. \A b \in Frame : b.kind \in BodyKinds
  BY FrameKinds
<1>6. ApplyAll(rows, MergeAll(bodies)) = ApplyAll(rows, bodies)
  BY <1>4, <1>5, MergeIsReplay
<1> QED BY <1>3, <1>6 DEF Good

-----------------------------------------------------------------------------
(* The aggregator's own steps.                                             *)
LEMMA SansItems ==
  ASSUME NEW S, NEW s \in Seq(S), NEW Out
  PROVE  Sans(s, Out) \in Seq(S)
<1>1. Sans(s, Out) \in Seq(S \ Out)
  BY SansSeq
<1> QED BY <1>1

LEMMA SubSeqTyped ==
  ASSUME NEW S, NEW s \in Seq(S), NEW m \in 1..(Len(s) + 1), NEW n \in 0..Len(s)
  PROVE  SubSeq(s, m, n) \in Seq(S) /\ ToSet(SubSeq(s, m, n)) \subseteq S
<1>1. SubSeq(s, m, n) \in Seq(S)
  OBVIOUS
<1>2. PICK t : t = SubSeq(s, m, n)
  OBVIOUS
<1>3. \A k \in DOMAIN t : t[k] \in S
  BY <1>1, <1>2
<1> QED BY <1>1, <1>2, <1>3 DEF ToSet

(* The aggregator's operations keep the types of its tables.               *)
LEMMA DroppedTyped ==
  ASSUME NEW a \in Aggregator, NEW S
  PROVE  Dropped(a, S) \in Aggregator
<1>1. PICK c : c = Without(a.current, S)
  OBVIOUS
<1>2. PICK l : l = Without(a.last_sent, S)
  OBVIOUS
<1>3. PICK d : d = Sans(a.dirty, S)
  OBVIOUS
<1>4. c \in Rows /\ l \in Rows
  BY <1>1, <1>2, WithoutRows DEF Aggregator
<1>5. d \in Seq(Items)
  BY <1>3, SansItems DEF Aggregator
<1>6. Dropped(a, S) = [a EXCEPT !.current = c, !.last_sent = l, !.dirty = d]
  BY <1>1, <1>2, <1>3 DEF Dropped, Aggregator
<1> QED BY <1>4, <1>5, <1>6 DEF Aggregator

LEMMA EnterDoneTyped ==
  ASSUME NEW a \in Aggregator, NEW i \in Items
  PROVE  EnterDone(a, i) \in Aggregator
<1>1. CASE i \in ToSet(a.done)
  BY <1>1 DEF EnterDone
<1>2. CASE i \notin ToSet(a.done)
  <2>1. PICK queue : queue = Append(a.done, i)
    OBVIOUS
  <2>2. PICK over : over = IF Len(queue) > MemDone THEN Len(queue) - MemDone ELSE 0
    OBVIOUS
  <2>3. queue \in Seq(Items) /\ over \in 0..Len(queue)
    BY <2>1, <2>2, FeedAssumption DEF Aggregator
  <2>4. PICK d : d = SubSeq(queue, over + 1, Len(queue))
    OBVIOUS
  <2>5. d \in Seq(Items)
    BY <2>3, <2>4, SubSeqTyped
  <2>6. PICK b : b = [a EXCEPT !.done = d]
    OBVIOUS
  <2>7. b \in Aggregator
    BY <2>5, <2>6 DEF Aggregator
  <2>8. EnterDone(a, i) = Dropped(b, ToSet(SubSeq(queue, 1, over)))
    BY <1>2, <2>1, <2>2, <2>4, <2>6 DEF EnterDone
  <2> QED BY <2>7, <2>8, DroppedTyped
<1> QED BY <1>1, <1>2

LEMMA InstallTyped ==
  ASSUME NEW a \in Aggregator, NEW i \in Items, NEW r \in Row
  PROVE  Install(a, i, r) \in Aggregator
<1>1. PICK c : c = Put(a.current, i, r)
  OBVIOUS
<1>2. c \in Rows
  BY <1>1, PutRows DEF Aggregator
<1>3. PICK kept : kept = [a EXCEPT !.current = c, !.stale = TRUE]
  OBVIOUS
<1>4. kept \in Aggregator
  BY <1>2, <1>3 DEF Aggregator
<1>5. PICK was : was = IF i \in DOMAIN a.current THEN a.current[i].status ELSE "absent"
  OBVIOUS
<1>6. PICK seen : seen = IF r.status = "live" THEN [kept EXCEPT !.done = Sans(@, {i})]
                         ELSE IF was = "done" THEN kept ELSE EnterDone(kept, i)
  OBVIOUS
<1>7. seen \in Aggregator
  <2>1. PICK d : d = Sans(kept.done, {i})
    OBVIOUS
  <2>2. d \in Seq(Items)
    BY <1>4, <2>1, SansItems DEF Aggregator
  <2>3. [kept EXCEPT !.done = d] \in Aggregator
    BY <1>4, <2>2 DEF Aggregator
  <2>4. EnterDone(kept, i) \in Aggregator
    BY <1>4, EnterDoneTyped
  <2>5. seen = IF r.status = "live" THEN [kept EXCEPT !.done = d]
               ELSE IF was = "done" THEN kept ELSE EnterDone(kept, i)
    BY <1>4, <1>6, <2>1 DEF Aggregator
  <2> QED BY <1>4, <2>3, <2>4, <2>5
<1>8. PICK dirty : dirty = IF i \in ToSet(seen.dirty) THEN seen.dirty ELSE Append(seen.dirty, i)
  OBVIOUS
<1>9. dirty \in Seq(Items)
  BY <1>7, <1>8 DEF Aggregator
<1>10. [seen EXCEPT !.dirty = dirty] \in Aggregator
  BY <1>7, <1>9 DEF Aggregator
<1>11. Install(a, i, r) = IF i \in DOMAIN a.current /\ a.current[i] = r THEN a ELSE [seen EXCEPT !.dirty = dirty]
  BY <1>1, <1>3, <1>5, <1>6, <1>7, <1>8 DEF Install, Aggregator
<1> QED BY <1>10, <1>11

LEMMA ForgetTyped ==
  ASSUME NEW a \in Aggregator, NEW S \in SUBSET Items
  PROVE  Forget(a, S) \in Aggregator
<1>1. PICK b : b = Dropped(a, S)
  OBVIOUS
<1>2. b \in Aggregator
  BY <1>1, DroppedTyped
<1>3. PICK d : d = Sans(b.done, S)
  OBVIOUS
<1>4. d \in Seq(Items)
  BY <1>2, <1>3, SansItems DEF Aggregator
<1>5. Forget(a, S) = [b EXCEPT !.done = d, !.removed = @ \cup S, !.stale = TRUE]
  BY <1>1, <1>2, <1>3 DEF Forget, Aggregator
<1> QED BY <1>2, <1>4, <1>5 DEF Aggregator

(* The aggregator after the first rows of an event. *)
Installing(f, a, ids, rows, m) ==
  f = [k \in 0..m |-> IF k = 0 THEN a ELSE Install(f[k - 1], ids[k], rows[ids[k]])]
(* The aggregator after each row of one event.                             *)
LEMMA InstalledRuns ==
  ASSUME NEW a, NEW rows, NEW S, NEW ids \in Seq(S)
  PROVE  \E f : Installing(f, a, ids, rows, Len(ids)) /\ Installed(a, ids, rows) = f[Len(ids)]
<1> DEFINE n == Len(ids)
           R(f, m) == Installing(f, a, ids, rows, m)
           Good == {m \in 0..n : \E g : R(g, m)}
<1>1. n \in Nat
  OBVIOUS
<1>2. 0 \in Good
  <2> DEFINE g == [k \in 0..0 |-> a]
  <2>1. R(g, 0)
    BY DEF Installing
  <2> HIDE DEF g, R
  <2>2. \E x : R(x, 0)
    BY <2>1
  <2> QED BY <1>1, <2>2
<1>3. ASSUME NEW m \in 1..n, m - 1 \in Good PROVE m \in Good
  <2>1. PICK g : R(g, m - 1)
    BY <1>3
  <2> DEFINE k == m
             f == g
             last == Install(f[k - 1], ids[k], rows[ids[k]])
             h == [j \in 0..m |-> IF j = m THEN last ELSE g[j]]
  <2> HIDE DEF last
  <2>2. ASSUME NEW j \in 0..m PROVE h[j] = IF j = 0 THEN a ELSE Install(h[j - 1], ids[j], rows[ids[j]])
    <3>1. CASE j = 0
      BY <1>1, <2>1, <3>1 DEF Installing
    <3>2. CASE j = m
      <4>1. j # 0 /\ h[j - 1] = g[m - 1] /\ h[j] = last
        BY <1>1, <3>2
      <4> QED BY <3>2, <4>1 DEF last
    <3>3. CASE j # 0 /\ j # m
      <4>1. j \in 0..(m - 1) /\ j - 1 \in 0..(m - 1)
        BY <1>1, <3>3
      <4>2. g[j] = Install(g[j - 1], ids[j], rows[ids[j]])
        BY <2>1, <3>3, <4>1 DEF Installing
      <4> QED BY <3>3, <4>1, <4>2
    <3> QED BY <3>1, <3>2, <3>3
  <2>3. R(h, m)
    BY <2>2 DEF Installing
  <2> HIDE DEF h, R
  <2>4. \E x : R(x, m)
    BY <2>3
  <2> QED BY <1>1, <2>4
<1> HIDE DEF Good
<1>4. \A k \in 0..n : k \in Good
  BY <1>1, <1>2, <1>3, UpTo
<1>5. \E g : R(g, n)
  BY <1>1, <1>4 DEF Good
<1>6. PICK f : f = CHOOSE g : R(g, n)
  OBVIOUS
<1>7. R(f, n)
  BY <1>5, <1>6
<1>8. Installed(a, ids, rows) = f[n]
  BY <1>6 DEF Installed, Installing
<1> QED BY <1>7, <1>8

LEMMA InstalledTyped ==
  ASSUME NEW a \in Aggregator, NEW rows \in Rows, NEW ids \in Seq(DOMAIN rows)
  PROVE  Installed(a, ids, rows) \in Aggregator
<1> DEFINE n == Len(ids)
<1>1. n \in Nat
  OBVIOUS
<1>2. PICK f : Installing(f, a, ids, rows, n) /\ Installed(a, ids, rows) = f[n]
  BY InstalledRuns
<1> DEFINE Good == {k \in 0..n : f[k] \in Aggregator}
<1>3. 0 \in Good
  BY <1>1, <1>2 DEF Installing
<1>4. ASSUME NEW k \in 1..n, k - 1 \in Good PROVE k \in Good
  <2>1. f[k] = Install(f[k - 1], ids[k], rows[ids[k]])
    BY <1>1, <1>2 DEF Installing
  <2>2. ids[k] \in DOMAIN rows
    BY <1>1
  <2>3. ids[k] \in Items /\ rows[ids[k]] \in Row
    BY <2>2, FcnsAre, RowsAre
  <2>4. f[k - 1] \in Aggregator
    BY <1>4
  <2>5. f[k] \in Aggregator
    BY <2>1, <2>3, <2>4, InstallTyped
  <2> QED BY <1>1, <2>5
<1> HIDE DEF Good
<1>5. \A k \in 0..n : k \in Good
  BY <1>1, <1>3, <1>4, UpTo
<1> QED BY <1>1, <1>2, <1>5 DEF Good

(* An order of a finite set is a sequence of its elements.                 *)
LEMMA OrdersAreSeqs ==
  ASSUME NEW S \in SUBSET Items, NEW ids \in SetToSeqs(S)
  PROVE  ids \in Seq(S)
<1>1. IsFiniteSet(S)
  BY FeedAssumption, FS_Subset
<1>2. Cardinality(S) \in Nat
  BY <1>1, FS_CardinalityType
<1>3. ids \in [1..Cardinality(S) -> S]
  BY DEF SetToSeqs
<1> QED BY <1>2, <1>3

-----------------------------------------------------------------------------
(* What a flush sends, and what it leaves.                                 *)
LEMMA ViewsTyped ==
  ASSUME NEW a \in Aggregator, NEW S
  PROVE  Views(a, S) \in Rows /\ DOMAIN Views(a, S) = S \cap DOMAIN a.current
<1>1. a.current \in Rows
  BY DEF Aggregator
<1>2. S \cap DOMAIN a.current \subseteq DOMAIN a.current
  OBVIOUS
<1> QED BY <1>1, <1>2, RestrictRows DEF Views

LEMMA AnnouncedTyped ==
  ASSUME NEW a \in Aggregator
  PROVE  Announced(a) \in Seq(SUBSET Items) /\ Orphans(a) \subseteq Items
<1>1. DOMAIN a.current \subseteq Items
  BY FcnsAre, RowsAre DEF Aggregator
<1>2. PICK o : o = Orphans(a)
  OBVIOUS
<1>3. o \subseteq Items
  BY <1>1, <1>2 DEF Orphans
<1>4. a.added \in Seq(SUBSET Items)
  BY DEF Aggregator
<1>5. Announced(a) = IF o = {} THEN a.added ELSE Append(a.added, o)
  BY <1>2 DEF Announced
<1> QED BY <1>2, <1>3, <1>4, <1>5

LEMMA RebasedTyped ==
  ASSUME NEW a \in Aggregator, NEW rows \in Rows
  PROVE  Rebased(a, rows) \in Aggregator
<1>1. PICK l : l = Atop(rows, a.last_sent)
  OBVIOUS
<1>2. PICK d : d = Sans(a.dirty, DOMAIN rows)
  OBVIOUS
<1>3. l \in Rows
  BY <1>1, AtopRows DEF Aggregator
<1>4. d \in Seq(Items)
  BY <1>2, SansItems DEF Aggregator
<1>5. Rebased(a, rows) = [a EXCEPT !.last_sent = l, !.dirty = d]
  BY <1>1, <1>2 DEF Rebased, Aggregator
<1> QED BY <1>3, <1>4, <1>5 DEF Aggregator

LEMMA DrainedTyped ==
  ASSUME NEW a \in Aggregator
  PROVE  Whole(a) \in Rows /\ Drained(a) \subseteq Items /\ Held(a) \subseteq DOMAIN a.current \cap DOMAIN a.last_sent
<1>1. Whole(a) \in Rows
  BY ViewsTyped DEF Whole
<1>2. PICK left : left = Rebased(a, Whole(a)).dirty
  OBVIOUS
<1>3. left \in Seq(Items)
  BY <1>1, <1>2, RebasedTyped DEF Aggregator
<1>4. PICK n : n = IF Len(left) < DeltaBudget THEN Len(left) ELSE DeltaBudget
  OBVIOUS
<1>5. n \in 0..Len(left)
  BY <1>3, <1>4, FeedAssumption
<1>6. 1 \in 1..(Len(left) + 1)
  BY <1>3
<1>7. ToSet(SubSeq(left, 1, n)) \subseteq Items
  BY <1>3, <1>5, <1>6, SubSeqTyped
<1>8. Drained(a) = ToSet(SubSeq(left, 1, n))
  BY <1>2, <1>4 DEF Drained
<1> QED BY <1>1, <1>7, <1>8 DEF Held

(* A patch carries the fields in which two rows differ.                    *)
LEMMA PatchesTyped ==
  ASSUME NEW a \in Aggregator
  PROVE  Patches(a) \in Fcns(Items, Patch)
<1>1. /\ DOMAIN a.current \subseteq Items /\ \A i \in DOMAIN a.current : a.current[i] \in Row
      /\ DOMAIN a.last_sent \subseteq Items /\ \A i \in DOMAIN a.last_sent : a.last_sent[i] \in Row
  BY FcnsAre, RowsAre DEF Aggregator
<1>2. Held(a) \subseteq DOMAIN a.current \cap DOMAIN a.last_sent
  BY DrainedTyped
<1>3. ASSUME NEW old, NEW new \in Row PROVE Changed(old, new) \in Patch
  <2>1. DOMAIN new = {"status", "value"} /\ new["status"] \in {"live", "done"} /\ new["value"] \in Values
    BY DEF Row
  <2>2. PICK c : c = Changed(old, new)
    OBVIOUS
  <2>3. IsFcn(c) /\ DOMAIN c \subseteq {"status", "value"} /\ \A f \in DOMAIN c : c[f] = new[f]
    BY <2>1, <2>2 DEF Changed, Restrict, IsFcn
  <2>4. \A f \in DOMAIN c : c[f] \in {"live", "done"} \cup Values
    BY <2>1, <2>3
  <2>5. c \in Fcns({"status", "value"}, {"live", "done"} \cup Values)
    BY <2>3, <2>4, FcnsAre
  <2> QED BY <2>1, <2>2, <2>3, <2>5 DEF Patch
<1>4. PICK diff : diff = [i \in Held(a) |-> Changed(a.last_sent[i], a.current[i])]
  OBVIOUS
<1>5. DOMAIN diff = Held(a) /\ \A i \in DOMAIN diff : diff[i] \in Patch
  BY <1>1, <1>2, <1>3, <1>4
<1>6. PICK p : p = Patches(a)
  OBVIOUS
<1>7. p = Restrict(diff, {i \in DOMAIN diff : diff[i] # <<>>})
  BY <1>4, <1>6 DEF Patches
<1>8. IsFcn(p) /\ DOMAIN p \subseteq DOMAIN diff /\ \A i \in DOMAIN p : p[i] = diff[i]
  BY <1>7 DEF Restrict, IsFcn
<1>9. DOMAIN p \subseteq Items /\ \A i \in DOMAIN p : p[i] \in Patch
  BY <1>1, <1>2, <1>5, <1>8
<1> QED BY <1>6, <1>8, <1>9, FcnsAre

LEMMA BatchTyped ==
  ASSUME NEW a \in Aggregator
  PROVE  Batch(a) \in Seq(Frame)
<1>1. \A S : Body("added", Views(a, S)) \in Frame /\ Body("completed", Views(a, S)) \in Frame
  BY ViewsTyped DEF Body, Frame
<1>2. Body("removed", [i \in a.removed |-> <<>>]) \in Frame
  <2>1. PICK r : r = [i \in a.removed |-> <<>>]
    OBVIOUS
  <2>2. PICK e : e = <<>>
    OBVIOUS
  <2>3. IsFcn(r) /\ DOMAIN r \subseteq Items /\ \A i \in DOMAIN r : r[i] \in {e}
    BY <2>1, <2>2 DEF IsFcn, Aggregator
  <2>4. r \in Fcns(Items, {e})
    BY <2>3, FcnsAre
  <2> QED BY <2>1, <2>2, <2>4 DEF Body, Frame
<1>3. Body("delta", Patches(a)) \in Frame
  BY PatchesTyped DEF Body, Frame
<1>4. PICK first : first = [g \in DOMAIN Announced(a) |-> Body("added", Views(a, Announced(a)[g]))]
  OBVIOUS
<1>5. first \in Seq(Frame)
  <2>1. PICK ann : ann = Announced(a)
    OBVIOUS
  <2>2. ann \in Seq(SUBSET Items)
    BY <2>1, AnnouncedTyped
  <2>3. Len(ann) \in Nat /\ DOMAIN ann = 1..Len(ann)
    BY <2>2
  <2>4. first = [g \in 1..Len(ann) |-> Body("added", Views(a, ann[g]))]
    BY <1>4, <2>1, <2>3
  <2>5. first \in [1..Len(ann) -> Frame]
    BY <1>1, <2>4
  <2> QED BY <2>3, <2>5
<1>6. PICK c : c = Body("completed", Views(a, a.completed))
  OBVIOUS
<1>7. PICK r : r = Body("removed", [i \in a.removed |-> <<>>])
  OBVIOUS
<1>8. PICK d : d = Body("delta", Patches(a))
  OBVIOUS
<1>9. <<c, r, d>> \in Seq(Frame)
  BY <1>1, <1>2, <1>3, <1>6, <1>7, <1>8
<1>10. PICK all : all = first \o <<c, r, d>>
  OBVIOUS
<1>11. all \in Seq(Frame)
  BY <1>5, <1>9, <1>10
<1>12. Batch(a) = Sans(all, {b \in ToSet(all) : b.rows = <<>>})
  BY <1>4, <1>6, <1>7, <1>8, <1>10 DEF Batch, Carrying
<1> QED BY <1>11, <1>12, SansItems

LEMMA FlushedTyped ==
  ASSUME NEW a \in Aggregator
  PROVE  Flushed(a) \in Aggregator
<1>1. Atop(Whole(a), Views(a, Held(a))) \in Rows
  BY DrainedTyped, ViewsTyped, AtopRows
<1>2. PICK b : b = Rebased(a, Atop(Whole(a), Views(a, Held(a))))
  OBVIOUS
<1>3. b \in Aggregator
  BY <1>1, <1>2, RebasedTyped
<1>4. PICK d : d = Sans(b.dirty, Drained(a))
  OBVIOUS
<1>5. d \in Seq(Items)
  BY <1>3, <1>4, SansItems DEF Aggregator
<1>6. Flushed(a) = [b EXCEPT !.added = <<>>, !.completed = {}, !.removed = {}, !.dirty = d]
  BY <1>2, <1>3, <1>4 DEF Flushed, Aggregator
<1>7. <<>> \in Seq(SUBSET Items)
  OBVIOUS
<1> QED BY <1>3, <1>5, <1>6, <1>7 DEF Aggregator

-----------------------------------------------------------------------------
(* The inductive invariant: the types, those of every frame on its way     *)
(* included.                                                               *)
Entry == [seq : Nat, body : Frame]
EngineTyped ==
  /\ boot \in {"recover", "wait", "bound"} /\ (boot = "recover" => born = {})
  /\ born \subseteq Items /\ truth \in Rows /\ DOMAIN truth \subseteq born
  /\ events \in Nat /\ ending \subseteq DOMAIN truth
FlushTyped == agg \in Aggregator /\ flushing \in BOOLEAN /\ outbox \in Seq(Frame)
HubTyped ==
  /\ next \in Nat /\ next >= Seed /\ floor \in Nat /\ told \in Rows
  /\ ring \in Seq(Entry) /\ Len(ring) <= RingFrames
  /\ rx \in Seq(Entry) /\ Len(rx) <= Capacity /\ lagged \in BOOLEAN
SessionTyped ==
  /\ published \in [seq : Nat, rows : Rows] /\ client \in Rows
  /\ pc \in {"off", "snapshot", "catch_up", "resume", "open"}
  /\ cursor \in Nat \cup {NoSeq} /\ held \in Nat \cup {NoSeq}
FeedTyped == EngineTyped /\ FlushTyped /\ HubTyped /\ SessionTyped

LEMMA NoRows == <<>> \in Rows
<1>1. PICK e : e = <<>>
  OBVIOUS
<1>2. IsFcn(e) /\ DOMAIN e = {}
  BY <1>1 DEF IsFcn
<1>3. e \in Rows
  BY <1>2, FcnsAre, RowsAre
<1> QED BY <1>1, <1>3

(* The types hold at first.                                                *)
LEMMA InitTyped == Init => FeedTyped
<1> SUFFICES ASSUME Init PROVE FeedTyped
  OBVIOUS
<1>1. PICK e : e = <<>>
  OBVIOUS
<1>2. e \in Rows /\ DOMAIN e = {} /\ \A S : e \in Seq(S)
  BY <1>1, NoRows
<1>3. Len(e) = 0
  BY <1>1
<1>4. EngineTyped
  BY <1>1, <1>2 DEF Init, EngineTyped
<1>5. FlushTyped
  <2>1. agg = [current |-> e, last_sent |-> e, dirty |-> e, added |-> e,
               completed |-> {}, removed |-> {}, done |-> e, stale |-> TRUE]
    BY <1>1 DEF Init
  <2>2. agg \in Aggregator
    BY <1>2, <2>1 DEF Aggregator
  <2> QED BY <1>1, <1>2, <2>2 DEF Init, FlushTyped
<1>6. HubTyped
  <2>1. next = Seed /\ ring = e /\ rx = e /\ told = e /\ lagged = FALSE /\ floor = IF Seed = 0 THEN 0 ELSE Seed - 1
    BY <1>1 DEF Init
  <2>2. e \in Seq(Entry)
    BY <1>2
  <2>3. next \in Nat /\ next >= Seed /\ floor \in Nat /\ 0 <= RingFrames /\ 0 <= Capacity
    BY <2>1, FeedAssumption
  <2> QED BY <1>2, <1>3, <2>1, <2>2, <2>3 DEF HubTyped
<1>7. SessionTyped
  BY <1>1, <1>2 DEF Init, SessionTyped
<1> QED BY <1>4, <1>5, <1>6, <1>7 DEF FeedTyped

(* A published frame: the hub and the receiver stay typed.                 *)
LEMMA PublishTyped ==
  ASSUME HubTyped, NEW body \in Frame, Publish(body)
  PROVE  HubTyped'
<1>1. next' = next + 1 /\ next' \in Nat /\ next' >= Seed
  BY FeedAssumption DEF HubTyped, Publish
<1>2. PICK entry : entry = [seq |-> next, body |-> body]
  OBVIOUS
<1>3. entry \in Entry
  BY <1>2 DEF HubTyped, Entry
<1>4. told' \in Rows
  BY ApplyTyped DEF HubTyped, Publish
<1>5. ring' \in Seq(Entry) /\ Len(ring') <= RingFrames /\ floor' \in Nat
  <2>1. CASE Len(ring) = RingFrames
    <3>1. ring # <<>> /\ Len(ring) >= 1
      BY <2>1, FeedAssumption DEF HubTyped
    <3>2. Head(ring) \in Entry /\ Tail(ring) \in Seq(Entry) /\ Len(Tail(ring)) = Len(ring) - 1
      BY <3>1 DEF HubTyped
    <3>3. ring' = Append(Tail(ring), entry) /\ floor' = Head(ring).seq
      BY <1>2, <2>1 DEF Publish
    <3>4. Head(ring).seq \in Nat
      BY <3>2 DEF Entry
    <3> QED BY <1>3, <2>1, <3>2, <3>3, <3>4, FeedAssumption
  <2>2. CASE Len(ring) # RingFrames
    <3>1. ring' = Append(ring, entry) /\ floor' = floor
      BY <1>2, <2>2 DEF Publish
    <3> QED BY <1>3, <2>2, <3>1, FeedAssumption DEF HubTyped
  <2> QED BY <2>1, <2>2
<1>6. rx' \in Seq(Entry) /\ Len(rx') <= Capacity /\ lagged' \in BOOLEAN
  <2>1. CASE pc = "off"
    BY <2>1 DEF HubTyped, Publish
  <2>2. CASE pc # "off" /\ Len(rx) = Capacity
    <3>1. rx # <<>> /\ Len(rx) >= 1
      BY <2>2, FeedAssumption DEF HubTyped
    <3>2. Tail(rx) \in Seq(Entry) /\ Len(Tail(rx)) = Len(rx) - 1
      BY <3>1 DEF HubTyped
    <3>3. rx' = Append(Tail(rx), entry)
      BY <1>2, <2>2 DEF Publish
    <3>4. lagged' \in BOOLEAN
      BY <2>2 DEF HubTyped, Publish
    <3> QED BY <1>3, <2>2, <3>2, <3>3, <3>4, FeedAssumption
  <2>3. CASE pc # "off" /\ Len(rx) # Capacity
    <3>1. rx' = Append(rx, entry)
      BY <1>2, <2>3 DEF Publish
    <3>2. lagged' \in BOOLEAN
      BY <2>3 DEF HubTyped, Publish
    <3> QED BY <1>3, <2>3, <3>1, <3>2, FeedAssumption DEF HubTyped
  <2> QED BY <2>1, <2>2, <2>3
<1> QED BY <1>1, <1>4, <1>5, <1>6 DEF HubTyped

LEMMA NewestTyped ==
  ASSUME HubTyped
  PROVE  Newest \in Nat
BY FeedAssumption DEF HubTyped, Newest

(* The frames of a window, whatever it begins at.                          *)
LEMMA WindowTyped ==
  ASSUME HubTyped, NEW since
  PROVE  Window(since) \in Seq(Frame)
<1>1. PICK entries : entries = Sans(ring, {e \in ToSet(ring) : e.seq <= since})
  OBVIOUS
<1>2. entries \in Seq(Entry)
  BY <1>1, SansItems DEF HubTyped
<1>3. Len(entries) \in Nat /\ DOMAIN entries = 1..Len(entries) /\ \A k \in DOMAIN entries : entries[k].body \in Frame
  <2>1. Len(entries) \in Nat /\ DOMAIN entries = 1..Len(entries)
    BY <1>2
  <2>2. ASSUME NEW k \in DOMAIN entries PROVE entries[k].body \in Frame
    <3>1. PICK x : x = entries[k]
      OBVIOUS
    <3>2. x \in Entry
      BY <1>2, <2>1, <3>1
    <3> QED BY <3>1, <3>2 DEF Entry
  <2> QED BY <2>1, <2>2
<1>4. Window(since) = [k \in 1..Len(entries) |-> entries[k].body]
  BY <1>1, <1>3 DEF Window
<1>5. Window(since) \in [1..Len(entries) -> Frame]
  BY <1>3, <1>4
<1> QED BY <1>3, <1>5

LEMMA AnsweredTyped ==
  ASSUME HubTyped, NEW rows \in Rows, NEW since
  PROVE  Answered(rows, since) \in Rows
<1>1. Window(since) \in Seq(Frame)
  BY WindowTyped
<1>2. ApplyAll(rows, MergeAll(Window(since))) \in Rows
  BY <1>1, ApplyAllTyped
<1> QED BY <1>2 DEF Answered

-----------------------------------------------------------------------------
(* Every step keeps the types.  What it does not touch stays what it was.  *)

(* A part that a step leaves alone keeps its types.                        *)
LEMMA EngineSame ==
  ASSUME EngineTyped, UNCHANGED engine, boot' = boot \/ boot' = "bound"
  PROVE  EngineTyped'
BY DEF EngineTyped, engine

LEMMA FlushSame ==
  ASSUME FlushTyped, UNCHANGED <<agg, flushing, outbox>>
  PROVE  FlushTyped'
BY DEF FlushTyped

LEMMA HubSame ==
  ASSUME HubTyped, UNCHANGED hub
  PROVE  HubTyped'
BY DEF HubTyped, hub

LEMMA SessionSame ==
  ASSUME SessionTyped, UNCHANGED <<published, session>>
  PROVE  SessionTyped'
BY DEF SessionTyped, session

(* One row of the engine's is another one now.                             *)
LEMMA ExceptRows ==
  ASSUME NEW f \in Rows, NEW i \in DOMAIN f, NEW r \in Row
  PROVE  [f EXCEPT ![i] = r] \in Rows /\ DOMAIN [f EXCEPT ![i] = r] = DOMAIN f
<1>1. IsFcn(f) /\ DOMAIN f \subseteq Items /\ \A x \in DOMAIN f : f[x] \in Row
  BY FcnsAre, RowsAre
<1>2. PICK g : g = [f EXCEPT ![i] = r]
  OBVIOUS
<1>3. IsFcn(g) /\ DOMAIN g = DOMAIN f /\ \A x \in DOMAIN g : g[x] \in Row
  BY <1>1, <1>2 DEF IsFcn
<1>4. g \in Rows
  BY <1>1, <1>3, FcnsAre, RowsAre
<1> QED BY <1>2, <1>3, <1>4

LEMMA RowAt ==
  ASSUME NEW f \in Rows, NEW i \in DOMAIN f
  PROVE  f[i] \in Row /\ i \in Items
BY FcnsAre, RowsAre

(* One event queued behind the others of its kind.                         *)
LEMMA QueuedTyped ==
  ASSUME NEW a \in Aggregator, NEW S \in SUBSET Items
  PROVE  /\ [a EXCEPT !.added = Append(@, S)] \in Aggregator
         /\ [a EXCEPT !.completed = @ \cup S] \in Aggregator
<1>1. PICK q : q = Append(a.added, S)
  OBVIOUS
<1>2. q \in Seq(SUBSET Items)
  BY <1>1 DEF Aggregator
<1>3. [a EXCEPT !.added = q] \in Aggregator
  BY <1>2 DEF Aggregator
<1>4. [a EXCEPT !.added = Append(@, S)] = [a EXCEPT !.added = q]
  BY <1>1 DEF Aggregator
<1>5. [a EXCEPT !.completed = @ \cup S] \in Aggregator
  BY DEF Aggregator
<1> QED BY <1>3, <1>4, <1>5

(* The events of the engine keep the types.                                *)
LEMMA RecoverTyped ==
  ASSUME FeedTyped, NEW rows \in Rows, Recover(rows)
  PROVE  FeedTyped'
<1>1. PICK ids \in SetToSeqs(DOMAIN rows) :
        agg' = [Installed(agg, ids, rows) EXCEPT !.added = Append(@, DOMAIN rows)]
  BY DEF Recover
<1>2. DOMAIN rows \in SUBSET Items
  BY FcnsAre, RowsAre
<1>3. ids \in Seq(DOMAIN rows)
  BY <1>2, OrdersAreSeqs
<1>4. PICK a : a = Installed(agg, ids, rows)
  OBVIOUS
<1>5. a \in Aggregator
  BY <1>3, <1>4, InstalledTyped DEF FeedTyped, FlushTyped
<1>6. agg' \in Aggregator
  BY <1>1, <1>2, <1>4, <1>5, QueuedTyped
<1>7. EngineTyped'
  BY <1>2 DEF FeedTyped, EngineTyped, Recover, Awaited, Listening
<1>8. FlushTyped'
  BY <1>6 DEF FeedTyped, FlushTyped, Recover
<1> QED BY <1>7, <1>8, HubSame, SessionSame DEF FeedTyped, Recover

LEMMA AddedTyped ==
  ASSUME FeedTyped, NEW i \in Items, NEW v \in Values, Added(i, v)
  PROVE  FeedTyped'
<1>1. PICK r : r = [status |-> "live", value |-> v]
  OBVIOUS
<1>2. r \in Row
  BY <1>1 DEF Row
<1>3. truth' = Put(truth, i, r) /\ agg' = [Install(agg, i, r) EXCEPT !.added = Append(@, {i})]
  BY <1>1 DEF Added
<1>4. PICK a : a = Install(agg, i, r)
  OBVIOUS
<1>5. a \in Aggregator
  BY <1>2, <1>4, InstallTyped DEF FeedTyped, FlushTyped
<1>6. agg' \in Aggregator
  BY <1>3, <1>4, <1>5, QueuedTyped
<1>7. truth' \in Rows /\ DOMAIN truth' = DOMAIN truth \cup {i}
  BY <1>2, <1>3, PutRows DEF FeedTyped, EngineTyped
<1>8. EngineTyped'
  BY <1>7 DEF FeedTyped, EngineTyped, Added, Listening
<1>9. FlushTyped'
  BY <1>6 DEF FeedTyped, FlushTyped, Added
<1> QED BY <1>8, <1>9, HubSame, SessionSame DEF FeedTyped, Added

LEMMA StatusChangedTyped ==
  ASSUME FeedTyped, NEW i \in Items, NEW v \in Values, StatusChanged(i, v)
  PROVE  FeedTyped'
<1>1. PICK r : r = [status |-> "live", value |-> v]
  OBVIOUS
<1>2. r \in Row
  BY <1>1 DEF Row
<1>3. i \in DOMAIN truth /\ truth' = [truth EXCEPT ![i] = r] /\ agg' = Install(agg, i, r)
  BY <1>1 DEF StatusChanged
<1>4. agg' \in Aggregator
  BY <1>2, <1>3, InstallTyped DEF FeedTyped, FlushTyped
<1>5. truth' \in Rows /\ DOMAIN truth' = DOMAIN truth
  BY <1>2, <1>3, ExceptRows DEF FeedTyped, EngineTyped
<1>6. EngineTyped'
  BY <1>5 DEF FeedTyped, EngineTyped, StatusChanged, Listening
<1>7. FlushTyped'
  BY <1>4 DEF FeedTyped, FlushTyped, StatusChanged
<1> QED BY <1>6, <1>7, HubSame, SessionSame DEF FeedTyped, StatusChanged

LEMMA EndedTyped ==
  ASSUME FeedTyped, NEW i \in Items, NEW v \in Values, Ended(i, v)
  PROVE  FeedTyped'
<1>1. PICK r : r = [status |-> "done", value |-> v]
  OBVIOUS
<1>2. r \in Row
  BY <1>1 DEF Row
<1>3. i \in DOMAIN truth /\ truth' = [truth EXCEPT ![i] = r] /\ agg' = Install(agg, i, r)
  BY <1>1 DEF Ended
<1>4. agg' \in Aggregator
  BY <1>2, <1>3, InstallTyped DEF FeedTyped, FlushTyped
<1>5. truth' \in Rows /\ DOMAIN truth' = DOMAIN truth
  BY <1>2, <1>3, ExceptRows DEF FeedTyped, EngineTyped
<1>6. EngineTyped'
  BY <1>3, <1>5 DEF FeedTyped, EngineTyped, Ended, Listening
<1>7. FlushTyped'
  BY <1>4 DEF FeedTyped, FlushTyped, Ended
<1> QED BY <1>6, <1>7, HubSame, SessionSame DEF FeedTyped, Ended

LEMMA CompletedTyped ==
  ASSUME FeedTyped, NEW i \in Items, Completed(i)
  PROVE  FeedTyped'
<1>1. i \in DOMAIN truth
  BY DEF FeedTyped, EngineTyped, Completed
<1>2. truth[i] \in Row
  BY <1>1, RowAt DEF FeedTyped, EngineTyped
<1>3. PICK a : a = Install(agg, i, truth[i])
  OBVIOUS
<1>4. a \in Aggregator
  BY <1>2, <1>3, InstallTyped DEF FeedTyped, FlushTyped
<1>5. agg' = [a EXCEPT !.completed = @ \cup {i}]
  BY <1>3 DEF Completed
<1>6. agg' \in Aggregator
  BY <1>4, <1>5, QueuedTyped
<1>7. EngineTyped'
  BY DEF FeedTyped, EngineTyped, Completed
<1>8. FlushTyped'
  BY <1>6 DEF FeedTyped, FlushTyped, Completed
<1> QED BY <1>7, <1>8, HubSame, SessionSame DEF FeedTyped, Completed

LEMMA RemovedTyped ==
  ASSUME FeedTyped, NEW S \in SUBSET Items, Removed(S)
  PROVE  FeedTyped'
<1>1. agg' \in Aggregator
  BY ForgetTyped DEF FeedTyped, FlushTyped, Removed
<1>2. truth' \in Rows /\ DOMAIN truth' = DOMAIN truth \ S
  BY WithoutRows DEF FeedTyped, EngineTyped, Removed
<1>3. EngineTyped'
  BY <1>2 DEF FeedTyped, EngineTyped, Removed, Listening
<1>4. FlushTyped'
  BY <1>1 DEF FeedTyped, FlushTyped, Removed
<1> QED BY <1>3, <1>4, HubSame, SessionSame DEF FeedTyped, Removed

(* The flush and the hub keep the types.                                   *)
LEMMA FlushStepTyped ==
  ASSUME FeedTyped, Flush
  PROVE  FeedTyped'
<1>1. agg \in Aggregator
  BY DEF FeedTyped, FlushTyped
<1>2. FlushTyped'
  BY <1>1, BatchTyped, FlushedTyped DEF FlushTyped, Flush
<1> QED BY <1>2, EngineSame, HubSame, SessionSame DEF FeedTyped, Flush

LEMMA EmitTyped ==
  ASSUME FeedTyped, Emit
  PROVE  FeedTyped'
<1>1. Head(outbox) \in Frame /\ Tail(outbox) \in Seq(Frame)
  BY DEF FeedTyped, FlushTyped, Emit
<1>2. PICK body : body = Head(outbox)
  OBVIOUS
<1>3. body \in Frame /\ Publish(body)
  BY <1>1, <1>2 DEF Emit
<1>4. HubTyped'
  BY <1>3, PublishTyped DEF FeedTyped
<1>5. FlushTyped'
  BY <1>1 DEF FeedTyped, FlushTyped, Emit
<1> QED BY <1>4, <1>5, EngineSame, SessionSame DEF FeedTyped, Emit

LEMMA RepublishTyped ==
  ASSUME FeedTyped, Republish
  PROVE  FeedTyped'
<1>1. agg \in Aggregator /\ Newest \in Nat
  BY NewestTyped DEF FeedTyped, FlushTyped
<1>2. FlushTyped'
  <2>1. agg' \in Aggregator
    BY <1>1 DEF Republish, Aggregator
  <2> QED BY <2>1 DEF FeedTyped, FlushTyped, Republish
<1>3. SessionTyped'
  <2>1. published' \in [seq : Nat, rows : Rows]
    BY <1>1 DEF FeedTyped, SessionTyped, Republish, Aggregator
  <2> QED BY <2>1 DEF FeedTyped, SessionTyped, Republish, session
<1> QED BY <1>2, <1>3, EngineSame, HubSame DEF FeedTyped, Republish

(* A frame that carries no row.                                            *)
LEMMA OtherTyped == Body("other", <<>>) \in Frame
<1>1. PICK e : e = <<>>
  OBVIOUS
<1>2. [kind |-> "other", rows |-> e] \in [kind : {"other"}, rows : {e}]
  OBVIOUS
<1> QED BY <1>1, <1>2 DEF Body, Frame

LEMMA NoticeTyped ==
  ASSUME FeedTyped, Notice
  PROVE  FeedTyped'
<1>1. PICK body \in Frame : Publish(body)
  BY OtherTyped DEF Notice
<1>2. HubTyped'
  BY <1>1, PublishTyped DEF FeedTyped
<1> QED BY <1>2, EngineSame, FlushSame, SessionSame DEF FeedTyped, Notice

LEMMA HealthTyped ==
  ASSUME FeedTyped, Health
  PROVE  FeedTyped'
<1>1. PICK body \in Frame : Publish(body)
  BY OtherTyped DEF Health
<1>2. HubTyped'
  BY <1>1, PublishTyped DEF FeedTyped
<1>3. agg' \in Aggregator
  BY DEF FeedTyped, FlushTyped, Health, Aggregator
<1>4. FlushTyped'
  BY <1>3 DEF FeedTyped, FlushTyped, Health
<1> QED BY <1>2, <1>4, EngineSame, SessionSame DEF FeedTyped, Health

(* The session: it moves its own variables, and empties its end of the bus. *)
LEMMA SessionStepTyped ==
  ASSUME FeedTyped, Serving, rx' \in Seq(Entry), Len(rx') <= Capacity, lagged' \in BOOLEAN,
         client' \in Rows, pc' \in {"off", "snapshot", "catch_up", "resume", "open"},
         cursor' \in Nat \cup {NoSeq}, held' \in Nat \cup {NoSeq}
  PROVE  FeedTyped'
<1>1. EngineTyped' /\ FlushTyped'
  BY EngineSame, FlushSame DEF FeedTyped, Serving
<1>2. HubTyped'
  BY DEF FeedTyped, HubTyped, Serving
<1>3. SessionTyped'
  BY DEF FeedTyped, SessionTyped, Serving
<1> QED BY <1>1, <1>2, <1>3 DEF FeedTyped

(* The session keeps the types.                                            *)
LEMMA ConnectTyped ==
  ASSUME FeedTyped, Connect
  PROVE  FeedTyped'
<1>1. lagged' \in BOOLEAN /\ cursor' = NoSeq /\ Serving /\ held' = held /\ client' = client
  BY DEF Connect
<1>2. rx' \in Seq(Entry) /\ Len(rx') <= Capacity
  <2>1. rx' = <<>>
    BY DEF Connect
  <2>2. rx' \in Seq(Entry) /\ Len(rx') = 0
    BY <2>1
  <2> QED BY <2>2, FeedAssumption
<1>3. pc' \in {"snapshot", "resume"}
  BY DEF Connect
<1>4. held' \in Nat \cup {NoSeq} /\ client' \in Rows
  BY <1>1 DEF FeedTyped, SessionTyped
<1> QED BY <1>1, <1>2, <1>3, <1>4, SessionStepTyped

LEMMA DisconnectTyped ==
  ASSUME FeedTyped, Disconnect
  PROVE  FeedTyped'
<1>1. lagged' \in BOOLEAN /\ cursor' = NoSeq /\ Serving /\ held' = held /\ client' = client
  BY DEF Disconnect
<1>2. rx' \in Seq(Entry) /\ Len(rx') <= Capacity
  <2>1. rx' = <<>>
    BY DEF Disconnect
  <2>2. rx' \in Seq(Entry) /\ Len(rx') = 0
    BY <2>1
  <2> QED BY <2>2, FeedAssumption
<1>3. pc' = "off"
  BY DEF Disconnect
<1>4. held' \in Nat \cup {NoSeq} /\ client' \in Rows
  BY <1>1 DEF FeedTyped, SessionTyped
<1> QED BY <1>1, <1>2, <1>3, <1>4, SessionStepTyped

LEMMA SendSnapshotTyped ==
  ASSUME FeedTyped, SendSnapshot
  PROVE  FeedTyped'
<1>1. published.seq \in Nat /\ published.rows \in Rows
  BY DEF FeedTyped, SessionTyped
<1>2. cursor' \in Nat \cup {NoSeq} /\ held' \in Nat /\ client' \in Rows /\ pc' = "catch_up"
  BY <1>1 DEF SendSnapshot
<1>3. rx' \in Seq(Entry) /\ Len(rx') <= Capacity /\ lagged' \in BOOLEAN /\ Serving
  BY DEF FeedTyped, HubTyped, SendSnapshot
<1> QED BY <1>2, <1>3, SessionStepTyped

LEMMA CatchUpTyped ==
  ASSUME FeedTyped, CatchUp
  PROVE  FeedTyped'
<1>1. Newest \in Nat /\ client \in Rows
  BY NewestTyped DEF FeedTyped, SessionTyped
<1>2. PICK seen : seen = IF cursor = NoSeq THEN 0 ELSE cursor
  OBVIOUS
<1>3. Answered(client, seen) \in Rows
  BY <1>1, AnsweredTyped DEF FeedTyped
<1>4. cursor' \in Nat \cup {NoSeq} /\ held' \in Nat \cup {NoSeq} /\ client' \in Rows /\ pc' = "open"
  BY <1>1, <1>2, <1>3 DEF CatchUp, FeedTyped, SessionTyped
<1>5. rx' \in Seq(Entry) /\ Len(rx') <= Capacity /\ lagged' \in BOOLEAN /\ Serving
  BY DEF FeedTyped, HubTyped, CatchUp
<1> QED BY <1>4, <1>5, SessionStepTyped

LEMMA ResumeTyped ==
  ASSUME FeedTyped, Resume
  PROVE  FeedTyped'
<1>1. Newest \in Nat /\ client \in Rows
  BY NewestTyped DEF FeedTyped, SessionTyped
<1>2. Answered(client, held) \in Rows
  BY <1>1, AnsweredTyped DEF FeedTyped
<1>3. cursor' \in Nat \cup {NoSeq} /\ held' \in Nat \cup {NoSeq} /\ client' \in Rows
  BY <1>1, <1>2 DEF Resume, FeedTyped, SessionTyped
<1>4. pc' \in {"snapshot", "open"}
  BY DEF Resume
<1>5. rx' \in Seq(Entry) /\ Len(rx') <= Capacity /\ lagged' \in BOOLEAN /\ Serving
  BY DEF FeedTyped, HubTyped, Resume
<1> QED BY <1>3, <1>4, <1>5, SessionStepTyped

LEMMA ForwardTyped ==
  ASSUME FeedTyped, Forward
  PROVE  FeedTyped'
<1>1. rx \in Seq(Entry) /\ rx # <<>> /\ Len(rx) <= Capacity
  BY DEF FeedTyped, HubTyped, Forward
<1>2. PICK f : f = Head(rx)
  OBVIOUS
<1>3. f \in Entry /\ Tail(rx) \in Seq(Entry) /\ Len(Tail(rx)) <= Capacity
  <2>1. Len(rx) \in Nat \ {0} /\ Len(Tail(rx)) = Len(rx) - 1 /\ Capacity \in Nat
    BY <1>1, FeedAssumption
  <2> QED BY <1>1, <1>2, <2>1
<1>4. f.seq \in Nat /\ f.body \in Frame
  BY <1>3 DEF Entry
<1>5. Apply(client, f.body) \in Rows
  BY <1>4, ApplyTyped DEF FeedTyped, SessionTyped
<1>6. cursor' \in Nat \cup {NoSeq} /\ held' \in Nat \cup {NoSeq} /\ client' \in Rows
  BY <1>2, <1>4, <1>5 DEF Forward, FeedTyped, SessionTyped
<1>7. rx' = Tail(rx) /\ lagged' = lagged /\ pc' = pc /\ Serving
  BY DEF Forward
<1> QED BY <1>3, <1>6, <1>7, SessionStepTyped DEF FeedTyped, HubTyped, SessionTyped

LEMMA LagTyped ==
  ASSUME FeedTyped, Lag \/ AskResume
  PROVE  FeedTyped'
<1>1. rx' = rx /\ lagged' \in BOOLEAN /\ Serving /\ UNCHANGED <<cursor, held, client>>
  BY DEF FeedTyped, HubTyped, Lag, AskResume
<1>2. pc' \in {"snapshot", "resume"}
  BY DEF Lag, AskResume
<1> QED BY <1>1, <1>2, SessionStepTyped DEF FeedTyped, HubTyped, SessionTyped

-----------------------------------------------------------------------------
(* The invariant, and what it says of every reachable state.               *)

(* Every step keeps the types.                                             *)
LEMMA StepTyped == FeedTyped /\ [Next]_vars => FeedTyped'
<1> SUFFICES ASSUME FeedTyped, [Next]_vars PROVE FeedTyped'
  OBVIOUS
<1>1. CASE \E rows \in Rows : Recover(rows)
  BY <1>1, RecoverTyped
<1>2. CASE \E i \in Items : Completed(i)
  BY <1>2, CompletedTyped
<1>3. CASE \E i \in Items, v \in Values : Added(i, v)
  BY <1>3, AddedTyped
<1>4. CASE \E i \in Items, v \in Values : StatusChanged(i, v)
  BY <1>4, StatusChangedTyped
<1>5. CASE \E i \in Items, v \in Values : Ended(i, v)
  BY <1>5, EndedTyped
<1>6. CASE \E S \in SUBSET Items : Removed(S)
  BY <1>6, RemovedTyped
<1>7. CASE Flush \/ Emit \/ Republish \/ Notice \/ Health
  BY <1>7, FlushStepTyped, EmitTyped, RepublishTyped, NoticeTyped, HealthTyped
<1>8. CASE Connect \/ SendSnapshot \/ CatchUp \/ Resume
  BY <1>8, ConnectTyped, SendSnapshotTyped, CatchUpTyped, ResumeTyped
<1>9. CASE Forward \/ Lag \/ AskResume \/ Disconnect
  BY <1>9, ForwardTyped, LagTyped, DisconnectTyped
<1>10. CASE UNCHANGED vars
  BY <1>10, EngineSame, FlushSame, HubSame, SessionSame DEF FeedTyped, vars
<1> QED BY <1>1, <1>2, <1>3, <1>4, <1>5, <1>6, <1>7, <1>8, <1>9, <1>10 DEF Next

(* Every variable of the feed has its type, that of every frame on its way *)
(* included: the invariant the other theorems rest on.                     *)
THEOREM FeedIsTyped == Spec => []FeedTyped
<1>1. Init => FeedTyped
  BY InitTyped
<1>2. FeedTyped /\ [Next]_vars => FeedTyped'
  BY StepTyped
<1> QED BY <1>1, <1>2, PTL DEF Spec

(* The entries of the ring and of the bus are frames with their numbers.   *)
LEMMA EntriesAre ==
  ASSUME NEW s \in Seq(Entry)
  PROVE  \A e \in ToSet(s) : IsEntry(e)
<1> SUFFICES ASSUME NEW e \in ToSet(s) PROVE IsEntry(e)
  OBVIOUS
<1>1. PICK k \in 1..Len(s) : e = s[k]
  BY DEF ToSet
<1>2. e \in Entry
  BY <1>1
<1>3. PICK b : b = e.body
  OBVIOUS
<1>4. e.seq \in Nat /\ b \in Frame
  BY <1>2, <1>3 DEF Entry
<1>5. b.kind \in BodyKinds /\ Ids(b) \subseteq Items
  BY <1>4, FrameKinds
<1> QED BY <1>3, <1>4, <1>5 DEF IsEntry, BodyKinds

(* The invariant of the types implies the one the runs check.              *)
LEMMA TypedIsTypeOK == FeedTyped => TypeOK
<1> SUFFICES ASSUME FeedTyped PROVE TypeOK
  OBVIOUS
<1>1. /\ boot \in {"recover", "wait", "bound"}
      /\ born \subseteq Items /\ {truth, told, client, published.rows} \subseteq Rows
  BY DEF FeedTyped, EngineTyped, HubTyped, SessionTyped
<1>2. DOMAIN truth \subseteq born /\ ending \subseteq DOMAIN truth
  BY DEF FeedTyped, EngineTyped
<1>3. /\ {agg.current, agg.last_sent} \subseteq Rows
      /\ agg.dirty \in Seq(Items) /\ agg.added \in Seq(SUBSET Items) /\ agg.done \in Seq(Items)
      /\ agg.completed \subseteq Items /\ agg.removed \subseteq Items /\ agg.stale \in BOOLEAN
      /\ flushing \in BOOLEAN
  BY DEF FeedTyped, FlushTyped, Aggregator
<1>4. lagged \in BOOLEAN /\ Len(ring) <= RingFrames /\ Len(rx) <= Capacity /\ {next, floor} \subseteq Nat
  BY DEF FeedTyped, HubTyped
<1>5. \A e \in ToSet(ring) \cup ToSet(rx) : IsEntry(e)
  <2>1. (\A e \in ToSet(ring) : IsEntry(e)) /\ (\A e \in ToSet(rx) : IsEntry(e))
    BY EntriesAre DEF FeedTyped, HubTyped
  <2> QED BY <2>1
<1>6. /\ published.seq \in Nat /\ {cursor, held} \subseteq Nat \cup {NoSeq}
      /\ pc \in {"off", "snapshot", "catch_up", "resume", "open"}
  BY DEF FeedTyped, SessionTyped
<1> QED BY <1>1, <1>2, <1>3, <1>4, <1>5, <1>6 DEF TypeOK

(* TypeOK holds in every reachable state: the aggregator, the hub, the     *)
(* session and its client hold what the structures of the code hold, and   *)
(* neither the replay ring nor the bus exceeds its size.                   *)
THEOREM FeedTypeOK == Spec => []TypeOK
<1>1. FeedTyped => TypeOK
  BY TypedIsTypeOK
<1> QED BY <1>1, FeedIsTyped, PTL

(* FoldIsReplay holds in every reachable state: a session about to answer  *)
(* a resume or to catch up leaves its client with the same rows whether it *)
(* sends the folded window (Ring::merge_after, encode_fold) or every frame *)
(* of it.                                                                  *)
THEOREM ResumeIsReplay == Spec => []FoldIsReplay
<1>1. FeedTyped => FoldIsReplay
  <2> SUFFICES ASSUME FeedTyped, NEW since, NEW rows \in {client, told}
               PROVE  ApplyAll(rows, MergeAll(Window(since))) = ApplyAll(rows, Window(since))
    BY DEF FoldIsReplay
  <2>1. rows \in Rows
    BY DEF FeedTyped, HubTyped, SessionTyped
  <2>2. Window(since) \in Seq(Frame)
    BY WindowTyped DEF FeedTyped
  <2> QED BY <2>1, <2>2, ApplyAllTyped
<1> QED BY <1>1, FeedIsTyped, PTL

-----------------------------------------------------------------------------
(* Sequences without repetitions, and what is left of them.                *)

(* A sequence with an element more.                                        *)
LEMMA SetMore ==
  ASSUME NEW S, NEW s \in Seq(S), NEW x
  PROVE  /\ DOMAIN Append(s, x) = 1..(Len(s) + 1) /\ DOMAIN s = 1..Len(s) /\ Len(s) \in Nat
         /\ \A k \in 1..Len(s) : Append(s, x)[k] = s[k]
         /\ Append(s, x)[Len(s) + 1] = x
         /\ ToSet(Append(s, x)) = ToSet(s) \cup {x}
<1>1. PICK t : t = Append(s, x)
  OBVIOUS
<1>2. s \in Seq(S \cup {x})
  OBVIOUS
<1>3. /\ DOMAIN t = 1..(Len(s) + 1) /\ DOMAIN s = 1..Len(s) /\ Len(s) \in Nat
      /\ \A k \in 1..Len(s) : t[k] = s[k]
      /\ t[Len(s) + 1] = x
  BY <1>1, <1>2
<1>4. ASSUME NEW y PROVE y \in ToSet(t) <=> y \in ToSet(s) \cup {x}
  <2>1. ASSUME NEW k \in 1..(Len(s) + 1), y = t[k] PROVE y \in ToSet(s) \cup {x}
    <3>1. CASE k = Len(s) + 1
      BY <1>3, <2>1, <3>1
    <3>2. CASE k # Len(s) + 1
      <4>1. k \in 1..Len(s)
        BY <1>3, <3>2
      <4> QED BY <1>3, <2>1, <4>1 DEF ToSet
    <3> QED BY <3>1, <3>2
  <2>2. ASSUME NEW k \in 1..Len(s), y = s[k] PROVE y \in ToSet(t)
    <3>1. k \in 1..(Len(s) + 1) /\ t[k] = y
      BY <1>3, <2>2
    <3> QED BY <1>3, <3>1 DEF ToSet
  <2>3. x \in ToSet(t)
    <3>1. Len(s) + 1 \in DOMAIN t
      BY <1>3
    <3> QED BY <1>3, <3>1 DEF ToSet
  <2> QED BY <1>3, <2>1, <2>2, <2>3 DEF ToSet
<1>5. ToSet(t) = ToSet(s) \cup {x}
  BY <1>4
<1> QED BY <1>1, <1>3, <1>5

LEMMA SetNone == ToSet(<<>>) = {} /\ DOMAIN <<>> = {}
BY DEF ToSet

(* It repeats nothing when the element is a new one.                       *)
LEMMA DistinctMore ==
  ASSUME NEW S, NEW s \in Seq(S), NEW x
  PROVE  IsInjective(Append(s, x)) <=> IsInjective(s) /\ x \notin ToSet(s)
<1>1. PICK t : t = Append(s, x)
  OBVIOUS
<1>2. PICK n : n = Len(s)
  OBVIOUS
<1>3. /\ DOMAIN t = 1..(n + 1) /\ DOMAIN s = 1..n /\ n \in Nat
      /\ \A k \in 1..n : t[k] = s[k]
      /\ t[n + 1] = x
  BY <1>1, <1>2, SetMore
<1>4. x \in ToSet(s) <=> \E k \in 1..n : s[k] = x
  BY <1>3 DEF ToSet
<1>5. ASSUME IsInjective(t) PROVE IsInjective(s) /\ x \notin ToSet(s)
  <2>1. \A k, l \in 1..(n + 1) : t[k] = t[l] => k = l
    BY <1>3, <1>5 DEF IsInjective
  <2>2. \A k, l \in 1..n : s[k] = s[l] => k = l
    BY <1>3, <2>1
  <2>3. \A k \in 1..n : s[k] # x
    BY <1>3, <2>1
  <2> QED BY <1>3, <1>4, <2>2, <2>3 DEF IsInjective
<1>6. ASSUME IsInjective(s), x \notin ToSet(s) PROVE IsInjective(t)
  <2>1. \A k, l \in 1..n : s[k] = s[l] => k = l
    BY <1>3, <1>6 DEF IsInjective
  <2>2. \A k \in 1..n : s[k] # x
    BY <1>4, <1>6
  <2>3. \A k, l \in 1..(n + 1) : t[k] = t[l] => k = l
    BY <1>3, <2>1, <2>2
  <2> QED BY <1>3, <2>3 DEF IsInjective
<1> QED BY <1>1, <1>5, <1>6

(* Once an element is late, every later one is pending.                    *)
Tidy(s, late, pending) == \A k, l \in DOMAIN s : k <= l /\ s[k] \in late => s[l] \in pending

(* It is tidy when the new element is one that is pending, or when nothing *)
(* before it is late.                                                      *)
LEMMA TidyMore ==
  ASSUME NEW S, NEW s \in Seq(S), NEW x, NEW late, NEW pending
  PROVE  Tidy(Append(s, x), late, pending) <=>
           Tidy(s, late, pending) /\ (x \in pending \/ (x \notin late /\ ToSet(s) \cap late = {}))
<1>1. PICK t : t = Append(s, x)
  OBVIOUS
<1>2. PICK n : n = Len(s)
  OBVIOUS
<1>3. /\ DOMAIN t = 1..(n + 1) /\ DOMAIN s = 1..n /\ n \in Nat
      /\ \A k \in 1..n : t[k] = s[k]
      /\ t[n + 1] = x
  BY <1>1, <1>2, SetMore
<1>4. ToSet(s) \cap late = {} <=> \A k \in 1..n : s[k] \notin late
  BY <1>3 DEF ToSet
<1>5. Tidy(s, late, pending) <=> \A k, l \in 1..n : k <= l /\ s[k] \in late => s[l] \in pending
  BY <1>3 DEF Tidy
<1>6. Tidy(t, late, pending) <=> \A k, l \in 1..(n + 1) : k <= l /\ t[k] \in late => t[l] \in pending
  BY <1>3 DEF Tidy
<1>7. ASSUME Tidy(t, late, pending)
      PROVE  Tidy(s, late, pending) /\ (x \in pending \/ (x \notin late /\ ToSet(s) \cap late = {}))
  <2>1. \A k, l \in 1..n : k <= l /\ s[k] \in late => s[l] \in pending
    BY <1>3, <1>6, <1>7
  <2>2. \A k \in 1..n : s[k] \in late => x \in pending
    BY <1>3, <1>6, <1>7
  <2>3. x \in late => x \in pending
    BY <1>3, <1>6, <1>7
  <2> QED BY <1>4, <1>5, <2>1, <2>2, <2>3
<1>8. ASSUME Tidy(s, late, pending), x \in pending \/ (x \notin late /\ ToSet(s) \cap late = {})
      PROVE  Tidy(t, late, pending)
  <2>1. \A k, l \in 1..n : k <= l /\ s[k] \in late => s[l] \in pending
    BY <1>5, <1>8
  <2>2. x \in pending \/ (x \notin late /\ \A k \in 1..n : s[k] \notin late)
    BY <1>4, <1>8
  <2>3. ASSUME NEW k \in 1..(n + 1), NEW l \in 1..(n + 1), k <= l, t[k] \in late PROVE t[l] \in pending
    <3>1. CASE l \in 1..n
      BY <1>3, <2>1, <2>3, <3>1
    <3>2. CASE l = n + 1
      BY <1>3, <2>2, <2>3, <3>2
    <3> QED BY <1>3, <3>1, <3>2
  <2> QED BY <1>6, <2>3
<1> QED BY <1>1, <1>7, <1>8

(* What sifting leaves: the other elements, once each, in their order.     *)
LEMMA SansKeeps ==
  ASSUME NEW S, NEW s \in Seq(S), NEW Out
  PROVE  /\ ToSet(Sans(s, Out)) = ToSet(s) \ Out
         /\ IsInjective(s) => IsInjective(Sans(s, Out))
<1> DEFINE Good == {t \in Seq(S) : /\ ToSet(Sans(t, Out)) = ToSet(t) \ Out
                                   /\ IsInjective(t) => IsInjective(Sans(t, Out))}
<1>1. <<>> \in Good
  <2>1. Sans(<<>>, Out) = <<>>
    BY SansNone
  <2>2. ToSet(<<>>) = {}
    BY SetNone
  <2> QED BY <2>1, <2>2
<1>2. ASSUME NEW t \in Seq(S), NEW x \in S, t \in Good PROVE Append(t, x) \in Good
  <2>1. PICK u : u = Sans(t, Out)
    OBVIOUS
  <2>2. ToSet(u) = ToSet(t) \ Out /\ (IsInjective(t) => IsInjective(u))
    BY <1>2, <2>1
  <2>3. u \in Seq(S)
    BY <2>1, SansItems
  <2>4. PICK v : v = Append(t, x)
    OBVIOUS
  <2>5. ToSet(v) = ToSet(t) \cup {x} /\ (IsInjective(v) <=> IsInjective(t) /\ x \notin ToSet(t)) /\ v \in Seq(S)
    BY <2>4, SetMore, DistinctMore
  <2>6. Sans(v, Out) = IF x \in Out THEN u ELSE Append(u, x)
    BY <2>1, <2>4, SansMore
  <2>7. ToSet(Append(u, x)) = ToSet(u) \cup {x} /\ (IsInjective(Append(u, x)) <=> IsInjective(u) /\ x \notin ToSet(u))
    BY <2>3, SetMore, DistinctMore
  <2>8. ToSet(Sans(v, Out)) = ToSet(v) \ Out
    BY <2>2, <2>5, <2>6, <2>7
  <2>9. IsInjective(v) => IsInjective(Sans(v, Out))
    BY <2>2, <2>5, <2>6, <2>7
  <2> QED BY <2>4, <2>5, <2>8, <2>9
<1> HIDE DEF Good
<1>3. s \in Good
  BY <1>1, <1>2, SeqInduction
<1> QED BY <1>3 DEF Good

(* Taking elements away leaves a tidy sequence tidy.                       *)
LEMMA SansTidy ==
  ASSUME NEW S, NEW s \in Seq(S), NEW Out, NEW late, NEW pending, Tidy(s, late, pending)
  PROVE  Tidy(Sans(s, Out), late, pending)
<1> DEFINE Good == {t \in Seq(S) : Tidy(t, late, pending) => Tidy(Sans(t, Out), late, pending)}
<1>1. <<>> \in Good
  <2>1. Sans(<<>>, Out) = <<>>
    BY SansNone
  <2> QED BY <2>1
<1>2. ASSUME NEW t \in Seq(S), NEW x \in S, t \in Good PROVE Append(t, x) \in Good
  <2>1. PICK u : u = Sans(t, Out)
    OBVIOUS
  <2>2. u \in Seq(S) /\ ToSet(u) = ToSet(t) \ Out
    BY <2>1, SansItems, SansKeeps
  <2>3. Tidy(t, late, pending) => Tidy(u, late, pending)
    BY <1>2, <2>1
  <2>4. PICK v : v = Append(t, x)
    OBVIOUS
  <2>5. Tidy(v, late, pending) <=>
          Tidy(t, late, pending) /\ (x \in pending \/ (x \notin late /\ ToSet(t) \cap late = {}))
    BY <2>4, TidyMore
  <2>6. Tidy(Append(u, x), late, pending) <=>
          Tidy(u, late, pending) /\ (x \in pending \/ (x \notin late /\ ToSet(u) \cap late = {}))
    BY <2>2, TidyMore
  <2>7. Sans(v, Out) = IF x \in Out THEN u ELSE Append(u, x)
    BY <2>1, <2>4, SansMore
  <2>8. Tidy(v, late, pending) => Tidy(Sans(v, Out), late, pending)
    BY <2>2, <2>3, <2>5, <2>6, <2>7
  <2>9. v \in Seq(S)
    BY <2>4
  <2> QED BY <2>4, <2>8, <2>9
<1> HIDE DEF Good
<1>3. s \in Good
  BY <1>1, <1>2, SeqInduction
<1> QED BY <1>3 DEF Good

(* No more are late than are pending: the first ones are not.              *)
LEMMA FewAreLate ==
  ASSUME NEW S, NEW s \in Seq(S), IsInjective(s), NEW late, NEW pending, IsFiniteSet(pending),
         Tidy(s, late, pending), NEW k \in 1..Len(s), s[k] \in late
  PROVE  Len(s) - k + 1 <= Cardinality(pending)
<1>1. PICK n : n = Len(s)
  OBVIOUS
<1>2. n \in Nat /\ DOMAIN s = 1..n /\ k \in 1..n
  BY <1>1
<1> DEFINE f == [l \in k..n |-> s[l]]
<1>3. f \in [k..n -> pending]
  BY <1>2 DEF Tidy
<1>4. \A l, m \in k..n : f[l] = f[m] => l = m
  BY <1>2 DEF IsInjective
<1>5. f \in Injection(k..n, pending)
  BY <1>3, <1>4 DEF Injection, IsInjective
<1> HIDE DEF f
<1>6. Cardinality(k..n) <= Cardinality(pending)
  BY <1>5, FS_Injection
<1>7. Cardinality(k..n) = n - k + 1
  BY <1>2, FS_Interval
<1> QED BY <1>1, <1>6, <1>7

(* s is cut behind its first m elements: those are u, the others t.        *)
CutAt(s, m, t, u) == t = SubSeq(s, m + 1, Len(s)) /\ u = SubSeq(s, 1, m)
(* What is left of a tidy sequence that is cut is tidy.                    *)
LEMMA CutKeeps ==
  ASSUME NEW S, NEW s \in Seq(S), IsInjective(s), NEW m \in 0..Len(s), NEW late, NEW pending, Tidy(s, late, pending),
         NEW t, NEW u, CutAt(s, m, t, u)
  PROVE  /\ t \in Seq(S) /\ IsInjective(t) /\ Tidy(t, late, pending) /\ Len(t) = Len(s) - m
         /\ \A k \in 1..(Len(s) - m) : t[k] = s[m + k]
         /\ ToSet(t) = ToSet(s) \ ToSet(u) /\ ToSet(u) = {s[k] : k \in 1..m}
<1>1. PICK n : n = Len(s)
  OBVIOUS
<1>2. n \in Nat /\ DOMAIN s = 1..n /\ m \in 0..n /\ m + 1 \in 1..(n + 1)
  BY <1>1
<1>3. t = SubSeq(s, m + 1, n) /\ u = SubSeq(s, 1, m)
  BY <1>1 DEF CutAt
<1>4. t \in Seq(S) /\ Len(t) = n - m /\ DOMAIN t = 1..(n - m) /\ \A k \in 1..(n - m) : t[k] = s[m + k]
  <2>1. t \in Seq(S) /\ Len(t) = n - m
    BY <1>1, <1>2, <1>3
  <2>2. DOMAIN t = 1..(n - m)
    BY <2>1
  <2>3. ASSUME NEW k \in 1..(n - m) PROVE t[k] = s[m + k]
    <3>1. SubSeq(s, m + 1, n)[k] = s[(m + 1) + k - 1] /\ (m + 1) + k - 1 = m + k
      BY <1>1, <1>2
    <3> QED BY <1>3, <3>1
  <2> QED BY <2>1, <2>2, <2>3
<1>6. DOMAIN u = 1..m /\ \A k \in 1..m : u[k] = s[k]
  BY <1>1, <1>2, <1>3
<1>7. \A k, l \in 1..n : s[k] = s[l] => k = l
  BY <1>2 DEF IsInjective
<1>8. IsInjective(t)
  <2>1. ASSUME NEW k \in 1..(n - m), NEW l \in 1..(n - m), t[k] = t[l] PROVE k = l
    <3>1. m + k \in 1..n /\ m + l \in 1..n /\ s[m + k] = s[m + l]
      BY <1>2, <1>4, <2>1
    <3>2. m + k = m + l
      BY <1>7, <3>1
    <3> QED BY <1>2, <3>2
  <2> QED BY <1>4, <2>1 DEF IsInjective
<1>9. Tidy(t, late, pending)
  <2>1. ASSUME NEW k \in 1..(n - m), NEW l \in 1..(n - m), k <= l, t[k] \in late PROVE t[l] \in pending
    <3>1. m + k \in 1..n /\ m + l \in 1..n /\ m + k <= m + l
      BY <1>2, <2>1
    <3>2. s[m + k] \in late => s[m + l] \in pending
      BY <1>2, <3>1 DEF Tidy
    <3> QED BY <1>4, <2>1, <3>2
  <2> QED BY <1>4, <2>1 DEF Tidy
<1>10. ToSet(u) = {s[k] : k \in 1..m}
  BY <1>6 DEF ToSet
<1>11. ToSet(t) = ToSet(s) \ ToSet(u)
  <2>1. ASSUME NEW y \in ToSet(t) PROVE y \in ToSet(s) \ ToSet(u)
    <3>1. PICK k \in 1..(n - m) : y = s[m + k]
      BY <1>4 DEF ToSet
    <3>2. m + k \in 1..n
      BY <1>2
    <3>3. y \in ToSet(s)
      BY <1>2, <3>1, <3>2 DEF ToSet
    <3>4. \A l \in 1..m : s[l] # y
      <4>1. ASSUME NEW l \in 1..m, s[l] = y PROVE FALSE
        <5>1. l \in 1..n /\ l # m + k
          BY <1>2
        <5> QED BY <1>7, <3>1, <3>2, <4>1, <5>1
      <4> QED BY <4>1
    <3> QED BY <1>10, <3>3, <3>4
  <2>2. ASSUME NEW y \in ToSet(s), y \notin ToSet(u) PROVE y \in ToSet(t)
    <3>1. PICK k \in 1..n : y = s[k]
      BY <1>2 DEF ToSet
    <3>2. k \notin 1..m
      BY <1>10, <2>2, <3>1
    <3>3. k - m \in 1..(n - m) /\ m + (k - m) = k
      BY <1>2, <3>2
    <3>4. t[k - m] = y
      BY <1>4, <3>1, <3>3
    <3> QED BY <1>4, <3>3, <3>4 DEF ToSet
  <2> QED BY <2>1, <2>2
<1> QED BY <1>1, <1>4, <1>8, <1>9, <1>10, <1>11

-----------------------------------------------------------------------------
(* What becomes of the aggregator, field by field.                         *)

(* b is a without the rows of E.                                           *)
Lost(a, b, E) ==
  /\ b.added = a.added /\ b.completed = a.completed
  /\ DOMAIN b.current = DOMAIN a.current \ E /\ \A j \in DOMAIN b.current : b.current[j] = a.current[j]
  /\ DOMAIN b.last_sent = DOMAIN a.last_sent \ E /\ \A j \in DOMAIN b.last_sent : b.last_sent[j] = a.last_sent[j]
  /\ ToSet(b.dirty) = ToSet(a.dirty) \ E /\ (IsInjective(a.dirty) => IsInjective(b.dirty))

(* Dropped: the rows of E are lost from the maps.                          *)
LEMMA DroppedIs ==
  ASSUME NEW a \in Aggregator, NEW E
  PROVE  /\ Lost(a, Dropped(a, E), E)
         /\ Dropped(a, E).removed = a.removed /\ Dropped(a, E).done = a.done
<1>1. PICK c : c = Without(a.current, E)
  OBVIOUS
<1>2. PICK l : l = Without(a.last_sent, E)
  OBVIOUS
<1>3. PICK d : d = Sans(a.dirty, E)
  OBVIOUS
<1>4. PICK b : b = Dropped(a, E)
  OBVIOUS
<1>5. /\ b.added = a.added /\ b.completed = a.completed /\ b.removed = a.removed /\ b.done = a.done
      /\ b.current = c /\ b.last_sent = l /\ b.dirty = d
  BY <1>1, <1>2, <1>3, <1>4 DEF Dropped, Aggregator
<1>6. DOMAIN c = DOMAIN a.current \ E /\ \A j \in DOMAIN c : c[j] = a.current[j]
  BY <1>1 DEF Without, Restrict
<1>7. DOMAIN l = DOMAIN a.last_sent \ E /\ \A j \in DOMAIN l : l[j] = a.last_sent[j]
  BY <1>2 DEF Without, Restrict
<1>8. ToSet(d) = ToSet(a.dirty) \ E /\ (IsInjective(a.dirty) => IsInjective(d))
  BY <1>3, SansKeeps DEF Aggregator
<1> QED BY <1>4, <1>5, <1>6, <1>7, <1>8 DEF Lost

(* forget(): they are lost, and their removal is due.                      *)
LEMMA ForgetIs ==
  ASSUME NEW a \in Aggregator, NEW E \in SUBSET Items
  PROVE  /\ Lost(a, Forget(a, E), E)
         /\ Forget(a, E).removed = a.removed \cup E /\ Forget(a, E).done = Sans(a.done, E)
<1>1. PICK b : b = Dropped(a, E)
  OBVIOUS
<1>2. b \in Aggregator
  BY <1>1, DroppedTyped
<1>3. Lost(a, b, E) /\ b.removed = a.removed /\ b.done = a.done
  BY <1>1, DroppedIs
<1>4. PICK c : c = Forget(a, E)
  OBVIOUS
<1>5. /\ c.added = b.added /\ c.completed = b.completed /\ c.current = b.current
      /\ c.last_sent = b.last_sent /\ c.dirty = b.dirty
      /\ c.removed = b.removed \cup E /\ c.done = Sans(b.done, E)
  BY <1>1, <1>2, <1>4 DEF Forget, Aggregator
<1>6. Lost(a, c, E)
  BY <1>3, <1>5 DEF Lost
<1> QED BY <1>3, <1>4, <1>5, <1>6

(* The constants, for the steps of arithmetic.                             *)
LEMMA Bounds == MemDone \in Nat /\ BurstMax \in Nat /\ DeltaBudget \in Nat \ {0} /\ Seed \in Nat
BY FeedAssumption

(* The done window after a row has come to read r, and who fell out of it. *)
Windowed(a, i, r, d, E) ==
  \/ E = {} /\ r.status = "live" /\ d = Sans(a.done, {i})
  \/ /\ E = {} /\ r.status # "live" /\ d = a.done
     /\ i \in ToSet(a.done) \/ (i \in DOMAIN a.current /\ a.current[i].status = "done")
  \/ /\ r.status # "live" /\ i \notin ToSet(a.done)
     /\ \E queue, over :
          /\ queue = Append(a.done, i) /\ over = IF Len(queue) > MemDone THEN Len(queue) - MemDone ELSE 0
          /\ d = SubSeq(queue, over + 1, Len(queue)) /\ E = ToSet(SubSeq(queue, 1, over))

(* b is a with row i reading r, marked dirty, without the rows of E.       *)
Landed(a, i, r, b, E) ==
  /\ b.added = a.added /\ b.completed = a.completed /\ b.removed = a.removed
  /\ DOMAIN b.current = (DOMAIN a.current \cup {i}) \ E
  /\ \A j \in DOMAIN b.current : b.current[j] = IF j = i THEN r ELSE a.current[j]
  /\ DOMAIN b.last_sent = DOMAIN a.last_sent \ E /\ \A j \in DOMAIN b.last_sent : b.last_sent[j] = a.last_sent[j]
  /\ ToSet(b.dirty) = (ToSet(a.dirty) \ E) \cup {i} /\ (IsInjective(a.dirty) => IsInjective(b.dirty))
  /\ Windowed(a, i, r, b.done, E)

(* enter_done(): the row enters the window, what overflows it is lost.     *)
LEMMA EnterDoneIs ==
  ASSUME NEW a \in Aggregator, NEW i \in Items, i \notin ToSet(a.done), NEW queue, queue = Append(a.done, i),
         NEW over, over = IF Len(queue) > MemDone THEN Len(queue) - MemDone ELSE 0
  PROVE  /\ Lost(a, EnterDone(a, i), ToSet(SubSeq(queue, 1, over)))
         /\ EnterDone(a, i).removed = a.removed /\ EnterDone(a, i).done = SubSeq(queue, over + 1, Len(queue))
<1>1. queue \in Seq(Items) /\ over \in 0..Len(queue)
  BY FeedAssumption DEF Aggregator
<1>2. PICK d : d = SubSeq(queue, over + 1, Len(queue))
  OBVIOUS
<1>3. d \in Seq(Items)
  BY <1>1, <1>2, SubSeqTyped
<1>4. PICK b : b = [a EXCEPT !.done = d]
  OBVIOUS
<1>5. b \in Aggregator
  BY <1>3, <1>4 DEF Aggregator
<1>6. PICK E : E = ToSet(SubSeq(queue, 1, over))
  OBVIOUS
<1>7. EnterDone(a, i) = Dropped(b, E)
  BY <1>2, <1>4, <1>6 DEF EnterDone
<1>8. Lost(b, Dropped(b, E), E) /\ Dropped(b, E).removed = b.removed /\ Dropped(b, E).done = b.done
  BY <1>5, DroppedIs
<1>9. /\ b.added = a.added /\ b.completed = a.completed /\ b.removed = a.removed /\ b.done = d
      /\ b.current = a.current /\ b.last_sent = a.last_sent /\ b.dirty = a.dirty
  BY <1>4 DEF Aggregator
<1>10. Lost(a, Dropped(b, E), E)
  BY <1>8, <1>9 DEF Lost
<1> QED BY <1>2, <1>6, <1>7, <1>8, <1>9, <1>10

(* install() changes nothing, or the row has landed.                       *)
LEMMA InstallIs ==
  ASSUME NEW a \in Aggregator, NEW i \in Items, NEW r \in Row
  PROVE  \/ i \in DOMAIN a.current /\ a.current[i] = r /\ Install(a, i, r) = a
         \/ \E E : Landed(a, i, r, Install(a, i, r), E)
<1>1. CASE i \in DOMAIN a.current /\ a.current[i] = r
  BY <1>1 DEF Install
<1>2. ASSUME ~(i \in DOMAIN a.current /\ a.current[i] = r) PROVE \E E : Landed(a, i, r, Install(a, i, r), E)
  <2>1. PICK c : c = Put(a.current, i, r)
    OBVIOUS
  <2>2. c \in Rows /\ DOMAIN c = DOMAIN a.current \cup {i} /\ \A j \in DOMAIN c : c[j] = IF j = i THEN r ELSE a.current[j]
    <3>1. c \in Rows /\ DOMAIN c = DOMAIN a.current \cup {i}
      BY <2>1, PutRows DEF Aggregator
    <3>2. \A j \in DOMAIN a.current \cup {i} : c[j] = IF j = i THEN r ELSE a.current[j]
      BY <2>1 DEF Put
    <3> QED BY <3>1, <3>2
  <2>3. PICK kept : kept = [a EXCEPT !.current = c, !.stale = TRUE]
    OBVIOUS
  <2>4. kept \in Aggregator
    BY <2>2, <2>3 DEF Aggregator
  <2>5. /\ kept.added = a.added /\ kept.completed = a.completed /\ kept.removed = a.removed /\ kept.done = a.done
        /\ kept.current = c /\ kept.last_sent = a.last_sent /\ kept.dirty = a.dirty
    BY <2>3 DEF Aggregator
  <2>6. PICK was : was = IF i \in DOMAIN a.current THEN a.current[i].status ELSE "absent"
    OBVIOUS
  <2>7. PICK seen : seen = IF r.status = "live" THEN [kept EXCEPT !.done = Sans(@, {i})]
                           ELSE IF was = "done" THEN kept ELSE EnterDone(kept, i)
    OBVIOUS
  <2>8. PICK b : b = Install(a, i, r)
    OBVIOUS
  <2>9. b = [seen EXCEPT !.dirty = IF i \in ToSet(@) THEN @ ELSE Append(@, i)]
    BY <1>2, <2>1, <2>3, <2>6, <2>7, <2>8 DEF Install
  <2>10. \E E : Lost(kept, seen, E) /\ seen.removed = a.removed /\ Windowed(a, i, r, seen.done, E) /\ seen \in Aggregator
    <3>1. CASE r.status = "live"
      <4>1. PICK d : d = Sans(a.done, {i})
        OBVIOUS
      <4>2. d \in Seq(Items)
        BY <4>1, SansItems DEF Aggregator
      <4>3. seen = [kept EXCEPT !.done = d]
        BY <2>4, <2>5, <2>7, <3>1, <4>1 DEF Aggregator
      <4>4. seen \in Aggregator /\ seen.done = d
        BY <2>4, <4>2, <4>3 DEF Aggregator
      <4>5. Lost(kept, seen, {}) /\ seen.removed = a.removed
        BY <2>4, <2>5, <4>3 DEF Lost, Aggregator
      <4>6. Windowed(a, i, r, seen.done, {})
        BY <3>1, <4>1, <4>4 DEF Windowed
      <4> QED BY <4>4, <4>5, <4>6
    <3>2. CASE r.status # "live" /\ (was = "done" \/ i \in ToSet(a.done))
      <4>1. seen = kept
        BY <2>5, <2>7, <3>2 DEF EnterDone
      <4>2. Lost(kept, seen, {})
        BY <4>1 DEF Lost
      <4>3. i \in ToSet(a.done) \/ (i \in DOMAIN a.current /\ a.current[i].status = "done")
        BY <2>6, <3>2
      <4>4. Windowed(a, i, r, seen.done, {})
        BY <2>5, <3>2, <4>1, <4>3 DEF Windowed
      <4> QED BY <2>4, <2>5, <4>1, <4>2, <4>4
    <3>3. CASE r.status # "live" /\ was # "done" /\ i \notin ToSet(a.done)
      <4>1. seen = EnterDone(kept, i)
        BY <2>7, <3>3
      <4>2. PICK queue : queue = Append(a.done, i)
        OBVIOUS
      <4>3. PICK over : over = IF Len(queue) > MemDone THEN Len(queue) - MemDone ELSE 0
        OBVIOUS
      <4>4. PICK E : E = ToSet(SubSeq(queue, 1, over))
        OBVIOUS
      <4>5. Lost(kept, seen, E) /\ seen.removed = a.removed /\ seen.done = SubSeq(queue, over + 1, Len(queue))
        <5>1. i \notin ToSet(kept.done) /\ queue = Append(kept.done, i)
          BY <2>5, <3>3, <4>2
        <5> QED BY <2>4, <2>5, <4>1, <4>3, <4>4, <5>1, EnterDoneIs
      <4>6. Windowed(a, i, r, seen.done, E)
        BY <3>3, <4>2, <4>3, <4>4, <4>5 DEF Windowed
      <4>7. seen \in Aggregator
        BY <2>4, <4>1, EnterDoneTyped
      <4> QED BY <4>5, <4>6, <4>7
    <3>4. r.status \in {"live", "done"}
      BY DEF Row
    <3> QED BY <3>1, <3>2, <3>3
  <2>11. PICK E : Lost(kept, seen, E) /\ seen.removed = a.removed /\ Windowed(a, i, r, seen.done, E) /\ seen \in Aggregator
    BY <2>10
  <2>12. PICK q : q = IF i \in ToSet(seen.dirty) THEN seen.dirty ELSE Append(seen.dirty, i)
    OBVIOUS
  <2>13. ToSet(q) = ToSet(seen.dirty) \cup {i} /\ (IsInjective(seen.dirty) => IsInjective(q))
    BY <2>11, <2>12, SetMore, DistinctMore DEF Aggregator
  <2>14. /\ b.added = seen.added /\ b.completed = seen.completed /\ b.removed = seen.removed /\ b.done = seen.done
         /\ b.current = seen.current /\ b.last_sent = seen.last_sent /\ b.dirty = q
    BY <2>9, <2>11, <2>12 DEF Aggregator
  <2>15. Landed(a, i, r, b, E)
    <3>1. b.added = a.added /\ b.completed = a.completed /\ b.removed = a.removed
      BY <2>5, <2>11, <2>14 DEF Lost
    <3>2. DOMAIN b.current = (DOMAIN a.current \cup {i}) \ E
          /\ \A j \in DOMAIN b.current : b.current[j] = IF j = i THEN r ELSE a.current[j]
      BY <2>2, <2>5, <2>11, <2>14 DEF Lost
    <3>3. DOMAIN b.last_sent = DOMAIN a.last_sent \ E /\ \A j \in DOMAIN b.last_sent : b.last_sent[j] = a.last_sent[j]
      BY <2>5, <2>11, <2>14 DEF Lost
    <3>4. ToSet(b.dirty) = (ToSet(a.dirty) \ E) \cup {i} /\ (IsInjective(a.dirty) => IsInjective(b.dirty))
      BY <2>5, <2>11, <2>13, <2>14 DEF Lost
    <3> QED BY <2>11, <2>14, <3>1, <3>2, <3>3, <3>4 DEF Landed
  <2> QED BY <2>8, <2>15
<1> QED BY <1>1, <1>2

-----------------------------------------------------------------------------
(* What the aggregator knows of the rows t, whatever it has sent.          *)
Sound(a, t) ==
  /\ \A i \in DOMAIN a.current : i \in DOMAIN t /\ a.current[i] = t[i]
  /\ DOMAIN a.last_sent \subseteq DOMAIN a.current
  /\ \A i \in DOMAIN a.current :
       i \in ToSet(a.dirty) \/ (i \in DOMAIN a.last_sent /\ a.last_sent[i] = a.current[i])
  /\ \A i \in ToSet(a.done) : i \in DOMAIN a.current /\ a.current[i].status = "done"
  /\ IsInjective(a.done) /\ IsInjective(a.dirty)

(* What a client that has heard h makes of it: it has the baselines, and a *)
(* row the aggregator has let go is as it was left, or its removal is due. *)
Honest(a, t, h) ==
  /\ \A i \in DOMAIN a.last_sent : i \in DOMAIN h /\ h[i] = a.last_sent[i]
  /\ \A i \in DOMAIN h \ DOMAIN a.current : i \in a.removed \/ (i \in DOMAIN t /\ h[i] = t[i])

(* The rows such a client has an old state of.                             *)
Late(a, h) == {i \in DOMAIN a.current \cap DOMAIN h : h[i] # a.current[i]}

(* A sequence stays tidy when fewer rows are late and more are pending.    *)
LEMMA TidyFewer ==
  ASSUME NEW s, NEW late, NEW pending, Tidy(s, late, pending), NEW l2, NEW p2,
         \A x \in ToSet(s) : x \in l2 => x \in late, pending \subseteq p2
  PROVE  Tidy(s, l2, p2)
<1>1. \A k \in DOMAIN s : s[k] \in ToSet(s)
  BY DEF ToSet
<1> QED BY <1>1 DEF Tidy

(* The window repeats nothing, and a live row is not in it.                *)
LEMMA WindowedIs ==
  ASSUME NEW a \in Aggregator, NEW i \in Items, NEW r \in Row, NEW d, NEW E,
         IsInjective(a.done), Windowed(a, i, r, d, E)
  PROVE  /\ IsInjective(d) /\ ToSet(d) \subseteq (ToSet(a.done) \cup {i}) \ E
         /\ r.status = "live" => i \notin ToSet(d) /\ E = {}
<1>1. a.done \in Seq(Items)
  BY DEF Aggregator
<1>2. CASE E = {} /\ r.status = "live" /\ d = Sans(a.done, {i})
  <2>1. ToSet(d) = ToSet(a.done) \ {i} /\ IsInjective(d)
    BY <1>1, <1>2, SansKeeps
  <2> QED BY <1>2, <2>1
<1>3. CASE E = {} /\ r.status # "live" /\ d = a.done
  BY <1>3
<1>4. CASE r.status # "live" /\ i \notin ToSet(a.done)
           /\ \E queue, over :
                /\ queue = Append(a.done, i) /\ over = IF Len(queue) > MemDone THEN Len(queue) - MemDone ELSE 0
                /\ d = SubSeq(queue, over + 1, Len(queue)) /\ E = ToSet(SubSeq(queue, 1, over))
  <2>1. PICK queue, over :
          /\ queue = Append(a.done, i) /\ over = IF Len(queue) > MemDone THEN Len(queue) - MemDone ELSE 0
          /\ d = SubSeq(queue, over + 1, Len(queue)) /\ E = ToSet(SubSeq(queue, 1, over))
    BY <1>4
  <2>2. queue \in Seq(Items) /\ over \in 0..Len(queue)
    <3>1. queue = Append(a.done, i) /\ over = IF Len(queue) > MemDone THEN Len(queue) - MemDone ELSE 0
      BY <2>1
    <3>2. queue \in Seq(Items) /\ Len(queue) \in Nat
      BY <1>1, <3>1
    <3> QED BY <3>1, <3>2, Bounds
  <2>3. IsInjective(queue) /\ ToSet(queue) = ToSet(a.done) \cup {i}
    BY <1>1, <1>4, <2>1, DistinctMore, SetMore
  <2>4. Tidy(queue, {}, {})
    BY DEF Tidy
  <2>5. IsInjective(d) /\ ToSet(d) = ToSet(queue) \ E
    <3>1. PICK f : f = SubSeq(queue, 1, over)
      OBVIOUS
    <3>2. E = ToSet(f) /\ d = SubSeq(queue, over + 1, Len(queue))
      BY <2>1, <3>1
    <3>3. IsInjective(d) /\ ToSet(d) = ToSet(queue) \ ToSet(f)
      <4>1. CutAt(queue, over, d, f)
        BY <3>1, <3>2 DEF CutAt
      <4> QED BY <2>2, <2>3, <2>4, <4>1, CutKeeps
    <3> QED BY <3>2, <3>3
  <2> QED BY <1>4, <2>3, <2>5
<1> QED BY <1>2, <1>3, <1>4 DEF Windowed

(* The tables stay sound when the engine changes the row the same way.     *)
LEMMA InstallSound ==
  ASSUME NEW a \in Aggregator, NEW i \in Items, NEW r \in Row, NEW t, NEW u, Sound(a, t),
         i \in DOMAIN u, u[i] = r, \A j \in DOMAIN t \ {i} : j \in DOMAIN u /\ u[j] = t[j]
  PROVE  Sound(Install(a, i, r), u)
<1>1. PICK b : b = Install(a, i, r)
  OBVIOUS
<1>2. CASE i \in DOMAIN a.current /\ a.current[i] = r /\ b = a
  <2>1. \A j \in DOMAIN a.current : j \in DOMAIN u /\ a.current[j] = u[j]
    BY <1>2 DEF Sound
  <2> QED BY <1>1, <1>2, <2>1 DEF Sound
<1>3. CASE \E E : Landed(a, i, r, b, E)
  <2>1. PICK E : Landed(a, i, r, b, E)
    BY <1>3
  <2>2. DOMAIN b.current = (DOMAIN a.current \cup {i}) \ E
        /\ \A j \in DOMAIN b.current : b.current[j] = IF j = i THEN r ELSE a.current[j]
    BY <2>1 DEF Landed
  <2>3. DOMAIN b.last_sent = DOMAIN a.last_sent \ E /\ \A j \in DOMAIN b.last_sent : b.last_sent[j] = a.last_sent[j]
    BY <2>1 DEF Landed
  <2>4. \A j \in DOMAIN b.current : j \in DOMAIN u /\ b.current[j] = u[j]
    BY <2>2 DEF Sound
  <2>5. DOMAIN b.last_sent \subseteq DOMAIN b.current
    BY <2>2, <2>3 DEF Sound
  <2>6. \A j \in DOMAIN b.current :
          j \in ToSet(b.dirty) \/ (j \in DOMAIN b.last_sent /\ b.last_sent[j] = b.current[j])
    <3>1. ToSet(b.dirty) = (ToSet(a.dirty) \ E) \cup {i}
      BY <2>1 DEF Landed
    <3> QED BY <2>2, <2>3, <3>1 DEF Sound
  <2>7. IsInjective(b.done) /\ ToSet(b.done) \subseteq (ToSet(a.done) \cup {i}) \ E
        /\ (r.status = "live" => i \notin ToSet(b.done))
    <3>1. Windowed(a, i, r, b.done, E) /\ IsInjective(a.done)
      BY <2>1 DEF Landed, Sound
    <3> QED BY <3>1, WindowedIs
  <2>8. \A j \in ToSet(b.done) : j \in DOMAIN b.current /\ b.current[j].status = "done"
    <3>1. r.status \in {"live", "done"}
      BY DEF Row
    <3> QED BY <2>2, <2>7, <3>1 DEF Sound
  <2>9. IsInjective(b.dirty)
    BY <2>1 DEF Landed, Sound
  <2> QED BY <1>1, <2>4, <2>5, <2>6, <2>7, <2>8, <2>9 DEF Sound
<1> QED BY <1>1, <1>2, <1>3, InstallIs

(* A row that is running: the clients' idea of the others is untouched.    *)
LEMMA LiveHonest ==
  ASSUME NEW a \in Aggregator, NEW i \in Items, NEW r \in Row, NEW t, NEW u, NEW h, NEW pending,
         Sound(a, t), Honest(a, t, h), Tidy(a.done, Late(a, h), pending), r.status = "live",
         \A j \in DOMAIN t \ {i} : j \in DOMAIN u /\ u[j] = t[j]
  PROVE  /\ Honest(Install(a, i, r), u, h)
         /\ Tidy(Install(a, i, r).done, Late(Install(a, i, r), h), pending)
<1>1. PICK b : b = Install(a, i, r)
  OBVIOUS
<1>2. CASE i \in DOMAIN a.current /\ a.current[i] = r /\ b = a
  BY <1>1, <1>2 DEF Honest
<1>3. CASE \E E : Landed(a, i, r, b, E)
  <2>1. PICK E : Landed(a, i, r, b, E)
    BY <1>3
  <2>2. E = {} /\ b.done = Sans(a.done, {i})
    BY <2>1 DEF Landed, Windowed
  <2>3. DOMAIN b.current = DOMAIN a.current \cup {i}
        /\ \A j \in DOMAIN b.current : b.current[j] = IF j = i THEN r ELSE a.current[j]
    BY <2>1, <2>2 DEF Landed
  <2>4. DOMAIN b.last_sent = DOMAIN a.last_sent /\ \A j \in DOMAIN b.last_sent : b.last_sent[j] = a.last_sent[j]
    BY <2>1, <2>2 DEF Landed
  <2>5. Honest(b, u, h)
    <3>1. b.removed = a.removed
      BY <2>1 DEF Landed
    <3> QED BY <2>3, <2>4, <3>1 DEF Honest
  <2>6. PICK d : d = b.done
    OBVIOUS
  <2>7. Tidy(d, Late(a, h), pending) /\ ToSet(d) = ToSet(a.done) \ {i}
    BY <2>2, <2>6, SansTidy, SansKeeps DEF Aggregator
  <2>8. \A x \in ToSet(d) : x \in Late(b, h) => x \in Late(a, h)
    BY <2>3, <2>7 DEF Late
  <2>9. Tidy(d, Late(b, h), pending)
    BY <2>7, <2>8, TidyFewer
  <2> QED BY <1>1, <2>5, <2>6, <2>9
<1> QED BY <1>1, <1>2, <1>3, InstallIs

(* A row that has ended: it goes behind the others in the done window, and *)
(* what falls out in front has been told as it is.                         *)
LEMMA DoneHonest ==
  ASSUME NEW a \in Aggregator, NEW i \in Items, NEW r \in Row, NEW t, NEW u, NEW h, NEW pending,
         Sound(a, t), Honest(a, t, h), Tidy(a.done, Late(a, h), pending),
         IsFiniteSet(pending), Cardinality(pending \cup {i}) <= MemDone,
         r.status = "done", i \in DOMAIN t, t[i].status = "live",
         \A j \in DOMAIN t \ {i} : j \in DOMAIN u /\ u[j] = t[j]
  PROVE  LET b == Install(a, i, r) IN
         /\ Honest(b, u, h) /\ Tidy(b.done, Late(b, h), pending \cup {i})
         /\ Len(b.done) > 0 /\ b.done[Len(b.done)] = i
<1>1. PICK b : b = Install(a, i, r)
  OBVIOUS
<1>2. i \in DOMAIN a.current => a.current[i].status = "live"
  BY DEF Sound
<1>3. i \notin ToSet(a.done)
  BY <1>2 DEF Sound
<1>4. PICK E : Landed(a, i, r, b, E)
  BY <1>1, <1>2, InstallIs
<1>5. PICK queue, over :
        /\ queue = Append(a.done, i) /\ over = IF Len(queue) > MemDone THEN Len(queue) - MemDone ELSE 0
        /\ b.done = SubSeq(queue, over + 1, Len(queue)) /\ E = ToSet(SubSeq(queue, 1, over))
  BY <1>2, <1>3, <1>4 DEF Landed, Windowed
<1>a. queue = Append(a.done, i) /\ a.done \in Seq(Items)
  BY <1>5 DEF Aggregator
<1>6. PICK n : n = Len(queue)
  OBVIOUS
<1>b. over = IF n > MemDone THEN n - MemDone ELSE 0
  BY <1>5, <1>6
<1>7. queue \in Seq(Items) /\ n \in Nat /\ n = Len(a.done) + 1 /\ queue[n] = i /\ over \in 0..n /\ DOMAIN queue = 1..n
      /\ n > 0
  <2>1. queue \in Seq(Items) /\ Len(a.done) \in Nat /\ n = Len(a.done) + 1 /\ queue[n] = i /\ DOMAIN queue = 1..n
    BY <1>a, <1>6
  <2> QED BY <2>1, <1>b, Bounds
<1>8. ToSet(queue) = ToSet(a.done) \cup {i} /\ IsInjective(queue)
  BY <1>3, <1>a, SetMore, DistinctMore DEF Sound
<1>9. PICK late : late = Late(a, h) \cup {i}
  OBVIOUS
<1>10. PICK p : p = pending \cup {i}
  OBVIOUS
<1>11. Tidy(queue, late, p)
  <2>1. Tidy(a.done, late, p)
    BY <1>3, <1>9, <1>10, TidyFewer
  <2> QED BY <1>a, <1>10, <2>1, TidyMore
<1>12. IsFiniteSet(p) /\ Cardinality(p) <= MemDone /\ Cardinality(p) \in Nat \ {0}
  <2>1. IsFiniteSet(p) /\ Cardinality(p) \in Nat
    BY <1>10, FS_AddElement, FS_CardinalityType
  <2>2. Cardinality(p) # 0
    BY <1>10, <2>1, FS_EmptySet
  <2> QED BY <1>10, <2>1, <2>2
<1>13. over < n
  BY <1>7, <1>12, <1>b, Bounds
<1>14. \A k \in 1..over : queue[k] \notin late
  <2>1. ASSUME NEW k \in 1..over, queue[k] \in late PROVE FALSE
    <3>1. k \in 1..Len(queue)
      BY <1>6, <1>7
    <3>2. Len(queue) - k + 1 <= Cardinality(p)
      BY <1>7, <1>8, <1>11, <1>12, <2>1, <3>1, FewAreLate
    <3> QED BY <1>6, <1>7, <1>12, <1>b, <3>2, Bounds
  <2> QED BY <2>1
<1>15. PICK d : d = b.done
  OBVIOUS
<1>16. /\ d \in Seq(Items) /\ Tidy(d, late, p) /\ Len(d) = n - over /\ \A k \in 1..(n - over) : d[k] = queue[over + k]
       /\ E = {queue[k] : k \in 1..over}
  <2>1. PICK f : f = SubSeq(queue, 1, over)
    OBVIOUS
  <2>2. E = ToSet(f) /\ d = SubSeq(queue, over + 1, Len(queue)) /\ over \in 0..Len(queue)
    BY <1>5, <1>6, <1>7, <1>15, <2>1
  <2>3. /\ d \in Seq(Items) /\ Tidy(d, late, p) /\ Len(d) = Len(queue) - over
        /\ \A k \in 1..(Len(queue) - over) : d[k] = queue[over + k]
        /\ ToSet(f) = {queue[k] : k \in 1..over}
    <3>1. CutAt(queue, over, d, f) /\ over \in 0..Len(queue)
      BY <2>1, <2>2 DEF CutAt
    <3> QED BY <1>7, <1>8, <1>11, <3>1, CutKeeps
  <2> QED BY <1>6, <2>2, <2>3
<1>17. Len(d) > 0 /\ d[Len(d)] = i
  <2>1. n - over \in 1..(n - over) /\ over + (n - over) = n
    BY <1>7, <1>13
  <2> QED BY <1>7, <1>13, <1>16, <2>1
<1>18. DOMAIN b.current = (DOMAIN a.current \cup {i}) \ E
       /\ \A j \in DOMAIN b.current : b.current[j] = IF j = i THEN r ELSE a.current[j]
  BY <1>4 DEF Landed
<1>19. Honest(b, u, h)
  <2>1. \A j \in DOMAIN b.last_sent : j \in DOMAIN h /\ h[j] = b.last_sent[j]
    BY <1>4 DEF Landed, Honest
  <2>2. ASSUME NEW j \in DOMAIN h \ DOMAIN b.current
        PROVE  j \in b.removed \/ (j \in DOMAIN u /\ h[j] = u[j])
    <3>1. b.removed = a.removed
      BY <1>4 DEF Landed
    <3>2. CASE j \in E
      <4>1. j \notin late /\ j \in ToSet(queue)
        <5>1. PICK k \in 1..over : j = queue[k]
          BY <1>16, <3>2
        <5>2. k \in 1..n /\ DOMAIN queue = 1..n
          BY <1>7
        <5> QED BY <1>14, <5>1, <5>2 DEF ToSet
      <4>2. j \in ToSet(a.done) /\ j # i /\ j \notin Late(a, h)
        BY <1>8, <1>9, <4>1
      <4>3. j \in DOMAIN a.current /\ j \in DOMAIN t /\ a.current[j] = t[j]
        BY <4>2 DEF Sound
      <4>4. h[j] = a.current[j]
        BY <4>2, <4>3 DEF Late
      <4> QED BY <4>2, <4>3, <4>4
    <3>3. CASE j \notin E
      BY <1>18, <3>1, <3>3 DEF Honest
    <3> QED BY <3>2, <3>3
  <2> QED BY <2>1, <2>2 DEF Honest
<1>20. Tidy(d, Late(b, h), p)
  <2>1. \A x \in ToSet(d) : x \in Late(b, h) => x \in late
    BY <1>9, <1>18 DEF Late
  <2> QED BY <1>16, <2>1, TidyFewer
<1> QED BY <1>1, <1>10, <1>15, <1>17, <1>19, <1>20

(* They stay sound through the rows of a recovery.                         *)
LEMMA InstalledSound ==
  ASSUME NEW a \in Aggregator, NEW rows \in Rows, NEW ids \in Seq(DOMAIN rows), Sound(a, rows)
  PROVE  LET b == Installed(a, ids, rows) IN
         /\ Sound(b, rows) /\ DOMAIN b.last_sent \subseteq DOMAIN a.last_sent
         /\ b.added = a.added /\ b.completed = a.completed /\ b.removed = a.removed
<1> DEFINE n == Len(ids)
           Keeps(b) == /\ b \in Aggregator /\ Sound(b, rows) /\ DOMAIN b.last_sent \subseteq DOMAIN a.last_sent
                       /\ b.added = a.added /\ b.completed = a.completed /\ b.removed = a.removed
<1>1. n \in Nat
  OBVIOUS
<1>2. PICK f : Installing(f, a, ids, rows, n) /\ Installed(a, ids, rows) = f[n]
  BY InstalledRuns
<1> DEFINE Good == {k \in 0..n : Keeps(f[k])}
<1>3. 0 \in Good
  <2>1. f[0] = a
    BY <1>1, <1>2 DEF Installing
  <2> QED BY <1>1, <2>1
<1>4. ASSUME NEW k \in 1..n, k - 1 \in Good PROVE k \in Good
  <2>1. PICK i : i = ids[k]
    OBVIOUS
  <2>2. i \in DOMAIN rows
    BY <1>1, <2>1
  <2>3. i \in Items /\ rows[i] \in Row
    BY <2>2, FcnsAre, RowsAre
  <2>4. PICK b : b = f[k - 1]
    OBVIOUS
  <2>5. Keeps(b)
    BY <1>4, <2>4
  <2>6. f[k] = Install(b, i, rows[i])
    BY <1>1, <1>2, <2>1, <2>4 DEF Installing
  <2>7. PICK c : c = Install(b, i, rows[i])
    OBVIOUS
  <2>8. c \in Aggregator
    BY <2>3, <2>5, <2>7, InstallTyped
  <2>9. Sound(c, rows)
    BY <2>2, <2>3, <2>5, <2>7, InstallSound
  <2>10. /\ DOMAIN c.last_sent \subseteq DOMAIN b.last_sent
         /\ c.added = b.added /\ c.completed = b.completed /\ c.removed = b.removed
    <3>1. c = b \/ \E E : Landed(b, i, rows[i], c, E)
      BY <2>3, <2>5, <2>7, InstallIs
    <3> QED BY <3>1 DEF Landed
  <2>11. Keeps(c)
    BY <2>5, <2>8, <2>9, <2>10
  <2> HIDE DEF Keeps
  <2> QED BY <1>1, <2>6, <2>7, <2>11
<1> HIDE DEF Good
<1>5. \A k \in 0..n : k \in Good
  BY <1>1, <1>3, <1>4, UpTo
<1>6. Keeps(f[n])
  BY <1>1, <1>5 DEF Good
<1> QED BY <1>2, <1>6

-----------------------------------------------------------------------------
(* What one flush tells.                                                   *)

(* A patch written over the old row is the new row.                        *)
LEMMA RowPatched ==
  ASSUME NEW old \in Row, NEW new \in Row
  PROVE  /\ Atop(Changed(old, new), old) = new
         /\ DOMAIN Changed(old, new) = {} => old = new
<1>1. /\ IsFcn(old) /\ DOMAIN old = {"status", "value"} /\ IsFcn(new) /\ DOMAIN new = {"status", "value"}
  BY DEF Row, IsFcn
<1>2. PICK c : c = Changed(old, new)
  OBVIOUS
<1>3. DOMAIN c = {f \in {"status", "value"} : old[f] # new[f]} /\ \A f \in DOMAIN c : c[f] = new[f]
  BY <1>1, <1>2 DEF Changed, Restrict
<1>4. PICK p : p = Atop(c, old)
  OBVIOUS
<1>5. IsFcn(p) /\ DOMAIN p = DOMAIN c \cup DOMAIN old
      /\ \A f \in DOMAIN p : p[f] = IF f \in DOMAIN c THEN c[f] ELSE old[f]
  BY <1>4 DEF Atop, IsFcn
<1>6. p = new
  <2>1. DOMAIN p = DOMAIN new
    BY <1>1, <1>3, <1>5
  <2>2. \A f \in DOMAIN p : p[f] = new[f]
    BY <1>1, <1>3, <1>5
  <2> QED BY <1>1, <1>5, <2>1, <2>2, FcnEqual
<1>7. ASSUME DOMAIN c = {} PROVE old = new
  <2>1. \A f \in DOMAIN old : old[f] = new[f]
    BY <1>1, <1>3, <1>7
  <2> QED BY <1>1, <2>1, FcnEqual
<1> QED BY <1>2, <1>4, <1>6, <1>7

(* e is rows with what the aggregator has of S written over it.            *)
Shown(a, rows, S, e) ==
  /\ IsFcn(e) /\ DOMAIN e = DOMAIN rows \cup (S \cap DOMAIN a.current)
  /\ \A i \in DOMAIN e : e[i] = IF i \in S \cap DOMAIN a.current THEN a.current[i] ELSE rows[i]

(* One more frame of whole rows.                                           *)
LEMMA ShownMore ==
  ASSUME NEW a \in Aggregator, NEW rows, NEW S, NEW T, NEW e, Shown(a, rows, S, e)
  PROVE  /\ Shown(a, rows, S \cup T, Apply(e, Body("added", Views(a, T))))
         /\ Shown(a, rows, S \cup T, Apply(e, Body("completed", Views(a, T))))
<1>1. PICK v : v = Views(a, T)
  OBVIOUS
<1>2. DOMAIN v = T \cap DOMAIN a.current /\ \A i \in DOMAIN v : v[i] = a.current[i]
  BY <1>1 DEF Views, Restrict
<1>3. PICK p : p = Atop(v, e)
  OBVIOUS
<1>4. IsFcn(p) /\ DOMAIN p = DOMAIN v \cup DOMAIN e
      /\ \A i \in DOMAIN p : p[i] = IF i \in DOMAIN v THEN v[i] ELSE e[i]
  BY <1>3 DEF Atop, IsFcn
<1>5. Shown(a, rows, S \cup T, p)
  <2>1. DOMAIN p = DOMAIN rows \cup ((S \cup T) \cap DOMAIN a.current)
    BY <1>2, <1>4 DEF Shown
  <2>2. \A i \in DOMAIN p : p[i] = IF i \in (S \cup T) \cap DOMAIN a.current THEN a.current[i] ELSE rows[i]
    BY <1>2, <1>4 DEF Shown
  <2> QED BY <1>4, <2>1, <2>2 DEF Shown
<1>6. Apply(e, Body("added", v)) = p /\ Apply(e, Body("completed", v)) = p
  BY <1>3 DEF Apply, Body
<1> QED BY <1>1, <1>5, <1>6

(* The frames of the announcements, one per queued event.                  *)
Tellings(a, ann) == [g \in DOMAIN ann |-> Body("added", Views(a, ann[g]))]

(* The frames of the rows announced, one for each group.                   *)
LEMMA TellingsAre ==
  ASSUME NEW a \in Aggregator, NEW ann \in Seq(SUBSET Items)
  PROVE  /\ Tellings(a, ann) \in Seq(Frame)
         /\ \A T \in SUBSET Items :
              Tellings(a, Append(ann, T)) = Append(Tellings(a, ann), Body("added", Views(a, T)))
<1>1. \A S : Body("added", Views(a, S)) \in Frame
  BY ViewsTyped DEF Body, Frame
<1>2. ASSUME NEW x \in Seq(SUBSET Items)
      PROVE  /\ Tellings(a, x) \in Seq(Frame) /\ Len(Tellings(a, x)) = Len(x)
             /\ \A g \in 1..Len(x) : Tellings(a, x)[g] = Body("added", Views(a, x[g]))
  <2>1. Len(x) \in Nat /\ DOMAIN x = 1..Len(x)
    OBVIOUS
  <2>2. Tellings(a, x) = [g \in 1..Len(x) |-> Body("added", Views(a, x[g]))]
    BY <2>1 DEF Tellings
  <2>3. Tellings(a, x) \in [1..Len(x) -> Frame]
    BY <1>1, <2>2
  <2> QED BY <2>1, <2>2, <2>3
<1>3. ASSUME NEW T \in SUBSET Items
      PROVE  Tellings(a, Append(ann, T)) = Append(Tellings(a, ann), Body("added", Views(a, T)))
  <2>1. PICK x : x = Append(ann, T)
    OBVIOUS
  <2>2. PICK n : n = Len(ann)
    OBVIOUS
  <2>3. x \in Seq(SUBSET Items) /\ n \in Nat /\ Len(x) = n + 1 /\ x[n + 1] = T /\ \A g \in 1..n : x[g] = ann[g]
    BY <2>1, <2>2
  <2>4. PICK u : u = Tellings(a, ann)
    OBVIOUS
  <2>5. PICK v : v = Tellings(a, x)
    OBVIOUS
  <2>6. PICK b : b = Body("added", Views(a, T))
    OBVIOUS
  <2>7. u \in Seq(Frame) /\ Len(u) = n /\ \A g \in 1..n : u[g] = Body("added", Views(a, ann[g]))
    BY <1>2, <2>2, <2>4
  <2>8. v \in Seq(Frame) /\ Len(v) = n + 1 /\ \A g \in 1..(n + 1) : v[g] = Body("added", Views(a, x[g]))
    BY <1>2, <2>3, <2>5
  <2>9. \A g \in 1..n : v[g] = u[g]
    BY <2>3, <2>7, <2>8
  <2>10. v[n + 1] = b
    BY <2>3, <2>6, <2>8
  <2>11. b \in Frame
    BY <1>1, <2>6
  <2>12. v = Append(u, b)
    BY <2>3, <2>7, <2>8, <2>9, <2>10, <2>11
  <2> QED BY <2>1, <2>4, <2>5, <2>6, <2>12
<1> QED BY <1>2, <1>3

(* What a client has after the frames of the rows announced.               *)
LEMMA AnnouncingShows ==
  ASSUME NEW a \in Aggregator, NEW rows, IsFcn(rows), NEW ann \in Seq(SUBSET Items)
  PROVE  Shown(a, rows, UNION ToSet(ann), ApplyAll(rows, Tellings(a, ann)))
<1> DEFINE Good == {t \in Seq(SUBSET Items) : Shown(a, rows, UNION ToSet(t), ApplyAll(rows, Tellings(a, t)))}
<1>1. <<>> \in Good
  <2>1. PICK e : e = <<>>
    OBVIOUS
  <2>2. DOMAIN e = {} /\ ToSet(e) = {} /\ e \in Seq(SUBSET Items)
    BY <2>1, SetNone
  <2>3. Tellings(a, e) = <<>>
    BY <2>2 DEF Tellings
  <2>4. ApplyAll(rows, Tellings(a, e)) = rows
    BY <2>3, ApplyAllNone
  <2>5. Shown(a, rows, {}, rows)
    BY DEF Shown
  <2>6. UNION ToSet(e) = {}
    BY <2>2
  <2> QED BY <2>1, <2>2, <2>4, <2>5, <2>6
<1>2. ASSUME NEW t \in Seq(SUBSET Items), NEW x \in SUBSET Items, t \in Good PROVE Append(t, x) \in Good
  <2>1. PICK u : u = Append(t, x)
    OBVIOUS
  <2>2. u \in Seq(SUBSET Items) /\ ToSet(u) = ToSet(t) \cup {x}
    BY <2>1, SetMore
  <2>3. UNION ToSet(u) = (UNION ToSet(t)) \cup x
    BY <2>2
  <2>4. PICK e : e = ApplyAll(rows, Tellings(a, t))
    OBVIOUS
  <2>5. Shown(a, rows, UNION ToSet(t), e)
    BY <1>2, <2>4
  <2>6. PICK b : b = Body("added", Views(a, x))
    OBVIOUS
  <2>7. b \in Frame
    BY <2>6, ViewsTyped DEF Body, Frame
  <2>8. Tellings(a, u) = Append(Tellings(a, t), b) /\ Tellings(a, t) \in Seq(Frame)
    BY <2>1, <2>6, TellingsAre
  <2>9. ApplyAll(rows, Tellings(a, u)) = Apply(e, b)
    BY <2>4, <2>7, <2>8, ApplyAllMore
  <2>10. Shown(a, rows, UNION ToSet(u), Apply(e, b))
    BY <2>3, <2>5, <2>6, ShownMore
  <2> QED BY <2>1, <2>2, <2>9, <2>10
<1> HIDE DEF Good
<1>3. ann \in Good
  BY <1>1, <1>2, SeqInduction
<1> QED BY <1>3 DEF Good

(* The rows a flush sends whole, the rows it patches.                      *)
LEMMA WholeIs ==
  ASSUME NEW a \in Aggregator
  PROVE  /\ DOMAIN Whole(a) = (a.completed \cup UNION ToSet(Announced(a))) \cap DOMAIN a.current
         /\ \A i \in DOMAIN Whole(a) : Whole(a)[i] = a.current[i]
BY DEF Whole, Views, Restrict

(* A patch turns the baseline into the row; a row without one is at its    *)
(* baseline.                                                               *)
LEMMA PatchesAre ==
  ASSUME NEW a \in Aggregator
  PROVE  /\ DOMAIN Patches(a) \subseteq Held(a)
         /\ \A i \in DOMAIN Patches(a) : Atop(Patches(a)[i], a.last_sent[i]) = a.current[i]
         /\ \A i \in Held(a) \ DOMAIN Patches(a) : a.last_sent[i] = a.current[i]
<1>1. /\ DOMAIN a.current \subseteq Items /\ \A i \in DOMAIN a.current : a.current[i] \in Row
      /\ DOMAIN a.last_sent \subseteq Items /\ \A i \in DOMAIN a.last_sent : a.last_sent[i] \in Row
  BY FcnsAre, RowsAre DEF Aggregator
<1>2. Held(a) \subseteq DOMAIN a.current \cap DOMAIN a.last_sent
  BY DrainedTyped
<1>3. PICK diff : diff = [i \in Held(a) |-> Changed(a.last_sent[i], a.current[i])]
  OBVIOUS
<1>4. DOMAIN diff = Held(a) /\ \A i \in Held(a) : diff[i] = Changed(a.last_sent[i], a.current[i])
  BY <1>3
<1>5. PICK p : p = Patches(a)
  OBVIOUS
<1>6. DOMAIN p = {i \in Held(a) : diff[i] # <<>>} /\ \A i \in DOMAIN p : p[i] = diff[i]
  BY <1>3, <1>4, <1>5 DEF Patches, Restrict
<1>7. ASSUME NEW i \in DOMAIN p PROVE Atop(p[i], a.last_sent[i]) = a.current[i]
  <2>1. i \in Held(a) /\ p[i] = Changed(a.last_sent[i], a.current[i])
    BY <1>4, <1>6
  <2>2. a.last_sent[i] \in Row /\ a.current[i] \in Row
    BY <1>1, <1>2, <2>1
  <2> QED BY <2>1, <2>2, RowPatched
<1>8. ASSUME NEW i \in Held(a) \ DOMAIN p PROVE a.last_sent[i] = a.current[i]
  <2>1. diff[i] = <<>>
    BY <1>6
  <2>2. DOMAIN diff[i] = {}
    BY <2>1, SetNone
  <2>3. a.last_sent[i] \in Row /\ a.current[i] \in Row
    BY <1>1, <1>2
  <2>4. DOMAIN Changed(a.last_sent[i], a.current[i]) = {}
    BY <1>4, <2>2
  <2> QED BY <2>3, <2>4, RowPatched
<1>9. DOMAIN p \subseteq Held(a)
  BY <1>6
<1> QED BY <1>5, <1>7, <1>8, <1>9

(* What a client that had heard h has heard after the batch.               *)
Told(a, h, e) ==
  /\ IsFcn(e) /\ DOMAIN e = (DOMAIN h \cup DOMAIN Whole(a)) \ a.removed
  /\ \A i \in DOMAIN e \ DOMAIN Patches(a) : e[i] = IF i \in DOMAIN Whole(a) THEN a.current[i] ELSE h[i]
  /\ \A i \in DOMAIN e \cap DOMAIN Patches(a) :
       e[i] = Atop(Patches(a)[i], IF i \in DOMAIN Whole(a) THEN a.current[i] ELSE h[i])

(* The frames of a batch, in their order: added, completed, removed,       *)
(* delta.                                                                  *)
LEMMA BatchTells ==
  ASSUME NEW a \in Aggregator, NEW h \in Rows
  PROVE  Told(a, h, ApplyAll(h, Batch(a)))
<1>1. PICK ann : ann = Announced(a)
  OBVIOUS
<1>2. ann \in Seq(SUBSET Items)
  BY <1>1, AnnouncedTyped
<1>3. PICK first : first = Tellings(a, ann)
  OBVIOUS
<1>4. PICK c : c = Body("completed", Views(a, a.completed))
  OBVIOUS
<1>5. PICK r : r = Body("removed", [i \in a.removed |-> <<>>])
  OBVIOUS
<1>6. PICK p : p = Patches(a)
  OBVIOUS
<1>7. PICK d : d = Body("delta", p)
  OBVIOUS
<1>8. first \in Seq(Frame)
  BY <1>2, <1>3, TellingsAre
<1>9. c \in Frame /\ d \in Frame
  BY <1>4, <1>6, <1>7, ViewsTyped, PatchesTyped DEF Body, Frame
<1>10. r \in Frame
  <2>1. PICK m : m = [i \in a.removed |-> <<>>]
    OBVIOUS
  <2>2. PICK e : e = <<>>
    OBVIOUS
  <2>3. IsFcn(m) /\ DOMAIN m \subseteq Items /\ \A i \in DOMAIN m : m[i] \in {e}
    BY <2>1, <2>2 DEF IsFcn, Aggregator
  <2>4. m \in Fcns(Items, {e})
    BY <2>3, FcnsAre
  <2> QED BY <1>5, <2>1, <2>2, <2>4 DEF Body, Frame
<1>11. PICK s1 : s1 = Append(first, c)
  OBVIOUS
<1>12. PICK s2 : s2 = Append(s1, r)
  OBVIOUS
<1>13. PICK s3 : s3 = Append(s2, d)
  OBVIOUS
<1>14. s1 \in Seq(Frame) /\ s2 \in Seq(Frame) /\ s3 \in Seq(Frame)
  BY <1>8, <1>9, <1>10, <1>11, <1>12, <1>13
<1>15. Batch(a) = Carrying(s3)
  <2>1. first \o <<c, r, d>> = s3
    BY <1>8, <1>9, <1>10, <1>11, <1>12, <1>13
  <2> QED BY <1>1, <1>3, <1>4, <1>5, <1>6, <1>7, <2>1 DEF Batch, Tellings
<1>16. IsFcn(h)
  BY FcnsAre, RowsAre
<1>17. ApplyAll(h, Batch(a)) = ApplyAll(h, s3)
  <2>1. \A b \in Frame : b.kind \in BodyKinds
    BY FrameKinds
  <2> QED BY <1>14, <1>15, <1>16, <2>1, CarryingIsEnough
<1>18. PICK e0 : e0 = ApplyAll(h, first)
  OBVIOUS
<1>19. PICK e1 : e1 = Apply(e0, c)
  OBVIOUS
<1>20. PICK e2 : e2 = Apply(e1, r)
  OBVIOUS
<1>21. PICK e3 : e3 = Apply(e2, d)
  OBVIOUS
<1>22. ApplyAll(h, s3) = e3
  <2>1. ApplyAll(h, s1) = e1
    BY <1>8, <1>9, <1>11, <1>18, <1>19, ApplyAllMore
  <2>2. ApplyAll(h, s2) = e2
    BY <1>10, <1>12, <1>14, <1>20, <2>1, ApplyAllMore
  <2> QED BY <1>9, <1>13, <1>14, <1>21, <2>2, ApplyAllMore
<1>23. Shown(a, h, UNION ToSet(ann), e0)
  BY <1>2, <1>3, <1>16, <1>18, AnnouncingShows
<1>24. Shown(a, h, (UNION ToSet(ann)) \cup a.completed, e1)
  BY <1>4, <1>19, <1>23, ShownMore
<1>25. IsFcn(e1) /\ DOMAIN e1 = DOMAIN h \cup DOMAIN Whole(a)
       /\ \A i \in DOMAIN e1 : e1[i] = IF i \in DOMAIN Whole(a) THEN a.current[i] ELSE h[i]
  <2>1. DOMAIN Whole(a) = ((UNION ToSet(ann)) \cup a.completed) \cap DOMAIN a.current
    BY <1>1, WholeIs
  <2> QED BY <1>24, <2>1 DEF Shown
<1>26. DOMAIN e2 = DOMAIN e1 \ a.removed /\ \A i \in DOMAIN e2 : e2[i] = e1[i]
  <2>1. r.kind = "removed" /\ Ids(r) = a.removed
    BY <1>5 DEF Body, Ids
  <2>2. e2 = Without(e1, a.removed)
    BY <1>20, <2>1 DEF Apply
  <2> QED BY <2>2 DEF Without, Restrict
<1>27. IsFcn(e3) /\ DOMAIN e3 = DOMAIN e2
       /\ \A i \in DOMAIN e3 : e3[i] = IF i \in DOMAIN p THEN Atop(p[i], e2[i]) ELSE e2[i]
  <2>1. d.kind = "delta" /\ Ids(d) = DOMAIN p /\ d.rows = p
    BY <1>7 DEF Body, Ids
  <2>2. PICK q : q = Restrict(p, DOMAIN p \cap DOMAIN e2)
    OBVIOUS
  <2>3. DOMAIN q = DOMAIN p \cap DOMAIN e2 /\ \A i \in DOMAIN q : q[i] = p[i]
    BY <2>2 DEF Restrict
  <2>4. e3 = Over(q, e2)
    BY <1>21, <2>1, <2>2 DEF Apply
  <2> QED BY <2>3, <2>4 DEF Over, IsFcn
<1>28. Told(a, h, e3)
  <2>1. DOMAIN e3 = (DOMAIN h \cup DOMAIN Whole(a)) \ a.removed
    BY <1>25, <1>26, <1>27
  <2>2. \A i \in DOMAIN e3 \ DOMAIN p : e3[i] = IF i \in DOMAIN Whole(a) THEN a.current[i] ELSE h[i]
    BY <1>25, <1>26, <1>27
  <2>3. \A i \in DOMAIN e3 \cap DOMAIN p :
          e3[i] = Atop(p[i], IF i \in DOMAIN Whole(a) THEN a.current[i] ELSE h[i])
    BY <1>25, <1>26, <1>27
  <2> QED BY <1>6, <1>27, <2>1, <2>2, <2>3 DEF Told
<1> QED BY <1>17, <1>22, <1>28

(* What a flush leaves dirty and what it drains.                           *)
LEMMA DrainedAre ==
  ASSUME NEW a \in Aggregator
  PROVE  /\ Drained(a) \subseteq ToSet(a.dirty) \ DOMAIN Whole(a)
         /\ \A i \in Drained(a) \cap DOMAIN a.current : i \in DOMAIN a.last_sent
<1>1. PICK w : w = Whole(a)
  OBVIOUS
<1>2. PICK left : left = Sans(a.dirty, DOMAIN w)
  OBVIOUS
<1>3. left \in Seq(Items) /\ ToSet(left) = ToSet(a.dirty) \ DOMAIN w
  BY <1>2, SansItems, SansKeeps DEF Aggregator
<1>4. Rebased(a, w).dirty = left
  BY <1>2 DEF Rebased, Aggregator
<1>5. PICK n : n = IF Len(left) < DeltaBudget THEN Len(left) ELSE DeltaBudget
  OBVIOUS
<1>6. n \in 0..Len(left) /\ 1 \in 1..(Len(left) + 1)
  BY <1>3, <1>5, Bounds
<1>7. Drained(a) = ToSet(SubSeq(left, 1, n))
  BY <1>1, <1>4, <1>5 DEF Drained
<1>8. ToSet(SubSeq(left, 1, n)) \subseteq ToSet(left)
  <2>1. PICK u : u = SubSeq(left, 1, n)
    OBVIOUS
  <2>2. DOMAIN u = 1..n /\ \A k \in 1..n : u[k] = left[k] /\ k \in DOMAIN left
    BY <1>3, <1>6, <2>1
  <2> QED BY <2>1, <2>2 DEF ToSet
<1>9. ASSUME NEW i \in Drained(a) \cap DOMAIN a.current PROVE i \in DOMAIN a.last_sent
  <2>1. i \in ToSet(a.dirty) \cap DOMAIN a.current /\ i \notin DOMAIN w
    BY <1>3, <1>7, <1>8
  <2>2. i \notin a.completed \cup UNION ToSet(Announced(a))
    BY <1>1, <2>1, WholeIs
  <2>3. i \notin Orphans(a)
    <3>1. CASE Orphans(a) = {}
      BY <3>1
    <3>2. CASE Orphans(a) # {}
      <4>1. ToSet(Announced(a)) = ToSet(a.added) \cup {Orphans(a)}
        BY <3>2, SetMore DEF Announced, Aggregator
      <4> QED BY <2>2, <4>1
    <3> QED BY <3>1, <3>2
  <2>4. UNION ToSet(a.added) \subseteq UNION ToSet(Announced(a))
    <3>1. CASE Orphans(a) = {}
      BY <3>1 DEF Announced
    <3>2. CASE Orphans(a) # {}
      <4>1. ToSet(Announced(a)) = ToSet(a.added) \cup {Orphans(a)}
        BY <3>2, SetMore DEF Announced, Aggregator
      <4> QED BY <4>1
    <3> QED BY <3>1, <3>2
  <2> QED BY <2>1, <2>2, <2>3, <2>4 DEF Orphans
<1> QED BY <1>1, <1>3, <1>7, <1>8, <1>9

(* What a flush leaves behind, field by field.                             *)
Settled(a, b) ==
  /\ b.current = a.current /\ b.done = a.done /\ b.completed = {} /\ b.removed = {}
  /\ DOMAIN b.last_sent = DOMAIN a.last_sent \cup DOMAIN Whole(a)
  /\ \A i \in DOMAIN b.last_sent :
       b.last_sent[i] = IF i \in DOMAIN Whole(a) \cup Held(a) THEN a.current[i] ELSE a.last_sent[i]
  /\ ToSet(b.dirty) = ToSet(a.dirty) \ (DOMAIN Whole(a) \cup Drained(a))
  /\ IsInjective(a.dirty) => IsInjective(b.dirty)

(* flush() leaves the baselines at what it has sent.                       *)
LEMMA FlushedIs ==
  ASSUME NEW a \in Aggregator
  PROVE  Settled(a, Flushed(a))
<1>1. PICK w : w = Whole(a)
  OBVIOUS
<1>2. PICK v : v = Views(a, Held(a))
  OBVIOUS
<1>3. PICK rows : rows = Atop(w, v)
  OBVIOUS
<1>4. w \in Rows /\ Held(a) \subseteq DOMAIN a.current \cap DOMAIN a.last_sent /\ Held(a) \subseteq Drained(a)
  BY <1>1, DrainedTyped DEF Held
<1>5. v \in Rows /\ DOMAIN v = Held(a) /\ \A i \in DOMAIN v : v[i] = a.current[i]
  <2>1. v \in Rows /\ DOMAIN v = Held(a) \cap DOMAIN a.current
    BY <1>2, ViewsTyped
  <2>2. \A i \in DOMAIN v : v[i] = a.current[i]
    BY <1>2, <1>4, <2>1 DEF Views, Restrict
  <2> QED BY <1>4, <2>1, <2>2
<1>6. \A i \in DOMAIN w : w[i] = a.current[i]
  BY <1>1, WholeIs
<1>7. rows \in Rows /\ DOMAIN rows = DOMAIN w \cup Held(a) /\ \A i \in DOMAIN rows : rows[i] = a.current[i]
  <2>1. rows \in Rows /\ DOMAIN rows = DOMAIN w \cup Held(a)
    BY <1>3, <1>4, <1>5, AtopRows
  <2>2. \A i \in DOMAIN rows : rows[i] = IF i \in DOMAIN w THEN w[i] ELSE v[i]
    BY <1>3, <1>5, <2>1 DEF Atop
  <2> QED BY <1>5, <1>6, <2>1, <2>2
<1>8. PICK l : l = Atop(rows, a.last_sent)
  OBVIOUS
<1>9. PICK d : d = Sans(a.dirty, DOMAIN rows)
  OBVIOUS
<1>10. PICK q : q = Sans(d, Drained(a))
  OBVIOUS
<1>11. PICK m : m = Rebased(a, rows)
  OBVIOUS
<1>12. /\ m.current = a.current /\ m.done = a.done /\ m.last_sent = l /\ m.dirty = d /\ m \in Aggregator
  <2>1. m \in Aggregator
    BY <1>7, <1>11, RebasedTyped
  <2> QED BY <1>8, <1>9, <1>11, <2>1 DEF Rebased, Aggregator
<1>13. PICK b : b = Flushed(a)
  OBVIOUS
<1>14. b = [m EXCEPT !.added = <<>>, !.completed = {}, !.removed = {}, !.dirty = Sans(@, Drained(a))]
  BY <1>1, <1>2, <1>3, <1>11, <1>13 DEF Flushed
<1>15. /\ b.current = a.current /\ b.done = a.done /\ b.completed = {} /\ b.removed = {}
       /\ b.last_sent = l /\ b.dirty = q
  BY <1>10, <1>12, <1>14 DEF Aggregator
<1>16. DOMAIN l = DOMAIN rows \cup DOMAIN a.last_sent
       /\ \A i \in DOMAIN l : l[i] = IF i \in DOMAIN rows THEN rows[i] ELSE a.last_sent[i]
  BY <1>8 DEF Atop
<1>17. DOMAIN l = DOMAIN a.last_sent \cup DOMAIN w
       /\ \A i \in DOMAIN l : l[i] = IF i \in DOMAIN w \cup Held(a) THEN a.current[i] ELSE a.last_sent[i]
  BY <1>4, <1>7, <1>16
<1>18. d \in Seq(Items) /\ ToSet(d) = ToSet(a.dirty) \ DOMAIN rows /\ (IsInjective(a.dirty) => IsInjective(d))
  BY <1>9, SansItems, SansKeeps DEF Aggregator
<1>19. ToSet(q) = ToSet(d) \ Drained(a) /\ (IsInjective(d) => IsInjective(q))
  BY <1>10, <1>18, SansKeeps
<1>20. ToSet(q) = ToSet(a.dirty) \ (DOMAIN w \cup Drained(a))
  BY <1>4, <1>7, <1>18, <1>19
<1> QED BY <1>1, <1>13, <1>15, <1>17, <1>18, <1>19, <1>20 DEF Settled

(* The tables stay sound through a flush.                                  *)
LEMMA FlushSound ==
  ASSUME NEW a \in Aggregator, NEW t, Sound(a, t)
  PROVE  Sound(Flushed(a), t)
<1>1. PICK b : b = Flushed(a)
  OBVIOUS
<1>2. Settled(a, b)
  BY <1>1, FlushedIs
<1>3. PICK W : W = DOMAIN Whole(a)
  OBVIOUS
<1>4. PICK H : H = Held(a)
  OBVIOUS
<1>5. PICK D : D = Drained(a)
  OBVIOUS
<1>6. W \subseteq DOMAIN a.current
  BY <1>3, WholeIs
<1>7. H = D \cap DOMAIN a.current \cap DOMAIN a.last_sent
  BY <1>4, <1>5 DEF Held
<1>8. D \cap DOMAIN a.current \subseteq DOMAIN a.last_sent
  BY <1>5, DrainedAre
<1>9. /\ DOMAIN b.last_sent = DOMAIN a.last_sent \cup W
      /\ \A i \in DOMAIN b.last_sent : b.last_sent[i] = IF i \in W \cup H THEN a.current[i] ELSE a.last_sent[i]
      /\ ToSet(b.dirty) = ToSet(a.dirty) \ (W \cup D)
  BY <1>2, <1>3, <1>4, <1>5 DEF Settled
<1>10. b.current = a.current /\ b.done = a.done /\ (IsInjective(a.dirty) => IsInjective(b.dirty))
  BY <1>2 DEF Settled
<1>11. DOMAIN b.last_sent \subseteq DOMAIN b.current
  BY <1>6, <1>9, <1>10 DEF Sound
<1>12. ASSUME NEW i \in DOMAIN b.current, i \notin ToSet(b.dirty)
       PROVE  i \in DOMAIN b.last_sent /\ b.last_sent[i] = b.current[i]
  <2>1. CASE i \in W \cup D
    BY <1>7, <1>8, <1>9, <1>10, <2>1
  <2>2. CASE i \notin W \cup D
    <3>1. i \notin ToSet(a.dirty)
      BY <1>9, <1>12, <2>2
    <3>2. i \in DOMAIN a.last_sent /\ a.last_sent[i] = a.current[i]
      BY <1>10, <3>1 DEF Sound
    <3> QED BY <1>9, <1>10, <3>2
  <2> QED BY <2>1, <2>2
<1>13. Sound(b, t)
  BY <1>10, <1>11, <1>12 DEF Sound
<1> QED BY <1>1, <1>13

(* A client that hears the batch has the new baselines.                    *)
LEMMA FlushHonest ==
  ASSUME NEW a \in Aggregator, NEW t, NEW h, NEW e, Sound(a, t), Honest(a, t, h),
         a.removed \cap DOMAIN t = {}, Told(a, h, e)
  PROVE  /\ Honest(Flushed(a), t, e)
         /\ DOMAIN e \subseteq DOMAIN h \cup DOMAIN t
         /\ Late(Flushed(a), e) \subseteq Late(a, h) \ a.completed
<1>1. PICK b : b = Flushed(a)
  OBVIOUS
<1>2. Settled(a, b)
  BY <1>1, FlushedIs
<1>3. PICK W : W = DOMAIN Whole(a)
  OBVIOUS
<1>4. PICK H : H = Held(a)
  OBVIOUS
<1>5. PICK P : P = Patches(a)
  OBVIOUS
<1>6. W \subseteq DOMAIN a.current /\ a.completed \cap DOMAIN a.current \subseteq W
  BY <1>3, WholeIs
<1>7. H \subseteq DOMAIN a.current \cap DOMAIN a.last_sent /\ H \cap W = {}
  BY <1>3, <1>4, DrainedAre DEF Held
<1>8. /\ DOMAIN P \subseteq H
      /\ \A i \in DOMAIN P : Atop(P[i], a.last_sent[i]) = a.current[i]
      /\ \A i \in H \ DOMAIN P : a.last_sent[i] = a.current[i]
  BY <1>4, <1>5, PatchesAre
<1>9. /\ DOMAIN b.last_sent = DOMAIN a.last_sent \cup W
      /\ \A i \in DOMAIN b.last_sent : b.last_sent[i] = IF i \in W \cup H THEN a.current[i] ELSE a.last_sent[i]
      /\ b.current = a.current
  BY <1>2, <1>3, <1>4 DEF Settled
<1>10. /\ DOMAIN e = (DOMAIN h \cup W) \ a.removed
       /\ \A i \in DOMAIN e \ DOMAIN P : e[i] = IF i \in W THEN a.current[i] ELSE h[i]
       /\ \A i \in DOMAIN e \cap DOMAIN P : e[i] = Atop(P[i], IF i \in W THEN a.current[i] ELSE h[i])
  BY <1>3, <1>5 DEF Told
<1>11. DOMAIN a.current \cap a.removed = {} /\ DOMAIN a.last_sent \subseteq DOMAIN a.current
       /\ DOMAIN a.current \subseteq DOMAIN t
  BY DEF Sound
<1>12. /\ \A i \in DOMAIN a.last_sent : i \in DOMAIN h /\ h[i] = a.last_sent[i]
       /\ \A i \in DOMAIN h \ DOMAIN a.current : i \in a.removed \/ (i \in DOMAIN t /\ h[i] = t[i])
  BY DEF Honest
<1>13. \A i \in DOMAIN e \cap (W \cup H) : e[i] = a.current[i]
  <2>1. ASSUME NEW i \in DOMAIN e \cap W PROVE e[i] = a.current[i]
    BY <1>7, <1>8, <1>10
  <2>2. ASSUME NEW i \in DOMAIN e \cap H PROVE e[i] = a.current[i]
    <3>1. i \notin W /\ i \in DOMAIN a.last_sent /\ h[i] = a.last_sent[i]
      BY <1>7, <1>12
    <3>2. CASE i \in DOMAIN P
      <4>1. e[i] = Atop(P[i], a.last_sent[i])
        BY <1>10, <3>1, <3>2
      <4> QED BY <1>8, <3>2, <4>1
    <3>3. CASE i \notin DOMAIN P
      <4>1. e[i] = a.last_sent[i]
        BY <1>10, <3>1, <3>3
      <4> QED BY <1>8, <3>3, <4>1
    <3> QED BY <3>2, <3>3
  <2> QED BY <2>1, <2>2
<1>14. \A i \in DOMAIN e \ (W \cup H) : e[i] = h[i] /\ i \in DOMAIN h
  BY <1>8, <1>10
<1>15. \A i \in DOMAIN b.last_sent : i \in DOMAIN e /\ e[i] = b.last_sent[i]
  <2> SUFFICES ASSUME NEW i \in DOMAIN b.last_sent PROVE i \in DOMAIN e /\ e[i] = b.last_sent[i]
    OBVIOUS
  <2>1. i \in DOMAIN e
    BY <1>6, <1>9, <1>10, <1>11, <1>12
  <2>2. CASE i \in W \cup H
    BY <1>9, <1>13, <2>1, <2>2
  <2>3. CASE i \notin W \cup H
    BY <1>9, <1>12, <1>14, <2>1, <2>3
  <2> QED BY <2>1, <2>2, <2>3
<1>16. \A i \in DOMAIN e \ DOMAIN b.current : i \in DOMAIN t /\ e[i] = t[i]
  <2> SUFFICES ASSUME NEW i \in DOMAIN e \ DOMAIN b.current PROVE i \in DOMAIN t /\ e[i] = t[i]
    OBVIOUS
  <2>1. i \notin W \cup H /\ i \notin a.removed /\ i \notin DOMAIN a.current
    BY <1>6, <1>7, <1>9, <1>10
  <2>2. i \in DOMAIN h /\ e[i] = h[i]
    BY <1>14, <2>1
  <2> QED BY <1>12, <2>1, <2>2
<1>17. Honest(b, t, e)
  BY <1>15, <1>16 DEF Honest
<1>18. DOMAIN e \subseteq DOMAIN h \cup DOMAIN t
  BY <1>6, <1>10, <1>11
<1>19. Late(b, e) \subseteq Late(a, h) \ a.completed
  <2> SUFFICES ASSUME NEW i \in Late(b, e) PROVE i \in Late(a, h) /\ i \notin a.completed
    OBVIOUS
  <2>1. i \in DOMAIN a.current /\ i \in DOMAIN e /\ e[i] # a.current[i]
    BY <1>9 DEF Late
  <2>2. i \notin W \cup H
    BY <1>13, <2>1
  <2>3. i \in DOMAIN h /\ h[i] # a.current[i]
    BY <1>14, <2>1, <2>2
  <2> QED BY <1>6, <2>1, <2>2, <2>3 DEF Late
<1> QED BY <1>1, <1>17, <1>18, <1>19

(* What is late after the flush is the row that is ending, the last of the *)
(* window.                                                                 *)
LEMMA FlushTidy ==
  ASSUME NEW s \in Seq(Items), IsInjective(s), NEW late, NEW l2, NEW completed, NEW pending,
         Tidy(s, late, completed \cup pending), l2 \subseteq late \ completed,
         \A i \in pending : Len(s) > 0 /\ s[Len(s)] = i
  PROVE  Tidy(s, l2, pending)
<1>1. PICK n : n = Len(s)
  OBVIOUS
<1>2. n \in Nat /\ DOMAIN s = 1..n
  BY <1>1
<1>3. ASSUME NEW k \in 1..n, NEW l \in 1..n, k <= l, s[k] \in l2 PROVE s[l] \in pending
  <2>1. s[k] \in pending
    <3>1. s[k] \in late /\ s[k] \notin completed
      BY <1>3
    <3>2. s[k] \in completed \cup pending
      BY <1>2, <1>3, <3>1 DEF Tidy
    <3> QED BY <3>1, <3>2
  <2>2. s[n] = s[k] /\ n \in 1..n
    BY <1>1, <1>2, <2>1
  <2>3. n = k
    BY <1>2, <2>2 DEF IsInjective
  <2>4. l = k
    BY <1>2, <1>3, <2>3
  <2> QED BY <2>1, <2>4
<1> QED BY <1>2, <1>3 DEF Tidy

-----------------------------------------------------------------------------
(* The invariant of the frames: the tables are sound, and what a client    *)
(* has heard once it has the frames of the flush under way is honest.      *)
Heard == ApplyAll(told, outbox)
Framed(a, t, h, ids, pending) ==
  /\ Sound(a, t) /\ Honest(a, t, h)
  /\ DOMAIN h \subseteq ids /\ a.removed \subseteq ids \ DOMAIN t
  /\ Tidy(a.done, Late(a, h), a.completed \cup pending)
  /\ Cardinality(a.completed \cup pending) <= BurstMax
  /\ \A i \in pending : Len(a.done) > 0 /\ a.done[Len(a.done)] = i
FrameInv == Framed(agg, truth, Heard, born, ending) /\ (~flushing => Len(outbox) = 0)

(* The first frame of a sequence, then the others.                         *)
LEMMA ApplyAllHead ==
  ASSUME NEW rows, NEW s \in Seq(Frame), Len(s) > 0
  PROVE  ApplyAll(rows, s) = ApplyAll(Apply(rows, Head(s)), Tail(s))
<1>1. PICK b : b = Head(s)
  OBVIOUS
<1>2. PICK r : r = Apply(rows, b)
  OBVIOUS
<1>3. b \in Frame /\ Tail(s) \in Seq(Frame) /\ s = <<b>> \o Tail(s)
  BY <1>1
<1> DEFINE Good == {t \in Seq(Frame) : ApplyAll(rows, <<b>> \o t) = ApplyAll(r, t)}
<1>4. <<>> \in Good
  <2>1. PICK e : e = <<>>
    OBVIOUS
  <2>2. e \in Seq(Frame)
    BY <2>1
  <2>3. <<b>> \o e = Append(e, b)
    BY <1>3, <2>1
  <2>4. ApplyAll(rows, Append(e, b)) = Apply(ApplyAll(rows, e), b)
    BY <1>3, <2>2, ApplyAllMore
  <2>5. ApplyAll(rows, e) = rows /\ ApplyAll(r, e) = r
    BY <2>1, ApplyAllNone
  <2> QED BY <1>2, <2>1, <2>2, <2>3, <2>4, <2>5
<1>5. ASSUME NEW t \in Seq(Frame), NEW x \in Frame, t \in Good PROVE Append(t, x) \in Good
  <2>1. PICK u : u = <<b>> \o t
    OBVIOUS
  <2>2. u \in Seq(Frame) /\ <<b>> \o Append(t, x) = Append(u, x)
    BY <1>3, <2>1
  <2>3. ApplyAll(rows, Append(u, x)) = Apply(ApplyAll(rows, u), x)
    BY <2>2, ApplyAllMore
  <2>4. ApplyAll(r, Append(t, x)) = Apply(ApplyAll(r, t), x)
    BY ApplyAllMore
  <2>5. ApplyAll(rows, u) = ApplyAll(r, t)
    BY <1>5, <2>1
  <2>6. ApplyAll(rows, <<b>> \o Append(t, x)) = Apply(ApplyAll(rows, u), x)
    <3>1. PICK v : v = <<b>> \o Append(t, x)
      OBVIOUS
    <3>2. ApplyAll(rows, v) = Apply(ApplyAll(rows, u), x)
      BY <2>2, <2>3, <3>1
    <3> QED BY <3>1, <3>2
  <2>7. Append(t, x) \in Seq(Frame)
    OBVIOUS
  <2> QED BY <2>4, <2>5, <2>6, <2>7
<1> HIDE DEF Good
<1>6. Tail(s) \in Good
  BY <1>3, <1>4, <1>5, SeqInduction
<1> QED BY <1>1, <1>2, <1>3, <1>6 DEF Good

(* The tables are all that the invariant reads of the aggregator, with the *)
(* rows completed and removed.                                             *)
Steady(a, b) ==
  /\ b.current = a.current /\ b.last_sent = a.last_sent /\ b.dirty = a.dirty
  /\ b.done = a.done /\ b.removed = a.removed

(* A step that keeps the tables keeps the invariant.                       *)
LEMMA SteadyFramed ==
  ASSUME NEW a, NEW b, NEW t, NEW h, NEW ids, NEW pending, NEW later, Steady(a, b), Framed(a, t, h, ids, pending),
         b.completed \cup later = a.completed \cup pending, later \subseteq pending
  PROVE  Framed(b, t, h, ids, later)
<1>1. Sound(b, t)
  BY DEF Steady, Sound, Framed
<1>2. Honest(b, t, h)
  BY DEF Steady, Honest, Framed
<1>3. Late(b, h) = Late(a, h)
  BY DEF Steady, Late
<1>4. Tidy(b.done, Late(b, h), b.completed \cup later)
  BY <1>3 DEF Steady, Framed
<1>5. \A i \in later : Len(b.done) > 0 /\ b.done[Len(b.done)] = i
  BY DEF Steady, Framed
<1> QED BY <1>1, <1>2, <1>4, <1>5 DEF Steady, Framed

(* install() leaves the queues of the batch alone.                         *)
LEMMA InstallKeeps ==
  ASSUME NEW a \in Aggregator, NEW i \in Items, NEW r \in Row
  PROVE  /\ Install(a, i, r).added = a.added /\ Install(a, i, r).completed = a.completed
         /\ Install(a, i, r).removed = a.removed
<1>1. PICK b : b = Install(a, i, r)
  OBVIOUS
<1>2. b = a \/ \E E : Landed(a, i, r, b, E)
  BY <1>1, InstallIs
<1> QED BY <1>1, <1>2 DEF Landed

(* A row installed as it is.                                               *)
LEMMA InstallNothing ==
  ASSUME NEW a, NEW i, NEW r, i \in DOMAIN a.current, a.current[i] = r
  PROVE  Install(a, i, r) = a
BY DEF Install

(* One event more queued, one generation due: the tables stay.             *)
LEMMA QueuedSteady ==
  ASSUME NEW a \in Aggregator, NEW S
  PROVE  /\ Steady(a, [a EXCEPT !.added = Append(@, S)]) /\ [a EXCEPT !.added = Append(@, S)].completed = a.completed
         /\ Steady(a, [a EXCEPT !.completed = @ \cup S]) /\ [a EXCEPT !.completed = @ \cup S].completed = a.completed \cup S
         /\ \A x : Steady(a, [a EXCEPT !.stale = x]) /\ [a EXCEPT !.stale = x].completed = a.completed
BY DEF Steady, Aggregator

(* A row of the engine's that is not the one an event is about.            *)
LEMMA TruthExcept ==
  ASSUME NEW t \in Rows, NEW i \in DOMAIN t, NEW r, NEW u, u = [t EXCEPT ![i] = r]
  PROVE  u[i] = r /\ DOMAIN u = DOMAIN t /\ \A j \in DOMAIN t \ {i} : j \in DOMAIN u /\ u[j] = t[j]
OBVIOUS

(* A live row is installed.                                                *)
LEMMA LiveFramed ==
  ASSUME NEW a \in Aggregator, NEW i \in Items, NEW r \in Row, NEW t, NEW u, NEW h, NEW ids, NEW more,
         Framed(a, t, h, ids, {}), r.status = "live", i \in DOMAIN u, u[i] = r,
         \A j \in DOMAIN t \ {i} : j \in DOMAIN u /\ u[j] = t[j],
         ids \subseteq more, a.removed \subseteq more \ DOMAIN u
  PROVE  Framed(Install(a, i, r), u, h, more, {})
<1>1. PICK b : b = Install(a, i, r)
  OBVIOUS
<1>2. b.completed = a.completed /\ b.removed = a.removed
  BY <1>1, InstallKeeps
<1>3. Sound(b, u)
  BY <1>1, InstallSound DEF Framed
<1>4. PICK pending : pending = a.completed \cup {}
  OBVIOUS
<1>5. Tidy(a.done, Late(a, h), pending) /\ Sound(a, t) /\ Honest(a, t, h)
  BY <1>4 DEF Framed
<1>6. Honest(b, u, h) /\ Tidy(b.done, Late(b, h), pending)
  BY <1>1, <1>5, LiveHonest
<1>7. Framed(b, u, h, more, {})
  BY <1>2, <1>3, <1>4, <1>6 DEF Framed
<1> QED BY <1>1, <1>7

(* An ended row is installed: what it pushes out of the window is nothing  *)
(* that a client has an old state of, for the window is longer than the    *)
(* rows that end between two flushes.                                      *)
LEMMA DoneFramed ==
  ASSUME BurstMax <= MemDone,
         NEW a \in Aggregator, NEW i \in Items, NEW r \in Row, NEW t, NEW u, NEW h, NEW ids,
         Framed(a, t, h, ids, {}), r.status = "done", i \in DOMAIN t, t[i].status = "live",
         i \in DOMAIN u, u[i] = r, \A j \in DOMAIN t \ {i} : j \in DOMAIN u /\ u[j] = t[j], DOMAIN u = DOMAIN t,
         Cardinality(a.completed \cup {i}) <= BurstMax
  PROVE  Framed(Install(a, i, r), u, h, ids, {i})
<1>1. PICK b : b = Install(a, i, r)
  OBVIOUS
<1>2. b.completed = a.completed /\ b.removed = a.removed
  BY <1>1, InstallKeeps
<1>3. Sound(b, u)
  BY <1>1, InstallSound DEF Framed
<1>4. PICK pending : pending = a.completed
  OBVIOUS
<1>5. Tidy(a.done, Late(a, h), pending) /\ Sound(a, t) /\ Honest(a, t, h)
  <2>1. a.completed \cup {} = pending
    BY <1>4
  <2> QED BY <2>1 DEF Framed
<1>6. a.completed \cup {i} \subseteq Items /\ IsFiniteSet(Items)
  BY FeedAssumption DEF Aggregator
<1>7. IsFiniteSet(pending) /\ IsFiniteSet(pending \cup {i})
  BY <1>4, <1>6, FS_Subset
<1>8. Cardinality(pending \cup {i}) <= MemDone
  <2>1. Cardinality(pending \cup {i}) \in Nat
    BY <1>7, FS_CardinalityType
  <2> QED BY <1>4, <2>1, Bounds
<1>9. /\ Honest(b, u, h) /\ Tidy(b.done, Late(b, h), pending \cup {i})
      /\ Len(b.done) > 0 /\ b.done[Len(b.done)] = i
  BY <1>1, <1>5, <1>7, <1>8, DoneHonest
<1>10. Framed(b, u, h, ids, {i})
  BY <1>2, <1>3, <1>4, <1>9 DEF Framed
<1> QED BY <1>1, <1>10

(* Rows are removed.                                                       *)
LEMMA ForgottenFramed ==
  ASSUME NEW a \in Aggregator, NEW S \in SUBSET Items, NEW t, NEW u, NEW h, NEW ids,
         Framed(a, t, h, ids, {}), S \subseteq ids,
         DOMAIN u = DOMAIN t \ S, \A j \in DOMAIN u : u[j] = t[j]
  PROVE  Framed(Forget(a, S), u, h, ids, {})
<1>1. PICK b : b = Forget(a, S)
  OBVIOUS
<1>2. Lost(a, b, S) /\ b.removed = a.removed \cup S /\ b.done = Sans(a.done, S)
  BY <1>1, ForgetIs
<1>3. a.done \in Seq(Items)
  BY DEF Aggregator
<1>4. ToSet(b.done) = ToSet(a.done) \ S /\ (IsInjective(a.done) => IsInjective(b.done))
  BY <1>2, <1>3, SansKeeps
<1>5. Sound(b, u)
  BY <1>2, <1>4 DEF Sound, Lost, Framed
<1>6. Honest(b, u, h)
  BY <1>2 DEF Honest, Lost, Framed
<1>7. Late(b, h) \subseteq Late(a, h)
  BY <1>2 DEF Late, Lost
<1>8. PICK pending : pending = a.completed \cup {}
  OBVIOUS
<1>9. Tidy(b.done, Late(a, h), pending)
  BY <1>2, <1>3, <1>8, SansTidy DEF Framed
<1>10. Tidy(b.done, Late(b, h), pending)
  BY <1>7, <1>9, TidyFewer
<1>11. b.completed = a.completed /\ b.removed \subseteq ids \ DOMAIN u
  BY <1>2 DEF Lost, Framed
<1>12. Framed(b, u, h, ids, {})
  BY <1>5, <1>6, <1>8, <1>10, <1>11 DEF Framed
<1> QED BY <1>1, <1>12

(* A flush, and the frames it is about to publish.                         *)
LEMMA FlushFramed ==
  ASSUME NEW a \in Aggregator, NEW t, NEW h \in Rows, NEW ids, NEW pending,
         Framed(a, t, h, ids, pending), DOMAIN t \subseteq ids, IsFiniteSet(a.completed \cup pending)
  PROVE  Framed(Flushed(a), t, ApplyAll(h, Batch(a)), ids, pending)
<1>1. PICK b : b = Flushed(a)
  OBVIOUS
<1>2. PICK e : e = ApplyAll(h, Batch(a))
  OBVIOUS
<1>3. Told(a, h, e)
  BY <1>2, BatchTells
<1>4. Sound(a, t) /\ Honest(a, t, h) /\ a.removed \cap DOMAIN t = {}
  BY DEF Framed
<1>5. Sound(b, t)
  BY <1>1, <1>4, FlushSound
<1>6. Honest(b, t, e) /\ DOMAIN e \subseteq DOMAIN h \cup DOMAIN t /\ Late(b, e) \subseteq Late(a, h) \ a.completed
  BY <1>1, <1>3, <1>4, FlushHonest
<1>7. b.done = a.done /\ b.completed = {} /\ b.removed = {}
  BY <1>1, FlushedIs DEF Settled
<1>8. Tidy(b.done, Late(b, e), pending)
  <2>1. a.done \in Seq(Items) /\ IsInjective(a.done)
    BY <1>4 DEF Aggregator, Sound
  <2>2. Tidy(a.done, Late(a, h), a.completed \cup pending) /\ \A i \in pending : Len(a.done) > 0 /\ a.done[Len(a.done)] = i
    BY DEF Framed
  <2> QED BY <1>6, <1>7, <2>1, <2>2, FlushTidy
<1>9. Cardinality(pending) <= BurstMax
  <2>1. IsFiniteSet(pending) /\ Cardinality(pending) <= Cardinality(a.completed \cup pending)
    BY FS_Subset
  <2>2. Cardinality(pending) \in Nat /\ Cardinality(a.completed \cup pending) \in Nat
    BY <2>1, FS_CardinalityType
  <2>3. Cardinality(a.completed \cup pending) <= BurstMax
    BY DEF Framed
  <2> QED BY <2>1, <2>2, <2>3, Bounds
<1>10. b.completed \cup pending = pending
  BY <1>7
<1>11. DOMAIN e \subseteq ids
  BY <1>6 DEF Framed
<1>12. Framed(b, t, e, ids, pending)
  <2>1. \A i \in pending : Len(b.done) > 0 /\ b.done[Len(b.done)] = i
    BY <1>7 DEF Framed
  <2>2. b.removed \subseteq ids \ DOMAIN t
    BY <1>7
  <2>3. Tidy(b.done, Late(b, e), b.completed \cup pending) /\ Cardinality(b.completed \cup pending) <= BurstMax
    BY <1>8, <1>9, <1>10
  <2> QED BY <1>5, <1>6, <1>11, <2>1, <2>2, <2>3 DEF Framed
<1> QED BY <1>1, <1>2, <1>12

(* A frame that carries no row changes no client.                          *)
LEMMA OtherIsSilent ==
  ASSUME NEW rows
  PROVE  Apply(rows, Body("other", <<>>)) = rows
BY DEF Apply, Body

(* The invariant holds at first, and every step keeps it.                  *)
LEMMA FrameInit == Init => FrameInv
<1> SUFFICES ASSUME Init PROVE FrameInv
  OBVIOUS
<1>1. PICK e : e = <<>>
  OBVIOUS
<1>2. DOMAIN e = {} /\ ToSet(e) = {} /\ Len(e) = 0
  BY <1>1, SetNone
<1>3. agg = [current |-> e, last_sent |-> e, dirty |-> e, added |-> e,
             completed |-> {}, removed |-> {}, done |-> e, stale |-> TRUE]
  BY <1>1 DEF Init
<1>4. born = {} /\ truth = e /\ ending = {} /\ told = e /\ Len(outbox) = 0
  BY <1>1, <1>2 DEF Init
<1>5. PICK h : h = Heard
  OBVIOUS
<1>6. DOMAIN h = {}
  <2>1. ApplyAll(told, <<>>) = told
    BY ApplyAllNone
  <2>2. outbox = <<>>
    BY DEF Init
  <2> QED BY <1>2, <1>4, <1>5, <2>1, <2>2 DEF Heard
<1>7. Sound(agg, truth)
  BY <1>2, <1>3, <1>4 DEF Sound, IsInjective
<1>8. Honest(agg, truth, h) /\ Late(agg, h) = {}
  BY <1>2, <1>3, <1>6 DEF Honest, Late
<1>9. Tidy(agg.done, Late(agg, h), agg.completed \cup ending)
  BY <1>2, <1>3 DEF Tidy
<1>10. Cardinality(agg.completed \cup ending) <= BurstMax
  <2>1. agg.completed \cup ending = {}
    BY <1>3, <1>4
  <2> QED BY <2>1, FS_EmptySet, Bounds
<1>11. agg.removed = {}
  BY <1>3
<1>12. Framed(agg, truth, h, born, ending)
  BY <1>4, <1>6, <1>7, <1>8, <1>9, <1>10, <1>11 DEF Framed
<1> QED BY <1>4, <1>5, <1>12 DEF FrameInv

LEMMA RecoverFramed ==
  ASSUME FeedTyped, FrameInv, NEW rows \in Rows, Recover(rows)
  PROVE  FrameInv'
<1>1. PICK ids \in SetToSeqs(DOMAIN rows) :
        agg' = [Installed(agg, ids, rows) EXCEPT !.added = Append(@, DOMAIN rows)]
  BY DEF Recover
<1>2. DOMAIN rows \in SUBSET Items
  BY FcnsAre, RowsAre
<1>3. ids \in Seq(DOMAIN rows)
  BY <1>2, OrdersAreSeqs
<1>4. PICK b : b = Installed(agg, ids, rows)
  OBVIOUS
<1>5. agg \in Aggregator /\ b \in Aggregator
  BY <1>3, <1>4, InstalledTyped DEF FeedTyped, FlushTyped
<1>6. PICK h : h = Heard
  OBVIOUS
<1>7. Framed(agg, truth, h, born, ending) /\ born = {} /\ ending = {} /\ DOMAIN truth = {}
  BY <1>6 DEF FrameInv, Recover, Listening, FeedTyped, EngineTyped
<1>8. DOMAIN h = {} /\ agg.removed = {} /\ DOMAIN agg.current = {} /\ DOMAIN agg.last_sent = {}
  BY <1>7 DEF Framed, Sound
<1>9. Sound(agg, rows)
  BY <1>7, <1>8 DEF Framed, Sound
<1>10. /\ Sound(b, rows) /\ DOMAIN b.last_sent \subseteq DOMAIN agg.last_sent
       /\ b.completed = agg.completed /\ b.removed = agg.removed
  BY <1>3, <1>4, <1>5, <1>9, InstalledSound
<1>11. Honest(b, rows, h) /\ Late(b, h) = {}
  BY <1>8, <1>10 DEF Honest, Late
<1>12. Framed(b, rows, h, DOMAIN rows, {})
  <2>1. Tidy(b.done, Late(b, h), b.completed \cup {})
    BY <1>11 DEF Tidy
  <2>2. Cardinality(b.completed \cup {}) <= BurstMax
    BY <1>7, <1>10 DEF Framed
  <2> QED BY <1>8, <1>10, <1>11, <2>1, <2>2 DEF Framed
<1>13. Steady(b, agg') /\ agg'.completed = b.completed
  BY <1>1, <1>4, <1>5, QueuedSteady
<1>14. Framed(agg', rows, h, DOMAIN rows, {})
  BY <1>12, <1>13, SteadyFramed
<1>15. Heard' = h /\ truth' = rows /\ born' = DOMAIN rows /\ ending' = {}
  BY <1>6, <1>7 DEF Recover, Heard, hub
<1> QED BY <1>14, <1>15 DEF FrameInv, Recover

LEMMA AddedFramed ==
  ASSUME FeedTyped, FrameInv, NEW i \in Items, NEW v \in Values, Added(i, v)
  PROVE  FrameInv'
<1>1. PICK r : r = [status |-> "live", value |-> v]
  OBVIOUS
<1>2. r \in Row /\ r.status = "live"
  BY <1>1 DEF Row
<1>3. truth' = Put(truth, i, r) /\ agg' = [Install(agg, i, r) EXCEPT !.added = Append(@, {i})]
      /\ i \notin born /\ ending = {}
  BY <1>1 DEF Added, Listening
<1>4. PICK b : b = Install(agg, i, r)
  OBVIOUS
<1>5. agg \in Aggregator /\ b \in Aggregator /\ truth \in Rows
  BY <1>2, <1>4, InstallTyped DEF FeedTyped, FlushTyped, EngineTyped
<1>6. PICK h : h = Heard
  OBVIOUS
<1>7. Framed(agg, truth, h, born, {})
  BY <1>3, <1>6 DEF FrameInv
<1>8. PICK u : u = truth'
  OBVIOUS
<1>9. i \in DOMAIN u /\ u[i] = r /\ DOMAIN u = DOMAIN truth \cup {i}
      /\ \A j \in DOMAIN truth \ {i} : j \in DOMAIN u /\ u[j] = truth[j]
  <2>1. u = Put(truth, i, r)
    BY <1>3, <1>8
  <2> QED BY <2>1 DEF Put
<1>10. agg.removed \subseteq (born \cup {i}) \ DOMAIN u
  BY <1>3, <1>7, <1>9 DEF Framed
<1>11. Framed(b, u, h, born \cup {i}, {})
  BY <1>2, <1>4, <1>5, <1>7, <1>9, <1>10, LiveFramed
<1>12. Steady(b, agg') /\ agg'.completed = b.completed
  BY <1>3, <1>4, <1>5, QueuedSteady
<1>13. Framed(agg', u, h, born \cup {i}, {})
  BY <1>11, <1>12, SteadyFramed
<1>14. Heard' = h /\ born' = born \cup {i} /\ ending' = {}
  BY <1>3, <1>6 DEF Added, Heard, hub
<1> QED BY <1>8, <1>13, <1>14 DEF FrameInv, Added

LEMMA StatusChangedFramed ==
  ASSUME FeedTyped, FrameInv, NEW i \in Items, NEW v \in Values, StatusChanged(i, v)
  PROVE  FrameInv'
<1>1. PICK r : r = [status |-> "live", value |-> v]
  OBVIOUS
<1>2. r \in Row /\ r.status = "live"
  BY <1>1 DEF Row
<1>3. i \in DOMAIN truth /\ truth' = [truth EXCEPT ![i] = r] /\ agg' = Install(agg, i, r) /\ ending = {}
  BY <1>1 DEF StatusChanged, Listening
<1>4. agg \in Aggregator /\ truth \in Rows
  BY DEF FeedTyped, FlushTyped, EngineTyped
<1>5. PICK h : h = Heard
  OBVIOUS
<1>6. Framed(agg, truth, h, born, {})
  BY <1>3, <1>5 DEF FrameInv
<1>7. PICK u : u = truth'
  OBVIOUS
<1>8. u[i] = r /\ DOMAIN u = DOMAIN truth /\ \A j \in DOMAIN truth \ {i} : j \in DOMAIN u /\ u[j] = truth[j]
  BY <1>3, <1>4, <1>7, TruthExcept
<1>9. agg.removed \subseteq born \ DOMAIN u
  BY <1>6, <1>8 DEF Framed
<1>10. Framed(agg', u, h, born, {})
  BY <1>2, <1>3, <1>4, <1>6, <1>8, <1>9, LiveFramed
<1>11. Heard' = h /\ born' = born /\ ending' = {}
  BY <1>3, <1>5 DEF StatusChanged, Heard, hub
<1> QED BY <1>7, <1>10, <1>11 DEF FrameInv, StatusChanged

LEMMA EndedFramed ==
  ASSUME BurstMax <= MemDone, FeedTyped, FrameInv, NEW i \in Items, NEW v \in Values, Ended(i, v)
  PROVE  FrameInv'
<1>1. PICK r : r = [status |-> "done", value |-> v]
  OBVIOUS
<1>2. r \in Row /\ r.status = "done"
  BY <1>1 DEF Row
<1>3. i \in DOMAIN truth /\ truth[i].status = "live" /\ truth' = [truth EXCEPT ![i] = r]
      /\ agg' = Install(agg, i, r) /\ ending = {} /\ Cardinality(agg.completed \cup {i}) <= BurstMax
  BY <1>1 DEF Ended, Listening
<1>4. agg \in Aggregator /\ truth \in Rows
  BY DEF FeedTyped, FlushTyped, EngineTyped
<1>5. PICK h : h = Heard
  OBVIOUS
<1>6. Framed(agg, truth, h, born, {})
  BY <1>3, <1>5 DEF FrameInv
<1>7. PICK u : u = truth'
  OBVIOUS
<1>8. u[i] = r /\ DOMAIN u = DOMAIN truth /\ \A j \in DOMAIN truth \ {i} : j \in DOMAIN u /\ u[j] = truth[j]
  BY <1>3, <1>4, <1>7, TruthExcept
<1>9. Framed(agg', u, h, born, {i})
  BY <1>2, <1>3, <1>4, <1>6, <1>8, DoneFramed
<1>10. Heard' = h /\ born' = born /\ ending' = {i}
  BY <1>5 DEF Ended, Heard, hub
<1> QED BY <1>7, <1>9, <1>10 DEF FrameInv, Ended

(* The Completed event installs the row the window ends with: as it is.    *)
LEMMA CompletedFramed ==
  ASSUME FeedTyped, FrameInv, NEW i \in Items, Completed(i)
  PROVE  FrameInv'
<1>1. PICK h : h = Heard
  OBVIOUS
<1>2. Framed(agg, truth, h, born, ending) /\ i \in ending /\ agg \in Aggregator
  BY <1>1 DEF FrameInv, Completed, FeedTyped, FlushTyped
<1>3. i \in ToSet(agg.done) /\ ending = {i}
  <2>1. agg.done \in Seq(Items) /\ \A j \in ending : Len(agg.done) > 0 /\ agg.done[Len(agg.done)] = j
    BY <1>2 DEF Framed, Aggregator
  <2>2. Len(agg.done) \in DOMAIN agg.done /\ agg.done[Len(agg.done)] = i
    BY <1>2, <2>1
  <2> QED BY <1>2, <2>1, <2>2 DEF ToSet
<1>4. i \in DOMAIN agg.current /\ agg.current[i] = truth[i]
  BY <1>2, <1>3 DEF Framed, Sound
<1>5. Install(agg, i, truth[i]) = agg
  BY <1>4, InstallNothing
<1>6. agg' = [agg EXCEPT !.completed = @ \cup {i}]
  BY <1>5 DEF Completed
<1>7. Steady(agg, agg') /\ agg'.completed = agg.completed \cup {i}
  BY <1>2, <1>6, QueuedSteady
<1>8. agg'.completed \cup {} = agg.completed \cup ending
  BY <1>3, <1>7
<1>9. Framed(agg', truth, h, born, {})
  BY <1>2, <1>7, <1>8, SteadyFramed
<1>10. Heard' = h /\ truth' = truth /\ born' = born /\ ending' = {}
  BY <1>1 DEF Completed, Heard, hub
<1> QED BY <1>9, <1>10 DEF FrameInv, Completed

LEMMA RemovedFramed ==
  ASSUME FeedTyped, FrameInv, NEW S \in SUBSET Items, Removed(S)
  PROVE  FrameInv'
<1>1. PICK h : h = Heard
  OBVIOUS
<1>2. Framed(agg, truth, h, born, {}) /\ ending = {} /\ agg \in Aggregator
  BY <1>1 DEF FrameInv, Removed, Listening, FeedTyped, FlushTyped
<1>3. S \subseteq born
  BY DEF Removed, FeedTyped, EngineTyped
<1>4. PICK u : u = truth'
  OBVIOUS
<1>5. DOMAIN u = DOMAIN truth \ S /\ \A j \in DOMAIN u : u[j] = truth[j]
  BY <1>4 DEF Removed, Without, Restrict
<1>6. Framed(agg', u, h, born, {})
  BY <1>2, <1>3, <1>5, ForgottenFramed DEF Removed
<1>7. Heard' = h /\ born' = born /\ ending' = {}
  BY <1>1, <1>2 DEF Removed, Heard, hub
<1> QED BY <1>4, <1>6, <1>7 DEF FrameInv, Removed

LEMMA FlushStepFramed ==
  ASSUME FeedTyped, FrameInv, Flush
  PROVE  FrameInv'
<1>1. agg \in Aggregator /\ told \in Rows /\ DOMAIN truth \subseteq born /\ ending \subseteq Items
  BY FcnsAre, RowsAre DEF FeedTyped, FlushTyped, HubTyped, EngineTyped
<1>2. Heard = told
  <2>1. outbox = <<>>
    BY DEF Flush, FrameInv, FeedTyped, FlushTyped
  <2> QED BY <2>1, ApplyAllNone DEF Heard
<1>3. Framed(agg, truth, told, born, ending)
  BY <1>2 DEF FrameInv
<1>4. IsFiniteSet(agg.completed \cup ending)
  <2>1. agg.completed \cup ending \subseteq Items /\ IsFiniteSet(Items)
    BY <1>1, FeedAssumption DEF Aggregator
  <2> QED BY <2>1, FS_Subset
<1>5. Framed(Flushed(agg), truth, ApplyAll(told, Batch(agg)), born, ending)
  BY <1>1, <1>3, <1>4, FlushFramed
<1>6. Heard' = ApplyAll(told, Batch(agg))
  BY DEF Heard, Flush, hub
<1> QED BY <1>5, <1>6 DEF FrameInv, Flush, engine

LEMMA EmitFramed ==
  ASSUME FeedTyped, FrameInv, Emit
  PROVE  FrameInv'
<1>1. outbox \in Seq(Frame) /\ Len(outbox) > 0 /\ Len(Tail(outbox)) < Len(outbox)
  BY DEF FeedTyped, FlushTyped, Emit
<1>2. Heard' = Heard
  <2>1. told' = Apply(told, Head(outbox)) /\ outbox' = Tail(outbox)
    BY DEF Emit, Publish
  <2> QED BY <1>1, <2>1, ApplyAllHead DEF Heard
<1> QED BY <1>2 DEF FrameInv, Emit, engine

LEMMA SilentFramed ==
  ASSUME FrameInv, UNCHANGED engine, UNCHANGED <<agg, flushing, outbox>>, told' = told
  PROVE  FrameInv'
BY DEF FrameInv, Heard, engine

LEMMA StaleFramed ==
  ASSUME FeedTyped, FrameInv, UNCHANGED engine, UNCHANGED <<outbox, told>>, NEW x, agg' = [agg EXCEPT !.stale = x],
         flushing' = flushing \/ Len(outbox) = 0
  PROVE  FrameInv'
<1>1. Steady(agg, agg') /\ agg'.completed = agg.completed
  BY QueuedSteady DEF FeedTyped, FlushTyped
<1>2. Framed(agg', truth, Heard, born, ending)
  BY <1>1, SteadyFramed DEF FrameInv
<1>3. Heard' = Heard
  BY DEF Heard
<1> QED BY <1>2, <1>3 DEF FrameInv, engine

LEMMA StepFramed ==
  ASSUME BurstMax <= MemDone, FeedTyped, FrameInv, [Next]_vars
  PROVE  FrameInv'
<1>1. CASE \E rows \in Rows : Recover(rows)
  BY <1>1, RecoverFramed
<1>2. CASE \E i \in Items : Completed(i)
  BY <1>2, CompletedFramed
<1>3. CASE \E i \in Items, v \in Values : Added(i, v)
  BY <1>3, AddedFramed
<1>4. CASE \E i \in Items, v \in Values : StatusChanged(i, v)
  BY <1>4, StatusChangedFramed
<1>5. CASE \E i \in Items, v \in Values : Ended(i, v)
  BY <1>5, EndedFramed
<1>6. CASE \E S \in SUBSET Items : Removed(S)
  BY <1>6, RemovedFramed
<1>7. CASE Flush
  BY <1>7, FlushStepFramed
<1>8. CASE Emit
  BY <1>8, EmitFramed
<1>9. CASE Republish
  <2>1. UNCHANGED engine /\ UNCHANGED <<outbox, told>> /\ Len(outbox) = 0
    BY <1>9, SetNone DEF Republish, hub
  <2>2. \E x : agg' = [agg EXCEPT !.stale = x]
    <3>1. CASE agg.stale
      BY <1>9, <3>1 DEF Republish
    <3>2. CASE ~agg.stale
      <4>1. agg' = agg
        BY <1>9, <3>2 DEF Republish
      <4>2. agg' = [agg EXCEPT !.stale = agg.stale]
        BY <4>1 DEF FeedTyped, FlushTyped, Aggregator
      <4> QED BY <4>2
    <3> QED BY <3>1, <3>2
  <2> QED BY <2>1, <2>2, StaleFramed
<1>10. CASE Notice
  <2>1. told' = told
    BY <1>10, OtherIsSilent DEF Notice, Publish
  <2> QED BY <1>10, <2>1, SilentFramed DEF Notice
<1>11. CASE Health
  <2>1. told' = told
    BY <1>11, OtherIsSilent DEF Health, Publish
  <2> QED BY <1>11, <2>1, StaleFramed DEF Health
<1>12. CASE Connect \/ SendSnapshot \/ CatchUp \/ Resume
  BY <1>12, SilentFramed DEF Connect, SendSnapshot, CatchUp, Resume, Serving
<1>13. CASE Forward \/ Lag \/ AskResume \/ Disconnect
  BY <1>13, SilentFramed DEF Forward, Lag, AskResume, Disconnect, Serving
<1>14. CASE UNCHANGED vars
  BY <1>14, SilentFramed DEF vars, hub
<1> QED BY <1>1, <1>2, <1>3, <1>4, <1>5, <1>6, <1>7, <1>8, <1>9, <1>10, <1>11, <1>12, <1>13, <1>14 DEF Next

(* What the invariant says when nothing is left to send.                   *)
LEMMA FramedIsTrue ==
  ASSUME FeedTyped, FrameInv
  PROVE  FramesAreTrue
<1>1. SUFFICES ASSUME Quiet PROVE /\ \A i \in DOMAIN told : i \in DOMAIN truth /\ told[i] = truth[i]
                                  /\ DOMAIN agg.current \subseteq DOMAIN told
  BY DEF FramesAreTrue
<1>2. PICK e : e = <<>>
  OBVIOUS
<1>3. ToSet(e) = {} /\ agg.dirty = e /\ agg.removed = {} /\ ~flushing
  BY <1>1, <1>2, SetNone DEF Quiet
<1>4. Heard = told
  <2>1. outbox = <<>>
    BY <1>3 DEF FrameInv, FeedTyped, FlushTyped
  <2> QED BY <2>1, ApplyAllNone DEF Heard
<1>5. Sound(agg, truth) /\ Honest(agg, truth, told)
  BY <1>4 DEF FrameInv, Framed
<1>6. \A i \in DOMAIN agg.current : /\ i \in DOMAIN told /\ told[i] = agg.current[i]
                                    /\ i \in DOMAIN truth /\ truth[i] = agg.current[i]
  BY <1>3, <1>5 DEF Sound, Honest
<1>7. \A i \in DOMAIN told \ DOMAIN agg.current : i \in DOMAIN truth /\ told[i] = truth[i]
  BY <1>3, <1>5 DEF Honest
<1> QED BY <1>6, <1>7

-----------------------------------------------------------------------------
(* The published generation.  A flush drains every dirty row, so that what *)
(* it republishes is what its frames have just said.                       *)
GenInv ==
  /\ flushing => Len(agg.dirty) = 0
  /\ next = Seed => DOMAIN told = {} /\ DOMAIN published.rows = {}
  /\ published.seq <= Newest
  /\ published.seq = Newest =>
       \A i \in DOMAIN published.rows : i \in DOMAIN told /\ told[i] = published.rows[i]

(* A flush whose budget is the number of rows drains them all.             *)
LEMMA FlushDrains ==
  ASSUME Cardinality(Items) <= DeltaBudget, NEW a \in Aggregator, IsInjective(a.dirty)
  PROVE  Len(Flushed(a).dirty) = 0
<1>1. PICK left : left = Sans(a.dirty, DOMAIN Whole(a))
  OBVIOUS
<1>2. left \in Seq(Items) /\ ToSet(left) = ToSet(a.dirty) \ DOMAIN Whole(a) /\ IsInjective(left)
  BY <1>1, SansItems, SansKeeps DEF Aggregator
<1>3. PICK n : n = Len(left)
  OBVIOUS
<1>4. n \in Nat /\ DOMAIN left = 1..n /\ \A k \in 1..n : left[k] \in Items
  BY <1>2, <1>3
<1>5. n <= DeltaBudget
  <2>1. CASE n = 0
    BY <2>1, Bounds
  <2>2. CASE n # 0
    <3>1. 1 \in 1..Len(left) /\ left[1] \in Items
      BY <1>3, <1>4, <2>2
    <3>2. Tidy(left, Items, Items) /\ IsFiniteSet(Items)
      BY <1>4, FeedAssumption DEF Tidy
    <3>3. Len(left) - 1 + 1 <= Cardinality(Items)
      BY <1>2, <3>1, <3>2, FewAreLate
    <3>4. Cardinality(Items) \in Nat
      BY <3>2, FS_CardinalityType
    <3> QED BY <1>3, <1>4, <3>3, <3>4, Bounds
  <2> QED BY <2>1, <2>2
<1>6. Rebased(a, Whole(a)).dirty = left
  BY <1>1 DEF Rebased, Aggregator
<1>7. (IF Len(left) < DeltaBudget THEN Len(left) ELSE DeltaBudget) = n
  BY <1>3, <1>4, <1>5, Bounds
<1>8. Drained(a) = ToSet(SubSeq(left, 1, n))
  BY <1>6, <1>7 DEF Drained
<1>9. SubSeq(left, 1, n) = left
  BY <1>2, <1>3
<1>10. ToSet(Flushed(a).dirty) = {}
  <2>1. Settled(a, Flushed(a))
    BY FlushedIs
  <2>2. ToSet(Flushed(a).dirty) = ToSet(a.dirty) \ (DOMAIN Whole(a) \cup Drained(a))
    BY <2>1 DEF Settled
  <2> QED BY <1>2, <1>8, <1>9, <2>2
<1>11. PICK d : d = Flushed(a).dirty
  OBVIOUS
<1>12. d \in Seq(Items)
  BY <1>11, FlushedTyped DEF Aggregator
<1>13. Len(d) \in Nat /\ DOMAIN d = 1..Len(d)
  BY <1>12
<1>14. Len(d) = 0
  <2>1. SUFFICES ASSUME Len(d) # 0 PROVE FALSE
    OBVIOUS
  <2>2. 1 \in DOMAIN d
    BY <1>13, <2>1
  <2> QED BY <1>10, <1>11, <2>2 DEF ToSet
<1> QED BY <1>11, <1>14

(* The generation at first, and after every step.                          *)
LEMMA GenInit == Init => GenInv
<1> SUFFICES ASSUME Init PROVE GenInv
  OBVIOUS
<1>1. PICK e : e = <<>>
  OBVIOUS
<1>2. DOMAIN e = {}
  BY <1>1, SetNone
<1>3. told = e /\ published = [seq |-> 0, rows |-> e] /\ next = Seed /\ ~flushing
  BY <1>1 DEF Init
<1>4. Newest \in Nat
  BY <1>3, Bounds DEF Newest
<1> QED BY <1>2, <1>3, <1>4 DEF GenInv

(* What a frame leaves of it.                                              *)
LEMMA PublishGen ==
  ASSUME HubTyped, SessionTyped, GenInv, NEW body, Publish(body), published' = published,
         flushing' => Len(agg'.dirty) = 0
  PROVE  GenInv'
<1>1. next \in Nat /\ next >= Seed /\ next' = next + 1 /\ published.seq \in Nat
  BY DEF HubTyped, SessionTyped, Publish
<1>2. next' # Seed /\ Newest' = next
  BY <1>1, Bounds DEF Newest
<1>3. published.seq <= Newest
  BY DEF GenInv
<1>4. published.seq <= next
  BY <1>1, <1>3, Bounds DEF Newest
<1>5. published.seq = next => DOMAIN published.rows = {}
  <2>1. SUFFICES ASSUME published.seq = next PROVE DOMAIN published.rows = {}
    OBVIOUS
  <2>2. next = Seed
    BY <1>1, <1>3, <2>1, Bounds DEF Newest
  <2> QED BY <2>2 DEF GenInv
<1> QED BY <1>2, <1>4, <1>5 DEF GenInv

(* A step of another part leaves the generation as it is.                  *)
LEMMA SameGen ==
  ASSUME GenInv, UNCHANGED <<next, told, published>>, flushing' => Len(agg'.dirty) = 0
  PROVE  GenInv'
<1>1. Newest' = Newest
  BY DEF Newest
<1> QED BY <1>1 DEF GenInv

(* The republished generation is what the frames have just told.           *)
LEMMA RepublishGen ==
  ASSUME FeedTyped, FrameInv, GenInv, Republish
  PROVE  GenInv'
<1>1. ~flushing' /\ next' = next /\ told' = told /\ flushing /\ outbox = <<>>
  BY DEF Republish, hub
<1>2. Newest' = Newest /\ Newest \in Nat
  BY <1>1, NewestTyped DEF Newest, FeedTyped
<1>3. CASE ~agg.stale
  BY <1>1, <1>3, SameGen DEF Republish
<1>4. CASE agg.stale
  <2>1. published' = [seq |-> Newest, rows |-> agg.current]
    BY <1>4 DEF Republish
  <2>2. Heard = told
    BY <1>1, ApplyAllNone DEF Heard
  <2>3. Sound(agg, truth) /\ Honest(agg, truth, told)
    BY <2>2 DEF FrameInv, Framed
  <2>4. ToSet(agg.dirty) = {}
    <3>1. agg.dirty \in Seq(Items) /\ Len(agg.dirty) = 0
      BY <1>1 DEF GenInv, FeedTyped, FlushTyped, Aggregator
    <3>2. agg.dirty = <<>>
      BY <3>1
    <3> QED BY <3>2, SetNone
  <2>5. \A i \in DOMAIN agg.current : i \in DOMAIN told /\ told[i] = agg.current[i]
    BY <2>3, <2>4 DEF Sound, Honest
  <2>6. next = Seed => DOMAIN told = {} /\ DOMAIN agg.current = {}
    BY <2>5 DEF GenInv
  <2>7. published'.seq = Newest /\ published'.rows = agg.current
    BY <2>1
  <2> QED BY <1>1, <1>2, <2>5, <2>6, <2>7 DEF GenInv
<1> QED BY <1>3, <1>4

(* Every step keeps it.                                                    *)
LEMMA StepGen ==
  ASSUME Cardinality(Items) <= DeltaBudget, FeedTyped, FrameInv, GenInv, [Next]_vars
  PROVE  GenInv'
<1>1. CASE \E rows \in Rows : Recover(rows)
  BY <1>1, SameGen DEF Recover, Listening, hub
<1>2. CASE \E i \in Items : Completed(i)
  BY <1>2, SameGen DEF Completed, hub
<1>3. CASE \E i \in Items, v \in Values : Added(i, v) \/ StatusChanged(i, v) \/ Ended(i, v)
  BY <1>3, SameGen DEF Added, StatusChanged, Ended, Listening, hub
<1>4. CASE \E S \in SUBSET Items : Removed(S)
  BY <1>4, SameGen DEF Removed, Listening, hub
<1>5. CASE Flush
  <2>1. Len(agg'.dirty) = 0
    <3>1. agg \in Aggregator /\ IsInjective(agg.dirty)
      BY DEF FeedTyped, FlushTyped, FrameInv, Framed, Sound
    <3>2. agg' = Flushed(agg)
      BY <1>5 DEF Flush
    <3> QED BY <3>1, <3>2, FlushDrains
  <2> QED BY <1>5, <2>1, SameGen DEF Flush, hub
<1>6. CASE Emit
  BY <1>6, PublishGen DEF Emit, FeedTyped, GenInv
<1>7. CASE Republish
  BY <1>7, RepublishGen
<1>8. CASE Notice
  BY <1>8, PublishGen DEF Notice, FeedTyped, GenInv
<1>9. CASE Health
  BY <1>9, PublishGen DEF Health, FeedTyped
<1>10. CASE Connect \/ SendSnapshot \/ CatchUp \/ Resume
  BY <1>10, SameGen DEF Connect, SendSnapshot, CatchUp, Resume, Serving, GenInv
<1>11. CASE Forward \/ Lag \/ AskResume \/ Disconnect
  BY <1>11, SameGen DEF Forward, Lag, AskResume, Disconnect, Serving, GenInv
<1>12. CASE UNCHANGED vars
  BY <1>12, SameGen DEF vars, hub, GenInv
<1> QED BY <1>1, <1>2, <1>3, <1>4, <1>5, <1>6, <1>7, <1>8, <1>9, <1>10, <1>11, <1>12 DEF Next

(* FramesAreTrue holds in every reachable state, if no more rows end       *)
(* between two flushes than the done window keeps: once the aggregator has *)
(* nothing left to send, a client that heard every frame has each row as   *)
(* the engine last told it, and no row that was removed.                   *)
THEOREM FramesTellTruth ==
  ASSUME BurstMax <= MemDone
  PROVE  Spec => []FramesAreTrue
<1>1. Init => FeedTyped /\ FrameInv
  BY InitTyped, FrameInit
<1>2. (FeedTyped /\ FrameInv) /\ [Next]_vars => (FeedTyped /\ FrameInv)'
  BY StepTyped, StepFramed
<1>3. FeedTyped /\ FrameInv => FramesAreTrue
  BY FramedIsTrue
<1> QED BY <1>1, <1>2, <1>3, PTL DEF Spec

(* ToldIsTruth holds in every reachable state, if moreover one flush may   *)
(* patch as many rows as there are: what is republished after the frames   *)
(* of a flush (StateView) is never in a state that no frame has carried.   *)
THEOREM ToldTruth ==
  ASSUME BurstMax <= MemDone, Cardinality(Items) <= DeltaBudget
  PROVE  Spec => []ToldIsTruth
<1> DEFINE IInv == FeedTyped /\ FrameInv /\ GenInv
<1>1. Init => IInv
  BY InitTyped, FrameInit, GenInit
<1>2. IInv /\ [Next]_vars => IInv'
  BY StepTyped, StepFramed, StepGen
<1>3. IInv => ToldIsTruth
  BY FramedIsTrue DEF ToldIsTruth, GenerationIsTold, GenInv
<1> QED BY <1>1, <1>2, <1>3, PTL DEF Spec

-----------------------------------------------------------------------------
(* What a client with the rows s lacks of the rows t of one that heard all *)
(* frames: nothing that it has is wrong, and a row with a baseline that it *)
(* does not have is still to come whole.                                   *)
Matches(s, t, known, coming) ==
  /\ \A i \in DOMAIN s : i \in DOMAIN t /\ s[i] = t[i]
  /\ (DOMAIN t \ DOMAIN s) \cap known \subseteq coming
Carried(b) == IF b.kind \in {"added", "completed"} THEN Ids(b) ELSE {}

(* A frame, row by row.                                                    *)
LEMMA ApplyIs ==
  ASSUME NEW s \in Rows, NEW b \in Frame
  PROVE  /\ b.kind \in {"added", "completed"} =>
              /\ DOMAIN Apply(s, b) = DOMAIN s \cup Ids(b)
              /\ \A i \in DOMAIN Apply(s, b) : Apply(s, b)[i] = IF i \in Ids(b) THEN b.rows[i] ELSE s[i]
         /\ b.kind = "removed" =>
              /\ DOMAIN Apply(s, b) = DOMAIN s \ Ids(b)
              /\ \A i \in DOMAIN Apply(s, b) : Apply(s, b)[i] = s[i]
         /\ b.kind = "delta" =>
              /\ DOMAIN Apply(s, b) = DOMAIN s
              /\ \A i \in DOMAIN s : Apply(s, b)[i] = IF i \in Ids(b) THEN Atop(b.rows[i], s[i]) ELSE s[i]
         /\ b.kind = "other" => Apply(s, b) = s
<1>1. CASE b.kind \in {"added", "completed"}
  <2>1. Apply(s, b) = Atop(b.rows, s)
    BY <1>1 DEF Apply
  <2> QED BY <1>1, <2>1 DEF Atop, Ids
<1>2. CASE b.kind = "removed"
  <2>1. Apply(s, b) = [i \in DOMAIN s \ Ids(b) |-> s[i]]
    BY <1>2 DEF Apply, Without, Restrict
  <2> QED BY <1>2, <2>1
<1>3. CASE b.kind = "delta"
  <2>1. PICK p : p = [i \in Ids(b) \cap DOMAIN s |-> b.rows[i]]
    OBVIOUS
  <2>2. Apply(s, b) = Over(p, s)
    BY <1>3, <2>1 DEF Apply, Restrict
  <2>3. DOMAIN p = Ids(b) \cap DOMAIN s /\ \A i \in DOMAIN p : p[i] = b.rows[i]
    BY <2>1
  <2>4. Over(p, s) = [i \in DOMAIN s |-> IF i \in DOMAIN p THEN Atop(p[i], s[i]) ELSE s[i]]
    BY <2>3 DEF Over
  <2> QED BY <1>3, <2>2, <2>3, <2>4
<1>4. CASE b.kind = "other"
  BY <1>4 DEF Apply
<1> QED BY <1>1, <1>2, <1>3, <1>4, FrameKinds DEF BodyKinds

(* Both clients apply a frame: what the first lacks, it lacks no more when *)
(* the frame carries it whole.                                             *)
LEMMA ApplyMatches ==
  ASSUME NEW s \in Rows, NEW t \in Rows, NEW b \in Frame, NEW known, NEW coming, NEW more,
         Matches(s, t, known, coming), coming \subseteq more \cup Carried(b)
  PROVE  Matches(Apply(s, b), Apply(t, b), known, more)
<1>1. PICK u : u = Apply(s, b)
  OBVIOUS
<1>2. PICK v : v = Apply(t, b)
  OBVIOUS
<1>3. CASE b.kind \in {"added", "completed"}
  <2>1. /\ DOMAIN u = DOMAIN s \cup Ids(b) /\ DOMAIN v = DOMAIN t \cup Ids(b)
        /\ \A i \in DOMAIN u : u[i] = IF i \in Ids(b) THEN b.rows[i] ELSE s[i]
        /\ \A i \in DOMAIN v : v[i] = IF i \in Ids(b) THEN b.rows[i] ELSE t[i]
    BY <1>1, <1>2, <1>3, ApplyIs
  <2>2. \A i \in DOMAIN u : i \in DOMAIN v /\ u[i] = v[i]
    BY <2>1 DEF Matches
  <2>3. (DOMAIN v \ DOMAIN u) \cap known \subseteq more
    BY <1>3, <2>1 DEF Matches, Carried
  <2> QED BY <1>1, <1>2, <2>2, <2>3 DEF Matches
<1>4. CASE b.kind = "removed"
  <2>1. /\ DOMAIN u = DOMAIN s \ Ids(b) /\ DOMAIN v = DOMAIN t \ Ids(b)
        /\ \A i \in DOMAIN u : u[i] = s[i]
        /\ \A i \in DOMAIN v : v[i] = t[i]
    BY <1>1, <1>2, <1>4, ApplyIs
  <2>2. coming \subseteq more
    BY <1>4 DEF Carried
  <2> QED BY <1>1, <1>2, <2>1, <2>2 DEF Matches
<1>5. CASE b.kind = "delta"
  <2>1. /\ DOMAIN u = DOMAIN s /\ DOMAIN v = DOMAIN t
        /\ \A i \in DOMAIN s : u[i] = IF i \in Ids(b) THEN Atop(b.rows[i], s[i]) ELSE s[i]
        /\ \A i \in DOMAIN t : v[i] = IF i \in Ids(b) THEN Atop(b.rows[i], t[i]) ELSE t[i]
    BY <1>1, <1>2, <1>5, ApplyIs
  <2>2. coming \subseteq more
    BY <1>5 DEF Carried
  <2>3. \A i \in DOMAIN s : i \in DOMAIN t /\ s[i] = t[i]
    BY DEF Matches
  <2>4. \A i \in DOMAIN u : i \in DOMAIN v /\ u[i] = v[i]
    BY <2>1, <2>3
  <2> QED BY <1>1, <1>2, <2>1, <2>2, <2>4 DEF Matches
<1>6. CASE b.kind = "other"
  BY <1>6, ApplyIs DEF Matches, Carried
<1> QED BY <1>3, <1>4, <1>5, <1>6, FrameKinds DEF BodyKinds

-----------------------------------------------------------------------------
(* Every delta of these frames finds its rows, when a client applies them  *)
(* in order.                                                               *)
Knows(rows, bodies) ==
  \A k \in DOMAIN bodies :
    bodies[k].kind = "delta" => Ids(bodies[k]) \subseteq DOMAIN ApplyAll(rows, SubSeq(bodies, 1, k - 1))

LEMMA KnowsNone == \A rows : Knows(rows, <<>>)
<1>1. DOMAIN <<>> = {}
  BY SetNone
<1> QED BY <1>1 DEF Knows

LEMMA KnowsMore ==
  ASSUME NEW rows, NEW s \in Seq(Frame), NEW x \in Frame, Knows(rows, s),
         x.kind = "delta" => Ids(x) \subseteq DOMAIN ApplyAll(rows, s)
  PROVE  Knows(rows, Append(s, x))
<1>1. PICK n : n = Len(s)
  OBVIOUS
<1>2. PICK u : u = Append(s, x)
  OBVIOUS
<1>3. n \in Nat /\ DOMAIN s = 1..n /\ DOMAIN u = 1..(n + 1) /\ u[n + 1] = x /\ \A k \in 1..n : u[k] = s[k]
  BY <1>1, <1>2
<1>4. ASSUME NEW k \in 1..(n + 1) PROVE SubSeq(u, 1, k - 1) = SubSeq(s, 1, k - 1)
  <2>1. \A j \in 1..(k - 1) : u[j] = s[j]
    BY <1>3
  <2> QED BY <1>1, <1>2, <1>3, <2>1
<1>5. SubSeq(s, 1, n) = s
  BY <1>1
<1>6. ASSUME NEW k \in DOMAIN u, u[k].kind = "delta"
      PROVE  Ids(u[k]) \subseteq DOMAIN ApplyAll(rows, SubSeq(u, 1, k - 1))
  <2>1. SubSeq(u, 1, k - 1) = SubSeq(s, 1, k - 1)
    BY <1>3, <1>4, <1>6
  <2>2. CASE k = n + 1
    <3>1. SubSeq(u, 1, k - 1) = s /\ u[k] = x
      BY <1>3, <1>5, <2>1, <2>2
    <3> QED BY <1>6, <3>1
  <2>3. CASE k # n + 1
    <3>1. k \in DOMAIN s /\ u[k] = s[k]
      BY <1>3, <1>6, <2>3
    <3> QED BY <1>6, <2>1, <3>1 DEF Knows
  <2> QED BY <2>2, <2>3
<1> QED BY <1>2, <1>6 DEF Knows

LEMMA KnowsHead ==
  ASSUME NEW rows, NEW s \in Seq(Frame), Len(s) > 0, Knows(rows, s)
  PROVE  /\ Head(s).kind = "delta" => Ids(Head(s)) \subseteq DOMAIN rows
         /\ Knows(Apply(rows, Head(s)), Tail(s))
<1>1. PICK n : n = Len(s)
  OBVIOUS
<1>2. PICK t : t = Tail(s)
  OBVIOUS
<1>3. /\ n \in Nat /\ n > 0 /\ DOMAIN s = 1..n /\ t \in Seq(Frame) /\ Len(t) = n - 1 /\ DOMAIN t = 1..(n - 1)
      /\ \A k \in 1..(n - 1) : t[k] = s[k + 1]
      /\ Head(s) = s[1]
  BY <1>1, <1>2
<1>4. Head(s).kind = "delta" => Ids(Head(s)) \subseteq DOMAIN rows
  <2>1. PICK e : e = <<>>
    OBVIOUS
  <2>2. SubSeq(s, 1, 1 - 1) = e
    BY <1>1, <1>3, <2>1
  <2>3. ApplyAll(rows, e) = rows
    BY <2>1, ApplyAllNone
  <2>4. 1 \in DOMAIN s
    BY <1>3
  <2>5. s[1].kind = "delta" => Ids(s[1]) \subseteq DOMAIN ApplyAll(rows, SubSeq(s, 1, 1 - 1))
    BY <2>4 DEF Knows
  <2> QED BY <1>3, <2>2, <2>3, <2>5
<1>5. ASSUME NEW k \in DOMAIN t, t[k].kind = "delta"
      PROVE  Ids(t[k]) \subseteq DOMAIN ApplyAll(Apply(rows, Head(s)), SubSeq(t, 1, k - 1))
  <2>1. k + 1 \in DOMAIN s /\ t[k] = s[k + 1] /\ k \in 1..(n - 1)
    BY <1>3
  <2>2. PICK p : p = SubSeq(s, 1, k)
    OBVIOUS
  <2>3. /\ p \in Seq(Frame) /\ Len(p) = k /\ Len(p) > 0 /\ Head(p) = Head(s)
        /\ \A j \in 1..k : p[j] = s[j]
    BY <1>1, <1>3, <2>1, <2>2
  <2>4. Tail(p) = SubSeq(t, 1, k - 1)
    <3>1. Tail(p) \in Seq(Frame) /\ Len(Tail(p)) = k - 1 /\ \A j \in 1..(k - 1) : Tail(p)[j] = p[j + 1]
      BY <2>1, <2>3
    <3>2. SubSeq(t, 1, k - 1) \in Seq(Frame) /\ Len(SubSeq(t, 1, k - 1)) = k - 1
          /\ \A j \in 1..(k - 1) : SubSeq(t, 1, k - 1)[j] = t[j]
      BY <1>3, <2>1
    <3>3. \A j \in 1..(k - 1) : p[j + 1] = t[j]
      BY <1>3, <2>1, <2>3
    <3> HIDE <2>2
    <3>4. PICK x : x = Tail(p)
      OBVIOUS
    <3>5. PICK y : y = SubSeq(t, 1, k - 1)
      OBVIOUS
    <3>6. x \in Seq(Frame) /\ y \in Seq(Frame) /\ Len(x) = Len(y) /\ \A j \in 1..Len(x) : x[j] = y[j]
      BY <2>1, <3>1, <3>2, <3>3, <3>4, <3>5
    <3>7. x = y
      BY <3>6
    <3> QED BY <3>4, <3>5, <3>7
  <2>5. ApplyAll(rows, p) = ApplyAll(Apply(rows, Head(s)), SubSeq(t, 1, k - 1))
    BY <2>3, <2>4, ApplyAllHead
  <2>6. (k + 1) - 1 = k
    BY <2>1
  <2> QED BY <1>5, <2>1, <2>2, <2>5, <2>6 DEF Knows
<1> QED BY <1>2, <1>4, <1>5 DEF Knows

-----------------------------------------------------------------------------
(* The bodies of the last m frames of some.                                *)
Latest(s, m) == [k \in 1..m |-> s[Len(s) - m + k].body]

LEMMA LatestTyped ==
  ASSUME NEW s \in Seq(Entry), NEW m \in 0..Len(s)
  PROVE  Latest(s, m) \in Seq(Frame) /\ Len(Latest(s, m)) = m
<1>1. Len(s) \in Nat /\ m \in Nat
  OBVIOUS
<1>2. \A k \in 1..m : s[Len(s) - m + k].body \in Frame
  <2>1. \A j \in 1..Len(s) : s[j] \in Entry
    OBVIOUS
  <2>2. \A k \in 1..m : Len(s) - m + k \in 1..Len(s)
    BY <1>1
  <2> QED BY <2>1, <2>2 DEF Entry
<1>3. Latest(s, m) \in [1..m -> Frame]
  BY <1>2 DEF Latest
<1> QED BY <1>1, <1>3

(* One more frame, and one fewer.                                          *)
LEMMA LatestMore ==
  ASSUME NEW s \in Seq(Entry), NEW t \in Seq(Entry), NEW m \in 0..Len(s), m < Len(t),
         \A k \in 1..m : t[Len(t) - 1 - m + k] = s[Len(s) - m + k]
  PROVE  Latest(t, m + 1) = Append(Latest(s, m), t[Len(t)].body)
<1>1. PICK n : n = Len(t)
  OBVIOUS
<1>2. n \in Nat /\ m \in Nat /\ m < n
  BY <1>1
<1>3. PICK u : u = Latest(s, m)
  OBVIOUS
<1>4. u \in Seq(Frame) /\ Len(u) = m /\ \A k \in 1..m : u[k] = t[n - 1 - m + k].body
  <2>1. u \in Seq(Frame) /\ Len(u) = m
    BY <1>3, LatestTyped
  <2>2. \A k \in 1..m : u[k] = s[Len(s) - m + k].body
    BY <1>3 DEF Latest
  <2> QED BY <1>1, <2>1, <2>2
<1>5. PICK v : v = Latest(t, m + 1)
  OBVIOUS
<1>6. v \in Seq(Frame) /\ Len(v) = m + 1 /\ \A k \in 1..(m + 1) : v[k] = t[n - (m + 1) + k].body
  <2>1. m + 1 \in 0..Len(t)
    BY <1>1, <1>2
  <2>2. v \in Seq(Frame) /\ Len(v) = m + 1
    BY <1>5, <2>1, LatestTyped
  <2>3. \A k \in 1..(m + 1) : v[k] = t[Len(t) - (m + 1) + k].body
    BY <1>5 DEF Latest
  <2> QED BY <1>1, <2>2, <2>3
<1>7. PICK x : x = t[n].body
  OBVIOUS
<1>8. x = v[m + 1] /\ \A k \in 1..m : v[k] = u[k]
  <2>1. n - (m + 1) + (m + 1) = n /\ \A k \in 1..m : n - (m + 1) + k = n - 1 - m + k
    BY <1>2
  <2>2. m + 1 \in 1..(m + 1) /\ \A k \in 1..m : k \in 1..(m + 1)
    BY <1>2
  <2>3. v[m + 1] = t[n - (m + 1) + (m + 1)].body
    BY <1>6, <2>2
  <2>4. ASSUME NEW k \in 1..m PROVE v[k] = u[k]
    <3>1. v[k] = t[n - (m + 1) + k].body /\ u[k] = t[n - 1 - m + k].body
      BY <1>4, <1>6, <2>2
    <3> QED BY <2>1, <3>1
  <2> QED BY <1>7, <2>1, <2>3, <2>4
<1>9. v = Append(u, x)
  <2>1. x \in Frame
    BY <1>2, <1>6, <1>8
  <2>2. PICK w : w = Append(u, x)
    OBVIOUS
  <2>3. w \in Seq(Frame) /\ Len(w) = m + 1 /\ w[m + 1] = x /\ \A k \in 1..m : w[k] = u[k]
    BY <1>4, <2>1, <2>2
  <2>4. \A k \in 1..(m + 1) : v[k] = w[k]
    <3> TAKE k \in 1..(m + 1)
    <3>1. k \in 1..m \/ k = m + 1
      BY <1>2
    <3> QED BY <1>8, <2>3, <3>1
  <2>5. v = w
    BY <1>6, <2>3, <2>4
  <2> QED BY <2>2, <2>5
<1> QED BY <1>1, <1>3, <1>5, <1>7, <1>9

LEMMA LatestHead ==
  ASSUME NEW s \in Seq(Entry), NEW m \in 1..Len(s)
  PROVE  Head(Latest(s, m)) = s[Len(s) - m + 1].body /\ Tail(Latest(s, m)) = Latest(s, m - 1)
<1>1. PICK n : n = Len(s)
  OBVIOUS
<1>2. n \in Nat /\ m \in Nat /\ m > 0 /\ m <= n /\ m \in 0..Len(s) /\ m - 1 \in 0..Len(s)
  BY <1>1
<1>3. PICK u : u = Latest(s, m)
  OBVIOUS
<1>4. PICK v : v = Latest(s, m - 1)
  OBVIOUS
<1>5. u \in Seq(Frame) /\ Len(u) = m /\ \A k \in 1..m : u[k] = s[n - m + k].body
  <2>1. u \in Seq(Frame) /\ Len(u) = m
    BY <1>2, <1>3, LatestTyped
  <2> QED BY <1>1, <1>3, <2>1 DEF Latest
<1>6. v \in Seq(Frame) /\ Len(v) = m - 1 /\ \A k \in 1..(m - 1) : v[k] = s[n - (m - 1) + k].body
  <2>1. v \in Seq(Frame) /\ Len(v) = m - 1
    BY <1>2, <1>4, LatestTyped
  <2> QED BY <1>1, <1>4, <2>1 DEF Latest
<1>7. \A k \in 1..(m - 1) : v[k] = u[k + 1]
  <2> TAKE k \in 1..(m - 1)
  <2>1. k + 1 \in 1..m /\ n - m + (k + 1) = n - (m - 1) + k
    BY <1>2
  <2> QED BY <1>5, <1>6, <2>1
<1>8. Tail(u) = v
  <2>1. PICK w : w = Tail(u)
    OBVIOUS
  <2>2. w \in Seq(Frame) /\ Len(w) = m - 1 /\ \A k \in 1..(m - 1) : w[k] = u[k + 1]
    BY <1>2, <1>5, <2>1
  <2>3. w = v
    BY <1>6, <1>7, <2>2
  <2> QED BY <2>1, <2>3
<1>9. Head(u) = s[n - m + 1].body
  BY <1>2, <1>5
<1> QED BY <1>1, <1>3, <1>4, <1>8, <1>9

-----------------------------------------------------------------------------
(* Sequences that hold the last frames: one more pushes the first out of a *)
(* full one.                                                               *)
LEMMA Pushed ==
  ASSUME NEW S, NEW s \in Seq(S), NEW size \in Nat \ {0}, Len(s) <= size, NEW x \in S, NEW u,
         Len(s) = size => u = Append(Tail(s), x), Len(s) # size => u = Append(s, x)
  PROVE  /\ u \in Seq(S) /\ Len(u) \in Nat /\ Len(u) = IF Len(s) = size THEN Len(s) ELSE Len(s) + 1
         /\ u[Len(u)] = x
         /\ \A k \in 1..(Len(u) - 1) : u[k] = s[Len(s) - (Len(u) - 1) + k]
<1>1. PICK n : n = Len(s)
  OBVIOUS
<1>2. n \in Nat
  BY <1>1
<1>3. CASE n = size
  <2>1. PICK t : t = Tail(s)
    OBVIOUS
  <2>2. /\ n > 0 /\ t \in Seq(S) /\ Len(t) = n - 1
        /\ \A k \in 1..(n - 1) : t[k] = s[k + 1]
    <3>1. n \in Nat /\ n > 0 /\ s \in Seq(S) /\ Len(s) = n
      BY <1>1, <1>2, <1>3
    <3>2. Tail(s) \in Seq(S) /\ Len(Tail(s)) = n - 1
      BY <3>1
    <3>3. \A k \in 1..(n - 1) : Tail(s)[k] = s[k + 1]
      BY <3>1
    <3> QED BY <2>1, <3>1, <3>2, <3>3
  <2>3. u = Append(t, x)
    BY <1>1, <1>3, <2>1
  <2>4. u \in Seq(S) /\ Len(u) = n /\ u[n] = x /\ \A k \in 1..(n - 1) : u[k] = t[k]
    <3>1. u \in Seq(S) /\ Len(u) = (n - 1) + 1 /\ u[(n - 1) + 1] = x
      BY <2>2, <2>3
    <3>2. \A k \in 1..(n - 1) : u[k] = t[k]
      BY <2>2, <2>3
    <3>3. (n - 1) + 1 = n
      BY <1>2
    <3> QED BY <3>1, <3>2, <3>3
  <2>5. \A k \in 1..(n - 1) : n - (n - 1) + k = k + 1
    BY <1>2
  <2> QED BY <1>1, <1>2, <1>3, <2>2, <2>4, <2>5
<1>4. CASE n # size
  <2>1. u = Append(s, x)
    BY <1>1, <1>4
  <2>2. u \in Seq(S) /\ Len(u) = n + 1 /\ u[n + 1] = x /\ \A k \in 1..n : u[k] = s[k]
    BY <1>1, <1>2, <2>1
  <2>3. (n + 1) - 1 = n /\ \A k \in 1..n : n - n + k = k
    BY <1>2
  <2>4. PICK m : m = Len(u)
    OBVIOUS
  <2>5. m = n + 1 /\ m - 1 = n /\ m \in Nat
    BY <1>2, <2>2, <2>3, <2>4
  <2>6. \A k \in 1..n : u[k] = s[n - n + k]
    BY <2>2, <2>3
  <2>7. u[m] = x /\ \A k \in 1..(m - 1) : u[k] = s[n - (m - 1) + k]
    BY <2>2, <2>5, <2>6
  <2> QED BY <1>1, <1>4, <2>2, <2>4, <2>5, <2>7
<1> QED BY <1>3, <1>4

(* What sits between two numbers, in a sequence numbered from b.           *)
Final(s, m) == [k \in 1..m |-> s[Len(s) - m + k]]
LEMMA FinalTyped ==
  ASSUME NEW s \in Seq(Entry), NEW m \in 0..Len(s)
  PROVE  Final(s, m) \in Seq(Entry) /\ Len(Final(s, m)) = m
<1>1. Len(s) \in Nat /\ m \in Nat
  OBVIOUS
<1>2. \A k \in 1..m : s[Len(s) - m + k] \in Entry
  <2>1. \A j \in 1..Len(s) : s[j] \in Entry
    OBVIOUS
  <2>2. \A k \in 1..m : Len(s) - m + k \in 1..Len(s)
    BY <1>1
  <2> QED BY <2>1, <2>2
<1>3. Final(s, m) \in [1..m -> Entry]
  BY <1>2 DEF Final
<1> QED BY <1>1, <1>3

LEMMA FinalMore ==
  ASSUME NEW s \in Seq(Entry), NEW m \in 0..Len(s), NEW x \in Entry
  PROVE  Final(Append(s, x), m + 1) = Append(Final(s, m), x)
<1>1. PICK n : n = Len(s)
  OBVIOUS
<1>2. n \in Nat /\ m \in Nat /\ m <= n
  BY <1>1
<1>3. PICK t : t = Append(s, x)
  OBVIOUS
<1>4. t \in Seq(Entry) /\ Len(t) = n + 1 /\ t[n + 1] = x /\ \A k \in 1..n : t[k] = s[k]
  BY <1>1, <1>3
<1>5. PICK u : u = Final(s, m)
  OBVIOUS
<1>6. u \in Seq(Entry) /\ Len(u) = m /\ \A k \in 1..m : u[k] = s[n - m + k]
  <2>1. u \in Seq(Entry) /\ Len(u) = m
    BY <1>5, FinalTyped
  <2> QED BY <1>1, <1>5, <2>1 DEF Final
<1>7. PICK v : v = Final(t, m + 1)
  OBVIOUS
<1>8. v \in Seq(Entry) /\ Len(v) = m + 1 /\ \A k \in 1..(m + 1) : v[k] = t[n - m + k]
  <2>1. m + 1 \in 0..Len(t)
    BY <1>2, <1>4
  <2>2. v \in Seq(Entry) /\ Len(v) = m + 1
    BY <1>4, <1>7, <2>1, FinalTyped
  <2>3. \A k \in 1..(m + 1) : v[k] = t[(n + 1) - (m + 1) + k]
    BY <1>4, <1>7 DEF Final
  <2>4. \A k \in 1..(m + 1) : (n + 1) - (m + 1) + k = n - m + k
    BY <1>2
  <2> QED BY <2>2, <2>3, <2>4
<1>9. PICK w : w = Append(u, x)
  OBVIOUS
<1>10. w \in Seq(Entry) /\ Len(w) = m + 1 /\ w[m + 1] = x /\ \A k \in 1..m : w[k] = u[k]
  BY <1>6, <1>9
<1>11. ASSUME NEW k \in 1..(m + 1) PROVE v[k] = w[k]
  <2>1. CASE k = m + 1
    <3>1. n - m + k = n + 1
      BY <1>2, <2>1
    <3> QED BY <1>4, <1>8, <1>10, <2>1, <3>1
  <2>2. CASE k # m + 1
    <3>1. k \in 1..m /\ n - m + k \in 1..n
      BY <1>2, <2>2
    <3> QED BY <1>4, <1>6, <1>8, <1>10, <3>1
  <2> QED BY <2>1, <2>2
<1>12. v = w
  BY <1>8, <1>10, <1>11
<1> QED BY <1>3, <1>5, <1>7, <1>9, <1>12

(* Two sets that agree on a sequence leave the same of it.                 *)
LEMMA SansSame ==
  ASSUME NEW S, NEW s \in Seq(S), NEW A, NEW B, \A x \in ToSet(s) : x \in A <=> x \in B
  PROVE  Sans(s, A) = Sans(s, B)
<1> DEFINE Good == {t \in Seq(S) : (\A x \in ToSet(t) : x \in A <=> x \in B) => Sans(t, A) = Sans(t, B)}
<1>1. <<>> \in Good
  <2>1. Sans(<<>>, A) = <<>> /\ Sans(<<>>, B) = <<>>
    BY SansNone
  <2>2. <<>> \in Seq(S)
    OBVIOUS
  <2> QED BY <2>1, <2>2
<1>2. ASSUME NEW t \in Seq(S), NEW x \in S, t \in Good PROVE Append(t, x) \in Good
  <2>1. PICK u : u = Append(t, x)
    OBVIOUS
  <2>2. u \in Seq(S) /\ ToSet(u) = ToSet(t) \cup {x}
    BY <2>1, SetMore
  <2>3. Sans(u, A) = IF x \in A THEN Sans(t, A) ELSE Append(Sans(t, A), x)
    BY <2>1, SansMore
  <2>4. Sans(u, B) = IF x \in B THEN Sans(t, B) ELSE Append(Sans(t, B), x)
    BY <2>1, SansMore
  <2>5. (\A y \in ToSet(u) : y \in A <=> y \in B) => Sans(t, A) = Sans(t, B) /\ (x \in A <=> x \in B)
    BY <1>2, <2>2
  <2>6. (\A y \in ToSet(u) : y \in A <=> y \in B) => Sans(u, A) = Sans(u, B)
    BY <2>3, <2>4, <2>5
  <2> QED BY <2>1, <2>2, <2>6
<1> HIDE DEF Good
<1>3. s \in Good
  BY <1>1, <1>2, SeqInduction
<1> QED BY <1>3 DEF Good

(* What is left without the frames up to a number are the last ones.       *)
LEMMA SansOld ==
  ASSUME NEW s \in Seq(Entry), NEW b \in Int, \A k \in 1..Len(s) : s[k].seq = b + k,
         NEW since \in Int, b <= since
  PROVE  Sans(s, {e \in ToSet(s) : e.seq <= since}) = Final(s, b + Len(s) - since)
<1> DEFINE Out == {e \in Entry : e.seq <= since}
           Fits(t) == (\A k \in 1..Len(t) : t[k].seq = b + k) => Sans(t, Out) = Final(t, b + Len(t) - since)
           Good == {t \in Seq(Entry) : Fits(t)}
<1> HIDE DEF Out
<1>0. ASSUME NEW t, NEW m \in Int, m <= 0 PROVE Final(t, m) = <<>>
  <2>1. 1..m = {}
    BY <1>0
  <2>2. Final(t, m) = [k \in {} |-> t[Len(t) - m + k]]
    BY <2>1 DEF Final
  <2>3. PICK f : f = [k \in {} |-> t[Len(t) - m + k]]
    OBVIOUS
  <2>4. f \in [1..0 -> {}]
    BY <2>3
  <2>5. f \in Seq({}) /\ Len(f) = 0
    BY <2>4
  <2> QED BY <2>2, <2>3, <2>5
<1>1. <<>> \in Good
  <2>1. PICK e : e = <<>>
    OBVIOUS
  <2>2. e \in Seq(Entry) /\ Len(e) = 0 /\ Sans(e, Out) = e
    BY <2>1, SansNone
  <2>3. b + Len(e) - since \in Int /\ b + Len(e) - since <= 0
    BY <2>2
  <2>4. Final(e, b + Len(e) - since) = e
    BY <1>0, <2>1, <2>3
  <2>5. Fits(e)
    BY <2>2, <2>4
  <2> QED BY <2>1, <2>2, <2>5
<1>2. ASSUME NEW t \in Seq(Entry), NEW x \in Entry, t \in Good PROVE Append(t, x) \in Good
  <2>1. PICK u : u = Append(t, x)
    OBVIOUS
  <2>2. PICK n : n = Len(t)
    OBVIOUS
  <2>3. u \in Seq(Entry) /\ n \in Nat /\ Len(u) = n + 1 /\ u[n + 1] = x /\ \A k \in 1..n : u[k] = t[k]
    BY <2>1, <2>2
  <2>4. Sans(u, Out) = IF x \in Out THEN Sans(t, Out) ELSE Append(Sans(t, Out), x)
    BY <2>1, SansMore
  <2>5. SUFFICES ASSUME \A k \in 1..(n + 1) : u[k].seq = b + k
                 PROVE  Sans(u, Out) = Final(u, b + (n + 1) - since)
    BY <2>1, <2>3
  <2>6. \A k \in 1..n : t[k].seq = b + k
    <3>1. \A k \in 1..n : k \in 1..(n + 1)
      BY <2>3
    <3> QED BY <2>3, <2>5, <3>1
  <2>7. Sans(t, Out) = Final(t, b + n - since)
    BY <1>2, <2>2, <2>6
  <2>8. x.seq = b + (n + 1)
    <3>1. n + 1 \in 1..(n + 1)
      BY <2>3
    <3> QED BY <2>3, <2>5, <3>1
  <2>9. CASE b + (n + 1) <= since
    <3>1. x \in Out
      BY <2>8, <2>9 DEF Out
    <3>2. b + n - since \in Int /\ b + n - since <= 0 /\ b + (n + 1) - since \in Int /\ b + (n + 1) - since <= 0
      BY <2>3, <2>9
    <3>3. Final(t, b + n - since) = <<>> /\ Final(u, b + (n + 1) - since) = <<>>
      BY <1>0, <3>2
    <3> QED BY <2>4, <2>7, <3>1, <3>3
  <2>10. CASE ~(b + (n + 1) <= since)
    <3>1. x \notin Out
      BY <2>8, <2>10 DEF Out
    <3>2. PICK m : m = b + n - since
      OBVIOUS
    <3>3. m \in 0..n /\ b + (n + 1) - since = m + 1
      BY <2>3, <2>10, <3>2
    <3>4. Final(u, m + 1) = Append(Final(t, m), x)
      BY <2>1, <2>2, <3>3, FinalMore
    <3> QED BY <2>4, <2>7, <3>1, <3>2, <3>3, <3>4
  <2> QED BY <2>9, <2>10
<1> HIDE DEF Good
<1>3. s \in Good
  BY <1>1, <1>2, SeqInduction
<1>4. Sans(s, Out) = Final(s, b + Len(s) - since)
  BY <1>3 DEF Good
<1>5. \A x \in ToSet(s) : x \in Entry
  <2>1. \A k \in DOMAIN s : s[k] \in Entry
    OBVIOUS
  <2> QED BY <2>1 DEF ToSet
<1>6. PICK T : T = {e \in ToSet(s) : e.seq <= since}
  OBVIOUS
<1>7. \A x \in ToSet(s) : x \in T <=> x \in Out
  BY <1>5, <1>6 DEF Out
<1>8. Sans(s, T) = Sans(s, Out)
  BY <1>7, SansSame
<1> QED BY <1>4, <1>6, <1>8

(* The bodies of the last frames, as a session computes them.              *)
LEMMA BodiesLatest ==
  ASSUME NEW s \in Seq(Entry), NEW b \in Int, \A k \in 1..Len(s) : s[k].seq = b + k,
         NEW since \in Int, b <= since, NEW e, e = Sans(s, {x \in ToSet(s) : x.seq <= since}), since <= b + Len(s)
  PROVE  [k \in DOMAIN e |-> e[k].body] = Latest(s, b + Len(s) - since)
<1>1. PICK m : m = b + Len(s) - since
  OBVIOUS
<1>2. m \in 0..Len(s) /\ m \in Nat
  <2>1. Len(s) \in Nat
    OBVIOUS
  <2> QED BY <1>1, <2>1
<1>3. e = Final(s, m)
  BY <1>1, SansOld
<1>4. DOMAIN e = 1..m /\ \A k \in 1..m : e[k] = s[Len(s) - m + k]
  BY <1>3 DEF Final
<1>5. [k \in DOMAIN e |-> e[k].body] = [k \in 1..m |-> s[Len(s) - m + k].body]
  BY <1>4
<1> QED BY <1>1, <1>5 DEF Latest

-----------------------------------------------------------------------------
(* The rows that the frames of a queue carry whole; a queue in which a     *)
(* delta comes last and patches rows with a baseline only.                 *)
Coming(q) == {i \in Items : \E k \in DOMAIN q : i \in Carried(q[k])}
Ends(q, known) == \A k \in DOMAIN q : q[k].kind = "delta" => k = Len(q) /\ Ids(q[k]) \subseteq known

LEMMA ComingHead ==
  ASSUME NEW q \in Seq(Frame), Len(q) > 0
  PROVE  /\ Head(q) \in Frame /\ Tail(q) \in Seq(Frame) /\ Len(Tail(q)) = Len(q) - 1
         /\ Coming(q) \subseteq Coming(Tail(q)) \cup Carried(Head(q))
         /\ \A known : Ends(q, known) => Ends(Tail(q), known)
<1>1. PICK n : n = Len(q)
  OBVIOUS
<1>2. PICK t : t = Tail(q)
  OBVIOUS
<1>3. n \in Nat /\ n > 0 /\ DOMAIN q = 1..n /\ t \in Seq(Frame) /\ Len(t) = n - 1 /\ DOMAIN t = 1..(n - 1)
  BY <1>1, <1>2
<1>4. \A k \in 1..(n - 1) : t[k] = q[k + 1]
  BY <1>1, <1>2, <1>3
<1>5. Head(q) = q[1] /\ Head(q) \in Frame
  BY <1>1, <1>3
<1>6. Coming(q) \subseteq Coming(t) \cup Carried(Head(q))
  <2>1. SUFFICES ASSUME NEW i \in Items, NEW k \in 1..n, i \in Carried(q[k])
                 PROVE  i \in Coming(t) \cup Carried(Head(q))
    BY <1>3 DEF Coming
  <2>2. CASE k = 1
    BY <1>5, <2>1, <2>2
  <2>3. CASE k # 1
    <3>1. k - 1 \in 1..(n - 1) /\ (k - 1) + 1 = k
      BY <1>3, <2>3
    <3>2. t[k - 1] = q[(k - 1) + 1]
      BY <1>4, <3>1
    <3>3. i \in Carried(t[k - 1])
      BY <2>1, <3>1, <3>2
    <3> QED BY <1>3, <3>1, <3>3 DEF Coming
  <2> QED BY <2>2, <2>3
<1>7. ASSUME NEW known, Ends(q, known) PROVE Ends(t, known)
  <2>1. SUFFICES ASSUME NEW k \in 1..(n - 1), t[k].kind = "delta"
                 PROVE  k = Len(t) /\ Ids(t[k]) \subseteq known
    BY <1>3 DEF Ends
  <2>2. k + 1 \in 1..n /\ t[k] = q[k + 1]
    BY <1>3, <1>4
  <2>3. k + 1 = Len(q) /\ Ids(q[k + 1]) \subseteq known
    BY <1>3, <1>7, <2>1, <2>2 DEF Ends
  <2> QED BY <1>1, <1>3, <2>2, <2>3
<1> QED BY <1>1, <1>2, <1>3, <1>5, <1>6, <1>7

(* The frames of a batch bring every row it makes a baseline of, and its   *)
(* delta is the last of them.                                              *)
LEMMA BatchBrings ==
  ASSUME NEW a \in Aggregator
  PROVE  DOMAIN Whole(a) \subseteq Coming(Batch(a)) /\ Ends(Batch(a), DOMAIN a.last_sent)
<1>1. PICK ann : ann = Announced(a)
  OBVIOUS
<1>2. ann \in Seq(SUBSET Items)
  BY <1>1, AnnouncedTyped
<1>3. PICK first : first = Tellings(a, ann)
  OBVIOUS
<1>4. PICK c : c = Body("completed", Views(a, a.completed))
  OBVIOUS
<1>5. PICK r : r = Body("removed", [i \in a.removed |-> <<>>])
  OBVIOUS
<1>6. PICK p : p = Patches(a)
  OBVIOUS
<1>7. PICK d : d = Body("delta", p)
  OBVIOUS
<1>8. first \in Seq(Frame)
  BY <1>2, <1>3, TellingsAre
<1>9. c \in Frame /\ d \in Frame
  BY <1>4, <1>6, <1>7, ViewsTyped, PatchesTyped DEF Body, Frame
<1>10. r \in Frame
  <2>1. PICK m : m = [i \in a.removed |-> <<>>]
    OBVIOUS
  <2>2. PICK e : e = <<>>
    OBVIOUS
  <2>3. IsFcn(m) /\ DOMAIN m \subseteq Items /\ \A i \in DOMAIN m : m[i] \in {e}
    BY <2>1, <2>2 DEF IsFcn, Aggregator
  <2>4. m \in Fcns(Items, {e})
    BY <2>3, FcnsAre
  <2> QED BY <1>5, <2>1, <2>2, <2>4 DEF Body, Frame
<1>11. PICK s1 : s1 = Append(first, c)
  OBVIOUS
<1>12. PICK s2 : s2 = Append(s1, r)
  OBVIOUS
<1>13. PICK s3 : s3 = Append(s2, d)
  OBVIOUS
<1>14. s1 \in Seq(Frame) /\ s2 \in Seq(Frame) /\ s3 \in Seq(Frame)
  BY <1>8, <1>9, <1>10, <1>11, <1>12, <1>13
<1>15. Batch(a) = Carrying(s3)
  <2>1. first \o <<c, r, d>> = s3
    BY <1>8, <1>9, <1>10, <1>11, <1>12, <1>13
  <2> QED BY <1>1, <1>3, <1>4, <1>5, <1>6, <1>7, <2>1 DEF Batch, Tellings
<1>16. ToSet(s2) = ToSet(first) \cup {c, r} /\ ToSet(s3) = ToSet(s2) \cup {d}
  <2>1. ToSet(s1) = ToSet(first) \cup {c}
    BY <1>8, <1>11, SetMore
  <2>2. ToSet(s2) = ToSet(s1) \cup {r}
    BY <1>12, <1>14, SetMore
  <2>3. ToSet(s3) = ToSet(s2) \cup {d}
    BY <1>13, <1>14, SetMore
  <2> QED BY <2>1, <2>2, <2>3
<1>17. PICK Out : Out = {b \in ToSet(s3) : b.rows = <<>>}
  OBVIOUS
<1>18. PICK q : q = Batch(a)
  OBVIOUS
<1>19. q = Sans(s3, Out) /\ q \in Seq(Frame) /\ ToSet(q) = ToSet(s3) \ Out
  <2>1. q = Sans(s3, Out)
    BY <1>15, <1>17, <1>18 DEF Carrying
  <2> QED BY <1>14, <2>1, SansItems, SansKeeps
<1>20. \A g \in DOMAIN ann : Body("added", Views(a, ann[g])) \in ToSet(first)
  BY <1>3 DEF Tellings, ToSet
<1>21. \A b \in ToSet(first) : b.kind = "added"
  BY <1>3 DEF Tellings, ToSet, Body
<1>22. ASSUME NEW b \in ToSet(s3), NEW i \in Items, i \in Carried(b) PROVE i \in Coming(q)
  <2>1. DOMAIN b.rows # {}
    BY <1>22 DEF Carried, Ids
  <2>2. b.rows # <<>>
    BY <2>1, SetNone
  <2>3. b \in ToSet(q)
    BY <1>17, <1>19, <2>2
  <2> QED BY <1>22, <2>3 DEF Coming, ToSet
<1>23. ASSUME NEW i \in DOMAIN Whole(a) PROVE i \in Coming(q)
  <2>1. i \in Items /\ i \in DOMAIN a.current /\ i \in a.completed \cup UNION ToSet(ann)
    <3>1. i \in (a.completed \cup UNION ToSet(ann)) \cap DOMAIN a.current
      BY <1>1, WholeIs
    <3>2. DOMAIN a.current \subseteq Items
      BY FcnsAre, RowsAre DEF Aggregator
    <3> QED BY <3>1, <3>2
  <2>2. CASE i \in a.completed
    <3>1. i \in Carried(c)
      BY <1>4, <2>1, <2>2 DEF Carried, Ids, Body, Views, Restrict
    <3> QED BY <1>16, <1>22, <2>1, <3>1
  <2>3. ASSUME NEW S \in ToSet(ann), i \in S PROVE i \in Coming(q)
    <3>1. PICK g \in DOMAIN ann : S = ann[g]
      BY DEF ToSet
    <3>2. PICK b : b = Body("added", Views(a, ann[g]))
      OBVIOUS
    <3>3. i \in Carried(b)
      BY <2>1, <2>3, <3>1, <3>2 DEF Carried, Ids, Body, Views, Restrict
    <3>4. b \in ToSet(s3)
      BY <1>16, <1>20, <3>2
    <3> QED BY <1>22, <2>1, <3>3, <3>4
  <2> QED BY <2>1, <2>2, <2>3
<1>24. Ids(d) \subseteq DOMAIN a.last_sent
  <2>1. DOMAIN p \subseteq DOMAIN a.last_sent
    BY <1>6, PatchesAre, DrainedTyped
  <2> QED BY <1>7, <2>1 DEF Body, Ids
<1>25. PICK t : t = Sans(s2, Out)
  OBVIOUS
<1>26. t \in Seq(Frame) /\ ToSet(t) \subseteq ToSet(s2)
  BY <1>14, <1>25, SansItems, SansKeeps
<1>27. \A k \in DOMAIN t : t[k].kind # "delta"
  <2>1. \A b \in ToSet(s2) : b.kind # "delta"
    BY <1>4, <1>5, <1>16, <1>21 DEF Body
  <2> QED BY <1>26, <2>1 DEF ToSet
<1>28. q = IF d \in Out THEN t ELSE Append(t, d)
  BY <1>9, <1>13, <1>14, <1>19, <1>25, SansMore
<1>29. Ends(q, DOMAIN a.last_sent)
  <2>1. CASE d \in Out
    BY <1>27, <1>28, <2>1 DEF Ends
  <2>2. CASE d \notin Out
    <3>1. q = Append(t, d)
      BY <1>28, <2>2
    <3>2. /\ DOMAIN q = 1..(Len(t) + 1) /\ Len(t) \in Nat /\ q[Len(t) + 1] = d
          /\ \A k \in 1..Len(t) : k \in DOMAIN t /\ q[k] = t[k]
      BY <1>26, <3>1, SetMore
    <3>3. Len(q) = Len(t) + 1
      BY <1>9, <1>26, <3>1
    <3>4. ASSUME NEW k \in DOMAIN q, q[k].kind = "delta" PROVE k = Len(t) + 1
      <4>1. k \notin 1..Len(t)
        BY <1>27, <3>2, <3>4
      <4> QED BY <3>2, <4>1
    <3> QED BY <1>24, <3>2, <3>3, <3>4 DEF Ends
  <2> QED BY <2>1, <2>2
<1> QED BY <1>18, <1>23, <1>29

-----------------------------------------------------------------------------
(* rows at the number since, and the frames behind it of the sequence s    *)
(* that ends with the number n: they make the rows t, but for what comes.  *)
Catches(rows, since, n, s, t, known, coming) ==
  since \in (n - Len(s))..n =>
    /\ Matches(ApplyAll(rows, Latest(s, n - since)), t, known, coming)
    /\ Knows(rows, Latest(s, n - since))

(* More rows have a baseline, and those come whole.                        *)
LEMMA CatchesAlso ==
  ASSUME NEW rows, NEW since, NEW n, NEW s, NEW t, NEW known, NEW coming, NEW more, NEW later,
         Catches(rows, since, n, s, t, known, coming),
         coming \subseteq later, (more \ known) \cap DOMAIN t \subseteq later
  PROVE  Catches(rows, since, n, s, t, more, later)
<1>1. ASSUME NEW r, Matches(r, t, known, coming) PROVE Matches(r, t, more, later)
  BY <1>1 DEF Matches
<1> QED BY <1>1 DEF Catches

(* Rows that are the others' already.                                      *)
LEMMA CatchesNow ==
  ASSUME NEW rows, NEW n \in Int, NEW s \in Seq(Entry), NEW t, NEW known, NEW coming, Matches(rows, t, known, coming)
  PROVE  Catches(rows, n, n, s, t, known, coming)
<1>1. PICK e : e = <<>>
  OBVIOUS
<1>2. Latest(s, n - n) = e
  <2>1. n - n = 0 /\ 0 \in 0..Len(s)
    OBVIOUS
  <2>2. PICK l : l = Latest(s, 0)
    OBVIOUS
  <2>3. l \in Seq(Frame) /\ Len(l) = 0
    BY <2>1, <2>2, LatestTyped
  <2>4. l = e
    BY <1>1, <2>3
  <2> QED BY <2>1, <2>2, <2>4
<1>3. ApplyAll(rows, e) = rows /\ Knows(rows, e)
  BY <1>1, ApplyAllNone, KnowsNone
<1> QED BY <1>2, <1>3 DEF Catches

(* One more frame, for both.                                               *)
LEMMA CatchesMore ==
  ASSUME NEW rows \in Rows, NEW since \in Int, NEW n \in Int, NEW s \in Seq(Entry), NEW u \in Seq(Entry), NEW t \in Rows,
         NEW b \in Frame, NEW known, NEW coming, NEW more, since <= n,
         Len(u) > 0, Len(u) <= Len(s) + 1, u[Len(u)].body = b,
         \A k \in 1..(Len(u) - 1) : u[k] = s[Len(s) - (Len(u) - 1) + k],
         Catches(rows, since, n, s, t, known, coming), coming \subseteq more \cup Carried(b),
         b.kind = "delta" => Ids(b) \subseteq known \cap DOMAIN t /\ coming = {}
  PROVE  Catches(rows, since, n + 1, u, Apply(t, b), known, more)
<1>1. PICK p : p = Len(s)
  OBVIOUS
<1>2. PICK q : q = Len(u)
  OBVIOUS
<1>3. p \in Nat /\ q \in Nat /\ q > 0 /\ q <= p + 1
  BY <1>1, <1>2
<1>4. SUFFICES ASSUME since \in (n + 1 - q)..(n + 1)
               PROVE  /\ Matches(ApplyAll(rows, Latest(u, n + 1 - since)), Apply(t, b), known, more)
                      /\ Knows(rows, Latest(u, n + 1 - since))
  BY <1>2 DEF Catches
<1>5. PICK m : m = n - since
  OBVIOUS
<1>6. m \in Nat /\ m < q /\ m <= p /\ n + 1 - since = m + 1 /\ since \in (n - p)..n
  BY <1>3, <1>4, <1>5
<1>7. PICK l : l = Latest(s, m)
  OBVIOUS
<1>8. l \in Seq(Frame)
  <2>1. m \in 0..Len(s)
    BY <1>1, <1>6
  <2> QED BY <1>7, <2>1, LatestTyped
<1>9. Latest(u, m + 1) = Append(l, b)
  <2>1. m \in 0..Len(s) /\ m < Len(u)
    BY <1>1, <1>2, <1>6
  <2>2. ASSUME NEW k \in 1..m PROVE u[Len(u) - 1 - m + k] = s[Len(s) - m + k]
    <3>1. q - 1 - m + k \in 1..(q - 1) /\ p - (q - 1) + (q - 1 - m + k) = p - m + k
      BY <1>3, <1>6
    <3>2. u[q - 1 - m + k] = s[p - (q - 1) + (q - 1 - m + k)]
      BY <1>1, <1>2, <3>1
    <3> QED BY <1>1, <1>2, <3>1, <3>2
  <2>3. Latest(u, m + 1) = Append(Latest(s, m), u[Len(u)].body)
    BY <2>1, <2>2, LatestMore
  <2> QED BY <1>7, <2>3
<1>10. PICK x : x = ApplyAll(rows, l)
  OBVIOUS
<1>11. x \in Rows /\ Matches(x, t, known, coming) /\ Knows(rows, l)
  BY <1>1, <1>5, <1>6, <1>7, <1>8, <1>10, ApplyAllTyped DEF Catches
<1>12. ApplyAll(rows, Append(l, b)) = Apply(x, b)
  BY <1>8, <1>10, ApplyAllMore
<1>13. Matches(Apply(x, b), Apply(t, b), known, more)
  BY <1>11, ApplyMatches
<1>14. b.kind = "delta" => Ids(b) \subseteq DOMAIN x
  BY <1>11 DEF Matches
<1>15. Knows(rows, Append(l, b))
  BY <1>8, <1>10, <1>11, <1>14, KnowsMore
<1> QED BY <1>6, <1>9, <1>12, <1>13, <1>15

(* The next of the frames, for the first only.                             *)
LEMMA CatchesHead ==
  ASSUME NEW rows, NEW since \in Int, NEW n \in Int, NEW s \in Seq(Entry), NEW t, NEW known, NEW coming,
         since < n, since >= n - Len(s), NEW b, b = s[Len(s) - (n - since) + 1].body,
         Catches(rows, since, n, s, t, known, coming)
  PROVE  /\ Catches(Apply(rows, b), since + 1, n, s, t, known, coming)
         /\ b.kind = "delta" => Ids(b) \subseteq DOMAIN rows
<1>1. PICK m : m = n - since
  OBVIOUS
<1>2. m \in 1..Len(s) /\ m - 1 = n - (since + 1) /\ since \in (n - Len(s))..n /\ m \in 0..Len(s) /\ m > 0
  BY <1>1
<1>3. PICK l : l = Latest(s, m)
  OBVIOUS
<1>4. l \in Seq(Frame) /\ Len(l) = m /\ Len(l) > 0
  BY <1>2, <1>3, LatestTyped
<1>5. Head(l) = b /\ Tail(l) = Latest(s, m - 1)
  BY <1>1, <1>2, <1>3, LatestHead
<1>6. Matches(ApplyAll(rows, l), t, known, coming) /\ Knows(rows, l)
  BY <1>1, <1>2, <1>3 DEF Catches
<1>7. ApplyAll(rows, l) = ApplyAll(Apply(rows, b), Latest(s, m - 1))
  BY <1>4, <1>5, ApplyAllHead
<1>8. Knows(Apply(rows, b), Latest(s, m - 1)) /\ (b.kind = "delta" => Ids(b) \subseteq DOMAIN rows)
  BY <1>4, <1>5, <1>6, KnowsHead
<1> QED BY <1>2, <1>6, <1>7, <1>8 DEF Catches

-----------------------------------------------------------------------------
(* The invariant of the frames on their way.  The ring holds the last ones *)
(* and the receiver the last of those; the published generation and the    *)
(* client are caught up by what the ring holds behind their numbers; and   *)
(* a client is never further back than what its receiver still holds.      *)
Numbered ==
  /\ next - 1 = floor + Len(ring) /\ \A k \in 1..Len(ring) : ring[k].seq = floor + k
  /\ Len(ring) = RingFrames \/ floor + 1 = Seed
Heads ==
  /\ Len(rx) <= Len(ring) /\ \A k \in 1..Len(rx) : rx[k] = ring[Len(ring) - Len(rx) + k]
  /\ pc = "off" => Len(rx) = 0
Led == boot = "bound" => next - 1 + Len(outbox) <= published.seq + LeadMax
Cursors ==
  /\ held # NoSeq => Seed <= held + 1
  /\ held <= next - 1
  /\ pc \in {"catch_up", "open"} => held = IF cursor = NoSeq THEN 0 ELSE cursor
  /\ pc = "catch_up" /\ ~lagged => next - 1 - held <= LeadMax + Len(rx)
  /\ pc = "open" /\ ~lagged => next - 1 - held <= Len(rx)
Caught(rows, since) == Catches(rows, since, next - 1, ring, told, DOMAIN agg.last_sent, Coming(outbox))
LostInv ==
  /\ Numbered /\ Heads /\ Led /\ Cursors
  /\ Ends(outbox, DOMAIN agg.last_sent)
  /\ Caught(client, held) /\ Caught(published.rows, published.seq)
\* a session finds a generation that this boot has published
BootInv ==
  /\ pc # "off" => boot = "bound"
  /\ boot = "bound" => published.seq + 1 >= Seed
\* rows were left, and the ring is longer than the receiver and what the generation may lack
Roomy == Seed # 0 /\ LeftMin # 0 /\ LeadMax + Capacity <= RingFrames

LEMMA NewestIs ==
  ASSUME Seed # 0, HubTyped
  PROVE  Newest = next - 1 /\ next \in Nat /\ next >= 1
BY Bounds DEF HubTyped, Newest

(* One more frame for two sequences, the one the end of the other.         *)
LEMMA HeadsMore ==
  ASSUME NEW s, NEW u, NEW r, NEW v, NEW x, NEW p \in Nat, NEW p2 \in Nat, NEW l \in Nat, NEW l2 \in Nat,
         p2 > 0, l2 > 0, l2 <= p2, p2 <= p + 1, l2 <= l + 1, u[p2] = x, v[l2] = x,
         \A k \in 1..(p2 - 1) : u[k] = s[p - (p2 - 1) + k],
         \A k \in 1..(l2 - 1) : v[k] = r[l - (l2 - 1) + k],
         \A k \in 1..l : r[k] = s[p - l + k]
  PROVE  \A k \in 1..l2 : v[k] = u[p2 - l2 + k]
<1>1. SUFFICES ASSUME NEW k \in 1..l2 PROVE v[k] = u[p2 - l2 + k]
  OBVIOUS
<1>2. CASE k = l2
  <2>1. p2 - l2 + k = p2
    BY <1>2
  <2> QED BY <1>2, <2>1
<1>3. CASE k # l2
  <2>1. k \in 1..(l2 - 1) /\ l - (l2 - 1) + k \in 1..l /\ p2 - l2 + k \in 1..(p2 - 1)
    BY <1>3
  <2>2. v[k] = r[l - (l2 - 1) + k]
    BY <2>1
  <2>3. r[l - (l2 - 1) + k] = s[p - l + (l - (l2 - 1) + k)]
    BY <2>1
  <2>4. u[p2 - l2 + k] = s[p - (p2 - 1) + (p2 - l2 + k)]
    BY <2>1
  <2>5. p - l + (l - (l2 - 1) + k) = p - (p2 - 1) + (p2 - l2 + k)
    BY <2>1
  <2> QED BY <2>2, <2>3, <2>4, <2>5
<1> QED BY <1>2, <1>3

(* A published frame: the ring and the receiver.                           *)
LEMMA PublishRing ==
  ASSUME Roomy, HubTyped, NEW body \in Frame, Publish(body), Numbered, Heads, pc' = pc
  PROVE  /\ Numbered' /\ Heads'
         /\ Len(ring') > 0 /\ Len(ring') <= Len(ring) + 1 /\ ring'[Len(ring')].body = body
         /\ \A k \in 1..(Len(ring') - 1) : ring'[k] = ring[Len(ring) - (Len(ring') - 1) + k]
         /\ ~lagged' => ~lagged /\ (pc # "off" => Len(rx') = Len(rx) + 1)
<1>1. PICK x : x = [seq |-> next, body |-> body]
  OBVIOUS
<1>2. x \in Entry /\ x.seq = next /\ x.body = body
  BY <1>1 DEF Entry, HubTyped
<1>3. PICK u : u = ring'
  OBVIOUS
<1>4. PICK p : p = Len(ring)
  OBVIOUS
<1>5. PICK q : q = Len(u)
  OBVIOUS
<1>6. p \in Nat /\ p <= RingFrames /\ RingFrames \in Nat \ {0} /\ Capacity \in Nat \ {0} /\ next \in Nat /\ floor \in Nat
      /\ LeadMax \in Nat
  BY <1>4, FeedAssumption DEF HubTyped
<1>7. (Len(ring) = RingFrames => u = Append(Tail(ring), x)) /\ (Len(ring) # RingFrames => u = Append(ring, x))
  BY <1>1, <1>3 DEF Publish
<1>8. /\ q \in Nat /\ q = (IF p = RingFrames THEN p ELSE p + 1) /\ u[q] = x
      /\ \A k \in 1..(q - 1) : u[k] = ring[p - (q - 1) + k]
  <2>1. ring \in Seq(Entry) /\ Len(ring) <= RingFrames /\ RingFrames \in Nat \ {0}
    BY FeedAssumption DEF HubTyped
  <2>2. /\ Len(u) \in Nat /\ Len(u) = IF Len(ring) = RingFrames THEN Len(ring) ELSE Len(ring) + 1
        /\ u[Len(u)] = x
        /\ \A k \in 1..(Len(u) - 1) : u[k] = ring[Len(ring) - (Len(u) - 1) + k]
    BY <1>2, <1>7, <2>1, Pushed
  <2> QED BY <1>4, <1>5, <2>2
<1>9. q > 0 /\ q <= p + 1
  BY <1>6, <1>8
<1>10. next' = next + 1 /\ floor' = IF p = RingFrames THEN floor + 1 ELSE floor
  <2>1. p = RingFrames => Head(ring).seq = floor + 1
    <3>1. SUFFICES ASSUME p = RingFrames PROVE Head(ring).seq = floor + 1
      OBVIOUS
    <3>2. 1 \in 1..Len(ring) /\ Head(ring) = ring[1]
      BY <1>4, <1>6, <3>1 DEF HubTyped
    <3> QED BY <3>2 DEF Numbered
  <2> QED BY <1>4, <2>1 DEF Publish
<1>11. next - 1 = floor + p /\ \A k \in 1..p : ring[k].seq = floor + k
  BY <1>4 DEF Numbered
<1>12. \A k \in 1..q : u[k].seq = floor' + k
  <2> TAKE k \in 1..q
  <2>1. CASE k = q
    <3>1. next = floor' + q
      BY <1>6, <1>8, <1>10, <1>11
    <3> QED BY <1>2, <1>8, <2>1, <3>1
  <2>2. CASE k # q
    <3>1. k \in 1..(q - 1) /\ p - (q - 1) + k \in 1..p /\ floor + (p - (q - 1) + k) = floor' + k
      BY <1>6, <1>8, <1>10, <2>2
    <3>2. u[k] = ring[p - (q - 1) + k]
      BY <1>8, <3>1
    <3>3. ring[p - (q - 1) + k].seq = floor + (p - (q - 1) + k)
      BY <1>11, <3>1
    <3> QED BY <3>1, <3>2, <3>3
  <2> QED BY <2>1, <2>2
<1>13. next' - 1 = floor' + q
  BY <1>6, <1>8, <1>10, <1>11
<1>14. q = RingFrames \/ floor' + 1 = Seed
  <2>1. p = RingFrames \/ floor + 1 = Seed
    BY <1>4 DEF Numbered
  <2> QED BY <1>6, <1>8, <1>10, <2>1
<1>15. Numbered'
  BY <1>3, <1>5, <1>12, <1>13, <1>14 DEF Numbered
<1>16. Heads'
  <2>1. PICK v : v = rx'
    OBVIOUS
  <2>2. PICK l : l = Len(rx)
    OBVIOUS
  <2>3. PICK l2 : l2 = Len(v)
    OBVIOUS
  <2>4. l \in Nat /\ l <= p /\ l <= Capacity /\ \A k \in 1..l : rx[k] = ring[p - l + k]
    BY <1>4, <2>2 DEF Heads, HubTyped
  <2>5. CASE pc = "off"
    <3>1. v = rx /\ l2 = 0 /\ l2 <= q
      BY <1>6, <1>8, <2>1, <2>3, <2>5 DEF Publish, Heads
    <3>2. 1..l2 = {}
      BY <3>1
    <3>3. \A k \in 1..l2 : v[k] = u[q - l2 + k]
      BY <3>2
    <3> QED BY <1>3, <1>5, <2>1, <2>3, <3>1, <3>3 DEF Heads
  <2>6. CASE pc # "off"
    <3>1. (Len(rx) = Capacity => v = Append(Tail(rx), x)) /\ (Len(rx) # Capacity => v = Append(rx, x))
      BY <1>1, <2>1, <2>6 DEF Publish
    <3>2. /\ l2 \in Nat /\ l2 = (IF l = Capacity THEN l ELSE l + 1) /\ v[l2] = x
          /\ \A k \in 1..(l2 - 1) : v[k] = rx[l - (l2 - 1) + k]
      <4>1. rx \in Seq(Entry) /\ Len(rx) <= Capacity /\ Capacity \in Nat \ {0}
        BY FeedAssumption DEF HubTyped
      <4>2. /\ Len(v) \in Nat /\ Len(v) = IF Len(rx) = Capacity THEN Len(rx) ELSE Len(rx) + 1
            /\ v[Len(v)] = x
            /\ \A k \in 1..(Len(v) - 1) : v[k] = rx[Len(rx) - (Len(v) - 1) + k]
        BY <1>2, <3>1, <4>1, Pushed
      <4> QED BY <2>2, <2>3, <4>2
    <3>3. l2 > 0 /\ l2 <= q /\ l2 <= l + 1
      BY <1>6, <1>8, <2>4, <3>2 DEF Roomy
    <3>4. \A k \in 1..l2 : v[k] = u[q - l2 + k]
      <4>1. p \in Nat /\ q \in Nat /\ l \in Nat /\ l2 \in Nat
        BY <1>6, <1>8, <2>4, <3>2
      <4>2. q > 0 /\ q <= p + 1 /\ l2 > 0 /\ l2 <= q /\ l2 <= l + 1
        BY <1>9, <3>3
      <4>3. u[q] = x /\ \A k \in 1..(q - 1) : u[k] = ring[p - (q - 1) + k]
        BY <1>8
      <4>4. v[l2] = x /\ \A k \in 1..(l2 - 1) : v[k] = rx[l - (l2 - 1) + k]
        BY <3>2
      <4>5. \A k \in 1..l : rx[k] = ring[p - l + k]
        BY <2>4
      <4> QED BY <4>1, <4>2, <4>3, <4>4, <4>5, HeadsMore
    <3> QED BY <1>3, <1>5, <2>1, <2>3, <2>6, <3>3, <3>4 DEF Heads
  <2> QED BY <2>5, <2>6
<1>17. ~lagged' => ~lagged /\ (pc # "off" => Len(rx') = Len(rx) + 1)
  <2>1. SUFFICES ASSUME ~lagged' PROVE ~lagged /\ (pc # "off" => Len(rx') = Len(rx) + 1)
    OBVIOUS
  <2>2. CASE pc = "off"
    BY <2>1, <2>2 DEF Publish
  <2>3. CASE pc # "off"
    <3>1. ~lagged /\ Len(rx) # Capacity
      BY <2>1, <2>3 DEF Publish
    <3>2. rx' = Append(rx, x)
      BY <1>1, <2>3, <3>1 DEF Publish
    <3> QED BY <1>2, <3>1, <3>2 DEF HubTyped
  <2> QED BY <2>2, <2>3
<1> QED BY <1>2, <1>3, <1>4, <1>5, <1>8, <1>9, <1>15, <1>16, <1>17

-----------------------------------------------------------------------------
(* The steps that publish a frame.                                         *)

(* Where the client and the generation are.                                *)
LEMMA LostBounds ==
  ASSUME Roomy, FeedTyped, GenInv, LostInv
  PROVE  /\ Newest = next - 1 /\ next \in Nat /\ next >= 1 /\ floor \in Nat /\ LeadMax \in Nat /\ Seed \in Nat
         /\ held \in Int /\ held <= next - 1 /\ client \in Rows
         /\ published.seq \in Nat /\ published.seq <= next - 1 /\ published.rows \in Rows
         /\ Len(ring) \in Nat /\ Len(ring) <= RingFrames /\ Len(rx) \in Nat /\ Len(rx) <= Capacity
         /\ RingFrames \in Nat /\ Capacity \in Nat
<1>1. Newest = next - 1 /\ next \in Nat /\ next >= 1
  BY NewestIs DEF Roomy, FeedTyped
<1>2. held \in Int /\ client \in Rows /\ published.seq \in Nat /\ published.rows \in Rows
  BY DEF FeedTyped, SessionTyped, NoSeq
<1>3. published.seq <= next - 1
  BY <1>1 DEF GenInv
<1>4. held <= next - 1
  BY DEF LostInv, Cursors
<1>5. Len(ring) \in Nat /\ Len(ring) <= RingFrames /\ Len(rx) \in Nat /\ Len(rx) <= Capacity /\ floor \in Nat
  BY DEF FeedTyped, HubTyped
<1> QED BY <1>1, <1>2, <1>3, <1>4, <1>5, FeedAssumption

(* One frame more on the hub.                                              *)
LEMMA PublishLost ==
  ASSUME Roomy, FeedTyped, GenInv, LostInv, NEW body \in Frame, Publish(body),
         UNCHANGED session, published' = published, agg'.last_sent = agg.last_sent,
         Coming(outbox) \subseteq Coming(outbox') \cup Carried(body),
         body.kind = "delta" => Ids(body) \subseteq DOMAIN agg.last_sent \cap DOMAIN told /\ Coming(outbox) = {},
         Led', Ends(outbox', DOMAIN agg.last_sent)
  PROVE  LostInv'
<1>1. /\ Numbered' /\ Heads'
      /\ Len(ring') > 0 /\ Len(ring') <= Len(ring) + 1 /\ ring'[Len(ring')].body = body
      /\ \A k \in 1..(Len(ring') - 1) : ring'[k] = ring[Len(ring) - (Len(ring') - 1) + k]
      /\ ~lagged' => ~lagged /\ (pc # "off" => Len(rx') = Len(rx) + 1)
  BY PublishRing DEF LostInv, FeedTyped, session
<1>2. next' = next + 1 /\ told' = Apply(told, body)
  BY DEF Publish
<1>3. ring \in Seq(Entry) /\ ring' \in Seq(Entry) /\ told \in Rows
  BY PublishTyped DEF FeedTyped, HubTyped
<1>4. ASSUME NEW rows \in Rows, NEW since \in Int, since <= next - 1, Caught(rows, since)
      PROVE  Catches(rows, since, next' - 1, ring', told', DOMAIN agg'.last_sent, Coming(outbox'))
  <2>1. Catches(rows, since, next - 1, ring, told, DOMAIN agg.last_sent, Coming(outbox))
    BY <1>4 DEF Caught
  <2>2. next - 1 \in Int /\ (next - 1) + 1 = next' - 1
    BY <1>2, LostBounds
  <2>3. PICK u : u = ring'
    OBVIOUS
  <2>4. PICK more : more = Coming(outbox')
    OBVIOUS
  <2>5. /\ u \in Seq(Entry) /\ Len(u) > 0 /\ Len(u) <= Len(ring) + 1 /\ u[Len(u)].body = body
        /\ \A k \in 1..(Len(u) - 1) : u[k] = ring[Len(ring) - (Len(u) - 1) + k]
        /\ Coming(outbox) \subseteq more \cup Carried(body)
    BY <1>1, <1>3, <2>3, <2>4
  <2>6. Catches(rows, since, (next - 1) + 1, u, Apply(told, body), DOMAIN agg.last_sent, more)
    BY <1>3, <1>4, <2>1, <2>2, <2>5, CatchesMore
  <2> QED BY <1>2, <2>2, <2>3, <2>4, <2>6
<1>5. Caught(client, held)' /\ Caught(published.rows, published.seq)'
  <2>1. client' = client /\ held' = held
    BY DEF session
  <2>2. Catches(client, held, next' - 1, ring', told', DOMAIN agg'.last_sent, Coming(outbox'))
    BY <1>4, LostBounds DEF LostInv
  <2>3. Catches(published.rows, published.seq, next' - 1, ring', told', DOMAIN agg'.last_sent, Coming(outbox'))
    BY <1>4, LostBounds DEF LostInv
  <2> QED BY <2>1, <2>2, <2>3 DEF Caught
<1>6. Cursors'
  <2>1. pc' = pc /\ cursor' = cursor /\ held' = held
    BY DEF session
  <2>2. Cursors
    BY DEF LostInv
  <2>3. held' <= next' - 1
    BY <1>2, <2>1, LostBounds
  <2>4. pc' = "catch_up" /\ ~lagged' => next' - 1 - held' <= LeadMax + Len(rx')
    <3>1. SUFFICES ASSUME pc' = "catch_up", ~lagged' PROVE next' - 1 - held' <= LeadMax + Len(rx')
      OBVIOUS
    <3>2. next - 1 - held <= LeadMax + Len(rx) /\ Len(rx') = Len(rx) + 1
      BY <1>1, <2>1, <2>2, <3>1 DEF Cursors
    <3>3. next \in Nat /\ held \in Int /\ LeadMax \in Nat /\ Len(rx) \in Nat
      BY LostBounds
    <3>4. next' = next + 1 /\ held' = held
      BY <1>2, <2>1
    <3> QED BY <3>2, <3>3, <3>4
  <2>5. pc' = "open" /\ ~lagged' => next' - 1 - held' <= Len(rx')
    <3>1. SUFFICES ASSUME pc' = "open", ~lagged' PROVE next' - 1 - held' <= Len(rx')
      OBVIOUS
    <3>2. next - 1 - held <= Len(rx) /\ Len(rx') = Len(rx) + 1
      BY <1>1, <2>1, <2>2, <3>1 DEF Cursors
    <3>3. next \in Nat /\ held \in Int /\ LeadMax \in Nat /\ Len(rx) \in Nat
      BY LostBounds
    <3>4. next' = next + 1 /\ held' = held
      BY <1>2, <2>1
    <3> QED BY <3>2, <3>3, <3>4
  <2>6. (held # NoSeq => Seed <= held + 1) /\ (pc \in {"catch_up", "open"} => held = IF cursor = NoSeq THEN 0 ELSE cursor)
    BY <2>2 DEF Cursors
  <2> QED BY <2>1, <2>3, <2>4, <2>5, <2>6 DEF Cursors
<1>7. Ends(outbox', DOMAIN agg'.last_sent)
  OBVIOUS
<1> QED BY <1>1, <1>5, <1>6, <1>7 DEF LostInv

(* The first frame of the batch: rows it brings are not to come any more.  *)
LEMMA EmitLost ==
  ASSUME Roomy, FeedTyped, FrameInv, GenInv, LostInv, Emit
  PROVE  LostInv'
<1>1. outbox \in Seq(Frame) /\ Len(outbox) > 0 /\ outbox' = Tail(outbox)
  BY DEF FeedTyped, FlushTyped, Emit
<1>2. PICK body : body = Head(outbox)
  OBVIOUS
<1>3. body \in Frame /\ Publish(body) /\ UNCHANGED session /\ published' = published /\ agg' = agg
  BY <1>1, <1>2, ComingHead DEF Emit, session
<1>4. Len(outbox') = Len(outbox) - 1 /\ Len(outbox) \in Nat
  BY <1>1, ComingHead
<1>5. Coming(outbox) \subseteq Coming(outbox') \cup Carried(body) /\ Ends(outbox', DOMAIN agg.last_sent)
  <2>1. Ends(outbox, DOMAIN agg.last_sent)
    BY DEF LostInv
  <2> QED BY <1>1, <1>2, <2>1, ComingHead
<1>6. ASSUME body.kind = "delta"
      PROVE  Ids(body) \subseteq DOMAIN agg.last_sent \cap DOMAIN told /\ Coming(outbox) = {}
  <2>1. 1 \in DOMAIN outbox /\ outbox[1] = body /\ DOMAIN outbox = 1..Len(outbox)
    BY <1>1, <1>2
  <2>2. Len(outbox) = 1 /\ Ids(body) \subseteq DOMAIN agg.last_sent
    BY <1>6, <2>1 DEF LostInv, Ends
  <2>3. Coming(outbox) = {}
    <3>1. \A k \in DOMAIN outbox : outbox[k] = body
      BY <2>1, <2>2
    <3>2. Carried(body) = {}
      BY <1>6 DEF Carried
    <3> QED BY <3>1, <3>2 DEF Coming
  <2>4. Heard = Apply(told, body)
    <3>1. PICK t : t = Tail(outbox)
      OBVIOUS
    <3>2. t = <<>>
      BY <1>1, <2>2, <3>1
    <3>3. ApplyAll(told, outbox) = ApplyAll(Apply(told, body), t)
      BY <1>1, <1>2, <3>1, ApplyAllHead
    <3> QED BY <3>2, <3>3, ApplyAllNone DEF Heard
  <2>5. DOMAIN Heard = DOMAIN told
    BY <1>3, <1>6, <2>4, ApplyIs DEF FeedTyped, HubTyped
  <2>6. DOMAIN agg.last_sent \subseteq DOMAIN Heard
    BY DEF FrameInv, Framed, Honest
  <2> QED BY <2>2, <2>3, <2>5, <2>6
<1>7. Led'
  <2>1. next' = next + 1 /\ published' = published /\ boot' = boot
    BY <1>3 DEF Publish, Emit
  <2>2. Led
    BY DEF LostInv
  <2>3. next \in Nat
    BY LostBounds
  <2>4. next' - 1 + Len(outbox') = next - 1 + Len(outbox)
    BY <1>4, <2>1, <2>3
  <2> QED BY <2>1, <2>2, <2>4 DEF Led
<1> QED BY <1>3, <1>5, <1>6, <1>7, PublishLost

LEMMA NoticeLost ==
  ASSUME Roomy, FeedTyped, GenInv, LostInv, BootInv, Notice
  PROVE  LostInv'
<1>1. PICK body : body = Body("other", <<>>)
  OBVIOUS
<1>2. body \in Frame /\ body.kind = "other" /\ Carried(body) = {}
  BY <1>1, OtherTyped DEF Body, Carried
<1>3. Publish(body) /\ UNCHANGED session /\ published' = published /\ agg' = agg /\ outbox' = outbox
  BY <1>1 DEF Notice
<1>4. Led'
  <2>1. next' = next + 1
    BY <1>3 DEF Publish
  <2>3. Len(outbox) \in Nat
    BY DEF FeedTyped, FlushTyped
  <2>4. SUFFICES ASSUME boot = "bound" PROVE next' - 1 + Len(outbox) <= published.seq + LeadMax
    BY <1>3 DEF Led, Notice
  <2>2. Lead + (1 + Len(outbox)) <= LeadMax
    BY <2>4 DEF Notice, Spare, Room
  <2>5. Lead = next - 1 - published.seq
    BY <2>4, LostBounds DEF Lead, BootInv
  <2>6. next \in Nat /\ published.seq \in Nat /\ LeadMax \in Nat
    BY LostBounds
  <2> QED BY <2>1, <2>2, <2>3, <2>5, <2>6
<1>5. Ends(outbox', DOMAIN agg.last_sent)
  BY <1>3 DEF LostInv
<1> QED BY <1>2, <1>3, <1>4, <1>5, PublishLost

LEMMA HealthLost ==
  ASSUME Roomy, FeedTyped, FrameInv, GenInv, LostInv, BootInv, Health
  PROVE  LostInv'
<1>1. PICK body : body = Body("other", <<>>)
  OBVIOUS
<1>2. body \in Frame /\ body.kind = "other" /\ Carried(body) = {}
  BY <1>1, OtherTyped DEF Body, Carried
<1>3. Publish(body) /\ UNCHANGED session /\ published' = published /\ outbox' = outbox /\ Len(outbox) = 0
  BY <1>1 DEF Health, FrameInv
<1>4. agg'.last_sent = agg.last_sent
  BY DEF Health, FeedTyped, FlushTyped, Aggregator
<1>5. Led'
  <2>1. next' = next + 1
    BY <1>3 DEF Publish
  <2>3. SUFFICES ASSUME boot = "bound" PROVE next' - 1 + 0 <= published.seq + LeadMax
    BY <1>3 DEF Led, Health
  <2>2. Lead + 1 <= LeadMax
    BY <2>3 DEF Health, Spare, Room
  <2>4. Lead = next - 1 - published.seq
    BY <2>3, LostBounds DEF Lead, BootInv
  <2>5. next \in Nat /\ published.seq \in Nat /\ LeadMax \in Nat
    BY LostBounds
  <2> QED BY <2>1, <2>2, <2>4, <2>5
<1>6. Ends(outbox', DOMAIN agg.last_sent)
  BY <1>3 DEF LostInv
<1> QED BY <1>2, <1>3, <1>4, <1>5, <1>6, PublishLost

-----------------------------------------------------------------------------
(* The steps of the engine and of the aggregator that publish nothing.     *)

LEMMA SameLost ==
  ASSUME LostInv, UNCHANGED hub, UNCHANGED session, published' = published,
         Led', Ends(outbox', DOMAIN agg'.last_sent), Coming(outbox) \subseteq Coming(outbox'),
         (DOMAIN agg'.last_sent \ DOMAIN agg.last_sent) \cap DOMAIN told \subseteq Coming(outbox')
  PROVE  LostInv'
<1>1. /\ next' = next /\ ring' = ring /\ floor' = floor /\ told' = told /\ rx' = rx /\ lagged' = lagged
      /\ pc' = pc /\ cursor' = cursor /\ held' = held /\ client' = client
  BY DEF hub, session
<1>2. Numbered' /\ Heads' /\ Cursors'
  BY <1>1 DEF LostInv, Numbered, Heads, Cursors
<1>3. ASSUME NEW rows, NEW since, Caught(rows, since)
      PROVE  Catches(rows, since, next' - 1, ring', told', DOMAIN agg'.last_sent, Coming(outbox'))
  BY <1>1, <1>3, CatchesAlso DEF Caught
<1>4. Caught(client, held)' /\ Caught(published.rows, published.seq)'
  <2>1. /\ Catches(client, held, next' - 1, ring', told', DOMAIN agg'.last_sent, Coming(outbox'))
        /\ Catches(published.rows, published.seq, next' - 1, ring', told', DOMAIN agg'.last_sent, Coming(outbox'))
    BY <1>3 DEF LostInv
  <2> QED BY <1>1, <2>1 DEF Caught
<1> QED BY <1>2, <1>4 DEF LostInv

(* An event: no row gets a baseline by one.                                *)
LEMMA EventLost ==
  ASSUME FeedTyped, FrameInv, LostInv, ~flushing, UNCHANGED hub, UNCHANGED session, published' = published,
         boot' \in {boot, "wait"}, outbox' = outbox, (DOMAIN agg'.last_sent \ DOMAIN agg.last_sent) \cap DOMAIN told = {}
  PROVE  LostInv'
<1>1. DOMAIN outbox = {}
  <2>1. outbox \in Seq(Frame) /\ Len(outbox) = 0
    BY DEF FeedTyped, FlushTyped, FrameInv
  <2>2. outbox = <<>>
    BY <2>1
  <2> QED BY <2>2, SetNone
<1>2. Led'
  BY DEF LostInv, Led, hub
<1>3. Ends(outbox', DOMAIN agg'.last_sent)
  BY <1>1 DEF Ends
<1> QED BY <1>2, <1>3, SameLost

LEMMA InstallLost ==
  ASSUME NEW a \in Aggregator, NEW i \in Items, NEW r \in Row
  PROVE  DOMAIN Install(a, i, r).last_sent \subseteq DOMAIN a.last_sent
<1>1. PICK b : b = Install(a, i, r)
  OBVIOUS
<1>2. b = a \/ \E E : Landed(a, i, r, b, E)
  BY <1>1, InstallIs
<1> QED BY <1>1, <1>2 DEF Landed

LEMMA EventsLost ==
  ASSUME Roomy, FeedTyped, FrameInv, GenInv, LostInv,
         \/ \E rows \in Rows : Recover(rows)
         \/ \E i \in Items : Completed(i) \/ \E v \in Values : Added(i, v) \/ StatusChanged(i, v) \/ Ended(i, v)
         \/ \E S \in SUBSET Items : Removed(S)
  PROVE  LostInv'
<1>1. agg \in Aggregator /\ truth \in Rows
  BY DEF FeedTyped, FlushTyped, EngineTyped
<1>2. ASSUME NEW i \in Items, NEW v \in Values
      PROVE  [status |-> "live", value |-> v] \in Row /\ [status |-> "done", value |-> v] \in Row
  BY DEF Row
<1>3. CASE \E rows \in Rows : Recover(rows)
  <2>1. PICK rows \in Rows : Recover(rows)
    BY <1>3
  <2>2. DOMAIN told = {}
    <3>1. born = {} /\ ~flushing
      BY <2>1 DEF Recover, Listening, FeedTyped, EngineTyped
    <3>2. DOMAIN Heard \subseteq born
      BY DEF FrameInv, Framed
    <3>3. outbox \in Seq(Frame) /\ Len(outbox) = 0
      BY <3>1 DEF FeedTyped, FlushTyped, FrameInv
    <3>4. outbox = <<>>
      BY <3>3
    <3>5. Heard = told
      BY <3>4, ApplyAllNone DEF Heard
    <3> QED BY <3>1, <3>2, <3>5
  <2>3. boot' = "wait"
    <3>1. Cardinality(DOMAIN rows) >= LeftMin /\ LeftMin \in Nat /\ LeftMin # 0
      BY <2>1, FeedAssumption DEF Recover, Roomy
    <3>2. DOMAIN rows # {}
      BY <3>1, FS_EmptySet
    <3>3. rows # <<>>
      BY <3>2, SetNone
    <3> QED BY <2>1, <3>3 DEF Recover, Awaited
  <2> QED BY <2>1, <2>2, <2>3, EventLost DEF Recover, Listening
<1>4. ASSUME NEW i \in Items, Completed(i) PROVE LostInv'
  <2>1. truth[i] \in Row
    <3>1. i \in DOMAIN truth
      BY <1>4 DEF Completed, FeedTyped, EngineTyped
    <3> QED BY <1>1, <3>1, RowAt
  <2>2. PICK b : b = Install(agg, i, truth[i])
    OBVIOUS
  <2>3. b \in Aggregator /\ DOMAIN b.last_sent \subseteq DOMAIN agg.last_sent
    BY <1>1, <2>1, <2>2, InstallTyped, InstallLost
  <2>4. agg'.last_sent = b.last_sent
    BY <1>4, <2>2, <2>3 DEF Completed, Aggregator
  <2>5. (DOMAIN agg'.last_sent \ DOMAIN agg.last_sent) \cap DOMAIN told = {}
    BY <2>3, <2>4
  <2> QED BY <1>4, <2>5, EventLost DEF Completed
<1>5. ASSUME NEW i \in Items, NEW v \in Values, Added(i, v) PROVE LostInv'
  <2>1. PICK r \in Row : r = [status |-> "live", value |-> v]
    BY <1>2
  <2>2. PICK b : b = Install(agg, i, r)
    OBVIOUS
  <2>3. b \in Aggregator /\ DOMAIN b.last_sent \subseteq DOMAIN agg.last_sent
    BY <1>1, <2>2, InstallTyped, InstallLost
  <2>4. agg'.last_sent = b.last_sent
    <3>1. agg' = [b EXCEPT !.added = Append(@, {i})]
      BY <1>5, <2>1, <2>2 DEF Added
    <3> QED BY <2>3, <3>1 DEF Aggregator
  <2>5. (DOMAIN agg'.last_sent \ DOMAIN agg.last_sent) \cap DOMAIN told = {}
    BY <2>3, <2>4
  <2> QED BY <1>5, <2>5, EventLost DEF Added, Listening
<1>6. ASSUME NEW i \in Items, NEW v \in Values, StatusChanged(i, v) \/ Ended(i, v) PROVE LostInv'
  <2>1. PICK r \in Row : agg' = Install(agg, i, r)
    BY <1>2, <1>6 DEF StatusChanged, Ended
  <2>2. DOMAIN agg'.last_sent \subseteq DOMAIN agg.last_sent
    BY <1>1, <2>1, InstallLost
  <2>3. (DOMAIN agg'.last_sent \ DOMAIN agg.last_sent) \cap DOMAIN told = {}
    BY <2>2
  <2> QED BY <1>6, <2>3, EventLost DEF StatusChanged, Ended, Listening
<1>7. ASSUME NEW S \in SUBSET Items, Removed(S) PROVE LostInv'
  <2>1. agg' = Forget(agg, S)
    BY <1>7 DEF Removed
  <2>2. DOMAIN agg'.last_sent = DOMAIN agg.last_sent \ S
    BY <1>1, <2>1, ForgetIs DEF Lost
  <2>3. (DOMAIN agg'.last_sent \ DOMAIN agg.last_sent) \cap DOMAIN told = {}
    BY <2>2
  <2> QED BY <1>7, <2>3, EventLost DEF Removed, Listening
<1> QED BY <1>3, <1>4, <1>5, <1>6, <1>7

(* A flush decides its frames: what it makes a baseline of comes whole.    *)
LEMMA FlushLost ==
  ASSUME Roomy, FeedTyped, FrameInv, GenInv, LostInv, BootInv, Flush
  PROVE  LostInv'
<1>1. agg \in Aggregator /\ agg' = Flushed(agg) /\ outbox' = Batch(agg)
  BY DEF Flush, FeedTyped, FlushTyped
<1>2. DOMAIN agg'.last_sent = DOMAIN agg.last_sent \cup DOMAIN Whole(agg)
  BY <1>1, FlushedIs DEF Settled
<1>3. DOMAIN Whole(agg) \subseteq Coming(outbox') /\ Ends(outbox', DOMAIN agg.last_sent)
  BY <1>1, BatchBrings
<1>4. Ends(outbox', DOMAIN agg'.last_sent)
  BY <1>2, <1>3 DEF Ends
<1>5. Coming(outbox) = {}
  <2>1. outbox \in Seq(Frame) /\ Len(outbox) = 0
    BY DEF FeedTyped, FlushTyped, FrameInv, Flush
  <2>2. outbox = <<>>
    BY <2>1
  <2>3. DOMAIN outbox = {}
    BY <2>2, SetNone
  <2> QED BY <2>3 DEF Coming
<1>6. Led'
  <2>2. Len(outbox') \in Nat
    <3>1. outbox' \in Seq(Frame)
      BY <1>1, BatchTyped
    <3> QED BY <3>1
  <2>3. next' = next /\ published' = published
    BY DEF Flush, hub
  <2>4. SUFFICES ASSUME boot = "bound" PROVE next - 1 + Len(outbox') <= published.seq + LeadMax
    BY <2>3 DEF Led, Flush
  <2>1. Lead + Len(outbox') <= LeadMax
    BY <1>1, <2>4 DEF Flush, Room
  <2>5. Lead = next - 1 - published.seq
    BY <2>4, LostBounds DEF Lead, BootInv
  <2>6. next \in Nat /\ published.seq \in Nat /\ LeadMax \in Nat
    BY LostBounds
  <2> QED BY <2>1, <2>2, <2>5, <2>6
<1>7. (DOMAIN agg'.last_sent \ DOMAIN agg.last_sent) \cap DOMAIN told \subseteq Coming(outbox')
  BY <1>2, <1>3
<1> QED BY <1>4, <1>5, <1>6, <1>7, SameLost DEF Flush

(* What is republished after its frames are the rows they have told.       *)
LEMMA RepublishLost ==
  ASSUME Roomy, FeedTyped, FrameInv, GenInv, LostInv, Republish
  PROVE  LostInv'
<1>1. /\ next' = next /\ ring' = ring /\ floor' = floor /\ told' = told /\ rx' = rx /\ lagged' = lagged
      /\ pc' = pc /\ cursor' = cursor /\ held' = held /\ client' = client /\ outbox' = outbox
      /\ flushing /\ outbox = <<>> /\ Len(outbox) = 0
  BY DEF Republish, hub, session
<1>2. agg'.last_sent = agg.last_sent
  BY DEF Republish, FeedTyped, FlushTyped, Aggregator
<1>3. Numbered' /\ Heads' /\ Cursors' /\ Ends(outbox', DOMAIN agg'.last_sent) /\ Caught(client, held)'
  BY <1>1, <1>2 DEF LostInv, Numbered, Heads, Cursors, Caught
<1>4. CASE ~agg.stale
  <2>1. published' = published /\ boot' = boot
    BY <1>4 DEF Republish
  <2>2. Led' /\ Caught(published.rows, published.seq)'
    BY <1>1, <1>2, <2>1 DEF LostInv, Led, Caught
  <2> QED BY <1>3, <2>2 DEF LostInv
<1>5. CASE agg.stale
  <2>1. published'.seq = next - 1 /\ published'.rows = agg.current
    <3>1. published' = [seq |-> Newest, rows |-> agg.current]
      BY <1>5 DEF Republish
    <3> QED BY <3>1, LostBounds
  <2>2. Led'
    <3>1. next \in Nat /\ LeadMax \in Nat
      BY LostBounds
    <3> QED BY <1>1, <2>1, <3>1 DEF Led
  <2>3. Heard = told
    BY <1>1, ApplyAllNone DEF Heard
  <2>4. Sound(agg, truth) /\ Honest(agg, truth, told)
    BY <2>3 DEF FrameInv, Framed
  <2>5. ToSet(agg.dirty) = {}
    <3>1. agg.dirty \in Seq(Items) /\ Len(agg.dirty) = 0
      BY <1>1 DEF GenInv, FeedTyped, FlushTyped, Aggregator
    <3>2. agg.dirty = <<>>
      BY <3>1
    <3> QED BY <3>2, SetNone
  <2>6. Matches(agg.current, told, DOMAIN agg.last_sent, Coming(outbox))
    <3>1. \A i \in DOMAIN agg.current : i \in DOMAIN told /\ agg.current[i] = told[i]
      BY <2>4, <2>5 DEF Sound, Honest
    <3>2. DOMAIN agg.last_sent \subseteq DOMAIN agg.current
      BY <2>4 DEF Sound
    <3> QED BY <3>1, <3>2 DEF Matches
  <2>7. Catches(agg.current, next - 1, next - 1, ring, told, DOMAIN agg.last_sent, Coming(outbox))
    <3>1. next - 1 \in Int /\ ring \in Seq(Entry)
      BY LostBounds DEF FeedTyped, HubTyped
    <3> QED BY <2>6, <3>1, CatchesNow
  <2>8. Caught(published.rows, published.seq)'
    BY <1>1, <1>2, <2>1, <2>7 DEF Caught
  <2> QED BY <1>3, <2>2, <2>8 DEF LostInv
<1> QED BY <1>4, <1>5

-----------------------------------------------------------------------------
(* The steps of the session.                                               *)

LEMMA ServingSame ==
  ASSUME LostInv, Serving
  PROVE  /\ Numbered' /\ Led' /\ Ends(outbox', DOMAIN agg'.last_sent)
         /\ Caught(published.rows, published.seq)'
         /\ \A rows, since : Caught(rows, since) =>
              Catches(rows, since, next' - 1, ring', told', DOMAIN agg'.last_sent, Coming(outbox'))
<1>1. /\ agg' = agg /\ outbox' = outbox /\ next' = next /\ ring' = ring /\ floor' = floor
      /\ told' = told /\ published' = published /\ boot' = boot
  BY DEF Serving
<1>2. Numbered' /\ Led' /\ Ends(outbox', DOMAIN agg'.last_sent)
  BY <1>1 DEF LostInv, Numbered, Led
<1>3. Caught(published.rows, published.seq)'
  BY <1>1 DEF LostInv, Caught
<1>4. \A rows, since : Caught(rows, since) =>
        Catches(rows, since, next' - 1, ring', told', DOMAIN agg'.last_sent, Coming(outbox'))
  BY <1>1 DEF Caught
<1> QED BY <1>2, <1>3, <1>4

(* The window behind a number is the end of the ring.                      *)
LEMMA WindowIs ==
  ASSUME Roomy, FeedTyped, GenInv, LostInv, NEW since \in floor..(next - 1)
  PROVE  Window(since) = Latest(ring, next - 1 - since)
<1>1. PICK e : e = Sans(ring, {x \in ToSet(ring) : x.seq <= since})
  OBVIOUS
<1>2. Window(since) = [k \in DOMAIN e |-> e[k].body]
  BY <1>1 DEF Window
<1>3. ring \in Seq(Entry) /\ floor \in Int /\ since \in Int /\ floor <= since
  BY LostBounds DEF FeedTyped, HubTyped
<1>4. (\A k \in 1..Len(ring) : ring[k].seq = floor + k) /\ floor + Len(ring) = next - 1
  BY DEF LostInv, Numbered
<1>5. since <= floor + Len(ring)
  BY <1>4
<1>6. [k \in DOMAIN e |-> e[k].body] = Latest(ring, floor + Len(ring) - since)
  BY <1>1, <1>3, <1>4, <1>5, BodiesLatest
<1>7. floor + Len(ring) - since = next - 1 - since
  <2>1. floor + Len(ring) = next - 1
    BY <1>4
  <2>2. next \in Nat /\ Len(ring) \in Nat
    BY LostBounds
  <2> QED BY <1>3, <2>1, <2>2
<1> QED BY <1>2, <1>6, <1>7

(* An answered client has the rows of one that heard every frame.          *)
LEMMA AnsweredMatches ==
  ASSUME Roomy, FeedTyped, GenInv, LostInv, held \in floor..(next - 1)
  PROVE  Catches(Answered(client, held), next - 1, next - 1, ring, told, DOMAIN agg.last_sent, Coming(outbox))
<1>1. next - 1 \in Int /\ Newest = next - 1 /\ held \in Int
  BY LostBounds
<1>2. Catches(client, held, next - 1, ring, told, DOMAIN agg.last_sent, Coming(outbox))
  BY DEF LostInv, Caught
<1>3. CASE held = Newest
  BY <1>1, <1>2, <1>3 DEF Answered
<1>4. CASE held # Newest
  <2>1. PICK w : w = Window(held)
    OBVIOUS
  <2>2. w \in Seq(Frame) /\ w = Latest(ring, next - 1 - held)
    BY <2>1, WindowTyped, WindowIs DEF FeedTyped
  <2>3. Answered(client, held) = ApplyAll(client, w)
    BY <1>4, <2>1, <2>2, ApplyAllTyped, LostBounds DEF Answered
  <2>4. held \in ((next - 1) - Len(ring))..(next - 1)
    <3>1. floor = (next - 1) - Len(ring)
      BY LostBounds DEF LostInv, Numbered
    <3> QED BY <3>1
  <2>5. Matches(ApplyAll(client, w), told, DOMAIN agg.last_sent, Coming(outbox))
    BY <1>2, <2>2, <2>4 DEF Catches
  <2>6. ring \in Seq(Entry)
    BY DEF FeedTyped, HubTyped
  <2> QED BY <1>1, <2>3, <2>5, <2>6, CatchesNow
<1> QED BY <1>3, <1>4

(* A session that leaves the client alone.                                 *)
LEMMA IdleLost ==
  ASSUME LostInv, Serving, UNCHANGED <<held, client>>, Heads', pc' \in {"off", "snapshot", "resume"}
  PROVE  LostInv'
<1>1. next' = next
  BY DEF Serving
<1>2. Cursors'
  BY <1>1 DEF LostInv, Cursors
<1>3. Caught(client, held)'
  BY ServingSame DEF LostInv, Caught
<1> QED BY <1>2, <1>3, ServingSame DEF LostInv

LEMMA ConnectLost ==
  ASSUME LostInv, FeedTyped, Connect \/ Disconnect \/ Lag \/ AskResume
  PROVE  LostInv'
<1>1. CASE Connect \/ Disconnect
  <2>1. rx' = <<>> /\ ring' = ring /\ ring \in Seq(Entry)
    BY <1>1 DEF Connect, Disconnect, Serving, FeedTyped, HubTyped
  <2>2. Len(rx') = 0 /\ Len(rx') <= Len(ring') /\ 1..Len(rx') = {}
    BY <2>1
  <2>3. Heads'
    BY <2>2 DEF Heads
  <2> QED BY <1>1, <2>3, IdleLost DEF Connect, Disconnect
<1>2. CASE Lag \/ AskResume
  <2>1. Heads'
    BY <1>2 DEF Lag, AskResume, Serving, LostInv, Heads
  <2> QED BY <1>2, <2>1, IdleLost DEF Lag, AskResume
<1> QED BY <1>1, <1>2

(* A snapshot is the published generation.                                 *)
LEMMA SnapshotLost ==
  ASSUME Roomy, FeedTyped, GenInv, LostInv, BootInv, SendSnapshot
  PROVE  LostInv'
<1>1. /\ held' = published.seq /\ client' = published.rows /\ pc' = "catch_up" /\ pc = "snapshot"
      /\ next' = next /\ ring' = ring /\ rx' = rx /\ lagged' = lagged
      /\ cursor' = IF published.seq = 0 /\ published.rows = <<>> THEN NoSeq ELSE published.seq
  BY DEF SendSnapshot, Serving
<1>2. Heads'
  BY <1>1 DEF LostInv, Heads
<1>3. Caught(client, held)'
  <2>1. Catches(published.rows, published.seq, next' - 1, ring', told', DOMAIN agg'.last_sent, Coming(outbox'))
    BY ServingSame DEF LostInv, SendSnapshot
  <2> QED BY <1>1, <2>1 DEF Caught
<1>4. Cursors'
  <2>1. Seed <= held' + 1 /\ held' <= next' - 1
    <3>1. Seed <= published.seq + 1
      BY <1>1, LostBounds DEF BootInv
    <3> QED BY <1>1, <3>1, LostBounds
  <2>2. held' = IF cursor' = NoSeq THEN 0 ELSE cursor'
    <3>1. published.seq # NoSeq
      BY LostBounds DEF NoSeq
    <3> QED BY <1>1, <3>1
  <2>3. next' - 1 - held' <= LeadMax + Len(rx')
    <3>1. next - 1 + Len(outbox) <= published.seq + LeadMax
      BY <1>1 DEF LostInv, Led, BootInv
    <3>2. Len(outbox) \in Nat /\ next \in Nat /\ published.seq \in Nat /\ LeadMax \in Nat /\ Len(rx) \in Nat
      BY LostBounds DEF FeedTyped, FlushTyped
    <3>3. next - 1 - published.seq <= LeadMax + Len(rx)
      BY <3>1, <3>2
    <3> QED BY <1>1, <3>3
  <2> QED BY <1>1, <2>1, <2>2, <2>3 DEF Cursors
<1> QED BY <1>2, <1>3, <1>4, ServingSame DEF LostInv, SendSnapshot

(* An answer brings the client up to the newest frame.                     *)
LEMMA AnswerLost ==
  ASSUME Roomy, FeedTyped, GenInv, LostInv, Serving, held \in floor..(next - 1),
         client' = Answered(client, held), cursor' = Newest, held' = Newest, pc' = "open", UNCHANGED <<rx, lagged>>
  PROVE  LostInv'
<1>1. next' = next /\ ring' = ring /\ held' = next - 1
  BY LostBounds DEF Serving
<1>2. Heads'
  BY <1>1 DEF LostInv, Heads
<1>3. Caught(client, held)'
  <2>1. Catches(client', next - 1, next - 1, ring, told, DOMAIN agg.last_sent, Coming(outbox))
    BY AnsweredMatches
  <2> QED BY <1>1, <2>1 DEF Caught, Serving
<1>4. Cursors'
  <2>1. next \in Nat /\ Seed <= next /\ next >= 1 /\ Len(rx) \in Nat
    BY LostBounds DEF FeedTyped, HubTyped
  <2>2. held' # NoSeq /\ cursor' = held'
    BY <1>1, <2>1 DEF NoSeq
  <2> QED BY <1>1, <2>1, <2>2 DEF Cursors
<1> QED BY <1>2, <1>3, <1>4, ServingSame DEF LostInv

LEMMA ResumeLost ==
  ASSUME Roomy, FeedTyped, GenInv, LostInv, Resume
  PROVE  LostInv'
<1>1. CASE Behind(held)
  <2>1. Heads'
    BY <1>1 DEF Resume, Serving, LostInv, Heads
  <2> QED BY <1>1, <2>1, IdleLost DEF Resume
<1>2. CASE ~Behind(held)
  <2>1. held \in floor..(next - 1)
    <3>1. Newest = next - 1 /\ floor \in Nat /\ next \in Nat /\ held \in Int /\ held <= next - 1
      BY LostBounds
    <3>2. floor <= next - 1
      BY LostBounds DEF LostInv, Numbered
    <3> QED BY <1>2, <3>1, <3>2 DEF Behind
  <2> QED BY <1>2, <2>1, AnswerLost DEF Resume
<1> QED BY <1>1, <1>2

(* The generation was not too old for the ring: the client is caught up.   *)
LEMMA CatchUpLost ==
  ASSUME Roomy, FeedTyped, GenInv, LostInv, CatchUp
  PROVE  LostInv'
<1>1. held = (IF cursor = NoSeq THEN 0 ELSE cursor) /\ pc' = "open" /\ pc = "catch_up"
  BY DEF CatchUp, LostInv, Cursors
<1>2. /\ Newest = next - 1 /\ floor \in Nat /\ next \in Nat /\ held \in Int /\ held <= next - 1
      /\ Len(rx) \in Nat /\ Len(ring) \in Nat /\ RingFrames \in Nat /\ LeadMax \in Nat /\ Capacity \in Nat
      /\ Len(rx) <= Capacity /\ Seed \in Nat
  BY LostBounds
<1>3. floor + Len(ring) = next - 1 /\ (Len(ring) = RingFrames \/ floor + 1 = Seed)
  BY DEF LostInv, Numbered
<1>4. held \in Nat
  BY <1>1 DEF FeedTyped, SessionTyped
<1>5. Seed <= held + 1
  BY <1>4 DEF LostInv, Cursors, NoSeq
<1>6. CASE Newest <= held \/ Behind(held)
  <2>1. UNCHANGED <<cursor, held, client, rx, lagged, next>>
    BY <1>1, <1>6 DEF CatchUp, Serving
  <2>2. Heads'
    BY <1>1, <2>1 DEF LostInv, Heads, CatchUp, Serving
  <2>3. Caught(client, held)'
    <3>1. Catches(client, held, next' - 1, ring', told', DOMAIN agg'.last_sent, Coming(outbox'))
      BY ServingSame DEF LostInv, CatchUp
    <3> QED BY <2>1, <3>1 DEF Caught
  <2>4. ~lagged => next - 1 - held <= Len(rx)
    <3>1. SUFFICES ASSUME ~lagged PROVE next - 1 - held <= Len(rx)
      OBVIOUS
    <3>2. next - 1 - held <= LeadMax + Len(rx)
      BY <1>1, <3>1 DEF LostInv, Cursors
    <3>3. LeadMax + Len(rx) <= RingFrames
      BY <1>2 DEF Roomy
    <3>4. ~(held < floor)
      <4>1. SUFFICES ASSUME held < floor PROVE FALSE
        OBVIOUS
      <4>2. next - 1 - held > Len(ring)
        BY <1>2, <1>3, <4>1
      <4>3. Len(ring) # RingFrames
        BY <1>2, <3>2, <3>3, <4>2
      <4>4. floor + 1 = Seed
        BY <1>3, <4>3
      <4> QED BY <1>2, <1>5, <4>1, <4>4
    <3>5. held = next - 1
      BY <1>2, <1>6, <3>4 DEF Behind
    <3> QED BY <1>2, <3>5
  <2>5. Cursors'
    BY <1>1, <2>1, <2>4 DEF LostInv, Cursors
  <2> QED BY <2>2, <2>3, <2>5, ServingSame DEF LostInv, CatchUp
<1>7. CASE ~(Newest <= held \/ Behind(held))
  <2>1. held \in floor..(next - 1)
    BY <1>2, <1>7 DEF Behind
  <2>2. client' = Answered(client, held) /\ cursor' = Newest /\ held' = Newest
    BY <1>1, <1>7 DEF CatchUp
  <2> QED BY <2>1, <2>2, AnswerLost DEF CatchUp
<1> QED BY <1>6, <1>7

(* A frame of the bus: the next one for the client, or one it has.         *)
LEMMA ForwardIs ==
  ASSUME Roomy, FeedTyped, GenInv, LostInv, Forward
  PROVE  /\ Len(rx) > 0 /\ Len(rx') = Len(rx) - 1 /\ Heads' /\ Head(rx).seq = next - Len(rx)
         /\ held >= next - 1 - Len(rx) /\ held >= (next - 1) - Len(ring) /\ held \in Nat
         /\ held = IF cursor = NoSeq THEN 0 ELSE cursor
         /\ Head(rx).seq >= 1 /\ Head(rx).seq \in Nat /\ Head(rx) = ring[Len(ring) - Len(rx) + 1]
<1>1. PICK n : n = Len(rx)
  OBVIOUS
<1>2. PICK p : p = Len(ring)
  OBVIOUS
<1>3. /\ rx \in Seq(Entry) /\ n \in Nat /\ p \in Nat /\ floor \in Nat /\ next \in Nat /\ held \in Int /\ n > 0
  BY <1>1, <1>2, LostBounds DEF FeedTyped, HubTyped, Forward
<1>4. PICK t : t = Tail(rx)
  OBVIOUS
<1>5. t \in Seq(Entry) /\ Len(t) = n - 1 /\ \A k \in 1..(n - 1) : t[k] = rx[k + 1]
  <2>1. Len(rx) > 0
    BY <1>1, <1>3
  <2>2. Tail(rx) \in Seq(Entry) /\ Len(Tail(rx)) = Len(rx) - 1
    BY <1>3, <2>1
  <2>3. \A k \in 1..(Len(rx) - 1) : Tail(rx)[k] = rx[k + 1]
    BY <1>3, <2>1
  <2> QED BY <1>1, <1>4, <2>2, <2>3
<1>6. n <= p /\ \A k \in 1..n : rx[k] = ring[p - n + k]
  BY <1>1, <1>2 DEF LostInv, Heads
<1>7. next - 1 = floor + p /\ \A k \in 1..p : ring[k].seq = floor + k
  BY <1>2 DEF LostInv, Numbered
<1>8. Head(rx) = ring[p - n + 1] /\ Head(rx).seq = next - n
  <2>1. 1 \in 1..n /\ p - n + 1 \in 1..p /\ floor + (p - n + 1) = next - n
    BY <1>3, <1>6, <1>7
  <2>2. Head(rx) = rx[1]
    BY <1>1, <1>3
  <2>3. rx[1] = ring[p - n + 1]
    BY <1>6, <2>1
  <2>4. ring[p - n + 1].seq = floor + (p - n + 1)
    BY <1>7, <2>1
  <2> QED BY <2>1, <2>2, <2>3, <2>4
<1>9. Heads'
  <2>1. \A k \in 1..(n - 1) : t[k] = ring[p - (n - 1) + k]
    <3> TAKE k \in 1..(n - 1)
    <3>1. k + 1 \in 1..n /\ p - n + (k + 1) = p - (n - 1) + k
      BY <1>3, <1>6
    <3>2. rx[k + 1] = ring[p - n + (k + 1)]
      BY <1>6, <3>1
    <3> QED BY <1>5, <3>1, <3>2
  <2>2. rx' = t /\ ring' = ring /\ pc' # "off"
    BY <1>4 DEF Forward, Serving
  <2>3. n - 1 <= p
    BY <1>3, <1>6
  <2> QED BY <1>2, <1>5, <2>1, <2>2, <2>3 DEF Heads
<1>10. next - 1 - held <= n
  BY <1>1 DEF LostInv, Cursors, Forward
<1>11. held \in Nat /\ held = IF cursor = NoSeq THEN 0 ELSE cursor
  <2>1. held = IF cursor = NoSeq THEN 0 ELSE cursor
    BY DEF LostInv, Cursors, Forward
  <2> QED BY <2>1 DEF FeedTyped, SessionTyped
<1>12. held >= next - 1 - n /\ held >= (next - 1) - p /\ next - n >= 1 /\ next - n \in Nat
  <2>1. held >= next - 1 - n
    <3>1. next \in Nat /\ held \in Int /\ n \in Nat
      BY <1>3
    <3> QED BY <1>10, <3>1
  <2>2. n <= p /\ next = floor + p + 1
    BY <1>3, <1>6, <1>7
  <2>3. next - n >= 1 /\ next - n \in Nat
    BY <1>3, <2>2
  <2>4. held >= (next - 1) - p
    BY <1>3, <2>1, <2>2
  <2> QED BY <2>1, <2>3, <2>4
<1>13. rx' = t
  BY <1>4 DEF Forward
<1> QED BY <1>1, <1>2, <1>3, <1>5, <1>8, <1>9, <1>11, <1>12, <1>13

LEMMA ForwardLost ==
  ASSUME Roomy, FeedTyped, GenInv, LostInv, Forward
  PROVE  /\ LostInv'
         /\ held' # held /\ Head(rx).body.kind = "delta" => Ids(Head(rx).body) \subseteq DOMAIN client
<1>1. PICK f : f = Head(rx)
  OBVIOUS
<1>2. PICK n : n = Len(rx)
  OBVIOUS
<1>3. /\ n > 0 /\ Len(rx') = n - 1 /\ Heads' /\ f.seq = next - n
      /\ held >= next - 1 - n /\ held >= (next - 1) - Len(ring) /\ held \in Nat
      /\ held = IF cursor = NoSeq THEN 0 ELSE cursor
      /\ f.seq >= 1 /\ f.seq \in Nat /\ f = ring[Len(ring) - n + 1]
  BY <1>1, <1>2, ForwardIs
<1>4. next \in Nat /\ n \in Nat /\ held \in Int /\ client \in Rows /\ Seed \in Nat
  BY <1>2, LostBounds
<1>5. /\ next' = next /\ lagged' = lagged /\ pc' = "open" /\ ring' = ring
      /\ IF f.seq > cursor THEN cursor' = f.seq /\ held' = f.seq /\ client' = Apply(client, f.body)
         ELSE cursor' = cursor /\ held' = held /\ client' = client
  BY <1>1 DEF Forward, Serving
<1>6. Catches(client, held, next - 1, ring, told, DOMAIN agg.last_sent, Coming(outbox))
  BY DEF LostInv, Caught
<1>7. cursor \in Nat \/ cursor = -1
  BY DEF FeedTyped, SessionTyped, NoSeq
<1>8. CASE f.seq > cursor
  <2>1. f.seq = held + 1
    <3>1. f.seq > held
      <4>1. CASE cursor = NoSeq
        <5>1. held = 0 /\ f.seq >= 1 /\ f.seq \in Nat
          BY <1>3, <4>1
        <5> QED BY <5>1
      <4>2. CASE cursor # NoSeq
        <5>1. held = cursor
          BY <1>3, <4>2
        <5> QED BY <1>8, <5>1
      <4> QED BY <4>1, <4>2
    <3>2. PICK g : g = f.seq
      OBVIOUS
    <3>3. g = next - n /\ g > held /\ held >= next - 1 - n
      BY <1>3, <3>1, <3>2
    <3>4. g = held + 1
      BY <1>4, <3>3
    <3> QED BY <3>2, <3>4
  <2>2. n = next - 1 - held /\ held < next - 1 /\ next - 1 \in Int
    <3>1. next - n = held + 1 /\ n > 0
      BY <1>3, <2>1
    <3> QED BY <1>4, <3>1
  <2>3. PICK b : b = f.body
    OBVIOUS
  <2>4. b = ring[Len(ring) - (next - 1 - held) + 1].body
    BY <1>3, <2>2, <2>3
  <2>5. ring \in Seq(Entry)
    BY DEF FeedTyped, HubTyped
  <2>6. /\ Catches(Apply(client, b), held + 1, next - 1, ring, told, DOMAIN agg.last_sent, Coming(outbox))
        /\ b.kind = "delta" => Ids(b) \subseteq DOMAIN client
    BY <1>3, <1>4, <1>6, <2>2, <2>4, <2>5, CatchesHead
  <2>7. client' = Apply(client, b) /\ held' = held + 1 /\ cursor' = held + 1
    BY <1>5, <1>8, <2>1, <2>3
  <2>8. Caught(client, held)'
    BY <1>5, <2>6, <2>7 DEF Caught, Forward, Serving
  <2>9. Cursors'
    <3>1. Seed <= held + 1
      BY <1>3 DEF LostInv, Cursors, NoSeq
    <3>2. cursor' # NoSeq
      BY <1>3, <2>7 DEF NoSeq
    <3>3. Seed <= held' + 1 /\ held' <= next' - 1 /\ next' - 1 - held' <= Len(rx')
      <4>1. next' = next /\ held' = held + 1 /\ Len(rx') = n - 1
        BY <1>3, <1>5, <2>7
      <4>2. Seed <= (held + 1) + 1 /\ held + 1 <= next - 1 /\ next - 1 - (held + 1) <= n - 1
        BY <1>4, <2>2, <3>1
      <4> QED BY <4>1, <4>2
    <3> QED BY <1>5, <2>7, <3>2, <3>3 DEF Cursors
  <2>10. LostInv'
    BY <1>3, <2>8, <2>9, ServingSame DEF LostInv, Forward
  <2> QED BY <1>1, <2>3, <2>6, <2>10
<1>9. CASE ~(f.seq > cursor)
  <2>1. cursor # NoSeq /\ held >= next - n
    <3>1. cursor >= f.seq
      BY <1>3, <1>7, <1>9
    <3>2. cursor # NoSeq
      BY <1>3, <3>1 DEF NoSeq
    <3> QED BY <1>3, <3>1, <3>2
  <2>2. cursor' = cursor /\ held' = held /\ client' = client
    BY <1>5, <1>9
  <2>3. Caught(client, held)'
    BY <1>5, <1>6, <2>2 DEF Caught, Forward, Serving
  <2>4. Cursors'
    <3>1. next' - 1 - held' <= Len(rx')
      BY <1>3, <1>4, <1>5, <2>1, <2>2
    <3>2. Cursors
      BY DEF LostInv
    <3>3. held' <= next' - 1 /\ (held' # NoSeq => Seed <= held' + 1) /\ held' = IF cursor' = NoSeq THEN 0 ELSE cursor'
      BY <1>3, <1>5, <2>2, <3>2 DEF Cursors
    <3> QED BY <1>5, <3>1, <3>3 DEF Cursors
  <2>5. LostInv'
    BY <1>3, <2>3, <2>4, ServingSame DEF LostInv, Forward
  <2> QED BY <2>2, <2>5
<1> QED BY <1>8, <1>9

-----------------------------------------------------------------------------
(* The invariant holds at first, and every step keeps it.                  *)
LEMMA LostInit == Roomy /\ Init => LostInv
<1> SUFFICES ASSUME Roomy, Init PROVE LostInv
  OBVIOUS
<1>1. PICK e : e = <<>>
  OBVIOUS
<1>2. e \in Rows /\ DOMAIN e = {} /\ Len(e) = 0 /\ \A S : e \in Seq(S)
  BY <1>1, NoRows
<1>3. /\ next = Seed /\ floor = Seed - 1 /\ ring = e /\ rx = e /\ told = e /\ outbox = e /\ client = e
      /\ held = -1 /\ pc = "off" /\ published.seq = 0 /\ published.rows = e /\ DOMAIN agg.last_sent = {}
  BY <1>1, <1>2 DEF Init, Roomy, NoSeq
<1>4. Seed \in Nat /\ Seed >= 1 /\ LeadMax \in Nat /\ RingFrames \in Nat
  BY FeedAssumption DEF Roomy
<1>5. 1..Len(e) = {}
  BY <1>2
<1>6. Numbered /\ Heads
  <2>1. Seed - 1 = (Seed - 1) + 0 /\ (Seed - 1) + 1 = Seed /\ 0 <= 0
    BY <1>4
  <2> QED BY <1>2, <1>3, <1>5, <2>1 DEF Numbered, Heads
<1>7. Led
  <2>1. boot # "bound"
    BY DEF Init
  <2> QED BY <2>1 DEF Led
<1>8. Cursors
  BY <1>3, <1>4 DEF Cursors, NoSeq
<1>9. Ends(outbox, DOMAIN agg.last_sent)
  BY <1>2, <1>3 DEF Ends
<1>10. Caught(client, held)
  <2>1. held \notin ((next - 1) - Len(ring))..(next - 1)
    BY <1>2, <1>3, <1>4
  <2> QED BY <2>1 DEF Caught, Catches
<1>11. Caught(published.rows, published.seq)
  <2>1. Matches(e, e, DOMAIN agg.last_sent, Coming(outbox))
    BY <1>2 DEF Matches
  <2>2. CASE Seed = 1
    <3>1. 0 \in Int /\ ring \in Seq(Entry) /\ next - 1 = 0
      BY <1>2, <1>3, <2>2
    <3>2. Catches(e, 0, 0, ring, e, DOMAIN agg.last_sent, Coming(outbox))
      BY <2>1, <3>1, CatchesNow
    <3> QED BY <1>3, <3>1, <3>2 DEF Caught
  <2>3. CASE Seed # 1
    <3>1. 0 \notin ((next - 1) - Len(ring))..(next - 1)
      BY <1>2, <1>3, <1>4, <2>3
    <3> QED BY <1>3, <3>1 DEF Caught, Catches
  <2> QED BY <2>2, <2>3
<1> QED BY <1>6, <1>7, <1>8, <1>9, <1>10, <1>11 DEF LostInv

LEMMA StepLost ==
  ASSUME Roomy, FeedTyped, FrameInv, GenInv, LostInv, BootInv, [Next]_vars
  PROVE  LostInv'
<1>1. CASE UNCHANGED vars
  <2>1. UNCHANGED hub /\ UNCHANGED session /\ published' = published /\ outbox' = outbox /\ agg' = agg /\ boot' = boot
    BY <1>1 DEF vars
  <2>2. Led' /\ Ends(outbox', DOMAIN agg'.last_sent)
    BY <2>1 DEF LostInv, Led, hub
  <2> QED BY <2>1, <2>2, SameLost
<1>2. ASSUME Next PROVE LostInv'
  <2>1. CASE \/ \E rows \in Rows : Recover(rows)
             \/ \E i \in Items : Completed(i) \/ \E v \in Values : Added(i, v) \/ StatusChanged(i, v) \/ Ended(i, v)
             \/ \E S \in SUBSET Items : Removed(S)
    BY <2>1, EventsLost
  <2>2. CASE Flush \/ Emit \/ Republish \/ Notice \/ Health
    BY <2>2, FlushLost, EmitLost, RepublishLost, NoticeLost, HealthLost
  <2>3. CASE Connect \/ Disconnect \/ Lag \/ AskResume
    BY <2>3, ConnectLost
  <2>4. CASE SendSnapshot
    BY <2>4, SnapshotLost
  <2>5. CASE CatchUp \/ Resume \/ Forward
    BY <2>5, CatchUpLost, ResumeLost, ForwardLost
  <2> QED BY <1>2, <2>1, <2>2, <2>3, <2>4, <2>5 DEF Next
<1> QED BY <1>1, <1>2

(* The bind, the sessions it lets in and the generations they find.        *)
LEMMA StepBoot ==
  ASSUME Roomy, FeedTyped, GenInv, BootInv, [Next]_vars
  PROVE  BootInv'
<1>1. ASSUME boot' = boot, published' = published, pc' = pc \/ boot = "bound" PROVE BootInv'
  BY <1>1 DEF BootInv
<1>2. CASE \E rows \in Rows : Recover(rows)
  <2>1. PICK rows \in Rows : Recover(rows)
    BY <1>2
  <2>2. Cardinality(DOMAIN rows) >= LeftMin /\ LeftMin \in Nat /\ LeftMin # 0
    BY <2>1, FeedAssumption DEF Recover, Roomy
  <2>3. DOMAIN rows # {}
    BY <2>2, FS_EmptySet
  <2>4. rows # <<>>
    BY <2>3, SetNone
  <2>5. boot = "recover" /\ boot' = "wait" /\ pc' = pc
    BY <2>1, <2>4 DEF Recover, Awaited, session
  <2> QED BY <2>5 DEF BootInv
<1>3. CASE Republish
  <2>1. Newest \in Nat /\ Newest + 1 >= Seed
    <3>1. Newest = next - 1 /\ next \in Nat /\ next >= Seed /\ Seed \in Nat
      BY NewestIs, FeedAssumption DEF Roomy, FeedTyped, HubTyped
    <3> QED BY <3>1, NewestTyped DEF FeedTyped
  <2>2. CASE agg.stale
    <3>1. published'.seq = Newest /\ pc' = pc
      BY <1>3, <2>2 DEF Republish, session
    <3>2. boot' = IF boot = "wait" THEN "bound" ELSE boot
      BY <1>3, <2>2 DEF Republish
    <3> QED BY <2>1, <3>1, <3>2 DEF BootInv
  <2>3. CASE ~agg.stale
    BY <1>1, <1>3, <2>3 DEF Republish, session
  <2> QED BY <2>2, <2>3
<1>4. CASE \E i \in Items : Completed(i) \/ \E v \in Values : Added(i, v) \/ StatusChanged(i, v) \/ Ended(i, v)
  BY <1>1, <1>4 DEF Completed, Added, StatusChanged, Ended, session
<1>5. CASE \E S \in SUBSET Items : Removed(S)
  BY <1>1, <1>5 DEF Removed, session
<1>6. CASE Flush \/ Emit \/ Notice \/ Health
  BY <1>1, <1>6 DEF Flush, Emit, Notice, Health, session
<1>7. CASE Connect
  BY <1>1, <1>7 DEF Connect, Serving
<1>8. CASE SendSnapshot \/ CatchUp \/ Resume \/ Forward \/ Lag \/ AskResume \/ Disconnect
  <2>1. boot' = boot /\ published' = published /\ pc # "off"
    BY <1>8 DEF SendSnapshot, CatchUp, Resume, Forward, Lag, AskResume, Disconnect, Serving
  <2> QED BY <1>1, <2>1 DEF BootInv
<1>9. CASE UNCHANGED vars
  BY <1>1, <1>9 DEF vars, session
<1> QED BY <1>2, <1>3, <1>4, <1>5, <1>6, <1>7, <1>8, <1>9 DEF Next

(* What it says of an open session.                                        *)
LEMMA LostIsNone ==
  ASSUME Roomy, FeedTyped, FrameInv, GenInv, LostInv
  PROVE  NoFrameLost
<1>1. SUFFICES ASSUME pc = "open", ~lagged, ~flushing,
                      NEW e, e = Sans(rx, {x \in ToSet(rx) : x.seq <= cursor}),
                      NEW w, w = [k \in DOMAIN e |-> e[k].body]
               PROVE  /\ \A i \in DOMAIN ApplyAll(client, w) : i \in DOMAIN told /\ ApplyAll(client, w)[i] = told[i]
                      /\ DOMAIN told \cap DOMAIN agg.last_sent \subseteq DOMAIN ApplyAll(client, w)
  BY DEF NoFrameLost
<1>2. PICK n : n = Len(rx)
  OBVIOUS
<1>3. PICK p : p = Len(ring)
  OBVIOUS
<1>4. /\ rx \in Seq(Entry) /\ ring \in Seq(Entry) /\ n \in Nat /\ p \in Nat /\ floor \in Nat /\ next \in Nat
      /\ held \in Int /\ held <= next - 1
  BY <1>2, <1>3, LostBounds DEF FeedTyped, HubTyped
<1>5. /\ n <= p /\ \A k \in 1..n : rx[k] = ring[p - n + k]
      /\ next - 1 = floor + p /\ \A k \in 1..p : ring[k].seq = floor + k
  BY <1>2, <1>3 DEF LostInv, Heads, Numbered
<1>6. held = IF cursor = NoSeq THEN 0 ELSE cursor
  BY <1>1 DEF LostInv, Cursors
<1>7. PICK b : b = floor + (p - n)
  OBVIOUS
<1>8. b \in Nat /\ b + n = next - 1 /\ b <= held /\ b >= floor /\ next - 1 - held <= n
  <2>1. next - 1 - held <= n
    BY <1>1, <1>2 DEF LostInv, Cursors
  <2>2. n <= p /\ next - 1 = floor + p
    BY <1>5
  <2>3. n \in Nat /\ p \in Nat /\ floor \in Nat /\ next \in Nat /\ held \in Int
    BY <1>4
  <2>4. b \in Nat /\ b + n = next - 1 /\ b >= floor
    BY <1>7, <2>2, <2>3
  <2>5. b <= held
    BY <2>1, <2>3, <2>4
  <2> QED BY <2>1, <2>4, <2>5
<1>9. \A k \in 1..n : rx[k].seq = b + k
  <2> TAKE k \in 1..n
  <2>1. p - n + k \in 1..p /\ floor + (p - n + k) = b + k
    BY <1>4, <1>5, <1>7
  <2>2. ring[p - n + k].seq = floor + (p - n + k)
    BY <1>5, <2>1
  <2> QED BY <1>5, <2>1, <2>2
<1>10. {x \in ToSet(rx) : x.seq <= cursor} = {x \in ToSet(rx) : x.seq <= held}
  <2>1. CASE cursor = NoSeq
    <3>1. held = 0
      BY <1>6, <2>1
    <3>2. \A x \in ToSet(rx) : x.seq \in Nat /\ x.seq >= 1
      <4>1. \A k \in 1..n : b + k \in Nat /\ b + k >= 1
        BY <1>4, <1>8
      <4>2. DOMAIN rx = 1..n
        BY <1>2, <1>4
      <4> QED BY <1>9, <4>1, <4>2 DEF ToSet
    <3>3. \A x \in ToSet(rx) : ~(x.seq <= cursor) /\ ~(x.seq <= held)
      BY <2>1, <3>1, <3>2 DEF NoSeq
    <3> QED BY <3>3
  <2>2. CASE cursor # NoSeq
    BY <1>6, <2>2
  <2> QED BY <2>1, <2>2
<1>11. w = Latest(rx, next - 1 - held)
  <2>1. e = Sans(rx, {x \in ToSet(rx) : x.seq <= held})
    BY <1>1, <1>10
  <2>2. b \in Int /\ \A k \in 1..Len(rx) : rx[k].seq = b + k
    BY <1>2, <1>8, <1>9
  <2>3. b + Len(rx) - held = next - 1 - held /\ held <= b + Len(rx)
    BY <1>2, <1>4, <1>8
  <2>4. rx \in Seq(Entry) /\ held \in Int /\ b <= held /\ held <= b + Len(rx)
    BY <1>4, <1>8, <2>3
  <2>5. [k \in DOMAIN e |-> e[k].body] = Latest(rx, b + Len(rx) - held)
    BY <2>1, <2>2, <2>4, BodiesLatest
  <2> QED BY <1>1, <2>3, <2>5
<1>12. PICK m : m = next - 1 - held
  OBVIOUS
<1>13. m \in 0..n
  <2>1. n \in Nat /\ next \in Nat /\ held \in Int /\ held <= next - 1
    BY <1>4
  <2> QED BY <1>8, <1>12, <2>1
<1>14. Latest(rx, m) = Latest(ring, m)
  <2>1. \A k \in 1..m : rx[n - m + k] = ring[p - m + k]
    <3> TAKE k \in 1..m
    <3>1. n - m + k \in 1..n /\ p - n + (n - m + k) = p - m + k
      BY <1>4, <1>5, <1>13
    <3>2. rx[n - m + k] = ring[p - n + (n - m + k)]
      BY <1>5, <3>1
    <3> QED BY <3>1, <3>2
  <2>2. \A k \in 1..m : rx[n - m + k].body = ring[p - m + k].body
    BY <2>1
  <2>3. [k \in 1..m |-> rx[n - m + k].body] = [k \in 1..m |-> ring[p - m + k].body]
    BY <2>2
  <2> QED BY <1>2, <1>3, <2>3 DEF Latest
<1>15. held \in ((next - 1) - p)..(next - 1)
  BY <1>4, <1>5, <1>8
<1>16. Matches(ApplyAll(client, w), told, DOMAIN agg.last_sent, Coming(outbox))
  BY <1>3, <1>11, <1>12, <1>14, <1>15 DEF LostInv, Caught, Catches
<1>17. Coming(outbox) = {}
  <2>1. outbox \in Seq(Frame) /\ Len(outbox) = 0
    BY <1>1 DEF FeedTyped, FlushTyped, FrameInv
  <2>2. outbox = <<>>
    BY <2>1
  <2>3. DOMAIN outbox = {}
    BY <2>2, SetNone
  <2> QED BY <2>3 DEF Coming
<1> QED BY <1>16, <1>17 DEF Matches

(* The frame a step hands to the client, and what it says of a delta.      *)
LEMMA ForwardedDelta ==
  ASSUME Roomy, FeedTyped, GenInv, LostInv, [Next]_vars,
         rx # <<>>, rx' = Tail(rx), held' # held, Head(rx).body.kind = "delta"
  PROVE  Ids(Head(rx).body) \subseteq DOMAIN client
<1>1. CASE Forward
  BY <1>1, ForwardLost
<1>2. CASE held' = held
  BY <1>2
<1>3. CASE rx' = rx
  <2>1. rx \in Seq(Entry) /\ rx # <<>>
    BY DEF FeedTyped, HubTyped
  <2>2. Len(Tail(rx)) # Len(rx)
    BY <2>1
  <2> QED BY <1>3, <2>2
<1>4. CASE \E rows \in Rows : Recover(rows)
  BY <1>2, <1>4 DEF Recover, Awaited, session
<1>5. CASE \E i \in Items : Completed(i) \/ \E v \in Values : Added(i, v) \/ StatusChanged(i, v) \/ Ended(i, v)
  BY <1>2, <1>5 DEF Completed, Added, StatusChanged, Ended, session
<1>6. CASE \E S \in SUBSET Items : Removed(S)
  BY <1>2, <1>6 DEF Removed, session
<1>7. CASE Flush \/ Emit \/ Republish \/ Notice \/ Health
  BY <1>2, <1>7 DEF Flush, Emit, Republish, Notice, Health, session
<1>8. CASE Connect \/ Lag \/ AskResume \/ Disconnect
  BY <1>2, <1>8 DEF Connect, Lag, AskResume, Disconnect
<1>9. CASE SendSnapshot \/ CatchUp \/ Resume
  BY <1>3, <1>9 DEF SendSnapshot, CatchUp, Resume
<1>10. CASE UNCHANGED vars
  BY <1>2, <1>10 DEF vars, session
<1> QED BY <1>1, <1>4, <1>5, <1>6, <1>7, <1>8, <1>9, <1>10 DEF Next

(* The invariant of the two theorems below, under their premises: what is  *)
(* told of a boot that counts from 1 or above and recovers some row.       *)
FeedInv == FeedTyped /\ FrameInv /\ GenInv /\ LostInv /\ BootInv

LEMMA FeedInvHolds ==
  ASSUME BurstMax <= MemDone, Cardinality(Items) <= DeltaBudget, Roomy
  PROVE  Spec => []FeedInv
<1>1. Init => FeedInv
  <2>1. Init => BootInv
    BY DEF Init, BootInv
  <2> QED BY <2>1, InitTyped, FrameInit, GenInit, LostInit DEF FeedInv
<1>2. FeedInv /\ [Next]_vars => FeedInv'
  BY StepTyped, StepFramed, StepGen, StepLost, StepBoot DEF FeedInv
<1> QED BY <1>1, <1>2, PTL DEF Spec

(* NoFrameLost holds in every reachable state of a boot that recovers some *)
(* row and does not count from 0, if the ring is longer than the receiver  *)
(* and what a generation may lack (with the premises of ToldTruth): what a *)
(* client has got by a snapshot, a catch-up, a resume or the bus, and what *)
(* the bus still holds for it, are the rows of one that heard all frames.  *)
THEOREM NothingIsLost ==
  ASSUME BurstMax <= MemDone, Cardinality(Items) <= DeltaBudget,
         Seed # 0, LeftMin # 0, LeadMax + Capacity <= RingFrames
  PROVE  Spec => []NoFrameLost
<1>1. Roomy
  BY DEF Roomy
<1>2. FeedInv => NoFrameLost
  BY <1>1, LostIsNone DEF FeedInv
<1> QED BY <1>1, <1>2, FeedInvHolds, PTL

(* DeltaKnowsItsRow holds of every step, under the same premises: a delta  *)
(* that a client is handed patches rows it has, whatever left the done     *)
(* window, and came back to it, before or after the client connected.      *)
THEOREM DeltasKnowTheirRows ==
  ASSUME BurstMax <= MemDone, Cardinality(Items) <= DeltaBudget,
         Seed # 0, LeftMin # 0, LeadMax + Capacity <= RingFrames
  PROVE  Spec => DeltaKnowsItsRow
<1> DEFINE Known == rx # <<>> /\ rx' = Tail(rx) /\ held' # held /\ held' = Head(rx).seq /\ Head(rx).body.kind = "delta"
                      => Ids(Head(rx).body) \subseteq DOMAIN client
<1>1. Roomy
  BY DEF Roomy
<1>2. FeedInv /\ [Next]_vars => [Known]_vars
  BY <1>1, ForwardedDelta DEF FeedInv
<1>3. Spec => [][Known]_vars
  BY <1>1, <1>2, FeedInvHolds, PTL DEF Spec
<1> QED BY <1>3 DEF DeltaKnowsItsRow
===========================================================================
