----------------------------- MODULE ListProofs -----------------------------
(***************************************************************************)
(* Induction up to a number and over a sequence, for facts that are stated *)
(* as membership in a set, and what Sans does to a sequence.               *)
(***************************************************************************)
EXTENDS Lists, FiniteSetTheorems, WellFoundedInduction, TLAPS

(* A sequence that holds nothing twice.                                    *)
Once(s) == \A j, k \in DOMAIN s : s[j] = s[k] => j = k

(* Induction over the numbers up to n, one step at a time.                 *)
LEMMA UpTo ==
  ASSUME NEW n \in Nat, NEW Good, 0 \in Good, \A k \in 1..n : k - 1 \in Good => k \in Good
  PROVE  \A k \in 0..n : k \in Good
<1> DEFINE Bad == {T \in SUBSET (0..n) : \E k \in 0..n : k \notin Good /\ T = 0..k}
<1>0. IsFiniteSet(0..n)
  BY FS_Interval
<1>1. IsWellFoundedOn(StrictSubsetOrdering(0..n), SUBSET (0..n))
  BY <1>0, FS_FiniteSubsetsOfFinite, FS_StrictSubsetOrderingWellFounded
<1>2. SUFFICES ASSUME NEW j \in 0..n, j \notin Good PROVE FALSE
  OBVIOUS
<1>3. 0..j \in Bad
  BY <1>2
<1>4. PICK T \in Bad : \A U \in Bad : ~(<<U, T>> \in StrictSubsetOrdering(0..n))
  BY <1>1, <1>3, WFMin
<1>5. PICK k \in 0..n : k \notin Good /\ T = 0..k
  OBVIOUS
<1>6. k \in 1..n /\ k - 1 \notin Good /\ k - 1 \in 0..n
  BY <1>5
<1>7. 0..(k - 1) \in Bad
  BY <1>6
<1>8. 0..(k - 1) # 0..k
  BY <1>6
<1>9. <<0..(k - 1), T>> \in StrictSubsetOrdering(0..n)
  BY <1>5, <1>6, <1>7, <1>8 DEF StrictSubsetOrdering
<1> QED BY <1>4, <1>7, <1>9

(* The elements kept of the first ones. *)
Sifted(f, s, Out, m) ==
  f = [k \in 0..m |-> IF k = 0 THEN <<>> ELSE IF s[k] \in Out THEN f[k - 1] ELSE Append(f[k - 1], s[k])]
(* What is kept of each prefix of a sequence.                              *)
LEMMA SansRuns ==
  ASSUME NEW Out, NEW S, NEW s \in Seq(S)
  PROVE  \E f : Sifted(f, s, Out, Len(s)) /\ Sans(s, Out) = f[Len(s)]
<1> DEFINE n == Len(s)
           R(f, m) == Sifted(f, s, Out, m)
           Good == {m \in 0..n : \E g : R(g, m)}
<1>1. n \in Nat
  OBVIOUS
<1>2. 0 \in Good
  <2> DEFINE g == [k \in 0..0 |-> <<>>]
  <2>1. R(g, 0)
    BY DEF Sifted
  <2> HIDE DEF g, R
  <2>2. \E x : R(x, 0)
    BY <2>1
  <2> QED BY <1>1, <2>2
<1>3. ASSUME NEW m \in 1..n, m - 1 \in Good PROVE m \in Good
  <2>1. PICK g : R(g, m - 1)
    BY <1>3
  <2> DEFINE k == m
             f == g
             last == IF s[k] \in Out THEN f[k - 1] ELSE Append(f[k - 1], s[k])
             h == [j \in 0..m |-> IF j = m THEN last ELSE g[j]]
  <2> HIDE DEF last
  <2>2. ASSUME NEW j \in 0..m PROVE h[j] = IF j = 0 THEN <<>> ELSE IF s[j] \in Out THEN h[j - 1] ELSE Append(h[j - 1], s[j])
    <3>1. CASE j = 0
      BY <1>1, <2>1, <3>1 DEF Sifted
    <3>2. CASE j = m
      <4>1. j # 0 /\ h[j - 1] = g[m - 1] /\ h[j] = last
        BY <1>1, <3>2
      <4> QED BY <3>2, <4>1 DEF last
    <3>3. CASE j # 0 /\ j # m
      <4>1. j \in 0..(m - 1) /\ j - 1 \in 0..(m - 1)
        BY <1>1, <3>3
      <4>2. g[j] = IF s[j] \in Out THEN g[j - 1] ELSE Append(g[j - 1], s[j])
        BY <2>1, <3>3, <4>1 DEF Sifted
      <4> QED BY <3>3, <4>1, <4>2
    <3> QED BY <3>1, <3>2, <3>3
  <2>3. R(h, m)
    BY <2>2 DEF Sifted
  <2> HIDE DEF h, R
  <2>4. \E x : R(x, m)
    BY <2>3
  <2> QED BY <1>1, <2>4
<1> HIDE DEF Good
<1>4. \A k \in 0..n : k \in Good
  BY <1>1, <1>2, <1>3, UpTo
<1>5. \E g : R(g, n)
  BY <1>1, <1>4 DEF Good
<1>6. PICK f : f = CHOOSE g : R(g, n)
  OBVIOUS
<1>7. R(f, n)
  BY <1>5, <1>6
<1>8. Sans(s, Out) = f[n]
  BY <1>6 DEF Sans, Sifted
<1> QED BY <1>7, <1>8

LEMMA SansNone ==
  ASSUME NEW Out
  PROVE  Sans(<<>>, Out) = <<>>
<1>1. <<>> \in Seq({}) /\ Len(<<>>) = 0
  OBVIOUS
<1>2. PICK f : Sifted(f, <<>>, Out, 0) /\ Sans(<<>>, Out) = f[0]
  BY <1>1, SansRuns
<1> QED BY <1>2 DEF Sifted

LEMMA SansMore ==
  ASSUME NEW Out, NEW S, NEW s \in Seq(S), NEW x \in S
  PROVE  Sans(Append(s, x), Out) = IF x \in Out THEN Sans(s, Out) ELSE Append(Sans(s, Out), x)
<1> DEFINE n == Len(s)
           longer == Append(s, x)
<1>1. n \in Nat /\ longer \in Seq(S) /\ Len(longer) = n + 1 /\ longer[n + 1] = x
  OBVIOUS
<1>2. \A k \in 1..n : longer[k] = s[k]
  OBVIOUS
<1> HIDE DEF longer
<1>3. PICK f : Sifted(f, s, Out, n) /\ Sans(s, Out) = f[n]
  BY SansRuns
<1>4. PICK g : Sifted(g, longer, Out, n + 1) /\ Sans(longer, Out) = g[n + 1]
  BY <1>1, SansRuns
<1> DEFINE Good == {k \in 0..n : f[k] = g[k]}
<1>5. 0 \in Good
  BY <1>1, <1>3, <1>4 DEF Sifted
<1>6. ASSUME NEW k \in 1..n, k - 1 \in Good PROVE k \in Good
  <2>1. k \in 0..n /\ k - 1 \in 0..n /\ k \in 0..(n + 1) /\ k # 0 /\ f[k - 1] = g[k - 1]
    BY <1>1, <1>6
  <2>2. f[k] = IF s[k] \in Out THEN f[k - 1] ELSE Append(f[k - 1], s[k])
    BY <1>3, <2>1 DEF Sifted
  <2>3. g[k] = IF longer[k] \in Out THEN g[k - 1] ELSE Append(g[k - 1], longer[k])
    BY <1>4, <2>1 DEF Sifted
  <2> QED BY <1>2, <2>1, <2>2, <2>3
<1> HIDE DEF Good
<1>7. \A k \in 0..n : k \in Good
  BY <1>1, <1>5, <1>6, UpTo
<1>8. f[n] = g[n]
  BY <1>1, <1>7 DEF Good
<1>9. g[n + 1] = IF x \in Out THEN g[n] ELSE Append(g[n], x)
  <2>1. n + 1 \in 0..(n + 1) /\ n + 1 # 0 /\ (n + 1) - 1 = n
    BY <1>1
  <2>2. g[n + 1] = IF longer[n + 1] \in Out THEN g[(n + 1) - 1] ELSE Append(g[(n + 1) - 1], longer[n + 1])
    BY <1>4, <2>1 DEF Sifted
  <2> QED BY <1>1, <2>1, <2>2
<1> QED BY <1>1, <1>3, <1>4, <1>8, <1>9 DEF longer

(* The empty sequence, and every one that is an element longer: the        *)
(* induction over sequences.                                               *)
LEMMA SeqInduction ==
  ASSUME NEW S, NEW s \in Seq(S), NEW Good, <<>> \in Good,
         \A t \in Seq(S), x \in S : t \in Good => Append(t, x) \in Good
  PROVE  s \in Good
<1> DEFINE n == Len(s)
           Reached == {k \in 0..n : SubSeq(s, 1, k) \in Good}
<1>1. n \in Nat
  OBVIOUS
<1>2. 0 \in Reached
  <2>1. SubSeq(s, 1, 0) = <<>>
    BY <1>1
  <2>2. SubSeq(s, 1, 0) \in Good
    BY <2>1
  <2> QED BY <1>1, <2>2
<1>3. ASSUME NEW k \in 1..n, k - 1 \in Reached PROVE k \in Reached
  <2>1. PICK t : t = SubSeq(s, 1, k - 1)
    OBVIOUS
  <2>2. t \in Seq(S) /\ s[k] \in S /\ t \in Good
    BY <1>1, <1>3, <2>1
  <2>3. SubSeq(s, 1, k) = Append(t, s[k])
    BY <1>1, <2>1
  <2>4. SubSeq(s, 1, k) \in Good
    BY <2>2, <2>3
  <2> QED BY <1>1, <2>4
<1>4. \A k \in 0..n : k \in Reached
  <2> HIDE DEF Reached
  <2> QED BY <1>1, <1>2, <1>3, UpTo
<1>5. SubSeq(s, 1, n) = s
  BY <1>1
<1>6. n \in Reached
  BY <1>1, <1>4
<1> QED BY <1>5, <1>6

(* Sifting leaves a sequence of what was not sifted out.                   *)
LEMMA SansSeq ==
  ASSUME NEW S, NEW s \in Seq(S), NEW Out
  PROVE  Sans(s, Out) \in Seq(S \ Out)
<1> DEFINE Good == {t \in Seq(S) : Sans(t, Out) \in Seq(S \ Out)}
<1>0. ASSUME NEW t \in Seq(S), NEW x \in S
      PROVE  Sans(Append(t, x), Out) = IF x \in Out THEN Sans(t, Out) ELSE Append(Sans(t, Out), x)
  BY SansMore
<1>1. <<>> \in Good
  <2>1. Sans(<<>>, Out) = <<>>
    BY SansNone
  <2>2. <<>> \in Seq(S) /\ <<>> \in Seq(S \ Out)
    OBVIOUS
  <2> QED BY <2>1, <2>2
<1>2. ASSUME NEW t \in Seq(S), NEW x \in S, t \in Good PROVE Append(t, x) \in Good
  <2>1. PICK some : some = Sans(t, Out)
    OBVIOUS
  <2>2. some \in Seq(S \ Out) /\ Append(t, x) \in Seq(S)
    BY <1>2, <2>1
  <2>3. Sans(Append(t, x), Out) = IF x \in Out THEN some ELSE Append(some, x)
    BY <1>0, <2>1
  <2>4. Sans(Append(t, x), Out) \in Seq(S \ Out)
    BY <2>2, <2>3
  <2> QED BY <2>2, <2>4
<1> HIDE DEF Good
<1>3. s \in Good
  BY <1>1, <1>2, SeqInduction
<1> QED BY <1>3 DEF Good

(* An element that a sequence does not have, and one that it has once at   *)
(* most.                                                                   *)
Lacks(s, e) == \A i \in 1..Len(s) : s[i] # e
Single(s, e) == \A i, j \in 1..Len(s) : s[i] = e /\ s[j] = e => i = j

LEMMA AppendSingle ==
  ASSUME NEW S, NEW t \in Seq(S), NEW x \in S, NEW e
  PROVE  /\ Append(t, x) \in Seq(S) /\ Len(Append(t, x)) = Len(t) + 1 /\ Len(t) \in Nat
         /\ Lacks(Append(t, x), e) <=> Lacks(t, e) /\ x # e
         /\ Single(Append(t, x), e) <=> Single(t, e) /\ (x = e => Lacks(t, e))
<1> DEFINE n == Len(t)
           q == Append(t, x)
<1>1. n \in Nat /\ q \in Seq(S) /\ Len(q) = n + 1 /\ q[n + 1] = x /\ \A i \in 1..n : q[i] = t[i]
  OBVIOUS
<1> HIDE DEF n, q
<1>2. 1..(n + 1) = (1..n) \cup {n + 1} /\ n + 1 \notin 1..n
  BY <1>1
<1>3. Lacks(q, e) <=> (\A i \in 1..n : t[i] # e) /\ x # e
  BY <1>1, <1>2 DEF Lacks
<1>4. Single(q, e) <=> /\ \A i, j \in 1..n : t[i] = e /\ t[j] = e => i = j
                       /\ x = e => \A i \in 1..n : t[i] # e
  BY <1>1, <1>2 DEF Single
<1> QED BY <1>1, <1>3, <1>4 DEF Lacks, Single, n, q

LEMMA SansSingle ==
  ASSUME NEW S, NEW s \in Seq(S), NEW Out, NEW e
  PROVE  /\ Lacks(s, e) => Lacks(Sans(s, Out), e)
         /\ Single(s, e) => Single(Sans(s, Out), e)
<1> DEFINE Good == {t \in Seq(S) : (Lacks(t, e) => Lacks(Sans(t, Out), e)) /\ (Single(t, e) => Single(Sans(t, Out), e))}
<1>1. <<>> \in Good
  BY SansNone
<1>2. ASSUME NEW t \in Seq(S), NEW x \in S, t \in Good PROVE Append(t, x) \in Good
  <2>1. PICK some : some = Sans(t, Out)
    OBVIOUS
  <2>2. some \in Seq(S)
    <3>1. some \in Seq(S \ Out)
      BY <2>1, SansSeq
    <3> QED BY <3>1
  <2>3. Sans(Append(t, x), Out) = IF x \in Out THEN some ELSE Append(some, x)
    BY <2>1, SansMore
  <2>4. (Lacks(t, e) => Lacks(some, e)) /\ (Single(t, e) => Single(some, e))
    BY <1>2, <2>1
  <2>5. /\ Append(t, x) \in Seq(S)
        /\ Lacks(Append(t, x), e) <=> Lacks(t, e) /\ x # e
        /\ Single(Append(t, x), e) <=> Single(t, e) /\ (x = e => Lacks(t, e))
    BY AppendSingle
  <2>6. /\ Lacks(Append(some, x), e) <=> Lacks(some, e) /\ x # e
        /\ Single(Append(some, x), e) <=> Single(some, e) /\ (x = e => Lacks(some, e))
    BY <2>2, AppendSingle
  <2> QED BY <2>3, <2>4, <2>5, <2>6
<1> HIDE DEF Good
<1>3. s \in Good
  BY <1>1, <1>2, SeqInduction
<1> QED BY <1>3 DEF Good

LEMMA SansOne ==
  ASSUME NEW S, NEW s \in Seq(S), NEW e, Single(s, e)
  PROVE  Len(Sans(s, {e})) \in Nat /\ Len(Sans(s, {e})) >= Len(s) - 1
<1> DEFINE Good == {t \in Seq(S) : /\ Len(Sans(t, {e})) \in Nat
                                   /\ Lacks(t, e) => Len(Sans(t, {e})) = Len(t)
                                   /\ Single(t, e) => Len(Sans(t, {e})) >= Len(t) - 1}
<1>1. <<>> \in Good
  BY SansNone
<1>2. ASSUME NEW t \in Seq(S), NEW x \in S, t \in Good PROVE Append(t, x) \in Good
  <2>1. PICK some : some = Sans(t, {e})
    OBVIOUS
  <2>2. some \in Seq(S \ {e})
    BY <2>1, SansSeq
  <2>3. Sans(Append(t, x), {e}) = IF x = e THEN some ELSE Append(some, x)
    BY <2>1, SansMore
  <2>4. Len(some) \in Nat /\ (Lacks(t, e) => Len(some) = Len(t)) /\ (Single(t, e) => Len(some) >= Len(t) - 1)
    BY <1>2, <2>1
  <2>5. /\ Append(t, x) \in Seq(S) /\ Len(Append(t, x)) = Len(t) + 1 /\ Len(t) \in Nat
        /\ Lacks(Append(t, x), e) <=> Lacks(t, e) /\ x # e
        /\ Single(Append(t, x), e) <=> Single(t, e) /\ (x = e => Lacks(t, e))
    BY AppendSingle
  <2>6. x # e => Len(Append(some, x)) = Len(some) + 1
    BY <2>2
  <2>7. CASE x = e
    BY <2>3, <2>4, <2>5, <2>7
  <2>8. CASE x # e
    BY <2>3, <2>4, <2>5, <2>6, <2>8
  <2> QED BY <2>7, <2>8
<1> HIDE DEF Good
<1>3. s \in Good
  BY <1>1, <1>2, SeqInduction
<1> QED BY <1>3 DEF Good

LEMMA TailSingle ==
  ASSUME NEW S, NEW s \in Seq(S), NEW n \in Nat, NEW e
  PROVE  /\ Single(s, e) => Single(SubSeq(s, n + 1, Len(s)), e)
         /\ Lacks(s, e) => Lacks(SubSeq(s, n + 1, Len(s)), e)
<1> DEFINE q == SubSeq(s, n + 1, Len(s))
<1>1. Len(s) \in Nat /\ Len(q) \in Nat /\ \A i \in 1..Len(q) : q[i] = s[n + i] /\ n + i \in 1..Len(s)
  OBVIOUS
<1> HIDE DEF q
<1>2. Single(s, e) => Single(q, e)
  BY <1>1 DEF Single
<1>3. Lacks(s, e) => Lacks(q, e)
  BY <1>1 DEF Lacks
<1> QED BY <1>2, <1>3 DEF q

LEMMA AheadSingle ==
  ASSUME NEW S, NEW s \in Seq(S), NEW e \in S, Lacks(s, e)
  PROVE  Single(<<e>> \o s, e)
<1> DEFINE q == <<e>> \o s
<1>1. Len(s) \in Nat /\ Len(q) = Len(s) + 1 /\ \A i \in 1..Len(q) : i # 1 => q[i] = s[i - 1] /\ i - 1 \in 1..Len(s)
  OBVIOUS
<1> HIDE DEF q
<1>2. \A i \in 1..Len(q) : q[i] = e => i = 1
  BY <1>1 DEF Lacks
<1> QED BY <1>2 DEF Single, q

-----------------------------------------------------------------------------
(* What frames do to rows.                                                 *)
BodyKinds == {"added", "completed", "removed", "delta", "other"}
IsFcn(f) == f = [x \in DOMAIN f |-> f[x]]

(* The first element, and the rest.                                        *)
LEMMA SansFirst ==
  ASSUME NEW S, NEW s \in Seq(S), NEW Out, s # <<>>
  PROVE  Sans(s, Out) = IF Head(s) \in Out THEN Sans(Tail(s), Out) ELSE <<Head(s)>> \o Sans(Tail(s), Out)
<1> DEFINE Fits(t) == Sans(t, Out) = IF Head(t) \in Out THEN Sans(Tail(t), Out) ELSE <<Head(t)>> \o Sans(Tail(t), Out)
           Good == {t \in Seq(S) : t = <<>> \/ Fits(t)}
<1>1. <<>> \in Good
  OBVIOUS
<1>2. ASSUME NEW t \in Seq(S), NEW x \in S, t \in Good PROVE Append(t, x) \in Good
  <2>1. CASE t = <<>>
    <3>1. PICK q : q = Append(t, x)
      OBVIOUS
    <3>2. q \in Seq(S) /\ Head(q) = x /\ Tail(q) = t /\ q = <<x>> \o t
      BY <2>1, <3>1
    <3>3. Sans(t, Out) = t
      BY <2>1, SansNone
    <3>4. Sans(q, Out) = IF x \in Out THEN t ELSE q
      <4>1. Sans(Append(t, x), Out) = IF x \in Out THEN Sans(t, Out) ELSE Append(Sans(t, Out), x)
        BY SansMore
      <4> QED BY <3>1, <3>3, <4>1
    <3>5. Fits(q)
      BY <3>2, <3>3, <3>4
    <3> QED BY <3>1, <3>2, <3>5
  <2>2. CASE t # <<>>
    <3> DEFINE h == Head(t)
               r == Tail(t)
    <3>1. h \in S /\ r \in Seq(S) /\ Head(Append(t, x)) = h /\ Tail(Append(t, x)) = Append(r, x) /\ Append(t, x) \in Seq(S)
      BY <2>2
    <3>2. PICK a : a = Sans(r, Out)
      OBVIOUS
    <3>3. a \in Seq(S)
      <4>1. a \in Seq(S \ Out)
        BY <3>1, <3>2, SansSeq
      <4> QED BY <4>1
    <3>4. Sans(t, Out) = IF h \in Out THEN a ELSE <<h>> \o a
      BY <1>2, <2>2, <3>2
    <3>5. Sans(Append(t, x), Out) = IF x \in Out THEN Sans(t, Out) ELSE Append(Sans(t, Out), x)
      BY SansMore
    <3>6. Sans(Append(r, x), Out) = IF x \in Out THEN a ELSE Append(a, x)
      <4> HIDE DEF h, r
      <4>1. Sans(Append(r, x), Out) = IF x \in Out THEN Sans(r, Out) ELSE Append(Sans(r, Out), x)
        BY <3>1, SansMore
      <4> QED BY <3>2, <4>1
    <3>7. Append(<<h>> \o a, x) = <<h>> \o Append(a, x)
      BY <3>1, <3>3
    <3> HIDE DEF h, r
    <3>8. Sans(Append(t, x), Out) = IF h \in Out THEN Sans(Append(r, x), Out) ELSE <<h>> \o Sans(Append(r, x), Out)
      <4>1. CASE x \in Out
        BY <3>4, <3>5, <3>6, <4>1
      <4>2. CASE x \notin Out
        BY <3>4, <3>5, <3>6, <3>7, <4>2
      <4> QED BY <4>1, <4>2
    <3>9. Fits(Append(t, x))
      BY <3>1, <3>8 DEF h, r
    <3> QED BY <3>1, <3>9
  <2> QED BY <2>1, <2>2
<1> HIDE DEF Good
<1>3. s \in Good
  BY <1>1, <1>2, SeqInduction
<1> QED BY <1>3 DEF Good

(* An element moved over the seam of two sequences, and one put behind.    *)
LEMMA Seam ==
  ASSUME NEW S, NEW a \in Seq(S), NEW b \in Seq(S), NEW x \in S
  PROVE  /\ Append(a, x) \o b = a \o (<<x>> \o b)
         /\ a \o Append(b, x) = Append(a \o b, x)
<1> DEFINE p == Append(a, x) \o b
           q == a \o (<<x>> \o b)
           v == a \o Append(b, x)
           w == Append(a \o b, x)
<1>1. PICK c : c = <<x>> \o b
  OBVIOUS
<1>2. c \in Seq(S) /\ Len(c) = 1 + Len(b) /\ c[1] = x /\ \A k \in 1..Len(b) : c[k + 1] = b[k]
  BY <1>1
<1>3. p \in Seq(S) /\ q \in Seq(S) /\ Len(p) = Len(a) + 1 + Len(b) /\ Len(q) = Len(a) + 1 + Len(b)
  BY <1>1, <1>2
<1>4. ASSUME NEW k \in 1..Len(p) PROVE p[k] = q[k]
  <2>1. CASE k <= Len(a)
    BY <1>1, <1>2, <1>3, <2>1
  <2>2. CASE k = Len(a) + 1
    BY <1>1, <1>2, <1>3, <2>2
  <2>3. CASE k > Len(a) + 1
    <3>1. q[k] = c[k - Len(a)] /\ p[k] = b[k - Len(a) - 1]
      BY <1>1, <1>2, <1>3, <2>3
    <3>2. k - Len(a) - 1 \in 1..Len(b) /\ (k - Len(a) - 1) + 1 = k - Len(a)
      BY <1>3, <2>3
    <3> QED BY <1>2, <3>1, <3>2
  <2> QED BY <1>3, <2>1, <2>2, <2>3
<1>5. p = q
  <2> HIDE DEF p, q
  <2> QED BY <1>3, <1>4
<1>6. PICK d : d = Append(b, x)
  OBVIOUS
<1>7. d \in Seq(S) /\ Len(d) = Len(b) + 1 /\ d[Len(b) + 1] = x /\ \A k \in 1..Len(b) : d[k] = b[k]
  BY <1>6
<1>8. v \in Seq(S) /\ w \in Seq(S) /\ Len(v) = Len(a) + Len(b) + 1 /\ Len(w) = Len(a) + Len(b) + 1
  BY <1>6, <1>7
<1>9. ASSUME NEW k \in 1..Len(v) PROVE v[k] = w[k]
  <2>1. CASE k <= Len(a)
    BY <1>6, <1>7, <1>8, <2>1
  <2>2. CASE k > Len(a)
    <3>1. v[k] = d[k - Len(a)] /\ k - Len(a) \in 1..(Len(b) + 1)
      BY <1>6, <1>7, <1>8, <2>2
    <3>2. CASE k = Len(a) + Len(b) + 1
      BY <1>6, <1>7, <1>8, <3>1, <3>2
    <3>3. CASE k < Len(a) + Len(b) + 1
      <4>1. w[k] = b[k - Len(a)] /\ k - Len(a) \in 1..Len(b)
        BY <1>8, <2>2, <3>3
      <4> QED BY <1>7, <3>1, <4>1
    <3> QED BY <1>8, <3>2, <3>3
  <2> QED BY <1>8, <2>1, <2>2
<1>10. v = w
  <2> HIDE DEF v, w
  <2> QED BY <1>8, <1>9
<1> QED BY <1>5, <1>10
===========================================================================
