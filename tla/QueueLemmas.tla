----------------------------- MODULE QueueLemmas -----------------------------
(***************************************************************************)
(* Facts about the deques of the source: what deque.remove (RemoveAt),     *)
(* append (Append) and popleft (Head, Tail) leave, and that they keep a    *)
(* queue free of duplicates.                                               *)
(***************************************************************************)
EXTENDS Integers, SequencesExt, SequenceTheorems, TLAPS

(* What deleting one position of a sequence leaves (deque.remove). *)
LEMMA RemoveAtProperties ==
    ASSUME NEW S, NEW s \in Seq(S), NEW i \in 1 .. Len(s)
    PROVE  /\ RemoveAt(s, i) \in Seq(S)
           /\ Len(RemoveAt(s, i)) = Len(s) - 1
           /\ \A j \in 1 .. Len(s) - 1 :
                 RemoveAt(s, i)[j] = IF j < i THEN s[j] ELSE s[j + 1]
<1> DEFINE before == SubSeq(s, 1, i - 1)
           after == SubSeq(s, i + 1, Len(s))
<1>1. before \in Seq(S) /\ Len(before) = i - 1 /\ \A j \in 1 .. i - 1 : before[j] = s[j]
  OBVIOUS
<1>2. after \in Seq(S) /\ Len(after) = Len(s) - i /\ \A j \in 1 .. Len(s) - i : after[j] = s[i + j]
  OBVIOUS
<1>3. RemoveAt(s, i) = before \o after
  BY DEF RemoveAt
<1> HIDE DEF before, after
<1>4. /\ before \o after \in Seq(S)
      /\ Len(before \o after) = Len(before) + Len(after)
      /\ \A j \in 1 .. Len(before) + Len(after) :
            (before \o after)[j] =
                IF j <= Len(before) THEN before[j] ELSE after[j - Len(before)]
  BY <1>1, <1>2, ConcatProperties
<1>5. ASSUME NEW j \in 1 .. Len(s) - 1
      PROVE  RemoveAt(s, i)[j] = IF j < i THEN s[j] ELSE s[j + 1]
  <2>1. CASE j < i
    <3>1. j \in 1 .. Len(before) + Len(after) /\ j <= Len(before) /\ j \in 1 .. i - 1
      BY <1>1, <1>2, <2>1
    <3>2. QED
      BY <1>1, <1>3, <1>4, <2>1, <3>1
  <2>2. CASE ~(j < i)
    <3>0. j \in 1 .. Len(before) + Len(after) /\ ~(j <= Len(before))
      BY <1>1, <1>2, <2>2
    <3>1. RemoveAt(s, i)[j] = after[j - Len(before)]
      BY <1>3, <1>4, <3>0
    <3>2. j - Len(before) \in 1 .. Len(s) - i /\ i + (j - Len(before)) = j + 1
      BY <1>1, <2>2
    <3>3. QED
      BY <1>2, <2>2, <3>1, <3>2
  <2>3. QED
    BY <2>1, <2>2
<1>6. QED
  BY <1>1, <1>2, <1>3, <1>4, <1>5

(* deque.remove from a queue without duplicates: exactly that element goes. *)
LEMMA RemoveAtQueue ==
    ASSUME NEW S, NEW s \in Seq(S), IsInjective(s), NEW i \in 1 .. Len(s)
    PROVE  /\ RemoveAt(s, i) \in Seq(S)
           /\ IsInjective(RemoveAt(s, i))
           /\ \A e : Contains(RemoveAt(s, i), e) <=> Contains(s, e) /\ e # s[i]
<1> DEFINE r == RemoveAt(s, i)
<1>1. /\ r \in Seq(S)
      /\ Len(r) = Len(s) - 1
      /\ \A j \in 1 .. Len(s) - 1 : r[j] = IF j < i THEN s[j] ELSE s[j + 1]
  BY RemoveAtProperties
<1> HIDE DEF r
<1>2. ASSUME NEW j \in 1 .. Len(s), NEW k \in 1 .. Len(s), s[j] = s[k]
      PROVE  j = k
  BY <1>2 DEF IsInjective
<1>3. IsInjective(r)
  <2>1. ASSUME NEW j \in 1 .. Len(r), NEW k \in 1 .. Len(r), r[j] = r[k]
        PROVE  j = k
    <3>1. CASE j < i /\ k < i
      BY <1>1, <1>2, <2>1, <3>1
    <3>2. CASE j < i /\ ~(k < i)
      <4>1. r[j] = s[j] /\ r[k] = s[k + 1] /\ j \in 1 .. Len(s) /\ k + 1 \in 1 .. Len(s)
        BY <1>1, <3>2
      <4>2. j = k + 1
        BY <1>2, <2>1, <4>1
      <4>3. QED
        BY <3>2, <4>2
    <3>3. CASE ~(j < i) /\ k < i
      <4>1. r[j] = s[j + 1] /\ r[k] = s[k] /\ j + 1 \in 1 .. Len(s) /\ k \in 1 .. Len(s)
        BY <1>1, <3>3
      <4>2. j + 1 = k
        BY <1>2, <2>1, <4>1
      <4>3. QED
        BY <3>3, <4>2
    <3>4. CASE ~(j < i) /\ ~(k < i)
      <4>1. r[j] = s[j + 1] /\ r[k] = s[k + 1] /\ j + 1 \in 1 .. Len(s) /\ k + 1 \in 1 .. Len(s)
        BY <1>1, <3>4
      <4>2. j + 1 = k + 1
        BY <1>2, <2>1, <4>1
      <4>3. QED
        BY <1>1, <4>2
    <3>5. QED
      BY <3>1, <3>2, <3>3, <3>4
  <2>2. QED
    BY <1>1, <2>1 DEF IsInjective
<1>4. ASSUME NEW e, Contains(r, e)
      PROVE  Contains(s, e) /\ e # s[i]
  <2>1. PICK j \in 1 .. Len(r) : r[j] = e
    BY <1>4 DEF Contains
  <2>2. CASE j < i
    BY <1>1, <1>2, <2>1, <2>2 DEF Contains
  <2>3. CASE ~(j < i)
    BY <1>1, <1>2, <2>1, <2>3 DEF Contains
  <2>4. QED
    BY <2>2, <2>3
<1>5. ASSUME NEW e, Contains(s, e), e # s[i]
      PROVE  Contains(r, e)
  <2>1. PICK k \in 1 .. Len(s) : s[k] = e
    BY <1>5 DEF Contains
  <2>2. CASE k < i
    BY <1>1, <2>1, <2>2 DEF Contains
  <2>3. CASE i < k
    <3>1. k - 1 \in 1 .. Len(s) - 1 /\ r[k - 1] = s[k]
      BY <1>1, <2>3
    <3>2. QED
      BY <1>1, <2>1, <3>1 DEF Contains
  <2>4. QED
    BY <1>5, <2>1, <2>2, <2>3
<1>6. QED
  BY <1>1, <1>3, <1>4, <1>5 DEF r

(* append to a queue the element is not in. *)
LEMMA AppendQueue ==
    ASSUME NEW S, NEW s \in Seq(S), IsInjective(s), NEW x \in S, ~Contains(s, x)
    PROVE  /\ Append(s, x) \in Seq(S)
           /\ IsInjective(Append(s, x))
           /\ \A e : Contains(Append(s, x), e) <=> Contains(s, e) \/ e = x
<1> DEFINE a == Append(s, x)
<1>1. /\ a \in Seq(S)
      /\ Len(a) = Len(s) + 1
      /\ \A j \in 1 .. Len(s) : a[j] = s[j]
      /\ a[Len(s) + 1] = x
  OBVIOUS
<1> HIDE DEF a
<1>2. IsInjective(a)
  BY <1>1 DEF IsInjective, Contains
<1>3. ASSUME NEW e
      PROVE  Contains(a, e) <=> Contains(s, e) \/ e = x
  BY <1>1 DEF Contains
<1>4. QED
  BY <1>1, <1>2, <1>3 DEF a

(* popleft of a queue without duplicates. *)
LEMMA TailQueue ==
    ASSUME NEW S, NEW s \in Seq(S), IsInjective(s), s # <<>>
    PROVE  /\ Head(s) \in S
           /\ Contains(s, Head(s))
           /\ Tail(s) \in Seq(S)
           /\ IsInjective(Tail(s))
           /\ \A e : Contains(Tail(s), e) <=> Contains(s, e) /\ e # Head(s)
<1> DEFINE r == Tail(s)
<1>1. /\ r \in Seq(S)
      /\ Len(s) \in Nat \ {0}
      /\ Len(r) = Len(s) - 1
      /\ \A j \in 1 .. Len(r) : r[j] = s[j + 1]
      /\ Head(s) = s[1]
      /\ Head(s) \in S
  BY HeadTailProperties, EmptySeq
<1> HIDE DEF r
<1>2. ASSUME NEW j \in 1 .. Len(s), NEW k \in 1 .. Len(s), s[j] = s[k]
      PROVE  j = k
  BY <1>2 DEF IsInjective
<1>3. IsInjective(r)
  <2>1. ASSUME NEW j \in 1 .. Len(r), NEW k \in 1 .. Len(r), r[j] = r[k]
        PROVE  j = k
    <3>1. j + 1 = k + 1
      BY <1>1, <1>2, <2>1
    <3>2. QED
      BY <1>1, <3>1
  <2>2. QED
    BY <1>1, <2>1 DEF IsInjective
<1>4. ASSUME NEW e, Contains(r, e)
      PROVE  Contains(s, e) /\ e # s[1]
  <2>1. PICK j \in 1 .. Len(r) : r[j] = e
    BY <1>4 DEF Contains
  <2>2. QED
    BY <1>1, <1>2, <2>1 DEF Contains
<1>5. ASSUME NEW e, Contains(s, e), e # s[1]
      PROVE  Contains(r, e)
  <2>1. PICK k \in 1 .. Len(s) : s[k] = e
    BY <1>5 DEF Contains
  <2>2. k - 1 \in 1 .. Len(r) /\ r[k - 1] = s[k]
    BY <1>1, <1>5, <2>1
  <2>3. QED
    BY <2>1, <2>2 DEF Contains
<1>6. Contains(s, s[1])
  BY <1>1 DEF Contains
<1>7. QED
  BY <1>1, <1>3, <1>4, <1>5, <1>6 DEF r

(* The empty queue. *)
LEMMA EmptyQueue ==
    ASSUME NEW S
    PROVE  /\ <<>> \in Seq(S)
           /\ IsInjective(<<>>)
           /\ \A e : ~Contains(<<>>, e)
  BY EmptySeq DEF IsInjective, Contains

(* Several poplefts: what is left behind position i. *)
LEMMA SuffixQueue ==
    ASSUME NEW S, NEW s \in Seq(S), IsInjective(s), NEW i \in 1 .. Len(s)
    PROVE  /\ SubSeq(s, i + 1, Len(s)) \in Seq(S)
           /\ IsInjective(SubSeq(s, i + 1, Len(s)))
           /\ \A e : Contains(SubSeq(s, i + 1, Len(s)), e)
                         <=> \E j \in i + 1 .. Len(s) : s[j] = e
<1> DEFINE r == SubSeq(s, i + 1, Len(s))
<1>1. r \in Seq(S) /\ Len(r) = Len(s) - i /\ \A j \in 1 .. Len(s) - i : r[j] = s[i + j]
  OBVIOUS
<1> HIDE DEF r
<1>2. IsInjective(r)
  <2>1. ASSUME NEW j \in 1 .. Len(r), NEW k \in 1 .. Len(r), r[j] = r[k]
        PROVE  j = k
    <3>1. i + j \in 1 .. Len(s) /\ i + k \in 1 .. Len(s) /\ s[i + j] = s[i + k]
      BY <1>1, <2>1
    <3>2. i + j = i + k
      BY <3>1 DEF IsInjective
    <3>3. QED
      BY <1>1, <3>2
  <2>2. QED
    BY <1>1, <2>1 DEF IsInjective
<1>3. ASSUME NEW e, NEW j \in i + 1 .. Len(s), s[j] = e
      PROVE  Contains(r, e)
  <2>1. j - i \in 1 .. Len(r) /\ r[j - i] = s[j]
    BY <1>1
  <2>2. QED
    BY <1>3, <2>1 DEF Contains
<1>4. ASSUME NEW e, Contains(r, e)
      PROVE  \E j \in i + 1 .. Len(s) : s[j] = e
  BY <1>1, <1>4 DEF Contains
<1>5. QED
  BY <1>1, <1>2, <1>3, <1>4 DEF r

(* The order of a queue, and what it is after append, remove and popleft. *)
ComesBefore(s, c, d) == \E i, j \in 1 .. Len(s) : i < j /\ s[i] = c /\ s[j] = d

LEMMA AppendOrder ==
    ASSUME NEW S, NEW s \in Seq(S), NEW e \in S, ~Contains(s, e), NEW c, NEW d
    PROVE  ComesBefore(Append(s, e), c, d) <=> ComesBefore(s, c, d) \/ (Contains(s, c) /\ d = e)
<1> DEFINE r == Append(s, e)
<1>1. Len(r) = Len(s) + 1 /\ r[Len(s) + 1] = e /\ \A j \in 1 .. Len(s) : r[j] = s[j]
  OBVIOUS
<1> HIDE DEF r
<1>2. ASSUME ComesBefore(r, c, d)
      PROVE  ComesBefore(s, c, d) \/ (Contains(s, c) /\ d = e)
  <2>1. PICK i, j \in 1 .. Len(r) : i < j /\ r[i] = c /\ r[j] = d
    BY <1>2 DEF ComesBefore
  <2>2. i \in 1 .. Len(s)
    BY <1>1, <2>1
  <2>3. CASE j \in 1 .. Len(s)
    BY <1>1, <2>1, <2>2, <2>3 DEF ComesBefore
  <2>4. CASE j = Len(s) + 1
    BY <1>1, <2>1, <2>2, <2>4 DEF Contains
  <2>5. QED
    BY <1>1, <2>3, <2>4
<1>3. ASSUME ComesBefore(s, c, d)
      PROVE  ComesBefore(r, c, d)
  <2>1. PICK i, j \in 1 .. Len(s) : i < j /\ s[i] = c /\ s[j] = d
    BY <1>3 DEF ComesBefore
  <2>2. i \in 1 .. Len(r) /\ j \in 1 .. Len(r)
    BY <1>1
  <2>3. QED
    BY <1>1, <2>1, <2>2 DEF ComesBefore
<1>4. ASSUME Contains(s, c), d = e
      PROVE  ComesBefore(r, c, d)
  <2>1. PICK i \in 1 .. Len(s) : s[i] = c
    BY <1>4 DEF Contains
  <2>2. i \in 1 .. Len(r) /\ Len(s) + 1 \in 1 .. Len(r) /\ i < Len(s) + 1
    BY <1>1
  <2>3. QED
    BY <1>1, <1>4, <2>1, <2>2 DEF ComesBefore
<1>5. QED
  BY <1>2, <1>3, <1>4 DEF r

LEMMA RemoveOrder ==
    ASSUME NEW S, NEW s \in Seq(S), NEW i \in 1 .. Len(s), NEW c, NEW d, c # s[i], d # s[i]
    PROVE  ComesBefore(RemoveAt(s, i), c, d) <=> ComesBefore(s, c, d)
<1> DEFINE r == RemoveAt(s, i)
<1>1. /\ Len(r) = Len(s) - 1
      /\ \A j \in 1 .. Len(s) - 1 : r[j] = IF j < i THEN s[j] ELSE s[j + 1]
  BY RemoveAtProperties
<1> HIDE DEF r
<1>2. ASSUME ComesBefore(r, c, d)
      PROVE  ComesBefore(s, c, d)
  <2>1. PICK j, k \in 1 .. Len(r) : j < k /\ r[j] = c /\ r[k] = d
    BY <1>2 DEF ComesBefore
  <2>2. PICK m \in 1 .. Len(s) : s[m] = c /\ m = IF j < i THEN j ELSE j + 1
    BY <1>1, <2>1
  <2>3. PICK n \in 1 .. Len(s) : s[n] = d /\ n = IF k < i THEN k ELSE k + 1
    BY <1>1, <2>1
  <2>4. m < n
    BY <2>1, <2>2, <2>3
  <2>5. QED
    BY <2>2, <2>3, <2>4 DEF ComesBefore
<1>3. ASSUME ComesBefore(s, c, d)
      PROVE  ComesBefore(r, c, d)
  <2>1. PICK m, n \in 1 .. Len(s) : m < n /\ s[m] = c /\ s[n] = d
    BY <1>3 DEF ComesBefore
  <2>2. m # i /\ n # i
    BY <2>1
  <2> DEFINE Place(p) == IF p < i THEN p ELSE p - 1
  <2>3. ASSUME NEW p \in 1 .. Len(s), p # i
        PROVE  Place(p) \in 1 .. Len(r) /\ r[Place(p)] = s[p]
    <3>1. CASE p < i
      BY <1>1, <3>1
    <3>2. CASE i < p
      <4>1. Place(p) = p - 1 /\ p - 1 \in 1 .. Len(s) - 1 /\ ~(p - 1 < i) /\ (p - 1) + 1 = p
        BY <3>2
      <4>2. QED
        BY <1>1, <4>1
    <3>3. QED
      BY <2>3, <3>1, <3>2
  <2>4. Place(m) < Place(n)
    BY <2>1, <2>2
  <2> HIDE DEF Place
  <2>5. QED
    BY <2>1, <2>2, <2>3, <2>4 DEF ComesBefore
<1>4. QED
  BY <1>2, <1>3 DEF r

LEMMA SuffixOrder ==
    ASSUME NEW S, NEW s \in Seq(S), IsInjective(s), NEW i \in 1 .. Len(s), NEW c, NEW d,
           Contains(SubSeq(s, i + 1, Len(s)), c), Contains(SubSeq(s, i + 1, Len(s)), d)
    PROVE  ComesBefore(SubSeq(s, i + 1, Len(s)), c, d) <=> ComesBefore(s, c, d)
<1> DEFINE r == SubSeq(s, i + 1, Len(s))
<1>1. Len(r) = Len(s) - i /\ \A j \in 1 .. Len(s) - i : r[j] = s[i + j]
  OBVIOUS
<1>2. PICK m, n \in 1 .. Len(r) : r[m] = c /\ r[n] = d
  BY DEF Contains
<1>3. \A j, k \in 1 .. Len(s) : s[j] = s[k] => j = k
  BY DEF IsInjective
<1> HIDE DEF r
<1>4. i + m \in 1 .. Len(s) /\ i + n \in 1 .. Len(s) /\ s[i + m] = c /\ s[i + n] = d
  BY <1>1, <1>2
<1>5. ComesBefore(s, c, d) <=> i + m < i + n
  BY <1>3, <1>4 DEF ComesBefore
<1>6. ComesBefore(r, c, d) => m < n
  <2>1. ASSUME NEW j \in 1 .. Len(r), NEW k \in 1 .. Len(r), j < k, r[j] = c, r[k] = d
        PROVE  m < n
    <3>1. i + j \in 1 .. Len(s) /\ i + k \in 1 .. Len(s) /\ s[i + j] = c /\ s[i + k] = d
      BY <1>1, <2>1
    <3>2. i + j = i + m /\ i + k = i + n
      BY <1>3, <1>4, <3>1
    <3>3. QED
      BY <2>1, <3>2
  <2>2. QED
    BY <2>1 DEF ComesBefore
<1>7. m < n => ComesBefore(r, c, d)
  BY <1>2 DEF ComesBefore
<1>8. QED
  BY <1>5, <1>6, <1>7 DEF r
=============================================================================
