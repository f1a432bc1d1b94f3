-------------------------- MODULE FramePool_proofs --------------------------
(***************************************************************************)
(* Theorems about the physical frame allocator, for every memory map, set  *)
(* of reserved frames and size of the table: the table stays sorted, with  *)
(* a counter that agrees with it, and implements a set of frames.          *)
(***************************************************************************)
EXTENDS FramePool, FiniteSetTheorems, SequenceTheorems, TLAPS

-----------------------------------------------------------------------------
(* Least and greatest elements; induction and recursion up to a number.    *)

(* Every set of naturals that is not empty has a least element.  The       *)
(* intervals below its elements are ordered by strict inclusion, which is  *)
(* well-founded, as the elements are by <.                                 *)
LEMMA LeastNatural ==
  ASSUME NEW S, S \subseteq Nat, S # {}
  PROVE  \E x \in S : \A y \in S : x <= y
<1> DEFINE Below == {0 .. x : x \in S}
<1>1. Below # {}
  OBVIOUS
<1>2. Below \subseteq FiniteSubsetsOf(Nat)
  <2>1. \A x \in S : IsFiniteSet(0 .. x)
    BY FS_Interval
  <2>2. \A x \in S : 0 .. x \in SUBSET Nat
    OBVIOUS
  <2> QED BY <2>1, <2>2 DEF FiniteSubsetsOf
<1>3. PICK B \in Below : \A C \in Below : <<C, B>> \notin StrictSubsetOrdering(Nat)
  <2> HIDE DEF Below
  <2> QED BY <1>1, <1>2, FS_StrictSubsetOrderingWellFounded, WFMin
<1>4. PICK x \in S : B = 0 .. x
  OBVIOUS
<1>5. ASSUME NEW y \in S, y < x PROVE FALSE
  <2>1. 0 .. y \in Below
    OBVIOUS
  <2>2. 0 .. y \subseteq 0 .. x
    BY <1>5
  <2>3. x \in 0 .. x /\ x \notin 0 .. y
    BY <1>5
  <2>4. 0 .. y \in SUBSET Nat /\ 0 .. x \in SUBSET Nat
    OBVIOUS
  <2>5. <<0 .. y, 0 .. x>> \in StrictSubsetOrdering(Nat)
    BY <2>2, <2>3, <2>4 DEF StrictSubsetOrdering
  <2> QED BY <2>1, <2>5, <1>3, <1>4
<1> QED BY <1>5

(* So is there a greatest element when the set has a bound.                *)
LEMMA GreatestNatural ==
  ASSUME NEW n \in Nat, NEW S, S \subseteq 0 .. n, S # {}
  PROVE  \E x \in S : \A y \in S : y <= x
<1> DEFINE D == {n - x : x \in S}
<1>1. D \subseteq Nat /\ D # {}
  OBVIOUS
<1>2. PICK d \in D : \A e \in D : d <= e
  <2> HIDE DEF D
  <2> QED BY <1>1, LeastNatural
<1>3. PICK x \in S : d = n - x
  OBVIOUS
<1>4. ASSUME NEW y \in S PROVE y <= x
  <2>1. n - y \in D
    OBVIOUS
  <2>2. n - x <= n - y
    BY <1>2, <1>3, <2>1
  <2> QED BY <2>2
<1> QED BY <1>4

-----------------------------------------------------------------------------
(* Induction and recursion up to n.                                        *)
StaysIn(f, n, S) == f[0] \in S /\ \A k \in 1 .. n : f[k - 1] \in S => f[k] \in S

LEMMA InductionTo ==
  ASSUME NEW n \in Nat, NEW S, NEW f, StaysIn(f, n, S)
  PROVE  \A k \in 0 .. n : f[k] \in S
<1> DEFINE Bad == {k \in 0 .. n : f[k] \notin S}
<1> SUFFICES ASSUME Bad # {} PROVE FALSE
  OBVIOUS
<1>1. PICK k \in Bad : \A j \in Bad : k <= j
  <2> HIDE DEF Bad
  <2>1. Bad \subseteq Nat
    BY DEF Bad
  <2> QED BY <2>1, LeastNatural
<1>2. k \in 1 .. n
  BY <1>1 DEF StaysIn
<1>3. k - 1 \in 0 .. n /\ k - 1 \notin Bad
  BY <1>1, <1>2
<1>4. f[k - 1] \in S
  BY <1>3
<1> QED BY <1>1, <1>2, <1>4 DEF StaysIn

Follows(f, n, a, step) == f[0] = a /\ \A k \in 1 .. n : f[k] = step[k][f[k - 1]]

LEMMA RecursionTo ==
  ASSUME NEW n \in Nat, NEW S, NEW a \in S, NEW step \in [1 .. n -> [S -> S]]
  PROVE  \E f \in [0 .. n -> S] : Follows(f, n, a, step)
<1> DEFINE Is(f, m) == f \in [0 .. m -> S] /\ f[0] = a
                       /\ \A k \in 1 .. m : f[k] = step[k][f[k - 1]]
           Bad == {m \in 0 .. n : ~ \E f : Is(f, m)}
<1> SUFFICES \E f : Is(f, n)
  BY DEF Follows
<1> SUFFICES ASSUME Bad # {} PROVE FALSE
  <2> HIDE DEF Is
  <2> QED OBVIOUS
<1>1. PICK m \in Bad : \A j \in Bad : m <= j
  <2> HIDE DEF Bad
  <2>1. Bad \subseteq Nat
    BY DEF Bad
  <2> QED BY <2>1, LeastNatural
<1>2. m # 0
  <2>1. Is([k \in 0 .. 0 |-> a], 0)
    OBVIOUS
  <2> HIDE DEF Is
  <2> QED BY <2>1
<1>3. m \in 1 .. n /\ m - 1 \in 0 .. n /\ m - 1 \notin Bad
  <2> HIDE DEF Is
  <2> QED BY <1>1, <1>2
<1>4. PICK g : Is(g, m - 1)
  <2> HIDE DEF Is
  <2> QED BY <1>3
<1> DEFINE f == [k \in 0 .. m |-> IF k < m THEN g[k] ELSE step[m][g[m - 1]]]
<1>5. Is(f, m)
  <2>1. g[m - 1] \in S /\ step[m][g[m - 1]] \in S
    BY <1>3, <1>4
  <2>2. \A k \in 0 .. m - 1 : f[k] = g[k]
    BY <1>3
  <2>3. f[m] = step[m][g[m - 1]]
    BY <1>3
  <2>4. f \in [0 .. m -> S]
    BY <1>3, <1>4, <2>1
  <2>5. 0 \in 0 .. m - 1 /\ m - 1 \in 0 .. m - 1
    BY <1>3
  <2>6. ASSUME NEW k \in 1 .. m PROVE f[k] = step[k][f[k - 1]]
    <3> HIDE DEF f
    <3>1. CASE k = m
      BY <2>2, <2>3, <2>5, <3>1
    <3>2. CASE k # m
      <4>1. k \in 1 .. m - 1 /\ k \in 0 .. m - 1 /\ k - 1 \in 0 .. m - 1
        BY <1>3, <3>2
      <4>2. f[k] = g[k] /\ f[k - 1] = g[k - 1] /\ g[k] = step[k][g[k - 1]]
        BY <1>4, <2>2, <4>1
      <4> QED BY <4>2
    <3> QED BY <3>1, <3>2
  <2> HIDE DEF f
  <2> QED BY <1>4, <2>2, <2>4, <2>5, <2>6
<1> HIDE DEF f, Is
<1> QED BY <1>1, <1>5

(* A set of consecutive numbers from a + 1 on is known by its size.        *)
LEMMA Consecutive ==
  ASSUME NEW a \in Nat, NEW b \in Nat, a <= b, NEW D, D \subseteq a + 1 .. b,
         \A i \in D : a + 1 .. i \subseteq D
  PROVE  /\ Cardinality(D) \in Nat /\ a + Cardinality(D) <= b
         /\ D = a + 1 .. a + Cardinality(D)
<1>1. CASE D = {}
  <2>1. Cardinality(D) = 0
    BY <1>1, FS_EmptySet
  <2> QED BY <1>1, <2>1
<1>2. CASE D # {}
  <2>1. D \subseteq 0 .. b
    OBVIOUS
  <2>2. PICK m \in D : \A y \in D : y <= m
    BY <1>2, <2>1, GreatestNatural
  <2>3. m \in a + 1 .. b /\ D = a + 1 .. m
    <3>1. m \in a + 1 .. b /\ a + 1 .. m \subseteq D
      BY <2>2
    <3>2. \A y \in D : y \in a + 1 .. m
      BY <2>2, <3>1
    <3> QED BY <3>1, <3>2
  <2>4. Cardinality(D) = m - a
    <3>1. a + 1 \in Int /\ m \in Int /\ ~ (a + 1 > m)
      BY <2>3
    <3>2. Cardinality(a + 1 .. m) = m - (a + 1) + 1
      BY <3>1, FS_Interval
    <3>3. m - (a + 1) + 1 = m - a
      BY <3>1
    <3> QED BY <2>3, <3>2, <3>3
  <2> QED BY <2>3, <2>4
<1> QED BY <1>1, <1>2

SegmentType == [start : Nat, end : Nat]

(* The first half of TableCanonical, with the type.                        *)
Sorted(segs) ==
  /\ segs \in Seq(SegmentType)
  /\ \A i \in DOMAIN segs : segs[i].start < segs[i].end
  /\ \A i, j \in DOMAIN segs : i < j => segs[i].end < segs[j].start

LEMMA SegmentFields ==
  ASSUME NEW s \in Nat, NEW e \in Nat
  PROVE  /\ Segment(s, e) \in SegmentType /\ Segment(s, e).start = s /\ Segment(s, e).end = e
BY DEF Segment, SegmentType

LEMMA FreeSetMembers ==
  ASSUME NEW segs \in Seq(SegmentType), NEW x
  PROVE  x \in FreeSet(segs) <=> \E i \in 1 .. Len(segs) : x \in FramesOf(segs[i])
<1>1. DOMAIN segs = 1 .. Len(segs)
  BY LenProperties
<1> QED BY <1>1 DEF FreeSet

-----------------------------------------------------------------------------
(* What replacing or dropping a part of a table does, index by index.      *)
Splice(segs, a, x, b) == SubSeq(segs, 1, a) \o <<x>> \o SubSeq(segs, b, Len(segs))
Cut(segs, a, b) == SubSeq(segs, 1, a) \o SubSeq(segs, b, Len(segs))

LEMMA Halves ==
  ASSUME NEW segs \in Seq(SegmentType),
         NEW a \in 0 .. Len(segs), NEW b \in a + 1 .. Len(segs) + 1
  PROVE  /\ SubSeq(segs, 1, a) \in Seq(SegmentType) /\ Len(SubSeq(segs, 1, a)) = a
         /\ \A i \in 1 .. a : SubSeq(segs, 1, a)[i] = segs[i]
         /\ SubSeq(segs, b, Len(segs)) \in Seq(SegmentType)
         /\ Len(SubSeq(segs, b, Len(segs))) = Len(segs) - b + 1
         /\ \A i \in 1 .. Len(segs) - b + 1 : SubSeq(segs, b, Len(segs))[i] = segs[b + i - 1]
<1>1. Len(segs) \in Nat /\ \A i \in 1 .. Len(segs) : segs[i] \in SegmentType
  BY LenProperties, ElementOfSeq
<1>2. \A i \in 1 .. a : segs[i] \in SegmentType
  BY <1>1
<1>3. \A i \in b .. Len(segs) : segs[i] \in SegmentType
  BY <1>1
<1>4. a \in Int /\ b \in Int /\ 1 \in Int /\ Len(segs) \in Int
  BY <1>1
<1>5. /\ SubSeq(segs, 1, a) \in Seq(SegmentType)
      /\ Len(SubSeq(segs, 1, a)) = IF 1 <= a THEN a - 1 + 1 ELSE 0
      /\ \A i \in 1 .. a - 1 + 1 : SubSeq(segs, 1, a)[i] = segs[1 + i - 1]
  BY <1>2, <1>4, SubSeqProperties
<1>6. /\ SubSeq(segs, b, Len(segs)) \in Seq(SegmentType)
      /\ Len(SubSeq(segs, b, Len(segs))) = IF b <= Len(segs) THEN Len(segs) - b + 1 ELSE 0
      /\ \A i \in 1 .. Len(segs) - b + 1 : SubSeq(segs, b, Len(segs))[i] = segs[b + i - 1]
  BY <1>3, <1>4, SubSeqProperties
<1> QED BY <1>1, <1>4, <1>5, <1>6

LEMMA SpliceIndex ==
  ASSUME NEW segs \in Seq(SegmentType), NEW a \in 0 .. Len(segs),
         NEW b \in a + 1 .. Len(segs) + 1, NEW x \in SegmentType
  PROVE  LET r == Splice(segs, a, x, b)
         IN  /\ r \in Seq(SegmentType) /\ Len(r) = Len(segs) - b + a + 2
             /\ \A i \in 1 .. Len(r) : r[i] = IF i <= a THEN segs[i]
                                              ELSE IF i = a + 1 THEN x
                                              ELSE segs[i - a - 2 + b]
<1> DEFINE front == SubSeq(segs, 1, a)
           back == SubSeq(segs, b, Len(segs))
<1>1. Len(segs) \in Nat
  BY LenProperties
<1>2. /\ front \in Seq(SegmentType) /\ Len(front) = a
      /\ \A i \in 1 .. a : front[i] = segs[i]
      /\ back \in Seq(SegmentType) /\ Len(back) = Len(segs) - b + 1
      /\ \A i \in 1 .. Len(segs) - b + 1 : back[i] = segs[b + i - 1]
  BY Halves
<1>3. <<x>> \in Seq(SegmentType) /\ Len(<<x>>) = 1 /\ <<x>>[1] = x
  OBVIOUS
<1> HIDE DEF front, back
<1>4. /\ front \o <<x>> \in Seq(SegmentType) /\ Len(front \o <<x>>) = a + 1
      /\ \A i \in 1 .. a + 1 : (front \o <<x>>)[i] = IF i <= a THEN segs[i] ELSE x
  <2>1. /\ front \o <<x>> \in Seq(SegmentType) /\ Len(front \o <<x>>) = a + 1
        /\ \A i \in 1 .. a + 1 : (front \o <<x>>)[i] = IF i <= a THEN front[i] ELSE <<x>>[i - a]
    BY <1>2, <1>3, ConcatProperties
  <2>2. \A i \in 1 .. a + 1 : i <= a => i \in 1 .. a
    OBVIOUS
  <2>3. \A i \in 1 .. a + 1 : ~ (i <= a) => i - a = 1
    OBVIOUS
  <2> QED BY <1>2, <1>3, <2>1, <2>2, <2>3
<1>5. /\ (front \o <<x>>) \o back \in Seq(SegmentType)
      /\ Len((front \o <<x>>) \o back) = (a + 1) + (Len(segs) - b + 1)
      /\ \A i \in 1 .. (a + 1) + (Len(segs) - b + 1) :
           ((front \o <<x>>) \o back)[i] =
             IF i <= a + 1 THEN (front \o <<x>>)[i] ELSE back[i - (a + 1)]
  <2> DEFINE left == front \o <<x>>
  <2>1. left \in Seq(SegmentType) /\ Len(left) = a + 1
    BY <1>4
  <2> HIDE DEF left
  <2>2. /\ left \o back \in Seq(SegmentType)
        /\ Len(left \o back) = Len(left) + Len(back)
        /\ \A i \in 1 .. Len(left) + Len(back) :
             (left \o back)[i] = IF i <= Len(left) THEN left[i] ELSE back[i - Len(left)]
    BY <1>2, <2>1, ConcatProperties
  <2>3. Len(left) = a + 1 /\ Len(back) = Len(segs) - b + 1
    BY <1>2, <2>1
  <2> QED BY <2>2, <2>3 DEF left
<1>6. Splice(segs, a, x, b) = (front \o <<x>>) \o back
  BY DEF Splice, front, back
<1>7. ASSUME NEW i \in 1 .. (a + 1) + (Len(segs) - b + 1)
      PROVE  Splice(segs, a, x, b)[i] = IF i <= a THEN segs[i]
                                        ELSE IF i = a + 1 THEN x
                                        ELSE segs[i - a - 2 + b]
  <2>1. CASE i <= a + 1
    <3>1. i \in 1 .. a + 1
      BY <2>1
    <3> QED BY <1>4, <1>5, <1>6, <2>1, <3>1
  <2>2. CASE ~ (i <= a + 1)
    <3>1. i - (a + 1) \in 1 .. Len(segs) - b + 1 /\ b + (i - (a + 1)) - 1 = i - a - 2 + b
      BY <1>1, <2>2
    <3>2. ~ (i <= a) /\ i # a + 1
      BY <2>2
    <3>3. Splice(segs, a, x, b)[i] = back[i - (a + 1)]
      BY <1>5, <1>6, <2>2
    <3>4. back[i - (a + 1)] = segs[i - a - 2 + b]
      BY <1>2, <3>1
    <3> QED BY <3>2, <3>3, <3>4
  <2> QED BY <2>1, <2>2
<1>8. (a + 1) + (Len(segs) - b + 1) = Len(segs) - b + a + 2
  BY <1>1
<1> QED BY <1>5, <1>6, <1>7, <1>8

LEMMA CutIndex ==
  ASSUME NEW segs \in Seq(SegmentType), NEW a \in 0 .. Len(segs),
         NEW b \in a + 1 .. Len(segs) + 1
  PROVE  LET r == Cut(segs, a, b)
         IN  /\ r \in Seq(SegmentType) /\ Len(r) = Len(segs) - b + a + 1
             /\ \A i \in 1 .. Len(r) : r[i] = IF i <= a THEN segs[i] ELSE segs[i - a - 1 + b]
<1> DEFINE front == SubSeq(segs, 1, a)
           back == SubSeq(segs, b, Len(segs))
<1>1. Len(segs) \in Nat
  BY LenProperties
<1>2. /\ front \in Seq(SegmentType) /\ Len(front) = a
      /\ \A i \in 1 .. a : front[i] = segs[i]
      /\ back \in Seq(SegmentType) /\ Len(back) = Len(segs) - b + 1
      /\ \A i \in 1 .. Len(segs) - b + 1 : back[i] = segs[b + i - 1]
  BY Halves
<1> HIDE DEF front, back
<1>3. /\ front \o back \in Seq(SegmentType)
      /\ Len(front \o back) = a + (Len(segs) - b + 1)
      /\ \A i \in 1 .. a + (Len(segs) - b + 1) :
           (front \o back)[i] = IF i <= a THEN front[i] ELSE back[i - a]
  <2>1. /\ front \o back \in Seq(SegmentType)
        /\ Len(front \o back) = Len(front) + Len(back)
        /\ \A i \in 1 .. Len(front) + Len(back) :
             (front \o back)[i] = IF i <= Len(front) THEN front[i] ELSE back[i - Len(front)]
    BY <1>2, ConcatProperties
  <2>2. Len(front) = a /\ Len(back) = Len(segs) - b + 1
    BY <1>2
  <2> QED BY <2>1, <2>2
<1>4. Cut(segs, a, b) = front \o back
  BY DEF Cut, front, back
<1>5. ASSUME NEW i \in 1 .. a + (Len(segs) - b + 1)
      PROVE  Cut(segs, a, b)[i] = IF i <= a THEN segs[i] ELSE segs[i - a - 1 + b]
  <2>1. CASE i <= a
    <3>1. i \in 1 .. a
      BY <2>1
    <3> QED BY <1>2, <1>3, <1>4, <2>1, <3>1
  <2>2. CASE ~ (i <= a)
    <3>1. i - a \in 1 .. Len(segs) - b + 1 /\ b + (i - a) - 1 = i - a - 1 + b
      BY <1>1, <2>2
    <3>2. Cut(segs, a, b)[i] = back[i - a]
      BY <1>3, <1>4, <2>2
    <3>3. back[i - a] = segs[i - a - 1 + b]
      BY <1>2, <3>1
    <3> QED BY <2>2, <3>2, <3>3
  <2> QED BY <2>1, <2>2
<1>6. a + (Len(segs) - b + 1) = Len(segs) - b + a + 1
  BY <1>1
<1> QED BY <1>3, <1>4, <1>5, <1>6

-----------------------------------------------------------------------------
(* insert_free_segment.  Loose(g, m): only the segment at m may reach the  *)
(* ones after it; Reach(g, m, c, h): it reaches c of them, and h is the    *)
(* last end.                                                               *)
Loose(g, m) ==
  /\ g \in Seq(SegmentType) /\ m \in 1 .. Len(g)
  /\ \A i \in 1 .. Len(g) : g[i].start < g[i].end
  /\ \A i, j \in 1 .. Len(g) : i < j /\ i # m => g[i].end < g[j].start
  /\ \A j \in m + 1 .. Len(g) : g[m].start <= g[j].start

Reach(g, m, c, h) ==
  /\ c \in 0 .. Len(g) - m /\ h \in Nat
  /\ \A j \in m + 1 .. m + c : g[j].start <= g[m].end
  /\ \A j \in m + c + 1 .. Len(g) : g[m].end < g[j].start
  /\ \A j \in m .. m + c : g[j].end <= h
  /\ \E j \in m .. m + c : g[j].end = h

Absorbed(g, m, c, h) == Splice(g, m - 1, Segment(g[m].start, h), m + 1 + c)

LEMMA Fields ==
  ASSUME NEW segs \in Seq(SegmentType), NEW i \in 1 .. Len(segs)
  PROVE  /\ Len(segs) \in Nat /\ segs[i] \in SegmentType
         /\ segs[i].start \in Nat /\ segs[i].end \in Nat
<1>1. Len(segs) \in Nat /\ segs[i] \in SegmentType
  BY LenProperties, ElementOfSeq
<1> QED BY <1>1 DEF SegmentType

LEMMA FramesMembers ==
  ASSUME NEW seg \in SegmentType, NEW x
  PROVE  x \in FramesOf(seg) <=> x \in Nat /\ seg.start <= x /\ x < seg.end
<1>1. seg.start \in Nat /\ seg.end \in Nat
  BY DEF SegmentType
<1> QED BY <1>1 DEF FramesOf

LEMMA AbsorbIndex ==
  ASSUME NEW g, NEW m, NEW c, NEW h, Loose(g, m), Reach(g, m, c, h)
  PROVE  LET r == Absorbed(g, m, c, h)
         IN  /\ r \in Seq(SegmentType) /\ Len(r) = Len(g) - c
             /\ \A i \in 1 .. Len(g) - c : i < m => r[i] = g[i]
             /\ r[m].start = g[m].start /\ r[m].end = h
             /\ \A i \in m + 1 .. Len(g) - c : r[i] = g[i + c]
<1>1. /\ g \in Seq(SegmentType) /\ m \in 1 .. Len(g) /\ Len(g) \in Nat
      /\ c \in 0 .. Len(g) - m /\ h \in Nat /\ g[m].start \in Nat
  BY Fields DEF Loose, Reach
<1> DEFINE x == Segment(g[m].start, h)
<1>2. x \in SegmentType /\ x.start = g[m].start /\ x.end = h
  BY <1>1, SegmentFields
<1> HIDE DEF x
<1>3. m - 1 \in 0 .. Len(g) /\ m + 1 + c \in (m - 1) + 1 .. Len(g) + 1
  BY <1>1
<1> DEFINE r == Splice(g, m - 1, x, m + 1 + c)
<1>4. /\ r \in Seq(SegmentType) /\ Len(r) = Len(g) - (m + 1 + c) + (m - 1) + 2
      /\ \A i \in 1 .. Len(r) : r[i] = IF i <= m - 1 THEN g[i]
                                       ELSE IF i = (m - 1) + 1 THEN x
                                       ELSE g[i - (m - 1) - 2 + (m + 1 + c)]
  <2>1. PICK a, b : a = m - 1 /\ b = m + 1 + c
    OBVIOUS
  <2>2. a \in 0 .. Len(g) /\ b \in a + 1 .. Len(g) + 1
    BY <1>3, <2>1
  <2>3. /\ Splice(g, a, x, b) \in Seq(SegmentType)
        /\ Len(Splice(g, a, x, b)) = Len(g) - b + a + 2
        /\ \A i \in 1 .. Len(Splice(g, a, x, b)) :
             Splice(g, a, x, b)[i] = IF i <= a THEN g[i]
                                     ELSE IF i = a + 1 THEN x
                                     ELSE g[i - a - 2 + b]
    BY <1>1, <1>2, <2>2, SpliceIndex
  <2> QED BY <2>1, <2>3
<1> HIDE DEF r
<1>5. Len(r) = Len(g) - c
  BY <1>1, <1>4
<1>6. ASSUME NEW i \in 1 .. Len(g) - c, i < m PROVE r[i] = g[i]
  BY <1>1, <1>4, <1>5, <1>6
<1>7. r[m] = x
  BY <1>1, <1>4, <1>5
<1>8. ASSUME NEW i \in m + 1 .. Len(g) - c PROVE r[i] = g[i + c]
  <2>1. i \in 1 .. Len(r) /\ ~ (i <= m - 1) /\ i # (m - 1) + 1
    BY <1>1, <1>5
  <2>2. i - (m - 1) - 2 + (m + 1 + c) = i + c
    BY <1>1
  <2> QED BY <1>4, <2>1, <2>2
<1>9. r = Absorbed(g, m, c, h)
  BY DEF r, x, Absorbed
<1> QED BY <1>2, <1>4, <1>5, <1>6, <1>7, <1>8, <1>9

LEMMA AbsorbSorted ==
  ASSUME NEW g, NEW m, NEW c, NEW h, Loose(g, m), Reach(g, m, c, h)
  PROVE  Sorted(Absorbed(g, m, c, h))
<1>1. PICK r : r = Absorbed(g, m, c, h)
  OBVIOUS
<1>2. /\ r \in Seq(SegmentType) /\ Len(r) = Len(g) - c
      /\ \A i \in 1 .. Len(g) - c : i < m => r[i] = g[i]
      /\ r[m].start = g[m].start /\ r[m].end = h
      /\ \A i \in m + 1 .. Len(g) - c : r[i] = g[i + c]
  BY <1>1, AbsorbIndex
<1>3. /\ g \in Seq(SegmentType) /\ m \in 1 .. Len(g) /\ Len(g) \in Nat
      /\ c \in 0 .. Len(g) - m /\ h \in Nat
      /\ \A i \in 1 .. Len(g) : g[i].start \in Nat /\ g[i].end \in Nat /\ g[i].start < g[i].end
      /\ \A i, j \in 1 .. Len(g) : i < j /\ i # m => g[i].end < g[j].start
  BY Fields DEF Loose, Reach
<1>4. ASSUME NEW i \in 1 .. Len(g) - c PROVE r[i].start < r[i].end
  <2>1. CASE i < m
    BY <1>2, <1>3, <2>1
  <2>2. CASE i = m
    <3>1. g[m].end <= h
      BY <1>3 DEF Reach
    <3> QED BY <1>2, <1>3, <2>2, <3>1
  <2>3. CASE i > m
    <3>1. i \in m + 1 .. Len(g) - c /\ i + c \in 1 .. Len(g)
      BY <1>3, <2>3
    <3> QED BY <1>2, <1>3, <3>1
  <2> QED BY <1>3, <2>1, <2>2, <2>3
<1>5. ASSUME NEW i \in 1 .. Len(g) - c, NEW j \in 1 .. Len(g) - c, i < j
      PROVE  r[i].end < r[j].start
  <2>1. \/ j < m /\ r[j].start = g[j].start
        \/ j = m /\ r[j].start = g[j].start
        \/ /\ j > m /\ r[j].start = g[j + c].start
           /\ j + c \in m + c + 1 .. Len(g) /\ j + c \in 1 .. Len(g) /\ j + c > m
    BY <1>2, <1>3
  <2>2. CASE i < m
    <3>1. r[i].end = g[i].end /\ i \in 1 .. Len(g) /\ i # m
      BY <1>2, <1>3, <2>2
    <3>2. j \in 1 .. Len(g) /\ i < j + c
      BY <1>3, <1>5
    <3> QED BY <1>3, <1>5, <2>1, <2>2, <3>1, <3>2
  <2>3. CASE i = m
    <3>1. j > m /\ r[j].start = g[j + c].start /\ j + c \in m + c + 1 .. Len(g)
      BY <1>3, <1>5, <2>1, <2>3
    <3>2. PICK k \in m .. m + c : g[k].end = h
      BY DEF Reach
    <3>3. CASE k = m
      <4>1. g[m].end < g[j + c].start
        BY <3>1 DEF Reach
      <4> QED BY <1>2, <2>3, <3>1, <3>2, <3>3, <4>1
    <3>4. CASE k # m
      <4>1. k < j + c /\ k \in 1 .. Len(g) /\ j + c \in 1 .. Len(g)
        BY <1>3, <3>1
      <4> QED BY <1>2, <1>3, <2>3, <3>1, <3>2, <3>4, <4>1
    <3> QED BY <3>3, <3>4
  <2>4. CASE i > m
    <3>1. r[i].end = g[i + c].end /\ i + c \in 1 .. Len(g) /\ i + c # m
      BY <1>2, <1>3, <2>4
    <3>2. j > m /\ r[j].start = g[j + c].start /\ j + c \in 1 .. Len(g) /\ i + c < j + c
      BY <1>3, <1>5, <2>1, <2>4
    <3> QED BY <1>3, <3>1, <3>2
  <2> QED BY <1>3, <2>2, <2>3, <2>4
<1>6. DOMAIN r = 1 .. Len(g) - c
  BY <1>2, LenProperties
<1> QED BY <1>1, <1>2, <1>4, <1>5, <1>6 DEF Sorted

LEMMA AbsorbFrames ==
  ASSUME NEW g, NEW m, NEW c, NEW h, Loose(g, m), Reach(g, m, c, h)
  PROVE  FreeSet(Absorbed(g, m, c, h)) = FreeSet(g)
<1>1. PICK r : r = Absorbed(g, m, c, h)
  OBVIOUS
<1>2. /\ r \in Seq(SegmentType) /\ Len(r) = Len(g) - c
      /\ \A i \in 1 .. Len(g) - c : i < m => r[i] = g[i]
      /\ r[m].start = g[m].start /\ r[m].end = h
      /\ \A i \in m + 1 .. Len(g) - c : r[i] = g[i + c]
  BY <1>1, AbsorbIndex
<1>3. /\ g \in Seq(SegmentType) /\ m \in 1 .. Len(g) /\ Len(g) \in Nat
      /\ c \in 0 .. Len(g) - m /\ h \in Nat
      /\ \A i \in 1 .. Len(g) : g[i] \in SegmentType /\ g[i].start \in Nat /\ g[i].end \in Nat
      /\ \A j \in m + 1 .. Len(g) : g[m].start <= g[j].start
  BY Fields DEF Loose, Reach
<1>4. m \in 1 .. Len(r) /\ r[m] \in SegmentType
  BY <1>2, <1>3, Fields
<1>5. ASSUME NEW i \in 1 .. Len(r), NEW x \in FramesOf(r[i])
      PROVE  \E k \in 1 .. Len(g) : x \in FramesOf(g[k])
  <2>1. CASE i < m
    <3>1. r[i] = g[i] /\ i \in 1 .. Len(g)
      BY <1>2, <1>3, <2>1
    <3> QED BY <3>1
  <2>2. CASE i = m
    <3>1. x \in Nat /\ g[m].start <= x /\ x < h
      BY <1>2, <1>4, <2>2, FramesMembers
    <3>2. CASE x < g[m].end
      BY <1>3, <3>1, <3>2, FramesMembers
    <3>3. CASE ~ (x < g[m].end)
      <4>1. PICK k \in m .. m + c : g[k].end = h
        BY DEF Reach
      <4>2. k # m
        BY <1>3, <3>1, <3>3, <4>1
      <4>3. k \in m + 1 .. m + c /\ k \in 1 .. Len(g)
        BY <1>3, <4>2
      <4>4. g[k].start <= g[m].end
        BY <4>3 DEF Reach
      <4>5. g[k].start <= x
        BY <1>3, <3>1, <3>3, <4>3, <4>4
      <4> QED BY <1>3, <3>1, <4>1, <4>3, <4>5, FramesMembers
    <3> QED BY <3>2, <3>3
  <2>3. CASE i > m
    <3>1. r[i] = g[i + c] /\ i + c \in 1 .. Len(g)
      BY <1>2, <1>3, <2>3
    <3> QED BY <3>1
  <2> QED BY <1>3, <2>1, <2>2, <2>3
<1>6. ASSUME NEW k \in 1 .. Len(g), NEW x \in FramesOf(g[k])
      PROVE  \E i \in 1 .. Len(r) : x \in FramesOf(r[i])
  <2>1. CASE k < m
    <3>1. r[k] = g[k] /\ k \in 1 .. Len(r)
      BY <1>2, <1>3, <2>1
    <3> QED BY <3>1
  <2>2. CASE k \in m .. m + c
    <3>1. g[k].end <= h
      BY <2>2 DEF Reach
    <3>2. g[m].start <= g[k].start
      <4>1. CASE k = m
        BY <1>3, <4>1
      <4>2. CASE k # m
        <5>1. k \in m + 1 .. Len(g)
          BY <1>3, <2>2, <4>2
        <5> QED BY <1>3, <5>1
      <4> QED BY <4>1, <4>2
    <3>3. x \in Nat /\ g[k].start <= x /\ x < g[k].end
      BY <1>3, FramesMembers
    <3>4. g[m].start <= x /\ x < h
      BY <1>3, <3>1, <3>2, <3>3
    <3> QED BY <1>2, <1>4, <3>3, <3>4, FramesMembers
  <2>3. CASE k > m + c
    <3>1. k - c \in m + 1 .. Len(g) - c /\ (k - c) + c = k /\ k - c \in 1 .. Len(r)
      BY <1>2, <1>3, <2>3
    <3>2. r[k - c] = g[k]
      BY <1>2, <3>1
    <3> QED BY <3>1, <3>2
  <2> QED BY <1>3, <2>1, <2>2, <2>3
<1>7. \A x : x \in FreeSet(r) <=> x \in FreeSet(g)
  BY <1>2, <1>3, <1>5, <1>6, FreeSetMembers
<1> QED BY <1>1, <1>7

LEMMA GreatestIsMax ==
  ASSUME NEW S, S \subseteq Nat, NEW h \in S, \A y \in S : y <= h
  PROVE  Max(S) = h
<1>1. \A y \in S : h >= y
  OBVIOUS
<1>2. ASSUME NEW x \in S, \A y \in S : x >= y PROVE x = h
  <2>1. x >= h /\ h >= x /\ x \in Nat /\ h \in Nat
    BY <1>1, <1>2
  <2> QED BY <2>1
<1> QED BY <1>1, <1>2 DEF Max

Reached(g, m) == {j \in m + 1 .. Len(g) : g[j].start <= g[m].end}
Ends(g, m) == {g[j].end : j \in Reached(g, m) \cup {m}}

(* The segments the merged one reaches follow each other, and the last end *)
(* is that of the segment itself or of the last of them.                   *)
LEMMA ReachedAre ==
  ASSUME NEW g, NEW m, Loose(g, m)
  PROVE  Reach(g, m, Cardinality(Reached(g, m)), Max(Ends(g, m)))
<1>1. /\ g \in Seq(SegmentType) /\ m \in 1 .. Len(g) /\ Len(g) \in Nat
      /\ \A i \in 1 .. Len(g) : g[i].start \in Nat /\ g[i].end \in Nat /\ g[i].start < g[i].end
      /\ \A i, j \in 1 .. Len(g) : i < j /\ i # m => g[i].end < g[j].start
  BY Fields DEF Loose
<1>2. Reached(g, m) \subseteq m + 1 .. Len(g) /\ m \in Nat /\ m <= Len(g)
  BY <1>1 DEF Reached
<1>3. ASSUME NEW i \in Reached(g, m), NEW j \in m + 1 .. i PROVE j \in Reached(g, m)
  <2>1. i \in m + 1 .. Len(g) /\ g[i].start <= g[m].end
    BY DEF Reached
  <2>2. CASE j = i
    BY <2>2
  <2>3. CASE j # i
    <3>1. i \in 1 .. Len(g) /\ j \in 1 .. Len(g) /\ j \in m + 1 .. Len(g) /\ j < i /\ j # m
      BY <1>1, <2>1, <2>3
    <3>2. g[j].start < g[j].end /\ g[j].end < g[i].start
      BY <1>1, <3>1
    <3>3. /\ g[j].start \in Nat /\ g[j].end \in Nat /\ g[i].start \in Nat
          /\ g[m].end \in Nat
      BY <1>1, <3>1
    <3>4. g[j].start <= g[m].end
      BY <2>1, <3>2, <3>3
    <3> QED BY <3>1, <3>4 DEF Reached
  <2> QED BY <2>2, <2>3
<1>4. PICK c : c = Cardinality(Reached(g, m))
  OBVIOUS
<1>5. c \in Nat /\ m + c <= Len(g) /\ Reached(g, m) = m + 1 .. m + c
  <2>1. \A i \in Reached(g, m) : m + 1 .. i \subseteq Reached(g, m)
    BY <1>3
  <2>2. Len(g) \in Nat
    BY <1>1
  <2> QED BY <1>2, <1>4, <2>1, <2>2, Consecutive
<1>6. Ends(g, m) = {g[j].end : j \in m .. m + c}
  <2>1. Reached(g, m) \cup {m} = m .. m + c
    BY <1>2, <1>5
  <2> QED BY <2>1 DEF Ends
<1>7. Ends(g, m) \subseteq Nat
  BY <1>1, <1>5, <1>6
<1>8. PICK k \in m .. m + c : \A j \in m .. m + c : g[j].end <= g[k].end
  <2>1. ASSUME NEW i \in m + 1 .. m + c, NEW j \in m + 1 .. m + c, i < j
        PROVE  g[i].end < g[j].end
    <3>1. i \in 1 .. Len(g) /\ j \in 1 .. Len(g) /\ i # m
      BY <1>1, <1>5
    <3>2. g[i].end < g[j].start /\ g[j].start < g[j].end
      BY <1>1, <2>1, <3>1
    <3> QED BY <1>1, <3>1, <3>2
  <2>2. m \in 1 .. Len(g) /\ m + c \in 1 .. Len(g)
    BY <1>1, <1>5
  <2>3. g[m].end \in Nat /\ g[m + c].end \in Nat
    BY <1>1, <2>2
  <2>4. ASSUME NEW j \in m .. m + c PROVE g[j].end <= g[m].end \/ g[j].end <= g[m + c].end
    <3>1. j = m \/ j = m + c \/ (j \in m + 1 .. m + c /\ m + c \in m + 1 .. m + c /\ j < m + c)
      BY <1>1, <1>5
    <3>2. j \in 1 .. Len(g)
      BY <1>1, <1>5
    <3> QED BY <1>1, <2>1, <2>2, <2>3, <3>1, <3>2
  <2>5. m \in m .. m + c /\ m + c \in m .. m + c
    BY <1>1, <1>5
  <2>6. \A j \in m .. m + c : g[j].end \in Nat
    BY <1>1, <1>5
  <2>7. CASE g[m].end <= g[m + c].end
    BY <2>3, <2>4, <2>5, <2>6, <2>7
  <2>8. CASE g[m + c].end <= g[m].end
    BY <2>3, <2>4, <2>5, <2>6, <2>8
  <2> QED BY <2>3, <2>7, <2>8
<1>9. Max(Ends(g, m)) = g[k].end
  <2>1. g[k].end \in Ends(g, m) /\ \A y \in Ends(g, m) : y <= g[k].end
    BY <1>6, <1>8
  <2> QED BY <1>7, <2>1, GreatestIsMax
<1>10. c \in 0 .. Len(g) - m /\ g[k].end \in Nat
  BY <1>1, <1>5
<1>11. \A j \in m + 1 .. m + c : g[j].start <= g[m].end
  BY <1>5 DEF Reached
<1>12. ASSUME NEW j \in m + c + 1 .. Len(g) PROVE g[m].end < g[j].start
  <2>1. j \in m + 1 .. Len(g) /\ j \in 1 .. Len(g) /\ ~ (j \in m + 1 .. m + c)
    BY <1>1, <1>5
  <2>2. ~ (g[j].start <= g[m].end)
    BY <1>5, <2>1 DEF Reached
  <2> QED BY <1>1, <2>1, <2>2
<1> QED BY <1>4, <1>8, <1>9, <1>10, <1>11, <1>12 DEF Reach

(* Where a run goes, and the table with it before it swallows the next.    *)
At(segs, s) == Cardinality({i \in DOMAIN segs : segs[i].start < s})
Touches(segs, s) == At(segs, s) > 0 /\ segs[At(segs, s)].end >= s
Grown(segs, s, e) ==
  IF Touches(segs, s)
  THEN [segs EXCEPT ![At(segs, s)].end = IF e > @ THEN e ELSE @]
  ELSE InsertAt(segs, At(segs, s) + 1, Segment(s, e))
Merged(segs, s) == IF Touches(segs, s) THEN At(segs, s) ELSE At(segs, s) + 1

LEMMA SortedFields ==
  ASSUME NEW segs, Sorted(segs)
  PROVE  /\ segs \in Seq(SegmentType) /\ Len(segs) \in Nat
         /\ \A i \in 1 .. Len(segs) : /\ segs[i] \in SegmentType /\ segs[i].start \in Nat
                                      /\ segs[i].end \in Nat /\ segs[i].start < segs[i].end
         /\ \A i, j \in 1 .. Len(segs) : i < j => segs[i].end < segs[j].start
<1>1. segs \in Seq(SegmentType)
  BY DEF Sorted
<1>2. Len(segs) \in Nat /\ DOMAIN segs = 1 .. Len(segs)
  BY <1>1, LenProperties
<1>3. \A i \in 1 .. Len(segs) : /\ segs[i] \in SegmentType
                                /\ segs[i].start \in Nat /\ segs[i].end \in Nat
  BY <1>1, Fields
<1> QED BY <1>1, <1>2, <1>3 DEF Sorted

LEMMA InsertionPoint ==
  ASSUME NEW segs, Sorted(segs), NEW s \in Nat
  PROVE  /\ At(segs, s) \in 0 .. Len(segs)
         /\ \A i \in 1 .. At(segs, s) : segs[i].start < s
         /\ \A i \in At(segs, s) + 1 .. Len(segs) : s <= segs[i].start
<1> DEFINE D == {i \in DOMAIN segs : segs[i].start < s}
<1>1. /\ segs \in Seq(SegmentType) /\ Len(segs) \in Nat
      /\ \A i \in 1 .. Len(segs) : /\ segs[i].start \in Nat /\ segs[i].end \in Nat
                                   /\ segs[i].start < segs[i].end
      /\ \A i, j \in 1 .. Len(segs) : i < j => segs[i].end < segs[j].start
  BY SortedFields
<1>2. DOMAIN segs = 1 .. Len(segs)
  BY <1>1, LenProperties
<1>3. D \subseteq 0 + 1 .. Len(segs)
  BY <1>2
<1>4. ASSUME NEW i \in D, NEW j \in 0 + 1 .. i PROVE j \in D
  <2>1. i \in 1 .. Len(segs) /\ segs[i].start < s /\ j \in 1 .. Len(segs)
    BY <1>1, <1>2
  <2>2. j = i \/ (j < i /\ segs[j].start < segs[j].end /\ segs[j].end < segs[i].start)
    BY <1>1, <2>1
  <2>3. segs[j].start < s
    BY <1>1, <2>1, <2>2
  <2> QED BY <1>2, <2>1, <2>3
<1>5. /\ Cardinality(D) \in Nat /\ 0 + Cardinality(D) <= Len(segs)
      /\ D = 0 + 1 .. 0 + Cardinality(D)
  <2>1. \A i \in D : 0 + 1 .. i \subseteq D
    BY <1>4
  <2> HIDE DEF D
  <2>2. 0 \in Nat /\ 0 <= Len(segs) /\ Len(segs) \in Nat
    BY <1>1
  <2> QED BY <1>3, <2>1, <2>2, Consecutive
<1>6. At(segs, s) = Cardinality(D)
  BY DEF At
<1>7. At(segs, s) \in Nat /\ At(segs, s) <= Len(segs) /\ D = 1 .. At(segs, s)
  <2> HIDE DEF D
  <2>1. \A n \in Nat : 0 + n = n /\ 0 + 1 .. 0 + n = 1 .. n
    OBVIOUS
  <2> QED BY <1>5, <1>6, <2>1
<1>8. ASSUME NEW i \in At(segs, s) + 1 .. Len(segs) PROVE s <= segs[i].start
  <2>1. i \in 1 .. Len(segs) /\ i \notin D
    BY <1>1, <1>7
  <2>2. ~ (segs[i].start < s)
    BY <1>2, <2>1
  <2> QED BY <1>1, <2>1, <2>2
<1> QED BY <1>1, <1>7, <1>8

(* r is segs with segment i set to lo .. hi - 1, or with x put in at k.    *)
Edited(segs, r, i, lo, hi) ==
  /\ r \in Seq(SegmentType) /\ Len(r) = Len(segs)
  /\ \A j \in 1 .. Len(segs) : j # i => r[j] = segs[j]
  /\ r[i].start = lo /\ r[i].end = hi

Inserted(segs, r, k, x) ==
  /\ r \in Seq(SegmentType) /\ Len(r) = Len(segs) + 1
  /\ \A j \in 1 .. Len(segs) + 1 : j < k => r[j] = segs[j]
  /\ r[k] = x
  /\ \A j \in 1 .. Len(segs) + 1 : j > k => r[j] = segs[j - 1]

WithEnd(segs, i, e) == [segs EXCEPT ![i].end = e]
WithStart(segs, i, s) == [segs EXCEPT ![i].start = s]

LEMMA SetEnd ==
  ASSUME NEW segs \in Seq(SegmentType), NEW i \in 1 .. Len(segs), NEW e \in Nat
  PROVE  Edited(segs, WithEnd(segs, i, e), i, segs[i].start, e)
<1>0. PICK r : r = WithEnd(segs, i, e)
  OBVIOUS
<1>1. segs[i] \in SegmentType
  BY ElementOfSeq
<1>2. PICK x : x = [segs[i] EXCEPT !.end = e]
  OBVIOUS
<1>3. x \in SegmentType /\ x.start = segs[i].start /\ x.end = e
  BY <1>1, <1>2 DEF SegmentType
<1>4. r = [segs EXCEPT ![i] = x]
  BY <1>0, <1>2 DEF WithEnd
<1>5. /\ r \in Seq(SegmentType) /\ Len(r) = Len(segs)
      /\ \A j \in 1 .. Len(segs) : r[j] = IF j = i THEN x ELSE segs[j]
  <2>1. /\ [segs EXCEPT ![i] = x] \in Seq(SegmentType)
        /\ Len([segs EXCEPT ![i] = x]) = Len(segs)
        /\ \A j \in 1 .. Len(segs) : [segs EXCEPT ![i] = x][j] = IF j = i THEN x ELSE segs[j]
    BY <1>3, ExceptSeq
  <2> QED BY <1>4, <2>1
<1> QED BY <1>0, <1>3, <1>5 DEF Edited

LEMMA SetStart ==
  ASSUME NEW segs \in Seq(SegmentType), NEW i \in 1 .. Len(segs), NEW s \in Nat
  PROVE  Edited(segs, WithStart(segs, i, s), i, s, segs[i].end)
<1>0. PICK r : r = WithStart(segs, i, s)
  OBVIOUS
<1>1. segs[i] \in SegmentType
  BY ElementOfSeq
<1>2. PICK x : x = [segs[i] EXCEPT !.start = s]
  OBVIOUS
<1>3. x \in SegmentType /\ x.start = s /\ x.end = segs[i].end
  BY <1>1, <1>2 DEF SegmentType
<1>4. r = [segs EXCEPT ![i] = x]
  BY <1>0, <1>2 DEF WithStart
<1>5. /\ r \in Seq(SegmentType) /\ Len(r) = Len(segs)
      /\ \A j \in 1 .. Len(segs) : r[j] = IF j = i THEN x ELSE segs[j]
  <2>1. /\ [segs EXCEPT ![i] = x] \in Seq(SegmentType)
        /\ Len([segs EXCEPT ![i] = x]) = Len(segs)
        /\ \A j \in 1 .. Len(segs) : [segs EXCEPT ![i] = x][j] = IF j = i THEN x ELSE segs[j]
    BY <1>3, ExceptSeq
  <2> QED BY <1>4, <2>1
<1> QED BY <1>0, <1>3, <1>5 DEF Edited

LEMMA InsertIndex ==
  ASSUME NEW segs \in Seq(SegmentType), NEW k \in 1 .. Len(segs) + 1, NEW x \in SegmentType
  PROVE  Inserted(segs, InsertAt(segs, k, x), k, x)
<1>0. PICK r : r = InsertAt(segs, k, x)
  OBVIOUS
<1>1. Len(segs) \in Nat
  BY LenProperties
<1>2. PICK a : a = k - 1
  OBVIOUS
<1>3. a \in 0 .. Len(segs) /\ k \in a + 1 .. Len(segs) + 1 /\ k = a + 1
  BY <1>1, <1>2
<1>4. r = Splice(segs, a, x, k)
  BY <1>0, <1>2 DEF InsertAt, Splice
<1>5. /\ r \in Seq(SegmentType) /\ Len(r) = Len(segs) - k + a + 2
      /\ \A i \in 1 .. Len(r) : r[i] = IF i <= a THEN segs[i]
                                       ELSE IF i = a + 1 THEN x
                                       ELSE segs[i - a - 2 + k]
  <2>1. PICK b : b = k
    OBVIOUS
  <2>2. b \in a + 1 .. Len(segs) + 1
    BY <1>3, <2>1
  <2>3. /\ Splice(segs, a, x, b) \in Seq(SegmentType)
        /\ Len(Splice(segs, a, x, b)) = Len(segs) - b + a + 2
        /\ \A i \in 1 .. Len(Splice(segs, a, x, b)) :
             Splice(segs, a, x, b)[i] = IF i <= a THEN segs[i]
                                        ELSE IF i = a + 1 THEN x
                                        ELSE segs[i - a - 2 + b]
    BY <1>3, <2>2, SpliceIndex
  <2> QED BY <1>4, <2>1, <2>3
<1>6. Len(r) = Len(segs) + 1
  BY <1>1, <1>3, <1>5
<1>7. ASSUME NEW j \in 1 .. Len(segs) + 1, j < k PROVE r[j] = segs[j]
  BY <1>1, <1>3, <1>5, <1>6, <1>7
<1>8. r[k] = x
  BY <1>1, <1>3, <1>5, <1>6
<1>9. ASSUME NEW j \in 1 .. Len(segs) + 1, j > k PROVE r[j] = segs[j - 1]
  <2>1. ~ (j <= a) /\ j # a + 1 /\ j - a - 2 + k = j - 1
    BY <1>1, <1>3, <1>9
  <2> QED BY <1>5, <1>6, <2>1
<1> QED BY <1>0, <1>5, <1>6, <1>7, <1>8, <1>9 DEF Inserted

LEMMA InsertFrames ==
  ASSUME NEW segs \in Seq(SegmentType), NEW k \in 1 .. Len(segs) + 1, NEW x \in SegmentType,
         NEW r, Inserted(segs, r, k, x)
  PROVE  FreeSet(r) = FreeSet(segs) \cup FramesOf(x)
<1>1. /\ r \in Seq(SegmentType) /\ Len(r) = Len(segs) + 1 /\ Len(segs) \in Nat
      /\ \A j \in 1 .. Len(segs) + 1 : j < k => r[j] = segs[j]
      /\ r[k] = x
      /\ \A j \in 1 .. Len(segs) + 1 : j > k => r[j] = segs[j - 1]
  <2>1. Len(segs) \in Nat
    BY LenProperties
  <2> QED BY <2>1 DEF Inserted
<1>2. ASSUME NEW f PROVE f \in FreeSet(r) <=> f \in FreeSet(segs) \/ f \in FramesOf(x)
  <2>1. f \in FreeSet(r) <=> \E i \in 1 .. Len(r) : f \in FramesOf(r[i])
    BY <1>1, FreeSetMembers
  <2>2. f \in FreeSet(segs) <=> \E i \in 1 .. Len(segs) : f \in FramesOf(segs[i])
    BY FreeSetMembers
  <2>3. ASSUME NEW i \in 1 .. Len(r), f \in FramesOf(r[i])
        PROVE  f \in FreeSet(segs) \/ f \in FramesOf(x)
    <3>1. CASE i < k
      <4>1. i \in 1 .. Len(segs) /\ r[i] = segs[i]
        BY <1>1, <3>1
      <4> QED BY <2>2, <2>3, <4>1
    <3>2. CASE i = k
      BY <1>1, <2>3, <3>2
    <3>3. CASE i > k
      <4>1. i - 1 \in 1 .. Len(segs) /\ r[i] = segs[i - 1]
        BY <1>1, <3>3
      <4> QED BY <2>2, <2>3, <4>1
    <3> QED BY <1>1, <3>1, <3>2, <3>3
  <2>4. ASSUME NEW i \in 1 .. Len(segs), f \in FramesOf(segs[i])
        PROVE  f \in FreeSet(r)
    <3>1. CASE i < k
      <4>1. i \in 1 .. Len(r) /\ r[i] = segs[i]
        BY <1>1, <3>1
      <4> QED BY <2>1, <2>4, <4>1
    <3>2. CASE i >= k
      <4>1. i + 1 \in 1 .. Len(r) /\ i + 1 > k /\ (i + 1) - 1 = i
        BY <1>1, <3>2
      <4>2. r[i + 1] = segs[i]
        BY <1>1, <4>1
      <4> QED BY <2>1, <2>4, <4>1, <4>2
    <3> QED BY <1>1, <3>1, <3>2
  <2>5. k \in 1 .. Len(r)
    BY <1>1
  <2> QED BY <1>1, <2>1, <2>2, <2>3, <2>4, <2>5
<1> QED BY <1>2

LEMMA RemoveIndex ==
  ASSUME NEW segs \in Seq(SegmentType), NEW k \in 1 .. Len(segs),
         NEW r, r = RemoveAt(segs, k)
  PROVE  /\ r \in Seq(SegmentType) /\ Len(r) = Len(segs) - 1
         /\ \A j \in 1 .. Len(segs) - 1 : j < k => r[j] = segs[j]
         /\ \A j \in 1 .. Len(segs) - 1 : j >= k => r[j] = segs[j + 1]
<1>1. Len(segs) \in Nat
  BY LenProperties
<1>2. PICK a, b : a = k - 1 /\ b = k + 1
  OBVIOUS
<1>3. a \in 0 .. Len(segs) /\ b \in a + 1 .. Len(segs) + 1 /\ k = a + 1 /\ b = a + 2
  BY <1>1, <1>2
<1>4. r = Cut(segs, a, b)
  BY <1>2 DEF RemoveAt, Cut
<1>5. /\ r \in Seq(SegmentType) /\ Len(r) = Len(segs) - b + a + 1
      /\ \A i \in 1 .. Len(r) : r[i] = IF i <= a THEN segs[i] ELSE segs[i - a - 1 + b]
  BY <1>3, <1>4, CutIndex
<1>6. Len(r) = Len(segs) - 1
  BY <1>1, <1>3, <1>5
<1>7. ASSUME NEW j \in 1 .. Len(segs) - 1, j < k PROVE r[j] = segs[j]
  BY <1>1, <1>3, <1>5, <1>6, <1>7
<1>8. ASSUME NEW j \in 1 .. Len(segs) - 1, j >= k PROVE r[j] = segs[j + 1]
  <2>1. ~ (j <= a) /\ j - a - 1 + b = j + 1
    BY <1>1, <1>3, <1>8
  <2> QED BY <1>5, <1>6, <2>1
<1> QED BY <1>5, <1>6, <1>7, <1>8

(* The two ways a run enters the table.                                    *)
LEMMA GrownByTouch ==
  ASSUME NEW segs, Sorted(segs), NEW s \in Nat, NEW e \in Nat, s < e, Touches(segs, s),
         NEW g, g = Grown(segs, s, e), NEW m, m = Merged(segs, s)
  PROVE  Loose(g, m) /\ Len(g) = Len(segs) /\ FreeSet(g) = FreeSet(segs) \cup (s .. e - 1)
<1>1. /\ segs \in Seq(SegmentType) /\ Len(segs) \in Nat
      /\ \A i \in 1 .. Len(segs) : /\ segs[i] \in SegmentType /\ segs[i].start \in Nat
                                   /\ segs[i].end \in Nat /\ segs[i].start < segs[i].end
      /\ \A i, j \in 1 .. Len(segs) : i < j => segs[i].end < segs[j].start
  BY SortedFields
<1>2. m = At(segs, s) /\ m > 0 /\ segs[m].end >= s
  BY DEF Merged, Touches
<1>3. m \in 1 .. Len(segs) /\ segs[m].start < s
  <2>1. m \in 0 .. Len(segs) /\ \A i \in 1 .. m : segs[i].start < s
    BY <1>2, InsertionPoint
  <2>2. m \in 1 .. Len(segs) /\ m \in 1 .. m
    BY <1>1, <1>2, <2>1
  <2> QED BY <2>1, <2>2
<1>4. PICK h : h = IF e > segs[m].end THEN e ELSE segs[m].end
  OBVIOUS
<1>5. h \in Nat /\ h >= e /\ h >= segs[m].end /\ (h = e \/ h = segs[m].end)
  BY <1>1, <1>3, <1>4
<1>6. g = [segs EXCEPT ![m].end = h]
  BY <1>2, <1>4 DEF Grown
<1>7. /\ g \in Seq(SegmentType) /\ Len(g) = Len(segs)
      /\ \A j \in 1 .. Len(segs) : j # m => g[j] = segs[j]
      /\ g[m].start = segs[m].start /\ g[m].end = h
  <2>1. Edited(segs, WithEnd(segs, m, h), m, segs[m].start, h)
    BY <1>1, <1>3, <1>5, SetEnd
  <2> QED BY <1>6, <2>1 DEF Edited, WithEnd
<1>8. ASSUME NEW i \in 1 .. Len(g) PROVE g[i].start < g[i].end
  <2>1. CASE i = m
    BY <1>1, <1>3, <1>5, <1>7, <2>1
  <2>2. CASE i # m
    BY <1>1, <1>7, <2>2
  <2> QED BY <2>1, <2>2
<1>9. \A i \in 1 .. Len(g) : g[i].start = segs[i].start
  BY <1>7
<1>10. ASSUME NEW i \in 1 .. Len(g), NEW j \in 1 .. Len(g), i < j, i # m
       PROVE  g[i].end < g[j].start
  BY <1>1, <1>7, <1>9, <1>10
<1>11. ASSUME NEW j \in m + 1 .. Len(g) PROVE g[m].start <= g[j].start
  <2>1. m \in 1 .. Len(segs) /\ j \in 1 .. Len(segs) /\ m < j
    BY <1>1, <1>3, <1>7
  <2>2. segs[m].start < segs[m].end /\ segs[m].end < segs[j].start
    BY <1>1, <2>1
  <2>3. segs[m].start \in Nat /\ segs[m].end \in Nat /\ segs[j].start \in Nat
    BY <1>1, <2>1
  <2> QED BY <1>7, <1>9, <2>1, <2>2, <2>3
<1>12. Loose(g, m)
  BY <1>3, <1>7, <1>8, <1>10, <1>11 DEF Loose
<1>13. ASSUME NEW x
       PROVE  x \in FramesOf(g[m]) <=> x \in FramesOf(segs[m]) \/ x \in s .. e - 1
  <2>1. g[m] \in SegmentType /\ segs[m] \in SegmentType
    BY <1>1, <1>3, <1>7, Fields
  <2>2. x \in FramesOf(g[m]) <=> x \in Nat /\ segs[m].start <= x /\ x < h
    BY <1>7, <2>1, FramesMembers
  <2>3. x \in FramesOf(segs[m]) <=> x \in Nat /\ segs[m].start <= x /\ x < segs[m].end
    BY <2>1, FramesMembers
  <2>4. x \in s .. e - 1 <=> x \in Nat /\ s <= x /\ x < e
    OBVIOUS
  <2>5. segs[m].start \in Nat /\ segs[m].end \in Nat
    BY <1>1, <1>3
  <2> QED BY <1>2, <1>3, <1>5, <2>2, <2>3, <2>4, <2>5
<1>14. \A i \in 1 .. Len(segs) : i # m => FramesOf(g[i]) = FramesOf(segs[i])
  BY <1>7
<1>15. ASSUME NEW x PROVE x \in FreeSet(g) <=> x \in FreeSet(segs) \/ x \in s .. e - 1
  <2>1. x \in FreeSet(g) <=> \E i \in 1 .. Len(segs) : x \in FramesOf(g[i])
    BY <1>7, FreeSetMembers
  <2>2. x \in FreeSet(segs) <=> \E i \in 1 .. Len(segs) : x \in FramesOf(segs[i])
    BY <1>1, FreeSetMembers
  <2> QED BY <1>3, <1>13, <1>14, <2>1, <2>2
<1> QED BY <1>7, <1>12, <1>15

LEMMA GrownBySlot ==
  ASSUME NEW segs, Sorted(segs), NEW s \in Nat, NEW e \in Nat, s < e, ~ Touches(segs, s),
         NEW g, g = Grown(segs, s, e), NEW m, m = Merged(segs, s)
  PROVE  Loose(g, m) /\ Len(g) = Len(segs) + 1 /\ FreeSet(g) = FreeSet(segs) \cup (s .. e - 1)
<1>1. /\ segs \in Seq(SegmentType) /\ Len(segs) \in Nat
      /\ \A i \in 1 .. Len(segs) : /\ segs[i] \in SegmentType /\ segs[i].start \in Nat
                                   /\ segs[i].end \in Nat /\ segs[i].start < segs[i].end
      /\ \A i, j \in 1 .. Len(segs) : i < j => segs[i].end < segs[j].start
  BY SortedFields
<1>2. PICK a : a = At(segs, s)
  OBVIOUS
<1>3. /\ a \in 0 .. Len(segs)
      /\ \A i \in 1 .. a : segs[i].start < s
      /\ \A i \in a + 1 .. Len(segs) : s <= segs[i].start
  BY <1>2, InsertionPoint
<1>4. m = a + 1 /\ m \in 1 .. Len(segs) + 1
  BY <1>1, <1>2, <1>3 DEF Merged
<1>5. ASSUME NEW i \in 1 .. a PROVE segs[i].end < s
  <2>1. a \in 1 .. Len(segs) /\ i \in 1 .. Len(segs) /\ a > 0
    BY <1>1, <1>3
  <2>2. segs[a].end < s
    <3>1. ~ (segs[a].end >= s)
      BY <1>2, <2>1 DEF Touches
    <3> QED BY <1>1, <2>1, <3>1
  <2>3. CASE i = a
    BY <2>2, <2>3
  <2>4. CASE i < a
    <3>1. segs[i].end < segs[a].start /\ segs[a].start < segs[a].end
      BY <1>1, <2>1, <2>4
    <3>2. segs[i].end \in Nat /\ segs[a].start \in Nat /\ segs[a].end \in Nat
      BY <1>1, <2>1
    <3> QED BY <2>2, <3>1, <3>2
  <2> QED BY <1>3, <2>3, <2>4
<1>6. PICK y : y = Segment(s, e)
  OBVIOUS
<1>7. y \in SegmentType /\ y.start = s /\ y.end = e
  BY <1>6, SegmentFields
<1>8. Inserted(segs, g, m, y)
  <2>1. g = InsertAt(segs, m, y)
    BY <1>2, <1>4, <1>6 DEF Grown
  <2> QED BY <1>1, <1>4, <1>7, <2>1, InsertIndex
<1>9. /\ g \in Seq(SegmentType) /\ Len(g) = Len(segs) + 1
      /\ \A j \in 1 .. Len(segs) + 1 : j < m => g[j] = segs[j]
      /\ g[m] = y
      /\ \A j \in 1 .. Len(segs) + 1 : j > m => g[j] = segs[j - 1]
  BY <1>8 DEF Inserted
<1>10. ASSUME NEW j \in 1 .. Len(g)
       PROVE  /\ j \in Int
              /\ \/ j < m /\ j \in 1 .. Len(segs) /\ j \in 1 .. a /\ g[j] = segs[j]
                 \/ j = m /\ g[j] = y
                 \/ /\ j > m /\ j - 1 \in 1 .. Len(segs) /\ j - 1 \in a + 1 .. Len(segs)
                    /\ g[j] = segs[j - 1]
  <2>1. j \in 1 .. Len(segs) + 1 /\ (j < m \/ j = m \/ j > m)
    BY <1>4, <1>9
  <2>2. CASE j < m
    <3>1. j \in 1 .. Len(segs) /\ j \in 1 .. a
      BY <1>1, <1>3, <1>4, <2>1, <2>2
    <3> QED BY <1>9, <2>1, <2>2, <3>1
  <2>3. CASE j = m
    BY <1>4, <1>9, <2>3
  <2>4. CASE j > m
    <3>1. j - 1 \in 1 .. Len(segs) /\ j - 1 \in a + 1 .. Len(segs)
      BY <1>1, <1>3, <1>4, <2>1, <2>4
    <3> QED BY <1>9, <2>1, <2>4, <3>1
  <2> QED BY <2>1, <2>2, <2>3, <2>4
<1>11. ASSUME NEW i \in 1 .. Len(g) PROVE g[i].start < g[i].end
  BY <1>1, <1>7, <1>9, <1>10
<1>12. ASSUME NEW i \in 1 .. Len(g), NEW j \in 1 .. Len(g), i < j, i # m
       PROVE  g[i].end < g[j].start
  <2>1. CASE j < m
    <3>1. g[i] = segs[i] /\ g[j] = segs[j] /\ i \in 1 .. Len(segs) /\ j \in 1 .. Len(segs)
      BY <1>1, <1>4, <1>9, <1>12, <2>1
    <3> QED BY <1>1, <1>12, <3>1
  <2>2. CASE j = m
    <3>1. g[i] = segs[i] /\ i \in 1 .. a
      BY <1>4, <1>10, <1>12, <2>2
    <3> QED BY <1>5, <1>7, <1>9, <2>2, <3>1
  <2>3. CASE j > m
    <3>1. g[j] = segs[j - 1] /\ j - 1 \in 1 .. Len(segs)
      BY <1>4, <1>10, <2>3
    <3>2. CASE i < m
      <4>1. g[i] = segs[i] /\ i \in 1 .. Len(segs) /\ i < j - 1
        BY <1>1, <1>4, <1>9, <2>3, <3>2
      <4> QED BY <1>1, <3>1, <4>1
    <3>3. CASE i > m
      <4>1. g[i] = segs[i - 1] /\ i - 1 \in 1 .. Len(segs) /\ i - 1 < j - 1
        BY <1>4, <1>10, <1>12, <3>3
      <4> QED BY <1>1, <3>1, <4>1
    <3> QED BY <1>4, <1>12, <3>2, <3>3
  <2> QED BY <1>4, <2>1, <2>2, <2>3
<1>13. ASSUME NEW j \in m + 1 .. Len(g) PROVE g[m].start <= g[j].start
  <2>1. j > m /\ j \in 1 .. Len(g)
    BY <1>4
  <2>2. g[j] = segs[j - 1] /\ j - 1 \in a + 1 .. Len(segs)
    BY <1>4, <1>10, <2>1
  <2> QED BY <1>3, <1>7, <1>9, <2>2
<1>14. m \in 1 .. Len(g)
  BY <1>4, <1>9
<1>15. Loose(g, m)
  BY <1>9, <1>11, <1>12, <1>13, <1>14 DEF Loose
<1>16. FreeSet(g) = FreeSet(segs) \cup (s .. e - 1)
  <2>1. FreeSet(g) = FreeSet(segs) \cup FramesOf(y)
    BY <1>1, <1>4, <1>7, <1>8, InsertFrames
  <2>2. FramesOf(y) = s .. e - 1
    BY <1>7 DEF FramesOf
  <2> QED BY <2>1, <2>2
<1> QED BY <1>9, <1>15, <1>16

(* What insert_free_segment does to the table.                             *)
LEMMA InsertFreeEffect ==
  ASSUME NEW segs, Sorted(segs), Len(segs) <= MaxFreeSegments,
         NEW s \in Nat, NEW e \in Nat, s < e, NEW r, r = InsertFree(segs, s, e)
  PROVE  /\ r.ok \in BOOLEAN
         /\ Sorted(r.segs) /\ Len(r.segs) <= MaxFreeSegments
         /\ r.ok => FreeSet(r.segs) = FreeSet(segs) \cup (s .. e - 1)
         /\ ~ r.ok => r.segs = segs
<1>1. segs \in Seq(SegmentType) /\ Len(segs) \in Nat /\ MaxFreeSegments \in Nat
  BY PoolAssumption, SortedFields
<1>2. PICK g, m : g = Grown(segs, s, e) /\ m = Merged(segs, s)
  OBVIOUS
<1>3. PICK c, h : c = Cardinality(Reached(g, m)) /\ h = Max(Ends(g, m))
  OBVIOUS
<1>4. r = IF ~ Touches(segs, s) /\ ~ HasRoom(segs)
          THEN [ok |-> FALSE, segs |-> segs]
          ELSE [ok |-> TRUE, segs |-> Absorbed(g, m, c, h)]
  <2>1. r = IF ~ Touches(segs, s) /\ ~ HasRoom(segs)
            THEN [ok |-> FALSE, segs |-> segs]
            ELSE [ok |-> TRUE,
                  segs |-> Absorbed(Grown(segs, s, e), Merged(segs, s),
                             Cardinality(Reached(Grown(segs, s, e), Merged(segs, s))),
                             Max(Ends(Grown(segs, s, e), Merged(segs, s))))]
    BY Zenon DEF InsertFree, Touches, At, Grown, Merged, Reached, Ends, Absorbed, Splice
  <2> QED BY <1>2, <1>3, <2>1
<1>5. CASE ~ Touches(segs, s) /\ ~ HasRoom(segs)
  <2>1. r.ok = FALSE /\ r.segs = segs
    BY <1>4, <1>5
  <2> QED BY <2>1
<1>6. CASE Touches(segs, s) \/ HasRoom(segs)
  <2>1. r.ok = TRUE /\ r.segs = Absorbed(g, m, c, h)
    BY <1>4, <1>6
  <2>2. /\ Loose(g, m) /\ Len(g) \in Nat /\ Len(g) <= MaxFreeSegments
        /\ FreeSet(g) = FreeSet(segs) \cup (s .. e - 1)
    <3>1. CASE Touches(segs, s)
      <4>1. Loose(g, m) /\ Len(g) = Len(segs) /\ FreeSet(g) = FreeSet(segs) \cup (s .. e - 1)
        BY <1>2, <3>1, GrownByTouch
      <4> QED BY <1>1, <4>1
    <3>2. CASE ~ Touches(segs, s)
      <4>1. Loose(g, m) /\ Len(g) = Len(segs) + 1 /\ FreeSet(g) = FreeSet(segs) \cup (s .. e - 1)
        BY <1>2, <3>2, GrownBySlot
      <4>2. Len(segs) < MaxFreeSegments
        BY <1>6, <3>2 DEF HasRoom
      <4> QED BY <1>1, <4>1, <4>2
    <3> QED BY <3>1, <3>2
  <2>3. Reach(g, m, c, h)
    BY <1>3, <2>2, ReachedAre
  <2>4. Sorted(r.segs) /\ FreeSet(r.segs) = FreeSet(g)
    BY <2>1, <2>2, <2>3, AbsorbSorted, AbsorbFrames
  <2>5. Len(r.segs) = Len(g) - c
    BY <2>1, <2>2, <2>3, AbsorbIndex
  <2>6. c \in Nat
    BY <2>2, <2>3 DEF Loose, Reach
  <2>7. Len(r.segs) <= MaxFreeSegments
    BY <1>1, <2>2, <2>5, <2>6
  <2> QED BY <2>1, <2>2, <2>4, <2>7
<1> QED BY <1>5, <1>6

-----------------------------------------------------------------------------
(* What taking frames out of a segment does to the table.                  *)
LEMMA OneSegment ==
  ASSUME NEW segs, Sorted(segs), NEW i \in 1 .. Len(segs), NEW j \in 1 .. Len(segs),
         NEW x \in FramesOf(segs[i]), x \in FramesOf(segs[j])
  PROVE  i = j
<1>1. /\ segs \in Seq(SegmentType) /\ Len(segs) \in Nat
      /\ \A k \in 1 .. Len(segs) : /\ segs[k] \in SegmentType /\ segs[k].start \in Nat
                                   /\ segs[k].end \in Nat /\ segs[k].start < segs[k].end
      /\ \A k, l \in 1 .. Len(segs) : k < l => segs[k].end < segs[l].start
  BY SortedFields
<1>2. /\ x \in Nat /\ segs[i].start <= x /\ x < segs[i].end
      /\ segs[j].start <= x /\ x < segs[j].end
  BY <1>1, FramesMembers
<1>3. CASE i < j
  <2>1. segs[i].end < segs[j].start
    BY <1>1, <1>3
  <2> QED BY <1>1, <1>2, <2>1
<1>4. CASE j < i
  <2>1. segs[j].end < segs[i].start
    BY <1>1, <1>4
  <2> QED BY <1>1, <1>2, <2>1
<1> QED BY <1>1, <1>3, <1>4

LEMMA DropSegment ==
  ASSUME NEW segs, Sorted(segs), NEW k \in 1 .. Len(segs), NEW r, r = RemoveAt(segs, k)
  PROVE  /\ Sorted(r) /\ Len(r) = Len(segs) - 1
         /\ FreeSet(r) = FreeSet(segs) \ FramesOf(segs[k])
<1>1. /\ segs \in Seq(SegmentType) /\ Len(segs) \in Nat
      /\ \A i \in 1 .. Len(segs) : segs[i].start < segs[i].end
      /\ \A i, j \in 1 .. Len(segs) : i < j => segs[i].end < segs[j].start
  BY SortedFields
<1>2. /\ r \in Seq(SegmentType) /\ Len(r) = Len(segs) - 1
      /\ \A j \in 1 .. Len(segs) - 1 : j < k => r[j] = segs[j]
      /\ \A j \in 1 .. Len(segs) - 1 : j >= k => r[j] = segs[j + 1]
  BY <1>1, RemoveIndex
<1>3. DOMAIN r = 1 .. Len(segs) - 1
  BY <1>2, LenProperties
<1>4. ASSUME NEW i \in 1 .. Len(segs) - 1
      PROVE  \/ i < k /\ i \in 1 .. Len(segs) /\ r[i] = segs[i]
             \/ i >= k /\ i + 1 \in 1 .. Len(segs) /\ r[i] = segs[i + 1]
  BY <1>1, <1>2
<1>5. \A i \in 1 .. Len(segs) - 1 : r[i].start < r[i].end
  BY <1>1, <1>4
<1>6. ASSUME NEW i \in 1 .. Len(segs) - 1, NEW j \in 1 .. Len(segs) - 1, i < j
      PROVE  r[i].end < r[j].start
  <2>1. CASE j < k
    BY <1>1, <1>4, <1>6, <2>1
  <2>2. CASE j >= k
    <3>1. r[j] = segs[j + 1] /\ j + 1 \in 1 .. Len(segs)
      BY <1>1, <1>4, <2>2
    <3>2. PICK a \in 1 .. Len(segs) : r[i] = segs[a] /\ (a = i \/ a = i + 1)
      BY <1>4
    <3>3. a < j + 1
      BY <1>6, <3>2
    <3> QED BY <1>1, <3>1, <3>2, <3>3
  <2> QED BY <1>1, <2>1, <2>2
<1>7. Sorted(r)
  BY <1>2, <1>3, <1>5, <1>6 DEF Sorted
<1>8. ASSUME NEW x PROVE x \in FreeSet(r) <=> x \in FreeSet(segs) /\ x \notin FramesOf(segs[k])
  <2>1. x \in FreeSet(r) <=> \E i \in 1 .. Len(segs) - 1 : x \in FramesOf(r[i])
    BY <1>2, FreeSetMembers
  <2>2. x \in FreeSet(segs) <=> \E i \in 1 .. Len(segs) : x \in FramesOf(segs[i])
    BY <1>1, FreeSetMembers
  <2>3. ASSUME NEW i \in 1 .. Len(segs) - 1, x \in FramesOf(r[i])
        PROVE  x \in FreeSet(segs) /\ x \notin FramesOf(segs[k])
    <3>1. PICK a \in 1 .. Len(segs) : a # k /\ r[i] = segs[a]
      BY <1>1, <1>4
    <3> QED BY <2>2, <2>3, <3>1, OneSegment
  <2>4. ASSUME NEW i \in 1 .. Len(segs), x \in FramesOf(segs[i]), x \notin FramesOf(segs[k])
        PROVE  x \in FreeSet(r)
    <3>1. i < k \/ i > k
      BY <1>1, <2>4
    <3>2. CASE i < k
      <4>1. i \in 1 .. Len(segs) - 1
        BY <1>1, <3>2
      <4>2. r[i] = segs[i]
        BY <1>2, <3>2, <4>1
      <4> QED BY <2>1, <2>4, <4>1, <4>2
    <3>3. CASE i > k
      <4>1. i - 1 \in 1 .. Len(segs) - 1 /\ i - 1 >= k /\ (i - 1) + 1 = i
        BY <1>1, <3>3
      <4>2. r[i - 1] = segs[i]
        BY <1>2, <4>1
      <4> QED BY <2>1, <2>4, <4>1, <4>2
    <3> QED BY <3>1, <3>2, <3>3
  <2> QED BY <2>1, <2>2, <2>3, <2>4
<1> QED BY <1>2, <1>7, <1>8

(* A table with one segment narrowed to lo .. hi - 1.                      *)
LEMMA NarrowSegment ==
  ASSUME NEW segs, Sorted(segs), NEW k \in 1 .. Len(segs), NEW lo \in Nat, NEW hi \in Nat,
         segs[k].start <= lo, lo < hi, hi <= segs[k].end,
         NEW r, Edited(segs, r, k, lo, hi)
  PROVE  /\ Sorted(r)
         /\ FreeSet(r) = FreeSet(segs) \ (FramesOf(segs[k]) \ (lo .. hi - 1))
<1>0. /\ r \in Seq(SegmentType) /\ Len(r) = Len(segs)
      /\ \A j \in 1 .. Len(segs) : j # k => r[j] = segs[j]
      /\ r[k].start = lo /\ r[k].end = hi
  BY DEF Edited
<1>1. /\ segs \in Seq(SegmentType) /\ Len(segs) \in Nat
      /\ \A i \in 1 .. Len(segs) : /\ segs[i] \in SegmentType /\ segs[i].start \in Nat
                                   /\ segs[i].end \in Nat /\ segs[i].start < segs[i].end
      /\ \A i, j \in 1 .. Len(segs) : i < j => segs[i].end < segs[j].start
  BY SortedFields
<1>2. DOMAIN r = 1 .. Len(segs)
  BY <1>0, LenProperties
<1>3. \A i \in 1 .. Len(segs) : r[i].start < r[i].end
  BY <1>0, <1>1
<1>4. ASSUME NEW i \in 1 .. Len(segs)
      PROVE  /\ r[i].start \in Nat /\ r[i].end \in Nat
             /\ segs[i].start <= r[i].start /\ r[i].end <= segs[i].end
  BY <1>0, <1>1
<1>5. ASSUME NEW i \in 1 .. Len(segs), NEW j \in 1 .. Len(segs), i < j
      PROVE  r[i].end < r[j].start
  <2>1. segs[i].end < segs[j].start /\ segs[i].end \in Nat /\ segs[j].start \in Nat
    BY <1>1, <1>5
  <2>2. /\ r[i].end \in Nat /\ r[j].start \in Nat
        /\ r[i].end <= segs[i].end /\ segs[j].start <= r[j].start
    BY <1>4
  <2> QED BY <2>1, <2>2
<1>6. Sorted(r)
  BY <1>0, <1>2, <1>3, <1>5 DEF Sorted
<1>7. FramesOf(r[k]) = lo .. hi - 1
  BY <1>0 DEF FramesOf
<1>8. ASSUME NEW x
      PROVE  x \in FreeSet(r) <=> /\ x \in FreeSet(segs)
                                  /\ ~ (x \in FramesOf(segs[k]) /\ x \notin lo .. hi - 1)
  <2>1. x \in FreeSet(r) <=> \E i \in 1 .. Len(segs) : x \in FramesOf(r[i])
    BY <1>0, FreeSetMembers
  <2>2. x \in FreeSet(segs) <=> \E i \in 1 .. Len(segs) : x \in FramesOf(segs[i])
    BY <1>1, FreeSetMembers
  <2>3. x \in lo .. hi - 1 => x \in FramesOf(segs[k])
    BY <1>1 DEF FramesOf
  <2>4. \A i \in 1 .. Len(segs) : i # k => FramesOf(r[i]) = FramesOf(segs[i])
    BY <1>0
  <2>5. \A i \in 1 .. Len(segs) : x \in FramesOf(segs[i]) /\ x \in FramesOf(segs[k]) => i = k
    BY OneSegment
  <2> QED BY <1>0, <1>7, <2>1, <2>2, <2>3, <2>4, <2>5
<1> QED BY <1>6, <1>8

(* consume_segment_front: the run at the front of a segment.               *)
LEMMA ConsumeFrontEffect ==
  ASSUME NEW segs, Sorted(segs), NEW i \in 1 .. Len(segs), NEW n \in Nat \ {0},
         segs[i].start + n <= segs[i].end, NEW r, r = ConsumeFront(segs, i, n)
  PROVE  /\ Sorted(r) /\ Len(r) <= Len(segs)
         /\ segs[i].start .. segs[i].start + n - 1 \subseteq FreeSet(segs)
         /\ FreeSet(r) = FreeSet(segs) \ (segs[i].start .. segs[i].start + n - 1)
<1>1. PICK s, e : s = segs[i].start /\ e = segs[i].end
  OBVIOUS
<1>2. /\ segs \in Seq(SegmentType) /\ Len(segs) \in Nat /\ s \in Nat /\ e \in Nat /\ s < e
      /\ s + n <= e /\ s + n \in Nat
  BY <1>1, SortedFields
<1>3. FramesOf(segs[i]) = s .. e - 1
  BY <1>1 DEF FramesOf
<1>4. s .. s + n - 1 \subseteq FreeSet(segs)
  <2>1. s .. s + n - 1 \subseteq FramesOf(segs[i])
    BY <1>2, <1>3
  <2> QED BY <1>2, <2>1, FreeSetMembers
<1>5. CASE s + n >= e
  <2>1. r = RemoveAt(segs, i) /\ s + n = e
    BY <1>1, <1>2, <1>5 DEF ConsumeFront
  <2>2. Sorted(r) /\ Len(r) = Len(segs) - 1 /\ FreeSet(r) = FreeSet(segs) \ FramesOf(segs[i])
    BY <2>1, DropSegment
  <2>3. Len(r) <= Len(segs)
    BY <1>2, <2>2
  <2>4. FramesOf(segs[i]) = s .. s + n - 1
    <3>1. e - 1 = s + n - 1
      BY <1>2, <2>1
    <3> QED BY <1>3, <3>1
  <2> QED BY <1>1, <1>4, <2>2, <2>3, <2>4
<1>6. CASE ~ (s + n >= e)
  <2>1. r = [segs EXCEPT ![i].start = s + n]
    BY <1>1, <1>6 DEF ConsumeFront
  <2>2. PICK t \in Nat : t = s + n
    BY <1>2
  <2>3. Edited(segs, r, i, t, e)
    <3>1. r = WithStart(segs, i, t)
      BY <2>1, <2>2 DEF WithStart
    <3> QED BY <1>1, <1>2, <3>1, SetStart
  <2>4. segs[i].start <= t /\ t < e /\ e <= segs[i].end
    BY <1>1, <1>2, <1>6, <2>2
  <2>5. Sorted(r) /\ FreeSet(r) = FreeSet(segs) \ (FramesOf(segs[i]) \ (t .. e - 1))
    BY <1>2, <2>2, <2>3, <2>4, NarrowSegment
  <2>6. (s .. e - 1) \ (t .. e - 1) = s .. s + n - 1
    BY <1>2, <1>6, <2>2
  <2> QED BY <1>1, <1>2, <1>3, <1>4, <2>3, <2>5, <2>6 DEF Edited
<1> QED BY <1>5, <1>6

(* claim_frame: one frame of a segment.                                    *)
LEMMA CarveEffect ==
  ASSUME NEW segs, Sorted(segs), Len(segs) <= MaxFreeSegments,
         NEW i \in 1 .. Len(segs), NEW f \in FramesOf(segs[i]),
         SplitNeedsRoom(segs, i, f) => HasRoom(segs), NEW r, r = Carve(segs, i, f)
  PROVE  /\ Sorted(r) /\ Len(r) <= MaxFreeSegments
         /\ f \in FreeSet(segs) /\ FreeSet(r) = FreeSet(segs) \ {f}
<1>1. PICK s, e : s = segs[i].start /\ e = segs[i].end
  OBVIOUS
<1>2. /\ segs \in Seq(SegmentType) /\ Len(segs) \in Nat /\ s \in Nat /\ e \in Nat /\ s < e
      /\ segs[i] \in SegmentType /\ MaxFreeSegments \in Nat
  BY <1>1, SortedFields, PoolAssumption
<1>3. FramesOf(segs[i]) = s .. e - 1
  BY <1>1 DEF FramesOf
<1>4. f \in Nat /\ s <= f /\ f < e /\ f + 1 \in Nat
  BY <1>2, <1>3
<1>5. f \in FreeSet(segs)
  BY <1>2, FreeSetMembers
<1>6. segs[i] = Segment(f, f + 1) <=> s = f /\ e = f + 1
  <2>1. Segment(f, f + 1).start = f /\ Segment(f, f + 1).end = f + 1
    BY <1>4, SegmentFields
  <2>2. segs[i] = [start |-> s, end |-> e]
    BY <1>1, <1>2 DEF SegmentType
  <2>3. segs[i] = Segment(f, f + 1) => s = f /\ e = f + 1
    BY <1>1, <2>1
  <2>4. s = f /\ e = f + 1 => segs[i] = Segment(f, f + 1)
    BY <2>2 DEF Segment
  <2> QED BY <2>3, <2>4
<1>7. CASE s = f /\ e = f + 1
  <2>1. r = RemoveAt(segs, i)
    <3>1. segs[i] = Segment(f, f + 1) /\ segs[i].start = f /\ segs[i].end = f + 1
      BY <1>1, <1>6, <1>7
    <3> QED BY <3>1 DEF Carve
  <2>2. Sorted(r) /\ Len(r) = Len(segs) - 1 /\ FreeSet(r) = FreeSet(segs) \ FramesOf(segs[i])
    BY <2>1, DropSegment
  <2>3. FramesOf(segs[i]) = {f}
    BY <1>2, <1>3, <1>4, <1>7
  <2> QED BY <1>2, <1>5, <2>2, <2>3
<1>8. CASE s = f /\ e # f + 1
  <2>1. r = [segs EXCEPT ![i].start = f + 1]
    BY <1>1, <1>6, <1>8 DEF Carve
  <2>2. PICK t \in Nat : t = f + 1
    BY <1>4
  <2>3. Edited(segs, r, i, t, e)
    <3>1. r = WithStart(segs, i, t)
      BY <2>1, <2>2 DEF WithStart
    <3> QED BY <1>1, <1>2, <3>1, SetStart
  <2>4. segs[i].start <= t /\ t < e /\ e <= segs[i].end
    BY <1>1, <1>2, <1>4, <1>8, <2>2
  <2>5. Sorted(r) /\ FreeSet(r) = FreeSet(segs) \ (FramesOf(segs[i]) \ (t .. e - 1))
    BY <1>2, <2>2, <2>3, <2>4, NarrowSegment
  <2>6. (s .. e - 1) \ (t .. e - 1) = {f}
    BY <1>2, <1>4, <1>8, <2>2
  <2> QED BY <1>2, <1>3, <1>5, <2>3, <2>5, <2>6 DEF Edited
<1>9. CASE s # f
  <2>1. PICK g : g = WithEnd(segs, i, f)
    OBVIOUS
  <2>0. Edited(segs, g, i, s, f)
    BY <1>1, <1>2, <1>4, <2>1, SetEnd
  <2>2. /\ g \in Seq(SegmentType) /\ Len(g) = Len(segs)
        /\ \A j \in 1 .. Len(segs) : j # i => g[j] = segs[j]
        /\ g[i].start = s /\ g[i].end = f
    BY <2>0 DEF Edited
  <2>3. segs[i].start <= s /\ s < f /\ f <= segs[i].end
    BY <1>1, <1>2, <1>4, <1>9
  <2>4. Sorted(g) /\ FreeSet(g) = FreeSet(segs) \ (FramesOf(segs[i]) \ (s .. f - 1))
    BY <1>2, <1>4, <2>0, <2>3, NarrowSegment
  <2>5. CASE e = f + 1
    <3>1. r = g
      BY <1>1, <1>6, <1>9, <2>1, <2>5 DEF Carve, WithEnd
    <3>2. (s .. e - 1) \ (s .. f - 1) = {f}
      BY <1>2, <1>4, <2>5
    <3> QED BY <1>2, <1>3, <1>5, <2>2, <2>4, <3>1, <3>2
  <2>6. CASE e # f + 1
    <3>1. PICK y : y = Segment(f + 1, e)
      OBVIOUS
    <3>2. y \in SegmentType /\ y.start = f + 1 /\ y.end = e
      BY <1>2, <1>4, <3>1, SegmentFields
    <3>3. r = InsertAt(g, i + 1, y)
      BY <1>1, <1>6, <1>9, <2>1, <2>6, <3>1 DEF Carve, WithEnd
    <3>4. PICK k : k = i + 1
      OBVIOUS
    <3>5. k \in 1 .. Len(g) + 1
      BY <1>2, <2>2, <3>4
    <3>6. Inserted(g, r, k, y)
      BY <2>2, <3>2, <3>3, <3>4, <3>5, InsertIndex
    <3>7. FreeSet(r) = FreeSet(g) \cup FramesOf(y)
      BY <2>2, <3>2, <3>5, <3>6, InsertFrames
    <3>8. Len(segs) < MaxFreeSegments
      BY <1>1, <1>9, <2>6 DEF SplitNeedsRoom, HasRoom
    <3>9. FreeSet(r) = FreeSet(segs) \ {f}
      <4>1. FramesOf(y) = f + 1 .. e - 1
        BY <3>2 DEF FramesOf
      <4>2. f + 1 .. e - 1 \subseteq FreeSet(segs)
        <5>1. f + 1 .. e - 1 \subseteq FramesOf(segs[i])
          BY <1>2, <1>3, <1>4
        <5> QED BY <1>2, <5>1, FreeSetMembers
      <4>3. (s .. e - 1) \ (s .. f - 1) = {f} \cup (f + 1 .. e - 1) /\ f \notin f + 1 .. e - 1
        BY <1>2, <1>4
      <4> QED BY <1>3, <2>4, <3>7, <4>1, <4>2, <4>3
    <3>10. Sorted(r)
      <4>1. /\ \A j \in 1 .. Len(segs) : g[j].start < g[j].end
            /\ \A j, l \in 1 .. Len(segs) : j < l => g[j].end < g[l].start
        BY <2>2, <2>4, SortedFields
      <4>2. ASSUME NEW j \in 1 .. Len(segs), j > i PROVE e < g[j].start
        BY <1>1, <2>2, <4>2, SortedFields
      <4>3. ASSUME NEW j \in 1 .. Len(r)
            PROVE  \/ j < k /\ j \in 1 .. Len(segs) /\ r[j] = g[j]
                   \/ j = k /\ r[j] = y
                   \/ j > k /\ j - 1 \in 1 .. Len(segs) /\ j - 1 > i /\ r[j] = g[j - 1]
        BY <1>2, <2>2, <3>4, <3>5, <3>6 DEF Inserted
      <4>4. \A j \in 1 .. Len(r) : r[j].start < r[j].end
        <5>1. y.start < y.end
          BY <1>2, <1>4, <2>6, <3>2
        <5> QED BY <4>1, <4>3, <5>1
      <4>5. ASSUME NEW j \in 1 .. Len(r), NEW l \in 1 .. Len(r), j < l
            PROVE  r[j].end < r[l].start
        <5>1. j \in Int /\ l \in Int /\ k \in Int /\ i \in Int
          BY <1>2, <2>2, <3>5, <3>6 DEF Inserted
        <5>2. CASE l < k
          <6>1. r[l] = g[l] /\ l \in 1 .. Len(segs) /\ r[j] = g[j] /\ j \in 1 .. Len(segs)
            BY <4>3, <4>5, <5>1, <5>2
          <6> QED BY <4>1, <4>5, <6>1
        <5>3. CASE l = k
          <6>1. j < k /\ r[j] = g[j] /\ j \in 1 .. Len(segs) /\ j <= i /\ r[l] = y
            BY <3>4, <4>3, <4>5, <5>1, <5>3
          <6>2. CASE j = i
            BY <1>4, <2>2, <3>2, <6>1, <6>2
          <6>3. CASE j < i
            <7>1. g[j].end < s
              BY <2>2, <4>1, <6>1, <6>3
            <7>2. g[j].end \in Nat
              BY <2>4, <2>2, <6>1, SortedFields
            <7> QED BY <1>2, <1>4, <3>2, <6>1, <7>1, <7>2
          <6> QED BY <5>1, <6>1, <6>2, <6>3
        <5>4. CASE l > k
          <6>1. r[l] = g[l - 1] /\ l - 1 \in 1 .. Len(segs) /\ l - 1 > i
            BY <4>3, <5>1, <5>4
          <6>2. CASE j < k
            <7>1. r[j] = g[j] /\ j \in 1 .. Len(segs) /\ j < l - 1
              BY <3>4, <4>3, <5>1, <5>4, <6>2
            <7> QED BY <4>1, <6>1, <7>1
          <6>3. CASE j = k
            <7>1. r[j] = y
              BY <4>3, <5>1, <6>3
            <7> QED BY <3>2, <4>2, <6>1, <7>1
          <6>4. CASE j > k
            <7>1. r[j] = g[j - 1] /\ j - 1 \in 1 .. Len(segs) /\ j - 1 < l - 1
              BY <4>3, <4>5, <5>1, <6>4
            <7> QED BY <4>1, <6>1, <7>1
          <6> QED BY <5>1, <6>2, <6>3, <6>4
        <5> QED BY <5>1, <5>2, <5>3, <5>4
      <4>6. DOMAIN r = 1 .. Len(r)
        BY <3>6, LenProperties DEF Inserted
      <4> QED BY <3>6, <4>4, <4>5, <4>6 DEF Sorted, Inserted
    <3>11. Len(r) <= MaxFreeSegments
      BY <1>2, <2>2, <3>6, <3>8 DEF Inserted
    <3> QED BY <1>5, <3>9, <3>10, <3>11
  <2> QED BY <2>5, <2>6
<1> QED BY <1>7, <1>8, <1>9

-----------------------------------------------------------------------------
(* init leaves a sorted table within its array, whatever the memory map.   *)
Tables == {t \in Seq(SegmentType) : Sorted(t) /\ Len(t) <= MaxFreeSegments}
Scans == [table : Tables, from : Nat]

IsScan(f, segs, region) ==
  f = [k \in 0 .. region.end |->
         IF k <= region.start THEN [table |-> segs, from |-> region.start]
         ELSE IF k - 1 \in Reserved
         THEN [table |-> AddRun(f[k - 1].table, f[k - 1].from, k - 1), from |-> k]
         ELSE f[k - 1]]

IsBuild(f) ==
  f = [i \in 0 .. Len(Regions) |-> IF i = 0 THEN <<>> ELSE AddRegion(f[i - 1], Regions[i])]

LEMMA AddRunType ==
  ASSUME NEW segs \in Tables, NEW s \in Nat, NEW e \in Nat
  PROVE  AddRun(segs, s, e) \in Tables
<1>1. Sorted(segs) /\ Len(segs) <= MaxFreeSegments
  BY DEF Tables
<1>2. CASE s < e
  <2>1. /\ Sorted(InsertFree(segs, s, e).segs)
        /\ Len(InsertFree(segs, s, e).segs) <= MaxFreeSegments
    BY <1>1, <1>2, InsertFreeEffect
  <2> QED BY <1>2, <2>1 DEF AddRun, Tables, Sorted
<1>3. CASE ~ (s < e)
  BY <1>3 DEF AddRun
<1> QED BY <1>2, <1>3

LEMMA ScanExists ==
  ASSUME NEW segs \in Tables, NEW region \in SegmentType
  PROVE  \E f : IsScan(f, segs, region)
<1>1. PICK n \in Nat : n = region.end
  BY DEF SegmentType
<1>2. PICK a : a = [table |-> segs, from |-> region.start]
  OBVIOUS
<1>3. a \in Scans /\ region.start \in Nat
  BY <1>2 DEF Scans, SegmentType
<1> DEFINE Step(k, t) == IF k <= region.start THEN a
                         ELSE IF k - 1 \in Reserved
                         THEN [table |-> AddRun(t.table, t.from, k - 1), from |-> k]
                         ELSE t
<1>4. ASSUME NEW k \in 1 .. n, NEW t \in Scans PROVE Step(k, t) \in Scans
  <2>1. k \in Nat /\ k - 1 \in Nat /\ t.table \in Tables /\ t.from \in Nat
    BY DEF Scans
  <2>2. AddRun(t.table, t.from, k - 1) \in Tables
    BY <2>1, AddRunType
  <2> QED BY <1>3, <2>1, <2>2 DEF Scans
<1> HIDE DEF Step
<1>5. PICK step : step = [k \in 1 .. n |-> [t \in Scans |-> Step(k, t)]]
  OBVIOUS
<1>6. step \in [1 .. n -> [Scans -> Scans]]
  BY <1>4, <1>5
<1>7. PICK f \in [0 .. n -> Scans] :
        f[0] = a /\ \A k \in 1 .. n : f[k] = step[k][f[k - 1]]
  <2>1. \E f \in [0 .. n -> Scans] : Follows(f, n, a, step)
    BY <1>3, <1>6, RecursionTo
  <2> QED BY <2>1 DEF Follows
<1>8. ASSUME NEW k \in 0 .. n
      PROVE  f[k] = IF k <= region.start THEN a
                    ELSE IF k - 1 \in Reserved
                    THEN [table |-> AddRun(f[k - 1].table, f[k - 1].from, k - 1), from |-> k]
                    ELSE f[k - 1]
  <2>1. CASE k = 0
    BY <1>3, <1>7, <2>1
  <2>2. CASE k # 0
    <3>1. k \in 1 .. n /\ f[k - 1] \in Scans
      BY <1>7, <2>2
    <3>2. f[k] = Step(k, f[k - 1])
      BY <1>5, <1>7, <3>1
    <3> QED BY <3>2 DEF Step
  <2> QED BY <2>1, <2>2
<1>9. f = [k \in 0 .. n |-> f[k]]
  BY <1>7
<1>10. IsScan(f, segs, region)
  BY <1>1, <1>2, <1>8, <1>9 DEF IsScan
<1> QED BY <1>10

LEMMA AddRegionType ==
  ASSUME NEW segs \in Tables, NEW region \in SegmentType
  PROVE  AddRegion(segs, region) \in Tables
<1> DEFINE before == CHOOSE f : IsScan(f, segs, region)
<1>1. IsScan(before, segs, region)
  BY ScanExists
<1>2. AddRegion(segs, region) =
        AddRun(before[region.end].table, before[region.end].from, region.end)
  BY DEF AddRegion, IsScan
<1> HIDE DEF before
<1>3. PICK n \in Nat : n = region.end
  BY DEF SegmentType
<1>4. region.start \in Nat /\ [table |-> segs, from |-> region.start] \in Scans
  BY DEF SegmentType, Scans
<1>5. ASSUME NEW k \in 0 .. n
      PROVE  before[k] =
               IF k <= region.start THEN [table |-> segs, from |-> region.start]
               ELSE IF k - 1 \in Reserved
               THEN [table |-> AddRun(before[k - 1].table, before[k - 1].from, k - 1), from |-> k]
               ELSE before[k - 1]
  BY <1>1, <1>3 DEF IsScan
<1>6. before[0] \in Scans
  <2>1. 0 \in 0 .. n /\ 0 <= region.start
    BY <1>4
  <2> QED BY <1>4, <1>5, <2>1
<1>7. ASSUME NEW k \in 1 .. n, before[k - 1] \in Scans PROVE before[k] \in Scans
  <2>1. /\ k \in Nat /\ k - 1 \in Nat /\ k \in 0 .. n
        /\ before[k - 1].table \in Tables /\ before[k - 1].from \in Nat
    BY <1>7 DEF Scans
  <2>2. AddRun(before[k - 1].table, before[k - 1].from, k - 1) \in Tables
    BY <2>1, AddRunType
  <2>3. [table |-> AddRun(before[k - 1].table, before[k - 1].from, k - 1), from |-> k] \in Scans
    BY <2>1, <2>2 DEF Scans
  <2> QED BY <1>4, <1>5, <1>7, <2>1, <2>3
<1>8. before[n] \in Scans
  <2>1. StaysIn(before, n, Scans)
    BY <1>6, <1>7 DEF StaysIn
  <2>2. n \in 0 .. n
    OBVIOUS
  <2> QED BY <2>1, <2>2, InductionTo
<1>9. before[n].table \in Tables /\ before[n].from \in Nat
  BY <1>8 DEF Scans
<1> QED BY <1>2, <1>3, <1>9, AddRunType

LEMMA EmptyTable == <<>> \in Tables
<1>1. <<>> \in Seq(SegmentType) /\ Len(<<>>) = 0
  BY EmptySeq
<1>2. DOMAIN <<>> = {}
  OBVIOUS
<1>3. 0 <= MaxFreeSegments
  BY PoolAssumption
<1> QED BY <1>1, <1>2, <1>3 DEF Tables, Sorted

LEMMA RegionFacts ==
  /\ Len(Regions) \in Nat
  /\ \A i \in 1 .. Len(Regions) : Regions[i] \in SegmentType
<1>1. Regions \in Seq(SegmentType)
  BY PoolAssumption DEF SegmentType
<1> QED BY <1>1, LenProperties, ElementOfSeq

LEMMA BuildExists == \E f : IsBuild(f)
<1>1. PICK n \in Nat : n = Len(Regions)
  BY RegionFacts
<1>2. PICK step : step = [k \in 1 .. n |-> [t \in Tables |-> AddRegion(t, Regions[k])]]
  OBVIOUS
<1>3. step \in [1 .. n -> [Tables -> Tables]]
  BY <1>1, <1>2, AddRegionType, RegionFacts
<1>4. PICK a : a = <<>>
  OBVIOUS
<1>5. PICK f \in [0 .. n -> Tables] :
        f[0] = a /\ \A k \in 1 .. n : f[k] = step[k][f[k - 1]]
  <2>1. a \in Tables
    BY <1>4, EmptyTable
  <2>2. \E f \in [0 .. n -> Tables] : Follows(f, n, a, step)
    BY <1>3, <2>1, RecursionTo
  <2> QED BY <2>2 DEF Follows
<1>6. ASSUME NEW k \in 0 .. n
      PROVE  f[k] = IF k = 0 THEN <<>> ELSE AddRegion(f[k - 1], Regions[k])
  <2>1. CASE k = 0
    BY <1>4, <1>5, <2>1
  <2>2. CASE k # 0
    <3>1. k \in 1 .. n /\ f[k - 1] \in Tables
      BY <1>5, <2>2
    <3> QED BY <1>2, <1>5, <2>2, <3>1
  <2> QED BY <2>1, <2>2
<1>7. f = [k \in 0 .. n |-> f[k]]
  BY <1>5
<1>8. IsBuild(f)
  BY <1>1, <1>6, <1>7 DEF IsBuild
<1> QED BY <1>8

LEMMA InitialTable == InitialSegments \in Tables
<1> DEFINE after == CHOOSE f : IsBuild(f)
<1>1. IsBuild(after)
  BY BuildExists
<1>2. InitialSegments = after[Len(Regions)]
  BY DEF InitialSegments, IsBuild
<1> HIDE DEF after
<1>3. PICK n \in Nat : n = Len(Regions)
  BY RegionFacts
<1>4. ASSUME NEW k \in 0 .. n
      PROVE  after[k] = IF k = 0 THEN <<>> ELSE AddRegion(after[k - 1], Regions[k])
  BY <1>1, <1>3 DEF IsBuild
<1>5. after[0] \in Tables
  BY <1>4, EmptyTable
<1>6. ASSUME NEW k \in 1 .. n, after[k - 1] \in Tables PROVE after[k] \in Tables
  <2>1. k \in 0 .. n /\ k # 0 /\ Regions[k] \in SegmentType
    BY <1>3, RegionFacts
  <2> QED BY <1>4, <1>6, <2>1, AddRegionType
<1>7. StaysIn(after, n, Tables)
  BY <1>5, <1>6 DEF StaysIn
<1>8. n \in 0 .. n
  OBVIOUS
<1> QED BY <1>2, <1>3, <1>7, <1>8, InductionTo

LEMMA FreeSetFinite ==
  ASSUME NEW segs, Sorted(segs)
  PROVE  IsFiniteSet(FreeSet(segs)) /\ FreeSet(segs) \subseteq Nat
<1>1. /\ segs \in Seq(SegmentType) /\ Len(segs) \in Nat
      /\ \A i \in 1 .. Len(segs) : /\ segs[i] \in SegmentType /\ segs[i].start \in Nat
                                   /\ segs[i].end \in Nat /\ segs[i].start < segs[i].end
      /\ \A i, j \in 1 .. Len(segs) : i < j => segs[i].end < segs[j].start
  BY SortedFields
<1>2. PICK n \in Nat : \A i \in 1 .. Len(segs) : segs[i].end <= n
  <2>1. CASE Len(segs) = 0
    BY <2>1
  <2>2. CASE Len(segs) # 0
    <3>1. Len(segs) \in 1 .. Len(segs) /\ segs[Len(segs)].end \in Nat
      BY <1>1, <2>2
    <3>2. ASSUME NEW i \in 1 .. Len(segs) PROVE segs[i].end <= segs[Len(segs)].end
      <4>1. i = Len(segs) \/ (/\ segs[i].end < segs[Len(segs)].start
                              /\ segs[Len(segs)].start < segs[Len(segs)].end)
        BY <1>1, <3>1
      <4> QED BY <1>1, <3>1, <4>1
    <3> QED BY <3>1, <3>2
  <2> QED BY <2>1, <2>2
<1>3. ASSUME NEW x \in FreeSet(segs) PROVE x \in 0 .. n
  <2>1. PICK i \in 1 .. Len(segs) : x \in FramesOf(segs[i])
    BY <1>1, FreeSetMembers
  <2>2. x \in Nat /\ x < segs[i].end
    BY <1>1, <2>1, FramesMembers
  <2> QED BY <1>1, <1>2, <2>2
<1>4. FreeSet(segs) \in SUBSET (0 .. n) /\ IsFiniteSet(0 .. n)
  BY <1>3, FS_Interval
<1>5. IsFiniteSet(FreeSet(segs))
  BY <1>4, FS_Subset
<1> QED BY <1>4, <1>5

LEMMA ManagedFacts ==
  /\ IsFiniteSet(Managed) /\ Managed \subseteq Nat /\ total \in Nat
<1>1. Sorted(InitialSegments)
  BY InitialTable DEF Tables
<1>2. IsFiniteSet(Managed) /\ Managed \subseteq Nat
  BY <1>1, FreeSetFinite DEF Managed
<1> QED BY <1>2, FS_CardinalityType DEF total

-----------------------------------------------------------------------------
(* The invariant: the table is sorted and fits its array, the counter is   *)
(* the number of frames in it, and every managed frame is free, held or    *)
(* lost, and only one of them.  The last part is what makes a frame that   *)
(* comes back one that is held.                                            *)
IInv ==
  /\ Sorted(segments) /\ Len(segments) <= MaxFreeSegments
  /\ freeFrames = Cardinality(FreeSet(segments))
  /\ FreeSet(segments) \cup held \cup lost = Managed
  /\ FreeSet(segments) \cap held = {}
  /\ FreeSet(segments) \cap lost = {}
  /\ held \cap lost = {}

(* A step that hands out the frames S.                                     *)
Took(S) ==
  /\ S # {} /\ S \subseteq FreeSet(segments)
  /\ Sorted(segments') /\ Len(segments') <= MaxFreeSegments
  /\ FreeSet(segments') = FreeSet(segments) \ S
  /\ freeFrames' = freeFrames - Cardinality(S)
  /\ held' = held \cup S
  /\ lost' = lost

LEMMA TableFacts ==
  ASSUME IInv
  PROVE  /\ segments \in Seq(SegmentType) /\ Len(segments) \in Nat
         /\ DOMAIN segments = 1 .. Len(segments)
         /\ MaxFreeSegments \in Nat
         /\ \A i \in 1 .. Len(segments) :
              /\ segments[i] \in SegmentType /\ segments[i].start \in Nat
              /\ segments[i].end \in Nat /\ segments[i].start < segments[i].end
<1>1. Sorted(segments)
  BY DEF IInv
<1> QED BY <1>1, SortedFields, LenProperties, PoolAssumption

(* What alloc_frame and alloc_contiguous_run have in common.               *)
FrontFrames(i, n) == segments[i].start .. segments[i].start + n - 1

LEMMA FrontTaken ==
  ASSUME IInv, NEW i \in 1 .. Len(segments), NEW n \in Nat \ {0},
         segments[i].start + n <= segments[i].end,
         Take(ConsumeFront(segments, i, n), FrontFrames(i, n))
  PROVE  Took(FrontFrames(i, n))
<1> DEFINE S == FrontFrames(i, n)
<1>1. PICK r : r = ConsumeFront(segments, i, n)
  OBVIOUS
<1>2. Sorted(segments) /\ Len(segments) <= MaxFreeSegments
  BY DEF IInv
<1>3. /\ Sorted(r) /\ Len(r) <= Len(segments)
      /\ S \subseteq FreeSet(segments) /\ FreeSet(r) = FreeSet(segments) \ S
  BY <1>1, <1>2, ConsumeFrontEffect DEF FrontFrames
<1>4. segments[i].start \in S
  BY TableFacts DEF FrontFrames
<1> HIDE DEF S
<1>5. Len(r) \in Nat /\ Len(r) <= MaxFreeSegments
  BY <1>2, <1>3, TableFacts, SortedFields
<1>6. /\ segments' = r /\ freeFrames' = freeFrames - Cardinality(S)
      /\ held' = held \cup S /\ lost' = lost
  BY <1>1 DEF Take, S
<1>7. Took(S)
  BY <1>3, <1>4, <1>5, <1>6 DEF Took
<1> QED BY <1>7 DEF S

LEMMA AllocFrameTakes ==
  ASSUME IInv, AllocFrame PROVE \E S : Took(S)
<1>1. 1 \in 1 .. Len(segments)
  <2>1. Len(segments) # 0
    BY TableFacts, EmptySeq DEF AllocFrame
  <2> QED BY <2>1, TableFacts
<1>2. segments[1].start \in Nat /\ segments[1].start + 1 <= segments[1].end
  BY <1>1, TableFacts
<1>3. FrontFrames(1, 1) = {segments[1].start}
  BY <1>2 DEF FrontFrames
<1>4. Take(ConsumeFront(segments, 1, 1), FrontFrames(1, 1))
  BY <1>3 DEF AllocFrame
<1>5. 1 \in Nat \ {0}
  OBVIOUS
<1>6. Took(FrontFrames(1, 1))
  BY <1>1, <1>2, <1>4, <1>5, FrontTaken
<1> QED BY <1>6

LEMMA AllocRunTakes ==
  ASSUME IInv, NEW n \in 1 .. MaxRun, AllocRun(n) PROVE \E S : Took(S)
<1>1. PICK i \in 1 .. Len(segments) :
        /\ Cardinality(FramesOf(segments[i])) >= n
        /\ Take(ConsumeFront(segments, i, n), FrontFrames(i, n))
  BY TableFacts DEF AllocRun, FrontFrames
<1>2. PICK s \in Nat, e \in Nat : s = segments[i].start /\ e = segments[i].end
  BY TableFacts
<1>3. n \in Nat \ {0}
  BY PoolAssumption
<1>4. Cardinality(FramesOf(segments[i])) = IF s > e - 1 THEN 0 ELSE e - 1 - s + 1
  <2>1. FramesOf(segments[i]) = s .. e - 1
    BY <1>2 DEF FramesOf
  <2>2. s \in Int /\ e - 1 \in Int
    OBVIOUS
  <2> QED BY <2>1, <2>2, FS_Interval
<1>5. s + n <= e
  BY <1>1, <1>3, <1>4
<1>6. Took(FrontFrames(i, n))
  BY <1>1, <1>2, <1>3, <1>5, FrontTaken
<1> QED BY <1>6

LEMMA ClaimFrameTakes ==
  ASSUME IInv, NEW f, ClaimFrame(f) PROVE \E S : Took(S)
<1>1. PICK i \in 1 .. Len(segments) :
        /\ f \in FramesOf(segments[i])
        /\ SplitNeedsRoom(segments, i, f) => HasRoom(segments)
        /\ Take(Carve(segments, i, f), {f})
  BY TableFacts DEF ClaimFrame
<1>2. PICK r : r = Carve(segments, i, f)
  OBVIOUS
<1>3. Sorted(segments) /\ Len(segments) <= MaxFreeSegments
  BY DEF IInv
<1>4. /\ Sorted(r) /\ Len(r) <= MaxFreeSegments
      /\ f \in FreeSet(segments) /\ FreeSet(r) = FreeSet(segments) \ {f}
  BY <1>1, <1>2, <1>3, CarveEffect
<1>5. /\ segments' = r /\ freeFrames' = freeFrames - Cardinality({f})
      /\ held' = held \cup {f} /\ lost' = lost
  BY <1>1, <1>2 DEF Take
<1>6. Took({f})
  BY <1>4, <1>5 DEF Took
<1> QED BY <1>6

LEMMA TookKeeps ==
  ASSUME IInv, NEW S, Took(S) PROVE IInv' /\ Frames!Alloc(S)
<1>1. IsFiniteSet(FreeSet(segments)) /\ IsFiniteSet(S)
  BY FreeSetFinite, FS_Subset DEF IInv, Took
<1>2. Cardinality(FreeSet(segments')) = Cardinality(FreeSet(segments)) - Cardinality(S)
  <2>1. FreeSet(segments) \cap S = S
    BY DEF Took
  <2>2. FreeSet(segments') = FreeSet(segments) \ S
    BY DEF Took
  <2> QED BY <1>1, <2>1, <2>2, FS_Difference
<1>3. freeFrames' = Cardinality(FreeSet(segments'))
  BY <1>2 DEF Took, IInv
<1>4. /\ FreeSet(segments') \cup held' \cup lost' = Managed
      /\ FreeSet(segments') \cap held' = {}
      /\ FreeSet(segments') \cap lost' = {}
      /\ held' \cap lost' = {}
  BY DEF Took, IInv
<1>5. IInv'
  BY <1>3, <1>4 DEF Took, IInv
<1>6. Frames!Alloc(S)
  BY DEF Took, Frames!Alloc
<1> QED BY <1>5, <1>6

LEMMA DeallocKeeps ==
  ASSUME IInv, NEW f \in (Managed \ lost) \cup Reserved, DeallocFrame(f)
  PROVE  IInv' /\ f \in held /\ (Frames!Return(f) \/ Frames!Lose(f))
<1>1. f \in Managed /\ f \notin lost /\ f \in Nat
  BY ManagedFacts DEF DeallocFrame
<1>2. f \notin FreeSet(segments)
  BY TableFacts, FreeSetMembers DEF DeallocFrame
<1>3. f \in held
  BY <1>1, <1>2 DEF IInv
<1>4. PICK r : r = InsertFree(segments, f, f + 1)
  OBVIOUS
<1>5. /\ r.ok \in BOOLEAN
      /\ Sorted(r.segs) /\ Len(r.segs) <= MaxFreeSegments
      /\ r.ok => FreeSet(r.segs) = FreeSet(segments) \cup {f}
  <2>1. PICK e \in Nat : e = f + 1
    BY <1>1
  <2>2. Sorted(segments) /\ Len(segments) <= MaxFreeSegments /\ f < e
    BY <1>1, <2>1 DEF IInv
  <2>3. r = InsertFree(segments, f, e)
    BY <1>4, <2>1
  <2>4. /\ r.ok \in BOOLEAN
        /\ Sorted(r.segs) /\ Len(r.segs) <= MaxFreeSegments
        /\ r.ok => FreeSet(r.segs) = FreeSet(segments) \cup (f .. e - 1)
    BY <1>1, <2>2, <2>3, InsertFreeEffect
  <2>5. f .. e - 1 = {f}
    BY <1>1, <2>1
  <2> QED BY <2>4, <2>5
<1>6. CASE r.ok
  <2>1. /\ segments' = r.segs /\ freeFrames' = freeFrames + 1
        /\ held' = held \ {f} /\ lost' = lost
    BY <1>4, <1>6 DEF DeallocFrame
  <2>2. FreeSet(segments') = FreeSet(segments) \cup {f}
    BY <1>5, <1>6, <2>1
  <2>3. Cardinality(FreeSet(segments')) = Cardinality(FreeSet(segments)) + 1
    <3>1. IsFiniteSet(FreeSet(segments))
      BY FreeSetFinite DEF IInv
    <3> QED BY <1>2, <2>2, <3>1, FS_AddElement
  <2>4. freeFrames' = Cardinality(FreeSet(segments'))
    BY <2>1, <2>3 DEF IInv
  <2>5. /\ FreeSet(segments') \cup held' \cup lost' = Managed
        /\ FreeSet(segments') \cap held' = {}
        /\ FreeSet(segments') \cap lost' = {}
        /\ held' \cap lost' = {}
    BY <1>1, <1>3, <2>1, <2>2 DEF IInv
  <2>6. IInv'
    BY <1>5, <2>1, <2>4, <2>5 DEF IInv
  <2>7. Frames!Return(f)
    BY <1>3, <2>1, <2>2 DEF Frames!Return
  <2> QED BY <1>3, <2>6, <2>7
<1>7. CASE ~ r.ok
  <2>1. /\ segments' = segments /\ freeFrames' = freeFrames
        /\ held' = held \ {f} /\ lost' = lost \cup {f}
    BY <1>4, <1>7 DEF DeallocFrame
  <2>2. FreeSet(segments') = FreeSet(segments)
    BY <2>1
  <2>3. /\ FreeSet(segments) \cup held' \cup lost' = Managed
        /\ FreeSet(segments) \cap held' = {}
        /\ FreeSet(segments) \cap lost' = {}
        /\ held' \cap lost' = {}
    BY <1>1, <1>2, <1>3, <2>1 DEF IInv
  <2>4. IInv'
    BY <2>1, <2>2, <2>3 DEF IInv
  <2>5. Frames!Lose(f)
    BY <1>3, <2>1, <2>2 DEF Frames!Lose
  <2> QED BY <1>3, <2>4, <2>5
<1> QED BY <1>5, <1>6, <1>7

LEMMA StepKeeps ==
  ASSUME IInv, [Next]_vars
  PROVE  IInv' /\ [Frames!Next]_<<FreeSet(segments), held, lost>>
<1>1. CASE UNCHANGED vars
  <2>1. segments' = segments /\ freeFrames' = freeFrames /\ held' = held /\ lost' = lost
    BY <1>1 DEF vars
  <2> QED BY <2>1 DEF IInv
<1>2. ASSUME NEW S, Took(S)
      PROVE  IInv' /\ [Frames!Next]_<<FreeSet(segments), held, lost>>
  <2>1. IInv' /\ Frames!Alloc(S) /\ S \in SUBSET FreeSet(segments)
    BY <1>2, TookKeeps DEF Took
  <2> QED BY <2>1 DEF Frames!Next
<1>3. CASE AllocFrame
  BY <1>2, <1>3, AllocFrameTakes
<1>4. ASSUME NEW n \in 1 .. MaxRun, AllocRun(n)
      PROVE  IInv' /\ [Frames!Next]_<<FreeSet(segments), held, lost>>
  BY <1>2, <1>4, AllocRunTakes
<1>5. ASSUME NEW f \in Managed, ClaimFrame(f)
      PROVE  IInv' /\ [Frames!Next]_<<FreeSet(segments), held, lost>>
  BY <1>2, <1>5, ClaimFrameTakes
<1>6. ASSUME NEW f \in (Managed \ lost) \cup Reserved, DeallocFrame(f)
      PROVE  IInv' /\ [Frames!Next]_<<FreeSet(segments), held, lost>>
  BY <1>6, DeallocKeeps DEF Frames!Next
<1> QED BY <1>1, <1>3, <1>4, <1>5, <1>6 DEF Next

LEMMA Initially == Init => IInv
<1> SUFFICES ASSUME Init PROVE IInv
  OBVIOUS
<1>1. Sorted(segments) /\ Len(segments) <= MaxFreeSegments
  BY InitialTable DEF Init, Tables
<1>2. FreeSet(segments) = Managed
  BY DEF Init, Managed
<1>3. freeFrames = Cardinality(FreeSet(segments)) /\ held = {} /\ lost = {}
  BY <1>2 DEF Init, total
<1> QED BY <1>1, <1>2, <1>3 DEF IInv

LEMMA InvariantImplies == IInv => TypeOK /\ TableCanonical
<1> SUFFICES ASSUME IInv PROVE TypeOK /\ TableCanonical
  OBVIOUS
<1>1. Sorted(segments) /\ Len(segments) <= MaxFreeSegments
  BY DEF IInv
<1>2. segments \in Seq([start : Nat, end : Nat])
  BY <1>1 DEF Sorted, SegmentType
<1>3. freeFrames \in 0 .. total
  <2>1. IsFiniteSet(Managed) /\ FreeSet(segments) \in SUBSET Managed
    BY ManagedFacts DEF IInv
  <2>2. /\ IsFiniteSet(FreeSet(segments))
        /\ Cardinality(FreeSet(segments)) <= Cardinality(Managed)
    BY <2>1, FS_Subset
  <2>3. Cardinality(FreeSet(segments)) \in Nat
    BY <2>2, FS_CardinalityType
  <2>4. freeFrames \in Nat /\ freeFrames <= total
    BY <2>2, <2>3 DEF IInv, total
  <2> QED BY <2>4, ManagedFacts
<1>4. held \subseteq Managed /\ lost \subseteq Managed
  BY DEF IInv
<1>5. TypeOK
  BY <1>1, <1>2, <1>3, <1>4 DEF TypeOK
<1>6. TableCanonical
  BY <1>1 DEF TableCanonical, Sorted, IInv
<1> QED BY <1>5, <1>6

THEOREM Invariance == Spec => []IInv
<1>1. IInv /\ [Next]_vars => IInv'
  BY StepKeeps
<1> QED BY <1>1, Initially, PTL DEF Spec

(* Every variable is of its kind: the table never outgrows its array, and  *)
(* clients hold and lose only managed frames.                              *)
THEOREM PoolTypeCorrect == Spec => []TypeOK
BY Invariance, InvariantImplies, PTL

(* The table of free segments stays sorted, without neighbours left apart, *)
(* and the counter of free frames agrees with it.                          *)
THEOREM TableStaysCanonical == Spec => []TableCanonical
BY Invariance, InvariantImplies, PTL

(* Clients may reason with a set of frames: none is handed out twice, and  *)
(* only a held frame comes back or is lost.                                *)
THEOREM PoolIsFreeFrames == Spec => ImplementsFreeFrames
<1>1. Init => Frames!Init
  BY DEF Init, Frames!Init, Managed
<1>2. IInv /\ [Next]_vars => [Frames!Next]_<<FreeSet(segments), held, lost>>
  BY StepKeeps
<1> QED BY <1>1, <1>2, Invariance, PTL DEF Spec, ImplementsFreeFrames, Frames!Spec
=============================================================================
