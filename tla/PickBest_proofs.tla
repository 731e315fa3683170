--------------------------- MODULE PickBest_proofs --------------------------
(***************************************************************************)
(* Versions are totally ordered, the comparison of the code is that order, *)
(* a range is the interval the comments give, and one pass over a registry *)
(* finds the highest version in it: for all versions, tags of any length   *)
(* included.                                                               *)
(***************************************************************************)
EXTENDS PickBest, WellFoundedInduction, TLAPS

-----------------------------------------------------------------------------
(* Pre-release tags *)

\* A set of natural numbers has a least one.
LEMMA LeastNumber ==
  ASSUME NEW T, T \subseteq Nat, T # {}
  PROVE  \E x \in T : \A y \in T : x <= y
<1>1. PICK x \in T : \A y \in T : <<y, x>> \notin OpToRel(<, Nat)
  BY WFMin, NatLessThanWellFounded, Zenon
<1>2. ASSUME NEW y \in T
      PROVE  x <= y
  <2>1. <<y, x>> \in Nat \X Nat /\ <<y, x>>[1] = y /\ <<y, x>>[2] = x
    OBVIOUS
  <2>2. ~(<<y, x>>[1] < <<y, x>>[2])
    BY <1>1, <2>1 DEF OpToRel
  <2> QED
    BY <2>1, <2>2
<1> QED
  BY <1>2

\* The code's comparison of segments is their order, which is total.
LEMMA SegmentsOrdered ==
  ASSUME NEW a \in Segment, NEW b \in Segment
  PROVE  /\ CmpSegment(a, b) \in {-1, 0, 1}
         /\ CmpSegment(a, b) = -1 <=> SegmentLess(a, b)
         /\ CmpSegment(a, b) = 1 <=> SegmentLess(b, a)
         /\ CmpSegment(a, b) = 0 <=> a = b
         /\ ~(SegmentLess(a, b) /\ SegmentLess(b, a))
         /\ ~SegmentLess(a, a)
<1>1. /\ a = <<a[1], a[2]>> /\ a[1] \in {0, 1} /\ a[2] \in Nat
      /\ b = <<b[1], b[2]>> /\ b[1] \in {0, 1} /\ b[2] \in Nat
  BY DEF Segment
<1>2. a = b <=> a[1] = b[1] /\ a[2] = b[2]
  BY <1>1
<1> QED
  BY <1>1, <1>2 DEF CmpSegment, Sign, SegmentLess

\* The order of segments is transitive.
LEMMA SegmentLessTransitive ==
  ASSUME NEW a \in Segment, NEW b \in Segment, NEW c \in Segment,
         SegmentLess(a, b), SegmentLess(b, c)
  PROVE  SegmentLess(a, c)
  BY DEF Segment, SegmentLess

\* Tags a and b agree before place d, where at least one goes on, and not the
\* same way.
ParAt(a, b, d) ==
    /\ d \in Nat \ {0}
    /\ \A k \in 1..(d - 1) : k <= Len(a) /\ k <= Len(b) /\ a[k] = b[k]
    /\ d <= Len(a) \/ d <= Len(b)
    /\ d <= Len(a) /\ d <= Len(b) => a[d] # b[d]

\* Tags that are not equal part somewhere.
LEMMA TagsPart ==
  ASSUME NEW a \in Seq(Segment), NEW b \in Seq(Segment), a # b
  PROVE  \E d \in Nat : ParAt(a, b, d)
<1> DEFINE Off == {k \in Nat \ {0} :
                     /\ k <= Len(a) \/ k <= Len(b)
                     /\ k <= Len(a) /\ k <= Len(b) => a[k] # b[k]}
<1>1. Len(a) \in Nat /\ Len(b) \in Nat
  OBVIOUS
<1>2. Off # {}
  <2>1. CASE Len(a) < Len(b)
    <3>1. Len(b) \in Off
      BY <1>1, <2>1
    <3> QED
      BY <3>1
  <2>2. CASE Len(b) < Len(a)
    <3>1. Len(a) \in Off
      BY <1>1, <2>2
    <3> QED
      BY <3>1
  <2>3. CASE Len(a) = Len(b)
    <3>1. PICK k \in 1..Len(a) : a[k] # b[k]
      BY <2>3
    <3>2. k \in Off
      BY <1>1, <2>3, <3>1
    <3> QED
      BY <3>2
  <2> QED
    BY <1>1, <2>1, <2>2, <2>3
<1>3. PICK d \in Off : \A k \in Off : d <= k
  BY <1>2, LeastNumber
<1>4. ASSUME NEW k \in 1..(d - 1)
      PROVE  k <= Len(a) /\ k <= Len(b) /\ a[k] = b[k]
  <2>1. k \notin Off
    BY <1>3
  <2>2. d <= Len(a) \/ d <= Len(b)
    BY <1>3
  <2> QED
    BY <1>1, <2>1, <2>2
<1> QED
  BY <1>3, <1>4 DEF ParAt

\* They part at one place only.
LEMMA PartOnce ==
  ASSUME NEW a \in Seq(Segment), NEW b \in Seq(Segment),
         NEW d, ParAt(a, b, d), NEW e, ParAt(a, b, e)
  PROVE  d = e
<1>1. Len(a) \in Nat /\ Len(b) \in Nat /\ d \in Nat /\ e \in Nat
  BY DEF ParAt
<1>2. ~(d < e)
  BY <1>1 DEF ParAt
<1>3. ~(e < d)
  BY <1>1 DEF ParAt
<1> QED
  BY <1>1, <1>2, <1>3

\* Where they part decides which is lower.
LEMMA PreLessAt ==
  ASSUME NEW a \in Seq(Segment), NEW b \in Seq(Segment), NEW d, ParAt(a, b, d)
  PROVE  PreLess(a, b) <=>
            d <= Len(b) /\ (d <= Len(a) => SegmentLess(a[d], b[d]))
<1>1. Len(a) \in Nat /\ Len(b) \in Nat /\ d \in Nat \ {0}
  BY DEF ParAt
<1>2. ASSUME NEW k \in 1..Len(b),
             \A j \in 1..(k - 1) : j <= Len(a) /\ a[j] = b[j],
             k <= Len(a) => SegmentLess(a[k], b[k])
      PROVE  k = d
  <2>1. k <= Len(a) => a[k] # b[k]
    BY <1>2, SegmentsOrdered
  <2>2. ParAt(a, b, k)
    BY <1>1, <1>2, <2>1 DEF ParAt
  <2> QED
    BY <2>2, PartOnce
<1>3. ASSUME d <= Len(b), d <= Len(a) => SegmentLess(a[d], b[d])
      PROVE  PreLess(a, b)
  <2>1. d \in 1..Len(b) /\ \A j \in 1..(d - 1) : j <= Len(a) /\ a[j] = b[j]
    BY <1>1, <1>3 DEF ParAt
  <2> QED
    BY <1>3, <2>1 DEF PreLess
<1>4. ASSUME PreLess(a, b)
      PROVE  d <= Len(b) /\ (d <= Len(a) => SegmentLess(a[d], b[d]))
  <2>1. PICK k \in 1..Len(b) :
            /\ \A j \in 1..(k - 1) : j <= Len(a) /\ a[j] = b[j]
            /\ k <= Len(a) => SegmentLess(a[k], b[k])
    BY <1>4 DEF PreLess
  <2>2. k = d
    BY <1>2, <2>1
  <2> QED
    BY <1>1, <2>1, <2>2
<1> QED
  BY <1>3, <1>4

\* They part where they part, whichever is named first.
LEMMA ParSwapped ==
  ASSUME NEW a, NEW b, NEW d, ParAt(a, b, d)
  PROVE  ParAt(b, a, d)
  BY DEF ParAt

\* cmp_prerelease compares where they part.
LEMMA CmpPrereleaseAt ==
  ASSUME NEW a \in Seq(Segment), NEW b \in Seq(Segment), NEW d, ParAt(a, b, d)
  PROVE  CmpPrerelease(a, b) =
            IF d > Len(a) THEN -1 ELSE IF d > Len(b) THEN 1
            ELSE CmpSegment(a[d], b[d])
<1> DEFINE Differ(k) == k \notin DOMAIN a \/ k \notin DOMAIN b \/ CmpSegment(a[k], b[k]) # 0
           places == DOMAIN a \cup DOMAIN b
           first == CHOOSE k \in places : Differ(k) /\ \A j \in 1..(k - 1) : ~Differ(j)
<1>1. /\ Len(a) \in Nat /\ Len(b) \in Nat /\ d \in Nat \ {0}
      /\ DOMAIN a = 1..Len(a) /\ DOMAIN b = 1..Len(b)
      /\ \A k \in 1..Len(a) : a[k] \in Segment
      /\ \A k \in 1..Len(b) : b[k] \in Segment
  BY DEF ParAt
<1>2. \A k \in Nat \ {0} :
         Differ(k) <=> (k <= Len(a) /\ k <= Len(b) => a[k] # b[k])
  <2> SUFFICES ASSUME NEW k \in Nat \ {0}
               PROVE  Differ(k) <=> (k <= Len(a) /\ k <= Len(b) => a[k] # b[k])
    OBVIOUS
  <2>1. CASE k <= Len(a) /\ k <= Len(b)
    <3>1. k \in DOMAIN a /\ k \in DOMAIN b /\ a[k] \in Segment /\ b[k] \in Segment
      BY <1>1, <2>1
    <3> QED
      BY <2>1, <3>1, SegmentsOrdered
  <2>2. CASE ~(k <= Len(a) /\ k <= Len(b))
    BY <1>1, <2>2
  <2> QED
    BY <2>1, <2>2
<1>3. \A k \in places : k \in Nat \ {0} /\ (k <= Len(a) \/ k <= Len(b))
  BY <1>1
<1> HIDE DEF Differ
<1>4. d \in places /\ Differ(d) /\ \A j \in 1..(d - 1) : ~Differ(j)
  BY <1>1, <1>2 DEF ParAt
<1>5. ASSUME NEW k \in places, Differ(k), \A j \in 1..(k - 1) : ~Differ(j)
      PROVE  k = d
  <2>1. k \in Nat
    BY <1>3
  <2>2. ~(k < d) /\ ~(d < k)
    BY <1>1, <1>3, <1>4, <1>5
  <2> QED
    BY <1>1, <2>1, <2>2
<1>6. first = d
  BY <1>4, <1>5
<1>7. ~\A k \in places : ~Differ(k)
  BY <1>4
<1>8. CmpPrerelease(a, b) =
         IF \A k \in places : ~Differ(k) THEN 0
         ELSE IF first \notin DOMAIN a THEN -1
         ELSE IF first \notin DOMAIN b THEN 1
         ELSE CmpSegment(a[first], b[first])
  BY DEF CmpPrerelease, Differ
<1>9. CmpPrerelease(a, b) =
         IF d \notin DOMAIN a THEN -1 ELSE IF d \notin DOMAIN b THEN 1
         ELSE CmpSegment(a[d], b[d])
  BY <1>6, <1>7, <1>8
<1> QED
  BY <1>1, <1>9

\* The code's comparison of tags is their order, which is total.
LEMMA TagsOrdered ==
  ASSUME NEW a \in Seq(Segment), NEW b \in Seq(Segment)
  PROVE  /\ CmpPrerelease(a, b) \in {-1, 0, 1}
         /\ CmpPrerelease(a, b) = -1 <=> PreLess(a, b)
         /\ CmpPrerelease(a, b) = 1 <=> PreLess(b, a)
         /\ CmpPrerelease(a, b) = 0 <=> a = b
         /\ ~(PreLess(a, b) /\ PreLess(b, a))
         /\ ~PreLess(a, a)
<1>1. Len(a) \in Nat /\ Len(b) \in Nat
  OBVIOUS
<1>2. ~PreLess(a, a)
  BY <1>1, SegmentsOrdered DEF PreLess
<1>3. CmpPrerelease(a, a) = 0
  <2>1. \A k \in DOMAIN a : k \in DOMAIN a /\ CmpSegment(a[k], a[k]) = 0
    BY SegmentsOrdered
  <2> QED
    BY <2>1 DEF CmpPrerelease
<1>4. CASE a = b
  BY <1>2, <1>3, <1>4
<1>5. CASE a # b
  <2>1. PICK d \in Nat : ParAt(a, b, d)
    BY <1>5, TagsPart
  <2>2. ParAt(b, a, d) /\ d \in Nat \ {0}
    BY <2>1, ParSwapped DEF ParAt
  <2>3. PreLess(a, b) <=> d <= Len(b) /\ (d <= Len(a) => SegmentLess(a[d], b[d]))
    BY <2>1, PreLessAt
  <2>4. PreLess(b, a) <=> d <= Len(a) /\ (d <= Len(b) => SegmentLess(b[d], a[d]))
    BY <2>2, PreLessAt
  <2>5. CmpPrerelease(a, b) =
           IF d > Len(a) THEN -1 ELSE IF d > Len(b) THEN 1
           ELSE CmpSegment(a[d], b[d])
    BY <2>1, CmpPrereleaseAt
  <2>6. CASE d <= Len(a) /\ d <= Len(b)
    <3>1. a[d] \in Segment /\ b[d] \in Segment /\ a[d] # b[d]
      BY <2>1, <2>2, <2>6 DEF ParAt
    <3> QED
      BY <1>1, <1>2, <1>5, <2>3, <2>4, <2>5, <2>6, <3>1, SegmentsOrdered
  <2>7. CASE ~(d <= Len(a) /\ d <= Len(b))
    <3>1. d <= Len(a) \/ d <= Len(b)
      BY <2>1 DEF ParAt
    <3> QED
      BY <1>1, <1>2, <1>5, <2>3, <2>4, <2>5, <2>7, <3>1
  <2> QED
    BY <2>6, <2>7
<1> QED
  BY <1>4, <1>5

\* The order of tags is transitive.
LEMMA PreLessTransitive ==
  ASSUME NEW a \in Seq(Segment), NEW b \in Seq(Segment), NEW c \in Seq(Segment),
         PreLess(a, b), PreLess(b, c)
  PROVE  PreLess(a, c)
<1>1. PICK m \in 1..Len(b) :
         /\ \A k \in 1..(m - 1) : k <= Len(a) /\ a[k] = b[k]
         /\ m <= Len(a) => SegmentLess(a[m], b[m])
  BY DEF PreLess
<1>2. PICK n \in 1..Len(c) :
         /\ \A k \in 1..(n - 1) : k <= Len(b) /\ b[k] = c[k]
         /\ n <= Len(b) => SegmentLess(b[n], c[n])
  BY DEF PreLess
<1>3. Len(a) \in Nat /\ Len(b) \in Nat /\ Len(c) \in Nat
  OBVIOUS
<1>4. CASE m < n
  <2>1. b[m] = c[m] /\ m \in 1..Len(c)
    BY <1>2, <1>3, <1>4
  <2>2. \A k \in 1..(m - 1) : k <= Len(a) /\ a[k] = c[k]
    BY <1>1, <1>2, <1>3, <1>4
  <2> QED
    BY <1>1, <2>1, <2>2 DEF PreLess
<1>5. CASE n < m
  <2>1. n <= Len(a) /\ a[n] = b[n] /\ n <= Len(b)
    BY <1>1, <1>3, <1>5
  <2>2. \A k \in 1..(n - 1) : k <= Len(a) /\ a[k] = c[k]
    BY <1>1, <1>2, <1>3, <1>5
  <2> QED
    BY <1>2, <2>1, <2>2 DEF PreLess
<1>6. CASE m = n
  <2>1. \A k \in 1..(n - 1) : k <= Len(a) /\ a[k] = c[k]
    BY <1>1, <1>2, <1>6
  <2>2. n <= Len(a) => SegmentLess(a[n], c[n])
    BY <1>1, <1>2, <1>3, <1>6, SegmentLessTransitive
  <2> QED
    BY <2>1, <2>2 DEF PreLess
<1> QED
  BY <1>3, <1>4, <1>5, <1>6

-----------------------------------------------------------------------------
(* Versions *)

\* A version is its numbers and its tag; what is no version is not one.
LEMMA VersionParts ==
  ASSUME NEW a \in Version
  PROVE  /\ a.core[1] \in Nat /\ a.core[2] \in Nat /\ a.core[3] \in Nat
         /\ a.core = <<a.core[1], a.core[2], a.core[3]>>
         /\ a.pre \in Seq(Segment)
         /\ a = [core |-> a.core, pre |-> a.pre]
         /\ a # Junk
<1>1. a.core \in Nat \X Nat \X Nat /\ a.pre \in Seq(Segment)
      /\ a = [core |-> a.core, pre |-> a.pre]
  BY DEF Version
<1>2. /\ a.core[1] \in Nat /\ a.core[2] \in Nat /\ a.core[3] \in Nat
      /\ a.core = <<a.core[1], a.core[2], a.core[3]>>
  BY <1>1
<1>3. a # Junk
  BY <1>2 DEF Junk
<1> QED
  BY <1>1, <1>2, <1>3

\* Numbers of versions are totally ordered.
LEMMA CoresOrdered ==
  ASSUME NEW m \in Nat \X Nat \X Nat, NEW n \in Nat \X Nat \X Nat
  PROVE  /\ CoreLess(m, n) \/ CoreLess(n, m) \/ m = n
         /\ ~(CoreLess(m, n) /\ CoreLess(n, m))
         /\ ~CoreLess(m, m)
<1>1. /\ m[1] \in Nat /\ m[2] \in Nat /\ m[3] \in Nat
      /\ n[1] \in Nat /\ n[2] \in Nat /\ n[3] \in Nat
      /\ m = <<m[1], m[2], m[3]>> /\ n = <<n[1], n[2], n[3]>>
  OBVIOUS
<1>2. m[1] = n[1] /\ m[2] = n[2] /\ m[3] = n[3] => m = n
  BY <1>1, Zenon
<1> QED
  BY <1>1, <1>2 DEF CoreLess

\* The order of numbers is transitive.
LEMMA CoreLessTransitive ==
  ASSUME NEW m \in Nat \X Nat \X Nat, NEW n \in Nat \X Nat \X Nat,
         NEW p \in Nat \X Nat \X Nat, CoreLess(m, n), CoreLess(n, p)
  PROVE  CoreLess(m, p)
<1>1. /\ m[1] \in Nat /\ m[2] \in Nat /\ m[3] \in Nat
      /\ n[1] \in Nat /\ n[2] \in Nat /\ n[3] \in Nat
      /\ p[1] \in Nat /\ p[2] \in Nat /\ p[3] \in Nat
  OBVIOUS
<1>2. CASE m[1] < n[1] \/ n[1] < p[1]
  <2>1. m[1] < p[1]
    BY <1>1, <1>2 DEF CoreLess
  <2> QED
    BY <2>1 DEF CoreLess
<1>3. CASE ~(m[1] < n[1]) /\ ~(n[1] < p[1])
  <2>1. m[1] = p[1] /\ (m[2] < p[2] \/ (m[2] = p[2] /\ m[3] < p[3]))
    BY <1>1, <1>3 DEF CoreLess
  <2> QED
    BY <2>1 DEF CoreLess
<1> QED
  BY <1>2, <1>3

\* The code's comparison of versions is their order, which is total.
LEMMA VersionsOrdered ==
  ASSUME NEW a \in Version, NEW b \in Version
  PROVE  /\ CmpSemver(a, b) \in {-1, 0, 1}
         /\ CmpSemver(a, b) = -1 <=> Less(a, b)
         /\ CmpSemver(a, b) = 1 <=> Less(b, a)
         /\ CmpSemver(a, b) = 0 <=> a = b
         /\ ~(Less(a, b) /\ Less(b, a))
         /\ ~Less(a, a)
<1>1. /\ a.core[1] \in Nat /\ a.core[2] \in Nat /\ a.core[3] \in Nat
      /\ b.core[1] \in Nat /\ b.core[2] \in Nat /\ b.core[3] \in Nat
      /\ a.pre \in Seq(Segment) /\ b.pre \in Seq(Segment)
  BY VersionParts
<1>2. /\ a.core = b.core <=> /\ a.core[1] = b.core[1]
                             /\ a.core[2] = b.core[2]
                             /\ a.core[3] = b.core[3]
      /\ a = b <=> a.core = b.core /\ a.pre = b.pre
  BY VersionParts, Zenon
<1>3. CASE a.core # b.core
  <2>1. /\ ~CoreLess(a.core, a.core)
        /\ CoreLess(a.core, b.core) \/ CoreLess(b.core, a.core)
        /\ ~(CoreLess(a.core, b.core) /\ CoreLess(b.core, a.core))
    BY <1>3, CoresOrdered DEF Version
  <2>2. CmpSemver(a, b) = IF CoreLess(a.core, b.core) THEN -1 ELSE 1
    BY <1>1, <1>2, <1>3 DEF CmpSemver, Sign, CoreLess
  <2>3. ~Less(a, a)
    BY <1>1, <2>1, TagsOrdered DEF Less
  <2>4. Less(a, b) <=> CoreLess(a.core, b.core)
    BY <1>3 DEF Less
  <2>5. Less(b, a) <=> CoreLess(b.core, a.core)
    BY <1>3 DEF Less
  <2> QED
    BY <1>2, <1>3, <2>1, <2>2, <2>3, <2>4, <2>5
<1>4. CASE a.core = b.core
  <2>1. ~CoreLess(a.core, b.core) /\ ~CoreLess(b.core, a.core)
    BY <1>1, <1>4 DEF CoreLess
  <2>2. CmpSemver(a, b) =
           IF a.pre = <<>> /\ b.pre = <<>> THEN 0
           ELSE IF a.pre = <<>> THEN 1
           ELSE IF b.pre = <<>> THEN -1
           ELSE CmpPrerelease(a.pre, b.pre)
    BY <1>4 DEF CmpSemver
  <2>3. /\ Less(a, b) <=> a.pre # <<>> /\ (b.pre = <<>> \/ PreLess(a.pre, b.pre))
        /\ Less(b, a) <=> b.pre # <<>> /\ (a.pre = <<>> \/ PreLess(b.pre, a.pre))
    BY <1>4, <2>1 DEF Less
  <2>4. Less(a, a) <=> a.pre # <<>> /\ PreLess(a.pre, a.pre)
    BY <1>1, <1>4, <2>1 DEF Less, CoreLess
  <2>5. /\ CmpPrerelease(a.pre, b.pre) \in {-1, 0, 1}
        /\ CmpPrerelease(a.pre, b.pre) = -1 <=> PreLess(a.pre, b.pre)
        /\ CmpPrerelease(a.pre, b.pre) = 1 <=> PreLess(b.pre, a.pre)
        /\ CmpPrerelease(a.pre, b.pre) = 0 <=> a.pre = b.pre
        /\ ~(PreLess(a.pre, b.pre) /\ PreLess(b.pre, a.pre))
        /\ ~PreLess(a.pre, a.pre)
    BY <1>1, TagsOrdered
  <2> HIDE DEF CmpPrerelease, PreLess
  <2> QED
    BY <1>2, <1>4, <2>2, <2>3, <2>4, <2>5
<1> QED
  BY <1>3, <1>4

\* The order of versions is transitive.
LEMMA LessTransitive ==
  ASSUME NEW a \in Version, NEW b \in Version, NEW c \in Version,
         Less(a, b), Less(b, c)
  PROVE  Less(a, c)
<1>1. /\ a.core[1] \in Nat /\ a.core[2] \in Nat /\ a.core[3] \in Nat
      /\ b.core[1] \in Nat /\ b.core[2] \in Nat /\ b.core[3] \in Nat
      /\ c.core[1] \in Nat /\ c.core[2] \in Nat /\ c.core[3] \in Nat
      /\ a.pre \in Seq(Segment) /\ b.pre \in Seq(Segment) /\ c.pre \in Seq(Segment)
  BY VersionParts
<1>2. CASE CoreLess(a.core, b.core) \/ CoreLess(b.core, c.core)
  <2>1. /\ CoreLess(a.core, b.core) \/ a.core = b.core
        /\ CoreLess(b.core, c.core) \/ b.core = c.core
    BY DEF Less
  <2>2. /\ a.core \in Nat \X Nat \X Nat /\ b.core \in Nat \X Nat \X Nat
        /\ c.core \in Nat \X Nat \X Nat
    BY DEF Version
  <2>3. CoreLess(a.core, c.core)
    BY <1>2, <2>1, <2>2, CoreLessTransitive
  <2> QED
    BY <2>3 DEF Less
<1>3. CASE ~CoreLess(a.core, b.core) /\ ~CoreLess(b.core, c.core)
  <2>1. /\ a.core = b.core /\ a.pre # <<>> /\ (b.pre = <<>> \/ PreLess(a.pre, b.pre))
        /\ b.core = c.core /\ b.pre # <<>> /\ (c.pre = <<>> \/ PreLess(b.pre, c.pre))
    BY <1>3 DEF Less
  <2>2. c.pre = <<>> \/ PreLess(a.pre, c.pre)
    BY <1>1, <2>1, PreLessTransitive
  <2> QED
    BY <2>1, <2>2 DEF Less
<1> QED
  BY <1>2, <1>3

\* cmp_semver is the precedence of semver 11, whatever the numbers and however
\* long the tags: it says which version is lower and answers 0 for the same
\* version only.
THEOREM SemverIsPrecedence ==
  ASSUME NEW a \in Version, NEW b \in Version
  PROVE  /\ CmpSemver(a, b) < 0 <=> Less(a, b)
         /\ CmpSemver(a, b) > 0 <=> Less(b, a)
         /\ CmpSemver(a, b) = 0 <=> a = b
<1>1. /\ CmpSemver(a, b) \in {-1, 0, 1}
      /\ CmpSemver(a, b) = -1 <=> Less(a, b)
      /\ CmpSemver(a, b) = 1 <=> Less(b, a)
      /\ CmpSemver(a, b) = 0 <=> a = b
  BY VersionsOrdered
<1> QED
  BY <1>1

\* That precedence is a strict total order: a highest version is well defined.
THEOREM PrecedenceIsTotal ==
  /\ \A a \in Version : ~Less(a, a)
  /\ \A a, b \in Version : a = b \/ Less(a, b) \/ Less(b, a)
  /\ \A a, b, c \in Version : Less(a, b) /\ Less(b, c) => Less(a, c)
<1>1. \A a \in Version : ~Less(a, a)
  BY VersionsOrdered
<1>2. \A a, b \in Version : a = b \/ Less(a, b) \/ Less(b, a)
  BY VersionsOrdered, Zenon
<1>3. \A a, b, c \in Version : Less(a, b) /\ Less(b, c) => Less(a, c)
  BY LessTransitive
<1> QED
  BY <1>1, <1>2, <1>3

-----------------------------------------------------------------------------
(* Ranges *)

\* The tests of the code on numbers are the upper bounds of ^ and ~, for what is
\* not below the base.
LEMMA TopsAreSame ==
  ASSUME NEW v \in Version, NEW b \in Version, ~Less(v, b)
  PROVE  /\ CoreLess(v.core, CaretTop(b.core)) <=>
                IF b.core[1] > 0 THEN SameMajor(v, b)
                ELSE IF b.core[2] > 0 THEN SameMinor(v, b)
                ELSE SameCore(v, b)
         /\ CoreLess(v.core, TildeTop(b.core)) <=> SameMinor(v, b)
<1>1. /\ v.core[1] \in Nat /\ v.core[2] \in Nat /\ v.core[3] \in Nat
      /\ b.core[1] \in Nat /\ b.core[2] \in Nat /\ b.core[3] \in Nat
  BY VersionParts
<1>2. ~CoreLess(v.core, b.core)
  BY DEF Less
<1>3. CoreLess(v.core, TildeTop(b.core)) <=> SameMinor(v, b)
  BY <1>1, <1>2 DEF CoreLess, TildeTop, SameMinor, SameMajor
<1>4. CASE b.core[1] > 0
  BY <1>1, <1>2, <1>3, <1>4 DEF CoreLess, CaretTop, SameMajor
<1>5. CASE b.core[1] = 0 /\ b.core[2] > 0
  BY <1>1, <1>2, <1>3, <1>5 DEF CoreLess, CaretTop, SameMinor, SameMajor
<1>6. CASE b.core[1] = 0 /\ b.core[2] = 0
  BY <1>1, <1>2, <1>3, <1>6 DEF CoreLess, CaretTop, SameCore, SameMinor, SameMajor
<1> QED
  BY <1>1, <1>4, <1>5, <1>6

\* The interval of a ^ or a ~ without the pre-releases of the version that ends
\* it is what is not below the base and whose numbers are below the end.
LEMMA BelowTheTop ==
  ASSUME NEW v \in Version, NEW s, s.op \in {"caret", "tilde"}, s.base \in Version
  PROVE  /\ Within(s, v) /\ ~TopPrerelease(s, v) <=>
              ~Less(v, s.base) /\ CoreLess(v.core, RangeTop(s).core)
         /\ TopPrerelease(s, v) => Within(s, v)
<1> DEFINE t == RangeTop(s).core
<1>1. /\ s.base # Junk
      /\ v.core[1] \in Nat /\ v.core[2] \in Nat /\ v.core[3] \in Nat
      /\ s.base.core[1] \in Nat /\ s.base.core[2] \in Nat /\ s.base.core[3] \in Nat
  BY VersionParts
<1>2. t \in {CaretTop(s.base.core), TildeTop(s.base.core)} /\ RangeTop(s).pre = <<>>
  BY DEF RangeTop
<1>3. /\ t[1] \in Nat /\ t[2] \in Nat /\ t[3] \in Nat
      /\ CoreLess(s.base.core, t) /\ ~CoreLess(t, s.base.core) /\ ~CoreLess(t, t)
      /\ s.base.core # t
  <2> DEFINE m == s.base.core
  <2>1. CASE t = TildeTop(m)
    <3>1. t[1] = m[1] /\ t[2] = m[2] + 1 /\ t[3] = 0
      BY <2>1 DEF TildeTop
    <3> HIDE DEF t, m
    <3> QED
      BY <1>1, <3>1 DEF CoreLess, m
  <2>2. CASE t = CaretTop(m)
    <3>1. \/ m[1] > 0 /\ t[1] = m[1] + 1 /\ t[2] = 0 /\ t[3] = 0
          \/ m[1] = 0 /\ m[2] > 0 /\ t[1] = 0 /\ t[2] = m[2] + 1 /\ t[3] = 0
          \/ m[1] = 0 /\ m[2] = 0 /\ t[1] = 0 /\ t[2] = 0 /\ t[3] = m[3] + 1
      BY <1>1, <2>2 DEF CaretTop
    <3> HIDE DEF t, m
    <3> QED
      BY <1>1, <3>1 DEF CoreLess, m
  <2> QED
    BY <1>2, <2>1, <2>2
<1>4. Within(s, v) <=> ~Less(v, s.base) /\ Less(v, RangeTop(s))
  BY <1>1 DEF Within
<1>5. Less(v, RangeTop(s)) <=> CoreLess(v.core, t) \/ (v.core = t /\ v.pre # <<>>)
  BY <1>2 DEF Less
<1>6. TopPrerelease(s, v) <=> v.core = t /\ v.pre # <<>>
  BY <1>1 DEF TopPrerelease
<1> HIDE DEF t
<1>7. v.core = t => ~Less(v, s.base) /\ ~CoreLess(v.core, t)
  BY <1>3 DEF Less
<1> QED
  BY <1>4, <1>5, <1>6, <1>7 DEF t

\* match_range accepts exactly the versions of the interval the comments give a
\* range (pkg_cli.cpp:43-50), in the order of semver, except the pre-releases of
\* the version that ends a ^ or a ~: those the comments admit, and the code does
\* not. For every range and every version.
THEOREM RangesAreIntervals ==
  ASSUME NEW s \in Ranges, NEW v \in Version
  PROVE  /\ MatchRange(s, v) <=> Within(s, v) /\ ~TopPrerelease(s, v)
         /\ TopPrerelease(s, v) => Within(s, v) /\ ~MatchRange(s, v)
<1>1. v # Junk
  BY VersionParts
<1>2. ASSUME NEW b \in Version
      PROVE  /\ CmpSemver(v, b) \in {-1, 0, 1}
             /\ CmpSemver(v, b) = -1 <=> Less(v, b)
             /\ CmpSemver(v, b) = 1 <=> Less(b, v)
             /\ CmpSemver(v, b) = 0 <=> v = b
             /\ ~(Less(v, b) /\ Less(b, v))
             /\ ~Less(v, v)
  BY VersionsOrdered
<1>3. CASE s.op = "any"
  BY <1>1, <1>3 DEF MatchRange, Within, TopPrerelease
<1>4. CASE s.op = "caret"
  <2>1. s.base \in Version \cup {Junk}
    BY <1>4, PickAssumption
  <2>2. CASE s.base = Junk
    BY <1>4, <2>2 DEF MatchRange, Within, TopPrerelease
  <2>3. CASE s.base \in Version
    <3>1. s.base # Junk /\ (CmpSemver(v, s.base) >= 0 <=> ~Less(v, s.base))
      BY <1>2, <2>3, VersionParts
    <3>2. MatchRange(s, v) <=>
             /\ CmpSemver(v, s.base) >= 0
             /\ IF s.base.core[1] > 0 THEN SameMajor(v, s.base)
                ELSE IF s.base.core[2] > 0 THEN SameMinor(v, s.base)
                ELSE SameCore(v, s.base)
      BY <1>1, <1>4, <3>1 DEF MatchRange
    <3>3. /\ Within(s, v) /\ ~TopPrerelease(s, v) <=>
                ~Less(v, s.base) /\ CoreLess(v.core, CaretTop(s.base.core))
          /\ TopPrerelease(s, v) => Within(s, v)
      BY <1>4, <2>3, BelowTheTop DEF RangeTop
    <3> QED
      BY <2>3, <3>1, <3>2, <3>3, TopsAreSame
  <2> QED
    BY <2>1, <2>2, <2>3
<1>5. CASE s.op = "tilde"
  <2>1. s.base \in Version \cup {Junk}
    BY <1>5, PickAssumption
  <2>2. CASE s.base = Junk
    BY <1>5, <2>2 DEF MatchRange, Within, TopPrerelease
  <2>3. CASE s.base \in Version
    <3>1. s.base # Junk /\ (CmpSemver(v, s.base) >= 0 <=> ~Less(v, s.base))
      BY <1>2, <2>3, VersionParts
    <3>2. MatchRange(s, v) <=>
             CmpSemver(v, s.base) >= 0 /\ SameMinor(v, s.base)
      BY <1>1, <1>5, <3>1 DEF MatchRange
    <3>3. /\ Within(s, v) /\ ~TopPrerelease(s, v) <=>
                ~Less(v, s.base) /\ CoreLess(v.core, TildeTop(s.base.core))
          /\ TopPrerelease(s, v) => Within(s, v)
      BY <1>5, <2>3, BelowTheTop DEF RangeTop
    <3> QED
      BY <2>3, <3>1, <3>2, <3>3, TopsAreSame
  <2> QED
    BY <2>1, <2>2, <2>3
<1>6. CASE s.op = "list"
  <2> DEFINE Accepts(c) ==
                /\ c.ver # Junk
                /\ CASE c.op = "<"  -> Less(v, c.ver)
                     [] c.op = "<=" -> ~Less(c.ver, v)
                     [] c.op = ">"  -> Less(c.ver, v)
                     [] c.op = ">=" -> ~Less(v, c.ver)
                     [] c.op = "="  -> ~Less(c.ver, v) /\ ~Less(v, c.ver)
  <2>1. MatchRange(s, v) <=> MatchConstraints(s.cons, v)
    BY <1>1, <1>6 DEF MatchRange
  <2>2. /\ Within(s, v) <=> \A k \in DOMAIN s.cons : Accepts(s.cons[k])
        /\ ~TopPrerelease(s, v)
    BY <1>6 DEF Within, TopPrerelease
  <2>3. ASSUME NEW k \in DOMAIN s.cons
        PROVE  s.cons[k].ver # Junk /\ Holds(s.cons[k].op, CmpSemver(v, s.cons[k].ver))
                 <=> Accepts(s.cons[k])
    <3>1. /\ s.cons[k].op \in {"<", "<=", ">", ">=", "="}
          /\ s.cons[k].ver \in Version \cup {Junk}
      BY <1>6, PickAssumption
    <3>2. CASE s.cons[k].ver = Junk
      BY <3>2
    <3>3. CASE s.cons[k].ver \in Version
      <4>1. /\ CmpSemver(v, s.cons[k].ver) < 0 <=> Less(v, s.cons[k].ver)
            /\ CmpSemver(v, s.cons[k].ver) > 0 <=> Less(s.cons[k].ver, v)
            /\ CmpSemver(v, s.cons[k].ver) \in {-1, 0, 1}
        BY <1>2, <3>3
      <4>2. s.cons[k].ver # Junk
        BY <3>3, VersionParts
      <4>3. CASE s.cons[k].op = "<"
        BY <4>1, <4>2, <4>3 DEF Holds
      <4>4. CASE s.cons[k].op = "<="
        BY <4>1, <4>2, <4>4 DEF Holds
      <4>5. CASE s.cons[k].op = ">"
        BY <4>1, <4>2, <4>5 DEF Holds
      <4>6. CASE s.cons[k].op = ">="
        BY <4>1, <4>2, <4>6 DEF Holds
      <4>7. CASE s.cons[k].op = "="
        BY <4>1, <4>2, <4>7 DEF Holds
      <4> QED
        BY <3>1, <4>3, <4>4, <4>5, <4>6, <4>7
    <3> QED
      BY <3>1, <3>2, <3>3
  <2> QED
    BY <2>1, <2>2, <2>3 DEF MatchConstraints
<1> QED
  BY <1>3, <1>4, <1>5, <1>6, PickAssumption

-----------------------------------------------------------------------------
(* The pass over the registry *)

\* What the pass has found so far is right of the versions it looked at.
PickInv ==
    /\ pbSpec \in Ranges
    /\ pbAvailable \in Listings
    /\ pbAt \in 0..Len(pbAvailable)
    /\ pbBest \in Version \cup {Junk}
    /\ BestIsHighest

\* The best is a listed version within the range and none within it is higher,
\* for every range, every listing and at every point of the pass.
THEOREM BestIsAlwaysHighest == PickSpec => []BestIsHighest
<1>1. PickInit => PickInv
  <2> SUFFICES ASSUME PickInit PROVE PickInv
    OBVIOUS
  <2>1. pbAvailable \in Seq(Version \cup {Junk})
    BY PickAssumption DEF PickInit
  <2> QED
    BY <2>1 DEF PickInit, PickInv, BestIsHighest
<1>2. PickInv /\ [PickNext]_pbVars => PickInv'
  <2> SUFFICES ASSUME PickInv, [PickNext]_pbVars PROVE PickInv'
    OBVIOUS
  <2>1. /\ pbAvailable \in Seq(Version \cup {Junk}) /\ Len(pbAvailable) \in Nat
        /\ pbAt \in Nat /\ pbSpec \in Ranges /\ pbBest \in Version \cup {Junk}
        /\ BestIsHighest
    BY PickAssumption DEF PickInv
  <2>2. CASE PickLook
    <3> DEFINE v == pbAvailable[pbAt + 1]
               In(k) == /\ pbAvailable[k] # Junk /\ Within(pbSpec, pbAvailable[k])
                        /\ ~TopPrerelease(pbSpec, pbAvailable[k])
               Taken == MatchRange(pbSpec, v) /\ (pbBest = Junk \/ CmpSemver(v, pbBest) > 0)
    <3>1. /\ pbAt + 1 \in 1..Len(pbAvailable) /\ v \in Version \cup {Junk}
          /\ pbAt' = pbAt + 1 /\ pbSpec' = pbSpec /\ pbAvailable' = pbAvailable
          /\ pbBest' = IF Taken THEN v ELSE pbBest
      BY <2>1, <2>2 DEF PickLook
    <3>2. In(pbAt + 1) <=> MatchRange(pbSpec, v)
      <4>1. CASE v = Junk
        BY <4>1 DEF MatchRange
      <4>2. CASE v \in Version
        BY <2>1, <4>2, RangesAreIntervals, VersionParts
      <4> QED
        BY <3>1, <4>1, <4>2
    <3>3. /\ pbBest = Junk => \A k \in 1..pbAt : ~In(k)
          /\ pbBest # Junk =>
                /\ \E k \in 1..pbAt : pbAvailable[k] = pbBest /\ In(k)
                /\ \A k \in 1..pbAt : In(k) => ~Less(pbBest, pbAvailable[k])
      BY <2>1 DEF BestIsHighest
    <3>4. /\ \A k \in 1..(pbAt + 1) : k \in 1..pbAt \/ k = pbAt + 1
          /\ \A k \in 1..pbAt : k \in 1..(pbAt + 1)
          /\ pbAt + 1 \in 1..(pbAt + 1)
      BY <2>1
    <3>5. \A k \in 1..(pbAt + 1) : In(k) => pbAvailable[k] \in Version
      BY <2>1, <3>1
    <3> HIDE DEF In
    <3>6. /\ pbBest' = Junk => \A k \in 1..(pbAt + 1) : ~In(k)
          /\ pbBest' # Junk =>
                /\ \E k \in 1..(pbAt + 1) : pbAvailable[k] = pbBest' /\ In(k)
                /\ \A k \in 1..(pbAt + 1) : In(k) => ~Less(pbBest', pbAvailable[k])
      <4>1. CASE ~MatchRange(pbSpec, v)
        BY <3>1, <3>2, <3>3, <3>4, <4>1
      <4>2. CASE MatchRange(pbSpec, v) /\ pbBest = Junk
        <5>1. v \in Version /\ pbBest' = v
          BY <3>1, <3>2, <4>2 DEF In
        <5>2. v # Junk /\ ~Less(v, v)
          BY <5>1, VersionsOrdered, VersionParts
        <5> QED
          BY <3>2, <3>3, <3>4, <4>2, <5>1, <5>2
      <4>3. CASE MatchRange(pbSpec, v) /\ pbBest # Junk /\ CmpSemver(v, pbBest) > 0
        <5>1. v \in Version /\ pbBest \in Version /\ pbBest' = v
          BY <2>1, <3>1, <3>2, <4>3 DEF In
        <5>2. v # Junk /\ ~Less(v, v) /\ Less(pbBest, v)
          BY <4>3, <5>1, VersionsOrdered, SemverIsPrecedence, VersionParts
        <5>3. ASSUME NEW k \in 1..pbAt, In(k)
              PROVE  ~Less(v, pbAvailable[k])
          <6>1. pbAvailable[k] \in Version /\ ~Less(pbBest, pbAvailable[k])
            BY <3>3, <3>4, <3>5, <4>3, <5>3
          <6> QED
            BY <5>1, <5>2, <6>1, LessTransitive
        <5> QED
          BY <3>2, <3>3, <3>4, <4>3, <5>1, <5>2, <5>3
      <4>4. CASE MatchRange(pbSpec, v) /\ pbBest # Junk /\ ~(CmpSemver(v, pbBest) > 0)
        <5>1. v \in Version /\ pbBest \in Version /\ pbBest' = pbBest
          BY <2>1, <3>1, <3>2, <4>4 DEF In
        <5>2. ~Less(pbBest, v)
          BY <4>4, <5>1, SemverIsPrecedence
        <5> QED
          BY <3>2, <3>3, <3>4, <4>4, <5>1, <5>2
      <4> QED
        BY <4>1, <4>2, <4>3, <4>4
    <3>7. BestIsHighest'
      BY <3>1, <3>6 DEF BestIsHighest, In
    <3> QED
      BY <2>1, <3>1, <3>7 DEF PickInv
  <2>3. CASE PickReturn
    BY <2>3 DEF PickReturn, PickInv, BestIsHighest, pbVars
  <2>4. CASE UNCHANGED pbVars
    BY <2>4 DEF PickInv, BestIsHighest, pbVars
  <2> QED
    BY <2>2, <2>3, <2>4 DEF PickNext
<1>3. PickInv => BestIsHighest
  BY DEF PickInv
<1> QED
  BY <1>1, <1>2, <1>3, PTL DEF PickSpec
=============================================================================
