------------------------------- MODULE SemVer -------------------------------
(***************************************************************************)
(* Versions and version ranges of the package manager                      *)
(* (src/src/pkg/pkg_cli.cpp, "SemVer"), and what semver 2.0.0 and the      *)
(* comments of that file say of them.                                      *)
(*                                                                         *)
(* A version is its numbers and its pre-release tag, a sequence of dot     *)
(* segments; build metadata is ignored by every comparison and left out.   *)
(* A segment is <<class, rank>>: class 0 for numeric ones, ranked by value *)
(* and class 1 for the others, ranked alphabetically.                      *)
(***************************************************************************)
EXTENDS Integers, Sequences

Segment == {0, 1} \X Nat
Version == [core : Nat \X Nat \X Nat, pre : Seq(Segment)]

\* What is no version: parse_semver leaves ok = false.
Junk == [core |-> <<>>, pre |-> <<>>]

-----------------------------------------------------------------------------
(* The code. *)

Sign(m, n) == IF m = n THEN 0 ELSE IF m < n THEN -1 ELSE 1

\* cmp_prerelease_segment.
CmpSegment(a, b) == IF a[1] # b[1] THEN Sign(a[1], b[1]) ELSE Sign(a[2], b[2])

\* cmp_prerelease: the first segment that differs decides, a tag that ran out
\* is lower.
CmpPrerelease(a, b) ==
    LET Differ(i) == i \notin DOMAIN a \/ i \notin DOMAIN b \/ CmpSegment(a[i], b[i]) # 0
        first == CHOOSE i \in DOMAIN a \cup DOMAIN b :
                    Differ(i) /\ \A k \in 1..(i - 1) : ~Differ(k)
    IN  IF \A i \in DOMAIN a \cup DOMAIN b : ~Differ(i) THEN 0
        ELSE IF first \notin DOMAIN a THEN -1
        ELSE IF first \notin DOMAIN b THEN 1
        ELSE CmpSegment(a[first], b[first])

\* cmp_semver.
CmpSemver(a, b) ==
    IF a.core[1] # b.core[1] THEN Sign(a.core[1], b.core[1])
    ELSE IF a.core[2] # b.core[2] THEN Sign(a.core[2], b.core[2])
    ELSE IF a.core[3] # b.core[3] THEN Sign(a.core[3], b.core[3])
    ELSE IF a.pre = <<>> /\ b.pre = <<>> THEN 0
    ELSE IF a.pre = <<>> THEN 1
    ELSE IF b.pre = <<>> THEN -1
    ELSE CmpPrerelease(a.pre, b.pre)

\* One comparator of a constraint list.
Holds(op, c) ==
    CASE op = "<"  -> c < 0
      [] op = "<=" -> c <= 0
      [] op = ">"  -> c > 0
      [] op = ">=" -> c >= 0
      [] op = "="  -> c = 0

\* match_constraints: an unparseable constraint spoils the whole list.
MatchConstraints(cons, v) ==
    \A i \in DOMAIN cons :
        cons[i].ver # Junk /\ Holds(cons[i].op, CmpSemver(v, cons[i].ver))

SameMajor(v, b) == v.core[1] = b.core[1]
SameMinor(v, b) == SameMajor(v, b) /\ v.core[2] = b.core[2]
SameCore(v, b) == SameMinor(v, b) /\ v.core[3] = b.core[3]

\* match_range, for the specs is_range_spec accepts.
MatchRange(s, v) ==
    /\ v # Junk
    /\ \/ s.op = "any"
       \/ s.op = "list" /\ MatchConstraints(s.cons, v)
       \/ /\ s.op = "caret" /\ s.base # Junk
          /\ CmpSemver(v, s.base) >= 0
          /\ IF s.base.core[1] > 0 THEN SameMajor(v, s.base)
             ELSE IF s.base.core[2] > 0 THEN SameMinor(v, s.base)
             ELSE SameCore(v, s.base)
       \/ /\ s.op = "tilde" /\ s.base # Junk
          /\ CmpSemver(v, s.base) >= 0
          /\ SameMinor(v, s.base)

-----------------------------------------------------------------------------
(* What it should be. *)

\* semver 11.4: numeric segments are ordered by value and below all others.
SegmentLess(a, b) == a[1] < b[1] \/ (a[1] = b[1] /\ a[2] < b[2])

\* semver 11.4.4: the first difference decides; a prefix is lower.
PreLess(a, b) ==
    \E i \in 1..Len(b) :
        /\ \A k \in 1..(i - 1) : k <= Len(a) /\ a[k] = b[k]
        /\ i <= Len(a) => SegmentLess(a[i], b[i])

CoreLess(m, n) ==
    \/ m[1] < n[1]
    \/ m[1] = n[1] /\ m[2] < n[2]
    \/ m[1] = n[1] /\ m[2] = n[2] /\ m[3] < n[3]

\* semver 11: precedence.
Less(a, b) ==
    \/ CoreLess(a.core, b.core)
    \/ /\ a.core = b.core
       /\ a.pre # <<>>
       /\ b.pre = <<>> \/ PreLess(a.pre, b.pre)

\* The exclusive upper bounds of the comments on ^ and ~.
CaretTop(m) ==
    IF m[1] > 0 THEN <<m[1] + 1, 0, 0>>
    ELSE IF m[2] > 0 THEN <<0, m[2] + 1, 0>>
    ELSE <<0, 0, m[3] + 1>>

TildeTop(m) == <<m[1], m[2] + 1, 0>>

\* The version that ends the range of a ^ or a ~, itself outside it.
RangeTop(s) ==
    [core |-> IF s.op = "caret" THEN CaretTop(s.base.core) ELSE TildeTop(s.base.core),
     pre  |-> <<>>]

\* A range as the interval the comments give, in the order of semver: ^1.2.3 is
\* >=1.2.3, <2.0.0. One that cannot be parsed matches nothing.
Within(s, v) ==
    CASE s.op = "any"   -> TRUE
      [] s.op \in {"caret", "tilde"} ->
            s.base # Junk /\ ~Less(v, s.base) /\ Less(v, RangeTop(s))
      [] s.op = "list"  ->
            \A i \in DOMAIN s.cons :
                LET c == s.cons[i] IN
                /\ c.ver # Junk
                /\ CASE c.op = "<"  -> Less(v, c.ver)
                     [] c.op = "<=" -> ~Less(c.ver, v)
                     [] c.op = ">"  -> Less(c.ver, v)
                     [] c.op = ">=" -> ~Less(v, c.ver)
                     [] c.op = "="  -> ~Less(v, c.ver) /\ ~Less(c.ver, v)

\* A pre-release of the version that ends the range: 2.0.0-rc for ^1.2.3. By
\* the comments it is within the range, for it is lower than 2.0.0; the code
\* tests the numbers alone and leaves it out.
TopPrerelease(s, v) ==
    /\ s.op \in {"caret", "tilde"} /\ s.base # Junk
    /\ v.core = RangeTop(s).core /\ v.pre # <<>>
=============================================================================
