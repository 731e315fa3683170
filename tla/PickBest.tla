------------------------------ MODULE PickBest ------------------------------
(***************************************************************************)
(* pick_best_match (src/src/pkg/pkg_cli.cpp): one pass over the versions   *)
(* the registry lists, in the order it lists them, keeping the best so far *)
(***************************************************************************)
EXTENDS SemVer

CONSTANTS
    Ranges,   \* the specs asked for
    Listings  \* the version lists a registry answers with

ASSUME PickAssumption ==
    /\ \A s \in Ranges :
          \/ s.op = "any"
          \/ s.op \in {"caret", "tilde"} /\ s.base \in Version \cup {Junk}
          \/ /\ s.op = "list"
             /\ \A i \in DOMAIN s.cons :
                   /\ s.cons[i].op \in {"<", "<=", ">", ">=", "="}
                   /\ s.cons[i].ver \in Version \cup {Junk}
    /\ Listings \subseteq Seq(Version \cup {Junk})

VARIABLES
    pbSpec,       \* the spec
    pbAvailable,  \* the versions of the registry
    pbAt,         \* how many of them were looked at
    pbBest        \* `best` and `best_v`: Junk while empty

pbVars == <<pbSpec, pbAvailable, pbAt, pbBest>>

PickInit ==
    /\ pbSpec \in Ranges
    /\ pbAvailable \in Listings
    /\ pbAt = 0
    /\ pbBest = Junk

\* Mutant: the first match is kept.
PickLook_KeepsFirst ==
    /\ pbAt < Len(pbAvailable)
    /\ pbAt' = pbAt + 1
    /\ pbBest' = IF pbBest = Junk /\ MatchRange(pbSpec, pbAvailable[pbAt + 1])
                 THEN pbAvailable[pbAt + 1] ELSE pbBest
    /\ UNCHANGED <<pbSpec, pbAvailable>>

\* One turn of the loop.
PickLook ==
    /\ pbAt < Len(pbAvailable)
    /\ pbAt' = pbAt + 1
    /\ LET v == pbAvailable[pbAt + 1] IN
          pbBest' = IF /\ MatchRange(pbSpec, v)
                       /\ pbBest = Junk \/ CmpSemver(v, pbBest) > 0
                    THEN v ELSE pbBest
    /\ UNCHANGED <<pbSpec, pbAvailable>>

\* The loop is over.
PickReturn == pbAt = Len(pbAvailable) /\ UNCHANGED pbVars

PickNext == PickLook \/ PickReturn

PickSpec == PickInit /\ [][PickNext]_pbVars

-----------------------------------------------------------------------------

\* The result is what was asked for: a listed version within the range, none
\* within the range higher, and nothing only when nothing is within the range.
\* Range and order are those of semver and of the comments (pkg_cli.cpp:43-57),
\* but for the one thing the code decides otherwise: a pre-release of the
\* version that ends a ^ or a ~ is never taken.
BestIsHighest ==
    LET In(k) == /\ pbAvailable[k] # Junk /\ Within(pbSpec, pbAvailable[k])
                 /\ ~TopPrerelease(pbSpec, pbAvailable[k])
    IN
    /\ pbBest = Junk => \A k \in 1..pbAt : ~In(k)
    /\ pbBest # Junk =>
          /\ \E k \in 1..pbAt : pbAvailable[k] = pbBest /\ In(k)
          /\ \A k \in 1..pbAt : In(k) => ~Less(pbBest, pbAvailable[k])
=============================================================================
