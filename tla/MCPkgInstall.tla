---------------------------- MODULE MCPkgInstall ----------------------------
(***************************************************************************)
(* The package manager: installs, and the choice of a version from a range,*)
(* which share no state. A behaviour is one of the two.                    *)
(***************************************************************************)
EXTENDS PkgInstall, PickBest, TLC

VARIABLE part  \* what a behaviour is about

MCSpecs == {[kind |-> "exact", of |-> {1}], [kind |-> "range", of |-> Versions],
            [kind |-> "path", of |-> {}]}
           \cup {[kind |-> "url", of |-> {u}] : u \in Urls}

\* A small registry: the precedence chain of semver 11, and the versions at the
\* ends of each range.
V(a, b, c, tag) == [core |-> <<a, b, c>>, pre |-> tag]

alpha == <<1, 1>>
beta  == <<1, 2>>
rc    == <<1, 3>>
num(n) == <<0, n>>

Registry == {
    V(0, 0, 3, <<>>), V(0, 0, 4, <<>>), V(0, 2, 0, <<>>), V(0, 2, 1, <<>>),
    V(0, 3, 0, <<rc>>), V(0, 3, 0, <<>>),
    V(1, 0, 0, <<alpha>>), V(1, 0, 0, <<alpha, num(1)>>),
    V(1, 0, 0, <<alpha, beta>>), V(1, 0, 0, <<beta, num(2)>>),
    V(1, 0, 0, <<beta, num(11)>>), V(1, 0, 0, <<>>),
    V(1, 2, 0, <<>>), V(1, 2, 3, <<rc>>), V(2, 0, 0, <<rc>>), V(2, 0, 0, <<>>),
    Junk}

MCListings == UNION {[1..n -> Registry] : n \in 0..3}

C(o, v) == [op |-> o, ver |-> v]

MCRanges == {
    [op |-> "any"],
    [op |-> "caret", base |-> V(0, 0, 3, <<>>)],
    [op |-> "caret", base |-> V(0, 2, 0, <<>>)],
    [op |-> "caret", base |-> V(1, 0, 0, <<alpha, num(1)>>)],
    [op |-> "caret", base |-> Junk],
    [op |-> "tilde", base |-> V(0, 2, 1, <<>>)],
    [op |-> "tilde", base |-> V(1, 2, 0, <<>>)],
    [op |-> "list", cons |-> <<C(">=", V(1, 0, 0, <<alpha, beta>>)), C("<", V(2, 0, 0, <<>>))>>],
    [op |-> "list", cons |-> <<C("=", V(1, 0, 0, <<>>))>>],
    [op |-> "list", cons |-> <<C("<=", V(1, 0, 0, <<beta, num(11)>>))>>],
    [op |-> "list", cons |-> <<C(">", V(0, 3, 0, <<>>)), C("<", Junk)>>]}

\* The variables of the part a behaviour is not about stay at a first value.
PickRest == pbSpec = [op |-> "any"] /\ pbAvailable = <<>> /\ pbAt = 0 /\ pbBest = Junk

InstallRest == Init /\ manifest = NoEntries /\ \A n \in Deps, a \in Address : served[n][a] = No

MCInit ==
    \/ part = "install" /\ Init /\ PickRest
    \/ part = "pick" /\ PickInit /\ InstallRest

MCNext ==
    /\ UNCHANGED part
    /\ \/ part = "install" /\ Next /\ UNCHANGED pbVars
       \/ part = "pick" /\ PickNext /\ UNCHANGED vars

MCSpec == MCInit /\ [][MCNext]_<<part, vars, pbVars>>

InstallSpec == MCInit /\ part = "install" /\ [][MCNext]_<<part, vars, pbVars>>

Symmetry == Permutations(Files)
=============================================================================
