----------------------------- MODULE PkgInstall -----------------------------
(***************************************************************************)
(* tulpar pkg install (src/src/pkg/pkg_cli.cpp, cmd_install) run again and *)
(* again over a manifest, a lockfile, a tulpar_modules directory and a     *)
(* registry that change in between, and that may die at any point.         *)
(*                                                                         *)
(* A body stands for the bytes behind a URL and for their SHA-256. An      *)
(* address is a version at the registry or the URL of a `url:` spec.       *)
(* Versions are numbered in the order of semver, a range is a set of them: *)
(* PickBest shows that pick_best_match takes the highest.                  *)
(***************************************************************************)
EXTENDS Integers, FiniteSets

CONSTANTS
    Deps,       \* names of packages
    Versions,   \* versions the registry may publish
    Urls,       \* URLs of `url:` specs
    Files,      \* bodies that are one .tpr file
    Bundles,    \* bodies that are a .tpkg archive
    Spoilt,     \* bodies that look like an archive and do not parse
    Specs,      \* the specs a manifest may give
    Writes,     \* what writing a file may do
    Path,       \* in a lockfile, the url of a `path:` spec
    No,         \* nothing there
    MaxEvents   \* bound: changes from outside

Address == Versions \cup Urls
Bodies == Files \cup Bundles \cup Spoilt
Entry == [url : Address \cup {Path}, sha : Bodies \cup {No, "torn"}]

ASSUME InstallAssumption ==
    /\ Versions \subseteq Nat /\ IsFiniteSet(Versions)
    /\ Specs \subseteq [kind : {"exact"}, of : {{v} : v \in Versions}]
                       \cup [kind : {"range"}, of : SUBSET Versions]
                       \cup [kind : {"url"}, of : {{u} : u \in Urls}]
                       \cup [kind : {"path"}, of : {{}}]
    /\ {"full", "error"} \subseteq Writes /\ Writes \subseteq {"full", "error", "short"}
    /\ Path \notin Address
    /\ No \notin Specs /\ No \notin Address /\ No \notin Bodies
    /\ No \notin Entry /\ No \notin Deps /\ No \notin {"ok", "refused"}
    /\ "tulpar.lock" \notin Deps
    /\ MaxEvents \in Nat

VARIABLES
    manifest,  \* [dependencies]: the spec of every dependency
    registry,  \* is a [registry] url configured
    served,    \* the body behind every address of every package
    lock,      \* tulpar.lock: url and sha256
    disk,      \* tulpar_modules/<name>: the body it was made from, or a state
    pc,        \* where cmd_install is
    prev,      \* prev_resolved and prev_sha
    todo,      \* dependencies still to do
    cur, url,  \* the dependency at hand and its url
    body,      \* what was fetched for it
    new,       \* lock_entries
    result,    \* how the last install ended, while it still speaks for the files
    changed,   \* ghost: addresses that served different bodies in time
    intent,    \* ghost: manifest and registry of the last completed lockfile
    short,     \* ghost: what this install, or the last, wrote short unnoticed
    events

files  == <<manifest, registry, served, lock, disk>>
locals == <<pc, prev, todo, cur, url, body, new>>
ghosts == <<changed, intent, short, events>>
vars   == <<files, locals, result, ghosts>>

NoEntries == [n \in Deps |-> No]

PkgTypeOK ==
    /\ manifest \in [Deps -> Specs \cup {No}] /\ registry \in BOOLEAN
    /\ served \in [Deps -> [Address -> Bodies \cup {No}]]
    /\ {lock, prev, new} \subseteq [Deps -> Entry \cup {No}]
    /\ disk \in [Deps -> Bodies \cup {No, "empty", "partial", "edited", "copy"}]
    /\ pc \in {"idle", "dep", "resolved", "write", "copy", "lock"}
    /\ todo \subseteq Deps /\ cur \in Deps \cup {No}
    /\ url \in Address \cup {No} /\ body \in Bodies \cup {No}
    /\ pc \in {"resolved", "write"} => cur \in Deps /\ url \in Address
    /\ pc = "write" => body \in Bodies
    /\ result \in {No, "ok", "nothing", "failed", "refused", "died"}
    /\ changed \subseteq Deps \X Address /\ short \subseteq Deps \cup {"tulpar.lock"}
    /\ events \in 0..MaxEvents

Init ==
    /\ manifest \in [Deps -> Specs \cup {No}] /\ registry = TRUE
    /\ served \in [Deps -> [Address -> Files \cup {No}]]
    /\ lock = NoEntries /\ disk = [n \in Deps |-> No]
    /\ pc = "idle" /\ prev = NoEntries /\ todo = {} /\ cur = No /\ url = No
    /\ body = No /\ new = NoEntries /\ result = No
    /\ changed = {} /\ intent = No /\ short = {} /\ events = 0

-----------------------------------------------------------------------------
(* cmd_install *)

\* cmd_install returns, and its locals are gone.
Stop(how) ==
    /\ pc' = "idle" /\ result' = how
    /\ prev' = NoEntries /\ todo' = {} /\ cur' = No /\ url' = No /\ body' = No
    /\ new' = IF how = "ok" THEN new ELSE NoEntries

NothingToDo ==
    /\ pc = "idle" /\ \A n \in Deps : manifest[n] = No
    /\ Stop("nothing")
    /\ UNCHANGED <<files, ghosts>>

\* The manifest and the lockfile are read once.
Start ==
    /\ pc = "idle"
    /\ todo' = {n \in Deps : manifest[n] # No} /\ todo' # {}
    /\ pc' = "dep" /\ prev' = lock /\ new' = NoEntries /\ result' = No
    /\ short' = {}
    /\ UNCHANGED <<files, cur, url, body, changed, intent, events>>

\* A version spec without a registry is skipped, and loses its lock entry.
Skip(n) ==
    /\ pc = "dep" /\ n \in todo /\ manifest[n].kind \in {"exact", "range"}
    /\ ~registry
    /\ todo' = todo \ {n}
    /\ UNCHANGED <<files, pc, prev, cur, url, body, new, result, ghosts>>

\* pick_best_match over the versions the registry lists now.
PickBest(n, range) ==
    LET match == {v \in range : served[n][v] # No}
    IN  {v \in match : \A w \in match : w <= v}

\* Mutant: no version in the range is not noticed.
Resolve_EmptyMatch(n) ==
    /\ pc = "dep" /\ n \in todo
    /\ LET s == manifest[n] IN
       \/ s.kind = "url" /\ url' \in s.of
       \/ s.kind = "exact" /\ registry /\ url' \in s.of
       \/ /\ s.kind = "range" /\ registry
          /\ \/ url' \in PickBest(n, s.of)
             \/ PickBest(n, s.of) = {} /\ url' = No
    /\ cur' = n /\ pc' = "resolved"
    /\ UNCHANGED <<files, prev, todo, body, new, result, ghosts>>

\* A range takes the highest version the registry lists now.
Resolve(n) ==
    /\ pc = "dep" /\ n \in todo
    /\ LET s == manifest[n] IN
       \/ s.kind = "url" /\ url' \in s.of
       \/ s.kind = "exact" /\ registry /\ url' \in s.of
       \/ s.kind = "range" /\ registry /\ url' \in PickBest(n, s.of)
    /\ cur' = n /\ pc' = "resolved"
    /\ UNCHANGED <<files, prev, todo, body, new, result, ghosts>>

\* The requests, and the directory of a `path:` spec, may fail; nothing is undone.
Fail ==
    /\ pc \in {"dep", "resolved"} /\ todo # {}
    /\ Stop("failed")
    /\ UNCHANGED <<files, ghosts>>

\* Mutant: a file that is there is taken for the pinned one.
LocalMatchesLock_NoHash(n, a) ==
    prev[n] # No /\ prev[n].url = a /\ prev[n].sha \in Files /\ disk[n] # No

\* local_matches_lock: the entry file of an archive is not the archive, so only
\* a package of one file can match.
LocalMatchesLock(n, a) ==
    /\ prev[n] # No /\ prev[n].url = a
    /\ disk[n] \in Files /\ disk[n] = prev[n].sha

\* lock_entries.push_back, and on to the next dependency.
Record(n, a, sha) ==
    /\ new' = [new EXCEPT ![n] = [url |-> a, sha |-> sha]]
    /\ todo' = todo \ {n} /\ pc' = "dep"
    /\ cur' = No /\ url' = No /\ body' = No
    /\ UNCHANGED <<prev, result>>

Cached ==
    /\ pc = "resolved" /\ LocalMatchesLock(cur, url)
    /\ Record(cur, url, prev[cur].sha)
    /\ UNCHANGED <<files, ghosts>>

\* Mutant: the pin is compared without its address.
PinBroken_AnyUrl(n, a, b) == prev[n] # No /\ prev[n].sha # No /\ prev[n].sha # b

\* Mutant: nothing is pinned.
PinBroken_Never(n, a, b) == FALSE

\* The lockfile pins this address to other bytes.
PinBroken(n, a, b) ==
    prev[n] # No /\ prev[n].url = a /\ prev[n].sha # No /\ prev[n].sha # b

\* Fetch, compare with the pin, clear the directory.
Fetch ==
    /\ pc = "resolved" /\ ~LocalMatchesLock(cur, url)
    /\ LET b == served[cur][url] IN
       /\ b # No
       /\ IF PinBroken(cur, url, b)
          THEN Stop("refused") /\ UNCHANGED disk
          ELSE /\ disk' = [disk EXCEPT ![cur] = "empty"]
               /\ pc' = "write" /\ body' = b
               /\ UNCHANGED <<prev, todo, cur, url, new, result>>
    /\ UNCHANGED <<manifest, registry, served, lock, ghosts>>

\* One file, or the files of an archive. A short write of the one file goes
\* unnoticed; of an archive's it is an error.
Write ==
    /\ pc = "write"
    /\ \E w \in Writes :
        \/ /\ w # "error" /\ body \notin Spoilt /\ (w = "short" => body \in Files)
           /\ disk' = [disk EXCEPT ![cur] = IF w = "full" THEN body ELSE "partial"]
           /\ short' = IF w = "full" THEN short ELSE short \cup {cur}
           /\ Record(cur, url, body)
        \/ /\ w = "error"
           /\ disk' = IF body \in Bundles THEN [disk EXCEPT ![cur] = "partial"] ELSE disk
           /\ Stop("failed") /\ UNCHANGED short
    /\ UNCHANGED <<manifest, registry, served, lock, changed, intent, events>>

\* A `path:` spec: clear the directory ...
CopyStart(n) ==
    /\ pc = "dep" /\ n \in todo /\ manifest[n].kind = "path"
    /\ disk' = [disk EXCEPT ![n] = "empty"]
    /\ cur' = n /\ pc' = "copy"
    /\ UNCHANGED <<manifest, registry, served, lock, prev, todo, url, body, new, result, ghosts>>

\* ... and copy the files. A directory that cannot be listed, or a path that
\* cannot be made relative, ends the copy and goes unnoticed.
Copy ==
    /\ pc = "copy"
    /\ \E left \in {"copy", "partial", "empty"} :
        /\ disk' = [disk EXCEPT ![cur] = left]
        /\ \/ Record(cur, Path, No)
           \/ left # "copy" /\ Stop("failed")
    /\ UNCHANGED <<manifest, registry, served, lock, ghosts>>

\* Opening tulpar.lock empties it; that it cannot be opened goes unnoticed.
\* With no entry it is not touched.
OpenLock ==
    /\ pc = "dep" /\ todo = {}
    /\ \/ /\ new = NoEntries
          /\ Stop("ok") /\ UNCHANGED <<lock, short>>
       \/ /\ new # NoEntries /\ "short" \in Writes
          /\ Stop("ok") /\ short' = short \cup {"tulpar.lock"} /\ UNCHANGED lock
       \/ /\ new # NoEntries
          /\ pc' = "lock" /\ lock' = NoEntries
          /\ UNCHANGED <<prev, todo, cur, url, body, new, result, short>>
    /\ UNCHANGED <<manifest, registry, served, disk, changed, intent, events>>

\* What is left of an entry without its line in [checksums], or with half of it.
Bare(e) == IF e = No THEN No ELSE [e EXCEPT !.sha = No]
Half(e) == IF e = No \/ e.sha = No THEN e ELSE [e EXCEPT !.sha = "torn"]

\* What is left of a lockfile cut off in its first or its second table.
Cuts(l) ==
    {[n \in Deps |-> IF n \in kept THEN Bare(l[n]) ELSE No] : kept \in SUBSET Deps}
    \cup {[n \in Deps |-> IF n = t THEN Half(l[n])
                          ELSE IF n \in kept THEN l[n] ELSE Bare(l[n])] :
          t \in Deps, kept \in SUBSET Deps}

\* A short write of the lockfile goes unnoticed.
WriteLock ==
    /\ pc = "lock"
    /\ \/ lock' = new /\ UNCHANGED short
       \/ /\ "short" \in Writes /\ lock' \in Cuts(new)
          /\ short' = short \cup {"tulpar.lock"}
    /\ intent' = <<manifest, registry>>
    /\ Stop("ok")
    /\ UNCHANGED <<manifest, registry, served, disk, changed, events>>

-----------------------------------------------------------------------------
(* What happens around it *)

\* The process dies.
Die ==
    /\ pc # "idle" /\ Stop("died")
    /\ disk' \in IF pc \in {"write", "copy"}
                 THEN {disk, [disk EXCEPT ![cur] = "partial"]} ELSE {disk}
    /\ lock' \in IF pc = "lock" THEN Cuts(new) \cup {lock} ELSE {lock}
    /\ UNCHANGED <<manifest, registry, served, ghosts>>

Event == events < MaxEvents /\ events' = events + 1

\* A package is published, or an address answers with something else.
Serve(n, a, b) ==
    /\ Event /\ b # served[n][a]
    /\ served' = [served EXCEPT ![n][a] = b]
    /\ changed' = IF served[n][a] = No THEN changed ELSE changed \cup {<<n, a>>}
    /\ UNCHANGED <<manifest, registry, lock, disk, locals, result, intent, short>>

\* tulpar pkg add, tulpar pkg remove.
EditManifest(n, s) ==
    /\ pc = "idle" /\ Event /\ manifest[n] # s
    /\ manifest' = [manifest EXCEPT ![n] = s] /\ result' = No
    /\ UNCHANGED <<registry, served, lock, disk, locals, changed, intent, short>>

SetRegistry ==
    /\ pc = "idle" /\ Event
    /\ registry' = ~registry /\ result' = No
    /\ UNCHANGED <<manifest, served, lock, disk, locals, changed, intent, short>>

EditDisk(n, how) ==
    /\ pc = "idle" /\ Event /\ disk[n] # No
    /\ disk' = [disk EXCEPT ![n] = how] /\ result' = No
    /\ UNCHANGED <<manifest, registry, served, lock, locals, changed, intent, short>>

DeleteLock ==
    /\ pc = "idle" /\ Event /\ lock # NoEntries
    /\ lock' = NoEntries /\ result' = No
    /\ UNCHANGED <<manifest, registry, served, disk, locals, changed, intent, short>>

Install ==
    \/ NothingToDo \/ Start \/ Fail \/ Cached \/ Fetch \/ Write \/ Copy
    \/ OpenLock \/ WriteLock \/ Die
    \/ \E n \in Deps : Skip(n) \/ Resolve(n) \/ CopyStart(n)

Outside ==
    \/ SetRegistry \/ DeleteLock
    \/ \E n \in Deps :
          \/ \E a \in Address, b \in Bodies : Serve(n, a, b)
          \/ \E s \in Specs \cup {No} : EditManifest(n, s)
          \/ \E how \in {No, "edited"} : EditDisk(n, how)

Next == Install \/ Outside

Spec == Init /\ [][Next]_vars

-----------------------------------------------------------------------------

\* When an install has succeeded, tulpar.lock records what it did, and every
\* package fetched is on disk as the bytes with the recorded sha256, but for what
\* this very install wrote short without noticing. A package that an earlier
\* install wrote short, or that was torn by a crash, failed half-way or edited
\* since, is never taken for the pinned one.
DiskIsPinned ==
    result = "ok" =>
        \A n \in Deps : new[n] # No =>
            /\ "tulpar.lock" \notin short => lock[n] = new[n]
            /\ new[n].url # Path /\ n \notin short => disk[n] = new[n].sha

\* A pinned address is never silently re-pinned to other bytes: as long as the
\* lockfile keeps the address and a sha256, it keeps that sha256.
PinsHold ==
    [][\A n \in Deps :
        LET old == IF pc = "lock" THEN prev[n] ELSE lock[n]
            now == lock'[n] IN
        old # No /\ now # No /\ old.url = now.url /\ No \notin {old.sha, now.sha}
            => now.sha \in {old.sha, "torn"}]_vars

\* An install is refused only when an address did serve different bytes in
\* time, or the lockfile was torn by a crash or a short write.
RefusalMeansTamper ==
    [][result # "refused" /\ result' = "refused" =>
          <<cur, url>> \in changed \/ lock[cur].sha = "torn"]_vars

\* pkg_cli.cpp, on the lockfile: re-installing the same manifest is byte-stable
\* even if the registry's `latest` moves later.
ReinstallStable ==
    [][(pc = "lock" /\ result' = "ok" /\ intent = <<manifest, registry>>)
          => \A n \in Deps : prev[n] # No /\ prev[n].sha \in Bodies => lock'[n] = prev[n]]_vars
=============================================================================
