------------------------- MODULE PkgInstall_proofs --------------------------
(***************************************************************************)
(* Proofs about PkgInstall, for any number of packages, versions and       *)
(* outside events: a successful install left on disk what the lockfile     *)
(* pins, and a pin is never silently replaced.                             *)
(***************************************************************************)
EXTENDS PkgInstall, TLAPS

\* No dependency is done twice, and its lock entry is made once.
Pending ==
    /\ pc = "idle" => todo = {}
    /\ pc \in {"resolved", "write", "copy"} => cur \in todo
    /\ pc # "idle" => result = No
    /\ \A n \in todo : manifest[n] # No /\ new[n] = No

\* The pins the install holds are those of the lockfile it will replace.
PinsRead ==
    /\ pc \in {"dep", "resolved", "write", "copy"} => prev = lock
    /\ pc = "lock" => lock = NoEntries

SamePin(old, now) ==
    old # No /\ now # No /\ old.url = now.url /\ No \notin {old.sha, now.sha}
        => now.sha = old.sha

\* What has been recorded, and what is about to be, keeps the pins.
PinsKept ==
    /\ pc # "idle" => \A n \in Deps : SamePin(prev[n], new[n])
    /\ pc = "write" => ~PinBroken(cur, url, body)

PinInv == PkgTypeOK /\ Pending /\ PinsRead /\ PinsKept

\* A fetched package that was recorded is on disk, unless this install wrote it
\* short.
OnDisk ==
    pc # "idle" \/ result = "ok" =>
        \A n \in Deps : new[n] # No /\ new[n].url # Path /\ n \notin short =>
            disk[n] = new[n].sha

\* The lockfile of a successful install says what was recorded, unless it was
\* written short itself.
Written ==
    result = "ok" =>
        /\ pc = "idle"
        /\ "tulpar.lock" \notin short => \A n \in Deps : new[n] # No => lock[n] = new[n]

DiskInv == PinInv /\ OnDisk /\ Written

-----------------------------------------------------------------------------

LEMMA InstallInit == Init => DiskInv
<1> SUFFICES ASSUME Init PROVE DiskInv
  OBVIOUS
<1> USE InstallAssumption DEF Init, NoEntries
<1>1. PkgTypeOK
  <2>1. served \in [Deps -> [Address -> Bodies \cup {No}]]
    BY DEF Bodies
  <2>2. NoEntries \in [Deps -> Entry \cup {No}]
    OBVIOUS
  <2>3. disk \in [Deps -> Bodies \cup {No, "empty", "partial", "edited", "copy"}]
    OBVIOUS
  <2>4. events \in 0..MaxEvents
    OBVIOUS
  <2> QED
    BY <2>1, <2>2, <2>3, <2>4 DEF PkgTypeOK
<1>2. Pending /\ PinsRead /\ PinsKept /\ OnDisk /\ Written
  BY DEF Pending, PinsRead, PinsKept, OnDisk, Written
<1> QED
  BY <1>1, <1>2 DEF DiskInv, PinInv

\* What Stop leaves satisfies every part about the locals.
LEMMA StopIdle ==
    ASSUME PkgTypeOK, NEW how \in {"ok", "nothing", "failed", "refused", "died"}, Stop(how)
    PROVE  /\ pc' = "idle" /\ result' = how /\ todo' = {} /\ cur' = No /\ url' = No /\ body' = No
           /\ prev' \in [Deps -> Entry \cup {No}] /\ new' \in [Deps -> Entry \cup {No}]
           /\ Pending' /\ PinsRead' /\ PinsKept'
<1>1. NoEntries \in [Deps -> Entry \cup {No}]
  BY DEF NoEntries
<1>2. new' \in [Deps -> Entry \cup {No}]
  BY <1>1 DEF Stop, PkgTypeOK
<1> QED
  BY <1>1, <1>2 DEF Stop, Pending, PinsRead, PinsKept

\* Recording the dependency at hand keeps the bookkeeping.
LEMMA RecordPending ==
    ASSUME PinInv, cur \in todo, pc \in {"resolved", "write", "copy"},
           NEW a \in Address \cup {Path}, NEW s \in Bodies \cup {No, "torn"},
           Record(cur, a, s), UNCHANGED <<lock, manifest>>,
           SamePin(prev[cur], [url |-> a, sha |-> s])
    PROVE  /\ new' \in [Deps -> Entry \cup {No}] /\ todo' \subseteq Deps
           /\ pc' = "dep" /\ cur' = No /\ url' = No /\ body' = No
           /\ prev' = prev /\ result' = result
           /\ \A n \in Deps : new'[n] = IF n = cur THEN [url |-> a, sha |-> s] ELSE new[n]
           /\ Pending' /\ PinsRead' /\ PinsKept'
<1> USE DEF PinInv
<1>1. new \in [Deps -> Entry \cup {No}] /\ todo \subseteq Deps /\ cur \in Deps
  BY DEF PkgTypeOK
<1>2. [url |-> a, sha |-> s] \in Entry
  BY DEF Entry
<1>3. /\ new' = [new EXCEPT ![cur] = [url |-> a, sha |-> s]]
      /\ todo' = todo \ {cur} /\ pc' = "dep" /\ cur' = No /\ url' = No /\ body' = No
      /\ prev' = prev /\ result' = result
  BY DEF Record
<1>4. new' \in [Deps -> Entry \cup {No}] /\ todo' \subseteq Deps
  BY <1>1, <1>2, <1>3
<1>5. \A n \in Deps : new'[n] = IF n = cur THEN [url |-> a, sha |-> s] ELSE new[n]
  BY <1>1, <1>3
<1>6. Pending'
  BY <1>1, <1>3, <1>5 DEF Pending
<1>7. PinsRead'
  BY <1>3 DEF PinsRead
<1>8. PinsKept'
  BY <1>3, <1>5 DEF PinsKept
<1> QED
  BY <1>3, <1>4, <1>5, <1>6, <1>7, <1>8

\* What a cut leaves of an entry: nothing, the entry, or the entry with its
\* sha256 gone or torn.
LEMMA CutsTyped ==
    ASSUME NEW l \in [Deps -> Entry \cup {No}], NEW c \in Cuts(l)
    PROVE  /\ c \in [Deps -> Entry \cup {No}]
           /\ \A n \in Deps : c[n] # No =>
                 l[n] # No /\ c[n].url = l[n].url /\ c[n].sha \in {l[n].sha, No, "torn"}
<1> DEFINE Left(n, e) == /\ e \in Entry \cup {No}
                         /\ e # No => l[n] # No /\ e.url = l[n].url /\ e.sha \in {l[n].sha, No, "torn"}
<1>1. \A n \in Deps : Left(n, Bare(l[n])) /\ Left(n, Half(l[n])) /\ Left(n, l[n]) /\ Left(n, No)
  BY DEF Entry, Bare, Half
<1>2. \A n \in Deps : {Bare(l[n]), Half(l[n]), l[n], No} \subseteq Entry \cup {No}
  BY <1>1
<1>3. c \in [Deps -> Entry \cup {No}] /\ \A n \in Deps : c[n] \in {Bare(l[n]), Half(l[n]), l[n], No}
  <2> HIDE DEF Left
  <2>1. CASE c \in {[n \in Deps |-> IF n \in kept THEN Bare(l[n]) ELSE No] : kept \in SUBSET Deps}
    <3>1. PICK kept \in SUBSET Deps : c = [n \in Deps |-> IF n \in kept THEN Bare(l[n]) ELSE No]
      BY <2>1
    <3> QED
      BY <3>1, <1>2
  <2>2. CASE c \in {[n \in Deps |-> IF n = t THEN Half(l[n])
                                   ELSE IF n \in kept THEN l[n] ELSE Bare(l[n])] :
                   t \in Deps, kept \in SUBSET Deps}
    <3>1. PICK t \in Deps, kept \in SUBSET Deps :
             c = [n \in Deps |-> IF n = t THEN Half(l[n])
                                ELSE IF n \in kept THEN l[n] ELSE Bare(l[n])]
      BY <2>2
    <3> QED
      BY <3>1, <1>2
  <2> QED
    BY <2>1, <2>2 DEF Cuts
<1>4. \A n \in Deps : Left(n, c[n])
  <2> HIDE DEF Left
  <2> QED
    BY <1>1, <1>3
<1> QED
  BY <1>3, <1>4

-----------------------------------------------------------------------------
(* One lemma per action of cmd_install, one for the world around it. *)


\* The returns that change no file.
LEMMA StepReturn ==
    ASSUME PinInv, NothingToDo \/ Fail
    PROVE  PinInv' /\ result' \in {"nothing", "failed"} /\ pc' = "idle" /\ UNCHANGED <<files, ghosts>>
<1>1. PICK how \in {"nothing", "failed"} : Stop(how) /\ UNCHANGED <<files, ghosts>>
  BY DEF NothingToDo, Fail
<1>2. PkgTypeOK /\ how \in {"ok", "nothing", "failed", "refused", "died"}
  BY DEF PinInv
<1>3. /\ pc' = "idle" /\ result' = how /\ todo' = {} /\ cur' = No /\ url' = No /\ body' = No
      /\ prev' \in [Deps -> Entry \cup {No}] /\ new' \in [Deps -> Entry \cup {No}]
      /\ Pending' /\ PinsRead' /\ PinsKept'
  BY <1>1, <1>2, StopIdle
<1>4. PkgTypeOK'
  BY <1>1, <1>2, <1>3 DEF PkgTypeOK, files, ghosts
<1> QED
  BY <1>1, <1>3, <1>4 DEF PinInv

LEMMA StepStart ==
    ASSUME PinInv, Start
    PROVE  PinInv' /\ new' = NoEntries /\ result' = No /\ pc' = "dep" /\ short' = {}
<1> USE DEF Start, files, ghosts
<1>1. NoEntries \in [Deps -> Entry \cup {No}]
  BY DEF NoEntries
<1>2. PkgTypeOK'
  BY <1>1 DEF PinInv, PkgTypeOK
<1>3. Pending' /\ PinsRead' /\ PinsKept'
  BY DEF PinInv, Pending, PinsRead, PinsKept, NoEntries, SamePin
<1> QED
  BY <1>2, <1>3 DEF PinInv

LEMMA StepSkip ==
    ASSUME PinInv, NEW n \in Deps, Skip(n)
    PROVE  PinInv'
<1> USE DEF Skip, files, ghosts
<1>1. PkgTypeOK'
  BY DEF PinInv, PkgTypeOK
<1>2. Pending' /\ PinsRead' /\ PinsKept'
  BY DEF PinInv, Pending, PinsRead, PinsKept
<1> QED
  BY <1>1, <1>2 DEF PinInv

LEMMA StepResolve ==
    ASSUME PinInv, NEW n \in Deps, Resolve(n)
    PROVE  PinInv'
<1> USE DEF Resolve, files, ghosts
<1>1. url' \in Address
  <2> DEFINE s == manifest[n]
  <2>1. s \in Specs
    BY DEF PinInv, PkgTypeOK, Pending
  <2>2. s.kind \in {"url", "exact", "range"} => s.of \subseteq Address
    BY <2>1, InstallAssumption DEF Address
  <2>3. PickBest(n, s.of) \subseteq s.of
    BY DEF PickBest
  <2> QED
    BY <2>2, <2>3
<1>2. PkgTypeOK'
  BY <1>1 DEF PinInv, PkgTypeOK
<1>3. Pending' /\ PinsRead' /\ PinsKept'
  BY DEF PinInv, Pending, PinsRead, PinsKept
<1> QED
  BY <1>2, <1>3 DEF PinInv

LEMMA StepCached ==
    ASSUME PinInv, Cached
    PROVE  /\ PinInv' /\ UNCHANGED <<disk, result, short>> /\ pc' = "dep" /\ cur \in todo
           /\ \A n \in Deps : new'[n] = IF n = cur THEN [url |-> url, sha |-> prev[cur].sha] ELSE new[n]
           /\ disk[cur] = prev[cur].sha
<1> USE DEF Cached, files, ghosts
<1>1. /\ cur \in todo /\ url \in Address /\ cur \in Deps
      /\ prev[cur] \in Entry /\ prev[cur].url = url /\ disk[cur] = prev[cur].sha
  BY DEF PinInv, PkgTypeOK, Pending, LocalMatchesLock
<1>2. prev[cur].sha \in Bodies \cup {No, "torn"}
  BY <1>1 DEF Entry
<1>3. SamePin(prev[cur], [url |-> url, sha |-> prev[cur].sha])
  BY DEF SamePin
<1>4. /\ new' \in [Deps -> Entry \cup {No}] /\ todo' \subseteq Deps
      /\ pc' = "dep" /\ cur' = No /\ url' = No /\ body' = No
      /\ prev' = prev /\ result' = result
      /\ \A n \in Deps : new'[n] = IF n = cur THEN [url |-> url, sha |-> prev[cur].sha] ELSE new[n]
      /\ Pending' /\ PinsRead' /\ PinsKept'
  BY <1>1, <1>2, <1>3, RecordPending
<1>5. PkgTypeOK'
  BY <1>4 DEF PinInv, PkgTypeOK
<1> QED
  BY <1>1, <1>4, <1>5 DEF PinInv

LEMMA StepFetch ==
    ASSUME PinInv, Fetch
    PROVE  /\ PinInv' /\ cur \in todo /\ result' # "ok" /\ UNCHANGED short
           /\ \A n \in Deps : n # cur => disk'[n] = disk[n]
           /\ pc' = "write" => new' = new
<1> USE DEF Fetch, ghosts
<1> DEFINE b == served[cur][url]
<1>1. /\ cur \in todo /\ cur \in Deps /\ url \in Address /\ PkgTypeOK
      /\ result # "ok"
  BY InstallAssumption DEF PinInv, PkgTypeOK, Pending
<1>2. b \in Bodies
  BY <1>1 DEF PkgTypeOK
<1>3. CASE PinBroken(cur, url, b)
  <2>1. Stop("refused") /\ UNCHANGED disk
    BY <1>3
  <2>2. /\ pc' = "idle" /\ result' = "refused" /\ todo' = {} /\ cur' = No /\ url' = No /\ body' = No
        /\ prev' \in [Deps -> Entry \cup {No}] /\ new' \in [Deps -> Entry \cup {No}]
        /\ Pending' /\ PinsRead' /\ PinsKept'
    BY <1>1, <2>1, StopIdle
  <2>3. PkgTypeOK'
    BY <1>1, <2>1, <2>2 DEF PkgTypeOK, ghosts
  <2> QED
    BY <1>1, <2>1, <2>2, <2>3 DEF PinInv
<1>4. CASE ~PinBroken(cur, url, b)
  <2>1. /\ disk' = [disk EXCEPT ![cur] = "empty"] /\ pc' = "write" /\ body' = b
        /\ UNCHANGED <<prev, todo, cur, url, new, result, manifest, registry, served, lock, ghosts>>
    BY <1>4
  <2>2. PkgTypeOK'
    BY <1>1, <1>2, <2>1 DEF PkgTypeOK, ghosts
  <2>3. Pending' /\ PinsRead'
    BY <2>1 DEF PinInv, Pending, PinsRead
  <2>4. PinsKept'
    BY <1>4, <2>1 DEF PinInv, PinsKept, PinBroken
  <2> QED
    BY <1>1, <2>1, <2>2, <2>3, <2>4 DEF PinInv, PkgTypeOK
<1> QED
  BY <1>3, <1>4

LEMMA StepWrite ==
    ASSUME PinInv, Write
    PROVE  /\ PinInv' /\ cur \in todo
           /\ \/ /\ pc' = "dep"
                 /\ short \subseteq short' /\ (cur \notin short' => disk'[cur] = body)
                 /\ \A n \in Deps : n # cur => disk'[n] = disk[n]
                 /\ \A n \in Deps : new'[n] = IF n = cur THEN [url |-> url, sha |-> body] ELSE new[n]
              \/ pc' = "idle" /\ result' = "failed"
           /\ pc' = "dep" => UNCHANGED result
<1>1. /\ cur \in todo /\ cur \in Deps /\ url \in Address /\ body \in Bodies /\ PkgTypeOK
      /\ pc = "write" /\ ~PinBroken(cur, url, body)
      /\ UNCHANGED <<manifest, registry, served, lock, changed, intent, events>>
  BY DEF Write, PinInv, PkgTypeOK, Pending, PinsKept
<1>2. PICK w \in Writes :
        \/ /\ w # "error" /\ body \notin Spoilt /\ (w = "short" => body \in Files)
           /\ disk' = [disk EXCEPT ![cur] = IF w = "full" THEN body ELSE "partial"]
           /\ short' = IF w = "full" THEN short ELSE short \cup {cur}
           /\ Record(cur, url, body)
        \/ /\ w = "error"
           /\ disk' = IF body \in Bundles THEN [disk EXCEPT ![cur] = "partial"] ELSE disk
           /\ Stop("failed") /\ UNCHANGED short
  BY DEF Write
<1>3. CASE w # "error" /\ Record(cur, url, body)
           /\ disk' = [disk EXCEPT ![cur] = IF w = "full" THEN body ELSE "partial"]
           /\ short' = IF w = "full" THEN short ELSE short \cup {cur}
  <2>1. SamePin(prev[cur], [url |-> url, sha |-> body])
    BY <1>1 DEF SamePin, PinBroken
  <2>2. /\ new' \in [Deps -> Entry \cup {No}] /\ todo' \subseteq Deps
        /\ pc' = "dep" /\ cur' = No /\ url' = No /\ body' = No
        /\ prev' = prev /\ result' = result
        /\ \A n \in Deps : new'[n] = IF n = cur THEN [url |-> url, sha |-> body] ELSE new[n]
        /\ Pending' /\ PinsRead' /\ PinsKept'
    BY <1>1, <1>3, <2>1, RecordPending
  <2>3. /\ disk' \in [Deps -> Bodies \cup {No, "empty", "partial", "edited", "copy"}]
        /\ \A n \in Deps : n # cur => disk'[n] = disk[n]
    BY <1>1, <1>3 DEF PkgTypeOK
  <2>4. /\ short \subseteq short' /\ short' \subseteq Deps \cup {"tulpar.lock"}
        /\ cur \notin short' => disk'[cur] = body
    BY <1>1, <1>3 DEF PkgTypeOK
  <2>5. PkgTypeOK'
    BY <1>1, <2>2, <2>3, <2>4 DEF PkgTypeOK
  <2> QED
    BY <1>1, <2>2, <2>3, <2>4, <2>5 DEF PinInv
<1>4. CASE /\ Stop("failed") /\ UNCHANGED short
           /\ disk' = IF body \in Bundles THEN [disk EXCEPT ![cur] = "partial"] ELSE disk
  <2>1. /\ pc' = "idle" /\ result' = "failed" /\ todo' = {} /\ cur' = No /\ url' = No /\ body' = No
        /\ prev' \in [Deps -> Entry \cup {No}] /\ new' \in [Deps -> Entry \cup {No}]
        /\ Pending' /\ PinsRead' /\ PinsKept'
    BY <1>1, <1>4, StopIdle
  <2>2. disk' \in [Deps -> Bodies \cup {No, "empty", "partial", "edited", "copy"}]
    BY <1>1, <1>4 DEF PkgTypeOK
  <2>3. PkgTypeOK'
    BY <1>1, <1>4, <2>1, <2>2 DEF PkgTypeOK
  <2> QED
    BY <1>1, <2>1, <2>3 DEF PinInv
<1> QED
  BY <1>2, <1>3, <1>4

LEMMA StepCopyStart ==
    ASSUME PinInv, NEW n \in Deps, CopyStart(n)
    PROVE  /\ PinInv' /\ n \in todo /\ UNCHANGED short
           /\ \A m \in Deps : m # n => disk'[m] = disk[m]
<1> USE DEF CopyStart, ghosts
<1>1. PkgTypeOK'
  BY DEF PinInv, PkgTypeOK
<1>2. Pending' /\ PinsRead' /\ PinsKept'
  BY DEF PinInv, Pending, PinsRead, PinsKept
<1> QED
  BY <1>1, <1>2 DEF PinInv, PkgTypeOK

LEMMA StepCopy ==
    ASSUME PinInv, Copy
    PROVE  /\ PinInv' /\ cur \in todo /\ UNCHANGED short
           /\ \/ /\ pc' = "dep" /\ UNCHANGED result
                 /\ \A n \in Deps : n # cur => disk'[n] = disk[n]
                 /\ \A n \in Deps : new'[n] = IF n = cur THEN [url |-> Path, sha |-> No] ELSE new[n]
              \/ pc' = "idle" /\ result' = "failed"
<1>1. /\ cur \in todo /\ cur \in Deps /\ PkgTypeOK /\ pc = "copy"
      /\ UNCHANGED <<manifest, registry, served, lock, ghosts>>
      /\ UNCHANGED short
  BY DEF Copy, PinInv, PkgTypeOK, Pending, ghosts
<1>2. PICK left \in {"copy", "partial", "empty"} :
        /\ disk' = [disk EXCEPT ![cur] = left]
        /\ Record(cur, Path, No) \/ Stop("failed")
  BY DEF Copy
<1>3. CASE Record(cur, Path, No)
  <2>1. SamePin(prev[cur], [url |-> Path, sha |-> No])
    BY DEF SamePin
  <2>2. /\ new' \in [Deps -> Entry \cup {No}] /\ todo' \subseteq Deps
        /\ pc' = "dep" /\ cur' = No /\ url' = No /\ body' = No
        /\ prev' = prev /\ result' = result
        /\ \A n \in Deps : new'[n] = IF n = cur THEN [url |-> Path, sha |-> No] ELSE new[n]
        /\ Pending' /\ PinsRead' /\ PinsKept'
    BY <1>1, <1>3, <2>1, RecordPending
  <2>3. PkgTypeOK'
    BY <1>1, <1>2, <2>2 DEF PkgTypeOK, ghosts
  <2>4. \A n \in Deps : n # cur => disk'[n] = disk[n]
    BY <1>1, <1>2 DEF PkgTypeOK
  <2> QED
    BY <1>1, <2>2, <2>3, <2>4 DEF PinInv
<1>4. CASE Stop("failed")
  <2>1. /\ pc' = "idle" /\ result' = "failed" /\ todo' = {} /\ cur' = No /\ url' = No /\ body' = No
        /\ prev' \in [Deps -> Entry \cup {No}] /\ new' \in [Deps -> Entry \cup {No}]
        /\ Pending' /\ PinsRead' /\ PinsKept'
    BY <1>1, <1>4, StopIdle
  <2>2. PkgTypeOK'
    BY <1>1, <1>2, <2>1 DEF PkgTypeOK, ghosts
  <2> QED
    BY <1>1, <2>1, <2>2 DEF PinInv
<1> QED
  BY <1>2, <1>3, <1>4

LEMMA StepOpenLock ==
    ASSUME PinInv, OpenLock
    PROVE  /\ PinInv' /\ UNCHANGED <<disk, new>>
           /\ \/ /\ pc' = "idle" /\ result' = "ok" /\ UNCHANGED lock
                 /\ short \subseteq short' /\ (new = NoEntries \/ "tulpar.lock" \in short')
              \/ pc' = "lock" /\ UNCHANGED result /\ lock' = NoEntries /\ UNCHANGED short
<1>1. /\ PkgTypeOK /\ pc = "dep" /\ todo = {}
      /\ UNCHANGED <<manifest, registry, served, disk, changed, intent, events>>
  BY DEF OpenLock, PinInv
<1>2. CASE /\ Stop("ok") /\ UNCHANGED lock
           /\ \/ new = NoEntries /\ short' = short
              \/ short' = short \cup {"tulpar.lock"}
  <2>1. /\ pc' = "idle" /\ result' = "ok" /\ todo' = {} /\ cur' = No /\ url' = No /\ body' = No
        /\ prev' \in [Deps -> Entry \cup {No}] /\ new' \in [Deps -> Entry \cup {No}]
        /\ Pending' /\ PinsRead' /\ PinsKept'
    BY <1>1, <1>2, StopIdle
  <2>2. new' = new
    BY <1>2 DEF Stop
  <2>3. PkgTypeOK'
    BY <1>1, <1>2, <2>1 DEF PkgTypeOK
  <2> QED
    BY <1>1, <1>2, <2>1, <2>2, <2>3 DEF PinInv
<1>3. CASE /\ new # NoEntries /\ pc' = "lock" /\ lock' = NoEntries
           /\ UNCHANGED <<prev, todo, cur, url, body, new, result, short>>
  <2>1. NoEntries \in [Deps -> Entry \cup {No}]
    BY DEF NoEntries
  <2>2. PkgTypeOK'
    BY <1>1, <1>3, <2>1 DEF PkgTypeOK
  <2>3. Pending' /\ PinsRead' /\ PinsKept'
    BY <1>1, <1>3 DEF PinInv, Pending, PinsRead, PinsKept
  <2> QED
    BY <1>1, <1>3, <2>2, <2>3 DEF PinInv
<1> QED
  BY <1>2, <1>3 DEF OpenLock

LEMMA StepWriteLock ==
    ASSUME PinInv, WriteLock
    PROVE  /\ PinInv' /\ UNCHANGED <<disk, new>> /\ pc' = "idle" /\ result' = "ok"
           /\ short \subseteq short'
           /\ lock' = new \/ (lock' \in Cuts(new) /\ "tulpar.lock" \in short')
<1>1. /\ PkgTypeOK /\ pc = "lock" /\ Stop("ok")
      /\ UNCHANGED <<manifest, registry, served, disk, changed, events>>
  BY DEF WriteLock, PinInv
<1>2. /\ pc' = "idle" /\ result' = "ok" /\ todo' = {} /\ cur' = No /\ url' = No /\ body' = No
      /\ prev' \in [Deps -> Entry \cup {No}] /\ new' \in [Deps -> Entry \cup {No}]
      /\ Pending' /\ PinsRead' /\ PinsKept'
  BY <1>1, StopIdle
<1>3. /\ short' \in {short, short \cup {"tulpar.lock"}}
      /\ lock' = new \/ (lock' \in Cuts(new) /\ "tulpar.lock" \in short')
  BY DEF WriteLock
<1>4. lock' \in [Deps -> Entry \cup {No}]
  BY <1>1, <1>3, CutsTyped DEF PkgTypeOK
<1>5. PkgTypeOK'
  BY <1>1, <1>2, <1>3, <1>4 DEF PkgTypeOK
<1>6. new' = new
  BY <1>1 DEF Stop
<1> QED
  BY <1>1, <1>2, <1>3, <1>5, <1>6 DEF PinInv

LEMMA StepDie ==
    ASSUME PinInv, Die
    PROVE  /\ PinInv' /\ pc' = "idle" /\ result' = "died"
           /\ lock' = lock \/ (pc = "lock" /\ lock' \in Cuts(new))
<1>1. /\ PkgTypeOK /\ pc # "idle" /\ Stop("died")
      /\ UNCHANGED <<manifest, registry, served, ghosts>>
  BY DEF Die, PinInv
<1>2. /\ pc' = "idle" /\ result' = "died" /\ todo' = {} /\ cur' = No /\ url' = No /\ body' = No
      /\ prev' \in [Deps -> Entry \cup {No}] /\ new' \in [Deps -> Entry \cup {No}]
      /\ Pending' /\ PinsRead' /\ PinsKept'
  BY <1>1, StopIdle
<1>3. lock' = lock \/ (pc = "lock" /\ lock' \in Cuts(new))
  BY DEF Die
<1>4. lock' \in [Deps -> Entry \cup {No}]
  BY <1>1, <1>3, CutsTyped DEF PkgTypeOK
<1>5. disk' \in [Deps -> Bodies \cup {No, "empty", "partial", "edited", "copy"}]
  BY <1>1 DEF PkgTypeOK, Die
<1>6. PkgTypeOK'
  BY <1>1, <1>2, <1>4, <1>5 DEF PkgTypeOK, ghosts
<1> QED
  BY <1>1, <1>2, <1>3, <1>6 DEF PinInv

LEMMA StepOutside ==
    ASSUME PinInv, Outside
    PROVE  /\ PinInv' /\ UNCHANGED <<new, short>>
           /\ \/ UNCHANGED <<lock, disk, pc, result>>
              \/ pc = "idle" /\ result' = No /\ UNCHANGED pc /\ lock' \in {lock, NoEntries}
<1> USE DEF files, locals, PinInv
<1>1. Pending' /\ PinsRead' /\ PinsKept' /\ UNCHANGED locals
  BY DEF Outside, Serve, EditManifest, SetRegistry, EditDisk, DeleteLock,
         Pending, PinsRead, PinsKept, PinBroken
<1>2. events' \in 0..MaxEvents
  BY InstallAssumption DEF Outside, Serve, EditManifest, SetRegistry, EditDisk,
         DeleteLock, Event, PkgTypeOK
<1>3. CASE \E n \in Deps, a \in Address, b \in Bodies : Serve(n, a, b)
  BY <1>1, <1>2, <1>3 DEF Serve, PkgTypeOK
<1>4. CASE \E n \in Deps, s \in Specs \cup {No} : EditManifest(n, s)
  BY <1>1, <1>2, <1>4 DEF EditManifest, PkgTypeOK
<1>5. CASE SetRegistry
  BY <1>1, <1>2, <1>5 DEF SetRegistry, PkgTypeOK
<1>6. CASE \E n \in Deps, how \in {No, "edited"} : EditDisk(n, how)
  BY <1>1, <1>2, <1>6 DEF EditDisk, PkgTypeOK
<1>7. CASE DeleteLock
  <2>1. NoEntries \in [Deps -> Entry \cup {No}]
    BY DEF NoEntries
  <2> QED
    BY <1>1, <1>2, <1>7, <2>1 DEF DeleteLock, PkgTypeOK
<1> QED
  BY <1>3, <1>4, <1>5, <1>6, <1>7 DEF Outside

LEMMA PinInvNext == PinInv /\ [Next]_vars => PinInv'
<1> SUFFICES ASSUME PinInv, [Next]_vars PROVE PinInv'
  OBVIOUS
<1>1. CASE Install
  BY <1>1, StepReturn, StepStart, StepSkip, StepResolve, StepCached, StepFetch,
     StepWrite, StepCopyStart, StepCopy, StepOpenLock, StepWriteLock, StepDie DEF Install
<1>2. CASE Outside
  BY <1>2, StepOutside
<1>3. CASE UNCHANGED vars
  BY <1>3 DEF PinInv, PkgTypeOK, Pending, PinsRead, PinsKept, PinBroken, vars, files, locals, ghosts
<1> QED
  BY <1>1, <1>2, <1>3 DEF Next

LEMMA PinInvariant == Spec => []PinInv
<1>1. Init => PinInv
  BY InstallInit DEF DiskInv
<1> QED
  BY <1>1, PinInvNext, PTL DEF Spec

\* One step keeps the pins.
KeepsPins ==
    \A n \in Deps :
        LET old == IF pc = "lock" THEN prev[n] ELSE lock[n]
            now == lock'[n] IN
        old # No /\ now # No /\ old.url = now.url /\ No \notin {old.sha, now.sha}
            => now.sha \in {old.sha, "torn"}

LEMMA StepKeepsPins == PinInv /\ [Next]_vars => KeepsPins
<1> SUFFICES ASSUME PinInv, [Next]_vars PROVE KeepsPins
  OBVIOUS
<1>1. pc = "lock" => lock = NoEntries /\ \A n \in Deps : SamePin(prev[n], new[n])
  BY DEF PinInv, PinsRead, PinsKept
<1>2. \/ lock' = lock \/ lock' = NoEntries
      \/ pc = "lock" /\ (lock' = new \/ lock' \in Cuts(new))
  <2>1. CASE Install
    BY <2>1, StepReturn, StepOpenLock, StepWriteLock, StepDie
       DEF Install, Start, Skip, Resolve, Cached, Fetch, Write, CopyStart, Copy,
           WriteLock, files
  <2>2. CASE Outside
    BY <2>2, StepOutside
  <2>3. CASE UNCHANGED vars
    BY <2>3 DEF vars, files
  <2> QED
    BY <2>1, <2>2, <2>3 DEF Next
<1>3. CASE lock' = NoEntries \/ (lock' = lock /\ pc = "lock")
  BY <1>1, <1>3 DEF KeepsPins, NoEntries
<1>4. CASE lock' = lock /\ pc # "lock"
  BY <1>4 DEF KeepsPins
<1>5. CASE pc = "lock" /\ lock' = new
  BY <1>1, <1>5 DEF KeepsPins, SamePin
<1>6. CASE pc = "lock" /\ lock' \in Cuts(new)
  <2>1. new \in [Deps -> Entry \cup {No}]
    BY DEF PinInv, PkgTypeOK
  <2>2. \A n \in Deps : lock'[n] # No =>
           new[n] # No /\ lock'[n].url = new[n].url /\ lock'[n].sha \in {new[n].sha, No, "torn"}
    BY <1>6, <2>1, CutsTyped
  <2> QED
    BY <1>1, <1>6, <2>2 DEF KeepsPins, SamePin
<1> QED
  BY <1>2, <1>3, <1>4, <1>5, <1>6

\* A pinned address is never silently re-pinned to other bytes (the lockfile pin
\* of cmd_install), whatever crashes, short writes and edits happen.
THEOREM PinsAlwaysHold == Spec => PinsHold
<1>1. PinInv /\ [Next]_vars => [KeepsPins]_vars
  BY StepKeepsPins
<1> QED
  BY <1>1, PinInvariant, PTL DEF Spec, PinsHold, KeepsPins

-----------------------------------------------------------------------------

LEMMA DiskInvNext == DiskInv /\ [Next]_vars => DiskInv'
<1> SUFFICES ASSUME DiskInv, [Next]_vars PROVE OnDisk' /\ Written'
  BY PinInvNext DEF DiskInv
<1> USE DEF OnDisk, Written
<1>1. /\ PinInv /\ OnDisk /\ Written /\ No # "ok"
      /\ new \in [Deps -> Entry \cup {No}]
      /\ \A n \in todo : new[n] = No
      /\ pc # "idle" => result = No
  BY InstallAssumption DEF DiskInv, PinInv, PkgTypeOK, Pending
<1>2. CASE NothingToDo \/ Fail \/ Die
  BY <1>1, <1>2, StepReturn, StepDie
<1>3. CASE Start
  BY <1>1, <1>3, StepStart DEF NoEntries
<1>4. CASE \E n \in Deps : Skip(n) \/ Resolve(n)
  BY <1>1, <1>4 DEF Skip, Resolve, files, ghosts
<1>5. CASE Cached
  BY <1>1, <1>5, StepCached DEF Cached
<1>6. CASE Fetch
  <2>1. /\ pc = "resolved" /\ cur \in todo /\ result' # "ok" /\ UNCHANGED short
        /\ \A n \in Deps : n # cur => disk'[n] = disk[n]
        /\ pc' = "idle" \/ (pc' = "write" /\ new' = new)
    <3>1. pc = "resolved" /\ (pc' = "idle" \/ pc' = "write")
      BY <1>6 DEF Fetch, Stop
    <3> QED
      BY <1>1, <1>6, <3>1, StepFetch
  <2> QED
    BY <1>1, <2>1
<1>7. CASE Write
  <2>1. /\ cur \in todo /\ pc = "write"
        /\ \/ /\ pc' = "dep" /\ UNCHANGED result
              /\ short \subseteq short' /\ (cur \notin short' => disk'[cur] = body)
              /\ \A n \in Deps : n # cur => disk'[n] = disk[n]
              /\ \A n \in Deps : new'[n] = IF n = cur THEN [url |-> url, sha |-> body] ELSE new[n]
           \/ pc' = "idle" /\ result' = "failed"
    BY <1>1, <1>7, StepWrite DEF Write
  <2> QED
    BY <1>1, <2>1
<1>8. CASE \E n \in Deps : CopyStart(n)
  BY <1>1, <1>8, StepCopyStart DEF CopyStart
<1>9. CASE Copy
  <2>1. /\ cur \in todo /\ pc = "copy" /\ UNCHANGED short
        /\ \/ /\ pc' = "dep" /\ UNCHANGED result
              /\ \A n \in Deps : n # cur => disk'[n] = disk[n]
              /\ \A n \in Deps : new'[n] = IF n = cur THEN [url |-> Path, sha |-> No] ELSE new[n]
           \/ pc' = "idle" /\ result' = "failed"
    BY <1>1, <1>9, StepCopy DEF Copy
  <2> QED
    BY <1>1, <2>1
<1>10. CASE OpenLock
  <2>1. /\ pc = "dep" /\ result # "ok" /\ new' = new /\ disk' = disk /\ short \subseteq short'
        /\ \/ pc' = "idle" /\ (new = NoEntries \/ "tulpar.lock" \in short')
           \/ pc' = "lock" /\ result' = result
    BY <1>1, <1>10, StepOpenLock DEF OpenLock
  <2> QED
    BY <1>1, <2>1 DEF NoEntries
<1>11. CASE WriteLock
  BY <1>1, <1>11, StepWriteLock DEF WriteLock
<1>12. CASE Outside
  BY <1>1, <1>12, StepOutside
<1>13. CASE UNCHANGED vars
  BY <1>1, <1>13 DEF vars, files, locals, ghosts
<1> QED
  BY <1>2, <1>3, <1>4, <1>5, <1>6, <1>7, <1>8, <1>9, <1>10, <1>11, <1>12, <1>13
     DEF Next, Install

\* What a successful install leaves on disk is what the lockfile pins, but for
\* the files that very install wrote short without noticing: whatever earlier
\* installs tore, left half-done or wrote short is done again.
THEOREM InstallPins == Spec => []DiskIsPinned
<1>1. DiskInv => DiskIsPinned
  BY DEF DiskInv, OnDisk, Written, DiskIsPinned
<1> QED
  BY <1>1, InstallInit, DiskInvNext, PTL DEF Spec

-----------------------------------------------------------------------------

\* What is pinned is what the address serves, unless it changed its answer.
Honest(n, e) ==
    e # No /\ e.url \in Address /\ e.sha \notin {No, "torn"} =>
        e.sha = served[n][e.url] \/ <<n, e.url>> \in changed

PinsHonest ==
    /\ \A n \in Deps : Honest(n, lock[n]) /\ Honest(n, prev[n]) /\ Honest(n, new[n])
    /\ pc = "write" => Honest(cur, [url |-> url, sha |-> body])

\* Only Serve touches what Honest looks at, and it keeps it.
LEMMA ServeHonest ==
    ASSUME PinInv, NEW n \in Deps, NEW a \in Address, NEW b \in Bodies, Serve(n, a, b),
           NEW m \in Deps, NEW e, e # No => e.sha \in Bodies \cup {No, "torn"}, Honest(m, e)
    PROVE  Honest(m, e)'
<1> SUFFICES ASSUME e # No, e.url \in Address, e.sha \notin {No, "torn"}
             PROVE  e.sha = served'[m][e.url] \/ <<m, e.url>> \in changed'
  BY DEF Honest
<1>1. e.sha = served[m][e.url] \/ <<m, e.url>> \in changed
  BY DEF Honest
<1>2. /\ served \in [Deps -> [Address -> Bodies \cup {No}]]
      /\ served' = [served EXCEPT ![n][a] = b]
      /\ changed' = IF served[n][a] = No THEN changed ELSE changed \cup {<<n, a>>}
  BY DEF Serve, PinInv, PkgTypeOK
<1>3. CASE m = n /\ e.url = a
  BY <1>1, <1>2, <1>3
<1>4. CASE ~(m = n /\ e.url = a)
  <2>1. served'[m][e.url] = served[m][e.url]
    BY <1>2, <1>4
  <2> QED
    BY <1>1, <1>2, <2>1
<1> QED
  BY <1>3, <1>4

LEMMA PinsHonestNext == PinInv /\ PinsHonest /\ [Next]_vars => PinsHonest'
<1> SUFFICES ASSUME PinInv, PinsHonest, [Next]_vars PROVE PinsHonest'
  OBVIOUS
<1> USE DEF PinsHonest
<1>1. /\ lock \in [Deps -> Entry \cup {No}] /\ prev \in [Deps -> Entry \cup {No}]
      /\ new \in [Deps -> Entry \cup {No}]
      /\ pc \in {"resolved", "write", "copy"} => cur \in Deps
      /\ pc = "write" => body \in Bodies
  BY DEF PinInv, PkgTypeOK, Pending
<1>2. \A n \in Deps : Honest(n, NoEntries[n])
  BY DEF Honest, NoEntries
<1>3. CASE Install
  <2>1. UNCHANGED <<served, changed>>
    BY <1>3 DEF Install, NothingToDo, Start, Skip, Resolve, Fail, Cached, Fetch, Write,
                CopyStart, Copy, OpenLock, WriteLock, Die, files, ghosts
  <2> SUFFICES /\ \A n \in Deps : Honest(n, lock'[n]) /\ Honest(n, prev'[n]) /\ Honest(n, new'[n])
               /\ pc' = "write" => Honest(cur', [url |-> url', sha |-> body'])
    BY <2>1 DEF Honest
  <2>2. ASSUME NEW how, Stop(how)
        PROVE  /\ pc' = "idle"
               /\ \A n \in Deps : Honest(n, prev'[n]) /\ Honest(n, new'[n])
    BY <1>2, <2>2 DEF Stop
  <2>3. \A n \in Deps : Honest(n, lock'[n])
    <3>1. \/ lock' = lock \/ lock' = NoEntries \/ lock' = new \/ lock' \in Cuts(new)
      BY <1>3, StepReturn, StepOpenLock, StepWriteLock, StepDie
         DEF Install, Start, Skip, Resolve, Cached, Fetch, Write, CopyStart, Copy,
             WriteLock, files
    <3>2. CASE lock' \in Cuts(new)
      <4>1. \A n \in Deps : lock'[n] # No =>
               new[n] # No /\ lock'[n].url = new[n].url /\ lock'[n].sha \in {new[n].sha, No, "torn"}
        BY <1>1, <3>2, CutsTyped
      <4> QED
        BY <4>1 DEF Honest
    <3> QED
      BY <1>2, <3>1, <3>2
  <2>4. CASE NothingToDo \/ Fail \/ WriteLock \/ Die
    <3>1. \E how : Stop(how)
      BY <2>4 DEF NothingToDo, Fail, WriteLock, Die
    <3> QED
      BY <2>2, <2>3, <3>1
  <2>5. CASE OpenLock
    <3>1. Stop("ok") \/ (pc' = "lock" /\ UNCHANGED <<prev, new>>)
      BY <2>5 DEF OpenLock
    <3> QED
      BY <2>2, <2>3, <3>1
  <2>6. CASE Start
    BY <1>2, <2>3, <2>6 DEF Start
  <2>7. CASE \E n \in Deps : Skip(n) \/ Resolve(n) \/ CopyStart(n)
    BY <2>3, <2>7 DEF Skip, Resolve, CopyStart
  <2>8. CASE Cached
    <3>1. /\ cur \in Deps /\ prev[cur] # No /\ prev[cur].url = url
          /\ pc' = "dep" /\ prev' = prev
          /\ new' = [new EXCEPT ![cur] = [url |-> url, sha |-> prev[cur].sha]]
      BY <1>1, <2>8 DEF Cached, LocalMatchesLock, Record
    <3>2. Honest(cur, [url |-> url, sha |-> prev[cur].sha])
      BY <3>1 DEF Honest
    <3> QED
      BY <1>1, <2>3, <3>1, <3>2
  <2>9. CASE Fetch
    <3> DEFINE b == served[cur][url]
    <3>1. CASE PinBroken(cur, url, b)
      BY <2>2, <2>3, <2>9, <3>1 DEF Fetch
    <3>2. CASE ~PinBroken(cur, url, b)
      <4>1. body' = b /\ UNCHANGED <<prev, new, cur, url>>
        BY <2>9, <3>2 DEF Fetch
      <4> QED
        BY <2>3, <4>1 DEF Honest
    <3> QED
      BY <3>1, <3>2
  <2>10. CASE Write
    <3>1. Stop("failed") \/ Record(cur, url, body)
      BY <2>10 DEF Write
    <3>2. pc = "write" /\ cur \in Deps
      BY <1>1, <2>10 DEF Write, PinInv, PkgTypeOK
    <3>3. CASE Record(cur, url, body)
      BY <1>1, <2>3, <3>2, <3>3 DEF Record
    <3> QED
      BY <2>2, <2>3, <3>1, <3>3
  <2>11. CASE Copy
    <3>1. Stop("failed") \/ Record(cur, Path, No)
      BY <2>11 DEF Copy
    <3>2. cur \in Deps
      BY <1>1, <2>11 DEF Copy
    <3>3. Honest(cur, [url |-> Path, sha |-> No])
      BY DEF Honest
    <3>4. CASE Record(cur, Path, No)
      BY <1>1, <2>3, <3>2, <3>3, <3>4 DEF Record
    <3> QED
      BY <2>2, <2>3, <3>1, <3>4
  <2> QED
    BY <1>3, <2>4, <2>5, <2>6, <2>7, <2>8, <2>9, <2>10, <2>11 DEF Install
<1>4. CASE \E n \in Deps, a \in Address, b \in Bodies : Serve(n, a, b)
  <2>1. PICK n \in Deps, a \in Address, b \in Bodies : Serve(n, a, b)
    BY <1>4
  <2>2. UNCHANGED <<lock, prev, new, pc, cur, url, body>>
    BY <2>1 DEF Serve, locals
  <2>3. \A e \in Entry : e.sha \in Bodies \cup {No, "torn"}
    BY DEF Entry
  <2>4. \A m \in Deps : Honest(m, lock[m])' /\ Honest(m, prev[m])' /\ Honest(m, new[m])'
    BY <1>1, <2>1, <2>2, <2>3, ServeHonest
  <2>5. pc = "write" => Honest(cur, [url |-> url, sha |-> body])'
    BY <1>1, <2>1, <2>2, ServeHonest
  <2> QED
    BY <2>2, <2>4, <2>5
<1>5. CASE UNCHANGED <<served, changed, prev, new, pc, cur, url, body>> /\ lock' \in {lock, NoEntries}
  BY <1>2, <1>5 DEF Honest
<1>6. CASE Outside
  BY <1>4, <1>5, <1>6 DEF Outside, SetRegistry, DeleteLock, EditManifest, EditDisk, locals
<1> QED
  BY <1>3, <1>5, <1>6 DEF Next, vars, files, locals, ghosts

RefusedRightly ==
    result # "refused" /\ result' = "refused" =>
        <<cur, url>> \in changed \/ lock[cur].sha = "torn"

LEMMA StepRefuse == PinInv /\ PinsHonest /\ [Next]_vars => RefusedRightly
<1> SUFFICES ASSUME PinInv, PinsHonest, [Next]_vars,
                    result # "refused", result' = "refused"
             PROVE  <<cur, url>> \in changed \/ lock[cur].sha = "torn"
  BY DEF RefusedRightly
<1>1. Fetch
  BY StepReturn, StepStart, StepCached, StepWrite, StepCopy, StepOpenLock, StepWriteLock,
     StepDie, StepOutside, InstallAssumption
     DEF Next, Install, Skip, Resolve, CopyStart, vars
<1>2. PinBroken(cur, url, served[cur][url])
  BY <1>1 DEF Fetch
<1>3. prev = lock /\ cur \in Deps /\ url \in Address
  BY <1>1 DEF Fetch, PinInv, PinsRead, PkgTypeOK
<1> QED
  BY <1>2, <1>3 DEF PinBroken, PinsHonest, Honest

\* An install refuses only what did change behind its address, or what a crash
\* tore in the lockfile.
THEOREM RefusesOnlyTamper == Spec => RefusalMeansTamper
<1>1. Init => PinsHonest
  BY DEF Init, PinsHonest, Honest, NoEntries
<1>2. PinInv /\ PinsHonest /\ [Next]_vars => [RefusedRightly]_vars
  BY StepRefuse
<1> QED
  BY <1>1, <1>2, PinInvariant, PinsHonestNext, PTL DEF Spec, RefusalMeansTamper, RefusedRightly

\* Manifest, lockfile, disk and the locals of cmd_install stay in their types,
\* for any number of packages, installs, deaths and outside changes.
THEOREM PkgTypes == Spec => []PkgTypeOK
<1>1. PinInv => PkgTypeOK
  BY DEF PinInv
<1> QED
  BY <1>1, PinInvariant, PTL
=============================================================================
