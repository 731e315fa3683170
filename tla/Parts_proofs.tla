----------------------------- MODULE Parts_proofs ---------------------------
(***************************************************************************)
(* The two command-line tools that drive other programs: `tulpar update`,  *)
(* for any number of overlapping runs and files of a release, and the      *)
(* debug adapter, for any number of commands and gdb processes.            *)
(*                                                                         *)
(* And all the parts of MCParts side by side: what is proved of each module*)
(* alone holds where they are checked together.                            *)
(***************************************************************************)
EXTENDS MCParts, TryCatch_proofs, DbRegistry_proofs, Runtime_proofs, TLAPS

-----------------------------------------------------------------------------
(* tulpar update *)

\* A file is open for writing only while its download runs.
FdWhileWriting == \A u \in Updaters : suPc[u] # "writing" => suFd[u] = "none"

\* A run starts with the first file.
IdleAtFirst ==
    \A u \in Updaters : suPc[u] \in {"idle", "manifest", "script"} => suAt[u] = 1

\* A download that writes to an installed file writes to one that a rename
\* of an install loop put there.
MovedNotOld ==
    \A u \in Updaters : suFd[u] = "installed" => suInst[suAt[u]] \notin {"old", "script"}

\* The files before the one an install loop is at have been replaced.
LoopReplaced ==
    \A u \in Updaters, f \in Assets :
        \/ suPc[u] = "install" /\ f < suAt[u]
        \/ suPc[u] = "chmod" /\ f <= suAt[u]
        => suInst[f] # "old"

\* Run u has replaced some files and is not done.
InTheMiddle(u) ==
    suPc[u] = "chmod" \/ (suPc[u] = "install" /\ suAt[u] > 1)

\* All files were replaced, or none but by the script, unless a run is or ended
\* in the middle.
AllOrNone ==
    \/ suAborted
    \/ \A f \in Assets : suInst[f] \in {"old", "script"}
    \/ \A f \in Assets : suInst[f] # "old"
    \/ \E u \in Updaters : InTheMiddle(u)

\* Unless two runs overlapped, one run at most is going, and no file moves
\* away under a download.
Alone ==
    ~suOverlap =>
        /\ \A u, v \in Updaters :
              suPc[u] # "idle" /\ suPc[v] # "idle" => u = v
        /\ \A u \in Updaters : suFd[u] \in {"none", "staged"}

\* What the run that is going has verified, and not installed yet, is staged.
StagedIsVerified ==
    ~suOverlap =>
        \A u \in Updaters, f \in Assets :
            \/ suPc[u] \in {"download", "writing", "verify"} /\ f < suAt[u]
            \/ suPc[u] = "install" /\ f >= suAt[u]
            \/ suPc[u] = "chmod" /\ f > suAt[u]
            => suStage[f] = "new"

\* The compiler has its mode, or a run is between the rename and the chmod.
ExecKnown ==
    \/ 1 \in suExec
    \/ \E u \in Updaters : suPc[u] = "chmod" /\ suAt[u] = 1
    \/ 1 \in suCut
    \/ suOverlap
    \/ suInst[1] = "script"

SuInv ==
    /\ SuTypeOK
    /\ FdWhileWriting /\ IdleAtFirst /\ MovedNotOld /\ LoopReplaced /\ AllOrNone
    /\ Alone /\ StagedIsVerified /\ ExecKnown /\ InstalledIsVerified

\* One release is installed, and no run has started.
LEMMA SuInvInit == SuInit => SuInv
<1> SUFFICES ASSUME SuInit PROVE SuInv
  OBVIOUS
<1>1. 1 \in Assets
  BY UpdateAssumption DEF Assets
<1>2. SuTypeOK
  BY <1>1 DEF SuInit, SuTypeOK
<1>3. FdWhileWriting /\ IdleAtFirst /\ MovedNotOld /\ LoopReplaced /\ AllOrNone
  BY <1>1 DEF SuInit, FdWhileWriting, IdleAtFirst, MovedNotOld, LoopReplaced, AllOrNone
<1>4. Alone /\ StagedIsVerified /\ ExecKnown /\ InstalledIsVerified
  BY <1>1
  DEF SuInit, Alone, StagedIsVerified, ExecKnown, InstalledIsVerified
<1> QED
  BY <1>2, <1>3, <1>4 DEF SuInv

\* The function new is old with v at x.
Puts(new, old, S, x, v) == \A y \in S : new[y] = IF y = x THEN v ELSE old[y]

\* What the type invariant says of single values.
SuTyped ==
    /\ \A u \in Updaters : suAt[u] \in Assets
    /\ \A f \in Assets : suStage[f] \notin {"old", "script"}


\* A run starts.
LEMMA SuStartKeeps ==
  ASSUME SuInv, NEW u \in Updaters, NEW force \in BOOLEAN, SuStart(u, force)
  PROVE  SuInv'
<1> USE UpdateAssumption DEF Assets, Puts
<1>1. /\ SuTypeOK /\ FdWhileWriting /\ IdleAtFirst /\ MovedNotOld /\ LoopReplaced
      /\ AllOrNone /\ Alone /\ StagedIsVerified /\ ExecKnown
      /\ InstalledIsVerified /\ SuTyped
  BY DEF SuInv, SuTypeOK, SuTyped
<1>2. /\ suPc[u] = "idle"
      /\ Puts(suPc', suPc, Updaters, u, "manifest")
      /\ suOverlap => suOverlap'
      /\ ~suOverlap' => \A v \in Updaters \ {u} : suPc[v] = "idle"
      /\ UNCHANGED <<suStage, suInst, suExec, suAt, suFd, suCut,
                    suAborted>>
  BY <1>1 DEF SuTypeOK, SuStart, disk
<1>3. SuTypeOK'
  BY <1>1, <1>2 DEF SuTypeOK, SuStart, disk
<1>4. SuTyped'
  BY <1>3 DEF SuTypeOK, SuTyped
<1>5. FdWhileWriting'
  BY <1>1, <1>2, <1>4 DEF FdWhileWriting, SuTyped
<1>6. IdleAtFirst'
  BY <1>1, <1>2, <1>4 DEF IdleAtFirst, SuTyped
<1>7. MovedNotOld'
  BY <1>1, <1>2, <1>4 DEF MovedNotOld, SuTyped, FdWhileWriting
<1>8. LoopReplaced'
  BY <1>1, <1>2, <1>4 DEF LoopReplaced, SuTyped
<1>9. AllOrNone'
  BY <1>1, <1>2, <1>4 DEF AllOrNone, SuTyped, InTheMiddle, LoopReplaced
<1>10. Alone'
  BY <1>1, <1>2, <1>4 DEF Alone, SuTyped, FdWhileWriting
<1>11. StagedIsVerified'
  BY <1>1, <1>2, <1>4 DEF StagedIsVerified, SuTyped, Alone, IdleAtFirst
<1>12. ExecKnown'
  BY <1>1, <1>2, <1>4 DEF ExecKnown, SuTyped
<1>13. InstalledIsVerified'
  BY <1>1, <1>2, <1>4 DEF InstalledIsVerified, SuTyped, StagedIsVerified, Alone
<1> QED
  BY <1>3, <1>5, <1>6, <1>7, <1>8, <1>9, <1>10, <1>11, <1>12, <1>13 DEF SuInv

\* The manifest arrives, or the script is run in its place.
LEMMA SuManifestKeeps ==
  ASSUME SuInv, NEW u \in Updaters, SuManifest(u) \/ SuFallback(u)
  PROVE  SuInv'
<1> USE UpdateAssumption DEF Assets, Puts
<1>1. /\ SuTypeOK /\ FdWhileWriting /\ IdleAtFirst /\ MovedNotOld /\ LoopReplaced
      /\ AllOrNone /\ Alone /\ StagedIsVerified /\ ExecKnown
      /\ InstalledIsVerified /\ SuTyped
  BY DEF SuInv, SuTypeOK, SuTyped
<1>2. /\ suPc[u] = "manifest" /\ suPc'[u] \in {"download", "script"}
      /\ \A v \in Updaters \ {u} : suPc'[v] = suPc[v]
      /\ UNCHANGED <<suStage, suInst, suExec, suAt, suFd, suCut, suAborted,
                    suOverlap>>
  BY <1>1 DEF SuTypeOK, SuManifest, SuFallback, disk
<1>3. SuTypeOK'
  BY <1>1, <1>2 DEF SuTypeOK, SuManifest, SuFallback, disk
<1>4. SuTyped'
  BY <1>3 DEF SuTypeOK, SuTyped
<1>5. FdWhileWriting'
  BY <1>1, <1>2, <1>4 DEF FdWhileWriting, SuTyped
<1>6. IdleAtFirst'
  BY <1>1, <1>2, <1>4 DEF IdleAtFirst, SuTyped
<1>7. MovedNotOld'
  BY <1>1, <1>2, <1>4 DEF MovedNotOld, SuTyped, FdWhileWriting
<1>8. LoopReplaced'
  BY <1>1, <1>2, <1>4 DEF LoopReplaced, SuTyped
<1>9. AllOrNone'
  BY <1>1, <1>2, <1>4 DEF AllOrNone, SuTyped, InTheMiddle, LoopReplaced
<1>10. Alone'
  BY <1>1, <1>2, <1>4 DEF Alone, SuTyped, FdWhileWriting
<1>11. StagedIsVerified'
  BY <1>1, <1>2, <1>4 DEF StagedIsVerified, SuTyped, Alone, IdleAtFirst
<1>12. ExecKnown'
  BY <1>1, <1>2, <1>4 DEF ExecKnown, SuTyped
<1>13. InstalledIsVerified'
  BY <1>1, <1>2, <1>4 DEF InstalledIsVerified, SuTyped, StagedIsVerified, Alone
<1> QED
  BY <1>3, <1>5, <1>6, <1>7, <1>8, <1>9, <1>10, <1>11, <1>12, <1>13 DEF SuInv

\* The script puts a file in place.
LEMMA SuScriptPutsKeeps ==
  ASSUME SuInv, NEW u \in Updaters, NEW f \in Assets, SuScriptPuts(u, f)
  PROVE  SuInv'
<1> USE UpdateAssumption DEF Assets, Puts
<1>1. /\ SuTypeOK /\ FdWhileWriting /\ IdleAtFirst /\ MovedNotOld /\ LoopReplaced
      /\ AllOrNone /\ Alone /\ StagedIsVerified /\ ExecKnown
      /\ InstalledIsVerified /\ SuTyped
  BY DEF SuInv, SuTypeOK, SuTyped
<1>2. /\ suPc[u] = "script"
      /\ Puts(suInst', suInst, Assets, f, "script")
      /\ f # 1 => (1 \in suExec' <=> 1 \in suExec)
      /\ \A v \in Updaters :
           \/ suFd'[v] = suFd[v] /\ ~(suAt[v] = f /\ suFd[v] = "installed")
           \/ suFd[v] = "installed" /\ suFd'[v] = "unlinked"
      /\ UNCHANGED <<suStage, suPc, suAt, suCut, suAborted, suOverlap>>
  BY <1>1 DEF SuTypeOK, SuScriptPuts
<1>3. SuTypeOK'
  BY <1>1, <1>2 DEF SuTypeOK, SuScriptPuts
<1>4. SuTyped'
  BY <1>3 DEF SuTypeOK, SuTyped
<1>5. FdWhileWriting'
  BY <1>1, <1>2, <1>4 DEF FdWhileWriting, SuTyped
<1>6. IdleAtFirst'
  BY <1>1, <1>2, <1>4 DEF IdleAtFirst, SuTyped
<1>7. MovedNotOld'
  BY <1>1, <1>2, <1>4 DEF MovedNotOld, SuTyped, FdWhileWriting
<1>8. LoopReplaced'
  BY <1>1, <1>2, <1>4 DEF LoopReplaced, SuTyped
<1>9. AllOrNone'
  BY <1>1, <1>2, <1>4 DEF AllOrNone, SuTyped, InTheMiddle, LoopReplaced
<1>10. Alone'
  BY <1>1, <1>2, <1>4 DEF Alone, SuTyped, FdWhileWriting
<1>11. StagedIsVerified'
  BY <1>1, <1>2, <1>4 DEF StagedIsVerified, SuTyped, Alone, IdleAtFirst
<1>12. ExecKnown'
  BY <1>1, <1>2, <1>4 DEF ExecKnown, SuTyped
<1>13. InstalledIsVerified'
  BY <1>1, <1>2, <1>4 DEF InstalledIsVerified, SuTyped, StagedIsVerified, Alone
<1> QED
  BY <1>3, <1>5, <1>6, <1>7, <1>8, <1>9, <1>10, <1>11, <1>12, <1>13 DEF SuInv

\* A download creates or truncates the staged file.
LEMMA SuDownloadKeeps ==
  ASSUME SuInv, NEW u \in Updaters, SuDownload(u)
  PROVE  SuInv'
<1> USE UpdateAssumption DEF Assets, Puts
<1>1. /\ SuTypeOK /\ FdWhileWriting /\ IdleAtFirst /\ MovedNotOld /\ LoopReplaced
      /\ AllOrNone /\ Alone /\ StagedIsVerified /\ ExecKnown
      /\ InstalledIsVerified /\ SuTyped
  BY DEF SuInv, SuTypeOK, SuTyped
<1>2. /\ suPc[u] = "download"
      /\ Puts(suPc', suPc, Updaters, u, "writing")
      /\ Puts(suFd', suFd, Updaters, u, "staged")
      /\ Puts(suStage', suStage, Assets, suAt[u], "partial")
      /\ UNCHANGED <<suInst, suExec, suAt, suCut, suAborted,
                    suOverlap>>
  BY <1>1 DEF SuTypeOK, SuDownload, disk, File
<1>3. SuTypeOK'
  BY <1>1, <1>2 DEF SuTypeOK, SuDownload, disk, File
<1>4. SuTyped'
  BY <1>3 DEF SuTypeOK, SuTyped
<1>5. FdWhileWriting'
  BY <1>1, <1>2, <1>4 DEF FdWhileWriting, SuTyped
<1>6. IdleAtFirst'
  BY <1>1, <1>2, <1>4 DEF IdleAtFirst, SuTyped
<1>7. MovedNotOld'
  BY <1>1, <1>2, <1>4 DEF MovedNotOld, SuTyped, FdWhileWriting
<1>8. LoopReplaced'
  BY <1>1, <1>2, <1>4 DEF LoopReplaced, SuTyped
<1>9. AllOrNone'
  BY <1>1, <1>2, <1>4 DEF AllOrNone, SuTyped, InTheMiddle, LoopReplaced
<1>10. Alone'
  BY <1>1, <1>2, <1>4 DEF Alone, SuTyped, FdWhileWriting
<1>11. StagedIsVerified'
  BY <1>1, <1>2, <1>4 DEF StagedIsVerified, SuTyped, Alone, IdleAtFirst
<1>12. ExecKnown'
  BY <1>1, <1>2, <1>4 DEF ExecKnown, SuTyped
<1>13. InstalledIsVerified'
  BY <1>1, <1>2, <1>4 DEF InstalledIsVerified, SuTyped, StagedIsVerified, Alone
<1> QED
  BY <1>3, <1>5, <1>6, <1>7, <1>8, <1>9, <1>10, <1>11, <1>12, <1>13 DEF SuInv

\* A download is complete.
LEMMA SuDownloadedKeeps ==
  ASSUME SuInv, NEW u \in Updaters, SuDownloaded(u)
  PROVE  SuInv'
<1> USE UpdateAssumption DEF Assets, Puts
<1>1. /\ SuTypeOK /\ FdWhileWriting /\ IdleAtFirst /\ MovedNotOld /\ LoopReplaced
      /\ AllOrNone /\ Alone /\ StagedIsVerified /\ ExecKnown
      /\ InstalledIsVerified /\ SuTyped
  BY DEF SuInv, SuTypeOK, SuTyped
<1>2. /\ suPc[u] = "writing"
      /\ Puts(suPc', suPc, Updaters, u, "verify")
      /\ Puts(suFd', suFd, Updaters, u, "none")
      /\ \A f \in Assets \ {suAt[u]} : suStage'[f] = suStage[f] /\ suInst'[f] = suInst[f]
      /\ \/ suInst' = suInst
         \/ suFd[u] = "installed" /\ suInst'[suAt[u]] \in {"new", "bad"}
      /\ UNCHANGED <<suExec, suAt, suCut, suAborted, suOverlap>>
  BY <1>1 DEF SuTypeOK, SuDownloaded, disk, File
<1>3. SuTypeOK'
  BY <1>1, <1>2 DEF SuTypeOK, SuDownloaded, disk, File
<1>4. SuTyped'
  BY <1>3 DEF SuTypeOK, SuTyped
<1>5. FdWhileWriting'
  BY <1>1, <1>2, <1>4 DEF FdWhileWriting, SuTyped
<1>6. IdleAtFirst'
  BY <1>1, <1>2, <1>4 DEF IdleAtFirst, SuTyped
<1>7. MovedNotOld'
  BY <1>1, <1>2, <1>4 DEF MovedNotOld, SuTyped, FdWhileWriting
<1>8. LoopReplaced'
  BY <1>1, <1>2, <1>4 DEF LoopReplaced, SuTyped
<1>9. AllOrNone'
  BY <1>1, <1>2, <1>4 DEF AllOrNone, SuTyped, InTheMiddle, LoopReplaced, MovedNotOld
<1>10. Alone'
  BY <1>1, <1>2, <1>4 DEF Alone, SuTyped, FdWhileWriting
<1>11. StagedIsVerified'
  BY <1>1, <1>2, <1>4 DEF StagedIsVerified, SuTyped, Alone, IdleAtFirst
<1>12. ExecKnown'
  <2>1. suInst[1] = "script" => suInst'[1] = "script"
    BY <1>1, <1>2 DEF MovedNotOld
  <2> QED
    BY <1>1, <1>2, <2>1 DEF ExecKnown
<1>13. InstalledIsVerified'
  BY <1>1, <1>2, <1>4 DEF InstalledIsVerified, SuTyped, StagedIsVerified, Alone
<1> QED
  BY <1>3, <1>5, <1>6, <1>7, <1>8, <1>9, <1>10, <1>11, <1>12, <1>13 DEF SuInv

\* A staged file passes the check of its hash, and the next one is fetched.
LEMMA SuVerifyOneKeeps ==
  ASSUME SuInv, NEW u \in Updaters, SuVerify(u), suAt[u] < AssetCount
  PROVE  SuInv'
<1> USE UpdateAssumption DEF Assets, Puts
<1>1. /\ SuTypeOK /\ FdWhileWriting /\ IdleAtFirst /\ MovedNotOld /\ LoopReplaced
      /\ AllOrNone /\ Alone /\ StagedIsVerified /\ ExecKnown
      /\ InstalledIsVerified /\ SuTyped
  BY DEF SuInv, SuTypeOK, SuTyped
<1>2. /\ suPc[u] = "verify" /\ suStage[suAt[u]] = "new"
      /\ Puts(suPc', suPc, Updaters, u, "download")
      /\ Puts(suAt', suAt, Updaters, u, suAt[u] + 1)
      /\ UNCHANGED <<suStage, suInst, suExec, suFd, suCut,
                    suAborted, suOverlap>>
  BY <1>1 DEF SuTypeOK, SuVerify, disk, File, NextAsset
<1>3. SuTypeOK'
  BY <1>1, <1>2 DEF SuTypeOK, SuVerify, disk, File, NextAsset
<1>4. SuTyped'
  BY <1>3 DEF SuTypeOK, SuTyped
<1>5. FdWhileWriting'
  BY <1>1, <1>2, <1>4 DEF FdWhileWriting, SuTyped
<1>6. IdleAtFirst'
  BY <1>1, <1>2, <1>4 DEF IdleAtFirst, SuTyped
<1>7. MovedNotOld'
  BY <1>1, <1>2, <1>4 DEF MovedNotOld, SuTyped, FdWhileWriting
<1>8. LoopReplaced'
  BY <1>1, <1>2, <1>4 DEF LoopReplaced, SuTyped
<1>9. AllOrNone'
  BY <1>1, <1>2, <1>4 DEF AllOrNone, SuTyped, InTheMiddle, LoopReplaced
<1>10. Alone'
  BY <1>1, <1>2, <1>4 DEF Alone, SuTyped, FdWhileWriting
<1>11. StagedIsVerified'
  BY <1>1, <1>2, <1>4 DEF StagedIsVerified, SuTyped, Alone, IdleAtFirst
<1>12. ExecKnown'
  BY <1>1, <1>2, <1>4 DEF ExecKnown, SuTyped
<1>13. InstalledIsVerified'
  BY <1>1, <1>2, <1>4 DEF InstalledIsVerified, SuTyped, StagedIsVerified, Alone
<1> QED
  BY <1>3, <1>5, <1>6, <1>7, <1>8, <1>9, <1>10, <1>11, <1>12, <1>13 DEF SuInv

\* The last staged file passes, and the installation begins.
LEMMA SuVerifyLastKeeps ==
  ASSUME SuInv, NEW u \in Updaters, SuVerify(u), ~(suAt[u] < AssetCount)
  PROVE  SuInv'
<1> USE UpdateAssumption DEF Assets, Puts
<1>1. /\ SuTypeOK /\ FdWhileWriting /\ IdleAtFirst /\ MovedNotOld /\ LoopReplaced
      /\ AllOrNone /\ Alone /\ StagedIsVerified /\ ExecKnown
      /\ InstalledIsVerified /\ SuTyped
  BY DEF SuInv, SuTypeOK, SuTyped
<1>2. /\ suPc[u] = "verify" /\ suStage[suAt[u]] = "new" /\ suAt[u] = AssetCount
      /\ Puts(suPc', suPc, Updaters, u, "install")
      /\ Puts(suAt', suAt, Updaters, u, 1)
      /\ UNCHANGED <<suStage, suInst, suExec, suFd, suCut,
                    suAborted, suOverlap>>
  BY <1>1 DEF SuTypeOK, SuVerify, disk, File, NextAsset
<1>3. SuTypeOK'
  BY <1>1, <1>2 DEF SuTypeOK, SuVerify, disk, File, NextAsset
<1>4. SuTyped'
  BY <1>3 DEF SuTypeOK, SuTyped
<1>5. FdWhileWriting'
  BY <1>1, <1>2, <1>4 DEF FdWhileWriting, SuTyped
<1>6. IdleAtFirst'
  BY <1>1, <1>2, <1>4 DEF IdleAtFirst, SuTyped
<1>7. MovedNotOld'
  BY <1>1, <1>2, <1>4 DEF MovedNotOld, SuTyped, FdWhileWriting
<1>8. LoopReplaced'
  BY <1>1, <1>2, <1>4 DEF LoopReplaced, SuTyped
<1>9. AllOrNone'
  BY <1>1, <1>2, <1>4 DEF AllOrNone, SuTyped, InTheMiddle, LoopReplaced
<1>10. Alone'
  BY <1>1, <1>2, <1>4 DEF Alone, SuTyped, FdWhileWriting
<1>11. StagedIsVerified'
  BY <1>1, <1>2, <1>4 DEF StagedIsVerified, SuTyped, Alone, IdleAtFirst
<1>12. ExecKnown'
  BY <1>1, <1>2, <1>4 DEF ExecKnown, SuTyped
<1>13. InstalledIsVerified'
  BY <1>1, <1>2, <1>4 DEF InstalledIsVerified, SuTyped, StagedIsVerified, Alone
<1> QED
  BY <1>3, <1>5, <1>6, <1>7, <1>8, <1>9, <1>10, <1>11, <1>12, <1>13 DEF SuInv

\* A run gives up before it installs anything, or the script it ran ends.
LEMMA SuGiveUpKeeps ==
  ASSUME SuInv, NEW u \in Updaters, SuGiveUp(u) \/ SuScriptEnds(u)
  PROVE  SuInv'
<1> USE UpdateAssumption DEF Assets, Puts
<1>1. /\ SuTypeOK /\ FdWhileWriting /\ IdleAtFirst /\ MovedNotOld /\ LoopReplaced
      /\ AllOrNone /\ Alone /\ StagedIsVerified /\ ExecKnown
      /\ InstalledIsVerified /\ SuTyped
  BY DEF SuInv, SuTypeOK, SuTyped
<1>2. /\ suPc[u] \in {"manifest", "script", "download", "writing", "verify"}
      /\ Puts(suPc', suPc, Updaters, u, "idle")
      /\ Puts(suAt', suAt, Updaters, u, 1)
      /\ Puts(suFd', suFd, Updaters, u, "none")
      /\ UNCHANGED <<suStage, suInst, suExec, suCut, suAborted,
                    suOverlap>>
  BY <1>1 DEF SuTypeOK, SuGiveUp, SuScriptEnds, disk, Ends
<1>3. SuTypeOK'
  BY <1>1, <1>2 DEF SuTypeOK, SuGiveUp, SuScriptEnds, disk, Ends
<1>4. SuTyped'
  BY <1>3 DEF SuTypeOK, SuTyped
<1>5. FdWhileWriting'
  BY <1>1, <1>2, <1>4 DEF FdWhileWriting, SuTyped
<1>6. IdleAtFirst'
  BY <1>1, <1>2, <1>4 DEF IdleAtFirst, SuTyped
<1>7. MovedNotOld'
  BY <1>1, <1>2, <1>4 DEF MovedNotOld, SuTyped, FdWhileWriting
<1>8. LoopReplaced'
  BY <1>1, <1>2, <1>4 DEF LoopReplaced, SuTyped
<1>9. AllOrNone'
  BY <1>1, <1>2, <1>4 DEF AllOrNone, SuTyped, InTheMiddle, LoopReplaced
<1>10. Alone'
  BY <1>1, <1>2, <1>4 DEF Alone, SuTyped, FdWhileWriting
<1>11. StagedIsVerified'
  BY <1>1, <1>2, <1>4 DEF StagedIsVerified, SuTyped, Alone, IdleAtFirst
<1>12. ExecKnown'
  BY <1>1, <1>2, <1>4 DEF ExecKnown, SuTyped
<1>13. InstalledIsVerified'
  BY <1>1, <1>2, <1>4 DEF InstalledIsVerified, SuTyped, StagedIsVerified, Alone
<1> QED
  BY <1>3, <1>5, <1>6, <1>7, <1>8, <1>9, <1>10, <1>11, <1>12, <1>13 DEF SuInv

\* A staged file is renamed over the installed one.
LEMMA SuRenameKeeps ==
  ASSUME SuInv, NEW u \in Updaters, SuRename(u)
  PROVE  SuInv'
<1> USE UpdateAssumption DEF Assets, Puts
<1>1. /\ SuTypeOK /\ FdWhileWriting /\ IdleAtFirst /\ MovedNotOld /\ LoopReplaced
      /\ AllOrNone /\ Alone /\ StagedIsVerified /\ ExecKnown
      /\ InstalledIsVerified /\ SuTyped
  BY DEF SuInv, SuTypeOK, SuTyped
<1>2. /\ suPc[u] = "install"
      /\ Puts(suPc', suPc, Updaters, u, "chmod")
      /\ Puts(suInst', suInst, Assets, suAt[u], suStage[suAt[u]])
      /\ Puts(suStage', suStage, Assets, suAt[u], "none")
      /\ suExec' = suExec \ {suAt[u]}
      /\ \A v \in Updaters :
           \/ suFd'[v] = suFd[v] /\ (suAt[v] = suAt[u] => suFd[v] # "staged")
           \/ suFd[v] # "none" /\ suAt[v] = suAt[u]
      /\ UNCHANGED <<suAt, suCut, suAborted, suOverlap>>
  BY <1>1 DEF SuTypeOK, SuRename, disk, File, Moved
<1>3. SuTypeOK'
  BY <1>1, <1>2 DEF SuTypeOK, SuRename, disk, File, Moved
<1>4. SuTyped'
  BY <1>3 DEF SuTypeOK, SuTyped
<1>5. FdWhileWriting'
  BY <1>1, <1>2, <1>4 DEF FdWhileWriting, SuTyped
<1>6. IdleAtFirst'
  BY <1>1, <1>2, <1>4 DEF IdleAtFirst, SuTyped
<1>7. MovedNotOld'
  BY <1>1, <1>2, <1>4 DEF MovedNotOld, SuTyped, FdWhileWriting
<1>8. LoopReplaced'
  BY <1>1, <1>2, <1>4 DEF LoopReplaced, SuTyped
<1>9. AllOrNone'
  BY <1>1, <1>2, <1>4 DEF AllOrNone, SuTyped, InTheMiddle, LoopReplaced
<1>10. Alone'
  BY <1>1, <1>2, <1>4 DEF Alone, SuTyped, FdWhileWriting
<1>11. StagedIsVerified'
  BY <1>1, <1>2, <1>4 DEF StagedIsVerified, SuTyped, Alone, IdleAtFirst
<1>12. ExecKnown'
  BY <1>1, <1>2, <1>4 DEF ExecKnown, SuTyped
<1>13. InstalledIsVerified'
  BY <1>1, <1>2, <1>4 DEF InstalledIsVerified, SuTyped, StagedIsVerified, Alone
<1> QED
  BY <1>3, <1>5, <1>6, <1>7, <1>8, <1>9, <1>10, <1>11, <1>12, <1>13 DEF SuInv

\* A rename fails.
LEMMA SuRenameFailsKeeps ==
  ASSUME SuInv, NEW u \in Updaters, SuRenameFails(u)
  PROVE  SuInv'
<1> USE UpdateAssumption DEF Assets, Puts
<1>1. /\ SuTypeOK /\ FdWhileWriting /\ IdleAtFirst /\ MovedNotOld /\ LoopReplaced
      /\ AllOrNone /\ Alone /\ StagedIsVerified /\ ExecKnown
      /\ InstalledIsVerified /\ SuTyped
  BY DEF SuInv, SuTypeOK, SuTyped
<1>2. /\ suPc[u] = "install"
      /\ Puts(suPc', suPc, Updaters, u, "idle")
      /\ Puts(suAt', suAt, Updaters, u, 1)
      /\ Puts(suFd', suFd, Updaters, u, "none")
      /\ suAborted' = (suAborted \/ suAt[u] > 1)
      /\ UNCHANGED <<suStage, suInst, suExec, suCut, suOverlap>>
  BY <1>1 DEF SuTypeOK, SuRenameFails, disk, Ends
<1>3. SuTypeOK'
  BY <1>1, <1>2 DEF SuTypeOK, SuRenameFails, disk, Ends
<1>4. SuTyped'
  BY <1>3 DEF SuTypeOK, SuTyped
<1>5. FdWhileWriting'
  BY <1>1, <1>2, <1>4 DEF FdWhileWriting, SuTyped
<1>6. IdleAtFirst'
  BY <1>1, <1>2, <1>4 DEF IdleAtFirst, SuTyped
<1>7. MovedNotOld'
  BY <1>1, <1>2, <1>4 DEF MovedNotOld, SuTyped, FdWhileWriting
<1>8. LoopReplaced'
  BY <1>1, <1>2, <1>4 DEF LoopReplaced, SuTyped
<1>9. AllOrNone'
  BY <1>1, <1>2, <1>4 DEF AllOrNone, SuTyped, InTheMiddle, LoopReplaced
<1>10. Alone'
  BY <1>1, <1>2, <1>4 DEF Alone, SuTyped, FdWhileWriting
<1>11. StagedIsVerified'
  BY <1>1, <1>2, <1>4 DEF StagedIsVerified, SuTyped, Alone, IdleAtFirst
<1>12. ExecKnown'
  BY <1>1, <1>2, <1>4 DEF ExecKnown, SuTyped
<1>13. InstalledIsVerified'
  BY <1>1, <1>2, <1>4 DEF InstalledIsVerified, SuTyped, StagedIsVerified, Alone
<1> QED
  BY <1>3, <1>5, <1>6, <1>7, <1>8, <1>9, <1>10, <1>11, <1>12, <1>13 DEF SuInv

\* A file gets its mode, and the loop goes on.
LEMMA SuChmodOneKeeps ==
  ASSUME SuInv, NEW u \in Updaters, SuChmod(u), suAt[u] < AssetCount
  PROVE  SuInv'
<1> USE UpdateAssumption DEF Assets, Puts
<1>1. /\ SuTypeOK /\ FdWhileWriting /\ IdleAtFirst /\ MovedNotOld /\ LoopReplaced
      /\ AllOrNone /\ Alone /\ StagedIsVerified /\ ExecKnown
      /\ InstalledIsVerified /\ SuTyped
  BY DEF SuInv, SuTypeOK, SuTyped
<1>2. /\ suPc[u] = "chmod"
      /\ Puts(suPc', suPc, Updaters, u, "install")
      /\ Puts(suAt', suAt, Updaters, u, suAt[u] + 1)
      /\ suExec' = suExec \cup {suAt[u]}
      /\ UNCHANGED <<suStage, suInst, suFd, suCut, suAborted,
                    suOverlap>>
  BY <1>1 DEF SuTypeOK, SuChmod, disk, File, NextAsset
<1>3. SuTypeOK'
  <2>1. /\ suAt' = [suAt EXCEPT ![u] = @ + 1]
        /\ suPc' = [suPc EXCEPT ![u] = "install"]
        /\ suExec' = suExec \cup {suAt[u]}
    BY DEF SuChmod, File, NextAsset
  <2>2. suAt[u] + 1 \in Assets /\ suAt[u] \in Assets
    BY <1>1 DEF SuTypeOK
  <2> QED
    BY <1>1, <1>2, <2>1, <2>2 DEF SuTypeOK
<1>4. SuTyped'
  BY <1>3 DEF SuTypeOK, SuTyped
<1>5. FdWhileWriting'
  BY <1>1, <1>2, <1>4 DEF FdWhileWriting, SuTyped
<1>6. IdleAtFirst'
  BY <1>1, <1>2, <1>4 DEF IdleAtFirst, SuTyped
<1>7. MovedNotOld'
  BY <1>1, <1>2, <1>4 DEF MovedNotOld, SuTyped, FdWhileWriting
<1>8. LoopReplaced'
  BY <1>1, <1>2, <1>4 DEF LoopReplaced, SuTyped
<1>9. AllOrNone'
  BY <1>1, <1>2, <1>4 DEF AllOrNone, SuTyped, InTheMiddle, LoopReplaced
<1>10. Alone'
  BY <1>1, <1>2, <1>4 DEF Alone, SuTyped, FdWhileWriting
<1>11. StagedIsVerified'
  BY <1>1, <1>2, <1>4 DEF StagedIsVerified, SuTyped, Alone, IdleAtFirst
<1>12. ExecKnown'
  BY <1>1, <1>2, <1>4 DEF ExecKnown, SuTyped
<1>13. InstalledIsVerified'
  BY <1>1, <1>2, <1>4 DEF InstalledIsVerified, SuTyped, StagedIsVerified, Alone
<1> QED
  BY <1>3, <1>5, <1>6, <1>7, <1>8, <1>9, <1>10, <1>11, <1>12, <1>13 DEF SuInv

\* The last file gets its mode.
LEMMA SuChmodLastKeeps ==
  ASSUME SuInv, NEW u \in Updaters, SuChmod(u), ~(suAt[u] < AssetCount)
  PROVE  SuInv'
<1> USE UpdateAssumption DEF Assets, Puts
<1>1. /\ SuTypeOK /\ FdWhileWriting /\ IdleAtFirst /\ MovedNotOld /\ LoopReplaced
      /\ AllOrNone /\ Alone /\ StagedIsVerified /\ ExecKnown
      /\ InstalledIsVerified /\ SuTyped
  BY DEF SuInv, SuTypeOK, SuTyped
<1>2. /\ suPc[u] = "chmod" /\ suAt[u] = AssetCount
      /\ Puts(suPc', suPc, Updaters, u, "idle")
      /\ Puts(suAt', suAt, Updaters, u, 1)
      /\ suExec' = suExec \cup {suAt[u]}
      /\ UNCHANGED <<suStage, suInst, suFd, suCut, suAborted,
                    suOverlap>>
  BY <1>1 DEF SuTypeOK, SuChmod, disk, File, NextAsset
<1>3. SuTypeOK'
  BY <1>1, <1>2 DEF SuTypeOK, SuChmod, disk, File, NextAsset
<1>4. SuTyped'
  BY <1>3 DEF SuTypeOK, SuTyped
<1>5. FdWhileWriting'
  BY <1>1, <1>2, <1>4 DEF FdWhileWriting, SuTyped
<1>6. IdleAtFirst'
  BY <1>1, <1>2, <1>4 DEF IdleAtFirst, SuTyped
<1>7. MovedNotOld'
  BY <1>1, <1>2, <1>4 DEF MovedNotOld, SuTyped, FdWhileWriting
<1>8. LoopReplaced'
  BY <1>1, <1>2, <1>4 DEF LoopReplaced, SuTyped
<1>9. AllOrNone'
  BY <1>1, <1>2, <1>4 DEF AllOrNone, SuTyped, InTheMiddle, LoopReplaced
<1>10. Alone'
  BY <1>1, <1>2, <1>4 DEF Alone, SuTyped, FdWhileWriting
<1>11. StagedIsVerified'
  BY <1>1, <1>2, <1>4 DEF StagedIsVerified, SuTyped, Alone, IdleAtFirst
<1>12. ExecKnown'
  BY <1>1, <1>2, <1>4 DEF ExecKnown, SuTyped
<1>13. InstalledIsVerified'
  BY <1>1, <1>2, <1>4 DEF InstalledIsVerified, SuTyped, StagedIsVerified, Alone
<1> QED
  BY <1>3, <1>5, <1>6, <1>7, <1>8, <1>9, <1>10, <1>11, <1>12, <1>13 DEF SuInv

\* A run is killed.
LEMMA SuKilledKeeps ==
  ASSUME SuInv, NEW u \in Updaters, SuKilled(u)
  PROVE  SuInv'
<1> USE UpdateAssumption DEF Assets, Puts
<1>1. /\ SuTypeOK /\ FdWhileWriting /\ IdleAtFirst /\ MovedNotOld /\ LoopReplaced
      /\ AllOrNone /\ Alone /\ StagedIsVerified /\ ExecKnown
      /\ InstalledIsVerified /\ SuTyped
  BY DEF SuInv, SuTypeOK, SuTyped
<1>2. /\ suPc[u] # "idle"
      /\ Puts(suPc', suPc, Updaters, u, "idle")
      /\ Puts(suAt', suAt, Updaters, u, 1)
      /\ Puts(suFd', suFd, Updaters, u, "none")
      /\ suCut' = IF suPc[u] = "chmod" THEN suCut \cup {suAt[u]} ELSE suCut
      /\ suAborted' = (suAborted \/ InTheMiddle(u))
      /\ UNCHANGED <<suStage, suInst, suExec, suOverlap>>
  BY <1>1 DEF SuTypeOK, SuKilled, disk, Ends, InTheMiddle
<1>3. SuTypeOK'
  <2>1. /\ suAt' \in [Updaters -> Assets]
        /\ suFd' \in [Updaters -> {"none", "staged", "installed", "unlinked"}]
        /\ suPc' \in [Updaters -> {"idle", "manifest", "script", "download",
                                   "writing", "verify", "install", "chmod"}]
    BY <1>1 DEF SuTypeOK, SuKilled, Ends
  <2>2. suCut' \subseteq Assets
    BY <1>1, <1>2 DEF SuTypeOK
  <2>3. suAborted' \in BOOLEAN
    BY <1>1 DEF SuTypeOK, SuKilled
  <2> QED
    BY <1>1, <1>2, <2>1, <2>2, <2>3 DEF SuTypeOK
<1>4. SuTyped'
  BY <1>3 DEF SuTypeOK, SuTyped
<1>5. FdWhileWriting'
  BY <1>1, <1>2, <1>4 DEF FdWhileWriting, SuTyped
<1>6. IdleAtFirst'
  BY <1>1, <1>2, <1>4 DEF IdleAtFirst, SuTyped
<1>7. MovedNotOld'
  BY <1>1, <1>2, <1>4 DEF MovedNotOld, SuTyped, FdWhileWriting
<1>8. LoopReplaced'
  BY <1>1, <1>2, <1>4 DEF LoopReplaced, SuTyped
<1>9. AllOrNone'
  BY <1>1, <1>2, <1>4 DEF AllOrNone, SuTyped, InTheMiddle, LoopReplaced
<1>10. Alone'
  BY <1>1, <1>2, <1>4 DEF Alone, SuTyped, FdWhileWriting
<1>11. StagedIsVerified'
  BY <1>1, <1>2, <1>4 DEF StagedIsVerified, SuTyped, Alone, IdleAtFirst
<1>12. ExecKnown'
  BY <1>1, <1>2, <1>4 DEF ExecKnown, SuTyped
<1>13. InstalledIsVerified'
  BY <1>1, <1>2, <1>4 DEF InstalledIsVerified, SuTyped, StagedIsVerified, Alone
<1> QED
  BY <1>3, <1>5, <1>6, <1>7, <1>8, <1>9, <1>10, <1>11, <1>12, <1>13 DEF SuInv

\* Every step of an update keeps the invariant.
LEMMA SuInvNext == SuInv /\ [SuNext]_suVars => SuInv'
<1> SUFFICES ASSUME SuInv, [SuNext]_suVars PROVE SuInv'
  OBVIOUS
<1>1. CASE UNCHANGED suVars
  <2> USE <1>1 DEF suVars, SuInv
  <2>1. SuTypeOK'
    BY DEF SuTypeOK
  <2>2. FdWhileWriting' /\ IdleAtFirst' /\ MovedNotOld' /\ LoopReplaced'
    BY DEF FdWhileWriting, IdleAtFirst, MovedNotOld, LoopReplaced
  <2>3. AllOrNone' /\ Alone' /\ StagedIsVerified'
    BY DEF AllOrNone, InTheMiddle, Alone, StagedIsVerified
  <2>4. ExecKnown' /\ InstalledIsVerified'
    BY DEF ExecKnown, InstalledIsVerified
  <2> QED
    BY <2>1, <2>2, <2>3, <2>4
<1>2. ASSUME NEW u \in Updaters, SuStep(u) PROVE SuInv'
  <2>1. ASSUME NEW force \in BOOLEAN, SuStart(u, force) PROVE SuInv'
    BY <2>1, SuStartKeeps
  <2>2. CASE SuDownload(u)
    BY <2>2, SuDownloadKeeps
  <2>3. CASE SuDownloaded(u)
    BY <2>3, SuDownloadedKeeps
  <2>4. CASE SuVerify(u)
    BY <2>4, SuVerifyOneKeeps, SuVerifyLastKeeps
  <2>5. CASE SuGiveUp(u)
    BY <2>5, SuGiveUpKeeps
  <2>10. CASE SuManifest(u) \/ SuFallback(u)
    BY <2>10, SuManifestKeeps
  <2>11. ASSUME NEW f \in Assets, SuScriptPuts(u, f) PROVE SuInv'
    BY <2>11, SuScriptPutsKeeps
  <2>12. CASE SuScriptEnds(u)
    BY <2>12, SuGiveUpKeeps
  <2>6. CASE SuRename(u)
    BY <2>6, SuRenameKeeps
  <2>7. CASE SuRenameFails(u)
    BY <2>7, SuRenameFailsKeeps
  <2>8. CASE SuChmod(u)
    BY <2>8, SuChmodOneKeeps, SuChmodLastKeeps
  <2>9. CASE SuKilled(u)
    BY <2>9, SuKilledKeeps
  <2> QED
    BY <1>2, <2>1, <2>2, <2>3, <2>4, <2>5, <2>6, <2>7, <2>8, <2>9,
       <2>10, <2>11, <2>12 DEF SuStep
<1> QED
  BY <1>1, <1>2 DEF SuNext

\* The invariant holds in every state of every behaviour.
LEMMA SuInvHolds == SuSpec => []SuInv
  BY SuInvInit, SuInvNext, PTL DEF SuSpec

\* Nothing unverified is ever installed while updates do not overlap (the loop
\* over the assets before the install loop in update_cmd_main), but by the
\* install script that update_cmd_main runs when it gets no manifest.
THEOREM UpdateInstallsVerified == SuSpec => []InstalledIsVerified
<1>1. SuInv => InstalledIsVerified
  BY DEF SuInv
<1> QED
  BY <1>1, SuInvHolds, PTL

\* The compiler stays executable, the moment between rename and chmod in
\* atomic_replace apart, as long as it is not the install script's.
THEOREM UpdateKeepsCompiler == SuSpec => []CompilerRuns
<1>1. SuInv => CompilerRuns
  <2> SUFFICES ASSUME SuInv PROVE CompilerRuns
    OBVIOUS
  <2>1. 1 \in Assets
    BY UpdateAssumption DEF Assets
  <2>2. suInst[1] \in {"old", "new", "script"} \/ suOverlap
    BY <2>1 DEF SuInv, InstalledIsVerified
  <2> QED
    BY <2>2 DEF SuInv, ExecKnown, CompilerRuns, CanRun
<1> QED
  BY <1>1, SuInvHolds, PTL

\* Two releases are mixed only in the middle of an install loop (the loop over
\* atomic_replace).
THEOREM UpdateMixesOnlyInLoop == SuSpec => []MixedOnlyAfterAbort
<1>1. SuInv => MixedOnlyAfterAbort
  BY DEF SuInv, AllOrNone, InTheMiddle, MixedOnlyAfterAbort
<1> QED
  BY <1>1, SuInvHolds, PTL

-----------------------------------------------------------------------------
(* The debug adapter *)

\* Commands and results whose token is the number of the command.
Numbered(S) == {x \in S : x.tok = x.id}

\* Tokens are never used twice: a token is the number of its command, in both
\* pipes and among the results, and the main thread waits for the last one.
TokenIsNumber ==
    /\ dapNext = dapAsked + 1
    /\ gdbIn \in Seq(Numbered(Commands))
    /\ gdbOut \in Seq([result : Numbered(Results)] \cup [record : {StoppedRecord}])
    /\ dapResults \subseteq Numbered(Results)
    /\ dapPc = "wait" => dapTok = dapAsked

\* gdb and the reader both run.
Live == dapRunning /\ gdbAlive /\ dapReader = "running"

\* Nothing is left of gdb.
Clean == ~dapRunning /\ ~gdbAlive /\ dapReader = "none" /\ dapResults = {}

\* As long as no gdb ended on its own, the adapter knows what runs.
UnderControl ==
    ~dapGdbDied =>
        /\ dapPc \in {"read", "wait"} => Live \/ Clean
        /\ dapPc \in {"reap", "join"} => dapReader # "none"
        /\ dapPc = "join" => ~dapRunning /\ ~gdbAlive
        /\ dapPc \in {"stopped", "quit", "done"} => Clean
        /\ dapPc # "dead"

DapTyped ==
    /\ dapPc \in {"read", "wait", "reap", "join", "stopped", "quit", "done", "dead"}
    /\ dapReader \in {"none", "running", "ended"}
    /\ dapRunning \in BOOLEAN /\ gdbAlive \in BOOLEAN /\ dapGdbDied \in BOOLEAN
    /\ dapAsked \in 0..MaxToken

DapInv == DapTyped /\ TokenIsNumber /\ UnderControl

\* Nothing runs at first.
LEMMA DapInvInit == DapInit => DapInv
<1> SUFFICES ASSUME DapInit PROVE DapInv
  OBVIOUS
<1>1. DapTyped
  <2>1. 0 \in 0..MaxToken
    BY DapAssumption
  <2> QED
    BY <2>1, Zenon DEF DapInit, DapTyped
<1>2. \A S : <<>> \in Seq(S)
  OBVIOUS
<1>3. TokenIsNumber
  BY <1>2 DEF DapInit, TokenIsNumber
<1>4. UnderControl
  BY DEF DapInit, UnderControl, Live, Clean
<1> QED
  BY <1>1, <1>3, <1>4 DEF DapInv

\* A tokened command gets the next number.
LEMMA CommandNumbered ==
  ASSUME DapInv, NEW kind \in {"query", "exec"}, NEW pc, SendCommand(kind, pc)
  PROVE  /\ dapNext' = dapAsked' + 1 /\ dapAsked' \in 0..MaxToken
         /\ gdbIn' \in Seq(Numbered(Commands))
         /\ dapAsked' = dapNext
         /\ gdbAlive => dapPc' = pc
         /\ ~gdbAlive => dapPc' = "dead"
<1>1. dapAsked \in 0..MaxToken /\ dapNext = dapAsked + 1 /\ dapAsked < MaxToken
  BY DEF DapInv, DapTyped, TokenIsNumber, SendCommand
<1> DEFINE c == [kind |-> kind, tok |-> dapNext, id |-> dapAsked + 1]
<1>2. c \in Numbered(Commands)
  <2>1. dapNext \in Tokens
    BY <1>1, DapAssumption DEF Tokens
  <2> QED
    BY <1>1, <2>1 DEF Numbered, Commands
<1>3. gdbIn \in Seq(Numbered(Commands))
  BY DEF DapInv, TokenIsNumber
<1>4. gdbIn' \in {gdbIn, Append(gdbIn, c)}
  BY DEF SendCommand
<1> HIDE DEF Numbered, Commands, c
<1>5. gdbIn' \in Seq(Numbered(Commands))
  BY <1>2, <1>3, <1>4
<1> QED
  BY <1>1, <1>5, DapAssumption DEF SendCommand

\* Starting gdb aborts only over a reader that was not joined.
LEMMA SpawnKeeps ==
  ASSUME DapInv, dapPc \in {"read", "stopped"}, dapPc = "read" => ~dapRunning,
         Spawn("read"),
         UNCHANGED <<dapTok, dapNext, dapAsked, dapResults>>
  PROVE  DapInv'
<1>1. DapTyped'
  BY DEF DapInv, DapTyped, Spawn, Dies, gdbVars
<1>2. TokenIsNumber'
  <2>1. \A S : <<>> \in Seq(S)
    OBVIOUS
  <2>2. gdbIn' \in {gdbIn, <<>>} /\ gdbOut' \in {gdbOut, <<>>} /\ dapPc' # "wait"
    BY DEF Spawn, Dies, gdbVars
  <2> QED
    BY <2>1, <2>2 DEF DapInv, TokenIsNumber
<1>3. UnderControl'
  BY DEF DapInv, DapTyped, UnderControl, Live, Clean, Spawn, Dies, gdbVars
<1> QED
  BY <1>1, <1>2, <1>3 DEF DapInv

\* Steps of the main thread that touch neither pipe and no token.
MainOnly ==
    \/ DapAnswer \/ DapTimeout \/ DapReap \/ DapJoin \/ DapStopped \/ DapQuit

\* They keep the invariant.
LEMMA MainOnlyKeeps == ASSUME DapInv, MainOnly PROVE DapInv'
<1> USE DEF MainOnly, DapAnswer, DapTimeout, DapReap, DapJoin, DapStopped, DapQuit,
            counters, gdbVars, DapInv
<1>1. DapTyped'
  BY DEF DapTyped
<1>2. TokenIsNumber'
  BY DEF TokenIsNumber
<1>3. UnderControl'
  BY DEF DapTyped, UnderControl, Live, Clean
<1> QED
  BY <1>1, <1>2, <1>3

\* Requests keep the invariant.
LEMMA ClientKeeps == ASSUME DapInv, DapClient PROVE DapInv'
<1>1. CASE DapLaunch
  BY <1>1, SpawnKeeps DEF DapLaunch
<1>2. ASSUME NEW kind \in {"query", "exec"}, NEW pc, SendCommand(kind, pc),
             pc \in {"read", "wait"}, dapPc = "read", dapRunning,
             pc = "wait" => dapTok' = dapNext,
             UNCHANGED <<dapRunning, dapReader, dapResults, dapGdbDied, gdbAlive,
                         gdbOut>>
      PROVE  DapInv'
  <2>1. /\ dapNext' = dapAsked' + 1 /\ dapAsked' \in 0..MaxToken
        /\ gdbIn' \in Seq(Numbered(Commands))
        /\ dapAsked' = dapNext
        /\ gdbAlive => dapPc' = pc
        /\ ~gdbAlive => dapPc' = "dead"
    BY <1>2, CommandNumbered
  <2>2. DapTyped'
    BY <1>2, <2>1 DEF DapInv, DapTyped
  <2>3. TokenIsNumber'
    BY <1>2, <2>1 DEF DapInv, DapTyped, TokenIsNumber
  <2>4. UnderControl'
    BY <1>2, <2>1 DEF DapInv, DapTyped, UnderControl, Live, Clean
  <2> QED
    BY <2>2, <2>3, <2>4 DEF DapInv
<1>3. CASE DapQuery
  BY <1>2, <1>3 DEF DapQuery
<1>4. CASE DapExec
  BY <1>2, <1>4 DEF DapExec
<1>5. CASE DapStop
  <2>1. DapTyped'
    BY <1>5 DEF DapStop, DapInv, DapTyped, counters
  <2>2. gdbIn' \in Seq(Numbered(Commands))
    <3>1. [kind |-> "exit", tok |-> 0, id |-> 0] \in Numbered(Commands)
      BY DEF Numbered, Commands
    <3>2. gdbIn \in Seq(Numbered(Commands))
      BY DEF DapInv, TokenIsNumber
    <3>3. gdbIn' \in {gdbIn, Append(gdbIn, [kind |-> "exit", tok |-> 0, id |-> 0])}
      BY <1>5 DEF DapStop
    <3> QED
      BY <3>1, <3>2, <3>3
  <2>3. TokenIsNumber'
    BY <1>5, <2>2 DEF DapStop, DapInv, TokenIsNumber, counters
  <2>4. UnderControl'
    BY <1>5 DEF DapStop, DapInv, DapTyped, UnderControl, Live, Clean
  <2> QED
    BY <2>1, <2>3, <2>4 DEF DapInv
<1> QED
  BY <1>1, <1>3, <1>4, <1>5 DEF DapClient

\* The reader keeps the invariant.
LEMMA ReaderKeeps == ASSUME DapInv, DapReader PROVE DapInv'
<1> DEFINE lines == [result : Numbered(Results)] \cup [record : {StoppedRecord}]
<1>1. CASE ReaderLine
  <2>1. gdbOut \in Seq(lines) /\ gdbOut # <<>>
    BY <1>1 DEF ReaderLine, DapInv, TokenIsNumber
  <2>2. Tail(gdbOut) \in Seq(lines) /\ Head(gdbOut) \in lines
    BY <2>1
  <2>3. "result" \in DOMAIN Head(gdbOut) =>
           Head(gdbOut).result \in Numbered(Results)
    BY <2>2 DEF StoppedRecord
  <2>4. dapResults' \subseteq Numbered(Results)
    BY <1>1, <2>3 DEF ReaderLine, DapInv, TokenIsNumber
  <2>5. TokenIsNumber'
    BY <1>1, <2>2, <2>4
    DEF ReaderLine, DapInv, TokenIsNumber, mainVars, counters
  <2>6. DapTyped' /\ UnderControl'
    BY <1>1
    DEF ReaderLine, DapInv, DapTyped, UnderControl, Live, Clean, mainVars, counters
  <2> QED
    BY <2>5, <2>6 DEF DapInv
<1>2. CASE ReaderEof
  <2>1. TokenIsNumber'
    BY <1>2 DEF ReaderEof, DapInv, TokenIsNumber, mainVars, counters
  <2>2. DapTyped' /\ UnderControl'
    BY <1>2
    DEF ReaderEof, DapInv, DapTyped, UnderControl, Live, Clean, mainVars, counters
  <2> QED
    BY <2>1, <2>2 DEF DapInv
<1> QED
  BY <1>1, <1>2 DEF DapReader

\* gdb keeps the invariant.
LEMMA GdbKeeps == ASSUME DapInv, Gdb PROVE DapInv'
<1> DEFINE lines == [result : Numbered(Results)] \cup [record : {StoppedRecord}]
<1>1. DapTyped' /\ UnderControl'
  BY DEF Gdb, GdbCommand, GdbProgramStops, GdbEnds, DapInv, DapTyped,
         UnderControl, Live, Clean, mainVars, counters
<1>2. gdbIn \in Seq(Numbered(Commands)) /\ gdbOut \in Seq(lines)
  BY DEF DapInv, TokenIsNumber
<1>3. CASE GdbCommand
  <2>1. Head(gdbIn) \in Numbered(Commands) /\ Tail(gdbIn) \in Seq(Numbered(Commands))
    BY <1>2, <1>3 DEF GdbCommand
  <2>2. [tok |-> Head(gdbIn).tok, id |-> Head(gdbIn).id] \in Numbered(Results)
    BY <1>3, <2>1 DEF GdbCommand, Numbered, Commands, Results
  <2>3. [result |-> [tok |-> Head(gdbIn).tok, id |-> Head(gdbIn).id]] \in lines
    BY <2>2
  <2>4. gdbOut' \in Seq(lines)
    BY <1>2, <1>3, <2>3 DEF GdbCommand
  <2>5. TokenIsNumber'
    BY <1>3, <2>1, <2>4
    DEF GdbCommand, DapInv, TokenIsNumber, mainVars, counters
  <2> QED
    BY <1>1, <2>5 DEF DapInv
<1>4. CASE GdbProgramStops
  <2>1. [record |-> StoppedRecord] \in lines
    OBVIOUS
  <2>2. gdbOut' \in Seq(lines)
    BY <1>2, <1>4, <2>1 DEF GdbProgramStops
  <2>3. TokenIsNumber'
    BY <1>4, <2>2
    DEF GdbProgramStops, DapInv, TokenIsNumber, mainVars, counters
  <2> QED
    BY <1>1, <2>3 DEF DapInv
<1>5. CASE GdbEnds
  <2>1. TokenIsNumber'
    BY <1>5 DEF GdbEnds, DapInv, TokenIsNumber, mainVars, counters
  <2> QED
    BY <1>1, <2>1 DEF DapInv
<1> QED
  BY <1>3, <1>4, <1>5 DEF Gdb

\* Every step of the adapter and of gdb keeps the invariant.
LEMMA DapInvNext == DapInv /\ [DapNext]_dapVars => DapInv'
<1> SUFFICES ASSUME DapInv, [DapNext]_dapVars PROVE DapInv'
  OBVIOUS
<1>1. CASE UNCHANGED dapVars
  BY <1>1
  DEF dapVars, mainVars, gdbVars, counters, DapInv, DapTyped, TokenIsNumber,
      UnderControl, Live, Clean
<1>2. CASE DapMain
  <2>1. CASE DapRestarted
    BY <2>1, SpawnKeeps DEF DapRestarted
  <2> QED
    BY <1>2, <2>1, MainOnlyKeeps DEF DapMain, MainOnly
<1> QED
  BY <1>1, <1>2, ClientKeeps, ReaderKeeps, GdbKeeps DEF DapNext

\* The invariant holds in every state of every behaviour.
LEMMA DapInvHolds == DapSpec => []DapInv
  BY DapInvInit, DapInvNext, PTL DEF DapSpec

\* A handler gets gdb's answer to its own command (m_next_token and
\* m_results in GdbProcess).
THEOREM AnswersAreOwn == DapSpec => []AnswerIsOwn
<1>1. DapInv => AnswerIsOwn
  BY DEF DapInv, TokenIsNumber, Numbered, AnswerIsOwn, Awaited
<1> QED
  BY <1>1, DapInvHolds, PTL

\* The adapter is aborted or killed only after gdb was (GdbProcess::start,
\* send_raw and stop).
THEOREM AdapterDiesOnlyAfterGdb == DapSpec => []DiesOnlyAfterGdb
<1>1. DapInv => DiesOnlyAfterGdb
  BY DEF DapInv, UnderControl, DiesOnlyAfterGdb
<1> QED
  BY <1>1, DapInvHolds, PTL

\* Stopping a gdb that lives leaves neither a reader nor results
\* (GdbProcess::stop).
THEOREM StopsAreClean == DapSpec => []StopIsClean
<1>1. DapInv => StopIsClean
  BY DEF DapInv, UnderControl, Clean, StopIsClean
<1> QED
  BY <1>1, DapInvHolds, PTL

\* A longer list may hold more.
LEMMA WiderSeq == ASSUME NEW S, NEW T, S \subseteq T, NEW s \in Seq(S) PROVE s \in Seq(T)
  OBVIOUS

\* What DapInv does not say of types, and why a restart finds room for one more
\* gdb: the request was checked when it came.
DapRest ==
    /\ dapReq \in {"none", "terminate", "disconnect", "restart"}
    /\ dapReq # "none" => dapPc \in {"reap", "join", "stopped", "dead"}
    /\ dapReq = "restart" => dapSession < MaxSession
    /\ dapTok \in Tokens \cup {0}
    /\ dapSession \in 0..MaxSession
    /\ dapLaunched \in BOOLEAN /\ dapClientSees \in BOOLEAN
    /\ gdbProgram \in {"none", "running", "stopped"}

\* At first there is neither a request nor a gdb.
LEMMA DapRestInit == DapInit => DapRest
<1> SUFFICES ASSUME DapInit PROVE DapRest
  OBVIOUS
<1>1. 0 \in 0..MaxSession
  BY DapAssumption
<1> QED
  BY <1>1, Zenon DEF DapInit, DapRest

\* Another gdb is started.
LEMMA SpawnKeepsRest ==
  ASSUME DapRest, NEW pc, Spawn(pc), dapSession < MaxSession, dapReq' = "none",
         UNCHANGED dapTok
  PROVE  DapRest'
<1>1. dapSession' \in 0..MaxSession
  BY DapAssumption DEF DapRest, Spawn
<1>2. dapLaunched' \in BOOLEAN /\ dapClientSees' \in BOOLEAN
  BY Zenon DEF DapRest, Spawn
<1>3. gdbProgram' \in {"none", "running", "stopped"} /\ dapTok' \in Tokens \cup {0}
  BY Zenon DEF DapRest, Spawn, gdbVars
<1> QED
  BY <1>1, <1>2, <1>3 DEF DapRest

\* Each step keeps these.
LEMMA DapRestNext ==
  ASSUME DapInv, DapRest, [DapNext]_dapVars
  PROVE  DapRest'
<1> USE DEF DapRest, counters, gdbVars, mainVars
<1>1. CASE UNCHANGED dapVars
  BY <1>1 DEF dapVars
<1>2. CASE DapLaunch
  <2>1. dapReq' = "none"
    BY <1>2 DEF DapLaunch
  <2> QED
    BY <1>2, <2>1, SpawnKeepsRest DEF DapLaunch
<1>3. CASE DapRestarted
  BY <1>3, SpawnKeepsRest DEF DapRestarted
<1>4. CASE DapQuery
  <2>1. dapNext \in Tokens
    BY <1>4, DapAssumption DEF DapQuery, SendCommand, DapInv, DapTyped, TokenIsNumber, Tokens
  <2> QED
    BY <1>4, <2>1 DEF DapQuery
<1>5. CASE DapExec
  BY <1>5 DEF DapExec, SendCommand
<1>6. CASE DapStop
  BY <1>6 DEF DapStop
<1>7. CASE DapAnswer \/ DapTimeout
  BY <1>7 DEF DapAnswer, DapTimeout
<1>8. CASE DapReap \/ DapJoin \/ DapStopped \/ DapQuit
  BY <1>8 DEF DapReap, DapJoin, DapStopped, DapQuit
<1>9. CASE DapReader
  BY <1>9 DEF DapReader, ReaderLine, ReaderEof
<1>10. CASE Gdb
  BY <1>10 DEF Gdb, GdbCommand, GdbProgramStops, GdbEnds
<1> QED
  BY <1>1, <1>2, <1>3, <1>4, <1>5, <1>6, <1>7, <1>8, <1>9, <1>10
  DEF DapNext, DapMain, DapClient

\* The two together are the types.
LEMMA DapTypes == DapInv /\ DapRest => DapTypeOK
<1> SUFFICES ASSUME DapInv, DapRest PROVE DapTypeOK
  OBVIOUS
<1>1. Numbered(Commands) \subseteq Commands /\ Numbered(Results) \subseteq Results
  BY DEF Numbered
<1>2. gdbIn \in Seq(Commands)
  BY <1>1, WiderSeq DEF DapInv, TokenIsNumber
<1>3. gdbOut \in Seq(Lines)
  <2>1. [result : Numbered(Results)] \cup [record : {StoppedRecord}] \subseteq Lines
    BY <1>1 DEF Lines
  <2> QED
    BY <2>1, WiderSeq DEF DapInv, TokenIsNumber
<1>4. dapResults \subseteq Results
  BY <1>1 DEF DapInv, TokenIsNumber
<1>5. dapNext \in 1..(MaxToken + 1)
  BY DapAssumption DEF DapInv, DapTyped, TokenIsNumber
<1> QED
  BY <1>2, <1>3, <1>4, <1>5, Zenon DEF DapTypeOK, DapRest, DapInv, DapTyped

-----------------------------------------------------------------------------
(* All the parts *)

\* A step of the whole is a step of one part, and leaves the others alone.
LEMMA PartsSteps ==
  ASSUME ArInv, [PartsNext]_partsVars
  PROVE  /\ [TryNext]_ehVars /\ [DbNext]_dbVars /\ [CacheNext]_cacheVars
         /\ [ArNext]_arVars /\ [RqNext]_rqVars /\ [SuNext]_suVars /\ [DapNext]_dapVars
         /\ IF part = "serve" THEN [SrvNext]_srvAll ELSE UNCHANGED srvVars
         /\ UNCHANGED part
<1>1. CASE UNCHANGED partsVars
  BY <1>1 DEF partsVars, serveVars, srvAll
<1>2. CASE part = "db" /\ DbPart
  BY <1>2 DEF DbPart, serveVars
<1>3. CASE part = "call" /\ CachePart
  BY <1>3 DEF CachePart, serveVars
<1>4. CASE part = "arena" /\ ArenaPart
  BY <1>4 DEF ArenaPart
<1>5. CASE part = "serve" /\ ServePart
  <2>1. [ArNext]_arVars
    BY <1>5, ServeStepsArena DEF ServePart
  <2> QED
    BY <1>5, <2>1 DEF ServePart
<1>6. CASE part = "recv" /\ RecvPart
  BY <1>6 DEF RecvPart, serveVars
<1>7. CASE part = "update" /\ UpdatePart
  BY <1>7 DEF UpdatePart, serveVars
<1>8. CASE part = "dap" /\ DapPart
  BY <1>8 DEF DapPart, serveVars
<1>9. CASE part = "try" /\ TryPart
  BY <1>9 DEF TryPart, serveVars
<1> QED
  BY <1>1, <1>2, <1>3, <1>4, <1>5, <1>6, <1>7, <1>8, <1>9 DEF PartsNext

\* Side by side the parts are what they are alone: a behaviour of the whole is
\* a behaviour of each module (fairness apart), so what holds of a part holds
\* where the parts are checked together.
THEOREM PartsAreParts ==
  PartsSpec =>
    /\ TrySpec /\ DbSpec /\ CacheSpec /\ ArSpec /\ RqSpec /\ SuSpec
    /\ DapInit /\ [][DapNext]_dapVars
<1>1. PartsInit => /\ TryInit /\ DbInit /\ CacheInit /\ ArInit /\ RqInit /\ SuInit
                   /\ DapInit
  BY DEF PartsInit
<1>2. ArInv /\ [PartsNext]_partsVars =>
         /\ [TryNext]_ehVars /\ [DbNext]_dbVars /\ [CacheNext]_cacheVars
         /\ [ArNext]_arVars /\ [RqNext]_rqVars /\ [SuNext]_suVars /\ [DapNext]_dapVars
  BY PartsSteps
<1>3. ArInv /\ [ArNext]_arVars => ArInv'
  BY ArInvNext
<1> QED
  BY ArInvInit, <1>1, <1>2, <1>3, PTL
  DEF PartsSpec, TrySpec, DbSpec, CacheSpec, ArSpec, RqSpec, SuSpec

\* Only part "serve" moves the serve loops.
ServeAlone ==
    \/ part = "serve"
    \/ part # "serve" /\ srvPc = "start" /\ srvEmpty = 0

\* They stay typed in a part where only the arena moves.
LEMMA SrvInvParts ==
  ASSUME ArInv, ArInv', SrvInv, ServeAlone, [PartsNext]_partsVars
  PROVE  SrvInv' /\ ServeAlone'
<1>1. CASE part = "serve"
  BY <1>1, PartsSteps, SrvInvNext DEF ServeAlone
<1>2. CASE part # "serve"
  <2>1. arLive' \in Seq(Strings)
    BY Zenon DEF ArInv, ArTyped
  <2>2. Len(arLive') \in Nat
    BY <2>1, Elements
  <2> QED
    BY <1>2, <2>2, PartsSteps DEF SrvInv, ServeAlone, srvVars
<1> QED
  BY <1>1, <1>2

\* Every part keeps the types its module declares, whatever the constants.
THEOREM PartsTypes == PartsSpec => []PartsTypeOK
<1>1. PartsInit => /\ TryTypeOK /\ DbInv /\ CacheInv /\ RqTyped /\ SuInv /\ DapInv /\ DapRest
                   /\ ArInv /\ RegionInv /\ ArRest /\ SrvInv /\ ServeAlone
  BY TryInvInit, DbInvInit, CacheInvInit, RqTypedInit, SuInvInit, DapInvInit, DapRestInit,
     ArInvInit, RegionInvInit, ArRestInit, SrvInvInit
  DEF PartsInit, SrvInit, ServeAlone, TryInv
<1>2. ArInv /\ [PartsNext]_partsVars =>
         /\ [TryNext]_ehVars /\ [DbNext]_dbVars /\ [CacheNext]_cacheVars
         /\ [ArNext]_arVars /\ [RqNext]_rqVars /\ [SuNext]_suVars /\ [DapNext]_dapVars
  BY PartsSteps
<1>3. DbInv /\ [DbNext]_dbVars => DbInv'
  BY DbInvNext
<1>11. TryTypeOK /\ [TryNext]_ehVars => TryTypeOK'
  BY TryTypedNext
<1>4. CacheInv /\ [CacheNext]_cacheVars => CacheInv'
  BY CacheInvNext
<1>5. RqTyped /\ [RqNext]_rqVars => RqTyped'
  BY RqTypedNext
<1>6. SuInv /\ [SuNext]_suVars => SuInv'
  BY SuInvNext
<1>7. /\ DapInv /\ [DapNext]_dapVars => DapInv'
      /\ DapInv /\ DapRest /\ [DapNext]_dapVars => DapRest'
  BY DapInvNext, DapRestNext
<1>8. /\ ArInv /\ [ArNext]_arVars => ArInv'
      /\ ArInv /\ RegionInv /\ ArInv' /\ [ArNext]_arVars => RegionInv'
      /\ ArInv /\ RegionInv /\ ArRest /\ [ArNext]_arVars => ArRest'
  BY ArInvNext, RegionInvNext, ArRestNext
<1>9. ArInv /\ ArInv' /\ SrvInv /\ ServeAlone /\ [PartsNext]_partsVars =>
         SrvInv' /\ ServeAlone'
  BY SrvInvParts
<1>10. /\ TryTypeOK /\ DbInv /\ CacheInv /\ RqTyped /\ SuInv /\ DapInv /\ DapRest
       /\ ArInv /\ RegionInv /\ ArRest /\ SrvInv
       => PartsTypeOK
  <2>1. ArInv /\ RegionInv /\ ArRest => ArTypeOK
    BY ArTypes
  <2>2. ArInv /\ ArRest /\ SrvInv => SrvTypeOK
    <3> SUFFICES ASSUME ArInv, ArRest, SrvInv PROVE SrvTypeOK
      OBVIOUS
    <3>1. arLive \in Seq(Strings)
      BY Zenon DEF ArInv, ArTyped
    <3>2. Len(arLive) \in Nat /\ MaxLive \in Nat
      BY <3>1, Elements, ArenaAssumption
    <3> QED
      BY <3>2 DEF ArRest, SrvInv, SrvTypeOK
  <2> QED
    BY <2>1, <2>2, DapTypes
    DEF PartsTypeOK, DbInv, CacheInv, RqTyped, SuInv
<1> QED
  BY <1>1, <1>2, <1>3, <1>4, <1>5, <1>6, <1>7, <1>8, <1>9, <1>10, <1>11, PTL
  DEF PartsSpec
=============================================================================
