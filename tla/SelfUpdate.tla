------------------------------ MODULE SelfUpdate ----------------------------
(***************************************************************************)
(* `tulpar update` (src/src/cli/update_cmd.cpp, the POSIX path).           *)
(*                                                                         *)
(* A run compares the version built into the installed compiler with the   *)
(* latest release, downloads every file of the release into a staging      *)
(* directory named after the tag, checks each against the manifest, and    *)
(* only then moves them over the installed files one by one: rename, then  *)
(* chmod, because curl writes 0644.  The process can be killed between any *)
(* two of these steps, any download or rename can fail, and two runs share *)
(* the staging directory.  When the manifest itself cannot be downloaded,  *)
(* for whatever reason, the published install script is run in its place   *)
(* (`curl ... | bash`): it verifies nothing, and is outside this program.  *)
(*                                                                         *)
(* A rename moves the file, and a download that is still writing keeps     *)
(* writing to it wherever it went.  There is one new release; a file holds *)
(* the old release's content, the new one's, part of it, something the     *)
(* manifest does not list, or whatever the install script put there.       *)
(* Asset 1 is the compiler.                                                *)
(***************************************************************************)
EXTENDS Integers

CONSTANTS
    Updaters,    \* runs of `tulpar update` that may overlap
    AssetCount   \* files of a release, in the order of assets_for_platform

ASSUME UpdateAssumption == AssetCount \in Nat \ {0}

Assets == 1..AssetCount

VARIABLES
    suStage,    \* suStage[f]: what file f in the staging directory holds
    suInst,     \* suInst[f]: what the installed file f holds
    suExec,     \* the installed files that have mode 0755
    suPc,       \* suPc[u]: where run u is in update_cmd_main
    suAt,       \* suAt[u]: the asset its loop is at
    suFd,       \* suFd[u]: where the file its download writes to is by now
    suCut,      \* history: assets a run was killed at between rename and chmod
    suAborted,  \* history: a run ended inside the install loop
    suOverlap   \* history: two runs were going at once

suVars == <<suStage, suInst, suExec, suPc, suAt, suFd, suCut, suAborted,
            suOverlap>>

disk == <<suStage, suInst, suExec>>

SuTypeOK ==
    /\ suStage \in [Assets -> {"none", "new", "partial", "bad"}]
    /\ suInst \in [Assets -> {"old", "new", "partial", "bad", "script"}]
    /\ suExec \subseteq Assets
    /\ suPc \in [Updaters -> {"idle", "manifest", "script", "download",
                              "writing", "verify", "install", "chmod"}]
    /\ suAt \in [Updaters -> Assets]
    /\ suFd \in [Updaters -> {"none", "staged", "installed", "unlinked"}]
    /\ suCut \subseteq Assets
    /\ suAborted \in BOOLEAN
    /\ suOverlap \in BOOLEAN

\* The old release is installed whole.
SuInit ==
    /\ suStage = [f \in Assets |-> "none"]
    /\ suInst = [f \in Assets |-> "old"]
    /\ suExec = Assets
    /\ suPc = [u \in Updaters |-> "idle"]
    /\ suAt = [u \in Updaters |-> 1]
    /\ suFd = [u \in Updaters |-> "none"]
    /\ suCut = {}
    /\ suAborted = FALSE
    /\ suOverlap = FALSE

File(u) == suAt[u]

\* The shell can run the installed compiler; whether it can one of the script's
\* is not known.
CanRun == 1 \in suExec /\ suInst[1] \in {"old", "new"}
MayRun == CanRun \/ (1 \in suExec /\ suInst[1] = "script")

\* The run of u ends.
Ends(u) ==
    /\ suPc' = [suPc EXCEPT ![u] = "idle"]
    /\ suAt' = [suAt EXCEPT ![u] = 1]
    /\ suFd' = [suFd EXCEPT ![u] = "none"]

\* Its loop goes on to the next asset at pc, or to done after the last one.
NextAsset(u, pc, done) ==
    IF suAt[u] < AssetCount
    THEN /\ suAt' = [suAt EXCEPT ![u] = @ + 1]
         /\ suPc' = [suPc EXCEPT ![u] = pc]
    ELSE /\ suAt' = [suAt EXCEPT ![u] = 1]
         /\ suPc' = [suPc EXCEPT ![u] = done]

-----------------------------------------------------------------------------
(* Download and verify *)

\* The run starts, unless the compiler says it is the latest and there is no
\* --force.  The tag is fetched, and the download of the manifest begins.
SuStart(u, force) ==
    /\ suPc[u] = "idle"
    /\ MayRun
    /\ force \/ suInst[1] # "new"
    /\ suPc' = [suPc EXCEPT ![u] = "manifest"]
    /\ suOverlap' = (suOverlap \/ \E v \in Updaters \ {u} : suPc[v] # "idle")
    /\ UNCHANGED <<disk, suAt, suFd, suCut, suAborted>>

\* SHA256SUMS.txt is there and lists something.
SuManifest(u) ==
    /\ suPc[u] = "manifest"
    /\ suPc' = [suPc EXCEPT ![u] = "download"]
    /\ UNCHANGED <<disk, suAt, suFd, suCut, suAborted, suOverlap>>

\* Its download fails: run_install_script_fallback.
SuFallback(u) ==
    /\ suPc[u] = "manifest"
    /\ suPc' = [suPc EXCEPT ![u] = "script"]
    /\ UNCHANGED <<disk, suAt, suFd, suCut, suAborted, suOverlap>>

\* The script moves a file of its own over an installed one, in some mode.
SuScriptPuts(u, f) ==
    /\ suPc[u] = "script"
    /\ suInst' = [suInst EXCEPT ![f] = "script"]
    /\ suExec' \in {suExec \cup {f}, suExec \ {f}}
    /\ suFd' = [v \in Updaters |->
                  IF suAt[v] = f /\ suFd[v] = "installed" THEN "unlinked" ELSE suFd[v]]
    /\ UNCHANGED <<suStage, suPc, suAt, suCut, suAborted, suOverlap>>

\* It ends, and with it the run, whether it succeeded or not.
SuScriptEnds(u) ==
    /\ suPc[u] = "script"
    /\ Ends(u)
    /\ UNCHANGED <<disk, suCut, suAborted, suOverlap>>

\* curl -o: the staged file is created, or the one left there is truncated.
SuDownload(u) ==
    /\ suPc[u] = "download"
    /\ suStage' = [suStage EXCEPT ![File(u)] = "partial"]
    /\ suFd' = [suFd EXCEPT ![u] = "staged"]
    /\ suPc' = [suPc EXCEPT ![u] = "writing"]
    /\ UNCHANGED <<suInst, suExec, suAt, suCut, suAborted, suOverlap>>

\* The download is complete: what was released, or something else.
SuDownloaded(u) ==
    /\ suPc[u] = "writing"
    /\ \E d \in {"new", "bad"} :
          /\ suStage' = IF suFd[u] = "staged"
                        THEN [suStage EXCEPT ![File(u)] = d] ELSE suStage
          /\ suInst' = IF suFd[u] = "installed"
                       THEN [suInst EXCEPT ![File(u)] = d] ELSE suInst
    /\ suFd' = [suFd EXCEPT ![u] = "none"]
    /\ suPc' = [suPc EXCEPT ![u] = "verify"]
    /\ UNCHANGED <<suExec, suAt, suCut, suAborted, suOverlap>>

\* Mutant: the hash of the staged file is not compared.
SuVerify_Skipped(u) ==
    /\ suPc[u] = "verify"
    /\ NextAsset(u, "download", "install")
    /\ UNCHANGED <<disk, suFd, suCut, suAborted, suOverlap>>

\* The file at the staged name has the manifest's hash: on to the next file,
\* or to the install loop when all are verified.
SuVerify(u) ==
    /\ suPc[u] = "verify"
    /\ suStage[File(u)] = "new"
    /\ NextAsset(u, "download", "install")
    /\ UNCHANGED <<disk, suFd, suCut, suAborted, suOverlap>>

\* No release, an empty manifest or none of this file, a failed download, a
\* missing file or a wrong hash: the run returns 1 and leaves the staging
\* directory as it is.
SuGiveUp(u) ==
    /\ suPc[u] \in {"manifest", "download", "writing", "verify"}
    /\ Ends(u)
    /\ UNCHANGED <<disk, suCut, suAborted, suOverlap>>

-----------------------------------------------------------------------------
(* Install: atomic_replace for each asset *)

\* Where the file of an open download of f is after f was renamed.
Moved(fd, f) ==
    [v \in Updaters |->
        IF suAt[v] # f THEN fd[v]
        ELSE CASE fd[v] = "staged" -> "installed"
               [] fd[v] = "installed" -> "unlinked"
               [] OTHER -> fd[v]]

\* rename(staged, installed): the mode is the staged file's, 0644.
SuRename(u) ==
    /\ suPc[u] = "install"
    /\ suStage[File(u)] # "none"
    /\ suInst' = [suInst EXCEPT ![File(u)] = suStage[File(u)]]
    /\ suStage' = [suStage EXCEPT ![File(u)] = "none"]
    /\ suExec' = suExec \ {File(u)}
    /\ suFd' = Moved(suFd, File(u))
    /\ suPc' = [suPc EXCEPT ![u] = "chmod"]
    /\ UNCHANGED <<suAt, suCut, suAborted, suOverlap>>

\* The rename fails (no permission, another file system, no such file): the
\* run returns 1 with the files before this one already replaced.
SuRenameFails(u) ==
    /\ suPc[u] = "install"
    /\ Ends(u)
    /\ suAborted' = (suAborted \/ suAt[u] > 1)
    /\ UNCHANGED <<disk, suCut, suOverlap>>

\* Mutant: the install loop stops one asset early.
SuChmod_StopsEarly(u) ==
    /\ suPc[u] = "chmod"
    /\ suExec' = suExec \cup {File(u)}
    /\ IF suAt[u] + 1 < AssetCount
       THEN suAt' = [suAt EXCEPT ![u] = @ + 1] /\ suPc' = [suPc EXCEPT ![u] = "install"]
       ELSE suAt' = [suAt EXCEPT ![u] = 1] /\ suPc' = [suPc EXCEPT ![u] = "idle"]
    /\ UNCHANGED <<suStage, suInst, suFd, suCut, suAborted, suOverlap>>

\* Mutant: the mode is not set after the rename.
SuChmod_Missing(u) ==
    /\ suPc[u] = "chmod"
    /\ NextAsset(u, "install", "idle")
    /\ UNCHANGED <<disk, suFd, suCut, suAborted, suOverlap>>

\* chmod(installed, 0755), and on to the next asset.
SuChmod(u) ==
    /\ suPc[u] = "chmod"
    /\ suExec' = suExec \cup {File(u)}
    /\ NextAsset(u, "install", "idle")
    /\ UNCHANGED <<suStage, suInst, suFd, suCut, suAborted, suOverlap>>

\* The process is killed; what is on disk stays.
SuKilled(u) ==
    /\ suPc[u] # "idle"
    /\ Ends(u)
    /\ suCut' = IF suPc[u] = "chmod" THEN suCut \cup {suAt[u]} ELSE suCut
    /\ suAborted' = \/ suAborted
                    \/ suPc[u] = "chmod"
                    \/ suPc[u] = "install" /\ suAt[u] > 1
    /\ UNCHANGED <<disk, suOverlap>>

SuStep(u) ==
    \/ \E force \in BOOLEAN : SuStart(u, force)
    \/ SuManifest(u) \/ SuFallback(u) \/ SuScriptEnds(u)
    \/ \E f \in Assets : SuScriptPuts(u, f)
    \/ SuDownload(u) \/ SuDownloaded(u) \/ SuVerify(u) \/ SuGiveUp(u)
    \/ SuRename(u) \/ SuRenameFails(u) \/ SuChmod(u)
    \/ SuKilled(u)

SuNext == \E u \in Updaters : SuStep(u)

SuSpec == SuInit /\ [][SuNext]_suVars

-----------------------------------------------------------------------------
(* Correctness. *)

\* Whatever download, check or rename fails and whenever the process is killed,
\* an installed file is whole and one the manifest lists, unless two runs
\* overlapped (they share the staging directory, and one truncates what the
\* other has verified) or the install script put it there. A run that got a
\* manifest never installs anything unverified, also over files of the script.
InstalledIsVerified ==
    \A f \in Assets : suInst[f] \in {"old", "new", "script"} \/ suOverlap

\* The installed compiler can be run, unless a run is between the rename and
\* the chmod of it, was killed there, or shared the staging directory, or it is
\* the install script's.
CompilerRuns ==
    \/ CanRun
    \/ \E u \in Updaters : suPc[u] = "chmod" /\ suAt[u] = 1
    \/ 1 \in suCut
    \/ suOverlap
    \/ suInst[1] = "script"

\* Files of two releases are installed side by side only while a run is in its
\* install loop or after one ended inside it.  ("installed atomically as a
\* unit" is true of the downloads, not of the installation.)
MixedOnlyAfterAbort ==
    (\E f, g \in Assets : suInst[f] = "old" /\ suInst[g] = "new") =>
        \/ suAborted
        \/ \E u \in Updaters : suPc[u] \in {"install", "chmod"}
=============================================================================
