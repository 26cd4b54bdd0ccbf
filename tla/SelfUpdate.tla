------------------------------ MODULE SelfUpdate ------------------------------
(***************************************************************************)
(* `kube-watch selfupdate` (selfupdate.go): a short-lived process asks for *)
(* the latest release, downloads and verifies it, and swaps it with the    *)
(* executable at its own path by way of a backup, path + ".old".           *)
(*                                                                         *)
(* Each call of the file system is a step: it may fail, the process may be *)
(* killed after it, and another updater may run in between.                *)
(*                                                                         *)
(* A file is a release's binary and how far it is written; its mode only   *)
(* matters as "not executable before chmod". A version is what             *)
(* parseVersion makes of a tag, three numbers or nothing. A download is    *)
(* what matches the checksum or something else.                            *)
(***************************************************************************)
EXTENDS Naturals

CONSTANTS Updater,      \* processes
          Release,      \* versions of three numbers
          Unversioned   \* a build or a tag without such a version ("dev")

ASSUME ReleaseAssumption ==
    Release \subseteq Nat \X Nat \X Nat /\ Unversioned \notin Release

Version == Release \cup {Unversioned}

VARIABLES
    latest,    \* the version that GitHub calls the latest release
    path,      \* the file at the executable's path
    old,       \* the file at path + ".old"
    tmp,       \* the file that each updater made with CreateTemp
    pc,        \* the next call of each updater
    ran,       \* the version each updater was built as
    force,     \* its --force
    got,       \* the binary it downloaded
    was,       \* history: the version that was last at the path
    harm       \* history: what went wrong. "overlap": two updaters ran at once;
               \* "crash": one was killed between its renames; "install": the
               \* second rename failed; "rollback": so did the one that puts
               \* the backup back

files == <<path, old, tmp>>
vars  == <<latest, path, old, tmp, pc, ran, force, got, was, harm>>

Binary(v) == [version |-> v, stage |-> "ready"]
NoFile    == [version |-> Unversioned, stage |-> "absent"]
Absent(f) == f.stage = "absent"

-----------------------------------------------------------------------------
(* Which version to install.                                               *)

BugIsNewerVersion(current, new) ==
    /\ current # Unversioned /\ new # Unversioned
    /\ \E i \in 1..3 : new[i] > current[i]

IsNewerVersion(current, new) ==
    /\ current # Unversioned /\ new # Unversioned
    /\ \E i \in 1..3 : new[i] > current[i] /\ \A j \in 1..(i - 1) : new[j] = current[j]

ShouldInstall(current, new, forced) ==
    \/ forced
    \/ IsNewerVersion(current, new)
    \/ current = Unversioned /\ new # Unversioned

-----------------------------------------------------------------------------
Init ==
    /\ latest \in Version
    /\ path \in {Binary(v) : v \in Version}
    /\ old = NoFile
    /\ tmp = [u \in Updater |-> NoFile]
    /\ pc = [u \in Updater |-> "idle"]
    /\ ran = [u \in Updater |-> Unversioned]
    /\ force = [u \in Updater |-> FALSE]
    /\ got = [u \in Updater |-> NoFile]
    /\ was = path.version
    /\ harm = {}

\* Where the updater goes on; what it was built as and asked to do stays.
GoTo(u, call) == pc' = [pc EXCEPT ![u] = call] /\ UNCHANGED <<latest, ran, force>>

\* The process ends, with or without an error message.
Ends(u) ==
    /\ pc' = [pc EXCEPT ![u] = "idle"]
    /\ ran' = [ran EXCEPT ![u] = Unversioned]
    /\ force' = [force EXCEPT ![u] = FALSE]
    /\ got' = [got EXCEPT ![u] = NoFile]
    /\ UNCHANGED latest

Publish(v) == latest' = v /\ UNCHANGED <<files, pc, ran, force, got, was, harm>>

\* Somebody runs the executable.
Start(u, forced) ==
    /\ pc[u] = "idle" /\ path.stage = "ready"
    /\ pc' = [pc EXCEPT ![u] = "check"]
    /\ ran' = [ran EXCEPT ![u] = path.version]
    /\ force' = [force EXCEPT ![u] = forced]
    /\ harm' = IF \E w \in Updater : pc[w] # "idle" THEN harm \cup {"overlap"} ELSE harm
    /\ UNCHANGED <<latest, files, got, was>>

\* fetchLatestRelease, and the choice of the assets: the release found now is
\* the one that is downloaded later.
Check(u) ==
    /\ pc[u] = "check"
    /\ ShouldInstall(ran[u], latest, force[u])
    /\ got' = [got EXCEPT ![u] = [version |-> latest, stage |-> "absent"]]
    /\ GoTo(u, "download")
    /\ UNCHANGED <<files, was, harm>>

UpToDate(u) ==
    /\ pc[u] = "check"
    /\ ~ShouldInstall(ran[u], latest, force[u])
    /\ Ends(u)
    /\ UNCHANGED <<files, was, harm>>

BugVerified(whole) == TRUE
Verified(whole) == whole

\* A download that is cut off or altered does not match checksums.txt.
Download(u, whole) ==
    /\ pc[u] = "download"
    /\ Verified(whole)
    /\ got' = [got EXCEPT ![u].stage = IF whole THEN "ready" ELSE "damaged"]
    /\ GoTo(u, "stat")
    /\ UNCHANGED <<files, was, harm>>

Stat(u) ==
    /\ pc[u] = "stat" /\ ~Absent(path)
    /\ GoTo(u, "create")
    /\ UNCHANGED <<files, got, was, harm>>

\* What fails before there is a temporary file ends the update.
FailsEarly(u) ==
    /\ pc[u] \in {"check", "download", "stat", "create"}
    /\ Ends(u)
    /\ UNCHANGED <<files, was, harm>>

Create(u) ==
    /\ pc[u] = "create"
    /\ tmp' = [tmp EXCEPT ![u] = [version |-> got[u].version, stage |-> "empty"]]
    /\ GoTo(u, "write")
    /\ UNCHANGED <<path, old, got, was, harm>>

Write(u) ==
    /\ pc[u] = "write"
    /\ tmp' = [tmp EXCEPT ![u].stage = "written"]
    /\ GoTo(u, "chmod")
    /\ UNCHANGED <<path, old, got, was, harm>>

\* From here on the file is as good as what was downloaded.
Chmod(u) ==
    /\ pc[u] = "chmod"
    /\ tmp' = [tmp EXCEPT ![u].stage = got[u].stage]
    /\ GoTo(u, "close")
    /\ UNCHANGED <<path, old, got, was, harm>>

Close(u) ==
    /\ pc[u] = "close"
    /\ GoTo(u, "unlink")
    /\ UNCHANGED <<files, got, was, harm>>

\* A failed write may have written a part; the deferred Remove follows.
FailsWriting(u) ==
    /\ pc[u] \in {"write", "chmod", "close"}
    /\ tmp' = IF pc[u] = "write" THEN [tmp EXCEPT ![u].stage = "damaged"] ELSE tmp
    /\ GoTo(u, "cleanup")
    /\ UNCHANGED <<path, old, got, was, harm>>

-----------------------------------------------------------------------------
(* The swap. A failed Remove is ignored.                                   *)

RemoveOld == old' \in {NoFile, old}

Unlink(u) ==
    /\ pc[u] = "unlink"
    /\ RemoveOld
    /\ GoTo(u, "backup")
    /\ UNCHANGED <<path, tmp, got, was, harm>>

Backup(u) ==
    /\ pc[u] = "backup" /\ ~Absent(path)
    /\ old' = path
    /\ path' = NoFile
    /\ was' = path.version
    /\ GoTo(u, "install")
    /\ UNCHANGED <<tmp, got, harm>>

BackupFails(u) ==
    /\ pc[u] = "backup"
    /\ GoTo(u, "cleanup")
    /\ UNCHANGED <<files, got, was, harm>>

\* The new file replaces whatever is at the path by now.
Install(u) ==
    /\ pc[u] = "install"
    /\ path' = tmp[u]
    /\ tmp' = [tmp EXCEPT ![u] = NoFile]
    /\ was' = IF Absent(path) THEN was ELSE path.version
    /\ GoTo(u, "tidy")
    /\ UNCHANGED <<old, got, harm>>

BugForgetsError  == "tidy"
BugNoRollback    == "cleanup"
AfterFailedInstall == "rollback"

InstallFails(u) ==
    /\ pc[u] = "install"
    /\ harm' = harm \cup {"install"}
    /\ GoTo(u, AfterFailedInstall)
    /\ UNCHANGED <<files, got, was>>

Rollback(u) ==
    /\ pc[u] = "rollback" /\ ~Absent(old)
    /\ path' = old
    /\ old' = NoFile
    /\ was' = IF Absent(path) THEN was ELSE path.version
    /\ GoTo(u, "cleanup")
    /\ UNCHANGED <<tmp, got, harm>>

RollbackFails(u) ==
    /\ pc[u] = "rollback"
    /\ harm' = harm \cup {"rollback"}
    /\ GoTo(u, "cleanup")
    /\ UNCHANGED <<files, got, was>>

Tidy(u) ==
    /\ pc[u] = "tidy"
    /\ RemoveOld
    /\ GoTo(u, "cleanup")
    /\ UNCHANGED <<path, tmp, got, was, harm>>

\* The deferred Remove of the temporary file. One that stays has a random
\* name and is not met again.
Cleanup(u) ==
    /\ pc[u] = "cleanup"
    /\ tmp' = [tmp EXCEPT ![u] = NoFile]
    /\ Ends(u)
    /\ UNCHANGED <<path, old, was, harm>>

\* The process is killed; the temporary file stays, which is the same. Nothing is
\* synchronised to the disk, so that a machine that stops is another matter.
Crash(u) ==
    /\ pc[u] # "idle"
    /\ harm' = IF pc[u] \in {"install", "rollback"} THEN harm \cup {"crash"} ELSE harm
    /\ tmp' = [tmp EXCEPT ![u] = NoFile]
    /\ Ends(u)
    /\ UNCHANGED <<path, old, was>>

-----------------------------------------------------------------------------
Updates(u) ==
    \/ \E forced \in BOOLEAN : Start(u, forced)
    \/ Check(u) \/ UpToDate(u) \/ FailsEarly(u)
    \/ \E whole \in BOOLEAN : Download(u, whole)
    \/ Stat(u) \/ Create(u) \/ Write(u) \/ Chmod(u) \/ Close(u) \/ FailsWriting(u)
    \/ Unlink(u) \/ Backup(u) \/ BackupFails(u)
    \/ Install(u) \/ InstallFails(u) \/ Rollback(u) \/ RollbackFails(u)
    \/ Tidy(u) \/ Cleanup(u) \/ Crash(u)

Next == (\E v \in Version : Publish(v)) \/ (\E u \in Updater : Updates(u))

Spec == Init /\ [][Next]_vars

-----------------------------------------------------------------------------
\* What is at the path, or was put aside, can be run: it was downloaded
\* completely, verified, written and made executable, whichever call failed
\* and wherever an updater was killed.
OnlyWholeExecutables == path.stage \in {"ready", "absent"} /\ old.stage \in {"ready", "absent"}

\* Nothing is left at the path and nothing in the backup only if two updaters
\* overlapped, one removing the other's backup, and one of them is about to
\* install, was killed or failed there. One updater alone always leaves an
\* executable, whatever fails.
Recoverable ==
    Absent(path) /\ Absent(old) =>
        /\ "overlap" \in harm
        /\ harm \cap {"crash", "install"} # {} \/ \E u \in Updater : pc[u] = "install"

\* When no updater runs, the executable is missing from its path only if one
\* was killed between its renames or its roll back failed too.
MissingForCause ==
    Absent(path) /\ (\A u \in Updater : pc[u] = "idle") => harm \cap {"crash", "rollback"} # {}

\* Without --force the path does not go back to an older version, unless two
\* updaters overlapped: the one that asked first may install last.
NoDowngrade ==
    [][path' # path /\ ~Absent(path') =>
          \/ ~IsNewerVersion(path'.version, was)
          \/ "overlap" \in harm
          \/ \E u \in Updater : pc[u] = "install" /\ force[u]]_vars
=============================================================================
