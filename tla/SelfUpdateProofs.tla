--------------------------- MODULE SelfUpdateProofs ---------------------------
(***************************************************************************)
(* Proofs about SelfUpdate, for any number of updaters and any releases,   *)
(* whatever fails and whoever is killed: what can be started is complete,  *)
(* an executable is left, and no version is replaced by an older one.      *)
(***************************************************************************)
EXTENDS SelfUpdate, TLAPS

-----------------------------------------------------------------------------
(* Files and steps.                                                        *)

File == [version : Version,
         stage : {"absent", "empty", "written", "damaged", "ready"}]

Call == {"idle", "check", "download", "stat", "create", "write", "chmod", "close",
         "unlink", "backup", "install", "rollback", "tidy", "cleanup"}

UpdateTypeOK ==
  /\ latest \in Version /\ was \in Version
  /\ path \in File /\ old \in File /\ tmp \in [Updater -> File]
  /\ pc \in [Updater -> Call]
  /\ ran \in [Updater -> Version] /\ force \in [Updater -> BOOLEAN]
  /\ got \in [Updater -> File]
  /\ harm \subseteq {"overlap", "crash", "install", "rollback"}

\* Files stay files when they are written on.
LEMMA FileTypes ==
  /\ NoFile \in File /\ \A v \in Version : Binary(v) \in File
  /\ \A f \in File, s \in {"absent", "empty", "written", "damaged", "ready"} :
        [f EXCEPT !.stage = s] \in File
BY DEF NoFile, Binary, File, Version

\* The initial state has the types.
LEMMA UpdateTypeInit == Init => UpdateTypeOK
<1> SUFFICES ASSUME Init PROVE UpdateTypeOK
  OBVIOUS
<1>1. path \in File /\ path.version \in Version
  <2>1. PICK v \in Version : path = Binary(v)
    BY DEF Init
  <2>2. Binary(v) \in File
    BY FileTypes
  <2>3. Binary(v).version = v
    BY DEF Binary
  <2> QED
    BY <2>1, <2>2, <2>3
<1>2. Unversioned \in Version
  BY DEF Version
<1> QED
  BY <1>1, <1>2, FileTypes DEF Init, UpdateTypeOK, Call

\* The end of a process keeps the types.
LEMMA EndTypes ==
  ASSUME UpdateTypeOK, NEW u \in Updater, Ends(u)
  PROVE  /\ latest' \in Version /\ pc' \in [Updater -> Call]
         /\ ran' \in [Updater -> Version] /\ force' \in [Updater -> BOOLEAN]
         /\ got' \in [Updater -> File]
  BY FileTypes DEF Ends, UpdateTypeOK, Call, Version

\* So does a step to another call.
LEMMA GoToTypes ==
  ASSUME UpdateTypeOK, NEW u \in Updater, NEW call \in Call, GoTo(u, call)
  PROVE  /\ latest' \in Version /\ pc' \in [Updater -> Call]
         /\ ran' \in [Updater -> Version] /\ force' \in [Updater -> BOOLEAN]
  BY DEF GoTo, UpdateTypeOK

\* Every step of an updater keeps the types.
LEMMA UpdateTypeStep ==
  ASSUME UpdateTypeOK, NEW u \in Updater, Updates(u) PROVE UpdateTypeOK'
<1> DEFINE Harms == harm' \subseteq {"overlap", "crash", "install", "rollback"}
           Files == /\ path' \in File /\ old' \in File /\ tmp' \in [Updater -> File]
                    /\ was' \in Version
<1>1. /\ path.version \in Version /\ \A w \in Updater : got[w].version \in Version
      /\ tmp[u] \in File /\ got[u] \in File
      /\ got[u].stage \in {"absent", "empty", "written", "damaged", "ready"}
  BY DEF UpdateTypeOK, File
<1>2. CASE \E forced \in BOOLEAN : Start(u, forced)
  <2>1. PICK forced \in BOOLEAN : Start(u, forced)
    BY <1>2
  <2>2. Files /\ Harms /\ got' \in [Updater -> File] /\ latest' \in Version
    BY <2>1 DEF Start, UpdateTypeOK, files
  <2>3. /\ pc' \in [Updater -> Call] /\ ran' \in [Updater -> Version]
        /\ force' \in [Updater -> BOOLEAN]
    BY <1>1, <2>1 DEF Start, UpdateTypeOK, Call
  <2> QED
    BY <2>2, <2>3 DEF UpdateTypeOK
<1>3. CASE Check(u)
  <2>1. [version |-> latest, stage |-> "absent"] \in File
    BY DEF File, UpdateTypeOK
  <2>2. got' \in [Updater -> File] /\ Files /\ Harms
    BY <1>3, <2>1 DEF Check, UpdateTypeOK, files
  <2> QED
    BY <1>3, <2>2, GoToTypes DEF Check, UpdateTypeOK, Call
<1>4. CASE UpToDate(u) \/ FailsEarly(u)
  <2>1. Files /\ Harms /\ Ends(u)
    BY <1>4 DEF UpToDate, FailsEarly, UpdateTypeOK, files
  <2> QED
    BY <2>1, EndTypes DEF UpdateTypeOK
<1>5. CASE \E whole \in BOOLEAN : Download(u, whole)
  <2>1. PICK whole \in BOOLEAN : Download(u, whole)
    BY <1>5
  <2>2. got' = [got EXCEPT ![u] = [got[u] EXCEPT !.stage = IF whole THEN "ready" ELSE "damaged"]]
    BY <2>1 DEF Download
  <2>3. got' \in [Updater -> File]
    BY <1>1, <2>2, FileTypes DEF UpdateTypeOK
  <2>4. Files /\ Harms /\ GoTo(u, "stat")
    BY <2>1 DEF Download, UpdateTypeOK, files
  <2> QED
    BY <2>3, <2>4, GoToTypes DEF UpdateTypeOK, Call
<1>6. CASE Stat(u) \/ Close(u) \/ BackupFails(u)
  <2>1. /\ Files /\ Harms /\ got' \in [Updater -> File]
        /\ GoTo(u, "create") \/ GoTo(u, "unlink") \/ GoTo(u, "cleanup")
    BY <1>6 DEF Stat, Close, BackupFails, UpdateTypeOK, files
  <2> QED
    BY <2>1, GoToTypes DEF UpdateTypeOK, Call
<1>7. CASE Create(u) \/ Write(u) \/ Chmod(u) \/ FailsWriting(u)
  <2>1. [version |-> got[u].version, stage |-> "empty"] \in File
    BY <1>1 DEF File
  <2>2. CASE Create(u)
    <3>1. tmp' \in [Updater -> File]
      BY <2>1, <2>2 DEF Create, UpdateTypeOK
    <3> QED
      BY <2>2, <3>1, GoToTypes DEF Create, UpdateTypeOK, Call
  <2>3. CASE Write(u)
    <3>1. tmp' = [tmp EXCEPT ![u] = [tmp[u] EXCEPT !.stage = "written"]]
      BY <2>3 DEF Write
    <3>2. tmp' \in [Updater -> File]
      BY <1>1, <3>1, FileTypes DEF UpdateTypeOK
    <3> QED
      BY <2>3, <3>2, GoToTypes DEF Write, UpdateTypeOK, Call
  <2>4. CASE Chmod(u)
    <3>1. tmp' = [tmp EXCEPT ![u] = [tmp[u] EXCEPT !.stage = got[u].stage]]
      BY <2>4 DEF Chmod
    <3>2. tmp' \in [Updater -> File]
      BY <1>1, <3>1, FileTypes DEF UpdateTypeOK
    <3> QED
      BY <2>4, <3>2, GoToTypes DEF Chmod, UpdateTypeOK, Call
  <2>5. CASE FailsWriting(u)
    <3>1. tmp' = tmp \/ tmp' = [tmp EXCEPT ![u] = [tmp[u] EXCEPT !.stage = "damaged"]]
      BY <2>5 DEF FailsWriting
    <3>2. tmp' \in [Updater -> File]
      BY <1>1, <3>1, FileTypes DEF UpdateTypeOK
    <3> QED
      BY <2>5, <3>2, GoToTypes DEF FailsWriting, UpdateTypeOK, Call
  <2> QED
    BY <1>7, <2>2, <2>3, <2>4, <2>5
<1>8. CASE Unlink(u) \/ Tidy(u) \/ Backup(u) \/ Install(u)
  <2>1. old' \in File /\ path' \in File /\ was' \in Version
    BY <1>1, <1>8, FileTypes DEF Unlink, Tidy, Backup, Install, RemoveOld, UpdateTypeOK
  <2>2. tmp' \in [Updater -> File]
    BY <1>8, FileTypes DEF Unlink, Tidy, Backup, Install, UpdateTypeOK
  <2>3. /\ Harms /\ got' \in [Updater -> File]
        /\ GoTo(u, "backup") \/ GoTo(u, "cleanup") \/ GoTo(u, "install") \/ GoTo(u, "tidy")
    BY <1>8 DEF Unlink, Tidy, Backup, Install, UpdateTypeOK
  <2> QED
    BY <2>1, <2>2, <2>3, GoToTypes DEF UpdateTypeOK, Call
<1>9. CASE InstallFails(u) \/ Rollback(u) \/ RollbackFails(u)
  <2>1. old' \in File /\ path' \in File /\ was' \in Version /\ tmp' \in [Updater -> File]
    BY <1>1, <1>9, FileTypes DEF InstallFails, Rollback, RollbackFails, UpdateTypeOK, files
  <2>2. /\ Harms /\ got' \in [Updater -> File]
        /\ GoTo(u, "rollback") \/ GoTo(u, "cleanup")
    BY <1>9 DEF InstallFails, Rollback, RollbackFails, AfterFailedInstall, UpdateTypeOK
  <2> QED
    BY <2>1, <2>2, GoToTypes DEF UpdateTypeOK, Call
<1>10. CASE Cleanup(u) \/ Crash(u)
  <2>1. /\ path' \in File /\ old' \in File /\ was' \in Version
        /\ tmp' \in [Updater -> File] /\ Harms /\ Ends(u)
    BY <1>10, FileTypes DEF Cleanup, Crash, UpdateTypeOK
  <2> QED
    BY <2>1, EndTypes DEF UpdateTypeOK
<1> QED
  BY <1>2, <1>3, <1>4, <1>5, <1>6, <1>7, <1>8, <1>9, <1>10 DEF Updates

\* A publication changes nothing but the latest version.
LEMMA OtherTypes ==
  ASSUME UpdateTypeOK, (\E v \in Version : Publish(v)) \/ UNCHANGED vars
  PROVE  /\ UpdateTypeOK'
         /\ UNCHANGED <<path, old, tmp, pc, ran, force, got, was, harm>>
  BY DEF Publish, vars, files, UpdateTypeOK

\* What a step does to what belongs to its updater.
LEMMA Own ==
  ASSUME UpdateTypeOK, NEW u \in Updater
  PROVE  /\ \A call : GoTo(u, call) => pc'[u] = call /\ ran' = ran /\ force' = force
         /\ Ends(u) => pc'[u] = "idle"
         /\ \A whole \in BOOLEAN : Download(u, whole) =>
              whole /\ got'[u].stage = "ready" /\ got'[u].version = got[u].version
         /\ Write(u) => tmp'[u].version = tmp[u].version
         /\ Chmod(u) => tmp'[u].version = tmp[u].version /\ tmp'[u].stage = got[u].stage
<1> USE DEF UpdateTypeOK
<1>1. \A call : GoTo(u, call) => pc'[u] = call /\ ran' = ran /\ force' = force
  BY DEF GoTo
<1>2. Ends(u) => pc'[u] = "idle"
  BY DEF Ends
<1>3. \A f \in File : \A s : /\ [f EXCEPT !.stage = s].stage = s
                             /\ [f EXCEPT !.stage = s].version = f.version
  BY DEF File
<1>4. tmp[u] \in File /\ got[u] \in File
  OBVIOUS
<1>5. ASSUME NEW whole \in BOOLEAN, Download(u, whole)
      PROVE  whole /\ got'[u].stage = "ready" /\ got'[u].version = got[u].version
  <2>1. whole /\ got' = [got EXCEPT ![u] = [got[u] EXCEPT !.stage = "ready"]]
    BY <1>5 DEF Download, Verified
  <2>2. got'[u] = [got[u] EXCEPT !.stage = "ready"]
    BY <2>1
  <2> QED
    BY <1>3, <1>4, <2>1, <2>2
<1>6. ASSUME Write(u) PROVE tmp'[u].version = tmp[u].version
  <2>1. tmp' = [tmp EXCEPT ![u] = [tmp[u] EXCEPT !.stage = "written"]]
    BY <1>6 DEF Write
  <2>2. tmp'[u] = [tmp[u] EXCEPT !.stage = "written"]
    BY <2>1
  <2> QED
    BY <1>3, <1>4, <2>2
<1>7. ASSUME Chmod(u)
      PROVE  tmp'[u].version = tmp[u].version /\ tmp'[u].stage = got[u].stage
  <2>1. tmp' = [tmp EXCEPT ![u] = [tmp[u] EXCEPT !.stage = got[u].stage]]
    BY <1>7 DEF Chmod
  <2>2. tmp'[u] = [tmp[u] EXCEPT !.stage = got[u].stage]
    BY <2>1
  <2> QED
    BY <1>3, <1>4, <2>2
<1> QED
  BY <1>1, <1>2, <1>5, <1>6, <1>7

\* It leaves what belongs to another one alone.
LEMMA Others ==
  ASSUME UpdateTypeOK, NEW u \in Updater, Updates(u), NEW w \in Updater \ {u}
  PROVE  /\ pc'[w] = pc[w] /\ ran'[w] = ran[w] /\ force'[w] = force[w]
         /\ got'[w] = got[w] /\ tmp'[w] = tmp[w]
<1> USE DEF UpdateTypeOK
<1>1. /\ \A call : GoTo(u, call) =>
           pc'[w] = pc[w] /\ ran'[w] = ran[w] /\ force'[w] = force[w]
      /\ Ends(u) => /\ pc'[w] = pc[w] /\ ran'[w] = ran[w]
                    /\ force'[w] = force[w] /\ got'[w] = got[w]
  BY DEF GoTo, Ends
<1>2. CASE \E forced \in BOOLEAN : Start(u, forced)
  BY <1>2 DEF Start, files
<1>3. CASE Check(u) \/ UpToDate(u) \/ FailsEarly(u) \/ Stat(u) \/ Close(u)
  BY <1>1, <1>3 DEF Check, UpToDate, FailsEarly, Stat, Close, files
<1>4. CASE \E whole \in BOOLEAN : Download(u, whole)
  BY <1>1, <1>4 DEF Download, files
<1>5. CASE Create(u) \/ Write(u) \/ Chmod(u) \/ FailsWriting(u)
  BY <1>1, <1>5 DEF Create, Write, Chmod, FailsWriting
<1>6. CASE Unlink(u) \/ Backup(u) \/ BackupFails(u) \/ Install(u) \/ Tidy(u)
  BY <1>1, <1>6 DEF Unlink, Backup, BackupFails, Install, Tidy, files
<1>7. CASE InstallFails(u) \/ Rollback(u) \/ RollbackFails(u)
  BY <1>1, <1>7 DEF InstallFails, Rollback, RollbackFails, files
<1>8. CASE Cleanup(u) \/ Crash(u)
  BY <1>1, <1>8 DEF Cleanup, Crash
<1> QED
  BY <1>2, <1>3, <1>4, <1>5, <1>6, <1>7, <1>8 DEF Updates

-----------------------------------------------------------------------------
(* What can be started.                                                    *)

\* What was downloaded is whole once it is verified, and the temporary file is a
\* copy of it once it is written.
Copies ==
  \A u \in Updater :
    /\ pc[u] \in Call \ {"idle", "check", "download", "cleanup"} => got[u].stage = "ready"
    /\ pc[u] \in {"close", "unlink", "backup", "install"} => tmp[u].stage = "ready"

WholeInv == UpdateTypeOK /\ OnlyWholeExecutables /\ Copies

\* At first nothing is under way, and the file at the path is whole.
LEMMA WholeInit == Init => WholeInv
<1> SUFFICES ASSUME Init PROVE WholeInv
  OBVIOUS
<1>1. path.stage = "ready" /\ old.stage = "absent"
  BY DEF Init, Binary, NoFile
<1>2. Copies
  BY DEF Init, Copies, Call
<1> QED
  BY <1>1, <1>2, UpdateTypeInit DEF WholeInv, OnlyWholeExecutables

\* Only the renames and Remove touch the two files, and what is installed is a copy of
\* what was verified.
LEMMA WholeStep ==
  ASSUME WholeInv, NEW u \in Updater, Updates(u) PROVE WholeInv'
<1> USE DEF WholeInv
<1>1. OnlyWholeExecutables'
  <2>1. CASE UNCHANGED <<path, old>>
    BY <2>1 DEF OnlyWholeExecutables
  <2>2. CASE Unlink(u) \/ Tidy(u) \/ Backup(u) \/ Rollback(u)
    BY <2>2 DEF Unlink, Tidy, Backup, Rollback, RemoveOld, NoFile, OnlyWholeExecutables
  <2>3. CASE Install(u)
    BY <2>3 DEF Install, Copies, OnlyWholeExecutables
  <2> QED
    BY <2>1, <2>2, <2>3 DEF Updates, Start, Check, UpToDate, FailsEarly, Download, Stat, Create,
       Write, Chmod, Close, FailsWriting, BackupFails, InstallFails, RollbackFails, Cleanup,
       Crash, files
<1>2. ASSUME NEW w \in Updater
      PROVE  /\ pc'[w] \in Call \ {"idle", "check", "download", "cleanup"}
                   => got'[w].stage = "ready"
             /\ pc'[w] \in {"close", "unlink", "backup", "install"}
                   => tmp'[w].stage = "ready"
  <2>1. CASE w # u
    BY <2>1, Others DEF Copies
  <2>2. CASE w = u
    <3>1. CASE \E whole \in BOOLEAN : Download(u, whole)
      <4>1. PICK whole \in BOOLEAN : Download(u, whole)
        BY <3>1
      <4>2. pc'[u] = "stat"
        BY <4>1, Own DEF Download
      <4> QED
        BY <2>2, <4>1, <4>2, Own
    <3>2. CASE Chmod(u)
      <4>1. pc[u] = "chmod" /\ got' = got
        BY <3>2 DEF Chmod
      <4>2. got[u].stage = "ready"
        BY <4>1 DEF Copies, Call
      <4> QED
        BY <2>2, <3>2, <4>1, <4>2, Own
    <3>3. CASE pc'[u] \in {"idle", "check", "download", "cleanup"}
      BY <2>2, <3>3
    <3>4. CASE Stat(u) \/ Create(u) \/ Write(u)
      <4>1. got' = got /\ pc[u] \in {"stat", "create", "write"}
        BY <3>4 DEF Stat, Create, Write
      <4>2. pc'[u] \in {"create", "write", "chmod"}
        BY <3>4, Own DEF Stat, Create, Write
      <4> QED
        BY <2>2, <4>1, <4>2 DEF Copies, Call
    <3>5. CASE Close(u) \/ Unlink(u) \/ Backup(u)
      <4>1. got' = got /\ tmp' = tmp /\ pc[u] \in {"close", "unlink", "backup"}
        BY <3>5 DEF Close, Unlink, Backup, files
      <4> QED
        BY <2>2, <4>1 DEF Copies, Call
    <3>6. CASE Install(u) \/ InstallFails(u)
      <4>1. got' = got /\ pc[u] = "install"
        BY <3>6 DEF Install, InstallFails
      <4>2. pc'[u] \in {"tidy", "rollback"}
        BY <3>6, Own DEF Install, InstallFails, AfterFailedInstall
      <4> QED
        BY <2>2, <4>1, <4>2 DEF Copies, Call
    <3>7. Start(u, TRUE) \/ Start(u, FALSE) => pc'[u] = "check"
      BY DEF Start, UpdateTypeOK
    <3>8. Check(u) \/ UpToDate(u) \/ FailsEarly(u) \/ FailsWriting(u) \/ BackupFails(u)
          \/ Rollback(u) \/ RollbackFails(u) \/ Tidy(u) \/ Cleanup(u) \/ Crash(u)
            => pc'[u] \in {"idle", "download", "cleanup"}
      BY Own DEF Check, UpToDate, FailsEarly, FailsWriting, BackupFails, Rollback,
         RollbackFails, Tidy, Cleanup, Crash
    <3> QED
      BY <3>1, <3>2, <3>3, <3>4, <3>5, <3>6, <3>7, <3>8 DEF Updates
  <2> QED
    BY <2>1, <2>2
<1>3. Copies'
  BY <1>2 DEF Copies
<1> QED
  BY <1>1, <1>3, UpdateTypeStep

\* A publication touches no file.
LEMMA WholeOther ==
  ASSUME WholeInv, (\E v \in Version : Publish(v)) \/ UNCHANGED vars PROVE WholeInv'
  BY OtherTypes DEF WholeInv, OnlyWholeExecutables, Copies

\* The files and the updaters have the types that the model gives them.
THEOREM SelfUpdateTypes == Spec => []UpdateTypeOK
<1>1. UpdateTypeOK /\ [Next]_vars => UpdateTypeOK'
  BY UpdateTypeStep, OtherTypes DEF Next
<1> QED
  BY <1>1, UpdateTypeInit, PTL DEF Spec

\* Whatever fails, whoever is killed and however many updaters run, the file at the
\* path and the backup can be started.
THEOREM NothingHalfWritten == Spec => []OnlyWholeExecutables
<1>1. WholeInv /\ [Next]_vars => WholeInv'
  BY WholeStep, WholeOther DEF Next
<1>2. WholeInv => OnlyWholeExecutables
  BY DEF WholeInv
<1> QED
  BY <1>1, <1>2, WholeInit, PTL DEF Spec


-----------------------------------------------------------------------------
(* What is left.                                                           *)

\* A missing executable has its cause, or somebody is between the renames.
Missing ==
  /\ Absent(path) => \/ harm \cap {"crash", "rollback"} # {}
                     \/ \E u \in Updater : pc[u] \in {"install", "rollback"}
  /\ "rollback" \in harm => "install" \in harm
  /\ \A u \in Updater : pc[u] = "rollback" => "install" \in harm

\* While no two updaters have overlapped, there is an executable.
Alone ==
  "overlap" \notin harm =>
     /\ \A u, w \in Updater : pc[u] # "idle" /\ pc[w] # "idle" => u = w
     /\ ~Absent(path) \/ ~Absent(old)
     /\ \A u \in Updater :
           pc[u] \in Call \ {"idle", "install", "rollback", "cleanup"} => ~Absent(path)

LeftInv == WholeInv /\ Missing /\ Alone

\* At first the executable is there and nothing has gone wrong.
LEMMA LeftInit == Init => LeftInv
<1> SUFFICES ASSUME Init PROVE LeftInv
  OBVIOUS
<1>1. ~Absent(path)
  BY DEF Init, Binary, Absent
<1>2. \A u \in Updater : pc[u] = "idle"
  BY DEF Init
<1>3. harm = {}
  BY DEF Init
<1> QED
  BY <1>1, <1>2, <1>3, WholeInit DEF LeftInv, Missing, Alone

\* Which steps blame, and which take the executable away or put one there.
LEMMA Blame ==
  ASSUME UpdateTypeOK, NEW u \in Updater, Updates(u)
  PROVE  /\ harm \subseteq harm'
         /\ \/ harm' = harm
            \/ pc[u] = "idle" /\ harm' = harm \cup {"overlap"}
            \/ Crash(u) /\ harm' = harm \cup {"crash"}
            \/ InstallFails(u) /\ harm' = harm \cup {"install"}
            \/ RollbackFails(u) /\ harm' = harm \cup {"rollback"}
<1>1. (\E forced \in BOOLEAN : Start(u, forced))
        => pc[u] = "idle" /\ (harm' = harm \/ harm' = harm \cup {"overlap"})
  BY DEF Start
<1>2. Crash(u) => harm' = harm \/ harm' = harm \cup {"crash"}
  BY DEF Crash
<1>3. /\ InstallFails(u) => harm' = harm \cup {"install"}
      /\ RollbackFails(u) => harm' = harm \cup {"rollback"}
  BY DEF InstallFails, RollbackFails
<1>4. Check(u) \/ UpToDate(u) \/ FailsEarly(u) \/ (\E whole \in BOOLEAN : Download(u, whole))
        => harm' = harm
  BY DEF Check, UpToDate, FailsEarly, Download
<1>5. Stat(u) \/ Create(u) \/ Write(u) \/ Chmod(u) \/ Close(u) \/ FailsWriting(u)
        => harm' = harm
  BY DEF Stat, Create, Write, Chmod, Close, FailsWriting
<1>6. Unlink(u) \/ Backup(u) \/ BackupFails(u) \/ Install(u) \/ Rollback(u) \/ Tidy(u)
           \/ Cleanup(u)
        => harm' = harm
  BY DEF Unlink, Backup, BackupFails, Install, Rollback, Tidy, Cleanup
<1>7. \/ harm' = harm
      \/ pc[u] = "idle" /\ harm' = harm \cup {"overlap"}
      \/ Crash(u) /\ harm' = harm \cup {"crash"}
      \/ InstallFails(u) /\ harm' = harm \cup {"install"}
      \/ RollbackFails(u) /\ harm' = harm \cup {"rollback"}
  <2>1. CASE harm' = harm
    BY <2>1
  <2>2. CASE \E forced \in BOOLEAN : Start(u, forced)
    BY <1>1, <2>2
  <2>3. CASE Crash(u)
    BY <1>2, <2>3
  <2>4. CASE InstallFails(u) \/ RollbackFails(u)
    BY <1>3, <2>4
  <2> QED
    BY <1>4, <1>5, <1>6, <2>1, <2>2, <2>3, <2>4 DEF Updates
<1>8. harm \subseteq harm'
  BY <1>7
<1> QED
  BY <1>7, <1>8

\* Only the renames change what is at the path.
LEMMA PathMoves ==
  ASSUME UpdateTypeOK, NEW u \in Updater, Updates(u)
  PROVE  path' = path \/ Backup(u) \/ Install(u) \/ Rollback(u)
  BY DEF Updates, Start, Check, UpToDate, FailsEarly, Download, Stat, Create, Write,
     Chmod, Close, FailsWriting, Unlink, BackupFails, InstallFails, RollbackFails, Tidy,
     Cleanup, Crash, files

\* Only they and Remove change the backup.
LEMMA OldMoves ==
  ASSUME UpdateTypeOK, NEW u \in Updater, Updates(u)
  PROVE  old' = old \/ Unlink(u) \/ Tidy(u) \/ Backup(u) \/ Rollback(u)
  BY DEF Updates, Start, Check, UpToDate, FailsEarly, Download, Stat, Create, Write,
     Chmod, Close, FailsWriting, BackupFails, Install, InstallFails, RollbackFails,
     Cleanup, Crash, files

\* How an updater comes to the roll back, and how it leaves the renames.
LEMMA Turns ==
  ASSUME UpdateTypeOK, NEW u \in Updater, Updates(u)
  PROVE  /\ pc'[u] = "rollback" => InstallFails(u)
         /\ pc[u] = "install" =>
              Install(u) \/ Crash(u) \/ InstallFails(u)
         /\ pc[u] = "rollback" =>
              Rollback(u) \/ RollbackFails(u) \/ Crash(u)
<1>1. CASE \E forced \in BOOLEAN : Start(u, forced)
  BY <1>1 DEF Start, UpdateTypeOK
<1>2. CASE UpToDate(u) \/ FailsEarly(u) \/ Cleanup(u) \/ Crash(u)
  BY <1>2, Own DEF UpToDate, FailsEarly, Cleanup, Crash
<1>3. CASE \E whole \in BOOLEAN : Download(u, whole)
  BY <1>3, Own DEF Download
<1>4. CASE Check(u) \/ Stat(u) \/ Create(u) \/ Write(u) \/ Chmod(u) \/ Close(u)
           \/ FailsWriting(u)
  BY <1>4, Own DEF Check, Stat, Create, Write, Chmod, Close, FailsWriting
<1>5. CASE Unlink(u) \/ Backup(u) \/ BackupFails(u) \/ Install(u) \/ Tidy(u)
           \/ Rollback(u) \/ RollbackFails(u)
  BY <1>5, Own DEF Unlink, Backup, BackupFails, Install, Tidy, Rollback, RollbackFails
<1>6. CASE InstallFails(u)
  BY <1>6 DEF InstallFails
<1> QED
  BY <1>1, <1>2, <1>3, <1>4, <1>5, <1>6 DEF Updates

\* What is at the path after the renames.
LEMMA Renamed ==
  ASSUME WholeInv, NEW u \in Updater
  PROVE  /\ Install(u) => ~Absent(path)'
         /\ Rollback(u) => ~Absent(path)'
         /\ Backup(u) => ~Absent(old)' /\ pc'[u] = "install"
<1>1. Install(u) => ~Absent(path)'
  BY DEF Install, WholeInv, Copies, Absent
<1>2. Rollback(u) => ~Absent(path)'
  BY DEF Rollback, Absent
<1>3. Backup(u) => ~Absent(old)' /\ pc'[u] = "install"
  BY Own DEF Backup, Absent, WholeInv
<1> QED
  BY <1>1, <1>2, <1>3

\* Whoever leaves the renames without an executable at the path is to blame.
LEMMA MissingStep ==
  ASSUME WholeInv, Missing, NEW u \in Updater, Updates(u) PROVE Missing'
<1> USE DEF WholeInv
<1>1. "rollback" \in harm' => "install" \in harm'
  BY Blame DEF Missing, RollbackFails
<1>2. ASSUME NEW w \in Updater, pc'[w] = "rollback" PROVE "install" \in harm'
  <2>1. CASE w = u
    BY <1>2, <2>1, Turns DEF InstallFails
  <2>2. CASE w # u
    BY <1>2, <2>2, Others, Blame DEF Missing
  <2> QED
    BY <2>1, <2>2
<1>3. ASSUME Absent(path)'
      PROVE  \/ harm' \cap {"crash", "rollback"} # {}
             \/ \E w \in Updater : pc'[w] \in {"install", "rollback"}
  <2>1. CASE Backup(u)
    BY <2>1, Renamed
  <2>2. CASE path' = path /\ harm \cap {"crash", "rollback"} # {}
    BY <2>2, Blame
  <2>3. CASE path' = path /\ \E w \in Updater : pc[w] \in {"install", "rollback"}
    <3>1. PICK w \in Updater : pc[w] \in {"install", "rollback"}
      BY <2>3
    <3>2. CASE w # u
      BY <3>1, <3>2, Others
    <3>3. CASE w = u
      <4>1. CASE Crash(u) \/ RollbackFails(u)
        BY <3>1, <3>3, <4>1 DEF Crash, RollbackFails
      <4>2. CASE InstallFails(u)
        BY <4>2, Own DEF InstallFails, AfterFailedInstall
      <4> QED
        BY <1>3, <3>1, <3>3, <4>1, <4>2, Turns, Renamed
    <3> QED
      BY <3>2, <3>3
  <2>4. path' = path => Absent(path)
    BY <1>3 DEF Absent
  <2> QED
    BY <1>3, <2>1, <2>2, <2>3, <2>4, PathMoves, Renamed DEF Missing
<1> QED
  BY <1>1, <1>2, <1>3 DEF Missing

\* With one updater at a time, the backup is there before the path is given up and is
\* removed only when the path is taken again.
LEMMA AloneStep ==
  ASSUME WholeInv, Alone, NEW u \in Updater, Updates(u) PROVE Alone'
<1> USE DEF WholeInv
<1> SUFFICES ASSUME "overlap" \notin harm'
             PROVE  /\ \A v, w \in Updater : pc'[v] # "idle" /\ pc'[w] # "idle" => v = w
                    /\ ~Absent(path)' \/ ~Absent(old)'
                    /\ \A w \in Updater :
                          pc'[w] \in Call \ {"idle", "install", "rollback", "cleanup"}
                            => ~Absent(path)'
  BY DEF Alone
<1>1. "overlap" \notin harm
  BY Blame
<1>2. \A w \in Updater \ {u} : pc[w] = "idle" /\ pc'[w] = "idle"
  <2>1. CASE pc[u] # "idle"
    BY <1>1, <2>1, Others DEF Alone
  <2>2. CASE \E forced \in BOOLEAN : Start(u, forced)
    BY <2>2, Others DEF Start
  <2> QED
    BY <2>1, <2>2 DEF Updates, Check, UpToDate, FailsEarly, Download, Stat, Create, Write,
       Chmod, Close, FailsWriting, Unlink, Backup, BackupFails, Install, InstallFails,
       Rollback, RollbackFails, Tidy, Cleanup, Crash
<1>3. ~Absent(path)' \/ ~Absent(old)'
  <2>1. CASE Backup(u) \/ Install(u) \/ Rollback(u)
    BY <2>1, Renamed
  <2>2. CASE path' = path /\ old' = old
    BY <1>1, <2>2 DEF Alone, Absent
  <2>3. CASE Unlink(u) \/ Tidy(u)
    <3>1. pc[u] \in {"unlink", "tidy"} /\ path' = path
      BY <2>3 DEF Unlink, Tidy
    <3>2. ~Absent(path)
      BY <1>1, <3>1 DEF Alone, Call
    <3> QED
      BY <3>1, <3>2 DEF Absent
  <2> QED
    BY <2>1, <2>2, <2>3, PathMoves, OldMoves
<1>4. ASSUME pc'[u] \in Call \ {"idle", "install", "rollback", "cleanup"}
      PROVE  ~Absent(path)'
  <2>1. CASE \E forced \in BOOLEAN : Start(u, forced)
    BY <2>1 DEF Start, Absent, files
  <2>2. CASE Install(u)
    BY <2>2, Renamed
  <2>3. CASE pc[u] \in Call \ {"idle", "install", "rollback", "cleanup"} /\ path' = path
    BY <1>1, <2>3 DEF Alone, Absent
  <2>4. CASE Backup(u) \/ InstallFails(u) \/ Rollback(u) \/ RollbackFails(u) \/ Crash(u)
             \/ Cleanup(u)
    BY <1>4, <2>4, Own DEF Backup, InstallFails, Rollback, RollbackFails, Crash, Cleanup,
       AfterFailedInstall
  <2>5. pc[u] = "idle" => \E forced \in BOOLEAN : Start(u, forced)
    BY DEF Updates, Check, UpToDate, FailsEarly, Download, Stat, Create, Write,
       Chmod, Close, FailsWriting, Unlink, Backup, BackupFails, Install, InstallFails,
       Rollback, RollbackFails, Tidy, Cleanup, Crash
  <2>6. pc[u] = "cleanup" => Cleanup(u) \/ Crash(u)
    BY DEF Updates, Start, Check, UpToDate, FailsEarly, Download, Stat, Create, Write,
       Chmod, Close, FailsWriting, Unlink, Backup, BackupFails, Install, InstallFails,
       Rollback, RollbackFails, Tidy
  <2>7. pc[u] \in Call
    BY DEF UpdateTypeOK
  <2> QED
    BY <2>1, <2>2, <2>3, <2>4, <2>5, <2>6, <2>7, Turns, PathMoves
<1> QED
  BY <1>2, <1>3, <1>4

\* A publication takes nothing away.
LEMMA LeftOther ==
  ASSUME LeftInv, (\E v \in Version : Publish(v)) \/ UNCHANGED vars PROVE LeftInv'
  BY WholeOther, OtherTypes DEF LeftInv, WholeInv, Missing, Alone, Absent

\* The inductive invariant behind Recoverable and MissingForCause.
LEMMA LeftInvariant == Spec => []LeftInv
<1>1. LeftInv /\ [Next]_vars => LeftInv'
  BY WholeStep, MissingStep, AloneStep, LeftOther DEF Next, LeftInv
<1> QED
  BY <1>1, LeftInit, PTL DEF Spec

\* Both files are gone only if two updaters overlapped and one of them failed, died or
\* still is between the renames.
THEOREM SomethingToRun == Spec => []Recoverable
<1>1. LeftInv => Recoverable
  <2> SUFFICES ASSUME LeftInv, Absent(path), Absent(old)
               PROVE  /\ "overlap" \in harm
                      /\ \/ harm \cap {"crash", "install"} # {}
                         \/ \E u \in Updater : pc[u] = "install"
    BY DEF Recoverable
  <2>1. "overlap" \in harm
    BY DEF LeftInv, Alone
  <2>2. harm \cap {"crash", "install"} # {} \/ \E u \in Updater : pc[u] = "install"
    BY DEF LeftInv, Missing
  <2> QED
    BY <2>1, <2>2
<1> QED
  BY <1>1, LeftInvariant, PTL

\* Once no updater runs, the executable is at its path unless one was killed between
\* the renames or could not roll back.
THEOREM MissingHasCause == Spec => []MissingForCause
<1>1. LeftInv => MissingForCause
  BY DEF LeftInv, Missing, MissingForCause
<1> QED
  BY <1>1, LeftInvariant, PTL


-----------------------------------------------------------------------------
(* Which version is installed.                                             *)

\* What is about to be installed should be, and the updater still knows the version
\* that it replaces while it has no rival.
Chosen ==
  \A u \in Updater :
    /\ pc[u] \in Call \ {"idle", "check", "tidy", "cleanup"} =>
          ShouldInstall(ran[u], got[u].version, force[u])
    /\ pc[u] \in {"write", "chmod", "close", "unlink", "backup", "install"} =>
          tmp[u].version = got[u].version
    /\ "overlap" \notin harm =>
         /\ pc[u] \in Call \ {"idle", "install", "rollback", "tidy", "cleanup"} =>
               ran[u] = path.version
         /\ pc[u] \in {"install", "rollback"} => ran[u] = was /\ old.version = was

VersionInv == LeftInv /\ Chosen

\* No two versions are each newer than the other, and none is newer than itself.
LEMMA NewerIsStrict ==
  ASSUME NEW v \in Version, NEW w \in Version, IsNewerVersion(v, w)
  PROVE  v # w /\ ~IsNewerVersion(w, v)
<1>1. v \in Release /\ w \in Release
  BY DEF IsNewerVersion, Version
<1>2. v \in Nat \X Nat \X Nat /\ w \in Nat \X Nat \X Nat
  BY <1>1, ReleaseAssumption
<1>3. \A i \in 1..3 : v[i] \in Nat /\ w[i] \in Nat
  <2>1. /\ v[1] \in Nat /\ v[2] \in Nat /\ v[3] \in Nat
        /\ w[1] \in Nat /\ w[2] \in Nat /\ w[3] \in Nat
    BY <1>2
  <2>2. 1..3 = {1, 2, 3}
    OBVIOUS
  <2> QED
    BY <2>1, <2>2
<1>4. PICK i \in 1..3 : w[i] > v[i] /\ \A j \in 1..(i - 1) : w[j] = v[j]
  BY DEF IsNewerVersion
<1>5. ASSUME NEW k \in 1..3, v[k] > w[k], \A j \in 1..(k - 1) : v[j] = w[j] PROVE FALSE
  <2>1. CASE k < i
    <3>1. k \in 1..(i - 1)
      BY <2>1
    <3> QED
      BY <1>3, <1>4, <1>5, <3>1
  <2>2. CASE i < k
    <3>1. i \in 1..(k - 1)
      BY <2>2
    <3> QED
      BY <1>3, <1>4, <1>5, <3>1
  <2>3. CASE i = k
    BY <1>3, <1>4, <1>5, <2>3
  <2> QED
    BY <2>1, <2>2, <2>3
<1>6. ~IsNewerVersion(w, v)
  BY <1>5 DEF IsNewerVersion
<1>7. v # w
  BY <1>6
<1> QED
  BY <1>6, <1>7

\* At first nobody has chosen a version.
LEMMA VersionInit == Init => VersionInv
<1> SUFFICES ASSUME Init PROVE Chosen
  BY LeftInit DEF VersionInv
<1>1. \A u \in Updater : pc[u] = "idle"
  BY DEF Init
<1> QED
  BY <1>1 DEF Chosen, Call

\* Without a rival, an updater's files and versions are still what it left.
LEMMA ChosenOthers ==
  ASSUME LeftInv, Chosen, NEW u \in Updater, Updates(u), NEW w \in Updater \ {u}
  PROVE  /\ pc'[w] \in Call \ {"idle", "check", "tidy", "cleanup"} =>
               ShouldInstall(ran[w], got[w].version, force[w])'
         /\ pc'[w] \in {"write", "chmod", "close", "unlink", "backup", "install"} =>
               tmp'[w].version = got'[w].version
         /\ "overlap" \notin harm' => pc'[w] = "idle"
<1> USE DEF LeftInv, WholeInv
<1>1. /\ pc'[w] = pc[w] /\ ran'[w] = ran[w] /\ force'[w] = force[w]
      /\ got'[w] = got[w] /\ tmp'[w] = tmp[w]
  BY Others
<1>2. ASSUME "overlap" \notin harm', pc'[w] # "idle" PROVE FALSE
  <2>1. "overlap" \notin harm
    BY <1>2, Blame
  <2>2. pc[u] = "idle"
    BY <1>1, <1>2, <2>1 DEF Alone
  <2>3. PICK forced \in BOOLEAN : Start(u, forced)
    BY <2>2 DEF Updates, Check, UpToDate, FailsEarly, Download, Stat, Create, Write,
       Chmod, Close, FailsWriting, Unlink, Backup, BackupFails, Install, InstallFails,
       Rollback, RollbackFails, Tidy, Cleanup, Crash
  <2> QED
    BY <1>1, <1>2, <2>3 DEF Start
<1>3. ShouldInstall(ran[w], got[w].version, force[w])
        => ShouldInstall(ran[w], got[w].version, force[w])'
  BY <1>1 DEF ShouldInstall, IsNewerVersion
<1> QED
  BY <1>1, <1>2, <1>3 DEF Chosen

\* What one step does to the updater's own choice.
LEMMA ChosenOwn ==
  ASSUME LeftInv, Chosen, NEW u \in Updater, Updates(u)
  PROVE  /\ pc'[u] \in Call \ {"idle", "check", "tidy", "cleanup"} =>
               ShouldInstall(ran'[u], got'[u].version, force'[u])
         /\ pc'[u] \in {"write", "chmod", "close", "unlink", "backup", "install"} =>
               tmp'[u].version = got'[u].version
         /\ "overlap" \notin harm' =>
              /\ pc'[u] \in Call \ {"idle", "install", "rollback", "tidy", "cleanup"} =>
                    ran'[u] = path'.version
              /\ pc'[u] \in {"install", "rollback"} => ran'[u] = was' /\ old'.version = was'
<1> USE DEF LeftInv, WholeInv
<1>1. CASE \E forced \in BOOLEAN : Start(u, forced)
  <2>1. pc'[u] = "check" /\ ran'[u] = path'.version
    BY <1>1 DEF Start, UpdateTypeOK, files
  <2> QED
    BY <2>1
<1>2. CASE Check(u)
  <2>1. /\ pc'[u] = "download" /\ ran' = ran /\ force' = force /\ path' = path /\ harm' = harm
        /\ pc[u] = "check"
    BY <1>2, Own DEF Check, files
  <2>2. got'[u].version = latest /\ ShouldInstall(ran[u], latest, force[u])
    BY <1>2 DEF Check, UpdateTypeOK
  <2>3. "overlap" \notin harm => ran[u] = path.version
    BY <2>1 DEF Chosen, Call
  <2> QED
    BY <2>1, <2>2, <2>3
<1>3. CASE pc'[u] \in {"idle", "tidy", "cleanup"}
  BY <1>3
<1>4. CASE \E whole \in BOOLEAN : Download(u, whole)
  <2>1. PICK whole \in BOOLEAN : Download(u, whole)
    BY <1>4
  <2>2. /\ pc[u] = "download" /\ pc'[u] = "stat" /\ ran' = ran /\ force' = force
        /\ path' = path /\ harm' = harm
    BY <2>1, Own DEF Download, files
  <2>3. got'[u].version = got[u].version
    BY <2>1, Own
  <2>4. /\ ShouldInstall(ran[u], got[u].version, force[u])
        /\ "overlap" \notin harm => ran[u] = path.version
    BY <2>2 DEF Chosen, Call
  <2> QED
    BY <2>2, <2>3, <2>4
<1>5. CASE Stat(u) \/ Create(u) \/ Write(u) \/ Chmod(u) \/ Close(u) \/ Unlink(u)
  <2>1. /\ pc[u] \in {"stat", "create", "write", "chmod", "close", "unlink"}
        /\ ran' = ran /\ force' = force /\ path' = path /\ got' = got /\ harm' = harm
    BY <1>5, Own DEF Stat, Create, Write, Chmod, Close, Unlink, files
  <2>2. pc'[u] \in {"create", "write", "chmod", "close", "unlink", "backup"}
    BY <1>5, Own DEF Stat, Create, Write, Chmod, Close, Unlink
  <2>3. /\ ShouldInstall(ran[u], got[u].version, force[u])
        /\ "overlap" \notin harm => ran[u] = path.version
    BY <2>1 DEF Chosen, Call
  <2>4. Stat(u) => pc'[u] = "create"
    BY Own DEF Stat
  <2>5. Create(u) => tmp'[u].version = got[u].version
    BY DEF Create, UpdateTypeOK
  <2>6. Write(u) \/ Chmod(u) => tmp'[u].version = got[u].version
    BY Own DEF Write, Chmod, Chosen
  <2>7. Close(u) \/ Unlink(u) => tmp'[u].version = got[u].version
    BY DEF Close, Unlink, Chosen, files
  <2>8. pc'[u] # "create" => tmp'[u].version = got[u].version
    BY <1>5, <2>4, <2>5, <2>6, <2>7
  <2> QED
    BY <2>1, <2>2, <2>3, <2>8
<1>6. CASE Backup(u)
  <2>1. /\ pc[u] = "backup" /\ pc'[u] = "install" /\ ran' = ran /\ force' = force
        /\ got' = got /\ tmp' = tmp /\ harm' = harm
        /\ old' = path /\ was' = path.version
    BY <1>6, Own DEF Backup
  <2>2. /\ ShouldInstall(ran[u], got[u].version, force[u])
        /\ tmp[u].version = got[u].version
        /\ "overlap" \notin harm => ran[u] = path.version
    BY <2>1 DEF Chosen, Call
  <2> QED
    BY <2>1, <2>2
<1>7. CASE InstallFails(u)
  <2>1. /\ pc[u] = "install" /\ pc'[u] = "rollback" /\ ran' = ran /\ force' = force
        /\ got' = got /\ tmp' = tmp /\ old' = old /\ was' = was
        /\ "overlap" \notin harm' => "overlap" \notin harm
    BY <1>7, Own DEF InstallFails, AfterFailedInstall, files
  <2>2. /\ ShouldInstall(ran[u], got[u].version, force[u])
        /\ "overlap" \notin harm => ran[u] = was /\ old.version = was
    BY <2>1 DEF Chosen, Call
  <2> QED
    BY <2>1, <2>2
<1>8. UpToDate(u) \/ FailsEarly(u) \/ Cleanup(u) \/ Crash(u) => pc'[u] = "idle"
  BY Own DEF UpToDate, FailsEarly, Cleanup, Crash
<1>9. FailsWriting(u) \/ BackupFails(u) \/ Install(u) \/ Rollback(u) \/ RollbackFails(u)
      \/ Tidy(u) => pc'[u] \in {"tidy", "cleanup"}
  BY Own DEF FailsWriting, BackupFails, Install, Rollback, RollbackFails, Tidy
<1> QED
  BY <1>1, <1>2, <1>3, <1>4, <1>5, <1>6, <1>7, <1>8, <1>9 DEF Updates

\* So the choice of every updater holds.
LEMMA ChosenStep ==
  ASSUME LeftInv, Chosen, NEW u \in Updater, Updates(u) PROVE Chosen'
<1>1. ASSUME NEW w \in Updater
      PROVE  /\ pc'[w] \in Call \ {"idle", "check", "tidy", "cleanup"} =>
                   ShouldInstall(ran[w], got[w].version, force[w])'
             /\ pc'[w] \in {"write", "chmod", "close", "unlink", "backup", "install"} =>
                   tmp'[w].version = got'[w].version
             /\ "overlap" \notin harm' =>
                  /\ pc'[w] \in Call \ {"idle", "install", "rollback", "tidy", "cleanup"} =>
                        ran'[w] = path'.version
                  /\ pc'[w] \in {"install", "rollback"} =>
                        ran'[w] = was' /\ old'.version = was'
  <2>1. CASE w = u
    BY <2>1, ChosenOwn DEF ShouldInstall, IsNewerVersion
  <2>2. CASE w # u
    BY <2>2, ChosenOthers
  <2> QED
    BY <2>1, <2>2
<1> QED
  BY <1>1 DEF Chosen

\* A publication does not change what was chosen before it.
LEMMA ChosenOther ==
  ASSUME Chosen, UNCHANGED <<path, old, tmp, pc, ran, force, got, was, harm>> PROVE Chosen'
  BY DEF Chosen, ShouldInstall, IsNewerVersion

\* The inductive invariant behind NoDowngrade.
LEMMA VersionInvariant == Spec => []VersionInv
<1>1. VersionInv /\ [Next]_vars => VersionInv'
  <2> SUFFICES ASSUME VersionInv, [Next]_vars PROVE VersionInv'
    OBVIOUS
  <2>1. CASE \E u \in Updater : Updates(u)
    BY <2>1, WholeStep, MissingStep, AloneStep, ChosenStep DEF VersionInv, LeftInv
  <2>2. CASE (\E v \in Version : Publish(v)) \/ UNCHANGED vars
    BY <2>2, OtherTypes, LeftOther, ChosenOther DEF VersionInv, LeftInv, WholeInv
  <2> QED
    BY <2>1, <2>2 DEF Next
<1> QED
  BY <1>1, VersionInit, PTL DEF Spec

\* Without --force, and while no two updaters have overlapped, the executable is never
\* replaced by an older one, not by a roll back either.
THEOREM NeverBack == Spec => NoDowngrade
<1>1. ASSUME VersionInv, [Next]_vars, path' # path, ~Absent(path')
      PROVE  \/ ~IsNewerVersion(path'.version, was)
             \/ "overlap" \in harm
             \/ \E u \in Updater : pc[u] = "install" /\ force[u]
  <2> USE DEF VersionInv, LeftInv, WholeInv
  <2>1. PICK u \in Updater : Backup(u) \/ Install(u) \/ Rollback(u)
    BY <1>1, OtherTypes, PathMoves DEF Next
  <2>2. CASE Backup(u)
    BY <1>1, <2>2 DEF Backup, NoFile, Absent
  <2>3. CASE Install(u) /\ "overlap" \notin harm
    <3>1. pc[u] = "install" /\ path' = tmp[u]
      BY <2>3 DEF Install
    <3>2. /\ ShouldInstall(ran[u], path'.version, force[u])
          /\ ran[u] = was
      BY <1>1, <2>3, <3>1 DEF Chosen, Call
    <3>3. path'.version \in Version /\ was \in Version
      BY <1>1, <3>1 DEF UpdateTypeOK, File
    <3>4. CASE IsNewerVersion(was, path'.version)
      BY <3>3, <3>4, NewerIsStrict
    <3>5. CASE was = Unversioned
      BY <3>5 DEF IsNewerVersion
    <3> QED
      BY <3>1, <3>2, <3>4, <3>5 DEF ShouldInstall
  <2>4. CASE Rollback(u) /\ "overlap" \notin harm
    <3>1. path'.version = was
      BY <1>1, <2>4 DEF Rollback, Chosen
    <3>2. was \in Version
      BY <1>1 DEF UpdateTypeOK
    <3> QED
      BY <3>1, <3>2, NewerIsStrict
  <2> QED
    BY <2>1, <2>2, <2>3, <2>4
<1>2. VersionInv /\ [Next]_vars =>
        [path' # path /\ ~Absent(path') =>
            \/ ~IsNewerVersion(path'.version, was)
            \/ "overlap" \in harm
            \/ \E u \in Updater : pc[u] = "install" /\ force[u]]_vars
  BY <1>1
<1> QED
  BY <1>2, VersionInvariant, PTL DEF Spec, NoDowngrade
=============================================================================
