------------------------------- MODULE ColdBackup -------------------------------
(***************************************************************************)
(* matrix-calendar-cold-backup.mjs.  A run locks the capture root, stops   *)
(* the services, archives their stores, starts the services again, marks   *)
(* the capture, uploads it, reads the snapshot back, applies retention and *)
(* removes the capture.  Every command is a step of its own that may fail, *)
(* also because a first signal aborts it; a second signal ends the process *)
(* where it is.                                                            *)
(***************************************************************************)
EXTENDS HostServices, Sequences

CONSTANTS
    Cleanup,          \* cleanupSuccessfulCapture
    RestoreInputs,    \* there are restoreInputs
    Retention,        \* resticRetentionEnabled
    None

ASSUME BackupConstantsOk ==
    /\ {Cleanup, RestoreInputs, Retention} \subseteq BOOLEAN
    /\ None \notin Runs

VARIABLES
    lockFile,    \* the run that made the lock in the capture root, or None
    step,        \* what a run does next
    todo,        \* services it has still to stop, look at or start
    failure,     \* the stage it will report
    capture,     \* its directory
    altered,     \* runs whose captured files somebody has changed
    gapAltered,  \* those of them where that was after the last comparison
    proof,       \* the files whose identity the run has noted
    snapshot,    \* the files the repository holds of a run
    verified     \* runs whose snapshot was read back

edits == <<altered, gapAltered>>
captureVars == <<capture, edits, proof, snapshot, verified>>
backupVars == <<lockFile, step, todo, failure, captureVars>>

STOP_ORDER == <<"widget", "server", "radicale">>
START_ORDER == <<"radicale", "server", "widget">>

Steps == {"idle", "preflight", "lock", "recheck", "stop", "quiesce", "dump", "archive",
          "inputs", "seal", "verify", "resume", "confirm", "mark", "prove", "upload", "readback",
          "retain", "remove", "unlink", "unlock", "done", "killed"}

BackupTypeOK ==
    /\ lockFile \in Runs \union {None}
    /\ step \in [Runs -> Steps]
    /\ \A r \in Runs : todo[r] \in Seq(Services)
    /\ failure \in [Runs -> {"none", "failed", "resume"}]
    /\ capture \in [Runs -> {"none", "partial", "marked", "torn", "gone"}]
    /\ gapAltered \subseteq altered /\ altered \subseteq Runs /\ verified \subseteq Runs
    /\ \A r \in Runs : {proof[r], snapshot[r]} \subseteq {"none", "intact", "altered"}

\* Some of the runs, or all, may be asked for.
InitBackup ==
    /\ lockFile = None
    /\ step \in [Runs -> {"idle", "done"}]
    /\ todo = [r \in Runs |-> <<>>]
    /\ failure = [r \in Runs |-> "none"]
    /\ capture = [r \in Runs |-> "none"]
    /\ altered = {} /\ gapAltered = {} /\ verified = {}
    /\ proof = [r \in Runs |-> "none"]
    /\ snapshot = [r \in Runs |-> "none"]

Goto(r, s) == step' = [step EXCEPT ![r] = s]
Queue(r, services) == todo' = [todo EXCEPT ![r] = services]
Report(r, stage) == failure' = [failure EXCEPT ![r] = stage]

\* The steps after `stopAttempted = true`.
Stopping == {"stop", "quiesce", "dump", "archive", "inputs", "seal", "verify"}

\* The archives of the volumes of radicale and of server.
VOLUMES == <<"radicale", "server">>

\* A failure is caught: the services are started again if one may have been stopped, and
\* the lock is released in any case.
Abandon(r) ==
    /\ Report(r, "failed")
    /\ IF step[r] \in Stopping THEN Goto(r, "resume") /\ Queue(r, START_ORDER)
                               ELSE Goto(r, "unlock") /\ Queue(r, <<>>)
    /\ open' = open \ {r}

-----------------------------------------------------------------------------
(* Before anything is stopped.                                              *)

\* refuseExistingLock.
Begin(r) ==
    /\ step[r] = "idle" /\ lockFile = None
    /\ Goto(r, "preflight")
    /\ UNCHANGED <<lockFile, todo, failure, captureVars, hostVars>>

\* Nothing is held yet and nothing was touched.
Refuse(r) ==
    /\ \/ step[r] = "idle" /\ lockFile # None
       \/ step[r] = "preflight"
       \/ step[r] = "lock" /\ lockFile # None
    /\ Goto(r, "done") /\ Report(r, "failed")
    /\ UNCHANGED <<lockFile, todo, captureVars, hostVars>>

\* dockerPreflight.
Preflight(r) ==
    /\ step[r] = "preflight" /\ AllUp
    /\ Goto(r, "lock")
    /\ UNCHANGED <<lockFile, todo, failure, captureVars, hostVars>>

\* Mutant: the lock is opened without the flag that makes it exclusive.
TakeAnyLock(r) ==
    /\ step[r] = "lock"
    /\ lockFile' = r
    /\ Goto(r, "recheck")
    /\ UNCHANGED <<todo, failure, captureVars, hostVars>>

\* acquireLock.
AcquireLock(r) ==
    /\ step[r] = "lock" /\ lockFile = None
    /\ lockFile' = r
    /\ Goto(r, "recheck")
    /\ UNCHANGED <<todo, failure, captureVars, hostVars>>

\* The services are looked at again under the lock; the directory of the run is made.
Recheck(r) ==
    /\ step[r] = "recheck" /\ AllUp
    /\ capture' = [capture EXCEPT ![r] = "partial"]
    /\ Goto(r, "stop") /\ Queue(r, STOP_ORDER)
    /\ UNCHANGED <<lockFile, failure, edits, proof, snapshot, verified, hostVars>>

-----------------------------------------------------------------------------
(* The capture.                                                             *)

StopService(r) ==
    /\ step[r] = "stop"
    /\ Stop(Head(todo[r]))
    /\ IF Tail(todo[r]) # <<>> THEN Queue(r, Tail(todo[r])) /\ UNCHANGED step
                           ELSE Goto(r, "quiesce") /\ Queue(r, STOP_ORDER)
    /\ UNCHANGED <<lockFile, failure, captureVars, cut, stranded, open>>

\* A stop times out or is aborted while the daemon is at it.
StopCutOff(r) ==
    /\ step[r] = "stop"
    /\ cut' = cut \union {Head(todo[r])}
    /\ Abandon(r)
    /\ UNCHANGED <<lockFile, captureVars, state, stranded, warm, cooled>>

\* The last look assertStoppedServices takes at a service.
SeesStopped(r) == state[Head(todo[r])] = "exited"

\* assertStoppedServices and inspectStoppedService, before the archives.
Quiesced(r) ==
    /\ step[r] = "quiesce" /\ SeesStopped(r)
    /\ IF Tail(todo[r]) # <<>>
       THEN Queue(r, Tail(todo[r])) /\ UNCHANGED <<step, open, warm, cooled>>
       ELSE /\ Goto(r, "dump") /\ Queue(r, <<>>)
            /\ open' = open \union {r}
            /\ warm' = [warm EXCEPT ![r] = {s \in Services : state[s] # "exited"}]
            /\ cooled' = [cooled EXCEPT ![r] = {}]
    /\ UNCHANGED <<lockFile, failure, captureVars, state, cut, stranded>>

\* capturePostgres, if there is a reminder database.
Dump(r) ==
    /\ step[r] = "dump"
    /\ Goto(r, "archive") /\ Queue(r, VOLUMES)
    /\ UNCHANGED <<lockFile, failure, captureVars, hostVars>>

\* captureArchive, volume by volume.
Archive(r) ==
    /\ step[r] = "archive"
    /\ Queue(r, Tail(todo[r]))
    /\ IF Tail(todo[r]) # <<>> THEN UNCHANGED step ELSE Goto(r, "inputs")
    /\ UNCHANGED <<lockFile, failure, captureVars, hostVars>>

\* captureRestoreInputs.
CopyInputs(r) ==
    /\ step[r] = "inputs"
    /\ Goto(r, "seal")
    /\ UNCHANGED <<lockFile, todo, failure, captureVars, hostVars>>

\* Mutant: the services are not looked at again after the archives.
SealUnchecked(r) ==
    /\ step[r] = "seal"
    /\ open' = open \ {r}
    /\ Goto(r, "resume") /\ Queue(r, START_ORDER)
    /\ UNCHANGED <<lockFile, failure, captureVars, state, cut, stranded, warm, cooled>>

\* The manifest and the checksums.
Seal(r) ==
    /\ step[r] = "seal"
    /\ open' = open \ {r}
    /\ Goto(r, "verify") /\ Queue(r, STOP_ORDER)
    /\ UNCHANGED <<lockFile, failure, captureVars, state, cut, stranded, warm, cooled>>

\* assertStoppedServices after the archives.
Verified(r) ==
    /\ step[r] = "verify" /\ SeesStopped(r)
    /\ IF Tail(todo[r]) # <<>> THEN Queue(r, Tail(todo[r])) /\ UNCHANGED step
                           ELSE Goto(r, "resume") /\ Queue(r, START_ORDER)
    /\ UNCHANGED <<lockFile, failure, captureVars, hostVars>>

\* startServices goes through every service; what it cannot start, or does not hear of in
\* time, it reports at its end.
ResumeService(r) ==
    /\ step[r] = "resume"
    /\ \/ Start({Head(todo[r])}) /\ failure' \in {failure, [failure EXCEPT ![r] = "resume"]}
       \/ Report(r, "resume") /\ UNCHANGED <<state, stranded, warm, cooled>>
    /\ Queue(r, Tail(todo[r]))
    /\ IF Tail(todo[r]) # <<>> THEN UNCHANGED step ELSE Goto(r, "confirm")
    /\ UNCHANGED <<lockFile, captureVars, cut, open>>

\* The compose ps at its end.
Confirm(r) ==
    /\ step[r] = "confirm"
    /\ \/ AllUp /\ UNCHANGED failure
       \/ Report(r, "resume")
    /\ Goto(r, IF failure'[r] = "none" THEN "mark" ELSE "unlock")
    /\ UNCHANGED <<lockFile, todo, captureVars, hostVars>>

-----------------------------------------------------------------------------
(* The upload.                                                              *)

Verifies == Cleanup \/ RestoreInputs

\* The files in the directory of a run, as far as their identity tells.
FilesOf(r) == IF r \in altered THEN "altered" ELSE "intact"

Mark(r) ==
    /\ step[r] = "mark"
    /\ capture' = [capture EXCEPT ![r] = "marked"]
    /\ Goto(r, "prove")
    /\ UNCHANGED <<lockFile, todo, failure, edits, proof, snapshot, verified, hostVars>>

\* localCaptureProof: the identities of the files, not their bytes.
Prove(r) ==
    /\ step[r] = "prove"
    /\ proof' = [proof EXCEPT ![r] = IF Verifies THEN FilesOf(r) ELSE "none"]
    /\ Goto(r, "upload")
    /\ UNCHANGED <<lockFile, todo, failure, capture, edits, snapshot, verified, hostVars>>

Upload(r) ==
    /\ step[r] = "upload"
    /\ snapshot' = [snapshot EXCEPT ![r] = FilesOf(r)]
    /\ Goto(r, IF Verifies THEN "readback" ELSE "retain")
    /\ UNCHANGED <<lockFile, todo, failure, capture, edits, proof, verified, hostVars>>

\* The snapshot was saved, but the run did not hear of it in time.
UploadUnheard(r) ==
    /\ step[r] = "upload"
    /\ snapshot' = [snapshot EXCEPT ![r] = FilesOf(r)]
    /\ Abandon(r)
    /\ UNCHANGED <<lockFile, capture, edits, proof, verified,
                   state, cut, stranded, warm, cooled>>

\* verifyResticSnapshot.
ReadBack(r) ==
    /\ step[r] = "readback" /\ snapshot[r] # "none"
    /\ verified' = verified \union {r}
    /\ Goto(r, "retain")
    /\ UNCHANGED <<lockFile, todo, failure, capture, edits, proof, snapshot, hostVars>>

\* restic forget --keep-daily 30 --prune: of one day only the last snapshot stays, which
\* is this run's own for today; which of the others go depends on their days.
Retain(r) ==
    /\ step[r] = "retain"
    /\ IF Retention
       THEN \E dropped \in SUBSET (Runs \ {r}) :
               snapshot' = [q \in Runs |-> IF q \in dropped THEN "none" ELSE snapshot[q]]
       ELSE UNCHANGED snapshot
    /\ Goto(r, IF Cleanup THEN "remove" ELSE "unlock")
    /\ UNCHANGED <<lockFile, todo, failure, capture, edits, proof, verified, hostVars>>

\* Mutant: the files are not compared with the noted ones.
CheckNothing(r) ==
    /\ step[r] = "remove"
    /\ Goto(r, "unlink")
    /\ UNCHANGED <<lockFile, todo, failure, captureVars, hostVars>>

\* removeVerifiedCapture: the files are those the run has noted ...
CheckCapture(r) ==
    /\ step[r] = "remove" /\ proof[r] = FilesOf(r)
    /\ Goto(r, "unlink")
    /\ UNCHANGED <<lockFile, todo, failure, captureVars, hostVars>>

\* ... and are unlinked one by one, whatever they are by then; a later one may fail.
RemoveCapture(r) ==
    /\ step[r] = "unlink"
    /\ \/ capture' = [capture EXCEPT ![r] = "gone"] /\ UNCHANGED failure
       \/ capture' = [capture EXCEPT ![r] = "torn"] /\ Report(r, "failed")
    /\ Goto(r, "unlock")
    /\ UNCHANGED <<lockFile, todo, edits, proof, snapshot, verified, hostVars>>

-----------------------------------------------------------------------------
(* The end of a run.                                                        *)

\* releaseLock; a failure of its own replaces the reported stage, the file stays.
ReleaseLock(r) ==
    /\ step[r] = "unlock"
    /\ \/ lockFile' = None /\ UNCHANGED failure
       \/ Report(r, "failed") /\ UNCHANGED lockFile
    /\ Goto(r, "done")
    /\ UNCHANGED <<todo, captureVars, hostVars>>

\* A command or a file operation fails, or a check does not hold.
Fail(r) ==
    /\ step[r] \in Stopping \union
           {"recheck", "mark", "prove", "upload", "readback", "retain", "remove", "unlink"}
    /\ Abandon(r)
    /\ UNCHANGED <<lockFile, captureVars, state, cut, stranded, warm, cooled>>

\* A second signal, for which no handler is left, or SIGKILL.
Kill(r) ==
    /\ step[r] \notin {"idle", "done", "killed"}
    /\ Goto(r, "killed") /\ Queue(r, <<>>)
    /\ open' = open \ {r}
    /\ cut' \in IF step[r] = "stop" THEN {cut, cut \union {Head(todo[r])}} ELSE {cut}
    /\ capture' \in {capture} \union
           (IF step[r] = "unlink" THEN {[capture EXCEPT ![r] = "torn"]} ELSE {})
    /\ UNCHANGED <<lockFile, failure, edits, proof, snapshot, verified,
                   state, stranded, warm, cooled>>

\* Somebody changes a file of a capture, once.
Alter(r) ==
    /\ capture[r] \in {"partial", "marked"} /\ r \notin altered
    /\ altered' = altered \union {r}
    /\ gapAltered' = IF step[r] = "unlink" THEN gapAltered \union {r} ELSE gapAltered
    /\ UNCHANGED <<lockFile, step, todo, failure, capture, proof, snapshot, verified,
                   hostVars>>

Backup(r) ==
    \/ Begin(r) \/ Refuse(r) \/ Preflight(r) \/ AcquireLock(r) \/ Recheck(r)
    \/ StopService(r) \/ StopCutOff(r) \/ Quiesced(r) \/ Dump(r) \/ Archive(r)
    \/ CopyInputs(r) \/ Seal(r) \/ Verified(r) \/ ResumeService(r) \/ Confirm(r)
    \/ Mark(r) \/ Prove(r) \/ Upload(r) \/ UploadUnheard(r) \/ ReadBack(r) \/ Retain(r)
    \/ CheckCapture(r) \/ RemoveCapture(r) \/ ReleaseLock(r) \/ Fail(r) \/ Kill(r) \/ Alter(r)

=============================================================================
