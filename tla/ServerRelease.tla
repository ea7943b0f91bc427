----------------------------- MODULE ServerRelease -----------------------------
(***************************************************************************)
(* remote_server_release.py: one release of the server's image.  It checks *)
(* the host, switches the server by `docker compose up`, checks it, writes *)
(* the canonical Compose file, checks again, and rolls back on a failure.  *)
(* A service's configuration is an image reference and the rest; Compose   *)
(* compares it by its hash.  An editor who ignores the lock may change the *)
(* rest of the canonical file once, at any moment after it was read.       *)
(***************************************************************************)
EXTENDS HostServices

VARIABLES
    releaseLock,   \* the directory canonical.release.lock
    phase,         \* what the runner does next
    canonical,     \* the saved Compose file
    container,     \* the configuration the server's container was made with
    job,           \* a `compose up` and its target; it outlives its runner
    changed,       \* the runner has found a foreign edit when it began to recover
    record,        \* phase in status.json
    result,        \* status the runner prints
    gapEdit        \* the edit came between a last check and its rename

files == <<canonical, gapEdit>>
releaseVars == <<releaseLock, phase, files, container, job, changed, record, result>>

Original == [image |-> "previousTag", rest |-> "saved"]
Updated == [Original EXCEPT !.image = "candidateTag"]

\* The canonical file with an overlay that selects an image.
Overlaid(image) == [canonical EXCEPT !.image = image]

\* Images: the old tag and its ID name the same one.
Image(config) == IF config.image = "candidateTag" THEN "candidate" ELSE "previous"

NoJob == [stage |-> "none", to |-> Original]

Phases == {"idle", "locked", "prepared", "load", "precheck", "hashcheck", "activation", "health",
           "canonical", "rename", "verification", "record", "recovering", "rollback",
           "rollingBack", "restored", "restore", "unreplace", "unrename", "settle",
           "ended", "killed"}

ReleaseTypeOK ==
    /\ releaseLock \in BOOLEAN /\ changed \in BOOLEAN /\ gapEdit \in BOOLEAN
    /\ phase \in Phases
    /\ \A config \in {canonical, container, job.to} :
          config \in [image : {"previousTag", "previousId", "candidateTag"},
                      rest : {"saved", "edited"}]
    /\ job.stage \in {"none", "read", "stop", "create", "start", "succeeded", "failed"}
    /\ record \in {"none", "prepared", "preflight-failed", "complete", "recovering",
                   "rolled-back", "recovery-incomplete"}
    /\ result \in {"none", "failed", "complete", "rolled-back", "recovery-incomplete",
                   "unknown", "reconciled"}

\* A release may be asked for.
InitRelease ==
    /\ releaseLock = FALSE /\ changed = FALSE /\ gapEdit = FALSE
    /\ phase \in {"idle", "ended"}
    /\ canonical = Original /\ container = Original
    /\ job = NoJob
    /\ record = "none" /\ result = "none"

\* write_record replaces status.json and may report a failure either way.
TriesRecord(name) == record' \in {record, name}

\* What most steps leave alone.
Steady == UNCHANGED <<container, job, hostVars>>

\* The runner's `finally` and its answer; a failure to unlock, or to remove the staging
\* directory, makes the answer "unknown".
Unlock(status) ==
    /\ phase' = "ended"
    /\ \/ releaseLock' = FALSE /\ result' \in {status, "unknown"}
       \/ UNCHANGED releaseLock /\ result' = "unknown"

\* An exception before activation.
PreflightFails ==
    /\ phase \in {"locked", "prepared", "load", "precheck", "hashcheck"}
    /\ TriesRecord("preflight-failed")
    /\ Unlock("failed")
    /\ UNCHANGED <<files, changed>> /\ Steady

\* check_image: `ps -q server` lists running containers only.
ServerRuns(image) == state["server"] = "up" /\ Image(container) = image

-----------------------------------------------------------------------------
(* Preflight.                                                               *)

TakeLock ==
    /\ phase = "idle" /\ ~releaseLock
    /\ releaseLock' = TRUE
    /\ phase' = "locked"
    /\ UNCHANGED <<files, changed, record, result>> /\ Steady

\* The canonical file is read and kept, and the record is written.
Prepare ==
    /\ phase = "locked"
    /\ record' = "prepared"
    /\ phase' = "prepared"
    /\ UNCHANGED <<releaseLock, files, changed, result>> /\ Steady

\* backupCheck, dependenciesCheck, check_image and check_service_configuration.
OldServerRuns == ServerRuns("previous") /\ container = canonical

FirstCheck ==
    /\ phase = "prepared" /\ OldServerRuns
    /\ phase' = "load"
    /\ UNCHANGED <<releaseLock, files, changed, record, result>> /\ Steady

\* The image is loaded; the overlay and the proposed file change nothing else.
LoadImage ==
    /\ phase = "load"
    /\ phase' = "precheck"
    /\ UNCHANGED <<releaseLock, files, changed, record, result>> /\ Steady

SecondCheck ==
    /\ phase = "precheck" /\ OldServerRuns
    /\ phase' = "hashcheck"
    /\ UNCHANGED <<releaseLock, files, changed, record, result>> /\ Steady

\* The hash of the canonical file is the last thing checked; then the server is switched,
\* by the file as Compose finds it.
Activate ==
    /\ phase = "hashcheck" /\ canonical = Original
    /\ phase' = "activation"
    /\ job' = [stage |-> "read", to |-> Updated]
    /\ UNCHANGED <<releaseLock, files, changed, record, result, container, hostVars>>

-----------------------------------------------------------------------------
(* docker compose up -d --no-deps server, which has no timeout.             *)

\* The canonical file is read; the overlay, which selects the image, is the runner's own.
UpReads ==
    /\ job.stage = "read"
    /\ job' = [stage |-> "stop", to |-> Overlaid(job.to.image)]
    /\ UNCHANGED <<releaseLock, phase, files, container, changed, record, result, hostVars>>

\* The target is never the configuration the container has, so it is stopped and made
\* anew.
UpStops ==
    /\ job.stage = "stop"
    /\ Stop("server")
    /\ job' = [job EXCEPT !.stage = "create"]
    /\ UNCHANGED <<releaseLock, phase, files, container, changed, record, result,
                   cut, stranded, open>>

UpCreates ==
    /\ job.stage = "create"
    /\ container' = job.to
    /\ state' = [state EXCEPT !["server"] = "created"]
    /\ job' = [job EXCEPT !.stage = "start"]
    /\ UNCHANGED <<releaseLock, phase, files, changed, record, result,
                   cut, stranded, open, warm, cooled>>

UpStarts ==
    /\ job.stage = "start"
    /\ Start({"server"})
    /\ job' = [job EXCEPT !.stage = "succeeded"]
    /\ UNCHANGED <<releaseLock, phase, files, container, changed, record, result,
                   cut, open>>

UpFails ==
    /\ job.stage \in {"read", "stop", "create", "start"}
    /\ job' = [job EXCEPT !.stage = "failed"]
    /\ UNCHANGED <<releaseLock, phase, files, container, changed, record, result, hostVars>>

\* The runner hears of the end of its `up`.
Activated ==
    /\ phase = "activation" /\ job.stage = "succeeded"
    /\ phase' = "health" /\ job' = NoJob
    /\ UNCHANGED <<releaseLock, files, container, changed, record, result, hostVars>>

RolledBack ==
    /\ phase = "rollingBack" /\ job.stage = "succeeded"
    /\ phase' = "restored" /\ job' = NoJob
    /\ UNCHANGED <<releaseLock, files, container, changed, record, result, hostVars>>

-----------------------------------------------------------------------------
(* After activation.                                                        *)

\* check_image, check_service_configuration with the overlay, healthCheck and
\* dependenciesCheck.
Healthy ==
    /\ phase = "health"
    /\ ServerRuns("candidate") /\ container = Overlaid("candidateTag")
    /\ phase' = "canonical"
    /\ UNCHANGED <<releaseLock, files, changed, record, result>> /\ Steady

\* Mutant: atomic_replace does not compare the file with the expected hash.
RenameUnchecked ==
    /\ phase = "canonical"
    /\ phase' = "rename"
    /\ UNCHANGED <<releaseLock, files, changed, record, result>> /\ Steady

\* atomic_replace: the second of its two checks of the hash ...
CheckBeforeRename ==
    /\ phase = "canonical" /\ canonical = Original
    /\ phase' = "rename"
    /\ UNCHANGED <<releaseLock, files, changed, record, result>> /\ Steady

\* ... and the rename, after which syncing the directory may still fail.
Rename ==
    /\ phase = "rename"
    /\ canonical' = Updated
    /\ phase' \in {"verification", "recovering"}
    /\ UNCHANGED <<releaseLock, gapEdit, changed, record, result>> /\ Steady

Verify ==
    /\ phase = "verification"
    /\ ServerRuns("candidate") /\ container = canonical /\ canonical = Updated
    /\ phase' = "record"
    /\ UNCHANGED <<releaseLock, files, changed, record, result>> /\ Steady

Complete ==
    /\ phase = "record"
    /\ record' = "complete"
    /\ Unlock("complete")
    /\ UNCHANGED <<files, changed>> /\ Steady

-----------------------------------------------------------------------------
(* Recovery.                                                                *)

\* An exception after activation.
Raise ==
    /\ \/ phase \in {"health", "canonical", "rename", "verification", "record"}
       \/ phase = "activation" /\ job.stage = "failed"
    /\ IF phase = "record" THEN TriesRecord("complete") ELSE UNCHANGED record
    /\ phase' = "recovering" /\ job' = NoJob
    /\ UNCHANGED <<releaseLock, files, container, changed, result, hostVars>>

BeginRecovery ==
    /\ phase = "recovering"
    /\ TriesRecord("recovering")
    /\ changed' = (canonical \notin {Original, Updated})
    /\ phase' = "rollback"
    /\ UNCHANGED <<releaseLock, files, result>> /\ Steady

\* A file that somebody else has changed is not used: the saved copy is.
RollBack ==
    /\ phase = "rollback"
    /\ job' = [stage |-> IF changed THEN "stop" ELSE "read",
               to |-> [Original EXCEPT !.image = "previousId"]]
    /\ phase' = "rollingBack"
    /\ UNCHANGED <<releaseLock, files, changed, record, result, container, hostVars>>

\* check_image; a changed file needs an operator.
CheckRestored ==
    /\ phase = "restored" /\ ServerRuns("previous") /\ ~changed
    /\ phase' = "restore"
    /\ UNCHANGED <<releaseLock, files, changed, record, result>> /\ Steady

\* Mutant: the canonical file is not restored.
KeepCanonical ==
    /\ phase = "restore"
    /\ phase' = "settle"
    /\ UNCHANGED <<releaseLock, files, changed, record, result>> /\ Steady

Restore ==
    /\ phase = "restore"
    /\ phase' = IF canonical = Updated THEN "unreplace" ELSE "settle"
    /\ UNCHANGED <<releaseLock, files, changed, record, result>> /\ Steady

\* atomic_replace again.
CheckBeforeRestore ==
    /\ phase = "unreplace" /\ canonical = Updated
    /\ phase' = "unrename"
    /\ UNCHANGED <<releaseLock, files, changed, record, result>> /\ Steady

RenameBack ==
    /\ phase = "unrename"
    /\ canonical' = Original
    /\ phase' = "settle"
    /\ UNCHANGED <<releaseLock, gapEdit, changed, record, result>> /\ Steady

Settle ==
    /\ phase = "settle"
    /\ record' = "rolled-back"
    /\ Unlock("rolled-back")
    /\ UNCHANGED <<files, changed>> /\ Steady

\* An exception during recovery: the lock stays.
RecoveryFails ==
    /\ \/ phase \in {"rollback", "restored", "restore", "unreplace", "unrename", "settle"}
       \/ phase = "rollingBack" /\ job.stage = "failed"
    /\ \/ TriesRecord("recovery-incomplete")
       \/ phase = "settle" /\ record' = "rolled-back"
    /\ phase' = "ended" /\ result' \in {"recovery-incomplete", "unknown"}
    /\ job' = NoJob
    /\ UNCHANGED <<releaseLock, files, container, changed, hostVars>>

-----------------------------------------------------------------------------
(* The environment.                                                         *)

\* The runner is killed; its `up` goes on without it.
KillRelease ==
    /\ phase \notin {"idle", "ended", "killed"}
    /\ phase' = "killed" /\ result' = "unknown"
    /\ UNCHANGED <<releaseLock, files, changed, record>> /\ Steady

Edit ==
    /\ phase \notin {"idle", "locked"}
    /\ canonical.rest = "saved" /\ ~gapEdit
    /\ canonical' = [canonical EXCEPT !.rest = "edited"]
    /\ gapEdit' = (phase \in {"rename", "unrename"})
    /\ UNCHANGED <<releaseLock, phase, changed, record, result>> /\ Steady

Release ==
    \/ TakeLock \/ Prepare \/ PreflightFails \/ FirstCheck \/ LoadImage \/ SecondCheck \/ Activate
    \/ UpReads \/ UpStops \/ UpCreates \/ UpStarts \/ UpFails \/ Activated \/ RolledBack
    \/ Healthy \/ CheckBeforeRename \/ Rename \/ Verify \/ Complete
    \/ Raise \/ BeginRecovery \/ RollBack \/ CheckRestored \/ Restore
    \/ CheckBeforeRestore \/ RenameBack \/ Settle \/ RecoveryFails \/ KillRelease \/ Edit

=============================================================================
