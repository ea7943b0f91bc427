----------------------------- MODULE HostOperations -----------------------------
(***************************************************************************)
(* The cold backup and a release of the server on one host.  Neither takes *)
(* the lock of the other: the operator's backupCheck has to find a moment  *)
(* with no backup ahead, and nothing makes it right.  What a killed or     *)
(* incomplete operation leaves, an operator reconciles.                    *)
(***************************************************************************)
EXTENDS ColdBackup, ServerRelease

vars == <<hostVars, backupVars, releaseVars>>

TypeOK == HostTypeOK /\ BackupTypeOK /\ ReleaseTypeOK

Init == InitHost /\ InitBackup /\ InitRelease

\* No process is at work, but something was left: locks are removed, the services are
\* started, and the server is made as the canonical file has it.
Reconcile ==
    /\ \A r \in Runs : step[r] \in {"idle", "done", "killed"}
    /\ phase \in {"idle", "ended", "killed"}
    /\ job.stage \in {"none", "succeeded", "failed"}
    /\ \/ releaseLock \/ lockFile # None
       \/ \E r \in Runs : step[r] = "killed" \/ failure[r] = "resume"
    /\ Start(Services)
    /\ container' = IF releaseLock THEN canonical ELSE container
    /\ lockFile' = None /\ releaseLock' = FALSE
    /\ step' = [r \in Runs |-> IF step[r] = "killed" THEN "done" ELSE step[r]]
    /\ failure' = [r \in Runs |-> IF failure[r] = "resume" THEN "failed" ELSE failure[r]]
    /\ job' = NoJob
    /\ result' = IF releaseLock THEN "reconciled" ELSE result
    /\ UNCHANGED <<cut, open, todo, captureVars, phase, files, changed, record>>

Next ==
    \/ \E r \in Runs : Backup(r) /\ UNCHANGED releaseVars
    \/ Release /\ UNCHANGED backupVars
    \/ (\E s \in Services : LateStop(s)) /\ UNCHANGED <<backupVars, releaseVars>>
    \/ Reconcile

Spec == Init /\ [][Next]_vars

-----------------------------------------------------------------------------
(* Properties.                                                              *)

\* A capture that is marked as complete was archived while no service ran, and after each
\* had ended gracefully, although a release may start the server in the middle of it.
\* Excepted is a server that has run and was stopped again, gracefully, before the last
\* look: the run does not notice it, as a release that rolls back may do.
ColdCapture ==
    \A r \in Runs : capture[r] \in {"marked", "torn", "gone"} =>
        \A s \in warm[r] : s = "server" /\ s \in cooled[r]

\* The calendar is back once backup and release are over: when neither holds its lock, the
\* services run, unless a run has reported that it could not resume them, or a stop that
\* was cut off has come after the resume.
ServicesResume ==
    \/ lockFile # None \/ releaseLock
    \/ stranded # {}
    \/ \E r \in Runs : failure[r] = "resume"
    \/ AllUp

\* No run removes what it cannot give back: of a removed capture, or one removed in part,
\* the repository holds a snapshot with its very files that was read back, or that of a
\* run which has displaced it.  Of files that were changed between the last comparison and
\* their unlink it holds what was compared.
NothingLost ==
    \A r \in Runs : capture[r] \in {"torn", "gone"} =>
        \/ r \in verified /\ snapshot[r] = IF r \in gapAltered THEN proof[r] ELSE FilesOf(r)
        \/ Retention /\ snapshot[r] = "none" /\ \E q \in verified : snapshot[q] # "none"

\* What a release says of itself is so, also after failed checks, a rollback, stops and
\* starts by a backup and errors while it writes its record: once its lock is gone, its
\* answer or, if that is lost, its record says "complete" only if the candidate is
\* installed and saved, and "rolled-back" or a failure only if it is neither; and the
\* server is of the image the saved file names.  An editor's own change of the file may
\* stand against the last two.
ReleaseTruth ==
    LET says(status, name) == result = status \/ (result = "unknown" /\ record = name)
        edited == canonical.rest = "edited"
    IN  ~releaseLock =>
        /\ says("complete", "complete") =>
              Image(container) = "candidate" /\ Image(canonical) = "candidate"
        /\ says("rolled-back", "rolled-back") =>
              Image(container) = "previous" /\ (Image(canonical) = "previous" \/ edited)
        /\ says("failed", "preflight-failed") =>
              container = Original /\ Image(canonical) = "previous"
        /\ Image(container) = Image(canonical) \/ edited

\* A foreign edit of the canonical file is kept, except one that comes between the last
\* check of its hash and the rename.
EditsSurvive == [][canonical.rest = "edited" /\ ~gapEdit => canonical'.rest = "edited"]_vars

=============================================================================
