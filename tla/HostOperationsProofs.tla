------------------------- MODULE HostOperationsProofs -------------------------
(***************************************************************************)
(* Proofs about HostOperations, for any number of backup runs beside a     *)
(* release.  BackupInv follows a run, ReleaseInv a release, and ServiceInv *)
(* says who has to bring back a service that is down.                      *)
(***************************************************************************)
EXTENDS HostOperations, Integers, TLAPS

\* The services of a list.
Elems(q) == {q[i] : i \in 1..Len(q)}

BackupTypes ==
    /\ lockFile \in Runs \union {None}
    /\ step \in [Runs -> Steps]
    /\ todo \in [Runs -> Seq(Services)]
    /\ failure \in [Runs -> {"none", "failed", "resume"}]
    /\ capture \in [Runs -> {"none", "partial", "marked", "torn", "gone"}]
    /\ gapAltered \subseteq altered /\ altered \subseteq Runs /\ verified \subseteq Runs
    /\ proof \in [Runs -> {"none", "intact", "altered"}]
    /\ snapshot \in [Runs -> {"none", "intact", "altered"}]

Configs == [image : {"previousTag", "previousId", "candidateTag"}, rest : {"saved", "edited"}]

ReleaseTypes ==
    /\ ReleaseTypeOK
    /\ canonical \in Configs /\ container \in Configs
    /\ job \in [stage : {"none", "read", "stop", "create", "start", "succeeded", "failed"},
                to : Configs]

TypeInv == HostTypeOK /\ BackupTypes /\ ReleaseTypes

-----------------------------------------------------------------------------
(* The runs of the backup.                                                  *)

Uploading == {"mark", "prove", "upload", "readback", "retain", "remove", "unlink"}
Holding == Stopping \union Uploading \union {"recheck", "resume", "confirm", "unlock"}
Over == {"unlock", "done", "killed"}

\* A run at work holds the lock and has something to do.
Busy(r) ==
    /\ step[r] \in {"stop", "quiesce", "archive", "verify", "resume"} => todo[r] # <<>>
    /\ step[r] \in Holding => lockFile = r
    /\ r \in open => step[r] \in {"dump", "archive", "inputs", "seal"}
    /\ failure[r] = "resume" => step[r] \in {"resume", "confirm"} \union Over

\* Services that ran while the stores were read, and have not ended gracefully since.
Hot(r) == warm[r] \ cooled[r]

\* None of them has been found stopped.
Cold(r) ==
    /\ \A s \in Hot(r) : state[s] # "exited"
    /\ step[r] = "verify" => Hot(r) \subseteq Elems(todo[r])
    /\ step[r] \in {"resume", "confirm"} /\ failure[r] = "none" => Hot(r) = {}
    /\ step[r] \in Uploading => Hot(r) = {}
    /\ capture[r] \in {"marked", "torn", "gone"} =>
          /\ Hot(r) = {} /\ r \notin open
          /\ step[r] \in Uploading \union Over

\* Nothing but a release, which starts the server, disturbs what a run has stopped.
Quiet(r) ==
    /\ warm[r] \subseteq {"server"}
    /\ step[r] = "quiesce" =>
          \A s \in Services \ {"server"} : s \in Elems(todo[r]) \/ state[s] = "exited"

\* Files were noted or saved, and may have been changed since.
Since(before, after) == before # "none" /\ (before = "altered" => after = "altered")

\* What a run has to give back is in the repository, or has been displaced.
Kept(r) ==
    \/ r \in verified /\ snapshot[r] = IF r \in gapAltered THEN proof[r] ELSE FilesOf(r)
    \/ Retention /\ snapshot[r] = "none" /\ \E q \in verified : snapshot[q] # "none"

\* From the note of the files to the snapshot to the removal.
Saved(r) ==
    /\ Verifies /\ step[r] \in {"upload", "readback", "retain", "remove"} =>
          Since(proof[r], FilesOf(r))
    /\ Verifies /\ step[r] \in {"readback", "retain", "remove"} =>
          Since(proof[r], snapshot[r]) /\ Since(snapshot[r], FilesOf(r))
    /\ Verifies /\ step[r] \in {"retain", "remove", "unlink"} => r \in verified
    /\ step[r] \in {"remove", "unlink"} => Cleanup
    /\ step[r] = "unlink" => Kept(r) /\ snapshot[r] = proof[r]
    /\ capture[r] \in {"torn", "gone"} => Cleanup /\ Kept(r) /\ step[r] \in Over

BackupInv == \A r \in Runs : Busy(r) /\ Cold(r) /\ Quiet(r) /\ Saved(r)

-----------------------------------------------------------------------------
(* The release.                                                             *)

Early == {"idle", "locked", "prepared", "load", "precheck", "hashcheck"}

\* An `up` is part of a release that holds its lock.
Locked ==
    /\ releaseLock => phase # "idle"
    /\ phase \notin {"idle", "ended", "killed"} => releaseLock
    /\ job.stage # "none" => releaseLock /\ phase \in {"activation", "rollingBack", "killed"}

\* What the release knows of its record, of the file and of the container.
Known ==
    /\ phase \in Early =>
          /\ record \in {"none", "prepared"} /\ result = "none"
          /\ container = Original /\ Image(canonical) = "previous"
    /\ phase \in {"canonical", "rename", "verification", "record"} =>
          Image(container) = "candidate"
    /\ phase \in {"verification", "record"} => Image(canonical) = "candidate"
    /\ phase \in {"restore", "unreplace", "unrename", "settle"} =>
          Image(container) = "previous"
    /\ phase = "settle" => Image(canonical) = "previous" \/ canonical.rest = "edited"

\* The file that a rename replaces is the one that was checked.
Checked ==
    ~gapEdit =>
        /\ phase = "rename" => canonical = Original
        /\ phase = "unrename" => canonical = Updated

ReleaseInv == Locked /\ Known /\ Checked /\ ReleaseTruth

-----------------------------------------------------------------------------
(* Who has to bring back a service.                                         *)

RunOwes(r, s) ==
    /\ lockFile = r
    /\ \/ step[r] \in Stopping \union {"done", "killed"}
       \/ step[r] = "resume" /\ s \in Elems(todo[r])

\* After these checks the release expects the server to run.
Trusting == {"canonical", "rename", "verification", "record", "restore", "unreplace",
             "unrename", "settle"}

ReleaseOwes == releaseLock /\ phase \notin Early \union Trusting

Owed(s) ==
    \/ state[s] = "up" \/ s \in stranded
    \/ \E r \in Runs : failure[r] = "resume" \/ RunOwes(r, s)
    \/ s = "server" /\ ReleaseOwes

ServiceInv == \A s \in Services : Owed(s)

HostInv == TypeInv /\ BackupInv /\ ReleaseInv /\ ServiceInv

-----------------------------------------------------------------------------
(* Lists of services.                                                       *)

LEMMA HeadAndTail ==
    ASSUME NEW q \in Seq(Services), q # <<>>
    PROVE  /\ Head(q) \in Services /\ Tail(q) \in Seq(Services)
           /\ \A s \in Elems(q) : s = Head(q) \/ s \in Elems(Tail(q))
           /\ Tail(q) = <<>> => Elems(q) \subseteq {Head(q)}
<1>1. Len(q) \in Nat /\ Len(q) # 0 /\ Head(q) = q[1]
  OBVIOUS
<1>2. /\ Tail(q) \in Seq(Services) /\ Len(Tail(q)) = Len(q) - 1
      /\ \A i \in 1..Len(q) - 1 : Tail(q)[i] = q[i + 1]
  BY <1>1
<1>3. ASSUME NEW i \in 1..Len(q) PROVE q[i] = Head(q) \/ q[i] \in Elems(Tail(q))
  <2>1. CASE i = 1
    BY <1>1, <2>1
  <2>2. CASE i # 1
    <3>1. i - 1 \in 1..Len(Tail(q)) /\ Tail(q)[i - 1] = q[i]
      BY <1>1, <1>2, <2>2
    <3> QED BY <3>1 DEF Elems
  <2> QED BY <2>1, <2>2
<1>4. Tail(q) = <<>> => Elems(Tail(q)) = {}
  <2>1. Len(<<>>) = 0
    OBVIOUS
  <2>2. 1..Len(<<>>) = {}
    BY <2>1
  <2> QED BY <2>2 DEF Elems
<1>5. \A s \in Elems(q) : s = Head(q) \/ s \in Elems(Tail(q))
  BY <1>3 DEF Elems
<1> QED BY <1>1, <1>2, <1>4, <1>5

LEMMA Orders ==
    /\ {STOP_ORDER, START_ORDER, VOLUMES} \subseteq Seq(Services) \ {<<>>}
    /\ Elems(STOP_ORDER) = Services /\ Elems(START_ORDER) = Services
<1>1. /\ STOP_ORDER \in Seq(Services) /\ Len(STOP_ORDER) = 3
      /\ STOP_ORDER[1] = "widget" /\ STOP_ORDER[2] = "server" /\ STOP_ORDER[3] = "radicale"
  BY DEF STOP_ORDER, Services
<1>2. /\ START_ORDER \in Seq(Services) /\ Len(START_ORDER) = 3
      /\ START_ORDER[1] = "radicale" /\ START_ORDER[2] = "server" /\ START_ORDER[3] = "widget"
  BY DEF START_ORDER, Services
<1>3. VOLUMES \in Seq(Services) /\ Len(VOLUMES) = 2
  BY DEF VOLUMES, Services
<1>4. ASSUME NEW q, Len(q) = 3 PROVE Elems(q) = {q[1], q[2], q[3]}
  <2>1. 1..Len(q) = {1, 2, 3}
    BY <1>4
  <2> QED BY <2>1 DEF Elems
<1>5. Elems(STOP_ORDER) = Services
  BY <1>1, <1>4 DEF Services
<1>6. Elems(START_ORDER) = Services
  BY <1>2, <1>4 DEF Services
<1>7. STOP_ORDER # <<>> /\ START_ORDER # <<>> /\ VOLUMES # <<>>
  BY DEF STOP_ORDER, START_ORDER, VOLUMES
<1> QED BY <1>1, <1>2, <1>3, <1>5, <1>6, <1>7

-----------------------------------------------------------------------------
(* Types.                                                                   *)

\* What the steps of the containers change, Docker may report.
LEMMA StartTypes ==
    ASSUME HostTypeOK, NEW S \in SUBSET Services, Start(S), UNCHANGED <<cut, open>>
    PROVE  HostTypeOK'
BY DEF HostTypeOK, Start

LEMMA StopTypes ==
    ASSUME HostTypeOK, NEW s \in Services, Stop(s)
    PROVE  /\ state' \in [Services -> {"up", "exited", "killed", "created"}]
           /\ warm' \in [Runs -> SUBSET Services] /\ cooled' \in [Runs -> SUBSET Services]
<1>1. CASE state[s] # "up" /\ UNCHANGED <<state, warm, cooled>>
  BY <1>1 DEF HostTypeOK
<1>2. ASSUME NEW end \in {"exited", "killed"}, state' = [state EXCEPT ![s] = end],
             cooled' = [r \in Runs |-> cooled[r] \union
                           (IF end = "exited" THEN {s} \cap warm[r] ELSE {})],
             UNCHANGED warm
      PROVE  /\ state' \in [Services -> {"up", "exited", "killed", "created"}]
             /\ warm' \in [Runs -> SUBSET Services] /\ cooled' \in [Runs -> SUBSET Services]
  <2>1. state' \in [Services -> {"up", "exited", "killed", "created"}]
    BY <1>2 DEF HostTypeOK
  <2>2. \A r \in Runs : cooled[r] \in SUBSET Services
    BY DEF HostTypeOK
  <2>3. cooled' \in [Runs -> SUBSET Services]
    BY <1>2, <2>2
  <2> QED BY <1>2, <2>1, <2>3 DEF HostTypeOK
<1> QED BY <1>1, <1>2 DEF Stop

LEMMA BackupKeepsTypes ==
    ASSUME TypeInv, NEW r \in Runs, Backup(r), Busy(r), UNCHANGED releaseVars
    PROVE  TypeInv'
<1>0. ReleaseTypes'
  BY DEF TypeInv, ReleaseTypes, ReleaseTypeOK, releaseVars, files
<1>h. TypeInv /\ HostTypeOK /\ BackupTypes
  BY DEF TypeInv
<1>a. /\ [step EXCEPT ![r] = "resume"] \in [Runs -> Steps]
      /\ [step EXCEPT ![r] = "unlock"] \in [Runs -> Steps]
      /\ [todo EXCEPT ![r] = START_ORDER] \in [Runs -> Seq(Services)]
      /\ [todo EXCEPT ![r] = <<>>] \in [Runs -> Seq(Services)]
  BY <1>h, Orders DEF BackupTypes, Steps
<1>1. CASE Begin(r)
  <2>1. BackupTypes'
    BY <1>h, <1>1 DEF Begin, Goto, BackupTypes, captureVars, edits, Steps
  <2> QED
    BY <1>0, <1>h, <1>1, <2>1 DEF Begin, hostVars, HostTypeOK, TypeInv
<1>2. CASE Refuse(r)
  <2>1. BackupTypes'
    BY <1>h, <1>2 DEF Refuse, Goto, Report, BackupTypes, captureVars, edits, Steps
  <2> QED
    BY <1>0, <1>h, <1>2, <2>1 DEF Refuse, hostVars, HostTypeOK, TypeInv
<1>3. CASE Preflight(r)
  <2>1. BackupTypes'
    BY <1>h, <1>3 DEF Preflight, Goto, BackupTypes, captureVars, edits, Steps
  <2> QED
    BY <1>0, <1>h, <1>3, <2>1 DEF Preflight, hostVars, HostTypeOK, TypeInv
<1>4. CASE AcquireLock(r)
  <2>1. BackupTypes'
    BY <1>h, <1>4 DEF AcquireLock, Goto, BackupTypes, captureVars, edits, Steps
  <2> QED
    BY <1>0, <1>h, <1>4, <2>1 DEF AcquireLock, hostVars, HostTypeOK, TypeInv
<1>5. CASE Recheck(r)
  <2>1. BackupTypes'
    BY <1>h, <1>5, Orders DEF Recheck, Goto, Queue, BackupTypes, captureVars, edits, Steps
  <2> QED
    BY <1>0, <1>h, <1>5, <2>1 DEF Recheck, hostVars, HostTypeOK, TypeInv
<1>6. CASE StopService(r)
  <2>0. Head(todo[r]) \in Services /\ Tail(todo[r]) \in Seq(Services)
    BY <1>h, <1>6, HeadAndTail DEF StopService, BackupTypes, Busy
  <2>1. HostTypeOK'
    BY <1>h, <1>6, <2>0, StopTypes DEF StopService, HostTypeOK, Busy
  <2>2. BackupTypes'
    <3>0. step' = step \/ step' = [step EXCEPT ![r] = "quiesce"]
      BY <1>6 DEF StopService, Goto
    <3>1. step' \in [Runs -> Steps]
      BY <1>h, <3>0 DEF BackupTypes, Steps
    <3>2. todo' \in [Runs -> Seq(Services)]
      BY <1>h, <1>a, <1>6, <2>0, Orders DEF StopService, Stop, Queue, BackupTypes
    <3> QED
      BY <1>h, <1>6, <3>1, <3>2 DEF StopService, BackupTypes, captureVars, edits
  <2> QED BY <1>0, <2>1, <2>2 DEF TypeInv
<1>7. CASE StopCutOff(r)
  <2>0. Head(todo[r]) \in Services /\ Tail(todo[r]) \in Seq(Services)
    BY <1>h, <1>7, HeadAndTail DEF StopCutOff, BackupTypes, Busy
  <2>1. HostTypeOK'
    BY <1>h, <1>7, <2>0 DEF StopCutOff, Abandon, Goto, Queue, Report, HostTypeOK, Busy
  <2>2. BackupTypes'
    <3>1. step' \in [Runs -> Steps]
      BY <1>h, <1>a, <1>7 DEF StopCutOff, Abandon, BackupTypes, Steps, Goto
    <3>2. todo' \in [Runs -> Seq(Services)]
      BY <1>h, <1>a, <1>7, <2>0 DEF StopCutOff, Abandon, Queue, Report, BackupTypes
    <3> QED
      BY <1>h, <1>7, <3>1, <3>2 DEF StopCutOff, Report, Abandon, BackupTypes, captureVars, edits
  <2> QED BY <1>0, <2>1, <2>2 DEF TypeInv
<1>8. CASE Quiesced(r)
  <2>0. Head(todo[r]) \in Services /\ Tail(todo[r]) \in Seq(Services)
    BY <1>h, <1>8, HeadAndTail DEF Quiesced, BackupTypes, Busy
  <2>1. HostTypeOK'
    BY <1>h, <1>8, <2>0 DEF Quiesced, HostTypeOK, Busy, Services
  <2>2. BackupTypes'
    <3>1. step' \in [Runs -> Steps]
      BY <1>h, <1>a, <1>8 DEF Quiesced, Goto, BackupTypes, Steps
    <3>2. todo' \in [Runs -> Seq(Services)]
      BY <1>h, <1>a, <1>8, <2>0, Orders DEF Quiesced, Queue, BackupTypes
    <3> QED
      BY <1>h, <1>8, <3>1, <3>2 DEF Quiesced, BackupTypes, captureVars, edits
  <2> QED BY <1>0, <2>1, <2>2 DEF TypeInv
<1>9. CASE Dump(r)
  <2>1. BackupTypes'
    BY <1>h, <1>9, Orders DEF Dump, Goto, Queue, BackupTypes, captureVars, edits, Steps
  <2> QED
    BY <1>0, <1>h, <1>9, <2>1 DEF Dump, hostVars, HostTypeOK, TypeInv
<1>10. CASE Archive(r)
  <2>0. Head(todo[r]) \in Services /\ Tail(todo[r]) \in Seq(Services)
    BY <1>h, <1>10, HeadAndTail DEF Archive, BackupTypes, Busy
  <2>1. BackupTypes'
    <3>0. step' = step \/ step' = [step EXCEPT ![r] = "inputs"]
      BY <1>10 DEF Archive, Goto
    <3>1. step' \in [Runs -> Steps]
      BY <1>h, <3>0 DEF BackupTypes, Steps
    <3>2. todo' \in [Runs -> Seq(Services)]
      BY <1>h, <1>a, <1>10, <2>0 DEF Archive, Queue, BackupTypes
    <3> QED
      BY <1>h, <1>10, <3>1, <3>2 DEF Archive, BackupTypes, captureVars, edits
  <2> QED
    BY <1>0, <1>h, <1>10, <2>1 DEF Archive, hostVars, HostTypeOK, TypeInv
<1>11. CASE CopyInputs(r)
  <2>1. BackupTypes'
    BY <1>h, <1>11 DEF CopyInputs, Goto, BackupTypes, captureVars, edits, Steps
  <2> QED
    BY <1>0, <1>h, <1>11, <2>1 DEF CopyInputs, hostVars, HostTypeOK, TypeInv
<1>12. CASE Seal(r)
  <2>1. HostTypeOK'
    BY <1>h, <1>12 DEF Seal, HostTypeOK
  <2>2. BackupTypes'
    <3>1. step' \in [Runs -> Steps]
      BY <1>h, <1>a, <1>12 DEF Seal, Goto, BackupTypes, Steps
    <3>2. todo' \in [Runs -> Seq(Services)]
      BY <1>h, <1>a, <1>12, Orders DEF Seal, Queue, BackupTypes
    <3> QED
      BY <1>h, <1>12, <3>1, <3>2 DEF Seal, BackupTypes, captureVars, edits
  <2> QED BY <1>0, <2>1, <2>2 DEF TypeInv
<1>13. CASE Verified(r)
  <2>0. Head(todo[r]) \in Services /\ Tail(todo[r]) \in Seq(Services)
    BY <1>h, <1>13, HeadAndTail DEF Verified, BackupTypes, Busy
  <2>1. BackupTypes'
    <3>1. step' \in [Runs -> Steps]
      BY <1>h, <1>a, <1>13 DEF Verified, Goto, BackupTypes, Steps
    <3>2. todo' \in [Runs -> Seq(Services)]
      BY <1>h, <1>a, <1>13, <2>0, Orders DEF Verified, Queue, BackupTypes
    <3> QED
      BY <1>h, <1>13, <3>1, <3>2 DEF Verified, BackupTypes, captureVars, edits
  <2> QED
    BY <1>0, <1>h, <1>13, <2>1 DEF Verified, hostVars, HostTypeOK, TypeInv
<1>14. CASE ResumeService(r)
  <2>0. Head(todo[r]) \in Services /\ Tail(todo[r]) \in Seq(Services)
    BY <1>h, <1>14, HeadAndTail DEF ResumeService, BackupTypes, Busy
  <2>4. {Head(todo[r])} \in SUBSET Services
    BY <1>14, <2>0 DEF ResumeService, Busy
  <2>1. HostTypeOK'
    <3>1. CASE Start({Head(todo[r])})
      BY <1>h, <1>14, <2>4, <3>1, StartTypes DEF ResumeService
    <3>2. CASE UNCHANGED <<state, stranded, warm, cooled>>
      BY <1>h, <1>14, <3>2 DEF ResumeService, HostTypeOK
    <3> QED BY <1>14, <3>1, <3>2 DEF ResumeService
  <2>2. BackupTypes'
    <3>0. step' = step \/ step' = [step EXCEPT ![r] = "confirm"]
      BY <1>14 DEF ResumeService, Goto
    <3>1. step' \in [Runs -> Steps]
      BY <1>h, <3>0 DEF BackupTypes, Steps
    <3>2. todo' \in [Runs -> Seq(Services)]
      BY <1>h, <1>a, <1>14, <2>0 DEF ResumeService, Queue, Report, BackupTypes
    <3> QED
      BY <1>h, <1>14, <3>1, <3>2 DEF ResumeService, Report, BackupTypes, captureVars, edits
  <2> QED BY <1>0, <2>1, <2>2 DEF TypeInv
<1>15. CASE Confirm(r)
  <2>1. BackupTypes'
    BY <1>h, <1>15 DEF Confirm, Goto, Report, BackupTypes, captureVars, edits, Steps
  <2> QED
    BY <1>0, <1>h, <1>15, <2>1 DEF Confirm, hostVars, HostTypeOK, TypeInv
<1>16. CASE Mark(r)
  <2>1. BackupTypes'
    BY <1>h, <1>16 DEF Mark, Goto, BackupTypes, captureVars, edits, Steps
  <2> QED
    BY <1>0, <1>h, <1>16, <2>1 DEF Mark, hostVars, HostTypeOK, TypeInv
<1>17. CASE Prove(r)
  <2>1. BackupTypes'
    BY <1>h, <1>17 DEF Prove, Goto, BackupTypes, captureVars, edits, Steps, FilesOf
  <2> QED
    BY <1>0, <1>h, <1>17, <2>1 DEF Prove, hostVars, HostTypeOK, TypeInv
<1>18. CASE Upload(r)
  <2>1. BackupTypes'
    BY <1>h, <1>18 DEF Upload, Goto, BackupTypes, captureVars, edits, Steps, FilesOf
  <2> QED
    BY <1>0, <1>h, <1>18, <2>1 DEF Upload, hostVars, HostTypeOK, TypeInv
<1>19. CASE UploadUnheard(r)
  <2>1. HostTypeOK'
    BY <1>h, <1>19 DEF UploadUnheard, Abandon, Goto, Queue, Report, HostTypeOK
  <2>2. BackupTypes'
    <3>1. step' \in [Runs -> Steps]
      BY <1>h, <1>a, <1>19 DEF UploadUnheard, Abandon, BackupTypes, Steps, Goto
    <3>2. todo' \in [Runs -> Seq(Services)]
      BY <1>h, <1>a, <1>19 DEF UploadUnheard, Abandon, Queue, Report, BackupTypes
    <3> QED
      BY <1>h, <1>19, <3>1, <3>2 DEF UploadUnheard, Report, Abandon, FilesOf, BackupTypes,
        captureVars, edits
  <2> QED BY <1>0, <2>1, <2>2 DEF TypeInv
<1>20. CASE ReadBack(r)
  <2>1. BackupTypes'
    BY <1>h, <1>20 DEF ReadBack, Goto, BackupTypes, captureVars, edits, Steps
  <2> QED
    BY <1>0, <1>h, <1>20, <2>1 DEF ReadBack, hostVars, HostTypeOK, TypeInv
<1>21. CASE Retain(r)
  <2>1. BackupTypes'
    BY <1>h, <1>21 DEF Retain, Goto, BackupTypes, captureVars, edits, Steps
  <2> QED
    BY <1>0, <1>h, <1>21, <2>1 DEF Retain, hostVars, HostTypeOK, TypeInv
<1>22. CASE RemoveCapture(r)
  <2>1. BackupTypes'
    BY <1>h, <1>22 DEF RemoveCapture, Goto, Report, BackupTypes, captureVars, edits, Steps
  <2> QED
    BY <1>0, <1>h, <1>22, <2>1 DEF RemoveCapture, hostVars, HostTypeOK, TypeInv
<1>23. CASE ReleaseLock(r)
  <2>1. BackupTypes'
    BY <1>h, <1>23 DEF ReleaseLock, Goto, Report, BackupTypes, captureVars, edits, Steps
  <2> QED
    BY <1>0, <1>h, <1>23, <2>1 DEF ReleaseLock, hostVars, HostTypeOK, TypeInv
<1>24. CASE Fail(r)
  <2>1. HostTypeOK'
    BY <1>h, <1>24 DEF Fail, Abandon, Goto, Queue, Report, HostTypeOK
  <2>2. BackupTypes'
    <3>1. step' \in [Runs -> Steps]
      BY <1>h, <1>a, <1>24 DEF Fail, Abandon, BackupTypes, Steps, Goto
    <3>2. todo' \in [Runs -> Seq(Services)]
      BY <1>h, <1>a, <1>24 DEF Fail, Abandon, Queue, Report, BackupTypes
    <3> QED
      BY <1>h, <1>24, <3>1, <3>2 DEF Fail, Report, Abandon, BackupTypes, captureVars, edits
  <2> QED BY <1>0, <2>1, <2>2 DEF TypeInv
<1>25. CASE Kill(r)
  <2>0. step[r] = "stop" => Head(todo[r]) \in Services
    BY <1>h, <1>25, HeadAndTail DEF Kill, BackupTypes, Busy
  <2>1. HostTypeOK'
    BY <1>h, <1>25, <2>0 DEF Kill, HostTypeOK, Busy
  <2>2. BackupTypes'
    <3>1. step' \in [Runs -> Steps]
      BY <1>h, <1>a, <1>25 DEF Kill, Goto, BackupTypes, Steps
    <3>2. todo' \in [Runs -> Seq(Services)]
      BY <1>h, <1>a, <1>25, <2>0 DEF Kill, Queue, BackupTypes
    <3> QED
      BY <1>h, <1>25, <3>1, <3>2 DEF Kill, BackupTypes, captureVars, edits
  <2> QED BY <1>0, <2>1, <2>2 DEF TypeInv
<1>26. CASE Alter(r)
  <2>1. BackupTypes'
    BY <1>h, <1>26 DEF Alter, BackupTypes, captureVars, edits, Steps
  <2> QED
    BY <1>0, <1>h, <1>26, <2>1 DEF Alter, hostVars, HostTypeOK, TypeInv
<1>27. CASE CheckCapture(r)
  <2>1. BackupTypes'
    BY <1>h, <1>27 DEF CheckCapture, Goto, BackupTypes, captureVars, edits, Steps
  <2> QED
    BY <1>0, <1>h, <1>27, <2>1 DEF CheckCapture, hostVars, HostTypeOK, TypeInv
<1> QED BY <1>1, <1>2, <1>3, <1>4, <1>5, <1>6, <1>7, <1>8, <1>9, <1>10, <1>11, <1>12, <1>13,
  <1>14, <1>15, <1>16, <1>17, <1>18, <1>19, <1>20, <1>21, <1>22, <1>23, <1>24, <1>25, <1>26,
  <1>27 DEF Backup

LEMMA ConfigTypes ==
    ASSUME NEW c \in Configs
    PROVE  /\ Original \in Configs /\ Updated \in Configs /\ NoJob.to \in Configs
           /\ [c EXCEPT !.image = "candidateTag"] \in Configs
           /\ [c EXCEPT !.image = "previousId"] \in Configs
           /\ [c EXCEPT !.rest = "edited"] \in Configs
           /\ [Original EXCEPT !.image = "previousId"] \in Configs
           /\ NoJob = [stage |-> "none", to |-> Original]
BY DEF Configs, Original, Updated, NoJob

\* A release keeps its types if its variables have them one by one.
LEMMA ReleaseTyped ==
    ASSUME canonical' \in Configs, container' \in Configs,
           job' \in [stage : {"none", "read", "stop", "create", "start", "succeeded", "failed"},
                     to : Configs],
           releaseLock' \in BOOLEAN, changed' \in BOOLEAN, gapEdit' \in BOOLEAN,
           phase' \in Phases,
           record' \in {"none", "prepared", "preflight-failed", "complete", "recovering",
                        "rolled-back", "recovery-incomplete"},
           result' \in {"none", "failed", "complete", "rolled-back", "recovery-incomplete",
                        "unknown", "reconciled"}
    PROVE  ReleaseTypes'
BY DEF ReleaseTypes, ReleaseTypeOK, Configs

LEMMA ReleaseKeepsTypes ==
    ASSUME TypeInv, Release, UNCHANGED backupVars
    PROVE  TypeInv'
<1>0. BackupTypes'
  BY DEF TypeInv, BackupTypes, backupVars, captureVars, edits
<1>h. HostTypeOK /\ ReleaseTypes /\ ReleaseTypeOK
  BY DEF TypeInv, ReleaseTypes
<1>c. /\ Original \in Configs /\ Updated \in Configs
      /\ NoJob \in [stage : {"none", "read", "stop", "create", "start", "succeeded", "failed"},
                    to : Configs]
      /\ Overlaid("candidateTag") \in Configs /\ Overlaid("previousId") \in Configs
      /\ [Original EXCEPT !.image = "previousId"] \in Configs
      /\ [canonical EXCEPT !.rest = "edited"] \in Configs
  BY <1>h, ConfigTypes DEF ReleaseTypes, Overlaid
<1>1. CASE TakeLock
  <2>1. HostTypeOK'
    BY <1>h, <1>1 DEF TakeLock, Steady, hostVars, HostTypeOK
  <2>2. ReleaseTypes'
    BY <1>h, <1>c, <1>1, ReleaseTyped DEF TakeLock, Steady, files, ReleaseTypes, ReleaseTypeOK,
      Phases
  <2> QED BY <1>0, <2>1, <2>2 DEF TypeInv
<1>2. CASE Prepare
  <2>1. HostTypeOK'
    BY <1>h, <1>2 DEF Prepare, Steady, hostVars, HostTypeOK
  <2>2. ReleaseTypes'
    BY <1>h, <1>c, <1>2, ReleaseTyped DEF Prepare, Steady, files, ReleaseTypes, ReleaseTypeOK,
      Phases
  <2> QED BY <1>0, <2>1, <2>2 DEF TypeInv
<1>3. CASE PreflightFails
  <2>1. HostTypeOK'
    BY <1>h, <1>3 DEF PreflightFails, Steady, hostVars, HostTypeOK
  <2>2. ReleaseTypes'
    <3>1. /\ UNCHANGED <<canonical, gapEdit, container, job, changed>> /\ phase' = "ended"
          /\ releaseLock' \in {releaseLock, FALSE}
          /\ record' \in {record, "preflight-failed"} /\ result' \in {"failed", "unknown"}
      BY <1>h, <1>3 DEF PreflightFails, TriesRecord, Unlock, Steady, files
    <3>2. /\ releaseLock \in BOOLEAN /\ changed \in BOOLEAN /\ gapEdit \in BOOLEAN
          /\ record \in {"none", "prepared", "preflight-failed", "complete", "recovering",
                         "rolled-back", "recovery-incomplete"}
      BY <1>h DEF ReleaseTypeOK
    <3>3. releaseLock' \in BOOLEAN /\ phase' \in Phases
      BY <3>1, <3>2 DEF Phases
    <3> QED BY <1>h, <3>1, <3>2, <3>3, ReleaseTyped DEF ReleaseTypes
  <2> QED BY <1>0, <2>1, <2>2 DEF TypeInv
<1>4. CASE FirstCheck
  <2>1. HostTypeOK'
    BY <1>h, <1>4 DEF FirstCheck, Steady, hostVars, HostTypeOK
  <2>2. ReleaseTypes'
    BY <1>h, <1>c, <1>4, ReleaseTyped DEF FirstCheck, Steady, files, ReleaseTypes,
      ReleaseTypeOK, Phases
  <2> QED BY <1>0, <2>1, <2>2 DEF TypeInv
<1>5. CASE LoadImage
  <2>1. HostTypeOK'
    BY <1>h, <1>5 DEF LoadImage, Steady, hostVars, HostTypeOK
  <2>2. ReleaseTypes'
    BY <1>h, <1>c, <1>5, ReleaseTyped DEF LoadImage, Steady, files, ReleaseTypes,
      ReleaseTypeOK, Phases
  <2> QED BY <1>0, <2>1, <2>2 DEF TypeInv
<1>6. CASE SecondCheck
  <2>1. HostTypeOK'
    BY <1>h, <1>6 DEF SecondCheck, Steady, hostVars, HostTypeOK
  <2>2. ReleaseTypes'
    BY <1>h, <1>c, <1>6, ReleaseTyped DEF SecondCheck, Steady, files, ReleaseTypes,
      ReleaseTypeOK, Phases
  <2> QED BY <1>0, <2>1, <2>2 DEF TypeInv
<1>7. CASE Activate
  <2>1. HostTypeOK'
    BY <1>h, <1>7 DEF Activate, hostVars, HostTypeOK
  <2>2. ReleaseTypes'
    BY <1>h, <1>c, <1>7, ReleaseTyped DEF Activate, files, ReleaseTypes, ReleaseTypeOK, Phases
  <2> QED BY <1>0, <2>1, <2>2 DEF TypeInv
<1>8. CASE UpStops
  <2>1. HostTypeOK'
    BY <1>h, <1>8, StopTypes DEF UpStops, HostTypeOK, Services
  <2>2. ReleaseTypes'
    BY <1>h, <1>c, <1>8, ReleaseTyped DEF UpStops, files, ReleaseTypes, ReleaseTypeOK, Phases
  <2> QED BY <1>0, <2>1, <2>2 DEF TypeInv
<1>9. CASE UpCreates
  <2>1. HostTypeOK'
    BY <1>h, <1>9 DEF UpCreates, hostVars, HostTypeOK, Services
  <2>2. ReleaseTypes'
    BY <1>h, <1>c, <1>9, ReleaseTyped DEF UpCreates, files, ReleaseTypes, ReleaseTypeOK, Phases
  <2> QED BY <1>0, <2>1, <2>2 DEF TypeInv
<1>10. CASE UpStarts
  <2>1. HostTypeOK'
    BY <1>h, <1>10, StartTypes DEF UpStarts, Services
  <2>2. ReleaseTypes'
    BY <1>h, <1>c, <1>10, ReleaseTyped DEF UpStarts, files, ReleaseTypes, ReleaseTypeOK, Phases
  <2> QED BY <1>0, <2>1, <2>2 DEF TypeInv
<1>11. CASE UpFails
  <2>1. HostTypeOK'
    BY <1>h, <1>11 DEF UpFails, hostVars, HostTypeOK
  <2>2. ReleaseTypes'
    BY <1>h, <1>c, <1>11, ReleaseTyped DEF UpFails, files, ReleaseTypes, ReleaseTypeOK, Phases
  <2> QED BY <1>0, <2>1, <2>2 DEF TypeInv
<1>12. CASE Activated
  <2>1. HostTypeOK'
    BY <1>h, <1>12 DEF Activated, hostVars, HostTypeOK
  <2>2. ReleaseTypes'
    BY <1>h, <1>c, <1>12, ReleaseTyped DEF Activated, files, ReleaseTypes, ReleaseTypeOK,
      Phases
  <2> QED BY <1>0, <2>1, <2>2 DEF TypeInv
<1>13. CASE RolledBack
  <2>1. HostTypeOK'
    BY <1>h, <1>13 DEF RolledBack, hostVars, HostTypeOK
  <2>2. ReleaseTypes'
    BY <1>h, <1>c, <1>13, ReleaseTyped DEF RolledBack, files, ReleaseTypes, ReleaseTypeOK,
      Phases
  <2> QED BY <1>0, <2>1, <2>2 DEF TypeInv
<1>14. CASE Healthy
  <2>1. HostTypeOK'
    BY <1>h, <1>14 DEF Healthy, Steady, hostVars, HostTypeOK
  <2>2. ReleaseTypes'
    BY <1>h, <1>c, <1>14, ReleaseTyped DEF Healthy, Steady, files, ReleaseTypes, ReleaseTypeOK,
      Phases
  <2> QED BY <1>0, <2>1, <2>2 DEF TypeInv
<1>15. CASE CheckBeforeRename
  <2>1. HostTypeOK'
    BY <1>h, <1>15 DEF CheckBeforeRename, Steady, hostVars, HostTypeOK
  <2>2. ReleaseTypes'
    BY <1>h, <1>c, <1>15, ReleaseTyped DEF CheckBeforeRename, Steady, files, ReleaseTypes,
      ReleaseTypeOK, Phases
  <2> QED BY <1>0, <2>1, <2>2 DEF TypeInv
<1>16. CASE Rename
  <2>1. HostTypeOK'
    BY <1>h, <1>16 DEF Rename, Steady, hostVars, HostTypeOK
  <2>2. ReleaseTypes'
    BY <1>h, <1>c, <1>16, ReleaseTyped DEF Rename, Steady, ReleaseTypes, ReleaseTypeOK, Phases
  <2> QED BY <1>0, <2>1, <2>2 DEF TypeInv
<1>17. CASE Verify
  <2>1. HostTypeOK'
    BY <1>h, <1>17 DEF Verify, Steady, hostVars, HostTypeOK
  <2>2. ReleaseTypes'
    BY <1>h, <1>c, <1>17, ReleaseTyped DEF Verify, Steady, files, ReleaseTypes, ReleaseTypeOK,
      Phases
  <2> QED BY <1>0, <2>1, <2>2 DEF TypeInv
<1>18. CASE Complete
  <2>1. HostTypeOK'
    BY <1>h, <1>18 DEF Complete, Steady, hostVars, HostTypeOK
  <2>2. ReleaseTypes'
    <3>1. /\ UNCHANGED <<canonical, gapEdit, container, job, changed>> /\ phase' = "ended"
          /\ releaseLock' \in {releaseLock, FALSE}
          /\ record' \in {"complete"} /\ result' \in {"complete", "unknown"}
      BY <1>h, <1>18 DEF Complete, Unlock, Steady, files
    <3> QED BY <1>h, <3>1, ReleaseTyped DEF ReleaseTypes, ReleaseTypeOK, Phases
  <2> QED BY <1>0, <2>1, <2>2 DEF TypeInv
<1>19. CASE Raise
  <2>1. HostTypeOK'
    BY <1>h, <1>19 DEF Raise, hostVars, HostTypeOK
  <2>2. ReleaseTypes'
    BY <1>h, <1>c, <1>19, ReleaseTyped DEF Raise, TriesRecord, files, ReleaseTypes,
      ReleaseTypeOK, Phases
  <2> QED BY <1>0, <2>1, <2>2 DEF TypeInv
<1>20. CASE BeginRecovery
  <2>1. HostTypeOK'
    BY <1>h, <1>20 DEF BeginRecovery, Steady, hostVars, HostTypeOK
  <2>2. ReleaseTypes'
    BY <1>h, <1>c, <1>20, ReleaseTyped DEF BeginRecovery, TriesRecord, Steady, files,
      ReleaseTypes, ReleaseTypeOK, Phases
  <2> QED BY <1>0, <2>1, <2>2 DEF TypeInv
<1>21. CASE RollBack
  <2>1. HostTypeOK'
    BY <1>h, <1>21 DEF RollBack, hostVars, HostTypeOK
  <2>2. ReleaseTypes'
    BY <1>h, <1>c, <1>21, ReleaseTyped DEF RollBack, files, ReleaseTypes, ReleaseTypeOK, Phases
  <2> QED BY <1>0, <2>1, <2>2 DEF TypeInv
<1>22. CASE CheckRestored
  <2>1. HostTypeOK'
    BY <1>h, <1>22 DEF CheckRestored, Steady, hostVars, HostTypeOK
  <2>2. ReleaseTypes'
    BY <1>h, <1>c, <1>22, ReleaseTyped DEF CheckRestored, Steady, files, ReleaseTypes,
      ReleaseTypeOK, Phases
  <2> QED BY <1>0, <2>1, <2>2 DEF TypeInv
<1>23. CASE Restore
  <2>1. HostTypeOK'
    BY <1>h, <1>23 DEF Restore, Steady, hostVars, HostTypeOK
  <2>2. ReleaseTypes'
    BY <1>h, <1>c, <1>23, ReleaseTyped DEF Restore, Steady, files, ReleaseTypes, ReleaseTypeOK,
      Phases
  <2> QED BY <1>0, <2>1, <2>2 DEF TypeInv
<1>24. CASE CheckBeforeRestore
  <2>1. HostTypeOK'
    BY <1>h, <1>24 DEF CheckBeforeRestore, Steady, hostVars, HostTypeOK
  <2>2. ReleaseTypes'
    BY <1>h, <1>c, <1>24, ReleaseTyped DEF CheckBeforeRestore, Steady, files, ReleaseTypes,
      ReleaseTypeOK, Phases
  <2> QED BY <1>0, <2>1, <2>2 DEF TypeInv
<1>25. CASE RenameBack
  <2>1. HostTypeOK'
    BY <1>h, <1>25 DEF RenameBack, Steady, hostVars, HostTypeOK
  <2>2. ReleaseTypes'
    BY <1>h, <1>c, <1>25, ReleaseTyped DEF RenameBack, Steady, ReleaseTypes, ReleaseTypeOK,
      Phases
  <2> QED BY <1>0, <2>1, <2>2 DEF TypeInv
<1>26. CASE Settle
  <2>1. HostTypeOK'
    BY <1>h, <1>26 DEF Settle, Steady, hostVars, HostTypeOK
  <2>2. ReleaseTypes'
    <3>1. /\ UNCHANGED <<canonical, gapEdit, container, job, changed>> /\ phase' = "ended"
          /\ releaseLock' \in {releaseLock, FALSE}
          /\ record' \in {"rolled-back"} /\ result' \in {"rolled-back", "unknown"}
      BY <1>h, <1>26 DEF Settle, Unlock, Steady, files
    <3> QED BY <1>h, <3>1, ReleaseTyped DEF ReleaseTypes, ReleaseTypeOK, Phases
  <2> QED BY <1>0, <2>1, <2>2 DEF TypeInv
<1>27. CASE RecoveryFails
  <2>1. HostTypeOK'
    BY <1>h, <1>27 DEF RecoveryFails, hostVars, HostTypeOK
  <2>2. ReleaseTypes'
    BY <1>h, <1>c, <1>27, ReleaseTyped DEF RecoveryFails, TriesRecord, files, ReleaseTypes,
      ReleaseTypeOK, Phases
  <2> QED BY <1>0, <2>1, <2>2 DEF TypeInv
<1>28. CASE KillRelease
  <2>1. HostTypeOK'
    BY <1>h, <1>28 DEF KillRelease, Steady, hostVars, HostTypeOK
  <2>2. ReleaseTypes'
    BY <1>h, <1>c, <1>28, ReleaseTyped DEF KillRelease, Steady, files, ReleaseTypes,
      ReleaseTypeOK, Phases
  <2> QED BY <1>0, <2>1, <2>2 DEF TypeInv
<1>29. CASE Edit
  <2>1. HostTypeOK'
    BY <1>h, <1>29 DEF Edit, Steady, hostVars, HostTypeOK
  <2>2. ReleaseTypes'
    BY <1>h, <1>c, <1>29, ReleaseTyped DEF Edit, Steady, ReleaseTypes, ReleaseTypeOK, Phases
  <2> QED BY <1>0, <2>1, <2>2 DEF TypeInv
<1>30. CASE UpReads
  <2>1. HostTypeOK'
    BY <1>h, <1>30 DEF UpReads, Overlaid, hostVars, HostTypeOK
  <2>2. ReleaseTypes'
    <3>1. Overlaid(job.to.image) \in Configs
      BY <1>h DEF ReleaseTypes, Configs, Overlaid
    <3> QED BY <1>h, <1>c, <1>30, <3>1, ReleaseTyped
      DEF UpReads, files, ReleaseTypes, ReleaseTypeOK, Phases
  <2> QED BY <1>0, <2>1, <2>2 DEF TypeInv
<1> QED BY <1>1, <1>2, <1>3, <1>4, <1>5, <1>6, <1>7, <1>8, <1>9, <1>10, <1>11, <1>12, <1>13,
  <1>14, <1>15, <1>16, <1>17, <1>18, <1>19, <1>20, <1>21, <1>22, <1>23, <1>24, <1>25, <1>26,
  <1>27, <1>28, <1>29, <1>30 DEF Release

LEMMA LateStopKeepsTypes ==
    ASSUME TypeInv, NEW s \in Services, LateStop(s), UNCHANGED <<backupVars, releaseVars>>
    PROVE  TypeInv'
<1>1. HostTypeOK'
  BY StopTypes DEF TypeInv, HostTypeOK, LateStop
<1>2. BackupTypes'
  BY DEF TypeInv, BackupTypes, backupVars, captureVars, edits
<1>3. ReleaseTypes'
  BY DEF TypeInv, ReleaseTypes, ReleaseTypeOK, releaseVars, files
<1> QED BY <1>1, <1>2, <1>3 DEF TypeInv

LEMMA ReconcileKeepsTypes ==
    ASSUME TypeInv, Reconcile
    PROVE  TypeInv'
<1>h. HostTypeOK /\ BackupTypes /\ ReleaseTypes /\ ReleaseTypeOK
  BY DEF TypeInv, ReleaseTypes
<1>1. HostTypeOK'
  BY <1>h, StartTypes DEF Reconcile
<1>2. BackupTypes'
  <2>1. step' \in [Runs -> Steps]
    BY <1>h DEF Reconcile, BackupTypes, Steps
  <2>2. failure' \in [Runs -> {"none", "failed", "resume"}]
    BY <1>h DEF Reconcile, BackupTypes
  <2> QED BY <1>h, <2>1, <2>2 DEF Reconcile, BackupTypes, captureVars, edits
<1>3. ReleaseTypes'
  BY <1>h, ConfigTypes, ReleaseTyped
    DEF Reconcile, ReleaseTypes, ReleaseTypeOK, NoJob, files
<1> QED BY <1>1, <1>2, <1>3 DEF TypeInv

-----------------------------------------------------------------------------
(* The runs of the backup.                                                  *)

LEMMA BackupKeepsBusy ==
    ASSUME TypeInv, BackupInv, NEW r \in Runs, Backup(r), NEW q \in Runs
    PROVE  Busy(q)'
<1>h. /\ BackupTypes /\ open \subseteq Runs /\ None \notin Runs
      /\ Busy(q) /\ Busy(r)
  BY BackupConstantsOk DEF TypeInv, BackupInv, HostTypeOK
<1>o. STOP_ORDER # <<>> /\ START_ORDER # <<>> /\ VOLUMES # <<>>
  BY Orders
<1>1. CASE Begin(r)
  BY <1>h, <1>o, <1>1 DEF Begin, Goto, Busy, BackupTypes, hostVars, Holding, Stopping,
    Uploading, Over
<1>2. CASE Refuse(r)
  BY <1>h, <1>o, <1>2 DEF Refuse, Goto, Report, Busy, BackupTypes, hostVars, Holding, Stopping,
    Uploading, Over
<1>3. CASE Preflight(r)
  BY <1>h, <1>o, <1>3 DEF Preflight, Goto, Busy, BackupTypes, hostVars, Holding, Stopping,
    Uploading, Over
<1>4. CASE AcquireLock(r)
  BY <1>h, <1>o, <1>4 DEF AcquireLock, Goto, Busy, BackupTypes, hostVars, Holding, Stopping,
    Uploading, Over
<1>5. CASE Recheck(r)
  BY <1>h, <1>o, <1>5 DEF Recheck, Goto, Queue, Busy, BackupTypes, hostVars, Holding, Stopping,
    Uploading, Over
<1>6. CASE StopService(r)
  BY <1>h, <1>o, <1>6 DEF StopService, Stop, Goto, Queue, Busy, BackupTypes, hostVars, Holding,
    Stopping, Uploading, Over
<1>7. CASE StopCutOff(r)
  BY <1>h, <1>o, <1>7 DEF StopCutOff, Abandon, Goto, Queue, Report, Busy, BackupTypes,
    hostVars, Holding, Stopping, Uploading, Over
<1>8. CASE Quiesced(r)
  BY <1>h, <1>o, <1>8 DEF Quiesced, Goto, Queue, Busy, BackupTypes, hostVars, Holding,
    Stopping, Uploading, Over
<1>9. CASE Dump(r)
  BY <1>h, <1>o, <1>9 DEF Dump, Goto, Queue, Busy, BackupTypes, hostVars, Holding, Stopping,
    Uploading, Over
<1>10. CASE Archive(r)
  BY <1>h, <1>o, <1>10 DEF Archive, Goto, Queue, Busy, BackupTypes, hostVars, Holding,
    Stopping, Uploading, Over
<1>11. CASE CopyInputs(r)
  BY <1>h, <1>o, <1>11 DEF CopyInputs, Goto, Busy, BackupTypes, hostVars, Holding, Stopping,
    Uploading, Over
<1>12. CASE Seal(r)
  BY <1>h, <1>o, <1>12 DEF Seal, Goto, Queue, Busy, BackupTypes, hostVars, Holding, Stopping,
    Uploading, Over
<1>13. CASE Verified(r)
  BY <1>h, <1>o, <1>13 DEF Verified, Goto, Queue, Busy, BackupTypes, hostVars, Holding,
    Stopping, Uploading, Over
<1>14. CASE ResumeService(r)
  BY <1>h, <1>o, <1>14 DEF ResumeService, Start, Goto, Queue, Report, Busy, BackupTypes,
    hostVars, Holding, Stopping, Uploading, Over
<1>15. CASE Confirm(r)
  BY <1>h, <1>o, <1>15 DEF Confirm, Goto, Report, Busy, BackupTypes, hostVars, Holding,
    Stopping, Uploading, Over
<1>16. CASE Mark(r)
  BY <1>h, <1>o, <1>16 DEF Mark, Goto, Busy, BackupTypes, hostVars, Holding, Stopping,
    Uploading, Over
<1>17. CASE Prove(r)
  BY <1>h, <1>o, <1>17 DEF Prove, Goto, Busy, BackupTypes, hostVars, Holding, Stopping,
    Uploading, Over
<1>18. CASE Upload(r)
  BY <1>h, <1>o, <1>18 DEF Upload, Goto, Busy, BackupTypes, hostVars, Holding, Stopping,
    Uploading, Over
<1>19. CASE UploadUnheard(r)
  BY <1>h, <1>o, <1>19 DEF UploadUnheard, Abandon, Goto, Queue, Report, Busy, BackupTypes,
    hostVars, Holding, Stopping, Uploading, Over
<1>20. CASE ReadBack(r)
  BY <1>h, <1>o, <1>20 DEF ReadBack, Goto, Busy, BackupTypes, hostVars, Holding, Stopping,
    Uploading, Over
<1>21. CASE Retain(r)
  BY <1>h, <1>o, <1>21 DEF Retain, Goto, Busy, BackupTypes, hostVars, Holding, Stopping,
    Uploading, Over
<1>22. CASE RemoveCapture(r)
  BY <1>h, <1>o, <1>22 DEF RemoveCapture, Goto, Report, Busy, BackupTypes, hostVars, Holding,
    Stopping, Uploading, Over
<1>23. CASE ReleaseLock(r)
  BY <1>h, <1>o, <1>23 DEF ReleaseLock, Goto, Report, Busy, BackupTypes, hostVars, Holding,
    Stopping, Uploading, Over
<1>24. CASE Fail(r)
  BY <1>h, <1>o, <1>24 DEF Fail, Abandon, Goto, Queue, Report, Busy, BackupTypes, hostVars,
    Holding, Stopping, Uploading, Over
<1>25. CASE Kill(r)
  BY <1>h, <1>o, <1>25 DEF Kill, Goto, Queue, Busy, BackupTypes, hostVars, Holding, Stopping,
    Uploading, Over
<1>26. CASE Alter(r)
  BY <1>h, <1>o, <1>26 DEF Alter, Busy, BackupTypes, hostVars, Holding, Stopping, Uploading,
    Over
<1>27. CASE CheckCapture(r)
  BY <1>h, <1>o, <1>27 DEF CheckCapture, Goto, Busy, BackupTypes, hostVars, Holding, Stopping,
    Uploading, Over
<1> QED BY <1>1, <1>2, <1>3, <1>4, <1>5, <1>6, <1>7, <1>8, <1>9, <1>10, <1>11, <1>12, <1>13,
  <1>14, <1>15, <1>16, <1>17, <1>18, <1>19, <1>20, <1>21, <1>22, <1>23, <1>24, <1>25, <1>26,
  <1>27 DEF Backup

\* No hot service is found stopped, and none gets hot for a run that has ended its archives.
StaysCold ==
    \A r \in Runs :
        /\ \A s \in warm'[r] \ cooled'[r] : state'[s] # "exited"
        /\ r \notin open => warm'[r] \ cooled'[r] \subseteq Hot(r)

\* Only the server is disturbed.
StaysQuiet ==
    /\ \A r \in Runs : warm'[r] \subseteq warm[r] \union {"server"}
    /\ \A s \in Services \ {"server"} : state[s] = "exited" => state'[s] = "exited"

LEMMA StartStaysCold ==
    ASSUME TypeInv, BackupInv, NEW S \in SUBSET Services, Start(S)
    PROVE  StaysCold /\ (S \subseteq {"server"} => StaysQuiet)
<1>1. ASSUME NEW r \in Runs
      PROVE  /\ warm[r] \subseteq Services /\ \A s \in Hot(r) : state[s] # "exited"
             /\ warm'[r] = IF r \in open THEN warm[r] \union S ELSE warm[r]
             /\ cooled'[r] = IF r \in open THEN cooled[r] \ S ELSE cooled[r]
  BY DEF Start, TypeInv, HostTypeOK, BackupInv, Cold
<1>2. \A s \in Services : state'[s] = IF s \in S THEN "up" ELSE state[s]
  BY DEF Start
<1>3. StaysCold
  BY <1>1, <1>2 DEF StaysCold, Hot
<1>4. S \subseteq {"server"} => StaysQuiet
  BY <1>1, <1>2 DEF StaysQuiet
<1> QED BY <1>3, <1>4

LEMMA StopStaysCold ==
    ASSUME TypeInv, BackupInv, NEW v \in Services, Stop(v)
    PROVE  StaysCold /\ StaysQuiet
<1>1. ASSUME NEW r \in Runs
      PROVE  warm[r] \subseteq Services /\ \A s \in Hot(r) : state[s] # "exited"
  BY DEF TypeInv, HostTypeOK, BackupInv, Cold
<1>2. CASE UNCHANGED <<state, warm, cooled>>
  BY <1>1, <1>2 DEF StaysCold, StaysQuiet, Hot
<1>3. ASSUME NEW end \in {"exited", "killed"}, state[v] = "up",
             state' = [state EXCEPT ![v] = end],
             cooled' = [q \in Runs |-> cooled[q] \union
                           (IF end = "exited" THEN {v} \cap warm[q] ELSE {})],
             UNCHANGED warm
      PROVE  StaysCold /\ StaysQuiet
  <2>1. \A r \in Runs : cooled'[r] = cooled[r] \union
                           (IF end = "exited" THEN {v} \cap warm[r] ELSE {})
    BY <1>3
  <2>2. \A s \in Services : state'[s] = IF s = v THEN end ELSE state[s]
    BY <1>3 DEF TypeInv, HostTypeOK
  <2>3. StaysCold
    BY <1>1, <1>3, <2>1, <2>2 DEF StaysCold, Hot
  <2>4. StaysQuiet
    BY <1>3, <2>2 DEF StaysQuiet
  <2> QED BY <2>3, <2>4
<1> QED BY <1>2, <1>3 DEF Stop

LEMMA ContainersKeepCold ==
    ASSUME BackupInv, StaysCold, StaysQuiet, UNCHANGED <<backupVars, open>>
    PROVE  BackupInv'
<1> SUFFICES ASSUME NEW r \in Runs PROVE (Busy(r) /\ Cold(r) /\ Quiet(r) /\ Saved(r))'
  BY DEF BackupInv
<1>h. Busy(r) /\ Cold(r) /\ Quiet(r) /\ Saved(r)
  BY DEF BackupInv
<1>1. Busy(r)'
  BY <1>h DEF Busy, backupVars
<1>2. Saved(r)'
  BY <1>h DEF Saved, Since, Kept, FilesOf, backupVars, captureVars, edits
<1>3. step[r] \in {"verify", "resume", "confirm"} \union Uploading => r \notin open
  BY <1>h DEF Busy, Uploading
<1>4. Cold(r)'
  BY <1>h, <1>3 DEF Cold, Hot, StaysCold, backupVars, captureVars, edits, Uploading, Over
<1>5. Quiet(r)'
  BY <1>h DEF Quiet, StaysQuiet, backupVars
<1> QED BY <1>1, <1>2, <1>4, <1>5

LEMMA BackupKeepsCold ==
    ASSUME TypeInv, BackupInv, NEW r \in Runs, Backup(r), NEW q \in Runs
    PROVE  Cold(q)'
<1>h. /\ BackupTypes /\ HostTypeOK
      /\ Busy(q) /\ Busy(r) /\ Cold(q) /\ Cold(r)
  BY DEF TypeInv, BackupInv
<1>b. Busy(q)'
  BY BackupKeepsBusy
<1>o. Elems(STOP_ORDER) = Services /\ None \notin Runs
  BY Orders, BackupConstantsOk
<1>1. CASE Begin(r)
  BY <1>h, <1>b, <1>o, <1>1 DEF Begin, Goto, Cold, Hot, Busy, BackupTypes, HostTypeOK, hostVars,
    captureVars, edits, Holding, Stopping, Uploading, Over
<1>2. CASE Refuse(r)
  BY <1>h, <1>b, <1>o, <1>2 DEF Refuse, Goto, Report, Cold, Hot, Busy, BackupTypes, HostTypeOK,
    hostVars, captureVars, edits, Holding, Stopping, Uploading, Over
<1>3. CASE Preflight(r)
  BY <1>h, <1>b, <1>o, <1>3
    DEF Preflight, Goto, Cold, Hot, Busy, BackupTypes, HostTypeOK, hostVars,
    captureVars, edits, Holding, Stopping, Uploading, Over
<1>4. CASE AcquireLock(r)
  BY <1>h, <1>b, <1>o, <1>4 DEF AcquireLock, Goto, Cold, Hot, Busy, BackupTypes, HostTypeOK,
    hostVars, captureVars, edits, Holding, Stopping, Uploading, Over
<1>5. CASE Recheck(r)
  BY <1>h, <1>b, <1>o, <1>5 DEF Recheck, Goto, Queue, Cold, Hot, Busy, BackupTypes, HostTypeOK,
    hostVars, captureVars, edits, Holding, Stopping, Uploading, Over
<1>6. CASE StopService(r)
  BY <1>h, <1>b, <1>o, <1>6 DEF StopService, Stop, Goto, Queue, Cold, Hot, Busy, BackupTypes,
    HostTypeOK, hostVars, captureVars, edits, Holding, Stopping, Uploading, Over
<1>7. CASE StopCutOff(r)
  BY <1>h, <1>b, <1>o, <1>7 DEF StopCutOff, Abandon, Goto, Queue, Report, Cold, Hot, Busy,
    BackupTypes, HostTypeOK, hostVars, captureVars, edits, Holding, Stopping, Uploading, Over
<1>8. CASE Quiesced(r)
  BY <1>h, <1>b, <1>o, <1>8 DEF Quiesced, Goto, Queue, Cold, Hot, Busy, BackupTypes, HostTypeOK,
    hostVars, captureVars, edits, Holding, Stopping, Uploading, Over
<1>9. CASE Dump(r)
  BY <1>h, <1>b, <1>o, <1>9 DEF Dump, Goto, Queue, Cold, Hot, Busy, BackupTypes, HostTypeOK,
    hostVars, captureVars, edits, Holding, Stopping, Uploading, Over
<1>10. CASE Archive(r)
  BY <1>h, <1>b, <1>o, <1>10 DEF Archive, Goto, Queue, Cold, Hot, Busy, BackupTypes, HostTypeOK,
    hostVars, captureVars, edits, Holding, Stopping, Uploading, Over
<1>11. CASE CopyInputs(r)
  BY <1>h, <1>b, <1>o, <1>11 DEF CopyInputs, Goto, Cold, Hot, Busy, BackupTypes, HostTypeOK,
    hostVars, captureVars, edits, Holding, Stopping, Uploading, Over
<1>12. CASE Seal(r)
  BY <1>h, <1>b, <1>o, <1>12 DEF Seal, Goto, Queue, Cold, Hot, Busy, BackupTypes, HostTypeOK,
    hostVars, captureVars, edits, Holding, Stopping, Uploading, Over
<1>13. CASE Verified(r)
  <2>1. todo[r] \in Seq(Services) /\ todo[r] # <<>> /\ step[r] = "verify"
    BY <1>h, <1>13 DEF Verified, BackupTypes, Busy
  <2>2. Hot(r) \subseteq Elems(todo[r]) /\ Head(todo[r]) \notin Hot(r)
    BY <1>h, <1>13, <2>1 DEF Verified, SeesStopped, Cold, Hot
  <2>3. /\ Hot(r) \subseteq Elems(Tail(todo[r]))
        /\ Tail(todo[r]) = <<>> => Hot(r) = {}
    BY <2>1, <2>2, HeadAndTail
  <2>4. r \notin open
    BY <1>h, <2>1 DEF Busy
  <2>5. CASE q # r
    BY <1>h, <1>13, <2>5
      DEF Verified, Goto, Queue, Cold, Hot, BackupTypes, hostVars, captureVars, edits
  <2>6. CASE q = r /\ Tail(todo[r]) # <<>>
    BY <1>h, <1>13, <2>1, <2>3, <2>4, <2>6
      DEF Verified, Queue, Cold, Hot, BackupTypes, hostVars, captureVars, edits, Uploading, Over
  <2>7. CASE q = r /\ Tail(todo[r]) = <<>>
    BY <1>h, <1>13, <2>1, <2>3, <2>4, <2>7
      DEF Verified, Goto, Cold, Hot, BackupTypes, hostVars, captureVars, edits, Uploading, Over
  <2> QED BY <2>5, <2>6, <2>7
<1>14. CASE ResumeService(r)
  BY <1>h, <1>b, <1>o, <1>14 DEF ResumeService, Start, Goto, Queue, Report, Cold, Hot, Busy,
    BackupTypes, HostTypeOK, hostVars, captureVars, edits, Holding, Stopping, Uploading, Over
<1>15. CASE Confirm(r)
  BY <1>h, <1>b, <1>o, <1>15
    DEF Confirm, Goto, Report, Cold, Hot, Busy, BackupTypes, HostTypeOK,
    hostVars, captureVars, edits, Holding, Stopping, Uploading, Over
<1>16. CASE Mark(r)
  BY <1>h, <1>b, <1>o, <1>16 DEF Mark, Goto, Cold, Hot, Busy, BackupTypes, HostTypeOK, hostVars,
    captureVars, edits, Holding, Stopping, Uploading, Over
<1>17. CASE Prove(r)
  BY <1>h, <1>b, <1>o, <1>17
    DEF Prove, Goto, Cold, Hot, Busy, BackupTypes, HostTypeOK, hostVars,
    captureVars, edits, Holding, Stopping, Uploading, Over
<1>18. CASE Upload(r)
  BY <1>h, <1>b, <1>o, <1>18
    DEF Upload, Goto, Cold, Hot, Busy, BackupTypes, HostTypeOK, hostVars,
    captureVars, edits, Holding, Stopping, Uploading, Over
<1>19. CASE UploadUnheard(r)
  BY <1>h, <1>b, <1>o, <1>19 DEF UploadUnheard, Abandon, Goto, Queue, Report, Cold, Hot, Busy,
    BackupTypes, HostTypeOK, hostVars, captureVars, edits, Holding, Stopping, Uploading, Over
<1>20. CASE ReadBack(r)
  BY <1>h, <1>b, <1>o, <1>20
    DEF ReadBack, Goto, Cold, Hot, Busy, BackupTypes, HostTypeOK, hostVars,
    captureVars, edits, Holding, Stopping, Uploading, Over
<1>21. CASE Retain(r)
  BY <1>h, <1>b, <1>o, <1>21
    DEF Retain, Goto, Cold, Hot, Busy, BackupTypes, HostTypeOK, hostVars,
    captureVars, edits, Holding, Stopping, Uploading, Over
<1>22. CASE RemoveCapture(r)
  BY <1>h, <1>b, <1>o, <1>22 DEF RemoveCapture, Goto, Report, Cold, Hot, Busy, BackupTypes,
    HostTypeOK, hostVars, captureVars, edits, Holding, Stopping, Uploading, Over
<1>23. CASE ReleaseLock(r)
  BY <1>h, <1>b, <1>o, <1>23 DEF ReleaseLock, Goto, Report, Cold, Hot, Busy, BackupTypes,
    HostTypeOK, hostVars, captureVars, edits, Holding, Stopping, Uploading, Over
<1>24. CASE Fail(r)
  BY <1>h, <1>b, <1>o, <1>24
    DEF Fail, Abandon, Goto, Queue, Report, Cold, Hot, Busy, BackupTypes,
    HostTypeOK, hostVars, captureVars, edits, Holding, Stopping, Uploading, Over
<1>25. CASE Kill(r)
  BY <1>h, <1>b, <1>o, <1>25 DEF Kill, Goto, Queue, Cold, Hot, Busy, BackupTypes, HostTypeOK,
    hostVars, captureVars, edits, Holding, Stopping, Uploading, Over
<1>26. CASE Alter(r)
  BY <1>h, <1>b, <1>o, <1>26 DEF Alter, Cold, Hot, Busy, BackupTypes, HostTypeOK, hostVars,
    captureVars, edits, Holding, Stopping, Uploading, Over
<1>27. CASE CheckCapture(r)
  BY <1>h, <1>b, <1>o, <1>27
    DEF CheckCapture, Goto, Cold, Hot, Busy, BackupTypes, HostTypeOK, hostVars,
    captureVars, edits, Holding, Stopping, Uploading, Over
<1> QED BY <1>1, <1>2, <1>3, <1>4, <1>5, <1>6, <1>7, <1>8, <1>9, <1>10, <1>11, <1>12, <1>13,
  <1>14, <1>15, <1>16, <1>17, <1>18, <1>19, <1>20, <1>21, <1>22, <1>23, <1>24, <1>25, <1>26,
  <1>27 DEF Backup

LEMMA BackupKeepsQuiet ==
    ASSUME TypeInv, BackupInv, NEW r \in Runs, Backup(r), NEW q \in Runs
    PROVE  Quiet(q)'
<1>h. BackupTypes /\ HostTypeOK /\ Busy(q) /\ Busy(r) /\ Quiet(q) /\ Quiet(r)
  BY DEF TypeInv, BackupInv
<1>o. Elems(STOP_ORDER) = Services
  BY Orders
<1>s. ASSUME UNCHANGED <<state, warm>>,
             \A p \in Runs \ {r} : step'[p] = step[p] /\ todo'[p] = todo[p],
             step'[r] = "quiesce" => step[r] = "quiesce" /\ todo'[r] = todo[r]
      PROVE  Quiet(q)'
  BY <1>h, <1>s DEF Quiet
<1>1. CASE StopService(r)
  <2>1. Head(todo[r]) \in Services
    BY <1>h, <1>1, HeadAndTail DEF StopService, BackupTypes, Busy
  <2>2. StaysQuiet
    BY <1>1, <2>1, StopStaysCold DEF StopService
  <2>3. /\ UNCHANGED warm /\ step[r] = "stop"
        /\ q # r => step'[q] = step[q] /\ todo'[q] = todo[q]
        /\ step'[r] = "stop" \/ todo'[r] = STOP_ORDER
    BY <1>h, <1>1 DEF StopService, Stop, Goto, Queue, BackupTypes
  <2>4. CASE q # r
    BY <1>h, <2>2, <2>3, <2>4 DEF Quiet, StaysQuiet
  <2>5. CASE q = r
    <3>1. step'[q] = "quiesce" => Elems(todo'[q]) = Services
      BY <1>o, <2>3, <2>5
    <3> QED BY <1>h, <2>3, <2>5, <3>1 DEF Quiet, Elems
  <2> QED BY <2>4, <2>5
<1>2. CASE Quiesced(r)
  <2>1. /\ step[r] = "quiesce" /\ UNCHANGED state
        /\ todo[r] \in Seq(Services) /\ todo[r] # <<>> /\ state[Head(todo[r])] = "exited"
    BY <1>h, <1>2 DEF Quiesced, SeesStopped, BackupTypes, Busy
  <2>2. \A s \in Services \ {"server"} : s \in Elems(Tail(todo[r])) \/ state[s] = "exited"
    BY <1>h, <2>1, HeadAndTail DEF Quiet
  <2>3. CASE q # r
    BY <1>h, <1>2, <2>1, <2>3 DEF Quiesced, Goto, Queue, Quiet, BackupTypes, HostTypeOK
  <2>4. CASE q = r /\ Tail(todo[r]) # <<>>
    BY <1>h, <1>2, <2>1, <2>2, <2>4 DEF Quiesced, Queue, Quiet, BackupTypes
  <2>5. CASE q = r /\ Tail(todo[r]) = <<>>
    <3>1. step'[r] = "dump" /\ warm'[r] = {s \in Services : state[s] # "exited"}
      BY <1>h, <1>2, <2>5 DEF Quiesced, Goto, BackupTypes, HostTypeOK
    <3>2. \A s \in Services \ {"server"} : state[s] = "exited"
      <4>1. \A s \in Services \ {"server"} : s # Head(todo[r]) => s \notin Elems(todo[r])
        BY <2>1, <2>5, HeadAndTail
      <4> QED BY <1>h, <2>1, <4>1 DEF Quiet
    <3> QED BY <2>5, <3>1, <3>2 DEF Quiet
  <2> QED BY <2>3, <2>4, <2>5
<1>3. CASE ResumeService(r)
  <2>1. q \notin open /\ step[r] = "resume" /\ (step[q] = "quiesce" => FALSE)
    BY <1>h, <1>3 DEF ResumeService, Busy, Holding, Stopping
  <2>2. warm'[q] = warm[q]
    BY <1>3, <2>1 DEF ResumeService, Start
  <2>3. step'[q] # "quiesce"
    BY <1>h, <1>3, <2>1 DEF ResumeService, Goto, BackupTypes
  <2> QED BY <1>h, <2>2, <2>3 DEF Quiet
<1>4. CASE Begin(r)
  BY <1>h, <1>s, <1>4 DEF Begin, Goto, BackupTypes, hostVars
<1>5. CASE Refuse(r)
  BY <1>h, <1>s, <1>5 DEF Refuse, Goto, Report, BackupTypes, hostVars
<1>6. CASE Preflight(r)
  BY <1>h, <1>s, <1>6 DEF Preflight, Goto, BackupTypes, hostVars
<1>7. CASE AcquireLock(r)
  BY <1>h, <1>s, <1>7 DEF AcquireLock, Goto, BackupTypes, hostVars
<1>8. CASE Recheck(r)
  BY <1>h, <1>s, <1>8 DEF Recheck, Goto, Queue, BackupTypes, hostVars
<1>9. CASE StopCutOff(r)
  BY <1>h, <1>s, <1>9 DEF StopCutOff, Abandon, Goto, Queue, Report, BackupTypes, hostVars
<1>10. CASE Dump(r)
  BY <1>h, <1>s, <1>10 DEF Dump, Goto, Queue, BackupTypes, hostVars
<1>11. CASE Archive(r)
  BY <1>h, <1>s, <1>11 DEF Archive, Goto, Queue, BackupTypes, hostVars
<1>12. CASE CopyInputs(r)
  BY <1>h, <1>s, <1>12 DEF CopyInputs, Goto, BackupTypes, hostVars
<1>13. CASE Seal(r)
  BY <1>h, <1>s, <1>13 DEF Seal, Goto, Queue, BackupTypes, hostVars
<1>14. CASE Verified(r)
  BY <1>h, <1>s, <1>14 DEF Verified, Goto, Queue, BackupTypes, hostVars
<1>15. CASE Confirm(r)
  BY <1>h, <1>s, <1>15 DEF Confirm, Goto, Report, BackupTypes, hostVars
<1>16. CASE Mark(r)
  BY <1>h, <1>s, <1>16 DEF Mark, Goto, BackupTypes, hostVars
<1>17. CASE Prove(r)
  BY <1>h, <1>s, <1>17 DEF Prove, Goto, BackupTypes, hostVars
<1>18. CASE Upload(r)
  BY <1>h, <1>s, <1>18 DEF Upload, Goto, BackupTypes, hostVars
<1>19. CASE UploadUnheard(r)
  BY <1>h, <1>s, <1>19 DEF UploadUnheard, Abandon, Goto, Queue, Report, BackupTypes, hostVars
<1>20. CASE ReadBack(r)
  BY <1>h, <1>s, <1>20 DEF ReadBack, Goto, BackupTypes, hostVars
<1>21. CASE Retain(r)
  BY <1>h, <1>s, <1>21 DEF Retain, Goto, BackupTypes, hostVars
<1>22. CASE RemoveCapture(r)
  BY <1>h, <1>s, <1>22 DEF RemoveCapture, Goto, Report, BackupTypes, hostVars
<1>23. CASE ReleaseLock(r)
  BY <1>h, <1>s, <1>23 DEF ReleaseLock, Goto, Report, BackupTypes, hostVars
<1>24. CASE Fail(r)
  BY <1>h, <1>s, <1>24 DEF Fail, Abandon, Goto, Queue, Report, BackupTypes, hostVars
<1>25. CASE Kill(r)
  BY <1>h, <1>s, <1>25 DEF Kill, Goto, Queue, BackupTypes, hostVars
<1>26. CASE Alter(r)
  BY <1>h, <1>s, <1>26 DEF Alter, BackupTypes, hostVars
<1>27. CASE CheckCapture(r)
  BY <1>h, <1>s, <1>27 DEF CheckCapture, Goto, BackupTypes, hostVars
<1> QED BY <1>1, <1>2, <1>3, <1>4, <1>5, <1>6, <1>7, <1>8, <1>9, <1>10, <1>11, <1>12, <1>13,
  <1>14, <1>15, <1>16, <1>17, <1>18, <1>19, <1>20, <1>21, <1>22, <1>23, <1>24, <1>25, <1>26,
  <1>27 DEF Backup

LEMMA BackupKeepsSaved ==
    ASSUME TypeInv, BackupInv, NEW r \in Runs, Backup(r), NEW q \in Runs
    PROVE  Saved(q)'
<1>h. /\ BackupTypes /\ {Cleanup, RestoreInputs, Retention} \subseteq BOOLEAN
      /\ Busy(q) /\ Busy(r) /\ Saved(q) /\ Saved(r)
  BY BackupConstantsOk DEF TypeInv, BackupInv
<1>n. None \notin Runs
  BY BackupConstantsOk
<1>1. CASE Begin(r)
  BY <1>h, <1>n, <1>1 DEF Begin, Goto, Saved, Since, Kept, FilesOf, Verifies, Busy,
    BackupTypes, captureVars, edits, Holding, Stopping, Uploading, Over
<1>2. CASE Refuse(r)
  BY <1>h, <1>n, <1>2 DEF Refuse, Goto, Report, Saved, Since, Kept, FilesOf, Verifies, Busy,
    BackupTypes, captureVars, edits, Holding, Stopping, Uploading, Over
<1>3. CASE Preflight(r)
  BY <1>h, <1>n, <1>3 DEF Preflight, Goto, Saved, Since, Kept, FilesOf, Verifies, Busy,
    BackupTypes, captureVars, edits, Holding, Stopping, Uploading, Over
<1>4. CASE AcquireLock(r)
  BY <1>h, <1>n, <1>4 DEF AcquireLock, Goto, Saved, Since, Kept, FilesOf, Verifies, Busy,
    BackupTypes, captureVars, edits, Holding, Stopping, Uploading, Over
<1>5. CASE Recheck(r)
  BY <1>h, <1>n, <1>5 DEF Recheck, Goto, Queue, Saved, Since, Kept, FilesOf, Verifies, Busy,
    BackupTypes, captureVars, edits, Holding, Stopping, Uploading, Over
<1>6. CASE StopService(r)
  BY <1>h, <1>n, <1>6 DEF StopService, Stop, Goto, Queue, Saved, Since, Kept, FilesOf,
    Verifies, Busy, BackupTypes, captureVars, edits, Holding, Stopping, Uploading, Over
<1>7. CASE StopCutOff(r)
  BY <1>h, <1>n, <1>7 DEF StopCutOff, Abandon, Goto, Queue, Report, Saved, Since, Kept,
    FilesOf, Verifies, Busy, BackupTypes, captureVars, edits, Holding, Stopping, Uploading, Over
<1>8. CASE Quiesced(r)
  BY <1>h, <1>n, <1>8 DEF Quiesced, Goto, Queue, Saved, Since, Kept, FilesOf, Verifies, Busy,
    BackupTypes, captureVars, edits, Holding, Stopping, Uploading, Over
<1>9. CASE Dump(r)
  BY <1>h, <1>n, <1>9 DEF Dump, Goto, Queue, Saved, Since, Kept, FilesOf, Verifies, Busy,
    BackupTypes, captureVars, edits, Holding, Stopping, Uploading, Over
<1>10. CASE Archive(r)
  BY <1>h, <1>n, <1>10 DEF Archive, Goto, Queue, Saved, Since, Kept, FilesOf, Verifies, Busy,
    BackupTypes, captureVars, edits, Holding, Stopping, Uploading, Over
<1>11. CASE CopyInputs(r)
  BY <1>h, <1>n, <1>11 DEF CopyInputs, Goto, Saved, Since, Kept, FilesOf, Verifies, Busy,
    BackupTypes, captureVars, edits, Holding, Stopping, Uploading, Over
<1>12. CASE Seal(r)
  BY <1>h, <1>n, <1>12 DEF Seal, Goto, Queue, Saved, Since, Kept, FilesOf, Verifies, Busy,
    BackupTypes, captureVars, edits, Holding, Stopping, Uploading, Over
<1>13. CASE Verified(r)
  BY <1>h, <1>n, <1>13 DEF Verified, Goto, Queue, Saved, Since, Kept, FilesOf, Verifies, Busy,
    BackupTypes, captureVars, edits, Holding, Stopping, Uploading, Over
<1>14. CASE ResumeService(r)
  BY <1>h, <1>n, <1>14 DEF ResumeService, Start, Goto, Queue, Report, Saved, Since, Kept,
    FilesOf, Verifies, Busy, BackupTypes, captureVars, edits, Holding, Stopping, Uploading, Over
<1>15. CASE Confirm(r)
  BY <1>h, <1>n, <1>15 DEF Confirm, Goto, Report, Saved, Since, Kept, FilesOf, Verifies, Busy,
    BackupTypes, captureVars, edits, Holding, Stopping, Uploading, Over
<1>16. CASE Mark(r)
  BY <1>h, <1>n, <1>16 DEF Mark, Goto, Saved, Since, Kept, FilesOf, Verifies, Busy,
    BackupTypes, captureVars, edits, Holding, Stopping, Uploading, Over
<1>17. CASE Prove(r)
  BY <1>h, <1>n, <1>17 DEF Prove, Goto, Saved, Since, Kept, FilesOf, Verifies, Busy,
    BackupTypes, captureVars, edits, Holding, Stopping, Uploading, Over
<1>18. CASE Upload(r)
  BY <1>h, <1>n, <1>18 DEF Upload, Goto, Saved, Since, Kept, FilesOf, Verifies, Busy,
    BackupTypes, captureVars, edits, Holding, Stopping, Uploading, Over
<1>19. CASE UploadUnheard(r)
  BY <1>h, <1>n, <1>19 DEF UploadUnheard, Abandon, Goto, Queue, Report, Saved, Since, Kept,
    FilesOf, Verifies, Busy, BackupTypes, captureVars, edits, Holding, Stopping, Uploading, Over
<1>20. CASE ReadBack(r)
  BY <1>h, <1>n, <1>20 DEF ReadBack, Goto, Saved, Since, Kept, FilesOf, Verifies, Busy,
    BackupTypes, captureVars, edits, Holding, Stopping, Uploading, Over
<1>21. CASE Retain(r)
  BY <1>h, <1>n, <1>21 DEF Retain, Goto, Saved, Since, Kept, FilesOf, Verifies, Busy,
    BackupTypes, captureVars, edits, Holding, Stopping, Uploading, Over
<1>22. CASE RemoveCapture(r)
  BY <1>h, <1>n, <1>22 DEF RemoveCapture, Goto, Report, Saved, Since, Kept, FilesOf, Verifies,
    Busy, BackupTypes, captureVars, edits, Holding, Stopping, Uploading, Over
<1>23. CASE ReleaseLock(r)
  BY <1>h, <1>n, <1>23 DEF ReleaseLock, Goto, Report, Saved, Since, Kept, FilesOf, Verifies,
    Busy, BackupTypes, captureVars, edits, Holding, Stopping, Uploading, Over
<1>24. CASE Fail(r)
  BY <1>h, <1>n, <1>24 DEF Fail, Abandon, Goto, Queue, Report, Saved, Since, Kept, FilesOf,
    Verifies, Busy, BackupTypes, captureVars, edits, Holding, Stopping, Uploading, Over
<1>25. CASE Kill(r)
  BY <1>h, <1>n, <1>25 DEF Kill, Goto, Queue, Saved, Since, Kept, FilesOf, Verifies, Busy,
    BackupTypes, captureVars, edits, Holding, Stopping, Uploading, Over
<1>26. CASE Alter(r)
  <2>1. /\ UNCHANGED <<step, capture, proof, snapshot, verified>>
        /\ capture[r] \in {"partial", "marked"} /\ r \notin altered /\ r \notin gapAltered
        /\ altered' = altered \union {r}
        /\ gapAltered' = IF step[r] = "unlink" THEN gapAltered \union {r} ELSE gapAltered
    BY <1>h, <1>26 DEF Alter, BackupTypes
  <2>2. CASE q # r
    BY <1>h, <2>1, <2>2 DEF Saved, Since, Kept, FilesOf
  <2>3. CASE q = r /\ step[r] # "unlink"
    BY <1>h, <2>1, <2>3 DEF Saved, Since, Kept, FilesOf
  <2>4. CASE q = r /\ step[r] = "unlink"
    <3>1. Kept(r)'
      BY <1>h, <2>1, <2>4 DEF Saved, Kept
    <3>2. snapshot'[r] = proof'[r]
      BY <1>h, <2>1, <2>4 DEF Saved
    <3> QED BY <1>h, <2>1, <2>4, <3>1, <3>2 DEF Saved
  <2> QED BY <2>2, <2>3, <2>4
<1>27. CASE CheckCapture(r)
  BY <1>h, <1>n, <1>27 DEF CheckCapture, Goto, Saved, Since, Kept, FilesOf, Verifies, Busy,
    BackupTypes, captureVars, edits, Holding, Stopping, Uploading, Over
<1> QED BY <1>1, <1>2, <1>3, <1>4, <1>5, <1>6, <1>7, <1>8, <1>9, <1>10, <1>11, <1>12, <1>13,
  <1>14, <1>15, <1>16, <1>17, <1>18, <1>19, <1>20, <1>21, <1>22, <1>23, <1>24, <1>25, <1>26,
  <1>27 DEF Backup

LEMMA BackupKeepsRuns ==
    ASSUME TypeInv, BackupInv, NEW r \in Runs, Backup(r)
    PROVE  BackupInv'
BY BackupKeepsBusy, BackupKeepsCold, BackupKeepsQuiet, BackupKeepsSaved DEF BackupInv

LEMMA ReleaseKeepsRuns ==
    ASSUME TypeInv, BackupInv, Release, UNCHANGED backupVars
    PROVE  BackupInv'
<1>1. StaysCold /\ StaysQuiet /\ open' = open
  <2>h. \A r \in Runs : warm[r] \subseteq Services /\ \A s \in Hot(r) : state[s] # "exited"
    BY DEF TypeInv, HostTypeOK, BackupInv, Cold
  <2>1. CASE TakeLock
    BY <2>h, <2>1 DEF TakeLock, Steady, hostVars, StaysCold, StaysQuiet, Hot
  <2>2. CASE Prepare
    BY <2>h, <2>2 DEF Prepare, Steady, hostVars, StaysCold, StaysQuiet, Hot
  <2>3. CASE PreflightFails
    BY <2>h, <2>3 DEF PreflightFails, Steady, hostVars, StaysCold, StaysQuiet, Hot
  <2>4. CASE FirstCheck
    BY <2>h, <2>4 DEF FirstCheck, Steady, hostVars, StaysCold, StaysQuiet, Hot
  <2>5. CASE LoadImage
    BY <2>h, <2>5 DEF LoadImage, Steady, hostVars, StaysCold, StaysQuiet, Hot
  <2>6. CASE SecondCheck
    BY <2>h, <2>6 DEF SecondCheck, Steady, hostVars, StaysCold, StaysQuiet, Hot
  <2>7. CASE Activate
    BY <2>h, <2>7 DEF Activate, hostVars, StaysCold, StaysQuiet, Hot
  <2>8. CASE UpStops
    BY <2>8, StopStaysCold DEF UpStops, Services
  <2>9. CASE UpCreates
    BY <2>h, <2>9 DEF UpCreates, StaysCold, StaysQuiet, Hot, TypeInv, HostTypeOK
  <2>10. CASE UpStarts
    BY <2>10, StartStaysCold DEF UpStarts, Services
  <2>11. CASE UpFails
    BY <2>h, <2>11 DEF UpFails, hostVars, StaysCold, StaysQuiet, Hot
  <2>12. CASE Activated
    BY <2>h, <2>12 DEF Activated, hostVars, StaysCold, StaysQuiet, Hot
  <2>13. CASE RolledBack
    BY <2>h, <2>13 DEF RolledBack, hostVars, StaysCold, StaysQuiet, Hot
  <2>14. CASE Healthy
    BY <2>h, <2>14 DEF Healthy, Steady, hostVars, StaysCold, StaysQuiet, Hot
  <2>15. CASE CheckBeforeRename
    BY <2>h, <2>15 DEF CheckBeforeRename, Steady, hostVars, StaysCold, StaysQuiet, Hot
  <2>16. CASE Rename
    BY <2>h, <2>16 DEF Rename, Steady, hostVars, StaysCold, StaysQuiet, Hot
  <2>17. CASE Verify
    BY <2>h, <2>17 DEF Verify, Steady, hostVars, StaysCold, StaysQuiet, Hot
  <2>18. CASE Complete
    BY <2>h, <2>18 DEF Complete, Steady, hostVars, StaysCold, StaysQuiet, Hot
  <2>19. CASE Raise
    BY <2>h, <2>19 DEF Raise, hostVars, StaysCold, StaysQuiet, Hot
  <2>20. CASE BeginRecovery
    BY <2>h, <2>20 DEF BeginRecovery, Steady, hostVars, StaysCold, StaysQuiet, Hot
  <2>21. CASE RollBack
    BY <2>h, <2>21 DEF RollBack, hostVars, StaysCold, StaysQuiet, Hot
  <2>22. CASE CheckRestored
    BY <2>h, <2>22 DEF CheckRestored, Steady, hostVars, StaysCold, StaysQuiet, Hot
  <2>23. CASE Restore
    BY <2>h, <2>23 DEF Restore, Steady, hostVars, StaysCold, StaysQuiet, Hot
  <2>24. CASE CheckBeforeRestore
    BY <2>h, <2>24 DEF CheckBeforeRestore, Steady, hostVars, StaysCold, StaysQuiet, Hot
  <2>25. CASE RenameBack
    BY <2>h, <2>25 DEF RenameBack, Steady, hostVars, StaysCold, StaysQuiet, Hot
  <2>26. CASE Settle
    BY <2>h, <2>26 DEF Settle, Steady, hostVars, StaysCold, StaysQuiet, Hot
  <2>27. CASE RecoveryFails
    BY <2>h, <2>27 DEF RecoveryFails, hostVars, StaysCold, StaysQuiet, Hot
  <2>28. CASE KillRelease
    BY <2>h, <2>28 DEF KillRelease, Steady, hostVars, StaysCold, StaysQuiet, Hot
  <2>29. CASE Edit
    BY <2>h, <2>29 DEF Edit, Steady, hostVars, StaysCold, StaysQuiet, Hot
  <2>30. CASE UpReads
    BY <2>h, <2>30 DEF UpReads, Overlaid, hostVars, StaysCold, StaysQuiet, Hot
  <2> QED BY <2>1, <2>2, <2>3, <2>4, <2>5, <2>6, <2>7, <2>8, <2>9, <2>10, <2>11, <2>12, <2>13,
    <2>14, <2>15, <2>16, <2>17, <2>18, <2>19, <2>20, <2>21, <2>22, <2>23, <2>24, <2>25, <2>26,
    <2>27, <2>28, <2>29, <2>30 DEF Release
<1> QED BY <1>1, ContainersKeepCold

LEMMA LateStopKeepsRuns ==
    ASSUME TypeInv, BackupInv, NEW s \in Services, LateStop(s), UNCHANGED backupVars
    PROVE  BackupInv'
BY StopStaysCold, ContainersKeepCold DEF LateStop

LEMMA ReconcileKeepsRuns ==
    ASSUME TypeInv, BackupInv, Reconcile
    PROVE  BackupInv'
<1> SUFFICES ASSUME NEW r \in Runs PROVE (Busy(r) /\ Cold(r) /\ Quiet(r) /\ Saved(r))'
  BY DEF BackupInv
<1>h. Busy(r) /\ Cold(r) /\ Quiet(r) /\ Saved(r) /\ BackupTypes
  BY DEF TypeInv, BackupInv
<1>1. /\ step[r] \in {"idle", "done", "killed"}
      /\ step'[r] = IF step[r] = "killed" THEN "done" ELSE step[r]
      /\ failure'[r] = IF failure[r] = "resume" THEN "failed" ELSE failure[r]
  BY DEF Reconcile
<1>2. StaysCold
  BY StartStaysCold DEF Reconcile
<1>3. Busy(r)'
  BY <1>h, <1>1 DEF Reconcile, Busy, Holding, Stopping, Uploading
<1>4. Cold(r)'
  BY <1>h, <1>1, <1>2
    DEF Reconcile, Busy, Cold, Hot, StaysCold, captureVars, edits, Uploading, Over
<1>5. Saved(r)'
  BY <1>h, <1>1 DEF Reconcile, Saved, Kept, FilesOf, captureVars, edits, Over
<1>6. Quiet(r)'
  <2>1. step'[r] # "quiesce" /\ r \notin open
    BY <1>h, <1>1 DEF Busy
  <2> QED BY <1>h, <2>1 DEF Reconcile, Start, Quiet
<1> QED BY <1>3, <1>4, <1>5, <1>6

-----------------------------------------------------------------------------
(* The release.                                                             *)

LEMMA ReleaseKeepsLocked ==
    ASSUME TypeInv, ReleaseInv, Release
    PROVE  Locked'
<1>h. Locked /\ ReleaseTypes
  BY DEF TypeInv, ReleaseInv
<1>1. CASE TakeLock
  BY <1>h, <1>1 DEF TakeLock, Steady, files, Locked, ReleaseTypes, NoJob
<1>2. CASE Prepare
  BY <1>h, <1>2 DEF Prepare, Steady, files, Locked, ReleaseTypes, NoJob
<1>3. CASE PreflightFails
  BY <1>h, <1>3 DEF PreflightFails, TriesRecord, Unlock, Steady, files, Locked, ReleaseTypes,
    NoJob
<1>4. CASE FirstCheck
  BY <1>h, <1>4 DEF FirstCheck, Steady, files, Locked, ReleaseTypes, NoJob
<1>5. CASE LoadImage
  BY <1>h, <1>5 DEF LoadImage, Steady, files, Locked, ReleaseTypes, NoJob
<1>6. CASE SecondCheck
  BY <1>h, <1>6 DEF SecondCheck, Steady, files, Locked, ReleaseTypes, NoJob
<1>7. CASE Activate
  BY <1>h, <1>7 DEF Activate, Overlaid, files, Locked, ReleaseTypes, NoJob
<1>8. CASE UpStops
  BY <1>h, <1>8 DEF UpStops, files, Locked, ReleaseTypes, NoJob
<1>9. CASE UpCreates
  BY <1>h, <1>9 DEF UpCreates, files, Locked, ReleaseTypes, NoJob
<1>10. CASE UpStarts
  BY <1>h, <1>10 DEF UpStarts, files, Locked, ReleaseTypes, NoJob
<1>11. CASE UpFails
  BY <1>h, <1>11 DEF UpFails, files, Locked, ReleaseTypes, NoJob
<1>12. CASE Activated
  BY <1>h, <1>12 DEF Activated, files, Locked, ReleaseTypes, NoJob
<1>13. CASE RolledBack
  BY <1>h, <1>13 DEF RolledBack, files, Locked, ReleaseTypes, NoJob
<1>14. CASE Healthy
  BY <1>h, <1>14 DEF Healthy, Steady, files, Locked, ReleaseTypes, NoJob
<1>15. CASE CheckBeforeRename
  BY <1>h, <1>15 DEF CheckBeforeRename, Steady, files, Locked, ReleaseTypes, NoJob
<1>16. CASE Rename
  BY <1>h, <1>16 DEF Rename, Steady, Locked, ReleaseTypes, NoJob
<1>17. CASE Verify
  BY <1>h, <1>17 DEF Verify, Steady, files, Locked, ReleaseTypes, NoJob
<1>18. CASE Complete
  BY <1>h, <1>18 DEF Complete, Unlock, Steady, files, Locked, ReleaseTypes, NoJob
<1>19. CASE Raise
  BY <1>h, <1>19 DEF Raise, TriesRecord, files, Locked, ReleaseTypes, NoJob
<1>20. CASE BeginRecovery
  BY <1>h, <1>20 DEF BeginRecovery, TriesRecord, Steady, files, Locked, ReleaseTypes, NoJob
<1>21. CASE RollBack
  BY <1>h, <1>21 DEF RollBack, Overlaid, files, Locked, ReleaseTypes, NoJob
<1>22. CASE CheckRestored
  BY <1>h, <1>22 DEF CheckRestored, Steady, files, Locked, ReleaseTypes, NoJob
<1>23. CASE Restore
  BY <1>h, <1>23 DEF Restore, Steady, files, Locked, ReleaseTypes, NoJob
<1>24. CASE CheckBeforeRestore
  BY <1>h, <1>24 DEF CheckBeforeRestore, Steady, files, Locked, ReleaseTypes, NoJob
<1>25. CASE RenameBack
  BY <1>h, <1>25 DEF RenameBack, Steady, Locked, ReleaseTypes, NoJob
<1>26. CASE Settle
  BY <1>h, <1>26 DEF Settle, Unlock, Steady, files, Locked, ReleaseTypes, NoJob
<1>27. CASE RecoveryFails
  BY <1>h, <1>27 DEF RecoveryFails, TriesRecord, files, Locked, ReleaseTypes, NoJob
<1>28. CASE KillRelease
  BY <1>h, <1>28 DEF KillRelease, Steady, files, Locked, ReleaseTypes, NoJob
<1>29. CASE Edit
  BY <1>h, <1>29 DEF Edit, Steady, Locked, ReleaseTypes, NoJob
<1>30. CASE UpReads
  BY <1>h, <1>30 DEF UpReads, Overlaid, files, Locked, ReleaseTypes, NoJob
<1> QED BY <1>1, <1>2, <1>3, <1>4, <1>5, <1>6, <1>7, <1>8, <1>9, <1>10, <1>11, <1>12, <1>13,
  <1>14, <1>15, <1>16, <1>17, <1>18, <1>19, <1>20, <1>21, <1>22, <1>23, <1>24, <1>25, <1>26,
  <1>27, <1>28, <1>29, <1>30 DEF Release

\* Images of the configurations a release deals with.
LEMMA Images ==
    /\ Image(Original) = "previous" /\ Image(Updated) = "candidate"
    /\ Original # Updated /\ Original \in Configs /\ Updated \in Configs
    /\ \A c \in Configs :
          /\ Image([c EXCEPT !.rest = "edited"]) = Image(c)
          /\ [c EXCEPT !.rest = "edited"].rest = "edited"
          /\ c # Updated => Image(c) = "previous" \/ c.rest = "edited"
          /\ Image(c) \in {"previous", "candidate"}
BY DEF Image, Original, Updated, Configs

LEMMA ReleaseKeepsKnown ==
    ASSUME TypeInv, ReleaseInv, Release
    PROVE  Known'
<1>h. Locked /\ Known /\ ReleaseTypes
  BY DEF TypeInv, ReleaseInv
<1>1. CASE TakeLock
  BY <1>h, Images, <1>1 DEF TakeLock, Steady, files, Locked, Known, ReleaseTypes, ServerRuns,
    Early
<1>2. CASE Prepare
  BY <1>h, Images, <1>2 DEF Prepare, Steady, files, Locked, Known, ReleaseTypes, ServerRuns,
    Early
<1>3. CASE PreflightFails
  BY <1>h, Images, <1>3 DEF PreflightFails, TriesRecord, Unlock, Steady, files, Locked, Known,
    ReleaseTypes, ServerRuns, Early
<1>4. CASE FirstCheck
  BY <1>h, Images, <1>4 DEF FirstCheck, Steady, files, Locked, Known, ReleaseTypes, ServerRuns,
    Early
<1>5. CASE LoadImage
  BY <1>h, Images, <1>5 DEF LoadImage, Steady, files, Locked, Known, ReleaseTypes, ServerRuns,
    Early
<1>6. CASE SecondCheck
  BY <1>h, Images, <1>6 DEF SecondCheck, Steady, files, Locked, Known, ReleaseTypes,
    ServerRuns, Early
<1>7. CASE Activate
  BY <1>h, Images, <1>7 DEF Activate, Overlaid, files, Locked, Known, ReleaseTypes, ServerRuns,
    Early
<1>8. CASE UpStops
  BY <1>h, Images, <1>8 DEF UpStops, files, Locked, Known, ReleaseTypes, ServerRuns, Early
<1>9. CASE UpCreates
  BY <1>h, Images, <1>9 DEF UpCreates, files, Locked, Known, ReleaseTypes, ServerRuns, Early
<1>10. CASE UpStarts
  BY <1>h, Images, <1>10 DEF UpStarts, files, Locked, Known, ReleaseTypes, ServerRuns, Early
<1>11. CASE UpFails
  BY <1>h, Images, <1>11 DEF UpFails, files, Locked, Known, ReleaseTypes, ServerRuns, Early
<1>12. CASE Activated
  BY <1>h, Images, <1>12 DEF Activated, files, Locked, Known, ReleaseTypes, ServerRuns, Early
<1>13. CASE RolledBack
  BY <1>h, Images, <1>13 DEF RolledBack, files, Locked, Known, ReleaseTypes, ServerRuns, Early
<1>14. CASE Healthy
  BY <1>h, Images, <1>14 DEF Healthy, Steady, files, Locked, Known, ReleaseTypes, ServerRuns,
    Early
<1>15. CASE CheckBeforeRename
  BY <1>h, Images, <1>15 DEF CheckBeforeRename, Steady, files, Locked, Known, ReleaseTypes,
    ServerRuns, Early
<1>16. CASE Rename
  BY <1>h, Images, <1>16 DEF Rename, Steady, Locked, Known, ReleaseTypes, ServerRuns, Early
<1>17. CASE Verify
  BY <1>h, Images, <1>17 DEF Verify, Steady, files, Locked, Known, ReleaseTypes, ServerRuns,
    Early
<1>18. CASE Complete
  BY <1>h, Images, <1>18 DEF Complete, Unlock, Steady, files, Locked, Known, ReleaseTypes,
    ServerRuns, Early
<1>19. CASE Raise
  BY <1>h, Images, <1>19 DEF Raise, TriesRecord, files, Locked, Known, ReleaseTypes,
    ServerRuns, Early
<1>20. CASE BeginRecovery
  BY <1>h, Images, <1>20 DEF BeginRecovery, TriesRecord, Steady, files, Locked, Known,
    ReleaseTypes, ServerRuns, Early
<1>21. CASE RollBack
  BY <1>h, Images, <1>21 DEF RollBack, Overlaid, files, Locked, Known, ReleaseTypes,
    ServerRuns, Early
<1>22. CASE CheckRestored
  BY <1>h, Images, <1>22 DEF CheckRestored, Steady, files, Locked, Known, ReleaseTypes,
    ServerRuns, Early
<1>23. CASE Restore
  BY <1>h, Images, <1>23 DEF Restore, Steady, files, Locked, Known, ReleaseTypes, ServerRuns,
    Early
<1>24. CASE CheckBeforeRestore
  BY <1>h, Images, <1>24 DEF CheckBeforeRestore, Steady, files, Locked, Known, ReleaseTypes,
    ServerRuns, Early
<1>25. CASE RenameBack
  BY <1>h, Images, <1>25 DEF RenameBack, Steady, Locked, Known, ReleaseTypes, ServerRuns, Early
<1>26. CASE Settle
  BY <1>h, Images, <1>26 DEF Settle, Unlock, Steady, files, Locked, Known, ReleaseTypes,
    ServerRuns, Early
<1>27. CASE RecoveryFails
  BY <1>h, Images, <1>27 DEF RecoveryFails, TriesRecord, files, Locked, Known, ReleaseTypes,
    ServerRuns, Early
<1>28. CASE KillRelease
  BY <1>h, Images, <1>28 DEF KillRelease, Steady, files, Locked, Known, ReleaseTypes,
    ServerRuns, Early
<1>29. CASE Edit
  BY <1>h, Images, <1>29 DEF Edit, Steady, Locked, Known, ReleaseTypes, ServerRuns, Early
<1>30. CASE UpReads
  BY <1>h, Images, <1>30
    DEF UpReads, Overlaid, files, Locked, Known, ReleaseTypes, ServerRuns, Early
<1> QED BY <1>1, <1>2, <1>3, <1>4, <1>5, <1>6, <1>7, <1>8, <1>9, <1>10, <1>11, <1>12, <1>13,
  <1>14, <1>15, <1>16, <1>17, <1>18, <1>19, <1>20, <1>21, <1>22, <1>23, <1>24, <1>25, <1>26,
  <1>27, <1>28, <1>29, <1>30 DEF Release

LEMMA ReleaseKeepsChecked ==
    ASSUME TypeInv, ReleaseInv, Release
    PROVE  Checked'
<1>h. Checked /\ ReleaseTypes
  BY DEF TypeInv, ReleaseInv
<1>1. CASE TakeLock
  BY <1>h, <1>1 DEF TakeLock, Steady, files, Checked
<1>2. CASE Prepare
  BY <1>h, <1>2 DEF Prepare, Steady, files, Checked
<1>3. CASE PreflightFails
  BY <1>h, <1>3 DEF PreflightFails, TriesRecord, Unlock, Steady, files, Checked
<1>4. CASE FirstCheck
  BY <1>h, <1>4 DEF FirstCheck, Steady, files, Checked
<1>5. CASE LoadImage
  BY <1>h, <1>5 DEF LoadImage, Steady, files, Checked
<1>6. CASE SecondCheck
  BY <1>h, <1>6 DEF SecondCheck, Steady, files, Checked
<1>7. CASE Activate
  BY <1>h, <1>7 DEF Activate, Overlaid, files, Checked
<1>8. CASE UpStops
  BY <1>h, <1>8 DEF UpStops, files, Checked
<1>9. CASE UpCreates
  BY <1>h, <1>9 DEF UpCreates, files, Checked
<1>10. CASE UpStarts
  BY <1>h, <1>10 DEF UpStarts, files, Checked
<1>11. CASE UpFails
  BY <1>h, <1>11 DEF UpFails, files, Checked
<1>12. CASE Activated
  BY <1>h, <1>12 DEF Activated, files, Checked
<1>13. CASE RolledBack
  BY <1>h, <1>13 DEF RolledBack, files, Checked
<1>14. CASE Healthy
  BY <1>h, <1>14 DEF Healthy, Steady, files, Checked
<1>15. CASE CheckBeforeRename
  BY <1>h, <1>15 DEF CheckBeforeRename, Steady, files, Checked
<1>16. CASE Rename
  BY <1>h, <1>16 DEF Rename, Steady, Checked
<1>17. CASE Verify
  BY <1>h, <1>17 DEF Verify, Steady, files, Checked
<1>18. CASE Complete
  BY <1>h, <1>18 DEF Complete, Unlock, Steady, files, Checked
<1>19. CASE Raise
  BY <1>h, <1>19 DEF Raise, TriesRecord, files, Checked
<1>20. CASE BeginRecovery
  BY <1>h, <1>20 DEF BeginRecovery, TriesRecord, Steady, files, Checked
<1>21. CASE RollBack
  BY <1>h, <1>21 DEF RollBack, Overlaid, files, Checked
<1>22. CASE CheckRestored
  BY <1>h, <1>22 DEF CheckRestored, Steady, files, Checked
<1>23. CASE Restore
  BY <1>h, <1>23 DEF Restore, Steady, files, Checked
<1>24. CASE CheckBeforeRestore
  BY <1>h, <1>24 DEF CheckBeforeRestore, Steady, files, Checked
<1>25. CASE RenameBack
  BY <1>h, <1>25 DEF RenameBack, Steady, Checked
<1>26. CASE Settle
  BY <1>h, <1>26 DEF Settle, Unlock, Steady, files, Checked
<1>27. CASE RecoveryFails
  BY <1>h, <1>27 DEF RecoveryFails, TriesRecord, files, Checked
<1>28. CASE KillRelease
  BY <1>h, <1>28 DEF KillRelease, Steady, files, Checked
<1>29. CASE Edit
  BY <1>h, <1>29 DEF Edit, Steady, Checked
<1>30. CASE UpReads
  BY <1>h, <1>30 DEF UpReads, Overlaid, files, Checked
<1> QED BY <1>1, <1>2, <1>3, <1>4, <1>5, <1>6, <1>7, <1>8, <1>9, <1>10, <1>11, <1>12, <1>13,
  <1>14, <1>15, <1>16, <1>17, <1>18, <1>19, <1>20, <1>21, <1>22, <1>23, <1>24, <1>25, <1>26,
  <1>27, <1>28, <1>29, <1>30 DEF Release

LEMMA ReleaseKeepsTruth ==
    ASSUME TypeInv, ReleaseInv, Release
    PROVE  ReleaseTruth'
<1>h. Locked /\ Known /\ ReleaseTruth /\ ReleaseTypes
  BY DEF TypeInv, ReleaseInv
<1>1. CASE TakeLock
  BY <1>h, Images, <1>1 DEF TakeLock, Steady, files, Locked, Known, ReleaseTruth, ReleaseTypes,
    Early
<1>2. CASE Prepare
  BY <1>h, Images, <1>2 DEF Prepare, Steady, files, Locked, Known, ReleaseTruth, ReleaseTypes,
    Early
<1>3. CASE PreflightFails
  BY <1>h, Images, <1>3 DEF PreflightFails, TriesRecord, Unlock, Steady, files, Locked, Known,
    ReleaseTruth, ReleaseTypes, Early
<1>4. CASE FirstCheck
  BY <1>h, Images, <1>4 DEF FirstCheck, Steady, files, Locked, Known, ReleaseTruth,
    ReleaseTypes, Early
<1>5. CASE LoadImage
  BY <1>h, Images, <1>5 DEF LoadImage, Steady, files, Locked, Known, ReleaseTruth,
    ReleaseTypes, Early
<1>6. CASE SecondCheck
  BY <1>h, Images, <1>6 DEF SecondCheck, Steady, files, Locked, Known, ReleaseTruth,
    ReleaseTypes, Early
<1>7. CASE Activate
  BY <1>h, Images, <1>7 DEF Activate, Overlaid, files, Locked, Known, ReleaseTruth,
    ReleaseTypes, Early
<1>8. CASE UpStops
  BY <1>h, Images, <1>8 DEF UpStops, files, Locked, Known, ReleaseTruth, ReleaseTypes, Early
<1>9. CASE UpCreates
  BY <1>h, Images, <1>9 DEF UpCreates, files, Locked, Known, ReleaseTruth, ReleaseTypes, Early
<1>10. CASE UpStarts
  BY <1>h, Images, <1>10 DEF UpStarts, files, Locked, Known, ReleaseTruth, ReleaseTypes, Early
<1>11. CASE UpFails
  BY <1>h, Images, <1>11 DEF UpFails, files, Locked, Known, ReleaseTruth, ReleaseTypes, Early
<1>12. CASE Activated
  BY <1>h, Images, <1>12 DEF Activated, files, Locked, Known, ReleaseTruth, ReleaseTypes, Early
<1>13. CASE RolledBack
  BY <1>h, Images, <1>13 DEF RolledBack, files, Locked, Known, ReleaseTruth, ReleaseTypes,
    Early
<1>14. CASE Healthy
  BY <1>h, Images, <1>14 DEF Healthy, Steady, files, Locked, Known, ReleaseTruth, ReleaseTypes,
    Early
<1>15. CASE CheckBeforeRename
  BY <1>h, Images, <1>15 DEF CheckBeforeRename, Steady, files, Locked, Known, ReleaseTruth,
    ReleaseTypes, Early
<1>16. CASE Rename
  BY <1>h, Images, <1>16 DEF Rename, Steady, Locked, Known, ReleaseTruth, ReleaseTypes, Early
<1>17. CASE Verify
  BY <1>h, Images, <1>17 DEF Verify, Steady, files, Locked, Known, ReleaseTruth, ReleaseTypes,
    Early
<1>18. CASE Complete
  BY <1>h, Images, <1>18 DEF Complete, Unlock, Steady, files, Locked, Known, ReleaseTruth,
    ReleaseTypes, Early
<1>19. CASE Raise
  BY <1>h, Images, <1>19 DEF Raise, TriesRecord, files, Locked, Known, ReleaseTruth,
    ReleaseTypes, Early
<1>20. CASE BeginRecovery
  BY <1>h, Images, <1>20 DEF BeginRecovery, TriesRecord, Steady, files, Locked, Known,
    ReleaseTruth, ReleaseTypes, Early
<1>21. CASE RollBack
  BY <1>h, Images, <1>21 DEF RollBack, Overlaid, files, Locked, Known, ReleaseTruth,
    ReleaseTypes, Early
<1>22. CASE CheckRestored
  BY <1>h, Images, <1>22 DEF CheckRestored, Steady, files, Locked, Known, ReleaseTruth,
    ReleaseTypes, Early
<1>23. CASE Restore
  BY <1>h, Images, <1>23 DEF Restore, Steady, files, Locked, Known, ReleaseTruth, ReleaseTypes,
    Early
<1>24. CASE CheckBeforeRestore
  BY <1>h, Images, <1>24 DEF CheckBeforeRestore, Steady, files, Locked, Known, ReleaseTruth,
    ReleaseTypes, Early
<1>25. CASE RenameBack
  BY <1>h, Images, <1>25 DEF RenameBack, Steady, Locked, Known, ReleaseTruth, ReleaseTypes,
    Early
<1>26. CASE Settle
  BY <1>h, Images, <1>26 DEF Settle, Unlock, Steady, files, Locked, Known, ReleaseTruth,
    ReleaseTypes, Early
<1>27. CASE RecoveryFails
  BY <1>h, Images, <1>27 DEF RecoveryFails, TriesRecord, files, Locked, Known, ReleaseTruth,
    ReleaseTypes, Early
<1>28. CASE KillRelease
  BY <1>h, Images, <1>28 DEF KillRelease, Steady, files, Locked, Known, ReleaseTruth,
    ReleaseTypes, Early
<1>29. CASE Edit
  BY <1>h, Images, <1>29 DEF Edit, Steady, Locked, Known, ReleaseTruth, ReleaseTypes, Early
<1>30. CASE UpReads
  BY <1>h, Images, <1>30
    DEF UpReads, Overlaid, files, Locked, Known, ReleaseTruth, ReleaseTypes, Early
<1> QED BY <1>1, <1>2, <1>3, <1>4, <1>5, <1>6, <1>7, <1>8, <1>9, <1>10, <1>11, <1>12, <1>13,
  <1>14, <1>15, <1>16, <1>17, <1>18, <1>19, <1>20, <1>21, <1>22, <1>23, <1>24, <1>25, <1>26,
  <1>27, <1>28, <1>29, <1>30 DEF Release

LEMMA ReleaseKeepsReleaseInv ==
    ASSUME TypeInv, ReleaseInv, Release
    PROVE  ReleaseInv'
BY ReleaseKeepsLocked, ReleaseKeepsKnown, ReleaseKeepsChecked, ReleaseKeepsTruth
  DEF ReleaseInv

LEMMA OthersKeepReleaseInv ==
    ASSUME ReleaseInv, UNCHANGED releaseVars
    PROVE  ReleaseInv'
<1>1. Locked' /\ Known' /\ Checked'
  BY DEF ReleaseInv, Locked, Known, Checked, Image, releaseVars, files
<1>2. ReleaseTruth'
  BY DEF ReleaseInv, ReleaseTruth, Image, releaseVars, files
<1> QED BY <1>1, <1>2 DEF ReleaseInv

LEMMA ReconcileKeepsReleaseInv ==
    ASSUME TypeInv, ReleaseInv, Reconcile
    PROVE  ReleaseInv'
<1>h. Locked /\ Known /\ Checked /\ ReleaseTruth /\ ReleaseTypes
  BY DEF TypeInv, ReleaseInv
<1>1. Locked'
  BY <1>h DEF Reconcile, Locked, NoJob
<1>2. Known' /\ Checked'
  BY <1>h DEF Reconcile, Locked, Known, Checked, Early, files, Image
<1>3. ReleaseTruth'
  <2>1. CASE releaseLock
    BY <1>h, <2>1 DEF Reconcile, ReleaseTruth, files, Image
  <2>2. CASE ~releaseLock
    BY <1>h, <2>2 DEF Reconcile, ReleaseTruth, files, Image
  <2> QED BY <2>1, <2>2
<1> QED BY <1>1, <1>2, <1>3 DEF ReleaseInv

-----------------------------------------------------------------------------
(* Services that are down.                                                  *)

LEMMA BackupKeepsOwed ==
    ASSUME TypeInv, BackupInv, ServiceInv, NEW r \in Runs, Backup(r),
           UNCHANGED releaseVars, NEW s \in Services
    PROVE  Owed(s)'
<1>h. BackupTypes /\ HostTypeOK /\ Busy(r) /\ Owed(s)
  BY DEF TypeInv, BackupInv, ServiceInv
<1>n. None \notin Runs
  BY BackupConstantsOk
<1>o. Elems(STOP_ORDER) = Services /\ Elems(START_ORDER) = Services
  BY Orders
<1>r. ReleaseOwes' = ReleaseOwes
  BY DEF ReleaseOwes, releaseVars
<1>1. CASE Begin(r)
  BY <1>h, <1>n, <1>o, <1>r, <1>1 DEF Begin, Goto, Owed, RunOwes, Busy, BackupTypes,
    HostTypeOK, hostVars, Holding, Stopping, Uploading, Over
<1>2. CASE Refuse(r)
  BY <1>h, <1>n, <1>o, <1>r, <1>2 DEF Refuse, Goto, Report, Owed, RunOwes, Busy, BackupTypes,
    HostTypeOK, hostVars, Holding, Stopping, Uploading, Over
<1>3. CASE Preflight(r)
  BY <1>h, <1>n, <1>o, <1>r, <1>3 DEF Preflight, Goto, Owed, RunOwes, Busy, BackupTypes,
    HostTypeOK, hostVars, Holding, Stopping, Uploading, Over
<1>4. CASE AcquireLock(r)
  BY <1>h, <1>n, <1>o, <1>r, <1>4 DEF AcquireLock, Goto, Owed, RunOwes, Busy, BackupTypes,
    HostTypeOK, hostVars, Holding, Stopping, Uploading, Over
<1>5. CASE Recheck(r)
  BY <1>h, <1>n, <1>o, <1>r, <1>5 DEF Recheck, Goto, Queue, Owed, RunOwes, Busy, BackupTypes,
    HostTypeOK, hostVars, Holding, Stopping, Uploading, Over
<1>6. CASE StopService(r)
  BY <1>h, <1>n, <1>o, <1>r, <1>6 DEF StopService, Stop, Goto, Queue, Owed, RunOwes, Busy,
    BackupTypes, HostTypeOK, hostVars, Holding, Stopping, Uploading, Over
<1>7. CASE StopCutOff(r)
  BY <1>h, <1>n, <1>o, <1>r, <1>7 DEF StopCutOff, Abandon, Goto, Queue, Report, Owed, RunOwes,
    Busy, BackupTypes, HostTypeOK, hostVars, Holding, Stopping, Uploading, Over
<1>8. CASE Quiesced(r)
  BY <1>h, <1>n, <1>o, <1>r, <1>8 DEF Quiesced, Goto, Queue, Owed, RunOwes, Busy, BackupTypes,
    HostTypeOK, hostVars, Holding, Stopping, Uploading, Over
<1>9. CASE Dump(r)
  BY <1>h, <1>n, <1>o, <1>r, <1>9 DEF Dump, Goto, Queue, Owed, RunOwes, Busy, BackupTypes,
    HostTypeOK, hostVars, Holding, Stopping, Uploading, Over
<1>10. CASE Archive(r)
  BY <1>h, <1>n, <1>o, <1>r, <1>10 DEF Archive, Goto, Queue, Owed, RunOwes, Busy, BackupTypes,
    HostTypeOK, hostVars, Holding, Stopping, Uploading, Over
<1>11. CASE CopyInputs(r)
  BY <1>h, <1>n, <1>o, <1>r, <1>11 DEF CopyInputs, Goto, Owed, RunOwes, Busy, BackupTypes,
    HostTypeOK, hostVars, Holding, Stopping, Uploading, Over
<1>12. CASE Seal(r)
  BY <1>h, <1>n, <1>o, <1>r, <1>12 DEF Seal, Goto, Queue, Owed, RunOwes, Busy, BackupTypes,
    HostTypeOK, hostVars, Holding, Stopping, Uploading, Over
<1>13. CASE Verified(r)
  BY <1>h, <1>n, <1>o, <1>r, <1>13 DEF Verified, Goto, Queue, Owed, RunOwes, Busy, BackupTypes,
    HostTypeOK, hostVars, Holding, Stopping, Uploading, Over
<1>14. CASE ResumeService(r)
  <2>1. /\ todo[r] \in Seq(Services) /\ todo[r] # <<>>
        /\ step[r] = "resume" /\ lockFile = r /\ lockFile' = r
    BY <1>h, <1>14 DEF ResumeService, BackupTypes, Busy, Holding
  <2>2. todo'[r] = Tail(todo[r]) /\ (Tail(todo[r]) # <<>> => step'[r] = "resume")
    BY <1>h, <1>14, <2>1 DEF ResumeService, Queue, BackupTypes
  <2>3. CASE Report(r, "resume")
    BY <1>h, <2>3 DEF Report, BackupTypes, Owed
  <2>4. CASE Start({Head(todo[r])}) /\ s = Head(todo[r])
    BY <2>4 DEF Start, Owed
  <2>5. CASE /\ Start({Head(todo[r])}) /\ s # Head(todo[r])
             /\ failure' \in {failure, [failure EXCEPT ![r] = "resume"]}
    <3>1. state'[s] = state[s] /\ (s \in stranded => s \in stranded')
      BY <2>5 DEF Start
    <3>2. ASSUME NEW q \in Runs, failure[q] = "resume" PROVE failure'[q] = "resume"
      BY <1>h, <2>5, <3>2 DEF BackupTypes
    <3>3. ASSUME NEW q \in Runs, RunOwes(q, s) PROVE RunOwes(q, s)'
      <4>1. q = r /\ s \in Elems(todo[r])
        BY <2>1, <3>3 DEF RunOwes, Stopping
      <4>2. s \in Elems(Tail(todo[r])) /\ Tail(todo[r]) # <<>>
        BY <2>1, <2>5, <4>1, HeadAndTail
      <4> QED BY <2>1, <2>2, <4>1, <4>2 DEF RunOwes
    <3> QED BY <1>h, <1>r, <3>1, <3>2, <3>3 DEF Owed
  <2> QED BY <1>14, <2>3, <2>4, <2>5 DEF ResumeService
<1>15. CASE Confirm(r)
  BY <1>h, <1>n, <1>o, <1>r, <1>15 DEF Confirm, Goto, Report, Owed, RunOwes, Busy, BackupTypes,
    HostTypeOK, hostVars, Holding, Stopping, Uploading, Over
<1>16. CASE Mark(r)
  BY <1>h, <1>n, <1>o, <1>r, <1>16 DEF Mark, Goto, Owed, RunOwes, Busy, BackupTypes,
    HostTypeOK, hostVars, Holding, Stopping, Uploading, Over
<1>17. CASE Prove(r)
  BY <1>h, <1>n, <1>o, <1>r, <1>17 DEF Prove, Goto, Owed, RunOwes, Busy, BackupTypes,
    HostTypeOK, hostVars, Holding, Stopping, Uploading, Over
<1>18. CASE Upload(r)
  BY <1>h, <1>n, <1>o, <1>r, <1>18 DEF Upload, Goto, Owed, RunOwes, Busy, BackupTypes,
    HostTypeOK, hostVars, Holding, Stopping, Uploading, Over
<1>19. CASE UploadUnheard(r)
  BY <1>h, <1>n, <1>o, <1>r, <1>19 DEF UploadUnheard, Abandon, Goto, Queue, Report, Owed,
    RunOwes, Busy, BackupTypes, HostTypeOK, hostVars, Holding, Stopping, Uploading, Over
<1>20. CASE ReadBack(r)
  BY <1>h, <1>n, <1>o, <1>r, <1>20 DEF ReadBack, Goto, Owed, RunOwes, Busy, BackupTypes,
    HostTypeOK, hostVars, Holding, Stopping, Uploading, Over
<1>21. CASE Retain(r)
  BY <1>h, <1>n, <1>o, <1>r, <1>21 DEF Retain, Goto, Owed, RunOwes, Busy, BackupTypes,
    HostTypeOK, hostVars, Holding, Stopping, Uploading, Over
<1>22. CASE RemoveCapture(r)
  BY <1>h, <1>n, <1>o, <1>r, <1>22 DEF RemoveCapture, Goto, Report, Owed, RunOwes, Busy,
    BackupTypes, HostTypeOK, hostVars, Holding, Stopping, Uploading, Over
<1>23. CASE ReleaseLock(r)
  BY <1>h, <1>n, <1>o, <1>r, <1>23 DEF ReleaseLock, Goto, Report, Owed, RunOwes, Busy,
    BackupTypes, HostTypeOK, hostVars, Holding, Stopping, Uploading, Over
<1>24. CASE Fail(r)
  BY <1>h, <1>n, <1>o, <1>r, <1>24 DEF Fail, Abandon, Goto, Queue, Report, Owed, RunOwes, Busy,
    BackupTypes, HostTypeOK, hostVars, Holding, Stopping, Uploading, Over
<1>25. CASE Kill(r)
  BY <1>h, <1>n, <1>o, <1>r, <1>25 DEF Kill, Goto, Queue, Owed, RunOwes, Busy, BackupTypes,
    HostTypeOK, hostVars, Holding, Stopping, Uploading, Over
<1>26. CASE Alter(r)
  BY <1>h, <1>n, <1>o, <1>r, <1>26 DEF Alter, Owed, RunOwes, Busy, BackupTypes, HostTypeOK,
    hostVars, Holding, Stopping, Uploading, Over
<1>27. CASE CheckCapture(r)
  BY <1>h, <1>n, <1>o, <1>r, <1>27 DEF CheckCapture, Goto, Owed, RunOwes, Busy, BackupTypes,
    HostTypeOK, hostVars, Holding, Stopping, Uploading, Over
<1> QED BY <1>1, <1>2, <1>3, <1>4, <1>5, <1>6, <1>7, <1>8, <1>9, <1>10, <1>11, <1>12, <1>13,
  <1>14, <1>15, <1>16, <1>17, <1>18, <1>19, <1>20, <1>21, <1>22, <1>23, <1>24, <1>25, <1>26,
  <1>27 DEF Backup

\* What an `up` stops, its release has to bring back.
LEMMA ReleaseKeepsOwed ==
    ASSUME TypeInv, ReleaseInv, ServiceInv, Release, UNCHANGED backupVars,
           NEW s \in Services
    PROVE  Owed(s)'
<1>h. /\ ReleaseTypes /\ HostTypeOK /\ Locked /\ Owed(s)
  BY DEF TypeInv, ReleaseInv, ServiceInv
<1>r. (\E r \in Runs : failure[r] = "resume" \/ RunOwes(r, s))
         => (\E r \in Runs : failure[r] = "resume" \/ RunOwes(r, s))'
  BY DEF RunOwes, backupVars
<1>1. CASE TakeLock
  BY <1>h, <1>r, <1>1 DEF TakeLock, Steady, files, Owed, ReleaseOwes, ReleaseTypes, HostTypeOK,
    Locked, Early, Trusting, hostVars, Stop, Start, ServerRuns, Services
<1>2. CASE Prepare
  BY <1>h, <1>r, <1>2 DEF Prepare, Steady, files, Owed, ReleaseOwes, ReleaseTypes, HostTypeOK,
    Locked, Early, Trusting, hostVars, Stop, Start, ServerRuns, Services
<1>3. CASE PreflightFails
  BY <1>h, <1>r, <1>3 DEF PreflightFails, TriesRecord, Unlock, Steady, files, Owed,
    ReleaseOwes, ReleaseTypes, HostTypeOK, Locked, Early, Trusting, hostVars, Stop, Start,
    ServerRuns, Services
<1>4. CASE FirstCheck
  BY <1>h, <1>r, <1>4 DEF FirstCheck, Steady, files, Owed, ReleaseOwes, ReleaseTypes,
    HostTypeOK, Locked, Early, Trusting, hostVars, Stop, Start, ServerRuns, Services
<1>5. CASE LoadImage
  BY <1>h, <1>r, <1>5 DEF LoadImage, Steady, files, Owed, ReleaseOwes, ReleaseTypes,
    HostTypeOK, Locked, Early, Trusting, hostVars, Stop, Start, ServerRuns, Services
<1>6. CASE SecondCheck
  BY <1>h, <1>r, <1>6 DEF SecondCheck, Steady, files, Owed, ReleaseOwes, ReleaseTypes,
    HostTypeOK, Locked, Early, Trusting, hostVars, Stop, Start, ServerRuns, Services
<1>7. CASE Activate
  BY <1>h, <1>r, <1>7 DEF Activate, Overlaid, files, Owed, ReleaseOwes, ReleaseTypes,
    HostTypeOK, Locked, Early, Trusting, hostVars, Stop, Start, ServerRuns, Services
<1>8. CASE UpStops
  BY <1>h, <1>r, <1>8 DEF UpStops, files, Owed, ReleaseOwes, ReleaseTypes, HostTypeOK, Locked,
    Early, Trusting, hostVars, Stop, Start, ServerRuns, Services
<1>9. CASE UpCreates
  BY <1>h, <1>r, <1>9 DEF UpCreates, files, Owed, ReleaseOwes, ReleaseTypes, HostTypeOK,
    Locked, Early, Trusting, hostVars, Stop, Start, ServerRuns, Services
<1>10. CASE UpStarts
  BY <1>h, <1>r, <1>10 DEF UpStarts, files, Owed, ReleaseOwes, ReleaseTypes, HostTypeOK,
    Locked, Early, Trusting, hostVars, Stop, Start, ServerRuns, Services
<1>11. CASE UpFails
  BY <1>h, <1>r, <1>11 DEF UpFails, files, Owed, ReleaseOwes, ReleaseTypes, HostTypeOK, Locked,
    Early, Trusting, hostVars, Stop, Start, ServerRuns, Services
<1>12. CASE Activated
  BY <1>h, <1>r, <1>12 DEF Activated, files, Owed, ReleaseOwes, ReleaseTypes, HostTypeOK,
    Locked, Early, Trusting, hostVars, Stop, Start, ServerRuns, Services
<1>13. CASE RolledBack
  BY <1>h, <1>r, <1>13 DEF RolledBack, files, Owed, ReleaseOwes, ReleaseTypes, HostTypeOK,
    Locked, Early, Trusting, hostVars, Stop, Start, ServerRuns, Services
<1>14. CASE Healthy
  BY <1>h, <1>r, <1>14 DEF Healthy, Steady, files, Owed, ReleaseOwes, ReleaseTypes, HostTypeOK,
    Locked, Early, Trusting, hostVars, Stop, Start, ServerRuns, Services
<1>15. CASE CheckBeforeRename
  BY <1>h, <1>r, <1>15 DEF CheckBeforeRename, Steady, files, Owed, ReleaseOwes, ReleaseTypes,
    HostTypeOK, Locked, Early, Trusting, hostVars, Stop, Start, ServerRuns, Services
<1>16. CASE Rename
  BY <1>h, <1>r, <1>16 DEF Rename, Steady, Owed, ReleaseOwes, ReleaseTypes, HostTypeOK, Locked,
    Early, Trusting, hostVars, Stop, Start, ServerRuns, Services
<1>17. CASE Verify
  BY <1>h, <1>r, <1>17 DEF Verify, Steady, files, Owed, ReleaseOwes, ReleaseTypes, HostTypeOK,
    Locked, Early, Trusting, hostVars, Stop, Start, ServerRuns, Services
<1>18. CASE Complete
  BY <1>h, <1>r, <1>18 DEF Complete, Unlock, Steady, files, Owed, ReleaseOwes, ReleaseTypes,
    HostTypeOK, Locked, Early, Trusting, hostVars, Stop, Start, ServerRuns, Services
<1>19. CASE Raise
  BY <1>h, <1>r, <1>19 DEF Raise, TriesRecord, files, Owed, ReleaseOwes, ReleaseTypes,
    HostTypeOK, Locked, Early, Trusting, hostVars, Stop, Start, ServerRuns, Services
<1>20. CASE BeginRecovery
  BY <1>h, <1>r, <1>20 DEF BeginRecovery, TriesRecord, Steady, files, Owed, ReleaseOwes,
    ReleaseTypes, HostTypeOK, Locked, Early, Trusting, hostVars, Stop, Start, ServerRuns,
    Services
<1>21. CASE RollBack
  BY <1>h, <1>r, <1>21 DEF RollBack, Overlaid, files, Owed, ReleaseOwes, ReleaseTypes,
    HostTypeOK, Locked, Early, Trusting, hostVars, Stop, Start, ServerRuns, Services
<1>22. CASE CheckRestored
  BY <1>h, <1>r, <1>22 DEF CheckRestored, Steady, files, Owed, ReleaseOwes, ReleaseTypes,
    HostTypeOK, Locked, Early, Trusting, hostVars, Stop, Start, ServerRuns, Services
<1>23. CASE Restore
  BY <1>h, <1>r, <1>23 DEF Restore, Steady, files, Owed, ReleaseOwes, ReleaseTypes, HostTypeOK,
    Locked, Early, Trusting, hostVars, Stop, Start, ServerRuns, Services
<1>24. CASE CheckBeforeRestore
  BY <1>h, <1>r, <1>24 DEF CheckBeforeRestore, Steady, files, Owed, ReleaseOwes, ReleaseTypes,
    HostTypeOK, Locked, Early, Trusting, hostVars, Stop, Start, ServerRuns, Services
<1>25. CASE RenameBack
  BY <1>h, <1>r, <1>25 DEF RenameBack, Steady, Owed, ReleaseOwes, ReleaseTypes, HostTypeOK,
    Locked, Early, Trusting, hostVars, Stop, Start, ServerRuns, Services
<1>26. CASE Settle
  BY <1>h, <1>r, <1>26 DEF Settle, Unlock, Steady, files, Owed, ReleaseOwes, ReleaseTypes,
    HostTypeOK, Locked, Early, Trusting, hostVars, Stop, Start, ServerRuns, Services
<1>27. CASE RecoveryFails
  BY <1>h, <1>r, <1>27 DEF RecoveryFails, TriesRecord, files, Owed, ReleaseOwes, ReleaseTypes,
    HostTypeOK, Locked, Early, Trusting, hostVars, Stop, Start, ServerRuns, Services
<1>28. CASE KillRelease
  BY <1>h, <1>r, <1>28 DEF KillRelease, Steady, files, Owed, ReleaseOwes, ReleaseTypes,
    HostTypeOK, Locked, Early, Trusting, hostVars, Stop, Start, ServerRuns, Services
<1>29. CASE Edit
  BY <1>h, <1>r, <1>29 DEF Edit, Steady, Owed, ReleaseOwes, ReleaseTypes, HostTypeOK, Locked,
    Early, Trusting, hostVars, Stop, Start, ServerRuns, Services
<1>30. CASE UpReads
  BY <1>h, <1>r, <1>30
    DEF UpReads, Overlaid, files, Owed, ReleaseOwes, ReleaseTypes, HostTypeOK, Locked,
    Early, Trusting, hostVars, Stop, Start, ServerRuns, Services
<1> QED BY <1>1, <1>2, <1>3, <1>4, <1>5, <1>6, <1>7, <1>8, <1>9, <1>10, <1>11, <1>12, <1>13,
  <1>14, <1>15, <1>16, <1>17, <1>18, <1>19, <1>20, <1>21, <1>22, <1>23, <1>24, <1>25, <1>26,
  <1>27, <1>28, <1>29, <1>30 DEF Release

LEMMA LateStopKeepsOwed ==
    ASSUME TypeInv, ServiceInv, NEW v \in Services, LateStop(v),
           UNCHANGED <<backupVars, releaseVars>>, NEW s \in Services
    PROVE  Owed(s)'
<1>h. HostTypeOK /\ Owed(s)
  BY DEF TypeInv, ServiceInv
<1>1. \A r \in Runs : /\ failure'[r] = failure[r]
                   /\ RunOwes(r, s)' = RunOwes(r, s)
  BY DEF RunOwes, backupVars
<1>2. ReleaseOwes' = ReleaseOwes
  BY DEF ReleaseOwes, releaseVars
<1>3. state'[s] = state[s] \/ (s = v /\ (state[s] = "up" => s \in stranded'))
  BY <1>h DEF LateStop, Stop, HostTypeOK
<1>4. state[s] = "up" => state'[s] = "up" \/ s \in stranded'
  BY <1>3
<1>5. s \in stranded => s \in stranded'
  BY DEF LateStop
<1> QED BY <1>h, <1>1, <1>2, <1>4, <1>5 DEF Owed

-----------------------------------------------------------------------------
(* The invariant.                                                           *)

LEMMA Initially == Init => HostInv
<1> SUFFICES ASSUME Init PROVE HostInv
  OBVIOUS
<1> USE DEF Init
<1>1. TypeInv
  <2>1. HostTypeOK
    BY DEF InitHost, HostTypeOK
  <2>2. BackupTypes
    BY DEF InitBackup, BackupTypes, Steps
  <2>3. ReleaseTypes
    <3>1. Original \in Configs
      BY DEF Original, Configs
    <3>2. ReleaseTypeOK
      BY <3>1 DEF InitRelease, ReleaseTypeOK, Phases, NoJob, Configs
    <3> QED BY <3>1, <3>2 DEF InitRelease, ReleaseTypes, NoJob
  <2> QED BY <2>1, <2>2, <2>3 DEF TypeInv
<1>2. BackupInv
  BY
    DEF InitHost, InitBackup, BackupInv, Busy, Cold, Hot, Quiet, Saved, Holding, Stopping,
      Uploading, Over
<1>3. ReleaseInv
  BY Images DEF InitRelease, ReleaseInv, Locked, Known, Checked, ReleaseTruth, Early, NoJob
<1>4. ServiceInv
  BY DEF InitHost, ServiceInv, Owed
<1> QED BY <1>1, <1>2, <1>3, <1>4 DEF HostInv

LEMMA Step == HostInv /\ [Next]_vars => HostInv'
<1> SUFFICES ASSUME HostInv, [Next]_vars PROVE HostInv'
  OBVIOUS
<1>h. TypeInv /\ BackupInv /\ ReleaseInv /\ ServiceInv
  BY DEF HostInv
<1>1. ASSUME NEW r \in Runs, Backup(r), UNCHANGED releaseVars PROVE HostInv'
  <2>1. Busy(r)
    BY <1>h DEF BackupInv
  <2> QED BY <1>h, <1>1, <2>1, BackupKeepsTypes, BackupKeepsRuns, OthersKeepReleaseInv,
             BackupKeepsOwed DEF HostInv, ServiceInv
<1>2. CASE Release /\ UNCHANGED backupVars
  BY <1>h, <1>2, ReleaseKeepsTypes, ReleaseKeepsRuns, ReleaseKeepsReleaseInv,
     ReleaseKeepsOwed DEF HostInv, ServiceInv
<1>3. ASSUME NEW s \in Services, LateStop(s), UNCHANGED <<backupVars, releaseVars>>
      PROVE  HostInv'
  <2>1. UNCHANGED backupVars /\ UNCHANGED releaseVars
    BY <1>3
  <2> QED BY <1>h, <1>3, <2>1, LateStopKeepsTypes, LateStopKeepsRuns,
             OthersKeepReleaseInv, LateStopKeepsOwed DEF HostInv, ServiceInv
<1>4. CASE Reconcile
  <2>1. ServiceInv'
    BY <1>4 DEF Reconcile, Start, ServiceInv, Owed
  <2> QED BY <1>h, <1>4, <2>1, ReconcileKeepsTypes, ReconcileKeepsRuns,
             ReconcileKeepsReleaseInv DEF HostInv
<1>5. CASE UNCHANGED vars
  <2>1. UNCHANGED hostVars /\ UNCHANGED backupVars /\ UNCHANGED releaseVars
    BY <1>5 DEF vars
  <2>2. TypeInv'
    BY <1>h, <2>1 DEF TypeInv, HostTypeOK, BackupTypes, ReleaseTypes, ReleaseTypeOK,
      hostVars, backupVars, captureVars, edits, releaseVars, files
  <2>3. StaysCold /\ StaysQuiet
    BY <1>h, <2>1 DEF StaysCold, StaysQuiet, hostVars, BackupInv, Cold, Hot
  <2>4. BackupInv'
    BY <1>h, <2>1, <2>3, ContainersKeepCold DEF hostVars
  <2>5. ReleaseInv'
    BY <1>h, <2>1, OthersKeepReleaseInv
  <2>6. ServiceInv'
    BY <1>h, <2>1 DEF ServiceInv, Owed, RunOwes, ReleaseOwes, hostVars, backupVars, releaseVars
  <2> QED BY <2>2, <2>4, <2>5, <2>6 DEF HostInv
<1> QED BY <1>1, <1>2, <1>3, <1>4, <1>5 DEF Next

-----------------------------------------------------------------------------
(* Theorems.                                                                *)

\* Whatever fails, comes late, is killed or is edited, HostInv is true.
THEOREM Invariance == Spec => []HostInv
<1> QED BY Initially, Step, PTL DEF Spec

\* Every variable keeps its type.
THEOREM TypeCorrect == Spec => []TypeOK
<1>1. HostInv => TypeOK
  BY DEF HostInv, TypeInv, TypeOK, BackupTypes, BackupTypeOK, ReleaseTypes
<1> QED BY Invariance, <1>1, PTL

\* A capture that is marked as complete is cold, except for a server that a release has
\* started during the archives and that ended gracefully before the last look: one that
\* still ran, or had ended badly, would have been seen by it, and no other service runs
\* again, because only the run that holds the lock starts those.
THEOREM CapturesAreCold == Spec => []ColdCapture
<1>1. HostInv => ColdCapture
  BY DEF HostInv, BackupInv, Cold, Hot, Quiet, ColdCapture
<1> QED BY Invariance, <1>1, PTL

\* Once both locks are free, services are down only because of a late stop or of a run
\* that said so: every other one that is down has somebody who holds a lock and owes it.
THEOREM ServicesAreBack == Spec => []ServicesResume
<1>1. HostInv => ServicesResume
  <2> SUFFICES ASSUME HostInv, lockFile = None, ~releaseLock, stranded = {},
                      \A r \in Runs : failure[r] # "resume"
               PROVE  AllUp
    BY DEF ServicesResume
  <2>1. ASSUME NEW s \in Services PROVE state[s] = "up"
    BY BackupConstantsOk DEF HostInv, ServiceInv, Owed, RunOwes, ReleaseOwes
  <2> QED BY <2>1 DEF AllUp
<1> QED BY Invariance, <1>1, PTL

\* A run removes only what the repository holds as it was last compared: the files it
\* noted, it saved, and found again, and files that have changed do not change back.  What
\* is changed between that comparison and its unlink is lost.
THEOREM NothingIsLost == Spec => []NothingLost
<1>1. HostInv => NothingLost
  BY DEF HostInv, BackupInv, Saved, Kept, NothingLost
<1> QED BY Invariance, <1>1, PTL

\* What a release says of itself is so.
THEOREM ReleaseIsTrue == Spec => []ReleaseTruth
<1>1. HostInv => ReleaseTruth
  BY DEF HostInv, ReleaseInv
<1> QED BY Invariance, <1>1, PTL

\* No step undoes a foreign edit, except one made between a check and its rename.
THEOREM EditsAreKept == Spec => EditsSurvive
<1>1. ASSUME HostInv, [Next]_vars
      PROVE  [canonical.rest = "edited" /\ ~gapEdit => canonical'.rest = "edited"]_vars
  <2> SUFFICES ASSUME Next, canonical.rest = "edited", ~gapEdit
               PROVE  canonical'.rest = "edited"
    BY <1>1
  <2>0. Checked /\ Original.rest # "edited" /\ Updated.rest # "edited"
    BY <1>1 DEF HostInv, ReleaseInv, Original, Updated
  <2>1. CASE UNCHANGED canonical
    BY <2>1
  <2>2. CASE Release
    <3>1. phase # "rename" /\ phase # "unrename"
      BY <2>0 DEF Checked
    <3>2. ~Rename /\ ~RenameBack /\ ~Edit
      BY <3>1 DEF Rename, RenameBack, Edit
    <3>3. UNCHANGED canonical

      BY <2>2, <3>2 DEF Release, files, TakeLock, Prepare, PreflightFails, FirstCheck,
        LoadImage, SecondCheck, Activate, UpReads, UpStops, UpCreates, UpStarts, UpFails,
        Activated, RolledBack, Healthy, CheckBeforeRename, Verify, Complete, Raise, BeginRecovery,
        RollBack, CheckRestored, Restore, CheckBeforeRestore, Settle, RecoveryFails,
        KillRelease
    <3> QED BY <3>3
  <2>3. CASE UNCHANGED releaseVars \/ Reconcile
    BY <2>1, <2>3 DEF Reconcile, releaseVars, files
  <2> QED BY <2>2, <2>3 DEF Next
<1> QED BY Invariance, <1>1, PTL DEF Spec, EditsSurvive

=============================================================================
