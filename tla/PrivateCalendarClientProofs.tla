---------------------- MODULE PrivateCalendarClientProofs ----------------------
(***************************************************************************)
(* Proofs about PrivateCalendarClient, for any number of actors, app IDs   *)
(* and faults.  One inductive invariant says what each stage of an         *)
(* operation may rely on: a cleanup works on a revoked row only, as do the *)
(* late deletions it leaves behind, an app ID is enrolled by one job, what *)
(* has gone beyond bootstrap never comes back, and without a fault a map   *)
(* that is to be gone is in the hands of somebody who deletes it.          *)
(***************************************************************************)
EXTENDS PrivateCalendarClient, TLAPS

EnrolSteps == {"probe", "bootstrap", "create", "verifyOffered", "enable", "unhide",
               "verifyAccepted", "activate", "respond", "withdraw", "withdrawMap"}
MapSteps == {"create", "verifyOffered", "enable", "unhide", "verifyAccepted", "activate"}
CleanupSteps == {"resolve", "list", "delete", "mark"}

\* An operation under way has an app ID, which has a row.
HasRow ==
    \A a \in Actors : job[a].step \notin {"idle", "insert"} =>
        job[a].client \in Clients /\ row[job[a].client].state # "none"

TypeInv == TypeOK /\ HasRow

RowsOK == row \in [Clients -> Row] /\ \A c \in Clients : Shape(row[c])

Job == [step : Steps, client : Clients \union {NoClient}]
JobsOK == job \in [Actors -> Job]

RestOK ==
    /\ age \in [Clients -> {"young", "stale", "expired"}]
    /\ maps \in [Clients -> MapStates]
    /\ late \subseteq Request
    /\ standing \in [Actors -> {"manager", "member", "left"}]
    /\ activated \subseteq Clients /\ revealed \subseteq Clients
    /\ faults \in 0 .. MaxFaults

\* What may become of a row in a step.
RowStep(r, s) ==
    /\ s \in Row /\ Shape(s)
    /\ r.state # "none" => s.state # "none" /\ s.by = r.by
    /\ r.state # "none" /\ r.map # "pending" => s.map # "pending"
    /\ r.state = "active" => s.state \in {"active", "revoked"}
    /\ r.state = "revoked" => s.state = "revoked" /\ (r.map = "removed" => s.map = "removed")

RowMoves ==
    /\ row' = [c \in Clients |-> row'[c]]
    /\ \A c \in Clients : RowStep(row[c], row'[c])

Past(c) == row[c].state # "none" /\ row[c].map # "pending"

\* Maps are deleted for revoked rows only.
CleansRevoked ==
    /\ \A a \in Actors : job[a].step \in CleanupSteps => row[job[a].client].state = "revoked"
    /\ \A m \in late : m.op = "delete" => row[m.client].state = "revoked"

\* Between the check and the activation only a revocation takes the map away.
AboutToActivate ==
    \A a \in Actors : job[a].step = "activate" =>
        \/ maps[job[a].client] = "accepted"
        \/ row[job[a].client].state = "revoked"

\* Requests about a map are made for rows beyond bootstrap only.
AsksPastBootstrap ==
    /\ \A a \in Actors : job[a].step \in MapSteps => Past(job[a].client)
    /\ \A m \in late : Past(m.client)

\* An app ID is enrolled once.
EnrolledOnce ==
    \A a, b \in Actors :
        job[a].step \in EnrolSteps /\ job[b].step \in EnrolSteps
            /\ job[a].client = job[b].client => a = b

\* An operation without an app ID is one that has not begun.
IdleHasNone ==
    \A a \in Actors : job[a].step \in {"idle", "insert"} => job[a].client = NoClient

\* A client that has been active does not become new again, and a response is under
\* way for such a client only.
ActivatedRows ==
    /\ \A c \in activated : row[c].state \in {"active", "revoked"}
    /\ \A a \in Actors : job[a].step = "respond" => job[a].client \in activated

MapInv == CleansRevoked /\ AboutToActivate /\ ActiveHasItsMap
BootInv == NoMapBeforeBootstrap /\ AsksPastBootstrap
EnrolInv == IdleHasNone /\ EnrolledOnce /\ ActivatedRows /\ RevealedWasActive

-----------------------------------------------------------------------------
(* Types.                                                                   *)

\* A row that stays as it is.
LEMMA SameStep == ASSUME TypeOK, NEW c \in Clients PROVE RowStep(row[c], row[c])
  BY DEF TypeOK, RowStep

\* A row that is revoked.
LEMMA RevokedStep ==
    ASSUME TypeOK, NEW c \in Clients, row[c].state # "none"
    PROVE  RowStep(row[c], Revoked(row[c])) /\ Revoked(row[c]).state = "revoked"
  BY DEF TypeOK, RowStep, Revoked, Shape, Row

\* What a statement makes of a row it looks at.
LEMMA CurrentStep ==
    ASSUME TypeOK, NEW c \in Clients
    PROVE  /\ RowStep(row[c], Current(c))
           /\ (Current(c).state = "none") <=> (row[c].state = "none")
           /\ Current(c).state = "active" => row[c].state = "active"
  <1>1. CASE Overdue(c)
    <2>1. row[c].state # "none"
      BY <1>1 DEF Overdue
    <2> QED
      BY <1>1, <2>1, RevokedStep DEF Current
  <1>2. CASE ~ Overdue(c)
    BY <1>2, SameStep DEF Current
  <1> QED
    BY <1>1, <1>2

\* What the policy makes of a row it looks at.
LEMMA CheckedStep ==
    ASSUME TypeOK, NEW c \in Clients
    PROVE  /\ RowStep(row[c], Checked(c))
           /\ Checked(c).state = "active" => row[c].state = "active"
  <1>1. CASE Live(row[c]) /\ standing[row[c].by] = "left"
    <2>1. row[c].state # "none"
      BY <1>1 DEF Live
    <2> QED
      BY <1>1, <2>1, RevokedStep DEF Checked
  <1>2. CASE ~ (Live(row[c]) /\ standing[row[c].by] = "left")
    BY <1>2, CurrentStep DEF Checked
  <1> QED
    BY <1>1, <1>2

\* The statement of a revocation changes the row of its client only.
LEMMA RevokedRowStep ==
    ASSUME TypeOK, NEW c \in Clients, row[c].state # "none"
    PROVE  /\ RowStep(row[c], RevokedRow(c)[c])
           /\ RevokedRow(c)[c].state = "revoked"
           /\ RevokedRow(c) = [row EXCEPT ![c] = RevokedRow(c)[c]]
  <1>1. RevokedRow(c)[c] = IF row[c].state = "revoked" THEN row[c] ELSE Revoked(row[c])
    BY DEF RevokedRow, TypeOK
  <1>2. RevokedRow(c) = [row EXCEPT ![c] = RevokedRow(c)[c]]
    BY DEF RevokedRow, TypeOK
  <1> QED
    BY <1>1, <1>2, SameStep, RevokedStep

\* A job goes on, and the others stay where they are.
LEMMA JobStep ==
    ASSUME JobsOK, NEW a \in Actors, NEW j \in Job, job' = [job EXCEPT ![a] = j]
    PROVE  JobsOK' /\ job'[a] = j /\ \A b \in Actors \ {a} : job'[b] = job[b]
  BY DEF JobsOK

\* The next step of an operation.
LEMMA GotoStep ==
    ASSUME JobsOK, NEW a \in Actors, NEW step \in Steps, Goto(a, step)
    PROVE  /\ JobsOK' /\ job'[a].step = step /\ job'[a].client = job[a].client
           /\ \A b \in Actors \ {a} : job'[b] = job[b]
  BY DEF JobsOK, Job, Goto, Working

\* The end of an operation.
LEMMA ReturnStep ==
    ASSUME JobsOK, NEW a \in Actors, Return(a)
    PROVE  /\ JobsOK' /\ job'[a].step = "idle"
           /\ \A b \in Actors \ {a} : job'[b] = job[b]
  BY DEF JobsOK, Job, Return, Idle, Working, Steps

\* Whatever happens, rows go the way the table allows and never back.
LEMMA RowsMove == TypeInv /\ [Next]_vars => RowMoves
  <1> SUFFICES ASSUME TypeInv, [Next]_vars PROVE RowMoves
    OBVIOUS
  <1>t. RowsOK /\ HasRow
    BY DEF TypeInv, TypeOK, RowsOK
  <1>s. /\ row = [c \in Clients |-> row[c]]
        /\ \A c \in Clients : RowStep(row[c], row[c])
    BY <1>t, SameStep DEF TypeInv, RowsOK
  <1>c. \A c \in Clients : RowStep(row[c], Current(c))
    BY CurrentStep DEF TypeInv
  <1>k. \A c \in Clients : RowStep(row[c], Checked(c))
    BY CheckedStep DEF TypeInv
  <1>r. \A c \in Clients : row[c].state # "none" =>
          /\ RowStep(row[c], RevokedRow(c)[c])
          /\ RevokedRow(c) = [row EXCEPT ![c] = RevokedRow(c)[c]]
    BY RevokedRowStep DEF TypeInv
  <1>n. \A c \in Clients, a \in Actors : row[c].state = "none" =>
          RowStep(row[c], [state |-> "pending", map |-> "pending", by |-> a])
    BY <1>t DEF RowStep, RowsOK, Shape, Row
  <1>i. \A c \in Clients :
          /\ MayBootstrap(c) => RowStep(row[c], RowIn(c, "pending", "bootstrap"))
          /\ MayActivate(c) => RowStep(row[c], RowIn(c, "active", "present"))
          /\ row[c].state = "revoked" => RowStep(row[c], RowIn(c, "revoked", "removed"))
    BY <1>t DEF RowStep, RowsOK, Shape, Row, RowIn, MayBootstrap, MayActivate
  <1>1. ASSUME NEW a \in Actors, Enrolment(a) PROVE RowMoves
    <2>1. CASE Create(a)
      BY <2>1, <1>s DEF Create, RowMoves
    <2>2. CASE Refuse(a)
      BY <2>2, <1>c DEF Refuse, AllCurrent, RowMoves
    <2>3. ASSUME NEW c \in Clients, CreatePending(a, c) PROVE RowMoves
      BY <2>3, <1>c, <1>n DEF CreatePending, AllCurrent, RowMoves
    <2>4. CASE Probe(a)
      BY <2>4, <1>s DEF Probe, RowMoves
    <2>5. CASE BeginBootstrap(a)
      BY <2>5, <1>s, <1>t, <1>i DEF BeginBootstrap, MayBootstrap, MayActivate, HasRow, At, RowMoves
    <2>6. CASE CreateMap(a)
      BY <2>6, <1>s DEF CreateMap, RowMoves
    <2>7. CASE VerifyOffered(a)
      BY <2>7, <1>s DEF VerifyOffered, RowMoves
    <2>8. CASE EnableMap(a)
      BY <2>8, <1>s, <1>k, <1>t DEF EnableMap, Accept, RowMoves
    <2>9. CASE UnhideMap(a)
      BY <2>9, <1>s, <1>k, <1>t DEF UnhideMap, Accept, RowMoves
    <2>10. CASE VerifyAccepted(a)
      BY <2>10, <1>s DEF VerifyAccepted, RowMoves
    <2>11. CASE Activate(a)
      BY <2>11, <1>s, <1>t, <1>i DEF Activate, MayBootstrap, MayActivate, HasRow, At, RowMoves
    <2>12. CASE Respond(a) \/ Throw(a)
      BY <2>12, <1>s DEF Respond, Throw, RowMoves
    <2> QED
      BY <1>1, <2>1, <2>2, <2>3, <2>4, <2>5, <2>6, <2>7, <2>8, <2>9, <2>10, <2>11, <2>12
         DEF Enrolment
  <1>2. ASSUME NEW a \in Actors, Revocation(a) PROVE RowMoves
    <2>1. ASSUME NEW c \in Clients, Revoke(a, c) PROVE RowMoves
      BY <2>1, <1>s, <1>c, <1>t DEF Revoke, RowMoves
    <2>2. CASE RevokeRow(a)
      BY <2>2, <1>s, <1>r, <1>t DEF RevokeRow, HasRow, At, RowMoves
    <2>3. CASE ResolveTarget(a)
      BY <2>3, <1>s DEF ResolveTarget, RowMoves
    <2>4. CASE ListMaps(a)
      BY <2>4, <1>s DEF ListMaps, RowMoves
    <2>5. CASE DeleteMap(a)
      BY <2>5, <1>s DEF DeleteMap, RowMoves
    <2>6. CASE MarkMapRemoved(a)
      BY <2>6, <1>s, <1>t, <1>i DEF MarkMapRemoved, MayBootstrap, MayActivate, HasRow, At, RowMoves
    <2>7. CASE GiveUp(a)
      BY <2>7, <1>s DEF GiveUp, RowMoves
    <2> QED
      BY <1>2, <2>1, <2>2, <2>3, <2>4, <2>5, <2>6, <2>7
         DEF Revocation
  <1>3. CASE World
    <2>1. ASSUME NEW c \in Clients, Grow(c) PROVE RowMoves
      BY <2>1, <1>s DEF Grow, RowMoves
    <2>2. ASSUME NEW c \in Clients, CheckPolicy(c) PROVE RowMoves
      BY <2>2, <1>s, <1>k, <1>t DEF CheckPolicy, RowMoves
    <2>3. ASSUME NEW a \in Actors, ChangeStanding(a) PROVE RowMoves
      BY <2>3, <1>s DEF ChangeStanding, RowMoves
    <2>4. ASSUME NEW m \in late, Land(m) PROVE RowMoves
      BY <2>4, <1>s DEF Land, RowMoves
    <2>5. ASSUME NEW m \in late, Drop(m) PROVE RowMoves
      BY <2>5, <1>s DEF Drop, RowMoves
    <2>6. CASE ListForTarget
      BY <2>6, <1>c DEF ListForTarget, AllCurrent, RowMoves
    <2>7. CASE Restart
      BY <2>7, <1>s DEF Restart, RowMoves
    <2> QED
      BY <1>3, <2>1, <2>2, <2>3, <2>4, <2>5, <2>6, <2>7
         DEF World
  <1>4. CASE UNCHANGED vars
      BY <1>4, <1>s DEF vars, RowMoves
  <1> QED
    BY <1>1, <1>2, <1>3, <1>4 DEF Next

\* An actor's step changes the job of this actor only, which has a row.
HasJob(a) ==
    /\ JobsOK'
    /\ \A b \in Actors \ {a} : job'[b] = job[b]
    /\ job'[a].step \notin {"idle", "insert"} =>
         job'[a].client \in Clients /\ row'[job'[a].client].state # "none"

\* A request to Radicale moves the job of its actor only.
LEMMA AskStep ==
    ASSUME JobsOK, NEW a \in Actors, NEW op, NEW next \in Steps, Ask(a, op, next)
    PROVE  /\ JobsOK' /\ job'[a].client = job[a].client
           /\ \A b \in Actors \ {a} : job'[b] = job[b]
  <1>1. job[a].client \in Clients \union {NoClient}
    BY DEF JobsOK, Job
  <1>2. PICK s \in Steps : job' = [job EXCEPT ![a] = Working(s, job[a].client)]
    BY DEF Ask, Steps
  <1>3. Working(s, job[a].client) \in Job /\ Working(s, job[a].client).client = job[a].client
    BY <1>1 DEF Job, Working
  <1> QED
    BY <1>2, <1>3, JobStep

\* The jobs keep their types, and those under way a row.
LEMMA JobsMove ==
    ASSUME TypeInv, [Next]_vars
    PROVE  JobsOK' /\ HasRow'
  <1>t. TypeOK /\ JobsOK /\ HasRow
    BY DEF TypeInv, TypeOK, JobsOK, Job
  <1>r. \A c \in Clients : row[c].state # "none" => row'[c].state # "none"
    BY RowsMove DEF RowMoves, RowStep
  <1>h. \A a \in Actors : HasJob(a) => JobsOK' /\ HasRow'
    BY <1>t, <1>r DEF HasJob, HasRow
  <1>g. ASSUME NEW a \in Actors, NEW s \in Steps, Goto(a, s),
               job[a].step \notin {"idle", "insert"} \/ s \in {"idle", "insert"}
        PROVE  HasJob(a)
    BY <1>g, <1>t, <1>r, GotoStep DEF HasJob, HasRow
  <1>e. ASSUME NEW a \in Actors, Return(a) PROVE HasJob(a)
    BY <1>e, <1>t, ReturnStep DEF HasJob
  <1>q. ASSUME NEW a \in Actors, NEW op, NEW s \in Steps, Ask(a, op, s),
               job[a].step \notin {"idle", "insert"}
        PROVE  HasJob(a)
    BY <1>q, <1>t, <1>r, AskStep DEF HasJob, HasRow
  <1>w. ASSUME NEW a \in Actors, NEW s \in Steps, NEW c \in Clients,
               job' = [job EXCEPT ![a] = Working(s, c)], row'[c].state # "none"
        PROVE  HasJob(a)
    <2>1. Working(s, c) \in Job /\ Working(s, c).client = c
      BY DEF Working, Job
    <2> QED
      BY <1>w, <1>t, <2>1, JobStep DEF HasJob
  <1>u. UNCHANGED job => JobsOK' /\ HasRow'
    BY <1>t, <1>r DEF JobsOK, HasRow
  <1>1. ASSUME NEW a \in Actors, Enrolment(a) PROVE HasJob(a)
    <2>1. CASE Create(a)
      BY <2>1, <1>g DEF Create, Steps
    <2>2. CASE Refuse(a)
      BY <2>2, <1>e DEF Refuse
    <2>3. ASSUME NEW c \in Clients, CreatePending(a, c) PROVE HasJob(a)
      <3>1. row'[c].state # "none"
        BY <2>3 DEF CreatePending, AllCurrent
      <3> QED
        BY <2>3, <3>1, <1>e, <1>w DEF CreatePending, Steps
    <2>4. CASE Probe(a)
      BY <2>4, <1>g DEF Probe, At, Steps
    <2>5. CASE BeginBootstrap(a)
      BY <2>5, <1>g DEF BeginBootstrap, At, Steps
    <2>6. CASE CreateMap(a)
      BY <2>6, <1>g, <1>q DEF CreateMap, At, Steps
    <2>7. CASE VerifyOffered(a)
      BY <2>7, <1>g DEF VerifyOffered, At, Steps
    <2>8. CASE EnableMap(a)
      BY <2>8, <1>g, <1>q DEF EnableMap, Accept, At, Steps
    <2>9. CASE UnhideMap(a)
      BY <2>9, <1>g, <1>q DEF UnhideMap, Accept, At, Steps
    <2>10. CASE VerifyAccepted(a)
      BY <2>10, <1>g DEF VerifyAccepted, At, Steps
    <2>11. CASE Activate(a)
      BY <2>11, <1>g DEF Activate, At, Steps
    <2>12. CASE Respond(a) \/ Throw(a)
      BY <2>12, <1>g, <1>e DEF Respond, Throw, Steps
    <2> QED
      BY <1>1, <2>1, <2>2, <2>3, <2>4, <2>5, <2>6, <2>7, <2>8, <2>9, <2>10, <2>11, <2>12
         DEF Enrolment
  <1>2. ASSUME NEW a \in Actors, Revocation(a) PROVE HasJob(a)
    <2>1. ASSUME NEW c \in Clients, Revoke(a, c) PROVE HasJob(a)
      BY <2>1, <1>r, <1>w DEF Revoke, Steps
    <2>2. CASE RevokeRow(a)
      BY <2>2, <1>g DEF RevokeRow, At, Steps
    <2>3. CASE ResolveTarget(a)
      BY <2>3, <1>g, <1>e DEF ResolveTarget, At, Steps
    <2>4. CASE ListMaps(a)
      BY <2>4, <1>g DEF ListMaps, At, Steps
    <2>5. CASE DeleteMap(a)
      BY <2>5, <1>g DEF DeleteMap, At, Steps
    <2>6. CASE MarkMapRemoved(a)
      BY <2>6, <1>e DEF MarkMapRemoved
    <2>7. CASE GiveUp(a)
      BY <2>7, <1>e DEF GiveUp
    <2> QED
      BY <1>2, <2>1, <2>2, <2>3, <2>4, <2>5, <2>6, <2>7 DEF Revocation
  <1>3. CASE World
    <2>1. CASE Restart
      BY <2>1 DEF Restart, Idle, Working, JobsOK, HasRow, Job, Steps
    <2>2. CASE ~ Restart
      BY <1>3, <2>2, <1>u DEF World, Grow, CheckPolicy, ChangeStanding, Land, Drop, ListForTarget
    <2> QED
      BY <2>1, <2>2
  <1>4. CASE UNCHANGED vars
    BY <1>4, <1>u DEF vars
  <1> QED
    BY <1>1, <1>2, <1>3, <1>4, <1>h DEF Next

\* A request to Radicale, answered or not, keeps maps, late requests and faults in
\* their types.
LEMMA AskTypes ==
    ASSUME RestOK, NEW a \in Actors, job[a].client \in Clients,
           NEW op \in {"create", "enable", "unhide"}, NEW next, Ask(a, op, next)
    PROVE  /\ maps' \in [Clients -> MapStates] /\ late' \subseteq Request
           /\ faults' \in 0 .. MaxFaults
  <1> DEFINE c == job[a].client
  <1>f. MaxFaults \in Nat
    BY ClientConstantsOk
  <1>1. MapAfter(op, maps[c]) \in MapStates
    BY DEF RestOK, MapAfter, MapStates
  <1>2. [op |-> op, client |-> c] \in Request
    BY DEF Request
  <1>3. CASE maps' = [maps EXCEPT ![c] = MapAfter(op, maps[c])] /\ UNCHANGED <<late, faults>>
    BY <1>1, <1>3 DEF RestOK
  <1>4. CASE /\ CanFail /\ CountFault /\ UNCHANGED maps
             /\ late' = late \union {[op |-> op, client |-> c]}
    BY <1>2, <1>4, <1>f DEF RestOK, CanFail, CountFault
  <1> QED
    BY <1>3, <1>4 DEF Ask, RestOK

\* The other variables keep their types.
LEMMA RestMoves ==
    ASSUME TypeInv, [Next]_vars
    PROVE  RestOK'
  <1>t. RestOK /\ HasRow
    BY DEF TypeInv, TypeOK, RestOK
  <1>f. MaxFaults \in Nat
    BY ClientConstantsOk
  <1>u. UNCHANGED <<age, maps, late, standing, activated, revealed, faults>> => RestOK'
    BY <1>t DEF RestOK
  <1>m. \A c \in Clients, op \in {"create", "enable", "unhide", "delete"} :
          MapAfter(op, maps[c]) \in MapStates
    BY <1>t DEF RestOK, MapAfter, MapStates
  <1>1. ASSUME NEW a \in Actors, Enrolment(a) PROVE RestOK'
    <2>1. CASE \/ Create(a) \/ Refuse(a) \/ Probe(a) \/ BeginBootstrap(a)
               \/ VerifyOffered(a) \/ VerifyAccepted(a) \/ Throw(a)
      BY <2>1, <1>u DEF Create, Refuse, Probe, BeginBootstrap, VerifyOffered, VerifyAccepted,
         Throw
    <2>2. ASSUME NEW c \in Clients, CreatePending(a, c) PROVE RestOK'
      BY <2>2, <1>t, <1>f DEF CreatePending, CanFail, CountFault, RestOK
    <2>3. CASE CreateMap(a)
      <3>1. job[a].client \in Clients
        BY <2>3, <1>t DEF CreateMap, At, HasRow
      <3> QED
        BY <2>3, <3>1, <1>t, AskTypes DEF CreateMap, RestOK
    <2>4. CASE EnableMap(a) \/ UnhideMap(a)
      <3>1. job[a].client \in Clients
        BY <2>4, <1>t DEF EnableMap, UnhideMap, Accept, At, HasRow
      <3> QED
        BY <2>4, <3>1, <1>t, AskTypes DEF EnableMap, UnhideMap, Accept, RestOK
    <2>5. CASE Activate(a)
      <3>1. job[a].client \in Clients
        BY <2>5, <1>t DEF Activate, At, HasRow
      <3> QED
        BY <2>5, <3>1, <1>t DEF Activate, RestOK
    <2>6. CASE Respond(a)
      <3>1. job[a].client \in Clients
        BY <2>6, <1>t DEF Respond, At, HasRow
      <3> QED
        BY <2>6, <3>1, <1>t DEF Respond, RestOK
    <2> QED
      BY <1>1, <2>1, <2>2, <2>3, <2>4, <2>5, <2>6 DEF Enrolment
  <1>2. ASSUME NEW a \in Actors, Revocation(a) PROVE RestOK'
    <2>1. CASE \/ \E c \in Clients : Revoke(a, c)
               \/ RevokeRow(a) \/ ResolveTarget(a) \/ ListMaps(a) \/ MarkMapRemoved(a)
      BY <2>1, <1>u DEF Revoke, RevokeRow, ResolveTarget, ListMaps, MarkMapRemoved
    <2>2. CASE DeleteMap(a)
      <3>1. job[a].client \in Clients
        BY <2>2, <1>t DEF DeleteMap, At, HasRow
      <3> QED
        BY <2>2, <3>1, <1>t, <1>m DEF DeleteMap, RestOK
    <2>3. CASE GiveUp(a)
      <3>1. At(a, "delete") => [op |-> "delete", client |-> job[a].client] \in Request
        BY <1>t DEF At, HasRow, Request
      <3>2. late' \subseteq Request
        BY <2>3, <3>1, <1>t DEF GiveUp, RestOK
      <3> QED
        BY <2>3, <3>2, <1>t, <1>f DEF GiveUp, CanFail, CountFault, RestOK
    <2> QED
      BY <1>2, <2>1, <2>2, <2>3 DEF Revocation
  <1>3. CASE World
    <2>1. ASSUME NEW c \in Clients, Grow(c) PROVE RestOK'
      BY <2>1, <1>t DEF Grow, RestOK
    <2>2. ASSUME NEW a \in Actors, ChangeStanding(a) PROVE RestOK'
      BY <2>2, <1>t DEF ChangeStanding, RestOK
    <2>3. ASSUME NEW m \in late, Land(m) PROVE RestOK'
      <3>1. m.client \in Clients /\ m.op \in {"create", "enable", "unhide", "delete"}
        BY <1>t DEF RestOK, Request
      <3> QED
        BY <2>3, <3>1, <1>t, <1>m DEF Land, RestOK
    <2>4. ASSUME NEW m \in late, Drop(m) PROVE RestOK'
      BY <2>4, <1>t DEF Drop, RestOK
    <2>5. CASE Restart
      BY <2>5, <1>t, <1>f DEF Restart, CanFail, CountFault, RestOK
    <2>6. CASE ListForTarget \/ \E c \in Clients : CheckPolicy(c)
      BY <2>6, <1>u DEF ListForTarget, CheckPolicy
    <2> QED
      BY <1>3, <2>1, <2>2, <2>3, <2>4, <2>5, <2>6 DEF World
  <1>4. CASE UNCHANGED vars
    BY <1>4, <1>u DEF vars
  <1> QED
    BY <1>1, <1>2, <1>3, <1>4 DEF Next

\* Nothing is under way in the beginning.
LEMMA InitTypeInv == Init => TypeInv
  <1> SUFFICES ASSUME Init PROVE TypeInv
    OBVIOUS
  <1>1. MaxFaults \in Nat
    BY ClientConstantsOk
  <1>2. RowsOK
    BY DEF Init, RowsOK, NoRow, Row, Shape
  <1>3. JobsOK /\ HasRow
    BY DEF Init, JobsOK, HasRow, Job, Idle, Working, Steps
  <1>4. RestOK
    BY <1>1 DEF Init, RestOK, MapStates
  <1> QED
    BY <1>2, <1>3, <1>4 DEF TypeInv, TypeOK, RowsOK, JobsOK, Job, RestOK

\* The type invariant is inductive.
LEMMA TypeInvariant == Spec => []TypeInv
  <1>1. TypeInv /\ [Next]_vars => TypeInv'
    <2> SUFFICES ASSUME TypeInv, [Next]_vars PROVE TypeInv'
      OBVIOUS
    <2>1. RowsOK'
      BY RowsMove DEF RowMoves, RowStep, RowsOK
    <2> QED
      BY <2>1, JobsMove, RestMoves DEF TypeInv, TypeOK, RowsOK, JobsOK, Job, RestOK
  <1> QED
    BY <1>1, InitTypeInv, PTL DEF Spec

\* Every statement of the store leaves rows the table allows, and the variables
\* have their types.
THEOREM TypeCorrect == Spec => []TypeOK
  <1>1. TypeInv => TypeOK
    BY DEF TypeInv
  <1> QED
    BY <1>1, TypeInvariant, PTL

\* A revoked row is a tombstone, in every interleaving and after every fault.
THEOREM TombstonesStay == Spec => RevokedIsTerminal
  <1>1. TypeInv /\ [Next]_vars =>
          [\A c \in Clients : row[c].state = "revoked" =>
             /\ row'[c].state = "revoked"
             /\ row[c].map = "removed" => row'[c].map = "removed"]_vars
    BY RowsMove DEF RowMoves, RowStep
  <1> QED
    BY <1>1, TypeInvariant, PTL DEF Spec, RevokedIsTerminal

-----------------------------------------------------------------------------
(* Maps.                                                                    *)

\* What the answers of Radicale make of an accepted map: nothing, if nobody deletes it.
LEMMA AcceptedStays ==
    ASSUME NEW op, op # "delete"
    PROVE  MapAfter(op, "accepted") = "accepted"
  BY DEF MapAfter

\* Only what is revoked loses its map.
LEMMA MapsKept ==
    ASSUME TypeInv, CleansRevoked, [Next]_vars
    PROVE  \A c \in Clients :
             maps[c] = "accepted" => maps'[c] = "accepted" \/ row[c].state = "revoked"
  <1> DEFINE Kept == \A c \in Clients :
                maps[c] = "accepted" => maps'[c] = "accepted" \/ row[c].state = "revoked"
  <1>t. RestOK /\ HasRow
    BY DEF TypeInv, TypeOK, RestOK
  <1>u. UNCHANGED maps => Kept
    OBVIOUS
  <1>q. ASSUME NEW a \in Actors, NEW op \in {"create", "enable", "unhide"}, NEW next,
               Ask(a, op, next)
        PROVE  Kept
    BY <1>q, <1>t, AcceptedStays DEF Ask, RestOK
  <1>1. ASSUME NEW a \in Actors, Enrolment(a) PROVE Kept
    <2>1. CASE CreateMap(a)
      BY <2>1, <1>q, <1>u DEF CreateMap
    <2>2. CASE EnableMap(a) \/ UnhideMap(a)
      BY <2>2, <1>q, <1>u DEF EnableMap, UnhideMap, Accept
    <2>3. CASE ~ (CreateMap(a) \/ EnableMap(a) \/ UnhideMap(a))
      BY <1>1, <2>3, <1>u DEF Enrolment, Create, Refuse, CreatePending, Probe, BeginBootstrap,
         VerifyOffered, VerifyAccepted, Activate, Respond, Throw
    <2> QED
      BY <2>1, <2>2, <2>3
  <1>2. ASSUME NEW a \in Actors, Revocation(a) PROVE Kept
    <2>1. CASE DeleteMap(a)
      <3>1. job[a].client \in Clients /\ row[job[a].client].state = "revoked"
        BY <2>1, <1>t DEF DeleteMap, At, HasRow, CleansRevoked, CleanupSteps
      <3> QED
        BY <2>1, <3>1, <1>t DEF DeleteMap, RestOK
    <2>2. CASE ~ DeleteMap(a)
      BY <1>2, <2>2, <1>u DEF Revocation, Revoke, RevokeRow, ResolveTarget, ListMaps,
         MarkMapRemoved, GiveUp
    <2> QED
      BY <2>1, <2>2
  <1>3. CASE World
    <2>1. ASSUME NEW m \in late, Land(m) PROVE Kept
      <3>1. m.client \in Clients
        BY <1>t DEF RestOK, Request
      <3>2. CASE m.op = "delete"
        BY <2>1, <3>1, <3>2, <1>t DEF Land, CleansRevoked, RestOK
      <3>3. CASE m.op # "delete"
        BY <2>1, <3>1, <3>3, <1>t, AcceptedStays DEF Land, RestOK
      <3> QED
        BY <3>2, <3>3
    <2>2. CASE ~ \E m \in late : Land(m)
      BY <1>3, <2>2, <1>u DEF World, Grow, CheckPolicy, ChangeStanding, Drop, ListForTarget,
         Restart
    <2> QED
      BY <2>1, <2>2
  <1>4. CASE UNCHANGED vars
    BY <1>4, <1>u DEF vars
  <1> QED
    BY <1>1, <1>2, <1>3, <1>4 DEF Next

\* An operation that goes on to clean up has revoked the row; one that goes on to
\* activate has just seen the map.
Advances(a) ==
    /\ job'[a].step \in CleanupSteps =>
         \/ job[a].step \in CleanupSteps /\ job'[a].client = job[a].client
         \/ row'[job'[a].client].state = "revoked"
    /\ job'[a].step = "activate" =>
         \/ job'[a] = job[a]
         \/ maps[job'[a].client] = "accepted" /\ UNCHANGED maps

\* Every job advances that way.
LEMMA JobsAdvance ==
    ASSUME TypeInv, [Next]_vars
    PROVE  \A a \in Actors : Advances(a)
  <1>t. TypeOK /\ RestOK /\ JobsOK /\ HasRow
    BY DEF TypeInv, TypeOK, RestOK, JobsOK, Job
  <1>s. \A a \in Actors : job'[a] = job[a] => Advances(a)
    BY DEF Advances
  <1>g. ASSUME NEW a \in Actors, NEW s \in Steps \ (CleanupSteps \union {"activate"}),
               Goto(a, s)
        PROVE  \A b \in Actors : Advances(b)
    BY <1>g, <1>s, <1>t, GotoStep DEF Advances
  <1>c. ASSUME NEW a \in Actors, NEW s \in CleanupSteps, Goto(a, s),
               job[a].step \in CleanupSteps
        PROVE  \A b \in Actors : Advances(b)
    BY <1>c, <1>s, <1>t, GotoStep DEF Advances, CleanupSteps, Steps
  <1>e. ASSUME NEW a \in Actors, Return(a)
        PROVE  \A b \in Actors : Advances(b)
    BY <1>e, <1>s, <1>t, ReturnStep DEF Advances, CleanupSteps
  <1>q. ASSUME NEW a \in Actors, NEW op,
               NEW s \in Steps \ (CleanupSteps \union {"activate"}), Ask(a, op, s)
        PROVE  \A b \in Actors : Advances(b)
    <2>1. PICK r \in Steps \ (CleanupSteps \union {"activate"}) :
            job' = [job EXCEPT ![a] = Working(r, job[a].client)]
      BY <1>q DEF Ask, Steps, CleanupSteps
    <2>2. Working(r, job[a].client) \in Job /\ Working(r, job[a].client).step = r
      BY <1>t DEF Job, JobsOK, Working
    <2> QED
      BY <2>1, <2>2, <1>s, <1>t, JobStep DEF Advances
  <1>w. ASSUME NEW a \in Actors, NEW c \in Clients,
               NEW s \in Steps \ (CleanupSteps \union {"activate"}),
               job' = [job EXCEPT ![a] = Working(s, c)]
        PROVE  \A b \in Actors : Advances(b)
    <2>1. Working(s, c) \in Job /\ Working(s, c).step = s
      BY DEF Working, Job
    <2> QED
      BY <1>w, <1>s, <1>t, <2>1, JobStep DEF Advances
  <1>u. UNCHANGED job => \A b \in Actors : Advances(b)
    BY <1>s
  <1>1. ASSUME NEW a \in Actors, Enrolment(a) PROVE \A b \in Actors : Advances(b)
    <2>1. CASE Create(a) \/ Probe(a) \/ BeginBootstrap(a) \/ VerifyOffered(a) \/ Throw(a)
      BY <2>1, <1>g DEF Create, Probe, BeginBootstrap, VerifyOffered, Throw, Steps, CleanupSteps
    <2>2. CASE Refuse(a)
      BY <2>2, <1>e DEF Refuse
    <2>3. ASSUME NEW c \in Clients, CreatePending(a, c) PROVE \A b \in Actors : Advances(b)
      BY <2>3, <1>e, <1>w DEF CreatePending, Steps, CleanupSteps
    <2>4. CASE CreateMap(a)
      BY <2>4, <1>g, <1>q DEF CreateMap, Steps, CleanupSteps
    <2>5. CASE EnableMap(a) \/ UnhideMap(a)
      BY <2>5, <1>g, <1>q DEF EnableMap, UnhideMap, Accept, Steps, CleanupSteps
    <2>6. CASE VerifyAccepted(a)
      <3>1. CASE maps[job[a].client] = "accepted"
        BY <2>6, <3>1, <1>s, <1>t, GotoStep DEF VerifyAccepted, Advances, CleanupSteps, Steps
      <3>2. CASE maps[job[a].client] # "accepted"
        BY <2>6, <3>2, <1>g DEF VerifyAccepted, CleanupSteps, Steps
      <3> QED
        BY <3>1, <3>2
    <2>7. CASE Activate(a) \/ Respond(a)
      BY <2>7, <1>g, <1>e DEF Activate, Respond, Steps, CleanupSteps
    <2> QED
      BY <1>1, <2>1, <2>2, <2>3, <2>4, <2>5, <2>6, <2>7 DEF Enrolment
  <1>2. ASSUME NEW a \in Actors, Revocation(a) PROVE \A b \in Actors : Advances(b)
    <2>1. ASSUME NEW c \in Clients, Revoke(a, c) PROVE \A b \in Actors : Advances(b)
      BY <2>1, <1>w DEF Revoke, Steps, CleanupSteps
    <2>2. CASE RevokeRow(a)
      <3>1. row[job[a].client].state # "none" /\ job[a].client \in Clients
        BY <2>2, <1>t DEF RevokeRow, At, HasRow
      <3>2. row'[job[a].client].state = "revoked"
        BY <2>2, <3>1, <1>t, RevokedRowStep DEF RevokeRow
      <3>3. PICK s \in CleanupSteps : Goto(a, s)
        BY <2>2 DEF RevokeRow, CleanupSteps
      <3>4. s \in Steps
        BY DEF CleanupSteps, Steps
      <3> QED
        BY <3>2, <3>3, <3>4, <1>s, <1>t, GotoStep DEF Advances, CleanupSteps
    <2>3. CASE ResolveTarget(a) \/ ListMaps(a) \/ DeleteMap(a)
      BY <2>3, <1>c, <1>e DEF ResolveTarget, ListMaps, DeleteMap, At, CleanupSteps
    <2>4. CASE MarkMapRemoved(a) \/ GiveUp(a)
      BY <2>4, <1>e DEF MarkMapRemoved, GiveUp
    <2> QED
      BY <1>2, <2>1, <2>2, <2>3, <2>4 DEF Revocation
  <1>3. CASE World
    <2>1. CASE Restart
      BY <2>1 DEF Restart, Idle, Working, Advances, CleanupSteps
    <2>2. CASE ~ Restart
      BY <1>3, <2>2, <1>u DEF World, Grow, CheckPolicy, ChangeStanding, Land, Drop, ListForTarget
    <2> QED
      BY <2>1, <2>2
  <1>4. CASE UNCHANGED vars
    BY <1>4, <1>u DEF vars
  <1> QED
    BY <1>1, <1>2, <1>3, <1>4 DEF Next

\* A late deletion is one of a cleanup.
LEMMA LateDeletions ==
    ASSUME TypeInv, CleansRevoked, [Next]_vars
    PROVE  \A m \in late' : m.op = "delete" => row[m.client].state = "revoked"
  <1> DEFINE Goal == \A m \in late' : m.op = "delete" => row[m.client].state = "revoked"
  <1>u. late' \subseteq late => Goal
    BY DEF CleansRevoked
  <1>q. ASSUME NEW a \in Actors, NEW op \in {"create", "enable", "unhide"}, NEW next,
               Ask(a, op, next)
        PROVE  Goal
    BY <1>q DEF Ask, CleansRevoked
  <1>1. ASSUME NEW a \in Actors, Enrolment(a) PROVE Goal
    <2>1. CASE CreateMap(a) \/ EnableMap(a) \/ UnhideMap(a)
      BY <2>1, <1>q, <1>u DEF CreateMap, EnableMap, UnhideMap, Accept
    <2>2. CASE ~ (CreateMap(a) \/ EnableMap(a) \/ UnhideMap(a))
      BY <1>1, <2>2, <1>u DEF Enrolment, Create, Refuse, CreatePending, Probe, BeginBootstrap,
         VerifyOffered, VerifyAccepted, Activate, Respond, Throw
    <2> QED
      BY <2>1, <2>2
  <1>2. ASSUME NEW a \in Actors, Revocation(a) PROVE Goal
    <2>1. CASE GiveUp(a)
      <3>1. At(a, "delete") => row[job[a].client].state = "revoked"
        BY DEF At, CleansRevoked, CleanupSteps
      <3> QED
        BY <2>1, <3>1, <1>u DEF GiveUp, CleansRevoked
    <2>2. CASE ~ GiveUp(a)
      BY <1>2, <2>2, <1>u DEF Revocation, Revoke, RevokeRow, ResolveTarget, ListMaps,
         DeleteMap, MarkMapRemoved
    <2> QED
      BY <2>1, <2>2
  <1>3. CASE World
    BY <1>3, <1>u DEF World, Grow, CheckPolicy, ChangeStanding, Land, Drop, ListForTarget, Restart
  <1>4. CASE UNCHANGED vars
    BY <1>4, <1>u DEF vars
  <1> QED
    BY <1>1, <1>2, <1>3, <1>4 DEF Next

\* A client becomes active by the statement at the end of its enrolment.
LEMMA Activations ==
    ASSUME TypeInv, AboutToActivate, [Next]_vars
    PROVE  \A c \in Clients : row'[c].state = "active" =>
             row[c].state = "active" \/ (maps[c] = "accepted" /\ UNCHANGED maps)
  <1> DEFINE Goal == \A c \in Clients : row'[c].state = "active" =>
                row[c].state = "active" \/ (maps[c] = "accepted" /\ UNCHANGED maps)
  <1>t. RowsOK /\ HasRow
    BY DEF TypeInv, TypeOK, RowsOK
  <1>u. UNCHANGED row => Goal
    OBVIOUS
  <1>c. \A c \in Clients : Current(c).state = "active" => row[c].state = "active"
    BY CurrentStep DEF TypeInv
  <1>k. \A c \in Clients : Checked(c).state = "active" => row[c].state = "active"
    BY CheckedStep DEF TypeInv
  <1>i. \A c \in Clients :
          /\ RowIn(c, "pending", "bootstrap").state = "pending"
          /\ RowIn(c, "revoked", "removed").state = "revoked"
    BY DEF RowIn
  <1>1. ASSUME NEW a \in Actors, Enrolment(a) PROVE Goal
    <2>1. CASE Refuse(a)
      BY <2>1, <1>c DEF Refuse, AllCurrent
    <2>2. ASSUME NEW c \in Clients, CreatePending(a, c) PROVE Goal
      BY <2>2, <1>c DEF CreatePending, AllCurrent
    <2>3. CASE BeginBootstrap(a)
      BY <2>3, <1>t, <1>i DEF BeginBootstrap, RowsOK, At, HasRow
    <2>4. CASE EnableMap(a) \/ UnhideMap(a)
      BY <2>4, <1>t, <1>k DEF EnableMap, UnhideMap, Accept, RowsOK
    <2>5. CASE Activate(a)
      <3>1. MayActivate(job[a].client) => maps[job[a].client] = "accepted"
        BY <2>5 DEF Activate, At, AboutToActivate, MayActivate
      <3> QED
        BY <2>5, <3>1, <1>t DEF Activate, RowsOK
    <2>6. CASE \/ Create(a) \/ Probe(a) \/ CreateMap(a) \/ VerifyOffered(a)
               \/ VerifyAccepted(a) \/ Respond(a) \/ Throw(a)
      BY <2>6, <1>u DEF Create, Probe, CreateMap, VerifyOffered, VerifyAccepted, Respond, Throw
    <2> QED
      BY <1>1, <2>1, <2>2, <2>3, <2>4, <2>5, <2>6 DEF Enrolment
  <1>2. ASSUME NEW a \in Actors, Revocation(a) PROVE Goal
    <2>1. ASSUME NEW c \in Clients, Revoke(a, c) PROVE Goal
      BY <2>1, <1>c, <1>t DEF Revoke, RowsOK
    <2>2. CASE RevokeRow(a)
      <3>1. job[a].client \in Clients /\ row[job[a].client].state # "none"
        BY <2>2, <1>t DEF RevokeRow, At, HasRow
      <3>2. /\ RevokedRow(job[a].client)[job[a].client].state = "revoked"
            /\ RevokedRow(job[a].client) =
                 [row EXCEPT ![job[a].client] = RevokedRow(job[a].client)[job[a].client]]
        BY <3>1, RevokedRowStep DEF TypeInv
      <3> QED
        BY <2>2, <3>1, <3>2, <1>t DEF RevokeRow, RowsOK
    <2>3. CASE MarkMapRemoved(a)
      BY <2>3, <1>t, <1>i DEF MarkMapRemoved, RowsOK
    <2>4. CASE ResolveTarget(a) \/ ListMaps(a) \/ DeleteMap(a) \/ GiveUp(a)
      BY <2>4, <1>u DEF ResolveTarget, ListMaps, DeleteMap, GiveUp
    <2> QED
      BY <1>2, <2>1, <2>2, <2>3, <2>4 DEF Revocation
  <1>3. CASE World
    <2>1. CASE ListForTarget
      BY <2>1, <1>c DEF ListForTarget, AllCurrent
    <2>2. ASSUME NEW c \in Clients, CheckPolicy(c) PROVE Goal
      BY <2>2, <1>k, <1>t DEF CheckPolicy, RowsOK
    <2>3. CASE ~ (ListForTarget \/ \E c \in Clients : CheckPolicy(c))
      BY <1>3, <2>3, <1>u DEF World, Grow, ChangeStanding, Land, Drop, Restart
    <2> QED
      BY <2>1, <2>2, <2>3
  <1>4. CASE UNCHANGED vars
    BY <1>4, <1>u DEF vars
  <1> QED
    BY <1>1, <1>2, <1>3, <1>4 DEF Next

\* The four lemmas together: the invariant of maps is inductive.
LEMMA MapInvInductive == TypeInv /\ MapInv /\ [Next]_vars => MapInv'
  <1> SUFFICES ASSUME TypeInv, MapInv, [Next]_vars PROVE MapInv'
    OBVIOUS
  <1>t. RestOK /\ HasRow /\ HasRow' /\ RestOK'
    BY JobsMove, RestMoves DEF TypeInv, TypeOK, RestOK
  <1>i. CleansRevoked /\ AboutToActivate /\ ActiveHasItsMap
    BY DEF MapInv
  <1>r. \A c \in Clients : row[c].state = "revoked" => row'[c].state = "revoked"
    BY RowsMove DEF RowMoves, RowStep
  <1>m. \A c \in Clients :
          maps[c] = "accepted" => maps'[c] = "accepted" \/ row'[c].state = "revoked"
    BY <1>i, <1>r, MapsKept
  <1>d. \A a \in Actors : job[a].step \in CleanupSteps \union {"activate"} =>
          job[a].client \in Clients
    BY <1>t DEF HasRow, CleanupSteps
  <1>e. \A a \in Actors : job'[a].step \in CleanupSteps \union {"activate"} =>
          job'[a].client \in Clients
    BY <1>t DEF HasRow, CleanupSteps
  <1>1. CleansRevoked'
    <2>1. \A a \in Actors : job'[a].step \in CleanupSteps =>
            row'[job'[a].client].state = "revoked"
      BY <1>i, <1>r, <1>d, JobsAdvance DEF Advances, CleansRevoked
    <2>2. \A m \in late' : m.op = "delete" => row'[m.client].state = "revoked"
      BY <1>i, <1>r, <1>t, LateDeletions DEF RestOK, Request
    <2> QED
      BY <2>1, <2>2 DEF CleansRevoked
  <1>2. AboutToActivate'
    <2> SUFFICES ASSUME NEW a \in Actors, job'[a].step = "activate"
                 PROVE  \/ maps'[job'[a].client] = "accepted"
                        \/ row'[job'[a].client].state = "revoked"
      BY DEF AboutToActivate
    <2>1. CASE job'[a] = job[a]
      BY <2>1, <1>i, <1>r, <1>m, <1>d DEF AboutToActivate
    <2>2. CASE job'[a] # job[a]
      BY <2>2, JobsAdvance DEF Advances
    <2> QED
      BY <2>1, <2>2
  <1>3. ActiveHasItsMap'
    <2> SUFFICES ASSUME NEW c \in Clients, row'[c].state = "active"
                 PROVE  maps'[c] = "accepted"
      BY DEF ActiveHasItsMap
    <2>1. CASE row[c].state = "active"
      BY <2>1, <1>i, <1>m DEF ActiveHasItsMap
    <2>2. CASE row[c].state # "active"
      BY <2>2, <1>i, Activations
    <2> QED
      BY <2>1, <2>2
  <1> QED
    BY <1>1, <1>2, <1>3 DEF MapInv

\* An active client has the map its enrolment verified, whatever other managers and
\* late requests do.
THEOREM ActiveClientHasItsMap == Spec => []ActiveHasItsMap
  <1>1. Init => MapInv
    BY DEF Init, MapInv, CleansRevoked, AboutToActivate, ActiveHasItsMap, Idle, Working,
       CleanupSteps, NoRow
  <1>2. MapInv => ActiveHasItsMap
    BY DEF MapInv
  <1> QED
    BY <1>1, <1>2, MapInvInductive, TypeInvariant, PTL DEF Spec

-----------------------------------------------------------------------------
(* Bootstrap.                                                               *)

\* A row never returns from revoked to a state before its bootstrap.
LEMMA RevokedIsPast ==
    ASSUME TypeInv, NEW c \in Clients, row[c].state = "revoked"
    PROVE  Past(c)
  BY DEF TypeInv, TypeOK, Shape, Past

\* A map comes into being, and a request is late, beyond bootstrap only.
LEMMA RequestsPast ==
    ASSUME TypeInv, CleansRevoked, AsksPastBootstrap, [Next]_vars
    PROVE  /\ \A c \in Clients : maps'[c] # "absent" => maps[c] # "absent" \/ Past(c)
           /\ \A m \in late' : Past(m.client)
  <1> DEFINE Goal ==
        /\ \A c \in Clients : maps'[c] # "absent" => maps[c] # "absent" \/ Past(c)
        /\ \A m \in late' : Past(m.client)
  <1>t. RestOK /\ HasRow
    BY DEF TypeInv, TypeOK, RestOK
  <1>l. \A m \in late : Past(m.client)
    BY DEF AsksPastBootstrap
  <1>u. UNCHANGED maps /\ late' \subseteq late => Goal
    BY <1>l
  <1>q. ASSUME NEW a \in Actors, NEW op, NEW next, job[a].step \in MapSteps, Ask(a, op, next)
        PROVE  Goal
    <2>1. Past(job[a].client)
      BY <1>q DEF AsksPastBootstrap
    <2> QED
      BY <1>q, <2>1, <1>t, <1>l DEF Ask, RestOK
  <1>1. ASSUME NEW a \in Actors, Enrolment(a) PROVE Goal
    <2>1. CASE CreateMap(a)
      BY <2>1, <1>q, <1>u DEF CreateMap, At, MapSteps
    <2>2. CASE EnableMap(a) \/ UnhideMap(a)
      BY <2>2, <1>q, <1>u DEF EnableMap, UnhideMap, Accept, At, MapSteps
    <2>3. CASE ~ (CreateMap(a) \/ EnableMap(a) \/ UnhideMap(a))
      BY <1>1, <2>3, <1>u DEF Enrolment, Create, Refuse, CreatePending, Probe, BeginBootstrap,
         VerifyOffered, VerifyAccepted, Activate, Respond, Throw
    <2> QED
      BY <2>1, <2>2, <2>3
  <1>2. ASSUME NEW a \in Actors, Revocation(a) PROVE Goal
    <2>1. CASE DeleteMap(a)
      BY <2>1, <1>t, <1>l DEF DeleteMap, RestOK, MapAfter
    <2>2. CASE GiveUp(a)
      <3>1. At(a, "delete") => Past(job[a].client)
        BY <1>t, RevokedIsPast DEF At, CleansRevoked, CleanupSteps, HasRow
      <3> QED
        BY <2>2, <3>1, <1>u, <1>l DEF GiveUp
    <2>3. CASE ~ (DeleteMap(a) \/ GiveUp(a))
      BY <1>2, <2>3, <1>u DEF Revocation, Revoke, RevokeRow, ResolveTarget, ListMaps,
         MarkMapRemoved
    <2> QED
      BY <2>1, <2>2, <2>3
  <1>3. CASE World
    <2>1. ASSUME NEW m \in late, Land(m) PROVE Goal
      BY <2>1, <1>t, <1>l DEF Land, RestOK
    <2>2. CASE ~ \E m \in late : Land(m)
      BY <1>3, <2>2, <1>u DEF World, Grow, CheckPolicy, ChangeStanding, Drop, ListForTarget,
         Restart
    <2> QED
      BY <2>1, <2>2
  <1>4. CASE UNCHANGED vars
    BY <1>4, <1>u DEF vars
  <1> QED
    BY <1>1, <1>2, <1>3, <1>4 DEF Next

\* An operation comes to the requests about its map through bootstrap.
Asks(a) ==
    job'[a].step \in MapSteps =>
        \/ job[a].step \in MapSteps /\ job'[a].client = job[a].client
        \/ row'[job'[a].client].map = "bootstrap"

\* Every job does.
LEMMA JobsAsk ==
    ASSUME TypeInv, [Next]_vars
    PROVE  \A a \in Actors : Asks(a)
  <1> DEFINE Goal == \A a \in Actors : Asks(a)
  <1>t. TypeOK /\ JobsOK /\ HasRow
    BY DEF TypeInv, TypeOK, JobsOK, Job
  <1>s. \A a \in Actors : job'[a] = job[a] => Asks(a)
    BY DEF Asks
  <1>g. ASSUME NEW a \in Actors, NEW s \in Steps, Goto(a, s),
               job[a].step \in MapSteps \/ s \notin MapSteps
        PROVE  Goal
    BY <1>g, <1>s, <1>t, GotoStep DEF Asks
  <1>e. ASSUME NEW a \in Actors, Return(a) PROVE Goal
    BY <1>e, <1>s, <1>t, ReturnStep DEF Asks, MapSteps
  <1>q. ASSUME NEW a \in Actors, NEW op, NEW s \in Steps, Ask(a, op, s),
               job[a].step \in MapSteps
        PROVE  Goal
    BY <1>q, <1>s, <1>t, AskStep DEF Asks
  <1>w. ASSUME NEW a \in Actors, NEW c \in Clients, NEW s \in Steps \ MapSteps,
               job' = [job EXCEPT ![a] = Working(s, c)]
        PROVE  Goal
    <2>1. Working(s, c) \in Job /\ Working(s, c).step = s
      BY DEF Working, Job
    <2> QED
      BY <1>w, <1>s, <1>t, <2>1, JobStep DEF Asks
  <1>1. ASSUME NEW a \in Actors, Enrolment(a) PROVE Goal
    <2>1. CASE Create(a) \/ Probe(a)
      BY <2>1, <1>g DEF Create, Probe, Steps, MapSteps
    <2>2. CASE Refuse(a)
      BY <2>2, <1>e DEF Refuse
    <2>3. ASSUME NEW c \in Clients, CreatePending(a, c) PROVE Goal
      BY <2>3, <1>e, <1>w DEF CreatePending, Steps, MapSteps
    <2>4. CASE BeginBootstrap(a)
      <3>1. job[a].client \in Clients
        BY <2>4, <1>t DEF BeginBootstrap, At, HasRow
      <3>2. CASE Goto(a, "withdraw")
        BY <3>2, <1>g DEF Steps, MapSteps
      <3>3. CASE /\ Goto(a, "create")
                 /\ row' = [row EXCEPT ![job[a].client] =
                              RowIn(job[a].client, "pending", "bootstrap")]
        <4>1. row'[job[a].client].map = "bootstrap"
          BY <3>1, <3>3, <1>t DEF RowIn, TypeOK
        <4> QED
          BY <3>3, <4>1, <1>s, <1>t, GotoStep DEF Asks, Steps
      <3> QED
        BY <2>4, <3>2, <3>3 DEF BeginBootstrap
    <2>5. CASE CreateMap(a)
      BY <2>5, <1>g, <1>q DEF CreateMap, At, Steps, MapSteps
    <2>6. CASE EnableMap(a) \/ UnhideMap(a)
      BY <2>6, <1>g, <1>q DEF EnableMap, UnhideMap, Accept, At, Steps, MapSteps
    <2>7. CASE VerifyOffered(a) \/ VerifyAccepted(a)
      BY <2>7, <1>g DEF VerifyOffered, VerifyAccepted, At, Steps, MapSteps
    <2>8. CASE Activate(a) \/ Respond(a) \/ Throw(a)
      BY <2>8, <1>g, <1>e DEF Activate, Respond, Throw, Steps, MapSteps
    <2> QED
      BY <1>1, <2>1, <2>2, <2>3, <2>4, <2>5, <2>6, <2>7, <2>8 DEF Enrolment
  <1>2. ASSUME NEW a \in Actors, Revocation(a) PROVE Goal
    <2>1. ASSUME NEW c \in Clients, Revoke(a, c) PROVE Goal
      BY <2>1, <1>w DEF Revoke, Steps, MapSteps
    <2>2. CASE \/ RevokeRow(a) \/ ResolveTarget(a) \/ ListMaps(a) \/ DeleteMap(a)
               \/ MarkMapRemoved(a) \/ GiveUp(a)
      BY <2>2, <1>g, <1>e DEF RevokeRow, ResolveTarget, ListMaps, DeleteMap, MarkMapRemoved,
         GiveUp, Steps, MapSteps
    <2> QED
      BY <1>2, <2>1, <2>2 DEF Revocation
  <1>3. CASE World
    <2>1. CASE Restart
      BY <2>1 DEF Restart, Idle, Working, Asks, MapSteps
    <2>2. CASE ~ Restart
      BY <1>3, <2>2, <1>s DEF World, Grow, CheckPolicy, ChangeStanding, Land, Drop, ListForTarget
    <2> QED
      BY <2>1, <2>2
  <1>4. CASE UNCHANGED vars
    BY <1>4, <1>s DEF vars
  <1> QED
    BY <1>1, <1>2, <1>3, <1>4 DEF Next

\* The invariant of bootstrap is inductive beside that of maps.
LEMMA BootInvInductive == TypeInv /\ MapInv /\ BootInv /\ [Next]_vars => BootInv'
  <1> SUFFICES ASSUME TypeInv, MapInv, BootInv, [Next]_vars PROVE BootInv'
    OBVIOUS
  <1>t. HasRow /\ HasRow' /\ RestOK'
    BY JobsMove, RestMoves DEF TypeInv
  <1>i. CleansRevoked /\ AsksPastBootstrap /\ NoMapBeforeBootstrap
    BY DEF MapInv, BootInv
  <1>r. \A c \in Clients : Past(c) => Past(c)'
    BY RowsMove DEF RowMoves, RowStep, Past
  <1>1. NoMapBeforeBootstrap'
    BY <1>i, <1>r, RequestsPast DEF NoMapBeforeBootstrap, Past
  <1>2. AsksPastBootstrap'
    <2>1. \A m \in late' : Past(m.client)'
      BY <1>i, <1>r, <1>t, RequestsPast DEF RestOK, Request
    <2>2. ASSUME NEW a \in Actors, job'[a].step \in MapSteps PROVE Past(job[a].client)'
      <3>1. job'[a].client \in Clients /\ row'[job'[a].client].state # "none"
        BY <2>2, <1>t DEF HasRow, MapSteps
      <3>2. CASE job[a].step \in MapSteps /\ job'[a].client = job[a].client
        BY <3>1, <3>2, <1>i, <1>r DEF AsksPastBootstrap, Past
      <3>3. CASE row'[job'[a].client].map = "bootstrap"
        BY <3>1, <3>3 DEF Past
      <3> QED
        BY <2>2, <3>2, <3>3, JobsAsk DEF Asks
    <2> QED
      BY <2>1, <2>2 DEF AsksPastBootstrap
  <1> QED
    BY <1>1, <1>2 DEF BootInv

\* Radicale has no map of a client, not even from a late request, whose row has not
\* gone to bootstrap.
THEOREM MapsAreBootstrapped == Spec => []NoMapBeforeBootstrap
  <1>1. Init => MapInv
    BY DEF Init, MapInv, CleansRevoked, AboutToActivate, ActiveHasItsMap, Idle, Working,
       CleanupSteps, NoRow
  <1>2. Init => BootInv
    BY DEF Init, BootInv, NoMapBeforeBootstrap, AsksPastBootstrap, Idle, Working, MapSteps
  <1>3. BootInv => NoMapBeforeBootstrap
    BY DEF BootInv
  <1> QED
    BY <1>1, <1>2, <1>3, MapInvInductive, BootInvInductive, TypeInvariant, PTL DEF Spec

-----------------------------------------------------------------------------
(* Secrets.                                                                 *)

\* An enrolment begins with an app ID nobody uses, and shows the secret at its end,
\* after the statement that activated the client.
Enrols(a) ==
    /\ job'[a].step \in EnrolSteps =>
         /\ UNCHANGED revealed
         /\ \/ job[a].step \in EnrolSteps /\ job'[a].client = job[a].client
            \/ row[job'[a].client].state = "none"
    /\ job'[a].step \in {"idle", "insert"} => job'[a].client = NoClient
    /\ job'[a].step = "respond" => job'[a].client \in activated'
    /\ revealed' # revealed =>
         /\ job[a].step = "respond" /\ job'[a].step = "idle"
         /\ revealed' = revealed \union {job[a].client}

OnlyJobOf(a) == \A b \in Actors \ {a} : job'[b] = job[b]

\* One job moves at a time, and it does so, or the process restarts.
LEMMA JobsEnrol ==
    ASSUME TypeInv, IdleHasNone, [Next]_vars
    PROVE  \/ UNCHANGED <<job, revealed>>
           \/ UNCHANGED revealed /\ \A a \in Actors : job'[a] = Idle
           \/ \E a \in Actors : OnlyJobOf(a) /\ Enrols(a)
  <1> DEFINE Goal(a) == OnlyJobOf(a) /\ Enrols(a)
  <1>t. TypeOK /\ JobsOK /\ HasRow
    BY DEF TypeInv, TypeOK, JobsOK, Job
  <1>g. ASSUME NEW a \in Actors, NEW s \in Steps, Goto(a, s), UNCHANGED revealed,
               s \in EnrolSteps => job[a].step \in EnrolSteps,
               s \in {"idle", "insert"} => job[a].step \in {"idle", "insert"},
               s # "respond"
        PROVE  Goal(a)
    BY <1>g, <1>t, GotoStep DEF OnlyJobOf, Enrols, IdleHasNone
  <1>e. ASSUME NEW a \in Actors, Return(a), UNCHANGED revealed PROVE Goal(a)
    BY <1>e, <1>t DEF Return, Idle, Working, JobsOK, OnlyJobOf, Enrols, EnrolSteps
  <1>q. ASSUME NEW a \in Actors, NEW op, NEW s \in EnrolSteps \ {"respond"},
               Ask(a, op, s), UNCHANGED revealed, job[a].step \in EnrolSteps
        PROVE  Goal(a)
    <2>1. PICK r \in EnrolSteps \ {"respond"} : job' = [job EXCEPT ![a] = Working(r, job[a].client)]
      BY <1>q DEF Ask, EnrolSteps
    <2>2. /\ Working(r, job[a].client) \in Job /\ Working(r, job[a].client).step = r
          /\ Working(r, job[a].client).client = job[a].client
      BY <1>t DEF Job, JobsOK, Working, EnrolSteps, Steps
    <2>3. r \notin {"idle", "insert"}
      BY DEF EnrolSteps
    <2> QED
      BY <2>1, <2>2, <2>3, <1>q, <1>t, JobStep DEF OnlyJobOf, Enrols
  <1>w. ASSUME NEW a \in Actors, NEW c \in Clients, NEW s \in Steps \ {"idle", "insert", "respond"},
               job' = [job EXCEPT ![a] = Working(s, c)], UNCHANGED revealed,
               s \in EnrolSteps => row[c].state = "none"
        PROVE  Goal(a)
    <2>1. Working(s, c) \in Job /\ Working(s, c).step = s /\ Working(s, c).client = c
      BY DEF Working, Job
    <2>2. job'[a] = Working(s, c) /\ OnlyJobOf(a)
      BY <1>w, <1>t, <2>1, JobStep DEF OnlyJobOf
    <2>3. job'[a].step = s /\ job'[a].client = c /\ s \notin {"idle", "insert", "respond"}
      BY <2>1, <2>2
    <2> QED
      BY <1>w, <2>2, <2>3 DEF Enrols
  <1>1. ASSUME NEW a \in Actors, Enrolment(a) PROVE Goal(a)
    <2>1. CASE Create(a)
      BY <2>1, <1>g DEF Create, At, Steps, EnrolSteps
    <2>2. CASE Refuse(a)
      BY <2>2, <1>e DEF Refuse
    <2>3. ASSUME NEW c \in Clients, CreatePending(a, c) PROVE Goal(a)
      BY <2>3, <1>e, <1>w DEF CreatePending, Steps
    <2>4. CASE Probe(a) \/ BeginBootstrap(a) \/ VerifyOffered(a) \/ VerifyAccepted(a) \/ Throw(a)
      BY <2>4, <1>g DEF Probe, BeginBootstrap, VerifyOffered, VerifyAccepted, Throw, At, Steps,
         EnrolSteps
    <2>5. CASE CreateMap(a)
      BY <2>5, <1>g, <1>q DEF CreateMap, At, Steps, EnrolSteps
    <2>6. CASE EnableMap(a) \/ UnhideMap(a)
      BY <2>6, <1>g, <1>q DEF EnableMap, UnhideMap, Accept, At, Steps, EnrolSteps
    <2>7. CASE Activate(a)
      <3>1. job[a].client \in Clients
        BY <2>7, <1>t DEF Activate, At, HasRow
      <3>2. CASE Goto(a, "withdrawMap") /\ UNCHANGED revealed
        BY <2>7, <3>2, <1>g DEF Activate, At, Steps, EnrolSteps
      <3>3. CASE Activated(job[a].client) /\ Goto(a, "respond") /\ UNCHANGED revealed
        <4>1. row'[job[a].client].state = "active"
          BY <2>7, <3>1, <3>3, <1>t DEF Activate, Activated, RowIn, TypeOK
        <4>2. job[a].client \in activated'
          BY <2>7, <4>1 DEF Activate
        <4>3. job'[a].step = "respond" /\ job'[a].client = job[a].client /\ OnlyJobOf(a)
          BY <3>3, <1>t, GotoStep DEF OnlyJobOf, Steps
        <4> QED
          BY <2>7, <3>3, <4>2, <4>3 DEF Enrols, Activate, At, EnrolSteps
      <3> QED
        BY <2>7, <3>2, <3>3 DEF Activate
    <2>8. CASE Respond(a)
      <3>1. job'[a] = Idle /\ OnlyJobOf(a)
        BY <2>8, <1>t DEF Respond, Return, JobsOK, OnlyJobOf
      <3>2. Idle.step = "idle" /\ Idle.client = NoClient
        BY DEF Idle, Working
      <3> QED
        BY <2>8, <3>1, <3>2 DEF Enrols, Respond, At, EnrolSteps
    <2> QED
      BY <1>1, <2>1, <2>2, <2>3, <2>4, <2>5, <2>6, <2>7, <2>8 DEF Enrolment
  <1>2. ASSUME NEW a \in Actors, Revocation(a) PROVE Goal(a)
    <2>1. ASSUME NEW c \in Clients, Revoke(a, c) PROVE Goal(a)
      BY <2>1, <1>w DEF Revoke, Steps, EnrolSteps
    <2>2. CASE \/ RevokeRow(a) \/ ResolveTarget(a) \/ ListMaps(a) \/ DeleteMap(a)
               \/ MarkMapRemoved(a) \/ GiveUp(a)
      BY <2>2, <1>g, <1>e DEF RevokeRow, ResolveTarget, ListMaps, DeleteMap, MarkMapRemoved,
         GiveUp, At, Steps, EnrolSteps
    <2> QED
      BY <1>2, <2>1, <2>2 DEF Revocation
  <1>3. World => UNCHANGED <<job, revealed>>
                   \/ (UNCHANGED revealed /\ \A a \in Actors : job'[a] = Idle)
    BY DEF World, Grow, CheckPolicy, ChangeStanding, Land, Drop, ListForTarget, Restart
  <1>4. CASE UNCHANGED vars
    BY <1>4 DEF vars
  <1> QED
    BY <1>1, <1>2, <1>3, <1>4 DEF Next

\* A client counts as activated from the step on in which its row becomes active.
LEMMA ActivatedGrows ==
    ASSUME [Next]_vars
    PROVE  /\ activated \subseteq activated'
           /\ \A c \in activated' \ activated : row'[c].state = "active"
  <1> DEFINE Goal == /\ activated \subseteq activated'
                     /\ \A c \in activated' \ activated : row'[c].state = "active"
  <1>u. UNCHANGED activated => Goal
    OBVIOUS
  <1>1. ASSUME NEW a \in Actors, Activate(a) PROVE Goal
    BY <1>1 DEF Activate
  <1>2. ASSUME NEW a \in Actors, Enrolment(a), ~ Activate(a) PROVE Goal
    BY <1>2, <1>u DEF Enrolment, Create, Refuse, CreatePending, Probe, BeginBootstrap, CreateMap,
       VerifyOffered, EnableMap, UnhideMap, Accept, VerifyAccepted, Respond, Throw
  <1>3. ASSUME NEW a \in Actors, Revocation(a) PROVE Goal
    BY <1>3, <1>u DEF Revocation, Revoke, RevokeRow, ResolveTarget, ListMaps, DeleteMap,
       MarkMapRemoved, GiveUp
  <1>4. CASE World
    BY <1>4, <1>u DEF World, Grow, CheckPolicy, ChangeStanding, Land, Drop, ListForTarget, Restart
  <1>5. CASE UNCHANGED vars
    BY <1>5, <1>u DEF vars
  <1> QED
    BY <1>1, <1>2, <1>3, <1>4, <1>5 DEF Next

\* The invariant of enrolments is inductive.
LEMMA EnrolInvInductive == TypeInv /\ EnrolInv /\ [Next]_vars => EnrolInv'
  <1> SUFFICES ASSUME TypeInv, EnrolInv, [Next]_vars PROVE EnrolInv'
    OBVIOUS
  <1>t. HasRow /\ HasRow' /\ JobsOK /\ JobsOK' /\ RestOK /\ RowsOK
    BY JobsMove DEF TypeInv, TypeOK, RestOK, RowsOK, JobsOK, Job
  <1>i. IdleHasNone /\ EnrolledOnce /\ ActivatedRows /\ RevealedWasActive
    BY DEF EnrolInv
  <1>r. \A c \in Clients : /\ row[c].state = "revoked" => row'[c].state = "revoked"
                           /\ row[c].state = "active" => row'[c].state \in {"active", "revoked"}
    BY RowsMove DEF RowMoves, RowStep
  <1>n. NoClient \notin Clients /\ revealed \subseteq Clients /\ activated \subseteq Clients
    BY <1>t, ClientConstantsOk DEF RestOK
  <1>a. /\ activated \subseteq activated'
        /\ \A c \in activated' : row'[c].state \in {"active", "revoked"}
    BY <1>i, <1>r, <1>n, ActivatedGrows DEF ActivatedRows
  <1>o. revealed \subseteq activated'
    BY <1>i, <1>a DEF RevealedWasActive
  <1>1. CASE UNCHANGED <<job, revealed>>
    <2>1. ActivatedRows'
      BY <1>1, <1>i, <1>a DEF ActivatedRows
    <2> QED
      BY <1>1, <2>1, <1>i, <1>o DEF EnrolInv, IdleHasNone, EnrolledOnce, RevealedWasActive
  <1>2. CASE UNCHANGED revealed /\ \A a \in Actors : job'[a] = Idle
    <2>1. Idle.step = "idle" /\ Idle.client = NoClient
      BY DEF Idle, Working
    <2>2. ActivatedRows'
      BY <1>2, <2>1, <1>a DEF ActivatedRows
    <2> QED
      BY <1>2, <2>1, <2>2, <1>o, <1>n DEF EnrolInv, IdleHasNone, EnrolledOnce, RevealedWasActive,
         EnrolSteps
  <1>3. ASSUME NEW a \in Actors, OnlyJobOf(a), Enrols(a) PROVE EnrolInv'
    <2>1. IdleHasNone'
      BY <1>3, <1>i DEF OnlyJobOf, Enrols, IdleHasNone
    <2>2. ASSUME NEW b \in Actors \ {a}, job[b].step \in EnrolSteps, job'[a].step \in EnrolSteps
          PROVE  job'[a].client # job[b].client
      <3>1. row[job[b].client].state # "none"
        BY <2>2, <1>t DEF HasRow, EnrolSteps
      <3> QED
        BY <2>2, <3>1, <1>3, <1>i DEF Enrols, EnrolledOnce
    <2>3. EnrolledOnce'
      <3> SUFFICES ASSUME NEW b \in Actors, NEW d \in Actors, b # d,
                          job'[b].step \in EnrolSteps, job'[d].step \in EnrolSteps
                   PROVE  job'[b].client # job'[d].client
        BY DEF EnrolledOnce
      <3>1. CASE b = a
        BY <3>1, <2>2, <1>3 DEF OnlyJobOf
      <3>2. CASE d = a
        BY <3>2, <2>2, <1>3 DEF OnlyJobOf
      <3>3. CASE b # a /\ d # a
        BY <3>3, <1>3, <1>i DEF OnlyJobOf, EnrolledOnce
      <3> QED
        BY <3>1, <3>2, <3>3
    <2>4. \A b \in Actors : job'[b].step \in
             EnrolSteps \union {"idle", "insert", "revoke"} \union CleanupSteps
      BY <1>t DEF JobsOK, Job, Steps, EnrolSteps, CleanupSteps
    <2>5. ASSUME NEW c \in revealed', NEW b \in Actors, job'[b].client = c,
                 job'[b].step \in EnrolSteps
          PROVE  FALSE
      <3>1. CASE c \in revealed /\ b = a
        <4>1. row[c].state # "none"
          BY <3>1, <1>i DEF RevealedWasActive, ActivatedRows
        <4> QED
          BY <2>5, <3>1, <4>1, <1>3, <1>i DEF Enrols, RevealedWasActive, EnrolSteps
      <3>2. CASE c \in revealed /\ b # a
        BY <2>5, <3>2, <1>3, <1>i DEF OnlyJobOf, RevealedWasActive, EnrolSteps
      <3>3. CASE c \notin revealed
        <4>1. job[a].step = "respond" /\ job'[a].step = "idle" /\ c = job[a].client
          BY <2>5, <3>3, <1>3 DEF Enrols
        <4>2. b # a
          BY <2>5, <4>1 DEF EnrolSteps
        <4> QED
          BY <2>5, <4>1, <4>2, <1>3, <1>i DEF OnlyJobOf, EnrolledOnce, EnrolSteps
      <3> QED
        BY <3>1, <3>2, <3>3
    <2>6. revealed' \subseteq Clients
      BY RestMoves DEF RestOK
    <2>7. revealed' \subseteq activated'
      BY <1>3, <1>o, <1>i, <1>a DEF Enrols, ActivatedRows
    <2>9. ActivatedRows'
      <3>1. \A b \in Actors : job'[b].step = "respond" => job'[b].client \in activated'
        BY <1>3, <1>i, <1>a DEF Enrols, OnlyJobOf, ActivatedRows
      <3> QED
        BY <3>1, <1>a DEF ActivatedRows
    <2>8. RevealedWasActive'
      <3> SUFFICES ASSUME NEW c \in revealed', NEW b \in Actors, job'[b].client = c
                   PROVE  job'[b].step \in {"revoke", "resolve", "list", "delete", "mark"}
        BY <2>7 DEF RevealedWasActive
      <3>1. job'[b].step \notin {"idle", "insert"}
        BY <2>1, <2>6, <1>n DEF IdleHasNone
      <3> QED
        BY <3>1, <2>4, <2>5 DEF CleanupSteps
    <2> QED
      BY <2>1, <2>3, <2>8, <2>9 DEF EnrolInv
  <1> QED
    BY <1>1, <1>2, <1>3, <1>i, JobsEnrol

\* The secret of a client is shown only when the row of the client has gone from pending
\* to active, so never for a client that another manager revoked before the activation,
\* and the enrolment that showed it does not withdraw the client.
THEOREM SecretsAreOfActiveClients == Spec => []RevealedWasActive
  <1>1. Init => EnrolInv
    BY DEF Init, EnrolInv, IdleHasNone, EnrolledOnce, ActivatedRows, RevealedWasActive, Idle, Working,
       EnrolSteps
  <1>2. EnrolInv => RevealedWasActive
    BY DEF EnrolInv
  <1> QED
    BY <1>1, <1>2, EnrolInvInductive, TypeInvariant, PTL DEF Spec

-----------------------------------------------------------------------------
(* Maps marked as removed.                                                  *)

\* Before an enrolment has asked for a map, and from there until it is deleted.
BeforeMap == {"probe", "bootstrap", "create", "withdraw"}
MapOwners == {"verifyOffered", "enable", "unhide", "verifyAccepted", "activate", "withdrawMap",
              "list", "delete"}

Owned(c) == \E a \in Actors : job[a].step \in MapOwners /\ job[a].client = c
Marked(c) ==
    \/ row[c].map = "removed"
    \/ \E a \in Actors : job[a].step = "mark" /\ job[a].client = c

\* Without a fault, a map that has been or is about to be marked as removed is in
\* the hands of an operation that will not end without deleting it.
TidyInv ==
    faults = 0 =>
        /\ late = {}
        /\ \A a \in Actors : job[a].step \in BeforeMap => maps[job[a].client] = "absent"
        /\ \A c \in Clients : maps[c] # "absent" /\ Marked(c) => Owned(c)

\* What a step of an actor does to the maps, and to the operation that owns one.
Tidies(a) ==
    /\ OnlyJobOf(a)
    /\ \A c \in Clients : maps'[c] # "absent" =>
          \/ maps[c] # "absent"
          \/ job[a].step = "create" /\ job[a].client = c
             /\ job'[a].step = "verifyOffered" /\ job'[a].client = c
    /\ job'[a].step \in BeforeMap \union {"mark"} => maps'[job'[a].client] = "absent"
    /\ job[a].step \in MapOwners =>
         \/ job'[a].step \in MapOwners /\ job'[a].client = job[a].client
         \/ maps'[job[a].client] = "absent"
         \/ row[job[a].client].state = "pending" /\ row'[job[a].client].map = "present"
    /\ \A c \in Clients : row'[c].map = "removed" /\ row[c].map # "removed" =>
          job[a].step = "mark" /\ job[a].client = c

\* No statement but the last one of a cleanup marks a map as removed.
LEMMA OnlyMarkRemoves ==
    ASSUME TypeInv, NEW c \in Clients, row'[c].map = "removed", row[c].map # "removed"
    PROVE  /\ \A a \in Actors : ~ Enrolment(a)
           /\ \A a \in Actors : Revocation(a) => job[a].step = "mark" /\ job[a].client = c
           /\ ~ World /\ ~ UNCHANGED vars
  <1>t. RowsOK /\ HasRow /\ JobsOK
    BY DEF TypeInv, TypeOK, RowsOK, JobsOK, Job
  <1>c. Current(c).map # "removed"
    BY DEF Current, Revoked
  <1>k. Checked(c).map # "removed"
    BY <1>c DEF Checked, Revoked
  <1>r. \A d \in Clients : row[d].state # "none" => RevokedRow(d)[c].map # "removed"
    BY <1>t DEF RevokedRow, Revoked, RowsOK
  <1>1. ASSUME NEW a \in Actors, Enrolment(a) PROVE FALSE
    <2>1. CASE \/ Create(a) \/ Probe(a) \/ CreateMap(a) \/ VerifyOffered(a)
               \/ VerifyAccepted(a) \/ Respond(a) \/ Throw(a)
      BY <2>1 DEF Create, Probe, CreateMap, VerifyOffered, VerifyAccepted, Respond, Throw
    <2>2. CASE Refuse(a)
      BY <2>2, <1>c DEF Refuse, AllCurrent
    <2>3. ASSUME NEW d \in Clients, CreatePending(a, d) PROVE FALSE
      <3>1. row'[c].map = "pending" \/ row'[c] = Current(c)
        BY <2>3 DEF CreatePending, AllCurrent
      <3> QED
        BY <3>1, <1>c
    <2>4. CASE BeginBootstrap(a)
      BY <2>4, <1>t DEF BeginBootstrap, RowIn, RowsOK
    <2>5. CASE Activate(a)
      BY <2>5, <1>t DEF Activate, RowIn, RowsOK
    <2>6. CASE EnableMap(a) \/ UnhideMap(a)
      BY <2>6, <1>t, <1>k DEF EnableMap, UnhideMap, Accept, RowsOK
    <2> QED
      BY <1>1, <2>1, <2>2, <2>3, <2>4, <2>5, <2>6 DEF Enrolment
  <1>2. ASSUME NEW a \in Actors, Revocation(a)
        PROVE  job[a].step = "mark" /\ job[a].client = c
    <2>1. ASSUME NEW d \in Clients, Revoke(a, d) PROVE FALSE
      BY <2>1, <1>t, <1>c DEF Revoke, RowsOK
    <2>2. CASE RevokeRow(a)
      <3>1. job[a].client \in Clients /\ row[job[a].client].state # "none"
        BY <2>2, <1>t DEF RevokeRow, At, HasRow
      <3> QED
        BY <2>2, <3>1, <1>r DEF RevokeRow
    <2>3. CASE ResolveTarget(a) \/ ListMaps(a) \/ DeleteMap(a) \/ GiveUp(a)
      BY <2>3 DEF ResolveTarget, ListMaps, DeleteMap, GiveUp
    <2>4. CASE MarkMapRemoved(a)
      BY <2>4, <1>t DEF MarkMapRemoved, At, RowsOK
    <2> QED
      BY <1>2, <2>1, <2>2, <2>3, <2>4 DEF Revocation
  <1>3. ASSUME World PROVE FALSE
    <2>1. ASSUME NEW d \in Clients, CheckPolicy(d) PROVE FALSE
      BY <2>1, <1>t, <1>k DEF CheckPolicy, RowsOK
    <2>2. CASE ListForTarget
      BY <2>2, <1>c DEF ListForTarget, AllCurrent
    <2>3. CASE UNCHANGED row
      BY <2>3
    <2> QED
      BY <1>3, <2>1, <2>2, <2>3 DEF World, Grow, ChangeStanding, Land, Drop, Restart
  <1>4. ~ UNCHANGED vars
    BY DEF vars
  <1> QED
    BY <1>1, <1>2, <1>3, <1>4

\* An answered request leaves no map where there was none, but for the creation.
LEMMA AskAnswered ==
    ASSUME TypeInv, NEW a \in Actors, job[a].client \in Clients, NEW op, NEW next \in Steps,
           Ask(a, op, next), faults' = 0
    PROVE  /\ job'[a].step = next /\ job'[a].client = job[a].client /\ OnlyJobOf(a)
           /\ maps' = [maps EXCEPT ![job[a].client] = MapAfter(op, maps[job[a].client])]
           /\ UNCHANGED <<late, faults>>
  <1> DEFINE c == job[a].client
  <1>t. RestOK /\ JobsOK
    BY DEF TypeInv, TypeOK, RestOK, JobsOK, Job
  <1>f. faults \in Nat
    BY <1>t, ClientConstantsOk DEF RestOK
  <1>1. ~ CountFault
    BY <1>f DEF CountFault
  <1>2. /\ maps' = [maps EXCEPT ![c] = MapAfter(op, maps[c])]
        /\ job' = [job EXCEPT ![a] = Working(next, c)]
        /\ UNCHANGED <<late, faults>>
    BY <1>1 DEF Ask
  <1>3. Working(next, c) \in Job /\ Working(next, c).step = next /\ Working(next, c).client = c
    BY DEF Working, Job
  <1>4. job'[a] = Working(next, c) /\ OnlyJobOf(a)
    BY <1>2, <1>3, <1>t, JobStep DEF OnlyJobOf
  <1> QED
    BY <1>2, <1>3, <1>4

\* Without a fault, whoever owns a map keeps it until the map is gone or its client
\* has been activated.
LEMMA JobsTidy ==
    ASSUME TypeInv, NoMapBeforeBootstrap, TidyInv, [Next]_vars, faults' = 0
    PROVE  /\ faults = 0 /\ late' = {}
           /\ \/ UNCHANGED <<job, maps>>
              \/ \E a \in Actors : Tidies(a)
  <1> DEFINE Goal(a) == late' = {} /\ Tidies(a)
  <1>t. TypeOK /\ JobsOK /\ HasRow /\ RowsOK /\ RestOK
    BY DEF TypeInv, TypeOK, JobsOK, Job, RowsOK, RestOK
  <1>f. faults \in Nat
    BY <1>t, ClientConstantsOk DEF RestOK
  <1>0. faults = 0 /\ ~ CountFault
    <2>1. ~ CountFault
      BY <1>f DEF CountFault
    <2>2. UNCHANGED faults \/ CountFault
      BY DEF Next, World, Enrolment, Revocation, Create, CreatePending, Refuse, Probe,
         BeginBootstrap, CreateMap, VerifyOffered, EnableMap, UnhideMap, Accept, Ask,
         VerifyAccepted, Activate, Respond, Throw, Revoke, RevokeRow, ResolveTarget, ListMaps,
         DeleteMap, MarkMapRemoved, GiveUp, Grow, CheckPolicy, ChangeStanding, Land, Drop,
         ListForTarget, Restart, vars
    <2> QED
      BY <2>1, <2>2
  <1>i. /\ late = {}
        /\ \A a \in Actors : job[a].step \in BeforeMap => maps[job[a].client] = "absent"
    BY <1>0 DEF TidyInv
  <1>n. NoClient \notin Clients
    BY ClientConstantsOk
  \* Steps that ask for nothing: where the job goes, and what it knows there.
  <1>g. ASSUME NEW a \in Actors, NEW s \in Steps, Goto(a, s), UNCHANGED <<maps, late>>,
               s \in BeforeMap => job[a].step \in BeforeMap,
               s = "mark" => maps[job[a].client] = "absent",
               job[a].step \in MapOwners =>
                  s \in MapOwners \/ maps[job[a].client] = "absent",
               \A c \in Clients : row'[c].map = "removed" => row[c].map = "removed"
        PROVE  Goal(a)
    <2>1. job'[a].step = s /\ job'[a].client = job[a].client /\ OnlyJobOf(a)
      BY <1>g, <1>t, GotoStep DEF OnlyJobOf
    <2> QED
      BY <2>1, <1>g, <1>i DEF Tidies
  <1>e. ASSUME NEW a \in Actors, Return(a), UNCHANGED <<maps, late>>,
               job[a].step \in MapOwners =>
                  row[job[a].client].state = "pending" /\ row'[job[a].client].map = "present",
               \A c \in Clients : row'[c].map = "removed" /\ row[c].map # "removed" =>
                  job[a].step = "mark" /\ job[a].client = c
        PROVE  Goal(a)
    <2>1. job'[a].step = "idle" /\ OnlyJobOf(a)
      BY <1>e, <1>t, ReturnStep DEF OnlyJobOf
    <2> QED
      BY <2>1, <1>e, <1>i DEF Tidies, BeforeMap
  <1>v. ASSUME NEW a \in Actors, Goto(a, "respond"), UNCHANGED <<maps, late>>,
               row[job[a].client].state = "pending" /\ row'[job[a].client].map = "present",
               \A c \in Clients : row'[c].map = "removed" => row[c].map = "removed"
        PROVE  Goal(a)
    <2>1. job'[a].step = "respond" /\ OnlyJobOf(a)
      BY <1>v, <1>t, GotoStep DEF OnlyJobOf, Steps
    <2> QED
      BY <2>1, <1>v, <1>i DEF Tidies, BeforeMap
  <1>w. ASSUME NEW a \in Actors, NEW c \in Clients, NEW s \in Steps \ MapOwners,
               job' = [job EXCEPT ![a] = Working(s, c)], UNCHANGED <<maps, late>>,
               job[a].step \notin MapOwners,
               s \in BeforeMap => maps[c] = "absent", s # "mark",
               \A d \in Clients : row'[d].map = "removed" => row[d].map = "removed"
        PROVE  Goal(a)
    <2>1. Working(s, c) \in Job /\ Working(s, c).step = s /\ Working(s, c).client = c
      BY DEF Working, Job
    <2>2. job'[a] = Working(s, c) /\ OnlyJobOf(a)
      BY <1>w, <1>t, <2>1, JobStep DEF OnlyJobOf
    <2> QED
      BY <2>1, <2>2, <1>w, <1>i DEF Tidies
  <1>1. ASSUME NEW a \in Actors, Enrolment(a) PROVE Goal(a)
    <2>r. \A c \in Clients : row'[c].map = "removed" => row[c].map = "removed"
      BY <1>1, OnlyMarkRemoves
    <2>c. job[a].step \notin {"idle", "insert"} => job[a].client \in Clients
      BY <1>t DEF HasRow
    <2>1. CASE Create(a)
      BY <2>1, <2>r, <1>g DEF Create, At, Steps, BeforeMap, MapOwners
    <2>2. CASE Refuse(a)
      BY <2>2, <2>r, <1>e DEF Refuse, At, MapOwners
    <2>3. ASSUME NEW c \in Clients, CreatePending(a, c) PROVE Goal(a)
      <3>1. maps[c] = "absent" /\ job[a].step \notin MapOwners
        BY <2>3 DEF CreatePending, At, MapOwners, NoMapBeforeBootstrap
      <3>2. CASE job' = [job EXCEPT ![a] = Working("probe", c)]
        BY <2>3, <2>r, <3>1, <3>2, <1>w DEF CreatePending, Steps, MapOwners
      <3>3. CASE Return(a)
        BY <2>3, <2>r, <3>1, <3>3, <1>e DEF CreatePending
      <3> QED
        BY <2>3, <3>2, <3>3 DEF CreatePending
    <2>4. CASE Probe(a) \/ BeginBootstrap(a)
      BY <2>4, <2>r, <1>g DEF Probe, BeginBootstrap, At, Steps, BeforeMap, MapOwners
    <2>5. CASE CreateMap(a)
      <3>1. CASE Ask(a, "create", "verifyOffered")
        <4>1. /\ job'[a].step = "verifyOffered" /\ job'[a].client = job[a].client /\ OnlyJobOf(a)
              /\ maps' = [maps EXCEPT ![job[a].client] = MapAfter("create", maps[job[a].client])]
              /\ UNCHANGED late
          BY <2>5, <3>1, <2>c, AskAnswered DEF CreateMap, At, Steps
        <4> QED
          BY <2>5, <4>1, <2>c, <2>r, <1>t, <1>i DEF CreateMap, At, RestOK, Tidies, BeforeMap,
             MapOwners
      <3>2. CASE Goto(a, "withdrawMap") /\ UNCHANGED <<maps, late>>
        BY <2>5, <3>2, <2>r, <1>g DEF CreateMap, At, Steps, BeforeMap, MapOwners
      <3> QED
        BY <2>5, <3>1, <3>2 DEF CreateMap
    <2>6. CASE VerifyOffered(a) \/ VerifyAccepted(a) \/ Throw(a)
      BY <2>6, <2>r, <1>g DEF VerifyOffered, VerifyAccepted, Throw, At, Steps, BeforeMap,
         MapOwners
    <2>7. ASSUME NEW s \in {"enable", "unhide"}, NEW next \in {"unhide", "verifyAccepted"},
                 Accept(a, s, s, next)
          PROVE  Goal(a)
      <3>1. CASE Ask(a, s, next) /\ maps[job[a].client] # "absent"
        <4>1. /\ job'[a].step = next /\ job'[a].client = job[a].client /\ OnlyJobOf(a)
              /\ maps' = [maps EXCEPT ![job[a].client] = MapAfter(s, maps[job[a].client])]
              /\ UNCHANGED late
          BY <2>7, <3>1, <2>c, AskAnswered DEF Accept, At, Steps
        <4> QED
          BY <3>1, <4>1, <2>c, <2>r, <1>t, <1>i DEF RestOK, Tidies, BeforeMap, MapOwners
      <3>2. CASE Goto(a, "withdrawMap") /\ UNCHANGED <<maps, late>>
        BY <3>2, <2>r, <1>g DEF Steps, BeforeMap, MapOwners
      <3> QED
        BY <2>7, <3>1, <3>2 DEF Accept
    <2>8. CASE Activate(a)
      <3>1. CASE Goto(a, "withdrawMap")
        BY <2>8, <3>1, <2>r, <1>g DEF Activate, Steps, BeforeMap, MapOwners
      <3>2. CASE Activated(job[a].client) /\ Goto(a, "respond")
        <4>1. job[a].client \in Clients
          BY <2>8, <2>c DEF Activate, At
        <4>2. row[job[a].client].state = "pending" /\ row'[job[a].client].map = "present"
          BY <2>8, <3>2, <4>1, <1>t DEF Activate, Activated, MayActivate, RowIn, RowsOK
        <4> QED
          BY <2>8, <3>2, <4>2, <2>r, <1>v DEF Activate
      <3> QED
        BY <2>8, <3>1, <3>2 DEF Activate
    <2>9. CASE Respond(a)
      BY <2>9, <2>r, <1>e DEF Respond, At, MapOwners
    <2> QED
      BY <1>1, <2>1, <2>2, <2>3, <2>4, <2>5, <2>6, <2>7, <2>8, <2>9
         DEF Enrolment, EnableMap, UnhideMap
  <1>2. ASSUME NEW a \in Actors, Revocation(a) PROVE Goal(a)
    <2>r. \A c \in Clients : row'[c].map = "removed" /\ row[c].map # "removed" =>
             job[a].step = "mark" /\ job[a].client = c
      BY <1>2, OnlyMarkRemoves
    <2>c. job[a].step \notin {"idle", "insert"} => job[a].client \in Clients
      BY <1>t DEF HasRow
    <2>1. ASSUME NEW c \in Clients, Revoke(a, c) PROVE Goal(a)
      BY <2>1, <2>r, <1>w DEF Revoke, At, Steps, BeforeMap, MapOwners
    <2>2. CASE RevokeRow(a)
      BY <2>2, <2>r, <1>g, <1>i DEF RevokeRow, At, Steps, BeforeMap, MapOwners
    <2>3. CASE ResolveTarget(a)
      BY <2>3, <2>r, <1>g, <1>e DEF ResolveTarget, At, Steps, BeforeMap, MapOwners
    <2>4. CASE ListMaps(a)
      BY <2>4, <2>r, <1>g DEF ListMaps, UsesAlias, At, Steps, BeforeMap, MapOwners
    <2>5. CASE DeleteMap(a)
      <3>1. /\ job'[a].step = "mark" /\ job'[a].client = job[a].client /\ OnlyJobOf(a)
            /\ job[a].client \in Clients
        BY <2>5, <2>c, <1>t, GotoStep DEF DeleteMap, At, OnlyJobOf, Steps
      <3>2. maps' = [maps EXCEPT ![job[a].client] = "absent"]
        BY <2>5 DEF DeleteMap, MapAfter
      <3> QED
        BY <2>5, <3>1, <3>2, <2>r, <1>t, <1>i DEF DeleteMap, At, RestOK, Tidies
    <2>6. CASE MarkMapRemoved(a)
      BY <2>6, <2>r, <1>e DEF MarkMapRemoved, At, MapOwners
    <2>7. ~ GiveUp(a)
      BY <1>0 DEF GiveUp
    <2> QED
      BY <1>2, <2>1, <2>2, <2>3, <2>4, <2>5, <2>6, <2>7 DEF Revocation
  <1>3. World => UNCHANGED <<job, maps, late>>
    BY <1>0, <1>i DEF World, Grow, CheckPolicy, ChangeStanding, Land, Drop, ListForTarget, Restart
  <1>4. CASE UNCHANGED vars
    BY <1>4, <1>0, <1>i DEF vars
  <1> QED
    BY <1>0, <1>1, <1>2, <1>3, <1>4, <1>i DEF Next

\* The invariant of tidy maps is inductive.
LEMMA TidyInvInductive ==
    TypeInv /\ MapInv /\ BootInv /\ EnrolInv /\ TidyInv /\ [Next]_vars => TidyInv'
  <1> SUFFICES ASSUME TypeInv, MapInv, BootInv, EnrolInv, TidyInv, [Next]_vars, faults' = 0
               PROVE  /\ late' = {}
                      /\ \A b \in Actors :
                            job'[b].step \in BeforeMap => maps'[job'[b].client] = "absent"
                      /\ \A c \in Clients : maps'[c] # "absent" /\ Marked(c)' => Owned(c)'
    BY DEF TidyInv
  <1>t. HasRow /\ HasRow'
    BY JobsMove DEF TypeInv
  <1>e. EnrolledOnce /\ NoMapBeforeBootstrap /\ CleansRevoked
    BY DEF EnrolInv, BootInv, MapInv
  <1>m. faults = 0 /\ late' = {}
    BY <1>e, JobsTidy
  <1>i. /\ \A b \in Actors : job[b].step \in BeforeMap => maps[job[b].client] = "absent"
        /\ \A c \in Clients : maps[c] # "absent" /\ Marked(c) => Owned(c)
    BY <1>m DEF TidyInv
  <1>r. \A c \in Clients : row'[c].map = "removed" =>
           row[c].map = "removed" \/ \E b \in Actors : job[b].step = "mark" /\ job[b].client = c
    BY OnlyMarkRemoves DEF Next
  <1>1. CASE UNCHANGED <<job, maps>>
    <2>1. \A c \in Clients : Marked(c)' => Marked(c)
      BY <1>1, <1>r DEF Marked
    <2> QED
      BY <1>1, <2>1, <1>i, <1>m DEF Owned
  <1>2. ASSUME NEW a \in Actors, Tidies(a)
        PROVE  /\ \A b \in Actors :
                    job'[b].step \in BeforeMap => maps'[job'[b].client] = "absent"
               /\ \A c \in Clients : maps'[c] # "absent" /\ Marked(c)' => Owned(c)'
    <2>1. ASSUME NEW b \in Actors, job'[b].step \in BeforeMap
          PROVE  maps'[job'[b].client] = "absent"
      <3>1. CASE b = a
        BY <2>1, <3>1, <1>2 DEF Tidies
      <3>2. CASE b # a
        <4>1. job'[b] = job[b] /\ maps[job[b].client] = "absent" /\ job[b].client \in Clients
          BY <2>1, <3>2, <1>2, <1>i, <1>t DEF Tidies, OnlyJobOf, HasRow, BeforeMap
        <4>2. ~ (job[a].step = "create" /\ job[a].client = job[b].client)
          BY <2>1, <3>2, <4>1, <1>e DEF EnrolledOnce, BeforeMap, EnrolSteps
        <4> QED
          BY <4>1, <4>2, <1>2 DEF Tidies
      <3> QED
        BY <3>1, <3>2
    <2>2. ASSUME NEW c \in Clients, maps'[c] # "absent", Marked(c)' PROVE Owned(c)'
      <3>1. CASE maps[c] = "absent"
        BY <2>2, <3>1, <1>2 DEF Tidies, Owned, MapOwners
      <3>2. CASE maps[c] # "absent"
        <4>1. Marked(c)
          BY <2>2, <1>2, <1>r DEF Marked, Tidies, OnlyJobOf
        <4>2. PICK b \in Actors : job[b].step \in MapOwners /\ job[b].client = c
          BY <3>2, <4>1, <1>i DEF Owned
        <4>3. CASE b # a
          BY <4>2, <4>3, <1>2 DEF Owned, Tidies, OnlyJobOf
        <4>4. CASE b = a
          <5>1. ~ (row[c].state = "pending" /\ row'[c].map = "present")
            <6>1. ASSUME row[c].state = "pending" PROVE row'[c].map = "removed"
              <7>1. \A d \in Actors : ~ (job[d].step = "mark" /\ job[d].client = c)
                BY <6>1, <1>e DEF CleansRevoked, CleanupSteps
              <7>2. \A d \in Actors : ~ (job'[d].step = "mark" /\ job'[d].client = c)
                BY <7>1, <2>2, <1>2 DEF Tidies, OnlyJobOf
              <7> QED
                BY <7>2, <2>2 DEF Marked
            <6> QED
              BY <6>1
          <5> QED
            BY <2>2, <4>2, <4>4, <5>1, <1>2 DEF Tidies, Owned
        <4> QED
          BY <4>3, <4>4
      <3> QED
        BY <3>1, <3>2
    <2> QED
      BY <2>1, <2>2
  <1> QED
    BY <1>1, <1>2, <1>m, <1>e, JobsTidy

\* When no fault has happened and nobody is at work, a map that the table calls removed
\* is gone: an enrolment that creates its map after a revocation of another manager has
\* marked it deletes it again.
THEOREM RemovedMapsAreGone == Spec => []RemovedIsRemoved
  <1>1. Init => MapInv
    BY DEF Init, MapInv, CleansRevoked, AboutToActivate, ActiveHasItsMap, Idle, Working,
       CleanupSteps, NoRow
  <1>2. Init => BootInv
    BY DEF Init, BootInv, NoMapBeforeBootstrap, AsksPastBootstrap, Idle, Working, MapSteps
  <1>3. Init => EnrolInv
    BY DEF Init, EnrolInv, IdleHasNone, EnrolledOnce, ActivatedRows, RevealedWasActive, Idle, Working,
       EnrolSteps
  <1>4. Init => TidyInv
    BY DEF Init, TidyInv, Idle, Working, BeforeMap
  <1>5. TidyInv => RemovedIsRemoved
    <2> SUFFICES ASSUME TidyInv, faults = 0, \A a \in Actors : At(a, "idle"),
                        NEW c \in Clients, row[c].map = "removed", maps[c] # "absent"
                 PROVE  FALSE
      BY DEF RemovedIsRemoved
    <2>1. Owned(c)
      BY DEF TidyInv, Marked
    <2> QED
      BY <2>1 DEF Owned, At, MapOwners
  <1> QED
    BY <1>1, <1>2, <1>3, <1>4, <1>5, MapInvInductive, BootInvInductive, EnrolInvInductive,
       TidyInvInductive, TypeInvariant, PTL DEF Spec
=============================================================================
