------------------------- MODULE PrivateCalendarClient -------------------------
(***************************************************************************)
(* Scoped CalDAV clients of a room calendar: PrivateCalendarClientService  *)
(* enrols and revokes them, PostgresPrivateCalendarClientStore keeps a row *)
(* for each app ID, and Radicale keeps a map, the alias through which the  *)
(* client reaches the calendar.  Every await of an enrolment or revocation *)
(* is a step.  Operations of one actor queue behind a lock, those of       *)
(* different managers of the room interleave.  A request to Radicale whose *)
(* answer does not come in time may still take effect later, and rows      *)
(* expire whenever a statement happens to look at them.                    *)
(***************************************************************************)
EXTENDS Integers, FiniteSets

CONSTANTS
    Actors,      \* users of the room
    Clients,     \* app IDs that may be drawn
    NoActor,
    NoClient,
    MaxActive,   \* maxActivePerActorAndTarget
    MaxFaults    \* bound on lost answers, failed statements and restarts

ASSUME ClientConstantsOk ==
    /\ IsFiniteSet(Clients)
    /\ NoActor \notin Actors /\ NoClient \notin Clients
    /\ {MaxActive, MaxFaults} \subseteq Nat

VARIABLES
    row,        \* private_calendar_clients
    age,        \* of a row: older than pendingLifetimeMs, past expires_at
    maps,       \* the map of a client in Radicale
    late,       \* requests to Radicale without an answer
    job,        \* what an actor's operation does next
    standing,   \* of an actor in the room
    activated,  \* clients whose row has been active at some time
    revealed,   \* clients whose secret the response showed
    faults

vars == <<row, age, maps, late, job, standing, activated, revealed, faults>>

Row == [state : {"none", "pending", "active", "revoked"},
        map : {"pending", "bootstrap", "present", "cleanup-pending", "removed"},
        by : Actors \union {NoActor}]

NoRow == [state |-> "none", map |-> "pending", by |-> NoActor]

\* offered: created by the owner; enabled, accepted: by the client.
MapStates == {"absent", "offered", "enabled", "accepted"}

Request == [op : {"create", "enable", "unhide", "delete"}, client : Clients]

Steps == {"idle", "insert", "probe", "bootstrap", "create", "verifyOffered", "enable",
          "unhide", "verifyAccepted", "activate", "respond", "withdraw", "withdrawMap",
          "revoke", "resolve", "list", "delete", "mark"}

Working(step, c) == [step |-> step, client |-> c]

Idle == Working("idle", NoClient)

Init ==
    /\ row = [c \in Clients |-> NoRow]
    /\ age = [c \in Clients |-> "young"]
    /\ maps = [c \in Clients |-> "absent"]
    /\ late = {}
    /\ job = [a \in Actors |-> Idle]
    /\ standing = [a \in Actors |-> "manager"]
    /\ activated = {}
    /\ revealed = {}
    /\ faults = 0

At(a, step) == job[a].step = step
Goto(a, step) == job' = [job EXCEPT ![a] = Working(step, @.client)]
Return(a) == job' = [job EXCEPT ![a] = Idle]
CanFail == faults < MaxFaults
CountFault == faults' = faults + 1

-----------------------------------------------------------------------------
(* The store.                                                               *)

Revoked(r) ==
    [state |-> "revoked", by |-> r.by,
     map |-> IF r.map = "removed" THEN "removed" ELSE "cleanup-pending"]

Overdue(c) ==
    \/ row[c].state = "pending" /\ age[c] # "young"
    \/ row[c].state = "active" /\ age[c] = "expired"

\* What every statement that expires rows makes of one it looks at.
Current(c) == IF Overdue(c) THEN Revoked(row[c]) ELSE row[c]
AllCurrent == [c \in Clients |-> Current(c)]

\* The row of a client in a new state.
RowIn(c, state, map) == [state |-> state, map |-> map, by |-> row[c].by]

Live(r) == r.state \in {"pending", "active"}

\* Mutant: the row is left to the cleanup.
RevokedRowLater(c) == row

\* revoke, and the getByAppId it ends with.
RevokedRow(c) == [row EXCEPT ![c] = IF @.state = "revoked" THEN @ ELSE Revoked(@)]

MayBootstrap(c) == row[c].state = "pending" /\ row[c].map = "pending" /\ age[c] = "young"

\* Mutant: the state is not compared.
MayActivateAny(c) == row[c].map # "removed" /\ age[c] = "young"

MayActivate(c) == row[c].state = "pending" /\ row[c].map = "bootstrap" /\ age[c] = "young"

\* list, or an enrolment refused at the capacity or for a used app ID.
ListForTarget ==
    /\ row' = AllCurrent
    /\ UNCHANGED <<age, maps, late, job, standing, activated, revealed, faults>>

-----------------------------------------------------------------------------
(* The world.                                                               *)

Grow(c) ==
    /\ row[c].state # "none" /\ age[c] # "expired"
    /\ age' = [age EXCEPT ![c] = IF @ = "young" THEN "stale" ELSE "expired"]
    /\ UNCHANGED <<row, maps, late, job, standing, activated, revealed, faults>>

ChangeStanding(a) ==
    /\ \E s \in {"manager", "member", "left"} : standing' = [standing EXCEPT ![a] = s]
    /\ UNCHANGED <<row, age, maps, late, job, activated, revealed, faults>>

MapAfter(op, m) ==
    IF op = "delete" THEN "absent"
    ELSE IF op = "create" /\ m = "absent" THEN "offered"
    ELSE IF op = "enable" /\ m = "offered" THEN "enabled"
    ELSE IF op = "unhide" /\ m = "enabled" THEN "accepted"
    ELSE m

\* A request that nobody waits for any more takes effect, or never does.
Land(m) ==
    /\ m \in late
    /\ maps' = [maps EXCEPT ![m.client] = MapAfter(m.op, @)]
    /\ late' = late \ {m}
    /\ UNCHANGED <<row, age, job, standing, activated, revealed, faults>>

Drop(m) ==
    /\ m \in late
    /\ late' = late \ {m}
    /\ UNCHANGED <<row, age, maps, job, standing, activated, revealed, faults>>

\* The policy looks at the row and the issuer: one who has left revokes it.
Checked(c) ==
    IF Live(row[c]) /\ standing[row[c].by] = "left" THEN Revoked(row[c]) ELSE Current(c)

\* A DAV request of a client, which the policy allows or not.
CheckPolicy(c) ==
    /\ row' = [row EXCEPT ![c] = Checked(c)]
    /\ UNCHANGED <<age, maps, late, job, standing, activated, revealed, faults>>

Restart ==
    /\ CanFail /\ CountFault
    /\ job' = [a \in Actors |-> Idle]
    /\ UNCHANGED <<row, age, maps, late, standing, activated, revealed>>

-----------------------------------------------------------------------------
(* create.                                                                  *)

\* resolveTarget: the actor may manage the calendars of the room.
Create(a) ==
    /\ At(a, "idle") /\ standing[a] = "manager"
    /\ Goto(a, "insert")
    /\ UNCHANGED <<row, age, maps, late, standing, activated, revealed, faults>>

CreatePending(a, c) ==
    /\ At(a, "insert")
    /\ row[c].state = "none"
    /\ Cardinality({d \in Clients : Live(Current(d)) /\ row[d].by = a}) < MaxActive
    /\ row' = [AllCurrent EXCEPT ![c] = [state |-> "pending", map |-> "pending", by |-> a]]
    /\ \/ job' = [job EXCEPT ![a] = Working("probe", c)]
          /\ UNCHANGED faults
       \/ Return(a) /\ CanFail /\ CountFault
    /\ UNCHANGED <<age, maps, late, standing, activated, revealed>>

Refuse(a) ==
    /\ At(a, "insert")
    /\ row' = AllCurrent
    /\ Return(a)
    /\ UNCHANGED <<age, maps, late, standing, activated, revealed, faults>>

\* No map and no home has the name: app IDs are not used again.
Probe(a) ==
    /\ At(a, "probe") /\ maps[job[a].client] = "absent"
    /\ Goto(a, "bootstrap")
    /\ UNCHANGED <<row, age, maps, late, standing, activated, revealed, faults>>

BeginBootstrap(a) ==
    /\ At(a, "bootstrap")
    /\ LET c == job[a].client IN
       \/ /\ MayBootstrap(c) /\ Goto(a, "create")
          /\ row' = [row EXCEPT ![c] = RowIn(c, "pending", "bootstrap")]
       \/ ~ MayBootstrap(c) /\ UNCHANGED row /\ Goto(a, "withdraw")
    /\ UNCHANGED <<age, maps, late, standing, activated, revealed, faults>>

\* A request to Radicale is answered, or takes effect some time later.
Ask(a, op, next) ==
    LET c == job[a].client IN
    \/ /\ maps' = [maps EXCEPT ![c] = MapAfter(op, @)]
       /\ job' = [job EXCEPT ![a] = Working(next, c)]
       /\ UNCHANGED <<late, faults>>
    \/ /\ CanFail /\ CountFault
       /\ late' = late \union {[op |-> op, client |-> c]}
       /\ job' = [job EXCEPT ![a] = Working("withdrawMap", c)]
       /\ UNCHANGED maps

\* The owner's request, which Radicale may also refuse.
CreateMap(a) ==
    /\ At(a, "create")
    /\ \/ Ask(a, "create", "verifyOffered")
       \/ /\ Goto(a, "withdrawMap")
          /\ UNCHANGED <<maps, late, faults>>
    /\ UNCHANGED <<row, age, standing, activated, revealed>>

VerifyOffered(a) ==
    /\ At(a, "verifyOffered")
    /\ Goto(a, IF maps[job[a].client] = "offered" THEN "enable" ELSE "withdrawMap")
    /\ UNCHANGED <<row, age, maps, late, standing, activated, revealed, faults>>

\* Radicale asks the policy: a pending client needs an issuer who may manage.
Authenticates(c) == Live(Current(c)) /\ standing[row[c].by] = "manager"

Accept(a, step, op, next) ==
    /\ At(a, step)
    /\ \/ /\ Authenticates(job[a].client) /\ maps[job[a].client] # "absent"
          /\ Ask(a, op, next)
       \/ /\ ~ Authenticates(job[a].client) \/ maps[job[a].client] = "absent"
          /\ Goto(a, "withdrawMap")
          /\ UNCHANGED <<maps, late, faults>>
    /\ row' = [row EXCEPT ![job[a].client] = Checked(job[a].client)]
    /\ UNCHANGED <<age, standing, activated, revealed>>

EnableMap(a) == Accept(a, "enable", "enable", "unhide")
UnhideMap(a) == Accept(a, "unhide", "unhide", "verifyAccepted")

VerifyAccepted(a) ==
    /\ At(a, "verifyAccepted")
    /\ Goto(a, IF maps[job[a].client] = "accepted" THEN "activate" ELSE "withdrawMap")
    /\ UNCHANGED <<row, age, maps, late, standing, activated, revealed, faults>>

\* Mutant: an update of no row counts as done.
ActivatedAlways(c) == TRUE

\* The update returned the row.
Activated(c) == MayActivate(c)

\* The statement; its answer may be lost.
Activate(a) ==
    /\ At(a, "activate")
    /\ LET c == job[a].client IN
       /\ row' = IF MayActivate(c)
                  THEN [row EXCEPT ![c] = RowIn(c, "active", "present")]
                  ELSE row
       /\ activated' = IF row'[c].state = "active" THEN activated \union {c} ELSE activated
       /\ \/ Activated(c) /\ Goto(a, "respond")
          \/ Goto(a, "withdrawMap")
    /\ UNCHANGED <<age, maps, late, standing, revealed, faults>>

\* The response with the secret, which may be lost.  Another manager may have
\* revoked the client since the statement.
Respond(a) ==
    /\ At(a, "respond")
    /\ revealed' \in {revealed, revealed \union {job[a].client}}
    /\ Return(a)
    /\ UNCHANGED <<row, age, maps, late, standing, activated, faults>>

\* Any call of the try block fails: before mapMayExist is set, or after it.
Throw(a) ==
    /\ \/ job[a].step \in {"probe", "bootstrap", "create"} /\ Goto(a, "withdraw")
       \/ /\ job[a].step \in {"verifyOffered", "enable", "unhide", "verifyAccepted", "activate"}
          /\ Goto(a, "withdrawMap")
    /\ UNCHANGED <<row, age, maps, late, standing, activated, revealed, faults>>

-----------------------------------------------------------------------------
(* revoke and revokeAndCompensate.                                          *)

\* getByAppId, then the lock and authorizeRevocation.
Revoke(a, c) ==
    /\ At(a, "idle") /\ standing[a] = "manager" /\ row[c].state # "none"
    /\ row' = [row EXCEPT ![c] = Current(c)]
    /\ job' = [job EXCEPT ![a] = Working("revoke", c)]
    /\ UNCHANGED <<age, maps, late, standing, activated, revealed, faults>>

\* The row first; withdrawing is what create does in its catch block.
RevokeRow(a) ==
    /\ \/ At(a, "revoke") /\ Goto(a, "resolve")
       \/ At(a, "withdraw") /\ Goto(a, "mark")
       \/ At(a, "withdrawMap") /\ Goto(a, "list")
    /\ row' = RevokedRow(job[a].client)
    /\ UNCHANGED <<age, maps, late, standing, activated, revealed, faults>>

\* The actor may still manage the calendar, and it still is the same one.
ResolveTarget(a) ==
    /\ At(a, "resolve")
    /\ \/ standing[a] = "manager" /\ Goto(a, "list")
       \/ Return(a)
    /\ UNCHANGED <<row, age, maps, late, standing, activated, revealed, faults>>

\* Mutant: an alias that is not accepted yet is none.
UsesAliasAccepted(c) == maps[c] = "accepted"

UsesAlias(c) == maps[c] # "absent"

ListMaps(a) ==
    /\ At(a, "list")
    /\ Goto(a, IF UsesAlias(job[a].client) THEN "delete" ELSE "mark")
    /\ UNCHANGED <<row, age, maps, late, standing, activated, revealed, faults>>

\* deleteExact lists the maps again.
DeleteMap(a) ==
    /\ At(a, "delete")
    /\ maps' = [maps EXCEPT ![job[a].client] = MapAfter("delete", @)]
    /\ Goto(a, "mark")
    /\ UNCHANGED <<row, age, late, standing, activated, revealed, faults>>

MarkMapRemoved(a) ==
    /\ At(a, "mark")
    /\ LET c == job[a].client IN
       row' = [row EXCEPT ![c] = IF @.state = "revoked" THEN RowIn(c, "revoked", "removed")
                                 ELSE @]
    /\ Return(a)
    /\ UNCHANGED <<age, maps, late, standing, activated, revealed, faults>>

\* A statement or request of the revocation fails, is lost or is late.
GiveUp(a) ==
    /\ CanFail /\ CountFault
    /\ \/ /\ job[a].step \in {"withdraw", "withdrawMap", "revoke", "list", "mark"}
          /\ UNCHANGED late
       \/ /\ At(a, "delete")
          /\ late' = late \union {[op |-> "delete", client |-> job[a].client]}
    /\ Return(a)
    /\ UNCHANGED <<row, age, maps, standing, activated, revealed>>

-----------------------------------------------------------------------------
Enrolment(a) ==
    \/ Create(a) \/ Refuse(a) \/ \E c \in Clients : CreatePending(a, c)
    \/ Probe(a) \/ BeginBootstrap(a) \/ CreateMap(a) \/ VerifyOffered(a)
    \/ EnableMap(a) \/ UnhideMap(a) \/ VerifyAccepted(a) \/ Activate(a)
    \/ Respond(a) \/ Throw(a)

Revocation(a) ==
    \/ \E c \in Clients : Revoke(a, c)
    \/ RevokeRow(a) \/ ResolveTarget(a) \/ ListMaps(a) \/ DeleteMap(a)
    \/ MarkMapRemoved(a) \/ GiveUp(a)

World ==
    \/ \E c \in Clients : Grow(c) \/ CheckPolicy(c)
    \/ \E a \in Actors : ChangeStanding(a)
    \/ \E m \in late : Land(m) \/ Drop(m)
    \/ ListForTarget \/ Restart

Next == World \/ \E a \in Actors : Enrolment(a) \/ Revocation(a)

Spec == Init /\ [][Next]_vars

-----------------------------------------------------------------------------
(* Properties.                                                              *)

\* state_shape_check of the table.
Shape(r) ==
    \/ r.state = "none" /\ r = NoRow
    \/ r.state = "pending" /\ r.map \in {"pending", "bootstrap"}
    \/ r.state = "active" /\ r.map = "present"
    \/ r.state = "revoked" /\ r.map \in {"cleanup-pending", "removed"}

\* Types, and no statement breaks the CHECK of the table.
TypeOK ==
    /\ row \in [Clients -> Row] /\ \A c \in Clients : Shape(row[c])
    /\ age \in [Clients -> {"young", "stale", "expired"}]
    /\ maps \in [Clients -> MapStates]
    /\ late \subseteq Request
    /\ job \in [Actors -> [step : Steps, client : Clients \union {NoClient}]]
    /\ standing \in [Actors -> {"manager", "member", "left"}]
    /\ activated \subseteq Clients /\ revealed \subseteq Clients
    /\ faults \in 0 .. MaxFaults

\* The row and Radicale agree on an active client: its map is accepted, whatever
\* late requests and revocations of other managers are under way.  Nobody gets a
\* secret that does not open the calendar.
ActiveHasItsMap == \A c \in Clients : row[c].state = "active" => maps[c] = "accepted"

\* ADR046: revocation is terminal, also against an enrolment that is about to
\* activate the client, and the row stays as a tombstone; 'removed' is not undone.
RevokedIsTerminal ==
    [][\A c \in Clients : row[c].state = "revoked" =>
          /\ row'[c].state = "revoked"
          /\ row[c].map = "removed" => row'[c].map = "removed"]_vars

\* A secret is shown only for a client whose row really went from pending to
\* active, never for one that another manager revoked, or that expired, before the
\* activation; and the enrolment that shows it does not withdraw the client.
RevealedWasActive ==
    \A c \in revealed :
        /\ c \in activated
        /\ \A a \in Actors : job[a].client = c => job[a].step \in
              {"revoke", "resolve", "list", "delete", "mark"}

\* ADR046: Radicale knows the alias only after the row has gone to bootstrap.
NoMapBeforeBootstrap ==
    \A c \in Clients :
        maps[c] # "absent" => row[c].state # "none" /\ row[c].map # "pending"

\* Without a fault the managers clean up together: when all of them are done, a
\* map marked as removed is gone, although a revocation may have marked it
\* before the enrolment created it.
RemovedIsRemoved ==
    (faults = 0 /\ \A a \in Actors : At(a, "idle")) =>
        \A c \in Clients : row[c].map = "removed" => maps[c] = "absent"
=============================================================================
