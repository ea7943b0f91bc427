--------------------------- MODULE RoomCalendarSetup ---------------------------
(***************************************************************************)
(* !calendar setup: RoomCalendarSetupService gives a room its calendar.    *)
(* A binding is reserved in PostgreSQL, its collection is made or found in *)
(* Radicale, the binding becomes ready, and the room gets a widget.  There *)
(* is no lock: commands of several managers, also at several instances of  *)
(* the gateway, interleave at every await, and each of them may fail, be   *)
(* late or stop half-way.  A later command takes up what it finds.         *)
(***************************************************************************)
EXTENDS Integers, FiniteSets

CONSTANTS
    Rooms,
    Calendars,    \* collection IDs: those of Static and UUIDs that may be drawn
    NoRoom,
    NoCalendar,
    OtherKey,     \* a state key that is not derived from a collection ID
    Static,       \* bindings of the configuration: [room, calendar]
    Limit,        \* maxConfiguredBindings
    Setups,       \* commands at work
    MaxFaults,    \* bound on failures and restarts
    MaxEdits      \* bound on what the members do to the widgets of a room

StaticRooms == {b.room : b \in Static}
StaticCalendars == {b.calendar : b \in Static}

ASSUME SetupConstantsOk ==
    /\ IsFiniteSet(Rooms) /\ IsFiniteSet(Static)
    /\ NoRoom \notin Rooms /\ {NoCalendar, OtherKey} \intersect Calendars = {}
    /\ Static \subseteq [room : Rooms, calendar : Calendars]
    /\ \A b, d \in Static : (b.room = d.room) <=> (b.calendar = d.calendar)
    /\ {Limit, MaxFaults, MaxEdits} \subseteq Nat /\ Cardinality(Static) <= Limit

VARIABLES
    row,          \* room_calendar_bindings, by room
    collection,   \* what Radicale has under a collection ID
    widget,       \* im.vector.modular.widgets, by room and state key
    late,         \* MKCALENDAR requests nobody waits for any more
    job,          \* what a command does next
    created,      \* how often a room was told that its calendar has been created
    faults, edits

vars == <<row, collection, widget, late, job, created, faults, edits>>

Keys == Calendars \union {OtherKey}
NoRow == [calendar |-> NoCalendar, status |-> "none"]
Row == [calendar : Calendars, status : {"pending", "ready"}]

\* exact: only VEVENT and writable; mixed: with other components or read-only.
Collections == {"absent", "exact", "mixed", "foreign"}

\* trusted: a calendar widget of the room; lookalike: of the configured endpoint,
\* and nothing more is certain; emptied: as Matrix clients remove a widget.
Widgets == {"absent", "trusted", "lookalike", "emptied"}

Steps == {"idle", "snapshot", "reserve", "preflight", "inspect", "create", "recheck",
          "verify", "ready", "install", "latest", "send", "written"}

Idle == [step |-> "idle", room |-> NoRoom, calendar |-> NoCalendar, mode |-> "verify",
         outcome |-> "existing"]

Init ==
    /\ row = [r \in Rooms |-> NoRow]
    /\ collection \in [Calendars -> Collections]
    /\ \A c \in Calendars \ StaticCalendars : collection[c] = "absent"
    /\ widget = [r \in Rooms |-> [k \in Keys |-> "absent"]]
    /\ late = {}
    /\ job = [w \in Setups |-> Idle]
    /\ created = [r \in Rooms |-> 0]
    /\ faults = 0 /\ edits = 0

At(w, step) == job[w].step = step
Goto(w, step) == job' = [job EXCEPT ![w].step = step]
Return(w) == job' = [job EXCEPT ![w] = Idle]
CanFail == faults < MaxFaults
CountFault == faults' = faults + 1

\* What a command has found out about the binding of its room.
Bound(w, c, mode) ==
    job' = [job EXCEPT ![w] = [step |-> "preflight", room |-> @.room, calendar |-> c,
                               mode |-> mode, outcome |-> @.outcome]]

-----------------------------------------------------------------------------
(* The widgets of a room, inspected for the state key of a calendar.        *)

Inspected(r, c) ==
    LET trusted == {k \in Keys : widget[r][k] = "trusted"} IN
    IF c # NoCalendar /\ widget[r][c] # "absent"
    THEN IF widget[r][c] = "trusted" THEN "matched" ELSE "conflict"
    ELSE IF Cardinality(trusted) = 1 THEN "matched"
    ELSE IF trusted # {} \/ \E k \in Keys : widget[r][k] = "lookalike" THEN "conflict"
    ELSE "absent"

-----------------------------------------------------------------------------
(* The world.                                                               *)

\* What MKCALENDAR may leave behind; the answer does not tell.
Made(c) ==
    {[collection EXCEPT ![c] = IF @ = "absent" THEN kind ELSE @] : kind \in {"exact", "mixed"}}

\* A member adds a widget, or changes or removes one that is there.
EditWidget(r, k, v) ==
    /\ edits < MaxEdits /\ edits' = edits + 1
    /\ k = OtherKey \/ widget[r][k] # "absent"
    /\ widget' = [widget EXCEPT ![r][k] = v]
    /\ UNCHANGED <<row, collection, late, job, created, faults>>

\* A request past its deadline is served, or never is.
Land(c) ==
    /\ c \in late
    /\ late' = late \ {c}
    /\ collection' \in {collection} \union Made(c)
    /\ UNCHANGED <<row, widget, job, created, faults, edits>>

Restart ==
    /\ CanFail /\ CountFault
    /\ job' = [w \in Setups |-> Idle]
    /\ UNCHANGED <<row, collection, widget, late, created, edits>>

\* A call fails before it has any effect.
Fail(w) ==
    /\ ~ At(w, "idle") /\ CanFail /\ CountFault
    /\ Return(w)
    /\ UNCHANGED <<row, collection, widget, late, created, edits>>

-----------------------------------------------------------------------------
(* setup.                                                                   *)

\* The actor, the room and the bot qualify, and the widgets are not in the way.
Ask(w, r) ==
    /\ At(w, "idle")
    /\ Inspected(r, NoCalendar) # "conflict"
    /\ job' = [job EXCEPT ![w] = [Idle EXCEPT !.step = "snapshot", !.room = r]]
    /\ UNCHANGED <<row, collection, widget, late, created, faults, edits>>

\* Static and ready bindings are verified; pending ones do not show.
Snapshot(w) ==
    /\ At(w, "snapshot")
    /\ LET r == job[w].room IN
       \/ \E b \in Static : b.room = r /\ Bound(w, b.calendar, "verify")
       \/ row[r].status = "ready" /\ Bound(w, row[r].calendar, "verify")
       \/ r \notin StaticRooms /\ row[r].status # "ready" /\ Goto(w, "reserve")
    /\ UNCHANGED <<row, collection, widget, late, created, faults, edits>>

Reserved == {r \in Rooms : row[r] # NoRow}

\* Mutant: only the bindings that are ready count.
FullOfReady ==
    Cardinality(Static) + Cardinality({r \in Rooms : row[r].status = "ready"}) >= Limit

Full == Cardinality(Static) + Cardinality(Reserved) >= Limit

\* Mutant: the configuration is not asked for its collections.
TakenByRow(c) == \E r \in Reserved : row[r].calendar = c

Taken(c) == c \in StaticCalendars \/ \E r \in Reserved : row[r].calendar = c

\* Mutant: a reservation that is not ready is made again.
ExistingReady(r) == row[r].status = "ready"

Existing(r) == row[r] # NoRow

Stored(r, c) == row[r].calendar

\* Mutant: what is in the table needs to be verified only.
ModeOfVerify(r) == "verify"

ModeOf(r) == IF row[r].status = "pending" THEN "create" ELSE "verify"

\* reserve, one transaction under the lock of the table.
Reserve(w, c) ==
    /\ At(w, "reserve")
    /\ LET r == job[w].room IN
       \/ /\ c \notin StaticCalendars /\ Existing(r)
          /\ Bound(w, Stored(r, c), ModeOf(r))
          /\ UNCHANGED <<row, faults>>
       \/ /\ c \in StaticCalendars \/ (~ Existing(r) /\ (Taken(c) \/ Full))
          /\ Return(w)
          /\ UNCHANGED <<row, faults>>
       \/ /\ ~ Existing(r) /\ ~ Taken(c) /\ ~ Full
          /\ row' = [row EXCEPT ![r] = [calendar |-> c, status |-> "pending"]]
          /\ \/ Bound(w, c, "create") /\ UNCHANGED faults
             \/ Return(w) /\ CanFail /\ CountFault
    /\ UNCHANGED <<collection, widget, late, created, edits>>

-----------------------------------------------------------------------------
(* finishBinding.                                                           *)

Preflight(w) ==
    /\ At(w, "preflight")
    /\ IF Inspected(job[w].room, job[w].calendar) # "conflict" THEN Goto(w, "inspect")
       ELSE Return(w)
    /\ UNCHANGED <<row, collection, widget, late, created, faults, edits>>

\* Mutant: what supports VEVENT will do for a new binding too.
SuitsAny(mode, kind) == kind \in {"exact", "mixed"}

\* inspectExactCollection accepts the collection.
Suits(mode, kind) == kind = "exact" \/ (mode = "verify" /\ kind = "mixed")

\* Mutant: the widget comes before the binding is ready.
AfterCollectionInstall(w) == "install"

AfterCollection(w) == IF job[w].mode = "create" THEN "ready" ELSE "install"

Found(w, outcome) ==
    job' = [job EXCEPT ![w].outcome = outcome, ![w].step = AfterCollection(w)]

Inspect(w) ==
    /\ At(w, "inspect")
    /\ LET kind == collection[job[w].calendar] IN
       IF Suits(job[w].mode, kind) THEN Found(w, "existing")
       ELSE IF kind = "absent" /\ job[w].mode = "create" THEN Goto(w, "create")
       ELSE Return(w)
    /\ UNCHANGED <<row, collection, widget, late, created, faults, edits>>

\* MKCALENDAR, which Radicale refuses if the collection is there.
Create(w) ==
    /\ At(w, "create")
    /\ LET c == job[w].calendar IN
       \/ /\ collection[c] = "absent"
          /\ collection' \in Made(c) /\ Goto(w, "verify")
          /\ UNCHANGED <<late, faults>>
       \/ /\ collection[c] # "absent"
          /\ Goto(w, "recheck")
          /\ UNCHANGED <<collection, late, faults>>
       \/ /\ CanFail /\ CountFault
          /\ \/ collection' \in {collection} \union Made(c) /\ Goto(w, "recheck") /\ UNCHANGED late
             \/ late' = late \union {c} /\ Return(w) /\ UNCHANGED collection
    /\ UNCHANGED <<row, widget, created, edits>>

\* Mutant: whatever is there has been created now.
OutcomeOfRecheckCreated == "created"

OutcomeOfRecheck == "existing"

\* After a create request that was refused or not answered, and after a good one.
Recheck(w) ==
    /\ At(w, "recheck")
    /\ IF Suits("create", collection[job[w].calendar]) THEN Found(w, OutcomeOfRecheck)
       ELSE Return(w)
    /\ UNCHANGED <<row, collection, widget, late, created, faults, edits>>

Verify(w) ==
    /\ At(w, "verify")
    /\ IF Suits("create", collection[job[w].calendar]) THEN Found(w, "created")
       ELSE Return(w)
    /\ UNCHANGED <<row, collection, widget, late, created, faults, edits>>

MarkReady(w) ==
    /\ At(w, "ready")
    /\ row' = [row EXCEPT ![job[w].room].status = "ready"]
    /\ \/ Goto(w, "install") /\ UNCHANGED faults
       \/ Return(w) /\ CanFail /\ CountFault
    /\ UNCHANGED <<collection, widget, late, created, edits>>

\* The answer: created, widget-installed or already-ready.
Answer(w) ==
    /\ Return(w)
    /\ created' = [created EXCEPT ![job[w].room] = IF job[w].outcome = "created" THEN @ + 1 ELSE @]

\* install reads the widgets before and after it prepares the content.
LookForWidget(w, step, next) ==
    /\ At(w, step)
    /\ LET state == Inspected(job[w].room, job[w].calendar) IN
       \/ state = "matched" /\ Answer(w)
       \/ state = "conflict" /\ Return(w) /\ UNCHANGED created
       \/ state = "absent" /\ Goto(w, next) /\ UNCHANGED created
    /\ UNCHANGED <<row, collection, widget, late, faults, edits>>

Install(w) == LookForWidget(w, "install", "latest")
Latest(w) == LookForWidget(w, "latest", "send")

\* The state event replaces whatever has come in the meantime.
Send(w) ==
    /\ At(w, "send")
    /\ widget' = [widget EXCEPT ![job[w].room][job[w].calendar] = "trusted"]
    /\ \/ Goto(w, "written") /\ UNCHANGED faults
       \/ Return(w) /\ CanFail /\ CountFault
    /\ UNCHANGED <<row, collection, late, created, edits>>

Written(w) ==
    /\ At(w, "written")
    /\ IF widget[job[w].room][job[w].calendar] = "trusted" THEN Answer(w)
       ELSE Return(w) /\ UNCHANGED created
    /\ UNCHANGED <<row, collection, widget, late, faults, edits>>

-----------------------------------------------------------------------------
Work(w) ==
    \/ Snapshot(w) \/ (\E c \in Calendars : Reserve(w, c)) \/ Preflight(w) \/ Inspect(w)
    \/ Create(w) \/ Recheck(w) \/ Verify(w) \/ MarkReady(w) \/ Install(w) \/ Latest(w)
    \/ Send(w) \/ Written(w)

World ==
    \/ \E r \in Rooms, k \in Keys, v \in Widgets \ {"absent"} : EditWidget(r, k, v)
    \/ \E c \in Calendars : Land(c)
    \/ Restart

Next ==
    \/ World
    \/ \E w \in Setups : Work(w) \/ Fail(w) \/ \E r \in Rooms : Ask(w, r)

Spec == Init /\ [][Next]_vars

\* A command that has begun goes on, and somebody asks again for every room.
Fairness ==
    /\ \A w \in Setups : WF_vars(Work(w))
    /\ \A r \in Rooms : SF_vars(\E w \in Setups : Ask(w, r))

FairSpec == Spec /\ Fairness

-----------------------------------------------------------------------------
(* Properties.                                                              *)

\* Types, and past its reservation a command works on the binding of its room.
TypeOK ==
    /\ row \in [Rooms -> Row \union {NoRow}]
    /\ collection \in [Calendars -> Collections]
    /\ widget \in [Rooms -> [Keys -> Widgets]]
    /\ late \subseteq Calendars
    /\ job \in [Setups -> [step : Steps, room : Rooms \union {NoRoom},
                           calendar : Calendars \union {NoCalendar},
                           mode : {"create", "verify"}, outcome : {"existing", "created"}]]
    /\ \A w \in Setups : job[w].step \notin {"idle", "snapshot", "reserve"} =>
          \/ [room |-> job[w].room, calendar |-> job[w].calendar] \in Static
          \/ row[job[w].room].calendar = job[w].calendar
    /\ created \in [Rooms -> Nat]
    /\ faults \in 0 .. MaxFaults /\ edits \in 0 .. MaxEdits

\* ADR043: rooms and collections are bound one to one, over the configuration and the
\* table, and all bindings together, the pending ones too, keep the limit.
OneToOne ==
    /\ \A r, s \in Reserved : row[r].calendar = row[s].calendar => r = s
    /\ \A r \in Reserved : r \notin StaticRooms /\ row[r].calendar \notin StaticCalendars
    /\ Cardinality(Static) + Cardinality(Reserved) <= Limit

\* ADR043: a binding only goes from pending to ready.  A second command, or a retry
\* after any failure, gets the collection ID of the first and no other.
BindingsAreKept ==
    [][\A r \in Rooms : row[r] # NoRow =>
          /\ row'[r].calendar = row[r].calendar
          /\ row[r].status = "ready" => row'[r].status = "ready"]_vars

\* A binding that the rest of the gateway sees has a collection for events of its own.
ReadyHasCollection == \A r \in Rooms : row[r].status = "ready" => collection[row[r].calendar] = "exact"

\* Under the state key of a calendar a room has a widget only if the calendar is the
\* room's and ready, although a widget is written long after the binding was read.
WidgetsShowTheBinding ==
    \A r \in Rooms, c \in Calendars : widget[r][c] # "absent" =>
        [room |-> r, calendar |-> c] \in Static \/ row[r] = [calendar |-> c, status |-> "ready"]

\* Of all commands and retries for a room at most one reports a new calendar.
CreatedOnce == \A r \in Rooms : created[r] <= 1

\* A reservation is not stuck: whoever asks again completes it, unless the widgets of
\* the room, or the collection Radicale has made, are in the way.
InTheWay(r) ==
    /\ row[r] # NoRow
    /\ Inspected(r, row[r].calendar) = "conflict" \/ collection[row[r].calendar] = "mixed"

PendingBecomesReady ==
    \A r \in Rooms : row[r].status = "pending" ~> (row[r].status = "ready" \/ InTheWay(r))
=============================================================================
