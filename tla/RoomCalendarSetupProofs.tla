------------------------ MODULE RoomCalendarSetupProofs ------------------------
(***************************************************************************)
(* Proofs about RoomCalendarSetup, for any rooms, calendars, bindings of   *)
(* the configuration, limit, commands and faults.  The invariant says what *)
(* a command may rely on at each await although others write in between:   *)
(* rows are only added and made ready, collections are only made, and so   *)
(* what a command has read about its binding stays true.                   *)
(***************************************************************************)
EXTENDS RoomCalendarSetup, FiniteSetTheorems, TLAPS

Job == [step : Steps, room : Rooms \union {NoRoom}, calendar : Calendars \union {NoCalendar},
        mode : {"create", "verify"}, outcome : {"existing", "created"}]

JobsOK == job \in [Setups -> Job]
RowsOK == row \in [Rooms -> Row \union {NoRow}]

RestOK ==
    /\ collection \in [Calendars -> Collections]
    /\ widget \in [Rooms -> [Keys -> Widgets]]
    /\ late \subseteq Calendars
    /\ created \in [Rooms -> Nat]
    /\ faults \in 0 .. MaxFaults /\ edits \in 0 .. MaxEdits

CreateSteps == {"create", "recheck", "verify", "ready"}
WidgetSteps == {"install", "latest", "send", "written"}
BindingSteps == {"preflight", "inspect"} \union CreateSteps \union WidgetSteps

\* The gateway shows the room this calendar.
Shown(r, c) == [room |-> r, calendar |-> c] \in Static \/ row[r] = [calendar |-> c, status |-> "ready"]

WillBeShown(r, c) ==
    [room |-> r, calendar |-> c] \in Static \/ row'[r] = [calendar |-> c, status |-> "ready"]

\* What a command knows at its await.
Informed(w) ==
    /\ job[w].step # "idle" => job[w].room \in Rooms
    /\ job[w].step = "reserve" => job[w].room \notin StaticRooms
    /\ job[w].step \in BindingSteps =>
          /\ job[w].calendar \in Calendars
          /\ job[w].mode = "create" => row[job[w].room].calendar = job[w].calendar
          /\ job[w].mode = "verify" => Shown(job[w].room, job[w].calendar)
    /\ job[w].step \in CreateSteps => job[w].mode = "create"
    /\ job[w].step = "ready" => collection[job[w].calendar] = "exact"
    /\ job[w].step \in WidgetSteps => Shown(job[w].room, job[w].calendar)
    /\ job[w].step \notin WidgetSteps \union {"ready"} => job[w].outcome = "existing"

TypeInv == RowsOK /\ JobsOK /\ RestOK /\ \A w \in Setups : Informed(w)

\* What a step may do to the rows and the collections.
RowMoves ==
    /\ RowsOK'
    /\ \A r \in Rooms : row[r] # NoRow =>
          /\ row'[r] # NoRow /\ row'[r].calendar = row[r].calendar
          /\ row[r].status = "ready" => row'[r] = row[r]

CollectionMoves ==
    /\ collection' \in [Calendars -> Collections]
    /\ \A c \in Calendars : collection[c] # "absent" => collection'[c] = collection[c]

\* A step moves one command only.
Alone(w) == JobsOK' /\ \A v \in Setups \ {w} : job'[v] = job[v]

-----------------------------------------------------------------------------
(* Steps of a command.                                                      *)

\* The next await.
LEMMA GotoStep ==
    ASSUME JobsOK, NEW w \in Setups, NEW step \in Steps, Goto(w, step)
    PROVE  /\ Alone(w) /\ job'[w].step = step /\ job'[w].room = job[w].room
           /\ job'[w].calendar = job[w].calendar /\ job'[w].mode = job[w].mode
           /\ job'[w].outcome = job[w].outcome
  BY DEF JobsOK, Job, Goto, Alone

\* The end of a command.
LEMMA ReturnStep ==
    ASSUME JobsOK, NEW w \in Setups, Return(w)
    PROVE  Alone(w) /\ job'[w] = Idle
  BY DEF JobsOK, Job, Return, Idle, Steps, Alone

\* The binding of the room has been found out.
LEMMA BoundStep ==
    ASSUME JobsOK, NEW w \in Setups, NEW c \in Calendars, NEW mode \in {"create", "verify"},
           Bound(w, c, mode)
    PROVE  /\ Alone(w) /\ job'[w].step = "preflight" /\ job'[w].room = job[w].room
           /\ job'[w].calendar = c /\ job'[w].mode = mode
           /\ job'[w].outcome = job[w].outcome
  <1> DEFINE j == [step |-> "preflight", room |-> job[w].room, calendar |-> c, mode |-> mode,
                   outcome |-> job[w].outcome]
  <1>1. job[w] \in Job /\ j \in Job
    BY DEF JobsOK, Job, Steps
  <1>2. job' = [job EXCEPT ![w] = j]
    BY DEF Bound, JobsOK
  <1> QED
    BY <1>1, <1>2 DEF JobsOK, Alone

\* The collection has been found or made.
LEMMA FoundStep ==
    ASSUME JobsOK, NEW w \in Setups, NEW outcome \in {"existing", "created"}, Found(w, outcome)
    PROVE  /\ Alone(w) /\ job'[w].step = AfterCollection(w) /\ job'[w].room = job[w].room
           /\ job'[w].calendar = job[w].calendar /\ job'[w].mode = job[w].mode
           /\ job'[w].outcome = outcome
  BY DEF JobsOK, Job, Found, AfterCollection, Steps, Alone

\* A command that has ended knows nothing.
LEMMA IdleInformed ==
    ASSUME NEW w \in Setups, job'[w] = Idle PROVE Informed(w)'
  BY DEF Informed, Idle, BindingSteps, CreateSteps, WidgetSteps

\* What has been true of a binding and its collection stays true.
LEMMA Persist ==
    ASSUME RowMoves, CollectionMoves
    PROVE  /\ \A r \in Rooms, c \in Calendars : Shown(r, c) => WillBeShown(r, c)
           /\ \A r \in Rooms, c \in Calendars : row[r].calendar = c => row'[r].calendar = c
           /\ \A c \in Calendars : collection[c] = "exact" => collection'[c] = "exact"
  BY SetupConstantsOk DEF Shown, WillBeShown, RowMoves, CollectionMoves, NoRow

\* The groups of steps.
LEMMA StepGroups ==
    /\ CreateSteps \union WidgetSteps \subseteq BindingSteps /\ BindingSteps \subseteq Steps
    /\ "ready" \in CreateSteps /\ BindingSteps \intersect {"idle", "snapshot", "reserve"} = {}
    /\ CreateSteps \intersect WidgetSteps = {}
  BY DEF CreateSteps, WidgetSteps, BindingSteps, Steps

\* A command goes on with its binding.
LEMMA GoesOn ==
    ASSUME TypeInv, RowMoves, CollectionMoves, NEW w \in Setups,
           job[w].step \in BindingSteps,
           job'[w].step \in BindingSteps, job'[w].room = job[w].room,
           job'[w].calendar = job[w].calendar, job'[w].mode = job[w].mode,
           job'[w].step \in CreateSteps => job[w].mode = "create",
           job'[w].step = "ready" => collection[job[w].calendar] = "exact",
           job'[w].step \in WidgetSteps =>
               \/ job[w].step \in WidgetSteps \/ job[w].mode = "verify"
               \/ WillBeShown(job[w].room, job[w].calendar),
           job'[w].step \notin WidgetSteps \union {"ready"} => job'[w].outcome = "existing"
    PROVE  Informed(w)'
  <1>1. Informed(w)
    BY DEF TypeInv
  <1>2. job[w].room \in Rooms /\ job[w].calendar \in Calendars
    BY <1>1, StepGroups DEF Informed
  <1>3. /\ job[w].mode = "create" => row'[job[w].room].calendar = job[w].calendar
        /\ job[w].mode = "verify" => WillBeShown(job[w].room, job[w].calendar)
        /\ job[w].step \in WidgetSteps => WillBeShown(job[w].room, job[w].calendar)
    BY <1>1, <1>2, Persist DEF Informed
  <1>4. collection[job[w].calendar] = "exact" => collection'[job[w].calendar] = "exact"
    BY <1>2, Persist
  <1>5. Shown(job[w].room, job[w].calendar)' <=> WillBeShown(job[w].room, job[w].calendar)
    BY DEF Shown, WillBeShown
  <1> QED
    BY <1>2, <1>3, <1>4, <1>5, StepGroups DEF Informed

\* What a waiting command knows stays true.
LEMMA StaysInformed ==
    ASSUME TypeInv, RowMoves, CollectionMoves, NEW w \in Setups, job'[w] = job[w]
    PROVE  Informed(w)'
  <1>1. Informed(w)
    BY DEF TypeInv
  <1>2. CASE job[w].step \in BindingSteps
    BY <1>1, <1>2, GoesOn DEF Informed
  <1>3. CASE job[w].step \notin BindingSteps
    <2>1. StaticRooms' = StaticRooms
      BY DEF StaticRooms
    <2> QED
      BY <1>1, <1>3, <2>1, StepGroups DEF Informed
  <1> QED
    BY <1>2, <1>3

-----------------------------------------------------------------------------
(* The tables.                                                              *)

\* A row has a calendar, and no row has none.
LEMMA RowOrNone ==
    ASSUME RowsOK, NEW r \in Rooms
    PROVE  /\ row[r] # NoRow <=> row[r].calendar \in Calendars
           /\ row[r] # NoRow => row[r] \in Row
           /\ row[r].status \in {"pending", "ready"} => row[r] # NoRow
  BY SetupConstantsOk DEF RowsOK, Row, NoRow

\* Only a reservation and markReady write the table.
LEMMA RowWriters ==
    [Next]_vars => \/ UNCHANGED row
                   \/ \E w \in Setups, c \in Calendars : Reserve(w, c)
                   \/ \E w \in Setups : MarkReady(w)
  BY DEF Next, World, Work, vars, EditWidget, Land, Restart, Fail, Ask, Snapshot, Preflight,
         Inspect, Create, Recheck, Verify, LookForWidget, Install, Latest, Send, Written

\* A reservation adds a row for a room that has none, or leaves the table alone.
LEMMA ReserveRow ==
    ASSUME TypeInv, NEW w \in Setups, NEW c \in Calendars, Reserve(w, c)
    PROVE  \/ UNCHANGED row
           \/ /\ row[job[w].room] = NoRow /\ job[w].room \in Rooms \ StaticRooms
              /\ ~ Taken(c) /\ ~ Full
              /\ row' = [row EXCEPT ![job[w].room] = [calendar |-> c, status |-> "pending"]]
  BY DEF Reserve, Existing, At, TypeInv, Informed

\* markReady finds the row of the command.
LEMMA MarkReadyRow ==
    ASSUME TypeInv, NEW w \in Setups, MarkReady(w)
    PROVE  /\ job[w].room \in Rooms /\ row[job[w].room] # NoRow
           /\ row[job[w].room].calendar = job[w].calendar
           /\ collection[job[w].calendar] = "exact"
           /\ row' = [row EXCEPT ![job[w].room] =
                        [calendar |-> job[w].calendar, status |-> "ready"]]
  <1>1. /\ job[w].step = "ready" /\ job[w].step \in CreateSteps \intersect BindingSteps
        /\ row' = [row EXCEPT ![job[w].room].status = "ready"]
    BY DEF MarkReady, At, CreateSteps, BindingSteps
  <1>2. /\ job[w].room \in Rooms /\ job[w].calendar \in Calendars
        /\ row[job[w].room].calendar = job[w].calendar /\ collection[job[w].calendar] = "exact"
    BY <1>1 DEF TypeInv, Informed
  <1>3. row[job[w].room] \in Row /\ row[job[w].room] # NoRow
    BY <1>2, RowOrNone DEF TypeInv
  <1>4. [row[job[w].room] EXCEPT !.status = "ready"] = [calendar |-> job[w].calendar, status |-> "ready"]
    BY <1>2, <1>3 DEF Row
  <1> QED
    BY <1>1, <1>2, <1>3, <1>4 DEF TypeInv, RowsOK

\* Rows are added and become ready, and nothing else happens to them.
LEMMA RowsMove == TypeInv /\ [Next]_vars => RowMoves
  <1> SUFFICES ASSUME TypeInv, [Next]_vars PROVE RowMoves
    OBVIOUS
  <1>1. RowsOK
    BY DEF TypeInv
  <1>2. CASE UNCHANGED row
    BY <1>1, <1>2 DEF RowMoves, RowsOK
  <1>3. ASSUME NEW w \in Setups, NEW c \in Calendars, Reserve(w, c) PROVE RowMoves
    <2>1. [calendar |-> c, status |-> "pending"] \in Row /\ [calendar |-> c, status |-> "pending"] # NoRow
      BY DEF Row, NoRow
    <2> QED
      BY <1>1, <1>2, <1>3, <2>1, ReserveRow DEF RowMoves, RowsOK
  <1>4. ASSUME NEW w \in Setups, MarkReady(w) PROVE RowMoves
    <2> DEFINE r == job[w].room  c == job[w].calendar
    <2>1. /\ r \in Rooms /\ row[r] # NoRow /\ row[r].calendar = c
          /\ row' = [row EXCEPT ![r] = [calendar |-> c, status |-> "ready"]]
      BY <1>4, MarkReadyRow
    <2>2. row[r] \in Row /\ c \in Calendars
      BY <1>1, <2>1, RowOrNone
    <2>3. /\ [calendar |-> c, status |-> "ready"] \in Row
          /\ [calendar |-> c, status |-> "ready"] # NoRow
          /\ row[r].status = "ready" => row[r] = [calendar |-> c, status |-> "ready"]
      BY <2>1, <2>2 DEF Row, NoRow
    <2> QED
      BY <1>1, <2>1, <2>3 DEF RowMoves, RowsOK
  <1> QED
    BY <1>2, <1>3, <1>4, RowWriters

\* Only requests to Radicale change a collection, and only one that is absent.
LEMMA CollectionsMove == TypeInv /\ [Next]_vars => CollectionMoves
  <1> SUFFICES ASSUME TypeInv, [Next]_vars PROVE CollectionMoves
    OBVIOUS
  <1>1. \/ UNCHANGED collection
        \/ \E c \in Calendars : Land(c)
        \/ \E w \in Setups : Create(w)
    BY DEF Next, World, Work, vars, EditWidget, Restart, Fail, Ask, Snapshot, Reserve, Preflight,
           Inspect, Recheck, Verify, MarkReady, LookForWidget, Install, Latest, Send, Written
  <1>2. collection \in [Calendars -> Collections]
    BY DEF TypeInv, RestOK
  <1>3. ASSUME NEW c \in Calendars, collection' \in {collection} \union Made(c)
        PROVE  CollectionMoves
    BY <1>2, <1>3 DEF Made, CollectionMoves, Collections
  <1>4. CASE UNCHANGED collection
    BY <1>2, <1>4 DEF CollectionMoves
  <1>5. ASSUME NEW c \in Calendars, Land(c) PROVE CollectionMoves
    BY <1>3, <1>5 DEF Land
  <1>6. ASSUME NEW w \in Setups, Create(w) PROVE CollectionMoves
    <2>1. job[w].calendar \in Calendars
      BY <1>6 DEF TypeInv, Informed, Create, At, BindingSteps, CreateSteps
    <2> QED
      BY <1>3, <1>4, <1>6, <2>1 DEF Create
  <1> QED
    BY <1>1, <1>4, <1>5, <1>6

-----------------------------------------------------------------------------
(* The commands.                                                            *)

\* Every step of a command leaves it well informed, and the others alone.
LEMMA WorkMoves ==
    ASSUME TypeInv, RowMoves, CollectionMoves, NEW w \in Setups, Work(w)
    PROVE  Alone(w) /\ Informed(w)'
  <1>t. JobsOK /\ RowsOK /\ Informed(w) /\ job[w] \in Job
    BY DEF TypeInv, JobsOK
  <1>r. ASSUME Return(w) PROVE Alone(w) /\ Informed(w)'
    BY <1>r, <1>t, ReturnStep, IdleInformed
  <1>g. ASSUME NEW step \in BindingSteps, Goto(w, step), job[w].step \in BindingSteps,
               step \in CreateSteps => job[w].mode = "create", step # "ready",
               step \in WidgetSteps =>
                   job[w].step \in WidgetSteps \/ WillBeShown(job[w].room, job[w].calendar),
               step \notin WidgetSteps => job[w].step \notin WidgetSteps \union {"ready"}
        PROVE  Alone(w) /\ Informed(w)'
    <2>1. step \notin WidgetSteps \union {"ready"} => job[w].outcome = "existing"
      BY <1>t, <1>g DEF Informed
    <2> QED
      BY <1>t, <1>g, <2>1, GotoStep, GoesOn, StepGroups
  <1>b. ASSUME NEW c \in Calendars, NEW mode \in {"create", "verify"}, Bound(w, c, mode),
               job[w].room \in Rooms, job[w].outcome = "existing",
               mode = "create" => row'[job[w].room].calendar = c,
               mode = "verify" => WillBeShown(job[w].room, c)
        PROVE  Alone(w) /\ Informed(w)'
    <2>1. /\ Alone(w) /\ job'[w].step = "preflight" /\ job'[w].room = job[w].room
          /\ job'[w].calendar = c /\ job'[w].mode = mode /\ job'[w].outcome = "existing"
      BY <1>t, <1>b, BoundStep
    <2>2. Shown(job[w].room, job[w].calendar)' <=> WillBeShown(job[w].room, c)
      BY <2>1 DEF Shown, WillBeShown
    <2> QED
      BY <1>b, <2>1, <2>2 DEF Informed, BindingSteps, CreateSteps, WidgetSteps
  <1>f. ASSUME NEW outcome \in {"existing", "created"}, Found(w, outcome),
               job[w].step \in {"inspect", "recheck", "verify"},
               Suits(job[w].mode, collection[job[w].calendar])
        PROVE  Alone(w) /\ Informed(w)'
    <2>1. /\ Alone(w) /\ job'[w].step = AfterCollection(w) /\ job'[w].room = job[w].room
          /\ job'[w].calendar = job[w].calendar /\ job'[w].mode = job[w].mode
      BY <1>t, <1>f, FoundStep
    <2>2. AfterCollection(w) \in {"ready", "install"} /\ job[w].step \in BindingSteps
      BY <1>f DEF AfterCollection, BindingSteps, CreateSteps
    <2>3. CASE job[w].mode = "create"
      <3>1. AfterCollection(w) = "ready" /\ collection[job[w].calendar] = "exact"
        BY <1>f, <2>3 DEF AfterCollection, Suits
      <3> QED
        BY <2>1, <2>2, <2>3, <3>1, GoesOn, StepGroups
    <2>4. CASE job[w].mode = "verify"
      <3>1. AfterCollection(w) = "install" /\ "install" \in WidgetSteps
        BY <2>4 DEF AfterCollection, WidgetSteps
      <3> QED
        BY <2>1, <2>2, <2>4, <3>1, GoesOn, StepGroups
    <2> QED
      BY <1>t, <2>3, <2>4 DEF Job
  <1>1. CASE Snapshot(w)
    <2> DEFINE r == job[w].room
    <2>1. r \in Rooms /\ job[w].outcome = "existing" /\ UNCHANGED row
      BY <1>1, <1>t DEF Snapshot, At, Informed, WidgetSteps
    <2>2. ASSUME NEW b \in Static, b.room = r, Bound(w, b.calendar, "verify") PROVE Alone(w) /\ Informed(w)'
      <3>1. b.calendar \in Calendars /\ b = [room |-> r, calendar |-> b.calendar]
        BY <2>2, SetupConstantsOk
      <3> QED
        BY <1>b, <2>1, <2>2, <3>1 DEF WillBeShown
    <2>3. CASE row[r].status = "ready" /\ Bound(w, row[r].calendar, "verify")
      <3>1. row[r] \in Row /\ row[r].calendar \in Calendars
        BY <1>t, <2>1, <2>3, RowOrNone
      <3>2. row'[r] = [calendar |-> row[r].calendar, status |-> "ready"]
        BY <2>1, <2>3, <3>1 DEF Row
      <3>3. WillBeShown(r, row[r].calendar)
        BY <2>1, <3>2 DEF WillBeShown
      <3> QED
        BY <1>b, <2>1, <2>3, <3>1, <3>3
    <2>4. CASE r \notin StaticRooms /\ Goto(w, "reserve")
      <3>1. Alone(w) /\ job'[w].step = "reserve" /\ job'[w].room = r /\ job'[w].outcome = "existing"
        BY <1>t, <2>1, <2>4, GotoStep DEF Steps
      <3>2. StaticRooms' = StaticRooms
        BY DEF StaticRooms
      <3> QED
        BY <2>1, <2>4, <3>1, <3>2 DEF Informed, BindingSteps, CreateSteps, WidgetSteps
    <2> QED
      BY <1>1, <2>2, <2>3, <2>4 DEF Snapshot
  <1>2. ASSUME NEW c \in Calendars, Reserve(w, c) PROVE Alone(w) /\ Informed(w)'
    <2> DEFINE r == job[w].room
    <2>1. r \in Rooms /\ job[w].outcome = "existing"
      BY <1>2, <1>t DEF Reserve, At, Informed, WidgetSteps
    <2>2. CASE row[r] # NoRow /\ Bound(w, Stored(r, c), ModeOf(r)) /\ UNCHANGED row
      <3>1. row[r] \in Row /\ row[r].calendar \in Calendars /\ row'[r] = row[r]
        BY <1>t, <2>1, <2>2, RowOrNone
      <3>2. ModeOf(r) \in {"create", "verify"} /\ (ModeOf(r) = "verify" => row[r].status = "ready")
        BY <3>1 DEF ModeOf, Row
      <3>3. row[r].status = "ready" => row'[r] = [calendar |-> row[r].calendar, status |-> "ready"]
        BY <3>1 DEF Row
      <3>4. ModeOf(r) = "verify" => WillBeShown(r, row[r].calendar)
        BY <2>1, <2>2, <3>2, <3>3 DEF WillBeShown
      <3> QED
        BY <1>b, <2>1, <2>2, <3>1, <3>2, <3>4 DEF Stored
    <2>3. CASE row' = [row EXCEPT ![r] = [calendar |-> c, status |-> "pending"]] /\ Bound(w, c, "create")
      <3>1. row'[r].calendar = c
        BY <1>t, <2>1, <2>3 DEF RowsOK
      <3> QED
        BY <1>b, <2>1, <2>3, <3>1
    <2> QED
      BY <1>2, <1>r, <2>2, <2>3 DEF Reserve, Existing
  <1>3. CASE Preflight(w)
    BY <1>3, <1>r, <1>g DEF Preflight, At, BindingSteps, CreateSteps, WidgetSteps
  <1>4. CASE Inspect(w)
    <2>1. CASE Suits(job[w].mode, collection[job[w].calendar]) /\ Found(w, "existing")
      BY <1>4, <1>f, <2>1 DEF Inspect, At
    <2>2. CASE job[w].mode = "create" /\ Goto(w, "create")
      BY <1>4, <1>g, <2>2 DEF Inspect, At, BindingSteps, CreateSteps, WidgetSteps
    <2> QED
      BY <1>4, <1>r, <2>1, <2>2 DEF Inspect
  <1>5. CASE Create(w)
    <2>1. /\ job[w].step = "create" /\ job[w].step \in BindingSteps /\ job[w].mode = "create"
          /\ job[w].step \notin WidgetSteps \union {"ready"}
      BY <1>5, <1>t DEF Create, At, Informed, BindingSteps, CreateSteps, WidgetSteps
    <2>2. "verify" \in BindingSteps \ WidgetSteps /\ "recheck" \in BindingSteps \ WidgetSteps
      BY DEF BindingSteps, CreateSteps, WidgetSteps
    <2>3. Goto(w, "verify") \/ Goto(w, "recheck") \/ Return(w)
      BY <1>5 DEF Create
    <2> QED
      BY <1>r, <1>g, <2>1, <2>2, <2>3
  <1>6. CASE Recheck(w) \/ Verify(w)
    <2>1. job[w].step \in {"recheck", "verify"} /\ job[w].mode = "create"
      BY <1>6, <1>t DEF Recheck, Verify, At, Informed, CreateSteps
    <2>2. \/ Return(w)
          \/ /\ Suits("create", collection[job[w].calendar])
             /\ Found(w, "existing") \/ Found(w, "created")
      BY <1>6 DEF Recheck, Verify, OutcomeOfRecheck
    <2> QED
      BY <1>r, <1>f, <2>1, <2>2
  <1>7. CASE MarkReady(w)
    <2>1. /\ job[w].room \in Rooms
          /\ row' = [row EXCEPT ![job[w].room] = [calendar |-> job[w].calendar, status |-> "ready"]]
      BY <1>7, MarkReadyRow
    <2>2. WillBeShown(job[w].room, job[w].calendar)
      BY <1>t, <2>1 DEF WillBeShown, RowsOK
    <2>3. "install" \in WidgetSteps /\ "install" \in BindingSteps \ CreateSteps
      BY DEF BindingSteps, CreateSteps, WidgetSteps
    <2>4. job[w].step \in BindingSteps /\ (Goto(w, "install") \/ Return(w))
      BY <1>7 DEF MarkReady, At, BindingSteps, CreateSteps
    <2> QED
      BY <1>r, <1>g, <2>2, <2>3, <2>4
  <1>8. CASE Install(w) \/ Latest(w) \/ Send(w) \/ Written(w)
    <2>1. job[w].step \in WidgetSteps
      BY <1>8 DEF Install, Latest, LookForWidget, Send, Written, At, WidgetSteps
    <2>2. \/ Return(w)
          \/ \E next \in WidgetSteps : Goto(w, next)
      BY <1>8 DEF Install, Latest, LookForWidget, Send, Written, Answer, WidgetSteps
    <2> QED
      BY <1>r, <1>g, <2>1, <2>2, StepGroups
  <1> QED
    BY <1>1, <1>2, <1>3, <1>4, <1>5, <1>6, <1>7, <1>8 DEF Work

\* Whatever happens, every command stays well informed.
LEMMA JobsMove ==
    TypeInv /\ RowMoves /\ CollectionMoves /\ [Next]_vars
        => JobsOK' /\ \A w \in Setups : Informed(w)'
  <1> SUFFICES ASSUME TypeInv, RowMoves, CollectionMoves, [Next]_vars
               PROVE  JobsOK' /\ \A w \in Setups : Informed(w)'
    OBVIOUS
  <1>t. JobsOK
    BY DEF TypeInv
  <1>u. CASE UNCHANGED job
    BY <1>t, <1>u, StaysInformed DEF JobsOK
  <1>a. ASSUME NEW w \in Setups, Alone(w), Informed(w)'
        PROVE  JobsOK' /\ \A v \in Setups : Informed(v)'
    BY <1>a, StaysInformed DEF Alone
  <1>1. ASSUME NEW w \in Setups, Work(w) PROVE JobsOK' /\ \A v \in Setups : Informed(v)'
    BY <1>1, <1>a, WorkMoves
  <1>2. ASSUME NEW w \in Setups, Fail(w) PROVE JobsOK' /\ \A v \in Setups : Informed(v)'
    BY <1>2, <1>t, <1>a, ReturnStep, IdleInformed DEF Fail
  <1>3. ASSUME NEW w \in Setups, NEW r \in Rooms, Ask(w, r)
        PROVE  JobsOK' /\ \A v \in Setups : Informed(v)'
    <2>1. Alone(w) /\ job'[w] = [Idle EXCEPT !.step = "snapshot", !.room = r]
      BY <1>3, <1>t DEF Ask, JobsOK, Job, Idle, Steps, Alone
    <2>2. Informed(w)'
      BY <2>1 DEF Informed, Idle, BindingSteps, CreateSteps, WidgetSteps
    <2> QED
      BY <2>1, <2>2, <1>a
  <1>4. CASE Restart
    BY <1>4, IdleInformed DEF Restart, JobsOK, Job, Idle, Steps
  <1> QED
    BY <1>u, <1>1, <1>2, <1>3, <1>4 DEF Next, World, EditWidget, Land, vars

\* The widgets, the counters and what is late keep their types.
LEMMA RestMoves == TypeInv /\ CollectionMoves /\ [Next]_vars => RestOK'
  <1> SUFFICES ASSUME TypeInv, CollectionMoves, [Next]_vars PROVE RestOK'
    OBVIOUS
  <1>c. collection' \in [Calendars -> Collections]
    BY DEF CollectionMoves
  <1>f. (CountFault /\ CanFail) \/ UNCHANGED faults => faults' \in 0 .. MaxFaults
    BY SetupConstantsOk DEF TypeInv, RestOK, CountFault, CanFail
  <1>e. (edits < MaxEdits /\ edits' = edits + 1) \/ UNCHANGED edits => edits' \in 0 .. MaxEdits
    BY SetupConstantsOk DEF TypeInv, RestOK
  <1>w. ASSUME NEW r \in Rooms, NEW k \in Keys, NEW v \in Widgets,
               widget' = [widget EXCEPT ![r][k] = v]
        PROVE  widget' \in [Rooms -> [Keys -> Widgets]]
    <2>1. widget[r] \in [Keys -> Widgets] /\ [widget[r] EXCEPT ![k] = v] \in [Keys -> Widgets]
      BY DEF TypeInv, RestOK
    <2>2. widget' = [widget EXCEPT ![r] = [widget[r] EXCEPT ![k] = v]]
      BY <1>w
    <2> QED
      BY <2>1, <2>2 DEF TypeInv, RestOK
  <1>j. ASSUME NEW w \in Setups, job[w].step \in BindingSteps
        PROVE  job[w].room \in Rooms /\ job[w].calendar \in Calendars
    BY <1>j, StepGroups DEF TypeInv, Informed
  <1>a. ASSUME NEW w \in Setups, job[w].step \in WidgetSteps, Answer(w)
        PROVE  created' \in [Rooms -> Nat]
    <2> DEFINE r == job[w].room
               n == IF job[w].outcome = "created" THEN created[r] + 1 ELSE created[r]
    <2>1. r \in Rooms /\ created \in [Rooms -> Nat]
      BY <1>a, <1>j, StepGroups DEF TypeInv, RestOK
    <2>2. created' = [created EXCEPT ![r] = n] /\ n \in Nat
      BY <1>a, <2>1 DEF Answer
    <2> QED
      BY <2>1, <2>2
  <1>1. ASSUME NEW r \in Rooms, NEW k \in Keys, NEW v \in Widgets, EditWidget(r, k, v) PROVE RestOK'
    BY <1>1, <1>c, <1>f, <1>e, <1>w DEF EditWidget, TypeInv, RestOK
  <1>2. ASSUME NEW c \in Calendars, Land(c) PROVE RestOK'
    BY <1>2, <1>c, <1>f, <1>e DEF Land, TypeInv, RestOK
  <1>3. CASE Restart
    BY <1>3, <1>c, <1>f, <1>e DEF Restart, TypeInv, RestOK
  <1>4. ASSUME NEW w \in Setups, Fail(w) \/ \E r \in Rooms : Ask(w, r) PROVE RestOK'
    BY <1>4, <1>c, <1>f, <1>e DEF Fail, Ask, TypeInv, RestOK
  <1>5. ASSUME NEW w \in Setups, Work(w) PROVE RestOK'
    <2>1. CASE \/ Snapshot(w) \/ Preflight(w) \/ Inspect(w) \/ Recheck(w) \/ Verify(w)
      BY <2>1, <1>c, <1>f, <1>e DEF Snapshot, Preflight, Inspect, Recheck, Verify, TypeInv, RestOK
    <2>2. CASE (\E c \in Calendars : Reserve(w, c)) \/ MarkReady(w)
      BY <2>2, <1>c, <1>f, <1>e DEF Reserve, MarkReady, TypeInv, RestOK
    <2>3. CASE Create(w)
      <3>1. job[w].calendar \in Calendars
        BY <2>3, <1>j DEF Create, At, BindingSteps, CreateSteps
      <3>2. late' \subseteq Calendars
        BY <2>3, <3>1 DEF Create, TypeInv, RestOK
      <3> QED
        BY <2>3, <3>2, <1>c, <1>f, <1>e DEF Create, TypeInv, RestOK
    <2>4. CASE Install(w) \/ Latest(w) \/ Written(w)
      <3>1. job[w].step \in WidgetSteps
        BY <2>4 DEF Install, Latest, Written, LookForWidget, At, WidgetSteps
      <3> QED
        BY <2>4, <3>1, <1>c, <1>f, <1>e, <1>a DEF Install, Latest, Written, LookForWidget, TypeInv, RestOK
    <2>5. CASE Send(w)
      <3>1. job[w].room \in Rooms /\ job[w].calendar \in Keys
        BY <2>5, <1>j DEF Send, At, BindingSteps, WidgetSteps, Keys
      <3>2. widget' \in [Rooms -> [Keys -> Widgets]]
        BY <2>5, <3>1, <1>w DEF Send, Widgets
      <3> QED
        BY <2>5, <3>2, <1>c, <1>f, <1>e DEF Send, TypeInv, RestOK
    <2> QED
      BY <1>5, <2>1, <2>2, <2>3, <2>4, <2>5 DEF Work
  <1>6. CASE UNCHANGED vars
    BY <1>6, <1>c, <1>f, <1>e DEF vars, TypeInv, RestOK
  <1> QED
    BY <1>1, <1>2, <1>3, <1>4, <1>5, <1>6 DEF Next, World

\* Nothing is bound in the beginning.
LEMMA InitTypeInv == Init => TypeInv
  <1> SUFFICES ASSUME Init PROVE TypeInv
    OBVIOUS
  <1>1. RowsOK /\ JobsOK
    BY DEF Init, RowsOK, JobsOK, Job, Idle, Steps
  <1>2. RestOK
    BY SetupConstantsOk DEF Init, RestOK, Widgets
  <1>3. \A w \in Setups : Informed(w)
    BY DEF Init, Informed, Idle, BindingSteps, CreateSteps, WidgetSteps
  <1> QED
    BY <1>1, <1>2, <1>3 DEF TypeInv

\* The type invariant is inductive.
LEMMA TypeInvariant == Spec => []TypeInv
  <1>1. TypeInv /\ [Next]_vars => TypeInv'
    BY RowsMove, CollectionsMove, JobsMove, RestMoves DEF TypeInv, RowMoves
  <1> QED
    BY <1>1, InitTypeInv, PTL DEF Spec

\* Every variable keeps its type, and past its reservation a command works on the
\* binding of its room, whatever it drew itself.
THEOREM TypeCorrect == Spec => []TypeOK
  <1>1. TypeInv => TypeOK
    <2> SUFFICES ASSUME TypeInv PROVE TypeOK
      OBVIOUS
    <2>1. ASSUME NEW w \in Setups, job[w].step \notin {"idle", "snapshot", "reserve"}
          PROVE  \/ [room |-> job[w].room, calendar |-> job[w].calendar] \in Static
                 \/ row[job[w].room].calendar = job[w].calendar
      <3>1. job[w] \in Job /\ Informed(w)
        BY DEF TypeInv, JobsOK
      <3>2. job[w].step \in BindingSteps
        BY <2>1, <3>1 DEF Job, Steps, BindingSteps, CreateSteps, WidgetSteps
      <3> QED
        BY <3>1, <3>2 DEF Job, Informed, Shown
    <2> QED
      BY <2>1 DEF TypeInv, RowsOK, JobsOK, Job, RestOK, TypeOK
  <1> QED
    BY <1>1, TypeInvariant, PTL

\* A binding goes from pending to ready and nowhere else: later commands and retries
\* get the collection of the first.
THEOREM BindingsStay == Spec => BindingsAreKept
  <1>1. TypeInv /\ [Next]_vars =>
          [\A r \in Rooms : row[r] # NoRow =>
              /\ row'[r].calendar = row[r].calendar
              /\ row[r].status = "ready" => row'[r].status = "ready"]_vars
    BY RowsMove DEF RowMoves
  <1> QED
    BY <1>1, TypeInvariant, PTL DEF Spec, BindingsAreKept

-----------------------------------------------------------------------------
(* One to one, within the limit.                                            *)

Dynamic(r) == row[r] # NoRow => r \notin StaticRooms /\ row[r].calendar \notin StaticCalendars
Apart(r, s) == row[r] # NoRow /\ row[s] # NoRow /\ row[r].calendar = row[s].calendar => r = s

\* The conjuncts of OneToOne, room by room.
LEMMA OneToOneParts ==
    OneToOne <=> /\ \A r, s \in Rooms : Apart(r, s)
                 /\ \A r \in Rooms : Dynamic(r)
                 /\ Cardinality(Static) + Cardinality(Reserved) <= Limit
  BY DEF OneToOne, Reserved, Apart, Dynamic

\* A reservation that the lock of the table lets through breaks nothing.
LEMMA ReservationFits ==
    ASSUME TypeInv, OneToOne, NEW r \in Rooms, NEW c \in Calendars,
           row[r] = NoRow, r \notin StaticRooms, ~ Taken(c), ~ Full,
           row' = [row EXCEPT ![r] = [calendar |-> c, status |-> "pending"]]
    PROVE  OneToOne'
  <1>1. [calendar |-> c, status |-> "pending"] # NoRow
    BY DEF NoRow
  <1>2. row'[r] = [calendar |-> c, status |-> "pending"] /\ \A s \in Rooms \ {r} : row'[s] = row[s]
    BY DEF TypeInv, RowsOK
  <1>3. \A s \in Rooms : row[s] # NoRow => row[s].calendar # c
    BY DEF Taken, Reserved
  <1>4. (\A s, t \in Rooms : Apart(s, t))'
    BY <1>1, <1>2, <1>3, OneToOneParts DEF Apart
  <1>5. c \notin StaticCalendars /\ StaticRooms' = StaticRooms /\ StaticCalendars' = StaticCalendars
    BY DEF Taken, StaticRooms, StaticCalendars
  <1>6. (\A s \in Rooms : Dynamic(s))'
    BY <1>1, <1>2, <1>5, OneToOneParts DEF Dynamic
  <1>7. Reserved' = Reserved \union {r} /\ r \notin Reserved
    BY <1>1, <1>2 DEF Reserved
  <1>8. IsFiniteSet(Reserved) /\ IsFiniteSet(Static)
    BY SetupConstantsOk, FS_Subset DEF Reserved
  <1>9. Cardinality(Reserved') = Cardinality(Reserved) + 1
    BY <1>7, <1>8, FS_AddElement
  <1>10. Cardinality(Reserved) \in Nat /\ Cardinality(Static) \in Nat /\ Limit \in Nat
    BY <1>8, FS_CardinalityType, SetupConstantsOk
  <1>11. Cardinality(Static) + Cardinality(Reserved') <= Limit
    BY <1>9, <1>10 DEF Full
  <1> QED
    BY <1>4, <1>6, <1>11 DEF OneToOne, Apart, Dynamic, Reserved

\* Rows that keep their calendars keep them one to one.
LEMMA SameCalendars ==
    ASSUME OneToOne,
           \A r \in Rooms : /\ (row'[r] = NoRow) <=> (row[r] = NoRow)
                            /\ row[r] # NoRow => row'[r].calendar = row[r].calendar
    PROVE  OneToOne'
  <1>1. Reserved' = Reserved
    BY DEF Reserved
  <1>2. StaticRooms' = StaticRooms /\ StaticCalendars' = StaticCalendars
    BY DEF StaticRooms, StaticCalendars
  <1> QED
    BY <1>1, <1>2 DEF OneToOne, Reserved

\* Rooms and collections are bound one to one and within the limit, for any number of
\* commands that reserve at once.
THEOREM BindingsAreOneToOne == Spec => []OneToOne
  <1>1. Init => OneToOne
    <2> SUFFICES ASSUME Init PROVE OneToOne
      OBVIOUS
    <2>1. Reserved = {}
      BY DEF Init, Reserved
    <2>2. Cardinality(Static) \in Nat
      BY SetupConstantsOk, FS_CardinalityType
    <2> QED
      BY <2>1, <2>2, SetupConstantsOk, FS_EmptySet DEF OneToOne
  <1>2. TypeInv /\ OneToOne /\ [Next]_vars => OneToOne'
    <2> SUFFICES ASSUME TypeInv, OneToOne, [Next]_vars PROVE OneToOne'
      OBVIOUS
    <2>1. CASE UNCHANGED row
      BY <2>1, SameCalendars
    <2>2. ASSUME NEW w \in Setups, NEW c \in Calendars, Reserve(w, c) PROVE OneToOne'
      BY <2>1, <2>2, ReserveRow, ReservationFits
    <2>3. ASSUME NEW w \in Setups, MarkReady(w) PROVE OneToOne'
      <3>1. \A r \in Rooms \ {job[w].room} : row'[r] = row[r]
        BY <2>3, MarkReadyRow DEF TypeInv, RowsOK
      <3>2. row'[job[w].room] # NoRow /\ row[job[w].room] # NoRow
        BY <2>3, MarkReadyRow, RowsMove DEF RowMoves
      <3> QED
        BY <2>3, <3>1, <3>2, RowsMove, SameCalendars DEF RowMoves
    <2> QED
      BY <2>1, <2>2, <2>3, RowWriters
  <1> QED
    BY <1>1, <1>2, TypeInvariant, PTL DEF Spec

-----------------------------------------------------------------------------
(* What the rest of the gateway and the room get to see.                    *)

\* A ready binding has a collection for events of its own: it is made ready after the
\* collection has been looked at, and a collection that is there stays.
THEOREM ReadyCalendarsExist == Spec => []ReadyHasCollection
  <1>1. Init => ReadyHasCollection
    BY DEF Init, ReadyHasCollection, NoRow
  <1>2. TypeInv /\ ReadyHasCollection /\ [Next]_vars => ReadyHasCollection'
    <2> SUFFICES ASSUME TypeInv, ReadyHasCollection, [Next]_vars,
                        NEW r \in Rooms, row'[r].status = "ready"
                 PROVE  collection'[row'[r].calendar] = "exact"
      BY DEF ReadyHasCollection
    <2>1. RowMoves /\ CollectionMoves
      BY RowsMove, CollectionsMove
    <2>2. CASE row[r].status = "ready"
      <3>1. row[r] # NoRow /\ row[r].calendar \in Calendars
        BY <2>2, RowOrNone DEF TypeInv
      <3> QED
        BY <2>1, <2>2, <3>1 DEF RowMoves, CollectionMoves, ReadyHasCollection
    <2>3. CASE row[r].status # "ready"
      <3>1. PICK w \in Setups : MarkReady(w)
        <4>1. ASSUME NEW w \in Setups, NEW c \in Calendars, Reserve(w, c) PROVE FALSE
          <5>1. CASE UNCHANGED row
            BY <5>1, <2>3
          <5>2. CASE row' = [row EXCEPT ![job[w].room] = [calendar |-> c, status |-> "pending"]]
            BY <5>2, <2>3 DEF TypeInv, RowsOK
          <5> QED
            BY <4>1, <5>1, <5>2, ReserveRow
        <4> QED
          BY <4>1, <2>3, RowWriters
      <3>2. r = job[w].room
        BY <2>3, <3>1, MarkReadyRow DEF TypeInv, RowsOK
      <3>3. /\ row'[r].calendar = job[w].calendar /\ collection[job[w].calendar] = "exact"
            /\ job[w].calendar \in Calendars
        <4>1. /\ row[r] # NoRow /\ row[r].calendar = job[w].calendar
              /\ collection[job[w].calendar] = "exact"
          BY <3>1, <3>2, MarkReadyRow
        <4> QED
          BY <2>1, <4>1, RowOrNone DEF RowMoves, TypeInv
      <3> QED
        BY <2>1, <3>3 DEF CollectionMoves
    <2> QED
      BY <2>2, <2>3
  <1> QED
    BY <1>1, <1>2, TypeInvariant, PTL DEF Spec

\* A widget under the state key of a calendar is in the room that shows the calendar:
\* what the command knew when it wrote the widget stays true.
THEOREM WidgetsAreOfTheRoom == Spec => []WidgetsShowTheBinding
  <1>1. Init => WidgetsShowTheBinding
    BY DEF Init, WidgetsShowTheBinding, Keys
  <1>2. TypeInv /\ WidgetsShowTheBinding /\ [Next]_vars => WidgetsShowTheBinding'
    <2> SUFFICES ASSUME TypeInv, WidgetsShowTheBinding, [Next]_vars,
                        NEW r \in Rooms, NEW c \in Calendars, widget'[r][c] # "absent"
                 PROVE  WillBeShown(r, c)
      BY DEF WidgetsShowTheBinding, WillBeShown
    <2>1. Shown(r, c) => WillBeShown(r, c)
      BY RowsMove, CollectionsMove, Persist
    <2>2. widget \in [Rooms -> [Keys -> Widgets]] /\ c \in Keys /\ c # OtherKey
      BY SetupConstantsOk DEF TypeInv, RestOK, Keys
    <2>3. CASE widget[r][c] # "absent"
      BY <2>1, <2>3 DEF WidgetsShowTheBinding, Shown
    <2>4. CASE widget[r][c] = "absent"
      <3>1. \/ UNCHANGED widget
            \/ \E q \in Rooms, k \in Keys, v \in Widgets : EditWidget(q, k, v)
            \/ \E w \in Setups : Send(w)
        BY DEF Next, World, Work, vars, Land, Restart, Fail, Ask, Snapshot, Reserve, Preflight,
               Inspect, Create, Recheck, Verify, MarkReady, LookForWidget, Install, Latest, Written
      <3>2. ASSUME NEW q \in Rooms, NEW k \in Keys, NEW v \in Widgets, EditWidget(q, k, v) PROVE FALSE
        <4>1. widget' = [widget EXCEPT ![q] = [widget[q] EXCEPT ![k] = v]]
          BY <3>2 DEF EditWidget
        <4>2. q = r /\ k = c
          BY <2>2, <2>4, <4>1
        <4> QED
          BY <2>2, <2>4, <3>2, <4>2 DEF EditWidget
      <3>3. ASSUME NEW w \in Setups, Send(w) PROVE Shown(r, c)
        <4>1. /\ job[w].room \in Rooms /\ job[w].calendar \in Keys
              /\ Shown(job[w].room, job[w].calendar)
          <5>1. job[w].step \in WidgetSteps /\ job[w].step \in BindingSteps /\ job[w].step # "idle"
            BY <3>3 DEF Send, At, WidgetSteps, BindingSteps
          <5>2. Informed(w)
            BY DEF TypeInv
          <5> QED
            BY <5>1, <5>2 DEF Informed, Keys
        <4>2. widget' = [widget EXCEPT ![job[w].room] =
                            [widget[job[w].room] EXCEPT ![job[w].calendar] = "trusted"]]
          BY <3>3 DEF Send
        <4>3. r = job[w].room /\ c = job[w].calendar
          BY <2>2, <2>4, <4>1, <4>2
        <4> QED
          BY <4>1, <4>3
      <3>4. widget' # widget
        BY <2>4
      <3> QED
        BY <2>1, <3>1, <3>2, <3>3, <3>4
    <2> QED
      BY <2>3, <2>4
  <1> QED
    BY <1>1, <1>2, TypeInvariant, PTL DEF Spec

-----------------------------------------------------------------------------
(* A new calendar is reported once.                                         *)

\* The command whose request has made the collection, until it answers.
MadeIt(w) == job[w].step = "verify" \/ job[w].outcome = "created"

HasCollection(r) == row[r] # NoRow /\ collection[row[r].calendar] # "absent"

MakersOK ==
    /\ \A v, w \in Setups : MadeIt(v) /\ MadeIt(w) /\ job[v].room = job[w].room => v = w
    /\ \A w \in Setups : MadeIt(w) => created[job[w].room] = 0 /\ HasCollection(job[w].room)

ReportsOK == \A r \in Rooms : created[r] <= 1 /\ (created[r] # 0 => HasCollection(r))

MadeInv == MakersOK /\ ReportsOK

\* A room that has its collection keeps it.
LEMMA CollectionKept ==
    ASSUME TypeInv, RowMoves, CollectionMoves, NEW r \in Rooms, HasCollection(r)
    PROVE  HasCollection(r)'
  <1>1. row[r].calendar \in Calendars
    BY RowOrNone DEF TypeInv, HasCollection
  <1> QED
    BY <1>1 DEF HasCollection, RowMoves, CollectionMoves

\* The command that has made a collection works for a room.
LEMMA MakerHasRoom ==
    ASSUME TypeInv, NEW w \in Setups, MadeIt(w) PROVE job[w].room \in Rooms
  BY DEF TypeInv, Informed, MadeIt, WidgetSteps

\* A step in which nothing is made and nothing reported.
LEMMA QuietMaking ==
    ASSUME TypeInv, RowMoves, CollectionMoves, MadeInv, UNCHANGED created,
           \A w \in Setups : MadeIt(w)' => MadeIt(w) /\ job'[w].room = job[w].room
    PROVE  MadeInv'
  <1>1. \A r \in Rooms : HasCollection(r) => HasCollection(r)'
    BY CollectionKept
  <1>2. \A w \in Setups : MadeIt(w) => job[w].room \in Rooms
    BY MakerHasRoom
  <1>3. ReportsOK'
    BY <1>1 DEF MadeInv, ReportsOK
  <1>4. ASSUME NEW w \in Setups, MadeIt(w)' PROVE (created[job[w].room] = 0 /\ HasCollection(job[w].room))'
    <2>1. /\ job'[w].room = job[w].room /\ job[w].room \in Rooms
          /\ created[job[w].room] = 0 /\ HasCollection(job[w].room)
      BY <1>2, <1>4 DEF MadeInv, MakersOK
    <2> DEFINE r == job[w].room
    <2>2. row'[r] # NoRow /\ collection'[row'[r].calendar] # "absent"
      BY <1>1, <2>1 DEF HasCollection
    <2> QED
      BY <2>1, <2>2 DEF HasCollection
  <1> QED
    BY <1>3, <1>4 DEF MadeInv, MakersOK

\* One command moves and does not make a collection now, nor reports one.
LEMMA QuietCommand ==
    ASSUME TypeInv, RowMoves, CollectionMoves, MadeInv, UNCHANGED created, NEW w \in Setups,
           Alone(w), MadeIt(w)' => MadeIt(w) /\ job'[w].room = job[w].room
    PROVE  MadeInv'
  <1>1. \A v \in Setups \ {w} : MadeIt(v)' => MadeIt(v) /\ job'[v].room = job[v].room
    BY DEF Alone, MadeIt
  <1> QED
    BY <1>1, QuietMaking

\* A command that ends reports nothing any more.
LEMMA IdleMakesNothing ==
    ASSUME NEW w \in Setups, job'[w] = Idle PROVE ~ MadeIt(w)'
  BY DEF MadeIt, Idle

\* The answer reports a new calendar if the command has made it.
LEMMA AnswerMaking ==
    ASSUME TypeInv, RowMoves, CollectionMoves, MadeInv, NEW w \in Setups, Answer(w),
           job[w].step \in WidgetSteps
    PROVE  MadeInv'
  <1> DEFINE r == job[w].room
  <1>1. Alone(w) /\ job'[w] = Idle
    BY ReturnStep DEF Answer, TypeInv
  <1>2. r \in Rooms /\ created \in [Rooms -> Nat]
    BY StepGroups DEF TypeInv, Informed, RestOK
  <1>3. CASE job[w].outcome # "created"
    <2>1. UNCHANGED created
      BY <1>2, <1>3 DEF Answer
    <2> QED
      BY <1>1, <2>1, QuietCommand, IdleMakesNothing
  <1>4. CASE job[w].outcome = "created"
    <2>1. MadeIt(w) /\ created[r] = 0 /\ HasCollection(r)
      BY <1>4 DEF MadeIt, MadeInv, MakersOK
    <2>2. created' = [created EXCEPT ![r] = 1]
      BY <1>4, <2>1 DEF Answer
    <2>3. \A q \in Rooms : HasCollection(q) => HasCollection(q)'
      BY CollectionKept
    <2>4. ReportsOK'
      BY <1>2, <2>1, <2>2, <2>3 DEF MadeInv, ReportsOK
    <2>5. ASSUME NEW v \in Setups, MadeIt(v)'
          PROVE  /\ v # w /\ MadeIt(v) /\ job'[v] = job[v]
                 /\ (created[job[v].room] = 0 /\ HasCollection(job[v].room))'
      <3>1. v # w /\ job'[v] = job[v]
        BY <1>1, <2>5, IdleMakesNothing DEF Alone
      <3>2. MadeIt(v)
        BY <2>5, <3>1 DEF MadeIt
      <3>3. /\ job[v].room \in Rooms /\ job[v].room # r
            /\ created[job[v].room] = 0 /\ HasCollection(job[v].room)
        BY <2>1, <3>1, <3>2, MakerHasRoom DEF MadeInv, MakersOK
      <3> DEFINE q == job[v].room
      <3>4. row'[q] # NoRow /\ collection'[row'[q].calendar] # "absent" /\ created'[q] = 0
        BY <1>2, <2>2, <2>3, <3>3 DEF HasCollection
      <3> QED
        BY <3>1, <3>2, <3>4 DEF HasCollection
    <2> QED
      BY <2>4, <2>5 DEF MadeInv, MakersOK
  <1> QED
    BY <1>3, <1>4

\* A collection that is made has not been there, so no command has made it before.
LEMMA CreateMaking ==
    ASSUME TypeInv, RowMoves, CollectionMoves, MadeInv, NEW w \in Setups, Create(w),
           Goto(w, "verify")
    PROVE  MadeInv'
  <1> DEFINE r == job[w].room  c == job[w].calendar
  <1>1. Alone(w) /\ job'[w].step = "verify" /\ job'[w].room = r
    BY GotoStep DEF TypeInv, Steps
  <1>2. r \in Rooms /\ c \in Calendars /\ row[r].calendar = c
    BY DEF Create, At, TypeInv, Informed, CreateSteps, BindingSteps
  <1>3. collection[c] = "absent" /\ collection' \in Made(c) /\ UNCHANGED created
    <2>1. ~ Goto(w, "recheck")
      BY <1>1, GotoStep DEF TypeInv, Steps
    <2>2. ~ Return(w)
      BY <1>1, ReturnStep DEF TypeInv, Idle
    <2> QED
      BY <2>1, <2>2 DEF Create
  <1>4. created[r] = 0 /\ \A v \in Setups : MadeIt(v) => job[v].room # r
    BY <1>2, <1>3 DEF MadeInv, MakersOK, ReportsOK, HasCollection
  <1>5. row'[r] # NoRow /\ row'[r].calendar = c
    BY <1>2, RowOrNone DEF RowMoves, TypeInv
  <1>6. collection'[c] # "absent"
    BY <1>2, <1>3 DEF Made, TypeInv, RestOK
  <1>7. \A q \in Rooms : HasCollection(q) => HasCollection(q)'
    BY CollectionKept
  <1>8. ReportsOK'
    BY <1>3, <1>7 DEF MadeInv, ReportsOK
  <1>9. (created[job[w].room] = 0 /\ HasCollection(job[w].room))'
    BY <1>1, <1>3, <1>4, <1>5, <1>6 DEF HasCollection
  <1>10. ASSUME NEW v \in Setups \ {w}, MadeIt(v)'
         PROVE  /\ MadeIt(v) /\ job'[v] = job[v] /\ job[v].room # r
                /\ (created[job[v].room] = 0 /\ HasCollection(job[v].room))'
    <2>1. job'[v] = job[v] /\ MadeIt(v)
      BY <1>1, <1>10 DEF Alone, MadeIt
    <2>2. /\ job[v].room \in Rooms /\ job[v].room # r
          /\ created[job[v].room] = 0 /\ HasCollection(job[v].room)
      BY <1>4, <2>1, MakerHasRoom DEF MadeInv, MakersOK
    <2> DEFINE q == job[v].room
    <2>3. row'[q] # NoRow /\ collection'[row'[q].calendar] # "absent" /\ created'[q] = 0
      BY <1>3, <1>7, <2>2 DEF HasCollection
    <2> QED
      BY <2>1, <2>2, <2>3 DEF HasCollection
  <1> QED
    BY <1>1, <1>8, <1>9, <1>10 DEF MadeInv, MakersOK

\* Every step keeps the makers apart.
LEMMA MadeInvInductive == TypeInv /\ MadeInv /\ [Next]_vars => MadeInv'
  <1> SUFFICES ASSUME TypeInv, MadeInv, [Next]_vars PROVE MadeInv'
    OBVIOUS
  <1>m. RowMoves /\ CollectionMoves
    BY RowsMove, CollectionsMove
  <1>t. JobsOK
    BY DEF TypeInv
  <1>r. ASSUME NEW w \in Setups, Return(w), UNCHANGED created PROVE MadeInv'
    BY <1>r, <1>m, <1>t, ReturnStep, IdleMakesNothing, QuietCommand
  <1>g. ASSUME NEW w \in Setups, NEW step \in Steps \ {"verify"}, Goto(w, step), UNCHANGED created
        PROVE  MadeInv'
    <2>1. /\ Alone(w) /\ job'[w].step = step /\ job'[w].room = job[w].room
          /\ job'[w].outcome = job[w].outcome
      BY <1>g, <1>t, GotoStep
    <2> QED
      BY <1>g, <1>m, <2>1, QuietCommand DEF MadeIt
  <1>b. ASSUME NEW w \in Setups, NEW c \in Calendars, NEW mode \in {"create", "verify"},
               Bound(w, c, mode), UNCHANGED created
        PROVE  MadeInv'
    <2>1. /\ Alone(w) /\ job'[w].step = "preflight" /\ job'[w].room = job[w].room
          /\ job'[w].outcome = job[w].outcome
      BY <1>b, <1>t, BoundStep
    <2> QED
      BY <1>b, <1>m, <2>1, QuietCommand DEF MadeIt
  <1>f. ASSUME NEW w \in Setups, NEW outcome \in {"existing", "created"}, Found(w, outcome),
               outcome = "created" => MadeIt(w), UNCHANGED created
        PROVE  MadeInv'
    <2>1. /\ Alone(w) /\ job'[w].step \in {"ready", "install"} /\ job'[w].room = job[w].room
          /\ job'[w].outcome = outcome
      BY <1>f, <1>t, FoundStep DEF AfterCollection
    <2> QED
      BY <1>f, <1>m, <2>1, QuietCommand DEF MadeIt
  <1>u. CASE UNCHANGED <<job, created>>
    BY <1>u, <1>m, QuietMaking DEF MadeIt
  <1>1. ASSUME NEW w \in Setups, Work(w) PROVE MadeInv'
    <2>1. CASE Snapshot(w)
      <3>1. job[w].room \in Rooms
        BY <2>1 DEF Snapshot, At, TypeInv, Informed
      <3>2. \A b \in Static : b.calendar \in Calendars
        BY SetupConstantsOk
      <3>3. row[job[w].room].status = "ready" => row[job[w].room].calendar \in Calendars
        BY <3>1, RowOrNone DEF TypeInv
      <3> QED
        BY <2>1, <3>2, <3>3, <1>b, <1>g DEF Snapshot, Steps
    <2>2. ASSUME NEW c \in Calendars, Reserve(w, c) PROVE MadeInv'
      <3>1. job[w].room \in Rooms
        BY <2>2 DEF Reserve, At, TypeInv, Informed
      <3>2. Existing(job[w].room) => Stored(job[w].room, c) \in Calendars
        BY <3>1, RowOrNone DEF TypeInv, Existing, Stored
      <3>3. ModeOf(job[w].room) \in {"create", "verify"}
        BY DEF ModeOf
      <3> QED
        BY <2>2, <3>2, <3>3, <1>b, <1>r DEF Reserve
    <2>3. CASE Preflight(w)
      BY <2>3, <1>g, <1>r DEF Preflight, Steps
    <2>4. CASE Inspect(w)
      BY <2>4, <1>f, <1>g, <1>r DEF Inspect, Steps
    <2>5. CASE Create(w)
      <3>1. UNCHANGED created /\ (Goto(w, "verify") \/ Goto(w, "recheck") \/ Return(w))
        BY <2>5 DEF Create
      <3> QED
        BY <2>5, <3>1, <1>m, <1>g, <1>r, CreateMaking DEF Steps
    <2>6. CASE Recheck(w)
      BY <2>6, <1>f, <1>r DEF Recheck, OutcomeOfRecheck
    <2>7. CASE Verify(w)
      BY <2>7, <1>f, <1>r DEF Verify, At, MadeIt
    <2>8. CASE MarkReady(w)
      BY <2>8, <1>g, <1>r DEF MarkReady, Steps
    <2>9. CASE Install(w) \/ Latest(w) \/ Written(w)
      <3>1. job[w].step \in WidgetSteps
        BY <2>9 DEF Install, Latest, Written, LookForWidget, At, WidgetSteps
      <3> QED
        BY <2>9, <3>1, <1>m, <1>g, <1>r, AnswerMaking DEF Install, Latest, Written, LookForWidget, Steps
    <2>10. CASE Send(w)
      BY <2>10, <1>g, <1>r DEF Send, Steps
    <2> QED
      BY <1>1, <2>1, <2>2, <2>3, <2>4, <2>5, <2>6, <2>7, <2>8, <2>9, <2>10 DEF Work
  <1>2. ASSUME NEW w \in Setups, Fail(w) PROVE MadeInv'
    BY <1>2, <1>r DEF Fail
  <1>3. ASSUME NEW w \in Setups, NEW r \in Rooms, Ask(w, r) PROVE MadeInv'
    <2>1. Alone(w) /\ job'[w] = [Idle EXCEPT !.step = "snapshot", !.room = r]
      BY <1>3, <1>t DEF Ask, JobsOK, Job, Idle, Steps, Alone
    <2>2. ~ MadeIt(w)'
      BY <2>1 DEF MadeIt, Idle
    <2> QED
      BY <1>3, <1>m, <2>1, <2>2, QuietCommand DEF Ask
  <1>4. CASE Restart
    BY <1>4, <1>m, IdleMakesNothing, QuietMaking DEF Restart
  <1> QED
    BY <1>u, <1>1, <1>2, <1>3, <1>4 DEF Next, World, EditWidget, Land, vars

\* Of all commands for a room, at any number of instances and over any faults, one at
\* most reports that its calendar has been created.
THEOREM CreationIsReportedOnce == Spec => []CreatedOnce
  <1>1. Init => MadeInv
    BY DEF Init, MadeInv, MakersOK, ReportsOK, MadeIt, Idle
  <1>2. MadeInv => CreatedOnce
    BY DEF MadeInv, ReportsOK, CreatedOnce
  <1> QED
    BY <1>1, <1>2, MadeInvInductive, TypeInvariant, PTL DEF Spec

=============================================================================
