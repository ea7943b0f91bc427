--------------------------- MODULE ReminderDelivery ---------------------------
(***************************************************************************)
(* Delivery of one room reminder: RoomReminderScheduler.deliverClaim       *)
(* working against the PostgreSQL claim table, the reminder configuration  *)
(* table and the Matrix homeserver.                                        *)
(*                                                                         *)
(* A firing (an alarm of one occurrence) has one durable delivery key,     *)
(* which does not depend on the revision of its configuration.  A          *)
(* scheduler lists a configuration, claims the key under a lease, checks   *)
(* everything again, sends under a transaction id made from the key and    *)
(* records the outcome.  Every await of the code is a step boundary, and a *)
(* statement or PUT whose caller timed out may still take effect later:    *)
(* statements in flight are the set stmts, PUTs in flight the set puts.    *)
(***************************************************************************)
EXTENDS Naturals

CONSTANTS
    Keys,          \* delivery keys (firing identities)
    Confs,         \* primary keys of room_reminder_configurations
    ConfOf,        \* the configuration a firing belongs to
    Workers,       \* scheduler processes: two while a replica is replaced
    Tokens,        \* claim tokens (randomUUID)
    Schedules,     \* values of all_day_schedule_json
    Fires,         \* <<key, schedule>> pairs the canonical event makes due
    RoomTarget,    \* the whole-room destination
    UserTargets,   \* selected-user destinations
    Lease,         \* claim lease, in clock ticks
    Budget,        \* ticks a live scheduler may spend on one claim
    Punctual,      \* TRUE: the timers of runWithDeadline fire on time
    MaxRevision,   \* bound of the model on the edits of a configuration
    MaxBirths,     \* bound of the model on the creations of configurations
    None           \* SQL NULL, JavaScript undefined

Targets == {RoomTarget} \union UserTargets

\* "id" is the primary key; "born" numbers the INSERTs and is only history:
\* a deleted and recreated row is another configuration with the same id.
Configuration ==
    [id : Confs, revision : Nat, target : Targets, schedule : Schedules, born : Nat]

ASSUME ConstantsOk ==
    /\ ConfOf \in [Keys -> Confs]
    /\ Fires \subseteq Keys \X Schedules
    /\ Lease \in Nat \ {0}
    /\ Budget \in Nat
    /\ Punctual \in BOOLEAN
    /\ MaxRevision \in Nat
    /\ MaxBirths \in Nat
    /\ None \notin Keys \union Tokens
    /\ None \notin Configuration

\* 7 s of work, 3 s for the release and 2 s of claim latency: under 30 s.
ASSUME BudgetFitsLease == Budget < Lease

VARIABLES
    conf,       \* room_reminder_configurations
    births,     \* INSERTs so far
    row,        \* reminder_deliveries, by delivery key
    stmts,      \* statements PostgreSQL may still execute
    puts,       \* PUTs the homeserver may still receive
    timeline,   \* reminder messages the room has received
    pc,         \* where each scheduler is
    job         \* what each scheduler holds in local variables

vars == <<conf, births, row, stmts, puts, timeline, pc, job>>

-----------------------------------------------------------------------------
RowStates == {"absent", "claimed", "pending", "sent", "skipped"}
Terminal == {"sent", "skipped"}

\* Steps of deliverClaim before it has an outcome to record.
Working == {"config", "resolve", "confirm", "send", "put"}

\* Steps that await the reply of a statement; a statement is named alike.
Ops == {"claim", "sent", "skipped", "release"}
Busy == Working \union {"sent", "skipped", "release"}

Statement == [op : Ops, key : Keys, token : Tokens]
Message == [key : Keys, first : Configuration, final : Configuration]
Put == [message : Message, token : Tokens]

Job == [key    : Keys \union {None},
        token  : Tokens \union {None},
        lease  : 0..Lease,
        listed : Configuration \union {None},
        first  : Configuration \union {None},
        final  : Configuration \union {None}]

NoJob == [key |-> None, token |-> None, lease |-> 0,
          listed |-> None, first |-> None, final |-> None]

AbsentRow == [state |-> "absent", token |-> None, lease |-> 0]

TypeOK ==
    /\ conf \in [Confs -> Configuration \union {None}]
    /\ births \in Nat
    /\ row \in [Keys -> [state : RowStates, token : Tokens \union {None}, lease : 0..Lease]]
    /\ stmts \subseteq Statement
    /\ puts \subseteq Put
    /\ timeline \subseteq Message
    /\ pc \in [Workers -> {"idle", "scan", "claim"} \union Busy]
    /\ job \in [Workers -> Job]

Init ==
    /\ conf = [c \in Confs |-> None]
    /\ births = 0
    /\ row = [k \in Keys |-> AbsentRow]
    /\ stmts = {}
    /\ puts = {}
    /\ timeline = {}
    /\ pc = [w \in Workers |-> "idle"]
    /\ job = [w \in Workers |-> NoJob]

-----------------------------------------------------------------------------
(* Managers: the SQL statements of the configuration service.               *)

\* Mutant: only a change of schedule counts as a new revision.
SavedEditScheduleOnly(old, target, schedule) ==
    [old EXCEPT !.target = target, !.schedule = schedule,
                !.revision = IF old.schedule = schedule THEN @ ELSE @ + 1]

SavedEdit(old, target, schedule) ==
    IF old.target = target /\ old.schedule = schedule
    THEN old
    ELSE [old EXCEPT !.target = target, !.schedule = schedule, !.revision = @ + 1]

Save(c, target, schedule) ==
    /\ \/ /\ conf[c] = None
          /\ births < MaxBirths
          /\ conf' = [conf EXCEPT ![c] =
                [id |-> c, revision |-> 1, target |-> target,
                 schedule |-> schedule, born |-> births]]
          /\ births' = births + 1
       \/ /\ conf[c] # None
          /\ conf[c].revision < MaxRevision
          /\ conf' = [conf EXCEPT ![c] = SavedEdit(@, target, schedule)]
          /\ births' = births
    /\ UNCHANGED <<row, stmts, puts, timeline, pc, job>>

Remove(c) ==
    /\ conf[c] # None
    /\ conf' = [conf EXCEPT ![c] = None]
    /\ UNCHANGED <<births, row, stmts, puts, timeline, pc, job>>

-----------------------------------------------------------------------------
(* The scan: list a configuration, claim a firing of it that is due.        *)

ListConfiguration(w, c) ==
    /\ pc[w] = "idle"
    /\ conf[c] # None
    /\ pc' = [pc EXCEPT ![w] = "scan"]
    /\ job' = [job EXCEPT ![w].listed = conf[c]]
    /\ UNCHANGED <<conf, births, row, stmts, puts, timeline>>

\* A random UUID is one that nothing else in the system holds.
Fresh(t) ==
    /\ \A k \in Keys : row[k].token # t
    /\ \A w \in Workers : job[w].token # t
    /\ \A s \in stmts : s.token # t
    /\ \A p \in puts : p.token # t

ClaimDue(w, k) ==
    /\ pc[w] = "scan"
    /\ job[w].listed.id = ConfOf[k]
    /\ <<k, job[w].listed.schedule>> \in Fires
    /\ \E t \in Tokens :
         /\ Fresh(t)
         /\ stmts' = stmts \union {[op |-> "claim", key |-> k, token |-> t]}
         /\ job' = [job EXCEPT ![w].key = k, ![w].token = t]
    /\ pc' = [pc EXCEPT ![w] = "claim"]
    /\ UNCHANGED <<conf, births, row, puts, timeline>>

EndScan(w) ==
    /\ pc[w] = "scan"
    /\ pc' = [pc EXCEPT ![w] = "idle"]
    /\ job' = [job EXCEPT ![w] = NoJob]
    /\ UNCHANGED <<conf, births, row, stmts, puts, timeline>>

\* Back to the scan, which still holds the configuration it listed.
BackToScan(w) ==
    /\ pc' = [pc EXCEPT ![w] = "scan"]
    /\ job' = [job EXCEPT ![w] = [NoJob EXCEPT !.listed = job[w].listed]]

-----------------------------------------------------------------------------
(* PostgreSQL: each statement takes effect at one moment, and its reply     *)
(* reaches the scheduler that still awaits it or is lost.                   *)

Awaits(w, s) == pc[w] = s.op /\ job[w].token = s.token

\* Mutants: the lease test without the state test; no takeover of a lease.
GrantedAnyExpired(k) == row[k].state \in {"absent", "pending"} \/ row[k].lease = 0
GrantedNoTakeover(k) == row[k].state \in {"absent", "pending"}

\* No row yet, a released one, or an expired lease.  A CHECK of the table makes
\* lease_expires_at NULL unless the row is claimed, so that the comparison with
\* the clock is never true of an outcome.
Granted(k) == \/ row[k].state \in {"absent", "pending"}
              \/ row[k].state = "claimed" /\ row[k].lease = 0

ClaimGranted(s) ==
    /\ s.op = "claim"
    /\ Granted(s.key)
    /\ stmts' = stmts \ {s}
    /\ row' = [row EXCEPT ![s.key] =
                [state |-> "claimed", token |-> s.token, lease |-> Lease]]
    /\ \/ UNCHANGED <<pc, job>>
       \/ \E w \in Workers :
            /\ Awaits(w, s)
            /\ pc' = [pc EXCEPT ![w] = "config"]
            /\ job' = [job EXCEPT ![w].lease = Lease]
    /\ UNCHANGED <<conf, births, puts, timeline>>

ClaimRefused(s) ==
    /\ s.op = "claim"
    /\ ~ Granted(s.key)
    /\ stmts' = stmts \ {s}
    /\ \/ UNCHANGED <<pc, job>>
       \/ \E w \in Workers : Awaits(w, s) /\ BackToScan(w)
    /\ UNCHANGED <<conf, births, row, puts, timeline>>

\* Mutant: a claim is finished by whoever asks.
HoldsAnyClaim(s) == row[s.key].state = "claimed"

\* WHERE state = 'claimed' AND claim_token = the caller's
HoldsClaim(s) == row[s.key].state = "claimed" /\ row[s.key].token = s.token

OutcomeOf(op) == IF op = "release" THEN "pending" ELSE op

\* markDeliverySent, markDeliverySkipped and releaseDeliveryClaim.  Whether
\* or not the row was updated, the scheduler is done with the firing.
Finish(s) ==
    /\ s.op # "claim"
    /\ stmts' = stmts \ {s}
    /\ row' = IF HoldsClaim(s)
              THEN [row EXCEPT ![s.key] =
                      [state |-> OutcomeOf(s.op), token |-> None, lease |-> 0]]
              ELSE row
    /\ \/ UNCHANGED <<pc, job>>
       \/ \E w \in Workers : Awaits(w, s) /\ BackToScan(w)
    /\ UNCHANGED <<conf, births, puts, timeline>>

\* The connection fails, or the cancellation wins.
LoseStatement(s) ==
    /\ stmts' = stmts \ {s}
    /\ UNCHANGED <<conf, births, row, puts, timeline, pc, job>>

-----------------------------------------------------------------------------
(* deliverClaim.                                                            *)

IssueStatement(w, op) ==
    /\ stmts' = stmts \union {[op |-> op, key |-> job[w].key, token |-> job[w].token]}
    /\ pc' = [pc EXCEPT ![w] = op]

\* A denial, a stale candidate, a failure or a timeout: the finally block.
GiveUp(w) ==
    /\ pc[w] \in Busy \ {"release"}
    /\ IssueStatement(w, "release")
    /\ UNCHANGED <<conf, births, row, puts, timeline, job>>

CurrentConfiguration(w) == conf[ConfOf[job[w].key]]

SameRevision(current, seen) == current # None /\ current.revision = seen.revision

\* After the runtime gates and the binding, whose denial is GiveUp.
ReadConfiguration(w) ==
    /\ pc[w] = "config"
    /\ \/ /\ SameRevision(CurrentConfiguration(w), job[w].listed)
          /\ job' = [job EXCEPT ![w].first = CurrentConfiguration(w)]
          /\ pc' = [pc EXCEPT ![w] = "resolve"]
          /\ UNCHANGED stmts
       \/ /\ ~ SameRevision(CurrentConfiguration(w), job[w].listed)
          /\ IssueStatement(w, "release")
          /\ UNCHANGED job
    /\ UNCHANGED <<conf, births, row, puts, timeline>>

\* Authorization in the room, then the canonical event is read again.
Resolve(w) ==
    /\ pc[w] = "resolve"
    /\ <<job[w].key, job[w].first.schedule>> \in Fires
    /\ pc' = [pc EXCEPT ![w] = "confirm"]
    /\ UNCHANGED <<conf, births, row, stmts, puts, timeline, job>>

Confirm(w) ==
    /\ pc[w] = "confirm"
    /\ \/ /\ SameRevision(CurrentConfiguration(w), job[w].first)
          /\ job' = [job EXCEPT ![w].final = CurrentConfiguration(w)]
          /\ pc' = [pc EXCEPT ![w] = "send"]
          /\ UNCHANGED stmts
       \/ /\ ~ SameRevision(CurrentConfiguration(w), job[w].first)
          /\ IssueStatement(w, "release")
          /\ UNCHANGED job
    /\ UNCHANGED <<conf, births, row, puts, timeline>>

\* The body comes from the first read, the destination from the second.
ComposedMessage(w) ==
    [key |-> job[w].key, first |-> job[w].first, final |-> job[w].final]

\* The sender's own rechecks pass and it starts the PUT.
Send(w) ==
    /\ pc[w] = "send"
    /\ puts' = puts \union {[message |-> ComposedMessage(w), token |-> job[w].token]}
    /\ pc' = [pc EXCEPT ![w] = "put"]
    /\ UNCHANGED <<conf, births, row, stmts, timeline, job>>

\* No selected user is a joined member any more.
NoCurrentRecipients(w) ==
    /\ pc[w] = "send"
    /\ job[w].final.target \in UserTargets
    /\ IssueStatement(w, "skipped")
    /\ UNCHANGED <<conf, births, row, puts, timeline, job>>

\* The claim or the release timed out: nothing more to do for the firing.
Abandon(w) ==
    /\ pc[w] \in {"claim", "release"}
    /\ BackToScan(w)
    /\ UNCHANGED <<conf, births, row, stmts, puts, timeline>>

Crash(w) ==
    /\ pc[w] # "idle"
    /\ pc' = [pc EXCEPT ![w] = "idle"]
    /\ job' = [job EXCEPT ![w] = NoJob]
    /\ UNCHANGED <<conf, births, row, stmts, puts, timeline>>

-----------------------------------------------------------------------------
(* The homeserver: PUT /send/m.room.message/{txnId} is idempotent in txnId. *)

\* Mutant: the transaction id names the revision that was sent.
TxnIdPerRevision(m) == <<"mcal-reminder", m.key, m.final.revision>>

TxnId(m) == <<"mcal-reminder", m.key>>

AcceptPut(p) ==
    /\ puts' = puts \ {p}
    /\ timeline' = IF \E m \in timeline : TxnId(m) = TxnId(p.message)
                   THEN timeline
                   ELSE timeline \union {p.message}
    /\ \/ UNCHANGED <<stmts, pc>>
       \/ \E w \in Workers :
            /\ pc[w] = "put"
            /\ job[w].token = p.token
            /\ IssueStatement(w, "sent")
    /\ UNCHANGED <<conf, births, row, job>>

LosePut(p) ==
    /\ puts' = puts \ {p}
    /\ UNCHANGED <<conf, births, row, stmts, timeline, pc, job>>

-----------------------------------------------------------------------------
(* Time.  Leases count down.  With Punctual a scheduler that is still busy  *)
(* with a claim has not used up its budget: its deadlines have been kept.   *)

\* Mutant: a scheduler without deadlines.
NeverLate(w) == TRUE

Earlier(lease) == IF lease = 0 THEN 0 ELSE lease - 1

OnTime(w) == pc[w] \in Busy => Lease - job[w].lease < Budget

Tick ==
    /\ Punctual => \A w \in Workers : OnTime(w)
    /\ row' = [k \in Keys |-> [row[k] EXCEPT !.lease = Earlier(@)]]
    /\ job' = [w \in Workers |-> [job[w] EXCEPT !.lease = Earlier(@)]]
    /\ UNCHANGED <<conf, births, stmts, puts, timeline, pc>>

-----------------------------------------------------------------------------
Manager ==
    \E c \in Confs :
        \/ \E t \in Targets, s \in Schedules : Save(c, t, s)
        \/ Remove(c)

Scheduler(w) ==
    \/ \E c \in Confs : ListConfiguration(w, c)
    \/ \E k \in Keys : ClaimDue(w, k)
    \/ EndScan(w)
    \/ ReadConfiguration(w)
    \/ Resolve(w)
    \/ Confirm(w)
    \/ Send(w)
    \/ NoCurrentRecipients(w)
    \/ GiveUp(w)
    \/ Abandon(w)
    \/ Crash(w)

Database ==
    \E s \in stmts : ClaimGranted(s) \/ ClaimRefused(s) \/ Finish(s) \/ LoseStatement(s)

Homeserver == \E p \in puts : AcceptPut(p) \/ LosePut(p)

Next == Manager \/ (\E w \in Workers : Scheduler(w)) \/ Database \/ Homeserver \/ Tick

Spec == Init /\ [][Next]_vars

\* Nothing more can come of what w waits for or holds.
Hopeless(w) ==
    \/ pc[w] \in Ops /\ \A s \in stmts : ~ Awaits(w, s)
    \/ pc[w] = "put" /\ \A p \in puts : p.token # job[w].token
    \/ pc[w] = "resolve" /\ <<job[w].key, job[w].first.schedule>> \notin Fires

\* A crash, a denial, a timeout while the call could still succeed, a call
\* that is lost or whose reply is lost.
Fault ==
    \E w \in Workers :
        \/ pc[w] # "scan" /\ Crash(w)
        \/ /\ ~ Hopeless(w)
           /\ \/ GiveUp(w) /\ ~ (ReadConfiguration(w) \/ Confirm(w))
              \/ Abandon(w)
        \/ ~ Hopeless(w) /\ Hopeless(w)' /\ pc'[w] = pc[w]

\* The timer starts scans for ever, the cursors come round to every firing,
\* time passes, calls return, and at some time the faults cease.
Fairness ==
    /\ <>[][~ Fault]_vars
    /\ \A w \in Workers :
         /\ \A c \in Confs : SF_vars(ListConfiguration(w, c))
         /\ WF_vars(EndScan(w))
         /\ WF_vars(ReadConfiguration(w) \/ Resolve(w) \/ Confirm(w))
         /\ WF_vars(Send(w) \/ NoCurrentRecipients(w))
         /\ WF_vars(Hopeless(w) /\ (Abandon(w) \/ GiveUp(w)))
         /\ WF_vars(\E p \in puts : p.token = job[w].token /\ AcceptPut(p))
    /\ \A k \in Keys : SF_vars(\E w \in Workers : ClaimDue(w, k))
    /\ \A s \in Statement :
         WF_vars(s \in stmts /\ (ClaimGranted(s) \/ ClaimRefused(s) \/ Finish(s)))
    /\ WF_vars(Homeserver)
    /\ WF_vars(Tick)

FairSpec == Spec /\ Fairness
-----------------------------------------------------------------------------
(* Properties.                                                              *)

\* The room sees one message for a firing, over retries by any scheduler,
\* PUTs that arrive late and edits of the configuration (ADR044, 4).
AtMostOneNotification ==
    \A m, n \in timeline : m.key = n.key => m = n

\* A row says 'sent' only if the room has the message: a timeout, a lost
\* reply or another scheduler's outcome never turns into a false 'sent'.
SentImpliesNotified ==
    \A k \in Keys : row[k].state = "sent" => \E m \in timeline : m.key = k

\* Two schedulers never both work on a firing under leases that have not
\* expired (ADR019, 4), whatever statements of older attempts still run.
ExclusiveClaim ==
    \A v, w \in Workers :
        /\ v # w /\ pc[v] \in Working /\ pc[w] \in Working
        /\ job[v].key = job[w].key
        => job[v].lease = 0 \/ job[w].lease = 0

\* Two reads of one configuration row that saw one revision saw the same
\* destination and schedule: comparing revisions is enough to notice an edit
\* between the check of what is due and the send.
RevisionFencesEdits ==
    \A m \in {p.message : p \in puts} \union timeline :
        m.first.born = m.final.born => m.first = m.final

\* The comment at the second read calls it the last linearization point of
\* the configuration: what is sent is due under the configuration read there.
SentAsConfigured ==
    \A m \in timeline : <<m.key, m.final.schedule>> \in Fires

\* Once a firing is settled no scheduler starts a PUT for it.  Only with
\* Punctual: it is the deadlines that keep a scheduler within its lease.
SettledStaysQuiet ==
    [][\A k \in Keys : row[k].state \in Terminal =>
          \A p \in puts' : p.message.key = k => p \in puts]_vars

\* A firing whose configuration stays in place and keeps it due is settled in
\* the end, whatever crashes, timeouts and lost replies come before: no claim
\* is left for ever with a scheduler that is gone.
Scheduled(k) ==
    /\ conf[ConfOf[k]] # None
    /\ <<k, conf[ConfOf[k]].schedule>> \in Fires

EventuallySettled ==
    \A k \in Keys : <>[]Scheduled(k) => <>(row[k].state \in Terminal)

\* The detailed delivery implements the abstract one.
Outcome(k) == IF row[k].state \in Terminal THEN row[k].state ELSE "open"

Notification == INSTANCE ReminderNotification WITH
    room <- timeline, outcome <- [k \in Keys |-> Outcome(k)]

ImplementsNotification == Notification!NSpec
=============================================================================
