# A formal model of the Matrix calendar gateway

TLA+ modules for `matrix-calendar-server`, the gateway that gives Matrix rooms calendars kept
in Radicale: what its concurrent parts do to the PostgreSQL tables, to Radicale and to the
rooms, checked with TLC on small instances and, where a proof is in reach, proved with TLAPS
for every instance. Paths below are relative to `src/matrix-calendar-server/src/`, documents to
`src/docs/`. `PROJECT.json` maps every definition to the lines it stands for.

## The system

The gateway is a NestJS process (normally one; two for a short time when a replica is replaced)
beside a Matrix homeserver, a Radicale server and a PostgreSQL database. Node runs one callback
at a time, so code between two awaits is atomic and code across an await is not. Two scripts act
on its host: the cold backup (`src/scripts/matrix-calendar-cold-backup.mjs`) and the release of a
new server image (`src/scripts/release/remote_server_release.py`). State is kept

- in PostgreSQL: room bindings (ADR043), private CalDAV clients (ADR046), reminder configurations
  and reminder deliveries (ADR019, ADR028, ADR044);
- in Radicale: collections, shares (public feeds) and maps (private clients);
- in Matrix rooms: members, power levels, widgets, reminder messages;
- in memory: cursors of the reminder scan, locks, limiters, a nonce cache, a memoized identity;
- on the host: containers, the canonical compose file, lock files and records, captures, and the
  snapshots of a restic repository.

### Inventory

| component | state | operations | what is hard | what makes it correct |
|---|---|---|---|---|
| reminder delivery: `reminder/RoomReminderScheduler.ts`, `PostgresRoomReminderStore.ts`, `MatrixAppServiceReminderTransport.ts` | deliveries (claim, lease, outcome), PUTs under way | claim, revalidate, send, mark sent or skipped, release | lost and late statements, takeover of leases, crashes, edits under way | one message per firing, a true `sent`, exclusive claims, edits are noticed, every firing is settled |
| reminder scan: the same scheduler | page and candidate cursors, rotation | list pages, give turns, keep caps | rows that come and go, caps, an LRU of cursors, slow reads | nothing twice in a scan, fair turns in it, and nobody starves unless cursors are evicted for ever |
| reminder time budget: the same scheduler | deadlines | reserve, call with timeout, release | two clocks, chained timeouts | work ends within the lease, the scan at its deadline |
| reminder configuration: `RoomReminderConfigurationService.ts` | configurations with revisions | compare-and-upsert, delete, list | stale reads before the write | edits are fenced by revisions |
| reminder transport and recipients: `RoomMentionPolicy.ts` | none | recheck recipients, PUT | membership changes under way | nobody is mentioned who is not there |
| scheduler lifecycle: `RoomReminderSchedulerRuntime.ts` | timer, active run | start, stop, run | stop during a run | scans do not overlap |
| reminder sources: `CanonicalRoomReminderSchedulerSource.ts`, `ReminderTrigger.ts`, `CanonicalReminderIdentityResolver.ts` | a calendar loaded per scan | next candidates, resolve again | recurrence, windows | the same identity for the same firing |
| private clients: `service/private-client/PrivateCalendarClientService.ts`, store, map client, policy | client rows, Radicale maps | enrol, revoke, expire, revoke on a failed check | compensation that races late requests, two managers | revoked is for ever, an active client has its map, a secret is shown only for a client that was activated |
| private client gateways: DAV and callback | nonce cache | proxy requests, answer Radicale | preflight then write, a full cache | no lost update, a nonce is good once, a full cache empties |
| room calendar setup: `service/RoomCalendarSetup*.ts`, binding store | bindings, collections, widgets | reserve, find or create, mark ready, install | no lock, late MKCALENDAR, lost answers, capacity | one to one bindings that are kept, ready means usable, retries complete |
| binding resolver and CalDAV access | memoized addresses | look up, derive | - | agrees with the snapshot |
| public feeds: `service/public-feed/` | shares, a lock per target | publish, unpublish, get | compensation, late creates, lost answers, restarts | withdrawn links stay dead, nothing is published silently, links outlive a publish, one share |
| limiters: `CalendarCommandTrafficLimiter.ts`, `CalendarGatewayRateLimitMiddleware.ts` | buckets and slots, windows | acquire, release, consume | boundaries, lazy cleanup, full tables | decisions follow from what was accepted, no slot is lost |
| principal and OpenID proof | memoized promise | resolve, prove | failure while shared | a failure is not remembered |
| event operations: `RoomCalendarEventOperations.ts`, `CalendarEventUpdateOperation.ts`, `caldav/CalDavEventClient.ts`, audit | none of their own | create, patch, delete, notify | concurrent edits, late requests, lost answers | no lost update, foreign components survive, answers are true |
| cold backup | lock, capture, snapshots | stop, archive, start, upload, read back, retain, remove | failure of any step, signals, a late stop, a release in between | captures are cold, services come back, nothing is lost that was compared |
| server release | lock, record, compose file, container | check, switch, rename, verify, recover | failure of any step, editors, a backup in between | what it says is so, edits survive |
| commands, HTTP interface, codec, discovery, legacy meetings, widget, packages, plug-ins | none, or views | parse, format, validate | data, not control | unit tests |

How they interact: the scheduler reads configurations the configuration service writes, asks the
source for firings of bound calendars, and sends through the transport. Bindings come from the
configuration and from setup; they decide which room a reminder, a feed or a private client
belongs to. Radicale asks the gateway back (callback gateway, policy) for each request of a
private client, which is how a revoked row denies access even while its map is still there. Users
of the gateway, native clients behind its proxy and whoever else has access write the same event
resources. Backup and release stop and start the same containers and know nothing of each other.

## Modules

| module | models | composed with |
|---|---|---|
| `ReminderNotification` | abstract: what the delivery of reminders promises a room | refined by `ReminderDelivery` |
| `ReminderDelivery` | delivery of a firing by several schedulers, with the store, the managers' edits and the homeserver | INSTANCE of `ReminderNotification` |
| `ReminderScan` | the scans of one scheduler | - |
| `ReminderBudget` | the clock of one scan | - |
| `PrivateCalendarClient` | enrolment, revocation, expiry and policy over rows and maps | - |
| `RoomCalendarSetup` | `!calendar setup` over bindings, collections and widgets | - |
| `PublicCalendarFeed` | publish, unpublish and get over the shares of one calendar | - |
| `CalendarEventWrite` | everybody who writes one event resource | - |
| `CommandTrafficLimiter`, `SourceRateLimiter`, `CallbackReplayCache` | the bounded tables of a process | `ProcessLimits`, over one clock |
| `TimedEvents` | lists of recent times, as sets of ages | extended by the limiters |
| `HostServices` | the containers, as Docker stops and starts them | extended by the next two |
| `ColdBackup`, `ServerRelease` | the two scripts | `HostOperations`, over the same containers |
| `ReminderDeliveryProofs`, `ReminderSchedulerProofs`, `PrivateCalendarClientProofs`, `RoomCalendarSetupProofs`, `PublicCalendarFeedProofs`, `CalendarEventWriteProofs`, `ProcessLimitsProofs`, `HostOperationsProofs` | theorems | extend their module |
| `MC...` | constants, symmetry and smaller next-state relations for TLC | extend their module |

### How state and actions correspond to the code

A variable that is a function over keys is a table, by primary key (`row`, `conf`), or a service
(`collection`, `map`, `widget`). `pc`/`job` holds what an async function has in its local
variables, with the await at which it stands. Each action is one handler's code from one await to
the next, with all its early returns as disjuncts; each SQL statement or transaction is atomic.
Operators named *Mutant* in their comment are plausible bugs; no specification uses them, they
show that a property notices the bug.

*ReminderDelivery.* `ListConfiguration`, `ClaimDue` and `EndScan` are the part of `scan` that a
delivery needs. `ClaimGranted`/`ClaimRefused` are `claimDelivery` (an INSERT, then an UPDATE with
the lease condition, which together are one atomic step), `Finish` the three conditional updates.
A statement whose caller timed out remains in `stmts` and a PUT in `puts`: both may still take
effect in any order. `ReadConfiguration`, `Resolve`, `Confirm`, `Send` are the awaits of
`deliverClaim`; `GiveUp` is its finally block. The room's transaction ID is made of the delivery
key, and the homeserver drops a PUT with an ID it has seen; that it remembers the ID is an
assumption, external to the code.

*ReminderScan.* The cursors and rotations of `scan` over numbered configurations and firings.
A read that uses up the budget leads to `StopListing` or `OutOfTime`. The source loads a calendar
once for a configuration and scan (`found`), so a firing that comes up later waits for the next
scan. The calendar bindings of a scan are fixed.

*ReminderBudget.* `MayCall`/`Returns` is `runWithDeadline`: a call takes any time up to the least
of its timeout and what its deadline leaves.

*PrivateCalendarClient.* The row of an app ID with its state, the alias and the two stages of its
map in Radicale, the requests nobody waits for any more (`late`), and one `job` per manager. The
lock of `withTargetLock` has the manager in its key, so a manager has one operation at a time
and two managers have none in common. `Overdue` rows are revoked by whatever statement looks at
them, as in `expireRows`. The check of the policy and its revocation are one step. `Activate` is the
statement, `Respond` what comes after its await: a manager may revoke the client before either, and
`activated`, a history, tells whether the row ever became active.

*RoomCalendarSetup.* One `job` per command. `Ask` stands for the gates in front of the snapshot
(server, power levels of actor and bot, encryption, first look at the widgets), `Snapshot` for the
ready and configured bindings, `Reserve` for the transaction of the store, then `Preflight`,
`Inspect`, `Create`, `Recheck`, `Verify`, `MarkReady`, `Install`, `Latest`, `Send`, `Written` for
`finishBinding`. MKCALENDAR may make a collection that turns out read-only or mixed, may be
served after its deadline (`late`, `Land`), and may succeed with its answer lost. Members edit
widgets at any time. Collections are not removed behind the gateway's back, and the configured
bindings (`Static`) do not change.

*PublicCalendarFeed.* One calendar and its shares in Radicale, by token. `Ask` and `Enter` are the
promise chain of `withTargetLock`, `End` its finally block; between them the request that holds
the lock goes through `resolveTarget`, the list, and the awaits of its operation. `todo` holds the
shares `deleteMarkedShares` has still to delete. `CreateFails` covers a refused create, one that
took effect without an answer, and one that will (`late`, `LateCreate`). `OwnerEdits` is the owner
in Radicale's own interface, who may also undo what the feature made. `strays` is a history: what
late creates, restarts and failed cleanups have left.

*CalendarEventWrite.* One event resource. Its content is the set of edits made to it, with `Todo`
for a component that is no VEVENT, and a strong ETag is the content itself, so an ETag matches
again when a content comes back (`recurred`). A writer is a user of the gateway (create, patch,
delete) or a native client behind the DAV proxy with one of its conditions. `Ask` keeps what the
writer has seen, `Read` is the server's own GET, and `sent` the request Radicale may still carry
out after `GiveUp`: `TakeEffect` when its condition holds, `Reject` with 412 when not. `Patch`
puts the edit on what was read and sends the ETag the caller named; `Forward` pins a native write
to what the preflight has read.

*CommandTrafficLimiter*, *SourceRateLimiter*, *CallbackReplayCache.* The tables with their lazy
cleanups. Times are ages, or what is left until them, which `Tick` changes; a list of times is a set
of ages, each with its number among the equal ones (`TimedEvents`). `history`, `passed` and `consumed`
record what was accepted, and the properties compare each decision with them. A bucket
of the command limiter is an object (`Numbers`), for a release function may hold one that the table
has dropped. A restart of the process begins a new behaviour.

*HostServices*, *ColdBackup*, *ServerRelease*, *HostOperations.* A container runs, has ended within
the grace of its stop, was killed, or was just created. A stop that is cut off stays in `cut` and
may come late; `warm` notes for each run of the backup what ran while it archived, and `cooled` what
of it has ended gracefully since. `ColdBackup` has one action per external command with its failure,
`Abandon` for the catch blocks, and `Kill` for a second signal; the files of a capture are compared
(`CheckCapture`) some awaits before they are unlinked (`RemoveCapture`), and somebody may change one
at any time (`Alter`), also in between (`gapAltered`). `ServerRelease` has one phase per step of the
transaction; `job` is its `docker compose up`, which reads the file after the runner has compared
its hash (`UpReads`) and goes on when the runner is killed. The compose file is the image it names
and the rest (saved or edited by somebody else), the container the configuration it was made of.
`Reconcile` is the operator the documents call for after a kill or an incomplete operation.

## Runs

| run | instance | shows |
|---|---|---|
| `reminder_delivery` | 1 firing, 2 schedulers, 2 tokens, 2 schedules, 2 revisions, timers without any promise | one message, exclusive claims, fencing by revisions, refinement of `ReminderNotification` |
| `reminder_progress` | punctual timers, lease 2, budget 1, fairness | a firing that stays due is settled, and nothing is sent for a settled one |
| `reminder_recreated` (violation) | 1 scheduler, 2 creations | a configuration deleted and created again passes the second read |
| `reminder_scan` | 2 calendars with 2 and 1 configurations, with 3, 1 and 2 firings, the second comes and goes with its firing, caps 2/3/2, an LRU of 2, fairness | nothing twice in a scan, round robin, every configuration is listed again and again, and so is every firing attempted if evictions of cursors cease |
| `reminder_budget` | the numbers of the code, in seconds | work within the lease, scan within its deadline, a release is always called |
| `private_client` | 2 managers, 1 client, 1 active client allowed, 2 faults | an active client has its map, a secret is shown only for a client whose row became active, and not withdrawn by the enrolment that shows it, removed means removed, revoked is for ever |
| `room_setup` | 3 rooms and a configured one, 3 UUIDs, limit 3, 2 commands, 2 faults | bindings are one to one and kept, ready means usable, with the table full and not full |
| `room_setup_progress` | 1 room, 2 UUIDs, limit 1, 2 commands, 2 faults, 1 edit of a widget | a reservation is completed; widgets and "created" also under edits |
| `public_feed` | 2 requests, again and again, 2 tokens and one of the owner's, fairness | the five properties of the module |
| `event_writes` | 2 writers of any kind, 2 edits, 2 writes by others | no lost update, foreign components survive, answers are true |
| `process_limits` | 5 actors in 2 rooms, 3 sources, 3 nonces, small caps | every decision follows from what was accepted |
| `host_operations` | 2 runs of the backup, or 1 beside a release | captures are cold but for a server stopped again in time, services come back, what was last compared is not lost, a release says what is so, edits survive |

Why the bounds are enough. The firing of `ReminderDelivery` is the unit of all its tables, so a
second firing adds only interleavings of independent rows; two schedulers and two or three tokens
give a claim, its takeover and a late statement of the first. Tokens are random UUIDs: one is used
again only when nothing holds it. `MaxRevision`, `MaxBirths` bound edits, `Lease` and `Budget` are
ticks. The scan needs two calendars and three configurations for its rotations, more firings of one
than a scan may claim, caps below what is there, and fewer cursors than configurations, so that
cursors are evicted and an evicted one starts from the first firing; `Volatile` names the
configurations whose rows and firings come and go. In `PrivateCalendarClient` two managers are the least with which the lock
does not help, `MaxFaults` bounds timeouts, restarts and lost answers, and overdue rows are a flag.
In `RoomCalendarSetup` two commands race for a room or for the last place; three rooms and a limit
of three with one configured binding let the table fill up; two faults combine a lost answer with a
late request. In `PublicCalendarFeed` tokens are never drawn twice, so two of them bound the creates
of a behaviour, and the owner's one shows that others' shares are left alone. In
`CalendarEventWrite` a writer writes once, `MaxForeign` bounds the others, and two foreign writes
bring a content back. In `ProcessLimits` the five keys make the cap of a room, the global cap and a
full table bite separately; a behaviour uses one of the three tables, which share nothing but the
clock (`MCNext`), and the clock does not go back. In `HostOperations` a run or a release is tried
once, an editor edits once, a capture is changed once, and a start takes effect at once or not at all; `MCInit` takes two runs
or one beside a release, all that can disturb each other in pairs. The deadlock check is off where
faults, commands or attempts are bounded, tokens may all be in use, or the scan is over: there the
model may stop.

Symmetry sets are used for safety runs only.

## Fairness

- `ReminderDelivery!Fairness`: the interval timer starts scans for ever and the cursors come round
  (`ReminderScan` checks that they do, under its own assumptions, which leave out evictions for ever), time passes, calls return or
  time out, and from some moment on there is no fault. Without the last, no delivery need ever
  succeed: each may be cut short.
- `ReminderScan!FairSpec`: the timer starts scan after scan, and at some time scans cease to be cut
  short and to be restarted; rows and firings go on changing. `EveryFiringAttempted` assumes besides
  that evictions cease, which is so when no more configurations have due firings than the cursor map
  has entries (1,000); the other properties hold without that.
- `RoomCalendarSetup!FairSpec`: a command that has begun goes on (every await has a timeout), and
  for every room somebody asks again when they can. The second is an assumption about the members
  of a room: nothing in the gateway resumes a pending binding.
- `PublicCalendarFeed!FairSpec`: every call has an answer or a timeout (`withTimeout`), so the request
  that holds the lock goes on, and so does the one at the head of the queue.

## Findings and known limits

`reminder_recreated`: a configuration deleted and created again has revision 1 again, so the second
read of a delivery in progress does not notice (ADR044, the comment at the read).

What the models allow by name, because the code does:

- Reminders. The rotation over configurations moves only when a candidate is found
  (`RoomReminderScheduler.ts:540`), so slow reads of configurations with nothing due keep a due one
  out for as long as they stay slow; ADR028 (106-108, 147-148) speaks of fair turns. And what is
  reserved before a read does not cover the claim after it, so the release may have about one second
  instead of three (ADR028:117-118); it is still called in time (`ReleaseIsCalled`).
- Reminders, more configurations with due firings than the cursor map has entries. An evicted
  configuration starts from its first firing again. When its claims are then spent on settled firings,
  its later firings are not attempted while the evictions go on, and may leave the 24 hour window; and
  since the rotation goes on after the configuration served last, wherever the page ends, another one of
  the same page may have no turn either. No fault is needed: one calendar, three configurations, pages
  of two, one claim and one cursor are enough. ADR028 (106-108) wants that a large due set cannot
  starve other configurations; its test (`RoomReminderScheduler.test.ts:655`, *advances beyond
  already-sent candidates after a bounded cursor is evicted*) takes the other configuration's firing
  away before it expects the advance, which is the exception of `EveryFiringAttempted`.
- Private clients. A request that creates a map and takes effect after the compensation has listed
  the maps leaves an alias behind, of a row that calls it removed; `RemovedIsRemoved` speaks of
  behaviours without a fault. The revoked row denies access.
- Events. A patch sends the ETag its caller named with a body made of a later reading
  (`CalendarEventUpdateOperation.ts:91-92`). If the named content was replaced and restored around
  that reading, the passing content is written over the restored one: the exception `recurred`.
- Feeds. What a late create, a restart or a failed cleanup leaves (`strays`) is readable until the
  next publish or unpublish of the calendar.
- Backup. A stop that Docker carries out after it was aborted leaves a service down
  (`stranded`); a second signal ends the process where it is; a failure to release the lock hides
  the failure to resume; an unverified upload, where neither cleanup nor restore inputs ask for
  one, may displace a verified snapshot of the same day; and a kill while the capture is removed
  leaves its marker with archives missing (`torn`). A release may start the server while its store is
  archived, for neither takes the other's lock; if the server has ended gracefully again before the
  last look at the services (`matrix-calendar-cold-backup.mjs:2462`), as when the release rolls back
  at that moment, the run does not notice (`cooled`). And the files of a capture are compared with
  the noted ones once, before the unlinks (1830-1848): one that is changed after that is removed,
  and the repository holds what it was before (`gapAltered`).
- Release. A gap remains between the last look at the hash of the compose file and its rename
  (`docs/deployment-docker.md:676-691` names it): `gapEdit`. After a rollback the container is made
  of an overlay, so the next release is refused until somebody has run `up`; and a rollback beside
  an editor's change may leave a file that selects the candidate.

## Proofs

TLAPS proves, for any constants that satisfy the named assumptions of a module:

*ReminderDeliveryProofs* (`ConstantsOk`, `BudgetFitsLease`). `TypeInv` is inductive. `TokenInv`
adds where a token may be: a claim token belongs to one row, one scheduler and the statements and
PUTs that carry it, because `Fresh` is what a random UUID gives. From it follow `HoldInv` (a
scheduler with an unexpired lease holds the row under its token), hence `ClaimsAreExclusive`;
`SentInv` (a statement that will write `sent` has its message in the room), hence `SentIsTrue`;
`OneNotification` from the transaction ID alone; `DeliveryRefines`, the refinement, step by step;
`FenceInv` (records of one creation with one revision are equal), hence `RevisionsFence`; and with
punctual timers `QuietAfterSettling`, which needs that a busy scheduler's lease is positive.

*ReminderSchedulerProofs* (`ScanConstantsOk`, `LimitsOk`). `ScanInv` says of a scan that no cursor of
its own is behind a firing it has attempted (`AttemptsInv`), whatever became of the cursors kept from
scan to scan, hence `FiringsAreAttemptedOnce`; and that the configurations which still take turns
have had the same number of them, and one more those whose turn in this round is over (`RoundsInv`),
hence `TurnsAreShared`. `BudgetInv` relates the deadlines of a claim to the moment of its grant;
`LeaseOutlivesWork`, `ScansEnd` and `ReleaseNeverSkipped` follow by arithmetic.

*PrivateCalendarClientProofs*. `TypeInv` and the lemma that every step moves each row only along
`RowMoves` give `TypeCorrect` and `TombstonesStay`. `MapInv` says that a late deletion, and an
activation, concern revoked rows and accepted maps: `ActiveClientHasItsMap`. `BootInv` says that a
request about a map exists only past bootstrap: `MapsAreBootstrapped`. `EnrolInv` follows an
enrolment to the answer, which waits only for a client in `activated`, and no other enrolment has its
app ID: `SecretsAreOfActiveClients`. `TidyInv` is about behaviours without a fault:
a map that is marked as removed, or about to be, and still there is in the hands of an operation
that cannot end without deleting it, so `RemovedMapsAreGone` once everybody has ended.

*RoomCalendarSetupProofs* (`SetupConstantsOk`). `TypeInv` says what a command knows at each of its
steps (`Informed`): past its reservation it works on the row of its room, whatever identifier it
drew. Two lemmas, that rows are only added and made ready and that collections are only made, keep
that knowledge true while other commands run; they also give `BindingsAreKept`,
`ReadyHasCollection` and `WidgetsShowTheBinding`. One-to-one bindings rest on the checks of the
insert and on the cardinality of a set with one element more. `CreatedOnce` needs `MadeInv`: of the
commands of a room at most one has made the collection and not reported it yet, and none has once
a creation has been reported.

*PublicCalendarFeedProofs* (`FeedConstantsOk`). `FlowInv` accounts for every share of the feature at
each await of the request that holds the lock: it is one whose link was handed out, one left behind,
the request's own (`Making`), or one it has still to delete; and while nothing was left behind there
is one at most and none that was handed out is deleted. With `Drawn` (a token is drawn once) it gives
`WithdrawnStays`, `NothingSilent`, `LinksOutlive` and `OneShare`. That `First` picks a member of its
set rests on the order of the naturals being well founded.

*CalendarEventWriteProofs* (`WriteConstantsOk`). `WriterInv` follows each request from the reading it
is based on: what it is to replace is settled when it is sent (`Pinned`), what its author has seen is
there or was replaced (`Looked`, `Based`), and that it comes back stays noted (`Recurs`). One lemma
says that the steps of others keep this; `NoUpdateIsLost`, `MixedContentSurvives` and
`AnswersAreTrue` follow, for any number of writers and any delay.

*ProcessLimitsProofs* (`LimiterConstantsOk`, `SourceConstantsOk`, `NonceConstantsOk`). `LimitsInv` says
of each table how its entries follow from what happened, late cleanups included. `CommandsInv`: an
object counts the commands that hold its release function, it is in the table while there are any,
and its recent times are those of its key; with a bijection between the counts of the table and the
commands at work this makes each decision the one the traffic calls for (`CommandsDecided`).
`SourcesInv`: a window counts what has passed since it was opened, and before that at most one other
window's requests passed within its length (`SourcesDecided`). `NoncesInv`: an entry tells when its
nonce was last accepted, and an expired one is not older than the cleanup that is due
(`NoncesDecided`). On top of it `BoundsInv` counts: `CommandsAreCapped` and `TablesStayBounded` say
that the caps on commands, tables and lists of times hold in every state. (These two are
proved and left out of the runs.) Finiteness of the tables is part of the invariant, for the set of possible
rooms, sources and nonces need not be finite.

*HostOperationsProofs* (`BackupConstantsOk`), for any number of backup runs beside a release.
`BackupInv` follows a run: it holds the lock (`Busy`); no service that ran during the archives is
found stopped, and none gets hot for a run whose archives are over (`Cold`); and nothing but the
server runs again while a run is at work (`Quiet`), hence `CapturesAreCold`, with its exception: a
server that was started and has ended gracefully since. Files that have changed do not change back,
so that what is removed is what was noted, saved and found again (`Saved`), hence `NothingIsLost`,
but for what is changed after the last comparison. `ReleaseInv` says what a release knows at each
phase (`Known`) and that a rename replaces the file that was checked (`Checked`), hence
`ReleaseIsTrue` and `EditsAreKept`. `ServiceInv` says that whatever is down is owed by a run or a
release with its lock, was reported, or fell to a late stop: `ServicesAreBack`.

Only model-checked: liveness (`EventuallySettled`, `EveryFiringAttempted`,
`EveryConfigurationListed`, `PendingBecomesReady`, `EveryRequestEnds`), since neither fairness nor
ENABLED is in reach of the prover. Every safety property that a passing run checks has a theorem.
A type invariant of the whole scan is not among the theorems: what the sequences of `ReminderScan`
hold (the order of a page, what the LRU of cursors keeps) would need induction over data, for
`SelectSeq` and for sorting, and its theorems are true whatever they hold. No module declares a RECURSIVE operator.

## Not modelled

- Data: iCalendar, recurrence and time zones, XML, message bodies, command syntax, feed tokens and
  credentials. They are pure conversions with unit tests and fixtures of their own.
- The gates: authorization in rooms, OpenID proof, encryption, and callback signatures and time
  stamps are decisions that a step takes or does not; what they read is not modelled.
- Configuration that changes between restarts, and operators who edit Radicale or the tables, except
  where a module says otherwise (shares, events, the compose file).
- A second gateway process for feeds and limiters: the documents ask for one.
- The scheduler's timer and its stop: `ReminderDelivery` allows more, for there schedulers overlap
  and end at any await.
- The predecessor's meeting rooms (disabled, ADR042), the widget, plug-ins, other scripts, charts.

## Plan

Done: all modules of the table above with their runs, and the proofs described.

Next, in this order:

1. Recurrence windows and all-day triggers as pure operators against a reference definition.
2. The overwriting of widgets by members (ADR043) and the recipients' recheck in detail.
