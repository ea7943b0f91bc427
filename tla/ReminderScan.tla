----------------------------- MODULE ReminderScan -----------------------------
(***************************************************************************)
(* One scheduler's scans: RoomReminderScheduler.scan, which pages through  *)
(* the reminder configurations of the bound calendars and gives each       *)
(* configuration of a page its turns, one due firing at a time, under caps *)
(* on configurations, firings and claims and under a time budget.          *)
(*                                                                         *)
(* Between scans the scheduler remembers cursors: per calendar the last    *)
(* configuration listed, per configuration the last firing inspected (a    *)
(* bounded LRU map), and where the rotations of both loops go on.  The     *)
(* module is about what these cursors do together: nothing is attempted    *)
(* twice in a scan, no configuration gets two turns ahead of another, and  *)
(* every firing that stays due has its turn in the end, unless cursors are *)
(* evicted for ever because more configurations have due firings than the  *)
(* map has entries.                                                        *)
(***************************************************************************)
EXTENDS Integers, Sequences, FiniteSets

Sq == INSTANCE SequencesExt
Fx == INSTANCE FiniteSetsExt

CONSTANTS
    Bindings,        \* bound calendars, numbered in the order of compareBindings
    Confs,           \* configurations, numbered in the order of compareConfigurations
    BindingOf,       \* the calendar of a configuration
    OrdinalsOf,      \* the firings of a configuration, numbered in keyset order
    MaxConfigs,      \* maxConfigurationsPerRun
    MaxCandidates,   \* maxDueCandidatesPerRun
    MaxClaims,       \* maxDeliveryClaimsPerRun
    MaxCursors,      \* maxCandidateCursorEntries
    Volatile         \* configurations whose rows and firings come and go

\* Numbers start at 1: 0 stands for an absent cursor.
ASSUME ScanConstantsOk ==
    /\ Bindings \subseteq Nat \ {0} /\ Bindings # {}
    /\ Confs \subseteq Nat \ {0}
    /\ OrdinalsOf \in [Confs -> SUBSET (Nat \ {0})]
    /\ BindingOf \in [Confs -> Bindings]
    /\ \A c, d \in Confs : c <= d => BindingOf[c] <= BindingOf[d]
    /\ {MaxConfigs, MaxCandidates, MaxClaims, MaxCursors} \subseteq Nat \ {0}
    /\ Volatile \subseteq Confs

Ordinals == UNION {OrdinalsOf[c] : c \in Confs}
Firings == {f \in Confs \X Ordinals : f[2] \in OrdinalsOf[f[1]]}
None == 0

VARIABLES
    present,      \* rows of room_reminder_configurations
    due,          \* firings in the window
    pageCursor,   \* configurationCursors
    cursor,       \* candidateCursors: the firing of an entry
    lru,          \* candidateCursors: the keys, oldest first
    lastBinding,
    lastConf,     \* lastCandidateConfiguration
    phase,        \* what the scheduler is doing
    scan          \* the local variables of scan

vars == <<present, due, pageCursor, cursor, lru, lastBinding, lastConf, phase, scan>>
world == <<present, due>>

\* todo: calendars still to list; page: configurations listed, then in the order
\* of their turns; round: those still to have a turn in this round; found: firings of
\* the configurations the source has loaded in this scan; attempts: firings claimed, in
\* order.
NoScan == [todo |-> <<>>, page |-> <<>>, round |-> {},
           after |-> [c \in Confs |-> None], exhausted |-> {},
           found |-> [c \in Confs |-> {}],
           calls |-> 0, inspected |-> 0, attempts |-> <<>>, worked |-> FALSE]

Init ==
    /\ present = Confs /\ due = Firings
    /\ pageCursor = [b \in Bindings |-> None]
    /\ cursor = [c \in Confs |-> None]
    /\ lru = <<>>
    /\ lastBinding = None
    /\ lastConf = None
    /\ phase = "idle"
    /\ scan = NoScan

-----------------------------------------------------------------------------
(* Sequences of numbers.                                                    *)

Ascending(S) == Sq!SetToSortSeq(S, LAMBDA x, y : x < y)

RotateAfter(seq, last) ==
    SelectSeq(seq, LAMBDA x : x > last) \o SelectSeq(seq, LAMBDA x : x <= last)

Without(seq, x) == SelectSeq(seq, LAMBDA y : y # x)

\* The newest MaxCursors entries.
Pruned(seq) ==
    SubSeq(seq, IF Len(seq) > MaxCursors THEN Len(seq) - MaxCursors + 1 ELSE 1, Len(seq))

-----------------------------------------------------------------------------
(* The world: rows come and go, firings become due.                         *)

Insert(c) ==
    /\ c \in Volatile \ present
    /\ present' = present \union {c}
    /\ UNCHANGED <<due, pageCursor, cursor, lru, lastBinding, lastConf, phase, scan>>

Delete(c) ==
    /\ c \in present \intersect Volatile
    /\ present' = present \ {c}
    /\ UNCHANGED <<due, pageCursor, cursor, lru, lastBinding, lastConf, phase, scan>>

\* A firing may become due behind a cursor: keyset order is not time order.
BecomeDue(f) ==
    /\ f \in Firings \ due /\ f[1] \in Volatile
    /\ due' = due \union {f}
    /\ UNCHANGED <<present, pageCursor, cursor, lru, lastBinding, lastConf, phase, scan>>

-----------------------------------------------------------------------------
(* Listing.                                                                 *)

StartScan ==
    /\ phase = "idle"
    /\ phase' = "listing"
    /\ scan' = [NoScan EXCEPT !.todo = RotateAfter(Ascending(Bindings), lastBinding)]
    /\ UNCHANGED <<world, pageCursor, cursor, lru, lastBinding, lastConf>>

PerBindingPageLimit ==
    Fx!Max({1, MaxConfigs \div Cardinality(Bindings)})

Limit == Fx!Min({PerBindingPageLimit, MaxConfigs - Len(scan.page)})

MoreToList == scan.todo # <<>> /\ Len(scan.page) < MaxConfigs

Rows(b) ==
    LET rows == Ascending({c \in present : BindingOf[c] = b /\ c > pageCursor[b]})
    IN  SubSeq(rows, 1, Fx!Min({Limit, Len(rows)}))

\* Mutant: a full page is taken for the last one.
CursorAfterFull(rows) == IF Len(rows) <= Limit THEN None ELSE Sq!Last(rows)

\* A short page is the last one: the next scan starts from the first row.
CursorAfter(rows) == IF Len(rows) < Limit THEN None ELSE Sq!Last(rows)

ListPage ==
    /\ phase = "listing" /\ MoreToList
    /\ LET b == Head(scan.todo) IN
         /\ lastBinding' = b
         /\ scan' = [scan EXCEPT !.todo = Tail(@), !.page = @ \o Rows(b)]
         /\ pageCursor' = [pageCursor EXCEPT ![b] = CursorAfter(Rows(b))]
    /\ UNCHANGED <<world, cursor, lru, lastConf, phase>>

\* The room does not authorize delivery, or the store fails.
SkipBinding ==
    /\ phase = "listing" /\ MoreToList
    /\ lastBinding' = Head(scan.todo)
    /\ scan' = [scan EXCEPT !.todo = Tail(@)]
    /\ UNCHANGED <<world, pageCursor, cursor, lru, lastConf, phase>>

\* Mutant: the cursor is not found again.
EntryLost(c) == None

Entry(c) == IF Sq!Contains(lru, c) THEN cursor[c] ELSE None

\* Every cursor that is read becomes the newest entry.
Touched(page) ==
    SelectSeq(lru, LAMBDA c : ~ Sq!Contains(page, c))
      \o SelectSeq(page, LAMBDA c : Sq!Contains(lru, c))

BeginTurns ==
    /\ IF scan.page = <<>>
       THEN /\ phase' = "idle"
            /\ scan' = NoScan
            /\ UNCHANGED lru
       ELSE /\ phase' = "turns"
            /\ lru' = Touched(scan.page)
            /\ LET order == RotateAfter(Ascending(Sq!ToSet(scan.page)), lastConf) IN
               scan' = [scan EXCEPT !.page = order, !.round = Sq!ToSet(order),
                                    !.after = [c \in Confs |-> Entry(c)]]
    /\ UNCHANGED <<world, pageCursor, cursor, lastBinding, lastConf>>

StartTurns == phase = "listing" /\ ~ MoreToList /\ BeginTurns

\* The time budget is used up before every calendar is listed.
StopListing ==
    /\ phase = "listing" /\ MoreToList
    /\ BeginTurns

-----------------------------------------------------------------------------
(* Turns.                                                                   *)

UnderCaps ==
    /\ scan.inspected < MaxCandidates
    /\ Len(scan.attempts) < MaxClaims
    /\ scan.calls < MaxConfigs + MaxCandidates

InTurn(c) ==
    /\ phase = "turns" /\ UnderCaps
    /\ \E i \in DOMAIN scan.page :
          /\ scan.page[i] = c /\ c \in scan.round
          /\ \A j \in 1 .. i - 1 : scan.page[j] \notin scan.round

\* The turn of a configuration in this round is over.
Passed(round, c) == round \ {c}

\* The source loads the calendar once for a configuration and scan.
Candidates(c) ==
    IF scan.found[c] # {} THEN scan.found[c] ELSE {n \in Ordinals : <<c, n>> \in due}

NextFirings(c) == {n \in Candidates(c) : n > scan.after[c]}

\* Nothing after the cursor: the next scan starts from the first firing.
NothingDue(c) ==
    /\ InTurn(c)
    /\ NextFirings(c) = {}
    /\ lru' = Without(lru, c)
    /\ scan' = [scan EXCEPT !.round = Passed(@, c), !.calls = @ + 1, !.exhausted = @ \union {c}]
    /\ UNCHANGED <<world, pageCursor, cursor, lastBinding, lastConf, phase>>

\* The canonical source fails, or returns more than the one candidate asked for.
SourceFails(c) ==
    /\ InTurn(c)
    /\ scan' = [scan EXCEPT !.round = Passed(@, c), !.calls = @ + 1, !.exhausted = @ \union {c}]
    /\ UNCHANGED <<world, pageCursor, cursor, lru, lastBinding, lastConf, phase>>

\* The candidate is not one of this configuration: it counts as inspected.
WrongCandidate(c) ==
    /\ InTurn(c)
    /\ scan' = [scan EXCEPT !.round = Passed(@, c), !.calls = @ + 1, !.inspected = @ + 1,
                            !.worked = TRUE, !.exhausted = @ \union {c}]
    /\ lastConf' = c
    /\ UNCHANGED <<world, pageCursor, cursor, lru, lastBinding, phase>>

\* Mutant: the turn keeps its place in the page.
NextTurnSame(round, c, n) == IF \E m \in NextFirings(c) : m > n THEN round ELSE Passed(round, c)

NextTurn(round, c, n) == Passed(round, c)

\* Mutant: the local cursor is not moved.
MovedNever(after, c, n) == after

Moved(after, c, n) == [after EXCEPT ![c] = n]

\* The cursors move before the claim, whatever becomes of it: refused, failed
\* or granted and delivered.  Delivery drops the cursor of a configuration that
\* it finds gone.
Attempt(c) ==
    /\ InTurn(c)
    /\ NextFirings(c) # {}
    /\ LET n == Fx!Min(NextFirings(c)) IN
         /\ scan' = [scan EXCEPT !.round = NextTurn(@, c, n), !.calls = @ + 1,
                                 !.inspected = @ + 1, !.worked = TRUE,
                                 !.after = Moved(@, c, n),
                                 !.found[c] = Candidates(c),
                                 !.attempts = Append(@, <<c, n>>)]
         /\ cursor' = [cursor EXCEPT ![c] = n]
         /\ \/ lru' = Pruned(Append(Without(lru, c), c))
            \/ c \notin present /\ lru' = Without(lru, c)
    /\ lastConf' = c
    /\ UNCHANGED <<world, pageCursor, lastBinding, phase>>

NextRound ==
    /\ phase = "turns" /\ UnderCaps
    /\ scan.round = {} /\ scan.worked
    /\ scan' = [scan EXCEPT !.round = Sq!ToSet(scan.page) \ scan.exhausted,
                            !.worked = FALSE]
    /\ UNCHANGED <<world, pageCursor, cursor, lru, lastBinding, lastConf, phase>>

CloseScan ==
    /\ phase' = "idle"
    /\ scan' = NoScan
    /\ lru' = Pruned(lru)
    /\ UNCHANGED <<world, pageCursor, cursor, lastBinding, lastConf>>

\* No work left or a cap reached.
EndScan ==
    /\ phase = "turns"
    /\ (scan.round = {} /\ ~ scan.worked) \/ ~ UnderCaps
    /\ CloseScan

\* The time budget is used up.
OutOfTime ==
    /\ phase = "turns"
    /\ CloseScan

\* The process is replaced: all cursors are gone.
Restart ==
    /\ phase' = "idle"
    /\ scan' = NoScan
    /\ pageCursor' = [b \in Bindings |-> None]
    /\ cursor' = [c \in Confs |-> None]
    /\ lru' = <<>>
    /\ lastBinding' = None
    /\ lastConf' = None
    /\ UNCHANGED <<world>>

-----------------------------------------------------------------------------
LeaveWindow(f) ==
    /\ f \in due /\ f[1] \in Volatile
    /\ due' = due \ {f}
    /\ UNCHANGED <<present, pageCursor, cursor, lru, lastBinding, lastConf, phase, scan>>

World == \/ \E c \in Confs : Insert(c) \/ Delete(c)
         \/ \E f \in Firings : BecomeDue(f) \/ LeaveWindow(f)

Turn == \E c \in Confs : NothingDue(c) \/ Attempt(c)

Scheduler == StartScan \/ ListPage \/ StartTurns \/ Turn \/ NextRound \/ EndScan

Failure == StopListing \/ OutOfTime \/ SkipBinding \/ (\E c \in Confs : SourceFails(c) \/ WrongCandidate(c)) \/ Restart

\* Where a failure looks like a step of a scan without one, it is none.
Fault == Failure /\ ~ Scheduler

Next == World \/ Scheduler \/ Failure

Spec == Init /\ [][Next]_vars

\* The timer starts scan after scan, and at some time the faults cease.
FairSpec == Spec /\ WF_vars(Scheduler) /\ <>[][~ Fault]_vars

-----------------------------------------------------------------------------
(* Properties.                                                              *)

ScanOK ==
    /\ scan.todo \in Seq(Bindings)
    /\ scan.page \in Seq(Confs) /\ scan.round \subseteq Confs
    /\ scan.after \in [Confs -> Ordinals \union {None}]
    /\ scan.exhausted \subseteq Confs
    /\ scan.found \in [Confs -> SUBSET Ordinals]
    /\ {scan.calls, scan.inspected} \subseteq Nat
    /\ scan.attempts \in Seq(Firings)
    /\ scan.worked \in BOOLEAN

\* Types, and the LRU map has one entry for a key and no more than its capacity.
TypeOK ==
    /\ present \subseteq Confs /\ due \subseteq Firings
    /\ pageCursor \in [Bindings -> Confs \union {None}]
    /\ cursor \in [Confs -> Ordinals \union {None}]
    /\ lru \in Seq(Confs) /\ Sq!IsInjective(lru) /\ Len(lru) <= MaxCursors
    /\ lastBinding \in Bindings \union {None}
    /\ lastConf \in Confs \union {None}
    /\ phase \in {"idle", "listing", "turns"}
    /\ ScanOK

\* A scan stays within the numbers ADR028 gives, over all calendars and rounds:
\* configurations, inspected candidates, claim attempts.
ScanIsBounded ==
    /\ Len(scan.page) <= MaxConfigs
    /\ scan.inspected <= MaxCandidates
    /\ Len(scan.attempts) <= MaxClaims

\* A scan claims a firing once, however rounds, cursors and rows that come and
\* go during the scan interact: a second attempt would waste the claim cap.
NoFiringTwice == Sq!IsInjective(scan.attempts)

Turns(c) == Cardinality({i \in DOMAIN scan.attempts : scan.attempts[i][1] = c})

\* One due firing per turn: as long as two configurations both have firings
\* left, neither is two claims ahead of the other.
RoundRobin ==
    \A c, d \in Sq!ToSet(scan.page) \ scan.exhausted : Turns(c) <= Turns(d) + 1

\* A configuration that stays is listed again and again, whatever rows are
\* inserted before the cursor or deleted under it, and however many calendars
\* share the page.
EveryConfigurationListed ==
    \A c \in Confs : <>[](c \in present)
        => []<>(phase = "turns" /\ c \in Sq!ToSet(scan.page))

\* An attempt for one configuration displaces the cursor of another.
Evicts ==
    \E c \in Confs : Attempt(c) /\ \E d \in Sq!ToSet(lru) \ {c} : ~ Sq!Contains(lru', d)

\* A firing that stays due is attempted in the end, and again if need be: the
\* claim cap, the pages and the turns of others only delay it, if at some time
\* cursors cease to be evicted.  While evictions go on, a configuration may start
\* from its first firing again and again, and its later firings, or a
\* configuration that shares a page with it, need never have a turn.
EveryFiringAttempted ==
    <>[][~ Evicts]_vars =>
        \A f \in Firings : <>[](f[1] \in present /\ f \in due)
            => []<>(f \in Sq!ToSet(scan.attempts))

=============================================================================
