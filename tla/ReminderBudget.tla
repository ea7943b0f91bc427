---------------------------- MODULE ReminderBudget ----------------------------
(***************************************************************************)
(* The time budget of a scan: RoomReminderScheduler gives every call a     *)
(* timeout, the work on a claim and its release a deadline each, and the   *)
(* whole scan another one, and reads no further firing when too little     *)
(* time is left.  The module follows one clock through these deadlines:    *)
(* a call takes any time up to its timeout.  Times are in seconds since    *)
(* the start of the scan, and LIMITS are the numbers of the code.          *)
(***************************************************************************)
EXTENDS Integers

CONSTANTS
    ScanDeadline,   \* scanDeadlineMs
    Timeout,        \* operationTimeoutMs
    Work,           \* postClaimWorkDeadlineMs
    Reserve,        \* postClaimReleaseReserveMs
    Lease           \* deliveryLeaseMs

ASSUME LimitsOk ==
    /\ {ScanDeadline, Timeout, Work, Reserve, Lease} \subseteq Nat \ {0}
    /\ Timeout <= Reserve
    /\ 2 * Timeout + Work + Reserve < Lease

VARIABLES
    now,             \* performance.now()
    doing,           \* what the scheduler is doing
    workDeadline,    \* of deliverClaim
    totalDeadline,   \* of deliverClaim
    leaseEnds        \* lease_expires_at of the row

budgetVars == <<now, doing, workDeadline, totalDeadline, leaseEnds>>

BudgetInit ==
    /\ now = 0 /\ doing = "scan"
    /\ workDeadline = 0 /\ totalDeadline = 0 /\ leaseEnds = 0

Least(x, y) == IF x <= y THEN x ELSE y

\* runWithDeadline: no call at or after the deadline, and none beyond it.
MayCall(deadline) == now < deadline
Returns(deadline, maximum) == now .. now + Least(maximum, deadline - now)

-----------------------------------------------------------------------------
\* Mutant: the reserve is forgotten.
PreClaimBudgetEndedNow == now >= ScanDeadline

\* preClaimBudgetEnded, with the reserve for a claim and its read.
PreClaimBudgetEnded == now + Work + Reserve + Timeout >= ScanDeadline

\* The configurations are listed, or the firing before was of no use.
Wait ==
    /\ doing = "scan" /\ MayCall(ScanDeadline)
    /\ now' \in Returns(ScanDeadline, Timeout)
    /\ UNCHANGED <<doing, workDeadline, totalDeadline, leaseEnds>>

ListDueCandidates ==
    /\ doing = "scan" /\ ~ PreClaimBudgetEnded
    /\ now' \in Returns(ScanDeadline, Timeout)
    /\ doing' = "due"
    /\ UNCHANGED <<workDeadline, totalDeadline, leaseEnds>>

\* Mutant: the work on a claim may last as long as the scan.
WorkDeadlineOfScan(startedAt) == ScanDeadline

WorkDeadline(startedAt) == startedAt + Work

\* Mutant: the release has no time of its own.
TotalDeadlineOfWork(startedAt) == Least(startedAt + Work, ScanDeadline)

TotalDeadline(startedAt) == Least(startedAt + Work + Reserve, ScanDeadline)

\* The database grants the lease while the call is under way.
ClaimDelivery ==
    /\ doing = "due" /\ MayCall(ScanDeadline)
    /\ now' \in Returns(ScanDeadline, Timeout)
    /\ \E granted \in now .. now' : leaseEnds' = granted + Lease
    /\ doing' = "work"
    /\ workDeadline' = WorkDeadline(now')
    /\ totalDeadline' = TotalDeadline(now')

\* The claim is refused or times out, or there is no time left for it.
NoClaim ==
    /\ doing = "due"
    /\ \/ MayCall(ScanDeadline) /\ now' \in Returns(ScanDeadline, Timeout)
       \/ ~ MayCall(ScanDeadline) /\ now' = now
    /\ doing' = "scan"
    /\ UNCHANGED <<workDeadline, totalDeadline, leaseEnds>>

\* One of the awaited calls of deliverClaim before the release.
WorkOn ==
    /\ doing = "work" /\ MayCall(workDeadline)
    /\ now' \in Returns(workDeadline, Timeout)
    /\ UNCHANGED <<doing, workDeadline, totalDeadline, leaseEnds>>

\* An outcome was recorded: nothing to release.
Settle ==
    /\ doing = "work"
    /\ doing' = "scan"
    /\ UNCHANGED <<now, workDeadline, totalDeadline, leaseEnds>>

\* The finally block: the release is called, if there is time left.
Fail ==
    /\ doing = "work"
    /\ doing' = "release"
    /\ UNCHANGED <<now, workDeadline, totalDeadline, leaseEnds>>

Release ==
    /\ doing = "release"
    /\ \/ MayCall(totalDeadline) /\ now' \in Returns(totalDeadline, Reserve)
       \/ ~ MayCall(totalDeadline) /\ now' = now
    /\ doing' = "scan"
    /\ UNCHANGED <<workDeadline, totalDeadline, leaseEnds>>

BudgetNext == Wait \/ ListDueCandidates \/ ClaimDelivery \/ NoClaim \/ WorkOn
          \/ Settle \/ Fail \/ Release

BudgetSpec == BudgetInit /\ [][BudgetNext]_budgetVars

-----------------------------------------------------------------------------
(* Properties.                                                              *)

BudgetTypeOK ==
    /\ {now, workDeadline, totalDeadline, leaseEnds} \subseteq Nat
    /\ doing \in {"scan", "due", "work", "release"}

\* The scheduler has stopped working on a claim, release included, before its
\* lease ends: although the database counts the lease from the grant and the
\* scheduler its deadlines from the reply.
WorkEndsWithinLease == doing \in {"work", "release"} => now < leaseEnds

\* The scan is over at its deadline: the work on a claim has a deadline of its
\* own, which the check before the read keeps below that of the scan.
ScanEndsInTime == now <= ScanDeadline

\* After a failure there is always time to call the release: the work on a claim never
\* uses up what preClaimBudgetEnded has set aside, although the read and the claim that
\* follow that check take some of it (with the numbers of the code the release may have
\* one of its three seconds left).
ReleaseIsCalled == doing = "release" => MayCall(totalDeadline)
=============================================================================
