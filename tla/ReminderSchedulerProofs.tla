------------------------ MODULE ReminderSchedulerProofs ------------------------
(***************************************************************************)
(* Theorems about the scheduler's scans: the turns of ReminderScan, for    *)
(* any calendars, configurations and caps, and the clock of ReminderBudget *)
(* for all limits that satisfy LimitsOk, that is what the comments of the  *)
(* code add up from the numbers.                                           *)
(***************************************************************************)
EXTENDS ReminderScan, ReminderBudget, FiniteSetTheorems, WellFoundedInduction, TLAPS

-----------------------------------------------------------------------------
(* Turns.                                                                   *)

\* The local variables of a scan and the cursors it starts from.
ScanShape ==
    /\ scan = [todo |-> scan.todo, page |-> scan.page, round |-> scan.round,
               after |-> scan.after, exhausted |-> scan.exhausted, found |-> scan.found,
               calls |-> scan.calls, inspected |-> scan.inspected,
               attempts |-> scan.attempts, worked |-> scan.worked]
    /\ cursor \in [Confs -> Nat]
    /\ scan.after \in [Confs -> Nat]
    /\ scan.found \in [Confs -> SUBSET Nat]
    /\ scan.attempts \in Seq(Confs \X Nat)

\* No cursor of the scan is behind what the scan has attempted.
AttemptsInv ==
    /\ \A i \in DOMAIN scan.attempts :
          scan.attempts[i][2] <= scan.after[scan.attempts[i][1]]
    /\ NoFiringTwice

\* The configurations of the page that still take turns.
Sharing == Sq!ToSet(scan.page) \ scan.exhausted

\* They have all had the same number of turns, and one more those whose turn in this
\* round is over.
RoundsInv ==
    /\ phase = "turns" => scan.round \subseteq Sharing
    /\ phase # "turns" => scan.attempts = <<>> /\ scan.exhausted = {}
    /\ \E k \in Nat : \A c \in Sharing :
          Turns(c) = IF phase = "turns" /\ c \notin scan.round THEN k + 1 ELSE k

ScanInv == ScanShape /\ AttemptsInv /\ RoundsInv

\* A set of firings that is not empty has a first one.
LEMMA FirstFiring ==
    ASSUME NEW S \in SUBSET Nat, S # {}
    PROVE  Fx!Min(S) \in S
  <1> DEFINE R == OpToRel(<, Nat)
  <1>1. PICK n \in S : \A m \in S : ~ (<<m, n>> \in R)
    <2>1. IsWellFoundedOn(R, Nat)
      BY NatLessThanWellFounded
    <2> HIDE DEF R
    <2> QED
      BY <2>1, WFMin
  <1>2. \A m \in S : <<m, n>> \in R <=> m < n
    BY DEF OpToRel
  <1> HIDE DEF R
  <1>3. \A m \in S : n <= m
    <2>1. \A m \in S : ~ (m < n)
      BY <1>1, <1>2, Zenon
    <2> QED
      BY <2>1
  <1> QED
    BY <1>3 DEF Fx!Min

\* The firings that a turn chooses from are numbers.
LEMMA FiringsAreNumbers ==
    ASSUME ScanShape, NEW c \in Confs
    PROVE  Candidates(c) \in SUBSET Nat /\ NextFirings(c) \in SUBSET Nat
  <1>1. Ordinals \subseteq Nat
    BY ScanConstantsOk DEF Ordinals
  <1> QED
    BY <1>1 DEF ScanShape, Candidates, NextFirings

\* Turns are counted by attempts.
LEMMA TurnsOfAttempts ==
    ASSUME NEW c, NEW d \in Confs, NEW n \in Nat,
           scan.attempts \in Seq(Confs \X Nat), scan'.attempts = Append(scan.attempts, <<d, n>>)
    PROVE  /\ Turns(c) \in Nat
           /\ Turns(c)' = IF c = d THEN Turns(c) + 1 ELSE Turns(c)
  <1> DEFINE at == scan.attempts
             T == {i \in DOMAIN at : at[i][1] = c}
             U == {i \in DOMAIN scan'.attempts : scan'.attempts[i][1] = c}
             k == Len(at) + 1
  <1>1. Len(at) \in Nat /\ DOMAIN at = 1 .. Len(at) /\ k \notin DOMAIN at
    OBVIOUS
  <1>2. IsFiniteSet(T) /\ k \notin T
    <2>1. T \in SUBSET (1 .. Len(at)) /\ k \notin T
      BY <1>1
    <2>2. IsFiniteSet(1 .. Len(at))
      BY <1>1, FS_Interval
    <2> QED
      BY <2>1, <2>2, FS_Subset
  <1>3. Cardinality(T) \in Nat
    BY <1>2, FS_CardinalityType
  <1>4. /\ DOMAIN scan'.attempts = 1 .. k
        /\ \A i \in DOMAIN at : scan'.attempts[i] = at[i]
        /\ scan'.attempts[k] = <<d, n>>
    BY <1>1
  <1>5. CASE c = d
    <2>1. U = T \union {k}
      BY <1>1, <1>4, <1>5
    <2> HIDE DEF T, U, k
    <2>2. Cardinality(U) = Cardinality(T) + 1
      BY <1>2, <2>1, FS_AddElement
    <2> QED
      BY <1>3, <1>5, <2>2 DEF Turns, T, U
  <1>6. CASE c # d
    <2>1. U = T
      BY <1>1, <1>4, <1>6
    <2> QED
      BY <1>3, <1>6, <2>1 DEF Turns
  <1> QED
    BY <1>5, <1>6

\* A scan that has attempted nothing.
LEMMA NoTurns ==
    ASSUME NEW c, scan.attempts = <<>>
    PROVE  Turns(c) = 0
  <1>1. {i \in DOMAIN scan.attempts : scan.attempts[i][1] = c} = {}
    OBVIOUS
  <1> QED
    BY <1>1, FS_EmptySet DEF Turns

\* Every configuration may have its first turn.
Fresh ==
    /\ scan.attempts = <<>> /\ scan.exhausted = {}
    /\ phase = "turns" => scan.round = Sharing

\* Nothing has been attempted then.
LEMMA FreshScan == ScanShape /\ Fresh => ScanInv
  <1> SUFFICES ASSUME ScanShape, Fresh PROVE ScanInv
    OBVIOUS
  <1> USE DEF Fresh
  <1>1. DOMAIN scan.attempts = {}
    OBVIOUS
  <1>2. AttemptsInv
    BY <1>1 DEF AttemptsInv, NoFiringTwice, Sq!IsInjective
  <1>3. \A c \in Sharing : Turns(c) = 0
    BY NoTurns
  <1>4. RoundsInv
    BY <1>3 DEF RoundsInv
  <1> QED
    BY <1>2, <1>4 DEF ScanInv

\* A configuration whose turn is over without an attempt does not share the next round.
LEMMA TurnWithoutAttempt ==
    ASSUME ScanInv, NEW c \in Confs, InTurn(c), UNCHANGED phase,
           scan'.page = scan.page, scan'.attempts = scan.attempts, scan'.after = scan.after,
           scan'.round = scan.round \ {c}, scan'.exhausted = scan.exhausted \union {c}
    PROVE  AttemptsInv' /\ RoundsInv'
  <1>1. AttemptsInv'
    BY DEF ScanInv, AttemptsInv, NoFiringTwice, Sq!IsInjective
  <1>2. \A d : Turns(d)' = Turns(d)
    BY DEF Turns
  <1>3. Sharing' = Sharing \ {c}
    BY DEF Sharing, Sq!ToSet
  <1>4. RoundsInv'
    BY <1>2, <1>3 DEF ScanInv, RoundsInv, InTurn
  <1> QED
    BY <1>1, <1>4

\* An attempt is one beyond the cursor, and the turn of its configuration.
LEMMA TurnWithAttempt ==
    ASSUME ScanInv, NEW c \in Confs, Attempt(c)
    PROVE  ScanInv'
  <1> DEFINE n == Fx!Min(NextFirings(c))
             at == scan.attempts
  <1>1. n \in NextFirings(c) /\ n \in Nat /\ n > scan.after[c]
    <2>1. n \in NextFirings(c)
      BY FiringsAreNumbers, FirstFiring DEF Attempt, ScanInv
    <2> QED
      BY <2>1, FiringsAreNumbers DEF NextFirings, ScanInv
  <1>2. /\ scan'.attempts = Append(at, <<c, n>>)
        /\ scan'.after = [scan.after EXCEPT ![c] = n]
        /\ scan'.round = scan.round \ {c}
        /\ scan'.page = scan.page /\ scan'.exhausted = scan.exhausted
        /\ scan'.found = [scan.found EXCEPT ![c] = Candidates(c)]
        /\ cursor' = [cursor EXCEPT ![c] = n]
        /\ UNCHANGED phase
    BY DEF ScanInv, ScanShape, Attempt, NextTurn, Passed, Moved
  <1>3. ScanShape'
    <2>1. scan' = [todo |-> scan'.todo, page |-> scan'.page, round |-> scan'.round,
                   after |-> scan'.after, exhausted |-> scan'.exhausted, found |-> scan'.found,
                   calls |-> scan'.calls, inspected |-> scan'.inspected,
                   attempts |-> scan'.attempts, worked |-> scan'.worked]
      BY DEF ScanInv, ScanShape, Attempt
    <2>2. cursor' \in [Confs -> Nat] /\ scan'.after \in [Confs -> Nat]
      BY <1>1, <1>2 DEF ScanInv, ScanShape
    <2>3. scan'.found \in [Confs -> SUBSET Nat]
      BY <1>2, FiringsAreNumbers DEF ScanInv, ScanShape
    <2>4. scan'.attempts \in Seq(Confs \X Nat)
      BY <1>1, <1>2 DEF ScanInv, ScanShape
    <2> QED
      BY <2>1, <2>2, <2>3, <2>4 DEF ScanShape
  <1>4. /\ Len(at) \in Nat /\ DOMAIN at = 1 .. Len(at)
        /\ DOMAIN scan'.attempts = 1 .. Len(at) + 1
        /\ scan'.attempts[Len(at) + 1] = <<c, n>>
        /\ \A i \in DOMAIN at : /\ scan'.attempts[i] = at[i]
                                /\ at[i] \in Confs \X Nat /\ at[i][2] <= scan.after[at[i][1]]
    BY <1>1, <1>2 DEF ScanInv, ScanShape, AttemptsInv
  <1>5. \A i \in DOMAIN at : at[i] # <<c, n>>
    BY <1>1, <1>4 DEF ScanInv, ScanShape
  <1>6. AttemptsInv'
    <2>1. ASSUME NEW i \in DOMAIN scan'.attempts
          PROVE  scan'.attempts[i][2] <= scan'.after[scan'.attempts[i][1]]
      <3>1. CASE i = Len(at) + 1
        BY <3>1, <1>1, <1>2, <1>4 DEF ScanInv, ScanShape
      <3>2. CASE i \in DOMAIN at
        <4>1. PICK d \in Confs, m \in Nat : at[i] = <<d, m>>
          BY <3>2, <1>4
        <4>2. m <= scan.after[d] /\ scan'.attempts[i] = <<d, m>>
          BY <3>2, <4>1, <1>4
        <4>3. scan.after[d] \in Nat /\ scan.after[d] <= scan'.after[d] /\ scan'.after[d] \in Nat
          BY <4>1, <1>1, <1>2 DEF ScanInv, ScanShape
        <4> QED
          BY <4>1, <4>2, <4>3
      <3> QED
        BY <3>1, <3>2, <1>4
    <2>2. ASSUME NEW i \in DOMAIN scan'.attempts, NEW j \in DOMAIN scan'.attempts,
                 scan'.attempts[i] = scan'.attempts[j]
          PROVE  i = j
      <3>1. \A k \in DOMAIN scan'.attempts : k \in DOMAIN at \/ k = Len(at) + 1
        BY <1>4
      <3>2. \A k, l \in DOMAIN at : at[k] = at[l] => k = l
        BY DEF ScanInv, AttemptsInv, NoFiringTwice, Sq!IsInjective
      <3> QED
        BY <2>2, <3>1, <3>2, <1>4, <1>5
    <2> QED
      BY <2>1, <2>2 DEF AttemptsInv, NoFiringTwice, Sq!IsInjective
  <1>7. RoundsInv'
    <2>1. /\ Sharing' = Sharing /\ phase = "turns" /\ phase' = "turns"
          /\ c \in scan.round /\ scan.round \subseteq Sharing
      BY <1>2 DEF Sharing, Sq!ToSet, Attempt, InTurn, ScanInv, RoundsInv
    <2>2. PICK k \in Nat :
             \A d \in Sharing : Turns(d) = IF d \notin scan.round THEN k + 1 ELSE k
      BY <2>1 DEF ScanInv, RoundsInv
    <2>3. \A d \in Sharing : Turns(d)' = IF c = d THEN Turns(d) + 1 ELSE Turns(d)
      BY <1>1, <1>2, TurnsOfAttempts DEF ScanInv, ScanShape
    <2>4. \A d \in Sharing' : Turns(d)' = IF d \notin scan'.round THEN k + 1 ELSE k
      BY <2>1, <2>2, <2>3, <1>2
    <2> QED
      BY <2>1, <2>4, <1>2 DEF RoundsInv
  <1> QED
    BY <1>3, <1>6, <1>7 DEF ScanInv

\* Every step of a scan keeps the invariant.
LEMMA ScanInvInductive == ScanInv /\ [Next]_vars => ScanInv'
  <1> SUFFICES ASSUME ScanInv, [Next]_vars PROVE ScanInv'
    OBVIOUS
  <1>s. ScanShape
    BY DEF ScanInv
  <1>u. ASSUME UNCHANGED <<cursor, phase, scan>> PROVE ScanInv'
    <2>1. ScanShape' /\ AttemptsInv'
      BY <1>u DEF ScanInv, ScanShape, AttemptsInv, NoFiringTwice, Sq!IsInjective
    <2>2. Sharing' = Sharing /\ \A c : Turns(c)' = Turns(c)
      BY <1>u DEF Sharing, Sq!ToSet, Turns
    <2>3. RoundsInv'
      BY <1>u, <2>2 DEF ScanInv, RoundsInv
    <2> QED
      BY <2>1, <2>3 DEF ScanInv
  <1>f. ASSUME ScanShape', Fresh' PROVE ScanInv'
    <2>1. (ScanShape /\ Fresh => ScanInv)'
      BY FreshScan, PTL
    <2> QED
      BY <1>f, <2>1
  <1>n. ASSUME phase' = "idle", scan' = NoScan, cursor' \in [Confs -> Nat] PROVE ScanInv'
    <2>1. ScanShape' /\ Fresh'
      BY <1>n DEF NoScan, ScanShape, Fresh, None
    <2> QED
      BY <2>1, <1>f
  <1>1. CASE World
    BY <1>1, <1>u DEF World, Insert, Delete, BecomeDue, LeaveWindow
  <1>2. CASE StartScan
    <2>1. ScanShape' /\ Fresh'
      <3> DEFINE todo == RotateAfter(Ascending(Bindings), lastBinding)
      <3>1. scan' = [NoScan EXCEPT !.todo = todo] /\ phase' = "listing" /\ UNCHANGED cursor
        BY <1>2 DEF StartScan
      <3> HIDE DEF todo
      <3>2. scan' = [todo |-> scan'.todo, page |-> scan'.page, round |-> scan'.round,
                     after |-> scan'.after, exhausted |-> scan'.exhausted,
                     found |-> scan'.found, calls |-> scan'.calls,
                     inspected |-> scan'.inspected, attempts |-> scan'.attempts,
                     worked |-> scan'.worked]
        BY <3>1 DEF NoScan
      <3>3. /\ scan'.after = [c \in Confs |-> 0] /\ scan'.found = [c \in Confs |-> {}]
            /\ scan'.attempts = <<>> /\ scan'.exhausted = {}
        BY <3>1 DEF NoScan, None
      <3>4. scan'.attempts \in Seq(Confs \X Nat)
        BY <3>3
      <3> QED
        BY <3>1, <3>2, <3>3, <3>4, <1>s DEF ScanShape, Fresh
    <2> QED
      BY <2>1, <1>f
  <1>3. CASE ListPage \/ SkipBinding
    <2>1. /\ ScanShape' /\ phase' = "listing" /\ phase = "listing"
          /\ scan'.attempts = scan.attempts /\ scan'.exhausted = scan.exhausted
      BY <1>3, <1>s DEF ListPage, SkipBinding, ScanShape
    <2>2. scan.attempts = <<>> /\ scan.exhausted = {}
      BY <2>1 DEF ScanInv, RoundsInv
    <2> QED
      BY <2>1, <2>2, <1>f DEF Fresh
  <1>4. CASE phase = "listing" /\ BeginTurns
    <2>1. CASE scan.page = <<>>
      BY <1>4, <2>1, <1>s, <1>n DEF BeginTurns, ScanShape
    <2>2. CASE scan.page # <<>>
      <3> DEFINE order == RotateAfter(Ascending(Sq!ToSet(scan.page)), lastConf)
      <3>1. \A c \in Confs : Entry(c) \in Nat
        BY <1>s DEF Entry, None, ScanShape
      <3>2. /\ scan' = [scan EXCEPT !.page = order, !.round = Sq!ToSet(order),
                                    !.after = [c \in Confs |-> Entry(c)]]
            /\ UNCHANGED cursor
        BY <1>4, <2>2 DEF BeginTurns
      <3> HIDE DEF order
      <3>3. /\ ScanShape' /\ scan'.page = order /\ scan'.round = Sq!ToSet(order)
            /\ scan'.attempts = scan.attempts /\ scan'.exhausted = scan.exhausted
        BY <3>1, <3>2, <1>s DEF ScanShape
      <3>4. scan.attempts = <<>> /\ scan.exhausted = {}
        BY <1>4 DEF ScanInv, RoundsInv
      <3>5. scan'.round = Sharing'
        BY <3>3, <3>4 DEF Sharing, Sq!ToSet
      <3> QED
        BY <3>3, <3>4, <3>5, <1>f DEF Fresh
    <2> QED
      BY <2>1, <2>2
  <1>5. ASSUME NEW c \in Confs, NothingDue(c) \/ SourceFails(c) \/ WrongCandidate(c)
        PROVE  ScanInv'
    <2>1. /\ ScanShape' /\ InTurn(c) /\ UNCHANGED phase
          /\ scan'.page = scan.page /\ scan'.attempts = scan.attempts /\ scan'.after = scan.after
          /\ scan'.round = scan.round \ {c} /\ scan'.exhausted = scan.exhausted \union {c}
      BY <1>5, <1>s DEF NothingDue, SourceFails, WrongCandidate, Passed, ScanShape
    <2> QED
      BY <2>1, TurnWithoutAttempt DEF ScanInv
  <1>6. ASSUME NEW c \in Confs, Attempt(c) PROVE ScanInv'
    BY <1>6, TurnWithAttempt
  <1>7. CASE NextRound
    <2>1. /\ ScanShape' /\ UNCHANGED phase /\ phase = "turns" /\ scan.round = {}
          /\ scan'.page = scan.page /\ scan'.attempts = scan.attempts /\ scan'.after = scan.after
          /\ scan'.round = Sharing /\ scan'.exhausted = scan.exhausted
      BY <1>7, <1>s DEF NextRound, ScanShape, Sharing
    <2>2. AttemptsInv'
      BY <2>1 DEF ScanInv, AttemptsInv, NoFiringTwice, Sq!IsInjective
    <2>3. Sharing' = Sharing /\ \A d : Turns(d)' = Turns(d)
      BY <2>1 DEF Sharing, Sq!ToSet, Turns
    <2>4. PICK k \in Nat : \A d \in Sharing : Turns(d) = k + 1
      BY <2>1 DEF ScanInv, RoundsInv
    <2>5. k + 1 \in Nat /\ \A d \in Sharing' : Turns(d)' = k + 1 /\ d \in scan'.round
      BY <2>1, <2>3, <2>4
    <2>6. RoundsInv'
      BY <2>1, <2>3, <2>5 DEF RoundsInv
    <2> QED
      BY <2>1, <2>2, <2>6 DEF ScanInv
  <1>8. CASE EndScan \/ OutOfTime \/ Restart
    BY <1>8, <1>s, <1>n DEF EndScan, OutOfTime, Restart, CloseScan, ScanShape, None
  <1>9. CASE UNCHANGED vars
    BY <1>9, <1>u DEF vars
  <1> QED
    BY <1>1, <1>2, <1>3, <1>4, <1>5, <1>6, <1>7, <1>8, <1>9
       DEF Next, Scheduler, Failure, Turn, StartTurns, StopListing

\* The invariant of every scan.
LEMMA ScanInvariant == Spec => []ScanInv
  <1>1. Init => ScanShape /\ Fresh
    BY DEF Init, NoScan, ScanShape, Fresh, None
  <1> QED
    BY <1>1, FreshScan, ScanInvInductive, PTL DEF Spec

\* A scan claims no firing a second time, for all rows, caps and cursors.
THEOREM FiringsAreAttemptedOnce == Spec => []NoFiringTwice
  <1>1. ScanInv => NoFiringTwice
    BY DEF ScanInv, AttemptsInv
  <1> QED
    BY <1>1, ScanInvariant, PTL

\* No configuration gets two turns ahead of another one that still takes turns.
THEOREM TurnsAreShared == Spec => []RoundRobin
  <1>1. ScanInv => RoundRobin
    BY DEF ScanInv, RoundsInv, RoundRobin, Sharing
  <1> QED
    BY <1>1, ScanInvariant, PTL

-----------------------------------------------------------------------------
(* The time budget.                                                         *)

\* What is known of the clock at each stage.  Between the check and the claim
\* one timeout of the reserve may be gone, between the grant and its reply
\* another: the deadlines of the claim still end before scan and lease do.
BudgetInv ==
    /\ BudgetTypeOK
    /\ now <= ScanDeadline
    /\ doing = "due" => now + Work + Reserve < ScanDeadline
    /\ doing = "work" => /\ now <= workDeadline
                         /\ workDeadline < totalDeadline
    /\ doing = "release" => now < totalDeadline
    /\ doing \in {"work", "release"} => /\ now <= totalDeadline
                                        /\ totalDeadline <= ScanDeadline
                                        /\ totalDeadline < leaseEnds

\* A call returns neither before it starts nor after its deadline or timeout.
LEMMA CallReturns ==
  ASSUME NEW d \in Nat, NEW m \in Nat, now \in Nat, now <= d, NEW t \in Returns(d, m)
  PROVE  t \in Nat /\ now <= t /\ t <= d /\ t <= now + m
  BY DEF Returns, Least

\* The invariant holds at the start of a scan.
LEMMA InitBudgetInv == BudgetInit => BudgetInv
  BY LimitsOk DEF BudgetInit, BudgetInv, BudgetTypeOK

\* Every call keeps the invariant.
LEMMA NextBudgetInv == BudgetInv /\ [BudgetNext]_budgetVars => BudgetInv'
<1> SUFFICES ASSUME BudgetInv, [BudgetNext]_budgetVars PROVE BudgetInv'
  OBVIOUS
<1> USE LimitsOk DEF BudgetInv, BudgetTypeOK
<1>1. CASE Wait
  <2>1. now' \in Nat /\ now' <= ScanDeadline
    BY <1>1, CallReturns DEF Wait, MayCall
  <2>2. QED BY <1>1, <2>1 DEF Wait
<1>2. CASE ListDueCandidates
  <2>1. now' \in Nat /\ now' <= ScanDeadline /\ now' <= now + Timeout
    BY <1>2, CallReturns DEF ListDueCandidates
  <2>2. QED BY <1>2, <2>1 DEF ListDueCandidates, PreClaimBudgetEnded
<1>3. CASE ClaimDelivery
  <2>1. now' \in Nat /\ now <= now' /\ now' <= ScanDeadline /\ now' <= now + Timeout
    BY <1>3, CallReturns DEF ClaimDelivery, MayCall
  <2>2. PICK granted \in now .. now' : leaseEnds' = granted + Lease
    BY <1>3 DEF ClaimDelivery
  <2>3. workDeadline' = now' + Work /\ totalDeadline' = Least(now' + Work + Reserve, ScanDeadline)
    BY <1>3 DEF ClaimDelivery, WorkDeadline, TotalDeadline
  <2>4. /\ totalDeadline' \in Nat /\ totalDeadline' <= ScanDeadline
        /\ totalDeadline' <= now' + Work + Reserve
    BY <2>1, <2>3 DEF Least
  <2>5. now' + Work < totalDeadline'
    BY <1>3, <2>1, <2>3 DEF ClaimDelivery, Least
  <2>6. totalDeadline' < leaseEnds' /\ leaseEnds' \in Nat
    BY <2>1, <2>2, <2>4
  <2>7. doing' = "work"
    BY <1>3 DEF ClaimDelivery
  <2>8. QED BY <2>1, <2>3, <2>4, <2>5, <2>6, <2>7
<1>4. CASE NoClaim
  <2>1. now' \in Nat /\ now' <= ScanDeadline
    BY <1>4, CallReturns DEF NoClaim
  <2>2. QED BY <1>4, <2>1 DEF NoClaim
<1>5. CASE WorkOn
  <2>1. now' \in Nat /\ now' <= workDeadline
    BY <1>5, CallReturns DEF WorkOn, MayCall
  <2>2. QED BY <1>5, <2>1 DEF WorkOn
<1>6. CASE Settle
  BY <1>6 DEF Settle
<1>7. CASE Fail
  BY <1>7 DEF Fail
<1>8. CASE Release
  <2>1. now' \in Nat /\ now' <= totalDeadline
    BY <1>8, CallReturns DEF Release
  <2>2. QED BY <1>8, <2>1 DEF Release
<1>9. CASE UNCHANGED budgetVars
  BY <1>9 DEF budgetVars
<1>10. QED
  BY <1>1, <1>2, <1>3, <1>4, <1>5, <1>6, <1>7, <1>8, <1>9 DEF BudgetNext

\* The invariant of every scan.
LEMMA BudgetInvariant == BudgetSpec => []BudgetInv
  BY InitBudgetInv, NextBudgetInv, PTL DEF BudgetSpec

\* Work on a claim, release included, is over before its lease ends: two
\* timeouts, the work and the reserve fit into the lease.
THEOREM LeaseOutlivesWork == BudgetSpec => []WorkEndsWithinLease
<1>1. BudgetInv => WorkEndsWithinLease
  BY DEF BudgetInv, BudgetTypeOK, WorkEndsWithinLease
<1>2. QED BY <1>1, BudgetInvariant, PTL

\* The release of a failed delivery is never skipped for lack of time: of the reserve, the
\* read and the claim use up a timeout each, and one of these the check has counted.
THEOREM ReleaseNeverSkipped == BudgetSpec => []ReleaseIsCalled
<1>1. BudgetInv => ReleaseIsCalled
  BY DEF BudgetInv, BudgetTypeOK, ReleaseIsCalled, MayCall
<1>2. QED BY <1>1, BudgetInvariant, PTL

\* A scan is over at its deadline, if a timeout is no longer than the reserve.
THEOREM ScansEnd == BudgetSpec => []ScanEndsInTime
<1>1. BudgetInv => ScanEndsInTime
  BY DEF BudgetInv, ScanEndsInTime
<1>2. QED BY <1>1, BudgetInvariant, PTL
=============================================================================
