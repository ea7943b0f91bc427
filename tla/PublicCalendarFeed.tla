--------------------------- MODULE PublicCalendarFeed ---------------------------
(***************************************************************************)
(* Public feeds of one calendar.  PublicCalendarFeedService publishes it   *)
(* by a read-only share, a token kept in Radicale, hands out signed links  *)
(* to the token, and withdraws it by deleting its shares.  Requests queue  *)
(* behind a lock of the process, one step per await of the one that holds  *)
(* it.  A create whose answer does not come in time may still take effect  *)
(* later; a create or delete may take effect and lose its answer; the      *)
(* process may restart; and the owner edits shares behind its back.        *)
(***************************************************************************)
EXTENDS Integers, Sequences, FiniteSets

CONSTANTS
    Requests,    \* requests that may be under way at the same time
    Tokens,      \* numbered in the order of localeCompare
    Foreign,     \* tokens of shares that are none of the feature's
    None

ASSUME FeedConstantsOk ==
    /\ Tokens \subseteq Nat /\ IsFiniteSet(Tokens) /\ Foreign \subseteq Tokens
    /\ None \notin Tokens /\ None \notin Requests

VARIABLES
    share,       \* Radicale: "usable" as isPublishedShare has it, or "altered"
    drawn,       \* tokens Radicale has ever drawn
    late,        \* creates nobody waits for any more
    queue,       \* requests behind the lock, first come first served
    holder,      \* the request that holds it
    kind,        \* of a request
    step,        \* the await a request is at
    todo,        \* shares a request has still to delete
    token,       \* the share it keeps or has made
    handed,      \* tokens whose link was ever in an answer
    withdrawn,   \* those handed out before an answered unpublish
    strays       \* left behind by a late create, a restart or a failed cleanup

store == <<share, drawn, late>>
lock == <<queue, holder>>
history == <<handed, withdrawn, strays>>
vars == <<store, lock, kind, step, todo, token, history>>

Steps == {"idle", "waiting", "resolve", "list", "sweep", "validateKept", "clear", "create",
          "check", "validateNew", "recheck", "undo", "reconcile", "reclaim", "remove",
          "answered"}

\* No request, or one that failed, is idle.
Done == {"idle", "answered"}

TypeOK ==
    /\ share \in [Tokens -> {"none", "foreign", "usable", "altered"}]
    /\ drawn \subseteq Tokens /\ late \in Nat
    /\ queue \in Seq(Requests) /\ holder \in Requests \union {None}
    /\ kind \in [Requests -> {"get", "publish", "unpublish"}]
    /\ step \in [Requests -> Steps]
    /\ todo \in [Requests -> SUBSET Tokens]
    /\ token \in [Requests -> Tokens \union {None}]
    /\ handed \subseteq Tokens /\ withdrawn \subseteq Tokens /\ strays \subseteq Tokens

Init ==
    /\ share = [t \in Tokens |-> IF t \in Foreign THEN "foreign" ELSE "none"]
    /\ drawn = Foreign /\ late = 0
    /\ queue = <<>> /\ holder = None
    /\ kind = [r \in Requests |-> "get"]
    /\ step = [r \in Requests |-> "idle"]
    /\ todo = [r \in Requests |-> {}]
    /\ token = [r \in Requests |-> None]
    /\ handed = {} /\ withdrawn = {} /\ strays = {}

\* markedShares.
Marked == {t \in Tokens : share[t] \in {"usable", "altered"}}

Usable == {t \in Marked : share[t] = "usable"}

First(S) == CHOOSE t \in S : \A u \in S : t <= u

\* selectPublishedShare.
Select == IF Usable = {} THEN None ELSE First(Usable)

\* The native feed of a token answers; whether with VEVENTs only is left open.
Readable(t) == share[t] = "usable"

At(r, s) == holder = r /\ step[r] = s
Goto(r, s) == step' = [step EXCEPT ![r] = s]

\* Mutant: the lock is kept by a request that fails.
EndLocked(r, outcome) ==
    /\ Goto(r, outcome)
    /\ holder' = IF outcome = "idle" THEN holder ELSE None
    /\ kind' = [kind EXCEPT ![r] = "get"]
    /\ todo' = [todo EXCEPT ![r] = {}]
    /\ token' = [token EXCEPT ![r] = None]

\* The request ends, with its local variables, and the finally block of withTargetLock
\* lets the next one go on.
End(r, outcome) ==
    /\ Goto(r, outcome)
    /\ holder' = None
    /\ kind' = [kind EXCEPT ![r] = "get"]
    /\ todo' = [todo EXCEPT ![r] = {}]
    /\ token' = [token EXCEPT ![r] = None]

-----------------------------------------------------------------------------
(* Requests and their lock.                                                 *)

Ask(r) ==
    /\ step[r] \in Done
    /\ \E k \in {"get", "publish", "unpublish"} : kind' = [kind EXCEPT ![r] = k]
    /\ queue' = Append(queue, r)
    /\ Goto(r, "waiting")
    /\ UNCHANGED <<store, holder, todo, token, history>>

Enter(r) ==
    /\ holder = None /\ queue # <<>> /\ Head(queue) = r
    /\ holder' = r
    /\ queue' = Tail(queue)
    /\ Goto(r, "resolve")
    /\ UNCHANGED <<store, kind, todo, token, history>>

Fail(r) ==
    /\ End(r, "idle")
    /\ UNCHANGED <<store, queue, handed, withdrawn>>

\* A call that fails, or has no answer in time, ends the request unless it is cleaned up.
CallFails(r) ==
    /\ holder = r
    /\ step[r] \in {"resolve", "list", "sweep", "validateKept", "clear", "remove"}
    /\ Fail(r)
    /\ UNCHANGED strays

-----------------------------------------------------------------------------
(* The operations, one await at a time.                                     *)

\* The caller may manage the calendar and its collection is known: that can change at
\* any time, so the other outcome is left to CallFails.
ResolveTarget(r) ==
    /\ At(r, "resolve")
    /\ Goto(r, "list")
    /\ UNCHANGED <<store, lock, kind, todo, token, history>>

Answer(r, links) ==
    /\ End(r, "answered")
    /\ handed' = handed \union links
    /\ UNCHANGED <<store, queue, withdrawn, strays>>

GetPublication(r) ==
    /\ At(r, "list") /\ kind[r] = "get"
    /\ Answer(r, {Select} \ {None})

BeginDeleting(r, s, S) ==
    /\ Goto(r, s)
    /\ todo' = [todo EXCEPT ![r] = S]
    /\ UNCHANGED <<store, lock, kind, history>>

\* Mutant: the other shares are left.
PublishBeside(r) ==
    /\ At(r, "list") /\ kind[r] = "publish" /\ Select # None
    /\ token' = [token EXCEPT ![r] = Select]
    /\ BeginDeleting(r, "sweep", {})

PublishAgain(r) ==
    /\ At(r, "list") /\ kind[r] = "publish" /\ Select # None
    /\ token' = [token EXCEPT ![r] = Select]
    /\ BeginDeleting(r, "sweep", Marked \ {Select})

\* Mutant: a new share is made whether there is one or not.
PublishAfresh(r) ==
    /\ At(r, "list") /\ kind[r] = "publish"
    /\ BeginDeleting(r, "clear", Marked)
    /\ UNCHANGED token

PublishNew(r) ==
    /\ At(r, "list") /\ kind[r] = "publish" /\ Select = None
    /\ BeginDeleting(r, "clear", Marked)
    /\ UNCHANGED token

\* Mutant: only the share the link is made of is deleted.
UnpublishSelected(r) ==
    /\ At(r, "list") /\ kind[r] = "unpublish"
    /\ BeginDeleting(r, "remove", {Select} \ {None})
    /\ UNCHANGED token

Unpublish(r) ==
    /\ At(r, "list") /\ kind[r] = "unpublish"
    /\ BeginDeleting(r, "remove", Marked)
    /\ UNCHANGED token

\* deleteMarkedShares: a share that is gone is an error of Radicale.
DeleteMarked(r) ==
    /\ holder = r /\ step[r] \in {"sweep", "clear", "remove", "reclaim"}
    /\ todo[r] # {}
    /\ LET t == First(todo[r]) IN
        /\ share[t] # "none"
        /\ share' = [share EXCEPT ![t] = "none"]
        /\ todo' = [todo EXCEPT ![r] = @ \ {t}]
    /\ UNCHANGED <<drawn, late, lock, kind, step, token, history>>

\* The answer to a deletion that took effect is lost.
DeleteUnanswered(r) ==
    /\ holder = r /\ step[r] \in {"sweep", "clear", "remove"}
    /\ todo[r] # {}
    /\ share' = [share EXCEPT ![First(todo[r])] = "none"]
    /\ End(r, "idle")
    /\ UNCHANGED <<drawn, late, queue, history>>

Swept(r) ==
    /\ At(r, "sweep") /\ todo[r] = {}
    /\ Goto(r, "validateKept")
    /\ UNCHANGED <<store, lock, kind, todo, token, history>>

\* readAndValidateNativeFeed and the link to the share that was there.
KeepPublished(r) ==
    /\ At(r, "validateKept")
    /\ Readable(token[r])
    /\ Answer(r, {token[r]})

Cleared(r) ==
    /\ At(r, "clear") /\ todo[r] = {}
    /\ Goto(r, "create")
    /\ UNCHANGED <<store, lock, kind, todo, token, history>>

Make(t) ==
    /\ t \in Tokens \ drawn
    /\ share' = [share EXCEPT ![t] = "usable"]
    /\ drawn' = drawn \union {t}

CreateShare(r, t) ==
    /\ At(r, "create")
    /\ Make(t)
    /\ token' = [token EXCEPT ![r] = t]
    /\ Goto(r, "check")
    /\ UNCHANGED <<late, lock, kind, todo, history>>

\* Refused, or without an answer: made all the same, or still to be made.
CreateFails(r) ==
    /\ At(r, "create")
    /\ \/ UNCHANGED store
       \/ \E t \in Tokens : Make(t) /\ UNCHANGED late
       \/ late < Cardinality(Tokens \ drawn) /\ late' = late + 1 /\ UNCHANGED <<share, drawn>>
    /\ Goto(r, "reconcile")
    /\ UNCHANGED <<lock, kind, todo, token, history>>

CheckCreated(r) ==
    /\ At(r, "check")
    /\ share[token[r]] = "usable"
    /\ Goto(r, "validateNew")
    /\ UNCHANGED <<store, lock, kind, todo, token, history>>

ValidateNew(r) ==
    /\ At(r, "validateNew")
    /\ Readable(token[r])
    /\ Goto(r, "recheck")
    /\ UNCHANGED <<store, lock, kind, todo, token, history>>

\* The target is resolved once more and is the same.
Published(r) ==
    /\ At(r, "recheck")
    /\ Answer(r, {token[r]})

\* Mutant: a failure after the create ends the request like any other.
GiveUp(r) ==
    /\ holder = r /\ step[r] \in {"check", "validateNew", "recheck"}
    /\ End(r, "idle")
    /\ UNCHANGED <<store, queue, history>>

\* Whatever fails after the create: the catch block.
Catch(r) ==
    /\ holder = r /\ step[r] \in {"check", "validateNew", "recheck"}
    /\ Goto(r, "undo")
    /\ UNCHANGED <<store, lock, kind, todo, token, history>>

Undo(r) ==
    /\ At(r, "undo")
    /\ share' = [share EXCEPT ![token[r]] = "none"]
    /\ End(r, "idle")
    /\ UNCHANGED <<drawn, late, queue, history>>

UndoFails(r) ==
    /\ At(r, "undo")
    /\ strays' = strays \union {token[r]}
    /\ Fail(r)

Reconcile(r) ==
    /\ At(r, "reconcile")
    /\ BeginDeleting(r, "reclaim", Marked)
    /\ UNCHANGED token

ReconcileEnds(r) ==
    /\ At(r, "reclaim") /\ todo[r] = {}
    /\ Fail(r)
    /\ UNCHANGED strays

\* The listing or a deletion fails; the request fails with its first error.
ReconcileFails(r) ==
    /\ holder = r /\ step[r] \in {"reconcile", "reclaim"}
    /\ strays' = strays \union Marked
    /\ Fail(r)

Unpublished(r) ==
    /\ At(r, "remove") /\ todo[r] = {}
    /\ End(r, "answered")
    /\ withdrawn' = withdrawn \union handed
    /\ UNCHANGED <<store, queue, handed, strays>>

-----------------------------------------------------------------------------
(* Radicale, the owner and the process.                                     *)

\* A create nobody waits for any more takes effect, or never does.
LateCreate ==
    /\ late > 0 /\ late' = late - 1
    /\ \/ UNCHANGED <<share, drawn, strays>>
       \/ \E t \in Tokens : Make(t) /\ strays' = strays \union {t}
    /\ UNCHANGED <<lock, kind, step, todo, token, handed, withdrawn>>

\* The owner disables, changes or revokes a share in Radicale; or a deletion whose caller
\* gave up takes effect at last.
OwnerEdits(t) ==
    /\ t \in Marked
    /\ \E s \in {"none", "altered"} : share' = [share EXCEPT ![t] = s]
    /\ UNCHANGED <<drawn, late, lock, kind, step, todo, token, history>>

Restart ==
    /\ holder # None \/ queue # <<>>
    /\ step' = [r \in Requests |-> IF step[r] \in Done THEN step[r] ELSE "idle"]
    /\ queue' = <<>> /\ holder' = None
    /\ kind' = [r \in Requests |-> "get"]
    /\ todo' = [r \in Requests |-> {}]
    /\ token' = [r \in Requests |-> None]
    /\ strays' = strays \union Marked
    /\ UNCHANGED <<store, handed, withdrawn>>

Operate(r) ==
    \/ Enter(r) \/ CallFails(r) \/ ResolveTarget(r)
    \/ GetPublication(r) \/ PublishAgain(r) \/ PublishNew(r) \/ Unpublish(r)
    \/ DeleteMarked(r) \/ DeleteUnanswered(r) \/ Swept(r) \/ KeepPublished(r)
    \/ Cleared(r) \/ (\E t \in Tokens : CreateShare(r, t)) \/ CreateFails(r)
    \/ CheckCreated(r) \/ ValidateNew(r) \/ Published(r) \/ Catch(r)
    \/ Undo(r) \/ UndoFails(r) \/ Reconcile(r) \/ ReconcileEnds(r) \/ ReconcileFails(r)
    \/ Unpublished(r)

Next ==
    \/ \E r \in Requests : Ask(r) \/ Operate(r)
    \/ LateCreate
    \/ \E t \in Tokens : OwnerEdits(t)
    \/ Restart

Spec == Init /\ [][Next]_vars

\* Every call has an answer or a timeout, so the request that holds the lock goes on.
FairSpec == Spec /\ \A r \in Requests : WF_vars(Operate(r))

-----------------------------------------------------------------------------
(* Properties.                                                              *)

\* Once an unpublish request is answered (unpublish), no link handed out before it is
\* ever served again, whatever was under way; and the owner's other shares are never
\* touched (markedShares).
WithdrawnForGood ==
    /\ \A t \in withdrawn : share[t] = "none"
    /\ \A t \in Foreign : share[t] = "foreign"

\* With no request under way, every share of the feature has had its link in an answer,
\* or is the leftover of a late create, a restart or a cleanup that failed: no other
\* path of publish makes a calendar public without telling anybody.
NoSilentPublication ==
    holder = None => Marked \subseteq handed \union strays

\* A link that was handed out goes on working: while nothing was ever left behind, only
\* an unpublish request or the owner takes a usable share away, never another publish
\* (publish keeps the share it finds).
LinksOutlivePublish ==
    [][\A t \in handed, r \in Requests :
        strays = {} /\ share[t] = "usable" /\ share'[t] = "none" /\ holder = r
            => kind[r] = "unpublish" \/ OwnerEdits(t)]_vars

\* When publish answers, the calendar has no other share of the feature than the one of
\* the link, but for what a late create left behind or the owner altered meanwhile: the
\* reconciliation of ADR045 to one share for each target.
OneShareWhenPublished ==
    [][\A r \in Requests :
        kind[r] = "publish" /\ step[r] # "answered" /\ step'[r] = "answered"
            => \A t \in Marked' : t = token[r] \/ t \in strays']_vars

\* Every request is answered or fails: the lock is always released (withTargetLock).
EveryRequestEnds ==
    \A r \in Requests : step[r] = "waiting" ~> step[r] \in Done
=============================================================================
