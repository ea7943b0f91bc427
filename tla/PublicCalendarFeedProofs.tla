------------------------ MODULE PublicCalendarFeedProofs ------------------------
(***************************************************************************)
(* Proofs about PublicCalendarFeed, for any number of requests and tokens. *)
(* The inductive invariant accounts for every share of the feature: at     *)
(* each await of the request that holds the lock, a share is one whose     *)
(* link was handed out, one left behind, the request's own, or one that it *)
(* has still to delete.                                                    *)
(***************************************************************************)
EXTENDS PublicCalendarFeed, WellFoundedInduction, TLAPS

\* Only the request that holds the lock is beyond it.
Locking ==
    \A r \in Requests : holder = r <=> step[r] \notin Done \union {"waiting"}

\* Shares are made of new tokens and none is the feature's that was not.
Drawn ==
    /\ Foreign \subseteq drawn
    /\ \A t \in Tokens : /\ share[t] = "foreign" <=> t \in Foreign
                         /\ share[t] # "none" => t \in drawn
    /\ handed \subseteq drawn \ Foreign
    /\ withdrawn \subseteq handed
    /\ \A t \in withdrawn : share[t] = "none"

\* While nothing was left behind there is one share at most.
Single == strays = {} => \A t, u \in Marked : t = u

\* Nothing is published of which nobody knows.
Known == Marked \subseteq handed \union strays

Keeping == {"sweep", "validateKept"}
Making == {"check", "validateNew", "recheck", "undo"}
Repairing == {"reconcile", "reclaim"}

\* What the request that holds the lock deletes or keeps is the feature's.
Own(r) ==
    /\ todo[r] \subseteq Tokens \ Foreign
    /\ step[r] \in Keeping \union Making => token[r] \in drawn \ Foreign
    /\ step[r] \in Making => token[r] \notin handed

\* What it has still to do about the shares there are.
Accounts(r) ==
    /\ step[r] \notin Making \union Repairing => Known
    /\ step[r] = "sweep" => Marked \subseteq {token[r]} \union todo[r] \union strays
    /\ step[r] \in Making \union {"validateKept"} => Marked \subseteq {token[r]} \union strays
    /\ step[r] = "clear" => Marked \subseteq todo[r] \union strays
    /\ step[r] = "create" => Marked \subseteq strays
    /\ step[r] = "reclaim" => Marked \subseteq handed \union todo[r] \union strays
    /\ step[r] = "remove" =>
          /\ kind[r] = "unpublish"
          /\ \A t \in handed : share[t] # "none" => t \in todo[r]

\* What it deletes works for nobody, while nothing was left behind.
Spares(r) ==
    strays = {} =>
        /\ step[r] = "sweep" => todo[r] = {}
        /\ step[r] = "clear" => Usable = {}
        /\ step[r] \in Repairing => Marked \intersect handed = {}

Holding(r) == Own(r) /\ Accounts(r) /\ Spares(r)

\* Who does not hold it has nothing to delete.
Resting == \A r \in Requests : holder # r => todo[r] = {}

FlowInv ==
    /\ Locking /\ Resting /\ Drawn /\ Single
    /\ holder = None => Known
    /\ \A r \in Requests : holder = r => Holding(r)

FeedInv == TypeOK /\ FlowInv

-----------------------------------------------------------------------------
(* The shares.                                                              *)

\* Tokens are in an order, so a set of them that is not empty has a first one.
LEMMA FirstIn ==
    ASSUME NEW S, S \subseteq Tokens, S # {}
    PROVE  First(S) \in S
<1> DEFINE R == OpToRel(<, Nat)
<1>0. S \subseteq Nat
  BY FeedConstantsOk
<1>1. PICK t \in S : \A u \in S : ~ (<<u, t>> \in R)
  <2>1. IsWellFoundedOn(R, Nat)
    BY NatLessThanWellFounded
  <2> HIDE DEF R
  <2> QED BY <1>0, <2>1, WFMin
<1>2. \A u \in S : <<u, t>> \in R <=> u < t
  BY <1>0 DEF OpToRel
<1> HIDE DEF R
<1>3. \A u \in S : t <= u
  <2>1. \A u \in S : ~ (u < t)
    BY <1>1, <1>2, Zenon
  <2> QED BY <1>0, <2>1
<1> QED BY <1>3 DEF First

\* The link is made of a usable share, if there is one.
LEMMA SelectIn ==
    Select = None \/ Select \in Usable
<1>1. CASE Usable = {}
  BY <1>1 DEF Select
<1>2. CASE Usable # {}
  <2>1. Usable \subseteq Tokens
    BY DEF Usable, Marked
  <2>2. First(Usable) \in Usable
    BY <1>2, <2>1, FirstIn
  <2> QED BY <1>2, <2>2 DEF Select
<1> QED BY <1>1, <1>2

LEMMA SelectNone == Select = None => Usable = {}
<1>1. ASSUME Usable # {} PROVE Select # None
  <2>1. Usable \subseteq Tokens
    BY DEF Usable, Marked
  <2>2. First(Usable) \in Tokens
    BY <1>1, <2>1, FirstIn
  <2> QED BY <1>1, <2>2, FeedConstantsOk DEF Select
<1> QED BY <1>1

LEMMA MarkedDrawn == TypeOK /\ Drawn => Marked \subseteq drawn \ Foreign
BY DEF TypeOK, Drawn, Marked

\* The shares and what is known of them are left alone.
LEMMA SharesStay ==
    ASSUME Drawn, Single, UNCHANGED <<store, history>>
    PROVE  /\ Drawn' /\ Single' /\ Marked' = Marked /\ Usable' = Usable
           /\ Known' = Known
BY DEF Drawn, Single, Marked, Usable, Known, store, history

\* A share of the feature is deleted or changed.
LEMMA ShareGoes ==
    ASSUME TypeOK, Drawn, NEW t \in Tokens, t \notin Foreign,
           NEW s \in {"none", "altered"},
           s = "altered" => t \in Marked,
           share' = [share EXCEPT ![t] = s],
           UNCHANGED <<drawn, handed, withdrawn>>
    PROVE  /\ Drawn' /\ Marked' \subseteq Marked /\ Usable' \subseteq Usable
           /\ s = "none" => t \notin Marked'
<1>1. \A u \in Tokens : share'[u] = IF u = t THEN s ELSE share[u]
  BY DEF TypeOK
<1>2. Marked' \subseteq Marked /\ (s = "none" => t \notin Marked')
  BY <1>1 DEF Marked
<1>3. Usable' \subseteq Usable
  BY <1>1, <1>2 DEF Usable, Marked
<1>4. \A u \in Tokens : /\ share'[u] = "foreign" <=> u \in Foreign
                        /\ share'[u] # "none" => u \in drawn
  BY <1>1 DEF Drawn, Marked
<1>5. \A u \in withdrawn : u \in Tokens /\ share'[u] = "none"
  BY <1>1 DEF Drawn, Marked, TypeOK
<1> QED BY <1>2, <1>3, <1>4, <1>5 DEF Drawn

\* A share is made of a token that was never drawn before.
LEMMA ShareComes ==
    ASSUME TypeOK, Drawn, NEW t, Make(t), UNCHANGED <<handed, withdrawn>>
    PROVE  /\ Drawn' /\ Marked' = Marked \union {t}
           /\ t \in Tokens /\ t \in drawn' \ Foreign /\ t \notin handed
<1>1. \A u \in Tokens : share'[u] = IF u = t THEN "usable" ELSE share[u]
  BY DEF TypeOK, Make
<1>2. t \in Tokens /\ t \notin drawn /\ drawn' = drawn \union {t}
  BY DEF Make
<1>3. Marked' = Marked \union {t}
  BY <1>1, <1>2 DEF Marked
<1>4. t \notin Foreign /\ t \notin handed /\ t \notin withdrawn
  BY <1>2 DEF Drawn
<1>5. \A u \in Tokens : /\ share'[u] = "foreign" <=> u \in Foreign
                        /\ share'[u] # "none" => u \in drawn'
  BY <1>1, <1>2, <1>4 DEF Drawn
<1>6. \A u \in withdrawn : share'[u] = "none"
  BY <1>1, <1>4 DEF Drawn, TypeOK
<1> QED BY <1>2, <1>3, <1>4, <1>5, <1>6 DEF Drawn

-----------------------------------------------------------------------------
(* The lock.                                                                *)

LEMMA HolderIs ==
    ASSUME FeedInv, NEW r \in Requests, holder = r
    PROVE  Own(r) /\ Accounts(r) /\ Spares(r)
BY DEF FeedInv, FlowInv, Holding

\* The request that holds the lock goes on to another await.
LEMMA GoesOn ==
    ASSUME TypeOK, Locking, Resting, NEW r \in Requests, holder = r, holder' = r,
           \A q \in Requests : q # r => todo'[q] = todo[q],
           NEW s \in Steps, s \notin Done, s # "waiting", Goto(r, s),
           Drawn', Single', Own(r)', Accounts(r)', Spares(r)'
    PROVE  FlowInv'
<1>1. \A q \in Requests : step'[q] = IF q = r THEN s ELSE step[q]
  BY DEF TypeOK, Goto
<1>2. Locking'
  BY <1>1 DEF Locking
<1>3. holder' # None
  BY FeedConstantsOk
<1>4. Resting'
  BY DEF Resting
<1> QED BY <1>2, <1>3, <1>4 DEF FlowInv, Holding

\* It ends and releases the lock.
LEMMA Releases ==
    ASSUME TypeOK, Locking, Resting, NEW r \in Requests, holder = r,
           NEW outcome \in Done, End(r, outcome), Drawn', Single', Known'
    PROVE  FlowInv'
<1>1. \A q \in Requests : step'[q] = IF q = r THEN outcome ELSE step[q]
  BY DEF TypeOK, End, Goto
<1>2. \A q \in Requests : holder' # q
  BY FeedConstantsOk DEF End
<1>3. Locking'
  BY <1>1, <1>2 DEF Locking
<1>4. Resting'
  BY DEF Resting, End, TypeOK
<1> QED BY <1>2, <1>3, <1>4 DEF FlowInv

\* It ends without an answer, and nothing of the feature's has come.
LEMMA FailsQuietly ==
    ASSUME FeedInv, NEW r \in Requests, holder = r,
           NEW outcome \in Done, End(r, outcome), Drawn', Marked' \subseteq Marked,
           strays \subseteq strays', handed \subseteq handed',
           Marked' \subseteq handed' \union strays'
    PROVE  FlowInv'
<1>1. Single'
  BY DEF FeedInv, FlowInv, Single
<1>2. Known'
  BY DEF Known
<1> QED BY <1>1, <1>2, Releases DEF FeedInv, FlowInv

-----------------------------------------------------------------------------
(* One step of the request that holds the lock.                             *)

\* Moves that leave the shares alone.
LEMMA MovesKept ==
    ASSUME FeedInv, NEW r \in Requests,
           \/ ResolveTarget(r) \/ Swept(r) \/ Cleared(r) \/ CheckCreated(r)
           \/ ValidateNew(r) \/ Catch(r)
    PROVE  FlowInv'
<1>0. holder = r /\ holder' = r
  BY DEF ResolveTarget, Swept, Cleared, CheckCreated, ValidateNew, Catch, At, lock
<1>1. Own(r) /\ Accounts(r) /\ Spares(r) /\ TypeOK /\ Locking /\ Resting /\ Drawn /\ Single
  BY <1>0, HolderIs DEF FeedInv, FlowInv
<1>2. UNCHANGED <<store, history>> /\ UNCHANGED <<todo, token, kind>>
  BY DEF ResolveTarget, Swept, Cleared, CheckCreated, ValidateNew, Catch
<1>3. /\ Drawn' /\ Single' /\ Marked' = Marked /\ Usable' = Usable /\ Known' = Known
  BY <1>1, <1>2, SharesStay
<1>4. drawn' = drawn /\ handed' = handed /\ strays' = strays
  BY <1>2 DEF store, history
<1>5. CASE ResolveTarget(r)
  <2>1. step'[r] = "list" /\ Goto(r, "list") /\ step[r] = "resolve"
    BY <1>1, <1>5 DEF ResolveTarget, Goto, TypeOK, At
  <2>2. Own(r)' /\ Accounts(r)' /\ Spares(r)'
    BY <1>1, <1>2, <1>3, <1>4, <2>1
       DEF Own, Accounts, Spares, Keeping, Making, Repairing
  <2> QED BY <1>0, <1>1, <1>2, <1>3, <2>1, <2>2, GoesOn DEF Steps, Done
<1>6. CASE Swept(r)
  <2>1. step'[r] = "validateKept" /\ Goto(r, "validateKept") /\ step[r] = "sweep"
        /\ todo[r] = {}
    BY <1>1, <1>6 DEF Swept, Goto, TypeOK, At
  <2>2. Own(r)' /\ Accounts(r)' /\ Spares(r)'
    BY <1>1, <1>2, <1>3, <1>4, <2>1
       DEF Own, Accounts, Spares, Keeping, Making, Repairing
  <2> QED BY <1>0, <1>1, <1>2, <1>3, <2>1, <2>2, GoesOn DEF Steps, Done
<1>7. CASE Cleared(r)
  <2>1. step'[r] = "create" /\ Goto(r, "create") /\ step[r] = "clear" /\ todo[r] = {}
    BY <1>1, <1>7 DEF Cleared, Goto, TypeOK, At
  <2>2. Own(r)' /\ Accounts(r)' /\ Spares(r)'
    BY <1>1, <1>2, <1>3, <1>4, <2>1
       DEF Own, Accounts, Spares, Keeping, Making, Repairing
  <2> QED BY <1>0, <1>1, <1>2, <1>3, <2>1, <2>2, GoesOn DEF Steps, Done
<1>8. CASE CheckCreated(r) \/ ValidateNew(r) \/ Catch(r)
  <2> PICK s \in Making : Goto(r, s)
    BY <1>8 DEF CheckCreated, ValidateNew, Catch, Making
  <2>1. step'[r] = s /\ step[r] \in Making
    BY <1>1, <1>8 DEF CheckCreated, ValidateNew, Catch, Goto, TypeOK, At, Making
  <2>2. Own(r)' /\ Accounts(r)' /\ Spares(r)'
    BY <1>1, <1>2, <1>3, <1>4, <2>1
       DEF Own, Accounts, Spares, Keeping, Making, Repairing
  <2> QED BY <1>0, <1>1, <1>2, <1>3, <2>1, <2>2, GoesOn DEF Steps, Done, Making
<1> QED BY <1>5, <1>6, <1>7, <1>8

\* A request that has read the list of shares decides what to delete.
LEMMA DecidesKept ==
    ASSUME FeedInv, NEW r \in Requests,
           \/ PublishAgain(r) \/ PublishNew(r) \/ Unpublish(r) \/ Reconcile(r)
    PROVE  FlowInv'
<1>0. holder = r /\ holder' = r
  BY DEF PublishAgain, PublishNew, Unpublish, Reconcile, BeginDeleting, At, lock
<1>1. Own(r) /\ Accounts(r) /\ Spares(r) /\ TypeOK /\ Locking /\ Resting /\ Drawn /\ Single
  BY <1>0, HolderIs DEF FeedInv, FlowInv
<1>2. UNCHANGED <<store, history>> /\ kind' = kind
  BY DEF PublishAgain, PublishNew, Unpublish, Reconcile, BeginDeleting
<1>3. /\ Drawn' /\ Single' /\ Marked' = Marked /\ Usable' = Usable /\ Known' = Known
  BY <1>1, <1>2, SharesStay
<1>4. drawn' = drawn /\ handed' = handed /\ strays' = strays /\ share' = share
  BY <1>2 DEF store, history
<1>5. Marked \subseteq drawn \ Foreign /\ Marked \subseteq Tokens /\ handed \subseteq Tokens
  BY <1>1, MarkedDrawn DEF Marked, TypeOK
<1>t. \A q \in Requests : q # r => todo'[q] = todo[q]
  BY <1>1 DEF PublishAgain, PublishNew, Unpublish, Reconcile, BeginDeleting, TypeOK
<1>6. CASE PublishAgain(r)
  <2>1. /\ step'[r] = "sweep" /\ Goto(r, "sweep") /\ step[r] = "list"
        /\ token'[r] = Select /\ todo'[r] = Marked \ {Select}
    BY <1>1, <1>6 DEF PublishAgain, BeginDeleting, Goto, TypeOK, At
  <2>2. Select \in Marked
    BY <1>6, SelectIn DEF PublishAgain, Usable
  <2>3. Own(r)'
    BY <1>4, <1>5, <2>1, <2>2 DEF Own, Keeping, Making
  <2>4. Accounts(r)'
    BY <1>1, <1>3, <1>4, <2>1 DEF Accounts, Making, Repairing
  <2>5. Spares(r)'
    BY <1>1, <1>4, <2>1, <2>2 DEF Spares, Single, Repairing
  <2> QED BY <1>0, <1>1, <1>3, <1>t, <2>1, <2>3, <2>4, <2>5, GoesOn DEF Steps, Done
<1>7. CASE PublishNew(r)
  <2>1. /\ step'[r] = "clear" /\ Goto(r, "clear") /\ step[r] = "list"
        /\ todo'[r] = Marked
    BY <1>1, <1>7 DEF PublishNew, BeginDeleting, Goto, TypeOK, At
  <2>2. Usable = {}
    BY <1>7, SelectNone DEF PublishNew
  <2>3. Own(r)'
    BY <1>5, <2>1 DEF Own, Keeping, Making
  <2>4. Accounts(r)'
    BY <1>1, <1>3, <1>4, <2>1 DEF Accounts, Making, Repairing
  <2>5. Spares(r)'
    BY <1>3, <2>1, <2>2 DEF Spares, Repairing
  <2> QED BY <1>0, <1>1, <1>3, <1>t, <2>1, <2>3, <2>4, <2>5, GoesOn DEF Steps, Done
<1>8. CASE Unpublish(r)
  <2>1. /\ step'[r] = "remove" /\ Goto(r, "remove") /\ step[r] = "list"
        /\ todo'[r] = Marked /\ kind[r] = "unpublish"
    BY <1>1, <1>8 DEF Unpublish, BeginDeleting, Goto, TypeOK, At
  <2>2. Own(r)'
    BY <1>5, <2>1 DEF Own, Keeping, Making
  <2>3. \A t \in handed : share[t] # "none" => t \in Marked
    BY <1>1, <1>5 DEF Drawn, Marked, TypeOK
  <2>4. Accounts(r)'
    BY <1>1, <1>2, <1>3, <1>4, <2>1, <2>3 DEF Accounts, Making, Repairing
  <2>5. Spares(r)'
    BY <2>1 DEF Spares, Repairing
  <2> QED BY <1>0, <1>1, <1>3, <1>t, <2>1, <2>2, <2>4, <2>5, GoesOn DEF Steps, Done
<1>9. CASE Reconcile(r)
  <2>1. /\ step'[r] = "reclaim" /\ Goto(r, "reclaim") /\ step[r] = "reconcile"
        /\ todo'[r] = Marked
    BY <1>1, <1>9 DEF Reconcile, BeginDeleting, Goto, TypeOK, At
  <2>2. Own(r)'
    BY <1>5, <2>1 DEF Own, Keeping, Making
  <2>3. Accounts(r)'
    BY <1>3, <2>1 DEF Accounts, Making, Repairing
  <2>4. Spares(r)'
    BY <1>1, <1>3, <1>4, <2>1 DEF Spares, Repairing
  <2> QED BY <1>0, <1>1, <1>3, <1>t, <2>1, <2>2, <2>3, <2>4, GoesOn DEF Steps, Done
<1> QED BY <1>6, <1>7, <1>8, <1>9

\* A share that is deleted needs no account.
LEMMA DeleteKept ==
    ASSUME FeedInv, NEW r \in Requests, DeleteMarked(r)
    PROVE  FlowInv'
<1>0. holder = r /\ holder' = r
  BY DEF DeleteMarked, lock
<1>1. Own(r) /\ Accounts(r) /\ Spares(r) /\ TypeOK /\ Locking /\ Resting /\ Drawn /\ Single
  BY <1>0, HolderIs DEF FeedInv, FlowInv
<1> DEFINE t == First(todo[r])
<1>2. t \in todo[r] /\ t \in Tokens /\ t \notin Foreign
  <2>1. todo[r] \subseteq Tokens \ Foreign /\ todo[r] # {}
    BY <1>1 DEF Own, DeleteMarked
  <2> QED BY <2>1, FirstIn
<1>3. /\ share' = [share EXCEPT ![t] = "none"] /\ todo' = [todo EXCEPT ![r] = @ \ {t}]
      /\ drawn' = drawn /\ handed' = handed /\ withdrawn' = withdrawn /\ strays' = strays
      /\ step' = step /\ token' = token /\ kind' = kind
  BY DEF DeleteMarked, history
<1> HIDE DEF t
<1>4. Drawn' /\ Marked' \subseteq Marked /\ Usable' \subseteq Usable /\ t \notin Marked'
  BY <1>1, <1>2, <1>3, ShareGoes
<1>5. todo'[r] = todo[r] \ {t} /\ \A q \in Requests : q # r => todo'[q] = todo[q]
  BY <1>1, <1>3 DEF TypeOK
<1>6. step[r] \in {"sweep", "clear", "remove", "reclaim"}
  BY DEF DeleteMarked
<1>7. Single'
  BY <1>1, <1>3, <1>4 DEF Single
<1>8. Own(r)'
  BY <1>1, <1>3, <1>5 DEF Own
<1>9. \A u \in Tokens : share'[u] # "none" => share[u] # "none" /\ u # t
  BY <1>1, <1>2, <1>3 DEF TypeOK
<1>10. Accounts(r)'
  <2>1. handed \subseteq Tokens
    BY <1>1 DEF TypeOK
  <2> QED BY <1>1, <1>3, <1>4, <1>5, <1>6, <1>9, <2>1
          DEF Accounts, Known, Making, Repairing
<1>11. Spares(r)'
  BY <1>1, <1>3, <1>4, <1>5 DEF Spares
<1>12. Goto(r, step[r])
  BY <1>1, <1>3 DEF Goto, TypeOK
<1> QED BY <1>0, <1>1, <1>4, <1>5, <1>6, <1>7, <1>8, <1>10, <1>11, <1>12, GoesOn DEF Steps, Done

\* A share that is made is the request's own until its link is handed out.
LEMMA CreateKept ==
    ASSUME FeedInv, NEW r \in Requests, NEW t \in Tokens, CreateShare(r, t)
    PROVE  FlowInv'
<1>0. holder = r /\ holder' = r /\ step[r] = "create"
  BY DEF CreateShare, At, lock
<1>1. Own(r) /\ Accounts(r) /\ Spares(r) /\ TypeOK /\ Locking /\ Resting /\ Drawn /\ Single
  BY <1>0, HolderIs DEF FeedInv, FlowInv
<1>2. /\ handed' = handed /\ withdrawn' = withdrawn /\ strays' = strays /\ todo' = todo
      /\ Make(t) /\ Goto(r, "check") /\ token' = [token EXCEPT ![r] = t]
  BY DEF CreateShare, history
<1>3. Drawn' /\ Marked' = Marked \union {t} /\ t \in drawn' \ Foreign /\ t \notin handed
  BY <1>1, <1>2, ShareComes
<1>4. token'[r] = t /\ step'[r] = "check"
  BY <1>1, <1>2 DEF TypeOK, Goto
<1>5. Marked \subseteq strays
  BY <1>0, <1>1 DEF Accounts
<1>6. Single'
  BY <1>2, <1>3, <1>5 DEF Single
<1>7. Own(r)'
  BY <1>1, <1>2, <1>3, <1>4 DEF Own
<1>8. Accounts(r)'
  BY <1>2, <1>3, <1>4, <1>5 DEF Accounts, Making, Repairing
<1>9. Spares(r)'
  BY <1>4 DEF Spares, Repairing
<1> QED BY <1>0, <1>1, <1>2, <1>3, <1>6, <1>7, <1>8, <1>9, GoesOn DEF Steps, Done

\* A create that fails leaves at most a share whose link nobody has.
LEMMA CreateFailsKept ==
    ASSUME FeedInv, NEW r \in Requests, CreateFails(r)
    PROVE  FlowInv'
<1>0. holder = r /\ holder' = r /\ step[r] = "create"
  BY DEF CreateFails, At, lock
<1>1. Own(r) /\ Accounts(r) /\ Spares(r) /\ TypeOK /\ Locking /\ Resting /\ Drawn /\ Single
  BY <1>0, HolderIs DEF FeedInv, FlowInv
<1>2. /\ handed' = handed /\ withdrawn' = withdrawn /\ strays' = strays
      /\ todo' = todo /\ token' = token /\ Goto(r, "reconcile")
  BY DEF CreateFails, history
<1>3. step'[r] = "reconcile"
  BY <1>1, <1>2 DEF TypeOK, Goto
<1>4. Marked \subseteq strays
  BY <1>0, <1>1 DEF Accounts
<1>5. Drawn' /\ (Marked' = Marked \/ \E t \in Tokens \ handed : Marked' = Marked \union {t})
  <2>1. CASE share' = share /\ drawn' = drawn
    BY <1>1, <1>2, <2>1 DEF Drawn, Marked
  <2>2. ASSUME NEW t \in Tokens, Make(t)
        PROVE  Drawn' /\ Marked' = Marked \union {t} /\ t \notin handed
    BY <1>1, <1>2, <2>2, ShareComes
  <2> QED BY <2>1, <2>2 DEF CreateFails, store
<1>6. Single'
  BY <1>2, <1>4, <1>5 DEF Single
<1>7. Own(r)'
  BY <1>1, <1>2, <1>3 DEF Own, Keeping, Making
<1>8. Accounts(r)'
  BY <1>3 DEF Accounts, Making, Repairing
<1>9. Spares(r)'
  BY <1>2, <1>3, <1>4, <1>5 DEF Spares
<1> QED BY <1>0, <1>1, <1>2, <1>5, <1>6, <1>7, <1>8, <1>9, GoesOn DEF Steps, Done

\* A request that is answered hands out the link of a share it has accounted for.
LEMMA AnswersKept ==
    ASSUME FeedInv, NEW r \in Requests,
           GetPublication(r) \/ KeepPublished(r) \/ Published(r) \/ Unpublished(r)
    PROVE  FlowInv'
<1>0. holder = r /\ UNCHANGED store /\ strays' = strays /\ End(r, "answered")
  BY DEF GetPublication, KeepPublished, Published, Unpublished, Answer, At
<1>1. Own(r) /\ Accounts(r) /\ Spares(r) /\ TypeOK /\ Locking /\ Resting /\ Drawn /\ Single
  BY <1>0, HolderIs DEF FeedInv, FlowInv
<1>2. Marked' = Marked /\ drawn' = drawn /\ share' = share
  BY <1>0 DEF Marked, store
<1>3. Marked \subseteq drawn \ Foreign
  BY <1>1, MarkedDrawn
<1>4. CASE GetPublication(r)
  <2>1. handed' = handed \union ({Select} \ {None}) /\ withdrawn' = withdrawn
    BY <1>4 DEF GetPublication, Answer
  <2>2. {Select} \ {None} \subseteq drawn \ Foreign
    BY <1>3, SelectIn DEF Usable
  <2>3. Drawn'
    BY <1>1, <1>2, <2>1, <2>2 DEF Drawn
  <2>4. Marked \subseteq handed \union strays
    BY <1>1, <1>4 DEF Accounts, Known, GetPublication, At, Making, Repairing
  <2> QED BY <1>0, <1>2, <2>1, <2>3, <2>4, FailsQuietly DEF Done
<1>5. CASE KeepPublished(r) \/ Published(r)
  <2>1. handed' = handed \union {token[r]} /\ withdrawn' = withdrawn
    BY <1>5 DEF KeepPublished, Published, Answer
  <2>2. step[r] \in Making \union {"validateKept"}
    BY <1>5 DEF KeepPublished, Published, At, Making
  <2>3. token[r] \in drawn \ Foreign /\ Marked \subseteq {token[r]} \union strays
    BY <1>1, <2>2 DEF Own, Accounts, Keeping
  <2>4. Drawn'
    BY <1>1, <1>2, <2>1, <2>3 DEF Drawn
  <2> QED BY <1>0, <1>2, <2>1, <2>3, <2>4, FailsQuietly DEF Done
<1>6. CASE Unpublished(r)
  <2>1. /\ handed' = handed /\ withdrawn' = withdrawn \union handed
        /\ step[r] = "remove" /\ todo[r] = {}
    BY <1>6 DEF Unpublished, At
  <2>2. \A t \in handed : share[t] = "none"
    BY <1>1, <2>1 DEF Accounts
  <2>3. Drawn'
    BY <1>1, <1>2, <2>1, <2>2 DEF Drawn
  <2>4. Marked \subseteq handed \union strays
    BY <1>1, <2>1 DEF Accounts, Known, Making, Repairing
  <2> QED BY <1>0, <1>2, <2>1, <2>3, <2>4, FailsQuietly DEF Done
<1> QED BY <1>4, <1>5, <1>6

\* A request that fails has told of its shares, deleted them, or left them behind.
LEMMA FailuresKept ==
    ASSUME FeedInv, NEW r \in Requests,
           \/ CallFails(r) \/ DeleteUnanswered(r) \/ Undo(r) \/ UndoFails(r)
           \/ ReconcileEnds(r) \/ ReconcileFails(r)
    PROVE  FlowInv'
<1>0. /\ holder = r /\ End(r, "idle")
      /\ drawn' = drawn /\ handed' = handed /\ withdrawn' = withdrawn
      /\ strays \subseteq strays'
  BY DEF CallFails, DeleteUnanswered, Undo, UndoFails, ReconcileEnds, ReconcileFails, Fail,
         At, store, history
<1>1. Own(r) /\ Accounts(r) /\ Spares(r) /\ TypeOK /\ Locking /\ Resting /\ Drawn /\ Single
  BY <1>0, HolderIs DEF FeedInv, FlowInv
<1>2. ASSUME share' = share
      PROVE  Drawn' /\ Marked' = Marked
  BY <1>0, <1>1, <1>2 DEF Drawn, Marked
<1>3. CASE CallFails(r)
  <2>1. Marked \subseteq handed \union strays
    BY <1>1, <1>3 DEF CallFails, Accounts, Known, Making, Repairing
  <2>2. Drawn' /\ Marked' = Marked
    BY <1>2, <1>3 DEF CallFails, Fail, store
  <2> QED BY <1>0, <2>1, <2>2, FailsQuietly DEF Done
<1>4. CASE DeleteUnanswered(r)
  <2> DEFINE t == First(todo[r])
  <2>1. t \in Tokens /\ t \notin Foreign
    <3>1. todo[r] \subseteq Tokens \ Foreign /\ todo[r] # {}
      BY <1>1, <1>4 DEF Own, DeleteUnanswered
    <3> QED BY <3>1, FirstIn
  <2>2. share' = [share EXCEPT ![t] = "none"]
    BY <1>4 DEF DeleteUnanswered
  <2> HIDE DEF t
  <2>3. Drawn' /\ Marked' \subseteq Marked
    BY <1>0, <1>1, <2>1, <2>2, ShareGoes
  <2>4. Marked \subseteq handed \union strays
    BY <1>1, <1>4 DEF DeleteUnanswered, Accounts, Known, Making, Repairing
  <2> QED BY <1>0, <2>3, <2>4, FailsQuietly DEF Done
<1>5. CASE Undo(r)
  <2>1. step[r] \in Making /\ share' = [share EXCEPT ![token[r]] = "none"]
    BY <1>5 DEF Undo, At, Making
  <2>2. token[r] \in Tokens /\ token[r] \notin Foreign
    BY <1>1, <2>1 DEF Own, TypeOK
  <2>3. Drawn' /\ Marked' \subseteq Marked /\ token[r] \notin Marked'
    BY <1>0, <1>1, <2>1, <2>2, ShareGoes
  <2>4. Marked \subseteq {token[r]} \union strays
    BY <1>1, <2>1 DEF Accounts
  <2> QED BY <1>0, <2>3, <2>4, FailsQuietly DEF Done
<1>6. CASE UndoFails(r)
  <2>1. step[r] \in Making /\ strays' = strays \union {token[r]}
    BY <1>6 DEF UndoFails, At, Making
  <2>2. Drawn' /\ Marked' = Marked
    BY <1>2, <1>6 DEF UndoFails, Fail, store
  <2>3. Marked \subseteq {token[r]} \union strays
    BY <1>1, <2>1 DEF Accounts
  <2> QED BY <1>0, <2>1, <2>2, <2>3, FailsQuietly DEF Done
<1>7. CASE ReconcileEnds(r)
  <2>1. Drawn' /\ Marked' = Marked
    BY <1>2, <1>7 DEF ReconcileEnds, Fail, store
  <2>2. Marked \subseteq handed \union strays
    BY <1>1, <1>7 DEF ReconcileEnds, At, Accounts
  <2> QED BY <1>0, <2>1, <2>2, FailsQuietly DEF Done
<1>8. CASE ReconcileFails(r)
  <2>1. Drawn' /\ Marked' = Marked /\ strays' = strays \union Marked
    BY <1>2, <1>8 DEF ReconcileFails, Fail, store
  <2> QED BY <1>0, <2>1, FailsQuietly DEF Done
<1> QED BY <1>3, <1>4, <1>5, <1>6, <1>7, <1>8

-----------------------------------------------------------------------------
(* Steps of others.                                                         *)

\* A request that waits for the lock changes nothing.
LEMMA AskKept ==
    ASSUME FeedInv, NEW r \in Requests, Ask(r)
    PROVE  FlowInv'
<1>0. TypeOK /\ FlowInv
  BY DEF FeedInv
<1>1. /\ \A q \in Requests : step'[q] = IF q = r THEN "waiting" ELSE step[q]
      /\ UNCHANGED <<store, holder, todo, token, history>>
  BY <1>0 DEF Ask, Goto, TypeOK
<1>2. holder # r
  BY <1>0 DEF Ask, FlowInv, Locking
<1>3. Locking'
  BY <1>0, <1>1, <1>2 DEF FlowInv, Locking, Ask
<1>4. Drawn' /\ Single' /\ Known' = Known /\ Marked' = Marked /\ Usable' = Usable
  BY <1>0, <1>1, SharesStay DEF FlowInv
<1>5. ASSUME NEW q \in Requests, holder = q PROVE Holding(q)'
  <2>1. Holding(q) /\ step'[q] = step[q] /\ kind'[q] = kind[q]
    BY <1>0, <1>1, <1>2, <1>5 DEF FlowInv, Ask, TypeOK
  <2> QED BY <1>1, <1>4, <2>1 DEF Holding, Own, Accounts, Spares, store, history
<1>6. Resting'
  BY <1>0, <1>1 DEF FlowInv, Resting
<1> QED BY <1>0, <1>1, <1>3, <1>4, <1>5, <1>6 DEF FlowInv

\* Whoever gets the lock finds every share accounted for.
LEMMA EnterKept ==
    ASSUME FeedInv, NEW r \in Requests, Enter(r)
    PROVE  FlowInv'
<1>0. TypeOK /\ FlowInv
  BY DEF FeedInv
<1>1. /\ \A q \in Requests : step'[q] = IF q = r THEN "resolve" ELSE step[q]
      /\ holder' = r /\ holder = None
      /\ UNCHANGED <<store, kind, todo, token, history>>
  BY <1>0 DEF Enter, Goto, TypeOK
<1>r. Resting' /\ todo[r] = {}
  BY <1>0, <1>1, FeedConstantsOk DEF FlowInv, Resting
<1>2. Locking'
  BY <1>0, <1>1, FeedConstantsOk DEF FlowInv, Locking, Done
<1>3. Drawn' /\ Single' /\ Known' /\ holder' # None
  BY <1>0, <1>1, SharesStay, FeedConstantsOk DEF FlowInv
<1>4. Own(r)' /\ Accounts(r)' /\ Spares(r)'
  BY <1>1, <1>r, <1>3 DEF Own, Accounts, Spares, Keeping, Making, Repairing
<1> QED BY <1>1, <1>r, <1>2, <1>3, <1>4 DEF FlowInv, Holding

\* What others do to the shares makes nobody's account false.
LEMMA OutsideKept ==
    ASSUME FeedInv, LateCreate \/ (\E t \in Tokens : OwnerEdits(t))
    PROVE  FlowInv'
<1>0. TypeOK /\ FlowInv
  BY DEF FeedInv
<1>1. UNCHANGED <<holder, kind, step, todo, token, handed, withdrawn>>
  BY DEF LateCreate, OwnerEdits, lock, history
<1> DEFINE Mild ==
        /\ Drawn' /\ drawn \subseteq drawn' /\ strays \subseteq strays'
        /\ Marked' \subseteq Marked \union strays'
        /\ strays' = {} => Marked' \subseteq Marked /\ Usable' \subseteq Usable
        /\ \A t \in handed : share'[t] # "none" => share[t] # "none"
<1>2. Mild
  <2>1. ASSUME NEW t \in Tokens, OwnerEdits(t) PROVE Mild
    <3> PICK s \in {"none", "altered"} : share' = [share EXCEPT ![t] = s]
      BY <2>1 DEF OwnerEdits
    <3>1. t \notin Foreign /\ t \in Marked /\ drawn' = drawn /\ strays' = strays
      BY <1>0, <2>1, MarkedDrawn DEF FlowInv, OwnerEdits, history
    <3>2. Drawn' /\ Marked' \subseteq Marked /\ Usable' \subseteq Usable
      BY <1>0, <1>1, <3>1, ShareGoes DEF FlowInv
    <3>3. \A u \in handed : share'[u] # "none" => share[u] # "none"
      BY <1>0, <3>1 DEF TypeOK, Marked
    <3> QED BY <3>1, <3>2, <3>3
  <2>2. ASSUME NEW t \in Tokens, Make(t), strays' = strays \union {t} PROVE Mild
    <3>1. Drawn' /\ Marked' = Marked \union {t} /\ t \notin handed
      BY <1>0, <1>1, <2>2, ShareComes DEF FlowInv
    <3>2. \A u \in handed : share'[u] = share[u]
      BY <1>0, <2>2, <3>1 DEF Make, TypeOK
    <3>3. drawn \subseteq drawn'
      BY <2>2 DEF Make
    <3> QED BY <2>2, <3>1, <3>2, <3>3
  <2>3. ASSUME UNCHANGED <<share, drawn, strays>> PROVE Mild
    <3>1. Drawn' /\ Marked' = Marked /\ Usable' = Usable
      BY <1>0, <1>1, <2>3 DEF FlowInv, Drawn, Marked, Usable
    <3> QED BY <2>3, <3>1
  <2> QED BY <2>1, <2>2, <2>3 DEF LateCreate
<1>3. Locking' /\ Resting'
  BY <1>0, <1>1 DEF FlowInv, Locking, Resting
<1>4. Single'
  BY <1>0, <1>2 DEF FlowInv, Single
<1>5. Known => Known'
  BY <1>1, <1>2 DEF Known
<1>6. ASSUME NEW r \in Requests, holder = r PROVE Holding(r)'
  <2>1. Own(r) /\ Accounts(r) /\ Spares(r)
    BY <1>6, HolderIs
  <2>2. Own(r)'
    BY <1>1, <1>2, <2>1 DEF Own
  <2>3. Accounts(r)'
    BY <1>1, <1>2, <1>5, <2>1 DEF Accounts
  <2>4. Spares(r)'
    BY <1>1, <1>2, <2>1 DEF Spares
  <2> QED BY <2>2, <2>3, <2>4 DEF Holding
<1> QED BY <1>0, <1>1, <1>2, <1>3, <1>4, <1>5, <1>6 DEF FlowInv

\* A restart leaves what it interrupts behind.
LEMMA RestartKept ==
    ASSUME FeedInv, Restart
    PROVE  FlowInv'
<1>0. TypeOK /\ FlowInv
  BY DEF FeedInv
<1>1. /\ holder' = None /\ strays' = strays \union Marked
      /\ UNCHANGED <<share, drawn, handed, withdrawn>>
      /\ \A r \in Requests : step'[r] \in Done /\ todo'[r] = {}
  BY DEF Restart, store, Done
<1>2. Locking' /\ Resting'
  BY <1>1, FeedConstantsOk DEF Locking, Resting
<1>3. Drawn' /\ Marked' = Marked
  BY <1>0, <1>1 DEF FlowInv, Drawn, Marked
<1>4. Single' /\ Known'
  BY <1>1, <1>3 DEF Single, Known
<1> QED BY <1>1, <1>2, <1>3, <1>4, FeedConstantsOk DEF FlowInv

LEMMA StutterKept ==
    ASSUME FeedInv, UNCHANGED vars
    PROVE  FlowInv'
<1>0. TypeOK /\ FlowInv
  BY DEF FeedInv
<1>1. /\ UNCHANGED <<store, history>> /\ UNCHANGED <<holder, kind, step, todo, token>>
  BY DEF vars, lock
<1>2. Drawn' /\ Single' /\ Known' = Known /\ Marked' = Marked /\ Usable' = Usable
  BY <1>0, <1>1, SharesStay DEF FlowInv
<1>3. Locking' /\ Resting'
  BY <1>0, <1>1 DEF FlowInv, Locking, Resting
<1>4. ASSUME NEW q \in Requests, holder = q PROVE Holding(q)'
  <2>1. Own(q) /\ Accounts(q) /\ Spares(q)
    BY <1>4, HolderIs
  <2> QED BY <1>1, <1>2, <2>1 DEF Holding, Own, Accounts, Spares, store, history
<1> QED BY <1>0, <1>1, <1>2, <1>3, <1>4 DEF FlowInv

LEMMA FlowStep == FeedInv /\ [Next]_vars => FlowInv'
<1> SUFFICES ASSUME FeedInv, [Next]_vars PROVE FlowInv'
  OBVIOUS
<1>1. CASE UNCHANGED vars
  BY <1>1, StutterKept
<1>2. CASE LateCreate \/ (\E t \in Tokens : OwnerEdits(t))
  BY <1>2, OutsideKept
<1>3. CASE Restart
  BY <1>3, RestartKept
<1>4. ASSUME NEW r \in Requests, Ask(r) PROVE FlowInv'
  BY <1>4, AskKept
<1>5. ASSUME NEW r \in Requests, Enter(r) PROVE FlowInv'
  BY <1>5, EnterKept
<1>6. ASSUME NEW r \in Requests,
             \/ ResolveTarget(r) \/ Swept(r) \/ Cleared(r) \/ CheckCreated(r)
             \/ ValidateNew(r) \/ Catch(r)
      PROVE  FlowInv'
  BY <1>6, MovesKept
<1>7. ASSUME NEW r \in Requests,
             PublishAgain(r) \/ PublishNew(r) \/ Unpublish(r) \/ Reconcile(r)
      PROVE  FlowInv'
  BY <1>7, DecidesKept
<1>8. ASSUME NEW r \in Requests,
             DeleteMarked(r) \/ CreateFails(r) \/ (\E t \in Tokens : CreateShare(r, t))
      PROVE  FlowInv'
  BY <1>8, DeleteKept, CreateFailsKept, CreateKept
<1>9. ASSUME NEW r \in Requests,
             GetPublication(r) \/ KeepPublished(r) \/ Published(r) \/ Unpublished(r)
      PROVE  FlowInv'
  BY <1>9, AnswersKept
<1>10. ASSUME NEW r \in Requests,
              \/ CallFails(r) \/ DeleteUnanswered(r) \/ Undo(r) \/ UndoFails(r)
              \/ ReconcileEnds(r) \/ ReconcileFails(r)
       PROVE  FlowInv'
  BY <1>10, FailuresKept
<1> QED BY <1>1, <1>2, <1>3, <1>4, <1>5, <1>6, <1>7, <1>8, <1>9, <1>10 DEF Next, Operate

-----------------------------------------------------------------------------
(* Types.                                                                   *)

Kinds == {"get", "publish", "unpublish"}

LEMMA EndTypes ==
    ASSUME TypeOK, NEW r \in Requests, NEW outcome \in Done, End(r, outcome)
    PROVE  /\ step' \in [Requests -> Steps] /\ holder' \in Requests \union {None}
           /\ kind' \in [Requests -> Kinds]
           /\ todo' \in [Requests -> SUBSET Tokens]
           /\ token' \in [Requests -> Tokens \union {None}]
BY DEF TypeOK, End, Goto, Done, Steps, Kinds

LEMMA GotoTypes ==
    ASSUME TypeOK, NEW r \in Requests, NEW s \in Steps, Goto(r, s)
    PROVE  step' \in [Requests -> Steps]
BY DEF TypeOK, Goto

LEMMA MakeTypes ==
    ASSUME TypeOK, NEW t, Make(t)
    PROVE  /\ share' \in [Tokens -> {"none", "foreign", "usable", "altered"}]
           /\ drawn' \subseteq Tokens /\ t \in Tokens
BY DEF TypeOK, Make

\* An answer or a failure.
LEMMA EndingTypes ==
    ASSUME TypeOK, NEW r \in Requests, NEW outcome \in Done, End(r, outcome),
           share' \in [Tokens -> {"none", "foreign", "usable", "altered"}],
           UNCHANGED <<drawn, late, queue>>,
           handed' \subseteq Tokens, withdrawn' \subseteq Tokens, strays' \subseteq Tokens
    PROVE  TypeOK'
<1>1. queue' \in Seq(Requests) /\ drawn' \subseteq Tokens /\ late' \in Nat
  BY DEF TypeOK
<1> QED BY <1>1, EndTypes DEF TypeOK, Kinds

LEMMA AnswerTypes ==
    ASSUME FeedInv, NEW r \in Requests,
           GetPublication(r) \/ KeepPublished(r) \/ Published(r) \/ Unpublished(r)
    PROVE  TypeOK'
<1>0. TypeOK /\ holder = r
  BY DEF FeedInv, GetPublication, KeepPublished, Published, Unpublished, At
<1>1. End(r, "answered") /\ UNCHANGED <<share, drawn, late, queue, strays>>
  BY DEF GetPublication, KeepPublished, Published, Unpublished, Answer, store
<1>2. {Select} \ {None} \subseteq Tokens
  BY SelectIn DEF Usable, Marked
<1>3. KeepPublished(r) \/ Published(r) => {token[r]} \subseteq Tokens
  BY <1>0, HolderIs DEF Own, Keeping, Making, TypeOK, KeepPublished, Published, At
<1>4. handed' \subseteq Tokens /\ withdrawn' \subseteq Tokens
  BY <1>0, <1>2, <1>3
     DEF GetPublication, KeepPublished, Published, Unpublished, Answer, TypeOK
<1> QED BY <1>0, <1>1, <1>4, EndingTypes DEF TypeOK, Done

LEMMA FailureTypes ==
    ASSUME FeedInv, NEW r \in Requests,
           \/ CallFails(r) \/ DeleteUnanswered(r) \/ Undo(r) \/ UndoFails(r)
           \/ ReconcileEnds(r) \/ ReconcileFails(r)
    PROVE  TypeOK'
<1>0. TypeOK /\ holder = r
  BY DEF FeedInv, CallFails, DeleteUnanswered, Undo, UndoFails, ReconcileEnds,
         ReconcileFails, At
<1>1. End(r, "idle") /\ UNCHANGED <<drawn, late, queue, handed, withdrawn>>
  BY DEF CallFails, DeleteUnanswered, Undo, UndoFails, ReconcileEnds, ReconcileFails, Fail,
         store, history
<1>2. share' \in [Tokens -> {"none", "foreign", "usable", "altered"}]
  BY <1>0 DEF TypeOK, CallFails, DeleteUnanswered, Undo, UndoFails, ReconcileEnds,
              ReconcileFails, Fail, store
<1>3. UndoFails(r) => token[r] \in Tokens
  BY <1>0, HolderIs DEF Own, Making, TypeOK, UndoFails, At
<1>4. strays' \subseteq Tokens
  BY <1>0, <1>3 DEF TypeOK, CallFails, DeleteUnanswered, Undo, UndoFails, ReconcileEnds,
                    ReconcileFails, Marked, history
<1> QED BY <1>0, <1>1, <1>2, <1>4, EndingTypes DEF TypeOK, Done

LEMMA GoingTypes ==
    ASSUME FeedInv, NEW r \in Requests,
           \/ ResolveTarget(r) \/ Swept(r) \/ Cleared(r) \/ CheckCreated(r)
           \/ ValidateNew(r) \/ Catch(r)
    PROVE  TypeOK'
<1>0. TypeOK
  BY DEF FeedInv
<1> PICK s \in Steps : Goto(r, s)
  BY DEF ResolveTarget, Swept, Cleared, CheckCreated, ValidateNew, Catch, Steps
<1>1. step' \in [Requests -> Steps]
  BY <1>0, GotoTypes
<1>2. UNCHANGED <<share, drawn, late, queue, holder, kind, todo, token, handed, withdrawn,
                  strays>>
  BY DEF ResolveTarget, Swept, Cleared, CheckCreated, ValidateNew, Catch, store, lock, history
<1> QED BY <1>0, <1>1, <1>2 DEF TypeOK

LEMMA DecidingTypes ==
    ASSUME FeedInv, NEW r \in Requests,
           \/ PublishAgain(r) \/ PublishNew(r) \/ Unpublish(r) \/ Reconcile(r)
    PROVE  TypeOK'
<1>0. TypeOK
  BY DEF FeedInv
<1> PICK s \in Steps, S \in {Marked \ {Select}, Marked} : BeginDeleting(r, s, S)
  BY DEF PublishAgain, PublishNew, Unpublish, Reconcile, Steps
<1>1. step' \in [Requests -> Steps]
  BY <1>0, GotoTypes DEF BeginDeleting
<1>2. todo' \in [Requests -> SUBSET Tokens]
  BY <1>0 DEF BeginDeleting, TypeOK, Marked
<1>3. token' \in [Requests -> Tokens \union {None}]
  BY <1>0, SelectIn DEF PublishAgain, PublishNew, Unpublish, Reconcile, TypeOK, Usable, Marked
<1>4. UNCHANGED <<share, drawn, late, queue, holder, kind, handed, withdrawn, strays>>
  BY DEF BeginDeleting, store, lock, history
<1> QED BY <1>0, <1>1, <1>2, <1>3, <1>4 DEF TypeOK

LEMMA ChangingTypes ==
    ASSUME FeedInv, NEW r \in Requests,
           DeleteMarked(r) \/ CreateFails(r) \/ (\E t \in Tokens : CreateShare(r, t))
    PROVE  TypeOK'
<1>0. TypeOK
  BY DEF FeedInv
<1>1. CASE DeleteMarked(r)
  <2>1. /\ share' \in [Tokens -> {"none", "foreign", "usable", "altered"}]
        /\ todo' \in [Requests -> SUBSET Tokens]
    BY <1>0, <1>1 DEF DeleteMarked, TypeOK
  <2>2. UNCHANGED <<drawn, late, queue, holder, kind, step, token, handed, withdrawn, strays>>
    BY <1>1 DEF DeleteMarked, lock, history
  <2> QED BY <1>0, <2>1, <2>2 DEF TypeOK
<1>2. CASE CreateFails(r)
  <2>1. /\ share' \in [Tokens -> {"none", "foreign", "usable", "altered"}]
        /\ drawn' \subseteq Tokens /\ late' \in Nat
    BY <1>0, <1>2, MakeTypes DEF CreateFails, TypeOK, store
  <2>2. step' \in [Requests -> Steps]
    BY <1>0, <1>2, GotoTypes DEF CreateFails, Steps
  <2>3. UNCHANGED <<queue, holder, kind, todo, token, handed, withdrawn, strays>>
    BY <1>2 DEF CreateFails, lock, history
  <2> QED BY <1>0, <2>1, <2>2, <2>3 DEF TypeOK
<1>3. ASSUME NEW t \in Tokens, CreateShare(r, t) PROVE TypeOK'
  <2>1. /\ share' \in [Tokens -> {"none", "foreign", "usable", "altered"}]
        /\ drawn' \subseteq Tokens
    BY <1>0, <1>3, MakeTypes DEF CreateShare
  <2>2. step' \in [Requests -> Steps]
    BY <1>0, <1>3, GotoTypes DEF CreateShare, Steps
  <2>3. token' \in [Requests -> Tokens \union {None}]
    BY <1>0, <1>3 DEF CreateShare, TypeOK
  <2>4. UNCHANGED <<late, queue, holder, kind, todo, handed, withdrawn, strays>>
    BY <1>3 DEF CreateShare, lock, history
  <2> QED BY <1>0, <2>1, <2>2, <2>3, <2>4 DEF TypeOK
<1> QED BY <1>1, <1>2, <1>3

LEMMA OtherTypes ==
    ASSUME FeedInv, LateCreate \/ Restart \/ (\E t \in Tokens : OwnerEdits(t))
    PROVE  TypeOK'
<1>0. TypeOK
  BY DEF FeedInv
<1>1. CASE LateCreate
  <2>1. /\ share' \in [Tokens -> {"none", "foreign", "usable", "altered"}]
        /\ drawn' \subseteq Tokens /\ strays' \subseteq Tokens
    BY <1>0, <1>1, MakeTypes DEF LateCreate, TypeOK
  <2>2. late' \in Nat
    BY <1>0, <1>1 DEF LateCreate, TypeOK
  <2> QED BY <1>0, <1>1, <2>1, <2>2 DEF LateCreate, TypeOK, lock
<1>2. CASE Restart
  <2>1. step' \in [Requests -> Steps]
    BY <1>0, <1>2 DEF Restart, TypeOK, Steps
  <2>2. /\ kind' \in [Requests -> {"get", "publish", "unpublish"}]
        /\ todo' \in [Requests -> SUBSET Tokens] /\ strays' \subseteq Tokens
    BY <1>0, <1>2 DEF Restart, TypeOK, Marked
  <2>3. token' \in [Requests -> Tokens \union {None}] /\ queue' \in Seq(Requests)
    BY <1>2 DEF Restart
  <2> QED BY <1>0, <1>2, <2>1, <2>2, <2>3 DEF Restart, TypeOK, store
<1>3. ASSUME NEW t \in Tokens, OwnerEdits(t) PROVE TypeOK'
  <2>1. share' \in [Tokens -> {"none", "foreign", "usable", "altered"}]
    BY <1>0, <1>3 DEF OwnerEdits, TypeOK
  <2> QED BY <1>0, <1>3, <2>1 DEF OwnerEdits, TypeOK, lock, history
<1> QED BY <1>1, <1>2, <1>3

LEMMA QueueTypes ==
    ASSUME FeedInv, NEW r \in Requests, Ask(r) \/ Enter(r)
    PROVE  TypeOK'
<1>0. TypeOK
  BY DEF FeedInv
<1>1. step' \in [Requests -> Steps]
  BY <1>0, GotoTypes DEF Ask, Enter, Steps
<1>2. queue' \in Seq(Requests)
  BY <1>0 DEF Ask, Enter, TypeOK
<1>3. kind' \in [Requests -> {"get", "publish", "unpublish"}]
  BY <1>0 DEF Ask, Enter, TypeOK
<1> QED BY <1>0, <1>1, <1>2, <1>3 DEF Ask, Enter, TypeOK, store, history

LEMMA TypeStep == FeedInv /\ [Next]_vars => TypeOK'
<1> SUFFICES ASSUME FeedInv, [Next]_vars PROVE TypeOK'
  OBVIOUS
<1>1. CASE UNCHANGED vars
  BY <1>1 DEF FeedInv, TypeOK, vars, store, lock, history
<1>2. CASE LateCreate \/ Restart \/ (\E t \in Tokens : OwnerEdits(t))
  BY <1>2, OtherTypes
<1>3. ASSUME NEW r \in Requests, Ask(r) \/ Enter(r) PROVE TypeOK'
  BY <1>3, QueueTypes
<1>4. ASSUME NEW r \in Requests,
             \/ ResolveTarget(r) \/ Swept(r) \/ Cleared(r) \/ CheckCreated(r)
             \/ ValidateNew(r) \/ Catch(r)
      PROVE  TypeOK'
  BY <1>4, GoingTypes
<1>5. ASSUME NEW r \in Requests,
             PublishAgain(r) \/ PublishNew(r) \/ Unpublish(r) \/ Reconcile(r)
      PROVE  TypeOK'
  BY <1>5, DecidingTypes
<1>6. ASSUME NEW r \in Requests,
             DeleteMarked(r) \/ CreateFails(r) \/ (\E t \in Tokens : CreateShare(r, t))
      PROVE  TypeOK'
  BY <1>6, ChangingTypes
<1>7. ASSUME NEW r \in Requests,
             GetPublication(r) \/ KeepPublished(r) \/ Published(r) \/ Unpublished(r)
      PROVE  TypeOK'
  BY <1>7, AnswerTypes
<1>8. ASSUME NEW r \in Requests,
             \/ CallFails(r) \/ DeleteUnanswered(r) \/ Undo(r) \/ UndoFails(r)
             \/ ReconcileEnds(r) \/ ReconcileFails(r)
      PROVE  TypeOK'
  BY <1>8, FailureTypes
<1> QED BY <1>1, <1>2, <1>3, <1>4, <1>5, <1>6, <1>7, <1>8 DEF Next, Operate

-----------------------------------------------------------------------------
(* Theorems.                                                                *)

LEMMA Start == Init => FeedInv
<1> SUFFICES ASSUME Init PROVE FeedInv
  OBVIOUS
<1>1. TypeOK
  BY FeedConstantsOk DEF Init, TypeOK, Steps
<1>2. Marked = {}
  BY DEF Init, Marked
<1>3. Drawn
  BY FeedConstantsOk DEF Init, Drawn
<1>4. Locking /\ Resting
  BY FeedConstantsOk DEF Init, Locking, Resting, Done
<1>5. \A r \in Requests : holder # r
  BY FeedConstantsOk DEF Init
<1> QED BY <1>1, <1>2, <1>3, <1>4, <1>5 DEF FeedInv, FlowInv, Single, Known

\* Every share of the feature is accounted for at every await, and every reachable state
\* is well formed, for any number of requests and tokens.
THEOREM Invariance == Spec => []FeedInv
<1>1. FeedInv /\ [Next]_vars => FeedInv'
  BY FlowStep, TypeStep DEF FeedInv
<1> QED BY <1>1, Start, PTL DEF Spec

\* Every reachable state is well formed.
THEOREM TypeCorrect == Spec => []TypeOK
<1>1. FeedInv => TypeOK
  BY DEF FeedInv
<1> QED BY <1>1, Invariance, PTL

\* A link handed out before an unpublish request was answered is never served again, and
\* no share of somebody else is touched.
THEOREM WithdrawnStays == Spec => []WithdrawnForGood
<1>1. FeedInv => WithdrawnForGood
  BY FeedConstantsOk DEF FeedInv, FlowInv, Drawn, WithdrawnForGood
<1> QED BY <1>1, Invariance, PTL

\* With no request under way every share was told of or is a known leftover.
THEOREM NothingSilent == Spec => []NoSilentPublication
<1>1. FeedInv => NoSilentPublication
  BY DEF FeedInv, FlowInv, Known, NoSilentPublication
<1> QED BY <1>1, Invariance, PTL

\* Only these steps take a share away.
LEMMA TakenBy ==
    ASSUME FeedInv, [Next]_vars, NEW t \in Tokens, share[t] = "usable", share'[t] = "none"
    PROVE  \/ OwnerEdits(t)
           \/ \E r \in Requests :
                 \/ DeleteMarked(r) /\ t = First(todo[r])
                 \/ DeleteUnanswered(r) /\ t = First(todo[r])
                 \/ Undo(r) /\ t = token[r]
<1>0. TypeOK
  BY DEF FeedInv
<1>1. ASSUME UNCHANGED share PROVE FALSE
  BY <1>1
<1>2. ASSUME NEW u, Make(u) PROVE FALSE
  BY <1>0, <1>2 DEF Make, TypeOK
<1>3. CASE UNCHANGED vars
  BY <1>1, <1>3 DEF vars, store
<1>4. CASE LateCreate \/ Restart
  BY <1>1, <1>2, <1>4 DEF LateCreate, Restart, store
<1>5. ASSUME NEW u \in Tokens, OwnerEdits(u) PROVE OwnerEdits(t)
  <2>1. u = t
    BY <1>0, <1>5 DEF OwnerEdits, TypeOK
  <2> QED BY <1>5, <2>1
<1>6. ASSUME NEW r \in Requests,
             \/ Ask(r) \/ Enter(r) \/ ResolveTarget(r) \/ Swept(r) \/ Cleared(r)
             \/ CheckCreated(r) \/ ValidateNew(r) \/ Catch(r)
             \/ PublishAgain(r) \/ PublishNew(r) \/ Unpublish(r) \/ Reconcile(r)
      PROVE  FALSE
  BY <1>1, <1>6 DEF Ask, Enter, ResolveTarget, Swept, Cleared, CheckCreated, ValidateNew,
                    Catch, PublishAgain, PublishNew, Unpublish, Reconcile, BeginDeleting, store
<1>7. ASSUME NEW r \in Requests,
             \/ GetPublication(r) \/ KeepPublished(r) \/ Published(r) \/ Unpublished(r)
             \/ CallFails(r) \/ UndoFails(r) \/ ReconcileEnds(r) \/ ReconcileFails(r)
      PROVE  FALSE
  BY <1>1, <1>7 DEF GetPublication, KeepPublished, Published, Unpublished, Answer, CallFails,
                    UndoFails, ReconcileEnds, ReconcileFails, Fail, store
<1>8. ASSUME NEW r \in Requests, CreateFails(r) \/ (\E u \in Tokens : CreateShare(r, u))
      PROVE  FALSE
  BY <1>1, <1>2, <1>8 DEF CreateFails, CreateShare, store
<1>9. ASSUME NEW r \in Requests, DeleteMarked(r) PROVE t = First(todo[r])
  BY <1>0, <1>9 DEF DeleteMarked, TypeOK
<1>10. ASSUME NEW r \in Requests, DeleteUnanswered(r) PROVE t = First(todo[r])
  BY <1>0, <1>10 DEF DeleteUnanswered, TypeOK
<1>11. ASSUME NEW r \in Requests, Undo(r) PROVE t = token[r]
  BY <1>0, <1>11 DEF Undo, TypeOK
<1> QED BY <1>3, <1>4, <1>5, <1>6, <1>7, <1>8, <1>9, <1>10, <1>11 DEF Next, Operate

\* While nothing was left behind, no publish takes away a share whose link was handed out.
THEOREM LinksOutlive == Spec => LinksOutlivePublish
<1>1. ASSUME FeedInv, [Next]_vars, NEW t \in handed, NEW r \in Requests,
             strays = {}, share[t] = "usable", share'[t] = "none", holder = r
      PROVE  kind[r] = "unpublish" \/ OwnerEdits(t)
  <2>0. t \in Tokens /\ Own(r) /\ Accounts(r) /\ Spares(r)
    BY <1>1, HolderIs DEF FeedInv, TypeOK
  <2>1. t \in Usable /\ t \in Marked
    BY <1>1, <2>0 DEF Usable, Marked
  <2>2. ASSUME step[r] \in {"sweep", "clear", "remove", "reclaim"}, t \in todo[r]
        PROVE  kind[r] = "unpublish"
    BY <1>1, <2>0, <2>1, <2>2 DEF Accounts, Spares, Repairing
  <2>3. ASSUME NEW q \in Requests, DeleteMarked(q) \/ DeleteUnanswered(q), t = First(todo[q])
        PROVE  kind[r] = "unpublish"
    <3>1. q = r /\ step[r] \in {"sweep", "clear", "remove", "reclaim"} /\ todo[r] # {}
      BY <1>1, <2>3 DEF DeleteMarked, DeleteUnanswered
    <3>2. t \in todo[r]
      BY <2>0, <2>3, <3>1, FirstIn DEF Own
    <3> QED BY <2>2, <3>1, <3>2
  <2>4. ASSUME NEW q \in Requests, Undo(q), t = token[q]
        PROVE  FALSE
    <3>1. q = r /\ step[r] \in Making
      BY <1>1, <2>4 DEF Undo, At, Making
    <3> QED BY <1>1, <2>0, <2>4, <3>1 DEF Own
  <2> QED BY <1>1, <2>0, <2>3, <2>4, TakenBy
<1>2. FeedInv /\ [Next]_vars =>
        [\A t \in handed, r \in Requests :
            strays = {} /\ share[t] = "usable" /\ share'[t] = "none" /\ holder = r
                => kind[r] = "unpublish" \/ OwnerEdits(t)]_vars
  BY <1>1
<1> QED BY <1>2, Invariance, PTL DEF Spec, LinksOutlivePublish

\* Only these steps answer a request.
LEMMA AnsweredBy ==
    ASSUME FeedInv, [Next]_vars, NEW r \in Requests,
           step[r] # "answered", step'[r] = "answered"
    PROVE  GetPublication(r) \/ KeepPublished(r) \/ Published(r) \/ Unpublished(r)
<1>0. TypeOK
  BY DEF FeedInv
<1>1. ASSUME step' = step PROVE FALSE
  BY <1>1
<1>2. ASSUME NEW q \in Requests, NEW s, s # "answered", Goto(q, s) PROVE FALSE
  BY <1>0, <1>2 DEF Goto, TypeOK
<1>3. ASSUME NEW q \in Requests, End(q, "answered") PROVE q = r
  BY <1>0, <1>3 DEF End, Goto, TypeOK
<1>4. CASE UNCHANGED vars
  BY <1>1, <1>4 DEF vars
<1>5. CASE LateCreate \/ (\E t \in Tokens : OwnerEdits(t))
  BY <1>1, <1>5 DEF LateCreate, OwnerEdits
<1>6. CASE Restart
  BY <1>0, <1>6 DEF Restart, TypeOK
<1>7. ASSUME NEW q \in Requests,
             \/ Ask(q) \/ Enter(q) \/ ResolveTarget(q) \/ Swept(q) \/ Cleared(q)
             \/ CheckCreated(q) \/ ValidateNew(q) \/ Catch(q)
             \/ PublishAgain(q) \/ PublishNew(q) \/ Unpublish(q) \/ Reconcile(q)
             \/ CreateFails(q) \/ (\E t \in Tokens : CreateShare(q, t))
      PROVE  FALSE
  BY <1>2, <1>7 DEF Ask, Enter, ResolveTarget, Swept, Cleared, CheckCreated, ValidateNew,
                    Catch, PublishAgain, PublishNew, Unpublish, Reconcile, BeginDeleting,
                    CreateFails, CreateShare
<1>8. ASSUME NEW q \in Requests, DeleteMarked(q) PROVE FALSE
  BY <1>1, <1>8 DEF DeleteMarked
<1>9. ASSUME NEW q \in Requests,
             \/ CallFails(q) \/ DeleteUnanswered(q) \/ Undo(q) \/ UndoFails(q)
             \/ ReconcileEnds(q) \/ ReconcileFails(q)
      PROVE  FALSE
  BY <1>2, <1>9 DEF CallFails, DeleteUnanswered, Undo, UndoFails, ReconcileEnds,
                    ReconcileFails, Fail, End
<1>10. ASSUME NEW q \in Requests,
              GetPublication(q) \/ KeepPublished(q) \/ Published(q) \/ Unpublished(q)
       PROVE  q = r
  BY <1>3, <1>10 DEF GetPublication, KeepPublished, Published, Unpublished, Answer
<1> QED BY <1>4, <1>5, <1>6, <1>7, <1>8, <1>9, <1>10 DEF Next, Operate

\* When publish answers, the calendar has no other share of the feature than that of its
\* link, leftovers aside.
THEOREM OneShare == Spec => OneShareWhenPublished
<1>1. ASSUME FeedInv, [Next]_vars, NEW r \in Requests,
             kind[r] = "publish", step[r] # "answered", step'[r] = "answered"
      PROVE  \A t \in Marked' : t = token[r] \/ t \in strays'
  <2>1. KeepPublished(r) \/ Published(r) \/ Unpublished(r)
    BY <1>1, AnsweredBy DEF GetPublication
  <2>2. holder = r /\ share' = share /\ strays \subseteq strays'
    BY <2>1 DEF KeepPublished, Published, Unpublished, Answer, At, store
  <2>3. Accounts(r)
    BY <1>1, <2>2, HolderIs
  <2>4. step[r] \in Making \union {"validateKept"}
    BY <1>1, <2>1, <2>3 DEF KeepPublished, Published, Unpublished, At, Making, Accounts
  <2>5. Marked' = Marked
    BY <2>2 DEF Marked
  <2> QED BY <2>2, <2>3, <2>4, <2>5 DEF Accounts
<1>2. FeedInv /\ [Next]_vars =>
        [\A r \in Requests :
            kind[r] = "publish" /\ step[r] # "answered" /\ step'[r] = "answered"
                => \A t \in Marked' : t = token[r] \/ t \in strays']_vars
  BY <1>1
<1> QED BY <1>2, Invariance, PTL DEF Spec, OneShareWhenPublished

=============================================================================
