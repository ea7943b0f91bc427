--------------------------- MODULE CalendarEventWrite ---------------------------
(***************************************************************************)
(* One event resource in Radicale and those who write it: users of the     *)
(* gateway (create, patch, delete), native clients through the gateway's   *)
(* DAV proxy (PUT, DELETE), and others with access of their own.  Each     *)
(* write is a conditional request made some awaits after a reading.  The   *)
(* content of a resource is the set of the edits made to it, its ETag a    *)
(* strong one for that content.  Requests may be carried out after their   *)
(* sender has given them up, or never.                                     *)
(***************************************************************************)
EXTENDS Naturals, FiniteSets

CONSTANTS
    Writers,
    Edits,       \* what a writer may want to change
    Todo,        \* a component other than a VEVENT, which no writer may lose
    None,        \* no resource
    NoRequest,   \* to Radicale
    MaxForeign   \* bound on writes by others


VARIABLES
    store,       \* the resource
    past,        \* contents it has had before
    recurred,    \* contents it has had again
    foreign,     \* writes by others so far
    step,        \* the await a writer is at
    kind,        \* of its request
    edit,        \* what it wants
    seen,        \* the content it looked at, whose ETag it may name
    base,        \* what the server has read for it
    sent,        \* its request to Radicale, or NoRequest
    took,        \* writers whose request took effect
    answer,      \* what a writer was told
    noticed      \* writers whose action was announced in the room

resource == <<store, past, recurred, foreign>>
vars == <<resource, step, kind, edit, seen, base, sent, took, answer, noticed>>

Contents == (SUBSET (Edits \union {Todo})) \union {None}

\* A request and the content, or absence, it is to replace.
Requests == [match : Contents, body : Contents]

ASSUME WriteConstantsOk ==
    MaxForeign \in Nat /\ Todo \notin Edits /\ NoRequest \notin Requests

\* assertSingleVeventSeries and assertVeventOnlyCalendar.
Safe(content) == content # None /\ Todo \notin content

GatewayKinds == {"create", "patch", "delete"}
\* A native write names the ETag it has seen, any one ("*"), none that exists, or nothing.
PutKinds == {"put if same", "put if any", "put if none", "put"}
RemoveKinds == {"remove if same", "remove if any", "remove"}
NativeKinds == PutKinds \union RemoveKinds

\* Those that say which content they replace.
Names == {"create", "patch", "delete", "put if same", "put if none", "remove if same"}

Steps == {"idle", "get", "write", "wait", "read", "notice", "done"}

TypeOK ==
    /\ store \in Contents /\ past \subseteq Contents /\ recurred \subseteq Contents
    /\ foreign \in 0..MaxForeign
    /\ step \in [Writers -> Steps]
    /\ kind \in [Writers -> GatewayKinds \union NativeKinds]
    /\ edit \in [Writers -> Edits \union {None}]
    /\ seen \in [Writers -> Contents] /\ base \in [Writers -> Contents]
    /\ sent \in [Writers -> Requests \union {NoRequest}]
    /\ took \subseteq Writers /\ noticed \subseteq Writers
    /\ answer \in [Writers -> {"none", "written", "no-op", "conflict", "failed"}]

Init ==
    /\ store \in {None} \union {{e} : e \in Edits} \union {{Todo}}
    /\ past = {} /\ recurred = {} /\ foreign = 0
    /\ step = [w \in Writers |-> "idle"]
    /\ kind = [w \in Writers |-> "create"]
    /\ edit = [w \in Writers |-> None]
    /\ seen = [w \in Writers |-> None] /\ base = [w \in Writers |-> None]
    /\ sent = [w \in Writers |-> NoRequest]
    /\ took = {} /\ noticed = {}
    /\ answer = [w \in Writers |-> "none"]

\* The resource has a new content.
Become(content) ==
    /\ store' = content
    /\ past' = past \union {store}
    /\ recurred' = IF content \in past THEN recurred \union {content} ELSE recurred

Goto(w, s) == step' = [step EXCEPT ![w] = s]

End(w, told) ==
    /\ Goto(w, "done")
    /\ answer' = [answer EXCEPT ![w] = told]

Send(w, match, body) ==
    /\ sent' = [sent EXCEPT ![w] = [match |-> match, body |-> body]]
    /\ base' = [base EXCEPT ![w] = None]
    /\ Goto(w, "wait")

-----------------------------------------------------------------------------
(* Before the request.                                                      *)

\* A user or a native client has read the event and asks for a change of it: a create
\* names no ETag; what names one has seen something.
Ask(w) ==
    /\ step[w] = "idle"
    /\ \E k \in GatewayKinds \union NativeKinds, e \in Edits :
          /\ k \in {"patch", "delete", "put if same", "remove if same"} => store # None
          /\ kind' = [kind EXCEPT ![w] = k]
          /\ edit' = [edit EXCEPT ![w] = e]
          /\ Goto(w, IF k = "create" THEN "write" ELSE "get")
    /\ seen' = [seen EXCEPT ![w] = store]
    /\ UNCHANGED <<resource, base, sent, took, answer, noticed>>

\* RoomCalendarEventOperations.createEvent: PUT with If-None-Match: *.
Create(w) ==
    /\ step[w] = "write" /\ kind[w] = "create"
    /\ Send(w, None, {edit[w]})
    /\ UNCHANGED <<resource, kind, edit, seen, took, answer, noticed>>

\* The GET that precedes every other write.
Read(w) ==
    /\ step[w] = "get"
    /\ base' = [base EXCEPT ![w] = store]
    /\ Goto(w, "write")
    /\ UNCHANGED <<resource, kind, edit, seen, sent, took, answer, noticed>>

ReadFails(w) ==
    /\ step[w] = "get"
    /\ End(w, "failed")
    /\ UNCHANGED <<resource, kind, edit, seen, base, sent, took, noticed>>

-----------------------------------------------------------------------------
(* updateCalendarEventConditionally.                                        *)

\* Mutant: the ETag of the content just read is sent.
PatchWhatWasRead(w) ==
    /\ step[w] = "write" /\ kind[w] = "patch" /\ base[w] # None
    /\ Send(w, base[w], base[w] \union {edit[w]})
    /\ UNCHANGED <<resource, kind, edit, seen, took, answer, noticed>>

\* The patch is applied to what was read, the caller's ETag is kept.
Patch(w) ==
    /\ step[w] = "write" /\ kind[w] = "patch" /\ base[w] # None
    /\ Send(w, seen[w], base[w] \union {edit[w]})
    /\ UNCHANGED <<resource, kind, edit, seen, took, answer, noticed>>

\* A patch of certain fields that changes nothing of what its caller has seen.
PatchNothing(w) ==
    /\ step[w] = "write" /\ kind[w] = "patch"
    /\ base[w] = seen[w] /\ edit[w] \in base[w]
    /\ End(w, "no-op")
    /\ UNCHANGED <<resource, kind, edit, seen, base, sent, took, noticed>>

\* The codec rejects what was read, or its patch; so it does when nothing is there.
RefusePatch(w) ==
    /\ step[w] = "write" /\ kind[w] = "patch"
    /\ End(w, "failed")
    /\ UNCHANGED <<resource, kind, edit, seen, base, sent, took, noticed>>

-----------------------------------------------------------------------------
(* RoomCalendarEventOperations.deleteEvent.                                 *)

Delete(w) ==
    /\ step[w] = "write" /\ kind[w] = "delete"
    /\ base[w] = seen[w] /\ Safe(base[w])
    /\ Send(w, seen[w], None)
    /\ UNCHANGED <<resource, kind, edit, seen, took, answer, noticed>>

RefuseDelete(w) ==
    /\ step[w] = "write" /\ kind[w] = "delete"
    /\ base[w] # seen[w] \/ ~Safe(base[w])
    /\ End(w, IF base[w] # None /\ base[w] # seen[w] THEN "conflict" ELSE "failed")
    /\ UNCHANGED <<resource, kind, edit, seen, base, sent, took, noticed>>

-----------------------------------------------------------------------------
(* PrivateCalendarClientDavGateway.                                         *)

\* evaluateWriteConditions, on what the preflight has read.
Satisfied(w) ==
    /\ kind[w] \in {"put if same", "remove if same"} => base[w] = seen[w]
    /\ kind[w] \in {"put if any", "remove if any"} => base[w] # None
    /\ kind[w] = "put if none" => base[w] = None

\* Mutant: the condition of the client is forwarded, where "any" stands for whatever is
\* there.
ForwardAsAsked(w) ==
    /\ step[w] = "write" /\ kind[w] \in NativeKinds
    /\ base[w] # None => Safe(base[w])
    /\ Satisfied(w)
    /\ kind[w] \in RemoveKinds => base[w] # None
    /\ Send(w, IF kind[w] = "put if any" THEN store ELSE base[w],
               IF kind[w] \in PutKinds
               THEN (IF seen[w] = None THEN {} ELSE seen[w] \ {Todo}) \union {edit[w]}
               ELSE None)
    /\ UNCHANGED <<resource, kind, edit, seen, took, answer, noticed>>

\* The request is pinned to the content, or the absence, that the preflight has read. A
\* native client puts the VEVENTs it has seen with its edit.
Forward(w) ==
    /\ step[w] = "write" /\ kind[w] \in NativeKinds
    /\ base[w] # None => Safe(base[w])
    /\ Satisfied(w)
    /\ kind[w] \in RemoveKinds => base[w] # None
    /\ Send(w, base[w],
               IF kind[w] \in PutKinds
               THEN (IF seen[w] = None THEN {} ELSE seen[w] \ {Todo}) \union {edit[w]}
               ELSE None)
    /\ UNCHANGED <<resource, kind, edit, seen, took, answer, noticed>>

RefuseForward(w) ==
    /\ step[w] = "write" /\ kind[w] \in NativeKinds
    /\ \/ base[w] # None /\ ~Safe(base[w])
       \/ ~Satisfied(w)
       \/ kind[w] \in RemoveKinds /\ base[w] = None
    /\ End(w, IF (base[w] = None \/ Safe(base[w])) /\ ~Satisfied(w)
              THEN "conflict" ELSE "failed")
    /\ UNCHANGED <<resource, kind, edit, seen, base, sent, took, noticed>>

-----------------------------------------------------------------------------
(* Radicale, and what becomes of its answer.                                *)

\* The condition holds, and the sender may still be waiting.
TakeEffect(w) ==
    /\ sent[w] # NoRequest /\ sent[w].match = store
    /\ IF sent[w].body # store THEN Become(sent[w].body)
                               ELSE UNCHANGED <<store, past, recurred>>
    /\ took' = took \union {w}
    /\ sent' = [sent EXCEPT ![w] = NoRequest]
    /\ UNCHANGED <<foreign, step, kind, edit, seen, base, answer, noticed>>

\* 412; a sender that waits learns of it.
Reject(w) ==
    /\ sent[w] # NoRequest /\ sent[w].match # store
    /\ sent' = [sent EXCEPT ![w] = NoRequest]
    /\ IF step[w] = "wait" THEN End(w, "conflict") ELSE UNCHANGED <<step, answer>>
    /\ UNCHANGED <<resource, kind, edit, seen, base, took, noticed>>

\* Mutant: the sender takes every answer for success.
Assume(w) ==
    /\ step[w] = "wait"
    /\ Goto(w, "notice")
    /\ UNCHANGED <<resource, kind, edit, seen, base, sent, took, answer, noticed>>

\* assertWriteSuccess; create and patch read what is there now.
Succeed(w) ==
    /\ step[w] = "wait" /\ w \in took
    /\ Goto(w, IF kind[w] \in {"create", "patch"} THEN "read" ELSE "notice")
    /\ UNCHANGED <<resource, kind, edit, seen, base, sent, took, answer, noticed>>

\* The answer does not come, whether or not the request has taken or will take effect.
GiveUp(w) ==
    /\ step[w] = "wait"
    /\ End(w, "failed")
    /\ UNCHANGED <<resource, kind, edit, seen, base, sent, took, noticed>>

ReadBack(w) ==
    /\ step[w] = "read" /\ store # None
    /\ Goto(w, "notice")
    /\ UNCHANGED <<resource, kind, edit, seen, base, sent, took, answer, noticed>>

\* The event was written, but could not be read, perhaps since it is gone again.
ReadBackFails(w) ==
    /\ step[w] = "read"
    /\ End(w, "failed")
    /\ UNCHANGED <<resource, kind, edit, seen, base, sent, took, noticed>>

\* RoomCalendarEventAuditService.record, whose failures change nothing.
Notice(w) ==
    /\ step[w] = "notice"
    /\ noticed' \in IF kind[w] \in GatewayKinds THEN {noticed, noticed \union {w}}
                                                ELSE {noticed}
    /\ End(w, "written")
    /\ UNCHANGED <<resource, kind, edit, seen, base, sent, took>>

\* Somebody with an access of their own adds to the content, removes it, or restores one
\* it had before.
ForeignWrite ==
    /\ foreign < MaxForeign
    /\ foreign' = foreign + 1
    /\ \E content \in Contents \ {store} :
          /\ content \in past \union {None}
             \/ \E e \in Edits \union {Todo} :
                   content = (IF store = None THEN {} ELSE store) \union {e}
          /\ Become(content)
    /\ UNCHANGED <<step, kind, edit, seen, base, sent, took, answer, noticed>>

Next ==
    \/ \E w \in Writers :
          \/ Ask(w) \/ Create(w) \/ Read(w) \/ ReadFails(w)
          \/ Patch(w) \/ PatchNothing(w) \/ RefusePatch(w)
          \/ Delete(w) \/ RefuseDelete(w) \/ Forward(w) \/ RefuseForward(w)
          \/ TakeEffect(w) \/ Reject(w) \/ Succeed(w) \/ GiveUp(w)
          \/ ReadBack(w) \/ ReadBackFails(w) \/ Notice(w)
    \/ ForeignWrite

Spec == Init /\ [][Next]_vars

-----------------------------------------------------------------------------
(* Properties.                                                              *)

\* No lost update: a write whose author names a content replaces that content and no
\* other, however late it takes effect, and puts the author's edit on top of it.  A patch
\* is applied to a later reading, so the second part has an exception: the resource had
\* another content when the server read it, and the named one came back.
NoLostUpdate ==
    [][\A w \in took' \ took : kind[w] \in Names =>
          LET named == IF kind[w] \in {"create", "put if none"} THEN None ELSE seen[w]
          IN  /\ store = named
              /\ kind[w] = "patch" =>
                    store' = named \union {edit[w]} \/ store \in recurred]_vars

\* No writer but a patch, which keeps it, replaces or removes a resource with a component
\* that the calendar does not understand, also when it appears while the writer is at work
\* (with the exception above).
MixedSurvives ==
    [][\A w \in took' \ took :
          store # None /\ Todo \in store =>
              kind[w] = "patch" /\ (Todo \in store' \/ store \in recurred)]_vars

\* A writer who is told of success, or announced in the room, has written; one who is told
\* of a conflict, or that there is nothing to do, has not, and will not.
AnswersTrue ==
    \A w \in Writers :
        /\ answer[w] = "written" \/ w \in noticed => w \in took
        /\ answer[w] \in {"conflict", "no-op"} => w \notin took /\ sent[w] = NoRequest

=============================================================================
