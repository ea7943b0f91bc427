----------------------- MODULE CalendarEventWriteProofs -----------------------
(***************************************************************************)
(* Proofs about CalendarEventWrite, for any number of writers, edits and   *)
(* writes by others.  The inductive invariant follows a request from the   *)
(* reading it is based on until it takes effect or is refused, however     *)
(* late: what it is to replace has been settled when it is sent.           *)
(***************************************************************************)
EXTENDS CalendarEventWrite, TLAPS

\* The content that a writer names.
Named(w) == IF kind[w] \in {"create", "put if none"} THEN None ELSE seen[w]

\* What the writer has seen was replaced since; if it is there now, it has come back.
Recurs(w) == seen[w] \in past /\ (store = seen[w] => store \in recurred)

\* A writer without a request has written nothing and was told nothing.
Silent(w) ==
    step[w] \in {"idle", "get", "write"} =>
        sent[w] = NoRequest /\ w \notin took /\ w \notin noticed /\ answer[w] = "none"

\* What is true of a request while Radicale may still carry it out.
Sent(w) ==
    sent[w] # NoRequest =>
        /\ w \notin took
        /\ \/ step[w] = "wait" /\ answer[w] = "none"
           \/ step[w] = "done" /\ answer[w] = "failed"

\* What a writer is told.
Told(w) ==
    /\ step[w] \in {"read", "notice"} => w \in took
    /\ answer[w] = "written" \/ w \in noticed => w \in took
    /\ answer[w] \in {"conflict", "no-op"} => w \notin took /\ sent[w] = NoRequest
    /\ step[w] # "done" => answer[w] = "none"

\* What a writer looked at is there, or was.
Looked(w) == step[w] = "get" => seen[w] \in past \union {store}

\* A patch is put on what its author has seen, or that has been replaced.
Based(w) == step[w] = "write" /\ kind[w] = "patch" => base[w] = seen[w] \/ Recurs(w)

\* What a request asks for.
Pinned(w) ==
    sent[w] # NoRequest =>
        /\ kind[w] \in Names => sent[w].match = Named(w)
        /\ kind[w] # "patch" => sent[w].match = None \/ Todo \notin sent[w].match
        /\ kind[w] = "patch" => sent[w].body = seen[w] \union {edit[w]} \/ Recurs(w)

Writer(w) ==
    Silent(w) /\ Sent(w) /\ Told(w) /\ Looked(w) /\ Based(w) /\ Pinned(w)

WriterInv == \A w \in Writers : Writer(w)

\* Whoever has begun wants one of the edits.
Wants == \A w \in Writers : step[w] # "idle" => edit[w] \in Edits

TypeInv == TypeOK /\ Wants

WriteInv == TypeInv /\ WriterInv

-----------------------------------------------------------------------------
(* Frames.                                                                  *)

\* What a step of another leaves alone.
Same(w) ==
    /\ step'[w] = step[w] /\ kind'[w] = kind[w] /\ edit'[w] = edit[w]
    /\ seen'[w] = seen[w] /\ base'[w] = base[w] /\ sent'[w] = sent[w]
    /\ answer'[w] = answer[w]
    /\ (w \in took') = (w \in took) /\ (w \in noticed') = (w \in noticed)

Still == UNCHANGED <<store, past, recurred>>

Moved == Still \/ \E content \in Contents : Become(content)

\* What has come back stays so.
LEMMA RecursStays ==
    ASSUME NEW w \in Writers, Recurs(w), Moved, seen'[w] = seen[w]
    PROVE  Recurs(w)'
BY DEF Recurs, Moved, Still, Become

LEMMA OthersKept ==
    ASSUME NEW w \in Writers, Writer(w), Same(w), Moved
    PROVE  Writer(w)'
<1>1. Silent(w)' BY DEF Writer, Silent, Same
<1>2. Sent(w)' BY DEF Writer, Sent, Same
<1>3. Told(w)' BY DEF Writer, Told, Same
<1>4. Looked(w)' BY DEF Writer, Looked, Same, Moved, Still, Become
<1>5. Recurs(w) => Recurs(w)' BY RecursStays DEF Same
<1>6. Based(w)' BY <1>5 DEF Writer, Based, Same
<1>7. Pinned(w)'
  <2>1. Named(w)' = Named(w) BY DEF Named, Same
  <2> QED BY <1>5, <2>1 DEF Writer, Pinned, Same
<1> QED BY <1>1, <1>2, <1>3, <1>4, <1>6, <1>7 DEF Writer

-----------------------------------------------------------------------------
(* One step of a writer.                                                    *)

\* It is enough to look at the writer itself.
LEMMA OwnStep ==
    ASSUME WriteInv, Moved, NEW v \in Writers, Writer(v)',
           \A w \in Writers : w # v => Same(w)
    PROVE  WriterInv'
<1> SUFFICES ASSUME NEW w \in Writers PROVE Writer(w)'
  BY DEF WriterInv
<1>1. Writer(w)
  BY DEF WriteInv, WriterInv
<1>2. CASE w # v
  BY <1>1, <1>2, OthersKept
<1> QED BY <1>2

\* A writer that ends before it has sent anything.
LEMMA EndKept ==
    ASSUME WriteInv, NEW v \in Writers, step[v] \in {"get", "write"},
           NEW told \in {"failed", "conflict", "no-op"}, End(v, told),
           UNCHANGED <<resource, kind, edit, seen, base, sent, took, noticed>>
    PROVE  WriterInv'
<1>0. Writer(v) /\ TypeOK
  BY DEF WriteInv, TypeInv, WriterInv
<1>1. step'[v] = "done" /\ answer'[v] = told
  BY <1>0 DEF End, Goto, TypeOK
<1>2. sent'[v] = NoRequest /\ v \notin took' /\ v \notin noticed'
  BY <1>0 DEF Writer, Silent
<1>3. Writer(v)'
  BY <1>1, <1>2 DEF Writer, Silent, Sent, Told, Looked, Based, Pinned
<1>4. \A w \in Writers : w # v => Same(w)
  BY <1>0 DEF Same, End, Goto, TypeOK
<1> QED BY <1>3, <1>4, OwnStep DEF Moved, Still, resource

\* A writer that sends a request which is pinned to what it may replace.
LEMMA SendKept ==
    ASSUME WriteInv, NEW v \in Writers, step[v] = "write",
           NEW match \in Contents, NEW body \in Contents, Send(v, match, body),
           kind[v] \in Names => match = Named(v),
           kind[v] # "patch" => match = None \/ Todo \notin match,
           kind[v] = "patch" => body = seen[v] \union {edit[v]} \/ Recurs(v),
           UNCHANGED <<resource, kind, edit, seen, took, answer, noticed>>
    PROVE  WriterInv'
<1>0. Writer(v) /\ TypeOK
  BY DEF WriteInv, TypeInv, WriterInv
<1>1. step'[v] = "wait" /\ sent'[v] = [match |-> match, body |-> body]
  BY <1>0 DEF Send, Goto, TypeOK
<1>2. v \notin took' /\ v \notin noticed' /\ answer'[v] = "none"
  BY <1>0 DEF Writer, Silent
<1>3. sent'[v].match = match /\ sent'[v].body = body
  BY <1>1
<1>4. Named(v)' = Named(v) /\ (Recurs(v) => Recurs(v)')
  BY DEF Named, Recurs, resource
<1>5. Pinned(v)'
  BY <1>3, <1>4 DEF Pinned
<1>6. Writer(v)'
  BY <1>1, <1>2, <1>5 DEF Writer, Silent, Sent, Told, Looked, Based
<1>7. \A w \in Writers : w # v => Same(w)
  BY <1>0 DEF Same, Send, Goto, TypeOK
<1> QED BY <1>6, <1>7, OwnStep DEF Moved, Still, resource

LEMMA AskKept ==
    ASSUME WriteInv, NEW v \in Writers, Ask(v)
    PROVE  WriterInv'
<1>0. Writer(v) /\ TypeOK
  BY DEF WriteInv, TypeInv, WriterInv
<1>1. /\ step'[v] = "get" \/ (step'[v] = "write" /\ kind'[v] = "create")
      /\ seen'[v] = store
  <2> PICK k \in GatewayKinds \union NativeKinds :
            /\ kind' = [kind EXCEPT ![v] = k]
            /\ Goto(v, IF k = "create" THEN "write" ELSE "get")
    BY DEF Ask
  <2>1. kind'[v] = k /\ step'[v] = IF k = "create" THEN "write" ELSE "get"
    BY <1>0 DEF Goto, TypeOK
  <2>2. seen'[v] = store
    BY <1>0 DEF Ask, TypeOK
  <2> QED BY <2>1, <2>2
<1>2. sent'[v] = NoRequest /\ v \notin took' /\ v \notin noticed' /\ answer'[v] = "none"
  BY <1>0 DEF Ask, Writer, Silent
<1>3. Writer(v)'
  BY <1>1, <1>2 DEF Writer, Silent, Sent, Told, Looked, Based, Pinned, Ask, resource
<1>4. \A w \in Writers : w # v => Same(w)
  BY <1>0 DEF Same, Ask, Goto, TypeOK
<1> QED BY <1>3, <1>4, OwnStep DEF Moved, Still, Ask, resource

\* The server reads what its caller has seen, unless that was replaced in between.
LEMMA ReadKept ==
    ASSUME WriteInv, NEW v \in Writers, Read(v)
    PROVE  WriterInv'
<1>0. Writer(v) /\ TypeOK
  BY DEF WriteInv, TypeInv, WriterInv
<1>1. step'[v] = "write" /\ base'[v] = store
  BY <1>0 DEF Read, Goto, TypeOK
<1>2. sent'[v] = NoRequest /\ v \notin took' /\ v \notin noticed' /\ answer'[v] = "none"
  BY <1>0 DEF Read, Writer, Silent
<1>3. Based(v)'
  BY <1>0, <1>1 DEF Based, Recurs, Read, Writer, Looked, resource
<1>4. Writer(v)'
  BY <1>1, <1>2, <1>3 DEF Writer, Silent, Sent, Told, Looked, Pinned
<1>5. \A w \in Writers : w # v => Same(w)
  BY <1>0 DEF Same, Read, Goto, TypeOK
<1> QED BY <1>4, <1>5, OwnStep DEF Moved, Still, Read, resource

\* What the requests of the gateway and of native clients are pinned to.
LEMMA RequestsKept ==
    ASSUME WriteInv, NEW v \in Writers,
           Create(v) \/ Patch(v) \/ Delete(v) \/ Forward(v)
    PROVE  WriterInv'
<1>0. Writer(v) /\ TypeOK
  BY DEF WriteInv, TypeInv, WriterInv
<1>1. step[v] = "write" /\ edit[v] \in Edits
  BY DEF WriteInv, TypeInv, Wants, Create, Patch, Delete, Forward
<1>2. CASE Create(v)
  <2>1. None \in Contents /\ {edit[v]} \in Contents
    BY <1>1 DEF Contents
  <2> QED BY <1>1, <1>2, <2>1, SendKept DEF Create, Named
<1>3. CASE Patch(v)
  <2>1. seen[v] \in Contents /\ base[v] \union {edit[v]} \in Contents
    BY <1>0, <1>1, <1>3 DEF TypeOK, Contents, Patch
  <2>2. base[v] = seen[v] \/ Recurs(v)
    BY <1>0, <1>1, <1>3 DEF Writer, Based, Patch
  <2> QED BY <1>1, <1>3, <2>1, <2>2, SendKept DEF Patch, Named
<1>4. CASE Delete(v)
  <2>1. seen[v] \in Contents /\ None \in Contents
    BY <1>0 DEF TypeOK, Contents
  <2>2. Todo \notin seen[v]
    BY <1>4 DEF Delete, Safe
  <2> QED BY <1>1, <1>4, <2>1, <2>2, SendKept DEF Delete, Named
<1>5. CASE Forward(v)
  <2> DEFINE body == IF kind[v] \in PutKinds
                     THEN (IF seen[v] = None THEN {} ELSE seen[v] \ {Todo}) \union {edit[v]}
                     ELSE None
  <2>1. base[v] \in Contents /\ body \in Contents
    BY <1>0, <1>1 DEF TypeOK, Contents
  <2>2. base[v] = None \/ Todo \notin base[v]
    BY <1>5 DEF Forward, Safe
  <2>3. kind[v] # "patch"
    BY <1>5 DEF Forward, NativeKinds, PutKinds, RemoveKinds
  <2>4. kind[v] \in Names => base[v] = Named(v)
    BY <1>5 DEF Forward, NativeKinds, PutKinds, RemoveKinds, Names, Satisfied, Named
  <2>5. Send(v, base[v], body)
    BY <1>5 DEF Forward
  <2> HIDE DEF body
  <2> QED BY <1>1, <1>5, <2>1, <2>2, <2>3, <2>4, <2>5, SendKept DEF Forward
<1> QED BY <1>2, <1>3, <1>4, <1>5

LEMMA EndsKept ==
    ASSUME WriteInv, NEW v \in Writers,
           \/ ReadFails(v) \/ PatchNothing(v) \/ RefusePatch(v)
           \/ RefuseDelete(v) \/ RefuseForward(v)
    PROVE  WriterInv'
<1>1. CASE ReadFails(v)
  BY <1>1, EndKept DEF ReadFails
<1>2. CASE PatchNothing(v)
  BY <1>2, EndKept DEF PatchNothing
<1>3. CASE RefusePatch(v)
  BY <1>3, EndKept DEF RefusePatch
<1>4. CASE RefuseDelete(v)
  BY <1>4, EndKept DEF RefuseDelete
<1>5. CASE RefuseForward(v)
  BY <1>5, EndKept DEF RefuseForward
<1> QED BY <1>1, <1>2, <1>3, <1>4, <1>5

\* A request that takes effect is not carried out again.
LEMMA TakeEffectKept ==
    ASSUME WriteInv, NEW v \in Writers, TakeEffect(v)
    PROVE  WriterInv'
<1>0. Writer(v) /\ TypeOK
  BY DEF WriteInv, TypeInv, WriterInv
<1>1. sent'[v] = NoRequest /\ v \in took'
  BY <1>0 DEF TakeEffect, TypeOK
<1>2. \/ step'[v] = "wait" /\ answer'[v] = "none"
      \/ step'[v] = "done" /\ answer'[v] = "failed"
  BY <1>0 DEF TakeEffect, Writer, Sent
<1>3. Writer(v)'
  BY <1>1, <1>2 DEF Writer, Silent, Sent, Told, Looked, Based, Pinned
<1>4. \A w \in Writers : w # v => Same(w)
  BY <1>0 DEF Same, TakeEffect, TypeOK
<1>5. sent[v] \in Requests
  BY <1>0 DEF TypeOK, TakeEffect
<1>6. Moved
  BY <1>5 DEF Moved, Still, TakeEffect, Requests
<1> QED BY <1>3, <1>4, <1>6, OwnStep

\* A request that is refused has not taken effect and never will.
LEMMA RejectKept ==
    ASSUME WriteInv, NEW v \in Writers, Reject(v)
    PROVE  WriterInv'
<1>0. Writer(v) /\ TypeOK
  BY DEF WriteInv, TypeInv, WriterInv
<1>1. sent'[v] = NoRequest /\ v \notin took' /\ v \notin noticed'
  BY <1>0 DEF Reject, TypeOK, Writer, Sent, Told
<1>2. step'[v] = "done" /\ answer'[v] \in {"conflict", "failed"}
  BY <1>0 DEF Reject, End, Goto, TypeOK, Writer, Sent
<1>3. Writer(v)'
  BY <1>1, <1>2 DEF Writer, Silent, Sent, Told, Looked, Based, Pinned
<1>4. \A w \in Writers : w # v => Same(w)
  BY <1>0 DEF Same, Reject, End, Goto, TypeOK
<1> QED BY <1>3, <1>4, OwnStep DEF Moved, Still, Reject, resource

\* A writer that goes on from its answer.
LEMMA AnswerKept ==
    ASSUME WriteInv, NEW v \in Writers,
           Succeed(v) \/ ReadBack(v) \/ ReadBackFails(v) \/ Notice(v)
    PROVE  WriterInv'
<1>0. Writer(v) /\ TypeOK
  BY DEF WriteInv, TypeInv, WriterInv
<1>1. v \in took /\ sent[v] = NoRequest
  BY <1>0 DEF Writer, Sent, Told, Succeed, ReadBack, ReadBackFails, Notice
<1>2. v \in took' /\ sent'[v] = NoRequest
  BY <1>1 DEF Succeed, ReadBack, ReadBackFails, Notice
<1>3. \/ step'[v] \in {"read", "notice"} /\ answer'[v] = "none"
      \/ step'[v] = "done" /\ answer'[v] \in {"failed", "written"}
  BY <1>0 DEF Writer, Told, Succeed, ReadBack, ReadBackFails, Notice, End, Goto, TypeOK
<1>4. Writer(v)'
  BY <1>2, <1>3 DEF Writer, Silent, Sent, Told, Looked, Based, Pinned
<1>5. \A w \in Writers : w # v => Same(w)
  BY <1>0 DEF Same, Succeed, ReadBack, ReadBackFails, Notice, End, Goto, TypeOK
<1> QED BY <1>4, <1>5, OwnStep
        DEF Moved, Still, resource, Succeed, ReadBack, ReadBackFails, Notice

\* The request of a writer that gives up may still take effect.
LEMMA GiveUpKept ==
    ASSUME WriteInv, NEW v \in Writers, GiveUp(v)
    PROVE  WriterInv'
<1>0. Writer(v) /\ TypeOK
  BY DEF WriteInv, TypeInv, WriterInv
<1>1. step'[v] = "done" /\ answer'[v] = "failed"
  BY <1>0 DEF GiveUp, End, Goto, TypeOK
<1>2. sent'[v] # NoRequest => v \notin took'
  BY <1>0 DEF GiveUp, Writer, Sent
<1>3. v \in noticed' => v \in took'
  BY <1>0 DEF GiveUp, Writer, Told
<1>4. Pinned(v)'
  BY <1>0 DEF Writer, Pinned, Named, Recurs, GiveUp, resource
<1>5. Writer(v)'
  BY <1>1, <1>2, <1>3, <1>4 DEF Writer, Silent, Sent, Told, Looked, Based
<1>6. \A w \in Writers : w # v => Same(w)
  BY <1>0 DEF Same, GiveUp, End, Goto, TypeOK
<1> QED BY <1>5, <1>6, OwnStep DEF Moved, Still, GiveUp, resource

LEMMA ForeignKept ==
    ASSUME WriteInv, ForeignWrite
    PROVE  WriterInv'
<1>1. Moved
  BY DEF Moved, ForeignWrite
<1>2. \A w \in Writers : Same(w)
  BY DEF Same, ForeignWrite
<1> QED BY <1>1, <1>2, OthersKept DEF WriteInv, WriterInv

LEMMA StutterKept ==
    ASSUME WriteInv, UNCHANGED vars
    PROVE  WriterInv'
<1>1. Moved
  BY DEF Moved, Still, vars, resource
<1>2. \A w \in Writers : Same(w)
  BY DEF Same, vars
<1> QED BY <1>1, <1>2, OthersKept DEF WriteInv, WriterInv

LEMMA WriterStep == WriteInv /\ [Next]_vars => WriterInv'
<1> SUFFICES ASSUME WriteInv, [Next]_vars PROVE WriterInv'
  OBVIOUS
<1>1. CASE ForeignWrite
  BY <1>1, ForeignKept
<1>2. CASE UNCHANGED vars
  BY <1>2, StutterKept
<1>3. ASSUME NEW v \in Writers, Ask(v) PROVE WriterInv'
  BY <1>3, AskKept
<1>4. ASSUME NEW v \in Writers, Read(v) PROVE WriterInv'
  BY <1>4, ReadKept
<1>5. ASSUME NEW v \in Writers, Create(v) \/ Patch(v) \/ Delete(v) \/ Forward(v)
      PROVE  WriterInv'
  BY <1>5, RequestsKept
<1>6. ASSUME NEW v \in Writers,
             \/ ReadFails(v) \/ PatchNothing(v) \/ RefusePatch(v)
             \/ RefuseDelete(v) \/ RefuseForward(v)
      PROVE  WriterInv'
  BY <1>6, EndsKept
<1>7. ASSUME NEW v \in Writers, TakeEffect(v) PROVE WriterInv'
  BY <1>7, TakeEffectKept
<1>8. ASSUME NEW v \in Writers, Reject(v) PROVE WriterInv'
  BY <1>8, RejectKept
<1>9. ASSUME NEW v \in Writers,
             Succeed(v) \/ ReadBack(v) \/ ReadBackFails(v) \/ Notice(v)
      PROVE  WriterInv'
  BY <1>9, AnswerKept
<1>10. ASSUME NEW v \in Writers, GiveUp(v) PROVE WriterInv'
  BY <1>10, GiveUpKept
<1> QED BY <1>1, <1>2, <1>3, <1>4, <1>5, <1>6, <1>7, <1>8, <1>9, <1>10 DEF Next

-----------------------------------------------------------------------------
(* Types.                                                                   *)

LEMMA TypesStart == Init => TypeInv
<1> SUFFICES ASSUME Init PROVE TypeInv
  OBVIOUS
<1>1. store \in Contents
  BY DEF Init, Contents
<1>2. None \in Contents
  BY DEF Contents
<1>3. foreign \in 0..MaxForeign
  BY WriteConstantsOk DEF Init
<1>4. /\ edit \in [Writers -> Edits \union {None}]
      /\ seen \in [Writers -> Contents] /\ base \in [Writers -> Contents]
      /\ sent \in [Writers -> Requests \union {NoRequest}]
  BY <1>2 DEF Init
<1>5. TypeOK
  BY <1>1, <1>3, <1>4 DEF TypeOK, Init, Steps, GatewayKinds
<1> QED BY <1>5 DEF TypeInv, Wants, Init

LEMMA BecomeTypes ==
    ASSUME TypeOK, NEW content \in Contents, Become(content)
    PROVE  store' \in Contents /\ past' \subseteq Contents /\ recurred' \subseteq Contents
BY DEF TypeOK, Become

\* A step of one writer changes its own await, and no request's words.
LEMMA WriterTypes ==
    ASSUME TypeInv, NEW v \in Writers,
           NEW s \in Steps \ {"idle"}, Goto(v, s),
           step[v] # "idle",
           UNCHANGED <<resource, kind, edit, seen, took>>,
           base' \in [Writers -> Contents],
           sent' \in [Writers -> Requests \union {NoRequest}],
           noticed' \subseteq Writers,
           answer' \in [Writers -> {"none", "written", "no-op", "conflict", "failed"}]
    PROVE  TypeInv'
<1>1. step' \in [Writers -> Steps]
  BY DEF TypeInv, TypeOK, Goto
<1>2. TypeOK'
  BY <1>1 DEF TypeInv, TypeOK, resource
<1>3. Wants'
  BY DEF TypeInv, TypeOK, Wants, Goto
<1> QED BY <1>2, <1>3 DEF TypeInv

LEMMA TypeStep == TypeInv /\ [Next]_vars => TypeInv'
<1> SUFFICES ASSUME TypeInv, [Next]_vars PROVE TypeInv'
  OBVIOUS
<1>0. TypeOK /\ Wants
  BY DEF TypeInv
<1>n. None \in Contents
  BY DEF Contents
<1>1. CASE ForeignWrite
  <2>1. TypeOK'
    <3>1. foreign' \in 0..MaxForeign
      BY <1>0, <1>1, WriteConstantsOk DEF ForeignWrite, TypeOK
    <3>2. store' \in Contents /\ past' \subseteq Contents /\ recurred' \subseteq Contents
      BY <1>0, <1>1, BecomeTypes DEF ForeignWrite
    <3> QED BY <1>0, <1>1, <3>1, <3>2 DEF ForeignWrite, TypeOK
  <2> QED BY <1>0, <1>1, <2>1 DEF TypeInv, Wants, ForeignWrite
<1>2. CASE UNCHANGED vars
  BY <1>0, <1>2 DEF TypeInv, TypeOK, Wants, vars, resource
<1>3. ASSUME NEW v \in Writers, Ask(v) PROVE TypeInv'
  <2> PICK k \in GatewayKinds \union NativeKinds, e \in Edits :
            /\ kind' = [kind EXCEPT ![v] = k]
            /\ edit' = [edit EXCEPT ![v] = e]
            /\ Goto(v, IF k = "create" THEN "write" ELSE "get")
    BY <1>3 DEF Ask
  <2>1. step' \in [Writers -> Steps] /\ kind' \in [Writers -> GatewayKinds \union NativeKinds]
        /\ edit' \in [Writers -> Edits \union {None}]
    BY <1>0 DEF TypeOK, Goto, Steps
  <2>2. seen' \in [Writers -> Contents]
    BY <1>0, <1>3 DEF TypeOK, Ask
  <2>3. TypeOK'
    BY <1>0, <1>3, <2>1, <2>2 DEF TypeOK, Ask, resource
  <2>4. \A w \in Writers : edit'[w] = IF w = v THEN e ELSE edit[w]
    BY <1>0 DEF TypeOK
  <2>5. \A w \in Writers : w # v => step'[w] = step[w]
    BY <1>0 DEF TypeOK, Goto
  <2> QED BY <1>0, <2>3, <2>4, <2>5 DEF TypeInv, Wants
<1>4. ASSUME NEW v \in Writers, Read(v) PROVE TypeInv'
  <2>1. base' \in [Writers -> Contents]
    BY <1>0, <1>4 DEF Read, TypeOK
  <2> QED BY <1>0, <1>4, <2>1, WriterTypes DEF Read, TypeOK, Steps
<1>5. ASSUME NEW v \in Writers, NEW match \in Contents, NEW body \in Contents,
             step[v] = "write", Send(v, match, body),
             UNCHANGED <<resource, kind, edit, seen, took, answer, noticed>>
      PROVE  TypeInv'
  <2>1. sent' \in [Writers -> Requests \union {NoRequest}]
    BY <1>0, <1>5 DEF Send, TypeOK, Requests
  <2>2. base' \in [Writers -> Contents]
    BY <1>0, <1>5, <1>n DEF Send, TypeOK
  <2> QED BY <1>0, <1>5, <2>1, <2>2, WriterTypes DEF Send, TypeOK, Steps
<1>6. ASSUME NEW v \in Writers, Create(v) PROVE TypeInv'
  <2>1. {edit[v]} \in Contents /\ step[v] = "write"
    BY <1>0, <1>6 DEF Wants, Create, Contents
  <2> QED BY <1>5, <1>6, <1>n, <2>1 DEF Create
<1>7. ASSUME NEW v \in Writers, Patch(v) PROVE TypeInv'
  <2>1. seen[v] \in Contents /\ base[v] \union {edit[v]} \in Contents /\ step[v] = "write"
    BY <1>0, <1>7 DEF TypeOK, Wants, Patch, Contents
  <2> QED BY <1>5, <1>7, <2>1 DEF Patch
<1>8. ASSUME NEW v \in Writers, Delete(v) PROVE TypeInv'
  <2>1. seen[v] \in Contents /\ step[v] = "write"
    BY <1>0, <1>8 DEF TypeOK, Delete
  <2> QED BY <1>5, <1>8, <1>n, <2>1 DEF Delete
<1>9. ASSUME NEW v \in Writers, Forward(v) PROVE TypeInv'
  <2> DEFINE body == IF kind[v] \in PutKinds
                     THEN (IF seen[v] = None THEN {} ELSE seen[v] \ {Todo}) \union {edit[v]}
                     ELSE None
  <2>1. edit[v] \in Edits /\ step[v] = "write"
    BY <1>0, <1>9 DEF Wants, Forward
  <2>2. base[v] \in Contents /\ body \in Contents
    BY <1>0, <2>1 DEF TypeOK, Contents
  <2>3. Send(v, base[v], body)
    BY <1>9 DEF Forward
  <2> HIDE DEF body
  <2> QED BY <1>5, <1>9, <2>1, <2>2, <2>3 DEF Forward
<1>10. ASSUME NEW v \in Writers, NEW told \in {"failed", "conflict", "no-op"}, End(v, told),
              step[v] # "idle",
              UNCHANGED <<resource, kind, edit, seen, base, sent, took, noticed>>
       PROVE  TypeInv'
  <2>1. answer' \in [Writers -> {"none", "written", "no-op", "conflict", "failed"}]
    BY <1>0, <1>10 DEF End, TypeOK
  <2> QED BY <1>0, <1>10, <2>1, WriterTypes DEF End, TypeOK, Steps
<1>11. ASSUME NEW v \in Writers,
              \/ ReadFails(v) \/ PatchNothing(v) \/ RefusePatch(v)
              \/ GiveUp(v) \/ ReadBackFails(v)
       PROVE  TypeInv'
  BY <1>10, <1>11 DEF ReadFails, PatchNothing, RefusePatch, GiveUp, ReadBackFails
<1>12. ASSUME NEW v \in Writers, RefuseDelete(v) \/ RefuseForward(v) PROVE TypeInv'
  BY <1>10, <1>12 DEF RefuseDelete, RefuseForward
<1>13. ASSUME NEW v \in Writers, TakeEffect(v) PROVE TypeInv'
  <2>1. sent[v] \in Requests
    BY <1>0, <1>13 DEF TakeEffect, TypeOK
  <2>2. store' \in Contents /\ past' \subseteq Contents /\ recurred' \subseteq Contents
    BY <1>0, <1>13, <2>1, BecomeTypes DEF TakeEffect, Requests, TypeOK
  <2>3. sent' \in [Writers -> Requests \union {NoRequest}] /\ took' \subseteq Writers
    BY <1>0, <1>13 DEF TakeEffect, TypeOK
  <2>4. TypeOK'
    BY <1>0, <1>13, <2>2, <2>3 DEF TakeEffect, TypeOK
  <2> QED BY <1>0, <1>13, <2>4 DEF TypeInv, Wants, TakeEffect
<1>14. ASSUME NEW v \in Writers, Reject(v) PROVE TypeInv'
  <2>1. sent' \in [Writers -> Requests \union {NoRequest}]
    BY <1>0, <1>14 DEF Reject, TypeOK
  <2>2. CASE step[v] = "wait"
    <3>1. End(v, "conflict")
      BY <1>14, <2>2 DEF Reject
    <3>2. answer' \in [Writers -> {"none", "written", "no-op", "conflict", "failed"}]
      BY <1>0, <3>1 DEF End, TypeOK
    <3> QED BY <1>0, <1>14, <2>1, <2>2, <3>1, <3>2, WriterTypes
            DEF Reject, End, TypeOK, Steps
  <2>3. CASE step[v] # "wait"
    <3>1. TypeOK'
      BY <1>0, <1>14, <2>1, <2>3 DEF Reject, TypeOK, resource
    <3> QED BY <1>0, <1>14, <2>3, <3>1 DEF TypeInv, Wants, Reject
  <2> QED BY <2>2, <2>3
<1>15. ASSUME NEW v \in Writers, Succeed(v) \/ ReadBack(v) PROVE TypeInv'
  <2> PICK s \in {"read", "notice"} : Goto(v, s)
    BY <1>15 DEF Succeed, ReadBack
  <2> QED BY <1>0, <1>15, WriterTypes DEF Succeed, ReadBack, TypeOK, Steps
<1>16. ASSUME NEW v \in Writers, Notice(v) PROVE TypeInv'
  <2>1. answer' \in [Writers -> {"none", "written", "no-op", "conflict", "failed"}]
    BY <1>0, <1>16 DEF Notice, End, TypeOK
  <2>2. noticed' \subseteq Writers
    BY <1>0, <1>16 DEF Notice, TypeOK
  <2> QED BY <1>0, <1>16, <2>1, <2>2, WriterTypes DEF Notice, End, TypeOK, Steps
<1> QED BY <1>1, <1>2, <1>3, <1>4, <1>6, <1>7, <1>8, <1>9, <1>11, <1>12, <1>13, <1>14,
           <1>15, <1>16 DEF Next

-----------------------------------------------------------------------------
(* Theorems.                                                                *)

\* Every reachable state is well formed, for any number of writers and edits.
THEOREM TypeCorrect == Spec => []TypeOK
<1>1. Init => TypeInv
  BY TypesStart
<1>2. TypeInv /\ [Next]_vars => TypeInv'
  BY TypeStep
<1>3. TypeInv => TypeOK
  BY DEF TypeInv
<1> QED BY <1>1, <1>2, <1>3, PTL DEF Spec

\* The request of every writer is pinned to what it may replace, from the moment it is
\* sent until it takes effect, however late.
THEOREM Invariance == Spec => []WriteInv
<1>1. Init => WriteInv
  <2>1. Init => WriterInv
    BY DEF Init, WriterInv, Writer, Silent, Sent, Told, Looked, Based, Pinned
  <2> QED BY <2>1, TypesStart DEF WriteInv
<1>2. WriteInv /\ [Next]_vars => WriteInv'
  <2>1. WriteInv /\ [Next]_vars => TypeInv'
    BY TypeStep DEF WriteInv
  <2> QED BY <2>1, WriterStep DEF WriteInv
<1> QED BY <1>1, <1>2, PTL DEF Spec

\* What a writer is told, and what is announced in the room, is so, also when an answer
\* was lost and when a request is carried out late.
THEOREM AnswersAreTrue == Spec => []AnswersTrue
<1>1. WriteInv => AnswersTrue
  BY DEF WriteInv, WriterInv, Writer, Told, AnswersTrue
<1> QED BY <1>1, Invariance, PTL

\* Only Radicale carries a request out.
LEMMA TookBy ==
    ASSUME TypeOK, [Next]_vars, NEW w \in took' \ took
    PROVE  w \in Writers /\ TakeEffect(w)
<1>1. CASE UNCHANGED vars
  BY <1>1 DEF vars
<1>2. CASE ForeignWrite
  BY <1>2 DEF ForeignWrite
<1>3. ASSUME NEW v \in Writers,
             \/ Ask(v) \/ Create(v) \/ Read(v) \/ ReadFails(v)
             \/ Patch(v) \/ PatchNothing(v) \/ RefusePatch(v)
             \/ Delete(v) \/ RefuseDelete(v) \/ Forward(v) \/ RefuseForward(v)
      PROVE  FALSE
  BY <1>3 DEF Ask, Create, Read, ReadFails, Patch, PatchNothing, RefusePatch,
              Delete, RefuseDelete, Forward, RefuseForward
<1>4. ASSUME NEW v \in Writers,
             \/ Reject(v) \/ Succeed(v) \/ GiveUp(v)
             \/ ReadBack(v) \/ ReadBackFails(v) \/ Notice(v)
      PROVE  FALSE
  BY <1>4 DEF Reject, Succeed, GiveUp, ReadBack, ReadBackFails, Notice
<1>5. ASSUME NEW v \in Writers, TakeEffect(v)
      PROVE  w = v
  BY <1>5 DEF TakeEffect
<1> QED BY <1>1, <1>2, <1>3, <1>4, <1>5 DEF Next

\* What a request does to the resource when it takes effect.
LEMMA EffectOf ==
    ASSUME WriteInv, NEW w \in Writers, TakeEffect(w)
    PROVE  /\ store = sent[w].match /\ store' = sent[w].body
           /\ Pinned(w) /\ sent[w] # NoRequest
BY DEF TakeEffect, Become, WriteInv, WriterInv, Writer

\* No lost update: for any number of writers, whatever they want and however late their
\* requests are carried out, a writer that names a content replaces that content only.
THEOREM NoUpdateIsLost == Spec => NoLostUpdate
<1>1. ASSUME WriteInv, [Next]_vars, NEW w \in took' \ took, kind[w] \in Names
      PROVE  LET named == IF kind[w] \in {"create", "put if none"} THEN None ELSE seen[w]
             IN  /\ store = named
                 /\ kind[w] = "patch" =>
                       store' = named \union {edit[w]} \/ store \in recurred
  <2>1. w \in Writers /\ TakeEffect(w)
    BY <1>1, TookBy DEF WriteInv, TypeInv
  <2>2. store = Named(w)
    BY <1>1, <2>1, EffectOf DEF Pinned
  <2>3. ASSUME kind[w] = "patch"
        PROVE  store' = seen[w] \union {edit[w]} \/ store \in recurred
    <3>1. store' = seen[w] \union {edit[w]} \/ Recurs(w)
      BY <1>1, <2>1, <2>3, EffectOf DEF Pinned
    <3>2. store = seen[w]
      BY <2>2, <2>3 DEF Named
    <3> QED BY <3>1, <3>2 DEF Recurs
  <2> QED BY <2>2, <2>3 DEF Named
<1>2. WriteInv /\ [Next]_vars =>
        [\A w \in took' \ took : kind[w] \in Names =>
          LET named == IF kind[w] \in {"create", "put if none"} THEN None ELSE seen[w]
          IN  /\ store = named
              /\ kind[w] = "patch" =>
                    store' = named \union {edit[w]} \/ store \in recurred]_vars
  BY <1>1
<1> QED BY <1>2, Invariance, PTL DEF Spec, NoLostUpdate

\* No writer but a patch, which keeps it, replaces or removes a resource that has a
\* component which the calendar does not understand; the exception is a patch, made of a
\* reading without it, that meets the named content when it has come back.
THEOREM MixedContentSurvives == Spec => MixedSurvives
<1>1. ASSUME WriteInv, [Next]_vars, NEW w \in took' \ took, store # None, Todo \in store
      PROVE  kind[w] = "patch" /\ (Todo \in store' \/ store \in recurred)
  <2>1. w \in Writers /\ TakeEffect(w)
    BY <1>1, TookBy DEF WriteInv, TypeInv
  <2>2. kind[w] = "patch"
    BY <1>1, <2>1, EffectOf DEF Pinned
  <2>3. store = seen[w]
    BY <1>1, <2>1, <2>2, EffectOf DEF Pinned, Names, Named
  <2>4. store' = seen[w] \union {edit[w]} \/ Recurs(w)
    BY <1>1, <2>1, <2>2, EffectOf DEF Pinned
  <2> QED BY <1>1, <2>2, <2>3, <2>4 DEF Recurs
<1>2. WriteInv /\ [Next]_vars =>
        [\A w \in took' \ took :
          store # None /\ Todo \in store =>
              kind[w] = "patch" /\ (Todo \in store' \/ store \in recurred)]_vars
  BY <1>1
<1> QED BY <1>2, Invariance, PTL DEF Spec, MixedSurvives

=============================================================================
