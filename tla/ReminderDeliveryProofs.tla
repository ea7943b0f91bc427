------------------------ MODULE ReminderDeliveryProofs ------------------------
(***************************************************************************)
(* Theorems about ReminderDelivery, for every set of keys, schedulers,     *)
(* tokens and configurations, every lease and every bound.                 *)
(***************************************************************************)
EXTENDS ReminderDelivery, TLAPS

-----------------------------------------------------------------------------
(* Types.  TypeOK is inductive together with what a scheduler is known to   *)
(* hold at each step.                                                       *)

JobOK ==
    \A w \in Workers :
        /\ pc[w] # "idle" => job[w].listed \in Configuration
        /\ pc[w] \in {"idle", "scan"} => job[w].token = None
        /\ pc[w] \in Busy \union {"claim"} => job[w].key \in Keys /\ job[w].token \in Tokens
        /\ pc[w] \in {"resolve", "confirm", "send", "put"} => job[w].first \in Configuration
        /\ pc[w] \in {"send", "put"} => job[w].final \in Configuration

TypeInv == TypeOK /\ JobOK

\* The types hold at the start.
LEMMA InitTypeInv == Init => TypeInv
  BY ConstantsOk DEF Init, TypeInv, TypeOK, JobOK, NoJob, AbsentRow, Job, RowStates, Busy, Working

\* The parts of a record that a scheduler may be left with.
LEMMA NoJobType ==
  ASSUME NEW x \in Configuration \union {None}
  PROVE  NoJob \in Job /\ [NoJob EXCEPT !.listed = x] \in Job
  BY ConstantsOk DEF NoJob, Job

\* The updates of one field that the actions make.
LEMMA JobUpdates ==
  ASSUME NEW j \in Job
  PROVE  /\ \A k \in Keys, t \in Tokens : [j EXCEPT !.key = k, !.token = t] \in Job
         /\ \A x \in Configuration : [j EXCEPT !.listed = x] \in Job
         /\ \A x \in Configuration : [j EXCEPT !.first = x] \in Job
         /\ \A x \in Configuration : [j EXCEPT !.final = x] \in Job
         /\ \A n \in 0..Lease : [j EXCEPT !.lease = n] \in Job
  BY DEF Job

\* What a manager saves is a configuration.
LEMMA SavedEditType ==
  ASSUME NEW old \in Configuration, NEW t \in Targets, NEW s \in Schedules
  PROVE  SavedEdit(old, t, s) \in Configuration
<1>1. old.revision + 1 \in Nat
  BY DEF Configuration
<1>2. \A n \in Nat :
        [old EXCEPT !.target = t, !.schedule = s, !.revision = n] \in Configuration
  BY DEF Configuration
<1>3. QED BY <1>1, <1>2 DEF SavedEdit

\* Every step keeps the types, those of the schedulers' jobs included.
LEMMA NextTypeInv == TypeInv /\ [Next]_vars => TypeInv'
<1> SUFFICES ASSUME TypeInv, [Next]_vars PROVE TypeInv'
  OBVIOUS
<1> USE ConstantsOk DEF TypeInv, TypeOK
<1>1. ASSUME NEW c \in Confs, NEW t \in Targets, NEW s \in Schedules, Save(c, t, s)
      PROVE  TypeInv'
  <2>1. conf' \in [Confs -> Configuration \union {None}] /\ births' \in Nat
    <3>1. CASE conf[c] = None
      BY <1>1, <3>1 DEF Save, Configuration
    <3>2. CASE conf[c] # None
      <4>1. SavedEdit(conf[c], t, s) \in Configuration
        BY <3>2, SavedEditType
      <4>2. QED BY <1>1, <3>2, <4>1 DEF Save
    <3>3. QED BY <3>1, <3>2
  <2>2. JobOK'
    BY <1>1 DEF Save, JobOK
  <2>3. QED BY <1>1, <2>1, <2>2 DEF Save
<1>2. ASSUME NEW c \in Confs, Remove(c) PROVE TypeInv'
  BY <1>2 DEF Remove, JobOK
<1>3. ASSUME NEW w \in Workers, NEW c \in Confs, ListConfiguration(w, c) PROVE TypeInv'
  BY <1>3 DEF ListConfiguration, JobOK, Job, Busy, Working
<1>4. ASSUME NEW w \in Workers, NEW k \in Keys, ClaimDue(w, k) PROVE TypeInv'
  <2>1. PICK t \in Tokens :
          /\ stmts' = stmts \union {[op |-> "claim", key |-> k, token |-> t]}
          /\ job' = [job EXCEPT ![w].key = k, ![w].token = t]
    BY <1>4 DEF ClaimDue
  <2>2. [op |-> "claim", key |-> k, token |-> t] \in Statement
    BY DEF Statement, Ops
  <2>3. job' \in [Workers -> Job]
    BY <2>1, JobUpdates
  <2>4. JobOK'
    BY <1>4, <2>1 DEF ClaimDue, JobOK, Job, Busy, Working
  <2>5. QED BY <1>4, <2>1, <2>2, <2>3, <2>4 DEF ClaimDue
<1>5. ASSUME NEW w \in Workers, EndScan(w) PROVE TypeInv'
  BY <1>5, NoJobType DEF EndScan, JobOK, NoJob, Busy, Working
<1>6. ASSUME NEW w \in Workers, NEW op \in {"sent", "skipped", "release"},
             pc[w] \in Busy, IssueStatement(w, op), UNCHANGED <<row, puts, timeline, job>>,
             conf' = conf, births' = births
      PROVE  TypeInv'
  <2>1. [op |-> op, key |-> job[w].key, token |-> job[w].token] \in Statement
    BY <1>6 DEF Statement, Ops, JobOK
  <2>2. JobOK'
    BY <1>6 DEF IssueStatement, JobOK, Busy, Working
  <2>3. QED BY <1>6, <2>1, <2>2 DEF IssueStatement, Busy, Working
<1>7. ASSUME NEW w \in Workers, ReadConfiguration(w) PROVE TypeInv'
  <2>1. CASE IssueStatement(w, "release") /\ UNCHANGED job
    BY <1>6, <1>7, <2>1 DEF ReadConfiguration, Busy, Working
  <2>2. CASE /\ SameRevision(CurrentConfiguration(w), job[w].listed)
             /\ job' = [job EXCEPT ![w].first = CurrentConfiguration(w)]
             /\ pc' = [pc EXCEPT ![w] = "resolve"]
             /\ UNCHANGED stmts
    <3>1. CurrentConfiguration(w) \in Configuration
      BY <1>7, <2>2 DEF CurrentConfiguration, SameRevision, JobOK, ReadConfiguration, Busy, Working
    <3>2. JobOK'
      BY <1>7, <2>2, <3>1 DEF ReadConfiguration, JobOK, Job, Busy, Working
    <3>3. QED BY <1>7, <2>2, <3>1, <3>2, JobUpdates DEF ReadConfiguration, Busy, Working
  <2>3. QED BY <1>7, <2>1, <2>2 DEF ReadConfiguration
<1>8. ASSUME NEW w \in Workers, Resolve(w) PROVE TypeInv'
  BY <1>8 DEF Resolve, JobOK, Busy, Working
<1>9. ASSUME NEW w \in Workers, Confirm(w) PROVE TypeInv'
  <2>1. CASE IssueStatement(w, "release") /\ UNCHANGED job
    BY <1>6, <1>9, <2>1 DEF Confirm, Busy, Working
  <2>2. CASE /\ SameRevision(CurrentConfiguration(w), job[w].first)
             /\ job' = [job EXCEPT ![w].final = CurrentConfiguration(w)]
             /\ pc' = [pc EXCEPT ![w] = "send"]
             /\ UNCHANGED stmts
    <3>1. CurrentConfiguration(w) \in Configuration
      BY <1>9, <2>2 DEF CurrentConfiguration, SameRevision, JobOK, Confirm, Busy, Working
    <3>2. JobOK'
      BY <1>9, <2>2, <3>1 DEF Confirm, JobOK, Job, Busy, Working
    <3>3. QED BY <1>9, <2>2, <3>1, <3>2, JobUpdates DEF Confirm, Busy, Working
  <2>3. QED BY <1>9, <2>1, <2>2 DEF Confirm
<1>10. ASSUME NEW w \in Workers, Send(w) PROVE TypeInv'
  <2>1. [message |-> ComposedMessage(w), token |-> job[w].token] \in Put
    BY <1>10 DEF Send, ComposedMessage, Put, Message, JobOK, Busy, Working
  <2>2. JobOK'
    BY <1>10 DEF Send, JobOK, Busy, Working
  <2>3. QED BY <1>10, <2>1, <2>2 DEF Send, Busy, Working
<1>11. ASSUME NEW w \in Workers, NoCurrentRecipients(w) PROVE TypeInv'
  BY <1>6, <1>11 DEF NoCurrentRecipients, Busy, Working
<1>12. ASSUME NEW w \in Workers, GiveUp(w) PROVE TypeInv'
  BY <1>6, <1>12 DEF GiveUp
<1>13. ASSUME NEW w \in Workers, BackToScan(w), pc[w] # "idle",
              conf' = conf, births' = births,
              row' \in [Keys -> [state : RowStates, token : Tokens \union {None}, lease : 0..Lease]],
              stmts' \subseteq stmts, UNCHANGED <<puts, timeline>>
       PROVE  TypeInv'
  <2>1. job[w].listed \in Configuration
    BY <1>13 DEF JobOK
  <2>2. JobOK'
    BY <1>13, <2>1 DEF BackToScan, JobOK, NoJob, Busy, Working
  <2>3. QED BY <1>13, <2>1, <2>2, NoJobType DEF BackToScan
<1>14. ASSUME NEW w \in Workers, Abandon(w) PROVE TypeInv'
  BY <1>13, <1>14 DEF Abandon
<1>15. ASSUME NEW w \in Workers, Crash(w) PROVE TypeInv'
  BY <1>15, NoJobType DEF Crash, JobOK, NoJob, Busy, Working
<1>16. ASSUME NEW s \in stmts, ClaimGranted(s) PROVE TypeInv'
  <2>1. row' \in [Keys -> [state : RowStates, token : Tokens \union {None}, lease : 0..Lease]]
    BY <1>16 DEF ClaimGranted, Statement, RowStates
  <2>2. CASE UNCHANGED <<pc, job>>
    BY <1>16, <2>1, <2>2 DEF ClaimGranted, JobOK
  <2>3. ASSUME NEW w \in Workers, Awaits(w, s),
               pc' = [pc EXCEPT ![w] = "config"], job' = [job EXCEPT ![w].lease = Lease]
        PROVE  TypeInv'
    <3>1. pc[w] = "claim"
      BY <1>16, <2>3 DEF ClaimGranted, Awaits
    <3>2. JobOK'
      BY <2>3, <3>1 DEF JobOK, Job, Busy, Working
    <3>3. job' \in [Workers -> Job]
      <4>1. Lease \in 0..Lease
        OBVIOUS
      <4>2. [job[w] EXCEPT !.lease = Lease] \in Job
        BY <4>1, JobUpdates
      <4>3. QED BY <2>3, <4>2
    <3>4. QED BY <1>16, <2>1, <2>3, <3>2, <3>3 DEF ClaimGranted, Busy, Working
  <2>4. QED BY <1>16, <2>2, <2>3 DEF ClaimGranted
<1>17. ASSUME NEW s \in stmts, ClaimRefused(s) PROVE TypeInv'
  <2>1. CASE UNCHANGED <<pc, job>>
    BY <1>17, <2>1 DEF ClaimRefused, JobOK
  <2>2. CASE \E w \in Workers : Awaits(w, s) /\ BackToScan(w)
    BY <1>13, <1>17, <2>2 DEF ClaimRefused, Awaits
  <2>3. QED BY <1>17, <2>1, <2>2 DEF ClaimRefused
<1>18. ASSUME NEW s \in stmts, Finish(s) PROVE TypeInv'
  <2>1. row' \in [Keys -> [state : RowStates, token : Tokens \union {None}, lease : 0..Lease]]
    BY <1>18 DEF Finish, Statement, RowStates, OutcomeOf, Ops
  <2>2. CASE UNCHANGED <<pc, job>>
    BY <1>18, <2>1, <2>2 DEF Finish, JobOK
  <2>3. CASE \E w \in Workers : Awaits(w, s) /\ BackToScan(w)
    <3>1. PICK w \in Workers : Awaits(w, s) /\ BackToScan(w)
      BY <2>3
    <3>2. pc[w] # "idle"
      BY <3>1 DEF Awaits, Statement, Ops
    <3>3. QED BY <1>13, <1>18, <2>1, <3>1, <3>2 DEF Finish
  <2>4. QED BY <1>18, <2>2, <2>3 DEF Finish
<1>19. ASSUME NEW s \in stmts, LoseStatement(s) PROVE TypeInv'
  BY <1>19 DEF LoseStatement, JobOK
<1>20. ASSUME NEW p \in puts, AcceptPut(p) PROVE TypeInv'
  <2>1. puts' \subseteq Put /\ timeline' \subseteq Message
    BY <1>20 DEF AcceptPut, Put
  <2>2. CASE UNCHANGED <<stmts, pc>>
    BY <1>20, <2>1, <2>2 DEF AcceptPut, JobOK
  <2>3. ASSUME NEW w \in Workers, pc[w] = "put", IssueStatement(w, "sent")
        PROVE  TypeInv'
    <3>1. [op |-> "sent", key |-> job[w].key, token |-> job[w].token] \in Statement
      BY <2>3 DEF Statement, Ops, JobOK, Busy, Working
    <3>2. JobOK'
      BY <1>20, <2>3 DEF AcceptPut, IssueStatement, JobOK, Busy, Working
    <3>3. QED BY <1>20, <2>1, <2>3, <3>1, <3>2 DEF AcceptPut, IssueStatement, Busy, Working
  <2>4. QED BY <1>20, <2>2, <2>3 DEF AcceptPut
<1>21. ASSUME NEW p \in puts, LosePut(p) PROVE TypeInv'
  BY <1>21 DEF LosePut, JobOK
<1>22. CASE Tick
  <2>1. \A x \in 0..Lease : Earlier(x) \in 0..Lease
    BY DEF Earlier
  <2>2. row' \in [Keys -> [state : RowStates, token : Tokens \union {None}, lease : 0..Lease]]
    BY <1>22, <2>1 DEF Tick
  <2>3. job' \in [Workers -> Job]
    <3>1. \A w \in Workers : job[w].lease \in 0..Lease
      BY DEF Job
    <3>2. QED BY <1>22, <2>1, <3>1, JobUpdates DEF Tick
  <2>4. JobOK'
    <3>1. \A w \in Workers : /\ job'[w].key = job[w].key
                            /\ job'[w].token = job[w].token
                            /\ job'[w].listed = job[w].listed
                            /\ job'[w].first = job[w].first
                            /\ job'[w].final = job[w].final
      BY <1>22 DEF Tick, Job
    <3>2. QED BY <1>22, <3>1 DEF Tick, JobOK
  <2>5. QED BY <1>22, <2>2, <2>3, <2>4 DEF Tick
<1>23. CASE UNCHANGED vars
  BY <1>23 DEF vars, JobOK
<1>24. QED
  BY <1>1, <1>2, <1>3, <1>4, <1>5, <1>7, <1>8, <1>9, <1>10, <1>11, <1>12, <1>14, <1>15,
     <1>16, <1>17, <1>18, <1>19, <1>20, <1>21, <1>22, <1>23
     DEF Next, Manager, Scheduler, Database, Homeserver

\* The types hold throughout.
LEMMA TypeInvariant == Spec => []TypeInv
  BY InitTypeInv, NextTypeInv, PTL DEF Spec

\* Every variable keeps its type: no step leaves a scheduler, a statement or a
\* row of the claim table with a value the code has no meaning for.
THEOREM TypeCorrect == Spec => []TypeOK
  BY TypeInvariant, PTL DEF TypeInv

-----------------------------------------------------------------------------
(* Claim tokens.                                                            *)

\* A claim token belongs to one scheduler.  While that scheduler works on the
\* claim no statement under the token is left, and statements and PUTs under
\* the token are about the firing of the claim.
OneOwner ==
    \A v, w \in Workers : v # w /\ job[v].token = job[w].token => job[v].token = None

StatementsOfOwner ==
    \A s \in stmts, w \in Workers : s.token = job[w].token =>
        /\ s.key = job[w].key
        /\ pc[w] \notin Working
        /\ pc[w] = "claim" => s.op = "claim"

PutsOfOwner ==
    \A p \in puts, w \in Workers : p.token = job[w].token => p.message.key = job[w].key

TokenInv == OneOwner /\ StatementsOfOwner /\ PutsOfOwner

\* Nobody holds a token at the start.
LEMMA InitTokenInv == Init => TokenInv
  BY DEF Init, TokenInv, OneOwner, StatementsOfOwner, PutsOfOwner, NoJob

\* A scheduler that goes on with its claim and issues no statement.
LEMMA QuietStepTokenInv ==
  ASSUME TypeInv, TokenInv, TypeInv', stmts' \subseteq stmts, puts' \subseteq puts,
         NEW w \in Workers,
         \A v \in Workers : v # w => job'[v] = job[v] /\ pc'[v] = pc[v],
         \/ job'[w].token = None
         \/ /\ job'[w].token = job[w].token /\ job'[w].key = job[w].key
            /\ pc'[w] # "claim"
            /\ pc'[w] \in Working => pc[w] \in Working
  PROVE  TokenInv'
<1> USE ConstantsOk DEF TypeInv, TypeOK, TokenInv
<1>1. OneOwner'
  BY DEF OneOwner
<1>2. \A s \in stmts' : s.token # None
  BY DEF Statement
<1>3. \A p \in puts' : p.token # None
  BY DEF Put
<1>4. StatementsOfOwner'
  BY <1>2 DEF StatementsOfOwner
<1>5. PutsOfOwner'
  BY <1>3 DEF PutsOfOwner
<1>6. QED BY <1>1, <1>4, <1>5

\* A scheduler that records an outcome or releases its claim.
LEMMA IssueTokenInv ==
  ASSUME TypeInv, TokenInv, puts' \subseteq puts, job' = job,
         NEW w \in Workers, NEW op \in {"sent", "skipped", "release"},
         pc[w] \in Busy, IssueStatement(w, op)
  PROVE  TokenInv'
<1> USE ConstantsOk DEF TypeInv, TypeOK, TokenInv
<1>1. OneOwner' /\ PutsOfOwner'
  BY DEF OneOwner, PutsOfOwner
<1>2. job[w].token \in Tokens /\ job[w].token # None
  BY DEF JobOK
<1>3. StatementsOfOwner'
  BY <1>2 DEF StatementsOfOwner, OneOwner, IssueStatement, Working
<1>4. QED BY <1>1, <1>3


\* Every step keeps tokens with the scheduler that was granted them.
LEMMA NextTokenInv == TypeInv /\ TypeInv' /\ TokenInv /\ [Next]_vars => TokenInv'
<1> SUFFICES ASSUME TypeInv, TypeInv', TokenInv, [Next]_vars PROVE TokenInv'
  OBVIOUS
<1> USE ConstantsOk
<1>1. ASSUME UNCHANGED <<stmts, puts, pc, job>> PROVE TokenInv'
  BY <1>1 DEF TokenInv, OneOwner, StatementsOfOwner, PutsOfOwner
<1>2. ASSUME NEW w \in Workers, NEW c \in Confs, ListConfiguration(w, c) PROVE TokenInv'
  BY <1>2, QuietStepTokenInv DEF ListConfiguration, TypeInv, TypeOK, JobOK
<1>3. ASSUME NEW w \in Workers, NEW k \in Keys, ClaimDue(w, k) PROVE TokenInv'
  <2>1. PICK t \in Tokens :
          /\ Fresh(t)
          /\ stmts' = stmts \union {[op |-> "claim", key |-> k, token |-> t]}
          /\ job' = [job EXCEPT ![w].key = k, ![w].token = t]
    BY <1>3 DEF ClaimDue
  <2>2. /\ job'[w].key = k /\ job'[w].token = t /\ pc'[w] = "claim"
        /\ \A v \in Workers : v # w => job'[v] = job[v] /\ pc'[v] = pc[v]
    BY <1>3, <2>1 DEF ClaimDue, TypeInv, TypeOK, Job
  <2>3. /\ \A v \in Workers : job[v].token # t
        /\ \A s \in stmts : s.token # t
        /\ \A p \in puts : p.token # t
    BY <2>1 DEF Fresh
  <2>4. \A s \in stmts' : s \in stmts \/ (s.op = "claim" /\ s.key = k /\ s.token = t)
    BY <2>1
  <2>5. puts' = puts
    BY <1>3 DEF ClaimDue
  <2>6. OneOwner'
    BY <2>2, <2>3 DEF TokenInv, OneOwner
  <2>7. StatementsOfOwner'
    <3> SUFFICES ASSUME NEW s \in stmts', NEW v \in Workers, s.token = job'[v].token
                 PROVE  /\ s.key = job'[v].key /\ pc'[v] \notin Working
                        /\ pc'[v] = "claim" => s.op = "claim"
      BY DEF StatementsOfOwner
    <3>1. CASE v = w
      BY <3>1, <2>2, <2>3, <2>4 DEF Working
    <3>2. CASE v # w
      BY <3>2, <2>2, <2>3, <2>4 DEF TokenInv, StatementsOfOwner
    <3>3. QED BY <3>1, <3>2
  <2>8. PutsOfOwner'
    BY <2>2, <2>3, <2>5 DEF TokenInv, PutsOfOwner
  <2>9. QED BY <2>6, <2>7, <2>8 DEF TokenInv
<1>4. ASSUME NEW w \in Workers, EndScan(w) PROVE TokenInv'
  BY <1>4, QuietStepTokenInv DEF EndScan, NoJob, TypeInv, TypeOK
<1>5. ASSUME NEW w \in Workers, ReadConfiguration(w) PROVE TokenInv'
  <2>1. CASE IssueStatement(w, "release") /\ UNCHANGED job
    BY <1>5, <2>1, IssueTokenInv DEF ReadConfiguration, Busy, Working
  <2>2. CASE /\ job' = [job EXCEPT ![w].first = CurrentConfiguration(w)]
             /\ pc' = [pc EXCEPT ![w] = "resolve"]
             /\ UNCHANGED stmts
    BY <1>5, <2>2, QuietStepTokenInv DEF ReadConfiguration, TypeInv, TypeOK, Job, Working
  <2>3. QED BY <1>5, <2>1, <2>2 DEF ReadConfiguration
<1>6. ASSUME NEW w \in Workers, Resolve(w) PROVE TokenInv'
  BY <1>6, QuietStepTokenInv DEF Resolve, TypeInv, TypeOK, Working
<1>7. ASSUME NEW w \in Workers, Confirm(w) PROVE TokenInv'
  <2>1. CASE IssueStatement(w, "release") /\ UNCHANGED job
    BY <1>7, <2>1, IssueTokenInv DEF Confirm, Busy, Working
  <2>2. CASE /\ job' = [job EXCEPT ![w].final = CurrentConfiguration(w)]
             /\ pc' = [pc EXCEPT ![w] = "send"]
             /\ UNCHANGED stmts
    BY <1>7, <2>2, QuietStepTokenInv DEF Confirm, TypeInv, TypeOK, Job, Working
  <2>3. QED BY <1>7, <2>1, <2>2 DEF Confirm
<1>8. ASSUME NEW w \in Workers, Send(w) PROVE TokenInv'
  <2>1. OneOwner' /\ StatementsOfOwner'
    BY <1>8 DEF Send, TokenInv, OneOwner, StatementsOfOwner, TypeInv, TypeOK, Working
  <2>2. job[w].token # None
    BY <1>8 DEF Send, TypeInv, JobOK, Busy, Working
  <2>3. PutsOfOwner'
    BY <1>8, <2>2 DEF Send, ComposedMessage, TokenInv, OneOwner, PutsOfOwner
  <2>4. QED BY <2>1, <2>3 DEF TokenInv
<1>9. ASSUME NEW w \in Workers, NoCurrentRecipients(w) PROVE TokenInv'
  BY <1>9, IssueTokenInv DEF NoCurrentRecipients, Busy, Working
<1>10. ASSUME NEW w \in Workers, GiveUp(w) PROVE TokenInv'
  BY <1>10, IssueTokenInv DEF GiveUp
<1>11. ASSUME NEW w \in Workers, BackToScan(w), stmts' \subseteq stmts, puts' \subseteq puts
       PROVE  TokenInv'
  BY <1>11, QuietStepTokenInv DEF BackToScan, NoJob, TypeInv, TypeOK
<1>12. ASSUME NEW w \in Workers, Abandon(w) PROVE TokenInv'
  BY <1>11, <1>12 DEF Abandon
<1>13. ASSUME NEW w \in Workers, Crash(w) PROVE TokenInv'
  BY <1>13, QuietStepTokenInv DEF Crash, NoJob, TypeInv, TypeOK
<1>14. ASSUME stmts' \subseteq stmts, puts' \subseteq puts, UNCHANGED <<pc, job>>
       PROVE  TokenInv'
  BY <1>14 DEF TokenInv, OneOwner, StatementsOfOwner, PutsOfOwner
<1>15. ASSUME NEW s \in stmts, ClaimGranted(s) PROVE TokenInv'
  <2>1. CASE UNCHANGED <<pc, job>>
    BY <1>14, <1>15, <2>1 DEF ClaimGranted
  <2>2. ASSUME NEW w \in Workers, Awaits(w, s),
               pc' = [pc EXCEPT ![w] = "config"], job' = [job EXCEPT ![w].lease = Lease]
        PROVE  TokenInv'
    <3>1. /\ job'[w].key = job[w].key /\ job'[w].token = job[w].token
          /\ \A v \in Workers : v # w => job'[v] = job[v] /\ pc'[v] = pc[v]
      BY <2>2 DEF TypeInv, TypeOK, Job
    <3>2. OneOwner' /\ PutsOfOwner'
      BY <1>15, <3>1 DEF ClaimGranted, TokenInv, OneOwner, PutsOfOwner
    \* The statement just executed was the only one under the token.
    <3>3. ASSUME NEW r \in stmts, r.token = job[w].token PROVE r = s
      <4>1. r \in Statement /\ s \in Statement
        BY DEF TypeInv, TypeOK
      <4>2. /\ r.op = "claim" /\ r.key = job[w].key
            /\ s.op = "claim" /\ s.key = job[w].key /\ s.token = job[w].token
        BY <1>15, <2>2, <3>3 DEF ClaimGranted, Awaits, TokenInv, StatementsOfOwner
      <4>3. r.op = s.op /\ r.key = s.key /\ r.token = s.token
        BY <3>3, <4>2
      <4>4. QED BY <4>1, <4>3 DEF Statement
    <3>4. StatementsOfOwner'
      BY <1>15, <3>1, <3>3 DEF ClaimGranted, TokenInv, StatementsOfOwner
    <3>5. QED BY <3>2, <3>4 DEF TokenInv
  <2>3. QED BY <1>15, <2>1, <2>2 DEF ClaimGranted
<1>16. ASSUME NEW s \in stmts, ClaimRefused(s) \/ Finish(s) PROVE TokenInv'
  BY <1>11, <1>14, <1>16 DEF ClaimRefused, Finish
<1>17. ASSUME NEW s \in stmts, LoseStatement(s) PROVE TokenInv'
  BY <1>14, <1>17 DEF LoseStatement
<1>18. ASSUME NEW p \in puts, AcceptPut(p) PROVE TokenInv'
  <2>1. CASE UNCHANGED <<stmts, pc>>
    BY <1>14, <1>18, <2>1 DEF AcceptPut
  <2>2. ASSUME NEW w \in Workers, pc[w] = "put", IssueStatement(w, "sent") PROVE TokenInv'
    BY <1>18, <2>2, IssueTokenInv DEF AcceptPut, Busy, Working
  <2>3. QED BY <1>18, <2>1, <2>2 DEF AcceptPut
<1>19. ASSUME NEW p \in puts, LosePut(p) PROVE TokenInv'
  BY <1>14, <1>19 DEF LosePut
<1>20. CASE Tick
  <2>1. \A w \in Workers : job'[w].key = job[w].key /\ job'[w].token = job[w].token
    BY <1>20 DEF Tick, TypeInv, TypeOK, Job
  <2>2. stmts' = stmts /\ puts' = puts /\ pc' = pc
    BY <1>20 DEF Tick
  <2>3. OneOwner'
    BY <2>1 DEF TokenInv, OneOwner
  <2>4. StatementsOfOwner'
    BY <2>1, <2>2 DEF TokenInv, StatementsOfOwner
  <2>5. PutsOfOwner'
    BY <2>1, <2>2 DEF TokenInv, PutsOfOwner
  <2>6. QED BY <2>3, <2>4, <2>5 DEF TokenInv
<1>21. QED
  BY <1>1, <1>2, <1>3, <1>4, <1>5, <1>6, <1>7, <1>8, <1>9, <1>10, <1>12, <1>13,
     <1>15, <1>16, <1>17, <1>18, <1>19, <1>20
     DEF Next, Manager, Save, Remove, Scheduler, Database, Homeserver, vars

\* A claim token belongs to one scheduler throughout.
LEMMA TokenInvariant == Spec => []TokenInv
  BY TypeInvariant, InitTokenInv, NextTokenInv, PTL DEF Spec

-----------------------------------------------------------------------------
(* Claims are exclusive.                                                    *)

\* What a scheduler believes of its lease is what the row says, until the
\* lease has run out.
HoldsRow(w) ==
    /\ row[job[w].key].state = "claimed"
    /\ row[job[w].key].token = job[w].token
    /\ row[job[w].key].lease = job[w].lease

HoldInv == \A w \in Workers : pc[w] \in Working /\ job[w].lease > 0 => HoldsRow(w)

\* Nobody works on a claim at the start.
LEMMA InitHoldInv == Init => HoldInv
  BY DEF Init, HoldInv, Working

\* Two unexpired claims of one row would have one token.
LEMMA HoldInvExclusive == TypeInv /\ TokenInv /\ HoldInv => ExclusiveClaim
<1> SUFFICES ASSUME TypeInv, TokenInv, HoldInv, NEW v \in Workers, NEW w \in Workers,
                    v # w, pc[v] \in Working, pc[w] \in Working, job[v].key = job[w].key,
                    job[v].lease # 0, job[w].lease # 0
             PROVE  FALSE
  BY DEF ExclusiveClaim
<1>1. job[v].lease > 0 /\ job[w].lease > 0
  BY ConstantsOk DEF TypeInv, TypeOK, Job
<1>2. job[v].token = job[w].token
  BY <1>1 DEF HoldInv, HoldsRow
<1>3. job[v].token # None
  BY ConstantsOk DEF TypeInv, JobOK, Busy
<1>4. QED BY <1>2, <1>3 DEF TokenInv, OneOwner

\* A step that leaves the table alone and makes nobody start on a claim.
LEMMA QuietStepHoldInv ==
  ASSUME TypeInv, HoldInv, row' = row,
         \A v \in Workers : pc'[v] \in Working =>
            /\ pc[v] \in Working
            /\ job'[v].key = job[v].key
            /\ job'[v].token = job[v].token
            /\ job'[v].lease = job[v].lease
  PROVE  HoldInv'
  BY DEF HoldInv, HoldsRow

\* Every step keeps an unexpired claim in the row it was granted for.
LEMMA NextHoldInv == TypeInv /\ TypeInv' /\ TokenInv /\ HoldInv /\ [Next]_vars => HoldInv'
<1> SUFFICES ASSUME TypeInv, TypeInv', TokenInv, HoldInv, [Next]_vars PROVE HoldInv'
  OBVIOUS
<1> USE ConstantsOk
<1>1. ASSUME UNCHANGED <<row, pc, job>> PROVE HoldInv'
  BY <1>1 DEF HoldInv, HoldsRow
<1>2. ASSUME NEW w \in Workers, row' = row,
             \A v \in Workers : v # w => job'[v] = job[v] /\ pc'[v] = pc[v],
             pc'[w] \notin Working
      PROVE  HoldInv'
  BY <1>2, QuietStepHoldInv
<1>3. ASSUME NEW w \in Workers, NEW op \in {"sent", "skipped", "release"}, row' = row,
             job' = job, IssueStatement(w, op)
      PROVE  HoldInv'
  BY <1>2, <1>3 DEF IssueStatement, Working, TypeInv, TypeOK
<1>4. ASSUME NEW w \in Workers, NEW c \in Confs, ListConfiguration(w, c) PROVE HoldInv'
  BY <1>2, <1>4 DEF ListConfiguration, TypeInv, TypeOK, Working
<1>5. ASSUME NEW w \in Workers, NEW k \in Keys, ClaimDue(w, k) PROVE HoldInv'
  BY <1>2, <1>5 DEF ClaimDue, TypeInv, TypeOK, Working
<1>6. ASSUME NEW w \in Workers, EndScan(w) PROVE HoldInv'
  BY <1>2, <1>6 DEF EndScan, TypeInv, TypeOK, Working
<1>7. ASSUME NEW w \in Workers, ReadConfiguration(w) PROVE HoldInv'
  <2>1. CASE /\ job' = [job EXCEPT ![w].first = CurrentConfiguration(w)]
             /\ pc' = [pc EXCEPT ![w] = "resolve"]
    BY <1>7, <2>1, QuietStepHoldInv DEF ReadConfiguration, TypeInv, TypeOK, Job, Working
  <2>2. QED BY <1>3, <1>7, <2>1 DEF ReadConfiguration
<1>8. ASSUME NEW w \in Workers, Resolve(w) PROVE HoldInv'
  BY <1>8, QuietStepHoldInv DEF Resolve, TypeInv, TypeOK, Working
<1>9. ASSUME NEW w \in Workers, Confirm(w) PROVE HoldInv'
  <2>1. CASE /\ job' = [job EXCEPT ![w].final = CurrentConfiguration(w)]
             /\ pc' = [pc EXCEPT ![w] = "send"]
    BY <1>9, <2>1, QuietStepHoldInv DEF Confirm, TypeInv, TypeOK, Job, Working
  <2>2. QED BY <1>3, <1>9, <2>1 DEF Confirm
<1>10. ASSUME NEW w \in Workers, Send(w) PROVE HoldInv'
  BY <1>10, QuietStepHoldInv DEF Send, TypeInv, TypeOK, Working
<1>11. ASSUME NEW w \in Workers, NoCurrentRecipients(w) \/ GiveUp(w) PROVE HoldInv'
  BY <1>3, <1>11 DEF NoCurrentRecipients, GiveUp
<1>12. ASSUME NEW w \in Workers, Abandon(w) \/ Crash(w) PROVE HoldInv'
  BY <1>2, <1>12 DEF Abandon, BackToScan, Crash, TypeInv, TypeOK, Working
<1>13. ASSUME NEW s \in stmts, ClaimGranted(s) PROVE HoldInv'
  <2>1. s.key \in Keys /\ s.op = "claim"
    BY <1>13 DEF ClaimGranted, TypeInv, TypeOK, Statement
  <2>2. \A k \in Keys : k # s.key => row'[k] = row[k]
    BY <1>13, <2>1 DEF ClaimGranted, TypeInv, TypeOK
  <2>3. row'[s.key] = [state |-> "claimed", token |-> s.token, lease |-> Lease]
    BY <1>13, <2>1 DEF ClaimGranted, TypeInv, TypeOK
  \* Nobody else can be holding what was free or expired.
  <2>4. ASSUME NEW v \in Workers, pc'[v] = pc[v], job'[v] = job[v],
               pc'[v] \in Working, job'[v].lease > 0
        PROVE  HoldsRow(v)'
    <3>1. HoldsRow(v)
      BY <2>4 DEF HoldInv
    <3>2. job[v].key \in Keys
      BY <2>4 DEF TypeInv, JobOK, Busy
    <3>3. job[v].key # s.key
      BY <1>13, <2>4, <3>1 DEF ClaimGranted, Granted, HoldsRow
    <3>4. QED BY <2>2, <2>4, <3>1, <3>2, <3>3 DEF HoldsRow
  <2>5. CASE UNCHANGED <<pc, job>>
    BY <2>4, <2>5 DEF HoldInv
  <2>6. ASSUME NEW w \in Workers, Awaits(w, s),
               pc' = [pc EXCEPT ![w] = "config"], job' = [job EXCEPT ![w].lease = Lease]
        PROVE  HoldInv'
    <3>1. /\ job'[w].key = job[w].key /\ job'[w].token = s.token /\ job'[w].lease = Lease
          /\ \A v \in Workers : v # w => job'[v] = job[v] /\ pc'[v] = pc[v]
      BY <2>6 DEF Awaits, TypeInv, TypeOK, Job
    <3>2. job[w].key = s.key
      BY <2>6 DEF Awaits, TokenInv, StatementsOfOwner
    <3>3. HoldsRow(w)'
      BY <2>3, <3>1, <3>2 DEF HoldsRow
    <3>4. QED BY <2>4, <3>1, <3>3 DEF HoldInv
  <2>7. QED BY <1>13, <2>5, <2>6 DEF ClaimGranted
<1>14. ASSUME NEW s \in stmts, ClaimRefused(s) PROVE HoldInv'
  BY <1>1, <1>2, <1>14 DEF ClaimRefused, BackToScan, TypeInv, TypeOK, Working
<1>15. ASSUME NEW s \in stmts, Finish(s) PROVE HoldInv'
  <2>1. \A v \in Workers : pc'[v] \in Working => pc[v] = pc'[v] /\ job[v] = job'[v]
    BY <1>15 DEF Finish, BackToScan, TypeInv, TypeOK, Working
  \* The statement of one claim does not finish another.
  <2>2. ASSUME NEW v \in Workers, pc'[v] \in Working, job'[v].lease > 0
        PROVE  HoldsRow(v)'
    <3>1. HoldsRow(v) /\ pc[v] \in Working /\ job[v] = job'[v]
      BY <2>1, <2>2 DEF HoldInv
    <3>2. job[v].key \in Keys
      BY <3>1 DEF TypeInv, JobOK, Busy
    <3>3. s.token # job[v].token
      BY <3>1 DEF TokenInv, StatementsOfOwner
    <3>4. row'[job[v].key] = row[job[v].key]
      BY <1>15, <3>1, <3>2, <3>3 DEF Finish, HoldsClaim, HoldsRow, TypeInv, TypeOK
    <3>5. QED BY <3>1, <3>4 DEF HoldsRow
  <2>3. QED BY <2>2 DEF HoldInv
<1>16. ASSUME NEW s \in stmts, LoseStatement(s) PROVE HoldInv'
  BY <1>1, <1>16 DEF LoseStatement
<1>17. ASSUME NEW p \in puts, AcceptPut(p) PROVE HoldInv'
  BY <1>1, <1>3, <1>17 DEF AcceptPut
<1>18. ASSUME NEW p \in puts, LosePut(p) PROVE HoldInv'
  BY <1>1, <1>18 DEF LosePut
<1>19. CASE Tick
  <2> SUFFICES ASSUME NEW v \in Workers, pc'[v] \in Working, job'[v].lease > 0
               PROVE  HoldsRow(v)'
    BY DEF HoldInv
  <2>1. pc[v] \in Working /\ job[v].key \in Keys
    BY <1>19 DEF Tick, TypeInv, JobOK, Busy
  <2>2. /\ job'[v].key = job[v].key /\ job'[v].token = job[v].token
        /\ job'[v].lease = Earlier(job[v].lease)
    BY <1>19 DEF Tick, TypeInv, TypeOK, Job
  <2>3. /\ row'[job[v].key].state = row[job[v].key].state
        /\ row'[job[v].key].token = row[job[v].key].token
        /\ row'[job[v].key].lease = Earlier(row[job[v].key].lease)
    BY <1>19, <2>1 DEF Tick, TypeInv, TypeOK
  <2>4. job[v].lease > 0
    BY <2>2 DEF Earlier, TypeInv, TypeOK, Job
  <2>5. QED BY <2>1, <2>2, <2>3, <2>4 DEF HoldInv, HoldsRow
<1>20. QED
  BY <1>1, <1>4, <1>5, <1>6, <1>7, <1>8, <1>9, <1>10, <1>11, <1>12, <1>13,
     <1>14, <1>15, <1>16, <1>17, <1>18, <1>19
     DEF Next, Manager, Save, Remove, Scheduler, Database, Homeserver, vars

\* A scheduler under an unexpired lease finds its claim in the row.
LEMMA HoldInvariant == Spec => []HoldInv
  BY TypeInvariant, TokenInvariant, InitHoldInv, NextHoldInv, PTL DEF Spec

\* Two schedulers never both work on a firing under leases that have not
\* expired: late statements of earlier attempts cannot take a claim away or
\* grant it twice.
THEOREM ClaimsAreExclusive == Spec => []ExclusiveClaim
  BY TypeInvariant, TokenInvariant, HoldInvariant, HoldInvExclusive, PTL

-----------------------------------------------------------------------------
(* What the room sees.                                                      *)

\* Only the homeserver adds to the timeline, one message under a new
\* transaction id at a time.
LEMMA TimelineStep ==
  ASSUME [Next]_vars
  PROVE  \/ timeline' = timeline
         \/ \E p \in puts : /\ AcceptPut(p)
                            /\ \A m \in timeline : m.key # p.message.key
                            /\ timeline' = timeline \union {p.message}
<1>1. ASSUME NEW p \in puts, AcceptPut(p), timeline' # timeline
      PROVE  \A m \in timeline : m.key # p.message.key
  BY <1>1 DEF AcceptPut, TxnId
<1>2. ASSUME NEW p \in puts, AcceptPut(p), timeline' # timeline
      PROVE  timeline' = timeline \union {p.message}
  BY <1>2 DEF AcceptPut
<1>3. CASE \E p \in puts : AcceptPut(p)
  BY <1>1, <1>2, <1>3
<1>4. ASSUME NEW w \in Workers, Scheduler(w) PROVE timeline' = timeline
  BY <1>4 DEF Scheduler, ListConfiguration, ClaimDue, EndScan, ReadConfiguration,
     Resolve, Confirm, Send, NoCurrentRecipients, GiveUp, Abandon, Crash
<1>5. CASE Database
  BY <1>5 DEF Database, ClaimGranted, ClaimRefused, Finish, LoseStatement
<1>6. CASE Manager \/ Tick \/ UNCHANGED vars
  BY <1>6 DEF Manager, Save, Remove, Tick, vars
<1>7. QED BY <1>3, <1>4, <1>5, <1>6 DEF Next, Homeserver, LosePut

\* The room sees at most one message for a firing, over any number of
\* schedulers, retries, late PUTs and edits of the configuration.
THEOREM OneNotification == Spec => []AtMostOneNotification
<1>1. Init => AtMostOneNotification
  BY DEF Init, AtMostOneNotification
<1>2. AtMostOneNotification /\ [Next]_vars => AtMostOneNotification'
  BY TimelineStep DEF AtMostOneNotification
<1>3. QED BY <1>1, <1>2, PTL DEF Spec

\* A statement that will set 'sent' follows a message in the room.
SentInv ==
    /\ SentImpliesNotified
    /\ \A s \in stmts : s.op = "sent" => \E m \in timeline : m.key = s.key

\* Only an accepted PUT makes a scheduler issue markDeliverySent.
LEMMA SentStatement ==
  ASSUME TypeInv, TokenInv, [Next]_vars, NEW s \in stmts', s \notin stmts, s.op = "sent"
  PROVE  \E m \in timeline' : m.key = s.key
<1>1. ASSUME NEW p \in puts, AcceptPut(p) PROVE \E m \in timeline' : m.key = s.key
  <2>1. PICK w \in Workers : /\ pc[w] = "put" /\ job[w].token = p.token
                             /\ IssueStatement(w, "sent")
    BY <1>1 DEF AcceptPut
  <2>2. s.key = job[w].key
    BY <2>1 DEF IssueStatement
  <2>3. p.message.key = job[w].key
    BY <2>1 DEF TokenInv, PutsOfOwner
  <2>4. \E m \in timeline' : TxnId(m) = TxnId(p.message)
    BY <1>1 DEF AcceptPut
  <2>5. QED BY <2>2, <2>3, <2>4 DEF TxnId
<1>2. ASSUME NEW w \in Workers, Scheduler(w) PROVE FALSE
  <2>1. ASSUME stmts' = stmts PROVE FALSE
    BY <2>1
  <2>2. ASSUME NEW op \in {"skipped", "release"}, IssueStatement(w, op) PROVE FALSE
    BY <2>2 DEF IssueStatement
  <2>3. ASSUME NEW k \in Keys, ClaimDue(w, k) PROVE FALSE
    BY <2>3 DEF ClaimDue
  <2>4. ASSUME ReadConfiguration(w) \/ Confirm(w) \/ NoCurrentRecipients(w) \/ GiveUp(w)
        PROVE  FALSE
    BY <2>1, <2>2, <2>4 DEF ReadConfiguration, Confirm, NoCurrentRecipients, GiveUp
  <2>5. QED
    BY <1>2, <2>1, <2>3, <2>4
       DEF Scheduler, ListConfiguration, EndScan, Resolve, Send, Abandon, Crash
<1>3. ASSUME Database PROVE FALSE
  BY <1>3 DEF Database, ClaimGranted, ClaimRefused, Finish, LoseStatement
<1>4. ASSUME Manager \/ Tick \/ UNCHANGED vars PROVE FALSE
  BY <1>4 DEF Manager, Save, Remove, Tick, vars
<1>5. QED BY <1>1, <1>2, <1>3, <1>4 DEF Next, Homeserver, LosePut

\* How a step may change the state of a row: a claim replaces no outcome, and
\* an outcome is written by a statement of the claim that holds the row.
LEMMA RowStep ==
  ASSUME TypeInv, [Next]_vars, NEW k \in Keys
  PROVE  \/ row'[k].state = row[k].state
         \/ row[k].state \in {"absent", "pending", "claimed"} /\ row'[k].state = "claimed"
         \/ \E s \in stmts : /\ s.key = k /\ s.op # "claim"
                             /\ row[k].state = "claimed"
                             /\ row' = [row EXCEPT ![k] =
                                  [state |-> OutcomeOf(s.op), token |-> None, lease |-> 0]]
<1> USE DEF TypeInv, TypeOK
<1>1. ASSUME NEW s \in stmts, ClaimGranted(s)
      PROVE  \/ row'[k].state = row[k].state
             \/ row[k].state \in {"absent", "pending", "claimed"} /\ row'[k].state = "claimed"
  BY <1>1 DEF ClaimGranted, Granted
<1>2. ASSUME NEW s \in stmts, Finish(s)
      PROVE  \/ row'[k].state = row[k].state
             \/ /\ s.key = k /\ s.op # "claim"
                /\ row[k].state = "claimed"
                /\ row' = [row EXCEPT ![k] =
                     [state |-> OutcomeOf(s.op), token |-> None, lease |-> 0]]
  BY <1>2 DEF Finish, HoldsClaim
<1>3. CASE Tick
  BY <1>3 DEF Tick
<1>4. CASE row' = row
  BY <1>4
<1>5. ASSUME NEW w \in Workers, Scheduler(w) PROVE row' = row
  BY <1>5 DEF Scheduler, ListConfiguration, ClaimDue, EndScan, ReadConfiguration,
     Resolve, Confirm, Send, NoCurrentRecipients, GiveUp, Abandon, Crash
<1>6. ASSUME Manager \/ Homeserver \/ UNCHANGED vars PROVE row' = row
  BY <1>6 DEF Manager, Save, Remove, Homeserver, AcceptPut, LosePut, vars
<1>7. QED
  BY <1>1, <1>2, <1>3, <1>4, <1>5, <1>6 DEF Next, Database, ClaimRefused, LoseStatement

\* The room never loses a message.
LEMMA TimelineGrows == [Next]_vars => timeline \subseteq timeline'
  BY TimelineStep

\* Every step keeps 'sent' and what is recorded as sent true.
LEMMA NextSentInv == TypeInv /\ TokenInv /\ SentInv /\ [Next]_vars => SentInv'
<1> SUFFICES ASSUME TypeInv, TokenInv, SentInv, [Next]_vars PROVE SentInv'
  OBVIOUS
<1>1. ASSUME NEW s \in stmts', s.op = "sent" PROVE \E m \in timeline' : m.key = s.key
  BY <1>1, SentStatement, TimelineGrows DEF SentInv
<1>2. ASSUME NEW k \in Keys, row'[k].state = "sent" PROVE \E m \in timeline' : m.key = k
  <2>1. CASE row[k].state = "sent"
    BY <2>1, TimelineGrows DEF SentInv, SentImpliesNotified
  <2>2. CASE row[k].state # "sent"
    <3>1. PICK s \in stmts : /\ s.key = k
                             /\ row' = [row EXCEPT ![k] =
                                  [state |-> OutcomeOf(s.op), token |-> None, lease |-> 0]]
      BY <1>2, <2>2, RowStep
    <3>2. OutcomeOf(s.op) = "sent"
      BY <1>2, <3>1 DEF TypeInv, TypeOK
    <3>3. s.op = "sent"
      BY <3>2 DEF OutcomeOf
    <3>4. QED BY <3>1, <3>3, TimelineGrows DEF SentInv
  <2>3. QED BY <2>1, <2>2
<1>3. QED BY <1>1, <1>2 DEF SentInv, SentImpliesNotified

\* What is recorded as sent is in the room, throughout.
LEMMA SentInvariant == Spec => []SentInv
<1>1. Init => SentInv
  BY DEF Init, SentInv, SentImpliesNotified, AbsentRow
<1>2. QED BY <1>1, NextSentInv, TypeInvariant, TokenInvariant, PTL DEF Spec

\* A row says 'sent' only if the room has the message.
THEOREM SentIsTrue == Spec => []SentImpliesNotified
  BY SentInvariant, PTL DEF SentInv

-----------------------------------------------------------------------------
(* Refinement: the delivery implements ReminderNotification.                *)

outcomes == [k \in Keys |-> Outcome(k)]

\* The initial states are those of the abstract notifier.
LEMMA InitRefines == Init => Notification!NInit
  BY DEF Init, Notification!NInit, Outcome, Terminal, AbsentRow

\* Every step is one of the abstract notifier, or a stutter.
LEMMA StepRefines ==
  TypeInv /\ TypeInv' /\ TokenInv /\ SentInv /\ [Next]_vars
    => [Notification!NNext]_<<timeline, outcomes>>
<1> SUFFICES ASSUME TypeInv, TypeInv', TokenInv, SentInv, [Next]_vars
             PROVE  Notification!NNext \/ UNCHANGED <<timeline, outcomes>>
  OBVIOUS
<1>1. ASSUME NEW p \in puts, AcceptPut(p), timeline' # timeline
      PROVE  Notification!NNext
  <2>1. /\ \A m \in timeline : m.key # p.message.key
        /\ timeline' = timeline \union {p.message}
    BY <1>1 DEF AcceptPut, TxnId
  <2>2. p.message \in timeline' \ timeline
    BY <1>1, <2>1
  <2>3. outcomes' = outcomes
    BY <1>1 DEF AcceptPut, outcomes, Outcome
  <2>4. Notification!Post
    BY <2>1, <2>2, <2>3 DEF Notification!Post, outcomes
  <2>5. QED BY <2>4 DEF Notification!NNext
<1>2. CASE /\ timeline' = timeline
           /\ \A k \in Keys : row'[k].state = row[k].state \/
                 (row[k].state \notin Terminal /\ row'[k].state \notin Terminal)
  BY <1>2 DEF outcomes, Outcome
<1>3. ASSUME NEW k \in Keys, NEW s \in stmts, timeline' = timeline,
             s.key = k, s.op # "claim", row[k].state = "claimed",
             row' = [row EXCEPT ![k] =
                       [state |-> OutcomeOf(s.op), token |-> None, lease |-> 0]]
      PROVE  Notification!NNext \/ UNCHANGED <<timeline, outcomes>>
  <2>1. s.op \in {"sent", "skipped", "release"}
    BY <1>3 DEF TypeInv, TypeOK, Statement, Ops
  <2>2. /\ row'[k].state = OutcomeOf(s.op)
        /\ \A j \in Keys : j # k => row'[j] = row[j]
    BY <1>3 DEF TypeInv, TypeOK
  <2>3. CASE s.op = "release"
    BY <1>3, <2>2, <2>3, <1>2 DEF OutcomeOf, Terminal
  <2>4. CASE s.op \in {"sent", "skipped"}
    <3>1. outcomes' = [outcomes EXCEPT ![k] = s.op] /\ outcomes[k] = "open"
      BY <1>3, <2>2, <2>4 DEF outcomes, Outcome, OutcomeOf, Terminal
    <3>2. CASE s.op = "sent"
      <4>1. \E m \in timeline : m.key = k
        BY <1>3, <3>2 DEF SentInv
      <4>2. Notification!SettleSent(k)
        BY <1>3, <3>1, <3>2, <4>1 DEF Notification!SettleSent, outcomes
      <4>3. QED BY <4>2 DEF Notification!NNext
    <3>3. CASE s.op = "skipped"
      <4>1. Notification!SettleSkipped(k)
        BY <1>3, <3>1, <3>3 DEF Notification!SettleSkipped, outcomes
      <4>2. QED BY <4>1 DEF Notification!NNext
    <3>4. QED BY <2>4, <3>2, <3>3
  <2>5. QED BY <2>1, <2>3, <2>4
<1>4. ASSUME timeline' = timeline
      PROVE  Notification!NNext \/ UNCHANGED <<timeline, outcomes>>
  <2>1. CASE \A k \in Keys : row'[k].state = row[k].state \/
                 (row[k].state \notin Terminal /\ row'[k].state \notin Terminal)
    BY <1>2, <1>4, <2>1
  <2>2. ASSUME NEW k \in Keys, row'[k].state # row[k].state,
               row[k].state \in Terminal \/ row'[k].state \in Terminal
        PROVE  Notification!NNext \/ UNCHANGED <<timeline, outcomes>>
    <3>1. ~ (/\ row[k].state \in {"absent", "pending", "claimed"}
             /\ row'[k].state = "claimed")
      BY <2>2 DEF Terminal
    <3>2. QED BY <1>3, <1>4, <2>2, <3>1, RowStep
  <2>3. QED BY <2>1, <2>2
<1>5. QED BY <1>1, <1>4, TimelineStep

\* The detailed delivery implements the abstract one: its rows, leases, late
\* statements and retries only ever look like posting and settling once.
THEOREM DeliveryRefines == Spec => ImplementsNotification
<1>1. Init /\ [][Next]_vars /\ []TypeInv /\ []TokenInv /\ []SentInv
        => Notification!NInit /\ [][Notification!NNext]_<<timeline, outcomes>>
  BY InitRefines, StepRefines, PTL
<1>2. QED
  BY <1>1, TypeInvariant, TokenInvariant, SentInvariant, PTL
     DEF Spec, ImplementsNotification, Notification!NSpec, outcomes

-----------------------------------------------------------------------------
(* Revisions fence edits.                                                   *)

\* The configuration x was read before y is in the table: if they are the
\* same creation then y is not older, and one revision is one record.
Precedes(x, y) ==
    y # None /\ x.born = y.born =>
        x.revision <= y.revision /\ (x.revision = y.revision => x = y)

BornEarlier == \A c \in Confs : conf[c] # None => conf[c].born < births

ReadEarlier ==
    \A w \in Workers : pc[w] \in {"resolve", "confirm"} =>
        job[w].first.born < births /\ Precedes(job[w].first, CurrentConfiguration(w))

ReadAlike ==
    \A w \in Workers : pc[w] \in {"send", "put"} =>
        (job[w].first.born = job[w].final.born => job[w].first = job[w].final)

FenceInv == BornEarlier /\ ReadEarlier /\ ReadAlike /\ RevisionFencesEdits

\* No configuration has been read at the start.
LEMMA InitFenceInv == Init => FenceInv
  BY DEF Init, FenceInv, BornEarlier, ReadEarlier, ReadAlike, RevisionFencesEdits

\* A step that leaves the table, the PUTs and what schedulers have read alone.
LEMMA QuietStepFenceInv ==
  ASSUME FenceInv, conf' = conf, births' = births, puts' \subseteq puts, timeline' = timeline,
         \A v \in Workers :
            /\ \/ pc'[v] \notin {"resolve", "confirm", "send", "put"}
               \/ pc[v] \in {"resolve", "confirm"} /\ pc'[v] \in {"resolve", "confirm"}
               \/ pc[v] \in {"send", "put"} /\ pc'[v] \in {"send", "put"}
            /\ \/ pc'[v] \notin {"resolve", "confirm", "send", "put"}
               \/ /\ job'[v].key = job[v].key
                  /\ job'[v].first = job[v].first
                  /\ job'[v].final = job[v].final
  PROVE  FenceInv'
<1>1. BornEarlier'
  BY DEF FenceInv, BornEarlier
<1>2. ReadEarlier'
  BY DEF FenceInv, ReadEarlier, CurrentConfiguration
<1>3. ReadAlike'
  BY DEF FenceInv, ReadAlike
<1>4. RevisionFencesEdits'
  BY DEF FenceInv, RevisionFencesEdits
<1>5. QED BY <1>1, <1>2, <1>3, <1>4 DEF FenceInv

\* An edit moves the revision whenever it changes the record.
LEMMA EditFollows ==
  ASSUME NEW x \in Configuration, NEW y \in Configuration,
         NEW t \in Targets, NEW s \in Schedules, Precedes(x, y)
  PROVE  /\ Precedes(x, SavedEdit(y, t, s))
         /\ SavedEdit(y, t, s).born = y.born
         /\ SavedEdit(y, t, s) # None
<1>1. CASE SavedEdit(y, t, s) = y
  BY <1>1, ConstantsOk
<1>2. CASE SavedEdit(y, t, s) # y
  <2>1. /\ SavedEdit(y, t, s).revision = y.revision + 1
        /\ SavedEdit(y, t, s).born = y.born
    BY <1>2 DEF SavedEdit, Configuration
  <2>2. x.revision \in Nat /\ y.revision \in Nat
    BY DEF Configuration
  <2>3. SavedEdit(y, t, s) # None /\ y # None
    BY ConstantsOk, SavedEditType
  <2>4. QED BY <2>1, <2>2, <2>3 DEF Precedes
<1>3. QED BY <1>1, <1>2

\* Saving a configuration gives it a revision no earlier read has seen.
LEMMA SaveFenceInv ==
  ASSUME TypeInv, FenceInv, NEW c \in Confs, NEW t \in Targets, NEW s \in Schedules,
         Save(c, t, s)
  PROVE  FenceInv'
<1> USE ConstantsOk DEF TypeInv, TypeOK
<1>1. ReadAlike' /\ RevisionFencesEdits'
  BY DEF Save, FenceInv, ReadAlike, RevisionFencesEdits
<1>2. births \in Nat /\ births' \in Nat /\ births <= births'
  BY DEF Save
<1>3. \A d \in Confs : conf[d] # None => conf[d] \in Configuration /\ conf[d].born \in Nat
  BY DEF Configuration
<1>4. CASE conf[c] = None
  <2>1. /\ conf'[c].born = births /\ births' = births + 1
        /\ \A d \in Confs : d # c => conf'[d] = conf[d]
    BY <1>4 DEF Save
  <2>2. BornEarlier'
    BY <1>2, <1>3, <2>1 DEF FenceInv, BornEarlier
  <2>3. ReadEarlier'
    <3> SUFFICES ASSUME NEW w \in Workers, pc[w] \in {"resolve", "confirm"}
                 PROVE  /\ job[w].first.born < births'
                        /\ Precedes(job[w].first, CurrentConfiguration(w)')
      BY DEF Save, ReadEarlier
    <3>1. /\ job[w].first \in Configuration /\ job[w].first.born \in Nat
          /\ job[w].key \in Keys
      BY DEF JobOK, Busy, Working, Configuration
    <3>2. /\ job[w].first.born < births
          /\ Precedes(job[w].first, CurrentConfiguration(w))
      BY DEF FenceInv, ReadEarlier
    <3>3. job[w].first.born < births'
      BY <3>1, <3>2, <1>2
    <3>4. CASE ConfOf[job[w].key] = c
      <4>1. CurrentConfiguration(w)'.born = births
        BY <2>1, <3>4 DEF CurrentConfiguration, Save
      <4>2. QED BY <3>1, <3>2, <3>3, <4>1, <1>2 DEF Precedes
    <3>5. CASE ConfOf[job[w].key] # c
      BY <2>1, <3>1, <3>2, <3>3, <3>5 DEF CurrentConfiguration, Save
    <3>6. QED BY <3>4, <3>5
  <2>4. QED BY <1>1, <2>2, <2>3 DEF FenceInv
<1>5. CASE conf[c] # None
  <2>1. /\ conf'[c] = SavedEdit(conf[c], t, s) /\ births' = births
        /\ \A d \in Confs : d # c => conf'[d] = conf[d]
    BY <1>5 DEF Save
  <2>2. conf[c] \in Configuration
    BY <1>5
  <2>3. SavedEdit(conf[c], t, s).born = conf[c].born
    BY <2>2, EditFollows DEF Precedes, Configuration
  <2>4. BornEarlier'
    BY <1>5, <2>1, <2>3 DEF FenceInv, BornEarlier
  <2>5. ReadEarlier'
    <3> SUFFICES ASSUME NEW w \in Workers, pc[w] \in {"resolve", "confirm"}
                 PROVE  /\ job[w].first.born < births
                        /\ Precedes(job[w].first, CurrentConfiguration(w)')
      BY <2>1 DEF Save, ReadEarlier
    <3>1. job[w].first \in Configuration /\ job[w].key \in Keys
      BY DEF JobOK, Busy, Working
    <3>2. /\ job[w].first.born < births
          /\ Precedes(job[w].first, CurrentConfiguration(w))
      BY DEF FenceInv, ReadEarlier
    <3>3. CASE ConfOf[job[w].key] = c
      <4>1. Precedes(job[w].first, SavedEdit(conf[c], t, s))
        BY <2>2, <3>1, <3>2, <3>3, EditFollows DEF CurrentConfiguration
      <4>2. QED BY <2>1, <3>2, <3>3, <4>1 DEF CurrentConfiguration, Save
    <3>4. CASE ConfOf[job[w].key] # c
      BY <2>1, <3>1, <3>2, <3>4 DEF CurrentConfiguration, Save
    <3>5. QED BY <3>3, <3>4
  <2>6. QED BY <1>1, <2>4, <2>5 DEF FenceInv
<1>6. QED BY <1>4, <1>5

\* Every step keeps reads of one revision alike.
LEMMA NextFenceInv == TypeInv /\ TypeInv' /\ FenceInv /\ [Next]_vars => FenceInv'
<1> SUFFICES ASSUME TypeInv, TypeInv', FenceInv, [Next]_vars PROVE FenceInv'
  OBVIOUS
<1> USE ConstantsOk
<1>1. ASSUME UNCHANGED <<conf, births, puts, timeline>>, NEW w \in Workers,
             \A v \in Workers : v # w => job'[v] = job[v] /\ pc'[v] = pc[v],
             pc'[w] \notin {"resolve", "confirm", "send", "put"}
      PROVE  FenceInv'
  <2>1. \A v \in Workers : v = w \/ (job'[v] = job[v] /\ pc'[v] = pc[v])
    BY <1>1
  <2>2. QED BY <1>1, <2>1, QuietStepFenceInv DEF TypeInv, TypeOK
<1>2. ASSUME NEW w \in Workers, NEW op \in {"sent", "skipped", "release"},
             UNCHANGED <<conf, births, puts, timeline, job>>, IssueStatement(w, op)
      PROVE  FenceInv'
  BY <1>1, <1>2 DEF IssueStatement, TypeInv, TypeOK
<1>3. ASSUME NEW w \in Workers, NEW c \in Confs, ListConfiguration(w, c) PROVE FenceInv'
  BY <1>1, <1>3 DEF ListConfiguration, TypeInv, TypeOK
<1>4. ASSUME NEW w \in Workers, NEW k \in Keys, ClaimDue(w, k) PROVE FenceInv'
  BY <1>1, <1>4 DEF ClaimDue, TypeInv, TypeOK
<1>5. ASSUME NEW w \in Workers, EndScan(w) \/ Abandon(w) \/ Crash(w) PROVE FenceInv'
  BY <1>1, <1>5 DEF EndScan, Abandon, BackToScan, Crash, TypeInv, TypeOK
<1>6. ASSUME NEW w \in Workers, NoCurrentRecipients(w) \/ GiveUp(w) PROVE FenceInv'
  BY <1>2, <1>6 DEF NoCurrentRecipients, GiveUp
<1>7. ASSUME NEW w \in Workers, ReadConfiguration(w) PROVE FenceInv'
  <2>1. CASE IssueStatement(w, "release") /\ UNCHANGED job
    BY <1>2, <1>7, <2>1 DEF ReadConfiguration
  <2>2. CASE /\ SameRevision(CurrentConfiguration(w), job[w].listed)
             /\ job' = [job EXCEPT ![w].first = CurrentConfiguration(w)]
             /\ pc' = [pc EXCEPT ![w] = "resolve"]
    <3>1. /\ job'[w].first = CurrentConfiguration(w) /\ job'[w].key = job[w].key
          /\ pc'[w] = "resolve" /\ job[w].key \in Keys
          /\ \A v \in Workers : v # w => job'[v] = job[v] /\ pc'[v] = pc[v]
      BY <1>7, <2>2 DEF ReadConfiguration, TypeInv, TypeOK, JobOK, Job, Busy, Working
    <3>2. CurrentConfiguration(w) # None /\ CurrentConfiguration(w) \in Configuration
      BY <2>2, <3>1 DEF SameRevision, CurrentConfiguration, TypeInv, TypeOK
    <3>3. CurrentConfiguration(w).born < births
      BY <3>1, <3>2 DEF FenceInv, BornEarlier, CurrentConfiguration
    <3>4. Precedes(CurrentConfiguration(w), CurrentConfiguration(w))
      BY <3>2 DEF Precedes, Configuration
    <3>5. \A v \in Workers : CurrentConfiguration(v)' = CurrentConfiguration(v)
      BY <1>7, <2>2, <3>1 DEF CurrentConfiguration, ReadConfiguration
    <3>6. ReadEarlier'
      BY <1>7, <3>1, <3>3, <3>4, <3>5 DEF ReadConfiguration, FenceInv, ReadEarlier
    <3>7. BornEarlier' /\ ReadAlike' /\ RevisionFencesEdits'
      BY <1>7, <3>1
         DEF ReadConfiguration, FenceInv, BornEarlier, ReadAlike, RevisionFencesEdits
    <3>8. QED BY <3>6, <3>7 DEF FenceInv
  <2>3. QED BY <1>7, <2>1, <2>2 DEF ReadConfiguration
<1>8. ASSUME NEW w \in Workers, Resolve(w) PROVE FenceInv'
  BY <1>8, QuietStepFenceInv DEF Resolve, TypeInv, TypeOK
<1>9. ASSUME NEW w \in Workers, Confirm(w) PROVE FenceInv'
  <2>1. CASE IssueStatement(w, "release") /\ UNCHANGED job
    BY <1>2, <1>9, <2>1 DEF Confirm
  <2>2. CASE /\ SameRevision(CurrentConfiguration(w), job[w].first)
             /\ job' = [job EXCEPT ![w].final = CurrentConfiguration(w)]
             /\ pc' = [pc EXCEPT ![w] = "send"]
    <3>1. /\ job'[w].final = CurrentConfiguration(w) /\ job'[w].first = job[w].first
          /\ pc'[w] = "send" /\ job'[w].key = job[w].key
          /\ \A v \in Workers : v # w => job'[v] = job[v] /\ pc'[v] = pc[v]
      BY <1>9, <2>2 DEF Confirm, TypeInv, TypeOK, Job
    <3>2. Precedes(job[w].first, CurrentConfiguration(w))
      BY <1>9 DEF Confirm, FenceInv, ReadEarlier
    <3>3. ReadAlike'
      BY <2>2, <3>1, <3>2 DEF SameRevision, Precedes, FenceInv, ReadAlike
    <3>4. ReadEarlier'
      BY <1>9, <3>1 DEF Confirm, CurrentConfiguration, FenceInv, ReadEarlier
    <3>5. BornEarlier' /\ RevisionFencesEdits'
      BY <1>9 DEF Confirm, FenceInv, BornEarlier, RevisionFencesEdits
    <3>6. QED BY <3>3, <3>4, <3>5 DEF FenceInv
  <2>3. QED BY <1>9, <2>1, <2>2 DEF Confirm
<1>10. ASSUME NEW w \in Workers, Send(w) PROVE FenceInv'
  <2>1. RevisionFencesEdits'
    <3>1. job[w].first.born = job[w].final.born => job[w].first = job[w].final
      BY <1>10 DEF Send, FenceInv, ReadAlike
    <3>2. \A p \in puts' : p \in puts \/ p.message = ComposedMessage(w)
      BY <1>10 DEF Send
    <3>3. QED
      BY <1>10, <3>1, <3>2 DEF Send, ComposedMessage, FenceInv, RevisionFencesEdits
  <2>2. BornEarlier'
    BY <1>10 DEF Send, FenceInv, BornEarlier
  <2>3. ReadEarlier' /\ ReadAlike'
    BY <1>10 DEF Send, TypeInv, TypeOK, CurrentConfiguration, FenceInv, ReadEarlier, ReadAlike
  <2>4. QED BY <2>1, <2>2, <2>3 DEF FenceInv
<1>11. ASSUME NEW s \in stmts, ClaimGranted(s) \/ ClaimRefused(s) \/ Finish(s) PROVE FenceInv'
  <2>1. CASE UNCHANGED <<pc, job>>
    BY <1>11, <2>1, QuietStepFenceInv DEF ClaimGranted, ClaimRefused, Finish
  <2>2. ASSUME NEW w \in Workers, pc' = [pc EXCEPT ![w] = "config"],
               job' = [job EXCEPT ![w].lease = Lease]
        PROVE  FenceInv'
    BY <1>1, <1>11, <2>2 DEF ClaimGranted, ClaimRefused, Finish, TypeInv, TypeOK
  <2>3. ASSUME NEW w \in Workers, BackToScan(w) PROVE FenceInv'
    BY <1>1, <1>11, <2>3 DEF BackToScan, ClaimGranted, ClaimRefused, Finish, TypeInv, TypeOK
  <2>4. QED BY <1>11, <2>1, <2>2, <2>3 DEF ClaimGranted, ClaimRefused, Finish
<1>12. ASSUME NEW s \in stmts, LoseStatement(s) PROVE FenceInv'
  BY <1>12, QuietStepFenceInv DEF LoseStatement
<1>13. ASSUME NEW p \in puts, AcceptPut(p) PROVE FenceInv'
  <2>1. RevisionFencesEdits'
    <3>1. /\ puts' \subseteq puts
          /\ \A m \in timeline' : m \in timeline \/ m = p.message
      BY <1>13 DEF AcceptPut
    <3>2. QED BY <3>1 DEF FenceInv, RevisionFencesEdits
  <2>2. \A v \in Workers : pc'[v] = pc[v] \/ pc'[v] = "sent"
    BY <1>13 DEF AcceptPut, IssueStatement, TypeInv, TypeOK
  <2>3. BornEarlier' /\ ReadEarlier' /\ ReadAlike'
    BY <1>13, <2>2 DEF AcceptPut, CurrentConfiguration, FenceInv, BornEarlier, ReadEarlier, ReadAlike
  <2>4. QED BY <2>1, <2>3 DEF FenceInv
<1>14. ASSUME NEW p \in puts, LosePut(p) PROVE FenceInv'
  BY <1>14, QuietStepFenceInv DEF LosePut
<1>15. CASE Tick
  <2>1. \A v \in Workers : /\ job'[v].key = job[v].key
                          /\ job'[v].first = job[v].first
                          /\ job'[v].final = job[v].final
    BY <1>15 DEF Tick, TypeInv, TypeOK, Job
  <2>2. QED BY <1>15, <2>1, QuietStepFenceInv DEF Tick, TypeInv, TypeOK
<1>16. ASSUME NEW c \in Confs, Remove(c) PROVE FenceInv'
  <2>1. conf'[c] = None /\ \A d \in Confs : d # c => conf'[d] = conf[d]
    BY <1>16 DEF Remove, TypeInv, TypeOK
  <2>2. BornEarlier'
    BY <1>16, <2>1 DEF Remove, FenceInv, BornEarlier
  <2>3. ReadAlike' /\ RevisionFencesEdits'
    BY <1>16 DEF Remove, FenceInv, ReadAlike, RevisionFencesEdits
  <2>4. \A w \in Workers : pc[w] \in {"resolve", "confirm"} => ConfOf[job[w].key] \in Confs
    BY DEF TypeInv, JobOK, Busy, Working
  <2>5. ReadEarlier'
    BY <1>16, <2>1, <2>4 DEF Remove, FenceInv, ReadEarlier, Precedes, CurrentConfiguration
  <2>6. QED BY <2>2, <2>3, <2>5 DEF FenceInv
<1>17. CASE UNCHANGED vars
  BY <1>17, QuietStepFenceInv DEF vars, TypeInv, TypeOK
<1>18. QED
  BY SaveFenceInv, <1>3, <1>4, <1>5, <1>6, <1>7, <1>8, <1>9, <1>10, <1>11, <1>12,
     <1>13, <1>14, <1>15, <1>16, <1>17
     DEF Next, Manager, Scheduler, Database, Homeserver

\* Two reads of one configuration row that saw one revision saw one record.
\* The theorem needs the creation to be the same: the run on recreated
\* configurations shows what happens otherwise.
THEOREM RevisionsFence == Spec => []RevisionFencesEdits
<1>1. Spec => []FenceInv
  BY InitFenceInv, NextFenceInv, TypeInvariant, PTL DEF Spec
<1>2. QED BY <1>1, PTL DEF FenceInv

-----------------------------------------------------------------------------
(* Deadlines.  A scheduler whose timers fire on time still holds its lease  *)
(* while it works, so nothing is sent once a firing is settled.             *)

InTime == \A w \in Workers : pc[w] \in Busy => job[w].lease > 0

\* A punctual scheduler stays within the lease of its claim.
LEMMA NextInTime ==
  ASSUME Punctual, TypeInv, InTime, [Next]_vars
  PROVE  InTime'
<1> USE ConstantsOk
<1>1. CASE Tick
  <2> SUFFICES ASSUME NEW w \in Workers, pc'[w] \in Busy PROVE job'[w].lease > 0
    BY DEF InTime
  <2>1. job'[w].lease = Earlier(job[w].lease) /\ job[w].lease \in Nat
    BY <1>1 DEF Tick, TypeInv, TypeOK, Job
  <2>2. Lease - job[w].lease < Budget
    BY <1>1 DEF Tick, OnTime
  <2>3. QED BY <2>1, <2>2, BudgetFitsLease DEF Earlier
<1>2. ASSUME \A w \in Workers : pc'[w] \in Busy => pc[w] \in Busy /\ job'[w].lease = job[w].lease
      PROVE  InTime'
  BY <1>2 DEF InTime
<1>3. ASSUME NEW w \in Workers, Scheduler(w) PROVE InTime'
  <2>1. ASSUME NEW op \in {"sent", "skipped", "release"}, pc[w] \in Busy, job' = job,
               IssueStatement(w, op)
        PROVE  InTime'
    BY <1>2, <2>1 DEF IssueStatement, TypeInv, TypeOK
  <2>2. CASE ReadConfiguration(w)
    BY <1>2, <2>1, <2>2 DEF ReadConfiguration, TypeInv, TypeOK, Job, Busy, Working
  <2>3. CASE Confirm(w)
    BY <1>2, <2>1, <2>3 DEF Confirm, TypeInv, TypeOK, Job, Busy, Working
  <2>4. CASE NoCurrentRecipients(w) \/ GiveUp(w)
    BY <2>1, <2>4 DEF NoCurrentRecipients, GiveUp, Busy, Working
  <2>5. CASE Resolve(w) \/ Send(w)
    BY <1>2, <2>5 DEF Resolve, Send, TypeInv, TypeOK, Busy, Working
  <2>6. ASSUME \A v \in Workers : v # w => job'[v] = job[v] /\ pc'[v] = pc[v],
               pc'[w] \in {"idle", "scan", "claim"}
        PROVE  InTime'
    BY <1>2, <2>6 DEF Busy, Working
  <2>7. CASE EndScan(w) \/ Abandon(w) \/ Crash(w)
    BY <2>6, <2>7 DEF EndScan, Abandon, BackToScan, Crash, TypeInv, TypeOK
  <2>8. ASSUME NEW c \in Confs, ListConfiguration(w, c) PROVE InTime'
    BY <2>6, <2>8 DEF ListConfiguration, TypeInv, TypeOK
  <2>9. ASSUME NEW k \in Keys, ClaimDue(w, k) PROVE InTime'
    BY <2>6, <2>9 DEF ClaimDue, TypeInv, TypeOK
  <2>10. QED BY <1>3, <2>2, <2>3, <2>4, <2>5, <2>7, <2>8, <2>9 DEF Scheduler
<1>4. ASSUME NEW s \in stmts, ClaimGranted(s) PROVE InTime'
  <2>1. CASE UNCHANGED <<pc, job>>
    BY <1>2, <2>1
  <2>2. ASSUME NEW w \in Workers, pc' = [pc EXCEPT ![w] = "config"],
               job' = [job EXCEPT ![w].lease = Lease]
        PROVE  InTime'
    <3>1. /\ job'[w].lease = Lease
          /\ \A v \in Workers : v # w => job'[v] = job[v] /\ pc'[v] = pc[v]
      BY <2>2 DEF TypeInv, TypeOK, Job
    <3>2. QED BY <3>1 DEF InTime
  <2>3. QED BY <1>4, <2>1, <2>2 DEF ClaimGranted
<1>5. ASSUME NEW s \in stmts, ClaimRefused(s) \/ Finish(s) \/ LoseStatement(s) PROVE InTime'
  BY <1>2, <1>5 DEF ClaimRefused, Finish, LoseStatement, BackToScan, TypeInv, TypeOK, Busy, Working
<1>6. ASSUME NEW p \in puts, AcceptPut(p) \/ LosePut(p) PROVE InTime'
  BY <1>2, <1>6 DEF AcceptPut, LosePut, IssueStatement, TypeInv, TypeOK, Busy, Working
<1>7. CASE Manager \/ UNCHANGED vars
  BY <1>2, <1>7 DEF Manager, Save, Remove, vars
<1>8. QED BY <1>1, <1>3, <1>4, <1>5, <1>6, <1>7 DEF Next, Database, Homeserver

\* No step starts a PUT for a settled firing.
LEMMA StepQuiet ==
  TypeInv /\ HoldInv /\ InTime /\ [Next]_vars =>
    \A k \in Keys : row[k].state \in Terminal =>
        \A p \in puts' : p.message.key = k => p \in puts
<1> SUFFICES ASSUME TypeInv, HoldInv, InTime, [Next]_vars,
                    NEW k \in Keys, row[k].state \in Terminal,
                    NEW p \in puts', p.message.key = k, p \notin puts
             PROVE  FALSE
  OBVIOUS
<1>1. ASSUME NEW w \in Workers, Send(w) PROVE FALSE
  <2>1. p.message.key = job[w].key
    BY <1>1 DEF Send, ComposedMessage
  <2>2. pc[w] \in Working /\ pc[w] \in Busy
    BY <1>1 DEF Send, Working, Busy
  <2>3. row[job[w].key].state = "claimed"
    BY <2>2 DEF InTime, HoldInv, HoldsRow
  <2>4. QED BY <2>1, <2>3 DEF Terminal
<1>2. ASSUME puts' \subseteq puts PROVE FALSE
  BY <1>2
<1>3. ASSUME NEW w \in Workers, Scheduler(w) PROVE FALSE
  BY <1>1, <1>2, <1>3 DEF Scheduler, ListConfiguration, ClaimDue, EndScan, ReadConfiguration,
     Resolve, Confirm, NoCurrentRecipients, GiveUp, Abandon, Crash
<1>4. ASSUME Database PROVE FALSE
  BY <1>2, <1>4 DEF Database, ClaimGranted, ClaimRefused, Finish, LoseStatement
<1>5. ASSUME Manager \/ Homeserver \/ Tick \/ UNCHANGED vars PROVE FALSE
  BY <1>2, <1>5 DEF Manager, Save, Remove, Homeserver, AcceptPut, LosePut, Tick, vars
<1>6. QED BY <1>3, <1>4, <1>5 DEF Next

\* If the deadlines of deliverClaim are kept and fit into the lease, no PUT is
\* started for a firing that has been settled.
THEOREM QuietAfterSettling == ASSUME Punctual PROVE Spec => SettledStaysQuiet
<1>1. Init => InTime
  BY DEF Init, InTime, Busy, Working
<1>2. TypeInv /\ InTime /\ [Next]_vars => InTime'
  BY NextInTime
<1>3. Spec => []InTime
  BY <1>1, <1>2, TypeInvariant, PTL DEF Spec
<1>4. TypeInv /\ HoldInv /\ InTime /\ [Next]_vars =>
        [\A k \in Keys : row[k].state \in Terminal =>
            \A p \in puts' : p.message.key = k => p \in puts]_vars
  BY StepQuiet
<1>5. QED
  BY <1>3, <1>4, TypeInvariant, HoldInvariant, PTL DEF Spec, SettledStaysQuiet
=============================================================================
