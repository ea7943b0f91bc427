------------------------- MODULE ReminderNotification -------------------------
(***************************************************************************)
(* What reminder delivery promises, without claims, leases or schedulers:  *)
(* a room sees at most one message for a firing, a firing is settled once  *)
(* and for ever, and it is settled as sent only if the room has seen it.   *)
(***************************************************************************)
CONSTANT Keys

VARIABLES room,     \* messages the room has seen, records with a field key
          outcome   \* [Keys -> {"open", "sent", "skipped"}]

NInit == room = {} /\ outcome = [k \in Keys |-> "open"]

Post ==
    /\ \E m \in room' \ room :
         /\ \A n \in room : n.key # m.key
         /\ room' = room \union {m}
    /\ UNCHANGED outcome

SettleSent(k) ==
    /\ outcome[k] = "open"
    /\ \E m \in room : m.key = k
    /\ outcome' = [outcome EXCEPT ![k] = "sent"]
    /\ UNCHANGED room

\* Decided without looking at the room: an earlier PUT may have arrived.
SettleSkipped(k) ==
    /\ outcome[k] = "open"
    /\ outcome' = [outcome EXCEPT ![k] = "skipped"]
    /\ UNCHANGED room

NNext == \/ Post
         \/ \E k \in Keys : SettleSent(k) \/ SettleSkipped(k)

NSpec == NInit /\ [][NNext]_<<room, outcome>>
=============================================================================
