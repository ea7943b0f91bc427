-------------------------- MODULE MCReminderDelivery --------------------------
(***************************************************************************)
(* Instances of ReminderDelivery for TLC: one configuration, whose firings *)
(* depend on the schedule it has, and two schedulers.                      *)
(***************************************************************************)
EXTENDS ReminderDelivery, TLC

CONSTANTS k1, k2, c1, morning, evening

OneConf == [k \in Keys |-> c1]

\* k1 fires under the morning schedule, k2 (if it is a key) under both.
MorningFires == (Keys \X {morning}) \union ((Keys \ {k1}) \X {evening})

Symmetry == Permutations(Workers) \union Permutations(Tokens)
=============================================================================
