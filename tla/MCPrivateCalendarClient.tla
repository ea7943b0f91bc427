------------------------ MODULE MCPrivateCalendarClient ------------------------
(* Small instances of PrivateCalendarClient.                                *)
EXTENDS PrivateCalendarClient, TLC

Alike == Permutations(Actors) \union Permutations(Clients)
=============================================================================
