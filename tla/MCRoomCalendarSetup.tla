-------------------------- MODULE MCRoomCalendarSetup --------------------------
(* A room of the configuration and rooms that ask for a calendar.           *)
EXTENDS RoomCalendarSetup, TLC

CONSTANTS configured, k0

ConfiguredBinding == {[room |-> configured, calendar |-> k0]}

Alike == Permutations(Rooms \ {configured}) \union Permutations(Calendars \ {k0})
             \union Permutations(Setups)
=============================================================================
