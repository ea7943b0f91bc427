-------------------------- MODULE MCCalendarEventWrite --------------------------
EXTENDS CalendarEventWrite, TLC
Symmetry == Permutations(Writers) \union Permutations(Edits)
=============================================================================
