---------------------------- MODULE MCReminderScan ----------------------------
(* Small instances of ReminderScan.                                         *)
EXTENDS ReminderScan

\* Two configurations in calendar 1, one in calendar 2.
SmallBindingOf == [c \in Confs |-> IF c <= 2 THEN 1 ELSE 2]

\* Configuration 1 has more firings than a scan may claim, and those of all three
\* make more cursors than the LRU map keeps.
FewOrdinals == [c \in Confs |-> IF c = 1 THEN {1, 2, 3} ELSE IF c = 2 THEN {1} ELSE {1, 2}]
=============================================================================
