---------------------------- MODULE MCHostOperations ----------------------------
EXTENDS HostOperations, TLC
RunSymmetry == Permutations(Runs)

\* Two runs of the backup, or one beside a release.
MCInit == Init /\ (phase = "ended" \/ \E r \in Runs : step[r] = "done")
MCSpec == MCInit /\ [][Next]_vars
=============================================================================
