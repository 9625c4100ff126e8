--------------------------- MODULE MCUpdateDaemon ---------------------------
(* UpdateDaemon with the values its model checking runs need.              *)
EXTENDS UpdateDaemon, TLC

CONSTANTS t1, t2

TwoThreads == {t1, t2}
TwoSymmetric == Permutations(TwoThreads)

\* The version that runs first, an older one and a newer one; only the newer
\* one is at the head of the release list.
MCImages == 0 .. 2
MCTags == {2}

\* The first boot, of the middle version.
MCInit == Init /\ active = 1 /\ passive = 0
MCSpec == MCInit /\ [][Next]_vars
=============================================================================
