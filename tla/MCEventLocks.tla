---------------------------- MODULE MCEventLocks ----------------------------
(* Small instances of EventLocks for TLC.                                   *)
EXTENDS EventLocks, TLC

CONSTANTS t1, t2, t3, l1, l2, b1, b2

MCThreads == {t1, t2, t3}
MCListeners == {l1, l2}
MCBroadcasters == {b1, b2}
Symmetry == Permutations(MCThreads) \union Permutations(MCListeners)
              \union Permutations(MCBroadcasters)
=============================================================================
