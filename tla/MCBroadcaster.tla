--------------------------- MODULE MCBroadcaster ---------------------------
(* Small instances of Broadcaster for TLC.                                  *)
EXTENDS Broadcaster, TLC

CONSTANTS b1, l1, l2, t1, t2, t3, x, y

OneBroadcaster == {b1}
OneListener == {l1}
TwoListeners == {l1, l2}
TwoThreads == {t1, t2}
ThreeThreads == {t1, t2, t3}
TwoBits == {x, y}

Symmetry ==
  Permutations(Threads) \union Permutations(Listeners)
    \union Permutations(Bits) \union Permutations(Broadcasters)
============================================================================
