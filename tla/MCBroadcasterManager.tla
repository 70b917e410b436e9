------------------------ MODULE MCBroadcasterManager ------------------------
(* Small instances of BroadcasterManager for TLC.                           *)
EXTENDS BroadcasterManager, TLC

CONSTANTS l1, l2, b1, b2, c1, c2, x, y, z

MCListeners == {l1, l2}
MCBroadcasters == {b1, b2}
MCClasses == {c1, c2}
MCBits == {x, y, z}
MCClassOf == [b \in MCBroadcasters |-> IF b = b1 THEN c1 ELSE c2]
Symmetry == Permutations(MCListeners) \union Permutations(MCBits)
=============================================================================
