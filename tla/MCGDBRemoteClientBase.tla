----------------------- MODULE MCGDBRemoteClientBase -----------------------
(* Small instances of GDBRemoteClientBase for TLC.                          *)
EXTENDS GDBRemoteClientBase, TLC

CONSTANTS a1, a2

MCThreads == {a1, a2}
MCSymmetry == Permutations(MCThreads)
(* The calls whose interleavings decide what is read from the stream.       *)
StreamOps == AllOps \ {"requestSync", "interrupt"}
LiveOps == {"request", "requestSync", "interrupt"}
=============================================================================
