------------------------ MODULE MCNativeProcessLinux ------------------------
(* Small instances of NativeProcessLinux for TLC.                            *)
EXTENDS NativeProcessLinux
=============================================================================
