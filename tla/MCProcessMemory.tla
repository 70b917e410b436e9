--------------------------- MODULE MCProcessMemory ---------------------------
(* Small instances of ProcessMemory for TLC.                                 *)
EXTENDS ProcessMemory, TLC

(* Two sites of two bytes in six bytes of code, and two bytes of stack; one  *)
(* read overlaps another, and both are longer than a line.                   *)
CodeReads == {<<0, 6>>, <<2, 3>>, <<1, 2>>, <<6, 2>>}
(* A gap and half a site, a site and half of the next, and a site and half   *)
(* of the stack.                                                             *)
CodeWrites == {<<1, 2>>, <<2, 3>>, <<4, 3>>}
Stack == {<<6, 2>>}
(* A long read within a longer one, and a write that only the longer covers. *)
NestedReads == {<<2, 3>>, <<0, 6>>}
LastWrite == {<<5, 1>>}
(* Nothing tells the values of a byte apart, nor the locations at a site.    *)
Symmetry == Permutations(Values) \union Permutations(Owners)
=============================================================================
