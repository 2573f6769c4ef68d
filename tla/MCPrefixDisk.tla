---------------------------- MODULE MCPrefixDisk ----------------------------
(***************************************************************************)
(* Small instances of PrefixDisk for TLC: a session head, its longer       *)
(* continuation and an unrelated prefix, with payloads of different sizes. *)
(***************************************************************************)
EXTENDS PrefixDisk, TLC

CONSTANTS f1, f2

Stem == <<1>>
Long == <<1, 2>>
Unrelated == <<3>>

AllKeys == {Stem, Long, Unrelated}
TwoKeys == {Stem, Unrelated}
AllPrompts == {<<1>>, <<1, 2, 2>>, <<3, 1>>, <<2>>}
FpSymmetry == Permutations(Fps)
=============================================================================
