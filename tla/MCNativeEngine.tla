--------------------------- MODULE MCNativeEngine ---------------------------
(***************************************************************************)
(* An instance of NativeEngine for TLC.                                    *)
(***************************************************************************)
EXTENDS NativeEngine, TLC

CONSTANTS s1, s2, d1

TwoStorages == {s1, s2}
OneDescriptor == {d1}
StorageSymmetry == Permutations(TwoStorages)
=============================================================================
