------------------------------- MODULE MCCApi -------------------------------
(***************************************************************************)
(* An instance of CApi for TLC: a 32-bit integer is below 2, a 64-bit one  *)
(* below 4.  Of the Python integers, 1 fits everywhere, 3 only into 64     *)
(* bits and 4 nowhere; of the raw words, 3 has bits above the lower half.  *)
(***************************************************************************)
EXTENDS CApi

ThreeInts == {1, 3, 4}
TwoWords == {1, 3}
=============================================================================
