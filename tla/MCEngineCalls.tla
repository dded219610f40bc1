---------------------------- MODULE MCEngineCalls ----------------------------
(***************************************************************************)
(* An instance of EngineCalls for TLC.                                     *)
(***************************************************************************)
EXTENDS EngineCalls

CONSTANTS s1, d1, t1, t2, w1

OneStorage == {s1}
OneDescriptor == {d1}
TwoThreads == {t1, t2}
OneWorker == {w1}
=============================================================================
