--------------------------- MODULE MCControlPlane ---------------------------
(***************************************************************************)
(* Instances of ControlPlane for TLC.                                      *)
(***************************************************************************)
EXTENDS ControlPlane, TLC

CONSTANTS e1, e2, e3

TwoEngines == {e1, e2}
TwoSymmetry == Permutations(TwoEngines)
ThreeEngines == {e1, e2, e3}
ThreeSymmetry == Permutations(ThreeEngines)

AllCalls == {"connect", "register", "disconnect", "close"}
ConnectOnly == {"connect"}
ConnectRegister == {"connect", "register"}
NoClose == {"connect", "register", "disconnect"}
=============================================================================
