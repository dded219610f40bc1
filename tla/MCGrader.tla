------------------------------ MODULE MCGrader ------------------------------
(***************************************************************************)
(* An instance of Grader for TLC: two languages, one lab that is scored.   *)
(***************************************************************************)
EXTENDS Grader

TwoLanguages == <<"c", "cpp">>

Tests(p, t, e, s) == [passed |-> p, failed |-> 0, twice |-> t, errors |-> e, skipped |-> s]

\* All pass; the only one fails, twice; an error and a skipped test; no tests.
FourOutcomes == {Tests(2, 0, 0, 0), Tests(0, 1, 0, 0), Tests(1, 0, 1, 1), Tests(0, 0, 0, 0)}
=============================================================================
