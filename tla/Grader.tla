------------------------------- MODULE Grader -------------------------------
(***************************************************************************)
(* scripts/grader.py with build() of scripts/build.py: each session builds *)
(* the implementations that were changed, runs pytest for every lab of     *)
(* each, reads the report files that pytest leaves in the output           *)
(* directory, and writes a score file for the best language and            *)
(* latest.json, which names it.                                            *)
(*                                                                         *)
(* The output directory survives a session unless somebody empties it, as  *)
(* the grading workflow does by starting from a new checkout.  Builds and  *)
(* pytest may fail at any point, and the session may be killed.  Score     *)
(* files are named by the second; here by the session.                     *)
(***************************************************************************)
EXTENDS Integers, Sequences, SequencesExt

CONSTANTS
  Languages,    \* the languages in the order of grader.py:26
  LastLab,      \* labs are 0..LastLab, and lab 0 is not scored
  Outcomes,     \* what a pytest session may come to, in numbers of tests
  Scale,        \* the 100 points of a lab in parts that no division breaks
  MaxSessions,  \* bound on the sessions
  None,         \* no file
  Broken        \* a file that breaks off

ASSUME GraderAssumption ==
  /\ Languages \in Seq(Range(Languages)) /\ IsInjective(Languages)
  /\ LastLab \in Nat /\ MaxSessions \in Nat /\ Scale \in Nat \ {0}
  /\ Outcomes \subseteq [passed : Nat, failed : Nat, twice : Nat, errors : Nat,
                         skipped : Nat]
  /\ \A v \in {None, Broken} : v \notin Range(Languages) /\ v \notin Nat

Labs == 0..LastLab

VARIABLES
  session,  \* how many sessions have begun
  fresh,    \* history: the session began without any report
  stage,    \* where it is
  todo,     \* the languages that have not been assessed
  results,  \* the labs of the first of them that have
  graded,   \* the assessments
  report,   \* report[l][n]: the report file of lab n in language l
  score,    \* score[s]: the score file of session s, the language in it
  latest    \* latest.json: the session it names

files == <<report, score, latest>>
vars == <<session, fresh, stage, todo, results, graded, files>>

-----------------------------------------------------------------------------
(* Counting *)

\* The attributes of the report on outcome o.  A test that fails and whose
\* teardown fails, too, is one test, one failure and one error.
Suite(o) ==
  [tests |-> o.passed + o.failed + o.twice + o.errors + o.skipped,
   failures |-> o.failed + o.twice,
   errors |-> o.errors + o.twice,
   skipped |-> o.skipped]

\* Slip: errors are no failures.
CountFailures(o) ==
  LET s == Suite(o) IN [passed |-> s.tests - s.failures - s.skipped, total |-> s.tests]

\* Slip: a negative number is no reason to stop.
CountBelowZero(o) ==
  LET s == Suite(o)
  IN  [passed |-> s.tests - (s.failures + s.errors) - s.skipped, total |-> s.tests]

\* run_lab: what it makes of them.
Count(o) ==
  LET s == Suite(o)
      passed == s.tests - (s.failures + s.errors) - s.skipped
  IN  [passed |-> IF passed < 0 THEN 0 ELSE passed, total |-> s.tests]

\* The results of a language that could not be assessed.
NoPoints == [n \in 1..(LastLab + 1) |-> [passed |-> 0, total |-> 1]]

ASSUME ScaleAssumption ==
  \A o \in Outcomes : LET t == Count(o).total IN t # 0 => Scale % t = 0

\* What one lab has earned.
Points(c) == IF c.total = 0 THEN 0 ELSE (Scale \div c.total) * c.passed

\* Slip: lab 0 is scored.
EarnedInAll(rs) ==
  LET sum[n \in Labs] == Points(rs[n + 1]) + IF n = 0 THEN 0 ELSE sum[n - 1]
  IN  sum[LastLab]

\* What the results rs of the labs 0, 1, ... are worth.
Earned(rs) ==
  LET sum[n \in Labs] == IF n = 0 THEN 0 ELSE sum[n - 1] + Points(rs[n + 1])
  IN  sum[LastLab]

\* max: the first assessment that no other one exceeds, if there is any.
Best ==
  {graded[i] : i \in
     {k \in DOMAIN graded :
        \A j \in DOMAIN graded :
          /\ Earned(graded[j].results) <= Earned(graded[k].results)
          /\ j < k => Earned(graded[j].results) < Earned(graded[k].results)}}

-----------------------------------------------------------------------------
(* A session *)

Files(v) == [l \in Range(Languages) |-> [n \in Labs |-> v]]

\* changed_languages has found ls.  When it fails, or nothing was changed, the
\* session ends before it has done anything.
Begin(ls) ==
  /\ stage \in {"none", "done", "raised", "killed"} /\ session < MaxSessions
  /\ ls # <<>>
  /\ session' = session + 1
  /\ stage' = "build" /\ todo' = ls /\ results' = <<>> /\ graded' = <<>>
  /\ report' \in {report, Files(None)}
  /\ fresh' = (report' = Files(None))
  /\ UNCHANGED <<score, latest>>

\* The process ends, and what it knew is gone.
End(how) == stage' = how /\ todo' = <<>> /\ results' = <<>> /\ graded' = <<>>

\* The assessment of the current language is rs.
Assessed(rs) ==
  /\ graded' = Append(graded, [language |-> Head(todo), results |-> rs])
  /\ todo' = Tail(todo) /\ results' = <<>>
  /\ stage' = IF Tail(todo) = <<>> THEN "score" ELSE "build"

\* build returns a library, or score_language gives no points.
Build ==
  /\ stage = "build"
  /\ \/ stage' = "test" /\ UNCHANGED <<todo, results, graded>>
     \/ Assessed(NoPoints)
  /\ UNCHANGED <<session, fresh, files>>

\* What pytest may leave in the place of file f: its report, or what was
\* there before it died, or the beginning of its report.
Leaves(f) ==
  [session : {session}, outcome : Outcomes] \cup {f, Broken}

Lab == Len(results)

\* Slip: a missing report is not caught.
RunLabUncaught ==
  /\ stage = "test"
  /\ \E l \in {Head(todo)} : \E f \in Leaves(report[l][Lab]) :
       /\ report' = [report EXCEPT ![l][Lab] = f]
       /\ \/ f \in {None, Broken} /\ End("raised")
          \/ /\ f \notin {None, Broken}
             /\ IF Lab = LastLab THEN Assessed(Append(results, Count(f.outcome)))
                ELSE /\ results' = Append(results, Count(f.outcome))
                     /\ UNCHANGED <<stage, todo, graded>>
  /\ UNCHANGED <<session, fresh, score, latest>>

\* run_lab for the next lab.  A missing report takes all points, as any error
\* that score_language expects; one that cannot be parsed ends the session.
RunLab ==
  /\ stage = "test"
  /\ \E l \in {Head(todo)} : \E f \in Leaves(report[l][Lab]) :
       /\ report' = [report EXCEPT ![l][Lab] = f]
       /\ \/ f = None /\ Assessed(NoPoints)
          \/ f = Broken /\ End("raised")
          \/ /\ f \notin {None, Broken}
             /\ IF Lab = LastLab THEN Assessed(Append(results, Count(f.outcome)))
                ELSE /\ results' = Append(results, Count(f.outcome))
                     /\ UNCHANGED <<stage, todo, graded>>
  /\ UNCHANGED <<session, fresh, score, latest>>

\* Slip: latest.json is written first.
WriteLatestFirst ==
  /\ \/ /\ stage = "ending"
        /\ \E a \in Best : score' = [score EXCEPT ![session] = a.language]
        /\ End("done") /\ UNCHANGED latest
     \/ /\ \/ stage = "score" /\ latest' = Broken /\ stage' = "filling"
           \/ stage = "filling" /\ latest' = session /\ stage' = "latest"
        /\ UNCHANGED <<score, todo, results, graded>>
     \/ /\ stage = "latest" /\ score' = [score EXCEPT ![session] = Broken]
        /\ stage' = "ending" /\ UNCHANGED <<latest, todo, results, graded>>
  /\ UNCHANGED <<session, fresh, report>>

\* main creates and fills the score file, and then latest.json.
Write ==
  /\ \/ /\ \/ /\ stage = "score" /\ score' = [score EXCEPT ![session] = Broken]
              /\ stage' = "filling"
           \/ /\ stage = "filling" /\ stage' = "latest"
              /\ \E a \in Best : score' = [score EXCEPT ![session] = a.language]
        /\ UNCHANGED <<latest, todo, results, graded>>
     \/ /\ stage = "latest" /\ latest' = Broken
        /\ stage' = "ending" /\ UNCHANGED <<score, todo, results, graded>>
     \/ stage = "ending" /\ latest' = session /\ End("done") /\ UNCHANGED score
  /\ UNCHANGED <<session, fresh, report>>

\* Ctrl-C, or the machine.
Killed ==
  /\ stage \notin {"none", "done", "raised", "killed"}
  /\ End("killed")
  /\ UNCHANGED <<session, fresh, files>>

-----------------------------------------------------------------------------
(* The specification *)

Init ==
  /\ session = 0 /\ fresh = TRUE /\ stage = "none"
  /\ todo = <<>> /\ results = <<>> /\ graded = <<>>
  /\ report = Files(None)
  /\ score = [s \in 1..MaxSessions |-> None] /\ latest = None

\* The languages that differ from the template, in their order.
Changed ==
  {ls \in BoundedSeq(Range(Languages), Len(Languages)) :
     \A i, j \in DOMAIN ls : i < j =>
       \E p, q \in DOMAIN Languages :
         p < q /\ ls[i] = Languages[p] /\ ls[j] = Languages[q]}

Go == Build \/ RunLab \/ Write

Next == Go \/ Killed \/ \E ls \in Changed : Begin(ls)

\* A session goes on: builds end, and pytest ends because the tests limit the
\* time of their processes (tests/processes.py:97).
Spec == Init /\ [][Next]_vars /\ WF_vars(Go)

-----------------------------------------------------------------------------
(* Properties *)

Counts == [passed : Nat, total : Nat]

Reports == [session : 1..MaxSessions, outcome : Outcomes]

(***************************************************************************)
(* Every variable has its type; no lab has a negative number of passes.    *)
(***************************************************************************)
TypeOK ==
  /\ session \in 0..MaxSessions /\ fresh \in BOOLEAN
  /\ stage \in {"none", "build", "test", "score", "filling", "latest", "ending",
                "done", "raised", "killed"}
  /\ todo \in Seq(Range(Languages)) /\ results \in Seq(Counts)
  /\ graded \in Seq([language : Range(Languages), results : Seq(Counts)])
  /\ report \in [Range(Languages) -> [Labs -> {None, Broken} \cup Reports]]
  /\ score \in [1..MaxSessions -> {None, Broken} \cup Range(Languages)]
  /\ latest \in {None, Broken} \cup (1..MaxSessions)

(***************************************************************************)
(* What is scored was earned: an assessment is either without any points,  *)
(* or counts for each lab tests that passed in a pytest session of this    *)
(* very grading session (grader.py:60-70, 79-81), and all of them unless a *)
(* test failed twice.  The reports directory must have been empty, because *)
(* nobody removes the report of an earlier session whose lab now dies      *)
(* before it writes one.                                                   *)
(***************************************************************************)
ScoreIsEarned ==
  fresh =>
    \A i \in DOMAIN graded :
      LET a == graded[i]
      IN  a.results = NoPoints \/
          \A n \in Labs :
            LET f == report[a.language][n]
            IN  /\ f.session = session
                /\ a.results[n + 1].passed <= f.outcome.passed
                /\ f.outcome.twice = 0 => a.results[n + 1].passed = f.outcome.passed

\* a has a larger share of its tests than b.
Beats(a, b) ==
  /\ a.total > 0 /\ a.passed > 0
  /\ b.total > 0 => a.passed * b.total > b.passed * a.total

(***************************************************************************)
(* The score file names a language that none of the others outdoes: no     *)
(* other one is better in one scored lab and not worse in any of them, and *)
(* lab 0 does not matter (grader.py:82, 94).                               *)
(***************************************************************************)
BestIsChosen ==
  graded # <<>> =>
    \E a \in Best : \A i \in DOMAIN graded :
      ~ /\ \E n \in Labs \ {0} : Beats(graded[i].results[n + 1], a.results[n + 1])
        /\ \A n \in Labs \ {0} : ~Beats(a.results[n + 1], graded[i].results[n + 1])

(***************************************************************************)
(* latest.json never names a score file that is missing or incomplete,     *)
(* whenever the session is killed (grader.py:101-102).                     *)
(***************************************************************************)
LatestIsComplete ==
  latest \notin {None, Broken} => score[latest] \notin {None, Broken}

(***************************************************************************)
(* A session ends with a score: neither a build that fails nor a pytest    *)
(* that dies keeps the other languages from being graded                   *)
(* (grader.py:79-81), only a report that breaks off in the middle does.    *)
(***************************************************************************)
GradesAnyway ==
  \A s \in 1..MaxSessions :
    session = s ~>
      \/ latest = s \/ stage = "killed"
      \/ \E l \in Range(Languages) : \E n \in Labs : report[l][n] = Broken

=============================================================================
