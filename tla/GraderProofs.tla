----------------------------- MODULE GraderProofs -----------------------------
(***************************************************************************)
(* Proofs about Grader for every list of languages, every number of labs   *)
(* and sessions, and every number of tests.                                *)
(***************************************************************************)
EXTENDS Grader, TLAPS, WellFoundedInduction

-----------------------------------------------------------------------------
(* Types *)

Running == {"build", "test", "score", "filling", "latest", "ending"}

\* Where a session is says what it has left to do.
FlowInv ==
  /\ stage \in Running => session # 0
  /\ stage \in {"build", "test"} => todo # <<>>
  /\ stage = "build" => results = <<>>
  /\ stage = "test" => Len(results) <= LastLab

Assessments == [language : Range(Languages), results : Seq(Counts)]

\* Every changed language is assessed, and assessed once.
LEMMA ChangedType ==
  ASSUME NEW ls \in Changed
  PROVE  ls \in Seq(Range(Languages)) /\ IsInjective(ls)
<1>1. PICK m \in 0..Len(Languages) : ls \in [1..m -> Range(Languages)]
  BY DEF Changed, BoundedSeq, SeqOf
<1>2. ls \in Seq(Range(Languages)) /\ DOMAIN ls = 1..m /\ m \in Nat
  BY <1>1, GraderAssumption
<1>3. ASSUME NEW i \in DOMAIN ls, NEW j \in DOMAIN ls, i < j
      PROVE  ls[i] # ls[j]
  <2>1. PICK p \in DOMAIN Languages, q \in DOMAIN Languages :
          p < q /\ ls[i] = Languages[p] /\ ls[j] = Languages[q]
    BY <1>3 DEF Changed
  <2>2. p # q
    <3>1. DOMAIN Languages = 1..Len(Languages)
      BY GraderAssumption
    <3> QED BY <2>1, <3>1
  <2> QED BY <2>1, <2>2, GraderAssumption DEF IsInjective
<1>4. ASSUME NEW i \in DOMAIN ls, NEW j \in DOMAIN ls, i # j
      PROVE  ls[i] # ls[j]
  BY <1>2, <1>3, <1>4
<1> QED BY <1>2, <1>4 DEF IsInjective

\* A count has as many passes as the outcome, but for tests that failed twice.
LEMMA CountIsEarned ==
  ASSUME NEW o \in Outcomes
  PROVE  /\ Count(o) \in Counts
         /\ Count(o).passed <= o.passed
         /\ o.twice = 0 => Count(o).passed = o.passed
<1>1. /\ o.passed \in Nat /\ o.failed \in Nat /\ o.twice \in Nat
      /\ o.errors \in Nat /\ o.skipped \in Nat
  BY GraderAssumption
<1> QED BY <1>1 DEF Count, Suite, Counts

LEMMA NoPointsType == NoPoints \in Seq(Counts)
<1>1. NoPoints \in [1..(LastLab + 1) -> Counts]
  BY DEF NoPoints, Counts
<1>2. LastLab + 1 \in Nat
  BY GraderAssumption
<1> QED BY <1>1, <1>2

\* An assessment of the first language that is left.
LEMMA AssessedType ==
  ASSUME TypeOK, todo # <<>>, NEW rs \in Seq(Counts), Assessed(rs)
  PROVE  /\ todo' \in Seq(Range(Languages)) /\ results' \in Seq(Counts)
         /\ graded' \in Seq(Assessments)
         /\ stage' \in {"score", "build"} /\ results' = <<>>
         /\ stage' = "build" => todo' # <<>>
<1>1. todo \in Seq(Range(Languages)) /\ graded \in Seq(Assessments)
  BY DEF TypeOK, Assessments
<1>2. Head(todo) \in Range(Languages) /\ Tail(todo) \in Seq(Range(Languages))
  BY <1>1
<1>3. [language |-> Head(todo), results |-> rs] \in Assessments
  BY <1>2 DEF Assessments
<1> QED BY <1>1, <1>2, <1>3 DEF Assessed

LEMMA EndType ==
  ASSUME NEW how, End(how)
  PROVE  /\ todo' \in Seq(Range(Languages)) /\ results' \in Seq(Counts)
         /\ graded' \in Seq(Assessments) /\ stage' = how
BY DEF End

\* The report that pytest leaves is one of this session, or was there.
LEMMA LeavesType ==
  ASSUME TypeOK, FlowInv, stage = "test", NEW f,
         f \in Leaves(report[Head(todo)][Lab])
  PROVE  /\ Head(todo) \in Range(Languages) /\ Lab \in Labs
         /\ f \in {None, Broken} \cup Reports
         /\ f \in {report[Head(todo)][Lab], Broken} \/ f.session = session
<1>1. Head(todo) \in Range(Languages) /\ Lab \in Labs
  <2>1. todo \in Seq(Range(Languages)) /\ todo # <<>> /\ results \in Seq(Counts)
    BY DEF TypeOK, FlowInv
  <2> QED BY <2>1, GraderAssumption DEF FlowInv, Lab, Labs
<1>2. report[Head(todo)][Lab] \in {None, Broken} \cup Reports
  BY <1>1 DEF TypeOK
<1>3. session \in 1..MaxSessions
  BY GraderAssumption DEF TypeOK, FlowInv, Running
<1> QED BY <1>1, <1>2, <1>3 DEF Leaves, Reports

\* What running a lab comes to.
LEMMA RunLabEffect ==
  ASSUME TypeOK, FlowInv, RunLab
  PROVE  \E f \in {None, Broken} \cup Reports :
           /\ stage = "test" /\ Head(todo) \in Range(Languages) /\ Lab \in Labs
           /\ todo # <<>>
           /\ report' = [report EXCEPT ![Head(todo)][Lab] = f]
           /\ f \in {report[Head(todo)][Lab], Broken} \/ f.session = session
           /\ \/ f = None /\ Assessed(NoPoints)
              \/ f = Broken /\ End("raised")
              \/ /\ f \notin {None, Broken} /\ f \in Reports /\ Lab = LastLab
                 /\ Assessed(Append(results, Count(f.outcome)))
              \/ /\ f \notin {None, Broken} /\ f \in Reports /\ Lab # LastLab
                 /\ results' = Append(results, Count(f.outcome))
                 /\ UNCHANGED <<stage, todo, graded>>
           /\ UNCHANGED <<session, fresh, score, latest>>
<1>1. stage = "test" /\ todo # <<>>
  BY DEF RunLab, FlowInv
<1>2. PICK f \in Leaves(report[Head(todo)][Lab]) :
        /\ report' = [report EXCEPT ![Head(todo)][Lab] = f]
        /\ \/ f = None /\ Assessed(NoPoints)
           \/ f = Broken /\ End("raised")
           \/ /\ f \notin {None, Broken}
              /\ IF Lab = LastLab THEN Assessed(Append(results, Count(f.outcome)))
                 ELSE /\ results' = Append(results, Count(f.outcome))
                      /\ UNCHANGED <<stage, todo, graded>>
  BY DEF RunLab
<1>3. UNCHANGED <<session, fresh, score, latest>>
  BY DEF RunLab
<1>4. /\ Head(todo) \in Range(Languages) /\ Lab \in Labs
      /\ f \in {None, Broken} \cup Reports
      /\ f \in {report[Head(todo)][Lab], Broken} \/ f.session = session
  BY <1>1, LeavesType
<1> QED BY <1>1, <1>2, <1>3, <1>4

\* What writing the two files comes to.
LEMMA WriteEffect ==
  ASSUME TypeOK, FlowInv, Write
  PROVE  /\ session \in 1..MaxSessions /\ UNCHANGED <<session, fresh, report>>
         /\ \/ /\ stage = "score" /\ stage' = "filling"
               /\ score' = [score EXCEPT ![session] = Broken]
               /\ UNCHANGED <<latest, todo, results, graded>>
            \/ /\ stage = "filling" /\ stage' = "latest"
               /\ \E l \in Range(Languages) : score' = [score EXCEPT ![session] = l]
               /\ UNCHANGED <<latest, todo, results, graded>>
            \/ /\ stage = "latest" /\ stage' = "ending" /\ latest' = Broken
               /\ UNCHANGED <<score, todo, results, graded>>
            \/ stage = "ending" /\ latest' = session /\ End("done") /\ UNCHANGED score
<1>1. session \in 1..MaxSessions
  BY GraderAssumption DEF Write, TypeOK, FlowInv, Running
<1>2. ASSUME NEW a \in Best
      PROVE  a.language \in Range(Languages)
  <2>1. PICK i \in DOMAIN graded : a = graded[i]
    BY DEF Best
  <2>2. graded \in Seq(Assessments)
    BY DEF TypeOK, Assessments
  <2>3. graded[i] \in Assessments
    BY <2>1, <2>2
  <2> QED BY <2>1, <2>3 DEF Assessments
<1> QED BY <1>1, <1>2 DEF Write

LEMMA TypeNext ==
  ASSUME TypeOK, FlowInv, [Next]_vars
  PROVE  TypeOK' /\ FlowInv'
<1>1. ASSUME NEW ls \in Changed, Begin(ls)
      PROVE  TypeOK' /\ FlowInv'
  <2>1. ls \in Seq(Range(Languages)) /\ ls # <<>> /\ todo' = ls
    BY <1>1, ChangedType DEF Begin
  <2>2. session' \in 1..MaxSessions /\ fresh' \in BOOLEAN /\ stage' = "build"
    BY <1>1, GraderAssumption DEF Begin, TypeOK
  <2>3. report' \in [Range(Languages) -> [Labs -> {None, Broken} \cup Reports]]
    BY <1>1 DEF Begin, TypeOK, Files
  <2>4. results' = <<>> /\ graded' = <<>> /\ UNCHANGED <<score, latest>>
    BY <1>1 DEF Begin
  <2>5. TypeOK'
    BY <2>1, <2>2, <2>3, <2>4, GraderAssumption DEF TypeOK
  <2> QED BY <2>1, <2>2, <2>4, <2>5, GraderAssumption DEF FlowInv
<1>2. CASE Build
  <2>1. stage = "build" /\ UNCHANGED <<session, fresh, report, score, latest>>
    BY <1>2 DEF Build, files
  <2>2. CASE stage' = "test" /\ UNCHANGED <<todo, results, graded>>
    BY <2>1, <2>2, GraderAssumption DEF TypeOK, FlowInv, Running
  <2>3. CASE Assessed(NoPoints)
    <3>1. /\ todo' \in Seq(Range(Languages)) /\ results' \in Seq(Counts)
          /\ graded' \in Seq(Assessments)
          /\ stage' \in {"score", "build"} /\ results' = <<>>
          /\ stage' = "build" => todo' # <<>>
      BY <2>1, <2>3, NoPointsType, AssessedType DEF FlowInv
    <3> QED BY <2>1, <3>1 DEF TypeOK, FlowInv, Running, Assessments
  <2> QED BY <1>2, <2>2, <2>3 DEF Build
<1>3. CASE RunLab
  <2>1. PICK f \in {None, Broken} \cup Reports :
           /\ stage = "test" /\ Head(todo) \in Range(Languages) /\ Lab \in Labs
           /\ todo # <<>>
           /\ report' = [report EXCEPT ![Head(todo)][Lab] = f]
           /\ \/ f = None /\ Assessed(NoPoints)
              \/ f = Broken /\ End("raised")
              \/ /\ f \notin {None, Broken} /\ f \in Reports /\ Lab = LastLab
                 /\ Assessed(Append(results, Count(f.outcome)))
              \/ /\ f \notin {None, Broken} /\ f \in Reports /\ Lab # LastLab
                 /\ results' = Append(results, Count(f.outcome))
                 /\ UNCHANGED <<stage, todo, graded>>
           /\ UNCHANGED <<session, fresh, score, latest>>
    BY <1>3, RunLabEffect
  <2>2. report' \in [Range(Languages) -> [Labs -> {None, Broken} \cup Reports]]
    BY <2>1 DEF TypeOK
  <2>3. f \in Reports => Count(f.outcome) \in Counts
    BY CountIsEarned DEF Reports
  <2>4. f \in Reports => Append(results, Count(f.outcome)) \in Seq(Counts)
    BY <2>3 DEF TypeOK
  <2>5. CASE \E rs \in Seq(Counts) : Assessed(rs)
    <3>1. /\ todo' \in Seq(Range(Languages)) /\ results' \in Seq(Counts)
          /\ graded' \in Seq(Assessments)
          /\ stage' \in {"score", "build"} /\ results' = <<>>
          /\ stage' = "build" => todo' # <<>>
      BY <2>1, <2>5, AssessedType
    <3> QED BY <2>1, <2>2, <3>1 DEF TypeOK, FlowInv, Running, Assessments
  <2>6. CASE End("raised")
    <3>1. /\ todo' \in Seq(Range(Languages)) /\ results' \in Seq(Counts)
          /\ graded' \in Seq(Assessments) /\ stage' = "raised"
      BY <2>6, EndType
    <3> QED BY <2>1, <2>2, <3>1 DEF TypeOK, FlowInv, Running, Assessments
  <2>7. CASE /\ f \in Reports /\ Lab # LastLab
             /\ results' = Append(results, Count(f.outcome))
             /\ UNCHANGED <<stage, todo, graded>>
    <3>1. results' \in Seq(Counts) /\ Len(results') <= LastLab
      BY <2>1, <2>3, <2>4, <2>7, GraderAssumption DEF TypeOK, FlowInv, Lab, Labs
    <3> QED BY <2>1, <2>2, <2>7, <3>1 DEF TypeOK, FlowInv, Running
  <2> QED BY <2>1, <2>4, <2>5, <2>6, <2>7, NoPointsType
<1>4. CASE Write
  <2>1. ASSUME NEW l \in {Broken} \cup Range(Languages)
        PROVE  [score EXCEPT ![session] = l]
                 \in [1..MaxSessions -> {None, Broken} \cup Range(Languages)]
    BY DEF TypeOK
  <2>2. session \in 1..MaxSessions /\ UNCHANGED <<session, fresh, report>>
    BY <1>4, WriteEffect
  <2>3. CASE /\ stage' \in {"filling", "latest"} /\ UNCHANGED <<latest, todo, results, graded>>
             /\ \E l \in {Broken} \cup Range(Languages) :
                  score' = [score EXCEPT ![session] = l]
    <3>1. score' \in [1..MaxSessions -> {None, Broken} \cup Range(Languages)]
      BY <2>1, <2>3
    <3> QED BY <2>2, <2>3, <3>1 DEF TypeOK, FlowInv, Running
  <2>4. CASE /\ stage' = "ending" /\ latest' = Broken
             /\ UNCHANGED <<score, todo, results, graded>>
    BY <2>2, <2>4 DEF TypeOK, FlowInv, Running
  <2>5. CASE latest' = session /\ End("done") /\ UNCHANGED score
    <3>1. /\ todo' \in Seq(Range(Languages)) /\ results' \in Seq(Counts)
          /\ graded' \in Seq(Assessments) /\ stage' = "done"
      BY <2>5, EndType
    <3> QED BY <2>2, <2>5, <3>1 DEF TypeOK, FlowInv, Running, Assessments
  <2> QED BY <1>4, <2>3, <2>4, <2>5, WriteEffect
<1>5. CASE Killed
  <2>1. /\ todo' \in Seq(Range(Languages)) /\ results' \in Seq(Counts)
        /\ graded' \in Seq(Assessments) /\ stage' = "killed"
    BY <1>5, EndType DEF Killed
  <2>2. UNCHANGED <<session, fresh, report, score, latest>>
    BY <1>5 DEF Killed, files
  <2> QED BY <2>1, <2>2 DEF TypeOK, FlowInv, Running, Assessments
<1>6. CASE UNCHANGED vars
  BY <1>6 DEF TypeOK, FlowInv, vars, files
<1> QED BY <1>1, <1>2, <1>3, <1>4, <1>5, <1>6 DEF Next, Go

LEMMA TypeInit == Init => TypeOK /\ FlowInv
<1> SUFFICES ASSUME Init
             PROVE  TypeOK /\ FlowInv
  OBVIOUS
<1>1. report \in [Range(Languages) -> [Labs -> {None, Broken} \cup Reports]]
  BY DEF Init, Files
<1> QED BY <1>1, GraderAssumption DEF Init, TypeOK, FlowInv, Running

LEMMA TypeInvariance == Spec => [](TypeOK /\ FlowInv)
BY TypeInit, TypeNext, PTL DEF Spec

(***************************************************************************)
(* Every variable has its type: no count of run_lab is negative, although  *)
(* it subtracts the failures and the errors of one test both               *)
(* (grader.py:66-70), and the score file names one of the languages.       *)
(***************************************************************************)
THEOREM GraderTyped == Spec => []TypeOK
BY TypeInvariance, PTL

-----------------------------------------------------------------------------
(* The two files *)

\* latest.json names a session that has written its score file.  It is not
\* this one before this one has, and this one has before it touches the file.
LatestInv ==
  /\ latest \notin {None, Broken} => latest <= session /\ score[latest] \in Range(Languages)
  /\ stage \in Running \ {"ending"} => latest # session
  /\ stage \in {"latest", "ending"} => score[session] \in Range(Languages)

LEMMA LatestNext ==
  ASSUME TypeOK, FlowInv, LatestInv, [Next]_vars
  PROVE  LatestInv'
<1>1. session \in 0..MaxSessions /\ latest \in {None, Broken} \cup (1..MaxSessions)
  BY DEF TypeOK
<1>2. CASE UNCHANGED <<session, score, latest>> /\ stage' \notin Running
  BY <1>2 DEF LatestInv, Running
<1>3. CASE /\ UNCHANGED <<session, score, latest>> /\ stage \in Running \ {"ending"}
           /\ stage' \in {"build", "test", "score"}
  BY <1>3 DEF LatestInv, Running
<1>4. ASSUME NEW ls \in Changed, Begin(ls)
      PROVE  LatestInv'
  <2>1. UNCHANGED <<score, latest>> /\ stage' = "build" /\ session' = session + 1
    BY <1>4 DEF Begin
  <2>2. latest # session'
    BY <2>1, <1>1, GraderAssumption DEF LatestInv
  <2>3. latest \notin {None, Broken} => latest <= session'
    BY <2>1, <1>1, GraderAssumption DEF LatestInv
  <2> QED BY <2>1, <2>2, <2>3 DEF LatestInv
<1>5. CASE Build
  <2>1. UNCHANGED <<session, score, latest>> /\ stage = "build"
    BY <1>5 DEF Build, files
  <2>2. stage' \in {"build", "test", "score"}
    BY <1>5 DEF Build, Assessed
  <2> QED BY <2>1, <2>2, <1>3 DEF Running
<1>6. CASE RunLab
  <2>1. UNCHANGED <<session, score, latest>> /\ stage = "test"
    BY <1>6 DEF RunLab
  <2>2. stage' \in {"build", "test", "score", "raised"}
    BY <1>6 DEF RunLab, Assessed, End
  <2> QED BY <2>1, <2>2, <1>2, <1>3 DEF Running
<1>7. CASE Write
  <2>1. session \in 1..MaxSessions /\ session' = session
    BY <1>7, WriteEffect
  <2>2. DOMAIN score = 1..MaxSessions
    BY DEF TypeOK
  <2>3. CASE /\ stage = "score" /\ stage' = "filling"
             /\ score' = [score EXCEPT ![session] = Broken] /\ latest' = latest
    <3>1. latest # session
      BY <2>3 DEF LatestInv, Running
    <3> QED BY <2>1, <2>2, <2>3, <3>1, <1>1 DEF LatestInv, Running
  <2>4. CASE /\ stage = "filling" /\ stage' = "latest" /\ latest' = latest
             /\ \E l \in Range(Languages) : score' = [score EXCEPT ![session] = l]
    <3>1. latest # session
      BY <2>4 DEF LatestInv, Running
    <3>2. score'[session] \in Range(Languages)
      BY <2>1, <2>2, <2>4
    <3> QED BY <2>1, <2>2, <2>4, <3>1, <3>2, <1>1 DEF LatestInv, Running
  <2>5. CASE stage = "latest" /\ stage' = "ending" /\ latest' = Broken /\ score' = score
    BY <2>1, <2>5 DEF LatestInv, Running
  <2>6. CASE stage = "ending" /\ latest' = session /\ End("done") /\ score' = score
    BY <2>1, <2>6 DEF LatestInv, Running, End
  <2> QED BY <1>7, <2>3, <2>4, <2>5, <2>6, WriteEffect
<1>8. CASE Killed
  BY <1>8, <1>2 DEF Killed, End, files, Running
<1>9. CASE UNCHANGED vars
  BY <1>9 DEF LatestInv, vars, files
<1> QED BY <1>4, <1>5, <1>6, <1>7, <1>8, <1>9 DEF Next, Go

LEMMA LatestInvariance == Spec => []LatestInv
<1>1. Init => LatestInv
  BY DEF Init, LatestInv, Running
<1> QED BY <1>1, TypeInvariance, LatestNext, PTL DEF Spec

(***************************************************************************)
(* latest.json never names a score file that is missing or incomplete,     *)
(* whenever a session is killed, because main closes the score file before *)
(* it opens the other one (grader.py:101-102) and no later session writes  *)
(* to the same file.                                                       *)
(***************************************************************************)
THEOREM LatestAlwaysComplete == Spec => []LatestIsComplete
<1>1. LatestInv => LatestIsComplete
  BY GraderAssumption DEF LatestInv, LatestIsComplete
<1> QED BY <1>1, LatestInvariance, PTL

-----------------------------------------------------------------------------
(* The score *)

\* No language is assessed twice.
DistinctInv ==
  /\ IsInjective(todo)
  /\ \A i \in DOMAIN graded, j \in DOMAIN todo : graded[i].language # todo[j]

\* c was counted on the report f of this session.
Counted(f, c) ==
  /\ f.session = session /\ c.passed <= f.outcome.passed
  /\ f.outcome.twice = 0 => c.passed = f.outcome.passed

\* The report of every lab that has results was written in this session.  The
\* session never goes back to a lab, and so the report is still there.
EarnedInv ==
  fresh =>
    /\ \A l \in Range(Languages), n \in Labs :
         report[l][n] \notin {None, Broken} => report[l][n].session = session
    /\ stage = "test" =>
         \A n \in Labs : n < Len(results) => Counted(report[Head(todo)][n], results[n + 1])
    /\ \A i \in DOMAIN graded :
         graded[i].results = NoPoints \/
         \A n \in Labs : Counted(report[graded[i].language][n], graded[i].results[n + 1])

\* Where an assessment and what is left come from.
LEMMA AssessedParts ==
  ASSUME TypeOK, todo # <<>>, NEW rs \in Seq(Counts), Assessed(rs)
  PROVE  /\ Head(todo) = todo[1] /\ 1 \in DOMAIN todo
         /\ \A j \in DOMAIN todo' : j + 1 \in DOMAIN todo /\ todo'[j] = todo[j + 1]
         /\ DOMAIN todo' \subseteq Nat \ {0}
         /\ \A i \in DOMAIN graded' :
              \/ i \in DOMAIN graded /\ graded'[i] = graded[i]
              \/ graded'[i].language = Head(todo) /\ graded'[i].results = rs
<1>1. todo \in Seq(Range(Languages)) /\ graded \in Seq(Assessments)
  BY DEF TypeOK, Assessments
<1>2. Head(todo) = todo[1] /\ 1 \in DOMAIN todo
  BY <1>1
<1>3. todo' = Tail(todo)
  BY DEF Assessed
<1>4. /\ \A j \in DOMAIN todo' : j + 1 \in DOMAIN todo /\ todo'[j] = todo[j + 1]
      /\ DOMAIN todo' \subseteq Nat \ {0}
  BY <1>1, <1>3
<1> DEFINE a == [language |-> Head(todo), results |-> rs]
<1>5. graded' = Append(graded, a)
  BY DEF Assessed
<1>6. ASSUME NEW i \in DOMAIN graded'
      PROVE  \/ i \in DOMAIN graded /\ graded'[i] = graded[i]
             \/ graded'[i] = a
  <2> HIDE DEF a
  <2> QED BY <1>1, <1>5
<1> QED BY <1>2, <1>4, <1>6

LEMMA DistinctAssessed ==
  ASSUME TypeOK, DistinctInv, todo # <<>>, NEW rs \in Seq(Counts), Assessed(rs)
  PROVE  DistinctInv'
<1>1. IsInjective(todo')
  BY AssessedParts DEF DistinctInv, IsInjective
<1>2. ASSUME NEW i \in DOMAIN graded', NEW j \in DOMAIN todo'
      PROVE  graded'[i].language # todo'[j]
  <2>1. j + 1 \in DOMAIN todo /\ todo'[j] = todo[j + 1] /\ j + 1 # 1
    BY AssessedParts
  <2>2. Head(todo) = todo[1] /\ 1 \in DOMAIN todo
    BY AssessedParts
  <2>3. todo[1] # todo[j + 1]
    BY <2>1, <2>2 DEF DistinctInv, IsInjective
  <2> QED BY <2>1, <2>2, <2>3, AssessedParts DEF DistinctInv
<1> QED BY <1>1, <1>2 DEF DistinctInv

LEMMA DistinctNext ==
  ASSUME TypeOK, FlowInv, DistinctInv, [Next]_vars
  PROVE  DistinctInv'
<1>1. CASE todo' = <<>> /\ graded' = <<>>
  BY <1>1 DEF DistinctInv, IsInjective
<1>2. CASE UNCHANGED <<todo, graded>>
  BY <1>2 DEF DistinctInv
<1>3. ASSUME NEW ls \in Changed, Begin(ls)
      PROVE  DistinctInv'
  BY <1>3, ChangedType DEF Begin, DistinctInv
<1>4. CASE Build
  BY <1>2, <1>4, NoPointsType, DistinctAssessed DEF Build, FlowInv
<1>5. CASE RunLab
  <2>1. ASSUME NEW f \in Reports
        PROVE  Append(results, Count(f.outcome)) \in Seq(Counts)
    BY CountIsEarned DEF Reports, TypeOK
  <2> QED BY <1>1, <1>2, <1>5, <2>1, RunLabEffect, NoPointsType, DistinctAssessed DEF End
<1>6. CASE Write
  BY <1>1, <1>2, <1>6, WriteEffect DEF End
<1>7. CASE Killed
  BY <1>1, <1>7 DEF Killed, End
<1>8. CASE UNCHANGED vars
  BY <1>2, <1>8 DEF vars
<1> QED BY <1>3, <1>4, <1>5, <1>6, <1>7, <1>8 DEF Next, Go

LEMMA EarnedAssessed ==
  ASSUME TypeOK, DistinctInv, EarnedInv, fresh, UNCHANGED <<session, fresh>>,
         todo # <<>>, NEW rs \in Seq(Counts), Assessed(rs),
         \A l \in Range(Languages) : l # Head(todo) => report'[l] = report[l],
         \A l \in Range(Languages), n \in Labs :
           report'[l][n] \notin {None, Broken} => report'[l][n].session = session,
         rs = NoPoints \/ \A n \in Labs : Counted(report'[Head(todo)][n], rs[n + 1])
  PROVE  EarnedInv'
<1>1. stage' # "test"
  BY DEF Assessed
<1>2. ASSUME NEW i \in DOMAIN graded'
      PROVE  graded'[i].results = NoPoints \/
             \A n \in Labs : Counted(report'[graded'[i].language][n], graded'[i].results[n + 1])
  <2>1. CASE i \in DOMAIN graded /\ graded'[i] = graded[i]
    <3>1. graded[i].language # Head(todo)
      BY <2>1, AssessedParts DEF DistinctInv
    <3>2. graded[i].language \in Range(Languages)
      <4>1. graded \in Seq(Assessments)
        BY DEF TypeOK, Assessments
      <4>2. graded[i] \in Assessments
        BY <2>1, <4>1
      <4> QED BY <4>2 DEF Assessments
    <3>3. report'[graded[i].language] = report[graded[i].language]
      BY <3>1, <3>2
    <3> QED BY <2>1, <3>3 DEF EarnedInv
  <2>2. CASE graded'[i].language = Head(todo) /\ graded'[i].results = rs
    BY <2>2
  <2> QED BY <2>1, <2>2, AssessedParts
<1> QED BY <1>1, <1>2 DEF EarnedInv, Counted, NoPoints

LEMMA EarnedRunLab ==
  ASSUME TypeOK, FlowInv, DistinctInv, EarnedInv, RunLab
  PROVE  EarnedInv'
<1>1. PICK f \in {None, Broken} \cup Reports :
           /\ stage = "test" /\ Head(todo) \in Range(Languages) /\ Lab \in Labs
           /\ todo # <<>>
           /\ report' = [report EXCEPT ![Head(todo)][Lab] = f]
           /\ f \in {report[Head(todo)][Lab], Broken} \/ f.session = session
           /\ \/ f = None /\ Assessed(NoPoints)
              \/ f = Broken /\ End("raised")
              \/ /\ f \notin {None, Broken} /\ f \in Reports /\ Lab = LastLab
                 /\ Assessed(Append(results, Count(f.outcome)))
              \/ /\ f \notin {None, Broken} /\ f \in Reports /\ Lab # LastLab
                 /\ results' = Append(results, Count(f.outcome))
                 /\ UNCHANGED <<stage, todo, graded>>
           /\ UNCHANGED <<session, fresh, score, latest>>
  BY RunLabEffect
<1> SUFFICES ASSUME fresh
             PROVE  EarnedInv'
  BY <1>1 DEF EarnedInv
<1> DEFINE L == Head(todo)
           rs == Append(results, Count(f.outcome))
<1>2. /\ \A l \in Range(Languages) : l # L => report'[l] = report[l]
      /\ \A n \in Labs : n # Lab => report'[L][n] = report[L][n]
      /\ report'[L][Lab] = f
  BY <1>1 DEF TypeOK
<1>3. f \notin {None, Broken} => f.session = session
  BY <1>1 DEF EarnedInv
<1>4. ASSUME NEW l \in Range(Languages), NEW n \in Labs, report'[l][n] \notin {None, Broken}
      PROVE  report'[l][n].session = session
  BY <1>2, <1>3, <1>4 DEF EarnedInv
<1>5. CASE f = None /\ Assessed(NoPoints)
  BY <1>1, <1>2, <1>4, <1>5, EarnedAssessed, NoPointsType
<1>6. CASE End("raised")
  BY <1>1, <1>4, <1>6 DEF EarnedInv, End
<1>7. ASSUME f \in Reports, f \notin {None, Broken}
      PROVE  /\ rs \in Seq(Counts) /\ Len(rs) = Lab + 1
             /\ \A n \in Labs : n < Len(rs) => Counted(report'[L][n], rs[n + 1])
  <2>1. f.outcome \in Outcomes
    BY <1>7 DEF Reports
  <2>2. Counted(f, Count(f.outcome)) /\ Count(f.outcome) \in Counts
    BY <1>3, <1>7, <2>1, CountIsEarned DEF Counted
  <2>3. results \in Seq(Counts) /\ Lab = Len(results)
    BY DEF TypeOK, Lab
  <2> HIDE DEF L
  <2>4. /\ rs \in Seq(Counts) /\ Len(rs) = Lab + 1 /\ rs[Lab + 1] = Count(f.outcome)
        /\ \A k \in 1..Lab : rs[k] = results[k]
    BY <2>2, <2>3
  <2>5. ASSUME NEW n \in Labs, n < Len(rs), n # Lab
        PROVE  Counted(report'[L][n], rs[n + 1])
    <3>1. n < Len(results) /\ n + 1 \in 1..Lab
      BY <1>1, <2>3, <2>4, <2>5, GraderAssumption DEF Labs
    <3>2. report'[L][n] = report[L][n] /\ rs[n + 1] = results[n + 1]
      BY <1>2, <2>4, <2>5, <3>1
    <3> QED BY <1>1, <3>1, <3>2 DEF EarnedInv, L
  <2>6. Counted(report'[L][Lab], rs[Lab + 1])
    BY <1>2, <2>2, <2>4
  <2> QED BY <2>4, <2>5, <2>6
<1>8. CASE f \notin {None, Broken} /\ f \in Reports /\ Lab = LastLab /\ Assessed(rs)
  <2>1. \A n \in Labs : n < Len(rs)
    <3>1. Len(rs) = LastLab + 1
      BY <1>7, <1>8
    <3> HIDE DEF rs
    <3> QED BY <3>1, GraderAssumption DEF Labs
  <2>2. rs \in Seq(Counts) /\ \A n \in Labs : Counted(report'[Head(todo)][n], rs[n + 1])
    BY <1>7, <1>8, <2>1
  <2> HIDE DEF rs
  <2> QED BY <1>1, <1>2, <1>4, <1>8, <2>2, EarnedAssessed
<1>9. CASE /\ f \notin {None, Broken} /\ f \in Reports /\ Lab # LastLab
           /\ results' = rs /\ UNCHANGED <<stage, todo, graded>>
  <2>1. \A n \in Labs : n < Len(results') => Counted(report'[Head(todo)][n], results'[n + 1])
    BY <1>7, <1>9
  <2>2. \A i \in DOMAIN graded :
          report'[graded[i].language] = report[graded[i].language]
    <3>1. ASSUME NEW i \in DOMAIN graded
          PROVE  graded[i].language \in Range(Languages)
      <4>1. graded \in Seq(Assessments)
        BY DEF TypeOK, Assessments
      <4>2. graded[i] \in Assessments
        BY <4>1
      <4> QED BY <4>2 DEF Assessments
    <3>2. Head(todo) = todo[1] /\ 1 \in DOMAIN todo
      BY <1>1 DEF TypeOK
    <3> QED BY <1>2, <3>1, <3>2 DEF DistinctInv
  <2>3. UNCHANGED <<session, graded, todo>>
    BY <1>1, <1>9
  <2>4. \A n \in Labs :
          n < Len(results') => Counted(report[Head(todo)][n], results[n + 1])'
    BY <2>1, <2>3 DEF Counted
  <2>5. \A i \in DOMAIN graded :
          graded[i].results = NoPoints \/
          \A n \in Labs : Counted(report'[graded[i].language][n], graded[i].results[n + 1])
    BY <2>2 DEF EarnedInv
  <2>6. \A i \in DOMAIN graded' :
          graded'[i].results = NoPoints' \/
          \A n \in Labs : Counted(report[graded[i].language][n], graded[i].results[n + 1])'
    BY <2>3, <2>5 DEF Counted, NoPoints
  <2>7. \A l \in Range(Languages), n \in Labs :
          report'[l][n] \notin {None, Broken} => report'[l][n].session = session'
    BY <1>4, <2>3
  <2> QED BY <2>4, <2>6, <2>7 DEF EarnedInv
<1> QED BY <1>1, <1>5, <1>6, <1>8, <1>9

LEMMA EarnedNext ==
  ASSUME TypeOK, FlowInv, DistinctInv, EarnedInv, [Next]_vars
  PROVE  EarnedInv'
<1>1. ASSUME NEW ls \in Changed, Begin(ls)
      PROVE  EarnedInv'
  <2>1. stage' # "test" /\ graded' = <<>> /\ fresh' = (report' = Files(None))
    BY <1>1 DEF Begin
  <2>2. report' = Files(None) =>
          \A l \in Range(Languages), n \in Labs : report'[l][n] = None
    BY DEF Files
  <2> SUFFICES ASSUME fresh'
               PROVE  EarnedInv'
    BY DEF EarnedInv
  <2>3. report' = Files(None)
    BY <2>1
  <2>4. DOMAIN graded' = {}
    BY <2>1
  <2> QED BY <2>1, <2>2, <2>3, <2>4 DEF EarnedInv
<1>2. CASE UNCHANGED <<session, fresh, report>> /\ stage' # "test" /\ graded' \in {graded, <<>>}
  <2>1. CASE graded' = <<>>
    <3>1. DOMAIN graded' = {}
      BY <2>1
    <3> QED BY <1>2, <3>1 DEF EarnedInv
  <2>2. CASE graded' = graded
    BY <1>2, <2>2 DEF EarnedInv, Counted, NoPoints
  <2> QED BY <1>2, <2>1, <2>2
<1>3. CASE Build
  <2>1. UNCHANGED <<session, fresh, report>> /\ stage = "build" /\ todo # <<>> /\ results = <<>>
    BY <1>3 DEF Build, files, FlowInv
  <2>2. CASE stage' = "test" /\ UNCHANGED <<todo, results, graded>>
    <3>1. \A n \in Labs : ~(n < Len(results))
      BY <2>1, GraderAssumption DEF Labs
    <3> QED BY <2>1, <2>2, <3>1 DEF EarnedInv, Counted, NoPoints
  <2>3. CASE Assessed(NoPoints) /\ fresh
    <3>1. \A l \in Range(Languages), n \in Labs :
            report'[l][n] \notin {None, Broken} => report'[l][n].session = session
      BY <2>1, <2>3 DEF EarnedInv
    <3> QED BY <2>1, <2>3, <3>1, NoPointsType, EarnedAssessed
  <2>4. CASE ~fresh
    BY <2>1, <2>4 DEF EarnedInv
  <2> QED BY <1>3, <2>2, <2>3, <2>4 DEF Build
<1>4. CASE RunLab
  BY <1>4, EarnedRunLab
<1>5. CASE Write
  BY <1>2, <1>5, WriteEffect DEF End
<1>6. CASE Killed
  BY <1>2, <1>6 DEF Killed, End, files
<1>7. CASE UNCHANGED vars
  BY <1>7 DEF EarnedInv, Counted, NoPoints, vars, files
<1> QED BY <1>1, <1>3, <1>4, <1>5, <1>6, <1>7 DEF Next, Go

LEMMA EarnedInvariance == Spec => []EarnedInv
<1>1. Init => DistinctInv /\ EarnedInv
  BY DEF Init, Files, DistinctInv, IsInjective, EarnedInv
<1> QED BY <1>1, TypeInvariance, DistinctNext, EarnedNext, PTL DEF Spec

(***************************************************************************)
(* What is scored was earned: an assessment of a session that began        *)
(* without any report has no points, or counts for each lab tests that     *)
(* passed in a pytest of this session (grader.py:60-70, 79-81), because    *)
(* every report there is was written in it and no lab is run again.        *)
(***************************************************************************)
THEOREM ScoresAreEarned == Spec => []ScoreIsEarned
<1>1. EarnedInv => ScoreIsEarned
  BY DEF EarnedInv, ScoreIsEarned, Counted
<1> QED BY <1>1, EarnedInvariance, PTL

-----------------------------------------------------------------------------
(* Induction over a set of numbers, without an operator as parameter *)

LEMMA Least ==
  ASSUME NEW T \in SUBSET Nat, T # {}
  PROVE  \E x \in T : \A y \in T : x <= y
<1>1. IsWellFoundedOn(OpToRel(<, Nat), Nat)
  BY NatLessThanWellFounded, Zenon
<1>2. \E x \in T : \A y \in T : ~(<<y, x>> \in OpToRel(<, Nat))
  BY <1>1, WFMin, Zenon
<1>3. \E x \in T : \A y \in T : ~(<<y, x>> \in {ss \in Nat \X Nat : ss[1] < ss[2]})
  BY <1>2, Zenon DEF OpToRel
<1>4. PICK x \in T : \A y \in T : ~(<<y, x>> \in {ss \in Nat \X Nat : ss[1] < ss[2]})
  BY <1>3
<1>5. ASSUME NEW y \in T
      PROVE  x <= y
  <2>1. ~(<<y, x>> \in {ss \in Nat \X Nat : ss[1] < ss[2]})
    BY <1>4
  <2>2. <<y, x>> \in Nat \X Nat /\ x \in Nat /\ y \in Nat
    OBVIOUS
  <2>3. ~(<<y, x>>[1] < <<y, x>>[2])
    BY <2>1, <2>2
  <2> QED BY <2>2, <2>3
<1> QED BY <1>5

LEMMA Induction ==
  ASSUME NEW S \in SUBSET Nat, 0 \in S, \A n \in S : n + 1 \in S
  PROVE  S = Nat
<1> SUFFICES ASSUME Nat \ S # {}
             PROVE  FALSE
  OBVIOUS
<1>1. PICK x \in Nat \ S : \A y \in Nat \ S : x <= y
  BY Least
<1> QED BY <1>1

-----------------------------------------------------------------------------
(* Sums *)

\* s sums up what the labs 1, 2, ... of rs have earned.
Sums(s, rs) ==
  s = [n \in Labs |-> IF n = 0 THEN 0 ELSE s[n - 1] + Points(rs[n + 1])]

LEMMA SumsExist ==
  ASSUME NEW rs, \A n \in 1..LastLab : Points(rs[n + 1]) \in Nat
  PROVE  \E s : Sums(s, rs)
<1> DEFINE Part(s, m) ==
             s = [n \in 0..m |-> IF n = 0 THEN 0 ELSE s[n - 1] + Points(rs[n + 1])]
           S == {m \in Nat : \E s : Part(s, m)}
<1>1. 0 \in S
  <2> DEFINE s == [n \in 0..0 |-> 0]
  <2>1. Part(s, 0)
    OBVIOUS
  <2> QED BY <2>1
<1>2. ASSUME NEW m \in S
      PROVE  m + 1 \in S
  <2>1. PICK s : Part(s, m)
    OBVIOUS
  <2> DEFINE t == [n \in 0..(m + 1) |->
                     IF n = m + 1 THEN s[m] + Points(rs[m + 2]) ELSE s[n]]
  <2>2. ASSUME NEW n \in 0..(m + 1)
        PROVE  t[n] = IF n = 0 THEN 0 ELSE t[n - 1] + Points(rs[n + 1])
    <3>1. CASE n = m + 1
      BY <3>1
    <3>2. CASE n # m + 1
      <4>1. n \in 0..m
        BY <3>2
      <4>2. s[n] = IF n = 0 THEN 0 ELSE s[n - 1] + Points(rs[n + 1])
        BY <2>1, <4>1
      <4>3. n # 0 => n - 1 \in 0..m
        BY <4>1
      <4> QED BY <3>2, <4>1, <4>2, <4>3
    <3> QED BY <3>1, <3>2
  <2>3. Part(t, m + 1)
    BY <2>2
  <2> HIDE DEF t, Part
  <2> QED BY <2>3
<1>3. S = Nat
  <2> HIDE DEF S
  <2>1. S \in SUBSET Nat
    BY DEF S
  <2> QED BY <1>1, <1>2, <2>1, Induction
<1> QED BY <1>3, GraderAssumption DEF Sums, Labs

\* What Earned comes to.
LEMMA EarnedSums ==
  ASSUME NEW rs, \A n \in 1..LastLab : Points(rs[n + 1]) \in Nat
  PROVE  \E s \in [Labs -> Nat] :
           /\ Earned(rs) = s[LastLab] /\ s[0] = 0
           /\ \A n \in 1..LastLab : s[n] = s[n - 1] + Points(rs[n + 1])
<1> DEFINE s == CHOOSE s : Sums(s, rs)
<1>1. Sums(s, rs)
  BY SumsExist
<1>2. Earned(rs) = s[LastLab]
  BY DEF Earned, Sums
<1> HIDE DEF s
<1>3. /\ DOMAIN s = Labs /\ s[0] = 0
      /\ \A n \in 1..LastLab : s[n] = s[n - 1] + Points(rs[n + 1])
  BY <1>1, GraderAssumption DEF Sums, Labs
<1> DEFINE S == {n \in Nat : n \in Labs => s[n] \in Nat}
<1>4. S = Nat
  <2>1. 0 \in S
    BY <1>3
  <2>2. ASSUME NEW n \in S
        PROVE  n + 1 \in S
    <3> SUFFICES ASSUME n + 1 \in Labs
                 PROVE  s[n + 1] \in Nat
      OBVIOUS
    <3>1. n + 1 \in 1..LastLab /\ n \in Labs
      BY GraderAssumption DEF Labs
    <3>2. s[n] \in Nat /\ s[n + 1] = s[n] + Points(rs[n + 2])
      BY <1>3, <3>1
    <3>3. Points(rs[n + 2]) \in Nat
      BY <3>1
    <3> QED BY <3>2, <3>3
  <2> HIDE DEF S
  <2>3. S \in SUBSET Nat
    BY DEF S
  <2> QED BY <2>1, <2>2, <2>3, Induction
<1>5. \A n \in Labs : s[n] \in Nat
  BY <1>4, GraderAssumption DEF Labs
<1>6. s = [n \in Labs |-> s[n]]
  BY <1>1 DEF Sums
<1>7. s \in [Labs -> Nat]
  BY <1>5, <1>6
<1> QED BY <1>2, <1>3, <1>7

\* Whoever earns more in one lab, and not less in any, earns more.
LEMMA EarnedMonotone ==
  ASSUME NEW a, NEW b,
         \A n \in 1..LastLab : /\ Points(a[n + 1]) \in Nat /\ Points(b[n + 1]) \in Nat
                               /\ Points(a[n + 1]) <= Points(b[n + 1]),
         NEW k \in 1..LastLab, Points(a[k + 1]) < Points(b[k + 1])
  PROVE  Earned(a) < Earned(b)
<1>1. PICK s \in [Labs -> Nat] :
        /\ Earned(a) = s[LastLab] /\ s[0] = 0
        /\ \A n \in 1..LastLab : s[n] = s[n - 1] + Points(a[n + 1])
  BY EarnedSums
<1>2. PICK t \in [Labs -> Nat] :
        /\ Earned(b) = t[LastLab] /\ t[0] = 0
        /\ \A n \in 1..LastLab : t[n] = t[n - 1] + Points(b[n + 1])
  BY EarnedSums
<1> DEFINE S == {n \in Nat : n \in Labs => s[n] <= t[n] /\ (k <= n => s[n] < t[n])}
<1>3. S = Nat
  <2>1. 0 \in S
    BY <1>1, <1>2
  <2>2. ASSUME NEW n \in S
        PROVE  n + 1 \in S
    <3> SUFFICES ASSUME n + 1 \in Labs
                 PROVE  s[n + 1] <= t[n + 1] /\ (k <= n + 1 => s[n + 1] < t[n + 1])
      OBVIOUS
    <3>1. n + 1 \in 1..LastLab /\ n \in Labs
      BY GraderAssumption DEF Labs
    <3>2. /\ s[n] \in Nat /\ s[n + 1] = s[n] + Points(a[n + 2])
          /\ t[n] \in Nat /\ t[n + 1] = t[n] + Points(b[n + 2])
      BY <1>1, <1>2, <3>1
    <3>3. /\ Points(a[n + 2]) \in Nat /\ Points(b[n + 2]) \in Nat
          /\ Points(a[n + 2]) <= Points(b[n + 2])
          /\ k = n + 1 => Points(a[n + 2]) < Points(b[n + 2])
      BY <3>1
    <3>4. s[n] <= t[n] /\ (k <= n => s[n] < t[n])
      BY <3>1
    <3>5. k <= n + 1 => k <= n \/ k = n + 1
      OBVIOUS
    <3> HIDE DEF S
    <3> QED BY <3>2, <3>3, <3>4, <3>5
  <2> HIDE DEF S
  <2>3. S \in SUBSET Nat
    BY DEF S
  <2> QED BY <2>1, <2>2, <2>3, Induction
<1>4. s[LastLab] < t[LastLab]
  <2>1. LastLab \in S /\ LastLab \in Labs /\ k <= LastLab
    BY <1>3, GraderAssumption DEF Labs
  <2> QED BY <2>1
<1> QED BY <1>1, <1>2, <1>4

-----------------------------------------------------------------------------
(* Shares *)

\* A count whose total goes into what a lab is worth.
Exact == {c \in Counts : c.total # 0 => Scale % c.total = 0}

\* A part of a whole is never broken.
LEMMA Parts ==
  ASSUME NEW t \in Nat \ {0}, Scale % t = 0
  PROVE  Scale \div t \in Nat \ {0} /\ (Scale \div t) * t = Scale
BY GraderAssumption

LEMMA PointsType ==
  ASSUME NEW c \in Exact
  PROVE  Points(c) \in Nat
BY Parts DEF Exact, Counts, Points

LEMMA Multiples ==
  ASSUME NEW x \in Nat, NEW y \in Nat, NEW z \in Nat \ {0}
  PROVE  x * z < y * z <=> x < y
<1>1. CASE x < y
  <2>1. PICK d \in Nat \ {0} : y = x + d
    <3>1. y - x \in Nat \ {0} /\ y = x + (y - x)
      BY <1>1
    <3> QED BY <3>1
  <2>2. y * z = x * z + d * z
    BY <2>1
  <2>3. d * z > 0 /\ x * z \in Nat /\ d * z \in Nat
    BY <2>1
  <2> QED BY <1>1, <2>2, <2>3
<1>2. CASE y <= x
  <2>1. PICK d \in Nat : x = y + d
    <3>1. x - y \in Nat /\ x = y + (x - y)
      BY <1>2
    <3> QED BY <3>1
  <2>2. x * z = y * z + d * z
    BY <2>1
  <2>3. d * z \in Nat /\ y * z \in Nat
    BY <2>1
  <2> QED BY <1>2, <2>2, <2>3
<1> QED BY <1>1, <1>2

\* The larger share of its tests earns a lab more.
LEMMA BeatsEarns ==
  ASSUME NEW a \in Exact, NEW b \in Exact
  PROVE  Beats(a, b) <=> Points(b) < Points(a)
<1> DEFINE p == a.passed
           t == a.total
           q == b.passed
           u == b.total
           k == Scale \div t
           l == Scale \div u
<1>1. p \in Nat /\ t \in Nat /\ q \in Nat /\ u \in Nat
  BY DEF Exact, Counts
<1>2. Points(a) \in Nat /\ Points(b) \in Nat
  BY PointsType
<1>3. t # 0 => k \in Nat \ {0} /\ k * t = Scale /\ Points(a) = k * p
  <2>1. t # 0 => Scale % t = 0
    BY DEF Exact
  <2>2. t # 0 => Points(a) = k * p
    BY DEF Points
  <2> QED BY <1>1, <2>1, <2>2, Parts
<1>4. u # 0 => l \in Nat \ {0} /\ l * u = Scale /\ Points(b) = l * q
  <2>1. u # 0 => Scale % u = 0
    BY DEF Exact
  <2>2. u # 0 => Points(b) = l * q
    BY DEF Points
  <2> QED BY <1>1, <2>1, <2>2, Parts
<1>5. Beats(a, b) <=> /\ t > 0 /\ p > 0
                      /\ u > 0 => p * u > q * t
  BY DEF Beats
<1>6. (t = 0 => Points(a) = 0) /\ (u = 0 => Points(b) = 0)
  BY DEF Points
<1> HIDE DEF p, t, q, u, k, l
<1>7. CASE t = 0
  BY <1>2, <1>5, <1>6, <1>7
<1>8. CASE t # 0 /\ u = 0
  <2>1. Points(a) > 0 <=> p > 0
    BY <1>1, <1>3, <1>8
  <2> QED BY <1>1, <1>2, <1>5, <1>6, <1>8, <2>1
<1>9. CASE t # 0 /\ u # 0
  <2>1. /\ (k * p) * (t * u) = (k * t) * (p * u)
        /\ (l * q) * (t * u) = (l * u) * (q * t)
    BY <1>1, <1>3, <1>4, <1>9
  <2>2. /\ Points(a) * (t * u) = Scale * (p * u)
        /\ Points(b) * (t * u) = Scale * (q * t)
    BY <1>3, <1>4, <1>9, <2>1
  <2>3. t * u \in Nat \ {0} /\ p * u \in Nat /\ q * t \in Nat
    BY <1>1, <1>9
  <2>4. Points(b) < Points(a) <=> Points(b) * (t * u) < Points(a) * (t * u)
    BY <1>2, <2>3, Multiples
  <2>5. q * t < p * u <=> (q * t) * Scale < (p * u) * Scale
    BY <2>3, Multiples, GraderAssumption
  <2>6. (q * t) * Scale = Scale * (q * t) /\ (p * u) * Scale = Scale * (p * u)
    BY <2>3, GraderAssumption
  <2>7. p * u > q * t => p > 0
    BY <1>1, <2>3
  <2>8. Points(b) < Points(a) <=> q * t < p * u
    BY <2>2, <2>4, <2>5, <2>6
  <2> QED BY <1>1, <1>5, <1>9, <2>3, <2>7, <2>8
<1> QED BY <1>1, <1>7, <1>8, <1>9

-----------------------------------------------------------------------------
(* The best language *)

\* Every assessment has a result for every lab, and all of them are exact.
ExactInv ==
  /\ results \in Seq(Exact)
  /\ \A i \in DOMAIN graded : graded[i].results \in [1..(LastLab + 1) -> Exact]

LEMMA ExactAssessed ==
  ASSUME TypeOK, ExactInv, todo # <<>>,
         NEW rs \in [1..(LastLab + 1) -> Exact], Assessed(rs)
  PROVE  ExactInv'
<1>1. rs \in Seq(Counts)
  <2>1. LastLab + 1 \in Nat /\ rs \in [1..(LastLab + 1) -> Counts]
    BY GraderAssumption DEF Exact
  <2> QED BY <2>1
<1>2. results' = <<>>
  BY DEF Assessed
<1>3. \A i \in DOMAIN graded' : graded'[i].results \in [1..(LastLab + 1) -> Exact]
  BY <1>1, AssessedParts DEF ExactInv
<1>4. results' \in Seq(Exact)
  BY <1>2
<1> QED BY <1>3, <1>4 DEF ExactInv, Exact

LEMMA ExactNext ==
  ASSUME TypeOK, FlowInv, ExactInv, [Next]_vars
  PROVE  ExactInv'
<1>1. CASE results' = <<>> /\ graded' \in {graded, <<>>}
  <2>1. results' \in Seq(Exact)
    BY <1>1
  <2>2. CASE graded' = <<>>
    <3>1. DOMAIN graded' = {}
      BY <2>2
    <3> QED BY <2>1, <3>1 DEF ExactInv, Exact
  <2>3. CASE graded' = graded
    BY <2>1, <2>3 DEF ExactInv, Exact
  <2> QED BY <1>1, <2>2, <2>3
<1>2. CASE UNCHANGED <<results, graded>>
  BY <1>2 DEF ExactInv, Exact
<1>3. NoPoints \in [1..(LastLab + 1) -> Exact]
  <2>1. Scale % 1 = 0
    BY GraderAssumption
  <2> QED BY <2>1 DEF NoPoints, Exact, Counts
<1>4. ASSUME NEW ls \in Changed, Begin(ls)
      PROVE  ExactInv'
  BY <1>1, <1>4 DEF Begin
<1>5. CASE Build
  BY <1>2, <1>3, <1>5, ExactAssessed DEF Build, FlowInv
<1>6. CASE RunLab
  <2>1. PICK f \in {None, Broken} \cup Reports :
           /\ stage = "test" /\ Lab \in Labs /\ todo # <<>>
           /\ \/ f = None /\ Assessed(NoPoints)
              \/ f = Broken /\ End("raised")
              \/ /\ f \notin {None, Broken} /\ f \in Reports /\ Lab = LastLab
                 /\ Assessed(Append(results, Count(f.outcome)))
              \/ /\ f \notin {None, Broken} /\ f \in Reports /\ Lab # LastLab
                 /\ results' = Append(results, Count(f.outcome))
                 /\ UNCHANGED <<stage, todo, graded>>
    BY <1>6, RunLabEffect
  <2> DEFINE c == Count(f.outcome)
             rs == Append(results, c)
  <2>2. f \in Reports => c \in Exact
    BY CountIsEarned, ScaleAssumption DEF Reports, Exact
  <2> HIDE DEF c
  <2>3. f \in Reports => rs \in Seq(Exact) /\ Len(rs) = Lab + 1
    BY <2>2 DEF ExactInv, Lab
  <2> HIDE DEF rs
  <2>4. CASE f \in Reports /\ Lab = LastLab /\ Assessed(rs)
    <3>1. rs \in [1..(LastLab + 1) -> Exact]
      BY <2>3, <2>4
    <3> QED BY <2>1, <2>4, <3>1, ExactAssessed
  <2>5. CASE f \in Reports /\ results' = rs /\ UNCHANGED graded
    BY <2>3, <2>5 DEF ExactInv, Exact
  <2>6. CASE End("raised")
    BY <1>1, <2>6 DEF End
  <2>7. CASE Assessed(NoPoints)
    BY <1>3, <2>1, <2>7, ExactAssessed
  <2> QED BY <2>1, <2>4, <2>5, <2>6, <2>7 DEF c, rs
<1>7. CASE Write
  BY <1>1, <1>2, <1>7, WriteEffect DEF End
<1>8. CASE Killed
  BY <1>1, <1>8 DEF Killed, End
<1>9. CASE UNCHANGED vars
  BY <1>2, <1>9 DEF vars
<1> QED BY <1>4, <1>5, <1>6, <1>7, <1>8, <1>9 DEF Next, Go

LEMMA ExactInvariance == Spec => []ExactInv
<1>1. Init => ExactInv
  <2> SUFFICES ASSUME Init
               PROVE  ExactInv
    OBVIOUS
  <2>1. results \in Seq(Exact) /\ DOMAIN graded = {}
    BY DEF Init
  <2> QED BY <2>1 DEF ExactInv
<1> QED BY <1>1, TypeInvariance, ExactNext, PTL DEF Spec

\* What an assessment is worth.
LEMMA EarnedType ==
  ASSUME NEW rs \in [1..(LastLab + 1) -> Exact]
  PROVE  /\ \A n \in 1..LastLab : rs[n + 1] \in Exact /\ Points(rs[n + 1]) \in Nat
         /\ Earned(rs) \in Nat
<1>1. \A n \in 1..LastLab : rs[n + 1] \in Exact
  BY GraderAssumption
<1>2. \A n \in 1..LastLab : Points(rs[n + 1]) \in Nat
  BY <1>1, PointsType
<1>3. LastLab \in Labs
  BY GraderAssumption DEF Labs
<1> QED BY <1>1, <1>2, <1>3, EarnedSums

\* There is always a best one.
LEMMA BestExists ==
  ASSUME TypeOK, ExactInv, graded # <<>>
  PROVE  Best # {}
<1> DEFINE E(i) == Earned(graded[i].results)
           First(k, m) == \A j \in 1..m : E(j) <= E(k) /\ (j < k => E(j) < E(k))
           S == {m \in Nat : m + 1 <= Len(graded) => \E k \in 1..(m + 1) : First(k, m + 1)}
<1>1. DOMAIN graded = 1..Len(graded) /\ Len(graded) \in Nat \ {0}
  BY DEF TypeOK
<1>2. \A i \in DOMAIN graded : E(i) \in Nat
  BY EarnedType DEF ExactInv
<1> HIDE DEF E
<1>3. S = Nat
  <2>1. 0 \in S
    <3> SUFFICES ASSUME 1 <= Len(graded)
                 PROVE  \E k \in 1..1 : First(k, 1)
      OBVIOUS
    <3>1. E(1) \in Nat
      BY <1>1, <1>2
    <3> QED BY <3>1
  <2>2. ASSUME NEW m \in S
        PROVE  m + 1 \in S
    <3> SUFFICES ASSUME m + 2 <= Len(graded)
                 PROVE  \E k \in 1..(m + 2) : First(k, m + 2)
      OBVIOUS
    <3>1. PICK k \in 1..(m + 1) : First(k, m + 1)
      BY <1>1
    <3>2. \A j \in 1..(m + 2) : E(j) \in Nat
      BY <1>1, <1>2
    <3>3. CASE E(m + 2) <= E(k)
      <4>1. First(k, m + 2)
        BY <3>1, <3>2, <3>3
      <4> QED BY <4>1
    <3>4. CASE E(k) < E(m + 2)
      <4>1. First(m + 2, m + 2)
        BY <3>1, <3>2, <3>4
      <4> QED BY <4>1
    <3> QED BY <3>2, <3>3, <3>4
  <2> HIDE DEF S
  <2>3. S \in SUBSET Nat
    BY DEF S
  <2> QED BY <2>1, <2>2, <2>3, Induction
<1>4. \E k \in DOMAIN graded : \A j \in DOMAIN graded : E(j) <= E(k) /\ (j < k => E(j) < E(k))
  <2>1. Len(graded) - 1 \in S
    <3> HIDE DEF S
    <3> QED BY <1>1, <1>3
  <2>2. PICK k \in 1..Len(graded) : First(k, Len(graded))
    <3>1. (Len(graded) - 1) + 1 = Len(graded)
      BY <1>1
    <3> QED BY <1>1, <2>1, <3>1
  <2> QED BY <1>1, <2>2
<1> QED BY <1>4 DEF Best, E

(***************************************************************************)
(* The score file names a language that none of the others outdoes, for    *)
(* any number of labs and any numbers of tests: a language that is better  *)
(* in one scored lab and not worse in any has a larger sum (grader.py:82), *)
(* and max() takes the first one of the largest (grader.py:94).            *)
(***************************************************************************)
THEOREM BestAlwaysChosen == Spec => []BestIsChosen
<1>1. TypeOK /\ ExactInv => BestIsChosen
  <2> SUFFICES ASSUME TypeOK, ExactInv, graded # <<>>
               PROVE  \E a \in Best : \A i \in DOMAIN graded :
                        ~ /\ \E n \in Labs \ {0} :
                               Beats(graded[i].results[n + 1], a.results[n + 1])
                          /\ \A n \in Labs \ {0} :
                               ~Beats(a.results[n + 1], graded[i].results[n + 1])
    BY DEF BestIsChosen
  <2>1. PICK a \in Best : TRUE
    BY BestExists
  <2>2. PICK m \in DOMAIN graded :
          /\ a = graded[m]
          /\ \A j \in DOMAIN graded : Earned(graded[j].results) <= Earned(graded[m].results)
    BY DEF Best
  <2>3. ASSUME NEW i \in DOMAIN graded,
               NEW n \in Labs \ {0}, Beats(graded[i].results[n + 1], a.results[n + 1]),
               \A k \in Labs \ {0} : ~Beats(a.results[k + 1], graded[i].results[k + 1])
        PROVE  FALSE
    <3> DEFINE x == a.results
               y == graded[i].results
    <3>1. x \in [1..(LastLab + 1) -> Exact] /\ y \in [1..(LastLab + 1) -> Exact]
      BY <2>2 DEF ExactInv
    <3>2. Labs \ {0} = 1..LastLab
      BY GraderAssumption DEF Labs
    <3> HIDE DEF x, y
    <3>3. Points(x[n + 1]) < Points(y[n + 1])
      BY <2>3, <3>1, <3>2, EarnedType, BeatsEarns DEF x, y
    <3>4. ASSUME NEW k \in 1..LastLab
          PROVE  /\ Points(x[k + 1]) \in Nat /\ Points(y[k + 1]) \in Nat
                 /\ Points(x[k + 1]) <= Points(y[k + 1])
      <4>1. ~(Points(y[k + 1]) < Points(x[k + 1]))
        BY <2>3, <3>1, <3>2, EarnedType, BeatsEarns DEF x, y
      <4>2. Points(x[k + 1]) \in Nat /\ Points(y[k + 1]) \in Nat
        BY <3>1, EarnedType
      <4> QED BY <4>1, <4>2
    <3>5. Earned(x) < Earned(y)
      BY <3>2, <3>3, <3>4, EarnedMonotone
    <3>6. Earned(y) <= Earned(x) /\ Earned(x) \in Nat /\ Earned(y) \in Nat
      BY <2>2, <3>1, EarnedType DEF x, y
    <3> QED BY <3>5, <3>6
  <2> QED BY <2>3
<1> QED BY <1>1, TypeInvariance, ExactInvariance, PTL
=============================================================================
