----------------------------- MODULE DoctorProofs -----------------------------
(***************************************************************************)
(* Proofs about Doctor: what its answers mean, and what it leaves running, *)
(* on top of what RdmaCheckProofs shows of the check that it runs.         *)
(***************************************************************************)
EXTENDS Doctor, RdmaCheckProofs

AllEnded == \A p \in Processes : at[p] = "ended"

\* Where main can be, given where run_command is.
StageInv ==
  /\ host \in {"other", "bare", "rdma"}
  /\ stage = "save report" => mode = "save"
  /\ stage = "build" => Asks
  /\ stage = "communication" => Asks /\ binary = "new"
  /\ place \in {"start", "wait"} => stage \in {"build", "communication"}
  /\ place = "cut" => stage = "returned"

\* A command runs while main waits for it, or has lost it.
CommandInv ==
  /\ compiler = "running" => (stage = "build" /\ place = "wait") \/ place = "cut"
  /\ started =>
       AllEnded \/ (stage = "communication" /\ place = "wait") \/ place = "cut"

AnswerInv ==
  /\ answer # None => stage = "returned"
  /\ answer = 0 => host = "rdma" /\ (mode = "check" => binary = "new" /\ exit = 0)

DoctorIInv == StageInv /\ CommandInv /\ AnswerInv

-----------------------------------------------------------------------------
(* The check under the supervision of doctor.py *)

\* What has ended stays as it is.
LEMMA EndsOnce ==
  ASSUME [Next]_vars
  PROVE  (exit # None => exit' = exit) /\ (AllEnded => AllEnded')
<1>1. ASSUME NEW p \in Processes, Step(p)
      PROVE  (exit # None => exit' = exit) /\ (AllEnded => AllEnded')
  <2>1. CASE Connect(p)
    BY <2>1 DEF Connect, CreateResources, SendBytes, ReceiveBytes, ConnectQP, Fail, AllEnded
  <2>2. CASE Cleanup(p) \/ Close(p)
    BY <2>2 DEF Cleanup, Close, AllEnded
  <2>3. CASE Send
    BY <2>3, ProcessNames
       DEF Send, PostWrite, Poll, SendBytes, ReceiveBytes, WaitForReceiver, Fail, AllEnded
  <2>4. CASE Receive
    BY <2>4, ProcessNames DEF Receive, Verify, SendBytes, ReceiveBytes, Fail, AllEnded
  <2> QED BY <1>1, <2>1, <2>2, <2>3, <2>4 DEF Step
<1>2. ASSUME NEW p \in Processes, Killed(p)
      PROVE  (exit # None => exit' = exit) /\ (AllEnded => AllEnded')
  BY <1>2 DEF Killed, Dead, AllEnded
<1>3. CASE UNCHANGED vars
  BY <1>3 DEF vars, AllEnded
<1>4. CASE Fabric
  BY <1>4 DEF Fabric, AllEnded
<1> QED BY <1>1, <1>2, <1>3, <1>4 DEF Next

\* To the processes of the check a step of doctor.py is one of their own, or
\* none, or the end of all.
LEMMA CheckSteps ==
  ASSUME [DoctorNext]_allVars
  PROVE  [Next]_vars \/ Dead(Processes)
<1>1. CASE Wait
  BY <1>1 DEF Wait, KillGroup
<1>2. CASE Supervise /\ ~Wait
  BY <1>2 DEF Supervise, Report, SaveReport, Start, checkVars
<1>3. CASE MainRaises \/ WaitInterrupted \/ Compile \/ Check(Next)
  BY <1>3 DEF MainRaises, WaitInterrupted, Compile, Check, checkVars
<1>4. CASE UNCHANGED allVars
  BY <1>4 DEF allVars, checkVars
<1> QED BY <1>1, <1>2, <1>3, <1>4 DEF DoctorNext

LEMMA CheckNext ==
  TypeOK /\ IInv /\ [DoctorNext]_allVars => TypeOK' /\ IInv'
<1> SUFFICES ASSUME TypeOK, IInv, [DoctorNext]_allVars PROVE TypeOK' /\ IInv'
  OBVIOUS
<1>1. CASE [Next]_vars
  BY <1>1, TypeNext, InvNext
<1>2. CASE Dead(Processes)
  BY <1>2, DeadType, DeadInv
<1> QED BY <1>1, <1>2, CheckSteps

-----------------------------------------------------------------------------
(* doctor.py *)

LEMMA DoctorBegins == DoctorInit => DoctorIInv
BY NoneAssumption DEF DoctorInit, DoctorIInv, StageInv, CommandInv, AnswerInv

\* main returns s when none of its commands is left.
LEMMA Answering ==
  ASSUME DoctorIInv, NEW s, Answer(s), UNCHANGED inputs,
         compiler' # "running", started' => AllEnded',
         s = 0 => host = "rdma" /\ (mode = "check" => binary' = "new" /\ exit' = 0)
  PROVE  DoctorIInv'
BY DEF Answer, inputs, DoctorIInv, StageInv, CommandInv, AnswerInv, Asks

\* Where no command runs none is left.
LEMMA Quiet ==
  ASSUME DoctorIInv, place # "cut", place # "wait"
  PROVE  compiler # "running" /\ (started => AllEnded)
BY DEF DoctorIInv, CommandInv

LEMMA ReportKeeps ==
  ASSUME DoctorIInv, Report \/ SaveReport
  PROVE  DoctorIInv'
<1>1. stage \in {"device report", "save report"} /\ UNCHANGED <<inputs, binary, checkVars>>
  BY DEF Report, SaveReport
<1>2. place \notin {"cut", "wait"}
  BY <1>1 DEF DoctorIInv, StageInv
<1>3. compiler' # "running" /\ (started' => AllEnded')
  BY <1>1, <1>2, Quiet DEF checkVars, vars, AllEnded
<1>4. ReportStatus = 0 => host = "rdma"
  <2>1. host = "other" \/ host = "bare" \/ host = "rdma"
    BY DEF DoctorIInv, StageInv
  <2>2. host = "other" => ReportStatus = 2
    BY DEF ReportStatus
  <2>3. host = "bare" => ReportStatus = 1
    BY DEF ReportStatus
  <2> QED BY <2>1, <2>2, <2>3
<1>5. CASE Report /\ ~Asks /\ Answer(ReportStatus)
  <2>1. host = "rdma" => mode # "check"
    BY <1>5 DEF Asks
  <2> QED BY <1>1, <1>3, <1>4, <1>5, <2>1, Answering
<1>6. CASE SaveReport /\ (Answer(ReportStatus) \/ Answer(1))
  <2>1. mode # "check"
    BY <1>6 DEF SaveReport, DoctorIInv, StageInv
  <2>2. Answer(ReportStatus) => DoctorIInv'
    BY <1>1, <1>3, <1>4, <2>1, Answering
  <2>3. Answer(1) => DoctorIInv'
    <3>1. 1 # 0
      OBVIOUS
    <3> QED BY <1>1, <1>3, <3>1, Answering
  <2> QED BY <1>6, <2>2, <2>3
<1>7. CASE Report /\ Asks /\ stage' = "build" /\ place' = "start" /\ UNCHANGED answer
  <2>1. answer' = None
    BY <1>1, <1>7 DEF DoctorIInv, AnswerInv
  <2> QED BY <1>1, <1>3, <1>7, <2>1, NoneAssumption
          DEF DoctorIInv, StageInv, CommandInv, AnswerInv, Asks, inputs
<1> QED BY <1>5, <1>6, <1>7 DEF Report, SaveReport

LEMMA RaisesKeeps ==
  ASSUME DoctorIInv, MainRaises
  PROVE  DoctorIInv'
<1>1. /\ UNCHANGED <<inputs, binary, checkVars>>
      /\ Answer(1) \/ Answer(130)
      /\ stage \in {"device report", "save report"} \/ place = "start"
  BY DEF MainRaises
<1>2. place \notin {"cut", "wait"}
  BY <1>1 DEF DoctorIInv, StageInv
<1>3. compiler' # "running" /\ (started' => AllEnded')
  BY <1>1, <1>2, Quiet DEF checkVars, vars, AllEnded
<1>4. ASSUME NEW s \in {1, 130}, Answer(s) PROVE DoctorIInv'
  <2>1. s # 0
    OBVIOUS
  <2> QED BY <1>1, <1>3, <1>4, <2>1, Answering
<1> QED BY <1>1, <1>4

\* Where the command that has just been started is waited for or lost.
LEMMA CommandKeeps ==
  ASSUME DoctorIInv, Start \/ WaitInterrupted
  PROVE  DoctorIInv'
<1>1. /\ UNCHANGED <<inputs, binary>> /\ place \in {"start", "wait"}
      /\ UNCHANGED vars
  BY DEF Start, WaitInterrupted, checkVars
<1>2. stage \in {"build", "communication"} /\ answer = None
  BY <1>1 DEF DoctorIInv, StageInv, AnswerInv
<1>3. CASE Interrupted
  <2>1. place' = "cut" /\ stage' = "returned" /\ answer' # 0
    BY <1>3 DEF Interrupted
  <2> QED BY <1>1, <2>1 DEF inputs, DoctorIInv, StageInv, CommandInv, AnswerInv
<1>4. CASE Start /\ place' = "wait" /\ UNCHANGED <<stage, answer>>
  <2>1. /\ compiler' = "running" => stage = "build" \/ compiler = "running"
        /\ started' => stage = "communication" \/ started
    BY <1>4, <1>2 DEF Start, Popen
  <2>2. place = "start"
    BY <1>4 DEF Start
  <2>3. compiler # "running" /\ (started => AllEnded)
    BY <2>2, Quiet
  <2>4. AllEnded => AllEnded'
    BY <1>1 DEF vars, AllEnded
  <2> QED BY <1>1, <1>2, <1>4, <2>1, <2>3, <2>4, NoneAssumption
          DEF inputs, DoctorIInv, StageInv, CommandInv, AnswerInv, Asks
<1> QED BY <1>3, <1>4 DEF Start, WaitInterrupted

LEMMA WaitKeeps ==
  ASSUME DoctorIInv, Wait
  PROVE  DoctorIInv'
<1>1. /\ place = "wait" /\ UNCHANGED inputs /\ KillGroup
      /\ stage \in {"build", "communication"} /\ answer = None /\ Asks
  BY DEF Wait, DoctorIInv, StageInv, AnswerInv
<1>2. PICK o \in CommandEnds : Continue(o) \/ Continue(130)
  BY DEF Wait
<1>3. o = 0 /\ stage = "communication" => exit = 0
  BY <1>2 DEF CommandEnds, Status
<1>4. compiler' # "running" /\ (started' => AllEnded')
  <2>1. CASE stage = "build"
    BY <1>1, <2>1 DEF KillGroup, DoctorIInv, CommandInv, vars, AllEnded
  <2>2. CASE stage # "build"
    BY <1>1, <2>2 DEF KillGroup, Dead, DoctorIInv, CommandInv, AllEnded
  <2> QED BY <2>1, <2>2
<1>5. CASE /\ binary' = "new" /\ stage' = "communication" /\ place' = "start"
           /\ UNCHANGED answer
  BY <1>1, <1>4, <1>5, NoneAssumption
     DEF inputs, DoctorIInv, StageInv, CommandInv, AnswerInv, Asks
<1>6. CASE o = 0 /\ stage = "communication" /\ Answer(0) /\ UNCHANGED binary
  <2>1. exit' = 0
    BY <1>1, <1>3, <1>6, NoneAssumption DEF KillGroup, Dead
  <2>2. host = "rdma" /\ binary' = "new"
    BY <1>1, <1>6 DEF Asks, DoctorIInv, StageInv
  <2> QED BY <1>1, <1>4, <1>6, <2>1, <2>2, Answering
<1>7. ASSUME NEW s, s # 0, Answer(s) PROVE DoctorIInv'
  BY <1>1, <1>4, <1>7, Answering
<1>8. Continue(o) => DoctorIInv'
  BY <1>5, <1>6, <1>7 DEF Continue
<1>9. Continue(130) => DoctorIInv'
  BY <1>7 DEF Continue
<1> QED BY <1>2, <1>8, <1>9

LEMMA DoctorNextKeeps == DoctorIInv /\ [DoctorNext]_allVars => DoctorIInv'
<1> SUFFICES ASSUME DoctorIInv, [DoctorNext]_allVars PROVE DoctorIInv'
  OBVIOUS
<1>1. CASE Compile
  BY <1>1 DEF Compile, DoctorIInv, StageInv, CommandInv, AnswerInv, inputs, doctor, vars,
              AllEnded, Asks
<1>2. CASE Check(Next) \/ UNCHANGED allVars
  <2>1. (exit # None => exit' = exit) /\ (AllEnded => AllEnded')
    BY <1>2, EndsOnce DEF Check, allVars, checkVars
  <2>2. UNCHANGED <<inputs, doctor, compiler, started>>
    BY <1>2 DEF Check, allVars, checkVars
  <2> QED BY <2>1, <2>2, NoneAssumption
          DEF DoctorIInv, StageInv, CommandInv, AnswerInv, inputs, doctor, Asks
<1> QED BY <1>1, <1>2, ReportKeeps, RaisesKeeps, CommandKeeps, WaitKeeps
        DEF DoctorNext, Supervise

LEMMA DoctorAlways == DoctorSpec => [](TypeOK /\ IInv /\ DoctorIInv)
<1>1. DoctorInit => TypeOK /\ IInv /\ DoctorIInv
  BY TypeInit, InvInit, DoctorBegins DEF DoctorInit
<1> QED BY <1>1, CheckNext, DoctorNextKeeps, PTL DEF DoctorSpec

-----------------------------------------------------------------------------
(* Types *)

LEMMA DoctorTypeInit == DoctorInit => DoctorTypeOK
BY TypeInit DEF DoctorInit, DoctorTypeOK

LEMMA AnswerType ==
  ASSUME DoctorTypeOK, NEW s \in {0, 1, 2, 130}, Answer(s), TypeOK',
         UNCHANGED inputs, compiler' \in {"none", "running", "done", "failed"},
         binary' \in {"none", "old", "new"}, started' \in BOOLEAN
  PROVE  DoctorTypeOK'
BY DEF Answer, inputs, DoctorTypeOK

LEMMA DoctorTypeNext ==
  DoctorTypeOK /\ TypeOK' /\ [DoctorNext]_allVars => DoctorTypeOK'
<1> SUFFICES ASSUME DoctorTypeOK, TypeOK', [DoctorNext]_allVars PROVE DoctorTypeOK'
  OBVIOUS
<1> USE DEF DoctorTypeOK
<1>1. CASE Report \/ SaveReport
  <2>1. ReportStatus \in {0, 1, 2}
    <3>1. host = "other" => ReportStatus = 2
      BY DEF ReportStatus
    <3>2. host = "bare" => ReportStatus = 1
      BY DEF ReportStatus
    <3>3. host = "rdma" => ReportStatus = 0
      BY DEF ReportStatus
    <3> QED BY <3>1, <3>2, <3>3
  <2>2. /\ UNCHANGED inputs /\ binary' \in {"none", "old", "new"}
        /\ compiler' \in {"none", "running", "done", "failed"} /\ started' \in BOOLEAN
    BY <1>1 DEF Report, SaveReport, checkVars
  <2>3. ASSUME NEW s \in {0, 1, 2}, Answer(s) PROVE DoctorTypeOK'
    BY <2>2, <2>3, AnswerType
  <2>4. CASE stage' = "build" /\ place' = "start" /\ UNCHANGED answer
    BY <2>2, <2>4 DEF inputs
  <2> HIDE DEF DoctorTypeOK
  <2> QED BY <1>1, <2>1, <2>3, <2>4 DEF Report, SaveReport
<1>2. CASE MainRaises
  <2>1. /\ UNCHANGED inputs /\ binary' \in {"none", "old", "new"}
        /\ compiler' \in {"none", "running", "done", "failed"} /\ started' \in BOOLEAN
    BY <1>2 DEF MainRaises, checkVars
  <2>2. ASSUME NEW s \in {1, 130}, Answer(s) PROVE DoctorTypeOK'
    BY <2>1, <2>2, AnswerType
  <2> HIDE DEF DoctorTypeOK
  <2> QED BY <1>2, <2>2 DEF MainRaises
<1>3. CASE Start \/ WaitInterrupted
  BY <1>3 DEF Start, Popen, WaitInterrupted, Interrupted, inputs, checkVars
<1>4. CASE Wait
  <2>1. /\ compiler' \in {"none", "running", "done", "failed"} /\ started' \in BOOLEAN
        /\ UNCHANGED inputs
    BY <1>4 DEF Wait, KillGroup
  <2>2. CommandEnds \subseteq {0, 1, 2, 130}
    BY DEF CommandEnds
  <2>3. ASSUME NEW s \in {0, 1, 2, 130}, Continue(s) PROVE DoctorTypeOK'
    <3>1. CASE binary' = "new" /\ stage' = "communication" /\ place' = "start"
               /\ UNCHANGED answer
      BY <2>1, <3>1 DEF inputs
    <3>2. CASE Answer(s) /\ UNCHANGED binary
      BY <2>1, <3>2, AnswerType
    <3> HIDE DEF DoctorTypeOK
    <3> QED BY <2>3, <3>1, <3>2 DEF Continue
  <2> HIDE DEF DoctorTypeOK
  <2> QED BY <1>4, <2>2, <2>3 DEF Wait
<1>5. CASE Compile \/ Check(Next) \/ UNCHANGED allVars
  BY <1>5 DEF Compile, Check, allVars, checkVars, inputs, doctor
<1> QED BY <1>1, <1>2, <1>3, <1>4, <1>5 DEF DoctorNext, Supervise

(***************************************************************************)
(* Every reachable state of doctor.py and the check it runs is well typed. *)
(***************************************************************************)
THEOREM DoctorTyped == DoctorSpec => []DoctorTypeOK
<1>1. TypeOK /\ IInv /\ [DoctorNext]_allVars => TypeOK'
  BY CheckNext
<1> QED BY <1>1, DoctorTypeInit, DoctorTypeNext, DoctorAlways, PTL DEF DoctorSpec

-----------------------------------------------------------------------------
(* What doctor.py promises *)

(***************************************************************************)
(* doctor.py answers 0 only on a Linux host with devices, and to --check   *)
(* only when the program it has built has verified its WRITE and both      *)
(* processes have ended with nothing left (doctor.py:102-103, 213-219).    *)
(***************************************************************************)
THEOREM PassesHonestly == DoctorSpec => []PassIsHonest
<1>1. TypeOK /\ IInv /\ DoctorIInv => PassIsHonest
  BY PassHolds DEF DoctorIInv, AnswerInv, PassMeansVerified, PassIsHonest
<1> QED BY <1>1, DoctorAlways, PTL

(***************************************************************************)
(* When doctor.py has returned nothing of its commands runs (doctor.py:68) *)
(* unless Ctrl-C came between Popen and try (:69-70) or before killpg      *)
(* (:74-76).                                                               *)
(***************************************************************************)
THEOREM LeavesNothing == DoctorSpec => []NoneSurvives
<1>1. DoctorIInv => NoneSurvives
  BY DEF DoctorIInv, CommandInv, AnswerInv, NoneSurvives, AllEnded
<1> QED BY <1>1, DoctorAlways, PTL

(***************************************************************************)
(* What the check promises by itself it keeps under doctor.py, which may   *)
(* stop both of its processes at any time: its exit status 0 means a       *)
(* verified WRITE (rdma_check.cpp:360, 396-399), ...                       *)
(***************************************************************************)
THEOREM CheckIsVerified == DoctorSpec => []PassMeansVerified
BY DoctorAlways, PassHolds, PTL

(***************************************************************************)
(* ... the WRITE finds a queue pair in RTS (rdma_check.cpp:335-336), ...   *)
(***************************************************************************)
THEOREM CheckWritesToReady == DoctorSpec => []WriteFindsReady
BY DoctorAlways, ReadyHolds, PTL

(***************************************************************************)
(* ... and nothing changes the buffer while the receiver verifies it       *)
(* (rdma_check.cpp:345, 350-352).                                          *)
(***************************************************************************)
THEOREM CheckBufferSettled == DoctorSpec => BufferSettled
<1>1. Dead(Processes) => buffer' = buffer
  BY DEF Dead
<1>2. TypeOK /\ IInv /\ [DoctorNext]_allVars =>
        [at["receiver"] \in {"verifying", "verified"} => buffer' = buffer]_vars
  BY <1>1, CheckSteps, BufferHolds
<1> QED BY <1>2, DoctorAlways, PTL DEF DoctorSpec, BufferSettled
=============================================================================
