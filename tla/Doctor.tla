------------------------------- MODULE Doctor -------------------------------
(***************************************************************************)
(* scripts/doctor.py, which reports the RDMA devices of the host, saves    *)
(* that report to a file, or builds and runs the check of module           *)
(* RdmaCheck: main, and run_command, which supervises a compiler or the    *)
(* two processes of the check as a process group of its own.               *)
(*                                                                         *)
(* The answer of doctor.py is its exit status.  If faults is TRUE, files   *)
(* and tools may be missing, commands may fail or take too long, and the   *)
(* user may press Ctrl-C, which only doctor.py gets: its commands run in   *)
(* sessions of their own.                                                  *)
(***************************************************************************)
EXTENDS RdmaCheck

VARIABLES
  mode,      \* what the command line asks for: "report", "save" or "check"
  host,      \* "other" than Linux, a "bare" Linux, or one with "rdma" devices
  stage,     \* where main is
  place,     \* where run_command is: "start", "wait" or "cut" off by Ctrl-C
  compiler,  \* the compiler: "none", "running", "done" or "failed"
  binary,    \* build/doctor/rdma_check: "none", from an "old" build or "new"
  started,   \* the processes of the check exist
  answer     \* the exit status of doctor.py

inputs == <<mode, host>>
doctor == <<stage, place, binary, answer>>
checkVars == <<compiler, started, vars>>
allVars == <<inputs, doctor, checkVars>>

Asks == mode = "check" /\ host = "rdma"

-----------------------------------------------------------------------------
(* main *)

\* main returns status s; no command is left.
Answer(s) ==
  /\ answer' = s
  /\ stage' = "returned" /\ place' = "none"

\* Ctrl-C where run_command does not see it: the command runs on.
Interrupted ==
  /\ answer' = 130
  /\ stage' = "returned" /\ place' = "cut"

\* report(): what it returns.
ReportStatus ==
  CASE host = "other" -> 2
    [] host = "bare" -> 1
    [] host = "rdma" -> 0

\* The device report without --report.  Its tools have five seconds each, and
\* their failures are printed.
Report ==
  /\ stage = "device report"
  /\ \/ ~Asks /\ Answer(ReportStatus)
     \/ Asks /\ stage' = "build" /\ place' = "start" /\ UNCHANGED answer
  /\ UNCHANGED <<inputs, binary, checkVars>>

\* save_report: of its commands only the last one, which is the device report
\* of another doctor.py, decides; it may be killed after fifteen seconds.
SaveReport ==
  /\ stage = "save report"
  /\ \/ Answer(ReportStatus)
     \/ faults /\ Answer(1)
  /\ UNCHANGED <<inputs, binary, checkVars>>

\* An OSError outside of a command, or KeyboardInterrupt.
MainRaises ==
  /\ faults
  /\ stage \in {"device report", "save report"} \/ place = "start"
  /\ Answer(1) \/ Answer(130)
  /\ UNCHANGED <<inputs, binary, checkVars>>

-----------------------------------------------------------------------------
(* run_command *)

\* The command is there.
Popen ==
  IF stage = "build"
  THEN compiler' = "running" /\ UNCHANGED started
  ELSE started' = TRUE /\ UNCHANGED compiler

\* Popen returns, or Ctrl-C comes before the try does.
Start ==
  /\ place = "start"
  /\ Popen
  /\ \/ place' = "wait" /\ UNCHANGED <<stage, answer>>
     \/ faults /\ Interrupted
  /\ UNCHANGED <<inputs, binary, vars>>

\* The status of a command that has ended, or None.
Status ==
  IF stage = "build"
  THEN CASE compiler = "running" -> None
         [] compiler = "done" -> 0
         [] OTHER -> 1
  ELSE exit

\* Slip: wait() without a time limit.
EndsForever ==
  IF Status = None THEN {} ELSE {IF Status = 0 THEN 0 ELSE 1}

\* Slip: wait() without a look at what it returns.
EndsUnseen ==
  {o \in {0} : Status # None} \cup {o \in {1, 130} : faults}

\* How wait() may end: it returns a status, the time is over, or it is Ctrl-C.
\* Anything but 0 is what main will answer.
CommandEnds ==
  {o \in {0, 1} : Status # None /\ (o = 0 <=> Status = 0)}
    \cup {o \in {1, 130} : faults}

\* Slip: killpg spares a group whose leader has ended.
KillUnfinished ==
  IF stage = "build"
  THEN /\ compiler' = IF compiler = "running" THEN "failed" ELSE compiler
       /\ UNCHANGED <<started, vars>>
  ELSE /\ IF exit = None THEN Dead(Processes) ELSE UNCHANGED vars
       /\ UNCHANGED <<compiler, started>>

\* killpg(SIGKILL): nothing is left of the command, whoever of it still ran.
KillGroup ==
  IF stage = "build"
  THEN /\ compiler' = IF compiler = "running" THEN "failed" ELSE compiler
       /\ UNCHANGED <<started, vars>>
  ELSE Dead(Processes) /\ UNCHANGED <<compiler, started>>

\* After run_command: the new binary replaces the old one as a whole and is
\* run, or main answers.
Continue(o) ==
  \/ /\ o = 0 /\ stage = "build"
     /\ binary' = "new" /\ stage' = "communication" /\ place' = "start"
     /\ UNCHANGED answer
  \/ o = 0 /\ stage = "communication" /\ Answer(0) /\ UNCHANGED binary
  \/ o # 0 /\ Answer(o) /\ UNCHANGED binary

\* The rest of run_command: when wait() ends, stop and reap the group.  Ctrl-C
\* during that is an answer, too.
Wait ==
  /\ place = "wait"
  /\ \E o \in CommandEnds :
       KillGroup /\ (Continue(o) \/ (faults /\ Continue(130)))
  /\ UNCHANGED inputs

\* Ctrl-C again, when wait() has ended and killpg has not been called.
WaitInterrupted ==
  /\ place = "wait" /\ faults
  /\ Interrupted
  /\ UNCHANGED <<inputs, binary, checkVars>>

-----------------------------------------------------------------------------
(* The commands *)

\* The compiler writes into a directory of its own and ends.
Compile ==
  /\ compiler = "running"
  /\ compiler' \in IF faults THEN {"done", "failed"} ELSE {"done"}
  /\ UNCHANGED <<inputs, doctor, started, vars>>

\* What the processes of the check do once they exist.
Check(A) == started /\ A /\ UNCHANGED <<inputs, doctor, compiler, started>>

-----------------------------------------------------------------------------
(* The specification *)

DoctorInit ==
  /\ Init
  /\ mode \in {"report", "save", "check"}
  /\ host \in {"other", "bare", "rdma"}
  /\ stage = IF mode = "save" THEN "save report" ELSE "device report"
  /\ place = "none"
  /\ compiler = "none" /\ binary \in {"none", "old"} /\ started = FALSE
  /\ answer = None

\* What doctor.py does by itself.
Supervise == Report \/ SaveReport \/ Start \/ Wait

DoctorNext ==
  Supervise \/ MainRaises \/ WaitInterrupted \/ Compile \/ Check(Next)

DoctorSpec == DoctorInit /\ [][DoctorNext]_allVars

\* doctor.py goes on, and so do the processes of the check and the fabric; a
\* compiler may hang when things go wrong.
FairDoctorSpec ==
  /\ DoctorSpec
  /\ WF_allVars(Supervise) /\ WF_allVars(~faults /\ Compile)
  /\ WF_allVars(Check(Fabric)) /\ \A p \in Processes : WF_allVars(Check(Step(p)))

-----------------------------------------------------------------------------
(* Properties *)

(***************************************************************************)
(* Every variable has its type; an exit status is 0, 1, 2 or 130.          *)
(***************************************************************************)
DoctorTypeOK ==
  /\ TypeOK
  /\ mode \in {"report", "save", "check"} /\ host \in {"other", "bare", "rdma"}
  /\ stage \in {"device report", "save report", "build", "communication", "returned"}
  /\ place \in {"none", "start", "wait", "cut"}
  /\ compiler \in {"none", "running", "done", "failed"}
  /\ binary \in {"none", "old", "new"} /\ started \in BOOLEAN
  /\ answer \in {None, 0, 1, 2, 130}

(***************************************************************************)
(* doctor.py answers 0 only on a Linux host with devices, and with --check *)
(* only if the program it has just built (doctor.py:102-103) has verified  *)
(* its WRITE and both processes have ended with nothing left (:213-219),   *)
(* whatever times out, fails, is killed or is interrupted meanwhile.       *)
(***************************************************************************)
PassIsHonest ==
  answer = 0 =>
    /\ host = "rdma"
    /\ mode = "check" =>
         /\ binary = "new" /\ verified /\ buffer = "written"
         /\ \A p \in Processes : at[p] = "ended" /\ held[p] = {}

(***************************************************************************)
(* When doctor.py has returned, no process of its commands runs            *)
(* (doctor.py:68): not the second process of a check whose first one was   *)
(* killed or timed out, either.  Only a Ctrl-C in one of two short windows *)
(* leaves processes behind, between Popen and try (:69-70) and before      *)
(* killpg (:74-76), although :227 says "child processes stopped".          *)
(***************************************************************************)
NoneSurvives ==
  answer # None /\ place # "cut" =>
    /\ compiler # "running"
    /\ started => \A p \in Processes : at[p] = "ended"

(***************************************************************************)
(* doctor.py always answers: the commands have time limits                 *)
(* (doctor.py:43, 71, 149), even if a compiler hangs.                      *)
(***************************************************************************)
Answers == <>(answer # None)

(***************************************************************************)
(* A check that has been started comes to an end on its own limits         *)
(* (rdma_check.cpp:303-306, 247, 390-392), also when doctor.py is gone.    *)
(***************************************************************************)
Ends == started ~> exit # None

(***************************************************************************)
(* If nothing fails, doctor.py --check passes: tokens never get stuck, the *)
(* WRITE arrives, everything is released in an order that verbs accept     *)
(* (rdma_check.cpp:283-292), and doctor.py does not cut its command short. *)
(***************************************************************************)
Passes == ~faults /\ Asks => <>(answer = 0)

=============================================================================
