------------------------------ MODULE RdmaCheck ------------------------------
(***************************************************************************)
(* scripts/rdma_check.cpp: two processes of one host, each with verbs      *)
(* resources of its own, check one RDMA WRITE.  A socket pair carries the  *)
(* metadata and the tokens R (my queue pair is ready), D (the WRITE is     *)
(* done) and V (the payload and its guards are right), never the payload.  *)
(* The sender is the parent: it waits for the receiver and its exit status *)
(* is the answer that doctor.py reads.                                     *)
(*                                                                         *)
(* Verbs, the fabric and the socket may fail if faults is TRUE; then a     *)
(* wait may also reach its time limit and a process may be killed.         *)
(***************************************************************************)
EXTENDS Integers, Sequences, SequencesExt

CONSTANT None  \* no exit status yet

ASSUME NoneAssumption == None \notin {0, 1}

Processes == {"sender", "receiver"}

Other(p) == IF p = "sender" THEN "receiver" ELSE "sender"

VARIABLES
  faults,      \* whether anything goes wrong
  at,          \* where a process is in run_endpoint
  held,        \* its verbs resources
  todo,        \* those that cleanup has not come to
  qp,          \* the state of its queue pair
  inbox,       \* what it has not yet read from its end of the socket pair
  shut,        \* its end is closed
  result,      \* its exit status so far
  wire,        \* the WRITE: "none", "posted", "success" or "error"
  buffer,      \* the receiver's: "clean", "written" or "damaged"
  verified,    \* the receiver has found every byte as expected
  exit         \* the exit status of the parent

vars == <<faults, at, held, todo, qp, inbox, shut, result, wire, buffer, verified,
          exit>>

\* The resources in the order in which they are created.
Created == <<"context", "pd", "mr", "cq", "qp">>
\* Slip: the completion queue goes before the queue pair that uses it.
ReleasedEarly == <<"cq", "qp", "mr", "pd", "context">>
\* The order in which cleanup releases them.
Released == <<"qp", "mr", "cq", "pd", "context">>

\* What has to be released before a resource can be.
Users(x) ==
  CASE x = "context" -> {"pd", "mr", "cq", "qp"}
    [] x = "pd" -> {"mr", "qp"}
    [] x = "cq" -> {"qp"}
    [] OTHER -> {}

Goto(p, place) == at' = [at EXCEPT ![p] = place]

\* An exception: the process prints its stage and cleans up.
Fail(p) ==
  /\ Goto(p, "cleanup")
  /\ result' = [result EXCEPT ![p] = 1]
  /\ UNCHANGED <<held, todo, qp, inbox, shut, wire, buffer, verified, exit>>

-----------------------------------------------------------------------------
(* The socket pair *)

\* send_bytes: the message arrives, or the other end is closed.
SendBytes(p, place, message, next) ==
  /\ at[p] = place
  /\ \/ /\ ~shut[Other(p)]
        /\ inbox' = [inbox EXCEPT ![Other(p)] = Append(@, message)]
        /\ Goto(p, next)
        /\ UNCHANGED <<held, todo, qp, shut, result, wire, buffer, verified, exit>>
     \/ shut[Other(p)] /\ Fail(p)

\* Slip: nobody looks at the clock or at the other end.
ReceiveForever(p, place, message, next) ==
  /\ at[p] = place /\ inbox[p] # <<>>
  /\ \/ /\ Head(inbox[p]) = message
        /\ inbox' = [inbox EXCEPT ![p] = Tail(@)]
        /\ Goto(p, next)
        /\ UNCHANGED <<held, todo, qp, shut, result, wire, buffer, verified, exit>>
     \/ Head(inbox[p]) # message /\ Fail(p)

\* receive_bytes and receive_token: the message is there and is the expected
\* one, or it is another, or there is none and the other end is closed, or
\* there has been none for too long.
ReceiveBytes(p, place, message, next) ==
  /\ at[p] = place
  /\ \/ /\ inbox[p] # <<>> /\ Head(inbox[p]) = message
        /\ inbox' = [inbox EXCEPT ![p] = Tail(@)]
        /\ Goto(p, next)
        /\ UNCHANGED <<held, todo, qp, shut, result, wire, buffer, verified, exit>>
     \/ inbox[p] # <<>> /\ Head(inbox[p]) # message /\ Fail(p)
     \/ inbox[p] = <<>> /\ (shut[Other(p)] \/ faults) /\ Fail(p)

-----------------------------------------------------------------------------
(* run_endpoint *)

\* create_resources gets one after the other and stops at the first one that
\* cannot be had.
CreateResources(p) ==
  /\ at[p] = "resources"
  /\ \/ /\ held[p] = Range(Created)
        /\ qp' = [qp EXCEPT ![p] = "RESET"]
        /\ Goto(p, "offering")
        /\ UNCHANGED <<held, todo, inbox, shut, result, wire, buffer, verified, exit>>
     \/ /\ \E i \in DOMAIN Created :
             /\ \A j \in DOMAIN Created : Created[j] \in held[p] <=> j < i
             /\ held' = [held EXCEPT ![p] = @ \cup {Created[i]}]
        /\ UNCHANGED <<at, todo, qp, inbox, shut, result, wire, buffer, verified, exit>>
     \/ held[p] # Range(Created) /\ faults /\ Fail(p)

\* connect_qp takes the queue pair to RTS, or stops on the way.
ConnectQP(p) ==
  /\ at[p] = "connecting"
  /\ \E s \in IF faults THEN {"RESET", "INIT", "RTR", "RTS"} ELSE {"RTS"} :
       /\ qp' = [qp EXCEPT ![p] = s]
       /\ IF s = "RTS" THEN Goto(p, "ready") /\ UNCHANGED result
          ELSE Goto(p, "cleanup") /\ result' = [result EXCEPT ![p] = 1]
  /\ UNCHANGED <<held, todo, inbox, shut, wire, buffer, verified, exit>>

\* write_and_wait posts the WRITE ...
PostWrite ==
  /\ at["sender"] = "writing"
  /\ \/ /\ wire' = "posted" /\ Goto("sender", "polling")
        /\ UNCHANGED <<held, todo, qp, inbox, shut, result, buffer, verified, exit>>
     \/ faults /\ Fail("sender")

\* Slip: a WRITE that has been posted counts as done.
PollOnce ==
  /\ at["sender"] = "polling"
  /\ \/ /\ wire \in {"posted", "success"}
        /\ Goto("sender", "done")
        /\ UNCHANGED <<held, todo, qp, inbox, shut, result, wire, buffer, verified, exit>>
     \/ wire = "error" /\ Fail("sender")
     \/ wire = "posted" /\ faults /\ Fail("sender")

\* ... and polls until it has ended, for as long as the time limit allows.
Poll ==
  /\ at["sender"] = "polling"
  /\ \/ /\ wire = "success"
        /\ Goto("sender", "done")
        /\ UNCHANGED <<held, todo, qp, inbox, shut, result, wire, buffer, verified, exit>>
     \/ wire = "error" /\ Fail("sender")
     \/ wire = "posted" /\ faults /\ Fail("sender")

\* verify
Verify ==
  /\ at["receiver"] = "verifying"
  /\ \/ /\ buffer = "written" /\ verified' = TRUE
        /\ Goto("receiver", "verified")
        /\ UNCHANGED <<held, todo, qp, inbox, shut, result, wire, buffer, exit>>
     \/ buffer # "written" /\ Fail("receiver")

\* cleanup releases one resource after the other, whatever fails.  One that
\* others still use cannot be released.
Cleanup(p) ==
  /\ at[p] = "cleanup" /\ todo[p] # <<>>
  /\ todo' = [todo EXCEPT ![p] = Tail(@)]
  /\ LET x == Head(todo[p])
         used == Users(x) \cap held[p] # {}
     IN \/ /\ x \notin held[p] \/ ~used
           /\ held' = [held EXCEPT ![p] = @ \ {x}]
           /\ UNCHANGED result
        \/ /\ x \in held[p] /\ (used \/ faults)
           /\ result' = [result EXCEPT ![p] = 1]
           /\ UNCHANGED held
  /\ UNCHANGED <<at, qp, inbox, shut, wire, buffer, verified, exit>>

\* The process closes its end; the receiver exits.
Close(p) ==
  /\ at[p] = "cleanup" /\ todo[p] = <<>>
  /\ shut' = [shut EXCEPT ![p] = TRUE]
  /\ Goto(p, "ended")
  /\ UNCHANGED <<held, todo, qp, inbox, result, wire, buffer, verified, exit>>

\* Slip: the parent answers for itself alone.
WaitForNobody ==
  /\ at["sender"] = "ended" /\ exit = None
  /\ exit' = result["sender"]
  /\ UNCHANGED <<at, held, todo, qp, inbox, shut, result, wire, buffer, verified>>

\* Slip: the failures are counted.
WaitAndCount ==
  /\ at["sender"] = "ended" /\ exit = None /\ at["receiver"] = "ended"
  /\ exit' = result["sender"] + result["receiver"]
  /\ UNCHANGED <<at, held, todo, qp, inbox, shut, result, wire, buffer, verified>>

\* waitpid: the parent exits when the receiver has, and fails if it has failed.
WaitForReceiver ==
  /\ at["sender"] = "ended" /\ exit = None /\ at["receiver"] = "ended"
  /\ exit' = IF result["receiver"] = 0 THEN result["sender"] ELSE 1
  /\ UNCHANGED <<at, held, todo, qp, inbox, shut, result, wire, buffer, verified>>

-----------------------------------------------------------------------------
(* What is not the program *)

\* The fabric ends a WRITE while the sender has its queue pair: it lands if the
\* receiver's is ready, and fails if it is not there to answer.
Reachable ==
  "qp" \in held["receiver"] /\ "mr" \in held["receiver"] /\ qp["receiver"] \in {"RTR", "RTS"}

Fabric ==
  /\ UNCHANGED faults
  /\ wire = "posted" /\ "qp" \in held["sender"]
  /\ \/ /\ Reachable
        /\ wire' = "success"
        /\ buffer' \in IF faults THEN {"written", "damaged"} ELSE {"written"}
     \/ /\ ~Reachable \/ faults
        /\ wire' = "error"
        /\ buffer' \in IF Reachable THEN {"clean", "written", "damaged"} ELSE {buffer}
  /\ UNCHANGED <<at, held, todo, qp, inbox, shut, result, verified, exit>>

\* The state of the processes when those in ps have been killed: the kernel
\* releases what they had, and a killed sender has a status at once.
Dead(ps) ==
  /\ at' = [p \in Processes |-> IF p \in ps THEN "ended" ELSE at[p]]
  /\ held' = [p \in Processes |-> IF p \in ps THEN {} ELSE held[p]]
  /\ shut' = [p \in Processes |-> p \in ps \/ shut[p]]
  /\ result' = [p \in Processes |->
       IF p \in ps /\ (at[p] # "ended" \/ (p = "sender" /\ exit = None))
       THEN 1 ELSE result[p]]
  /\ exit' = IF "sender" \in ps /\ exit = None THEN 1 ELSE exit
  /\ UNCHANGED <<faults, todo, qp, inbox, wire, buffer, verified>>

\* A signal ends a process that runs.
Killed(p) ==
  /\ faults
  /\ at[p] # "ended" \/ (p = "sender" /\ exit = None)
  /\ Dead({p})

-----------------------------------------------------------------------------
(* The specification *)

Init ==
  /\ faults \in BOOLEAN
  /\ at = [p \in Processes |-> "resources"]
  /\ held = [p \in Processes |-> {}]
  /\ todo = [p \in Processes |-> Released]
  /\ qp = [p \in Processes |-> "none"]
  /\ inbox = [p \in Processes |-> <<>>]
  /\ shut = [p \in Processes |-> FALSE]
  /\ result = [p \in Processes |-> 0]
  /\ wire = "none" /\ buffer = "clean" /\ verified = FALSE
  /\ exit = None

\* Slip: the sender does not wait for the receiver to be ready.
ConnectBlindly(p) ==
  \/ CreateResources(p)
  \/ SendBytes(p, "offering", "metadata", "answered")
  \/ ReceiveBytes(p, "answered", "metadata", "connecting")
  \/ ConnectQP(p)
  \/ SendBytes(p, "ready", "R", IF p = "sender" THEN "writing" ELSE "waiting")
  \/ ReceiveBytes(p, "waiting", "R", "watching")

\* The steps that both processes take.
Connect(p) ==
  \/ CreateResources(p)
  \/ SendBytes(p, "offering", "metadata", "answered")
  \/ ReceiveBytes(p, "answered", "metadata", "connecting")
  \/ ConnectQP(p)
  \/ SendBytes(p, "ready", "R", "waiting")
  \/ ReceiveBytes(p, "waiting", "R", IF p = "sender" THEN "writing" ELSE "watching")

Send ==
  \/ PostWrite \/ Poll
  \/ SendBytes("sender", "done", "D", "trusting")
  \/ ReceiveBytes("sender", "trusting", "V", "cleanup")
  \/ WaitForReceiver

Receive ==
  \/ ReceiveBytes("receiver", "watching", "D", "verifying")
  \/ Verify
  \/ SendBytes("receiver", "verified", "V", "cleanup")

Step(p) ==
  /\ UNCHANGED faults
  /\ \/ Connect(p) \/ Cleanup(p) \/ Close(p)
     \/ p = "sender" /\ Send
     \/ p = "receiver" /\ Receive

Next == Fabric \/ \E p \in Processes : Step(p) \/ Killed(p)

Spec == Init /\ [][Next]_vars

-----------------------------------------------------------------------------
(* Properties *)

(***************************************************************************)
(* Every variable has its type, and nothing is read that was not sent.     *)
(***************************************************************************)
TypeOK ==
  /\ faults \in BOOLEAN
  /\ at \in [Processes -> {"resources", "offering", "answered", "connecting", "ready",
                          "waiting", "writing", "polling", "done", "trusting",
                          "watching", "verifying", "verified", "cleanup", "ended"}]
  /\ held \in [Processes -> SUBSET Range(Created)]
  /\ todo \in [Processes -> Seq(Range(Created))]
  /\ qp \in [Processes -> {"none", "RESET", "INIT", "RTR", "RTS"}]
  /\ inbox \in [Processes -> Seq({"metadata", "R", "D", "V"})]
  /\ shut \in [Processes -> BOOLEAN] /\ result \in [Processes -> {0, 1}]
  /\ wire \in {"none", "posted", "success", "error"}
  /\ buffer \in {"clean", "written", "damaged"} /\ verified \in BOOLEAN
  /\ exit \in {None, 0, 1}

(***************************************************************************)
(* Exit status 0 means that the WRITE arrived: whatever fails, times out   *)
(* or is killed, the receiver has compared every byte, and both processes  *)
(* have released everything (rdma_check.cpp:360, 396-399).                 *)
(***************************************************************************)
PassMeansVerified ==
  exit = 0 =>
    /\ verified /\ buffer = "written"
    /\ \A p \in Processes : at[p] = "ended" /\ held[p] = {}

(***************************************************************************)
(* The WRITE is posted to a queue pair that is ready for it, unless the    *)
(* receiver has failed meanwhile (rdma_check.cpp:335-336): a READY token   *)
(* follows the last modify_qp of its process.                              *)
(***************************************************************************)
WriteFindsReady ==
  at["sender"] = "polling" =>
    qp["receiver"] = "RTS" /\ (result["receiver"] = 0 => "qp" \in held["receiver"])

(***************************************************************************)
(* The receiver looks at its buffer only when the WRITE has ended, so that *)
(* no byte changes under verify (rdma_check.cpp:345, 350-352).             *)
(***************************************************************************)
BufferSettled ==
  [][at["receiver"] \in {"verifying", "verified"} => buffer' = buffer]_vars

=============================================================================
