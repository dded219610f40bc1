-------------------------- MODULE RdmaCheckProofs --------------------------
(***************************************************************************)
(* Proofs about RdmaCheck: what an exit status of 0 means, and when the    *)
(* WRITE is posted and the buffer read, whatever fails.                    *)
(***************************************************************************)
EXTENDS RdmaCheck, TLAPS

-----------------------------------------------------------------------------
(* Types *)

LEMMA ProcessNames ==
  /\ "sender" \in Processes /\ "receiver" \in Processes
  /\ Other("sender") = "receiver" /\ Other("receiver") = "sender"
  /\ \A p \in Processes : p = "sender" \/ p = "receiver"
BY DEF Processes, Other

\* The verbs resources, and the orders in which they come and go.
Resources == {"context", "pd", "mr", "cq", "qp"}

LEMMA ResourceNames ==
  /\ Range(Created) = Resources /\ Range(Released) = Resources
  /\ Created \in Seq(Resources) /\ Released \in Seq(Resources)
<1>1. DOMAIN Created = 1..5 /\ DOMAIN Released = 1..5
  BY DEF Created, Released
<1>2. \A i \in 1..5 : i = 1 \/ i = 2 \/ i = 3 \/ i = 4 \/ i = 5
  OBVIOUS
<1>3. Range(Created) = {Created[1], Created[2], Created[3], Created[4], Created[5]}
  BY <1>1, <1>2 DEF Range
<1>4. Range(Released) = {Released[1], Released[2], Released[3], Released[4], Released[5]}
  BY <1>1, <1>2 DEF Range
<1>5. Range(Created) = Resources
  BY <1>3 DEF Created, Resources
<1>6. Range(Released) = Resources
  BY <1>4 DEF Released, Resources
<1>7. Created \in Seq(Resources) /\ Released \in Seq(Resources)
  BY DEF Created, Released, Resources
<1> QED BY <1>5, <1>6, <1>7

\* The places of run_endpoint.
Places == {"resources", "offering", "answered", "connecting", "ready",
           "waiting", "writing", "polling", "done", "trusting",
           "watching", "verifying", "verified", "cleanup", "ended"}

Messages == {"metadata", "R", "D", "V"}

LEMMA TypeInit == Init => TypeOK
<1> SUFFICES ASSUME Init PROVE TypeOK
  OBVIOUS
<1>1. todo \in [Processes -> Seq(Range(Created))]
  BY ResourceNames DEF Init
<1>2. inbox \in [Processes -> Seq({"metadata", "R", "D", "V"})]
  BY DEF Init
<1> HIDE DEF Init
<1>3. /\ held \in [Processes -> SUBSET Range(Created)]
      /\ result \in [Processes -> {0, 1}] /\ shut \in [Processes -> BOOLEAN]
  BY DEF Init
<1>4. /\ faults \in BOOLEAN /\ at \in [Processes -> Places]
      /\ qp \in [Processes -> {"none", "RESET", "INIT", "RTR", "RTS"}]
      /\ wire = "none" /\ buffer = "clean" /\ verified = FALSE /\ exit = None
  BY DEF Init, Places
<1> QED BY <1>1, <1>2, <1>3, <1>4 DEF TypeOK, Places

LEMMA FailType ==
  ASSUME TypeOK, NEW p \in Processes, Fail(p), UNCHANGED faults
  PROVE  TypeOK'
BY DEF TypeOK, Fail, Goto

LEMMA SendType ==
  ASSUME TypeOK, NEW p \in Processes, NEW m \in Messages, NEW a, NEW b \in Places,
         SendBytes(p, a, m, b), UNCHANGED faults
  PROVE  TypeOK'
<1>1. CASE Fail(p)
  BY <1>1, FailType
<1>2. CASE /\ inbox' = [inbox EXCEPT ![Other(p)] = Append(@, m)]
           /\ Goto(p, b)
           /\ UNCHANGED <<held, todo, qp, shut, result, wire, buffer, verified, exit>>
  <2>1. Other(p) \in Processes
    BY ProcessNames
  <2>2. Append(inbox[Other(p)], m) \in Seq(Messages)
    BY <2>1 DEF TypeOK, Messages
  <2> QED BY <1>2, <2>1, <2>2 DEF TypeOK, Goto, Places, Messages
<1> QED BY <1>1, <1>2 DEF SendBytes

LEMMA ReceiveType ==
  ASSUME TypeOK, NEW p \in Processes, NEW m \in Messages, NEW a, NEW b \in Places,
         ReceiveBytes(p, a, m, b), UNCHANGED faults
  PROVE  TypeOK'
<1>1. CASE Fail(p)
  BY <1>1, FailType
<1>2. CASE /\ inbox[p] # <<>> /\ inbox' = [inbox EXCEPT ![p] = Tail(@)]
           /\ Goto(p, b)
           /\ UNCHANGED <<held, todo, qp, shut, result, wire, buffer, verified, exit>>
  <2>1. Tail(inbox[p]) \in Seq(Messages)
    BY <1>2 DEF TypeOK, Messages
  <2> QED BY <1>2, <2>1 DEF TypeOK, Goto, Places, Messages
<1> QED BY <1>1, <1>2 DEF ReceiveBytes

\* A process that is killed leaves a state of the right types.
LEMMA DeadType == ASSUME TypeOK, NEW ps, Dead(ps) PROVE TypeOK'
BY DEF TypeOK, Dead

LEMMA StepType ==
  ASSUME TypeOK, NEW p \in Processes, Step(p)
  PROVE  TypeOK'
<1>0. UNCHANGED faults
  BY DEF Step
<1>1. CASE CreateResources(p)
  <2>1. \A i \in DOMAIN Created : Created[i] \in Range(Created)
    BY DEF Range
  <2>2. CASE Fail(p)
    BY <1>0, <2>2, FailType
  <2>3. CASE held' = held /\ qp' = [qp EXCEPT ![p] = "RESET"] /\ Goto(p, "offering")
             /\ UNCHANGED <<todo, inbox, shut, result, wire, buffer, verified, exit>>
    BY <1>0, <2>3 DEF TypeOK, Goto
  <2>4. ASSUME NEW i \in DOMAIN Created,
               held' = [held EXCEPT ![p] = @ \cup {Created[i]}],
               UNCHANGED <<at, todo, qp, inbox, shut, result, wire, buffer, verified,
                           exit>>
        PROVE  TypeOK'
    BY <1>0, <2>1, <2>4 DEF TypeOK
  <2> QED BY <1>1, <2>2, <2>3, <2>4 DEF CreateResources
<1>2. CASE ConnectQP(p)
  BY <1>0, <1>2 DEF ConnectQP, TypeOK, Goto
<1>3. CASE Connect(p)
  <2>1. SendBytes(p, "offering", "metadata", "answered") => TypeOK'
    BY <1>0, SendType DEF Places, Messages
  <2>2. ReceiveBytes(p, "answered", "metadata", "connecting") => TypeOK'
    BY <1>0, ReceiveType DEF Places, Messages
  <2>3. SendBytes(p, "ready", "R", "waiting") => TypeOK'
    BY <1>0, SendType DEF Places, Messages
  <2>4. ReceiveBytes(p, "waiting", "R", IF p = "sender" THEN "writing" ELSE "watching")
          => TypeOK'
    BY <1>0, ReceiveType DEF Places, Messages
  <2> QED BY <1>1, <1>2, <1>3, <2>1, <2>2, <2>3, <2>4 DEF Connect
<1>4. CASE Cleanup(p)
  <2>1. Tail(todo[p]) \in Seq(Range(Created))
    BY <1>4 DEF Cleanup, TypeOK
  <2>2. result' \in [Processes -> {0, 1}] /\ held' \in [Processes -> SUBSET Range(Created)]
    BY <1>4 DEF Cleanup, TypeOK
  <2> QED BY <1>0, <1>4, <2>1, <2>2 DEF Cleanup, TypeOK
<1>5. CASE Close(p)
  BY <1>0, <1>5 DEF Close, TypeOK, Goto
<1>6. CASE PostWrite \/ Poll
  BY <1>0, <1>6, ProcessNames, FailType DEF PostWrite, Poll, TypeOK, Goto
<1>7. CASE Send
  <2>1. SendBytes("sender", "done", "D", "trusting") => TypeOK'
    BY <1>0, ProcessNames, SendType DEF Places, Messages
  <2>2. ReceiveBytes("sender", "trusting", "V", "cleanup") => TypeOK'
    BY <1>0, ProcessNames, ReceiveType DEF Places, Messages
  <2>3. WaitForReceiver => TypeOK'
    BY <1>0, ProcessNames DEF WaitForReceiver, TypeOK
  <2> QED BY <1>6, <1>7, <2>1, <2>2, <2>3 DEF Send
<1>8. CASE Receive
  <2>1. ReceiveBytes("receiver", "watching", "D", "verifying") => TypeOK'
    BY <1>0, ProcessNames, ReceiveType DEF Places, Messages
  <2>2. SendBytes("receiver", "verified", "V", "cleanup") => TypeOK'
    BY <1>0, ProcessNames, SendType DEF Places, Messages
  <2>3. Verify => TypeOK'
    BY <1>0, ProcessNames, FailType DEF Verify, TypeOK, Goto
  <2> QED BY <1>8, <2>1, <2>2, <2>3 DEF Receive
<1> QED BY <1>3, <1>4, <1>5, <1>7, <1>8 DEF Step

LEMMA FabricType == TypeOK /\ Fabric => TypeOK'
BY DEF TypeOK, Fabric

LEMMA TypeNext == TypeOK /\ [Next]_vars => TypeOK'
<1> SUFFICES ASSUME TypeOK, [Next]_vars PROVE TypeOK'
  OBVIOUS
<1>1. ASSUME NEW p \in Processes, Killed(p) PROVE TypeOK'
  BY <1>1, DeadType DEF Killed
<1>2. CASE UNCHANGED vars
  BY <1>2 DEF TypeOK, vars
<1> QED BY <1>1, <1>2, StepType, FabricType DEF Next

(***************************************************************************)
(* Every reachable state of the check is well typed.                       *)
(***************************************************************************)
THEOREM TypeCorrect == Spec => []TypeOK
BY TypeInit, TypeNext, PTL DEF Spec

-----------------------------------------------------------------------------
(* The inductive invariant *)

\* Message m is in sequence s.
Has(s, m) == \E i \in 1..Len(s) : s[i] = m

\* The receiver's queue pair is ready for the WRITE, and stays so.
ReceiverReady ==
  /\ qp["receiver"] = "RTS"
  /\ at["receiver"] \in {"waiting", "watching", "verifying", "verified",
                         "cleanup", "ended"}

\* The WRITE has succeeded, and there will be no other.
WriteDone ==
  wire = "success" /\ at["sender"] \in {"trusting", "cleanup", "ended"}

\* A process holds everything until it cleans up, and nothing when it has
\* cleaned up without a failure.
ResourceInv(p) ==
  /\ at[p] \notin {"resources", "cleanup", "ended"} => held[p] = Range(Created)
  /\ at[p] \notin {"cleanup", "ended"} => todo[p] = Released
  /\ at[p] = "cleanup" /\ result[p] = 0 => held[p] \subseteq Range(todo[p])
  /\ at[p] = "ended" /\ result[p] = 0 => held[p] = {}
  /\ at[p] = "ready" => qp[p] = "RTS"

\* What a token that is on its way, or has been received, tells.
TokenInv ==
  /\ Has(inbox["sender"], "R") \/ at["sender"] \in {"writing", "polling"}
       => ReceiverReady
  /\ at["sender"] = "done" => wire = "success"
  /\ \/ Has(inbox["receiver"], "D")
     \/ at["receiver"] \in {"verifying", "verified"} \/ verified
     => WriteDone
  /\ at["receiver"] = "verified" => verified
  /\ verified => buffer = "written"
  /\ Has(inbox["sender"], "V") => verified

\* What an end without a failure tells.
EndInv ==
  /\ \A p \in Processes :
       at[p] \in {"cleanup", "ended"} /\ result[p] = 0 => verified
  /\ exit # None => at["sender"] = "ended"
  /\ exit = 0 => \A p \in Processes : at[p] = "ended" /\ result[p] = 0

IInv == (\A p \in Processes : ResourceInv(p)) /\ TokenInv /\ EndInv

\* A step of one process leaves the other where it is.
LEMMA GotoOther ==
  ASSUME TypeOK, NEW p \in Processes, NEW x, Goto(p, x)
  PROVE  /\ at'[p] = x /\ at'[Other(p)] = at[Other(p)]
         /\ \A q \in Processes : q # p => at'[q] = at[q]
BY ProcessNames DEF TypeOK, Goto

LEMMA FailInv ==
  ASSUME TypeOK, IInv, NEW p \in Processes, Fail(p),
         at[p] \notin {"cleanup", "ended"}
  PROVE  IInv'
<1>1. /\ at'[p] = "cleanup" /\ \A q \in Processes : q # p => at'[q] = at[q]
      /\ result'[p] = 1 /\ \A q \in Processes : q # p => result'[q] = result[q]
  BY DEF Fail, Goto, TypeOK
<1>2. UNCHANGED <<held, todo, qp, inbox, shut, wire, buffer, verified, exit>>
  BY DEF Fail
<1>3. \A q \in Processes : ResourceInv(q)'
  BY <1>1, <1>2 DEF IInv, ResourceInv
<1>4. ReceiverReady => ReceiverReady'
  BY <1>1, <1>2, ProcessNames DEF ReceiverReady
<1>5. WriteDone => WriteDone'
  BY <1>1, <1>2, ProcessNames DEF WriteDone
<1>6. TokenInv'
  BY <1>1, <1>2, <1>4, <1>5, ProcessNames DEF IInv, TokenInv
<1>7. EndInv'
  BY <1>1, <1>2, ProcessNames DEF IInv, EndInv
<1> QED BY <1>3, <1>6, <1>7 DEF IInv

\* What is in a sequence of messages after one of them is added or read.
LEMMA HasAppend ==
  ASSUME NEW s \in Seq(Messages), NEW m \in Messages, NEW n, Has(Append(s, m), n)
  PROVE  Has(s, n) \/ n = m
BY DEF Has

LEMMA HasTail ==
  ASSUME NEW s \in Seq(Messages), s # <<>>
  PROVE  /\ Has(s, Head(s))
         /\ \A n : Has(Tail(s), n) => Has(s, n)
BY DEF Has

\* The process goes from place a to place b, and no token is new but m for
\* the other one.
Moves(p, b, m) ==
  /\ at'[p] = b /\ \A q \in Processes : q # p => at'[q] = at[q]
  /\ \A q \in Processes : \A n :
       Has(inbox'[q], n) => Has(inbox[q], n) \/ (q = Other(p) /\ n = m)
  /\ UNCHANGED <<held, todo, qp, result, wire, buffer, verified, exit>>

LEMMA SendMoves ==
  ASSUME TypeOK, NEW p \in Processes, NEW m \in Messages, NEW a, NEW b,
         SendBytes(p, a, m, b)
  PROVE  at[p] = a /\ (Fail(p) \/ Moves(p, b, m))
<1>1. CASE Fail(p)
  BY <1>1 DEF SendBytes
<1>2. CASE /\ inbox' = [inbox EXCEPT ![Other(p)] = Append(@, m)]
           /\ Goto(p, b)
           /\ UNCHANGED <<held, todo, qp, shut, result, wire, buffer, verified, exit>>
  <2>1. /\ Other(p) \in Processes /\ inbox[Other(p)] \in Seq(Messages)
        /\ inbox \in [Processes -> Seq(Messages)]
    BY ProcessNames DEF TypeOK, Messages
  <2>2. \A n : Has(inbox'[Other(p)], n) => Has(inbox[Other(p)], n) \/ n = m
    BY <1>2, <2>1, HasAppend
  <2>3. \A q \in Processes : q # Other(p) => inbox'[q] = inbox[q]
    BY <1>2, <2>1
  <2> QED BY <1>2, <2>2, <2>3, GotoOther DEF SendBytes, Moves
<1> QED BY <1>1, <1>2 DEF SendBytes

LEMMA ReceiveMoves ==
  ASSUME TypeOK, NEW p \in Processes, NEW m, NEW a, NEW b,
         ReceiveBytes(p, a, m, b)
  PROVE  at[p] = a /\ (Fail(p) \/ (Has(inbox[p], m) /\ Moves(p, b, "none")))
<1>1. CASE Fail(p)
  BY <1>1 DEF ReceiveBytes
<1>2. CASE /\ inbox[p] # <<>> /\ Head(inbox[p]) = m
           /\ inbox' = [inbox EXCEPT ![p] = Tail(@)]
           /\ Goto(p, b)
           /\ UNCHANGED <<held, todo, qp, shut, result, wire, buffer, verified, exit>>
  <2>1. inbox[p] \in Seq(Messages) /\ inbox \in [Processes -> Seq(Messages)]
    BY DEF TypeOK, Messages
  <2>2. Has(inbox[p], m) /\ \A n : Has(inbox'[p], n) => Has(inbox[p], n)
    BY <1>2, <2>1, HasTail
  <2>3. \A q \in Processes : q # p => inbox'[q] = inbox[q]
    BY <1>2, <2>1
  <2> QED BY <1>2, <2>2, <2>3, GotoOther DEF ReceiveBytes, Moves
<1> QED BY <1>1, <1>2 DEF ReceiveBytes

\* The resources of a process that has not come to its cleanup.
LEMMA MovesResources ==
  ASSUME IInv, NEW p \in Processes, NEW b, NEW m, Moves(p, b, m),
         at[p] \notin {"resources", "cleanup", "ended"},
         b \notin {"resources", "ended"}, b = "ready" => qp[p] = "RTS"
  PROVE  \A q \in Processes : ResourceInv(q)'
<1>1. at[p] \notin {"cleanup", "ended"} => todo[p] = Released
  BY DEF IInv, ResourceInv
<1>2. held[p] = Range(Created) /\ todo[p] = Released
  BY <1>1 DEF IInv, ResourceInv
<1> QED BY <1>2, ResourceNames DEF IInv, ResourceInv, Moves

\* What a step of run_endpoint has to show: the tokens and, at the end of the
\* process, the outcome.
LEMMA MovesInv ==
  ASSUME IInv, NEW p \in Processes, NEW b, NEW m, Moves(p, b, m),
         at[p] \notin {"resources", "cleanup", "ended"},
         b \notin {"resources", "ended"}, b = "ready" => qp[p] = "RTS",
         p = "receiver" /\ at[p] \in {"waiting", "watching", "verifying", "verified"}
           => b \in {"waiting", "watching", "verifying", "verified", "cleanup"},
         p = "sender" /\ at[p] = "trusting" => b = "cleanup",
         p = "sender" /\ b \in {"writing", "polling"} => ReceiverReady,
         p = "receiver" /\ m = "R" => ReceiverReady',
         p = "sender" /\ b = "done" => wire = "success",
         p = "sender" /\ m = "D" => WriteDone',
         p = "receiver" /\ b \in {"verifying", "verified"} => WriteDone,
         p = "receiver" /\ b = "verified" => verified,
         m = "V" => verified, b = "cleanup" => verified
  PROVE  IInv'
<1>1. \A q \in Processes : ResourceInv(q)'
  BY MovesResources
<1>2. ReceiverReady => ReceiverReady'
  BY ProcessNames DEF Moves, ReceiverReady
<1>3. WriteDone => WriteDone'
  BY ProcessNames DEF Moves, WriteDone
<1>4. \/ p = "sender" /\ at'["sender"] = b /\ at'["receiver"] = at["receiver"]
      \/ p = "receiver" /\ at'["receiver"] = b /\ at'["sender"] = at["sender"]
  BY ProcessNames DEF Moves
<1>5. Has(inbox'["sender"], "R") \/ at'["sender"] \in {"writing", "polling"}
        => ReceiverReady'
  BY <1>2, <1>4, ProcessNames DEF Moves, IInv, TokenInv
<1>6. \/ Has(inbox'["receiver"], "D")
      \/ at'["receiver"] \in {"verifying", "verified"} \/ verified'
      => WriteDone'
  BY <1>3, <1>4, ProcessNames DEF Moves, IInv, TokenInv
<1>7. /\ at'["sender"] = "done" => wire' = "success"
      /\ at'["receiver"] = "verified" => verified'
      /\ verified' => buffer' = "written"
      /\ Has(inbox'["sender"], "V") => verified'
  BY <1>4, ProcessNames DEF Moves, IInv, TokenInv
<1>8. EndInv'
  BY <1>4, ProcessNames DEF Moves, IInv, EndInv
<1> QED BY <1>1, <1>5, <1>6, <1>7, <1>8 DEF IInv, TokenInv

LEMMA ConnectInv ==
  ASSUME TypeOK, IInv, NEW p \in Processes, Connect(p)
  PROVE  IInv'
<1>0. CASE Fail(p) /\ at[p] \notin {"cleanup", "ended"}
  BY <1>0, FailInv
<1>1. CASE CreateResources(p)
  <2>1. at[p] = "resources"
    BY <1>1 DEF CreateResources
  <2>2. todo[p] = Released
    BY <2>1 DEF IInv, ResourceInv
  <2>3. CASE /\ held[p] = Range(Created) /\ qp' = [qp EXCEPT ![p] = "RESET"]
             /\ Goto(p, "offering")
             /\ UNCHANGED <<held, todo, inbox, shut, result, wire, buffer, verified,
                            exit>>
    <3>1. /\ at'[p] = "offering" /\ \A q \in Processes : q # p => at'[q] = at[q]
          /\ \A q \in Processes : q # p => qp'[q] = qp[q]
      BY <2>3, GotoOther DEF TypeOK
    <3>2. \A q \in Processes : ResourceInv(q)'
      BY <2>2, <2>3, <3>1 DEF IInv, ResourceInv
    <3>3. ReceiverReady => ReceiverReady'
      BY <2>1, <3>1, ProcessNames DEF ReceiverReady
    <3>4. WriteDone => WriteDone'
      BY <2>1, <2>3, <3>1, ProcessNames DEF WriteDone
    <3>5. TokenInv'
      BY <2>1, <2>3, <3>1, <3>3, <3>4, ProcessNames DEF IInv, TokenInv
    <3>6. EndInv'
      BY <2>1, <2>3, <3>1, ProcessNames DEF IInv, EndInv
    <3> QED BY <3>2, <3>5, <3>6 DEF IInv
  <2>4. ASSUME NEW i \in DOMAIN Created,
               held' = [held EXCEPT ![p] = @ \cup {Created[i]}],
               UNCHANGED <<at, todo, qp, inbox, shut, result, wire, buffer, verified,
                           exit>>
        PROVE  IInv'
    <3>1. \A q \in Processes : q # p => held'[q] = held[q]
      BY <2>4 DEF TypeOK
    <3>2. \A q \in Processes : ResourceInv(q)'
      BY <2>1, <2>4, <3>1 DEF IInv, ResourceInv
    <3>3. TokenInv' /\ EndInv'
      BY <2>4 DEF IInv, TokenInv, EndInv, ReceiverReady, WriteDone
    <3> QED BY <3>2, <3>3 DEF IInv
  <2> QED BY <1>0, <1>1, <2>1, <2>3, <2>4 DEF CreateResources
<1>2. CASE SendBytes(p, "offering", "metadata", "answered")
  <2>1. at[p] = "offering" /\ (Fail(p) \/ Moves(p, "answered", "metadata"))
    BY <1>2, SendMoves DEF Messages
  <2> QED BY <1>0, <2>1, MovesInv
<1>3. CASE ReceiveBytes(p, "answered", "metadata", "connecting")
  <2>1. at[p] = "answered" /\ (Fail(p) \/ Moves(p, "connecting", "none"))
    BY <1>3, ReceiveMoves
  <2> QED BY <1>0, <2>1, MovesInv
<1>4. CASE ConnectQP(p)
  <2>1. PICK x \in {"RESET", "INIT", "RTR", "RTS"} :
          /\ qp' = [qp EXCEPT ![p] = x]
          /\ IF x = "RTS" THEN Goto(p, "ready") /\ UNCHANGED result
             ELSE Goto(p, "cleanup") /\ result' = [result EXCEPT ![p] = 1]
    BY <1>4 DEF ConnectQP
  <2>2. /\ at[p] = "connecting"
        /\ UNCHANGED <<held, todo, inbox, shut, wire, buffer, verified, exit>>
    BY <1>4 DEF ConnectQP
  <2>3. /\ \A q \in Processes : q # p =>
             at'[q] = at[q] /\ qp'[q] = qp[q] /\ result'[q] = result[q]
        /\ \/ at'[p] = "ready" /\ qp'[p] = "RTS" /\ result'[p] = result[p]
           \/ at'[p] = "cleanup" /\ result'[p] = 1
    BY <2>1, GotoOther DEF TypeOK
  <2>4. \A q \in Processes : ResourceInv(q)'
    BY <2>2, <2>3 DEF IInv, ResourceInv
  <2>5. ReceiverReady => ReceiverReady'
    BY <2>2, <2>3, ProcessNames DEF ReceiverReady
  <2>6. WriteDone => WriteDone'
    BY <2>2, <2>3, ProcessNames DEF WriteDone
  <2>7. TokenInv'
    BY <2>2, <2>3, <2>5, <2>6, ProcessNames DEF IInv, TokenInv
  <2>8. EndInv'
    BY <2>2, <2>3, ProcessNames DEF IInv, EndInv
  <2> QED BY <2>4, <2>7, <2>8 DEF IInv
<1>5. CASE SendBytes(p, "ready", "R", "waiting")
  <2>1. at[p] = "ready" /\ (Fail(p) \/ Moves(p, "waiting", "R"))
    BY <1>5, SendMoves DEF Messages
  <2>2. qp[p] = "RTS"
    BY <2>1 DEF IInv, ResourceInv
  <2>3. p = "receiver" /\ Moves(p, "waiting", "R") => ReceiverReady'
    BY <2>2 DEF Moves, ReceiverReady
  <2> QED BY <1>0, <2>1, <2>3, MovesInv
<1>6. CASE ReceiveBytes(p, "waiting", "R", IF p = "sender" THEN "writing" ELSE "watching")
  <2> DEFINE b == IF p = "sender" THEN "writing" ELSE "watching"
  <2>1. /\ at[p] = "waiting"
        /\ Fail(p) \/ (Has(inbox[p], "R") /\ Moves(p, b, "none"))
    BY <1>6, ReceiveMoves
  <2>2. p = "sender" /\ Has(inbox[p], "R") => ReceiverReady
    BY DEF IInv, TokenInv
  <2> QED BY <1>0, <2>1, <2>2, MovesInv, ProcessNames
<1> QED BY <1>1, <1>2, <1>3, <1>4, <1>5, <1>6 DEF Connect

LEMMA SendInv ==
  ASSUME TypeOK, IInv, Send
  PROVE  IInv'
<1>0. CASE Fail("sender") /\ at["sender"] \notin {"cleanup", "ended"}
  BY <1>0, FailInv, ProcessNames
<1>1. CASE PostWrite
  <2>1. at["sender"] = "writing"
    BY <1>1 DEF PostWrite
  <2>2. CASE /\ wire' = "posted" /\ Goto("sender", "polling")
             /\ UNCHANGED <<held, todo, qp, inbox, shut, result, buffer, verified, exit>>
    <3>1. at'["sender"] = "polling" /\ at'["receiver"] = at["receiver"]
      BY <2>2, GotoOther, ProcessNames
    <3>2. \A q \in Processes : ResourceInv(q)'
      BY <2>1, <2>2, <3>1, ProcessNames DEF IInv, ResourceInv
    <3>3. TokenInv'
      BY <2>1, <2>2, <3>1 DEF IInv, TokenInv, WriteDone, ReceiverReady
    <3>4. EndInv'
      BY <2>1, <2>2, <3>1, ProcessNames DEF IInv, EndInv
    <3> QED BY <3>2, <3>3, <3>4 DEF IInv
  <2> QED BY <1>0, <1>1, <2>1, <2>2 DEF PostWrite
<1>2. CASE Poll
  <2>1. at["sender"] = "polling"
    BY <1>2 DEF Poll
  <2>2. CASE /\ wire = "success" /\ Goto("sender", "done")
             /\ UNCHANGED <<held, todo, qp, inbox, shut, result, wire, buffer, verified,
                            exit>>
    <3>1. Moves("sender", "done", "none")
      BY <2>2, GotoOther, ProcessNames DEF Moves
    <3> QED BY <2>1, <2>2, <3>1, MovesInv, ProcessNames
  <2> QED BY <1>0, <1>2, <2>1, <2>2 DEF Poll
<1>3. CASE SendBytes("sender", "done", "D", "trusting")
  <2>1. at["sender"] = "done" /\ (Fail("sender") \/ Moves("sender", "trusting", "D"))
    BY <1>3, SendMoves, ProcessNames DEF Messages
  <2>2. Moves("sender", "trusting", "D") => WriteDone'
    BY <2>1, ProcessNames DEF Moves, WriteDone, IInv, TokenInv
  <2> QED BY <1>0, <2>1, <2>2, MovesInv, ProcessNames
<1>4. CASE ReceiveBytes("sender", "trusting", "V", "cleanup")
  <2>1. /\ at["sender"] = "trusting"
        /\ Fail("sender") \/ (Has(inbox["sender"], "V") /\ Moves("sender", "cleanup", "none"))
    BY <1>4, ReceiveMoves, ProcessNames
  <2>2. Has(inbox["sender"], "V") => verified
    BY DEF IInv, TokenInv
  <2> QED BY <1>0, <2>1, <2>2, MovesInv, ProcessNames
<1>5. CASE WaitForReceiver
  <2>1. exit' = 0 => result["sender"] = 0 /\ result["receiver"] = 0
    BY <1>5, ProcessNames DEF WaitForReceiver, TypeOK
  <2>2. /\ UNCHANGED <<at, held, todo, qp, inbox, shut, result, wire, buffer, verified>>
        /\ at["sender"] = "ended" /\ at["receiver"] = "ended"
    BY <1>5 DEF WaitForReceiver
  <2>3. EndInv'
    BY <2>1, <2>2, ProcessNames DEF IInv, EndInv
  <2> QED BY <2>2, <2>3 DEF IInv, ResourceInv, TokenInv, WriteDone, ReceiverReady
<1> QED BY <1>1, <1>2, <1>3, <1>4, <1>5 DEF Send

LEMMA ReceiveInv ==
  ASSUME TypeOK, IInv, Receive
  PROVE  IInv'
<1>0. CASE Fail("receiver") /\ at["receiver"] \notin {"cleanup", "ended"}
  BY <1>0, FailInv, ProcessNames
<1>1. CASE ReceiveBytes("receiver", "watching", "D", "verifying")
  <2>1. /\ at["receiver"] = "watching"
        /\ \/ Fail("receiver")
           \/ Has(inbox["receiver"], "D") /\ Moves("receiver", "verifying", "none")
    BY <1>1, ReceiveMoves, ProcessNames
  <2>2. Has(inbox["receiver"], "D") => WriteDone
    BY DEF IInv, TokenInv
  <2> QED BY <1>0, <2>1, <2>2, MovesInv, ProcessNames
<1>2. CASE Verify
  <2>1. at["receiver"] = "verifying"
    BY <1>2 DEF Verify
  <2>2. CASE /\ buffer = "written" /\ verified' = TRUE /\ Goto("receiver", "verified")
             /\ UNCHANGED <<held, todo, qp, inbox, shut, result, wire, buffer, exit>>
    <3>1. at'["receiver"] = "verified" /\ at'["sender"] = at["sender"]
      BY <2>2, GotoOther, ProcessNames
    <3>2. \A q \in Processes : ResourceInv(q)'
      BY <2>1, <2>2, <3>1, ProcessNames DEF IInv, ResourceInv
    <3>3. WriteDone
      BY <2>1 DEF IInv, TokenInv
    <3>4. TokenInv'
      BY <2>1, <2>2, <3>1, <3>3 DEF IInv, TokenInv, WriteDone, ReceiverReady
    <3>5. EndInv'
      BY <2>1, <2>2, <3>1, ProcessNames DEF IInv, EndInv
    <3> QED BY <3>2, <3>4, <3>5 DEF IInv
  <2> QED BY <1>0, <1>2, <2>1, <2>2 DEF Verify
<1>3. CASE SendBytes("receiver", "verified", "V", "cleanup")
  <2>1. at["receiver"] = "verified" /\ (Fail("receiver") \/ Moves("receiver", "cleanup", "V"))
    BY <1>3, SendMoves, ProcessNames DEF Messages
  <2>2. verified
    BY <2>1 DEF IInv, TokenInv
  <2> QED BY <1>0, <2>1, <2>2, MovesInv, ProcessNames
<1> QED BY <1>1, <1>2, <1>3 DEF Receive

\* Releasing one resource, whether that succeeds or fails.
LEMMA CleanupInv ==
  ASSUME TypeOK, IInv, NEW p \in Processes, Cleanup(p)
  PROVE  IInv'
<1>1. /\ at[p] = "cleanup" /\ todo[p] # <<>> /\ todo[p] \in Seq(Resources)
      /\ UNCHANGED <<at, qp, inbox, shut, wire, buffer, verified, exit>>
  BY ResourceNames DEF Cleanup, TypeOK
<1>2. /\ todo'[p] = Tail(todo[p])
      /\ \A q \in Processes : q # p =>
           todo'[q] = todo[q] /\ held'[q] = held[q] /\ result'[q] = result[q]
      /\ \/ held'[p] = held[p] \ {Head(todo[p])} /\ result'[p] = result[p]
         \/ result'[p] = 1
  BY DEF Cleanup, TypeOK
<1>3. \A x \in Range(todo[p]) : x = Head(todo[p]) \/ x \in Range(Tail(todo[p]))
  <2> TAKE x \in Range(todo[p])
  <2>1. PICK i \in 1..Len(todo[p]) : x = todo[p][i]
    BY <1>1 DEF Range
  <2>2. CASE i = 1
    BY <1>1, <2>1, <2>2
  <2>3. CASE i # 1
    <3>1. i - 1 \in 1..Len(Tail(todo[p])) /\ Tail(todo[p])[i - 1] = x
      BY <1>1, <2>1, <2>3
    <3>2. DOMAIN Tail(todo[p]) = 1..Len(Tail(todo[p]))
      BY <1>1
    <3> QED BY <3>1, <3>2 DEF Range
  <2> QED BY <2>2, <2>3
<1>4. held[p] \subseteq Range(todo[p]) =>
        held[p] \ {Head(todo[p])} \subseteq Range(Tail(todo[p]))
  BY <1>3
<1>5. \A q \in Processes : ResourceInv(q)'
  BY <1>1, <1>2, <1>4 DEF IInv, ResourceInv
<1>6. TokenInv'
  BY <1>1 DEF IInv, TokenInv, ReceiverReady, WriteDone
<1>7. EndInv'
  BY <1>1, <1>2 DEF IInv, EndInv
<1> QED BY <1>5, <1>6, <1>7 DEF IInv

\* What cleanup has left when nothing failed is nothing.
LEMMA CloseInv ==
  ASSUME TypeOK, IInv, NEW p \in Processes, Close(p)
  PROVE  IInv'
<1>1. /\ at[p] = "cleanup" /\ Range(todo[p]) = {}
      /\ UNCHANGED <<held, todo, qp, inbox, result, wire, buffer, verified, exit>>
  BY DEF Close, Range
<1>2. at'[p] = "ended" /\ \A q \in Processes : q # p => at'[q] = at[q]
  BY GotoOther DEF Close
<1>3. \A q \in Processes : ResourceInv(q)'
  BY <1>1, <1>2 DEF IInv, ResourceInv
<1>4. (ReceiverReady => ReceiverReady') /\ (WriteDone => WriteDone')
  BY <1>1, <1>2, ProcessNames DEF ReceiverReady, WriteDone
<1>5. TokenInv'
  BY <1>1, <1>2, <1>4, ProcessNames DEF IInv, TokenInv
<1>6. EndInv'
  BY <1>1, <1>2, ProcessNames DEF IInv, EndInv
<1> QED BY <1>3, <1>5, <1>6 DEF IInv

\* While the WRITE is on its way nobody has been told that it has ended.
LEMMA FabricInv == IInv /\ Fabric => IInv'
<1> SUFFICES ASSUME IInv, Fabric PROVE IInv'
  OBVIOUS
<1>1. wire = "posted" /\ UNCHANGED <<at, held, todo, qp, inbox, shut, result, verified, exit>>
  BY DEF Fabric
<1>2. ~WriteDone /\ at["sender"] # "done"
  BY <1>1 DEF WriteDone, IInv, TokenInv
<1>3. TokenInv'
  BY <1>1, <1>2 DEF IInv, TokenInv, ReceiverReady
<1> QED BY <1>1, <1>3 DEF IInv, ResourceInv, EndInv

\* Killing processes falsifies nothing that the others rely on.
LEMMA DeadInv ==
  ASSUME IInv, NEW ps \in SUBSET Processes, Dead(ps)
  PROVE  IInv'
<1>1. UNCHANGED <<todo, qp, inbox, wire, buffer, verified>>
  BY DEF Dead
<1>2. \A p \in Processes :
        \/ /\ p \in ps /\ at'[p] = "ended" /\ held'[p] = {}
           /\ result'[p] = 1 \/ (at[p] = "ended" /\ result'[p] = result[p])
        \/ at'[p] = at[p] /\ held'[p] = held[p] /\ result'[p] = result[p]
  BY DEF Dead
<1>3. \A p \in Processes : ResourceInv(p)'
  BY <1>1, <1>2 DEF IInv, ResourceInv
<1>4. (ReceiverReady => ReceiverReady') /\ (WriteDone => WriteDone')
  BY <1>1, <1>2, ProcessNames DEF ReceiverReady, WriteDone
<1>5. TokenInv'
  BY <1>1, <1>2, <1>4, ProcessNames DEF IInv, TokenInv
<1>6. \A p \in Processes :
        at'[p] \in {"cleanup", "ended"} /\ result'[p] = 0 => verified'
  BY <1>1, <1>2 DEF IInv, EndInv
<1>7. exit' # None => at'["sender"] = "ended"
  BY <1>2, ProcessNames DEF Dead, IInv, EndInv
<1>8. exit' = 0 => \A p \in Processes : at'[p] = "ended" /\ result'[p] = 0
  <2> SUFFICES ASSUME exit' = 0
               PROVE  \A p \in Processes : at'[p] = "ended" /\ result'[p] = 0
    OBVIOUS
  <2>1. exit = 0
    BY DEF Dead
  <2>2. \A p \in Processes : at[p] = "ended" /\ result[p] = 0
    BY <2>1 DEF IInv, EndInv
  <2> QED BY <2>1, <2>2, NoneAssumption DEF Dead
<1> QED BY <1>3, <1>5, <1>6, <1>7, <1>8 DEF IInv, EndInv

LEMMA InvInit == Init => IInv
<1> SUFFICES ASSUME Init PROVE IInv
  OBVIOUS
<1>1. \A p \in Processes : at[p] = "resources" /\ todo[p] = Released /\ inbox[p] = <<>>
  BY DEF Init
<1>2. \A p \in Processes : \A n : ~Has(inbox[p], n)
  BY <1>1 DEF Has
<1>3. ~verified /\ exit = None
  BY DEF Init
<1> QED BY <1>1, <1>2, <1>3, ProcessNames, NoneAssumption
        DEF IInv, ResourceInv, TokenInv, EndInv

LEMMA InvNext == TypeOK /\ IInv /\ [Next]_vars => IInv'
<1> SUFFICES ASSUME TypeOK, IInv, [Next]_vars PROVE IInv'
  OBVIOUS
<1>1. ASSUME NEW p \in Processes, Step(p) PROVE IInv'
  BY <1>1, ConnectInv, CleanupInv, CloseInv, SendInv, ReceiveInv DEF Step
<1>2. ASSUME NEW p \in Processes, Killed(p) PROVE IInv'
  BY <1>2, DeadInv DEF Killed
<1>3. CASE UNCHANGED vars
  BY <1>3 DEF vars, IInv, ResourceInv, TokenInv, EndInv, ReceiverReady, WriteDone
<1> QED BY <1>1, <1>2, <1>3, FabricInv DEF Next

LEMMA InvAlways == Spec => [](TypeOK /\ IInv)
BY TypeInit, TypeNext, InvInit, InvNext, PTL DEF Spec

-----------------------------------------------------------------------------
(* What the check promises *)

LEMMA PassHolds == TypeOK /\ IInv => PassMeansVerified
<1> SUFFICES ASSUME TypeOK, IInv, exit = 0
             PROVE  /\ verified /\ buffer = "written"
                    /\ \A p \in Processes : at[p] = "ended" /\ held[p] = {}
  BY DEF PassMeansVerified
<1>1. \A p \in Processes : at[p] = "ended" /\ result[p] = 0
  BY DEF IInv, EndInv
<1>2. \A p \in Processes : held[p] = {}
  BY <1>1 DEF IInv, ResourceInv
<1>3. verified
  BY <1>1, ProcessNames DEF IInv, EndInv
<1> QED BY <1>1, <1>2, <1>3 DEF IInv, TokenInv

LEMMA ReadyHolds == TypeOK /\ IInv => WriteFindsReady
<1> SUFFICES ASSUME TypeOK, IInv, at["sender"] = "polling"
             PROVE  /\ qp["receiver"] = "RTS"
                    /\ result["receiver"] = 0 => "qp" \in held["receiver"]
  BY DEF WriteFindsReady
<1>1. ReceiverReady /\ ~WriteDone
  BY DEF IInv, TokenInv, WriteDone
<1>2. at["receiver"] \in {"cleanup", "ended"} => result["receiver"] # 0
  BY <1>1, ProcessNames DEF IInv, TokenInv, EndInv
<1>3. at["receiver"] \notin {"cleanup", "ended"} => held["receiver"] = Resources
  BY <1>1, ProcessNames, ResourceNames DEF IInv, ResourceInv, ReceiverReady
<1> QED BY <1>1, <1>2, <1>3 DEF ReceiverReady, Resources

LEMMA BufferHolds ==
  TypeOK /\ IInv /\ [Next]_vars =>
    (at["receiver"] \in {"verifying", "verified"} => buffer' = buffer)
<1> SUFFICES ASSUME TypeOK, IInv, [Next]_vars, at["receiver"] \in {"verifying", "verified"}
             PROVE  buffer' = buffer
  OBVIOUS
<1>1. wire = "success"
  BY DEF IInv, TokenInv, WriteDone
<1>2. ~Fabric
  BY <1>1 DEF Fabric
<1>3. ASSUME NEW p \in Processes, Step(p) PROVE buffer' = buffer
  <2>1. CASE Connect(p)
    BY <2>1 DEF Connect, CreateResources, SendBytes, ReceiveBytes, ConnectQP, Fail
  <2>2. CASE Cleanup(p) \/ Close(p)
    BY <2>2 DEF Cleanup, Close
  <2>3. CASE Send
    BY <2>3 DEF Send, PostWrite, Poll, SendBytes, ReceiveBytes, WaitForReceiver, Fail
  <2>4. CASE Receive
    BY <2>4 DEF Receive, Verify, SendBytes, ReceiveBytes, Fail
  <2> QED BY <1>3, <2>1, <2>2, <2>3, <2>4 DEF Step
<1>4. ASSUME NEW p \in Processes, Killed(p) PROVE buffer' = buffer
  BY <1>4 DEF Killed, Dead
<1>5. CASE UNCHANGED vars
  BY <1>5 DEF vars
<1> QED BY <1>2, <1>3, <1>4, <1>5 DEF Next

(***************************************************************************)
(* An exit status of 0 means that the receiver has found every byte as     *)
(* expected and both processes have released everything, whatever fails,   *)
(* times out or is killed (rdma_check.cpp:360, 396-399).                   *)
(***************************************************************************)
THEOREM PassIsVerified == Spec => []PassMeansVerified
BY InvAlways, PassHolds, PTL

(***************************************************************************)
(* The WRITE is posted only to a queue pair that has gone to RTS, which is *)
(* there as long as the receiver does not fail (rdma_check.cpp:335-336).   *)
(***************************************************************************)
THEOREM WritesToReady == Spec => []WriteFindsReady
BY InvAlways, ReadyHolds, PTL

(***************************************************************************)
(* No byte of the buffer changes while the receiver verifies it            *)
(* (rdma_check.cpp:345, 350-352).                                          *)
(***************************************************************************)
THEOREM BufferIsSettled == Spec => BufferSettled
<1>1. TypeOK /\ IInv /\ [Next]_vars =>
        [at["receiver"] \in {"verifying", "verified"} => buffer' = buffer]_vars
  BY BufferHolds
<1> QED BY <1>1, InvAlways, PTL DEF Spec, BufferSettled
=============================================================================
