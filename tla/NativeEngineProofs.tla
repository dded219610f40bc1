------------------------ MODULE NativeEngineProofs --------------------------
(***************************************************************************)
(* Proofs about NativeEngine for every set of buffers and descriptors and  *)
(* every bound on handles and tasks.                                       *)
(***************************************************************************)
EXTENDS NativeEngine, TLAPS

-----------------------------------------------------------------------------
(* Types *)

\* What a submission makes of its requests.
LEMMA SubmissionType ==
  ASSUME NEW s \in Submissions
  PROVE  /\ s \in Seq(Requests)
         /\ [k \in DOMAIN s |-> [req |-> s[k], state |-> "PENDING"]] \in Seq(Tasks)
         /\ [k \in DOMAIN s |-> s[k].op] \in Seq(Operations)
<1>1. PICK n \in 1..MaxTasks : s \in [1..n -> {r \in Requests : Accepts(r)}]
  BY DEF Submissions
<1>2. n \in Nat
  BY <1>1, EngineAssumption
<1>3. s \in [1..n -> Requests] /\ DOMAIN s = 1..n
  BY <1>1
<1>4. \A k \in 1..n : s[k] \in Requests /\ s[k].op \in Operations
  BY <1>3 DEF Requests, Operations
<1>5. [k \in DOMAIN s |-> [req |-> s[k], state |-> "PENDING"]] \in [1..n -> Tasks]
  BY <1>3, <1>4 DEF Tasks
<1>6. [k \in DOMAIN s |-> s[k].op] \in [1..n -> Operations]
  BY <1>3, <1>4
<1>7. \A S : [1..n -> S] \subseteq Seq(S)
  BY <1>2
<1> QED BY <1>3, <1>5, <1>6, <1>7

\* Ending or canceling tasks leaves tasks of the same requests.
LEMMA TasksType ==
  ASSUME NEW q \in Seq(Tasks), NEW u, DOMAIN u = DOMAIN q,
         u = [k \in DOMAIN q |-> u[k]], \A k \in DOMAIN q : u[k] \in Tasks
  PROVE  u \in Seq(Tasks)
<1>1. q \in [1..Len(q) -> Tasks] /\ Len(q) \in Nat
  OBVIOUS
<1>2. u \in [1..Len(q) -> Tasks]
  BY <1>1
<1> QED BY <1>1, <1>2

LEMMA CanceledType ==
  ASSUME NEW t \in Tasks, NEW p
  PROVE  Canceled(t, p) \in Tasks /\ Canceled(t, p).req = t.req
BY DEF Canceled, Tasks

LEMMA TypeInit == Init => TypeOK
BY EngineAssumption DEF Init, TypeOK, Empty, Handles

LEMMA TypeNext == TypeOK /\ [Next]_vars => TypeOK'
<1> SUFFICES ASSUME TypeOK, [Next]_vars PROVE TypeOK'
  OBVIOUS
<1>0. \A h \in Handles : Fresh = h => Fresh \in 0..MaxHandles
  BY EngineAssumption DEF Handles
<1>1. ASSUME NEW s \in Storages, RegisterLocalMemory(s) PROVE TypeOK'
  BY <1>0, <1>1 DEF TypeOK, RegisterLocalMemory
<1>2. ASSUME NEW h \in Handles, DeregisterLocalMemory(h) PROVE TypeOK'
  BY <1>2 DEF TypeOK, DeregisterLocalMemory
<1>3. ASSUME NEW h \in Handles, RemoveRemoteMemory(h) PROVE TypeOK'
  BY <1>3 DEF TypeOK, RemoveRemoteMemory
<1>4. ASSUME NEW h \in Handles, ConnectPeer(h) PROVE TypeOK'
  BY <1>4 DEF TypeOK, ConnectPeer, mirrors
<1>5. ASSUME NEW h \in Handles, DestroyPeer(h) PROVE TypeOK'
  <2>1. tasks' \in [Handles -> Seq(Tasks)]
    <3> SUFFICES ASSUME NEW b \in Handles
                 PROVE  [k \in DOMAIN tasks[b] |-> Canceled(tasks[b][k], h)]
                          \in Seq(Tasks)
      BY <1>5 DEF DestroyPeer
    <3>1. tasks[b] \in Seq(Tasks)
      BY DEF TypeOK
    <3>2. \A k \in DOMAIN tasks[b] : tasks[b][k] \in Tasks
      BY <3>1
    <3> QED BY <3>1, <3>2, TasksType, CanceledType
  <2> QED BY <1>5, <2>1 DEF TypeOK, DestroyPeer
<1>6. ASSUME NEW h \in Handles, FreeBatch(h) PROVE TypeOK'
  BY <1>6 DEF TypeOK, FreeBatch
<1>7. ASSUME NEW h \in Handles, NEW d \in Descriptors, ImportRemoteMemory(h, d)
      PROVE  TypeOK'
  <2>1. [peer |-> h, descriptor |-> d] \in [peer : Handles, descriptor : Descriptors]
    OBVIOUS
  <2>2. CASE UNCHANGED <<imports, issued>>
    BY <1>7, <2>2 DEF TypeOK, ImportRemoteMemory
  <2>3. CASE /\ Fresh \in Handles /\ issued' = Fresh
             /\ imports' = [imports EXCEPT ![Fresh] = [peer |-> h, descriptor |-> d]]
             /\ remoteMemories' = [remoteMemories EXCEPT ![Fresh] = h]
    BY <1>0, <1>7, <2>1, <2>3 DEF TypeOK, ImportRemoteMemory
  <2> QED BY <1>7, <2>2, <2>3 DEF ImportRemoteMemory
<1>8. ASSUME NEW h \in Handles, NEW k \in 1..MaxTasks, Finish(h, k)
      PROVE  TypeOK'
  <2>1. tasks' \in [Handles -> Seq(Tasks)]
    <3>1. tasks[h] \in Seq(Tasks) /\ k \in DOMAIN tasks[h]
      BY <1>8 DEF TypeOK, Finish
    <3>2. PICK s \in {"COMPLETED", "FAILED"} :
            tasks' = [tasks EXCEPT ![h][k].state = s]
      BY <1>8 DEF Finish
    <3>3. tasks[h][k] \in Tasks
      BY <3>1
    <3>4. [tasks[h][k] EXCEPT !.state = s] \in Tasks
      BY <3>3 DEF Tasks
    <3>5. [tasks[h] EXCEPT ![k] = [tasks[h][k] EXCEPT !.state = s]] \in Seq(Tasks)
      <4> DEFINE t == [tasks[h][k] EXCEPT !.state = s]
      <4> HIDE DEF t
      <4>1. [tasks[h] EXCEPT ![k] = t] \in Seq(Tasks)
        BY <3>1, <3>4 DEF t
      <4> QED BY <4>1 DEF t
    <3> QED BY <3>2, <3>5 DEF TypeOK
  <2> QED BY <1>8, <2>1 DEF TypeOK, Finish, mirrors
<1>9. ASSUME NEW s \in Submissions, SubmitTransfer(s) PROVE TypeOK'
  <2>1. /\ tasks' \in [Handles -> Seq(Tasks)]
        /\ batches' \in [Handles -> Seq(Operations)]
    BY <1>9, SubmissionType DEF TypeOK, SubmitTransfer
  <2> QED BY <1>0, <1>9, <2>1 DEF TypeOK, SubmitTransfer
<1>10. CASE CreatePeer
  BY <1>0, <1>10 DEF TypeOK, CreatePeer
<1>11. CASE Close
  <2>1. <<>> \in Seq(Tasks) /\ <<>> \in Seq(Operations)
    OBVIOUS
  <2> QED BY <1>11, <2>1 DEF TypeOK, Close, Empty
<1>12. CASE UNCHANGED vars
  BY <1>12 DEF TypeOK, vars, native, mirrors
<1> QED
  BY <1>1, <1>2, <1>3, <1>4, <1>5, <1>6, <1>7, <1>8, <1>9, <1>10, <1>11, <1>12
  DEF Next

(***************************************************************************)
(* Every reachable state is well typed, whatever the native engine         *)
(* answers to the calls of native_engine.py.                               *)
(***************************************************************************)
THEOREM TypeCorrect == Spec => []TypeOK
BY TypeInit, TypeNext, PTL DEF Spec

-----------------------------------------------------------------------------
(* Mirrors *)

LEMMA MirrorsInit == Init => MirrorsAgree
BY DEF Init, MirrorsAgree, Empty

\* A handle that is an import is not None.
LEMMA ImportIsSome ==
  ASSUME NEW p \in Handles, NEW d \in Descriptors
  PROVE  [peer |-> p, descriptor |-> d] # None
BY EngineAssumption DEF Handles

LEMMA MirrorsNext == TypeOK /\ MirrorsAgree /\ [Next]_vars => MirrorsAgree'
<1> SUFFICES ASSUME TypeOK, MirrorsAgree, [Next]_vars PROVE MirrorsAgree'
  OBVIOUS
<1>1. ASSUME NEW s \in Storages, RegisterLocalMemory(s) PROVE MirrorsAgree'
  BY <1>1 DEF TypeOK, MirrorsAgree, RegisterLocalMemory
<1>2. ASSUME NEW h \in Handles, DeregisterLocalMemory(h) PROVE MirrorsAgree'
  BY <1>2 DEF TypeOK, MirrorsAgree, DeregisterLocalMemory
<1>3. ASSUME NEW h \in Handles, RemoveRemoteMemory(h) PROVE MirrorsAgree'
  BY <1>3 DEF TypeOK, MirrorsAgree, RemoveRemoteMemory
<1>4. ASSUME NEW h \in Handles, ConnectPeer(h) PROVE MirrorsAgree'
  BY <1>4, EngineAssumption DEF TypeOK, MirrorsAgree, ConnectPeer, mirrors
<1>5. ASSUME NEW h \in Handles, DestroyPeer(h) PROVE MirrorsAgree'
  <2>1. \A i \in Handles : memories'[i] = regions'[i]
    BY <1>5 DEF MirrorsAgree, DestroyPeer
  <2>2. \A i \in Handles :
          remoteMemories'[i] = IF imports'[i] = None THEN None ELSE imports'[i].peer
    BY <1>5 DEF TypeOK, MirrorsAgree, DestroyPeer
  <2>3. ASSUME NEW b \in Handles
        PROVE  /\ DOMAIN batches'[b] = DOMAIN tasks'[b]
               /\ \A k \in DOMAIN tasks'[b] : batches'[b][k] = tasks'[b][k].req.op
    <3>1. /\ tasks'[b] = [k \in DOMAIN tasks[b] |-> Canceled(tasks[b][k], h)]
          /\ batches'[b] = batches[b]
      BY <1>5 DEF DestroyPeer
    <3>2. \A k \in DOMAIN tasks[b] : Canceled(tasks[b][k], h).req = tasks[b][k].req
      BY DEF Canceled
    <3> QED BY <3>1, <3>2 DEF MirrorsAgree
  <2>4. /\ \A p \in peers' : qps'[p] # None
        /\ \A p \in Handles \ peers' :
             qps'[p] = None \/ (Missing /\ qps'[p] = "INIT")
    BY <1>5 DEF TypeOK, MirrorsAgree, DestroyPeer
  <2> QED BY <2>1, <2>2, <2>3, <2>4 DEF MirrorsAgree
<1>6. ASSUME NEW h \in Handles, FreeBatch(h) PROVE MirrorsAgree'
  BY <1>6 DEF TypeOK, MirrorsAgree, FreeBatch
<1>7. ASSUME NEW h \in Handles, NEW d \in Descriptors, ImportRemoteMemory(h, d)
      PROVE  MirrorsAgree'
  <2>1. \A i \in Handles :
          remoteMemories'[i] = IF imports'[i] = None THEN None ELSE imports'[i].peer
    <3>1. ASSUME NEW i \in Handles,
                 imports[i] = [peer |-> h, descriptor |-> d],
                 remoteMemories' = [remoteMemories EXCEPT ![i] = h],
                 UNCHANGED imports
          PROVE  \A j \in Handles :
                   remoteMemories'[j] = IF imports'[j] = None THEN None ELSE imports'[j].peer
      BY <3>1, ImportIsSome DEF TypeOK, MirrorsAgree
    <3>2. CASE /\ Fresh \in Handles
               /\ imports' = [imports EXCEPT ![Fresh] = [peer |-> h, descriptor |-> d]]
               /\ remoteMemories' = [remoteMemories EXCEPT ![Fresh] = h]
      BY <3>2, ImportIsSome DEF TypeOK, MirrorsAgree
    <3> QED BY <1>7, <3>1, <3>2 DEF ImportRemoteMemory
  <2>2. UNCHANGED <<regions, qps, tasks, memories, batches, peers>>
    BY <1>7 DEF ImportRemoteMemory
  <2> QED BY <2>1, <2>2 DEF MirrorsAgree
<1>8. ASSUME NEW h \in Handles, NEW k \in 1..MaxTasks, Finish(h, k)
      PROVE  MirrorsAgree'
  <2>1. ASSUME NEW b \in Handles
        PROVE  /\ DOMAIN tasks'[b] = DOMAIN tasks[b]
               /\ \A j \in DOMAIN tasks[b] : tasks'[b][j].req = tasks[b][j].req
    <3>1. PICK s \in {"COMPLETED", "FAILED"} :
            tasks' = [tasks EXCEPT ![h][k].state = s]
      BY <1>8 DEF Finish
    <3>2. tasks[h][k] \in Tasks
      BY <1>8 DEF TypeOK, Finish
    <3>3. [tasks[h][k] EXCEPT !.state = s].req = tasks[h][k].req
      BY <3>2 DEF Tasks
    <3> QED BY <3>1, <3>3 DEF TypeOK
  <2> QED BY <1>8, <2>1 DEF MirrorsAgree, Finish, mirrors
<1>9. ASSUME NEW s \in Submissions, SubmitTransfer(s) PROVE MirrorsAgree'
  <2>1. ASSUME NEW b \in Handles
        PROVE  /\ DOMAIN batches'[b] = DOMAIN tasks'[b]
               /\ \A k \in DOMAIN tasks'[b] : batches'[b][k] = tasks'[b][k].req.op
    <3>1. CASE b = Fresh
      BY <1>9, <3>1 DEF TypeOK, SubmitTransfer
    <3>2. CASE b # Fresh
      BY <1>9, <3>2 DEF TypeOK, SubmitTransfer, MirrorsAgree
    <3> QED BY <3>1, <3>2
  <2> QED BY <1>9, <2>1 DEF MirrorsAgree, SubmitTransfer
<1>10. CASE CreatePeer
  BY <1>10, EngineAssumption DEF TypeOK, MirrorsAgree, CreatePeer
<1>11. CASE Close
  BY <1>11 DEF MirrorsAgree, Close, Empty
<1>12. CASE UNCHANGED vars
  BY <1>12 DEF MirrorsAgree, vars, native, mirrors
<1> QED
  BY <1>1, <1>2, <1>3, <1>4, <1>5, <1>6, <1>7, <1>8, <1>9, <1>10, <1>11, <1>12
  DEF Next

(***************************************************************************)
(* The wrapper's mirrors agree with the native tables after every call of  *)
(* native_engine.py, refused and half-failed ones included, and a peer it  *)
(* does not know of is never connected (native_engine.py:237).             *)
(***************************************************************************)
THEOREM MirrorsFaithful == Spec => []MirrorsAgree
BY TypeCorrect, MirrorsInit, MirrorsNext, PTL DEF Spec

-----------------------------------------------------------------------------
(* Buffers *)

\* What makes BuffersRetained inductive: a pending task borrows a buffer that
\* is registered, and no handle is registered before it has been issued.
BorrowsRegistered ==
  /\ \A b \in Handles : \A k \in DOMAIN tasks[b] :
       LET t == tasks[b][k]
       IN  t.state = "PENDING" /\ t.req.storage # None =>
             \E i \in Handles : regions[i] = t.req.storage
  /\ \A i \in Handles : regions[i] # None => i <= issued

\* A task that is pending now was pending before, if no batch is submitted.
NoNewTask ==
  \A b \in Handles : \A k \in DOMAIN tasks'[b] :
    tasks'[b][k].state = "PENDING" =>
      /\ k \in DOMAIN tasks[b] /\ tasks[b][k].state = "PENDING"
      /\ tasks'[b][k].req = tasks[b][k].req

\* Such a step keeps what pending tasks borrow if it ends no registration.
LEMMA SameBorrows ==
  ASSUME TypeOK, BorrowsRegistered, NoNewTask, UNCHANGED <<regions, issued>>
  PROVE  BorrowsRegistered'
BY DEF BorrowsRegistered, NoNewTask

LEMMA BorrowsInit == Init => BorrowsRegistered
BY DEF Init, BorrowsRegistered, Empty

LEMMA BorrowsNext ==
  TypeOK /\ BorrowsRegistered /\ [Next]_vars => BorrowsRegistered'
<1> SUFFICES ASSUME TypeOK, BorrowsRegistered, [Next]_vars
             PROVE  BorrowsRegistered'
  OBVIOUS
<1>1. ASSUME NEW s \in Storages, RegisterLocalMemory(s) PROVE BorrowsRegistered'
  <2>1. Fresh \in Nat /\ Fresh \in Handles /\ issued \in Nat /\ Fresh = issued + 1
    BY <1>1 DEF RegisterLocalMemory, TypeOK, Fresh
  <2>2. \A i \in Handles : regions[i] # None => i <= issued
    BY DEF BorrowsRegistered
  <2>3. \A i \in Handles : regions[i] # None => i # Fresh
    BY <2>1, <2>2 DEF Handles
  <2>4. \A i \in Handles : regions[i] # None => regions'[i] = regions[i]
    BY <1>1, <2>3 DEF RegisterLocalMemory, TypeOK
  <2>5. \A i \in Handles : regions'[i] # None => i <= issued'
    <3> SUFFICES ASSUME NEW i \in Handles, regions'[i] # None PROVE i <= issued'
      OBVIOUS
    <3>1. CASE i = Fresh
      BY <1>1, <2>1, <3>1 DEF RegisterLocalMemory
    <3>2. CASE i # Fresh
      <4>1. regions[i] # None
        BY <1>1, <3>2 DEF RegisterLocalMemory, TypeOK
      <4> QED BY <1>1, <2>1, <2>2, <4>1 DEF RegisterLocalMemory, Handles
    <3> QED BY <3>1, <3>2
  <2>6. UNCHANGED tasks
    BY <1>1 DEF RegisterLocalMemory
  <2> QED BY <2>4, <2>5, <2>6 DEF BorrowsRegistered
<1>2. ASSUME NEW h \in Handles, DeregisterLocalMemory(h) PROVE BorrowsRegistered'
  <2>1. \A i \in Handles : regions'[i] # None => regions[i] # None
    BY <1>2 DEF DeregisterLocalMemory, TypeOK
  <2>2. ASSUME NEW b \in Handles, NEW k \in DOMAIN tasks[b],
               tasks[b][k].state = "PENDING", tasks[b][k].req.storage # None
        PROVE  \E i \in Handles : regions'[i] = tasks[b][k].req.storage
    <3>1. PICK i \in Handles : regions[i] = tasks[b][k].req.storage
      BY <2>2 DEF BorrowsRegistered
    <3>2. tasks[b][k] \in PendingTasks
      BY <2>2 DEF PendingTasks
    <3>3. regions[i] # regions[h]
      BY <1>2, <3>1, <3>2 DEF DeregisterLocalMemory, Borrows
    <3> QED BY <1>2, <3>1, <3>3 DEF DeregisterLocalMemory, TypeOK
  <2> QED BY <1>2, <2>1, <2>2 DEF DeregisterLocalMemory, BorrowsRegistered
<1>3. ASSUME NEW h \in Handles, RemoveRemoteMemory(h) \/ ConnectPeer(h)
      PROVE  BorrowsRegistered'
  BY <1>3 DEF RemoveRemoteMemory, ConnectPeer, BorrowsRegistered
<1>4. ASSUME NEW h \in Handles, DestroyPeer(h) PROVE BorrowsRegistered'
  <2>1. NoNewTask
    BY <1>4 DEF DestroyPeer, NoNewTask, Canceled
  <2> QED BY <1>4, <2>1, SameBorrows DEF DestroyPeer
<1>5. ASSUME NEW h \in Handles, FreeBatch(h) PROVE BorrowsRegistered'
  <2>1. NoNewTask
    BY <1>5 DEF FreeBatch, NoNewTask, TypeOK
  <2> QED BY <1>5, <2>1, SameBorrows DEF FreeBatch
<1>6. ASSUME NEW h \in Handles, NEW d \in Descriptors, ImportRemoteMemory(h, d)
      PROVE  BorrowsRegistered'
  <2>1. issued' \in Nat /\ issued <= issued' /\ issued \in Nat
    BY <1>6 DEF ImportRemoteMemory, TypeOK, Fresh
  <2>2. \A i \in Handles : regions[i] # None => i <= issued'
    BY <2>1 DEF BorrowsRegistered, Handles
  <2> QED BY <1>6, <2>2 DEF ImportRemoteMemory, BorrowsRegistered
<1>7. ASSUME NEW h \in Handles, NEW k \in 1..MaxTasks, Finish(h, k)
      PROVE  BorrowsRegistered'
  <2>1. PICK s \in {"COMPLETED", "FAILED"} : tasks' = [tasks EXCEPT ![h][k].state = s]
    BY <1>7 DEF Finish
  <2>2. tasks[h][k] \in Tasks
    BY <1>7 DEF TypeOK, Finish
  <2>3. /\ [tasks[h][k] EXCEPT !.state = s].req = tasks[h][k].req
        /\ [tasks[h][k] EXCEPT !.state = s].state # "PENDING"
    BY <2>2 DEF Tasks
  <2>4. NoNewTask
    BY <2>1, <2>3 DEF NoNewTask, TypeOK
  <2> QED BY <1>7, <2>4, SameBorrows DEF Finish
<1>8. ASSUME NEW s \in Submissions, SubmitTransfer(s) PROVE BorrowsRegistered'
  <2>1. \A k \in DOMAIN s : Accepts(s[k])
    BY DEF Submissions
  <2>2. issued' \in Nat /\ issued <= issued' /\ issued \in Nat
    BY <1>8 DEF SubmitTransfer, TypeOK, Fresh
  <2>3. \A i \in Handles : regions[i] # None => i <= issued'
    BY <2>2 DEF BorrowsRegistered, Handles
  <2>4. ASSUME NEW b \in Handles, NEW k \in DOMAIN tasks'[b],
               tasks'[b][k].state = "PENDING", tasks'[b][k].req.storage # None
        PROVE  \E i \in Handles : regions[i] = tasks'[b][k].req.storage
    <3>1. CASE b = Fresh
      <4>1. k \in DOMAIN s /\ tasks'[b][k].req = s[k]
        BY <1>8, <3>1 DEF SubmitTransfer, TypeOK
      <4> QED BY <2>1, <2>4, <4>1 DEF Accepts
    <3>2. CASE b # Fresh
      <4>1. tasks'[b] = tasks[b]
        BY <1>8, <3>2 DEF SubmitTransfer, TypeOK
      <4> QED BY <2>4, <4>1 DEF BorrowsRegistered
    <3> QED BY <3>1, <3>2
  <2> QED BY <1>8, <2>3, <2>4 DEF SubmitTransfer, BorrowsRegistered
<1>9. CASE CreatePeer
  <2>1. issued' \in Nat /\ issued <= issued' /\ issued \in Nat
    BY <1>9 DEF CreatePeer, TypeOK, Fresh
  <2>2. \A i \in Handles : regions[i] # None => i <= issued'
    BY <2>1 DEF BorrowsRegistered, Handles
  <2> QED BY <1>9, <2>2 DEF CreatePeer, BorrowsRegistered
<1>10. CASE Close
  BY <1>10 DEF Close, Empty, BorrowsRegistered
<1>11. CASE UNCHANGED vars
  BY <1>11 DEF vars, native, BorrowsRegistered
<1> QED
  BY <1>1, <1>2, <1>3, <1>4, <1>5, <1>6, <1>7, <1>8, <1>9, <1>10, <1>11 DEF Next

(***************************************************************************)
(* Python keeps every buffer alive that the device may access: it retains  *)
(* what is registered (native_engine.py:188), and what a pending task      *)
(* borrows is registered.                                                  *)
(***************************************************************************)
THEOREM BuffersKept == Spec => []BuffersRetained
<1>1. Spec => []BorrowsRegistered
  BY TypeCorrect, BorrowsInit, BorrowsNext, PTL DEF Spec
<1>2. MirrorsAgree /\ BorrowsRegistered => BuffersRetained
  <2> SUFFICES ASSUME MirrorsAgree, BorrowsRegistered PROVE BuffersRetained
    OBVIOUS
  <2>1. \A i \in Handles : memories[i] = regions[i]
    BY DEF MirrorsAgree
  <2>2. ASSUME NEW t \in PendingTasks, t.req.storage # None
        PROVE  \E i \in Handles : regions[i] = t.req.storage
    <3>1. PICK b \in Handles : \E k \in DOMAIN tasks[b] : t = tasks[b][k]
      BY DEF PendingTasks
    <3> QED BY <2>2, <3>1 DEF PendingTasks, BorrowsRegistered
  <2> QED BY <2>1, <2>2 DEF BuffersRetained
<1> QED BY <1>1, <1>2, MirrorsFaithful, PTL
=============================================================================
