-------------------------- MODULE EngineCallsProofs --------------------------
(***************************************************************************)
(* Proofs about EngineCalls for any number of application threads and RPC  *)
(* workers, on top of what NativeEngineProofs shows of the calls that they *)
(* make to the wrapper.                                                    *)
(***************************************************************************)
EXTENDS EngineCalls, TLAPS

NEP == INSTANCE NativeEngineProofs

-----------------------------------------------------------------------------
(* Types *)

\* The wrapper of EngineCalls is the one NativeEngineProofs is about.
LEMMA SameTypes == NE!TypeOK <=> NEP!TypeOK
BY DEF NE!TypeOK, NEP!TypeOK, NE!Handles, NEP!Handles, NE!Tasks, NEP!Tasks,
       NE!Requests, NEP!Requests, NE!Operations, NEP!Operations

LEMMA SameMemory ==
  /\ \A s : NE!RegisterLocalMemory(s) <=> NEP!RegisterLocalMemory(s)
  /\ \A p, d : NE!ImportRemoteMemory(p, d) <=> NEP!ImportRemoteMemory(p, d)
BY DEF NE!RegisterLocalMemory, NEP!RegisterLocalMemory, NE!ImportRemoteMemory,
       NEP!ImportRemoteMemory, NE!Fresh, NEP!Fresh, NE!Handles, NEP!Handles

LEMMA SamePeers ==
  /\ NE!CreatePeer <=> NEP!CreatePeer
  /\ \A p : NE!ConnectPeer(p) <=> NEP!ConnectPeer(p)
  /\ \A p : NE!DestroyPeer(p) <=> NEP!DestroyPeer(p)
BY DEF NE!CreatePeer, NEP!CreatePeer, NE!ConnectPeer, NEP!ConnectPeer,
       NE!DestroyPeer, NEP!DestroyPeer, NE!Canceled, NEP!Canceled,
       NE!Fresh, NEP!Fresh, NE!Handles, NEP!Handles, NE!mirrors, NEP!mirrors

LEMMA SameBatches ==
  /\ NE!Submissions = NEP!Submissions
  /\ \A s : NE!SubmitTransfer(s) <=> NEP!SubmitTransfer(s)
  /\ \A b, k : NE!Finish(b, k) <=> NEP!Finish(b, k)
  /\ \A b : NE!FreeBatch(b) <=> NEP!FreeBatch(b)
<1>1. NE!Requests = NEP!Requests
  BY DEF NE!Requests, NEP!Requests, NE!Handles, NEP!Handles
<1>2. \A r : NE!Accepts(r) <=> NEP!Accepts(r)
  BY DEF NE!Accepts, NEP!Accepts, NE!Handles, NEP!Handles
<1>3. NE!Submissions = NEP!Submissions
  BY <1>1, <1>2 DEF NE!Submissions, NEP!Submissions
<1>4. \A s : NE!SubmitTransfer(s) <=> NEP!SubmitTransfer(s)
  BY DEF NE!SubmitTransfer, NEP!SubmitTransfer, NE!Fresh, NEP!Fresh, NE!Handles,
         NEP!Handles
<1>5. \A b, k : NE!Finish(b, k) <=> NEP!Finish(b, k)
  BY DEF NE!Finish, NEP!Finish, NE!mirrors, NEP!mirrors
<1>6. \A b : NE!FreeBatch(b) <=> NEP!FreeBatch(b)
  BY DEF NE!FreeBatch, NEP!FreeBatch, NE!Unfinished, NEP!Unfinished
<1> QED BY <1>3, <1>4, <1>5, <1>6

LEMMA SameClose == NE!Close <=> NEP!Close
BY DEF NE!Close, NEP!Close, NE!Empty, NEP!Empty, NE!Handles, NEP!Handles

\* Every call of the wrapper is a step of it.
LEMMA CallsAreSteps ==
  ASSUME NE!TypeOK
  PROVE  /\ \A s \in Storages : NE!RegisterLocalMemory(s) => NEP!Next
         /\ \A p \in peers, d \in Descriptors :
              NE!ImportRemoteMemory(p, d) => NEP!Next
         /\ NE!CreatePeer => NEP!Next
         /\ \A p : NE!ConnectPeer(p) => NEP!Next
         /\ \A p : NE!DestroyPeer(p) => NEP!Next
         /\ \A s \in NE!Submissions : NE!SubmitTransfer(s) => NEP!Next
         /\ \A b \in 1..MaxHandles, k \in 1..MaxTasks :
              NE!Finish(b, k) => NEP!Next
         /\ \A b \in NE!Handles : NE!FreeBatch(b) => NEP!Next
         /\ NE!Close => NEP!Next
<1>0. peers \subseteq NEP!Handles /\ NE!Handles = NEP!Handles
  BY DEF NE!TypeOK, NE!Handles, NEP!Handles
<1>1. \A s \in Storages : NE!RegisterLocalMemory(s) => NEP!Next
  BY SameMemory DEF NEP!Next
<1>2. \A p \in peers, d \in Descriptors : NE!ImportRemoteMemory(p, d) => NEP!Next
  BY <1>0, SameMemory DEF NEP!Next
<1>3. NE!CreatePeer => NEP!Next
  BY SamePeers DEF NEP!Next
<1>4. \A p : NE!ConnectPeer(p) => NEP!Next
  <2> SUFFICES ASSUME NEW p, NE!ConnectPeer(p) PROVE NEP!Next
    OBVIOUS
  <2>1. p \in peers
    BY DEF NE!ConnectPeer
  <2> QED BY <1>0, <2>1, SamePeers DEF NEP!Next
<1>5. \A p : NE!DestroyPeer(p) => NEP!Next
  <2> SUFFICES ASSUME NEW p, NE!DestroyPeer(p) PROVE NEP!Next
    OBVIOUS
  <2>1. p \in peers
    BY DEF NE!DestroyPeer
  <2> QED BY <1>0, <2>1, SamePeers DEF NEP!Next
<1>6. \A s \in NE!Submissions : NE!SubmitTransfer(s) => NEP!Next
  BY SameBatches DEF NEP!Next
<1>7. \A b \in 1..MaxHandles, k \in 1..MaxTasks : NE!Finish(b, k) => NEP!Next
  BY SameBatches DEF NEP!Next, NEP!Handles
<1>8. \A b \in NE!Handles : NE!FreeBatch(b) => NEP!Next
  BY <1>0, SameBatches DEF NEP!Next
<1>9. NE!Close => NEP!Next
  BY SameClose DEF NEP!Next
<1> QED BY <1>1, <1>2, <1>3, <1>4, <1>5, <1>6, <1>7, <1>8, <1>9

\* A transfer() between two critical sections holds the handle of a batch.
Transfers(t) == run[t].at \in {"waiting", "freeing"}

Carries == \A t \in Threads : Transfers(t) => run[t].h \in 1..issued

\* A step of an actor is at most one call of the wrapper.
LEMMA EngineStep ==
  ASSUME TypeOK, Carries, [Next]_vars
  PROVE  NEP!Next \/ UNCHANGED engine
<1>0. NE!TypeOK
  BY DEF TypeOK
<1>1. ASSUME NEW t \in Threads, Call(t) PROVE NEP!Next \/ UNCHANGED engine
  BY <1>0, <1>1, CallsAreSteps DEF Call, Submit, Begin
<1>2. ASSUME NEW t \in Threads, Free(t) PROVE NEP!Next \/ UNCHANGED engine
  <2>1. run[t].h \in NE!Handles
    <3>1. run[t].h \in 1..issued /\ issued \in 0..MaxHandles /\ MaxHandles \in Nat
      BY <1>0, <1>2, ActorsAssumption, NE!EngineAssumption
      DEF Free, At, Carries, Transfers, NE!TypeOK, NE!EngineAssumption
    <3> QED BY <3>1 DEF NE!Handles
  <2> QED BY <1>0, <1>2, <2>1, CallsAreSteps DEF Free
<1>3. ASSUME NEW t \in Threads,
             \/ Poll(t) \/ WaitTimeout(t) \/ Publish(t) \/ Answered(t)
             \/ CloseControl(t) \/ Stop(t) \/ Drained(t)
      PROVE  NEP!Next \/ UNCHANGED engine
  BY <1>3 DEF Poll, WaitTimeout, Publish, Answered, CloseControl, Stop, Drained
<1>4. ASSUME NEW t \in Threads,
             \/ Register(t) \/ Connect(t) \/ Offered(t)
             \/ Disconnect(t) \/ Destroy(t)
      PROVE  NEP!Next \/ UNCHANGED engine
  BY <1>0, <1>4, CallsAreSteps DEF Register, Connect, Offered, Disconnect, Destroy
<1>5. ASSUME NEW t \in Threads, Exchanged(t) PROVE NEP!Next \/ UNCHANGED engine
  BY <1>0, <1>5, CallsAreSteps DEF Exchanged
<1>6. ASSUME NEW w \in Workers, Arrive(w) PROVE NEP!Next \/ UNCHANGED engine
  BY <1>6 DEF Arrive
<1>7. ASSUME NEW w \in Workers, Handle(w) PROVE NEP!Next \/ UNCHANGED engine
  BY <1>0, <1>7, CallsAreSteps
  DEF Handle, HandleConnect, HandleConnectNative, HandleChanged, HandleClose
<1>8. CASE Finish
  BY <1>0, <1>8, CallsAreSteps DEF Finish
<1>9. CASE UNCHANGED vars
  BY <1>9 DEF vars
<1> QED BY <1>1, <1>2, <1>3, <1>4, <1>5, <1>6, <1>7, <1>8, <1>9 DEF Next, Proceed

LEMMA EngineType ==
  ASSUME TypeOK, Carries, [Next]_vars
  PROVE  NE!TypeOK'
<1>1. [NEP!Next]_(NEP!vars)
  BY EngineStep DEF engine, NEP!vars, NEP!native, NEP!mirrors
<1>2. NEP!TypeOK'
  BY <1>1, SameTypes, NEP!TypeNext, ActorsAssumption DEF TypeOK
<1>3. NE!TypeOK' <=> NEP!TypeOK'
  BY SameTypes, PTL
<1> QED BY <1>2, <1>3
\* No handle is taken back, and no closed engine opens again.
LEMMA EngineGrows ==
  ASSUME TypeOK, Carries, [Next]_vars
  PROVE  issued' >= issued /\ (open' => open)
<1>0. issued \in Nat /\ NEP!TypeOK /\ NEP!Handles = NE!Handles
  BY SameTypes, ActorsAssumption
  DEF TypeOK, NE!TypeOK, NE!EngineAssumption, NE!Handles, NEP!Handles
<1>1. CASE UNCHANGED engine
  BY <1>0, <1>1 DEF engine
<1>2. CASE NEP!Next
  <2>1. ASSUME NEW x \in Storages, NEP!RegisterLocalMemory(x)
        PROVE  issued' >= issued /\ (open' => open)
    BY <1>0, <2>1 DEF NEP!RegisterLocalMemory, NEP!Fresh
  <2>2. ASSUME NEW h, \/ NEP!DeregisterLocalMemory(h) \/ NEP!RemoveRemoteMemory(h)
                      \/ NEP!ConnectPeer(h) \/ NEP!DestroyPeer(h) \/ NEP!FreeBatch(h)
        PROVE  issued' >= issued /\ (open' => open)
    BY <1>0, <2>2 DEF NEP!DeregisterLocalMemory, NEP!RemoveRemoteMemory,
       NEP!ConnectPeer, NEP!DestroyPeer, NEP!FreeBatch
  <2>3. ASSUME NEW h, NEW d, NEP!ImportRemoteMemory(h, d)
        PROVE  issued' >= issued /\ (open' => open)
    BY <1>0, <2>3 DEF NEP!ImportRemoteMemory, NEP!Fresh
  <2>4. ASSUME NEW h, NEW k, NEP!Finish(h, k)
        PROVE  issued' >= issued /\ (open' => open)
    BY <1>0, <2>4 DEF NEP!Finish
  <2>5. ASSUME NEW x, NEP!SubmitTransfer(x)
        PROVE  issued' >= issued /\ (open' => open)
    BY <1>0, <2>5 DEF NEP!SubmitTransfer, NEP!Fresh
  <2>6. CASE NEP!CreatePeer \/ NEP!Close
    BY <1>0, <2>6 DEF NEP!CreatePeer, NEP!Close, NEP!Fresh
  <2> QED BY <1>2, <2>1, <2>2, <2>3, <2>4, <2>5, <2>6 DEF NEP!Next
<1> QED BY <1>1, <1>2, EngineStep

\* The other variables have their types.
ControlOK ==
  /\ resource \in Threads \cup {None} /\ stateLock \in Workers \cup {None}
  /\ closed \in BOOLEAN /\ stopped \in BOOLEAN
  /\ run \in [Actors -> [at : Places, h : NE!Handles \cup {None}]]
  /\ kept \in SUBSET NE!Handles

\* The handle a native call has just issued.
LEMMA FreshIsHandle ==
  ASSUME NE!TypeOK
  PROVE  /\ \A s \in Storages : NE!RegisterLocalMemory(s) => issued + 1 \in NE!Handles
         /\ NE!CreatePeer => issued + 1 \in NE!Handles
         /\ \A s \in NE!Submissions :
              NE!SubmitTransfer(s) => issued + 1 \in NE!Handles /\ issued' = issued + 1
BY DEF NE!RegisterLocalMemory, NE!CreatePeer, NE!SubmitTransfer, NE!Fresh

LEMMA ControlType ==
  ASSUME TypeOK, Carries, [Next]_vars
  PROVE  ControlOK' /\ Carries'
<1>0. /\ NE!TypeOK /\ ControlOK
      /\ peers \subseteq NE!Handles
      /\ issued \in Nat /\ issued' \in Nat /\ issued <= issued'
      /\ issued <= MaxHandles /\ MaxHandles \in Nat
  <2>1. MaxHandles \in Nat /\ NE!TypeOK /\ ControlOK
    BY ActorsAssumption DEF TypeOK, ControlOK, NE!EngineAssumption
  <2>2. NE!TypeOK'
    BY EngineType
  <2>3. issued \in 0..MaxHandles /\ issued' \in 0..MaxHandles /\ peers \subseteq NE!Handles
    BY <2>1, <2>2 DEF NE!TypeOK
  <2> QED BY <2>1, <2>3, EngineGrows
<1>a. \A a \in Actors : run[a] = [at |-> run[a].at, h |-> run[a].h]
                        /\ run[a].at \in Places /\ run[a].h \in NE!Handles \cup {None}
  BY <1>0 DEF ControlOK
<1>b. ASSUME NEW a \in Actors, NEW place \in Places,
             NEW h \in NE!Handles \cup {None}, Goto(a, place, h),
             a \in Threads /\ place \in {"waiting", "freeing"} => h \in 1..issued'
      PROVE  run' \in [Actors -> [at : Places, h : NE!Handles \cup {None}]] /\ Carries'
  <2>1. run' \in [Actors -> [at : Places, h : NE!Handles \cup {None}]]
    BY <1>0, <1>b DEF Goto, ControlOK
  <2>2. ASSUME NEW t \in Threads, Transfers(t)' PROVE run'[t].h \in 1..issued'
    <3>1. CASE t = a
      BY <1>0, <1>b, <2>2, <3>1 DEF Goto, ControlOK, Transfers
    <3>2. CASE t # a
      <4>1. run'[t] = run[t]
        BY <1>0, <1>b, <3>2 DEF Goto, ControlOK, Actors
      <4>2. run[t].h \in 1..issued
        BY <2>2, <4>1 DEF Carries, Transfers
      <4> QED BY <1>0, <4>1, <4>2
    <3> QED BY <3>1, <3>2
  <2> QED BY <2>1, <2>2 DEF Carries
<1>c. ASSUME UNCHANGED run
      PROVE  run' \in [Actors -> [at : Places, h : NE!Handles \cup {None}]] /\ Carries'
  <2>1. \A t \in Threads : Transfers(t) => run[t].h \in 1..issued'
    BY <1>0 DEF Carries
  <2> QED BY <1>0, <1>c, <2>1 DEF Carries, Transfers, ControlOK
<1>1. ASSUME NEW t \in Threads, Call(t) PROVE ControlOK' /\ Carries'
  <2>1. CASE Submit(t)
    <3>1. issued + 1 \in NE!Handles /\ issued' = issued + 1
      BY <1>0, <2>1, FreshIsHandle DEF Submit
    <3>2. run' \in [Actors -> [at : Places, h : NE!Handles \cup {None}]] /\ Carries'
      <4>1. t \in Actors /\ "waiting" \in Places /\ issued + 1 \in 1..issued'
        BY <1>0, <3>1 DEF Actors, Places
      <4>2. Goto(t, "waiting", issued + 1)
        BY <2>1 DEF Submit
      <4> QED BY <1>b, <3>1, <4>1, <4>2
    <3> QED BY <1>0, <2>1, <3>2 DEF Submit, ControlOK, control
  <2>2. CASE \E call \in {"register", "connect", "disconnect", "close"} : Begin(t, call)
    <3>1. run' \in [Actors -> [at : Places, h : NE!Handles \cup {None}]] /\ Carries'
      BY <1>b, <2>2 DEF Begin, Actors, Places
    <3> QED BY <1>0, <2>2, <3>1 DEF Begin, ControlOK
  <2> QED BY <1>1, <2>1, <2>2 DEF Call
<1>2. ASSUME NEW t \in Threads, End(t) PROVE ControlOK' /\ Carries'
  BY <1>0, <1>2, <1>b DEF End, ControlOK, Actors, Places
<1>3. ASSUME NEW t \in Threads, Poll(t) \/ WaitTimeout(t) \/ Free(t)
      PROVE  ControlOK' /\ Carries'
  <2>1. At(t, "waiting") \/ At(t, "freeing")
    BY <1>3 DEF Poll, WaitTimeout, Free
  <2>2. run[t].h \in 1..issued' /\ run[t].h \in NE!Handles
    BY <1>0, <2>1 DEF Carries, Transfers, At, NE!Handles
  <2>3. Goto(t, "idle", None) \/ Goto(t, "freeing", run[t].h)
    BY <1>3 DEF Poll, WaitTimeout, Free
  <2>4. run' \in [Actors -> [at : Places, h : NE!Handles \cup {None}]] /\ Carries'
    BY <1>b, <2>2, <2>3 DEF Actors, Places
  <2> QED BY <1>0, <1>3, <2>2, <2>4
       DEF Poll, WaitTimeout, Free, ControlOK, control
<1>4. ASSUME NEW t \in Threads, Proceed(t) PROVE ControlOK' /\ Carries'
  <2>0. t \in Actors /\ run[t].h \in NE!Handles \cup {None}
    BY <1>a DEF Actors
  <2>1. CASE Register(t)
    <3>1. CASE ~End(t)
      <4>1. PICK x \in Storages :
              NE!RegisterLocalMemory(x) /\ Goto(t, "publish", issued + 1) /\ UNCHANGED control
        BY <2>1, <3>1 DEF Register
      <4>2. run' \in [Actors -> [at : Places, h : NE!Handles \cup {None}]] /\ Carries'
        BY <1>0, <1>b, <2>0, <4>1, FreshIsHandle DEF Places
      <4> QED BY <1>0, <4>1, <4>2 DEF ControlOK, control
    <3> QED BY <1>2, <3>1
  <2>2. CASE Publish(t) \/ Answered(t) \/ Exchanged(t) \/ Destroy(t)
    <3>1. CASE Goto(t, "announcing", run[t].h) /\ UNCHANGED control
      BY <1>0, <1>b, <2>0, <3>1 DEF ControlOK, control, Places
    <3> QED BY <1>2, <2>2, <3>1 DEF Publish, Answered, Exchanged, Destroy
  <2>3. CASE Connect(t) \/ Offered(t) \/ Disconnect(t)
    <3>1. CASE ~End(t)
      <4>1. UNCHANGED control
        BY <2>3, <3>1 DEF Connect, Offered, Disconnect
      <4>2. PICK place \in {"offering", "exchanging", "parting"},
                 h \in NE!Handles \cup {None} : Goto(t, place, h)
        BY <1>0, <2>0, <2>3, <3>1, FreshIsHandle DEF Connect, Offered, Disconnect
      <4>3. run' \in [Actors -> [at : Places, h : NE!Handles \cup {None}]] /\ Carries'
        BY <1>b, <2>0, <4>2 DEF Places
      <4> QED BY <1>0, <4>1, <4>3 DEF ControlOK, control
    <3> QED BY <1>2, <3>1
  <2>4. CASE CloseControl(t) \/ Stop(t) \/ Drained(t)
    <3>1. PICK place \in {"destroying", "stopping", "draining"} : Goto(t, place, None)
                \/ Goto(t, place, run[t].h)
      BY <2>4 DEF CloseControl, Stop, Drained
    <3>2. run' \in [Actors -> [at : Places, h : NE!Handles \cup {None}]] /\ Carries'
      BY <1>b, <2>0, <3>1 DEF Places
    <3> QED BY <1>0, <2>4, <3>2 DEF CloseControl, Stop, Drained, ControlOK, control
  <2> QED BY <1>3, <1>4, <2>1, <2>2, <2>3, <2>4 DEF Proceed
<1>5. ASSUME NEW w \in Workers, Arrive(w) \/ Handle(w) PROVE ControlOK' /\ Carries'
  <2>0. w \in Actors /\ w \notin Threads /\ run[w].h \in NE!Handles \cup {None}
    BY <1>a, ActorsAssumption DEF Actors
  <2>1. PICK place \in {"idle", "connecting", "Connect", "Changed", "Close"},
             h \in NE!Handles \cup {None} : Goto(w, place, h)
    BY <1>0, <1>5, FreshIsHandle
    DEF Arrive, Handle, HandleConnect, HandleConnectNative, HandleChanged, HandleClose
  <2>2. run' \in [Actors -> [at : Places, h : NE!Handles \cup {None}]] /\ Carries'
    BY <1>b, <2>0, <2>1 DEF Places
  <2> QED BY <1>0, <1>5, <2>2
       DEF Arrive, Handle, HandleConnect, HandleConnectNative, HandleChanged,
           HandleClose, ControlOK, control
<1>6. CASE Finish \/ UNCHANGED vars
  BY <1>0, <1>6, <1>c DEF Finish, vars, control, ControlOK
<1> QED BY <1>1, <1>4, <1>5, <1>6 DEF Next

-----------------------------------------------------------------------------
(* The resource lock and the end of the engine *)

Locked ==
  {"register", "publish", "announcing", "connect", "offering", "exchanging",
   "disconnect", "parting", "close", "stopping", "draining", "destroying"}

\* A thread inside a resource operation holds the resource lock.
LockInv == \A t \in Threads : run[t].at \in Locked => resource = t

Closing == {"stopping", "draining", "destroying"}

\* No handler is under way and none will be.
Quiet == stopped /\ \A w \in Workers : At(w, "idle")

\* close() refuses work, then waits for the handlers, then destroys; a close()
\* that finds the control plane closed comes after one that has waited.
CloseInv ==
  /\ ~closed => open
  /\ \A t \in Threads :
       /\ run[t].at \in Closing => closed
       /\ At(t, "draining") => stopped
       /\ At(t, "destroying") => Quiet
  /\ closed => Quiet \/ \E t \in Threads : run[t].at \in {"stopping", "draining"}
  /\ ~open => Quiet

LEMMA Moves ==
  ASSUME TypeOK, NEW a \in Actors, NEW place, NEW h, Goto(a, place, h)
  PROVE  /\ run'[a].at = place /\ run'[a].h = h
         /\ \A b \in Actors : b # a => run'[b] = run[b]
BY DEF TypeOK, Goto

LEMMA LockNext ==
  ASSUME TypeOK, LockInv, [Next]_vars
  PROVE  LockInv'
<1>0. Threads \subseteq Actors /\ Workers \subseteq Actors /\ Threads \cap Workers = {}
      /\ None \notin Threads
  BY ActorsAssumption DEF Actors
<1>a. ASSUME NEW a \in Actors, NEW place, NEW h, Goto(a, place, h),
             resource' = resource,
             a \in Threads /\ place \in Locked => run[a].at \in Locked
      PROVE  LockInv'
  BY <1>0, <1>a, Moves DEF LockInv
<1>b. ASSUME NEW t \in Threads, run[t].at \in Locked, End(t) PROVE LockInv'
  <2>1. \A u \in Threads : u # t => run[u].at \notin Locked /\ run'[u] = run[u]
    BY <1>0, <1>b, Moves DEF LockInv, End
  <2>2. run'[t].at = "idle"
    BY <1>0, <1>b, Moves DEF End
  <2> QED BY <2>1, <2>2 DEF LockInv, Locked
<1>1. ASSUME NEW t \in Threads, Submit(t) \/ Poll(t) \/ WaitTimeout(t) \/ Free(t)
      PROVE  LockInv'
  <2>1. PICK place \in {"idle", "waiting", "freeing"} : \E h : Goto(t, place, h)
    BY <1>1 DEF Submit, Poll, WaitTimeout, Free
  <2>2. resource' = resource
    BY <1>1 DEF Submit, Poll, WaitTimeout, Free, control
  <2> QED BY <1>0, <1>a, <2>1, <2>2 DEF Locked
<1>2. ASSUME NEW t \in Threads, NEW call, Begin(t, call) PROVE LockInv'
  <2>1. \A u \in Threads : u # t => run[u].at \notin Locked /\ run'[u] = run[u]
    BY <1>0, <1>2, Moves DEF LockInv, Begin
  <2> QED BY <1>2, <2>1 DEF LockInv, Begin
<1>3. ASSUME NEW t \in Threads,
             \/ Register(t) \/ Publish(t) \/ Connect(t) \/ Offered(t)
             \/ Exchanged(t) \/ Disconnect(t) \/ Answered(t) \/ CloseControl(t)
             \/ Stop(t) \/ Drained(t) \/ Destroy(t)
      PROVE  LockInv'
  <2>1. run[t].at \in Locked
    BY <1>3 DEF Register, Publish, Connect, Offered, Exchanged, Disconnect,
       Answered, CloseControl, Stop, Drained, Destroy, At, Locked
  <2>2. CASE ~End(t)
    <3>1. resource' = resource
      BY <1>3, <2>2 DEF Register, Publish, Connect, Offered, Exchanged, Disconnect,
         Answered, CloseControl, Stop, Drained, Destroy, control
    <3>2. \E place, h : Goto(t, place, h)
      BY <1>3, <2>2 DEF Register, Publish, Connect, Offered, Exchanged, Disconnect,
         Answered, CloseControl, Stop, Drained, Destroy
    <3> QED BY <1>0, <1>a, <2>1, <3>1, <3>2
  <2> QED BY <1>b, <2>1, <2>2
<1>4. ASSUME NEW w \in Workers, Arrive(w) \/ Handle(w) PROVE LockInv'
  <2>1. resource' = resource
    BY <1>4 DEF Arrive, Handle, HandleConnect, HandleConnectNative, HandleChanged,
       HandleClose, control
  <2>2. \E place, h : Goto(w, place, h)
    BY <1>4 DEF Arrive, Handle, HandleConnect, HandleConnectNative, HandleChanged,
       HandleClose
  <2> QED BY <1>0, <1>a, <2>1, <2>2
<1>5. CASE Finish \/ UNCHANGED vars
  BY <1>5 DEF Finish, vars, control, LockInv
<1> QED BY <1>1, <1>2, <1>3, <1>4, <1>5 DEF Next, Call, Proceed

\* Once the handlers have ended no request starts another one.
LEMMA QuietStays ==
  ASSUME TypeOK, Quiet, [Next]_vars
  PROVE  Quiet'
<1>0. Threads \subseteq Actors /\ Workers \subseteq Actors /\ Threads \cap Workers = {}
  BY ActorsAssumption DEF Actors
<1>a. ASSUME NEW t \in Threads, NEW place, NEW h, Goto(t, place, h), stopped'
      PROVE  Quiet'
  BY <1>0, <1>a, Moves DEF Quiet, At
<1>1. ASSUME NEW t \in Threads, Call(t) \/ Proceed(t) PROVE Quiet'
  <2>1. \E place, h : Goto(t, place, h)
    BY <1>1 DEF Call, Submit, Begin, Proceed, Poll, WaitTimeout, Free, Register,
       Publish, Connect, Offered, Exchanged, Disconnect, Answered, CloseControl,
       Stop, Drained, Destroy, End
  <2>2. stopped'
    BY <1>1 DEF Quiet, Call, Submit, Begin, Proceed, Poll, WaitTimeout, Free,
       Register, Publish, Connect, Offered, Exchanged, Disconnect, Answered,
       CloseControl, Stop, Drained, Destroy, End, control
  <2> QED BY <1>a, <2>1, <2>2
<1>2. ASSUME NEW w \in Workers PROVE ~Arrive(w) /\ ~Handle(w)
  <2>1. run[w].at = "idle" /\ stopped
    BY DEF Quiet, At
  <2> QED BY <2>1 DEF Arrive, Handle, HandleConnect, HandleConnectNative,
          HandleChanged, HandleClose, At
<1>3. CASE Finish \/ UNCHANGED vars
  BY <1>3 DEF Finish, vars, control, Quiet, At
<1> QED BY <1>1, <1>2, <1>3 DEF Next
\* Only close() changes whether the engine is open or closed.
LEMMA WhoCloses ==
  /\ \A t \in Threads : Call(t) => UNCHANGED <<open, closed>>
  /\ \A t \in Threads :
       Proceed(t) /\ ~CloseControl(t) /\ ~Destroy(t) => UNCHANGED <<open, closed>>
  /\ \A w \in Workers : Arrive(w) \/ Handle(w) => UNCHANGED <<open, closed>>
  /\ Finish => UNCHANGED <<open, closed>>
<1>a. /\ \A s : NE!RegisterLocalMemory(s) => open' = open
      /\ \A h, d : NE!ImportRemoteMemory(h, d) => open' = open
      /\ NE!CreatePeer => open' = open
      /\ \A h : NE!ConnectPeer(h) => open' = open
      /\ \A h : NE!DestroyPeer(h) => open' = open
      /\ \A s : NE!SubmitTransfer(s) => open' = open
      /\ \A h, k : NE!Finish(h, k) => open' = open
      /\ \A h : NE!FreeBatch(h) => open' = open
  BY DEF NE!RegisterLocalMemory, NE!ImportRemoteMemory, NE!CreatePeer,
     NE!ConnectPeer, NE!DestroyPeer, NE!SubmitTransfer, NE!Finish, NE!FreeBatch
<1>1. ASSUME NEW t \in Threads, Call(t) PROVE UNCHANGED <<open, closed>>
  BY <1>a, <1>1 DEF Call, Submit, Begin, engine, control
<1>2. ASSUME NEW t \in Threads, Proceed(t), ~CloseControl(t), ~Destroy(t)
      PROVE  UNCHANGED <<open, closed>>
  <2>1. CASE Poll(t) \/ WaitTimeout(t) \/ Free(t) \/ Publish(t) \/ Answered(t)
             \/ Stop(t) \/ Drained(t)
    BY <1>a, <2>1 DEF Poll, WaitTimeout, Free, Publish, Answered, Stop, Drained,
       End, engine, control
  <2>2. CASE Register(t) \/ Connect(t) \/ Offered(t) \/ Exchanged(t) \/ Disconnect(t)
    BY <1>a, <2>2 DEF Register, Connect, Offered, Exchanged, Disconnect, End,
       engine, control
  <2> QED BY <1>2, <2>1, <2>2 DEF Proceed
<1>3. ASSUME NEW w \in Workers, Arrive(w) \/ Handle(w)
      PROVE  UNCHANGED <<open, closed>>
  BY <1>a, <1>3 DEF Arrive, Handle, HandleConnect, HandleConnectNative,
     HandleChanged, HandleClose, engine, control
<1>4. ASSUME Finish PROVE UNCHANGED <<open, closed>>
  BY <1>a, <1>4 DEF Finish, control
<1> QED BY <1>1, <1>2, <1>3, <1>4

LEMMA CloseNext ==
  ASSUME TypeOK, LockInv, CloseInv, [Next]_vars
  PROVE  CloseInv'
<1>0. Threads \subseteq Actors /\ Workers \subseteq Actors /\ Threads \cap Workers = {}
  BY ActorsAssumption DEF Actors
<1>a. closed \in BOOLEAN /\ open \in BOOLEAN
  BY DEF TypeOK, NE!TypeOK
<1>b. Quiet => Quiet'
  BY QuietStays
\* The actor is not in close() before the step and not after it.
<1>c. ASSUME NEW a \in Actors, NEW place, NEW h, Goto(a, place, h),
             UNCHANGED <<open, closed>>, stopped => stopped',
             run[a].at \notin Closing, place \notin Closing
      PROVE  CloseInv'
  <2>1. \A t \in Threads : run'[t].at \in Closing => t # a /\ run'[t] = run[t]
    BY <1>0, <1>c, Moves
  <2>2. ASSUME NEW t \in Threads, run[t].at \in {"stopping", "draining"}
        PROVE  run'[t].at \in {"stopping", "draining"}
    BY <1>0, <1>c, <2>2, Moves DEF Closing
  <2>3. \A t \in Threads :
          /\ run'[t].at \in Closing => closed'
          /\ At(t, "draining")' => stopped'
          /\ At(t, "destroying")' => Quiet'
    BY <1>b, <1>c, <2>1 DEF CloseInv, At, Closing
  <2> QED BY <1>b, <1>c, <2>2, <2>3 DEF CloseInv
<1>d. ASSUME NEW t \in Threads, CloseControl(t) PROVE CloseInv'
  <2>0. run[t].at = "close" /\ closed' /\ open' = open /\ stopped' = stopped
    BY <1>d DEF CloseControl, At, engine
  <2>1. \A u \in Threads : u # t => run[u].at \notin Locked /\ run'[u] = run[u]
    <3>1. resource = t
      BY <2>0 DEF LockInv, Locked
    <3> QED BY <1>0, <1>d, <3>1, Moves DEF LockInv, CloseControl
  <2>2. \A u \in Threads : run[u].at \notin {"stopping", "draining"}
    BY <2>0, <2>1 DEF Locked
  <2>3. CASE closed
    <3>1. Quiet'
      BY <1>b, <2>2, <2>3 DEF CloseInv
    <3>2. run'[t].at = "destroying"
      BY <1>0, <1>d, <2>3, Moves DEF CloseControl
    <3> QED BY <2>0, <2>1, <3>1, <3>2 DEF CloseInv, At, Locked, Closing
  <2>4. CASE ~closed
    <3>1. run'[t].at = "stopping"
      BY <1>0, <1>d, <2>4, Moves DEF CloseControl
    <3>2. open'
      BY <2>0, <2>4 DEF CloseInv
    <3> QED BY <2>0, <2>1, <3>1, <3>2 DEF CloseInv, At, Locked, Closing
  <2> QED BY <1>a, <2>3, <2>4
<1>e. ASSUME NEW t \in Threads, Stop(t) \/ Drained(t) PROVE CloseInv'
  <2>0. closed /\ closed' /\ open' = open /\ stopped'
    BY <1>e DEF Stop, Drained, At, engine, control, CloseInv, Closing
  <2>1. \A u \in Threads : u # t => run[u].at \notin Locked /\ run'[u] = run[u]
    <3>1. resource = t
      BY <1>e DEF LockInv, Locked, Stop, Drained, At
    <3>2. \E place, h : Goto(t, place, h)
      BY <1>e DEF Stop, Drained
    <3> QED BY <1>0, <3>1, <3>2, Moves DEF LockInv
  <2>2. CASE Stop(t)
    <3>1. run'[t].at = "draining"
      BY <1>0, <2>2, Moves DEF Stop
    <3> QED BY <1>b, <2>0, <2>1, <3>1 DEF CloseInv, At, Locked, Closing
  <2>3. CASE Drained(t)
    <3>1. run'[t].at = "destroying"
      BY <1>0, <2>3, Moves DEF Drained
    <3>2. Quiet'
      <4>1. stopped
        BY <2>3 DEF Drained, CloseInv
      <4> QED BY <1>b, <2>3, <4>1 DEF Quiet, Drained
    <3> QED BY <2>0, <2>1, <3>1, <3>2 DEF CloseInv, At, Locked, Closing
  <2> QED BY <1>e, <2>2, <2>3
<1>f. ASSUME NEW t \in Threads, Destroy(t) PROVE CloseInv'
  <2>0. closed' /\ Quiet'
    BY <1>b, <1>f DEF Destroy, CloseInv, Closing, At, End
  <2>1. \A u \in Threads : u # t => run'[u].at \notin Closing
    <3>1. resource = t
      BY <1>f DEF LockInv, Locked, Destroy, At
    <3> QED BY <1>0, <1>f, <3>1, Moves DEF LockInv, Destroy, End, Closing, Locked
  <2>2. run'[t].at = "idle"
    BY <1>0, <1>f, Moves DEF Destroy, End
  <2> QED BY <2>0, <2>1, <2>2 DEF CloseInv, At, Closing
<1>1. ASSUME NEW t \in Threads, Call(t) PROVE CloseInv'
  <2>1. PICK place \in {"waiting", "register", "connect", "disconnect", "close"} :
          \E h : Goto(t, place, h)
    BY <1>1 DEF Call, Submit, Begin
  <2>2. UNCHANGED <<open, closed>> /\ stopped' = stopped /\ run[t].at = "idle"
    BY <1>1, WhoCloses
    DEF Call, Submit, Begin, control, At, CloseControl, Destroy, NE!SubmitTransfer, engine
  <2> QED BY <1>0, <1>c, <2>1, <2>2 DEF Closing
<1>2. ASSUME NEW t \in Threads, Proceed(t), ~CloseControl(t), ~Stop(t),
             ~Drained(t), ~Destroy(t)
      PROVE  CloseInv'
  <2>0. \/ Poll(t) \/ WaitTimeout(t) \/ Free(t) \/ Register(t) \/ Publish(t)
        \/ Connect(t) \/ Offered(t) \/ Exchanged(t) \/ Disconnect(t) \/ Answered(t)
    BY <1>2 DEF Proceed
  <2>1. PICK place \in {"idle", "freeing", "publish", "announcing", "offering",
                        "exchanging", "parting"} : \E h : Goto(t, place, h)
    BY <2>0 DEF Poll, WaitTimeout, Free, Register, Publish, Connect, Offered,
       Exchanged, Disconnect, Answered, End
  <2>2. stopped' = stopped /\ run[t].at \notin Closing
    BY <2>0 DEF Poll, WaitTimeout, Free, Register, Publish, Connect, Offered,
       Exchanged, Disconnect, Answered, End, control, At, Closing
  <2>3. UNCHANGED <<open, closed>>
    BY <1>2, WhoCloses
  <2> QED BY <1>0, <1>c, <2>1, <2>2, <2>3 DEF Closing
<1>3. ASSUME NEW w \in Workers, Arrive(w) \/ Handle(w) PROVE CloseInv'
  <2>1. \E place, h : Goto(w, place, h)
    BY <1>3 DEF Arrive, Handle, HandleConnect, HandleConnectNative, HandleChanged,
       HandleClose
  <2>2. \A t \in Threads : run'[t] = run[t]
    BY <1>0, <2>1, Moves
  <2>3. UNCHANGED <<open, closed, stopped>>
    BY <1>3, WhoCloses DEF Arrive, Handle, HandleConnect, HandleConnectNative,
       HandleChanged, HandleClose, control
  <2> QED BY <1>b, <2>2, <2>3 DEF CloseInv, At
<1>4. CASE Finish \/ UNCHANGED vars
  <2>1. UNCHANGED <<open, closed, stopped, run>>
    BY <1>4, WhoCloses DEF Finish, vars, engine, control
  <2> QED BY <1>b, <2>1 DEF CloseInv, At
<1> QED BY <1>d, <1>e, <1>f, <1>1, <1>2, <1>3, <1>4 DEF Next

\* What the calls of other threads find open stays open until they end.
LEMMA CutNext ==
  ASSUME TypeOK, LockInv, CloseInv, CallsNotCutOff, [Next]_vars
  PROVE  CallsNotCutOff'
<1> DEFINE Pending ==
      {"publish", "announcing", "offering", "exchanging", "parting"}
<1>0. Threads \subseteq Actors /\ Workers \subseteq Actors /\ Threads \cap Workers = {}
  BY ActorsAssumption DEF Actors
<1>a. ASSUME NEW a \in Actors, NEW place, NEW h, Goto(a, place, h),
             UNCHANGED <<open, closed>>,
             a \in Threads /\ place \in Pending => open /\ ~closed
      PROVE  CallsNotCutOff'
  <2> SUFFICES ASSUME NEW t \in Threads, run'[t].at \in Pending
               PROVE  open' /\ ~closed'
    BY DEF CallsNotCutOff
  <2>1. CASE t = a
    BY <1>0, <1>a, <2>1, Moves
  <2>2. CASE t # a
    BY <1>0, <1>a, <2>2, Moves DEF CallsNotCutOff
  <2> QED BY <2>1, <2>2
<1>b. ASSUME NEW t \in Threads, CloseControl(t) \/ Destroy(t) PROVE CallsNotCutOff'
  <2>1. resource = t
    BY <1>b DEF LockInv, Locked, CloseControl, Destroy, At
  <2>2. PICK place \in {"idle", "destroying", "stopping"} : \E h : Goto(t, place, h)
    BY <1>b DEF CloseControl, Destroy, End
  <2>3. \A u \in Threads : run'[u].at \notin Pending
    BY <1>0, <2>1, <2>2, Moves DEF LockInv, Locked
  <2> QED BY <2>3 DEF CallsNotCutOff
<1>1. ASSUME NEW t \in Threads, Call(t) PROVE CallsNotCutOff'
  <2>1. PICK place \in {"waiting", "register", "connect", "disconnect", "close"} :
          \E h : Goto(t, place, h)
    BY <1>1 DEF Call, Submit, Begin
  <2> QED BY <1>0, <1>1, <1>a, <2>1, WhoCloses
<1>2. ASSUME NEW t \in Threads, Proceed(t), ~CloseControl(t), ~Destroy(t)
      PROVE  CallsNotCutOff'
  <2>1. UNCHANGED <<open, closed>>
    BY <1>2, WhoCloses
  <2>2. CASE Poll(t) \/ WaitTimeout(t) \/ Free(t) \/ Answered(t) \/ Exchanged(t)
             \/ Stop(t) \/ Drained(t)
    <3>1. PICK place \in {"idle", "freeing", "draining", "destroying"} :
            \E h : Goto(t, place, h)
      BY <2>2 DEF Poll, WaitTimeout, Free, Answered, Exchanged, Stop, Drained, End
    <3> QED BY <1>0, <1>a, <2>1, <3>1
  <2>3. CASE Register(t) \/ Connect(t) \/ Disconnect(t)
    <3>1. PICK place : \E h : Goto(t, place, h)
      BY <2>3 DEF Register, Connect, Disconnect, End
    <3>2. place \in Pending => ~closed
      BY <1>0, <2>3, <3>1, Moves DEF Register, Connect, Disconnect, Refuses, End
    <3> QED BY <1>0, <1>a, <2>1, <3>1, <3>2 DEF CloseInv
  <2>4. CASE Publish(t) \/ Offered(t)
    <3>1. open /\ ~closed
      BY <2>4 DEF CallsNotCutOff, Publish, Offered, At
    <3>2. \E place, h : Goto(t, place, h)
      BY <2>4 DEF Publish, Offered, End
    <3> QED BY <1>0, <1>a, <2>1, <3>1, <3>2
  <2> QED BY <1>2, <2>2, <2>3, <2>4 DEF Proceed
<1>3. ASSUME NEW w \in Workers, Arrive(w) \/ Handle(w) PROVE CallsNotCutOff'
  <2>1. \E place, h : Goto(w, place, h)
    BY <1>3 DEF Arrive, Handle, HandleConnect, HandleConnectNative, HandleChanged,
       HandleClose
  <2> QED BY <1>0, <1>3, <1>a, <2>1, WhoCloses
<1>4. CASE Finish \/ UNCHANGED vars
  <2>1. UNCHANGED <<open, closed, run>>
    BY <1>4, WhoCloses DEF Finish, vars, engine, control
  <2> QED BY <2>1 DEF CallsNotCutOff
<1> QED BY <1>b, <1>1, <1>2, <1>3, <1>4 DEF Next
-----------------------------------------------------------------------------
(* Transfers *)

\* A call that is not about batches: no task becomes pending.
Keeps ==
  /\ batches' = batches
  /\ \A b \in NE!Handles : NE!Unfinished(b)' => NE!Unfinished(b)

LEMMA KeepsBatches ==
  ASSUME NE!TypeOK
  PROVE  /\ UNCHANGED engine => Keeps
         /\ \A s : NE!RegisterLocalMemory(s) => Keeps
         /\ \A h, d : NE!ImportRemoteMemory(h, d) => Keeps
         /\ NE!CreatePeer => Keeps
         /\ \A h : NE!ConnectPeer(h) => Keeps
         /\ \A h : NE!DestroyPeer(h) => Keeps
         /\ \A h, k : NE!Finish(h, k) => Keeps
<1>1. UNCHANGED <<batches, tasks>> => Keeps
  BY DEF Keeps, NE!Unfinished
<1>2. UNCHANGED engine => Keeps
  BY <1>1 DEF engine
<1>3. /\ \A s : NE!RegisterLocalMemory(s) => Keeps
      /\ \A h, d : NE!ImportRemoteMemory(h, d) => Keeps
      /\ NE!CreatePeer => Keeps
      /\ \A h : NE!ConnectPeer(h) => Keeps
  BY <1>1 DEF NE!RegisterLocalMemory, NE!ImportRemoteMemory, NE!CreatePeer,
     NE!ConnectPeer, NE!mirrors
<1>4. \A h : NE!DestroyPeer(h) => Keeps
  <2> SUFFICES ASSUME NEW h, NE!DestroyPeer(h) PROVE Keeps
    OBVIOUS
  <2>1. batches' = batches
    BY DEF NE!DestroyPeer
  <2>2. ASSUME NEW b \in NE!Handles, NE!Unfinished(b)' PROVE NE!Unfinished(b)
    <3>1. PICK k \in DOMAIN tasks'[b] : tasks'[b][k].state = "PENDING"
      BY <2>2 DEF NE!Unfinished
    <3>2. tasks'[b] = [j \in DOMAIN tasks[b] |-> NE!Canceled(tasks[b][j], h)]
      BY DEF NE!DestroyPeer
    <3>3. k \in DOMAIN tasks[b] /\ tasks'[b][k] = NE!Canceled(tasks[b][k], h)
      BY <3>1, <3>2
    <3>4. tasks[b][k].state = "PENDING"
      BY <3>1, <3>3 DEF NE!Canceled
    <3> QED BY <3>3, <3>4 DEF NE!Unfinished
  <2> QED BY <2>1, <2>2 DEF Keeps
<1>5. \A h, k : NE!Finish(h, k) => Keeps
  <2> SUFFICES ASSUME NEW h, NEW k, NE!Finish(h, k) PROVE Keeps
    OBVIOUS
  <2>1. batches' = batches
    BY DEF NE!Finish, NE!mirrors
  <2>2. PICK s \in {"COMPLETED", "FAILED"} :
          tasks' = [tasks EXCEPT ![h] = [tasks[h] EXCEPT ![k] =
                     [tasks[h][k] EXCEPT !.state = s]]]
    BY DEF NE!Finish
  <2>3. ASSUME NEW b \in NE!Handles, NE!Unfinished(b)' PROVE NE!Unfinished(b)
    <3>1. tasks[b] \in Seq(NE!Tasks)
      BY DEF NE!TypeOK
    <3>2. PICK j \in DOMAIN tasks'[b] : tasks'[b][j].state = "PENDING"
      BY <2>3 DEF NE!Unfinished
    <3>3. DOMAIN tasks'[b] = DOMAIN tasks[b]
      BY <2>2, <3>1 DEF NE!TypeOK
    <3>4. CASE b = h
      <4>1. k \in DOMAIN tasks[b] /\ tasks[b][k].state = "PENDING"
        BY <3>4 DEF NE!Finish
      <4> QED BY <4>1 DEF NE!Unfinished
    <3>5. CASE b # h
      <4>1. tasks'[b] = tasks[b]
        BY <2>2, <3>5 DEF NE!TypeOK
      <4> QED BY <3>2, <4>1 DEF NE!Unfinished
    <3> QED BY <3>4, <3>5
  <2> QED BY <2>1, <2>3 DEF Keeps
<1> QED BY <1>2, <1>3, <1>4, <1>5

\* Every transfer() that goes on has a batch of its own.
TransferInv ==
  /\ \A t, u \in Threads :
       Transfers(t) /\ Transfers(u) /\ run[t].h = run[u].h => t = u
  /\ \A t \in Threads : Transfers(t) /\ open => batches[run[t].h] # <<>>
  /\ FreeIsNeverBusy
  /\ BatchesOwned

LEMMA TransferNext ==
  ASSUME TypeOK, Carries, CloseInv, TransferInv, [Next]_vars
  PROVE  TransferInv'
<1>0. Threads \subseteq Actors /\ Workers \subseteq Actors /\ Threads \cap Workers = {}
  BY ActorsAssumption DEF Actors
<1>1. NE!TypeOK /\ issued \in Nat /\ (open' => open)
  BY EngineGrows, ActorsAssumption DEF TypeOK, NE!TypeOK
<1>2. \A t \in Threads : Transfers(t) => run[t].h \in NE!Handles /\ run[t].h \in 1..issued
  <2>1. issued \in 0..MaxHandles /\ MaxHandles \in Nat
    BY <1>1, ActorsAssumption DEF NE!TypeOK, NE!EngineAssumption
  <2> QED BY <2>1 DEF Carries, NE!Handles
\* A step that goes on with a transfer, gives one up or is about something else.
<1>a. ASSUME NEW a \in Actors, NEW place, NEW h, Goto(a, place, h), Keeps,
             closed => closed', kept \subseteq kept',
             a \in Threads /\ place \in {"waiting", "freeing"} =>
               /\ Transfers(a) /\ h = run[a].h
               /\ place = "freeing" => ~NE!Unfinished(h),
             a \in Threads /\ place \notin {"waiting", "freeing"} /\ Transfers(a) =>
               closed' \/ run[a].h \in kept'
      PROVE  TransferInv'
  <2>1. \A t \in Threads : Transfers(t)' =>
          /\ Transfers(t) /\ run'[t].h = run[t].h
          /\ At(t, "freeing")' => (At(t, "freeing") /\ t # a) \/ ~NE!Unfinished(run[t].h)
    BY <1>0, <1>a, Moves DEF Transfers, At
  <2>2. \A t, u \in Threads :
          Transfers(t)' /\ Transfers(u)' /\ run'[t].h = run'[u].h => t = u
    BY <2>1 DEF TransferInv
  <2>3. \A t \in Threads : Transfers(t)' /\ open' => batches'[run'[t].h] # <<>>
    BY <1>1, <1>a, <2>1 DEF TransferInv, Keeps
  <2>4. FreeIsNeverBusy'
    <3> SUFFICES ASSUME NEW t \in Threads, At(t, "freeing")', open'
                 PROVE  batches'[run'[t].h] # <<>> /\ ~NE!Unfinished(run[t].h)'
      BY DEF FreeIsNeverBusy
    <3>1. Transfers(t)'
      BY DEF At, Transfers
    <3>2. ~NE!Unfinished(run[t].h)
      BY <1>1, <2>1, <3>1 DEF TransferInv, FreeIsNeverBusy
    <3> QED BY <1>2, <1>a, <2>1, <2>3, <3>1, <3>2 DEF Keeps
  <2>5. BatchesOwned'
    <3> SUFFICES ASSUME NEW b \in NE!Handles, batches'[b] # <<>>, ~closed',
                        b \notin kept'
                 PROVE  \E t \in Threads :
                          run'[t].at \in {"waiting", "freeing"} /\ run'[t].h = b
      BY DEF BatchesOwned
    <3>1. PICK t \in Threads : Transfers(t) /\ run[t].h = b
      BY <1>a DEF TransferInv, BatchesOwned, Keeps, Transfers
    <3> QED BY <1>0, <1>a, <3>1, Moves DEF Transfers
  <2> QED BY <2>2, <2>3, <2>4, <2>5 DEF TransferInv
<1>b. ASSUME NEW t \in Threads, Submit(t) PROVE TransferInv'
  <2>1. PICK x \in NE!Submissions : NE!SubmitTransfer(x)
    BY <1>b DEF Submit
  <2>2. /\ issued + 1 \in NE!Handles /\ open' = open
        /\ batches' = [batches EXCEPT ![issued + 1] = [k \in DOMAIN x |-> x[k].op]]
        /\ tasks' = [tasks EXCEPT ![issued + 1] =
                       [k \in DOMAIN x |-> [req |-> x[k], state |-> "PENDING"]]]
    BY <2>1 DEF NE!SubmitTransfer, NE!Fresh
  <2>3. [k \in DOMAIN x |-> x[k].op] # <<>>
    <3>1. PICK n \in 1..MaxTasks : x \in [1..n -> {r \in NE!Requests : NE!Accepts(r)}]
      BY DEF NE!Submissions
    <3>2. 1 \in DOMAIN x
      BY <3>1, ActorsAssumption DEF NE!EngineAssumption
    <3> QED BY <3>2
  <2>4. \A b \in NE!Handles : b # issued + 1 =>
          batches'[b] = batches[b] /\ tasks'[b] = tasks[b]
    BY <1>1, <2>2 DEF NE!TypeOK
  <2>5. batches'[issued + 1] # <<>>
    BY <1>1, <2>2, <2>3 DEF NE!TypeOK
  <2>6. /\ run'[t].at = "waiting" /\ run'[t].h = issued + 1
        /\ \A u \in Threads : u # t => run'[u] = run[u]
    BY <1>0, <1>b, Moves DEF Submit
  <2>7. \A u \in Threads : u # t /\ Transfers(u)' =>
          /\ Transfers(u) /\ run'[u].h = run[u].h
          /\ run[u].h \in NE!Handles /\ run[u].h # issued + 1
    BY <1>1, <1>2, <2>6 DEF Transfers
  <2>8. \A u, v \in Threads :
          Transfers(u)' /\ Transfers(v)' /\ run'[u].h = run'[v].h => u = v
    BY <2>6, <2>7 DEF TransferInv
  <2>9. \A u \in Threads : Transfers(u)' /\ open' => batches'[run'[u].h] # <<>>
    BY <2>2, <2>4, <2>5, <2>6, <2>7 DEF TransferInv
  <2>10. FreeIsNeverBusy'
    <3> SUFFICES ASSUME NEW u \in Threads, At(u, "freeing")', open'
                 PROVE  batches'[run'[u].h] # <<>> /\ ~NE!Unfinished(run[u].h)'
      BY DEF FreeIsNeverBusy
    <3>1. u # t /\ Transfers(u)'
      BY <2>6 DEF At, Transfers
    <3>2. ~NE!Unfinished(run[u].h)
      BY <2>2, <2>6, <3>1 DEF TransferInv, FreeIsNeverBusy, At
    <3>3. tasks'[run'[u].h] = tasks[run[u].h]
      BY <2>4, <2>7, <3>1
    <3> QED BY <2>9, <3>1, <3>2, <3>3 DEF NE!Unfinished
  <2>11. BatchesOwned'
    <3> SUFFICES ASSUME NEW b \in NE!Handles, batches'[b] # <<>>, ~closed',
                        b \notin kept'
                 PROVE  \E u \in Threads : Transfers(u)' /\ run'[u].h = b
      BY DEF BatchesOwned, Transfers
    <3>1. CASE b = issued + 1
      BY <2>6, <3>1 DEF Transfers
    <3>2. CASE b # issued + 1
      <4>1. PICK u \in Threads : Transfers(u) /\ run[u].h = b
        BY <1>b, <2>4, <3>2 DEF TransferInv, BatchesOwned, Submit, control, Transfers
      <4>2. u # t
        BY <1>b, <4>1 DEF Submit, At, Transfers
      <4> QED BY <2>6, <4>1, <4>2 DEF Transfers
    <3> QED BY <3>1, <3>2
  <2> QED BY <2>8, <2>9, <2>10, <2>11 DEF TransferInv
<1>c. ASSUME NEW t \in Threads, Free(t), NE!FreeBatch(run[t].h) PROVE TransferInv'
  <2>1. Transfers(t)
    BY <1>c DEF Free, At, Transfers
  <2>2. \A b \in NE!Handles : b # run[t].h =>
          batches'[b] = batches[b] /\ tasks'[b] = tasks[b]
    BY <1>1, <1>c DEF NE!FreeBatch, NE!TypeOK
  <2>3. batches'[run[t].h] = <<>> /\ open' = open
    BY <1>1, <1>2, <1>c, <2>1 DEF NE!FreeBatch, NE!TypeOK
  <2>4. /\ run'[t].at = "idle"
        /\ \A u \in Threads : u # t => run'[u] = run[u]
    BY <1>0, <1>c, Moves DEF Free
  <2>5. \A u \in Threads : Transfers(u)' =>
          /\ Transfers(u) /\ run'[u] = run[u] /\ run[u].h \in NE!Handles
          /\ batches'[run[u].h] = batches[run[u].h]
          /\ tasks'[run[u].h] = tasks[run[u].h]
    BY <1>2, <2>1, <2>2, <2>4 DEF Transfers, TransferInv
  <2>6. FreeIsNeverBusy'
    <3> SUFFICES ASSUME NEW u \in Threads, At(u, "freeing")', open'
                 PROVE  batches'[run'[u].h] # <<>> /\ ~NE!Unfinished(run[u].h)'
      BY DEF FreeIsNeverBusy
    <3>1. Transfers(u)' /\ At(u, "freeing")
      BY <2>4 DEF At, Transfers
    <3>2. ~NE!Unfinished(run[u].h) /\ batches[run[u].h] # <<>>
      BY <2>3, <3>1 DEF TransferInv, FreeIsNeverBusy
    <3> QED BY <2>5, <3>1, <3>2 DEF NE!Unfinished
  <2>7. BatchesOwned'
    <3> SUFFICES ASSUME NEW b \in NE!Handles, batches'[b] # <<>>, ~closed',
                        b \notin kept'
                 PROVE  \E u \in Threads : Transfers(u)' /\ run'[u].h = b
      BY DEF BatchesOwned, Transfers
    <3>1. b # run[t].h
      BY <2>3
    <3>2. PICK u \in Threads : Transfers(u) /\ run[u].h = b
      BY <1>c, <2>2, <3>1 DEF TransferInv, BatchesOwned, Free, control, Transfers
    <3> QED BY <2>4, <3>1, <3>2 DEF Transfers
  <2> QED BY <2>3, <2>5, <2>6, <2>7 DEF TransferInv
<1>d. ASSUME NEW t \in Threads, Destroy(t), NE!Close PROVE TransferInv'
  <2>1. ~open' /\ closed'
    BY <1>d DEF NE!Close, Destroy, End, CloseInv, At, Closing
  <2>2. \A u \in Threads : Transfers(u)' => Transfers(u) /\ run'[u] = run[u]
    BY <1>0, <1>d, Moves DEF Destroy, End, Transfers
  <2> QED BY <2>1, <2>2 DEF TransferInv, FreeIsNeverBusy, BatchesOwned
<1>3. ASSUME NEW t \in Threads, Call(t) PROVE TransferInv'
  <2>1. CASE \E call \in {"register", "connect", "disconnect", "close"} : Begin(t, call)
    <3>1. ~Transfers(t) /\ UNCHANGED <<engine, closed, kept>>
      BY <2>1 DEF Begin, At, Transfers
    <3> QED BY <1>0, <1>1, <1>a, <2>1, <3>1, KeepsBatches DEF Begin
  <2> QED BY <1>3, <1>b, <2>1 DEF Call
<1>4. ASSUME NEW t \in Threads, Poll(t) \/ WaitTimeout(t) \/ Free(t)
      PROVE  TransferInv'
  <2>1. CASE Free(t) /\ UNCHANGED engine
    <3>1. closed' = closed /\ kept' = kept /\ Goto(t, "idle", None)
      BY <2>1 DEF Free, control
    <3>2. closed
      <4>1. ~NE!FreeBatch(run[t].h)
        <5>1. Transfers(t)
          BY <2>1 DEF Free, At, Transfers
        <5>2. NE!FreeBatch(run[t].h) => batches'[run[t].h] = <<>> /\ open' = open /\ open
          BY <1>1, <1>2, <5>1 DEF NE!FreeBatch, NE!TypeOK
        <5>3. batches' = batches
          BY <2>1 DEF engine
        <5> QED BY <5>1, <5>2, <5>3 DEF TransferInv
      <4> QED BY <2>1, <4>1 DEF Free, Refuses, CloseInv
    <3> QED BY <1>0, <1>1, <1>a, <2>1, <3>1, <3>2, KeepsBatches
  <2>2. CASE Free(t) /\ ~UNCHANGED engine
    BY <1>c, <2>2 DEF Free
  <2>3. CASE Poll(t)
    <3>1. Transfers(t) /\ UNCHANGED <<engine, closed, kept>>
      BY <2>3 DEF Poll, At, Transfers, control
    <3>2. \/ closed /\ Goto(t, "idle", None)
          \/ ~NE!Unfinished(run[t].h) /\ Goto(t, "freeing", run[t].h)
      BY <2>3 DEF Poll, Refuses, CloseInv
    <3> QED BY <1>0, <1>1, <1>a, <3>1, <3>2, KeepsBatches
  <2>4. CASE WaitTimeout(t)
    <3>1. /\ UNCHANGED <<engine, closed>> /\ kept' = kept \cup {run[t].h}
          /\ Goto(t, "idle", None)
      BY <2>4 DEF WaitTimeout
    <3> QED BY <1>0, <1>1, <1>a, <3>1, KeepsBatches
  <2> QED BY <1>4, <2>1, <2>2, <2>3, <2>4
<1>5. ASSUME NEW t \in Threads,
             \/ Register(t) \/ Publish(t) \/ Connect(t) \/ Offered(t)
             \/ Exchanged(t) \/ Disconnect(t) \/ Answered(t) \/ CloseControl(t)
             \/ Stop(t) \/ Drained(t) \/ (Destroy(t) /\ ~NE!Close)
      PROVE  TransferInv'
  <2>1. Keeps
    BY <1>1, <1>5, KeepsBatches DEF Register, Publish, Connect, Offered, Exchanged,
       Disconnect, Answered, CloseControl, Stop, Drained, Destroy
  <2>2. ~Transfers(t)
    BY <1>5 DEF Register, Publish, Connect, Offered, Exchanged, Disconnect,
       Answered, CloseControl, Stop, Drained, Destroy, At, Transfers
  <2>3. (closed => closed') /\ kept' = kept
    BY <1>5 DEF Register, Publish, Connect, Offered, Exchanged, Disconnect,
       Answered, CloseControl, Stop, Drained, Destroy, End, control
  <2>4. \E place \in Places \ {"waiting", "freeing"} : \E h : Goto(t, place, h)
    BY <1>5 DEF Register, Publish, Connect, Offered, Exchanged, Disconnect,
       Answered, CloseControl, Stop, Drained, Destroy, End, Places
  <2> QED BY <1>0, <1>a, <2>1, <2>2, <2>3, <2>4
<1>6. ASSUME NEW w \in Workers, Arrive(w) \/ Handle(w) PROVE TransferInv'
  <2>1. Keeps
    BY <1>1, <1>6, KeepsBatches DEF Arrive, Handle, HandleConnect,
       HandleConnectNative, HandleChanged, HandleClose
  <2>2. closed' = closed /\ kept' = kept
    BY <1>6 DEF Arrive, Handle, HandleConnect, HandleConnectNative, HandleChanged,
       HandleClose, control
  <2>3. \E place, h : Goto(w, place, h)
    BY <1>6 DEF Arrive, Handle, HandleConnect, HandleConnectNative, HandleChanged,
       HandleClose
  <2> QED BY <1>0, <1>a, <2>1, <2>2, <2>3
<1>7. CASE Finish \/ UNCHANGED vars
  <2>1. Keeps /\ UNCHANGED <<open, closed, kept, run>>
    BY <1>1, <1>7, KeepsBatches, WhoCloses DEF Finish, vars, engine, control
  <2>2. FreeIsNeverBusy'
    <3> SUFFICES ASSUME NEW u \in Threads, At(u, "freeing"), open
                 PROVE  batches'[run[u].h] # <<>> /\ ~NE!Unfinished(run[u].h)'
      BY <2>1 DEF FreeIsNeverBusy, At
    <3>1. run[u].h \in NE!Handles
      BY <1>2 DEF At, Transfers
    <3>2. ~NE!Unfinished(run[u].h) /\ batches[run[u].h] # <<>>
      BY DEF TransferInv, FreeIsNeverBusy
    <3>3. ~NE!Unfinished(run[u].h)'
      BY <2>1, <3>1, <3>2 DEF Keeps
    <3> QED BY <2>1, <3>2, <3>3 DEF Keeps
  <2> QED BY <2>1, <2>2 DEF TransferInv, BatchesOwned, Transfers, Keeps
<1> QED BY <1>d, <1>3, <1>4, <1>5, <1>6, <1>7 DEF Next, Proceed
-----------------------------------------------------------------------------
(* Theorems *)

IInv == TypeOK /\ Carries /\ LockInv /\ CloseInv /\ CallsNotCutOff /\ TransferInv

LEMMA IInvInit == Init => IInv
<1> SUFFICES ASSUME Init PROVE IInv
  OBVIOUS
<1>1. NE!TypeOK
  <2>1. NEP!Init
    BY DEF Init, NE!Init, NEP!Init, NE!Empty, NEP!Empty, NE!Handles, NEP!Handles
  <2> QED BY <2>1, NEP!TypeInit, SameTypes, ActorsAssumption
<1>2. \A a \in Actors : run[a].at = "idle" /\ run[a] = Idle
  BY DEF Init, Idle
<1>3. open /\ ~closed /\ \A b \in NE!Handles : batches[b] = <<>>
  BY DEF Init, NE!Init, NE!Empty
<1>4. TypeOK
  BY <1>1 DEF Init, TypeOK, Idle, Places
<1>5. Carries /\ LockInv /\ CallsNotCutOff /\ CloseInv
  BY <1>2, <1>3 DEF Carries, LockInv, CallsNotCutOff, CloseInv, Transfers, At,
     Locked, Closing, Actors
<1>6. TransferInv
  BY <1>2, <1>3 DEF TransferInv, FreeIsNeverBusy, BatchesOwned, Transfers, At, Actors
<1> QED BY <1>4, <1>5, <1>6 DEF IInv

LEMMA IInvNext == IInv /\ [Next]_vars => IInv'
<1> SUFFICES ASSUME IInv, [Next]_vars PROVE IInv'
  OBVIOUS
<1>1. TypeOK /\ Carries /\ LockInv /\ CloseInv /\ CallsNotCutOff /\ TransferInv
  BY DEF IInv
<1>2. TypeOK' /\ Carries'
  BY <1>1, EngineType, ControlType DEF TypeOK, ControlOK
<1> QED BY <1>1, <1>2, LockNext, CloseNext, CutNext, TransferNext DEF IInv

LEMMA Invariant == Spec => []IInv
BY IInvInit, IInvNext, PTL DEF Spec

(***************************************************************************)
(* Every variable has its type, whatever handlers, threads and the native  *)
(* worker do to the engine in between.                                     *)
(***************************************************************************)
THEOREM SharedTyped == Spec => []TypeOK
<1>1. IInv => TypeOK
  BY DEF IInv
<1> QED BY <1>1, Invariant, PTL

(***************************************************************************)
(* close() never cuts another call off (engine.py:80-84, 132), because a   *)
(* thread inside a resource operation holds the resource lock.             *)
(***************************************************************************)
THEOREM NobodyCutOff == Spec => []CallsNotCutOff
<1>1. IInv => CallsNotCutOff
  BY DEF IInv
<1> QED BY <1>1, Invariant, PTL

(***************************************************************************)
(* No handler is under way when the native engine goes (control.py:214-215 *)
(* before engine.py:135): a close() that finds the control plane closed    *)
(* comes after one that has waited for the handlers.                       *)
(***************************************************************************)
THEOREM HandlersSafe == Spec => []HandlersSeeEngine
<1>1. IInv => HandlersSeeEngine
  BY DEF IInv, CloseInv, Quiet, HandlersSeeEngine
<1> QED BY <1>1, Invariant, PTL

(***************************************************************************)
(* A batch is freed by the transfer() that made it, or is one whose        *)
(* transfer() timed out (engine.py:117, 122-124).                          *)
(***************************************************************************)
THEOREM NoBatchLeft == Spec => []BatchesOwned
<1>1. IInv => BatchesOwned
  BY DEF IInv, TransferInv
<1> QED BY <1>1, Invariant, PTL

(***************************************************************************)
(* What wait() saw is still so when transfer() frees the batch             *)
(* (engine.py:123-124): no other thread holds its handle and no task       *)
(* becomes pending again.                                                  *)
(***************************************************************************)
THEOREM FreeSucceeds == Spec => []FreeIsNeverBusy
<1>1. IInv => FreeIsNeverBusy
  BY DEF IInv, TransferInv
<1> QED BY <1>1, Invariant, PTL

-----------------------------------------------------------------------------
(* The wrapper under many threads *)

LEMMA SameReleases ==
  /\ \A h : NE!DeregisterLocalMemory(h) <=> NEP!DeregisterLocalMemory(h)
  /\ \A h : NE!RemoveRemoteMemory(h) <=> NEP!RemoveRemoteMemory(h)
BY DEF NE!DeregisterLocalMemory, NEP!DeregisterLocalMemory, NE!RemoveRemoteMemory,
       NEP!RemoveRemoteMemory, NE!Borrows, NEP!Borrows, NE!Uses, NEP!Uses,
       NE!PendingTasks, NEP!PendingTasks, NE!Handles, NEP!Handles

LEMMA SameSpec ==
  /\ NE!Init <=> NEP!Init
  /\ NE!Next <=> NEP!Next
  /\ NE!vars = NEP!vars
<1>1. NE!Handles = NEP!Handles
  BY DEF NE!Handles, NEP!Handles
<1>2. NE!Init <=> NEP!Init
  BY <1>1 DEF NE!Init, NEP!Init, NE!Empty, NEP!Empty
<1>3. NE!Next <=> NEP!Next
  BY <1>1, SameMemory, SamePeers, SameBatches, SameReleases, SameClose
  DEF NE!Next, NEP!Next
<1>4. NE!vars = NEP!vars
  BY DEF NE!vars, NEP!vars, NE!native, NEP!native, NE!mirrors, NEP!mirrors
<1> QED BY <1>2, <1>3, <1>4

LEMMA SameProperties ==
  /\ NE!MirrorsAgree <=> NEP!MirrorsAgree
  /\ NE!BuffersRetained <=> NEP!BuffersRetained
BY DEF NE!MirrorsAgree, NEP!MirrorsAgree, NE!BuffersRetained, NEP!BuffersRetained,
       NE!PendingTasks, NEP!PendingTasks, NE!Handles, NEP!Handles

(***************************************************************************)
(* Whatever threads and handlers interleave, the wrapper and its native    *)
(* engine only take steps that a single caller could make them take: what  *)
(* a call checked in one section under the state lock is still true, or is *)
(* checked again, where it uses it (control.py:123-143, 158-167, engine.py *)
(* :93-107).                                                               *)
(***************************************************************************)
THEOREM CallsAreSerial == Spec => NE!Spec
<1>1. Init => NE!Init
  BY DEF Init
<1>2. IInv /\ [Next]_vars => [NE!Next]_(NE!vars)
  <2> SUFFICES ASSUME IInv, [Next]_vars
               PROVE  [NE!Next]_(NE!vars)
    OBVIOUS
  <2>1. NEP!Next \/ UNCHANGED engine
    BY EngineStep DEF IInv
  <2>2. UNCHANGED engine => UNCHANGED NE!vars
    BY DEF engine, NE!vars, NE!native, NE!mirrors
  <2> QED BY <2>1, <2>2, SameSpec
<1> QED BY <1>1, <1>2, Invariant, PTL DEF Spec, NE!Spec

(***************************************************************************)
(* Threads that share an engine do not break what the wrapper promises to  *)
(* one: every buffer that the device may access is retained, and the       *)
(* mirrors say what the native engine holds.                               *)
(***************************************************************************)
THEOREM WrapperUnbroken == Spec => [](NE!BuffersRetained /\ NE!MirrorsAgree)
<1>1. NE!Spec => NEP!Spec
  <2>1. NE!Init => NEP!Init
    BY SameSpec
  <2>2. [NE!Next]_(NE!vars) => [NEP!Next]_(NEP!vars)
    BY SameSpec DEF NE!vars, NEP!vars, NE!native, NEP!native, NE!mirrors,
                    NEP!mirrors
  <2> QED BY <2>1, <2>2, PTL DEF NE!Spec, NEP!Spec
<1>2. NEP!Spec => []NEP!BuffersRetained /\ []NEP!MirrorsAgree
  BY NEP!BuffersKept, NEP!MirrorsFaithful, ActorsAssumption
<1> QED BY <1>1, <1>2, CallsAreSerial, SameProperties, PTL
=============================================================================
