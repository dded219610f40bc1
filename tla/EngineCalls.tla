----------------------------- MODULE EngineCalls -----------------------------
(***************************************************************************)
(* Engine (src/rdma101/engine.py): the threads of one process that share   *)
(* a NativeEngine.  Application threads transfer, register, connect,       *)
(* disconnect and close; worker threads of the RPC server run the handlers *)
(* of the other engine's requests; the native worker ends tasks.           *)
(*                                                                         *)
(* Two locks order them.  The resource lock is held for a whole resource   *)
(* operation, RPCs included.  The state lock is held for one critical      *)
(* section, which is one action below unless it makes two native calls.    *)
(* The control plane is reduced to what it does to the native engine, with *)
(* one other engine and so at most one peer; ControlPlane has the rest.    *)
(***************************************************************************)
EXTENDS Integers, Sequences

CONSTANTS
  Storages, Descriptors, None, MaxHandles, MaxTasks, Missing,
  Threads,   \* application threads
  Workers    \* threads of the RPC server

VARIABLES
  regions, qps, imports, tasks, issued, open,
  memories, remoteMemories, batches, peers,
  resource,   \* the thread that holds the resource lock
  stateLock,  \* the worker that holds the state lock between two actions
  closed,     \* ControlPlane.closed
  stopped,    \* the RPC server takes no more requests
  run,        \* what an actor is about to do, and the handle it does it to
  kept        \* batches whose transfer() has timed out

NE == INSTANCE NativeEngine

Actors == Threads \cup Workers

ASSUME ActorsAssumption ==
  /\ NE!EngineAssumption
  /\ Threads \cap Workers = {} /\ None \notin Actors

engine == <<regions, qps, imports, tasks, issued, open, memories,
            remoteMemories, batches, peers>>
control == <<resource, stateLock, closed, stopped, kept>>
vars == <<engine, control, run>>

Places ==
  {"idle", "waiting", "freeing", "register", "publish", "announcing",
   "connect", "offering", "exchanging", "disconnect", "parting",
   "close", "stopping", "draining", "destroying",
   "Connect", "connecting", "Changed", "Close"}

Idle == [at |-> "idle", h |-> None]

At(a, place) == run[a].at = place

Goto(a, place, h) == run' = [run EXCEPT ![a] = [at |-> place, h |-> h]]

\* Engine._check_open raises.
Refuses == closed \/ ~open

-----------------------------------------------------------------------------
(* transfer(): three critical sections without the resource lock *)

\* submit_transfer
Submit(t) ==
  /\ At(t, "idle") /\ stateLock = None /\ ~Refuses
  /\ \E s \in NE!Submissions : NE!SubmitTransfer(s)
  /\ Goto(t, "waiting", issued + 1)
  /\ UNCHANGED control

\* Slip: wait() returns when one task has ended.
PollAny(t) ==
  /\ At(t, "waiting") /\ stateLock = None
  /\ \/ Refuses /\ Goto(t, "idle", None)
     \/ /\ ~Refuses
        /\ \E k \in DOMAIN tasks[run[t].h] : tasks[run[t].h][k].state # "PENDING"
        /\ Goto(t, "freeing", run[t].h)
  /\ UNCHANGED <<engine, control>>

\* wait() reads the states once: the engine is closed, or no task is pending.
Poll(t) ==
  /\ At(t, "waiting") /\ stateLock = None
  /\ \/ Refuses /\ Goto(t, "idle", None)
     \/ ~Refuses /\ ~NE!Unfinished(run[t].h) /\ Goto(t, "freeing", run[t].h)
  /\ UNCHANGED <<engine, control>>

\* wait() reads the states once after its deadline, and a task is pending.
WaitTimeout(t) ==
  /\ At(t, "waiting") /\ stateLock = None
  /\ ~Refuses /\ NE!Unfinished(run[t].h)
  /\ kept' = kept \cup {run[t].h}
  /\ Goto(t, "idle", None)
  /\ UNCHANGED <<engine, resource, stateLock, closed, stopped>>

\* Slip: transfer() raises for a failed task before it frees the batch.
FreeUnlessFailed(t) ==
  /\ At(t, "freeing") /\ stateLock = None
  /\ \/ Refuses /\ UNCHANGED engine
     \/ /\ ~Refuses
        /\ \E k \in DOMAIN tasks[run[t].h] : tasks[run[t].h][k].state = "FAILED"
        /\ UNCHANGED engine
     \/ ~Refuses /\ NE!FreeBatch(run[t].h)
  /\ Goto(t, "idle", None)
  /\ UNCHANGED control

\* transfer() frees the batch and returns, or raises for a failed task.
Free(t) ==
  /\ At(t, "freeing") /\ stateLock = None
  /\ \/ Refuses /\ UNCHANGED engine
     \/ ~Refuses /\ NE!FreeBatch(run[t].h)
  /\ Goto(t, "idle", None)
  /\ UNCHANGED control

-----------------------------------------------------------------------------
(* Calls that hold the resource lock *)

\* The call begins with the resource lock.
Begin(t, call) ==
  /\ At(t, "idle") /\ resource = None
  /\ resource' = t
  /\ Goto(t, call, None)
  /\ UNCHANGED <<engine, stateLock, closed, stopped, kept>>

\* The call returns or raises.
End(t) ==
  /\ resource' = None
  /\ Goto(t, "idle", None)
  /\ UNCHANGED <<stateLock, closed, stopped, kept>>

\* Slip: what is published is the buffer, not its registration.
RegisterBuffer(t) ==
  /\ At(t, "register") /\ stateLock = None /\ ~Refuses
  /\ \E s \in Storages : NE!RegisterLocalMemory(s) /\ Goto(t, "publish", s)
  /\ UNCHANGED control

\* register_local_memory: the native registration.
Register(t) ==
  /\ At(t, "register") /\ stateLock = None
  /\ \/ /\ ~Refuses
        /\ \E s \in Storages : NE!RegisterLocalMemory(s)
        /\ Goto(t, "publish", issued + 1)
        /\ UNCHANGED control
     \/ UNCHANGED engine /\ End(t)

\* publish(): append the metadata and choose the peers.
Publish(t) ==
  /\ At(t, "publish") /\ stateLock = None
  /\ \/ closed /\ End(t)
     \/ ~closed /\ Goto(t, "announcing", run[t].h) /\ UNCHANGED control
  /\ UNCHANGED engine

\* connect(): find or create the peer; a READY one is returned.
Connect(t) ==
  /\ At(t, "connect") /\ stateLock = None
  /\ \/ /\ ~closed /\ peers = {}
        /\ NE!CreatePeer
        /\ Goto(t, "offering", issued + 1)
        /\ UNCHANGED control
     \/ /\ ~closed
        /\ \E p \in peers : Goto(t, "offering", p)
        /\ UNCHANGED <<engine, control>>
     \/ UNCHANGED engine /\ End(t)

\* connect() has the answer to its offer.
Offered(t) ==
  /\ At(t, "offering") /\ stateLock = None
  /\ \/ /\ run[t].h \in peers
        /\ NE!ConnectPeer(run[t].h)
        /\ \/ /\ qps'[run[t].h] = "RTS"
              /\ Goto(t, "exchanging", run[t].h)
              /\ UNCHANGED control
           \/ qps'[run[t].h] = "FAILED" /\ End(t)
     \/ /\ run[t].h \in peers /\ qps[run[t].h] = "RTS"
        /\ Goto(t, "exchanging", run[t].h)
        /\ UNCHANGED <<engine, control>>
     \/ UNCHANGED engine /\ End(t)

\* connect() has the remote snapshot, which may be empty.
Exchanged(t) ==
  /\ At(t, "exchanging") /\ stateLock = None
  /\ \/ /\ run[t].h \in peers
        /\ \E d \in Descriptors : NE!ImportRemoteMemory(run[t].h, d)
     \/ UNCHANGED engine
  /\ End(t)

\* disconnect(): destroy the peer.
Disconnect(t) ==
  /\ At(t, "disconnect") /\ stateLock = None
  /\ \/ /\ ~closed
        /\ \E p \in peers : NE!DestroyPeer(p)
        /\ Goto(t, "parting", None)
        /\ UNCHANGED control
     \/ UNCHANGED engine /\ End(t)

\* The last RPC of a registration or of a disconnect() returns or raises.
Answered(t) ==
  /\ At(t, "announcing") \/ At(t, "parting")
  /\ UNCHANGED engine
  /\ End(t)

-----------------------------------------------------------------------------
(* close() *)

\* Slip: close() does without the resource lock.
CloseUnlocked(t) ==
  /\ At(t, "idle")
  /\ closed' = TRUE
  /\ UNCHANGED <<engine, resource, stateLock, stopped, kept, run>>

\* ControlPlane.close() refuses new work, unless an earlier call has.
CloseControl(t) ==
  /\ At(t, "close") /\ stateLock = None
  /\ closed' = TRUE
  /\ Goto(t, IF closed THEN "destroying" ELSE "stopping", None)
  /\ UNCHANGED <<engine, resource, stateLock, stopped, kept>>

\* The server takes no more requests.
Stop(t) ==
  /\ At(t, "stopping")
  /\ stopped' = TRUE
  /\ Goto(t, "draining", None)
  /\ UNCHANGED <<engine, resource, stateLock, closed, kept>>

\* Slip: close() does not wait for the handlers.
StopOnly(t) ==
  /\ At(t, "draining")
  /\ Goto(t, "destroying", None)
  /\ UNCHANGED <<engine, control>>

\* The handlers have ended.
Drained(t) ==
  /\ At(t, "draining")
  /\ \A w \in Workers : At(w, "idle")
  /\ Goto(t, "destroying", None)
  /\ UNCHANGED <<engine, control>>

\* The native engine is destroyed, or refuses and is kept for another close().
Destroy(t) ==
  /\ At(t, "destroying") /\ stateLock = None
  /\ NE!Close \/ UNCHANGED engine
  /\ End(t)

-----------------------------------------------------------------------------
(* Handlers *)

\* A request reaches a worker of the RPC server.
Arrive(w) ==
  /\ At(w, "idle") /\ ~stopped
  /\ \E method \in {"Connect", "Changed", "Close"} : Goto(w, method, None)
  /\ UNCHANGED <<engine, control>>

\* Connect finds a peer and connects it, or creates one with the lock held.
HandleConnect(w) ==
  /\ At(w, "Connect") /\ stateLock = None
  /\ \/ /\ ~closed /\ peers = {}
        /\ NE!CreatePeer
        /\ stateLock' = w
        /\ Goto(w, "connecting", issued + 1)
        /\ UNCHANGED <<resource, closed, stopped, kept>>
     \/ /\ \/ ~closed /\ \E p \in peers : NE!ConnectPeer(p)
           \/ UNCHANGED engine
        /\ Goto(w, "idle", None)
        /\ UNCHANGED control

\* Connect connects the peer it has created and lets go of the lock.
HandleConnectNative(w) ==
  /\ At(w, "connecting")
  /\ NE!ConnectPeer(run[w].h)
  /\ stateLock' = None
  /\ Goto(w, "idle", None)
  /\ UNCHANGED <<resource, closed, stopped, kept>>

\* Ready and Changed import a memory, or have nothing to import, or raise.
HandleChanged(w) ==
  /\ At(w, "Changed") /\ stateLock = None
  /\ \/ /\ ~closed
        /\ \E p \in peers, d \in Descriptors : NE!ImportRemoteMemory(p, d)
     \/ UNCHANGED engine
  /\ Goto(w, "idle", None)
  /\ UNCHANGED control

\* Close destroys the peer, or ignores the request, or raises.
HandleClose(w) ==
  /\ At(w, "Close") /\ stateLock = None
  /\ \/ ~closed /\ \E p \in peers : NE!DestroyPeer(p)
     \/ UNCHANGED engine
  /\ Goto(w, "idle", None)
  /\ UNCHANGED control

\* The native worker ends a task.
Finish ==
  /\ \E b \in 1..MaxHandles, k \in 1..MaxTasks : NE!Finish(b, k)
  /\ UNCHANGED <<control, run>>

-----------------------------------------------------------------------------
(* The specification *)

Init ==
  /\ NE!Init
  /\ resource = None /\ stateLock = None
  /\ closed = FALSE /\ stopped = FALSE
  /\ run = [a \in Actors |-> Idle]
  /\ kept = {}

\* What an application thread may begin.
Call(t) ==
  \/ Submit(t)
  \/ \E call \in {"register", "connect", "disconnect", "close"} : Begin(t, call)

\* How a call of t goes on.
Proceed(t) ==
  \/ Poll(t) \/ WaitTimeout(t) \/ Free(t)
  \/ Register(t) \/ Publish(t) \/ Connect(t) \/ Offered(t) \/ Exchanged(t)
  \/ Disconnect(t) \/ Answered(t)
  \/ CloseControl(t) \/ Stop(t) \/ Drained(t) \/ Destroy(t)

\* Slip: a handler takes the resource lock first.
HandleLocked(w) ==
  /\ resource = None
  /\ \/ HandleConnect(w) \/ HandleConnectNative(w)
     \/ HandleChanged(w) \/ HandleClose(w)

\* How a handler goes on.
Handle(w) ==
  \/ HandleConnect(w) \/ HandleConnectNative(w)
  \/ HandleChanged(w) \/ HandleClose(w)

Next ==
  \/ \E t \in Threads : Call(t) \/ Proceed(t)
  \/ \E w \in Workers : Arrive(w) \/ Handle(w)
  \/ Finish

Spec == Init /\ [][Next]_vars

\* Threads that can go on do: every RPC has a deadline, and so has wait().
\* Tasks need not end, and nobody has to call anything.
FairSpec ==
  /\ Spec
  /\ \A t \in Threads : WF_vars(Proceed(t))
  /\ \A w \in Workers : WF_vars(Handle(w))

-----------------------------------------------------------------------------
(* Properties *)

(***************************************************************************)
(* Every variable has its type.                                            *)
(***************************************************************************)
TypeOK ==
  /\ NE!TypeOK
  /\ resource \in Threads \cup {None} /\ stateLock \in Workers \cup {None}
  /\ closed \in BOOLEAN /\ stopped \in BOOLEAN
  /\ run \in [Actors -> [at : Places, h : NE!Handles \cup {None}]]
  /\ kept \in SUBSET NE!Handles

(***************************************************************************)
(* A batch is never left behind while the engine is open, except by a      *)
(* transfer() that timed out (engine.py:117, 122-124): whatever peers are  *)
(* destroyed and tasks fail meanwhile, the transfer that made it frees it. *)
(***************************************************************************)
BatchesOwned ==
  \A b \in NE!Handles :
    batches[b] # <<>> /\ ~closed =>
      \/ b \in kept
      \/ \E t \in Threads : run[t].at \in {"waiting", "freeing"} /\ run[t].h = b

(***************************************************************************)
(* What wait() saw is still so when transfer() frees the batch although    *)
(* the state lock was free in between (engine.py:123-124): the batch is    *)
(* there and none of its tasks is pending, so free_batch is not refused.   *)
(***************************************************************************)
FreeIsNeverBusy ==
  \A t \in Threads :
    At(t, "freeing") /\ open =>
      batches[run[t].h] # <<>> /\ ~NE!Unfinished(run[t].h)

(***************************************************************************)
(* close() never cuts another call off (engine.py:80-84, 132): a thread    *)
(* that has registered a memory or created or destroyed a peer gets to     *)
(* publish it, to connect it, or to tell the other engine.                 *)
(***************************************************************************)
CallsNotCutOff ==
  \A t \in Threads :
    run[t].at \in {"publish", "announcing", "offering", "exchanging", "parting"}
      => open /\ ~closed

(***************************************************************************)
(* No handler is under way when the native engine goes (control.py:214-215 *)
(* before engine.py:135), also when close() is called again.               *)
(***************************************************************************)
HandlersSeeEngine ==
  \A w \in Workers : ~At(w, "idle") => open

(***************************************************************************)
(* Every call ends: close() waits for handlers with the resource lock held *)
(* and handlers wait for the state lock, in no circle (engine.py:130-135). *)
(***************************************************************************)
CallsEnd == \A t \in Threads : ~At(t, "idle") ~> At(t, "idle")
=============================================================================
