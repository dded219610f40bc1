---------------------------- MODULE NativeEngine ----------------------------
(***************************************************************************)
(* NativeEngine (src/rdma101/native_engine.py): the Python object that     *)
(* owns a native engine and mirrors what lives inside it, because the      *)
(* mirrors are what keeps application buffers alive while the device may   *)
(* access them and what tells how long a batch is and how to decode it.    *)
(*                                                                         *)
(* The native engine itself is known by its contract (transfer_engine.h):  *)
(* regions, qps, imports and tasks are its tables, and a worker of its own *)
(* moves the tasks.  Handles are never reused, and one counter issues them *)
(* for all tables.  A method that gets an error code raises and changes    *)
(* nothing; only the raises that follow a successful native call appear    *)
(* below.                                                                  *)
(***************************************************************************)
EXTENDS Integers, Sequences

CONSTANTS
  Storages,     \* application buffers
  Descriptors,  \* memory metadata that remote engines publish
  None,         \* no entry
  MaxHandles,   \* bound on the handles the native engine issues
  MaxTasks,     \* bound on the tasks of a batch
  Missing       \* whether a native call may return OK without metadata

ASSUME EngineAssumption ==
  /\ None \notin Storages \cup Descriptors \cup {"INIT", "RTS", "FAILED"}
  /\ None \notin [peer : 1..MaxHandles, descriptor : Descriptors]
  /\ MaxHandles \in Nat /\ MaxTasks \in Nat
  /\ Missing \in BOOLEAN

VARIABLES
  regions,         \* native: the buffer registered under a handle
  qps,             \* native: the state of a peer's queue pair
  imports,         \* native: the peer and descriptor of an imported region
  tasks,           \* native: the tasks of a batch, <<>> if there is none
  issued,          \* native: how many handles have been issued
  open,            \* self.handle is not NULL
  memories,        \* self.memories: the buffer retained under a handle
  remoteMemories,  \* self.remote_memories: the peer of an imported region
  batches,         \* self.batches: the operations of a batch
  peers            \* self.peers

native == <<regions, qps, imports, tasks, issued>>
mirrors == <<memories, remoteMemories, batches, peers>>
vars == <<native, open, mirrors>>

Handles == 1..MaxHandles

Operations == {"Recv", "Write", "SendInline"}

\* A Recv and a Write borrow a registered buffer, a Write needs an imported
\* region, an inline Send needs neither.
Requests ==
  [op : {"Recv"}, peer : Handles, storage : Storages, region : {None}]
    \cup [op : {"Write"}, peer : Handles, storage : Storages, region : Handles]
    \cup [op : {"SendInline"}, peer : Handles, storage : {None}, region : {None}]

Tasks == [req : Requests, state : {"PENDING", "COMPLETED", "FAILED"}]

Fresh == issued + 1

\* The tasks of all batches that are still queued or in flight.
PendingTasks ==
  {t \in UNION {{tasks[b][k] : k \in DOMAIN tasks[b]} : b \in Handles} :
     t.state = "PENDING"}

\* What Deregister, Remove and FreeBatch answer BUSY for.
Borrows(s) == \E t \in PendingTasks : t.req.storage = s
Uses(h) == \E t \in PendingTasks : t.req.region = h
Unfinished(b) == \E k \in DOMAIN tasks[b] : tasks[b][k].state = "PENDING"

-----------------------------------------------------------------------------
(* Memory *)

\* Slip: the buffer is retained once its metadata has been copied.
RegisterThenRetain(s) ==
  /\ open /\ Fresh \in Handles /\ \A i \in Handles : regions[i] # s
  /\ issued' = Fresh
  /\ regions' = [regions EXCEPT ![Fresh] = s]
  /\ \/ memories' = [memories EXCEPT ![Fresh] = s]
     \/ Missing /\ UNCHANGED memories
  /\ UNCHANGED <<qps, imports, tasks, open, remoteMemories, batches, peers>>

\* register_local_memory.  When the metadata is missing it raises, with the
\* buffer retained.
RegisterLocalMemory(s) ==
  /\ open /\ Fresh \in Handles /\ \A i \in Handles : regions[i] # s
  /\ issued' = Fresh
  /\ regions' = [regions EXCEPT ![Fresh] = s]
  /\ memories' = [memories EXCEPT ![Fresh] = s]
  /\ UNCHANGED <<qps, imports, tasks, open, remoteMemories, batches, peers>>

\* deregister_local_memory, which is refused while a task borrows the buffer.
DeregisterLocalMemory(i) ==
  /\ open /\ regions[i] # None /\ memories[i] # None
  /\ ~Borrows(regions[i])
  /\ regions' = [regions EXCEPT ![i] = None]
  /\ memories' = [memories EXCEPT ![i] = None]
  /\ UNCHANGED <<qps, imports, tasks, issued, open, remoteMemories, batches,
                 peers>>

\* Slip: the region is mirrored with its descriptor, not with its peer.
ImportKeepsDescriptor(p, d) ==
  /\ open /\ qps[p] = "RTS" /\ Fresh \in Handles
  /\ \A h \in Handles : imports[h] # [peer |-> p, descriptor |-> d]
  /\ issued' = Fresh
  /\ imports' = [imports EXCEPT ![Fresh] = [peer |-> p, descriptor |-> d]]
  /\ remoteMemories' = [remoteMemories EXCEPT ![Fresh] = d]
  /\ UNCHANGED <<regions, qps, tasks, open, memories, batches, peers>>

\* import_remote_memory.  A region that is imported already keeps its handle.
ImportRemoteMemory(p, d) ==
  /\ open /\ qps[p] = "RTS"
  /\ \/ \E h \in Handles :
          /\ imports[h] = [peer |-> p, descriptor |-> d]
          /\ remoteMemories' = [remoteMemories EXCEPT ![h] = p]
          /\ UNCHANGED <<imports, issued>>
     \/ /\ \A h \in Handles : imports[h] # [peer |-> p, descriptor |-> d]
        /\ Fresh \in Handles
        /\ issued' = Fresh
        /\ imports' = [imports EXCEPT ![Fresh] = [peer |-> p, descriptor |-> d]]
        /\ remoteMemories' = [remoteMemories EXCEPT ![Fresh] = p]
  /\ UNCHANGED <<regions, qps, tasks, open, memories, batches, peers>>

\* remove_remote_memory, which is refused while a task uses the region.
RemoveRemoteMemory(h) ==
  /\ open /\ imports[h] # None /\ remoteMemories[h] # None
  /\ ~Uses(h)
  /\ imports' = [imports EXCEPT ![h] = None]
  /\ remoteMemories' = [remoteMemories EXCEPT ![h] = None]
  /\ UNCHANGED <<regions, qps, tasks, issued, open, memories, batches, peers>>

-----------------------------------------------------------------------------
(* Peers *)

\* create_peer.  When the metadata is missing it raises, and nobody knows the
\* handle of the peer.
CreatePeer ==
  /\ open /\ Fresh \in Handles
  /\ issued' = Fresh
  /\ qps' = [qps EXCEPT ![Fresh] = "INIT"]
  /\ \/ peers' = peers \cup {Fresh}
     \/ Missing /\ UNCHANGED peers
  /\ UNCHANGED <<regions, imports, tasks, open, memories, remoteMemories,
                 batches>>

\* connect_peer succeeds, or raises and leaves a peer that can only be
\* destroyed.
ConnectPeer(p) ==
  /\ open /\ p \in peers /\ qps[p] = "INIT"
  /\ \E s \in {"RTS", "FAILED"} : qps' = [qps EXCEPT ![p] = s]
  /\ UNCHANGED <<regions, imports, tasks, issued, open, mirrors>>

\* What the native engine makes of the tasks of a peer that is destroyed.
Canceled(t, p) ==
  IF t.state = "PENDING" /\ t.req.peer = p
  THEN [req |-> t.req, state |-> "FAILED"] ELSE t

\* Slip: the regions imported for the peer are kept.
DestroyPeerOnly(p) ==
  /\ open /\ p \in peers /\ qps[p] # None
  /\ qps' = [qps EXCEPT ![p] = None]
  /\ imports' = [h \in Handles |->
       IF imports[h] # None /\ imports[h].peer = p THEN None ELSE imports[h]]
  /\ tasks' = [b \in Handles |->
       [k \in DOMAIN tasks[b] |-> Canceled(tasks[b][k], p)]]
  /\ peers' = peers \ {p}
  /\ UNCHANGED <<regions, issued, open, memories, remoteMemories, batches>>

\* destroy_peer
DestroyPeer(p) ==
  /\ open /\ p \in peers /\ qps[p] # None
  /\ qps' = [qps EXCEPT ![p] = None]
  /\ imports' = [h \in Handles |->
       IF imports[h] # None /\ imports[h].peer = p THEN None ELSE imports[h]]
  /\ tasks' = [b \in Handles |->
       [k \in DOMAIN tasks[b] |-> Canceled(tasks[b][k], p)]]
  /\ peers' = peers \ {p}
  /\ remoteMemories' = [h \in Handles |->
       IF remoteMemories[h] = p THEN None ELSE remoteMemories[h]]
  /\ UNCHANGED <<regions, issued, open, memories, batches>>

-----------------------------------------------------------------------------
(* Batches *)

\* The native engine accepts request r.
Accepts(r) ==
  /\ qps[r.peer] = "RTS" \/ (r.op = "Recv" /\ qps[r.peer] = "INIT")
  /\ r.storage # None => \E i \in Handles : regions[i] = r.storage
  /\ r.region # None =>
       imports[r.region] # None /\ imports[r.region].peer = r.peer

\* The request sequences a caller may submit.
Submissions == UNION {[1..n -> {r \in Requests : Accepts(r)}] : n \in 1..MaxTasks}

\* submit_transfer, accepted as a whole.
SubmitTransfer(s) ==
  /\ open /\ Fresh \in Handles
  /\ issued' = Fresh
  /\ tasks' = [tasks EXCEPT ![Fresh] =
                 [k \in DOMAIN s |-> [req |-> s[k], state |-> "PENDING"]]]
  /\ batches' = [batches EXCEPT ![Fresh] = [k \in DOMAIN s |-> s[k].op]]
  /\ UNCHANGED <<regions, qps, imports, open, memories, remoteMemories, peers>>

\* The worker ends a task.
Finish(b, k) ==
  /\ k \in DOMAIN tasks[b] /\ tasks[b][k].state = "PENDING"
  /\ \E s \in {"COMPLETED", "FAILED"} :
       tasks' = [tasks EXCEPT ![b][k].state = s]
  /\ UNCHANGED <<regions, qps, imports, issued, open, mirrors>>

\* free_batch, which is refused while a task is pending.
FreeBatch(b) ==
  /\ open /\ batches[b] # <<>>
  /\ ~Unfinished(b)
  /\ tasks' = [tasks EXCEPT ![b] = <<>>]
  /\ batches' = [batches EXCEPT ![b] = <<>>]
  /\ UNCHANGED <<regions, qps, imports, issued, open, memories, remoteMemories,
                 peers>>

-----------------------------------------------------------------------------
(* The life of the engine *)

Empty(v) == [h \in Handles |-> v]

\* __init__ with a native engine that has been created.
Init ==
  /\ regions = Empty(None) /\ qps = Empty(None) /\ imports = Empty(None)
  /\ tasks = Empty(<<>>) /\ issued = 0
  /\ open = TRUE
  /\ memories = Empty(None) /\ remoteMemories = Empty(None)
  /\ batches = Empty(<<>>) /\ peers = {}

\* close()
Close ==
  /\ open
  /\ regions' = Empty(None) /\ qps' = Empty(None)
  /\ imports' = Empty(None) /\ tasks' = Empty(<<>>)
  /\ open' = FALSE
  /\ memories' = Empty(None) /\ remoteMemories' = Empty(None)
  /\ batches' = Empty(<<>>) /\ peers' = {}
  /\ UNCHANGED issued

Next ==
  \/ \E s \in Storages : RegisterLocalMemory(s)
  \/ \E h \in Handles :
       \/ DeregisterLocalMemory(h) \/ RemoveRemoteMemory(h)
       \/ ConnectPeer(h) \/ DestroyPeer(h) \/ FreeBatch(h)
       \/ \E d \in Descriptors : ImportRemoteMemory(h, d)
       \/ \E k \in 1..MaxTasks : Finish(h, k)
  \/ \E s \in Submissions : SubmitTransfer(s)
  \/ CreatePeer \/ Close

Spec == Init /\ [][Next]_vars

-----------------------------------------------------------------------------
(* Properties *)

(***************************************************************************)
(* Every variable has its type.                                            *)
(***************************************************************************)
TypeOK ==
  /\ regions \in [Handles -> Storages \cup {None}]
  /\ qps \in [Handles -> {None, "INIT", "RTS", "FAILED"}]
  /\ imports \in [Handles -> [peer : Handles, descriptor : Descriptors]
                               \cup {None}]
  /\ tasks \in [Handles -> Seq(Tasks)]
  /\ issued \in 0..MaxHandles
  /\ open \in BOOLEAN
  /\ memories \in [Handles -> Storages \cup {None}]
  /\ remoteMemories \in [Handles -> Handles \cup {None}]
  /\ batches \in [Handles -> Seq(Operations)]
  /\ peers \in SUBSET Handles

(***************************************************************************)
(* A buffer the device may access is retained: every registration, also    *)
(* one whose metadata never arrived (native_engine.py:188-190), one whose  *)
(* deregistration was refused (:204) and one of an engine that could not   *)
(* be destroyed (:309), and so every buffer that a pending task borrows.   *)
(***************************************************************************)
BuffersRetained ==
  /\ \A i \in Handles : regions[i] # None => memories[i] = regions[i]
  /\ \A t \in PendingTasks :
       t.req.storage # None => \E i \in Handles : memories[i] = t.req.storage

(***************************************************************************)
(* The mirrors say what the native engine holds: a live handle is known    *)
(* and a dead one is not, a batch is queried with the number and the kinds *)
(* of its tasks (native_engine.py:270-272), and the regions of a destroyed *)
(* peer go with it (:252-254).  A peer without metadata (:237) is the one  *)
(* thing the wrapper does not know of, and it is never connected.          *)
(***************************************************************************)
MirrorsAgree ==
  /\ \A i \in Handles : memories[i] = regions[i]
  /\ \A h \in Handles :
       remoteMemories[h] = IF imports[h] = None THEN None ELSE imports[h].peer
  /\ \A b \in Handles :
       /\ DOMAIN batches[b] = DOMAIN tasks[b]
       /\ \A k \in DOMAIN tasks[b] : batches[b][k] = tasks[b][k].req.op
  /\ \A p \in peers : qps[p] # None
  /\ \A p \in Handles \ peers : qps[p] = None \/ (Missing /\ qps[p] = "INIT")

=============================================================================
