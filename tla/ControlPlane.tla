---------------------------- MODULE ControlPlane ----------------------------
(***************************************************************************)
(* The control plane of the Transfer Engine (src/rdma101/control.py): how  *)
(* Engine processes pair their queue pairs and keep each other's memory    *)
(* metadata up to date.                                                    *)
(*                                                                         *)
(* Every engine has a resource lock, which an application call holds from  *)
(* its first to its last step (engine.py), and a state lock, which each    *)
(* action below stands for: an action is one critical section, and between *)
(* two of them the handlers of the other engines' requests may run.        *)
(* call[e] is the call that holds e's resource lock, rpc[e] the one RPC    *)
(* that call waits for, late the requests whose callers have given up but  *)
(* whose handlers may still run.                                           *)
(*                                                                         *)
(* A connection id, the native peer handle and the queue pair metadata are *)
(* created together and never reused, so one number stands for the three:  *)
(* the n-th peer that e creates for f.  Ids of different pairs of engines  *)
(* are never compared, and 0 is the empty id.  Memory metadata is only     *)
(* ever appended, so a snapshot is its version: version n holds memories   *)
(* 1..n.                                                                   *)
(***************************************************************************)
EXTENDS Integers

CONSTANTS
  Engines,         \* the engine processes
  MaxConnections,  \* bound on the peers an engine creates for one endpoint
  MaxMemories,     \* bound on the memories one engine publishes
  MaxTimeouts,     \* bound on the calls that exceed their deadline
  MaxRestarts,     \* bound on the engines created anew at an old endpoint
  NativeFaults,    \* whether native calls made for a request may fail
  Calls            \* the application calls in use

ASSUME BoundsAssumption ==
  /\ MaxConnections \in Nat /\ MaxMemories \in Nat
  /\ MaxTimeouts \in Nat /\ MaxRestarts \in Nat
  /\ NativeFaults \in BOOLEAN
  /\ Calls \subseteq {"connect", "register", "disconnect", "close"}

VARIABLES
  life,       \* life[e]: "open", "closing" (closed is set) or "closed"
  peers,      \* peers[e][f]: e's peer for endpoint f
  published,  \* published[e]: how many memories e's metadata list holds
  acked,      \* acked[e]: the version of e's last successful registration
  call,       \* call[e]: the application call holding e's resource lock
  rpc,        \* rpc[e]: the outgoing RPC of that call
  late,       \* requests whose callers have timed out
  created,    \* created[e][f]: how many peers e has created for f
  timeouts,   \* how many calls have timed out
  restarts    \* how many engines were created anew

vars == <<life, peers, published, acked, call, rpc, late, created, timeouts,
          restarts>>

-----------------------------------------------------------------------------
(* Data *)

PeerStates == {"NONE", "CREATED", "CONNECTED", "READY"}

\* The entry of an endpoint that has no peer.
NoPeer == [state |-> "NONE", id |-> 0, remoteId |-> 0, remoteVersion |-> -1,
           native |-> "NONE", imported |-> 0]

Peers == [state : PeerStates, id : Nat, remoteId : Nat,
          remoteVersion : Nat \cup {-1},
          native : {"NONE", "INIT", "RTS", "FAILED"}, imported : Nat]

\* What a peer is when native.create_peer has returned.
NewPeer(e, f) == [state |-> "CREATED", id |-> created[e][f] + 1,
                  remoteId |-> 0, remoteVersion |-> -1,
                  native |-> "INIT", imported |-> 0]

Methods == {"Connect", "Ready", "Changed", "Close"}

\* nr is 0 while the caller waits, and tells late requests apart after that.
Requests == [method : Methods, from : Engines, to : Engines, id : Nat,
             version : Nat, nr : Nat]

\* The RPC of an engine that is not waiting for any.
NoRpc == [status |-> "none"]

Rpcs == [status : {"none"}]
          \cup [status : {"sent", "raised"}, req : Requests]
          \cup [status : {"replied"}, req : Requests, id : Nat, version : Nat]

\* The resource lock is free.
NoCall == [op |-> "idle"]

CallRecords ==
  [op : {"idle"}]
    \cup [op : {"connect", "disconnect"}, to : Engines, id : Nat]
    \cup [op : {"register", "close"}]
    \cup [op : {"publish"}, version : Nat, todo : SUBSET (Engines \X Nat)]

Larger(m, n) == IF m > n THEN m ELSE n

-----------------------------------------------------------------------------
(* Helpers of the control plane.  A definition that a comment calls a slip   *)
(* is no part of the specification: it is the definition after it with a     *)
(* plausible mistake, and README.md names the property that notices.         *)

\* The requests a handler may run next.
InFlight == {rpc[e].req : e \in {d \in Engines : rpc[d].status = "sent"}}
              \cup late

\* A peer exists or the native engine can create one.
CanCreate(e, f) == peers[e][f].state # "NONE" \/ created[e][f] < MaxConnections

\* The peer for f, created when there is none.
PeerFor(e, f) ==
  IF peers[e][f].state = "NONE" THEN NewPeer(e, f) ELSE peers[e][f]

\* PeerFor(e, f) has been created if there was none; a live peer is the last.
CountPeerFor(e, f) == created' = [created EXCEPT ![e][f] = PeerFor(e, f).id]

\* What e's table is once its peer for f is p.
SetPeer(e, f, p) == peers' = [peers EXCEPT ![e][f] = p]

\* Slip: _connect_native refuses a peer that is connected already.
ConnectNativeOnce(p, id) ==
  {q \in {[p EXCEPT !.state = "CONNECTED", !.remoteId = id, !.native = "RTS"]} :
     p.state = "CREATED"}

\* Slip: _connect_native keeps quiet about a different connection.
ConnectNativeQuiet(p, id) ==
  IF p.state = "CREATED"
  THEN {[p EXCEPT !.state = "CONNECTED", !.remoteId = id, !.native = "RTS"]}
  ELSE {p}

\* _connect_native returns: the peers it may leave.
ConnectNative(p, id) ==
  IF p.state = "CREATED"
  THEN {[p EXCEPT !.state = "CONNECTED", !.remoteId = id, !.native = "RTS"]}
  ELSE {q \in {p} : q.remoteId = id}

\* _connect_native raises: the peers it may leave.
ConnectNativeRaises(p, id) ==
  IF p.state = "CREATED"
  THEN {q \in {[p EXCEPT !.native = "FAILED"]} : NativeFaults}
  ELSE {q \in {p} : q.remoteId # id}

\* Slip: _import_snapshot takes whatever arrives for news.
ImportWhatever(p, version) ==
  [p EXCEPT !.remoteVersion = version, !.imported = Larger(@, version)]

\* Slip: _import_snapshot imports once per peer.
ImportOnce(p, version) ==
  IF p.remoteVersion = -1
  THEN [p EXCEPT !.remoteVersion = version, !.imported = version]
  ELSE p

\* _import_snapshot returns: the peer it leaves.
ImportSnapshot(p, version) ==
  IF version > p.remoteVersion
  THEN [p EXCEPT !.remoteVersion = version,
                 !.imported = Larger(@, version)]
  ELSE p

\* _import_snapshot raises: a native import failed after k of them.
ImportSnapshotRaises(p, version) ==
  {[p EXCEPT !.imported = Larger(@, k)] :
     k \in {n \in 0..(version - 1) : NativeFaults /\ version > p.remoteVersion}}

\* Slip: _find_connection looks at the endpoint only.
FindEndpoint(r) == peers[r.to][r.from].state # "NONE"

\* Slip: _find_connection compares the id with the peer's own.
FindOwnId(r) ==
  peers[r.to][r.from].state # "NONE" /\ peers[r.to][r.from].id = r.id

\* _find_connection finds the peer of request r.
FindConnection(r) ==
  /\ peers[r.to][r.from].state # "NONE"
  /\ r.id # 0
  /\ peers[r.to][r.from].remoteId = r.id

\* A request once its caller has given up: the n-th of them.
Abandoned(r, n) == [r EXCEPT !.nr = n]

\* The state of a call waiting for the answer to a request.
Send(e, method, f, id, version) ==
  rpc' = [rpc EXCEPT ![e] =
            [status |-> "sent",
             req |-> [method |-> method, from |-> e, to |-> f, id |-> id,
                      version |-> version, nr |-> 0]]]

\* The handler of r returns; a late answer reaches nobody.
Reply(r, id, version) ==
  IF r.nr = 0
  THEN /\ rpc' = [rpc EXCEPT ![r.from] =
                    [status |-> "replied", req |-> r, id |-> id,
                     version |-> version]]
       /\ UNCHANGED late
  ELSE late' = late \ {r} /\ UNCHANGED rpc

\* The handler of r raises, or nobody listens at its endpoint.
Raise(r) ==
  IF r.nr = 0
  THEN /\ rpc' = [rpc EXCEPT ![r.from] = [status |-> "raised", req |-> r]]
       /\ UNCHANGED late
  ELSE late' = late \ {r} /\ UNCHANGED rpc

\* The application call of e ends and releases the resource lock.
Return(e) ==
  /\ call' = [call EXCEPT ![e] = NoCall]
  /\ rpc' = [rpc EXCEPT ![e] = NoRpc]

-----------------------------------------------------------------------------
(* connect(): offer, native connect, exchange of memory metadata *)

\* connect() until its first RPC.  A READY peer is returned at once, which
\* changes nothing.
ConnectCall(e, f) ==
  /\ "connect" \in Calls
  /\ call[e].op = "idle" /\ life[e] = "open"
  /\ f # e
  /\ CanCreate(e, f)
  /\ PeerFor(e, f).state # "READY"
  /\ SetPeer(e, f, PeerFor(e, f))
  /\ CountPeerFor(e, f)
  /\ call' = [call EXCEPT ![e] =
                [op |-> "connect", to |-> f, id |-> PeerFor(e, f).id]]
  /\ Send(e, "Connect", f, PeerFor(e, f).id, 0)
  /\ UNCHANGED <<life, published, acked, late, timeouts, restarts>>

\* Slip: _require_peer is content with any peer for the endpoint.
RequireSomePeer(e) == peers[e][call[e].to].state # "NONE"

\* _require_peer: the peer the call began with is still in the table.
RequirePeer(e) == peers[e][call[e].to].id = call[e].id

\* The Connect RPC has returned: connect locally, then send Ready.
ConnectReply(e) ==
  /\ call[e].op = "connect"
  /\ rpc[e].status = "replied" /\ rpc[e].req.method = "Connect"
  /\ \E f \in {call[e].to} :
       \/ /\ RequirePeer(e)
          /\ \E p \in ConnectNative(peers[e][f], rpc[e].id) :
               /\ SetPeer(e, f, p)
               /\ Send(e, "Ready", f, p.id, published[e])
          /\ UNCHANGED call
       \/ /\ RequirePeer(e)
          /\ \E p \in ConnectNativeRaises(peers[e][f], rpc[e].id) :
               SetPeer(e, f, p)
          /\ Return(e)
       \/ /\ ~RequirePeer(e)
          /\ UNCHANGED peers
          /\ Return(e)
  /\ UNCHANGED <<life, published, acked, late, created, timeouts, restarts>>

\* The Ready RPC has returned: import the snapshot and return the handle.
ReadyReply(e) ==
  /\ call[e].op = "connect"
  /\ rpc[e].status = "replied" /\ rpc[e].req.method = "Ready"
  /\ \E f \in {call[e].to} :
       \/ /\ RequirePeer(e)
          /\ SetPeer(e, f, [ImportSnapshot(peers[e][f], rpc[e].version)
                              EXCEPT !.state = "READY"])
       \/ /\ RequirePeer(e)
          /\ \E p \in ImportSnapshotRaises(peers[e][f], rpc[e].version) :
               SetPeer(e, f, p)
       \/ /\ ~RequirePeer(e)
          /\ UNCHANGED peers
  /\ Return(e)
  /\ UNCHANGED <<life, published, acked, late, created, timeouts, restarts>>

-----------------------------------------------------------------------------
(* register_local_memory() and publish() *)

\* The native registration, after which the state lock is released.
RegisterCall(e) ==
  /\ "register" \in Calls
  /\ call[e].op = "idle" /\ life[e] = "open"
  /\ published[e] < MaxMemories
  /\ call' = [call EXCEPT ![e] = [op |-> "register"]]
  /\ UNCHANGED <<life, peers, published, acked, rpc, late, created, timeouts,
                 restarts>>

\* publish() until its first RPC: append, and choose the READY peers.
Publish(e) ==
  /\ call[e].op = "register"
  /\ published' = [published EXCEPT ![e] = @ + 1]
  /\ call' = [call EXCEPT ![e] =
                [op |-> "publish", version |-> published[e] + 1,
                 todo |-> {<<f, peers[e][f].id>> :
                             f \in {g \in Engines :
                                      peers[e][g].state = "READY"}}]]
  /\ UNCHANGED <<life, peers, acked, rpc, late, created, timeouts, restarts>>

\* The loop of publish() sends the next Changed; the order is left open.
PublishNext(e) ==
  /\ call[e].op = "publish" /\ rpc[e].status = "none"
  /\ \E t \in call[e].todo :
       /\ call' = [call EXCEPT ![e] =
                     [op |-> "publish", version |-> call[e].version,
                      todo |-> call[e].todo \ {t}]]
       /\ Send(e, "Changed", t[1], t[2], call[e].version)
  /\ UNCHANGED <<life, peers, published, acked, late, created, timeouts,
                 restarts>>

\* A Changed RPC has returned.
ChangedReply(e) ==
  /\ call[e].op = "publish"
  /\ rpc[e].status = "replied" /\ rpc[e].req.method = "Changed"
  /\ rpc' = [rpc EXCEPT ![e] = NoRpc]
  /\ UNCHANGED <<life, peers, published, acked, call, late, created, timeouts,
                 restarts>>

\* Slip: publish() does not wait for all of them.
PublishReturnEarly(e) ==
  /\ call[e].op = "publish" /\ rpc[e].status = "none"
  /\ acked' = [acked EXCEPT ![e] = call[e].version]
  /\ Return(e)
  /\ UNCHANGED <<life, peers, published, late, created, timeouts, restarts>>

\* Every READY peer has answered: the registration returns to its caller.
PublishReturn(e) ==
  /\ call[e].op = "publish" /\ rpc[e].status = "none" /\ call[e].todo = {}
  /\ acked' = [acked EXCEPT ![e] = call[e].version]
  /\ Return(e)
  /\ UNCHANGED <<life, peers, published, late, created, timeouts, restarts>>

-----------------------------------------------------------------------------
(* disconnect(), close() and a new engine at the same endpoint *)

\* disconnect() until its RPC.  The application has the handle of a READY
\* peer only: connect() returns no other.
DisconnectCall(e, f) ==
  /\ "disconnect" \in Calls
  /\ call[e].op = "idle" /\ life[e] = "open"
  /\ peers[e][f].state = "READY"
  /\ SetPeer(e, f, NoPeer)
  /\ call' = [call EXCEPT ![e] =
                [op |-> "disconnect", to |-> f, id |-> peers[e][f].id]]
  /\ Send(e, "Close", f, peers[e][f].id, 0)
  /\ UNCHANGED <<life, published, acked, late, created, timeouts, restarts>>

\* The Close RPC has returned.
CloseReply(e) ==
  /\ call[e].op = "disconnect"
  /\ rpc[e].status = "replied" /\ rpc[e].req.method = "Close"
  /\ Return(e)
  /\ UNCHANGED <<life, peers, published, acked, late, created, timeouts,
                 restarts>>

\* close() sets closed; handlers raise from now on.
CloseCall(e) ==
  /\ "close" \in Calls
  /\ call[e].op = "idle" /\ life[e] = "open"
  /\ life' = [life EXCEPT ![e] = "closing"]
  /\ call' = [call EXCEPT ![e] = [op |-> "close"]]
  /\ UNCHANGED <<peers, published, acked, rpc, late, created, timeouts,
                 restarts>>

\* The server has stopped, which fails what was on its way to it, and the
\* peers, the metadata and the native engine are released.
CloseReturn(e) ==
  /\ call[e].op = "close"
  /\ life' = [life EXCEPT ![e] = "closed"]
  /\ peers' = [peers EXCEPT ![e] = [f \in Engines |-> NoPeer]]
  /\ published' = [published EXCEPT ![e] = 0]
  /\ acked' = [acked EXCEPT ![e] = 0]
  /\ call' = [call EXCEPT ![e] = NoCall]
  /\ rpc' = [d \in Engines |->
               IF rpc[d].status = "sent" /\ rpc[d].req.to = e
               THEN [status |-> "raised", req |-> rpc[d].req]
               ELSE rpc[d]]
  /\ late' = {r \in late : r.to # e}
  /\ UNCHANGED <<created, timeouts, restarts>>

\* A new Engine listens at the endpoint of a closed one.
Restart(e) ==
  /\ life[e] = "closed" /\ restarts < MaxRestarts
  /\ life' = [life EXCEPT ![e] = "open"]
  /\ restarts' = restarts + 1
  /\ UNCHANGED <<peers, published, acked, call, rpc, late, created, timeouts>>

-----------------------------------------------------------------------------
(* A call that ends with an exception *)

\* The RPC raises, and so does the call.
CallRaises(e) ==
  /\ rpc[e].status = "raised"
  /\ Return(e)
  /\ UNCHANGED <<life, peers, published, acked, late, created, timeouts,
                 restarts>>

\* The deadline passes before the answer arrives.  Its request may be lost,
\* may have been served, or may be waiting in the other engine.
Timeout(e) ==
  /\ rpc[e].status \in {"sent", "replied"} /\ timeouts < MaxTimeouts
  /\ timeouts' = timeouts + 1
  /\ \/ UNCHANGED late
     \/ /\ rpc[e].status = "sent"
        /\ late' = late \cup {Abandoned(rpc[e].req, timeouts + 1)}
  /\ Return(e)
  /\ UNCHANGED <<life, peers, published, acked, created, restarts>>

-----------------------------------------------------------------------------
(* The RPC handlers; r.to runs them under its state lock *)

\* _check_open raises, or the server is gone.
RefuseClosed(r) ==
  /\ life[r.to] # "open"
  /\ Raise(r)
  /\ UNCHANGED <<life, peers, published, acked, call, created, timeouts,
                 restarts>>

\* Connect: accept an offer, creating the local peer when there is none.
Connect(r) ==
  /\ life[r.to] = "open" /\ r.method = "Connect"
  /\ \/ /\ CanCreate(r.to, r.from)
        /\ CountPeerFor(r.to, r.from)
        /\ \/ \E p \in ConnectNative(PeerFor(r.to, r.from), r.id) :
                SetPeer(r.to, r.from, p) /\ Reply(r, p.id, 0)
           \/ \E p \in ConnectNativeRaises(PeerFor(r.to, r.from), r.id) :
                SetPeer(r.to, r.from, p) /\ Raise(r)
     \/ /\ \/ ~CanCreate(r.to, r.from)
           \/ NativeFaults /\ peers[r.to][r.from].state = "NONE"
        /\ UNCHANGED <<peers, created>>
        /\ Raise(r)
  /\ UNCHANGED <<life, published, acked, call, timeouts, restarts>>

\* Slip: Ready answers with the version it has of the caller's metadata.
ReadyEchoes(r) ==
  /\ life[r.to] = "open" /\ r.method = "Ready" /\ FindConnection(r)
  /\ Reply(r, 0, peers[r.to][r.from].remoteVersion)
  /\ SetPeer(r.to, r.from,
             [ImportSnapshot(peers[r.to][r.from], r.version)
                EXCEPT !.state = "READY"])
  /\ UNCHANGED <<life, published, acked, call, created, timeouts, restarts>>

\* Ready: import the caller's snapshot and answer with the local one.
Ready(r) ==
  /\ life[r.to] = "open" /\ r.method = "Ready"
  /\ \E p \in {peers[r.to][r.from]} :
       \/ /\ FindConnection(r)
          /\ SetPeer(r.to, r.from, [ImportSnapshot(p, r.version)
                                      EXCEPT !.state = "READY"])
          /\ Reply(r, 0, published[r.to])
       \/ /\ FindConnection(r)
          /\ \E q \in ImportSnapshotRaises(p, r.version) :
               SetPeer(r.to, r.from, q)
          /\ Raise(r)
       \/ /\ ~FindConnection(r)
          /\ UNCHANGED peers
          /\ Raise(r)
  /\ UNCHANGED <<life, published, acked, call, created, timeouts, restarts>>

\* Changed: import the caller's snapshot.
Changed(r) ==
  /\ life[r.to] = "open" /\ r.method = "Changed"
  /\ \E p \in {peers[r.to][r.from]} :
       \/ /\ FindConnection(r)
          /\ SetPeer(r.to, r.from, ImportSnapshot(p, r.version))
          /\ Reply(r, 0, 0)
       \/ /\ FindConnection(r)
          /\ \E q \in ImportSnapshotRaises(p, r.version) :
               SetPeer(r.to, r.from, q)
          /\ Raise(r)
       \/ /\ ~FindConnection(r)
          /\ UNCHANGED peers
          /\ Raise(r)
  /\ UNCHANGED <<life, published, acked, call, created, timeouts, restarts>>

\* Slip: Close releases whatever peer the endpoint has.
ClosesEndpoint(r) == peers[r.to][r.from].state # "NONE"

\* The peer of r is the one its Close asks to release.
ClosesPeer(r) ==
  /\ peers[r.to][r.from].state # "NONE"
  /\ peers[r.to][r.from].remoteId = r.id

\* Close: release the matching connection, ignore any other.
Close(r) ==
  /\ life[r.to] = "open" /\ r.method = "Close"
  /\ \/ ClosesPeer(r) /\ SetPeer(r.to, r.from, NoPeer) /\ Reply(r, 0, 0)
     \/ ~ClosesPeer(r) /\ UNCHANGED peers /\ Reply(r, 0, 0)
     \/ NativeFaults /\ ClosesPeer(r) /\ UNCHANGED peers /\ Raise(r)
  /\ UNCHANGED <<life, published, acked, call, created, timeouts, restarts>>

-----------------------------------------------------------------------------
(* The specification *)

Init ==
  /\ life = [e \in Engines |-> "open"]
  /\ peers = [e \in Engines |-> [f \in Engines |-> NoPeer]]
  /\ published = [e \in Engines |-> 0]
  /\ acked = [e \in Engines |-> 0]
  /\ call = [e \in Engines |-> NoCall]
  /\ rpc = [e \in Engines |-> NoRpc]
  /\ late = {}
  /\ created = [e \in Engines |-> [f \in Engines |-> 0]]
  /\ timeouts = 0 /\ restarts = 0

\* What the application may ask of engine e.
Application(e) ==
  \/ \E f \in Engines : ConnectCall(e, f) \/ DisconnectCall(e, f)
  \/ RegisterCall(e) \/ CloseCall(e) \/ Restart(e)

\* The steps e takes on its own once a call has begun.
Proceed(e) ==
  \/ ConnectReply(e) \/ ReadyReply(e)
  \/ Publish(e) \/ PublishNext(e) \/ ChangedReply(e) \/ PublishReturn(e)
  \/ CloseReply(e) \/ CloseReturn(e) \/ CallRaises(e)

Handle(r) == RefuseClosed(r) \/ Connect(r) \/ Ready(r) \/ Changed(r) \/ Close(r)

\* Slip: a handler takes the resource lock of its engine first.
ServeLocked(e) ==
  \E r \in InFlight : r.to = e /\ call[e].op = "idle" /\ Handle(r)

\* A handler that engine e runs.
Serve(e) == \E r \in InFlight : r.to = e /\ Handle(r)

Next ==
  \/ \E e \in Engines : Application(e) \/ Proceed(e) \/ Timeout(e)
  \/ \E r \in InFlight : Handle(r)

Spec == Init /\ [][Next]_vars

\* A call that holds the resource lock goes on when it can, and the worker
\* threads of every engine run the requests that reach it.  The application
\* need not call anything.
FairSpec == Spec /\ \A e \in Engines : WF_vars(Proceed(e)) /\ WF_vars(Serve(e))

-----------------------------------------------------------------------------
(* Properties *)

(***************************************************************************)
(* Every variable has its type.                                            *)
(***************************************************************************)
TypeOK ==
  /\ life \in [Engines -> {"open", "closing", "closed"}]
  /\ peers \in [Engines -> [Engines -> Peers]]
  /\ published \in [Engines -> Nat]
  /\ acked \in [Engines -> Nat]
  /\ call \in [Engines -> CallRecords]
  /\ rpc \in [Engines -> Rpcs]
  /\ late \in SUBSET Requests
  /\ created \in [Engines -> [Engines -> Nat]]
  /\ timeouts \in Nat /\ restarts \in Nat

\* e's peer for f is connected to the peer that f has for e now.
Linked(e, f) ==
  /\ peers[e][f].remoteId # 0
  /\ peers[e][f].remoteId = peers[f][e].id

\* Both ends hold the two halves of one connection, and both call it READY.
Established(e, f) ==
  /\ Linked(e, f) /\ Linked(f, e)
  /\ peers[e][f].state = "READY" /\ peers[f][e].state = "READY"

(***************************************************************************)
(* What an engine has imported for a connection was published by the       *)
(* engine at the other end of that very connection, and remote_version     *)
(* (Peer, control.py:28) never claims more than what was imported: late    *)
(* Ready and Changed requests, old replies and a new engine at the old     *)
(* endpoint never mix the metadata of two connections.                     *)
(***************************************************************************)
SnapshotHonest ==
  \A e, f \in Engines :
    Linked(e, f) =>
      /\ peers[e][f].remoteVersion <= peers[e][f].imported
      /\ peers[e][f].imported <= published[f]

-----------------------------------------------------------------------------
(* What makes SnapshotHonest inductive *)

\* A peer is the last one created, is connected to an id the other engine has
\* used, and knows nothing before it is connected.
PeerInv(e, f) ==
  LET p == peers[e][f]
  IN  /\ p.state = "NONE" <=> p.id = 0
      /\ p.id # 0 => e # f
      /\ p.id \in {0, created[e][f]}
      /\ p.remoteId <= created[f][e]
      /\ p.remoteVersion <= p.imported
      /\ p.state \in {"NONE", "CREATED"} =>
           p.remoteId = 0 /\ p.remoteVersion = -1 /\ p.imported = 0

\* A request names a connection of its sender.  Its snapshot is one the sender
\* has published, and the connection it closes is gone, if that connection is
\* the one its sender has now.
RequestInv(r) ==
  /\ r.from # r.to
  /\ r.id # 0 /\ r.id <= created[r.from][r.to]
  /\ peers[r.from][r.to].id = r.id =>
       /\ r.method # "Close"
       /\ r.method \in {"Ready", "Changed"} => r.version <= published[r.from]

\* A call names a connection of its engine, and publishes what is published.
CallInv(e) ==
  /\ call[e].op = "connect" =>
       /\ call[e].to # e
       /\ call[e].id # 0 /\ call[e].id <= created[e][call[e].to]
  /\ call[e].op = "publish" =>
       /\ call[e].version <= published[e]
       /\ \A t \in call[e].todo : t[1] # e /\ t[2] # 0 /\ t[2] <= created[e][t[1]]

\* The RPC of a call is a request of its engine; the RPC of a connect() goes
\* to the engine it connects to; an answered offer names a connection of that
\* engine; Ready is sent for a connected peer, and its answer is a snapshot
\* that the other end of this connection has published.
RpcInv(e) ==
  rpc[e].status # "none" =>
    /\ rpc[e].req.from = e /\ rpc[e].req.nr = 0
    /\ call[e].op = "connect" =>
         LET f == call[e].to
         IN  /\ rpc[e].req.to = f
             /\ rpc[e].req.method \in {"Connect", "Ready"}
             /\ rpc[e].status = "replied" /\ rpc[e].req.method = "Connect" =>
                  rpc[e].id # 0 /\ rpc[e].id <= created[f][e]
             /\ rpc[e].req.method = "Ready" /\ RequirePeer(e) =>
                  /\ peers[e][f].state \in {"CONNECTED", "READY"}
                  /\ rpc[e].status = "replied" /\ Linked(e, f) =>
                       rpc[e].version <= published[f]

(***************************************************************************)
(* The inductive invariant: every request, answer and call still under way *)
(* speaks of a connection of its own engine, and of one that exists only   *)
(* what is true of it (control.py:82-83, 91-99, 203).                      *)
(***************************************************************************)
IInv ==
  /\ SnapshotHonest
  /\ \A e, f \in Engines : PeerInv(e, f)
  /\ \A r \in InFlight : RequestInv(r)
  /\ \A r \in late : r.nr # 0
  /\ \A e \in Engines : CallInv(e) /\ RpcInv(e)

\* What e knows of f's memories over the connection they share.
ViewOf(e, f) == IF Linked(e, f) THEN peers[e][f].imported ELSE -1

Views ==
  INSTANCE MetadataViews
    WITH log <- published,
         view <- [e \in Engines |-> [f \in Engines |-> ViewOf(e, f)]]

(***************************************************************************)
(* The control plane keeps the promise of MetadataViews.                   *)
(***************************************************************************)
ImplementsViews == Views!Spec

(***************************************************************************)
(* "READY: Both QPs are connected and remote memory metadata is imported"  *)
(* (control.py:17): a READY peer whose partner still exists is that        *)
(* partner's peer.                                                         *)
(***************************************************************************)
ReadyBothConnected ==
  \A e, f \in Engines :
    peers[e][f].state = "READY" /\ Linked(e, f) => Linked(f, e)

(***************************************************************************)
(* READY means both ends are connected as long as no call has timed out:   *)
(* requests that cross, disconnects, failing native calls and engines      *)
(* created anew do not mispair.                                            *)
(***************************************************************************)
ReadyIsPaired == timeouts = 0 => ReadyBothConnected

(***************************************************************************)
(* When a registration has returned, both ends of every established        *)
(* connection know the memory (engine.py:78), as long as no call has timed *)
(* out and the native engine does not fail: a connection that is set up    *)
(* while publish() runs learns of the memory from its Ready exchange.      *)
(***************************************************************************)
AckedIsImported ==
  \A e, f \in Engines :
    Established(e, f) => peers[f][e].remoteVersion >= acked[e]

AckedIsImportedLossless ==
  timeouts = 0 /\ ~NativeFaults => AckedIsImported

(***************************************************************************)
(* An answered Ready or Changed has brought everything (control.py:114,    *)
(* 186, 195): as long as the connection exists its receiver knows every    *)
(* memory the caller had published by then, those of earlier announcements *)
(* that failed, were cut short by another peer's failure (:153) or timed   *)
(* out included.  So the next registration or handshake that succeeds      *)
(* repairs all of them, and no late request undoes the repair.             *)
(***************************************************************************)
AnsweredIsImported ==
  \A e \in Engines :
    rpc[e].status = "replied" /\ rpc[e].req.method \in {"Ready", "Changed"} =>
      LET r == rpc[e].req
      IN  peers[e][r.to].id = r.id /\ Linked(e, r.to) /\ Linked(r.to, e) =>
            peers[r.to][e].remoteVersion >= r.version

(***************************************************************************)
(* When neither engine is in a call, the two agree: one has a READY peer   *)
(* for the other exactly if the other has, and these are the two halves of *)
(* one connection.  connect() racing connect(), disconnect() racing        *)
(* connect() and two disconnect() calls leave no half-open peer behind, as *)
(* long as no call has timed out and no engine was closed.                 *)
(***************************************************************************)
QuietEnginesAgree ==
  timeouts = 0 /\ restarts = 0 /\ ~NativeFaults =>
    \A e, f \in Engines :
      (/\ call[e].op = "idle" /\ call[f].op = "idle"
       /\ life[e] = "open" /\ life[f] = "open"
       /\ peers[e][f].state = "READY")
      => Established(e, f)

\* What becomes of a peer while it lives: it is never connected to a second
\* remote connection, never loses READY, and its version never goes back.
KeepsPairing(p, q) ==
  p.id # 0 /\ q.id = p.id =>
    /\ p.remoteId # 0 => q.remoteId = p.remoteId
    /\ p.state = "READY" => q.state = "READY"
    /\ q.remoteVersion >= p.remoteVersion

(***************************************************************************)
(* A peer that lives on keeps its pairing and its progress: late and       *)
(* repeated Connect, Ready and Changed requests never connect it again     *)
(* (control.py:109-110), take READY from it, or replace a newer snapshot   *)
(* with an older one (control.py:114).                                     *)
(***************************************************************************)
PairingIsFinal ==
  [][\A e, f \in Engines : KeepsPairing(peers[e][f], peers'[e][f])]_vars

\* In this step e loses its peer for f, and neither to its own disconnect()
\* nor to its own close().
Released(e, f) ==
  /\ peers[e][f].id # 0 /\ peers'[e][f].id # peers[e][f].id
  /\ call[e].op = "idle" => call'[e].op = "idle"
  /\ call[e].op = "close" => call'[e].op = "close"

(***************************************************************************)
(* A request never costs an engine a connection that is still alive at     *)
(* the other end: only its own disconnect() and close() release a peer     *)
(* whose partner still exists (control.py:157 and :199).                   *)
(***************************************************************************)
ReleasesDeadOnly ==
  [][\A e, f \in Engines : Released(e, f) => ~Linked(e, f)]_vars

(***************************************************************************)
(* A peer whose native connect failed is not connected again: the header   *)
(* says it "must be destroyed" (transfer_engine.h:295-296).                *)
(***************************************************************************)
FailedIsDestroyed ==
  [][\A e, f \in Engines :
       (/\ peers[e][f].native = "FAILED"
        /\ peers'[e][f].id = peers[e][f].id)
       => peers'[e][f].native = "FAILED"]_vars

(***************************************************************************)
(* Every call that takes the resource lock gives it back: the engines do   *)
(* not wait for each other in a circle although each waits for the others' *)
(* answers with its resource lock held.                                    *)
(***************************************************************************)
CallsReturn ==
  \A e \in Engines : []<>(call[e].op = "idle")

(***************************************************************************)
(* When nothing fails or times out and nobody disconnects or closes, a     *)
(* connect() ends with both engines READY for good, also when both call it *)
(* at once (engine.py:64-68).                                              *)
(***************************************************************************)
ConnectEstablishes ==
  [](timeouts = 0 /\ \A e \in Engines : call[e].op \notin {"disconnect", "close"}) =>
    \A e \in Engines : \A f \in Engines \ {e} :
      (call[e].op = "connect" /\ call[e].to = f) ~> []Established(e, f)

(***************************************************************************)
(* connect() does what it says, "Connect both ends and exchange memory     *)
(* metadata" (engine.py:64), whenever its peer is there and the other      *)
(* engine is in no call and begins none.                                   *)
(***************************************************************************)
ConnectsAlone ==
  \A e, f \in Engines :
    (call[e].op = "connect" /\ call[e].to = f /\ RequirePeer(e)
       /\ call[f].op = "idle")
    ~> (Established(e, f) \/ call[f].op # "idle")

(***************************************************************************)
(* A lost Close, Connect or Ready leaves peers behind that refuse every    *)
(* other connection (control.py:110), but no more than that: once the      *)
(* other engine has given its peer up and no late request is on its way, a *)
(* connect() with a new peer establishes the connection, whatever was lost *)
(* before, when nothing more times out and the other engine stays idle.    *)
(***************************************************************************)
StartsAfresh(e, f) ==
  /\ call[e].op = "connect" /\ call[e].to = f
  /\ rpc[e].status = "sent" /\ rpc[e].req.method = "Connect"
  /\ peers[e][f].state = "CREATED" /\ peers[f][e].state = "NONE"
  /\ CanCreate(f, e) /\ life[f] = "open"
  /\ call[f].op = "idle" /\ late = {}

ConnectsAfresh ==
  \A e \in Engines : \A f \in Engines \ {e} :
    (StartsAfresh(e, f) /\ timeouts = MaxTimeouts)
      ~> (Established(e, f) \/ call[f].op # "idle")

=============================================================================
