------------------------ MODULE ControlPlaneProofs --------------------------
(***************************************************************************)
(* Proofs about ControlPlane for every set of engines and every bound.     *)
(***************************************************************************)
EXTENDS ControlPlane, TLAPS

-----------------------------------------------------------------------------
(* Types *)

\* The helpers on peers return peers.
LEMMA PeerHelpers ==
  ASSUME NEW p \in Peers, NEW n \in Nat
  PROVE  /\ ConnectNative(p, n) \subseteq Peers
         /\ ConnectNativeRaises(p, n) \subseteq Peers
         /\ ImportSnapshot(p, n) \in Peers
         /\ [ImportSnapshot(p, n) EXCEPT !.state = "READY"] \in Peers
         /\ ImportSnapshotRaises(p, n) \subseteq Peers
<1>1. ConnectNative(p, n) \subseteq Peers
  BY DEF ConnectNative, Peers, PeerStates
<1>2. ConnectNativeRaises(p, n) \subseteq Peers
  BY DEF ConnectNativeRaises, Peers, PeerStates
<1>3. /\ ImportSnapshot(p, n) \in Peers
      /\ [ImportSnapshot(p, n) EXCEPT !.state = "READY"] \in Peers
  BY DEF ImportSnapshot, Peers, PeerStates, Larger
<1>4. ImportSnapshotRaises(p, n) \subseteq Peers
  BY DEF ImportSnapshotRaises, Peers, PeerStates, Larger
<1> QED BY <1>1, <1>2, <1>3, <1>4

\* The state of a peer that an engine looks up or creates.
LEMMA PeerForType ==
  ASSUME TypeOK, NEW e \in Engines, NEW f \in Engines
  PROVE  PeerFor(e, f) \in Peers /\ peers[e][f] \in Peers
<1>1. NewPeer(e, f) \in Peers
  <2>1. created[e][f] + 1 \in Nat
    BY DEF TypeOK
  <2> QED BY <2>1 DEF NewPeer, Peers, PeerStates
<1> QED BY <1>1 DEF TypeOK, PeerFor

\* A request in flight is a request.
LEMMA InFlightType ==
  ASSUME TypeOK
  PROVE  InFlight \subseteq Requests
BY DEF TypeOK, InFlight, Rpcs

\* What an answered call holds.
LEMMA RpcType ==
  ASSUME TypeOK, NEW e \in Engines
  PROVE  /\ rpc[e].status \in {"none", "sent", "replied", "raised"}
         /\ rpc[e].status # "none" => rpc[e].req \in Requests
         /\ rpc[e].status = "replied" => rpc[e].id \in Nat /\ rpc[e].version \in Nat
BY DEF TypeOK, Rpcs

\* What a call holds, by its kind.
LEMMA CallType ==
  ASSUME TypeOK, NEW e \in Engines
  PROVE  /\ call[e].op \in {"idle", "connect", "disconnect", "register",
                            "close", "publish"}
         /\ call[e].op \in {"connect", "disconnect"}
              => call[e].to \in Engines /\ call[e].id \in Nat
         /\ call[e].op = "publish"
              => /\ call[e].version \in Nat
                 /\ call[e].todo \in SUBSET (Engines \X Nat)
BY DEF TypeOK, CallRecords

\* The components of a request in flight.
LEMMA RequestType ==
  ASSUME TypeOK, NEW r \in InFlight
  PROVE  /\ r \in Requests
         /\ r.to \in Engines /\ r.from \in Engines
         /\ r.id \in Nat /\ r.version \in Nat
BY InFlightType DEF Requests

\* A late request is the request it was, but for its number.
LEMMA AbandonedType ==
  ASSUME NEW r \in Requests, NEW n \in Nat
  PROVE  /\ Abandoned(r, n) \in Requests
         /\ Abandoned(r, n).nr = n /\ Abandoned(r, n).method = r.method
         /\ Abandoned(r, n).from = r.from /\ Abandoned(r, n).to = r.to
         /\ Abandoned(r, n).id = r.id /\ Abandoned(r, n).version = r.version
BY DEF Abandoned, Requests

\* Replacing a peer keeps the type of peers.
LEMMA SetPeerType ==
  ASSUME TypeOK, NEW e \in Engines, NEW f \in Engines, NEW p \in Peers,
         SetPeer(e, f, p)
  PROVE  peers' \in [Engines -> [Engines -> Peers]]
BY DEF SetPeer, TypeOK

\* Sending a request keeps the type of rpc.
LEMMA SendType ==
  ASSUME TypeOK, NEW e \in Engines, NEW f \in Engines, NEW m \in Methods,
         NEW i \in Nat, NEW v \in Nat, Send(e, m, f, i, v)
  PROVE  rpc' \in [Engines -> Rpcs]
<1> DEFINE q == [method |-> m, from |-> e, to |-> f, id |-> i, version |-> v,
                 nr |-> 0]
<1>1. q \in Requests
  BY DEF Requests
<1>2. [status |-> "sent", req |-> q] \in Rpcs
  BY <1>1 DEF Rpcs
<1> QED BY <1>2 DEF Send, TypeOK

\* Answering a request keeps the types of rpc and late.
LEMMA AnswerType ==
  ASSUME TypeOK, NEW r \in Requests, NEW m \in Nat, NEW n \in Nat,
         Reply(r, m, n) \/ Raise(r)
  PROVE  rpc' \in [Engines -> Rpcs] /\ late' \in SUBSET Requests
<1>1. r.from \in Engines
  BY DEF Requests
<1>2. [status |-> "replied", req |-> r, id |-> m, version |-> n] \in Rpcs
  BY DEF Rpcs
<1>3. [status |-> "raised", req |-> r] \in Rpcs
  BY DEF Rpcs
<1> QED BY <1>1, <1>2, <1>3 DEF TypeOK, Reply, Raise

\* Returning from a call keeps the types of call and rpc.
LEMMA ReturnType ==
  ASSUME TypeOK, NEW e \in Engines, Return(e)
  PROVE  call' \in [Engines -> CallRecords] /\ rpc' \in [Engines -> Rpcs]
<1>1. NoCall \in CallRecords /\ NoRpc \in Rpcs
  BY DEF NoCall, NoRpc, CallRecords, Rpcs
<1> QED BY <1>1 DEF Return, TypeOK

\* Every action keeps the types.
LEMMA TypeNext == TypeOK /\ [Next]_vars => TypeOK'
<1> SUFFICES ASSUME TypeOK, [Next]_vars PROVE TypeOK'
  OBVIOUS
<1>1. ASSUME NEW e \in Engines, NEW f \in Engines, ConnectCall(e, f)
      PROVE  TypeOK'
  <2>1. PeerFor(e, f) \in Peers /\ PeerFor(e, f).id \in Nat
    BY PeerForType DEF Peers
  <2>2. /\ peers' \in [Engines -> [Engines -> Peers]]
        /\ created' \in [Engines -> [Engines -> Nat]]
    BY <1>1, <2>1, SetPeerType DEF ConnectCall, TypeOK, CountPeerFor
  <2>3. call' \in [Engines -> CallRecords]
    BY <1>1, <2>1 DEF ConnectCall, TypeOK, CallRecords
  <2>4. rpc' \in [Engines -> Rpcs]
    BY <1>1, <2>1, SendType DEF ConnectCall, Methods
  <2> QED BY <1>1, <2>2, <2>3, <2>4 DEF ConnectCall, TypeOK
<1>2. ASSUME NEW e \in Engines, ConnectReply(e) PROVE TypeOK'
  <2> DEFINE f == call[e].to
  <2>1. f \in Engines /\ rpc[e].id \in Nat /\ peers[e][f] \in Peers
    BY <1>2, RpcType, CallType, PeerForType DEF ConnectReply
  <2>2. /\ ConnectNative(peers[e][f], rpc[e].id) \subseteq Peers
        /\ ConnectNativeRaises(peers[e][f], rpc[e].id) \subseteq Peers
    BY <2>1, PeerHelpers
  <2>3. CASE \E p \in ConnectNative(peers[e][f], rpc[e].id) :
               /\ SetPeer(e, f, p) /\ Send(e, "Ready", f, p.id, published[e])
               /\ UNCHANGED call
    <3>1. PICK p \in Peers : SetPeer(e, f, p) /\ UNCHANGED call
                              /\ Send(e, "Ready", f, p.id, published[e])
      BY <2>2, <2>3
    <3>2. p.id \in Nat /\ published[e] \in Nat
      BY DEF Peers, TypeOK
    <3>3. /\ rpc' \in [Engines -> Rpcs]
          /\ peers' \in [Engines -> [Engines -> Peers]]
      BY <2>1, <3>1, <3>2, SendType, SetPeerType DEF Methods
    <3> QED BY <1>2, <3>1, <3>3 DEF ConnectReply, TypeOK
  <2>4. CASE /\ \E p \in ConnectNativeRaises(peers[e][f], rpc[e].id) :
                  SetPeer(e, f, p)
             /\ Return(e)
    <3>1. peers' \in [Engines -> [Engines -> Peers]]
      BY <2>1, <2>2, <2>4, SetPeerType
    <3> QED BY <1>2, <2>4, <3>1, ReturnType DEF ConnectReply, TypeOK
  <2>5. CASE UNCHANGED peers /\ Return(e)
    BY <1>2, <2>5, ReturnType DEF ConnectReply, TypeOK
  <2> QED BY <1>2, <2>3, <2>4, <2>5 DEF ConnectReply
<1>3. ASSUME NEW e \in Engines, ReadyReply(e) PROVE TypeOK'
  <2> DEFINE f == call[e].to
  <2>1. f \in Engines /\ rpc[e].version \in Nat /\ peers[e][f] \in Peers
    BY <1>3, RpcType, CallType, PeerForType DEF ReadyReply
  <2>2. peers' \in [Engines -> [Engines -> Peers]]
    <3>1. \/ \E p \in Peers : SetPeer(e, f, p)
          \/ UNCHANGED peers
      BY <1>3, <2>1, PeerHelpers DEF ReadyReply
    <3> QED BY <2>1, <3>1, SetPeerType DEF TypeOK
  <2> QED BY <1>3, <2>2, ReturnType DEF ReadyReply, TypeOK
<1>4. ASSUME NEW e \in Engines, RegisterCall(e) PROVE TypeOK'
  BY <1>4 DEF RegisterCall, TypeOK, CallRecords
<1>5. ASSUME NEW e \in Engines, Publish(e) PROVE TypeOK'
  BY <1>5 DEF Publish, TypeOK, CallRecords, Peers
<1>6. ASSUME NEW e \in Engines, PublishNext(e) PROVE TypeOK'
  <2>1. PICK t \in call[e].todo :
          /\ call' = [call EXCEPT ![e] =
                        [op |-> "publish", version |-> call[e].version,
                         todo |-> call[e].todo \ {t}]]
          /\ Send(e, "Changed", t[1], t[2], call[e].version)
    BY <1>6 DEF PublishNext
  <2>2. t[1] \in Engines /\ t[2] \in Nat /\ call[e].version \in Nat
    BY <1>6, <2>1, CallType DEF PublishNext
  <2>3. rpc' \in [Engines -> Rpcs]
    BY <2>1, <2>2, SendType DEF Methods
  <2>4. call' \in [Engines -> CallRecords]
    <3>1. [op |-> "publish", version |-> call[e].version,
           todo |-> call[e].todo \ {t}] \in CallRecords
      BY <1>6, CallType DEF PublishNext, CallRecords
    <3> QED BY <2>1, <3>1 DEF TypeOK
  <2> QED BY <1>6, <2>3, <2>4 DEF PublishNext, TypeOK
<1>7. ASSUME NEW e \in Engines, ChangedReply(e) PROVE TypeOK'
  BY <1>7 DEF ChangedReply, TypeOK, NoRpc, Rpcs
<1>8. ASSUME NEW e \in Engines, PublishReturn(e) PROVE TypeOK'
  BY <1>8, CallType, ReturnType DEF PublishReturn, TypeOK
<1>9. ASSUME NEW e \in Engines, NEW f \in Engines, DisconnectCall(e, f)
      PROVE  TypeOK'
  <2>1. NoPeer \in Peers /\ peers[e][f].id \in Nat
    BY PeerForType DEF NoPeer, Peers, PeerStates
  <2>2. peers' \in [Engines -> [Engines -> Peers]]
    BY <1>9, <2>1, SetPeerType DEF DisconnectCall
  <2>3. call' \in [Engines -> CallRecords]
    BY <1>9, <2>1 DEF DisconnectCall, TypeOK, CallRecords
  <2>4. rpc' \in [Engines -> Rpcs]
    BY <1>9, <2>1, SendType DEF DisconnectCall, Methods
  <2> QED BY <1>9, <2>2, <2>3, <2>4 DEF DisconnectCall, TypeOK
<1>10. ASSUME NEW e \in Engines, CloseReply(e) PROVE TypeOK'
  BY <1>10, ReturnType DEF CloseReply, TypeOK
<1>11. ASSUME NEW e \in Engines, CloseCall(e) PROVE TypeOK'
  BY <1>11 DEF CloseCall, TypeOK, CallRecords
<1>12. ASSUME NEW e \in Engines, CloseReturn(e) PROVE TypeOK'
  <2>1. NoPeer \in Peers /\ NoCall \in CallRecords
    BY DEF NoPeer, Peers, PeerStates, NoCall, CallRecords
  <2>2. rpc' \in [Engines -> Rpcs]
    <3>1. ASSUME NEW d \in Engines, rpc[d].status = "sent"
          PROVE  [status |-> "raised", req |-> rpc[d].req] \in Rpcs
      BY <3>1, RpcType DEF Rpcs
    <3> QED BY <1>12, <3>1 DEF CloseReturn, TypeOK
  <2>3. late' \in SUBSET Requests
    BY <1>12 DEF CloseReturn, TypeOK
  <2>4. /\ peers' \in [Engines -> [Engines -> Peers]]
        /\ call' \in [Engines -> CallRecords]
        /\ life' \in [Engines -> {"open", "closing", "closed"}]
        /\ published' \in [Engines -> Nat] /\ acked' \in [Engines -> Nat]
    BY <1>12, <2>1 DEF CloseReturn, TypeOK
  <2> QED BY <1>12, <2>2, <2>3, <2>4 DEF CloseReturn, TypeOK
<1>13. ASSUME NEW e \in Engines, Restart(e) PROVE TypeOK'
  BY <1>13 DEF Restart, TypeOK
<1>14. ASSUME NEW e \in Engines, CallRaises(e) PROVE TypeOK'
  BY <1>14, ReturnType DEF CallRaises, TypeOK
<1>15. ASSUME NEW e \in Engines, Timeout(e) PROVE TypeOK'
  <2>1. rpc[e].req \in Requests
    BY <1>15, RpcType DEF Timeout
  <2>2. timeouts + 1 \in Nat
    BY DEF TypeOK
  <2>3. Abandoned(rpc[e].req, timeouts + 1) \in Requests
    BY <2>1, <2>2, AbandonedType
  <2>4. late' \in SUBSET Requests
    BY <1>15, <2>3 DEF Timeout, TypeOK
  <2> QED BY <1>15, <2>2, <2>4, ReturnType DEF Timeout, TypeOK
<1>16. ASSUME NEW r \in InFlight, RefuseClosed(r) PROVE TypeOK'
  <2>1. r \in Requests
    BY RequestType
  <2> QED BY <1>16, <2>1, AnswerType DEF RefuseClosed, TypeOK
<1>17. ASSUME NEW r \in InFlight, Connect(r) PROVE TypeOK'
  <2> DEFINE p == PeerFor(r.to, r.from)
  <2>1. r \in Requests /\ r.to \in Engines /\ r.from \in Engines /\ r.id \in Nat
    BY RequestType
  <2>2. p \in Peers /\ p.id \in Nat
    BY <2>1, PeerForType DEF Peers
  <2>3. created' \in [Engines -> [Engines -> Nat]]
    BY <1>17, <2>1, <2>2 DEF Connect, CountPeerFor, TypeOK
  <2>4. \/ \E q \in Peers : /\ SetPeer(r.to, r.from, q)
                            /\ Reply(r, q.id, 0) \/ Raise(r)
        \/ UNCHANGED peers /\ Raise(r)
    BY <1>17, <2>1, <2>2, PeerHelpers DEF Connect
  <2>5. peers' \in [Engines -> [Engines -> Peers]]
    BY <2>1, <2>4, SetPeerType DEF TypeOK
  <2>6. rpc' \in [Engines -> Rpcs] /\ late' \in SUBSET Requests
    BY <2>1, <2>4, AnswerType DEF Peers
  <2> QED BY <1>17, <2>3, <2>5, <2>6 DEF Connect, TypeOK
<1>18. ASSUME NEW r \in InFlight, Ready(r) PROVE TypeOK'
  <2>1. /\ r \in Requests /\ r.to \in Engines /\ r.from \in Engines
        /\ r.version \in Nat /\ published[r.to] \in Nat
        /\ peers[r.to][r.from] \in Peers
    BY RequestType, PeerForType DEF TypeOK
  <2>2. (\E q \in Peers : SetPeer(r.to, r.from, q)) \/ UNCHANGED peers
    BY <1>18, <2>1, PeerHelpers DEF Ready
  <2>3. Reply(r, 0, published[r.to]) \/ Raise(r)
    BY <1>18 DEF Ready
  <2>4. peers' \in [Engines -> [Engines -> Peers]]
    BY <2>1, <2>2, SetPeerType DEF TypeOK
  <2>5. rpc' \in [Engines -> Rpcs] /\ late' \in SUBSET Requests
    BY <2>1, <2>3, AnswerType
  <2> QED BY <1>18, <2>4, <2>5 DEF Ready, TypeOK
<1>19. ASSUME NEW r \in InFlight, Changed(r) PROVE TypeOK'
  <2>1. /\ r \in Requests /\ r.to \in Engines /\ r.from \in Engines
        /\ r.version \in Nat /\ peers[r.to][r.from] \in Peers
    BY RequestType, PeerForType
  <2>2. (\E q \in Peers : SetPeer(r.to, r.from, q)) \/ UNCHANGED peers
    BY <1>19, <2>1, PeerHelpers DEF Changed
  <2>3. Reply(r, 0, 0) \/ Raise(r)
    BY <1>19 DEF Changed
  <2>4. peers' \in [Engines -> [Engines -> Peers]]
    BY <2>1, <2>2, SetPeerType DEF TypeOK
  <2>5. rpc' \in [Engines -> Rpcs] /\ late' \in SUBSET Requests
    BY <2>1, <2>3, AnswerType
  <2> QED BY <1>19, <2>4, <2>5 DEF Changed, TypeOK
<1>20. ASSUME NEW r \in InFlight, Close(r) PROVE TypeOK'
  <2>1. r \in Requests /\ r.to \in Engines /\ r.from \in Engines
    BY RequestType
  <2>2. NoPeer \in Peers
    BY DEF NoPeer, Peers, PeerStates
  <2>3. peers' \in [Engines -> [Engines -> Peers]]
    BY <1>20, <2>1, <2>2, SetPeerType DEF Close, TypeOK
  <2>4. rpc' \in [Engines -> Rpcs] /\ late' \in SUBSET Requests
    BY <1>20, <2>1, AnswerType DEF Close
  <2> QED BY <1>20, <2>3, <2>4 DEF Close, TypeOK
<1>21. CASE UNCHANGED vars
  BY <1>21 DEF vars, TypeOK
<1> QED
  BY <1>1, <1>2, <1>3, <1>4, <1>5, <1>6, <1>7, <1>8, <1>9, <1>10, <1>11,
     <1>12, <1>13, <1>14, <1>15, <1>16, <1>17, <1>18, <1>19, <1>20, <1>21
  DEF Next, Application, Proceed, Handle

(***************************************************************************)
(* Type correctness for every value of the constants: no operation leaves  *)
(* a half-built peer, request or call behind (control.py:14-28).           *)
(***************************************************************************)
THEOREM TypeCorrect == Spec => []TypeOK
<1>1. Init => TypeOK
  <2>1. NoPeer \in Peers /\ NoCall \in CallRecords /\ NoRpc \in Rpcs
    BY DEF NoPeer, Peers, PeerStates, NoCall, CallRecords, NoRpc, Rpcs
  <2> QED BY <2>1 DEF Init, TypeOK
<1> QED BY <1>1, TypeNext, PTL DEF Spec

-----------------------------------------------------------------------------
(* Snapshots *)

\* What the helpers on peers leave alone, and what they change.
LEMMA ConnectNativeKeeps ==
  ASSUME NEW p \in Peers, NEW n \in Nat
  PROVE  /\ \A q \in ConnectNative(p, n) :
              /\ q.id = p.id /\ q.remoteId = n
              /\ q.remoteVersion = p.remoteVersion /\ q.imported = p.imported
              /\ \/ p.state = "CREATED" /\ q.state = "CONNECTED"
                 \/ p.state # "CREATED" /\ q = p
         /\ \A q \in ConnectNativeRaises(p, n) :
              /\ q.id = p.id /\ q.remoteId = p.remoteId /\ q.state = p.state
              /\ q.remoteVersion = p.remoteVersion /\ q.imported = p.imported
BY DEF ConnectNative, ConnectNativeRaises, Peers

LEMMA ImportKeeps ==
  ASSUME NEW p \in Peers, NEW n \in Nat, p.remoteVersion <= p.imported
  PROVE  /\ LET q == ImportSnapshot(p, n)
            IN  /\ q.id = p.id /\ q.remoteId = p.remoteId /\ q.state = p.state
                /\ q.remoteVersion <= q.imported
                /\ \A b \in Nat : n <= b /\ p.imported <= b => q.imported <= b
         /\ LET q == [ImportSnapshot(p, n) EXCEPT !.state = "READY"]
            IN  /\ q.id = p.id /\ q.remoteId = p.remoteId /\ q.state = "READY"
                /\ q.remoteVersion <= q.imported
                /\ \A b \in Nat : n <= b /\ p.imported <= b => q.imported <= b
         /\ \A q \in ImportSnapshotRaises(p, n) :
              /\ q.id = p.id /\ q.remoteId = p.remoteId /\ q.state = p.state
              /\ q.remoteVersion <= q.imported
              /\ \A b \in Nat : n <= b /\ p.imported <= b => q.imported <= b
<1>1. LET q == ImportSnapshot(p, n)
      IN  /\ q.id = p.id /\ q.remoteId = p.remoteId /\ q.state = p.state
          /\ q.remoteVersion <= q.imported
          /\ \A b \in Nat : n <= b /\ p.imported <= b => q.imported <= b
  BY DEF ImportSnapshot, Larger, Peers
<1>2. LET q == [ImportSnapshot(p, n) EXCEPT !.state = "READY"]
      IN  /\ q.id = p.id /\ q.remoteId = p.remoteId /\ q.state = "READY"
          /\ q.remoteVersion <= q.imported
          /\ \A b \in Nat : n <= b /\ p.imported <= b => q.imported <= b
  BY DEF ImportSnapshot, Larger, Peers
<1>3. \A q \in ImportSnapshotRaises(p, n) :
        /\ q.id = p.id /\ q.remoteId = p.remoteId /\ q.state = p.state
        /\ q.remoteVersion <= q.imported
        /\ \A b \in Nat : n <= b /\ p.imported <= b => q.imported <= b
  BY DEF ImportSnapshotRaises, Larger, Peers
<1> QED BY <1>1, <1>2, <1>3

\* A peer that has a remote connection.
ConnectedStates == {"CONNECTED", "READY"}

\* How peers, ids and metadata change in every step: ids are used up in
\* order, a peer keeps its connection as long as it lives, and a metadata list
\* shrinks only when its engine is closed, without a peer left.
Grows ==
  \A e \in Engines :
    /\ \A f \in Engines :
         /\ created[e][f] <= created'[e][f]
         /\ peers'[e][f].id \in {0, peers[e][f].id, created[e][f] + 1}
         /\ /\ peers'[e][f].id = peers[e][f].id
            /\ peers[e][f].state \in ConnectedStates
            => /\ peers'[e][f].state \in ConnectedStates
               /\ peers'[e][f].remoteId = peers[e][f].remoteId
    /\ \/ published[e] <= published'[e]
       \/ call[e].op = "close" /\ \A f \in Engines : peers'[e][f].id = 0

\* The numbers an engine's state consists of.
LEMMA Numbers ==
  ASSUME TypeOK, NEW e \in Engines, NEW f \in Engines
  PROVE  /\ created[e][f] \in Nat /\ published[e] \in Nat
         /\ peers[e][f] \in Peers
         /\ peers[e][f].id \in Nat /\ peers[e][f].remoteId \in Nat
         /\ peers[e][f].imported \in Nat /\ peers[e][f].remoteVersion \in Int
         /\ peers[e][f].state \in PeerStates
BY DEF TypeOK, Peers

\* What holds of a request keeps holding.
LEMMA GrowsRequest ==
  ASSUME TypeOK, TypeOK', Grows, NEW r \in Requests, RequestInv(r)
  PROVE  RequestInv(r)'
<1>1. /\ r.from \in Engines /\ r.to \in Engines
      /\ r.id \in Nat /\ r.version \in Nat
  BY DEF Requests
<1>2. /\ created[r.from][r.to] \in Nat /\ created'[r.from][r.to] \in Nat
      /\ published[r.from] \in Nat /\ published'[r.from] \in Nat
  BY <1>1 DEF TypeOK
<1> QED BY <1>1, <1>2 DEF Grows, RequestInv

\* What holds of a call keeps holding while it does not move.
LEMMA GrowsCall ==
  ASSUME TypeOK, TypeOK', Grows, NEW e \in Engines, CallInv(e),
         call'[e] = call[e]
  PROVE  CallInv(e)'
<1>1. \A f \in Engines : /\ created[e][f] \in Nat /\ created'[e][f] \in Nat
                         /\ created[e][f] <= created'[e][f]
  BY DEF TypeOK, Grows
<1>2. CASE call[e].op = "connect"
  BY <1>1, <1>2, CallType DEF CallInv
<1>3. CASE call[e].op = "publish"
  <2>1. call[e].version <= published'[e]
    <3>1. published[e] \in Nat /\ published'[e] \in Nat
      BY DEF TypeOK
    <3>2. published[e] <= published'[e]
      BY <1>3 DEF Grows
    <3>3. call[e].version <= published[e] /\ call[e].version \in Nat
      BY <1>3, CallType DEF CallInv
    <3> QED BY <3>1, <3>2, <3>3
  <2>2. \A t \in call[e].todo :
          t[1] # e /\ t[2] # 0 /\ t[2] <= created'[e][t[1]]
    <3>1. \A t \in call[e].todo : t[1] \in Engines /\ t[2] \in Nat
      BY <1>3, CallType
    <3> QED BY <1>1, <1>3, <3>1 DEF CallInv
  <2> QED BY <1>3, <2>1, <2>2 DEF CallInv
<1> QED BY <1>2, <1>3 DEF CallInv

\* What holds of an RPC keeps holding while neither it nor its call moves.
LEMMA GrowsRpc ==
  ASSUME TypeOK, TypeOK', IInv, Grows, NEW e \in Engines,
         call'[e] = call[e], rpc'[e] = rpc[e]
  PROVE  RpcInv(e)'
<1> DEFINE f == call[e].to
<1>1. CallInv(e) /\ RpcInv(e)
  BY DEF IInv
<1>2. CASE rpc[e].status # "none" /\ call[e].op = "connect"
  <2>1. f \in Engines /\ call[e].id \in Nat /\ f # e
    BY <1>1, <1>2, CallType DEF CallInv
  <2>2. rpc[e].status = "replied" => rpc[e].id \in Nat /\ rpc[e].version \in Nat
    BY RpcType
  <2>3. /\ created[e][f] \in Nat /\ created[f][e] \in Nat
        /\ created'[f][e] \in Nat /\ created[f][e] <= created'[f][e]
    BY <2>1 DEF TypeOK, Grows
  <2>4. ASSUME rpc[e].req.method = "Ready", RequirePeer(e)'
        PROVE  /\ peers'[e][f].state \in ConnectedStates
               /\ rpc[e].status = "replied" /\ Linked(e, f)' =>
                    rpc[e].version <= published'[f]
    <3>1. RequirePeer(e)
      BY <1>1, <1>2, <2>1, <2>3, <2>4 DEF CallInv, RequirePeer, Grows
    <3>2. /\ peers[e][f].state \in ConnectedStates
          /\ rpc[e].status = "replied" /\ Linked(e, f) =>
               rpc[e].version <= published[f]
      BY <1>1, <1>2, <2>4, <3>1 DEF RpcInv, ConnectedStates
    <3>3. peers'[e][f].id = peers[e][f].id
      BY <2>4, <3>1 DEF RequirePeer
    <3>4. /\ peers'[e][f].state \in ConnectedStates
          /\ peers'[e][f].remoteId = peers[e][f].remoteId
      BY <2>1, <3>2, <3>3 DEF Grows
    <3>5. ASSUME rpc[e].status = "replied", Linked(e, f)'
          PROVE  rpc[e].version <= published'[f]
      <4>1. peers[e][f].remoteId <= created[f][e] /\ peers[e][f].remoteId \in Nat
        BY <2>1, Numbers DEF IInv, PeerInv
      <4>2. peers'[f][e].id # 0 /\ peers'[f][e].id # created[f][e] + 1
        BY <2>3, <3>4, <3>5, <4>1 DEF Linked
      <4>3. Linked(e, f)
        BY <2>1, <3>4, <3>5, <4>2 DEF Linked, Grows
      <4>4. published[f] <= published'[f]
        BY <2>1, <4>2 DEF Grows
      <4> QED BY <2>1, <2>2, <3>2, <3>5, <4>3, <4>4 DEF TypeOK
    <3> QED BY <3>4, <3>5
  <2> QED BY <1>1, <1>2, <2>2, <2>3, <2>4 DEF RpcInv, ConnectedStates
<1>3. CASE ~(rpc[e].status # "none" /\ call[e].op = "connect")
  BY <1>1, <1>3 DEF RpcInv
<1> QED BY <1>2, <1>3

\* Replacing one peer by another that is a legal successor of it.
LEMMA SetPeerInv ==
  ASSUME TypeOK, TypeOK', IInv,
         NEW e \in Engines, NEW f \in Engines, NEW q \in Peers,
         SetPeer(e, f, q), UNCHANGED published, e # f,
         \/ q = NoPeer /\ UNCHANGED created
         \/ /\ \/ CountPeerFor(e, f)
               \/ UNCHANGED created /\ peers[e][f].state # "NONE"
            /\ q.id = PeerFor(e, f).id
            /\ q.state # "NONE"
            /\ q.remoteId <= created[f][e]
            /\ q.remoteVersion <= q.imported
            /\ q.state = "CREATED" =>
                 q.remoteId = 0 /\ q.remoteVersion = -1 /\ q.imported = 0
            /\ q.remoteId # 0 /\ q.remoteId = peers[f][e].id =>
                 q.imported <= published[f]
            /\ peers[e][f].state \in ConnectedStates =>
                 /\ q.state \in ConnectedStates
                 /\ q.remoteId = peers[e][f].remoteId
  PROVE  /\ Grows /\ SnapshotHonest'
         /\ \A g, h \in Engines : PeerInv(g, h)'
<1>1. /\ peers'[e][f] = q
      /\ \A g, h \in Engines : <<g, h>> # <<e, f>> => peers'[g][h] = peers[g][h]
  BY DEF SetPeer, TypeOK
<1>2. \A g, h \in Engines : <<g, h>> # <<e, f>> => created'[g][h] = created[g][h]
  BY DEF CountPeerFor, TypeOK
<1>3. \A g, h \in Engines : PeerInv(g, h)
  BY DEF IInv
<1>4. CASE q = NoPeer /\ UNCHANGED created
  <2>1. /\ q.id = 0 /\ q.state = "NONE" /\ q.remoteId = 0
        /\ q.remoteVersion = -1 /\ q.imported = 0
    BY <1>4 DEF NoPeer
  <2>2. Grows
    <3>1. \A g, h \in Engines : /\ created[g][h] \in Nat /\ published[g] \in Nat
                                /\ peers[g][h].id \in Nat
      BY DEF TypeOK, Peers
    <3>2. ASSUME NEW g \in Engines, NEW h \in Engines
          PROVE  /\ created[g][h] <= created'[g][h]
                 /\ peers'[g][h].id \in {0, peers[g][h].id, created[g][h] + 1}
                 /\ peers'[g][h].id = peers[g][h].id
                    /\ peers[g][h].state \in ConnectedStates
                    => /\ peers'[g][h].state \in ConnectedStates
                       /\ peers'[g][h].remoteId = peers[g][h].remoteId
      <4>1. CASE g = e /\ h = f
        BY <1>1, <1>3, <1>4, <2>1, <3>1, <4>1 DEF PeerInv, ConnectedStates
      <4>2. CASE <<g, h>> # <<e, f>>
        BY <1>1, <1>4, <3>1, <4>2
      <4> QED BY <4>1, <4>2
    <3> QED BY <3>1, <3>2 DEF Grows
  <2>3. SnapshotHonest'
    BY <1>1, <2>1 DEF IInv, SnapshotHonest, Linked
  <2>4. PeerInv(e, f)'
    BY <1>1, <1>4, <2>1 DEF PeerInv, TypeOK
  <2>5. ASSUME NEW g \in Engines, NEW h \in Engines, <<g, h>> # <<e, f>>
        PROVE  PeerInv(g, h)'
    BY <1>1, <1>3, <1>4, <2>5 DEF PeerInv
  <2> QED BY <2>2, <2>3, <2>4, <2>5
<1>5. CASE ~(q = NoPeer /\ UNCHANGED created)
  <2>1. /\ q.id = PeerFor(e, f).id /\ q.state # "NONE"
        /\ q.remoteId <= created[f][e]
        /\ q.remoteVersion <= q.imported
        /\ q.state = "CREATED" =>
             q.remoteId = 0 /\ q.remoteVersion = -1 /\ q.imported = 0
        /\ q.remoteId # 0 /\ q.remoteId = peers[f][e].id =>
             q.imported <= published[f]
        /\ peers[e][f].state \in ConnectedStates =>
             q.state \in ConnectedStates /\ q.remoteId = peers[e][f].remoteId
    BY <1>5
  <2>2. created[e][f] \in Nat /\ created[f][e] \in Nat
    BY DEF TypeOK
  <2>3. \/ /\ peers[e][f].state = "NONE" /\ q.id = created[e][f] + 1
           /\ created'[e][f] = created[e][f] + 1
        \/ /\ peers[e][f].state # "NONE" /\ q.id = peers[e][f].id /\ q.id # 0
           /\ created'[e][f] = created[e][f] /\ q.id = created[e][f]
    <3>1. PeerInv(e, f)
      BY <1>3
    <3>2. \/ created'[e][f] = PeerFor(e, f).id
          \/ created'[e][f] = created[e][f] /\ peers[e][f].state # "NONE"
      <4>1. \/ CountPeerFor(e, f)
            \/ UNCHANGED created /\ peers[e][f].state # "NONE"
        BY <1>5
      <4>2. created \in [Engines -> [Engines -> Nat]]
        BY DEF TypeOK
      <4>3. CASE CountPeerFor(e, f)
        BY <4>2, <4>3 DEF CountPeerFor
      <4> QED BY <4>1, <4>3
    <3>3. CASE peers[e][f].state = "NONE"
      BY <2>1, <3>2, <3>3 DEF PeerFor, NewPeer
    <3>4. CASE peers[e][f].state # "NONE"
      BY <2>1, <2>2, <3>1, <3>2, <3>4 DEF PeerInv, PeerFor
    <3> QED BY <3>3, <3>4
  <2>4. q.id \in Nat /\ q.id # 0 /\ created'[e][f] = q.id
        /\ created[e][f] <= created'[e][f]
    BY <2>2, <2>3
  <2>5. Grows
    <3>1. \A g, h \in Engines : created[g][h] \in Nat /\ published[g] \in Nat
      BY DEF TypeOK
    <3>2. ASSUME NEW g \in Engines, NEW h \in Engines
          PROVE  /\ created[g][h] <= created'[g][h]
                 /\ peers'[g][h].id \in {0, peers[g][h].id, created[g][h] + 1}
                 /\ peers'[g][h].id = peers[g][h].id
                    /\ peers[g][h].state \in ConnectedStates
                    => /\ peers'[g][h].state \in ConnectedStates
                       /\ peers'[g][h].remoteId = peers[g][h].remoteId
      <4>1. CASE g = e /\ h = f
        BY <1>1, <2>1, <2>3, <2>4, <4>1
      <4>2. CASE <<g, h>> # <<e, f>>
        BY <1>1, <1>2, <3>1, <4>2
      <4> QED BY <4>1, <4>2
    <3> QED BY <3>1, <3>2 DEF Grows
  <2>6. SnapshotHonest'
    <3> SUFFICES ASSUME NEW g \in Engines, NEW h \in Engines, Linked(g, h)'
                 PROVE  /\ peers'[g][h].remoteVersion <= peers'[g][h].imported
                        /\ peers'[g][h].imported <= published'[h]
      BY DEF SnapshotHonest
    <3>1. CASE g = e /\ h = f
      BY <1>1, <2>1, <3>1 DEF Linked
    <3>2. CASE g = f /\ h = e
      <4>1. peers[f][e].remoteId = q.id /\ peers'[f][e] = peers[f][e]
        BY <1>1, <3>2 DEF Linked
      <4>2. peers[f][e].remoteId <= created[e][f]
        BY <1>3 DEF PeerInv
      <4>3. Linked(f, e)
        BY <2>2, <2>3, <2>4, <4>1, <4>2 DEF Linked
      <4> QED BY <3>2, <4>1, <4>3 DEF IInv, SnapshotHonest
    <3>3. CASE <<g, h>> # <<e, f>> /\ <<g, h>> # <<f, e>>
      BY <1>1, <3>3 DEF Linked, IInv, SnapshotHonest
    <3> QED BY <3>1, <3>2, <3>3
  <2>7. PeerInv(e, f)'
    BY <1>1, <1>2, <2>1, <2>4 DEF PeerInv
  <2>8. ASSUME NEW g \in Engines, NEW h \in Engines, <<g, h>> # <<e, f>>
        PROVE  PeerInv(g, h)'
    <3>1. created'[g][h] = created[g][h] /\ peers'[g][h] = peers[g][h]
      BY <1>1, <1>2, <2>8
    <3>2. created[h][g] <= created'[h][g]
      BY <2>5 DEF Grows
    <3>3. /\ created[h][g] \in Nat /\ created'[h][g] \in Nat
          /\ peers[g][h].remoteId \in Nat
      BY DEF TypeOK, Peers
    <3> QED BY <1>3, <3>1, <3>2, <3>3 DEF PeerInv
  <2> QED BY <2>5, <2>6, <2>7, <2>8
<1> QED BY <1>4, <1>5

\* A step that leaves peers, ids and metadata alone.
LEMMA SamePeers ==
  ASSUME TypeOK, IInv, UNCHANGED <<peers, published, created>>
  PROVE  /\ Grows /\ SnapshotHonest'
         /\ \A g, h \in Engines : PeerInv(g, h)'
<1>1. Grows
  BY DEF Grows, TypeOK, Peers
<1>2. SnapshotHonest'
  BY DEF IInv, SnapshotHonest, Linked
<1>3. \A g, h \in Engines : PeerInv(g, h)'
  BY DEF IInv, PeerInv
<1> QED BY <1>1, <1>2, <1>3

\* What holds of an RPC whose answer has just arrived.
LEMMA AnsweredRpc ==
  ASSUME TypeOK, TypeOK', IInv, Grows, NEW e \in Engines,
         call'[e] = call[e], rpc[e].status # "none",
         rpc'[e].req = rpc[e].req,
         \/ rpc'[e].status = "raised"
         \/ rpc'[e].status = "replied" /\
              (call[e].op = "connect" =>
                 /\ rpc[e].req.method = "Connect" =>
                      /\ rpc'[e].id # 0
                      /\ rpc'[e].id <= created'[call[e].to][e]
                 /\ rpc[e].req.method = "Ready" /\ Linked(e, call[e].to)' =>
                      rpc'[e].version <= published'[call[e].to])
  PROVE  RpcInv(e)'
<1> DEFINE f == call[e].to
<1>1. CallInv(e) /\ RpcInv(e)
  BY DEF IInv
<1>2. CASE call[e].op = "connect"
  <2>1. f \in Engines /\ call[e].id \in Nat /\ created[e][f] \in Nat
    BY <1>2, CallType DEF TypeOK
  <2>2. ASSUME rpc[e].req.method = "Ready", RequirePeer(e)'
        PROVE  peers'[e][f].state \in ConnectedStates
    <3>1. peers'[e][f].id = call[e].id
      BY <2>2 DEF RequirePeer
    <3>2. RequirePeer(e) /\ peers'[e][f].id = peers[e][f].id
      BY <1>1, <1>2, <2>1, <3>1 DEF CallInv, RequirePeer, Grows
    <3>3. peers[e][f].state \in ConnectedStates
      BY <1>1, <1>2, <2>2, <3>2 DEF RpcInv, ConnectedStates
    <3> QED BY <2>1, <3>2, <3>3 DEF Grows
  <2> QED BY <1>1, <1>2, <2>2 DEF RpcInv, ConnectedStates
<1>3. CASE call[e].op # "connect"
  BY <1>1, <1>3 DEF RpcInv
<1> QED BY <1>2, <1>3

\* The invariant after a step in which only the call of e moves.
LEMMA CallMoves ==
  ASSUME TypeOK, TypeOK', IInv, Grows, SnapshotHonest',
         \A g, h \in Engines : PeerInv(g, h)',
         NEW e \in Engines,
         \A d \in Engines : d # e => call'[d] = call[d] /\ rpc'[d] = rpc[d],
         CallInv(e)', RpcInv(e)',
         \A r \in late' : r \in late \/ (r.nr # 0 /\ RequestInv(r)'),
         rpc'[e].status = "sent" =>
           rpc'[e] = rpc[e] \/ RequestInv(rpc[e].req)'
  PROVE  Grows /\ IInv'
<1>1. \A d \in Engines : CallInv(d)' /\ RpcInv(d)'
  <2> SUFFICES ASSUME NEW d \in Engines, d # e PROVE CallInv(d)' /\ RpcInv(d)'
    OBVIOUS
  <2> QED BY GrowsCall, GrowsRpc DEF IInv
<1>2. \A r \in InFlight : RequestInv(r)'
  BY InFlightType, GrowsRequest DEF IInv
<1>3. \A r \in InFlight' : RequestInv(r)'
  <2> SUFFICES ASSUME NEW r \in InFlight' PROVE RequestInv(r)'
    OBVIOUS
  <2>1. CASE r \in late'
    BY <1>2, <2>1 DEF InFlight
  <2>2. CASE r \notin late'
    <3>1. PICK d \in Engines : rpc'[d].status = "sent" /\ r = rpc'[d].req
      BY <2>2 DEF InFlight
    <3>2. CASE rpc'[d] = rpc[d]
      BY <1>2, <3>1, <3>2 DEF InFlight
    <3>3. CASE d = e /\ RequestInv(rpc[e].req)'
      BY <3>1, <3>3
    <3> QED BY <3>1, <3>2, <3>3
  <2> QED BY <2>1, <2>2
<1> QED BY <1>1, <1>3 DEF IInv

\* The invariant after a step that ends the call of e.
LEMMA ReturnMoves ==
  ASSUME TypeOK, TypeOK', IInv, Grows, SnapshotHonest',
         \A g, h \in Engines : PeerInv(g, h)',
         NEW e \in Engines, Return(e),
         \A r \in late' : r \in late \/ (r.nr # 0 /\ RequestInv(r)')
  PROVE  Grows /\ IInv'
<1>1. /\ call'[e].op = "idle" /\ rpc'[e].status = "none"
      /\ \A d \in Engines : d # e => call'[d] = call[d] /\ rpc'[d] = rpc[d]
  BY DEF Return, TypeOK, NoCall, NoRpc
<1>2. CallInv(e)' /\ RpcInv(e)'
  BY <1>1 DEF CallInv, RpcInv
<1> QED BY <1>1, <1>2, CallMoves

\* The invariant after a handler has run.
LEMMA HandlerMoves ==
  ASSUME TypeOK, TypeOK', IInv, Grows, SnapshotHonest',
         \A g, h \in Engines : PeerInv(g, h)',
         NEW r \in InFlight, UNCHANGED call,
         \/ Raise(r)
         \/ \E m, n \in Nat :
              /\ Reply(r, m, n)
              /\ r.method = "Connect" => m # 0 /\ m <= created'[r.to][r.from]
              /\ r.method = "Ready" /\ Linked(r.from, r.to)' =>
                   n <= published'[r.to]
  PROVE  Grows /\ IInv'
<1>1. r \in Requests /\ r.from \in Engines /\ r.to \in Engines
  BY RequestType
<1>2. CASE r.nr # 0
  <2>1. late' = late \ {r} /\ rpc' = rpc
    BY <1>2 DEF Reply, Raise
  <2>2. InFlight' \subseteq InFlight
    BY <2>1 DEF InFlight
  <2>3. \A q \in InFlight' : RequestInv(q)'
    BY <2>2, InFlightType, GrowsRequest DEF IInv
  <2>4. \A d \in Engines : CallInv(d)' /\ RpcInv(d)'
    BY <2>1, GrowsCall, GrowsRpc DEF IInv
  <2> QED BY <2>1, <2>3, <2>4 DEF IInv
<1>3. CASE r.nr = 0
  <2> DEFINE d == r.from
  <2>1. rpc[d].status = "sent" /\ rpc[d].req = r
    <3>1. r \notin late
      BY <1>3 DEF IInv
    <3>2. PICK c \in Engines : rpc[c].status = "sent" /\ r = rpc[c].req
      BY <3>1 DEF InFlight
    <3>3. RpcInv(c)
      BY DEF IInv
    <3> QED BY <3>2, <3>3 DEF RpcInv
  <2>2. /\ late' = late
        /\ \A c \in Engines : c # d => rpc'[c] = rpc[c]
        /\ rpc'[d].req = r
        /\ \/ rpc'[d].status = "raised"
           \/ /\ rpc'[d].status = "replied"
              /\ r.method = "Connect" =>
                   rpc'[d].id # 0 /\ rpc'[d].id <= created'[r.to][d]
              /\ r.method = "Ready" /\ Linked(d, r.to)' =>
                   rpc'[d].version <= published'[r.to]
    <3>1. CASE Raise(r)
      BY <1>1, <1>3, <3>1 DEF Raise, TypeOK
    <3>2. CASE \E m, n \in Nat :
                 /\ Reply(r, m, n)
                 /\ r.method = "Connect" => m # 0 /\ m <= created'[r.to][r.from]
                 /\ r.method = "Ready" /\ Linked(r.from, r.to)' =>
                      n <= published'[r.to]
      <4>1. PICK m, n \in Nat :
              /\ Reply(r, m, n)
              /\ r.method = "Connect" => m # 0 /\ m <= created'[r.to][r.from]
              /\ r.method = "Ready" /\ Linked(r.from, r.to)' =>
                   n <= published'[r.to]
        BY <3>2
      <4>2. /\ late' = late
            /\ rpc' = [rpc EXCEPT ![d] = [status |-> "replied", req |-> r,
                                         id |-> m, version |-> n]]
        BY <1>3, <4>1 DEF Reply
      <4>3. /\ rpc'[d].status = "replied" /\ rpc'[d].req = r
            /\ rpc'[d].id = m /\ rpc'[d].version = n
            /\ \A c \in Engines : c # d => rpc'[c] = rpc[c]
        BY <1>1, <4>2 DEF TypeOK
      <4> QED BY <4>1, <4>2, <4>3
    <3> QED BY <3>1, <3>2
  <2>3. RpcInv(d)'
    <3>1. call[d].op = "connect" => r.to = call[d].to
      BY <1>1, <2>1 DEF IInv, RpcInv
    <3> QED BY <1>1, <2>1, <2>2, <3>1, AnsweredRpc
  <2>4. CallInv(d)'
    BY <1>1, GrowsCall DEF IInv
  <2> QED BY <1>1, <2>2, <2>3, <2>4, CallMoves
<1> QED BY <1>2, <1>3

\* The peer an engine looks up or creates has all a peer must have.
LEMMA PeerForInv ==
  ASSUME TypeOK, IInv, NEW e \in Engines, NEW f \in Engines
  PROVE  LET p == PeerFor(e, f)
         IN  /\ p \in Peers
             /\ p.state # "NONE" /\ p.id # 0 /\ p.remoteId <= created[f][e]
             /\ p.remoteVersion <= p.imported
             /\ p.state = "CREATED" =>
                  p.remoteId = 0 /\ p.remoteVersion = -1 /\ p.imported = 0
             /\ p.remoteId # 0 /\ p.remoteId = peers[f][e].id =>
                  p.imported <= published[f]
             /\ peers[e][f].state # "NONE" => p = peers[e][f]
<1>1. PeerFor(e, f) \in Peers /\ PeerInv(e, f)
  BY PeerForType DEF IInv
<1>2. CASE peers[e][f].state = "NONE"
  <2>1. /\ PeerFor(e, f).state = "CREATED" /\ PeerFor(e, f).id = created[e][f] + 1
        /\ PeerFor(e, f).remoteId = 0 /\ PeerFor(e, f).remoteVersion = -1
        /\ PeerFor(e, f).imported = 0
    BY <1>2 DEF PeerFor, NewPeer
  <2>2. created[e][f] \in Nat /\ created[f][e] \in Nat
    BY DEF TypeOK
  <2> QED BY <1>1, <1>2, <2>1, <2>2
<1>3. CASE peers[e][f].state # "NONE"
  <2>1. PeerFor(e, f) = peers[e][f]
    BY <1>3 DEF PeerFor
  <2>2. /\ peers[e][f].remoteId # 0 /\ peers[e][f].remoteId = peers[f][e].id =>
             peers[e][f].imported <= published[f]
    BY DEF IInv, SnapshotHonest, Linked
  <2> QED BY <1>1, <1>3, <2>1, <2>2 DEF PeerInv
<1> QED BY <1>2, <1>3

\* Importing a snapshot the other end has published.
LEMMA ImportInv ==
  ASSUME TypeOK, TypeOK', IInv, NEW e \in Engines, NEW f \in Engines,
         NEW n \in Nat, peers[e][f].state \in ConnectedStates,
         Linked(e, f) => n <= published[f],
         \/ SetPeer(e, f, ImportSnapshot(peers[e][f], n))
         \/ SetPeer(e, f, [ImportSnapshot(peers[e][f], n)
                             EXCEPT !.state = "READY"])
         \/ \E q \in ImportSnapshotRaises(peers[e][f], n) : SetPeer(e, f, q),
         UNCHANGED <<published, created>>
  PROVE  /\ Grows /\ SnapshotHonest'
         /\ \A g, h \in Engines : PeerInv(g, h)'
<1> DEFINE p == peers[e][f]
<1>1. /\ p \in Peers /\ p.state # "NONE" /\ p.id # 0 /\ e # f
      /\ p.state # "CREATED" /\ p.remoteId <= created[f][e]
      /\ p.remoteVersion <= p.imported
  BY PeerForType DEF IInv, PeerInv, ConnectedStates
<1>2. p.id = PeerFor(e, f).id
  BY <1>1 DEF PeerFor
<1>3. p.remoteId # 0 /\ p.remoteId = peers[f][e].id =>
        n <= published[f] /\ p.imported <= published[f]
  BY DEF IInv, SnapshotHonest, Linked
<1>4. PICK q \in Peers :
        /\ SetPeer(e, f, q)
        /\ q.id = p.id /\ q.remoteId = p.remoteId
        /\ q.state \in {p.state, "READY"}
        /\ q.remoteVersion <= q.imported
        /\ \A b \in Nat : n <= b /\ p.imported <= b => q.imported <= b
  <2>1. CASE SetPeer(e, f, ImportSnapshot(peers[e][f], n))
    <3> DEFINE s == ImportSnapshot(p, n)
    <3>1. /\ s \in Peers /\ s.id = p.id /\ s.remoteId = p.remoteId
          /\ s.state = p.state /\ s.remoteVersion <= s.imported
          /\ \A b \in Nat : n <= b /\ p.imported <= b => s.imported <= b
      BY <1>1, PeerHelpers, ImportKeeps
    <3>2. SetPeer(e, f, s)
      BY <2>1
    <3> HIDE DEF s
    <3> QED BY <3>1, <3>2
  <2>2. CASE SetPeer(e, f, [ImportSnapshot(peers[e][f], n)
                              EXCEPT !.state = "READY"])
    <3> DEFINE s == [ImportSnapshot(p, n) EXCEPT !.state = "READY"]
    <3>1. /\ s \in Peers /\ s.id = p.id /\ s.remoteId = p.remoteId
          /\ s.state = "READY" /\ s.remoteVersion <= s.imported
          /\ \A b \in Nat : n <= b /\ p.imported <= b => s.imported <= b
      BY <1>1, PeerHelpers, ImportKeeps
    <3>2. SetPeer(e, f, s)
      BY <2>2
    <3> HIDE DEF s
    <3> QED BY <3>1, <3>2
  <2>3. CASE \E q \in ImportSnapshotRaises(peers[e][f], n) : SetPeer(e, f, q)
    BY <1>1, <2>3, PeerHelpers, ImportKeeps
  <2> QED BY <2>1, <2>2, <2>3
<1>5. published[f] \in Nat
  BY DEF TypeOK
<1>6. /\ q.id = PeerFor(e, f).id /\ q.state # "NONE" /\ q.state # "CREATED"
      /\ q.remoteId <= created[f][e]
      /\ q.remoteId # 0 /\ q.remoteId = peers[f][e].id =>
           q.imported <= published[f]
      /\ q.state \in ConnectedStates /\ q.remoteId = peers[e][f].remoteId
  BY <1>1, <1>2, <1>3, <1>4, <1>5 DEF ConnectedStates
<1> QED BY <1>1, <1>4, <1>6, SetPeerInv

\* Connecting a peer to an id of the other engine, or failing to.
LEMMA ConnectInv ==
  ASSUME TypeOK, TypeOK', IInv, NEW e \in Engines, NEW f \in Engines, e # f,
         NEW n \in Nat, n <= created[f][e],
         NEW q \in ConnectNative(PeerFor(e, f), n)
                     \cup ConnectNativeRaises(PeerFor(e, f), n),
         SetPeer(e, f, q), UNCHANGED published,
         \/ CountPeerFor(e, f)
         \/ UNCHANGED created /\ peers[e][f].state # "NONE"
  PROVE  /\ Grows /\ SnapshotHonest'
         /\ \A g, h \in Engines : PeerInv(g, h)'
         /\ q \in Peers /\ q.id = PeerFor(e, f).id
<1> DEFINE p == PeerFor(e, f)
<1>1. /\ p \in Peers
      /\ p.state # "NONE" /\ p.id # 0 /\ p.remoteId <= created[f][e]
      /\ p.remoteVersion <= p.imported
      /\ p.state = "CREATED" =>
           p.remoteId = 0 /\ p.remoteVersion = -1 /\ p.imported = 0
      /\ p.remoteId # 0 /\ p.remoteId = peers[f][e].id =>
           p.imported <= published[f]
      /\ peers[e][f].state # "NONE" => p = peers[e][f]
  BY PeerForInv
<1>2. q \in Peers
  BY <1>1, PeerHelpers
<1>3. /\ q.id = p.id /\ q.remoteVersion = p.remoteVersion
      /\ q.imported = p.imported
      /\ \/ p.state = "CREATED" /\ q.state = "CONNECTED" /\ q.remoteId = n
         \/ q.state = p.state /\ q.remoteId = p.remoteId
  BY <1>1, ConnectNativeKeeps
<1>4. published[f] \in Nat
  BY DEF TypeOK
<1>5. /\ q.id = p.id /\ q.state # "NONE" /\ q.remoteId <= created[f][e]
      /\ q.remoteVersion <= q.imported
      /\ q.state = "CREATED" =>
           q.remoteId = 0 /\ q.remoteVersion = -1 /\ q.imported = 0
      /\ q.remoteId # 0 /\ q.remoteId = peers[f][e].id =>
           q.imported <= published[f]
  BY <1>1, <1>3, <1>4
<1>6. peers[e][f].state \in ConnectedStates =>
        q.state \in ConnectedStates /\ q.remoteId = peers[e][f].remoteId
  BY <1>1, <1>3 DEF ConnectedStates
<1> QED BY <1>2, <1>5, <1>6, SetPeerInv

\* Sending a request of its own keeps the invariant.
LEMMA SendMoves ==
  ASSUME TypeOK, TypeOK', IInv, Grows, SnapshotHonest',
         \A g, h \in Engines : PeerInv(g, h)',
         NEW e \in Engines, NEW f \in Engines, NEW m \in Methods,
         NEW i \in Nat, NEW v \in Nat, Send(e, m, f, i, v), UNCHANGED late,
         \A d \in Engines : d # e => call'[d] = call[d],
         CallInv(e)',
         e # f, i # 0, i <= created'[e][f],
         peers'[e][f].id = i =>
           /\ m # "Close"
           /\ m \in {"Ready", "Changed"} => v <= published'[e],
         call'[e].op = "connect" =>
           /\ f = call'[e].to /\ m \in {"Connect", "Ready"}
           /\ m = "Ready" => peers'[e][f].state \in ConnectedStates
  PROVE  Grows /\ IInv'
<1> DEFINE q == [method |-> m, from |-> e, to |-> f, id |-> i, version |-> v,
                 nr |-> 0]
<1>1. /\ rpc'[e].status = "sent" /\ rpc'[e].req = q
      /\ \A d \in Engines : d # e => rpc'[d] = rpc[d]
  BY DEF Send, TypeOK
<1>2. /\ q.method = m /\ q.from = e /\ q.to = f /\ q.id = i /\ q.version = v
      /\ q.nr = 0
  OBVIOUS
<1> HIDE DEF q
<1>3. RequestInv(rpc[e].req)'
  BY <1>1, <1>2 DEF RequestInv
<1>4. RpcInv(e)'
  BY <1>1, <1>2 DEF RpcInv, ConnectedStates
<1> QED BY <1>1, <1>3, <1>4, CallMoves

LEMMA InvNext == TypeOK /\ TypeOK' /\ IInv /\ [Next]_vars => Grows /\ IInv'
<1> SUFFICES ASSUME TypeOK, TypeOK', IInv, [Next]_vars PROVE Grows /\ IInv'
  OBVIOUS
<1>0. \A e \in Engines : CallInv(e) /\ RpcInv(e)
  BY DEF IInv
<1>1. ASSUME NEW e \in Engines, NEW f \in Engines, ConnectCall(e, f)
      PROVE  Grows /\ IInv'
  <2> DEFINE p == PeerFor(e, f)
  <2>1. /\ p \in Peers /\ p.id \in Nat
        /\ p.state # "NONE" /\ p.id # 0 /\ p.remoteId <= created[f][e]
        /\ p.remoteVersion <= p.imported
        /\ p.state = "CREATED" =>
             p.remoteId = 0 /\ p.remoteVersion = -1 /\ p.imported = 0
        /\ p.remoteId # 0 /\ p.remoteId = peers[f][e].id =>
             p.imported <= published[f]
        /\ peers[e][f].state # "NONE" => p = peers[e][f]
    BY PeerForInv DEF Peers
  <2>2. /\ SetPeer(e, f, p) /\ CountPeerFor(e, f) /\ e # f
        /\ UNCHANGED <<published, late>>
        /\ Send(e, "Connect", f, p.id, 0)
        /\ call' = [call EXCEPT ![e] =
                      [op |-> "connect", to |-> f, id |-> p.id]]
    BY <1>1 DEF ConnectCall
  <2>3. peers[e][f].state \in ConnectedStates =>
          p.state \in ConnectedStates /\ p.remoteId = peers[e][f].remoteId
    BY <2>1 DEF ConnectedStates
  <2>4. Grows /\ SnapshotHonest' /\ \A g, h \in Engines : PeerInv(g, h)'
    BY <2>1, <2>2, <2>3, SetPeerInv
  <2>5. /\ call'[e].op = "connect" /\ call'[e].to = f /\ call'[e].id = p.id
        /\ \A d \in Engines : d # e => call'[d] = call[d]
        /\ created'[e][f] = p.id
    BY <2>2 DEF TypeOK, CountPeerFor
  <2>6. CallInv(e)'
    BY <2>1, <2>2, <2>5 DEF CallInv
  <2> HIDE DEF p
  <2> QED BY <2>1, <2>2, <2>4, <2>5, <2>6, SendMoves DEF Methods
<1>2. ASSUME NEW e \in Engines, ConnectReply(e) PROVE Grows /\ IInv'
  <2> DEFINE f == call[e].to
             p == peers[e][f]
             n == rpc[e].id
  <2>1. /\ call[e].op = "connect" /\ f \in Engines /\ call[e].id \in Nat
        /\ rpc[e].status = "replied" /\ rpc[e].req.method = "Connect"
        /\ UNCHANGED <<published, created, late>>
    BY <1>2, CallType DEF ConnectReply
  <2>2. /\ f # e /\ call[e].id # 0
        /\ n # 0 /\ n <= created[f][e] /\ n \in Nat
    BY <1>0, <2>1, RpcType DEF CallInv, RpcInv
  <2>3. ASSUME RequirePeer(e)
        PROVE  p.state # "NONE" /\ PeerFor(e, f) = p /\ p.id = call[e].id
    BY <2>1, <2>2, <2>3 DEF IInv, PeerInv, RequirePeer, PeerFor
  <2>4. CASE /\ RequirePeer(e)
             /\ \E q \in ConnectNative(p, n) :
                  SetPeer(e, f, q) /\ Send(e, "Ready", f, q.id, published[e])
             /\ UNCHANGED call
    <3>1. PICK q \in ConnectNative(p, n) :
            SetPeer(e, f, q) /\ Send(e, "Ready", f, q.id, published[e])
      BY <2>4
    <3>2. /\ Grows /\ SnapshotHonest' /\ \A g, h \in Engines : PeerInv(g, h)'
          /\ q \in Peers /\ q.id = p.id
      BY <2>1, <2>2, <2>3, <2>4, <3>1, ConnectInv
    <3>3. peers'[e][f] = q /\ q.state \in ConnectedStates
      <4>1. q.state = "CONNECTED" \/ (q.state = p.state /\ p.state # "CREATED")
        BY <2>1, <3>1, PeerForType, ConnectNativeKeeps, <2>2
      <4>2. p.state \in PeerStates
        BY <2>1, Numbers
      <4> QED BY <2>1, <2>3, <2>4, <3>1, <4>1, <4>2
              DEF SetPeer, TypeOK, ConnectedStates, PeerStates
    <3>4. CallInv(e)'
      BY <2>4, <3>2, <1>0, GrowsCall
    <3>5. /\ q.id \in Nat /\ q.id # 0 /\ q.id <= created'[e][f]
          /\ published[e] \in Nat /\ published'[e] = published[e]
          /\ published[e] <= published'[e]
      BY <1>0, <2>1, <2>2, <2>3, <2>4, <3>2 DEF Peers, TypeOK, CallInv
    <3> HIDE DEF p, f, n
    <3> QED BY <2>1, <2>2, <2>4, <3>1, <3>2, <3>3, <3>4, <3>5, SendMoves
            DEF Methods, f
  <2>5. CASE /\ RequirePeer(e)
             /\ \E q \in ConnectNativeRaises(p, n) : SetPeer(e, f, q)
             /\ Return(e)
    <3>1. PICK q \in ConnectNativeRaises(p, n) : SetPeer(e, f, q)
      BY <2>5
    <3>2. Grows /\ SnapshotHonest' /\ \A g, h \in Engines : PeerInv(g, h)'
      BY <2>1, <2>2, <2>3, <2>5, <3>1, ConnectInv
    <3> QED BY <2>1, <2>5, <3>2, ReturnMoves
  <2>6. CASE UNCHANGED peers /\ Return(e)
    <3>1. Grows /\ SnapshotHonest' /\ \A g, h \in Engines : PeerInv(g, h)'
      BY <2>1, <2>6, SamePeers
    <3> QED BY <2>1, <2>6, <3>1, ReturnMoves
  <2> QED BY <1>2, <2>4, <2>5, <2>6 DEF ConnectReply
<1>3. ASSUME NEW e \in Engines, ReadyReply(e) PROVE Grows /\ IInv'
  <2> DEFINE f == call[e].to
             n == rpc[e].version
  <2>1. /\ call[e].op = "connect" /\ f \in Engines /\ n \in Nat
        /\ rpc[e].status = "replied" /\ rpc[e].req.method = "Ready"
        /\ UNCHANGED <<published, created, late>> /\ Return(e)
    BY <1>3, CallType, RpcType DEF ReadyReply
  <2>2. Grows /\ SnapshotHonest' /\ \A g, h \in Engines : PeerInv(g, h)'
    <3>1. CASE UNCHANGED peers
      BY <2>1, <3>1, SamePeers
    <3>2. CASE /\ RequirePeer(e)
               /\ \/ SetPeer(e, f, [ImportSnapshot(peers[e][f], n)
                                      EXCEPT !.state = "READY"])
                  \/ \E q \in ImportSnapshotRaises(peers[e][f], n) :
                       SetPeer(e, f, q)
      <4>1. /\ peers[e][f].state \in ConnectedStates
            /\ Linked(e, f) => n <= published[f]
        BY <1>0, <2>1, <3>2 DEF RpcInv, ConnectedStates
      <4> HIDE DEF f, n
      <4> QED BY <2>1, <3>2, <4>1, ImportInv
    <3> QED BY <1>3, <3>1, <3>2 DEF ReadyReply
  <2> QED BY <2>1, <2>2, ReturnMoves
<1>4. ASSUME NEW e \in Engines,
             RegisterCall(e) \/ ChangedReply(e) \/ CloseCall(e) \/ Restart(e)
      PROVE  Grows /\ IInv'
  <2>1. UNCHANGED <<peers, published, created, late>>
    BY <1>4 DEF RegisterCall, ChangedReply, CloseCall, Restart
  <2>2. Grows /\ SnapshotHonest' /\ \A g, h \in Engines : PeerInv(g, h)'
    BY <2>1, SamePeers
  <2>3. /\ \A d \in Engines : d # e => call'[d] = call[d] /\ rpc'[d] = rpc[d]
        /\ \/ rpc'[e] = rpc[e]
           \/ rpc'[e].status = "none"
        /\ \/ call'[e] = call[e]
           \/ call'[e].op \in {"register", "close"}
    BY <1>4 DEF RegisterCall, ChangedReply, CloseCall, Restart, TypeOK, NoRpc
  <2>4. CallInv(e)'
    BY <1>0, <2>2, <2>3, GrowsCall DEF CallInv
  <2>5. RpcInv(e)'
    <3>1. CASE rpc'[e] = rpc[e] /\ call'[e] = call[e]
      BY <2>2, <3>1, GrowsRpc
    <3>2. CASE rpc'[e].status = "none"
      BY <3>2 DEF RpcInv
    <3>3. CASE rpc'[e] = rpc[e] /\ call'[e].op \in {"register", "close"}
      BY <1>0, <3>3 DEF RpcInv
    <3> QED BY <2>3, <3>1, <3>2, <3>3
  <2>6. rpc'[e].status = "sent" => rpc'[e] = rpc[e]
    BY <2>3
  <2> QED BY <2>1, <2>2, <2>3, <2>4, <2>5, <2>6, CallMoves
<1>5. ASSUME NEW e \in Engines, Publish(e) PROVE Grows /\ IInv'
  <2> DEFINE s == {<<f, peers[e][f].id>> :
                     f \in {g \in Engines : peers[e][g].state = "READY"}}
  <2>1. /\ UNCHANGED <<peers, created, rpc, late>>
        /\ published'[e] = published[e] + 1
        /\ \A d \in Engines : d # e => published'[d] = published[d]
        /\ call' = [call EXCEPT ![e] =
                      [op |-> "publish", version |-> published[e] + 1,
                       todo |-> s]]
    BY <1>5 DEF Publish, TypeOK
  <2>2. \A d \in Engines : published[d] \in Nat /\ published[d] <= published'[d]
    BY <2>1 DEF TypeOK
  <2>3. Grows
    BY <2>1, <2>2 DEF Grows, TypeOK, Peers
  <2>4. SnapshotHonest'
    <3>1. \A g, h \in Engines :
            peers[g][h].imported \in Nat /\ published'[h] \in Nat
      BY DEF TypeOK, Peers
    <3> QED BY <2>1, <2>2, <3>1 DEF IInv, SnapshotHonest, Linked
  <2>5. \A g, h \in Engines : PeerInv(g, h)'
    BY <2>1 DEF IInv, PeerInv
  <2>6. /\ call'[e].op = "publish" /\ call'[e].version = published[e] + 1
        /\ call'[e].todo = s
        /\ \A d \in Engines : d # e => call'[d] = call[d]
    BY <2>1 DEF TypeOK
  <2>7. CallInv(e)'
    <3>1. \A t \in s : t[1] # e /\ t[2] # 0 /\ t[2] <= created'[e][t[1]]
      <4> SUFFICES ASSUME NEW f \in Engines, peers[e][f].state = "READY"
                   PROVE  /\ f # e /\ peers[e][f].id # 0
                          /\ peers[e][f].id <= created'[e][f]
        OBVIOUS
      <4>1. PeerInv(e, f) /\ created[e][f] \in Nat
        BY DEF IInv, TypeOK
      <4> QED BY <2>1, <4>1 DEF PeerInv
    <3> HIDE DEF s
    <3>2. call'[e].version <= published'[e]
      BY <2>1, <2>2, <2>6
    <3> QED BY <2>6, <3>1, <3>2 DEF CallInv
  <2>8. RpcInv(e)'
    BY <1>0, <2>1, <2>6 DEF RpcInv
  <2> HIDE DEF s
  <2> QED BY <2>1, <2>3, <2>4, <2>5, <2>6, <2>7, <2>8, CallMoves
<1>6. ASSUME NEW e \in Engines, PublishNext(e) PROVE Grows /\ IInv'
  <2>1. PICK t \in call[e].todo :
          /\ call' = [call EXCEPT ![e] =
                        [op |-> "publish", version |-> call[e].version,
                         todo |-> call[e].todo \ {t}]]
          /\ Send(e, "Changed", t[1], t[2], call[e].version)
    BY <1>6 DEF PublishNext
  <2>2. /\ call[e].op = "publish" /\ UNCHANGED <<peers, published, created, late>>
    BY <1>6 DEF PublishNext
  <2>3. /\ t[1] \in Engines /\ t[2] \in Nat /\ call[e].version \in Nat
        /\ call[e].version <= published[e]
        /\ \A u \in call[e].todo : u[1] # e /\ u[2] # 0 /\ u[2] <= created[e][u[1]]
    BY <1>0, <2>1, <2>2, CallType DEF CallInv
  <2>4. Grows /\ SnapshotHonest' /\ \A g, h \in Engines : PeerInv(g, h)'
    BY <2>2, SamePeers
  <2>5. /\ call'[e].op = "publish" /\ call'[e].version = call[e].version
        /\ call'[e].todo \subseteq call[e].todo
        /\ \A d \in Engines : d # e => call'[d] = call[d]
    BY <2>1 DEF TypeOK
  <2>6. CallInv(e)'
    BY <2>2, <2>3, <2>5 DEF CallInv
  <2> QED BY <2>1, <2>2, <2>3, <2>4, <2>5, <2>6, SendMoves DEF Methods
<1>7. ASSUME NEW e \in Engines,
             PublishReturn(e) \/ CloseReply(e) \/ CallRaises(e)
      PROVE  Grows /\ IInv'
  <2>1. UNCHANGED <<peers, published, created, late>> /\ Return(e)
    BY <1>7 DEF PublishReturn, CloseReply, CallRaises
  <2>2. Grows /\ SnapshotHonest' /\ \A g, h \in Engines : PeerInv(g, h)'
    BY <2>1, SamePeers
  <2> QED BY <2>1, <2>2, ReturnMoves
<1>8. ASSUME NEW e \in Engines, Timeout(e) PROVE Grows /\ IInv'
  <2>1. UNCHANGED <<peers, published, created>> /\ Return(e)
    BY <1>8 DEF Timeout
  <2>2. Grows /\ SnapshotHonest' /\ \A g, h \in Engines : PeerInv(g, h)'
    BY <2>1, SamePeers
  <2>3. ASSUME NEW r \in late', r \notin late
        PROVE  r.nr # 0 /\ RequestInv(r)'
    <3>1. rpc[e].status = "sent" /\ r = Abandoned(rpc[e].req, timeouts + 1)
      BY <1>8, <2>3 DEF Timeout
    <3>2. /\ rpc[e].req \in Requests /\ rpc[e].req \in InFlight
          /\ timeouts + 1 \in Nat /\ timeouts + 1 # 0
      BY <3>1, RpcType DEF InFlight, TypeOK
    <3>3. /\ r \in Requests /\ r.nr = timeouts + 1
          /\ r.method = rpc[e].req.method
          /\ r.from = rpc[e].req.from /\ r.to = rpc[e].req.to
          /\ r.id = rpc[e].req.id /\ r.version = rpc[e].req.version
      BY <3>1, <3>2, AbandonedType
    <3>4. RequestInv(rpc[e].req)
      BY <3>2 DEF IInv
    <3>5. RequestInv(r)
      BY <3>3, <3>4 DEF RequestInv
    <3>6. RequestInv(r)'
      BY <2>2, <3>3, <3>5, GrowsRequest
    <3> QED BY <3>2, <3>3, <3>6
  <2> QED BY <2>1, <2>2, <2>3, ReturnMoves
<1>9. ASSUME NEW e \in Engines, NEW f \in Engines, DisconnectCall(e, f)
      PROVE  Grows /\ IInv'
  <2>1. /\ SetPeer(e, f, NoPeer) /\ UNCHANGED <<published, created, late>>
        /\ Send(e, "Close", f, peers[e][f].id, 0)
        /\ call'[e].op = "disconnect"
        /\ \A d \in Engines : d # e => call'[d] = call[d]
        /\ peers[e][f].state = "READY"
    BY <1>9 DEF DisconnectCall, TypeOK
  <2>2. /\ peers[e][f].id \in Nat /\ peers[e][f].id # 0 /\ e # f
        /\ peers[e][f].id <= created[e][f]
    BY <2>1 DEF IInv, PeerInv, TypeOK, Peers
  <2>3. NoPeer \in Peers
    BY DEF NoPeer, Peers, PeerStates
  <2>4. Grows /\ SnapshotHonest' /\ \A g, h \in Engines : PeerInv(g, h)'
    BY <2>1, <2>2, <2>3, SetPeerInv
  <2>5. CallInv(e)' /\ peers'[e][f].id = 0
    BY <2>1 DEF CallInv, SetPeer, TypeOK, NoPeer
  <2> QED BY <2>1, <2>2, <2>4, <2>5, SendMoves DEF Methods
<1>10. ASSUME NEW e \in Engines, CloseReturn(e) PROVE Grows /\ IInv'
  <2>1. /\ call[e].op = "close" /\ call'[e].op = "idle"
        /\ \A f \in Engines : peers'[e][f] = NoPeer
        /\ \A d \in Engines : d # e => /\ peers'[d] = peers[d]
                                       /\ published'[d] = published[d]
                                       /\ call'[d] = call[d]
        /\ published'[e] = 0 /\ UNCHANGED created
        /\ late' = {r \in late : r.to # e}
        /\ \A d \in Engines :
             rpc'[d] = IF rpc[d].status = "sent" /\ rpc[d].req.to = e
                       THEN [status |-> "raised", req |-> rpc[d].req]
                       ELSE rpc[d]
    BY <1>10 DEF CloseReturn, TypeOK, NoCall
  <2>2. /\ NoPeer.state = "NONE" /\ NoPeer.id = 0 /\ NoPeer.remoteId = 0
        /\ NoPeer.remoteVersion = -1 /\ NoPeer.imported = 0
    BY DEF NoPeer
  <2>8. \A d \in Engines :
          \/ rpc'[d] = rpc[d]
          \/ /\ rpc[d].status = "sent" /\ rpc'[d].status = "raised"
             /\ rpc'[d].req = rpc[d].req
    <3> SUFFICES ASSUME NEW d \in Engines
                 PROVE  \/ rpc'[d] = rpc[d]
                        \/ /\ rpc[d].status = "sent" /\ rpc'[d].status = "raised"
                           /\ rpc'[d].req = rpc[d].req
      OBVIOUS
    <3>1. CASE rpc[d].status = "sent" /\ rpc[d].req.to = e
      <4>1. rpc'[d] = [status |-> "raised", req |-> rpc[d].req]
        BY <2>1, <3>1
      <4> QED BY <3>1, <4>1
    <3>2. CASE ~(rpc[d].status = "sent" /\ rpc[d].req.to = e)
      BY <2>1, <3>2
    <3> QED BY <3>1, <3>2
  <2>3. Grows
    <3>1. \A g, h \in Engines : /\ created[g][h] \in Nat /\ published[g] \in Nat
                                /\ peers[g][h].id \in Nat
      BY DEF TypeOK, Peers
    <3>2. ASSUME NEW g \in Engines, NEW h \in Engines
          PROVE  /\ created[g][h] <= created'[g][h]
                 /\ peers'[g][h].id \in {0, peers[g][h].id, created[g][h] + 1}
                 /\ peers'[g][h].id = peers[g][h].id
                    /\ peers[g][h].state \in ConnectedStates
                    => /\ peers'[g][h].state \in ConnectedStates
                       /\ peers'[g][h].remoteId = peers[g][h].remoteId
      <4>1. PeerInv(g, h)
        BY DEF IInv
      <4> QED BY <2>1, <2>2, <3>1, <4>1 DEF PeerInv, ConnectedStates
    <3>3. ASSUME NEW g \in Engines
          PROVE  \/ published[g] <= published'[g]
                 \/ call[g].op = "close" /\ \A h \in Engines : peers'[g][h].id = 0
      BY <2>1, <2>2, <3>1
    <3> QED BY <3>2, <3>3 DEF Grows
  <2>4. SnapshotHonest'
    <3> SUFFICES ASSUME NEW g \in Engines, NEW h \in Engines, Linked(g, h)'
                 PROVE  /\ peers'[g][h].remoteVersion <= peers'[g][h].imported
                        /\ peers'[g][h].imported <= published'[h]
      BY DEF SnapshotHonest
    <3>1. g # e /\ h # e
      BY <2>1, <2>2 DEF Linked
    <3> QED BY <2>1, <3>1 DEF Linked, IInv, SnapshotHonest
  <2>5. \A g, h \in Engines : PeerInv(g, h)'
    <3> SUFFICES ASSUME NEW g \in Engines, NEW h \in Engines
                 PROVE  PeerInv(g, h)'
      OBVIOUS
    <3>1. PeerInv(g, h) /\ created[g][h] \in Nat /\ created[h][g] \in Nat
      BY DEF IInv, TypeOK
    <3> QED BY <2>1, <2>2, <3>1 DEF PeerInv
  <2>6. \A d \in Engines : CallInv(d)' /\ RpcInv(d)'
    <3> SUFFICES ASSUME NEW d \in Engines PROVE CallInv(d)' /\ RpcInv(d)'
      OBVIOUS
    <3>1. CASE d = e
      <4>1. \/ rpc'[e] = rpc[e]
            \/ rpc'[e].req = rpc[e].req /\ rpc[e].status = "sent"
        BY <2>8
      <4>2. rpc[e].status # "none" => rpc[e].req.from = e /\ rpc[e].req.nr = 0
        BY <1>0 DEF RpcInv
      <4> QED BY <2>1, <3>1, <4>1, <4>2 DEF CallInv, RpcInv
    <3>2. CASE d # e /\ rpc'[d] = rpc[d]
      BY <1>0, <2>1, <2>3, <3>2, GrowsCall, GrowsRpc
    <3>3. CASE /\ d # e /\ rpc[d].status = "sent"
               /\ rpc'[d].status = "raised" /\ rpc'[d].req = rpc[d].req
      BY <1>0, <2>1, <2>3, <3>3, GrowsCall, AnsweredRpc
    <3> QED BY <2>8, <3>1, <3>2, <3>3
  <2>7. \A r \in InFlight' : RequestInv(r)'
    <3>1. InFlight' \subseteq InFlight
      BY <2>1, <2>8 DEF InFlight
    <3> QED BY <2>3, <3>1, InFlightType, GrowsRequest DEF IInv
  <2> QED BY <2>1, <2>3, <2>4, <2>5, <2>6, <2>7 DEF IInv
<1>11. ASSUME NEW r \in InFlight, Handle(r) PROVE Grows /\ IInv'
  <2> DEFINE e == r.to
             f == r.from
  <2>1. /\ e \in Engines /\ f \in Engines /\ r.id \in Nat /\ r.version \in Nat
        /\ e # f /\ r.id # 0 /\ r.id <= created[f][e]
        /\ (peers[f][e].id = r.id /\ r.method \in {"Ready", "Changed"})
             => r.version <= published[f]
    BY RequestType DEF IInv, RequestInv
  <2>2. ASSUME FindConnection(r)
        PROVE  /\ peers[e][f].state \in ConnectedStates
               /\ (r.method \in {"Ready", "Changed"} /\ Linked(e, f))
                    => r.version <= published[f]
    <3>1. PeerInv(e, f) /\ peers[e][f].state \in PeerStates
      BY <2>1, Numbers DEF IInv
    <3> QED BY <2>1, <2>2, <3>1
            DEF FindConnection, PeerInv, Linked, ConnectedStates, PeerStates
  <2>3. CASE RefuseClosed(r)
    <3>1. /\ UNCHANGED <<peers, published, created>> /\ UNCHANGED call
          /\ Raise(r)
      BY <2>3 DEF RefuseClosed
    <3> QED BY <3>1, SamePeers, HandlerMoves
  <2>4. CASE Connect(r)
    <3>1. UNCHANGED published /\ UNCHANGED call
      BY <2>4 DEF Connect
    <3>2. CASE \E q \in ConnectNative(PeerFor(e, f), r.id) :
                 CountPeerFor(e, f) /\ SetPeer(e, f, q) /\ Reply(r, q.id, 0)
      <4>1. PICK q \in ConnectNative(PeerFor(e, f), r.id) :
              CountPeerFor(e, f) /\ SetPeer(e, f, q) /\ Reply(r, q.id, 0)
        BY <3>2
      <4>2. /\ Grows /\ SnapshotHonest' /\ \A g, h \in Engines : PeerInv(g, h)'
            /\ q \in Peers /\ q.id = PeerFor(e, f).id
        BY <2>1, <3>1, <4>1, ConnectInv
      <4>3. q.id \in Nat /\ q.id # 0 /\ q.id <= created'[e][f]
        <5>1. q.id # 0 /\ q.id \in Nat
          BY <2>1, <4>2, PeerForInv DEF Peers
        <5>2. created'[e][f] = q.id
          BY <2>1, <4>1, <4>2 DEF CountPeerFor, TypeOK
        <5> QED BY <5>1, <5>2
      <4>4. r.method = "Connect"
        BY <2>4 DEF Connect
      <4> QED BY <3>1, <4>1, <4>2, <4>3, <4>4, HandlerMoves
    <3>3. CASE /\ Raise(r)
               /\ \E q \in ConnectNativeRaises(PeerFor(e, f), r.id) :
                    CountPeerFor(e, f) /\ SetPeer(e, f, q)
      <4>1. PICK q \in ConnectNativeRaises(PeerFor(e, f), r.id) :
              CountPeerFor(e, f) /\ SetPeer(e, f, q)
        BY <3>3
      <4>2. Grows /\ SnapshotHonest' /\ \A g, h \in Engines : PeerInv(g, h)'
        BY <2>1, <3>1, <4>1, ConnectInv
      <4> QED BY <3>1, <3>3, <4>2, HandlerMoves
    <3>4. CASE UNCHANGED <<peers, created>> /\ Raise(r)
      BY <3>1, <3>4, SamePeers, HandlerMoves
    <3> QED BY <2>4, <3>2, <3>3, <3>4 DEF Connect
  <2>5. CASE Ready(r) \/ Changed(r)
    <3>1. /\ UNCHANGED <<published, created>> /\ UNCHANGED call
          /\ r.method \in {"Ready", "Changed"}
      BY <2>5 DEF Ready, Changed
    <3>2. Raise(r) \/ \E n \in Nat : /\ Reply(r, 0, n)
                                     /\ r.method = "Ready" => n <= published'[e]
      <4>1. published[e] \in Nat /\ published'[e] = published[e]
        BY <2>1, <3>1 DEF TypeOK
      <4> QED BY <2>5, <4>1 DEF Ready, Changed
    <3>3. CASE UNCHANGED peers
      <4>1. Grows /\ SnapshotHonest' /\ \A g, h \in Engines : PeerInv(g, h)'
        BY <3>1, <3>3, SamePeers
      <4> QED BY <3>1, <3>2, <4>1, HandlerMoves
    <3>4. CASE /\ FindConnection(r)
               /\ \/ SetPeer(e, f, ImportSnapshot(peers[e][f], r.version))
                  \/ SetPeer(e, f, [ImportSnapshot(peers[e][f], r.version)
                                      EXCEPT !.state = "READY"])
                  \/ \E q \in ImportSnapshotRaises(peers[e][f], r.version) :
                       SetPeer(e, f, q)
      <4>1. Grows /\ SnapshotHonest' /\ \A g, h \in Engines : PeerInv(g, h)'
        <5>1. /\ peers[e][f].state \in ConnectedStates
              /\ Linked(e, f) => r.version <= published[f]
          BY <2>2, <3>1, <3>4
        <5> HIDE DEF e, f
        <5> QED BY <2>1, <3>1, <3>4, <5>1, ImportInv
      <4> QED BY <3>1, <3>2, <4>1, HandlerMoves
    <3> QED BY <2>5, <3>3, <3>4 DEF Ready, Changed
  <2>6. CASE Close(r)
    <3>1. /\ UNCHANGED <<published, created>> /\ UNCHANGED call
          /\ Raise(r) \/ Reply(r, 0, 0)
          /\ r.method = "Close"
          /\ SetPeer(e, f, NoPeer) \/ UNCHANGED peers
      BY <2>6 DEF Close
    <3>2. NoPeer \in Peers
      BY DEF NoPeer, Peers, PeerStates
    <3>3. Grows /\ SnapshotHonest' /\ \A g, h \in Engines : PeerInv(g, h)'
      BY <2>1, <3>1, <3>2, SetPeerInv, SamePeers
    <3> QED BY <3>1, <3>3, HandlerMoves
  <2> QED BY <1>11, <2>3, <2>4, <2>5, <2>6 DEF Handle
<1>12. CASE UNCHANGED vars
  <2>1. /\ UNCHANGED <<peers, published, created>>
        /\ UNCHANGED <<call, rpc, late>>
    BY <1>12 DEF vars
  <2>2. Grows /\ SnapshotHonest' /\ \A g, h \in Engines : PeerInv(g, h)'
    BY <2>1, SamePeers
  <2>3. \A d \in Engines : CallInv(d)' /\ RpcInv(d)'
    BY <1>0, <2>1, <2>2, GrowsCall, GrowsRpc
  <2>4. \A r \in InFlight' : RequestInv(r)'
    <3>1. InFlight' = InFlight
      BY <2>1 DEF InFlight
    <3> QED BY <2>2, <3>1, InFlightType, GrowsRequest DEF IInv
  <2> QED BY <2>1, <2>2, <2>3, <2>4 DEF IInv
<1> QED
  BY <1>1, <1>2, <1>3, <1>4, <1>5, <1>6, <1>7, <1>8, <1>9, <1>10, <1>11, <1>12
  DEF Next, Application, Proceed

\* Nothing is paired, asked for or called at first.
LEMMA InvInit == Init => IInv
<1> SUFFICES ASSUME Init PROVE IInv
  OBVIOUS
<1>1. /\ NoPeer.state = "NONE" /\ NoPeer.id = 0 /\ NoPeer.remoteId = 0
      /\ NoPeer.remoteVersion = -1 /\ NoPeer.imported = 0
  BY DEF NoPeer
<1>2. /\ \A e, f \in Engines : peers[e][f] = NoPeer /\ created[e][f] = 0
      /\ \A e \in Engines : /\ published[e] = 0
                            /\ rpc[e].status = "none"
                            /\ call[e].op = "idle"
      /\ late = {}
  BY DEF Init, NoRpc, NoCall
<1>3. SnapshotHonest
  BY <1>1, <1>2 DEF SnapshotHonest, Linked
<1>4. \A e, f \in Engines : PeerInv(e, f)
  BY <1>1, <1>2 DEF PeerInv
<1>5. InFlight = {}
  BY <1>2 DEF InFlight
<1>6. \A e \in Engines : CallInv(e) /\ RpcInv(e)
  BY <1>2 DEF CallInv, RpcInv
<1> QED BY <1>2, <1>3, <1>4, <1>5, <1>6 DEF IInv

(***************************************************************************)
(* The inductive invariant holds of every execution, for any number of     *)
(* engines, connections, memories, timeouts and restarts: every request,   *)
(* answer and call under way speaks of a connection of its own engine      *)
(* (control.py:82-83, 91-99, 203).                                         *)
(***************************************************************************)
THEOREM Invariance == Spec => []IInv
<1>1. Init => IInv
  BY InvInit
<1>2. TypeOK /\ TypeOK' /\ IInv /\ [Next]_vars => IInv'
  BY InvNext
<1>3. Spec => []TypeOK
  BY TypeCorrect
<1> QED BY <1>1, <1>2, <1>3, PTL DEF Spec

(***************************************************************************)
(* No engine ever uses metadata the other end of the connection has not    *)
(* published (control.py:112-117, 186, 195).                               *)
(***************************************************************************)
THEOREM SnapshotsHonest == Spec => []SnapshotHonest
<1>1. IInv => SnapshotHonest
  BY DEF IInv
<1> QED BY <1>1, Invariance, PTL

-----------------------------------------------------------------------------
(* What a step does to a peer *)

\* What PairingIsFinal and ReleasesDeadOnly say of one step.
PeersKept ==
  \A g, h \in Engines :
    /\ KeepsPairing(peers[g][h], peers'[g][h])
    /\ Released(g, h) => ~Linked(g, h)

\* A step that leaves the peers alone.
LEMMA SamePeersKept == ASSUME TypeOK, UNCHANGED peers PROVE PeersKept
BY Numbers DEF PeersKept, KeepsPairing, Released, Peers

\* A step in which one peer is created or goes on.
LEMMA OnePeerKept ==
  ASSUME TypeOK, IInv, NEW e \in Engines, NEW f \in Engines, NEW q,
         SetPeer(e, f, q), q.id = PeerFor(e, f).id,
         KeepsPairing(PeerFor(e, f), q)
  PROVE  PeersKept
<1> SUFFICES ASSUME NEW g \in Engines, NEW h \in Engines
             PROVE  /\ KeepsPairing(peers[g][h], peers'[g][h])
                    /\ Released(g, h) => ~Linked(g, h)
  BY DEF PeersKept
<1>1. CASE g = e /\ h = f
  <2>1. peers'[g][h] = q
    BY <1>1 DEF SetPeer, TypeOK
  <2>2. PeerInv(e, f)
    BY DEF IInv
  <2>3. CASE peers[e][f].state = "NONE"
    BY <1>1, <2>2, <2>3 DEF PeerInv, KeepsPairing, Released
  <2>4. CASE peers[e][f].state # "NONE"
    BY <1>1, <2>1, <2>4 DEF PeerFor, Released
  <2> QED BY <2>3, <2>4
<1>2. CASE ~(g = e /\ h = f)
  <2>1. peers'[g][h] = peers[g][h]
    BY <1>2 DEF SetPeer, TypeOK
  <2> QED BY <2>1, Numbers DEF KeepsPairing, Released
<1> QED BY <1>1, <1>2

\* The helpers on peers keep a pairing.
LEMMA ConnectNativePairing ==
  ASSUME NEW p \in Peers, NEW n \in Nat,
         p.state = "CREATED" => p.remoteId = 0,
         NEW q \in ConnectNative(p, n) \cup ConnectNativeRaises(p, n)
  PROVE  q.id = p.id /\ KeepsPairing(p, q)
<1>1. p.remoteVersion \in Int
  BY DEF Peers
<1>2. CASE q \in ConnectNative(p, n)
  BY <1>1, <1>2, ConnectNativeKeeps DEF KeepsPairing
<1>3. CASE q \in ConnectNativeRaises(p, n)
  BY <1>1, <1>3, ConnectNativeKeeps DEF KeepsPairing
<1> QED BY <1>2, <1>3

LEMMA ImportPairing ==
  ASSUME NEW p \in Peers, NEW n \in Nat, NEW q,
         \/ q = ImportSnapshot(p, n)
         \/ q = [ImportSnapshot(p, n) EXCEPT !.state = "READY"]
         \/ q \in ImportSnapshotRaises(p, n)
  PROVE  q.id = p.id /\ KeepsPairing(p, q)
<1>1. CASE q = ImportSnapshot(p, n)
  BY <1>1 DEF ImportSnapshot, KeepsPairing, Larger, Peers
<1>2. CASE q = [ImportSnapshot(p, n) EXCEPT !.state = "READY"]
  BY <1>2 DEF ImportSnapshot, KeepsPairing, Larger, Peers
<1>3. CASE q \in ImportSnapshotRaises(p, n)
  BY <1>3 DEF ImportSnapshotRaises, KeepsPairing, Larger, Peers
<1> QED BY <1>1, <1>2, <1>3

\* A step in which native connect or an import moves one live peer.
LEMMA ConnectKept ==
  ASSUME TypeOK, IInv, NEW e \in Engines, NEW f \in Engines, NEW n \in Nat,
         NEW q \in ConnectNative(PeerFor(e, f), n)
                     \cup ConnectNativeRaises(PeerFor(e, f), n),
         SetPeer(e, f, q)
  PROVE  PeersKept
<1>1. /\ PeerFor(e, f) \in Peers
      /\ PeerFor(e, f).state = "CREATED" => PeerFor(e, f).remoteId = 0
  BY PeerForInv
<1>2. q.id = PeerFor(e, f).id /\ KeepsPairing(PeerFor(e, f), q)
  BY <1>1, ConnectNativePairing
<1> QED BY <1>2, OnePeerKept

LEMMA ImportKept ==
  ASSUME TypeOK, IInv, NEW e \in Engines, NEW f \in Engines, NEW n \in Nat,
         NEW q, SetPeer(e, f, q), peers[e][f].state # "NONE",
         \/ q = ImportSnapshot(peers[e][f], n)
         \/ q = [ImportSnapshot(peers[e][f], n) EXCEPT !.state = "READY"]
         \/ q \in ImportSnapshotRaises(peers[e][f], n)
  PROVE  PeersKept
<1>1. peers[e][f] \in Peers /\ PeerFor(e, f) = peers[e][f]
  BY Numbers DEF PeerFor
<1>2. q.id = PeerFor(e, f).id /\ KeepsPairing(PeerFor(e, f), q)
  BY <1>1, ImportPairing
<1> QED BY <1>2, OnePeerKept

\* A step in which e's own call, or a Close for a dead connection, takes e's
\* peer for f away.
LEMMA GonePeerKept ==
  ASSUME TypeOK, NEW e \in Engines, NEW f \in Engines, SetPeer(e, f, NoPeer),
         Released(e, f) => ~Linked(e, f)
  PROVE  PeersKept
<1> SUFFICES ASSUME NEW g \in Engines, NEW h \in Engines
             PROVE  /\ KeepsPairing(peers[g][h], peers'[g][h])
                    /\ Released(g, h) => ~Linked(g, h)
  BY DEF PeersKept
<1>1. CASE g = e /\ h = f
  <2>1. peers'[g][h].id = 0
    BY <1>1 DEF SetPeer, TypeOK, NoPeer
  <2> QED BY <1>1, <2>1 DEF KeepsPairing
<1>2. CASE ~(g = e /\ h = f)
  <2>1. peers'[g][h] = peers[g][h]
    BY <1>2 DEF SetPeer, TypeOK
  <2> QED BY <2>1, Numbers DEF KeepsPairing, Released
<1> QED BY <1>1, <1>2

LEMMA KeepsNext == TypeOK /\ IInv /\ [Next]_vars => PeersKept
<1> SUFFICES ASSUME TypeOK, IInv, [Next]_vars PROVE PeersKept
  OBVIOUS
<1>1. ASSUME NEW e \in Engines,
             \/ RegisterCall(e) \/ Publish(e) \/ PublishNext(e)
             \/ ChangedReply(e) \/ PublishReturn(e) \/ CloseReply(e)
             \/ CloseCall(e) \/ Restart(e) \/ CallRaises(e) \/ Timeout(e)
      PROVE  PeersKept
  <2>1. UNCHANGED peers
    BY <1>1 DEF RegisterCall, Publish, PublishNext, ChangedReply,
                PublishReturn, CloseReply, CloseCall, Restart, CallRaises,
                Timeout
  <2> QED BY <2>1, SamePeersKept
<1>2. ASSUME NEW e \in Engines, NEW f \in Engines, ConnectCall(e, f)
      PROVE  PeersKept
  <2>1. PeerFor(e, f) \in Peers /\ SetPeer(e, f, PeerFor(e, f))
    BY <1>2, PeerForInv DEF ConnectCall
  <2>2. KeepsPairing(PeerFor(e, f), PeerFor(e, f))
    BY <2>1 DEF KeepsPairing, Peers
  <2> QED BY <2>1, <2>2, OnePeerKept
<1>3. ASSUME NEW e \in Engines, ConnectReply(e) PROVE PeersKept
  <2> DEFINE f == call[e].to
  <2>1. /\ f \in Engines /\ rpc[e].id \in Nat /\ call[e].op = "connect"
        /\ call[e].id # 0 /\ f # e
    BY <1>3, CallType, RpcType DEF ConnectReply, IInv, CallInv
  <2>2. ASSUME NEW q \in ConnectNative(peers[e][f], rpc[e].id)
                           \cup ConnectNativeRaises(peers[e][f], rpc[e].id),
               RequirePeer(e), SetPeer(e, f, q)
        PROVE  PeersKept
    <3>1. PeerFor(e, f) = peers[e][f]
      BY <2>1, <2>2 DEF RequirePeer, IInv, PeerInv, PeerFor
    <3> HIDE DEF f
    <3> QED BY <2>1, <2>2, <3>1, ConnectKept
  <2>3. CASE UNCHANGED peers
    BY <2>3, SamePeersKept
  <2> QED BY <1>3, <2>2, <2>3 DEF ConnectReply
<1>4. ASSUME NEW e \in Engines, ReadyReply(e) PROVE PeersKept
  <2> DEFINE f == call[e].to
  <2>1. /\ f \in Engines /\ rpc[e].version \in Nat /\ call[e].op = "connect"
        /\ call[e].id # 0 /\ f # e
    BY <1>4, CallType, RpcType DEF ReadyReply, IInv, CallInv
  <2>2. ASSUME NEW q, RequirePeer(e), SetPeer(e, f, q),
               \/ q = [ImportSnapshot(peers[e][f], rpc[e].version)
                         EXCEPT !.state = "READY"]
               \/ q \in ImportSnapshotRaises(peers[e][f], rpc[e].version)
        PROVE  PeersKept
    <3>1. peers[e][f].state # "NONE"
      BY <2>1, <2>2 DEF RequirePeer, IInv, PeerInv
    <3> HIDE DEF f
    <3> QED BY <2>1, <2>2, <3>1, ImportKept
  <2>3. CASE UNCHANGED peers
    BY <2>3, SamePeersKept
  <2> QED BY <1>4, <2>2, <2>3 DEF ReadyReply
<1>5. ASSUME NEW e \in Engines, NEW f \in Engines, DisconnectCall(e, f)
      PROVE  PeersKept
  <2>1. /\ SetPeer(e, f, NoPeer)
        /\ call[e].op = "idle" /\ call'[e].op = "disconnect"
    BY <1>5 DEF DisconnectCall, TypeOK
  <2>2. ~Released(e, f)
    BY <2>1 DEF Released
  <2> QED BY <2>1, <2>2, GonePeerKept
<1>6. ASSUME NEW e \in Engines, CloseReturn(e) PROVE PeersKept
  <2> SUFFICES ASSUME NEW g \in Engines, NEW h \in Engines
               PROVE  /\ KeepsPairing(peers[g][h], peers'[g][h])
                      /\ Released(g, h) => ~Linked(g, h)
    BY DEF PeersKept
  <2>1. CASE g = e
    <3>1. peers'[g][h].id = 0
      BY <1>6, <2>1 DEF CloseReturn, TypeOK, NoPeer
    <3>2. call[g].op = "close" /\ call'[g].op = "idle"
      BY <1>6, <2>1 DEF CloseReturn, TypeOK, NoCall
    <3> QED BY <3>1, <3>2 DEF KeepsPairing, Released
  <2>2. CASE g # e
    <3>1. peers'[g][h] = peers[g][h]
      BY <1>6, <2>2 DEF CloseReturn, TypeOK
    <3> QED BY <3>1, Numbers DEF KeepsPairing, Released
  <2> QED BY <2>1, <2>2
<1>7. ASSUME NEW r \in InFlight, Handle(r) PROVE PeersKept
  <2>1. /\ r.from \in Engines /\ r.to \in Engines
        /\ r.id \in Nat /\ r.version \in Nat
    BY RequestType
  <2>2. CASE UNCHANGED peers
    BY <2>2, SamePeersKept
  <2>3. CASE Connect(r)
    BY <2>1, <2>2, <2>3, ConnectKept DEF Connect
  <2>4. CASE Ready(r) \/ Changed(r)
    <3>1. ASSUME NEW q, FindConnection(r), SetPeer(r.to, r.from, q),
                 \/ q = ImportSnapshot(peers[r.to][r.from], r.version)
                 \/ q = [ImportSnapshot(peers[r.to][r.from], r.version)
                           EXCEPT !.state = "READY"]
                 \/ q \in ImportSnapshotRaises(peers[r.to][r.from], r.version)
          PROVE  PeersKept
      BY <2>1, <3>1, ImportKept DEF FindConnection
    <3> QED BY <2>2, <2>4, <3>1 DEF Ready, Changed
  <2>5. CASE Close(r)
    <3>1. CASE ClosesPeer(r) /\ SetPeer(r.to, r.from, NoPeer)
      <4>1. peers[r.from][r.to].id # r.id
        BY <2>5 DEF Close, IInv, RequestInv
      <4>2. ~Linked(r.to, r.from)
        BY <3>1, <4>1 DEF ClosesPeer, Linked
      <4> QED BY <2>1, <3>1, <4>2, GonePeerKept
    <3> QED BY <2>2, <2>5, <3>1 DEF Close
  <2> QED BY <1>7, <2>2, <2>3, <2>4, <2>5 DEF Handle, RefuseClosed
<1>8. CASE UNCHANGED vars
  BY <1>8, SamePeersKept DEF vars
<1> QED
  BY <1>1, <1>2, <1>3, <1>4, <1>5, <1>6, <1>7, <1>8
  DEF Next, Application, Proceed

(***************************************************************************)
(* A peer that lives on keeps its pairing and its progress, whatever late  *)
(* or repeated request arrives (control.py:109-110, 114).                  *)
(***************************************************************************)
THEOREM PairingKept == Spec => PairingIsFinal
<1>1. TypeOK /\ IInv /\ [Next]_vars
      => [\A e, f \in Engines : KeepsPairing(peers[e][f], peers'[e][f])]_vars
  BY KeepsNext DEF PeersKept
<1> QED BY <1>1, TypeCorrect, Invariance, PTL DEF Spec, PairingIsFinal

(***************************************************************************)
(* Only an engine's own disconnect() and close() release a peer whose      *)
(* partner still exists: a Close request, however late, names a            *)
(* connection its sender has given up (control.py:203).                    *)
(***************************************************************************)
THEOREM ClosesDeadOnly == Spec => ReleasesDeadOnly
<1>1. TypeOK /\ IInv /\ [Next]_vars
      => [\A e, f \in Engines : Released(e, f) => ~Linked(e, f)]_vars
  BY KeepsNext DEF PeersKept
<1> QED BY <1>1, TypeCorrect, Invariance, PTL DEF Spec, ReleasesDeadOnly
-----------------------------------------------------------------------------
(* ControlPlane implements MetadataViews: every step of the control plane is *)
(* a step of the abstract specification, or none.                           *)

ViewStep == [Views!Next]_Views!vars

\* ViewOf is a number, or -1.
LEMMA ViewType ==
  ASSUME TypeOK, NEW e \in Engines, NEW f \in Engines
  PROVE  ViewOf(e, f) \in Nat \cup {-1}
BY Numbers DEF ViewOf

(* The steps of the abstract specification, in terms of ViewOf *)

LEMMA StutterViews ==
  ASSUME UNCHANGED published, \A g, h \in Engines : ViewOf(g, h)' = ViewOf(g, h)
  PROVE  ViewStep
BY DEF ViewStep, Views!vars

LEMMA LearnViews ==
  ASSUME NEW e \in Engines, NEW f \in Engines, NEW n \in 0..published[f],
         UNCHANGED published, ViewOf(e, f) <= n, ViewOf(e, f)' = n,
         \A g, h \in Engines : ~(g = e /\ h = f) => ViewOf(g, h)' = ViewOf(g, h)
  PROVE  ViewStep
<1> DEFINE View == [g \in Engines |-> [h \in Engines |-> ViewOf(g, h)]]
<1>1. View' = [View EXCEPT ![e][f] = n]
  <2>1. View'[e] = [View[e] EXCEPT ![f] = n]
    OBVIOUS
  <2>2. \A g \in Engines : g # e => View'[g] = View[g]
    OBVIOUS
  <2> QED BY <2>1, <2>2
<1>2. View[e][f] <= n
  OBVIOUS
<1>3. Views!Learn(e, f)
  BY <1>1, <1>2 DEF Views!Learn
<1> QED BY <1>3 DEF ViewStep, Views!Next

LEMMA PartViews ==
  ASSUME NEW e \in Engines, NEW f \in Engines, UNCHANGED published,
         ViewOf(e, f)' = -1, ViewOf(f, e)' = -1,
         \A g, h \in Engines :
           ~(g = e /\ h = f) /\ ~(g = f /\ h = e) => ViewOf(g, h)' = ViewOf(g, h)
  PROVE  ViewStep
<1>1. \A g, h : {g, h} = {e, f} <=> (g = e /\ h = f) \/ (g = f /\ h = e)
  OBVIOUS
<1>2. Views!Part(e, f)
  BY <1>1 DEF Views!Part, Views!NoView
<1> QED BY <1>2 DEF ViewStep, Views!Next

LEMMA LeaveViews ==
  ASSUME NEW e \in Engines, published' = [published EXCEPT ![e] = 0],
         \A g, h \in Engines :
           ViewOf(g, h)' = IF e \in {g, h} THEN -1 ELSE ViewOf(g, h)
  PROVE  ViewStep
<1>1. Views!Leave(e)
  BY DEF Views!Leave, Views!NoView
<1> QED BY <1>1 DEF ViewStep, Views!Next

LEMMA AppendViews ==
  ASSUME NEW e \in Engines, published' = [published EXCEPT ![e] = @ + 1],
         \A g, h \in Engines : ViewOf(g, h)' = ViewOf(g, h)
  PROVE  ViewStep
<1>1. Views!Append(e)
  BY DEF Views!Append
<1> QED BY <1>1 DEF ViewStep, Views!Next

(* The views after a step of the control plane *)

LEMMA SamePeersViews ==
  ASSUME UNCHANGED peers
  PROVE  \A g, h \in Engines : ViewOf(g, h)' = ViewOf(g, h)
BY DEF ViewOf, Linked

\* One peer is created or goes on, and knows no less than before.
LEMMA OnePeerViews ==
  ASSUME TypeOK, IInv, IInv', NEW e \in Engines, NEW f \in Engines, NEW q \in Peers,
         SetPeer(e, f, q), e # f, UNCHANGED published,
         q.id = PeerFor(e, f).id, KeepsPairing(PeerFor(e, f), q),
         PeerFor(e, f).imported <= q.imported
  PROVE  ViewStep
<1>1. /\ peers'[e][f] = q
      /\ \A g, h \in Engines : ~(g = e /\ h = f) => peers'[g][h] = peers[g][h]
  BY DEF SetPeer, TypeOK
<1>2. /\ PeerInv(e, f) /\ PeerInv(f, e)
      /\ created[e][f] \in Nat /\ peers[f][e].remoteId \in Nat
  BY Numbers DEF IInv
<1>3. \A g, h \in Engines : ~(g = e /\ h = f) => ViewOf(g, h)' = ViewOf(g, h)
  <2> SUFFICES ASSUME NEW g \in Engines, NEW h \in Engines, ~(g = e /\ h = f)
               PROVE  ViewOf(g, h)' = ViewOf(g, h)
    OBVIOUS
  <2>1. CASE g = f /\ h = e
    <3>1. CASE peers[e][f].state # "NONE"
      <4>1. peers'[e][f].id = peers[e][f].id
        BY <1>1, <3>1 DEF PeerFor
      <4> QED BY <1>1, <2>1, <4>1 DEF ViewOf, Linked
    <3>2. CASE peers[e][f].state = "NONE"
      <4>1. peers[e][f].id = 0 /\ peers'[e][f].id = created[e][f] + 1
        BY <1>1, <1>2, <3>2 DEF PeerFor, NewPeer, PeerInv
      <4>2. peers[f][e].remoteId <= created[e][f]
        BY <1>2 DEF PeerInv
      <4>3. ~Linked(f, e) /\ ~Linked(f, e)'
        BY <1>1, <1>2, <4>1, <4>2 DEF Linked
      <4> QED BY <2>1, <4>3 DEF ViewOf
    <3> QED BY <3>1, <3>2
  <2>2. CASE ~(g = f /\ h = e)
    <3>1. peers'[g][h] = peers[g][h] /\ peers'[h][g] = peers[h][g]
      BY <1>1, <2>2
    <3> QED BY <3>1 DEF ViewOf, Linked
  <2> QED BY <2>1, <2>2
<1>4. peers'[f][e] = peers[f][e] /\ q.imported \in Nat /\ published[f] \in Nat
  BY <1>1 DEF Peers, TypeOK
<1>5. Linked(e, f) => Linked(e, f)' /\ peers[e][f].imported <= q.imported
  <2> SUFFICES ASSUME Linked(e, f)
               PROVE  Linked(e, f)' /\ peers[e][f].imported <= q.imported
    OBVIOUS
  <2>1. peers[e][f].state # "NONE" /\ peers[e][f].id # 0
    BY <1>2 DEF Linked, PeerInv
  <2>2. PeerFor(e, f) = peers[e][f]
    BY <2>1 DEF PeerFor
  <2>3. q.remoteId = peers[e][f].remoteId
    BY <2>1, <2>2 DEF Linked, KeepsPairing
  <2> QED BY <1>1, <1>4, <2>2, <2>3 DEF Linked
<1>6. CASE ~Linked(e, f)'
  <2>1. ViewOf(e, f)' = ViewOf(e, f)
    BY <1>5, <1>6 DEF ViewOf
  <2> QED BY <1>3, <2>1, StutterViews
<1>7. CASE Linked(e, f)'
  <2>1. ViewOf(e, f)' = q.imported
    BY <1>1, <1>7 DEF ViewOf
  <2>2. q.imported <= published[f]
    BY <1>1, <1>7 DEF IInv, SnapshotHonest
  <2>3. ViewOf(e, f) <= q.imported
    BY <1>4, <1>5 DEF ViewOf
  <2>4. q.imported \in 0..published[f]
    BY <1>4, <2>2
  <2> QED BY <1>3, <2>1, <2>3, <2>4, LearnViews
<1> QED BY <1>6, <1>7

\* One peer is given up.
LEMMA GonePeerViews ==
  ASSUME TypeOK, NEW e \in Engines, NEW f \in Engines, SetPeer(e, f, NoPeer),
         UNCHANGED published
  PROVE  ViewStep
<1>1. /\ peers'[e][f] = NoPeer
      /\ \A g, h \in Engines : ~(g = e /\ h = f) => peers'[g][h] = peers[g][h]
  BY DEF SetPeer, TypeOK
<1>2. NoPeer.id = 0 /\ NoPeer.remoteId = 0
  BY DEF NoPeer
<1>3. ~Linked(e, f)' /\ ~Linked(f, e)'
  BY <1>1, <1>2 DEF Linked
<1>4. ViewOf(e, f)' = -1 /\ ViewOf(f, e)' = -1
  BY <1>3 DEF ViewOf
<1>5. \A g, h \in Engines :
        ~(g = e /\ h = f) /\ ~(g = f /\ h = e) => ViewOf(g, h)' = ViewOf(g, h)
  BY <1>1 DEF ViewOf, Linked
<1> QED BY <1>4, <1>5, PartViews

\* The helpers on peers never take metadata back.
LEMMA ConnectViews ==
  ASSUME TypeOK, IInv, IInv', NEW e \in Engines, NEW f \in Engines, NEW n \in Nat, e # f,
         NEW q \in ConnectNative(PeerFor(e, f), n)
                     \cup ConnectNativeRaises(PeerFor(e, f), n),
         SetPeer(e, f, q), UNCHANGED published
  PROVE  ViewStep
<1>1. /\ PeerFor(e, f) \in Peers
      /\ PeerFor(e, f).state = "CREATED" => PeerFor(e, f).remoteId = 0
  BY PeerForInv
<1>2. q.id = PeerFor(e, f).id /\ KeepsPairing(PeerFor(e, f), q)
  BY <1>1, ConnectNativePairing
<1>3. q \in Peers
  BY <1>1, PeerHelpers
<1>4. q.imported = PeerFor(e, f).imported /\ q.imported \in Nat
  BY <1>1, <1>3, ConnectNativeKeeps DEF Peers
<1> QED BY <1>2, <1>3, <1>4, OnePeerViews

LEMMA ImportViews ==
  ASSUME TypeOK, IInv, IInv', NEW e \in Engines, NEW f \in Engines, NEW n \in Nat,
         NEW q, SetPeer(e, f, q), peers[e][f].state # "NONE",
         \/ q = ImportSnapshot(peers[e][f], n)
         \/ q = [ImportSnapshot(peers[e][f], n) EXCEPT !.state = "READY"]
         \/ q \in ImportSnapshotRaises(peers[e][f], n),
         UNCHANGED published
  PROVE  ViewStep
<1>1. peers[e][f] \in Peers /\ PeerFor(e, f) = peers[e][f] /\ e # f
  BY Numbers DEF PeerFor, IInv, PeerInv
<1>2. q.id = PeerFor(e, f).id /\ KeepsPairing(PeerFor(e, f), q)
  BY <1>1, ImportPairing
<1>3. q \in Peers
  BY <1>1, PeerHelpers
<1>4. peers[e][f].imported <= q.imported
  <2>1. peers[e][f].imported \in Nat
    BY <1>1 DEF Peers
  <2>2. CASE q = ImportSnapshot(peers[e][f], n)
    BY <1>1, <2>1, <2>2 DEF ImportSnapshot, Larger, Peers
  <2>3. CASE q = [ImportSnapshot(peers[e][f], n) EXCEPT !.state = "READY"]
    BY <1>1, <2>1, <2>3 DEF ImportSnapshot, Larger, Peers
  <2>4. CASE q \in ImportSnapshotRaises(peers[e][f], n)
    BY <1>1, <2>1, <2>4 DEF ImportSnapshotRaises, Larger, Peers
  <2> QED BY <2>2, <2>3, <2>4
<1> QED BY <1>1, <1>2, <1>3, <1>4, OnePeerViews

LEMMA ViewsNext == TypeOK /\ IInv /\ IInv' /\ [Next]_vars => ViewStep
<1> SUFFICES ASSUME TypeOK, IInv, IInv', [Next]_vars PROVE ViewStep
  OBVIOUS
<1>0. UNCHANGED <<peers, published>> => ViewStep
  BY SamePeersViews, StutterViews
<1>1. ASSUME NEW e \in Engines,
             \/ RegisterCall(e) \/ PublishNext(e)
             \/ ChangedReply(e) \/ PublishReturn(e) \/ CloseReply(e)
             \/ CloseCall(e) \/ Restart(e) \/ CallRaises(e) \/ Timeout(e)
      PROVE  ViewStep
  <2>1. UNCHANGED <<peers, published>>
    BY <1>1 DEF RegisterCall, PublishNext, ChangedReply, PublishReturn, CloseReply,
                CloseCall, Restart, CallRaises, Timeout
  <2> QED BY <1>0, <2>1
<1>2. ASSUME NEW e \in Engines, Publish(e) PROVE ViewStep
  BY <1>2, SamePeersViews, AppendViews DEF Publish
<1>3. ASSUME NEW e \in Engines, NEW f \in Engines, ConnectCall(e, f)
      PROVE  ViewStep
  <2> DEFINE p == PeerFor(e, f)
  <2>1. /\ p \in Peers /\ SetPeer(e, f, p) /\ p.id = PeerFor(e, f).id
        /\ e # f /\ UNCHANGED published
    BY <1>3, PeerForInv DEF ConnectCall
  <2>2. KeepsPairing(PeerFor(e, f), p) /\ PeerFor(e, f).imported <= p.imported
    BY <2>1 DEF KeepsPairing, Peers
  <2> HIDE DEF p
  <2> QED BY <2>1, <2>2, OnePeerViews
<1>4. ASSUME NEW e \in Engines, ConnectReply(e) PROVE ViewStep
  <2> DEFINE f == call[e].to
  <2>1. /\ f \in Engines /\ rpc[e].id \in Nat /\ call[e].op = "connect"
        /\ call[e].id # 0 /\ f # e /\ UNCHANGED published
    BY <1>4, CallType, RpcType DEF ConnectReply, IInv, CallInv
  <2>2. ASSUME NEW q \in ConnectNative(peers[e][f], rpc[e].id)
                           \cup ConnectNativeRaises(peers[e][f], rpc[e].id),
               RequirePeer(e), SetPeer(e, f, q)
        PROVE  ViewStep
    <3>1. PeerFor(e, f) = peers[e][f]
      BY <2>1, <2>2 DEF RequirePeer, IInv, PeerInv, PeerFor
    <3> HIDE DEF f
    <3> QED BY <2>1, <2>2, <3>1, ConnectViews
  <2>3. CASE UNCHANGED peers
    BY <1>0, <2>1, <2>3
  <2> QED BY <1>4, <2>2, <2>3 DEF ConnectReply
<1>5. ASSUME NEW e \in Engines, ReadyReply(e) PROVE ViewStep
  <2> DEFINE f == call[e].to
  <2>1. /\ f \in Engines /\ rpc[e].version \in Nat /\ call[e].op = "connect"
        /\ call[e].id # 0 /\ f # e /\ UNCHANGED published
    BY <1>5, CallType, RpcType DEF ReadyReply, IInv, CallInv
  <2>2. ASSUME NEW q, RequirePeer(e), SetPeer(e, f, q),
               \/ q = [ImportSnapshot(peers[e][f], rpc[e].version)
                         EXCEPT !.state = "READY"]
               \/ q \in ImportSnapshotRaises(peers[e][f], rpc[e].version)
        PROVE  ViewStep
    <3>1. peers[e][f].state # "NONE"
      BY <2>1, <2>2 DEF RequirePeer, IInv, PeerInv
    <3> HIDE DEF f
    <3> QED BY <2>1, <2>2, <3>1, ImportViews
  <2>3. CASE UNCHANGED peers
    BY <1>0, <2>1, <2>3
  <2> QED BY <1>5, <2>2, <2>3 DEF ReadyReply
<1>6. ASSUME NEW e \in Engines, NEW f \in Engines, DisconnectCall(e, f)
      PROVE  ViewStep
  BY <1>6, GonePeerViews DEF DisconnectCall
<1>7. ASSUME NEW e \in Engines, CloseReturn(e) PROVE ViewStep
  <2>1. /\ \A f \in Engines : peers'[e][f] = NoPeer
        /\ \A g, h \in Engines : g # e => peers'[g][h] = peers[g][h]
        /\ published' = [published EXCEPT ![e] = 0]
    BY <1>7 DEF CloseReturn, TypeOK
  <2>2. NoPeer.id = 0 /\ NoPeer.remoteId = 0
    BY DEF NoPeer
  <2>3. \A f \in Engines : ~Linked(e, f)' /\ ~Linked(f, e)'
    BY <2>1, <2>2 DEF Linked
  <2>4. \A g, h \in Engines :
          ViewOf(g, h)' = IF e \in {g, h} THEN -1 ELSE ViewOf(g, h)
    <3> SUFFICES ASSUME NEW g \in Engines, NEW h \in Engines
                 PROVE  ViewOf(g, h)' = IF e \in {g, h} THEN -1 ELSE ViewOf(g, h)
      OBVIOUS
    <3>1. CASE g = e \/ h = e
      BY <2>3, <3>1 DEF ViewOf
    <3>2. CASE ~(g = e \/ h = e)
      BY <2>1, <3>2 DEF ViewOf, Linked
    <3> QED BY <3>1, <3>2
  <2> QED BY <2>1, <2>4, LeaveViews
<1>8. ASSUME NEW r \in InFlight, Handle(r) PROVE ViewStep
  <2>1. /\ r.from \in Engines /\ r.to \in Engines /\ r.from # r.to
        /\ r.id \in Nat /\ r.version \in Nat
    BY RequestType DEF IInv, RequestInv
  <2>2. UNCHANGED published
    BY <1>8 DEF Handle, RefuseClosed, Connect, Ready, Changed, Close
  <2>3. CASE UNCHANGED peers
    BY <1>0, <2>2, <2>3
  <2>4. CASE Connect(r)
    BY <2>1, <2>2, <2>3, <2>4, ConnectViews DEF Connect
  <2>5. CASE Ready(r) \/ Changed(r)
    <3>1. ASSUME NEW q, FindConnection(r), SetPeer(r.to, r.from, q),
                 \/ q = ImportSnapshot(peers[r.to][r.from], r.version)
                 \/ q = [ImportSnapshot(peers[r.to][r.from], r.version)
                           EXCEPT !.state = "READY"]
                 \/ q \in ImportSnapshotRaises(peers[r.to][r.from], r.version)
          PROVE  ViewStep
      BY <2>1, <2>2, <3>1, ImportViews DEF FindConnection
    <3> QED BY <2>3, <2>5, <3>1 DEF Ready, Changed
  <2>6. CASE Close(r)
    BY <2>1, <2>2, <2>3, <2>6, GonePeerViews DEF Close
  <2> QED BY <1>8, <2>3, <2>4, <2>5, <2>6 DEF Handle, RefuseClosed
<1>9. CASE UNCHANGED vars
  BY <1>0, <1>9 DEF vars
<1> QED
  BY <1>1, <1>2, <1>3, <1>4, <1>5, <1>6, <1>7, <1>8, <1>9
  DEF Next, Application, Proceed

LEMMA ViewsInit == Init => Views!Init
<1> SUFFICES ASSUME Init PROVE Views!Init
  OBVIOUS
<1>1. \A e, f \in Engines : peers[e][f].remoteId = 0
  BY DEF Init, NoPeer
<1>2. \A e, f \in Engines : ViewOf(e, f) = -1
  BY <1>1 DEF ViewOf, Linked
<1> QED BY <1>2 DEF Init, Views!Init, Views!NoView

(***************************************************************************)
(* The control plane implements MetadataViews: what an engine knows of     *)
(* another's memories is a prefix of what that engine has published, only  *)
(* grows while the connection lasts, and goes with it, whatever is lost,   *)
(* late, repeated, or fails (control.py:101-117, 145-166, 168-206).        *)
(***************************************************************************)
THEOREM ViewsImplemented == Spec => ImplementsViews
<1>1. TypeOK /\ IInv /\ IInv' /\ [Next]_vars => [Views!Next]_Views!vars
  BY ViewsNext DEF ViewStep
<1> QED BY <1>1, ViewsInit, TypeCorrect, Invariance, PTL
        DEF Spec, ImplementsViews, Views!Spec
=============================================================================
