-------------------------- MODULE ControlPlanePairs --------------------------
(***************************************************************************)
(* Proofs about ControlPlane: what an engine may conclude from an answer,  *)
(* and when the two ends of a connection agree.                            *)
(***************************************************************************)
EXTENDS ControlPlaneProofs

-----------------------------------------------------------------------------
(* What holds of the RPCs under way, whatever times out *)

\* A connected peer is connected to something.
ConnectedInv ==
  \A e, f \in Engines :
    peers[e][f].state \in ConnectedStates => peers[e][f].remoteId # 0

\* An RPC is one of the call it is made for.  Only a connected peer is told of
\* memories, and Ready tells of everything that was acknowledged.
AskInv(e) ==
  /\ rpc[e].status # "none" =>
       LET r == rpc[e].req
       IN  /\ r.to # e /\ r.id # 0 /\ r.id <= created[e][r.to]
           /\ \/ /\ call[e].op = "connect" /\ r.method \in {"Connect", "Ready"}
                 /\ r.to = call[e].to /\ r.id = call[e].id
              \/ /\ call[e].op = "publish" /\ r.method = "Changed"
                 /\ r.version = call[e].version
              \/ call[e].op = "disconnect" /\ r.method = "Close"
           /\ r.method \in {"Ready", "Changed"} /\ peers[e][r.to].id = r.id =>
                peers[e][r.to].remoteId # 0
           /\ r.method = "Ready" => acked[e] <= r.version
  /\ call[e].op = "publish" =>
       \A t \in call[e].todo :
         peers[e][t[1]].id = t[2] => peers[e][t[1]].remoteId # 0
  /\ acked[e] <= published[e]

\* An answered request has reached the peer it was meant for, if that is the
\* peer at the other end now.
AnswerInv(e) ==
  rpc[e].status = "replied" =>
    LET r == rpc[e].req
        p == peers[r.to][e]
    IN  /\ r.method = "Connect" /\ p.id = rpc[e].id => p.remoteId = r.id
        /\ (/\ r.method \in {"Ready", "Changed"}
            /\ peers[e][r.to].id = r.id /\ Linked(e, r.to))
           => /\ p.remoteId = r.id /\ p.remoteVersion >= r.version
              /\ r.method = "Ready" => p.state = "READY"

\* What the answers to RPCs say is true.
AgreeInv == ConnectedInv /\ \A e \in Engines : AskInv(e) /\ AnswerInv(e)

-----------------------------------------------------------------------------
(* What a step does to one RPC, one call and one peer *)

\* e sends a request of its call.
Sends(e) ==
  LET r == rpc'[e].req
      f == r.to
  IN  /\ rpc'[e].status = "sent" /\ acked'[e] = acked[e]
      /\ \/ /\ r.method = "Connect" /\ rpc[e].status = "none"
            /\ call'[e].op = "connect" /\ call'[e].to = f /\ call'[e].id = r.id
         \/ /\ r.method = "Ready" /\ call[e].op = "connect" /\ call'[e] = call[e]
            /\ call[e].to = f /\ call[e].id = r.id /\ r.version = published[e]
            /\ rpc[e].status = "replied" /\ rpc[e].req.method = "Connect"
            /\ peers[e][f].id = r.id /\ peers'[e][f].id = r.id
            /\ peers'[e][f].remoteId = rpc[e].id
         \/ /\ r.method = "Changed" /\ rpc[e].status = "none" /\ UNCHANGED peers
            /\ call[e].op = "publish" /\ call'[e].op = "publish"
            /\ r.version = call[e].version /\ call'[e].version = call[e].version
            /\ <<f, r.id>> \in call[e].todo
            /\ call'[e].todo = call[e].todo \ {<<f, r.id>>}
         \/ /\ r.method = "Close" /\ rpc[e].status = "none"
            /\ call'[e].op = "disconnect"
            /\ peers[e][f].state = "READY" /\ r.id = peers[e][f].id
            /\ peers'[e][f].id = 0

\* The request e waits for is answered.
Answers(e) ==
  LET r == rpc[e].req
      p == peers[r.to][e]
      q == peers'[r.to][e]
  IN  /\ r.method = "Connect" => q.remoteId = r.id /\ q.id = rpc'[e].id
      /\ r.method \in {"Ready", "Changed"} =>
           /\ p.remoteId = r.id /\ q.remoteId = r.id /\ q.id = p.id
           /\ q.remoteVersion >= r.version
      /\ r.method = "Ready" => q.state = "READY" /\ rpc'[e].version = published[r.to]
      /\ r.method = "Close" => q.remoteId # r.id

\* e goes on without an RPC; an answer to Ready is imported unless that fails.
Goes(e) ==
  /\ rpc'[e].status = "none"
  /\ timeouts' = timeouts => rpc[e].status # "sent"
  /\ (/\ timeouts' = timeouts /\ ~NativeFaults
      /\ rpc[e].status = "replied" /\ rpc[e].req.method = "Ready"
      /\ peers[e][rpc[e].req.to].id = rpc[e].req.id)
     => /\ peers'[e][rpc[e].req.to].state = "READY"
        /\ peers'[e][rpc[e].req.to].remoteVersion >= rpc[e].version

RpcStep(e) ==
  \/ rpc'[e] = rpc[e] /\ call'[e] = call[e]
  \/ Goes(e)
  \/ Sends(e)
  \/ /\ rpc[e].status = "sent"
     /\ rpc'[e].req = rpc[e].req /\ call'[e] = call[e]
     /\ \/ /\ rpc'[e].status = "raised"
           /\ ~NativeFaults /\ rpc[e].req.method = "Close" =>
                life'[rpc[e].req.to] # "open"
        \/ rpc'[e].status = "replied" /\ Answers(e)

\* A registration of e is announced to the READY peers, one after the other,
\* and acknowledged after the last answer.
PublishStep(e) ==
  /\ call'[e].op = "publish" =>
       \/ /\ call[e].op = "publish" /\ call'[e].version = call[e].version
          /\ call'[e].todo = call[e].todo \/ Sends(e)
          /\ rpc'[e].status = "none" => rpc[e].status \in {"none", "replied"}
       \/ /\ UNCHANGED peers /\ rpc'[e] = rpc[e]
          /\ call'[e].todo = {<<f, peers[e][f].id>> :
                                f \in {g \in Engines : peers[e][g].state = "READY"}}
  /\ \/ acked'[e] = acked[e] /\ published[e] <= published'[e]
     \/ /\ call[e].op = "publish" /\ rpc[e].status = "none" /\ call[e].todo = {}
        /\ acked'[e] = call[e].version /\ call'[e].op = "idle"
        /\ published'[e] = published[e] /\ UNCHANGED peers
     \/ /\ acked'[e] = 0 /\ call'[e].op = "idle" /\ \A f \in Engines : peers'[e][f].id = 0

\* e is connected to f by an answer to its own offer, or by an offer of f.
ConnectStep(e, f) ==
  /\ \/ peers'[e][f].remoteId \in {0, peers[e][f].remoteId}
     \/ /\ call[e].op = "connect" /\ call[e].to = f /\ RequirePeer(e)
        /\ rpc[e].status = "replied" /\ rpc[e].req.method = "Connect"
        /\ peers'[e][f].remoteId = rpc[e].id /\ peers'[e][f].id = peers[e][f].id
     \/ \E r \in InFlight :
          /\ r.method = "Connect" /\ r.from = f /\ r.to = e
          /\ r.id = peers'[e][f].remoteId
  /\ peers'[e][f].state = "CONNECTED" =>
       \/ peers'[e][f].remoteId # 0
       \/ /\ peers[e][f].state = "CONNECTED"
          /\ peers'[e][f].remoteId = peers[e][f].remoteId

\* A peer becomes READY by an answer to its own Ready, or by a Ready of f.
ReadyStep(e, f) ==
  peers'[e][f].state = "READY" =>
    /\ peers'[e][f].id = peers[e][f].id
    /\ \/ peers[e][f].state = "READY"
       \/ /\ call[e].op = "connect" /\ call[e].to = f /\ RequirePeer(e)
          /\ rpc[e].status = "replied" /\ rpc[e].req.method = "Ready"
          /\ peers'[e][f].remoteVersion >= rpc[e].version
       \/ \E r \in InFlight :
            /\ r.method = "Ready" /\ r.from = f /\ r.to = e
            /\ r.id = peers[e][f].remoteId
            /\ peers'[e][f].remoteVersion >= r.version
            /\ r.nr = 0 => /\ rpc'[f].status = "replied" /\ rpc'[f].req = r
                           /\ rpc'[f].version = published[e]

\* A peer goes by its own engine's disconnect() or close(), or by a Close of f.
DropStep(e, f) ==
  peers[e][f].id # 0 /\ peers'[e][f].id # peers[e][f].id =>
    /\ peers'[e][f].id = 0
    /\ \/ /\ call[e].op = "idle" /\ peers[e][f].state = "READY"
          /\ rpc'[e].status = "sent" /\ rpc'[e].req.method = "Close"
          /\ rpc'[e].req.to = f /\ rpc'[e].req.id = peers[e][f].id
       \/ \E r \in InFlight :
            /\ r.method = "Close" /\ r.from = f /\ r.to = e
            /\ r.id = peers[e][f].remoteId
       \/ call[e].op = "close" /\ life'[e] # "open"

\* Nothing is late unless it has timed out, and a closed engine is replaced by
\* a new one only.
FaultStep ==
  /\ timeouts <= timeouts' /\ restarts <= restarts'
  /\ timeouts' = timeouts => late' \subseteq late
  /\ restarts' = restarts =>
       \A e \in Engines : life'[e] = "open" => life[e] = "open"

Steps ==
  /\ \A e \in Engines : RpcStep(e) /\ PublishStep(e)
  /\ \A e, f \in Engines : ConnectStep(e, f) /\ ReadyStep(e, f) /\ DropStep(e, f)
  /\ FaultStep

-----------------------------------------------------------------------------
(* How the helpers of ControlPlane change the tables *)

\* SetPeer, Send, Return, Reply and Raise change one entry, and no other one.
LEMMA SetEntry ==
  ASSUME TypeOK, NEW e \in Engines, NEW f \in Engines, NEW q, SetPeer(e, f, q)
  PROVE  /\ peers'[e][f] = q
         /\ \A g, h \in Engines : ~(g = e /\ h = f) => peers'[g][h] = peers[g][h]
BY DEF SetPeer, TypeOK

LEMMA SendEntry ==
  ASSUME TypeOK, NEW e \in Engines, NEW f, NEW m, NEW i, NEW v, Send(e, m, f, i, v)
  PROVE  /\ rpc'[e].status = "sent" /\ rpc'[e].req.method = m
         /\ rpc'[e].req.to = f /\ rpc'[e].req.id = i /\ rpc'[e].req.version = v
         /\ \A d \in Engines : d # e => rpc'[d] = rpc[d]
BY DEF Send, TypeOK

LEMMA ReturnEntry ==
  ASSUME TypeOK, NEW e \in Engines, Return(e)
  PROVE  /\ rpc'[e].status = "none" /\ call'[e].op = "idle"
         /\ \A d \in Engines : d # e => rpc'[d] = rpc[d] /\ call'[d] = call[d]
BY DEF Return, TypeOK, NoCall, NoRpc

\* The caller of a request that is not late waits for it.
LEMMA Waiting ==
  ASSUME TypeOK, IInv, NEW r \in InFlight, r.nr = 0
  PROVE  rpc[r.from].status = "sent" /\ rpc[r.from].req = r
<1>1. r \notin late
  BY DEF IInv
<1>2. PICK c \in Engines : rpc[c].status = "sent" /\ r = rpc[c].req
  BY <1>1 DEF InFlight
<1>3. RpcInv(c)
  BY DEF IInv
<1> QED BY <1>2, <1>3 DEF RpcInv

LEMMA ReplyEntry ==
  ASSUME TypeOK, IInv, NEW r \in InFlight, NEW i, NEW v, Reply(r, i, v)
  PROVE  /\ late' \subseteq late
         /\ r.nr # 0 => rpc' = rpc
         /\ r.nr = 0 =>
              /\ rpc[r.from].status = "sent" /\ rpc[r.from].req = r
              /\ rpc'[r.from].status = "replied" /\ rpc'[r.from].req = r
              /\ rpc'[r.from].id = i /\ rpc'[r.from].version = v
         /\ \A d \in Engines : d # r.from => rpc'[d] = rpc[d]
<1>1. r.from \in Engines
  BY RequestType
<1>2. CASE r.nr = 0
  BY <1>1, <1>2, Waiting DEF Reply, TypeOK
<1>3. CASE r.nr # 0
  BY <1>3 DEF Reply
<1> QED BY <1>2, <1>3

LEMMA RaiseEntry ==
  ASSUME TypeOK, IInv, NEW r \in InFlight, Raise(r)
  PROVE  /\ late' \subseteq late
         /\ r.nr # 0 => rpc' = rpc
         /\ r.nr = 0 =>
              /\ rpc[r.from].status = "sent" /\ rpc[r.from].req = r
              /\ rpc'[r.from].status = "raised" /\ rpc'[r.from].req = r
         /\ \A d \in Engines : d # r.from => rpc'[d] = rpc[d]
<1>1. r.from \in Engines
  BY RequestType
<1>2. CASE r.nr = 0
  BY <1>1, <1>2, Waiting DEF Raise, TypeOK
<1>3. CASE r.nr # 0
  BY <1>3 DEF Raise
<1> QED BY <1>2, <1>3

\* What importing a snapshot achieves.
LEMMA ImportEffect ==
  ASSUME NEW p \in Peers, NEW n \in Nat
  PROVE  /\ \A q \in {ImportSnapshot(p, n),
                      [ImportSnapshot(p, n) EXCEPT !.state = "READY"]} :
              /\ q.id = p.id /\ q.remoteId = p.remoteId
              /\ q.remoteVersion >= n /\ q.remoteVersion >= p.remoteVersion
         /\ ImportSnapshot(p, n).state = p.state
         /\ [ImportSnapshot(p, n) EXCEPT !.state = "READY"].state = "READY"
         /\ \A q \in ImportSnapshotRaises(p, n) :
              /\ q.id = p.id /\ q.remoteId = p.remoteId /\ q.state = p.state
              /\ NativeFaults
BY DEF ImportSnapshot, ImportSnapshotRaises, Larger, Peers

-----------------------------------------------------------------------------
(* Every step is made of these *)

\* What does not change takes none of the steps.
LEMMA QuietRpc ==
  ASSUME NEW e \in Engines, rpc'[e] = rpc[e], call'[e] = call[e],
         acked'[e] = acked[e], published[e] <= published'[e]
  PROVE  RpcStep(e) /\ PublishStep(e)
BY DEF RpcStep, PublishStep

LEMMA QuietPeer ==
  ASSUME NEW e \in Engines, NEW f \in Engines, peers'[e][f] = peers[e][f]
  PROVE  ConnectStep(e, f) /\ ReadyStep(e, f) /\ DropStep(e, f)
BY DEF ConnectStep, ReadyStep, DropStep

\* A step of e's own call, which moves no peer but e's peer for f.
LEMMA OwnSteps ==
  ASSUME TypeOK, NEW e \in Engines, NEW f \in Engines,
         \A d \in Engines : d # e => rpc'[d] = rpc[d] /\ call'[d] = call[d],
         \A g, h \in Engines : ~(g = e /\ h = f) => peers'[g][h] = peers[g][h],
         \A d \in Engines : d # e => acked'[d] = acked[d] /\ published'[d] = published[d],
         RpcStep(e), PublishStep(e),
         ConnectStep(e, f), ReadyStep(e, f), DropStep(e, f), FaultStep
  PROVE  Steps
<1>1. ASSUME NEW d \in Engines, d # e PROVE RpcStep(d) /\ PublishStep(d)
  <2>1. published[d] <= published'[d]
    BY <1>1 DEF TypeOK
  <2> QED BY <1>1, <2>1, QuietRpc
<1>2. ASSUME NEW g \in Engines, NEW h \in Engines, ~(g = e /\ h = f)
      PROVE  ConnectStep(g, h) /\ ReadyStep(g, h) /\ DropStep(g, h)
  BY <1>2, QuietPeer
<1> QED BY <1>1, <1>2 DEF Steps

\* A handler of e, which moves no peer but e's peer for r.from.
LEMMA HandlerSteps ==
  ASSUME TypeOK, NEW r \in InFlight, UNCHANGED <<call, acked, published>>,
         \A d \in Engines : d # r.from => rpc'[d] = rpc[d],
         \A g, h \in Engines :
           ~(g = r.to /\ h = r.from) => peers'[g][h] = peers[g][h],
         RpcStep(r.from),
         rpc'[r.from].status = "none" => rpc[r.from].status = "none",
         ConnectStep(r.to, r.from), ReadyStep(r.to, r.from), DropStep(r.to, r.from),
         FaultStep
  PROVE  Steps
<1>1. r.from \in Engines /\ r.to \in Engines
  BY RequestType
<1>2. \A d \in Engines : published[d] <= published'[d]
  BY DEF TypeOK
<1>3. ASSUME NEW d \in Engines PROVE RpcStep(d) /\ PublishStep(d)
  <2>1. CASE d # r.from
    BY <1>2, <2>1, QuietRpc
  <2>2. CASE d = r.from
    BY <1>2, <2>2 DEF PublishStep
  <2> QED BY <2>1, <2>2
<1>4. ASSUME NEW g \in Engines, NEW h \in Engines, ~(g = r.to /\ h = r.from)
      PROVE  ConnectStep(g, h) /\ ReadyStep(g, h) /\ DropStep(g, h)
  BY <1>4, QuietPeer
<1> QED BY <1>1, <1>3, <1>4 DEF Steps

\* A handler that raises or answers, and moves no peer but r.to's peer for
\* r.from.
LEMMA AnswerSteps ==
  ASSUME TypeOK, IInv, NEW r \in InFlight,
         UNCHANGED <<life, call, acked, published, timeouts, restarts>>,
         \A g, h \in Engines :
           ~(g = r.to /\ h = r.from) => peers'[g][h] = peers[g][h],
         \/ /\ Raise(r)
            /\ ~NativeFaults /\ r.method = "Close" => life[r.to] # "open"
         \/ \E i, v : Reply(r, i, v) /\ (r.nr = 0 => Answers(r.from)),
         ConnectStep(r.to, r.from), ReadyStep(r.to, r.from), DropStep(r.to, r.from)
  PROVE  Steps
<1>1. r.from \in Engines
  BY RequestType
<1>2. /\ \A d \in Engines : d # r.from => rpc'[d] = rpc[d]
      /\ late' \subseteq late
      /\ RpcStep(r.from)
      /\ rpc'[r.from].status = "none" => rpc[r.from].status = "none"
  <2>1. CASE /\ Raise(r)
             /\ ~NativeFaults /\ r.method = "Close" => life[r.to] # "open"
    BY <2>1, RaiseEntry DEF RpcStep
  <2>2. CASE \E i, v : Reply(r, i, v) /\ (r.nr = 0 => Answers(r.from))
    <3>1. PICK i, v : Reply(r, i, v) /\ (r.nr = 0 => Answers(r.from))
      BY <2>2
    <3> QED BY <3>1, ReplyEntry DEF RpcStep
  <2> QED BY <2>1, <2>2
<1>3. FaultStep
  BY <1>2 DEF FaultStep, TypeOK
<1> QED BY <1>1, <1>2, <1>3, HandlerSteps

\* A step of e's own call that moves no peer.
LEMMA StillSteps ==
  ASSUME TypeOK, NEW e \in Engines, UNCHANGED peers,
         \A d \in Engines : d # e => rpc'[d] = rpc[d] /\ call'[d] = call[d],
         \A d \in Engines : d # e => acked'[d] = acked[d] /\ published'[d] = published[d],
         RpcStep(e), PublishStep(e), FaultStep
  PROVE  Steps
BY OwnSteps, QuietPeer

\* Every action of ControlPlane is made of these steps.
LEMMA StepsNext ==
  TypeOK /\ TypeOK' /\ IInv /\ IInv' /\ AgreeInv /\ [Next]_vars => Steps
<1> SUFFICES ASSUME TypeOK, TypeOK', IInv, IInv', AgreeInv, [Next]_vars
             PROVE  Steps
  OBVIOUS
<1>a. \A e \in Engines : AskInv(e) /\ CallInv(e) /\ RpcInv(e)
  BY DEF AgreeInv, IInv
<1>b. ASSUME NEW e \in Engines, NEW f \in Engines
      PROVE  /\ peers[e][f] \in Peers /\ peers[e][f].id \in Nat
             /\ peers[e][f].state = "NONE" <=> peers[e][f].id = 0
  BY Numbers DEF IInv, PeerInv
<1>1. ASSUME NEW e \in Engines, NEW f \in Engines, ConnectCall(e, f)
      PROVE  Steps
  <2> DEFINE p == PeerFor(e, f)
  <2>1. /\ peers'[e][f] = p
        /\ \A g, h \in Engines : ~(g = e /\ h = f) => peers'[g][h] = peers[g][h]
        /\ rpc'[e].status = "sent" /\ rpc'[e].req.method = "Connect"
        /\ rpc'[e].req.to = f /\ rpc'[e].req.id = p.id
        /\ \A d \in Engines : d # e => rpc'[d] = rpc[d]
    BY <1>1, SetEntry, SendEntry DEF ConnectCall
  <2>2. /\ call'[e].op = "connect" /\ call'[e].to = f /\ call'[e].id = p.id
        /\ \A d \in Engines : d # e => call'[d] = call[d]
        /\ UNCHANGED <<life, published, acked, late, timeouts, restarts>>
        /\ p.state # "READY" /\ rpc[e].status = "none"
    BY <1>1, <1>a DEF ConnectCall, AskInv, TypeOK
  <2>3. RpcStep(e) /\ PublishStep(e)
    BY <2>1, <2>2 DEF RpcStep, Sends, PublishStep, TypeOK
  <2>4. ConnectStep(e, f) /\ ReadyStep(e, f) /\ DropStep(e, f)
    <3>1. CASE peers[e][f].state = "NONE"
      <4>1. p.remoteId = 0 /\ p.state = "CREATED" /\ peers[e][f].id = 0
        BY <1>b, <3>1 DEF PeerFor, NewPeer
      <4> QED BY <2>1, <2>2, <4>1 DEF ConnectStep, ReadyStep, DropStep
    <3>2. CASE peers[e][f].state # "NONE"
      BY <2>1, <3>2, QuietPeer DEF PeerFor
    <3> QED BY <3>1, <3>2
  <2>5. FaultStep
    BY <2>2 DEF FaultStep, TypeOK
  <2> HIDE DEF p
  <2> QED BY <2>1, <2>2, <2>3, <2>4, <2>5, OwnSteps
<1>2. ASSUME NEW e \in Engines, ConnectReply(e) PROVE Steps
  <2> DEFINE f == call[e].to
             p == peers[e][f]
             n == rpc[e].id
  <2>1. /\ call[e].op = "connect" /\ f \in Engines /\ n \in Nat /\ n # 0
        /\ rpc[e].status = "replied" /\ rpc[e].req.method = "Connect"
        /\ UNCHANGED <<life, published, acked, late, created, timeouts, restarts>>
    BY <1>2, <1>a, CallType, RpcType DEF ConnectReply, RpcInv
  <2>2. FaultStep
    BY <2>1 DEF FaultStep, TypeOK
  <2>3. CASE /\ RequirePeer(e)
             /\ \E q \in ConnectNative(p, n) :
                  SetPeer(e, f, q) /\ Send(e, "Ready", f, q.id, published[e])
             /\ UNCHANGED call
    <3>1. PICK q \in ConnectNative(p, n) :
            SetPeer(e, f, q) /\ Send(e, "Ready", f, q.id, published[e])
      BY <2>3
    <3>2. /\ q.id = p.id /\ q.remoteId = n
          /\ q.state = "CONNECTED" \/ q = p
      BY <1>b, <2>1, <3>1, ConnectNativeKeeps
    <3>3. /\ peers'[e][f] = q
          /\ \A g, h \in Engines : ~(g = e /\ h = f) => peers'[g][h] = peers[g][h]
          /\ rpc'[e].status = "sent" /\ rpc'[e].req.method = "Ready"
          /\ rpc'[e].req.to = f /\ rpc'[e].req.id = q.id
          /\ rpc'[e].req.version = published[e]
          /\ \A d \in Engines : d # e => rpc'[d] = rpc[d]
      BY <2>1, <3>1, SetEntry, SendEntry
    <3>4. p.id = call[e].id
      BY <2>3 DEF RequirePeer
    <3>5. RpcStep(e) /\ PublishStep(e)
      BY <2>1, <2>3, <3>2, <3>3, <3>4 DEF RpcStep, Sends, PublishStep, TypeOK
    <3>6. ConnectStep(e, f) /\ DropStep(e, f)
      BY <2>1, <2>3, <3>2, <3>3 DEF ConnectStep, DropStep
    <3>7. ReadyStep(e, f)
      BY <3>2, <3>3 DEF ReadyStep
    <3> HIDE DEF f, p, n
    <3> QED BY <2>1, <2>2, <2>3, <3>3, <3>5, <3>6, <3>7, OwnSteps
  <2>4. CASE /\ \/ RequirePeer(e) /\ \E q \in ConnectNativeRaises(p, n) : SetPeer(e, f, q)
                \/ UNCHANGED peers
             /\ Return(e)
    <3>1. /\ rpc'[e].status = "none" /\ call'[e].op = "idle"
          /\ \A d \in Engines : d # e => rpc'[d] = rpc[d] /\ call'[d] = call[d]
      BY <2>4, ReturnEntry
    <3>2. RpcStep(e) /\ PublishStep(e)
      BY <2>1, <3>1 DEF RpcStep, Goes, PublishStep, TypeOK
    <3>3. /\ ConnectStep(e, f) /\ ReadyStep(e, f) /\ DropStep(e, f)
          /\ \A g, h \in Engines : ~(g = e /\ h = f) => peers'[g][h] = peers[g][h]
      <4>1. CASE UNCHANGED peers
        BY <2>1, <4>1, QuietPeer
      <4>2. CASE \E q \in ConnectNativeRaises(p, n) : SetPeer(e, f, q)
        <5>1. PICK q \in ConnectNativeRaises(p, n) : SetPeer(e, f, q)
          BY <4>2
        <5>2. q.id = p.id /\ q.remoteId = p.remoteId /\ q.state = p.state
          BY <1>b, <2>1, <5>1, ConnectNativeKeeps
        <5>3. /\ peers'[e][f] = q
              /\ \A g, h \in Engines : ~(g = e /\ h = f) => peers'[g][h] = peers[g][h]
          BY <2>1, <5>1, SetEntry
        <5> QED BY <5>2, <5>3 DEF ConnectStep, ReadyStep, DropStep
      <4> QED BY <2>4, <4>1, <4>2
    <3> HIDE DEF f, p, n
    <3> QED BY <2>1, <2>2, <3>1, <3>2, <3>3, OwnSteps
  <2> QED BY <1>2, <2>3, <2>4 DEF ConnectReply
<1>3. ASSUME NEW e \in Engines, ReadyReply(e) PROVE Steps
  <2> DEFINE f == call[e].to
             p == peers[e][f]
             n == rpc[e].version
             s == [ImportSnapshot(p, n) EXCEPT !.state = "READY"]
  <2>1. /\ call[e].op = "connect" /\ f \in Engines /\ n \in Nat /\ p \in Peers
        /\ rpc[e].status = "replied" /\ rpc[e].req.method = "Ready"
        /\ rpc[e].req.to = f /\ rpc[e].req.id = call[e].id
        /\ UNCHANGED <<life, published, acked, late, created, timeouts, restarts>>
    BY <1>3, <1>a, <1>b, CallType, RpcType DEF ReadyReply, AskInv
  <2>2. FaultStep
    BY <2>1 DEF FaultStep, TypeOK
  <2>3. /\ rpc'[e].status = "none" /\ call'[e].op = "idle"
        /\ \A d \in Engines : d # e => rpc'[d] = rpc[d] /\ call'[d] = call[d]
    BY <1>3, ReturnEntry DEF ReadyReply
  <2>4. PublishStep(e)
    BY <2>1, <2>3 DEF PublishStep, TypeOK
  <2>5. /\ Goes(e) /\ ConnectStep(e, f) /\ ReadyStep(e, f) /\ DropStep(e, f)
        /\ \A g, h \in Engines : ~(g = e /\ h = f) => peers'[g][h] = peers[g][h]
    <3>1. CASE RequirePeer(e) /\ SetPeer(e, f, s)
      <4>1. /\ peers'[e][f] = s
            /\ \A g, h \in Engines : ~(g = e /\ h = f) => peers'[g][h] = peers[g][h]
        BY <2>1, <3>1, SetEntry
      <4>2. /\ s.id = p.id /\ s.remoteId = p.remoteId /\ s.state = "READY"
            /\ s.remoteVersion >= n
        BY <2>1, ImportEffect
      <4> HIDE DEF s
      <4> QED BY <2>1, <2>3, <3>1, <4>1, <4>2
              DEF Goes, ConnectStep, ReadyStep, DropStep
    <3>2. CASE \E q \in ImportSnapshotRaises(p, n) : SetPeer(e, f, q)
      <4>1. PICK q \in ImportSnapshotRaises(p, n) : SetPeer(e, f, q)
        BY <3>2
      <4>2. /\ peers'[e][f] = q
            /\ \A g, h \in Engines : ~(g = e /\ h = f) => peers'[g][h] = peers[g][h]
        BY <2>1, <4>1, SetEntry
      <4>3. /\ q.id = p.id /\ q.remoteId = p.remoteId /\ q.state = p.state
            /\ NativeFaults
        BY <2>1, <4>1, ImportEffect
      <4> QED BY <2>1, <2>3, <4>2, <4>3
              DEF Goes, ConnectStep, ReadyStep, DropStep
    <3>3. CASE ~RequirePeer(e) /\ UNCHANGED peers
      BY <2>1, <2>3, <3>3, QuietPeer DEF Goes, RequirePeer
    <3> QED BY <1>3, <3>1, <3>2, <3>3 DEF ReadyReply
  <2> HIDE DEF f, p, n, s
  <2> QED BY <2>1, <2>2, <2>3, <2>4, <2>5, OwnSteps DEF RpcStep
<1>4. ASSUME NEW e \in Engines,
             \/ RegisterCall(e) \/ Publish(e) \/ CloseCall(e) \/ PublishReturn(e)
      PROVE  Steps
  <2>1. /\ UNCHANGED peers /\ rpc'[e].status = "none" /\ rpc[e].status = "none"
        /\ \A d \in Engines : d # e => rpc'[d] = rpc[d] /\ call'[d] = call[d]
        /\ \A d \in Engines : d # e =>
             acked'[d] = acked[d] /\ published'[d] = published[d]
    <3>1. rpc[e].status = "none"
      BY <1>4, <1>a DEF AskInv, RegisterCall, Publish, CloseCall, PublishReturn
    <3> QED BY <1>4, <3>1, ReturnEntry
            DEF RegisterCall, Publish, CloseCall, PublishReturn, TypeOK
  <2>2. RpcStep(e)
    BY <2>1 DEF RpcStep, Goes
  <2>3. PublishStep(e)
    <3>1. CASE RegisterCall(e) \/ CloseCall(e)
      BY <3>1 DEF RegisterCall, CloseCall, PublishStep, TypeOK
    <3>2. CASE Publish(e)
      BY <3>2 DEF Publish, PublishStep, TypeOK
    <3>3. CASE PublishReturn(e)
      BY <2>1, <3>3, ReturnEntry DEF PublishReturn, PublishStep, TypeOK
    <3> QED BY <1>4, <3>1, <3>2, <3>3
  <2>4. FaultStep
    BY <1>4 DEF RegisterCall, Publish, CloseCall, PublishReturn, FaultStep, TypeOK
  <2> QED BY <2>1, <2>2, <2>3, <2>4, StillSteps
<1>5. ASSUME NEW e \in Engines, PublishNext(e) PROVE Steps
  <2>1. PICK t \in call[e].todo :
          /\ call' = [call EXCEPT ![e] =
                        [op |-> "publish", version |-> call[e].version,
                         todo |-> call[e].todo \ {t}]]
          /\ Send(e, "Changed", t[1], t[2], call[e].version)
    BY <1>5 DEF PublishNext
  <2>2. /\ call[e].op = "publish" /\ rpc[e].status = "none"
        /\ UNCHANGED <<life, peers, published, acked, late, created, timeouts, restarts>>
    BY <1>5 DEF PublishNext
  <2>3. t[1] \in Engines /\ t[2] \in Nat /\ t = <<t[1], t[2]>>
    BY <2>1, <2>2, CallType
  <2>4. /\ rpc'[e].status = "sent" /\ rpc'[e].req.method = "Changed"
        /\ rpc'[e].req.to = t[1] /\ rpc'[e].req.id = t[2]
        /\ rpc'[e].req.version = call[e].version
        /\ \A d \in Engines : d # e => rpc'[d] = rpc[d]
    BY <2>1, SendEntry
  <2>5. /\ call'[e].op = "publish" /\ call'[e].version = call[e].version
        /\ call'[e].todo = call[e].todo \ {t}
        /\ \A d \in Engines : d # e => call'[d] = call[d]
    BY <2>1 DEF TypeOK
  <2>6. Sends(e)
    BY <2>1, <2>2, <2>3, <2>4, <2>5 DEF Sends
  <2>7. RpcStep(e) /\ PublishStep(e)
    BY <2>2, <2>4, <2>5, <2>6 DEF RpcStep, PublishStep, TypeOK
  <2>8. FaultStep
    BY <2>2 DEF FaultStep, TypeOK
  <2> QED BY <2>2, <2>4, <2>5, <2>7, <2>8, StillSteps
<1>6. ASSUME NEW e \in Engines,
             ChangedReply(e) \/ CloseReply(e) \/ CallRaises(e) \/ Timeout(e)
      PROVE  Steps
  <2>1. /\ UNCHANGED <<peers, published, acked, life, restarts>>
        /\ rpc'[e].status = "none"
        /\ \A d \in Engines : d # e => rpc'[d] = rpc[d] /\ call'[d] = call[d]
    BY <1>6, ReturnEntry
       DEF ChangedReply, CloseReply, CallRaises, Timeout, TypeOK, NoRpc
  <2>2. RpcStep(e)
    <3>1. \/ timeouts' # timeouts
          \/ rpc[e].status = "raised"
          \/ rpc[e].status = "replied" /\ rpc[e].req.method # "Ready"
      BY <1>6 DEF ChangedReply, CloseReply, CallRaises, Timeout, TypeOK
    <3> QED BY <2>1, <3>1 DEF RpcStep, Goes
  <2>3. PublishStep(e)
    <3>1. CASE ChangedReply(e)
      BY <2>1, <3>1 DEF ChangedReply, PublishStep, TypeOK
    <3>2. CASE CloseReply(e) \/ CallRaises(e) \/ Timeout(e)
      BY <2>1, <3>2, ReturnEntry DEF CloseReply, CallRaises, Timeout, PublishStep, TypeOK
    <3> QED BY <1>6, <3>1, <3>2
  <2>4. FaultStep
    BY <1>6 DEF ChangedReply, CloseReply, CallRaises, Timeout, FaultStep, TypeOK
  <2> QED BY <2>1, <2>2, <2>3, <2>4, StillSteps
<1>7. ASSUME NEW e \in Engines, NEW f \in Engines, DisconnectCall(e, f)
      PROVE  Steps
  <2>1. /\ peers'[e][f] = NoPeer
        /\ \A g, h \in Engines : ~(g = e /\ h = f) => peers'[g][h] = peers[g][h]
        /\ rpc'[e].status = "sent" /\ rpc'[e].req.method = "Close"
        /\ rpc'[e].req.to = f /\ rpc'[e].req.id = peers[e][f].id
        /\ \A d \in Engines : d # e => rpc'[d] = rpc[d]
    BY <1>7, SetEntry, SendEntry DEF DisconnectCall
  <2>2. /\ call'[e].op = "disconnect" /\ call[e].op = "idle"
        /\ \A d \in Engines : d # e => call'[d] = call[d]
        /\ UNCHANGED <<life, published, acked, late, timeouts, restarts>>
        /\ peers[e][f].state = "READY" /\ rpc[e].status = "none"
    BY <1>7, <1>a DEF DisconnectCall, AskInv, TypeOK
  <2>3. NoPeer.id = 0 /\ NoPeer.remoteId = 0 /\ NoPeer.state = "NONE"
    BY DEF NoPeer
  <2>4. RpcStep(e) /\ PublishStep(e)
    BY <2>1, <2>2, <2>3 DEF RpcStep, Sends, PublishStep, TypeOK
  <2>5. ConnectStep(e, f) /\ ReadyStep(e, f) /\ DropStep(e, f)
    BY <2>1, <2>2, <2>3 DEF ConnectStep, ReadyStep, DropStep
  <2>6. FaultStep
    BY <2>2 DEF FaultStep, TypeOK
  <2> QED BY <2>1, <2>2, <2>4, <2>5, <2>6, OwnSteps
<1>8. ASSUME NEW e \in Engines, CloseReturn(e) PROVE Steps
  <2>1. /\ call[e].op = "close" /\ rpc[e].status = "none" /\ life'[e] # "open"
        /\ call'[e].op = "idle" /\ acked'[e] = 0
        /\ \A d \in Engines :
             d # e => /\ call'[d] = call[d] /\ acked'[d] = acked[d]
                      /\ published'[d] = published[d] /\ life'[d] = life[d]
        /\ late' \subseteq late /\ UNCHANGED <<timeouts, restarts>>
    BY <1>8, <1>a DEF CloseReturn, AskInv, TypeOK, NoCall
  <2>2. \A d \in Engines :
          \/ rpc'[d] = rpc[d]
          \/ /\ d # e /\ rpc[d].status = "sent" /\ rpc'[d].status = "raised"
             /\ rpc'[d].req = rpc[d].req /\ rpc[d].req.to = e
    BY <1>8, <2>1 DEF CloseReturn
  <2>3. /\ \A f \in Engines : peers'[e][f] = NoPeer
        /\ \A g, h \in Engines : g # e => peers'[g][h] = peers[g][h]
    BY <1>8 DEF CloseReturn, TypeOK
  <2>4. NoPeer.id = 0 /\ NoPeer.remoteId = 0 /\ NoPeer.state = "NONE"
    BY DEF NoPeer
  <2>5. ASSUME NEW d \in Engines PROVE RpcStep(d) /\ PublishStep(d)
    <3>1. CASE d = e
      BY <2>1, <2>2, <2>3, <2>4, <3>1 DEF RpcStep, Goes, PublishStep
    <3>2. CASE d # e
      <4>1. RpcStep(d)
        BY <2>1, <2>2, <3>2 DEF RpcStep
      <4>2. published[d] <= published'[d]
        BY <2>1, <3>2 DEF TypeOK
      <4> QED BY <2>1, <2>2, <3>2, <4>1, <4>2 DEF PublishStep
    <3> QED BY <3>1, <3>2
  <2>6. ASSUME NEW g \in Engines, NEW h \in Engines
        PROVE  ConnectStep(g, h) /\ ReadyStep(g, h) /\ DropStep(g, h)
    <3>1. CASE g = e
      BY <2>1, <2>3, <2>4, <3>1 DEF ConnectStep, ReadyStep, DropStep
    <3>2. CASE g # e
      BY <2>3, <3>2, QuietPeer
    <3> QED BY <3>1, <3>2
  <2>7. FaultStep
    BY <2>1 DEF FaultStep, TypeOK
  <2> QED BY <2>5, <2>6, <2>7 DEF Steps
<1>9. ASSUME \/ \E e \in Engines : Restart(e)
             \/ UNCHANGED vars
      PROVE  Steps
  <2>1. UNCHANGED <<peers, published, acked, call, rpc, late, timeouts>>
    BY <1>9 DEF Restart, vars
  <2>2. FaultStep
    BY <1>9 DEF Restart, FaultStep, TypeOK, vars
  <2>3. \A e \in Engines : published[e] <= published'[e]
    BY <2>1 DEF TypeOK
  <2> QED BY <2>1, <2>2, <2>3, QuietRpc, QuietPeer DEF Steps
<1>10. ASSUME NEW r \in InFlight, RefuseClosed(r) PROVE Steps
  <2>1. r.from \in Engines /\ r.to \in Engines
    BY RequestType
  <2> QED BY <1>10, <2>1, QuietPeer, AnswerSteps DEF RefuseClosed
<1>11. ASSUME NEW r \in InFlight, Connect(r) PROVE Steps
  <2> DEFINE e == r.to
             f == r.from
             p == PeerFor(e, f)
  <2>1. /\ e \in Engines /\ f \in Engines /\ r.id \in Nat /\ p \in Peers
        /\ r.method = "Connect" /\ r.id # 0
        /\ UNCHANGED <<life, published, acked, call, timeouts, restarts>>
    BY <1>11, RequestType, PeerForType DEF Connect, IInv, RequestInv
  <2>2. /\ peers[e][f].id # 0 => p = peers[e][f]
        /\ p.state \in ConnectedStates => p = peers[e][f]
        /\ p.remoteId \in {0, peers[e][f].remoteId}
    BY <1>b, <2>1 DEF PeerFor, NewPeer, ConnectedStates
  <2>3. CASE \E q \in ConnectNative(p, r.id) : SetPeer(e, f, q) /\ Reply(r, q.id, 0)
    <3>1. PICK q \in ConnectNative(p, r.id) : SetPeer(e, f, q) /\ Reply(r, q.id, 0)
      BY <2>3
    <3>2. /\ q.id = p.id /\ q.remoteId = r.id
          /\ q.state = "READY" => q = p
      BY <2>1, <3>1, ConnectNativeKeeps
    <3>3. /\ peers'[e][f] = q
          /\ \A g, h \in Engines : ~(g = e /\ h = f) => peers'[g][h] = peers[g][h]
      BY <2>1, <3>1, SetEntry
    <3>4. r.nr = 0 => Answers(f)
      BY <2>1, <3>1, <3>2, <3>3, ReplyEntry DEF Answers
    <3>5. ConnectStep(e, f)
      BY <2>1, <3>2, <3>3 DEF ConnectStep
    <3>6. ReadyStep(e, f) /\ DropStep(e, f)
      BY <2>2, <3>2, <3>3 DEF ReadyStep, DropStep, ConnectedStates
    <3> HIDE DEF p
    <3> QED BY <2>1, <3>1, <3>3, <3>4, <3>5, <3>6, AnswerSteps
  <2>4. CASE \E q \in ConnectNativeRaises(p, r.id) : SetPeer(e, f, q) /\ Raise(r)
    <3>1. PICK q \in ConnectNativeRaises(p, r.id) : SetPeer(e, f, q) /\ Raise(r)
      BY <2>4
    <3>2. q.id = p.id /\ q.remoteId = p.remoteId /\ q.state = p.state
      BY <2>1, <3>1, ConnectNativeKeeps
    <3>3. /\ peers'[e][f] = q
          /\ \A g, h \in Engines : ~(g = e /\ h = f) => peers'[g][h] = peers[g][h]
      BY <2>1, <3>1, SetEntry
    <3>4. ConnectStep(e, f) /\ ReadyStep(e, f) /\ DropStep(e, f)
      BY <2>2, <3>2, <3>3 DEF ConnectStep, ReadyStep, DropStep, ConnectedStates
    <3> HIDE DEF p
    <3> QED BY <2>1, <3>1, <3>3, <3>4, AnswerSteps
  <2>5. CASE UNCHANGED peers /\ Raise(r)
    BY <2>1, <2>5, QuietPeer, AnswerSteps
  <2> QED BY <1>11, <2>3, <2>4, <2>5 DEF Connect
<1>12. ASSUME NEW r \in InFlight, Ready(r) \/ Changed(r) PROVE Steps
  <2> DEFINE e == r.to
             f == r.from
             p == peers[e][f]
             s == [ImportSnapshot(p, r.version) EXCEPT !.state = "READY"]
             t == ImportSnapshot(p, r.version)
  <2>1. /\ e \in Engines /\ f \in Engines /\ p \in Peers /\ r.version \in Nat
        /\ r.method \in {"Ready", "Changed"}
        /\ UNCHANGED <<life, published, acked, call, timeouts, restarts>>
    BY <1>12, <1>b, RequestType DEF Ready, Changed
  <2>2. CASE /\ r.method = "Ready" /\ FindConnection(r)
             /\ SetPeer(e, f, s) /\ Reply(r, 0, published[e])
    <3>1. /\ peers'[e][f] = s
          /\ \A g, h \in Engines : ~(g = e /\ h = f) => peers'[g][h] = peers[g][h]
      BY <2>1, <2>2, SetEntry
    <3>2. /\ s.id = p.id /\ s.remoteId = p.remoteId /\ s.state = "READY"
          /\ s.remoteVersion >= r.version
      BY <2>1, ImportEffect
    <3>3. p.remoteId = r.id
      BY <2>2 DEF FindConnection
    <3> HIDE DEF s
    <3>4. r.nr = 0 => Answers(f)
      BY <2>1, <2>2, <3>1, <3>2, <3>3, ReplyEntry DEF Answers
    <3>5. ReadyStep(e, f)
      BY <2>1, <2>2, <3>1, <3>2, <3>3, ReplyEntry DEF ReadyStep
    <3>6. ConnectStep(e, f) /\ DropStep(e, f)
      BY <3>1, <3>2 DEF ConnectStep, DropStep
    <3> QED BY <2>1, <2>2, <3>1, <3>4, <3>5, <3>6, AnswerSteps
  <2>3. CASE /\ r.method = "Changed" /\ FindConnection(r)
             /\ SetPeer(e, f, t) /\ Reply(r, 0, 0)
    <3>1. /\ peers'[e][f] = t
          /\ \A g, h \in Engines : ~(g = e /\ h = f) => peers'[g][h] = peers[g][h]
      BY <2>1, <2>3, SetEntry
    <3>2. /\ t.id = p.id /\ t.remoteId = p.remoteId /\ t.state = p.state
          /\ t.remoteVersion >= r.version
      BY <2>1, ImportEffect
    <3>3. p.remoteId = r.id
      BY <2>3 DEF FindConnection
    <3> HIDE DEF t
    <3>4. r.nr = 0 => Answers(f)
      BY <2>1, <2>3, <3>1, <3>2, <3>3, ReplyEntry DEF Answers
    <3>5. ConnectStep(e, f) /\ ReadyStep(e, f) /\ DropStep(e, f)
      BY <3>1, <3>2 DEF ConnectStep, ReadyStep, DropStep
    <3> QED BY <2>1, <2>3, <3>1, <3>4, <3>5, AnswerSteps
  <2>4. CASE \E q \in ImportSnapshotRaises(p, r.version) : SetPeer(e, f, q) /\ Raise(r)
    <3>1. PICK q \in ImportSnapshotRaises(p, r.version) : SetPeer(e, f, q) /\ Raise(r)
      BY <2>4
    <3>2. /\ peers'[e][f] = q
          /\ \A g, h \in Engines : ~(g = e /\ h = f) => peers'[g][h] = peers[g][h]
      BY <2>1, <3>1, SetEntry
    <3>3. q.id = p.id /\ q.remoteId = p.remoteId /\ q.state = p.state
      BY <2>1, <3>1, ImportEffect
    <3>4. ConnectStep(e, f) /\ ReadyStep(e, f) /\ DropStep(e, f)
      BY <3>2, <3>3 DEF ConnectStep, ReadyStep, DropStep
    <3> QED BY <2>1, <3>1, <3>2, <3>4, AnswerSteps
  <2>5. CASE UNCHANGED peers /\ Raise(r)
    BY <2>1, <2>5, QuietPeer, AnswerSteps
  <2> QED BY <1>12, <2>2, <2>3, <2>4, <2>5 DEF Ready, Changed
<1>13. ASSUME NEW r \in InFlight, Close(r) PROVE Steps
  <2> DEFINE e == r.to
             f == r.from
             p == peers[e][f]
  <2>1. /\ e \in Engines /\ f \in Engines /\ r.method = "Close" /\ r.id # 0
        /\ UNCHANGED <<life, published, acked, call, timeouts, restarts>>
    BY <1>13, RequestType DEF Close, IInv, RequestInv
  <2>2. NoPeer.id = 0 /\ NoPeer.remoteId = 0 /\ NoPeer.state = "NONE"
    BY DEF NoPeer
  <2>3. CASE ClosesPeer(r) /\ SetPeer(e, f, NoPeer) /\ Reply(r, 0, 0)
    <3>1. /\ peers'[e][f] = NoPeer
          /\ \A g, h \in Engines : ~(g = e /\ h = f) => peers'[g][h] = peers[g][h]
      BY <2>1, <2>3, SetEntry
    <3>2. r.nr = 0 => Answers(f)
      BY <2>1, <2>2, <2>3, <3>1, ReplyEntry DEF Answers
    <3>3. ConnectStep(e, f) /\ ReadyStep(e, f) /\ DropStep(e, f)
      BY <2>1, <2>2, <2>3, <3>1 DEF ConnectStep, ReadyStep, DropStep, ClosesPeer
    <3> QED BY <2>1, <2>3, <3>1, <3>2, <3>3, AnswerSteps
  <2>4. CASE ~ClosesPeer(r) /\ UNCHANGED peers /\ Reply(r, 0, 0)
    <3>1. p.remoteId # r.id
      <4>1. p.state = "NONE" => p.remoteId = 0
        BY <2>1 DEF IInv, PeerInv
      <4> QED BY <2>1, <2>4, <4>1 DEF ClosesPeer
    <3>2. r.nr = 0 => Answers(f)
      BY <2>1, <2>4, <3>1, ReplyEntry DEF Answers
    <3> QED BY <2>1, <2>4, <3>2, QuietPeer, AnswerSteps
  <2>5. CASE NativeFaults /\ UNCHANGED peers /\ Raise(r)
    BY <2>1, <2>5, QuietPeer, AnswerSteps
  <2> QED BY <1>13, <2>3, <2>4, <2>5 DEF Close
<1> QED BY <1>1, <1>2, <1>3, <1>4, <1>5, <1>6, <1>7, <1>8, <1>9, <1>10, <1>11,
           <1>12, <1>13 DEF Next, Application, Proceed, Handle

-----------------------------------------------------------------------------
(* Peers that live on *)

\* A peer that an id still names is the peer it named before.
LEMMA Lives ==
  ASSUME TypeOK, IInv, Grows, PeersKept, NEW e \in Engines, NEW f \in Engines,
         NEW i \in Nat, i # 0, i <= created[e][f], peers'[e][f].id = i
  PROVE  /\ peers[e][f].id = i
         /\ peers[e][f].remoteId # 0 => peers'[e][f].remoteId = peers[e][f].remoteId
         /\ peers[e][f].state = "READY" => peers'[e][f].state = "READY"
         /\ peers'[e][f].remoteVersion >= peers[e][f].remoteVersion
<1>1. peers'[e][f].id \in {0, peers[e][f].id, created[e][f] + 1}
  BY DEF Grows
<1>2. peers[e][f].id = i
  BY <1>1, Numbers
<1>3. KeepsPairing(peers[e][f], peers'[e][f])
  BY DEF PeersKept
<1> QED BY <1>2, <1>3 DEF KeepsPairing

\* What holds of a peer that is connected and lives on.
LEMMA Alive ==
  ASSUME TypeOK, IInv, NEW e \in Engines, NEW f \in Engines
  PROVE  /\ peers[e][f].id <= created[e][f] /\ peers[e][f].id \in Nat
         /\ peers[e][f].remoteId <= created[f][e] /\ peers[e][f].remoteId \in Nat
         /\ peers[e][f].remoteId # 0 =>
              peers[e][f].id # 0 /\ peers[e][f].state \in ConnectedStates
         /\ peers[e][f].state = "NONE" <=> peers[e][f].id = 0
         /\ peers[e][f].id # 0 => e # f
BY Numbers DEF IInv, PeerInv, ConnectedStates, PeerStates

\* Two peers that are linked after a step in which the first, connected before,
\* lives on were linked before it, and the second lives on too.
LEMMA Relinked ==
  ASSUME TypeOK, IInv, Grows, PeersKept, NEW e \in Engines, NEW f \in Engines,
         peers'[e][f].id = peers[e][f].id, peers[e][f].remoteId # 0, Linked(e, f)'
  PROVE  /\ Linked(e, f) /\ peers'[e][f].remoteId = peers[e][f].remoteId
         /\ peers'[f][e].id = peers[f][e].id /\ peers[f][e].id # 0
         /\ peers[f][e].remoteId # 0 => peers'[f][e].remoteId = peers[f][e].remoteId
         /\ peers[f][e].state = "READY" => peers'[f][e].state = "READY"
         /\ peers'[f][e].remoteVersion >= peers[f][e].remoteVersion
<1>1. peers[e][f].id # 0 /\ peers[e][f].id <= created[e][f] /\ peers[e][f].id \in Nat
  BY Alive
<1>2. peers'[e][f].remoteId = peers[e][f].remoteId
  BY <1>1, Lives
<1>3. /\ peers'[f][e].id = peers[e][f].remoteId
      /\ peers[e][f].remoteId <= created[f][e] /\ peers[e][f].remoteId \in Nat
  BY <1>2, Alive DEF Linked
<1> QED BY <1>2, <1>3, Lives DEF Linked

-----------------------------------------------------------------------------
(* The answers *)

\* What a step is, for the proofs of the invariants.
Step == /\ TypeOK /\ TypeOK' /\ IInv /\ IInv' /\ AgreeInv
        /\ Steps /\ Grows /\ PeersKept

LEMMA StepNext == TypeOK /\ IInv /\ AgreeInv /\ [Next]_vars => Step
BY TypeNext, InvNext, KeepsNext, StepsNext DEF Step

LEMMA ConnectedNext == Step => ConnectedInv'
<1> SUFFICES ASSUME Step, NEW e \in Engines, NEW f \in Engines,
                    peers'[e][f].state \in ConnectedStates
             PROVE  peers'[e][f].remoteId # 0
  BY DEF ConnectedInv
<1>1. /\ TypeOK /\ IInv /\ AgreeInv /\ Grows /\ PeersKept
      /\ ConnectStep(e, f) /\ ReadyStep(e, f)
  BY DEF Step, Steps
<1>2. ConnectedInv /\ AskInv(e)
  BY <1>1 DEF AgreeInv
<1>3. CASE peers'[e][f].state = "CONNECTED"
  BY <1>1, <1>2, <1>3 DEF ConnectStep, ConnectedInv, ConnectedStates
<1>4. CASE peers'[e][f].state = "READY"
  <2>1. peers[e][f].remoteId # 0 /\ peers'[e][f].id = peers[e][f].id
    <3>1. CASE peers[e][f].state = "READY"
      BY <1>1, <1>2, <1>4, <3>1 DEF ConnectedInv, ConnectedStates, ReadyStep
    <3>2. CASE /\ call[e].op = "connect" /\ call[e].to = f /\ RequirePeer(e)
               /\ rpc[e].status = "replied" /\ rpc[e].req.method = "Ready"
      BY <1>1, <1>2, <1>4, <3>2 DEF AskInv, RequirePeer, ReadyStep
    <3>3. CASE \E r \in InFlight :
                 r.method = "Ready" /\ r.from = f /\ r.to = e
                   /\ r.id = peers[e][f].remoteId
      BY <1>1, <1>4, <3>3 DEF IInv, RequestInv, ReadyStep
    <3> QED BY <1>1, <1>4, <3>1, <3>2, <3>3 DEF ReadyStep
  <2> QED BY <1>1, <2>1, Alive, Lives
<1> QED BY <1>3, <1>4 DEF ConnectedStates

LEMMA AskNext == Step => \A e \in Engines : AskInv(e)'
<1> SUFFICES ASSUME Step, NEW e \in Engines PROVE AskInv(e)'
  OBVIOUS
<1>1. /\ TypeOK /\ TypeOK' /\ IInv /\ IInv' /\ AgreeInv /\ Grows /\ PeersKept
      /\ RpcStep(e) /\ PublishStep(e)
  BY DEF Step, Steps
<1>2. /\ ConnectedInv /\ AskInv(e) /\ CallInv(e) /\ RpcInv(e)
      /\ CallInv(e)' /\ RpcInv(e)'
  BY <1>1 DEF AgreeInv, IInv
<1>3. \A f \in Engines : /\ created[e][f] \in Nat /\ created'[e][f] \in Nat
                         /\ created[e][f] <= created'[e][f]
  BY <1>1 DEF TypeOK, Grows
<1>4. acked'[e] <= published'[e]
  <2>1. /\ acked[e] \in Nat /\ published[e] \in Nat /\ published'[e] \in Nat
        /\ call[e].op = "publish" => call[e].version <= published[e]
    BY <1>1, <1>2 DEF TypeOK, CallInv
  <2> QED BY <1>1, <1>2, <2>1 DEF AskInv, PublishStep
\* A peer that was told of, or was to be told of, memories is connected still.
<1>5. ASSUME NEW f \in Engines, NEW i \in Nat, i # 0, i <= created[e][f],
             peers[e][f].id = i => peers[e][f].remoteId # 0,
             peers'[e][f].id = i
      PROVE  peers'[e][f].remoteId # 0
  BY <1>1, <1>5, Lives
<1>6. ASSUME call'[e].op = "publish"
      PROVE  \A t \in call'[e].todo :
               peers'[e][t[1]].id = t[2] => peers'[e][t[1]].remoteId # 0
  <2>1. CASE /\ call[e].op = "publish"
             /\ call'[e].todo = call[e].todo \/ Sends(e)
    <3>1. call'[e].todo \subseteq call[e].todo
      BY <1>1, <1>6, <2>1 DEF Sends
    <3>2. \A t \in call[e].todo :
            /\ t[1] \in Engines /\ t[2] \in Nat /\ t[2] # 0
            /\ t[2] <= created[e][t[1]]
            /\ peers[e][t[1]].id = t[2] => peers[e][t[1]].remoteId # 0
      BY <1>1, <1>2, <2>1, CallType DEF CallInv, AskInv
    <3> QED BY <1>5, <3>1, <3>2
  <2>2. CASE /\ UNCHANGED peers
             /\ call'[e].todo = {<<f, peers[e][f].id>> :
                                  f \in {g \in Engines : peers[e][g].state = "READY"}}
    BY <1>2, <2>2 DEF ConnectedInv, ConnectedStates
  <2> QED BY <1>1, <1>6, <2>1, <2>2 DEF PublishStep
<1>7. CASE /\ rpc[e].status # "none" /\ rpc'[e].status # "none"
           /\ rpc'[e].req = rpc[e].req /\ call'[e] = call[e]
  <2> DEFINE r == rpc[e].req
  <2>1. /\ r.to \in Engines /\ r.id \in Nat /\ r.version \in Nat
    BY <1>1, <1>7, RpcType DEF Requests
  <2>2. r.to # e /\ r.id # 0 /\ r.id <= created[e][r.to] /\ r.id <= created'[e][r.to]
    BY <1>2, <1>3, <1>7, <2>1 DEF AskInv
  <2>3. r.method = "Ready" => acked'[e] <= r.version
    BY <1>1, <1>2, <1>7, <2>1 DEF AskInv, PublishStep
  <2>4. r.method \in {"Ready", "Changed"} /\ peers'[e][r.to].id = r.id =>
          peers'[e][r.to].remoteId # 0
    BY <1>2, <1>5, <1>7, <2>1, <2>2 DEF AskInv
  <2> QED BY <1>2, <1>4, <1>6, <1>7, <2>2, <2>3, <2>4 DEF AskInv
<1>8. CASE rpc'[e].status = "none"
  BY <1>4, <1>6, <1>8 DEF AskInv
<1>9. CASE Sends(e)
  <2> DEFINE r == rpc'[e].req
  <2>1. /\ r \in InFlight' /\ r.from = e
    BY <1>2, <1>9 DEF Sends, InFlight, RpcInv
  <2>2. r.to # e /\ r.id # 0 /\ r.id <= created'[e][r.to]
    BY <1>1, <2>1 DEF IInv, RequestInv
  <2>3. published[e] \in Nat
    BY <1>1 DEF TypeOK
  <2>4. CASE r.method = "Connect" \/ r.method = "Close"
    BY <1>4, <1>6, <1>9, <2>2, <2>4 DEF AskInv, Sends
  <2>5. CASE r.method = "Ready"
    <3>1. /\ call[e].op = "connect" /\ call'[e] = call[e]
          /\ call[e].to = r.to /\ call[e].id = r.id /\ r.version = published[e]
          /\ rpc[e].status = "replied" /\ rpc[e].req.method = "Connect"
          /\ peers'[e][r.to].remoteId = rpc[e].id /\ acked'[e] = acked[e]
      BY <1>9, <2>5 DEF Sends
    <3>2. rpc[e].id # 0
      BY <1>2, <3>1 DEF RpcInv
    <3>3. acked'[e] <= r.version
      BY <1>2, <3>1 DEF AskInv
    <3> QED BY <1>4, <2>2, <2>5, <3>1, <3>2, <3>3 DEF AskInv
  <2>6. CASE r.method = "Changed"
    <3>1. /\ UNCHANGED peers /\ call[e].op = "publish" /\ call'[e].op = "publish"
          /\ r.version = call[e].version /\ call'[e].version = call[e].version
          /\ <<r.to, r.id>> \in call[e].todo
      BY <1>9, <2>6 DEF Sends
    <3>2. peers[e][r.to].id = r.id => peers[e][r.to].remoteId # 0
      BY <1>2, <3>1 DEF AskInv
    <3> QED BY <1>4, <1>6, <2>2, <2>6, <3>1, <3>2 DEF AskInv
  <2>7. r.method \in {"Connect", "Close", "Ready", "Changed"}
    BY <1>9 DEF Sends
  <2> QED BY <2>4, <2>5, <2>6, <2>7
<1> QED BY <1>1, <1>7, <1>8, <1>9 DEF RpcStep, Goes

LEMMA AnswerNext == Step => \A e \in Engines : AnswerInv(e)'
<1> SUFFICES ASSUME Step, NEW e \in Engines, rpc'[e].status = "replied"
             PROVE  AnswerInv(e)'
  BY DEF AnswerInv
<1>1. /\ TypeOK /\ IInv /\ AgreeInv /\ Grows /\ PeersKept /\ RpcStep(e)
  BY DEF Step, Steps
<1>2. AskInv(e) /\ AnswerInv(e) /\ RpcInv(e)
  BY <1>1 DEF AgreeInv, IInv
<1> DEFINE r == rpc[e].req
<1>3. rpc'[e].req = r /\ rpc[e].status # "none"
  BY <1>1 DEF RpcStep, Goes, Sends
<1>4. PICK f \in Engines :
        f = r.to /\ r.id \in Nat /\ r.id # 0 /\ r.id <= created[e][f]
  BY <1>1, <1>2, <1>3, RpcType DEF Requests, AskInv
<1>5. CASE rpc[e].status = "replied" /\ rpc'[e] = rpc[e]
  <2>1. ASSUME r.method = "Connect", peers'[f][e].id = rpc[e].id
        PROVE  peers'[f][e].remoteId = r.id
    <3>1. rpc[e].id \in Nat /\ rpc[e].id # 0 /\ rpc[e].id <= created[f][e]
      BY <1>1, <1>2, <1>4, <1>5, <2>1, RpcType DEF RpcInv, AskInv
    <3>2. peers[f][e].id = rpc[e].id
      BY <1>1, <1>4, <2>1, <3>1, Lives
    <3>3. peers[f][e].remoteId = r.id
      BY <1>2, <1>4, <1>5, <2>1, <3>2 DEF AnswerInv
    <3> QED BY <1>1, <1>4, <2>1, <3>1, <3>3, Lives
  <2>2. ASSUME r.method \in {"Ready", "Changed"}, peers'[e][f].id = r.id, Linked(e, f)'
        PROVE  /\ peers'[f][e].remoteId = r.id
               /\ peers'[f][e].remoteVersion >= r.version
               /\ r.method = "Ready" => peers'[f][e].state = "READY"
    <3>1. peers[e][f].id = r.id
      BY <1>1, <1>4, <2>2, Lives
    <3>2. peers[e][f].remoteId # 0
      BY <1>2, <1>3, <1>4, <2>2, <3>1 DEF AskInv
    <3>3. /\ Linked(e, f)
          /\ peers[f][e].remoteId # 0 => peers'[f][e].remoteId = peers[f][e].remoteId
          /\ peers[f][e].state = "READY" => peers'[f][e].state = "READY"
          /\ peers'[f][e].remoteVersion >= peers[f][e].remoteVersion
      BY <1>1, <1>4, <2>2, <3>1, <3>2, Relinked
    <3>4. /\ peers[f][e].remoteId = r.id /\ peers[f][e].remoteVersion >= r.version
          /\ r.method = "Ready" => peers[f][e].state = "READY"
      BY <1>2, <1>4, <1>5, <2>2, <3>1, <3>3 DEF AnswerInv
    <3>5. /\ peers[f][e].remoteVersion \in Int /\ peers'[f][e].remoteVersion \in Int
          /\ r.version \in Int
      <4>1. TypeOK'
        BY DEF Step
      <4>2. peers'[f][e].remoteVersion \in Int
        BY <1>4, <4>1 DEF TypeOK, Peers
      <4> QED BY <1>1, <1>3, <1>4, <4>2, Numbers, RpcType DEF Requests
    <3> QED BY <1>4, <3>3, <3>4, <3>5
  <2> QED BY <1>4, <1>5, <2>1, <2>2 DEF AnswerInv
<1>6. CASE Answers(e)
  BY <1>3, <1>4, <1>6 DEF AnswerInv, Answers
<1> QED BY <1>1, <1>5, <1>6 DEF RpcStep, Goes, Sends

LEMMA AgreeInit == Init => AgreeInv
<1> SUFFICES ASSUME Init PROVE AgreeInv
  OBVIOUS
<1>1. \A e, f \in Engines : peers[e][f].state = "NONE"
  BY DEF Init, NoPeer
<1>2. \A e \in Engines : /\ rpc[e].status = "none" /\ call[e].op = "idle"
                         /\ acked[e] = 0 /\ published[e] = 0
  BY DEF Init, NoRpc, NoCall
<1>3. ConnectedInv
  BY <1>1 DEF ConnectedInv, ConnectedStates
<1>4. ASSUME NEW e \in Engines PROVE AskInv(e)
  <2>1. acked[e] <= published[e]
    BY <1>2
  <2> QED BY <1>2, <2>1 DEF AskInv
<1>5. \A e \in Engines : AnswerInv(e)
  BY <1>2 DEF AnswerInv
<1> QED BY <1>3, <1>4, <1>5 DEF AgreeInv

LEMMA AgreeInvariance == Spec => []AgreeInv
<1>1. TypeOK /\ IInv /\ AgreeInv /\ [Next]_vars => AgreeInv'
  BY StepNext, ConnectedNext, AskNext, AnswerNext DEF AgreeInv
<1> QED BY <1>1, AgreeInit, TypeCorrect, Invariance, PTL DEF Spec

(***************************************************************************)
(* An answered Ready or Changed has brought everything that the caller had *)
(* published (control.py:112, 186, 195), whatever is lost, late, repeated or*)
(* fails: a handler imports before it answers, and as long as the peer it  *)
(* imported into exists no step takes a memory from it.                    *)
(***************************************************************************)
THEOREM AnswersAreImported == Spec => []AnsweredIsImported
<1>1. AgreeInv => AnsweredIsImported
  BY DEF AgreeInv, AnswerInv, AnsweredIsImported
<1> QED BY <1>1, AgreeInvariance, PTL

-----------------------------------------------------------------------------
(* READY means both ends are connected, unless a call has timed out *)

\* An answered offer has been accepted by the peer that is connected to it, or
\* will be refused by the peer that made it.  Ready is only sent by a peer that
\* is connected to the one it is for.
OfferInv(f) ==
  LET r == rpc[f].req
      e == r.to
  IN  /\ (/\ rpc[f].status = "replied" /\ r.method = "Connect"
          /\ peers[f][e].id = r.id /\ peers[e][f].remoteId = r.id)
         => \/ rpc[f].id = peers[e][f].id
            \/ peers[f][e].remoteId \notin {0, rpc[f].id}
      /\ (/\ rpc[f].status = "sent" /\ r.method = "Ready"
          /\ peers[f][e].id = r.id /\ peers[e][f].remoteId = r.id)
         => peers[f][e].remoteId = peers[e][f].id

\* Nothing is late, and the two ends of a READY peer are each other's.
PairInv ==
  timeouts = 0 =>
    /\ late = {} /\ ReadyBothConnected
    /\ \A f \in Engines : rpc[f].status # "none" => OfferInv(f)

\* A step before which nothing has timed out, and in which nothing does.
TimelyStep ==
  /\ Step /\ timeouts = 0 /\ timeouts' = 0 /\ late = {} /\ late' = {}
  /\ ReadyBothConnected
  /\ \A f \in Engines : rpc[f].status # "none" => OfferInv(f)

LEMMA Timely == Step /\ PairInv /\ timeouts' = 0 => TimelyStep
<1> SUFFICES ASSUME Step, PairInv, timeouts' = 0 PROVE TimelyStep
  OBVIOUS
<1>1. timeouts <= timeouts' /\ timeouts \in Nat
  BY DEF Step, Steps, FaultStep, TypeOK
<1>2. timeouts = 0
  BY <1>1
<1>3. late' \subseteq late
  BY <1>2 DEF Step, Steps, FaultStep
<1> QED BY <1>2, <1>3 DEF TimelyStep, PairInv

\* Without late requests every request is one its caller waits for.
LEMMA Awaited ==
  ASSUME TimelyStep, NEW r \in InFlight
  PROVE  /\ r.from \in Engines /\ r.to \in Engines /\ r.nr = 0
         /\ rpc[r.from].status = "sent" /\ rpc[r.from].req = r
         /\ RequestInv(r)
<1>1. TypeOK /\ IInv /\ late = {}
  BY DEF TimelyStep, Step
<1>2. PICK c \in Engines : rpc[c].status = "sent" /\ r = rpc[c].req
  BY <1>1 DEF InFlight
<1>3. RpcInv(c)
  BY <1>1 DEF IInv
<1> QED BY <1>1, <1>2, <1>3, RequestType DEF RpcInv, IInv

\* How a peer comes to be connected to i: it was before, its own engine has
\* connected it to an answer that had been given by the peer that is connected
\* to it, or it has just accepted an offer.
LEMMA Offered ==
  ASSUME TimelyStep, NEW e \in Engines, NEW f \in Engines, NEW i \in Nat, i # 0,
         peers[f][e].id = i, peers'[e][f].remoteId = i
  PROVE  \/ peers[e][f].remoteId = i /\ peers'[e][f].id = peers[e][f].id
         \/ /\ rpc[e].status = "replied" /\ rpc[e].req.method = "Connect"
            /\ call[e].op = "connect" /\ call[e].to = f /\ rpc[e].req.to = f
            /\ rpc[e].req.id = peers[e][f].id
            /\ rpc[e].id = i /\ peers'[e][f].id = peers[e][f].id
            /\ peers[f][e].remoteId = peers'[e][f].id
            /\ peers[f][e].remoteId # 0
         \/ /\ rpc[f].status = "sent" /\ rpc[f].req.method = "Connect"
            /\ rpc[f].req.to = e
<1>1. /\ TypeOK /\ TypeOK' /\ IInv /\ IInv' /\ AgreeInv /\ Grows /\ PeersKept
      /\ ConnectStep(e, f) /\ DropStep(e, f)
  BY DEF TimelyStep, Step, Steps
<1>2. AskInv(e) /\ AnswerInv(e)
  BY <1>1 DEF AgreeInv
<1>3. CASE peers[e][f].remoteId = i
  <2>1. peers[e][f].id # 0
    BY <1>1, <1>3, Alive
  <2>2. peers'[e][f].id # 0
    BY <1>1 DEF IInv, PeerInv
  <2> QED BY <1>1, <1>3, <2>1, <2>2 DEF DropStep
<1>4. CASE /\ call[e].op = "connect" /\ call[e].to = f /\ RequirePeer(e)
           /\ rpc[e].status = "replied" /\ rpc[e].req.method = "Connect"
           /\ peers'[e][f].remoteId = rpc[e].id /\ peers'[e][f].id = peers[e][f].id
  <2>1. /\ rpc[e].req.to = f /\ rpc[e].req.id = peers[e][f].id
        /\ rpc[e].req.id # 0 /\ rpc[e].id = i
    BY <1>2, <1>4 DEF AskInv, RequirePeer
  <2>2. peers[f][e].remoteId = peers[e][f].id
    BY <1>2, <1>4, <2>1 DEF AnswerInv
  <2> QED BY <1>4, <2>1, <2>2
<1>5. CASE \E r \in InFlight :
             /\ r.method = "Connect" /\ r.from = f /\ r.to = e
             /\ r.id = peers'[e][f].remoteId
  BY <1>5, Awaited
<1> QED BY <1>1, <1>3, <1>4, <1>5 DEF ConnectStep

LEMMA PairedNext == TimelyStep => ReadyBothConnected'
<1> SUFFICES ASSUME TimelyStep, NEW e \in Engines, NEW f \in Engines,
                    peers'[e][f].state = "READY", Linked(e, f)'
             PROVE  Linked(f, e)'
  BY DEF ReadyBothConnected
<1>1. /\ TypeOK /\ IInv /\ AgreeInv /\ Grows /\ PeersKept /\ ReadyStep(e, f)
      /\ ReadyBothConnected
  BY DEF TimelyStep, Step, Steps
<1>2. ConnectedInv /\ AskInv(e) /\ AnswerInv(e)
  BY <1>1 DEF AgreeInv
<1>3. peers'[e][f].id = peers[e][f].id
  BY <1>1 DEF ReadyStep
<1>4. ASSUME peers[e][f].remoteId # 0, Linked(e, f) => Linked(f, e)
      PROVE  Linked(f, e)'
  <2>1. /\ Linked(e, f) /\ peers'[f][e].id = peers[f][e].id
        /\ peers[f][e].remoteId # 0 => peers'[f][e].remoteId = peers[f][e].remoteId
    BY <1>1, <1>3, <1>4, Relinked
  <2> QED BY <1>3, <1>4, <2>1 DEF Linked
<1>5. CASE peers[e][f].state = "READY"
  BY <1>1, <1>2, <1>4, <1>5 DEF ReadyBothConnected, ConnectedInv, ConnectedStates
<1>6. CASE /\ call[e].op = "connect" /\ call[e].to = f /\ RequirePeer(e)
           /\ rpc[e].status = "replied" /\ rpc[e].req.method = "Ready"
  <2>1. /\ rpc[e].req.to = f /\ rpc[e].req.id = peers[e][f].id
        /\ rpc[e].req.id # 0 /\ peers[e][f].remoteId # 0
    BY <1>2, <1>6 DEF AskInv, RequirePeer
  <2>2. Linked(e, f) => Linked(f, e)
    BY <1>2, <1>6, <2>1 DEF AnswerInv, Linked
  <2> QED BY <1>4, <2>1, <2>2
<1>7. ASSUME NEW r \in InFlight, r.method = "Ready", r.from = f, r.to = e,
             r.id = peers[e][f].remoteId
      PROVE  Linked(f, e)'
  <2>1. rpc[f].status = "sent" /\ rpc[f].req = r /\ r.id # 0
    BY <1>7, Awaited DEF RequestInv
  <2>2. OfferInv(f)
    BY <2>1 DEF TimelyStep
  <2>3. Linked(e, f) => Linked(f, e)
    <3>1. peers[e][f].id # 0
      BY <1>1, <1>7, <2>1, Alive
    <3> QED BY <1>7, <2>1, <2>2, <3>1 DEF OfferInv, Linked
  <2> QED BY <1>4, <1>7, <2>1, <2>3
<1> QED BY <1>1, <1>5, <1>6, <1>7 DEF ReadyStep

LEMMA OfferNext ==
  ASSUME TimelyStep, NEW f \in Engines, rpc'[f].status # "none"
  PROVE  OfferInv(f)'
<1>1. /\ TypeOK /\ TypeOK' /\ IInv /\ IInv' /\ AgreeInv /\ Grows /\ PeersKept
      /\ RpcStep(f)
  BY DEF TimelyStep, Step, Steps
<1>2. AskInv(f)
  BY <1>1 DEF AgreeInv
<1> DEFINE r == rpc'[f].req
<1>3. PICK e \in Engines : e = r.to /\ r.id \in Nat /\ r.id # 0
  <2>1. r \in Requests
    BY <1>1 DEF TypeOK, Rpcs
  <2>2. r.id # 0
    <3>1. CASE Sends(f)
      <4>1. r \in InFlight'
        BY <3>1 DEF Sends, InFlight
      <4> QED BY <1>1, <4>1 DEF IInv, RequestInv
    <3>2. CASE ~Sends(f)
      BY <1>1, <1>2, <3>2 DEF RpcStep, Goes, AskInv
    <3> QED BY <3>1, <3>2
  <2> QED BY <2>1, <2>2 DEF Requests
\* f's request is the one it was.
<1>4. ASSUME rpc[f].status # "none", rpc[f].req = r, peers'[f][e].id = r.id
      PROVE  /\ peers[f][e].id = r.id
             /\ peers[f][e].remoteId # 0 =>
                  peers'[f][e].remoteId = peers[f][e].remoteId
  <2>1. r.id <= created[f][e]
    BY <1>2, <1>3, <1>4 DEF AskInv
  <2> QED BY <1>1, <1>3, <1>4, <2>1, Lives
<1>5. CASE rpc[f].status # "none" /\ rpc'[f] = rpc[f]
  <2>1. OfferInv(f)
    BY <1>5 DEF TimelyStep
  <2>2. ASSUME rpc[f].status = "replied", r.method = "Connect",
               peers'[f][e].id = r.id, peers'[e][f].remoteId = r.id
        PROVE  \/ rpc[f].id = peers'[e][f].id
               \/ peers'[f][e].remoteId \notin {0, rpc[f].id}
    <3>1. CASE peers[e][f].remoteId = r.id /\ peers'[e][f].id = peers[e][f].id
      BY <1>3, <1>4, <1>5, <2>1, <2>2, <3>1 DEF OfferInv
    <3>2. CASE ~(peers[e][f].remoteId = r.id /\ peers'[e][f].id = peers[e][f].id)
      <4>1. peers[f][e].remoteId = peers'[e][f].id /\ peers[f][e].remoteId # 0
        BY <1>3, <1>4, <1>5, <2>2, <3>2, Offered
      <4> QED BY <1>4, <1>5, <2>2, <4>1
    <3> QED BY <3>1, <3>2
  <2>3. ASSUME rpc[f].status = "sent", r.method = "Ready",
               peers'[f][e].id = r.id, peers'[e][f].remoteId = r.id
        PROVE  peers'[f][e].remoteId = peers'[e][f].id
    <3>1. peers[f][e].remoteId # 0
      BY <1>2, <1>3, <1>4, <1>5, <2>3 DEF AskInv
    <3>2. CASE peers[e][f].remoteId = r.id /\ peers'[e][f].id = peers[e][f].id
      BY <1>3, <1>4, <1>5, <2>1, <2>3, <3>1, <3>2 DEF OfferInv
    <3> QED BY <1>3, <1>4, <1>5, <2>3, <3>1, <3>2, Offered
  <2> QED BY <1>3, <1>5, <2>2, <2>3 DEF OfferInv
<1>6. CASE Sends(f)
  <2>1. rpc'[f].status = "sent"
    BY <1>6 DEF Sends
  <2>2. ASSUME r.method = "Ready", peers'[f][e].id = r.id, peers'[e][f].remoteId = r.id
        PROVE  peers'[f][e].remoteId = peers'[e][f].id
    <3>1. /\ rpc[f].status = "replied" /\ rpc[f].req.method = "Connect"
          /\ call[f].op = "connect" /\ call[f].to = e /\ call[f].id = r.id
          /\ peers[f][e].id = r.id /\ peers'[f][e].remoteId = rpc[f].id
      BY <1>3, <1>6, <2>2 DEF Sends
    <3>2. rpc[f].req.to = e /\ rpc[f].req.id = r.id /\ r.id <= created[f][e]
      BY <1>2, <3>1 DEF AskInv
    <3>3. peers[f][e].remoteId # 0 => peers'[f][e].remoteId = peers[f][e].remoteId
      BY <1>1, <1>3, <2>2, <3>2, Lives
    <3>4. OfferInv(f)
      BY <3>1 DEF TimelyStep
    <3>5. CASE peers[e][f].remoteId = r.id /\ peers'[e][f].id = peers[e][f].id
      BY <3>1, <3>2, <3>3, <3>4, <3>5 DEF OfferInv
    <3> QED BY <1>3, <2>2, <3>1, <3>3, <3>5, Offered
  <2> QED BY <1>3, <2>1, <2>2 DEF OfferInv
<1>7. CASE rpc'[f].status = "raised"
  BY <1>7 DEF OfferInv
<1>8. CASE /\ rpc[f].status = "sent" /\ rpc'[f].status = "replied"
           /\ rpc'[f].req = rpc[f].req /\ Answers(f)
  BY <1>3, <1>8 DEF OfferInv, Answers
<1> QED BY <1>1, <1>5, <1>6, <1>7, <1>8 DEF RpcStep, Goes

LEMMA PairNext == Step /\ PairInv => PairInv'
BY Timely, PairedNext, OfferNext DEF PairInv, TimelyStep

LEMMA PairInit == Init => PairInv
<1> SUFFICES ASSUME Init PROVE PairInv
  OBVIOUS
<1>1. \A e, f \in Engines : peers[e][f].state = "NONE"
  BY DEF Init, NoPeer
<1>2. \A e \in Engines : rpc[e].status = "none"
  BY DEF Init, NoRpc
<1> QED BY <1>1, <1>2 DEF Init, PairInv, ReadyBothConnected

LEMMA PairInvariance == Spec => []PairInv
<1>1. TypeOK /\ IInv /\ AgreeInv /\ PairInv /\ [Next]_vars => PairInv'
  BY StepNext, PairNext
<1> QED BY <1>1, PairInit, TypeCorrect, Invariance, AgreeInvariance, PTL DEF Spec

(***************************************************************************)
(* READY means that both ends are connected (control.py:17) until a call   *)
(* times out.  connect() looks after every RPC whether the peer is still   *)
(* the one it began with (control.py:134, 140), and a peer is connected    *)
(* once: an answer that names a connection other than the one an offer has *)
(* connected it to in the meantime is refused (control.py:105-110).        *)
(***************************************************************************)
THEOREM ReadyPeersArePaired == Spec => []ReadyIsPaired
<1>1. PairInv => ReadyIsPaired
  BY DEF PairInv, ReadyIsPaired
<1> QED BY <1>1, PairInvariance, PTL

-----------------------------------------------------------------------------
(* What a registration achieves, unless something has timed out or failed *)

\* The answer to f's Ready, which e has accepted, is about to be imported.
Awaits(f, e) ==
  /\ rpc[f].status = "replied" /\ rpc[f].req.method = "Ready"
  /\ rpc[f].req.to = e /\ rpc[f].req.id = peers[f][e].id

\* f knows e's first v memories, or will before it calls its peer READY.
Knows(f, e, v) ==
  \/ peers[f][e].remoteVersion >= v
  \/ peers[f][e].state # "READY" /\ Awaits(f, e) /\ rpc[f].version >= v

\* The registration that e announces has f to be told, or being told, of it.
Tells(e, f) ==
  \/ <<f, peers[e][f].id>> \in call[e].todo
  \/ rpc[e].status # "none" /\ rpc[e].req.to = f /\ rpc[e].req.id = peers[e][f].id

InformedInv(e, f) ==
  /\ peers[f][e].state = "READY" \/ Awaits(f, e)
  /\ Knows(f, e, acked[e])
  /\ call[e].op = "publish" => Tells(e, f) \/ Knows(f, e, call[e].version)

\* f is informed of e's memories as soon as e's peer is READY.
LosslessInv ==
  timeouts = 0 /\ ~NativeFaults =>
    \A e, f \in Engines :
      peers[e][f].state = "READY" /\ Linked(e, f) => InformedInv(e, f)

\* The requests that may make e's peer READY say how much was acknowledged.
LEMMA ReadyByRequest ==
  ASSUME TimelyStep, NEW r \in InFlight, r.method = "Ready"
  PROVE  /\ call[r.from].op = "connect" /\ call[r.from].to = r.to
         /\ call[r.from].id = r.id /\ acked[r.from] <= r.version
         /\ rpc[r.from].status = "sent" /\ rpc[r.from].req = r
         /\ r.from \in Engines /\ r.to \in Engines /\ r.nr = 0 /\ r.id # 0
<1>1. /\ r.from \in Engines /\ r.to \in Engines /\ r.nr = 0
      /\ rpc[r.from].status = "sent" /\ rpc[r.from].req = r /\ r.id # 0
  BY Awaited DEF RequestInv
<1>2. AskInv(r.from)
  BY <1>1 DEF TimelyStep, Step, AgreeInv
<1> QED BY <1>1, <1>2 DEF AskInv

\* A peer that waits for the answer to its Ready goes on to wait, or imports it.
LEMMA AwaitsNext ==
  ASSUME TimelyStep, ~NativeFaults, NEW e \in Engines, NEW f \in Engines,
         Awaits(f, e), peers'[f][e].id = peers[f][e].id
  PROVE  \/ Awaits(f, e)' /\ rpc'[f] = rpc[f]
         \/ /\ peers'[f][e].state = "READY"
            /\ peers'[f][e].remoteVersion >= rpc[f].version
<1>1. RpcStep(f)
  BY DEF TimelyStep, Step, Steps
<1>2. CASE rpc'[f] = rpc[f]
  BY <1>2 DEF Awaits
<1>3. CASE Goes(f)
  BY <1>3 DEF Goes, Awaits, TimelyStep
<1>4. ~Sends(f)
  BY DEF Sends, Awaits
<1> QED BY <1>1, <1>2, <1>3, <1>4 DEF RpcStep, Awaits

\* What f knows, or will know, it goes on to know.
LEMMA KnowsNext ==
  ASSUME TimelyStep, ~NativeFaults, NEW e \in Engines, NEW f \in Engines,
         NEW v \in Nat, Knows(f, e, v), peers'[f][e].id = peers[f][e].id,
         peers[f][e].id # 0,
         \A r \in InFlight : r.method = "Ready" /\ r.from = e => v <= r.version
  PROVE  Knows(f, e, v)'
<1>1. /\ TypeOK /\ TypeOK' /\ IInv /\ Grows /\ PeersKept /\ ReadyStep(f, e)
  BY DEF TimelyStep, Step, Steps
<1>2. peers'[f][e].remoteVersion >= peers[f][e].remoteVersion
  BY <1>1, Alive, Lives
<1>3. peers[f][e].remoteVersion \in Int /\ peers'[f][e].remoteVersion \in Int
  BY <1>1 DEF TypeOK, Peers
<1>4. CASE peers[f][e].remoteVersion >= v
  BY <1>2, <1>3, <1>4 DEF Knows
<1>5. CASE peers[f][e].state # "READY" /\ Awaits(f, e) /\ rpc[f].version >= v
  <2>1. rpc[f].version \in Nat
    BY <1>1, <1>5, RpcType DEF Awaits
  <2>2. CASE peers'[f][e].state # "READY"
    BY <1>5, <2>2, AwaitsNext DEF Knows
  <2>3. CASE peers'[f][e].state = "READY"
    <3>1. CASE peers'[f][e].remoteVersion >= rpc[f].version
      BY <1>3, <1>5, <2>1, <3>1 DEF Knows
    <3>2. ASSUME NEW r \in InFlight, r.method = "Ready", r.from = e,
                 peers'[f][e].remoteVersion >= r.version
          PROVE  Knows(f, e, v)'
      <4>1. r.version \in Nat
        BY <1>1, RequestType
      <4>2. v <= r.version
        BY <3>2
      <4> QED BY <1>3, <3>2, <4>1, <4>2 DEF Knows
    <3> QED BY <1>1, <1>5, <2>3, <3>1, <3>2 DEF ReadyStep
  <2> QED BY <2>2, <2>3
<1> QED BY <1>4, <1>5 DEF Knows

\* Peers that were READY and linked before the step.
LEMMA InformedStays ==
  ASSUME TimelyStep, ~NativeFaults, NEW e \in Engines, NEW f \in Engines,
         peers[e][f].state = "READY", peers'[e][f].id = peers[e][f].id,
         peers[e][f].id # 0, Linked(e, f),
         peers'[f][e].id = peers[f][e].id, peers[f][e].id # 0,
         peers[f][e].state = "READY" => peers'[f][e].state = "READY",
         InformedInv(e, f)
  PROVE  InformedInv(e, f)'
<1>1. /\ TypeOK /\ IInv /\ AgreeInv /\ RpcStep(e) /\ PublishStep(e)
  BY DEF TimelyStep, Step, Steps
<1>2. AskInv(e) /\ AnswerInv(e) /\ CallInv(e)
  BY <1>1 DEF AgreeInv, IInv
<1>3. acked[e] \in Nat /\ (call[e].op = "publish" => call[e].version \in Nat)
  BY <1>1, CallType DEF TypeOK
<1>4. peers'[f][e].state = "READY" \/ Awaits(f, e)'
  BY AwaitsNext DEF InformedInv
<1>5. \A r \in InFlight : r.method = "Ready" /\ r.from = e =>
        acked[e] <= r.version /\ call[e].op = "connect"
  BY ReadyByRequest
<1>6. ASSUME NEW v \in Nat, v = acked[e], Knows(f, e, v)
      PROVE  Knows(f, e, v)'
  BY <1>5, <1>6, KnowsNext
<1>7. ASSUME call[e].op = "publish", NEW v \in Nat, v = call[e].version,
             Knows(f, e, v)
      PROVE  Knows(f, e, v)'
  BY <1>5, <1>7, KnowsNext
<1>8. Knows(f, e, acked[e])'
  <2>1. CASE acked'[e] = acked[e]
    <3>1. PICK v \in Nat : v = acked[e]
      BY <1>3
    <3>2. Knows(f, e, v)'
      BY <1>6, <3>1 DEF InformedInv
    <3> QED BY <2>1, <3>1, <3>2
  <2>2. CASE /\ call[e].op = "publish" /\ rpc[e].status = "none" /\ call[e].todo = {}
             /\ acked'[e] = call[e].version
    <3>1. ~Tells(e, f)
      BY <2>2 DEF Tells
    <3>2. PICK v \in Nat : v = call[e].version
      BY <1>3, <2>2
    <3>3. Knows(f, e, v)
      BY <2>2, <3>1, <3>2 DEF InformedInv
    <3>4. Knows(f, e, v)'
      BY <1>7, <2>2, <3>2, <3>3
    <3> QED BY <2>2, <3>2, <3>4
  <2> QED BY <1>1, <2>1, <2>2 DEF PublishStep
<1>9. ASSUME call'[e].op = "publish"
      PROVE  Tells(e, f)' \/ Knows(f, e, call[e].version)'
  <2>1. CASE /\ UNCHANGED peers
             /\ call'[e].todo = {<<g, peers[e][g].id>> :
                                  g \in {h \in Engines : peers[e][h].state = "READY"}}
    BY <2>1 DEF Tells
  <2>2. CASE /\ call[e].op = "publish" /\ call'[e].version = call[e].version
             /\ call'[e].todo = call[e].todo \/ Sends(e)
             /\ rpc'[e].status = "none" => rpc[e].status \in {"none", "replied"}
    <3>1. PICK v \in Nat : v = call[e].version /\ v = call'[e].version
      BY <1>3, <2>2
    <3>2. CASE Knows(f, e, v)
      <4>1. Knows(f, e, v)'
        BY <1>7, <2>2, <3>1, <3>2
      <4> QED BY <3>1, <4>1
    <3>3. CASE <<f, peers[e][f].id>> \in call[e].todo
      <4>1. CASE call'[e].todo = call[e].todo
        BY <3>3, <4>1 DEF Tells
      <4>2. CASE Sends(e)
        BY <1>9, <2>2, <3>3, <4>2 DEF Sends, Tells
      <4> QED BY <2>2, <4>1, <4>2
    <3>4. CASE /\ rpc[e].status # "none" /\ rpc[e].req.to = f
               /\ rpc[e].req.id = peers[e][f].id
      <4>1. ~Sends(e)
        BY <2>2, <3>4 DEF Sends
      <4>2. CASE rpc'[e].status = "none"
        <5>1. /\ rpc[e].status = "replied" /\ rpc[e].req.method = "Changed"
              /\ rpc[e].req.version = v
          BY <1>2, <2>2, <3>1, <3>4, <4>2 DEF AskInv
        <5>2. peers[f][e].remoteVersion >= v
          BY <1>2, <3>4, <5>1 DEF AnswerInv
        <5>3. Knows(f, e, v)'
          BY <1>7, <2>2, <3>1, <5>2 DEF Knows
        <5> QED BY <3>1, <5>3
      <4>3. CASE rpc'[e].status # "none"
        BY <1>1, <3>4, <4>1, <4>3 DEF RpcStep, Goes, Tells
      <4> QED BY <4>2, <4>3
    <3> QED BY <2>2, <3>1, <3>2, <3>3, <3>4 DEF InformedInv, Tells
  <2> QED BY <1>1, <1>9, <2>1, <2>2 DEF PublishStep
<1> QED BY <1>4, <1>8, <1>9 DEF InformedInv

\* Peers of which the second was READY, and the first becomes so.
LEMMA InformedAnswered ==
  ASSUME TimelyStep, NEW e \in Engines, NEW f \in Engines,
         peers[e][f].state # "READY", peers'[e][f].state = "READY",
         peers'[e][f].id # 0, acked[e] <= published[e],
         peers'[f][e].state = "READY", call[e].op = "connect",
         peers'[f][e].remoteVersion >= acked[e]
  PROVE  InformedInv(e, f)'
<1>1. PublishStep(e)
  BY DEF TimelyStep, Step, Steps
<1>2. acked'[e] = acked[e] /\ call'[e].op # "publish"
  BY <1>1 DEF PublishStep
<1> QED BY <1>2 DEF InformedInv, Knows

LEMMA InformedNext ==
  ASSUME TimelyStep, ~NativeFaults,
         \A e, f \in Engines :
           peers[e][f].state = "READY" /\ Linked(e, f) => InformedInv(e, f)
  PROVE  \A e, f \in Engines :
           peers'[e][f].state = "READY" /\ Linked(e, f)' => InformedInv(e, f)'
<1> SUFFICES ASSUME NEW e \in Engines, NEW f \in Engines,
                    peers'[e][f].state = "READY", Linked(e, f)'
             PROVE  InformedInv(e, f)'
  OBVIOUS
<1>1. /\ TypeOK /\ TypeOK' /\ IInv /\ AgreeInv /\ Grows /\ PeersKept
      /\ ReadyStep(e, f) /\ ReadyStep(f, e) /\ PublishStep(e)
  BY DEF TimelyStep, Step, Steps
<1>2. ConnectedInv /\ AskInv(e) /\ AnswerInv(e) /\ CallInv(e)
  BY <1>1 DEF AgreeInv, IInv
<1>3. peers'[e][f].id = peers[e][f].id
  BY <1>1 DEF ReadyStep
<1>4. ASSUME peers[e][f].remoteId # 0
      PROVE  /\ Linked(e, f) /\ peers[e][f].id # 0
             /\ peers'[f][e].id = peers[f][e].id /\ peers[f][e].id # 0
             /\ peers[f][e].state = "READY" => peers'[f][e].state = "READY"
             /\ peers'[f][e].remoteVersion >= peers[f][e].remoteVersion
  BY <1>1, <1>3, <1>4, Alive, Relinked
<1>5. /\ acked[e] \in Nat /\ published[e] \in Nat /\ acked[e] <= published[e]
      /\ peers[f][e].remoteVersion \in Int /\ peers'[f][e].remoteVersion \in Int
  BY <1>1, <1>2 DEF AskInv, TypeOK, Peers
<1>6. CASE peers[e][f].state = "READY"
  <2>1. peers[e][f].remoteId # 0
    BY <1>2, <1>6 DEF ConnectedInv, ConnectedStates
  <2>2. InformedInv(e, f)
    BY <1>4, <1>6, <2>1
  <2> QED BY <1>3, <1>4, <1>6, <2>1, <2>2, InformedStays
\* f has accepted e's Ready.
<1>7. CASE /\ peers[e][f].state # "READY" /\ call[e].op = "connect"
           /\ call[e].to = f /\ RequirePeer(e)
           /\ rpc[e].status = "replied" /\ rpc[e].req.method = "Ready"
  <2>1. /\ rpc[e].req.to = f /\ rpc[e].req.id = peers[e][f].id
        /\ peers[e][f].remoteId # 0 /\ acked[e] <= rpc[e].req.version
    BY <1>2, <1>7 DEF AskInv, RequirePeer
  <2>2. /\ peers[f][e].state = "READY"
        /\ peers[f][e].remoteVersion >= rpc[e].req.version
        /\ rpc[e].req.version \in Nat
    BY <1>1, <1>2, <1>4, <1>7, <2>1, RpcType DEF AnswerInv, Requests
  <2>3. peers'[f][e].remoteVersion >= acked[e]
    BY <1>4, <1>5, <2>1, <2>2
  <2> QED BY <1>3, <1>4, <1>5, <1>7, <2>1, <2>2, <2>3, InformedAnswered
\* e accepts f's Ready.
<1>8. ASSUME peers[e][f].state # "READY",
             NEW r \in InFlight, r.method = "Ready", r.from = f, r.to = e,
             r.id = peers[e][f].remoteId,
             r.nr = 0 => /\ rpc'[f].status = "replied" /\ rpc'[f].req = r
                         /\ rpc'[f].version = published[e]
      PROVE  InformedInv(e, f)'
  <2>1. /\ rpc[f].status = "sent" /\ rpc[f].req = r /\ r.nr = 0 /\ r.id # 0
        /\ rpc'[f].status = "replied" /\ rpc'[f].req = r
        /\ rpc'[f].version = published[e]
    BY <1>8, ReadyByRequest
  <2>2. peers[e][f].remoteId # 0 /\ peers[f][e].id = r.id
    BY <1>4, <1>8, <2>1 DEF Linked
  <2>3. Awaits(f, e)'
    BY <1>4, <1>8, <2>1, <2>2 DEF Awaits
  <2>4. /\ acked'[e] = acked[e]
        /\ call'[e].op = "publish" =>
             /\ call[e].op = "publish" /\ call'[e].version = call[e].version
             /\ call[e].version \in Nat /\ call[e].version <= published[e]
    BY <1>1, <1>2, <1>3, <1>4, <1>8, <2>2, CallType DEF PublishStep, CallInv
  <2>5. CASE peers'[f][e].state # "READY"
    BY <1>5, <2>1, <2>3, <2>4, <2>5 DEF InformedInv, Knows
  \* f has accepted e's Ready before.
  <2>6. CASE peers'[f][e].state = "READY"
    <3>1. peers'[f][e].remoteVersion >= acked[e] /\ call[e].op = "connect"
      <4>1. CASE peers[f][e].state = "READY"
        <5>1. Linked(f, e)
          <6>1. OfferInv(f)
            BY <2>1 DEF TimelyStep
          <6> QED BY <1>4, <1>8, <2>1, <2>2, <6>1 DEF OfferInv, Linked
        <5>2. Awaits(e, f)
          BY <1>8, <4>1, <5>1 DEF InformedInv
        <5>3. /\ rpc[e].req \in Requests /\ acked[e] <= rpc[e].req.version
              /\ peers[f][e].remoteVersion >= rpc[e].req.version
              /\ call[e].op = "connect"
          BY <1>1, <1>2, <1>4, <2>2, <5>2, RpcType DEF Awaits, AskInv, AnswerInv
        <5>4. rpc[e].req.version \in Nat
          BY <5>3 DEF Requests
        <5> QED BY <1>4, <1>5, <2>2, <5>3, <5>4
      <4>2. ASSUME NEW s \in InFlight, s.method = "Ready", s.from = e,
                   peers'[f][e].remoteVersion >= s.version
            PROVE  peers'[f][e].remoteVersion >= acked[e] /\ call[e].op = "connect"
        <5>1. s.version \in Nat
          BY <1>1, RequestType
        <5> QED BY <1>5, <4>2, <5>1, ReadyByRequest
      <4> QED BY <1>1, <2>1, <2>6, <4>1, <4>2 DEF ReadyStep
    <3> QED BY <1>3, <1>4, <1>5, <1>8, <2>2, <2>6, <3>1, InformedAnswered
  <2> QED BY <2>5, <2>6
<1> QED BY <1>1, <1>6, <1>7, <1>8 DEF ReadyStep

LEMMA LosslessNext == Step /\ PairInv /\ LosslessInv => LosslessInv'
<1> SUFFICES ASSUME Step, PairInv, LosslessInv, timeouts' = 0, ~NativeFaults
             PROVE  \A e, f \in Engines :
                      peers'[e][f].state = "READY" /\ Linked(e, f)' => InformedInv(e, f)'
  BY DEF LosslessInv
<1>1. TimelyStep
  BY Timely
<1>2. \A e, f \in Engines :
        peers[e][f].state = "READY" /\ Linked(e, f) => InformedInv(e, f)
  BY <1>1 DEF LosslessInv, TimelyStep
<1> QED BY <1>1, <1>2, InformedNext

LEMMA LosslessInvariance == Spec => []LosslessInv
<1>1. Init => LosslessInv
  BY DEF Init, LosslessInv, NoPeer
<1>2. TypeOK /\ IInv /\ AgreeInv /\ PairInv /\ LosslessInv /\ [Next]_vars => LosslessInv'
  BY StepNext, LosslessNext
<1> QED BY <1>1, <1>2, TypeCorrect, Invariance, AgreeInvariance, PairInvariance, PTL
        DEF Spec

(***************************************************************************)
(* When a registration has returned, both ends of every established        *)
(* connection know the memory (engine.py:78, control.py:145-154), unless a *)
(* call has timed out or the native engine fails.  A peer that is READY is *)
(* told by publish(); one that is not learns of it from the snapshot of its*)
(* Ready, or from the one that answers it.                                 *)
(***************************************************************************)
THEOREM AckedAreImported == Spec => []AckedIsImportedLossless
<1>1. LosslessInv => AckedIsImportedLossless
  <2> SUFFICES ASSUME LosslessInv, timeouts = 0, ~NativeFaults,
                      NEW e \in Engines, NEW f \in Engines, Established(e, f)
               PROVE  peers[f][e].remoteVersion >= acked[e]
    BY DEF AckedIsImportedLossless, AckedIsImported
  <2>1. Knows(f, e, acked[e])
    BY DEF LosslessInv, InformedInv, Established
  <2> QED BY <2>1 DEF Knows, Established
<1> QED BY <1>1, LosslessInvariance, PTL

-----------------------------------------------------------------------------
(* Engines in no call agree, unless something has timed out or failed *)

\* f is closing the connection n, of which e does not know yet.
Closes(f, e, n) ==
  /\ rpc[f].status = "sent" /\ rpc[f].req.method = "Close"
  /\ rpc[f].req.to = e /\ rpc[f].req.id = n

Open(e, f) == life[e] = "open" /\ life[f] = "open"

\* The peer at the other end exists until it is closed: of an answered offer,
\* of a Ready that is about to be accepted, and of an accepted Ready.
PartnerInv(e) ==
  LET r == rpc[e].req
      f == r.to
  IN  rpc[e].status # "none" /\ Open(e, f) =>
        /\ (/\ rpc[e].status = "replied" /\ r.method = "Connect"
            /\ peers[e][f].id = r.id)
           => \/ peers[f][e].id = rpc[e].id
              \/ Closes(f, e, rpc[e].id) /\ peers[e][f].remoteId = rpc[e].id
        /\ (/\ rpc[e].status = "sent" /\ r.method = "Ready"
            /\ peers[f][e].remoteId = r.id)
           => peers[e][f].id = r.id
        /\ (/\ rpc[e].status = "replied" /\ r.method = "Ready"
            /\ peers[e][f].id = r.id)
           => Linked(e, f) \/ Closes(f, e, peers[e][f].remoteId)

\* So does the peer at the other end of a READY one.
PartnersInv ==
  \A e, f \in Engines :
    peers[e][f].state = "READY" /\ Open(e, f) =>
      Linked(e, f) \/ Closes(f, e, peers[e][f].remoteId)

QuietInv ==
  timeouts = 0 /\ restarts = 0 /\ ~NativeFaults =>
    PartnersInv /\ \A e \in Engines : PartnerInv(e)

\* A step before which nothing has failed, and in which nothing does.
QuietStep ==
  /\ TimelyStep /\ ~NativeFaults /\ PartnersInv
  /\ \A e \in Engines : PartnerInv(e)
  /\ \A e, f \in Engines : Open(e, f)' => Open(e, f)

LEMMA Quiet ==
  Step /\ PairInv /\ QuietInv /\ timeouts' = 0 /\ restarts' = 0 /\ ~NativeFaults
    => QuietStep
<1> SUFFICES ASSUME Step, PairInv, QuietInv, timeouts' = 0, restarts' = 0,
                    ~NativeFaults
             PROVE  QuietStep
  OBVIOUS
<1>1. TimelyStep
  BY Timely
<1>2. restarts <= restarts' /\ restarts \in Nat
  BY DEF Step, Steps, FaultStep, TypeOK
<1>3. restarts = 0
  BY <1>2
<1>4. \A e, f \in Engines : Open(e, f)' => Open(e, f)
  BY <1>3 DEF Step, Steps, FaultStep, Open
<1> QED BY <1>1, <1>3, <1>4 DEF QuietInv, QuietStep, TimelyStep

\* A Close under way has not been answered yet as long as its peer is there.
LEMMA ClosesNext ==
  ASSUME QuietStep, NEW e \in Engines, NEW f \in Engines, NEW n,
         Closes(f, e, n), peers'[e][f].remoteId = n, life'[e] = "open"
  PROVE  Closes(f, e, n)'
<1>1. RpcStep(f)
  BY DEF QuietStep, TimelyStep, Step, Steps
<1>2. CASE rpc'[f] = rpc[f]
  BY <1>2 DEF Closes
<1>3. ~Goes(f)
  BY DEF Goes, Closes, QuietStep, TimelyStep
<1>4. ~Sends(f)
  BY DEF Sends, Closes
<1>5. ~Answers(f)
  BY DEF Answers, Closes
<1> QED BY <1>1, <1>2, <1>3, <1>4, <1>5 DEF RpcStep, Closes, QuietStep

\* A peer goes by its own engine's disconnect() only, unless the engine at the
\* other end is closing a connection to it.
LEMMA PartnerGone ==
  ASSUME QuietStep, NEW e \in Engines, NEW f \in Engines, life'[f] = "open",
         NEW n, n # 0, peers[f][e].id = n, peers'[f][e].id # n,
         \/ peers[f][e].remoteId = peers[e][f].id
         \/ rpc[e].status # "sent" \/ rpc[e].req.method # "Close"
  PROVE  /\ Closes(f, e, n)'
         /\ call[f].op = "idle" /\ peers[f][e].state = "READY"
<1>1. DropStep(f, e) /\ TimelyStep
  BY DEF QuietStep, TimelyStep, Step, Steps
<1>2. ASSUME NEW r \in InFlight, r.method = "Close", r.from = e, r.to = f,
             r.id = peers[f][e].remoteId
      PROVE  FALSE
  <2>1. rpc[e].status = "sent" /\ rpc[e].req = r /\ RequestInv(r)
    BY <1>1, <1>2, Awaited
  <2> QED BY <1>2, <2>1 DEF RequestInv
<1> QED BY <1>1, <1>2 DEF DropStep, Closes

\* A connection that is closed at most by f stays one, if e's peer stays.
LEMMA LinkNext ==
  ASSUME QuietStep, NEW e \in Engines, NEW f \in Engines, Open(e, f)',
         peers'[e][f].id = peers[e][f].id, peers[e][f].remoteId # 0,
         Linked(e, f) \/ Closes(f, e, peers[e][f].remoteId),
         Linked(e, f) =>
           \/ Linked(f, e)
           \/ rpc[e].status # "sent" \/ rpc[e].req.method # "Close"
  PROVE  Linked(e, f)' \/ Closes(f, e, peers[e][f].remoteId)'
<1>1. TypeOK /\ IInv /\ Grows /\ PeersKept
  BY DEF QuietStep, TimelyStep, Step
<1>2. life'[e] = "open" /\ life'[f] = "open"
  BY DEF Open
<1>3. PICK n \in Nat : n = peers[e][f].remoteId
  BY <1>1, Numbers
<1>4. peers'[e][f].remoteId = n /\ n # 0
  BY <1>1, <1>3, Alive, Lives
<1>5. CASE Closes(f, e, n)
  BY <1>2, <1>4, <1>5, ClosesNext DEF Closes
<1>6. CASE Linked(e, f)
  <2>1. peers[f][e].id = n
    BY <1>3, <1>6 DEF Linked
  <2>2. CASE peers'[f][e].id = n
    BY <1>4, <2>2 DEF Linked
  <2>3. CASE peers'[f][e].id # n
    <3>1. Closes(f, e, n)'
      BY <1>2, <1>4, <1>6, <2>1, <2>3, PartnerGone DEF Linked
    <3> QED BY <1>4, <3>1 DEF Closes
  <2> QED BY <2>2, <2>3
<1> QED BY <1>3, <1>5, <1>6

\* A connect() of e keeps its peer, unless f closes the connection.
LEMMA CallerStays ==
  ASSUME QuietStep, NEW e \in Engines, NEW f \in Engines, Open(e, f)',
         call[e].op = "connect", peers[e][f].id # 0,
         \/ Linked(e, f)
         \/ rpc[f].status # "sent" \/ rpc[f].req.method # "Close"
  PROVE  peers'[e][f].id = peers[e][f].id
<1>1. life'[e] = "open"
  BY DEF Open
<1> QED BY <1>1, PartnerGone DEF Linked

LEMMA PartnersNext == QuietStep => PartnersInv'
<1> SUFFICES ASSUME QuietStep, NEW e \in Engines, NEW f \in Engines,
                    peers'[e][f].state = "READY", Open(e, f)'
             PROVE  Linked(e, f)' \/ Closes(f, e, peers[e][f].remoteId)'
  BY DEF PartnersInv
<1>1. /\ TypeOK /\ IInv /\ AgreeInv /\ Grows /\ PeersKept /\ ReadyStep(e, f)
      /\ TimelyStep /\ ReadyBothConnected /\ Open(e, f)
  BY DEF QuietStep, TimelyStep, Step, Steps
<1>2. ConnectedInv /\ AskInv(e) /\ PartnerInv(e) /\ AskInv(f) /\ PartnerInv(f)
  BY <1>1 DEF AgreeInv, QuietStep
<1>3. peers'[e][f].id = peers[e][f].id
  BY <1>1 DEF ReadyStep
<1>4. CASE peers[e][f].state = "READY"
  <2>1. peers[e][f].remoteId # 0
    BY <1>2, <1>4 DEF ConnectedInv, ConnectedStates
  <2>2. /\ Linked(e, f) \/ Closes(f, e, peers[e][f].remoteId)
        /\ Linked(e, f) => Linked(f, e)
    BY <1>1, <1>4 DEF QuietStep, PartnersInv, ReadyBothConnected
  <2> QED BY <1>3, <2>1, <2>2, LinkNext
<1>5. CASE /\ call[e].op = "connect" /\ call[e].to = f /\ RequirePeer(e)
           /\ rpc[e].status = "replied" /\ rpc[e].req.method = "Ready"
  <2>1. /\ rpc[e].req.to = f /\ rpc[e].req.id = peers[e][f].id
        /\ peers[e][f].remoteId # 0
    BY <1>2, <1>5 DEF AskInv, RequirePeer
  <2>2. Linked(e, f) \/ Closes(f, e, peers[e][f].remoteId)
    BY <1>1, <1>2, <1>5, <2>1 DEF PartnerInv
  <2> QED BY <1>3, <1>5, <2>1, <2>2, LinkNext
<1>6. ASSUME NEW r \in InFlight, r.method = "Ready", r.from = f, r.to = e,
             r.id = peers[e][f].remoteId
      PROVE  Linked(e, f)'
  <2>1. /\ rpc[f].status = "sent" /\ rpc[f].req = r /\ r.id # 0
        /\ call[f].op = "connect" /\ OfferInv(f)
    BY <1>1, <1>6, ReadyByRequest DEF TimelyStep
  <2>2. peers[f][e].id = r.id
    BY <1>1, <1>2, <1>6, <2>1 DEF PartnerInv, Open
  <2>3. peers[f][e].remoteId = peers[e][f].id /\ peers[e][f].id # 0
    BY <1>1, <1>6, <2>1, <2>2, Alive DEF OfferInv
  <2>4. peers'[f][e].id = r.id
    BY <1>6, <2>1, <2>2, <2>3, CallerStays DEF Linked, Open
  <2>5. peers'[e][f].remoteId = peers[e][f].remoteId
    BY <1>1, <1>3, <1>6, <2>1, Alive, Lives
  <2> QED BY <1>6, <2>1, <2>4, <2>5 DEF Linked
<1> QED BY <1>1, <1>4, <1>5, <1>6 DEF ReadyStep

LEMMA PartnerNext ==
  ASSUME QuietStep, NEW e \in Engines, rpc'[e].status # "none"
  PROVE  PartnerInv(e)'
<1>1. /\ TypeOK /\ TypeOK' /\ IInv /\ AgreeInv /\ Grows /\ PeersKept
      /\ RpcStep(e) /\ TimelyStep /\ ReadyBothConnected
  BY DEF QuietStep, TimelyStep, Step, Steps
<1>2. AskInv(e) /\ PartnerInv(e) /\ RpcInv(e)
  BY <1>1 DEF AgreeInv, QuietStep, IInv
<1> DEFINE r == rpc'[e].req
<1>3. PICK f \in Engines : f = r.to /\ r \in Requests
  BY <1>1 DEF TypeOK, Rpcs, Requests
<1>4. SUFFICES ASSUME Open(e, f)'
               PROVE  /\ (/\ rpc'[e].status = "replied" /\ r.method = "Connect"
                          /\ peers'[e][f].id = r.id)
                         => \/ peers'[f][e].id = rpc'[e].id
                            \/ /\ Closes(f, e, rpc[e].id)'
                               /\ peers'[e][f].remoteId = rpc'[e].id
                      /\ (/\ rpc'[e].status = "sent" /\ r.method = "Ready"
                          /\ peers'[f][e].remoteId = r.id)
                         => peers'[e][f].id = r.id
                      /\ (/\ rpc'[e].status = "replied" /\ r.method = "Ready"
                          /\ peers'[e][f].id = r.id)
                         => Linked(e, f)' \/ Closes(f, e, peers[e][f].remoteId)'
  BY <1>3 DEF PartnerInv
<1>5. Open(e, f) /\ life'[e] = "open" /\ life'[f] = "open"
  BY <1>4 DEF QuietStep, Open
<1>6. CASE Sends(e)
  BY <1>3, <1>6 DEF Sends
<1>7. ASSUME rpc[e].status # "none", rpc[e].req = r, r.method \in {"Connect", "Ready"}
      PROVE  /\ r.id # 0 /\ r.id \in Nat /\ call[e].op = "connect"
             /\ call[e].to = f /\ call[e].id = r.id
             /\ peers'[e][f].id = r.id =>
                  /\ peers[e][f].id = r.id
                  /\ peers[e][f].remoteId # 0 =>
                       peers'[e][f].remoteId = peers[e][f].remoteId
  BY <1>1, <1>2, <1>3, <1>7, Lives DEF AskInv, Requests
<1>8. ASSUME rpc[e].status = "replied", rpc'[e] = rpc[e], r.method = "Connect",
             peers'[e][f].id = r.id, peers'[f][e].id # rpc[e].id
      PROVE  Closes(f, e, rpc[e].id)' /\ peers'[e][f].remoteId = rpc[e].id
  <2>1. PICK n \in Nat : n = rpc[e].id /\ n # 0 /\ peers[e][f].id = r.id
    BY <1>1, <1>2, <1>7, <1>8, RpcType DEF RpcInv
  <2>2. CASE peers[f][e].id = n
    <3>1. Closes(f, e, n)' /\ peers[f][e].state = "READY"
      BY <1>5, <1>8, <2>1, <2>2, PartnerGone
    <3>2. Linked(f, e)
      BY <1>5, <1>8, <3>1 DEF QuietStep, PartnersInv, Open, Closes
    <3>3. peers[e][f].remoteId = n
      BY <1>1, <2>2, <3>1, <3>2 DEF ReadyBothConnected, Linked
    <3> QED BY <1>7, <1>8, <2>1, <3>1, <3>3 DEF Closes
  <2>3. CASE Closes(f, e, n) /\ peers[e][f].remoteId = n
    <3>1. peers'[e][f].remoteId = n
      BY <1>7, <1>8, <2>1, <2>3
    <3>2. Closes(f, e, n)'
      BY <1>5, <2>3, <3>1, ClosesNext
    <3> QED BY <1>8, <2>1, <3>1, <3>2 DEF Closes
  <2> QED BY <1>2, <1>3, <1>5, <1>8, <2>1, <2>2, <2>3 DEF PartnerInv
<1>9. ASSUME rpc[e].status = "sent", rpc'[e] = rpc[e], r.method = "Ready",
             peers'[f][e].remoteId = r.id
      PROVE  peers'[e][f].id = r.id
  <2>1. r.id # 0 /\ r.id \in Nat /\ call[e].op = "connect" /\ rpc[e].req.to = f
    BY <1>3, <1>7, <1>9
  <2>2. CASE peers[f][e].remoteId = r.id
    <3>1. peers[e][f].id = r.id
      BY <1>2, <1>3, <1>5, <1>9, <2>2 DEF PartnerInv
    <3>2. OfferInv(e)
      BY <1>9 DEF QuietStep, TimelyStep
    <3>3. peers[e][f].remoteId = peers[f][e].id
      BY <1>3, <1>9, <2>2, <3>1, <3>2 DEF OfferInv
    <3>4. Linked(e, f)
      BY <1>1, <2>1, <2>2, <3>3, Alive DEF Linked
    <3> QED BY <1>4, <2>1, <3>1, <3>4, CallerStays
  \* f has just been connected to e's offer by the answer to its own.
  <2>3. CASE peers[f][e].remoteId # r.id
    <3>1. /\ rpc[f].status = "replied" /\ rpc[f].req.method = "Connect"
          /\ rpc[f].id = r.id /\ rpc[f].req.id = peers[f][e].id /\ rpc[f].req.to = e
      <4>1. ConnectStep(f, e) /\ AskInv(f)
        BY <1>1 DEF TimelyStep, Step, Steps, AgreeInv
      <4>2. ~\E s \in InFlight :
              s.method = "Connect" /\ s.from = e /\ s.to = f
        BY <1>1, <1>9, Awaited
      <4> QED BY <1>9, <2>1, <2>3, <4>1, <4>2 DEF ConnectStep, AskInv, RequirePeer
    <3>2. peers[e][f].id = r.id
      <4>1. PartnerInv(f)
        BY DEF QuietStep
      <4> QED BY <1>5, <1>9, <3>1, <4>1 DEF PartnerInv, Open, Closes
    <3> QED BY <1>4, <2>1, <3>1, <3>2, CallerStays
  <2> QED BY <2>2, <2>3
<1>10. ASSUME rpc[e].status = "replied", rpc'[e] = rpc[e], r.method = "Ready",
              peers'[e][f].id = r.id
       PROVE  Linked(e, f)' \/ Closes(f, e, peers[e][f].remoteId)'
  <2>1. peers[e][f].id = r.id /\ peers[e][f].remoteId # 0
    BY <1>2, <1>3, <1>7, <1>10 DEF AskInv
  <2>2. Linked(e, f) \/ Closes(f, e, peers[e][f].remoteId)
    BY <1>2, <1>3, <1>5, <1>10, <2>1 DEF PartnerInv
  <2> QED BY <1>4, <1>10, <2>1, <2>2, LinkNext
<1>11. CASE /\ rpc[e].status = "sent" /\ rpc'[e].status = "replied"
            /\ rpc[e].req = r /\ Answers(e)
  <2>1. r.method = "Connect" => peers'[f][e].id = rpc'[e].id
    BY <1>3, <1>11 DEF Answers
  <2>2. ASSUME r.method = "Ready", peers'[e][f].id = r.id PROVE Linked(e, f)'
    <3>1. peers[f][e].remoteId = r.id /\ peers'[f][e].id = peers[f][e].id
      BY <1>3, <1>11, <2>2 DEF Answers
    <3>2. peers[e][f].id = r.id /\ peers[e][f].remoteId # 0
      BY <1>2, <1>3, <1>7, <1>11, <2>2 DEF AskInv
    <3>3. OfferInv(e)
      BY <1>11 DEF QuietStep, TimelyStep
    <3>4. peers[e][f].remoteId = peers[f][e].id
      BY <1>3, <1>11, <2>2, <3>1, <3>2, <3>3 DEF OfferInv
    <3> QED BY <1>7, <1>11, <2>2, <3>1, <3>2, <3>4 DEF Linked
  <2> QED BY <1>11, <2>1, <2>2
<1> QED BY <1>1, <1>6, <1>8, <1>9, <1>10, <1>11 DEF RpcStep, Goes

LEMMA QuietNext == Step /\ PairInv /\ QuietInv => QuietInv'
<1> SUFFICES ASSUME Step, PairInv, QuietInv, timeouts' = 0, restarts' = 0,
                    ~NativeFaults
             PROVE  PartnersInv' /\ \A e \in Engines : PartnerInv(e)'
  BY DEF QuietInv
<1>1. QuietStep
  BY Quiet
<1>2. ASSUME NEW e \in Engines PROVE PartnerInv(e)'
  <2>1. CASE rpc'[e].status # "none"
    BY <1>1, <2>1, PartnerNext
  <2>2. CASE rpc'[e].status = "none"
    BY <2>2 DEF PartnerInv
  <2> QED BY <2>1, <2>2
<1> QED BY <1>1, <1>2, PartnersNext

LEMMA QuietInit == Init => QuietInv
<1> SUFFICES ASSUME Init PROVE QuietInv
  OBVIOUS
<1>1. PartnersInv
  BY DEF Init, NoPeer, PartnersInv
<1>2. \A e \in Engines : PartnerInv(e)
  BY DEF Init, NoRpc, PartnerInv
<1> QED BY <1>1, <1>2 DEF QuietInv

LEMMA QuietInvariance == Spec => []QuietInv
<1>1. TypeOK /\ IInv /\ AgreeInv /\ PairInv /\ QuietInv /\ [Next]_vars => QuietInv'
  BY StepNext, QuietNext
<1> QED BY <1>1, QuietInit, TypeCorrect, Invariance, AgreeInvariance, PairInvariance,
           PTL DEF Spec

(***************************************************************************)
(* Two engines in no call agree on the connection between them, unless a   *)
(* call has timed out, a native call fails or an engine was closed: a peer *)
(* that is READY at one end is READY at the other, whichever connect() and *)
(* disconnect() calls of the two have run against each other               *)
(* (control.py:119-166, 198-206).                                          *)
(***************************************************************************)
THEOREM IdleEnginesAgree == Spec => []QuietEnginesAgree
<1>1. AgreeInv /\ PairInv /\ LosslessInv /\ QuietInv => QuietEnginesAgree
  <2> SUFFICES ASSUME AgreeInv, PairInv, LosslessInv, QuietInv,
                      timeouts = 0, restarts = 0, ~NativeFaults,
                      NEW e \in Engines, NEW f \in Engines,
                      call[e].op = "idle", call[f].op = "idle",
                      life[e] = "open", life[f] = "open",
                      peers[e][f].state = "READY"
               PROVE  Established(e, f)
    BY DEF QuietEnginesAgree
  <2>1. rpc[f].status = "none"
    BY DEF AgreeInv, AskInv
  <2>2. Linked(e, f)
    BY <2>1 DEF QuietInv, PartnersInv, Open, Closes
  <2>3. Linked(f, e)
    BY <2>2 DEF PairInv, ReadyBothConnected
  <2>4. peers[f][e].state = "READY"
    BY <2>1, <2>2 DEF LosslessInv, InformedInv, Awaits
  <2> QED BY <2>2, <2>3, <2>4 DEF Established
<1> QED BY <1>1, AgreeInvariance, PairInvariance, LosslessInvariance, QuietInvariance,
           PTL
=============================================================================
