# RDMA101 Labs in TLA+

RDMA101 Labs teaches RDMA by having its readers write a small transfer engine.
What the repository itself implements, and what these modules model, is all that
stands around that engine: the Python `Engine` that makes it usable from an
application, the control plane with which engines find each other, the adapters
through which Python and C programs reach an engine in C, C++ or Rust, a
two-process check of the RDMA device with the program that builds and supervises
it, and the grader. The native engines in the repository are
starters whose methods answer `Unimplemented`; they appear here through their
contract, `transfer-engine/transfer_engine.h`.

## 1. The system

| Part | State it keeps | Operations | Interacts with |
| --- | --- | --- | --- |
| Control plane, `rdma101/control.py` (with the locking of `rdma101/engine.py`) | table of peers (state, connection ids, version imported), list of published metadata, closed flag | `connect`, `disconnect`, `publish`, `close`; handlers `Connect`, `Ready`, `Changed`, `Close` | other engines by RPC with a deadline; the native engine under the state lock |
| Engine, `rdma101/engine.py` | resource lock, state lock | resource calls, `submit_transfer`, `wait`, `transfer`, `close` | application threads, RPC workers, the wrapper |
| NativeEngine, `rdma101/native_engine.py` | handle, retained buffers, mirrors of regions, batches and peers | register, deregister, import, remove, create, connect, destroy, submit, query, free, close | native engine through cffi |
| Adapters, `cpp/ffi.cpp`, `rust/src/ffi.rs`, `c/engine.c` | none | the twelve entry points of `transfer_engine.h` | C programs and NativeEngine above, an engine below |
| RDMA check, `scripts/rdma_check.cpp` | verbs resources of two processes, a socket pair | one checked WRITE with tokens R, D and V | libibverbs, the kernel, `doctor.py` |
| Test processes, `tests/processes.py` | process group, deadline, logs | start, wait, stop, reap | the lab tests |
| Verbs probe, `tests/verbs_probe.c` | posted work requests, held completions | intercepts libibverbs calls | the engine under test |
| Doctor, `scripts/doctor.py` | where it is, the process group of its command, the binary it built | report on the devices; build and run the check under a time limit | a compiler, rdma_check, the user's Ctrl-C |
| Grader, `scripts/grader.py` with `build()` of `scripts/build.py` | assessments, reports of pytest, score files, `latest.json` | build, test and count each language; write the score | pytest, the file system |
| Format, generation and test scripts; FFI bindings; gRPC messages | none that matters | input and output around other tools | |
| Fake engines and lab tests | constants; the student's engine | | |

What is hard in each, and what makes it correct:

* **Control plane.** Four kinds of RPC cross between two engines that each hold
  a lock of their own for a whole call. A handler runs between any two critical
  sections of a call. An RPC that exceeds its deadline may be lost, may have been
  served, or may be served long after, when its connection is gone and another
  has taken its place. An engine may be closed and another may listen at its
  endpoint. Correct means: the two ends of a connection are two halves of *one*
  connection; metadata of one connection never reaches another; a newer snapshot
  is never replaced by an older one; a registration that has returned is known at
  every READY peer; engines do not wait for each other in a circle.
* **Engine.** Transfers take the state lock in three separate critical sections
  and the resource lock in none, so everything else may happen between them.
  `close()` waits for handlers with the resource lock held. Correct means: no
  batch is left behind, `close()` cuts no call off, no handler meets a destroyed
  native engine, and every call ends.
* **NativeEngine.** The mirrors decide which buffers stay alive and how an array
  of statuses is decoded, and they are updated around native calls that may fail
  before or after they took effect. Correct means: a buffer the device may access
  is retained, and a mirror says what the native engine holds.
* **Adapters.** Three implementations judge the same arguments. Correct means:
  they judge alike, leave defined outputs behind, hand a batch on as a whole and
  unchanged, and report every status as it is.
* **RDMA check.** Two processes, any step of which may fail, hang or be killed.
  Correct means: status 0 is reported only for a verified WRITE, and there is
  always a status.
* **Doctor.** It holds a process group whose leader may end first, be killed or
  outlive its time, while Ctrl-C may come between any two statements. Correct
  means: answer 0 says that this very build of the check passed, nothing of its
  commands is left running, and there is always an answer.
* **Grader.** pytest may die before, while or after it writes its report, into a
  directory that may hold reports of an earlier session; the session itself may
  be killed between two writes. Correct means: points are those of tests that
  passed in this session, one bad language does not spoil the others, and
  `latest.json` never names an incomplete score.

## 2. Modules

| Module | Models | Kind |
| --- | --- | --- |
| `ControlPlane` | control plane of any number of engines | specification, properties, inductive invariant |
| `MetadataViews` | what the control plane promises about metadata | abstract specification |
| `ControlPlaneProofs`, `ControlPlanePairs` | | theorems about `ControlPlane`, with the refinement of `MetadataViews`; about its answers and the two ends of a connection |
| `NativeEngine`, `NativeEngineProofs` | the wrapper on top of the contract of a native engine | specification; theorems |
| `EngineCalls`, `EngineCallsProofs` | threads of one `Engine`; uses `NativeEngine` and its theorems by `INSTANCE` | specification, composition; theorems |
| `Conversions` | requests and statuses between Python, the C structs and the native languages | pure operators |
| `CApi`, `CApiProofs` | the entry points of the three adapters and their clients; extends `Conversions` | specification; theorems about it and about `Conversions` |
| `RdmaCheck`, `RdmaCheckProofs` | `rdma_check.cpp` | specification; theorems |
| `Doctor`, `DoctorProofs` | `doctor.py` with the check that it runs; extends `RdmaCheck` | specification, composition; theorems |
| `Grader`, `GraderProofs` | `grader.py`, and what pytest may leave behind | specification; theorems |
| `MCControlPlane`, `MCNativeEngine`, `MCEngineCalls`, `MCCApi`, `MCGrader` | | instances for TLC |

Every definition that models code is named in `PROJECT.json` with the lines it
stands for. A definition whose comment begins with *Slip* is no part of any
specification: it is the definition below it with a plausible mistake, kept
because some property must notice it (section 6).

### ControlPlane

One action is one critical section of the state lock. `call[e]` is the call that
holds the resource lock of engine `e`; `rpc[e]` is the RPC it waits for; `late`
holds requests whose callers have given up. `connect()` is thus `ConnectCall`,
`ConnectReply` and `ReadyReply`; a registration is `RegisterCall` (the native
registration), `Publish`, any number of `PublishNext` and `ChangedReply`, and
`PublishReturn`; `disconnect()` is `DisconnectCall` and `CloseReply`; `close()` is
`CloseCall` and `CloseReturn`. The handlers are `Connect`, `Ready`, `Changed` and
`Close`, and `RefuseClosed` when the engine is closed or gone. `CallRaises` and
`Timeout` end a call with an exception. `_connect_native` and `_import_snapshot`
are the sets of peers with which they may return and with which they may raise.

What is abstracted:

* A connection id, the native handle and the metadata of the queue pair are made
  together by `_create_peer` and never again, so one number stands for all three,
  counted for each pair of engines.
* Metadata is only appended, so a snapshot is its version.
* Endpoints are the engines themselves; the checks of endpoint strings
  (`control.py:39-43`, `103`, `121`, `171`) reduce to "not oneself".
* A READY peer makes `connect()` return at once; that changes nothing and is no
  action. `disconnect()` is called for READY peers, as only `connect()` hands out
  handles and it does so for READY peers.
* Which of several READY peers `publish()` tells first is left open.

### NativeEngine

The tables of the native engine (`regions`, `qps`, `imports`, `tasks`) follow the
contract in the header: BUSY for a buffer, region or batch that a pending task
uses, cancellation of the tasks of a destroyed peer, idempotent imports. The other
variables are the fields of the Python object. A method is one action. A native
call that is refused raises in Python and changes nothing on either side, so it
has no step; the raises *after* a successful native call (metadata missing, as
`native_engine.py:188` and `:237` test for) are disjuncts of their actions under
`Missing`. A worker ends tasks at any time (`Finish`).

### EngineCalls

`run[t]` is the place of a thread between two critical sections. Application
threads run `transfer()` (`Submit`, `Poll` or `WaitTimeout`, `Free`) without, and
registrations, `connect()`, `disconnect()` and `close()` with, the resource lock;
RPC workers run handlers (`Arrive`, then one action each, or two for a Connect
that creates its peer: the state lock is held in between). The control plane is
reduced to what it does to the native engine, with one other engine. `close()` is
`CloseControl`, `Stop`, `Drained` and `Destroy`, and `Destroy` may fail as in the C
starter, after which `close()` may be called again (`engine.py:130-136`).
`Engine.__init__`'s undo and `allocate()` have no action of their own.

### Conversions and CApi

An operation of `types.py` is a record with the fields of its class.
`Conversions` writes down how `native_engine.py` encodes it into the struct and its
union, how `ffi.cpp`, `ffi.rs` and `engine.c` read it, and the same for
statuses in the other direction. The union is three words on a little-endian
host; the immediate is the low half of the second, and `Half` stands for 2^32.
In `CApi` a client picks an entry point and any arguments; each `Cpp*`, `Rust*`
and `C*` operator is one entry point up to where the engine is entered. The engine
below may answer anything its interface can express. While a batch exists the
calls are about that batch: adapters keep nothing between calls, so other calls
would do what they do without it. Metadata bytes are left out.

### RdmaCheck

One action is one call that can block or fail: a resource created, a message sent
or received, the queue pair connected, the WRITE posted or polled, the buffer
verified, a resource released, the end closed, the child waited for. `Fabric`
performs the WRITE, `Killed` is a signal to one of the processes. `faults`, fixed
at the start, says whether anything goes wrong. `Dead` is what the kernel does when
processes are killed: their ends of the socket close, their verbs resources go.

### Doctor

`stage` is where `main` is and `place` where `run_command` is. `Start` is `Popen`,
which makes the compiler or the two processes of the check exist; from then on
`Check` lets the steps of `RdmaCheck` happen. `Wait` is the rest of `run_command`
in one step: `wait()` ends with a status, a timeout or Ctrl-C (`CommandEnds`), the
group is killed and reaped (`KillGroup`), and `main` goes on (`Continue`). Ctrl-C may
also come in the two windows in which `run_command` cannot act on it, between `Popen`
and the `try` and just before `killpg` (`Interrupted`, `WaitInterrupted`). The new
binary is moved over the old one as a whole, so `binary` has three values. The
texts of the report and its tools are left out: each has five seconds, and only the
status decides.

### Grader

A session is `Begin`, then for each language `Build` and a `RunLab` for each lab,
then the four writes of the score file and of `latest.json`, created and filled.
`RunLab` is one pytest session: it leaves its report, the beginning of one, or what
was there before. A report is an outcome in numbers of tests, and `Suite` says what
the attributes of its XML are: a test that fails and whose teardown fails too is one
test, one failure and one error, which is why `Count` has to stop at zero. `Begin`
may or may not find the reports of the session before (`fresh`). The hundred points of
a lab are `Scale` parts of equal size, of which each of its tests is worth a whole
number, so sums are exact; the code adds floating-point numbers, which are as good
as exact for numbers of tests as small as these.

## 3. Runs

| Run | Instance | Question and answer |
| --- | --- | --- |
| `pairing` | 2 engines, 2 connections, 2 memories, 1 timeout, native failures | Do connect, register and disconnect mispair engines, mix metadata or lose a registration for good, in any interleaving and with a request that is lost or served late? `TypeOK`, `IInv`, `PairingIsFinal`, `ReleasesDeadOnly` hold, and a Ready or Changed that is answered repairs whatever failed before it (`AnsweredIsImported`). |
| `restarts` | 2 engines, 2 connections, 1 memory, 1 timeout, 1 restart, all calls, fair | Do engines created anew break it, and does every call end? The control plane implements `MetadataViews`; `CallsReturn`; without timeouts `ReadyIsPaired`, `QuietEnginesAgree` (nor restarts) and `ConnectEstablishes`; after a timeout `ConnectsAfresh`: what a lost RPC leaves behind goes with a disconnect at both ends. |
| `group` | 3 engines, 1 connection per pair, 2 memories | A registration is announced to several peers while connections are being set up: `AckedIsImportedLossless`. |
| `connects_alone` | 2 engines, 2 connections, fair | *Violated*: section 5. |
| `register_loses` | 2 engines, 1 timeout | *Violated*: section 5. |
| `failed_again` | 2 engines, native failures | *Violated*: section 5. |
| `ready_alone` | 2 engines, 1 timeout | *Violated*: section 5. |
| `ownership` | 2 buffers, 4 handles, 2 tasks per batch, metadata may be missing | Any sequence of wrapper calls keeps `TypeOK`, `BuffersRetained` and `MirrorsAgree`. |
| `threads` | 2 threads, 1 RPC worker, 1 buffer, 3 handles, 2 tasks, fair | `TypeOK`, `BatchesOwned`, `FreeIsNeverBusy`, `CallsNotCutOff`, `HandlersSeeEngine`, and every call ends (`CallsEnd`). |
| `adapters` | 32 bits are `Half = 2`, batches of up to 2 | `TypeOK`, `AdaptersAgree`, `OutputsHonest`, `RequestsDelivered`, `StatusesReported`. |
| `write_check` | `doctor.py` and the check as they are, fair | The check: `PassMeansVerified`, `WriteFindsReady`, `BufferSettled`; it ends on its own limits (`Ends`). `doctor.py`: `DoctorTypeOK`, `PassIsHonest`, `NoneSurvives`, it always answers (`Answers`), and with 0 if nothing goes wrong (`Passes`). |
| `grading` | 2 languages, labs 0 and 1, 4 outcomes, 2 sessions, fair | Do stale, missing or broken reports, failed builds or a kill falsify a score? `TypeOK`, `ScoreIsEarned` (of a session that began without reports), `BestIsChosen`, `LatestIsComplete`, `GradesAnyway`. |

**Bounds.** Every one is a constant in a guard. *Connections*: two, so that a
request of the first connection can meet the second. Ids are only compared for
equality, so more bring no new comparison. *Memories*: versions are compared
by size, so two memories give an older, an equal and a newer snapshot. *Timeouts*:
one, so that a late request can race everything else; for more than one there are
the theorems of section 4; what is only model-checked assumes that nothing has timed
out, but for `ConnectsAfresh`. *Restarts*: one, so that peers of a
dead engine meet its successor. *Engines*: two show everything about a pair; three
add the loop of `publish()`. *Handles*: four are a peer, a registration, an import
and a batch that uses all of them; three are enough where no import takes part in a
race of threads. *Tasks*: two, so that one can end before the other. *`Half`*: two
gives words of two halves, so that reading the wrong half or too many bits shows.
`PyInts` holds a value that fits 32 bits, one that fits 64 only and one that fits
neither. *Grader*: two languages, so that one can fail and another win; labs 0 and 1,
as one is not scored and one is; the outcomes are all passed, one test
that fails twice, a test each that passes, errs and is skipped, and no tests, so that
`Scale` is 6; two sessions, so that one can find the other's files. Symmetry is used in runs without liveness properties.

**Deadlock** checking is off in all runs: an application may stop calling, the
bounds may be used up, and programs end.

**Fairness.** `ControlPlane`: weak fairness of `Proceed(e)`, because a thread that
holds the resource lock runs on when its RPC is answered, and of `Serve(e)`, because
the server's executor runs every request that reaches it. Applications need not
call anything, and no deadline need pass. `EngineCalls`: weak fairness of a thread's steps (RPCs
and `wait()` have deadlines) and of handlers, but not of `Finish`: tasks need not
end. `RdmaCheck`: weak fairness of each process, whose every wait has a limit
(`SO_RCVTIMEO` at `rdma_check.cpp:303`, the poll limit at `:247`), and of the fabric.
`Ends` with a killed or failed process rests on the closed socket and on those
limits. `Doctor`: weak fairness of what `doctor.py` does itself (`Supervise`; its
waits have limits) and, only when nothing goes wrong, of the compiler: with
`faults` it may hang. `Grader`: weak fairness of `Go`, because builds end and the
tests limit the time of the processes they start (`tests/processes.py:97`).

## 4. Proofs

Proved are all the invariants and action properties that the runs check and the
refinement of `MetadataViews`, for every value of the constants. The assumptions are
named in the modules: bounds are natural numbers, `Half` is a number above 1, threads
and workers are different, Python's integers are not negative, `None` is none of the
values it could be confused with, no language is graded twice, and `Scale` is a
multiple of each number of tests that occurs.

### The control plane

`ControlPlaneProofs` proves, for any set of engines and any bounds, under
`BoundsAssumption` alone:

| Theorem | Says |
| --- | --- |
| `TypeCorrect` | `Spec => []TypeOK` |
| `Invariance` | `Spec => []IInv` |
| `SnapshotsHonest` | `Spec => []SnapshotHonest`: what an engine has imported for a connection, the engine at its other end has published |
| `PairingKept` | `Spec => PairingIsFinal`: a live peer is never connected again, never loses READY, never goes back |
| `ClosesDeadOnly` | `Spec => ReleasesDeadOnly`: no request, however late, costs an engine a connection that is still alive at the other end |

`SnapshotHonest` is not inductive: it says nothing of the versions and ids still
under way. `IInv` adds, for everything that can still arrive, what is true of it:

* `PeerInv`: a peer is the last one created for its endpoint, and the id it is
  connected to was used by the other engine. So a *new* connection cannot have an
  id that anyone already holds.
* `RequestInv`: a request names a connection of its sender; *if that connection
  still exists*, its snapshot was published and it is not a Close. This is what
  makes late requests harmless: a handler acts only on the connection its peer is
  linked to, and then the condition applies.
* `CallInv`, `RpcInv`: the same for calls between two steps and for answers that
  have not been read; a Ready answer in particular is a snapshot of the connection
  it answers for.

The proof that a step preserves `IInv` goes by what steps do to the tables: lemmas
`SetPeerInv`, `SamePeers`, `ImportInv` and `ConnectInv` are about the table of
peers, `GrowsRequest`, `GrowsCall` and `GrowsRpc` carry what is under way over a
step in which numbers only grow, and `CallMoves`, `ReturnMoves` and `HandlerMoves`
are about what a step adds. Each action then cites two or three of them. TLC
checks `IInv` in run `pairing`.

`ViewsImplemented` is `Spec => ImplementsViews`: what an
engine knows of another over the connection they share is a prefix of what the
other has published, only grows, and goes with the connection. Each step
is an `Append`, `Learn`, `Part` or `Leave` of `MetadataViews`, or a stutter. The proof
rests on `IInv`: an imported snapshot was published because the request or answer it
came in was honest, and a new peer has an id that no one holds, so that it begins
without a view on either side.

### The two ends of a connection

| Theorem of `ControlPlanePairs` | Says |
| --- | --- |
| `AnswersAreImported` | `Spec => []AnsweredIsImported`: what an answered Ready or Changed has brought is there as long as the connection is |
| `ReadyPeersArePaired` | `Spec => []ReadyIsPaired`: until a call times out, a READY peer whose partner exists is that partner's peer |
| `AckedAreImported` | `Spec => []AckedIsImportedLossless`: a registration that has returned is known at the other end of every established connection |
| `IdleEnginesAgree` | `Spec => []QuietEnginesAgree`: engines in no call agree on the connection between them |

`IInv` says what is true of the data under way; these four need to know what the
*caller* of an RPC is doing, and what the other end has done since it answered. The
invariants are about one or two engines each, while an action changes four tables at
once. So `StepsNext` first says of every action what it does to one RPC (`RpcStep`), one
registration (`PublishStep`) and one peer (`ConnectStep`, `ReadyStep`, `DropStep`):
a peer gets its remote id from the answer to its own offer or from an offer of the
other engine, and so on. The invariants are proved from those steps alone, with
`Lives` and `Relinked`: a peer whose id is still in the table is the one it was, and two
peers that are linked after a step in which they live on were linked before it.

* `AgreeInv` holds whatever times out. `AskInv`: an RPC is one of the call its engine
  is in, a Changed goes to connected peers, and a Ready tells of everything
  that was acknowledged. `AnswerInv`: an answered request has reached the peer at the
  other end, if that peer is still there. `AnsweredIsImported` is part of it.
* `PairInv` holds until something times out. Then each request has a caller that waits
  for it, and there are no others. Two offers that cross are the difficult case:
  `OfferInv` says that the answer to an offer names the peer that has
  accepted it, or will be refused because its reader has been connected in the
  meantime to another one, and that a Ready is sent only by a peer that is connected
  to its receiver. Without the first part a step from the answer to READY could
  mispair; without the second so could a handler.
* `LosslessInv` is about e's READY peer for f. f knows what e had acknowledged, *or*
  f's answer to its own Ready is on its way and brings it (`Knows`): f is not
  READY yet, and a registration of e cannot have waited for it. A registration of e
  under way has f still to tell, is telling it, or f knows (`Tells`).
* `QuietInv` holds until something times out or an engine is closed. A READY peer has
  its partner, or the partner's engine has a Close under way that will tell it
  (`Closes`). `PartnerInv` says the same of what can become READY: an answered offer, a
  Ready about to be accepted, an accepted Ready. That Close is an RPC of
  the partner's engine, so where neither engine is in a call there is none.

TLC checked these invariants on small instances before they were proved.
That the conditions are needed is shown by `ready_alone` and `register_loses`.

### The wrapper

`NativeEngineProofs`: `TypeCorrect`, `MirrorsFaithful` (`[]MirrorsAgree`) and
`BuffersKept` (`[]BuffersRetained`). `TypeOK` and `MirrorsAgree` are inductive
together. `BuffersRetained` is not: that a task's buffer is retained follows from
its region, so `BorrowsRegistered` is needed, that the buffer of a pending task is
registered, and it is kept because the native engine answers BUSY to a
deregistration meanwhile.

### Threads

`EngineCallsProofs`: `SharedTyped` (`TypeOK`), `NobodyCutOff` (`CallsNotCutOff`),
`HandlersSafe` (`HandlersSeeEngine`), `NoBatchLeft` (`BatchesOwned`) and
`FreeSucceeds` (`FreeIsNeverBusy`), for any threads and workers. Every step is at
most one step of `NativeEngine` (`EngineStep`), so its type invariant is cited
through `INSTANCE`. The invariant adds who is where: `LockInv`, that a thread inside
a call that needs the resource lock holds it; `CloseInv`, that a `close()` that has
drained finds no handler and that none comes after, also if an earlier `close()`
failed at the native engine; `Carries` and `TransferInv`, that two transfers never
carry the same batch, that it exists as long as the engine is open, and that a
transfer about to free it has no pending task.

With `EngineStep` under that invariant the composition implements its component:
`CallsAreSerial` is `Spec => NE!Spec`, so whatever the threads and handlers interleave,
the wrapper runs a behaviour of `NativeEngine`, and `WrapperUnbroken` carries
`BuffersRetained` and `MirrorsAgree` over to a shared engine. That each native call is
one step is the model's premise, because the state lock is held around it.

### The adapters

`CApiProofs` is about any width of integers, any Python integers, any words in the
requests of a C program and batches of any length. First the pure part: `RoundTrip`
(an operation that fits arrives as it is, through `ffi.cpp` and `ffi.rs`),
`RequestsAlike` (any bits are read alike, and `engine.c` refuses the same),
`StatusRoundTrip` (a promised status arrives as it is, any other is refused or read
as the completion of a task that receives nothing). `ArraysAlike`, `Judged` and
`JudgedSubmit` compare the three verdicts, entry point by entry point. The invariant
of a call (`CallInv`: the arguments are well-formed, nothing is left over, an
engine that has been entered finds zeroed outputs) then gives `WidthsKept`
(`TypeOK`), `JudgedAlike` (`AdaptersAgree`), `StorageDefined` (`OutputsHonest`),
`BatchArrives` (`RequestsDelivered`) and `StatusesArrive` (`StatusesReported`).

### The check and doctor.py

`RdmaCheckProofs`: `PassIsVerified` (`PassMeansVerified`), `WritesToReady`
(`WriteFindsReady`), `BufferIsSettled` (`BufferSettled`). The invariant says what a
token tells, under way or received (`TokenInv`: R that the receiver is ready or has
failed, D that the WRITE has ended, V that the receiver has verified it), what an end
without a failure tells (`EndInv`) and which resources are held where
(`ResourceInv`). `DoctorProofs` extends it to the composition: a step of `doctor.py`
is for the check a step of its own, none, or the end of both processes, so the
invariant of the check carries over. `DoctorTyped`, `PassesHonestly`
(`PassIsHonest`) and `LeavesNothing` (`NoneSurvives`) add where `main` can be
(`StageInv`), whose command runs (`CommandInv`) and what an answer says (`AnswerInv`).

### The grader

`GraderProofs` is about any list of languages, any number of labs and of tests, and
any number of sessions.

| Theorem | Says |
| --- | --- |
| `GraderTyped` | `Spec => []TypeOK`: no count is negative |
| `ScoresAreEarned` | `Spec => []ScoreIsEarned` |
| `LatestAlwaysComplete` | `Spec => []LatestIsComplete` |
| `BestAlwaysChosen` | `Spec => []BestIsChosen` |

`TypeOK` is inductive with `FlowInv`, which says what a session has left to do in each
stage. `ScoreIsEarned` is about assessments only; `EarnedInv` adds that every report
there is was written in this session, and that the results of the lab under way
are counted on the reports that are there; `DistinctInv`, that no language comes
twice, keeps a later `RunLab` from replacing a report that was counted. `LatestInv` says
that `latest.json` names a session whose score file is complete and is not this
session's before that file is written. `BestIsChosen` needs two inductions: over the
labs, that a language which earns more in one and less in none has the larger sum
(`EarnedMonotone`), and over the assessments, that there is a first largest one
(`BestExists`). `BeatsEarns` relates shares, compared crosswise, to points; here `Scale`
has to be a multiple of each number of tests (`ExactInv`).

The induction theorems of the library take an operator as parameter, which no backend
can instantiate. `Induction` states the principle for a *set* of numbers instead, and
follows from the least element of every non-empty set (`Least`), which `WFMin` of the
library gives without such a parameter. With it `SumsExist` shows that the recursive
function in `Earned` is one.

### Only model-checked

The liveness properties `CallsReturn`, `ConnectEstablishes`, `ConnectsAfresh`,
`CallsEnd`, `Ends`, `Answers`, `Passes` and `GradesAnyway`: liveness under fairness is
out of the prover's reach, as is `ENABLED`. No module declares a RECURSIVE operator,
so none is closed to proofs.

## 5. Where the code and its documentation disagree

Each is a run whose property restates the documentation and which TLC refutes.

* `connects_alone`. `Engine.connect` is to "Connect both ends and exchange memory
  metadata" (`engine.py:64`). Engine A's Connect is under way to B while B, which
  had connected to A first, disconnects. B has removed its peer, so A's
  offer is accepted for a *new* peer; then B's Close reaches A and ends the
  connection that was offered; A's call raises. B keeps a CONNECTED peer for a
  connection that is gone. `control.py:110` refuses every other connection for it,
  and no call of B's application returns its handle, so nobody can disconnect it:
  `connect()` raises on both sides from then on. Nothing was lost, nothing failed.
* `register_loses`. A registration waits "for connected peers to import its
  metadata" (`engine.py:78`). After a `connect()` that timed out in Ready, the other
  end is READY and this one CONNECTED, and `publish()` asks READY peers only.
* `failed_again`. "A peer with failed connection must be destroyed"
  (`transfer_engine.h:295-296`). The peer stays CREATED in the table, and the next
  handshake calls `connect_peer` on it again.
* `ready_alone`. READY means "Both QPs are connected" (`control.py:17`). A Connect
  served after its caller timed out and disconnected pairs the server with a
  connection that is gone, and a later handshake makes a READY peer of it whose
  partner is not connected to it.

`AckedIsImportedLossless`, `ReadyIsPaired`, `QuietEnginesAgree` and
`ConnectEstablishes` are what holds in place of the refuted statements, with the
condition that each needs.

## 6. Which slip each property notices

| Property | Slip |
| --- | --- |
| `ControlPlane!TypeOK` | `ReadyEchoes`: Ready answers with the caller's version |
| `IInv`, `ImplementsViews` | `FindEndpoint`: the connection id is not compared |
| `AnsweredIsImported` | `ImportOnce`: one snapshot per peer |
| `PairingIsFinal` | `ImportWhatever`: versions are not compared |
| `ReleasesDeadOnly` | `ClosesEndpoint`: Close releases whatever peer there is |
| `AckedIsImportedLossless` | `PublishReturnEarly`: publish does not wait for all |
| `ReadyIsPaired` | `RequireSomePeer`: the peer is not checked after the RPC |
| `QuietEnginesAgree` | `ConnectNativeQuiet`: another connection is passed over in silence |
| `CallsReturn` | `ServeLocked`: handlers take the resource lock |
| `ConnectEstablishes` | `ConnectNativeOnce`: a connected peer is refused |
| `ConnectsAfresh` | `FindOwnId`: the wrong one of the two ids is compared |
| `NativeEngine!TypeOK`, `BuffersRetained`, `MirrorsAgree` | `ImportKeepsDescriptor`, `RegisterThenRetain`, `DestroyPeerOnly` |
| `EngineCalls!TypeOK`, `BatchesOwned`, `FreeIsNeverBusy` | `RegisterBuffer`, `FreeUnlessFailed`, `PollAny` |
| `CallsNotCutOff`, `HandlersSeeEngine`, `CallsEnd` | `CloseUnlocked`, `StopOnly`, `HandleLocked` |
| `CApi!TypeOK`, `RequestsDelivered` | `WideImmediate`, `RustSubmitPrefix` |
| `AdaptersAgree`, `OutputsHonest`, `StatusesReported` | `RustArrayAnywhere`, `CppImportLate`, `DecodeStatusAnyKind` |
| `DoctorTypeOK`, `PassMeansVerified`, `WriteFindsReady` | `WaitAndCount`, `WaitForNobody`, `ConnectBlindly` |
| `BufferSettled`, `Ends`, `Passes` | `PollOnce`, `ReceiveForever`, `ReleasedEarly` |
| `PassIsHonest`, `NoneSurvives`, `Answers` | `EndsUnseen`, `KillUnfinished`, `EndsForever` |
| `Grader!TypeOK`, `ScoreIsEarned`, `BestIsChosen` | `CountBelowZero`, `CountFailures`, `EarnedInAll` |
| `LatestIsComplete`, `GradesAnyway` | `WriteLatestFirst`, `RunLabUncaught` |

The adapters differ in one point that `AdaptersAgree` exempts: `ffi.rs:51-53`
refuses a device name that is not UTF-8, while C++ and C pass it on.

## 7. Not modelled

* **Native engines in C, C++ and Rust.** Starters whose methods answer
  `Unimplemented`; their contract is modelled in `NativeEngine`.
* **Verbs probe** (`tests/verbs_probe.c`). It observes an engine that is still to be
  written, and what it promises depends on that engine's use of verbs.
* **Test process runner** (`tests/processes.py`) and **lab tests.** They are
  tests of code that is not here; only their time limit is used, in `Grader`.
* **Fake engines of the internal tests.** Constants.
* **Format, test and generation scripts, FFI bindings, generated gRPC code.** Input
  and output around other tools, without state.
* Inside the modelled parts: an output directory that cannot be written and a pytest
  without a time limit (`grader.py`), and the reuse of process ids
  (`doctor.py:75`).

## 8. Plan

In order of importance:

1. `wait()` under fair tasks in `EngineCalls`: a transfer whose tasks end returns
   their statuses although `close()` or `disconnect()` cancels others.
2. `VerbsProbe`: accounting of signaled and unsignaled WRITEs, completions held back
   and released at shutdown, with an abstract queue pair as its specification.
