-------------------------------- MODULE CApi --------------------------------
(***************************************************************************)
(* The C API of transfer_engine.h in its three adapters: ffi.cpp and       *)
(* ffi.rs in front of a native engine, and engine.c, which judges the      *)
(* arguments and is otherwise to be written.  A client, which is a C       *)
(* program or NativeEngine in Python, calls one entry point at a time with *)
(* any arguments.  The adapter refuses the call or enters the engine; the  *)
(* engine answers; the adapter fills the caller's storage.                 *)
(*                                                                         *)
(* Each Cpp*, Rust* and C* operator is one entry point up to the engine:   *)
(* its verdict says how the call ends there (result), or that the engine   *)
(* is entered (result "enter") and with what (native), and whether the     *)
(* outputs have been zeroed.  The native engine is any engine.             *)
(***************************************************************************)
EXTENDS Conversions, FiniteSets, SequencesExt

CONSTANTS
  None,        \* nothing
  PyInts,      \* the integers in a Python request
  RawWords,    \* the words in a C client's request
  MaxRequests  \* bound on the requests of a batch

ASSUME CApiAssumption ==
  /\ PyInts \subseteq Nat /\ RawWords \subseteq 0..Word-1
  /\ MaxRequests \in Nat

VARIABLES
  lang,      \* the adapter that has been built
  client,    \* who calls: "C", "Python" or None
  entry,     \* the entry point
  args,      \* its arguments
  asked,     \* the Python requests behind the arguments of a submission
  at,        \* "idle", "inside" the engine, "returned", "raised", "aborted"
  native,    \* what the engine has been given
  outputs,   \* what the call left in *engine, *memory, *metadata, *batch ...
  statuses,  \* what it left in the array of statuses
  result,    \* what it returned
  told,      \* what the engine answered about each task
  results,   \* what Python makes of the statuses
  accepted   \* the operations of the batch that exists

vars == <<lang, client, entry, args, asked, at, native, outputs, statuses,
          result, told, results, accepted>>

-----------------------------------------------------------------------------
(* Arguments *)

\* What is wrong with an array, if anything: its address or its count.
Arrays == {"good", "null", "empty", "huge", "misaligned"}

KnownFlags == {"LOCAL_WRITE", "REMOTE_WRITE", "REMOTE_READ", "REMOTE_ATOMIC"}

\* Arguments with nothing wrong.  An entry point looks at those it has.
Plain ==
  [outs |-> TRUE,       \* every output pointer is given
   engine |-> TRUE,     \* the engine is given
   handle |-> TRUE,     \* the handle is not zero
   config |-> "good",   \* "good", "null", or of another ABI "version"
   device |-> "utf8",   \* "null", "utf8", or "other" bytes
   array |-> "good", access |-> {}, items |-> <<>>,
   memory |-> TRUE]     \* the adapter gets the memory it asks for

Call(code, zeroed, x) == [result |-> code, zeroed |-> zeroed, native |-> x]
Untouched == Call("INVALID", FALSE, None)
Refuse(code) == Call(code, TRUE, None)
Unless(bad, x) == IF bad THEN Refuse("INVALID") ELSE Call("enter", TRUE, x)
Stub(bad) == Refuse(IF bad THEN "INVALID" ELSE "UNIMPLEMENTED")

\* The adapter cannot allocate, converts, or enters the engine.
Copied(a, items) ==
  IF ~a.memory THEN Refuse("NO_MEMORY")
  ELSE Unless(\E k \in DOMAIN items : items[k] = Refused, items)

-----------------------------------------------------------------------------
(* ffi.cpp *)

\* valid_array of a type that needs alignment, or of bytes
CppArray(array, aligned) ==
  array \notin {"null", "empty", "huge"} /\ (aligned => array # "misaligned")

CppCreateEngine(a) ==
  IF ~a.outs THEN Untouched
  ELSE IF a.config # "good" THEN Refuse("INVALID")
  ELSE IF a.device # "null" /\ ~a.memory THEN Refuse("NO_MEMORY")
  ELSE Unless(FALSE, a.device)
CppDestroyEngine(a) == Unless(~a.engine, None)
CppRegister(a) ==
  IF ~a.outs THEN Untouched
  ELSE Unless(~a.engine \/ ~CppArray(a.array, FALSE) \/ a.access \ KnownFlags # {},
              a.access)
CppDeregister(a) == Unless(~a.engine \/ ~a.handle, None)
\* Slip: the output is zeroed after the arguments have been judged.
CppImportLate(a) ==
  IF ~a.outs \/ ~a.engine \/ ~a.handle \/ ~CppArray(a.array, FALSE)
  THEN Untouched ELSE Unless(FALSE, None)
CppImport(a) ==
  IF ~a.outs THEN Untouched
  ELSE Unless(~a.engine \/ ~a.handle \/ ~CppArray(a.array, FALSE), None)
CppRemove(a) == Unless(~a.engine \/ ~a.handle, None)
CppCreatePeer(a) == IF ~a.outs THEN Untouched ELSE Unless(~a.engine, None)
CppConnectPeer(a) ==
  Unless(~a.engine \/ ~a.handle \/ ~CppArray(a.array, FALSE), None)
CppDestroyPeer(a) == Unless(~a.engine \/ ~a.handle, None)
CppSubmit(a) ==
  IF ~a.outs THEN Untouched
  ELSE IF ~a.engine \/ ~CppArray(a.array, TRUE) THEN Refuse("INVALID")
  ELSE Copied(a, [k \in DOMAIN a.items |-> CppRequest(a.items[k])])
CppStatuses(a) ==
  IF ~a.engine \/ ~a.handle \/ ~CppArray(a.array, TRUE) THEN Refuse("INVALID")
  ELSE Copied(a, <<>>)
CppFree(a) == Unless(~a.engine \/ ~a.handle, None)

-----------------------------------------------------------------------------
(* ffi.rs: a missing engine is found out when the engine is entered. *)

\* Slip: the alignment is not looked at.
RustArrayAnywhere(array, aligned) == array \in {"good", "misaligned"}

\* array_len
RustArray(array, aligned) ==
  array = "good" \/ (array = "misaligned" /\ ~aligned)

RustCreateEngine(a) ==
  IF ~a.outs THEN Untouched
  ELSE IF a.config \in {"null", "version"} \/ a.device = "other" THEN Refuse("INVALID")
  ELSE IF a.device = "utf8" /\ ~a.memory THEN Refuse("NO_MEMORY")
  ELSE Unless(FALSE, a.device)
RustDestroyEngine(a) == Unless(~a.engine, None)
RustRegister(a) ==
  IF ~a.outs THEN Untouched
  ELSE Unless(~RustArray(a.array, FALSE) \/ ~a.engine \/ ~(a.access \subseteq KnownFlags),
              {f \in KnownFlags : f \in a.access})
RustDeregister(a) == Unless(~a.handle \/ ~a.engine, None)
RustImport(a) ==
  IF ~a.outs THEN Untouched
  ELSE Unless(~a.handle \/ ~RustArray(a.array, FALSE) \/ ~a.engine, None)
RustRemove(a) == Unless(~a.handle \/ ~a.engine, None)
RustCreatePeer(a) == IF ~a.outs THEN Untouched ELSE Unless(~a.engine, None)
RustConnectPeer(a) ==
  Unless(~a.handle \/ ~RustArray(a.array, FALSE) \/ ~a.engine, None)
RustDestroyPeer(a) == Unless(~a.handle \/ ~a.engine, None)
\* Slip: the batch is cut at the first request that cannot be decoded.
RustSubmitPrefix(a) ==
  IF ~a.outs THEN Untouched
  ELSE IF ~RustArray(a.array, TRUE) \/ ~a.engine THEN Refuse("INVALID")
  ELSE Copied(a, SelectSeq([k \in DOMAIN a.items |-> RustRequest(a.items[k])],
                           LAMBDA o : o # Refused))
RustSubmit(a) ==
  IF ~a.outs THEN Untouched
  ELSE IF ~RustArray(a.array, TRUE) \/ ~a.engine THEN Refuse("INVALID")
  ELSE Copied(a, [k \in DOMAIN a.items |-> RustRequest(a.items[k])])
RustStatuses(a) ==
  IF ~a.handle \/ ~RustArray(a.array, TRUE) \/ ~a.engine THEN Refuse("INVALID")
  ELSE Copied(a, <<>>)
RustFree(a) == Unless(~a.handle \/ ~a.engine, None)

-----------------------------------------------------------------------------
(* engine.c *)

\* valid_array, which is told the alignment
CArray(array, alignment) ==
  /\ array # "null" /\ array # "empty" /\ array # "huge"
  /\ array = "misaligned" => alignment = 1

CCreateEngine(a) == IF ~a.outs THEN Untouched ELSE Stub(a.config # "good")
CDestroyEngine(a) == Stub(~a.engine)
CRegister(a) ==
  IF ~a.outs THEN Untouched
  ELSE Stub(~a.engine \/ ~CArray(a.array, 1) \/ a.access \ KnownFlags # {})
CDeregister(a) == Stub(~a.engine \/ ~a.handle)
CImport(a) ==
  IF ~a.outs THEN Untouched
  ELSE Stub(~a.engine \/ ~a.handle \/ ~CArray(a.array, 1))
CRemove(a) == Stub(~a.engine \/ ~a.handle)
CCreatePeer(a) == IF ~a.outs THEN Untouched ELSE Stub(~a.engine)
CConnectPeer(a) == Stub(~a.engine \/ ~a.handle \/ ~CArray(a.array, 1))
CDestroyPeer(a) == Stub(~a.engine \/ ~a.handle)
CSubmit(a) ==
  IF ~a.outs THEN Untouched
  ELSE Stub(\/ ~a.engine \/ ~CArray(a.array, 8)
            \/ \E k \in DOMAIN a.items : ~CAccepts(a.items[k]))
CStatuses(a) == Stub(~a.engine \/ ~a.handle \/ ~CArray(a.array, 8))
CFree(a) == Stub(~a.engine \/ ~a.handle)

-----------------------------------------------------------------------------
(* The adapters *)

\* The verdicts of the adapters on a call.
Verdicts(e, a) ==
  CASE e = "create_engine" ->
         [cpp |-> CppCreateEngine(a), rust |-> RustCreateEngine(a), c |-> CCreateEngine(a)]
    [] e = "destroy_engine" ->
         [cpp |-> CppDestroyEngine(a), rust |-> RustDestroyEngine(a), c |-> CDestroyEngine(a)]
    [] e = "register_local_memory" ->
         [cpp |-> CppRegister(a), rust |-> RustRegister(a), c |-> CRegister(a)]
    [] e = "deregister_local_memory" ->
         [cpp |-> CppDeregister(a), rust |-> RustDeregister(a), c |-> CDeregister(a)]
    [] e = "import_remote_memory" ->
         [cpp |-> CppImport(a), rust |-> RustImport(a), c |-> CImport(a)]
    [] e = "remove_remote_memory" ->
         [cpp |-> CppRemove(a), rust |-> RustRemove(a), c |-> CRemove(a)]
    [] e = "create_peer" ->
         [cpp |-> CppCreatePeer(a), rust |-> RustCreatePeer(a), c |-> CCreatePeer(a)]
    [] e = "connect_peer" ->
         [cpp |-> CppConnectPeer(a), rust |-> RustConnectPeer(a), c |-> CConnectPeer(a)]
    [] e = "destroy_peer" ->
         [cpp |-> CppDestroyPeer(a), rust |-> RustDestroyPeer(a), c |-> CDestroyPeer(a)]
    [] e = "submit_transfer" ->
         [cpp |-> CppSubmit(a), rust |-> RustSubmit(a), c |-> CSubmit(a)]
    [] e = "get_transfer_statuses" ->
         [cpp |-> CppStatuses(a), rust |-> RustStatuses(a), c |-> CStatuses(a)]
    [] e = "free_batch" ->
         [cpp |-> CppFree(a), rust |-> RustFree(a), c |-> CFree(a)]

\* Entry points that hand something back through pointers of their own.
WithOutputs == {"create_engine", "register_local_memory", "import_remote_memory",
                "create_peer", "submit_transfer"}

\* Entry points whose handle and whose array have to be good.
WithHandle == {"deregister_local_memory", "import_remote_memory", "remove_remote_memory",
               "connect_peer", "destroy_peer", "get_transfer_statuses", "free_batch"}
WithArray == {"register_local_memory", "import_remote_memory", "connect_peer",
              "submit_transfer", "get_transfer_statuses"}
Entries == WithOutputs \cup WithHandle \cup {"destroy_engine"}

ASSUME NoneAssumption == None \notin Entries \cup Errors \cup {"OK", "C", "Python"}

\* Requests of a C client: any opcode and flags, and any bits in the union.
RawRequests ==
  [opcode : 0..8, flags : 0..2, args : [1..3 -> RawWords]]

\* A batch of a C client has one request that may be anything.
AnyWrite == [opcode |-> WRITE, flags |-> 0, args |-> <<0, 0, 0>>]
RawBatches ==
  {[k \in 1..n |-> IF k = i THEN r ELSE AnyWrite] :
     r \in RawRequests, n \in 1..MaxRequests, i \in 1..MaxRequests}

\* Arguments that are missing or bad, of those that entry point e has.
Given(outs, engine, handle, array, memory, items) ==
  [Plain EXCEPT !.outs = outs, !.engine = engine, !.handle = handle, !.array = array,
                !.memory = memory, !.items = items]
Maybe(e, es) == IF e \in es THEN BOOLEAN ELSE {TRUE}
Flawed(e) ==
  {Given(o, g, h, r, m, IF e = "submit_transfer" THEN <<AnyWrite>> ELSE <<>>) :
     o \in Maybe(e, WithOutputs), g \in BOOLEAN, h \in Maybe(e, WithHandle),
     r \in IF e \in WithArray THEN Arrays ELSE {"good"}, m \in BOOLEAN}

\* The arguments that only create_engine, register_local_memory or
\* submit_transfer has.
Configured(config, device, memory) ==
  [Plain EXCEPT !.config = config, !.device = device, !.memory = memory]
Accessed(flags) == [Plain EXCEPT !.access = flags]
Submitted(items, memory) == [Plain EXCEPT !.items = items, !.memory = memory]
Configs ==
  {Configured(c, d, m) :
     c \in {"good", "null", "version"}, d \in {"null", "utf8", "other"}, m \in BOOLEAN}
Accesses == {Accessed(f) : f \in SUBSET (KnownFlags \cup {"UNKNOWN"})}
Batches == {Submitted(s, m) : s \in RawBatches, m \in BOOLEAN}

\* What a C client passes to entry point e.
Arguments(e) ==
  Flawed(e) \cup (IF e = "create_engine" THEN Configs ELSE {})
            \cup (IF e = "register_local_memory" THEN Accesses ELSE {})
            \cup (IF e = "submit_transfer" THEN Batches ELSE {})

-----------------------------------------------------------------------------
(* Calls *)

Init ==
  /\ lang \in {"cpp", "rust", "c"}
  /\ client = None /\ entry = None /\ args = Plain /\ asked = <<>>
  /\ at = "idle" /\ native = None /\ outputs = "garbage" /\ statuses = None
  /\ result = None /\ told = <<>> /\ results = <<>> /\ accepted = <<>>

\* While there is a batch the calls are about it: the adapters keep nothing from
\* one call to the next, so other calls would do what they do without a batch.
Callable ==
  IF accepted = <<>> THEN Entries ELSE {"get_transfer_statuses", "free_batch"}

\* Client c calls entry point e with arguments a.
Enter(c, e, a) ==
  LET v == Verdicts(e, a)[lang] IN
  /\ client' = c /\ entry' = e /\ args' = a
  /\ outputs' = IF v.zeroed THEN "zero" ELSE "garbage"
  /\ IF v.result = "enter"
     THEN at' = "inside" /\ native' = v.native /\ result' = None
     ELSE at' = "returned" /\ native' = None /\ result' = v.result
  /\ statuses' = None /\ told' = <<>> /\ results' = <<>>
  /\ UNCHANGED <<lang, accepted>>

\* A C program calls.
CallFromC ==
  /\ at = "idle"
  /\ \E e \in Callable : \E a \in Arguments(e) : Enter("C", e, a)
  /\ asked' = <<>>

\* Python operations, with fields of any size.
PyOperations == Operations(PyInts, PyInts)

\* submit_transfer of NativeEngine.  Without requests the count is zero.
SubmitFromPython ==
  /\ at = "idle" /\ accepted = <<>>
  /\ \E s \in SeqOf(PyOperations, MaxRequests) :
       LET raw == [k \in DOMAIN s |-> EncodeRequest(s[k])] IN
       /\ asked' = s
       /\ IF Refused \in Range(raw)
          THEN /\ at' = "raised" /\ client' = "Python"
               /\ UNCHANGED <<lang, entry, args, native, outputs, statuses, result,
                              told, results, accepted>>
          ELSE Enter("Python", "submit_transfer",
                     [Plain EXCEPT !.items = raw,
                                   !.array = IF s = <<>> THEN "empty" ELSE "good"])

\* get_transfer_statuses of NativeEngine
StatusesFromPython ==
  /\ at = "idle" /\ accepted # <<>>
  /\ Enter("Python", "get_transfer_statuses", Plain)
  /\ asked' = <<>>

\* What the engine may say of a task; only C++ has a failure with Ok.
Answers ==
  {Pending, Completed}
    \cup {Failed(x) : x \in {"IO_ERROR", "CANCELED"}
                              \cup IF lang = "cpp" THEN {"OK"} ELSE {}}
    \cup {Message(n) : n \in 0..1} \cup {WriteNotice(n) : n \in 0..1}

\* The engine answers: an error, or OK with an object, a batch or statuses.
Answer ==
  /\ at = "inside"
  /\ \/ /\ entry # "destroy_engine"
        /\ result' = "BUSY" /\ at' = "returned"
        /\ UNCHANGED <<outputs, statuses, told, results, accepted>>
     \/ /\ entry # "get_transfer_statuses"
        /\ result' = "OK" /\ at' = "returned"
        /\ outputs' = IF entry \in WithOutputs THEN "value" ELSE outputs
        /\ accepted' = IF entry = "submit_transfer" THEN native
                       ELSE IF entry = "destroy_engine" \/ entry = "free_batch"
                       THEN <<>> ELSE accepted
        /\ UNCHANGED <<statuses, told, results>>
     \/ /\ entry = "get_transfer_statuses" /\ accepted # <<>>
        /\ told' \in [DOMAIN accepted -> Answers]
        /\ IF \E k \in DOMAIN accepted : lang = "cpp" /\ CppAborts(told'[k])
           THEN at' = "aborted" /\ UNCHANGED <<result, statuses, results>>
           ELSE /\ at' = "returned" /\ result' = "OK"
                /\ statuses' = [k \in DOMAIN accepted |->
                                  IF lang = "cpp" THEN CppStatus(told'[k])
                                  ELSE RustStatus(told'[k])]
                /\ results' = [k \in DOMAIN accepted |->
                                 DecodeStatus(statuses'[k], accepted[k].op)]
        /\ UNCHANGED <<outputs, accepted>>
  /\ UNCHANGED <<lang, client, entry, args, asked, native>>

\* The client has seen the outcome.
Return ==
  /\ at \in {"returned", "raised"}
  /\ at' = "idle" /\ client' = None /\ entry' = None /\ args' = Plain
  /\ asked' = <<>> /\ native' = None /\ outputs' = "garbage" /\ statuses' = None
  /\ result' = None /\ told' = <<>> /\ results' = <<>>
  /\ UNCHANGED <<lang, accepted>>

Next ==
  \/ CallFromC
  \/ SubmitFromPython \/ StatusesFromPython \/ Answer \/ Return

Spec == Init /\ [][Next]_vars

-----------------------------------------------------------------------------
(* Properties *)

(***************************************************************************)
(* Every variable has its type; what an engine is given and what makes up  *)
(* its batch are operations whose fields have the width they have in C.    *)
(***************************************************************************)
TypeOK ==
  /\ lang \in {"cpp", "rust", "c"} /\ client \in {"C", "Python", None}
  /\ entry \in Entries \cup {None}
  /\ asked \in Seq(PyOperations)
  /\ at \in {"idle", "inside", "returned", "raised", "aborted"}
  /\ entry = "submit_transfer" /\ at = "inside" => native \in Seq(NativeOperations)
  /\ outputs \in {"garbage", "zero", "value"}
  /\ result \in Errors \cup {"OK", None}
  /\ at # "aborted" => DOMAIN results = DOMAIN told
  /\ accepted \in Seq(NativeOperations)

(***************************************************************************)
(* The adapters judge alike (ffi.cpp, ffi.rs, engine.c): the same calls    *)
(* are refused, with the same code and the same outputs zeroed, and the    *)
(* engine is entered with the same values.  A device name that is not      *)
(* UTF-8 is the exception (ffi.rs:51-53).                                  *)
(***************************************************************************)
AdaptersAgree ==
  entry # None =>
    LET v == Verdicts(entry, args)
    IN /\ args.device # "other" => v.cpp = v.rust
       /\ v.c.zeroed = v.cpp.zeroed
       /\ args.memory => (v.c.result = "INVALID" <=> v.cpp.result = "INVALID")

(***************************************************************************)
(* A call that returns leaves defined storage behind: with OK everything   *)
(* it promises, a status for every task included; with any error zeros in  *)
(* the outputs, if all of their pointers are given, and nothing at all in  *)
(* the statuses, which may be uninitialized (ffi.cpp:343, ffi.rs:363).     *)
(***************************************************************************)
OutputsHonest ==
  /\ at = "returned" /\ entry \in WithOutputs /\ args.outs =>
       outputs = IF result = "OK" THEN "value" ELSE "zero"
  /\ at \in {"returned", "raised", "aborted"} =>
       IF entry = "get_transfer_statuses" /\ result = "OK"
       THEN DOMAIN statuses = DOMAIN accepted
       ELSE statuses = None

(***************************************************************************)
(* A batch is submitted as a whole and as it is (native_engine.py:259,     *)
(* ffi.cpp:311-314, ffi.rs:335-337): the engine gets every request of the  *)
(* array, a Python request arrives with all of its fields, and Python      *)
(* refuses it only if it does not fit into the C struct.                   *)
(***************************************************************************)
RequestsDelivered ==
  /\ at = "inside" /\ entry = "submit_transfer" =>
       /\ Len(native) = Len(args.items)
       /\ client = "Python" => native = asked
  /\ at = "raised" => \E k \in DOMAIN asked : ~Fits(asked[k])

(***************************************************************************)
(* Python is told what the engine said of each task, kind and value, if    *)
(* the engine keeps the header's promises; otherwise Python raises, or     *)
(* drops the receive of a task that is none, or the adapter aborts         *)
(* (native_engine.py:275-299, ffi.cpp:127-128).                            *)
(***************************************************************************)
StatusesReported ==
  /\ \A k \in DOMAIN results :
       results[k] = IF Promised(told[k], accepted[k].op) THEN told[k]
                    ELSE IF accepted[k].op = "Recv" \/ told[k].state = "FAILED"
                    THEN Refused ELSE Completed
  /\ at = "aborted" => told # <<>> /\ Failed("OK") \in Range(told)

=============================================================================
