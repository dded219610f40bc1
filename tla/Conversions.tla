----------------------------- MODULE Conversions -----------------------------
(***************************************************************************)
(* What becomes of a request on its way from Python to a native engine     *)
(* and of a status on its way back.  native_engine.py writes a request     *)
(* into the C struct of transfer_engine.h; ffi.cpp or ffi.rs reads it into *)
(* a value of the native language; engine.c only judges it.                *)
(*                                                                         *)
(* A C integer is a number below Half (32 bits) or below Word (64 bits).   *)
(* The union of the arguments is three words that every member overlays.   *)
(***************************************************************************)
EXTENDS Integers, Sequences

CONSTANTS
  Half  \* 2^32, or a smaller number that plays its part

ASSUME HalfAssumption == Half \in Nat /\ Half > 1

Word == Half * Half

\* r101_opcode
WRITE == 1
READ == 2
SEND == 3
RECV == 4
WRITE_IMM == 5
COMPARE_SWAP == 6
FETCH_ADD == 7

\* r101_request_flag
INLINE == 1

\* r101_request_args: what each member reads, on a little-endian host.
RemoteAddress(r) == r.args[1]
\* Slip: the immediate is read as wide as an address.
WideImmediate(r) == r.args[2]
Immediate(r) == r.args[2] % Half
Compare(r) == r.args[2]
Value(r) == r.args[3]

\* The operations.
Write(x, b) == [op |-> "Write", address |-> x, inline |-> b]
Read(x) == [op |-> "Read", address |-> x]
Send(b) == [op |-> "Send", inline |-> b]
Recv == [op |-> "Recv"]
WriteImm(x, y, b) == [op |-> "WriteImm", address |-> x, immediate |-> y, inline |-> b]
CompareSwap(x, y, z) == [op |-> "CompareSwap", address |-> x, compare |-> y, value |-> z]
FetchAdd(x, z) == [op |-> "FetchAdd", address |-> x, value |-> z]

\* Those with these words and immediates.
Operations(words, immediates) ==
  {Write(x, b) : x \in words, b \in BOOLEAN}
    \cup {Read(x) : x \in words} \cup {Send(b) : b \in BOOLEAN} \cup {Recv}
    \cup {WriteImm(x, y, b) : x \in words, y \in immediates, b \in BOOLEAN}
    \cup {CompareSwap(x, y, z) : x \in words, y \in words, z \in words}
    \cup {FetchAdd(x, z) : x \in words, z \in words}

\* Those whose fields have the width they have in C.
NativeOperations == Operations(0..Word-1, 0..Half-1)

\* What stands for a value that could not be converted.
Refused == [op |-> "refused"]

-----------------------------------------------------------------------------
(* Requests *)

\* cffi refuses an integer that its field cannot hold.
Fits(o) == o \in NativeOperations

Opcode == [Write |-> WRITE, Read |-> READ, Send |-> SEND, Recv |-> RECV,
           WriteImm |-> WRITE_IMM, CompareSwap |-> COMPARE_SWAP,
           FetchAdd |-> FETCH_ADD]

\* _encode_request into a zeroed r101_request
EncodeRequest(o) ==
  IF ~Fits(o) THEN Refused
  ELSE [opcode |-> Opcode[o.op],
        flags |-> IF o.op \in {"Write", "Send", "WriteImm"} /\ o.inline
                  THEN INLINE ELSE 0,
        args |-> CASE o.op \in {"Write", "Read"} -> <<o.address, 0, 0>>
                   [] o.op = "WriteImm" -> <<o.address, o.immediate, 0>>
                   [] o.op = "CompareSwap" -> <<o.address, o.compare, o.value>>
                   [] o.op = "FetchAdd" -> <<o.address, 0, o.value>>
                   [] OTHER -> <<0, 0, 0>>]

\* decode_request in ffi.cpp
CppRequest(r) ==
  LET inline == r.flags = INLINE IN
  IF \/ r.flags \notin {0, INLINE}
     \/ inline /\ r.opcode \notin {WRITE, SEND, WRITE_IMM}
  THEN Refused
  ELSE CASE r.opcode = WRITE -> Write(RemoteAddress(r), inline)
         [] r.opcode = READ -> Read(RemoteAddress(r))
         [] r.opcode = SEND -> Send(inline)
         [] r.opcode = RECV -> Recv
         [] r.opcode = WRITE_IMM -> WriteImm(RemoteAddress(r), Immediate(r), inline)
         [] r.opcode = COMPARE_SWAP ->
              CompareSwap(RemoteAddress(r), Compare(r), Value(r))
         [] r.opcode = FETCH_ADD -> FetchAdd(RemoteAddress(r), Value(r))
         [] OTHER -> Refused

\* decode_request in ffi.rs
RustRequest(r) ==
  LET inline == r.flags = INLINE IN
  IF \/ r.flags # 0 /\ r.flags # INLINE
     \/ inline /\ ~(r.opcode \in {WRITE, SEND, WRITE_IMM})
  THEN Refused
  ELSE CASE r.opcode = WRITE -> Write(RemoteAddress(r), inline)
         [] r.opcode = READ -> Read(RemoteAddress(r))
         [] r.opcode = SEND -> Send(inline)
         [] r.opcode = RECV -> Recv
         [] r.opcode = WRITE_IMM -> WriteImm(RemoteAddress(r), Immediate(r), inline)
         [] r.opcode = COMPARE_SWAP ->
              CompareSwap(RemoteAddress(r), Compare(r), Value(r))
         [] r.opcode = FETCH_ADD -> FetchAdd(RemoteAddress(r), Value(r))
         [] OTHER -> Refused

\* r101_submit_transfer in engine.c judges the requests itself.
CAccepts(r) ==
  /\ r.flags = 0 \/ r.flags = INLINE
  /\ r.flags = INLINE => r.opcode \in {WRITE, SEND, WRITE_IMM}
  /\ r.opcode \in {WRITE, READ, SEND, RECV, WRITE_IMM, COMPARE_SWAP, FETCH_ADD}

-----------------------------------------------------------------------------
(* Statuses *)

\* r101_result
Code == [OK |-> 0, UNIMPLEMENTED |-> -1, INVALID |-> -2, BUSY |-> -3,
         IO_ERROR |-> -4, TIMEOUT |-> -5, UNSUPPORTED |-> -6, NO_MEMORY |-> -7,
         INVALID_STATE |-> -8, CANCELED |-> -9]
Errors == DOMAIN Code \ {"OK"}

\* encode_result in ffi.cpp, encode_error in ffi.rs, _error_code in Python.
CppResult(r) == Code[r]
RustError(e) == Code[e]
ErrorName(n) == CHOOSE e \in Errors : Code[e] = n

\* A status of a native engine, and of Python.
Pending == [state |-> "PENDING"]
Failed(error) == [state |-> "FAILED", error |-> error]
Completed == [state |-> "COMPLETED", receive |-> "nothing"]
Message(n) == [state |-> "COMPLETED", receive |-> "message", length |-> n]
WriteNotice(n) == [state |-> "COMPLETED", receive |-> "notice", immediate |-> n]

\* r101_transfer_status with nothing but zeros in it; kind 0 is no kind.
ZeroStatus == [state |-> "PENDING", error |-> Code.OK, kind |-> 0, immediate |-> 0,
               length |-> 0]

RECV_MESSAGE == 1
RECV_WRITE_IMM == 2

\* encode_status in ffi.cpp; it aborts for a task that failed with Ok.
CppAborts(s) == s.state = "FAILED" /\ s.error = "OK"
CppStatus(s) ==
  CASE s.state = "FAILED" ->
         [ZeroStatus EXCEPT !.state = "FAILED", !.error = CppResult(s.error)]
    [] s.state = "COMPLETED" /\ s.receive = "nothing" ->
         [ZeroStatus EXCEPT !.state = "COMPLETED"]
    [] s.state = "COMPLETED" /\ s.receive = "message" ->
         [ZeroStatus EXCEPT !.state = "COMPLETED", !.kind = RECV_MESSAGE,
                            !.length = s.length]
    [] s.state = "COMPLETED" /\ s.receive = "notice" ->
         [ZeroStatus EXCEPT !.state = "COMPLETED", !.kind = RECV_WRITE_IMM,
                            !.immediate = s.immediate]
    [] OTHER -> ZeroStatus

\* encode_status in ffi.rs, whose engines cannot fail with Ok
RustStatus(s) ==
  LET received(kind) == [ZeroStatus EXCEPT !.state = "COMPLETED", !.kind = kind] IN
  CASE s.state = "PENDING" -> ZeroStatus
    [] s.state = "FAILED" ->
         [ZeroStatus EXCEPT !.state = "FAILED", !.error = RustError(s.error)]
    [] s.state = "COMPLETED" ->
         CASE s.receive = "message" ->
                [received(RECV_MESSAGE) EXCEPT !.length = s.length]
           [] s.receive = "notice" ->
                [received(RECV_WRITE_IMM) EXCEPT !.immediate = s.immediate]
           [] OTHER -> received(0)

\* Slip: every completed task is read as a receive.
DecodeStatusAnyKind(s, kind) ==
  IF s.state = "FAILED" THEN Failed(ErrorName(s.error))
  ELSE IF s.state = "PENDING" THEN Pending
  ELSE IF s.kind = RECV_MESSAGE THEN Message(s.length)
  ELSE WriteNotice(s.immediate)

\* get_transfer_statuses of native_engine.py reads one status of a task of
\* this kind, or raises.
DecodeStatus(s, kind) ==
  IF s.state = "FAILED"
  THEN IF \E e \in Errors : Code[e] = s.error THEN Failed(ErrorName(s.error))
       ELSE Refused
  ELSE IF s.error # Code.OK THEN Refused
  ELSE IF s.state = "PENDING" THEN Pending
  ELSE IF kind # "Recv" THEN Completed
  ELSE CASE s.kind = RECV_MESSAGE /\ s.immediate = 0 -> Message(s.length)
         [] s.kind = RECV_WRITE_IMM /\ s.length = 0 -> WriteNotice(s.immediate)
         [] OTHER -> Refused

\* What the header promises of a task of this kind.
Promised(s, kind) ==
  /\ s.state = "FAILED" => s.error \in Errors
  /\ s.state = "COMPLETED" => (s.receive # "nothing" <=> kind = "Recv")

=============================================================================
